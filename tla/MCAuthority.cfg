SPECIFICATION FairSpec
CONSTANTS
  site = site
  cdn = cdn
  Addrs = {1, 2, 3, 4}
  PrefixSets <- MCPrefixes
  Block24 <- MCBlock24
  Zones = {site, cdn}
  Steered = {cdn}
  Authorities <- MCAuthorities
  Upstreams <- MCUpstreams
  AccumTTL = 1
  ReloadMin = 1
  MaxECSEntries = 2
  GuardMin = 2
  MinRatio = 60
  MaxFaults = 2
INVARIANTS
  ListIsRight
PROPERTIES
  KernelCatchesUp
