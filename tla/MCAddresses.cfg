SPECIFICATION Spec
CONSTANTS
  Lookups = {l1, l2}
  NoLookup = none
  MaxServed = 3
  MaxInstalls = 3
  Sound = {1, 3}
  MaxGeoFaults = 2
  NodeCount = 2
  Width = 3
  V4Path <- V4Bits
  Word = 3
  MaxRanges = 2
  LastAddr = 5
  Databases = {q, m, d}
  Qqwry = q
  Opinions <- OpinionSet
  Registries <- RegistrySet
  MainlandProbes = {2}
  OffshoreProbes = {4}
  MaxDropRatio = 50
  MinAddresses = 2
  PromoteLimit = 1
  DisputeRatio = 50
  ZoneName <- ZoneNames
  InfraZones <- InfraSet
  CNZones = {"cn"}
  SharedASN <- SharedNetworks
  KeepList = {}
  MinOldRows = 2
  MaxListRounds = 2
  AddrBits = 3
  Providers = {"p", "r"}
  NoProvider = "none"
  Feeds <- FeedSet
  MainlandAddrs = {0, 1, 2, 3, 5}
  TestNet = 7
  MinPrefixes = 2
  MinShrink = 2
  Mirrors = {m1, m2}
  MaxBuilds = 2
  Collectors = {timer, panel}
  Forged = {a}
  MinObservations = 2
  MaxAgeDays = 1
  MaxDay = 3
  MaxCollections = 3
INVARIANTS
  TagHidesNoUpdate
  WalkMatchesGet
  RangesAreExact
  AgreementIsExact
  ZonesMatchLists
  OwnerIsLongest
  EvidenceDecides
PROPERTIES
  ImplementsStore
CHECK_DEADLOCK FALSE
