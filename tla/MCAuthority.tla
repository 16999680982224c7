---------------------------- MODULE MCAuthority ----------------------------
(***************************************************************************)
(* Authority for TLC: two /24s, {1, 2} and {3, 4}.  A zone with servers 1  *)
(* and 2, which merge into the first /24, and a CDN's zone with server 3;  *)
(* 1 and 3 are in the country unless that is disputed.                     *)
(***************************************************************************)
EXTENDS Authority

CONSTANTS site, cdn

MCPrefixes == {{a} : a \in 1 .. 4} \cup {{1, 2}, {3, 4}}
MCBlock24 == [a \in 1 .. 4 |-> IF a <= 2 THEN {1, 2} ELSE {3, 4}]
MCAuthorities == [z \in {site, cdn} |-> IF z = site THEN {1, 2} ELSE {3}]

\* Before and after a round that disputes 1 and 3, promotes 2, and finds the
\* first zone named by hand; and one in between where 4, listed by itself
\* before, is disputed while the CDN's /24 around it may be retained.
MCBefore == [direct |-> {1, 4}, disputed |-> {}, promoted |-> {}, shared |-> {2}, manual |-> {}]
MCAfter == [direct |-> {1, 3}, disputed |-> {1, 3}, promoted |-> {2}, shared |-> {}, manual |-> {site}]
MCBetween == [direct |-> {1}, disputed |-> {4}, promoted |-> {}, shared |-> {2}, manual |-> {}]
MCUpstreams == {MCBefore, MCAfter, MCBetween}
=============================================================================
