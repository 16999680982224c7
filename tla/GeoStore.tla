------------------------------ MODULE GeoStore ------------------------------
(***************************************************************************)
(* What a location database promises to those who look addresses up: it is *)
(* a register.  Only accepted versions are ever published, and a lookup    *)
(* answers from the version published at one moment between question and   *)
(* answer - except when opening the file fails, then from the version last *)
(* answered from, and each such answer is accounted for by a failure.      *)
(***************************************************************************)
EXTENDS Naturals

CONSTANTS Lookups,   \* lookups in progress
          Accepted   \* versions that pass the test

VARIABLES published, \* the published version; 0: none
          lookup,    \* each lookup: where it is, and its answer
          last,      \* the version last answered from; 0: none
          failures   \* failures to open the file

storeVars == <<published, lookup, last, failures>>

NotLooking == [at |-> "idle", got |-> 0]

StoreInit ==
    /\ published = 0
    /\ lookup = [l \in Lookups |-> NotLooking]
    /\ last = 0
    /\ failures = 0

Publish ==
    /\ \E v \in Accepted : published' = v
    /\ UNCHANGED <<lookup, last, failures>>

Ask(l) ==
    /\ lookup[l].at = "idle"
    /\ lookup' = [lookup EXCEPT ![l].at = "asked"]
    /\ UNCHANGED <<published, last, failures>>

Read(l, v) ==
    /\ lookup[l].at = "asked"
    /\ lookup' = [lookup EXCEPT ![l] = [at |-> "answered", got |-> v]]
    /\ last' = v

ReadCurrent(l) == Read(l, published) /\ UNCHANGED <<published, failures>>

ReadLast(l) == Read(l, last) /\ failures' = failures + 1 /\ UNCHANGED published

Return(l) ==
    /\ lookup[l].at = "answered"
    /\ lookup' = [lookup EXCEPT ![l] = NotLooking]
    /\ UNCHANGED <<published, last, failures>>

StoreNext ==
    \/ Publish
    \/ \E l \in Lookups : Ask(l) \/ ReadCurrent(l) \/ ReadLast(l) \/ Return(l)

StoreSpec == StoreInit /\ [][StoreNext]_storeVars
=============================================================================
