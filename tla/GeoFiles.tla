------------------------------ MODULE GeoFiles ------------------------------
(***************************************************************************)
(* One location database: the step that downloads it, through the server's *)
(* entity tag, a file beside the destination, the test of the database and *)
(* a rename; and the lookups of the panel and of the steps, which share an *)
(* open reader and look at the file's time to see whether it is current.   *)
(* A process may be killed at any point of a download.  Lookups hold a     *)
(* mutex; the download knows nothing of them.                              *)
(***************************************************************************)
EXTENDS Integers

CONSTANTS Lookups,     \* lookups in progress
          MaxServed,   \* bound: versions the server publishes
          Sound,       \* versions that pass VerifyFile
          MaxInstalls, \* bound: databases installed
          MaxGeoFaults, \* bound: failed opens, kills, lost tags
          NoLookup     \* the mutex is free

ASSUME GeoConstants ==
    /\ MaxServed \in Nat \ {0} /\ Sound \subseteq 1..MaxServed
    /\ MaxInstalls \in Nat /\ MaxGeoFaults \in Nat /\ NoLookup \notin Lookups

VARIABLES server,   \* the version the server serves; its tag is its number
          dest,     \* the database: version (0: none) and modification time
          etag,     \* the file with its tag; 0: none
          fetch,    \* the download: where it is, attempt, tag sent, part received
          reader,   \* the open reader: version (0: none) and the time remembered
          mu,       \* GeoDB.mu
          lookup,   \* each lookup: where it is, its answer, the time it saw
          openFails, \* history: failures to open
          geoFaults  \* history: faults so far

geoVars == <<server, dest, etag, fetch, reader, mu, lookup, openFails, geoFaults>>

Attempts == 1..2   \* direct and through the tunnel, in an order the address decides
NoFetch == [at |-> "idle", try |-> 1, tag |-> 0, part |-> 0]
NotLooking == [at |-> "idle", got |-> 0, mtime |-> 0]

GeoInit ==
    /\ server = 1
    /\ dest = [ver |-> 0, mtime |-> 0]
    /\ etag = 0
    /\ fetch = NoFetch
    /\ reader = [ver |-> 0, mtime |-> 0]
    /\ mu = NoLookup
    /\ lookup = [l \in Lookups |-> NotLooking]
    /\ openFails = 0 /\ geoFaults = 0

GeoFault == geoFaults < MaxGeoFaults /\ geoFaults' = geoFaults + 1

ServerPublishes ==
    /\ server < MaxServed
    /\ server' = server + 1
    /\ UNCHANGED <<dest, etag, fetch, reader, mu, lookup, openFails, geoFaults>>

\* stepGeoIP reaches this database within its budget: the tag is sent only
\* with a database it can belong to.
stepGeoIP ==
    /\ fetch.at = "idle"
    /\ dest.mtime < MaxInstalls
    /\ fetch' = [NoFetch EXCEPT !.at = "try", !.tag = IF dest.ver = 0 THEN 0 ELSE etag]
    /\ UNCHANGED <<server, dest, etag, reader, mu, lookup, openFails, geoFaults>>

NextAttempt == IF fetch.try \in Attempts /\ fetch.try + 1 \in Attempts
               THEN [fetch EXCEPT !.at = "try", !.try = @ + 1, !.part = 0]
               ELSE NoFetch

\* One attempt: not modified; a part as long as it should be; or an error, a
\* stalled connection, too few bytes.
download ==
    /\ fetch.at = "try"
    /\ \/ fetch.tag = server /\ fetch' = NoFetch
       \/ fetch.tag # server /\ fetch' = [fetch EXCEPT !.at = "verify", !.part = server]
       \/ fetch' = NextAttempt
    /\ UNCHANGED <<server, dest, etag, reader, mu, lookup, openFails, geoFaults>>

\* A test that has not been asked for is passed.
verifiedUnasked(part) == TRUE

\* VerifyFile: it opens, is of the right kind, and known addresses have the
\* countries they must have.
verified(part) == part \in Sound

Verify ==
    /\ fetch.at = "verify"
    /\ fetch' = IF verified(fetch.part) THEN [fetch EXCEPT !.at = "rename"] ELSE NextAttempt
    /\ UNCHANGED <<server, dest, etag, reader, mu, lookup, openFails, geoFaults>>

\* The tag first, then the database.
renameThenTagReversed ==
    \/ /\ fetch.at = "rename"
       /\ etag' = fetch.part
       /\ fetch' = [fetch EXCEPT !.at = "tag"]
       /\ UNCHANGED dest
    \/ /\ fetch.at = "tag"
       /\ dest' = [ver |-> fetch.part, mtime |-> dest.mtime + 1]
       /\ fetch' = NoFetch
       /\ UNCHANGED etag

\* The rename, then the tag.
renameThenTag ==
    \/ /\ fetch.at = "rename"
       /\ dest' = [ver |-> fetch.part, mtime |-> dest.mtime + 1]
       /\ fetch' = [fetch EXCEPT !.at = "tag"]
       /\ UNCHANGED etag
    \/ /\ fetch.at = "tag"
       /\ etag' \in {fetch.part, 0}   \* a server may send no tag
       /\ fetch' = NoFetch
       /\ UNCHANGED dest

Install ==
    /\ renameThenTag
    /\ UNCHANGED <<server, reader, mu, lookup, openFails, geoFaults>>

\* Killed, or the rename or the writing of the tag failed: what is written stays.
FetchCut ==
    /\ fetch.at # "idle"
    /\ GeoFault
    /\ fetch' = NoFetch
    /\ UNCHANGED <<server, dest, etag, reader, mu, lookup, openFails>>

Lookup(l) ==
    /\ lookup[l].at = "idle"
    /\ lookup' = [lookup EXCEPT ![l].at = "asked"]
    /\ UNCHANGED <<server, dest, etag, fetch, reader, mu, openFails, geoFaults>>

Lock(l) ==
    /\ lookup[l].at = "asked"
    /\ mu = NoLookup
    /\ mu' = l
    /\ lookup' = [lookup EXCEPT ![l].at = "locked"]
    /\ UNCHANGED <<server, dest, etag, fetch, reader, openFails, geoFaults>>

Answer(l, v) == lookup' = [lookup EXCEPT ![l] = [at |-> "answered", got |-> v, mtime |-> 0]]

\* mtimes[kind] equals the file's time.
current == reader.ver # 0 /\ reader.mtime = dest.mtime

\* load: the file's time.  No file: the reader is closed.
loadStat(l) ==
    /\ lookup[l].at = "locked"
    /\ \/ dest.ver = 0 /\ Answer(l, 0) /\ reader' = [ver |-> 0, mtime |-> 0]
       \/ dest.ver # 0 /\ current /\ Answer(l, reader.ver) /\ UNCHANGED reader
       \/ /\ dest.ver # 0 /\ ~current
          /\ lookup' = [lookup EXCEPT ![l].at = "open", ![l].mtime = dest.mtime]
          /\ UNCHANGED reader
    /\ UNCHANGED <<server, dest, etag, fetch, mu, openFails, geoFaults>>

\* load: the file that is there now is opened, with the time seen before.
loadOpen(l) ==
    /\ lookup[l].at = "open"
    /\ reader' = [ver |-> dest.ver, mtime |-> lookup[l].mtime]
    /\ Answer(l, dest.ver)
    /\ UNCHANGED <<server, dest, etag, fetch, mu, openFails, geoFaults>>

\* It cannot be opened: the reader before, if any, goes on.
loadFails(l) ==
    /\ lookup[l].at = "open"
    /\ GeoFault
    /\ openFails' = openFails + 1
    /\ Answer(l, reader.ver)
    /\ UNCHANGED <<server, dest, etag, fetch, reader, mu>>

Unlock(l) ==
    /\ lookup[l].at = "answered"
    /\ mu = l
    /\ mu' = NoLookup
    /\ lookup' = [lookup EXCEPT ![l] = NotLooking]
    /\ UNCHANGED <<server, dest, etag, fetch, reader, openFails, geoFaults>>

GeoNext ==
    \/ ServerPublishes \/ stepGeoIP \/ download \/ Verify \/ Install \/ FetchCut
    \/ \E l \in Lookups : \/ Lookup(l) \/ Lock(l) \/ loadStat(l) \/ loadOpen(l)
                          \/ loadFails(l) \/ Unlock(l)

GeoSpec == GeoInit /\ [][GeoNext]_geoVars

Store == INSTANCE GeoStore WITH
    Accepted <- Sound,
    published <- dest.ver,
    lookup <- [l \in Lookups |->
                  [at |-> IF lookup[l].at \in {"locked", "open"} THEN "asked" ELSE lookup[l].at,
                   got |-> lookup[l].got]],
    last <- reader.ver,
    failures <- openFails

\* The files, the shared reader and its test by modification time behave as a
\* register: only databases that passed VerifyFile are looked up in, and every
\* lookup answers from the database that was in place at some moment while it
\* ran, although the file may be replaced between Stat and Open
\* (GeoDB.load, DBIP.reload, Runtime.Fetch).
ImplementsStore == Store!StoreSpec

\* When the server's answer would be "not modified", the database in place is
\* the server's, wherever a download was cut off (Fetch renames the database
\* before it writes the tag): no tag can hide an update for ever.
TagHidesNoUpdate == dest.ver # 0 /\ etag = server => dest.ver = server
=============================================================================
