---------------------------- MODULE Panel_proofs ----------------------------
(***************************************************************************)
(* The panel's accounts, for every clock, every length of sessions and     *)
(* waits, and any number of requests, cookies and addresses: what was      *)
(* spent stays spent, an earned wait is served, and the record of          *)
(* credentials stays sound.                                                *)
(***************************************************************************)
EXTENDS AuthRecord, PanelSessions, LoginGuard, TLAPS

(***************************************************************************)
(* Sessions and codes.  A cookie that was logged out is on the list until  *)
(* it has expired; while the step file could be written, it is the highest *)
(* of the steps accepted.                                                  *)
(***************************************************************************)
ListedOrExpired ==
    /\ loggedOut \subseteq cookies
    /\ \A c \in loggedOut : c.exp <= clock \/ c \in DOMAIN revoked
    /\ \A c \in DOMAIN revoked : revoked[c] = c.exp + Grace

FileIsHighest ==
    /\ accepted \subseteq Nat
    /\ doubled => stepLost
    /\ ~stepLost => \A s \in accepted : s <= stepFile

SessInv == SessTypeOK /\ ListedOrExpired /\ FileIsHighest /\ doubled \in BOOLEAN /\ stepLost \in BOOLEAN

LEMMA SessNumbers ==
    /\ SessionTTL \in Nat \ {0} /\ RememberTTL \in Nat \ {0} /\ Grace \in Nat \ {0}
    /\ MaxClock \in Nat \ {0} /\ MaxKey \in Nat \ {0} /\ SessionTTL < RememberTTL
  BY SessionLimits

LEMMA SessInvInit == SessInit => SessInv
  <1> SUFFICES ASSUME SessInit PROVE SessInv
    OBVIOUS
  <1>1. DOMAIN revoked = {}
    BY DEF SessInit
  <1>2. SessTypeOK
    BY <1>1, SessNumbers DEF SessInit, SessTypeOK
  <1>3. ListedOrExpired
    BY <1>1 DEF SessInit, ListedOrExpired
  <1>4. FileIsHighest /\ doubled \in BOOLEAN /\ stepLost \in BOOLEAN
    BY DEF SessInit, FileIsHighest
  <1>5. QED
    BY <1>2, <1>3, <1>4 DEF SessInv

\* The cookie of a session is one of Cookie, whatever key and length.
LEMMA IssuedCookie ==
    ASSUME SessTypeOK, NEW key \in 1..MaxKey, NEW ttl \in {SessionTTL, RememberTTL}
    PROVE  issueSession(key, ttl) \in Cookie
  BY SessNumbers DEF SessTypeOK, Cookie, issueSession

LEMMA StartKeeps ==
    ASSUME SessInv, startSession
    PROVE  SessInv'
  <1>1. PICK step \in 0..(MaxClock + 1) : checkTOTPCode(step)
    BY DEF startSession
  <1>2. step > stepFile /\ step \in Nat
    BY <1>1, SessNumbers DEF checkTOTPCode, Larger, SessInv, SessTypeOK
  <1>3. SessTypeOK'
    <2>1. cookies' \subseteq Cookie /\ cookies \subseteq cookies'
      BY IssuedCookie DEF startSession, SessInv, SessTypeOK
    <2>2. lastStep' \in 0..(MaxClock + 1) /\ stepFile' \in 0..(MaxClock + 1)
      BY <1>1 DEF checkTOTPCode, SessInv, SessTypeOK
    <2>3. QED
      BY <2>1, <2>2, SessNumbers DEF startSession, SessInv, SessTypeOK
  <1>4. ListedOrExpired'
    BY DEF startSession, SessInv, ListedOrExpired
  <1>5. FileIsHighest' /\ doubled' \in BOOLEAN /\ stepLost' \in BOOLEAN
    <2>1. CASE stepFile' = step /\ UNCHANGED stepLost
      <3>1. CASE stepLost
        BY <1>1, <1>2, <2>1, <3>1 DEF checkTOTPCode, SessInv, FileIsHighest
      <3>2. CASE ~stepLost
        <4>1. step \notin accepted /\ ~doubled
          BY <1>2, <3>2, SessNumbers DEF SessInv, FileIsHighest, SessTypeOK
        <4>2. ~doubled' /\ ~stepLost' /\ accepted' = accepted \cup {step}
          <5>1. doubled' = (doubled \/ step \in accepted) /\ accepted' = accepted \cup {step}
            BY <1>1 DEF checkTOTPCode
          <5>2. QED
            BY <2>1, <3>2, <4>1, <5>1
        <4>3. FileIsHighest'
          BY <1>2, <2>1, <3>2, <4>2, SessNumbers DEF SessInv, FileIsHighest, SessTypeOK
        <4>4. doubled' \in BOOLEAN /\ stepLost' \in BOOLEAN
          BY <1>1, <2>1 DEF checkTOTPCode, SessInv
        <4>5. QED
          BY <4>3, <4>4
      <3>3. QED
        BY <3>1, <3>2
    <2>2. CASE stepLost' = TRUE /\ UNCHANGED stepFile
      BY <1>1, <1>2, <2>2 DEF checkTOTPCode, SessInv, FileIsHighest
    <2>3. QED
      BY <1>1, <2>1, <2>2 DEF checkTOTPCode
  <1>6. QED
    BY <1>3, <1>4, <1>5 DEF SessInv

\* A log-out prunes the list; what leaves it has expired.
LEMMA LogoutKeeps ==
    ASSUME SessInv, NEW c \in cookies, logout(c)
    PROVE  SessInv'
  <1>1. DOMAIN revoked' = {d \in DOMAIN revoked : revoked[d] >= clock} \cup {c}
    BY DEF logout, listRevoked
  <1>2. \A d \in DOMAIN revoked' : revoked'[d] = IF d = c THEN c.exp + Grace ELSE revoked[d]
    BY DEF logout, listRevoked
  <1>3. \A d \in cookies : d.exp \in Nat
    BY SessNumbers DEF SessInv, SessTypeOK, Cookie
  <1>4. UNCHANGED <<clock, sessionKey, opening, cookies, lastStep, stepFile, accepted, doubled, stepLost>>
    BY DEF logout
  <1>5. loggedOut' = loggedOut \cup {c}
    BY DEF logout
  <1>6. ListedOrExpired'
    <2>1. ASSUME NEW d \in loggedOut, d # c, d \notin DOMAIN revoked'
          PROVE  d.exp <= clock
      <3>1. CASE d \in DOMAIN revoked
        BY <1>1, <1>3, <2>1, <3>1, SessNumbers DEF SessInv, ListedOrExpired, SessTypeOK
      <3>2. CASE d \notin DOMAIN revoked
        BY <2>1, <3>2 DEF SessInv, ListedOrExpired
      <3>3. QED
        BY <3>1, <3>2
    <2>2. QED
      BY <1>1, <1>2, <1>4, <1>5, <2>1 DEF SessInv, ListedOrExpired
  <1>7. QED
    BY <1>1, <1>4, <1>6 DEF SessInv, SessTypeOK, FileIsHighest

LEMMA SessInvStep == SessInv /\ [SessNext]_sessVars => SessInv'
  <1> SUFFICES ASSUME SessInv, [SessNext]_sessVars PROVE SessInv'
    OBVIOUS
  <1>1. CASE login
    BY <1>1, SessNumbers DEF login, SessInv, SessTypeOK, ListedOrExpired, FileIsHighest
  <1>2. CASE loginRefused
    BY <1>2, SessNumbers DEF loginRefused, SessInv, SessTypeOK, ListedOrExpired, FileIsHighest
  <1>3. CASE panelRestart
    BY <1>3, SessNumbers DEF panelRestart, SessInv, SessTypeOK, ListedOrExpired, FileIsHighest
  <1>4. CASE SessTick
    <2>1. \A c \in cookies : c.exp \in Nat
      BY SessNumbers DEF SessInv, SessTypeOK, Cookie
    <2>2. ListedOrExpired'
      BY <1>4, <2>1 DEF SessTick, SessInv, SessTypeOK, ListedOrExpired
    <2>3. QED
      BY <1>4, <2>2, SessNumbers DEF SessTick, SessInv, SessTypeOK, FileIsHighest
  <1>5. ASSUME NEW c \in cookies, renewSession(c)
        PROVE  SessInv'
    <2>1. issueSession(sessionKey + 1, renewalTTL(c)) \in Cookie
      BY <1>5, IssuedCookie, SessNumbers DEF renewSession, renewalTTL, SessInv, SessTypeOK
    <2>2. QED
      BY <1>5, <2>1, SessNumbers DEF renewSession, SessInv, SessTypeOK, ListedOrExpired, FileIsHighest
  <1>6. CASE UNCHANGED sessVars
    BY <1>6 DEF sessVars, SessInv, SessTypeOK, ListedOrExpired, FileIsHighest
  <1>7. QED
    BY <1>1, <1>2, <1>3, <1>4, <1>5, <1>6, StartKeeps, LogoutKeeps DEF SessNext

\* A cookie that was logged out and a code that was used stay spent, however
\* the list is pruned and the panel restarted (logout, validSession,
\* checkTOTPCode).
THEOREM SpentIsSpent == SessSpec => []SpentStaysSpent
  <1>1. SessInv => SpentStaysSpent
    <2> SUFFICES ASSUME SessInv PROVE SpentStaysSpent
      OBVIOUS
    <2>1. \A c \in cookies : c.exp \in Nat
      BY SessNumbers DEF SessInv, SessTypeOK, Cookie
    <2>2. LoggedOutStaysOut
      BY <2>1 DEF SessInv, SessTypeOK, ListedOrExpired, LoggedOutStaysOut, validSession
    <2>3. QED
      BY <2>2 DEF SessInv, FileIsHighest, SpentStaysSpent, NoCodeTwice
  <1>2. QED
    BY <1>1, SessInvInit, SessInvStep, PTL DEF SessSpec

-----------------------------------------------------------------------------
(***************************************************************************)
(* Password attempts.  As long as a wait lasts, the address's entry is in  *)
(* the table with the failure that earned it: an entry is pruned only when *)
(* the longest wait has passed since its last failure.                     *)
(***************************************************************************)
AttemptRecord == [pc : {"idle", "passed", "slot", "hashing"}, ip : Addresses \cup {"none"}]

GuardTypeOK ==
    /\ time \in Nat
    /\ DOMAIN failures \subseteq Addresses
    /\ \A ip \in DOMAIN failures : failures[ip].count \in Nat /\ failures[ip].last \in Nat
    /\ attempt \in [Attempts -> AttemptRecord]
    /\ \A a \in Attempts : attempt[a].pc # "idle" => attempt[a].ip \in Addresses
    /\ blocked \in [Addresses -> Int]

WaitIsListed(ip) ==
    blocked[ip] > time =>
        /\ ip \in DOMAIN failures
        /\ failures[ip].count >= FreeTries
        /\ failures[ip].last + waitFor(failures[ip].count) = blocked[ip]

GuardInv == GuardTypeOK /\ \A ip \in Addresses : WaitIsListed(ip)

LEMMA GuardNumbers == FreeTries \in Nat /\ Second \in Nat \ {0} /\ FirstWait \in Nat /\ LongestWait \in Nat
  BY GuardLimits

LEMMA WaitIsBounded ==
    ASSUME NEW n \in Nat
    PROVE  waitFor(n) \in Int /\ waitFor(n) <= LongestWait
  <1>1. CASE n < FreeTries
    BY <1>1, GuardNumbers DEF waitFor
  <1>2. CASE ~(n < FreeTries)
    <2>1. n - FreeTries \in Nat
      BY <1>2, GuardNumbers
    <2>2. FirstWait * 2^(n - FreeTries) \in Int
      BY <2>1, GuardNumbers
    <2>3. QED
      BY <1>2, <2>2, GuardNumbers DEF waitFor
  <1>3. QED
    BY <1>1, <1>2

LEMMA GuardInvInit == GuardInit => GuardInv
  <1> SUFFICES ASSUME GuardInit PROVE GuardInv
    OBVIOUS
  <1>1. DOMAIN failures = {}
    BY DEF GuardInit
  <1>2. GuardTypeOK
    BY <1>1 DEF GuardInit, GuardTypeOK, AttemptRecord, NoAttempt
  <1>3. QED
    BY <1>2 DEF GuardInit, GuardInv, WaitIsListed

\* The table after a failure: the entry of ip is new, others are as they were
\* or older than the longest wait and gone.
LEMMA TableAfterFailure ==
    ASSUME GuardTypeOK, NEW ip \in Addresses, failures' = Pruned(Counted(ip))
    PROVE  /\ DOMAIN failures' \subseteq Addresses
           /\ ip \in DOMAIN failures'
           /\ failures'[ip] = Counted(ip)[ip]
           /\ Counted(ip)[ip].count \in Nat /\ Counted(ip)[ip].last = time
           /\ \A p \in DOMAIN failures' \ {ip} : p \in DOMAIN failures /\ failures'[p] = failures[p]
           /\ \A p \in DOMAIN failures \ {ip} :
                p \in DOMAIN failures' \/ failures[p].last < time - LongestWait
  <1> DEFINE f == Counted(ip)
  <1>1. /\ DOMAIN f = DOMAIN failures \cup {ip}
        /\ \A p \in DOMAIN failures \ {ip} : f[p] = failures[p]
        /\ f[ip].count \in Nat /\ f[ip].last = time
    BY DEF Counted, GuardTypeOK
  <1> HIDE DEF f
  <1>2. ip \notin Old(f)
    BY <1>1, GuardNumbers DEF Old, GuardTypeOK
  <1>3. failures' = Without(f, Old(f)) \/ failures' = f
    BY DEF Pruned, f
  <1>4. CASE failures' = f
    BY <1>1, <1>4 DEF GuardTypeOK, f
  <1>5. CASE failures' = Without(f, Old(f))
    <2>1. DOMAIN failures' = DOMAIN f \ Old(f) /\ \A p \in DOMAIN failures' : failures'[p] = f[p]
      BY <1>5 DEF Without
    <2>2. \A p \in DOMAIN f : p \in Old(f) => f[p].last < time - LongestWait
      BY DEF Old
    <2>3. QED
      BY <1>1, <1>2, <2>1, <2>2 DEF GuardTypeOK, f
  <1>6. QED
    BY <1>3, <1>4, <1>5

LEMMA CountKeeps ==
    ASSUME GuardInv, NEW a \in Attempts, Count(a)
    PROVE  GuardInv'
  <1>1. PICK ip \in Addresses :
        /\ failures' = Pruned(Counted(ip)) /\ time' = time
        /\ attempt' = [attempt EXCEPT ![a].pc = "hashing"]
        /\ blocked' = [blocked EXCEPT ![ip] =
             LET n == Counted(ip)[ip].count IN IF n >= FreeTries THEN time + waitFor(n) ELSE @]
    BY DEF Count, authFailure, GuardInv, GuardTypeOK
  <1>2. /\ DOMAIN failures' \subseteq Addresses
        /\ ip \in DOMAIN failures'
        /\ failures'[ip] = Counted(ip)[ip]
        /\ Counted(ip)[ip].count \in Nat /\ Counted(ip)[ip].last = time
        /\ \A p \in DOMAIN failures' \ {ip} : p \in DOMAIN failures /\ failures'[p] = failures[p]
        /\ \A p \in DOMAIN failures \ {ip} :
             p \in DOMAIN failures' \/ failures[p].last < time - LongestWait
    BY <1>1, TableAfterFailure DEF GuardInv
  <1>3. attempt' \in [Attempts -> AttemptRecord] /\ \A b \in Attempts : attempt'[b].pc # "idle" => attempt'[b].ip \in Addresses
    <2>1. attempt[a].pc = "slot"
      BY DEF Count
    <2>2. QED
      BY <1>1, <2>1 DEF GuardInv, GuardTypeOK, AttemptRecord
  <1>4. waitFor(Counted(ip)[ip].count) \in Int
    BY <1>2, WaitIsBounded
  <1>5. GuardTypeOK'
    <2>1. blocked' \in [Addresses -> Int]
      BY <1>1, <1>4 DEF GuardInv, GuardTypeOK
    <2>2. \A p \in DOMAIN failures' : failures'[p].count \in Nat /\ failures'[p].last \in Nat
      BY <1>2 DEF GuardInv, GuardTypeOK
    <2>3. QED
      BY <1>1, <1>2, <1>3, <2>1, <2>2 DEF GuardInv, GuardTypeOK
  <1>6. WaitIsListed(ip)'
    <2>1. CASE Counted(ip)[ip].count >= FreeTries
      <3>1. blocked'[ip] = time + waitFor(Counted(ip)[ip].count)
        BY <1>1, <2>1 DEF GuardInv, GuardTypeOK
      <3>2. QED
        BY <1>1, <1>2, <2>1, <3>1 DEF WaitIsListed
    <2>2. CASE ~(Counted(ip)[ip].count >= FreeTries)
      <3>1. blocked'[ip] = blocked[ip]
        BY <1>1, <2>2 DEF GuardInv, GuardTypeOK
      <3>2. ~(blocked[ip] > time)
        BY <1>1, <1>2, <2>2, GuardNumbers DEF GuardInv, GuardTypeOK, WaitIsListed, Counted
      <3>3. QED
        BY <1>1, <3>1, <3>2 DEF WaitIsListed
    <2>3. QED
      BY <2>1, <2>2
  <1>7. ASSUME NEW p \in Addresses, p # ip
        PROVE  WaitIsListed(p)'
    <2>1. blocked'[p] = blocked[p]
      BY <1>1, <1>7 DEF GuardInv, GuardTypeOK
    <2>2. CASE p \in DOMAIN failures'
      BY <1>1, <1>2, <1>7, <2>1, <2>2 DEF WaitIsListed, GuardInv
    <2>3. CASE p \notin DOMAIN failures'
      <3>1. SUFFICES ASSUME blocked[p] > time PROVE FALSE
        BY <1>1, <2>1 DEF WaitIsListed
      <3>2. /\ p \in DOMAIN failures /\ failures[p].last < time - LongestWait
            /\ failures[p].last + waitFor(failures[p].count) = blocked[p]
        BY <1>2, <1>7, <2>3, <3>1 DEF WaitIsListed, GuardInv
      <3>3. waitFor(failures[p].count) \in Int /\ waitFor(failures[p].count) <= LongestWait
        BY <3>2, WaitIsBounded DEF GuardInv, GuardTypeOK
      <3>4. QED
        BY <3>1, <3>2, <3>3, GuardNumbers DEF GuardInv, GuardTypeOK
    <2>4. QED
      BY <2>2, <2>3
  <1>8. QED
    BY <1>5, <1>6, <1>7 DEF GuardInv

LEMMA GuardInvStep == GuardInv /\ [GuardNext]_guardVars => GuardInv'
  <1> SUFFICES ASSUME GuardInv, [GuardNext]_guardVars PROVE GuardInv'
    OBVIOUS
  <1> USE DEF GuardInv, GuardTypeOK
  <1>1. CASE GuardTick
    BY <1>1 DEF GuardTick, WaitIsListed
  <1>2. ASSUME NEW a \in Attempts, verifyGuarded(a)
        PROVE  GuardInv'
    BY <1>2 DEF verifyGuarded, AttemptRecord, WaitIsListed
  <1>3. ASSUME NEW a \in Attempts, TakeSlot(a)
        PROVE  GuardInv'
    <2>1. /\ attempt' \in [Attempts -> AttemptRecord]
          /\ \A b \in Attempts : attempt'[b].pc # "idle" => attempt'[b].ip \in Addresses
      <3>1. attempt[a].pc = "passed"
        BY <1>3 DEF TakeSlot
      <3>2. attempt' = [attempt EXCEPT ![a] = [attempt[a] EXCEPT !.pc = "slot"]] \/ attempt' = [attempt EXCEPT ![a] = NoAttempt]
        BY <1>3 DEF TakeSlot
      <3>3. QED
        BY <3>1, <3>2 DEF AttemptRecord, NoAttempt
    <2>2. QED
      BY <1>3, <2>1 DEF TakeSlot, WaitIsListed
  <1>4. ASSUME NEW a \in Attempts, verifyPassword(a)
        PROVE  GuardInv'
    <2>1. /\ attempt' \in [Attempts -> AttemptRecord]
          /\ \A b \in Attempts : attempt'[b].pc # "idle" => attempt'[b].ip \in Addresses
      BY <1>4 DEF verifyPassword, AttemptRecord, NoAttempt
    <2>2. CASE UNCHANGED <<failures, blocked>>
      BY <1>4, <2>1, <2>2 DEF verifyPassword, WaitIsListed
    <2>3. CASE authSuccess(attempt[a].ip)
      <3>1. attempt[a].ip \in Addresses /\ time' = time
        BY <1>4 DEF verifyPassword
      <3>2. /\ DOMAIN failures' = DOMAIN failures \ {attempt[a].ip}
            /\ \A p \in DOMAIN failures' : failures'[p] = failures[p]
        BY <2>3 DEF authSuccess, Without
      <3>3. blocked' = [blocked EXCEPT ![attempt[a].ip] = 0]
        BY <2>3 DEF authSuccess
      <3>4. QED
        BY <2>1, <3>1, <3>2, <3>3 DEF WaitIsListed
    <2>4. QED
      BY <1>4, <2>2, <2>3 DEF verifyPassword
  <1>5. CASE UNCHANGED guardVars
    BY <1>5 DEF guardVars, WaitIsListed
  <1>6. QED
    BY <1>1, <1>2, <1>3, <1>4, <1>5, CountKeeps DEF GuardNext

\* What rounds to no second is less than one.
LEMMA LessThanASecond ==
    ASSUME NEW n \in Nat, Seconds(n) = 0
    PROVE  n < Second
  BY GuardLimits, SMTT(30) DEF Seconds

\* A wait an address has earned is served but for its last part of a second,
\* although the table is pruned and attempts overlap (authWait, authFailure,
\* authSuccess).
THEOREM WaitsAreServed == GuardSpec => ThrottleHolds
  <1> DEFINE Served == \A a \in Attempts : attempt[a].pc = "idle" /\ attempt'[a].pc = "passed"
                          => time + Second > blocked[attempt'[a].ip]
  <1>1. GuardInv /\ [GuardNext]_guardVars => [Served]_guardVars
    <2> SUFFICES ASSUME GuardInv, GuardNext,
                        NEW a \in Attempts, attempt[a].pc = "idle", attempt'[a].pc = "passed"
                 PROVE  time + Second > blocked[attempt'[a].ip]
      OBVIOUS
    <2> USE DEF GuardInv, GuardTypeOK
    <2>1. ASSUME NEW b \in Attempts, verifyGuarded(b)
          PROVE  time + Second > blocked[attempt'[a].ip]
      <3>1. PICK ip \in Addresses : authWait(ip) = 0 /\ attempt' = [attempt EXCEPT ![b] = [pc |-> "passed", ip |-> ip]]
        BY <2>1 DEF verifyGuarded
      <3>2. attempt'[a].ip = ip
        BY <3>1
      <3>3. blocked[ip] < time + Second
        <4>1. SUFFICES ASSUME blocked[ip] > time PROVE blocked[ip] < time + Second
          BY GuardNumbers
        <4>2. /\ ip \in DOMAIN failures /\ failures[ip].count >= FreeTries
              /\ failures[ip].last + waitFor(failures[ip].count) = blocked[ip]
          BY <4>1 DEF WaitIsListed
        <4>3. waitFor(failures[ip].count) \in Int
          BY <4>2, WaitIsBounded
        <4>4. authWait(ip) = Seconds(blocked[ip] - time)
          BY <4>1, <4>2, <4>3, GuardNumbers DEF authWait
        <4>5. blocked[ip] - time \in Nat
          BY <4>1
        <4>6. QED
          BY <3>1, <4>4, <4>5, LessThanASecond, GuardNumbers
      <3>4. QED
        BY <3>2, <3>3
    <2>2. ASSUME NEW b \in Attempts, TakeSlot(b) \/ Count(b) \/ verifyPassword(b)
          PROVE  FALSE
      BY <2>2 DEF TakeSlot, Count, verifyPassword, NoAttempt, AttemptRecord
    <2>3. CASE GuardTick
      BY <2>3 DEF GuardTick
    <2>4. QED
      BY <2>1, <2>2, <2>3 DEF GuardNext
  <1>2. QED
    BY <1>1, GuardInvInit, GuardInvStep, PTL DEF GuardSpec, ThrottleHolds
-----------------------------------------------------------------------------
(***************************************************************************)
(* The record.  What a handler checked stays true of the record until it   *)
(* is rewritten in that respect, and what the helper has read stays as it  *)
(* was read: a merge of the two is sound although the record in the file   *)
(* may be another by then.  Only the session key is compared with the one  *)
(* that the rewrite replaces.                                              *)
(***************************************************************************)
OAuthArg == [id : ClientIds \cup {None}, secret : {Secret, None}, users : SUBSET GitHubUsers]
CredentialArg == [id : ClientIds \cup {None}, secret : {Secret, None}]
BoundArg == [bound : [GitHubUsers -> Accounts \cup {None}]]
Args == OAuthArg \cup CredentialArg \cup BoundArg \cup BOOLEAN \cup {<<>>}

KeyOps == {"password", "rotate", "cli-password"}
Ops == KeyOps \cup {"none", "username", "oauth", "callback", "toggle", "totp", "cli-totp"}
RequestRecord == [pc : {"idle", "exchange", "sent", "loaded", "written"}, op : Ops, arg : Args,
                  base : Record, stale : SUBSET Aspects, heard : BOOLEAN]

ArgFits(r) ==
    /\ r.op = "oauth" => r.arg \in OAuthArg
    /\ r.op = "callback" => IF r.pc = "exchange" THEN r.arg \in CredentialArg ELSE r.arg \in BoundArg
    /\ r.op \in {"toggle", "totp"} => r.arg \in BOOLEAN
    /\ r.pc = "exchange" => r.op = "callback"

\* A record with a way in; a record that is verified with what was proved.
WaySound(x) == x.disabled => oauthReady(x)
ProofSound(x, seen) == x.verified => <<x.id, x.secret>> \in seen

\* What a handler checked, said of record x.
WayChecked(r, x) ==
    /\ r.op = "oauth" /\ x.disabled => r.arg.id # None /\ r.arg.users # {}
    /\ r.op = "toggle" /\ r.arg = TRUE => oauthReady(x)

ProofChecked(r, x, seen) ==
    r.op = "callback" => IF r.pc = "exchange" THEN r.arg.id = x.id /\ r.arg.secret = x.secret
                         ELSE <<x.id, x.secret>> \in seen

\* Before the helper reads the record, and after.
Waiting(r) ==
    r.pc \in {"exchange", "sent"} =>
        /\ "way" \notin r.stale => WayChecked(r, rec)
        /\ "proof" \notin r.stale => ProofChecked(r, rec, proved)

Holding(r) ==
    r.pc = "loaded" =>
        /\ "way" \notin r.stale => WayChecked(r, r.base) /\ WaySound(r.base)
        /\ "proof" \notin r.stale => ProofChecked(r, r.base, proved) /\ ProofSound(r.base, proved)

RequestOK(r) ==
    /\ r \in RequestRecord
    /\ ArgFits(r)
    /\ r.base.key <= keys
    /\ Waiting(r)
    /\ Holding(r)
    /\ r.pc = "written" /\ r.op \in KeyOps /\ "key" \notin lost => r.base.key # rec.key

RecordOK ==
    /\ "way" \notin lost => WaySound(rec)
    /\ "proof" \notin lost => ProofSound(rec, proved)
    /\ "key" \notin lost => rec.key \notin retired

AuthInv ==
    /\ rec \in Record /\ keys \in Nat /\ rec.key <= keys
    /\ pending \in BOOLEAN /\ lost \subseteq Aspects
    /\ retired \subseteq 0..keys
    /\ DOMAIN req = Requests /\ \A q \in Requests : RequestOK(req[q])
    /\ RecordOK

LEMMA BlankRecord == Blank \in Record
  BY DEF Blank, Record

LEMMA RequestFields ==
    ASSUME NEW pc \in {"idle", "exchange", "sent", "loaded", "written"}, NEW op \in Ops, NEW arg \in Args
    PROVE  /\ Request(pc, op, arg) \in RequestRecord
           /\ Request(pc, op, arg).pc = pc /\ Request(pc, op, arg).op = op
           /\ Request(pc, op, arg).arg = arg
           /\ Request(pc, op, arg).base.key = 0 /\ Request(pc, op, arg).stale = {}
  <1>1. Blank.key = 0
    BY DEF Blank
  <1>2. QED
    BY <1>1, BlankRecord DEF Request, RequestRecord

LEMMA NoRequestFields == NoRequest \in RequestRecord /\ NoRequest.pc = "idle" /\ NoRequest.op = "none" /\ NoRequest.base.key = 0
  <1>1. "idle" \in {"idle", "exchange", "sent", "loaded", "written"} /\ "none" \in Ops /\ <<>> \in Args
    BY DEF Ops, Args
  <1>2. QED
    BY <1>1, RequestFields DEF NoRequest

(***************************************************************************)
(* What each operation makes of the record it read.                        *)
(***************************************************************************)
LEMMA PasswordMakes ==
    ASSUME NEW r \in Record, NEW k \in Nat, NEW b \in BOOLEAN
    PROVE  /\ passwordRecord(r, k, b) \in Record
           /\ passwordRecord(r, k, b).key = k
           /\ WaySound(r) \/ b => WaySound(passwordRecord(r, k, b))
           /\ \A seen : ProofSound(r, seen) => ProofSound(passwordRecord(r, k, b), seen)
  <1> DEFINE n == passwordRecord(r, k, b)
  <1>1. n \in Record /\ n.key = k
    BY DEF passwordRecord, Record
  <1>2. /\ n.id = r.id /\ n.secret = r.secret /\ n.users = r.users /\ n.verified = r.verified
        /\ n.disabled = (r.disabled /\ ~b)
    BY DEF passwordRecord, Record
  <1> HIDE DEF n
  <1>3. /\ WaySound(r) \/ b => WaySound(n)
        /\ \A seen : ProofSound(r, seen) => ProofSound(n, seen)
    BY <1>2 DEF WaySound, ProofSound, oauthReady
  <1>4. QED
    BY <1>1, <1>3 DEF n

LEMMA RotateMakes ==
    ASSUME NEW r \in Record, NEW k \in Nat
    PROVE  /\ [r EXCEPT !.key = k] \in Record
           /\ [r EXCEPT !.key = k].key = k
           /\ WaySound(r) => WaySound([r EXCEPT !.key = k])
           /\ \A seen : ProofSound(r, seen) => ProofSound([r EXCEPT !.key = k], seen)
  BY DEF Record, WaySound, ProofSound, oauthReady

LEMMA TotpMakes ==
    ASSUME NEW r \in Record, NEW b \in BOOLEAN
    PROVE  /\ [r EXCEPT !.totp = b] \in Record
           /\ [r EXCEPT !.totp = b].key = r.key
           /\ WaySound(r) => WaySound([r EXCEPT !.totp = b])
           /\ \A seen : ProofSound(r, seen) => ProofSound([r EXCEPT !.totp = b], seen)
  BY DEF Record, WaySound, ProofSound, oauthReady

LEMMA ToggleMakes ==
    ASSUME NEW r \in Record, NEW b \in BOOLEAN
    PROVE  /\ [r EXCEPT !.disabled = b] \in Record
           /\ [r EXCEPT !.disabled = b].key = r.key
           /\ (b => oauthReady(r)) => WaySound([r EXCEPT !.disabled = b])
           /\ \A seen : ProofSound(r, seen) => ProofSound([r EXCEPT !.disabled = b], seen)
  BY DEF Record, WaySound, ProofSound, oauthReady

LEMMA CallbackMakes ==
    ASSUME NEW r \in Record, NEW in \in BoundArg
    PROVE  /\ MergeOAuthVerified(r, in) \in Record
           /\ MergeOAuthVerified(r, in).key = r.key
           /\ WaySound(r) => WaySound(MergeOAuthVerified(r, in))
           /\ \A seen : <<r.id, r.secret>> \in seen => ProofSound(MergeOAuthVerified(r, in), seen)
  BY DEF Record, BoundArg, MergeOAuthVerified, WaySound, ProofSound, oauthReady

\* The settings page: a credential that was not replaced keeps what it proved.
LEMMA OAuthMakes ==
    ASSUME NEW r \in Record, NEW in \in OAuthArg
    PROVE  /\ MergeOAuthConfig(r, in) \in Record
           /\ MergeOAuthConfig(r, in).key = r.key
           /\ WaySound(r) /\ (r.disabled => in.id # None /\ in.users # {})
                => WaySound(MergeOAuthConfig(r, in))
           /\ \A seen : ProofSound(r, seen) \/ oauthCredentialReplaced(r, in)
                          => ProofSound(MergeOAuthConfig(r, in), seen)
  <1> DEFINE n == MergeOAuthConfig(r, in)
  <1>1. boundIDsFor(in.users, r.bound) \in [GitHubUsers -> Accounts \cup {None}]
    BY DEF boundIDsFor, Record
  <1>2. /\ n.key = r.key /\ n.disabled = r.disabled /\ n.id = in.id /\ n.users = in.users
        /\ n.secret = IF in.secret = None THEN r.secret ELSE in.secret
        /\ n.verified = (r.verified /\ ~oauthCredentialReplaced(r, in))
    BY DEF MergeOAuthConfig, Record
  <1>3. n \in Record
    BY <1>1 DEF MergeOAuthConfig, Record, OAuthArg, oauthCredentialReplaced
  <1> HIDE DEF n
  <1>4. WaySound(r) /\ (r.disabled => in.id # None /\ in.users # {}) => WaySound(n)
    BY <1>2 DEF WaySound, oauthReady, OAuthArg
  <1>5. ASSUME NEW seen, ProofSound(r, seen) \/ oauthCredentialReplaced(r, in)
        PROVE  ProofSound(n, seen)
    BY <1>2, <1>5 DEF ProofSound, oauthCredentialReplaced, OAuthArg
  <1>6. QED
    BY <1>2, <1>3, <1>4, <1>5 DEF n

LEMMA AuthInvInit == AuthInit => AuthInv
  <1> SUFFICES ASSUME AuthInit PROVE AuthInv
    OBVIOUS
  <1>1. /\ passwordRecord(Blank, 1, TRUE) \in Record /\ passwordRecord(Blank, 1, TRUE).key = 1
        /\ WaySound(Blank) /\ ProofSound(Blank, {}) /\ Blank.key = 0
        /\ WaySound(passwordRecord(Blank, 1, TRUE)) /\ ProofSound(passwordRecord(Blank, 1, TRUE), {})
    <2>1. WaySound(Blank) /\ ProofSound(Blank, {}) /\ Blank.key = 0
      BY DEF WaySound, ProofSound, Blank
    <2>2. QED
      BY <2>1, BlankRecord, PasswordMakes
  <1>2. ASSUME NEW id \in ClientIds, NEW users \in (SUBSET GitHubUsers) \ {{}}
        PROVE  /\ Configured(id, users) \in Record /\ Configured(id, users).key = 1
               /\ WaySound(Configured(id, users)) /\ ProofSound(Configured(id, users), {<<id, Secret>>})
    <2>1. Configured(id, users) \in Record
      BY DEF Configured, Record
    <2>2. QED
      BY <2>1, NoneIsNoValue DEF Configured, WaySound, ProofSound, oauthReady
  <1>3. rec \in Record /\ rec.key \in {0, 1} /\ WaySound(rec) /\ ProofSound(rec, proved)
    <2>1. CASE rec = Blank /\ proved = {}
      BY <1>1, <2>1, BlankRecord
    <2>2. CASE rec = passwordRecord(Blank, 1, TRUE) /\ proved = {}
      BY <1>1, <2>2
    <2>3. ASSUME NEW id \in ClientIds, NEW users \in (SUBSET GitHubUsers) \ {{}},
                 rec = Configured(id, users), proved = {<<id, Secret>>}
          PROVE  rec \in Record /\ rec.key \in {0, 1} /\ WaySound(rec) /\ ProofSound(rec, proved)
      BY <1>2, <2>3
    <2>4. QED
      BY <2>1, <2>2, <2>3 DEF AuthInit
  <1>4. \A q \in Requests : RequestOK(req[q])
    BY NoRequestFields DEF AuthInit, RequestOK, ArgFits, Waiting, Holding, Ops, KeyOps
  <1>5. keys = 1 /\ retired = {} /\ pending = FALSE /\ lost = {} /\ DOMAIN req = Requests
    BY DEF AuthInit
  <1>6. rec.key <= keys /\ retired \subseteq 0..keys /\ rec.key \notin retired
    BY <1>3, <1>5
  <1>7. pending \in BOOLEAN /\ lost \subseteq Aspects /\ keys \in Nat
    BY <1>5
  <1>8. QED
    BY <1>3, <1>4, <1>5, <1>5, <1>6, <1>7 DEF AuthInv, RecordOK

\* More may be proved meanwhile.
LEMMA ProvedGrows ==
    ASSUME NEW r \in RequestRecord, NEW x \in Record, proved \subseteq proved'
    PROVE  /\ ProofChecked(r, x, proved) => ProofChecked(r, x, proved')
           /\ ProofSound(x, proved) => ProofSound(x, proved')
  BY DEF ProofChecked, ProofSound

\* A step that leaves the record alone and moves one request.
LEMMA OneRequestMoves ==
    ASSUME AuthInv, NEW q \in Requests, NEW r, req' = [req EXCEPT ![q] = r],
           UNCHANGED <<rec, keys, lost>>, pending' \in BOOLEAN, proved \subseteq proved',
           retired' \subseteq 0..keys, "key" \notin lost => rec.key \notin retired', RequestOK(r)'
    PROVE  AuthInv'
  <1>1. DOMAIN req' = Requests /\ req'[q] = r /\ \A p \in Requests : p # q => req'[p] = req[p]
    BY DEF AuthInv
  <1>2. ASSUME NEW p \in Requests, p # q PROVE RequestOK(req[p])'
    <2>1. PICK o : o = req[p]
      OBVIOUS
    <2>2. RequestOK(o) /\ req'[p] = o /\ rec \in Record
      BY <1>1, <1>2, <2>1 DEF AuthInv
    <2>3. o \in RequestRecord /\ o.base \in Record
      BY <2>2 DEF RequestOK, RequestRecord
    <2>4. Waiting(o)'
      BY <2>2, <2>3, ProvedGrows DEF RequestOK, Waiting
    <2>5. Holding(o)'
      BY <2>2, <2>3, ProvedGrows DEF RequestOK, Holding
    <2>6. RequestOK(o)'
      BY <2>2, <2>4, <2>5 DEF RequestOK
    <2>7. QED
      BY <2>2, <2>6
  <1>3. \A p \in Requests : RequestOK(req[p])'
    BY <1>1, <1>2
  <1>4. RecordOK'
    BY DEF AuthInv, RecordOK, ProofSound
  <1>5. QED
    BY <1>1, <1>3, <1>4 DEF AuthInv

\* A rewrite of the record: what the others checked of the old one is stale if
\* it has changed; what they have read stays what it was.
LEMMA Rewrite ==
    ASSUME AuthInv, NEW q \in Requests, NEW record \in Record, NEW renewed \in SUBSET Aspects,
           writeAuthRecord(q, record, renewed),
           \/ record.key = keys + 1 /\ keys' = keys + 1 /\ "key" \in renewed
           \/ req[q].op \notin KeyOps /\ keys' = keys /\ record.key = req[q].base.key /\ "key" \notin renewed,
           "way" \in renewed \/ "way" \notin req[q].stale => WaySound(record),
           "proof" \in renewed \/ "proof" \notin req[q].stale => ProofSound(record, proved)
    PROVE  AuthInv'
  <1>1. /\ rec' = record /\ req[q].pc = "loaded"
        /\ lost' = (lost \cup req[q].stale \cup IF record.key # rec.key THEN {"key"} ELSE {}) \ renewed
        /\ UNCHANGED <<pending, retired, proved>>
    BY DEF writeAuthRecord
  <1>2. RequestOK(req[q]) /\ req[q].stale \in SUBSET Aspects
    BY DEF AuthInv, RequestOK, RequestRecord
  <1>3. /\ keys \in Nat /\ keys' \in Nat /\ keys <= keys' /\ rec.key \in Nat /\ rec.key <= keys
        /\ record.key \in Nat /\ record.key <= keys'
    <2>1. keys \in Nat /\ rec.key \in Nat /\ rec.key <= keys /\ record.key \in Nat
      BY DEF AuthInv, Record
    <2>2. req[q].base.key <= keys
      BY <1>2 DEF RequestOK
    <2>3. QED
      BY <2>1, <2>2
  <1>4. \/ rec'.key = keys + 1
        \/ "key" \in lost'
        \/ rec'.key = rec.key /\ "key" \notin lost /\ req[q].op \notin KeyOps
    BY <1>1
  <1>5. RecordOK'
    <2>1. "key" \notin lost' => rec'.key \notin retired'
      BY <1>1, <1>3, <1>4 DEF AuthInv, RecordOK
    <2>2. "way" \notin lost' => WaySound(rec')
      BY <1>1
    <2>3. "proof" \notin lost' => ProofSound(rec', proved')
      BY <1>1
    <2>4. QED
      BY <2>1, <2>2, <2>3 DEF RecordOK, WaySound, ProofSound, oauthReady
  <1>6. ASSUME NEW p \in Requests, p # q PROVE RequestOK(req[p])'
    <2>1. PICK o, fresh : o = req[p] /\ fresh = o.stale \cup (Changes(rec, record) \cap Rests(o))
      OBVIOUS
    <2>2. PICK n : n = [o EXCEPT !.stale = fresh]
      OBVIOUS
    <2>3. req'[p] = n
      BY <1>6, <2>1, <2>2 DEF writeAuthRecord
    <2>4. RequestOK(o) /\ o \in RequestRecord /\ rec \in Record
      BY <2>1 DEF AuthInv, RequestOK
    <2>5. fresh \in SUBSET Aspects
      BY <2>1, <2>4 DEF RequestRecord, Rests, Aspects, Changes
    <2>6. /\ n \in RequestRecord
          /\ n.pc = o.pc /\ n.op = o.op /\ n.arg = o.arg /\ n.base = o.base /\ n.stale = fresh
      BY <2>2, <2>4, <2>5 DEF RequestRecord
    <2>7. ArgFits(n)
      BY <2>4, <2>6 DEF RequestOK, ArgFits
    <2>8. Waiting(n)'
      <3> SUFFICES ASSUME n.pc \in {"exchange", "sent"}
                   PROVE  /\ "way" \notin n.stale => WayChecked(n, rec')
                          /\ "proof" \notin n.stale => ProofChecked(n, rec', proved')
        BY DEF Waiting, WayChecked, ProofChecked, oauthReady
      <3>1. "way" \notin n.stale => WayChecked(n, rec')
        <4> SUFFICES ASSUME "way" \notin n.stale PROVE WayChecked(n, rec')
          OBVIOUS
        <4>1. WayChecked(o, rec)
          BY <2>1, <2>4, <2>6 DEF RequestOK, Waiting
        <4>2. n.op \notin {"oauth", "toggle"} \/ (record.disabled = rec.disabled /\ oauthReady(record) = oauthReady(rec))
          BY <2>1, <2>6 DEF Rests, Changes
        <4>3. QED
          BY <1>1, <2>6, <4>1, <4>2 DEF WayChecked
      <3>2. "proof" \notin n.stale => ProofChecked(n, rec', proved')
        <4> SUFFICES ASSUME "proof" \notin n.stale PROVE ProofChecked(n, rec', proved')
          OBVIOUS
        <4>1. ProofChecked(o, rec, proved)
          BY <2>1, <2>4, <2>6 DEF RequestOK, Waiting
        <4>2. n.op # "callback" \/ (record.id = rec.id /\ record.secret = rec.secret)
          BY <2>1, <2>6 DEF Rests, Changes
        <4>3. QED
          BY <1>1, <2>6, <4>1, <4>2 DEF ProofChecked
      <3>3. QED
        BY <3>1, <3>2
    <2>9. Holding(n)'
      <3>1. n.pc = "loaded" => fresh = o.stale
        BY <2>1, <2>6 DEF Rests
      <3>2. QED
        BY <1>1, <2>4, <2>6, <3>1 DEF RequestOK, Holding, WayChecked, WaySound, ProofChecked, ProofSound, oauthReady
    <2>10. o.base.key \in Nat /\ o.base.key <= keys
      BY <2>4 DEF RequestOK, RequestRecord, Record
    <2>11. n.pc = "written" /\ n.op \in KeyOps /\ "key" \notin lost' => n.base.key # rec'.key
      BY <1>3, <1>4, <2>4, <2>6, <2>10 DEF RequestOK
    <2>12. n.base.key <= keys'
      BY <1>3, <2>6, <2>10
    <2>13. RequestOK(n)'
      BY <2>6, <2>7, <2>8, <2>9, <2>11, <2>12 DEF RequestOK, ArgFits
    <2>14. QED
      BY <2>3, <2>13
  <1>7. RequestOK(req[q])'
    <2>1. CASE req[q].heard
      <3>1. PICK o : o = req[q]
        OBVIOUS
      <3>2. PICK n : n = [o EXCEPT !.pc = "written", !.stale = {}]
        OBVIOUS
      <3>3. req'[q] = n
        BY <2>1, <3>1, <3>2 DEF writeAuthRecord
      <3>4. o \in RequestRecord /\ ArgFits(o) /\ o.pc = "loaded" /\ o.base.key \in Nat /\ o.base.key <= keys
        BY <1>1, <1>2, <3>1 DEF RequestOK, RequestRecord, Record
      <3>5. n \in RequestRecord /\ n.pc = "written" /\ n.op = o.op /\ n.arg = o.arg /\ n.base = o.base
        BY <3>2, <3>4 DEF RequestRecord
      <3>6. ArgFits(n)
        BY <3>4, <3>5 DEF ArgFits
      <3>7. n.op \in KeyOps /\ "key" \notin lost' => n.base.key # rec'.key
        BY <1>3, <1>4, <3>1, <3>4, <3>5
      <3>8. n.base.key <= keys'
        BY <1>3, <3>4, <3>5
      <3>9. RequestOK(n)'
        BY <3>5, <3>6, <3>7, <3>8 DEF RequestOK, ArgFits, Waiting, Holding
      <3>10. QED
        BY <3>3, <3>9
    <2>2. CASE ~req[q].heard
      <3>1. req'[q] = NoRequest
        BY <2>2 DEF writeAuthRecord
      <3>2. QED
        BY <1>3, <3>1, NoRequestFields DEF RequestOK, ArgFits, Waiting, Holding, KeyOps
    <2>3. QED
      BY <2>1, <2>2
  <1>8. rec' \in Record /\ rec'.key <= keys' /\ retired' \subseteq 0..keys' /\ lost' \subseteq Aspects
    <2>1. lost \subseteq Aspects /\ "key" \in Aspects /\ retired \subseteq 0..keys
      BY DEF AuthInv, Aspects
    <2>2. QED
      BY <1>1, <1>2, <1>3, <2>1
  <1>9. DOMAIN req' = Requests
    BY DEF writeAuthRecord
  <1>10. QED
    BY <1>1, <1>3, <1>5, <1>6, <1>7, <1>8, <1>9 DEF AuthInv

\* A handler's request enters with what the handler checked.
LEMMA SendKeeps ==
    ASSUME AuthInv, NEW q \in Requests, NEW op \in Ops, NEW arg \in Args, Send(q, op, arg),
           ArgFits(Request("sent", op, arg)), op # "callback",
           op = "oauth" /\ rec.disabled => arg.id # None /\ arg.users # {},
           op = "toggle" /\ arg = TRUE => oauthReady(rec)
    PROVE  AuthInv'
  <1>1. PICK r : r = Request("sent", op, arg)
    OBVIOUS
  <1>2. /\ req' = [req EXCEPT ![q] = r]
        /\ UNCHANGED <<rec, pending, keys, lost, retired, proved>>
    BY <1>1 DEF Send
  <1>3. r \in RequestRecord /\ r.pc = "sent" /\ r.op = op /\ r.arg = arg /\ r.base.key = 0 /\ ArgFits(r)
    BY <1>1, RequestFields
  <1>4. Waiting(r)' /\ Holding(r)'
    BY <1>2, <1>3 DEF Waiting, Holding, WayChecked, ProofChecked, oauthReady
  <1>5. keys' \in Nat /\ pending' \in BOOLEAN /\ retired' \subseteq 0..keys /\ ("key" \notin lost => rec.key \notin retired')
    BY <1>2 DEF AuthInv, RecordOK
  <1>6. RequestOK(r)'
    BY <1>3, <1>4, <1>5 DEF RequestOK, ArgFits
  <1>7. QED
    BY <1>2, <1>5, <1>6, OneRequestMoves

\* A request that ends leaves nothing behind but what its reply declared.
LEMMA EndKeeps ==
    ASSUME AuthInv, NEW q \in Requests, req' = [req EXCEPT ![q] = NoRequest],
           UNCHANGED <<rec, keys, lost>>, pending' \in BOOLEAN, proved \subseteq proved',
           retired' \subseteq 0..keys, "key" \notin lost => rec.key \notin retired'
    PROVE  AuthInv'
  <1>1. PICK r : r = NoRequest
    OBVIOUS
  <1>2. RequestOK(r)'
    BY <1>1, NoRequestFields DEF AuthInv, RequestOK, ArgFits, Waiting, Holding, KeyOps
  <1>3. QED
    BY <1>1, <1>2, OneRequestMoves

LEMMA HandlersKeep ==
    ASSUME AuthInv, NEW q \in Requests,
           \/ passwordChange(q) \/ authUsername(q) \/ revokeSessions(q) \/ authOAuth(q)
           \/ passwordToggle(q) \/ totpEnable(q) \/ totpDisable(q) \/ cmdPanelAuth(q)
    PROVE  AuthInv'
  <1>1. ASSUME NEW op \in {"password", "username", "rotate", "cli-password", "cli-totp"}, Send(q, op, <<>>)
        PROVE  AuthInv'
    <2>1. op \in Ops /\ <<>> \in Args /\ op \notin {"oauth", "callback", "toggle", "totp"}
      BY DEF Ops, KeyOps, Args
    <2>2. ArgFits(Request("sent", op, <<>>))
      BY <2>1, RequestFields DEF ArgFits
    <2>3. QED
      BY <1>1, <2>1, <2>2, SendKeeps
  <1>2. ASSUME authOAuth(q)
        PROVE  AuthInv'
    <2>1. PICK in \in OAuthArg : (rec.disabled => in.id # None /\ in.users # {}) /\ Send(q, "oauth", in)
      BY <1>2 DEF authOAuth, OAuthArg
    <2>2. "oauth" \in Ops /\ in \in Args
      BY DEF Ops, Args
    <2>3. ArgFits(Request("sent", "oauth", in))
      BY <2>2, RequestFields DEF ArgFits
    <2>4. QED
      BY <2>1, <2>2, <2>3, SendKeeps
  <1>3. ASSUME NEW op \in {"toggle", "totp"}, NEW b \in BOOLEAN, Send(q, op, b),
               op = "toggle" /\ b => oauthReady(rec)
        PROVE  AuthInv'
    <2>1. op \in Ops /\ b \in Args /\ op \notin {"oauth", "callback"}
      BY DEF Ops, Args
    <2>2. ArgFits(Request("sent", op, b))
      BY <2>1, RequestFields DEF ArgFits
    <2>3. QED
      BY <1>3, <2>1, <2>2, SendKeeps
  <1>4. CASE passwordToggle(q)
    BY <1>3, <1>4 DEF passwordToggle
  <1>5. CASE totpEnable(q) \/ totpDisable(q)
    BY <1>3, <1>5 DEF totpEnable, totpDisable
  <1>6. QED
    BY <1>1, <1>2, <1>4, <1>5 DEF passwordChange, authUsername, revokeSessions, cmdPanelAuth

\* The callback: the credential it sends to GitHub is the record's own, and
\* once GitHub accepted it, that credential is proved.
LEMMA CallbackKeeps ==
    ASSUME AuthInv, NEW q \in Requests,
           oauthCallback(q) \/ CallbackAnswered(q) \/ CallbackFailed(q)
    PROVE  AuthInv'
  <1>0. /\ RequestOK(req[q]) /\ keys \in Nat /\ rec \in Record /\ pending \in BOOLEAN
        /\ retired \subseteq 0..keys /\ ("key" \notin lost => rec.key \notin retired)
    BY DEF AuthInv, RecordOK
  <1>1. ASSUME oauthCallback(q)
        PROVE  AuthInv'
    <2>1. PICK arg : arg = [id |-> rec.id, secret |-> rec.secret]
      OBVIOUS
    <2>2. arg \in CredentialArg /\ arg.id = rec.id /\ arg.secret = rec.secret
      BY <1>0, <2>1 DEF CredentialArg, Record
    <2>3. PICK r : r = Request("exchange", "callback", arg)
      OBVIOUS
    <2>4. /\ r \in RequestRecord /\ r.pc = "exchange" /\ r.op = "callback" /\ r.arg = arg
          /\ r.base.key = 0
      <3>1. "callback" \in Ops /\ arg \in Args
        BY <2>2 DEF Ops, Args
      <3>2. QED
        BY <2>3, <3>1, RequestFields
    <2>5. /\ req' = [req EXCEPT ![q] = r]
          /\ UNCHANGED <<rec, pending, keys, lost, retired, proved>>
      BY <1>1, <2>1, <2>3 DEF oauthCallback
    <2>6. Waiting(r)' /\ Holding(r)' /\ ArgFits(r)
      BY <2>2, <2>4, <2>5 DEF Waiting, Holding, WayChecked, ProofChecked, ArgFits
    <2>7. RequestOK(r)'
      BY <1>0, <2>4, <2>5, <2>6 DEF RequestOK, ArgFits
    <2>8. QED
      BY <1>0, <2>5, <2>7, OneRequestMoves
  <1>2. ASSUME CallbackAnswered(q)
        PROVE  AuthInv'
    <2>1. /\ req[q].pc = "exchange" /\ proved' = proved \cup {<<req[q].arg.id, req[q].arg.secret>>}
          /\ UNCHANGED <<rec, pending, keys, lost, retired>>
      BY <1>2 DEF CallbackAnswered
    <2>2. CASE req' = [req EXCEPT ![q] = NoRequest]
      BY <1>0, <2>1, <2>2, EndKeeps
    <2>3. ASSUME NEW u \in rec.users, NEW a \in Accounts,
                 req' = [req EXCEPT ![q].pc = "sent", ![q].arg = [bound |-> [rec.bound EXCEPT ![u] = a]]]
          PROVE  AuthInv'
      <3>1. PICK arg : arg = [bound |-> [rec.bound EXCEPT ![u] = a]]
        OBVIOUS
      <3>2. arg \in BoundArg /\ arg \in Args
        BY <1>0, <3>1 DEF BoundArg, Record, Args
      <3>3. PICK r : r = [req[q] EXCEPT !.pc = "sent", !.arg = arg]
        OBVIOUS
      <3>4. req' = [req EXCEPT ![q] = r]
        BY <2>3, <3>1, <3>3
      <3>5. /\ r \in RequestRecord /\ r.pc = "sent" /\ r.op = req[q].op /\ r.arg = arg
            /\ r.base = req[q].base /\ r.stale = req[q].stale
        BY <1>0, <3>2, <3>3 DEF RequestOK, RequestRecord
      <3>6. r.op = "callback"
        BY <1>0, <2>1, <3>5 DEF RequestOK, ArgFits
      <3>7. ArgFits(r)
        BY <3>2, <3>5, <3>6 DEF ArgFits
      <3>8. "proof" \notin r.stale => ProofChecked(req[q], rec, proved)
        BY <1>0, <2>1, <3>5 DEF RequestOK, Waiting
      <3>9. Waiting(r)' /\ Holding(r)'
        BY <2>1, <3>5, <3>6, <3>8 DEF Waiting, Holding, WayChecked, ProofChecked
      <3>10. r.base.key <= keys /\ r.pc # "written"
        BY <1>0, <3>5 DEF RequestOK
      <3>11. RequestOK(r)'
        BY <2>1, <3>5, <3>7, <3>9, <3>10 DEF RequestOK, ArgFits
      <3>12. QED
        BY <1>0, <2>1, <3>4, <3>11, OneRequestMoves
    <2>4. QED
      BY <1>2, <2>2, <2>3 DEF CallbackAnswered
  <1>3. ASSUME CallbackFailed(q)
        PROVE  AuthInv'
    BY <1>0, <1>3, EndKeeps DEF CallbackFailed
  <1>4. QED
    BY <1>1, <1>2, <1>3

\* The helper reads the record, gives up on it, or is given up on; the reply
\* declares void the key the request replaced, which is not the record's.
LEMMA ServiceKeeps ==
    ASSUME AuthInv, NEW q \in Requests,
           loadAuthRecord(q) \/ WriteFails(q) \/ PanelTimeout(q) \/ Reply(q)
    PROVE  AuthInv'
  <1>0. /\ RequestOK(req[q]) /\ keys \in Nat /\ rec \in Record /\ rec.key <= keys /\ pending \in BOOLEAN
        /\ retired \subseteq 0..keys /\ ("key" \notin lost => rec.key \notin retired)
    BY DEF AuthInv, RecordOK
  <1>1. ASSUME loadAuthRecord(q)
        PROVE  AuthInv'
    <2>1. PICK o, all : o = req[q] /\ all = o.stale \cup lost
      OBVIOUS
    <2>2. PICK r : r = [o EXCEPT !.pc = "loaded", !.base = rec, !.stale = all]
      OBVIOUS
    <2>3. /\ o.pc = "sent" /\ UNCHANGED <<rec, pending, keys, lost, retired, proved>>
          /\ req' = [req EXCEPT ![q] = r]
      BY <1>1, <2>1, <2>2 DEF loadAuthRecord
    <2>4. o \in RequestRecord /\ ArgFits(o) /\ Waiting(o) /\ all \in SUBSET Aspects
      BY <1>0, <2>1 DEF AuthInv, RequestOK, RequestRecord
    <2>5. /\ r \in RequestRecord /\ r.pc = "loaded" /\ r.op = o.op /\ r.arg = o.arg
          /\ r.base = rec /\ r.stale = all
      BY <1>0, <2>2, <2>4 DEF RequestRecord
    <2>6. ArgFits(r)
      BY <2>3, <2>4, <2>5 DEF ArgFits
    <2>7. "way" \notin all => WayChecked(r, rec) /\ WaySound(rec)
      BY <2>1, <2>3, <2>4, <2>5 DEF AuthInv, RecordOK, Waiting, WayChecked
    <2>8. "proof" \notin all => ProofChecked(r, rec, proved) /\ ProofSound(rec, proved)
      BY <2>1, <2>3, <2>4, <2>5 DEF AuthInv, RecordOK, Waiting, ProofChecked
    <2>9. Waiting(r)' /\ Holding(r)'
      BY <2>3, <2>5, <2>7, <2>8 DEF Waiting, Holding
    <2>10. RequestOK(r)'
      BY <1>0, <2>3, <2>5, <2>6, <2>9 DEF RequestOK, ArgFits
    <2>11. QED
      BY <1>0, <2>3, <2>10, OneRequestMoves
  <1>2. ASSUME PanelTimeout(q)
        PROVE  AuthInv'
    <2>1. PICK r : r = [req[q] EXCEPT !.heard = FALSE]
      OBVIOUS
    <2>2. /\ UNCHANGED <<rec, pending, keys, lost, retired, proved>>
          /\ req' = [req EXCEPT ![q] = r]
      BY <1>2, <2>1 DEF PanelTimeout
    <2>3. /\ r \in RequestRecord /\ r.pc = req[q].pc /\ r.op = req[q].op /\ r.arg = req[q].arg
          /\ r.base = req[q].base /\ r.stale = req[q].stale
      BY <1>0, <2>1 DEF RequestOK, RequestRecord
    <2>4. RequestOK(r)'
      BY <1>0, <2>2, <2>3 DEF RequestOK, ArgFits, Waiting, Holding, WayChecked, ProofChecked
    <2>5. QED
      BY <1>0, <2>2, <2>4, OneRequestMoves
  <1>3. ASSUME WriteFails(q)
        PROVE  AuthInv'
    BY <1>0, <1>3, EndKeeps DEF WriteFails
  <1>4. ASSUME Reply(q)
        PROVE  AuthInv'
    <2>1. /\ req[q].pc = "written" /\ req' = [req EXCEPT ![q] = NoRequest]
          /\ UNCHANGED <<rec, keys, lost, proved>>
          /\ retired' = IF req[q].op \in KeyOps THEN retired \cup {req[q].base.key} ELSE retired
          /\ pending' \in BOOLEAN
      BY <1>4 DEF Reply, KeyOps
    <2>2. req[q].base.key \in 0..keys /\ (req[q].op \in KeyOps /\ "key" \notin lost => req[q].base.key # rec.key)
      BY <1>0, <2>1 DEF RequestOK, RequestRecord, Record
    <2>3. retired' \subseteq 0..keys /\ ("key" \notin lost => rec.key \notin retired')
      BY <1>0, <2>1, <2>2
    <2>4. QED
      BY <2>1, <2>3, EndKeeps
  <1>5. QED
    BY <1>1, <1>2, <1>3, <1>4

\* Every rewrite is of what the helper had read and the handler had checked.
LEMMA OperationsKeep ==
    ASSUME AuthInv, NEW q \in Requests,
           \/ opSetPanelPassword(q) \/ opSetPanelUsername(q) \/ opRotateSessionKey(q)
           \/ opUpdatePanelAuth(q) \/ CmdSetPassword(q) \/ CmdDisableTOTP(q)
    PROVE  AuthInv'
  <1>1. PICK base, op, arg, stale :
          base = req[q].base /\ op = req[q].op /\ arg = req[q].arg /\ stale = req[q].stale
    OBVIOUS
  <1>2. /\ RequestOK(req[q]) /\ keys \in Nat /\ keys + 1 \in Nat /\ base \in Record
    BY <1>1 DEF AuthInv, RequestOK, RequestRecord, Record
  <1>3. req[q].pc = "loaded"
    BY DEF opSetPanelPassword, opSetPanelUsername, opRotateSessionKey, opUpdatePanelAuth,
           CmdSetPassword, CmdDisableTOTP, writeAuthRecord
  <1>4. /\ "way" \notin stale => WayChecked(req[q], base) /\ WaySound(base)
        /\ "proof" \notin stale => ProofChecked(req[q], base, proved) /\ ProofSound(base, proved)
    BY <1>1, <1>2, <1>3 DEF RequestOK, Holding
  <1>5. \A S \in SUBSET {"key", "way", "proof"} : S \in SUBSET Aspects
    BY DEF Aspects
  <1>6. CASE opSetPanelPassword(q)
    <2>1. PICK record : record = passwordRecord(base, keys + 1, FALSE)
      OBVIOUS
    <2>2. keys' = keys + 1 /\ writeAuthRecord(q, record, {"key"})
      BY <1>1, <1>6, <2>1 DEF opSetPanelPassword
    <2>3. /\ record \in Record /\ record.key = keys + 1
          /\ WaySound(base) => WaySound(record)
          /\ ProofSound(base, proved) => ProofSound(record, proved)
      BY <1>2, <2>1, PasswordMakes
    <2>4. QED
      BY <1>1, <1>4, <1>5, <2>2, <2>3, Rewrite
  <1>7. CASE CmdSetPassword(q)
    <2>1. PICK record : record = passwordRecord(base, keys + 1, TRUE)
      OBVIOUS
    <2>2. keys' = keys + 1 /\ writeAuthRecord(q, record, {"key", "way"})
      BY <1>1, <1>7, <2>1 DEF CmdSetPassword
    <2>3. /\ record \in Record /\ record.key = keys + 1 /\ WaySound(record)
          /\ ProofSound(base, proved) => ProofSound(record, proved)
      BY <1>2, <2>1, PasswordMakes
    <2>4. QED
      BY <1>1, <1>4, <1>5, <2>2, <2>3, Rewrite
  <1>8. CASE opRotateSessionKey(q)
    <2>1. PICK record : record = [base EXCEPT !.key = keys + 1]
      OBVIOUS
    <2>2. keys' = keys + 1 /\ writeAuthRecord(q, record, {"key"})
      BY <1>1, <1>8, <2>1 DEF opRotateSessionKey
    <2>3. /\ record \in Record /\ record.key = keys + 1
          /\ WaySound(base) => WaySound(record)
          /\ ProofSound(base, proved) => ProofSound(record, proved)
      BY <1>2, <2>1, RotateMakes
    <2>4. QED
      BY <1>1, <1>4, <1>5, <2>2, <2>3, Rewrite
  <1>9. ASSUME NEW record \in Record, NEW renewed \in SUBSET {"way", "proof"},
               writeAuthRecord(q, record, renewed), keys' = keys, op \notin KeyOps, record.key = base.key,
               "way" \in renewed \/ "way" \notin stale => WaySound(record),
               "proof" \in renewed \/ "proof" \notin stale => ProofSound(record, proved)
        PROVE  AuthInv'
    <2>1. renewed \in SUBSET Aspects /\ "key" \notin renewed
      BY <1>5
    <2>2. QED
      BY <1>1, <1>9, <2>1, Rewrite
  <1>10. CASE opSetPanelUsername(q)
    <2>1. keys' = keys /\ op = "username" /\ writeAuthRecord(q, base, {})
      BY <1>1, <1>10 DEF opSetPanelUsername
    <2>2. QED
      BY <1>2, <1>4, <1>9, <2>1 DEF KeyOps
  <1>11. CASE CmdDisableTOTP(q)
    <2>1. PICK record : record = [base EXCEPT !.totp = FALSE]
      OBVIOUS
    <2>2. keys' = keys /\ op = "cli-totp" /\ writeAuthRecord(q, record, {})
      BY <1>1, <1>11, <2>1 DEF CmdDisableTOTP
    <2>3. /\ record \in Record /\ record.key = base.key
          /\ WaySound(base) => WaySound(record)
          /\ ProofSound(base, proved) => ProofSound(record, proved)
      BY <1>2, <2>1, TotpMakes
    <2>4. QED
      BY <1>4, <1>9, <2>2, <2>3 DEF KeyOps
  <1>12. ASSUME opUpdatePanelAuth(q)
         PROVE  AuthInv'
    <2>1. PICK record, renewed : record = MergeAuthUpdate(base, op, arg) /\ renewed = Settles(base, op, arg)
      OBVIOUS
    <2>2. /\ op \in {"oauth", "callback", "toggle", "totp"} /\ keys' = keys
          /\ writeAuthRecord(q, record, renewed)
      BY <1>1, <1>12, <2>1 DEF opUpdatePanelAuth
    <2>3. op \notin KeyOps
      BY <2>2 DEF KeyOps
    <2>4. renewed \in SUBSET {"way", "proof"}
      BY <2>1 DEF Settles
    <2>5. /\ record \in Record /\ record.key = base.key
          /\ "way" \in renewed \/ "way" \notin stale => WaySound(record)
          /\ "proof" \in renewed \/ "proof" \notin stale => ProofSound(record, proved)
      <3>1. CASE op = "oauth"
        <4>1. record = MergeOAuthConfig(base, arg) /\ arg \in OAuthArg
          BY <1>1, <1>2, <2>1, <3>1 DEF MergeAuthUpdate, RequestOK, ArgFits
        <4>2. /\ "way" \notin renewed
              /\ "proof" \in renewed => oauthCredentialReplaced(base, arg)
          BY <2>1, <3>1 DEF Settles
        <4>3. "way" \notin stale => WaySound(base) /\ (base.disabled => arg.id # None /\ arg.users # {})
          BY <1>1, <1>4, <3>1 DEF WayChecked
        <4>4. QED
          BY <1>2, <1>4, <4>1, <4>2, <4>3, OAuthMakes
      <3>2. CASE op = "callback"
        <4>1. record = MergeOAuthVerified(base, arg) /\ arg \in BoundArg
          BY <1>1, <1>2, <1>3, <2>1, <3>2 DEF MergeAuthUpdate, RequestOK, ArgFits
        <4>2. renewed = {}
          BY <2>1, <3>2 DEF Settles
        <4>3. "proof" \notin stale => <<base.id, base.secret>> \in proved
          BY <1>1, <1>3, <1>4, <3>2 DEF ProofChecked
        <4>4. QED
          BY <1>2, <1>4, <4>1, <4>2, <4>3, CallbackMakes
      <3>3. CASE op = "toggle"
        <4>1. record = [base EXCEPT !.disabled = arg] /\ arg \in BOOLEAN
          BY <1>1, <1>2, <2>1, <3>3 DEF MergeAuthUpdate, RequestOK, ArgFits
        <4>2. "proof" \notin renewed /\ ("way" \in renewed => ~arg)
          BY <2>1, <3>3 DEF Settles
        <4>3. "way" \notin stale => (arg => oauthReady(base))
          BY <1>1, <1>4, <3>3, <4>1 DEF WayChecked
        <4>4. QED
          BY <1>2, <1>4, <4>1, <4>2, <4>3, ToggleMakes
      <3>4. CASE op = "totp"
        <4>1. record = [base EXCEPT !.totp = arg] /\ arg \in BOOLEAN
          BY <1>1, <1>2, <2>1, <3>4 DEF MergeAuthUpdate, RequestOK, ArgFits
        <4>2. renewed = {}
          BY <2>1, <3>4 DEF Settles
        <4>3. QED
          BY <1>2, <1>4, <4>1, <4>2, TotpMakes
      <3>5. QED
        BY <2>2, <3>1, <3>2, <3>3, <3>4
    <2>6. QED
      BY <1>9, <2>2, <2>3, <2>4, <2>5
  <1>13. QED
    BY <1>6, <1>7, <1>8, <1>10, <1>11, <1>12

LEMMA AuthInvStep == AuthInv /\ [AuthNext]_authVars => AuthInv'
  <1> SUFFICES ASSUME AuthInv, [AuthNext]_authVars PROVE AuthInv'
    OBVIOUS
  <1>1. ASSUME UNCHANGED <<rec, req, keys, lost, retired, proved>>, pending' \in BOOLEAN
        PROVE  AuthInv'
    <2>1. RecordOK'
      BY <1>1 DEF AuthInv, RecordOK, WaySound, ProofSound, oauthReady
    <2>2. \A q \in Requests : RequestOK(req[q])'
      BY <1>1 DEF AuthInv, RequestOK, ArgFits, Waiting, Holding, WayChecked, WaySound, ProofChecked, ProofSound, oauthReady
    <2>3. QED
      BY <1>1, <2>1, <2>2 DEF AuthInv
  <1>2. CASE totpSetup \/ PendingExpires
    BY <1>1, <1>2 DEF totpSetup, PendingExpires
  <1>3. CASE UNCHANGED authVars
    <2>1. UNCHANGED <<rec, req, keys, lost, retired, proved>> /\ pending' \in BOOLEAN
      BY <1>3 DEF authVars, AuthInv
    <2>2. QED
      BY <1>1, <2>1
  <1>4. QED
    BY <1>2, <1>3, HandlersKeep, CallbackKeeps, ServiceKeeps, OperationsKeep DEF AuthNext

\* Handlers, helper operations and commands rewrite auth.json in any order and
\* overlap: there is a way in when password login is off (passwordToggle,
\* authOAuth) unless the record changed between the check and the helper's read;
\* a key declared void is not the record's (opSetPanelPassword,
\* opRotateSessionKey) unless an older record was renamed over it; verified_once
\* was earned with the credential the record holds (MergeAuthUpdate) unless that
\* changed during the callback.  One of the three gone wrong does not touch the
\* others, and the next operation that sets it anew restores it.
THEOREM RecordIsSound == AuthSpec => []RecordStaysSound
  <1>1. AuthInv => RecordStaysSound
    <2> SUFFICES ASSUME AuthInv PROVE RecordStaysSound
      OBVIOUS
    <2>1. AuthTypeOK
      BY DEF AuthInv, RequestOK, RequestRecord, AuthTypeOK
    <2>2. DisabledHasWayIn /\ RevocationHolds /\ VerifiedIsProved
      BY DEF AuthInv, RecordOK, WaySound, ProofSound, DisabledHasWayIn, RevocationHolds, VerifiedIsProved
    <2>3. QED
      BY <2>1, <2>2 DEF RecordStaysSound
  <1>2. QED
    BY <1>1, AuthInvInit, AuthInvStep, PTL DEF AuthSpec
=============================================================================
