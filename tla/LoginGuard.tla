----------------------------- MODULE LoginGuard -----------------------------
(***************************************************************************)
(* The limit on password attempts.  Every handler that checks a password   *)
(* asks authWait, takes one of the scrypt slots without waiting, counts    *)
(* the attempt as a failure and only then computes the hash; a success     *)
(* removes the address from the table.  A table that has grown too large   *)
(* is pruned of old entries.  The clock ticks several times a second, the  *)
(* wait that is left is asked for in whole seconds.                        *)
(***************************************************************************)
EXTENDS Integers, FiniteSets

CONSTANTS Addresses,  \* client addresses
          Attempts,   \* requests in progress
          FreeTries,  \* 5: failures before the first wait
          Second,     \* ticks of the clock in a second
          FirstWait,  \* 30 seconds, in ticks
          LongestWait,\* 1 hour: the longest wait, and the age at which entries are pruned
          ScryptSlots,\* 2
          TableSize,  \* 4096: entries beyond which the table is pruned
          MaxTime, MaxFailures  \* bounds: the clock, failures counted per address

ASSUME GuardLimits ==
    /\ {FreeTries, Second, FirstWait, LongestWait, ScryptSlots, MaxTime, MaxFailures} \subseteq Nat \ {0}
    /\ TableSize \in Nat
    /\ FirstWait <= LongestWait

VARIABLES time,      \* the clock
          failures,  \* Server.authLimit.m: address -> count and last
          attempt,   \* where each request is, and its address
          blocked    \* history: address -> end of the wait its failures earned

guardVars == <<time, failures, attempt, blocked>>

Failure == [count : 1..MaxFailures, last : 0..MaxTime]

NoAttempt == [pc |-> "idle", ip |-> "none"]

\* The wait doubles with every failure past the free ones, up to the longest.
waitFor(count) ==
    LET wait == FirstWait * 2^(count - FreeTries)
    IN  IF count < FreeTries THEN 0 ELSE IF wait >= LongestWait THEN LongestWait ELSE wait

\* int(d.Seconds()): the part of a second is dropped.
Seconds(ticks) == ticks \div Second

\* The whole seconds left; a wait that is over, or nearly so, is none.
authWait(ip) ==
    IF ip \notin DOMAIN failures THEN 0
    ELSE LET left == failures[ip].last + waitFor(failures[ip].count) - time
         IN  IF failures[ip].count < FreeTries \/ left < 0 THEN 0 ELSE Seconds(left)

Without(f, ips) == [ip \in DOMAIN f \ ips |-> f[ip]]

Counted(ip) ==
    [p \in DOMAIN failures \cup {ip} |->
        IF p # ip THEN failures[p]
        ELSE [count |-> IF ip \in DOMAIN failures THEN failures[ip].count + 1 ELSE 1,
              last  |-> time]]

\* The cutoff is now instead of an hour ago.
OldAtOnce(f) == {ip \in DOMAIN f : f[ip].last < time}

Old(f) == {ip \in DOMAIN f : f[ip].last < time - LongestWait}

Pruned(f) == IF Cardinality(DOMAIN f) > TableSize THEN Without(f, Old(f)) ELSE f

authFailure(ip) ==
    /\ failures' = Pruned(Counted(ip))
    /\ blocked' = [blocked EXCEPT ![ip] =
                     LET n == Counted(ip)[ip].count IN IF n >= FreeTries THEN time + waitFor(n) ELSE @]

authSuccess(ip) ==
    /\ failures' = Without(failures, {ip})
    /\ blocked' = [blocked EXCEPT ![ip] = 0]

GuardInit ==
    /\ time = 0
    /\ failures = <<>>
    /\ attempt = [a \in Attempts |-> NoAttempt]
    /\ blocked = [ip \in Addresses |-> 0]

\* authWait lets the request through; otherwise it ends with 429.
verifyGuarded(a) ==
    /\ attempt[a].pc = "idle"
    /\ \E ip \in Addresses :
        /\ authWait(ip) = 0
        /\ attempt' = [attempt EXCEPT ![a] = [pc |-> "passed", ip |-> ip]]
    /\ UNCHANGED <<time, failures, blocked>>

InSlot == {a \in Attempts : attempt[a].pc \in {"slot", "hashing"}}

TakeSlot(a) ==
    /\ attempt[a].pc = "passed"
    /\ attempt' = [attempt EXCEPT ![a] =
                     IF Cardinality(InSlot) < ScryptSlots THEN [@ EXCEPT !.pc = "slot"] ELSE NoAttempt]
    /\ UNCHANGED <<time, failures, blocked>>

Count(a) ==
    /\ attempt[a].pc = "slot"
    /\ attempt[a].ip \in DOMAIN failures => failures[attempt[a].ip].count < MaxFailures
    /\ authFailure(attempt[a].ip)
    /\ attempt' = [attempt EXCEPT ![a].pc = "hashing"]
    /\ UNCHANGED time

verifyPassword(a) ==
    /\ attempt[a].pc = "hashing"
    /\ attempt' = [attempt EXCEPT ![a] = NoAttempt]
    /\ \/ authSuccess(attempt[a].ip)
       \/ UNCHANGED <<failures, blocked>>
    /\ UNCHANGED time

GuardTick ==
    /\ time < MaxTime
    /\ time' = time + 1
    /\ UNCHANGED <<failures, attempt, blocked>>

GuardNext ==
    \/ GuardTick
    \/ \E a \in Attempts : verifyGuarded(a) \/ TakeSlot(a) \/ Count(a) \/ verifyPassword(a)

GuardSpec == GuardInit /\ [][GuardNext]_guardVars

\* A wait that an address's failures have earned is served but for the part of
\* a second that authWait drops: no request of that address passes earlier, not
\* even when the table was pruned meanwhile because of other addresses or when
\* attempts counted side by side moved its end.  Only a success ends it.
ThrottleHolds ==
    [][\A a \in Attempts : attempt[a].pc = "idle" /\ attempt'[a].pc = "passed"
            => time + Second > blocked[attempt'[a].ip]]_guardVars
=============================================================================
