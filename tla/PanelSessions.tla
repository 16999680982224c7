---------------------------- MODULE PanelSessions ----------------------------
(***************************************************************************)
(* The panel's sessions and its one-time codes.  A session is a cookie:    *)
(* an expiry time signed with the record's session key.  Nothing is stored *)
(* for an open session; a log-out puts the cookie on a list in memory,     *)
(* which later log-outs prune.  A code's time step is kept in memory and   *)
(* in a file, so that no code is good for two logins, restarts included.   *)
(* Time is scaled: only the order of the limits matters.                   *)
(***************************************************************************)
EXTENDS Integers, FiniteSets

CONSTANTS SessionTTL, RememberTTL,  \* 12 hours; 7 days
          Grace,                    \* 1 hour: a cookie outlives its expiry on the list
          MaxClock, MaxKey,         \* bounds: the clock, session keys generated
          MaxCookies                \* bound: different cookies handed out

ASSUME SessionLimits ==
    /\ {SessionTTL, RememberTTL, Grace, MaxClock, MaxKey, MaxCookies} \subseteq Nat \ {0}
    /\ SessionTTL < RememberTTL

VARIABLES clock,      \* seconds, and 30-second steps
          sessionKey, \* the record's session_key
          opening,    \* the key a login in progress read from the record; 0: no login
          cookies,    \* cookies handed out
          revoked,    \* Server.revoked: cookie -> kept until
          lastStep,   \* Server.totpLastStep
          stepFile,   \* the step in TOTPStepPath
          loggedOut,  \* history: cookies logged out since the panel started
          accepted,   \* history: steps whose code was accepted
          doubled,    \* history: a step was accepted twice
          stepLost    \* history: writing the step file failed

sessVars == <<clock, sessionKey, opening, cookies, revoked, lastStep, stepFile,
              loggedOut, accepted, doubled, stepLost>>

\* The cookie's value is a function of key and expiry: two logins of the same
\* second and length share one.
Cookie == [key : 1..MaxKey, exp : 0..(MaxClock + RememberTTL)]

validSession(c) ==
    /\ c \notin DOMAIN revoked
    /\ c.key = sessionKey
    /\ c.exp > clock

\* A renewed session is as long as the one it replaces.
renewalTTL(c) == IF c.exp > clock + SessionTTL THEN RememberTTL ELSE SessionTTL

issueSession(key, ttl) == [key |-> key, exp |-> clock + ttl]

Larger(a, b) == IF a >= b THEN a ELSE b

SessInit ==
    /\ clock = 1
    /\ sessionKey = 1
    /\ opening = 0
    /\ cookies = {}
    /\ revoked = <<>>
    /\ lastStep = 0 /\ stepFile = 0
    /\ loggedOut = {}
    /\ accepted = {}
    /\ doubled = FALSE
    /\ stepLost = FALSE

\* The login handler reads the record, and then spends its time on scrypt.
login ==
    /\ opening = 0
    /\ Cardinality(cookies) < MaxCookies
    /\ opening' = sessionKey
    /\ UNCHANGED <<clock, sessionKey, cookies, revoked, lastStep, stepFile,
                   loggedOut, accepted, doubled, stepLost>>

\* The code of one of three steps matches.  Under pendingMu the larger of the
\* two remembered steps is the floor; a step above it is remembered in both
\* places, and the file may fail.
checkTOTPCode(step) ==
    LET floor == Larger(lastStep, stepFile)
    IN  /\ step \in (clock - 1)..(clock + 1)
        /\ step > floor
        /\ lastStep' = step
        /\ accepted' = accepted \cup {step}
        /\ doubled' = (doubled \/ step \in accepted)
        /\ \/ stepFile' = step /\ UNCHANGED stepLost
           \/ stepLost' = TRUE /\ UNCHANGED stepFile

\* Password and code are good.  (The code is used up even when the password
\* turns out wrong.)
startSession ==
    /\ opening # 0
    /\ \E step \in 0..(MaxClock + 1) : checkTOTPCode(step)
    /\ \/ \E ttl \in {SessionTTL, RememberTTL} : cookies' = cookies \cup {issueSession(opening, ttl)}
       \/ UNCHANGED cookies
    /\ opening' = 0
    /\ UNCHANGED <<clock, sessionKey, revoked, loggedOut>>

loginRefused ==
    /\ opening # 0
    /\ opening' = 0
    /\ UNCHANGED <<clock, sessionKey, cookies, revoked, lastStep, stepFile,
                   loggedOut, accepted, doubled, stepLost>>

\* Every cookie is listed as long as an ordinary session lasts.
listRevokedForSession(c) ==
    LET kept == {d \in DOMAIN revoked : revoked[d] >= clock}
    IN  revoked' = [d \in kept \cup {c} |-> IF d = c THEN clock + SessionTTL + Grace ELSE revoked[d]]

\* Entries past their time go; the cookie stays listed an hour past its expiry.
listRevoked(c) ==
    LET kept == {d \in DOMAIN revoked : revoked[d] >= clock}
    IN  revoked' = [d \in kept \cup {c} |-> IF d = c THEN c.exp + Grace ELSE revoked[d]]

logout(c) ==
    /\ validSession(c)
    /\ listRevoked(c)
    /\ loggedOut' = loggedOut \cup {c}
    /\ UNCHANGED <<clock, sessionKey, opening, cookies, lastStep, stepFile,
                   accepted, doubled, stepLost>>

\* revokeSessions and passwordChange: a new key, and a cookie for the caller.
renewSession(c) ==
    /\ validSession(c)
    /\ sessionKey < MaxKey
    /\ Cardinality(cookies) < MaxCookies
    /\ sessionKey' = sessionKey + 1
    /\ cookies' = cookies \cup {issueSession(sessionKey + 1, renewalTTL(c))}
    /\ UNCHANGED <<clock, opening, revoked, lastStep, stepFile, loggedOut,
                   accepted, doubled, stepLost>>

\* The panel starts anew; what was only in memory is gone.
panelRestart ==
    /\ opening' = 0
    /\ revoked' = <<>>
    /\ lastStep' = 0
    /\ loggedOut' = {}
    /\ UNCHANGED <<clock, sessionKey, cookies, stepFile, accepted, doubled, stepLost>>

SessTick ==
    /\ clock < MaxClock
    /\ clock' = clock + 1
    /\ UNCHANGED <<sessionKey, opening, cookies, revoked, lastStep, stepFile,
                   loggedOut, accepted, doubled, stepLost>>

SessNext ==
    \/ login \/ startSession \/ loginRefused \/ panelRestart \/ SessTick
    \/ \E c \in cookies : logout(c) \/ renewSession(c)

SessSpec == SessInit /\ [][SessNext]_sessVars

SessTypeOK ==
    /\ clock \in 1..MaxClock
    /\ sessionKey \in 1..MaxKey /\ opening \in 0..MaxKey
    /\ cookies \subseteq Cookie
    /\ DOMAIN revoked \subseteq cookies
    /\ lastStep \in 0..(MaxClock + 1) /\ stepFile \in 0..(MaxClock + 1)

\* A cookie that was logged out is not a session again while the panel runs,
\* however long the cookie lives and however often the list is pruned by
\* other log-outs (logout, validSession).
LoggedOutStaysOut == \A c \in loggedOut : ~validSession(c)

\* No time step's code is accepted twice, before or after a restart of the
\* panel, unless the step file could not be written (checkTOTPCode).
NoCodeTwice == doubled => stepLost

\* The state is well typed, and what was spent stays spent: a cookie that was
\* logged out, a code that was used.
SpentStaysSpent == SessTypeOK /\ LoggedOutStaysOut /\ NoCodeTwice
=============================================================================
