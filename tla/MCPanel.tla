------------------------------- MODULE MCPanel -------------------------------
(***************************************************************************)
(* Model checking of the panel's accounts: the credentials file, sessions  *)
(* and codes, and the limit on password attempts.  The three share no      *)
(* state in these modules, so a behaviour moves only one of them: their    *)
(* state spaces add up instead of multiplying.                             *)
(***************************************************************************)
EXTENDS AuthRecord, PanelSessions, LoginGuard, TLC

VARIABLE mover

vars == <<authVars, sessVars, guardVars, mover>>

Init == /\ mover \in {"auth", "sessions", "guard"}
        /\ AuthInit /\ SessInit /\ GuardInit
        /\ mover # "auth" => rec = Blank

Next ==
    \/ mover = "auth" /\ AuthNext /\ UNCHANGED <<sessVars, guardVars, mover>>
    \/ mover = "sessions" /\ SessNext /\ UNCHANGED <<authVars, guardVars, mover>>
    \/ mover = "guard" /\ GuardNext /\ UNCHANGED <<authVars, sessVars, mover>>

Spec == Init /\ [][Next]_vars

RequestSymmetry == Permutations(Requests)
=============================================================================
