-------------------------- MODULE MCAccessControl --------------------------
(***************************************************************************)
(* Instances of AccessControl for TLC: a shell, a panel, the watchdog and  *)
(* the routing service, two client prefixes.                               *)
(***************************************************************************)
EXTENDS AccessControl

CONSTANTS home, office, shell, panel, watchdog, setup, open

MCClient == [p \in {panel} |-> home]

MCCommand(op, args, mode) == [op |-> op, args |-> args, mode |-> mode]

MCCommands == { MCCommand("add", {office}, "yes"), MCCommand("add", {home}, "ask"),
                MCCommand("remove", {home}, "yes"),
                MCCommand("set", {}, "yes"), MCCommand("set", {home}, "preview"),
                MCCommand("apply", {}, "yes"), MCCommand("disable", {}, "yes") }
=============================================================================
