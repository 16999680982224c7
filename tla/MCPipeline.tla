----------------------------- MODULE MCPipeline -----------------------------
(***************************************************************************)
(* Instances of Pipeline for TLC.  The list is cut down to the steps that  *)
(* differ in control: chnroute (critical), geo-cross (needs chnroute),     *)
(* cn-authority (needs both, reads the route list, shortest period) and    *)
(* cdn-rules (no needs, ignores preview).                                  *)
(***************************************************************************)
EXTENDS Pipeline

CONSTANTS timer, operator, router, noproc

\* chnroute, geo-cross, cn-authority
MCNeeds == <<{}, {1}, {1, 2}>>
MCEvery == <<2, 2, 1>>

\* cdn-rules and cn-authority, for preview
MCEveryShort == <<2, 1>>
MCNeedsPreview == <<{}, {}>>

MCRequest(only, force, dryRun, preview) ==
  [only |-> only, force |-> force, dryRun |-> dryRun, preview |-> preview]

\* routing-refresh, --only chnroute --force, --only geo-cross, --dry-run, --preview
MCRequests == { MCRequest({}, TRUE, FALSE, FALSE), MCRequest({1}, TRUE, FALSE, FALSE),
                MCRequest({2}, FALSE, FALSE, FALSE), MCRequest({}, FALSE, TRUE, FALSE),
                MCRequest({}, FALSE, FALSE, TRUE) }

MCPreview == { MCRequest({}, FALSE, FALSE, TRUE) }
=============================================================================
