----------------------------- MODULE MCPipeline -----------------------------
(* Pipeline on small instances: which values each constant takes. *)
EXTENDS PipelineClaims, TLC

CONSTANTS e1, e2, w1, w2

BothFits  == BOOLEAN
OnlyFit   == {TRUE}
OnlyUnfit == {FALSE}
AllFaults == {"outage", "publish", "crash", "channel", "dlq", "replay"}
Outage    == {"outage"}
LateDead  == {"dlq"}

Symmetry == Permutations(Workers)
=============================================================================
