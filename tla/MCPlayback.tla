----------------------------- MODULE MCPlayback -----------------------------
(* Playback on a small instance: what the feed brings, and in which ticks. *)
EXTENDS Playback

\* A feed that loses envelopes: a retry that succeeds, a refusal, a retry that
\* ends dead and whose worker stage may come late, a duplicate whose discard
\* overtakes the retry of an earlier delivery.
MCStories ==
  {[b \in 1 .. 2 |-> IF b = 1 THEN {StageEvent("retry", 1, 1), StageEvent("processed", 2, 2)}
                     ELSE {StageEvent("rejected", 0, 1)}],
   [b \in 1 .. 1 |-> {StageEvent("consuming", 0, 1), StageEvent("retry", 2, 2),
                      StageEvent("dead", 2, 3)}],
   [b \in 1 .. 1 |-> {StageEvent("consuming", 0, 1), StageEvent("retry", 1, 2),
                      StageEvent("duplicate", 2, 3)}]}

MCTier == [box \in RetryBoxes |-> 2]
=============================================================================
