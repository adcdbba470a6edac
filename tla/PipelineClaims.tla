--------------------------- MODULE PipelineClaims ---------------------------
(* What the repository says of the pipeline in words and the code does not  *)
(* keep.  Each claim is checked alone, on the smallest instance where the   *)
(* disagreement shows.                                                      *)
EXTENDS Pipeline

(* "an event that is already `processed` must not run twice" (README.md:93).*)
(* A dead letter persisted after the event was replayed and processed turns *)
(* the row back to dead, and a dead row may be replayed.                    *)
ProcessedRunsOnce == \A e \in Events : successes[e] <= 1

(* "Replaying an event that is genuinely in flight is harmless: the extra   *)
(* message settles as a duplicate once the first one commits"               *)
(* (dlq-replay.service.ts:29-31).  A first redrive that commits a retry     *)
(* leaves the row processing, and the extra message makes an attempt.       *)
ExtraRedriveIsDuplicate ==
  [][\A w \in Workers, e \in Events :
       /\ task'[w] # task[w]
       /\ task[w].m.body.ev = e /\ task[w].m.hdr = "replay" /\ ~task[w].m.redel
       /\ attempts'[e] > attempts[e]
       => attempts[e] = 0
    ]_vars

(* "the attempt counter lives in Postgres, so an outage there must not burn *)
(* a retry tier" (order-consumer.ts:173-175).  The requeue sets the         *)
(* redelivered flag, which turns a partner's duplicate into a continuation: *)
(* it makes an attempt that waited in no tier.                              *)
OutageBurnsNoTier == \A e \in Events : attempts[e] <= waits[e] + 1

(* "Requeueing such a message spins forever; it has to dead-letter instead" *)
(* (processing-errors.ts:19-20).  The dead letter of an id no column can    *)
(* hold fails its own INSERT and is requeued for ever.                      *)
DeadLetterIsStored == \A e \in Events : DeadQueued(e) ~> dlq[e] # "absent"
=============================================================================
