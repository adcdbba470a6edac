------------------------------ MODULE Pipeline ------------------------------
(***************************************************************************)
(* The asynchronous half of the ingestion service: the work queue and its  *)
(* retry tiers, the worker processes that consume it, the dead-letter      *)
(* queue and its consumer, the two tables (events, dlq_messages), and the  *)
(* operator's replay and discard.                                          *)
(*                                                                         *)
(* Queues are bags: with several consumers, prefetch, requeues and four    *)
(* queues feeding one another the broker promises no order.  A worker is   *)
(* one in-flight slot (prefetch 1); a process with prefetch N is N of      *)
(* them.  A delivery whose channel was lost goes back to the queue while   *)
(* the handler that holds it keeps running: live = FALSE.                  *)
(***************************************************************************)
EXTENDS Naturals, FiniteSets

CONSTANTS
  Events,        \* values of event_id the partners send
  NoEvent,       \* "no usable event_id": the message did not parse
  Workers,       \* in-flight slots of all worker processes
  NTiers,        \* RETRY_TIERS.length
  MaxAttempts,   \* MAX_PROCESSING_ATTEMPTS
  Unstorable,    \* event ids no column of the database can hold
  FitKinds,      \* subset of BOOLEAN: which payloads are sent (jsonb takes it?)
  FaultKinds,    \* which faults may happen
  MaxSent, MaxFaults, MaxReplays   \* bounds on the environment

ASSUME PipelineAssumption ==
  /\ NoEvent \notin Events
  /\ NTiers \in Nat \ {0}
  /\ MaxAttempts \in Nat \ {0}
  /\ Unstorable \subseteq Events
  /\ FitKinds \subseteq BOOLEAN

Ids      == Events \cup {NoEvent}
Statuses == {"absent", "received", "processing", "processed", "failed", "dead"}
Steps    == {"idle", "running", "retry", "dead", "done"}

\* What of a message survives every hop: whose it is, and whether the events
\* table accepts it.
Body == [ev : Ids, fit : BOOLEAN]

\* hdr is the x-attempt header: absent, the attempts made so far (set by the
\* worker), or 0 (set by a replay).  redel is the broker's redelivered flag.
Msg == [body : Body, hdr : {"none", "retry", "replay"}, redel : BOOLEAN]

RetryMsg == [ev : Events, tier : 0 .. NTiers - 1]

Task == [m : Msg, step : Steps, tries : 0 .. MaxAttempts, live : BOOLEAN]

VARIABLES
  status,     \* events.status by event_id; "absent" when there is no row
  attempts,   \* events.attempts
  dlq,        \* dlq_messages by message_id: absent, or the stored payload's fit
  queue,      \* ready messages of webhooks.orders
  tiers,      \* messages waiting in the retry queues
  dead,       \* messages of webhooks.dead
  task,       \* what each worker slot is doing
  replaying,  \* replays committed by the API whose publish is still to come
  \* history, read by no action's guard
  accepted,   \* ids the broker took from a producer
  discarded,  \* ids whose dead-letter row an operator deleted, not stored since
  orphaned,   \* events whose last replay lost its publish
  waits,      \* retry delays an event has sat through since its last reset
  successes,  \* committed transactions in which the handler succeeded
  reopened,   \* times a late dead letter overwrote "processed"
  \* bounds
  sent, faults, replays

rowVars    == <<status, attempts>>
brokerVars == <<queue, tiers, dead>>
ghostVars  == <<accepted, discarded, orphaned, waits, successes, reopened>>
boundVars  == <<sent, faults, replays>>
vars == <<rowVars, dlq, brokerVars, task, replaying, ghostVars, boundVars>>

\* Mutations (Mut_*) are plausible mistakes in the definition that follows;
\* no action uses them.  README.md says which property catches which.
Mut_FailedIsSettled == {"processed", "dead", "failed"}
Settled    == {"processed", "dead"}

Mut_ProcessingReplayable == {"dead", "failed", "received", "processing"}
Replayable == {"dead", "failed", "received"}

Put(bag, x)  == [bag EXCEPT ![x] = @ + 1]
Take(bag, x) == [bag EXCEPT ![x] = @ - 1]
Requeued(m)  == [body |-> m.body, hdr |-> m.hdr, redel |-> TRUE]

Poison == [ev |-> NoEvent, fit |-> FALSE]
Fresh(b) == [body |-> b, hdr |-> "none", redel |-> FALSE]
RetryBody(e) == [ev |-> e, fit |-> TRUE]

Idle == [m |-> Fresh(Poison), step |-> "idle", tries |-> 0, live |-> FALSE]

Mut_HeaderOnly(m) == m.hdr # "none"
IsContinuation(m) == m.hdr # "none" \/ m.redel

\* The index of RETRY_TIERS an event goes to after its a-th attempt, a >= 1.
retryTierForAttempt(a) == IF a > NTiers THEN NTiers - 1 ELSE a - 1

Init ==
  /\ status = [e \in Events |-> "absent"]
  /\ attempts = [e \in Events |-> 0]
  /\ dlq = [i \in Ids |-> "absent"]
  /\ queue = [m \in Msg |-> 0]
  /\ tiers = [r \in RetryMsg |-> 0]
  /\ dead = [b \in Body |-> 0]
  /\ task = [w \in Workers |-> Idle]
  /\ replaying = [b \in Body |-> 0]
  /\ accepted = {} /\ discarded = {} /\ orphaned = {}
  /\ waits = [e \in Events |-> 0]
  /\ successes = [e \in Events |-> 0]
  /\ reopened = [e \in Events |-> 0]
  /\ sent = 0 /\ faults = 0 /\ replays = 0

Fault(kind) ==
  /\ kind \in FaultKinds
  /\ faults < MaxFaults
  /\ faults' = faults + 1
  /\ UNCHANGED <<sent, replays>>

-----------------------------------------------------------------------------
(* Producers.  A message that reaches the queue may have been answered 202, *)
(* or 503 when its confirm came too late: the queue is the same.            *)

Ingest(e, fit) ==
  /\ sent < MaxSent
  /\ e \in Unstorable => ~fit
  /\ sent' = sent + 1
  /\ queue' = Put(queue, Fresh([ev |-> e, fit |-> fit]))
  /\ accepted' = accepted \cup {e}
  /\ UNCHANGED <<rowVars, dlq, tiers, dead, task, replaying, discarded,
                 orphaned, waits, successes, reopened, faults, replays>>

InjectPoison ==
  /\ sent < MaxSent
  /\ sent' = sent + 1
  /\ queue' = Put(queue, Fresh(Poison))
  /\ accepted' = accepted \cup {NoEvent}
  /\ UNCHANGED <<rowVars, dlq, tiers, dead, task, replaying, discarded,
                 orphaned, waits, successes, reopened, faults, replays>>

-----------------------------------------------------------------------------
(* The worker: one delivery, from the broker's push to the ack.             *)

Deliver(w, m) ==
  /\ task[w].step = "idle"
  /\ queue[m] > 0
  /\ queue' = Take(queue, m)
  /\ task' = [task EXCEPT ![w] =
                [m |-> m, step |-> "running", tries |-> 0, live |-> TRUE]]
  /\ UNCHANGED <<rowVars, dlq, tiers, dead, replaying, ghostVars, boundVars>>

Decide(w, step, tries) ==
  task' = [task EXCEPT ![w] =
             [m |-> task[w].m, step |-> step, tries |-> tries, live |-> task[w].live]]

\* The message cannot become a row: it does not parse, or the database rejects
\* the claim INSERT for good (SQLSTATE 22/23).  No row is written or read.
RejectMessage(w) ==
  /\ task[w].step = "running"
  /\ ~task[w].m.body.fit
  /\ Decide(w, "dead", 0)
  /\ UNCHANGED <<rowVars, dlq, brokerVars, replaying, ghostVars, boundVars>>

Claiming(w, e) ==
  /\ task[w].step = "running"
  /\ task[w].m.body = [ev |-> e, fit |-> TRUE]

\* The transaction of claimAndHandle, one action per decision it can commit.
ProcessDuplicate(w, e) ==
  /\ Claiming(w, e)
  /\ \/ status[e] \in Settled
     \/ status[e] \in {"received", "processing"} /\ ~IsContinuation(task[w].m)
  /\ Decide(w, "done", 0)
  /\ UNCHANGED <<rowVars, dlq, brokerVars, replaying, ghostVars, boundVars>>

ProcessFailedAgain(w, e) ==
  /\ Claiming(w, e)
  /\ status[e] = "failed"
  /\ Decide(w, "dead", attempts[e])
  /\ UNCHANGED <<rowVars, dlq, brokerVars, replaying, ghostVars, boundVars>>

Mut_NoStatusCheck(w, e) ==
  /\ Claiming(w, e)
  /\ status[e] = "absent" \/ IsContinuation(task[w].m)

Mut_NoSettledCheck(w, e) ==
  /\ Claiming(w, e)
  /\ status[e] # "failed"
  /\ status[e] = "absent" \/ IsContinuation(task[w].m)

Mut_NoContinuationCheck(w, e) ==
  /\ Claiming(w, e)
  /\ status[e] \in {"absent", "received", "processing"}

MayAttempt(w, e) ==
  /\ Claiming(w, e)
  /\ \/ status[e] = "absent"
     \/ status[e] \in {"received", "processing"} /\ IsContinuation(task[w].m)

ProcessOk(w, e) ==
  /\ MayAttempt(w, e)
  /\ attempts' = [attempts EXCEPT ![e] = @ + 1]
  /\ status' = [status EXCEPT ![e] = "processed"]
  /\ successes' = [successes EXCEPT ![e] = @ + 1]
  /\ Decide(w, "done", 0)
  /\ UNCHANGED <<dlq, brokerVars, replaying, accepted, discarded, orphaned,
                 waits, reopened, boundVars>>

Mut_OneRetryTooMany(w, e) ==
  /\ MayAttempt(w, e)
  /\ attempts[e] < MaxAttempts
  /\ attempts' = [attempts EXCEPT ![e] = @ + 1]
  /\ status' = [status EXCEPT ![e] = "processing"]
  /\ Decide(w, "retry", attempts[e] + 1)
  /\ UNCHANGED <<dlq, brokerVars, replaying, ghostVars, boundVars>>

ProcessRetry(w, e) ==
  /\ MayAttempt(w, e)
  /\ attempts[e] + 1 < MaxAttempts
  /\ attempts' = [attempts EXCEPT ![e] = @ + 1]
  /\ status' = [status EXCEPT ![e] = "processing"]
  /\ Decide(w, "retry", attempts[e] + 1)
  /\ UNCHANGED <<dlq, brokerVars, replaying, ghostVars, boundVars>>

Mut_DeadAtOnce(w, e) ==
  /\ MayAttempt(w, e)
  /\ attempts' = [attempts EXCEPT ![e] = @ + 1]
  /\ status' = [status EXCEPT ![e] = "dead"]
  /\ Decide(w, "dead", attempts[e] + 1)
  /\ UNCHANGED <<dlq, brokerVars, replaying, ghostVars, boundVars>>

\* Permanent error at any attempt, or any error at the last one.
ProcessDead(w, e) ==
  /\ MayAttempt(w, e)
  /\ attempts' = [attempts EXCEPT ![e] = @ + 1]
  /\ status' = [status EXCEPT ![e] = "failed"]
  /\ Decide(w, "dead", attempts[e] + 1)
  /\ UNCHANGED <<dlq, brokerVars, replaying, ghostVars, boundVars>>

PublishRetry(w) ==
  /\ task[w].step = "retry"
  /\ tiers' = Put(tiers, [ev |-> task[w].m.body.ev,
                          tier |-> retryTierForAttempt(task[w].tries)])
  /\ Decide(w, "done", 0)
  /\ UNCHANGED <<rowVars, dlq, queue, dead, replaying, ghostVars, boundVars>>

PublishDead(w) ==
  /\ task[w].step = "dead"
  /\ dead' = Put(dead, task[w].m.body)
  /\ Decide(w, "done", 0)
  /\ UNCHANGED <<rowVars, dlq, queue, tiers, replaying, ghostVars, boundVars>>

\* The consumer returns.  On a lost channel the ack reaches no one.
Ack(w) ==
  /\ task[w].step = "done"
  /\ task' = [task EXCEPT ![w] = Idle]
  /\ UNCHANGED <<rowVars, dlq, brokerVars, replaying, ghostVars, boundVars>>

\* The slot is given up without an ack.
GiveBack(w) ==
  /\ queue' = IF task[w].live THEN Put(queue, Requeued(task[w].m)) ELSE queue
  /\ task' = [task EXCEPT ![w] = Idle]
  /\ UNCHANGED <<rowVars, dlq, tiers, dead, replaying, ghostVars>>

Mut_AckOnFailure(w) ==
  /\ task[w].step = "running" /\ task[w].m.body.ev # NoEvent
  /\ Fault("outage")
  /\ task' = [task EXCEPT ![w] = Idle]
  /\ UNCHANGED <<rowVars, dlq, brokerVars, replaying, ghostVars>>

\* The transaction rolls back on an unclassified error: Nack(true).
ProcessAborted(w) ==
  /\ task[w].step = "running" /\ task[w].m.body.ev # NoEvent
  /\ Fault("outage")
  /\ GiveBack(w)

\* The publish of a retry or of a dead letter throws out of the handler.
PublishFails(w) ==
  /\ task[w].step \in {"retry", "dead"}
  /\ Fault("publish")
  /\ GiveBack(w)

WorkerCrash(w) ==
  /\ task[w].step # "idle"
  /\ Fault("crash")
  /\ GiveBack(w)

\* The broker takes the delivery back; the handler does not notice.
ChannelLost(w) ==
  /\ task[w].step # "idle" /\ task[w].live
  /\ Fault("channel")
  /\ queue' = Put(queue, Requeued(task[w].m))
  /\ task' = [task EXCEPT ![w] = [m |-> task[w].m, step |-> task[w].step,
                                   tries |-> task[w].tries, live |-> FALSE]]
  /\ UNCHANGED <<rowVars, dlq, tiers, dead, replaying, ghostVars>>

\* A retry queue's TTL runs out and the broker dead-letters the message back.
TierExpires(r) ==
  /\ tiers[r] > 0
  /\ tiers' = Take(tiers, r)
  /\ queue' = Put(queue, [body |-> RetryBody(r.ev), hdr |-> "retry", redel |-> FALSE])
  /\ waits' = [waits EXCEPT ![r.ev] = @ + 1]
  /\ UNCHANGED <<rowVars, dlq, dead, task, replaying, accepted, discarded,
                 orphaned, successes, reopened, boundVars>>

-----------------------------------------------------------------------------
(* The dead-letter consumer: one transaction, then the ack.  A message with *)
(* an unstorable id fails the INSERT and is requeued: nothing changes.      *)

\* The row's one status write, whatever the status was: no row, no write.
MarkDead(e) ==
  /\ status' = [status EXCEPT ![e] = IF @ = "absent" THEN @ ELSE "dead"]
  /\ reopened' = [reopened EXCEPT ![e] = IF status[e] = "processed" THEN @ + 1 ELSE @]

PersistDeadLetter(b) ==
  /\ dead[b] > 0
  /\ b.ev \notin Unstorable
  /\ dlq' = [dlq EXCEPT ![b.ev] =
               IF @ = "absent" THEN IF b.fit THEN "fit" ELSE "unfit" ELSE @]
  /\ discarded' = discarded \ {b.ev}
  /\ IF b.ev \in Events THEN MarkDead(b.ev) ELSE UNCHANGED <<status, reopened>>

DlqConsume(b) ==
  /\ PersistDeadLetter(b)
  /\ dead' = Take(dead, b)
  /\ UNCHANGED <<attempts, queue, tiers, task, replaying, accepted, orphaned,
                 waits, successes, boundVars>>

\* Committed, but the ack is lost with the channel or the process.
DlqConsumeUnacked(b) ==
  /\ PersistDeadLetter(b)
  /\ Fault("dlq")
  /\ UNCHANGED <<attempts, brokerVars, task, replaying, accepted, orphaned,
                 waits, successes>>

-----------------------------------------------------------------------------
(* The operator: replay (reset the row, commit, then publish) and discard.  *)

Mut_ReplayTakesLetter(e) ==
  /\ replays < MaxReplays
  /\ dlq[e] # "absent"
  /\ status[e] \in Replayable \cup {"absent"}
  /\ replays' = replays + 1
  /\ IF status[e] = "absent"
       THEN UNCHANGED <<rowVars, waits>>
       ELSE /\ status' = [status EXCEPT ![e] = "received"]
            /\ attempts' = [attempts EXCEPT ![e] = 0]
            /\ waits' = [waits EXCEPT ![e] = 0]
  /\ replaying' = Put(replaying, [ev |-> e, fit |-> dlq[e] = "fit"])
  /\ dlq' = [dlq EXCEPT ![e] = "absent"]
  /\ orphaned' = orphaned \ {e}
  /\ UNCHANGED <<brokerVars, task, accepted, discarded, successes,
                 reopened, sent, faults>>

ReplayPrepare(e) ==
  /\ replays < MaxReplays
  /\ dlq[e] # "absent"
  /\ status[e] \in Replayable \cup {"absent"}
  /\ replays' = replays + 1
  /\ IF status[e] = "absent"
       THEN UNCHANGED <<rowVars, waits>>
       ELSE /\ status' = [status EXCEPT ![e] = "received"]
            /\ attempts' = [attempts EXCEPT ![e] = 0]
            /\ waits' = [waits EXCEPT ![e] = 0]
  /\ replaying' = Put(replaying, [ev |-> e, fit |-> dlq[e] = "fit"])
  /\ orphaned' = orphaned \ {e}
  /\ UNCHANGED <<dlq, brokerVars, task, accepted, discarded, successes,
                 reopened, sent, faults>>

Mut_RedriveWithoutHeader(b) ==
  /\ replaying[b] > 0
  /\ replaying' = Take(replaying, b)
  /\ queue' = Put(queue, Fresh(b))
  /\ UNCHANGED <<rowVars, dlq, tiers, dead, task, ghostVars, boundVars>>

\* The redrive reaches the queue: 202, or 503 if the confirm came too late.
ReplayPublish(b) ==
  /\ replaying[b] > 0
  /\ replaying' = Take(replaying, b)
  /\ queue' = Put(queue, [body |-> b, hdr |-> "replay", redel |-> FALSE])
  /\ UNCHANGED <<rowVars, dlq, tiers, dead, task, ghostVars, boundVars>>

\* The publish is refused (503), finds no queue (202: unlike the ingestion it is
\* not mandatory), or the API stops before making it.
ReplayLost(b) ==
  /\ replaying[b] > 0
  /\ Fault("replay")
  /\ replaying' = Take(replaying, b)
  /\ orphaned' = orphaned \cup {b.ev}
  /\ UNCHANGED <<rowVars, dlq, brokerVars, task, accepted, discarded, waits,
                 successes, reopened>>

Discard(i) ==
  /\ dlq[i] # "absent"
  /\ dlq' = [dlq EXCEPT ![i] = "absent"]
  /\ discarded' = discarded \cup {i}
  /\ UNCHANGED <<rowVars, brokerVars, task, replaying, accepted, orphaned,
                 waits, successes, reopened, boundVars>>

-----------------------------------------------------------------------------
Process(w) ==
  \/ RejectMessage(w)
  \/ \E e \in Events :
       \/ ProcessDuplicate(w, e)
       \/ ProcessFailedAgain(w, e)
       \/ ProcessOk(w, e)
       \/ ProcessRetry(w, e)
       \/ ProcessDead(w, e)

WorkerStep(w) == Process(w) \/ PublishRetry(w) \/ PublishDead(w) \/ Ack(w)

WorkerFault(w) ==
  ProcessAborted(w) \/ PublishFails(w) \/ WorkerCrash(w) \/ ChannelLost(w)

Next ==
  \/ \E e \in Events, fit \in FitKinds : Ingest(e, fit)
  \/ InjectPoison
  \/ \E w \in Workers, m \in Msg : Deliver(w, m)
  \/ \E w \in Workers : WorkerStep(w) \/ WorkerFault(w)
  \/ \E r \in RetryMsg : TierExpires(r)
  \/ \E b \in Body : DlqConsume(b) \/ DlqConsumeUnacked(b)
  \/ \E e \in Events : ReplayPrepare(e)
  \/ \E b \in Body : ReplayPublish(b) \/ ReplayLost(b)
  \/ \E i \in Ids : Discard(i)

Spec == Init /\ [][Next]_vars

\* The broker pushes, the TTLs run out, the consumers' callbacks run to their
\* end and a replay request makes its publish.  Faults, producers and the
\* operator are under no obligation.
Fairness ==
  /\ WF_vars(\E w \in Workers, m \in Msg : Deliver(w, m))
  /\ \A w \in Workers : WF_vars(WorkerStep(w))
  /\ WF_vars(\E r \in RetryMsg : TierExpires(r))
  /\ WF_vars(\E b \in Body : DlqConsume(b))
  /\ WF_vars(\E b \in Body : ReplayPublish(b))

FairSpec == Spec /\ Fairness
-----------------------------------------------------------------------------
(* What every state looks like: the columns' ranges and the messages that   *)
(* can exist (a retry or a replay always names an event).                   *)
TypeOK ==
  /\ status \in [Events -> Statuses]
  /\ attempts \in [Events -> 0 .. MaxAttempts]
  /\ dlq \in [Ids -> {"absent", "fit", "unfit"}]
  /\ queue \in [Msg -> Nat]
  /\ tiers \in [RetryMsg -> Nat]
  /\ dead \in [Body -> Nat]
  /\ task \in [Workers -> Task]
  /\ replaying \in [Body -> Nat]
  /\ accepted \subseteq Ids /\ discarded \subseteq Ids /\ orphaned \subseteq Events
  /\ waits \in [Events -> Nat]
  /\ successes \in [Events -> Nat] /\ reopened \in [Events -> Nat]
  /\ sent \in Nat /\ faults \in Nat /\ replays \in Nat

(* Who holds an event's future.  Only what the broker would deliver again   *)
(* counts: a handler whose channel is lost (live = FALSE) holds nothing.    *)
Holds(w, i)  == task[w].live /\ task[w].m.body.ev = i
Publishing(i) == \E w \in Workers : Holds(w, i) /\ task[w].step \in {"retry", "dead"}
DeadQueued(i) == \E b \in Body : b.ev = i /\ dead[b] > 0
Waiting(i)    == \E r \in RetryMsg : r.ev = i /\ tiers[r] > 0
Queued(i, S)  == \E m \in S : m.body.ev = i /\ queue[m] > 0
Running(i, S) == \E w \in Workers : Holds(w, i) /\ task[w].step = "running" /\ task[w].m \in S
Redriven(i)   == \E b \in Body : b.ev = i /\ replaying[b] > 0

Continuations == {m \in Msg : IsContinuation(m)}

\* Something will make a further attempt at i, or mark it dead.
Continued(i) ==
  \/ Publishing(i) \/ DeadQueued(i) \/ Waiting(i) \/ Redriven(i)
  \/ Queued(i, Continuations) \/ Running(i, Continuations)

\* Some message of i is still to be consumed, be it a first delivery.
Pending(i) == Continued(i) \/ Queued(i, Msg) \/ Running(i, Msg)

(* Accepted means durably queued (webhooks.controller.ts:34): a message the *)
(* broker took is, until its row exists, in a queue or in a delivery that   *)
(* will be made again; if it never becomes a row it ends as a dead letter.  *)
AcceptedIsKept ==
  \A i \in accepted :
    \/ Pending(i)
    \/ i \in Events /\ status[i] # "absent"
    \/ dlq[i] # "absent" \/ i \in discarded

(* An event whose row says an attempt is owed (processing: a retry is due;  *)
(* received: a replay reset it) always has a message that the processor     *)
(* will take for a continuation; a first delivery would be dropped as a     *)
(* duplicate.  Only a replay that lost its publish leaves one without.      *)
InFlightIsCarried ==
  \A e \in Events :
    status[e] \in {"received", "processing"} => Continued(e) \/ e \in orphaned

(* Failed means decided dead with the dead letter perhaps not published     *)
(* (idempotent-event-processor.ts:20-25): some message is left to emit it.  *)
FailedIsEmitted ==
  \A e \in Events : status[e] = "failed" => Pending(e) \/ e \in orphaned

(* "for Dead, the dead letter is persisted" (same comment).                 *)
DeadIsPersisted ==
  \A e \in Events : status[e] = "dead" => dlq[e] # "absent" \/ e \in discarded

(* A replay whose publish failed can be called again (dlq-replay.service.ts *)
(* lines 97-98): the event it reset, replayable as it is, still has the     *)
(* letter that the second call starts from, unless an operator discarded it.*)
ReplayCanBeRetried ==
  \A e \in Events : status[e] = "received" => dlq[e] # "absent" \/ e \in discarded

(* The budget: an event between attempts has one left, so no retry is ever  *)
(* scheduled for an event that has spent them all.                          *)
BudgetLeft ==
  \A e \in Events : status[e] = "processing" => attempts[e] < MaxAttempts

(* The handler's success commits once per event, whatever is redelivered,   *)
(* duplicated or replayed, as long as no late dead letter hit "processed".  *)
SucceedsOnce ==
  \A e \in Events : reopened[e] = 0 => successes[e] <= 1

(* Without faults and replays every attempt after the first sat through a   *)
(* retry tier, however many duplicates the partner sends meanwhile.         *)
BackoffRespected ==
  faults = 0 /\ replays = 0 => \A e \in Events : attempts[e] <= waits[e] + 1

(* No delivery reopens a settled event, and none rewinds the attempts: only *)
(* an operator's replay does, one event at a time.                          *)
OnlyReplayReopens ==
  [][\A e \in Events :
       \/ status[e] \in Settled /\ status'[e] \notin Settled
       \/ attempts'[e] < attempts[e]
       => replays' = replays + 1 /\ status'[e] = "received" /\ dlq[e] # "absent"
    ]_vars

OnRecord == {e \in Events : dlq[e] # "absent"}
Row == INSTANCE EventRow
         WITH letters <- OnRecord, discarded <- discarded \cap Events, missed <- {}

(* The row lives the life EventRow promises: attempts on open events within *)
(* the budget, burials that come with their dead letter, and resets of a    *)
(* recorded one from a replayable state, one at a time.                     *)
ImplementsEventRow == Row!Spec

HasLetter(i) == dlq[i] # "absent" \/ i \in discarded

(* With faults and replays bounded, the system comes to rest with every     *)
(* accepted message settled: processed, dead, or a dead letter on record.   *)
(* If a replay lost its publish, a second call would be taken.              *)
AtRest(i) ==
  \/ i \in Events /\ status[i] \in Settled
  \/ (i \in Events => status[i] = "absent") /\ HasLetter(i)
  \/ i \in orphaned /\ status[i] \in Replayable /\ HasLetter(i)

EventuallySettled == \A i \in Ids : <>[](i \in accepted => AtRest(i))
=============================================================================
