---------------------------- MODULE BackoffProofs ----------------------------
(***************************************************************************)
(* Backoff of the pipeline, for every number of events, workers, tiers,    *)
(* attempts and sends.  Until the first fault or replay the continuation   *)
(* of an event is one message in one place: with the worker that decided   *)
(* on a retry, in a tier, back in the queue, or with the worker that makes *)
(* the next attempt.  Duplicates a partner sends are no continuations.     *)
(***************************************************************************)
EXTENDS PipelineProofs

Calm == faults = 0 /\ replays = 0

InTask(e) ==
  {w \in Workers :
     /\ task[w].m.body.ev = e
     /\ \/ task[w].step = "retry"
        \/ task[w].step = "running" /\ IsContinuation(task[w].m)}
InTiers(e) == {r \in RetryMsg : r.ev = e /\ tiers[r] > 0}
InQueue(e) == {m \in Continuations : m.body.ev = e /\ queue[m] > 0}

OneCarrier(e) ==
  /\ \A v, w \in InTask(e) : v = w
  /\ \A r, s \in InTiers(e) : r = s /\ tiers[r] = 1
  /\ \A m, n \in InQueue(e) : m = n /\ queue[m] = 1
  /\ InTask(e) # {} => InTiers(e) = {} /\ InQueue(e) = {}
  /\ InTiers(e) # {} => InQueue(e) = {}
  /\ status[e] = "absent" => InTask(e) = {} /\ InTiers(e) = {} /\ InQueue(e) = {}

\* An attempt that is about to be made has its wait behind it.
Waited(e) ==
  /\ attempts[e] <= waits[e] + 1
  /\ InQueue(e) # {} \/ (\E w \in InTask(e) : task[w].step = "running")
       => attempts[e] <= waits[e]

CalmInv ==
  Calm => /\ \A b \in Body : replaying[b] = 0
          /\ \A e \in Events : OneCarrier(e) /\ Waited(e)

\* Nothing of e moves but out of the way.
LEMMA CarriersLeave ==
  ASSUME NEW e, OneCarrier(e), Waited(e),
         InTask(e)' \subseteq InTask(e),
         InTiers(e)' \subseteq InTiers(e), \A r \in InTiers(e)' : tiers'[r] = tiers[r],
         InQueue(e)' \subseteq InQueue(e), \A m \in InQueue(e)' : queue'[m] = queue[m],
         \A w \in InTask(e)' : task'[w].step = task[w].step,
         attempts'[e] = attempts[e], waits'[e] = waits[e],
         status'[e] = "absent" => status[e] = "absent"
  PROVE  OneCarrier(e)' /\ Waited(e)'
<1>1. OneCarrier(e)'
  BY DEF OneCarrier
<1>2. Waited(e)'
  BY DEF Waited
<1> QED
  BY <1>1, <1>2

\* The worker's decision takes its delivery out of the way, or makes it carry.
LEMMA TaskLeaves ==
  ASSUME TypeInv, NEW w \in Workers, NEW t, task' = [task EXCEPT ![w] = t],
         NEW e, t.step \notin {"retry", "running"} \/ t.m.body.ev # e
  PROVE  /\ InTask(e)' \subseteq InTask(e) \ {w}
         /\ \A v \in InTask(e)' : task'[v].step = task[v].step
  BY DEF TypeInv, TypeOK, InTask

\* Queue and tiers as they were.
LEMMA TaskOnly ==
  ASSUME NEW e, OneCarrier(e), Waited(e), UNCHANGED <<queue, tiers>>,
         InTask(e)' \subseteq InTask(e), \A w \in InTask(e)' : task'[w].step = task[w].step,
         attempts'[e] = attempts[e], waits'[e] = waits[e],
         status'[e] = "absent" => status[e] = "absent"
  PROVE  OneCarrier(e)' /\ Waited(e)'
<1>1. InTiers(e)' = InTiers(e) /\ InQueue(e)' = InQueue(e)
  BY DEF InTiers, InQueue
<1> QED
  BY <1>1, CarriersLeave

\* A step that leaves the system calm is no fault and no replay.
LEMMA CalmStep ==
  ASSUME TypeInv, CalmInv, Next, Calm'
  PROVE  /\ Calm
         /\ \/ \E e \in Events, fit \in FitKinds : Ingest(e, fit)
            \/ InjectPoison
            \/ \E w \in Workers, m \in Msg : Deliver(w, m)
            \/ \E w \in Workers : WorkerStep(w)
            \/ \E r \in RetryMsg : TierExpires(r)
            \/ \E b \in Body : DlqConsume(b)
            \/ \E i \in Ids : Discard(i)
<1>1. faults \in Nat /\ replays \in Nat
  BY DEF TypeInv, TypeOK
<1>2. ASSUME NEW kind, Fault(kind) PROVE FALSE
  BY <1>1, <1>2 DEF Fault, Calm
<1>3. ASSUME NEW w \in Workers, WorkerFault(w) PROVE FALSE
  BY <1>2, <1>3 DEF WorkerFault, ProcessAborted, PublishFails, WorkerCrash, ChannelLost
<1>4. ASSUME NEW b \in Body, DlqConsumeUnacked(b) \/ ReplayLost(b) PROVE FALSE
  BY <1>2, <1>4 DEF DlqConsumeUnacked, ReplayLost
<1>5. ASSUME NEW e \in Events, ReplayPrepare(e) PROVE FALSE
  BY <1>1, <1>5 DEF ReplayPrepare, Calm
<1>6. ASSUME UNCHANGED boundVars \/ UNCHANGED <<faults, replays>> PROVE Calm
  BY <1>6 DEF boundVars, Calm
<1>7. ASSUME NEW w \in Workers, WorkerStep(w) PROVE Calm
  BY <1>6, <1>7 DEF WorkerStep, Process, RejectMessage, ProcessDuplicate, ProcessFailedAgain,
     ProcessOk, ProcessRetry, ProcessDead, PublishRetry, PublishDead, Ack
<1>8. ASSUME NEW b \in Body, ReplayPublish(b) PROVE FALSE
  <2>1. Calm
    BY <1>6, <1>8 DEF ReplayPublish
  <2> QED
    BY <1>8, <2>1 DEF CalmInv, ReplayPublish
<1>9. Calm
  BY <1>3, <1>4, <1>5, <1>6, <1>7 DEF Next, Ingest, InjectPoison, Deliver, TierExpires,
     DlqConsume, ReplayPublish, Discard
<1> QED
  BY <1>3, <1>4, <1>5, <1>8, <1>9 DEF Next

\* What a producer sends is no continuation.
LEMMA SendWaits ==
  ASSUME TypeInv, NEW b \in Body, queue' = Put(queue, Fresh(b)),
         UNCHANGED <<status, attempts, tiers, task, waits>>,
         NEW e, OneCarrier(e), Waited(e)
  PROVE  OneCarrier(e)' /\ Waited(e)'
<1>1. Fresh(b) \in Msg /\ Fresh(b) \notin Continuations
  BY FreshMsg DEF Fresh, Continuations, IsContinuation
<1>2. \A m \in Continuations : queue'[m] = queue[m]
  <2>1. queue \in [Msg -> Nat]
    BY DEF TypeInv, TypeOK
  <2>2. \A m \in Msg : m # Fresh(b) => queue'[m] = queue[m]
    BY <1>1, <2>1, PutBag
  <2> QED
    BY <1>1, <2>2 DEF Continuations
<1>3. InQueue(e)' = InQueue(e)
  BY <1>2 DEF InQueue
<1>4. InTask(e)' = InTask(e) /\ InTiers(e)' = InTiers(e)
  BY DEF InTask, InTiers
<1> QED
  BY <1>2, <1>3, <1>4, CarriersLeave DEF InQueue

\* Out of the queue with the last continuation, or with something else.
LEMMA DeliverWaits ==
  ASSUME TypeInv, NEW w \in Workers, NEW m \in Msg, Deliver(w, m),
         NEW e \in Events, OneCarrier(e), Waited(e)
  PROVE  OneCarrier(e)' /\ Waited(e)'
<1>1. /\ task[w].step = "idle" /\ queue[m] > 0 /\ queue' = Take(queue, m)
      /\ UNCHANGED <<status, attempts, tiers, waits>>
  BY DEF Deliver, rowVars, ghostVars
<1>2. PICK t : task' = [task EXCEPT ![w] = t] /\ t.m = m /\ t.step = "running"
  <2> WITNESS [m |-> m, step |-> "running", tries |-> 0, live |-> TRUE]
  <2> QED
    BY DEF Deliver
<1>3. /\ task \in [Workers -> Task] /\ queue \in [Msg -> Nat]
      /\ attempts[e] \in Nat /\ waits[e] \in Nat
  BY DEF TypeInv, TypeOK
<1>4. /\ task'[w] = t
      /\ \A v \in Workers \ {w} : task'[v] = task[v]
      /\ w \notin InTask(e)
  BY <1>1, <1>2, <1>3 DEF InTask
<1>5. /\ \A n \in Msg : n # m => queue'[n] = queue[n]
      /\ queue'[m] = queue[m] - 1
  BY <1>1, <1>3 DEF Take
<1>6. InTiers(e)' = InTiers(e)
  BY <1>1 DEF InTiers
<1>7. CASE m \in InQueue(e)
  <2>1. queue[m] = 1 /\ m \in Continuations /\ m.body.ev = e /\ InQueue(e) = {m}
    BY <1>7 DEF OneCarrier, InQueue
  <2>2. InQueue(e)' = {}
    <3>1. \A n \in Msg : n \in InQueue(e)' => queue'[n] > 0 /\ n \in InQueue(e) \cup {m}
      BY <1>5, <1>3 DEF InQueue, Continuations
    <3>2. queue'[m] = 0
      BY <1>5, <2>1
    <3> QED
      BY <2>1, <3>1, <3>2 DEF InQueue, Continuations
  <2>3. InTask(e) = {} /\ InTiers(e) = {}
    BY <1>7 DEF OneCarrier
  <2>4. InTask(e)' = {w}
    BY <1>1, <1>2, <1>4, <2>1, <2>3 DEF InTask, Continuations
  <2>5. status[e] # "absent" /\ attempts[e] <= waits[e]
    BY <1>7 DEF OneCarrier, Waited
  <2>6. OneCarrier(e)'
    BY <1>1, <1>6, <2>2, <2>3, <2>4, <2>5 DEF OneCarrier
  <2>7. Waited(e)'
    BY <1>1, <1>3, <2>5 DEF Waited
  <2> QED
    BY <2>6, <2>7
<1>8. CASE m \notin InQueue(e)
  <2>1. ~(IsContinuation(m) /\ m.body.ev = e)
    BY <1>1, <1>8 DEF InQueue, Continuations
  <2>2. InTask(e)' \subseteq InTask(e) /\ \A v \in InTask(e)' : task'[v].step = task[v].step
    BY <1>2, <1>4, <2>1 DEF InTask
  <2>3. \A n \in InQueue(e)' : n \in InQueue(e) /\ queue'[n] = queue[n]
    BY <1>1, <1>5, <2>1 DEF InQueue, Continuations
  <2>4. /\ InTiers(e)' \subseteq InTiers(e) /\ \A r \in InTiers(e)' : tiers'[r] = tiers[r]
        /\ InQueue(e)' \subseteq InQueue(e)
        /\ status'[e] = status[e] /\ attempts'[e] = attempts[e] /\ waits'[e] = waits[e]
    BY <1>1, <1>6, <2>3
  <2> QED
    BY <2>2, <2>3, <2>4, CarriersLeave
<1> QED
  BY <1>7, <1>8

\* The three outcomes of an attempt.  It was due: there was no row, or the
\* attempt is the event's continuation and has its wait behind it.
LEMMA AttemptWaits ==
  ASSUME TypeInv, NEW w \in Workers, NEW d \in Events,
         ProcessOk(w, d) \/ ProcessRetry(w, d) \/ ProcessDead(w, d),
         NEW e \in Events, OneCarrier(e), Waited(e)
  PROVE  OneCarrier(e)' /\ Waited(e)'
<1>1. /\ MayAttempt(w, d) /\ attempts' = [attempts EXCEPT ![d] = @ + 1]
      /\ UNCHANGED <<queue, tiers, waits>>
      /\ \A c \in Events : c # d => status'[c] = status[c]
      /\ status'[d] # "absent"
  BY DEF ProcessOk, ProcessRetry, ProcessDead, brokerVars, ghostVars, TypeInv, TypeOK
<1>2. PICK t : task' = [task EXCEPT ![w] = t] /\ t.m = task[w].m /\ t.step # "running"
  <2>1. ASSUME NEW step \in {"done", "retry", "dead"}, NEW n, Decide(w, step, n)
        PROVE  \E t : task' = [task EXCEPT ![w] = t] /\ t.m = task[w].m /\ t.step # "running"
    <3> WITNESS [m |-> task[w].m, step |-> step, tries |-> n, live |-> task[w].live]
    <3> QED
      BY <2>1 DEF Decide
  <2> QED
    BY <2>1 DEF ProcessOk, ProcessRetry, ProcessDead
<1>3. /\ task \in [Workers -> Task] /\ attempts[e] \in Nat /\ waits[e] \in Nat
      /\ attempts \in [Events -> 0 .. MaxAttempts]
  BY DEF TypeInv, TypeOK
<1>4. task[w].m.body.ev = d /\ task[w].step = "running"
  BY <1>1 DEF MayAttempt, Claiming
<1>5. InTiers(e)' = InTiers(e) /\ InQueue(e)' = InQueue(e)
  BY <1>1 DEF InTiers, InQueue
<1>6. CASE e # d
  <2>1. InTask(e)' \subseteq InTask(e) /\ \A v \in InTask(e)' : task'[v].step = task[v].step
    <3>1. t.m.body.ev # e
      BY <1>2, <1>4, <1>6
    <3>2. task' = [task EXCEPT ![w] = t]
      BY <1>2
    <3>3. InTask(e)' \subseteq InTask(e) \ {w}
      BY <3>1, <3>2, TaskLeaves
    <3>4. \A v \in InTask(e) \ {w} : task'[v] = task[v]
      BY <1>3, <3>2 DEF InTask
    <3> QED
      BY <3>3, <3>4
  <2>2. attempts'[e] = attempts[e] /\ waits'[e] = waits[e] /\ status'[e] = status[e]
    BY <1>1, <1>3, <1>6
  <2> QED
    BY <1>1, <2>1, <2>2, TaskOnly
<1>7. CASE e = d
  <2>1. \/ w \in InTask(e)
        \/ status[e] = "absent"
    BY <1>1, <1>4, <1>7 DEF MayAttempt, InTask
  <2>2. InTask(e) \subseteq {w} /\ InTiers(e) = {} /\ InQueue(e) = {}
    BY <2>1 DEF OneCarrier
  <2>3. attempts[e] <= waits[e]
    <3>1. CASE w \in InTask(e)
      BY <1>4, <3>1 DEF Waited
    <3>2. CASE status[e] = "absent"
      <4>1. attempts[e] = 0
        BY <1>7, <3>2 DEF TypeInv, FreshBudget
      <4> QED
        BY <1>3, <4>1
    <3> QED
      BY <2>1, <3>1, <3>2
  <2>4. InTask(e)' \subseteq {w}
    BY <1>2, <1>3, <2>2 DEF InTask
  <2>5. \A v \in InTask(e)' : task'[v].step # "running"
    BY <1>2, <1>3, <2>4
  <2>6. OneCarrier(e)'
    BY <1>1, <1>5, <1>7, <2>2, <2>4 DEF OneCarrier
  <2>7. attempts'[e] = attempts[e] + 1 /\ waits'[e] = waits[e]
    BY <1>1, <1>3, <1>7
  <2>8. Waited(e)'
    BY <1>3, <1>5, <2>2, <2>3, <2>5, <2>7 DEF Waited
  <2> QED
    BY <2>6, <2>8
<1> QED
  BY <1>6, <1>7

\* The other ends of a delivery carry nothing on.
LEMMA EndWaits ==
  ASSUME TypeInv, NEW w \in Workers, NEW t,
         task' = [task EXCEPT ![w] = t], t.step \notin {"retry", "running"},
         UNCHANGED <<status, attempts, queue, tiers, waits>>,
         NEW e, OneCarrier(e), Waited(e)
  PROVE  OneCarrier(e)' /\ Waited(e)'
<1>1. InTask(e)' \subseteq InTask(e) /\ \A v \in InTask(e)' : task'[v].step = task[v].step
  BY TaskLeaves
<1> QED
  BY <1>1, TaskOnly

\* From the worker to the tier.
LEMMA PublishRetryWaits ==
  ASSUME TypeInv, NEW w \in Workers, PublishRetry(w),
         NEW e \in Events, OneCarrier(e), Waited(e)
  PROVE  OneCarrier(e)' /\ Waited(e)'
<1>1. task[w].step = "retry" /\ UNCHANGED <<status, attempts, queue, waits>>
  BY DEF PublishRetry, rowVars, ghostVars
<1>2. PICK t : task' = [task EXCEPT ![w] = t] /\ t.step = "done"
  <2> WITNESS [m |-> task[w].m, step |-> "done", tries |-> 0, live |-> task[w].live]
  <2> QED
    BY DEF PublishRetry, Decide
<1>3. /\ task \in [Workers -> Task] /\ tiers \in [RetryMsg -> Nat]
      /\ attempts[e] \in Nat /\ waits[e] \in Nat
  BY DEF TypeInv, TypeOK
<1>4. PICK r \in RetryMsg : r.ev = task[w].m.body.ev /\ tiers' = Put(tiers, r)
  <2>1. task[w].tries \in 1 .. MaxAttempts /\ task[w].m.body.ev \in Events
    BY <1>1, <1>3, TaskFields DEF TypeInv, TaskOK
  <2>2. retryTierForAttempt(task[w].tries) \in 0 .. NTiers - 1
    BY <2>1, PipelineAssumption DEF retryTierForAttempt
  <2> QED
    BY <2>1, <2>2 DEF RetryMsg, PublishRetry
<1>5. InTask(e)' \subseteq InTask(e) \ {w} /\ \A v \in InTask(e)' : task'[v].step = task[v].step
  <2>1. task' = [task EXCEPT ![w] = t] /\ t.step \notin {"retry", "running"}
    BY <1>2
  <2>2. t.step \notin {"retry", "running"} \/ t.m.body.ev # e
    BY <2>1
  <2> QED
    BY <2>1, <2>2, TaskLeaves, Zenon
<1>6. /\ \A s \in RetryMsg : s # r => tiers'[s] = tiers[s]
      /\ tiers'[r] = tiers[r] + 1
  BY <1>3, <1>4 DEF Put
<1>7. InQueue(e)' = InQueue(e)
  BY <1>1 DEF InQueue
<1>8. CASE r.ev = e
  <2>1. w \in InTask(e)
    BY <1>1, <1>4, <1>8 DEF InTask
  <2>2. InTask(e) = {w} /\ InTiers(e) = {} /\ InQueue(e) = {} /\ status[e] # "absent"
    BY <2>1 DEF OneCarrier
  <2>3. tiers[r] = 0
    BY <1>3, <1>4, <1>8, <2>2 DEF InTiers
  <2>4. InTiers(e)' \subseteq {r} /\ tiers'[r] = 1 /\ InTask(e)' = {}
    BY <1>5, <1>6, <2>2, <2>3 DEF InTiers
  <2>5. OneCarrier(e)'
    BY <1>1, <1>7, <2>2, <2>4 DEF OneCarrier
  <2>6. Waited(e)'
    BY <1>1, <1>7, <2>2, <2>4 DEF Waited
  <2> QED
    BY <2>5, <2>6
<1>9. CASE r.ev # e
  <2>1. InTiers(e)' = InTiers(e) /\ \A s \in InTiers(e) : tiers'[s] = tiers[s]
    BY <1>6, <1>9 DEF InTiers
  <2> QED
    BY <1>1, <1>5, <1>7, <2>1, CarriersLeave
<1> QED
  BY <1>8, <1>9

\* From the tier to the queue, which is the wait.
LEMMA TierWaits ==
  ASSUME TypeInv, NEW r \in RetryMsg, TierExpires(r),
         NEW e \in Events, OneCarrier(e), Waited(e)
  PROVE  OneCarrier(e)' /\ Waited(e)'
<1>1. /\ tiers[r] > 0 /\ tiers' = Take(tiers, r)
      /\ waits' = [waits EXCEPT ![r.ev] = @ + 1]
      /\ UNCHANGED <<status, attempts, task>>
  BY DEF TierExpires, rowVars
<1>2. PICK m \in Continuations : m.body.ev = r.ev /\ queue' = Put(queue, m)
  <2>1. r.ev \in Events
    BY DEF RetryMsg
  <2>2. [body |-> RetryBody(r.ev), hdr |-> "retry", redel |-> FALSE] \in Continuations
    BY <2>1, Bodies, HeaderMsg
  <2> QED
    BY <2>2 DEF TierExpires, RetryBody
<1>3. /\ tiers \in [RetryMsg -> Nat] /\ queue \in [Msg -> Nat] /\ r.ev \in Events
      /\ attempts[e] \in Nat /\ waits[e] \in Nat /\ waits \in [Events -> Nat] /\ m \in Msg
  BY <1>2 DEF TypeInv, TypeOK, RetryMsg, Continuations
<1>4. InTask(e)' = InTask(e) /\ \A w \in InTask(e)' : task'[w].step = task[w].step
  BY <1>1 DEF InTask
<1>5. /\ \A s \in RetryMsg : s # r => tiers'[s] = tiers[s]
      /\ tiers'[r] = tiers[r] - 1
  BY <1>1, <1>3 DEF Take
<1>6. /\ \A n \in Msg : n # m => queue'[n] = queue[n]
      /\ queue'[m] = queue[m] + 1
  BY <1>2, <1>3 DEF Put
<1>7. CASE r.ev = e
  <2>1. r \in InTiers(e)
    BY <1>1, <1>7 DEF InTiers
  <2>2. /\ InTiers(e) = {r} /\ tiers[r] = 1 /\ InTask(e) = {} /\ InQueue(e) = {}
        /\ status[e] # "absent"
    BY <2>1 DEF OneCarrier
  <2>3. queue[m] = 0
    BY <1>2, <1>3, <1>7, <2>2 DEF InQueue
  <2>4. InTiers(e)' = {}
    BY <1>3, <1>5, <2>2 DEF InTiers
  <2>5. InQueue(e)' \subseteq {m} /\ queue'[m] = 1
    BY <1>6, <2>2, <2>3 DEF InQueue, Continuations
  <2>6. OneCarrier(e)'
    BY <1>1, <1>4, <2>2, <2>4, <2>5 DEF OneCarrier
  <2>7. attempts'[e] = attempts[e] /\ waits'[e] = waits[e] + 1 /\ attempts[e] <= waits[e] + 1
    BY <1>1, <1>3, <1>7 DEF Waited
  <2>8. Waited(e)'
    BY <1>3, <2>7 DEF Waited
  <2> QED
    BY <2>6, <2>8
<1>8. CASE r.ev # e
  <2>1. InTiers(e)' = InTiers(e) /\ \A s \in InTiers(e)' : tiers'[s] = tiers[s]
    BY <1>5, <1>8 DEF InTiers
  <2>2. InQueue(e)' = InQueue(e) /\ \A n \in InQueue(e)' : queue'[n] = queue[n]
    BY <1>2, <1>6, <1>8 DEF InQueue, Continuations
  <2>3. attempts'[e] = attempts[e] /\ waits'[e] = waits[e] /\ status'[e] = status[e]
    BY <1>1, <1>3, <1>8
  <2> QED
    BY <1>4, <2>1, <2>2, <2>3, CarriersLeave
<1> QED
  BY <1>7, <1>8

\* One event's carriers and waits over a calm step.
LEMMA EventWaits ==
  ASSUME TypeInv, CalmInv, Next, Calm', NEW e \in Events, OneCarrier(e), Waited(e)
  PROVE  OneCarrier(e)' /\ Waited(e)'
<1>1. ASSUME NEW d \in Events, NEW fit \in FitKinds, Ingest(d, fit)
      PROVE  OneCarrier(e)' /\ Waited(e)'
  <2>1. [ev |-> d, fit |-> fit] \in Body
    BY Bodies, PipelineAssumption
  <2> QED
    BY <1>1, <2>1, SendWaits DEF Ingest, rowVars
<1>2. CASE InjectPoison
  BY <1>2, Bodies, SendWaits DEF InjectPoison, rowVars
<1>3. ASSUME NEW w \in Workers, WorkerStep(w) PROVE OneCarrier(e)' /\ Waited(e)'
  <2>1. ASSUME NEW step \in {"done", "dead"}, NEW n, Decide(w, step, n),
               UNCHANGED <<status, attempts, queue, tiers, waits>>
        PROVE  OneCarrier(e)' /\ Waited(e)'
    BY <2>1, EndWaits DEF Decide
  <2>2. CASE \/ RejectMessage(w) \/ PublishDead(w)
             \/ \E d \in Events : ProcessDuplicate(w, d) \/ ProcessFailedAgain(w, d)
    BY <2>1, <2>2 DEF RejectMessage, PublishDead, ProcessDuplicate, ProcessFailedAgain,
       rowVars, brokerVars, ghostVars
  <2>3. CASE Ack(w)
    BY <2>3, EndWaits DEF Ack, Idle, rowVars, brokerVars, ghostVars
  <2>4. CASE PublishRetry(w)
    BY <2>4, PublishRetryWaits
  <2>5. ASSUME NEW d \in Events, ProcessOk(w, d) \/ ProcessRetry(w, d) \/ ProcessDead(w, d)
        PROVE  OneCarrier(e)' /\ Waited(e)'
    BY <2>5, AttemptWaits
  <2> QED
    BY <1>3, <2>2, <2>3, <2>4, <2>5 DEF WorkerStep, Process
<1>4. ASSUME NEW b \in Body, DlqConsume(b) PROVE OneCarrier(e)' /\ Waited(e)'
  <2>1. UNCHANGED <<attempts, queue, tiers, task, waits>> /\ PersistDeadLetter(b)
    BY <1>4 DEF DlqConsume
  <2>2. status'[e] = "absent" => status[e] = "absent"
    BY <2>1 DEF PersistDeadLetter, MarkDead, TypeInv, TypeOK
  <2>3. InTask(e)' = InTask(e)
    BY <2>1 DEF InTask
  <2> QED
    BY <2>1, <2>2, <2>3, TaskOnly
<1>5. ASSUME NEW i \in Ids, Discard(i) PROVE OneCarrier(e)' /\ Waited(e)'
  <2>1. UNCHANGED <<status, attempts, queue, tiers, task, waits>>
    BY <1>5 DEF Discard, rowVars, brokerVars
  <2>2. InTask(e)' = InTask(e)
    BY <2>1 DEF InTask
  <2> QED
    BY <2>1, <2>2, TaskOnly
<1> QED
  BY <1>1, <1>2, <1>3, <1>4, <1>5, CalmStep, DeliverWaits, TierWaits

LEMMA CalmNext == TypeInv /\ CalmInv /\ [Next]_vars => CalmInv'
<1> SUFFICES ASSUME TypeInv, CalmInv, [Next]_vars, Calm' PROVE CalmInv'
  BY DEF CalmInv
<1>1. CASE UNCHANGED vars
  BY <1>1 DEF vars, rowVars, brokerVars, ghostVars, boundVars, CalmInv, Calm, OneCarrier, Waited,
     InTask, InTiers, InQueue
<1>2. CASE Next
  <2>1. Calm
    BY <1>2, CalmStep
  <2>2. \A e \in Events : OneCarrier(e)' /\ Waited(e)'
    BY <1>2, <2>1, EventWaits DEF CalmInv
  <2>3. replaying' = replaying
    BY <1>2, CalmStep DEF Ingest, InjectPoison, Deliver, WorkerStep, Process, RejectMessage,
       ProcessDuplicate, ProcessFailedAgain, ProcessOk, ProcessRetry, ProcessDead, PublishRetry,
       PublishDead, Ack, TierExpires, DlqConsume, Discard
  <2> QED
    BY <2>1, <2>2, <2>3 DEF CalmInv
<1> QED
  BY <1>1, <1>2

LEMMA CalmInit == Init => CalmInv
<1> SUFFICES ASSUME Init PROVE CalmInv
  OBVIOUS
<1>1. ASSUME NEW e \in Events PROVE InTask(e) = {} /\ InTiers(e) = {} /\ InQueue(e) = {}
  BY DEF Init, Idle, InTask, InTiers, InQueue, Continuations
<1> QED
  BY <1>1 DEF Init, CalmInv, OneCarrier, Waited

\* Until the first fault or replay, every attempt of an event after its first
\* sat through a retry tier, whatever else the partner sends.
THEOREM EveryAttemptWaits == Spec => []BackoffRespected
<1>1. CalmInv => BackoffRespected
  BY DEF CalmInv, Calm, Waited, BackoffRespected
<1> QED
  BY <1>1, CalmInit, CalmNext, TypeInvariance, PTL DEF Spec
=============================================================================
