--------------------------- MODULE PipelineProofs ---------------------------
(* Theorems about Pipeline for every number of events, workers, tiers,      *)
(* attempts, sends, faults and replays.                                     *)
EXTENDS Pipeline, TLAPS

USE PipelineAssumption

-----------------------------------------------------------------------------
(* The operators the actions are built from.                                *)

\* One message more, or one fewer of a message there is, leaves a bag.
LEMMA PutBag ==
  ASSUME NEW S, NEW bag \in [S -> Nat], NEW x \in S
  PROVE  /\ Put(bag, x) \in [S -> Nat]
         /\ Put(bag, x)[x] > 0
         /\ \A y \in S : bag[y] > 0 => Put(bag, x)[y] > 0
         /\ \A y \in S : y # x => Put(bag, x)[y] = bag[y]
  BY DEF Put

LEMMA TakeBag ==
  ASSUME NEW S, NEW bag \in [S -> Nat], NEW x \in S, bag[x] > 0
  PROVE  /\ Take(bag, x) \in [S -> Nat]
         /\ \A y \in S : y # x => Take(bag, x)[y] = bag[y]
         /\ \A y \in S : Take(bag, x)[y] > 0 => bag[y] > 0
  BY DEF Take

\* What a producer, a requeue, a retry queue and a replay put in the queue.
LEMMA Bodies ==
  /\ Poison \in Body
  /\ \A e \in Events, fit \in BOOLEAN : [ev |-> e, fit |-> fit] \in Body
  /\ \A e \in Events : RetryBody(e) \in Body /\ RetryBody(e).ev = e
  BY DEF Body, Ids, Poison, RetryBody

LEMMA FreshMsg ==
  \A b \in Body : Fresh(b) \in Msg /\ Fresh(b).body = b
  BY DEF Fresh, Msg

LEMMA RequeuedMsg ==
  \A m \in Msg : /\ Requeued(m) \in Continuations
                 /\ Requeued(m) \in Msg
                 /\ Requeued(m).body = m.body
  BY DEF Requeued, Msg, Continuations, IsContinuation

LEMMA HeaderMsg ==
  \A b \in Body, h \in {"retry", "replay"} :
    /\ [body |-> b, hdr |-> h, redel |-> FALSE] \in Continuations
    /\ [body |-> b, hdr |-> h, redel |-> FALSE] \in Msg
  BY DEF Msg, Continuations, IsContinuation

LEMMA MsgFields ==
  \A m \in Msg : m.body \in Body /\ m.body.ev \in Ids
  BY DEF Msg, Body

LEMMA TaskFields ==
  /\ Idle \in Task
  /\ \A t \in Task : /\ t.m \in Msg /\ t.step \in Steps
                     /\ t.tries \in 0 .. MaxAttempts /\ t.live \in BOOLEAN
  /\ \A m \in Msg, s \in Steps, n \in 0 .. MaxAttempts, l \in BOOLEAN :
       [m |-> m, step |-> s, tries |-> n, live |-> l] \in Task
<1>1. Fresh(Poison) \in Msg
  BY Bodies, FreshMsg
<1> QED
  BY <1>1 DEF Task, Idle, Steps

-----------------------------------------------------------------------------
(* Strengthening 1: what the types do not say of a task, a replay and a row.*)

\* Only a row's attempt is retried; a retry carries the attempt it made.
TaskOK ==
  \A w \in Workers :
    task[w].step = "retry" => task[w].m.body.ev \in Events /\ task[w].tries # 0

\* A replay in progress is of an event whose dead letter was on record.
ReplayOK ==
  \A b \in Body :
    replaying[b] > 0 => b.ev \in Events /\ (dlq[b.ev] # "absent" \/ b.ev \in discarded)

\* A row that has not been attempted, or was reset, has its whole budget.
FreshBudget ==
  \A e \in Events : status[e] \in {"absent", "received"} => attempts[e] = 0

TypeInv == TypeOK /\ TaskOK /\ ReplayOK /\ FreshBudget /\ BudgetLeft

LEMMA TypeInvInit == Init => TypeInv
<1> SUFFICES ASSUME Init PROVE TypeInv
  OBVIOUS
<1>1. task \in [Workers -> Task]
  BY TaskFields DEF Init
<1>2. \A w \in Workers : task[w].step = "idle"
  BY DEF Init, Idle
<1>3. attempts \in [Events -> 0 .. MaxAttempts]
  BY DEF Init
<1> QED
  BY <1>1, <1>2, <1>3
  DEF Init, TypeInv, TypeOK, TaskOK, ReplayOK, FreshBudget, BudgetLeft, Ids, Statuses

\* What a worker's decision, and the end of its delivery, leave as tasks.
LEMMA DecideTask ==
  ASSUME TypeOK, NEW w \in Workers, NEW s \in Steps, NEW n \in 0 .. MaxAttempts,
         Decide(w, s, n)
  PROVE  task' \in [Workers -> Task]
<1>1. task \in [Workers -> Task]
  BY DEF TypeOK
<1>2. [m |-> task[w].m, step |-> s, tries |-> n, live |-> task[w].live] \in Task
  BY <1>1, TaskFields
<1> QED
  BY <1>1, <1>2 DEF Decide

LEMMA IdleTask ==
  ASSUME TypeOK, NEW w \in Workers, task' = [task EXCEPT ![w] = Idle]
  PROVE  task' \in [Workers -> Task]
<1>1. task \in [Workers -> Task]
  BY DEF TypeOK
<1> QED
  BY <1>1, TaskFields

\* What a worker or the broker gives back is put in the queue.
LEMMA GiveBackQueue ==
  ASSUME TypeOK, NEW w \in Workers
  PROVE  Put(queue, Requeued(task[w].m)) \in [Msg -> Nat]
<1>1. task[w].m \in Msg /\ queue \in [Msg -> Nat]
  BY TaskFields DEF TypeOK
<1>2. Requeued(task[w].m) \in Msg
  BY <1>1, RequeuedMsg
<1> QED
  BY <1>1, <1>2, PutBag

LEMMA TypeOKNext == TypeInv /\ [Next]_vars => TypeOK'
<1> SUFFICES ASSUME TypeInv, [Next]_vars PROVE TypeOK'
  OBVIOUS
<1> USE DEF TypeInv, TypeOK
<1>1. ASSUME NEW e \in Events, NEW fit \in FitKinds, Ingest(e, fit) PROVE TypeOK'
  <2>1. [ev |-> e, fit |-> fit] \in Body
    BY Bodies
  <2>2. Fresh([ev |-> e, fit |-> fit]) \in Msg
    BY <2>1, FreshMsg
  <2>3. queue' \in [Msg -> Nat]
    BY <1>1, <2>2, PutBag DEF Ingest
  <2> QED
    BY <1>1, <2>1, <2>2, <2>3 DEF Ingest, rowVars, brokerVars, ghostVars, boundVars, Ids
<1>2. ASSUME InjectPoison PROVE TypeOK'
  <2>1. Fresh(Poison) \in Msg
    BY Bodies, FreshMsg
  <2>2. queue' \in [Msg -> Nat]
    BY <1>2, <2>1, PutBag DEF InjectPoison
  <2>3. accepted' \subseteq Ids
    BY <1>2 DEF InjectPoison, Ids
  <2> QED
    BY <1>2, <2>1, <2>2, <2>3 DEF InjectPoison, rowVars, brokerVars, ghostVars, boundVars, Ids
<1>3. ASSUME NEW w \in Workers, NEW m \in Msg, Deliver(w, m) PROVE TypeOK'
  <2>1. "running" \in Steps /\ 0 \in 0 .. MaxAttempts
    BY DEF Steps
  <2>2. [m |-> m, step |-> "running", tries |-> 0, live |-> TRUE] \in Task
    BY <2>1, TaskFields
  <2> QED
    BY <1>3, <2>1, <2>2, TakeBag DEF Deliver, rowVars, brokerVars, ghostVars, boundVars
<1>4. ASSUME NEW w \in Workers, RejectMessage(w) PROVE TypeOK'
  <2>1. 0 \in 0 .. MaxAttempts /\ "dead" \in Steps
    BY <1>4 DEF Steps
  <2>2. task' \in [Workers -> Task]
    BY <1>4, <2>1, DecideTask DEF RejectMessage
  <2> QED
    BY <1>4, <2>2 DEF RejectMessage, rowVars, brokerVars, ghostVars, boundVars
<1>5. ASSUME NEW w \in Workers, NEW e \in Events, ProcessDuplicate(w, e) PROVE TypeOK'
  <2>1. 0 \in 0 .. MaxAttempts /\ "done" \in Steps
    BY <1>5 DEF Steps
  <2>2. task' \in [Workers -> Task]
    BY <1>5, <2>1, DecideTask DEF ProcessDuplicate
  <2> QED
    BY <1>5, <2>2 DEF ProcessDuplicate, rowVars, brokerVars, ghostVars, boundVars
<1>6. ASSUME NEW w \in Workers, NEW e \in Events, ProcessFailedAgain(w, e) PROVE TypeOK'
  <2>1. attempts[e] \in 0 .. MaxAttempts /\ "dead" \in Steps
    BY <1>6 DEF Steps, ProcessFailedAgain, Claiming
  <2>2. task' \in [Workers -> Task]
    BY <1>6, <2>1, DecideTask DEF ProcessFailedAgain
  <2> QED
    BY <1>6, <2>2 DEF ProcessFailedAgain, rowVars, brokerVars, ghostVars, boundVars
<1>7. ASSUME NEW w \in Workers, NEW e \in Events, ProcessOk(w, e) PROVE TypeOK'
  <2>1. attempts[e] + 1 \in 0 .. MaxAttempts
    BY <1>7 DEF ProcessOk, MayAttempt, FreshBudget, BudgetLeft
  <2>2. 0 \in 0 .. MaxAttempts /\ "done" \in Steps
    BY <2>1 DEF Steps
  <2>3. task' \in [Workers -> Task]
    BY <1>7, <2>2, DecideTask DEF ProcessOk
  <2> QED
    BY <1>7, <2>1, <2>3 DEF ProcessOk, Statuses, rowVars, brokerVars, ghostVars, boundVars
<1>8. ASSUME NEW w \in Workers, NEW e \in Events, ProcessRetry(w, e) PROVE TypeOK'
  <2>1. attempts[e] + 1 \in 0 .. MaxAttempts
    BY <1>8 DEF ProcessRetry, MayAttempt, FreshBudget, BudgetLeft
  <2>2. attempts[e] + 1 \in 0 .. MaxAttempts /\ "retry" \in Steps
    BY <2>1 DEF Steps
  <2>3. task' \in [Workers -> Task]
    BY <1>8, <2>2, DecideTask DEF ProcessRetry
  <2> QED
    BY <1>8, <2>1, <2>3 DEF ProcessRetry, Statuses, rowVars, brokerVars, ghostVars, boundVars
<1>9. ASSUME NEW w \in Workers, NEW e \in Events, ProcessDead(w, e) PROVE TypeOK'
  <2>1. attempts[e] + 1 \in 0 .. MaxAttempts
    BY <1>9 DEF ProcessDead, MayAttempt, FreshBudget, BudgetLeft
  <2>2. attempts[e] + 1 \in 0 .. MaxAttempts /\ "dead" \in Steps
    BY <2>1 DEF Steps
  <2>3. task' \in [Workers -> Task]
    BY <1>9, <2>2, DecideTask DEF ProcessDead
  <2> QED
    BY <1>9, <2>1, <2>3 DEF ProcessDead, Statuses, rowVars, brokerVars, ghostVars, boundVars
<1>10. ASSUME NEW w \in Workers, PublishRetry(w) PROVE TypeOK'
  <2>1. 0 \in 0 .. MaxAttempts /\ "done" \in Steps
    BY DEF Steps
  <2>2. task' \in [Workers -> Task]
    BY <1>10, <2>1, DecideTask DEF PublishRetry
  <2>3. task[w].tries \in 1 .. MaxAttempts /\ task[w].m.body.ev \in Events
    BY <1>10, TaskFields DEF PublishRetry, TaskOK
  <2>4. retryTierForAttempt(task[w].tries) \in 0 .. NTiers - 1
    BY <2>3 DEF retryTierForAttempt
  <2>5. [ev |-> task[w].m.body.ev, tier |-> retryTierForAttempt(task[w].tries)] \in RetryMsg
    BY <2>3, <2>4 DEF RetryMsg
  <2>6. tiers' \in [RetryMsg -> Nat]
    BY <1>10, <2>5, PutBag DEF PublishRetry
  <2> QED
    BY <1>10, <2>2, <2>6 DEF PublishRetry, rowVars, brokerVars, ghostVars, boundVars
<1>11. ASSUME NEW w \in Workers, PublishDead(w) PROVE TypeOK'
  <2>1. 0 \in 0 .. MaxAttempts /\ "done" \in Steps
    BY DEF Steps
  <2>2. task' \in [Workers -> Task]
    BY <1>11, <2>1, DecideTask DEF PublishDead
  <2>3. task[w].m.body \in Body
    BY TaskFields, MsgFields
  <2>4. dead' \in [Body -> Nat]
    BY <1>11, <2>3, PutBag DEF PublishDead
  <2> QED
    BY <1>11, <2>2, <2>4 DEF PublishDead, rowVars, brokerVars, ghostVars, boundVars
<1>12. ASSUME NEW w \in Workers, Ack(w) PROVE TypeOK'
  <2>1. task' \in [Workers -> Task]
    BY <1>12, IdleTask DEF Ack
  <2> QED
    BY <1>12, <2>1 DEF Ack, rowVars, brokerVars, ghostVars, boundVars
<1>13. ASSUME NEW w \in Workers, ProcessAborted(w) \/ PublishFails(w) \/ WorkerCrash(w) PROVE TypeOK'
  <2>1. GiveBack(w) /\ faults' = faults + 1 /\ UNCHANGED <<sent, replays>>
    BY <1>13 DEF ProcessAborted, PublishFails, WorkerCrash, Fault
  <2>2. task' \in [Workers -> Task]
    BY <2>1, IdleTask DEF GiveBack
  <2>3. queue' \in [Msg -> Nat]
    BY <2>1, GiveBackQueue DEF GiveBack
  <2>4. UNCHANGED <<rowVars, dlq, tiers, dead, replaying, ghostVars>>
    BY <2>1 DEF GiveBack
  <2> QED
    BY <2>1, <2>2, <2>3, <2>4 DEF rowVars, ghostVars
<1>14. ASSUME NEW w \in Workers, ChannelLost(w) PROVE TypeOK'
  <2>1. [m |-> task[w].m, step |-> task[w].step, tries |-> task[w].tries, live |-> FALSE] \in Task
    BY TaskFields
  <2>2. task' \in [Workers -> Task]
    BY <1>14, <2>1 DEF ChannelLost
  <2>3. queue' \in [Msg -> Nat]
    BY <1>14, GiveBackQueue DEF ChannelLost
  <2> QED
    BY <1>14, <2>2, <2>3 DEF ChannelLost, Fault, rowVars, ghostVars
<1>15. ASSUME NEW r \in RetryMsg, TierExpires(r) PROVE TypeOK'
  <2>1. r.ev \in Events
    BY DEF RetryMsg
  <2>2. [body |-> RetryBody(r.ev), hdr |-> "retry", redel |-> FALSE] \in Msg
    BY <2>1, Bodies, HeaderMsg
  <2>3. queue' \in [Msg -> Nat]
    BY <1>15, <2>2, PutBag DEF TierExpires
  <2>4. tiers' \in [RetryMsg -> Nat]
    BY <1>15, TakeBag DEF TierExpires
  <2>5. waits' \in [Events -> Nat]
    BY <1>15, <2>1 DEF TierExpires
  <2> QED
    BY <1>15, <2>1, <2>2, <2>3, <2>4, <2>5 DEF TierExpires, rowVars, brokerVars, ghostVars, boundVars
<1>16. ASSUME NEW b \in Body, DlqConsume(b) \/ DlqConsumeUnacked(b) PROVE TypeOK'
  <2>1. b.ev \in Ids
    BY DEF Body
  <2>2. dead' \in [Body -> Nat]
    BY <1>16, TakeBag DEF DlqConsume, DlqConsumeUnacked, PersistDeadLetter, brokerVars
  <2>3. dlq' \in [Ids -> {"absent", "fit", "unfit"}]
    BY <1>16, <2>1 DEF DlqConsume, DlqConsumeUnacked, PersistDeadLetter
  <2>4. status' \in [Events -> Statuses] /\ reopened' \in [Events -> Nat]
    BY <1>16 DEF DlqConsume, DlqConsumeUnacked, PersistDeadLetter, MarkDead, Statuses
  <2> QED
    BY <1>16, <2>1, <2>2, <2>3, <2>4 DEF DlqConsume, DlqConsumeUnacked, PersistDeadLetter, MarkDead, Fault, Statuses, rowVars, brokerVars, ghostVars, boundVars
<1>17. ASSUME NEW e \in Events, ReplayPrepare(e) PROVE TypeOK'
  <2>1. [ev |-> e, fit |-> dlq[e] = "fit"] \in Body
    BY Bodies
  <2>2. replaying' \in [Body -> Nat]
    BY <1>17, <2>1, PutBag DEF ReplayPrepare
  <2> QED
    BY <1>17, <2>1, <2>2 DEF ReplayPrepare, Statuses, rowVars, brokerVars, ghostVars, boundVars
<1>18. ASSUME NEW b \in Body, ReplayPublish(b) PROVE TypeOK'
  <2>1. [body |-> b, hdr |-> "replay", redel |-> FALSE] \in Msg
    BY HeaderMsg
  <2> QED
    BY <1>18, <2>1, PutBag, TakeBag DEF ReplayPublish, rowVars, brokerVars, ghostVars, boundVars
<1>19. ASSUME NEW b \in Body, ReplayLost(b) PROVE TypeOK'
  BY <1>19, TakeBag DEF ReplayLost, ReplayOK, Fault, rowVars, brokerVars, ghostVars, boundVars
<1>20. ASSUME NEW i \in Ids, Discard(i) PROVE TypeOK'
  BY <1>20 DEF Discard, rowVars, brokerVars, ghostVars, boundVars
<1>21. CASE UNCHANGED vars
  BY <1>21 DEF vars, rowVars, brokerVars, ghostVars, boundVars
<1> QED
  BY <1>1, <1>2, <1>3, <1>4, <1>5, <1>6, <1>7, <1>8, <1>9, <1>10, <1>11, <1>12, <1>13, <1>14, <1>15, <1>16, <1>17, <1>18, <1>19, <1>20, <1>21
  DEF Next, WorkerStep, Process, WorkerFault

LEMMA TaskOKNext == TypeInv /\ [Next]_vars => TaskOK'
<1> SUFFICES ASSUME TypeInv, [Next]_vars PROVE TaskOK'
  OBVIOUS
<1> USE DEF TypeInv, TypeOK, TaskOK
<1>1. ASSUME UNCHANGED task PROVE TaskOK'
  BY <1>1
<1>2. ASSUME NEW w \in Workers, NEW t, t.step # "retry", task' = [task EXCEPT ![w] = t]
      PROVE  TaskOK'
  BY <1>2
<1>3. ASSUME NEW w \in Workers, NEW e \in Events, ProcessRetry(w, e) PROVE TaskOK'
  BY <1>3 DEF ProcessRetry, MayAttempt, Claiming, Decide
<1>4. ASSUME NEW w \in Workers, ChannelLost(w) PROVE TaskOK'
  BY <1>4 DEF ChannelLost
<1>5. ASSUME NEW w \in Workers, NEW m \in Msg, Deliver(w, m) PROVE TaskOK'
  BY <1>5, <1>2 DEF Deliver
<1>6. ASSUME NEW w \in Workers, WorkerStep(w) PROVE TaskOK'
  BY <1>2, <1>3, <1>6 DEF WorkerStep, Process, RejectMessage, ProcessDuplicate,
     ProcessFailedAgain, ProcessOk, ProcessDead, PublishRetry, PublishDead, Ack, Decide, Idle
<1>7. ASSUME NEW w \in Workers, WorkerFault(w) PROVE TaskOK'
  BY <1>2, <1>4, <1>7 DEF WorkerFault, ProcessAborted, PublishFails, WorkerCrash, GiveBack, Idle
<1> QED
  BY <1>1, <1>5, <1>6, <1>7 DEF Next, Ingest, InjectPoison, TierExpires, DlqConsume,
     DlqConsumeUnacked, ReplayPrepare, ReplayPublish, ReplayLost, Discard, vars

LEMMA ReplayOKNext == TypeInv /\ [Next]_vars => ReplayOK'
<1> SUFFICES ASSUME TypeInv, [Next]_vars PROVE ReplayOK'
  OBVIOUS
<1> USE DEF TypeInv, TypeOK, ReplayOK
<1>1. ASSUME UNCHANGED <<replaying, dlq, discarded>> PROVE ReplayOK'
  BY <1>1
<1>2. ASSUME NEW b \in Body, PersistDeadLetter(b), UNCHANGED replaying
      PROVE  ReplayOK'
  BY <1>2 DEF PersistDeadLetter, Ids
<1>3. ASSUME NEW e \in Events, ReplayPrepare(e) PROVE ReplayOK'
  <2> DEFINE b0 == [ev |-> e, fit |-> dlq[e] = "fit"]
  <2>1. b0 \in Body /\ b0.ev = e
    BY Bodies
  <2> HIDE DEF b0
  <2>2. replaying' = Put(replaying, b0) /\ dlq[e] # "absent" /\ UNCHANGED <<dlq, discarded>>
    BY <1>3 DEF ReplayPrepare, b0
  <2>3. \A b \in Body : b # b0 => replaying'[b] = replaying[b]
    BY <2>1, <2>2, PutBag
  <2> QED
    BY <2>1, <2>2, <2>3
<1>4. ASSUME NEW b \in Body, ReplayPublish(b) \/ ReplayLost(b) PROVE ReplayOK'
  BY <1>4, TakeBag DEF ReplayPublish, ReplayLost, ghostVars
<1>5. ASSUME NEW i \in Ids, Discard(i) PROVE ReplayOK'
  BY <1>5 DEF Discard, Ids
<1>6. ASSUME NEW w \in Workers, WorkerStep(w) \/ WorkerFault(w) PROVE ReplayOK'
  BY <1>1, <1>6 DEF WorkerStep, Process, RejectMessage, ProcessDuplicate, ProcessFailedAgain,
     ProcessOk, ProcessRetry, ProcessDead, PublishRetry, PublishDead, Ack, WorkerFault,
     ProcessAborted, PublishFails, WorkerCrash, ChannelLost, GiveBack, ghostVars
<1> QED
  BY <1>1, <1>2, <1>3, <1>4, <1>5, <1>6 DEF Next, Ingest, InjectPoison, Deliver, TierExpires,
     DlqConsume, DlqConsumeUnacked, ghostVars, vars

LEMMA BudgetNext == TypeInv /\ [Next]_vars => FreshBudget' /\ BudgetLeft'
<1> SUFFICES ASSUME TypeInv, [Next]_vars PROVE FreshBudget' /\ BudgetLeft'
  OBVIOUS
<1> USE DEF TypeInv, TypeOK, FreshBudget, BudgetLeft
<1>1. ASSUME UNCHANGED rowVars PROVE FreshBudget' /\ BudgetLeft'
  BY <1>1 DEF rowVars
<1>2. ASSUME NEW w \in Workers, NEW e \in Events,
             ProcessOk(w, e) \/ ProcessRetry(w, e) \/ ProcessDead(w, e)
      PROVE  FreshBudget' /\ BudgetLeft'
  BY <1>2 DEF ProcessOk, ProcessRetry, ProcessDead
<1>3. ASSUME NEW b \in Body, PersistDeadLetter(b), UNCHANGED attempts
      PROVE  FreshBudget' /\ BudgetLeft'
  BY <1>3 DEF PersistDeadLetter, MarkDead
<1>4. ASSUME NEW e \in Events, ReplayPrepare(e) PROVE FreshBudget' /\ BudgetLeft'
  BY <1>4 DEF ReplayPrepare, rowVars
<1>5. ASSUME NEW w \in Workers, WorkerStep(w) \/ WorkerFault(w)
      PROVE  FreshBudget' /\ BudgetLeft'
  BY <1>1, <1>2, <1>5 DEF WorkerStep, Process, RejectMessage, ProcessDuplicate,
     ProcessFailedAgain, PublishRetry, PublishDead, Ack, WorkerFault,
     ProcessAborted, PublishFails, WorkerCrash, ChannelLost, GiveBack
<1> QED
  BY <1>1, <1>2, <1>3, <1>4, <1>5 DEF Next, Ingest, InjectPoison, Deliver, TierExpires,
     DlqConsume, DlqConsumeUnacked, ReplayPublish, ReplayLost, Discard, vars

LEMMA TypeInvariance == Spec => []TypeInv
<1>1. TypeInv /\ [Next]_vars => TypeInv'
  BY TypeOKNext, TaskOKNext, ReplayOKNext, BudgetNext DEF TypeInv
<1> QED
  BY TypeInvInit, <1>1, PTL DEF Spec

\* The columns and the messages keep their types.
THEOREM TypeCorrect == Spec => []TypeOK
<1>1. TypeInv => TypeOK
  BY DEF TypeInv
<1> QED
  BY <1>1, TypeInvariance, PTL

\* No event waits for a retry with its attempts spent.
THEOREM RetryBudget == Spec => []BudgetLeft
<1>1. TypeInv => BudgetLeft
  BY DEF TypeInv
<1> QED
  BY <1>1, TypeInvariance, PTL

-----------------------------------------------------------------------------
(* Strengthening 2: nobody is stranded.  A handler whose channel is lost    *)
(* may still claim an event that has no row; the copy the broker took back  *)
(* is then still there to continue it.                                      *)

Carries(w, i) ==
  /\ Holds(w, i)
  /\ \/ task[w].step \in {"retry", "dead"}
     \/ task[w].step = "running" /\ task[w].m \in Continuations

MayCarry(w, i) == Holds(w, i) /\ task[w].step \in {"running", "retry", "dead"}

FitBody(e) == [ev |-> e, fit |-> TRUE]

FitRunning(w, e) ==
  /\ task[w].live /\ task[w].step = "running"
  /\ task[w].m \in Continuations /\ task[w].m.body = FitBody(e)

FitContinued(e) ==
  \/ \E m \in Continuations : m.body = FitBody(e) /\ queue[m] > 0
  \/ \E w \in Workers : FitRunning(w, e)

Zombie(w, e) == task[w].step = "running" /\ ~task[w].live /\ task[w].m.body = FitBody(e)

ZombieCovered ==
  \A w \in Workers, e \in Events :
    Zombie(w, e) /\ status[e] = "absent" => FitContinued(e)

\* Continued and Pending, worker by worker.
LEMMA CarrierSplit ==
  ASSUME NEW i
  PROVE  /\ Continued(i) <=> \/ DeadQueued(i) \/ Waiting(i) \/ Redriven(i)
                             \/ Queued(i, Continuations)
                             \/ \E w \in Workers : Carries(w, i)
         /\ Pending(i) <=> \/ DeadQueued(i) \/ Waiting(i) \/ Redriven(i)
                           \/ Queued(i, Msg)
                           \/ \E w \in Workers : Carries(w, i)
                           \/ \E w \in Workers : MayCarry(w, i) /\ task[w].m \in Msg
<1>1. (\E w \in Workers : Carries(w, i)) <=> Publishing(i) \/ Running(i, Continuations)
  <2>1. ASSUME NEW w \in Workers, Carries(w, i) PROVE Publishing(i) \/ Running(i, Continuations)
    BY <2>1 DEF Publishing, Running, Carries
  <2>2. ASSUME Publishing(i) PROVE \E w \in Workers : Carries(w, i)
    <3>1. PICK w \in Workers : Holds(w, i) /\ task[w].step \in {"retry", "dead"}
      BY <2>2 DEF Publishing
    <3>2. Carries(w, i)
      BY <3>1 DEF Carries
    <3> QED
      BY <3>2
  <2>3. Running(i, Continuations) => \E w \in Workers : Carries(w, i)
    BY DEF Running, Carries
  <2> QED
    BY <2>1, <2>2, <2>3
<1>2. (\E w \in Workers : MayCarry(w, i) /\ task[w].m \in Msg) => Publishing(i) \/ Running(i, Msg)
  BY DEF Publishing, Running, MayCarry
<1>3. Running(i, Msg) => \E w \in Workers : MayCarry(w, i) /\ task[w].m \in Msg
  BY DEF Running, MayCarry
<1>4. Queued(i, Continuations) => Queued(i, Msg)
  BY DEF Queued, Continuations
<1> QED
  BY <1>1, <1>2, <1>3, <1>4 DEF Continued, Pending

LEMMA CarrierSplitNext ==
  ASSUME NEW i
  PROVE  /\ Continued(i)' <=> (\/ DeadQueued(i) \/ Waiting(i) \/ Redriven(i)
                               \/ Queued(i, Continuations)
                               \/ \E w \in Workers : Carries(w, i))'
         /\ Pending(i)' <=> (\/ DeadQueued(i) \/ Waiting(i) \/ Redriven(i)
                             \/ Queued(i, Msg)
                             \/ \E w \in Workers : Carries(w, i)
                             \/ \E w \in Workers : MayCarry(w, i) /\ task[w].m \in Msg)'
  BY CarrierSplit, PTL

\* A step that empties no bag of i's messages leaves i its carriers, those in
\* the workers it touches apart.
LEMMA Frame ==
  ASSUME NEW i, NEW W \in SUBSET Workers,
         \A b \in Body : b.ev = i /\ dead[b] > 0 => dead'[b] > 0,
         \A r \in RetryMsg : r.ev = i /\ tiers[r] > 0 => tiers'[r] > 0,
         \A b \in Body : b.ev = i /\ replaying[b] > 0 => replaying'[b] > 0,
         \A m \in Msg : m.body.ev = i /\ queue[m] > 0 => queue'[m] > 0,
         \A v \in Workers \ W : task'[v] = task[v]
  PROVE  /\ Continued(i) => Continued(i)' \/ \E w \in W : Carries(w, i)
         /\ Pending(i) => Pending(i)' \/ \E w \in W : MayCarry(w, i)
<1>1. DeadQueued(i) => DeadQueued(i)'
  BY DEF DeadQueued
<1>2. Waiting(i) => Waiting(i)'
  BY DEF Waiting
<1>3. Redriven(i) => Redriven(i)'
  BY DEF Redriven
<1>4. Queued(i, Continuations) => Queued(i, Continuations)'
  BY DEF Queued, Continuations
<1>5. Queued(i, Msg) => Queued(i, Msg)'
  BY DEF Queued
<1>6. ASSUME NEW v \in Workers \ W
      PROVE  (Carries(v, i) => Carries(v, i)') /\ (MayCarry(v, i) => MayCarry(v, i)')
  BY <1>6 DEF Carries, MayCarry, Holds
<1>7. (\E v \in Workers : Carries(v, i))
      => (\E w \in W : Carries(w, i)) \/ (\E v \in Workers : Carries(v, i))'
  BY <1>6
<1>8. (\E v \in Workers : MayCarry(v, i) /\ task[v].m \in Msg)
      => \/ \E w \in W : MayCarry(w, i)
         \/ (\E v \in Workers : MayCarry(v, i) /\ task[v].m \in Msg)'
  BY <1>6
<1>9. \A w \in W : Carries(w, i) => MayCarry(w, i)
  BY DEF Carries, MayCarry
<1> QED
  BY <1>1, <1>2, <1>3, <1>4, <1>5, <1>7, <1>8, <1>9, CarrierSplit, CarrierSplitNext

LEMMA FrameNone ==
  ASSUME NEW i,
         \A b \in Body : b.ev = i /\ dead[b] > 0 => dead'[b] > 0,
         \A r \in RetryMsg : r.ev = i /\ tiers[r] > 0 => tiers'[r] > 0,
         \A b \in Body : b.ev = i /\ replaying[b] > 0 => replaying'[b] > 0,
         \A m \in Msg : m.body.ev = i /\ queue[m] > 0 => queue'[m] > 0,
         UNCHANGED task
  PROVE  (Continued(i) => Continued(i)') /\ (Pending(i) => Pending(i)')
<1> DEFINE W == {}
<1>1. W \in SUBSET Workers /\ \A v \in Workers \ W : task'[v] = task[v]
  OBVIOUS
<1>2. ~(\E w \in W : Carries(w, i)) /\ ~(\E w \in W : MayCarry(w, i))
  OBVIOUS
<1> HIDE DEF W
<1>3. /\ Continued(i) => Continued(i)' \/ \E w \in W : Carries(w, i)
      /\ Pending(i) => Pending(i)' \/ \E w \in W : MayCarry(w, i)
  BY <1>1, Frame
<1> QED
  BY <1>2, <1>3

LEMMA FrameOne ==
  ASSUME NEW i, NEW w \in Workers,
         \A b \in Body : b.ev = i /\ dead[b] > 0 => dead'[b] > 0,
         \A r \in RetryMsg : r.ev = i /\ tiers[r] > 0 => tiers'[r] > 0,
         \A b \in Body : b.ev = i /\ replaying[b] > 0 => replaying'[b] > 0,
         \A m \in Msg : m.body.ev = i /\ queue[m] > 0 => queue'[m] > 0,
         \A v \in Workers \ {w} : task'[v] = task[v]
  PROVE  /\ Continued(i) => Continued(i)' \/ Carries(w, i)
         /\ Pending(i) => Pending(i)' \/ MayCarry(w, i)
<1> DEFINE W == {w}
<1>1. W \in SUBSET Workers /\ \A v \in Workers \ W : task'[v] = task[v]
  OBVIOUS
<1>2. /\ (\E v \in W : Carries(v, i)) => Carries(w, i)
      /\ (\E v \in W : MayCarry(v, i)) => MayCarry(w, i)
  OBVIOUS
<1> HIDE DEF W
<1>3. /\ Continued(i) => Continued(i)' \/ \E v \in W : Carries(v, i)
      /\ Pending(i) => Pending(i)' \/ \E v \in W : MayCarry(v, i)
  BY <1>1, Frame
<1> QED
  BY <1>2, <1>3

\* Any one carrier in the next state will do.
LEMMA Shown ==
  ASSUME NEW i
  PROVE  /\ \A m \in Continuations : m.body.ev = i /\ queue'[m] > 0 => Continued(i)' /\ Pending(i)'
         /\ \A m \in Msg : m.body.ev = i /\ queue'[m] > 0 => Pending(i)'
         /\ \A w \in Workers : Carries(w, i)' => Continued(i)' /\ Pending(i)'
         /\ \A w \in Workers : MayCarry(w, i)' /\ task'[w].m \in Msg => Pending(i)'
         /\ \A b \in Body : b.ev = i /\ dead'[b] > 0 => Continued(i)' /\ Pending(i)'
         /\ \A r \in RetryMsg : r.ev = i /\ tiers'[r] > 0 => Continued(i)' /\ Pending(i)'
         /\ \A b \in Body : b.ev = i /\ replaying'[b] > 0 => Continued(i)' /\ Pending(i)'
<1>1. \A m \in Continuations : m.body.ev = i /\ queue'[m] > 0 => Queued(i, Continuations)'
  BY DEF Queued, Continuations
<1>2. \A m \in Msg : m.body.ev = i /\ queue'[m] > 0 => Queued(i, Msg)'
  BY DEF Queued
<1>3. \A b \in Body : b.ev = i /\ dead'[b] > 0 => DeadQueued(i)'
  BY DEF DeadQueued
<1>4. \A r \in RetryMsg : r.ev = i /\ tiers'[r] > 0 => Waiting(i)'
  BY DEF Waiting
<1>5. \A b \in Body : b.ev = i /\ replaying'[b] > 0 => Redriven(i)'
  BY DEF Redriven
<1>6. Continued(i)' => Pending(i)'
  BY DEF Pending
<1> QED
  BY <1>1, <1>2, <1>3, <1>4, <1>5, <1>6, CarrierSplitNext

\* The steps that only move a message on, and what they keep.
Keeps == \A i \in Ids : /\ Continued(i) => Continued(i)'
                        /\ Pending(i) => Pending(i)'

LEMMA IngestKeeps ==
  ASSUME TypeInv, NEW b \in Body, queue' = Put(queue, Fresh(b)), UNCHANGED <<tiers, dead, task, replaying>>
  PROVE  Keeps
<1>1. queue \in [Msg -> Nat] /\ Fresh(b) \in Msg
  BY FreshMsg DEF TypeInv, TypeOK
<1>2. \A m \in Msg : queue[m] > 0 => queue'[m] > 0
  BY <1>1, PutBag
<1> QED
  BY <1>2, FrameNone DEF Keeps

LEMMA DeliverKeeps ==
  ASSUME TypeInv, NEW w \in Workers, NEW m \in Msg, Deliver(w, m)
  PROVE  Keeps
<1> SUFFICES ASSUME NEW i \in Ids
             PROVE  (Continued(i) => Continued(i)') /\ (Pending(i) => Pending(i)')
  BY DEF Keeps
<1>1. /\ queue \in [Msg -> Nat] /\ task \in [Workers -> Task]
      /\ task[w].step = "idle" /\ queue[m] > 0 /\ queue' = Take(queue, m)
      /\ task' = [task EXCEPT ![w] = [m |-> m, step |-> "running", tries |-> 0, live |-> TRUE]]
      /\ UNCHANGED <<tiers, dead, replaying>>
  BY DEF Deliver, TypeInv, TypeOK
<1>2. ~MayCarry(w, i) /\ ~Carries(w, i)
  BY <1>1 DEF MayCarry, Carries
<1>3. m.body.ev = i => MayCarry(w, i)' /\ task'[w].m = m
  BY <1>1 DEF MayCarry, Holds
<1>4. m.body.ev = i /\ m \in Continuations => Carries(w, i)'
  BY <1>1 DEF Carries, Holds
<1>5. \A k \in Msg : k # m => queue'[k] = queue[k]
  BY <1>1, TakeBag
<1>6. CASE m.body.ev # i
  <2>1. \A k \in Msg : k.body.ev = i /\ queue[k] > 0 => queue'[k] > 0
    BY <1>5, <1>6
  <2> QED
    BY <1>1, <1>2, <2>1, FrameOne
<1>7. CASE m.body.ev = i
  <2>1. Pending(i)'
    BY <1>3, <1>7, Shown
  <2>2. m \in Continuations => Continued(i)'
    BY <1>4, <1>7, Shown
  <2>3. ASSUME m \notin Continuations PROVE Queued(i, Continuations) => Queued(i, Continuations)'
    BY <2>3, <1>5 DEF Queued, Continuations
  <2>4. ASSUME NEW v \in Workers, Carries(v, i) PROVE Carries(v, i)'
    BY <1>1, <1>2, <2>4 DEF Carries, Holds
  <2>5. /\ DeadQueued(i) => DeadQueued(i)'
        /\ Waiting(i) => Waiting(i)'
        /\ Redriven(i) => Redriven(i)'
    BY <1>1 DEF DeadQueued, Waiting, Redriven
  <2> QED
    BY <2>1, <2>2, <2>3, <2>4, <2>5, CarrierSplit, CarrierSplitNext
<1> QED
  BY <1>6, <1>7

\* The worker decides to publish, or publishes: its message stays in hand.
LEMMA DecideKeeps ==
  ASSUME TypeInv, NEW w \in Workers, NEW n, Decide(w, "dead", n),
         UNCHANGED brokerVars, UNCHANGED replaying
  PROVE  Keeps
<1>1. task \in [Workers -> Task] /\ task'[w].step = "dead" /\ task'[w].m = task[w].m
      /\ task'[w].live = task[w].live /\ \A v \in Workers \ {w} : task'[v] = task[v]
  BY DEF Decide, TypeInv, TypeOK
<1>2. \A i \in Ids : MayCarry(w, i) => Carries(w, i)'
  BY <1>1 DEF MayCarry, Carries, Holds
<1>3. \A i \in Ids : Carries(w, i) => MayCarry(w, i)
  BY DEF MayCarry, Carries
<1> QED
  BY <1>1, <1>2, <1>3, FrameOne, Shown DEF Keeps, brokerVars

LEMMA PublishRetryKeeps ==
  ASSUME TypeInv, NEW w \in Workers, PublishRetry(w)
  PROVE  Keeps
<1> DEFINE r == [ev |-> task[w].m.body.ev, tier |-> retryTierForAttempt(task[w].tries)]
<1>1. task[w].tries \in 1 .. MaxAttempts /\ task[w].m.body.ev \in Events
  BY TaskFields DEF PublishRetry, TypeInv, TypeOK, TaskOK
<1>2. retryTierForAttempt(task[w].tries) \in 0 .. NTiers - 1
  BY <1>1 DEF retryTierForAttempt
<1>3. r \in RetryMsg /\ r.ev = task[w].m.body.ev
  BY <1>1, <1>2 DEF RetryMsg
<1>4. /\ tiers \in [RetryMsg -> Nat] /\ tiers' = Put(tiers, r)
      /\ UNCHANGED <<queue, dead, replaying>>
      /\ \A v \in Workers \ {w} : task'[v] = task[v]
  BY DEF PublishRetry, Decide, TypeInv, TypeOK
<1> HIDE DEF r
<1>5. tiers'[r] > 0 /\ \A x \in RetryMsg : tiers[x] > 0 => tiers'[x] > 0
  BY <1>3, <1>4, PutBag
<1>6. \A i \in Ids : Carries(w, i) \/ MayCarry(w, i) => r.ev = i
  BY <1>3 DEF Carries, MayCarry, Holds
<1> QED
  BY <1>3, <1>4, <1>5, <1>6, FrameOne, Shown DEF Keeps

LEMMA PublishDeadKeeps ==
  ASSUME TypeInv, NEW w \in Workers, PublishDead(w)
  PROVE  Keeps
<1> DEFINE b == task[w].m.body
<1>1. b \in Body
  BY TaskFields, MsgFields DEF TypeInv, TypeOK
<1>2. /\ dead \in [Body -> Nat] /\ dead' = Put(dead, b)
      /\ UNCHANGED <<queue, tiers, replaying>>
      /\ \A v \in Workers \ {w} : task'[v] = task[v]
  BY DEF PublishDead, Decide, TypeInv, TypeOK
<1>3. \A i \in Ids : Carries(w, i) \/ MayCarry(w, i) => b.ev = i
  BY DEF Carries, MayCarry, Holds
<1> HIDE DEF b
<1>4. dead'[b] > 0 /\ \A x \in Body : dead[x] > 0 => dead'[x] > 0
  BY <1>1, <1>2, PutBag
<1> QED
  BY <1>1, <1>2, <1>3, <1>4, FrameOne, Shown DEF Keeps

LEMMA AckKeeps ==
  ASSUME TypeInv, NEW w \in Workers, Ack(w)
  PROVE  Keeps
<1>1. \A i \in Ids : ~Carries(w, i) /\ ~MayCarry(w, i)
  BY DEF Ack, Carries, MayCarry
<1>2. UNCHANGED <<queue, tiers, dead, replaying>> /\ \A v \in Workers \ {w} : task'[v] = task[v]
  BY DEF Ack, brokerVars, TypeInv, TypeOK
<1> QED
  BY <1>1, <1>2, FrameOne DEF Keeps

\* A delivery the broker takes back comes again as a continuation.
LEMMA RequeueKeeps ==
  ASSUME TypeInv, NEW w \in Workers, UNCHANGED <<tiers, dead, replaying>>,
         queue' = IF task[w].live THEN Put(queue, Requeued(task[w].m)) ELSE queue,
         \A v \in Workers \ {w} : task'[v] = task[v]
  PROVE  Keeps
<1> DEFINE m == Requeued(task[w].m)
<1>1. queue \in [Msg -> Nat] /\ m \in Continuations /\ m \in Msg /\ m.body = task[w].m.body
  BY TaskFields, RequeuedMsg DEF TypeInv, TypeOK
<1> HIDE DEF m
<1>2. queue' = IF task[w].live THEN Put(queue, m) ELSE queue
  BY DEF m
<1>3. /\ task[w].live => queue'[m] > 0
      /\ \A k \in Msg : queue[k] > 0 => queue'[k] > 0
  BY <1>1, <1>2, PutBag
<1>4. \A i \in Ids : Carries(w, i) \/ MayCarry(w, i) => task[w].live /\ m.body.ev = i
  BY <1>1 DEF Carries, MayCarry, Holds
<1> QED
  BY <1>1, <1>3, <1>4, FrameOne, Shown DEF Keeps

LEMMA TierExpiresKeeps ==
  ASSUME TypeInv, NEW r \in RetryMsg, TierExpires(r)
  PROVE  Keeps
<1> DEFINE m == [body |-> RetryBody(r.ev), hdr |-> "retry", redel |-> FALSE]
<1>1. r.ev \in Events
  BY DEF RetryMsg
<1>2. m \in Continuations /\ m \in Msg /\ m.body.ev = r.ev
  BY <1>1, Bodies, HeaderMsg
<1>3. /\ queue \in [Msg -> Nat] /\ queue' = Put(queue, m)
      /\ tiers \in [RetryMsg -> Nat] /\ tiers[r] > 0 /\ tiers' = Take(tiers, r)
      /\ UNCHANGED <<dead, task, replaying>>
  BY DEF TierExpires, TypeInv, TypeOK
<1> HIDE DEF m
<1>4. queue'[m] > 0 /\ \A k \in Msg : queue[k] > 0 => queue'[k] > 0
  BY <1>2, <1>3, PutBag
<1>5. \A x \in RetryMsg : x # r => tiers'[x] = tiers[x]
  BY <1>3, TakeBag
<1>6. ASSUME NEW i \in Ids, i # r.ev
      PROVE  (Continued(i) => Continued(i)') /\ (Pending(i) => Pending(i)')
  BY <1>3, <1>4, <1>5, <1>6, FrameNone
<1>7. Continued(r.ev)' /\ Pending(r.ev)'
  BY <1>2, <1>4, Shown
<1> QED
  BY <1>6, <1>7 DEF Keeps

LEMMA ReplayPublishKeeps ==
  ASSUME TypeInv, NEW b \in Body, ReplayPublish(b)
  PROVE  Keeps
<1> DEFINE m == [body |-> b, hdr |-> "replay", redel |-> FALSE]
<1>1. m \in Continuations /\ m \in Msg /\ m.body.ev = b.ev
  BY HeaderMsg
<1>2. /\ queue \in [Msg -> Nat] /\ queue' = Put(queue, m)
      /\ replaying \in [Body -> Nat] /\ replaying[b] > 0 /\ replaying' = Take(replaying, b)
      /\ UNCHANGED <<dead, task, tiers>>
  BY DEF ReplayPublish, TypeInv, TypeOK
<1> HIDE DEF m
<1>3. queue'[m] > 0 /\ \A k \in Msg : queue[k] > 0 => queue'[k] > 0
  BY <1>1, <1>2, PutBag
<1>4. \A x \in Body : x # b => replaying'[x] = replaying[x]
  BY <1>2, TakeBag
<1>5. ASSUME NEW i \in Ids, i # b.ev
      PROVE  (Continued(i) => Continued(i)') /\ (Pending(i) => Pending(i)')
  BY <1>2, <1>3, <1>4, <1>5, FrameNone
<1>6. Continued(b.ev)' /\ Pending(b.ev)'
  BY <1>1, <1>3, Shown
<1> QED
  BY <1>5, <1>6 DEF Keeps

-----------------------------------------------------------------------------
(* The three carrier invariants, step by step.                              *)

Safe == AcceptedIsKept /\ InFlightIsCarried /\ FailedIsEmitted

LEMMA MoveSafe ==
  ASSUME TypeInv, Safe, Keeps, UNCHANGED <<status, orphaned>>,
         \A i \in accepted' : i \in accepted \/ Pending(i)',
         \A i \in Ids : dlq[i] # "absent" \/ i \in discarded => dlq'[i] # "absent" \/ i \in discarded'
  PROVE  Safe'
<1>1. accepted \subseteq Ids /\ Events \subseteq Ids
  BY DEF TypeInv, TypeOK, Ids
<1>2. AcceptedIsKept'
  BY <1>1 DEF Safe, AcceptedIsKept, Keeps
<1>3. InFlightIsCarried'
  BY <1>1 DEF Safe, InFlightIsCarried, Keeps
<1>4. FailedIsEmitted'
  BY <1>1 DEF Safe, FailedIsEmitted, Keeps
<1> QED
  BY <1>2, <1>3, <1>4 DEF Safe

\* A step that disturbs one event e: the others keep what they have, and e
\* must show what its new status asks for.
LEMMA OneEventSafe ==
  ASSUME TypeInv, Safe, NEW e \in Ids, accepted' = accepted,
         \A i \in Ids \ {e} : /\ Continued(i) => Continued(i)'
                              /\ Pending(i) => Pending(i)'
                              /\ i \in Events => status'[i] = status[i]
                              /\ dlq'[i] = dlq[i]
                              /\ i \in discarded => i \in discarded'
                              /\ i \in orphaned => i \in orphaned',
         e \in accepted => \/ Pending(e)'
                           \/ e \in Events /\ status'[e] # "absent"
                           \/ dlq'[e] # "absent" \/ e \in discarded',
         e \in Events /\ status'[e] \in {"received", "processing"} => Continued(e)' \/ e \in orphaned',
         e \in Events /\ status'[e] = "failed" => Pending(e)' \/ e \in orphaned'
  PROVE  Safe'
<1>1. accepted \subseteq Ids /\ Events \subseteq Ids
  BY DEF TypeInv, TypeOK, Ids
<1>2. AcceptedIsKept'
  <2> SUFFICES ASSUME NEW i \in accepted
               PROVE  \/ Pending(i)'
                      \/ i \in Events /\ status'[i] # "absent"
                      \/ dlq'[i] # "absent" \/ i \in discarded'
    BY DEF AcceptedIsKept
  <2>1. \/ Pending(i)
        \/ i \in Events /\ status[i] # "absent"
        \/ dlq[i] # "absent" \/ i \in discarded
    BY DEF Safe, AcceptedIsKept
  <2> QED
    BY <1>1, <2>1
<1>3. InFlightIsCarried'
  BY <1>1 DEF Safe, InFlightIsCarried
<1>4. FailedIsEmitted'
  BY <1>1 DEF Safe, FailedIsEmitted
<1> QED
  BY <1>2, <1>3, <1>4 DEF Safe

\* The transaction of one worker on one event leaves every other event alone.
LEMMA OthersKeep ==
  ASSUME TypeInv, NEW w \in Workers, NEW e \in Events, task[w].m.body.ev = e,
         UNCHANGED brokerVars, UNCHANGED replaying, \A v \in Workers \ {w} : task'[v] = task[v]
  PROVE  /\ \A i \in Ids \ {e} : (Continued(i) => Continued(i)') /\ (Pending(i) => Pending(i)')
         /\ Continued(e) => Continued(e)' \/ Carries(w, e)
<1>1. \A i \in Ids \ {e} : ~Carries(w, i) /\ ~MayCarry(w, i)
  BY DEF Carries, MayCarry, Holds
<1> QED
  BY <1>1, FrameOne DEF brokerVars, Ids

LEMMA FitContinuedIs == \A e \in Events : FitContinued(e) => Continued(e)
<1> SUFFICES ASSUME NEW e \in Events, FitContinued(e) PROVE Continued(e)
  OBVIOUS
<1>1. FitBody(e).ev = e
  BY DEF FitBody
<1>2. CASE \E m \in Continuations : m.body = FitBody(e) /\ queue[m] > 0
  BY <1>1, <1>2, CarrierSplit DEF Queued
<1>3. CASE \E w \in Workers : FitRunning(w, e)
  BY <1>1, <1>3, CarrierSplit DEF FitRunning, Carries, Holds
<1> QED
  BY <1>2, <1>3 DEF FitContinued

LEMMA AttemptSafe ==
  ASSUME TypeInv, Safe, ZombieCovered, NEW w \in Workers, NEW e \in Events,
         ProcessOk(w, e) \/ ProcessRetry(w, e) \/ ProcessDead(w, e)
  PROVE  Safe'
<1>1. /\ task \in [Workers -> Task] /\ status \in [Events -> Statuses]
      /\ task[w].step = "running" /\ task[w].m.body = FitBody(e) /\ task[w].m.body.ev = e
      /\ status[e] \in {"absent", "received", "processing"}
      /\ UNCHANGED <<queue, tiers, dead, replaying, accepted, discarded, orphaned, dlq>>
      /\ \A v \in Workers \ {w} : task'[v] = task[v]
      /\ \A i \in Events \ {e} : status'[i] = status[i]
      /\ task'[w].m = task[w].m /\ task'[w].live = task[w].live
  BY DEF ProcessOk, ProcessRetry, ProcessDead, MayAttempt, Claiming, Decide, brokerVars, ghostVars,
         TypeInv, TypeOK, FitBody
<1>2. /\ status'[e] \in {"processed", "processing", "failed"}
      /\ status'[e] \in {"processing", "failed"} => task'[w].step \in {"retry", "dead"}
  BY DEF ProcessOk, ProcessRetry, ProcessDead, Decide, TypeInv, TypeOK
<1>3. /\ \A i \in Ids \ {e} : (Continued(i) => Continued(i)') /\ (Pending(i) => Pending(i)')
      /\ Continued(e) => Continued(e)' \/ Carries(w, e)
  BY <1>1, OthersKeep DEF brokerVars
<1>4. status'[e] \in {"processing", "failed"} => Continued(e)' \/ e \in orphaned'
  <2>1. CASE task[w].live
    <3>1. status'[e] \in {"processing", "failed"} => Carries(w, e)'
      BY <1>1, <1>2, <2>1 DEF Carries, Holds
    <3> QED
      BY <3>1, Shown
  <2>2. CASE ~task[w].live
    <3>1. ~Carries(w, e)
      BY <2>2 DEF Carries, Holds
    <3>2. status[e] = "absent" => Continued(e)
      BY <1>1, <2>2, FitContinuedIs DEF ZombieCovered, Zombie
    <3>3. status[e] # "absent" => Continued(e) \/ e \in orphaned
      BY <1>1 DEF Safe, InFlightIsCarried
    <3> QED
      BY <1>1, <1>3, <3>1, <3>2, <3>3
  <2> QED
    BY <2>1, <2>2
<1>5. Continued(e)' => Pending(e)'
  BY DEF Pending
<1>6. e \in Ids
  BY DEF Ids
<1> QED
  BY <1>1, <1>2, <1>3, <1>4, <1>5, <1>6, OneEventSafe

LEMMA DuplicateSafe ==
  ASSUME TypeInv, Safe, NEW w \in Workers, NEW e \in Events, ProcessDuplicate(w, e)
  PROVE  Safe'
<1>1. /\ task[w].step = "running" /\ task[w].m.body.ev = e /\ task \in [Workers -> Task]
      /\ status[e] \in Settled \/ (status[e] \in {"received", "processing"} /\ ~IsContinuation(task[w].m))
      /\ UNCHANGED <<queue, tiers, dead, replaying, accepted, discarded, orphaned, dlq, status>>
      /\ \A v \in Workers \ {w} : task'[v] = task[v]
  BY DEF ProcessDuplicate, Claiming, Decide, brokerVars, ghostVars, rowVars, TypeInv, TypeOK
<1>2. /\ \A i \in Ids \ {e} : (Continued(i) => Continued(i)') /\ (Pending(i) => Pending(i)')
      /\ Continued(e) => Continued(e)' \/ Carries(w, e)
  BY <1>1, OthersKeep DEF brokerVars
<1>3. status[e] \notin Settled => ~Carries(w, e)
  BY <1>1 DEF Carries, Continuations
<1>4. status[e] \in {"received", "processing"} => Continued(e)' \/ e \in orphaned
  BY <1>2, <1>3 DEF Safe, InFlightIsCarried, Settled
<1>5. status[e] # "failed" /\ status[e] # "absent"
  BY <1>1 DEF Settled
<1>6. e \in Ids
  BY DEF Ids
<1> QED
  BY <1>1, <1>2, <1>4, <1>5, <1>6, OneEventSafe

LEMMA DlqSafe ==
  ASSUME TypeInv, Safe, NEW b \in Body, DlqConsume(b) \/ DlqConsumeUnacked(b)
  PROVE  Safe'
<1>1. b.ev \in Ids
  BY DEF Body
<1>2. /\ UNCHANGED <<queue, tiers, task, replaying, accepted, orphaned>>
      /\ discarded' = discarded \ {b.ev}
      /\ \A c \in Body : c # b => dead'[c] = dead[c]
      /\ dlq'[b.ev] # "absent"
      /\ \A i \in Ids \ {b.ev} : dlq'[i] = dlq[i]
  BY <1>1, TakeBag DEF DlqConsume, DlqConsumeUnacked, PersistDeadLetter, brokerVars, TypeInv, TypeOK
<1>3. /\ \A i \in Events \ {b.ev} : status'[i] = status[i]
      /\ b.ev \in Events => status'[b.ev] \in {"absent", "dead"}
  BY DEF DlqConsume, DlqConsumeUnacked, PersistDeadLetter, MarkDead, TypeInv, TypeOK
<1>4. ASSUME NEW i \in Ids \ {b.ev}
      PROVE  (Continued(i) => Continued(i)') /\ (Pending(i) => Pending(i)')
  BY <1>2, <1>4, FrameNone
<1> QED
  BY <1>1, <1>2, <1>3, <1>4, OneEventSafe

LEMMA ReplayLostSafe ==
  ASSUME TypeInv, Safe, NEW b \in Body, ReplayLost(b)
  PROVE  Safe'
<1>1. /\ b.ev \in Ids /\ replaying[b] > 0 /\ replaying \in [Body -> Nat]
      /\ dlq[b.ev] # "absent" \/ b.ev \in discarded
  BY DEF ReplayLost, ReplayOK, Body, TypeInv, TypeOK
<1>2. /\ UNCHANGED <<queue, tiers, dead, task, accepted, discarded, dlq, status>>
      /\ \A c \in Body : c # b => replaying'[c] = replaying[c]
      /\ orphaned' = orphaned \cup {b.ev}
  BY <1>1, TakeBag DEF ReplayLost, brokerVars, rowVars
<1>3. ASSUME NEW i \in Ids \ {b.ev}
      PROVE  (Continued(i) => Continued(i)') /\ (Pending(i) => Pending(i)')
  BY <1>2, <1>3, FrameNone
<1> QED
  BY <1>1, <1>2, <1>3, OneEventSafe

LEMMA ReplayPrepareSafe ==
  ASSUME TypeInv, Safe, NEW e \in Events, ReplayPrepare(e)
  PROVE  Safe'
<1> DEFINE b == [ev |-> e, fit |-> dlq[e] = "fit"]
<1>1. b \in Body /\ b.ev = e /\ e \in Ids
  BY Bodies DEF Ids
<1>2. /\ replaying \in [Body -> Nat] /\ replaying' = Put(replaying, b) /\ dlq[e] # "absent"
      /\ UNCHANGED <<queue, tiers, dead, task, accepted, discarded, dlq>>
      /\ orphaned' = orphaned \ {e}
  BY DEF ReplayPrepare, brokerVars, TypeInv, TypeOK
<1> HIDE DEF b
<1>3. replaying'[b] > 0 /\ \A c \in Body : replaying[c] > 0 => replaying'[c] > 0
  BY <1>1, <1>2, PutBag
<1>4. \A i \in Events \ {e} : status'[i] = status[i]
  BY DEF ReplayPrepare, rowVars, TypeInv, TypeOK
<1>5. ASSUME NEW i \in Ids \ {e}
      PROVE  (Continued(i) => Continued(i)') /\ (Pending(i) => Pending(i)')
  BY <1>2, <1>3, <1>5, FrameNone
<1>6. Continued(e)' /\ Pending(e)'
  BY <1>1, <1>3, Shown
<1> QED
  BY <1>1, <1>2, <1>4, <1>5, <1>6, OneEventSafe

LEMMA SafeNext == TypeInv /\ Safe /\ ZombieCovered /\ [Next]_vars => Safe'
<1> SUFFICES ASSUME TypeInv, Safe, ZombieCovered, [Next]_vars PROVE Safe'
  OBVIOUS
<1>1. ASSUME NEW e \in Events, NEW fit \in FitKinds, Ingest(e, fit) PROVE Safe'
  <2> DEFINE b == [ev |-> e, fit |-> fit]
  <2>1. b \in Body /\ b.ev = e
    BY Bodies
  <2>2. /\ queue \in [Msg -> Nat] /\ queue' = Put(queue, Fresh(b))
        /\ UNCHANGED <<status, orphaned, dlq, discarded, tiers, dead, task, replaying>>
        /\ accepted' = accepted \cup {e}
    BY <1>1 DEF Ingest, rowVars, TypeInv, TypeOK
  <2> HIDE DEF b
  <2>3. Fresh(b) \in Msg /\ Fresh(b).body.ev = e /\ queue'[Fresh(b)] > 0
    BY <2>1, <2>2, FreshMsg, PutBag
  <2>4. Pending(e)'
    BY <2>3, Shown
  <2>5. Keeps
    BY <2>1, <2>2, IngestKeeps
  <2> QED
    BY <2>2, <2>4, <2>5, MoveSafe
<1>2. ASSUME InjectPoison PROVE Safe'
  <2>1. Poison \in Body /\ Poison.ev = NoEvent
    BY Bodies DEF Poison
  <2>2. /\ queue \in [Msg -> Nat] /\ queue' = Put(queue, Fresh(Poison))
        /\ UNCHANGED <<status, orphaned, dlq, discarded, tiers, dead, task, replaying>>
        /\ accepted' = accepted \cup {NoEvent}
    BY <1>2 DEF InjectPoison, rowVars, TypeInv, TypeOK
  <2>3. Fresh(Poison) \in Msg /\ Fresh(Poison).body.ev = NoEvent /\ queue'[Fresh(Poison)] > 0
    BY <2>1, <2>2, FreshMsg, PutBag
  <2>4. Pending(NoEvent)'
    BY <2>3, Shown
  <2>5. Keeps
    BY <2>1, <2>2, IngestKeeps
  <2> QED
    BY <2>2, <2>4, <2>5, MoveSafe
<1>3. ASSUME NEW w \in Workers, NEW m \in Msg, Deliver(w, m) PROVE Safe'
  BY <1>3, DeliverKeeps, MoveSafe DEF Deliver, rowVars, ghostVars
<1>4. ASSUME NEW w \in Workers, RejectMessage(w) PROVE Safe'
  BY <1>4, DecideKeeps, MoveSafe DEF RejectMessage, rowVars, ghostVars
<1>5. ASSUME NEW w \in Workers, NEW e \in Events, ProcessFailedAgain(w, e) PROVE Safe'
  BY <1>5, DecideKeeps, MoveSafe DEF ProcessFailedAgain, rowVars, ghostVars
<1>6. ASSUME NEW w \in Workers, PublishRetry(w) \/ PublishDead(w) \/ Ack(w) PROVE Safe'
  BY <1>6, PublishRetryKeeps, PublishDeadKeeps, AckKeeps, MoveSafe
  DEF PublishRetry, PublishDead, Ack, rowVars, ghostVars
<1>7. ASSUME NEW w \in Workers, WorkerFault(w) PROVE Safe'
  <2>1. /\ UNCHANGED <<tiers, dead, replaying, status, orphaned, accepted, dlq, discarded>>
        /\ queue' = IF task[w].live THEN Put(queue, Requeued(task[w].m)) ELSE queue
        /\ \A v \in Workers \ {w} : task'[v] = task[v]
    BY <1>7 DEF WorkerFault, ProcessAborted, PublishFails, WorkerCrash, ChannelLost, GiveBack,
       rowVars, ghostVars, TypeInv, TypeOK
  <2> QED
    BY <2>1, RequeueKeeps, MoveSafe
<1>8. ASSUME NEW r \in RetryMsg, TierExpires(r) PROVE Safe'
  BY <1>8, TierExpiresKeeps, MoveSafe DEF TierExpires, rowVars
<1>9. ASSUME NEW b \in Body, ReplayPublish(b) PROVE Safe'
  BY <1>9, ReplayPublishKeeps, MoveSafe DEF ReplayPublish, rowVars, ghostVars
<1>10. ASSUME NEW i \in Ids, Discard(i) PROVE Safe'
  <2>1. /\ UNCHANGED <<queue, tiers, dead, replaying, task, status, orphaned, accepted>>
        /\ discarded' = discarded \cup {i}
        /\ \A j \in Ids \ {i} : dlq'[j] = dlq[j]
    BY <1>10 DEF Discard, rowVars, brokerVars, TypeInv, TypeOK
  <2>2. Keeps
    BY <2>1, FrameNone DEF Keeps
  <2> QED
    BY <2>1, <2>2, MoveSafe
<1>11. ASSUME UNCHANGED vars PROVE Safe'
  <2>1. /\ UNCHANGED <<queue, tiers, dead, replaying, task, status, orphaned, accepted>>
        /\ UNCHANGED <<dlq, discarded>>
    BY <1>11 DEF vars, rowVars, brokerVars, ghostVars
  <2>2. Keeps
    BY <2>1, FrameNone DEF Keeps
  <2> QED
    BY <2>1, <2>2, MoveSafe
<1>12. ASSUME NEW w \in Workers, WorkerStep(w) PROVE Safe'
  BY <1>4, <1>5, <1>6, <1>12, AttemptSafe, DuplicateSafe DEF WorkerStep, Process
<1> QED
  BY <1>1, <1>2, <1>3, <1>7, <1>8, <1>9, <1>10, <1>11, <1>12, DlqSafe, ReplayLostSafe,
     ReplayPrepareSafe DEF Next

-----------------------------------------------------------------------------
(* A handler without a channel never claims an event nobody else holds.     *)

LEMMA FitFrame ==
  ASSUME NEW e, NEW w \in Workers,
         \A m \in Continuations : m.body = FitBody(e) /\ queue[m] > 0 => queue'[m] > 0,
         \A v \in Workers \ {w} : task'[v] = task[v],
         FitContinued(e)
  PROVE  FitContinued(e)' \/ FitRunning(w, e)
<1>1. CASE \E m \in Continuations : m.body = FitBody(e) /\ queue[m] > 0
  BY <1>1 DEF FitContinued, Continuations, FitBody
<1>2. ASSUME NEW v \in Workers \ {w}, FitRunning(v, e) PROVE FitContinued(e)'
  BY <1>2 DEF FitContinued, FitRunning, Continuations, FitBody
<1> QED
  BY <1>1, <1>2 DEF FitContinued

LEMMA FitFrameNone ==
  ASSUME NEW e, UNCHANGED task, FitContinued(e),
         \A m \in Continuations : m.body = FitBody(e) /\ queue[m] > 0 => queue'[m] > 0
  PROVE  FitContinued(e)'
<1>1. CASE \E m \in Continuations : m.body = FitBody(e) /\ queue[m] > 0
  BY <1>1 DEF FitContinued, Continuations, FitBody
<1>2. CASE \E w \in Workers : FitRunning(w, e)
  BY <1>2 DEF FitContinued, FitRunning, Continuations, FitBody
<1> QED
  BY <1>1, <1>2 DEF FitContinued

\* Outside the workers: the queue only grows and no event loses its row.
LEMMA ZombieEnv ==
  ASSUME TypeInv, ZombieCovered, UNCHANGED task,
         \A m \in Msg : queue[m] > 0 => queue'[m] > 0,
         \A e \in Events : status'[e] = "absent" => status[e] = "absent"
  PROVE  ZombieCovered'
<1> SUFFICES ASSUME NEW w \in Workers, NEW e \in Events, Zombie(w, e)', status'[e] = "absent"
             PROVE  FitContinued(e)'
  BY DEF ZombieCovered
<1>1. Zombie(w, e) /\ status[e] = "absent"
  BY DEF Zombie, FitBody
<1>2. FitContinued(e)
  BY <1>1 DEF ZombieCovered
<1> QED
  BY <1>2, FitFrameNone DEF Continuations

\* A worker step that neither takes from the queue nor starts a handler.
LEMMA ZombieWorker ==
  ASSUME TypeInv, ZombieCovered, NEW w \in Workers,
         \A m \in Msg : queue[m] > 0 => queue'[m] > 0,
         \A v \in Workers \ {w} : task'[v] = task[v],
         task'[w].step # "running" \/ task'[w].live,
         \A e \in Events : status'[e] = "absent" =>
           status[e] = "absent" /\ (FitRunning(w, e) => FitContinued(e)')
  PROVE  ZombieCovered'
<1> SUFFICES ASSUME NEW v \in Workers, NEW e \in Events, Zombie(v, e)', status'[e] = "absent"
             PROVE  FitContinued(e)'
  BY DEF ZombieCovered
<1>1. v # w
  BY DEF Zombie
<1>2. Zombie(v, e) /\ status[e] = "absent"
  BY <1>1 DEF Zombie, FitBody
<1>3. FitContinued(e)
  BY <1>2 DEF ZombieCovered
<1> QED
  BY <1>3, FitFrame DEF Continuations

LEMMA ZombieNext == TypeInv /\ ZombieCovered /\ [Next]_vars => ZombieCovered'
<1> SUFFICES ASSUME TypeInv, ZombieCovered, [Next]_vars PROVE ZombieCovered'
  OBVIOUS
<1>0. task \in [Workers -> Task] /\ queue \in [Msg -> Nat] /\ status \in [Events -> Statuses]
  BY DEF TypeInv, TypeOK
<1>1. ASSUME NEW b \in Body, queue' = Put(queue, Fresh(b)), UNCHANGED <<task, status>>
      PROVE  ZombieCovered'
  <2>1. \A m \in Msg : queue[m] > 0 => queue'[m] > 0
    BY <1>0, <1>1, FreshMsg, PutBag
  <2> QED
    BY <1>1, <2>1, ZombieEnv
<1>2. ASSUME NEW e \in Events, NEW fit \in FitKinds, Ingest(e, fit) PROVE ZombieCovered'
  BY <1>1, <1>2, Bodies DEF Ingest, rowVars
<1>3. ASSUME InjectPoison PROVE ZombieCovered'
  BY <1>1, <1>3, Bodies DEF InjectPoison, rowVars
<1>4. ASSUME NEW r \in RetryMsg, TierExpires(r) PROVE ZombieCovered'
  <2>1. r.ev \in Events
    BY DEF RetryMsg
  <2>2. \A m \in Msg : queue[m] > 0 => queue'[m] > 0
    BY <1>0, <1>4, <2>1, Bodies, HeaderMsg, PutBag DEF TierExpires
  <2> QED
    BY <1>4, <2>2, ZombieEnv DEF TierExpires, rowVars
<1>5. ASSUME NEW b \in Body, ReplayPublish(b) PROVE ZombieCovered'
  <2>1. \A m \in Msg : queue[m] > 0 => queue'[m] > 0
    BY <1>0, <1>5, HeaderMsg, PutBag DEF ReplayPublish
  <2> QED
    BY <1>5, <2>1, ZombieEnv DEF ReplayPublish, rowVars
<1>6. ASSUME UNCHANGED <<task, queue>>,
             \A e \in Events : status'[e] = "absent" => status[e] = "absent"
      PROVE  ZombieCovered'
  BY <1>6, ZombieEnv
<1>7. ASSUME NEW b \in Body, DlqConsume(b) \/ DlqConsumeUnacked(b) PROVE ZombieCovered'
  <2>1. UNCHANGED <<task, queue>>
    BY <1>7 DEF DlqConsume, DlqConsumeUnacked, brokerVars
  <2>2. \A e \in Events : status'[e] = "absent" => status[e] = "absent"
    BY <1>0, <1>7 DEF DlqConsume, DlqConsumeUnacked, PersistDeadLetter, MarkDead
  <2> QED
    BY <2>1, <2>2, <1>6
<1>8. ASSUME NEW e \in Events, ReplayPrepare(e) PROVE ZombieCovered'
  <2>1. \A d \in Events : status'[d] = "absent" => status[d] = "absent"
    BY <1>0, <1>8 DEF ReplayPrepare, rowVars
  <2> QED
    BY <1>6, <1>8, <2>1 DEF ReplayPrepare, brokerVars
<1>9. ASSUME NEW w \in Workers, NEW m \in Msg, Deliver(w, m) PROVE ZombieCovered'
  <2> SUFFICES ASSUME NEW v \in Workers, NEW e \in Events, Zombie(v, e)', status'[e] = "absent"
               PROVE  FitContinued(e)'
    BY DEF ZombieCovered
  <2>1. /\ task[w].step = "idle" /\ queue[m] > 0 /\ queue' = Take(queue, m) /\ UNCHANGED status
        /\ task' = [task EXCEPT ![w] = [m |-> m, step |-> "running", tries |-> 0, live |-> TRUE]]
    BY <1>9 DEF Deliver, rowVars
  <2>2. \A k \in Msg : k # m => queue'[k] = queue[k]
    BY <1>0, <2>1, TakeBag
  <2>3. Zombie(v, e) /\ status[e] = "absent"
    BY <1>0, <2>1 DEF Zombie, FitBody
  <2>4. FitContinued(e) /\ ~FitRunning(w, e)
    BY <2>1, <2>3 DEF ZombieCovered, FitRunning
  <2>5. CASE m \in Continuations /\ m.body = FitBody(e)
    <3>1. FitRunning(w, e)'
      BY <1>0, <2>1, <2>5 DEF FitRunning, Continuations, FitBody
    <3> QED
      BY <3>1 DEF FitContinued
  <2>6. CASE ~(m \in Continuations /\ m.body = FitBody(e))
    BY <1>0, <2>1, <2>2, <2>4, <2>6, FitFrame DEF Continuations
  <2> QED
    BY <2>5, <2>6
<1>10. ASSUME NEW w \in Workers, NEW t, t.step # "running", task' = [task EXCEPT ![w] = t],
              UNCHANGED queue, \A e \in Events : status'[e] = "absent" => status[e] = "absent",
              \A e \in Events : FitRunning(w, e) => status'[e] # "absent"
       PROVE  ZombieCovered'
  BY <1>0, <1>10, ZombieWorker
<1>11. ASSUME NEW w \in Workers, NEW e \in Events,
              \/ ProcessDuplicate(w, e) \/ ProcessFailedAgain(w, e)
              \/ ProcessOk(w, e) \/ ProcessRetry(w, e) \/ ProcessDead(w, e)
       PROVE  ZombieCovered'
  <2>1. /\ status'[e] # "absent" /\ UNCHANGED queue
        /\ \A d \in Events : status'[d] = "absent" => status[d] = "absent"
    BY <1>0, <1>11 DEF ProcessDuplicate, ProcessFailedAgain, ProcessOk, ProcessRetry, ProcessDead,
       Settled, rowVars, brokerVars
  <2>2. \A d \in Events : FitRunning(w, d) => d = e
    BY <1>11 DEF ProcessDuplicate, ProcessFailedAgain, ProcessOk, ProcessRetry, ProcessDead,
       MayAttempt, Claiming, FitRunning, FitBody
  <2> QED
    BY <1>10, <1>11, <2>1, <2>2 DEF ProcessDuplicate, ProcessFailedAgain, ProcessOk, ProcessRetry,
       ProcessDead, Decide
<1>12. ASSUME NEW w \in Workers, RejectMessage(w) \/ PublishRetry(w) \/ PublishDead(w) \/ Ack(w)
       PROVE  ZombieCovered'
  <2>1. \A d \in Events : ~FitRunning(w, d)
    BY <1>12 DEF RejectMessage, PublishRetry, PublishDead, Ack, FitRunning, FitBody
  <2> QED
    BY <1>10, <1>12, <2>1 DEF RejectMessage, PublishRetry, PublishDead, Ack, Decide, Idle,
       rowVars, brokerVars
<1>13. ASSUME NEW w \in Workers, WorkerFault(w) PROVE ZombieCovered'
  <2> DEFINE m == Requeued(task[w].m)
  <2>1. m \in Continuations /\ m \in Msg /\ m.body = task[w].m.body
    BY <1>0, TaskFields, RequeuedMsg
  <2>2. /\ queue' = IF task[w].live THEN Put(queue, m) ELSE queue
        /\ UNCHANGED status /\ \A v \in Workers \ {w} : task'[v] = task[v]
    BY <1>0, <1>13 DEF WorkerFault, ProcessAborted, PublishFails, WorkerCrash, ChannelLost, GiveBack, rowVars
  <2> HIDE DEF m
  <2>3. /\ task[w].live => queue'[m] > 0
        /\ \A k \in Msg : queue[k] > 0 => queue'[k] > 0
    BY <1>0, <2>1, <2>2, PutBag
  <2>4. ASSUME NEW e \in Events, task[w].live, task[w].m.body = FitBody(e) PROVE FitContinued(e)'
    BY <2>1, <2>3, <2>4 DEF FitContinued, Continuations, FitBody
  <2>5. \A e \in Events : FitRunning(w, e) => FitContinued(e)'
    BY <2>4 DEF FitRunning
  <2>6. CASE ChannelLost(w)
    <3> SUFFICES ASSUME NEW v \in Workers, NEW e \in Events, Zombie(v, e)', status'[e] = "absent"
                 PROVE  FitContinued(e)'
      BY DEF ZombieCovered
    <3>1. CASE v = w
      <4>1. task[w].live /\ task[w].m.body = FitBody(e)
        BY <1>0, <2>6, <3>1 DEF ChannelLost, Zombie, FitBody
      <4> QED
        BY <4>1, <2>4
    <3>2. CASE v # w
      <4>1. Zombie(v, e) /\ status[e] = "absent"
        BY <2>2, <3>2 DEF Zombie, FitBody
      <4> QED
        BY <4>1, <2>2, <2>3, <2>5, FitFrame DEF ZombieCovered, Continuations
    <3> QED
      BY <3>1, <3>2
  <2>7. CASE ~ChannelLost(w)
    <3>1. task'[w].step # "running"
      BY <1>0, <1>13, <2>7 DEF WorkerFault, ProcessAborted, PublishFails, WorkerCrash, GiveBack, Idle
    <3> QED
      BY <2>2, <2>3, <2>5, <3>1, ZombieWorker
  <2> QED
    BY <2>6, <2>7
<1>14. ASSUME UNCHANGED vars PROVE ZombieCovered'
  BY <1>6, <1>14 DEF vars, rowVars, brokerVars
<1>15. ASSUME NEW b \in Body, ReplayLost(b) PROVE ZombieCovered'
  BY <1>6, <1>15 DEF ReplayLost, rowVars, brokerVars
<1>16. ASSUME NEW i \in Ids, Discard(i) PROVE ZombieCovered'
  BY <1>6, <1>16 DEF Discard, rowVars, brokerVars
<1>17. ASSUME NEW w \in Workers, WorkerStep(w) PROVE ZombieCovered'
  BY <1>11, <1>12, <1>17 DEF WorkerStep, Process
<1> QED
  BY <1>2, <1>3, <1>4, <1>5, <1>7, <1>8, <1>9, <1>13, <1>14, <1>15, <1>16, <1>17 DEF Next

LEMMA CarriedInvariance == Spec => [](Safe /\ ZombieCovered)
<1>1. Init => Safe /\ ZombieCovered
  BY DEF Init, Safe, AcceptedIsKept, InFlightIsCarried, FailedIsEmitted, ZombieCovered, Zombie, Idle
<1>2. TypeInv /\ Safe /\ ZombieCovered /\ [Next]_vars => (Safe /\ ZombieCovered)'
  BY SafeNext, ZombieNext
<1> QED
  BY <1>1, <1>2, TypeInvariance, PTL DEF Spec

\* A message the broker accepted leads to a row or a dead letter, or is still
\* in a queue or in a delivery that will be made again.
THEOREM NothingLost == Spec => []AcceptedIsKept
<1>1. Safe => AcceptedIsKept
  BY DEF Safe
<1> QED
  BY <1>1, CarriedInvariance, PTL

\* A row that owes an attempt has a message the processor will not drop.
THEOREM NothingStranded == Spec => []InFlightIsCarried
<1>1. Safe => InFlightIsCarried
  BY DEF Safe
<1> QED
  BY <1>1, CarriedInvariance, PTL

\* A failed event keeps a message that will emit its dead letter.
THEOREM DeadLetterComes == Spec => []FailedIsEmitted
<1>1. Safe => FailedIsEmitted
  BY DEF Safe
<1> QED
  BY <1>1, CarriedInvariance, PTL

-----------------------------------------------------------------------------
(* The tables: what a status says of dlq_messages and of the handler.       *)

\* A success is a row that says processed, or one a late dead letter took back.
Counted == \A e \in Events : successes[e] = reopened[e] + IF status[e] = "processed" THEN 1 ELSE 0

TableInv == DeadIsPersisted /\ ReplayCanBeRetried /\ Counted

LEMMA TableNext == TypeInv /\ TableInv /\ [Next]_vars => TableInv'
<1> SUFFICES ASSUME TypeInv, TableInv, [Next]_vars PROVE TableInv'
  OBVIOUS
<1> USE DEF TypeInv, TypeOK, TableInv, DeadIsPersisted, ReplayCanBeRetried, Counted
<1>1. ASSUME UNCHANGED <<status, dlq, discarded, successes, reopened>> PROVE TableInv'
  BY <1>1
<1>2. ASSUME NEW w \in Workers, NEW e \in Events, ProcessOk(w, e) PROVE TableInv'
  BY <1>2 DEF ProcessOk, MayAttempt
<1>3. ASSUME NEW w \in Workers, NEW e \in Events, ProcessRetry(w, e) \/ ProcessDead(w, e)
      PROVE  TableInv'
  BY <1>3 DEF ProcessRetry, ProcessDead, MayAttempt, ghostVars
<1>4. ASSUME NEW b \in Body, DlqConsume(b) \/ DlqConsumeUnacked(b) PROVE TableInv'
  <2>1. b.ev \in Ids /\ Events \subseteq Ids
    BY DEF Body, Ids
  <2>2. UNCHANGED successes /\ PersistDeadLetter(b)
    BY <1>4 DEF DlqConsume, DlqConsumeUnacked
  <2>3. DeadIsPersisted' /\ ReplayCanBeRetried'
    BY <2>1, <2>2 DEF PersistDeadLetter, MarkDead
  <2>4. Counted'
    BY <2>1, <2>2 DEF PersistDeadLetter, MarkDead
  <2> QED
    BY <2>3, <2>4
<1>5. ASSUME NEW e \in Events, ReplayPrepare(e) PROVE TableInv'
  BY <1>5 DEF ReplayPrepare, Replayable, rowVars
<1>6. ASSUME NEW i \in Ids, Discard(i) PROVE TableInv'
  BY <1>6 DEF Discard, rowVars, Ids
<1>7. ASSUME NEW w \in Workers, WorkerStep(w) \/ WorkerFault(w) PROVE TableInv'
  BY <1>1, <1>2, <1>3, <1>7 DEF WorkerStep, Process, RejectMessage, ProcessDuplicate,
     ProcessFailedAgain, PublishRetry, PublishDead, Ack, WorkerFault, ProcessAborted, PublishFails,
     WorkerCrash, ChannelLost, GiveBack, rowVars, ghostVars
<1> QED
  BY <1>1, <1>4, <1>5, <1>6, <1>7 DEF Next, Ingest, InjectPoison, Deliver, TierExpires,
     ReplayPublish, ReplayLost, rowVars, ghostVars, vars

LEMMA TableInvariance == Spec => []TableInv
<1>1. Init => TableInv
  BY DEF Init, TableInv, DeadIsPersisted, ReplayCanBeRetried, Counted
<1> QED
  BY <1>1, TableNext, TypeInvariance, PTL DEF Spec

\* A dead row has its dead letter on record, unless an operator discarded it.
THEOREM DeadHasRecord == Spec => []DeadIsPersisted
<1>1. TableInv => DeadIsPersisted
  BY DEF TableInv
<1> QED
  BY <1>1, TableInvariance, PTL

\* A replay that was not published can be called again: the event it reset has
\* its letter, unless an operator discarded it.
THEOREM SecondReplayStarts == Spec => []ReplayCanBeRetried
<1>1. TableInv => ReplayCanBeRetried
  BY DEF TableInv
<1> QED
  BY <1>1, TableInvariance, PTL

\* The handler's success commits at most once per event, late dead letters apart.
THEOREM EffectivelyOnce == Spec => []SucceedsOnce
<1>1. TableInv => SucceedsOnce
  BY DEF TableInv, Counted, SucceedsOnce
<1> QED
  BY <1>1, TableInvariance, PTL

-----------------------------------------------------------------------------
(* The row: every step of the pipeline is a step of EventRow or leaves the  *)
(* row alone.                                                               *)

\* The attempts, burials and resets of the pipeline are EventRow's.
LEMMA AttemptIsRow ==
  ASSUME TypeInv, NEW w \in Workers, NEW e \in Events,
         ProcessOk(w, e) \/ ProcessRetry(w, e) \/ ProcessDead(w, e)
  PROVE  Row!Attempt(e)
<1> USE DEF MayAttempt, Row!Attempt, Row!Open, Row!Write, OnRecord
<1>1. CASE ProcessOk(w, e)
  BY <1>1 DEF ProcessOk
<1>2. CASE ProcessRetry(w, e)
  BY <1>2 DEF ProcessRetry, ghostVars
<1>3. CASE ProcessDead(w, e)
  BY <1>3 DEF ProcessDead, ghostVars
<1> QED
  BY <1>1, <1>2, <1>3

\* A stored dead letter puts its event, and no other, on record.
LEMMA OnRecordAfterDlq ==
  ASSUME TypeInv, NEW b \in Body, PersistDeadLetter(b)
  PROVE  OnRecord' = IF b.ev \in Events THEN OnRecord \cup {b.ev} ELSE OnRecord
<1>1. b.ev \in Ids /\ dlq \in [Ids -> {"absent", "fit", "unfit"}]
  BY DEF Body, TypeInv, TypeOK
<1>2. /\ dlq'[b.ev] # "absent"
      /\ \A e \in Events : e # b.ev => dlq'[e] = dlq[e]
  BY <1>1 DEF PersistDeadLetter, Ids
<1> QED
  BY <1>2 DEF OnRecord

LEMMA DlqIsRow ==
  ASSUME TypeInv, NEW b \in Body, DlqConsume(b) \/ DlqConsumeUnacked(b)
  PROVE  \/ UNCHANGED Row!tables
         \/ \E e \in Events : Row!Bury(e) \/ Row!Record(e)
<1>1. PersistDeadLetter(b) /\ UNCHANGED attempts /\ discarded' = discarded \ {b.ev}
  BY DEF DlqConsume, DlqConsumeUnacked, PersistDeadLetter
<1>2. CASE b.ev \in Events /\ status[b.ev] # "absent"
  <2>1. OnRecord' = OnRecord \cup {b.ev}
    BY <1>1, <1>2, OnRecordAfterDlq
  <2>2. Row!Write(b.ev, "dead", attempts[b.ev])
    BY <1>1, <1>2 DEF PersistDeadLetter, MarkDead, Row!Write, TypeInv, TypeOK
  <2>3. Row!Bury(b.ev)
    BY <1>1, <1>2, <2>1, <2>2 DEF Row!Bury, Row!Recorded
  <2> QED
    BY <1>2, <2>3
<1>3. CASE b.ev \in Events /\ status[b.ev] = "absent"
  <2>1. OnRecord' = OnRecord \cup {b.ev}
    BY <1>1, <1>3, OnRecordAfterDlq
  <2>2. UNCHANGED <<status, attempts>>
    BY <1>1, <1>3 DEF PersistDeadLetter, MarkDead, TypeInv, TypeOK
  <2>3. Row!Record(b.ev)
    BY <1>1, <1>3, <2>1, <2>2 DEF Row!Record, Row!Recorded
  <2> QED
    BY <1>3, <2>3
<1>4. CASE b.ev \notin Events
  BY <1>1, <1>4, OnRecordAfterDlq DEF PersistDeadLetter, Row!tables
<1> QED
  BY <1>2, <1>3, <1>4

LEMMA ReplayIsRow ==
  ASSUME TypeInv, NEW e \in Events, ReplayPrepare(e)
  PROVE  UNCHANGED Row!tables \/ Row!Reset(e)
<1>1. OnRecord' = OnRecord /\ e \in OnRecord
  BY DEF ReplayPrepare, OnRecord
<1> QED
  BY <1>1 DEF ReplayPrepare, rowVars, Replayable, Row!tables, Row!Reset, Row!Write,
     Row!Replayable

LEMMA DiscardIsRow ==
  ASSUME TypeInv, NEW i \in Ids, Discard(i)
  PROVE  UNCHANGED Row!tables \/ \E e \in Events : Row!Discard(e)
<1>1. dlq[i] # "absent" /\ UNCHANGED rowVars /\ discarded' = discarded \cup {i}
  BY DEF Discard
<1>2. /\ dlq'[i] = "absent"
      /\ \A e \in Events : e # i => dlq'[e] = dlq[e]
  BY DEF Discard, TypeInv, TypeOK, Ids
<1>3. CASE i \in Events
  <2>1. i \in OnRecord /\ OnRecord' = OnRecord \ {i}
    BY <1>1, <1>2, <1>3 DEF OnRecord
  <2> QED
    BY <1>1, <1>3, <2>1 DEF Row!Discard, rowVars
<1>4. CASE i \notin Events
  <2>1. OnRecord' = OnRecord
    BY <1>2, <1>4 DEF OnRecord
  <2> QED
    BY <1>1, <1>4, <2>1 DEF Row!tables, rowVars
<1> QED
  BY <1>3, <1>4

\* No other action writes the row, nor the dead letters.
LEMMA OthersLeaveRow ==
  ASSUME Next,
         ~ \E w \in Workers, e \in Events :
             ProcessOk(w, e) \/ ProcessRetry(w, e) \/ ProcessDead(w, e),
         ~ \E b \in Body : DlqConsume(b) \/ DlqConsumeUnacked(b),
         ~ \E e \in Events : ReplayPrepare(e)
  PROVE  UNCHANGED rowVars /\ (UNCHANGED <<dlq, discarded>> \/ \E i \in Ids : Discard(i))
<1>1. ASSUME NEW w \in Workers, WorkerStep(w) \/ WorkerFault(w)
      PROVE  UNCHANGED rowVars /\ UNCHANGED <<dlq, discarded>>
  BY <1>1 DEF WorkerStep, Process, RejectMessage, ProcessDuplicate, ProcessFailedAgain,
     PublishRetry, PublishDead, Ack, WorkerFault, ProcessAborted, PublishFails, WorkerCrash,
     ChannelLost, GiveBack, ghostVars
<1> QED
  BY <1>1 DEF Next, Ingest, InjectPoison, Deliver, TierExpires, ReplayPublish, ReplayLost,
     Discard, ghostVars

LEMMA RowNext == TypeInv /\ [Next]_vars => [Row!Next]_(Row!tables)
<1> SUFFICES ASSUME TypeInv, [Next]_vars PROVE Row!Next \/ UNCHANGED Row!tables
  OBVIOUS
<1>1. UNCHANGED rowVars /\ UNCHANGED <<dlq, discarded>> => UNCHANGED Row!tables
  BY DEF rowVars, Row!tables, OnRecord
<1>2. CASE UNCHANGED vars
  BY <1>1, <1>2 DEF vars, ghostVars
<1>3. CASE Next
  <2>1. ASSUME NEW w \in Workers, NEW e \in Events,
               ProcessOk(w, e) \/ ProcessRetry(w, e) \/ ProcessDead(w, e)
        PROVE  Row!Next
    BY <2>1, AttemptIsRow DEF Row!Next
  <2>2. ASSUME NEW b \in Body, DlqConsume(b) \/ DlqConsumeUnacked(b)
        PROVE  Row!Next \/ UNCHANGED Row!tables
    BY <2>2, DlqIsRow DEF Row!Next
  <2>3. ASSUME NEW e \in Events, ReplayPrepare(e)
        PROVE  Row!Next \/ UNCHANGED Row!tables
    BY <2>3, ReplayIsRow DEF Row!Next
  <2>4. ASSUME NEW i \in Ids, Discard(i)
        PROVE  Row!Next \/ UNCHANGED Row!tables
    BY <2>4, DiscardIsRow DEF Row!Next
  <2> QED
    BY <1>1, <1>3, <2>1, <2>2, <2>3, <2>4, OthersLeaveRow
<1> QED
  BY <1>2, <1>3

\* Pipeline implements EventRow: whatever the queues, workers and operators do,
\* a row changes only by an attempt on an open event, a burial that comes with
\* its dead letter, or a reset of one on record.
THEOREM RowImplemented == Spec => ImplementsEventRow
<1>1. Init => Row!Init
  BY DEF Init, Row!Init, OnRecord, Ids
<1> QED
  BY <1>1, RowNext, TypeInvariance, PTL DEF Spec, ImplementsEventRow, Row!Spec

\* Only a replay of a recorded dead letter reopens a settled event or rewinds
\* its attempts.
THEOREM ReopenedByReplay == Spec => OnlyReplayReopens
<1> DEFINE Reopens(e) == \/ status[e] \in Settled /\ status'[e] \notin Settled
                         \/ attempts'[e] < attempts[e]
           Replays(e) == replays' = replays + 1 /\ status'[e] = "received" /\ dlq[e] # "absent"
<1>1. ASSUME TypeInv, [Next]_vars, NEW e \in Events, Reopens(e) PROVE Replays(e)
  <2> USE DEF TypeInv, TypeOK
  <2>1. attempts[e] \in Nat
    BY <1>1
  <2>2. ~UNCHANGED rowVars /\ ~UNCHANGED Row!tables
    BY <1>1, <2>1 DEF rowVars, Row!tables
  <2>3. ASSUME NEW f \in Events, Row!Attempt(f) PROVE FALSE
    BY <1>1, <2>1, <2>3 DEF Row!Attempt, Row!Open, Row!Write, Settled
  <2>4. ASSUME NEW f \in Events, Row!Bury(f) \/ Row!Record(f) PROVE FALSE
    BY <1>1, <2>1, <2>4 DEF Row!Bury, Row!Record, Row!Write, Settled
  <2>5. Next /\ ~UNCHANGED vars
    BY <1>1, <2>2 DEF vars
  <2>6. PICK f \in Events : ReplayPrepare(f)
    BY <1>1, <2>2, <2>3, <2>4, <2>5, AttemptIsRow, DlqIsRow, OthersLeaveRow
  <2>7. f = e
    BY <1>1, <2>1, <2>2, <2>6 DEF ReplayPrepare
  <2> QED
    BY <1>1, <2>2, <2>6, <2>7 DEF ReplayPrepare
<1>2. TypeInv /\ [Next]_vars
        => [\A e \in Events : Reopens(e) => Replays(e)]_vars
  BY <1>1
<1> QED
  BY <1>2, TypeInvariance, PTL DEF Spec, OnlyReplayReopens
=============================================================================
