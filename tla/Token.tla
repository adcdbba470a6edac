------------------------------- MODULE Token --------------------------------
(***************************************************************************)
(* What the visualizer knows of one request: the stages it has seen, in    *)
(* the order of their rank, and what follows from them.  Stages come from  *)
(* two sides, the browser's own HTTP exchange and the worker's telemetry,  *)
(* and in any order.  Texts, colours and timings are left out; so is the   *)
(* deadline, set and cleared together with the tier.                       *)
(***************************************************************************)
EXTENDS Naturals, Sequences, SequencesExt

NoTier == "none"
NoStatus == "none"

STAGE_RANK ==
  [received |-> 0, signature_verified |-> 1, malformed |-> 1, rejected |-> 1,
   published |-> 2, injected |-> 2, unavailable |-> 2, consuming |-> 3,
   processing_decision |-> 4, retry |-> 5, processed |-> 6, duplicate |-> 6,
   dead |-> 6]

Stages == DOMAIN STAGE_RANK
WORKER_TERMINALS == {"processed", "duplicate", "dead"}
WORKER_STAGES == WORKER_TERMINALS \cup {"consuming", "processing_decision", "retry"}
TERMINAL_STAGES == WORKER_TERMINALS \cup {"rejected", "malformed", "unavailable"}
isTerminal(stage) == stage \in TERMINAL_STAGES

\* A stage event; the browser's own have no attempts, here 0.
StageEvent(stage, attempts, ts) == [stage |-> stage, attempts |-> attempts, ts |-> ts]
Entries == [stage : Stages, attempts : Nat, ts : Nat]
SameEntry(a, b) == a.stage = b.stage /\ a.attempts = b.attempts

\* The comparison of next.sort, which is stable.
NotAfter(a, b) ==
  \/ STAGE_RANK[a.stage] < STAGE_RANK[b.stage]
  \/ STAGE_RANK[a.stage] = STAGE_RANK[b.stage] /\ a.ts <= b.ts

\* Before which of the stages one goes: behind everything that is not after it.
SlotOf(stages, event) ==
  CHOOSE i \in 1 .. Len(stages) + 1 :
    /\ \A j \in 1 .. i - 1 : NotAfter(stages[j], event)
    /\ i <= Len(stages) => ~NotAfter(stages[i], event)

\* Mutations (Mut_*) are plausible mistakes in the definition that follows;
\* nothing else uses them.
Mut_KeepsSame(stages, event) == InsertAt(stages, SlotOf(stages, event), event)

\* stages is sorted and has no entry twice: the filter drops the entry of the
\* event's kind and attempt count, the push and the sort put the event in its place.
insertStage(stages, event) ==
  LET same == {i \in DOMAIN stages : SameEntry(stages[i], event)}
      without == IF same = {} THEN stages ELSE RemoveAt(stages, CHOOSE i \in same : TRUE)
  IN InsertAt(without, SlotOf(without, event), event)

\* The last of the stages of highest rank.
highestStage[stages \in Seq(Entries)] ==
  LET top(i) == \A j \in DOMAIN stages :
                  /\ STAGE_RANK[stages[j].stage] <= STAGE_RANK[stages[i].stage]
                  /\ j > i => STAGE_RANK[stages[j].stage] < STAGE_RANK[stages[i].stage]
  IN stages[CHOOSE i \in DOMAIN stages : top(i)].stage

NewToken(stage, ts) ==
  [stages |-> <<StageEvent(stage, 0, ts)>>, currentStage |-> stage,
   httpStatus |-> NoStatus, retryTier |-> NoTier]

Mut_LastArrived(token, event) ==
  [token EXCEPT !.stages = insertStage(@, event), !.currentStage = event.stage]

withStage(token, event) ==
  LET stages == insertStage(token.stages, event)
  IN [token EXCEPT !.stages = stages, !.currentStage = highestStage[stages]]

\* Where in its history a token shows a stage.
Shown(token, stage) == {i \in DOMAIN token.stages : token.stages[i].stage = stage}

retryTier(attempts) ==
  IF attempts <= 1 THEN "5s" ELSE IF attempts = 2 THEN "30s" ELSE "2min"

Mut_BackToFirstTier(token, event) ==
  LET next == withStage(token, event)
  IN [next EXCEPT !.retryTier =
        IF event.stage = "retry" THEN retryTier(event.attempts)
        ELSE IF next.currentStage = "retry" THEN "5s" ELSE NoTier]

\* The token after an envelope.  A lower stage of the next attempt keeps the tier.
withEnvelope(token, event) ==
  LET next == withStage(token, event)
  IN [next EXCEPT !.retryTier =
        IF event.stage = "retry" THEN retryTier(event.attempts)
        ELSE IF next.currentStage = "retry" THEN @ ELSE NoTier]

\* The stage the browser reads off an answer; status 0 is a failed fetch.
apiStageForStatus(status) ==
  CASE status = "202" -> "published"
    [] status = "400" -> "malformed"
    [] status \in {"503", "0"} -> "unavailable"
    [] OTHER -> "rejected"

resultStage(inject, status) ==
  IF inject THEN (IF status = "202" THEN "injected" ELSE "unavailable")
  ELSE apiStageForStatus(status)

\* The token after the HTTP result.
withResult(token, inject, status, ts) ==
  LET stage == resultStage(inject, status)
      signed == IF stage = "published"
                THEN withStage(token, StageEvent("signature_verified", 0, ts)) ELSE token
  IN [withStage(signed, StageEvent(stage, 0, ts)) EXCEPT !.httpStatus = status]

-----------------------------------------------------------------------------
(* The boxes a token's ball walks through.                                  *)

MAIN_ROW == <<"post", "guard", "validate", "exchange", "work", "worker", "postgres">>
MAIN_INDEX == [node \in {MAIN_ROW[i] : i \in 1 .. 7} |-> CHOOSE i \in 1 .. 7 : MAIN_ROW[i] = node]
mainIndex(node) == IF node \in DOMAIN MAIN_INDEX THEN MAIN_INDEX[node] ELSE 0
RetryBoxes == {"retry5s", "retry30s", "retry2min"}
retryNode(tier) ==
  IF tier = "30s" THEN "retry30s" ELSE IF tier = "2min" THEN "retry2min" ELSE "retry5s"

STAGE_META ==
  [received |-> "post", signature_verified |-> "guard", rejected |-> "guard",
   malformed |-> "validate", published |-> "exchange", injected |-> "exchange",
   unavailable |-> "exchange", consuming |-> "worker", processing_decision |-> "worker",
   processed |-> "postgres", duplicate |-> "worker", retry |-> "retry5s", dead |-> "dlq"]

nodeOf(event) ==
  IF event.stage = "retry" THEN retryNode(retryTier(event.attempts))
  ELSE STAGE_META[event.stage]

Mut_FliesOver(prev, node) == IF prev = node THEN <<>> ELSE <<node>>

\* From the box of one stage to the next one's: the boxes without a stage of
\* their own are filled in, and a success after a retry goes through the worker
\* again.
pathStep(prev, node) ==
  LET from == mainIndex(prev)
      to == mainIndex(node)
  IN IF prev = node THEN <<>>
     ELSE IF from # 0 /\ to > from + 1 THEN SubSeq(MAIN_ROW, from + 1, to)
     ELSE IF prev \in RetryBoxes /\ node = "postgres" THEN <<"worker", node>>
     ELSE <<node>>

\* The path up to each of these nodes.
Walk(nodes) ==
  LET to[i \in DOMAIN nodes] ==
        IF i = 1 THEN <<nodes[1]>> ELSE to[i - 1] \o pathStep(nodes[i - 1], nodes[i])
  IN to

pathOf(token) ==
  LET nodes == [i \in DOMAIN token.stages |-> nodeOf(token.stages[i])]
  IN Walk(nodes)[Len(nodes)]

\* Where the processing time of a token is counted from: the earliest consuming
\* it shows, a decision if it shows none.
processingStart(token) ==
  LET times(stage) == {token.stages[i].ts : i \in Shown(token, stage)}
      from == IF times("consuming") # {} THEN times("consuming")
              ELSE times("processing_decision")
  IN {t \in from : \A u \in from : t <= u}
=============================================================================
