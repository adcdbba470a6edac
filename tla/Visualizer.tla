---------------------------- MODULE Visualizer ------------------------------
(***************************************************************************)
(* The browser: runScenario with its awaits, the reducer's state, the      *)
(* balls that settle, the reset button.  JavaScript runs one task at a     *)
(* time, and the continuation of a resolved await before the next task:    *)
(* while Resume is enabled no other step of the browser is.                *)
(***************************************************************************)
EXTENDS Token, Telemetry

CONSTANTS
  Visits,      \* the scenarios a visitor runs, in order: sequences of scenarios
  MaxResets    \* bound on clicks on the reset button

ASSUME VisualizerAssumption ==
  /\ \A visit \in Visits : visit \in Seq(ScenarioIds)
  /\ MaxResets \in Nat

VARIABLES
  visit,             \* the scenarios the visitor will still run
  tokens, counters,  \* DemoState
  script,            \* runScenario: the requests it has to fire, its generation
  waiters,           \* settleWaiters, each with its timer
  settledRef,        \* tokens whose ball has come to its end
  generation,        \* runGeneration
  nextRun,           \* the next fresh correlation id
  firedIn,           \* history: the generation of the script that fired the run
  overtaken          \* history: tokens whose last retry came after a later one

browserVars == <<visit, tokens, counters, script, waiters, settledRef, generation,
                 nextRun, firedIn, overtaken>>
vars == <<serverVars, browserVars>>

Scripted(phase, gen, current, last) ==
  [phase |-> phase, gen |-> gen, current |-> current, last |-> last]
NoScript == Scripted("idle", 0, 0, 0)
NoTokens == [r \in {} |-> NewToken("received", 0)]
Counted == {"processed", "duplicate", "retry", "dead"}
initialCounters == [k \in Counted \cup {"rejected"} |-> 0]

Init ==
  /\ ServerInit
  /\ visit \in Visits
  /\ tokens = NoTokens /\ counters = initialCounters
  /\ script = NoScript
  /\ waiters = {} /\ settledRef = {}
  /\ generation = 0 /\ nextRun = 1
  /\ firedIn = [r \in Runs |-> 0] /\ overtaken = {}

inject(scenario) == scenario = "poison"
requests(scenario) == IF scenario = "duplicate" THEN 2 ELSE 1
WithToken(r, token) == [x \in DOMAIN tokens \cup {r} |-> IF x = r THEN token ELSE tokens[x]]

Busy == script.phase # "idle"
Resumable == script.phase = "settle" /\ script.current \notin waiters

-----------------------------------------------------------------------------
\* fire(): the token, and the request behind it.  All but the last request of
\* a sequence have their waiter registered before.
Fire(r, scenario, last, gen) ==
  /\ Posted(r, scenario, last + 1 - requests(scenario))
  /\ tokens' = WithToken(r, NewToken(IF inject(scenario) THEN "injected" ELSE "received", 0))
  /\ waiters' = IF r < last THEN waiters \cup {r} ELSE waiters
  /\ script' = Scripted("fetch", gen, r, last)
  /\ firedIn' = [firedIn EXCEPT ![r] = gen]

\* A button of the scenario bar, disabled while a scenario is busy.
runScenario(scenario) ==
  /\ ~Busy
  /\ visit # <<>> /\ scenario = Head(visit) /\ visit' = Tail(visit)
  /\ nextRun + requests(scenario) <= MaxRuns + 1
  /\ Fire(nextRun, scenario, nextRun + requests(scenario) - 1, generation)
  /\ nextRun' = nextRun + requests(scenario)
  /\ UNCHANGED <<counters, settledRef, generation, overtaken>>

Mut_CountsUnknown(r, status) ==
  /\ tokens' = IF r \in DOMAIN tokens
               THEN WithToken(r, withResult(tokens[r], inject(kind[r]), status, 1)) ELSE tokens
  /\ counters' = [counters EXCEPT !["rejected"] = @ + (IF status \in {"400", "401", "503"} THEN 1 ELSE 0)]

\* The reducer on an HTTP result: nothing if the token is gone.
http_result(r, status) ==
  IF r \in DOMAIN tokens
  THEN /\ tokens' = WithToken(r, withResult(tokens[r], inject(kind[r]), status, 1))
       /\ counters' = [counters EXCEPT !["rejected"] =
                         @ + (IF status \in {"400", "401", "503"} THEN 1 ELSE 0)]
  ELSE UNCHANGED <<tokens, counters>>

Mut_WaitsAfterAnswer(r) ==
  /\ script.phase = "fetch" /\ script.current = r
  /\ \E status \in {answer[r], "0"} \ {"none"} : http_result(r, status)
  /\ waiters' = IF r < script.last THEN waiters \cup {r} ELSE waiters
  /\ script' = Scripted("settle", script.gen, r, script.last)
  /\ UNCHANGED <<serverVars, visit, settledRef, generation, nextRun, firedIn, overtaken>>

\* The answer, or a network error before it.
HttpResult(r) ==
  /\ script.phase = "fetch" /\ script.current = r
  /\ \E status \in {answer[r], "0"} \ {"none"} : http_result(r, status)
  /\ script' = Scripted("settle", script.gen, r, script.last)
  /\ UNCHANGED <<serverVars, visit, waiters, settledRef, generation, nextRun, firedIn, overtaken>>

Mut_FiresAfterReset ==
  /\ Resumable
  /\ IF script.current = script.last
     THEN script' = NoScript /\ UNCHANGED <<serverVars, tokens, waiters, firedIn>>
     ELSE Fire(script.current + 1, kind[script.current], script.last, script.gen)
  /\ UNCHANGED <<visit, counters, settledRef, generation, nextRun, overtaken>>

\* The loop goes on: past the last request or after a reset it ends.
Resume ==
  /\ Resumable
  /\ IF script.current = script.last \/ script.gen # generation
     THEN script' = NoScript /\ UNCHANGED <<serverVars, tokens, waiters, firedIn>>
     ELSE Fire(script.current + 1, kind[script.current], script.last, script.gen)
  /\ UNCHANGED <<visit, counters, settledRef, generation, nextRun, overtaken>>

Mut_NoTimeout(r) == r \in waiters /\ FALSE /\ UNCHANGED vars

\* SETTLE_TIMEOUT_MS.
SettleTimeout(r) ==
  /\ r \in waiters
  /\ waiters' = waiters \ {r}
  /\ UNCHANGED <<serverVars, visit, tokens, counters, script, settledRef, generation, nextRun, firedIn, overtaken>>

\* The ball of a terminal token has walked to the end of its path: once per token.
Settle(r) ==
  /\ r \in DOMAIN tokens \ settledRef
  /\ isTerminal(tokens[r].currentStage)
  /\ settledRef' = settledRef \cup {r}
  /\ waiters' = waiters \ {r}
  /\ UNCHANGED <<serverVars, visit, tokens, counters, script, generation, nextRun, firedIn, overtaken>>

\* The reducer on an envelope: it is counted even with no token to show it.
onEnvelope(envelope) ==
  LET r == envelope.run
      stageEvent == StageEvent(envelope.stage, envelope.attempts, envelope.ts)
  IN /\ counters' = IF envelope.stage \in Counted
                    THEN [counters EXCEPT ![envelope.stage] = @ + 1] ELSE counters
     /\ tokens' = IF r \in DOMAIN tokens
                  THEN WithToken(r, withEnvelope(tokens[r], stageEvent)) ELSE tokens

\* A retry that comes when the token shows one of another attempt and a later time.
IsOvertaken(token, envelope) ==
  \E i \in Shown(token, "retry") :
    /\ token.stages[i].attempts # envelope.attempts
    /\ token.stages[i].ts > envelope.ts

\* The socket listens to the broadcast alone, not to the correlation's own channel.
Deliver(envelope) ==
  /\ broadcast(envelope)
  /\ onEnvelope(envelope)
  /\ overtaken' = IF envelope.stage # "retry" \/ envelope.run \notin DOMAIN tokens THEN overtaken
                  ELSE IF IsOvertaken(tokens[envelope.run], envelope)
                       THEN overtaken \cup {envelope.run} ELSE overtaken \ {envelope.run}
  /\ UNCHANGED <<visit, script, waiters, settledRef, generation, nextRun, firedIn>>

\* The button; MaxResets is a bound of the model.
reset ==
  /\ generation < MaxResets
  /\ generation' = generation + 1
  /\ waiters' = {}
  /\ tokens' = NoTokens /\ counters' = initialCounters
  /\ UNCHANGED <<serverVars, visit, script, settledRef, nextRun, firedIn, overtaken>>

BrowserTask ==
  /\ ~Resumable
  /\ \/ \E scenario \in ScenarioIds : runScenario(scenario)
     \/ \E r \in Runs : HttpResult(r) \/ SettleTimeout(r) \/ Settle(r)
     \/ \E envelope \in feed : Deliver(envelope)
     \/ reset

Next ==
  \/ ServerStep /\ UNCHANGED browserVars
  \/ BrowserTask
  \/ Resume

Spec == Init /\ [][Next]_vars

\* A fetch ends with an answer or an error, timers fire, awaits go on.  Nothing
\* is assumed of the server or the feed.
FairSpec ==
  /\ Spec
  /\ WF_vars(Resume)
  /\ WF_vars(~Resumable /\ \E r \in Runs : HttpResult(r))
  /\ WF_vars(~Resumable /\ \E r \in Runs : SettleTimeout(r))

-----------------------------------------------------------------------------
Envelopes == [run : Runs, stage : WORKER_STAGES, attempts : Nat, ts : Nat]

(* Shapes; and a token shows a stage of an attempt once, however often it is *)
(* emitted, its stages sorted by rank and time (insertStage).                *)
TypeOK ==
  /\ \A r \in Runs :
       /\ kind[r] \in ScenarioIds /\ event[r] \in Runs
       /\ \A c \in Copies : at[r, c].place \in Places
       /\ answer[r] \in Statuses
       /\ clock[r] \in Nat /\ firedIn[r] \in Nat
  /\ feed \subseteq Envelopes
  /\ waiters \subseteq DOMAIN tokens /\ settledRef \subseteq Runs /\ overtaken \subseteq Runs
  /\ DOMAIN tokens \subseteq Runs
  /\ \A r \in DOMAIN tokens :
       LET stages == tokens[r].stages
       IN /\ \A i \in DOMAIN stages : stages[i] \in Entries
          /\ \A i, j \in DOMAIN stages :
               i < j => NotAfter(stages[i], stages[j]) /\ ~SameEntry(stages[i], stages[j])

(* A reset ends what was running: no token is ever shown that a scenario    *)
(* started before the reset has fired, whatever it was waiting for.         *)
NoStaleRun == \A r \in DOMAIN tokens : firedIn[r] = generation

(* The one notification of a settled ball is never missed: no request is    *)
(* waited for any more once its ball has settled (useDemoStore.ts:116-124). *)
SettleNotLost == settledRef \cap waiters = {}

(* The counters cover what the tokens show, and "rejected" is exactly the   *)
(* tokens with a refusal, across resets and answers that come after them.   *)
CountersCoverTokens ==
  /\ \A k \in Counted :
       Cardinality(UNION {{<<r, i>> : i \in Shown(tokens[r], k)} : r \in DOMAIN tokens})
         <= counters[k]
  /\ counters["rejected"] =
       Cardinality({r \in DOMAIN tokens : tokens[r].httpStatus \in {"400", "401", "503"}})

(* The tier that a token in retry names, and counts down, is the one in     *)
(* whose box its ball comes to rest: no envelope of lower rank, late or of  *)
(* the next attempt, takes it away or back to 5s (reducer.ts:225-229,       *)
(* reducer.test.ts:126).  A retry that comes after a later one does: the    *)
(* reducer takes the tier of whichever came last (reducer.ts:217-223),      *)
(* while the history is sorted by time; until the next retry in its turn    *)
(* the two disagree.                                                        *)
TierKept ==
  \A r \in DOMAIN tokens \ overtaken :
    tokens[r].currentStage = "retry" =>
      \E i \in Shown(tokens[r], "retry") :
        /\ tokens[r].retryTier = retryTier(tokens[r].stages[i].attempts)
        /\ Last(pathOf(tokens[r])) = nodeOf(tokens[r].stages[i])

(* The ball ends in the box of the token's current stage and never flies    *)
(* over a box of the main row, whichever envelopes were lost or overtaken.  *)
BallRoute ==
  \A r \in DOMAIN tokens :
    LET path == pathOf(tokens[r])
        stages == tokens[r].stages
    IN /\ \E i \in Shown(tokens[r], tokens[r].currentStage) : nodeOf(stages[i]) = Last(path)
       /\ \A i \in 1 .. Len(path) - 1 :
            mainIndex(path[i]) # 0 => mainIndex(path[i + 1]) <= mainIndex(path[i]) + 1

(* A token never goes back to a stage of lower rank: an envelope that was   *)
(* overtaken does not undo what it was overtaken by (reducer.test.ts:87).   *)
RankNeverFalls ==
  [][\A r \in DOMAIN tokens \cap DOMAIN tokens' :
       STAGE_RANK[tokens[r].currentStage] <= STAGE_RANK[tokens'[r].currentStage]]_vars

(* The scenario buttons are enabled again in the end, though the feed may   *)
(* have lost what the script is waiting for.                                *)
ScenarioEnds == Busy ~> ~Busy

(* "Worker-side duration from the first `consuming`" (reducer.ts:261): what *)
(* a later delivery adds to the token does not move the start.              *)
StartIsFirstConsuming ==
  [][\A r \in DOMAIN tokens \cap DOMAIN tokens' :
       \A from \in processingStart(tokens[r]), to \in processingStart(tokens'[r]) :
         Shown(tokens[r], "consuming") # {} => to <= from]_vars
=============================================================================
