-------------------------- MODULE VisualizerProofs --------------------------
(***************************************************************************)
(* The browser, for any scenarios, requests and feed.  Reset and settle    *)
(* rest on correlation ids being fresh: what has a token or has settled    *)
(* was fired by the script at or before its current request.  What is      *)
(* shown rests on TokenProofs: every token is one that Token's operators   *)
(* can make.  The counters count attempts, each of which a token shows     *)
(* once.                                                                   *)
(***************************************************************************)
EXTENDS Visualizer, TokenProofs, FiniteSetTheorems, FunctionTheorems,
        TLAPS

ScriptInv ==
  /\ nextRun \in Nat \ {0} /\ nextRun <= MaxRuns + 1
  /\ script.current \in Nat /\ script.last \in Nat
  /\ Busy => script.current <= script.last /\ script.last + 1 = nextRun

Past ==
  \A r \in DOMAIN tokens \cup settledRef :
    r \in Nat /\ r < nextRun /\ (Busy => r <= script.current)

DemoInv ==
  /\ ScriptInv /\ Past
  /\ DOMAIN firedIn = Runs
  /\ NoStaleRun
  /\ SettleNotLost

\* A fresh token of the running generation, waited for at most.
LEMMA FireKeeps ==
  ASSUME DemoInv, NEW r \in Nat, NEW scenario, NEW last \in Nat,
         r <= last, last <= MaxRuns, 1 <= r, last + 1 = nextRun', nextRun \in Nat,
         nextRun <= nextRun',
         \A x \in DOMAIN tokens \cup settledRef : x < r,
         Fire(r, scenario, last, generation),
         settledRef' = settledRef, generation' = generation
  PROVE  DemoInv'
<1> USE TelemetryAssumption
<1>1. /\ DOMAIN tokens' = DOMAIN tokens \cup {r}
      /\ script' = Scripted("fetch", generation, r, last)
      /\ firedIn' = [firedIn EXCEPT ![r] = generation]
      /\ waiters' \subseteq waiters \cup {r}
  BY DEF Fire, WithToken
<1>2. script'.phase = "fetch" /\ script'.current = r /\ script'.last = last
  BY <1>1 DEF Scripted
<1>3. ScriptInv'
  BY <1>2 DEF ScriptInv, DemoInv
<1>4. Past'
  BY <1>1, <1>2 DEF Past, DemoInv
<1>5. NoStaleRun' /\ DOMAIN firedIn' = Runs
  <2>1. r \in Runs
    BY DEF Runs
  <2> QED
    BY <1>1, <2>1 DEF NoStaleRun, DemoInv
<1>6. SettleNotLost'
  BY <1>1 DEF SettleNotLost, DemoInv
<1> QED
  BY <1>3, <1>4, <1>5, <1>6 DEF DemoInv

\* The script goes on as it was, ends, or has its answer.
ScriptSettles ==
  \/ script' = script
  \/ script' = NoScript
  \/ Busy /\ script' = Scripted("settle", script.gen, script.current, script.last)

\* A step that starts no script and no token.
LEMMA QuietKeeps ==
  ASSUME DemoInv, nextRun' = nextRun, firedIn' = firedIn, generation' = generation,
         DOMAIN tokens' \subseteq DOMAIN tokens,
         settledRef' \subseteq settledRef \cup DOMAIN tokens,
         SettleNotLost',
         ScriptSettles
  PROVE  DemoInv'
<1>1. CASE script' = script
  BY <1>1 DEF DemoInv, ScriptInv, Past, NoStaleRun, Busy
<1>2. CASE script' = NoScript
  <2>1. script'.phase = "idle" /\ script'.current = 0 /\ script'.last = 0
    BY <1>2 DEF NoScript, Scripted
  <2> QED
    BY <2>1 DEF DemoInv, ScriptInv, Past, NoStaleRun, Busy
<1>3. CASE Busy /\ script' = Scripted("settle", script.gen, script.current, script.last)
  <2>1. Busy /\ script'.current = script.current /\ script'.last = script.last
    BY <1>3 DEF Scripted
  <2> QED
    BY <2>1 DEF DemoInv, ScriptInv, Past, NoStaleRun
<1> QED
  BY <1>1, <1>2, <1>3 DEF ScriptSettles

LEMMA SameKeeps ==
  ASSUME DemoInv, nextRun' = nextRun, firedIn' = firedIn, generation' = generation,
         DOMAIN tokens' \subseteq DOMAIN tokens, settledRef' = settledRef,
         waiters' \subseteq waiters,
         ScriptSettles
  PROVE  DemoInv'
<1>1. SettleNotLost'
  BY DEF SettleNotLost, DemoInv
<1> QED
  BY <1>1, QuietKeeps

LEMMA RunKeeps ==
  ASSUME DemoInv, NEW scenario \in ScenarioIds, runScenario(scenario)
  PROVE  DemoInv'
<1>1. requests(scenario) \in {1, 2}
  BY DEF requests
<1>2. /\ Fire(nextRun, scenario, nextRun + requests(scenario) - 1, generation)
      /\ nextRun' = nextRun + requests(scenario)
      /\ nextRun + requests(scenario) <= MaxRuns + 1
      /\ settledRef' = settledRef /\ generation' = generation
  BY DEF runScenario
<1>3. nextRun \in Nat \ {0} /\ \A x \in DOMAIN tokens \cup settledRef : x < nextRun
  BY DEF DemoInv, ScriptInv, Past
<1> DEFINE last == nextRun + requests(scenario) - 1
<1>4. last \in Nat /\ nextRun <= last /\ last <= MaxRuns /\ last + 1 = nextRun'
      /\ 1 <= nextRun /\ nextRun <= nextRun'
  BY <1>1, <1>2, <1>3, TelemetryAssumption
<1> HIDE DEF last
<1> QED
  BY <1>2, <1>3, <1>4, FireKeeps DEF last

LEMMA ResumeKeeps == DemoInv /\ Resume => DemoInv'
<1> SUFFICES ASSUME DemoInv, Resume PROVE DemoInv'
  OBVIOUS
<1>1. Busy /\ settledRef' = settledRef /\ generation' = generation /\ nextRun' = nextRun
  BY DEF Resume, Resumable, Busy
<1>2. CASE script' = NoScript /\ UNCHANGED <<serverVars, tokens, waiters, firedIn>>
  <2>1. DOMAIN tokens' \subseteq DOMAIN tokens /\ waiters' \subseteq waiters /\ firedIn' = firedIn
    BY <1>2
  <2>2. ScriptSettles
    BY <1>2 DEF ScriptSettles
  <2> QED
    BY <1>1, <2>1, <2>2, SameKeeps
<1>3. CASE /\ script.current # script.last /\ script.gen = generation
           /\ Fire(script.current + 1, kind[script.current], script.last, script.gen)
  <2>1. /\ script.current \in Nat /\ script.last \in Nat
        /\ script.current + 1 <= script.last /\ script.last + 1 = nextRun
        /\ nextRun \in Nat /\ nextRun <= MaxRuns + 1
    BY <1>1, <1>3 DEF DemoInv, ScriptInv
  <2>2. \A x \in DOMAIN tokens \cup settledRef : x \in Nat /\ x < script.current + 1
    BY <1>1, <2>1 DEF DemoInv, Past
  <2>3. script.last <= MaxRuns
    BY <2>1, TelemetryAssumption
  <2>4. Fire(script.current + 1, kind[script.current], script.last, generation)
    BY <1>3
  <2> QED
    BY <1>1, <2>1, <2>2, <2>3, <2>4, FireKeeps
<1> QED
  BY <1>2, <1>3 DEF Resume

\* Of the browser's other tasks a settled ball is the only one that has
\* anything to tell a waiter, and it does.
LEMMA TasksKeep ==
  ASSUME DemoInv, NEW r \in Runs, HttpResult(r) \/ SettleTimeout(r) \/ Settle(r)
  PROVE  DemoInv'
<1>1. CASE HttpResult(r)
  <2>1. DOMAIN tokens' \subseteq DOMAIN tokens
    BY <1>1 DEF HttpResult, http_result, WithToken
  <2>2. /\ nextRun' = nextRun /\ firedIn' = firedIn /\ generation' = generation
        /\ settledRef' = settledRef /\ waiters' \subseteq waiters /\ ScriptSettles
    BY <1>1 DEF HttpResult, Busy, ScriptSettles
  <2> QED
    BY <2>1, <2>2, SameKeeps
<1>2. CASE SettleTimeout(r)
  <2>1. /\ nextRun' = nextRun /\ firedIn' = firedIn /\ generation' = generation
        /\ tokens' = tokens /\ settledRef' = settledRef /\ ScriptSettles
        /\ waiters' \subseteq waiters
    BY <1>2 DEF SettleTimeout, ScriptSettles
  <2>2. DOMAIN tokens' \subseteq DOMAIN tokens
    BY <2>1
  <2> QED
    BY <2>1, <2>2, SameKeeps
<1>3. CASE Settle(r)
  <2>1. /\ nextRun' = nextRun /\ firedIn' = firedIn /\ generation' = generation
        /\ tokens' = tokens /\ ScriptSettles
        /\ r \in DOMAIN tokens /\ settledRef' = settledRef \cup {r} /\ waiters' = waiters \ {r}
    BY <1>3 DEF Settle, ScriptSettles
  <2>2. SettleNotLost'
    BY <2>1 DEF SettleNotLost, DemoInv
  <2>3. DOMAIN tokens' \subseteq DOMAIN tokens /\ settledRef' \subseteq settledRef \cup DOMAIN tokens
    BY <2>1
  <2> QED
    BY <2>1, <2>2, <2>3, QuietKeeps
<1> QED
  BY <1>1, <1>2, <1>3

LEMMA DeliverKeeps ==
  ASSUME DemoInv, NEW envelope, Deliver(envelope)
  PROVE  DemoInv'
<1>1. DOMAIN tokens' \subseteq DOMAIN tokens
  BY DEF Deliver, onEnvelope, WithToken
<1>2. /\ nextRun' = nextRun /\ firedIn' = firedIn /\ generation' = generation
      /\ settledRef' = settledRef /\ waiters' \subseteq waiters /\ ScriptSettles
  BY DEF Deliver, ScriptSettles
<1> QED
  BY <1>1, <1>2, SameKeeps

LEMMA ResetKeeps == DemoInv /\ reset => DemoInv'
<1> SUFFICES ASSUME DemoInv, reset PROVE DemoInv'
  OBVIOUS
<1>1. /\ DOMAIN tokens' = {} /\ waiters' = {} /\ settledRef' = settledRef
      /\ script' = script /\ nextRun' = nextRun /\ firedIn' = firedIn
  BY DEF reset, NoTokens
<1> QED
  BY <1>1 DEF DemoInv, ScriptInv, Past, NoStaleRun, SettleNotLost, Busy

LEMMA DemoNext == DemoInv /\ [Next]_vars => DemoInv'
<1> SUFFICES ASSUME DemoInv, [Next]_vars PROVE DemoInv'
  OBVIOUS
<1>1. CASE UNCHANGED browserVars
  <2>1. /\ nextRun' = nextRun /\ firedIn' = firedIn /\ generation' = generation
        /\ tokens' = tokens /\ settledRef' = settledRef /\ waiters' = waiters /\ ScriptSettles
    BY <1>1 DEF browserVars, ScriptSettles
  <2>2. DOMAIN tokens' \subseteq DOMAIN tokens /\ waiters' \subseteq waiters
    BY <2>1
  <2> QED
    BY <2>1, <2>2, SameKeeps
<1>2. CASE BrowserTask
  BY <1>2, RunKeeps, TasksKeep, DeliverKeeps, ResetKeeps DEF BrowserTask
<1>3. CASE Resume
  BY <1>3, ResumeKeeps
<1> QED
  BY <1>1, <1>2, <1>3 DEF Next, vars

LEMMA InitIsDemo == Init => DemoInv
<1> SUFFICES ASSUME Init PROVE DemoInv
  OBVIOUS
<1>1. /\ DOMAIN tokens = {} /\ settledRef = {} /\ waiters = {} /\ nextRun = 1
      /\ DOMAIN firedIn = Runs
  BY DEF Init, NoTokens
<1>2. script.phase = "idle" /\ script.current = 0 /\ script.last = 0
  BY DEF Init, NoScript, Scripted
<1> QED
  BY <1>1, <1>2, TelemetryAssumption
  DEF DemoInv, ScriptInv, Past, NoStaleRun, SettleNotLost, Busy

LEMMA DemoInvariant == Spec => []DemoInv
  BY InitIsDemo, DemoNext, PTL DEF Spec

\* No token is shown that a script of before the reset has fired.
THEOREM ResetEndsScripts == Spec => []NoStaleRun
<1>1. DemoInv => NoStaleRun
  BY DEF DemoInv
<1> QED
  BY <1>1, DemoInvariant, PTL

\* Nobody waits for a ball that has settled already.
THEOREM SettleIsHeard == Spec => []SettleNotLost
<1>1. DemoInv => SettleNotLost
  BY DEF DemoInv
<1> QED
  BY <1>1, DemoInvariant, PTL

-----------------------------------------------------------------------------
(* Shapes: the server's, and the tokens', which never fall in rank.         *)

RowStatuses == {"received", "processing", "processed", "failed", "dead"}
Rows == [status : RowStatuses, attempts : Nat]
Lodgings == [place : Places, tries : Nat]

ServerTyped ==
  /\ kind \in [Runs -> ScenarioIds] /\ event \in [Runs -> Runs]
  /\ at \in [Runs \X Copies -> Lodgings] /\ answer \in [Runs -> Statuses]
  /\ row \in [Runs -> Rows] /\ clock \in [Runs -> Nat]
  /\ feed \in SUBSET Envelopes

\* The first copy, and one that goes somewhere.
LEMMA Moves ==
  /\ 1 \in Copies
  /\ \A r \in Runs, c \in Copies, place \in Places :
       at \in [Runs \X Copies -> Lodgings] /\ Goes(r, c, place)
         => at' \in [Runs \X Copies -> Lodgings]
<1>1. 1 \in Copies
  BY TelemetryAssumption DEF Copies
<1>2. ASSUME NEW r \in Runs, NEW c \in Copies, NEW place \in Places,
             at \in [Runs \X Copies -> Lodgings], Goes(r, c, place)
      PROVE  at' \in [Runs \X Copies -> Lodgings]
  <2>1. [place |-> place, tries |-> 0] \in Lodgings
    BY DEF Lodgings
  <2>2. at' = [at EXCEPT ![<<r, c>>] = [place |-> place, tries |-> 0]]
    BY <1>2 DEF Goes
  <2> QED
    BY <1>2, <2>1, <2>2
<1> QED
  BY <1>1, <1>2

LEMMA EmittedStages ==
  ASSUME NEW stage \in {"consuming", "processing_decision", "processed", "duplicate",
                        "retry", "dead"}
  PROVE  /\ <<stage>> \in Seq(WORKER_STAGES)
         /\ <<stage, "processing_decision">> \in Seq(WORKER_STAGES)
<1>1. stage \in WORKER_STAGES /\ "processing_decision" \in WORKER_STAGES
  BY DEF WORKER_STAGES, WORKER_TERMINALS
<1> QED
  BY <1>1

\* An emission adds envelopes of the worker's stages.
LEMMA EmitTyped ==
  ASSUME ServerTyped, NEW r \in Runs, NEW stages \in Seq(WORKER_STAGES), NEW attempts \in Nat,
         Emit(r, stages, attempts)
  PROVE  feed' \in SUBSET Envelopes /\ clock' \in [Runs -> Nat]
<1>1. /\ feed' = feed \cup {[run |-> r, stage |-> stages[i], attempts |-> attempts,
                             ts |-> clock[r] + i] : i \in DOMAIN stages}
      /\ clock' = [clock EXCEPT ![r] = @ + Len(stages)]
  BY Zenon DEF Emit
<1>2. Len(stages) \in Nat /\ \A i \in DOMAIN stages : i \in Nat /\ stages[i] \in WORKER_STAGES
  OBVIOUS
<1> QED
  BY <1>1, <1>2 DEF ServerTyped, Envelopes

LEMMA ServerKeeps == ServerTyped /\ ServerStep => ServerTyped'
<1> SUFFICES ASSUME ServerTyped, ServerStep PROVE ServerTyped'
  OBVIOUS
<1>1. ASSUME NEW r \in Runs, NEW status \in Statuses, NEW place \in Places, Serve(r, status, place)
      PROVE  ServerTyped'
  <2>1. at' \in [Runs \X Copies -> Lodgings]
    BY <1>1, Moves DEF Serve, ServerTyped
  <2> QED
    BY <1>1, <2>1 DEF Serve, ServerTyped
<1>2. ASSUME NEW r \in Runs, ServeRefused(r) \/ ServeAccepted(r) \/ ServeUnconfirmed(r)
      PROVE  ServerTyped'
  BY <1>1, <1>2 DEF ServeRefused, ServeAccepted, ServeUnconfirmed, Refusal, Statuses, Places
<1>3. ASSUME NEW r \in Runs, NEW c \in Copies, Consume(r, c) \/ ConsumeUnparseable(r, c)
      PROVE  ServerTyped'
  <2>1. PICK stages \in {<<"consuming">>, <<"dead">>}, place \in {"held", "done"} :
          Emit(r, stages, 0) /\ Goes(r, c, place)
    BY <1>3, Zenon DEF Consume, ConsumeUnparseable
  <2>2. UNCHANGED <<kind, event, answer, row>>
    BY <1>3 DEF Consume, ConsumeUnparseable
  <2>3. stages \in Seq(WORKER_STAGES) /\ place \in Places
    BY EmittedStages DEF Places
  <2>4. feed' \in SUBSET Envelopes /\ clock' \in [Runs -> Nat]
    BY <2>1, <2>3, EmitTyped
  <2>5. at' \in [Runs \X Copies -> Lodgings]
    BY <2>1, <2>3, Moves DEF ServerTyped
  <2> QED
    BY <2>2, <2>4, <2>5 DEF ServerTyped
<1>4. ASSUME NEW r \in Runs, NEW c \in Copies,
             NEW outcome \in {"processed", "duplicate", "retry", "dead"},
             NEW attempts \in Nat, NEW status \in RowStatuses,
             NEW place \in Places, Decide(r, c, outcome, attempts, status, place)
      PROVE  ServerTyped'
  <2> DEFINE stages == IF outcome = "dead" THEN <<"processing_decision">>
                       ELSE <<outcome, "processing_decision">>
             lodging == [place |-> place, tries |-> IF place = "condemned" THEN attempts ELSE 0]
  <2>1. stages \in Seq(WORKER_STAGES)
    BY EmittedStages
  <2>2. /\ Emit(r, stages, attempts) /\ UNCHANGED <<kind, event, answer>>
        /\ row' = [row EXCEPT ![event[r]] = [status |-> status, attempts |-> attempts]]
        /\ at' = [at EXCEPT ![<<r, c>>] = lodging]
    BY <1>4, Zenon DEF Decide
  <2>3. lodging \in Lodgings
    BY DEF Lodgings
  <2> HIDE DEF stages, lodging
  <2>4. feed' \in SUBSET Envelopes /\ clock' \in [Runs -> Nat]
    BY <2>1, <2>2, EmitTyped
  <2>5. event[r] \in Runs /\ [status |-> status, attempts |-> attempts] \in Rows
    BY DEF ServerTyped, Rows
  <2>6. row' \in [Runs -> Rows]
    BY <2>2, <2>5 DEF ServerTyped
  <2>7. at' \in [Runs \X Copies -> Lodgings]
    BY <2>2, <2>3 DEF ServerTyped
  <2> QED
    BY <2>2, <2>4, <2>6, <2>7 DEF ServerTyped
<1>5. \A r \in Runs : row[event[r]].attempts \in Nat /\ row[event[r]].status \in RowStatuses
  BY DEF ServerTyped, Rows
<1>6. ASSUME NEW r \in Runs, NEW c \in Copies, DecideSettled(r, c) PROVE ServerTyped'
  <2>1. "dead" \in RowStatuses /\ "done" \in Places /\ "condemned" \in Places
    BY DEF RowStatuses, Places
  <2> QED
    BY <1>4, <1>5, <1>6, <2>1 DEF DecideSettled
<1>7. ASSUME NEW r \in Runs, NEW c \in Copies, Attempt(r, c) PROVE ServerTyped'
  <2> DEFINE attempt == row[event[r]].attempts + 1
  <2>1. PICK outcome \in Verdicts(kind[r], attempt) :
          Decide(r, c, outcome, attempt,
                 [processed |-> "processed", retry |-> "processing", dead |-> "failed"][outcome],
                 [processed |-> "done", retry |-> "tier", dead |-> "condemned"][outcome])
    BY <1>7 DEF Attempt
  <2>2. outcome \in {"processed", "retry", "dead"}
    BY DEF Verdicts
  <2>3. attempt \in Nat
    BY <1>5
  <2> HIDE DEF attempt
  <2>4. [processed |-> "processed", retry |-> "processing", dead |-> "failed"][outcome]
          \in RowStatuses
    BY <2>2 DEF RowStatuses
  <2>5. [processed |-> "done", retry |-> "tier", dead |-> "condemned"][outcome] \in Places
    BY <2>2 DEF Places
  <2> QED
    BY <1>4, <2>1, <2>2, <2>3, <2>4, <2>5
<1>8. ASSUME NEW r \in Runs, NEW c \in Copies, TierExpires(r, c) \/ Redeliver(r, c)
      PROVE  ServerTyped'
  <2>1. \E d \in Copies : Goes(r, d, "queued")
    BY <1>8 DEF TierExpires, Redeliver
  <2>2. at' \in [Runs \X Copies -> Lodgings]
    BY <2>1, Moves DEF ServerTyped, Places
  <2> QED
    BY <1>8, <2>2 DEF TierExpires, Redeliver, ServerTyped
<1>9. ASSUME NEW r \in Runs, NEW c \in Copies, PublishDead(r, c) PROVE ServerTyped'
  <2>1. /\ Emit(r, <<"dead">>, at[r, c].tries) /\ Goes(r, c, "dead")
        /\ UNCHANGED <<kind, event, answer, row>>
    BY <1>9, Zenon DEF PublishDead
  <2>2. <<"dead">> \in Seq(WORKER_STAGES) /\ "dead" \in Places
    BY EmittedStages DEF Places
  <2>3. at[r, c].tries \in Nat
    BY DEF ServerTyped, Lodgings
  <2>4. feed' \in SUBSET Envelopes /\ clock' \in [Runs -> Nat]
    BY <2>1, <2>2, <2>3, EmitTyped
  <2>5. at' \in [Runs \X Copies -> Lodgings]
    BY <2>1, <2>2, Moves DEF ServerTyped
  <2> QED
    BY <2>1, <2>4, <2>5 DEF ServerTyped
<1>10. ASSUME NEW r \in Runs, NEW c \in Copies, Replay(r, c) PROVE ServerTyped'
  <2>1. NewRow \in Rows
    BY DEF NewRow, Rows, RowStatuses
  <2>2. at' \in [Runs \X Copies -> Lodgings]
    BY <1>10, Moves DEF Replay, ServerTyped, Places
  <2> QED
    BY <1>10, <2>1, <2>2 DEF Replay, ServerTyped
<1>11. ASSUME NEW envelope, Lose(envelope) PROVE ServerTyped'
  BY <1>11 DEF Lose, ServerTyped
<1> QED
  BY <1>2, <1>3, <1>6, <1>7, <1>8, <1>9, <1>10, <1>11, Zenon DEF ServerStep

LEMMA ServerKind == ServerStep => kind' = kind
<1>1. ASSUME NEW r \in Runs, ServeRefused(r) \/ ServeAccepted(r) \/ ServeUnconfirmed(r)
      PROVE  kind' = kind
  BY <1>1 DEF ServeRefused, ServeAccepted, ServeUnconfirmed, Serve
<1>2. ASSUME NEW r \in Runs, NEW c \in Copies, DecideSettled(r, c) \/ Attempt(r, c)
      PROVE  kind' = kind
  BY <1>2 DEF DecideSettled, Attempt, Decide
<1>3. ASSUME NEW r \in Runs, NEW c \in Copies,
             \/ Consume(r, c) \/ ConsumeUnparseable(r, c) \/ TierExpires(r, c)
             \/ PublishDead(r, c) \/ Redeliver(r, c) \/ Replay(r, c)
      PROVE  kind' = kind
  BY <1>3 DEF Consume, ConsumeUnparseable, TierExpires, PublishDead, Redeliver, Replay
<1>4. ASSUME NEW envelope, Lose(envelope) PROVE kind' = kind
  BY <1>4 DEF Lose
<1> QED
  BY <1>1, <1>2, <1>3, <1>4 DEF ServerStep

\* A request still to fire is the second of a duplicate.
ScriptTyped ==
  /\ generation \in Nat /\ script.gen \in Nat
  /\ Busy => script.current \in Runs /\ script.last \in Runs
  /\ Busy /\ script.current # script.last =>
       script.last = script.current + 1 /\ kind[script.current] = "duplicate"

BrowserTyped ==
  /\ firedIn \in [Runs -> Nat]
  /\ waiters \subseteq DOMAIN tokens /\ settledRef \subseteq Runs /\ overtaken \subseteq Runs
  /\ DOMAIN tokens \subseteq Runs
  /\ \A r \in DOMAIN tokens : TokenOK(tokens[r])

Typed == ServerTyped /\ ScriptTyped /\ BrowserTyped

\* What a step may make of the tokens.
TokensGo ==
  \A r \in DOMAIN tokens' :
    TokenOK(tokens'[r]) /\ (r \in DOMAIN tokens => RankKept(tokens[r], tokens'[r]))

LEMMA RankStays ==
  ASSUME NEW token, TokenOK(token)
  PROVE  RankKept(token, token)
<1>1. token.currentStage \in Stages
  BY DEF TokenOK, HasStages, Tokens
<1>2. STAGE_RANK[token.currentStage] \in Nat
  BY <1>1, Ranks
<1> QED
  BY <1>2 DEF RankKept

LEMMA SameTokensGo == Typed /\ tokens' = tokens => TokensGo
  BY RankStays DEF Typed, BrowserTyped, TokensGo

\* One token more, or another.
LEMMA WithTokenGoes ==
  ASSUME Typed, NEW r, NEW token, TokenOK(token), tokens' = WithToken(r, token),
         r \in DOMAIN tokens => RankKept(tokens[r], token)
  PROVE  TokensGo /\ DOMAIN tokens' = DOMAIN tokens \cup {r}
<1>1. DOMAIN tokens' = DOMAIN tokens \cup {r}
  BY DEF WithToken
<1>2. \A x \in DOMAIN tokens' : tokens'[x] = IF x = r THEN token ELSE tokens[x]
  BY DEF WithToken
<1> QED
  BY <1>1, <1>2, RankStays DEF Typed, BrowserTyped, TokensGo

LEMMA FireTyped ==
  ASSUME Typed, NEW r \in Runs, r \notin DOMAIN tokens, NEW scenario \in ScenarioIds,
         NEW last \in Runs, last + 1 - requests(scenario) \in Runs,
         r # last => last = r + 1 /\ scenario = "duplicate",
         Fire(r, scenario, last, generation), settledRef' = settledRef, generation' = generation,
         overtaken' = overtaken
  PROVE  Typed' /\ TokensGo
<1>1. /\ Posted(r, scenario, last + 1 - requests(scenario))
      /\ tokens' = WithToken(r, NewToken(IF inject(scenario) THEN "injected" ELSE "received", 0))
      /\ waiters' \subseteq waiters \cup {r}
      /\ script' = Scripted("fetch", generation, r, last)
      /\ firedIn' = [firedIn EXCEPT ![r] = generation]
  BY DEF Fire
<1>2. ServerTyped' /\ kind'[r] = scenario
  <2>1. at' \in [Runs \X Copies -> Lodgings]
    BY <1>1, Moves DEF Posted, Typed, ServerTyped, Places
  <2> QED
    BY <1>1, <2>1 DEF Posted, Typed, ServerTyped
<1>3. /\ script'.phase = "fetch" /\ script'.gen = generation /\ script'.current = r
      /\ script'.last = last
  BY <1>1 DEF Scripted
<1>4. ScriptTyped'
  BY <1>2, <1>3 DEF ScriptTyped, Typed
<1>5. TokenOK(NewToken(IF inject(scenario) THEN "injected" ELSE "received", 0))
  <2>1. {"injected", "received"} \subseteq Stages
    BY Ranks
  <2> QED
    BY <2>1, NewTokenOK
<1>6. TokensGo /\ DOMAIN tokens' = DOMAIN tokens \cup {r}
  BY <1>1, <1>5, WithTokenGoes
<1>7. BrowserTyped'
  BY <1>1, <1>6 DEF BrowserTyped, Typed, ScriptTyped, TokensGo
<1> QED
  BY <1>2, <1>4, <1>6, <1>7 DEF Typed

\* A step of the browser that fires nothing.
LEMMA QuietTyped ==
  ASSUME Typed, ServerTyped', kind' = kind, firedIn' = firedIn, generation' \in Nat,
         TokensGo, DOMAIN tokens' \subseteq DOMAIN tokens,
         waiters' \subseteq waiters, waiters' \subseteq DOMAIN tokens',
         settledRef' \subseteq Runs, overtaken' \subseteq Runs, ScriptSettles
  PROVE  Typed'
<1>1. BrowserTyped'
  BY DEF BrowserTyped, Typed, TokensGo
<1>2. ScriptTyped'
  <2>1. CASE script' = script
    BY <2>1 DEF ScriptTyped, Typed, Busy
  <2>2. CASE script' = NoScript
    <3>1. script'.phase = "idle" /\ script'.gen = 0
      BY <2>2 DEF NoScript, Scripted
    <3> QED
      BY <3>1 DEF ScriptTyped, Typed, Busy
  <2>3. CASE Busy /\ script' = Scripted("settle", script.gen, script.current, script.last)
    <3>1. /\ Busy /\ script'.gen = script.gen /\ script'.current = script.current
          /\ script'.last = script.last
      BY <2>3 DEF Scripted
    <3> QED
      BY <3>1 DEF ScriptTyped, Typed
  <2> QED
    BY <2>1, <2>2, <2>3 DEF ScriptSettles
<1> QED
  BY <1>1, <1>2 DEF Typed

LEMMA RunTyped ==
  ASSUME DemoInv, Typed, NEW scenario \in ScenarioIds, runScenario(scenario)
  PROVE  Typed' /\ TokensGo
<1>1. requests(scenario) \in {1, 2} /\ (requests(scenario) = 2 => scenario = "duplicate")
  BY DEF requests
<1>2. /\ Fire(nextRun, scenario, nextRun + requests(scenario) - 1, generation)
      /\ nextRun + requests(scenario) <= MaxRuns + 1
      /\ settledRef' = settledRef /\ generation' = generation /\ overtaken' = overtaken
  BY DEF runScenario
<1>3. nextRun \in Nat \ {0} /\ nextRun \notin DOMAIN tokens
  BY DEF DemoInv, ScriptInv, Past
<1>4. MaxRuns \in Nat
  BY TelemetryAssumption
<1> DEFINE last == nextRun + requests(scenario) - 1
<1>5. nextRun \in Runs /\ last \in Runs
  BY <1>1, <1>2, <1>3, <1>4 DEF Runs
<1>6. last + 1 - requests(scenario) = nextRun /\ (nextRun # last => requests(scenario) = 2)
      /\ (requests(scenario) = 2 => last = nextRun + 1)
  BY <1>1, <1>3
<1>7. Fire(nextRun, scenario, last, generation)
  BY <1>2
<1> HIDE DEF last
<1> QED
  BY <1>1, <1>2, <1>3, <1>5, <1>6, <1>7, FireTyped

LEMMA ResumeTyped == DemoInv /\ Typed /\ Resume => Typed' /\ TokensGo
<1> SUFFICES ASSUME DemoInv, Typed, Resume PROVE Typed' /\ TokensGo
  OBVIOUS
<1>1. /\ Busy /\ settledRef' = settledRef /\ generation' = generation
      /\ generation \in Nat /\ settledRef \subseteq Runs
      /\ overtaken' = overtaken /\ overtaken \subseteq Runs
  BY DEF Resume, Resumable, Busy, Typed, ScriptTyped, BrowserTyped
<1>2. CASE script' = NoScript /\ UNCHANGED <<serverVars, tokens, waiters, firedIn>>
  <2>1. tokens' = tokens /\ waiters' = waiters /\ firedIn' = firedIn /\ kind' = kind
        /\ ScriptSettles /\ TokensGo /\ waiters \subseteq DOMAIN tokens
    BY <1>2, SameTokensGo DEF serverVars, ScriptSettles, Typed, BrowserTyped
  <2>2. ServerTyped'
    BY <1>2 DEF serverVars, ServerTyped, Typed
  <2>3. /\ DOMAIN tokens' \subseteq DOMAIN tokens /\ waiters' \subseteq waiters
        /\ waiters' \subseteq DOMAIN tokens'
    BY <2>1
  <2> QED
    BY <1>1, <2>1, <2>2, <2>3, QuietTyped
<1>3. CASE /\ script.current # script.last /\ script.gen = generation
           /\ Fire(script.current + 1, kind[script.current], script.last, script.gen)
  <2>1. /\ script.current \in Runs /\ script.last \in Runs
        /\ script.last = script.current + 1 /\ kind[script.current] = "duplicate"
    BY <1>1, <1>3 DEF Typed, ScriptTyped
  <2>2. \A x \in DOMAIN tokens : x <= script.current
    BY <1>1 DEF DemoInv, Past
  <2>3. script.current + 1 \notin DOMAIN tokens
    BY <2>1, <2>2 DEF Runs
  <2>4. requests("duplicate") = 2 /\ "duplicate" \in ScenarioIds
    BY DEF requests, ScenarioIds
  <2>5. script.current + 1 \in Runs /\ script.last + 1 - requests("duplicate") \in Runs
    BY <2>1, <2>4 DEF Runs
  <2>6. Fire(script.current + 1, "duplicate", script.last, generation)
    BY <1>3, <2>1
  <2> QED
    BY <1>1, <2>1, <2>3, <2>4, <2>5, <2>6, FireTyped
<1> QED
  BY <1>2, <1>3 DEF Resume

LEMMA HttpTyped ==
  ASSUME Typed, NEW r \in Runs, HttpResult(r)
  PROVE  Typed' /\ TokensGo
<1>1. PICK status \in {answer[r], "0"} \ {"none"} : http_result(r, status)
  BY DEF HttpResult
<1>2. status \in {"0", "202", "400", "401", "503"}
  BY DEF Typed, ServerTyped, Statuses
<1>3. /\ ServerTyped' /\ kind' = kind /\ firedIn' = firedIn /\ generation' = generation
      /\ waiters' = waiters /\ settledRef' = settledRef /\ ScriptSettles
      /\ overtaken' = overtaken
  BY DEF HttpResult, serverVars, Typed, ServerTyped, ScriptSettles, Busy
<1>4. TokensGo /\ DOMAIN tokens' = DOMAIN tokens
  <2>1. CASE r \in DOMAIN tokens
    <3>1. tokens' = WithToken(r, withResult(tokens[r], inject(kind[r]), status, 1))
      BY <1>1, <2>1 DEF http_result
    <3>2. inject(kind[r]) \in BOOLEAN /\ TokenOK(tokens[r])
      BY <2>1 DEF inject, Typed, BrowserTyped
    <3>3. /\ TokenOK(withResult(tokens[r], inject(kind[r]), status, 1))
          /\ RankKept(tokens[r], withResult(tokens[r], inject(kind[r]), status, 1))
      BY <1>2, <3>2, WithResult
    <3> QED
      BY <2>1, <3>1, <3>3, WithTokenGoes
  <2>2. CASE r \notin DOMAIN tokens
    BY <1>1, <2>2, SameTokensGo DEF http_result
  <2> QED
    BY <2>1, <2>2
<1>5. /\ generation' \in Nat /\ settledRef' \subseteq Runs /\ waiters' \subseteq DOMAIN tokens'
      /\ overtaken' \subseteq Runs
      /\ DOMAIN tokens' \subseteq DOMAIN tokens /\ waiters' \subseteq waiters
  BY <1>3, <1>4 DEF Typed, ScriptTyped, BrowserTyped
<1> QED
  BY <1>3, <1>4, <1>5, QuietTyped

LEMMA SettlingTyped ==
  ASSUME Typed, NEW r \in Runs, SettleTimeout(r) \/ Settle(r)
  PROVE  Typed' /\ TokensGo
<1>1. /\ ServerTyped' /\ kind' = kind /\ firedIn' = firedIn /\ generation' = generation
      /\ tokens' = tokens /\ overtaken' = overtaken /\ ScriptSettles
      /\ waiters' = waiters \ {r} /\ settledRef' \subseteq settledRef \cup {r}
  <2>1. CASE SettleTimeout(r)
    BY <2>1 DEF SettleTimeout, serverVars, Typed, ServerTyped, ScriptSettles
  <2>2. CASE Settle(r)
    BY <2>2 DEF Settle, serverVars, Typed, ServerTyped, ScriptSettles
  <2> QED
    BY <2>1, <2>2
<1>2. TokensGo
  BY <1>1, SameTokensGo
<1>3. /\ generation' \in Nat /\ settledRef' \subseteq Runs /\ waiters' \subseteq DOMAIN tokens'
      /\ overtaken' \subseteq Runs
      /\ DOMAIN tokens' \subseteq DOMAIN tokens /\ waiters' \subseteq waiters
  BY <1>1 DEF Typed, ScriptTyped, BrowserTyped
<1> QED
  BY <1>1, <1>2, <1>3, QuietTyped

\* What an envelope adds to a token.
StageOf(envelope) == StageEvent(envelope.stage, envelope.attempts, envelope.ts)

LEMMA EnvelopeStage ==
  ASSUME NEW envelope \in Envelopes
  PROVE  /\ StageOf(envelope) \in Entries /\ envelope.stage \in WORKER_STAGES
         /\ StageOf(envelope).stage = envelope.stage
         /\ StageOf(envelope).attempts = envelope.attempts
<1>1. WORKER_STAGES \subseteq Stages
  BY Ranks DEF WORKER_STAGES, WORKER_TERMINALS
<1> QED
  BY <1>1 DEF Envelopes, StageOf, StageEvent, Entries

LEMMA DeliverTyped ==
  ASSUME Typed, NEW envelope \in feed, Deliver(envelope)
  PROVE  Typed' /\ TokensGo
<1> DEFINE r == envelope.run
<1>1. /\ ServerTyped' /\ kind' = kind /\ firedIn' = firedIn /\ generation' = generation
      /\ waiters' = waiters /\ settledRef' = settledRef /\ ScriptSettles
  BY DEF Deliver, broadcast, Typed, ServerTyped, ScriptSettles
<1>2. envelope \in Envelopes
  BY DEF Typed, ServerTyped
<1>3. TokensGo /\ DOMAIN tokens' = DOMAIN tokens
  <2>1. CASE r \in DOMAIN tokens
    <3>1. tokens' = WithToken(r, withEnvelope(tokens[r], StageOf(envelope)))
      BY <2>1 DEF Deliver, onEnvelope, StageOf
    <3>2. TokenOK(tokens[r])
      BY <2>1 DEF Typed, BrowserTyped
    <3>3. /\ TokenOK(withEnvelope(tokens[r], StageOf(envelope)))
          /\ RankKept(tokens[r], withEnvelope(tokens[r], StageOf(envelope)))
      BY <1>2, <3>2, EnvelopeStage, WithEnvelope
    <3> QED
      BY <2>1, <3>1, <3>3, WithTokenGoes
  <2>2. CASE r \notin DOMAIN tokens
    BY <2>2, SameTokensGo DEF Deliver, onEnvelope
  <2> QED
    BY <2>1, <2>2
<1>4. /\ generation' \in Nat /\ settledRef' \subseteq Runs /\ waiters' \subseteq DOMAIN tokens'
      /\ overtaken' \subseteq Runs
      /\ DOMAIN tokens' \subseteq DOMAIN tokens /\ waiters' \subseteq waiters
  BY <1>1, <1>3 DEF Deliver, Typed, ScriptTyped, BrowserTyped
<1> QED
  BY <1>1, <1>3, <1>4, QuietTyped

LEMMA ResetTyped == Typed /\ reset => Typed' /\ TokensGo
<1> SUFFICES ASSUME Typed, reset PROVE Typed' /\ TokensGo
  OBVIOUS
<1>1. /\ DOMAIN tokens' = {} /\ waiters' = {} /\ settledRef' = settledRef
      /\ script' = script /\ firedIn' = firedIn /\ kind' = kind /\ overtaken' = overtaken
      /\ generation' = generation + 1 /\ ServerTyped'
  BY DEF reset, NoTokens, serverVars, Typed, ServerTyped
<1>2. TokensGo /\ ScriptSettles
  BY <1>1 DEF TokensGo, ScriptSettles
<1>3. /\ generation' \in Nat /\ settledRef' \subseteq Runs /\ waiters' \subseteq DOMAIN tokens'
      /\ overtaken' \subseteq Runs
      /\ DOMAIN tokens' \subseteq DOMAIN tokens /\ waiters' \subseteq waiters
  BY <1>1 DEF Typed, ScriptTyped, BrowserTyped
<1> QED
  BY <1>1, <1>2, <1>3, QuietTyped

LEMMA ServerStepTyped == Typed /\ ServerStep /\ UNCHANGED browserVars => Typed' /\ TokensGo
<1> SUFFICES ASSUME Typed, ServerStep, UNCHANGED browserVars PROVE Typed' /\ TokensGo
  OBVIOUS
<1>1. ServerTyped' /\ kind' = kind
  BY ServerKeeps, ServerKind DEF Typed
<1>2. /\ tokens' = tokens /\ waiters' = waiters /\ settledRef' = settledRef
      /\ firedIn' = firedIn /\ generation' = generation /\ overtaken' = overtaken
      /\ ScriptSettles
  BY DEF browserVars, ScriptSettles
<1>3. /\ generation' \in Nat /\ settledRef' \subseteq Runs /\ waiters' \subseteq DOMAIN tokens'
      /\ overtaken' \subseteq Runs
      /\ DOMAIN tokens' \subseteq DOMAIN tokens /\ waiters' \subseteq waiters
  BY <1>2 DEF Typed, ScriptTyped, BrowserTyped
<1> QED
  BY <1>1, <1>2, <1>3, SameTokensGo, QuietTyped

LEMMA TypedNext == DemoInv /\ Typed /\ [Next]_vars => Typed' /\ TokensGo
<1> SUFFICES ASSUME DemoInv, Typed, [Next]_vars PROVE Typed' /\ TokensGo
  OBVIOUS
<1>1. CASE UNCHANGED vars
  <2>1. UNCHANGED <<kind, event, at, answer, row, clock, feed, tokens, script, waiters,
                    settledRef, generation, firedIn, overtaken>>
    BY <1>1 DEF vars, serverVars, browserVars
  <2> QED
    BY <2>1, SameTokensGo DEF Typed, ServerTyped, ScriptTyped, BrowserTyped, Busy
<1>2. CASE ServerStep /\ UNCHANGED browserVars
  BY <1>2, ServerStepTyped
<1>3. CASE BrowserTask
  BY <1>3, RunTyped, HttpTyped, SettlingTyped, DeliverTyped, ResetTyped DEF BrowserTask
<1>4. CASE Resume
  BY <1>4, ResumeTyped
<1> QED
  BY <1>1, <1>2, <1>3, <1>4 DEF Next

LEMMA InitTyped == Init => Typed
<1> SUFFICES ASSUME Init PROVE Typed
  OBVIOUS
<1>1. ServerTyped
  <2>1. Nowhere \in Lodgings
    BY DEF Nowhere, Lodgings, Places
  <2> QED
    BY <2>1 DEF Init, ServerInit, ServerTyped, ScenarioIds, Statuses, Rows, RowStatuses, NewRow
<1>2. ScriptTyped
  BY DEF Init, NoScript, Scripted, ScriptTyped, Busy
<1>3. BrowserTyped
  BY DEF Init, NoTokens, BrowserTyped
<1> QED
  BY <1>1, <1>2, <1>3 DEF Typed

LEMMA TypedInvariant == Spec => [](DemoInv /\ Typed)
<1>1. DemoInv /\ Typed /\ [Next]_vars => (DemoInv /\ Typed)'
  BY DemoNext, TypedNext
<1> QED
  BY <1>1, InitIsDemo, InitTyped, PTL DEF Spec

\* Shapes; and each token's stages are sorted, each of them once.
THEOREM TypeCorrect == Spec => []TypeOK
<1>1. Typed => TypeOK
  <2> SUFFICES ASSUME Typed PROVE TypeOK
    OBVIOUS
  <2>1. ASSUME NEW r \in DOMAIN tokens
        PROVE  LET stages == tokens[r].stages
               IN /\ \A i \in DOMAIN stages : stages[i] \in Entries
                  /\ \A i, j \in DOMAIN stages :
                       i < j => NotAfter(stages[i], stages[j]) /\ ~SameEntry(stages[i], stages[j])
    <3>1. PICK n \in Nat \ {0} : SortedTo(tokens[r].stages, n)
      BY DEF Typed, BrowserTyped, TokenOK, HasStages
    <3>2. DOMAIN tokens[r].stages = 1 .. n /\ tokens[r].stages \in Seq(Entries)
      BY <3>1 DEF SortedTo
    <3> QED
      BY <3>1, <3>2 DEF SortedTo
  <2>2. \A r \in Runs, c \in Copies : at[r, c].place \in Places
    BY DEF Typed, ServerTyped, Lodgings
  <2> QED
    BY <2>1, <2>2 DEF Typed, ServerTyped, BrowserTyped, TypeOK
<1> QED
  BY <1>1, TypedInvariant, PTL

\* But for a retry that a later one has overtaken, the tier is that of the last
\* of the stages, where the path ends.
TierInv == \A r \in DOMAIN tokens \ overtaken : TierTrue(tokens[r])

LEMMA TierNext == Typed /\ TierInv /\ [Next]_vars => TierInv'
<1> SUFFICES ASSUME Typed, TierInv, [Next]_vars PROVE TierInv'
  OBVIOUS
<1>1. ASSUME tokens' = tokens, overtaken' = overtaken PROVE TierInv'
  BY <1>1 DEF TierInv
<1>2. ASSUME NEW r, NEW token, TierTrue(token), tokens' = WithToken(r, token),
             overtaken' = overtaken
      PROVE  TierInv'
  BY <1>2 DEF WithToken, TierInv
<1>3. ASSUME NEW r, NEW scenario, NEW last, NEW gen, Fire(r, scenario, last, gen),
             overtaken' = overtaken
      PROVE  TierInv'
  <2> DEFINE token == NewToken(IF inject(scenario) THEN "injected" ELSE "received", 0)
  <2>1. token.currentStage # "retry"
    BY DEF NewToken
  <2>2. tokens' = WithToken(r, token)
    BY <1>3 DEF Fire
  <2>3. TierTrue(token)
    BY <2>1 DEF TierTrue
  <2> QED
    BY <1>2, <1>3, <2>2, <2>3
<1>4. ASSUME NEW r \in Runs, HttpResult(r) PROVE TierInv'
  <2>1. PICK status \in {answer[r], "0"} \ {"none"} : http_result(r, status)
    BY <1>4 DEF HttpResult
  <2>2. status \in {"0", "202", "400", "401", "503"}
    BY DEF Typed, ServerTyped, Statuses
  <2>3. overtaken' = overtaken
    BY <1>4 DEF HttpResult
  <2>4. CASE r \in DOMAIN tokens
    <3> DEFINE token == withResult(tokens[r], inject(kind[r]), status, 1)
    <3>1. tokens' = WithToken(r, token)
      BY <2>1, <2>4 DEF http_result
    <3>2. inject(kind[r]) \in BOOLEAN /\ TokenOK(tokens[r])
      BY <2>4 DEF inject, Typed, BrowserTyped
    <3>3. TierTrue(tokens[r]) => TierTrue(token)
      BY <2>2, <3>2, ResultTier
    <3> HIDE DEF token
    <3> QED
      BY <2>3, <2>4, <3>1, <3>3 DEF WithToken, TierInv
  <2>5. CASE r \notin DOMAIN tokens
    BY <1>1, <2>1, <2>3, <2>5 DEF http_result
  <2> QED
    BY <2>4, <2>5
<1>5. ASSUME NEW envelope \in feed, Deliver(envelope) PROVE TierInv'
  <2> DEFINE r == envelope.run
             shown == StageOf(envelope)
             token == withEnvelope(tokens[r], shown)
  <2>1. /\ shown \in Entries /\ shown.stage = envelope.stage
        /\ shown.attempts = envelope.attempts /\ shown.ts = envelope.ts
    <3>1. envelope \in Envelopes
      BY DEF Typed, ServerTyped
    <3> QED
      BY <3>1, EnvelopeStage DEF StageOf, StageEvent
  <2>2. CASE r \notin DOMAIN tokens
    BY <1>1, <1>5, <2>2 DEF Deliver, onEnvelope
  <2>3. CASE r \in DOMAIN tokens
    <3>1. tokens' = WithToken(r, token) /\ TokenOK(tokens[r])
      BY <1>5, <2>3 DEF Deliver, onEnvelope, StageOf, Typed, BrowserTyped
    <3>2. overtaken' = IF envelope.stage # "retry" THEN overtaken
                       ELSE IF IsOvertaken(tokens[r], envelope)
                            THEN overtaken \cup {r} ELSE overtaken \ {r}
      BY <1>5, <2>3 DEF Deliver
    <3>3. r \notin overtaken' => TierTrue(token)
      <4> SUFFICES ASSUME r \notin overtaken' PROVE TierTrue(token)
        OBVIOUS
      <4>1. shown.stage # "retry" => TierTrue(tokens[r])
        BY <2>1, <2>3, <3>2 DEF TierInv
      <4>2. shown.stage = "retry" =>
              \A i \in Shown(tokens[r], "retry") :
                \/ tokens[r].stages[i].attempts = shown.attempts
                \/ ~(tokens[r].stages[i].ts > shown.ts)
        BY <2>1, <3>2 DEF IsOvertaken
      <4> HIDE DEF shown
      <4> QED
        BY <2>1, <3>1, <4>1, <4>2, EnvelopeTier
    <3> HIDE DEF token, shown
    <3>4. \A x \in DOMAIN tokens : x # r => (x \in overtaken' <=> x \in overtaken)
      BY <3>2
    <3> QED
      BY <2>3, <3>1, <3>3, <3>4 DEF WithToken, TierInv
  <2> QED
    BY <2>2, <2>3
<1>6. CASE reset
  <2>1. DOMAIN tokens' = {}
    BY <1>6 DEF reset, NoTokens
  <2> QED
    BY <2>1 DEF TierInv
<1>7. CASE UNCHANGED browserVars
  BY <1>1, <1>7 DEF browserVars
<1>8. ASSUME NEW scenario, runScenario(scenario) PROVE TierInv'
  BY <1>3, <1>8 DEF runScenario
<1>9. CASE Resume
  BY <1>1, <1>3, <1>9 DEF Resume
<1>10. ASSUME NEW r, SettleTimeout(r) \/ Settle(r) PROVE TierInv'
  BY <1>1, <1>10 DEF SettleTimeout, Settle
<1> QED
  BY <1>4, <1>5, <1>6, <1>7, <1>8, <1>9, <1>10 DEF Next, BrowserTask, vars

\* The tier that a token in retry names is the one in whose box its ball comes
\* to rest, until a retry comes that a later one has overtaken.
THEOREM TierIsWhereTheBallRests == Spec => []TierKept
<1>1. Init => TierInv
  BY DEF Init, NoTokens, TierInv
<1>2. Typed /\ TierInv => TierKept
  <2> SUFFICES ASSUME Typed, TierInv, NEW r \in DOMAIN tokens \ overtaken,
                      tokens[r].currentStage = "retry"
               PROVE  \E i \in Shown(tokens[r], "retry") :
                        /\ tokens[r].retryTier = retryTier(tokens[r].stages[i].attempts)
                        /\ Last(pathOf(tokens[r])) = nodeOf(tokens[r].stages[i])
    BY DEF TierKept
  <2>1. PICK n \in Nat \ {0} : HasStages(tokens[r], n)
    BY DEF Typed, BrowserTyped, TokenOK
  <2> DEFINE path == pathOf(tokens[r])
             stages == tokens[r].stages
  <2>2. PICK l \in Nat \ {0} : Reaches(path, l, nodeOf(stages[n]))
    BY <2>1, PathReaches
  <2>3. n \in Shown(tokens[r], "retry") /\ Len(stages) = n
    BY <2>1 DEF HasStages, SortedTo, Shown
  <2> HIDE DEF path
  <2>4. Last(path) = nodeOf(stages[n])
    BY <2>2 DEF Reaches, Last
  <2>5. tokens[r].retryTier = retryTier(stages[n].attempts)
    BY <2>3 DEF TierInv, TierTrue
  <2> QED
    BY <2>3, <2>4, <2>5 DEF path
<1>3. DemoInv /\ Typed /\ TierInv /\ [Next]_vars => TierInv'
  BY TierNext
<1> QED
  BY <1>1, <1>2, <1>3, TypedInvariant, PTL DEF Spec

\* The ball ends in the box of its token's current stage, and flies over none
\* of the main row.
THEOREM BallFliesOverNothing == Spec => []BallRoute
<1>1. Typed => BallRoute
  <2> SUFFICES ASSUME Typed, NEW r \in DOMAIN tokens
               PROVE  LET path == pathOf(tokens[r])
                          stages == tokens[r].stages
                      IN /\ \E i \in Shown(tokens[r], tokens[r].currentStage) :
                              nodeOf(stages[i]) = Last(path)
                         /\ \A i \in 1 .. Len(path) - 1 :
                              mainIndex(path[i]) # 0
                                => mainIndex(path[i + 1]) <= mainIndex(path[i]) + 1
    BY DEF BallRoute
  <2>1. PICK n \in Nat \ {0} : HasStages(tokens[r], n)
    BY DEF Typed, BrowserTyped, TokenOK
  <2> DEFINE path == pathOf(tokens[r])
             stages == tokens[r].stages
  <2>2. PICK l \in Nat \ {0} : Reaches(path, l, nodeOf(stages[n]))
    BY <2>1, PathReaches
  <2>3. n \in Shown(tokens[r], tokens[r].currentStage)
    BY <2>1 DEF HasStages, SortedTo, Shown
  <2> HIDE DEF path
  <2>4. Len(path) = l /\ Last(path) = nodeOf(stages[n])
    BY <2>2 DEF Reaches, Last
  <2>5. NoFlight(path, l)
    BY <2>2 DEF Reaches
  <2> QED
    BY <2>3, <2>4, <2>5 DEF path, NoFlight
<1> QED
  BY <1>1, TypedInvariant, PTL

\* A token never goes back to a stage of lower rank.
THEOREM RanksOnlyRise == Spec => RankNeverFalls
<1>1. DemoInv /\ Typed /\ [Next]_vars =>
        [\A r \in DOMAIN tokens \cap DOMAIN tokens' :
           STAGE_RANK[tokens[r].currentStage] <= STAGE_RANK[tokens'[r].currentStage]]_vars
  BY TypedNext DEF TokensGo, RankKept
<1> QED
  BY <1>1, TypedInvariant, PTL DEF Spec, RankNeverFalls

-----------------------------------------------------------------------------
(* The counters.  What the tokens show of a stage counts by its attempts,   *)
(* each shown once, and not by where in its token it is, which changes.     *)

Shows(k) == UNION {{<<r, a>> : a \in Attempts(tokens[r], k)} : r \in DOMAIN tokens}
Refused == {r \in DOMAIN tokens : tokens[r].httpStatus \in {"400", "401", "503"}}

\* The token of the request under way has no answer yet, so it is refused once.
Unanswered ==
  script.phase = "fetch" /\ script.current \in DOMAIN tokens
    => tokens[script.current].httpStatus = NoStatus

CountInv ==
  /\ counters \in [Counted \cup {"rejected"} -> Nat]
  /\ \A k \in Counted : IsFiniteSet(Shows(k)) /\ Cardinality(Shows(k)) <= counters[k]
  /\ counters["rejected"] = Cardinality(Refused)
  /\ Unanswered

LEMMA InShows ==
  ASSUME NEW k, NEW p
  PROVE  p \in Shows(k) <=> \E r \in DOMAIN tokens : \E a \in Attempts(tokens[r], k) : p = <<r, a>>
BY DEF Shows

LEMMA CountedStages == Counted \subseteq WORKER_STAGES /\ WORKER_STAGES \subseteq Stages
                       /\ "rejected" \notin Counted
BY Ranks DEF Counted, WORKER_STAGES, WORKER_TERMINALS

\* The tokens show nothing more, and no refusal comes or goes.
LEMMA SameCounts ==
  ASSUME CountInv, counters' = counters,
         \A k \in Counted : Shows(k)' \subseteq Shows(k), Refused' = Refused, Unanswered'
  PROVE  CountInv'
<1>1. ASSUME NEW k \in Counted
      PROVE  IsFiniteSet(Shows(k)') /\ Cardinality(Shows(k)') <= counters'[k]
  <2>1. IsFiniteSet(Shows(k)) /\ Cardinality(Shows(k)) <= counters[k] /\ counters[k] \in Nat
    BY DEF CountInv
  <2>2. IsFiniteSet(Shows(k)') /\ Cardinality(Shows(k)') <= Cardinality(Shows(k))
    BY <2>1, FS_Subset
  <2>3. Cardinality(Shows(k)') \in Nat /\ Cardinality(Shows(k)) \in Nat
    BY <2>1, <2>2, FS_CardinalityType
  <2> QED
    BY <2>1, <2>2, <2>3
<1> QED
  BY <1>1 DEF CountInv

\* One token more, or another, that shows no more than it did.
LEMMA WithTokenShows ==
  ASSUME NEW r, NEW token, tokens' = WithToken(r, token), NEW k, NEW more,
         \A a \in Attempts(token, k) :
           (r \in DOMAIN tokens /\ a \in Attempts(tokens[r], k)) \/ a \in more
  PROVE  Shows(k)' \subseteq Shows(k) \cup {<<r, a>> : a \in more}
<1>1. DOMAIN tokens' = DOMAIN tokens \cup {r}
      /\ \A x \in DOMAIN tokens' : tokens'[x] = IF x = r THEN token ELSE tokens[x]
  BY DEF WithToken
<1>2. ASSUME NEW x \in DOMAIN tokens', NEW a \in Attempts(tokens'[x], k)
      PROVE  <<x, a>> \in Shows(k) \cup {<<r, b>> : b \in more}
  <2>1. CASE x = r
    BY <1>1, <1>2, <2>1, InShows
  <2>2. CASE x # r
    BY <1>1, <1>2, <2>2, InShows
  <2> QED
    BY <2>1, <2>2
<1>3. Shows(k)' = UNION {{<<x, a>> : a \in Attempts(tokens'[x], k)} : x \in DOMAIN tokens'}
  BY DEF Shows, Attempts, Shown
<1> QED
  BY <1>2, <1>3

LEMMA FireCounts ==
  ASSUME CountInv, NEW r, r \notin DOMAIN tokens, NEW scenario, NEW last, NEW gen,
         Fire(r, scenario, last, gen), counters' = counters
  PROVE  CountInv'
<1> DEFINE token == NewToken(IF inject(scenario) THEN "injected" ELSE "received", 0)
<1>1. tokens' = WithToken(r, token) /\ script' = Scripted("fetch", gen, r, last)
  BY DEF Fire
<1>2. token.httpStatus = NoStatus
  BY DEF NewToken
<1>3. ASSUME NEW k \in Counted PROVE Shows(k)' \subseteq Shows(k)
  <2>1. k # "injected" /\ k # "received"
    BY DEF Counted
  <2>2. Attempts(token, k) = {}
    BY <2>1, NewTokenShows
  <2> HIDE DEF token
  <2>3. Shows(k)' \subseteq Shows(k) \cup {<<r, a>> : a \in {}}
    BY <1>1, <2>2, WithTokenShows
  <2> QED
    BY <2>3
<1> HIDE DEF token
<1>4. /\ DOMAIN tokens' = DOMAIN tokens \cup {r}
      /\ \A x \in DOMAIN tokens' : tokens'[x] = IF x = r THEN token ELSE tokens[x]
  BY <1>1 DEF WithToken
<1>5. Refused' = Refused
  BY <1>2, <1>4 DEF Refused, NoStatus
<1>6. Unanswered'
  <2>1. script'.current = r
    BY <1>1 DEF Scripted
  <2> QED
    BY <1>2, <1>4, <2>1 DEF Unanswered
<1> QED
  BY <1>3, <1>5, <1>6, SameCounts

LEMMA HttpCounts ==
  ASSUME Typed, CountInv, NEW r \in Runs, HttpResult(r)
  PROVE  CountInv'
<1>1. PICK status \in {answer[r], "0"} \ {"none"} : http_result(r, status)
  BY DEF HttpResult
<1>2. status \in {"0", "202", "400", "401", "503"}
  BY DEF Typed, ServerTyped, Statuses
<1>3. /\ script.phase = "fetch" /\ script.current = r
      /\ script' = Scripted("settle", script.gen, r, script.last)
  BY DEF HttpResult
<1>4. Unanswered'
  <2>1. script'.phase = "settle"
    BY <1>3 DEF Scripted
  <2> QED
    BY <2>1 DEF Unanswered
<1>5. CASE r \notin DOMAIN tokens
  <2>1. tokens' = tokens /\ counters' = counters
    BY <1>1, <1>5 DEF http_result
  <2>2. Refused' = Refused /\ \A k \in Counted : Shows(k)' \subseteq Shows(k)
    BY <2>1 DEF Refused, Shows
  <2> QED
    BY <1>4, <2>1, <2>2, SameCounts
<1>6. CASE r \in DOMAIN tokens
  <2> DEFINE token == withResult(tokens[r], inject(kind[r]), status, 1)
             refusal == status \in {"400", "401", "503"}
  <2>1. /\ tokens' = WithToken(r, token)
        /\ counters' = [counters EXCEPT !["rejected"] = @ + (IF refusal THEN 1 ELSE 0)]
    BY <1>1, <1>6 DEF http_result
  <2>2. inject(kind[r]) \in BOOLEAN /\ TokenOK(tokens[r])
    BY <1>6 DEF inject, Typed, BrowserTyped
  <2>3. token.httpStatus = status /\ \A k \in WORKER_STAGES : Attempts(token, k) \subseteq Attempts(tokens[r], k)
    BY <1>2, <2>2, WithResult, ResultShows
  <2> HIDE DEF token
  <2>4. \A k \in Counted : Shows(k)' \subseteq Shows(k)
    <3>1. ASSUME NEW k \in Counted PROVE Shows(k)' \subseteq Shows(k)
      <4>1. Attempts(token, k) \subseteq Attempts(tokens[r], k)
        BY <2>3, CountedStages
      <4>2. PICK more : more = {}
        OBVIOUS
      <4>3. Shows(k)' \subseteq Shows(k) \cup {<<r, a>> : a \in more}
        BY <1>6, <2>1, <4>1, WithTokenShows
      <4> QED
        BY <4>2, <4>3
    <3> QED
      BY <3>1
  <2>5. /\ DOMAIN tokens' = DOMAIN tokens
        /\ \A x \in DOMAIN tokens : tokens'[x] = IF x = r THEN token ELSE tokens[x]
    BY <1>6, <2>1 DEF WithToken
  <2>6. r \notin Refused
    BY <1>3, <1>6 DEF CountInv, Unanswered, Refused, NoStatus
  <2>7. Refused' = IF refusal THEN Refused \cup {r} ELSE Refused
    BY <1>6, <2>3, <2>5, <2>6 DEF Refused
  <2>8. CASE ~refusal
    <3>1. counters' = counters /\ Refused' = Refused
      BY <2>1, <2>7, <2>8 DEF CountInv
    <3> QED
      BY <1>4, <2>4, <3>1, SameCounts
  <2>9. CASE refusal
    <3>1. counters["rejected"] \in Nat /\ counters["rejected"] = Cardinality(Refused)
      BY DEF CountInv
    <3>2. /\ counters' \in [Counted \cup {"rejected"} -> Nat]
          /\ counters'["rejected"] = counters["rejected"] + 1
          /\ \A k \in Counted : counters'[k] = counters[k]
      BY <2>1, <2>9, <3>1, CountedStages DEF CountInv
    <3>3. IsFiniteSet(Refused)
      <4>1. IsFiniteSet(Runs)
        BY FS_Interval, TelemetryAssumption DEF Runs
      <4>2. Refused \subseteq Runs
        BY DEF Refused, Typed, BrowserTyped
      <4> QED
        BY <4>1, <4>2, FS_Subset
    <3>4. Cardinality(Refused') = Cardinality(Refused) + 1
      BY <2>6, <2>7, <2>9, <3>3, FS_AddElement
    <3>5. ASSUME NEW k \in Counted
          PROVE  IsFiniteSet(Shows(k)') /\ Cardinality(Shows(k)') <= counters'[k]
      <4>1. IsFiniteSet(Shows(k)) /\ Cardinality(Shows(k)) <= counters[k] /\ counters[k] \in Nat
        BY DEF CountInv
      <4>2. IsFiniteSet(Shows(k)') /\ Cardinality(Shows(k)') <= Cardinality(Shows(k))
        BY <2>4, <4>1, FS_Subset
      <4>3. Cardinality(Shows(k)') \in Nat /\ Cardinality(Shows(k)) \in Nat
        BY <4>1, <4>2, FS_CardinalityType
      <4> QED
        BY <3>2, <4>1, <4>2, <4>3
    <3> QED
      BY <1>4, <3>1, <3>2, <3>4, <3>5 DEF CountInv
  <2> QED
    BY <2>8, <2>9
<1> QED
  BY <1>5, <1>6

\* An envelope shows one attempt of its stage more at most, and is counted.
LEMMA DeliverCounts ==
  ASSUME Typed, CountInv, NEW envelope \in feed, Deliver(envelope)
  PROVE  CountInv'
<1> DEFINE r == envelope.run
           more(k) == {a \in {envelope.attempts} : envelope.stage = k}
<1>1. envelope \in Envelopes /\ script' = script
  BY DEF Typed, ServerTyped, Deliver
<1>2. counters' = IF envelope.stage \in Counted
                  THEN [counters EXCEPT ![envelope.stage] = @ + 1] ELSE counters
  BY DEF Deliver, onEnvelope
<1>3. /\ \A k \in Counted : Shows(k)' \subseteq Shows(k) \cup {<<r, a>> : a \in more(k)}
      /\ DOMAIN tokens' = DOMAIN tokens
      /\ \A x \in DOMAIN tokens : tokens'[x].httpStatus = tokens[x].httpStatus
  <2>1. CASE r \notin DOMAIN tokens
    <3>1. tokens' = tokens
      BY <2>1 DEF Deliver, onEnvelope
    <3> QED
      BY <3>1 DEF Shows
  <2>2. CASE r \in DOMAIN tokens
    <3> DEFINE token == withEnvelope(tokens[r], StageOf(envelope))
    <3>1. tokens' = WithToken(r, token)
      BY <2>2 DEF Deliver, onEnvelope, StageOf
    <3>2. TokenOK(tokens[r])
      BY <2>2 DEF Typed, BrowserTyped
    <3>3. /\ token.httpStatus = tokens[r].httpStatus
          /\ \A k \in Counted : Attempts(token, k) \subseteq Attempts(tokens[r], k) \cup more(k)
      BY <1>1, <3>2, EnvelopeStage, EnvelopeShows, CountedStages
    <3> HIDE DEF token, more
    <3>4. ASSUME NEW k \in Counted
          PROVE  Shows(k)' \subseteq Shows(k) \cup {<<r, a>> : a \in more(k)}
      BY <2>2, <3>1, <3>3, WithTokenShows
    <3>5. /\ DOMAIN tokens' = DOMAIN tokens
          /\ \A x \in DOMAIN tokens : tokens'[x] = IF x = r THEN token ELSE tokens[x]
      BY <2>2, <3>1 DEF WithToken
    <3> QED
      BY <3>3, <3>4, <3>5
  <2> QED
    BY <2>1, <2>2
<1>4. Refused' = Refused /\ Unanswered'
  BY <1>1, <1>3 DEF Refused, Unanswered, CountInv
<1>5. ASSUME NEW k \in Counted
      PROVE  IsFiniteSet(Shows(k)') /\ Cardinality(Shows(k)') <= counters'[k]
  <2>1. IsFiniteSet(Shows(k)) /\ Cardinality(Shows(k)) <= counters[k] /\ counters[k] \in Nat
    BY DEF CountInv
  <2>2. Cardinality(Shows(k)) \in Nat
    BY <2>1, FS_CardinalityType
  <2>3. CASE envelope.stage = k
    <3>1. Shows(k)' \subseteq Shows(k) \cup {<<r, envelope.attempts>>}
      BY <1>3, <2>3
    <3>2. /\ IsFiniteSet(Shows(k) \cup {<<r, envelope.attempts>>})
          /\ Cardinality(Shows(k) \cup {<<r, envelope.attempts>>}) <= Cardinality(Shows(k)) + 1
      <4>1. PICK e : e = <<r, envelope.attempts>>
        OBVIOUS
      <4>2. /\ IsFiniteSet(Shows(k) \cup {e})
            /\ Cardinality(Shows(k) \cup {e})
                 = IF e \in Shows(k) THEN Cardinality(Shows(k)) ELSE Cardinality(Shows(k)) + 1
        BY <2>1, FS_AddElement
      <4>3. Cardinality(Shows(k) \cup {e}) <= Cardinality(Shows(k)) + 1
        BY <2>2, <4>2
      <4> QED
        BY <4>1, <4>2, <4>3
    <3>3. /\ IsFiniteSet(Shows(k)')
          /\ Cardinality(Shows(k)') <= Cardinality(Shows(k) \cup {<<r, envelope.attempts>>})
      BY <3>1, <3>2, FS_Subset
    <3>4. Cardinality(Shows(k)') \in Nat /\ Cardinality(Shows(k) \cup {<<r, envelope.attempts>>}) \in Nat
      BY <3>2, <3>3, FS_CardinalityType
    <3>5. counters'[k] = counters[k] + 1
      BY <1>2, <2>3 DEF CountInv
    <3> QED
      BY <2>1, <2>2, <3>2, <3>3, <3>4, <3>5
  <2>4. CASE envelope.stage # k
    <3>1. Shows(k)' \subseteq Shows(k)
      BY <1>3, <2>4
    <3>2. IsFiniteSet(Shows(k)') /\ Cardinality(Shows(k)') <= Cardinality(Shows(k))
      BY <2>1, <3>1, FS_Subset
    <3>3. Cardinality(Shows(k)') \in Nat
      BY <3>2, FS_CardinalityType
    <3>4. counters'[k] = counters[k]
      BY <1>2, <2>4 DEF CountInv
    <3> QED
      BY <2>1, <2>2, <3>2, <3>3, <3>4
  <2> QED
    BY <2>3, <2>4
<1>6. /\ counters' \in [Counted \cup {"rejected"} -> Nat]
      /\ counters'["rejected"] = counters["rejected"]
  BY <1>2, CountedStages DEF CountInv
<1> QED
  BY <1>4, <1>5, <1>6 DEF CountInv

LEMMA EmptyCounts ==
  ASSUME tokens = NoTokens, counters = initialCounters
  PROVE  CountInv
<1>1. DOMAIN tokens = {}
  BY DEF NoTokens
<1>2. Refused = {} /\ \A k : Shows(k) = {}
  BY <1>1 DEF Refused, Shows
<1>3. counters = [k \in Counted \cup {"rejected"} |-> 0]
  BY DEF initialCounters
<1>4. Unanswered
  BY <1>1 DEF Unanswered
<1> QED
  BY <1>2, <1>3, <1>4, FS_EmptySet DEF CountInv

LEMMA CountsNext == DemoInv /\ Typed /\ CountInv /\ [Next]_vars => CountInv'
<1> SUFFICES ASSUME DemoInv, Typed, CountInv, [Next]_vars PROVE CountInv'
  OBVIOUS
<1>1. ASSUME tokens' = tokens, counters' = counters, script' = script \/ script' = NoScript
      PROVE  CountInv'
  <2>1. NoScript.phase = "idle"
    BY DEF NoScript, Scripted
  <2>2. Refused' = Refused /\ Unanswered' /\ \A k \in Counted : Shows(k)' \subseteq Shows(k)
    BY <1>1, <2>1 DEF Refused, Shows, Unanswered, CountInv
  <2> QED
    BY <1>1, <2>2, SameCounts
<1>2. CASE UNCHANGED browserVars
  BY <1>1, <1>2 DEF browserVars
<1>3. ASSUME NEW scenario \in ScenarioIds, runScenario(scenario) PROVE CountInv'
  <2>1. nextRun \notin DOMAIN tokens
    BY DEF DemoInv, ScriptInv, Past
  <2>2. /\ Fire(nextRun, scenario, nextRun + requests(scenario) - 1, generation)
        /\ counters' = counters
    BY <1>3 DEF runScenario
  <2> QED
    BY <2>1, <2>2, FireCounts
<1>4. ASSUME NEW r \in Runs, SettleTimeout(r) \/ Settle(r) PROVE CountInv'
  BY <1>1, <1>4 DEF SettleTimeout, Settle
<1>5. CASE reset
  <2>1. tokens' = NoTokens /\ counters' = initialCounters
    BY <1>5 DEF reset
  <2>2. CountInv'
    <3>1. DOMAIN tokens' = {}
      BY <2>1 DEF NoTokens
    <3>2. Refused' = {} /\ (\A k : Shows(k)' = {}) /\ Unanswered'
      BY <3>1 DEF Refused, Shows, Unanswered
    <3>3. counters' = [k \in Counted \cup {"rejected"} |-> 0]
      BY <2>1 DEF initialCounters
    <3> QED
      BY <3>2, <3>3, FS_EmptySet DEF CountInv
  <2> QED
    BY <2>2
<1>6. CASE Resume
  <2>1. counters' = counters /\ Busy
    BY <1>6 DEF Resume, Resumable, Busy
  <2>2. CASE script' = NoScript /\ UNCHANGED <<serverVars, tokens, waiters, firedIn>>
    BY <1>1, <2>1, <2>2
  <2>3. CASE Fire(script.current + 1, kind[script.current], script.last, script.gen)
    <3>1. script.current + 1 \notin DOMAIN tokens
      BY <2>1 DEF DemoInv, ScriptInv, Past
    <3> QED
      BY <2>1, <2>3, <3>1, FireCounts
  <2> QED
    BY <1>6, <2>2, <2>3 DEF Resume
<1> QED
  BY <1>2, <1>3, <1>4, <1>5, <1>6, HttpCounts, DeliverCounts DEF Next, BrowserTask, vars

LEMMA CountsInvariant == Spec => [](DemoInv /\ Typed /\ CountInv)
<1>1. Init => DemoInv /\ Typed /\ CountInv
  <2>1. Init => CountInv
    BY EmptyCounts DEF Init
  <2> QED
    BY <2>1, InitIsDemo, InitTyped
<1>2. DemoInv /\ Typed /\ CountInv /\ [Next]_vars => (DemoInv /\ Typed /\ CountInv)'
  BY DemoNext, TypedNext, CountsNext
<1> QED
  BY <1>1, <1>2, PTL DEF Spec

\* The counters cover what the tokens show, and "rejected" is the tokens with
\* a refusal.
THEOREM CountersCover == Spec => []CountersCoverTokens
<1>1. Typed /\ CountInv => CountersCoverTokens
  <2> SUFFICES ASSUME Typed, CountInv, NEW k \in Counted
               PROVE  Cardinality(UNION {{<<r, i>> : i \in Shown(tokens[r], k)} : r \in DOMAIN tokens})
                        <= counters[k]
    BY DEF CountersCoverTokens, CountInv, Refused
  <2> DEFINE S == UNION {{<<r, i>> : i \in Shown(tokens[r], k)} : r \in DOMAIN tokens}
             f == [p \in S |-> <<p[1], tokens[p[1]].stages[p[2]].attempts>>]
  <2>1. \A p \in S : /\ p = <<p[1], p[2]>> /\ p[1] \in DOMAIN tokens
                     /\ p[2] \in Shown(tokens[p[1]], k)
    OBVIOUS
  <2>2. f \in [S -> Shows(k)]
    <3>1. ASSUME NEW p \in S PROVE f[p] \in Shows(k)
      <4>1. tokens[p[1]].stages[p[2]].attempts \in Attempts(tokens[p[1]], k)
        BY <2>1 DEF Attempts
      <4> HIDE DEF S
      <4> QED
        BY <2>1, <4>1, InShows
    <3> HIDE DEF S
    <3> QED
      BY <3>1
  <2>3. ASSUME NEW p \in S, NEW q \in S, f[p] = f[q] PROVE p = q
    <3> HIDE DEF S
    <3>1. p[1] = q[1] /\ tokens[p[1]].stages[p[2]].attempts = tokens[p[1]].stages[q[2]].attempts
      BY <2>3
    <3>2. TokenOK(tokens[p[1]]) /\ p[2] \in Shown(tokens[p[1]], k) /\ q[2] \in Shown(tokens[p[1]], k)
      BY <2>1, <3>1 DEF Typed, BrowserTyped
    <3>3. p[2] = q[2]
      BY <3>1, <3>2, ShownOnce
    <3> QED
      BY <2>1, <3>1, <3>3
  <2> HIDE DEF S, f
  <2>4. f \in Injection(S, Shows(k))
    BY <2>2, <2>3, Fun_IsInj
  <2>5. /\ IsFiniteSet(Shows(k)) /\ Cardinality(Shows(k)) <= counters[k] /\ counters[k] \in Nat
    BY DEF CountInv
  <2>6. IsFiniteSet(S) /\ Cardinality(S) <= Cardinality(Shows(k))
    BY <2>4, <2>5, FS_Injection
  <2>7. Cardinality(S) \in Nat /\ Cardinality(Shows(k)) \in Nat
    BY <2>5, <2>6, FS_CardinalityType
  <2>8. Cardinality(S) <= counters[k]
    BY <2>5, <2>6, <2>7
  <2> QED
    BY <2>8 DEF S
<1> QED
  BY <1>1, CountsInvariant, PTL
=============================================================================
