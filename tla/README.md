# Formal model of the webhook ingestion service

The service takes a partner's signed webhook, answers `202` once RabbitMQ has
confirmed it, and processes it later in a worker: at-least-once delivery, an
idempotent consumer on PostgreSQL, staged retries through queues with a TTL, a
dead-letter queue, replay by an operator. A demo site shows each request's way
through the pipeline as it happens.

The modules here model what a request passes before it is published, what one
`event_id` goes through across queues, rows, crashes and operators, the database
transactions statement by statement, the publish that stands behind the `202`, and
the browser that follows the feed and plays it back. TLC checks them on small
instances; TLAPS proves all the safety the passing runs check, for every value of the
constants. Paths below are as in `PROJECT.json`: `src/src/`
is the service, `src/web/` the demo site.

1. [The system and its parts](#the-system-and-its-parts)
2. [The modules](#the-modules)
3. [What the runs check](#what-the-runs-check)
4. [Fairness](#fairness)
5. [What is proved](#what-is-proved)
6. [Where the code and its words part](#where-the-code-and-its-words-part)
7. [Abstractions, and what is not modelled](#abstractions-and-what-is-not-modelled)
8. [What is left of the plan](#what-is-left-of-the-plan)

## The system and its parts

| Part | State it keeps | Operations | Hard behaviour | Module |
|---|---|---|---|---|
| API: webhook endpoint, `RabbitEventPublisher` | `pendingReturns`, publishes under way | publish (confirm, `mandatory`), timeout, return listener | late confirm, return before confirm, shared correlation ids, publishes sent again | `Publisher` |
| RabbitMQ topology | `webhooks.orders`, the retry queues, `webhooks.dead` | push, ack, requeue, TTL | redelivery, lost channels, no order across queues | `Pipeline` |
| Worker: `OrderConsumer` | deliveries in hand | consume, publish retry or dead letter, ack, `Nack(true)` | crash between commit, publish and ack | `Pipeline` |
| Worker: `IdempotentEventProcessor` | the `events` row, in one transaction | claim, duplicate, re-emit, attempt | concurrent claims, continuation or duplicate, budget | `Pipeline`, `Transactions` |
| Worker: `DlqConsumer` | `dlq_messages` row, event status | insert or ignore, mark dead | redelivery after commit, stale letters | `Pipeline`, `Transactions` |
| API: DLQ replay, discard | reset rows, the redrive being published | prepare (commit), publish, delete | publish lost after the reset, two redrives | `Pipeline`, `Transactions` |
| The two tables | rows, locks | - | who may change a row, and when | `EventRow`, `Transactions` |
| Worker: connection pool | free connections | take, give back | fewer connections than deliveries | `Transactions` |
| Telemetry | the feed | emit, broadcast | best effort: lost, late, overtaken | `Telemetry` |
| Web: store and reducer | tokens, counters, waiters, generation | scenario, result, envelope, settle, reset | answers and envelopes in any order, resets in the middle | `Token`, `Visualizer` |
| Web: pipeline view | each ball's place and time stamp, pause, pace | walk, pause, resume, step, switch | pauses against stamps, paths that change under a walking ball, settling once | `Token`, `Playback` |
| API: body parser, throttler, signature guard, DTO | counters per address | accept or refuse | boundaries of the window, order of the checks | `Admission` |
| Configuration, health, metrics, logging | nothing the service reads back | validate, probe, count | - | no |

They interact through the broker (API to worker, worker to itself over the retry
queues, worker to its own dead-letter consumer), through the two tables (processor,
dead-letter consumer, replay and discard all write them, from two processes) and
through the feed (worker to browser, one way).

What makes each part correct:

* **Admission**: a signed request is accepted in a window of the right width; the
  limit is per address and comes before the HMAC.
* **Publisher**: a `202` means the message is in the queue; a return fails the
  publish that caused it and no other; no entry outlives its request; every
  request is answered.
* **Consumer and processor**: what the broker accepted is never lost; an event
  that is owed an attempt is carried by a message the processor will not take for
  a duplicate; the retry budget and the backoff hold; the handler's success
  commits once; its row changes by whole transactions.
* **Dead letters**: a failed event's letter is emitted; a dead event has its record.
* **Replay**: only a replay reopens a settled event; it needs the letter; it
  strands an event only if its publish is lost, and can then be called again.
* **Whole pipeline**: everything accepted is settled in the end.
* **Visualizer**: a token never goes back and its counters are right, whatever is late
  or lost; its tier agrees with its ball unless one retry has overtaken another; a reset
  ends what was running, and a scenario ends.
* **Pipeline view**: the stopwatch counts what it says, the retry boxes are held for
  their tier, and every ball comes to its end.

## The modules

    EventRow <--implements-- Pipeline     <--EXTENDS-- PipelineClaims <-- MCPipeline
             <--implements-- Transactions                             <-- MCTransactions
                             Admission                                <-- MCAdmission
                             Publisher                                <-- MCPublisher
    Token, Telemetry         <--EXTENDS-- Visualizer                  <-- MCVisualizer
    Token                    <--EXTENDS-- Playback                    <-- MCPlayback
    PipelineProofs, TransactionsProofs, AdmissionProofs, PublisherProofs, TokenProofs
                             EXTEND their module and TLAPS
    BackoffProofs            EXTENDS PipelineProofs
    VisualizerProofs, PlaybackProofs
                             EXTEND their module, TokenProofs and TLAPS

An `MC` module only says which values the constants take. `PipelineClaims`
states what the repository says in words and the code does not keep. In each
module the definitions named `Mut_...` are plausible mistakes in the definition
after them; no action uses them, and `PROJECT.json` says which property finds
which.

### Pipeline: from the queue to a settled row

| In the model | In the code |
|---|---|
| `queue`, `tiers`, `dead` (bags) | `webhooks.orders`, the retry queues, `webhooks.dead` (`messaging/messaging.constants.ts`, `messaging.module.ts`) |
| `Msg`: body, `hdr`, `redel` | `event_id` and whether a column can hold the message; the attempt header: none, set by the worker, or 0 set by a replay; the broker's `redelivered` |
| `status`, `attempts`, `dlq` | `events.status`, `events.attempts`, the `dlq_messages` row by `message_id` |
| `task[w]` | one delivery in hand, between the push and the ack, and whether its channel lives |
| `replaying` | a replay that has committed its reset and not published yet |
| `Ingest`, `InjectPoison` | a publish that reached the queue, from the endpoint or the demo's poison route |
| `Deliver`, `ProcessDuplicate`, `ProcessFailedAgain`, `ProcessOk`, `ProcessRetry`, `ProcessDead`, `RejectMessage` | `OrderConsumer.handle` up to its decision: `claimAndHandle`'s transaction, and the two ways a message cannot become a row |
| `PublishRetry`, `PublishDead`, `Ack` | the rest of `handle` |
| `ProcessAborted`, `PublishFails` | an unclassified error before or in the publish: `Nack(true)` |
| `WorkerCrash`, `ChannelLost` | the broker takes the delivery back; on a lost channel the handler goes on unaware |
| `TierExpires` | the TTL of a retry queue |
| `DlqConsume`, `DlqConsumeUnacked` | `DlqConsumer`: insert or ignore, unconditional mark, ack, or the ack lost |
| `ReplayPrepare`, `ReplayPublish`, `ReplayLost`, `Discard` | `DlqReplayService`, `DlqController` |

`accepted`, `discarded`, `orphaned`, `waits`, `successes` and `reopened` are
history: no guard reads them. `sent`, `faults` and `replays` count against the
bounds `MaxSent`, `MaxFaults` and `MaxReplays`.

In-flight slots model prefetch: a process with prefetch N is N slots, and its
crash is the crash of each of them, which `WorkerCrash` permits in any order.

### EventRow and Transactions: why a decision is one step

`EventRow` is the abstract specification of the two tables: a row changes by an
*attempt* on an open event within the budget, by a *burial*, which comes with its dead
letter, or by a *reset* from a replayable state, which needs such a letter; letters are
recorded without a row to mark, and discarded, besides. A burial leaves the letters as
they are in one case only: the letter was found recorded, and an operator discarded it
before the mark (`discarded` has such an event until its letter is recorded again).
`Pipeline` uses the tables so. `Transactions` shows that the code's locks
make it so: there each SQL statement is an action. `Claim` is the processor's
`INSERT ... ON CONFLICT DO NOTHING`, which waits for an uncommitted row of its key;
`LockDecided` and `LockAttempt` its `SELECT ... FOR UPDATE`; `Handle` the handler,
still inside the transaction; `Record` and `Mark` the dead-letter consumer's two
statements; `FindLetter`, `ResetRow` and `Refuse` the replay's; `Discard` a
transaction of its own; `Commit` publishes a transaction's writes, and `Abort`
drops them at any statement. `Begin` and `Connect` are the wait for one of
`PoolSize` connections. Both modules implement the same `EventRow`
(`ImplementsEventRow`). `status` and `attempts` map to themselves; `letters` maps in
`Pipeline` to the events whose `dlq` entry is present (`OnRecord`), in
`Transactions` to its committed letters. `missed` has the events whose mark found no row
and whose letter is not committed yet, when a claim may commit the row in between: none
in `Pipeline`, where a dead letter is one step, and in `Transactions` those of the
dead-letter transactions that are about to commit so. What makes the second refinement hold is that
a replay keeps its letter locked between reading it and resetting the row.

### Admission: before the publish

`ParserRefuses`, `ThrottlerRefuses`, `Unverified`, `Refused`, `Admitted` are the five ways
a request to `POST /webhooks/orders` ends: in the body parser (`main.ts`), in the
throttler (`webhooks.module.ts`), in `WebhookSignatureGuard.canActivate` before its HMAC,
after it or in `ValidationPipe`, and on to the publisher. Each is one action, because
nothing in it is awaited. Time is counted in half seconds: `Number(timestamp)`
may be a fraction while `nowSeconds` is rounded down. `hmacs`, `arrived` and `accepted` are
history. The throttler's bookkeeping (a window of hits for each address, and a block of one
window for whoever exceeds it) is its library's and modelled as external: a window is a
set of hits, each with its time and the number of its request, so that two requests of
one time count as two.

### Publisher: what stands behind the 202

`Publish`, `Accept`, `Refuse`, `Timeout` and `PublishThrows` are the request
(`rabbit-event-publisher.ts`, `webhooks.controller.ts`); `ReceiveReturn` and
`ReceiveConfirm` the library's callbacks, on frames that come in order;
`Route`, `Confirm` and `RejectPublish` the broker; `ConnectionLost` fails some of
the unconfirmed publishes and keeps others to be sent again, which is all the
model assumes of amqp-connection-manager; `Rebind` takes the queue away and brings
it back. Confirms may come after the timeout, and returns after the answer.

### Token, Telemetry, Visualizer: the browser that follows

`Token` has the pure functions of `reducer.ts` and of `Pipeline.tsx`'s `pathOf`: stages
inserted by rank, the current stage, the retry tier, the path of the ball. The filter, push
and stable sort of `insertStage` are one insertion, before the first stage that sorts after
the event; the loops of `highestStage` and `pathOf` are functions. `Telemetry` is the
server no deeper than the order of its envelopes: what each scenario's message
goes through, and what is emitted at which point with which attempt count;
envelopes in `feed` are delivered in any order, or lost. `Visualizer` is
`useDemoStore.ts` around them: `runScenario` fires the requests of a sequence,
awaits the answer, then the settled ball or the timer (`waiters`, `SettleTimeout`,
`Settle`); `reset` starts a new `generation`. JavaScript runs one task at a time and
continuations before the next task: while `Resume` is enabled no other browser
step is.

### Playback: the ball that walks

`Playback` is the state and the timer of `components/Pipeline.tsx`. The feed is no more
here than stages that arrive; they go through `Token`'s `withStage`, so that the path changes
under a walking ball. Stamps are kept as ages: the code's `at` is `now - age`, its
`pausedAt` is `now - pausedFor`, so that a behaviour does not depend on how late it
starts. `Clock` is a tick of time; `Interval` is the callback of `setInterval`, which the effect
sets anew (`Rearm`) whenever tokens, pace or pause change; `Pause`, `Resume`,
`Step` and `SwitchPace` are the buttons. An update's effects run before the next update, so
`Settle`, the one notification, is part of each step. `held`, `inTier` and `disturbed` are
history. `disturbed` has a ball when the visitor stepped or rushed it, or a stage of lower
rank came late and changed the path under it (`Displaces`): before its end, or anywhere once
the ball has settled. Here `Visualizer`'s `Settle`, which there may happen at any time, has its reason.

## What the runs check

Every run passes or fails as stated with the constants in its `.cfg`.

| Run | Shows | Distinct states |
|---|---|---|
| `faults` | with any two faults, a replay, and two sends: `AcceptedIsKept`, `InFlightIsCarried`, `FailedIsEmitted`, `DeadIsPersisted`, `ReplayCanBeRetried`, `BudgetLeft`, `SucceedsOnce`, `OnlyReplayReopens`, `ImplementsEventRow` | 1 630 403 |
| `rest` | four attempts on two tiers: `BackoffRespected`; `EventuallySettled` after one fault and one replay | 566 621 |
| `transactions` | `ClaimFindsRow`, `OneHandlerPerEvent`, `ResetHasLetter`, `ImplementsEventRow` with every interleaving of four transactions and a discard; `TransactionsEnd`: no circle of locks and connections | 116 934 |
| `admission` | `HmacsBounded`, `AcceptedSpan`, `RefusedForOwnRate` | 2 121 380 |
| `publisher` | `AcceptedIsQueued`, `ReturnIsOwn`, `NothingPending`, `EventuallyAnswered` | 140 600 |
| `visualizer` | `NoStaleRun`, `SettleNotLost`, `CountersCoverTokens`, `TierKept`, `BallRoute`, `RankNeverFalls`, `ScenarioEnds` | 613 206 |
| `playback` | `StopwatchTrue`, `TiersAreHeld`, `BallSettles` | 66 963 |
| `runs_twice`, `redrive`, `outage`, `unstorable`, `processing_time` | a counterexample each, [below](#where-the-code-and-its-words-part) | - |

The properties, in words:

* `AcceptedIsKept`: a message the broker took is, until its row exists, in a queue
  or in a delivery that will be made again, or is a dead letter on record.
* `InFlightIsCarried`: `processing` and `received` mean an attempt is owed, and a
  message that counts as a continuation will come for it. A first delivery does
  not count, the processor would drop it; nor does a handler whose channel is lost.
  A replay that lost its publish is the one exception.
* `ReplayCanBeRetried`: what makes that exception bearable. An event in `received` was
  reset by a replay, is replayable, and has the letter that a second call starts from,
  unless an operator discarded it.
* `FailedIsEmitted`, `DeadIsPersisted`: the two halves of dead-lettering, each
  across the crash between its commit and its publish or ack. `discarded` excuses a
  dead event only until its letter is delivered again, which must bring the record back.
* `EventuallySettled`: everything accepted is in the end processed, dead, or a dead letter
  on record. An event whose replay lost its publish must have come to where another
  replay would be taken: a replayable row, with its letter.
* `SucceedsOnce`: the handler's success commits once per event, unless a late dead
  letter overwrote `processed` (a finding).
* `OnlyReplayReopens`: no delivery reopens a settled event or rewinds its attempts.
* `BackoffRespected`: before any fault, each further attempt sat through a tier.
* `OneHandlerPerEvent`: the handler runs on a row as it was read, alone.
* `AcceptedIsQueued`: `202` means queued, with an unbound queue, lost connections
  and publishes sent twice.
* `RankNeverFalls`, `BallRoute`: whichever envelopes are late, lost or overtaken, a token
  never goes back to a lower stage, and its ball's path ends in the box of the stage it
  has, over no box of the main row.
* `TierKept`: the tier a token in retry names and counts down is that of the retry in
  whose box its ball comes to rest; an envelope of the next attempt neither wipes it nor
  sets it back to the first (`reducer.test.ts:126`). It does not hold of a token whose last
  retry was `overtaken` by a later one: `reducer.ts:217-223` takes the tier of whichever
  came last, the stages are sorted by time, and until the next retry in its turn the two
  disagree.
* `NoStaleRun`, `SettleNotLost`: the awaits of `runScenario` against the reset
  button and against the ball that settles before the answer is back.
* `HmacsBounded`, `RefusedForOwnRate`: a flood burns no HMACs, and the one who is refused
  for the rate is the one who sent too much.
* `AcceptedSpan`: the first and the last time a signed request is accepted are less
  than twice the tolerance and one second apart; checked on both sides of now.
* `StopwatchTrue`: the stopwatch of a ball in a retry box (its stamp is what the dwell
  is measured by, too) reads the unpaused time since the walk placed it.
* `TiersAreHeld`: a ball reached its end only after the whole of every tier on its way.
  The exceptions are the code's own: a ball that was stepped, shown in real time, or
  whose path a late stage changed before its end or after it settled (`disturbed`).
* `BallSettles`: the ball of a terminal token settles unless the visitor pauses for good.

### Bounds, and why they are enough

* `faults`: one event (events share nothing but the bags; the proofs cover any
  number), two slots (enough for a delivery and its redelivery to be in hand at
  once), `MaxSent` 2 (an original and a partner's duplicate, or poison),
  `MaxAttempts` 2 (one retry and its exhaustion), `MaxFaults` 2 of six kinds (a
  crash on the recovery from a crash), `MaxReplays` 1. Both fits of a payload.
* `rest`: `MaxAttempts` 4 on `NTiers` 2, so that both tiers are used and the last one
  again: an index beyond it, were it not clamped, would leave the event unsettled. One
  fault and one replay keep the liveness graph small.
* `transactions`: two deliveries, the least at which they wait for each other, a dead
  letter and an operator, each of whom the others may meet at any statement;
  `MaxAttempts` 2, so that a retry is written over; `PoolSize` 2 for three worker slots, so
  that the pool is short. More slots and events are the proofs' part.
* `admission`: `Limit` 2 and five requests, so that one address is refused and is let
  in again while another sends; a window of two seconds and `MaxNow` of four, so that
  a window ends and a block runs out; `Tolerance` of one second with stamps on a second and
  between two, so that both ends of the window lie within the clock.
* `playback`: two balls, or one with a late stage of low rank, or one whose terminal
  stage, of a partner's duplicate, may overtake the retry before it; `Hop` 1 and tiers of 2
  ticks, the least that differ; three clicks, so that a pause, a step in it and the resume fit;
  `MaxPause` 2, longer than a hop and as long as a tier.
* `publisher`: two requests under one correlation id or two, `MaxLosses` 2, so that
  a publish is sent again after having been sent again.
* `visualizer`: `MaxRuns` 2 requests, `MaxResets` 1, `MaxTroubles` 1 (redelivery,
  replay, lost envelope), `MaxInFlight` 3 envelopes at once (the least at which one
  retry overtakes another, since each comes with its decision), `MaxEmitted` 8 in all
  (both retries of a ladder and the third attempt begun), `MaxAttempts` and
  `TransientSuccessAttempt` 3. The visits are a sequence of two requests, the ladder, a
  failure that may be replayed, and a refused request followed by garbage.
* Symmetry is taken over slots only, and only in runs of safety properties.

`CHECK_DEADLOCK FALSE` stands in the runs of `Pipeline`, `Visualizer`, `Playback` and `Admission`: there
the bounded environment ends, and a settled system with nothing to deliver is a
proper end. `Transactions` and `Publisher` always have some step (a rollback, a queue
unbound), so there the deadlock check stays on and says little: that nobody waits for
ever is what `TransactionsEnd` and `EventuallyAnswered` are for.

Every property is shown to depend on the code by a mutant: a mistake in a mapped
definition that makes the run report it. For instance: a decision that ignores
the status before it attempts (`SucceedsOnce`), acknowledging a failed transaction
(`AcceptedIsKept`), a continuation recognised by its header alone
(`InFlightIsCarried`), a replay published without the header (`EventuallySettled`),
a reset without the lock (`ImplementsEventRow`), the correlation id used as the
publish token (`ReturnIsOwn`), a waiter registered after the answer
(`SettleNotLost`), a resume that leaves the stamps where they were (`StopwatchTrue`), a
tolerance on one side only (`AcceptedSpan`). `PROJECT.json` lists all of them.

## Fairness

* `Pipeline!FairSpec`: the broker pushes ready messages (`Deliver`, `DlqConsume`),
  TTLs run out (`TierExpires`), a consumer's callback that runs goes on to its end
  (`WorkerStep`), a replay request makes its publish. Weak fairness of each; none of
  faults, producers or operators. Which outcome the handler has stays open: the
  budget, not fairness, ends the retries.
* `Transactions!FairSpec`: strong fairness of each slot's `Proceed`. Others may take
  and release the lock a slot waits for, so weak fairness would promise nothing;
  PostgreSQL queues waiters for a row and the pool queues waiters for a connection,
  each first come first served, and handlers return.
* `Publisher!FairSpec`: weak fairness of `Finish`: an armed timer fires, a settled
  await goes on. Nothing is assumed of the broker or the network.
* `Visualizer!FairSpec`: a fetch ends with an answer or an error, `SETTLE_TIMEOUT_MS`
  runs out, awaits go on. Nothing is assumed of the server, the feed or the balls.
* `Playback!FairSpec`: weak fairness of `Clock` and `Interval`: time passes and the browser
  calls an interval that is due. Nothing is assumed of the feed or the visitor.
  `Admission` has no fairness: it promises no answer.

## What is proved

For all events, slots, tiers, requests and bounds, under the named assumptions of
each module (`PipelineAssumption`, `TransactionsAssumption`, `PublisherAssumption`,
`AdmissionAssumption`, `TelemetryAssumption`, `VisualizerAssumption`, `PlaybackAssumption`:
distinct names, positive limits, tiers, windows and pool).

**PipelineProofs.** `TypeCorrect`, `RetryBudget`, `NothingLost`, `NothingStranded`,
`DeadLetterComes`, `DeadHasRecord`, `SecondReplayStarts`, `EffectivelyOnce`, `RowImplemented`, `ReopenedByReplay`,
from three inductive invariants:

* `TypeInv` adds to `TypeOK` what types need: a slot that is to publish a retry has an
  event and an attempt count of at least 1 (`TaskOK`), a replay is of an event whose
  letter was on record (`ReplayOK`), an event with no row or a fresh reset has no attempts (`FreshBudget`),
  one between attempts has one left (`BudgetLeft`). Without the last two `attempts`
  could not be bounded by `MaxAttempts`.
* `Safe /\ ZombieCovered`: the three carrier invariants together, since the step that
  consumes one carrier must leave another, and which one is owed depends on the
  others. `ZombieCovered` is the strengthening: a handler whose channel is lost may
  still claim an event that has no row and so make it owe an attempt, with
  nothing in hand; the copy the broker took back is then still there, and counts as a
  continuation because it is redelivered. The proof goes by a frame lemma (a step
  that empties no bag of an event keeps its carriers, but for the workers it touches)
  and one lemma per action that moves a message.
* `TableInv`: a dead row has its record, and so has one that a replay reset
  (`ReplayCanBeRetried`); successes committed = times overwritten, plus
  one if the row is `processed` (`Counted`), from which `SucceedsOnce` follows.

**TransactionsProofs.** `TypeCorrect`, `RowAlwaysFound`, `HandlersExclude`, `LetterHeld`,
`RowImplemented`, from `LockInv`: a budget for open rows, and for each slot what it may
rely on at each of its steps - the row's lock from its claim on, a committed row or
its own, the attempt count it decided on still the row's, and, when it is about to
commit, that what it writes is a lawful step of `EventRow` from the row as it is
*now*; a mark in particular has its letter locked, on record, or discarded since. One lemma per statement; `Respects` says once what a slot's step leaves to the
others.

**PublisherProofs.** `TypeCorrect`, `AcceptedMeansQueued`, `ReturnsFindTheirOwn`,
`MapDoesNotGrow`, from `PublisherInv`. The argument is the order of frames: of whatever the
broker has confirmed, or is about to, the queue has a copy, or the return is noted, or
the return travels ahead of the confirm, as long as the request waits (`InOrder`). For
the return to be noted the token must lead to its own request (`Tokened`).

**BackoffProofs.** `EveryAttemptWaits`, from `TypeInv /\ CalmInv`. Until the first fault or
replay (`Calm`) an event has at most one continuation, in one place (`OneCarrier`): with
the worker that decided on the retry, in a tier, back in the queue, or with the worker that
makes the next attempt. Attempts are then at most one ahead of the waits, and not ahead at
all once the continuation is out of its tier (`Waited`). `BackoffRespected` alone is not
inductive: a second continuation would make an attempt without a wait of its own. What a
partner sends again is no continuation, in whatever number.

**AdmissionProofs.** `TypeCorrect`, and:

* `ReplayWindow`, from `WindowInv`: what was accepted was within the tolerance of the
  server's second when it was. Two such times with one stamp are within twice the tolerance
  by seconds, and rounding down adds less than one.
* `HashesLimited`, from `HmacInv`: within a window, whatever was hashed had been let through,
  and no more are let through than the limit.
* `LimitIsOnesOwn`, from `RateInv`: a block in force was set by more than the limit of the
  address's own hits, each young enough to be within two windows until the block ends
  (`Blocking`).

Both counts are compared by inclusion: a window that has moved on is a subset of what it
was, and a request adds one hit.

**TokenProofs.** The lemmas on which the two browser modules rest, for any stages in any
order. `InsertStage`: the stages stay sorted and each once, the event is in, and all else
stays but the entry it replaces. From it: the current stage is the last one, and its rank
never falls (`WithStage`); the tier of a token in a retry is that of its last stage, by
time, unless a retry comes that has been overtaken (`StageTier`, `EnvelopeTier`, `ResultTier`); and of each
stage a token gains at most the attempt count of the envelope (`EnvelopeShows`).
`PathReaches`: the path of a ball ends in the box of the current stage and flies over none of
the main row. The path is a recursive function, and its theorem an induction over the
stages. `NatInductive` states that induction over sets of numbers, where the library's
states it over a predicate, which the provers here cannot instantiate.

**VisualizerProofs.** `ResetEndsScripts`, `SettleIsHeard`, from `DemoInv`. Both rest on fresh
ids: whatever has a token or has settled was fired at or before the script's current
request (`Past`), so a token that is fired is new to the settled, and the script's numbers
stay within what it has reserved (`ScriptInv`). Steps that start no script and no token go
by one lemma (`QuietKeeps`).

`TypeCorrect`, `BallFliesOverNothing` and `RanksOnlyRise`, from `DemoInv /\ Typed`:
every token is one that `Token`'s operators can make (`TokenOK`), every envelope in the
feed is a worker's stage with its attempt count, and every step takes each token that stays
to one of no lower rank (`TokensGo`). `TierIsWhereTheBallRests`, from these and `TierInv`: of every
token not overtaken, the tier named is that of its last stage, where the path ends. A retry
restores it, whatever came before: either it is the last by time, or it is overtaken.
`CountersCover`, from these and `CountInv`. The property
counts places in the stages, which move as others are inserted; the invariant counts
pairs of a request and an attempt count, of which a token shows each once (`ShownOnce`), and
says that the request under way has no answer yet, so that it is refused once.

**PlaybackProofs.** `StopwatchNeverLies`, from `StopwatchInv`: with the property, that a pause
has a length only while it lasts and that only balls of known tokens walk. Paths and
dwells stay opaque there, so it holds for any. `TypeCorrect`, with `Shaped`: stages are
sorted, so that every path has a box for its ball. `TiersRunTheirTime`, from `HoldInv`: a ball
nobody disturbed has each retry box behind it held for the whole tier, and the one it is in
for as long as its stopwatch reads (`OnPath`); so it needs `StopwatchInv` too, which ties
that reading to the stamp the dwell is measured by. A stage that only extends the
path keeps what is behind the ball.

This proof found a flaw in the model: `disturbed` did not count a late stage that
extended the path of a ball that had settled, and then `TiersAreHeld` was false of the
code. The third story of `MCPlayback`, added for it, has TLC find that counterexample; `Displaces`
now says which stages disturb.

**Only model-checked.** Liveness (`EventuallySettled`, `TransactionsEnd`,
`EventuallyAnswered`, `ScenarioEnds`, `BallSettles`), which is out of the prover's reach here, and
the counterexamples below. Every other property of a passing run is a theorem.

## Where the code and its words part

Each has a run that finds the counterexample and a row in `findings`.

| Run | What the code does | What is said |
|---|---|---|
| `runs_twice` | a dead letter whose ack was lost is delivered again after its event was replayed and processed: `processed` becomes `dead`, is replayable, and runs again | "an event that is already `processed` must not run twice" (`src/README.md:93`) |
| `redrive` | of two redrives in flight the second makes an attempt of its own when the first commits a retry | "the extra message settles as a duplicate once the first one commits" (`dlq-replay.service.ts:29`) |
| `outage` | a rolled-back delivery of a partner's duplicate returns with `redelivered` set, counts as a continuation, and attempts without its tier | "an outage there must not burn a retry tier" (`order-consumer.ts:173`) |
| `unstorable` | the dead letter of an id that no column can hold fails its own INSERT and is requeued for ever | "Requeueing such a message spins forever; it has to dead-letter instead" (`processing-errors.ts:19`) |
| `processing_time` | a later `consuming` replaces the first, so after a retry the time shown leaves out the waits | "from the first `consuming`", "includes the TTL backoff waits" (`reducer.ts:261`) |

Two more disagreements have no run of their own. Prefetch holds for each consumer and the
worker has two, orders and dead letters, so up to twice the prefetch is in flight
against a pool of one prefetch, where `typeorm.config.ts:17` says "the pool must
cover them all"; that follows from the configuration alone, and `transactions`, whose pool
is short, shows that the excess only waits. And a request answered `503` because its confirm came
late may be queued all the same, and its token then goes on through the worker, which
`ResponsePanel.tsx:57` rules out; `visualizer` has that behaviour, and its properties
hold with it.

One more is a weakness that no comment denies: a retry envelope that comes after a later
one takes the tier and the countdown back to its own (`reducer.ts:217-223`), while the ball goes
to the box of the later one. `visualizer` has it too, and `TierKept` exempts it by name.

## Abstractions, and what is not modelled

* Data no decision reads is left out: payloads, correlation ids in the worker,
  `duplicate_count`, `failure_reason`, `replayed_at`, error texts. Of a payload the model
  keeps whether the database can hold it.
* Several dead letters without an id are several rows; the model folds them into the
  one entry `dlq[NoEvent]`, which is enough to say that poison is recorded.
* A commit whose reply is lost shows the worker an error for a decision that stands:
  in the model, the decision followed by `PublishFails` or by a lost channel.
* A failed dead-letter transaction is requeued and changes nothing: a stutter.
* A dead-letter `UPDATE` that sees no row, while a claim is uncommitted, is the same as
  consuming the letter before the claim.
* `INSERT ... ON CONFLICT` on a committed row may wait for that row's writer; the next
  statement waits for it anyway, so the model lets the `INSERT` pass.
* The API's own pool is not bounded: its transactions only ever wait for locks.
* In `Telemetry` the workers' clocks agree, the tier's wait and the redelivery from
  it are one step, and the row may be marked dead as soon as its letter is published. Each
  trouble may have a message delivered again beside the retry or the dead letter it had
  led to, its ack lost; a second copy of one that was only held is the held one again. In `Visualizer` a ball
  may reach its end at any time after its token is terminal; latencies, texts, the
  tier's deadline and the connection indicator are left out.
* In `Playback` time comes in ticks of the interval, ages are told apart up to the
  longest tier (`Old`), and a click falls between two ticks. Captions, drawing, the
  real-time stopwatch (`retryArrival`) and the reset button, which empties the tokens and
  leaves the walk's entries behind, are left out; reduced motion is real time.
* In `Admission` a signature is right, wrong or missing, and a body oversized,
  unparseable, invalid or valid: which JSON is which is the libraries' part. The throttler
  counts in one process, as the code says of it; so does the model.
* `DlqPanel` rereads `GET /dlq` when the `dead` envelope comes, which the worker emits before the
  letter is persisted, and shows the last answer, in whichever order two come back. The
  repository promises nothing of what it shows meanwhile, and its refresh button
  reads again; it is not modelled. Neither is `deadLettersPersisted`, which also counts
  a redelivered letter whose insert was ignored: nothing reads it back.
* Not modelled either: the admin key guard (one comparison), correlation context and
  logging, metrics and health, configuration and boot, the panels that only display,
  tests, benchmark and containers. `GET /dlq` only reads.

## What is left of the plan

Done, in the order planned: `Pipeline`, `EventRow`, `Transactions`, `Publisher`, the visualizer,
`Playback` and `Admission`, and the safety of each proved.

1. An abstract specification of the publish, accepted or not and queued or not, with
   `Publisher` shown to implement it; likewise of the counter behind `Admission`'s limit.
2. A refinement of `Visualizer`'s balls by `Playback`'s: `Settle` there is enabled whenever a
   ball here may settle.
3. The metrics panel's percentile against a reference definition over bounded inputs.
