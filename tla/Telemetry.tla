----------------------------- MODULE Telemetry ------------------------------
(***************************************************************************)
(* The demo's requests seen from the feed: what becomes of each on the     *)
(* server, and the envelopes the worker emits on the way.  Emitting is     *)
(* best effort and the worker's connection buffers it, so an envelope may  *)
(* come late, overtaken by those of another worker, or not at all.         *)
(* Pipeline has the server in full; here it is no more than what orders    *)
(* the envelopes.  The workers' clocks are taken to agree.                 *)
(***************************************************************************)
EXTENDS Naturals, Sequences, FiniteSets, Functions

CONSTANTS
  MaxRuns,                  \* bound on requests, each a correlation id
  MaxAttempts, TransientSuccessAttempt,
  MaxInFlight, MaxEmitted,  \* bounds on envelopes under way, and in all
  MaxTroubles               \* bound on troubles and lost envelopes

ASSUME TelemetryAssumption ==
  /\ {MaxRuns, MaxAttempts, TransientSuccessAttempt} \subseteq Nat \ {0}
  /\ {MaxInFlight, MaxEmitted, MaxTroubles} \subseteq Nat

Runs == 1 .. MaxRuns

\* What carries a request: its message and, each from one trouble, further ones
\* that the broker delivers again although the first went on.
Copies == 1 .. MaxTroubles + 1
ScenarioIds == {"happy", "invalid_signature", "stale_timestamp", "duplicate", "transient",
                "exhaust", "permanent", "poison", "malformed"}

VARIABLES
  kind,      \* each request's scenario
  event,     \* whose event_id it carries: that of the run named
  at,        \* where each copy of its message is, and what it was condemned after
  answer,    \* what the API answered
  row,       \* each event's row
  clock,     \* how many envelopes each run has emitted: their timestamps
  feed,      \* envelopes emitted and not delivered
  troubles

serverVars == <<kind, event, at, answer, row, clock, feed, troubles>>

Places == {"none", "posted", "refused", "queued", "held", "tier", "condemned", "dead", "done"}
Statuses == {"none", "202", "400", "401", "503"}
Nowhere == [place |-> "none", tries |-> 0]
NewRow == [status |-> "received", attempts |-> 0]

ServerInit ==
  /\ kind = [r \in Runs |-> "happy"]
  /\ event = [r \in Runs |-> r]
  /\ at = [m \in Runs \X Copies |-> Nowhere]
  /\ answer = [r \in Runs |-> "none"]
  /\ row = [r \in Runs |-> NewRow]
  /\ clock = [r \in Runs |-> 0]
  /\ feed = {}
  /\ troubles = 0

At(r, c, place) == at[r, c].place = place
Goes(r, c, place) == at' = [at EXCEPT ![<<r, c>>] = [place |-> place, tries |-> 0]]

\* The request leaves the browser.
Posted(r, scenario, e) ==
  /\ kind' = [kind EXCEPT ![r] = scenario]
  /\ event' = [event EXCEPT ![r] = e]
  /\ Goes(r, 1, "posted")
  /\ UNCHANGED <<answer, row, clock, feed, troubles>>

\* The stages emitted one after the other, all with this attempt count.
Emit(r, stages, attempts) ==
  /\ Cardinality(feed) + Len(stages) <= MaxInFlight
  /\ FoldFunction(+, Len(stages), clock) <= MaxEmitted
  /\ feed' = feed \cup {[run |-> r, stage |-> stages[i], attempts |-> attempts,
                         ts |-> clock[r] + i] : i \in DOMAIN stages}
  /\ clock' = [clock EXCEPT ![r] = @ + Len(stages)]

-----------------------------------------------------------------------------
\* The guard and the validation pipe refuse; the broker may fail to confirm a
\* message that it has queued.
Refusal(scenario) ==
  IF scenario \in {"invalid_signature", "stale_timestamp"} THEN "401"
  ELSE IF scenario = "malformed" THEN "400" ELSE "none"

Serve(r, status, place) ==
  /\ At(r, 1, "posted")
  /\ answer' = [answer EXCEPT ![r] = status]
  /\ Goes(r, 1, place)
  /\ UNCHANGED <<kind, event, row, clock, feed, troubles>>

ServeRefused(r) == Refusal(kind[r]) # "none" /\ Serve(r, Refusal(kind[r]), "refused")
ServeAccepted(r) == Refusal(kind[r]) = "none" /\ Serve(r, "202", "queued")
ServeUnconfirmed(r) ==
  Refusal(kind[r]) = "none" /\ \E place \in {"refused", "queued"} : Serve(r, "503", place)

Consume(r, c) ==
  /\ At(r, c, "queued") /\ kind[r] # "poison"
  /\ Emit(r, <<"consuming">>, 0)
  /\ Goes(r, c, "held")
  /\ UNCHANGED <<kind, event, answer, row, troubles>>

ConsumeUnparseable(r, c) ==
  /\ At(r, c, "queued") /\ kind[r] = "poison"
  /\ Emit(r, <<"dead">>, 0)
  /\ Goes(r, c, "done")
  /\ UNCHANGED <<kind, event, answer, row, troubles>>

\* What the demo handler makes of an attempt; the outage of "exhaust" ends some day.
Verdicts(scenario, attempt) ==
  LET failed == IF attempt >= MaxAttempts THEN "dead" ELSE "retry"
  IN CASE scenario = "permanent" -> {"dead"}
       [] scenario = "exhaust" -> {failed, "processed"}
       [] scenario = "transient" /\ attempt < TransientSuccessAttempt -> {failed}
       [] OTHER -> {"processed"}

\* process() emits the outcome, unless it is dead, and its caller the decision.
Decide(r, c, outcome, attempts, status, place) ==
  /\ At(r, c, "held")
  /\ Emit(r, IF outcome = "dead" THEN <<"processing_decision">>
             ELSE <<outcome, "processing_decision">>, attempts)
  /\ row' = [row EXCEPT ![event[r]] = [status |-> status, attempts |-> attempts]]
  /\ at' = [at EXCEPT ![<<r, c>>] =
              [place |-> place, tries |-> IF place = "condemned" THEN attempts ELSE 0]]
  /\ UNCHANGED <<kind, event, answer, troubles>>

\* A dead letter of the event is out: its consumer may have marked the row.
Buried(e) == \E q \in Runs, d \in Copies : event[q] = e /\ At(q, d, "dead")

DecideSettled(r, c) ==
  LET seen == row[event[r]]
  IN \/ seen.status \in {"processed", "dead"}
        /\ Decide(r, c, "duplicate", seen.attempts, seen.status, "done")
     \/ seen.status = "failed" /\ Buried(event[r])
        /\ Decide(r, c, "duplicate", seen.attempts, "dead", "done")
     \/ seen.status = "failed"
        /\ Decide(r, c, "dead", seen.attempts, seen.status, "condemned")

Attempt(r, c) ==
  LET seen == row[event[r]]
      attempt == seen.attempts + 1
  IN /\ seen.status \in {"received", "processing"}
     /\ \E outcome \in Verdicts(kind[r], attempt) :
          Decide(r, c, outcome, attempt,
                 [processed |-> "processed", retry |-> "processing", dead |-> "failed"][outcome],
                 [processed |-> "done", retry |-> "tier", dead |-> "condemned"][outcome])

\* The next attempt: out of the tier, or because the delivery came again.
TierExpires(r, c) ==
  /\ At(r, c, "tier")
  /\ Goes(r, c, "queued")
  /\ UNCHANGED <<kind, event, answer, row, clock, feed, troubles>>

\* The dead letter first, the envelope after it.
PublishDead(r, c) ==
  /\ At(r, c, "condemned")
  /\ Emit(r, <<"dead">>, at[r, c].tries)
  /\ Goes(r, c, "dead")
  /\ UNCHANGED <<kind, event, answer, row, troubles>>

\* A delivery comes again, its ack lost: what it had published goes on beside it.
Redeliver(r, c) ==
  /\ troubles < MaxTroubles
  /\ troubles' = troubles + 1
  /\ \/ at[r, c].place \in {"held", "condemned", "done"} /\ Goes(r, c, "queued")
     \/ /\ at[r, c].place \in {"tier", "dead"}
        /\ \E d \in Copies : At(r, d, "none") /\ Goes(r, d, "queued")
  /\ UNCHANGED <<kind, event, answer, row, clock, feed>>

Replay(r, c) ==
  /\ troubles < MaxTroubles
  /\ At(r, c, "dead")
  /\ troubles' = troubles + 1
  /\ row' = [row EXCEPT ![event[r]] = NewRow]
  /\ Goes(r, c, "queued")
  /\ UNCHANGED <<kind, event, answer, clock, feed>>

\* The gateway's copy for every client.
broadcast(envelope) ==
  /\ feed' = feed \ {envelope}
  /\ UNCHANGED <<kind, event, at, answer, row, clock, troubles>>

\* swallow(): the publish failed.
Lose(envelope) ==
  /\ troubles < MaxTroubles
  /\ troubles' = troubles + 1
  /\ feed' = feed \ {envelope}
  /\ UNCHANGED <<kind, event, at, answer, row, clock>>

ServerStep ==
  \/ \E r \in Runs : ServeRefused(r) \/ ServeAccepted(r) \/ ServeUnconfirmed(r)
  \/ \E r \in Runs, c \in Copies :
       \/ Consume(r, c) \/ ConsumeUnparseable(r, c)
       \/ DecideSettled(r, c) \/ Attempt(r, c)
       \/ TierExpires(r, c) \/ PublishDead(r, c)
       \/ Redeliver(r, c) \/ Replay(r, c)
  \/ \E envelope \in feed : Lose(envelope)
=============================================================================
