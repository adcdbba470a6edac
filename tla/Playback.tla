------------------------------ MODULE Playback ------------------------------
(***************************************************************************)
(* The pipeline view: each token's ball walks the boxes of its path, moved *)
(* by an interval timer in the slow demo and put at its end in real time,  *)
(* while the visitor pauses, steps and switches, and stages still arrive.  *)
(* Every time stamp is kept as its distance from now, in timer ticks: the  *)
(* code's at and pausedAt are now - age and now - pausedFor.  React runs   *)
(* a render's effects before the next update, so Settle is part of each    *)
(* step.                                                                   *)
(***************************************************************************)
EXTENDS Token

CONSTANTS
  Balls,       \* the tokens' correlation ids
  Stories,     \* what the feed brings: functions from some balls to sets of stage events
  Hop,         \* HOP_MS in ticks
  Tier,        \* RETRY_BOX_MS in ticks, by box
  Old,         \* ages are told apart up to here
  MaxPause,    \* bound on the length of a pause
  MaxClicks    \* bound on the visitor's clicks

ASSUME PlaybackAssumption ==
  /\ Hop \in Nat /\ Old \in Nat /\ MaxPause \in Nat /\ MaxClicks \in Nat
  /\ \A story \in Stories :
       DOMAIN story \subseteq Balls /\ \A b \in DOMAIN story : story[b] \subseteq Entries
  /\ Tier \in [RetryBoxes -> Nat]
  /\ Hop <= Old /\ \A box \in RetryBoxes : Tier[box] <= Old

VARIABLES
  coming,     \* ball -> stage events that have not arrived yet
  tokens,     \* the reducer's tokens
  walk,       \* ball -> index into its path, and the age of at
  slow,       \* slow demo, or real time
  paused,     \* pausedAt # null
  pausedFor,  \* the age of pausedAt
  due,        \* TICK_MS have passed since the interval was last set
  settledRef, \* balls whose settling was notified
  clicks,
  \* history
  held,       \* ball -> unpaused ticks since the walk last put it somewhere
  inTier,     \* ball -> box -> unpaused ticks it was shown there
  disturbed   \* balls stepped, shown in real time, or moved by a late stage

visitorVars == <<slow, paused, pausedFor>>
vars == <<coming, tokens, walk, visitorVars, due, settledRef, clicks, held, inTier,
          disturbed>>

LesserOf(a, b) == IF a <= b THEN a ELSE b
GreaterOf(a, b) == IF a >= b THEN a ELSE b

Init ==
  /\ coming \in Stories
  /\ tokens = [b \in {} |-> NewToken("received", 0)]
  /\ walk = [b \in {} |-> [index |-> 1, age |-> 0]]
  /\ slow = TRUE /\ paused = FALSE /\ pausedFor = 0
  /\ due = FALSE
  /\ settledRef = {} /\ clicks = 0
  /\ held = [b \in Balls |-> 0]
  /\ inTier = [b \in Balls |-> [box \in RetryBoxes |-> 0]]
  /\ disturbed = {}

-----------------------------------------------------------------------------
(* Where a ball is shown.                                                   *)

End(b) == Len(pathOf(tokens[b]))

\* The walk's entry, or the one its first update gives it.
Entry(b, age) == IF b \in DOMAIN walk THEN walk[b] ELSE [index |-> 1, age |-> age]

\* The entry with another time stamp.
Aged(b, age) == [index |-> walk[b].index, age |-> age]

shown(b, path) == IF slow THEN LesserOf(Entry(b, 0).index, Len(path)) ELSE Len(path)
shownBox(b) == LET path == pathOf(tokens[b]) IN path[shown(b, path)]
atEnd(b) == LET path == pathOf(tokens[b]) IN shown(b, path) = Len(path)
terminal(b) == isTerminal(tokens[b].currentStage)

\* onSettled, once for a terminal token whose ball is at its end.
Settle ==
  settledRef' = settledRef \cup
    {b \in DOMAIN tokens' : (terminal(b) /\ atEnd(b))'}

\* The interval of the effect: set anew when tokens, the pace or the pause change.
Running == slow /\ ~paused
Rearm == due' = FALSE

-----------------------------------------------------------------------------
(* Time: the ball of a new token has no entry until the walk's next update. *)

Clock ==
  /\ paused => pausedFor < MaxPause
  /\ UNCHANGED <<coming, tokens, slow, paused, clicks, disturbed>>
  /\ pausedFor' = IF paused THEN pausedFor + 1 ELSE 0
  /\ walk' = [b \in DOMAIN walk |->
                Aged(b, IF paused THEN walk[b].age + 1
                        ELSE LesserOf(walk[b].age + 1, Old))]
  /\ due' = Running
  /\ held' = IF paused THEN held
             ELSE [b \in Balls |-> IF b \in DOMAIN walk THEN LesserOf(held[b] + 1, Old) ELSE 0]
  /\ inTier' = [b \in Balls |->
       IF Running /\ b \in DOMAIN walk /\ shownBox(b) \in RetryBoxes
       THEN [inTier[b] EXCEPT ![shownBox(b)] = LesserOf(@ + 1, Old)] ELSE inTier[b]]

Mut_AlwaysHop(box) == Hop
dwell(box) == IF box \in RetryBoxes THEN Tier[box] ELSE Hop

Mut_StopsShort(b) ==
  LET path == pathOf(tokens[b])
      entry == Entry(b, 0)
      index == LesserOf(entry.index, Len(path))
  IN IF index + 1 < Len(path) /\ entry.age >= dwell(path[index])
     THEN [index |-> index + 1, age |-> 0] ELSE [index |-> index, age |-> entry.age]

\* What the interval makes of one ball.
Walked(b) ==
  LET path == pathOf(tokens[b])
      entry == Entry(b, 0)
      index == LesserOf(entry.index, Len(path))
  IN IF index < Len(path) /\ entry.age >= dwell(path[index])
     THEN [index |-> index + 1, age |-> 0] ELSE [index |-> index, age |-> entry.age]

Interval ==
  /\ Running /\ due /\ due' = FALSE
  /\ UNCHANGED <<coming, tokens, visitorVars, clicks, inTier, disturbed>>
  /\ walk' = [b \in DOMAIN walk \cup DOMAIN tokens |->
                IF b \in DOMAIN tokens THEN Walked(b) ELSE walk[b]]
  /\ held' = [b \in Balls |->
                IF b \in DOMAIN tokens /\ walk'[b].age = 0 THEN 0 ELSE held[b]]

-----------------------------------------------------------------------------
(* The store: a token starts, or a stage of its reaches it.                 *)

TokenStarts(b) ==
  /\ b \in DOMAIN coming \ DOMAIN tokens
  /\ tokens' = [x \in DOMAIN tokens \cup {b} |->
                  IF x = b THEN NewToken("received", 0) ELSE tokens[x]]
  /\ disturbed' = IF slow THEN disturbed ELSE disturbed \cup {b}
  /\ Rearm
  /\ UNCHANGED <<coming, walk, visitorVars, clicks, held, inTier>>

\* A late stage of lower rank changes the path before its end, or when the ball
\* has settled there already.
Displaces(b, next) ==
  LET path == pathOf(tokens[b])
  IN ~IsPrefix(path, pathOf(next)) \/ (b \in settledRef /\ pathOf(next) # path)

StageArrives(b, event) ==
  /\ b \in DOMAIN tokens /\ event \in coming[b]
  /\ coming' = [coming EXCEPT ![b] = @ \ {event}]
  /\ tokens' = [tokens EXCEPT ![b] = withStage(@, event)]
  /\ disturbed' = IF Displaces(b, tokens'[b]) THEN disturbed \cup {b} ELSE disturbed
  /\ Rearm
  /\ UNCHANGED <<walk, visitorVars, clicks, held, inTier>>

-----------------------------------------------------------------------------
(* The visitor.  Pause and steps are offered in the slow demo only.         *)

Click == clicks < MaxClicks /\ clicks' = clicks + 1

Pause ==
  /\ Click
  /\ slow /\ ~paused
  /\ paused' = TRUE /\ pausedFor' = 0
  /\ Rearm
  /\ UNCHANGED <<coming, tokens, walk, slow, held, inTier, disturbed>>

Mut_ResumeKeepsStamps ==
  /\ Click
  /\ slow /\ paused
  /\ paused' = FALSE /\ pausedFor' = 0
  /\ walk' = [b \in DOMAIN walk |-> Aged(b, LesserOf(walk[b].age, Old))]
  /\ Rearm
  /\ UNCHANGED <<coming, tokens, slow, held, inTier, disturbed>>

\* Every at moves forward by the length of the pause.
Resume ==
  /\ Click
  /\ slow /\ paused
  /\ paused' = FALSE /\ pausedFor' = 0
  /\ walk' = [b \in DOMAIN walk |-> Aged(b, walk[b].age - pausedFor)]
  /\ Rearm
  /\ UNCHANGED <<coming, tokens, slow, held, inTier, disturbed>>

Mut_Unclamped(b, direction) ==
  [index |-> Entry(b, pausedFor).index + direction, age |-> pausedFor]

\* One box on or back, stamped with the pause's start, or with now.
Stepped(b, direction) ==
  [index |-> LesserOf(GreaterOf(Entry(b, pausedFor).index + direction, 1), End(b)),
   age |-> pausedFor]

\* The selected ball steps, or all of them; a step back pauses.
Step(direction, stepping) ==
  /\ Click
  /\ slow
  /\ walk' = [b \in DOMAIN walk \cup stepping |->
                IF b \in stepping THEN Stepped(b, direction) ELSE walk[b]]
  /\ paused' = (paused \/ direction = -1)
  /\ IF paused' = paused THEN UNCHANGED due ELSE Rearm
  /\ held' = [b \in Balls |-> IF b \in stepping THEN 0 ELSE held[b]]
  /\ disturbed' = disturbed \cup stepping
  /\ UNCHANGED <<coming, tokens, slow, pausedFor, inTier>>

SwitchPace ==
  /\ Click
  /\ slow' = ~slow
  /\ disturbed' = disturbed \cup DOMAIN tokens
  /\ Rearm
  /\ UNCHANGED <<coming, tokens, walk, paused, pausedFor, held, inTier>>

-----------------------------------------------------------------------------
Next ==
  /\ \/ Clock \/ Interval
     \/ \E b \in DOMAIN coming :
          TokenStarts(b) \/ \E event \in coming[b] : StageArrives(b, event)
     \/ Pause \/ Resume \/ SwitchPace
     \/ \E direction \in {-1, 1}, stepping \in {DOMAIN tokens} \cup {{b} : b \in DOMAIN tokens} :
          Step(direction, stepping)
  /\ Settle

Spec == Init /\ [][Next]_vars

\* The browser's clock and its timers run; feed and visitor owe nothing.
FairSpec ==
  /\ Spec
  /\ WF_<<walk, pausedFor, due, held, inTier>>(Clock)
  /\ WF_<<walk, due, held>>(Interval)
-----------------------------------------------------------------------------
(* A ball is shown in a box of its path, also after a late stage has made   *)
(* the path another, or a shorter one.                                      *)
TypeOK ==
  /\ DOMAIN walk \subseteq DOMAIN tokens /\ DOMAIN tokens \subseteq DOMAIN coming
  /\ \A b \in DOMAIN tokens : shown(b, pathOf(tokens[b])) \in 1 .. End(b)
  /\ \A b \in DOMAIN walk : walk[b].age \in 0 .. Old + MaxPause
  /\ slow \in BOOLEAN /\ paused \in BOOLEAN /\ due \in BOOLEAN
  /\ pausedFor \in 0 .. MaxPause
  /\ settledRef \subseteq DOMAIN tokens
  /\ clicks \in 0 .. MaxClicks
  /\ held \in [Balls -> 0 .. Old]
  /\ inTier \in [Balls -> [RetryBoxes -> 0 .. Old]]
  /\ disturbed \subseteq DOMAIN tokens

(* "the timer and the dwell can never disagree" (Pipeline.tsx:198), nor does *)
(* either count a pause: the stopwatch reads the unpaused time since the    *)
(* walk last placed the ball, whatever was paused, stepped and switched.    *)
StopwatchTrue ==
  \A b \in DOMAIN walk :
    held[b] = walk[b].age - (IF paused THEN pausedFor ELSE 0)

(* "the walk holds the token in the box for this long" instead of skipping  *)
(* ahead with the telemetry (Pipeline.tsx:25): a ball that nobody stepped   *)
(* or rushed, and no late stage displaced, was in each retry box of its     *)
(* path for the whole of the tier before it settled.                        *)
TiersAreHeld ==
  \A b \in settledRef \ disturbed : \A i \in 1 .. End(b) - 1 :
    LET box == pathOf(tokens[b])[i]
    IN box \in RetryBoxes => inTier[b][box] >= Tier[box]

(* The ball of a token that has come to its end comes to its end too, and   *)
(* says so, unless the visitor pauses for good: nothing the feed or the     *)
(* visitor does leaves the interval off.                                    *)
BallSettles ==
  \A b \in Balls :
    (b \in DOMAIN tokens /\ terminal(b)) ~> (b \in settledRef \/ [](slow /\ paused))
=============================================================================
