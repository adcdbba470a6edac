--------------------------- MODULE PlaybackProofs ---------------------------
(***************************************************************************)
(* The pipeline view, for any stories the feed brings, dwells and clicks.  *)
(* The stopwatch: a pause has a length only while it lasts, and only balls *)
(* of known tokens walk; which box an entry is at plays no part.  The      *)
(* boxes: every path has one for its ball, and a ball left alone gave each *)
(* retry box behind it its whole tier.                                     *)
(***************************************************************************)
EXTENDS Playback, TokenProofs, TLAPS

Known == DOMAIN walk \subseteq Balls /\ DOMAIN tokens \subseteq Balls
         /\ DOMAIN coming \subseteq Balls

Timed ==
  /\ paused \in BOOLEAN /\ pausedFor \in Int
  /\ ~paused => pausedFor = 0
  /\ held \in [Balls -> Int]
  /\ \A b \in DOMAIN walk : walk[b].age \in Int

StopwatchInv == Known /\ Timed /\ StopwatchTrue

LEMMA InitHasStopwatch == Init => StopwatchInv
<1> SUFFICES ASSUME Init PROVE StopwatchInv
  OBVIOUS
<1>1. Known
  BY PlaybackAssumption DEF Init, Known
<1>2. DOMAIN walk = {} /\ paused = FALSE /\ pausedFor = 0 /\ held = [b \in Balls |-> 0]
  BY DEF Init
<1>3. held \in [Balls -> Int] /\ pausedFor \in Int
  BY <1>2
<1>4. Timed
  BY <1>2, <1>3 DEF Timed
<1>5. StopwatchTrue
  BY <1>2 DEF StopwatchTrue
<1> QED
  BY <1>1, <1>4, <1>5 DEF StopwatchInv

LEMMA ClockKeeps == StopwatchInv /\ Clock => StopwatchInv'
<1> SUFFICES ASSUME StopwatchInv, Clock PROVE StopwatchInv'
  OBVIOUS
<1>1. Known'
  BY DEF Clock, Known, StopwatchInv
<1>2. paused' = paused /\ pausedFor' = IF paused THEN pausedFor + 1 ELSE 0
  BY DEF Clock
<1>3. \A b \in DOMAIN walk :
        walk'[b].age = IF paused THEN walk[b].age + 1 ELSE LesserOf(walk[b].age + 1, Old)
  BY DEF Clock, Aged
<1>4. held' = IF paused THEN held
              ELSE [b \in Balls |-> IF b \in DOMAIN walk THEN LesserOf(held[b] + 1, Old) ELSE 0]
  BY DEF Clock
<1>5. DOMAIN walk' = DOMAIN walk
  BY DEF Clock
<1>6. \A b \in DOMAIN walk : b \in Balls /\ walk[b].age \in Int /\ held[b] \in Int
  BY DEF StopwatchInv, Known, Timed
<1>7. CASE paused
  <2>1. Timed'
    BY <1>2, <1>3, <1>4, <1>5, <1>7 DEF StopwatchInv, Timed
  <2>2. StopwatchTrue'
    BY <1>2, <1>3, <1>4, <1>5, <1>6, <1>7 DEF StopwatchInv, Timed, StopwatchTrue
  <2> QED
    BY <1>1, <2>1, <2>2 DEF StopwatchInv
<1>8. CASE ~paused
  <2>1. \A x \in Int : LesserOf(x + 1, Old) \in Int
    BY PlaybackAssumption DEF LesserOf
  <2>2. Timed'
    BY <1>2, <1>3, <1>4, <1>5, <1>6, <1>8, <2>1 DEF StopwatchInv, Timed
  <2>3. \A b \in DOMAIN walk : held[b] = walk[b].age
    BY <1>6, <1>8 DEF StopwatchInv, StopwatchTrue
  <2>4. \A b \in DOMAIN walk : held'[b] = walk'[b].age - 0
    BY <1>3, <1>4, <1>6, <1>8, <2>1, <2>3
  <2>5. StopwatchTrue'
    BY <1>2, <1>5, <1>8, <2>4 DEF StopwatchTrue
  <2> QED
    BY <1>1, <2>2, <2>5 DEF StopwatchInv
<1> QED
  BY <1>7, <1>8

\* The interval gives a ball a new stamp, or leaves it the one it had.
LEMMA WalkedAge ==
  ASSUME NEW b
  PROVE  Walked(b).age \in {0, Entry(b, 0).age}
  BY DEF Walked

LEMMA IntervalKeeps == StopwatchInv /\ Interval => StopwatchInv'
<1> SUFFICES ASSUME StopwatchInv, Interval PROVE StopwatchInv'
  OBVIOUS
<1>1. Known'
  BY DEF Interval, visitorVars, Known, StopwatchInv
<1>2. paused' = paused /\ pausedFor' = pausedFor /\ ~paused
  BY DEF Interval, visitorVars, Running
<1>3. DOMAIN walk' = DOMAIN walk \cup DOMAIN tokens
  BY DEF Interval
<1>4. \A b \in DOMAIN walk' :
        walk'[b] = IF b \in DOMAIN tokens THEN Walked(b) ELSE walk[b]
  BY DEF Interval
<1>5. held' = [b \in Balls |->
                 IF b \in DOMAIN tokens /\ walk'[b].age = 0 THEN 0 ELSE held[b]]
  BY DEF Interval
<1>6. ASSUME NEW b \in DOMAIN walk'
      PROVE  walk'[b].age \in Int /\ held'[b] = walk'[b].age
  <2>1. b \in Balls
    BY <1>1 DEF Known
  <2>2. CASE b \in DOMAIN tokens
    <3>1. walk'[b].age \in {0, Entry(b, 0).age}
      BY <1>4, <2>2, WalkedAge
    <3>2. CASE walk'[b].age = 0
      BY <1>5, <2>1, <2>2, <3>2
    <3>3. CASE walk'[b].age # 0
      <4>1. b \in DOMAIN walk /\ walk'[b].age = walk[b].age
        BY <3>1, <3>3 DEF Entry
      <4>2. held'[b] = held[b]
        BY <1>5, <2>1, <3>3
      <4> QED
        BY <4>1, <4>2, <1>2 DEF StopwatchInv, StopwatchTrue, Timed
    <3> QED
      BY <3>2, <3>3
  <2>3. CASE b \notin DOMAIN tokens
    <3>1. b \in DOMAIN walk /\ walk'[b] = walk[b] /\ held'[b] = held[b]
      BY <1>3, <1>4, <1>5, <2>1, <2>3
    <3> QED
      BY <3>1, <1>2 DEF StopwatchInv, StopwatchTrue, Timed
  <2> QED
    BY <2>2, <2>3
<1>7. Timed'
  BY <1>2, <1>5, <1>6 DEF StopwatchInv, Timed
<1>8. StopwatchTrue'
  BY <1>2, <1>6 DEF StopwatchTrue
<1> QED
  BY <1>1, <1>7, <1>8 DEF StopwatchInv

LEMMA ResumeKeeps == StopwatchInv /\ Resume => StopwatchInv'
<1> SUFFICES ASSUME StopwatchInv, Resume PROVE StopwatchInv'
  OBVIOUS
<1>1. /\ paused /\ ~paused' /\ paused' \in BOOLEAN /\ pausedFor' = 0
      /\ held' = held /\ tokens' = tokens /\ coming' = coming
      /\ DOMAIN walk' = DOMAIN walk
  BY DEF Resume
<1>2. \A b \in DOMAIN walk : walk'[b].age = walk[b].age - pausedFor
  BY DEF Resume, Aged
<1> QED
  BY <1>1, <1>2 DEF StopwatchInv, Known, Timed, StopwatchTrue

\* A step stamps a ball with now, seen from the pause's start if there is one.
LEMMA StepKeeps ==
  ASSUME StopwatchInv, NEW direction \in {-1, 1}, NEW stepping \in SUBSET DOMAIN tokens,
         Step(direction, stepping)
  PROVE  StopwatchInv'
<1>1. /\ tokens' = tokens /\ coming' = coming /\ pausedFor' = pausedFor
      /\ paused' = (paused \/ direction = -1)
      /\ DOMAIN walk' = DOMAIN walk \cup stepping
      /\ held' = [b \in Balls |-> IF b \in stepping THEN 0 ELSE held[b]]
  BY DEF Step
<1>2. \A b \in DOMAIN walk' :
        walk'[b].age = IF b \in stepping THEN pausedFor ELSE walk[b].age
  BY DEF Step, Stepped
<1>3. Known'
  BY <1>1 DEF StopwatchInv, Known
<1>4. paused' \in BOOLEAN /\ (paused => paused') /\ (~paused => pausedFor = 0)
  BY <1>1 DEF StopwatchInv, Timed
<1>5. Timed'
  BY <1>1, <1>2, <1>4 DEF StopwatchInv, Known, Timed
<1>6. ASSUME NEW b \in DOMAIN walk'
      PROVE  held'[b] = walk'[b].age - (IF paused' THEN pausedFor' ELSE 0)
  <2>1. b \in Balls
    BY <1>3 DEF Known
  <2>2. (IF paused' THEN pausedFor' ELSE 0) = pausedFor
    BY <1>1, <1>4
  <2>3. CASE b \in stepping
    BY <1>1, <1>2, <2>1, <2>2, <2>3 DEF StopwatchInv, Timed
  <2>4. CASE b \notin stepping
    <3>1. b \in DOMAIN walk /\ held'[b] = held[b] /\ walk'[b].age = walk[b].age
      BY <1>1, <1>2, <2>1, <2>4
    <3>2. (IF paused THEN pausedFor ELSE 0) = pausedFor
      BY <1>4
    <3> QED
      BY <3>1, <3>2, <2>2 DEF StopwatchInv, StopwatchTrue
  <2> QED
    BY <2>3, <2>4
<1> QED
  BY <1>3, <1>5, <1>6 DEF StopwatchInv, StopwatchTrue

\* A stage, or a click that moves no stamp: the start of a pause among them.
LEMMA OthersKeep ==
  ASSUME StopwatchInv, Known', walk' = walk, held' = held, pausedFor' = pausedFor,
         paused' \in BOOLEAN, paused => paused'
  PROVE  StopwatchInv'
<1>1. Timed'
  BY DEF StopwatchInv, Timed
<1>2. StopwatchTrue'
  BY DEF StopwatchInv, Timed, StopwatchTrue
<1> QED
  BY <1>1, <1>2 DEF StopwatchInv

LEMMA StopwatchNext == StopwatchInv /\ [Next]_vars => StopwatchInv'
<1> SUFFICES ASSUME StopwatchInv, [Next]_vars PROVE StopwatchInv'
  OBVIOUS
<1>1. CASE Clock
  BY <1>1, ClockKeeps
<1>2. CASE Interval
  BY <1>2, IntervalKeeps
<1>3. ASSUME NEW b \in DOMAIN coming, TokenStarts(b) PROVE StopwatchInv'
  <2>1. /\ coming' = coming /\ DOMAIN tokens' = DOMAIN tokens \cup {b}
        /\ walk' = walk /\ held' = held /\ paused' = paused /\ pausedFor' = pausedFor
    BY <1>3 DEF TokenStarts, visitorVars
  <2>2. Known'
    BY <2>1 DEF StopwatchInv, Known
  <2> QED
    BY <2>1, <2>2, OthersKeep DEF StopwatchInv, Timed
<1>4. ASSUME NEW b \in DOMAIN coming, NEW event \in coming[b], StageArrives(b, event)
      PROVE  StopwatchInv'
  <2>1. /\ DOMAIN coming' = DOMAIN coming /\ DOMAIN tokens' = DOMAIN tokens
        /\ walk' = walk /\ held' = held /\ paused' = paused /\ pausedFor' = pausedFor
    BY <1>4 DEF StageArrives, visitorVars
  <2>2. Known'
    BY <2>1 DEF StopwatchInv, Known
  <2> QED
    BY <2>1, <2>2, OthersKeep DEF StopwatchInv, Timed
<1>5. CASE Pause
  <2>1. /\ coming' = coming /\ tokens' = tokens /\ walk' = walk /\ held' = held
        /\ paused' = TRUE /\ pausedFor' = 0 /\ ~paused
    BY <1>5 DEF Pause
  <2>2. Known' /\ pausedFor' = pausedFor
    BY <2>1 DEF StopwatchInv, Known, Timed
  <2> QED
    BY <2>1, <2>2, OthersKeep
<1>6. CASE Resume
  BY <1>6, ResumeKeeps
<1>7. CASE SwitchPace
  <2>1. /\ coming' = coming /\ tokens' = tokens /\ walk' = walk /\ held' = held
        /\ paused' = paused /\ pausedFor' = pausedFor
    BY <1>7 DEF SwitchPace
  <2>2. Known'
    BY <2>1 DEF StopwatchInv, Known
  <2> QED
    BY <2>1, <2>2, OthersKeep DEF StopwatchInv, Timed
<1>8. ASSUME NEW direction \in {-1, 1},
             NEW stepping \in {DOMAIN tokens} \cup {{b} : b \in DOMAIN tokens},
             Step(direction, stepping)
      PROVE  StopwatchInv'
  <2>1. stepping \in SUBSET DOMAIN tokens
    OBVIOUS
  <2> QED
    BY <1>8, <2>1, StepKeeps
<1>9. CASE UNCHANGED vars
  <2>1. Known'
    BY <1>9 DEF vars, StopwatchInv, Known
  <2> QED
    BY <1>9, <2>1, OthersKeep DEF vars, visitorVars, StopwatchInv, Timed
<1> QED
  BY <1>1, <1>2, <1>3, <1>4, <1>5, <1>6, <1>7, <1>8, <1>9 DEF Next

\* The stopwatch of a ball reads the unpaused time since the walk last placed
\* it, whatever was paused, resumed, stepped and switched, for any paths.
THEOREM StopwatchNeverLies == Spec => []StopwatchTrue
<1>1. StopwatchInv => StopwatchTrue
  BY DEF StopwatchInv
<1> QED
  BY <1>1, InitHasStopwatch, StopwatchNext, PTL DEF Spec

-----------------------------------------------------------------------------
(* Shapes: every ball walks on a path that has a box for it.                *)

Shaped ==
  /\ slow \in BOOLEAN /\ due \in BOOLEAN
  /\ pausedFor \in 0 .. MaxPause /\ clicks \in 0 .. MaxClicks
  /\ \A b \in DOMAIN coming : coming[b] \subseteq Entries
  /\ DOMAIN walk \subseteq DOMAIN tokens /\ DOMAIN tokens \subseteq DOMAIN coming
  /\ settledRef \subseteq DOMAIN tokens /\ disturbed \subseteq DOMAIN tokens
  /\ \A b \in DOMAIN tokens : \E n \in Nat \ {0} : HasStages(tokens[b], n)
  /\ \A b \in DOMAIN walk : walk[b].index \in Nat \ {0}
  /\ held \in [Balls -> 0 .. Old]
  /\ inTier \in [Balls -> [RetryBoxes -> 0 .. Old]]

LEMMA PathLong ==
  ASSUME NEW token, \E n \in Nat \ {0} : HasStages(token, n)
  PROVE  pathOf(token) \in Seq(Boxes) /\ Len(pathOf(token)) \in Nat \ {0}
<1>1. PICK n \in Nat \ {0} : HasStages(token, n)
  OBVIOUS
<1>2. PICK l \in Nat \ {0} : Reaches(pathOf(token), l, nodeOf(token.stages[n]))
  BY <1>1, PathReaches
<1> QED
  BY <1>2 DEF Reaches

LEMMA TickInRange == \A x \in 0 .. Old : LesserOf(x + 1, Old) \in 0 .. Old
  BY PlaybackAssumption DEF LesserOf

LEMMA InitShaped == Init => Shaped
<1> SUFFICES ASSUME Init PROVE Shaped
  OBVIOUS
<1>1. /\ coming \in Stories /\ DOMAIN tokens = {} /\ DOMAIN walk = {}
      /\ slow = TRUE /\ due = FALSE /\ pausedFor = 0 /\ clicks = 0
      /\ settledRef = {} /\ disturbed = {}
      /\ held = [b \in Balls |-> 0] /\ inTier = [b \in Balls |-> [box \in RetryBoxes |-> 0]]
  BY DEF Init
<1>2. \A b \in DOMAIN coming : coming[b] \subseteq Entries
  BY <1>1, PlaybackAssumption
<1>3. 0 \in 0 .. Old /\ 0 \in 0 .. MaxPause /\ 0 \in 0 .. MaxClicks
  BY PlaybackAssumption
<1>4. held \in [Balls -> 0 .. Old] /\ inTier \in [Balls -> [RetryBoxes -> 0 .. Old]]
  BY <1>1, <1>3
<1> QED
  BY <1>1, <1>2, <1>3, <1>4 DEF Shaped

\* A step that leaves the tokens and what is coming alone.
LEMMA WalkShaped ==
  ASSUME Shaped, tokens' = tokens, coming' = coming,
         slow' \in BOOLEAN, due' \in BOOLEAN, pausedFor' \in 0 .. MaxPause,
         clicks' = clicks \/ Click, DOMAIN walk' \subseteq DOMAIN tokens,
         disturbed' \subseteq DOMAIN tokens, settledRef' \subseteq DOMAIN tokens,
         \A b \in DOMAIN walk' : walk'[b].index \in Nat \ {0},
         held' \in [Balls -> 0 .. Old], inTier' \in [Balls -> [RetryBoxes -> 0 .. Old]]
  PROVE  Shaped'
<1>1. clicks' \in 0 .. MaxClicks
  BY PlaybackAssumption DEF Shaped, Click
<1> QED
  BY <1>1 DEF Shaped

LEMMA ClockShaped ==
  Shaped /\ Known /\ paused \in BOOLEAN /\ Clock /\ settledRef' \subseteq DOMAIN tokens' => Shaped'
<1> SUFFICES ASSUME Shaped, Known, paused \in BOOLEAN, Clock, settledRef' \subseteq DOMAIN tokens'
             PROVE  Shaped'
  OBVIOUS
<1>1. /\ tokens' = tokens /\ coming' = coming /\ slow' = slow /\ clicks' = clicks
      /\ disturbed' = disturbed
  BY DEF Clock
<1>2. pausedFor' \in 0 .. MaxPause
  BY PlaybackAssumption DEF Clock, Shaped
<1>3. due' \in BOOLEAN
  BY DEF Clock, Running, Shaped
<1>4. DOMAIN walk' = DOMAIN walk /\ \A b \in DOMAIN walk : walk'[b].index = walk[b].index
  BY DEF Clock, Aged
<1>5. held' \in [Balls -> 0 .. Old]
  <2>1. held' = IF paused THEN held
                ELSE [b \in Balls |-> IF b \in DOMAIN walk THEN LesserOf(held[b] + 1, Old) ELSE 0]
    BY DEF Clock
  <2>2. 0 \in 0 .. Old /\ \A b \in Balls : LesserOf(held[b] + 1, Old) \in 0 .. Old
    BY PlaybackAssumption, TickInRange DEF Shaped
  <2> QED
    BY <2>1, <2>2 DEF Shaped
<1>6. inTier' \in [Balls -> [RetryBoxes -> 0 .. Old]]
  <2>1. inTier' = [b \in Balls |->
          IF Running /\ b \in DOMAIN walk /\ shownBox(b) \in RetryBoxes
          THEN [inTier[b] EXCEPT ![shownBox(b)] = LesserOf(@ + 1, Old)] ELSE inTier[b]]
    BY DEF Clock
  <2>2. ASSUME NEW b \in Balls, NEW box \in RetryBoxes
        PROVE  [inTier[b] EXCEPT ![box] = LesserOf(@ + 1, Old)] \in [RetryBoxes -> 0 .. Old]
    BY TickInRange DEF Shaped
  <2>3. \A b \in Balls : inTier[b] \in [RetryBoxes -> 0 .. Old]
    BY DEF Shaped
  <2> QED
    BY <2>1, <2>2, <2>3
<1> QED
  BY <1>1, <1>2, <1>3, <1>4, <1>5, <1>6, WalkShaped DEF Shaped

\* Where the interval leaves a ball: on the path, no further than the next box.
LEMMA WalkedIndex ==
  ASSUME Shaped, NEW b \in DOMAIN tokens
  PROVE  Walked(b).index \in 1 .. End(b)
<1>1. End(b) \in Nat \ {0}
  BY PathLong DEF Shaped, End
<1>2. Entry(b, 0).index \in Nat \ {0}
  BY DEF Entry, Shaped
<1>3. LesserOf(Entry(b, 0).index, End(b)) \in 1 .. End(b)
  BY <1>1, <1>2 DEF LesserOf
<1> DEFINE index == LesserOf(Entry(b, 0).index, End(b))
<1>4. Walked(b).index = index \/ (index < End(b) /\ Walked(b).index = index + 1)
  BY DEF Walked, End
<1> HIDE DEF index
<1> QED
  BY <1>1, <1>3, <1>4 DEF index

LEMMA IntervalShaped ==
  Shaped /\ Known /\ Interval /\ settledRef' \subseteq DOMAIN tokens' => Shaped'
<1> SUFFICES ASSUME Shaped, Known, Interval, settledRef' \subseteq DOMAIN tokens' PROVE Shaped'
  OBVIOUS
<1>1. /\ tokens' = tokens /\ coming' = coming /\ slow' = slow /\ clicks' = clicks
      /\ disturbed' = disturbed /\ pausedFor' = pausedFor /\ inTier' = inTier /\ due' = FALSE
  BY DEF Interval, visitorVars
<1>2. /\ DOMAIN walk' = DOMAIN walk \cup DOMAIN tokens
      /\ \A b \in DOMAIN walk' : walk'[b] = IF b \in DOMAIN tokens THEN Walked(b) ELSE walk[b]
  BY DEF Interval
<1>3. \A b \in DOMAIN walk' : walk'[b].index \in Nat \ {0}
  <2>1. ASSUME NEW b \in DOMAIN tokens PROVE Walked(b).index \in Nat \ {0}
    <3>1. End(b) \in Nat \ {0}
      BY PathLong DEF Shaped, End
    <3> QED
      BY <3>1, WalkedIndex
  <2> QED
    BY <1>2, <2>1 DEF Shaped
<1>4. held' \in [Balls -> 0 .. Old]
  <2>1. held' = [b \in Balls |->
                   IF b \in DOMAIN tokens /\ walk'[b].age = 0 THEN 0 ELSE held[b]]
    BY DEF Interval
  <2>2. 0 \in 0 .. Old
    BY PlaybackAssumption
  <2> QED
    BY <2>1, <2>2 DEF Shaped
<1> QED
  BY <1>1, <1>2, <1>3, <1>4, WalkShaped DEF Shaped

LEMMA SteppedIndex ==
  ASSUME Shaped, NEW b \in DOMAIN tokens, NEW direction \in {-1, 1}
  PROVE  Stepped(b, direction).index \in Nat \ {0}
<1>1. End(b) \in Nat \ {0}
  BY PathLong DEF Shaped, End
<1>2. Entry(b, pausedFor).index \in Nat \ {0}
  BY DEF Entry, Shaped
<1> QED
  BY <1>1, <1>2 DEF Stepped, LesserOf, GreaterOf

LEMMA StepShaped ==
  ASSUME Shaped, Known, paused \in BOOLEAN,
         NEW direction \in {-1, 1}, NEW stepping \in SUBSET DOMAIN tokens,
         Step(direction, stepping), settledRef' \subseteq DOMAIN tokens'
  PROVE  Shaped'
<1>1. /\ tokens' = tokens /\ coming' = coming /\ slow' = slow /\ Click
      /\ disturbed' = disturbed \cup stepping /\ pausedFor' = pausedFor /\ inTier' = inTier
      /\ due' = due \/ due' = FALSE
  BY DEF Step, Rearm
<1>2. /\ DOMAIN walk' = DOMAIN walk \cup stepping
      /\ \A b \in DOMAIN walk' :
           walk'[b] = IF b \in stepping THEN Stepped(b, direction) ELSE walk[b]
  BY DEF Step
<1>3. \A b \in DOMAIN walk' : walk'[b].index \in Nat \ {0}
  BY <1>2, SteppedIndex DEF Shaped
<1>4. held' \in [Balls -> 0 .. Old]
  <2>1. held' = [b \in Balls |-> IF b \in stepping THEN 0 ELSE held[b]]
    BY DEF Step
  <2>2. 0 \in 0 .. Old
    BY PlaybackAssumption
  <2> QED
    BY <2>1, <2>2 DEF Shaped
<1> QED
  BY <1>1, <1>2, <1>3, <1>4, WalkShaped DEF Shaped

\* A click that moves no ball.
LEMMA ClickShaped ==
  Shaped /\ (Pause \/ Resume \/ SwitchPace) /\ settledRef' \subseteq DOMAIN tokens' => Shaped'
<1> SUFFICES ASSUME Shaped, Pause \/ Resume \/ SwitchPace, settledRef' \subseteq DOMAIN tokens'
             PROVE  Shaped'
  OBVIOUS
<1>1. /\ tokens' = tokens /\ coming' = coming /\ Click /\ inTier' = inTier /\ held' = held
      /\ due' = FALSE /\ slow' \in BOOLEAN
      /\ disturbed' \subseteq disturbed \cup DOMAIN tokens
  BY DEF Pause, Resume, SwitchPace, Rearm, Shaped
<1>2. pausedFor' \in 0 .. MaxPause
  BY PlaybackAssumption DEF Pause, Resume, SwitchPace, Shaped
<1>3. DOMAIN walk' = DOMAIN walk /\ \A b \in DOMAIN walk : walk'[b].index = walk[b].index
  BY DEF Pause, Resume, SwitchPace, Aged
<1> QED
  BY <1>1, <1>2, <1>3, WalkShaped DEF Shaped

LEMMA StartShaped ==
  ASSUME Shaped, NEW b \in DOMAIN coming, TokenStarts(b), settledRef' \subseteq DOMAIN tokens'
  PROVE  Shaped'
<1>1. /\ coming' = coming /\ walk' = walk /\ slow' = slow /\ pausedFor' = pausedFor
      /\ clicks' = clicks /\ held' = held /\ inTier' = inTier /\ due' = FALSE
      /\ disturbed' \subseteq disturbed \cup {b}
      /\ DOMAIN tokens' = DOMAIN tokens \cup {b}
      /\ \A x \in DOMAIN tokens' : tokens'[x] = IF x = b THEN NewToken("received", 0) ELSE tokens[x]
  BY DEF TokenStarts, visitorVars, Rearm
<1>2. HasStages(NewToken("received", 0), 1)
  <2>1. "received" \in Stages /\ "received" # "retry"
    BY Ranks
  <2> QED
    BY <2>1, NewTokenOK
<1>3. \A x \in DOMAIN tokens' : \E n \in Nat \ {0} : HasStages(tokens'[x], n)
  BY <1>1, <1>2 DEF Shaped
<1> QED
  BY <1>1, <1>3 DEF Shaped

LEMMA ArrivalShaped ==
  ASSUME Shaped, NEW b \in DOMAIN coming, NEW event \in coming[b], StageArrives(b, event),
         settledRef' \subseteq DOMAIN tokens'
  PROVE  Shaped'
<1>1. /\ walk' = walk /\ slow' = slow /\ pausedFor' = pausedFor
      /\ clicks' = clicks /\ held' = held /\ inTier' = inTier /\ due' = FALSE
      /\ b \in DOMAIN tokens /\ disturbed' \subseteq disturbed \cup {b}
      /\ coming' = [coming EXCEPT ![b] = @ \ {event}]
      /\ tokens' = [tokens EXCEPT ![b] = withStage(@, event)]
  BY DEF StageArrives, visitorVars, Rearm
<1>2. event \in Entries
  BY DEF Shaped
<1>3. \E n \in Nat \ {0} : HasStages(withStage(tokens[b], event), n)
  <2>1. PICK n \in Nat \ {0} : HasStages(tokens[b], n)
    BY <1>1 DEF Shaped
  <2> QED
    BY <1>2, <2>1, WithStage
<1>4. /\ DOMAIN tokens' = DOMAIN tokens /\ DOMAIN coming' = DOMAIN coming
      /\ \A x \in DOMAIN coming : coming'[x] \subseteq coming[x]
      /\ \A x \in DOMAIN tokens : tokens'[x] = IF x = b THEN withStage(tokens[b], event) ELSE tokens[x]
  BY <1>1
<1>5. \A x \in DOMAIN tokens' : \E n \in Nat \ {0} : HasStages(tokens'[x], n)
  BY <1>3, <1>4 DEF Shaped
<1>6. \A x \in DOMAIN coming' : coming'[x] \subseteq Entries
  BY <1>4 DEF Shaped
<1> QED
  BY <1>1, <1>4, <1>5, <1>6 DEF Shaped

\* Only balls with a token settle.
LEMMA SettlesTokens ==
  Settle /\ settledRef \subseteq DOMAIN tokens' => settledRef' \subseteq DOMAIN tokens'
  BY DEF Settle

LEMMA ShapedNext == StopwatchInv /\ Shaped /\ [Next]_vars => Shaped'
<1> SUFFICES ASSUME StopwatchInv, Shaped, [Next]_vars PROVE Shaped'
  OBVIOUS
<1>1. Known /\ paused \in BOOLEAN
  BY DEF StopwatchInv, Timed
<1>2. CASE UNCHANGED vars
  BY <1>2 DEF vars, visitorVars, Shaped
<1>3. CASE Next
  <2>1. DOMAIN tokens \subseteq DOMAIN tokens'
    <3>1. CASE tokens' = tokens
      BY <3>1
    <3>2. ASSUME NEW b \in DOMAIN coming, TokenStarts(b) PROVE DOMAIN tokens \subseteq DOMAIN tokens'
      BY <3>2 DEF TokenStarts
    <3>3. ASSUME NEW b \in DOMAIN coming, NEW event \in coming[b], StageArrives(b, event)
          PROVE  DOMAIN tokens \subseteq DOMAIN tokens'
      BY <3>3 DEF StageArrives
    <3> QED
      BY <1>3, <3>1, <3>2, <3>3 DEF Next, Clock, Interval, visitorVars, Pause, Resume, SwitchPace, Step
  <2>2. settledRef' \subseteq DOMAIN tokens'
    BY <1>3, <2>1, SettlesTokens DEF Next, Shaped
  <2>3. ASSUME NEW direction \in {-1, 1},
               NEW stepping \in {DOMAIN tokens} \cup {{b} : b \in DOMAIN tokens},
               Step(direction, stepping)
        PROVE  Shaped'
    <3>1. stepping \in SUBSET DOMAIN tokens
      OBVIOUS
    <3> QED
      BY <1>1, <2>2, <2>3, <3>1, StepShaped
  <2> QED
    BY <1>1, <1>3, <2>2, <2>3, ClockShaped, IntervalShaped, ClickShaped, StartShaped, ArrivalShaped
    DEF Next
<1> QED
  BY <1>2, <1>3

LEMMA ShapedInvariant == Spec => [](StopwatchInv /\ Shaped)
<1>1. StopwatchInv /\ Shaped /\ [Next]_vars => (StopwatchInv /\ Shaped)'
  BY StopwatchNext, ShapedNext
<1> QED
  BY <1>1, InitHasStopwatch, InitShaped, PTL DEF Spec

\* A ball is shown in a box of its path.
THEOREM TypeCorrect == Spec => []TypeOK
<1>1. StopwatchInv /\ Shaped => TypeOK
  <2> SUFFICES ASSUME StopwatchInv, Shaped PROVE TypeOK
    OBVIOUS
  <2>1. ASSUME NEW b \in DOMAIN tokens
        PROVE  shown(b, pathOf(tokens[b])) \in 1 .. End(b)
    <3>1. End(b) \in Nat \ {0}
      BY PathLong DEF Shaped, End
    <3>2. Entry(b, 0).index \in Nat \ {0}
      BY DEF Entry, Shaped
    <3> QED
      BY <3>1, <3>2 DEF shown, End, LesserOf
  <2>2. ASSUME NEW b \in DOMAIN walk
        PROVE  walk[b].age \in 0 .. Old + MaxPause
    <3>1. held[b] \in 0 .. Old /\ pausedFor \in 0 .. MaxPause /\ walk[b].age \in Int
      BY DEF Shaped, StopwatchInv, Known, Timed
    <3>2. held[b] = walk[b].age - (IF paused THEN pausedFor ELSE 0)
      BY DEF StopwatchInv, StopwatchTrue
    <3> QED
      BY <3>1, <3>2, PlaybackAssumption
  <2> QED
    BY <2>1, <2>2 DEF TypeOK, Shaped, StopwatchInv, Timed
<1> QED
  BY <1>1, ShapedInvariant, PTL

-----------------------------------------------------------------------------
(* Retry boxes are held.  A ball nobody disturbed has been, unpaused, for   *)
(* the whole tier in each retry box behind it, and in the one it is in for  *)
(* as long as its stopwatch reads.                                          *)

Index(b) == IF b \in DOMAIN walk THEN walk[b].index ELSE 1
Since(b) == IF b \in DOMAIN walk THEN held[b] ELSE 0

OnPath(path, index, since, times) ==
  /\ index \in 1 .. Len(path)
  /\ \A j \in 1 .. index - 1 : path[j] \in RetryBoxes => times[path[j]] >= Tier[path[j]]
  /\ path[index] \in RetryBoxes => times[path[index]] >= since

HoldInv ==
  /\ ~slow => DOMAIN tokens \subseteq disturbed
  /\ \A b \in DOMAIN tokens \ disturbed :
       /\ OnPath(pathOf(tokens[b]), Index(b), Since(b), inTier[b])
       /\ b \in settledRef => Index(b) = Len(pathOf(tokens[b]))

\* The same after a step, but for what settles in it.
StillHeld ==
  /\ ~slow' => DOMAIN tokens' \subseteq disturbed'
  /\ \A b \in DOMAIN tokens' \ disturbed' :
       /\ OnPath(pathOf(tokens'[b]), Index(b)', Since(b)', inTier'[b])
       /\ b \in settledRef => Index(b)' = Len(pathOf(tokens'[b]))

\* A ball that settles is at the end of its path.
LEMMA SettleHeld == StillHeld /\ Shaped' /\ Settle => HoldInv'
<1> SUFFICES ASSUME StillHeld, Shaped', Settle PROVE HoldInv'
  OBVIOUS
<1>1. ASSUME NEW b \in DOMAIN tokens' \ disturbed'
      PROVE  /\ OnPath(pathOf(tokens'[b]), Index(b)', Since(b)', inTier'[b])
             /\ b \in settledRef' => Index(b)' = Len(pathOf(tokens'[b]))
  <2>1. /\ OnPath(pathOf(tokens'[b]), Index(b)', Since(b)', inTier'[b])
        /\ b \in settledRef => Index(b)' = Len(pathOf(tokens'[b]))
    BY DEF StillHeld
  <2>2. ASSUME b \in settledRef', b \notin settledRef PROVE Index(b)' = Len(pathOf(tokens'[b]))
    <3>1. atEnd(b)'
      BY <2>2 DEF Settle
    <3>2. slow'
      BY DEF StillHeld
    <3>3. Entry(b, 0)'.index = Index(b)'
      BY DEF Entry, Index
    <3>4. LesserOf(Index(b)', Len(pathOf(tokens'[b]))) = Len(pathOf(tokens'[b]))
      BY <3>1, <3>2, <3>3 DEF atEnd, shown
    <3>5. Len(pathOf(tokens'[b])) \in Nat
      BY PathLong DEF Shaped
    <3>6. Index(b)' \in 1 .. Len(pathOf(tokens'[b]))
      BY <2>1 DEF OnPath
    <3> HIDE DEF Index
    <3> QED
      BY <3>4, <3>5, <3>6 DEF LesserOf
  <2> QED
    BY <2>1, <2>2
<1>2. ~slow' => DOMAIN tokens' \subseteq disturbed'
  BY DEF StillHeld
<1> QED
  BY <1>1, <1>2 DEF HoldInv

\* A step that moves no undisturbed ball.
LEMMA RestHeld ==
  ASSUME HoldInv, tokens' = tokens, inTier' = inTier, disturbed \subseteq disturbed',
         ~slow' => DOMAIN tokens \subseteq disturbed',
         \A b \in DOMAIN tokens \ disturbed' : Index(b)' = Index(b) /\ Since(b)' = Since(b)
  PROVE  StillHeld
<1> USE DEF HoldInv, StillHeld
<1> QED
  OBVIOUS

LEMMA ClicksHeld == HoldInv /\ (Pause \/ Resume \/ SwitchPace) => StillHeld
<1> SUFFICES ASSUME HoldInv, Pause \/ Resume \/ SwitchPace PROVE StillHeld
  OBVIOUS
<1>1. /\ tokens' = tokens /\ inTier' = inTier /\ held' = held /\ disturbed \subseteq disturbed'
      /\ ~slow' => DOMAIN tokens \subseteq disturbed'
  BY DEF Pause, Resume, SwitchPace, HoldInv
<1>2. DOMAIN walk' = DOMAIN walk /\ \A b \in DOMAIN walk : walk'[b].index = walk[b].index
  BY DEF Pause, Resume, SwitchPace, Aged
<1>3. \A b : Index(b)' = Index(b) /\ Since(b)' = Since(b)
  BY <1>1, <1>2 DEF Index, Since
<1> QED
  BY <1>1, <1>3, RestHeld

LEMMA StepHeld ==
  ASSUME HoldInv, Known, NEW direction, NEW stepping \in SUBSET DOMAIN tokens,
         Step(direction, stepping)
  PROVE  StillHeld
<1>1. /\ tokens' = tokens /\ inTier' = inTier /\ slow' = slow
      /\ disturbed' = disturbed \cup stepping
      /\ held' = [b \in Balls |-> IF b \in stepping THEN 0 ELSE held[b]]
      /\ DOMAIN walk' = DOMAIN walk \cup stepping
      /\ \A b \in DOMAIN walk' :
           walk'[b] = IF b \in stepping THEN Stepped(b, direction) ELSE walk[b]
  BY DEF Step
<1>2. ASSUME NEW b \in DOMAIN tokens \ disturbed'
      PROVE  Index(b)' = Index(b) /\ Since(b)' = Since(b)
  BY <1>1, <1>2 DEF Index, Since, Known
<1> QED
  BY <1>1, <1>2, RestHeld DEF HoldInv

\* Time: the box the ball is in is given as many ticks as the stopwatch.
LEMMA ClockHeld == Shaped /\ Known /\ HoldInv /\ Clock => StillHeld
<1> SUFFICES ASSUME Shaped, Known, HoldInv, Clock PROVE StillHeld
  OBVIOUS
<1>1. tokens' = tokens /\ slow' = slow /\ disturbed' = disturbed
  BY DEF Clock
<1>2. /\ DOMAIN walk' = DOMAIN walk /\ \A b \in DOMAIN walk : walk'[b].index = walk[b].index
      /\ held' = IF paused THEN held
                 ELSE [b \in Balls |-> IF b \in DOMAIN walk THEN LesserOf(held[b] + 1, Old) ELSE 0]
  BY DEF Clock, Aged
<1>3. inTier' = [b \in Balls |->
        IF Running /\ b \in DOMAIN walk /\ shownBox(b) \in RetryBoxes
        THEN [inTier[b] EXCEPT ![shownBox(b)] = LesserOf(@ + 1, Old)] ELSE inTier[b]]
  BY DEF Clock
<1>4. ASSUME NEW b \in DOMAIN tokens \ disturbed
      PROVE  /\ OnPath(pathOf(tokens[b]), Index(b)', Since(b)', inTier'[b])
             /\ b \in settledRef => Index(b)' = Len(pathOf(tokens[b]))
  <2> DEFINE path == pathOf(tokens[b])
  <2>1. /\ OnPath(path, Index(b), Since(b), inTier[b])
        /\ b \in settledRef => Index(b) = Len(path)
        /\ slow /\ b \in Balls
    BY DEF HoldInv, Known
  <2>2. Index(b)' = Index(b) /\ Index(b) \in 1 .. Len(path)
    BY <1>2, <2>1 DEF Index, OnPath
  <2>3. Len(path) \in Nat \ {0} /\ inTier[b] \in [RetryBoxes -> 0 .. Old] /\ held[b] \in 0 .. Old
    BY <2>1, PathLong DEF Shaped
  <2>4. CASE b \in DOMAIN walk /\ ~paused
    <3>1. shownBox(b) = path[Index(b)]
      <4>1. LesserOf(Index(b), Len(path)) = Index(b)
        BY <2>2, <2>3 DEF LesserOf
      <4> QED
        BY <2>1, <2>4, <4>1 DEF shownBox, shown, Entry, Index
    <3>2. Since(b) = held[b] /\ Since(b)' = LesserOf(held[b] + 1, Old)
      BY <1>2, <2>1, <2>4 DEF Since
    <3>3. \A box \in RetryBoxes :
            inTier'[b][box] = IF box = path[Index(b)] THEN LesserOf(inTier[b][box] + 1, Old)
                              ELSE inTier[b][box]
      BY <1>3, <2>1, <2>3, <2>4, <3>1 DEF Running
    <3> HIDE DEF path
    <3>4. \A box \in RetryBoxes : inTier'[b][box] >= inTier[b][box]
      BY <2>3, <3>3, PlaybackAssumption DEF LesserOf
    <3>5. \A box \in RetryBoxes : Tier[box] \in Nat /\ inTier[b][box] \in Nat /\ inTier'[b][box] \in Nat
      BY <2>3, <3>3, PlaybackAssumption DEF LesserOf
    <3>6. \A j \in 1 .. Index(b) - 1 :
            path[j] \in RetryBoxes => inTier'[b][path[j]] >= Tier[path[j]]
      BY <2>1, <3>4, <3>5 DEF OnPath
    <3>7. path[Index(b)] \in RetryBoxes => inTier'[b][path[Index(b)]] >= Since(b)'
      <4> SUFFICES ASSUME path[Index(b)] \in RetryBoxes
                   PROVE  LesserOf(inTier[b][path[Index(b)]] + 1, Old) >= LesserOf(held[b] + 1, Old)
        BY <3>2, <3>3
      <4>1. inTier[b][path[Index(b)]] >= held[b]
        BY <2>1, <3>2 DEF OnPath
      <4> QED
        BY <2>3, <3>5, <4>1, PlaybackAssumption DEF LesserOf
    <3> QED
      BY <2>1, <2>2, <3>6, <3>7 DEF OnPath, path
  <2>5. CASE b \notin DOMAIN walk \/ paused
    <3>1. inTier'[b] = inTier[b] /\ Since(b)' = Since(b)
      BY <1>2, <1>3, <2>1, <2>5 DEF Running, Since
    <3> QED
      BY <2>1, <2>2, <3>1
  <2> QED
    BY <2>4, <2>5
<1> QED
  BY <1>1, <1>4 DEF StillHeld, HoldInv

\* The interval: a ball leaves a retry box when its stopwatch reads the tier.
LEMMA IntervalHeld == StopwatchInv /\ Shaped /\ HoldInv /\ Interval => StillHeld
<1> SUFFICES ASSUME StopwatchInv, Shaped, HoldInv, Interval PROVE StillHeld
  OBVIOUS
<1>1. /\ tokens' = tokens /\ slow' = slow /\ disturbed' = disturbed /\ inTier' = inTier
      /\ ~paused
  BY DEF Interval, visitorVars, Running
<1>2. /\ DOMAIN tokens \subseteq DOMAIN walk'
      /\ \A b \in DOMAIN tokens : walk'[b] = Walked(b)
      /\ held' = [b \in Balls |->
                    IF b \in DOMAIN tokens /\ walk'[b].age = 0 THEN 0 ELSE held[b]]
  BY DEF Interval
<1>3. ASSUME NEW b \in DOMAIN tokens \ disturbed
      PROVE  /\ OnPath(pathOf(tokens[b]), Index(b)', Since(b)', inTier[b])
             /\ b \in settledRef => Index(b)' = Len(pathOf(tokens[b]))
  <2> DEFINE path == pathOf(tokens[b])
             age == Entry(b, 0).age
  <2>1. /\ OnPath(path, Index(b), Since(b), inTier[b])
        /\ b \in settledRef => Index(b) = Len(path)
        /\ b \in Balls
    BY DEF HoldInv, StopwatchInv, Known
  <2>2. Index(b) \in 1 .. Len(path) /\ Entry(b, 0).index = Index(b)
    BY <2>1 DEF OnPath, Index, Entry
  <2>3. Len(path) \in Nat \ {0} /\ inTier[b] \in [RetryBoxes -> 0 .. Old] /\ held[b] \in 0 .. Old
    BY <2>1, PathLong DEF Shaped
  <2>4. age = Since(b)
    BY <1>1, <2>1 DEF Entry, Since, StopwatchInv, StopwatchTrue, Timed
  <2>5. Since(b) \in Nat
    BY <2>3 DEF Since
  <2>6. LesserOf(Index(b), Len(path)) = Index(b)
    BY <2>2, <2>3 DEF LesserOf
  <2>7. Walked(b) = IF Index(b) < Len(path) /\ age >= dwell(path[Index(b)])
                    THEN [index |-> Index(b) + 1, age |-> 0]
                    ELSE [index |-> Index(b), age |-> age]
    BY <2>2, <2>6 DEF Walked
  <2>8. /\ Index(b)' = walk'[b].index /\ Since(b)' = held'[b]
        /\ held'[b] = IF walk'[b].age = 0 THEN 0 ELSE held[b]
        /\ walk'[b] = Walked(b)
    BY <1>2, <2>1 DEF Index, Since
  <2> HIDE DEF path, age
  <2>9. CASE Index(b) < Len(path) /\ age >= dwell(path[Index(b)])
    <3>1. Index(b)' = Index(b) + 1 /\ Since(b)' = 0 /\ b \notin settledRef
      BY <2>1, <2>2, <2>3, <2>7, <2>8, <2>9
    <3>2. path[Index(b)] \in RetryBoxes => inTier[b][path[Index(b)]] >= Tier[path[Index(b)]]
      <4> SUFFICES ASSUME path[Index(b)] \in RetryBoxes
                   PROVE  inTier[b][path[Index(b)]] >= Tier[path[Index(b)]]
        OBVIOUS
      <4>1. Since(b) >= Tier[path[Index(b)]]
        BY <2>4, <2>9 DEF dwell
      <4>2. inTier[b][path[Index(b)]] >= Since(b)
        BY <2>1 DEF OnPath
      <4>3. Tier[path[Index(b)]] \in Nat /\ inTier[b][path[Index(b)]] \in Nat
        BY <2>3, PlaybackAssumption
      <4> QED
        BY <2>5, <4>1, <4>2, <4>3
    <3>3. ASSUME NEW j \in 1 .. Index(b), path[j] \in RetryBoxes
          PROVE  inTier[b][path[j]] >= Tier[path[j]]
      <4>1. j = Index(b) \/ j \in 1 .. Index(b) - 1
        BY <2>2, <2>3
      <4> QED
        BY <2>1, <3>2, <3>3, <4>1 DEF OnPath
    <3>4. path[Index(b) + 1] \in RetryBoxes => inTier[b][path[Index(b) + 1]] >= 0
      BY <2>3
    <3>5. Index(b) + 1 \in 1 .. Len(path) /\ (Index(b) + 1) - 1 = Index(b)
      BY <2>2, <2>3, <2>9
    <3> HIDE DEF Index, Since
    <3>6. OnPath(path, Index(b) + 1, 0, inTier[b])
      BY <3>3, <3>4, <3>5 DEF OnPath
    <3> QED
      BY <3>1, <3>6 DEF path
  <2>10. CASE ~(Index(b) < Len(path) /\ age >= dwell(path[Index(b)]))
    <3>1. Index(b)' = Index(b) /\ walk'[b].age = age
      BY <2>7, <2>8, <2>10
    <3>2. CASE age = 0
      <4>1. Since(b)' = Since(b)
        BY <2>4, <2>8, <3>1, <3>2
      <4> QED
        BY <2>1, <3>1, <4>1 DEF path
    <3>3. CASE age # 0
      <4>1. Since(b) # 0
        BY <2>4, <3>3
      <4>2. Since(b) = held[b]
        BY <4>1 DEF Since
      <4>3. Since(b)' = Since(b)
        BY <2>8, <3>1, <3>3, <4>2
      <4> QED
        BY <2>1, <3>1, <4>3 DEF path
    <3> QED
      BY <3>2, <3>3
  <2> QED
    BY <2>9, <2>10
<1> QED
  BY <1>1, <1>3 DEF StillHeld, HoldInv

\* A new ball is behind no retry box.
LEMMA StartHeld ==
  ASSUME Shaped, Known, HoldInv, NEW b \in DOMAIN coming, TokenStarts(b)
  PROVE  StillHeld
<1>1. /\ walk' = walk /\ held' = held /\ inTier' = inTier /\ slow' = slow
      /\ b \notin DOMAIN tokens /\ b \in Balls
      /\ disturbed' = IF slow THEN disturbed ELSE disturbed \cup {b}
      /\ DOMAIN tokens' = DOMAIN tokens \cup {b}
      /\ \A x \in DOMAIN tokens' : tokens'[x] = IF x = b THEN NewToken("received", 0) ELSE tokens[x]
  BY DEF TokenStarts, visitorVars, Known
<1>2. \A x : Index(x)' = Index(x) /\ Since(x)' = Since(x)
  BY <1>1 DEF Index, Since
<1>3. Index(b) = 1 /\ Since(b) = 0 /\ b \notin settledRef
  BY <1>1 DEF Index, Since, Shaped
<1>4. Len(pathOf(NewToken("received", 0))) \in Nat \ {0}
  <2>1. "received" \in Stages /\ "received" # "retry"
    BY Ranks
  <2> QED
    BY <2>1, NewTokenOK, PathLong
<1>5. \A box \in RetryBoxes : inTier[b][box] >= 0
  BY <1>1 DEF Shaped
<1>6. OnPath(pathOf(NewToken("received", 0)), 1, 0, inTier[b])
  BY <1>4, <1>5 DEF OnPath
<1>7. ~slow' => DOMAIN tokens' \subseteq disturbed'
  BY <1>1 DEF HoldInv
<1>8. ASSUME NEW x \in DOMAIN tokens' \ disturbed'
      PROVE  /\ OnPath(pathOf(tokens'[x]), Index(x)', Since(x)', inTier'[x])
             /\ x \in settledRef => Index(x)' = Len(pathOf(tokens'[x]))
  <2>1. CASE x = b
    BY <1>1, <1>2, <1>3, <1>6, <2>1
  <2>2. CASE x # b
    <3>1. x \in DOMAIN tokens \ disturbed /\ tokens'[x] = tokens[x]
      BY <1>1, <2>2
    <3> QED
      BY <1>1, <1>2, <3>1 DEF HoldInv
  <2> QED
    BY <2>1, <2>2
<1> QED
  BY <1>7, <1>8 DEF StillHeld

\* A longer path has the boxes of the one it continues.
LEMMA PrefixHeld ==
  ASSUME NEW path \in Seq(Boxes), NEW next \in Seq(Boxes), IsPrefix(path, next),
         NEW index, NEW since, NEW times, OnPath(path, index, since, times)
  PROVE  OnPath(next, index, since, times)
<1>1. Len(path) \in Nat /\ Len(next) \in Nat /\ Len(path) <= Len(next)
  BY DEF IsPrefix
<1>2. ASSUME NEW j \in 1 .. Len(path) PROVE next[j] = path[j]
  <2>1. SubSeq(path, 1, Len(path)) = SubSeq(next, 1, Len(path))
    BY DEF IsPrefix
  <2>2. SubSeq(path, 1, Len(path))[j] = path[j] /\ SubSeq(next, 1, Len(path))[j] = next[j]
    BY <1>1
  <2> QED
    BY <2>1, <2>2
<1>3. index \in 1 .. Len(path) /\ \A j \in 1 .. index - 1 : j \in 1 .. Len(path)
  BY <1>1 DEF OnPath
<1> QED
  BY <1>1, <1>2, <1>3 DEF OnPath

\* A stage that displaces no ball continues its path.
LEMMA ArrivalHeld ==
  ASSUME Shaped, Shaped', HoldInv, NEW b \in DOMAIN coming, NEW event \in coming[b],
         StageArrives(b, event)
  PROVE  StillHeld
<1>1. /\ walk' = walk /\ held' = held /\ inTier' = inTier /\ slow' = slow
      /\ disturbed' = IF Displaces(b, tokens'[b]) THEN disturbed \cup {b} ELSE disturbed
      /\ DOMAIN tokens' = DOMAIN tokens
      /\ \A x \in DOMAIN tokens : x # b => tokens'[x] = tokens[x]
  BY DEF StageArrives, visitorVars
<1>2. \A x : Index(x)' = Index(x) /\ Since(x)' = Since(x)
  BY <1>1 DEF Index, Since
<1>3. ~slow' => DOMAIN tokens' \subseteq disturbed'
  BY <1>1 DEF HoldInv
<1>4. ASSUME NEW x \in DOMAIN tokens \ disturbed'
      PROVE  /\ OnPath(pathOf(tokens'[x]), Index(x)', Since(x)', inTier'[x])
             /\ x \in settledRef => Index(x)' = Len(pathOf(tokens'[x]))
  <2>1. /\ OnPath(pathOf(tokens[x]), Index(x), Since(x), inTier[x])
        /\ x \in settledRef => Index(x) = Len(pathOf(tokens[x]))
    BY <1>1 DEF HoldInv
  <2>2. CASE x # b
    BY <1>1, <1>2, <2>1, <2>2
  <2>3. CASE x = b
    <3>1. /\ IsPrefix(pathOf(tokens[x]), pathOf(tokens'[x]))
          /\ x \in settledRef => pathOf(tokens'[x]) = pathOf(tokens[x])
      BY <1>1, <2>3 DEF Displaces
    <3>2. pathOf(tokens[x]) \in Seq(Boxes) /\ pathOf(tokens'[x]) \in Seq(Boxes)
      BY <1>1, PathLong DEF Shaped
    <3>3. OnPath(pathOf(tokens'[x]), Index(x), Since(x), inTier[x])
      BY <2>1, <3>1, <3>2, PrefixHeld
    <3> QED
      BY <1>1, <1>2, <2>1, <3>1, <3>3
  <2> QED
    BY <2>2, <2>3
<1> QED
  BY <1>1, <1>3, <1>4 DEF StillHeld

LEMMA HoldNext ==
  StopwatchInv /\ Shaped /\ HoldInv /\ [Next]_vars => HoldInv'
<1> SUFFICES ASSUME StopwatchInv, Shaped, HoldInv, [Next]_vars PROVE HoldInv'
  OBVIOUS
<1>1. Shaped' /\ Known
  BY ShapedNext DEF StopwatchInv
<1>2. CASE UNCHANGED vars
  BY <1>2 DEF vars, visitorVars, HoldInv, Index, Since
<1>3. CASE Next
  <2>1. ASSUME NEW direction \in {-1, 1},
               NEW stepping \in {DOMAIN tokens} \cup {{b} : b \in DOMAIN tokens},
               Step(direction, stepping)
        PROVE  StillHeld
    <3>1. stepping \in SUBSET DOMAIN tokens
      OBVIOUS
    <3> QED
      BY <1>1, <2>1, <3>1, StepHeld
  <2>2. StillHeld
    BY <1>1, <1>3, <2>1, ClockHeld, IntervalHeld, ClicksHeld, StartHeld, ArrivalHeld DEF Next
  <2> QED
    BY <1>1, <1>3, <2>2, SettleHeld DEF Next
<1> QED
  BY <1>2, <1>3

LEMMA InitHolds == Init => HoldInv
  BY DEF Init, HoldInv

\* A ball that nobody stepped or rushed, and no late stage displaced, was in
\* each retry box of its path for the whole of the tier before it settled.
THEOREM TiersRunTheirTime == Spec => []TiersAreHeld
<1>1. Shaped /\ HoldInv => TiersAreHeld
  <2> SUFFICES ASSUME Shaped, HoldInv, NEW b \in settledRef \ disturbed, NEW i \in 1 .. End(b) - 1,
                      pathOf(tokens[b])[i] \in RetryBoxes
               PROVE  inTier[b][pathOf(tokens[b])[i]] >= Tier[pathOf(tokens[b])[i]]
    BY DEF TiersAreHeld
  <2>1. b \in DOMAIN tokens \ disturbed
    BY DEF Shaped
  <2>2. OnPath(pathOf(tokens[b]), Index(b), Since(b), inTier[b]) /\ Index(b) = End(b)
    BY <2>1 DEF HoldInv, End
  <2> QED
    BY <2>2 DEF OnPath
<1>2. StopwatchInv /\ Shaped /\ HoldInv /\ [Next]_vars => (StopwatchInv /\ Shaped /\ HoldInv)'
  BY StopwatchNext, ShapedNext, HoldNext
<1>3. Init => StopwatchInv /\ Shaped /\ HoldInv
  BY InitHasStopwatch, InitShaped, InitHolds
<1> QED
  BY <1>1, <1>2, <1>3, PTL DEF Spec
=============================================================================
