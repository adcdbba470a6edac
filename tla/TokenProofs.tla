----------------------------- MODULE TokenProofs -----------------------------
(***************************************************************************)
(* What Token computes, for any events in any order: the stages stay       *)
(* sorted and each once, the current stage is the last of them and never   *)
(* falls in rank, and the path of the ball flies over no box.              *)
(***************************************************************************)
EXTENDS Token, SequenceTheorems, WellFoundedInduction, TLAPS

-----------------------------------------------------------------------------
(* Natural numbers without an operator to induct over: as sets of them.     *)

Less == {p \in Nat \X Nat : p[1] < p[2]}

LEMMA LessWellFounded == IsWellFoundedOn(Less, Nat)
<1>1. OpToRel(<, Nat) = Less
  BY Zenon DEF OpToRel, Less
<1> QED
  BY <1>1, NatLessThanWellFounded, Zenon

\* A set of natural numbers has a least element.
LEMMA NatLeast ==
  ASSUME NEW T \in SUBSET Nat, T # {}
  PROVE  \E n \in T : \A m \in T : n <= m
<1>1. PICK n \in T : \A m \in T : <<m, n>> \notin Less
  BY LessWellFounded, WFMin
<1>2. ASSUME NEW m \in T PROVE n <= m
  <2>1. m \in Nat /\ n \in Nat /\ <<m, n>> \notin Less
    BY <1>1
  <2> QED
    BY <2>1 DEF Less
<1> QED
  BY <1>2

\* A set of them with 0 and each one's successor has them all.
LEMMA NatInductive ==
  ASSUME NEW T \in SUBSET Nat, 0 \in T, \A n \in T : n + 1 \in T
  PROVE  T = Nat
<1> SUFFICES ASSUME Nat \ T # {} PROVE FALSE
  OBVIOUS
<1>1. PICK n \in Nat \ T : \A m \in Nat \ T : n <= m
  <2>1. Nat \ T \in SUBSET Nat
    OBVIOUS
  <2> QED
    BY <2>1, NatLeast
<1>2. n # 0 /\ n - 1 \in Nat /\ n - 1 \in T
  BY <1>1
<1> QED
  BY <1>1, <1>2

-----------------------------------------------------------------------------
(* Sequences with one element put in, or taken out.                         *)

\* t is s, of n elements of S, with e before the p-th.
HasInserted(t, S, s, n, p, e) ==
  /\ t \in Seq(S) /\ Len(t) = n + 1
  /\ \A k \in 1 .. n + 1 : t[k] = IF k < p THEN s[k] ELSE IF k = p THEN e ELSE s[k - 1]

LEMMA InsertedAt ==
  ASSUME NEW S, NEW s \in Seq(S), NEW n, n = Len(s), NEW p \in 1 .. n + 1, NEW e \in S
  PROVE  HasInserted(InsertAt(s, p, e), S, s, n, p, e)
<1> DEFINE front == SubSeq(s, 1, p - 1)
           back == SubSeq(s, p, Len(s))
<1>1. /\ front \in Seq(S) /\ Len(front) = p - 1
      /\ \A k \in 1 .. p - 1 : front[k] = s[k]
  OBVIOUS
<1>2. /\ back \in Seq(S) /\ Len(back) = Len(s) - p + 1
      /\ \A k \in 1 .. Len(s) - p + 1 : back[k] = s[p + k - 1]
  OBVIOUS
<1>3. InsertAt(s, p, e) = (front \o <<e>>) \o back
  BY DEF InsertAt
<1> HIDE DEF front, back
<1>4. <<e>> \in Seq(S) /\ Len(<<e>>) = 1 /\ <<e>>[1] = e
  OBVIOUS
<1>5. /\ front \o <<e>> \in Seq(S) /\ Len(front \o <<e>>) = p
      /\ \A k \in 1 .. p : (front \o <<e>>)[k] = IF k < p THEN s[k] ELSE e
  BY <1>1, <1>4
<1> DEFINE mid == front \o <<e>>
<1> HIDE DEF mid
<1>6. /\ mid \in Seq(S) /\ Len(mid) = p
      /\ \A k \in 1 .. p : mid[k] = IF k < p THEN s[k] ELSE e
  BY <1>5 DEF mid
<1>7. \A k \in 1 .. Len(s) + 1 : k > p => back[k - p] = s[k - 1]
  BY <1>2
<1>8. /\ mid \o back \in Seq(S) /\ Len(mid \o back) = Len(mid) + Len(back)
      /\ \A k \in 1 .. Len(mid) + Len(back) :
           (mid \o back)[k] = IF k <= Len(mid) THEN mid[k] ELSE back[k - Len(mid)]
  BY <1>2, <1>6, ConcatProperties, Zenon
<1>9. Len(mid) + Len(back) = Len(s) + 1
  BY <1>2, <1>6
<1>10. ASSUME NEW k \in 1 .. Len(s) + 1
       PROVE  (mid \o back)[k] = IF k < p THEN s[k] ELSE IF k = p THEN e ELSE s[k - 1]
  <2>1. CASE k <= p
    BY <1>6, <1>8, <1>9, <2>1
  <2>2. CASE k > p
    <3>1. (mid \o back)[k] = back[k - p]
      BY <1>6, <1>8, <1>9, <2>2
    <3>2. back[k - p] = s[k - 1] /\ ~(k < p) /\ k # p
      BY <1>7, <2>2
    <3> QED
      BY <3>1, <3>2
  <2>3. k <= p \/ k > p
    <3>1. Len(s) \in Nat
      OBVIOUS
    <3> QED
      BY <3>1
  <2> QED
    BY <2>1, <2>2, <2>3
<1> QED
  BY <1>3, <1>8, <1>9, <1>10 DEF mid, HasInserted

LEMMA RemovedAt ==
  ASSUME NEW S, NEW s \in Seq(S), NEW p \in 1 .. Len(s)
  PROVE  /\ RemoveAt(s, p) \in Seq(S)
         /\ Len(RemoveAt(s, p)) = Len(s) - 1
         /\ \A k \in 1 .. Len(s) - 1 : RemoveAt(s, p)[k] = IF k < p THEN s[k] ELSE s[k + 1]
<1> DEFINE front == SubSeq(s, 1, p - 1)
           back == SubSeq(s, p + 1, Len(s))
<1>1. /\ front \in Seq(S) /\ Len(front) = p - 1
      /\ \A k \in 1 .. p - 1 : front[k] = s[k]
  OBVIOUS
<1>2. /\ back \in Seq(S) /\ Len(back) = Len(s) - p
      /\ \A k \in 1 .. Len(s) - p : back[k] = s[p + k]
  OBVIOUS
<1>3. RemoveAt(s, p) = front \o back
  BY DEF RemoveAt
<1> HIDE DEF front, back
<1>4. /\ front \o back \in Seq(S) /\ Len(front \o back) = Len(front) + Len(back)
      /\ \A k \in 1 .. Len(front) + Len(back) :
           (front \o back)[k] = IF k <= Len(front) THEN front[k] ELSE back[k - Len(front)]
  BY <1>1, <1>2, ConcatProperties, Zenon
<1>5. Len(s) \in Nat /\ Len(front) + Len(back) = Len(s) - 1
  BY <1>1, <1>2
<1>6. ASSUME NEW k \in 1 .. Len(s) - 1
      PROVE  (front \o back)[k] = IF k < p THEN s[k] ELSE s[k + 1]
  <2>1. CASE k < p
    BY <1>1, <1>4, <1>5, <2>1
  <2>2. CASE k >= p
    <3>1. (front \o back)[k] = back[k - (p - 1)]
      BY <1>1, <1>4, <1>5, <2>2
    <3>2. back[k - (p - 1)] = s[k + 1]
      BY <1>2, <1>5, <2>2
    <3> QED
      BY <2>2, <3>1, <3>2
  <2> QED
    BY <1>5, <2>1, <2>2
<1> QED
  BY <1>3, <1>4, <1>5, <1>6

-----------------------------------------------------------------------------
(* The order of the stages.                                                 *)

LEMMA Ranks ==
  /\ Stages = {"received", "signature_verified", "malformed", "rejected", "published",
               "injected", "unavailable", "consuming", "processing_decision", "retry",
               "processed", "duplicate", "dead"}
  /\ \A s \in Stages : STAGE_RANK[s] \in 0 .. 6
  /\ \A s \in Stages : s # "retry" => STAGE_RANK[s] # 5
  /\ STAGE_RANK["retry"] = 5
<1>1. Stages = {"received", "signature_verified", "malformed", "rejected", "published",
               "injected", "unavailable", "consuming", "processing_decision", "retry",
               "processed", "duplicate", "dead"}
  BY DEF Stages, STAGE_RANK
<1> QED
  BY <1>1 DEF STAGE_RANK

\* NotAfter is a total preorder, that what is the same entry need not share.
LEMMA NotAfterOrders ==
  ASSUME NEW a \in Entries, NEW b \in Entries, NEW c \in Entries
  PROVE  /\ NotAfter(a, a)
         /\ NotAfter(a, b) \/ NotAfter(b, a)
         /\ NotAfter(a, b) /\ NotAfter(b, c) => NotAfter(a, c)
         /\ NotAfter(a, b) => STAGE_RANK[a.stage] <= STAGE_RANK[b.stage]
<1>1. /\ a.stage \in Stages /\ b.stage \in Stages /\ c.stage \in Stages
      /\ a.ts \in Nat /\ b.ts \in Nat /\ c.ts \in Nat
  BY DEF Entries
<1>2. /\ STAGE_RANK[a.stage] \in Nat /\ STAGE_RANK[b.stage] \in Nat
      /\ STAGE_RANK[c.stage] \in Nat
  BY <1>1, Ranks
<1> QED
  BY <1>1, <1>2 DEF NotAfter

\* What a token keeps of its history: n entries, each once, in order.
SortedTo(stages, n) ==
  /\ stages \in Seq(Entries) /\ Len(stages) = n
  /\ \A i, j \in 1 .. n :
       i < j => NotAfter(stages[i], stages[j]) /\ ~SameEntry(stages[i], stages[j])

LEMMA SlotFound ==
  ASSUME NEW n \in Nat, NEW stages, SortedTo(stages, n), NEW event \in Entries
  PROVE  /\ SlotOf(stages, event) \in 1 .. n + 1
         /\ \A j \in 1 .. SlotOf(stages, event) - 1 : NotAfter(stages[j], event)
         /\ \A j \in SlotOf(stages, event) .. n :
              NotAfter(event, stages[j]) /\ ~NotAfter(stages[j], event)
<1> DEFINE Slot(i) == /\ \A j \in 1 .. i - 1 : NotAfter(stages[j], event)
                      /\ i <= n => ~NotAfter(stages[i], event)
           After == {i \in 1 .. n + 1 : i <= n => ~NotAfter(stages[i], event)}
<1>1. stages \in Seq(Entries) /\ Len(stages) = n
  BY DEF SortedTo
<1>2. \E i \in 1 .. n + 1 : Slot(i)
  <2>1. After \in SUBSET Nat /\ n + 1 \in After
    BY <1>1
  <2>2. PICK i \in After : \A k \in After : i <= k
    BY <2>1, NatLeast
  <2>3. \A j \in 1 .. i - 1 : NotAfter(stages[j], event)
    BY <1>1, <2>2
  <2> QED
    BY <2>2, <2>3
<1>3. SlotOf(stages, event) \in 1 .. n + 1 /\ Slot(SlotOf(stages, event))
  BY <1>2 DEF SlotOf, SortedTo
<1>4. ASSUME NEW j \in SlotOf(stages, event) .. n
      PROVE  NotAfter(event, stages[j]) /\ ~NotAfter(stages[j], event)
  <2> DEFINE i == SlotOf(stages, event)
  <2>1. i \in 1 .. n /\ j \in 1 .. n /\ ~NotAfter(stages[i], event)
    BY <1>1, <1>3
  <2>2. stages[i] \in Entries /\ stages[j] \in Entries
    BY <1>1, <2>1
  <2>3. NotAfter(event, stages[i])
    BY <2>1, <2>2, NotAfterOrders
  <2>4. i = j \/ NotAfter(stages[i], stages[j])
    BY <1>1, <2>1 DEF SortedTo
  <2> HIDE DEF i
  <2>5. NotAfter(event, stages[j])
    BY <2>2, <2>3, <2>4, NotAfterOrders
  <2>6. ~NotAfter(stages[j], event)
    BY <2>1, <2>2, <2>4, NotAfterOrders
  <2> QED
    BY <2>5, <2>6
<1> QED
  BY <1>3, <1>4

\* Without its entry at p.
LEMMA RemovalKeeps ==
  ASSUME NEW n \in Nat, NEW stages, SortedTo(stages, n), NEW p \in 1 .. n
  PROVE  /\ SortedTo(RemoveAt(stages, p), n - 1)
         /\ \A k \in 1 .. n - 1 :
              RemoveAt(stages, p)[k] = IF k < p THEN stages[k] ELSE stages[k + 1]
<1> DEFINE without == RemoveAt(stages, p)
<1>1. /\ without \in Seq(Entries) /\ Len(without) = n - 1
      /\ \A k \in 1 .. n - 1 : without[k] = IF k < p THEN stages[k] ELSE stages[k + 1]
  BY RemovedAt DEF SortedTo
<1> HIDE DEF without
<1>2. ASSUME NEW i \in 1 .. n - 1, NEW j \in 1 .. n - 1, i < j
      PROVE  NotAfter(without[i], without[j]) /\ ~SameEntry(without[i], without[j])
  <2>1. CASE j < p
    BY <1>1, <1>2, <2>1 DEF SortedTo
  <2>2. CASE j >= p /\ i < p
    <3>1. without[i] = stages[i] /\ without[j] = stages[j + 1]
      BY <1>1, <2>2
    <3> QED
      BY <1>2, <3>1 DEF SortedTo
  <2>3. CASE i >= p
    <3>1. without[i] = stages[i + 1] /\ without[j] = stages[j + 1]
      BY <1>1, <1>2, <2>3
    <3> QED
      BY <1>2, <3>1 DEF SortedTo
  <2> QED
    BY <1>2, <2>1, <2>2, <2>3
<1> QED
  BY <1>1, <1>2 DEF without, SortedTo

\* The filter: sorted still, and nothing like the event left.
Filtered(stages, event) ==
  LET same == {i \in DOMAIN stages : SameEntry(stages[i], event)}
  IN IF same = {} THEN stages ELSE RemoveAt(stages, CHOOSE i \in same : TRUE)

LEMMA FilterKeeps ==
  ASSUME NEW n \in Nat, NEW stages, SortedTo(stages, n), NEW event \in Entries,
         NEW without, without = Filtered(stages, event)
  PROVE  \E m \in Nat :
           /\ SortedTo(without, m)
           /\ \A k \in 1 .. m :
                /\ ~SameEntry(without[k], event)
                /\ \E i \in 1 .. n : without[k] = stages[i]
           /\ \A i \in 1 .. n :
                ~SameEntry(stages[i], event) => \E k \in 1 .. m : without[k] = stages[i]
           /\ n # 0 /\ ~SameEntry(stages[n], event) => m # 0 /\ without[m] = stages[n]
<1> DEFINE same == {i \in DOMAIN stages : SameEntry(stages[i], event)}
<1>1. DOMAIN stages = 1 .. n
  BY DEF SortedTo
<1>2. without = IF same = {} THEN stages ELSE RemoveAt(stages, CHOOSE i \in same : TRUE)
  BY DEF Filtered
<1>3. CASE same = {}
  <2>1. without = stages /\ \A i \in 1 .. n : ~SameEntry(stages[i], event)
    BY <1>1, <1>2, <1>3
  <2> WITNESS n \in Nat
  <2> QED
    BY <2>1
<1>4. CASE same # {}
  <2>1. PICK p \in 1 .. n : SameEntry(stages[p], event) /\ without = RemoveAt(stages, p)
    BY <1>1, <1>2, <1>4
  <2>2. /\ SortedTo(without, n - 1)
        /\ \A k \in 1 .. n - 1 : without[k] = IF k < p THEN stages[k] ELSE stages[k + 1]
    BY <2>1, RemovalKeeps
  <2>3. \A i \in 1 .. n : i # p => ~SameEntry(stages[i], event)
    <3>1. ASSUME NEW i \in 1 .. n, i # p PROVE ~SameEntry(stages[i], event)
      <4>1. ~SameEntry(stages[i], stages[p]) \/ ~SameEntry(stages[p], stages[i])
        BY <3>1 DEF SortedTo
      <4> QED
        BY <2>1, <4>1 DEF SameEntry
    <3> QED
      BY <3>1
  <2>4. ASSUME NEW k \in 1 .. n - 1
        PROVE  /\ ~SameEntry(without[k], event)
               /\ \E i \in 1 .. n : without[k] = stages[i]
    <3>1. PICK i \in 1 .. n : i # p /\ without[k] = stages[i]
      <4>1. CASE k < p
        <5>1. k \in 1 .. n /\ k # p /\ without[k] = stages[k]
          BY <2>2, <4>1
        <5> QED
          BY <5>1
      <4>2. CASE k >= p
        <5>1. k + 1 \in 1 .. n /\ k + 1 # p /\ without[k] = stages[k + 1]
          BY <2>2, <4>2
        <5> QED
          BY <5>1
      <4> QED
        BY <4>1, <4>2
    <3> QED
      BY <2>3, <3>1
  <2>5. ASSUME NEW i \in 1 .. n, ~SameEntry(stages[i], event)
        PROVE  \E k \in 1 .. n - 1 : without[k] = stages[i]
    <3>1. i # p
      BY <2>1, <2>5
    <3>2. CASE i < p
      <4>1. i \in 1 .. n - 1 /\ without[i] = stages[i]
        BY <2>2, <3>2
      <4> QED
        BY <4>1
    <3>3. CASE i > p
      <4>1. i - 1 \in 1 .. n - 1 /\ ~(i - 1 < p) /\ (i - 1) + 1 = i
        BY <3>3
      <4>2. without[i - 1] = stages[i]
        BY <2>2, <4>1
      <4> QED
        BY <4>1, <4>2
    <3> QED
      BY <3>1, <3>2, <3>3
  <2>6. n - 1 \in Nat
    BY <2>1
  <2>7. ASSUME ~SameEntry(stages[n], event)
        PROVE  n - 1 # 0 /\ without[n - 1] = stages[n]
    <3>1. p < n
      BY <2>1, <2>7
    <3>2. n - 1 \in 1 .. n - 1 /\ ~(n - 1 < p) /\ (n - 1) + 1 = n
      BY <3>1
    <3> QED
      BY <2>2, <3>2
  <2> WITNESS n - 1 \in Nat
  <2> QED
    BY <2>2, <2>4, <2>5, <2>7
<1> QED
  BY <1>3, <1>4

\* One more, put before the p-th.
LEMMA InsertionKeeps ==
  ASSUME NEW n \in Nat, NEW stages, SortedTo(stages, n), NEW event \in Entries,
         \A k \in 1 .. n : ~SameEntry(stages[k], event),
         NEW p \in 1 .. n + 1,
         \A k \in 1 .. p - 1 : NotAfter(stages[k], event),
         \A k \in p .. n : NotAfter(event, stages[k])
  PROVE  /\ SortedTo(InsertAt(stages, p, event), n + 1)
         /\ \A k \in 1 .. n + 1 :
              InsertAt(stages, p, event)[k]
                = IF k < p THEN stages[k] ELSE IF k = p THEN event ELSE stages[k - 1]
<1> DEFINE longer == InsertAt(stages, p, event)
<1>1. /\ longer \in Seq(Entries) /\ Len(longer) = n + 1
      /\ \A k \in 1 .. n + 1 :
           longer[k] = IF k < p THEN stages[k] ELSE IF k = p THEN event ELSE stages[k - 1]
  <2>1. stages \in Seq(Entries) /\ n = Len(stages)
    BY DEF SortedTo
  <2> HIDE DEF longer
  <2>2. HasInserted(longer, Entries, stages, n, p, event)
    BY <2>1, InsertedAt, Zenon DEF longer
  <2> QED
    BY <2>2 DEF HasInserted
<1> HIDE DEF longer
<1>2. \A k \in 1 .. n : ~SameEntry(event, stages[k])
  BY DEF SameEntry
<1>3. ASSUME NEW i \in 1 .. n + 1, NEW j \in 1 .. n + 1, i < j
      PROVE  NotAfter(longer[i], longer[j]) /\ ~SameEntry(longer[i], longer[j])
  <2>1. CASE j < p
    BY <1>1, <1>3, <2>1 DEF SortedTo
  <2>2. CASE j = p
    <3>1. longer[i] = stages[i] /\ longer[j] = event /\ i \in 1 .. p - 1 /\ i \in 1 .. n
      BY <1>1, <1>3, <2>2
    <3> QED
      BY <3>1
  <2>3. CASE j > p /\ i < p
    <3>1. longer[i] = stages[i] /\ longer[j] = stages[j - 1] /\ i < j - 1 /\ j - 1 \in 1 .. n /\ i \in 1 .. n
      BY <1>1, <1>3, <2>3
    <3> QED
      BY <3>1 DEF SortedTo
  <2>4. CASE i = p
    <3>1. longer[i] = event /\ longer[j] = stages[j - 1] /\ j - 1 \in p .. n /\ j - 1 \in 1 .. n
      BY <1>1, <1>3, <2>4
    <3> QED
      BY <1>2, <3>1
  <2>5. CASE i > p
    <3>1. /\ longer[i] = stages[i - 1] /\ longer[j] = stages[j - 1]
          /\ i - 1 < j - 1 /\ i - 1 \in 1 .. n /\ j - 1 \in 1 .. n
      BY <1>1, <1>3, <2>5
    <3> QED
      BY <3>1 DEF SortedTo
  <2> QED
    BY <1>3, <2>1, <2>2, <2>3, <2>4, <2>5
<1> QED
  BY <1>1, <1>3 DEF longer, SortedTo

\* What a history becomes: the event replaces its like, the others stay, and the
\* last is the event, or was the last already and is later.
Inserted(after, m, stages, n, event) ==
  /\ \E k \in 1 .. m : after[k] = event
  /\ \A k \in 1 .. m :
       \/ after[k] = event
       \/ \E i \in 1 .. n : after[k] = stages[i] /\ ~SameEntry(stages[i], event)
  /\ \A i \in 1 .. n :
       ~SameEntry(stages[i], event) => \E k \in 1 .. m : after[k] = stages[i]
  /\ n # 0 /\ ~SameEntry(stages[n], event) => after[m] \in {event, stages[n]}
  /\ after[m] # event => ~NotAfter(after[m], event)

\* insertStage keeps the stages sorted and each of them once: the event is in, and
\* everything else that was in stays, but for the entry that the event replaces.
THEOREM InsertStage ==
  ASSUME NEW n \in Nat, NEW stages, SortedTo(stages, n), NEW event \in Entries
  PROVE  \E m \in Nat \ {0} :
           /\ SortedTo(insertStage(stages, event), m)
           /\ Inserted(insertStage(stages, event), m, stages, n, event)
<1> DEFINE without == Filtered(stages, event)
           p == SlotOf(without, event)
           after == InsertAt(without, p, event)
<1>1. insertStage(stages, event) = after
  BY DEF insertStage, Filtered
<1>2. PICK l \in Nat :
        /\ SortedTo(without, l)
        /\ \A k \in 1 .. l :
             /\ ~SameEntry(without[k], event)
             /\ \E i \in 1 .. n : without[k] = stages[i]
        /\ \A i \in 1 .. n :
             ~SameEntry(stages[i], event) => \E k \in 1 .. l : without[k] = stages[i]
        /\ n # 0 /\ ~SameEntry(stages[n], event) => l # 0 /\ without[l] = stages[n]
  BY FilterKeeps
<1> HIDE DEF without
<1>3. /\ p \in 1 .. l + 1
      /\ \A k \in 1 .. p - 1 : NotAfter(without[k], event)
      /\ \A k \in p .. l : NotAfter(event, without[k]) /\ ~NotAfter(without[k], event)
  BY <1>2, SlotFound
<1> HIDE DEF p
<1>4. /\ SortedTo(after, l + 1)
      /\ \A k \in 1 .. l + 1 :
           after[k] = IF k < p THEN without[k] ELSE IF k = p THEN event ELSE without[k - 1]
  BY <1>2, <1>3, InsertionKeeps
<1> HIDE DEF after
<1>5. \E k \in 1 .. l + 1 : after[k] = event
  BY <1>3, <1>4
<1>6. ASSUME NEW k \in 1 .. l + 1
      PROVE  \/ after[k] = event
             \/ \E i \in 1 .. n : after[k] = stages[i] /\ ~SameEntry(stages[i], event)
  <2>1. CASE k < p
    <3>1. k \in 1 .. l /\ after[k] = without[k]
      BY <1>3, <1>4, <2>1
    <3> QED
      BY <1>2, <3>1
  <2>2. CASE k = p
    BY <1>4, <2>2
  <2>3. CASE k > p
    <3>1. k - 1 \in 1 .. l /\ after[k] = without[k - 1]
      BY <1>3, <1>4, <2>3
    <3> QED
      BY <1>2, <3>1
  <2> QED
    BY <1>3, <2>1, <2>2, <2>3
<1>7. ASSUME NEW i \in 1 .. n, ~SameEntry(stages[i], event)
      PROVE  \E k \in 1 .. l + 1 : after[k] = stages[i]
  <2>1. PICK k \in 1 .. l : without[k] = stages[i]
    BY <1>2, <1>7
  <2>2. CASE k < p
    <3>1. k \in 1 .. l + 1 /\ after[k] = without[k]
      BY <1>4, <2>2
    <3> QED
      BY <2>1, <3>1
  <2>3. CASE k >= p
    <3>1. k + 1 \in 1 .. l + 1 /\ ~(k + 1 < p) /\ k + 1 # p /\ (k + 1) - 1 = k
      BY <1>3, <2>3
    <3>2. after[k + 1] = without[k]
      BY <1>4, <3>1
    <3> QED
      BY <2>1, <3>1, <3>2
  <2> QED
    BY <1>3, <2>2, <2>3
<1>8. l + 1 \in Nat \ {0}
  BY <1>2
<1>9. \/ after[l + 1] = event
      \/ l # 0 /\ after[l + 1] = without[l] /\ ~NotAfter(without[l], event)
  <2>1. CASE p = l + 1
    BY <1>4, <2>1
  <2>2. CASE p # l + 1
    <3>1. l + 1 \in 1 .. l + 1 /\ ~(l + 1 < p) /\ (l + 1) - 1 = l /\ l \in p .. l /\ l # 0
      BY <1>2, <1>3, <2>2
    <3> QED
      BY <1>3, <1>4, <2>2, <3>1
  <2> QED
    BY <2>1, <2>2
<1> WITNESS l + 1 \in Nat \ {0}
<1> QED
  BY <1>1, <1>2, <1>4, <1>5, <1>6, <1>7, <1>9 DEF Inserted

-----------------------------------------------------------------------------
(* Tokens.                                                                  *)

\* Of sorted stages the last is the one of highest rank that came last.
LEMMA HighestIsLast ==
  ASSUME NEW n \in Nat \ {0}, NEW stages, SortedTo(stages, n)
  PROVE  highestStage[stages] = stages[n].stage
<1> DEFINE top(i) == \A j \in DOMAIN stages :
                       /\ STAGE_RANK[stages[j].stage] <= STAGE_RANK[stages[i].stage]
                       /\ j > i => STAGE_RANK[stages[j].stage] < STAGE_RANK[stages[i].stage]
<1>1. stages \in Seq(Entries) /\ DOMAIN stages = 1 .. n
  BY DEF SortedTo
<1>2. highestStage[stages] = stages[CHOOSE i \in DOMAIN stages : top(i)].stage
  BY <1>1 DEF highestStage
<1>3. ASSUME NEW i \in 1 .. n
      PROVE  stages[i] \in Entries /\ STAGE_RANK[stages[i].stage] \in Nat
  <2>1. stages[i] \in Entries
    BY <1>1
  <2>2. stages[i].stage \in Stages
    BY <2>1 DEF Entries
  <2> QED
    BY <2>1, <2>2, Ranks
<1>4. \A i \in 1 .. n : STAGE_RANK[stages[i].stage] <= STAGE_RANK[stages[n].stage]
  BY <1>3, NotAfterOrders DEF SortedTo
<1>5. n \in DOMAIN stages /\ top(n)
  BY <1>1, <1>4
<1>6. ASSUME NEW i \in DOMAIN stages, top(i) PROVE i = n
  <2>1. i \in 1 .. n /\ STAGE_RANK[stages[i].stage] <= STAGE_RANK[stages[n].stage]
    BY <1>1, <1>4
  <2>2. n > i => STAGE_RANK[stages[n].stage] < STAGE_RANK[stages[i].stage]
    BY <1>5, <1>6
  <2> QED
    BY <1>3, <2>1, <2>2
<1> HIDE DEF top
<1>7. (CHOOSE i \in DOMAIN stages : top(i)) = n
  BY <1>5, <1>6
<1> QED
  BY <1>2, <1>7

Tokens ==
  [stages : Seq(Entries), currentStage : Stages,
   httpStatus : {NoStatus, "0", "202", "400", "401", "503"},
   retryTier : {NoTier, "5s", "30s", "2min"}]

\* n stages in order, the last of them the current one.
HasStages(token, n) ==
  /\ token \in Tokens
  /\ SortedTo(token.stages, n)
  /\ token.currentStage = token.stages[n].stage

TokenOK(token) == \E n \in Nat \ {0} : HasStages(token, n)

LEMMA NewTokenOK ==
  ASSUME NEW stage \in Stages, stage # "retry", NEW ts \in Nat
  PROVE  HasStages(NewToken(stage, ts), 1) /\ TokenOK(NewToken(stage, ts))
<1> DEFINE event == StageEvent(stage, 0, ts)
           token == NewToken(stage, ts)
<1>1. event \in Entries /\ event.stage = stage
  BY DEF StageEvent, Entries
<1>2. /\ token.stages = <<event>> /\ token.currentStage = stage
      /\ token \in [stages : {<<event>>}, currentStage : {stage}, httpStatus : {NoStatus},
                    retryTier : {NoTier}]
  BY DEF NewToken
<1> HIDE DEF event
<1>3. <<event>> \in Seq(Entries) /\ Len(<<event>>) = 1 /\ <<event>>[1] = event
  BY <1>1
<1>4. SortedTo(<<event>>, 1)
  BY <1>3 DEF SortedTo
<1>5. token \in Tokens
  BY <1>2, <1>3 DEF Tokens
<1> HIDE DEF token
<1>6. HasStages(token, 1)
  BY <1>1, <1>2, <1>3, <1>4, <1>5 DEF HasStages
<1>7. 1 \in Nat \ {0}
  OBVIOUS
<1> QED
  BY <1>6, <1>7 DEF TokenOK, token

\* A stage more: the rest of the token stays, the current stage is the last
\* one, of no lower rank, and "retry" only if it was or comes now.
LEMMA WithStage ==
  ASSUME NEW n \in Nat \ {0}, NEW token, HasStages(token, n), NEW event \in Entries
  PROVE  \E m \in Nat \ {0} :
           /\ HasStages(withStage(token, event), m)
           /\ Inserted(withStage(token, event).stages, m, token.stages, n, event)
           /\ withStage(token, event).httpStatus = token.httpStatus
           /\ withStage(token, event).retryTier = token.retryTier
           /\ STAGE_RANK[token.currentStage] <= STAGE_RANK[withStage(token, event).currentStage]
           /\ STAGE_RANK[event.stage] <= STAGE_RANK[withStage(token, event).currentStage]
           /\ withStage(token, event).currentStage = "retry" /\ event.stage # "retry"
                => token.currentStage = "retry"
<1> DEFINE stages == insertStage(token.stages, event)
           next == withStage(token, event)
<1>1. n \in Nat /\ SortedTo(token.stages, n) /\ token \in Tokens
      /\ token.currentStage = token.stages[n].stage
  BY DEF HasStages
<1>2. PICK m \in Nat \ {0} : SortedTo(stages, m) /\ Inserted(stages, m, token.stages, n, event)
  BY <1>1, InsertStage
<1>3. next = [token EXCEPT !.stages = stages, !.currentStage = highestStage[stages]]
  BY DEF withStage
<1> HIDE DEF stages, next
<1>4. stages \in Seq(Entries) /\ highestStage[stages] = stages[m].stage /\ stages[m] \in Entries
  <2>1. stages \in Seq(Entries) /\ Len(stages) = m
    BY <1>2 DEF SortedTo
  <2> QED
    BY <1>2, <2>1, HighestIsLast
<1>5. /\ next \in Tokens /\ next.stages = stages /\ next.currentStage = stages[m].stage
      /\ next.httpStatus = token.httpStatus /\ next.retryTier = token.retryTier
  BY <1>1, <1>3, <1>4 DEF Tokens, Entries
<1>6. ASSUME NEW k \in 1 .. m
      PROVE  STAGE_RANK[stages[k].stage] <= STAGE_RANK[next.currentStage]
  <2>1. stages[k] \in Entries /\ (k = m \/ k < m)
    BY <1>2 DEF SortedTo
  <2>2. k = m \/ NotAfter(stages[k], stages[m])
    BY <1>2, <2>1 DEF SortedTo
  <2> QED
    BY <1>4, <1>5, <2>1, <2>2, NotAfterOrders
<1>7. STAGE_RANK[event.stage] <= STAGE_RANK[next.currentStage]
  BY <1>2, <1>6 DEF Inserted
<1>8. STAGE_RANK[token.currentStage] <= STAGE_RANK[next.currentStage]
  <2>1. CASE SameEntry(token.stages[n], event)
    BY <1>1, <1>7, <2>1 DEF SameEntry
  <2>2. CASE ~SameEntry(token.stages[n], event)
    <3>1. n \in 1 .. n
      OBVIOUS
    <3>2. PICK k \in 1 .. m : stages[k] = token.stages[n]
      BY <1>2, <2>2, <3>1 DEF Inserted
    <3> QED
      BY <1>1, <1>6, <3>2
  <2> QED
    BY <2>1, <2>2
<1>9. ASSUME next.currentStage = "retry", event.stage # "retry"
      PROVE  token.currentStage = "retry"
  <2>1. stages[m].stage = "retry" /\ m \in 1 .. m
    BY <1>5, <1>9
  <2>2. PICK i \in 1 .. n : stages[m] = token.stages[i]
    BY <1>2, <1>9, <2>1 DEF Inserted
  <2>3. token.stages[i] \in Entries /\ token.stages[n] \in Entries
    BY <1>1 DEF SortedTo
  <2>4. i = n \/ NotAfter(token.stages[i], token.stages[n])
    BY <1>1 DEF SortedTo
  <2>5. STAGE_RANK[token.stages[i].stage] <= STAGE_RANK[token.stages[n].stage]
    BY <2>3, <2>4, NotAfterOrders
  <2>6. token.currentStage \in Stages /\ STAGE_RANK[token.currentStage] \in Nat
    BY <1>1, Ranks DEF Tokens
  <2>7. STAGE_RANK[token.currentStage] = 5
    BY <1>1, <1>8, <1>9, <2>1, <2>2, <2>5, <2>6, Ranks
  <2> QED
    BY <2>6, <2>7, Ranks
<1>10. HasStages(next, m)
  BY <1>2, <1>5 DEF HasStages
<1> WITNESS m \in Nat \ {0}
<1> QED
  BY <1>2, <1>5, <1>7, <1>8, <1>9, <1>10 DEF next, stages

\* The rank of the current stage never falls.
RankKept(token, next) ==
  STAGE_RANK[token.currentStage] <= STAGE_RANK[next.currentStage]

LEMMA WithEnvelope ==
  ASSUME NEW token, TokenOK(token), NEW event \in Entries
  PROVE  TokenOK(withEnvelope(token, event)) /\ RankKept(token, withEnvelope(token, event))
<1> DEFINE next == withStage(token, event)
           tier == IF event.stage = "retry" THEN retryTier(event.attempts)
                   ELSE IF next.currentStage = "retry" THEN next.retryTier ELSE NoTier
           shown == withEnvelope(token, event)
<1>1. PICK n \in Nat \ {0} : HasStages(token, n)
  BY DEF TokenOK
<1>2. PICK m \in Nat \ {0} :
        /\ HasStages(next, m) /\ next.retryTier = token.retryTier
        /\ RankKept(token, next)
  BY <1>1, WithStage DEF RankKept
<1> HIDE DEF next
<1>3. shown = [next EXCEPT !.retryTier = tier]
  BY DEF withEnvelope, next
<1>4. retryTier(event.attempts) \in {"5s", "30s", "2min"}
  BY DEF retryTier
<1>5. next \in Tokens
  BY <1>2 DEF HasStages
<1>6. tier \in {NoTier, "5s", "30s", "2min"}
  BY <1>4, <1>5 DEF Tokens
<1> HIDE DEF tier, shown
<1>7. /\ shown \in Tokens /\ shown.stages = next.stages
      /\ shown.currentStage = next.currentStage /\ shown.retryTier = tier
  BY <1>3, <1>5, <1>6 DEF Tokens
<1>8. HasStages(shown, m)
  BY <1>2, <1>7 DEF HasStages
<1>9. RankKept(token, shown)
  BY <1>2, <1>7 DEF RankKept
<1> QED
  BY <1>8, <1>9 DEF TokenOK, shown

LEMMA WithStageOK ==
  ASSUME NEW token, TokenOK(token), NEW event \in Entries, event.stage # "retry"
  PROVE  TokenOK(withStage(token, event)) /\ RankKept(token, withStage(token, event))
<1>1. PICK n \in Nat \ {0} : HasStages(token, n)
  BY DEF TokenOK
<1> QED
  BY <1>1, WithStage DEF RankKept, TokenOK

LEMMA WithResult ==
  ASSUME NEW token, TokenOK(token), NEW poison \in BOOLEAN,
         NEW status \in {"0", "202", "400", "401", "503"}, NEW ts \in Nat
  PROVE  /\ TokenOK(withResult(token, poison, status, ts))
         /\ RankKept(token, withResult(token, poison, status, ts))
         /\ withResult(token, poison, status, ts).httpStatus = status
<1> DEFINE stage == resultStage(poison, status)
           signed == IF stage = "published"
                     THEN withStage(token, StageEvent("signature_verified", 0, ts)) ELSE token
           next == withStage(signed, StageEvent(stage, 0, ts))
           shown == withResult(token, poison, status, ts)
<1>1. \A s \in Stages : StageEvent(s, 0, ts) \in Entries /\ StageEvent(s, 0, ts).stage = s
  BY DEF StageEvent, Entries
<1>2. stage \in Stages /\ stage # "retry"
  BY Ranks DEF resultStage, apiStageForStatus
<1>3. "signature_verified" \in Stages
  BY Ranks
<1> HIDE DEF stage
<1>4. TokenOK(signed) /\ RankKept(token, signed)
  <2>1. CASE stage = "published"
    BY <1>1, <1>3, <2>1, WithStageOK
  <2>2. CASE stage # "published"
    <3>1. token.currentStage \in Stages
      BY DEF TokenOK, HasStages, Tokens
    <3>2. STAGE_RANK[token.currentStage] \in Nat
      BY <3>1, Ranks
    <3> QED
      BY <2>2, <3>2 DEF RankKept
  <2> QED
    BY <2>1, <2>2
<1>5. shown = [next EXCEPT !.httpStatus = status]
  BY DEF withResult, stage
<1> HIDE DEF signed
<1>6. TokenOK(next) /\ RankKept(signed, next)
  BY <1>1, <1>2, <1>4, WithStageOK
<1> HIDE DEF next, shown
<1>7. PICK m \in Nat \ {0} : HasStages(next, m)
  BY <1>6 DEF TokenOK
<1>8. /\ shown \in Tokens /\ shown.stages = next.stages /\ shown.httpStatus = status
      /\ shown.currentStage = next.currentStage /\ shown.retryTier = next.retryTier
  BY <1>5, <1>7 DEF HasStages, Tokens
<1>9. HasStages(shown, m)
  BY <1>7, <1>8 DEF HasStages
<1>10. RankKept(token, shown)
  <2>1. \A t \in {token, signed, next} : t.currentStage \in Stages
    BY <1>4, <1>6 DEF TokenOK, HasStages, Tokens
  <2>2. \A t \in {token, signed, next} : STAGE_RANK[t.currentStage] \in Nat
    BY <2>1, Ranks
  <2> QED
    BY <1>4, <1>6, <1>8, <2>2 DEF RankKept
<1> QED
  BY <1>8, <1>9, <1>10 DEF TokenOK, shown

-----------------------------------------------------------------------------
(* The tier a token in retry names is that of its last stage.               *)

TierTrue(token) ==
  token.currentStage = "retry" =>
    token.retryTier = retryTier(token.stages[Len(token.stages)].attempts)

\* What is no retry leaves the last retry last.
LEMMA StageTier ==
  ASSUME NEW token, TokenOK(token), TierTrue(token),
         NEW event \in Entries, event.stage # "retry"
  PROVE  TierTrue(withStage(token, event))
<1> DEFINE next == withStage(token, event)
<1>1. PICK n \in Nat \ {0} : HasStages(token, n)
  BY DEF TokenOK
<1>2. PICK m \in Nat \ {0} :
        /\ HasStages(next, m) /\ next.retryTier = token.retryTier
        /\ Inserted(next.stages, m, token.stages, n, event)
        /\ next.currentStage = "retry" => token.currentStage = "retry"
  BY <1>1, WithStage
<1> HIDE DEF next
<1> SUFFICES ASSUME next.currentStage = "retry"
             PROVE  next.retryTier = retryTier(next.stages[Len(next.stages)].attempts)
  BY DEF TierTrue, next
<1>3. token.stages[n].stage = "retry" /\ next.stages[m].stage = "retry"
  BY <1>1, <1>2 DEF HasStages
<1>4. next.stages[m] = token.stages[n]
  BY <1>2, <1>3 DEF Inserted, SameEntry
<1>5. Len(token.stages) = n /\ Len(next.stages) = m
  BY <1>1, <1>2 DEF HasStages, SortedTo
<1> QED
  BY <1>2, <1>4, <1>5 DEF TierTrue

\* Nor does a retry that comes in its turn: after it the last is itself.
LEMMA EnvelopeTier ==
  ASSUME NEW token, TokenOK(token), NEW event \in Entries,
         event.stage # "retry" => TierTrue(token),
         event.stage = "retry" =>
           \A i \in Shown(token, "retry") :
             token.stages[i].attempts = event.attempts \/ ~(token.stages[i].ts > event.ts)
  PROVE  TierTrue(withEnvelope(token, event))
<1> DEFINE next == withStage(token, event)
           tier == IF event.stage = "retry" THEN retryTier(event.attempts)
                   ELSE IF next.currentStage = "retry" THEN next.retryTier ELSE NoTier
           shown == withEnvelope(token, event)
<1>1. PICK n \in Nat \ {0} : HasStages(token, n)
  BY DEF TokenOK
<1>2. PICK m \in Nat \ {0} :
        HasStages(next, m) /\ Inserted(next.stages, m, token.stages, n, event)
  BY <1>1, WithStage
<1>3. event.stage # "retry" => TierTrue(next)
  BY StageTier
<1> HIDE DEF next
<1>4. shown = [next EXCEPT !.retryTier = tier]
  BY DEF withEnvelope, next
<1> HIDE DEF shown
<1>5. /\ shown.stages = next.stages /\ shown.currentStage = next.currentStage
      /\ shown.retryTier = tier
  BY <1>2, <1>4 DEF HasStages, Tokens
<1> SUFFICES ASSUME next.currentStage = "retry"
             PROVE  tier = retryTier(next.stages[m].attempts)
  <2>1. Len(next.stages) = m
    BY <1>2 DEF HasStages, SortedTo
  <2> QED
    BY <1>5, <2>1 DEF TierTrue, shown
<1>6. CASE event.stage # "retry"
  <2>1. Len(next.stages) = m
    BY <1>2 DEF HasStages, SortedTo
  <2> QED
    BY <1>3, <1>6, <2>1 DEF TierTrue
<1>7. CASE event.stage = "retry"
  <2>1. next.stages[m] # event => FALSE
    <3> SUFFICES ASSUME next.stages[m] # event PROVE FALSE
      OBVIOUS
    <3>1. m \in 1 .. m /\ next.stages[m].stage = "retry"
      BY <1>2 DEF HasStages
    <3>2. PICK i \in 1 .. n :
            next.stages[m] = token.stages[i] /\ ~SameEntry(token.stages[i], event)
      BY <1>2, <3>1 DEF Inserted
    <3>3. token.stages[i].stage = "retry" /\ token.stages[i].attempts # event.attempts
      BY <1>7, <3>1, <3>2 DEF SameEntry
    <3>4. token.stages \in Seq(Entries) /\ Len(token.stages) = n
      BY <1>1 DEF HasStages, SortedTo
    <3>5. token.stages[i] \in Entries /\ i \in Shown(token, "retry")
      BY <3>3, <3>4 DEF Shown
    <3>6. ~NotAfter(token.stages[i], event)
      BY <1>2, <3>2 DEF Inserted
    <3>7. token.stages[i].ts > event.ts
      BY <1>7, <3>3, <3>5, <3>6 DEF NotAfter, Entries
    <3> QED
      BY <1>7, <3>3, <3>5, <3>7
  <2> QED
    BY <1>7, <2>1
<1> QED
  BY <1>6, <1>7

LEMMA ResultTier ==
  ASSUME NEW token, TokenOK(token), TierTrue(token), NEW poison \in BOOLEAN,
         NEW status \in {"0", "202", "400", "401", "503"}, NEW ts \in Nat
  PROVE  TierTrue(withResult(token, poison, status, ts))
<1> DEFINE stage == resultStage(poison, status)
           signed == IF stage = "published"
                     THEN withStage(token, StageEvent("signature_verified", 0, ts)) ELSE token
           next == withStage(signed, StageEvent(stage, 0, ts))
           shown == withResult(token, poison, status, ts)
<1>1. \A s \in Stages : StageEvent(s, 0, ts) \in Entries /\ StageEvent(s, 0, ts).stage = s
  BY DEF StageEvent, Entries
<1>2. stage \in Stages /\ stage # "retry" /\ "signature_verified" \in Stages
  BY Ranks DEF resultStage, apiStageForStatus
<1> HIDE DEF stage
<1>3. TokenOK(signed) /\ TierTrue(signed)
  <2>1. CASE stage = "published"
    BY <1>1, <1>2, <2>1, WithStageOK, StageTier
  <2>2. CASE stage # "published"
    BY <2>2
  <2> QED
    BY <2>1, <2>2
<1>4. shown = [next EXCEPT !.httpStatus = status]
  BY DEF withResult, stage
<1> HIDE DEF signed
<1>5. TokenOK(next) /\ TierTrue(next)
  BY <1>1, <1>2, <1>3, WithStageOK, StageTier
<1> HIDE DEF next, shown
<1>6. /\ shown.stages = next.stages /\ shown.currentStage = next.currentStage
      /\ shown.retryTier = next.retryTier
  BY <1>4, <1>5 DEF TokenOK, HasStages, Tokens
<1>7. TierTrue(shown)
  BY <1>5, <1>6 DEF TierTrue
<1> QED
  BY <1>7 DEF shown

-----------------------------------------------------------------------------
(* Which attempts of a stage a token shows.                                 *)

Attempts(token, stage) == {token.stages[i].attempts : i \in Shown(token, stage)}

\* A stage more shows no other attempt than its own.
LEMMA AttemptsGrow ==
  ASSUME NEW n \in Nat \ {0}, NEW token, HasStages(token, n),
         NEW event \in Entries, NEW stage \in Stages
  PROVE  Attempts(withStage(token, event), stage)
           \subseteq Attempts(token, stage) \cup {a \in {event.attempts} : event.stage = stage}
<1> DEFINE next == withStage(token, event)
<1>1. PICK m \in Nat \ {0} :
        HasStages(next, m) /\ Inserted(next.stages, m, token.stages, n, event)
  BY WithStage
<1>2. DOMAIN next.stages = 1 .. m /\ DOMAIN token.stages = 1 .. n
  BY <1>1 DEF HasStages, SortedTo
<1> HIDE DEF next
<1> SUFFICES ASSUME NEW k \in 1 .. m, next.stages[k].stage = stage
             PROVE  \/ next.stages[k].attempts \in Attempts(token, stage)
                    \/ next.stages[k].attempts = event.attempts /\ event.stage = stage
  BY <1>2 DEF Attempts, Shown, next
<1>3. CASE next.stages[k] = event
  BY <1>3
<1>4. ASSUME NEW i \in 1 .. n, next.stages[k] = token.stages[i]
      PROVE  next.stages[k].attempts \in Attempts(token, stage)
  BY <1>2, <1>4 DEF Attempts, Shown
<1> QED
  BY <1>1, <1>3, <1>4 DEF Inserted

LEMMA NewTokenShows ==
  ASSUME NEW stage, NEW ts, NEW k, k # stage
  PROVE  Attempts(NewToken(stage, ts), k) = {}
<1>1. Shown(NewToken(stage, ts), k) = {}
  BY DEF Shown, NewToken, StageEvent
<1> QED
  BY <1>1 DEF Attempts

LEMMA EnvelopeShows ==
  ASSUME NEW token, TokenOK(token), NEW event \in Entries, NEW stage \in Stages
  PROVE  /\ withEnvelope(token, event).httpStatus = token.httpStatus
         /\ Attempts(withEnvelope(token, event), stage)
              \subseteq Attempts(token, stage) \cup {a \in {event.attempts} : event.stage = stage}
<1> DEFINE next == withStage(token, event)
           tier == IF event.stage = "retry" THEN retryTier(event.attempts)
                   ELSE IF next.currentStage = "retry" THEN next.retryTier ELSE NoTier
           shown == withEnvelope(token, event)
<1>1. PICK n \in Nat \ {0} : HasStages(token, n)
  BY DEF TokenOK
<1>2. PICK m \in Nat \ {0} : HasStages(next, m) /\ next.httpStatus = token.httpStatus
  BY <1>1, WithStage
<1>3. shown = [next EXCEPT !.retryTier = tier]
  BY DEF withEnvelope
<1>4. Attempts(next, stage)
        \subseteq Attempts(token, stage) \cup {a \in {event.attempts} : event.stage = stage}
  BY <1>1, AttemptsGrow
<1>5. next \in Tokens
  BY <1>2 DEF HasStages
<1> HIDE DEF tier, shown, next
<1>6. shown.stages = next.stages /\ shown.httpStatus = next.httpStatus
  BY <1>3, <1>5 DEF Tokens
<1>7. Attempts(shown, stage) = Attempts(next, stage)
  BY <1>6 DEF Attempts, Shown
<1> QED
  BY <1>2, <1>4, <1>6, <1>7 DEF shown

\* The HTTP result shows no stage of the worker.
LEMMA ResultShows ==
  ASSUME NEW token, TokenOK(token), NEW poison \in BOOLEAN,
         NEW status \in {"0", "202", "400", "401", "503"}, NEW ts \in Nat,
         NEW k \in WORKER_STAGES
  PROVE  Attempts(withResult(token, poison, status, ts), k) \subseteq Attempts(token, k)
<1> DEFINE stage == resultStage(poison, status)
           signed == IF stage = "published"
                     THEN withStage(token, StageEvent("signature_verified", 0, ts)) ELSE token
           next == withStage(signed, StageEvent(stage, 0, ts))
           shown == withResult(token, poison, status, ts)
<1>1. \A s \in Stages : StageEvent(s, 0, ts) \in Entries /\ StageEvent(s, 0, ts).stage = s
  BY DEF StageEvent, Entries
<1>2. stage \in Stages /\ stage # "retry" /\ stage # k
  BY Ranks DEF resultStage, apiStageForStatus, WORKER_STAGES, WORKER_TERMINALS
<1>3. "signature_verified" \in Stages /\ "signature_verified" # k /\ k \in Stages
  BY Ranks DEF WORKER_STAGES, WORKER_TERMINALS
<1> HIDE DEF stage
<1>4. ASSUME NEW t, TokenOK(t), NEW s \in Stages, s # k
      PROVE  Attempts(withStage(t, StageEvent(s, 0, ts)), k) \subseteq Attempts(t, k)
  <2>1. PICK n \in Nat \ {0} : HasStages(t, n)
    BY <1>4 DEF TokenOK
  <2> QED
    BY <1>1, <1>3, <1>4, <2>1, AttemptsGrow
<1>5. TokenOK(signed) /\ Attempts(signed, k) \subseteq Attempts(token, k)
  BY <1>1, <1>3, <1>4, WithStageOK
<1>6. shown = [next EXCEPT !.httpStatus = status]
  BY DEF withResult, stage
<1> HIDE DEF signed
<1>7. TokenOK(next) /\ Attempts(next, k) \subseteq Attempts(signed, k)
  BY <1>1, <1>2, <1>4, <1>5, WithStageOK
<1> HIDE DEF next, shown
<1>8. next \in Tokens
  BY <1>7 DEF TokenOK, HasStages
<1>9. shown.stages = next.stages
  BY <1>6, <1>8 DEF Tokens
<1>10. Attempts(shown, k) = Attempts(next, k)
  BY <1>9 DEF Attempts, Shown
<1> QED
  BY <1>5, <1>7, <1>10 DEF shown

\* A stage is shown once for an attempt.
LEMMA ShownOnce ==
  ASSUME NEW token, TokenOK(token), NEW stage,
         NEW i \in Shown(token, stage), NEW j \in Shown(token, stage),
         token.stages[i].attempts = token.stages[j].attempts
  PROVE  i = j
<1>1. PICK n \in Nat \ {0} : SortedTo(token.stages, n)
  BY DEF TokenOK, HasStages
<1>2. /\ i \in 1 .. n /\ j \in 1 .. n
      /\ SameEntry(token.stages[i], token.stages[j])
      /\ SameEntry(token.stages[j], token.stages[i])
  BY <1>1 DEF SortedTo, Shown, SameEntry
<1>3. ~(i < j) /\ ~(j < i)
  BY <1>1, <1>2 DEF SortedTo
<1> QED
  BY <1>2, <1>3

-----------------------------------------------------------------------------
(* The path of the ball.                                                    *)

Boxes == {"post", "guard", "validate", "exchange", "work", "worker", "postgres", "dlq"}
           \cup RetryBoxes

LEMMA MainRow ==
  /\ \A i \in 1 .. 7 : MAIN_ROW[i] \in Boxes /\ mainIndex(MAIN_ROW[i]) = i
  /\ \A node \in Boxes : mainIndex(node) \in 0 .. 7
  /\ \A node \in Boxes : mainIndex(node) # 0 => MAIN_ROW[mainIndex(node)] = node
  /\ \A node \in RetryBoxes : mainIndex(node) = 0
  /\ mainIndex("worker") = 6 /\ mainIndex("postgres") = 7
<1>1. /\ MAIN_ROW[1] = "post" /\ MAIN_ROW[2] = "guard" /\ MAIN_ROW[3] = "validate"
      /\ MAIN_ROW[4] = "exchange" /\ MAIN_ROW[5] = "work" /\ MAIN_ROW[6] = "worker"
      /\ MAIN_ROW[7] = "postgres"
  BY DEF MAIN_ROW
<1>2. \A i, j \in 1 .. 7 : MAIN_ROW[i] = MAIN_ROW[j] => i = j
  BY <1>1
<1>3. ASSUME NEW i \in 1 .. 7 PROVE mainIndex(MAIN_ROW[i]) = i
  <2>1. (CHOOSE j \in 1 .. 7 : MAIN_ROW[j] = MAIN_ROW[i]) = i
    BY <1>2
  <2>2. MAIN_ROW[i] \in DOMAIN MAIN_INDEX /\ MAIN_INDEX[MAIN_ROW[i]] = i
    BY <2>1 DEF MAIN_INDEX
  <2> QED
    BY <2>2 DEF mainIndex
<1>4. DOMAIN MAIN_INDEX = {"post", "guard", "validate", "exchange", "work", "worker", "postgres"}
  BY <1>1 DEF MAIN_INDEX
<1>5. mainIndex("dlq") = 0 /\ \A node \in RetryBoxes : mainIndex(node) = 0
  BY <1>4 DEF mainIndex, RetryBoxes
<1>6. \A node \in Boxes : node \in RetryBoxes \/ node = "dlq" \/ \E i \in 1 .. 7 : node = MAIN_ROW[i]
  BY <1>1 DEF Boxes
<1>7. mainIndex("worker") = 6 /\ mainIndex("postgres") = 7
  BY <1>1, <1>3
<1> QED
  BY <1>1, <1>3, <1>5, <1>6, <1>7 DEF Boxes

\* From each box on the main row no further than to the next one.
NoFlight(path, n) ==
  \A i \in 1 .. n - 1 :
    mainIndex(path[i]) # 0 => mainIndex(path[i + 1]) <= mainIndex(path[i]) + 1

\* A path of n boxes that ends in this one.
Reaches(path, n, node) ==
  path \in Seq(Boxes) /\ Len(path) = n /\ path[n] = node /\ NoFlight(path, n)

LEMMA StepReaches ==
  ASSUME NEW prev \in Boxes, NEW node \in Boxes, prev # node
  PROVE  \E n \in Nat \ {0} :
           /\ Reaches(pathStep(prev, node), n, node)
           /\ mainIndex(prev) # 0
                => mainIndex(pathStep(prev, node)[1]) <= mainIndex(prev) + 1
<1> DEFINE step == pathStep(prev, node)
           from == mainIndex(prev)
           to == mainIndex(node)
<1>1. from \in 0 .. 7 /\ to \in 0 .. 7
  BY MainRow
<1>2. CASE from # 0 /\ to > from + 1
  <2>1. step = SubSeq(MAIN_ROW, from + 1, to)
    BY <1>2 DEF pathStep
  <2> HIDE DEF from, to, step
  <2>2. /\ step \in Seq(Boxes) /\ Len(step) = to - from
        /\ \A i \in 1 .. to - from : step[i] = MAIN_ROW[from + i]
    <3>1. from + 1 \in Int /\ to \in Int /\ from + 1 <= to /\ from + 1 >= 1 /\ to <= 7
      BY <1>1, <1>2
    <3>2. \A i \in 1 .. 7 : MAIN_ROW[i] \in Boxes
      BY MainRow
    <3>3. \A i \in from + 1 .. to : MAIN_ROW[i] \in Boxes
      BY <3>1, <3>2
    <3>4. /\ step \in Seq(Boxes)
          /\ Len(step) = IF from + 1 <= to THEN to - (from + 1) + 1 ELSE 0
          /\ \A i \in 1 .. to - (from + 1) + 1 : step[i] = MAIN_ROW[from + 1 + i - 1]
      BY <2>1, <3>1, <3>3, SubSeqProperties
    <3> QED
      BY <1>1, <3>1, <3>4
  <2>3. ASSUME NEW i \in 1 .. to - from PROVE mainIndex(step[i]) = from + i
    <3>1. from + i \in 1 .. 7 /\ step[i] = MAIN_ROW[from + i]
      BY <1>1, <1>2, <2>2
    <3> QED
      BY <3>1, MainRow
  <2>4. step[to - from] = node
    <3>1. MAIN_ROW[to] = node
      BY <1>1, <1>2, MainRow DEF to
    <3> QED
      BY <1>1, <1>2, <2>2, <3>1
  <2>5. NoFlight(step, to - from)
    BY <1>1, <1>2, <2>3 DEF NoFlight
  <2>6. to - from \in Nat \ {0} /\ 1 \in 1 .. to - from
    BY <1>1, <1>2
  <2>7. mainIndex(step[1]) <= from + 1
    BY <1>1, <2>3, <2>6
  <2>8. PICK n \in Nat \ {0} : n = to - from
    BY <2>6
  <2> WITNESS n \in Nat \ {0}
  <2> QED
    BY <2>2, <2>4, <2>5, <2>7, <2>8 DEF Reaches, step, from
<1>3. CASE ~(from # 0 /\ to > from + 1) /\ prev \in RetryBoxes /\ node = "postgres"
  <2>1. step = <<"worker", node>>
    BY <1>3 DEF pathStep
  <2>2. step \in Seq(Boxes) /\ Len(step) = 2 /\ step[1] = "worker" /\ step[2] = "postgres"
    <3>1. step = <<"worker", "postgres">> /\ "worker" \in Boxes /\ "postgres" \in Boxes
      BY <1>3, <2>1 DEF Boxes
    <3> HIDE DEF step
    <3> QED
      BY <3>1
  <2> HIDE DEF step
  <2>3. NoFlight(step, 2)
    BY <2>2, MainRow DEF NoFlight
  <2>4. from = 0
    BY <1>3, MainRow
  <2> WITNESS 2 \in Nat \ {0}
  <2> QED
    BY <1>3, <2>2, <2>3, <2>4 DEF Reaches, step
<1>4. CASE ~(from # 0 /\ to > from + 1) /\ ~(prev \in RetryBoxes /\ node = "postgres")
  <2>1. step = <<node>>
    BY <1>4 DEF pathStep
  <2>2. step \in Seq(Boxes) /\ Len(step) = 1 /\ step[1] = node
    BY <2>1
  <2> HIDE DEF step
  <2>3. NoFlight(step, 1)
    BY DEF NoFlight
  <2>4. from # 0 => mainIndex(step[1]) <= from + 1
    BY <1>1, <1>4, <2>2
  <2> WITNESS 1 \in Nat \ {0}
  <2> QED
    BY <2>2, <2>3, <2>4 DEF Reaches, step
<1> QED
  BY <1>2, <1>3, <1>4

\* One path after another.
LEMMA Joined ==
  ASSUME NEW n \in Nat \ {0}, NEW path, NEW prev, Reaches(path, n, prev),
         NEW m \in Nat \ {0}, NEW step, NEW node, Reaches(step, m, node),
         mainIndex(prev) # 0 => mainIndex(step[1]) <= mainIndex(prev) + 1
  PROVE  Reaches(path \o step, n + m, node)
<1> DEFINE both == path \o step
<1>1. /\ path \in Seq(Boxes) /\ Len(path) = n /\ path[n] = prev
      /\ step \in Seq(Boxes) /\ Len(step) = m /\ step[m] = node
  BY DEF Reaches
<1>2. /\ both \in Seq(Boxes) /\ Len(both) = n + m
      /\ \A i \in 1 .. n + m : both[i] = IF i <= n THEN path[i] ELSE step[i - n]
  BY <1>1
<1> HIDE DEF both
<1>3. both[n + m] = node
  BY <1>1, <1>2
<1>4. ASSUME NEW i \in 1 .. n + m - 1, mainIndex(both[i]) # 0
      PROVE  mainIndex(both[i + 1]) <= mainIndex(both[i]) + 1
  <2>1. CASE i < n
    <3>1. both[i] = path[i] /\ both[i + 1] = path[i + 1] /\ i \in 1 .. n - 1
      BY <1>2, <2>1
    <3> QED
      BY <1>4, <3>1 DEF Reaches, NoFlight
  <2>2. CASE i = n
    <3>1. both[i] = prev /\ both[i + 1] = step[1]
      BY <1>1, <1>2, <2>2
    <3> QED
      BY <1>4, <3>1
  <2>3. CASE i > n
    <3>1. both[i] = step[i - n] /\ both[i + 1] = step[(i - n) + 1] /\ i - n \in 1 .. m - 1
      BY <1>2, <2>3
    <3> QED
      BY <1>4, <3>1 DEF Reaches, NoFlight
  <2> QED
    BY <2>1, <2>2, <2>3
<1>5. NoFlight(both, n + m)
  BY <1>4 DEF NoFlight
<1> QED
  BY <1>2, <1>3, <1>5 DEF Reaches, both

\* One round of the loop over the nodes, after these rounds.
Round(to, nodes, i) ==
  IF i = 1 THEN <<nodes[1]>> ELSE to[i - 1] \o pathStep(nodes[i - 1], nodes[i])

\* The recursive definition has a solution, so Walk is one.
LEMMA WalkUnfolds ==
  ASSUME NEW n \in Nat, NEW nodes, DOMAIN nodes = 1 .. n
  PROVE  Walk(nodes) = [i \in 1 .. n |-> Round(Walk(nodes), nodes, i)]
<1> DEFINE Solves(to, k) == to = [i \in 1 .. k |-> Round(to, nodes, i)]
           T == {k \in Nat : \E to : Solves(to, k)}
<1>1. 0 \in T
  <2>1. Solves([i \in 1 .. 0 |-> 0], 0)
    OBVIOUS
  <2> HIDE DEF Solves
  <2> QED
    BY <2>1
<1>2. ASSUME NEW k \in T PROVE k + 1 \in T
  <2>1. PICK to : to = [i \in 1 .. k |-> Round(to, nodes, i)]
    BY <1>2
  <2> DEFINE more == [i \in 1 .. k + 1 |-> Round(to, nodes, i)]
  <2>2. k \in Nat
    OBVIOUS
  <2>3. \A i \in 1 .. k : more[i] = to[i]
    BY <2>1, <2>2
  <2>4. \A i \in 1 .. k + 1 : Round(more, nodes, i) = Round(to, nodes, i)
    <3>1. ASSUME NEW i \in 1 .. k + 1, i # 1 PROVE more[i - 1] = to[i - 1]
      <4>1. i - 1 \in 1 .. k
        BY <2>2, <3>1
      <4> HIDE DEF more
      <4> QED
        BY <2>3, <4>1
    <3> HIDE DEF more
    <3> QED
      BY <3>1 DEF Round
  <2>5. more = [i \in 1 .. k + 1 |-> Round(more, nodes, i)]
    BY <2>4
  <2>6. Solves(more, k + 1)
    BY <2>5
  <2> HIDE DEF more, Solves
  <2> QED
    BY <2>2, <2>6
<1>3. T = Nat
  <2> HIDE DEF T
  <2>1. T \in SUBSET Nat
    BY DEF T
  <2> QED
    BY <1>1, <1>2, <2>1, NatInductive
<1>4. \E to : Solves(to, n)
  BY <1>3
<1>5. Walk(nodes) = CHOOSE to : Solves(to, n)
  BY DEF Walk, Round
<1> HIDE DEF Solves
<1>6. Solves(Walk(nodes), n)
  BY <1>4, <1>5
<1> QED
  BY <1>6 DEF Solves

\* The path up to a node ends there and flies over no box.
LEMMA WalkReaches ==
  ASSUME NEW n \in Nat, NEW nodes, DOMAIN nodes = 1 .. n, \A i \in 1 .. n : nodes[i] \in Boxes
  PROVE  \A i \in 1 .. n : \E l \in Nat \ {0} : Reaches(Walk(nodes)[i], l, nodes[i])
<1> DEFINE Good(i) == \E l \in Nat \ {0} : Reaches(Walk(nodes)[i], l, nodes[i])
           T == {k \in Nat : k \in 1 .. n => Good(k)}
<1>1. \A i \in 1 .. n : Walk(nodes)[i] = Round(Walk(nodes), nodes, i)
  BY WalkUnfolds
<1>2. 0 \in T
  OBVIOUS
<1>3. ASSUME NEW k \in T PROVE k + 1 \in T
  <2> SUFFICES ASSUME k + 1 \in 1 .. n PROVE Good(k + 1)
    OBVIOUS
  <2>1. k \in Nat /\ nodes[k + 1] \in Boxes
    OBVIOUS
  <2>2. CASE k = 0
    <3>1. Walk(nodes)[k + 1] = <<nodes[k + 1]>>
      BY <1>1, <2>2 DEF Round
    <3>2. Reaches(<<nodes[k + 1]>>, 1, nodes[k + 1])
      BY <2>1 DEF Reaches, NoFlight
    <3> QED
      BY <3>1, <3>2
  <2>3. CASE k # 0
    <3>1. k \in 1 .. n /\ nodes[k] \in Boxes
      BY <2>1, <2>3
    <3>2. PICK l \in Nat \ {0} : Reaches(Walk(nodes)[k], l, nodes[k])
      BY <3>1
    <3>3. Walk(nodes)[k + 1] = Walk(nodes)[k] \o pathStep(nodes[k], nodes[k + 1])
      <4>1. Walk(nodes)[k + 1] = Round(Walk(nodes), nodes, k + 1)
        BY <1>1
      <4>2. k + 1 # 1 /\ (k + 1) - 1 = k
        BY <2>1, <2>3
      <4> QED
        BY <4>1, <4>2, Zenon DEF Round
    <3>4. CASE nodes[k] = nodes[k + 1]
      <4>1. pathStep(nodes[k], nodes[k + 1]) = <<>>
        BY <3>4 DEF pathStep
      <4>2. Walk(nodes)[k] \in Seq(Boxes)
        BY <3>2 DEF Reaches
      <4>3. Walk(nodes)[k + 1] = Walk(nodes)[k]
        BY <3>3, <4>1, <4>2
      <4> QED
        BY <3>2, <3>4, <4>3
    <3>5. CASE nodes[k] # nodes[k + 1]
      <4>1. PICK m \in Nat \ {0} :
              /\ Reaches(pathStep(nodes[k], nodes[k + 1]), m, nodes[k + 1])
              /\ mainIndex(nodes[k]) # 0
                   => mainIndex(pathStep(nodes[k], nodes[k + 1])[1]) <= mainIndex(nodes[k]) + 1
        BY <2>1, <3>1, <3>5, StepReaches
      <4>2. Reaches(Walk(nodes)[k + 1], l + m, nodes[k + 1])
        BY <3>2, <3>3, <4>1, Joined
      <4>3. PICK both \in Nat \ {0} : both = l + m
        OBVIOUS
      <4> QED
        BY <4>2, <4>3
    <3> QED
      BY <3>4, <3>5
  <2> QED
    BY <2>2, <2>3
<1>4. T = Nat
  <2> HIDE DEF T
  <2>1. T \in SUBSET Nat
    BY DEF T
  <2> QED
    BY <1>2, <1>3, <2>1, NatInductive
<1> QED
  BY <1>4

LEMMA NodeIsBox ==
  ASSUME NEW event \in Entries
  PROVE  nodeOf(event) \in Boxes
<1>1. event.stage \in Stages
  BY DEF Entries
<1>2. retryTier(event.attempts) \in {"5s", "30s", "2min"}
  BY DEF retryTier
<1>3. \A tier : retryNode(tier) \in RetryBoxes
  BY DEF retryNode, RetryBoxes
<1>4. event.stage # "retry" => STAGE_META[event.stage] \in Boxes
  BY <1>1, Ranks DEF STAGE_META, Boxes
<1> QED
  BY <1>3, <1>4 DEF nodeOf, Boxes

\* The ball of a token ends in the box of its current stage, without flying
\* over a box of the main row.
THEOREM PathReaches ==
  ASSUME NEW n \in Nat \ {0}, NEW token, HasStages(token, n)
  PROVE  \E l \in Nat \ {0} : Reaches(pathOf(token), l, nodeOf(token.stages[n]))
<1> DEFINE nodes == [i \in DOMAIN token.stages |-> nodeOf(token.stages[i])]
<1>1. token.stages \in Seq(Entries) /\ Len(token.stages) = n /\ DOMAIN token.stages = 1 .. n
  BY DEF HasStages, SortedTo
<1>2. /\ DOMAIN nodes = 1 .. n
      /\ \A i \in 1 .. n : nodes[i] \in Boxes /\ nodes[i] = nodeOf(token.stages[i])
  BY <1>1, NodeIsBox
<1>3. pathOf(token) = Walk(nodes)[Len(nodes)]
  BY DEF pathOf
<1>4. Len(nodes) = n
  BY <1>1
<1> HIDE DEF nodes
<1>5. \A i \in 1 .. n : \E l \in Nat \ {0} : Reaches(Walk(nodes)[i], l, nodes[i])
  BY <1>2, WalkReaches
<1>6. n \in 1 .. n
  OBVIOUS
<1> QED
  BY <1>2, <1>3, <1>4, <1>5, <1>6
=============================================================================
