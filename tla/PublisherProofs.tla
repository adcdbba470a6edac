-------------------------- MODULE PublisherProofs ---------------------------
(***************************************************************************)
(* Publisher's invariants, for any requests, correlation ids and losses.   *)
(*                                                                         *)
(* A 202 needs a confirm that found no return noted.  What carries the     *)
(* argument is the order of the frames: whatever the broker confirms is    *)
(* queued, or its return is noted or travels ahead of the confirm, as long *)
(* as the request waits for it.                                            *)
(***************************************************************************)
EXTENDS Publisher, TLAPS

\* A request's own token leads to it, for as long as it waits.
Tokened ==
  /\ \A k \in Tokens : pendingReturns[k] # None =>
       k = pendingReturns[k] /\ http[pendingReturns[k]] = "pending"
  /\ \A r \in Requests : http[r] = "pending" => pendingReturns[r] = r

\* Nothing of a request is under way before it is made.
Unsent ==
  \A r \in Requests : http[r] = "new" =>
    /\ r \notin outgoing \cup toConfirm
    /\ confirm[r] = "waiting"
    /\ \A i \in 1 .. Len(incoming) : incoming[i].pub # r

\* A return is of a message the broker could not route.
ReturnsTrue ==
  /\ \A r \in Requests : returned[r] => r \in unroutable
  /\ \A i \in 1 .. Len(incoming) : incoming[i].kind = "return" => incoming[i].pub \in unroutable

\* Of a confirmed copy of r: queued, or its return is noted or among the next n frames.
Covered(r, n) ==
  \/ r \in queued \/ http[r] # "pending" \/ returned[r]
  \/ \E j \in 1 .. n : incoming[j] = Frame("return", r)

InOrder ==
  \A r \in Requests :
    /\ r \in toConfirm => Covered(r, Len(incoming))
    /\ \A i \in 1 .. Len(incoming) : incoming[i] = Frame("ack", r) => Covered(r, i - 1)
    /\ confirm[r] = "resolved" => Covered(r, 0)

PublisherInv ==
  TypeOK /\ Tokened /\ Unsent /\ ReturnsTrue /\ InOrder /\ AcceptedIsQueued

-----------------------------------------------------------------------------
LEMMA PublisherInvInit ==
  Init => PublisherInv
<1> SUFFICES ASSUME Init
             PROVE  PublisherInv
  OBVIOUS
<1>1. TypeOK
  BY PublisherAssumption DEF Init, TypeOK, Frames
<1> QED
  BY <1>1
  DEF Init, PublisherInv, Tokened, Unsent, ReturnsTrue, InOrder, AcceptedIsQueued, Covered, Tokens

\* What the two ends of a queue of frames look like after a step.
LEMMA Appended ==
  ASSUME TypeOK, NEW f \in Frames, incoming' = Append(incoming, f)
  PROVE  /\ incoming' \in Seq(Frames)
         /\ Len(incoming') = Len(incoming) + 1 /\ Len(incoming) \in Nat
         /\ \A i \in 1 .. Len(incoming) : incoming'[i] = incoming[i]
         /\ incoming'[Len(incoming) + 1] = f
  BY DEF TypeOK

LEMMA Received ==
  ASSUME TypeOK, incoming # <<>>, incoming' = Tail(incoming)
  PROVE  /\ incoming' \in Seq(Frames)
         /\ Head(incoming) \in Frames /\ Head(incoming) = incoming[1]
         /\ Len(incoming') = Len(incoming) - 1 /\ Len(incoming) \in Nat \ {0}
         /\ \A i \in 1 .. Len(incoming') : incoming'[i] = incoming[i + 1]
  BY DEF TypeOK

-----------------------------------------------------------------------------
(* One lemma per action that can disturb the invariant.                     *)

LEMMA PublishOK ==
  ASSUME PublisherInv, NEW r \in Requests, Publish(r)
  PROVE  PublisherInv'
<1> USE DEF PublisherInv, Publish, publishToken, brokerVars, ghostVars
<1>1. TypeOK'
  BY DEF TypeOK, Tokens
<1>2. Tokened'
  BY PublisherAssumption DEF Tokened, TypeOK, Tokens
<1>3. Unsent'
  BY DEF Unsent, TypeOK
<1>4. ReturnsTrue' /\ AcceptedIsQueued'
  BY DEF ReturnsTrue, AcceptedIsQueued, TypeOK
<1>5. InOrder'
  <2> SUFFICES ASSUME NEW q \in Requests
               PROVE  /\ q \in toConfirm => Covered(q, Len(incoming))'
                      /\ \A i \in 1 .. Len(incoming) :
                           incoming[i] = Frame("ack", q) => Covered(q, i - 1)'
                      /\ confirm[q] = "resolved" => Covered(q, 0)'
    BY DEF InOrder, Covered, Frame
  <2>1. CASE q = r
    BY <2>1 DEF Unsent, Frame
  <2>2. CASE q # r
    BY <2>2 DEF InOrder, Covered, TypeOK
  <2> QED
    BY <2>1, <2>2
<1> QED
  BY <1>1, <1>2, <1>3, <1>4, <1>5

\* An answer other than 202, and a 202 for what is queued.
LEMMA AnswerOK ==
  ASSUME PublisherInv, NEW r \in Requests, NEW code \in {"202", "503"},
         http[r] = "pending", code = "202" => r \in queued, Answer(r, code)
  PROVE  PublisherInv'
<1> USE DEF PublisherInv, Answer, publishToken, brokerVars, ghostVars
<1>1. TypeOK'
  BY DEF TypeOK, Tokens
<1>2. Tokened'
  BY PublisherAssumption DEF Tokened, TypeOK, Tokens
<1>3. Unsent' /\ ReturnsTrue' /\ AcceptedIsQueued'
  BY DEF Unsent, ReturnsTrue, AcceptedIsQueued, TypeOK
<1>4. InOrder'
  BY DEF InOrder, Covered, TypeOK, Frame
<1> QED
  BY <1>1, <1>2, <1>3, <1>4

LEMMA FinishOK ==
  ASSUME PublisherInv, NEW r \in Requests, Finish(r)
  PROVE  PublisherInv'
<1>1. CASE Accept(r)
  <2>1. http[r] = "pending" /\ r \in queued
    BY <1>1 DEF Accept, PublisherInv, InOrder, Covered
  <2> QED
    BY <1>1, <2>1, AnswerOK DEF Accept
<1>2. CASE Refuse(r)
  BY <1>2, AnswerOK DEF Refuse
<1>3. CASE Timeout(r)
  BY <1>3, AnswerOK DEF Timeout
<1> QED
  BY <1>1, <1>2, <1>3 DEF Finish

LEMMA ReceiveReturnOK ==
  ASSUME PublisherInv, ReceiveReturn
  PROVE  PublisherInv'
<1> DEFINE f == Head(incoming)
           r == f.pub
<1>1. /\ f \in Frames /\ f = incoming[1] /\ f.kind = "return"
      /\ incoming' \in Seq(Frames) /\ Len(incoming') = Len(incoming) - 1
      /\ Len(incoming) \in Nat \ {0}
      /\ \A i \in 1 .. Len(incoming') : incoming'[i] = incoming[i + 1]
  BY Received DEF PublisherInv, ReceiveReturn
<1>2. r \in Requests /\ r \in unroutable
  BY <1>1 DEF PublisherInv, ReturnsTrue, Frames
<1>3. returned' = IF pendingReturns[r] = None THEN returned ELSE [returned EXCEPT ![r] = TRUE]
  BY <1>2 DEF PublisherInv, Tokened, ReceiveReturn, publishToken, Tokens
<1>4. /\ UNCHANGED <<http, correlationOf, pendingReturns, confirm, connected, bound,
                     outgoing, toConfirm, losses, queued, unroutable>>
  BY DEF ReceiveReturn, ghostVars
<1>5. \A q \in Requests :
        /\ q # r => returned'[q] = returned[q]
        /\ returned[q] => returned'[q]
        /\ http[r] = "pending" => returned'[r]
  BY <1>2, <1>3, PublisherAssumption DEF PublisherInv, TypeOK, Tokened
<1> HIDE DEF f, r
<1>6. TypeOK'
  BY <1>1, <1>2, <1>3, <1>4 DEF PublisherInv, TypeOK
<1>7. Tokened' /\ AcceptedIsQueued'
  BY <1>4 DEF PublisherInv, Tokened, AcceptedIsQueued
<1>8. Unsent'
  BY <1>1, <1>4 DEF PublisherInv, Unsent
<1>9. ReturnsTrue'
  <2>1. \A q \in Requests : returned'[q] => returned[q] \/ q = r
    BY <1>5
  <2>2. \A q \in Requests : returned'[q] => q \in unroutable'
    BY <1>2, <1>4, <2>1 DEF PublisherInv, ReturnsTrue
  <2>3. ASSUME NEW i \in 1 .. Len(incoming'), incoming'[i].kind = "return"
        PROVE  incoming'[i].pub \in unroutable'
    <3>1. i + 1 \in 1 .. Len(incoming) /\ incoming'[i] = incoming[i + 1]
      BY <1>1, <2>3
    <3> QED
      BY <1>4, <2>3, <3>1 DEF PublisherInv, ReturnsTrue
  <2> QED
    BY <2>2, <2>3 DEF ReturnsTrue
<1>10. \A q \in Requests, n \in 1 .. Len(incoming) : Covered(q, n) => Covered(q, n - 1)'
  <2> SUFFICES ASSUME NEW q \in Requests, NEW n \in 1 .. Len(incoming),
                      NEW j \in 1 .. n, incoming[j] = Frame("return", q),
                      http[q] = "pending"
               PROVE  returned'[q] \/ \E k \in 1 .. n - 1 : incoming'[k] = Frame("return", q)
    BY <1>4, <1>5 DEF Covered, Frame
  <2>1. CASE j = 1
    BY <1>1, <1>5, <2>1 DEF Frame, r
  <2>2. CASE j # 1
    <3>1. j - 1 \in 1 .. n - 1 /\ j - 1 \in 1 .. Len(incoming')
      BY <1>1, <2>2
    <3>2. incoming'[j - 1] = incoming[j]
      BY <1>1, <3>1
    <3> QED
      BY <3>1, <3>2
  <2> QED
    BY <2>1, <2>2
<1>11. \A q \in Requests : Covered(q, 0) => Covered(q, 0)'
  BY <1>4, <1>5 DEF Covered
<1>12. InOrder'
  <2> SUFFICES ASSUME NEW q \in Requests
               PROVE  /\ q \in toConfirm' => Covered(q, Len(incoming))'
                      /\ \A i \in 1 .. Len(incoming') :
                           incoming'[i] = Frame("ack", q) => Covered(q, i - 1)'
                      /\ confirm'[q] = "resolved" => Covered(q, 0)'
    BY DEF InOrder, Covered, Frame
  <2>1. ASSUME q \in toConfirm'
        PROVE  Covered(q, Len(incoming))'
    <3>1. Covered(q, Len(incoming)) /\ Len(incoming) \in 1 .. Len(incoming)
      BY <1>1, <1>4, <2>1 DEF PublisherInv, InOrder
    <3> QED
      BY <1>1, <1>10, <3>1 DEF Covered
  <2>2. ASSUME NEW i \in 1 .. Len(incoming'), incoming'[i] = Frame("ack", q)
        PROVE  Covered(q, i - 1)'
    <3>1. incoming[i + 1] = Frame("ack", q) /\ i + 1 \in 1 .. Len(incoming) /\ i \in 1 .. Len(incoming)
      BY <1>1, <2>2
    <3>2. Covered(q, i)
      BY <3>1 DEF PublisherInv, InOrder
    <3> QED
      BY <1>10, <3>1, <3>2
  <2> QED
    BY <1>1, <1>4, <1>11, <2>1, <2>2 DEF PublisherInv, InOrder, Covered
<1> QED
  BY <1>6, <1>7, <1>8, <1>9, <1>12 DEF PublisherInv

LEMMA ReceiveConfirmOK ==
  ASSUME PublisherInv, ReceiveConfirm
  PROVE  PublisherInv'
<1> DEFINE f == Head(incoming)
           r == f.pub
           settled == IF confirm[r] # "waiting" THEN confirm[r]
                      ELSE IF f.kind = "ack" THEN "resolved" ELSE "rejected"
<1>1. /\ f \in Frames /\ f = incoming[1] /\ f.kind # "return"
      /\ incoming' \in Seq(Frames) /\ Len(incoming') = Len(incoming) - 1
      /\ Len(incoming) \in Nat \ {0}
      /\ \A i \in 1 .. Len(incoming') : incoming'[i] = incoming[i + 1]
  BY Received DEF PublisherInv, ReceiveConfirm
<1>2. r \in Requests
  BY <1>1 DEF Frames
<1>3. /\ confirm' = [confirm EXCEPT ![r] = settled]
      /\ UNCHANGED <<http, correlationOf, pendingReturns, returned, connected, bound,
                     outgoing, toConfirm, losses, queued, unroutable>>
  BY DEF ReceiveConfirm, ghostVars
<1>4. settled \in {"waiting", "resolved", "rejected"}
  BY <1>2 DEF PublisherInv, TypeOK
<1>5. settled = "resolved" => confirm[r] = "resolved" \/ f = Frame("ack", r)
  BY <1>1 DEF Frame, Frames
<1>6. http[r] # "new"
  BY <1>1, <1>2 DEF PublisherInv, Unsent
<1> HIDE DEF f, r, settled
<1>7. TypeOK'
  BY <1>1, <1>2, <1>3, <1>4 DEF PublisherInv, TypeOK
<1>8. Tokened' /\ AcceptedIsQueued'
  BY <1>3 DEF PublisherInv, Tokened, AcceptedIsQueued
<1>9. Unsent'
  BY <1>1, <1>2, <1>3, <1>6 DEF PublisherInv, Unsent, TypeOK
<1>10. ReturnsTrue'
  BY <1>1, <1>3 DEF PublisherInv, ReturnsTrue
<1>11. \A q \in Requests, n \in 1 .. Len(incoming) : Covered(q, n) => Covered(q, n - 1)'
  <2> SUFFICES ASSUME NEW q \in Requests, NEW n \in 1 .. Len(incoming),
                      NEW j \in 1 .. n, incoming[j] = Frame("return", q)
               PROVE  \E k \in 1 .. n - 1 : incoming'[k] = Frame("return", q)
    BY <1>3 DEF Covered, Frame
  <2>1. j # 1
    BY <1>1 DEF Frame
  <2>2. j - 1 \in 1 .. n - 1 /\ j - 1 \in 1 .. Len(incoming')
    BY <1>1, <2>1
  <2>3. incoming'[j - 1] = incoming[j]
    BY <1>1, <2>2
  <2> QED
    BY <2>2, <2>3
<1>12. \A q \in Requests : Covered(q, 0) => Covered(q, 0)'
  BY <1>3 DEF Covered
<1>13. f = Frame("ack", r) => Covered(r, 0)
  <2>1. 1 \in 1 .. Len(incoming) /\ incoming[1] = f
    BY <1>1
  <2>2. f = Frame("ack", r) => Covered(r, 1 - 1)
    BY <1>2, <2>1 DEF PublisherInv, InOrder
  <2> QED
    BY <2>2 DEF Covered
<1>14. InOrder'
  <2> SUFFICES ASSUME NEW q \in Requests
               PROVE  /\ q \in toConfirm' => Covered(q, Len(incoming))'
                      /\ \A i \in 1 .. Len(incoming') :
                           incoming'[i] = Frame("ack", q) => Covered(q, i - 1)'
                      /\ confirm'[q] = "resolved" => Covered(q, 0)'
    BY DEF InOrder, Covered, Frame
  <2>1. ASSUME q \in toConfirm'
        PROVE  Covered(q, Len(incoming))'
    <3>1. Covered(q, Len(incoming)) /\ Len(incoming) \in 1 .. Len(incoming)
      BY <1>1, <1>3, <2>1 DEF PublisherInv, InOrder
    <3> QED
      BY <1>1, <1>11, <3>1 DEF Covered
  <2>2. ASSUME NEW i \in 1 .. Len(incoming'), incoming'[i] = Frame("ack", q)
        PROVE  Covered(q, i - 1)'
    <3>1. incoming[i + 1] = Frame("ack", q) /\ i + 1 \in 1 .. Len(incoming) /\ i \in 1 .. Len(incoming)
      BY <1>1, <2>2
    <3>2. Covered(q, i)
      BY <3>1 DEF PublisherInv, InOrder
    <3> QED
      BY <1>11, <3>1, <3>2
  <2>3. ASSUME confirm'[q] = "resolved"
        PROVE  Covered(q, 0)'
    BY <1>2, <1>3, <1>5, <1>12, <1>13, <2>3 DEF PublisherInv, InOrder, TypeOK
  <2> QED
    BY <2>1, <2>2, <2>3
<1> QED
  BY <1>7, <1>8, <1>9, <1>10, <1>14 DEF PublisherInv

\* A frame at the end covers no less, and is covered by all that travels ahead.
LEMMA AppendOK ==
  ASSUME PublisherInv, NEW f \in Frames, incoming' = Append(incoming, f),
         UNCHANGED clientVars, queued \subseteq queued',
         f.kind = "ack" => f.pub \in toConfirm,
         \A q \in toConfirm' : q \in toConfirm \/ f = Frame("return", q)
  PROVE  InOrder'
<1>1. /\ Len(incoming') = Len(incoming) + 1 /\ Len(incoming) \in Nat
      /\ \A i \in 1 .. Len(incoming) : incoming'[i] = incoming[i]
      /\ incoming'[Len(incoming) + 1] = f
  BY Appended DEF PublisherInv
<1>2. \A q \in Requests, n \in 0 .. Len(incoming) : Covered(q, n) => Covered(q, n)'
  BY <1>1 DEF Covered, clientVars
<1>3. \A q \in Requests : Covered(q, Len(incoming)) => Covered(q, Len(incoming))'
  BY <1>1 DEF Covered, clientVars
<1> SUFFICES ASSUME NEW q \in Requests
             PROVE  /\ q \in toConfirm' => Covered(q, Len(incoming))'
                    /\ \A i \in 1 .. Len(incoming') :
                         incoming'[i] = Frame("ack", q) => Covered(q, i - 1)'
                    /\ confirm'[q] = "resolved" => Covered(q, 0)'
  BY DEF InOrder, Covered, Frame
<1>4. ASSUME q \in toConfirm'
      PROVE  Covered(q, Len(incoming))'
  <2>1. CASE q \in toConfirm
    BY <1>3, <2>1 DEF PublisherInv, InOrder
  <2>2. CASE f = Frame("return", q)
    BY <1>1, <2>2 DEF Covered
  <2> QED
    BY <1>4, <2>1, <2>2
<1>5. ASSUME NEW i \in 1 .. Len(incoming'), incoming'[i] = Frame("ack", q)
      PROVE  Covered(q, i - 1)'
  <2>1. CASE i = Len(incoming) + 1
    <3>1. q \in toConfirm
      BY <1>1, <1>5, <2>1 DEF Frame
    <3>2. Covered(q, Len(incoming)) /\ i - 1 = Len(incoming) /\ i - 1 \in 0 .. Len(incoming)
      BY <1>1, <2>1, <3>1 DEF PublisherInv, InOrder
    <3> QED
      BY <1>2, <3>2
  <2>2. CASE i # Len(incoming) + 1
    <3>1. i \in 1 .. Len(incoming) /\ incoming[i] = Frame("ack", q) /\ i - 1 \in 0 .. Len(incoming)
      BY <1>1, <1>5, <2>2
    <3> QED
      BY <1>2, <3>1 DEF PublisherInv, InOrder
  <2> QED
    BY <2>1, <2>2
<1>6. confirm'[q] = "resolved" => Covered(q, 0)'
  BY <1>1, <1>2 DEF PublisherInv, InOrder, clientVars
<1> QED
  BY <1>4, <1>5, <1>6

LEMMA RouteOK ==
  ASSUME PublisherInv, NEW r \in Requests, Route(r)
  PROVE  PublisherInv'
<1> USE DEF PublisherInv, Route
<1>1. CASE bound
  <2>1. TypeOK' /\ Tokened' /\ Unsent' /\ ReturnsTrue' /\ AcceptedIsQueued'
    BY <1>1 DEF TypeOK, Tokened, Unsent, ReturnsTrue, AcceptedIsQueued, clientVars
  <2>2. InOrder'
    BY <1>1 DEF InOrder, Covered, clientVars, Frame
  <2> QED
    BY <2>1, <2>2
<1>2. CASE ~bound
  <2>1. Frame("return", r) \in Frames /\ incoming' = Append(incoming, Frame("return", r))
    BY <1>2 DEF Frame, Frames
  <2>2. /\ incoming' \in Seq(Frames)
        /\ Len(incoming') = Len(incoming) + 1 /\ Len(incoming) \in Nat
        /\ \A i \in 1 .. Len(incoming) : incoming'[i] = incoming[i]
        /\ incoming'[Len(incoming) + 1] = Frame("return", r)
    BY <2>1, Appended
  <2>3. TypeOK'
    BY <1>2, <2>2 DEF TypeOK, clientVars
  <2>4. Tokened' /\ AcceptedIsQueued'
    BY <1>2 DEF Tokened, AcceptedIsQueued, clientVars
  <2>5. Unsent'
    BY <1>2, <2>2 DEF Unsent, clientVars, Frame
  <2>6. ReturnsTrue'
    BY <1>2, <2>2 DEF ReturnsTrue, clientVars, Frame
  <2>7. InOrder'
    <3>1. Frame("return", r).kind # "ack"
      BY DEF Frame
    <3> QED
      BY <1>2, <2>1, <3>1, AppendOK
  <2> QED
    BY <2>3, <2>4, <2>5, <2>6, <2>7
<1> QED
  BY <1>1, <1>2

\* A confirm or a refusal of the broker's joins the frames.
LEMMA ReplyOK ==
  ASSUME PublisherInv, NEW f \in Frames, incoming' = Append(incoming, f),
         \/ f.kind = "ack" /\ f.pub \in toConfirm
         \/ f.kind = "nack" /\ f.pub \in outgoing,
         outgoing' \subseteq outgoing, toConfirm' \subseteq toConfirm,
         UNCHANGED <<clientVars, connected, bound, losses, ghostVars>>
  PROVE  PublisherInv'
<1>1. /\ incoming' \in Seq(Frames)
      /\ Len(incoming') = Len(incoming) + 1 /\ Len(incoming) \in Nat
      /\ \A i \in 1 .. Len(incoming) : incoming'[i] = incoming[i]
      /\ incoming'[Len(incoming) + 1] = f
  BY Appended DEF PublisherInv
<1>2. TypeOK'
  BY <1>1 DEF PublisherInv, TypeOK, clientVars, ghostVars
<1>3. Tokened' /\ AcceptedIsQueued'
  BY DEF PublisherInv, Tokened, AcceptedIsQueued, clientVars, ghostVars
<1>4. Unsent'
  BY <1>1 DEF PublisherInv, Unsent, clientVars
<1>5. ReturnsTrue'
  BY <1>1 DEF PublisherInv, ReturnsTrue, clientVars, ghostVars
<1>6. InOrder'
  BY AppendOK DEF ghostVars
<1> QED
  BY <1>2, <1>3, <1>4, <1>5, <1>6 DEF PublisherInv

LEMMA ConfirmOK ==
  ASSUME PublisherInv, NEW r \in Requests, Confirm(r) \/ RejectPublish(r)
  PROVE  PublisherInv'
<1>1. CASE Confirm(r)
  <2> DEFINE f == Frame("ack", r)
  <2>1. f \in Frames /\ f.kind = "ack" /\ f.pub = r
    BY DEF Frame, Frames
  <2> HIDE DEF f
  <2>2. incoming' = Append(incoming, f)
    BY <1>1 DEF Confirm, f
  <2> QED
    BY <1>1, <2>1, <2>2, ReplyOK DEF Confirm
<1>2. CASE RejectPublish(r)
  <2> DEFINE f == Frame("nack", r)
  <2>1. f \in Frames /\ f.kind = "nack" /\ f.pub = r
    BY DEF Frame, Frames
  <2> HIDE DEF f
  <2>2. incoming' = Append(incoming, f)
    BY <1>2 DEF RejectPublish, f
  <2> QED
    BY <1>2, <2>1, <2>2, ReplyOK DEF RejectPublish
<1> QED
  BY <1>1, <1>2

LEMMA LossOK ==
  ASSUME PublisherInv, ConnectionLost
  PROVE  PublisherInv'
<1>1. PICK kept \in SUBSET Unconfirmed :
        /\ outgoing' = kept
        /\ confirm' = [r \in Requests |->
                         IF r \in Unconfirmed \ kept THEN "rejected" ELSE confirm[r]]
  BY DEF ConnectionLost
<1>2. /\ connected' = FALSE /\ losses < MaxLosses /\ losses' = losses + 1
      /\ toConfirm' = {} /\ incoming' = <<>> /\ Len(incoming') = 0
      /\ UNCHANGED <<http, correlationOf, pendingReturns, returned, bound, queued, unroutable>>
  BY DEF ConnectionLost, ghostVars
<1>3. incoming' \in Seq(Frames)
  BY <1>2
<1>4. TypeOK'
  <2>1. confirm' \in [Requests -> {"waiting", "resolved", "rejected"}]
    BY <1>1 DEF PublisherInv, TypeOK
  <2>2. outgoing' \subseteq Requests
    BY <1>1 DEF Unconfirmed
  <2>3. losses' \in 0 .. MaxLosses
    BY <1>2, PublisherAssumption DEF PublisherInv, TypeOK
  <2> QED
    BY <1>2, <1>3, <2>1, <2>2, <2>3 DEF PublisherInv, TypeOK
<1>5. Tokened' /\ AcceptedIsQueued'
  BY <1>2 DEF PublisherInv, Tokened, AcceptedIsQueued
<1>6. Unsent'
  BY <1>1, <1>2 DEF PublisherInv, Unsent, Unconfirmed
<1>7. ReturnsTrue'
  BY <1>2 DEF PublisherInv, ReturnsTrue
<1>8. InOrder'
  BY <1>1, <1>2 DEF PublisherInv, InOrder, Covered
<1> QED
  BY <1>4, <1>5, <1>6, <1>7, <1>8 DEF PublisherInv

\* What changes neither requests nor frames.
LEMMA RestOK ==
  ASSUME PublisherInv,
         (\E r \in Requests : PublishThrows(r)) \/ Reconnect \/ Rebind \/ UNCHANGED vars
  PROVE  PublisherInv'
<1>1. CASE \E r \in Requests : PublishThrows(r)
  <2> PICK r \in Requests : PublishThrows(r)
    BY <1>1
  <2> USE DEF PublishThrows, PublisherInv, brokerVars, ghostVars
  <2>1. TypeOK' /\ Unsent' /\ ReturnsTrue' /\ AcceptedIsQueued'
    BY DEF TypeOK, Unsent, ReturnsTrue, AcceptedIsQueued
  <2>2. Tokened'
    BY DEF TypeOK, Tokened
  <2>3. InOrder'
    BY DEF TypeOK, InOrder, Covered, Frame
  <2> QED
    BY <2>1, <2>2, <2>3
<1>2. CASE Reconnect \/ Rebind \/ UNCHANGED vars
  <2>1. /\ UNCHANGED <<clientVars, outgoing, toConfirm, incoming, losses, ghostVars>>
        /\ connected' \in BOOLEAN /\ bound' \in BOOLEAN
    BY <1>2 DEF Reconnect, Rebind, vars, brokerVars, PublisherInv, TypeOK
  <2> USE <2>1 DEF PublisherInv, clientVars, ghostVars
  <2>2. TypeOK' /\ Tokened' /\ Unsent' /\ ReturnsTrue' /\ AcceptedIsQueued'
    BY DEF TypeOK, Tokened, Unsent, ReturnsTrue, AcceptedIsQueued
  <2>3. InOrder'
    BY DEF InOrder, Covered, Frame
  <2> QED
    BY <2>2, <2>3
<1> QED
  BY <1>1, <1>2

-----------------------------------------------------------------------------
LEMMA PublisherInvNext ==
  PublisherInv /\ [Next]_vars => PublisherInv'
<1> SUFFICES ASSUME PublisherInv, [Next]_vars
             PROVE  PublisherInv'
  OBVIOUS
<1>1. CASE \E r \in Requests : Publish(r) \/ Finish(r)
  BY <1>1, PublishOK, FinishOK
<1>2. CASE ReceiveReturn \/ ReceiveConfirm
  BY <1>2, ReceiveReturnOK, ReceiveConfirmOK
<1>3. CASE \E r \in Requests : Route(r) \/ Confirm(r) \/ RejectPublish(r)
  BY <1>3, RouteOK, ConfirmOK
<1>4. CASE ConnectionLost
  BY <1>4, LossOK
<1>5. CASE (\E r \in Requests : PublishThrows(r)) \/ Reconnect \/ Rebind \/ UNCHANGED vars
  BY <1>5, RestOK
<1> QED
  BY <1>1, <1>2, <1>3, <1>4, <1>5 DEF Next

LEMMA PublisherInvariance ==
  Spec => []PublisherInv
  BY PublisherInvInit, PublisherInvNext, PTL DEF Spec

(* The state keeps its types; a request is answered 202 or 503 and nothing  *)
(* else.                                                                    *)
THEOREM TypeCorrect ==
  Spec => []TypeOK
<1>1. PublisherInv => TypeOK
  BY DEF PublisherInv
<1> QED
  BY <1>1, PublisherInvariance, PTL

(* A 202 is only ever given to an event the queue has, for any number of    *)
(* concurrent requests, lost connections and unbound queues.                *)
THEOREM AcceptedMeansQueued ==
  Spec => []AcceptedIsQueued
<1>1. PublisherInv => AcceptedIsQueued
  BY DEF PublisherInv
<1> QED
  BY <1>1, PublisherInvariance, PTL

(* No return is put down to another publish, whatever correlation ids the   *)
(* callers choose.                                                          *)
THEOREM ReturnsFindTheirOwn ==
  Spec => []ReturnIsOwn
<1>1. PublisherInv => ReturnIsOwn
  BY DEF PublisherInv, ReturnsTrue, ReturnIsOwn
<1> QED
  BY <1>1, PublisherInvariance, PTL

(* The map holds an entry for no request but those still waiting.           *)
THEOREM MapDoesNotGrow ==
  Spec => []NothingPending
<1>1. PublisherInv => NothingPending
  BY DEF PublisherInv, Tokened, NothingPending
<1> QED
  BY <1>1, PublisherInvariance, PTL
=============================================================================
