-------------------------- MODULE AdmissionProofs ---------------------------
(***************************************************************************)
(* Admission for any addresses, requests, limit, window and tolerance:     *)
(* its types, the replay window, the bound on the HMACs, and that the      *)
(* limit is each address's own.                                            *)
(***************************************************************************)
EXTENDS Admission, FiniteSetTheorems, TLAPS

-----------------------------------------------------------------------------
(* Types.                                                                   *)

LEMMA RequestFields ==
  ASSUME NEW r \in Requests
  PROVE  /\ r.ip \in Ips /\ r.stamp \in Int \cup {NotFinite} /\ Tracker(r) = r.ip
         /\ r.body \in {"oversized", "unparseable", "invalid", "valid"}
  BY AdmissionAssumption DEF Request, Tracker

LEMMA CountedTyped ==
  ASSUME TypeOK, sent < MaxSent, NEW hits \in SUBSET Hits, NEW span
  PROVE  Counted(hits, span) \in SUBSET Hits
  BY AdmissionAssumption DEF TypeOK, Hits, Hit, Counted, Within

\* What every request that the parser lets through does to its counters.
LEMMA ArrivalTyped ==
  ASSUME TypeOK, NEW r \in Requests, Received(r), CountArrival(r)
  PROVE  /\ now' \in 0 .. MaxNow /\ sent' \in 0 .. MaxSent
         /\ arrived' \in [Ips -> SUBSET Hits]
<1>1. now' = now /\ sent < MaxSent /\ sent' = sent + 1
  BY DEF Received
<1>2. arrived' = [arrived EXCEPT ![r.ip] = Counted(arrived[r.ip], 2 * Ttl)]
  BY DEF CountArrival
<1>3. arrived \in [Ips -> SUBSET Hits] /\ r.ip \in Ips
  BY RequestFields DEF TypeOK
<1>4. Counted(arrived[r.ip], 2 * Ttl) \in SUBSET Hits
  BY <1>1, <1>3, CountedTyped
<1> QED
  BY <1>1, <1>2, <1>3, <1>4, AdmissionAssumption DEF TypeOK

LEMMA ThrottledTyped ==
  ASSUME TypeOK, NEW r \in Requests, Throttled(r)
  PROVE  /\ now' \in 0 .. MaxNow /\ sent' \in 0 .. MaxSent
         /\ arrived' \in [Ips -> SUBSET Hits] /\ passed' \in [Ips -> SUBSET Hits]
         /\ blocked' \in [Ips -> 0 .. MaxNow + Ttl]
<1>1. /\ Received(r) /\ CountArrival(r) /\ blocked' = blocked
      /\ passed' = [passed EXCEPT ![r.ip] = Counted(passed[r.ip], Ttl)]
  BY RequestFields DEF Throttled, Parsed
<1>2. passed \in [Ips -> SUBSET Hits] /\ r.ip \in Ips /\ sent < MaxSent
  BY <1>1, RequestFields DEF TypeOK, Received
<1>3. Counted(passed[r.ip], Ttl) \in SUBSET Hits
  BY <1>2, CountedTyped
<1> QED
  BY <1>1, <1>2, <1>3, ArrivalTyped DEF TypeOK

LEMMA VerifiedTyped ==
  ASSUME TypeOK, NEW r \in Requests, Verified(r)
  PROVE  hmacs' \in [Ips -> SUBSET Hits]
<1>1. /\ sent < MaxSent /\ hmacs' = [hmacs EXCEPT ![r.ip] = Counted(hmacs[r.ip], Ttl)]
  BY DEF Verified, Throttled, Parsed, Received
<1>2. hmacs \in [Ips -> SUBSET Hits] /\ r.ip \in Ips
  BY RequestFields DEF TypeOK
<1>3. Counted(hmacs[r.ip], Ttl) \in SUBSET Hits
  BY <1>1, <1>2, CountedTyped
<1> QED
  BY <1>1, <1>2, <1>3

LEMMA AnsweredTyped ==
  ASSUME NEW r \in Requests, NEW status \in {202, 400, 401, 413, 429, 503},
         Answered(r, status)
  PROVE  answer' \in Answers \cup {NoAnswer}
  BY RequestFields DEF Answered, Answers

LEMMA TypeNext == TypeOK /\ [Next]_vars => TypeOK'
<1> SUFFICES ASSUME TypeOK, [Next]_vars PROVE TypeOK'
  OBVIOUS
<1>1. CASE Tick
  BY <1>1, AdmissionAssumption DEF Tick, TypeOK, Hits
<1>2. ASSUME NEW r \in Requests, ParserRefuses(r) PROVE TypeOK'
  <2>1. answer' \in Answers \cup {NoAnswer}
    BY <1>2, AnsweredTyped DEF ParserRefuses
  <2> QED
    BY <1>2, <2>1, AdmissionAssumption DEF ParserRefuses, Received, TypeOK, Hits
<1>3. ASSUME NEW r \in Requests, ThrottlerRefuses(r) PROVE TypeOK'
  <2>1. /\ Received(r) /\ CountArrival(r) /\ Answered(r, 429)
        /\ UNCHANGED <<passed, hmacs, accepted>>
        /\ blocked' = blocked \/ blocked' = [blocked EXCEPT ![r.ip] = now + Ttl]
    BY <1>3, RequestFields DEF ThrottlerRefuses, Parsed
  <2>2. answer' \in Answers \cup {NoAnswer}
    BY <2>1, AnsweredTyped
  <2>3. blocked' \in [Ips -> 0 .. MaxNow + Ttl]
    BY <2>1, AdmissionAssumption DEF TypeOK
  <2> QED
    BY <2>1, <2>2, <2>3, ArrivalTyped DEF TypeOK, Hits
<1>4. ASSUME NEW r \in Requests, Unverified(r) PROVE TypeOK'
  <2>1. answer' \in Answers \cup {NoAnswer}
    BY <1>4, AnsweredTyped DEF Unverified
  <2> QED
    BY <1>4, <2>1, ThrottledTyped DEF Unverified, TypeOK, Hits
<1>5. ASSUME NEW r \in Requests, Refused(r) PROVE TypeOK'
  <2>1. answer' \in Answers \cup {NoAnswer}
    BY <1>5, AnsweredTyped DEF Refused
  <2>2. Verified(r) /\ Throttled(r) /\ accepted' = accepted
    BY <1>5 DEF Refused, Verified
  <2> QED
    BY <2>1, <2>2, ThrottledTyped, VerifiedTyped DEF TypeOK, Hits
<1>6. ASSUME NEW r \in Requests, Admitted(r) PROVE TypeOK'
  <2>1. answer' \in Answers \cup {NoAnswer}
    BY <1>6, AnsweredTyped DEF Admitted
  <2>2. Verified(r) /\ Throttled(r) /\ accepted' = accepted \cup {[stamp |-> r.stamp, at |-> now]}
    BY <1>6 DEF Admitted, Verified
  <2>3. r.stamp \in Int
    BY <2>2, RequestFields DEF Verified, withinTolerance
  <2>4. \A a \in accepted' : a.stamp \in Int /\ a.at \in 0 .. MaxNow
    BY <2>2, <2>3 DEF TypeOK
  <2> QED
    BY <2>1, <2>2, <2>4, ThrottledTyped, VerifiedTyped DEF TypeOK, Hits
<1>7. CASE UNCHANGED vars
  BY <1>7 DEF vars, TypeOK, Hits
<1> QED
  BY <1>1, <1>2, <1>3, <1>4, <1>5, <1>6, <1>7 DEF Next

\* The clock, the counters, the blocks and the answers keep their types.
THEOREM TypeCorrect == Spec => []TypeOK
<1>1. Init => TypeOK
  BY AdmissionAssumption DEF Init, TypeOK
<1> QED
  BY <1>1, TypeNext, PTL DEF Spec

-----------------------------------------------------------------------------
(* The replay window.  What was accepted was within the tolerance of the    *)
(* server's second then: the strengthening that makes AcceptedSpan          *)
(* inductive.                                                               *)

SecondAt(t) == 2 * (t \div 2)

AcceptedFresh ==
  \A a \in accepted :
    a.stamp \in Int /\ a.at \in Nat /\ Distance(SecondAt(a.at), a.stamp) <= 2 * Tolerance

WindowInv == now \in Nat /\ AcceptedFresh

\* A second as half seconds is within one of the time itself, below it.
LEMMA Seconds == \A t \in Nat : SecondAt(t) \in Nat /\ SecondAt(t) <= t /\ t <= SecondAt(t) + 1
  BY DEF SecondAt

\* Requests leave the clock alone, and only Admitted accepts.
LEMMA OthersAcceptNothing ==
  ASSUME NEW r \in Requests,
         ParserRefuses(r) \/ ThrottlerRefuses(r) \/ Unverified(r) \/ Refused(r)
  PROVE  now' = now /\ accepted' = accepted
  BY DEF ParserRefuses, ThrottlerRefuses, Unverified, Refused, Verified, Throttled, Parsed,
     Received

LEMMA AdmittedIsFresh ==
  ASSUME WindowInv, NEW r \in Requests, Admitted(r)
  PROVE  WindowInv'
<1> USE AdmissionAssumption
<1>1. now' = now /\ withinTolerance(r.stamp)
  BY DEF Admitted, Verified, Throttled, Parsed, Received
<1>2. accepted' = accepted \cup {[stamp |-> r.stamp, at |-> now]}
  BY DEF Admitted
<1>3. r.stamp \in Int
  BY <1>1 DEF withinTolerance, Request
<1>4. Distance(SecondAt(now), r.stamp) <= 2 * Tolerance
  BY <1>1 DEF withinTolerance, nowSeconds, SecondAt
<1> QED
  BY <1>1, <1>2, <1>3, <1>4 DEF WindowInv, AcceptedFresh

LEMMA WindowNext == WindowInv /\ [Next]_vars => WindowInv'
<1> SUFFICES ASSUME WindowInv, [Next]_vars PROVE WindowInv'
  OBVIOUS
<1>1. CASE Tick
  BY <1>1 DEF Tick, WindowInv, AcceptedFresh
<1>2. ASSUME NEW r \in Requests,
             ParserRefuses(r) \/ ThrottlerRefuses(r) \/ Unverified(r) \/ Refused(r)
      PROVE  WindowInv'
  BY <1>2, OthersAcceptNothing DEF WindowInv, AcceptedFresh
<1>3. ASSUME NEW r \in Requests, Admitted(r) PROVE WindowInv'
  BY <1>3, AdmittedIsFresh
<1>4. CASE UNCHANGED vars
  BY <1>4 DEF vars, WindowInv, AcceptedFresh
<1> QED
  BY <1>1, <1>2, <1>3, <1>4 DEF Next

LEMMA WindowBoundsSpan == WindowInv => AcceptedSpan
<1> SUFFICES ASSUME WindowInv,
                    NEW a \in accepted, NEW b \in accepted, a.stamp = b.stamp
             PROVE  Distance(a.at, b.at) < 2 * (2 * Tolerance + 1)
  BY DEF AcceptedSpan
<1> USE AdmissionAssumption
<1>1. /\ a.stamp \in Int /\ a.at \in Nat /\ b.at \in Nat /\ b.stamp \in Int
      /\ Distance(SecondAt(a.at), a.stamp) <= 2 * Tolerance
      /\ Distance(SecondAt(b.at), a.stamp) <= 2 * Tolerance
  BY DEF WindowInv, AcceptedFresh
<1>2. /\ SecondAt(a.at) \in Nat /\ SecondAt(a.at) <= a.at /\ a.at <= SecondAt(a.at) + 1
      /\ SecondAt(b.at) \in Nat /\ SecondAt(b.at) <= b.at /\ b.at <= SecondAt(b.at) + 1
  BY <1>1, Seconds
<1> QED
  BY <1>1, <1>2 DEF Distance

\* The times at which one signed request is accepted lie within twice the
\* tolerance and one second of each other.
THEOREM ReplayWindow == Spec => []AcceptedSpan
<1>1. Init => WindowInv
  BY DEF Init, WindowInv, AcceptedFresh
<1> QED
  BY <1>1, WindowNext, WindowBoundsSpan, PTL DEF Spec

-----------------------------------------------------------------------------
(* The counters.  Sizes are compared by inclusion: a window that has moved  *)
(* on is a subset of what it was, and a request adds one hit.               *)

CountersFinite == \A ip \in Ips : IsFiniteSet(passed[ip]) /\ IsFiniteSet(arrived[ip])

\* At most the limit let through in a window, and no others hashed.
HmacInv ==
  \A ip \in Ips :
    /\ Within(hmacs[ip], Ttl) \subseteq passed[ip]
    /\ Cardinality(Within(passed[ip], Ttl)) <= Limit

LEMMA WithinFinite ==
  ASSUME NEW hits, IsFiniteSet(hits), NEW span
  PROVE  IsFiniteSet(Within(hits, span)) /\ Cardinality(Within(hits, span)) \in Nat
<1>1. Within(hits, span) \in SUBSET hits
  BY DEF Within
<1> QED
  BY <1>1, FS_Subset, FS_CardinalityType

LEMMA CountedFinite ==
  ASSUME NEW hits, IsFiniteSet(hits), NEW span
  PROVE  /\ IsFiniteSet(Counted(hits, span))
         /\ Cardinality(Counted(hits, span)) \in Nat
         /\ Cardinality(Counted(hits, span)) <= Cardinality(Within(hits, span)) + 1
         /\ Hit \notin hits => Cardinality(Counted(hits, span)) = Cardinality(Within(hits, span)) + 1
<1>1. IsFiniteSet(Within(hits, span)) /\ Cardinality(Within(hits, span)) \in Nat
  BY WithinFinite
<1>2. Hit \notin hits => Hit \notin Within(hits, span)
  BY DEF Within
<1>3. /\ IsFiniteSet(Counted(hits, span))
      /\ Cardinality(Counted(hits, span))
           = IF Hit \in Within(hits, span) THEN Cardinality(Within(hits, span))
                                           ELSE Cardinality(Within(hits, span)) + 1
  BY <1>1, FS_AddElement DEF Counted
<1> QED
  BY <1>1, <1>2, <1>3

LEMMA SmallerCount ==
  ASSUME NEW S, IsFiniteSet(S), NEW T, T \subseteq S
  PROVE  /\ Cardinality(T) \in Nat /\ Cardinality(S) \in Nat
         /\ Cardinality(T) <= Cardinality(S)
  BY FS_Subset, FS_CardinalityType

\* Counting keeps what the window holds, and adds the hit.
LEMMA CountedWithin ==
  ASSUME TypeOK, NEW hits \in SUBSET Hits
  PROVE  /\ Within(Counted(hits, Ttl), Ttl) = Counted(hits, Ttl)
         /\ Within(Counted(hits, 2 * Ttl), 2 * Ttl) = Counted(hits, 2 * Ttl)
  BY AdmissionAssumption DEF TypeOK, Within, Counted, Hit, Hits

\* Who does not come to the throttler keeps its counters.
LEMMA ThrottledCounts ==
  ASSUME TypeOK, NEW r \in Requests, Throttled(r)
  PROVE  /\ now' = now /\ sent' = sent + 1 /\ blocked' = blocked
         /\ ~(now < blocked[r.ip]) /\ Cardinality(Within(passed[r.ip], Ttl)) < Limit
         /\ passed'[r.ip] = Counted(passed[r.ip], Ttl)
         /\ arrived'[r.ip] = Counted(arrived[r.ip], 2 * Ttl)
         /\ \A ip \in Ips : ip # r.ip => passed'[ip] = passed[ip] /\ arrived'[ip] = arrived[ip]
  BY RequestFields DEF Throttled, Parsed, Received, Blocked, CountArrival, TypeOK

LEMMA RefusedCounts ==
  ASSUME TypeOK, NEW r \in Requests, ThrottlerRefuses(r)
  PROVE  /\ now' = now /\ sent' = sent + 1 /\ UNCHANGED <<passed, hmacs>>
         /\ arrived'[r.ip] = Counted(arrived[r.ip], 2 * Ttl)
         /\ \/ now < blocked[r.ip] /\ blocked' = blocked
            \/ /\ Cardinality(Within(passed[r.ip], Ttl)) >= Limit
               /\ blocked'[r.ip] = now + Ttl
         /\ \A ip \in Ips : ip # r.ip => arrived'[ip] = arrived[ip] /\ blocked'[ip] = blocked[ip]
         /\ answer' = [ip |-> r.ip, status |-> 429]
  BY RequestFields DEF ThrottlerRefuses, Parsed, Received, Blocked, CountArrival, Answered, TypeOK

LEMMA FiniteNext == TypeOK /\ CountersFinite /\ [Next]_vars => CountersFinite'
<1> SUFFICES ASSUME TypeOK, CountersFinite, [Next]_vars, NEW ip \in Ips
             PROVE  IsFiniteSet(passed'[ip]) /\ IsFiniteSet(arrived'[ip])
  BY DEF CountersFinite
<1>1. IsFiniteSet(passed[ip]) /\ IsFiniteSet(arrived[ip])
  BY DEF CountersFinite
<1>2. IsFiniteSet(Counted(passed[ip], Ttl)) /\ IsFiniteSet(Counted(arrived[ip], 2 * Ttl))
  BY <1>1, CountedFinite
<1>3. ASSUME NEW r \in Requests, Throttled(r)
      PROVE  IsFiniteSet(passed'[ip]) /\ IsFiniteSet(arrived'[ip])
  BY <1>1, <1>2, <1>3, ThrottledCounts
<1>4. ASSUME NEW r \in Requests, ThrottlerRefuses(r)
      PROVE  IsFiniteSet(passed'[ip]) /\ IsFiniteSet(arrived'[ip])
  BY <1>1, <1>2, <1>4, RefusedCounts
<1>5. ASSUME NEW r \in Requests, ParserRefuses(r)
      PROVE  IsFiniteSet(passed'[ip]) /\ IsFiniteSet(arrived'[ip])
  BY <1>1, <1>5 DEF ParserRefuses
<1> QED
  BY <1>1, <1>3, <1>4, <1>5
     DEF Next, Tick, vars, Unverified, Refused, Admitted, Verified

\* A request let through is one more than less than the limit; hashed or not.
LEMMA ThrottledHmacs ==
  ASSUME TypeOK, CountersFinite, HmacInv, NEW r \in Requests, Throttled(r),
         Verified(r) \/ hmacs' = hmacs
  PROVE  HmacInv'
<1> SUFFICES ASSUME NEW ip \in Ips
             PROVE  /\ Within(hmacs[ip], Ttl)' \subseteq passed'[ip]
                    /\ Cardinality(Within(passed[ip], Ttl)') <= Limit
  BY DEF HmacInv
<1>1. now' = now
  BY ThrottledCounts
<1>2. CASE ip # r.ip
  <2>1. passed'[ip] = passed[ip] /\ hmacs'[ip] = hmacs[ip]
    BY <1>2, ThrottledCounts, RequestFields DEF Verified, TypeOK
  <2>2. Within(hmacs[ip], Ttl)' = Within(hmacs[ip], Ttl) /\ Within(passed[ip], Ttl)' = Within(passed[ip], Ttl)
    BY <1>1, <2>1 DEF Within
  <2> QED
    BY <2>1, <2>2 DEF HmacInv
<1>3. CASE ip = r.ip
  <2>1. passed'[ip] = Counted(passed[ip], Ttl) /\ Cardinality(Within(passed[ip], Ttl)) < Limit
    BY <1>3, ThrottledCounts
  <2>2. hmacs'[ip] \in {hmacs[ip], Counted(hmacs[ip], Ttl)}
    BY <1>3, RequestFields DEF Verified, TypeOK
  <2>3. Within(hmacs[ip], Ttl)' \subseteq Within(hmacs[ip], Ttl) \cup {Hit}
    BY <1>1, <2>2 DEF Within, Counted
  <2>4. Within(hmacs[ip], Ttl) \subseteq Within(passed[ip], Ttl)
    BY DEF HmacInv, Within
  <2>5. Within(passed[ip], Ttl)' = Counted(passed[ip], Ttl)
    <3>1. passed[ip] \in SUBSET Hits
      BY DEF TypeOK
    <3>2. Within(passed[ip], Ttl)' = Within(Counted(passed[ip], Ttl), Ttl)
      BY <1>1, <2>1 DEF Within
    <3> QED
      BY <3>1, <3>2, CountedWithin
  <2>6. /\ Cardinality(Counted(passed[ip], Ttl)) \in Nat
        /\ Cardinality(Within(passed[ip], Ttl)) \in Nat
        /\ Cardinality(Counted(passed[ip], Ttl)) <= Cardinality(Within(passed[ip], Ttl)) + 1
    BY CountedFinite, WithinFinite DEF CountersFinite
  <2>7. Within(hmacs[ip], Ttl)' \subseteq passed'[ip]
    BY <2>1, <2>3, <2>4 DEF Counted
  <2>8. Cardinality(Within(passed[ip], Ttl)') <= Limit
    BY <2>1, <2>5, <2>6, AdmissionAssumption
  <2> QED
    BY <2>7, <2>8
<1> QED
  BY <1>2, <1>3

\* A window that time or nothing moves.
LEMMA OthersHmacs ==
  ASSUME TypeOK, CountersFinite, HmacInv, UNCHANGED <<passed, hmacs>>,
         now' \in Nat, now <= now'
  PROVE  HmacInv'
<1> SUFFICES ASSUME NEW ip \in Ips
             PROVE  /\ Within(hmacs[ip], Ttl)' \subseteq passed'[ip]
                    /\ Cardinality(Within(passed[ip], Ttl)') <= Limit
  BY DEF HmacInv
<1>1. /\ passed[ip] \in SUBSET Hits /\ hmacs[ip] \in SUBSET Hits /\ now \in Nat
      /\ \A h \in Hits : h.at \in Nat
  BY AdmissionAssumption DEF TypeOK, Hits
<1>2. /\ Within(hmacs[ip], Ttl)' \subseteq Within(hmacs[ip], Ttl)
      /\ Within(passed[ip], Ttl)' \subseteq Within(passed[ip], Ttl)
  BY <1>1, AdmissionAssumption DEF Within
<1>3. IsFiniteSet(Within(passed[ip], Ttl))
  BY WithinFinite DEF CountersFinite
<1>4. /\ Cardinality(Within(passed[ip], Ttl)') \in Nat /\ Cardinality(Within(passed[ip], Ttl)) \in Nat
      /\ Cardinality(Within(passed[ip], Ttl)') <= Cardinality(Within(passed[ip], Ttl))
  BY <1>2, <1>3, SmallerCount
<1> QED
  BY <1>2, <1>4, AdmissionAssumption DEF HmacInv

LEMMA HmacNext == TypeOK /\ CountersFinite /\ HmacInv /\ [Next]_vars => HmacInv'
<1> SUFFICES ASSUME TypeOK, CountersFinite, HmacInv, [Next]_vars PROVE HmacInv'
  OBVIOUS
<1>1. now \in Nat
  BY AdmissionAssumption DEF TypeOK
<1>2. CASE Tick
  BY <1>1, <1>2, OthersHmacs DEF Tick
<1>3. ASSUME NEW r \in Requests, ParserRefuses(r) \/ ThrottlerRefuses(r) PROVE HmacInv'
  BY <1>1, <1>3, OthersHmacs DEF ParserRefuses, ThrottlerRefuses, Parsed, Received
<1>4. ASSUME NEW r \in Requests, Unverified(r) PROVE HmacInv'
  BY <1>4, ThrottledHmacs DEF Unverified
<1>5. ASSUME NEW r \in Requests, Refused(r) \/ Admitted(r) PROVE HmacInv'
  BY <1>5, ThrottledHmacs DEF Refused, Admitted, Verified
<1>6. CASE UNCHANGED vars
  BY <1>1, <1>6, OthersHmacs DEF vars
<1> QED
  BY <1>2, <1>3, <1>4, <1>5, <1>6 DEF Next

LEMMA CountersInit == Init => CountersFinite /\ HmacInv
  BY FS_EmptySet, AdmissionAssumption DEF Init, CountersFinite, HmacInv, Within

\* However requests come, one address never has more of them hashed in a
\* window than the limit.
THEOREM HashesLimited == Spec => []HmacsBounded
<1>1. CountersFinite /\ HmacInv => HmacsBounded
  <2> SUFFICES ASSUME CountersFinite, HmacInv, NEW ip \in Ips
               PROVE  Cardinality(Within(hmacs[ip], Ttl)) <= Limit
    BY DEF HmacsBounded
  <2>1. Within(hmacs[ip], Ttl) \subseteq Within(passed[ip], Ttl)
    BY DEF HmacInv, Within
  <2>2. IsFiniteSet(Within(passed[ip], Ttl))
    BY WithinFinite DEF CountersFinite
  <2>3. /\ Cardinality(Within(hmacs[ip], Ttl)) \in Nat /\ Cardinality(Within(passed[ip], Ttl)) \in Nat
        /\ Cardinality(Within(hmacs[ip], Ttl)) <= Cardinality(Within(passed[ip], Ttl))
    BY <2>1, <2>2, SmallerCount
  <2> QED
    BY <2>3, AdmissionAssumption DEF HmacInv
<1> QED
  BY <1>1, CountersInit, TypeCorrect, FiniteNext, HmacNext, PTL DEF Spec

-----------------------------------------------------------------------------
(* Whose rate.  A block is set by more than the limit of the address's own  *)
(* hits, all young enough to be remembered until the block ends.            *)

\* The hits that a window of two ttls still holds at the end of the block.
Blocking(ip) == {h \in arrived[ip] : blocked[ip] < h.at + 2 * Ttl}

RateOf(ip) ==
  /\ \A h \in arrived[ip] : h.nr < sent
  /\ Within(passed[ip], Ttl) \subseteq arrived[ip]
  /\ now < blocked[ip] => Cardinality(Blocking(ip)) > Limit

RateInv == RefusedForOwnRate /\ \A ip \in Ips : RateOf(ip)

LEMMA Numbers ==
  ASSUME TypeOK, NEW ip \in Ips
  PROVE  /\ now \in Nat /\ sent \in Nat /\ blocked[ip] \in Nat
         /\ passed[ip] \in SUBSET Hits /\ arrived[ip] \in SUBSET Hits
         /\ Hit.at = now /\ Hit.nr = sent
         /\ \A h \in Hits : h.at \in Nat /\ h.nr \in Nat
         /\ Limit \in Nat /\ Ttl \in Nat \ {0}
  BY AdmissionAssumption DEF TypeOK, Hits, Hit

\* Nothing came to this address, and time may have passed.
LEMMA RateWaits ==
  ASSUME TypeOK, NEW ip \in Ips, RateOf(ip),
         passed'[ip] = passed[ip], arrived'[ip] = arrived[ip], blocked'[ip] = blocked[ip],
         now' \in Nat, now <= now', sent' \in Nat, sent <= sent'
  PROVE  RateOf(ip)'
<1>1. \A h \in arrived'[ip] : h.nr < sent'
  BY Numbers DEF RateOf
<1>2. Within(passed[ip], Ttl)' \subseteq Within(passed[ip], Ttl)
  BY Numbers DEF Within
<1>3. Blocking(ip)' = Blocking(ip)
  BY DEF Blocking
<1>4. now' < blocked'[ip] => now < blocked[ip]
  BY Numbers
<1> QED
  BY <1>1, <1>2, <1>3, <1>4 DEF RateOf

\* One more came: it is new, and what blocks now is not forgotten.
LEMMA RateCounts ==
  ASSUME TypeOK, NEW ip \in Ips, RateOf(ip), IsFiniteSet(arrived[ip]),
         now' = now, sent' = sent + 1,
         arrived'[ip] = Counted(arrived[ip], 2 * Ttl)
  PROVE  /\ \A h \in arrived'[ip] : h.nr < sent'
         /\ Within(arrived[ip], 2 * Ttl)' = arrived'[ip]
         /\ Hit \notin arrived[ip]
         /\ IsFiniteSet(arrived'[ip])
         /\ now < blocked[ip] => Cardinality(arrived'[ip]) > Limit
         /\ now < blocked[ip] /\ blocked'[ip] = blocked[ip] => Cardinality(Blocking(ip)') > Limit
<1>1. \A h \in arrived'[ip] : h.nr < sent'
  BY Numbers DEF RateOf, Counted, Within
<1>2. Within(arrived[ip], 2 * Ttl)' = arrived'[ip]
  <2>1. Within(arrived[ip], 2 * Ttl)' = Within(Counted(arrived[ip], 2 * Ttl), 2 * Ttl)
    BY DEF Within
  <2> QED
    BY <2>1, Numbers, CountedWithin
<1>3. Hit \notin arrived[ip]
  BY Numbers DEF RateOf
<1>4. IsFiniteSet(arrived'[ip])
  BY CountedFinite
<1>5. ASSUME now < blocked[ip]
      PROVE  /\ Cardinality(Blocking(ip)) > Limit
             /\ Blocking(ip) \subseteq Within(arrived[ip], 2 * Ttl)
  BY <1>5, Numbers DEF RateOf, Blocking, Within
<1>6. ASSUME now < blocked[ip] PROVE Cardinality(arrived'[ip]) > Limit
  <2>1. Blocking(ip) \subseteq arrived'[ip]
    BY <1>5, <1>6 DEF Counted
  <2> QED
    BY <1>4, <1>5, <1>6, <2>1, SmallerCount, AdmissionAssumption
<1>7. ASSUME now < blocked[ip], blocked'[ip] = blocked[ip]
      PROVE  Cardinality(Blocking(ip)') > Limit
  <2>1. Blocking(ip) \subseteq Blocking(ip)'
    BY <1>5, <1>7 DEF Blocking, Counted
  <2>2. IsFiniteSet(Blocking(ip)')
    <3>1. Blocking(ip)' \in SUBSET arrived'[ip]
      BY DEF Blocking
    <3> QED
      BY <1>4, <3>1, FS_Subset
  <2> QED
    BY <1>5, <1>7, <2>1, <2>2, SmallerCount, AdmissionAssumption
<1> QED
  BY <1>1, <1>2, <1>3, <1>4, <1>6, <1>7

LEMMA ThrottledRate ==
  ASSUME TypeOK, CountersFinite, NEW r \in Requests, Throttled(r), NEW ip \in Ips, RateOf(ip)
  PROVE  RateOf(ip)'
<1>1. /\ now' = now /\ sent' = sent + 1 /\ blocked' = blocked /\ ~(now < blocked[r.ip])
      /\ passed'[r.ip] = Counted(passed[r.ip], Ttl)
      /\ arrived'[r.ip] = Counted(arrived[r.ip], 2 * Ttl)
  BY ThrottledCounts
<1>2. CASE ip # r.ip
  <2>1. passed'[ip] = passed[ip] /\ arrived'[ip] = arrived[ip]
    BY <1>2, ThrottledCounts
  <2> QED
    BY <1>1, <2>1, RateWaits, Numbers
<1>3. CASE ip = r.ip
  <2>1. \A h \in arrived'[ip] : h.nr < sent'
    BY <1>1, <1>3, RateCounts DEF CountersFinite
  <2>2. Within(passed[ip], Ttl)' \subseteq Within(passed[ip], Ttl) \cup {Hit}
    BY <1>1, <1>3 DEF Within, Counted
  <2>3. Within(passed[ip], Ttl) \subseteq Within(arrived[ip], 2 * Ttl)
    <3> SUFFICES ASSUME NEW h \in passed[ip], now < h.at + Ttl
                 PROVE  h \in arrived[ip] /\ now < h.at + 2 * Ttl
      BY DEF Within
    <3>1. h \in arrived[ip]
      BY DEF RateOf, Within
    <3> QED
      BY <3>1, Numbers
  <2>4. Within(passed[ip], Ttl)' \subseteq arrived'[ip]
    BY <1>1, <1>3, <2>2, <2>3 DEF Counted
  <2> QED
    BY <1>1, <1>3, <2>1, <2>4 DEF RateOf
<1> QED
  BY <1>2, <1>3

LEMMA RefusedRate ==
  ASSUME TypeOK, CountersFinite, NEW r \in Requests, ThrottlerRefuses(r),
         NEW ip \in Ips, RateOf(ip)
  PROVE  RateOf(ip)' /\ (ip = r.ip => Cardinality(Within(arrived[ip], 2 * Ttl)') > Limit)
<1>1. /\ now' = now /\ sent' = sent + 1 /\ passed' = passed
      /\ arrived'[r.ip] = Counted(arrived[r.ip], 2 * Ttl)
      /\ \/ now < blocked[r.ip] /\ blocked' = blocked
         \/ /\ Cardinality(Within(passed[r.ip], Ttl)) >= Limit
            /\ blocked'[r.ip] = now + Ttl
  BY RefusedCounts
<1>2. CASE ip # r.ip
  <2>1. arrived'[ip] = arrived[ip] /\ blocked'[ip] = blocked[ip]
    BY <1>2, RefusedCounts
  <2> QED
    BY <1>1, <1>2, <2>1, RateWaits, Numbers
<1>3. CASE ip = r.ip
  <2>1. /\ \A h \in arrived'[ip] : h.nr < sent'
        /\ Within(arrived[ip], 2 * Ttl)' = arrived'[ip]
        /\ Hit \notin arrived[ip] /\ IsFiniteSet(arrived'[ip])
        /\ now < blocked[ip] => Cardinality(arrived'[ip]) > Limit
        /\ now < blocked[ip] /\ blocked'[ip] = blocked[ip] => Cardinality(Blocking(ip)') > Limit
    BY <1>1, <1>3, RateCounts DEF CountersFinite
  <2>2. Within(passed[ip], Ttl) \subseteq Within(arrived[ip], 2 * Ttl)
    <3> SUFFICES ASSUME NEW h \in passed[ip], now < h.at + Ttl
                 PROVE  h \in arrived[ip] /\ now < h.at + 2 * Ttl
      BY DEF Within
    <3>1. h \in arrived[ip]
      BY DEF RateOf, Within
    <3> QED
      BY <3>1, Numbers
  <2>3. Within(passed[ip], Ttl)' \subseteq arrived'[ip]
    <3>1. Within(passed[ip], Ttl)' = Within(passed[ip], Ttl)
      BY <1>1 DEF Within
    <3> QED
      BY <1>1, <1>3, <2>2, <3>1 DEF Counted
  <2>4. CASE now < blocked[ip] /\ blocked' = blocked
    BY <1>1, <2>1, <2>3, <2>4 DEF RateOf
  <2>5. CASE /\ Cardinality(Within(passed[ip], Ttl)) >= Limit
             /\ blocked'[ip] = now + Ttl
    <3>1. Within(passed[ip], Ttl) \cup {Hit} \subseteq Blocking(ip)'
      <4>1. Within(passed[ip], Ttl) \cup {Hit} \subseteq arrived'[ip]
        BY <1>1, <1>3, <2>2 DEF Counted
      <4>2. \A h \in Within(passed[ip], Ttl) \cup {Hit} : now + Ttl < h.at + 2 * Ttl
        BY Numbers DEF Within
      <4> QED
        BY <2>5, <4>1, <4>2 DEF Blocking
    <3>2. Hit \notin Within(passed[ip], Ttl) /\ IsFiniteSet(Within(passed[ip], Ttl))
      BY <2>1, <2>2, WithinFinite DEF CountersFinite, Within
    <3>3. /\ IsFiniteSet(Within(passed[ip], Ttl) \cup {Hit})
          /\ Cardinality(Within(passed[ip], Ttl) \cup {Hit}) = Cardinality(Within(passed[ip], Ttl)) + 1
          /\ Cardinality(Within(passed[ip], Ttl)) \in Nat
      BY <3>2, FS_AddElement, FS_CardinalityType
    <3>4. Blocking(ip)' \subseteq arrived'[ip]
      BY DEF Blocking
    <3>5. IsFiniteSet(Blocking(ip)')
      BY <2>1, <3>4, FS_Subset
    <3>6. Cardinality(Blocking(ip)') \in Nat /\ Cardinality(Blocking(ip)') > Limit
      BY <2>5, <3>1, <3>3, <3>5, SmallerCount, AdmissionAssumption
    <3>7. Cardinality(arrived'[ip]) > Limit
      BY <2>1, <3>4, <3>6, SmallerCount, AdmissionAssumption
    <3> QED
      BY <2>1, <2>3, <3>6, <3>7 DEF RateOf
  <2> QED
    BY <1>1, <1>3, <2>4, <2>5
<1> QED
  BY <1>2, <1>3

LEMMA RateNext == TypeOK /\ CountersFinite /\ RateInv /\ [Next]_vars => RateInv'
<1> SUFFICES ASSUME TypeOK, CountersFinite, RateInv, [Next]_vars PROVE RateInv'
  OBVIOUS
<1>1. \A ip \in Ips : RateOf(ip)
  BY DEF RateInv
<1>2. now \in Nat /\ sent \in Nat
  BY AdmissionAssumption DEF TypeOK
<1> SUFFICES RefusedForOwnRate' /\ \A ip \in Ips : RateOf(ip)'
  BY DEF RateInv
<1>3. CASE Tick
  <2>1. \A ip \in Ips : RateOf(ip)'
    BY <1>1, <1>2, <1>3, RateWaits DEF Tick
  <2> QED
    BY <1>3, <2>1 DEF Tick, RefusedForOwnRate
<1>4. ASSUME NEW r \in Requests, ThrottlerRefuses(r)
      PROVE  RefusedForOwnRate' /\ \A ip \in Ips : RateOf(ip)'
  <2>1. \A ip \in Ips : RateOf(ip)' /\ (ip = r.ip => Cardinality(Within(arrived[ip], 2 * Ttl)') > Limit)
    BY <1>1, <1>4, RefusedRate
  <2>2. answer'.ip = r.ip /\ r.ip \in Ips
    BY <1>4, RefusedCounts, RequestFields
  <2> QED
    BY <2>1, <2>2 DEF RefusedForOwnRate
<1>5. ASSUME NEW r \in Requests, ParserRefuses(r)
      PROVE  RefusedForOwnRate' /\ \A ip \in Ips : RateOf(ip)'
  <2>1. \A ip \in Ips : RateOf(ip)'
    BY <1>1, <1>2, <1>5, RateWaits DEF ParserRefuses, Received
  <2>2. answer'.status # 429
    BY <1>5 DEF ParserRefuses, Answered
  <2> QED
    BY <2>1, <2>2 DEF RefusedForOwnRate
<1>6. ASSUME NEW r \in Requests, Unverified(r) \/ Refused(r) \/ Admitted(r)
      PROVE  RefusedForOwnRate' /\ \A ip \in Ips : RateOf(ip)'
  <2>1. Throttled(r)
    BY <1>6 DEF Unverified, Refused, Admitted, Verified
  <2>2. \A ip \in Ips : RateOf(ip)'
    BY <1>1, <2>1, ThrottledRate
  <2>3. answer'.status # 429
    BY <1>6 DEF Unverified, Refused, Admitted, Answered
  <2> QED
    BY <2>2, <2>3 DEF RefusedForOwnRate
<1>7. CASE UNCHANGED vars
  <2>1. \A ip \in Ips : RateOf(ip)'
    BY <1>1, <1>2, <1>7, RateWaits DEF vars
  <2>2. RefusedForOwnRate
    BY DEF RateInv
  <2> QED
    BY <1>7, <2>1, <2>2 DEF RefusedForOwnRate, vars, Within
<1> QED
  BY <1>3, <1>4, <1>5, <1>6, <1>7 DEF Next

\* Who is refused for the rate has itself sent more than the limit lately.
THEOREM LimitIsOnesOwn == Spec => []RefusedForOwnRate
<1>1. Init => RateInv
  BY FS_EmptySet, AdmissionAssumption
     DEF Init, RateInv, RateOf, RefusedForOwnRate, Within, Blocking
<1>2. RateInv => RefusedForOwnRate
  BY DEF RateInv
<1> QED
  BY <1>1, <1>2, CountersInit, TypeCorrect, FiniteNext, RateNext, PTL DEF Spec
=============================================================================
