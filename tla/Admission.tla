----------------------------- MODULE Admission ------------------------------
(***************************************************************************)
(* What POST /webhooks/orders goes through before the publish: the body    *)
(* parser, the throttler, the signature guard, the validation.  Requests   *)
(* may come again and at any time: a partner retries, a proxy delays.      *)
(* Times are in half seconds, so that a timestamp may be a fraction and    *)
(* the server's whole seconds are seen to be rounded down.                 *)
(***************************************************************************)
EXTENDS Integers, FiniteSets

CONSTANTS
  Ips,
  Requests,    \* the requests that may come, a set of Request
  Tolerance,   \* WEBHOOK_TIMESTAMP_TOLERANCE_SECONDS
  Ttl,         \* RATE_LIMIT_TTL_SECONDS, in half seconds
  Limit,       \* RATE_LIMIT_MAX
  NotFinite,   \* Number(x-timestamp) when it is no finite number
  NoAnswer,
  MaxNow, MaxSent   \* bounds on the clock and on the requests

Request ==
  [ip : Ips, stamp : Int \cup {NotFinite},   \* x-timestamp, in half seconds
   signature : {"missing", "wrong", "right"},
   body : {"oversized", "unparseable", "invalid", "valid"}]

Answers == [ip : Ips, status : {202, 400, 401, 413, 429, 503}]

ASSUME AdmissionAssumption ==
  /\ Requests \subseteq Request
  /\ NotFinite \notin Int /\ NoAnswer \notin Answers
  /\ Tolerance \in Nat \ {0} /\ Ttl \in Nat \ {0} /\ Limit \in Nat \ {0}
  /\ MaxNow \in Nat /\ MaxSent \in Nat

VARIABLES
  now,        \* Date.now()
  passed,     \* ip -> the hits of the requests that the throttler let through
  blocked,    \* ip -> when its block ends, 0 if there was none
  answer,     \* the last answer
  \* history
  sent,       \* requests received
  arrived,    \* ip -> the hits of its requests at the throttler
  hmacs,      \* ip -> the hits for which an HMAC was computed
  accepted    \* the signed timestamps that were accepted, and when

vars == <<now, passed, blocked, answer, sent, arrived, hmacs, accepted>>

Answered(r, status) == answer' = [ip |-> r.ip, status |-> status]

Init ==
  /\ now = 0
  /\ passed = [ip \in Ips |-> {}] /\ blocked = [ip \in Ips |-> 0]
  /\ answer = NoAnswer
  /\ sent = 0
  /\ arrived = [ip \in Ips |-> {}] /\ hmacs = [ip \in Ips |-> {}]
  /\ accepted = {}

Tick ==
  /\ now < MaxNow
  /\ now' = now + 1
  /\ answer' = NoAnswer
  /\ UNCHANGED <<passed, blocked, sent, arrived, hmacs, accepted>>

\* One request at one time: two of the same time count as two.
Hit == [at |-> now, nr |-> sent]

\* Of these hits, the ones of the last span, now included.
Within(hits, span) == {h \in hits : now < h.at + span}

\* Counted: what a window has forgotten is dropped.
Counted(hits, span) == Within(hits, span) \cup {Hit}

Received(r) ==
  /\ r \in Requests /\ sent < MaxSent
  /\ sent' = sent + 1
  /\ now' = now

-----------------------------------------------------------------------------
\* 413 or 400 from the body parser, which runs before any guard.
ParserRefuses(r) ==
  /\ Received(r)
  /\ r.body \in {"oversized", "unparseable"}
  /\ Answered(r, IF r.body = "oversized" THEN 413 ELSE 400)
  /\ UNCHANGED <<passed, blocked, arrived, hmacs, accepted>>

Parsed(r) == Received(r) /\ r.body \in {"invalid", "valid"}

Mut_OneCounter(r) == CHOOSE ip \in Ips : TRUE
\* Whose counter a request counts on: no getTracker is configured.
Tracker(r) == r.ip

CountArrival(r) == arrived' = [arrived EXCEPT ![r.ip] = Counted(@, 2 * Ttl)]

Blocked(r) == now < blocked[Tracker(r)]

\* ThrottlerGuard: a request over the limit blocks its counter for one ttl,
\* in which the requests it refuses count for nothing.
ThrottlerRefuses(r) ==
  /\ Parsed(r)
  /\ \/ Blocked(r) /\ UNCHANGED blocked
     \/ /\ ~Blocked(r) /\ Cardinality(Within(passed[Tracker(r)], Ttl)) >= Limit
        /\ blocked' = [blocked EXCEPT ![Tracker(r)] = now + Ttl]
  /\ CountArrival(r)
  /\ Answered(r, 429)
  /\ UNCHANGED <<passed, hmacs, accepted>>

Throttled(r) ==
  /\ Parsed(r)
  /\ ~Blocked(r) /\ Cardinality(Within(passed[Tracker(r)], Ttl)) < Limit
  /\ passed' = [passed EXCEPT ![Tracker(r)] = Counted(@, Ttl)]
  /\ CountArrival(r)
  /\ UNCHANGED blocked

-----------------------------------------------------------------------------
(* WebhookSignatureGuard.canActivate, then ValidationPipe.                  *)

Distance(a, b) == IF a <= b THEN b - a ELSE a - b

\* The server's second, as half seconds.
nowSeconds == 2 * (now \div 2)

Mut_NotOutside(stamp) ==
  stamp # NotFinite => Distance(nowSeconds, stamp) <= 2 * Tolerance
Mut_OnlyTheOld(stamp) == stamp # NotFinite /\ nowSeconds - stamp <= 2 * Tolerance
withinTolerance(stamp) ==
  stamp # NotFinite /\ Distance(nowSeconds, stamp) <= 2 * Tolerance

\* 401 without an HMAC: headers missing, the timestamp stale or no number.
Unverified(r) ==
  /\ Throttled(r)
  /\ r.signature = "missing" \/ ~withinTolerance(r.stamp)
  /\ Answered(r, 401)
  /\ UNCHANGED <<hmacs, accepted>>

Mut_VerifiesFirst(r) ==
  /\ Parsed(r)
  /\ r.signature # "missing" /\ withinTolerance(r.stamp)
  /\ hmacs' = [hmacs EXCEPT ![r.ip] = Counted(@, Ttl)]
  /\ CountArrival(r)
  /\ UNCHANGED <<passed, blocked>>

Verified(r) ==
  /\ Throttled(r)
  /\ r.signature # "missing" /\ withinTolerance(r.stamp)
  /\ hmacs' = [hmacs EXCEPT ![r.ip] = Counted(@, Ttl)]

\* 401 for the wrong signature, 400 for what the DTO does not admit.
Refused(r) ==
  /\ Verified(r)
  /\ r.signature = "wrong" \/ r.body = "invalid"
  /\ Answered(r, IF r.signature = "wrong" THEN 401 ELSE 400)
  /\ UNCHANGED accepted

\* On to the publisher, which answers 202 or 503.
Admitted(r) ==
  /\ Verified(r)
  /\ r.signature = "right" /\ r.body = "valid"
  /\ \E status \in {202, 503} : Answered(r, status)
  /\ accepted' = accepted \cup {[stamp |-> r.stamp, at |-> now]}

-----------------------------------------------------------------------------
Next ==
  \/ Tick
  \/ \E r \in Requests :
       ParserRefuses(r) \/ ThrottlerRefuses(r) \/ Unverified(r) \/ Refused(r) \/ Admitted(r)

Spec == Init /\ [][Next]_vars
-----------------------------------------------------------------------------
Hits == [at : 0 .. MaxNow, nr : 0 .. MaxSent]

TypeOK ==
  /\ now \in 0 .. MaxNow /\ sent \in 0 .. MaxSent
  /\ passed \in [Ips -> SUBSET Hits]
  /\ blocked \in [Ips -> 0 .. MaxNow + Ttl]
  /\ answer \in Answers \cup {NoAnswer}
  /\ arrived \in [Ips -> SUBSET Hits] /\ hmacs \in [Ips -> SUBSET Hits]
  /\ \A a \in accepted : a.stamp \in Int /\ a.at \in 0 .. MaxNow

(* "a flood of garbage must hit the cheap counter, not burn an HMAC per     *)
(* request" (webhooks.controller.ts:26): however requests come, one address *)
(* never has more of them hashed in a window than the limit.                *)
HmacsBounded == \A ip \in Ips : Cardinality(Within(hmacs[ip], Ttl)) <= Limit

(* The replay window of one signed request, at both its ends: from the      *)
(* first to the last time it is accepted pass at most the tolerance before, *)
(* the tolerance after and the second that is being counted.                *)
AcceptedSpan ==
  \A a \in accepted, b \in accepted :
    a.stamp = b.stamp => Distance(a.at, b.at) < 2 * (2 * Tolerance + 1)

(* The limit is per address: who is refused for the rate has itself sent    *)
(* more than the limit lately, whatever the others send.                    *)
RefusedForOwnRate ==
  answer # NoAnswer /\ answer.status = 429
    => Cardinality(Within(arrived[answer.ip], 2 * Ttl)) > Limit
=============================================================================
