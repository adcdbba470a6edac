----------------------------- MODULE Publisher ------------------------------
(***************************************************************************)
(* The ingestion request: publish with a mandatory flag, wait for the      *)
(* confirm or the timeout, answer 202 or 503.  The broker's frames on one  *)
(* channel come in order, a basic.return before the confirm of the same    *)
(* message.  When the connection goes, amqp-connection-manager fails some  *)
(* of the unconfirmed publishes and sends the others again, those included *)
(* whose request has been answered long since.                             *)
(***************************************************************************)
EXTENDS Naturals, Sequences

CONSTANTS
  Requests,
  Correlations,  \* caller-supplied correlation ids
  None,          \* no entry in the map
  MaxLosses      \* bound on lost connections

ASSUME PublisherAssumption == None \notin Requests /\ MaxLosses \in Nat

Tokens == Requests \cup Correlations

VARIABLES
  http,            \* each request's answer, "pending" until then
  correlationOf,   \* the correlation id each request came with
  pendingReturns,  \* publishToken |-> the request whose closure it holds
  returned,        \* each publish's local flag
  confirm,         \* each publish's confirm promise
  connected, bound,  \* is there a channel; is the work queue bound
  outgoing,        \* publishes written to the channel, or kept to be
  toConfirm,       \* messages the broker has routed and not confirmed
  incoming,        \* frames on their way from the broker
  \* history, read by no action's guard
  queued,          \* publishes of which the queue got a copy
  unroutable,      \* publishes of which the broker returned a copy
  losses

clientVars == <<http, correlationOf, pendingReturns, returned, confirm>>
brokerVars == <<connected, bound, outgoing, toConfirm, incoming, losses>>
ghostVars  == <<queued, unroutable>>
vars == <<clientVars, brokerVars, ghostVars>>

Frames == [kind : {"return", "ack", "nack"}, pub : Requests]
Frame(kind, r) == [kind |-> kind, pub |-> r]

Init ==
  /\ http = [r \in Requests |-> "new"]
  /\ correlationOf \in [Requests -> Correlations]
  /\ pendingReturns = [k \in Tokens |-> None]
  /\ returned = [r \in Requests |-> FALSE]
  /\ confirm = [r \in Requests |-> "waiting"]
  /\ connected = TRUE /\ bound = TRUE
  /\ outgoing = {} /\ toConfirm = {} /\ incoming = <<>>
  /\ queued = {} /\ unroutable = {} /\ losses = 0

\* Mutations (Mut_*) are plausible mistakes in the definition that follows;
\* no action uses them.
Mut_CorrelationAsToken(r) == correlationOf[r]
publishToken(r) == r  \* randomUUID(): one of its own

-----------------------------------------------------------------------------
(* The API.  With no connection amqp.publish throws at once.                *)

Publish(r) ==
  /\ http[r] = "new"
  /\ connected
  /\ http' = [http EXCEPT ![r] = "pending"]
  /\ pendingReturns' = [pendingReturns EXCEPT ![publishToken(r)] = r]
  /\ outgoing' = outgoing \cup {r}
  /\ UNCHANGED <<correlationOf, returned, confirm, connected, bound, toConfirm,
                 incoming, losses, ghostVars>>

PublishThrows(r) ==
  /\ http[r] = "new"
  /\ ~connected
  /\ http' = [http EXCEPT ![r] = "503"]
  /\ UNCHANGED <<correlationOf, pendingReturns, returned, confirm, brokerVars,
                 ghostVars>>

\* The finally block, then the answer.
Answer(r, code) ==
  /\ http' = [http EXCEPT ![r] = code]
  /\ pendingReturns' = [pendingReturns EXCEPT ![publishToken(r)] = None]
  /\ UNCHANGED <<correlationOf, returned, confirm, brokerVars, ghostVars>>

Mut_KeepsEntry(r) ==
  /\ http[r] = "pending" /\ confirm[r] = "waiting"
  /\ http' = [http EXCEPT ![r] = "503"]
  /\ UNCHANGED <<correlationOf, pendingReturns, returned, confirm, brokerVars,
                 ghostVars>>

Mut_OnlyWhileConnected(r) ==
  /\ http[r] = "pending" /\ confirm[r] = "waiting"
  /\ connected
  /\ Answer(r, "503")

\* PUBLISH_CONFIRM_TIMEOUT_MS runs out first.
Timeout(r) ==
  /\ http[r] = "pending" /\ confirm[r] = "waiting"
  /\ Answer(r, "503")

Mut_IgnoresReturn(r) ==
  /\ http[r] = "pending" /\ confirm[r] = "resolved"
  /\ Answer(r, "202")

\* publish() goes on after its await: before any timer, not before other frames.
Accept(r) ==
  /\ http[r] = "pending" /\ confirm[r] = "resolved" /\ ~returned[r]
  /\ Answer(r, "202")

Mut_UncaughtRejection(r) ==
  /\ http[r] = "pending"
  /\ \/ confirm[r] = "rejected" /\ Answer(r, "500")
     \/ confirm[r] = "resolved" /\ returned[r] /\ Answer(r, "503")

Refuse(r) ==
  /\ http[r] = "pending"
  /\ \/ confirm[r] = "rejected"
     \/ confirm[r] = "resolved" /\ returned[r]
  /\ Answer(r, "503")

\* channel.on('return'): whose closure the token finds, if any.
ReceiveReturn ==
  /\ incoming # <<>> /\ Head(incoming).kind = "return"
  /\ LET hit == pendingReturns[publishToken(Head(incoming).pub)]
     IN returned' = IF hit = None THEN returned ELSE [returned EXCEPT ![hit] = TRUE]
  /\ incoming' = Tail(incoming)
  /\ UNCHANGED <<http, correlationOf, pendingReturns, confirm, connected, bound,
                 outgoing, toConfirm, losses, ghostVars>>

\* A confirm settles its promise, once; it may find the request answered.
ReceiveConfirm ==
  /\ incoming # <<>> /\ Head(incoming).kind # "return"
  /\ LET f == Head(incoming)
     IN confirm' = [confirm EXCEPT ![f.pub] =
                      IF @ # "waiting" THEN @
                      ELSE IF f.kind = "ack" THEN "resolved" ELSE "rejected"]
  /\ incoming' = Tail(incoming)
  /\ UNCHANGED <<http, correlationOf, pendingReturns, returned, connected, bound,
                 outgoing, toConfirm, losses, ghostVars>>

-----------------------------------------------------------------------------
(* The broker and the connection.                                           *)

\* mandatory: true - a message no queue takes is returned, then confirmed.
Route(r) ==
  /\ connected /\ r \in outgoing
  /\ outgoing' = outgoing \ {r}
  /\ toConfirm' = toConfirm \cup {r}
  /\ IF bound
       THEN queued' = queued \cup {r} /\ UNCHANGED <<unroutable, incoming>>
       ELSE /\ unroutable' = unroutable \cup {r}
            /\ incoming' = Append(incoming, Frame("return", r))
            /\ UNCHANGED queued
  /\ UNCHANGED <<clientVars, connected, bound, losses>>

Confirm(r) ==
  /\ connected /\ r \in toConfirm
  /\ toConfirm' = toConfirm \ {r}
  /\ incoming' = Append(incoming, Frame("ack", r))
  /\ UNCHANGED <<clientVars, connected, bound, outgoing, losses, ghostVars>>

\* The broker could not take the message.
RejectPublish(r) ==
  /\ connected /\ r \in outgoing
  /\ outgoing' = outgoing \ {r}
  /\ incoming' = Append(incoming, Frame("nack", r))
  /\ UNCHANGED <<clientVars, connected, bound, toConfirm, losses, ghostVars>>

Unconfirmed == {r \in Requests : http[r] # "new" /\ confirm[r] = "waiting"}

\* Frames in either direction are lost; each unconfirmed publish is kept or failed.
ConnectionLost ==
  /\ connected /\ losses < MaxLosses
  /\ losses' = losses + 1
  /\ connected' = FALSE
  /\ \E kept \in SUBSET Unconfirmed :
       /\ outgoing' = kept
       /\ confirm' = [r \in Requests |->
                        IF r \in Unconfirmed \ kept THEN "rejected" ELSE confirm[r]]
  /\ toConfirm' = {} /\ incoming' = <<>>
  /\ UNCHANGED <<http, correlationOf, pendingReturns, returned, bound, ghostVars>>

Reconnect ==
  /\ ~connected
  /\ connected' = TRUE
  /\ UNCHANGED <<clientVars, bound, outgoing, toConfirm, incoming, losses, ghostVars>>

\* The queue is unbound or deleted, or declared again.
Rebind ==
  /\ bound' = ~bound
  /\ UNCHANGED <<clientVars, connected, outgoing, toConfirm, incoming, losses,
                 ghostVars>>

Finish(r) == Accept(r) \/ Refuse(r) \/ Timeout(r)

Next ==
  \/ \E r \in Requests : Publish(r) \/ PublishThrows(r) \/ Finish(r)
  \/ ReceiveReturn \/ ReceiveConfirm
  \/ \E r \in Requests : Route(r) \/ Confirm(r) \/ RejectPublish(r)
  \/ ConnectionLost \/ Reconnect \/ Rebind

Spec == Init /\ [][Next]_vars

\* The event loop runs an armed timer and a settled await; the network is under
\* no obligation.
FairSpec == Spec /\ \A r \in Requests : WF_vars(Finish(r))
-----------------------------------------------------------------------------
TypeOK ==
  /\ http \in [Requests -> {"new", "pending", "202", "503"}]
  /\ correlationOf \in [Requests -> Correlations]
  /\ pendingReturns \in [Tokens -> Requests \cup {None}]
  /\ returned \in [Requests -> BOOLEAN]
  /\ confirm \in [Requests -> {"waiting", "resolved", "rejected"}]
  /\ connected \in BOOLEAN /\ bound \in BOOLEAN
  /\ outgoing \subseteq Requests /\ toConfirm \subseteq Requests
  /\ incoming \in Seq(Frames)
  /\ queued \subseteq Requests /\ unroutable \subseteq Requests
  /\ losses \in 0 .. MaxLosses

(* "Accepted means durably queued: the broker confirmed the publish before  *)
(* the 202" (webhooks.controller.ts:34), unroutable messages, lost channels *)
(* and publishes sent twice included.                                       *)
AcceptedIsQueued == \A r \in Requests : http[r] = "202" => r \in queued

(* A return is put down to the publish that caused it, whatever correlation *)
(* ids the callers share (rabbit-event-publisher.ts:14-16).                 *)
ReturnIsOwn == \A r \in Requests : returned[r] => r \in unroutable

(* An answered request leaves nothing in pendingReturns, timed out or not.  *)
NothingPending ==
  \A k \in Tokens : pendingReturns[k] # None => http[pendingReturns[k]] = "pending"

(* Every request is answered, whatever the broker does.                     *)
EventuallyAnswered == \A r \in Requests : http[r] = "pending" ~> http[r] \in {"202", "503"}
=============================================================================
