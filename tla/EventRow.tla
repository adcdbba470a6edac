------------------------------ MODULE EventRow ------------------------------
(***************************************************************************)
(* What the two tables promise: an event's row changes by one of three     *)
(* atomic steps, an attempt, a burial, a reset, whoever runs them and      *)
(* however their transactions overlap.  A burial comes with its dead       *)
(* letter, a reset finds it on record.  Pipeline uses the tables this way, *)
(* and Transactions shows that its locks make it so.                       *)
(***************************************************************************)
EXTENDS Naturals

CONSTANTS Events, MaxAttempts

VARIABLES
  status, attempts,  \* the events rows
  letters,           \* events with a dead letter on record
  discarded,         \* events whose dead letter was discarded and not recorded since
  missed             \* events whose dead letter, not on record yet, found no row to mark

tables == <<status, attempts, letters, discarded, missed>>

Open       == {"absent", "received", "processing"}
Replayable == {"dead", "failed", "received"}

Init ==
  /\ status = [e \in Events |-> "absent"]
  /\ attempts = [e \in Events |-> 0]
  /\ letters = {} /\ discarded = {} /\ missed = {}

Write(e, s, n) ==
  /\ status' = [status EXCEPT ![e] = s]
  /\ attempts' = [attempts EXCEPT ![e] = n]

Recorded(e) ==
  /\ letters' = letters \cup {e}
  /\ discarded' = discarded \ {e}

\* The handler ran once for an open event, within the budget.
Attempt(e) ==
  /\ status[e] \in Open
  /\ \/ \E s \in {"processed", "failed"} : Write(e, s, attempts[e] + 1)
     \/ attempts[e] + 1 < MaxAttempts /\ Write(e, "processing", attempts[e] + 1)
  /\ UNCHANGED <<letters, discarded, missed>>

\* A dead letter of the event is recorded and marks its row.  The one exception:
\* it was found recorded, and an operator discarded it before the mark.
Bury(e) ==
  /\ status[e] # "absent"
  /\ Write(e, "dead", attempts[e])
  /\ \/ Recorded(e)
     \/ e \in discarded /\ UNCHANGED <<letters, discarded>>
  /\ UNCHANGED missed

\* The mark finds no row and the letter is recorded without, by then perhaps
\* beside one; or it is not recorded after all.
Miss(e) ==
  /\ status[e] = "absent"
  /\ missed' = missed \cup {e}
  /\ UNCHANGED <<status, attempts, letters, discarded>>

Record(e) ==
  /\ status[e] = "absent" \/ e \in missed
  /\ Recorded(e)
  /\ missed' = missed \ {e}
  /\ UNCHANGED <<status, attempts>>

GiveUp(e) ==
  /\ e \in missed
  /\ missed' = missed \ {e}
  /\ UNCHANGED <<status, attempts, letters, discarded>>

\* An operator's replay of a dead letter starts the budget over.
Reset(e) ==
  /\ e \in letters
  /\ status[e] \in Replayable
  /\ Write(e, "received", 0)
  /\ UNCHANGED <<letters, discarded, missed>>

Discard(e) ==
  /\ e \in letters
  /\ letters' = letters \ {e}
  /\ discarded' = discarded \cup {e}
  /\ UNCHANGED <<status, attempts, missed>>

Next ==
  \E e \in Events :
    \/ Attempt(e) \/ Bury(e) \/ Reset(e) \/ Discard(e)
    \/ Miss(e) \/ Record(e) \/ GiveUp(e)

Spec == Init /\ [][Next]_tables
=============================================================================
