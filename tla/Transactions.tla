---------------------------- MODULE Transactions ----------------------------
(***************************************************************************)
(* The database transactions of the service, one SQL statement per step:   *)
(* the processor's claim, the dead-letter consumer's record-and-mark, the  *)
(* replay's reset, the discard.  PostgreSQL runs them at READ COMMITTED:   *)
(* a statement sees what is committed when it runs, an INSERT waits for an *)
(* uncommitted row of the same key, an UPDATE or SELECT ... FOR UPDATE     *)
(* waits for the row's lock, and locks are kept to the end.                *)
(*                                                                         *)
(* A slot is a place for one transaction: a delivery of the work queue, a  *)
(* delivery of the dead-letter queue (both in the worker, sharing its pool *)
(* of connections), or an HTTP request of the API.                         *)
(***************************************************************************)
EXTENDS Naturals, FiniteSets

CONSTANTS
  Events,
  OrderSlots, DlqSlots, ApiSlots,
  Nobody,       \* no transaction holds the lock
  MaxAttempts,  \* MAX_PROCESSING_ATTEMPTS
  PoolSize      \* POSTGRES_POOL_SIZE of the worker

WorkerSlots == OrderSlots \cup DlqSlots
Slots       == WorkerSlots \cup ApiSlots

ASSUME TransactionsAssumption ==
  /\ Nobody \notin Slots
  /\ OrderSlots \cap DlqSlots = {} /\ WorkerSlots \cap ApiSlots = {}
  /\ MaxAttempts \in Nat \ {0} /\ PoolSize \in Nat \ {0}

Statuses == {"absent", "received", "processing", "processed", "failed", "dead"}
Steps    == {"waiting", "claim", "lock", "handle", "record", "mark",
             "find", "reset", "commit"}

Closed == [step |-> "closed"]

\* A transaction: where it is, on which event, whether its message is a
\* continuation, whether it writes the event's row, and what it writes.
Tx == [step : Steps, ev : Events, cont : BOOLEAN, writes : BOOLEAN,
       out : Statuses, tries : 0 .. MaxAttempts]

VARIABLES
  status, attempts,  \* the committed events rows
  letters,           \* events with a committed dlq_messages row
  discarded,         \* history: events whose letter was discarded and not recorded since
  rowLock,           \* who holds an events row, or has it inserted uncommitted
  letterLock,        \* the same of the dlq_messages row
  tx                 \* each slot's transaction, Closed when it has none

rows  == <<status, attempts>>
mail  == <<letters, discarded>>
locks == <<rowLock, letterLock>>
vars  == <<rows, mail, locks, tx>>

Init ==
  /\ status = [e \in Events |-> "absent"]
  /\ attempts = [e \in Events |-> 0]
  /\ letters = {} /\ discarded = {}
  /\ rowLock = [e \in Events |-> Nobody]
  /\ letterLock = [e \in Events |-> Nobody]
  /\ tx = [t \in Slots |-> Closed]

\* Mutations (Mut_*) are plausible mistakes in the definition that follows;
\* no action uses them.
Settled    == {"processed", "dead"}
Replayable == {"dead", "failed", "received"}

At(t, step) == tx[t].step = step

\* tx[t] goes on to step, to write what it says.
Move(t, step, writes, out, tries) ==
  tx' = [tx EXCEPT ![t] =
           [step |-> step, ev |-> tx[t].ev, cont |-> tx[t].cont,
            writes |-> writes, out |-> out, tries |-> tries]]
Pass(t, step) == Move(t, step, FALSE, "absent", 0)

HoldsRow(t)    == rowLock' = [rowLock EXCEPT ![tx[t].ev] = t]
HoldsLetter(t) == letterLock' = [letterLock EXCEPT ![tx[t].ev] = t]

Released(lock, t) == [e \in Events |-> IF lock[e] = t THEN Nobody ELSE lock[e]]

End(t) ==
  /\ tx' = [tx EXCEPT ![t] = Closed]
  /\ rowLock' = Released(rowLock, t)
  /\ letterLock' = Released(letterLock, t)

-----------------------------------------------------------------------------
(* A delivery or a request arrives and waits for a connection of its        *)
(* process; the API's pool is not bounded here.                             *)

Begin(t, e, cont) ==
  /\ At(t, "closed")
  /\ tx' = [tx EXCEPT ![t] =
              [step |-> "waiting", ev |-> e, cont |-> cont,
               writes |-> FALSE, out |-> "absent", tries |-> 0]]
  /\ UNCHANGED <<rows, mail, locks>>

InFlight  == {t \in WorkerSlots : ~At(t, "closed")}
Connected == {t \in InFlight : ~At(t, "waiting")}
FreeConnection(t) == t \in WorkerSlots => Cardinality(Connected) < PoolSize

FirstStatement(t) ==
  CASE t \in OrderSlots -> "claim"
    [] t \in DlqSlots -> "record"
    [] t \in ApiSlots -> "find"

Connect(t) ==
  /\ At(t, "waiting")
  /\ FreeConnection(t)
  /\ Pass(t, FirstStatement(t))
  /\ UNCHANGED <<rows, mail, locks>>

-----------------------------------------------------------------------------
(* The processor: INSERT ... ON CONFLICT DO NOTHING, SELECT ... FOR UPDATE, *)
(* the decision, the handler, the commit.                                   *)

Mut_ClaimNeverWaits(t) ==
  /\ At(t, "claim")
  /\ \/ rowLock[tx[t].ev] # Nobody /\ UNCHANGED rowLock
     \/ status[tx[t].ev] # "absent" /\ UNCHANGED rowLock
     \/ status[tx[t].ev] = "absent" /\ rowLock[tx[t].ev] = Nobody /\ HoldsRow(t)
  /\ Pass(t, "lock")
  /\ UNCHANGED <<rows, mail, letterLock>>

\* Finding a committed row, the INSERT does nothing (it may wait for that row's
\* writer, as the next statement will); finding an uncommitted one, it waits.
Claim(t) ==
  /\ At(t, "claim")
  /\ \/ status[tx[t].ev] # "absent" /\ UNCHANGED rowLock
     \/ status[tx[t].ev] = "absent" /\ rowLock[tx[t].ev] = Nobody /\ HoldsRow(t)
  /\ Pass(t, "lock")
  /\ UNCHANGED <<rows, mail, letterLock>>

Claimed(t) == rowLock[tx[t].ev] = t

Mut_ReadUnlocked(t) == TRUE
Lockable(t) == rowLock[tx[t].ev] \in {Nobody, t}

\* SELECT ... FOR UPDATE, and an event that needs no attempt.
LockDecided(t) ==
  /\ At(t, "lock") /\ Lockable(t) /\ ~Claimed(t)
  /\ \/ status[tx[t].ev] \in Settled \cup {"failed"}
     \/ status[tx[t].ev] \in {"received", "processing"} /\ ~tx[t].cont
  /\ HoldsRow(t)
  /\ Pass(t, "commit")
  /\ UNCHANGED <<rows, mail, letterLock>>

\* SELECT ... FOR UPDATE, and the UPDATE that counts the attempt.
LockAttempt(t) ==
  /\ At(t, "lock") /\ Lockable(t)
  /\ \/ Claimed(t)
     \/ status[tx[t].ev] \in {"received", "processing"} /\ tx[t].cont
  /\ HoldsRow(t)
  /\ Move(t, "handle", TRUE, "processing", attempts[tx[t].ev] + 1)
  /\ UNCHANGED <<rows, mail, letterLock>>

Mut_NeverGivesUp(t) ==
  /\ At(t, "handle")
  /\ \E s \in {"processed", "failed", "processing"} : Move(t, "commit", TRUE, s, tx[t].tries)
  /\ UNCHANGED <<rows, mail, locks>>

Mut_HandlerOutsideTransaction(t) ==
  /\ At(t, "handle")
  /\ FreeConnection(t)
  /\ \E s \in {"processed", "failed"} : Move(t, "commit", TRUE, s, tx[t].tries)
  /\ UNCHANGED <<rows, mail, locks>>

Handle(t) ==
  /\ At(t, "handle")
  /\ \E s \in {"processed", "failed", "processing"} :
       /\ s = "processing" => tx[t].tries < MaxAttempts
       /\ Move(t, "commit", TRUE, s, tx[t].tries)
  /\ UNCHANGED <<rows, mail, locks>>

-----------------------------------------------------------------------------
(* The dead-letter consumer: INSERT ... ON CONFLICT DO NOTHING into         *)
(* dlq_messages, then the UPDATE of the event's status.                     *)

Record(t) ==
  /\ At(t, "record")
  /\ \/ tx[t].ev \in letters /\ UNCHANGED letterLock
     \/ tx[t].ev \notin letters /\ letterLock[tx[t].ev] = Nobody /\ HoldsLetter(t)
  /\ Pass(t, "mark")
  /\ UNCHANGED <<rows, mail, rowLock>>

\* No row to see, nothing to update: not even one about to be committed.
Mark(t) ==
  /\ At(t, "mark")
  /\ \/ /\ status[tx[t].ev] = "absent"
        /\ Pass(t, "commit")
        /\ UNCHANGED rowLock
     \/ /\ status[tx[t].ev] # "absent" /\ rowLock[tx[t].ev] = Nobody
        /\ HoldsRow(t)
        /\ Move(t, "commit", TRUE, "dead", attempts[tx[t].ev])
  /\ UNCHANGED <<rows, mail, letterLock>>

-----------------------------------------------------------------------------
(* The replay: the letter FOR UPDATE, the event FOR UPDATE, the reset.      *)

Mut_FindUnlocked(t) ==
  /\ At(t, "find")
  /\ tx[t].ev \in letters
  /\ Pass(t, "reset")
  /\ UNCHANGED <<rows, mail, locks>>

FindLetter(t) ==
  /\ At(t, "find")
  /\ tx[t].ev \in letters /\ letterLock[tx[t].ev] = Nobody
  /\ HoldsLetter(t)
  /\ Pass(t, "reset")
  /\ UNCHANGED <<rows, mail, rowLock>>

Mut_ResetUnlocked(t) ==
  /\ At(t, "reset")
  /\ \/ /\ status[tx[t].ev] = "absent"
        /\ Pass(t, "commit")
     \/ /\ status[tx[t].ev] \in Replayable
        /\ Move(t, "commit", TRUE, "received", 0)
  /\ UNCHANGED <<rows, mail, locks>>

ResetRow(t) ==
  /\ At(t, "reset")
  /\ \/ /\ status[tx[t].ev] = "absent"
        /\ Pass(t, "commit")
        /\ UNCHANGED rowLock
     \/ /\ status[tx[t].ev] \in Replayable /\ rowLock[tx[t].ev] = Nobody
        /\ HoldsRow(t)
        /\ Move(t, "commit", TRUE, "received", 0)
  /\ UNCHANGED <<rows, mail, letterLock>>

\* 404 for an unknown letter, 409 for an event in no replayable state.
Refuse(t) ==
  /\ \/ At(t, "find") /\ tx[t].ev \notin letters
     \/ /\ At(t, "reset") /\ rowLock[tx[t].ev] = Nobody
        /\ status[tx[t].ev] \notin Replayable \cup {"absent"}
  /\ End(t)
  /\ UNCHANGED <<rows, mail>>

\* The discard is one statement and its own transaction.
Discard(e) ==
  /\ e \in letters /\ letterLock[e] = Nobody
  /\ letters' = letters \ {e}
  /\ discarded' = discarded \cup {e}
  /\ UNCHANGED <<rows, locks, tx>>

-----------------------------------------------------------------------------
Commit(t) ==
  /\ At(t, "commit")
  /\ IF tx[t].writes
       THEN /\ status' = [status EXCEPT ![tx[t].ev] = tx[t].out]
            /\ attempts' = [attempts EXCEPT ![tx[t].ev] = tx[t].tries]
       ELSE UNCHANGED rows
  /\ IF t \in DlqSlots /\ letterLock[tx[t].ev] = t
       THEN letters' = letters \cup {tx[t].ev} /\ discarded' = discarded \ {tx[t].ev}
       ELSE UNCHANGED mail
  /\ End(t)

\* Any statement fails, the connection or the process is lost: rollback.
Abort(t) ==
  /\ ~At(t, "closed")
  /\ End(t)
  /\ UNCHANGED <<rows, mail>>

Proceed(t) ==
  \/ Connect(t)
  \/ Claim(t) \/ LockDecided(t) \/ LockAttempt(t) \/ Handle(t)
  \/ Record(t) \/ Mark(t)
  \/ FindLetter(t) \/ ResetRow(t) \/ Refuse(t)
  \/ Commit(t)

Next ==
  \/ \E t \in Slots : Proceed(t) \/ Abort(t)
  \/ \E t \in Slots, e \in Events, cont \in BOOLEAN : Begin(t, e, cont)
  \/ \E e \in Events : Discard(e)

Spec == Init /\ [][Next]_vars

\* Row locks and the pool are granted first come, first served, and handlers
\* return: a slot that can go on again and again does.
FairSpec == Spec /\ \A t \in Slots : SF_vars(Proceed(t))
-----------------------------------------------------------------------------
(* The tables' and the transactions' shape.                                 *)
TypeOK ==
  /\ status \in [Events -> Statuses]
  /\ attempts \in [Events -> 0 .. MaxAttempts]
  /\ letters \subseteq Events /\ discarded \subseteq Events
  /\ rowLock \in [Events -> Slots \cup {Nobody}]
  /\ letterLock \in [Events -> Slots \cup {Nobody}]
  /\ tx \in [Slots -> Tx \cup {Closed}]

(* "event row missing after claim" (idempotent-event-processor.ts:102) is   *)
(* never thrown: past its INSERT a processor has the row, its own or one    *)
(* that is committed.                                                       *)
ClaimFindsRow ==
  \A t \in OrderSlots :
    tx[t].step = "lock" => status[tx[t].ev] # "absent" \/ rowLock[tx[t].ev] = t

(* Two deliveries of an event never run the handler at the same time, and   *)
(* the one that does decided on the row as it still is: attempts one past   *)
(* the committed count, on an event that is open.                           *)
OneHandlerPerEvent ==
  \A t \in OrderSlots : tx[t].step = "handle" =>
    /\ \A u \in OrderSlots \ {t} : tx[u].step = "handle" => tx[u].ev # tx[t].ev
    /\ tx[t].tries = attempts[tx[t].ev] + 1
    /\ status[tx[t].ev] \in {"absent", "received", "processing"}

(* A replay resets nothing that is not dead-lettered: while its reset waits *)
(* to commit, the letter is there, and no discard gets past the lock.       *)
ResetHasLetter ==
  \A t \in ApiSlots : tx[t].step \in {"reset", "commit"} => tx[t].ev \in letters

\* Letters inserted, not committed, whose mark has found no row.
MarkMissed(t) == At(t, "commit") /\ ~tx[t].writes /\ letterLock[tx[t].ev] = t
missed == {tx[t].ev : t \in {u \in DlqSlots : MarkMissed(u)}}

Row == INSTANCE EventRow

(* The locks make each transaction one atomic step of the event's row and   *)
(* its dead letter: an attempt is not lost to one that overlaps, a mark     *)
(* comes with its letter, a reset finds the letter still on record.         *)
ImplementsEventRow == Row!Spec

(* No transaction waits for ever, for a lock or for a connection.           *)
TransactionsEnd == \A t \in Slots : tx[t].step # "closed" ~> tx[t].step = "closed"
=============================================================================
