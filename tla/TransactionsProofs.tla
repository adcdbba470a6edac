------------------------- MODULE TransactionsProofs -------------------------
(* Theorems about Transactions for every set of slots and events, pool size *)
(* and number of attempts: the locks make each transaction one step of      *)
(* EventRow.                                                                *)
EXTENDS Transactions, TLAPS

USE TransactionsAssumption

-----------------------------------------------------------------------------
(* The inductive invariant: what a slot may rely on at each of its steps.   *)

KindOK(t) ==
  /\ tx[t].step \in {"claim", "lock", "handle"} => t \in OrderSlots
  /\ tx[t].step \in {"record", "mark"} => t \in DlqSlots
  /\ tx[t].step \in {"find", "reset"} => t \in ApiSlots

\* What a transaction about to commit writes is a lawful step of the row.
LawfulAttempt(t) ==
  /\ t \in OrderSlots
  /\ status[tx[t].ev] \in {"absent", "received", "processing"}
  /\ tx[t].tries = attempts[tx[t].ev] + 1
  /\ \/ tx[t].out \in {"processed", "failed"}
     \/ tx[t].out = "processing" /\ tx[t].tries < MaxAttempts

LawfulBurial(t) ==
  /\ t \in DlqSlots
  /\ status[tx[t].ev] # "absent"
  /\ tx[t].out = "dead" /\ tx[t].tries = attempts[tx[t].ev]

LawfulReset(t) ==
  /\ t \in ApiSlots
  /\ status[tx[t].ev] \in Replayable
  /\ tx[t].out = "received" /\ tx[t].tries = 0

\* A slot has the row's lock only for its event, from its claim or its lock on.
LocksOwnRow(t) ==
  \A e \in Events :
    rowLock[e] = t => tx[t].ev = e /\ tx[t].step \in {"lock", "handle", "commit"}

\* Past the INSERT there is a row: one's own, not committed, or a committed one.
ClaimOK(t) ==
  tx[t].step = "lock" => (rowLock[tx[t].ev] = t <=> status[tx[t].ev] = "absent")

HandleOK(t) ==
  tx[t].step = "handle" =>
    /\ rowLock[tx[t].ev] = t
    /\ status[tx[t].ev] \in {"absent", "received", "processing"}
    /\ tx[t].tries = attempts[tx[t].ev] + 1

CommitOK(t) ==
  tx[t].step = "commit" /\ tx[t].writes =>
    /\ rowLock[tx[t].ev] = t
    /\ LawfulAttempt(t) \/ LawfulBurial(t) \/ LawfulReset(t)

LetterOK(t) ==
  t \in ApiSlots /\ tx[t].step \in {"reset", "commit"} =>
    letterLock[tx[t].ev] = t /\ tx[t].ev \in letters

\* Who records a letter, or found it recorded, knows what became of it.
MarkOK(t) ==
  t \in DlqSlots /\ tx[t].step \in {"mark", "commit"} =>
    letterLock[tx[t].ev] = t \/ tx[t].ev \in letters \cup discarded

SlotOK(t) ==
  /\ MarkOK(t)
  /\ KindOK(t) /\ LocksOwnRow(t) /\ ClaimOK(t) /\ HandleOK(t) /\ CommitOK(t) /\ LetterOK(t)

\* An open event has an attempt left.
BudgetOK ==
  \A e \in Events :
    /\ status[e] \in {"absent", "received"} => attempts[e] = 0
    /\ status[e] = "processing" => attempts[e] < MaxAttempts

LockInv ==
  /\ TypeOK /\ BudgetOK
  /\ letters \cap discarded = {}
  /\ \A t \in Slots : SlotOK(t)

\* What a step of slot t leaves to the others: their transactions, the rows and
\* letters they have locked, and every row there is.
Respects(t) ==
  /\ \A u \in Slots \ {t} : tx'[u] = tx[u]
  /\ \A e \in Events :
       /\ rowLock'[e] # rowLock[e] => rowLock[e] \in {t, Nobody} /\ rowLock'[e] \in {t, Nobody}
       /\ letterLock'[e] # letterLock[e] =>
            letterLock[e] \in {t, Nobody} /\ letterLock'[e] \in {t, Nobody}
       /\ rowLock[e] # t => status'[e] = status[e] /\ attempts'[e] = attempts[e]
       /\ status[e] # "absent" => status'[e] # "absent"
  /\ letters \subseteq letters'
  /\ letters \cup discarded \subseteq letters' \cup discarded'
  /\ letters' \cap discarded' = {}

-----------------------------------------------------------------------------
(* The operators the actions are built from.                                *)

LEMMA OpenTx ==
  ASSUME TypeOK, NEW t \in Slots, tx[t].step # "closed"
  PROVE  /\ tx[t] \in Tx
         /\ tx[t].ev \in Events /\ tx[t].cont \in BOOLEAN
         /\ tx[t].tries \in 0 .. MaxAttempts /\ tx[t].out \in Statuses
<1>1. tx[t] \in Tx
  BY DEF TypeOK, Closed
<1> QED
  BY <1>1 DEF Tx

LEMMA Moved ==
  ASSUME TypeOK, NEW t \in Slots, tx[t].step # "closed",
         NEW s \in Steps, NEW w \in BOOLEAN, NEW o \in Statuses, NEW n \in 0 .. MaxAttempts,
         Move(t, s, w, o, n)
  PROVE  /\ tx' \in [Slots -> Tx \cup {Closed}]
         /\ tx'[t].step = s /\ tx'[t].ev = tx[t].ev /\ tx'[t].cont = tx[t].cont
         /\ tx'[t].writes = w /\ tx'[t].out = o /\ tx'[t].tries = n
         /\ \A u \in Slots \ {t} : tx'[u] = tx[u]
<1> DEFINE new == [step |-> s, ev |-> tx[t].ev, cont |-> tx[t].cont,
                   writes |-> w, out |-> o, tries |-> n]
<1>1. new \in Tx
  BY OpenTx DEF Tx
<1>2. tx' = [tx EXCEPT ![t] = new]
  BY DEF Move
<1>3. tx'[t] = new
  BY <1>2 DEF TypeOK
<1>4. tx' \in [Slots -> Tx \cup {Closed}] /\ \A u \in Slots \ {t} : tx'[u] = tx[u]
  BY <1>1, <1>2 DEF TypeOK
<1> QED
  BY <1>3, <1>4

\* A step that carries what the transaction has decided to write.
LEMMA ToWrite ==
  ASSUME TypeOK, NEW t \in Slots, tx[t].step # "closed"
  PROVE  \A s \in Steps, o \in Statuses, n \in 0 .. MaxAttempts : Move(t, s, TRUE, o, n) =>
           /\ tx' \in [Slots -> Tx \cup {Closed}]
           /\ tx'[t].step = s /\ tx'[t].ev = tx[t].ev
           /\ tx'[t].out = o /\ tx'[t].tries = n
           /\ \A u \in Slots \ {t} : tx'[u] = tx[u]
<1> SUFFICES ASSUME NEW s \in Steps, NEW o \in Statuses, NEW n \in 0 .. MaxAttempts,
                    Move(t, s, TRUE, o, n)
             PROVE  /\ tx' \in [Slots -> Tx \cup {Closed}]
                    /\ tx'[t].step = s /\ tx'[t].ev = tx[t].ev
                    /\ tx'[t].out = o /\ tx'[t].tries = n
                    /\ \A u \in Slots \ {t} : tx'[u] = tx[u]
  OBVIOUS
<1> DEFINE new == [step |-> s, ev |-> tx[t].ev, cont |-> tx[t].cont,
                   writes |-> TRUE, out |-> o, tries |-> n]
<1>1. new \in Tx
  BY OpenTx DEF Tx
<1>2. tx' = [tx EXCEPT ![t] = new]
  BY DEF Move
<1>3. tx'[t] = new
  BY <1>2 DEF TypeOK
<1>4. tx' \in [Slots -> Tx \cup {Closed}] /\ \A u \in Slots \ {t} : tx'[u] = tx[u]
  BY <1>1, <1>2 DEF TypeOK
<1> QED
  BY <1>3, <1>4

\* A step to the commit of what it has decided to write.
LEMMA ToCommit ==
  ASSUME TypeOK, NEW t \in Slots, tx[t].step # "closed"
  PROVE  \A o \in Statuses, n \in 0 .. MaxAttempts : Move(t, "commit", TRUE, o, n) =>
           /\ tx' \in [Slots -> Tx \cup {Closed}]
           /\ tx'[t].step = "commit" /\ tx'[t].ev = tx[t].ev
           /\ tx'[t].out = o /\ tx'[t].tries = n
           /\ \A u \in Slots \ {t} : tx'[u] = tx[u]
<1>1. "commit" \in Steps
  BY DEF Steps
<1> QED
  BY <1>1, ToWrite

LEMMA ToHandle ==
  ASSUME TypeOK, NEW t \in Slots, tx[t].step # "closed"
  PROVE  \A n \in 0 .. MaxAttempts : Move(t, "handle", TRUE, "processing", n) =>
           /\ tx' \in [Slots -> Tx \cup {Closed}]
           /\ tx'[t].step = "handle" /\ tx'[t].ev = tx[t].ev /\ tx'[t].tries = n
           /\ \A u \in Slots \ {t} : tx'[u] = tx[u]
<1>1. "handle" \in Steps /\ "processing" \in Statuses
  BY DEF Steps, Statuses
<1> SUFFICES ASSUME NEW n \in 0 .. MaxAttempts, Move(t, "handle", TRUE, "processing", n)
             PROVE  /\ tx' \in [Slots -> Tx \cup {Closed}]
                    /\ tx'[t].step = "handle" /\ tx'[t].ev = tx[t].ev /\ tx'[t].tries = n
                    /\ \A u \in Slots \ {t} : tx'[u] = tx[u]
  OBVIOUS
<1>2. ASSUME NEW s \in Steps, NEW o \in Statuses, Move(t, s, TRUE, o, n)
      PROVE  /\ tx' \in [Slots -> Tx \cup {Closed}]
             /\ tx'[t].step = s /\ tx'[t].ev = tx[t].ev /\ tx'[t].tries = n
             /\ \A u \in Slots \ {t} : tx'[u] = tx[u]
  BY <1>2, ToWrite
<1> QED
  BY <1>1, <1>2

LEMMA Ended ==
  ASSUME TypeOK, NEW t \in Slots, End(t)
  PROVE  /\ tx' \in [Slots -> Tx \cup {Closed}]
         /\ rowLock' \in [Events -> Slots \cup {Nobody}]
         /\ letterLock' \in [Events -> Slots \cup {Nobody}]
         /\ tx'[t].step = "closed"
         /\ \A u \in Slots \ {t} : tx'[u] = tx[u]
         /\ \A e \in Events : rowLock'[e] = IF rowLock[e] = t THEN Nobody ELSE rowLock[e]
         /\ \A e \in Events :
              letterLock'[e] = IF letterLock[e] = t THEN Nobody ELSE letterLock[e]
  BY DEF End, Released, TypeOK, Closed

\* Nobody is no slot, and no slot is of two kinds.
LEMMA Kinds ==
  /\ \A t \in Slots : t # Nobody
  /\ \A t \in OrderSlots : t \in Slots /\ t \notin DlqSlots /\ t \notin ApiSlots
  /\ \A t \in DlqSlots : t \in Slots /\ t \notin ApiSlots
  /\ ApiSlots \subseteq Slots
  BY DEF Slots, WorkerSlots

\* A step that respects the others leaves them what they rely on.
LEMMA OthersOK ==
  ASSUME LockInv, NEW t \in Slots, Respects(t), TypeOK', NEW u \in Slots \ {t}
  PROVE  SlotOK(u)'
<1>1. SlotOK(u) /\ tx'[u] = tx[u] /\ u # Nobody
  BY Kinds DEF LockInv, Respects
<1>2. tx[u].step # "closed" => tx[u].ev \in Events
  BY OpenTx DEF LockInv
<1>3. LocksOwnRow(u)'
  BY <1>1 DEF SlotOK, LocksOwnRow, Respects
<1>4. ClaimOK(u)'
  BY <1>1, <1>2 DEF SlotOK, ClaimOK, Respects
<1>5. HandleOK(u)'
  BY <1>1, <1>2 DEF SlotOK, HandleOK, Respects
<1>6. CommitOK(u)'
  BY <1>1, <1>2 DEF SlotOK, CommitOK, Respects, LawfulAttempt, LawfulBurial, LawfulReset
<1>7. LetterOK(u)'
  BY <1>1, <1>2 DEF SlotOK, LetterOK, Respects
<1>8. MarkOK(u)'
  BY <1>1, <1>2 DEF SlotOK, MarkOK, Respects
<1> QED
  BY <1>1, <1>3, <1>4, <1>5, <1>6, <1>7, <1>8 DEF SlotOK, KindOK

-----------------------------------------------------------------------------
(* One lemma per action: it respects the other slots and leaves its own     *)
(* what the invariant says.                                                 *)

StepOK(t) == TypeOK' /\ Respects(t) /\ SlotOK(t)'

LEMMA BeginOK ==
  ASSUME LockInv, NEW t \in Slots, NEW e \in Events, NEW cont \in BOOLEAN, Begin(t, e, cont)
  PROVE  StepOK(t)
<1> DEFINE new == [step |-> "waiting", ev |-> e, cont |-> cont,
                   writes |-> FALSE, out |-> "absent", tries |-> 0]
<1>1. new \in Tx
  BY DEF Tx, Steps, Statuses
<1>2. tx' = [tx EXCEPT ![t] = new]
  BY DEF Begin
<1>3. tx'[t] = new /\ tx' \in [Slots -> Tx \cup {Closed}] /\ \A u \in Slots \ {t} : tx'[u] = tx[u]
  BY <1>1, <1>2 DEF LockInv, TypeOK
<1>4. tx'[t].step = "waiting"
  BY <1>3
<1>5. \A f \in Events : rowLock[f] # t
  BY DEF LockInv, SlotOK, LocksOwnRow, Begin, At
<1>6. TypeOK'
  BY <1>3 DEF LockInv, TypeOK, Begin, rows, mail, locks
<1>7. Respects(t)
  BY <1>3 DEF LockInv, Respects, Begin, rows, mail, locks
<1>8. SlotOK(t)'
  BY <1>4, <1>5
  DEF SlotOK, KindOK, LocksOwnRow, ClaimOK, HandleOK, CommitOK, LetterOK, MarkOK, Begin, locks
<1> QED
  BY <1>6, <1>7, <1>8 DEF StepOK

LEMMA ConnectOK ==
  ASSUME LockInv, NEW t \in Slots, Connect(t)
  PROVE  StepOK(t)
<1> DEFINE to == FirstStatement(t)
<1>1. \/ to = "claim" /\ t \in OrderSlots
      \/ to = "record" /\ t \in DlqSlots
      \/ to = "find" /\ t \in ApiSlots
  BY DEF FirstStatement, Slots, WorkerSlots
<1>2. to \in Steps /\ "absent" \in Statuses /\ 0 \in 0 .. MaxAttempts
  BY <1>1 DEF Steps, Statuses
<1>3. Move(t, to, FALSE, "absent", 0) /\ tx[t].step = "waiting"
  BY DEF Connect, Pass, At
<1> HIDE DEF to
<1>4. /\ tx' \in [Slots -> Tx \cup {Closed}]
      /\ tx'[t].step = to
      /\ \A u \in Slots \ {t} : tx'[u] = tx[u]
  BY <1>2, <1>3, Moved DEF LockInv
<1>5. \A f \in Events : rowLock[f] # t
  BY <1>3 DEF LockInv, SlotOK, LocksOwnRow
<1>6. TypeOK'
  BY <1>4 DEF LockInv, TypeOK, Connect, rows, mail, locks
<1>7. Respects(t)
  BY <1>4 DEF LockInv, Respects, Connect, rows, mail, locks
<1>8. SlotOK(t)'
  BY <1>1, <1>4, <1>5
  DEF SlotOK, KindOK, LocksOwnRow, ClaimOK, HandleOK, CommitOK, LetterOK, MarkOK, Connect, locks
<1> QED
  BY <1>6, <1>7, <1>8 DEF StepOK

LEMMA ClaimStepOK ==
  ASSUME LockInv, NEW t \in Slots, Claim(t)
  PROVE  StepOK(t)
<1>1. Move(t, "lock", FALSE, "absent", 0) /\ tx[t].step = "claim"
  BY DEF Claim, Pass, At
<1>2. "lock" \in Steps /\ "absent" \in Statuses /\ 0 \in 0 .. MaxAttempts
  BY DEF Steps, Statuses
<1>3. /\ tx' \in [Slots -> Tx \cup {Closed}]
      /\ tx'[t].step = "lock" /\ tx'[t].ev = tx[t].ev
      /\ \A u \in Slots \ {t} : tx'[u] = tx[u]
  BY <1>1, <1>2, Moved DEF LockInv
<1>4. tx[t].ev \in Events
  BY <1>1, OpenTx DEF LockInv
<1>5. \A f \in Events : rowLock[f] # t
  BY <1>1 DEF LockInv, SlotOK, LocksOwnRow
<1>6. t \in OrderSlots
  BY <1>1, Kinds DEF LockInv, SlotOK, KindOK
<1>7. TypeOK'
  BY <1>3, <1>4 DEF LockInv, TypeOK, Claim, HoldsRow, rows, mail
<1>8. Respects(t)
  BY <1>3, <1>4 DEF LockInv, TypeOK, Respects, Claim, HoldsRow, rows, mail
<1>9. LocksOwnRow(t)' /\ ClaimOK(t)'
  BY <1>3, <1>4, <1>5 DEF LockInv, TypeOK, LocksOwnRow, ClaimOK, Claim, HoldsRow, rows, mail
<1> QED
  BY <1>3, <1>6, <1>7, <1>8, <1>9 DEF StepOK, SlotOK, HandleOK, CommitOK, LetterOK, MarkOK, KindOK

LEMMA LockDecidedOK ==
  ASSUME LockInv, NEW t \in Slots, LockDecided(t)
  PROVE  StepOK(t)
<1>1. Move(t, "commit", FALSE, "absent", 0) /\ tx[t].step = "lock"
  BY DEF LockDecided, Pass, At
<1>2. "commit" \in Steps /\ "absent" \in Statuses /\ 0 \in 0 .. MaxAttempts
  BY DEF Steps, Statuses
<1>3. /\ tx' \in [Slots -> Tx \cup {Closed}]
      /\ tx'[t].step = "commit" /\ tx'[t].ev = tx[t].ev /\ tx'[t].writes = FALSE
      /\ \A u \in Slots \ {t} : tx'[u] = tx[u]
  BY <1>1, <1>2, Moved DEF LockInv
<1>4. tx[t].ev \in Events
  BY <1>1, OpenTx DEF LockInv
<1>5. t \in OrderSlots /\ t \notin ApiSlots
  BY <1>1, Kinds DEF LockInv, SlotOK, KindOK
<1>6. TypeOK'
  BY <1>3, <1>4 DEF LockInv, TypeOK, LockDecided, HoldsRow, rows, mail
<1>7. Respects(t)
  BY <1>3, <1>4 DEF LockInv, TypeOK, Respects, LockDecided, Lockable, HoldsRow, rows, mail
<1>8. LocksOwnRow(t)'
  BY <1>1, <1>3, <1>4 DEF LockInv, TypeOK, SlotOK, LocksOwnRow, LockDecided, HoldsRow
<1> QED
  BY <1>3, <1>5, <1>6, <1>7, <1>8
  DEF StepOK, SlotOK, ClaimOK, HandleOK, CommitOK, LetterOK, MarkOK, KindOK

LEMMA LockAttemptOK ==
  ASSUME LockInv, NEW t \in Slots, LockAttempt(t)
  PROVE  StepOK(t)
<1>1. /\ Move(t, "handle", TRUE, "processing", attempts[tx[t].ev] + 1)
      /\ tx[t].step = "lock"
  BY DEF LockAttempt, At
<1>2. tx[t].ev \in Events
  BY <1>1, OpenTx DEF LockInv
<1>3. status[tx[t].ev] \in {"absent", "received", "processing"}
  BY <1>1 DEF LockInv, SlotOK, ClaimOK, LockAttempt, Claimed
<1>4. attempts[tx[t].ev] + 1 \in 0 .. MaxAttempts
  BY <1>2, <1>3 DEF LockInv, TypeOK, BudgetOK
<1>5. PICK n \in 0 .. MaxAttempts :
         n = attempts[tx[t].ev] + 1 /\ Move(t, "handle", TRUE, "processing", n)
  BY <1>1, <1>4
<1>6. TypeOK /\ tx[t].step # "closed"
  BY <1>1 DEF LockInv
<1>7. /\ tx' \in [Slots -> Tx \cup {Closed}]
      /\ tx'[t].step = "handle" /\ tx'[t].ev = tx[t].ev
      /\ tx'[t].tries = n
      /\ \A u \in Slots \ {t} : tx'[u] = tx[u]
  BY <1>5, <1>6, ToHandle
<1>8. t \in OrderSlots /\ t \notin ApiSlots
  BY <1>1, Kinds DEF LockInv, SlotOK, KindOK
<1>9. TypeOK'
  BY <1>2, <1>7 DEF LockInv, TypeOK, LockAttempt, HoldsRow, rows, mail
<1>10. Respects(t)
  BY <1>2, <1>7 DEF LockInv, TypeOK, Respects, LockAttempt, Lockable, HoldsRow, rows, mail
<1>11. rowLock'[tx[t].ev] = t /\ UNCHANGED <<status, attempts>>
  BY <1>2 DEF LockInv, TypeOK, LockAttempt, HoldsRow, rows, mail
<1>12. LocksOwnRow(t)'
  BY <1>2, <1>7 DEF LockInv, TypeOK, SlotOK, LocksOwnRow, LockAttempt, HoldsRow
<1>13. HandleOK(t)'
  BY <1>3, <1>5, <1>7, <1>11 DEF HandleOK
<1> QED
  BY <1>7, <1>8, <1>9, <1>10, <1>12, <1>13
  DEF StepOK, SlotOK, ClaimOK, CommitOK, LetterOK, MarkOK, KindOK

LEMMA HandleStepOK ==
  ASSUME LockInv, NEW t \in Slots, Handle(t)
  PROVE  StepOK(t)
<1>1. PICK s \in {"processed", "failed", "processing"} :
        /\ s = "processing" => tx[t].tries < MaxAttempts
        /\ Move(t, "commit", TRUE, s, tx[t].tries)
  BY DEF Handle
<1>2. tx[t].step = "handle" /\ HandleOK(t) /\ UNCHANGED <<rows, mail, locks>>
  BY DEF Handle, At, LockInv, SlotOK
<1>3. tx[t].ev \in Events /\ tx[t].tries \in 0 .. MaxAttempts
  BY <1>2, OpenTx DEF LockInv
<1>4. "commit" \in Steps /\ s \in Statuses
  BY <1>1 DEF Steps, Statuses
<1>5. TypeOK /\ tx[t].step # "closed"
  BY <1>2 DEF LockInv
<1>6. /\ tx' \in [Slots -> Tx \cup {Closed}]
      /\ tx'[t].step = "commit" /\ tx'[t].ev = tx[t].ev
      /\ tx'[t].out = s /\ tx'[t].tries = tx[t].tries
      /\ \A u \in Slots \ {t} : tx'[u] = tx[u]
  BY <1>1, <1>3, <1>4, <1>5, ToCommit
<1>7. t \in OrderSlots /\ t \notin ApiSlots
  BY <1>2, Kinds DEF LockInv, SlotOK, KindOK
<1>8. TypeOK'
  BY <1>2, <1>6 DEF LockInv, TypeOK, rows, mail, locks
<1>9. Respects(t)
  BY <1>2, <1>6 DEF LockInv, Respects, rows, mail, locks
<1>10. LocksOwnRow(t)'
  BY <1>2, <1>6 DEF LockInv, SlotOK, LocksOwnRow, locks
<1>11. LawfulAttempt(t)' /\ rowLock'[tx'[t].ev] = t
  BY <1>1, <1>2, <1>6, <1>7 DEF LawfulAttempt, HandleOK, rows, mail, locks
<1> QED
  BY <1>6, <1>7, <1>8, <1>9, <1>10, <1>11
  DEF StepOK, SlotOK, ClaimOK, HandleOK, CommitOK, LetterOK, MarkOK, KindOK

LEMMA RecordOK ==
  ASSUME LockInv, NEW t \in Slots, Record(t)
  PROVE  StepOK(t)
<1>1. Move(t, "mark", FALSE, "absent", 0) /\ tx[t].step = "record"
  BY DEF Record, Pass, At
<1>2. "mark" \in Steps /\ "absent" \in Statuses /\ 0 \in 0 .. MaxAttempts
  BY DEF Steps, Statuses
<1>3. /\ tx' \in [Slots -> Tx \cup {Closed}]
      /\ tx'[t].step = "mark" /\ tx'[t].ev = tx[t].ev
      /\ \A u \in Slots \ {t} : tx'[u] = tx[u]
  BY <1>1, <1>2, Moved DEF LockInv
<1>4. tx[t].ev \in Events
  BY <1>1, OpenTx DEF LockInv
<1>5. t \in DlqSlots
  BY <1>1, Kinds DEF LockInv, SlotOK, KindOK
<1>6. TypeOK'
  BY <1>3, <1>4 DEF LockInv, TypeOK, Record, HoldsLetter, rows, mail
<1>7. Respects(t)
  BY <1>3, <1>4 DEF LockInv, TypeOK, Respects, Record, HoldsLetter, rows, mail
<1>8. LocksOwnRow(t)'
  BY <1>1, <1>3 DEF LockInv, SlotOK, LocksOwnRow, Record
<1>9. MarkOK(t)'
  BY <1>3, <1>4 DEF LockInv, TypeOK, MarkOK, Record, HoldsLetter, mail
<1> QED
  BY <1>3, <1>5, <1>6, <1>7, <1>8, <1>9, Kinds
  DEF StepOK, SlotOK, ClaimOK, HandleOK, CommitOK, LetterOK, KindOK

LEMMA MarkStepOK ==
  ASSUME LockInv, NEW t \in Slots, Mark(t)
  PROVE  StepOK(t)
<1>1. tx[t].step = "mark" /\ UNCHANGED <<rows, mail, letterLock>>
  BY DEF Mark, At
<1>2. tx[t].ev \in Events /\ attempts[tx[t].ev] \in 0 .. MaxAttempts
  BY <1>1, OpenTx DEF LockInv, TypeOK
<1>3. t \in DlqSlots /\ t \notin ApiSlots
  BY <1>1, Kinds DEF LockInv, SlotOK, KindOK
<1>4. \A f \in Events : rowLock[f] # t
  BY <1>1 DEF LockInv, SlotOK, LocksOwnRow
<1>5. "commit" \in Steps /\ "absent" \in Statuses /\ "dead" \in Statuses /\ 0 \in 0 .. MaxAttempts
  BY DEF Steps, Statuses
<1>6. letterLock'[tx[t].ev] = t \/ tx[t].ev \in letters' \cup discarded'
  BY <1>1, <1>3 DEF LockInv, SlotOK, MarkOK, mail
<1>7. CASE Pass(t, "commit") /\ UNCHANGED rowLock
  <2>1. /\ tx' \in [Slots -> Tx \cup {Closed}]
        /\ tx'[t].step = "commit" /\ tx'[t].ev = tx[t].ev /\ tx'[t].writes = FALSE
        /\ \A u \in Slots \ {t} : tx'[u] = tx[u]
    BY <1>1, <1>5, <1>7, Moved DEF LockInv, Pass
  <2>2. TypeOK'
    BY <1>1, <1>7, <2>1 DEF LockInv, TypeOK, rows, mail
  <2>3. Respects(t)
    BY <1>1, <1>7, <2>1 DEF LockInv, Respects, rows, mail
  <2>4. LocksOwnRow(t)'
    BY <1>4, <1>7 DEF LocksOwnRow
  <2> QED
    BY <1>3, <1>6, <2>1, <2>2, <2>3, <2>4
    DEF StepOK, SlotOK, ClaimOK, HandleOK, CommitOK, LetterOK, MarkOK, KindOK
<1>8. CASE /\ status[tx[t].ev] # "absent" /\ rowLock[tx[t].ev] = Nobody
           /\ HoldsRow(t)
           /\ Move(t, "commit", TRUE, "dead", attempts[tx[t].ev])
  <2>1. /\ tx' \in [Slots -> Tx \cup {Closed}]
        /\ tx'[t].step = "commit" /\ tx'[t].ev = tx[t].ev
        /\ tx'[t].out = "dead" /\ tx'[t].tries = attempts[tx[t].ev]
        /\ \A u \in Slots \ {t} : tx'[u] = tx[u]
    BY <1>1, <1>2, <1>5, <1>8, ToCommit DEF LockInv
  <2>2. TypeOK'
    BY <1>1, <1>2, <1>8, <2>1 DEF LockInv, TypeOK, HoldsRow, rows, mail
  <2>3. Respects(t)
    BY <1>1, <1>2, <1>8, <2>1 DEF LockInv, TypeOK, Respects, HoldsRow, rows, mail
  <2>4. LocksOwnRow(t)' /\ rowLock'[tx[t].ev] = t
    BY <1>2, <1>4, <1>8, <2>1 DEF LockInv, TypeOK, LocksOwnRow, HoldsRow
  <2>5. LawfulBurial(t)'
    BY <1>1, <1>3, <1>8, <2>1 DEF LawfulBurial, rows, mail
  <2> QED
    BY <1>3, <1>6, <2>1, <2>2, <2>3, <2>4, <2>5
    DEF StepOK, SlotOK, ClaimOK, HandleOK, CommitOK, LetterOK, MarkOK, KindOK
<1> QED
  BY <1>7, <1>8 DEF Mark

LEMMA FindLetterOK ==
  ASSUME LockInv, NEW t \in Slots, FindLetter(t)
  PROVE  StepOK(t)
<1>1. Move(t, "reset", FALSE, "absent", 0) /\ tx[t].step = "find"
  BY DEF FindLetter, Pass, At
<1>2. "reset" \in Steps /\ "absent" \in Statuses /\ 0 \in 0 .. MaxAttempts
  BY DEF Steps, Statuses
<1>3. /\ tx' \in [Slots -> Tx \cup {Closed}]
      /\ tx'[t].step = "reset" /\ tx'[t].ev = tx[t].ev
      /\ \A u \in Slots \ {t} : tx'[u] = tx[u]
  BY <1>1, <1>2, Moved DEF LockInv
<1>4. tx[t].ev \in Events
  BY <1>1, OpenTx DEF LockInv
<1>5. t \in ApiSlots
  BY <1>1, Kinds DEF LockInv, SlotOK, KindOK
<1>6. TypeOK'
  BY <1>3, <1>4 DEF LockInv, TypeOK, FindLetter, HoldsLetter, rows, mail
<1>7. Respects(t)
  BY <1>3, <1>4 DEF LockInv, TypeOK, Respects, FindLetter, HoldsLetter, rows, mail
<1>8. LocksOwnRow(t)'
  BY <1>1, <1>3 DEF LockInv, SlotOK, LocksOwnRow, FindLetter
<1>9. LetterOK(t)'
  BY <1>3, <1>4 DEF LockInv, TypeOK, LetterOK, FindLetter, HoldsLetter, mail
<1> QED
  BY <1>3, <1>5, <1>6, <1>7, <1>8, <1>9, Kinds
  DEF StepOK, SlotOK, ClaimOK, HandleOK, CommitOK, MarkOK, KindOK

LEMMA ResetRowOK ==
  ASSUME LockInv, NEW t \in Slots, ResetRow(t)
  PROVE  StepOK(t)
<1>1. tx[t].step = "reset" /\ UNCHANGED <<rows, mail, letterLock>>
  BY DEF ResetRow, At
<1>2. tx[t].ev \in Events
  BY <1>1, OpenTx DEF LockInv
<1>3. t \in ApiSlots
  BY <1>1, Kinds DEF LockInv, SlotOK, KindOK
<1>4. \A f \in Events : rowLock[f] # t
  BY <1>1 DEF LockInv, SlotOK, LocksOwnRow
<1>5. letterLock[tx[t].ev] = t /\ tx[t].ev \in letters
  BY <1>1, <1>3 DEF LockInv, SlotOK, LetterOK
<1>6. /\ "commit" \in Steps /\ "absent" \in Statuses /\ "received" \in Statuses
      /\ 0 \in 0 .. MaxAttempts
  BY DEF Steps, Statuses
<1>7. CASE Pass(t, "commit") /\ UNCHANGED rowLock
  <2>1. /\ tx' \in [Slots -> Tx \cup {Closed}]
        /\ tx'[t].step = "commit" /\ tx'[t].ev = tx[t].ev /\ tx'[t].writes = FALSE
        /\ \A u \in Slots \ {t} : tx'[u] = tx[u]
    BY <1>1, <1>6, <1>7, Moved DEF LockInv, Pass
  <2>2. TypeOK'
    BY <1>1, <1>7, <2>1 DEF LockInv, TypeOK, rows, mail
  <2>3. Respects(t)
    BY <1>1, <1>7, <2>1 DEF LockInv, Respects, rows, mail
  <2>4. LocksOwnRow(t)' /\ LetterOK(t)'
    BY <1>1, <1>4, <1>5, <1>7, <2>1 DEF LocksOwnRow, LetterOK, mail
  <2> QED
    BY <1>3, <2>1, <2>2, <2>3, <2>4, Kinds
    DEF StepOK, SlotOK, ClaimOK, HandleOK, CommitOK, MarkOK, KindOK
<1>8. CASE /\ status[tx[t].ev] \in Replayable /\ rowLock[tx[t].ev] = Nobody
           /\ HoldsRow(t)
           /\ Move(t, "commit", TRUE, "received", 0)
  <2>1. /\ tx' \in [Slots -> Tx \cup {Closed}]
        /\ tx'[t].step = "commit" /\ tx'[t].ev = tx[t].ev
        /\ tx'[t].out = "received" /\ tx'[t].tries = 0
        /\ \A u \in Slots \ {t} : tx'[u] = tx[u]
    BY <1>1, <1>6, <1>8, ToCommit DEF LockInv
  <2>2. TypeOK'
    BY <1>1, <1>2, <1>8, <2>1 DEF LockInv, TypeOK, HoldsRow, rows, mail
  <2>3. Respects(t)
    BY <1>1, <1>2, <1>8, <2>1 DEF LockInv, TypeOK, Respects, HoldsRow, rows, mail
  <2>4. LocksOwnRow(t)' /\ rowLock'[tx[t].ev] = t
    BY <1>2, <1>4, <1>8, <2>1 DEF LockInv, TypeOK, LocksOwnRow, HoldsRow
  <2>5. LawfulReset(t)'
    BY <1>1, <1>3, <1>8, <2>1 DEF LawfulReset, rows, mail
  <2> QED
    BY <1>1, <1>3, <1>5, <2>1, <2>2, <2>3, <2>4, <2>5, Kinds
    DEF mail, StepOK, SlotOK, ClaimOK, HandleOK, CommitOK, LetterOK, MarkOK, KindOK
<1> QED
  BY <1>7, <1>8 DEF ResetRow

\* A transaction that ends without a write leaves the rows and the letters.
LEMMA RollbackOK ==
  ASSUME LockInv, NEW t \in Slots, Refuse(t) \/ Abort(t)
  PROVE  StepOK(t)
<1>1. End(t) /\ UNCHANGED <<rows, mail>>
  BY DEF Refuse, Abort
<1>2. TypeOK'
  BY <1>1, Ended DEF LockInv, TypeOK, rows, mail
<1>3. Respects(t)
  BY <1>1, Ended DEF LockInv, Respects, rows, mail
<1>4. tx'[t].step = "closed" /\ \A e \in Events : rowLock'[e] # t
  BY <1>1, Ended, Kinds DEF LockInv
<1> QED
  BY <1>2, <1>3, <1>4
  DEF StepOK, SlotOK, KindOK, LocksOwnRow, ClaimOK, HandleOK, CommitOK, LetterOK, MarkOK

\* A commit writes the row it has locked, as the lawful step it decided on.
LEMMA CommitStepOK ==
  ASSUME LockInv, NEW t \in Slots, Commit(t)
  PROVE  StepOK(t)
<1>1. tx[t].step = "commit" /\ End(t) /\ CommitOK(t)
  BY DEF Commit, At, LockInv, SlotOK
<1>2. /\ tx[t].ev \in Events
      /\ tx[t].out \in Statuses /\ tx[t].tries \in 0 .. MaxAttempts
  BY <1>1, OpenTx DEF LockInv
<1>3. status' \in [Events -> Statuses] /\ attempts' \in [Events -> 0 .. MaxAttempts]
  BY <1>2 DEF LockInv, TypeOK, Commit, rows, mail
<1>4. /\ letters' \subseteq Events /\ discarded' \subseteq Events
      /\ letters \subseteq letters' /\ letters \cup discarded \subseteq letters' \cup discarded'
      /\ letters' \cap discarded' = {}
  BY <1>2 DEF LockInv, TypeOK, Commit, mail
<1>5. TypeOK'
  BY <1>1, <1>3, <1>4, Ended DEF LockInv, TypeOK
<1>6. /\ tx'[t].step = "closed"
      /\ \A u \in Slots \ {t} : tx'[u] = tx[u]
      /\ \A e \in Events : rowLock'[e] = IF rowLock[e] = t THEN Nobody ELSE rowLock[e]
      /\ \A e \in Events :
           letterLock'[e] = IF letterLock[e] = t THEN Nobody ELSE letterLock[e]
  BY <1>1, Ended DEF LockInv
<1>7. ASSUME NEW e \in Events
      PROVE  /\ rowLock[e] # t => status'[e] = status[e] /\ attempts'[e] = attempts[e]
             /\ status[e] # "absent" => status'[e] # "absent"
  <2>1. tx[t].writes => tx[t].out # "absent" /\ rowLock[tx[t].ev] = t
    BY <1>1 DEF CommitOK, LawfulAttempt, LawfulBurial, LawfulReset
  <2> QED
    BY <1>2, <2>1 DEF LockInv, TypeOK, Commit, rows, mail
<1>8. Respects(t)
  BY <1>4, <1>6, <1>7 DEF Respects
<1>9. \A e \in Events : rowLock'[e] # t
  BY <1>6, Kinds
<1> QED
  BY <1>5, <1>6, <1>8, <1>9
  DEF StepOK, SlotOK, KindOK, LocksOwnRow, ClaimOK, HandleOK, CommitOK, LetterOK, MarkOK

-----------------------------------------------------------------------------
(* The invariant, and what follows from it.                                 *)

LEMMA ProceedOK ==
  ASSUME LockInv, NEW t \in Slots, Proceed(t)
  PROVE  StepOK(t)
  BY ConnectOK, ClaimStepOK, LockDecidedOK, LockAttemptOK, HandleStepOK, RecordOK, MarkStepOK,
     FindLetterOK, ResetRowOK, RollbackOK, CommitStepOK DEF Proceed

\* What is missed changes only with the slot that steps.
LEMMA MissedOthers ==
  ASSUME LockInv, NEW t \in Slots, StepOK(t), NEW u \in Slots \ {t}
  PROVE  /\ MarkMissed(u) <=> MarkMissed(u)'
         /\ MarkMissed(u) => tx'[u].ev = tx[u].ev
<1>1. tx'[u] = tx[u] /\ u # Nobody
  BY Kinds DEF StepOK, Respects
<1>2. tx[u].step = "commit" => tx[u].ev \in Events
  BY OpenTx DEF LockInv
<1>3. tx[u].step = "commit" => (letterLock[tx[u].ev] = u <=> letterLock'[tx[u].ev] = u)
  BY <1>1, <1>2 DEF StepOK, Respects
<1> QED
  BY <1>1, <1>3 DEF MarkMissed, At

Missing(t) == t \in DlqSlots /\ MarkMissed(t)

LEMMA MissedStep ==
  ASSUME LockInv, NEW t \in Slots, StepOK(t)
  PROVE  /\ ~Missing(t) /\ ~Missing(t)' => missed' = missed
         /\ ~Missing(t) /\ Missing(t)' => missed' = missed \cup {tx'[t].ev}
         /\ Missing(t) /\ ~Missing(t)' => missed' = missed \ {tx[t].ev}
<1>1. missed = {tx[u].ev : u \in {v \in Slots : Missing(v)}}
  BY Kinds DEF missed, Missing
<1>2. missed' = {tx'[u].ev : u \in {v \in Slots : Missing(v)'}}
  BY Kinds DEF missed, Missing
<1>3. \A u \in Slots \ {t} : (Missing(u) <=> Missing(u)') /\ (Missing(u) => tx'[u].ev = tx[u].ev)
  BY MissedOthers DEF Missing
<1>4. ASSUME Missing(t), NEW u \in Slots \ {t}, Missing(u) PROVE tx[u].ev # tx[t].ev
  BY <1>4 DEF Missing, MarkMissed
<1> HIDE DEF Missing
<1>5. CASE ~Missing(t) /\ ~Missing(t)'
  BY <1>1, <1>2, <1>3, <1>5
<1>6. CASE ~Missing(t) /\ Missing(t)'
  BY <1>1, <1>2, <1>3, <1>6
<1>7. CASE Missing(t) /\ ~Missing(t)'
  BY <1>1, <1>2, <1>3, <1>4, <1>7
<1> QED
  BY <1>5, <1>6, <1>7

\* A commit writes nothing, or takes one step of EventRow.
LEMMA CommitIsRow ==
  ASSUME LockInv, NEW t \in Slots, Commit(t)
  PROVE  Row!Next \/ UNCHANGED Row!tables
<1> DEFINE e == tx[t].ev
<1>1. /\ tx[t].step = "commit" /\ CommitOK(t) /\ LetterOK(t) /\ MarkOK(t)
      /\ letters \cap discarded = {}
  BY DEF Commit, At, LockInv, SlotOK
<1>2. e \in Events
  BY <1>1, OpenTx DEF LockInv
<1>3. StepOK(t)
  BY CommitStepOK
<1>4. ~Missing(t)'
  BY Ended DEF Commit, LockInv, Missing, MarkMissed, At
<1>5. CASE ~tx[t].writes
  <2>1. UNCHANGED <<status, attempts>>
    BY <1>5 DEF Commit, rows
  <2>2. CASE Missing(t)
    <3>1. missed' = missed \ {e} /\ e \in missed
      BY <1>3, <1>4, <2>2, MissedStep DEF missed, Missing
    <3>2. Row!Recorded(e)
      BY <2>2 DEF Commit, Missing, MarkMissed, Row!Recorded
    <3>3. Row!Record(e)
      BY <2>1, <3>1, <3>2 DEF Row!Record
    <3> QED
      BY <1>2, <3>3 DEF Row!Next
  <2>3. CASE ~Missing(t)
    <3>1. missed' = missed
      BY <1>3, <1>4, <2>3, MissedStep
    <3>2. UNCHANGED mail
      BY <1>1, <1>5, <2>3 DEF Commit, Missing, MarkMissed, At
    <3> QED
      BY <2>1, <3>1, <3>2 DEF mail, Row!tables
  <2> QED
    BY <2>2, <2>3
<1>6. CASE tx[t].writes
  <2>1. Row!Write(e, tx[t].out, tx[t].tries)
    BY <1>6 DEF Commit, Row!Write
  <2>2. UNCHANGED missed
    BY <1>3, <1>4, <1>6, MissedStep DEF Missing, MarkMissed
  <2>3. t \notin DlqSlots => UNCHANGED <<letters, discarded>>
    BY DEF Commit, mail
  <2>4. CASE LawfulAttempt(t)
    <3>1. UNCHANGED <<letters, discarded>>
      BY <2>3, <2>4, Kinds DEF LawfulAttempt
    <3>2. Row!Attempt(e)
      BY <2>1, <2>2, <2>4, <3>1 DEF LawfulAttempt, Row!Attempt, Row!Open
    <3> QED
      BY <1>2, <3>2 DEF Row!Next
  <2>5. CASE LawfulBurial(t)
    <3>1. \/ Row!Recorded(e)
          \/ e \in letters \cup discarded /\ UNCHANGED <<letters, discarded>>
      BY <1>1, <2>5 DEF LawfulBurial, MarkOK, Commit, mail, Row!Recorded
    <3>2. \/ Row!Recorded(e)
          \/ e \in discarded /\ UNCHANGED <<letters, discarded>>
      BY <1>1, <3>1 DEF Row!Recorded
    <3>3. Row!Bury(e)
      BY <2>1, <2>2, <2>5, <3>2 DEF LawfulBurial, Row!Bury
    <3> QED
      BY <1>2, <3>3 DEF Row!Next
  <2>6. CASE LawfulReset(t)
    <3>1. t \in ApiSlots /\ UNCHANGED <<letters, discarded>>
      BY <2>3, <2>6, Kinds DEF LawfulReset
    <3>2. e \in letters
      BY <1>1, <3>1 DEF LetterOK
    <3>3. Row!Reset(e)
      BY <2>1, <2>2, <2>6, <3>1, <3>2 DEF LawfulReset, Replayable, Row!Reset, Row!Replayable
    <3> QED
      BY <1>2, <3>3 DEF Row!Next
  <2> QED
    BY <1>1, <1>6, <2>4, <2>5, <2>6 DEF CommitOK
<1> QED
  BY <1>5, <1>6

\* A mark that finds no row is a miss, if its own transaction records the letter.
LEMMA MarkIsRow ==
  ASSUME LockInv, NEW t \in Slots, Mark(t)
  PROVE  Row!Next \/ UNCHANGED Row!tables
<1>1. /\ tx[t].step = "mark" /\ ~Missing(t) /\ StepOK(t)
      /\ UNCHANGED <<status, attempts, letters, discarded>>
  BY MarkStepOK DEF Mark, At, Missing, MarkMissed, rows, mail
<1>2. tx[t].ev \in Events /\ tx[t].step # "closed"
  BY <1>1, OpenTx DEF LockInv
<1>3. CASE ~Missing(t)'
  BY <1>1, <1>3, MissedStep DEF Row!tables
<1>4. CASE Missing(t)' /\ status[tx[t].ev] = "absent" /\ Pass(t, "commit")
  <2>1. tx'[t].ev = tx[t].ev
    BY <1>2, <1>4 DEF LockInv, TypeOK, Pass, Move
  <2>2. Row!Miss(tx[t].ev)
    BY <1>1, <1>4, <2>1, MissedStep DEF Row!Miss
  <2> QED
    BY <1>2, <2>2 DEF Row!Next
<1>5. CASE Move(t, "commit", TRUE, "dead", attempts[tx[t].ev])
  <2>1. tx'[t].writes = TRUE
    BY <1>5 DEF LockInv, TypeOK, Move
  <2>2. ~Missing(t)'
    BY <2>1 DEF Missing, MarkMissed
  <2> QED
    BY <1>3, <2>2
<1> QED
  BY <1>3, <1>4, <1>5 DEF Mark

\* A letter that is not committed is given up.
LEMMA EndIsRow ==
  ASSUME LockInv, NEW t \in Slots, Refuse(t) \/ Abort(t)
  PROVE  Row!Next \/ UNCHANGED Row!tables
<1>1. StepOK(t) /\ End(t) /\ UNCHANGED <<status, attempts, letters, discarded>>
  BY RollbackOK DEF Refuse, Abort, rows, mail
<1>2. ~Missing(t)'
  BY <1>1, Ended DEF LockInv, Missing, MarkMissed, At
<1>3. CASE ~Missing(t)
  BY <1>1, <1>2, <1>3, MissedStep DEF Row!tables
<1>4. CASE Missing(t)
  <2>1. tx[t].ev \in Events /\ tx[t].ev \in missed
    BY <1>4, OpenTx DEF LockInv, Missing, MarkMissed, At, missed
  <2>2. Row!GiveUp(tx[t].ev)
    BY <1>1, <1>2, <1>4, <2>1, MissedStep DEF Row!GiveUp
  <2> QED
    BY <2>1, <2>2 DEF Row!Next
<1> QED
  BY <1>3, <1>4

\* The other statements leave the tables and the misses alone.
LEMMA QuietRow ==
  ASSUME LockInv, NEW t \in Slots,
         \/ Connect(t) \/ Claim(t) \/ LockDecided(t) \/ LockAttempt(t) \/ Handle(t)
         \/ Record(t) \/ FindLetter(t) \/ ResetRow(t)
  PROVE  UNCHANGED Row!tables
<1>1. StepOK(t)
  BY ConnectOK, ClaimStepOK, LockDecidedOK, LockAttemptOK, HandleStepOK, RecordOK,
     FindLetterOK, ResetRowOK
<1>2. /\ tx[t].step \notin {"closed", "commit"}
      /\ UNCHANGED <<status, attempts, letters, discarded>>
  BY DEF Connect, Claim, LockDecided, LockAttempt, Handle, Record, FindLetter, ResetRow, At,
     rows, mail
<1>3. ~Missing(t)
  BY <1>2 DEF Missing, MarkMissed, At
<1>4. CASE t \in DlqSlots
  <2>1. tx[t].step \notin {"claim", "lock", "handle", "find", "reset"}
    BY <1>4, Kinds DEF LockInv, SlotOK, KindOK
  <2>2. Connect(t) \/ Record(t)
    BY <2>1 DEF Claim, LockDecided, LockAttempt, Handle, FindLetter, ResetRow, At
  <2>3. FirstStatement(t) = "record"
    <3>1. t \notin OrderSlots /\ t \notin ApiSlots
      BY <1>4, Kinds
    <3> QED
      BY <1>4, <3>1 DEF FirstStatement
  <2>4. Pass(t, "record") \/ Pass(t, "mark")
    BY <2>2, <2>3 DEF Connect, Record
  <2>5. tx'[t].step \in {"record", "mark"}
    BY <2>4 DEF LockInv, TypeOK, Pass, Move
  <2> QED
    BY <1>1, <1>2, <1>3, <2>5, MissedStep DEF Missing, MarkMissed, At, Row!tables
<1>5. CASE t \notin DlqSlots
  BY <1>1, <1>2, <1>3, <1>5, MissedStep DEF Missing, Row!tables
<1> QED
  BY <1>4, <1>5

\* Every step is one of the row or leaves it alone.
LEMMA RowStep ==
  ASSUME LockInv, [Next]_vars
  PROVE  [Row!Next]_(Row!tables)
<1> SUFFICES Row!Next \/ UNCHANGED Row!tables
  OBVIOUS
<1>1. ASSUME NEW t \in Slots, Proceed(t) \/ Abort(t)
      PROVE  Row!Next \/ UNCHANGED Row!tables
  BY <1>1, CommitIsRow, MarkIsRow, EndIsRow, QuietRow DEF Proceed
<1>2. ASSUME NEW e \in Events, Discard(e) PROVE Row!Next
  BY <1>2 DEF Discard, rows, locks, missed, MarkMissed, At, Row!Discard, Row!Next
<1>3. ASSUME NEW t \in Slots, NEW e \in Events, NEW cont \in BOOLEAN, Begin(t, e, cont)
      PROVE  UNCHANGED Row!tables
  <2>1. tx[t].step = "closed" /\ UNCHANGED <<status, attempts, letters, discarded>>
    BY <1>3 DEF Begin, At, rows, mail
  <2>2. tx'[t].step = "waiting"
    BY <1>3 DEF LockInv, TypeOK, Begin
  <2> QED
    BY <1>3, <2>1, <2>2, BeginOK, MissedStep DEF Missing, MarkMissed, At, Row!tables
<1>4. CASE UNCHANGED vars
  BY <1>4 DEF vars, Row!tables, rows, mail, locks, missed, MarkMissed, At
<1> QED
  BY <1>1, <1>2, <1>3, <1>4 DEF Next

LEMMA BudgetStep ==
  ASSUME LockInv, [Next]_vars
  PROVE  BudgetOK'
<1> USE DEF LockInv, TypeOK, BudgetOK
<1>1. CASE UNCHANGED <<status, attempts>>
  BY <1>1
<1>2. ASSUME NEW e \in Events, Row!Attempt(e) PROVE BudgetOK'
  BY <1>2 DEF Row!Attempt, Row!Open, Row!Write
<1>3. ASSUME NEW e \in Events, Row!Bury(e) PROVE BudgetOK'
  BY <1>3 DEF Row!Bury, Row!Write
<1>4. ASSUME NEW e \in Events, Row!Reset(e) PROVE BudgetOK'
  BY <1>4 DEF Row!Reset, Row!Write
<1>5. ASSUME NEW e \in Events, 
             Row!Miss(e) \/ Row!Record(e) \/ Row!GiveUp(e) \/ Row!Discard(e)
      PROVE  BudgetOK'
  BY <1>1, <1>5 DEF Row!Miss, Row!Record, Row!GiveUp, Row!Discard
<1>6. UNCHANGED Row!tables => UNCHANGED <<status, attempts>>
  BY DEF Row!tables
<1> QED
  BY RowStep, <1>1, <1>2, <1>3, <1>4, <1>5, <1>6 DEF Row!Next

LEMMA LockInvInit == Init => LockInv
  BY Kinds DEF Init, LockInv, TypeOK, BudgetOK, SlotOK, KindOK, LocksOwnRow, ClaimOK,
     HandleOK, CommitOK, LetterOK, MarkOK, Closed, Statuses

LEMMA LockInvNext == LockInv /\ [Next]_vars => LockInv'
<1> SUFFICES ASSUME LockInv, [Next]_vars 
             PROVE  TypeOK' /\ (letters \cap discarded = {})' /\ \A t \in Slots : SlotOK(t)'
  BY BudgetStep DEF LockInv
<1>1. ASSUME NEW t \in Slots, StepOK(t)
      PROVE  TypeOK' /\ (letters \cap discarded = {})' /\ \A u \in Slots : SlotOK(u)'
  BY <1>1, OthersOK DEF StepOK, Respects
<1>2. ASSUME NEW e \in Events, Discard(e)
      PROVE  TypeOK' /\ (letters \cap discarded = {})' /\ \A u \in Slots : SlotOK(u)'
  <2>1. \A u \in Slots : LetterOK(u)'
    BY <1>2, Kinds DEF LockInv, SlotOK, LetterOK, Discard, locks
  <2>2. \A u \in Slots : MarkOK(u)'
    BY <1>2 DEF LockInv, SlotOK, MarkOK, Discard, locks
  <2> QED
    BY <1>2, <2>1, <2>2 DEF LockInv, TypeOK, SlotOK, LocksOwnRow, ClaimOK, HandleOK, CommitOK,
       LawfulAttempt, LawfulBurial, LawfulReset, Discard, rows, mail, locks, KindOK
<1>3. CASE UNCHANGED vars
  BY <1>3 DEF LockInv, TypeOK, SlotOK, LocksOwnRow, ClaimOK, HandleOK, CommitOK, LetterOK, MarkOK,
     LawfulAttempt, LawfulBurial, LawfulReset, vars, rows, mail, locks, KindOK
<1> QED
  BY <1>1, <1>2, <1>3, ProceedOK, RollbackOK, BeginOK DEF Next

LEMMA LockInvariance == Spec => []LockInv
  BY LockInvInit, LockInvNext, PTL DEF Spec

\* The tables and the transactions keep their types; attempts stay within the
\* budget however the transactions overlap.
THEOREM TypeCorrect == Spec => []TypeOK
<1>1. LockInv => TypeOK
  BY DEF LockInv
<1> QED
  BY <1>1, LockInvariance, PTL

\* "event row missing after claim" is never thrown.
THEOREM RowAlwaysFound == Spec => []ClaimFindsRow
<1>1. LockInv => ClaimFindsRow
  BY DEF LockInv, SlotOK, ClaimOK, ClaimFindsRow, Slots, WorkerSlots
<1> QED
  BY <1>1, LockInvariance, PTL

\* The handler never runs twice at once for an event, nor on a stale row.
THEOREM HandlersExclude == Spec => []OneHandlerPerEvent
<1>1. LockInv => OneHandlerPerEvent
  BY Kinds DEF LockInv, SlotOK, HandleOK, OneHandlerPerEvent, Slots, WorkerSlots
<1> QED
  BY <1>1, LockInvariance, PTL

\* A replay's dead letter stays until the reset has committed.
THEOREM LetterHeld == Spec => []ResetHasLetter
<1>1. LockInv => ResetHasLetter
  BY DEF LockInv, SlotOK, LetterOK, ResetHasLetter, Slots, WorkerSlots
<1> QED
  BY <1>1, LockInvariance, PTL

\* Statement by statement and under any overlap, the transactions implement the
\* atomic steps of EventRow, which Pipeline takes them to be.
THEOREM RowImplemented == Spec => ImplementsEventRow
<1>1. Init => Row!Init
  BY Kinds DEF Init, Row!Init, missed, MarkMissed, At, Closed
<1>2. LockInv /\ [Next]_vars => [Row!Next]_(Row!tables)
  BY RowStep
<1> QED
  BY <1>1, <1>2, LockInvariance, PTL DEF Spec, ImplementsEventRow, Row!Spec
=============================================================================
