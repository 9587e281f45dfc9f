---------------------------- MODULE VspFee_proofs ----------------------------
(***************************************************************************)
(* Proofs about VspFee, for any number of clients, goroutines and          *)
(* payments and whatever may go wrong: every variable keeps its type, only *)
(* finished fee transactions are sent to the VSP, and no payment at rest   *)
(* keeps a half-built one.  They follow from the inductive invariant IInv, *)
(* which ties the statement a goroutine is at to the payment it works on   *)
(* and to that payment's procMu.                                           *)
(***************************************************************************)
EXTENDS VspFee, TLAPS

Tasks == {"pay", "paid", "reconcile", "confirm"}

\* The statements that run under a payment's procMu, those that have a payment,
\* and those that know what they are to do with it.
LockedPCs == {"quote", "erroredMark", "reconcile", "requote", "tooHighMark",
              "makeTx", "paidMark", "submit", "answered", "expiredMark",
              "rejected", "confirm", "confirmedMark"}
PayPCs  == LockedPCs \cup {"start", "register", "arm", "lock"}
TaskPCs == PayPCs \cup {"lookup", "create"}

\* A goroutine has what its statement needs.
Equipped ==
  \A t \in Threads :
    /\ thread[t].pc # "idle" => thread[t].client \in Clients
    /\ thread[t].pc \in TaskPCs => thread[t].task \in Tasks
    /\ thread[t].pc \in PayPCs => Pay(t) \in Payments
    /\ thread[t].pc = "paidMark" => thread[t].tx \in Txs

\* Payments in use belong to a client.
Owned ==
  /\ \A p \in Payments : timer[p] # "none" => owner[p] \in Clients
  /\ \A c \in Clients : jobs[c] # NoPay => owner[jobs[c]] \in Clients
  /\ \A t \in Threads : thread[t].pc \in PayPCs => owner[Pay(t)] \in Clients

\* A goroutine runs under the procMu of its payment, and under no other.
Locked ==
  /\ \A t \in Threads : thread[t].pc \in LockedPCs => procMu[Pay(t)] = t
  /\ \A p \in Payments : procMu[p] # NoThread =>
       thread[procMu[p]].pc \in LockedPCs /\ Pay(procMu[p]) = p

\* A half-built fee tx exists only while the goroutine that builds it does.
Building ==
  \A p \in Payments : feeTx[p] = Unfinished =>
    procMu[p] # NoThread /\ thread[procMu[p]].pc \in {"makeTx", "paidMark"}

\* What the VSP has is a transaction.
VspHasTx == vsp.status # "none" => vsp.tx \in Txs

IInv == TypeOK /\ Equipped /\ Owned /\ Locked /\ Building /\ SubmitsFinishedTx /\ VspHasTx

USE DEF Pay, At, Wrote, WriteFailed, RecordOf, NoRecord,
        Tasks, TaskPCs, PayPCs, LockedPCs

-----------------------------------------------------------------------------
(* Steps of one goroutine keep the type of thread and of procMu. *)

LEMMA GotoType ==
  ASSUME thread \in [Threads -> ThreadStates], NEW t \in Threads, NEW pc \in PCs, Goto(t, pc)
  PROVE  thread' \in [Threads -> ThreadStates]
BY DEF Goto, ThreadStates

LEMMA MoveType ==
  ASSUME NEW r \in ThreadStates, NEW pc \in PCs, NEW p \in Payments \cup {NoPay}
  PROVE  [r EXCEPT !.pc = pc, !.pay = p] \in ThreadStates
BY DEF ThreadStates

LEMMA IdleType == Idle \in ThreadStates
BY DEF Idle, ThreadStates, PCs

LEMMA ReturnType ==
  ASSUME thread \in [Threads -> ThreadStates],
         procMu \in [Payments -> Threads \cup {NoThread}],
         NEW t \in Threads, Return(t)
  PROVE  /\ thread' \in [Threads -> ThreadStates]
         /\ procMu' \in [Payments -> Threads \cup {NoThread}]
BY IdleType DEF Return

LEMMA GotoWithTxType ==
  ASSUME thread \in [Threads -> ThreadStates], NEW t \in Threads,
         NEW pc \in PCs, NEW tx \in Txs \cup {NoTx},
         thread' = [thread EXCEPT ![t].pc = pc, ![t].tx = tx]
  PROVE  thread' \in [Threads -> ThreadStates]
<1>. DEFINE r == [thread[t] EXCEPT !.pc = pc, !.tx = tx]
<1>1. r \in ThreadStates
  BY DEF ThreadStates
<1>2. thread' = [thread EXCEPT ![t] = r]
  OBVIOUS
<1>. QED
  BY <1>1

LEMMA MakeFailedType ==
  ASSUME thread \in [Threads -> ThreadStates],
         procMu \in [Payments -> Threads \cup {NoThread}],
         NEW t \in Threads, MakeFailed(t)
  PROVE  thread' \in [Threads -> ThreadStates]
<1>1. "erroredMark" \in PCs
  BY DEF PCs
<1>. QED
  BY <1>1, GotoWithTxType, ReturnType DEF MakeFailed, StartOver

-----------------------------------------------------------------------------
(* A goroutine that returns, or stays on one side of its lock, keeps Locked. *)

LEMMA ReturnLocked ==
  ASSUME TypeOK, Equipped, Locked, NEW t \in Threads, Return(t)
  PROVE  Locked'
<1>1. ASSUME NEW u \in Threads, thread'[u].pc \in LockedPCs
      PROVE  procMu'[thread'[u].pay] = u
  <2>1. u # t /\ thread'[u] = thread[u]
    BY <1>1 DEF TypeOK, Return, Idle
  <2>2. Pay(u) \in Payments /\ procMu[Pay(u)] = u
    BY <1>1, <2>1 DEF Equipped, Locked
  <2>. QED
    BY <2>1, <2>2 DEF Return
<1>2. ASSUME NEW p \in Payments, procMu'[p] # NoThread
      PROVE  thread'[procMu'[p]].pc \in LockedPCs /\ thread'[procMu'[p]].pay = p
  <2>1. procMu'[p] = procMu[p] /\ procMu[p] # t /\ procMu[p] \in Threads
    BY <1>2 DEF TypeOK, Return
  <2>2. thread'[procMu[p]] = thread[procMu[p]]
    BY <2>1 DEF TypeOK, Return
  <2>. QED
    BY <1>2, <2>1, <2>2 DEF Locked
<1>. QED
  BY <1>1, <1>2 DEF Locked

LEMMA SameSideLocked ==
  ASSUME TypeOK, Locked, NEW t \in Threads, procMu' = procMu,
         \A u \in Threads \ {t} : thread'[u] = thread[u],
         thread'[t].pc \in LockedPCs <=> thread[t].pc \in LockedPCs,
         thread[t].pc \in LockedPCs => thread'[t].pay = thread[t].pay
  PROVE  Locked'
BY DEF TypeOK, Locked

-----------------------------------------------------------------------------
(* Each action keeps IInv. *)

LEMMA ManagedLookupKeeps ==
  ASSUME IInv, NEW t \in Threads, ManagedLookup(t)
  PROVE  IInv'
<1>. USE DEF ManagedLookup, IInv
<1>1. thread' \in [Threads -> ThreadStates]
  BY GotoType, ReturnType DEF TypeOK, PCs
<1>2. TypeOK'
  BY <1>1, ReturnType, IdleType, ConstantsAssumption DEF wallet, payment, TypeOK
<1>3. Equipped'
  BY <1>1, ConstantsAssumption DEF Goto, Return, Equipped, Building,
     SubmitsFinishedTx, ThreadStates, Idle
<1>4. Owned'
  BY <1>1, ConstantsAssumption DEF payment, Goto, Return, Owned, Building,
     SubmitsFinishedTx, ThreadStates, Idle
<1>5. Locked'
  <2>1. CASE Return(t)
    BY <2>1, ReturnLocked
  <2>2. CASE ~Return(t)
    BY <2>2, SameSideLocked DEF Goto, TypeOK, ThreadStates
  <2>. QED BY <2>1, <2>2
<1>6. Building'
  BY <1>1, ConstantsAssumption DEF payment, Goto, Return, TypeOK, Locked,
     Building, SubmitsFinishedTx, ThreadStates
<1>7. SubmitsFinishedTx'
  BY <1>1, ConstantsAssumption DEF payment, Goto, Return, Idle, Locked,
     Building, SubmitsFinishedTx, ThreadStates
<1>8. VspHasTx'
  BY DEF VspHasTx
<1>. QED
  BY <1>2, <1>3, <1>4, <1>5, <1>6, <1>7, <1>8

LEMMA ManagedStatusKeeps ==
  ASSUME IInv, NEW t \in Threads, ManagedStatus(t)
  PROVE  IInv'
<1>. USE DEF ManagedStatus, IInv
<1>1. thread' \in [Threads -> ThreadStates]
  BY GotoType, ReturnType DEF TypeOK, PCs, ThreadStates
<1>2. TypeOK'
  BY <1>1, ReturnType, IdleType, ConstantsAssumption DEF wallet, payment, TypeOK
<1>3. Equipped'
  BY <1>1, ConstantsAssumption DEF Return, Goto, Equipped, Building,
     SubmitsFinishedTx, ThreadStates, Idle
<1>4. Owned'
  BY <1>1, ConstantsAssumption DEF payment, Return, Goto, Owned, Building,
     SubmitsFinishedTx, ThreadStates, Idle
<1>5. Locked'
  <2>1. CASE Return(t)
    BY <2>1, ReturnLocked
  <2>2. CASE ~Return(t)
    BY <2>2, SameSideLocked DEF Goto, TypeOK, ThreadStates
  <2>. QED BY <2>1, <2>2
<1>6. Building'
  BY <1>1, ConstantsAssumption DEF payment, Return, Goto, TypeOK, Locked,
     Building, SubmitsFinishedTx, ThreadStates
<1>7. SubmitsFinishedTx'
  BY <1>1, ConstantsAssumption DEF payment, Return, Goto, Idle, Locked,
     Building, SubmitsFinishedTx, ThreadStates
<1>8. VspHasTx'
  BY DEF VspHasTx
<1>. QED
  BY <1>2, <1>3, <1>4, <1>5, <1>6, <1>7, <1>8

LEMMA ManagedMarkKeeps ==
  ASSUME IInv, NEW t \in Threads, ManagedMark(t)
  PROVE  IInv'
<1>. USE DEF ManagedMark, IInv
<1>1. thread' \in [Threads -> ThreadStates]
  BY ReturnType DEF TypeOK, PCs, ThreadStates
<1>2. TypeOK'
  <2>1. thread[t].tx \in Txs \cup {NoTx}
    BY DEF TypeOK, ThreadStates
  <2>2. record' \in [status : {"none", "started", "paid", "errored", "confirmed"},
                    hash : Txs \cup {NoTx}]
    BY <2>1 DEF TypeOK
  <2>3. procMu' \in [Payments -> Threads \cup {NoThread}]
    BY ReturnType DEF TypeOK
  <2>. QED BY <1>1, <2>2, <2>3 DEF TypeOK, payment
<1>3. Equipped'
  BY <1>1, ConstantsAssumption, SMTT(20) DEF Return, Equipped,
     SubmitsFinishedTx, ThreadStates, Idle
<1>4. Owned'
  BY <1>1, ConstantsAssumption DEF payment, Return, Owned, ThreadStates, Idle
<1>5. Locked'
  BY <1>1, ConstantsAssumption DEF payment, FeeIsFinal, Return, Idle, TypeOK,
     Equipped, Owned, Locked, Building, SubmitsFinishedTx, ThreadStates
<1>6. Building'
  BY <1>1, ConstantsAssumption DEF payment, Return, TypeOK, Building,
     SubmitsFinishedTx, ThreadStates
<1>7. SubmitsFinishedTx'
  BY <1>1, ConstantsAssumption DEF payment, Return, Idle, Building,
     SubmitsFinishedTx, ThreadStates
<1>8. VspHasTx'
  BY DEF VspHasTx
<1>. QED
  BY <1>2, <1>3, <1>4, <1>5, <1>6, <1>7, <1>8

LEMMA ReadRecordKeeps ==
  ASSUME IInv, NEW t \in Threads, ReadRecord(t)
  PROVE  IInv'
<1>. USE DEF ReadRecord, IInv
<1>1. thread' \in [Threads -> ThreadStates]
  BY ReturnType, IdleType, SMTT(20) DEF TypeOK, Equipped, PCs, ThreadStates
<1>2. TypeOK'
  BY <1>1, ReturnType, IdleType, ConstantsAssumption DEF wallet, payment, TypeOK
<1>3. Equipped'
  BY <1>1, ConstantsAssumption, SMTT(20) DEF wallet, Return, Equipped,
     Building, SubmitsFinishedTx, ThreadStates, Idle
<1>4. Owned'
  BY <1>1, ConstantsAssumption DEF payment, Return, Owned, SubmitsFinishedTx,
     ThreadStates, Idle
<1>5. Locked'
  <2>1. CASE Return(t)
    BY <2>1, ReturnLocked
  <2>2. CASE ~Return(t)
    BY <2>2, SameSideLocked DEF Goto, TypeOK, ThreadStates
  <2>. QED BY <2>1, <2>2
<1>6. Building'
  BY <1>1, ConstantsAssumption DEF payment, Return, TypeOK, Building,
     SubmitsFinishedTx, ThreadStates
<1>7. SubmitsFinishedTx'
  BY <1>1, ConstantsAssumption DEF wallet, payment, Return, Idle, Building,
     SubmitsFinishedTx, ThreadStates
<1>8. VspHasTx'
  BY DEF VspHasTx
<1>. QED
  BY <1>2, <1>3, <1>4, <1>5, <1>6, <1>7, <1>8

LEMMA LookupJobKeeps ==
  ASSUME IInv, NEW t \in Threads, LookupJob(t)
  PROVE  IInv'
<1>. USE DEF LookupJob, IInv
<1>1. thread' \in [Threads -> ThreadStates]
  <2>. DEFINE c == thread[t].client
  <2>1. c \in Clients
    BY DEF Equipped, TypeOK, ThreadStates
  <2>2. jobs[c] \in Payments \cup {NoPay}
    BY <2>1 DEF TypeOK
  <2>. DEFINE pc == IF jobs[c] = NoPay THEN "create" ELSE "lock"
  <2>3. pc \in PCs
    BY DEF PCs
  <2>. HIDE DEF pc
  <2>4. thread[t] \in ThreadStates
    BY DEF TypeOK
  <2>5. [thread[t] EXCEPT !.pc = pc, !.pay = jobs[c]] \in ThreadStates
    BY <2>2, <2>3, <2>4, MoveType
  <2>. QED BY <2>5 DEF TypeOK, pc
<1>2. TypeOK'
  BY <1>1, ReturnType, IdleType, ConstantsAssumption DEF wallet, payment, TypeOK
<1>3. Equipped'
  BY <1>1, ConstantsAssumption DEF wallet, payment, TypeOK, Equipped, Owned,
     Locked, Building, SubmitsFinishedTx, ThreadStates
<1>4. Owned'
  <2>1. thread[t].client \in Clients
    BY DEF Equipped, TypeOK, ThreadStates
  <2>2. \A u \in Threads : thread'[u].pc \in PayPCs => owner[thread'[u].pay] \in Clients
    BY <2>1 DEF Owned, TypeOK, ThreadStates
  <2>. QED BY <2>2 DEF Owned, payment
<1>5. Locked'
  <2>1. CASE Return(t)
    BY <2>1, ReturnLocked
  <2>2. CASE ~Return(t)
    BY <2>2, SameSideLocked DEF Goto, TypeOK, ThreadStates
  <2>. QED BY <2>1, <2>2
<1>6. Building'
  BY <1>1, ConstantsAssumption DEF payment, TypeOK, Building, ThreadStates
<1>7. SubmitsFinishedTx'
  BY <1>1, ConstantsAssumption DEF payment, SubmitsFinishedTx, ThreadStates
<1>8. VspHasTx'
  BY DEF VspHasTx
<1>. QED
  BY <1>2, <1>3, <1>4, <1>5, <1>6, <1>7, <1>8

LEMMA CreatePaymentKeeps ==
  ASSUME IInv, NEW t \in Threads, CreatePayment(t)
  PROVE  IInv'
<1>. USE DEF CreatePayment, IInv
<1>1. thread' \in [Threads -> ThreadStates]
  <2>1. PICK p \in Payments : \E pc \in {"start", "register"} :
          thread' = [thread EXCEPT ![t].pay = p, ![t].pc = pc]
    BY Zenon
  <2>. QED BY <2>1 DEF TypeOK, ThreadStates, PCs
<1>2. TypeOK'
  BY <1>1, IdleType, ConstantsAssumption DEF wallet, TypeOK, Equipped
<1>3. Equipped'
  BY <1>1, ConstantsAssumption DEF ThreadStates, Garbage
<1>4. Owned'
  BY <1>1, ConstantsAssumption DEF ThreadStates, Garbage
<1>5. Locked'
  BY <1>1, ConstantsAssumption DEF ThreadStates
<1>6. Building'
  BY <1>1, ConstantsAssumption DEF ThreadStates
<1>7. SubmitsFinishedTx'
  BY <1>1, ConstantsAssumption DEF ThreadStates
<1>8. VspHasTx'
  BY DEF VspHasTx
<1>. QED
  BY <1>2, <1>3, <1>4, <1>5, <1>6, <1>7, <1>8

LEMMA MarkStartedKeeps ==
  ASSUME IInv, NEW t \in Threads, MarkStarted(t)
  PROVE  IInv'
<1>. USE DEF MarkStarted, IInv
<1>1. thread' \in [Threads -> ThreadStates]
  BY GotoType DEF TypeOK, PCs
<1>2. TypeOK'
  BY <1>1, IdleType, ConstantsAssumption DEF payment, TypeOK, Equipped
<1>3. Equipped'
  BY <1>1, ConstantsAssumption DEF Goto, Equipped, ThreadStates
<1>4. Owned'
  BY <1>1, ConstantsAssumption DEF payment, Goto, Owned, ThreadStates
<1>5. Locked'
  BY <1>1, ConstantsAssumption DEF Goto, Locked, ThreadStates
<1>6. Building'
  BY <1>1, ConstantsAssumption DEF payment, Goto, Building, ThreadStates
<1>7. SubmitsFinishedTx'
  BY <1>1, ConstantsAssumption DEF payment, Goto, SubmitsFinishedTx,
     ThreadStates
<1>8. VspHasTx'
  BY DEF VspHasTx
<1>. QED
  BY <1>2, <1>3, <1>4, <1>5, <1>6, <1>7, <1>8

LEMMA RegisterJobKeeps ==
  ASSUME IInv, NEW t \in Threads, RegisterJob(t)
  PROVE  IInv'
<1>. USE DEF RegisterJob, IInv
<1>1. thread' \in [Threads -> ThreadStates]
  BY GotoType, ReturnType DEF TypeOK, Equipped, PCs, ThreadStates
<1>2. TypeOK'
  BY <1>1, ReturnType, IdleType, ConstantsAssumption DEF wallet, payment,
     TypeOK, Equipped
<1>3. Equipped'
  BY <1>1, ConstantsAssumption DEF wallet, payment, Goto, Equipped,
     SubmitsFinishedTx, ThreadStates
<1>4. Owned'
  BY <1>1, ConstantsAssumption, SMTT(20) DEF payment, Goto, TypeOK, Equipped,
     Owned, Locked, Building, SubmitsFinishedTx, ThreadStates
<1>5. Locked'
  BY <1>1, ConstantsAssumption, SMTT(20) DEF wallet, Goto, TypeOK, Equipped,
     Owned, Locked, Building, SubmitsFinishedTx, ThreadStates
<1>6. Building'
  BY <1>1, ConstantsAssumption DEF payment, Goto, TypeOK, Building,
     SubmitsFinishedTx, ThreadStates
<1>7. SubmitsFinishedTx'
  BY <1>1, ConstantsAssumption DEF payment, Goto, SubmitsFinishedTx,
     ThreadStates
<1>8. VspHasTx'
  BY DEF VspHasTx
<1>. QED
  BY <1>2, <1>3, <1>4, <1>5, <1>6, <1>7, <1>8

LEMMA ArmTimerKeeps ==
  ASSUME IInv, NEW t \in Threads, ArmTimer(t)
  PROVE  IInv'
<1>. USE DEF ArmTimer, IInv
<1>1. thread' \in [Threads -> ThreadStates]
  BY GotoType DEF TypeOK, PCs
<1>2. TypeOK'
  BY <1>1, ReturnType, IdleType, ConstantsAssumption DEF wallet, payment,
     Schedule, TypeOK
<1>3. Equipped'
  BY <1>1, ConstantsAssumption DEF Goto, Equipped, SubmitsFinishedTx,
     ThreadStates
<1>4. Owned'
  BY <1>1, ConstantsAssumption DEF payment, Schedule, Goto, Owned, Building,
     SubmitsFinishedTx, ThreadStates
<1>5. Locked'
  BY <1>1, ConstantsAssumption DEF Goto, Locked, SubmitsFinishedTx, ThreadStates
<1>6. Building'
  BY <1>1, ConstantsAssumption DEF payment, Goto, Building, SubmitsFinishedTx,
     ThreadStates
<1>7. SubmitsFinishedTx'
  BY <1>1, ConstantsAssumption DEF payment, Goto, SubmitsFinishedTx,
     ThreadStates
<1>8. VspHasTx'
  BY DEF VspHasTx
<1>. QED
  BY <1>2, <1>3, <1>4, <1>5, <1>6, <1>7, <1>8

LEMMA LockProcMuKeeps ==
  ASSUME IInv, NEW t \in Threads, LockProcMu(t)
  PROVE  IInv'
<1>. USE DEF LockProcMu, IInv
<1>1. thread' \in [Threads -> ThreadStates]
  <2>1. thread[t].task \in Tasks
    BY DEF Equipped, TypeOK, ThreadStates
  <2>2. FirstStep[thread[t].task] \in PCs
    BY <2>1 DEF FirstStep, PCs
  <2>. QED BY <2>2, GotoType DEF TypeOK
<1>2. TypeOK'
  BY <1>1, ReturnType, IdleType, ConstantsAssumption DEF wallet, payment,
     TypeOK, VspHasTx
<1>3. Equipped'
  BY <1>1, ConstantsAssumption DEF Goto, Equipped, SubmitsFinishedTx,
     ThreadStates, FirstStep, LockFree
<1>4. Owned'
  BY <1>1, ConstantsAssumption DEF payment, Goto, Owned, SubmitsFinishedTx,
     ThreadStates, FirstStep, LockFree
<1>5. Locked'
  BY <1>1, ConstantsAssumption DEF wallet, payment, LockFree, Goto, FirstStep,
     TypeOK, Equipped, Owned, Locked, Building, SubmitsFinishedTx,
     ThreadStates
<1>6. Building'
  BY <1>1, ConstantsAssumption DEF payment, LockFree, Goto, Locked, Building,
     SubmitsFinishedTx, ThreadStates
<1>7. SubmitsFinishedTx'
  BY <1>1, ConstantsAssumption DEF payment, Goto, FirstStep, Equipped, Locked,
     Building, SubmitsFinishedTx, ThreadStates
<1>8. VspHasTx'
  BY DEF VspHasTx
<1>. QED
  BY <1>2, <1>3, <1>4, <1>5, <1>6, <1>7, <1>8

LEMMA QuoteForProcessKeeps ==
  ASSUME IInv, NEW t \in Threads, QuoteForProcess(t)
  PROVE  IInv'
<1>. USE DEF QuoteForProcess, IInv
<1>1. thread' \in [Threads -> ThreadStates]
  BY GotoType DEF TypeOK, PCs
<1>2. TypeOK'
  BY <1>1, ReturnType, IdleType, ConstantsAssumption DEF TicketOver,
     RefusedTx, AdoptedTx, StopPayment, KeptTx, Schedule, TypeOK, Equipped,
     Owned, SubmitsFinishedTx, VspHasTx
<1>3. Equipped'
  BY <1>1, ConstantsAssumption DEF Goto, Equipped, ThreadStates
<1>4. Owned'
  BY <1>1, ConstantsAssumption, SMTT(20) DEF TicketOver, Goto, StopPayment,
     Schedule, TypeOK, Equipped, Owned, Locked, Building, SubmitsFinishedTx,
     ThreadStates
<1>5. Locked'
  <2>1. CASE Return(t)
    BY <2>1, ReturnLocked
  <2>2. CASE ~Return(t)
    BY <2>2, SameSideLocked DEF Goto, TypeOK, ThreadStates
  <2>. QED BY <2>1, <2>2
<1>6. Building'
  BY <1>1, ConstantsAssumption DEF RefusedTx, Goto, Signed, KeptTx, TypeOK,
     Owned, Locked, Building, SubmitsFinishedTx, ThreadStates
<1>7. SubmitsFinishedTx'
  BY <1>1, ConstantsAssumption DEF RefusedTx, Goto, AdoptedTx, Signed, KeptTx,
     Adopts, TypeOK, Equipped, Owned, Locked, Building, SubmitsFinishedTx,
     ThreadStates
<1>8. VspHasTx'
  BY DEF VspHasTx
<1>. QED
  BY <1>2, <1>3, <1>4, <1>5, <1>6, <1>7, <1>8

LEMMA MarkErroredKeeps ==
  ASSUME IInv, NEW t \in Threads, MarkErrored(t)
  PROVE  IInv'
<1>. USE DEF MarkErrored, IInv
<1>1. thread' \in [Threads -> ThreadStates]
  BY ReturnType DEF TypeOK
<1>2. TypeOK'
  BY ReturnType, IdleType, ConstantsAssumption DEF payment, TypeOK
<1>3. Equipped'
  BY <1>1, ConstantsAssumption DEF Return, Equipped, ThreadStates, Idle
<1>4. Owned'
  BY <1>1, ConstantsAssumption DEF payment, Return, Owned, ThreadStates, Idle
<1>5. Locked'
  BY <1>1, ConstantsAssumption DEF Return, Idle, Equipped, Locked,
     SubmitsFinishedTx, ThreadStates
<1>6. Building'
  BY <1>1, ConstantsAssumption DEF payment, Return, Building,
     SubmitsFinishedTx, ThreadStates
<1>7. SubmitsFinishedTx'
  BY <1>1, ConstantsAssumption DEF payment, Return, Idle, SubmitsFinishedTx,
     ThreadStates
<1>8. VspHasTx'
  BY DEF VspHasTx
<1>. QED
  BY <1>2, <1>3, <1>4, <1>5, <1>6, <1>7, <1>8

LEMMA ReconcileKeeps ==
  ASSUME IInv, NEW t \in Threads, Reconcile(t)
  PROVE  IInv'
<1>. USE DEF Reconcile, IInv
<1>1. thread' \in [Threads -> ThreadStates]
  BY GotoType, ReturnType DEF TypeOK, PCs
<1>2. TypeOK'
  BY <1>1, ReturnType, IdleType, ConstantsAssumption DEF payment, TicketOver,
     StopPayment, Schedule, TypeOK, SubmitsFinishedTx, VspHasTx
<1>3. Equipped'
  BY <1>1, ConstantsAssumption DEF Return, Goto, Equipped, SubmitsFinishedTx,
     ThreadStates, Idle
<1>4. Owned'
  <2>1. owner' = owner
    BY DEF payment
  <2>2. \A p \in Payments : timer'[p] # "none" => owner[p] \in Clients
    BY DEF Owned, TicketOver, StopPayment, Schedule, TypeOK, Equipped
  <2>3. \A c \in Clients : jobs'[c] # NoPay => owner[jobs'[c]] \in Clients
    BY DEF Owned, TicketOver, StopPayment, TypeOK, Equipped
  <2>4. \A u \in Threads : thread'[u].pc \in PayPCs => owner[thread'[u].pay] \in Clients
    BY DEF Owned, TypeOK, Goto, Return, Idle, ThreadStates
  <2>. QED BY <2>1, <2>2, <2>3, <2>4 DEF Owned
<1>5. Locked'
  <2>1. CASE Return(t)
    BY <2>1, ReturnLocked
  <2>2. CASE ~Return(t)
    BY <2>2, SameSideLocked DEF Goto, TypeOK, ThreadStates
  <2>. QED BY <2>1, <2>2
<1>6. Building'
  BY <1>1, ConstantsAssumption DEF payment, Return, Goto, TypeOK, Locked,
     Building, SubmitsFinishedTx, ThreadStates
<1>7. SubmitsFinishedTx'
  BY <1>1, ConstantsAssumption DEF payment, Return, Goto, Signed, Idle,
     Locked, Building, SubmitsFinishedTx, ThreadStates
<1>8. VspHasTx'
  BY DEF VspHasTx
<1>. QED
  BY <1>2, <1>3, <1>4, <1>5, <1>6, <1>7, <1>8

LEMMA QuoteForReconcileKeeps ==
  ASSUME IInv, NEW t \in Threads, QuoteForReconcile(t)
  PROVE  IInv'
<1>. USE DEF QuoteForReconcile, IInv
<1>1. thread' \in [Threads -> ThreadStates]
  BY GotoType, ReturnType, IdleType DEF StartOver, TypeOK, PCs
<1>2. TypeOK'
  BY <1>1, ReturnType, IdleType, ConstantsAssumption DEF TicketOver, Remove,
     StartOver, StopPayment, Schedule, Retry, TypeOK, Equipped, Owned,
     SubmitsFinishedTx, VspHasTx
<1>3. Equipped'
  BY <1>1, ConstantsAssumption DEF Return, Goto, StartOver, Equipped,
     SubmitsFinishedTx, ThreadStates, Idle
<1>4. Owned'
  BY <1>1, ConstantsAssumption, SMTT(20) DEF TicketOver, Return, Goto, Remove,
     StartOver, StopPayment, Schedule, Retry, TypeOK, Equipped, Owned, Locked,
     Building, SubmitsFinishedTx, ThreadStates, Idle
<1>5. Locked'
  BY <1>1, ConstantsAssumption, SMTT(20) DEF Return, Goto, StartOver, Idle,
     TypeOK, Equipped, Owned, Locked, Building, SubmitsFinishedTx,
     ThreadStates
<1>6. Building'
  BY <1>1, ConstantsAssumption DEF Return, Goto, StartOver, TypeOK, Equipped,
     Owned, Building, SubmitsFinishedTx, ThreadStates
<1>7. SubmitsFinishedTx'
  BY <1>1, ConstantsAssumption DEF Return, Goto, StartOver, Idle, TypeOK,
     Equipped, Owned, Locked, Building, SubmitsFinishedTx, ThreadStates
<1>8. VspHasTx'
  BY DEF VspHasTx
<1>. QED
  BY <1>2, <1>3, <1>4, <1>5, <1>6, <1>7, <1>8

LEMMA MarkTooHighKeeps ==
  ASSUME IInv, NEW t \in Threads, MarkTooHigh(t)
  PROVE  IInv'
<1>. USE DEF MarkTooHigh, IInv
<1>1. thread' \in [Threads -> ThreadStates]
  BY ReturnType DEF TypeOK
<1>2. TypeOK'
  BY <1>1, ReturnType, IdleType, ConstantsAssumption DEF payment, Remove,
     Schedule, TypeOK, Equipped, Owned
<1>3. Equipped'
  BY <1>1, ConstantsAssumption DEF Return, Equipped, ThreadStates, Idle
<1>4. Owned'
  BY <1>1, ConstantsAssumption DEF payment, Remove, Return, Schedule, Owned,
     Building, SubmitsFinishedTx, ThreadStates, Idle
<1>5. Locked'
  BY <1>1, ConstantsAssumption DEF Return, Idle, Equipped, Locked,
     SubmitsFinishedTx, ThreadStates
<1>6. Building'
  BY <1>1, ConstantsAssumption DEF payment, Return, Building,
     SubmitsFinishedTx, ThreadStates
<1>7. SubmitsFinishedTx'
  BY <1>1, ConstantsAssumption DEF payment, Return, Idle, SubmitsFinishedTx,
     ThreadStates
<1>8. VspHasTx'
  BY DEF VspHasTx
<1>. QED
  BY <1>2, <1>3, <1>4, <1>5, <1>6, <1>7, <1>8

LEMMA MakeFeeTxKeeps ==
  ASSUME IInv, NEW t \in Threads, MakeFeeTx(t)
  PROVE  IInv'
<1>. USE DEF MakeFeeTx, IInv
<1>1. thread' \in [Threads -> ThreadStates]
  BY GotoType, ReturnType, IdleType DEF MakeFailed, StartOver, TypeOK, Owned,
     PCs, ThreadStates
<1>2. TypeOK'
  BY <1>1, ReturnType, IdleType, ConstantsAssumption DEF MakeFailed,
     StartOver, Retry, Schedule, TypeOK, VspHasTx
<1>3. Equipped'
  BY <1>1, ConstantsAssumption, SMTT(20) DEF MakeFailed, StartOver, Return,
     Equipped, Building, SubmitsFinishedTx, ThreadStates, Idle
<1>4. Owned'
  BY <1>1, ConstantsAssumption, SMTT(20) DEF MakeFailed, StartOver, Retry,
     Return, Schedule, TypeOK, Equipped, Owned, Locked, Building,
     SubmitsFinishedTx, ThreadStates, Idle
<1>5. Locked'
  BY <1>1, ConstantsAssumption, SMTT(20) DEF Unknown, MakeFailed, StartOver,
     Return, Idle, TypeOK, Equipped, Owned, Locked, Building,
     SubmitsFinishedTx, ThreadStates
<1>6. Building'
  BY <1>1, ConstantsAssumption DEF MakeFailed, StartOver, Return, TypeOK,
     Locked, Building, SubmitsFinishedTx, ThreadStates
<1>7. SubmitsFinishedTx'
  BY <1>1, ConstantsAssumption DEF MakeFailed, StartOver, Return, Idle,
     TypeOK, Equipped, Owned, Locked, Building, SubmitsFinishedTx,
     ThreadStates
<1>8. VspHasTx'
  BY DEF VspHasTx
<1>. QED
  BY <1>2, <1>3, <1>4, <1>5, <1>6, <1>7, <1>8

LEMMA RecordFeeTxKeeps ==
  ASSUME IInv, NEW t \in Threads, RecordFeeTx(t)
  PROVE  IInv'
<1>. USE DEF RecordFeeTx, IInv
<1>1. thread' \in [Threads -> ThreadStates]
  <2>1. "submit" \in PCs
    BY DEF PCs
  <2>. QED
    BY <2>1, MakeFailedType, GotoWithTxType DEF TypeOK
<1>2. TypeOK'
  BY <1>1, ReturnType, IdleType, ConstantsAssumption DEF MadeHash, Abandon,
     MakeFailed, StartOver, Retry, Schedule, TypeOK, Equipped, Owned,
     SubmitsFinishedTx, VspHasTx
<1>3. Equipped'
  <2>1. CASE MakeFailed(t)
    BY <1>1, <2>1 DEF MakeFailed, StartOver, Return, Idle, Equipped, TypeOK,
       ThreadStates
  <2>2. CASE thread' = [thread EXCEPT ![t].pc = "submit", ![t].tx = NoTx]
    BY <1>1, <2>2 DEF Equipped, TypeOK, ThreadStates
  <2>. QED BY <2>1, <2>2
<1>4. Owned'
  BY <1>1, ConstantsAssumption, SMTT(20) DEF MakeFailed, StartOver, Retry,
     Return, Schedule, TypeOK, Owned, Locked, Building, SubmitsFinishedTx,
     ThreadStates, Idle
<1>5. Locked'
  BY <1>1, ConstantsAssumption, SMTT(20) DEF MadeHash, MakeFailed, StartOver,
     Return, Idle, TypeOK, Equipped, Owned, Locked, Building,
     SubmitsFinishedTx, ThreadStates
<1>6. Building'
  BY <1>1, ConstantsAssumption DEF MakeFailed, StartOver, Return, TypeOK,
     Owned, Locked, Building, SubmitsFinishedTx, ThreadStates
<1>7. SubmitsFinishedTx'
  <2>1. thread[t].tx \in Txs /\ Pay(t) \in Payments
    BY DEF Equipped, TypeOK, ThreadStates
  <2>2. \A u \in Threads : u # t /\ thread[u].pc \in LockedPCs => Pay(u) # Pay(t)
    BY DEF Locked
  <2>3. ASSUME NEW u \in Threads, thread'[u].pc = "submit"
        PROVE  feeTx'[thread'[u].pay] \in Txs
    <3>1. CASE u = t
      BY <1>1, <2>1, <2>3, <3>1 DEF MakeFailed, StartOver, Return, Idle,
         TypeOK, ThreadStates
    <3>2. CASE u # t
      <4>1. thread'[u] = thread[u]
        BY <3>2 DEF MakeFailed, StartOver, Return, TypeOK
      <4>2. Pay(u) \in Payments /\ Pay(u) # Pay(t)
        BY <2>2, <2>3, <3>2, <4>1 DEF Equipped
      <4>3. feeTx'[Pay(u)] = feeTx[Pay(u)]
        BY <4>2 DEF MakeFailed, StartOver, TypeOK
      <4>. QED BY <2>3, <4>1, <4>3 DEF SubmitsFinishedTx
    <3>. QED BY <3>1, <3>2
  <2>. QED BY <2>3 DEF SubmitsFinishedTx
<1>8. VspHasTx'
  BY DEF VspHasTx
<1>. QED
  BY <1>2, <1>3, <1>4, <1>5, <1>6, <1>7, <1>8

LEMMA SubmitKeeps ==
  ASSUME IInv, NEW t \in Threads, Submit(t)
  PROVE  IInv'
<1>. USE DEF Submit, IInv
<1>1. thread' \in [Threads -> ThreadStates]
  BY GotoType, ReturnType DEF TypeOK, Equipped, Owned, PCs, ThreadStates
<1>2. TypeOK'
  BY <1>1, ReturnType, IdleType, ConstantsAssumption DEF payment, StopPayment,
     Schedule, TypeOK, SubmitsFinishedTx
<1>3. Equipped'
  BY <1>1, ConstantsAssumption DEF Return, Equipped, ThreadStates, Idle
<1>4. Owned'
  <2>1. owner' = owner
    BY DEF payment
  <2>2. \A p \in Payments : timer'[p] # "none" => owner[p] \in Clients
    BY DEF Owned, TicketOver, StopPayment, Schedule, TypeOK, Equipped
  <2>3. \A c \in Clients : jobs'[c] # NoPay => owner[jobs'[c]] \in Clients
    BY DEF Owned, TicketOver, StopPayment, TypeOK, Equipped
  <2>4. \A u \in Threads : thread'[u].pc \in PayPCs => owner[thread'[u].pay] \in Clients
    BY DEF Owned, TypeOK, Goto, Return, Idle, ThreadStates
  <2>. QED BY <2>1, <2>2, <2>3, <2>4 DEF Owned
<1>5. Locked'
  BY <1>1, ConstantsAssumption, SMTT(20) DEF payment, Return, Idle, TypeOK,
     Equipped, Owned, Locked, Building, SubmitsFinishedTx, ThreadStates
<1>6. Building'
  BY <1>1, ConstantsAssumption DEF payment, Return, TypeOK, Locked, Building,
     SubmitsFinishedTx, ThreadStates
<1>7. SubmitsFinishedTx'
  BY <1>1, ConstantsAssumption DEF payment, Return, Idle, SubmitsFinishedTx,
     ThreadStates
<1>8. VspHasTx'
  BY DEF VspHasTx, SubmitsFinishedTx
<1>. QED
  BY <1>2, <1>3, <1>4, <1>5, <1>6, <1>7, <1>8

LEMMA EndSubmitKeeps ==
  ASSUME IInv, NEW t \in Threads, EndSubmit(t)
  PROVE  IInv'
<1>. USE DEF EndSubmit, IInv
<1>1. thread' \in [Threads -> ThreadStates]
  BY ReturnType DEF TypeOK
<1>2. TypeOK'
  BY <1>1, ReturnType, IdleType, ConstantsAssumption DEF wallet, payment,
     Retry, Schedule, TypeOK, SubmitsFinishedTx, VspHasTx
<1>3. Equipped'
  BY <1>1, ConstantsAssumption DEF Return, Equipped, SubmitsFinishedTx,
     ThreadStates, Idle
<1>4. Owned'
  BY <1>1, ConstantsAssumption DEF payment, Retry, Return, Schedule, TypeOK,
     Owned, Locked, Building, SubmitsFinishedTx, ThreadStates, Idle
<1>5. Locked'
  BY <1>1, ConstantsAssumption DEF Return, Idle, Equipped, Locked, Building,
     SubmitsFinishedTx, ThreadStates
<1>6. Building'
  BY <1>1, ConstantsAssumption DEF payment, Return, Locked, Building,
     SubmitsFinishedTx, ThreadStates
<1>7. SubmitsFinishedTx'
  BY <1>1, ConstantsAssumption DEF payment, Return, Idle, Locked, Building,
     SubmitsFinishedTx, ThreadStates
<1>8. VspHasTx'
  BY DEF VspHasTx
<1>. QED
  BY <1>2, <1>3, <1>4, <1>5, <1>6, <1>7, <1>8

LEMMA FeeExpiredKeeps ==
  ASSUME IInv, NEW t \in Threads, FeeExpired(t)
  PROVE  IInv'
<1>. USE DEF FeeExpired, IInv
<1>1. thread' \in [Threads -> ThreadStates]
  BY GotoType DEF TypeOK, PCs
<1>2. TypeOK'
  BY <1>1, ReturnType, IdleType, ConstantsAssumption DEF Abandon, Forget, TypeOK
<1>3. Equipped'
  BY <1>1, ConstantsAssumption DEF Goto, Equipped
<1>4. Owned'
  BY <1>1, ConstantsAssumption DEF Goto, Owned
<1>5. Locked'
  BY <1>1, ConstantsAssumption DEF Goto, Locked, ThreadStates
<1>6. Building'
  BY <1>1, ConstantsAssumption DEF Forget, Goto, Building, SubmitsFinishedTx,
     ThreadStates
<1>7. SubmitsFinishedTx'
  BY <1>1, ConstantsAssumption DEF Forget, Goto, Locked, SubmitsFinishedTx,
     ThreadStates
<1>8. VspHasTx'
  BY DEF VspHasTx
<1>. QED
  BY <1>2, <1>3, <1>4, <1>5, <1>6, <1>7, <1>8

LEMMA MarkExpiredKeeps ==
  ASSUME IInv, NEW t \in Threads, MarkExpired(t)
  PROVE  IInv'
<1>. USE DEF MarkExpired, IInv
<1>1. thread' \in [Threads -> ThreadStates]
  BY ReturnType DEF TypeOK
<1>2. TypeOK'
  BY <1>1, ReturnType, IdleType, ConstantsAssumption DEF payment, Retry,
     Schedule, TypeOK
<1>3. Equipped'
  BY <1>1, ConstantsAssumption DEF Return, Equipped, ThreadStates, Idle
<1>4. Owned'
  BY <1>1, ConstantsAssumption DEF payment, Retry, Return, Schedule, TypeOK,
     Owned, Building, SubmitsFinishedTx, ThreadStates, Idle
<1>5. Locked'
  BY <1>1, ConstantsAssumption DEF Return, Idle, Equipped, Locked,
     SubmitsFinishedTx, ThreadStates
<1>6. Building'
  BY <1>1, ConstantsAssumption DEF payment, Return, Building,
     SubmitsFinishedTx, ThreadStates
<1>7. SubmitsFinishedTx'
  BY <1>1, ConstantsAssumption DEF payment, Return, Idle, SubmitsFinishedTx,
     ThreadStates
<1>8. VspHasTx'
  BY DEF VspHasTx
<1>. QED
  BY <1>2, <1>3, <1>4, <1>5, <1>6, <1>7, <1>8

LEMMA MarkRejectedKeeps ==
  ASSUME IInv, NEW t \in Threads, MarkRejected(t)
  PROVE  IInv'
<1>. USE DEF MarkRejected, IInv
<1>1. thread' \in [Threads -> ThreadStates]
  BY GotoType DEF TypeOK, PCs
<1>2. TypeOK'
  BY <1>1, IdleType, ConstantsAssumption DEF payment, TypeOK
<1>3. Equipped'
  BY <1>1, ConstantsAssumption DEF Goto, Equipped, ThreadStates
<1>4. Owned'
  BY <1>1, ConstantsAssumption DEF payment, Goto, Owned, ThreadStates
<1>5. Locked'
  BY <1>1, ConstantsAssumption DEF Goto, Locked, ThreadStates
<1>6. Building'
  BY <1>1, ConstantsAssumption DEF payment, Goto, Building, ThreadStates
<1>7. SubmitsFinishedTx'
  BY <1>1, ConstantsAssumption DEF payment, Goto, SubmitsFinishedTx,
     ThreadStates
<1>8. VspHasTx'
  BY DEF VspHasTx
<1>. QED
  BY <1>2, <1>3, <1>4, <1>5, <1>6, <1>7, <1>8

LEMMA AbandonRejectedKeeps ==
  ASSUME IInv, NEW t \in Threads, AbandonRejected(t)
  PROVE  IInv'
<1>. USE DEF AbandonRejected, IInv
<1>1. thread' \in [Threads -> ThreadStates]
  BY ReturnType DEF TypeOK
<1>2. TypeOK'
  BY <1>1, ReturnType, IdleType, ConstantsAssumption DEF Abandon, Forget,
     Retry, Schedule, TypeOK, Equipped, VspHasTx
<1>3. Equipped'
  BY <1>1, ConstantsAssumption DEF Return, Equipped, Idle
<1>4. Owned'
  BY <1>1, ConstantsAssumption DEF Retry, Return, Schedule, Owned,
     SubmitsFinishedTx, ThreadStates, Idle
<1>5. Locked'
  BY <1>1, ConstantsAssumption DEF Return, Idle, Equipped, Locked, ThreadStates
<1>6. Building'
  BY <1>1, ConstantsAssumption DEF Forget, Return, Building,
     SubmitsFinishedTx, ThreadStates
<1>7. SubmitsFinishedTx'
  BY <1>1, ConstantsAssumption DEF Forget, Return, Idle, Locked,
     SubmitsFinishedTx, ThreadStates
<1>8. VspHasTx'
  BY DEF VspHasTx
<1>. QED
  BY <1>2, <1>3, <1>4, <1>5, <1>6, <1>7, <1>8

LEMMA MarkPaidKeeps ==
  ASSUME IInv, NEW t \in Threads, MarkPaid(t)
  PROVE  IInv'
<1>. USE DEF MarkPaid, IInv
<1>1. thread' \in [Threads -> ThreadStates]
  BY GotoType, ReturnType DEF TypeOK, PCs
<1>2. TypeOK'
  BY <1>1, ReturnType, IdleType, ConstantsAssumption DEF payment, Retry,
     Schedule, TypeOK, Equipped
<1>3. Equipped'
  BY <1>1, ConstantsAssumption DEF Goto, Return, Equipped, SubmitsFinishedTx,
     ThreadStates, Idle
<1>4. Owned'
  BY <1>1, ConstantsAssumption DEF payment, Goto, Retry, Return, Schedule,
     TypeOK, Owned, Locked, Building, SubmitsFinishedTx, ThreadStates, Idle
<1>5. Locked'
  BY <1>1, ConstantsAssumption DEF payment, Goto, Return, Idle, TypeOK,
     Equipped, Owned, Locked, Building, SubmitsFinishedTx, ThreadStates
<1>6. Building'
  BY <1>1, ConstantsAssumption DEF payment, Goto, Return, TypeOK, Building,
     SubmitsFinishedTx, ThreadStates
<1>7. SubmitsFinishedTx'
  BY <1>1, ConstantsAssumption DEF payment, Goto, Return, Idle, Building,
     SubmitsFinishedTx, ThreadStates
<1>8. VspHasTx'
  BY DEF VspHasTx
<1>. QED
  BY <1>2, <1>3, <1>4, <1>5, <1>6, <1>7, <1>8

LEMMA ConfirmKeeps ==
  ASSUME IInv, NEW t \in Threads, Confirm(t)
  PROVE  IInv'
<1>. USE DEF Confirm, IInv
<1>1. thread' \in [Threads -> ThreadStates]
  BY GotoType, ReturnType DEF TypeOK, PCs
<1>2. TypeOK'
  BY <1>1, ReturnType, IdleType, ConstantsAssumption DEF payment, TicketOver,
     Retry, Schedule, Remove, StopPayment, TypeOK, Equipped, Owned,
     SubmitsFinishedTx, VspHasTx
<1>3. Equipped'
  BY <1>1, ConstantsAssumption DEF Return, Goto, Equipped, SubmitsFinishedTx,
     ThreadStates, Idle
<1>4. Owned'
  BY <1>1, ConstantsAssumption, SMTT(20) DEF payment, TicketOver, Return,
     Retry, Schedule, Remove, Goto, StopPayment, TypeOK, Equipped, Owned,
     Locked, Building, SubmitsFinishedTx, ThreadStates, Idle
<1>5. Locked'
  <2>1. CASE Return(t)
    BY <2>1, ReturnLocked
  <2>2. CASE ~Return(t)
    BY <2>2, SameSideLocked DEF Goto, TypeOK, ThreadStates
  <2>. QED BY <2>1, <2>2
<1>6. Building'
  BY <1>1, ConstantsAssumption DEF payment, Return, Goto, TypeOK, Owned,
     Locked, Building, SubmitsFinishedTx, ThreadStates
<1>7. SubmitsFinishedTx'
  BY <1>1, ConstantsAssumption, SMTT(20) DEF payment, Return, FeeIsFinal,
     Goto, Idle, Equipped, Owned, Locked, Building, SubmitsFinishedTx,
     ThreadStates
<1>8. VspHasTx'
  BY DEF VspHasTx
<1>. QED
  BY <1>2, <1>3, <1>4, <1>5, <1>6, <1>7, <1>8

LEMMA MarkConfirmedKeeps ==
  ASSUME IInv, NEW t \in Threads, MarkConfirmed(t)
  PROVE  IInv'
<1>. USE DEF MarkConfirmed, IInv
<1>1. thread' \in [Threads -> ThreadStates]
  BY ReturnType DEF TypeOK
<1>2. TypeOK'
  BY <1>1, ReturnType, IdleType, ConstantsAssumption DEF payment, Retry,
     Schedule, TypeOK, Equipped
<1>3. Equipped'
  BY <1>1, ConstantsAssumption DEF Return, Equipped, ThreadStates, Idle
<1>4. Owned'
  BY <1>1, ConstantsAssumption DEF payment, Retry, Return, Schedule, TypeOK,
     Owned, Building, SubmitsFinishedTx, ThreadStates, Idle
<1>5. Locked'
  BY <1>1, ConstantsAssumption DEF Return, Idle, Equipped, Locked,
     SubmitsFinishedTx, ThreadStates
<1>6. Building'
  BY <1>1, ConstantsAssumption DEF payment, Return, Building,
     SubmitsFinishedTx, ThreadStates
<1>7. SubmitsFinishedTx'
  BY <1>1, ConstantsAssumption DEF payment, Return, Idle, SubmitsFinishedTx,
     ThreadStates
<1>8. VspHasTx'
  BY DEF VspHasTx
<1>. QED
  BY <1>2, <1>3, <1>4, <1>5, <1>6, <1>7, <1>8

LEMMA PurchaseKeeps ==
  ASSUME IInv, NEW t \in Threads, NEW c \in Clients, Purchase(t, c)
  PROVE  IInv'
<1>. USE DEF Purchase, IInv
<1>1. thread' \in [Threads -> ThreadStates]
  <2>1. [Idle EXCEPT !.pc = "read", !.client = c, !.own = TRUE] \in ThreadStates
    BY DEF Idle, ThreadStates, PCs
  <2>. QED BY <2>1 DEF Begin, TypeOK
<1>2. TypeOK'
  BY <1>1, ReturnType, IdleType, ConstantsAssumption DEF wallet, payment, TypeOK
<1>3. Equipped'
  BY <1>1, ConstantsAssumption DEF Begin, Equipped, SubmitsFinishedTx,
     ThreadStates, Idle
<1>4. Owned'
  BY <1>1, ConstantsAssumption DEF payment, Begin, Owned, SubmitsFinishedTx,
     ThreadStates, Idle
<1>5. Locked'
  BY <1>1, ConstantsAssumption DEF Begin, Locked, Building, SubmitsFinishedTx,
     ThreadStates
<1>6. Building'
  BY <1>1, ConstantsAssumption DEF payment, Begin, Building,
     SubmitsFinishedTx, ThreadStates
<1>7. SubmitsFinishedTx'
  BY <1>1, ConstantsAssumption DEF payment, Begin, Building,
     SubmitsFinishedTx, ThreadStates
<1>8. VspHasTx'
  BY DEF VspHasTx
<1>. QED
  BY <1>2, <1>3, <1>4, <1>5, <1>6, <1>7, <1>8

LEMMA ProcessUnpaidKeeps ==
  ASSUME IInv, NEW t \in Threads, NEW c \in Clients, ProcessUnpaid(t, c)
  PROVE  IInv'
<1>. USE DEF ProcessUnpaid, IInv
<1>1. thread' \in [Threads -> ThreadStates]
  <2>1. [Idle EXCEPT !.pc = "read", !.client = c, !.own = FALSE] \in ThreadStates
    BY DEF Idle, ThreadStates, PCs
  <2>. QED BY <2>1 DEF Begin, TypeOK
<1>2. TypeOK'
  BY <1>1, ReturnType, IdleType, ConstantsAssumption DEF wallet, payment, TypeOK
<1>3. Equipped'
  BY <1>1, ConstantsAssumption DEF Begin, Equipped, SubmitsFinishedTx,
     ThreadStates, Idle
<1>4. Owned'
  BY <1>1, ConstantsAssumption DEF payment, Begin, Owned, SubmitsFinishedTx,
     ThreadStates, Idle
<1>5. Locked'
  BY <1>1, ConstantsAssumption DEF Begin, Locked, Building, SubmitsFinishedTx,
     ThreadStates
<1>6. Building'
  BY <1>1, ConstantsAssumption DEF payment, Begin, Building,
     SubmitsFinishedTx, ThreadStates
<1>7. SubmitsFinishedTx'
  BY <1>1, ConstantsAssumption DEF payment, Begin, Building,
     SubmitsFinishedTx, ThreadStates
<1>8. VspHasTx'
  BY DEF VspHasTx
<1>. QED
  BY <1>2, <1>3, <1>4, <1>5, <1>6, <1>7, <1>8

LEMMA ProcessManagedKeeps ==
  ASSUME IInv, NEW t \in Threads, NEW c \in Clients, ProcessManaged(t, c)
  PROVE  IInv'
<1>. USE DEF ProcessManaged, IInv
<1>1. thread' \in [Threads -> ThreadStates]
  <2>1. [Idle EXCEPT !.pc = "managed", !.client = c, !.own = FALSE] \in ThreadStates
    BY DEF Idle, ThreadStates, PCs
  <2>. QED BY <2>1 DEF Begin, TypeOK
<1>2. TypeOK'
  BY <1>1, ReturnType, IdleType, ConstantsAssumption DEF wallet, payment, TypeOK
<1>3. Equipped'
  BY <1>1, ConstantsAssumption DEF Begin, Equipped, SubmitsFinishedTx,
     ThreadStates, Idle
<1>4. Owned'
  BY <1>1, ConstantsAssumption DEF payment, Begin, Owned, SubmitsFinishedTx,
     ThreadStates, Idle
<1>5. Locked'
  BY <1>1, ConstantsAssumption DEF Begin, Locked, Building, SubmitsFinishedTx,
     ThreadStates
<1>6. Building'
  BY <1>1, ConstantsAssumption DEF payment, Begin, Building,
     SubmitsFinishedTx, ThreadStates
<1>7. SubmitsFinishedTx'
  BY <1>1, ConstantsAssumption DEF payment, Begin, Building,
     SubmitsFinishedTx, ThreadStates
<1>8. VspHasTx'
  BY DEF VspHasTx
<1>. QED
  BY <1>2, <1>3, <1>4, <1>5, <1>6, <1>7, <1>8

LEMMA TimerFiresKeeps ==
  ASSUME IInv, NEW t \in Threads, NEW p \in Payments, TimerFires(t, p)
  PROVE  IInv'
<1>. USE DEF TimerFires, IInv
<1>1. thread' \in [Threads -> ThreadStates]
  <2>1. [Idle EXCEPT !.pc = "lock", !.task = timer[p], !.client = owner[p], !.pay = p]
          \in ThreadStates
    BY DEF TypeOK, Idle, ThreadStates, PCs
  <2>. QED BY <2>1 DEF TypeOK
<1>2. TypeOK'
  BY <1>1, ReturnType, IdleType, ConstantsAssumption DEF wallet, payment,
     Schedule, TypeOK
<1>3. Equipped'
  BY <1>1, ConstantsAssumption DEF TypeOK, Equipped, Owned, ThreadStates, Idle
<1>4. Owned'
  BY <1>1, ConstantsAssumption DEF payment, Schedule, Owned,
     SubmitsFinishedTx, ThreadStates, Idle
<1>5. Locked'
  BY <1>1, ConstantsAssumption DEF Locked, SubmitsFinishedTx, ThreadStates
<1>6. Building'
  BY <1>1, ConstantsAssumption DEF payment, Building, SubmitsFinishedTx,
     ThreadStates
<1>7. SubmitsFinishedTx'
  BY <1>1, ConstantsAssumption DEF payment, SubmitsFinishedTx, ThreadStates
<1>8. VspHasTx'
  BY DEF VspHasTx
<1>. QED
  BY <1>2, <1>3, <1>4, <1>5, <1>6, <1>7, <1>8

LEMMA VspProgressKeeps ==
  ASSUME IInv, VspProgress
  PROVE  IInv'
<1>. USE DEF VspProgress, IInv
<1>1. thread' \in [Threads -> ThreadStates]
  BY DEF TypeOK
<1>2. TypeOK'
  BY ReturnType, IdleType, ConstantsAssumption DEF wallet, payment, TypeOK
<1>3. Equipped'
  BY <1>1, ConstantsAssumption DEF Equipped, ThreadStates
<1>4. Owned'
  BY <1>1, ConstantsAssumption DEF payment, Owned, ThreadStates
<1>5. Locked'
  BY <1>1, ConstantsAssumption DEF Locked, ThreadStates
<1>6. Building'
  BY <1>1, ConstantsAssumption DEF payment, Building, ThreadStates
<1>7. SubmitsFinishedTx'
  BY <1>1, ConstantsAssumption DEF payment, SubmitsFinishedTx, ThreadStates
<1>8. VspHasTx'
  BY DEF VspHasTx
<1>. QED
  BY <1>2, <1>3, <1>4, <1>5, <1>6, <1>7, <1>8

LEMMA WalletSeesFeeTxKeeps ==
  ASSUME IInv, WalletSeesFeeTx
  PROVE  IInv'
<1>. USE DEF WalletSeesFeeTx, IInv
<1>1. thread' \in [Threads -> ThreadStates]
  BY DEF TypeOK
<1>2. TypeOK'
  BY IdleType, ConstantsAssumption DEF payment, TypeOK, VspHasTx
<1>3. Equipped'
  BY <1>1, ConstantsAssumption DEF Equipped
<1>4. Owned'
  BY <1>1, ConstantsAssumption DEF payment, Owned
<1>5. Locked'
  BY <1>1, ConstantsAssumption DEF Locked
<1>6. Building'
  BY <1>1, ConstantsAssumption DEF payment, Building
<1>7. SubmitsFinishedTx'
  BY <1>1, ConstantsAssumption DEF payment, SubmitsFinishedTx
<1>8. VspHasTx'
  BY DEF VspHasTx
<1>. QED
  BY <1>2, <1>3, <1>4, <1>5, <1>6, <1>7, <1>8

LEMMA VspBroadcastFailsKeeps ==
  ASSUME IInv, VspBroadcastFails
  PROVE  IInv'
<1>. USE DEF VspBroadcastFails, IInv
<1>1. thread' \in [Threads -> ThreadStates]
  BY DEF TypeOK
<1>2. TypeOK'
  BY ReturnType, IdleType, ConstantsAssumption DEF wallet, payment, TypeOK
<1>3. Equipped'
  BY <1>1, ConstantsAssumption DEF Equipped, ThreadStates
<1>4. Owned'
  BY <1>1, ConstantsAssumption DEF payment, Owned, ThreadStates
<1>5. Locked'
  BY <1>1, ConstantsAssumption DEF Locked, ThreadStates
<1>6. Building'
  BY <1>1, ConstantsAssumption DEF payment, Building, ThreadStates
<1>7. SubmitsFinishedTx'
  BY <1>1, ConstantsAssumption DEF payment, SubmitsFinishedTx, ThreadStates
<1>8. VspHasTx'
  BY DEF VspHasTx
<1>. QED
  BY <1>2, <1>3, <1>4, <1>5, <1>6, <1>7, <1>8

LEMMA TicketEndsKeeps ==
  ASSUME IInv, TicketEnds
  PROVE  IInv'
<1>. USE DEF TicketEnds, IInv
<1>1. thread' \in [Threads -> ThreadStates]
  BY DEF TypeOK
<1>2. TypeOK'
  BY ReturnType, IdleType, ConstantsAssumption DEF wallet, payment, TypeOK
<1>3. Equipped'
  BY <1>1, ConstantsAssumption DEF Equipped, ThreadStates
<1>4. Owned'
  BY <1>1, ConstantsAssumption DEF payment, Owned, ThreadStates
<1>5. Locked'
  BY <1>1, ConstantsAssumption DEF Locked, ThreadStates
<1>6. Building'
  BY <1>1, ConstantsAssumption DEF payment, Building, ThreadStates
<1>7. SubmitsFinishedTx'
  BY <1>1, ConstantsAssumption DEF payment, SubmitsFinishedTx, ThreadStates
<1>8. VspHasTx'
  BY DEF VspHasTx
<1>. QED
  BY <1>2, <1>3, <1>4, <1>5, <1>6, <1>7, <1>8

LEMMA RestartKeeps ==
  ASSUME IInv, Restart
  PROVE  IInv'
<1>. USE DEF Restart, IInv
<1>1. thread' \in [Threads -> ThreadStates]
  BY IdleType
<1>2. TypeOK'
  BY IdleType, ConstantsAssumption DEF wallet, TypeOK
<1>3. Equipped'
  BY <1>1, ConstantsAssumption DEF Equipped, Idle
<1>4. Owned'
  BY <1>1, ConstantsAssumption DEF Owned, Idle
<1>5. Locked'
  BY <1>1, ConstantsAssumption DEF Idle, Locked, ThreadStates
<1>6. Building'
  BY <1>1, ConstantsAssumption DEF Building, ThreadStates
<1>7. SubmitsFinishedTx'
  BY <1>1, ConstantsAssumption DEF Idle, SubmitsFinishedTx, ThreadStates
<1>8. VspHasTx'
  BY DEF VspHasTx
<1>. QED
  BY <1>2, <1>3, <1>4, <1>5, <1>6, <1>7, <1>8

LEMMA StutterKeeps ==
  ASSUME IInv, UNCHANGED vars
  PROVE  IInv'
<1>. USE DEF IInv
<1>1. thread' \in [Threads -> ThreadStates]
  BY DEF vars, TypeOK
<1>2. TypeOK'
  BY <1>1, ReturnType, IdleType, ConstantsAssumption DEF vars, wallet,
     payment, TypeOK, vars
<1>3. Equipped'
  BY <1>1, ConstantsAssumption DEF vars, wallet, payment, Equipped,
     SubmitsFinishedTx, ThreadStates, vars
<1>4. Owned'
  BY <1>1, ConstantsAssumption DEF vars, wallet, payment, Owned,
     SubmitsFinishedTx, ThreadStates, vars
<1>5. Locked'
  BY <1>1, ConstantsAssumption DEF vars, wallet, payment, Locked,
     SubmitsFinishedTx, ThreadStates, vars
<1>6. Building'
  BY <1>1, ConstantsAssumption DEF vars, wallet, payment, Building,
     SubmitsFinishedTx, ThreadStates, vars
<1>7. SubmitsFinishedTx'
  BY <1>1, ConstantsAssumption DEF vars, wallet, payment, SubmitsFinishedTx,
     ThreadStates, vars
<1>8. VspHasTx'
  BY DEF vars, wallet, payment, VspHasTx, vars
<1>. QED
  BY <1>2, <1>3, <1>4, <1>5, <1>6, <1>7, <1>8

-----------------------------------------------------------------------------
(* The theorems *)

\* IInv holds in every state a run of the clients can reach.
THEOREM Inductive == Spec => []IInv
<1>1. Init => IInv
  <2>. SUFFICES ASSUME Init PROVE IInv
    OBVIOUS
  <2>. USE DEF Init
  <2>1. TypeOK
    <3>1. thread \in [Threads -> ThreadStates]
      BY IdleType
    <3>2. vsp \in [status : {"none", "received", "broadcast", "confirmed", "error"},
                  tx : Txs \cup {NoTx}]
      OBVIOUS
    <3>. QED
      BY <3>1, <3>2 DEF TypeOK
  <2>2. Equipped /\ Owned /\ Locked /\ SubmitsFinishedTx
    BY DEF Equipped, Owned, Locked, SubmitsFinishedTx, Idle
  <2>3. Building /\ VspHasTx
    BY ConstantsAssumption DEF Building, VspHasTx
  <2>. QED
    BY <2>1, <2>2, <2>3 DEF IInv
<1>2. IInv /\ [Next]_vars => IInv'
  <2>. SUFFICES ASSUME IInv, [Next]_vars PROVE IInv'
    OBVIOUS
  <2>1. ASSUME NEW t \in Threads, Call(t) PROVE IInv'
    BY <2>1, PurchaseKeeps, ProcessUnpaidKeeps, ProcessManagedKeeps DEF Call
  <2>2. ASSUME NEW t \in Threads, Fire(t) PROVE IInv'
    BY <2>2, TimerFiresKeeps DEF Fire
  <2>3. ASSUME NEW t \in Threads, Run(t) PROVE IInv'
        BY <2>3, ManagedLookupKeeps, ManagedStatusKeeps, ManagedMarkKeeps,
       ReadRecordKeeps, LookupJobKeeps, CreatePaymentKeeps, MarkStartedKeeps,
       RegisterJobKeeps, ArmTimerKeeps, LockProcMuKeeps, QuoteForProcessKeeps,
       MarkErroredKeeps, ReconcileKeeps, QuoteForReconcileKeeps, MarkTooHighKeeps,
       MakeFeeTxKeeps, RecordFeeTxKeeps, SubmitKeeps, EndSubmitKeeps,
       FeeExpiredKeeps, MarkExpiredKeeps, MarkRejectedKeeps, AbandonRejectedKeeps,
       MarkPaidKeeps, ConfirmKeeps, MarkConfirmedKeeps DEF Run
  <2>4. CASE Environment
    BY <2>4, VspProgressKeeps, WalletSeesFeeTxKeeps, VspBroadcastFailsKeeps,
       TicketEndsKeeps, RestartKeeps DEF Environment
  <2>5. CASE UNCHANGED vars
    BY <2>5, StutterKeeps
  <2>. QED
    BY <2>1, <2>2, <2>3, <2>4, <2>5 DEF Next
<1>. QED
  BY <1>1, <1>2, PTL DEF Spec

\* Every variable keeps the shape of the Go value it stands for.
THEOREM TypeCorrect == Spec => []TypeOK
<1>1. IInv => TypeOK
  BY DEF IInv
<1>. QED
  BY <1>1, Inductive, PTL

\* submitPayment never sends a fee tx that is missing or half built.
THEOREM SubmitsOnlyFinishedTx == Spec => []SubmitsFinishedTx
<1>1. IInv => SubmitsFinishedTx
  BY DEF IInv
<1>. QED
  BY <1>1, Inductive, PTL

\* A payment no goroutine works on never keeps a half-built fee tx, whose inputs
\* may be spent before the next attempt.
THEOREM RestsFinished == Spec => []RestingTxFinished
<1>1. IInv => RestingTxFinished
  BY DEF IInv, Building, RestingTxFinished
<1>. QED
  BY <1>1, Inductive, PTL

\* procMu keeps two attempts on one PAYMENT apart, however many goroutines want
\* it.  It does not keep those on one ticket apart: the clients of two accounts
\* have a payment each, and two goroutines may attempt both at once.
THEOREM OneAttemptPerPayment ==
  Spec => [](\A t, u \in Threads :
               Attempting(t) /\ Attempting(u) /\ Pay(t) = Pay(u) => t = u)
<1>1. IInv => \A t, u \in Threads :
                Attempting(t) /\ Attempting(u) /\ Pay(t) = Pay(u) => t = u
  BY DEF IInv, Locked, Attempting
<1>. QED
  BY <1>1, Inductive, PTL

-----------------------------------------------------------------------------
(* What is recorded as confirmed was seen confirmed, and stays so at the VSP. *)

\* A goroutine about to record the fee as confirmed has seen it confirmed.
SeenConfirmed ==
  \A t \in Threads :
    \/ thread[t].pc = "managedMark" /\ FeeIsFinal(thread[t].answer)
    \/ thread[t].pc = "confirmedMark"
    => vsp.status = "confirmed"

\* A step of a goroutine that brings nobody to record a fee as confirmed.
LEMMA QuietStep ==
  ASSUME ConfirmedIsTrue, SeenConfirmed, TypeOK, NEW t \in Threads,
         record'.status = "confirmed" => record' = record,
         vsp.status = "confirmed" => vsp' = vsp,
         \A u \in Threads \ {t} : thread'[u] = thread[u],
         thread'[t].pc \notin {"managedMark", "confirmedMark"}
  PROVE  ConfirmedIsTrue' /\ SeenConfirmed'
<1>1. ConfirmedIsTrue'
  BY DEF ConfirmedIsTrue
<1>2. SeenConfirmed'
  BY DEF SeenConfirmed
<1>. QED
  BY <1>1, <1>2

LEMMA ConfirmedStep ==
  ASSUME IInv, ConfirmedIsTrue, SeenConfirmed, [Next]_vars
  PROVE  ConfirmedIsTrue' /\ SeenConfirmed'
<1>. USE DEF ConfirmedIsTrue, SeenConfirmed
<1>1. TypeOK
  BY DEF IInv
<1>2. ASSUME NEW t \in Threads, ManagedLookup(t) PROVE ConfirmedIsTrue' /\ SeenConfirmed'
  <2>1. vsp.status = "confirmed" => vsp' = vsp
    BY <1>2 DEF ManagedLookup, Held, HeldStates
  <2>2. record'.status = "confirmed" => record' = record
    BY <1>2 DEF ManagedLookup, wallet, StopPayment, TicketOver
  <2>3. (\A u \in Threads \ {t} : thread'[u] = thread[u])
        /\ thread'[t].pc \notin {"managedMark", "confirmedMark"}
    BY <1>1, <1>2 DEF ManagedLookup, TypeOK, ThreadStates, Goto, Return, Idle
  <2>. QED
    BY <2>1, <2>2, <2>3
<1>3. ASSUME NEW t \in Threads, ManagedStatus(t) PROVE ConfirmedIsTrue' /\ SeenConfirmed'
  <2>1. vsp' = vsp /\ record' = record
    BY <1>3 DEF ManagedStatus, wallet
  <2>2. CASE thread' = [thread EXCEPT ![t].pc = "managedMark", ![t].tx = vsp.tx,
                                     ![t].answer = vsp.status]
    <3>1. thread'[t].pc = "managedMark" /\ thread'[t].answer = vsp.status
      BY <1>1, <2>2 DEF TypeOK, ThreadStates
    <3>2. \A u \in Threads \ {t} : thread'[u] = thread[u]
      BY <1>1, <2>2 DEF TypeOK
    <3>. QED
      BY <2>1, <3>1, <3>2 DEF FeeIsFinal
  <2>3. CASE Return(t) \/ Goto(t, "read")
    BY <1>1, <2>1, <2>3, QuietStep DEF Return, Goto, Idle, TypeOK, ThreadStates
  <2>. QED
    BY <1>3, <2>2, <2>3 DEF ManagedStatus
<1>4. ASSUME NEW t \in Threads, ManagedMark(t) PROVE ConfirmedIsTrue' /\ SeenConfirmed'
  BY <1>1, <1>4 DEF ManagedMark, Return, Idle, TypeOK, ThreadStates
<1>5. ASSUME NEW t \in Threads, ReadRecord(t) PROVE ConfirmedIsTrue' /\ SeenConfirmed'
  BY <1>1, <1>5 DEF wallet, ReadRecord, TypeOK, ThreadStates
<1>6. ASSUME NEW t \in Threads, LookupJob(t) PROVE ConfirmedIsTrue' /\ SeenConfirmed'
  BY <1>1, <1>6 DEF wallet, LookupJob, TypeOK
<1>7. ASSUME NEW t \in Threads, CreatePayment(t) PROVE ConfirmedIsTrue' /\ SeenConfirmed'
  BY <1>1, <1>7 DEF CreatePayment, TypeOK, ThreadStates
<1>8. ASSUME NEW t \in Threads, MarkStarted(t) PROVE ConfirmedIsTrue' /\ SeenConfirmed'
  BY <1>8 DEF MarkStarted, Goto
<1>9. ASSUME NEW t \in Threads, RegisterJob(t) PROVE ConfirmedIsTrue' /\ SeenConfirmed'
  BY <1>1, <1>9 DEF wallet, RegisterJob, Goto, TypeOK, ThreadStates
<1>10. ASSUME NEW t \in Threads, ArmTimer(t) PROVE ConfirmedIsTrue' /\ SeenConfirmed'
  BY <1>10 DEF wallet, ArmTimer, Goto
<1>11. ASSUME NEW t \in Threads, LockProcMu(t) PROVE ConfirmedIsTrue' /\ SeenConfirmed'
  <2>1. thread[t].task \in Tasks
    BY <1>11 DEF LockProcMu, IInv, Equipped
  <2>2. FirstStep[thread[t].task] \notin {"managedMark", "confirmedMark"}
    BY <2>1 DEF FirstStep
  <2>. QED
    BY <1>11, <2>2, QuietStep DEF LockProcMu, wallet, Goto
<1>12. ASSUME NEW t \in Threads, QuoteForProcess(t) PROVE ConfirmedIsTrue' /\ SeenConfirmed'
  BY <1>1, <1>12 DEF QuoteForProcess, TicketOver, Goto, StopPayment, TypeOK,
     ThreadStates
<1>13. ASSUME NEW t \in Threads, MarkErrored(t) PROVE ConfirmedIsTrue' /\ SeenConfirmed'
  BY <1>13 DEF MarkErrored, Return, Idle
<1>14. ASSUME NEW t \in Threads, Reconcile(t) PROVE ConfirmedIsTrue' /\ SeenConfirmed'
  <2>1. vsp.status = "confirmed" => vsp' = vsp
    BY <1>14 DEF Reconcile, Held, HeldStates
  <2>2. record'.status = "confirmed" => record' = record
    BY <1>14 DEF Reconcile, wallet, StopPayment, TicketOver
  <2>3. (\A u \in Threads \ {t} : thread'[u] = thread[u])
        /\ thread'[t].pc \notin {"managedMark", "confirmedMark"}
    BY <1>1, <1>14 DEF Reconcile, Signed, TypeOK, ThreadStates, Goto, Return,
       Idle
  <2>. QED
    BY <2>1, <2>2, <2>3
<1>15. ASSUME NEW t \in Threads, QuoteForReconcile(t) PROVE ConfirmedIsTrue' /\ SeenConfirmed'
  BY <1>1, <1>15 DEF QuoteForReconcile, TicketOver, Return, Goto, StartOver,
     StopPayment, Idle, TypeOK, ThreadStates, FeeIsFinal
<1>16. ASSUME NEW t \in Threads, MarkTooHigh(t) PROVE ConfirmedIsTrue' /\ SeenConfirmed'
  BY <1>16 DEF MarkTooHigh, Return, Idle
<1>17. ASSUME NEW t \in Threads, MakeFeeTx(t) PROVE ConfirmedIsTrue' /\ SeenConfirmed'
  BY <1>1, <1>17 DEF MakeFeeTx, MakeFailed, StartOver, Return, Idle, TypeOK,
     ThreadStates, FeeIsFinal
<1>18. ASSUME NEW t \in Threads, RecordFeeTx(t) PROVE ConfirmedIsTrue' /\ SeenConfirmed'
  BY <1>1, <1>18 DEF RecordFeeTx, MakeFailed, StartOver, Return, Idle, TypeOK,
     ThreadStates
<1>19. ASSUME NEW t \in Threads, Submit(t) PROVE ConfirmedIsTrue' /\ SeenConfirmed'
  <2>1. vsp.status = "confirmed" => vsp' = vsp
    BY <1>19 DEF Submit, Held, HeldStates
  <2>2. record'.status = "confirmed" => record' = record
    BY <1>19 DEF Submit, wallet, StopPayment, TicketOver
  <2>3. (\A u \in Threads \ {t} : thread'[u] = thread[u])
        /\ thread'[t].pc \notin {"managedMark", "confirmedMark"}
    BY <1>1, <1>19 DEF Submit, TypeOK, ThreadStates, Goto, Return, Idle
  <2>. QED
    BY <2>1, <2>2, <2>3
<1>20. ASSUME NEW t \in Threads, EndSubmit(t) PROVE ConfirmedIsTrue' /\ SeenConfirmed'
  BY <1>20 DEF wallet, EndSubmit, Return, Idle
<1>21. ASSUME NEW t \in Threads, FeeExpired(t) PROVE ConfirmedIsTrue' /\ SeenConfirmed'
  BY <1>21 DEF FeeExpired, Goto
<1>22. ASSUME NEW t \in Threads, MarkExpired(t) PROVE ConfirmedIsTrue' /\ SeenConfirmed'
  BY <1>22 DEF MarkExpired, Return, Idle
<1>23. ASSUME NEW t \in Threads, MarkRejected(t) PROVE ConfirmedIsTrue' /\ SeenConfirmed'
  BY <1>23 DEF MarkRejected, Goto
<1>24. ASSUME NEW t \in Threads, AbandonRejected(t) PROVE ConfirmedIsTrue' /\ SeenConfirmed'
  BY <1>24 DEF AbandonRejected, Return, Idle
<1>25. ASSUME NEW t \in Threads, MarkPaid(t) PROVE ConfirmedIsTrue' /\ SeenConfirmed'
  BY <1>1, <1>25 DEF MarkPaid, Goto, Return, Idle, TypeOK, ThreadStates,
     FeeIsFinal
<1>26. ASSUME NEW t \in Threads, Confirm(t) PROVE ConfirmedIsTrue' /\ SeenConfirmed'
  BY <1>1, <1>26 DEF Confirm, TicketOver, Return, StopPayment, Idle, TypeOK,
     FeeIsFinal
<1>27. ASSUME NEW t \in Threads, MarkConfirmed(t) PROVE ConfirmedIsTrue' /\ SeenConfirmed'
  BY <1>27 DEF MarkConfirmed
<1>28. ASSUME NEW t \in Threads, NEW c \in Clients, Purchase(t, c) PROVE ConfirmedIsTrue' /\ SeenConfirmed'
  BY <1>28 DEF wallet, Purchase, Begin
<1>29. ASSUME NEW t \in Threads, NEW c \in Clients, ProcessUnpaid(t, c) PROVE ConfirmedIsTrue' /\ SeenConfirmed'
  BY <1>29 DEF wallet, ProcessUnpaid, Begin
<1>30. ASSUME NEW t \in Threads, NEW c \in Clients, ProcessManaged(t, c) PROVE ConfirmedIsTrue' /\ SeenConfirmed'
  BY <1>30 DEF wallet, ProcessManaged, Begin
<1>31. ASSUME NEW t \in Threads, NEW p \in Payments, TimerFires(t, p) PROVE ConfirmedIsTrue' /\ SeenConfirmed'
  BY <1>31 DEF wallet, TimerFires
<1>32. CASE VspProgress
  BY <1>32 DEF wallet, VspProgress
<1>33. CASE WalletSeesFeeTx
  BY <1>33 DEF WalletSeesFeeTx
<1>34. CASE VspBroadcastFails
  BY <1>34 DEF wallet, VspBroadcastFails
<1>35. CASE TicketEnds
  BY <1>35 DEF wallet, TicketEnds
<1>36. CASE Restart
  BY <1>36 DEF wallet, Restart, Idle
<1>37. CASE UNCHANGED vars
  BY <1>37 DEF vars
<1>. QED
  BY <1>2, <1>3, <1>4, <1>5, <1>6, <1>7, <1>8, <1>9, <1>10, <1>11, <1>12,
     <1>13, <1>14, <1>15, <1>16, <1>17, <1>18, <1>19, <1>20, <1>21, <1>22,
     <1>23, <1>24, <1>25, <1>26, <1>27, <1>28, <1>29, <1>30, <1>31, <1>32,
     <1>33, <1>34, <1>35, <1>36, <1>37
     DEF Next, Call, Fire, Run, Environment

\* A record never says confirmed of a fee the VSP has not seen confirmed, and the
\* VSP never goes back on one: no crash, lost answer or failed write changes that.
THEOREM ConfirmedTruly == Spec => []ConfirmedIsTrue
<1>1. Init => ConfirmedIsTrue /\ SeenConfirmed
  BY DEF Init, ConfirmedIsTrue, SeenConfirmed, Idle
<1>2. IInv /\ ConfirmedIsTrue /\ SeenConfirmed /\ [Next]_vars => (ConfirmedIsTrue /\ SeenConfirmed)'
  BY ConfirmedStep
<1>. QED
  BY <1>1, <1>2, Inductive, PTL DEF Spec
=============================================================================
