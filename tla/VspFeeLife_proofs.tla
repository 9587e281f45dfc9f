-------------------------- MODULE VspFeeLife_proofs --------------------------
(***************************************************************************)
(* Proofs about the fee transactions of VspFee: a record that says paid    *)
(* names the one the VSP holds, the steps are those of FeeTxLife, and no   *)
(* unpublished one is forgotten.                                           *)
(*                                                                         *)
(* The 45 actions are first shown to be steps of 12 kinds (Step), which    *)
(* say what a goroutine does to the fee tx of its payment: it keeps, makes,*)
(* records, drops, submits or gives it up.  Every later invariant is shown *)
(* to survive each kind, and each rests on those before it:                *)
(*   Fitting     the goroutine's statement fits its payment's fee tx;      *)
(*   Fresh       a fee tx just made is known to nobody else;               *)
(*   OnePayment  with one client, all work is on the registered payment;   *)
(*   Settled     once the VSP holds a fee, nobody makes or gives up one;   *)
(*   JobInStore  the wallet has what the payment would submit;             *)
(*   OneFee      without refusals there is one fee tx, ever;               *)
(*   HeldIsJobs  the fee tx the VSP holds is the payment's;                *)
(*   Unleaked    an unpublished fee tx is the payment's or was just made.  *)
(***************************************************************************)
EXTENDS VspFee_proofs

USE DEF Pay, At, Wrote, WriteFailed, RecordOf, NoRecord,
        Tasks, TaskPCs, PayPCs, LockedPCs

-----------------------------------------------------------------------------
(* What a goroutine's statement says of its payment *)

\* It holds an answer on which the fee tx is given up.
Refused(t) ==
  \/ At(t, "rejected")
  \/ At(t, "answered") /\ thread[t].answer \in {"expired", "invalid"}

Fit(t) ==
  /\ thread[t].pc \in {"requote", "makeTx", "paidMark"} => feeTx[Pay(t)] \notin Txs
  /\ thread[t].pc \in {"submit", "answered", "rejected"} => feeTx[Pay(t)] \in Txs
  /\ thread[t].tx # NoTx => thread[t].pc \in {"managedMark", "paidMark"}
  /\ thread[t].pc \notin PayPCs => Pay(t) = NoPay
  /\ At(t, "tooHighMark") => "tooHigh" \in Faults
  /\ Refused(t) => "reject" \in Faults

\* feeHash is the hash of a finished fee tx, and only of one.
HashOf(p) == feeHash[p] = IF feeTx[p] \in Txs THEN feeTx[p] ELSE NoTx

Fitting == (\A t \in Threads : Fit(t)) /\ (\A p \in Payments : HashOf(p))

-----------------------------------------------------------------------------
(* The kinds of steps *)

\* The payment still has work to do.
Active == ticket = "valid" /\ vsp.status # "confirmed"

\* The VSP and the wallet's policy refuse no quote for good.
Serves == Faults \cap {"tooHigh", "cannotVote"} = {}

Others(t) == \A u \in Threads \ {t} : thread'[u] = thread[u]

\* A goroutine works on its payment and on no other.
OnPayment(t) ==
  /\ thread[t].pc \in LockedPCs
  /\ Others(t)
  /\ thread'[t] = Idle \/ (thread'[t].pc \in LockedPCs /\ thread'[t].pay = Pay(t))
  /\ \A q \in Payments \ {Pay(t)} :
       feeHash'[q] = feeHash[q] /\ timer'[q] = timer[q] /\ (q \in quoted' <=> q \in quoted)
  /\ ticket' = ticket
  /\ \A c \in Clients : jobs'[c] \in {jobs[c], NoPay}
  /\ Active /\ Serves => jobs' = jobs

\* It changes neither the finished fee tx nor what the VSP holds.
Keep(t) ==
  /\ OnPayment(t)
  /\ UNCHANGED <<store, vsp, feeHash>>
  /\ \/ unpub' = unpub
     \/ ticket = "valid" /\ vsp.status = "broadcast" /\ unpub' = unpub \ {feeHash[Pay(t)]}
  /\ record'.hash \in {record.hash, NoTx, feeHash[Pay(t)]}
  /\ record'.status = "paid" => record' = record \/ record'.hash # NoTx
  /\ thread[t].pc # "paidMark" /\ thread'[t].pc # "paidMark"
  /\ thread'[t].tx = NoTx
  /\ thread'[t].pc = "makeTx" => ticket = "valid" /\ (~Held \/ Pay(t) \in quoted)
  /\ Refused(t)' => Refused(t) \/ ~Held
  /\ Held => quoted' \subseteq quoted

\* CreateVspPayment adds a fee tx to the wallet,
Make(t) ==
  /\ OnPayment(t)
  /\ At(t, "makeTx")
  /\ \E tx \in Txs :
       /\ Unknown(tx)
       /\ store' = store \cup {tx} /\ unpub' = unpub \cup {tx}
       /\ thread'[t].pc = "paidMark" /\ thread'[t].tx = tx
  /\ UNCHANGED <<record, vsp, jobs, feeHash, timer, quoted>>

\* its hash is recorded,
RecordIt(t) ==
  /\ OnPayment(t)
  /\ At(t, "paidMark")
  /\ record' = RecordOf("paid", thread[t].tx)
  /\ feeHash' = [feeHash EXCEPT ![Pay(t)] = thread[t].tx]
  /\ thread'[t].pc = "submit" /\ thread'[t].tx = NoTx
  /\ UNCHANGED <<store, unpub, vsp, jobs, timer, quoted>>

\* or, when that fails, it is abandoned.
DropIt(t) ==
  /\ OnPayment(t)
  /\ At(t, "paidMark")
  /\ Abandon(thread[t].tx)
  /\ thread'[t].pc \in {"idle", "erroredMark"} /\ thread'[t].tx = NoTx
  /\ quoted' \subseteq quoted
  /\ UNCHANGED <<record, vsp, jobs, feeHash>>

\* The VSP takes the fee tx,
Take(t) ==
  /\ OnPayment(t)
  /\ At(t, "submit")
  /\ ticket = "valid" /\ ~Held
  /\ \E s \in {"received", "broadcast"} : vsp' = [status |-> s, tx |-> feeHash[Pay(t)]]
  /\ At(t, "answered")' /\ thread'[t].answer \in {"ok", "net"} /\ thread'[t].tx = NoTx
  /\ UNCHANGED <<record, store, unpub, jobs, feeHash, timer, quoted>>

\* or refuses it: it is abandoned and forgotten.
GiveItUp(t) ==
  /\ OnPayment(t)
  /\ Refused(t)
  /\ Abandon(feeHash[Pay(t)])
  /\ feeHash' = [feeHash EXCEPT ![Pay(t)] = NoTx]
  /\ quoted' = quoted \ {Pay(t)}
  /\ thread'[t].pc \in {"idle", "expiredMark"} /\ thread'[t].tx = NoTx
  /\ UNCHANGED <<record, vsp, jobs>>

\* A goroutine that has no payment yet learns what is known of the ticket.
Approach(t) ==
  /\ thread[t].pc \notin PayPCs /\ thread'[t].pc \notin PayPCs /\ thread'[t].pay = NoPay
  /\ Others(t)
  /\ IF thread'[t].pc = "managedMark" THEN vsp.status # "none" /\ thread'[t].tx = vsp.tx
                                      ELSE thread'[t].tx = NoTx
  /\ record' = record \/ (At(t, "managedMark") /\ record'.hash = thread[t].tx)
  /\ UNCHANGED <<store, unpub, vsp, ticket, jobs, feeHash, timer, quoted>>

\* It makes a payment: with the recorded fee tx, if the wallet has it,
Create(t, p) ==
  LET known == ticket # "spent" /\ record.hash \in store IN
  /\ At(t, "create")
  /\ Others(t)
  /\ Garbage(p)
  /\ thread'[t].pc \in {"start", "register"} /\ thread'[t].pay = p /\ thread'[t].tx = NoTx
  /\ feeHash' = [feeHash EXCEPT ![p] = IF known THEN record.hash ELSE NoTx]
  /\ quoted' = quoted \ {p}
  /\ UNCHANGED <<record, store, unpub, vsp, ticket, jobs, timer>>

\* records that it starts,
Start(t) ==
  /\ At(t, "start")
  /\ Others(t)
  /\ thread'[t].pc = "register" /\ thread'[t].pay = Pay(t) /\ thread'[t].tx = NoTx
  /\ record' = record \/ record' = RecordOf("started", feeHash[Pay(t)])
  /\ UNCHANGED <<store, unpub, vsp, ticket, jobs, feeHash, timer, quoted>>

\* and registers it.
Register(t) ==
  /\ At(t, "register")
  /\ Others(t)
  /\ thread'[t].pc = "arm" /\ thread'[t].pay = Pay(t) /\ thread'[t].tx = NoTx
  /\ jobs[thread[t].client] = NoPay
  /\ jobs' = [jobs EXCEPT ![thread[t].client] = Pay(t)]
  /\ UNCHANGED <<record, store, unpub, vsp, ticket, feeHash, timer, quoted>>

\* A goroutine has a payment that is registered, and is not at work on it.
Arriving(t) == thread[t].pc \in {"arm", "lock"}

\* It comes to work on a registered payment.
Turn(t) ==
  /\ thread[t].pc \notin LockedPCs
  /\ Others(t)
  /\ thread'[t].pc \in {"lock", "quote", "confirm", "reconcile"}
  /\ thread'[t].pay \in Payments /\ thread'[t].tx = NoTx
  /\ \/ Arriving(t) /\ thread'[t].pay = Pay(t)
     \/ \E c \in Clients : jobs[c] = thread'[t].pay
     \/ timer[thread'[t].pay] # "none"
  /\ \A q \in Payments :
       timer'[q] # "none" => timer[q] # "none" \/ (Arriving(t) /\ q = Pay(t))
  /\ UNCHANGED <<record, store, unpub, vsp, ticket, jobs, feeHash, quoted>>

Worked(t) == Keep(t) \/ Make(t) \/ RecordIt(t) \/ DropIt(t) \/ Take(t) \/ GiveItUp(t)

Came(t) ==
  \/ Approach(t) \/ Start(t) \/ Register(t) \/ Turn(t)
  \/ \E p \in Payments : Create(t, p)

Step == (\E t \in Threads : Came(t) \/ Worked(t)) \/ Environment

-----------------------------------------------------------------------------
(* Every step is of one of these kinds, and leaves the goroutines fitting. *)

\* A step under procMu disturbs no other goroutine at work.
LEMMA WorkFits ==
  ASSUME IInv, Fitting, NEW t \in Threads, thread[t].pc \in LockedPCs, Others(t),
         \A q \in Payments \ {Pay(t)} : feeTx'[q] = feeTx[q] /\ feeHash'[q] = feeHash[q],
         Fit(t)',
         feeHash'[Pay(t)] = IF feeTx'[Pay(t)] \in Txs THEN feeTx'[Pay(t)] ELSE NoTx
  PROVE  Fitting'
<1>1. ASSUME NEW u \in Threads \ {t} PROVE Fit(u)'
  <2>1. thread'[u] = thread[u] /\ Fit(u)
    BY DEF Others, Fitting
  <2>2. CASE thread[u].pc \in LockedPCs
    <3>1. Pay(u) \in Payments /\ Pay(u) # Pay(t)
      BY <2>2 DEF IInv, Equipped, Locked
    <3>. QED
      BY <2>1, <3>1 DEF Fit, Refused
  <2>3. CASE thread[u].pc \notin LockedPCs
    BY <2>1, <2>3 DEF Fit, Refused
  <2>. QED
    BY <2>2, <2>3
<1>. QED
  BY <1>1 DEF Fitting, HashOf

\* A step that leaves every payment as it is disturbs no other goroutine.
LEMMA QuietFits ==
  ASSUME Fitting, NEW t \in Threads, Others(t), UNCHANGED <<feeTx, feeHash>>, Fit(t)'
  PROVE  Fitting'
BY DEF Fitting, Fit, HashOf, Others, Refused

LEMMA ReturnMoves ==
  ASSUME TypeOK, NEW t \in Threads, Return(t)
  PROVE  Others(t) /\ thread'[t] = Idle
BY DEF TypeOK, Return, Others

LEMMA GotoMoves ==
  ASSUME TypeOK, NEW t \in Threads, NEW pc, Goto(t, pc)
  PROVE  /\ Others(t)
         /\ thread'[t].pc = pc /\ thread'[t].pay = Pay(t) /\ thread'[t].tx = thread[t].tx
         /\ thread'[t].answer = thread[t].answer /\ thread'[t].task = thread[t].task
         /\ thread'[t].client = thread[t].client
BY DEF TypeOK, ThreadStates, Goto, Others

LEMMA QuoteForProcessIs ==
  ASSUME IInv, Fitting, NEW t \in Threads, QuoteForProcess(t)
  PROVE  Fitting' /\ Keep(t)
<1>. DEFINE p == Pay(t)
<1>. USE DEF QuoteForProcess
<1>1. p \in Payments /\ TypeOK /\ thread[t] \in ThreadStates /\ HashOf(p) /\ Fit(t)
  BY DEF IInv, TypeOK, Equipped, Fitting
<1>2. Others(t) /\ thread'[t].pay = p /\ thread'[t].tx = NoTx
      /\ thread'[t].answer = thread[t].answer
      /\ thread'[t].pc \in {"erroredMark", "submit", "makeTx"}
  BY <1>1 DEF Goto, Others, TypeOK, ThreadStates, Fit
<1>3. feeHash' = feeHash /\ (feeTx'[p] \in Txs \/ feeTx[p] \in Txs => feeTx'[p] = feeTx[p])
  BY <1>1, ConstantsAssumption
     DEF TypeOK, RefusedTx, KeptTx, AdoptedTx, Adopts, Signed, StopPayment, TicketOver
<1>4. thread'[t].pc = "makeTx" => feeTx'[p] \notin Txs /\ ticket = "valid" /\ ~Held
  BY <1>1 DEF TypeOK, Goto, Signed, ThreadStates
<1>5. thread'[t].pc = "submit" => feeTx'[p] \in Txs
  BY <1>1 DEF TypeOK, Goto, Signed, ThreadStates
<1>6. Fit(t)' /\ feeHash'[p] = IF feeTx'[p] \in Txs THEN feeTx'[p] ELSE NoTx
  BY <1>1, <1>2, <1>3, <1>4, <1>5 DEF Fit, HashOf, Refused
<1>7. \A q \in Payments \ {p} :
        feeTx'[q] = feeTx[q] /\ timer'[q] = timer[q] /\ (q \in quoted' <=> q \in quoted)
  BY <1>1 DEF TypeOK, StopPayment, TicketOver, Schedule
<1>8. Fitting'
  BY <1>1, <1>2, <1>3, <1>6, <1>7, WorkFits
<1>9. OnPayment(t)
  BY <1>1, <1>2, <1>3, <1>7 DEF OnPayment, StopPayment, TicketOver, Active, TypeOK
<1>10. /\ record'.hash \in {record.hash, NoTx, feeHash[p]}
       /\ record'.status = "paid" => record' = record \/ record'.hash # NoTx
  BY DEF StopPayment, TicketOver
<1>. QED
  BY <1>1, <1>2, <1>3, <1>4, <1>8, <1>9, <1>10 DEF Keep, Refused

LEMMA MarkErroredIs ==
  ASSUME IInv, Fitting, NEW t \in Threads, MarkErrored(t)
  PROVE  Fitting' /\ Keep(t)
<1>. DEFINE p == Pay(t)
<1>1. /\ p \in Payments /\ TypeOK /\ thread[t] \in ThreadStates /\ HashOf(p) /\ Fit(t)
      /\ thread[t].pc \in LockedPCs /\ thread[t].pc # "paidMark"
  BY DEF IInv, TypeOK, Equipped, Fitting, MarkErrored
<1>2. Return(t) \/ \E pc \in {} : Goto(t, pc)
  BY DEF StartOver, TicketOver, MarkErrored
<1>3. /\ Others(t) /\ thread'[t].tx = NoTx
      /\ \/ thread'[t] = Idle
         \/ /\ thread'[t].pay = p
            /\ thread'[t].pc \in {}
            /\ thread'[t].answer = thread[t].answer
  <2>1. thread[t].tx = NoTx
    BY <1>1 DEF Fit
  <2>2. CASE Return(t)
    <3>1. Others(t) /\ thread'[t] = Idle
      BY <1>1, <2>2, ReturnMoves
    <3>2. Idle.tx = NoTx
      BY DEF Idle
    <3>. QED
      BY <3>1, <3>2
  <2>3. ASSUME NEW pc \in {}, Goto(t, pc)
        PROVE  /\ Others(t) /\ thread'[t].tx = NoTx /\ thread'[t].pay = p
               /\ thread'[t].pc = pc /\ thread'[t].answer = thread[t].answer
    BY <1>1, <2>1, <2>3, GotoMoves
  <2>. QED
    BY <1>2, <2>2, <2>3
<1>4. feeHash' = feeHash /\ (feeTx'[p] \in Txs \/ feeTx[p] \in Txs => feeTx'[p] = feeTx[p])
  BY <1>1, ConstantsAssumption
     DEF TypeOK, wallet, payment, StopPayment, TicketOver, StartOver, Fit, MarkErrored
<1>5. Fit(t)' /\ feeHash'[p] = IF feeTx'[p] \in Txs THEN feeTx'[p] ELSE NoTx
  BY <1>1, <1>3, <1>4, ConstantsAssumption, GotoMoves, ReturnMoves
     DEF Fit, HashOf, Refused, Idle, Signed, TypeOK, ThreadStates, StartOver,
         QuoteRefusals, AbandonedOn, MarkErrored
<1>6. \A q \in Payments \ {p} :
        feeTx'[q] = feeTx[q] /\ timer'[q] = timer[q] /\ (q \in quoted' <=> q \in quoted)
  BY <1>1 DEF TypeOK, wallet, payment, StopPayment, TicketOver, Schedule, Retry, Remove,
     StartOver, MarkErrored
<1>7. Fitting'
  BY <1>1, <1>3, <1>4, <1>5, <1>6, WorkFits
<1>8. OnPayment(t)
  BY <1>1, <1>3, <1>4, <1>6
     DEF OnPayment, StopPayment, TicketOver, Remove, Active, Serves, Fit, TypeOK,
         QuoteRefusals, FeeIsFinal, MarkErrored
<1>9. /\ record'.hash \in {record.hash, NoTx, feeHash[p]}
      /\ record'.status = "paid" => record' = record \/ record'.hash # NoTx
  BY <1>1, ConstantsAssumption DEF wallet, StopPayment, TicketOver, Fit, HashOf, MarkErrored
<1>10. thread'[t].pc = "makeTx" => ticket = "valid" /\ (~Held \/ p \in quoted)
  BY <1>1, <1>3 DEF Idle
<1>11. Refused(t)' => Refused(t) \/ ~Held
  BY <1>3 DEF Refused, Idle
<1>12. Held => quoted' \subseteq quoted
  BY <1>1 DEF wallet, payment, StartOver, MarkErrored
<1>13. UNCHANGED <<store, vsp>>
       /\ (unpub' = unpub \/ (ticket = "valid" /\ vsp.status = "broadcast"
                                /\ unpub' = unpub \ {feeHash[p]}))
  BY DEF wallet, ShowsPublished, FeeIsFinal, TicketOver, MarkErrored
<1>. QED
  BY <1>1, <1>3, <1>4, <1>7, <1>8, <1>9, <1>10, <1>11, <1>12, <1>13 DEF Keep, Idle

LEMMA ReconcileIs ==
  ASSUME IInv, Fitting, NEW t \in Threads, Reconcile(t)
  PROVE  Fitting' /\ Keep(t)
<1>. DEFINE p == Pay(t)
<1>1. /\ p \in Payments /\ TypeOK /\ thread[t] \in ThreadStates /\ HashOf(p) /\ Fit(t)
      /\ thread[t].pc \in LockedPCs /\ thread[t].pc # "paidMark"
  BY DEF IInv, TypeOK, Equipped, Fitting, Reconcile
<1>2. Return(t) \/ \E pc \in {"submit", "makeTx", "requote"} : Goto(t, pc)
  BY DEF StartOver, TicketOver, Reconcile
<1>3. /\ Others(t) /\ thread'[t].tx = NoTx
      /\ \/ thread'[t] = Idle
         \/ /\ thread'[t].pay = p
            /\ thread'[t].pc \in {"submit", "makeTx", "requote"}
            /\ thread'[t].answer = thread[t].answer
  <2>1. thread[t].tx = NoTx
    BY <1>1 DEF Fit
  <2>2. CASE Return(t)
    <3>1. Others(t) /\ thread'[t] = Idle
      BY <1>1, <2>2, ReturnMoves
    <3>2. Idle.tx = NoTx
      BY DEF Idle
    <3>. QED
      BY <3>1, <3>2
  <2>3. ASSUME NEW pc \in {"submit", "makeTx", "requote"}, Goto(t, pc)
        PROVE  /\ Others(t) /\ thread'[t].tx = NoTx /\ thread'[t].pay = p
               /\ thread'[t].pc = pc /\ thread'[t].answer = thread[t].answer
    BY <1>1, <2>1, <2>3, GotoMoves
  <2>. QED
    BY <1>2, <2>2, <2>3
<1>4. feeHash' = feeHash /\ (feeTx'[p] \in Txs \/ feeTx[p] \in Txs => feeTx'[p] = feeTx[p])
  BY <1>1, ConstantsAssumption
     DEF TypeOK, wallet, payment, StopPayment, TicketOver, StartOver, Fit, Reconcile
<1>5. Fit(t)' /\ feeHash'[p] = IF feeTx'[p] \in Txs THEN feeTx'[p] ELSE NoTx
  BY <1>1, <1>3, <1>4, ConstantsAssumption, GotoMoves, ReturnMoves
     DEF Fit, HashOf, Refused, Idle, Signed, TypeOK, ThreadStates, StartOver,
         QuoteRefusals, AbandonedOn, Reconcile
<1>6. \A q \in Payments \ {p} :
        feeTx'[q] = feeTx[q] /\ timer'[q] = timer[q] /\ (q \in quoted' <=> q \in quoted)
  BY <1>1 DEF TypeOK, wallet, payment, StopPayment, TicketOver, Schedule, Retry, Remove,
     StartOver, Reconcile
<1>7. Fitting'
  BY <1>1, <1>3, <1>4, <1>5, <1>6, WorkFits
<1>8. OnPayment(t)
  BY <1>1, <1>3, <1>4, <1>6
     DEF OnPayment, StopPayment, TicketOver, Remove, Active, Serves, Fit, TypeOK,
         QuoteRefusals, FeeIsFinal, Reconcile
<1>9. /\ record'.hash \in {record.hash, NoTx, feeHash[p]}
      /\ record'.status = "paid" => record' = record \/ record'.hash # NoTx
  BY <1>1, ConstantsAssumption DEF wallet, StopPayment, TicketOver, Fit, HashOf, Reconcile
<1>10. thread'[t].pc = "makeTx" => ticket = "valid" /\ (~Held \/ p \in quoted)
  BY <1>1, GotoMoves, ReturnMoves DEF Reconcile, Idle, TypeOK, ThreadStates
<1>11. Refused(t)' => Refused(t) \/ ~Held
  BY <1>3 DEF Refused, Idle
<1>12. Held => quoted' \subseteq quoted
  BY <1>1 DEF wallet, payment, StartOver, Reconcile
<1>13. UNCHANGED <<store, vsp>>
       /\ (unpub' = unpub \/ (ticket = "valid" /\ vsp.status = "broadcast"
                                /\ unpub' = unpub \ {feeHash[p]}))
  BY DEF wallet, ShowsPublished, FeeIsFinal, TicketOver, Reconcile
<1>. QED
  BY <1>1, <1>3, <1>4, <1>7, <1>8, <1>9, <1>10, <1>11, <1>12, <1>13 DEF Keep, Idle

LEMMA QuoteForReconcileIs ==
  ASSUME IInv, Fitting, NEW t \in Threads, QuoteForReconcile(t)
  PROVE  Fitting' /\ Keep(t)
<1>. DEFINE p == Pay(t)
<1>1. /\ p \in Payments /\ TypeOK /\ thread[t] \in ThreadStates /\ HashOf(p) /\ Fit(t)
      /\ thread[t].pc \in LockedPCs /\ thread[t].pc # "paidMark"
  BY DEF IInv, TypeOK, Equipped, Fitting, QuoteForReconcile
<1>2. Return(t) \/ \E pc \in {"makeTx", "tooHighMark"} : Goto(t, pc)
  BY DEF StartOver, TicketOver, QuoteForReconcile
<1>3. /\ Others(t) /\ thread'[t].tx = NoTx
      /\ \/ thread'[t] = Idle
         \/ /\ thread'[t].pay = p
            /\ thread'[t].pc \in {"makeTx", "tooHighMark"}
            /\ thread'[t].answer = thread[t].answer
  <2>1. thread[t].tx = NoTx
    BY <1>1 DEF Fit
  <2>2. CASE Return(t)
    <3>1. Others(t) /\ thread'[t] = Idle
      BY <1>1, <2>2, ReturnMoves
    <3>2. Idle.tx = NoTx
      BY DEF Idle
    <3>. QED
      BY <3>1, <3>2
  <2>3. ASSUME NEW pc \in {"makeTx", "tooHighMark"}, Goto(t, pc)
        PROVE  /\ Others(t) /\ thread'[t].tx = NoTx /\ thread'[t].pay = p
               /\ thread'[t].pc = pc /\ thread'[t].answer = thread[t].answer
    BY <1>1, <2>1, <2>3, GotoMoves
  <2>. QED
    BY <1>2, <2>2, <2>3
<1>4. feeHash' = feeHash /\ (feeTx'[p] \in Txs \/ feeTx[p] \in Txs => feeTx'[p] = feeTx[p])
  BY <1>1, ConstantsAssumption
     DEF TypeOK, wallet, payment, StopPayment, TicketOver, StartOver, Fit, QuoteForReconcile
<1>5. Fit(t)' /\ feeHash'[p] = IF feeTx'[p] \in Txs THEN feeTx'[p] ELSE NoTx
  BY <1>1, <1>3, <1>4, ConstantsAssumption, GotoMoves, ReturnMoves
     DEF Fit, HashOf, Refused, Idle, Signed, TypeOK, ThreadStates, StartOver,
         QuoteRefusals, AbandonedOn, QuoteForReconcile
<1>6. \A q \in Payments \ {p} :
        feeTx'[q] = feeTx[q] /\ timer'[q] = timer[q] /\ (q \in quoted' <=> q \in quoted)
  BY <1>1 DEF TypeOK, wallet, payment, StopPayment, TicketOver, Schedule, Retry, Remove,
     StartOver, QuoteForReconcile
<1>7. Fitting'
  BY <1>1, <1>3, <1>4, <1>5, <1>6, WorkFits
<1>8. OnPayment(t)
  BY <1>1, <1>3, <1>4, <1>6
     DEF OnPayment, StopPayment, TicketOver, Remove, Active, Serves, Fit, TypeOK,
         QuoteRefusals, FeeIsFinal, QuoteForReconcile
<1>9. /\ record'.hash \in {record.hash, NoTx, feeHash[p]}
      /\ record'.status = "paid" => record' = record \/ record'.hash # NoTx
  BY <1>1, ConstantsAssumption
     DEF wallet, StopPayment, TicketOver, Fit, HashOf, QuoteForReconcile
<1>10. thread'[t].pc = "makeTx" => ticket = "valid" /\ (~Held \/ p \in quoted)
  BY <1>1, GotoMoves, ReturnMoves DEF QuoteForReconcile, StartOver, Idle, TypeOK, ThreadStates
<1>11. Refused(t)' => Refused(t) \/ ~Held
  BY <1>3 DEF Refused, Idle
<1>12. Held => quoted' \subseteq quoted
  BY <1>1 DEF wallet, payment, StartOver, QuoteForReconcile
<1>13. UNCHANGED <<store, vsp>>
       /\ (unpub' = unpub \/ (ticket = "valid" /\ vsp.status = "broadcast"
                                /\ unpub' = unpub \ {feeHash[p]}))
  BY DEF wallet, ShowsPublished, FeeIsFinal, TicketOver, QuoteForReconcile
<1>. QED
  BY <1>1, <1>3, <1>4, <1>7, <1>8, <1>9, <1>10, <1>11, <1>12, <1>13 DEF Keep, Idle

LEMMA MarkTooHighIs ==
  ASSUME IInv, Fitting, NEW t \in Threads, MarkTooHigh(t)
  PROVE  Fitting' /\ Keep(t)
<1>. DEFINE p == Pay(t)
<1>1. /\ p \in Payments /\ TypeOK /\ thread[t] \in ThreadStates /\ HashOf(p) /\ Fit(t)
      /\ thread[t].pc \in LockedPCs /\ thread[t].pc # "paidMark"
  BY DEF IInv, TypeOK, Equipped, Fitting, MarkTooHigh
<1>2. Return(t) \/ \E pc \in {} : Goto(t, pc)
  BY DEF StartOver, TicketOver, MarkTooHigh
<1>3. /\ Others(t) /\ thread'[t].tx = NoTx
      /\ \/ thread'[t] = Idle
         \/ /\ thread'[t].pay = p
            /\ thread'[t].pc \in {}
            /\ thread'[t].answer = thread[t].answer
  <2>1. thread[t].tx = NoTx
    BY <1>1 DEF Fit
  <2>2. CASE Return(t)
    <3>1. Others(t) /\ thread'[t] = Idle
      BY <1>1, <2>2, ReturnMoves
    <3>2. Idle.tx = NoTx
      BY DEF Idle
    <3>. QED
      BY <3>1, <3>2
  <2>3. ASSUME NEW pc \in {}, Goto(t, pc)
        PROVE  /\ Others(t) /\ thread'[t].tx = NoTx /\ thread'[t].pay = p
               /\ thread'[t].pc = pc /\ thread'[t].answer = thread[t].answer
    BY <1>1, <2>1, <2>3, GotoMoves
  <2>. QED
    BY <1>2, <2>2, <2>3
<1>4. feeHash' = feeHash /\ (feeTx'[p] \in Txs \/ feeTx[p] \in Txs => feeTx'[p] = feeTx[p])
  BY <1>1, ConstantsAssumption
     DEF TypeOK, wallet, payment, StopPayment, TicketOver, StartOver, Fit, MarkTooHigh
<1>5. Fit(t)' /\ feeHash'[p] = IF feeTx'[p] \in Txs THEN feeTx'[p] ELSE NoTx
  BY <1>1, <1>3, <1>4, ConstantsAssumption, GotoMoves, ReturnMoves
     DEF Fit, HashOf, Refused, Idle, Signed, TypeOK, ThreadStates, StartOver,
         QuoteRefusals, AbandonedOn, MarkTooHigh
<1>6. \A q \in Payments \ {p} :
        feeTx'[q] = feeTx[q] /\ timer'[q] = timer[q] /\ (q \in quoted' <=> q \in quoted)
  BY <1>1 DEF TypeOK, wallet, payment, StopPayment, TicketOver, Schedule, Retry, Remove,
     StartOver, MarkTooHigh
<1>7. Fitting'
  BY <1>1, <1>3, <1>4, <1>5, <1>6, WorkFits
<1>8. OnPayment(t)
  BY <1>1, <1>3, <1>4, <1>6
     DEF OnPayment, StopPayment, TicketOver, Remove, Active, Serves, Fit, TypeOK,
         QuoteRefusals, FeeIsFinal, MarkTooHigh
<1>9. /\ record'.hash \in {record.hash, NoTx, feeHash[p]}
      /\ record'.status = "paid" => record' = record \/ record'.hash # NoTx
  BY <1>1, ConstantsAssumption DEF wallet, StopPayment, TicketOver, Fit, HashOf, MarkTooHigh
<1>10. thread'[t].pc = "makeTx" => ticket = "valid" /\ (~Held \/ p \in quoted)
  BY <1>1, <1>3 DEF Idle
<1>11. Refused(t)' => Refused(t) \/ ~Held
  BY <1>3 DEF Refused, Idle
<1>12. Held => quoted' \subseteq quoted
  BY <1>1 DEF wallet, payment, StartOver, MarkTooHigh
<1>13. UNCHANGED <<store, vsp>>
       /\ (unpub' = unpub \/ (ticket = "valid" /\ vsp.status = "broadcast"
                                /\ unpub' = unpub \ {feeHash[p]}))
  BY DEF wallet, ShowsPublished, FeeIsFinal, TicketOver, MarkTooHigh
<1>. QED
  BY <1>1, <1>3, <1>4, <1>7, <1>8, <1>9, <1>10, <1>11, <1>12, <1>13 DEF Keep, Idle

LEMMA EndSubmitIs ==
  ASSUME IInv, Fitting, NEW t \in Threads, EndSubmit(t)
  PROVE  Fitting' /\ Keep(t)
<1>. DEFINE p == Pay(t)
<1>1. /\ p \in Payments /\ TypeOK /\ thread[t] \in ThreadStates /\ HashOf(p) /\ Fit(t)
      /\ thread[t].pc \in LockedPCs /\ thread[t].pc # "paidMark"
  BY DEF IInv, TypeOK, Equipped, Fitting, EndSubmit
<1>2. Return(t) \/ \E pc \in {} : Goto(t, pc)
  BY DEF StartOver, TicketOver, EndSubmit
<1>3. /\ Others(t) /\ thread'[t].tx = NoTx
      /\ \/ thread'[t] = Idle
         \/ /\ thread'[t].pay = p
            /\ thread'[t].pc \in {}
            /\ thread'[t].answer = thread[t].answer
  <2>1. thread[t].tx = NoTx
    BY <1>1 DEF Fit
  <2>2. CASE Return(t)
    <3>1. Others(t) /\ thread'[t] = Idle
      BY <1>1, <2>2, ReturnMoves
    <3>2. Idle.tx = NoTx
      BY DEF Idle
    <3>. QED
      BY <3>1, <3>2
  <2>3. ASSUME NEW pc \in {}, Goto(t, pc)
        PROVE  /\ Others(t) /\ thread'[t].tx = NoTx /\ thread'[t].pay = p
               /\ thread'[t].pc = pc /\ thread'[t].answer = thread[t].answer
    BY <1>1, <2>1, <2>3, GotoMoves
  <2>. QED
    BY <1>2, <2>2, <2>3
<1>4. feeHash' = feeHash /\ (feeTx'[p] \in Txs \/ feeTx[p] \in Txs => feeTx'[p] = feeTx[p])
  BY <1>1, ConstantsAssumption
     DEF TypeOK, wallet, payment, StopPayment, TicketOver, StartOver, Fit, EndSubmit
<1>5. Fit(t)' /\ feeHash'[p] = IF feeTx'[p] \in Txs THEN feeTx'[p] ELSE NoTx
  BY <1>1, <1>3, <1>4, ConstantsAssumption, GotoMoves, ReturnMoves
     DEF Fit, HashOf, Refused, Idle, Signed, TypeOK, ThreadStates, StartOver,
         QuoteRefusals, AbandonedOn, EndSubmit
<1>6. \A q \in Payments \ {p} :
        feeTx'[q] = feeTx[q] /\ timer'[q] = timer[q] /\ (q \in quoted' <=> q \in quoted)
  BY <1>1 DEF TypeOK, wallet, payment, StopPayment, TicketOver, Schedule, Retry, Remove,
     StartOver, EndSubmit
<1>7. Fitting'
  BY <1>1, <1>3, <1>4, <1>5, <1>6, WorkFits
<1>8. OnPayment(t)
  BY <1>1, <1>3, <1>4, <1>6
     DEF OnPayment, StopPayment, TicketOver, Remove, Active, Serves, Fit, TypeOK,
         QuoteRefusals, FeeIsFinal, EndSubmit
<1>9. /\ record'.hash \in {record.hash, NoTx, feeHash[p]}
      /\ record'.status = "paid" => record' = record \/ record'.hash # NoTx
  BY <1>1, ConstantsAssumption DEF wallet, StopPayment, TicketOver, Fit, HashOf, EndSubmit
<1>10. thread'[t].pc = "makeTx" => ticket = "valid" /\ (~Held \/ p \in quoted)
  BY <1>1, <1>3 DEF Idle
<1>11. Refused(t)' => Refused(t) \/ ~Held
  BY <1>3 DEF Refused, Idle
<1>12. Held => quoted' \subseteq quoted
  BY <1>1 DEF wallet, payment, StartOver, EndSubmit
<1>13. UNCHANGED <<store, vsp>>
       /\ (unpub' = unpub \/ (ticket = "valid" /\ vsp.status = "broadcast"
                                /\ unpub' = unpub \ {feeHash[p]}))
  BY DEF wallet, ShowsPublished, FeeIsFinal, TicketOver, EndSubmit
<1>. QED
  BY <1>1, <1>3, <1>4, <1>7, <1>8, <1>9, <1>10, <1>11, <1>12, <1>13 DEF Keep, Idle

LEMMA MarkExpiredIs ==
  ASSUME IInv, Fitting, NEW t \in Threads, MarkExpired(t)
  PROVE  Fitting' /\ Keep(t)
<1>. DEFINE p == Pay(t)
<1>1. /\ p \in Payments /\ TypeOK /\ thread[t] \in ThreadStates /\ HashOf(p) /\ Fit(t)
      /\ thread[t].pc \in LockedPCs /\ thread[t].pc # "paidMark"
  BY DEF IInv, TypeOK, Equipped, Fitting, MarkExpired
<1>2. Return(t) \/ \E pc \in {} : Goto(t, pc)
  BY DEF StartOver, TicketOver, MarkExpired
<1>3. /\ Others(t) /\ thread'[t].tx = NoTx
      /\ \/ thread'[t] = Idle
         \/ /\ thread'[t].pay = p
            /\ thread'[t].pc \in {}
            /\ thread'[t].answer = thread[t].answer
  <2>1. thread[t].tx = NoTx
    BY <1>1 DEF Fit
  <2>2. CASE Return(t)
    <3>1. Others(t) /\ thread'[t] = Idle
      BY <1>1, <2>2, ReturnMoves
    <3>2. Idle.tx = NoTx
      BY DEF Idle
    <3>. QED
      BY <3>1, <3>2
  <2>3. ASSUME NEW pc \in {}, Goto(t, pc)
        PROVE  /\ Others(t) /\ thread'[t].tx = NoTx /\ thread'[t].pay = p
               /\ thread'[t].pc = pc /\ thread'[t].answer = thread[t].answer
    BY <1>1, <2>1, <2>3, GotoMoves
  <2>. QED
    BY <1>2, <2>2, <2>3
<1>4. feeHash' = feeHash /\ (feeTx'[p] \in Txs \/ feeTx[p] \in Txs => feeTx'[p] = feeTx[p])
  BY <1>1, ConstantsAssumption
     DEF TypeOK, wallet, payment, StopPayment, TicketOver, StartOver, Fit, MarkExpired
<1>5. Fit(t)' /\ feeHash'[p] = IF feeTx'[p] \in Txs THEN feeTx'[p] ELSE NoTx
  BY <1>1, <1>3, <1>4, ConstantsAssumption, GotoMoves, ReturnMoves
     DEF Fit, HashOf, Refused, Idle, Signed, TypeOK, ThreadStates, StartOver,
         QuoteRefusals, AbandonedOn, MarkExpired
<1>6. \A q \in Payments \ {p} :
        feeTx'[q] = feeTx[q] /\ timer'[q] = timer[q] /\ (q \in quoted' <=> q \in quoted)
  BY <1>1 DEF TypeOK, wallet, payment, StopPayment, TicketOver, Schedule, Retry, Remove,
     StartOver, MarkExpired
<1>7. Fitting'
  BY <1>1, <1>3, <1>4, <1>5, <1>6, WorkFits
<1>8. OnPayment(t)
  BY <1>1, <1>3, <1>4, <1>6
     DEF OnPayment, StopPayment, TicketOver, Remove, Active, Serves, Fit, TypeOK,
         QuoteRefusals, FeeIsFinal, MarkExpired
<1>9. /\ record'.hash \in {record.hash, NoTx, feeHash[p]}
      /\ record'.status = "paid" => record' = record \/ record'.hash # NoTx
  BY <1>1, ConstantsAssumption DEF wallet, StopPayment, TicketOver, Fit, HashOf, MarkExpired
<1>10. thread'[t].pc = "makeTx" => ticket = "valid" /\ (~Held \/ p \in quoted)
  BY <1>1, <1>3 DEF Idle
<1>11. Refused(t)' => Refused(t) \/ ~Held
  BY <1>3 DEF Refused, Idle
<1>12. Held => quoted' \subseteq quoted
  BY <1>1 DEF wallet, payment, StartOver, MarkExpired
<1>13. UNCHANGED <<store, vsp>>
       /\ (unpub' = unpub \/ (ticket = "valid" /\ vsp.status = "broadcast"
                                /\ unpub' = unpub \ {feeHash[p]}))
  BY DEF wallet, ShowsPublished, FeeIsFinal, TicketOver, MarkExpired
<1>. QED
  BY <1>1, <1>3, <1>4, <1>7, <1>8, <1>9, <1>10, <1>11, <1>12, <1>13 DEF Keep, Idle

LEMMA MarkRejectedIs ==
  ASSUME IInv, Fitting, NEW t \in Threads, MarkRejected(t)
  PROVE  Fitting' /\ Keep(t)
<1>. DEFINE p == Pay(t)
<1>1. /\ p \in Payments /\ TypeOK /\ thread[t] \in ThreadStates /\ HashOf(p) /\ Fit(t)
      /\ thread[t].pc \in LockedPCs /\ thread[t].pc # "paidMark"
  BY DEF IInv, TypeOK, Equipped, Fitting, MarkRejected
<1>2. Return(t) \/ \E pc \in {"rejected"} : Goto(t, pc)
  BY DEF StartOver, TicketOver, MarkRejected
<1>3. /\ Others(t) /\ thread'[t].tx = NoTx
      /\ \/ thread'[t] = Idle
         \/ /\ thread'[t].pay = p
            /\ thread'[t].pc \in {"rejected"}
            /\ thread'[t].answer = thread[t].answer
  <2>1. thread[t].tx = NoTx
    BY <1>1 DEF Fit
  <2>2. CASE Return(t)
    <3>1. Others(t) /\ thread'[t] = Idle
      BY <1>1, <2>2, ReturnMoves
    <3>2. Idle.tx = NoTx
      BY DEF Idle
    <3>. QED
      BY <3>1, <3>2
  <2>3. ASSUME NEW pc \in {"rejected"}, Goto(t, pc)
        PROVE  /\ Others(t) /\ thread'[t].tx = NoTx /\ thread'[t].pay = p
               /\ thread'[t].pc = pc /\ thread'[t].answer = thread[t].answer
    BY <1>1, <2>1, <2>3, GotoMoves
  <2>. QED
    BY <1>2, <2>2, <2>3
<1>4. feeHash' = feeHash /\ (feeTx'[p] \in Txs \/ feeTx[p] \in Txs => feeTx'[p] = feeTx[p])
  BY <1>1, ConstantsAssumption
     DEF TypeOK, wallet, payment, StopPayment, TicketOver, StartOver, Fit, MarkRejected
<1>5. Fit(t)' /\ feeHash'[p] = IF feeTx'[p] \in Txs THEN feeTx'[p] ELSE NoTx
  BY <1>1, <1>3, <1>4, ConstantsAssumption, GotoMoves, ReturnMoves
     DEF Fit, HashOf, Refused, Idle, Signed, TypeOK, ThreadStates, StartOver,
         QuoteRefusals, AbandonedOn, MarkRejected
<1>6. \A q \in Payments \ {p} :
        feeTx'[q] = feeTx[q] /\ timer'[q] = timer[q] /\ (q \in quoted' <=> q \in quoted)
  BY <1>1 DEF TypeOK, wallet, payment, StopPayment, TicketOver, Schedule, Retry, Remove,
     StartOver, MarkRejected
<1>7. Fitting'
  BY <1>1, <1>3, <1>4, <1>5, <1>6, WorkFits
<1>8. OnPayment(t)
  BY <1>1, <1>3, <1>4, <1>6
     DEF OnPayment, StopPayment, TicketOver, Remove, Active, Serves, Fit, TypeOK,
         QuoteRefusals, FeeIsFinal, MarkRejected
<1>9. /\ record'.hash \in {record.hash, NoTx, feeHash[p]}
      /\ record'.status = "paid" => record' = record \/ record'.hash # NoTx
  BY <1>1, ConstantsAssumption DEF wallet, StopPayment, TicketOver, Fit, HashOf, MarkRejected
<1>10. thread'[t].pc = "makeTx" => ticket = "valid" /\ (~Held \/ p \in quoted)
  BY <1>1, <1>3 DEF Idle
<1>11. Refused(t)' => Refused(t) \/ ~Held
  BY <1>3 DEF Refused, Idle, MarkRejected
<1>12. Held => quoted' \subseteq quoted
  BY <1>1 DEF wallet, payment, StartOver, MarkRejected
<1>13. UNCHANGED <<store, vsp>>
       /\ (unpub' = unpub \/ (ticket = "valid" /\ vsp.status = "broadcast"
                                /\ unpub' = unpub \ {feeHash[p]}))
  BY DEF wallet, ShowsPublished, FeeIsFinal, TicketOver, MarkRejected
<1>. QED
  BY <1>1, <1>3, <1>4, <1>7, <1>8, <1>9, <1>10, <1>11, <1>12, <1>13 DEF Keep, Idle

LEMMA MarkPaidIs ==
  ASSUME IInv, Fitting, NEW t \in Threads, MarkPaid(t)
  PROVE  Fitting' /\ Keep(t)
<1>. DEFINE p == Pay(t)
<1>1. /\ p \in Payments /\ TypeOK /\ thread[t] \in ThreadStates /\ HashOf(p) /\ Fit(t)
      /\ thread[t].pc \in LockedPCs /\ thread[t].pc # "paidMark"
  BY DEF IInv, TypeOK, Equipped, Fitting, MarkPaid
<1>2. Return(t) \/ \E pc \in {"confirm"} : Goto(t, pc)
  BY DEF StartOver, TicketOver, MarkPaid
<1>3. /\ Others(t) /\ thread'[t].tx = NoTx
      /\ \/ thread'[t] = Idle
         \/ /\ thread'[t].pay = p
            /\ thread'[t].pc \in {"confirm"}
            /\ thread'[t].answer = thread[t].answer
  <2>1. thread[t].tx = NoTx
    BY <1>1 DEF Fit
  <2>2. CASE Return(t)
    <3>1. Others(t) /\ thread'[t] = Idle
      BY <1>1, <2>2, ReturnMoves
    <3>2. Idle.tx = NoTx
      BY DEF Idle
    <3>. QED
      BY <3>1, <3>2
  <2>3. ASSUME NEW pc \in {"confirm"}, Goto(t, pc)
        PROVE  /\ Others(t) /\ thread'[t].tx = NoTx /\ thread'[t].pay = p
               /\ thread'[t].pc = pc /\ thread'[t].answer = thread[t].answer
    BY <1>1, <2>1, <2>3, GotoMoves
  <2>. QED
    BY <1>2, <2>2, <2>3
<1>4. feeHash' = feeHash /\ (feeTx'[p] \in Txs \/ feeTx[p] \in Txs => feeTx'[p] = feeTx[p])
  BY <1>1, ConstantsAssumption
     DEF TypeOK, wallet, payment, StopPayment, TicketOver, StartOver, Fit, MarkPaid
<1>5. Fit(t)' /\ feeHash'[p] = IF feeTx'[p] \in Txs THEN feeTx'[p] ELSE NoTx
  BY <1>1, <1>3, <1>4, ConstantsAssumption, GotoMoves, ReturnMoves
     DEF Fit, HashOf, Refused, Idle, Signed, TypeOK, ThreadStates, StartOver,
         QuoteRefusals, AbandonedOn, MarkPaid
<1>6. \A q \in Payments \ {p} :
        feeTx'[q] = feeTx[q] /\ timer'[q] = timer[q] /\ (q \in quoted' <=> q \in quoted)
  BY <1>1 DEF TypeOK, wallet, payment, StopPayment, TicketOver, Schedule, Retry, Remove,
     StartOver, MarkPaid
<1>7. Fitting'
  BY <1>1, <1>3, <1>4, <1>5, <1>6, WorkFits
<1>8. OnPayment(t)
  BY <1>1, <1>3, <1>4, <1>6
     DEF OnPayment, StopPayment, TicketOver, Remove, Active, Serves, Fit, TypeOK,
         QuoteRefusals, FeeIsFinal, MarkPaid
<1>9. /\ record'.hash \in {record.hash, NoTx, feeHash[p]}
      /\ record'.status = "paid" => record' = record \/ record'.hash # NoTx
  BY <1>1, ConstantsAssumption DEF wallet, StopPayment, TicketOver, Fit, HashOf, MarkPaid
<1>10. thread'[t].pc = "makeTx" => ticket = "valid" /\ (~Held \/ p \in quoted)
  BY <1>1, <1>3 DEF Idle
<1>11. Refused(t)' => Refused(t) \/ ~Held
  BY <1>3 DEF Refused, Idle
<1>12. Held => quoted' \subseteq quoted
  BY <1>1 DEF wallet, payment, StartOver, MarkPaid
<1>13. UNCHANGED <<store, vsp>>
       /\ (unpub' = unpub \/ (ticket = "valid" /\ vsp.status = "broadcast"
                                /\ unpub' = unpub \ {feeHash[p]}))
  BY DEF wallet, ShowsPublished, FeeIsFinal, TicketOver, MarkPaid
<1>. QED
  BY <1>1, <1>3, <1>4, <1>7, <1>8, <1>9, <1>10, <1>11, <1>12, <1>13 DEF Keep, Idle

LEMMA ConfirmIs ==
  ASSUME IInv, Fitting, NEW t \in Threads, Confirm(t)
  PROVE  Fitting' /\ Keep(t)
<1>. DEFINE p == Pay(t)
<1>1. /\ p \in Payments /\ TypeOK /\ thread[t] \in ThreadStates /\ HashOf(p) /\ Fit(t)
      /\ thread[t].pc \in LockedPCs /\ thread[t].pc # "paidMark"
  BY DEF IInv, TypeOK, Equipped, Fitting, Confirm
<1>2. Return(t) \/ \E pc \in {"confirmedMark"} : Goto(t, pc)
  BY DEF StartOver, TicketOver, Confirm
<1>3. /\ Others(t) /\ thread'[t].tx = NoTx
      /\ \/ thread'[t] = Idle
         \/ /\ thread'[t].pay = p
            /\ thread'[t].pc \in {"confirmedMark"}
            /\ thread'[t].answer = thread[t].answer
  <2>1. thread[t].tx = NoTx
    BY <1>1 DEF Fit
  <2>2. CASE Return(t)
    <3>1. Others(t) /\ thread'[t] = Idle
      BY <1>1, <2>2, ReturnMoves
    <3>2. Idle.tx = NoTx
      BY DEF Idle
    <3>. QED
      BY <3>1, <3>2
  <2>3. ASSUME NEW pc \in {"confirmedMark"}, Goto(t, pc)
        PROVE  /\ Others(t) /\ thread'[t].tx = NoTx /\ thread'[t].pay = p
               /\ thread'[t].pc = pc /\ thread'[t].answer = thread[t].answer
    BY <1>1, <2>1, <2>3, GotoMoves
  <2>. QED
    BY <1>2, <2>2, <2>3
<1>4. feeHash' = feeHash /\ (feeTx'[p] \in Txs \/ feeTx[p] \in Txs => feeTx'[p] = feeTx[p])
  BY <1>1, ConstantsAssumption
     DEF TypeOK, wallet, payment, StopPayment, TicketOver, StartOver, Fit, Confirm
<1>5. Fit(t)' /\ feeHash'[p] = IF feeTx'[p] \in Txs THEN feeTx'[p] ELSE NoTx
  BY <1>1, <1>3, <1>4, ConstantsAssumption, GotoMoves, ReturnMoves
     DEF Fit, HashOf, Refused, Idle, Signed, TypeOK, ThreadStates, StartOver,
         QuoteRefusals, AbandonedOn, Confirm
<1>6. \A q \in Payments \ {p} :
        feeTx'[q] = feeTx[q] /\ timer'[q] = timer[q] /\ (q \in quoted' <=> q \in quoted)
  BY <1>1 DEF TypeOK, wallet, payment, StopPayment, TicketOver, Schedule, Retry, Remove,
     StartOver, Confirm
<1>7. Fitting'
  BY <1>1, <1>3, <1>4, <1>5, <1>6, WorkFits
<1>8. OnPayment(t)
  BY <1>1, <1>3, <1>4, <1>6
     DEF OnPayment, StopPayment, TicketOver, Remove, Active, Serves, Fit, TypeOK,
         QuoteRefusals, FeeIsFinal, Confirm
<1>9. /\ record'.hash \in {record.hash, NoTx, feeHash[p]}
      /\ record'.status = "paid" => record' = record \/ record'.hash # NoTx
  BY <1>1, ConstantsAssumption DEF wallet, StopPayment, TicketOver, Fit, HashOf, Confirm
<1>10. thread'[t].pc = "makeTx" => ticket = "valid" /\ (~Held \/ p \in quoted)
  BY <1>1, <1>3 DEF Idle
<1>11. Refused(t)' => Refused(t) \/ ~Held
  BY <1>3 DEF Refused, Idle
<1>12. Held => quoted' \subseteq quoted
  BY <1>1 DEF wallet, payment, StartOver, Confirm
<1>13. UNCHANGED <<store, vsp>>
       /\ (unpub' = unpub \/ (ticket = "valid" /\ vsp.status = "broadcast"
                                /\ unpub' = unpub \ {feeHash[p]}))
  BY DEF wallet, ShowsPublished, FeeIsFinal, TicketOver, Confirm
<1>. QED
  BY <1>1, <1>3, <1>4, <1>7, <1>8, <1>9, <1>10, <1>11, <1>12, <1>13 DEF Keep, Idle

LEMMA MarkConfirmedIs ==
  ASSUME IInv, Fitting, NEW t \in Threads, MarkConfirmed(t)
  PROVE  Fitting' /\ Keep(t)
<1>. DEFINE p == Pay(t)
<1>1. /\ p \in Payments /\ TypeOK /\ thread[t] \in ThreadStates /\ HashOf(p) /\ Fit(t)
      /\ thread[t].pc \in LockedPCs /\ thread[t].pc # "paidMark"
  BY DEF IInv, TypeOK, Equipped, Fitting, MarkConfirmed
<1>2. Return(t) \/ \E pc \in {} : Goto(t, pc)
  BY DEF StartOver, TicketOver, MarkConfirmed
<1>3. /\ Others(t) /\ thread'[t].tx = NoTx
      /\ \/ thread'[t] = Idle
         \/ /\ thread'[t].pay = p
            /\ thread'[t].pc \in {}
            /\ thread'[t].answer = thread[t].answer
  <2>1. thread[t].tx = NoTx
    BY <1>1 DEF Fit
  <2>2. CASE Return(t)
    <3>1. Others(t) /\ thread'[t] = Idle
      BY <1>1, <2>2, ReturnMoves
    <3>2. Idle.tx = NoTx
      BY DEF Idle
    <3>. QED
      BY <3>1, <3>2
  <2>3. ASSUME NEW pc \in {}, Goto(t, pc)
        PROVE  /\ Others(t) /\ thread'[t].tx = NoTx /\ thread'[t].pay = p
               /\ thread'[t].pc = pc /\ thread'[t].answer = thread[t].answer
    BY <1>1, <2>1, <2>3, GotoMoves
  <2>. QED
    BY <1>2, <2>2, <2>3
<1>4. feeHash' = feeHash /\ (feeTx'[p] \in Txs \/ feeTx[p] \in Txs => feeTx'[p] = feeTx[p])
  BY <1>1, ConstantsAssumption
     DEF TypeOK, wallet, payment, StopPayment, TicketOver, StartOver, Fit, MarkConfirmed
<1>5. Fit(t)' /\ feeHash'[p] = IF feeTx'[p] \in Txs THEN feeTx'[p] ELSE NoTx
  BY <1>1, <1>3, <1>4, ConstantsAssumption, GotoMoves, ReturnMoves
     DEF Fit, HashOf, Refused, Idle, Signed, TypeOK, ThreadStates, StartOver,
         QuoteRefusals, AbandonedOn, MarkConfirmed
<1>6. \A q \in Payments \ {p} :
        feeTx'[q] = feeTx[q] /\ timer'[q] = timer[q] /\ (q \in quoted' <=> q \in quoted)
  BY <1>1 DEF TypeOK, wallet, payment, StopPayment, TicketOver, Schedule, Retry, Remove,
     StartOver, MarkConfirmed
<1>7. Fitting'
  BY <1>1, <1>3, <1>4, <1>5, <1>6, WorkFits
<1>8. OnPayment(t)
  BY <1>1, <1>3, <1>4, <1>6
     DEF OnPayment, StopPayment, TicketOver, Remove, Active, Serves, Fit, TypeOK,
         QuoteRefusals, FeeIsFinal, MarkConfirmed
<1>9. /\ record'.hash \in {record.hash, NoTx, feeHash[p]}
      /\ record'.status = "paid" => record' = record \/ record'.hash # NoTx
  BY <1>1, ConstantsAssumption DEF wallet, StopPayment, TicketOver, Fit, HashOf, MarkConfirmed
<1>10. thread'[t].pc = "makeTx" => ticket = "valid" /\ (~Held \/ p \in quoted)
  BY <1>1, <1>3 DEF Idle
<1>11. Refused(t)' => Refused(t) \/ ~Held
  BY <1>3 DEF Refused, Idle
<1>12. Held => quoted' \subseteq quoted
  BY <1>1 DEF wallet, payment, StartOver, MarkConfirmed
<1>13. UNCHANGED <<store, vsp>>
       /\ (unpub' = unpub \/ (ticket = "valid" /\ vsp.status = "broadcast"
                                /\ unpub' = unpub \ {feeHash[p]}))
  BY DEF wallet, ShowsPublished, FeeIsFinal, TicketOver, MarkConfirmed
<1>. QED
  BY <1>1, <1>3, <1>4, <1>7, <1>8, <1>9, <1>10, <1>11, <1>12, <1>13 DEF Keep, Idle

\* A fee tx that cannot be made leaves no finished one behind, as there was none.
LEMMA MakeFailedIs ==
  ASSUME IInv, Fitting, NEW t \in Threads, MakeFailed(t),
         thread[t].pc \in {"makeTx", "paidMark"},
         UNCHANGED <<ticket, jobs>>
  PROVE  /\ Fitting'
         /\ OnPayment(t)
         /\ feeHash' = feeHash /\ quoted' \subseteq quoted
         /\ thread'[t].pc \in {"idle", "erroredMark"} /\ thread'[t].tx = NoTx
<1>. DEFINE p == Pay(t)
<1>1. /\ p \in Payments /\ TypeOK /\ thread[t] \in ThreadStates /\ HashOf(p) /\ Fit(t)
      /\ thread[t].pc \in LockedPCs
  BY DEF IInv, TypeOK, Equipped, Fitting
<1>2. /\ Others(t) /\ thread'[t].tx = NoTx
      /\ \/ thread'[t] = Idle
         \/ thread'[t].pay = p /\ thread'[t].pc = "erroredMark"
  <2>1. CASE thread' = [thread EXCEPT ![t].pc = "erroredMark", ![t].tx = NoTx]
    BY <1>1, <2>1 DEF TypeOK, ThreadStates, Others
  <2>2. CASE Return(t)
    <3>1. Others(t) /\ thread'[t] = Idle
      BY <1>1, <2>2, ReturnMoves
    <3>2. Idle.tx = NoTx
      BY DEF Idle
    <3>. QED
      BY <3>1, <3>2
  <2>. QED
    BY <2>1, <2>2 DEF MakeFailed, StartOver
<1>3. feeTx[p] \notin Txs /\ feeHash[p] = NoTx
  BY <1>1 DEF Fit, HashOf
<1>4. feeHash' = feeHash /\ feeTx'[p] \notin Txs
  BY <1>1, <1>3, ConstantsAssumption DEF TypeOK, MakeFailed, StartOver
<1>5. Fit(t)' /\ feeHash'[p] = IF feeTx'[p] \in Txs THEN feeTx'[p] ELSE NoTx
  BY <1>2, <1>3, <1>4 DEF Fit, Refused, Idle
<1>6. \A q \in Payments \ {p} :
        feeTx'[q] = feeTx[q] /\ timer'[q] = timer[q] /\ (q \in quoted' <=> q \in quoted)
  BY <1>1 DEF TypeOK, MakeFailed, StartOver, Schedule, Retry
<1>7. Fitting'
  BY <1>1, <1>2, <1>4, <1>5, <1>6, WorkFits
<1>8. OnPayment(t)
  BY <1>1, <1>2, <1>4, <1>6 DEF OnPayment
<1>9. quoted' \subseteq quoted
  BY DEF MakeFailed, StartOver
<1>. QED
  BY <1>2, <1>4, <1>7, <1>8, <1>9 DEF Idle

LEMMA MakeFeeTxIs ==
  ASSUME IInv, Fitting, NEW t \in Threads, MakeFeeTx(t)
  PROVE  Fitting' /\ (Make(t) \/ Keep(t))
<1>. DEFINE p == Pay(t)
<1>1. /\ p \in Payments /\ TypeOK /\ thread[t] \in ThreadStates /\ HashOf(p) /\ Fit(t)
      /\ At(t, "makeTx") /\ UNCHANGED <<record, vsp, ticket, jobs>>
  BY DEF IInv, TypeOK, Equipped, Fitting, MakeFeeTx
<1>2. CASE MakeFailed(t) /\ UNCHANGED <<store, unpub>>
  <2>1. /\ Fitting' /\ OnPayment(t) /\ feeHash' = feeHash /\ quoted' \subseteq quoted
        /\ thread'[t].pc \in {"idle", "erroredMark"} /\ thread'[t].tx = NoTx
    BY <1>1, <1>2, MakeFailedIs
  <2>. QED
    BY <1>1, <1>2, <2>1 DEF Keep, Refused
<1>3. CASE \E tx \in Txs :
        /\ Unknown(tx)
        /\ store' = store \cup {tx} /\ unpub' = unpub \cup {tx}
        /\ thread' = [thread EXCEPT ![t].pc = "paidMark", ![t].tx = tx]
        /\ UNCHANGED <<feeTx, feeHash, quoted, timer>>
  <2>1. PICK tx \in Txs :
          /\ Unknown(tx)
          /\ store' = store \cup {tx} /\ unpub' = unpub \cup {tx}
          /\ thread' = [thread EXCEPT ![t].pc = "paidMark", ![t].tx = tx]
          /\ UNCHANGED <<feeTx, feeHash, quoted, timer>>
    BY <1>3
  <2>2. /\ Others(t) /\ thread'[t].pc = "paidMark" /\ thread'[t].pay = p
        /\ thread'[t].tx = tx
    BY <1>1, <2>1 DEF TypeOK, ThreadStates, Others
  <2>3. Fit(t)'
    BY <1>1, <2>1, <2>2 DEF Fit, Refused
  <2>4. Fitting'
    BY <2>1, <2>2, <2>3, QuietFits
  <2>5. OnPayment(t)
    BY <1>1, <2>1, <2>2 DEF OnPayment
  <2>. QED
    BY <1>1, <2>1, <2>2, <2>4, <2>5 DEF Make
<1>. QED
  BY <1>2, <1>3 DEF MakeFeeTx

LEMMA RecordFeeTxIs ==
  ASSUME IInv, Fitting, NEW t \in Threads, RecordFeeTx(t)
  PROVE  Fitting' /\ (RecordIt(t) \/ DropIt(t))
<1>. DEFINE p == Pay(t)
<1>1. /\ p \in Payments /\ TypeOK /\ thread[t] \in ThreadStates /\ HashOf(p) /\ Fit(t)
      /\ At(t, "paidMark") /\ UNCHANGED <<vsp, ticket, jobs>> /\ thread[t].tx \in Txs
  BY DEF IInv, TypeOK, Equipped, Fitting, RecordFeeTx
<1>2. CASE WriteFailed /\ Abandon(thread[t].tx) /\ MakeFailed(t)
  <2>1. /\ Fitting' /\ OnPayment(t) /\ feeHash' = feeHash /\ quoted' \subseteq quoted
        /\ thread'[t].pc \in {"idle", "erroredMark"} /\ thread'[t].tx = NoTx
    BY <1>1, <1>2, MakeFailedIs
  <2>. QED
    BY <1>1, <1>2, <2>1 DEF DropIt
<1>3. CASE /\ Wrote(RecordOf("paid", thread[t].tx))
           /\ feeTx' = [feeTx EXCEPT ![p] = thread[t].tx]
           /\ feeHash' = [feeHash EXCEPT ![p] = thread[t].tx]
           /\ thread' = [thread EXCEPT ![t].pc = "submit", ![t].tx = NoTx]
           /\ UNCHANGED <<store, unpub, quoted, timer>>
  <2>2. /\ Others(t) /\ thread'[t].pc = "submit" /\ thread'[t].pay = p
        /\ thread'[t].tx = NoTx
    BY <1>1, <1>3 DEF TypeOK, ThreadStates, Others
  <2>3. feeTx'[p] = thread[t].tx /\ feeHash'[p] = thread[t].tx
    BY <1>1, <1>3 DEF TypeOK
  <2>4. Fit(t)' /\ feeHash'[p] = IF feeTx'[p] \in Txs THEN feeTx'[p] ELSE NoTx
    BY <1>1, <2>2, <2>3 DEF Fit, Refused
  <2>5. \A q \in Payments \ {p} : feeTx'[q] = feeTx[q] /\ feeHash'[q] = feeHash[q]
    BY <1>1, <1>3 DEF TypeOK
  <2>6. Fitting'
    BY <1>1, <2>2, <2>4, <2>5, WorkFits
  <2>7. OnPayment(t)
    BY <1>1, <1>3, <2>2, <2>5 DEF OnPayment
  <2>. QED
    BY <1>1, <1>3, <2>2, <2>6, <2>7 DEF RecordIt
<1>. QED
  BY <1>2, <1>3 DEF RecordFeeTx, MadeHash

LEMMA GiveUpFits ==
  ASSUME IInv, Fitting, NEW t \in Threads, thread[t].pc \in LockedPCs, Others(t),
         Forget(Pay(t)), UNCHANGED <<ticket, jobs>>,
         \A q \in Payments \ {Pay(t)} : timer'[q] = timer[q],
         thread'[t] = Idle \/ (thread'[t].pc = "expiredMark" /\ thread'[t].pay = Pay(t)),
         thread'[t].tx = NoTx
  PROVE  Fitting' /\ OnPayment(t)
<1>. DEFINE p == Pay(t)
<1>1. p \in Payments /\ TypeOK
  BY DEF IInv, TypeOK, Equipped
<1>2. feeTx'[p] = NoTx /\ feeHash'[p] = NoTx
  BY <1>1 DEF Forget, TypeOK
<1>3. \A q \in Payments \ {p} :
        feeTx'[q] = feeTx[q] /\ feeHash'[q] = feeHash[q] /\ (q \in quoted' <=> q \in quoted)
  BY <1>1 DEF Forget, TypeOK
<1>4. Fit(t)' /\ feeHash'[p] = IF feeTx'[p] \in Txs THEN feeTx'[p] ELSE NoTx
  BY <1>2, ConstantsAssumption DEF Fit, Idle, Refused
<1>. QED
  BY <1>1, <1>3, <1>4, WorkFits DEF OnPayment

LEMMA FeeExpiredIs ==
  ASSUME IInv, Fitting, NEW t \in Threads, FeeExpired(t)
  PROVE  Fitting' /\ GiveItUp(t)
<1>. DEFINE p == Pay(t)
<1>1. /\ p \in Payments /\ TypeOK /\ thread[t] \in ThreadStates /\ HashOf(p) /\ Fit(t)
      /\ At(t, "answered") /\ thread[t].answer = "expired"
      /\ UNCHANGED <<record, vsp, ticket, jobs, timer>>
  BY DEF IInv, TypeOK, Equipped, Fitting, FeeExpired, AbandonedOn
<1>2. /\ Others(t) /\ thread'[t].pc = "expiredMark" /\ thread'[t].pay = p
      /\ thread'[t].tx = thread[t].tx
  BY <1>1, GotoMoves DEF FeeExpired
<1>3. thread[t].tx = NoTx /\ feeTx[p] = feeHash[p]
  BY <1>1 DEF Fit, HashOf
<1>4. Forget(p) /\ Abandon(feeHash[p])
  BY <1>3 DEF FeeExpired
<1>5. Fitting' /\ OnPayment(t)
  BY <1>1, <1>2, <1>3, <1>4, GiveUpFits
<1>. QED
  BY <1>1, <1>2, <1>3, <1>4, <1>5 DEF GiveItUp, Refused, Forget

LEMMA AbandonRejectedIs ==
  ASSUME IInv, Fitting, NEW t \in Threads, AbandonRejected(t)
  PROVE  Fitting' /\ GiveItUp(t)
<1>. DEFINE p == Pay(t)
<1>1. /\ p \in Payments /\ TypeOK /\ At(t, "rejected")
      /\ UNCHANGED <<record, vsp, ticket, jobs>>
  BY DEF IInv, TypeOK, Equipped, AbandonRejected
<1>2. Others(t) /\ thread'[t] = Idle
  BY <1>1, ReturnMoves DEF AbandonRejected
<1>3. Idle.tx = NoTx /\ Idle.pc = "idle"
  BY DEF Idle
<1>4. Forget(p) /\ Abandon(feeHash[p])
  BY DEF AbandonRejected
<1>5. \A q \in Payments \ {p} : timer'[q] = timer[q]
  BY <1>1 DEF AbandonRejected, Retry, Schedule, TypeOK
<1>6. Fitting' /\ OnPayment(t)
  BY <1>1, <1>2, <1>3, <1>4, <1>5, GiveUpFits
<1>. QED
  BY <1>1, <1>2, <1>3, <1>4, <1>6 DEF GiveItUp, Refused, Forget

LEMMA SubmitIs ==
  ASSUME IInv, Fitting, NEW t \in Threads, Submit(t)
  PROVE  Fitting' /\ (Keep(t) \/ Take(t))
<1>. DEFINE p == Pay(t)
            Answered(a) == thread' = [thread EXCEPT ![t].pc = "answered", ![t].answer = a]
<1>1. /\ p \in Payments /\ TypeOK /\ thread[t] \in ThreadStates /\ HashOf(p) /\ Fit(t)
      /\ At(t, "submit") /\ UNCHANGED <<store, unpub, ticket, feeTx, feeHash, quoted>>
  BY DEF IInv, TypeOK, Equipped, Fitting, Submit, payment
<1>2. thread[t].tx = NoTx /\ feeTx[p] \in Txs /\ feeTx[p] = feeHash[p]
  BY <1>1 DEF Fit, HashOf
<1>3. ASSUME NEW a \in {"ok", "net", "already", "expired", "invalid"}, Answered(a),
             a \in {"expired", "invalid"} => "reject" \in Faults
      PROVE  /\ Others(t) /\ At(t, "answered")' /\ thread'[t].answer = a
             /\ thread'[t].pay = p /\ thread'[t].tx = NoTx /\ Fitting'
  <2>1. /\ Others(t) /\ thread'[t].pc = "answered" /\ thread'[t].answer = a
        /\ thread'[t].pay = p /\ thread'[t].tx = NoTx
    BY <1>1, <1>2, <1>3 DEF TypeOK, ThreadStates, Others
  <2>2. Fit(t)'
    BY <1>1, <1>2, <1>3, <2>1 DEF Fit, Refused
  <2>. QED
    BY <1>1, <2>1, <2>2, QuietFits
<1>4. CASE /\ ticket = "valid" /\ ~Held
           /\ \E s \in {"received", "broadcast"} : vsp' = [status |-> s, tx |-> feeTx[p]]
           /\ Answered("ok") \/ ("net" \in Faults /\ Answered("net"))
           /\ UNCHANGED <<record, jobs, timer>>
  <2>1. /\ Others(t) /\ At(t, "answered")' /\ thread'[t].answer \in {"ok", "net"}
        /\ thread'[t].pay = p /\ thread'[t].tx = NoTx /\ Fitting'
    BY <1>3, <1>4
  <2>2. OnPayment(t)
    BY <1>1, <1>4, <2>1 DEF OnPayment
  <2>. QED
    BY <1>1, <1>2, <1>4, <2>1, <2>2 DEF Take
<1>5. CASE /\ ticket = "valid"
           /\ \E a \in {"net", "already", "expired", "invalid"} :
                Answered(a) /\ (a \in {"expired", "invalid"} => ~Held /\ "reject" \in Faults)
           /\ UNCHANGED <<record, vsp, jobs, timer>>
  <2>1. PICK a \in {"net", "already", "expired", "invalid"} :
          Answered(a) /\ (a \in {"expired", "invalid"} => ~Held /\ "reject" \in Faults)
    BY <1>5
  <2>2. /\ Others(t) /\ At(t, "answered")' /\ thread'[t].answer = a
        /\ thread'[t].pay = p /\ thread'[t].tx = NoTx /\ Fitting'
    BY <1>3, <2>1
  <2>3. OnPayment(t)
    BY <1>1, <1>5, <2>2 DEF OnPayment
  <2>. QED
    BY <1>1, <1>5, <2>1, <2>2, <2>3 DEF Keep, Refused
<1>6. CASE /\ \E m \in {"reconcile", "none"} : StopPayment(p, m)
           /\ Return(t) /\ vsp' = vsp
  <2>1. Others(t) /\ thread'[t] = Idle
    BY <1>1, <1>6, ReturnMoves
  <2>2. Idle.tx = NoTx /\ Idle.pc = "idle" /\ Idle.pay = NoPay
    BY DEF Idle
  <2>3. Fit(t)'
    BY <2>1, <2>2 DEF Fit, Refused
  <2>4. Fitting'
    BY <1>1, <2>1, <2>3, QuietFits
  <2>5. /\ \A q \in Payments \ {p} : timer'[q] = timer[q]
        /\ ticket # "valid"
    BY <1>1, <1>6 DEF StopPayment, Schedule, TypeOK
  <2>6. OnPayment(t)
    BY <1>1, <1>6, <2>1, <2>5 DEF OnPayment, Active, StopPayment, TypeOK
  <2>7. record' = NoRecord \/ record' = record
    BY <1>6 DEF StopPayment
  <2>. QED
    BY <1>1, <1>6, <2>1, <2>2, <2>4, <2>6, <2>7 DEF Keep, Refused
<1>7. \/ /\ \E m \in {"reconcile", "none"} : StopPayment(p, m)
         /\ Return(t) /\ vsp' = vsp
      \/ /\ ticket = "valid" /\ UNCHANGED <<record, jobs, timer>>
         /\ \/ /\ ~Held
               /\ \E s \in {"received", "broadcast"} : vsp' = [status |-> s, tx |-> feeTx[p]]
               /\ Answered("ok") \/ ("net" \in Faults /\ Answered("net"))
            \/ /\ ~Held /\ "reject" \in Faults
               /\ Answered("expired") \/ Answered("invalid")
               /\ UNCHANGED vsp
            \/ /\ Held /\ Answered("already")
               /\ UNCHANGED vsp
            \/ /\ "net" \in Faults /\ Answered("net")
               /\ UNCHANGED vsp
  BY Zenon DEF Submit
<1>. HIDE DEF Answered
<1>. QED
  BY <1>4, <1>5, <1>6, <1>7

LEMMA BeginIs ==
  ASSUME IInv, Fitting, NEW t \in Threads, NEW c \in Clients, NEW pc \in {"read", "managed"},
         NEW own \in BOOLEAN, Begin(t, pc, c, own),
         UNCHANGED <<record, store, unpub, vsp, ticket, jobs, feeTx, feeHash, timer, quoted>>
  PROVE  Fitting' /\ Approach(t)
<1>1. TypeOK /\ At(t, "idle")
  BY DEF IInv, Begin
<1>2. Others(t) /\ thread'[t].pc = pc /\ thread'[t].pay = NoPay /\ thread'[t].tx = NoTx
  BY <1>1 DEF Begin, Idle, Others, TypeOK
<1>3. Fit(t)'
  BY <1>2 DEF Fit, Refused
<1>4. Fitting'
  BY <1>2, <1>3, QuietFits
<1>. QED
  BY <1>1, <1>2, <1>4 DEF Approach

LEMMA CallIs ==
  ASSUME IInv, Fitting, NEW t \in Threads, Call(t)
  PROVE  Fitting' /\ Approach(t)
BY BeginIs DEF Call, Purchase, ProcessUnpaid, ProcessManaged, wallet, payment

\* A goroutine without a payment that returns, or goes on without one.
LEMMA ApproachIs ==
  ASSUME IInv, Fitting, NEW t \in Threads, thread[t].pc \notin PayPCs,
         Others(t), thread'[t].pay = NoPay, thread'[t].pc \notin PayPCs,
         thread'[t].tx = NoTx,
         thread'[t].pc # "managedMark",
         record' = record \/ (At(t, "managedMark") /\ record'.hash = thread[t].tx),
         UNCHANGED <<store, unpub, vsp, ticket, jobs, feeTx, feeHash, timer, quoted>>
  PROVE  Fitting' /\ Approach(t)
<1>1. Fit(t)'
  BY DEF Fit, Refused
<1>. QED
  BY <1>1, QuietFits DEF Approach

LEMMA ReturnApproaches ==
  ASSUME IInv, Fitting, NEW t \in Threads, thread[t].pc \notin PayPCs, Return(t),
         record' = record \/ (At(t, "managedMark") /\ record'.hash = thread[t].tx),
         UNCHANGED <<store, unpub, vsp, ticket, jobs, feeTx, feeHash, timer, quoted>>
  PROVE  Fitting' /\ Approach(t)
<1>1. Others(t) /\ thread'[t] = Idle
  BY ReturnMoves DEF IInv
<1>2. Idle.tx = NoTx /\ Idle.pc = "idle" /\ Idle.pay = NoPay
  BY DEF Idle
<1>. QED
  BY <1>1, <1>2, ApproachIs

LEMMA GotoApproaches ==
  ASSUME IInv, Fitting, NEW t \in Threads, thread[t].pc \notin PayPCs,
         NEW pc \in {"read", "lookup", "managedStatus"}, Goto(t, pc),
         thread[t].pc # "managedMark",
         UNCHANGED <<record, store, unpub, vsp, ticket, jobs, feeTx, feeHash, timer, quoted>>
  PROVE  Fitting' /\ Approach(t)
<1>1. TypeOK /\ Fit(t)
  BY DEF IInv, Fitting
<1>2. /\ Others(t) /\ thread'[t].pc = pc /\ thread'[t].pay = Pay(t)
      /\ thread'[t].tx = thread[t].tx
  BY <1>1, GotoMoves
<1>3. Pay(t) = NoPay /\ thread[t].tx = NoTx
  BY <1>1 DEF Fit
<1>. QED
  BY <1>2, <1>3, ApproachIs

LEMMA ManagedLookupIs ==
  ASSUME IInv, Fitting, NEW t \in Threads, ManagedLookup(t)
  PROVE  Fitting' /\ Approach(t)
BY ReturnApproaches, GotoApproaches DEF ManagedLookup, wallet, payment

LEMMA ManagedStatusIs ==
  ASSUME IInv, Fitting, NEW t \in Threads, ManagedStatus(t)
  PROVE  Fitting' /\ Approach(t)
<1>1. /\ At(t, "managedStatus")
      /\ UNCHANGED <<record, store, unpub, vsp, ticket, jobs, feeTx, feeHash, timer, quoted>>
  BY DEF ManagedStatus, wallet, payment
<1>2. CASE Return(t)
  BY <1>1, <1>2, ReturnApproaches
<1>3. CASE Goto(t, "read")
  BY <1>1, <1>3, GotoApproaches
<1>4. CASE /\ vsp.status # "none"
           /\ thread' = [thread EXCEPT ![t].pc = "managedMark", ![t].tx = vsp.tx,
                                       ![t].answer = vsp.status]
  <2>1. TypeOK /\ Fit(t) /\ thread[t] \in ThreadStates
    BY DEF IInv, TypeOK, Fitting
  <2>2. /\ Others(t) /\ thread'[t].pc = "managedMark" /\ thread'[t].pay = Pay(t)
        /\ thread'[t].tx = vsp.tx
    BY <1>4, <2>1 DEF TypeOK, ThreadStates, Others
  <2>3. Fit(t)'
    BY <1>1, <2>1, <2>2 DEF Fit, Refused
  <2>4. Fitting'
    BY <1>1, <2>2, <2>3, QuietFits
  <2>5. thread'[t].pay = NoPay
    BY <1>1, <2>1, <2>2 DEF Fit
  <2>. QED
    BY <1>1, <1>4, <2>2, <2>4, <2>5 DEF Approach
<1>. QED
  BY <1>2, <1>3, <1>4 DEF ManagedStatus

LEMMA ManagedMarkIs ==
  ASSUME IInv, Fitting, NEW t \in Threads, ManagedMark(t)
  PROVE  Fitting' /\ Approach(t)
<1>1. /\ At(t, "managedMark")
      /\ UNCHANGED <<store, unpub, vsp, ticket, jobs, feeTx, feeHash, timer, quoted>>
      /\ record' = record \/ record'.hash = thread[t].tx
  BY DEF ManagedMark, payment
<1>2. CASE Return(t)
  BY <1>1, <1>2, ReturnApproaches
<1>3. CASE thread' = [thread EXCEPT ![t].pc = "read", ![t].tx = NoTx]
  <2>1. TypeOK /\ Fit(t) /\ thread[t] \in ThreadStates
    BY DEF IInv, TypeOK, Fitting
  <2>2. /\ Others(t) /\ thread'[t].pc = "read" /\ thread'[t].pay = Pay(t)
        /\ thread'[t].tx = NoTx
    BY <1>3, <2>1 DEF TypeOK, ThreadStates, Others
  <2>3. Pay(t) = NoPay
    BY <1>1, <2>1 DEF Fit
  <2>. QED
    BY <1>1, <2>2, <2>3, ApproachIs
<1>. QED
  BY <1>2, <1>3 DEF ManagedMark

LEMMA ReadRecordIs ==
  ASSUME IInv, Fitting, NEW t \in Threads, ReadRecord(t)
  PROVE  Fitting' /\ Approach(t)
<1>1. /\ At(t, "read")
      /\ UNCHANGED <<record, store, unpub, vsp, ticket, jobs, feeTx, feeHash, timer, quoted>>
  BY DEF ReadRecord, wallet, payment
<1>2. CASE Return(t)
  BY <1>1, <1>2, ReturnApproaches
<1>3. ASSUME NEW task \in {"paid", "pay"},
             thread' = [thread EXCEPT ![t].pc = "lookup", ![t].task = task]
      PROVE  Fitting' /\ Approach(t)
  <2>1. TypeOK /\ Fit(t) /\ thread[t] \in ThreadStates
    BY DEF IInv, TypeOK, Fitting
  <2>2. /\ Others(t) /\ thread'[t].pc = "lookup" /\ thread'[t].pay = Pay(t)
        /\ thread'[t].tx = thread[t].tx
    BY <1>3, <2>1 DEF TypeOK, ThreadStates, Others
  <2>3. Pay(t) = NoPay /\ thread[t].tx = NoTx
    BY <1>1, <2>1 DEF Fit
  <2>. QED
    BY <1>1, <2>2, <2>3, ApproachIs
<1>. QED
  BY <1>2, <1>3, Zenon DEF ReadRecord

\* A goroutine turns to a registered payment.
LEMMA TurnIs ==
  ASSUME IInv, Fitting, NEW t \in Threads, thread[t].pc \notin LockedPCs, Others(t),
         thread'[t].pc \in {"lock", "quote", "confirm", "reconcile"},
         thread'[t].pay \in Payments, thread'[t].tx = NoTx,
         \/ Arriving(t) /\ thread'[t].pay = Pay(t)
         \/ \E c \in Clients : jobs[c] = thread'[t].pay
         \/ timer[thread'[t].pay] # "none",
         \A q \in Payments :
            timer'[q] # "none" => timer[q] # "none" \/ (Arriving(t) /\ q = Pay(t)),
         UNCHANGED <<record, store, unpub, vsp, ticket, jobs, feeTx, feeHash, quoted>>
  PROVE  Fitting' /\ Turn(t)
<1>1. Fit(t)'
  BY DEF Fit, Refused
<1>. QED
  BY <1>1, QuietFits DEF Turn

LEMMA LookupJobIs ==
  ASSUME IInv, Fitting, NEW t \in Threads, LookupJob(t)
  PROVE  Fitting' /\ (Approach(t) \/ Turn(t))
<1>. DEFINE c == thread[t].client
<1>1. /\ At(t, "lookup") /\ TypeOK /\ Fit(t) /\ thread[t] \in ThreadStates /\ c \in Clients
      /\ jobs[c] \in Payments \cup {NoPay}
      /\ UNCHANGED <<record, store, unpub, vsp, ticket, jobs, feeTx, feeHash, timer, quoted>>
  BY DEF LookupJob, wallet, payment, IInv, TypeOK, Fitting, Equipped
<1>2. thread[t].tx = NoTx
  BY <1>1 DEF Fit
<1>3. CASE jobs[c] = NoPay
  <2>1. /\ Others(t) /\ thread'[t].pc = "create" /\ thread'[t].pay = NoPay
        /\ thread'[t].tx = NoTx
    BY <1>1, <1>2, <1>3 DEF LookupJob, TypeOK, ThreadStates, Others
  <2>. QED
    BY <1>1, <2>1, ApproachIs
<1>4. CASE jobs[c] # NoPay
  <2>1. /\ Others(t) /\ thread'[t].pc = "lock" /\ thread'[t].pay = jobs[c]
        /\ thread'[t].tx = NoTx
    BY <1>1, <1>2, <1>4 DEF LookupJob, TypeOK, ThreadStates, Others
  <2>. QED
    BY <1>1, <1>4, <2>1, TurnIs
<1>. QED
  BY <1>3, <1>4

LEMMA CreatePaymentIs ==
  ASSUME IInv, Fitting, NEW t \in Threads, CreatePayment(t)
  PROVE  Fitting' /\ \E p \in Payments : Create(t, p)
<1>. DEFINE known == ticket # "spent" /\ record.hash \in store
            tx    == IF known THEN record.hash ELSE NoTx
<1>1. PICK p \in Payments :
        /\ Garbage(p)
        /\ feeTx' = [feeTx EXCEPT ![p] = tx]
        /\ feeHash' = [feeHash EXCEPT ![p] = tx]
        /\ quoted' = quoted \ {p}
        /\ \E pc \in {"start", "register"} :
             thread' = [thread EXCEPT ![t].pay = p, ![t].pc = pc]
  BY Zenon DEF CreatePayment
<1>2. /\ At(t, "create") /\ TypeOK /\ Fit(t) /\ thread[t] \in ThreadStates
      /\ UNCHANGED <<record, store, unpub, vsp, ticket, jobs, timer>>
  BY DEF CreatePayment, wallet, IInv, TypeOK, Fitting
<1>3. thread[t].tx = NoTx
  BY <1>2 DEF Fit
<1>4. /\ Others(t) /\ thread'[t].pc \in {"start", "register"} /\ thread'[t].pay = p
      /\ thread'[t].tx = NoTx
  BY <1>1, <1>2, <1>3 DEF TypeOK, ThreadStates, Others
<1>5. Fit(t)'
  BY <1>4 DEF Fit, Refused
<1>6. ASSUME NEW u \in Threads \ {t} PROVE Fit(u)'
  <2>1. thread'[u] = thread[u] /\ Fit(u) /\ Pay(u) # p
    BY <1>1, <1>4 DEF Others, Fitting, Garbage
  <2>2. thread[u].pc \in PayPCs => Pay(u) \in Payments
    BY DEF IInv, Equipped
  <2>3. thread[u].pc \in PayPCs => feeTx'[Pay(u)] = feeTx[Pay(u)]
    BY <1>1, <1>2, <2>1, <2>2 DEF TypeOK
  <2>. QED
    BY <2>1, <2>3 DEF Fit, Refused
<1>7. \A q \in Payments : HashOf(q)'
  <2>1. tx \in Txs \cup {NoTx}
    BY <1>2 DEF TypeOK
  <2>2. tx = IF tx \in Txs THEN tx ELSE NoTx
    BY <2>1
  <2>. HIDE DEF tx
  <2>3. \A q \in Payments : HashOf(q)
    BY DEF Fitting
  <2>. QED
    BY <1>1, <1>2, <2>2, <2>3 DEF TypeOK, HashOf
<1>8. Fitting'
  BY <1>5, <1>6, <1>7 DEF Fitting
<1>9. Create(t, p)
  BY <1>1, <1>2, <1>4 DEF Create
<1>. QED
  BY <1>8, <1>9

LEMMA MarkStartedIs ==
  ASSUME IInv, Fitting, NEW t \in Threads, MarkStarted(t)
  PROVE  Fitting' /\ Start(t)
<1>1. /\ At(t, "start") /\ TypeOK /\ Fit(t)
      /\ UNCHANGED <<store, unpub, vsp, ticket, jobs, feeTx, feeHash, timer, quoted>>
      /\ record' = record \/ record' = RecordOf("started", feeHash[Pay(t)])
  BY DEF MarkStarted, payment, IInv, TypeOK, Fitting
<1>2. /\ Others(t) /\ thread'[t].pc = "register" /\ thread'[t].pay = Pay(t)
      /\ thread'[t].tx = thread[t].tx
  BY <1>1, GotoMoves DEF MarkStarted
<1>3. thread[t].tx = NoTx
  BY <1>1 DEF Fit
<1>4. Fit(t)'
  BY <1>2, <1>3 DEF Fit, Refused
<1>. QED
  BY <1>1, <1>2, <1>3, <1>4, QuietFits DEF Start

LEMMA RegisterJobIs ==
  ASSUME IInv, Fitting, NEW t \in Threads, RegisterJob(t)
  PROVE  Fitting' /\ (Register(t) \/ Turn(t))
<1>. DEFINE c == thread[t].client
<1>1. /\ At(t, "register") /\ TypeOK /\ Fit(t) /\ thread[t] \in ThreadStates /\ c \in Clients
      /\ jobs[c] \in Payments \cup {NoPay} /\ Pay(t) \in Payments
      /\ UNCHANGED <<record, store, unpub, vsp, ticket, feeTx, feeHash, timer, quoted>>
  BY DEF RegisterJob, wallet, payment, IInv, TypeOK, Fitting, Equipped
<1>2. thread[t].tx = NoTx
  BY <1>1 DEF Fit
<1>3. CASE jobs[c] = NoPay
  <2>0. Goto(t, "arm") /\ jobs' = [jobs EXCEPT ![c] = Pay(t)]
    BY <1>3 DEF RegisterJob
  <2>1. /\ Others(t) /\ thread'[t].pc = "arm" /\ thread'[t].pay = Pay(t)
        /\ thread'[t].tx = NoTx
    BY <1>1, <1>2, <2>0, GotoMoves
  <2>2. Fit(t)'
    BY <2>1 DEF Fit, Refused
  <2>. QED
    BY <1>1, <1>3, <2>0, <2>1, <2>2, QuietFits DEF Register
<1>4. CASE jobs[c] # NoPay
  <2>1. /\ Others(t) /\ thread'[t].pc = "lock" /\ thread'[t].pay = jobs[c]
        /\ thread'[t].tx = NoTx /\ jobs' = jobs
    BY <1>1, <1>2, <1>4 DEF RegisterJob, TypeOK, ThreadStates, Others
  <2>. QED
    BY <1>1, <1>4, <2>1, TurnIs
<1>. QED
  BY <1>3, <1>4

LEMMA ArmTimerIs ==
  ASSUME IInv, Fitting, NEW t \in Threads, ArmTimer(t)
  PROVE  Fitting' /\ Turn(t)
<1>1. /\ At(t, "arm") /\ TypeOK /\ Fit(t) /\ Pay(t) \in Payments
      /\ UNCHANGED <<record, store, unpub, vsp, ticket, jobs, feeTx, feeHash, quoted>>
  BY DEF ArmTimer, wallet, payment, IInv, TypeOK, Fitting, Equipped
<1>2. /\ Others(t) /\ thread'[t].pc = "lock" /\ thread'[t].pay = Pay(t)
      /\ thread'[t].tx = thread[t].tx
  BY <1>1, GotoMoves DEF ArmTimer
<1>3. thread[t].tx = NoTx
  BY <1>1 DEF Fit
<1>4. \A q \in Payments : timer'[q] # "none" => timer[q] # "none" \/ q = Pay(t)
  BY <1>1 DEF ArmTimer, Schedule, TypeOK
<1>. QED
  BY <1>1, <1>2, <1>3, <1>4, TurnIs DEF Arriving

LEMMA TimerFiresIs ==
  ASSUME IInv, Fitting, NEW t \in Threads, NEW p \in Payments, TimerFires(t, p)
  PROVE  Fitting' /\ Turn(t)
<1>1. /\ At(t, "idle") /\ TypeOK
      /\ UNCHANGED <<record, store, unpub, vsp, ticket, jobs, feeTx, feeHash, quoted>>
  BY DEF TimerFires, wallet, payment, IInv
<1>2. /\ Others(t) /\ thread'[t].pc = "lock" /\ thread'[t].pay = p
      /\ thread'[t].tx = NoTx
  BY <1>1 DEF TimerFires, Idle, TypeOK, Others
<1>3. \A q \in Payments : timer'[q] # "none" => timer[q] # "none"
  BY <1>1 DEF TimerFires, Schedule, TypeOK
<1>4. timer[p] # "none"
  BY DEF TimerFires
<1>. QED
  BY <1>1, <1>2, <1>3, <1>4, TurnIs

LEMMA LockProcMuIs ==
  ASSUME IInv, Fitting, NEW t \in Threads, LockProcMu(t)
  PROVE  Fitting' /\ Turn(t)
<1>1. /\ At(t, "lock") /\ TypeOK /\ Fit(t) /\ Pay(t) \in Payments /\ thread[t].task \in Tasks
      /\ UNCHANGED <<record, store, unpub, vsp, ticket, jobs, feeTx, feeHash, timer, quoted>>
  BY DEF LockProcMu, wallet, payment, IInv, TypeOK, Fitting, Equipped
<1>2. FirstStep[thread[t].task] \in {"quote", "confirm", "reconcile"}
  BY <1>1 DEF FirstStep
<1>3. /\ Others(t) /\ thread'[t].pc \in {"quote", "confirm", "reconcile"}
      /\ thread'[t].pay = Pay(t) /\ thread'[t].tx = thread[t].tx
  BY <1>1, <1>2, GotoMoves DEF LockProcMu
<1>4. thread[t].tx = NoTx
  BY <1>1 DEF Fit
<1>. QED
  BY <1>1, <1>3, <1>4, TurnIs DEF Arriving

LEMMA EnvironmentFits ==
  ASSUME Fitting, Environment
  PROVE  Fitting'
<1>1. CASE Restart
  BY <1>1, ConstantsAssumption DEF Restart, Fitting, Fit, HashOf, Refused, Idle
<1>2. CASE VspProgress \/ WalletSeesFeeTx \/ VspBroadcastFails \/ TicketEnds
  BY <1>2 DEF VspProgress, WalletSeesFeeTx, VspBroadcastFails, TicketEnds, payment,
     Fitting, Fit, HashOf, Refused
<1>. QED
  BY <1>1, <1>2 DEF Environment

LEMMA StepIs ==
  ASSUME IInv, Fitting, [Next]_vars
  PROVE  Fitting' /\ [Step]_vars
<1>1. ASSUME NEW t \in Threads, Run(t) PROVE Fitting' /\ (Came(t) \/ Worked(t))
  <2>1. CASE \/ ManagedLookup(t) \/ ManagedStatus(t) \/ ManagedMark(t)
             \/ ReadRecord(t) \/ LookupJob(t) \/ CreatePayment(t) \/ MarkStarted(t)
             \/ RegisterJob(t) \/ ArmTimer(t) \/ LockProcMu(t)
    BY <2>1, ManagedLookupIs, ManagedStatusIs, ManagedMarkIs, ReadRecordIs, LookupJobIs,
       CreatePaymentIs, MarkStartedIs, RegisterJobIs, ArmTimerIs, LockProcMuIs DEF Came
  <2>2. CASE \/ QuoteForProcess(t) \/ MarkErrored(t) \/ Reconcile(t) \/ QuoteForReconcile(t)
             \/ MarkTooHigh(t) \/ EndSubmit(t) \/ MarkExpired(t) \/ MarkRejected(t)
             \/ MarkPaid(t) \/ Confirm(t) \/ MarkConfirmed(t)
    BY <2>2, QuoteForProcessIs, MarkErroredIs, ReconcileIs, QuoteForReconcileIs, MarkTooHighIs,
       EndSubmitIs, MarkExpiredIs, MarkRejectedIs, MarkPaidIs, ConfirmIs, MarkConfirmedIs
       DEF Worked
  <2>3. CASE MakeFeeTx(t) \/ RecordFeeTx(t) \/ Submit(t) \/ FeeExpired(t) \/ AbandonRejected(t)
    BY <2>3, MakeFeeTxIs, RecordFeeTxIs, SubmitIs, FeeExpiredIs, AbandonRejectedIs DEF Worked
  <2>. QED
    BY <1>1, <2>1, <2>2, <2>3 DEF Run
<1>2. ASSUME NEW t \in Threads, Call(t) PROVE Fitting' /\ Came(t)
  BY <1>2, CallIs DEF Came
<1>3. ASSUME NEW t \in Threads, Fire(t) PROVE Fitting' /\ Came(t)
  BY <1>3, TimerFiresIs DEF Fire, Came
<1>4. CASE Environment
  BY <1>4, EnvironmentFits DEF Step
<1>5. CASE UNCHANGED vars
  BY <1>5 DEF vars, Fitting, Fit, HashOf, Refused
<1>. QED
  BY <1>1, <1>2, <1>3, <1>4, <1>5 DEF Next, Step

\* Every goroutine's statement fits the fee tx of its payment, and every step is
\* of one of the kinds above.
THEOREM Steps == Spec => []Fitting /\ [][Step]_vars
<1>1. Init => Fitting
  BY ConstantsAssumption DEF Init, Fitting, Fit, HashOf, Refused, Idle
<1>2. IInv /\ Fitting /\ [Next]_vars => Fitting' /\ [Step]_vars
  BY StepIs
<1>. QED
  BY <1>1, <1>2, Inductive, PTL DEF Spec

-----------------------------------------------------------------------------
(* A fee tx that was just made is known to its goroutine and to nobody else. *)

Fresh ==
  \A t \in Threads : At(t, "paidMark") =>
    LET tx == thread[t].tx IN
    /\ tx \in store
    /\ record.hash # tx /\ vsp.tx # tx
    /\ \A p \in Payments : feeHash[p] # tx
    /\ \A u \in Threads \ {t} : thread[u].tx # tx

\* A VSP that knows the ticket has a tx for it, and a paid fee has one.
Marked ==
  /\ \A t \in Threads : At(t, "managedMark") => vsp.status # "none" /\ thread[t].tx \in Txs
  /\ record.status = "paid" => record.hash \in Txs
  /\ vsp.status = "none" => vsp.tx = NoTx
  /\ vsp.status = "error" => "reject" \in Faults

\* What the invariants above say of one state.
Grounds == IInv /\ Fitting /\ Fresh /\ Marked

LEMMA WorkedGrounds ==
  ASSUME Grounds, IInv', Fitting', NEW t \in Threads, Worked(t)
  PROVE  Fresh' /\ Marked'
<1>1. TypeOK /\ TypeOK' /\ Equipped /\ Equipped' /\ Fitting' /\ Fresh /\ Marked /\ Others(t)
      /\ Pay(t) \in Payments /\ VspHasTx /\ VspHasTx'
  BY DEF Grounds, IInv, Worked, Keep, Make, RecordIt, DropIt, Take, GiveItUp, OnPayment,
         Equipped
<1>2. CASE Keep(t)
  <2>1. Fresh'
    BY <1>1, <1>2, ConstantsAssumption DEF Keep, Fresh, Others, TypeOK, Equipped
  <2>2. Marked'
    BY <1>1, <1>2 DEF Keep, Marked, Others, TypeOK, OnPayment, Idle
  <2>. QED
    BY <2>1, <2>2
<1>3. CASE Make(t)
  <2>1. PICK tx \in Txs :
          /\ Unknown(tx)
          /\ store' = store \cup {tx}
          /\ thread'[t].pc = "paidMark" /\ thread'[t].tx = tx
    BY <1>3 DEF Make
  <2>2. Fresh'
    BY <1>1, <1>3, <2>1 DEF Make, Fresh, Others, TypeOK, Unknown, Equipped
  <2>3. Marked'
    BY <1>1, <1>3, <2>1 DEF Make, Marked, Others
  <2>. QED
    BY <2>2, <2>3
<1>4. CASE RecordIt(t)
  <2>1. Fresh'
    BY <1>1, <1>4, ConstantsAssumption DEF RecordIt, Fresh, Others, TypeOK, Equipped
  <2>2. Marked'
    BY <1>1, <1>4 DEF RecordIt, Marked, Others, Equipped
  <2>. QED
    BY <2>1, <2>2
<1>5. CASE DropIt(t)
  <2>1. Fresh'
    BY <1>1, <1>5, ConstantsAssumption DEF DropIt, Fresh, Others, TypeOK, Equipped, Abandon
  <2>2. Marked'
    BY <1>1, <1>5 DEF DropIt, Marked, Others
  <2>. QED
    BY <2>1, <2>2
<1>6. CASE Take(t)
  <2>1. Fresh'
    BY <1>1, <1>6, ConstantsAssumption DEF Take, Fresh, Others, TypeOK, Equipped
  <2>2. Marked'
    BY <1>1, <1>6 DEF Take, Marked, Others
  <2>. QED
    BY <2>1, <2>2
<1>7. CASE GiveItUp(t)
  <2>1. Fresh'
    BY <1>1, <1>7, ConstantsAssumption DEF GiveItUp, Fresh, Others, TypeOK, Equipped, Abandon
  <2>2. Marked'
    BY <1>1, <1>7 DEF GiveItUp, Marked, Others
  <2>. QED
    BY <2>1, <2>2
<1>. QED
  BY <1>2, <1>3, <1>4, <1>5, <1>6, <1>7 DEF Worked

LEMMA CameGrounds ==
  ASSUME Grounds, IInv', Fitting', NEW t \in Threads, Came(t)
  PROVE  Fresh' /\ Marked'
<1>1. TypeOK /\ TypeOK' /\ Equipped /\ Equipped' /\ Fresh /\ Marked /\ VspHasTx
  BY DEF Grounds, IInv
<1>2. CASE Approach(t)
  <2>1. Fresh'
    BY <1>1, <1>2, ConstantsAssumption DEF Approach, Fresh, Others, TypeOK, Equipped
  <2>2. Marked'
    BY <1>1, <1>2 DEF Approach, Marked, Others, VspHasTx, Equipped, TypeOK
  <2>. QED
    BY <2>1, <2>2
<1>3. CASE Start(t)
  <2>1. Fresh'
    BY <1>1, <1>3, ConstantsAssumption DEF Start, Fresh, Others, TypeOK, Equipped
  <2>2. Marked'
    BY <1>1, <1>3 DEF Start, Marked, Others
  <2>. QED
    BY <2>1, <2>2
<1>4. CASE Register(t)
  <2>1. Fresh'
    BY <1>1, <1>4, ConstantsAssumption DEF Register, Fresh, Others, TypeOK, Equipped
  <2>2. Marked'
    BY <1>1, <1>4 DEF Register, Marked, Others
  <2>. QED
    BY <2>1, <2>2
<1>5. CASE Turn(t)
  <2>1. Fresh'
    BY <1>1, <1>5, ConstantsAssumption DEF Turn, Fresh, Others, TypeOK, Equipped
  <2>2. Marked'
    BY <1>1, <1>5 DEF Turn, Marked, Others
  <2>. QED
    BY <2>1, <2>2
<1>6. ASSUME NEW p \in Payments, Create(t, p) PROVE Fresh' /\ Marked'
  <2>1. Fresh'
    BY <1>1, <1>6, ConstantsAssumption DEF Create, Fresh, Others, TypeOK, Equipped
  <2>2. Marked'
    BY <1>1, <1>6 DEF Create, Marked, Others
  <2>. QED
    BY <2>1, <2>2
<1>. QED
  BY <1>2, <1>3, <1>4, <1>5, <1>6 DEF Came

LEMMA EnvironmentGrounds ==
  ASSUME Grounds, Environment \/ UNCHANGED vars
  PROVE  Fresh' /\ Marked'
<1>1. TypeOK /\ Fresh /\ Marked
  BY DEF Grounds, IInv
<1>2. CASE Restart
  BY <1>1, <1>2 DEF Restart, wallet, Fresh, Marked, Idle
<1>3. CASE VspProgress
  BY <1>1, <1>3 DEF VspProgress, wallet, payment, Fresh, Marked, TypeOK
<1>4. CASE WalletSeesFeeTx
  BY <1>1, <1>4 DEF WalletSeesFeeTx, wallet, payment, Fresh, Marked
<1>5. CASE VspBroadcastFails
  BY <1>1, <1>5 DEF VspBroadcastFails, wallet, payment, Fresh, Marked, TypeOK
<1>6. CASE TicketEnds
  BY <1>1, <1>6 DEF TicketEnds, wallet, payment, Fresh, Marked
<1>7. CASE UNCHANGED vars
  BY <1>1, <1>7 DEF vars, wallet, payment, Fresh, Marked
<1>. QED
  BY <1>2, <1>3, <1>4, <1>5, <1>6, <1>7 DEF Environment

\* In every reachable state the fee tx a goroutine has just made is its own: no
\* record, payment, VSP or other goroutine names it, and the wallet has it.
THEOREM FreshTxIsOwn == Spec => []Grounds
<1>1. Init => Fresh /\ Marked
  BY DEF Init, Fresh, Marked, Idle
<1>2. Grounds /\ [Step]_vars /\ IInv' /\ Fitting' => Grounds'
  BY WorkedGrounds, CameGrounds, EnvironmentGrounds DEF Step, Grounds
<1>. QED
  BY <1>1, <1>2, Inductive, Steps, PTL DEF Spec, Grounds

-----------------------------------------------------------------------------
(* One client: all attempts on a ticket that can vote are on one payment. *)

OneClient == \E c \in Clients : Clients = {c}

\* The client's payment for the ticket.
Job == jobs[CHOOSE c \in Clients : TRUE]

Registered(t)   == thread[t].pc \in LockedPCs \cup {"arm", "lock"}
Unregistered(t) == thread[t].pc \in {"start", "register"}

OnePayment == Active =>
  /\ \A t \in Threads : Registered(t) => Pay(t) = Job
  /\ \A p \in Payments : timer[p] # "none" => p = Job
  /\ \A t \in Threads : Unregistered(t) =>
       /\ Pay(t) # Job /\ Pay(t) \notin quoted
       /\ \A u \in Threads \ {t} : Pay(u) # Pay(t)

LEMMA JobIs ==
  ASSUME OneClient, TypeOK, TypeOK'
  PROVE  /\ \A c \in Clients : jobs[c] = Job /\ jobs'[c] = Job'
         /\ Job \in Payments \cup {NoPay} /\ Job' \in Payments \cup {NoPay}
<1>1. PICK c \in Clients : Clients = {c}
  BY DEF OneClient
<1>2. (CHOOSE d \in Clients : TRUE) = c
  BY <1>1
<1>. QED
  BY <1>1, <1>2 DEF Job, TypeOK

LEMMA ActiveStays ==
  ASSUME [Step]_vars, Active'
  PROVE  Active
BY DEF Step, Came, Worked, Approach, Create, Start, Register, Turn, Keep, Make, RecordIt,
   DropIt, Take, GiveItUp, OnPayment, Environment, VspProgress, WalletSeesFeeTx,
   VspBroadcastFails, TicketEnds, Restart, vars, Active, Held, HeldStates

LEMMA OnePaymentStep ==
  ASSUME OneClient, Serves, Grounds, OnePayment, IInv', [Step]_vars
  PROVE  OnePayment'
<1>. SUFFICES ASSUME Active', Active PROVE OnePayment'
  BY ActiveStays DEF OnePayment
<1>1. /\ TypeOK /\ TypeOK' /\ Equipped /\ Equipped' /\ OnePayment
      /\ \A t \in Threads : thread[t].pc \notin PayPCs => Pay(t) = NoPay
  BY DEF Grounds, IInv, Fitting, Fit
<1>2. /\ \A c \in Clients : jobs[c] = Job /\ jobs'[c] = Job'
      /\ Job \in Payments \cup {NoPay} /\ Job' \in Payments \cup {NoPay}
      /\ Clients # {}
  BY <1>1, JobIs DEF OneClient
<1>3. jobs' = jobs => Job' = Job
  BY DEF Job
<1>4. ASSUME NEW t \in Threads, OnPayment(t), quoted' \subseteq quoted \cup {Pay(t)}
      PROVE  OnePayment'
  <2>1. jobs' = jobs /\ Pay(t) \in Payments /\ Pay(t) = Job
    BY <1>1, <1>4 DEF OnPayment, OnePayment, Registered, Equipped
  <2>2. \A u \in Threads : Registered(u)' => thread'[u].pay = Job'
    BY <1>1, <1>3, <1>4, <2>1 DEF OnPayment, OnePayment, Registered, Others, Idle
  <2>3. \A p \in Payments : timer'[p] # "none" => p = Job'
    BY <1>3, <1>4, <2>1 DEF OnPayment, OnePayment
  <2>4. ASSUME NEW u \in Threads, Unregistered(u)'
        PROVE  /\ thread'[u].pay # Job' /\ thread'[u].pay \notin quoted'
               /\ \A v \in Threads \ {u} : thread'[v].pay # thread'[u].pay
    <3>1. u # t /\ thread'[u] = thread[u] /\ Unregistered(u)
      BY <1>4, <2>4 DEF OnPayment, Unregistered, Others, Idle
    <3>2. Pay(u) \in Payments /\ Pay(u) # Job
      BY <1>1, <3>1 DEF OnePayment, Unregistered, Equipped
    <3>3. thread'[t].pay \in {Job, NoPay}
      BY <1>4, <2>1 DEF OnPayment, Idle
    <3>. QED
      BY <1>1, <1>3, <1>4, <2>1, <3>1, <3>2, <3>3, ConstantsAssumption
         DEF OnePayment, Others, OnPayment
  <2>. QED
    BY <2>2, <2>3, <2>4 DEF OnePayment
<1>5. ASSUME NEW t \in Threads, Worked(t) PROVE OnePayment'
  <2>1. OnPayment(t)
    BY <1>5 DEF Worked, Keep, Make, RecordIt, DropIt, Take, GiveItUp
  <2>2. quoted' \subseteq quoted \cup {Pay(t)}
    BY <1>1, <2>1 DEF OnPayment, TypeOK
  <2>. QED
    BY <1>4, <2>1, <2>2
<1>6. ASSUME NEW t \in Threads, Approach(t) PROVE OnePayment'
  BY <1>1, <1>2, <1>3, <1>6, ConstantsAssumption
     DEF Approach, OnePayment, Others, Registered, Unregistered, Equipped
<1>7. ASSUME NEW t \in Threads, Start(t) PROVE OnePayment'
  BY <1>1, <1>2, <1>3, <1>7 DEF Start, OnePayment, Others, Registered, Unregistered
<1>8. ASSUME NEW t \in Threads, Register(t) PROVE OnePayment'
  <2>1. Job = NoPay /\ Job' = Pay(t) /\ Pay(t) \in Payments
    BY <1>1, <1>2, <1>8 DEF Register, Equipped, TypeOK
  <2>2. \A u \in Threads : ~Registered(u)
    BY <1>1, <2>1, ConstantsAssumption DEF OnePayment, Registered, Equipped
  <2>3. \A p \in Payments : timer[p] = "none"
    BY <1>1, <2>1, ConstantsAssumption DEF OnePayment
  <2>. QED
    BY <1>1, <1>8, <2>1, <2>2, <2>3 DEF Register, OnePayment, Others, Registered, Unregistered
<1>9. ASSUME NEW t \in Threads, Turn(t) PROVE OnePayment'
  <2>1. thread'[t].pay = Job /\ thread'[t].pay \in Payments
    BY <1>1, <1>2, <1>9 DEF Turn, Arriving, OnePayment, Registered
  <2>. QED
    BY <1>1, <1>2, <1>3, <1>9, <2>1
       DEF Turn, Arriving, OnePayment, Others, Registered, Unregistered, Equipped
<1>10. ASSUME NEW t \in Threads, NEW p \in Payments, Create(t, p) PROVE OnePayment'
  <2>1. Job # p /\ \A u \in Threads : Pay(u) # p
    BY <1>2, <1>10 DEF Create, Garbage
  <2>. QED
    BY <1>1, <1>2, <1>3, <1>10, <2>1
       DEF Create, OnePayment, Others, Registered, Unregistered, Equipped
<1>11. CASE Environment \/ UNCHANGED vars
  <2>1. CASE Restart
    BY <2>1 DEF Restart, OnePayment, Registered, Unregistered, Idle
  <2>2. CASE ~Restart
    BY <1>1, <1>3, <1>11, <2>2
       DEF Environment, VspProgress, WalletSeesFeeTx, VspBroadcastFails, TicketEnds, payment,
           vars, OnePayment, Registered, Unregistered
  <2>. QED
    BY <2>1, <2>2
<1>. QED
  BY <1>5, <1>6, <1>7, <1>8, <1>9, <1>10, <1>11 DEF Step, Came

\* With one client, while the ticket can vote and its fee is not confirmed, every
\* goroutine and every timer works for the registered payment.
THEOREM OnePaymentAtWork ==
  ASSUME OneClient, Serves
  PROVE  Spec => []OnePayment
<1>1. Init => OnePayment
  BY DEF Init, OnePayment, Registered, Unregistered, Idle
<1>2. Grounds /\ OnePayment /\ IInv' /\ [Step]_vars => OnePayment'
  BY OnePaymentStep
<1>. QED
  BY <1>1, <1>2, Inductive, FreshTxIsOwn, Steps, PTL DEF Spec

-----------------------------------------------------------------------------
(* Once the VSP holds a fee nobody makes or gives up another. *)

Making(t) == thread[t].pc \in {"makeTx", "paidMark"}

Settled ==
  /\ \A t \in Threads : Refused(t) => ~Held
  /\ Held => \A t \in Threads : ~Making(t)
  /\ Held => \A p \in quoted : Garbage(p) \/ feeHash[p] # NoTx

\* The wallet has the fee tx its payment would submit.
JobInStore ==
  Active => \A p \in Payments :
    (p = Job \/ Job = NoPay) /\ feeHash[p] # NoTx => feeHash[p] \in store

\* At most one goroutine works on the ticket while it can vote.
LEMMA OneAtWork ==
  ASSUME Grounds, OnePayment, Active, NEW t \in Threads, NEW u \in Threads,
         thread[t].pc \in LockedPCs, thread[u].pc \in LockedPCs
  PROVE  t = u
BY DEF Grounds, IInv, Locked, OnePayment, Registered

LEMMA WorkedSettles ==
  ASSUME OneClient, Serves, Grounds, OnePayment, Settled, IInv', Fitting',
         NEW t \in Threads, Worked(t)
  PROVE  Settled'
<1>1. /\ TypeOK /\ TypeOK' /\ Equipped /\ Settled /\ Pay(t) \in Payments /\ OnPayment(t)
      /\ Fit(t) /\ Fit(t)' /\ (\A p \in Payments : HashOf(p) /\ HashOf(p)')
  BY DEF Grounds, IInv, Fitting, Worked, Keep, Make, RecordIt, DropIt, Take, GiveItUp,
     OnPayment, Equipped
<1>2. \A u \in Threads \ {t} : (Refused(u)' <=> Refused(u)) /\ (Making(u)' <=> Making(u))
  BY <1>1 DEF OnPayment, Others, Refused, Making
<1>3. ASSUME NEW q \in Payments, Garbage(q) PROVE Garbage(q)'
  <2>1. q # Pay(t)
    BY <1>3 DEF Garbage
  <2>2. thread'[t].pay \in {Pay(t), NoPay}
    BY <1>1 DEF OnPayment, Idle
  <2>. QED
    BY <1>1, <1>3, <2>1, <2>2, ConstantsAssumption DEF OnPayment, Others, Garbage
<1>4. CASE Keep(t)
  <2>1. Held' <=> Held
    BY <1>4 DEF Keep, Held
  <2>2. ASSUME Held PROVE thread'[t].pc # "makeTx"
    <3>. SUFFICES ASSUME thread'[t].pc = "makeTx" PROVE FALSE
      OBVIOUS
    <3>1. Pay(t) \in quoted /\ ~Garbage(Pay(t))
      BY <1>4, <2>2 DEF Keep, Garbage
    <3>2. feeHash[Pay(t)] # NoTx
      BY <1>1, <2>2, <3>1 DEF Settled
    <3>3. thread'[t].pay = Pay(t)
      BY <1>1 DEF OnPayment, Idle
    <3>4. feeTx'[Pay(t)] \notin Txs /\ feeHash'[Pay(t)] = NoTx
      BY <1>1, <3>3 DEF Fit, HashOf
    <3>. QED
      BY <1>4, <3>2, <3>4 DEF Keep
  <2>3. ASSUME Held, NEW q \in quoted' PROVE Garbage(q)' \/ feeHash'[q] # NoTx
    BY <1>1, <1>3, <1>4, <2>3 DEF Keep, Settled, TypeOK
  <2>. QED
    BY <1>1, <1>2, <1>4, <2>1, <2>2, <2>3 DEF Settled, Keep, Making
<1>5. CASE Make(t) \/ RecordIt(t) \/ DropIt(t) \/ GiveItUp(t)
  <2>1. ~Held /\ ~Held'
    BY <1>1, <1>5 DEF Make, RecordIt, DropIt, GiveItUp, Settled, Making, Held
  <2>. QED
    BY <2>1 DEF Settled
<1>6. CASE Take(t)
  <2>1. Active /\ thread[t].pc \in LockedPCs /\ Pay(t) = Job
    BY <1>6 DEF Take, Active, Held, HeldStates, OnePayment, Registered
  <2>2. \A u \in Threads \ {t} : thread[u].pc \notin LockedPCs
    BY <2>1, OneAtWork
  <2>3. \A u \in Threads : ~Refused(u)' /\ ~Making(u)'
    BY <1>2, <1>6, <2>2 DEF Take, Refused, Making
  <2>4. ASSUME NEW q \in quoted' PROVE Garbage(q)' \/ feeHash'[q] # NoTx
    <3>1. q \in quoted /\ q \in Payments /\ feeHash' = feeHash
      BY <1>1, <1>6, <2>4 DEF Take, TypeOK
    <3>2. CASE q = Pay(t)
      <4>1. feeTx[q] \in Txs /\ feeHash[q] = feeTx[q]
        BY <1>1, <1>6, <3>2 DEF Take, Fit, HashOf
      <4>. QED
        BY <3>1, <4>1, ConstantsAssumption
    <3>3. CASE q # Pay(t)
      <4>1. \A c \in Clients : jobs[c] # q
        BY <1>1, <2>1, <3>3, JobIs
      <4>2. timer[q] = "none"
        BY <2>1, <3>1, <3>3 DEF OnePayment
      <4>3. ASSUME NEW u \in Threads PROVE Pay(u) # q
        <5>1. Fit(u)
          BY DEF Grounds, Fitting
        <5>2. Pay(u) = NoPay \/ Registered(u) \/ Unregistered(u)
          BY <5>1 DEF Fit, Registered, Unregistered
        <5>. QED
          BY <2>1, <3>1, <3>3, <5>2, ConstantsAssumption DEF OnePayment
      <4>. QED
        BY <1>3, <3>1, <4>1, <4>2, <4>3 DEF Garbage
    <3>. QED
      BY <3>2, <3>3
  <2>. QED
    BY <2>3, <2>4 DEF Settled
<1>. QED
  BY <1>4, <1>5, <1>6 DEF Worked

LEMMA CameSettles ==
  ASSUME Grounds, Settled, IInv', NEW t \in Threads, Came(t)
  PROVE  Settled'
<1>1. TypeOK /\ TypeOK' /\ Equipped /\ Settled
  BY DEF Grounds, IInv
<1>2. /\ Held' <=> Held
      /\ \A u \in Threads : (Refused(u)' => Refused(u)) /\ (Making(u)' => Making(u))
  BY DEF Came, Approach, Start, Register, Turn, Create, Others, Held, Refused, Making
<1>3. ASSUME NEW q \in Payments, q \in quoted', Garbage(q)
      PROVE  Garbage(q)' /\ q \in quoted /\ feeHash'[q] = feeHash[q]
  <2>1. CASE Approach(t)
    BY <1>3, <2>1, ConstantsAssumption DEF Approach, Others, Garbage
  <2>2. CASE Start(t)
    BY <1>3, <2>2 DEF Start, Others, Garbage
  <2>3. CASE Register(t)
    BY <1>1, <1>3, <2>3 DEF Register, Others, Garbage, TypeOK
  <2>4. CASE Turn(t)
    BY <1>1, <1>3, <2>4 DEF Turn, Others, Garbage, TypeOK
  <2>5. ASSUME NEW p \in Payments, Create(t, p)
        PROVE  Garbage(q)' /\ q \in quoted /\ feeHash'[q] = feeHash[q]
    BY <1>1, <1>3, <2>5 DEF Create, Others, Garbage, TypeOK
  <2>. QED
    BY <2>1, <2>2, <2>3, <2>4, <2>5 DEF Came
<1>4. ASSUME NEW q \in Payments, q \in quoted'
      PROVE  q \in quoted /\ feeHash'[q] = feeHash[q]
  BY <1>1, <1>4 DEF Came, Approach, Start, Register, Turn, Create, TypeOK
<1>. QED
  BY <1>1, <1>2, <1>3, <1>4 DEF Settled, TypeOK

LEMMA EnvironmentSettles ==
  ASSUME Grounds, Settled, Environment \/ UNCHANGED vars
  PROVE  Settled'
<1>1. CASE Restart
  BY <1>1 DEF Restart, Settled, Refused, Making, Idle
<1>2. CASE VspProgress
  <2>1. Held
    BY <1>2 DEF VspProgress, Held, HeldStates
  <2>. QED
    BY <1>2, <2>1 DEF VspProgress, wallet, payment, Settled, Refused, Making, Garbage
<1>3. CASE WalletSeesFeeTx \/ TicketEnds \/ UNCHANGED vars
  BY <1>3
     DEF WalletSeesFeeTx, TicketEnds, vars, payment, Settled, Refused, Making, Garbage, Held
<1>4. CASE VspBroadcastFails
  <2>1. ~Held'
    BY <1>4 DEF VspBroadcastFails, Held, HeldStates, Grounds, IInv, TypeOK
  <2>. QED
    BY <2>1 DEF Settled
<1>. QED
  BY <1>1, <1>2, <1>3, <1>4 DEF Environment

LEMMA WorkedKeepsInStore ==
  ASSUME OneClient, Serves, Grounds, OnePayment, JobInStore, IInv',
         Active, NEW t \in Threads, Worked(t)
  PROVE  JobInStore'
<1>1. /\ TypeOK /\ TypeOK' /\ JobInStore /\ OnPayment(t) /\ Fresh /\ Equipped
      /\ Pay(t) \in Payments
  BY DEF Grounds, IInv, Worked, Keep, Make, RecordIt, DropIt, Take, GiveItUp, OnPayment,
         Equipped
<1>2. Pay(t) = Job /\ Job' = Job
  BY <1>1 DEF OnPayment, OnePayment, Registered, Job
<1>3. Job # NoPay /\ Job' # NoPay
  BY <1>1, <1>2, ConstantsAssumption
<1>4. feeHash'[Job] # NoTx => feeHash'[Job] \in store'
  <2>1. feeHash[Job] # NoTx => feeHash[Job] \in store
    BY <1>1, <1>2 DEF JobInStore
  <2>2. CASE Keep(t) \/ Make(t) \/ Take(t)
    BY <2>1, <2>2 DEF Keep, Make, Take
  <2>3. CASE RecordIt(t)
    BY <1>1, <1>2, <2>3 DEF RecordIt, Fresh, TypeOK
  <2>4. CASE DropIt(t)
    BY <1>1, <1>2, <2>1, <2>4 DEF DropIt, Fresh, Abandon
  <2>5. CASE GiveItUp(t)
    BY <1>1, <1>2, <2>5 DEF GiveItUp, TypeOK
  <2>. QED
    BY <2>2, <2>3, <2>4, <2>5 DEF Worked
<1>. QED
  BY <1>2, <1>3, <1>4 DEF JobInStore

LEMMA CameKeepsInStore ==
  ASSUME OneClient, Grounds, JobInStore, IInv', Active, NEW t \in Threads, Came(t)
  PROVE  JobInStore'
<1>1. /\ TypeOK /\ TypeOK' /\ JobInStore /\ Equipped
      /\ \A c \in Clients : jobs[c] = Job /\ jobs'[c] = Job'
      /\ jobs' = jobs => Job' = Job
  BY JobIs DEF Grounds, IInv, Job
<1>2. CASE Approach(t) \/ Start(t) \/ Turn(t)
  BY <1>1, <1>2 DEF Approach, Start, Turn, JobInStore
<1>3. CASE Register(t)
  <2>1. Job = NoPay
    BY <1>1, <1>3 DEF Register, Equipped
  <2>. QED
    BY <1>1, <1>3, <2>1 DEF Register, JobInStore
<1>4. ASSUME NEW p \in Payments, Create(t, p) PROVE JobInStore'
  <2>1. feeHash'[p] # NoTx => feeHash'[p] \in store'
    BY <1>1, <1>4 DEF Create, TypeOK
  <2>2. \A q \in Payments \ {p} : feeHash'[q] = feeHash[q]
    BY <1>1, <1>4 DEF Create, TypeOK
  <2>. QED
    BY <1>1, <1>4, <2>1, <2>2 DEF Create, JobInStore
<1>. QED
  BY <1>2, <1>3, <1>4 DEF Came

LEMMA EnvironmentKeepsInStore ==
  ASSUME JobInStore, Active, Environment \/ UNCHANGED vars
  PROVE  JobInStore'
BY DEF Environment, Restart, VspProgress, WalletSeesFeeTx, VspBroadcastFails, TicketEnds, vars,
   wallet, payment, JobInStore, Job

\* While the VSP holds a fee nobody makes another fee tx, and none is given up;
\* what the registered payment would submit is in the wallet.
THEOREM HeldFeeIsSettled ==
  ASSUME OneClient, Serves
  PROVE  Spec => [](Settled /\ JobInStore)
<1>1. Init => Settled /\ JobInStore
  BY DEF Init, Settled, JobInStore, Refused, Making, Idle
<1>2. Grounds /\ OnePayment /\ Settled /\ JobInStore /\ IInv' /\ Fitting' /\ [Step]_vars
      => Settled' /\ JobInStore'
  <2>. SUFFICES ASSUME Grounds, OnePayment, Settled, JobInStore, IInv', Fitting', [Step]_vars
                PROVE  Settled' /\ JobInStore'
    OBVIOUS
  <2>1. Settled'
    BY WorkedSettles, CameSettles, EnvironmentSettles DEF Step
  <2>2. ASSUME Active PROVE JobInStore'
    BY <2>2, WorkedKeepsInStore, CameKeepsInStore, EnvironmentKeepsInStore DEF Step
  <2>3. ASSUME ~Active PROVE JobInStore'
    BY <2>3, ActiveStays DEF JobInStore
  <2>. QED
    BY <2>1, <2>2, <2>3
<1>. QED
  BY <1>1, <1>2, Inductive, FreshTxIsOwn, Steps, OnePaymentAtWork, PTL DEF Spec

-----------------------------------------------------------------------------
(* A VSP that refuses no fee tx: there is one fee tx for the ticket, ever. *)

\* Somebody knows the fee tx x.
Named(x) ==
  \/ record.hash = x \/ vsp.tx = x
  \/ \E p \in Payments : feeHash[p] = x
  \/ \E t \in Threads : thread[t].tx = x

OneTx    == \A x, y \in Txs : Named(x) /\ Named(y) => x = y
OneMaker == \A t, u \in Threads : Making(t) /\ Making(u) => t = u

\* A fee tx is made only when none is known.
MakesFirst == \A t \in Threads : At(t, "makeTx") => \A x \in Txs : ~Named(x)

\* Until the VSP has it, a known fee tx was just made, or is in the wallet and is
\* the one that the client's payment has or the next one would find in the record.
Retained(x) ==
  \/ \E t \in Threads : At(t, "paidMark") /\ thread[t].tx = x
  \/ /\ x \in store
     /\ Job # NoPay => feeHash[Job] = x
     /\ Job = NoPay => /\ record.hash = x
                       /\ \A t \in Threads : Unregistered(t) => feeHash[Pay(t)] = x

KnownKept == Active /\ ~Held => \A x \in Txs : Named(x) => Retained(x)

OneFee == OneTx /\ OneMaker /\ MakesFirst /\ KnownKept

\* What is known before a step of the one client: the invariants above.
Known == Grounds /\ OnePayment /\ Settled /\ JobInStore

LEMMA NoneRefused ==
  ASSUME "reject" \notin Faults, Grounds
  PROVE  (\A t \in Threads : ~Refused(t)) /\ (~Held => vsp.tx = NoTx)
BY DEF Grounds, Fitting, Fit, Marked, IInv, TypeOK, Held, HeldStates

LEMMA MakeGrows ==
  ASSUME NEW t \in Threads, Make(t)
  PROVE  ~(store' \subseteq store)
BY DEF Make, Unknown

\* No step but the making of a fee tx lets anybody know another one.
LEMMA NamedBefore ==
  ASSUME Grounds, [Step]_vars, NEW x \in Txs, Named(x)', \A t \in Threads : ~Make(t)
  PROVE  Named(x)
<1>0. TypeOK /\ \A t \in Threads : thread[t].pc \in PayPCs => Pay(t) \in Payments
  BY DEF Grounds, IInv, Equipped
<1>1. ASSUME NEW t \in Threads, Keep(t) PROVE Named(x)
  BY <1>0, <1>1, ConstantsAssumption DEF Keep, OnPayment, Others, Named
<1>2. ASSUME NEW t \in Threads, RecordIt(t) PROVE Named(x)
  <2>1. \A p \in Payments : feeHash'[p] \in {feeHash[p], thread[t].tx}
    BY <1>0, <1>2 DEF RecordIt, TypeOK
  <2>. QED
    BY <1>2, <2>1, ConstantsAssumption DEF RecordIt, OnPayment, Others, Named
<1>3. ASSUME NEW t \in Threads, DropIt(t) PROVE Named(x)
  BY <1>3, ConstantsAssumption DEF DropIt, OnPayment, Others, Named
<1>4. ASSUME NEW t \in Threads, Take(t) PROVE Named(x)
  <2>1. vsp'.tx = feeHash[Pay(t)] /\ Pay(t) \in Payments
    BY <1>0, <1>4 DEF Take
  <2>. QED
    BY <1>4, <2>1, ConstantsAssumption DEF Take, OnPayment, Others, Named
<1>5. ASSUME NEW t \in Threads, GiveItUp(t) PROVE Named(x)
  <2>1. \A p \in Payments : feeHash'[p] \in {feeHash[p], NoTx}
    BY <1>0, <1>5 DEF GiveItUp, TypeOK
  <2>. QED
    BY <1>5, <2>1, ConstantsAssumption DEF GiveItUp, OnPayment, Others, Named
<1>6. ASSUME NEW t \in Threads, Approach(t) PROVE Named(x)
  BY <1>6, ConstantsAssumption DEF Approach, Others, Named
<1>7. ASSUME NEW t \in Threads, Start(t) PROVE Named(x)
  BY <1>0, <1>7, ConstantsAssumption DEF Start, Others, Named
<1>8. ASSUME NEW t \in Threads, Register(t) \/ Turn(t) PROVE Named(x)
  BY <1>8, ConstantsAssumption DEF Register, Turn, Others, Named
<1>9. ASSUME NEW t \in Threads, NEW p \in Payments, Create(t, p) PROVE Named(x)
  <2>1. \A q \in Payments : feeHash'[q] \in {feeHash[q], record.hash, NoTx}
    BY <1>0, <1>9 DEF Create, TypeOK
  <2>. QED
    BY <1>9, <2>1, ConstantsAssumption DEF Create, Others, Named
<1>10. CASE Environment \/ UNCHANGED vars
  BY <1>0, <1>10, ConstantsAssumption
     DEF Environment, Restart, VspProgress, WalletSeesFeeTx, VspBroadcastFails, TicketEnds,
         vars,
         wallet, payment, Named, Idle, TypeOK
<1>. QED
  BY <1>1, <1>2, <1>3, <1>4, <1>5, <1>6, <1>7, <1>8, <1>9, <1>10 DEF Step, Came, Worked

\* A goroutine is about to make a fee tx only if nobody knows one or works on one.
LEMMA EntersMaking ==
  ASSUME OneClient, Serves, Known, KnownKept, IInv', Fitting', Settled',
         NEW t \in Threads, Keep(t), thread'[t].pc = "makeTx"
  PROVE  /\ \A x \in Txs : ~Named(x)
         /\ \A u \in Threads \ {t} : thread[u].pc \notin LockedPCs
<1>1. /\ TypeOK /\ OnPayment(t) /\ Pay(t) \in Payments /\ Grounds /\ OnePayment /\ KnownKept
      /\ thread[t].pc \in LockedPCs /\ ticket = "valid" /\ thread[t].pc # "paidMark"
      /\ Fit(t)'
  BY DEF Known, Grounds, IInv, Fitting, Keep, OnPayment, Equipped, HashOf
<1>2. ~Held
  BY DEF Keep, Settled, Making, Held
<1>3. Active
  BY <1>1, <1>2 DEF Active, Held, HeldStates
<1>4. \A u \in Threads \ {t} : thread[u].pc \notin LockedPCs
  BY <1>1, <1>3, OneAtWork
<1>5. Pay(t) = Job /\ Job # NoPay
  BY <1>1, <1>3, ConstantsAssumption DEF OnePayment, Registered
<1>6. feeHash[Job] = NoTx
  <2>1. thread'[t].pay = Pay(t)
    BY <1>1 DEF OnPayment, Idle
  <2>2. feeTx'[Pay(t)] \notin Txs
    BY <1>1, <2>1 DEF Fit
  <2>3. feeHash'[Pay(t)] = NoTx
    BY <1>1, <2>2 DEF Fitting, HashOf
  <2>. QED
    BY <1>5, <2>3 DEF Keep
<1>7. ASSUME NEW x \in Txs PROVE ~Named(x)
  <2>1. ~Retained(x)
    BY <1>1, <1>4, <1>5, <1>6, ConstantsAssumption DEF Retained
  <2>. QED
    BY <1>1, <1>2, <1>3, <2>1 DEF KnownKept
<1>. QED
  BY <1>4, <1>7

LEMMA OneTxStep ==
  ASSUME OneClient, Serves, Known, OneFee, IInv', Fitting', Settled', [Step]_vars
  PROVE  OneTx' /\ OneMaker' /\ MakesFirst'
<1>1. /\ TypeOK /\ TypeOK' /\ Grounds /\ OneTx /\ OneMaker /\ MakesFirst /\ KnownKept
  BY DEF Known, Grounds, IInv, OneFee
<1>2. ASSUME NEW t \in Threads, Make(t) PROVE OneTx' /\ OneMaker' /\ MakesFirst'
  <2>1. /\ Others(t) /\ thread'[t].pc = "paidMark" /\ At(t, "makeTx")
        /\ UNCHANGED <<record, vsp, feeHash>>
    BY <1>2 DEF Make, OnPayment
  <2>2. \A x \in Txs : ~Named(x)
    BY <1>1, <2>1 DEF MakesFirst
  <2>3. \A x \in Txs : Named(x)' => x = thread'[t].tx
    BY <2>1, <2>2 DEF Named, Others
  <2>4. \A u \in Threads \ {t} : ~Making(u) /\ ~Making(u)'
    BY <1>1, <2>1 DEF OneMaker, Making, Others
  <2>. QED
    BY <2>1, <2>3, <2>4 DEF OneTx, OneMaker, MakesFirst, Making
<1>3. ASSUME \A t \in Threads : ~Make(t) PROVE OneTx' /\ OneMaker' /\ MakesFirst'
  <2>1. \A x \in Txs : Named(x)' => Named(x)
    BY <1>1, <1>3, NamedBefore
  <2>2. CASE \E t \in Threads : Keep(t) /\ thread'[t].pc = "makeTx"
    <3>1. PICK t \in Threads : Keep(t) /\ thread'[t].pc = "makeTx"
      BY <2>2
    <3>2. /\ \A x \in Txs : ~Named(x)
          /\ \A u \in Threads \ {t} : thread[u].pc \notin LockedPCs
      BY <1>1, <3>1, EntersMaking
    <3>3. \A u \in Threads \ {t} : ~Making(u)'
      BY <3>1, <3>2 DEF Keep, OnPayment, Others, Making
    <3>. QED
      BY <1>1, <2>1, <3>2, <3>3 DEF OneTx, OneMaker, MakesFirst
  <2>3. CASE ~\E t \in Threads : Keep(t) /\ thread'[t].pc = "makeTx"
    <3>1. \A u \in Threads : Making(u)' => thread'[u] = thread[u]
      <4>1. ASSUME NEW t \in Threads, Came(t), NEW u \in Threads, Making(u)'
            PROVE  thread'[u] = thread[u]
        BY <4>1 DEF Came, Approach, Start, Register, Turn, Create, Others, Making
      <4>2. ASSUME NEW t \in Threads, Worked(t), NEW u \in Threads, Making(u)'
            PROVE  thread'[u] = thread[u]
        BY <1>3, <2>3, <4>2
           DEF Worked, Keep, RecordIt, DropIt, Take, GiveItUp, OnPayment, Others, Making
      <4>3. CASE Environment \/ UNCHANGED vars
        BY <4>3 DEF Environment, VspProgress, WalletSeesFeeTx, VspBroadcastFails, TicketEnds,
           Restart, vars, Making, Idle
      <4>. QED
        BY <4>1, <4>2, <4>3 DEF Step
    <3>. QED
      BY <1>1, <2>1, <3>1 DEF OneTx, OneMaker, MakesFirst, Making
  <2>. QED
    BY <2>2, <2>3
<1>. QED
  BY <1>2, <1>3

LEMMA KnownKeptStep ==
  ASSUME OneClient, Serves, "reject" \notin Faults, Known, OneFee, IInv', [Step]_vars
  PROVE  KnownKept'
<1>1. /\ TypeOK /\ TypeOK' /\ Grounds /\ OneTx /\ MakesFirst /\ KnownKept /\ Fresh /\ Marked
      /\ OnePayment /\ JobInStore /\ Equipped
  BY DEF Known, Grounds, IInv, OneFee
<1>. SUFFICES ASSUME Active', ~Held', NEW x \in Txs, Named(x)' PROVE Retained(x)'
  BY DEF KnownKept
<1>2. Active
  BY ActiveStays
<1>3. jobs' = jobs => Job' = Job
  BY DEF Job
<1>4. /\ \A c \in Clients : jobs[c] = Job /\ jobs'[c] = Job'
      /\ Job \in Payments \cup {NoPay}
  BY <1>1, JobIs
<1>5. ASSUME NEW t \in Threads, OnPayment(t)
      PROVE  Pay(t) = Job /\ Job' = Job /\ Job # NoPay /\ Job \in Payments
  BY <1>1, <1>2, <1>3, <1>5, ConstantsAssumption
     DEF OnPayment, OnePayment, Registered, Equipped
<1>6. ASSUME NEW t \in Threads, Keep(t) PROVE Retained(x)'
  <2>1. OnPayment(t) /\ ~Held /\ Named(x)
    BY <1>1, <1>6, NamedBefore, MakeGrows DEF Keep, Held
  <2>2. Retained(x)
    BY <1>1, <1>2, <2>1 DEF KnownKept
  <2>. QED
    BY <1>5, <1>6, <2>1, <2>2 DEF Keep, OnPayment, Others, Retained
<1>7. ASSUME NEW t \in Threads, Make(t) PROVE Retained(x)'
  <2>1. ~Named(x)
    BY <1>1, <1>7 DEF Make, MakesFirst
  <2>2. x = thread'[t].tx /\ At(t, "paidMark")'
    BY <1>7, <2>1 DEF Make, OnPayment, Others, Named
  <2>. QED
    BY <2>2 DEF Retained
<1>8. ASSUME NEW t \in Threads, RecordIt(t) PROVE Retained(x)'
  <2>1. Named(x) /\ Named(thread[t].tx) /\ thread[t].tx \in Txs /\ thread[t].tx \in store
    BY <1>1, <1>8, NamedBefore, MakeGrows DEF RecordIt, Named, Equipped, Fresh
  <2>2. x = thread[t].tx
    BY <1>1, <2>1 DEF OneTx
  <2>3. OnPayment(t)
    BY <1>8 DEF RecordIt
  <2>4. feeHash'[Job] = x
    BY <1>1, <1>5, <1>8, <2>2, <2>3 DEF RecordIt, TypeOK
  <2>. QED
    BY <1>5, <1>8, <2>1, <2>2, <2>3, <2>4 DEF RecordIt, Retained
<1>9. ASSUME NEW t \in Threads, DropIt(t) PROVE Retained(x)'
  <2>1. Named(x) /\ Named(thread[t].tx) /\ thread[t].tx \in Txs
    BY <1>1, <1>9, NamedBefore, MakeGrows DEF DropIt, Abandon, Named, Equipped
  <2>2. x = thread[t].tx
    BY <1>1, <2>1 DEF OneTx
  <2>3. /\ record'.hash # x /\ vsp'.tx # x /\ \A p \in Payments : feeHash'[p] # x
        /\ \A u \in Threads : thread'[u].tx # x
    BY <1>1, <1>9, <2>2, ConstantsAssumption DEF DropIt, OnPayment, Others, Fresh
  <2>. QED
    BY <2>3 DEF Named
<1>10. ASSUME NEW t \in Threads, Take(t) PROVE FALSE
  BY <1>1, <1>10 DEF Take, Held, HeldStates
<1>11. ASSUME NEW t \in Threads, GiveItUp(t) PROVE FALSE
  BY <1>1, <1>11, NoneRefused DEF GiveItUp
<1>12. ASSUME NEW t \in Threads, Came(t) PROVE Retained(x)'
  <2>1. ~Held /\ Named(x)
    <3>1. vsp' = vsp /\ \A u \in Threads : ~Make(u)
      BY <1>12, MakeGrows DEF Came, Approach, Start, Register, Turn, Create
    <3>2. Named(x)
      BY <1>1, <3>1, NamedBefore
    <3>. QED
      BY <3>1, <3>2 DEF Held
  <2>2. Retained(x)
    BY <1>1, <1>2, <2>1 DEF KnownKept
  <2>3. CASE \E u \in Threads : At(u, "paidMark") /\ thread[u].tx = x
    BY <1>12, <2>3 DEF Came, Approach, Start, Register, Turn, Create, Others, Retained
  <2>4. CASE ~\E u \in Threads : At(u, "paidMark") /\ thread[u].tx = x
    <3>1. /\ x \in store /\ (Job # NoPay => feeHash[Job] = x)
          /\ Job = NoPay => /\ record.hash = x
                            /\ \A u \in Threads : Unregistered(u) => feeHash[Pay(u)] = x
      BY <2>2, <2>4 DEF Retained
    <3>2. CASE Approach(t)
      <4>1. ~At(t, "managedMark")
        BY <1>1, <2>1, ConstantsAssumption, NoneRefused DEF Marked, Held, HeldStates, TypeOK
      <4>. QED
        BY <1>3, <3>1, <3>2, <4>1 DEF Approach, Others, Retained, Unregistered
    <3>3. CASE Start(t)
      BY <1>3, <3>1, <3>3 DEF Start, Others, Retained, Unregistered
    <3>4. CASE Register(t)
      <4>1. Job = NoPay /\ Job' = Pay(t) /\ Pay(t) \in Payments
        BY <1>1, <1>4, <3>4 DEF Register, Equipped, TypeOK
      <4>2. feeHash'[Job'] = x
        BY <3>1, <3>4, <4>1 DEF Register, Unregistered
      <4>. QED
        BY <3>1, <3>4, <4>1, <4>2, ConstantsAssumption DEF Register, Retained
    <3>5. CASE Turn(t)
      BY <1>3, <3>1, <3>5 DEF Turn, Others, Retained, Unregistered
    <3>6. ASSUME NEW p \in Payments, Create(t, p) PROVE Retained(x)'
      <4>1. Job' = Job /\ Job # p /\ \A u \in Threads : Pay(u) # p
        BY <1>3, <1>4, <3>6 DEF Create, Garbage, OneClient
      <4>2. Job # NoPay => feeHash'[Job] = x
        BY <1>1, <1>4, <3>1, <3>6, <4>1 DEF Create, TypeOK
      <4>3. ticket # "spent"
        BY <1>2 DEF Active
      <4>4. Job = NoPay => feeHash'[p] = x
        BY <1>1, <3>1, <3>6, <4>3 DEF Create, TypeOK
      <4>5. \A u \in Threads \ {t} : Unregistered(u) =>
              Pay(u) \in Payments /\ feeHash'[Pay(u)] = feeHash[Pay(u)]
        BY <1>1, <3>6, <4>1 DEF Create, TypeOK, Unregistered, Equipped
      <4>. QED
        BY <3>1, <3>6, <4>1, <4>2, <4>4, <4>5 DEF Create, Others, Retained, Unregistered
    <3>. QED
      BY <1>12, <3>2, <3>3, <3>4, <3>5, <3>6 DEF Came
  <2>. QED
    BY <2>3, <2>4
<1>13. CASE Restart
  <2>1. ~Held /\ record'.hash = x /\ record.hash = x
    BY <1>1, <1>13, ConstantsAssumption, NoneRefused DEF Restart, wallet, Held, Named, Idle
  <2>2. Retained(x)
    BY <1>1, <1>2, <2>1 DEF KnownKept, Named
  <2>3. x \in store
    BY <1>1, <2>1, <2>2 DEF Retained, Fresh
  <2>4. Job' = NoPay
    BY <1>13 DEF Restart, Job, OneClient
  <2>. QED
    BY <1>13, <2>1, <2>3, <2>4 DEF Restart, wallet, Retained, Unregistered, Idle
<1>14. CASE VspProgress \/ VspBroadcastFails \/ TicketEnds
  BY <1>1, <1>14
     DEF VspProgress, VspBroadcastFails, TicketEnds, Held, HeldStates, TypeOK, Active
<1>15. CASE WalletSeesFeeTx
  BY <1>15 DEF WalletSeesFeeTx, Held, HeldStates
<1>16. CASE UNCHANGED vars
  <2>1. Named(x) /\ ~Held
    BY <1>16 DEF vars, wallet, payment, Named, Held
  <2>2. Retained(x)
    BY <1>1, <1>2, <2>1 DEF KnownKept
  <2>. QED
    BY <1>3, <1>16, <2>2 DEF vars, wallet, payment, Retained, Unregistered
<1>. QED
  BY <1>6, <1>7, <1>8, <1>9, <1>10, <1>11, <1>12, <1>13, <1>14, <1>15, <1>16
     DEF Step, Worked, Environment

LEMMA KnownAlways ==
  ASSUME OneClient, Serves
  PROVE  Spec => []Known
<1>1. Grounds /\ OnePayment /\ Settled /\ JobInStore => Known
  BY DEF Known
<1>. QED
  BY <1>1, FreshTxIsOwn, OnePaymentAtWork, HeldFeeIsSettled, PTL

LEMMA OneFeeAlways ==
  ASSUME OneClient, Serves, "reject" \notin Faults
  PROVE  Spec => []OneFee
<1>1. Init => OneFee
  <2>. SUFFICES ASSUME Init PROVE OneFee
    OBVIOUS
  <2>1. \A x \in Txs : Named(x) => vsp.tx = x
    BY ConstantsAssumption DEF Init, NoRecord, Named, Idle
  <2>2. \A t \in Threads : ~Making(t)
    BY DEF Init, Making, Idle
  <2>3. ~Held => vsp.tx = NoTx
    BY DEF Init, Held, HeldStates
  <2>. QED
    BY <2>1, <2>2, <2>3, ConstantsAssumption
       DEF OneFee, OneTx, OneMaker, MakesFirst, KnownKept, Making
<1>2. Known /\ OneFee /\ IInv' /\ Fitting' /\ Known' /\ [Step]_vars => OneFee'
  <2>. SUFFICES ASSUME Known, OneFee, IInv', Fitting', Known', [Step]_vars PROVE OneFee'
    OBVIOUS
  <2>1. Settled'
    BY DEF Known
  <2>. QED
    BY <2>1, OneTxStep, KnownKeptStep DEF OneFee
<1>. QED
  BY <1>1, <1>2, Inductive, Steps, KnownAlways, PTL DEF Spec

\* With one client and a VSP that refuses no fee tx, a record that says paid names
\* the fee tx the VSP holds, whatever crashes, lost answers, failed writes and
\* failed abandons there were: there never is a second fee tx.
THEOREM PaidNamesTheHeldTx ==
  ASSUME OneClient, Serves, "reject" \notin Faults
  PROVE  Spec => []PaidNamesHeldTx
<1>1. Known /\ OneFee => PaidNamesHeldTx
  <2>. SUFFICES ASSUME Known, OneFee, record.status = "paid", Held PROVE record.hash = vsp.tx
    BY DEF PaidNamesHeldTx
  <2>1. record.hash \in Txs /\ vsp.tx \in Txs
    BY DEF Known, Grounds, Marked, IInv, VspHasTx, Held, HeldStates
  <2>2. Named(record.hash) /\ Named(vsp.tx)
    BY DEF Named
  <2>. QED
    BY <2>1, <2>2 DEF OneFee, OneTx
<1>. QED
  BY <1>1, KnownAlways, OneFeeAlways, PTL

-----------------------------------------------------------------------------
(* The fee tx the VSP holds is the one the client works with. *)

HeldIsJobs == Active /\ Held =>
  /\ Job # NoPay /\ feeHash[Job] # NoTx => feeHash[Job] = vsp.tx
  /\ Job = NoPay =>
       /\ record.hash \in {NoTx, vsp.tx}
       /\ \A p \in Payments : feeHash[p] \in {NoTx, vsp.tx}
       /\ \A t \in Threads : thread[t].tx \in {NoTx, vsp.tx}

\* A restart, which forgets the payment, finds no other fee tx in the record.
RestartSafe == "crash" \notin Faults \/ OneTx

LEMMA HeldIsJobsStep ==
  ASSUME OneClient, Serves, Known, RestartSafe, HeldIsJobs, IInv', [Step]_vars
  PROVE  HeldIsJobs'
<1>1. /\ TypeOK /\ TypeOK' /\ Grounds /\ OnePayment /\ Settled /\ Equipped
  BY DEF Known, Grounds, IInv
<1>. SUFFICES ASSUME Active', Held' PROVE HeldIsJobs'
  BY DEF HeldIsJobs
<1>2. Active
  BY ActiveStays
<1>3. jobs' = jobs => Job' = Job
  BY DEF Job
<1>4. /\ \A c \in Clients : jobs[c] = Job /\ jobs'[c] = Job'
      /\ Job \in Payments \cup {NoPay}
  BY <1>1, JobIs
<1>5. ASSUME NEW t \in Threads, OnPayment(t)
      PROVE  Pay(t) = Job /\ Job' = Job /\ Job # NoPay /\ Job \in Payments
  BY <1>1, <1>2, <1>3, <1>5, ConstantsAssumption
     DEF OnPayment, OnePayment, Registered, Equipped
<1>6. ASSUME NEW t \in Threads, Keep(t) PROVE HeldIsJobs'
  BY <1>2, <1>5, <1>6 DEF Keep, HeldIsJobs, Held
<1>7. ASSUME NEW t \in Threads, Make(t) \/ RecordIt(t) \/ DropIt(t) \/ GiveItUp(t) PROVE FALSE
  BY <1>1, <1>7 DEF Make, RecordIt, DropIt, GiveItUp, Settled, Making, Held
<1>8. ASSUME NEW t \in Threads, Take(t) PROVE HeldIsJobs'
  BY <1>5, <1>8 DEF Take, HeldIsJobs
<1>9. ASSUME NEW t \in Threads, Approach(t) \/ Start(t) \/ Turn(t) PROVE HeldIsJobs'
  <2>1. Held /\ Job' = Job
    BY <1>3, <1>9 DEF Approach, Start, Turn, Held
  <2>2. thread[t].pc \in PayPCs => Pay(t) \in Payments
    BY <1>1 DEF Equipped
  <2>. QED
    BY <1>2, <1>9, <2>1, <2>2 DEF Approach, Start, Turn, Others, HeldIsJobs
<1>10. ASSUME NEW t \in Threads, Register(t) PROVE HeldIsJobs'
  <2>1. Job = NoPay /\ Job' = Pay(t) /\ Pay(t) \in Payments /\ Held
    BY <1>1, <1>4, <1>10 DEF Register, Equipped, TypeOK, Held
  <2>. QED
    BY <1>2, <1>10, <2>1, ConstantsAssumption DEF Register, HeldIsJobs
<1>11. ASSUME NEW t \in Threads, NEW p \in Payments, Create(t, p) PROVE HeldIsJobs'
  <2>1. Held /\ Job' = Job /\ Job # p
    BY <1>3, <1>4, <1>11 DEF Create, Garbage, OneClient, Held
  <2>2. \A q \in Payments :
          feeHash'[q] = feeHash[q] \/ (q = p /\ feeHash'[q] \in {record.hash, NoTx})
    BY <1>1, <1>11 DEF Create, TypeOK
  <2>. QED
    BY <1>2, <1>4, <1>11, <2>1, <2>2 DEF Create, Others, HeldIsJobs
<1>12. CASE Restart
  <2>1. Held /\ Job' = NoPay
    BY <1>12 DEF Restart, Job, OneClient, Held
  <2>2. record.hash \in {NoTx, vsp.tx}
    <3>1. OneTx
      BY <1>12 DEF Restart, RestartSafe
    <3>2. vsp.tx \in Txs /\ record.hash \in Txs \cup {NoTx}
      BY <1>1, <2>1 DEF Grounds, IInv, VspHasTx, TypeOK, Held, HeldStates
    <3>. QED
      BY <3>1, <3>2 DEF OneTx, Named
  <2>. QED
    BY <1>12, <2>1, <2>2 DEF Restart, wallet, HeldIsJobs, Idle
<1>13. CASE VspProgress
  <2>1. Held /\ vsp'.tx = vsp.tx
    BY <1>1, <1>13 DEF VspProgress, Held, HeldStates, TypeOK
  <2>. QED
    BY <1>2, <1>3, <1>13, <2>1 DEF VspProgress, wallet, payment, HeldIsJobs
<1>14. CASE VspBroadcastFails \/ TicketEnds
  BY <1>1, <1>14 DEF VspBroadcastFails, TicketEnds, Held, HeldStates, TypeOK, Active
<1>15. CASE WalletSeesFeeTx \/ UNCHANGED vars
  BY <1>2, <1>3, <1>15 DEF WalletSeesFeeTx, vars, wallet, payment, HeldIsJobs, Held
<1>. QED
  BY <1>6, <1>7, <1>8, <1>9, <1>10, <1>11, <1>12, <1>13, <1>14, <1>15
     DEF Step, Came, Worked, Environment

LEMMA HeldIsJobsAlways ==
  ASSUME OneClient, Serves, "crash" \notin Faults \/ "reject" \notin Faults
  PROVE  Spec => []HeldIsJobs
<1>1. Init => HeldIsJobs
  BY ConstantsAssumption DEF Init, HeldIsJobs, Idle, Job, OneClient
<1>2. Spec => []RestartSafe
  <2>1. CASE "crash" \notin Faults
    <3>1. RestartSafe
      BY <2>1 DEF RestartSafe
    <3>. QED
      BY <3>1, PTL
  <2>2. CASE "reject" \notin Faults
    <3>1. OneFee => RestartSafe
      BY DEF OneFee, RestartSafe
    <3>. QED
      BY <2>2, <3>1, OneFeeAlways, PTL
  <2>. QED
    BY <2>1, <2>2
<1>3. Known /\ RestartSafe /\ HeldIsJobs /\ IInv' /\ [Step]_vars => HeldIsJobs'
  BY HeldIsJobsStep
<1>. QED
  BY <1>1, <1>2, <1>3, Inductive, Steps, KnownAlways, PTL DEF Spec

-----------------------------------------------------------------------------
(* Every step is a step of the life of the ticket's fee transactions. *)

HeldTx == IF Held THEN vsp.tx ELSE NoTx
OnNet  == vsp.status \in {"broadcast", "confirmed"}

LEMMA PlaceSame ==
  ASSUME store' = store, unpub' = unpub
  PROVE  Place' = Place
BY DEF Place

LEMMA LifeSame ==
  ASSUME Place' = Place, vsp' = vsp
  PROVE  [Life!Next]_(Life!life)
BY DEF Life!life, Held

LEMMA PlaceMoves ==
  ASSUME NEW tx \in Txs, NEW to, Place'[tx] = to,
         \A x \in Txs \ {tx} : (x \in store' <=> x \in store) /\ (x \in unpub' <=> x \in unpub)
  PROVE  Place' = [Place EXCEPT ![tx] = to]
BY DEF Place

\* The wallet makes one more fee tx.
LEMMA MakesLife ==
  ASSUME NEW tx \in Txs, tx \notin store, vsp.tx # tx, vsp' = vsp,
         store' = store \cup {tx}, unpub' = unpub \cup {tx}
  PROVE  [Life!Next]_(Life!life)
<1>1. Place[tx] = "absent" /\ Place'[tx] = "unpublished"
  BY DEF Place
<1>2. Place' = [Place EXCEPT ![tx] = "unpublished"]
  BY <1>1, PlaceMoves
<1>3. HeldTx' = HeldTx /\ OnNet' = OnNet /\ tx # HeldTx
  BY ConstantsAssumption DEF HeldTx, OnNet, Held
<1>4. Life!Make(tx)
  BY <1>1, <1>2, <1>3 DEF Life!Make, Life!Move, HeldTx, OnNet
<1>. QED
  BY <1>4 DEF Life!Next

\* A fee tx the VSP does not hold leaves the wallet.
LEMMA AbandonsLife ==
  ASSUME NEW tx \in Txs, tx # HeldTx, vsp' = vsp, Abandon(tx)
  PROVE  [Life!Next]_(Life!life)
<1>1. CASE tx \in store /\ store' = store \ {tx} /\ unpub' = unpub \ {tx}
  <2>1. Place[tx] \in {"unpublished", "published"} /\ Place'[tx] = "absent"
    BY <1>1 DEF Place
  <2>2. Place' = [Place EXCEPT ![tx] = "absent"]
    BY <1>1, <2>1, PlaceMoves
  <2>3. HeldTx' = HeldTx /\ OnNet' = OnNet
    BY DEF HeldTx, OnNet, Held
  <2>4. Life!Abandon(tx)
    BY <2>1, <2>2, <2>3 DEF Life!Abandon, Life!Move, HeldTx, OnNet
  <2>. QED
    BY <2>4 DEF Life!Next
<1>2. CASE tx \notin store /\ store' = store \ {tx} /\ unpub' = unpub \ {tx}
  <2>1. Place' = Place
    BY <1>2 DEF Place
  <2>. QED
    BY <2>1, LifeSame
<1>3. CASE UNCHANGED <<store, unpub>>
  BY <1>3, PlaceSame, LifeSame
<1>. QED
  BY <1>1, <1>2, <1>3 DEF Abandon

\* The fee tx that the VSP broadcast is shown as published.
LEMMA PublishesLife ==
  ASSUME Held, OnNet, vsp.tx \in Txs, vsp' = vsp,
         store' = store \/ store' = store \cup {vsp.tx}, unpub' = unpub \ {vsp.tx}
  PROVE  [Life!Next]_(Life!life)
<1>. DEFINE tx == vsp.tx
<1>1. CASE tx \notin store' \/ Place[tx] = "published"
  <2>1. Place' = Place
    BY <1>1 DEF Place
  <2>. QED
    BY <2>1, LifeSame
<1>2. CASE tx \in store' /\ Place[tx] # "published"
  <2>1. Place[tx] \in {"absent", "unpublished"} /\ Place'[tx] = "published"
    BY <1>2 DEF Place
  <2>2. Place' = [Place EXCEPT ![tx] = "published"]
    BY <2>1, PlaceMoves
  <2>3. HeldTx = tx /\ HeldTx' = HeldTx /\ OnNet' = OnNet
    BY DEF HeldTx, OnNet, Held
  <2>4. Life!Publish(tx)
    BY <2>1, <2>2, <2>3 DEF Life!Publish, Life!Move, HeldTx, OnNet
  <2>. QED
    BY <2>4 DEF Life!Next
<1>. QED
  BY <1>1, <1>2

LEMMA LifeStep ==
  ASSUME OneClient, Serves, Known, HeldIsJobs, IInv', [Step]_vars
  PROVE  [Life!Next]_(Life!life)
<1>1. /\ TypeOK /\ TypeOK' /\ Grounds /\ OnePayment /\ Settled /\ JobInStore /\ Fresh
      /\ Equipped /\ VspHasTx
  BY DEF Known, Grounds, IInv
<1>2. ASSUME NEW t \in Threads, Keep(t) PROVE [Life!Next]_(Life!life)
  <2>1. CASE unpub' = unpub
    BY <1>2, <2>1, PlaceSame, LifeSame DEF Keep
  <2>2. CASE /\ ticket = "valid" /\ vsp.status = "broadcast"
             /\ unpub' = unpub \ {feeHash[Pay(t)]}
    <3>1. Active /\ Held /\ OnNet /\ vsp.tx \in Txs
      BY <1>1, <2>2 DEF Active, Held, HeldStates, OnNet, VspHasTx
    <3>2. Pay(t) = Job /\ Job # NoPay
      BY <1>1, <1>2, <3>1, ConstantsAssumption
         DEF Keep, OnPayment, OnePayment, Registered, Equipped
    <3>3. feeHash[Job] \in {NoTx, vsp.tx}
      BY <3>1, <3>2 DEF HeldIsJobs
    <3>4. CASE feeHash[Job] = NoTx
      <4>1. unpub' = unpub
        BY <1>1, <2>2, <3>2, <3>4, ConstantsAssumption DEF TypeOK
      <4>. QED
        BY <1>2, <4>1, PlaceSame, LifeSame DEF Keep
    <3>5. CASE feeHash[Job] = vsp.tx
      BY <1>2, <2>2, <3>1, <3>2, <3>5, PublishesLife DEF Keep
    <3>. QED
      BY <3>3, <3>4, <3>5
  <2>. QED
    BY <1>2, <2>1, <2>2 DEF Keep
<1>3. ASSUME NEW t \in Threads, Make(t) PROVE [Life!Next]_(Life!life)
  BY <1>3, MakesLife DEF Make, Unknown
<1>4. ASSUME NEW t \in Threads, RecordIt(t) PROVE [Life!Next]_(Life!life)
  BY <1>4, PlaceSame, LifeSame DEF RecordIt
<1>5. ASSUME NEW t \in Threads, DropIt(t) PROVE [Life!Next]_(Life!life)
  <2>1. thread[t].tx \in Txs /\ thread[t].tx # HeldTx
    BY <1>1, <1>5, ConstantsAssumption DEF DropIt, Equipped, Fresh, HeldTx
  <2>. QED
    BY <1>5, <2>1, AbandonsLife DEF DropIt
<1>6. ASSUME NEW t \in Threads, Take(t) PROVE [Life!Next]_(Life!life)
  <2>1. Active /\ Pay(t) = Job /\ Pay(t) \in Payments
    BY <1>1, <1>6
       DEF Take, OnPayment, Active, Held, HeldStates, OnePayment, Registered, Equipped
  <2>2. feeHash[Job] \in Txs
    BY <1>1, <1>6, <2>1 DEF Take, Grounds, Fitting, Fit, HashOf
  <2>3. feeHash[Job] \in store
    BY <1>1, <2>1, <2>2, ConstantsAssumption DEF JobInStore
  <2>4. Place[feeHash[Job]] # "absent" /\ Place' = Place
    BY <1>6, <2>2, <2>3 DEF Place, Take
  <2>5. HeldTx = NoTx /\ HeldTx' = feeHash[Job] /\ OnNet' \in BOOLEAN
    BY <1>6, <2>1 DEF Take, HeldTx, Held, HeldStates, OnNet
  <2>6. Life!Take(feeHash[Job])
    BY <2>4, <2>5 DEF Life!Take, HeldTx, OnNet
  <2>. QED
    BY <2>2, <2>6 DEF Life!Next
<1>7. ASSUME NEW t \in Threads, GiveItUp(t) PROVE [Life!Next]_(Life!life)
  <2>1. HeldTx = NoTx
    BY <1>1, <1>7 DEF GiveItUp, Settled, HeldTx
  <2>2. feeHash[Pay(t)] \in Txs
    BY <1>1, <1>7 DEF GiveItUp, OnPayment, Refused, Equipped, Grounds, Fitting, Fit, HashOf
  <2>. QED
    BY <1>7, <2>1, <2>2, AbandonsLife, ConstantsAssumption DEF GiveItUp
<1>8. ASSUME NEW t \in Threads, Came(t) PROVE [Life!Next]_(Life!life)
  <2>1. UNCHANGED <<store, unpub, vsp>>
    BY <1>8 DEF Came, Approach, Start, Register, Turn, Create
  <2>. QED
    BY <2>1, PlaceSame, LifeSame
<1>9. CASE VspProgress
  <2>1. Place' = Place
    BY <1>9, PlaceSame DEF VspProgress, wallet
  <2>2. HeldTx # NoTx /\ HeldTx' = HeldTx /\ OnNet' = TRUE
    BY <1>1, <1>9, ConstantsAssumption
       DEF VspProgress, HeldTx, OnNet, Held, HeldStates, VspHasTx, TypeOK
  <2>3. Life!Broadcast
    BY <2>1, <2>2 DEF Life!Broadcast, HeldTx, OnNet
  <2>. QED
    BY <2>3 DEF Life!Next
<1>10. CASE WalletSeesFeeTx
  <2>1. Held /\ OnNet /\ vsp.tx \in Txs
    BY <1>1, <1>10 DEF WalletSeesFeeTx, Held, HeldStates, OnNet, VspHasTx
  <2>. QED
    BY <1>10, <2>1, PublishesLife DEF WalletSeesFeeTx
<1>11. CASE VspBroadcastFails
  <2>1. Place' = Place
    BY <1>11, PlaceSame DEF VspBroadcastFails, wallet
  <2>2. HeldTx' = NoTx /\ OnNet' = FALSE
    BY <1>1, <1>11 DEF VspBroadcastFails, HeldTx, OnNet, Held, HeldStates, TypeOK
  <2>3. Life!LetGo
    BY <2>1, <2>2 DEF Life!LetGo, HeldTx, OnNet
  <2>. QED
    BY <2>3 DEF Life!Next
<1>12. CASE TicketEnds \/ Restart \/ UNCHANGED vars
  BY <1>12, PlaceSame, LifeSame DEF TicketEnds, Restart, vars, wallet
<1>. QED
  BY <1>2, <1>3, <1>4, <1>5, <1>6, <1>7, <1>8, <1>9, <1>10, <1>11, <1>12
     DEF Step, Worked, Environment

\* With one client, and unless both a restart and a refused fee tx can happen, the
\* fee payment implements FeeTxLife: the wallet keeps what the VSP holds, the VSP
\* takes only what the wallet has, and a fee tx is shown as published only when it is.
THEOREM ImplementsFeeTxLife ==
  ASSUME OneClient, Serves, "crash" \notin Faults \/ "reject" \notin Faults
  PROVE  Spec => FeeTxLifeHolds
<1>1. Init => Life!Init
  <2>. SUFFICES ASSUME Init PROVE Life!Init
    OBVIOUS
  <2>1. Place = [tx \in Txs |-> "absent"]
    BY DEF Init, Place
  <2>2. HeldTx \in Txs \cup {NoTx} /\ OnNet = FALSE
    BY DEF Init, HeldTx, Held, HeldStates, OnNet
  <2>. QED
    BY <2>1, <2>2 DEF Life!Init, HeldTx, OnNet
<1>2. Known /\ HeldIsJobs /\ IInv' /\ [Step]_vars => [Life!Next]_(Life!life)
  BY LifeStep
<1>. QED
  BY <1>1, <1>2, Inductive, Steps, KnownAlways, HeldIsJobsAlways, PTL
     DEF Spec, FeeTxLifeHolds, Life!Spec

-----------------------------------------------------------------------------
(* No coins are lost in an unpublished fee tx that nobody works with. *)

\* An unpublished fee tx was just made or is that of the client's payment; once
\* the fee is confirmed, it is the one the VSP has.
Unleaked ==
  /\ ticket = "valid"
  /\ \A tx \in unpub :
       IF vsp.status = "confirmed" THEN tx = vsp.tx
       ELSE \/ \E t \in Threads : At(t, "paidMark") /\ thread[t].tx = tx
            \/ Job # NoPay /\ feeHash[Job] = tx

LEMMA WorkedUnleaked ==
  ASSUME OneClient, Serves, "abandon" \notin Faults, Known, Unleaked, IInv',
         NEW t \in Threads, Worked(t)
  PROVE  Unleaked'
<1>1. /\ TypeOK /\ TypeOK' /\ Grounds /\ OnePayment /\ Settled /\ Fresh /\ Equipped
      /\ OnPayment(t) /\ Pay(t) \in Payments /\ ticket' = "valid" /\ ticket = "valid"
  BY DEF Known, Grounds, IInv, Worked, Keep, Make, RecordIt, DropIt, Take, GiveItUp, OnPayment,
     Equipped, Unleaked
<1>2. CASE vsp.status = "confirmed"
  <2>1. Held
    BY <1>2 DEF Held, HeldStates
  <2>2. Keep(t)
    BY <1>1, <2>1
       DEF Worked, Make, RecordIt, DropIt, Take, GiveItUp, Settled, Making
  <2>3. unpub' \subseteq unpub /\ vsp' = vsp
    BY <2>2 DEF Keep
  <2>. QED
    BY <1>1, <1>2, <2>3 DEF Unleaked
<1>3. CASE vsp.status # "confirmed"
  <2>1. Active
    BY <1>1, <1>3 DEF Active
  <2>2. Pay(t) = Job /\ Job' = Job /\ Job # NoPay
    BY <1>1, <2>1, ConstantsAssumption DEF OnPayment, OnePayment, Registered, Job
  <2>3. \A u \in Threads \ {t} : ~At(u, "paidMark")
    BY <1>1, <2>1, OneAtWork DEF OnPayment
  <2>4. vsp'.status # "confirmed"
    BY <1>3 DEF Worked, Keep, Make, RecordIt, DropIt, Take, GiveItUp
  <2>5. CASE At(t, "paidMark")
    <3>1. feeHash[Job] = NoTx
      BY <1>1, <2>2, <2>5 DEF Grounds, Fitting, Fit, HashOf
    <3>2. unpub \subseteq {thread[t].tx}
      BY <1>1, <1>3, <2>3, <3>1, ConstantsAssumption DEF Unleaked, TypeOK
    <3>3. CASE RecordIt(t)
      <4>1. feeHash'[Job] = thread[t].tx
        BY <1>1, <2>2, <3>3 DEF RecordIt, TypeOK
      <4>. QED
        BY <1>1, <2>2, <2>4, <3>2, <3>3, <4>1 DEF RecordIt, Unleaked
    <3>4. CASE DropIt(t)
      <4>1. unpub' = unpub \ {thread[t].tx}
        BY <1>1, <1>3, <3>4 DEF DropIt, Abandon
      <4>. QED
        BY <1>1, <3>2, <4>1 DEF Unleaked
    <3>. QED
      BY <2>5, <3>3, <3>4 DEF Worked, Keep, Make, Take, GiveItUp, Refused
  <2>6. CASE ~At(t, "paidMark")
    <3>1. \A tx \in unpub : feeHash[Job] = tx
      BY <1>3, <2>3, <2>6 DEF Unleaked
    <3>2. CASE Keep(t) \/ Take(t)
      BY <1>1, <2>2, <2>4, <3>1, <3>2 DEF Keep, Take, Unleaked
    <3>3. CASE Make(t)
      <4>1. unpub' \subseteq unpub \cup {thread'[t].tx} /\ At(t, "paidMark")'
        BY <3>3 DEF Make
      <4>. QED
        BY <1>1, <2>2, <2>4, <3>1, <3>3, <4>1 DEF Make, Unleaked
    <3>4. CASE GiveItUp(t)
      <4>1. unpub' = unpub \ {feeHash[Job]}
        BY <1>3, <2>2, <3>4 DEF GiveItUp, Abandon
      <4>. QED
        BY <1>1, <3>1, <4>1 DEF Unleaked
    <3>. QED
      BY <2>6, <3>2, <3>3, <3>4 DEF Worked, RecordIt, DropIt
  <2>. QED
    BY <2>5, <2>6
<1>. QED
  BY <1>2, <1>3

LEMMA CameUnleaked ==
  ASSUME OneClient, Known, Unleaked, IInv', NEW t \in Threads, Came(t)
  PROVE  Unleaked'
<1>1. /\ TypeOK /\ TypeOK' /\ OnePayment /\ Equipped /\ ticket' = ticket /\ ticket = "valid"
      /\ vsp' = vsp /\ unpub' = unpub
  BY DEF Known, Grounds, IInv, Unleaked, Came, Approach, Start, Register, Turn, Create
<1>2. \A u \in Threads : At(u, "paidMark") => thread'[u] = thread[u]
  BY DEF Came, Approach, Start, Register, Turn, Create, Others
<1>3. /\ \A c \in Clients : jobs[c] = Job /\ jobs'[c] = Job'
      /\ Job \in Payments \cup {NoPay}
      /\ jobs' = jobs => Job' = Job
  BY <1>1, JobIs DEF Job
<1>4. Job # NoPay => Job' = Job /\ feeHash'[Job] = feeHash[Job]
  <2>1. CASE Approach(t) \/ Start(t) \/ Turn(t)
    BY <1>3, <2>1 DEF Approach, Start, Turn
  <2>2. CASE Register(t)
    BY <1>1, <1>3, <2>2 DEF Register, Equipped
  <2>3. ASSUME NEW p \in Payments, Create(t, p)
        PROVE  Job # NoPay => Job' = Job /\ feeHash'[Job] = feeHash[Job]
    BY <1>1, <1>3, <2>3 DEF Create, Garbage, OneClient, TypeOK
  <2>. QED
    BY <2>1, <2>2, <2>3 DEF Came
<1>. QED
  BY <1>1, <1>2, <1>4 DEF Unleaked

LEMMA EnvironmentUnleaked ==
  ASSUME Faults \subseteq {"net", "reject", "write"}, Known, HeldIsJobs, Unleaked,
         Environment \/ UNCHANGED vars
  PROVE  Unleaked'
<1>1. TypeOK /\ Settled /\ ticket = "valid" /\ "crash" \notin Faults /\ "ends" \notin Faults
  BY DEF Known, Grounds, IInv, Unleaked
<1>2. CASE VspProgress
  <2>1. /\ Held /\ vsp.status # "confirmed" /\ vsp'.tx = vsp.tx
        /\ UNCHANGED <<unpub, ticket, jobs, feeHash, thread>>
    BY <1>1, <1>2 DEF VspProgress, wallet, payment, Held, HeldStates, TypeOK
  <2>2. \A tx \in unpub : Job # NoPay /\ feeHash[Job] = tx
    BY <1>1, <2>1 DEF Unleaked, Settled, Making
  <2>3. \A tx \in unpub : tx = vsp.tx
    BY <1>1, <2>1, <2>2, ConstantsAssumption DEF HeldIsJobs, Active, TypeOK
  <2>. QED
    BY <1>1, <2>1, <2>2, <2>3 DEF Unleaked, Job
<1>3. CASE WalletSeesFeeTx \/ UNCHANGED vars
  BY <1>3 DEF WalletSeesFeeTx, vars, wallet, payment, Unleaked, Job
<1>4. CASE VspBroadcastFails
  BY <1>1, <1>4 DEF VspBroadcastFails, wallet, payment, Unleaked, Job, TypeOK
<1>. QED
  BY <1>1, <1>2, <1>3, <1>4 DEF Environment, TicketEnds, Restart

\* With one client, whose VSP may fail, refuse fee txs and let them expire, and whose
\* database writes may fail, an unpublished fee tx is always one that somebody still
\* knows: the coins in it are never out of reach.
THEOREM NoFeeTxLeaks ==
  ASSUME OneClient, Faults \subseteq {"net", "reject", "write"}
  PROVE  Spec => []NoLeakedTx
<1>1. Init => Unleaked
  BY DEF Init, Unleaked
<1>2. Serves /\ "abandon" \notin Faults /\ "crash" \notin Faults
  BY DEF Serves
<1>3. Known /\ HeldIsJobs /\ Unleaked /\ IInv' /\ [Step]_vars => Unleaked'
  BY <1>2, WorkedUnleaked, CameUnleaked, EnvironmentUnleaked DEF Step
<1>4. Known /\ Unleaked => NoLeakedTx
  <2>. SUFFICES ASSUME Known, Unleaked, NEW tx \in unpub
                PROVE  \/ record.hash = tx \/ vsp.tx = tx
                       \/ \E p \in Payments : feeTx[p] = tx /\ ~Garbage(p)
                       \/ \E t \in Threads : thread[t].tx = tx
    BY DEF NoLeakedTx
  <2>1. CASE Job # NoPay /\ feeHash[Job] = tx
    <3>1. PICK c \in Clients : jobs[c] = Job /\ Job \in Payments
      BY <2>1 DEF OneClient, Job, Known, Grounds, IInv, TypeOK
    <3>2. feeTx[Job] = tx
      BY <2>1, <3>1, ConstantsAssumption DEF Known, Grounds, IInv, TypeOK, Fitting, HashOf
    <3>. QED
      BY <3>1, <3>2 DEF Garbage
  <2>. QED
    BY <2>1 DEF Unleaked
<1>5. Spec => []Known
  BY <1>2, KnownAlways
<1>6. Spec => []HeldIsJobs
  BY <1>2, HeldIsJobsAlways
<1>. QED
  BY <1>1, <1>3, <1>4, <1>5, <1>6, Inductive, Steps, PTL DEF Spec

==============================================================================
