------------------------------- MODULE VspFee -------------------------------
(***************************************************************************)
(* The payment of a voting service provider's (VSP) fee for ONE ticket:    *)
(* the fee payments (type vspFeePayment) of the wallet's VSP clients, the  *)
(* goroutines that work on them, the ticket's VSP record in the wallet     *)
(* database, the fee transactions in the wallet, and the VSP itself.       *)
(*                                                                         *)
(* Source: src/_vendored/monetarium-wallet/wallet/{feepayment,vsp,         *)
(* vspticket}.go, called from src/libwallet/assets/dcr/ticket.go.  The VSP *)
(* is a remote service: it is modelled by the answers that code expects.   *)
(*                                                                         *)
(* A goroutine is a member of Threads.  thread[t].pc names the statement   *)
(* it is about to run; steps are cut at every database write, every VSP    *)
(* request and every mutex, which is where other goroutines get in.        *)
(***************************************************************************)
EXTENDS Naturals, FiniteSets

CONSTANTS
  Clients,    \* VSP clients for the ticket's host: one per account (host#account)
  Threads,    \* goroutines that run at once; more of them wait to be started
  Payments,   \* vspFeePayment objects
  Txs,        \* fee transactions, one set of fee-sized coins each
  NoTx, Unfinished, NoPay, NoThread,
  Faults      \* what may go wrong: a subset of AllFaults

AllFaults == {"net", "write", "abandon", "crash", "tooHigh", "cannotVote",
              "reject", "ends"}

ASSUME ConstantsAssumption ==
  /\ NoTx \notin Txs /\ Unfinished \notin Txs /\ NoTx # Unfinished
  /\ NoPay \notin Payments
  /\ NoThread \notin Threads
  /\ Faults \subseteq AllFaults

VARIABLES
  record,     \* the ticket's row in the VSP bucket of the wallet database
  store,      \* fee transactions the wallet database holds
  unpub,      \* those of them flagged unpublished
  vsp,        \* what the VSP knows of the fee: [status, tx]
  ticket,     \* what the wallet knows of the ticket
  purchased,  \* the purchase has called Process for the ticket
  jobs,       \* VSPClient.jobs, for this ticket: client -> payment
  owner,      \* vspFeePayment.client
  feeTx, feeHash, timer, procMu,   \* fields of vspFeePayment
  quoted,     \* payments that have a quote (fee and feeAddr) from the VSP
  thread      \* the goroutines

wallet  == <<record, store, unpub>>
payment == <<owner, feeTx, feeHash, quoted>>
vars == <<record, store, unpub, vsp, ticket, purchased, jobs, owner, feeTx,
          feeHash, quoted, timer, procMu, thread>>

-----------------------------------------------------------------------------
(* States of the parts *)

NoRecord == [status |-> "none", hash |-> NoTx]
RecordOf(s, h) == [status |-> s, hash |-> h]

HeldStates == {"received", "broadcast", "confirmed"}
Held == vsp.status \in HeldStates

\* Mutant of Signed: any transaction will do.
SignedIfAny(tx) == tx # NoTx

\* feeTxSigned: the transaction has outputs and every input is signed.
Signed(tx) == tx \in Txs

Idle == [pc |-> "idle", task |-> "none", client |-> NoPay, pay |-> NoPay,
         tx |-> NoTx, answer |-> "none", own |-> FALSE]

Goto(t, pc) == thread' = [thread EXCEPT ![t].pc = pc]

\* The goroutine returns; a deferred or final procMu.Unlock frees its payment.
Return(t) ==
  /\ thread' = [thread EXCEPT ![t] = Idle]
  /\ procMu' = [p \in Payments |-> IF procMu[p] = t THEN NoThread ELSE procMu[p]]

At(t, pc) == thread[t].pc = pc
Pay(t) == thread[t].pay

Schedule(p, method) == timer' = [timer EXCEPT ![p] = method]

\* remove: stop the timer, delete the ticket's job whoever is registered.
Remove(p) ==
  /\ jobs' = [jobs EXCEPT ![owner[p]] = NoPay]
  /\ Schedule(p, "none")

\* A transaction no one knows any more can stand for a new one.
Unknown(tx) ==
  /\ tx \notin store
  /\ record.hash # tx /\ vsp.tx # tx
  /\ \A p \in Payments : feeTx[p] # tx /\ feeHash[p] # tx
  /\ \A t \in Threads : thread[t].tx # tx

\* A payment no one refers to can stand for a newly allocated one.
Garbage(p) ==
  /\ \A c \in Clients : jobs[c] # p
  /\ timer[p] = "none"
  /\ \A t \in Threads : Pay(t) # p

\* One database transaction that sets the record; it may fail as a whole.
Wrote(r) == record' = r
WriteFailed == "write" \in Faults /\ UNCHANGED record

\* Mutant of Abandon: the transaction is only logged as abandoned.
AbandonLogsOnly(tx) == UNCHANGED <<store, unpub>>

\* AbandonTransaction: an unmined transaction leaves the wallet, freeing its
\* coins.  A mined one stays, and the call may fail; the error is only logged.
Abandon(tx) ==
  \/ /\ ~(vsp.tx = tx /\ vsp.status = "confirmed")
     /\ store' = store \ {tx}
     /\ unpub' = unpub \ {tx}
  \/ /\ \/ "abandon" \in Faults
        \/ vsp.tx = tx /\ vsp.status = "confirmed"
     /\ UNCHANGED <<store, unpub>>

-----------------------------------------------------------------------------
(* Initial states: a ticket just bought, or a wallet restored from its seed  *)
(* whose ticket a VSP already manages, with or without a fee it received.    *)

Init ==
  /\ record = NoRecord
  /\ store = {} /\ unpub = {}
  /\ ticket = "valid"
  /\ \/ purchased = FALSE /\ vsp = [status |-> "none", tx |-> NoTx]
     \/ /\ purchased = TRUE
        /\ \/ vsp = [status |-> "none", tx |-> NoTx]
           \/ \E tx \in Txs : vsp = [status |-> "received", tx |-> tx]
  /\ jobs = [c \in Clients |-> NoPay]
  /\ owner = [p \in Payments |-> NoPay]
  /\ feeTx = [p \in Payments |-> NoTx]
  /\ feeHash = [p \in Payments |-> NoTx]
  /\ quoted = {}
  /\ timer = [p \in Payments |-> "none"]
  /\ procMu = [p \in Payments |-> NoThread]
  /\ thread = [t \in Threads |-> Idle]

-----------------------------------------------------------------------------
(* Callers *)

Begin(t, pc, c, own) ==
  /\ At(t, "idle")
  /\ thread' = [thread EXCEPT ![t] =
                  [Idle EXCEPT !.pc = pc, !.client = c, !.own = own]]

\* purchaseTickets: the published ticket's fee, with inputs it reserved.
Purchase(t, c) ==
  /\ ~purchased
  /\ purchased' = TRUE
  /\ Begin(t, "read", c, TRUE)
  /\ UNCHANGED <<wallet, vsp, ticket, jobs, payment, timer, procMu>>

\* ProcessUnpaidVSPTickets: tickets recorded as started, errored or paid.
ProcessUnpaid(t, c) ==
  /\ record.status \in {"started", "errored", "paid"}
  /\ ticket # "pruned"
  /\ Begin(t, "read", c, FALSE)
  /\ UNCHANGED <<wallet, vsp, ticket, purchased, jobs, payment, timer, procMu>>

\* RecoverUnregisteredVSPTickets lists the UnprocessedTickets: those without a
\* fee hash and not confirmed.  ProcessManagedTickets comes to this one later,
ProcessManaged(t, c) ==
  /\ record.hash = NoTx /\ record.status # "confirmed"
  /\ ticket = "valid"
  /\ Begin(t, "managed", c, FALSE)
  /\ UNCHANGED <<wallet, vsp, ticket, purchased, jobs, payment, timer, procMu>>

\* and skips it if the client has a job for it.
ManagedLookup(t) ==
  /\ At(t, "managed")
  /\ \/ /\ jobs[thread[t].client] = NoPay
        /\ Goto(t, "managedStatus")
        /\ UNCHANGED procMu
     \/ jobs[thread[t].client] # NoPay /\ Return(t)
  /\ UNCHANGED <<wallet, vsp, ticket, purchased, jobs, payment, timer>>

\* The VSP's answer on the ticket; an error skips it, as for a ticket that the
\* VSP does not know.
ManagedStatus(t) ==
  /\ At(t, "managedStatus")
  /\ \/ /\ "net" \in Faults \/ vsp.status = "none"
        /\ Return(t)
     \/ /\ vsp.status = "none"
        /\ Goto(t, "read")
        /\ UNCHANGED procMu
     \/ /\ vsp.status # "none"
        /\ thread' = [thread EXCEPT ![t].pc = "managedMark", ![t].tx = vsp.tx,
                                    ![t].answer = vsp.status]
        /\ UNCHANGED procMu
  /\ UNCHANGED <<wallet, vsp, ticket, purchased, jobs, payment, timer>>

\* Mutant of FeeIsFinal: a broadcast fee counts as confirmed.
FinalWhenBroadcast(s) == s \in {"broadcast", "confirmed"}

\* The fee state after which nothing is left to do.
FeeIsFinal(s) == s = "confirmed"

\* A confirmed fee is recorded and that is all; any other known fee is
\* recorded as paid and processed, unless the write fails.
ManagedMark(t) ==
  /\ At(t, "managedMark")
  /\ \/ /\ FeeIsFinal(thread[t].answer)
        /\ Wrote(RecordOf("confirmed", thread[t].tx)) \/ WriteFailed
        /\ Return(t)
     \/ /\ ~FeeIsFinal(thread[t].answer)
        /\ Wrote(RecordOf("paid", thread[t].tx))
        /\ thread' = [thread EXCEPT ![t].pc = "read", ![t].tx = NoTx]
        /\ UNCHANGED procMu
     \/ /\ ~FeeIsFinal(thread[t].answer)
        /\ WriteFailed
        /\ Return(t)
  /\ UNCHANGED <<store, unpub, vsp, ticket, purchased, jobs, payment, timer>>

-----------------------------------------------------------------------------
(* VSPClient.Process up to the payment's lock *)

\* The record decides what Process does: nothing, confirm or pay.
ReadRecord(t) ==
  /\ At(t, "read")
  /\ \/ record.status = "confirmed" /\ Return(t)
     \/ /\ record.status # "confirmed"
        /\ thread' = [thread EXCEPT ![t].pc = "lookup",
             ![t].task = IF record.status = "paid" THEN "paid" ELSE "pay"]
        /\ UNCHANGED procMu
  /\ UNCHANGED <<wallet, vsp, ticket, purchased, jobs, payment, timer>>

\* feePayment: the job the client already has ...
LookupJob(t) ==
  LET c == thread[t].client IN
  /\ At(t, "lookup")
  /\ thread' = [thread EXCEPT ![t].pc = IF jobs[c] = NoPay THEN "create" ELSE "lock",
                              ![t].pay = jobs[c]]
  /\ UNCHANGED <<wallet, vsp, ticket, purchased, jobs, payment, timer, procMu>>

\* ... or a new one, with the fee transaction the record names if the wallet
\* has it.  No VSP interaction is required for spent tickets.
CreatePayment(t) ==
  /\ At(t, "create")
  /\ \E p \in Payments :
       LET known == ticket # "spent" /\ record.hash \in store
           tx    == IF known THEN record.hash ELSE NoTx IN
       /\ Garbage(p)
       /\ owner' = [owner EXCEPT ![p] = thread[t].client]
       /\ feeTx' = [feeTx EXCEPT ![p] = tx]
       /\ feeHash' = [feeHash EXCEPT ![p] = tx]
       /\ quoted' = quoted \ {p}
       /\ thread' = [thread EXCEPT ![t].pay = p, ![t].pc =
            IF known /\ thread[t].task = "pay" THEN "start" ELSE "register"]
  /\ UNCHANGED <<wallet, vsp, ticket, purchased, jobs, timer, procMu>>

\* UpdateFeeStarted, for a payment that is not known to be paid.
MarkStarted(t) ==
  /\ At(t, "start")
  /\ Wrote(RecordOf("started", feeHash[Pay(t)])) \/ WriteFailed
  /\ Goto(t, "register")
  /\ UNCHANGED <<store, unpub, vsp, ticket, purchased, jobs, payment, timer, procMu>>

\* The deferred registration: whoever registered first wins.
RegisterJob(t) ==
  LET c == thread[t].client IN
  /\ At(t, "register")
  /\ \/ /\ jobs[c] = NoPay
        /\ jobs' = [jobs EXCEPT ![c] = Pay(t)]
        /\ Goto(t, "arm")
     \/ /\ jobs[c] # NoPay
        /\ thread' = [thread EXCEPT ![t].pc = "lock", ![t].pay = jobs[c]]
        /\ UNCHANGED jobs
  /\ UNCHANGED <<wallet, vsp, ticket, purchased, payment, timer, procMu>>

ArmTimer(t) ==
  /\ At(t, "arm")
  /\ Schedule(Pay(t), "reconcile")
  /\ Goto(t, "lock")
  /\ UNCHANGED <<wallet, vsp, ticket, purchased, jobs, payment, procMu>>

\* A payment's timer starts a goroutine that runs its method.
TimerFires(t, p) ==
  /\ At(t, "idle")
  /\ timer[p] # "none"
  /\ thread' = [thread EXCEPT ![t] = [Idle EXCEPT !.pc = "lock",
                  !.task = timer[p], !.client = owner[p], !.pay = p]]
  /\ Schedule(p, "none")
  /\ UNCHANGED <<wallet, vsp, ticket, purchased, jobs, payment, procMu>>

\* Mutant of LockFree: attempts on a payment do not wait for each other.
NoLock(p) == TRUE

LockFree(p) == procMu[p] = NoThread

FirstStep == [pay |-> "quote", paid |-> "confirm",
              reconcile |-> "reconcile", confirm |-> "confirm"]

LockProcMu(t) ==
  /\ At(t, "lock")
  /\ LockFree(Pay(t))
  /\ procMu' = [procMu EXCEPT ![Pay(t)] = t]
  /\ Goto(t, FirstStep[thread[t].task])
  /\ UNCHANGED <<wallet, vsp, ticket, purchased, jobs, payment, timer>>

-----------------------------------------------------------------------------
(* Work on a payment, under its procMu *)

\* removedExpiredOrSpent: the payment is removed, and for a ticket the wallet
\* dropped so is its record (a failed delete is only logged).  The caller may
\* schedule the payment again.
StopPayment(p, method) ==
  /\ ticket # "valid"
  /\ jobs' = [jobs EXCEPT ![owner[p]] = NoPay]
  /\ Schedule(p, method)
  /\ \/ ticket = "pruned" /\ Wrote(NoRecord)
     \/ ticket = "pruned" /\ WriteFailed
     \/ ticket # "pruned" /\ UNCHANGED record

\* Mutant of TicketOver: the timer stops, the job stays in the client.
OverKeepsJob(p) == ticket # "valid" /\ Schedule(p, "none") /\ UNCHANGED <<record, jobs>>

TicketOver(p) == StopPayment(p, "none")

\* feeaddress errors and the faults that cause them.  The VSP refuses a quote
\* for a fee it holds; a quote above the policy's MaxFee is refused here.
QuoteRefusals ==
  {e \in {"net", "cannotVote", "tooHigh", "already"} :
     \/ e \in Faults /\ (e \in {"cannotVote", "tooHigh"} => ~Held)
     \/ e = "already" /\ Held}

\* Process adopts the caller's inputs, dropping what an attempt left half
\* built, and asks the VSP for a quote.  On failure the caller's inputs are let
\* go and the fee is to be marked errored.
KeptTx(t) == IF ~thread[t].own /\ ~Signed(feeTx[Pay(t)]) THEN NoTx ELSE feeTx[Pay(t)]
Adopts(t) == thread[t].own /\ KeptTx(t) = NoTx
AdoptedTx(t) == IF Adopts(t) THEN Unfinished ELSE KeptTx(t)

\* Mutant of RefusedTx: the caller's inputs stay for the scheduled attempt.
RefusedTxKeepsInputs(t) == AdoptedTx(t)

RefusedTx(t) == KeptTx(t)

QuoteForProcess(t) ==
  LET p == Pay(t) IN
  /\ At(t, "quote")
  /\ \/ /\ TicketOver(p)
        /\ feeTx' = [feeTx EXCEPT ![p] = RefusedTx(t)]
        /\ Goto(t, "erroredMark")
        /\ UNCHANGED quoted
     \/ /\ ticket = "valid" /\ QuoteRefusals # {}
        /\ feeTx' = [feeTx EXCEPT ![p] = RefusedTx(t)]
        /\ Goto(t, "erroredMark")
        /\ UNCHANGED <<record, jobs, timer, quoted>>
     \/ /\ ticket = "valid" /\ ~Held
        /\ feeTx' = [feeTx EXCEPT ![p] = AdoptedTx(t)]
        /\ quoted' = quoted \cup {p}
        /\ Goto(t, IF Signed(AdoptedTx(t)) THEN "submit" ELSE "makeTx")
        /\ UNCHANGED <<record, jobs, timer>>
  /\ UNCHANGED <<store, unpub, vsp, ticket, purchased, owner, feeHash, procMu>>

\* UpdateFeeErrored, after which Process returns the error.
MarkErrored(t) ==
  /\ At(t, "erroredMark")
  /\ Wrote(RecordOf("errored", NoTx)) \/ WriteFailed
  /\ Return(t)
  /\ UNCHANGED <<store, unpub, vsp, ticket, purchased, jobs, payment, timer>>

\* Mutant of Retry: a failed attempt is not scheduled again.
GiveUp(p) == UNCHANGED timer

Retry(p) == Schedule(p, "reconcile")

\* reconcilePayment retries from a new fee tx and a new quote.
StartOver(t, p) ==
  /\ quoted' = quoted \ {p}
  /\ feeTx' = [feeTx EXCEPT ![p] = NoTx]
  /\ Retry(p)
  /\ Return(t)

\* The scheduled attempt: stop for a ticket that is over; submit a finished fee
\* tx; otherwise make one, with the quote at hand or a new one.
Reconcile(t) ==
  LET p == Pay(t) IN
  /\ At(t, "reconcile")
  /\ \/ /\ TicketOver(p)
        /\ Return(t)
     \/ /\ ticket = "valid"
        /\ Goto(t, IF Signed(feeTx[p]) THEN "submit"
                   ELSE IF p \in quoted THEN "makeTx" ELSE "requote")
        /\ UNCHANGED <<record, jobs, timer, procMu>>
  /\ UNCHANGED <<store, unpub, vsp, ticket, purchased, payment>>

\* receiveFeeAddress inside makeFeeTx: which error ends the attempt, which
\* removes the payment and which is retried.
QuoteForReconcile(t) ==
  LET p == Pay(t) IN
  /\ At(t, "requote")
  /\ \/ /\ TicketOver(p)
        /\ Return(t)
        /\ UNCHANGED <<quoted, feeTx>>
     \/ /\ ticket = "valid" /\ ~Held
        /\ quoted' = quoted \cup {p}
        /\ Goto(t, "makeTx")
        /\ UNCHANGED <<record, jobs, timer, procMu, feeTx>>
     \/ /\ ticket = "valid"
        /\ \E e \in QuoteRefusals :
             \/ /\ e = "cannotVote" /\ Remove(p) /\ Return(t)
                /\ UNCHANGED <<quoted, feeTx>>
             \/ /\ e = "already" /\ Return(t)
                /\ UNCHANGED <<jobs, timer, quoted, feeTx>>
             \/ /\ e = "tooHigh" /\ Goto(t, "tooHighMark")
                /\ UNCHANGED <<jobs, timer, procMu, quoted, feeTx>>
             \/ /\ e = "net" /\ StartOver(t, p)
                /\ UNCHANGED jobs
        /\ UNCHANGED record
  /\ UNCHANGED <<store, unpub, vsp, ticket, purchased, owner, feeHash>>

\* A fee above the maximum: marked errored (a failed write is only logged) and
\* removed until the next unlock retries it.
MarkTooHigh(t) ==
  /\ At(t, "tooHighMark")
  /\ Wrote(RecordOf("errored", NoTx)) \/ WriteFailed
  /\ Remove(Pay(t))
  /\ Return(t)
  /\ UNCHANGED <<store, unpub, vsp, ticket, purchased, payment>>

\* Process clears a payment whose fee tx could not be made.
MakeFailed(t) ==
  LET p == Pay(t) IN
  \/ /\ thread[t].task = "pay"
     /\ feeTx' = [feeTx EXCEPT ![p] = NoTx]
     /\ feeHash' = [feeHash EXCEPT ![p] = NoTx]
     /\ thread' = [thread EXCEPT ![t].pc = "erroredMark", ![t].tx = NoTx]
     /\ UNCHANGED <<quoted, timer, procMu>>
  \/ /\ thread[t].task = "reconcile"
     /\ StartOver(t, p)
     /\ UNCHANGED feeHash

\* makeFeeTx: CreateVspPayment adds a signed, unpublished fee tx to the wallet,
\* or fails: no coins left, or the wallet is locked.
\* Mutant of MadeHash: the hash is taken before the tx is funded and signed.
HashBeforeFunding(t) == IF thread[t].own THEN Unfinished ELSE thread[t].tx

MadeHash(t) == thread[t].tx

MakeFeeTx(t) ==
  /\ At(t, "makeTx")
  /\ \/ \E tx \in Txs :
          /\ Unknown(tx)
          /\ store' = store \cup {tx}
          /\ unpub' = unpub \cup {tx}
          /\ thread' = [thread EXCEPT ![t].pc = "paidMark", ![t].tx = tx]
          /\ UNCHANGED <<feeTx, feeHash, quoted, timer, procMu>>
     \/ /\ MakeFailed(t)
        /\ UNCHANGED <<store, unpub>>
  /\ UNCHANGED <<record, vsp, ticket, purchased, jobs, owner>>

\* ... and UpdateFeePaid records its hash; on failure the tx is abandoned.
RecordFeeTx(t) ==
  LET p == Pay(t)
      tx == thread[t].tx IN
  /\ At(t, "paidMark")
  /\ \/ /\ Wrote(RecordOf("paid", MadeHash(t)))
        /\ feeTx' = [feeTx EXCEPT ![p] = tx]
        /\ feeHash' = [feeHash EXCEPT ![p] = MadeHash(t)]
        /\ thread' = [thread EXCEPT ![t].pc = "submit", ![t].tx = NoTx]
        /\ UNCHANGED <<store, unpub, quoted, timer, procMu>>
     \/ /\ WriteFailed
        /\ Abandon(tx)
        /\ MakeFailed(t)
  /\ UNCHANGED <<vsp, ticket, purchased, jobs, owner>>

\* submitPayment: payfee.  A VSP that holds a fee refuses another; otherwise it
\* takes this one (an answer may be lost) or refuses it.  A ticket that is over
\* stops Process, but reconcilePayment schedules another attempt.
Submit(t) ==
  LET p == Pay(t)
      Answered(a) == thread' = [thread EXCEPT ![t].pc = "answered", ![t].answer = a]
  IN
  /\ At(t, "submit")
  /\ \/ /\ StopPayment(p, IF thread[t].task = "reconcile" THEN "reconcile" ELSE "none")
        /\ Return(t)
        /\ UNCHANGED vsp
     \/ /\ ticket = "valid"
        /\ \/ /\ ~Held
              /\ \E s \in {"received", "broadcast"} : vsp' = [status |-> s, tx |-> feeTx[p]]
              /\ Answered("ok") \/ ("net" \in Faults /\ Answered("net"))
           \/ /\ ~Held /\ "reject" \in Faults
              /\ Answered("expired") \/ Answered("invalid")
              /\ UNCHANGED vsp
           \/ /\ Held /\ Answered("already")
              /\ UNCHANGED vsp
           \/ /\ "net" \in Faults /\ Answered("net")
              /\ UNCHANGED vsp
        /\ UNCHANGED <<record, jobs, timer, procMu>>
  /\ UNCHANGED <<store, unpub, ticket, purchased, payment>>

\* Mutant of AbandonedOn: a fee tx whose submission got no answer is abandoned.
AbandonedOnNoAnswer == {"expired", "net"}

\* The answers on which submitPayment abandons the fee tx (ErrFeeExpired).
AbandonedOn == {"expired"}

\* Answers that end here: Process returns whatever the VSP said; a scheduled
\* attempt that got none is retried.
EndSubmit(t) ==
  /\ At(t, "answered")
  /\ thread[t].answer \notin AbandonedOn
  /\ \/ /\ thread[t].task = "pay"
        /\ UNCHANGED timer
     \/ /\ thread[t].task = "reconcile" /\ thread[t].answer = "net"
        /\ Retry(Pay(t))
  /\ Return(t)
  /\ UNCHANGED <<wallet, vsp, ticket, purchased, jobs, payment>>

\* The VSP no longer takes the quoted fee: its tx is abandoned and forgotten,
Forget(p) ==
  /\ feeTx' = [feeTx EXCEPT ![p] = NoTx]
  /\ feeHash' = [feeHash EXCEPT ![p] = NoTx]
  /\ quoted' = quoted \ {p}

FeeExpired(t) ==
  /\ At(t, "answered")
  /\ thread[t].answer \in AbandonedOn
  /\ Abandon(feeTx[Pay(t)])
  /\ Forget(Pay(t))
  /\ Goto(t, "expiredMark")
  /\ UNCHANGED <<record, vsp, ticket, purchased, jobs, owner, timer, procMu>>

\* and then the record is marked errored, so that it does not stay paid.
MarkExpired(t) ==
  /\ At(t, "expiredMark")
  /\ Wrote(RecordOf("errored", NoTx)) \/ WriteFailed
  /\ \/ thread[t].task = "reconcile" /\ Retry(Pay(t))
     \/ thread[t].task = "pay" /\ UNCHANGED timer
  /\ Return(t)
  /\ UNCHANGED <<store, unpub, vsp, ticket, purchased, jobs, payment>>

\* reconcilePayment on ErrInvalidFeeTx or ErrCannotBroadcastFee: mark errored,
MarkRejected(t) ==
  /\ At(t, "answered")
  /\ thread[t].answer = "invalid" /\ thread[t].task = "reconcile"
  /\ Wrote(RecordOf("errored", NoTx)) \/ WriteFailed
  /\ Goto(t, "rejected")
  /\ UNCHANGED <<store, unpub, vsp, ticket, purchased, jobs, payment, timer, procMu>>

\* then free the coins and make a new fee tx on the next attempt.
AbandonRejected(t) ==
  /\ At(t, "rejected")
  /\ Abandon(feeHash[Pay(t)])
  /\ Forget(Pay(t))
  /\ Retry(Pay(t))
  /\ Return(t)
  /\ UNCHANGED <<record, vsp, ticket, purchased, jobs, owner>>

\* reconcilePayment when the VSP has the fee: record it as paid, then confirm.
MarkPaid(t) ==
  /\ At(t, "answered")
  /\ thread[t].task = "reconcile" /\ thread[t].answer \in {"ok", "already"}
  /\ \/ /\ Wrote(RecordOf("paid", feeHash[Pay(t)]))
        /\ Goto(t, "confirm")
        /\ UNCHANGED <<timer, procMu>>
     \/ /\ WriteFailed \/ ("write" \in Faults /\ thread[t].answer = "already"
                             /\ Wrote(RecordOf("paid", feeHash[Pay(t)])))
        /\ Retry(Pay(t))
        /\ Return(t)
  /\ UNCHANGED <<store, unpub, vsp, ticket, purchased, jobs, payment>>

\* Mutant of ShowsPublished: a fee the VSP only received counts as broadcast.
ShowsReceived(s) == s \in {"received", "broadcast"}

\* The fee states on which the wallet drops the unpublished flag.
ShowsPublished(s) == s = "broadcast"

\* confirmPayment: what the VSP says of the fee decides what runs next.
Confirm(t) ==
  LET p == Pay(t) IN
  /\ At(t, "confirm")
  /\ \/ /\ TicketOver(p) /\ Return(t)
        /\ UNCHANGED unpub
     \/ /\ ticket = "valid"
        /\ "net" \in Faults \/ vsp.status \in {"none", "error"}
        /\ Retry(p) /\ Return(t)
        /\ UNCHANGED <<record, unpub, jobs>>
     \/ /\ ticket = "valid"
        /\ vsp.status \in {"received", "broadcast"} /\ ~FeeIsFinal(vsp.status)
        /\ unpub' = IF ShowsPublished(vsp.status) THEN unpub \ {feeHash[p]} ELSE unpub
        /\ Schedule(p, "confirm") /\ Return(t)
        /\ UNCHANGED <<record, jobs>>
     \/ /\ ticket = "valid" /\ FeeIsFinal(vsp.status)
        /\ Remove(p) /\ Goto(t, "confirmedMark")
        /\ UNCHANGED <<record, unpub, procMu>>
  /\ UNCHANGED <<store, vsp, ticket, purchased, payment>>

\* UpdateFeeConfirmed; the deferred function schedules a reconcile on failure.
MarkConfirmed(t) ==
  /\ At(t, "confirmedMark")
  /\ \/ /\ Wrote(RecordOf("confirmed", feeHash[Pay(t)]))
        /\ UNCHANGED timer
     \/ /\ WriteFailed
        /\ Retry(Pay(t))
  /\ Return(t)
  /\ UNCHANGED <<store, unpub, vsp, ticket, purchased, jobs, payment>>

-----------------------------------------------------------------------------
(* The environment: the VSP broadcasts the fee and sees it confirmed, or fails *)
(* to; the ticket expires, is spent or is dropped; the program restarts.       *)

VspProgress ==
  /\ vsp.status \in {"received", "broadcast"}
  /\ vsp' = [vsp EXCEPT !.status = IF @ = "received" THEN "broadcast" ELSE "confirmed"]
  /\ UNCHANGED <<wallet, ticket, purchased, jobs, payment, timer, procMu, thread>>

\* The wallet sees the broadcast fee tx: in a block, or sent by a peer.
WalletSeesFeeTx ==
  /\ vsp.status \in {"broadcast", "confirmed"}
  /\ store' = store \cup {vsp.tx}
  /\ unpub' = unpub \ {vsp.tx}
  /\ UNCHANGED <<record, vsp, ticket, purchased, jobs, payment, timer, procMu, thread>>

VspBroadcastFails ==
  /\ "reject" \in Faults
  /\ vsp.status \in {"received", "broadcast"}
  /\ vsp' = [vsp EXCEPT !.status = "error"]
  /\ UNCHANGED <<wallet, ticket, purchased, jobs, payment, timer, procMu, thread>>

TicketEnds ==
  /\ "ends" \in Faults
  /\ ticket = "valid"
  /\ ticket' \in {"expired", "spent", "pruned"}
  /\ UNCHANGED <<wallet, vsp, purchased, jobs, payment, timer, procMu, thread>>

Restart ==
  /\ "crash" \in Faults
  /\ jobs' = [c \in Clients |-> NoPay]
  /\ owner' = [p \in Payments |-> NoPay]
  /\ feeTx' = [p \in Payments |-> NoTx]
  /\ feeHash' = [p \in Payments |-> NoTx]
  /\ quoted' = {}
  /\ timer' = [p \in Payments |-> "none"]
  /\ procMu' = [p \in Payments |-> NoThread]
  /\ thread' = [t \in Threads |-> Idle]
  /\ UNCHANGED <<wallet, vsp, ticket, purchased>>

-----------------------------------------------------------------------------

Call(t) ==
  \E c \in Clients : Purchase(t, c) \/ ProcessUnpaid(t, c) \/ ProcessManaged(t, c)

\* The next step of a goroutine that has started.
Run(t) ==
  \/ ManagedLookup(t) \/ ManagedStatus(t) \/ ManagedMark(t)
  \/ ReadRecord(t) \/ LookupJob(t) \/ CreatePayment(t) \/ MarkStarted(t)
  \/ RegisterJob(t) \/ ArmTimer(t) \/ LockProcMu(t)
  \/ QuoteForProcess(t) \/ MarkErrored(t)
  \/ Reconcile(t) \/ QuoteForReconcile(t) \/ MarkTooHigh(t)
  \/ MakeFeeTx(t) \/ RecordFeeTx(t)
  \/ Submit(t) \/ EndSubmit(t) \/ FeeExpired(t) \/ MarkExpired(t)
  \/ MarkRejected(t) \/ AbandonRejected(t) \/ MarkPaid(t)
  \/ Confirm(t) \/ MarkConfirmed(t)

Fire(t) == \E p \in Payments : TimerFires(t, p)

Environment == VspProgress \/ WalletSeesFeeTx \/ VspBroadcastFails \/ TicketEnds \/ Restart

Next == (\E t \in Threads : Call(t) \/ Fire(t) \/ Run(t)) \/ Environment

Spec == Init /\ [][Next]_vars

\* Requests and builds that succeed: they are not refused for ever.
Quoted(t)   == (QuoteForProcess(t) \/ QuoteForReconcile(t)) /\ Pay(t) \in quoted'
Made(t)     == MakeFeeTx(t) /\ store' # store
Submitted(t) == Submit(t) /\ thread'[t].answer \in {"ok", "already"}
Checked(t)  == Confirm(t) /\ thread'[t].pc = "confirmedMark"

\* The Go scheduler runs every goroutine, its mutexes starve nobody, a timer
\* that is left alone fires, and the VSP answers and works on the fee at last.
Fairness ==
  /\ \A t \in Threads :
       /\ WF_vars(Run(t)) /\ SF_vars(LockProcMu(t))
       /\ SF_vars(Quoted(t)) /\ SF_vars(Made(t))
       /\ SF_vars(Submitted(t)) /\ SF_vars(Checked(t))
  /\ \A p \in Payments : SF_vars(\E t \in Threads : TimerFires(t, p))
  /\ WF_vars(VspProgress)

FairSpec == Spec /\ Fairness

-----------------------------------------------------------------------------
(* Properties *)

PCs == {"idle", "managed", "managedStatus", "managedMark", "read", "lookup", "create",
        "start", "register", "arm", "lock", "quote", "erroredMark",
        "reconcile", "requote", "tooHighMark", "makeTx", "paidMark", "submit",
        "answered", "expiredMark", "rejected", "confirm", "confirmedMark"}

ThreadStates ==
  [pc : PCs, task : {"none", "pay", "paid", "reconcile", "confirm"},
   client : Clients \cup {NoPay}, pay : Payments \cup {NoPay},
   tx : Txs \cup {NoTx}, own : BOOLEAN,
   answer : {"none", "ok", "net", "already", "invalid", "expired",
             "received", "broadcast", "confirmed", "error"}]

\* Every variable has the shape of the Go value it stands for.
TypeOK ==
  /\ record \in [status : {"none", "started", "paid", "errored", "confirmed"},
                 hash : Txs \cup {NoTx}]
  /\ store \subseteq Txs /\ unpub \subseteq Txs
  /\ vsp \in [status : {"none", "received", "broadcast", "confirmed", "error"},
              tx : Txs \cup {NoTx}]
  /\ ticket \in {"valid", "expired", "spent", "pruned"}
  /\ purchased \in BOOLEAN
  /\ jobs \in [Clients -> Payments \cup {NoPay}]
  /\ owner \in [Payments -> Clients \cup {NoPay}]
  /\ feeTx \in [Payments -> Txs \cup {NoTx, Unfinished}]
  /\ feeHash \in [Payments -> Txs \cup {NoTx}]
  /\ quoted \subseteq Payments
  /\ timer \in [Payments -> {"none", "reconcile", "confirm"}]
  /\ procMu \in [Payments -> Threads \cup {NoThread}]
  /\ thread \in [Threads -> ThreadStates]

\* A payment nobody works on holds no half-built fee tx: the skeleton a failed
\* Process or attempt leaves is dropped (its inputs may be spent meanwhile).
RestingTxFinished ==
  \A p \in Payments : procMu[p] = NoThread => feeTx[p] # Unfinished

\* Only a finished fee tx is sent to the VSP: submitPayment never finds one to
\* rebuild.
SubmitsFinishedTx ==
  \A t \in Threads : At(t, "submit") => feeTx[Pay(t)] \in Txs

\* A record says confirmed only of a fee the VSP saw confirmed.
ConfirmedIsTrue == record.status = "confirmed" => vsp.status = "confirmed"

\* No coins are lost: an unpublished fee tx is the recorded one, the one the
\* VSP has, one a payment still works with, or one a goroutine just made.
NoLeakedTx ==
  \A tx \in unpub :
    \/ record.hash = tx \/ vsp.tx = tx
    \/ \E p \in Payments : feeTx[p] = tx /\ ~Garbage(p)
    \/ \E t \in Threads : thread[t].tx = tx

\* Where each fee tx is, for the abstract life of a fee transaction.
Place ==
  [tx \in Txs |-> IF tx \notin store THEN "absent"
                  ELSE IF tx \in unpub THEN "unpublished" ELSE "published"]

Life == INSTANCE FeeTxLife WITH
          place <- Place,
          held <- IF Held THEN vsp.tx ELSE NoTx,
          onNetwork <- vsp.status \in {"broadcast", "confirmed"}

\* Every step on the ticket's fee is a step of the life of its transactions:
\* the wallet keeps what the VSP holds, the VSP takes only what the wallet has,
\* and nothing is shown as published before the VSP broadcast it.
FeeTxLifeHolds == Life!Spec

\* While the VSP holds a fee, a record that says paid names that fee's tx: what
\* is confirmed, shown and rebroadcast later is the one the VSP has.
PaidNamesHeldTx == record.status = "paid" /\ Held => record.hash = vsp.tx

\* The client has a payment for the ticket, and it holds a finished fee tx.
HoldsFeeTx(c) == jobs[c] # NoPay /\ feeTx[jobs[c]] \in Txs

\* A fee tx a client's payment holds is seen confirmed, whatever answers are
\* lost: while the ticket can vote, some attempt is always running or scheduled.
PaymentCompletes ==
  \A c \in Clients :
    HoldsFeeTx(c) ~> (record.status = "confirmed" \/ ticket # "valid")

\* A client drops the payment of a ticket that expired, was spent or was dropped.
EndedTicketIsDropped ==
  \A c \in Clients : HoldsFeeTx(c) /\ ticket # "valid" ~> jobs[c] = NoPay

-----------------------------------------------------------------------------

\* The goroutines that build or submit a fee tx for the ticket.
Attempting(t) ==
  thread[t].pc \in {"quote", "requote", "makeTx", "paidMark", "submit", "answered"}
=============================================================================
