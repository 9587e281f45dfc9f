---------------------------- MODULE TicketBuyer ----------------------------
(***************************************************************************)
(* The automatic ticket buyer.  The staking page starts it from its        *)
(* password modal and stops it from a toggle; the asset keeps the function *)
(* that cancels it.  Its goroutine is a client of the wallet's notification*)
(* server: it takes each new main chain tip on an unbuffered channel and,  *)
(* within that turn, purchases tickets of the next block's price: a split  *)
(* transaction, the tickets that spend it, and a VSP's fees.  Whatever it  *)
(* records in the wallet is announced by the same server, under the same   *)
(* mutex that the server holds while it sends the tips.                    *)
(*                                                                         *)
(* Source: src/libwallet/assets/dcr/ticket.go; the wallet core's           *)
(* createtx.go (purchaseTickets, individualSplit), chainntfns.go and       *)
(* notifications.go; and src/ui/page/staking/stake_overview.go.            *)
(*                                                                         *)
(* Balances are abstracted to the number of tickets they pay, prices to    *)
(* the interval they hold for, transactions to the steps that make them.   *)
(***************************************************************************)
EXTENDS Integers

CONSTANTS
  MaxStarts,    \* bound: starts of the buyer, each with a context and goroutine
  Starters,     \* goroutines of the password modal's confirmation
  IntervalSize, \* StakeDiffWindowSize: blocks of one ticket price
  MaxBuy,       \* MaxFreshStakePerBlock
  FirstTip,     \* the height of the main chain when the page is opened
  MaxHeight,    \* bound: no block is attached above it
  MaxAttach     \* bound on the blocks of one chain switch

Buyers == 1 .. MaxStarts \* in the order of their starts
None == 0

ASSUME BuyerAssumption ==
  /\ IntervalSize \in Nat \ {0, 1} /\ MaxBuy \in Nat \ {0}
  /\ FirstTip \in Nat /\ MaxStarts \in Nat
  /\ MaxHeight \in Nat /\ MaxAttach \in Nat

VARIABLES
  registered, \* cancelAutoTicketBuyer: the buyer it cancels, or None
  cancelled,  \* buyers whose context is cancelled
  starter,    \* confirmation -> what it does next, and the buyer it starts
  tip,        \* height of the main chain
  server,     \* the chain switch: what it does next, clients it has yet to send
              \* its tip to, and the one it sends to
  mu,         \* whether the chain switch holds the server's mutex
  clients,    \* tipChangedClients
  draining,   \* clients that are done: what is sent to them is thrown away
  buyer       \* buyer -> its goroutine

control == <<registered, cancelled>>
notes == <<server, mu, clients, draining>>
vars == <<control, starter, tip, notes, buyer>>

Idle == [pc |-> "idle", of |-> None]
Quiet == [pc |-> "quiet", left |-> {}, to |-> None]
Unborn ==
  [pc |-> "unborn", height |-> 0, nextInterval |-> 0, expiry |-> 0,
   price |-> 0, left |-> 0, made |-> 0, split |-> "none", fatal |-> FALSE]

Init ==
  /\ registered = None /\ cancelled = {}
  /\ starter = [s \in Starters |-> Idle]
  /\ tip = FirstTip
  /\ server = Quiet /\ mu = FALSE /\ clients = {} /\ draining = {}
  /\ buyer = [b \in Buyers |-> Unborn]

At(b, l) == buyer[b].pc = l
Goto(b, l) == buyer' = [buyer EXCEPT ![b].pc = l]
Gone(b, l) == buyer' = [buyer EXCEPT ![b] = [Unborn EXCEPT !.pc = l]]
Splitting == {"record again", "publish again"}
Running(b) == buyer[b].pc \notin {"unborn", "ended"}

-----------------------------------------------------------------------------
(* Starting and stopping. *)

\* Mutant of StopAutoTicketsPurchase: the function is dropped, not called.
StopDropsIt == registered' = None /\ UNCHANGED cancelled

\* StopAutoTicketsPurchase cancels whichever buyer is registered.
StopAutoTicketsPurchase ==
  /\ registered' = None
  /\ cancelled' = cancelled \cup ({registered} \ {None})

\* The modal is confirmed: not connected, no configuration, a wrong passphrase,
\* or a buyer is running; or its VSP does not answer, or asks too much.
Refuse(s) ==
  /\ starter[s].pc \in {"idle", "quote"}
  /\ starter' = [starter EXCEPT ![s] = [pc |-> "halt", of |-> None]]
  /\ UNCHANGED <<control, tip, notes, buyer>>

\* No buyer is running: a context is made, and the VSP asked for its fee.
Unused == {b \in Buyers : At(b, "unborn") /\ \A s \in Starters : starter[s].of # b}
StartTicketBuyer(s, b) ==
  /\ starter[s].pc = "idle" /\ registered = None
  /\ b \in Unused /\ \A a \in Unused : b <= a
  /\ starter' = [starter EXCEPT ![s] = [pc |-> "quote", of |-> b]]
  /\ UNCHANGED <<control, tip, notes, buyer>>

\* Everything that can fail has succeeded.
Register(s) ==
  /\ starter[s].pc = "quote"
  /\ registered' = starter[s].of
  /\ buyer' = [buyer EXCEPT ![starter[s].of].pc = "subscribe"]
  /\ starter' = [starter EXCEPT ![s] = Idle]
  /\ UNCHANGED <<cancelled, tip, notes>>

\* The page stops the buyer that its confirmation could not start.
Halt(s) ==
  /\ starter[s].pc = "halt"
  /\ StopAutoTicketsPurchase
  /\ starter' = [starter EXCEPT ![s] = Idle]
  /\ UNCHANGED <<tip, notes, buyer>>

\* The toggle.  While a confirmation is under way its modal covers the page.
Stop ==
  /\ registered # None /\ \A s \in Starters : starter[s].pc = "idle"
  /\ StopAutoTicketsPurchase
  /\ UNCHANGED <<starter, tip, notes, buyer>>

-----------------------------------------------------------------------------
(* The notification server. *)

\* Blocks are attached, which may hold splits that were sent (it matters while
\* their purchase has yet to record or abandon them).
MayBeMined == {b \in Buyers : buyer[b].split = "sent" /\ buyer[b].pc \in Splitting}
Attach(h, mined) ==
  /\ server.pc = "quiet"
  /\ h \in tip + 1 .. tip + MaxAttach /\ h <= MaxHeight
  /\ tip' = h
  /\ server' = [server EXCEPT !.pc = "lock"]
  /\ buyer' = [b \in Buyers |->
       IF b \in mined THEN [buyer[b] EXCEPT !.split = "mined"] ELSE buyer[b]]
  /\ UNCHANGED <<control, starter, mu, clients, draining>>

\* notifyMainChainTipChanged: under the mutex, one client after the other.
LockToSend ==
  /\ server.pc = "lock" /\ ~mu
  /\ mu' = TRUE
  /\ server' = [pc |-> "send", left |-> clients, to |-> None]
  /\ UNCHANGED <<control, starter, tip, clients, draining, buyer>>
SendTo(b) ==
  /\ server.pc = "send" /\ server.to = None /\ b \in server.left
  /\ server' = [server EXCEPT !.to = b, !.left = @ \ {b}]
  /\ UNCHANGED <<control, starter, tip, mu, clients, draining, buyer>>
AllSent ==
  /\ server.pc = "send" /\ server.to = None /\ server.left = {}
  /\ server' = Quiet /\ mu' = FALSE
  /\ UNCHANGED <<control, starter, tip, clients, draining, buyer>>

\* The client receives: the buyer's loop, or the goroutine that drains.
Taken == server' = [server EXCEPT !.to = None]

\* Mutant of Drain: one goroutine leaves the server and then drains.
DrainOnceLeft(b) ==
  /\ server.to = b /\ b \in draining /\ ~mu
  /\ Taken
  /\ UNCHANGED <<control, starter, tip, mu, clients, draining, buyer>>

Drain(b) ==
  /\ server.to = b /\ b \in draining
  /\ Taken
  /\ UNCHANGED <<control, starter, tip, mu, clients, draining, buyer>>
Receive(b) ==
  /\ server.to = b /\ At(b, "select")
  /\ Taken
  /\ buyer' = [buyer EXCEPT ![b].pc = "turn", ![b].height = tip]
  /\ UNCHANGED <<control, starter, tip, mu, clients, draining>>

\* The second goroutine of Done leaves the server.
Deregister(b) ==
  /\ b \in draining /\ ~mu
  /\ clients' = clients \ {b} /\ draining' = draining \ {b}
  /\ UNCHANGED <<control, starter, tip, server, mu, buyer>>

-----------------------------------------------------------------------------
(* The buyer's loop. *)

Steps == UNCHANGED <<control, starter, tip, notes>>

Subscribe(b) ==
  /\ At(b, "subscribe") /\ ~mu
  /\ clients' = clients \cup {b}
  /\ Goto(b, "select")
  /\ UNCHANGED <<control, starter, tip, server, mu, draining>>

\* The wallet was locked meanwhile and cannot be unlocked.
CannotRun(b) == At(b, "subscribe") /\ Goto(b, "stop") /\ Steps

\* runTicketBuyer returns, and its deferred call of Done starts two goroutines.
Return(b) ==
  /\ draining' = draining \cup {b}
  /\ Gone(b, "stop")
  /\ UNCHANGED <<control, starter, tip, server, mu, clients>>

\* Mutant of Done: the loop does not look at the context it is given.
DoneIfFatal(b) == buyer[b].fatal

Done(b) == b \in cancelled \/ buyer[b].fatal
LeaveLoop(b) == At(b, "select") /\ Done(b) /\ Return(b)

\* The goroutine's last call stops the buyer that is registered by then.
EndBuyer(b) ==
  /\ At(b, "stop")
  /\ StopAutoTicketsPurchase
  /\ Gone(b, "ended")
  /\ UNCHANGED <<starter, tip, notes>>

\* The loop's next turn, which keeps of this one what outlives it.
NextTurn(b, next, exp, fatal) ==
  buyer' = [buyer EXCEPT ![b] =
    [Unborn EXCEPT !.pc = "select", !.nextInterval = next, !.expiry = exp,
                   !.fatal = fatal]]
Continue(b) == NextTurn(b, buyer[b].nextInterval, buyer[b].expiry, buyer[b].fatal)

\* The wallet's transactions are not synced through the tip.
NotSynced(b) == At(b, "turn") /\ Continue(b) /\ Steps

\* The rescan point, the balance or the price could not be read.
Fail(b) == At(b, "turn") /\ Return(b)

IntervalOf(h) == h \div IntervalSize
NextInterval(h) == (IntervalOf(h) + 1) * IntervalSize

\* Mutant of Skipped: the last block of an interval is purchased in as any other.
NeverSkipped(b) == FALSE

\* A new interval is near: the start of the next one, and the expiry that keeps
\* the tickets from being mined in an interval of another price.  No ticket is
\* purchased when only its split could be mined in this interval.
NewInterval(b) == buyer[b].height + 2 >= buyer[b].nextInterval
Skipped(b) ==
  NewInterval(b) /\ buyer[b].height + 2 = NextInterval(buyer[b].height)
IntervalStart(b) ==
  IF NewInterval(b) THEN NextInterval(buyer[b].height) ELSE buyer[b].nextInterval

\* Mutant of Expiry: it is always a full window after the next interval's start.
ExpiryAWindowLate(b) ==
  IF NewInterval(b) THEN NextInterval(buyer[b].height) + IntervalSize
  ELSE buyer[b].expiry

Expiry(b) ==
  LET next == NextInterval(buyer[b].height)
  IN IF ~NewInterval(b) \/ Skipped(b) THEN buyer[b].expiry
     ELSE IF buyer[b].height + 1 = next THEN next + IntervalSize ELSE next

\* n is what the balance pays of the price after the tip, at most MaxBuy.
Plan(b, n) ==
  /\ At(b, "turn")
  /\ IF Skipped(b) \/ n = 0
       THEN NextTurn(b, IntervalStart(b), Expiry(b), buyer[b].fatal)
       ELSE buyer' = [buyer EXCEPT ![b] =
              [@ EXCEPT !.pc = "expiry", !.left = n,
                        !.nextInterval = IntervalStart(b), !.expiry = Expiry(b)]]
  /\ Steps

-----------------------------------------------------------------------------
(* A purchase. *)

\* It ends before the tickets are made: no network, no balance, no quote of
\* the VSP, a signature refused.
Purchasing == {"expiry", "price", "ticket"}
Purchased(b) == Continue(b) /\ Steps
GiveUp(b) == buyer[b].pc \in Purchasing /\ Purchased(b)

\* The passphrase no longer unlocks the wallet: the loop ends at its next turn.
WrongPassphrase(b) ==
  /\ At(b, "expiry")
  /\ NextTurn(b, buyer[b].nextInterval, buyer[b].expiry, TRUE)
  /\ Steps

\* purchaseTickets checks the expiry against the tip, and reads the price of
\* the block after the tip, in two transactions of the database.  The split is
\* funded, for fewer tickets if the balance does not suffice.
CheckExpiry(b) ==
  /\ At(b, "expiry") /\ buyer[b].expiry > tip + 1
  /\ Goto(b, "price")
  /\ Steps
ReadPrice(b) ==
  /\ At(b, "price")
  /\ \E n \in 1 .. buyer[b].left :
       buyer' = [buyer EXCEPT ![b] =
         [@ EXCEPT !.pc = "record", !.price = IntervalOf(tip + 1), !.left = n]]
  /\ Steps

\* processTransactionRecord announces what it records.
Announce == ~mu
RecordSplit(b) == At(b, "record") /\ Announce /\ Goto(b, "publish") /\ Steps
PublishSplit(b) ==
  /\ At(b, "publish")
  /\ buyer' = [buyer EXCEPT ![b] = [@ EXCEPT !.pc = "record again", !.split = "sent"]]
  /\ Steps

\* The split is recorded and published once more by purchaseTickets.  One that
\* is mined by then is not recorded, nor announced.
RecordAgain(b) ==
  /\ At(b, "record again") /\ (buyer[b].split = "mined" \/ Announce)
  /\ Goto(b, "publish again")
  /\ Steps
PublishAgain(b) == At(b, "publish again") /\ Goto(b, "ticket") /\ Steps

\* No peer took the split: it is abandoned, unless it is mined.
AbandonSplit(b) ==
  /\ buyer[b].pc \in {"publish", "publish again"}
  /\ IF buyer[b].split = "mined" THEN Continue(b)
     ELSE buyer' = [buyer EXCEPT ![b] = [@ EXCEPT !.pc = "removed", !.split = "none"]]
  /\ Steps
\* AbandonTransaction announces what it removed.
AnnounceRemoval(b) == At(b, "removed") /\ Announce /\ Purchased(b)


\* Mutant of RecordTicket: what is left to purchase is not counted down.
RecordUncounted(b) ==
  /\ At(b, "ticket") /\ Announce
  /\ buyer' = [buyer EXCEPT ![b] =
       [@ EXCEPT !.made = buyer[b].made + 1,
                 !.pc = IF buyer[b].made + 1 = buyer[b].left THEN "send" ELSE "ticket"]]
  /\ Steps

RecordTicket(b) ==
  /\ At(b, "ticket") /\ Announce
  /\ buyer' = [buyer EXCEPT ![b] =
       [@ EXCEPT !.left = buyer[b].left - 1, !.made = buyer[b].made + 1,
                 !.pc = IF buyer[b].left = 1 THEN "send" ELSE "ticket"]]
  /\ Steps

\* Each ticket is published, unless the buyer was stopped.
\* Its fee: there is none (solo), the VSP does not quote it, or the wallet
\* records its transaction (VspFee).
Sent(b, l) ==
  buyer' = [buyer EXCEPT ![b] = [@ EXCEPT !.made = buyer[b].made - 1, !.pc = l]]
SendTicket(b) ==
  /\ At(b, "send") /\ ~Done(b) /\ buyer[b].made > 0
  /\ Sent(b, "send") \/ Sent(b, "record fee")
  /\ Steps
RecordFee(b) == At(b, "record fee") /\ Announce /\ Goto(b, "send") /\ Steps
AbandonTicket(b) ==
  /\ At(b, "send") /\ ~Done(b) /\ buyer[b].made > 0
  /\ Sent(b, "removed")
  /\ Steps
EndPurchase(b) ==
  /\ At(b, "send") /\ (Done(b) \/ buyer[b].made = 0)
  /\ Purchased(b)

-----------------------------------------------------------------------------

Purchase(b) ==
  \/ GiveUp(b) \/ WrongPassphrase(b) \/ CheckExpiry(b) \/ ReadPrice(b)
  \/ RecordSplit(b) \/ PublishSplit(b)
  \/ RecordAgain(b) \/ PublishAgain(b) \/ AbandonSplit(b) \/ AnnounceRemoval(b)
  \/ RecordTicket(b) \/ SendTicket(b) \/ AbandonTicket(b)
  \/ EndPurchase(b) \/ RecordFee(b)
BuyerStep(b) ==
  \/ Subscribe(b) \/ CannotRun(b) \/ LeaveLoop(b) \/ EndBuyer(b)
  \/ NotSynced(b) \/ Fail(b) \/ (\E n \in 0 .. MaxBuy : Plan(b, n))
  \/ Purchase(b)
Send ==
  \/ LockToSend \/ AllSent
  \/ \E b \in Buyers : SendTo(b) \/ Drain(b) \/ Receive(b)
Page(s) ==
  \/ Refuse(s) \/ Register(s) \/ Halt(s)
  \/ \E b \in Buyers : StartTicketBuyer(s, b)
Next ==
  \/ Stop \/ (\E s \in Starters : Page(s))
  \/ (\E h \in 1 .. MaxHeight, mined \in SUBSET MayBeMined : Attach(h, mined))
  \/ Send \/ \E b \in Buyers : BuyerStep(b) \/ Deregister(b)

Spec == Init /\ [][Next]_vars

\* Goroutines run, peers, the VSP and the database answer at last, and a mutex
\* that is free is given.  Users and blocks are owed nothing.
FairSpec ==
  /\ Spec /\ WF_vars(Send)
  /\ \A b \in Buyers : WF_vars(BuyerStep(b))

-----------------------------------------------------------------------------
(* Types. *)

Waits == {"record", "ticket", "record fee", "removed"}
PC ==
  {"unborn", "subscribe", "select", "turn", "publish", "send", "stop",
   "ended"} \cup Purchasing \cup Splitting \cup Waits
Buyer ==
  [pc : PC, height : Nat, nextInterval : Nat, expiry : Nat, price : Nat,
   left : 0 .. MaxBuy, made : 0 .. MaxBuy,
   split : {"none", "sent", "mined"}, fatal : BOOLEAN]

\* The values of the variables.  No more tickets are under way than one block
\* takes (ticket.go:832), whatever of them failed.
TypeOK ==
  /\ registered \in Buyers \cup {None} /\ cancelled \subseteq Buyers
  /\ starter \in [Starters -> [pc : {"idle", "quote", "halt"},
                               of : Buyers \cup {None}]]
  /\ tip \in Nat
  /\ server \in [pc : {"quiet", "lock", "send"}, left : SUBSET Buyers,
                 to : Buyers \cup {None}]
  /\ mu \in BOOLEAN
  /\ clients \subseteq Buyers /\ draining \subseteq Buyers
  /\ buyer \in [Buyers -> Buyer]
  /\ \A b \in Buyers : buyer[b].left + buyer[b].made <= MaxBuy

-----------------------------------------------------------------------------
(* What the buyer promises. *)

\* The buyer that the toggle shows as running has a goroutine, and every
\* goroutine that was not told to stop is the one the toggle would stop: none
\* is left purchasing out of the user's reach, and no start is refused for a
\* buyer that is gone (ticket.go:689-691).  Goroutines that end, confirmations
\* that fail and the toggle all clear the registration, of whichever buyer.
RegisteredIsLive ==
  /\ registered # None => Running(registered) /\ registered \notin cancelled
  /\ \A b \in Buyers : Running(b) /\ b \notin cancelled => registered = b

\* A ticket that is recorded can be mined only in blocks whose price it pays
\* (ticket.go:803-807): its expiry was set for the tip that the loop was told
\* of, its price read after blocks were attached meanwhile.
Recorded(b) == buyer[b].made > 0
PaysItsInterval ==
  \A b \in Buyers : Recorded(b) =>
    \A h \in tip + 1 .. buyer[b].expiry - 1 : IntervalOf(h) = buyer[b].price

\* If no block came since the loop was told of the tip, there is a block that
\* may hold the ticket: the one after the split's (ticket.go:794-799).
CanBeMined ==
  \A b \in Buyers : Recorded(b) /\ tip = buyer[b].height =>
    tip + 2 < buyer[b].expiry

\* The server holds its mutex and sends to a client that waits for that mutex.
SendsToWaiter ==
  /\ mu
  /\ \E b \in Buyers :
       /\ server.to = b
       /\ \/ buyer[b].pc \in Waits
          \/ At(b, "record again") /\ buyer[b].split # "mined"

\* A buyer that was told to stop ends, at whatever step of a purchase it was
\* told, and whatever fails: only the server that waits for a client which
\* waits for the server prevents it.
StoppedEnds ==
  \A b \in Buyers : b \in cancelled ~> (At(b, "ended") \/ SendsToWaiter)

\* The chain switch gets rid of its notification, though clients come, end and
\* purchase while it is sent; only the same wait prevents it.
TipIsSent == server.pc # "quiet" ~> (server.pc = "quiet" \/ SendsToWaiter)

\* A handler of the server's notifications does not need what the server holds
\* until the handler is through (txandblocknotifications.go:109-113: "If a
\* notification handler were to try to access such features, it would result
\* in a deadlock").
HandlerNeedsNoSender == ~SendsToWaiter

=============================================================================
