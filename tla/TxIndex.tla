------------------------------ MODULE TxIndex ------------------------------
(***************************************************************************)
(* The transaction index: a database of decoded rows, one for each of the  *)
(* wallet's transactions, that follows the wallet's own store.  Passes     *)
(* over the store fill it from a last indexed height (the point); a        *)
(* listener saves what the store reports while the session is up; a rescan *)
(* clears it or moves the point; and a program whose decoder is newer than *)
(* the rows clears it once.                                                *)
(*                                                                         *)
(* Source: src/libwallet/assets/dcr: txindex.go, txandblocknotifications.go*)
(* rescan.go, txparser.go, syncnotification.go (syncedWallet); and         *)
(* src/libwallet/assets/wallet/walletdata: save.go, read.go.               *)
(*                                                                         *)
(* The wallet's store is external here: a tip and the heights at which the *)
(* chain to it holds the wallet's transactions.  One action is one         *)
(* transaction of a database, or what a goroutine does between two.        *)
(***************************************************************************)
EXTENDS Integers, Sequences, FiniteSets

CONSTANTS
  Tx, Block, Genesis,
  HeightOf,      \* block -> height
  At,            \* block -> transaction -> its height in the chain to the block,
                 \* 0 if that chain does not hold it
  Spends,        \* vote -> the ticket it spends
  MaxReOrg,      \* MaxReOrgBlocks: how far a pass goes back behind the point
  BatchSize,     \* indexTxBatchSize
  Goroutines,    \* those that index
  Rescans,       \* those of them that rescans run in; the others index for a session
  RescanHeights  \* heights that rescans start from

Unmined == 0
NoRow == -1
NoPass == "none"
Vote == DOMAIN Spends
Agree(b, c, h) ==
  \A t \in Tx : At[b][t] \in 1 .. h \/ At[c][t] \in 1 .. h => At[b][t] = At[c][t]

ASSUME ChainAssumption ==
  /\ Genesis \in Block /\ HeightOf \in [Block -> Nat] /\ HeightOf[Genesis] = 0
  /\ At \in [Block -> [Tx -> Nat]]
  /\ \A b \in Block, t \in Tx : At[b][t] <= HeightOf[b]
ASSUME IndexAssumption ==
  /\ Vote \subseteq Tx /\ \A v \in Vote : Spends[v] \in Tx \ Vote
  /\ MaxReOrg \in Nat /\ BatchSize \in Nat \ {0}
  /\ RescanHeights \subseteq Nat /\ Rescans \subseteq Goroutines /\ NoPass \notin Goroutines

VARIABLES
  tip, known,   \* the wallet's main chain; the transactions it has seen
  listening,    \* the session is up, and the store reports to the listener
  notes,        \* reports the listener has not handled
  rows,         \* transaction -> height of its row, Unmined or NoRow
  spenders,     \* tickets whose row names the vote that spent them
  point,        \* EndBlock: the last indexed height
  old,          \* the stored parser version is older than the program's
  pc,           \* goroutine -> what it does next
  migrating,    \* goroutine -> it cleared the index for a newer parser
  holder,       \* of dbMutex
  work          \* the pass of the holder

\* History, which the actions write and never read: what the code does without
\* a pass that makes it good.
VARIABLES
  gap,          \* why rows below the point may be missing until a pass from 0:
                \* they were cleared for a newer parser and no pass has begun
                \* ("redo"), or they were cleared by a rescan or under a pass, a
                \* pass began above cleared rows, or the point was set ahead of
                \* them ("open")
  late,         \* if there is no gap, what has a row of a report older than the tip
  blind         \* tickets whose row is, or will be, written without their vote

wallet == <<tip, known>>
index == <<rows, spenders>>
pass == <<pc, migrating, holder, work>>
history == <<gap, late, blind>>
vars == <<wallet, listening, notes, index, point, old, pass, history>>

NoWork ==
  [begin |-> 0, end |-> 0, snap |-> Genesis, unmined |-> {}, next |-> 0,
   pending |-> {}, spent |-> {}, height |-> -1]

Init ==
  /\ tip = Genesis /\ known = {} /\ listening = FALSE /\ notes = <<>>
  /\ rows = [t \in Tx |-> NoRow] /\ spenders = {} /\ point = 0 /\ old = TRUE
  /\ pc = [p \in Goroutines |-> "idle"]
  /\ migrating = [p \in Goroutines |-> FALSE]
  /\ holder = NoPass /\ work = NoWork
  /\ gap = "none" /\ late = {} /\ blind = {}

Gap(why) == gap' = why /\ late' = {}
Goto(p, l) == pc' = [pc EXCEPT ![p] = l]

-----------------------------------------------------------------------------
(* The wallet's store (external), and what it reports. *)

\* The channel to the listener is unbuffered: the wallet goes on until it has a
\* second report to hand over while the listener is at the first.
Room == Len(notes) < 2
Report(b, txs) ==
  notes' = IF listening THEN Append(notes, [tip |-> b, txs |-> txs]) ELSE notes

\* Blocks are attached, after at most MaxReOrg were detached, of which the
\* listener takes no notice.
Attached(b) == {t \in Tx : At[b][t] > 0 /\ At[b][t] # At[tip][t]}
ChainSwitch(b) ==
  /\ HeightOf[b] > HeightOf[tip] /\ Agree(tip, b, HeightOf[tip] - MaxReOrg)
  /\ Room
  /\ tip' = b /\ known' = known \cup Attached(b)
  /\ Report(b, Attached(b))
  /\ UNCHANGED <<listening, index, point, old, pass, history>>

\* A transaction that no block holds is relayed, or made.
AddTransaction(t) ==
  /\ listening /\ Room /\ t \notin known \cup Vote
  /\ known' = known \cup {t}
  /\ Report(tip, {t})
  /\ UNCHANGED <<tip, listening, index, point, old, pass, history>>

-----------------------------------------------------------------------------
(* Rows. *)

HasVote(r, k) == \E v \in Vote : Spends[v] = k /\ r[v] # NoRow

\* Decoding a vote saves its ticket's row, with the vote as spender.
\* Decoding a ticket looks for the row of its vote.
TicketsOf(txs) == {Spends[v] : v \in txs \cap Vote}
TicketRows(txs) ==
  [t \in Tx |-> IF t \in TicketsOf(txs) THEN At[tip][t] ELSE rows[t]]

\* A ticket loses its spender in two races with a pass: its vote is saved after
\* the flush that writes the ticket looked for it, or the ticket is saved when its
\* vote is decoded and not yet written.
Overlooked(t) ==
  {k \in TicketsOf({t}) :
     k \in work.pending \ work.spent /\ \E p \in Goroutines : pc[p] = "commit"}
  \cup {k \in {t} \ work.pending :
          k \in TicketsOf(work.pending) /\ ~HasVote(rows, k)}

\* The listener decodes and saves a transaction of the report it is at.
ListenerSave(t) ==
  /\ notes # <<>> /\ t \in Head(notes).txs
  /\ rows' = [TicketRows({t}) EXCEPT ![t] = At[Head(notes).tip][t]]
  /\ spenders' = (spenders \ {t}) \cup TicketsOf({t})
                   \cup (IF HasVote(rows, t) THEN {t} ELSE {})
  /\ notes' = [notes EXCEPT ![1].txs = @ \ {t}]
  /\ late' = IF gap = "none" /\ At[Head(notes).tip][t] # At[tip][t]
             THEN late \cup {t} ELSE late \ {t}
  /\ blind' = (blind \ TicketsOf({t})) \cup Overlooked(t)
  /\ UNCHANGED <<wallet, listening, point, old, pass, gap>>

ListenerNext ==
  /\ notes # <<>> /\ Head(notes).txs = {}
  /\ notes' = Tail(notes)
  /\ UNCHANGED <<wallet, listening, index, point, old, pass, history>>

-----------------------------------------------------------------------------
(* IndexTransactions, reindexTransactions and RescanBlocksFromHeight. *)

\* The session reports that it is synced, once more perhaps.
SyncedWallet(p) ==
  /\ p \notin Rescans /\ pc[p] = "idle"
  /\ listening' = TRUE
  /\ Goto(p, "start")
  /\ UNCHANGED <<wallet, notes, index, point, old, migrating, holder, work, history>>

\* A rescan the user asked for is through: from 0 it indexes anew, else from
\* the height it began at.
RescanEnds(p, h) ==
  /\ p \in Rescans /\ pc[p] = "idle" /\ listening /\ h <= HeightOf[tip]
  /\ IF h = 0
     THEN Goto(p, "drop") /\ UNCHANGED point
     ELSE Goto(p, "start") /\ point' = h
  /\ IF h > point /\ h > MaxReOrg THEN Gap("open") ELSE UNCHANGED <<gap, late>>
  /\ UNCHANGED <<wallet, listening, notes, index, old, migrating, holder, work, blind>>

\* Rows of an older decoder are cleared.
CheckVersion(p) ==
  /\ pc[p] = "start"
  /\ migrating' = [migrating EXCEPT ![p] = old]
  /\ Goto(p, IF old THEN "drop" ELSE "lock")
  /\ UNCHANGED <<wallet, listening, notes, index, point, old, holder, work, history>>

\* ClearSavedTransactions: two writes, and no lock.
Drop(p) ==
  /\ pc[p] = "drop"
  /\ rows' = [t \in Tx |-> NoRow] /\ spenders' = {}
  /\ Goto(p, "reset")
  /\ Gap(IF old /\ holder = NoPass THEN "redo" ELSE "open")
  /\ blind' = {}
  /\ UNCHANGED <<wallet, listening, notes, point, old, migrating, holder, work>>

Reset(p) ==
  /\ pc[p] = "reset"
  /\ point' = 0
  /\ Goto(p, IF migrating[p] THEN "lock" ELSE "start")
  /\ UNCHANGED <<wallet, listening, notes, index, old, migrating, holder, work, history>>

\* Either write fails: a rescan gives up, a migration goes on as if there were none.
ClearFails(p) ==
  /\ pc[p] \in {"drop", "reset"}
  /\ Goto(p, IF migrating[p] THEN "lock" ELSE "idle")
  /\ migrating' = [migrating EXCEPT ![p] = FALSE]
  /\ UNCHANGED <<wallet, listening, notes, index, point, old, holder, work, history>>

\* Mutant of IndexingStart: not clamped at 0.
StartBelowGenesis == point - MaxReOrg

IndexingStart == IF point > MaxReOrg THEN point - MaxReOrg ELSE 0

Lock(p) ==
  /\ pc[p] = "lock" /\ holder = NoPass
  /\ holder' = p
  /\ work' = [NoWork EXCEPT !.begin = IndexingStart, !.end = HeightOf[tip]]
  /\ Goto(p, "read")
  /\ IF IndexingStart = 0 THEN Gap("none")
     ELSE IF gap = "redo" THEN Gap("open") ELSE UNCHANGED <<gap, late>>
  /\ UNCHANGED <<wallet, listening, notes, index, point, old, migrating, blind>>

\* The store is read in one database transaction: later changes are not seen.
Snapshot(p) ==
  /\ pc[p] = "read"
  /\ work' = [work EXCEPT !.snap = tip, !.unmined = {t \in known : At[tip][t] = 0},
                          !.next = work.begin]
  /\ Goto(p, "range")
  /\ UNCHANGED <<wallet, listening, notes, index, point, old, migrating, holder, history>>

Full == Cardinality(work.pending) >= BatchSize
LastHeight == IF work.begin = 0 THEN HeightOf[work.snap] ELSE work.end

\* The rows of a block, or of what no block holds, join the pending ones.
Decode(p, txs) ==
  /\ rows' = TicketRows(txs) /\ spenders' = spenders \cup TicketsOf(txs)
  /\ work' = [work EXCEPT
       !.pending = @ \cup txs,
       !.spent = @ \cup {k \in txs : HasVote(rows, k)},
       !.height = IF txs # {} /\ work.next <= LastHeight THEN work.next ELSE @,
       !.next = @ + 1]
  /\ blind' = blind \ TicketsOf(txs)
  /\ UNCHANGED <<wallet, listening, notes, point, old, pc, migrating, holder, gap, late>>

DecodeBlock(p) ==
  /\ pc[p] = "range" /\ ~Full /\ work.next <= LastHeight
  /\ Decode(p, {t \in Tx : At[work.snap][t] = work.next /\ work.next > 0})

DecodeUnmined(p) ==
  /\ pc[p] = "range" /\ ~Full /\ work.begin = 0 /\ work.next = LastHeight + 1
  /\ Decode(p, work.unmined)

Ranged == work.next > LastHeight + IF work.begin = 0 THEN 1 ELSE 0

\* Mutant of Resolve: the spender is looked for in the pending rows only.
ResolveInBatch(p) ==
  /\ pc[p] = "range" /\ (Full \/ Ranged)
  /\ work' = [work EXCEPT !.spent = @ \cup (work.pending \cap TicketsOf(work.pending))]
  /\ Goto(p, "commit")
  /\ UNCHANGED <<wallet, listening, notes, index, point, old, migrating, holder, history>>

\* flushPending: a ticket's spender is looked for among the pending rows and
\* in its stored row; then the batch is committed with the height it reaches.
Resolve(p) ==
  /\ pc[p] = "range" /\ (Full \/ Ranged)
  /\ work' = [work EXCEPT
       !.spent = @ \cup (work.pending \cap (TicketsOf(work.pending) \cup spenders))]
  /\ Goto(p, "commit")
  /\ UNCHANGED <<wallet, listening, notes, index, point, old, migrating, holder, history>>

CommitBatch(p) ==
  /\ pc[p] = "commit"
  /\ rows' = [t \in Tx |-> IF t \in work.pending THEN At[work.snap][t] ELSE rows[t]]
  /\ spenders' = (spenders \ work.pending) \cup work.spent
  /\ point' = IF work.height >= 0 THEN work.height ELSE point
  /\ work' = [work EXCEPT !.pending = {}, !.spent = {}, !.height = -1]
  /\ Goto(p, IF Ranged THEN "stamp" ELSE "range")
  /\ late' = late \ {t \in work.pending : At[work.snap][t] = At[tip][t]}
  /\ blind' = blind \ work.spent
  /\ UNCHANGED <<wallet, listening, notes, old, migrating, holder, gap>>

Release == holder' = NoPass /\ work' = NoWork
PassOver(p) == Goto(p, "idle") /\ migrating' = [migrating EXCEPT ![p] = FALSE] /\ Release

\* The pass is over: the point is the height it was to reach.  That this cannot be
\* written is only logged, as is that the version cannot.
Stamp(p) ==
  /\ pc[p] = "stamp"
  /\ point' \in {work.end, point}
  /\ IF migrating[p] THEN Goto(p, "version") /\ UNCHANGED <<migrating, holder, work>>
     ELSE PassOver(p)
  /\ UNCHANGED <<wallet, listening, notes, index, old, history>>

SaveVersion(p) ==
  /\ pc[p] = "version"
  /\ old' \in {FALSE, old}
  /\ PassOver(p)
  /\ UNCHANGED <<wallet, listening, notes, index, point, history>>

\* Mutant of Abort: the point is set to the end of the pass all the same.
AbortStamps(p) ==
  /\ pc[p] \in {"read", "range", "commit"}
  /\ point' = work.end
  /\ PassOver(p)
  /\ UNCHANGED <<wallet, listening, notes, index, old, history>>

\* Mutant of Abort: it returns with the lock.
AbortLocked(p) ==
  /\ pc[p] \in {"read", "range", "commit"}
  /\ Goto(p, "idle") /\ migrating' = [migrating EXCEPT ![p] = FALSE]
  /\ UNCHANGED <<wallet, listening, notes, index, point, old, holder, work, history>>

\* The point or the store cannot be read, a row cannot be decoded, the batch cannot
\* be written, or the wallet shuts down: what is pending is lost.
Abort(p) ==
  /\ pc[p] \in {"read", "range", "commit"}
  /\ PassOver(p)
  /\ UNCHANGED <<wallet, listening, notes, index, point, old, history>>

-----------------------------------------------------------------------------

\* The session ends; the listener finishes the report it is at.
SessionEnds ==
  /\ listening /\ listening' = FALSE
  /\ notes' = IF notes = <<>> THEN <<>> ELSE <<Head(notes)>>
  /\ UNCHANGED <<wallet, index, point, old, pass, history>>

\* The program stops, at any step, and is started again, with a newer parser
\* perhaps.
Crash ==
  /\ listening' = FALSE /\ notes' = <<>>
  /\ pc' = [p \in Goroutines |-> "idle"] /\ migrating' = [p \in Goroutines |-> FALSE]
  /\ Release
  /\ old' \in {old, TRUE}
  /\ UNCHANGED <<wallet, index, point, history>>

Pass(p) ==
  \/ CheckVersion(p) \/ Drop(p) \/ Reset(p) \/ Lock(p) \/ Snapshot(p)
  \/ DecodeBlock(p) \/ DecodeUnmined(p) \/ Resolve(p) \/ CommitBatch(p)
  \/ Stamp(p) \/ SaveVersion(p)

Listener == (\E t \in Tx : ListenerSave(t)) \/ ListenerNext

Next ==
  \/ \E b \in Block : ChainSwitch(b)
  \/ \E t \in Tx : AddTransaction(t)
  \/ Listener \/ SessionEnds \/ Crash
  \/ \E p \in Goroutines :
       \/ SyncedWallet(p) \/ Pass(p) \/ Abort(p) \/ ClearFails(p)
       \/ \E h \in RescanHeights : RescanEnds(p, h)

Spec == Init /\ [][Next]_vars

\* Goroutines run on, and the lock of Go's mutex starves none that waits.
FairSpec ==
  Spec /\ \A p \in Goroutines : WF_vars(Pass(p)) /\ SF_vars(Lock(p))

-----------------------------------------------------------------------------
(* Properties. *)

Stages == {"idle", "start", "drop", "reset", "lock", "read", "range", "commit",
           "stamp", "version"}
Works == [begin : Nat, end : Nat, snap : Block, unmined : SUBSET Tx, next : Nat,
          pending : SUBSET Tx, spent : SUBSET (Tx \ Vote), height : Nat \cup {-1}]

\* The type of the variables.
TypeOK ==
  /\ tip \in Block /\ known \in SUBSET Tx /\ listening \in BOOLEAN
  /\ notes \in Seq([tip : Block, txs : SUBSET Tx])
  /\ rows \in [Tx -> Nat \cup {NoRow}] /\ spenders \in SUBSET (Tx \ Vote)
  /\ point \in Nat /\ old \in BOOLEAN
  /\ pc \in [Goroutines -> Stages]
  /\ migrating \in [Goroutines -> BOOLEAN] /\ holder \in Goroutines \cup {NoPass}
  /\ work \in Works
  /\ gap \in {"none", "redo", "open"}
  /\ late \in SUBSET Tx /\ blind \in SUBSET (Tx \ Vote)

\* A transaction of the main chain at or below the height the next pass begins
\* at has its row, with its height.  Excepted are an index with a gap, and rows
\* the listener saved from a report older than the tip, until a pass from 0; rows
\* cleared for a newer parser are there before the version says so.
Complete(h) == \A t \in Tx \ late : At[tip][t] \in 1 .. h => rows[t] = At[tip][t]
NothingLost ==
  (gap = "none" \/ (gap = "redo" /\ ~old)) => Complete(point - MaxReOrg)

\* What the comment at the stamp says: a pass marks the index as complete only
\* where the next one visits what is missing, though it was cleared meanwhile.
StampIsTrue ==
  [][\A p \in Goroutines :
       Stamp(p) /\ (\A q \in Goroutines : pc[q] # "reset")
         => Complete(IndexingStart - 1)']_vars

\* A voted ticket is not shown as live: once its vote has a row, the row of the
\* ticket names it, though passes write the ticket's row anew; but for the two
\* races in which the vote is overlooked.
SpenderKept ==
  \A v \in Vote :
    rows[v] # NoRow /\ rows[Spends[v]] # NoRow => Spends[v] \in spenders \cup blind

\* A pass that waits for the lock comes to an end.
PassEnds ==
  \A p \in Goroutines : pc[p] = "lock" ~> pc[p] = "idle"
=============================================================================
