----------------------- MODULE TxIndexSpender_proofs -----------------------
(***************************************************************************)
(* Proof that a voted ticket is not shown as live (SpenderKept).           *)
(*                                                                         *)
(* The rows of a ticket and of its vote are written by passes and by the   *)
(* listener, in either order, and each write of the ticket's row sets its  *)
(* spender anew.  While a pass has rows pending, the vote of a ticket is   *)
(* known from a stored row, from the pending rows or from what the pass    *)
(* found, or the ticket is one that the two races leave blind.             *)
(***************************************************************************)
EXTENDS TxIndex_proofs

\* A vote that is pending finds its ticket named, pending too or without a row.
VotesPlaced ==
  \A p \in Goroutines : Ranging(p) => \A v \in Vote :
    v \in work.pending =>
      Spends[v] \in spenders \cup blind \cup work.pending \/ rows[Spends[v]] = NoRow

\* A ticket that is pending has the vote that has a row, ...
SpendersFound ==
  \A p \in Goroutines : Ranging(p) => \A v \in Vote :
    rows[v] # NoRow /\ Spends[v] \in work.pending =>
      Spends[v] \in spenders \cup blind \cup work.spent

\* and, once the batch is made up, the vote that is pending.
SpendersResolved ==
  \A p \in Goroutines : pc[p] = "commit" => \A v \in Vote :
    Spends[v] \in work.pending =>
      /\ v \in work.pending => Spends[v] \in work.spent
      /\ rows[v] # NoRow => Spends[v] \in work.spent \cup blind

\* A pass begins with nothing pending.
NonePending == \A p \in Goroutines : pc[p] = "read" => work.pending = {}

Base == TypeOK /\ Control
Spending == NonePending /\ VotesPlaced /\ SpendersFound /\ SpendersResolved /\ SpenderKept
SInv == Base /\ Spending

-----------------------------------------------------------------------------

USE DEF wallet, index, pass, history, Gap, Goto, Release, PassOver, NoPass, Unmined, NoRow

LEMMA Votes ==
  /\ Vote \subseteq Tx
  /\ \A v \in Vote : Spends[v] \in Tx /\ Spends[v] \notin Vote
BY IndexAssumption

LEMMA NothingWritten ==
  ASSUME Spending, UNCHANGED <<rows, spenders, blind>>,
         \A p \in Goroutines : Ranging(p)' => Ranging(p) /\ UNCHANGED work,
         \A p \in Goroutines : pc'[p] = "commit" => pc[p] = "commit",
         NonePending'
  PROVE  Spending'
<1>1. VotesPlaced' /\ SpendersFound'
  BY DEF Spending, VotesPlaced, SpendersFound
<1>2. SpendersResolved'
  <2>1. SUFFICES ASSUME NEW p \in Goroutines, pc'[p] = "commit"
                 PROVE  pc[p] = "commit" /\ UNCHANGED <<work, rows, blind>>
    BY DEF Spending, SpendersResolved
  <2>. QED BY <2>1 DEF Ranging
<1>3. SpenderKept'
  BY DEF Spending, SpenderKept
<1>. QED BY <1>1, <1>2, <1>3 DEF Spending

\* The steps of a goroutine that write no row.
LEMMA StepsThatWriteNothing ==
  ASSUME Base, Spending, NEW p \in Goroutines,
         \/ SyncedWallet(p) \/ (\E h \in RescanHeights : RescanEnds(p, h)) \/ CheckVersion(p)
         \/ Reset(p) \/ ClearFails(p) \/ Lock(p) \/ Stamp(p) \/ SaveVersion(p) \/ Abort(p)
  PROVE  Spending'
<1>1. UNCHANGED <<rows, spenders, blind>>
  BY Zenon DEF SyncedWallet, RescanEnds, CheckVersion, Reset, ClearFails, Lock, Stamp,
     SaveVersion, Abort
<1>2. \E l \in {"start", "drop", "lock", "read", "idle", "version"} : Goto(p, l)
  BY DEF SyncedWallet, RescanEnds, CheckVersion, Reset, ClearFails, Lock, Stamp, SaveVersion, Abort
<1>3. ~Ranging(p)' /\ \A q \in Goroutines \ {p} : pc'[q] = pc[q]
  BY <1>2, Moved DEF Base, Ranging
<1>4. UNCHANGED work \/ \A q \in Goroutines \ {p} : ~Critical(q)
  <2>1. CASE Lock(p)
    BY <2>1, FreeLock DEF Lock, Base
  <2>2. CASE Critical(p)
    BY <2>2, OneCritical DEF Base
  <2>3. CASE ~Critical(p) /\ ~Lock(p)
    BY <2>3, Zenon
       DEF SyncedWallet, RescanEnds, CheckVersion, Reset, ClearFails, Stamp, SaveVersion,
           Abort, Critical
  <2>. QED BY <2>1, <2>2, <2>3
<1>5. \A q \in Goroutines : Ranging(q)' => Ranging(q) /\ UNCHANGED work
  BY <1>3, <1>4 DEF Ranging, Critical
<1>6. \A q \in Goroutines : pc'[q] = "commit" => pc[q] = "commit"
  BY <1>3 DEF Ranging
<1>7. NonePending'
  <2>1. CASE Lock(p)
    <3>1. work' = [NoWork EXCEPT !.begin = IndexingStart, !.end = HeightOf[tip]]
      BY <2>1 DEF Lock
    <3>2. work'.pending = {}
      BY <3>1 DEF NoWork
    <3>. QED BY <3>2 DEF NonePending
  <2>2. CASE ~Lock(p)
    <3>1. \E l \in {"start", "drop", "lock", "idle", "version"} : Goto(p, l)
      BY <2>2 DEF SyncedWallet, RescanEnds, CheckVersion, Reset, ClearFails, Stamp, SaveVersion, Abort
    <3>2. pc'[p] # "read"
      BY <3>1, Moved DEF Base
    <3>. QED BY <1>3, <1>4, <3>2 DEF NonePending, Spending, Critical
  <2>. QED BY <2>1, <2>2
<1>. QED BY <1>1, <1>5, <1>6, <1>7, NothingWritten

LEMMA OthersThatWriteNothing ==
  ASSUME Base, Spending,
         \/ ListenerNext \/ SessionEnds \/ Crash \/ UNCHANGED vars
         \/ (\E b \in Block : ChainSwitch(b)) \/ \E t \in Tx : AddTransaction(t)
  PROVE  Spending'
<1>1. UNCHANGED <<rows, spenders, blind>>
  BY Zenon DEF ListenerNext, SessionEnds, Crash, vars, ChainSwitch, AddTransaction
<1>2. CASE Crash
  <2>1. \A p \in Goroutines : pc'[p] = "idle"
    BY <1>2 DEF Crash
  <2>2. NonePending' /\ \A p \in Goroutines : ~Ranging(p)' /\ pc'[p] # "commit"
    BY <2>1 DEF Ranging, NonePending
  <2>. QED BY <1>1, <2>2, NothingWritten
<1>3. CASE UNCHANGED <<pc, work>>
  <2>1. \A p \in Goroutines : /\ Ranging(p)' => Ranging(p) /\ UNCHANGED work
                              /\ pc'[p] = "commit" => pc[p] = "commit"
    BY <1>3 DEF Ranging
  <2>2. NonePending'
    BY <1>3 DEF Spending, NonePending
  <2>. QED BY <1>1, <2>1, <2>2, NothingWritten
<1>4. Crash \/ UNCHANGED <<pc, work>>
  BY Zenon DEF ListenerNext, SessionEnds, vars, ChainSwitch, AddTransaction
<1>. QED BY <1>2, <1>3, <1>4

-----------------------------------------------------------------------------
(* Steps that write rows *)

\* A vote's row is written with its ticket's, which names it then.
LEMMA TicketRowsAre ==
  ASSUME TypeOK, NEW S \in SUBSET Tx
  PROVE  /\ \A v \in Vote : TicketRows(S)[v] = rows[v]
         /\ \A k \in Tx \ TicketsOf(S) : TicketRows(S)[k] = rows[k]
BY Votes, TicketsTyped DEF TicketRows

\* What the listener does to what is said of a vote and its ticket.
LEMMA SaveFacts ==
  ASSUME Base, NEW t \in Tx, ListenerSave(t), NEW v \in Vote
  PROVE  /\ rows'[v] # NoRow => rows[v] # NoRow \/ v = t
         /\ rows'[Spends[v]] # NoRow =>
              rows[Spends[v]] # NoRow \/ Spends[v] = t \/ Spends[v] \in spenders'
         /\ v = t => Spends[v] \in spenders'
         /\ rows[v] # NoRow /\ Spends[v] = t => Spends[v] \in spenders'
         /\ Spends[v] \in spenders /\ Spends[v] # t => Spends[v] \in spenders'
         /\ Spends[v] \in blind => Spends[v] \in spenders' \cup blind'
         /\ Spends[v] \in Overlooked(t) => Spends[v] \in blind'
<1>1. /\ rows' = [TicketRows({t}) EXCEPT ![t] = At[Head(notes).tip][t]]
      /\ spenders' = (spenders \ {t}) \cup TicketsOf({t})
                       \cup (IF HasVote(rows, t) THEN {t} ELSE {})
      /\ blind' = (blind \ TicketsOf({t})) \cup Overlooked(t)
  BY Zenon DEF ListenerSave
<1>2. v = t => Spends[v] \in TicketsOf({t})
  BY DEF TicketsOf
<1>3. rows[v] # NoRow /\ Spends[v] = t => HasVote(rows, t)
  BY DEF HasVote
<1>4. TicketRows({t}) \in [Tx -> Nat \cup {NoRow}] /\ Spends[v] \in Tx /\ v \in Tx
  BY TicketRowsTyped, Votes DEF Base
<1>5. /\ v # t => rows'[v] = TicketRows({t})[v]
      /\ Spends[v] # t => rows'[Spends[v]] = TicketRows({t})[Spends[v]]
  BY <1>1, <1>4
<1>6. TicketRows({t})[v] = rows[v]
      /\ (Spends[v] \notin TicketsOf({t}) => TicketRows({t})[Spends[v]] = rows[Spends[v]])
  BY <1>4, TicketRowsAre DEF Base
<1>. QED BY <1>1, <1>2, <1>3, <1>5, <1>6

LEMMA SaveSpending ==
  ASSUME Base, Spending, NEW t \in Tx, ListenerSave(t) PROVE Spending'
<1>1. UNCHANGED <<pc, work>>
  BY Zenon DEF ListenerSave
<1>2. NonePending'
  BY <1>1 DEF Spending, NonePending
<1>3. VotesPlaced'
  <2>1. SUFFICES ASSUME NEW p \in Goroutines, Ranging(p), NEW v \in Vote, v \in work.pending
                 PROVE  \/ Spends[v] \in spenders' \cup blind' \cup work.pending
                        \/ rows'[Spends[v]] = NoRow
    BY <1>1 DEF VotesPlaced, Ranging
  <2>2. Spends[v] \in spenders \cup blind \cup work.pending \/ rows[Spends[v]] = NoRow
    BY <2>1 DEF Spending, VotesPlaced
  <2>3. CASE Spends[v] # t
    BY <2>2, <2>3, SaveFacts
  <2>4. CASE Spends[v] = t /\ t \notin work.pending
    <3>1. Spends[v] \in TicketsOf(work.pending)
      BY <2>1 DEF TicketsOf
    <3>2. CASE HasVote(rows, t)
      <4>1. spenders' = (spenders \ {t}) \cup TicketsOf({t}) \cup {t}
        BY <3>2 DEF ListenerSave
      <4>. QED BY <2>4, <4>1
    <3>3. CASE ~HasVote(rows, t)
      BY <2>4, <3>1, <3>3, SaveFacts DEF Overlooked
    <3>. QED BY <3>2, <3>3
  <2>. QED BY <2>3, <2>4
<1>4. SpendersFound'
  <2>1. SUFFICES ASSUME NEW p \in Goroutines, Ranging(p), NEW v \in Vote, rows'[v] # NoRow,
                        Spends[v] \in work.pending
                 PROVE  Spends[v] \in spenders' \cup blind' \cup work.spent
    BY <1>1 DEF SpendersFound, Ranging
  <2>2. rows[v] # NoRow => Spends[v] \in spenders \cup blind \cup work.spent
    BY <2>1 DEF Spending, SpendersFound
  <2>. QED BY <2>1, <2>2, SaveFacts
<1>5. SpendersResolved'
  <2>1. SUFFICES ASSUME NEW p \in Goroutines, pc[p] = "commit", NEW v \in Vote,
                        Spends[v] \in work.pending, rows'[v] # NoRow, Spends[v] \notin work.spent
                 PROVE  Spends[v] \in blind'
    BY <1>1 DEF Spending, SpendersResolved
  <2>2. CASE Spends[v] \in TicketsOf({t})
    BY <2>1, <2>2, SaveFacts DEF Overlooked
  <2>3. CASE Spends[v] \notin TicketsOf({t})
    <3>1. v # t
      BY <2>3 DEF TicketsOf
    <3>2. Spends[v] \in blind
      BY <2>1, <3>1, SaveFacts DEF Spending, SpendersResolved
    <3>3. blind' = (blind \ TicketsOf({t})) \cup Overlooked(t)
      BY Zenon DEF ListenerSave
    <3>. QED BY <2>3, <3>2, <3>3
  <2>. QED BY <2>2, <2>3
<1>6. SpenderKept'
  <2>1. SUFFICES ASSUME NEW v \in Vote, rows'[v] # NoRow, rows'[Spends[v]] # NoRow
                 PROVE  Spends[v] \in spenders' \cup blind'
    BY DEF SpenderKept
  <2>2. rows[v] # NoRow /\ rows[Spends[v]] # NoRow => Spends[v] \in spenders \cup blind
    BY DEF Spending, SpenderKept
  <2>. QED BY <2>1, <2>2, SaveFacts
<1>. QED BY <1>2, <1>3, <1>4, <1>5, <1>6 DEF Spending

LEMMA DropSpending ==
  ASSUME Base, Spending, NEW p \in Goroutines, Drop(p) PROVE Spending'
<1>1. /\ pc'[p] = "reset" /\ \A q \in Goroutines \ {p} : pc'[q] = pc[q]
      /\ \A t \in Tx : rows'[t] = NoRow
      /\ UNCHANGED work
  BY Moved DEF Base, Drop
<1>2. \A v \in Vote : rows'[v] = NoRow /\ rows'[Spends[v]] = NoRow
  BY <1>1, Votes
<1>3. NonePending'
  BY <1>1 DEF Spending, NonePending
<1>4. VotesPlaced' /\ SpendersFound' /\ SpenderKept'
  BY <1>2 DEF VotesPlaced, SpendersFound, SpenderKept
<1>5. SpendersResolved'
  BY <1>1, <1>2 DEF Spending, SpendersResolved
<1>. QED BY <1>3, <1>4, <1>5 DEF Spending

\* What holds of the one pass that is in its range holds of all.
LEMMA OwnSpending ==
  ASSUME Base, NEW p \in Goroutines, Critical(p),
         \A q \in Goroutines \ {p} : pc'[q] = pc[q],
         pc'[p] # "read", SpenderKept',
         Ranging(p)' => \A v \in Vote :
           /\ v \in work'.pending =>
                \/ Spends[v] \in spenders' \cup blind' \cup work'.pending
                \/ rows'[Spends[v]] = NoRow
           /\ rows'[v] # NoRow /\ Spends[v] \in work'.pending =>
                Spends[v] \in spenders' \cup blind' \cup work'.spent,
         pc'[p] = "commit" => \A v \in Vote :
           Spends[v] \in work'.pending =>
             /\ v \in work'.pending => Spends[v] \in work'.spent
             /\ rows'[v] # NoRow => Spends[v] \in work'.spent \cup blind'
  PROVE  Spending'
<1>1. \A q \in Goroutines \ {p} : ~Ranging(q)' /\ pc'[q] # "commit" /\ pc'[q] # "read"
  BY OneCritical DEF Base, Critical, Ranging
<1>2. VotesPlaced' /\ SpendersFound'
  BY <1>1 DEF VotesPlaced, SpendersFound
<1>3. SpendersResolved' /\ NonePending'
  BY <1>1 DEF SpendersResolved, NonePending
<1>. QED BY <1>2, <1>3 DEF Spending

LEMMA SnapshotSpending ==
  ASSUME Base, Spending, NEW p \in Goroutines, Snapshot(p) PROVE Spending'
<1>1. /\ pc[p] = "read" /\ Critical(p) /\ pc'[p] = "range"
      /\ \A q \in Goroutines \ {p} : pc'[q] = pc[q]
      /\ UNCHANGED <<rows, spenders, blind>>
  BY Moved DEF Base, Snapshot, Critical
<1>2. work'.pending = {}
  BY <1>1, SnapshotWork DEF Base, Spending, NonePending
<1>3. SpenderKept'
  BY <1>1 DEF Spending, SpenderKept
<1>. QED BY <1>1, <1>2, <1>3, OwnSpending

LEMMA DecodeSpent ==
  ASSUME TypeOK, NEW p \in Goroutines, NEW S \in SUBSET Tx, Decode(p, S)
  PROVE  work'.spent = work.spent \cup {k \in S : HasVote(rows, k)}
<1>. DEFINE K == {k \in S : HasVote(rows, k)}
            H == IF S # {} /\ work.next <= LastHeight THEN work.next ELSE work.height
<1>1. work \in Works
  BY DEF TypeOK
<1>2. work' = [work EXCEPT !.pending = work.pending \cup S, !.spent = work.spent \cup K,
                           !.height = H, !.next = work.next + 1]
  BY DEF Decode
<1>. HIDE DEF K, H
<1>3. work'.spent = work.spent \cup K
  BY <1>1, <1>2 DEF Works
<1>. QED BY <1>3 DEF K

LEMMA DecodeSpending ==
  ASSUME Base, Spending, NEW p \in Goroutines, DecodeBlock(p) \/ DecodeUnmined(p)
  PROVE  Spending'
<1>1. pc[p] = "range" /\ Critical(p) /\ Ranging(p)
  BY DEF DecodeBlock, DecodeUnmined, Critical, Ranging
<1>2. PICK S \in SUBSET Tx : Decode(p, S)
  BY DecodeIs DEF Base
<1>3. /\ rows' = TicketRows(S) /\ spenders' = spenders \cup TicketsOf(S)
      /\ blind' = blind \ TicketsOf(S) /\ UNCHANGED pc
      /\ work'.pending = work.pending \cup S
      /\ work'.spent = work.spent \cup {k \in S : HasVote(rows, k)}
  BY <1>2, DecodeWork, DecodeSpent DEF Decode, Base
<1>4. /\ \A v \in Vote : rows'[v] = rows[v]
      /\ \A v \in Vote : Spends[v] \notin TicketsOf(S) => rows'[Spends[v]] = rows[Spends[v]]
  BY <1>3, TicketRowsAre, Votes DEF Base
<1>5. ASSUME NEW v \in Vote
      PROVE  /\ v \in work'.pending =>
                  \/ Spends[v] \in spenders' \cup blind' \cup work'.pending
                  \/ rows'[Spends[v]] = NoRow
             /\ rows'[v] # NoRow /\ Spends[v] \in work'.pending =>
                  Spends[v] \in spenders' \cup blind' \cup work'.spent
  <2>1. /\ v \in work.pending =>
             \/ Spends[v] \in spenders \cup blind \cup work.pending
             \/ rows[Spends[v]] = NoRow
        /\ rows[v] # NoRow /\ Spends[v] \in work.pending
             => Spends[v] \in spenders \cup blind \cup work.spent
    BY <1>1 DEF Spending, VotesPlaced, SpendersFound
  <2>2. v \in S => Spends[v] \in TicketsOf(S)
    BY DEF TicketsOf
  <2>3. rows[v] # NoRow => HasVote(rows, Spends[v])
    BY DEF HasVote
  <2>. QED BY <1>3, <1>4, <2>1, <2>2, <2>3
<1>6. SpenderKept'
  <2>1. SUFFICES ASSUME NEW v \in Vote, rows'[v] # NoRow, rows'[Spends[v]] # NoRow,
                        Spends[v] \notin TicketsOf(S)
                 PROVE  Spends[v] \in spenders \cup blind
    BY <1>3 DEF SpenderKept
  <2>. QED BY <1>4, <2>1 DEF Spending, SpenderKept
<1>. QED BY <1>1, <1>3, <1>5, <1>6, OwnSpending

LEMMA ResolveSpending ==
  ASSUME Base, Spending, NEW p \in Goroutines, Resolve(p) PROVE Spending'
<1>1. /\ pc[p] = "range" /\ Critical(p) /\ Ranging(p) /\ pc'[p] = "commit"
      /\ \A q \in Goroutines \ {p} : pc'[q] = pc[q]
      /\ UNCHANGED <<rows, spenders, blind>>
  BY Moved DEF Base, Resolve, Critical, Ranging
<1>. DEFINE K == work.pending \cap (TicketsOf(work.pending) \cup spenders)
<1>2. work \in Works /\ work' = [work EXCEPT !.spent = work.spent \cup K]
  BY DEF Base, TypeOK, Resolve
<1>. HIDE DEF K
<1>3. work'.spent = work.spent \cup K /\ work'.pending = work.pending
  BY <1>2 DEF Works
<1>4. ASSUME NEW v \in Vote
      PROVE  /\ v \in work.pending =>
                  \/ Spends[v] \in spenders \cup blind \cup work.pending
                  \/ rows[Spends[v]] = NoRow
             /\ rows[v] # NoRow /\ Spends[v] \in work.pending
                  => Spends[v] \in spenders \cup blind \cup work.spent
             /\ v \in work.pending => Spends[v] \in TicketsOf(work.pending)
  BY <1>1 DEF Spending, VotesPlaced, SpendersFound, TicketsOf
<1>5. ASSUME NEW v \in Vote, Spends[v] \in work.pending
      PROVE  /\ v \in work.pending => Spends[v] \in work.spent \cup K
             /\ rows[v] # NoRow => Spends[v] \in work.spent \cup K \cup blind
  BY <1>4, <1>5 DEF K
<1>6. SpenderKept'
  BY <1>1 DEF Spending, SpenderKept
<1>. QED BY <1>1, <1>3, <1>4, <1>5, <1>6, OwnSpending

LEMMA CommitSpending ==
  ASSUME Base, Spending, NEW p \in Goroutines, CommitBatch(p) PROVE Spending'
<1>1. /\ pc[p] = "commit" /\ Critical(p) /\ Ranging(p) /\ pc'[p] \in {"stamp", "range"}
      /\ \A q \in Goroutines \ {p} : pc'[q] = pc[q]
      /\ rows' = [t \in Tx |-> IF t \in work.pending THEN At[work.snap][t] ELSE rows[t]]
      /\ spenders' = (spenders \ work.pending) \cup work.spent
      /\ blind' = blind \ work.spent
  BY Moved DEF Base, CommitBatch, Critical, Ranging
<1>2. work'.pending = {}
  BY CommitWork DEF Base
<1>3. SpenderKept'
  <2>1. SUFFICES ASSUME NEW v \in Vote, rows'[v] # NoRow, rows'[Spends[v]] # NoRow
                 PROVE  Spends[v] \in ((spenders \ work.pending) \cup work.spent) \cup blind
    BY <1>1 DEF SpenderKept
  <2>2. v \in work.pending \/ rows[v] # NoRow
    BY <1>1, <2>1, Votes
  <2>3. CASE Spends[v] \in work.pending
    BY <1>1, <2>2, <2>3 DEF Spending, SpendersResolved
  <2>4. CASE Spends[v] \notin work.pending
    <3>1. rows[Spends[v]] # NoRow
      BY <1>1, <2>1, <2>4, Votes
    <3>2. Spends[v] \in spenders \cup blind
      BY <1>1, <2>2, <2>4, <3>1 DEF Spending, VotesPlaced, SpenderKept
    <3>. QED BY <2>4, <3>2
  <2>. QED BY <2>3, <2>4
<1>. QED BY <1>1, <1>2, <1>3, OwnSpending

-----------------------------------------------------------------------------

LEMMA InitSpending == Init => SInv
<1>. SUFFICES ASSUME Init PROVE SInv
  OBVIOUS
<1>1. Base
  BY InitInv DEF IInv, Base
<1>2. (\A t \in Tx : rows[t] = NoRow) /\ \A p \in Goroutines : pc[p] = "idle"
  BY DEF Init
<1>3. NonePending /\ VotesPlaced /\ SpendersFound /\ SpendersResolved
  BY <1>2 DEF NonePending, VotesPlaced, SpendersFound, SpendersResolved, Ranging
<1>4. SpenderKept
  BY <1>2, Votes DEF SpenderKept
<1>. QED BY <1>1, <1>3, <1>4 DEF SInv, Spending

LEMMA NextSpending == ASSUME SInv, [Next]_vars PROVE SInv'
<1>1. Base /\ Spending
  BY DEF SInv
<1>2. Base'
  BY <1>1, TypeHolds, ControlHolds DEF Base
<1>3. ASSUME NEW p \in Goroutines, Goes(p) PROVE Spending'
  BY <1>1, <1>3, StepsThatWriteNothing, DropSpending, SnapshotSpending, DecodeSpending,
     ResolveSpending, CommitSpending, Zenon DEF Goes, Pass
<1>4. Spending'
  BY <1>1, <1>3, SaveSpending, OthersThatWriteNothing, NextIs, Zenon
<1>. QED BY <1>2, <1>4 DEF SInv

\* Once the vote of a ticket has a row, the ticket's row names it, whichever of
\* the two the passes and the listener wrote last: for any chains, any goroutines
\* that index and rescan at once, any size of batches, with passes given up, writes
\* that fail and the program stopped at any step.  Excepted, until the ticket's row
\* is written with its vote, are the tickets of two races: the vote is saved
\* between a flush's look for it and its commit, or the ticket is saved while its
\* vote is decoded and not yet written.
THEOREM SpenderIsKept == Spec => []SpenderKept
<1>1. SInv /\ [Next]_vars => SInv'
  BY NextSpending
<1>2. SInv => SpenderKept
  BY DEF SInv, Spending
<1>. QED BY <1>1, <1>2, InitSpending, PTL DEF Spec
=============================================================================
