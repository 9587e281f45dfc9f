--------------------------- MODULE TxIndex_proofs ---------------------------
(***************************************************************************)
(* Proofs about TxIndex, for any transactions, blocks, depth of            *)
(* reorganisations, size of batches, heights that rescans start from and   *)
(* set of goroutines.                                                      *)
(*                                                                         *)
(* What a pass has left to do is bounded by what it has taken up: up to    *)
(* the block it decodes next, each transaction deep enough not to be       *)
(* reorganised has its row or is pending (Covered).  The chain may switch  *)
(* under the pass, but no deeper than MaxReOrg, so that the pass's snapshot*)
(* and the main chain agree on what counts (SnapshotHolds).  Rows that are *)
(* taken away under it leave a gap, which a pass from 0 alone closes.      *)
(***************************************************************************)
EXTENDS TxIndex, TLAPS

Depth(b) == HeightOf[b] - MaxReOrg

Critical(p) == pc[p] \in {"read", "range", "commit", "stamp", "version"}
Ranging(p) == pc[p] \in {"range", "commit", "stamp"}

HoldsLock == \A p \in Goroutines : Critical(p) => holder = p

\* Rows that were cleared for a newer parser are not said to be of it before a
\* pass has begun.
RedoIsOld == gap = "redo" => old /\ \A p \in Goroutines : ~Critical(p)

NoGap == gap = "none"

PointIsReached == point <= HeightOf[tip]
PointIsSound == NoGap => Complete(point - MaxReOrg)

BeginIsSound ==
  \A p \in Goroutines : pc[p] = "read" =>
    /\ work.begin = 0 \/ work.begin <= Depth(tip)
    /\ work.end <= HeightOf[tip]
    /\ work.height = -1
    /\ NoGap => Complete(work.begin)

\* The main chain has what the snapshot has, but for its last MaxReOrg blocks.
SnapshotHolds ==
  \A p \in Goroutines : Ranging(p) =>
    /\ HeightOf[work.snap] <= HeightOf[tip]
    /\ Agree(work.snap, tip, Depth(work.snap))
    /\ work.end <= HeightOf[work.snap]
    /\ work.height < work.next /\ work.height <= HeightOf[work.snap]
    /\ NoGap => point <= HeightOf[work.snap] \/ point <= MaxReOrg

Covered ==
  \A p \in Goroutines : Ranging(p) /\ NoGap =>
    \A t \in Tx \ late :
      /\ At[tip][t] \in 1 .. Depth(work.snap)
      /\ At[tip][t] < work.next
      => t \in work.pending \/ rows[t] = At[tip][t]

StampIsDue ==
  \A p \in Goroutines : pc[p] = "stamp" => work.pending = {} /\ work.end < work.next

Control == HoldsLock /\ RedoIsOld

Progress ==
  /\ PointIsReached /\ PointIsSound /\ BeginIsSound
  /\ SnapshotHolds /\ Covered /\ StampIsDue

IInv == TypeOK /\ Control /\ Progress

-----------------------------------------------------------------------------
(* Types *)

USE DEF wallet, index, pass, history, Gap, Goto, Release, PassOver, NoPass, Unmined, NoRow

LEMMA Constants ==
  /\ HeightOf \in [Block -> Nat] /\ At \in [Block -> [Tx -> Nat]]
  /\ \A b \in Block, t \in Tx : At[b][t] \in Nat
  /\ MaxReOrg \in Nat /\ RescanHeights \subseteq Nat
  /\ Vote \subseteq Tx /\ \A v \in Vote : Spends[v] \in Tx \ Vote
BY ChainAssumption, IndexAssumption

LEMMA NoWorkTyped == NoWork \in Works
BY ChainAssumption DEF NoWork, Works

LEMMA TicketsTyped ==
  ASSUME NEW S \in SUBSET Tx PROVE TicketsOf(S) \in SUBSET (Tx \ Vote)
BY IndexAssumption DEF TicketsOf

LEMMA TicketRowsTyped ==
  ASSUME TypeOK, NEW S \in SUBSET Tx PROVE TicketRows(S) \in [Tx -> Nat \cup {NoRow}]
BY Constants DEF TicketRows, TypeOK

LEMMA SequenceFacts ==
  ASSUME NEW S, NEW s \in Seq(S)
  PROVE  /\ \A e \in S : Append(s, e) \in Seq(S)
         /\ s # <<>> =>
              /\ 1 \in DOMAIN s /\ s[1] \in S /\ Head(s) = s[1]
              /\ Tail(s) \in Seq(S) /\ <<Head(s)>> \in Seq(S)
              /\ \A e \in S : [s EXCEPT ![1] = e] \in Seq(S)
OBVIOUS

LEMMA RecordLess ==
  ASSUME NEW r \in [tip : Block, txs : SUBSET Tx], NEW t \in Tx
  PROVE  /\ [r EXCEPT !.txs = r.txs \ {t}] \in [tip : Block, txs : SUBSET Tx]
         /\ [r EXCEPT !.txs = r.txs \ {t}].tip = r.tip
OBVIOUS

LEMMA NotesTyped ==
  ASSUME TypeOK, [Next]_vars PROVE notes' \in Seq([tip : Block, txs : SUBSET Tx])
<1>. DEFINE Reports == [tip : Block, txs : SUBSET Tx]
<1>a. notes \in Seq(Reports) /\ tip \in Block BY DEF TypeOK
<1>b. /\ \A e \in Reports : Append(notes, e) \in Seq(Reports)
      /\ notes # <<>> =>
           /\ 1 \in DOMAIN notes /\ notes[1] \in Reports /\ Head(notes) = notes[1]
           /\ Tail(notes) \in Seq(Reports) /\ <<Head(notes)>> \in Seq(Reports)
           /\ \A e \in Reports : [notes EXCEPT ![1] = e] \in Seq(Reports)
  BY <1>a, SequenceFacts
<1>c. \A b \in Block, T \in SUBSET Tx : [tip |-> b, txs |-> T] \in Reports
  OBVIOUS
<1>d. \A e \in Reports, t \in Tx : [e EXCEPT !.txs = e.txs \ {t}] \in Reports
  BY RecordLess
<1>e. <<>> \in Seq(Reports) OBVIOUS
<1>. HIDE DEF Reports
<1>1. ASSUME NEW b \in Block, NEW T \in SUBSET Tx, Report(b, T)
      PROVE  notes' \in Seq(Reports)
  <2>1. CASE listening
    <3>1. notes' = Append(notes, [tip |-> b, txs |-> T])
      BY <1>1, <2>1 DEF Report
    <3>. QED BY <1>b, <1>c, <3>1
  <2>2. CASE ~listening
    BY <1>a, <1>1, <2>2 DEF Report
  <2>. QED BY <2>1, <2>2
<1>2. ASSUME NEW b \in Block, ChainSwitch(b) PROVE notes' \in Seq(Reports)
  <2>1. Attached(b) \in SUBSET Tx BY DEF Attached
  <2>. QED BY <1>1, <1>2, <2>1 DEF ChainSwitch
<1>3. ASSUME NEW t \in Tx, AddTransaction(t) PROVE notes' \in Seq(Reports)
  BY <1>a, <1>1, <1>3 DEF AddTransaction
<1>4. ASSUME NEW t \in Tx, ListenerSave(t) PROVE notes' \in Seq(Reports)
  <2>1. notes # <<>> /\ notes' = [notes EXCEPT ![1] = [notes[1] EXCEPT !.txs = notes[1].txs \ {t}]]
    BY <1>4, Zenon DEF ListenerSave
  <2>. QED BY <1>b, <1>d, <2>1
<1>5. ASSUME ListenerNext PROVE notes' \in Seq(Reports)
  BY <1>b, <1>5 DEF ListenerNext
<1>6. ASSUME SessionEnds PROVE notes' \in Seq(Reports)
  BY <1>b, <1>e, <1>6 DEF SessionEnds
<1>7. ASSUME Crash PROVE notes' \in Seq(Reports)
  BY <1>e, <1>7 DEF Crash
<1>8. ASSUME UNCHANGED notes PROVE notes' \in Seq(Reports)
  BY <1>a, <1>8
<1>9. ASSUME NEW p \in Goroutines,
             \/ SyncedWallet(p) \/ Pass(p) \/ Abort(p) \/ ClearFails(p)
             \/ \E h \in RescanHeights : RescanEnds(p, h)
      PROVE  UNCHANGED notes
  BY <1>9, Zenon DEF SyncedWallet, Pass, Abort, ClearFails, RescanEnds, CheckVersion, Drop, Reset, Lock,
     Snapshot, DecodeBlock, DecodeUnmined, Decode, Resolve, CommitBatch, Stamp, SaveVersion
<1>10. ASSUME UNCHANGED vars PROVE notes' \in Seq(Reports)
  BY <1>8, <1>10 DEF vars
<1>. QED
  BY <1>2, <1>3, <1>4, <1>5, <1>6, <1>7, <1>8, <1>9, <1>10, Zenon DEF Next, Listener, Reports

(* What each step of a pass does to the pass. *)

LEMMA LockWork ==
  ASSUME TypeOK, NEW p \in Goroutines, Lock(p)
  PROVE  /\ work' \in Works
         /\ work'.begin = IndexingStart /\ work'.end = HeightOf[tip]
         /\ work'.height = -1
<1>1. IndexingStart \in Nat /\ HeightOf[tip] \in Nat
  BY Constants DEF IndexingStart, TypeOK
<1>2. work' = [NoWork EXCEPT !.begin = IndexingStart, !.end = HeightOf[tip]]
  BY DEF Lock
<1>3. NoWork.height = -1
  BY DEF NoWork
<1>. QED BY <1>1, <1>2, <1>3, NoWorkTyped DEF Works

LEMMA SnapshotWork ==
  ASSUME TypeOK, NEW p \in Goroutines, Snapshot(p)
  PROVE  /\ work' \in Works /\ work'.begin = work.begin /\ work'.end = work.end
         /\ work'.snap = tip /\ work'.next = work.begin
         /\ work'.pending = work.pending /\ work'.height = work.height
<1>. DEFINE U == {t \in known : At[tip][t] = 0}
<1>1. U \in SUBSET Tx /\ tip \in Block /\ work \in Works /\ work.begin \in Nat
  BY DEF TypeOK, Works
<1>2. work' = [work EXCEPT !.snap = tip, !.unmined = U, !.next = work.begin]
  BY DEF Snapshot
<1>. HIDE DEF U
<1>. QED BY <1>1, <1>2 DEF Works

LEMMA DecodeWork ==
  ASSUME TypeOK, NEW p \in Goroutines, NEW S \in SUBSET Tx, Decode(p, S)
  PROVE  /\ work' \in Works /\ work'.begin = work.begin /\ work'.end = work.end
         /\ work'.snap = work.snap /\ work'.next = work.next + 1
         /\ work'.pending = work.pending \cup S
         /\ work'.height = IF S # {} /\ work.next <= LastHeight THEN work.next ELSE work.height
<1>. DEFINE K == {k \in S : HasVote(rows, k)}
            H == IF S # {} /\ work.next <= LastHeight THEN work.next ELSE work.height
<1>1. K \in SUBSET (Tx \ Vote) /\ work \in Works
  BY IndexAssumption DEF TypeOK, HasVote
<1>2. H \in Nat \cup {-1} /\ work.next + 1 \in Nat
  BY <1>1 DEF Works
<1>3. work' = [work EXCEPT !.pending = work.pending \cup S, !.spent = work.spent \cup K,
                           !.height = H, !.next = work.next + 1]
  BY DEF Decode
<1>. HIDE DEF K, H
<1>4. /\ work' \in Works /\ work'.begin = work.begin /\ work'.end = work.end
      /\ work'.snap = work.snap /\ work'.next = work.next + 1
      /\ work'.pending = work.pending \cup S /\ work'.height = H
  BY <1>1, <1>2, <1>3 DEF Works
<1>. QED BY <1>4 DEF H

LEMMA ResolveWork ==
  ASSUME TypeOK, NEW p \in Goroutines, Resolve(p)
  PROVE  /\ work' \in Works /\ work'.begin = work.begin /\ work'.end = work.end
         /\ work'.snap = work.snap /\ work'.next = work.next
         /\ work'.pending = work.pending /\ work'.height = work.height
<1>. DEFINE K == work.pending \cap (TicketsOf(work.pending) \cup spenders)
<1>1. work \in Works /\ K \in SUBSET (Tx \ Vote)
  BY TicketsTyped DEF TypeOK, Works
<1>2. work' = [work EXCEPT !.spent = work.spent \cup K]
  BY DEF Resolve
<1>. HIDE DEF K
<1>. QED BY <1>1, <1>2 DEF Works

LEMMA CommitWork ==
  ASSUME TypeOK, NEW p \in Goroutines, CommitBatch(p)
  PROVE  /\ work' \in Works /\ work'.begin = work.begin /\ work'.end = work.end
         /\ work'.snap = work.snap /\ work'.next = work.next
         /\ work'.pending = {} /\ work'.height = -1
<1>1. work \in Works
  BY DEF TypeOK
<1>2. work' = [work EXCEPT !.pending = {}, !.spent = {}, !.height = -1]
  BY DEF CommitBatch
<1>. QED BY <1>1, <1>2 DEF Works

LEMMA DecodeIs ==
  ASSUME TypeOK, NEW p \in Goroutines, DecodeBlock(p) \/ DecodeUnmined(p)
  PROVE  \E S \in SUBSET Tx : Decode(p, S)
<1>1. {t \in Tx : At[work.snap][t] = work.next /\ work.next > 0} \in SUBSET Tx
  OBVIOUS
<1>2. work.unmined \in SUBSET Tx
  BY DEF TypeOK, Works
<1>. QED BY <1>1, <1>2 DEF DecodeBlock, DecodeUnmined

LEMMA WorkTyped ==
  ASSUME TypeOK, [Next]_vars PROVE work' \in Works
<1>1. work \in Works BY DEF TypeOK
<1>2. ASSUME UNCHANGED work \/ work' = NoWork PROVE work' \in Works
  BY <1>1, <1>2, NoWorkTyped
<1>3. ASSUME NEW p \in Goroutines, DecodeBlock(p) \/ DecodeUnmined(p) PROVE work' \in Works
  BY <1>3, DecodeIs, DecodeWork
<1>4. ASSUME NEW p \in Goroutines,
             \/ Stamp(p) \/ SaveVersion(p) \/ Abort(p) \/ CheckVersion(p) \/ Drop(p)
             \/ Reset(p) \/ SyncedWallet(p) \/ ClearFails(p)
             \/ \E h \in RescanHeights : RescanEnds(p, h)
      PROVE  UNCHANGED work \/ work' = NoWork
  BY <1>4, Zenon DEF Stamp, SaveVersion, Abort, ClearFails, CheckVersion, Drop, Reset, SyncedWallet,
     RescanEnds
<1>5. ASSUME \/ Listener \/ SessionEnds \/ Crash \/ UNCHANGED vars
             \/ (\E b \in Block : ChainSwitch(b)) \/ \E t \in Tx : AddTransaction(t)
      PROVE  UNCHANGED work \/ work' = NoWork
  BY <1>5, Zenon DEF Listener, ListenerSave, ListenerNext, SessionEnds, Crash, ChainSwitch,
     AddTransaction, vars
<1>. QED
  BY <1>2, <1>3, <1>4, <1>5, LockWork, SnapshotWork, ResolveWork, CommitWork, Zenon
  DEF Next, Pass

LEMMA RowsTyped ==
  ASSUME TypeOK, [Next]_vars
  PROVE  rows' \in [Tx -> Nat \cup {NoRow}] /\ spenders' \in SUBSET (Tx \ Vote)
<1>. DEFINE Good == rows' \in [Tx -> Nat \cup {NoRow}] /\ spenders' \in SUBSET (Tx \ Vote)
<1>a. /\ rows \in [Tx -> Nat \cup {NoRow}] /\ spenders \in SUBSET (Tx \ Vote)
      /\ work \in Works /\ tip \in Block /\ known \subseteq Tx
      /\ notes \in Seq([tip : Block, txs : SUBSET Tx])
  BY DEF TypeOK
<1>1. ASSUME NEW t \in Tx, ListenerSave(t) PROVE Good
  <2>. DEFINE Reports == [tip : Block, txs : SUBSET Tx]
  <2>0. notes \in Seq(Reports) /\ notes # <<>>
    BY <1>a, <1>1 DEF ListenerSave
  <2>. HIDE DEF Reports
  <2>a. Head(notes) \in Reports
    BY <2>0, SequenceFacts
  <2>1. /\ Head(notes) \in [tip : Block, txs : SUBSET Tx]
        /\ rows' = [TicketRows({t}) EXCEPT ![t] = At[Head(notes).tip][t]]
        /\ spenders' = (spenders \ {t}) \cup TicketsOf({t})
                         \cup (IF HasVote(rows, t) THEN {t} ELSE {})
    BY <1>1, <2>a, Zenon DEF ListenerSave, Reports
  <2>2. At[Head(notes).tip][t] \in Nat
    BY <2>1, Constants
  <2>3. rows' \in [Tx -> Nat \cup {NoRow}]
    BY <2>1, <2>2, TicketRowsTyped
  <2>4. HasVote(rows, t) => t \in Tx \ Vote
    BY IndexAssumption DEF HasVote
  <2>5. spenders' \in SUBSET (Tx \ Vote)
    BY <1>a, <2>1, <2>4, TicketsTyped
  <2>. QED BY <2>3, <2>5
<1>2. ASSUME NEW p \in Goroutines, NEW S \in SUBSET Tx, Decode(p, S) PROVE Good
  BY <1>a, <1>2, TicketRowsTyped, TicketsTyped DEF Decode
<1>3. ASSUME NEW p \in Goroutines, DecodeBlock(p) \/ DecodeUnmined(p) PROVE Good
  BY <1>2, <1>3, DecodeIs
<1>5. ASSUME NEW p \in Goroutines, CommitBatch(p) PROVE Good
  <2>1. rows' = [t \in Tx |-> IF t \in work.pending THEN At[work.snap][t] ELSE rows[t]]
    BY <1>5 DEF CommitBatch
  <2>2. \A t \in Tx : At[work.snap][t] \in Nat
    BY <1>a, Constants DEF Works
  <2>3. spenders' = (spenders \ work.pending) \cup work.spent
    BY <1>5 DEF CommitBatch
  <2>4. work.spent \in SUBSET (Tx \ Vote)
    BY <1>a DEF Works
  <2>. QED BY <1>a, <2>1, <2>2, <2>3, <2>4
<1>6. ASSUME NEW p \in Goroutines, Drop(p) PROVE Good
  BY <1>6 DEF Drop
<1>7. ASSUME UNCHANGED index PROVE Good
  BY <1>a, <1>7
<1>. QED
  BY <1>1, <1>3, <1>5, <1>6, <1>7, Zenon DEF Next, Pass, Listener, vars, Stamp, SaveVersion, Abort,
     ClearFails, CheckVersion, Reset, SyncedWallet, RescanEnds, Lock, Snapshot, Resolve, ListenerNext,
     SessionEnds, Crash, ChainSwitch, AddTransaction

\* The actions of a goroutine.
Goes(p) ==
  \/ SyncedWallet(p) \/ Pass(p) \/ Abort(p) \/ ClearFails(p)
  \/ \E h \in RescanHeights : RescanEnds(p, h)

LEMMA NextIs ==
  ASSUME [Next]_vars
  PROVE  \/ \E b \in Block : ChainSwitch(b)
         \/ \E t \in Tx : AddTransaction(t) \/ ListenerSave(t)
         \/ ListenerNext \/ SessionEnds \/ Crash \/ UNCHANGED vars
         \/ \E p \in Goroutines : Goes(p)
BY Zenon DEF Next, Listener, Goes

LEMMA WalletTyped ==
  ASSUME TypeOK, [Next]_vars
  PROVE  tip' \in Block /\ known' \in SUBSET Tx /\ listening' \in BOOLEAN
<1>a. tip \in Block /\ known \in SUBSET Tx /\ listening \in BOOLEAN BY DEF TypeOK
<1>1. ASSUME NEW b \in Block, ChainSwitch(b)
      PROVE  tip' \in Block /\ known' \in SUBSET Tx /\ listening' \in BOOLEAN
  BY <1>a, <1>1 DEF ChainSwitch, Attached
<1>2. ASSUME NEW t \in Tx, AddTransaction(t)
      PROVE  tip' \in Block /\ known' \in SUBSET Tx /\ listening' \in BOOLEAN
  BY <1>a, <1>2 DEF AddTransaction
<1>3. ASSUME \/ ListenerNext \/ SessionEnds \/ Crash \/ UNCHANGED vars
             \/ (\E t \in Tx : ListenerSave(t)) \/ \E p \in Goroutines : Goes(p)
      PROVE  UNCHANGED wallet /\ (UNCHANGED listening \/ listening' = TRUE \/ listening' = FALSE)
  BY <1>3, Zenon DEF ListenerNext, SessionEnds, Crash, vars, ListenerSave, Goes, SyncedWallet, Pass,
     Abort, ClearFails, RescanEnds, CheckVersion, Drop, Reset, Lock, Snapshot, DecodeBlock, DecodeUnmined,
     Decode, Resolve, CommitBatch, Stamp, SaveVersion
<1>4. ASSUME UNCHANGED wallet, UNCHANGED listening \/ listening' = TRUE \/ listening' = FALSE
      PROVE  tip' \in Block /\ known' \in SUBSET Tx /\ listening' \in BOOLEAN
  BY <1>a, <1>4
<1>. QED BY <1>1, <1>2, <1>3, <1>4, NextIs

LEMMA PointTyped ==
  ASSUME TypeOK, [Next]_vars PROVE point' \in Nat /\ old' \in BOOLEAN
<1>a. /\ point \in Nat /\ old \in BOOLEAN /\ work.end \in Nat
      /\ work.height >= 0 => work.height \in Nat
  BY DEF TypeOK, Works
<1>1. ASSUME NEW p \in Goroutines, Goes(p)
      PROVE  /\ \/ UNCHANGED point \/ point' = 0 \/ point' = work.end
                \/ (work.height >= 0 /\ point' = work.height) \/ point' \in RescanHeights
             /\ UNCHANGED old \/ old' \in {FALSE, old}
  BY <1>1, Zenon DEF Goes, SyncedWallet, Pass, Abort, ClearFails, RescanEnds, CheckVersion, Drop, Reset, Lock,
     Snapshot, DecodeBlock, DecodeUnmined, Decode, Resolve, CommitBatch, Stamp, SaveVersion
<1>2. ASSUME \/ ListenerNext \/ SessionEnds \/ UNCHANGED vars
             \/ (\E b \in Block : ChainSwitch(b))
             \/ (\E t \in Tx : AddTransaction(t) \/ ListenerSave(t))
      PROVE  UNCHANGED <<point, old>>
  BY <1>2, Zenon DEF ListenerNext, SessionEnds, vars, ListenerSave, ChainSwitch, AddTransaction
<1>5. ASSUME Crash PROVE point' \in Nat /\ old' \in BOOLEAN
  BY <1>a, <1>5 DEF Crash
<1>3. ASSUME NEW p \in Goroutines, Goes(p) PROVE point' \in Nat /\ old' \in BOOLEAN
  <2>0. \/ point' = point \/ point' = 0 \/ point' = work.end
        \/ (work.height >= 0 /\ point' = work.height) \/ point' \in RescanHeights
    BY <1>1, <1>3
  <2>1. point' \in RescanHeights => point' \in Nat BY Constants, Zenon
  <2>3. 0 \in Nat OBVIOUS
  <2>4. point' \in Nat BY <1>a, <2>0, <2>1, <2>3, Zenon
  <2>2. old' \in BOOLEAN BY <1>a, <1>1, <1>3
  <2>. QED BY <2>2, <2>4
<1>4. ASSUME UNCHANGED <<point, old>> PROVE point' \in Nat /\ old' \in BOOLEAN
  BY <1>a, <1>4
<1>. QED BY <1>2, <1>3, <1>4, <1>5, NextIs, Zenon

LEMMA PassTyped ==
  ASSUME TypeOK, [Next]_vars
  PROVE  /\ pc' \in [Goroutines -> Stages] /\ migrating' \in [Goroutines -> BOOLEAN]
         /\ holder' \in Goroutines \cup {NoPass}
<1>. DEFINE Good == /\ pc' \in [Goroutines -> Stages] /\ migrating' \in [Goroutines -> BOOLEAN]
                    /\ holder' \in Goroutines \cup {NoPass}
<1>a. /\ pc \in [Goroutines -> Stages] /\ migrating \in [Goroutines -> BOOLEAN]
      /\ holder \in Goroutines \cup {NoPass} /\ old \in BOOLEAN
  BY DEF TypeOK
<1>. DEFINE Does(p) ==
              /\ UNCHANGED pc \/ \E l \in Stages : Goto(p, l)
              /\ \/ UNCHANGED migrating
                 \/ \E m \in BOOLEAN : migrating' = [migrating EXCEPT ![p] = m]
              /\ UNCHANGED holder \/ holder' = p \/ holder' = NoPass
<1>1. ASSUME NEW p \in Goroutines, Goes(p) PROVE Does(p)
  <2>1. CASE SyncedWallet(p) BY <2>1 DEF SyncedWallet, Stages
  <2>2. CASE Abort(p) BY <2>2 DEF Abort, Stages
  <2>14. CASE ClearFails(p) BY <2>14 DEF ClearFails, Stages
  <2>3. ASSUME NEW h \in RescanHeights, RescanEnds(p, h) PROVE Does(p)
    BY <2>3 DEF RescanEnds, Stages
  <2>4. CASE CheckVersion(p) BY <1>a, <2>4 DEF CheckVersion, Stages
  <2>5. CASE Drop(p) BY <2>5 DEF Drop, Stages
  <2>6. CASE Reset(p) BY <2>6 DEF Reset, Stages
  <2>7. CASE Lock(p) BY <2>7 DEF Lock, Stages
  <2>8. CASE Snapshot(p) BY <2>8 DEF Snapshot, Stages
  <2>9. CASE DecodeBlock(p) \/ DecodeUnmined(p) BY <2>9 DEF DecodeBlock, DecodeUnmined, Decode
  <2>10. CASE Resolve(p) BY <2>10 DEF Resolve, Stages
  <2>11. CASE CommitBatch(p) BY <2>11 DEF CommitBatch, Stages
  <2>12. CASE Stamp(p) BY <2>12 DEF Stamp, Stages
  <2>13. CASE SaveVersion(p) BY <2>13 DEF SaveVersion, Stages
  <2>. QED
    BY <1>1, <2>1, <2>2, <2>3, <2>4, <2>5, <2>6, <2>7, <2>8, <2>9, <2>10, <2>11, <2>12, <2>13,
       <2>14, Zenon DEF Goes, Pass
<1>2. ASSUME NEW p \in Goroutines, Goes(p) PROVE Good
  BY <1>a, <1>1, <1>2
<1>3. ASSUME Crash PROVE Good
  BY <1>3 DEF Crash, Stages
<1>4. ASSUME \/ ListenerNext \/ SessionEnds \/ UNCHANGED vars
             \/ (\E b \in Block : ChainSwitch(b))
             \/ (\E t \in Tx : AddTransaction(t) \/ ListenerSave(t))
      PROVE  UNCHANGED pass
  BY <1>4, Zenon DEF ListenerNext, SessionEnds, vars, ListenerSave, ChainSwitch, AddTransaction
<1>5. ASSUME UNCHANGED pass PROVE Good
  BY <1>a, <1>5
<1>. QED BY <1>2, <1>3, <1>4, <1>5, NextIs

LEMMA HistoryTyped ==
  ASSUME TypeOK, [Next]_vars
  PROVE  gap' \in {"none", "redo", "open"} /\ late' \in SUBSET Tx /\ blind' \in SUBSET (Tx \ Vote)
<1>. DEFINE Good == /\ gap' \in {"none", "redo", "open"}
                    /\ late' \in SUBSET Tx /\ blind' \in SUBSET (Tx \ Vote)
<1>a. gap \in {"none", "redo", "open"} /\ late \in SUBSET Tx /\ blind \in SUBSET (Tx \ Vote)
  BY DEF TypeOK
<1>1. ASSUME NEW t \in Tx, ListenerSave(t) PROVE Good
  <2>0. /\ TicketsOf({t}) \in SUBSET (Tx \ Vote) /\ work.pending \in SUBSET Tx
        /\ TicketsOf(work.pending) \in SUBSET (Tx \ Vote)
    BY TicketsTyped DEF TypeOK, Works
  <2>1. Overlooked(t) \in SUBSET (Tx \ Vote)
    <3>. DEFINE A == TicketsOf({t})
                B == TicketsOf(work.pending)
    <3>1. /\ Overlooked(t) =
                {k \in A : k \in work.pending \ work.spent /\ \E p \in Goroutines : pc[p] = "commit"}
                \cup {k \in {t} \ work.pending : k \in B /\ ~HasVote(rows, k)}
      BY DEF Overlooked
    <3>. HIDE DEF A, B
    <3>2. Overlooked(t) \subseteq A \cup B
      BY <3>1
    <3>. QED BY <2>0, <3>2 DEF A, B
  <2>2. /\ gap' = gap
        /\ late' = late \cup {t} \/ late' = late \ {t}
        /\ blind' = (blind \ TicketsOf({t})) \cup Overlooked(t)
    BY <1>1, Zenon DEF ListenerSave
  <2>. QED BY <1>a, <2>1, <2>2
<1>2. ASSUME NEW p \in Goroutines, DecodeBlock(p) \/ DecodeUnmined(p) PROVE Good
  BY <1>a, <1>2 DEF DecodeBlock, DecodeUnmined, Decode
<1>3. ASSUME NEW p \in Goroutines, CommitBatch(p) PROVE Good
  BY <1>a, <1>3 DEF CommitBatch
<1>4. ASSUME NEW p \in Goroutines, Drop(p) PROVE Good
  BY <1>4 DEF Drop
<1>5. ASSUME NEW p \in Goroutines, Lock(p) PROVE Good
  BY <1>a, <1>5 DEF Lock
<1>6. ASSUME NEW p \in Goroutines, NEW h, RescanEnds(p, h) PROVE Good
  BY <1>a, <1>6 DEF RescanEnds
<1>7. ASSUME UNCHANGED history PROVE Good
  BY <1>a, <1>7
<1>. QED
  BY <1>1, <1>2, <1>3, <1>4, <1>5, <1>6, <1>7, Zenon DEF Next, Pass, Listener, vars, Stamp,
     SaveVersion, Abort, ClearFails, CheckVersion, Reset, SyncedWallet, Snapshot, Resolve,
     ListenerNext, SessionEnds, Crash, ChainSwitch, AddTransaction

LEMMA TypeHolds == ASSUME TypeOK, [Next]_vars PROVE TypeOK'
BY NotesTyped, WorkTyped, RowsTyped, WalletTyped, PointTyped, PassTyped, HistoryTyped DEF TypeOK

LEMMA InitTyped == Init => TypeOK
<1>. SUFFICES ASSUME Init PROVE TypeOK
  OBVIOUS
<1>1. notes \in Seq([tip : Block, txs : SUBSET Tx])
  BY DEF Init
<1>2. rows \in [Tx -> Nat \cup {NoRow}] /\ work \in Works
  BY NoWorkTyped DEF Init
<1>3. pc \in [Goroutines -> Stages] /\ migrating \in [Goroutines -> BOOLEAN]
  BY DEF Init, Stages
<1>. QED BY <1>1, <1>2, <1>3, ChainAssumption DEF Init, TypeOK

\* The variables keep their types: a report names transactions of the wallet, no
\* row is of a height below 0, and tickets alone name a spender.
THEOREM TypeCorrect == Spec => []TypeOK
BY InitTyped, TypeHolds, PTL DEF Spec

-----------------------------------------------------------------------------
(* Who holds the lock *)

LEMMA Moved ==
  ASSUME TypeOK, NEW p \in Goroutines, NEW l, Goto(p, l)
  PROVE  pc'[p] = l /\ \A q \in Goroutines \ {p} : pc'[q] = pc[q]
BY DEF TypeOK

LEMMA OneCritical ==
  ASSUME Control, NEW p \in Goroutines, Critical(p), NEW q \in Goroutines, Critical(q)
  PROVE  p = q
BY DEF Control, HoldsLock

LEMMA FreeLock ==
  ASSUME Control, holder = NoPass PROVE \A p \in Goroutines : ~Critical(p)
BY IndexAssumption DEF Control, HoldsLock

\* A goroutine without the lock does not take it, ...
LEMMA StaysOut ==
  ASSUME TypeOK, Control, NEW p \in Goroutines, ~Critical(p)', UNCHANGED holder,
         \A q \in Goroutines \ {p} : pc'[q] = pc[q],
         gap' = gap \/ gap' = "open" \/ (gap' = "redo" /\ old /\ holder = NoPass),
         UNCHANGED old
  PROVE  Control'
<1>1. HoldsLock'
  BY DEF Control, HoldsLock, Critical
<1>2. RedoIsOld'
  <2>1. CASE gap' = gap
    BY <2>1 DEF Control, RedoIsOld, Critical
  <2>2. CASE gap' = "redo" /\ old /\ holder = NoPass
    BY <2>2, FreeLock DEF RedoIsOld, Critical
  <2>. QED BY <2>1, <2>2 DEF RedoIsOld
<1>. QED BY <1>1, <1>2 DEF Control

\* and one that holds it goes on or gives it back.
LEMMA StaysIn ==
  ASSUME TypeOK, Control, NEW p \in Goroutines, Critical(p), UNCHANGED gap,
         \A q \in Goroutines \ {p} : pc'[q] = pc[q],
         Critical(p)' => holder' = holder
  PROVE  Control'
<1>1. \A q \in Goroutines \ {p} : ~Critical(q)'
  BY OneCritical DEF Critical
<1>2. HoldsLock'
  BY <1>1 DEF Control, HoldsLock
<1>3. gap' # "redo"
  BY DEF Control, RedoIsOld
<1>. QED BY <1>2, <1>3 DEF Control, RedoIsOld

LEMMA ControlHolds ==
  ASSUME TypeOK, Control, [Next]_vars PROVE Control'
<1>1. ASSUME NEW p \in Goroutines,
             \/ SyncedWallet(p) \/ CheckVersion(p) \/ Drop(p) \/ Reset(p) \/ ClearFails(p)
             \/ \E h \in RescanHeights : RescanEnds(p, h)
      PROVE  Control'
  <2>1. \E l \in {"start", "drop", "reset", "lock", "idle"} : Goto(p, l)
    BY <1>1 DEF SyncedWallet, CheckVersion, Drop, Reset, ClearFails, RescanEnds
  <2>2. ~Critical(p)' /\ \A q \in Goroutines \ {p} : pc'[q] = pc[q]
    BY <2>1, Moved DEF Critical
  <2>3. /\ UNCHANGED <<holder, old>>
        /\ gap' = gap \/ gap' = "open" \/ (gap' = "redo" /\ old /\ holder = NoPass)
    BY <1>1, Zenon DEF SyncedWallet, CheckVersion, Drop, Reset, ClearFails, RescanEnds
  <2>. QED BY <2>2, <2>3, StaysOut
<1>2. ASSUME NEW p \in Goroutines, Lock(p) PROVE Control'
  <2>1. /\ pc'[p] = "read" /\ holder = NoPass /\ holder' = p /\ gap' # "redo"
        /\ \A q \in Goroutines \ {p} : pc'[q] = pc[q]
    BY <1>2, Moved DEF Lock
  <2>2. \A q \in Goroutines \ {p} : ~Critical(q)'
    BY <2>1, FreeLock DEF Critical
  <2>. QED BY <2>1, <2>2 DEF Control, HoldsLock, RedoIsOld
<1>3. ASSUME NEW p \in Goroutines, Snapshot(p) \/ Resolve(p) \/ CommitBatch(p) PROVE Control'
  <2>1. Critical(p) /\ UNCHANGED <<gap, holder>> /\ \E l \in Stages : Goto(p, l)
    BY <1>3 DEF Snapshot, Resolve, CommitBatch, Critical, Stages
  <2>. QED BY <2>1, Moved, StaysIn
<1>4. ASSUME NEW p \in Goroutines, Stamp(p) \/ SaveVersion(p) \/ Abort(p) PROVE Control'
  <2>1. /\ Critical(p) /\ UNCHANGED gap
        /\ (Goto(p, "version") /\ UNCHANGED holder) \/ Goto(p, "idle")
    BY <1>4 DEF Stamp, SaveVersion, Abort, Critical
  <2>2. Critical(p)' => holder' = holder
    BY <2>1, Moved DEF Critical
  <2>. QED BY <2>1, <2>2, Moved, StaysIn
<1>5. ASSUME NEW p \in Goroutines, DecodeBlock(p) \/ DecodeUnmined(p) PROVE Control'
  <2>1. UNCHANGED <<pc, holder, gap, old>>
    BY <1>5 DEF DecodeBlock, DecodeUnmined, Decode
  <2>. QED BY <2>1 DEF Control, HoldsLock, RedoIsOld, Critical
<1>6. ASSUME Crash PROVE Control'
  <2>1. \A p \in Goroutines : ~Critical(p)'
    BY <1>6 DEF Crash, Critical
  <2>2. gap' = gap /\ old' \in {old, TRUE}
    BY <1>6 DEF Crash
  <2>. QED BY <2>1, <2>2 DEF Control, HoldsLock, RedoIsOld
<1>7. ASSUME \/ ListenerNext \/ SessionEnds \/ UNCHANGED vars
             \/ (\E b \in Block : ChainSwitch(b))
             \/ (\E t \in Tx : AddTransaction(t) \/ ListenerSave(t))
      PROVE  UNCHANGED <<old, pc, holder, gap>>
  BY <1>7, Zenon DEF ListenerNext, SessionEnds, vars, ListenerSave, ChainSwitch, AddTransaction
<1>8. ASSUME UNCHANGED <<old, pc, holder, gap>> PROVE Control'
  BY <1>8 DEF Control, HoldsLock, RedoIsOld, Critical
<1>. QED BY <1>1, <1>2, <1>3, <1>4, <1>5, <1>6, <1>7, <1>8, NextIs, Zenon DEF Goes, Pass

-----------------------------------------------------------------------------
(* What a pass has done, and what it has left to do *)

LEMMA Numbers ==
  ASSUME TypeOK
  PROVE  /\ HeightOf[tip] \in Nat /\ HeightOf[work.snap] \in Nat
         /\ point \in Nat /\ MaxReOrg \in Nat
         /\ work.begin \in Nat /\ work.end \in Nat /\ work.next \in Nat
         /\ work.height \in Nat \cup {-1}
         /\ \A t \in Tx : At[tip][t] \in Nat /\ At[work.snap][t] \in Nat
         /\ \A t \in Tx : At[work.snap][t] <= HeightOf[work.snap]
BY Constants, ChainAssumption DEF TypeOK, Works

CompleteThen(h) == \A t \in Tx \ late' : At[tip'][t] \in 1 .. h => rows'[t] = At[tip'][t]

\* A chain that agrees with the main chain up to h has the rows that it has.
LEMMA RowsFollow ==
  ASSUME TypeOK, NEW b \in Block, NEW g \in Int, NEW h \in Int, h <= g, Agree(tip, b, g),
         tip' = b, UNCHANGED <<rows, late>>, Complete(h)
  PROVE  CompleteThen(h)
<1>1. SUFFICES ASSUME NEW t \in Tx \ late, At[b][t] \in 1 .. h PROVE rows[t] = At[b][t]
  BY DEF CompleteThen
<1>2. At[b][t] \in Nat /\ At[tip][t] \in Nat
  BY Constants DEF TypeOK
<1>3. At[b][t] \in 1 .. g
  BY <1>1, <1>2
<1>4. At[tip][t] = At[b][t]
  BY <1>3 DEF Agree
<1>. QED BY <1>1, <1>4 DEF Complete

\* Rows that are written with the heights of the main chain take none away.
Improved ==
  /\ tip' = tip /\ gap' = gap
  /\ NoGap => \A t \in Tx \ late' :
       rows'[t] = At[tip][t] \/ (t \notin late /\ rows'[t] = rows[t])

LEMMA RowsImproved ==
  ASSUME NEW h, NoGap, Improved, Complete(h) PROVE CompleteThen(h)
BY DEF Complete, CompleteThen, Improved

LEMMA SwitchProgress ==
  ASSUME TypeOK, Progress, NEW b \in Block, ChainSwitch(b) PROVE Progress'
<1>1. /\ HeightOf[b] \in Nat /\ HeightOf[b] > HeightOf[tip] /\ tip' = b
      /\ Agree(tip, b, HeightOf[tip] - MaxReOrg)
      /\ UNCHANGED <<rows, point, pc, work, gap, late>>
  BY Constants DEF ChainSwitch
<1>2. ASSUME NEW h \in Int, h <= HeightOf[tip] - MaxReOrg, Complete(h) PROVE CompleteThen(h)
  BY <1>1, <1>2, Numbers, RowsFollow
<1>3. PointIsReached'
  BY <1>1, Numbers DEF Progress, PointIsReached
<1>4. PointIsSound'
  <2>1. point - MaxReOrg \in Int /\ point - MaxReOrg <= HeightOf[tip] - MaxReOrg
    BY Numbers DEF Progress, PointIsReached
  <2>2. Complete(point - MaxReOrg) => CompleteThen(point - MaxReOrg)
    BY <1>2, <2>1
  <2>. QED BY <1>1, <2>2 DEF Progress, PointIsSound, NoGap, Complete, CompleteThen
<1>5. BeginIsSound'
  <2>1. SUFFICES ASSUME NEW p \in Goroutines, pc[p] = "read"
                 PROVE  /\ work.begin = 0 \/ work.begin <= HeightOf[b] - MaxReOrg
                        /\ work.end <= HeightOf[b]
                        /\ work.height = -1
                        /\ NoGap => CompleteThen(work.begin)
    BY <1>1 DEF BeginIsSound, Depth, NoGap, Complete, CompleteThen
  <2>2. /\ work.begin = 0 \/ work.begin <= HeightOf[tip] - MaxReOrg
        /\ work.end <= HeightOf[tip] /\ work.height = -1
        /\ NoGap => Complete(work.begin)
    BY <2>1 DEF Progress, BeginIsSound, Depth
  <2>3. NoGap => CompleteThen(work.begin)
    <3>1. CASE work.begin = 0
      BY <1>1, <3>1, Numbers DEF CompleteThen
    <3>2. CASE work.begin # 0
      <4>1. work.begin \in Int BY Numbers
      <4>. QED BY <1>2, <2>2, <3>2, <4>1
    <3>. QED BY <3>1, <3>2
  <2>. QED BY <1>1, <2>2, <2>3, Numbers
<1>6. ASSUME NEW p \in Goroutines, Ranging(p)
      PROVE  /\ HeightOf[work.snap] <= HeightOf[tip]
             /\ Agree(work.snap, tip, Depth(work.snap))
             /\ Depth(work.snap) \in Int /\ Depth(work.snap) <= HeightOf[tip] - MaxReOrg
  BY <1>6, Numbers DEF Progress, SnapshotHolds, Depth
<1>7. SnapshotHolds'
  <2>1. SUFFICES ASSUME NEW p \in Goroutines, Ranging(p)
                 PROVE  HeightOf[work.snap] <= HeightOf[b] /\ Agree(work.snap, b, Depth(work.snap))
    BY <1>1 DEF Progress, SnapshotHolds, Ranging, Depth, Agree, NoGap
  <2>2. Agree(work.snap, b, Depth(work.snap))
    <3>. DEFINE d == Depth(work.snap)
                g == HeightOf[tip] - MaxReOrg
    <3>1. d \in Int /\ g \in Int /\ d <= g
      BY <1>6, <2>1, Numbers
    <3>2. Agree(work.snap, tip, d) /\ Agree(tip, b, g)
      BY <1>1, <1>6, <2>1
    <3>3. \A t \in Tx : At[work.snap][t] \in Nat /\ At[tip][t] \in Nat /\ At[b][t] \in Nat
      BY Numbers, Constants
    <3>. HIDE DEF d, g
    <3>4. Agree(work.snap, b, d)
      BY <3>1, <3>2, <3>3 DEF Agree
    <3>. QED BY <3>4 DEF d
  <2>. QED BY <1>1, <1>6, <2>1, <2>2, Numbers
<1>8. Covered'
  <2>1. SUFFICES ASSUME NEW p \in Goroutines, Ranging(p), NoGap, NEW t \in Tx \ late,
                        At[b][t] \in 1 .. Depth(work.snap), At[b][t] < work.next
                 PROVE  t \in work.pending \/ rows[t] = At[b][t]
    BY <1>1 DEF Covered, Ranging, Depth, NoGap
  <2>2. At[tip][t] = At[b][t]
    BY <1>1, <1>6, <2>1, Constants, Numbers DEF Agree
  <2>. QED BY <2>1, <2>2 DEF Progress, Covered
<1>9. StampIsDue'
  BY <1>1 DEF Progress, StampIsDue
<1>. QED BY <1>3, <1>4, <1>5, <1>7, <1>8, <1>9 DEF Progress

LEMMA RowsProgress ==
  ASSUME TypeOK, Progress, Improved, UNCHANGED <<point, pc, work>> PROVE Progress'
<1>1. tip' = tip /\ NoGap' = NoGap
  BY DEF Improved, NoGap
<1>2. PointIsSound'
  <2>1. NoGap /\ Complete(point - MaxReOrg) => CompleteThen(point - MaxReOrg)
    BY RowsImproved
  <2>. QED BY <1>1, <2>1 DEF Progress, PointIsSound, Complete, CompleteThen
<1>3. BeginIsSound'
  <2>1. NoGap /\ Complete(work.begin) => CompleteThen(work.begin)
    BY RowsImproved
  <2>. QED BY <1>1, <2>1 DEF Progress, BeginIsSound, Depth, Complete, CompleteThen
<1>4. SnapshotHolds'
  BY <1>1 DEF Progress, SnapshotHolds, Ranging, Depth, Agree
<1>5. Covered'
  BY <1>1 DEF Progress, Covered, Improved, Ranging, Depth
<1>6. PointIsReached' /\ StampIsDue'
  BY <1>1 DEF Progress, PointIsReached, StampIsDue
<1>. QED BY <1>2, <1>3, <1>4, <1>5, <1>6 DEF Progress

\* While one goroutine is in a pass, no other is in one: what is said of the
\* passes is said of its own.
LEMMA OwnProgress ==
  ASSUME TypeOK, Control, NEW p \in Goroutines, Critical(p),
         \A q \in Goroutines \ {p} : pc'[q] = pc[q],
         PointIsReached', PointIsSound',
         pc'[p] = "read" => FALSE,
         Ranging(p)' =>
           /\ HeightOf[work'.snap] <= HeightOf[tip'] /\ Agree(work'.snap, tip', Depth(work'.snap))
           /\ work'.end <= HeightOf[work'.snap]
           /\ work'.height < work'.next /\ work'.height <= HeightOf[work'.snap]
           /\ NoGap' => point' <= HeightOf[work'.snap] \/ point' <= MaxReOrg
           /\ NoGap' => \A t \in Tx \ late' :
                At[tip'][t] \in 1 .. Depth(work'.snap) /\ At[tip'][t] < work'.next
                => t \in work'.pending \/ rows'[t] = At[tip'][t],
         pc'[p] = "stamp" => work'.pending = {} /\ work'.end < work'.next
  PROVE  Progress'
<1>1. \A q \in Goroutines \ {p} : ~Critical(q)
  BY OneCritical
<1>2. \A q \in Goroutines \ {p} : pc'[q] # "read" /\ ~Ranging(q)' /\ pc'[q] # "stamp"
  BY <1>1 DEF Critical, Ranging
<1>3. BeginIsSound' BY <1>2 DEF BeginIsSound
<1>4. SnapshotHolds' BY <1>2 DEF SnapshotHolds, Depth, Agree
<1>5. Covered' BY <1>2 DEF Covered, Depth
<1>6. StampIsDue' BY <1>2 DEF StampIsDue
<1>. QED BY <1>3, <1>4, <1>5, <1>6 DEF Progress

\* What holds of a pass that goes through its range.
LEMMA RangingFacts ==
  ASSUME Progress, NEW p \in Goroutines, Ranging(p)
  PROVE  /\ HeightOf[work.snap] <= HeightOf[tip] /\ Agree(work.snap, tip, Depth(work.snap))
         /\ work.end <= HeightOf[work.snap]
         /\ work.height < work.next /\ work.height <= HeightOf[work.snap]
         /\ NoGap => point <= HeightOf[work.snap] \/ point <= MaxReOrg
         /\ NoGap => \A t \in Tx \ late :
              At[tip][t] \in 1 .. Depth(work.snap) /\ At[tip][t] < work.next
              => t \in work.pending \/ rows[t] = At[tip][t]
BY DEF Progress, SnapshotHolds, Covered

LEMMA PointFacts == ASSUME Progress, NoGap PROVE Complete(point - MaxReOrg)
BY DEF Progress, PointIsSound

LEMMA PointStays ==
  ASSUME Progress, UNCHANGED <<tip, rows, point, gap, late>>
  PROVE  PointIsReached' /\ PointIsSound'
BY DEF Progress, PointIsReached, PointIsSound, NoGap, Complete

LEMMA SnapshotProgress ==
  ASSUME TypeOK, Control, Progress, NEW p \in Goroutines, Snapshot(p) PROVE Progress'
<1>1. /\ pc[p] = "read" /\ Critical(p) /\ pc'[p] = "range"
      /\ \A q \in Goroutines \ {p} : pc'[q] = pc[q]
      /\ UNCHANGED <<tip, rows, point, gap, late>>
  BY Moved DEF Snapshot, Critical
<1>2. /\ work'.snap = tip /\ work'.next = work.begin /\ work'.end = work.end
      /\ work'.height = -1 /\ work.end <= HeightOf[tip] /\ (NoGap => Complete(work.begin))
  BY <1>1, SnapshotWork DEF Progress, BeginIsSound
<1>3. PointIsReached' /\ PointIsSound'
  BY <1>1, PointStays
<1>4. Agree(tip, tip, Depth(tip))
  BY DEF Agree
<1>5. NoGap' => \A t \in Tx \ late : At[tip][t] \in 1 .. Depth(tip) /\ At[tip][t] < work.begin
                  => rows[t] = At[tip][t]
  BY Numbers, <1>1, <1>2 DEF Complete, Depth, NoGap
<1>6. point <= HeightOf[tip]
  BY DEF Progress, PointIsReached
<1>. QED BY <1>1, <1>2, <1>3, <1>4, <1>5, <1>6, Numbers, OwnProgress

LEMMA TicketRowsImprove ==
  ASSUME TypeOK, NEW S, rows' = TicketRows(S), UNCHANGED <<tip, gap, late>> PROVE Improved
BY DEF TicketRows, Improved

LEMMA DecodeProgress ==
  ASSUME TypeOK, Control, Progress, NEW p \in Goroutines, DecodeBlock(p) \/ DecodeUnmined(p)
  PROVE  Progress'
<1>1. /\ Critical(p) /\ Ranging(p) /\ pc[p] = "range"
      /\ UNCHANGED <<tip, point, pc, gap, late>>
  BY DEF DecodeBlock, DecodeUnmined, Decode, Critical, Ranging
<1>2. PICK S \in SUBSET Tx : /\ Decode(p, S)
                             /\ work.next <= LastHeight =>
                                  \A t \in Tx : At[work.snap][t] = work.next /\ work.next > 0
                                                => t \in S
                             /\ work.next > LastHeight =>
                                  work.begin = 0 /\ work.next = LastHeight + 1
  <2>1. CASE DecodeBlock(p)
    <3>. DEFINE S == {t \in Tx : At[work.snap][t] = work.next /\ work.next > 0}
    <3>1. Decode(p, S) /\ work.next <= LastHeight /\ S \in SUBSET Tx
      BY <2>1 DEF DecodeBlock
    <3>2. LastHeight \in Nat
      BY Numbers DEF LastHeight
    <3>. QED BY <3>1, <3>2, Numbers
  <2>2. CASE DecodeUnmined(p)
    <3>1. /\ Decode(p, work.unmined) /\ work.begin = 0 /\ work.next = LastHeight + 1
          /\ work.unmined \in SUBSET Tx
      BY <2>2 DEF DecodeUnmined, TypeOK, Works
    <3>2. LastHeight \in Nat
      BY Numbers DEF LastHeight
    <3>. QED BY <3>1, <3>2, Numbers
  <2>. QED BY <2>1, <2>2
<1>3. /\ work'.end = work.end /\ work'.snap = work.snap /\ work'.next = work.next + 1
      /\ work'.pending = work.pending \cup S
      /\ work'.height = work.height \/ (work.next <= LastHeight /\ work'.height = work.next)
  BY <1>2, DecodeWork
<1>4. Improved
  BY <1>1, <1>2, TicketRowsImprove DEF Decode
<1>5. /\ PointIsReached'
      /\ PointIsSound'
  <2>1. NoGap => CompleteThen(point - MaxReOrg)
    BY <1>4, PointFacts, RowsImproved
  <2>2. PointIsReached'
    BY <1>1 DEF Progress, PointIsReached
  <2>. QED BY <1>1, <2>1, <2>2 DEF PointIsSound, NoGap, Complete, CompleteThen
<1>6. LastHeight <= HeightOf[work.snap] /\ LastHeight \in Nat
  BY <1>1, RangingFacts, Numbers DEF LastHeight
<1>7. work'.height < work'.next /\ work'.height <= HeightOf[work.snap]
  BY <1>1, <1>3, <1>6, RangingFacts, Numbers
<1>8. ASSUME NoGap, NEW t \in Tx \ late, At[tip][t] \in 1 .. Depth(work.snap),
             At[tip][t] < work.next + 1
      PROVE  t \in work.pending \cup S \/ rows'[t] = At[tip][t]
  <2>1. CASE At[tip][t] < work.next
    BY <1>1, <1>4, <1>8, <2>1, RangingFacts DEF Improved
  <2>2. CASE At[tip][t] = work.next
    <3>1. At[work.snap][t] = work.next /\ work.next > 0
      BY <1>1, <1>8, <2>2, RangingFacts, Numbers DEF Agree
    <3>2. work.next <= HeightOf[work.snap]
      BY <1>8, <2>2, Numbers DEF Depth
    <3>3. work.next <= LastHeight
      BY <1>2, <1>6, <3>2, Numbers DEF LastHeight
    <3>. QED BY <1>2, <3>1, <3>3
  <2>. QED BY <1>8, <2>1, <2>2, Numbers
<1>9. NoGap' = NoGap
  BY <1>1 DEF NoGap
<1>. QED BY <1>1, <1>3, <1>5, <1>7, <1>8, <1>9, RangingFacts, OwnProgress

LEMMA ResolveProgress ==
  ASSUME TypeOK, Control, Progress, NEW p \in Goroutines, Resolve(p) PROVE Progress'
<1>1. /\ pc[p] = "range" /\ Critical(p) /\ Ranging(p) /\ pc'[p] = "commit"
      /\ \A q \in Goroutines \ {p} : pc'[q] = pc[q]
      /\ UNCHANGED <<tip, rows, point, gap, late>>
  BY Moved DEF Resolve, Critical, Ranging
<1>2. PointIsReached' /\ PointIsSound' /\ NoGap' = NoGap
  BY <1>1, PointStays DEF NoGap
<1>. QED BY <1>1, <1>2, ResolveWork, RangingFacts, OwnProgress

LEMMA CommitProgress ==
  ASSUME TypeOK, Control, Progress, NEW p \in Goroutines, CommitBatch(p) PROVE Progress'
<1>1. /\ pc[p] = "commit" /\ Critical(p) /\ Ranging(p)
      /\ pc'[p] = IF Ranged THEN "stamp" ELSE "range"
      /\ \A q \in Goroutines \ {p} : pc'[q] = pc[q]
      /\ tip' = tip /\ point' = IF work.height >= 0 THEN work.height ELSE point
      /\ rows' = [t \in Tx |-> IF t \in work.pending THEN At[work.snap][t] ELSE rows[t]]
      /\ gap' = gap /\ late' = late \ {t \in work.pending : At[work.snap][t] = At[tip][t]}
  BY Moved DEF CommitBatch, Critical, Ranging
<1>2. /\ work'.begin = work.begin /\ work'.end = work.end /\ work'.snap = work.snap
      /\ work'.next = work.next /\ work'.pending = {} /\ work'.height = -1
  BY CommitWork
<1>3. ASSUME NEW t \in Tx \ late', At[tip][t] \in 1 .. Depth(work.snap),
             t \in work.pending \/ t \in late \/ rows[t] = At[tip][t]
      PROVE  rows'[t] = At[tip][t]
  <2>1. At[work.snap][t] = At[tip][t]
    BY <1>1, <1>3, RangingFacts DEF Agree
  <2>. QED BY <1>1, <1>3, <2>1
<1>4. ASSUME NoGap, NEW t \in Tx \ late', At[tip][t] \in 1 .. Depth(work.snap),
             At[tip][t] < work.next
      PROVE  rows'[t] = At[tip][t]
  BY <1>1, <1>3, <1>4, RangingFacts
<1>5. PointIsReached'
  BY <1>1, RangingFacts, Numbers DEF Progress, PointIsReached
<1>6. PointIsSound'
  <2>1. SUFFICES ASSUME NoGap, NEW t \in Tx \ late', At[tip][t] \in 1 .. point' - MaxReOrg
                 PROVE  rows'[t] = At[tip][t]
    BY <1>1 DEF PointIsSound, NoGap, Complete
  <2>2. CASE work.height >= 0
    <3>1. At[tip][t] \in 1 .. Depth(work.snap) /\ At[tip][t] < work.next
      BY <1>1, <2>1, <2>2, RangingFacts, Numbers DEF Depth
    <3>. QED BY <1>4, <2>1, <3>1
  <2>3. CASE ~(work.height >= 0)
    <3>1. At[tip][t] \in 1 .. Depth(work.snap)
      BY <1>1, <2>1, <2>3, RangingFacts, Numbers DEF Depth
    <3>2. t \in late \/ rows[t] = At[tip][t]
      BY <1>1, <2>1, <2>3, PointFacts DEF Complete
    <3>. QED BY <1>3, <3>1, <3>2
  <2>. QED BY <2>2, <2>3
<1>7. NoGap' = NoGap /\ (NoGap => point' <= HeightOf[work.snap] \/ point' <= MaxReOrg)
  BY <1>1, RangingFacts DEF NoGap
<1>8. pc'[p] = "stamp" => work.end < work.next
  <2>1. Ranged => work.next > LastHeight
    BY Numbers DEF Ranged, LastHeight
  <2>2. LastHeight >= work.end
    BY <1>1, RangingFacts, Numbers DEF LastHeight
  <2>3. LastHeight \in Nat
    BY Numbers DEF LastHeight
  <2>. QED BY <1>1, <2>1, <2>2, <2>3, Numbers
<1>9. pc'[p] # "read"
  BY <1>1
<1>10. work'.height < work'.next /\ work'.height <= HeightOf[work'.snap]
  BY <1>2, Numbers
<1>. QED
  BY <1>1, <1>2, <1>4, <1>5, <1>6, <1>7, <1>8, <1>9, <1>10, RangingFacts, OwnProgress

LEMMA StampProgress ==
  ASSUME TypeOK, Control, Progress, NEW p \in Goroutines, Stamp(p) PROVE Progress'
<1>1. /\ pc[p] = "stamp" /\ Critical(p) /\ Ranging(p)
      /\ pc'[p] \in {"version", "idle"}
      /\ \A q \in Goroutines \ {p} : pc'[q] = pc[q]
      /\ point' \in {work.end, point} /\ UNCHANGED <<tip, rows, gap, late>>
  BY Moved DEF Stamp, Critical, Ranging
<1>2. work.pending = {} /\ work.end < work.next
  BY <1>1 DEF Progress, StampIsDue
<1>3. PointIsReached'
  BY <1>1, RangingFacts, Numbers DEF Progress, PointIsReached
<1>4. PointIsSound'
  <2>1. SUFFICES ASSUME NoGap, point' = work.end, NEW t \in Tx \ late,
                        At[tip][t] \in 1 .. work.end - MaxReOrg
                 PROVE  rows[t] = At[tip][t]
    BY <1>1, PointStays DEF PointIsSound, NoGap, Complete
  <2>2. At[tip][t] \in 1 .. Depth(work.snap) /\ At[tip][t] < work.next
    BY <1>1, <1>2, <2>1, RangingFacts, Numbers DEF Depth
  <2>. QED BY <1>1, <1>2, <2>1, <2>2, RangingFacts
<1>5. pc'[p] # "read" /\ ~Ranging(p)' /\ pc'[p] # "stamp"
  BY <1>1 DEF Ranging
<1>. QED BY <1>1, <1>3, <1>4, <1>5, OwnProgress

\* A pass that is given up, or over, leaves the point and the rows as they are.
LEMMA OverProgress ==
  ASSUME TypeOK, Control, Progress, NEW p \in Goroutines, SaveVersion(p) \/ Abort(p)
  PROVE  Progress'
<1>1. /\ Critical(p) /\ pc'[p] = "idle"
      /\ \A q \in Goroutines \ {p} : pc'[q] = pc[q]
      /\ UNCHANGED <<tip, point, rows, gap, late>>
  BY Moved DEF SaveVersion, Abort, Critical
<1>2. PointIsReached' /\ PointIsSound'
  BY <1>1, PointStays
<1>3. pc'[p] # "read" /\ ~Ranging(p)' /\ pc'[p] # "stamp"
  BY <1>1 DEF Ranging
<1>. QED BY <1>1, <1>2, <1>3, OwnProgress

LEMMA LockProgress ==
  ASSUME TypeOK, Control, Progress, NEW p \in Goroutines, Lock(p) PROVE Progress'
<1>1. /\ pc'[p] = "read" /\ holder = NoPass
      /\ \A q \in Goroutines \ {p} : pc'[q] = pc[q]
      /\ UNCHANGED <<tip, rows, point>>
      /\ IndexingStart = 0 \/ (NoGap' => NoGap /\ late' = late)
  BY Moved DEF Lock, NoGap
<1>2. \A q \in Goroutines : ~Critical(q)
  BY <1>1, FreeLock
<1>3. \A q \in Goroutines : ~Ranging(q)' /\ pc'[q] # "stamp"
  BY <1>1, <1>2 DEF Ranging, Critical
<1>4. /\ IndexingStart \in Nat /\ point - MaxReOrg \in Int
      /\ point - MaxReOrg <= IndexingStart
      /\ IndexingStart = 0 \/ IndexingStart = point - MaxReOrg
  BY Numbers DEF IndexingStart
<1>5. work'.begin = IndexingStart /\ work'.end = HeightOf[tip] /\ work'.height = -1
  BY LockWork
<1>6. NoGap' => CompleteThen(IndexingStart)
  <2>1. CASE IndexingStart = 0
    BY <1>1, <2>1, Numbers DEF CompleteThen
  <2>2. CASE IndexingStart # 0
    BY <1>1, <1>4, <2>2, PointFacts DEF Complete, CompleteThen
  <2>. QED BY <2>1, <2>2
<1>7. PointIsReached' /\ PointIsSound'
  <2>1. NoGap' => CompleteThen(point - MaxReOrg)
    BY <1>1, <1>4, <1>6, Numbers DEF CompleteThen
  <2>. QED BY <1>1, <2>1 DEF Progress, PointIsReached, PointIsSound, Complete, CompleteThen
<1>8. BeginIsSound'
  <2>1. IndexingStart = 0 \/ IndexingStart <= HeightOf[tip] - MaxReOrg
    BY Numbers DEF IndexingStart, Progress, PointIsReached
  <2>2. \A q \in Goroutines \ {p} : pc'[q] # "read"
    BY <1>1, <1>2 DEF Critical
  <2>. QED
    BY <1>1, <1>5, <1>6, <2>1, <2>2, Numbers DEF BeginIsSound, Depth, Complete, CompleteThen
<1>9. SnapshotHolds' /\ Covered' /\ StampIsDue'
  BY <1>3 DEF SnapshotHolds, Covered, StampIsDue
<1>. QED BY <1>7, <1>8, <1>9 DEF Progress

\* A goroutine outside the lock disturbs no pass, unless it leaves a gap.
LEMMA OthersProgress ==
  ASSUME TypeOK, Progress, NEW p \in Goroutines,
         ~Critical(p)', \A q \in Goroutines \ {p} : pc'[q] = pc[q],
         UNCHANGED <<tip, work>>, PointIsReached',
         NoGap' => /\ NoGap /\ UNCHANGED <<rows, late>>
                   /\ point' <= point \/ point' <= MaxReOrg,
         point' \in Nat
  PROVE  Progress'
<1>1. pc'[p] # "read" /\ ~Ranging(p)' /\ pc'[p] # "stamp"
  BY DEF Critical, Ranging
<1>2. PointIsSound'
  <2>1. SUFFICES ASSUME NoGap', NEW t \in Tx \ late, At[tip][t] \in 1 .. point' - MaxReOrg
                 PROVE  rows[t] = At[tip][t]
    BY DEF PointIsSound, Complete
  <2>2. At[tip][t] \in 1 .. point - MaxReOrg
    BY <2>1, Numbers
  <2>. QED BY <2>1, <2>2, PointFacts DEF Complete
<1>3. BeginIsSound'
  BY <1>1 DEF Progress, BeginIsSound, Complete, Depth
<1>4. SnapshotHolds'
  <2>1. ASSUME NEW q \in Goroutines, Ranging(q)'
        PROVE  /\ Ranging(q)
               /\ NoGap' => point' <= HeightOf[work.snap] \/ point' <= MaxReOrg
    <3>1. Ranging(q)
      BY <1>1, <2>1 DEF Ranging
    <3>. QED BY <3>1, Numbers DEF Progress, SnapshotHolds
  <2>. QED BY <2>1 DEF Progress, SnapshotHolds, Depth, Agree
<1>5. Covered'
  BY <1>1 DEF Progress, Covered, Ranging, Depth
<1>6. StampIsDue'
  BY <1>1 DEF Progress, StampIsDue
<1>. QED BY <1>2, <1>3, <1>4, <1>5, <1>6 DEF Progress

LEMMA RescanProgress ==
  ASSUME TypeOK, Progress, NEW p \in Goroutines, NEW h \in RescanHeights, RescanEnds(p, h)
  PROVE  Progress'
<1>1. \E l \in {"start", "drop"} : Goto(p, l)
  BY DEF RescanEnds
<1>2. ~Critical(p)' /\ \A q \in Goroutines \ {p} : pc'[q] = pc[q]
  BY <1>1, Moved DEF Critical
<1>3. h \in Nat /\ h <= HeightOf[tip] /\ UNCHANGED <<tip, work, rows>>
  BY Constants DEF RescanEnds
<1>4. point' = point \/ point' = h
  BY DEF RescanEnds
<1>5. PointIsReached' /\ point' \in Nat
  BY <1>3, <1>4, Numbers DEF Progress, PointIsReached
<1>6. NoGap' => NoGap /\ late' = late /\ (h <= point \/ h <= MaxReOrg)
  BY <1>3, Numbers DEF RescanEnds, NoGap
<1>. QED BY <1>2, <1>3, <1>4, <1>5, <1>6, Numbers, OthersProgress

LEMMA ClearProgress ==
  ASSUME TypeOK, Progress, NEW p \in Goroutines,
         SyncedWallet(p) \/ CheckVersion(p) \/ Drop(p) \/ Reset(p) \/ ClearFails(p)
  PROVE  Progress'
<1>1. \E l \in {"start", "drop", "reset", "lock", "idle"} : Goto(p, l)
  BY DEF SyncedWallet, CheckVersion, Drop, Reset, ClearFails
<1>2. ~Critical(p)' /\ \A q \in Goroutines \ {p} : pc'[q] = pc[q]
  BY <1>1, Moved DEF Critical
<1>3. UNCHANGED <<tip, work>> /\ (point' = point \/ point' = 0)
  BY DEF SyncedWallet, CheckVersion, Drop, Reset, ClearFails
<1>4. NoGap' => NoGap /\ UNCHANGED <<rows, late>>
  <2>1. CASE Drop(p)
    BY <2>1 DEF Drop, NoGap
  <2>2. CASE ~Drop(p)
    BY <2>2 DEF SyncedWallet, CheckVersion, Reset, ClearFails, NoGap
  <2>. QED BY <2>1, <2>2
<1>5. PointIsReached' /\ point' \in Nat
  BY <1>3, Numbers DEF Progress, PointIsReached
<1>. QED BY <1>2, <1>3, <1>4, <1>5, Numbers, OthersProgress

LEMMA CrashProgress ==
  ASSUME TypeOK, Progress, Crash PROVE Progress'
<1>1. /\ \A p \in Goroutines : pc'[p] = "idle"
      /\ UNCHANGED <<tip, rows, point, gap, late>>
  BY DEF Crash
<1>2. PointIsReached' /\ PointIsSound'
  BY <1>1, PointStays
<1>3. \A q \in Goroutines : pc'[q] # "read" /\ ~Ranging(q)' /\ pc'[q] # "stamp"
  BY <1>1 DEF Ranging
<1>. QED BY <1>2, <1>3 DEF Progress, BeginIsSound, SnapshotHolds, Covered, StampIsDue

LEMMA ListenerImproves ==
  ASSUME TypeOK, NEW t \in Tx, ListenerSave(t) PROVE Improved
<1>1. /\ tip' = tip /\ gap' = gap
      /\ rows' = [TicketRows({t}) EXCEPT ![t] = At[Head(notes).tip][t]]
      /\ late' = IF gap = "none" /\ At[Head(notes).tip][t] # At[tip][t]
                 THEN late \cup {t} ELSE late \ {t}
  BY Zenon DEF ListenerSave
<1>. DEFINE a == At[Head(notes).tip][t]
<1>2. /\ rows' = [TicketRows({t}) EXCEPT ![t] = a]
      /\ late' = IF gap = "none" /\ a # At[tip][t] THEN late \cup {t} ELSE late \ {t}
  BY <1>1
<1>. HIDE DEF a
<1>3. TicketRows({t}) = [u \in Tx |-> IF u \in TicketsOf({t}) THEN At[tip][u] ELSE rows[u]]
  BY DEF TicketRows
<1>4. ASSUME NoGap, NEW u \in Tx \ late'
      PROVE  rows'[u] = At[tip][u] \/ (u \notin late /\ rows'[u] = rows[u])
  BY <1>2, <1>3, <1>4 DEF NoGap
<1>. QED BY <1>1, <1>4 DEF Improved

-----------------------------------------------------------------------------

LEMMA InitInv == Init => IInv
<1>. SUFFICES ASSUME Init PROVE IInv
  OBVIOUS
<1>1. /\ \A p \in Goroutines : pc[p] = "idle"
      /\ point = 0 /\ tip = Genesis /\ gap = "none"
  BY DEF Init
<1>2. Control
  BY <1>1 DEF Control, HoldsLock, RedoIsOld, Critical
<1>3. Progress
  <2>1. PointIsReached /\ PointIsSound
    BY <1>1, ChainAssumption, IndexAssumption DEF PointIsReached, PointIsSound, Complete
  <2>. QED
    BY <1>1, <2>1 DEF Progress, BeginIsSound, SnapshotHolds, Covered, StampIsDue, Ranging
<1>. QED BY <1>2, <1>3, InitTyped DEF IInv

LEMMA NextInv == ASSUME IInv, [Next]_vars PROVE IInv'
<1>1. TypeOK /\ Control /\ Progress
  BY DEF IInv
<1>2. TypeOK' /\ Control'
  BY <1>1, TypeHolds, ControlHolds
<1>3. ASSUME NEW p \in Goroutines, Goes(p) PROVE Progress'
  BY <1>1, <1>3, RescanProgress, ClearProgress, LockProgress, SnapshotProgress,
     DecodeProgress, ResolveProgress, CommitProgress, StampProgress, OverProgress, Zenon
  DEF Goes, Pass
<1>4. ASSUME NEW t \in Tx, ListenerSave(t) PROVE Progress'
  <2>1. Improved /\ UNCHANGED <<point, pc, work>>
    BY <1>1, <1>4, ListenerImproves DEF ListenerSave
  <2>. QED BY <1>1, <2>1, RowsProgress
<1>5. ASSUME \/ ListenerNext \/ SessionEnds \/ UNCHANGED vars
             \/ \E t \in Tx : AddTransaction(t)
      PROVE  Progress'
  <2>1. UNCHANGED <<tip, rows, point, pc, work, gap, late>>
    BY <1>5, Zenon DEF ListenerNext, SessionEnds, vars, AddTransaction
  <2>2. Improved
    BY <2>1 DEF Improved
  <2>. QED BY <1>1, <2>1, <2>2, RowsProgress
<1>6. Progress'
  BY <1>1, <1>3, <1>4, <1>5, SwitchProgress, CrashProgress, NextIs, Zenon
<1>. QED BY <1>2, <1>6 DEF IInv

LEMMA InvNothingLost == IInv => NothingLost
BY DEF IInv, Control, RedoIsOld, Progress, PointIsSound, NoGap, NothingLost

\* Each transaction of the main chain at or below the height the next pass begins
\* at has its row: for any chain, any goroutines that index and rescan at once, any
\* heights that rescans start from, any size of batches and depth of reorganisations,
\* with passes given up, writes that fail and programs stopped at any step.  It says
\* nothing of an index with a gap, and nothing of rows saved from a report the chain
\* has moved on from: both until a pass begins at 0.  A gap is left by a rescan's
\* clear, by any clear under a pass, by a pass that begins above rows cleared for a
\* newer parser, and by a rescan that sets the point ahead.
THEOREM NothingIsLost == Spec => []NothingLost
<1>1. IInv /\ [Next]_vars => IInv'
  BY NextInv
<1>. QED BY <1>1, InitInv, InvNothingLost, PTL DEF Spec
=============================================================================
