------------------------------ MODULE TxStore ------------------------------
(***************************************************************************)
(* The wallet's transaction store and everything that writes it: the chain *)
(* switches of the syncer, the rescan, the transactions the network relays *)
(* and the ones the user abandons.  The store keeps the main chain, the    *)
(* coins (credits) the chain gives the wallet and which of them are spent, *)
(* an archive for blocks the next block disapproved, the transactions no   *)
(* block holds yet, and a marker: the last block whose transactions have   *)
(* been looked for.                                                        *)
(*                                                                         *)
(* Source: src/_vendored/monetarium-wallet/wallet: udb/txmined.go,         *)
(* udb/txunmined.go, chainntfns.go, rescan.go, and spv/sync.go, which says *)
(* when each of them runs.                                                 *)
(*                                                                         *)
(* A chain switch or a batch of rescanned blocks is one transaction of the *)
(* database: `task' is what it has left to do, `db' what it has written,   *)
(* `disk' what is committed.  One action is one method of the store.       *)
(*                                                                         *)
(* The chains the network may serve are a tree of blocks, given by the     *)
(* constants.  A coin is named by its outpoint, and by the block that holds*)
(* it where a bucket's key has the block.                                  *)
(***************************************************************************)
EXTENDS Integers, Sequences, FiniteSets

CONSTANTS
  Block, Genesis, Tx, Outpoint, None,
  ChainTo,     \* block -> the chain from the child of genesis to it
  Fetched,     \* ends of the chains peers serve when a session starts
  Announced,   \* ends of the chains they announce to one that is up
  TxsOf,       \* block -> the wallet's transactions in it, in order
  Approves,    \* blocks whose votes approve their parent's regular tree
  StakeDiff,   \* block -> price of a ticket
  Inputs,      \* transaction -> outpoints it spends, a stakebase left out
  Outputs,     \* transaction -> its outputs
  Owned,       \* outputs that pay the wallet
  Ska,         \* outputs in another coin, SKA: their amount of VAR is 0
  Worth,       \* set of outputs -> atoms of VAR it adds to the mined balance
  Coinbase, Ticket, Vote,  \* kinds of transaction; the others are regular
  Price,       \* ticket -> price it pays
  VotesOn,     \* vote -> block
  Expiry,      \* transaction -> height it expires at, 0 for never
  MaxBlocksPerRescan

Chains == Seq(Block \ {Genesis})

ASSUME TreeAssumption ==
  /\ Genesis \in Block /\ None \notin Block \cup Tx
  /\ ChainTo \in [Block -> Chains] /\ ChainTo[Genesis] = <<>>
  /\ \A b \in Block \ {Genesis} :
       ChainTo[b] # <<>> /\ ChainTo[b][Len(ChainTo[b])] = b
  /\ MaxBlocksPerRescan \in Nat \ {0}
  /\ TxsOf \in [Block -> Seq(Tx)]
  /\ Approves \cup Fetched \cup Announced \subseteq Block

\* A header names its parent: the chain to a block is that of its parent and it.
ASSUME ParentAssumption ==
  \A b \in Block : \A i \in DOMAIN ChainTo[b] :
    ChainTo[ChainTo[b][i]] = SubSeq(ChainTo[b], 1, i)

ASSUME TxAssumption ==
  /\ Inputs \in [Tx -> SUBSET Outpoint] /\ Outputs \in [Tx -> SUBSET Outpoint]
  /\ \A t, u \in Tx : t # u => Outputs[t] \cap Outputs[u] = {}
  /\ Worth \in [SUBSET Outpoint -> Nat]
  /\ \A S, T \in SUBSET Outpoint :
       S \cap T = {} => Worth[S \cup T] = Worth[S] + Worth[T]
  /\ Owned \cup Ska \subseteq Outpoint
  /\ Coinbase \cup Ticket \cup Vote \subseteq Tx

VARIABLES
  db,       \* the store as the open database transaction sees it
  disk,     \* the store as it is committed
  task,     \* the open database transaction
  phase,    \* of the sync session: "headers", "rescan" or "up"
  rescan    \* the rescan under way

vars == <<db, disk, task, phase, rescan>>

Coins == Outpoint \X Block
Debits == [tx : Tx, block : Block, out : Outpoint, credit : Block]

-----------------------------------------------------------------------------
(* What the constants say. *)

Regular == Tx \ (Ticket \cup Vote)
MinedTxs(b) == {TxsOf[b][i] : i \in DOMAIN TxsOf[b]}
Height(b) == Len(ChainTo[b])
Last(s) == s[Len(s)]

\* How many blocks two chains have in common.
CommonHeight(c, e) == Cardinality({i \in DOMAIN c \cap DOMAIN e : c[i] = e[i]})

\* What a chain gives the wallet.
\* t counts in the i-th block of chain c: the next block did not disapprove it.
Counts(c, i, t) ==
  /\ t \in MinedTxs(c[i])
  /\ t \in Regular => i = Len(c) \/ c[i + 1] \in Approves
Creation(c, o) == {i \in DOMAIN c : \E t \in Tx : o \in Outputs[t] /\ Counts(c, i, t)}
SpentOn(c, o) == \E i \in DOMAIN c, t \in Tx : o \in Inputs[t] /\ Counts(c, i, t)
CoinBlock(c, o) ==
  IF o \in Owned /\ Creation(c, o) # {} /\ ~SpentOn(c, o)
  THEN c[CHOOSE i \in Creation(c, o) : TRUE] ELSE None

-----------------------------------------------------------------------------
(* What the store relies on: chains of valid blocks, and the order they come in. *)

Line(x) == {ChainTo[x][i] : i \in 1 .. Height(x)}

\* While sessions start, no chain comes back that another replaced: what an
\* earlier chain shares with a later one, the chain between them has too.
NoReturn ==
  \A c, e \in Fetched, m \in Block :
    Height(m) < Height(c) /\ Height(c) < Height(e)
      => Line(m) \cap Line(e) \subseteq Line(c)

Precedes(b, t, u) ==
  \E i, j \in DOMAIN TxsOf[b] : i < j /\ TxsOf[b][i] = t /\ TxsOf[b][j] = u

\* A transaction is in a block once, counts once in a chain, is the only one to
\* spend its inputs, and comes after those whose outputs it spends.  A coinbase
\* alone spends nothing.
ValidChains ==
  /\ \A b \in Block : \A i, j \in DOMAIN TxsOf[b] : TxsOf[b][i] = TxsOf[b][j] => i = j
  /\ \A t \in Regular \ Coinbase : Inputs[t] # {}
  /\ \A x \in Block : LET chain == ChainTo[x] IN
       \A i \in DOMAIN chain, t \in Tx : Counts(chain, i, t) =>
         /\ \A j \in DOMAIN chain, u \in Tx :
              Counts(chain, j, u) /\ (u = t \/ Inputs[t] \cap Inputs[u] # {}) => u = t /\ j = i
         /\ \A u \in Tx : Inputs[t] \cap Outputs[u] \cap Owned # {} =>
              \E j \in DOMAIN chain :
                 Counts(chain, j, u) /\ (j < i \/ (j = i /\ Precedes(chain[i], u, t)))

Disapproved(b) == \E x \in Block \ Approves : ChainTo[x] = Append(ChainTo[b], x)

\* No regular transaction of a disapproved block spends an output of that block.
NoSpendsWithin ==
  \A b \in Block : Disapproved(b) =>
    \A t \in MinedTxs(b) \cap Regular, u \in MinedTxs(b) :
      Inputs[t] \cap Outputs[u] \cap Owned = {}

\* The outputs of what may be unmined, and what tickets spend.
Delicate ==
  {o \in Outpoint : \/ \E t \in Tx \ Coinbase : o \in Outputs[t]
                   \/ \E t \in Ticket : o \in Inputs[t]}

\* What a transaction of a disapproved block spends of these no other spends, and no
\* ticket spends its coinbase.  What tickets spend is the wallet's.  A vote is in a
\* block above the one it votes on.
NoDisputes ==
  /\ \A b \in Block : Disapproved(b) =>
       \A t \in MinedTxs(b) \cap Regular :
         /\ \A u \in Tx \ {t} : Inputs[t] \cap Inputs[u] \cap Delicate = {}
         /\ t \in Coinbase => \A u \in Ticket : Inputs[u] \cap Outputs[t] = {}
  /\ \A t \in Ticket, u \in Tx : Inputs[t] \cap Outputs[u] \subseteq Owned
  /\ \A b \in Block : \A t \in MinedTxs(b) \cap Vote :
       VotesOn[t] \in Block /\ Height(VotesOn[t]) < Height(b)

-----------------------------------------------------------------------------
(* The store. *)

InitStore ==
  [chain |-> <<>>, marker |-> Genesis, invalid |-> {}, records |-> {},
   credits |-> {}, spent |-> {}, debits |-> {},
   unspent |-> [o \in Outpoint |-> None],
   invCredits |-> {}, invDebits |-> {},
   unmined |-> {}, unminedInputs |-> [o \in Outpoint |-> None],
   unminedCredits |-> {}, balance |-> 0]

InChain(d, b) == \E i \in DOMAIN d.chain : d.chain[i] = b
Tip(d) == IF d.chain = <<>> THEN Genesis ELSE Last(d.chain)
Recorded(d, b) == {t \in Tx : <<t, b>> \in d.records}
Creates(t, c) == c[1] \in Outputs[t]

\* T, and the unmined transactions that must go with it: each spends an output
\* of another one.
Closed(d, S) ==
  \A t \in S : \A o \in Outputs[t] :
    d.unminedInputs[o] \in d.unmined => d.unminedInputs[o] \in S
\* Mutant of SpendChains: the spenders of what goes stay.
OnlyThem(d, T) == T

SpendChains(d, T) ==
  LET all == T \cup d.unmined
  IN  {t \in all : \A S \in SUBSET all : T \subseteq S /\ Closed(d, S) => t \in S}

\* Mutant of RemoveUnconfirmed: what they spend stays marked.
RemoveKeepsMarks(d, T) ==
  LET gone == SpendChains(d, T)
  IN  [d EXCEPT
        !.unmined = @ \ gone,
        !.unminedCredits = {o \in @ : \A t \in gone : o \notin Outputs[t]}]

RemoveUnconfirmed(d, T) ==
  LET gone == SpendChains(d, T)
  IN  [d EXCEPT
        !.unmined = @ \ gone,
        !.unminedCredits = {o \in @ : \A t \in gone : o \notin Outputs[t]},
        !.unminedInputs =
          [o \in Outpoint |->
            IF \E t \in gone : o \in Inputs[t] THEN None ELSE @[o]]]

\* The unmined transactions that spend what t spends.
DoubleSpends(d, t) == {d.unminedInputs[o] : o \in Inputs[t]} \ {None}

\* A transaction no block holds, with the credits for its outputs.
InsertMemPoolTx(d, t) ==
  [d EXCEPT
    !.unmined = @ \cup {t},
    !.unminedInputs = [o \in Outpoint |-> IF o \in Inputs[t] THEN t ELSE @[o]],
    !.unminedCredits = @ \cup (Outputs[t] \cap Owned)]

HasValidInputs(d, t) ==
  \A o \in Inputs[t] : d.unspent[o] # None \/ o \in d.unminedCredits

NoLongerBelongs(d, t) ==
  \/ Expiry[t] # 0 /\ Expiry[t] <= Len(d.chain)
  \/ t \in Ticket /\ Price[t] # StakeDiff[Tip(d)]
  \/ t \in Vote /\ VotesOn[t] # Tip(d)
  \/ t \in Regular /\ ~HasValidInputs(d, t)

PruneUnmined(d) ==
  RemoveUnconfirmed(d, {t \in d.unmined : NoLongerBelongs(d, t)})

\* The regular tree of block b is disapproved: archive its credits and give
\* back what it spent.
StakeInvalidate(d, b) ==
  LET txs == Recorded(d, b) \cap Regular
      moved == {c \in d.credits : c[2] = b /\ \E t \in txs : Creates(t, c)}
      debits == {x \in d.debits : x.block = b /\ x.tx \in txs}
  IN  [d EXCEPT
        !.invalid = @ \cup {b},
        !.credits = @ \ moved, !.invCredits = @ \cup moved,
        !.debits = @ \ debits, !.invDebits = @ \cup debits,
        !.spent = @ \ {<<x.out, x.credit>> : x \in {y \in debits : y.credit # b}},
        !.unspent =
          [o \in Outpoint |->
            IF \E x \in debits : x.out = o
            THEN (CHOOSE x \in debits : x.out = o).credit
            ELSE IF \E c \in moved : c[1] = o THEN None ELSE @[o]],
        !.balance = @ - Worth[{c[1] : c \in moved}] + Worth[{x.out : x \in debits}]]

\* It is approved after all: the reverse.
StakeValidate(d, b) ==
  LET txs == Recorded(d, b) \cap Regular
      moved == {c \in d.invCredits : c[2] = b /\ \E t \in txs : Creates(t, c)}
      debits == {x \in d.invDebits : x.block = b /\ x.tx \in txs}
      spends == {<<x.out, x.credit>> : x \in debits}
  IN  [d EXCEPT
        !.invalid = @ \ {b},
        !.credits = @ \cup moved \cup spends, !.invCredits = @ \ moved,
        !.debits = @ \cup debits, !.invDebits = @ \ debits,
        !.spent = @ \cup spends,
        !.unspent =
          [o \in Outpoint |->
            IF \E x \in debits : x.out = o THEN None
            ELSE IF \E c \in moved : c[1] = o THEN b ELSE @[o]],
        !.balance = @ + Worth[{c[1] : c \in moved}] - Worth[{x.out : x \in debits}]]

\* Mutant of ExtendMainChain: an archived regular tree stays in the archive.
NeverRevalidates(d, b) ==
  [IF b \in Approves \/ Tip(d) \in d.invalid THEN d ELSE StakeInvalidate(d, Tip(d))
   EXCEPT !.chain = Append(@, b)]

ExtendMainChain(d, b) ==
  LET parent == Tip(d)
      judged == CASE b \in Approves /\ parent \in d.invalid -> StakeValidate(d, parent)
                  [] b \notin Approves /\ parent \notin d.invalid -> StakeInvalidate(d, parent)
                  [] OTHER -> d
  IN  [judged EXCEPT !.chain = Append(@, b)]

-----------------------------------------------------------------------------
(* A transaction found in a block of the main chain. *)

\* The block's regular tree is disapproved already.
Invalidated(d, t, b) == t \in Regular /\ b \in d.invalid

\* Mutant of SpendCredits: the coin is flagged, and stays in the unspent bucket.
SpendLeavesUnspent(d, t, b) ==
  LET ins == {o \in Inputs[t] : d.unspent[o] # None}
      debits == {[tx |-> t, block |-> b, out |-> o, credit |-> d.unspent[o]] : o \in ins}
  IN  IF Invalidated(d, t, b)
      THEN [d EXCEPT !.invDebits = @ \cup debits]
      ELSE [d EXCEPT
             !.credits = @ \cup {<<x.out, x.credit>> : x \in debits},
             !.spent = @ \cup {<<x.out, x.credit>> : x \in debits},
             !.debits = @ \cup debits,
             !.balance = @ - Worth[ins]]

\* It spends the coins it finds unspent, unless it is invalidated.
SpendCredits(d, t, b) ==
  LET ins == {o \in Inputs[t] : d.unspent[o] # None}
      debits == {[tx |-> t, block |-> b, out |-> o, credit |-> d.unspent[o]] : o \in ins}
  IN  IF Invalidated(d, t, b)
      THEN [d EXCEPT !.invDebits = @ \cup debits]
      ELSE [d EXCEPT
             !.credits = @ \cup {<<x.out, x.credit>> : x \in debits},
             !.spent = @ \cup {<<x.out, x.credit>> : x \in debits},
             !.debits = @ \cup debits,
             !.unspent = [o \in Outpoint |-> IF o \in ins THEN None ELSE @[o]],
             !.balance = @ - Worth[ins]]

\* Coins that a block holds from now on.
PutCredits(d, outs, b) ==
  [d EXCEPT
    !.credits = @ \cup (outs \X {b}), !.spent = @ \ (outs \X {b}),
    !.unspent = [o \in Outpoint |-> IF o \in outs THEN b ELSE @[o]],
    !.balance = @ + Worth[outs]]

\* Mutant of MoveMinedTx: its unmined credits stay.
MoveKeepsCredits(d, t, b) ==
  PutCredits(
    [d EXCEPT
      !.records = @ \cup {<<t, b>>},
      !.unmined = @ \ {t},
      !.unminedInputs = [o \in Outpoint |-> IF o \in Inputs[t] THEN None ELSE @[o]]],
    d.unminedCredits \cap Outputs[t], b)

\* Mutant of MoveMinedTx: its unmined record stays.
MoveKeepsRecord(d, t, b) ==
  PutCredits(
    [d EXCEPT
      !.records = @ \cup {<<t, b>>},
      !.unminedInputs = [o \in Outpoint |-> IF o \in Inputs[t] THEN None ELSE @[o]],
      !.unminedCredits = @ \ Outputs[t]],
    d.unminedCredits \cap Outputs[t], b)

\* It was unmined: it moves to the block with its credits.
MoveMinedTx(d, t, b) ==
  LET moved == [d EXCEPT
        !.records = @ \cup {<<t, b>>},
        !.unmined = @ \ {t},
        !.unminedInputs = [o \in Outpoint |-> IF o \in Inputs[t] THEN None ELSE @[o]],
        !.unminedCredits = @ \ Outputs[t]]
  IN  PutCredits(moved, d.unminedCredits \cap Outputs[t], b)

\* It was unknown: unmined transactions that spend the same go.
RecordMinedTx(d, t, b) ==
  [RemoveUnconfirmed(d, DoubleSpends(d, t)) EXCEPT !.records = @ \cup {<<t, b>>}]

InsertMinedTx(d, t, b) ==
  LET spent == SpendCredits(d, t, b)
  IN  CASE <<t, b>> \in d.records -> spent
        [] <<t, b>> \notin d.records /\ t \in d.unmined -> MoveMinedTx(spent, t, b)
        [] OTHER -> RecordMinedTx(spent, t, b)

\* Mutant of AddCredits: without the look for a credit that is there.
AddsAgain(d, t, b) ==
  LET outs == Outputs[t] \cap Owned
  IN  IF Invalidated(d, t, b)
      THEN [d EXCEPT !.invCredits = @ \cup (outs \X {b}), !.spent = @ \ (outs \X {b})]
      ELSE PutCredits(d, outs, b)

\* The credits for the outputs that pay the wallet.
AddCredits(d, t, b) ==
  LET outs == Outputs[t] \cap Owned
  IN  IF Invalidated(d, t, b)
      THEN [d EXCEPT !.invCredits = @ \cup (outs \X {b}), !.spent = @ \ (outs \X {b})]
      ELSE PutCredits(d, {o \in outs : <<o, b>> \notin d.credits}, b)

\* What the store refuses: a block that is not of the main chain; to move an
\* unmined transaction to a disapproved block; and an unmined spender it has
\* no record of.
Refused(d, t, b) ==
  \/ ~InChain(d, b)
  \/ <<t, b>> \notin d.records /\ t \in d.unmined /\ Invalidated(d, t, b)
  \/ /\ <<t, b>> \notin d.records /\ t \notin d.unmined
     /\ ~DoubleSpends(d, t) \subseteq d.unmined

ProcessTransactionRecord(d, t, b) == AddCredits(InsertMinedTx(d, t, b), t, b)

-----------------------------------------------------------------------------
(* The top block is rolled back: its transactions, a coinbase excepted,    *)
(* become unmined, with what they spent given back.                        *)

RollbackBlock(d) ==
  LET b == Last(d.chain)
      gone == Recorded(d, b)
      back == gone \ Coinbase
      debits == {x \in d.debits : x.block = b /\ x.tx \in gone}
      lost == {c \in d.credits : c[2] = b /\ \E t \in gone : Creates(t, c)}
      lostOuts == {c[1] : c \in lost}
      \* "if amt == 0": a coin that is not VAR is not given back
      given == {x \in debits : x.credit # b /\ x.out \notin Ska}
  IN  [d EXCEPT
        !.chain = SubSeq(@, 1, Len(@) - 1),
        !.invalid = @ \ {b},
        !.records = @ \ (gone \X {b}),
        !.credits = @ \ lost,
        !.spent = @ \ (lost \cup {<<x.out, x.credit>> : x \in debits}),
        !.debits = @ \ debits,
        !.unspent =
          [o \in Outpoint |->
            IF \E x \in given : x.out = o
            THEN (CHOOSE x \in given : x.out = o).credit
            ELSE IF o \in lostOuts THEN None ELSE @[o]],
        !.unmined = @ \cup back,
        !.unminedInputs =
          [o \in Outpoint |->
            IF \E t \in back : o \in Inputs[t]
            THEN CHOOSE t \in back : o \in Inputs[t] ELSE @[o]],
        !.unminedCredits =
          @ \cup {o \in lostOuts : \E t \in back : o \in Outputs[t]},
        !.balance = @ + Worth[{x.out : x \in given}]
                      - Worth[{o \in lostOuts : d.unspent[o] # None}]]

\* Mutant of CoinbaseOutputs: the keys of the credits, and not their outpoints.
CoinbaseCredits(d) ==
  {e \in d.credits : e[2] = Last(d.chain)
     /\ \E t \in Recorded(d, Last(d.chain)) \cap Coinbase : Creates(t, e)}

\* The coinbase outputs it removed, whose unmined spenders must go too.
CoinbaseOutputs(d) ==
  {c[1] : c \in {e \in d.credits : e[2] = Last(d.chain)
                   /\ \E t \in Recorded(d, Last(d.chain)) \cap Coinbase : Creates(t, e)}}

SpendersOf(d, outs) == {d.unminedInputs[o] : o \in outs} \ {None}

-----------------------------------------------------------------------------
(* The marker. *)

MarkerHeight(d) == CommonHeight(ChainTo[d.marker], d.chain)
RescanPoint(d) ==
  IF MarkerHeight(d) = Len(d.chain) THEN None ELSE d.chain[MarkerHeight(d) + 1]

UpdateProcessedTxsBlockMarker(d, b) ==
  IF Height(b) > MarkerHeight(d) THEN [d EXCEPT !.marker = b] ELSE d

-----------------------------------------------------------------------------
(* The database transaction that is open. *)

NoTask == [op |-> "none", blocks |-> <<>>, txs |-> <<>>, at |-> None,
           found |-> FALSE, fork |-> 0, orphaned |-> {}]
Idle == task = NoTask
NoRescan == [on |-> FALSE, from |-> None, inclusive |-> FALSE, todo |-> <<>>, last |-> None]

Commit(d) == db' = d /\ disk' = d /\ task' = NoTask
Write(d) == db' = d /\ UNCHANGED disk

\* The database transaction is rolled back: what it wrote is lost.
RollBackTask == db' = disk /\ task' = NoTask /\ UNCHANGED disk

Init ==
  /\ db = InitStore /\ disk = InitStore
  /\ task = NoTask /\ phase = "headers" /\ rescan = NoRescan

-----------------------------------------------------------------------------
(* ChainSwitch. *)

\* The network serves a chain that extends the main chain, or has more work
\* than the blocks it would replace.  The transactions of its blocks come with
\* it only once the session is up and no block is left to rescan.
ChainSwitch(b) ==
  LET chain == ChainTo[b]
      fork == CommonHeight(chain, disk.chain)
  IN  /\ Idle
      /\ \/ phase = "headers" /\ b \in Fetched
         \/ phase = "up" /\ b \in Announced
      /\ Len(chain) > Len(disk.chain)
      /\ task' = [NoTask EXCEPT
                   !.op = "switch", !.fork = fork,
                   !.blocks = SubSeq(chain, fork + 1, Len(chain)),
                   !.found = phase = "up" /\ RescanPoint(disk) = None]
      /\ UNCHANGED <<db, disk, phase, rescan>>

Switching == task.op = "switch"
AfterFailedRescan == IF phase = "up" THEN "up" ELSE "headers"

Rollback ==
  /\ Switching /\ Len(db.chain) > task.fork /\ task.at = None
  /\ Write(RollbackBlock(db))
  /\ task' = [task EXCEPT !.orphaned = @ \cup CoinbaseOutputs(db)]
  /\ UNCHANGED <<phase, rescan>>

RollbackEnd ==
  /\ Switching /\ Len(db.chain) = task.fork /\ task.at = None
  /\ task.orphaned # {}
  /\ Write(RemoveUnconfirmed(db, SpendersOf(db, task.orphaned)))
  /\ task' = [task EXCEPT !.orphaned = {}]
  /\ UNCHANGED <<phase, rescan>>

AttachBlock ==
  /\ Switching /\ task.txs = <<>> /\ task.orphaned = {}
  /\ task.at = None => Len(db.chain) = task.fork
  /\ task.blocks # <<>>
  /\ LET b == Head(task.blocks)
     IN  /\ Write(ExtendMainChain(db, b))
         /\ task' = [task EXCEPT !.at = b, !.blocks = Tail(@),
                                 !.txs = IF task.found THEN TxsOf[b] ELSE <<>>]
  /\ UNCHANGED <<phase, rescan>>

\* A transaction of the block at hand, in a switch or a rescan.
SaveTx ==
  /\ task.txs # <<>> /\ ~Refused(db, Head(task.txs), task.at)
  /\ Write(ProcessTransactionRecord(db, Head(task.txs), task.at))
  /\ task' = [task EXCEPT !.txs = Tail(@)]
  /\ UNCHANGED <<phase, rescan>>

\* The store refuses it: a switch is dropped with the peer, a rescan ends, and
\* with it the session that has just started.
SaveRefused ==
  /\ task.txs # <<>> /\ Refused(db, Head(task.txs), task.at)
  /\ RollBackTask
  /\ IF Switching THEN UNCHANGED <<phase, rescan>>
     ELSE rescan' = NoRescan /\ phase' = AfterFailedRescan

\* Mutant of SwitchEnd: the marker follows, were the transactions there or not.
SwitchAlwaysMarks ==
  /\ Switching /\ task.blocks = <<>> /\ task.txs = <<>>
  /\ Commit(PruneUnmined(UpdateProcessedTxsBlockMarker(db, Tip(db))))
  /\ UNCHANGED <<phase, rescan>>

\* The marker follows, but over no gap; then what no longer belongs is pruned.
SwitchEnd ==
  /\ Switching /\ task.blocks = <<>> /\ task.txs = <<>>
  /\ LET nogap == MarkerHeight(db) + 2 >= task.fork + 1
         marked == IF task.found /\ nogap
                   THEN UpdateProcessedTxsBlockMarker(db, Tip(db)) ELSE db
     IN  Commit(PruneUnmined(marked))
  /\ UNCHANGED <<phase, rescan>>

-----------------------------------------------------------------------------
(* Rescan. *)

\* The headers are in: the session rescans what is left, or is up.
HeadersEnd ==
  /\ Idle /\ phase = "headers"
  /\ IF RescanPoint(disk) = None
     THEN phase' = "up" /\ UNCHANGED rescan
     ELSE /\ phase' = "rescan"
          /\ rescan' = [NoRescan EXCEPT
               !.on = TRUE, !.from = RescanPoint(disk), !.inclusive = TRUE]
  /\ UNCHANGED <<db, disk, task>>

\* The user asks for one, from any block.
RescanFrom(b) ==
  /\ phase = "up" /\ ~rescan.on /\ InChain(disk, b)
  /\ rescan' = [NoRescan EXCEPT !.on = TRUE, !.from = b, !.inclusive = TRUE]
  /\ UNCHANGED <<db, disk, task, phase>>

\* The blocks to scan are read from the committed store: a switch may replace
\* them before they are saved.
ListBlocks ==
  /\ rescan.on /\ rescan.last = None
  /\ InChain(disk, rescan.from)
  /\ LET first == Height(rescan.from) + IF rescan.inclusive THEN 0 ELSE 1
         blocks == SubSeq(disk.chain, first,
                     IF Len(disk.chain) < first + MaxBlocksPerRescan - 1
                     THEN Len(disk.chain) ELSE first + MaxBlocksPerRescan - 1)
     IN  IF blocks = <<>>
         THEN rescan' = NoRescan /\ phase' = "up"
         ELSE /\ rescan' = [rescan EXCEPT !.todo = blocks, !.last = Last(blocks)]
              /\ UNCHANGED phase
  /\ UNCHANGED <<db, disk, task>>

\* Some of the blocks have been fetched and scanned: what they hold is saved.
SaveRescanned(n) ==
  /\ Idle /\ n \in DOMAIN rescan.todo
  /\ task' = [NoTask EXCEPT !.op = "save", !.blocks = SubSeq(rescan.todo, 1, n)]
  /\ rescan' = [rescan EXCEPT !.todo = SubSeq(@, n + 1, Len(@))]
  /\ UNCHANGED <<db, disk, phase>>

SaveBlock ==
  /\ task.op = "save" /\ task.txs = <<>> /\ task.blocks # <<>>
  /\ task' = [task EXCEPT !.at = Head(task.blocks), !.blocks = Tail(@),
                          !.txs = TxsOf[Head(task.blocks)]]
  /\ UNCHANGED <<db, disk, phase, rescan>>

SaveEnd ==
  /\ task.op = "save" /\ task.txs = <<>> /\ task.blocks = <<>>
  /\ Commit(db)
  /\ UNCHANGED <<phase, rescan>>

\* All that was listed is saved: the marker follows, in a write of its own.
MarkRescanned ==
  /\ Idle /\ rescan.last # None /\ rescan.todo = <<>> /\ InChain(db, rescan.last)
  /\ Commit(UpdateProcessedTxsBlockMarker(db, rescan.last))
  /\ rescan' = [NoRescan EXCEPT !.on = TRUE, !.from = rescan.last]
  /\ UNCHANGED phase

\* The block it would list from, or mark, has been replaced.
RescanFails ==
  /\ rescan.on
  /\ \/ rescan.last = None /\ ~InChain(disk, rescan.from)
     \/ Idle /\ rescan.last # None /\ rescan.todo = <<>> /\ ~InChain(db, rescan.last)
  /\ rescan' = NoRescan /\ phase' = AfterFailedRescan
  /\ UNCHANGED <<db, disk, task>>

-----------------------------------------------------------------------------
(* Transactions that no block holds. *)

Known(d, t) == t \in d.unmined \/ \E b \in Block : <<t, b>> \in d.records

\* A vote or revocation replaces a vote that is not for the tip; otherwise the
\* first transaction that spends an output stays.
StaleVotes(d, t) ==
  {u \in DoubleSpends(d, t) : t \in Vote /\ u \in Vote /\ VotesOn[u] # Tip(d)}
Conflicts(d, t) == DoubleSpends(d, t) \ StaleVotes(d, t)

\* A peer relays a transaction, or the wallet makes it: what it spends is known,
\* or not the wallet's, and the main chain has not spent it.
AddTransaction(t) ==
  /\ Idle /\ phase = "up" /\ RescanPoint(db) = None
  /\ t \notin Coinbase /\ ~Known(db, t)
  /\ \A u \in Tx : Outputs[u] \cap Inputs[t] # {} => Known(db, u)
  /\ \A o \in Inputs[t] : ~SpentOn(db.chain, o)
  /\ t \in Vote => VotesOn[t] = Tip(db)
  /\ Conflicts(db, t) = {}
  /\ Commit(InsertMemPoolTx(RemoveUnconfirmed(db, StaleVotes(db, t)), t))
  /\ UNCHANGED <<phase, rescan>>

\* The user abandons it, or it could not be published.
AbandonTransaction(t) ==
  /\ Idle /\ t \in db.unmined
  /\ Commit(RemoveUnconfirmed(db, {t}))
  /\ UNCHANGED <<phase, rescan>>

-----------------------------------------------------------------------------

\* The program stops, at any step, and is started again; or the session ends
\* between two database transactions.
Restart ==
  /\ RollBackTask
  /\ phase' = "headers" /\ rescan' = NoRescan

Rescan ==
  \/ ListBlocks \/ MarkRescanned \/ RescanFails
  \/ \E n \in 1 .. MaxBlocksPerRescan : SaveRescanned(n)
Task ==
  \/ Rollback \/ RollbackEnd \/ AttachBlock \/ SwitchEnd
  \/ SaveBlock \/ SaveTx \/ SaveRefused \/ SaveEnd

Next ==
  \/ \E b \in Block : ChainSwitch(b) \/ RescanFrom(b)
  \/ HeadersEnd \/ Rescan \/ Task \/ Restart
  \/ \E t \in Tx : AddTransaction(t) \/ AbandonTransaction(t)

Spec == Init /\ [][Next]_vars

-----------------------------------------------------------------------------
(* Properties. *)

Stores == [
  chain : Chains, marker : Block, invalid : SUBSET Block,
  records : SUBSET (Tx \X Block),
  credits : SUBSET Coins, spent : SUBSET Coins, debits : SUBSET Debits,
  unspent : [Outpoint -> Block \cup {None}],
  invCredits : SUBSET Coins, invDebits : SUBSET Debits,
  unmined : SUBSET Tx, unminedInputs : [Outpoint -> Tx \cup {None}],
  unminedCredits : SUBSET Outpoint, balance : Int]

\* The type of the store, of the task and of the rescan.
TypeOK ==
  /\ db \in Stores /\ disk \in Stores
  /\ task \in [op : {"none", "switch", "save"}, blocks : Chains, txs : Seq(Tx),
               at : Block \cup {None}, found : BOOLEAN, fork : Nat,
               orphaned : SUBSET Outpoint]
  /\ phase \in {"headers", "rescan", "up"}
  /\ rescan \in [on : BOOLEAN, from : Block \cup {None}, inclusive : BOOLEAN,
                 todo : Chains, last : Block \cup {None}]

\* When no block is left to rescan, the unspent coins are those the main chain
\* gives the wallet: whatever switches, disapprovals, rescans, restarts and
\* unmined transactions came before, and the balance kept by increments is
\* their sum.
CoinsMatchChain ==
  RescanPoint(disk) = None =>
    /\ \A o \in Outpoint : disk.unspent[o] = CoinBlock(disk.chain, o)
    /\ disk.balance = Worth[{o \in Outpoint : disk.unspent[o] # None}]

\* The marker never passes a block of the main chain whose transactions are not
\* recorded.
MarkerIsHonest ==
  \A i \in 1 .. MarkerHeight(disk) :
    MinedTxs(disk.chain[i]) \subseteq Recorded(disk, disk.chain[i])

\* A credit's spent flag, the debits and the unspent coins tell the same story.
SpentHasDebit ==
  /\ disk.spent \cap disk.credits = {<<x.out, x.credit>> : x \in disk.debits}
  /\ \A o \in Outpoint : LET b == disk.unspent[o] IN
       b # None => <<o, b>> \in disk.credits \ disk.spent
  /\ \A e \in disk.credits \ disk.spent : disk.unspent[e[1]] = e[2]

\* Each output has one coin at most: of one block of the main chain, or of an
\* unmined transaction.
OneCoinPerOutput ==
  \A e \in disk.credits :
    /\ e[1] \notin disk.unminedCredits
    /\ \A f \in disk.credits : f[1] = e[1] => f = e

\* An output marked as spent by an unmined transaction is spent by one that is
\* there.
MarksAreLive ==
  \A o \in Outpoint : LET spender == disk.unminedInputs[o] IN
    spender # None => spender \in disk.unmined /\ o \in Inputs[spender]

\* No unmined transaction is in a block of the main chain that counts.
UnminedIsNotMined ==
  \A t \in disk.unmined : \A i \in DOMAIN disk.chain :
    <<t, disk.chain[i]>> \in disk.records => disk.chain[i] \in disk.invalid /\ t \in Regular

\* No unmined transaction spends an output of a transaction that is gone.
NoOrphans ==
  \A t \in disk.unmined, u \in Tx : Outputs[u] \cap Inputs[t] # {} => Known(disk, u)

\* Rescanning blocks the marker has passed changes nothing in the store.
RescanAddsNothing ==
  [][SaveEnd /\ task.at # None /\ InChain(disk, task.at)
       /\ Height(task.at) <= MarkerHeight(disk)
     => disk' = disk]_vars

-----------------------------------------------------------------------------
(* What a comment of the source says, and the code does not do. *)

\* A credit that nothing has spent is among the unspent coins.
UnspentIsListed ==
  \A e \in disk.credits \ disk.spent : disk.unspent[e[1]] = e[2]

=============================================================================
