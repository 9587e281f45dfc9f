------------------------ MODULE TxStoreCoins_proofs ------------------------
(***************************************************************************)
(* Proofs about the coins of TxStore: the buckets of the store are those   *)
(* the main chain says.                                                    *)
(*                                                                         *)
(* A transaction stands in a block if the store has a record of it there   *)
(* and the block is not disapproved for it.  What stands says which coins  *)
(* there are, which are spent and by whom: every method of the store keeps *)
(* that (Account).  From it, and from the marks of who spends what, no     *)
(* unmined transaction is left spending one that is gone (SpendInv).       *)
(***************************************************************************)
EXTENDS TxStore_proofs

\* What the chains have to be for the account of the coins.
Orderly == ValidChains /\ NoSpendsWithin /\ Owned \cap Ska = {}

-----------------------------------------------------------------------------
(* What counts in a chain *)

LEMMA CountsHere ==
  ASSUME NEW b \in Block \ {Genesis}, NEW t \in MinedTxs(b)
  PROVE  Counts(ChainTo[b], Height(b), t)
BY OwnLine, LineFacts DEF Counts, Height

\* What counts below a block does so on every chain with the block.
LEMMA CountsBelow ==
  ASSUME NEW x \in Block, NEW b \in Line(x), NEW c \in Line(b), c # b, NEW t
  PROVE  /\ Height(c) < Height(b)
         /\ Counts(ChainTo[b], Height(c), t) <=> Counts(ChainTo[x], Height(c), t)
<1>1. /\ b \in Block \ {Genesis} /\ Height(b) \in 1 .. Height(x)
      /\ ChainTo[b] = SubSeq(ChainTo[x], 1, Height(b))
  BY InLine
<1>2. c \in Block \ {Genesis} /\ Height(c) \in 1 .. Height(b) /\ ChainTo[b][Height(c)] = c
  BY <1>1, InLine
<1>3. Height(c) < Height(b)
  <2>1. b \in Line(b)
    BY <1>1, OwnLine
  <2>2. Height(c) # Height(b)
    BY <1>1, <2>1, SameHeight
  <2>. QED BY <1>1, <1>2, <2>2, LineFacts
<1>4. /\ Len(ChainTo[b]) = Height(b) /\ Len(ChainTo[x]) = Height(x)
      /\ \A i \in 1 .. Height(b) : ChainTo[b][i] = ChainTo[x][i]
      /\ Height(x) \in Nat /\ Height(b) \in Nat
  BY <1>1, LineFacts DEF Chains
<1>5. Height(c) + 1 \in 1 .. Height(b)
  BY <1>2, <1>3, <1>4
<1>6. Height(c) # Len(ChainTo[b]) /\ Height(c) # Len(ChainTo[x])
  BY <1>1, <1>2, <1>3, <1>4
<1>7. /\ ChainTo[b][Height(c)] = ChainTo[x][Height(c)]
      /\ ChainTo[b][Height(c) + 1] = ChainTo[x][Height(c) + 1]
  BY <1>2, <1>4, <1>5
<1>. QED BY <1>3, <1>6, <1>7 DEF Counts

\* The rules of a valid chain, of blocks on the chain to x.
LEMMA Once ==
  ASSUME ValidChains, NEW x \in Block, NEW b \in Line(x), NEW c \in Line(x),
         NEW t \in Tx, NEW u \in Tx,
         Counts(ChainTo[x], Height(b), t), Counts(ChainTo[x], Height(c), u),
         t = u \/ Inputs[t] \cap Inputs[u] # {}
  PROVE  t = u /\ b = c
<1>1. /\ Height(b) \in DOMAIN ChainTo[x] /\ ChainTo[x][Height(b)] = b
      /\ Height(c) \in DOMAIN ChainTo[x] /\ ChainTo[x][Height(c)] = c
  BY InLine, LineFacts
<1>2. t = u /\ Height(b) = Height(c)
  BY <1>1 DEF ValidChains
<1>. QED BY <1>1, <1>2

LEMMA MadeBefore ==
  ASSUME ValidChains, NEW x \in Block, NEW b \in Line(x), NEW t \in Tx, NEW u \in Tx,
         NEW o \in Inputs[t] \cap Outputs[u] \cap Owned, Counts(ChainTo[x], Height(b), t)
  PROVE  \E c \in Line(b) :
           /\ Counts(ChainTo[x], Height(c), u) /\ u \in MinedTxs(c)
           /\ c # b \/ Precedes(b, u, t)
<1>1. /\ Height(b) \in DOMAIN ChainTo[x] /\ ChainTo[x][Height(b)] = b
  BY InLine, LineFacts
<1>2. PICK j \in DOMAIN ChainTo[x] :
        /\ Counts(ChainTo[x], j, u)
        /\ j < Height(b) \/ (j = Height(b) /\ Precedes(ChainTo[x][Height(b)], u, t))
  <2>1. Inputs[t] \cap Outputs[u] \cap Owned # {}
    OBVIOUS
  <2>. QED BY <1>1, <2>1 DEF ValidChains
<1>. DEFINE c == ChainTo[x][j]
<1>3. c \in Line(x) /\ Height(c) = j /\ j \in Nat /\ Height(b) \in Nat
  BY InLine, LineFacts
<1>4. c \in Line(b)
  BY <1>2, <1>3, InLine
<1>5. u \in MinedTxs(c)
  BY <1>2 DEF Counts
<1>. QED BY <1>1, <1>2, <1>3, <1>4, <1>5

-----------------------------------------------------------------------------
(* What stands in a store *)

Stands(d, t, b) == <<t, b>> \in d.records /\ ~Invalidated(d, t, b)

\* t is in block b of the main chain, and b is not disapproved for it.
Fits(d, t, b) == b \in Line(Tip(d)) /\ t \in MinedTxs(b) /\ ~Invalidated(d, t, b)

\* Records are of transactions in blocks of the main chain.
Placed(d) == \A t \in Tx, b \in Block :
  <<t, b>> \in d.records => b \in Line(Tip(d)) /\ t \in MinedTxs(b)

\* The blocks marked invalid are those the next block disapproves; the tip may be
\* one, until a switch that rolled back to it attaches the next.
Judged(d) ==
  /\ \A b \in d.invalid : b \in Line(Tip(d)) \cup {Genesis} /\ Disapproved(b)
  /\ \A b \in Line(Tip(d)) : b # Tip(d) =>
       (b \in d.invalid <=> ChainTo[Tip(d)][Height(b) + 1] \notin Approves)

LEMMA FitsCounts ==
  ASSUME NEW d \in Stores, Chained(d), Judged(d), NEW t \in Tx, NEW b \in Block, Fits(d, t, b)
  PROVE  Tip(d) \in Block /\ b \in Line(Tip(d)) /\ Counts(ChainTo[Tip(d)], Height(b), t)
<1>1. Tip(d) \in Block /\ b \in Line(Tip(d)) /\ t \in MinedTxs(b)
  BY ChainedFacts DEF Fits
<1>2. Height(b) \in 1 .. Height(Tip(d)) /\ ChainTo[Tip(d)][Height(b)] = b
  BY <1>1, InLine
<1>3. t \in Regular => b \notin d.invalid
  BY DEF Fits, Invalidated
<1>4. CASE b = Tip(d)
  BY <1>1, <1>2, <1>4 DEF Counts, Height
<1>5. CASE b # Tip(d)
  BY <1>1, <1>2, <1>3, <1>5 DEF Counts, Judged
<1>. QED BY <1>1, <1>4, <1>5

\* A transaction fits in one block, ...
LEMMA OneBlock ==
  ASSUME ValidChains, NEW d \in Stores, Chained(d), Judged(d), NEW t \in Tx,
         NEW b \in Block, NEW c \in Block, Fits(d, t, b), Fits(d, t, c)
  PROVE  b = c
BY FitsCounts, Once

\* ... spends what no other does, ...
LEMMA OneSpender ==
  ASSUME ValidChains, NEW d \in Stores, Chained(d), Judged(d), NEW t \in Tx, NEW u \in Tx,
         NEW b \in Block, NEW c \in Block, NEW o, o \in Inputs[t], o \in Inputs[u],
         Fits(d, t, b), Fits(d, u, c)
  PROVE  t = u /\ b = c
<1>1. Inputs[t] \cap Inputs[u] # {}
  OBVIOUS
<1>. QED BY <1>1, FitsCounts, Once

\* ... and has below it what makes its inputs.
LEMMA MakerFits ==
  ASSUME ValidChains, NEW d \in Stores, Chained(d), Judged(d), NEW t \in Tx, NEW u \in Tx,
         NEW b \in Block, NEW o, o \in Inputs[t], o \in Outputs[u], o \in Owned, Fits(d, t, b)
  PROVE  \E c \in Line(b) : Fits(d, u, c) /\ (c # b \/ Precedes(b, u, t))
<1>1. /\ Tip(d) \in Block /\ b \in Line(Tip(d)) /\ t \in MinedTxs(b)
      /\ Counts(ChainTo[Tip(d)], Height(b), t)
  BY FitsCounts DEF Fits
<1>2. o \in Inputs[t] \cap Outputs[u] \cap Owned
  OBVIOUS
<1>3. CASE Tip(d) \notin d.invalid
  <2>1. PICK c \in Line(b) :
          /\ Counts(ChainTo[Tip(d)], Height(c), u) /\ u \in MinedTxs(c)
          /\ c # b \/ Precedes(b, u, t)
    BY <1>1, <1>2, MadeBefore
  <2>2. /\ c \in Line(Tip(d)) /\ Height(c) \in 1 .. Height(Tip(d))
        /\ c # Tip(d) => Height(c) # Len(ChainTo[Tip(d)])
    <3>1. c \in Line(Tip(d)) /\ Height(c) \in 1 .. Height(Tip(d))
      BY <1>1, <2>1, LineGrows, InLine
    <3>2. Len(ChainTo[Tip(d)]) = Height(Tip(d)) /\ Tip(d) # Genesis
      BY <1>1, LineFacts, OfGenesis
    <3>3. Tip(d) \in Line(Tip(d))
      BY <1>1, <3>2, OwnLine
    <3>. QED BY <1>1, <3>1, <3>2, <3>3, SameHeight
  <2>3. ~Invalidated(d, u, c)
    BY <1>3, <2>1, <2>2 DEF Invalidated, Judged, Counts
  <2>. QED BY <2>1, <2>2, <2>3 DEF Fits
<1>4. CASE Tip(d) \in d.invalid
  <2>. DEFINE y == Tip(d)
  <2>1. PICK x \in Block \ Approves : ChainTo[x] = Append(ChainTo[y], x)
    BY <1>4 DEF Judged, Disapproved
  <2>2. /\ ChainTo[y] \in Chains /\ Len(ChainTo[y]) = Height(y) /\ Height(y) \in Nat
        /\ Height(x) = Height(y) + 1 /\ Len(ChainTo[x]) = Height(x)
        /\ \A i \in 1 .. Height(y) : ChainTo[x][i] = ChainTo[y][i]
        /\ ChainTo[x][Height(y) + 1] = x
    BY <1>1, <2>1, LineFacts DEF Chains, Height
  <2>3. y \in Line(x)
    <3>1. Height(b) \in 1 .. Height(y)
      BY <1>1, InLine
    <3>2. ChainTo[y][Height(y)] = y
      BY <1>1, <3>1, OfGenesis, OwnLine
    <3>3. Height(y) \in 1 .. Height(y) /\ Height(y) \in 1 .. Height(x)
      BY <2>2, <3>1
    <3>4. ChainTo[x][Height(y)] = y
      BY <2>2, <3>2, <3>3
    <3>. QED BY <3>3, <3>4 DEF Line
  <2>4. Line(y) \subseteq Line(x) /\ y \in Line(y)
    BY <2>3, LineGrows
  <2>5. b \in Line(x) /\ Counts(ChainTo[x], Height(b), t)
    <3>1. CASE b # y
      BY <1>1, <2>3, <2>4, <3>1, CountsBelow
    <3>2. CASE b = y
      <4>1. t \notin Regular
        BY <1>4, <3>2 DEF Fits, Invalidated
      <4>2. ChainTo[x][Height(y)] = y
        BY <2>3, InLine
      <4>. QED BY <1>1, <2>3, <3>2, <4>1, <4>2 DEF Counts
    <3>. QED BY <3>1, <3>2
  <2>6. PICK c \in Line(b) :
          /\ Counts(ChainTo[x], Height(c), u) /\ u \in MinedTxs(c)
          /\ c # b \/ Precedes(b, u, t)
    BY <1>2, <2>1, <2>5, MadeBefore
  <2>7. c \in Line(y) /\ Height(c) \in 1 .. Height(y)
    BY <1>1, <2>6, LineGrows, InLine
  <2>8. u \in Regular => ChainTo[x][Height(c) + 1] \in Approves
    BY <2>2, <2>6, <2>7 DEF Counts
  <2>9. ~Invalidated(d, u, c)
    <3>1. CASE c = y
      BY <2>1, <2>2, <2>8, <3>1 DEF Invalidated
    <3>2. CASE c # y
      <4>1. Height(c) + 1 \in 1 .. Height(y)
        BY <1>1, <2>2, <2>4, <2>7, <3>2, SameHeight
      <4>2. ChainTo[x][Height(c) + 1] = ChainTo[y][Height(c) + 1]
        BY <2>2, <4>1
      <4>. QED BY <2>7, <2>8, <3>2, <4>2 DEF Invalidated, Judged
    <3>. QED BY <3>1, <3>2
  <2>. QED BY <2>6, <2>7, <2>9 DEF Fits
<1>. QED BY <1>3, <1>4

-----------------------------------------------------------------------------
(* The account of the coins *)

Debit(t, b, o, c) == [tx |-> t, block |-> b, out |-> o, credit |-> c]

\* A block has records only if those below it have them all, and they are made in
\* the order of the block.
InOrder(d) == \A t \in Tx, b \in Block : <<t, b>> \in d.records =>
  /\ \A c \in Line(b) : c # b => Full(d, c)
  /\ \A u \in Tx : Precedes(b, u, t) => <<u, b>> \in d.records

\* The coins are the outputs of what stands, ...
Credited(d) == \A o \in Outpoint, b \in Block :
  <<o, b>> \in d.credits <=> o \in Owned /\ \E t \in Tx : o \in Outputs[t] /\ Stands(d, t, b)

\* ... the debits are its inputs, ...
Debited(d) == \A x \in Debits :
  x \in d.debits <=> /\ Stands(d, x.tx, x.block) /\ x.out \in Inputs[x.tx]
                     /\ <<x.out, x.credit>> \in d.credits

\* ... a coin is flagged if there is a debit of it, ...
Flagged(d) == \A o \in Outpoint, b \in Block :
  <<o, b>> \in d.spent <=> \E x \in d.debits : x.out = o /\ x.credit = b

\* ... the unspent coins are the others, and the balance is their sum.
Indexed(d) == \A o \in Outpoint, b \in Block :
  d.unspent[o] = b <=> <<o, b>> \in d.credits /\ <<o, b>> \notin d.spent
Summed(d) == d.balance = Worth[{o \in Outpoint : d.unspent[o] # None}]

\* A debit of the archive spends what counts below its block.
Earned(x) ==
  /\ x.tx \in MinedTxs(x.block) /\ x.out \in Inputs[x.tx] /\ x.out \in Owned
  /\ x.credit \in Line(x.block) /\ x.credit # x.block
  /\ \E u \in Tx : x.out \in Outputs[u] /\ Counts(ChainTo[x.block], Height(x.credit), u)

\* The archive has the credits and debits of what is recorded and does not stand.
Archived(d) ==
  /\ \A o \in Outpoint, b \in Block : <<o, b>> \in d.invCredits => o \in Owned
  /\ \A t \in Tx, b \in Block : <<t, b>> \in d.records /\ Invalidated(d, t, b) =>
       /\ \A o \in Outputs[t] : o \in Owned => <<o, b>> \in d.invCredits
       /\ \A o \in Inputs[t], c \in Block :
            <<o, c>> \in d.credits => Debit(t, b, o, c) \in d.invDebits
  /\ \A x \in d.invDebits : Earned(x)

\* The credits of unmined transactions.
Waiting(d) ==
  /\ d.unmined \cap Coinbase = {}
  /\ \A o \in d.unminedCredits : o \in Owned /\ \E t \in d.unmined : o \in Outputs[t]

Lines(d) == Chained(d) /\ Placed(d) /\ Judged(d)
Books(d) == Credited(d) /\ Debited(d) /\ Flagged(d) /\ Indexed(d) /\ Summed(d)
Account(d) == Lines(d) /\ InOrder(d) /\ Books(d) /\ Archived(d) /\ Waiting(d)

LEMMA WorthOfNothing == Worth[{}] = 0
<1>1. {} \in SUBSET Outpoint /\ {} \cap {} = {} /\ {} \cup {} = {}
  OBVIOUS
<1>2. Worth[{}] \in Nat
  BY <1>1, TxAssumption
<1>3. Worth[{} \cup {}] = Worth[{}] + Worth[{}]
  BY <1>1, TxAssumption
<1>. DEFINE w == Worth[{}]
<1>4. w \in Nat /\ w = w + w
  BY <1>1, <1>2, <1>3
<1>. HIDE DEF w
<1>5. w = 0
  BY <1>4
<1>. QED BY <1>5 DEF w

LEMMA OneMaker ==
  ASSUME NEW t \in Tx, NEW u \in Tx, NEW o, o \in Outputs[t], o \in Outputs[u] PROVE t = u
BY TxAssumption

LEMMA StandsFits ==
  ASSUME NEW d \in Stores, Placed(d), NEW t \in Tx, NEW b \in Block, Stands(d, t, b)
  PROVE  Fits(d, t, b)
BY DEF Stands, Fits, Placed

LEMMA DebitFields ==
  ASSUME NEW x \in Debits
  PROVE  /\ x.tx \in Tx /\ x.block \in Block /\ x.out \in Outpoint /\ x.credit \in Block
         /\ x = Debit(x.tx, x.block, x.out, x.credit)
BY DEF Debits, Debit

LEMMA DebitTyped ==
  ASSUME NEW t \in Tx, NEW b \in Block, NEW o \in Outpoint, NEW c \in Block
  PROVE  LET x == Debit(t, b, o, c) IN
         x \in Debits /\ x.tx = t /\ x.block = b /\ x.out = o /\ x.credit = c
BY DEF Debits, Debit

\* An output has one coin, ...
LEMMA OneCoin ==
  ASSUME ValidChains, NEW d \in Stores, Lines(d), Credited(d), NEW o \in Outpoint,
         NEW b \in Block, NEW c \in Block, <<o, b>> \in d.credits, <<o, c>> \in d.credits
  PROVE  b = c
<1>1. PICK t \in Tx : o \in Outputs[t] /\ Stands(d, t, b)
  BY DEF Credited
<1>2. PICK u \in Tx : o \in Outputs[u] /\ Stands(d, u, c)
  BY DEF Credited
<1>3. t = u
  BY <1>1, <1>2, OneMaker
<1>. QED BY <1>1, <1>2, <1>3, StandsFits, OneBlock DEF Lines

\* ... and one debit.
LEMMA OneDebit ==
  ASSUME ValidChains, NEW d \in Stores, Lines(d), Credited(d), Debited(d),
         NEW x \in d.debits, NEW y \in d.debits, x.out = y.out
  PROVE  x = y
<1>1. x \in Debits /\ y \in Debits
  BY FieldTypes
<1>2. /\ x.tx \in Tx /\ x.block \in Block /\ x.out \in Outpoint /\ x.credit \in Block
      /\ y.tx \in Tx /\ y.block \in Block /\ y.credit \in Block
  BY <1>1, DebitFields
<1>3. /\ Stands(d, x.tx, x.block) /\ x.out \in Inputs[x.tx] /\ <<x.out, x.credit>> \in d.credits
      /\ Stands(d, y.tx, y.block) /\ x.out \in Inputs[y.tx] /\ <<x.out, y.credit>> \in d.credits
  BY <1>1 DEF Debited
<1>4. Fits(d, x.tx, x.block) /\ Fits(d, y.tx, y.block)
  BY <1>2, <1>3, StandsFits DEF Lines
<1>5. x.tx = y.tx /\ x.block = y.block
  BY <1>2, <1>3, <1>4, OneSpender DEF Lines
<1>6. x.credit = y.credit
  BY <1>2, <1>3, OneCoin
<1>. QED BY <1>1, <1>5, <1>6, DebitFields

\* What stands finds none of its inputs unspent.
LEMMA InputsSpent ==
  ASSUME NEW d \in Stores, Books(d), NEW t \in Tx, NEW b \in Block, Stands(d, t, b),
         NEW o \in Inputs[t]
  PROVE  d.unspent[o] = None
<1>1. o \in Outpoint /\ d.unspent[o] \in Block \cup {None}
  BY Constants, FieldTypes
<1>. SUFFICES ASSUME d.unspent[o] \in Block PROVE FALSE
  BY <1>1
<1>. DEFINE c == d.unspent[o]
<1>2. <<o, c>> \in d.credits /\ <<o, c>> \notin d.spent
  BY <1>1 DEF Books, Indexed
<1>. HIDE DEF c
<1>3. c \in Block
  BY DEF c
<1>4. Debit(t, b, o, c) \in d.debits
  BY <1>1, <1>2, <1>3, DebitTyped DEF Books, Debited
<1>. QED BY <1>1, <1>2, <1>3, <1>4, DebitTyped DEF Books, Flagged

\* A transaction that is recorded is processed again to no effect.
LEMMA NoNews ==
  ASSUME NEW d \in Stores, Account(d), NEW t \in Tx, NEW b \in Block, <<t, b>> \in d.records
  PROVE  ProcessTransactionRecord(d, t, b) = d
<1>. DEFINE ins == {o \in Inputs[t] : d.unspent[o] # None}
            debits == {[tx |-> t, block |-> b, out |-> o, credit |-> d.unspent[o]] : o \in ins}
            outs == Outputs[t] \cap Owned
<1>1. InsertMinedTx(d, t, b) = SpendCredits(d, t, b)
  BY DEF InsertMinedTx
<1>2. CASE Invalidated(d, t, b)
  <2>1. SpendCredits(d, t, b) = [d EXCEPT !.invDebits = d.invDebits \cup debits]
    BY <1>2 DEF SpendCredits
  <2>2. debits \subseteq d.invDebits
    <3>1. ASSUME NEW o \in ins PROVE Debit(t, b, o, d.unspent[o]) \in d.invDebits
      <4>1. o \in Outpoint /\ d.unspent[o] \in Block
        BY Constants, FieldTypes
      <4>2. <<o, d.unspent[o]>> \in d.credits
        BY <4>1 DEF Account, Books, Indexed
      <4>. QED BY <1>2, <4>1, <4>2 DEF Account, Archived
    <3>. QED BY <3>1 DEF Debit
  <2>. HIDE DEF debits
  <2>3. SpendCredits(d, t, b) = d
    BY <2>1, <2>2 DEF Stores
  <2>4. outs \X {b} \subseteq d.invCredits
    <3>1. \A o \in outs : <<o, b>> \in d.invCredits
      BY <1>2 DEF Account, Archived
    <3>. HIDE DEF outs
    <3>. QED BY <3>1
  <2>5. \A o \in outs : <<o, b>> \notin d.spent
    <3>. SUFFICES ASSUME NEW o \in outs, <<o, b>> \in d.spent PROVE FALSE
      OBVIOUS
    <3>1. o \in Outpoint
      BY Constants
    <3>2. PICK x \in d.debits : x.out = o /\ x.credit = b
      BY <3>1 DEF Account, Books, Flagged
    <3>3. <<o, b>> \in d.credits
      BY <3>2, FieldTypes DEF Account, Books, Debited
    <3>4. PICK u \in Tx : o \in Outputs[u] /\ Stands(d, u, b)
      BY <3>1, <3>3 DEF Account, Books, Credited
    <3>. QED BY <1>2, <3>4, OneMaker DEF Stands
  <2>6. AddCredits(d, t, b)
          = [d EXCEPT !.invCredits = d.invCredits \cup (outs \X {b}),
                      !.spent = d.spent \ (outs \X {b})]
    BY <1>2 DEF AddCredits
  <2>7. d.invCredits \cup (outs \X {b}) = d.invCredits /\ d.spent \ (outs \X {b}) = d.spent
    BY <2>4, <2>5
  <2>8. AddCredits(d, t, b) = d
    <3>1. AddCredits(d, t, b) = [d EXCEPT !.invCredits = d.invCredits, !.spent = d.spent]
      BY <2>6, <2>7, Zenon
    <3>. QED BY <3>1 DEF Stores
  <2>. QED BY <1>1, <2>3, <2>8 DEF ProcessTransactionRecord
<1>3. CASE ~Invalidated(d, t, b)
  <2>1. Stands(d, t, b)
    BY <1>3 DEF Stands
  <2>2. ins = {} /\ debits = {}
    BY <2>1, InputsSpent DEF Account
  <2>3. Worth[{}] = 0
    BY WorthOfNothing
  <2>4. SpendCredits(d, t, b) = d
    <3>1. SpendCredits(d, t, b)
            = [d EXCEPT !.credits = d.credits \cup {<<x.out, x.credit>> : x \in debits},
                        !.spent = d.spent \cup {<<x.out, x.credit>> : x \in debits},
                        !.debits = d.debits \cup debits,
                        !.unspent = [o \in Outpoint |-> IF o \in ins THEN None ELSE d.unspent[o]],
                        !.balance = d.balance - Worth[ins]]
      BY <1>3 DEF SpendCredits
    <3>. HIDE DEF ins, debits
    <3>2. /\ d.credits \cup {<<x.out, x.credit>> : x \in debits} = d.credits
          /\ d.spent \cup {<<x.out, x.credit>> : x \in debits} = d.spent
          /\ d.debits \cup debits = d.debits
      BY <2>2
    <3>3. [o \in Outpoint |-> IF o \in ins THEN None ELSE d.unspent[o]] = d.unspent
      BY <2>2, FieldTypes
    <3>4. d.balance - Worth[ins] = d.balance
      BY <2>2, <2>3, FieldTypes
    <3>5. SpendCredits(d, t, b)
            = [d EXCEPT !.credits = d.credits, !.spent = d.spent, !.debits = d.debits,
                        !.unspent = d.unspent, !.balance = d.balance]
      BY <3>1, <3>2, <3>3, <3>4, Zenon
    <3>. QED BY <3>5 DEF Stores
  <2>5. {o \in outs : <<o, b>> \notin d.credits} = {}
    BY <2>1, Constants DEF Account, Books, Credited
  <2>6. AddCredits(d, t, b) = PutCredits(d, {}, b)
    BY <1>3, <2>5 DEF AddCredits
  <2>7. PutCredits(d, {}, b) = d
    <3>1. PutCredits(d, {}, b)
            = [d EXCEPT !.credits = d.credits \cup ({} \X {b}), !.spent = d.spent \ ({} \X {b}),
                        !.unspent = [o \in Outpoint |-> IF o \in {} THEN b ELSE d.unspent[o]],
                        !.balance = d.balance + Worth[{}]]
      BY DEF PutCredits
    <3>2. d.credits \cup ({} \X {b}) = d.credits /\ d.spent \ ({} \X {b}) = d.spent
      OBVIOUS
    <3>3. [o \in Outpoint |-> IF o \in {} THEN b ELSE d.unspent[o]] = d.unspent
      BY FieldTypes
    <3>4. d.balance + Worth[{}] = d.balance
      BY <2>3, FieldTypes
    <3>5. PutCredits(d, {}, b)
            = [d EXCEPT !.credits = d.credits, !.spent = d.spent, !.unspent = d.unspent,
                        !.balance = d.balance]
      BY <3>1, <3>2, <3>3, <3>4, Zenon
    <3>. QED BY <3>5 DEF Stores
  <2>. QED BY <1>1, <2>4, <2>6, <2>7 DEF ProcessTransactionRecord
<1>. QED BY <1>2, <1>3

-----------------------------------------------------------------------------
(* The balance *)

UnspentOutputs(d) == {o \in Outpoint : d.unspent[o] # None}

\* Some unspent outputs go and others come.
LEMMA Traded ==
  ASSUME NEW N \in SUBSET Outpoint, NEW A \in SUBSET Outpoint, NEW B \in SUBSET Outpoint,
         A \subseteq N, B \cap N = {}
  PROVE  Worth[(N \ A) \cup B] = Worth[N] - Worth[A] + Worth[B]
<1>1. Worth[(N \ A) \cup B] = Worth[N \ A] + Worth[B]
  BY TxAssumption
<1>2. Worth[(N \ A) \cup A] = Worth[N \ A] + Worth[A]
  BY TxAssumption
<1>3. (N \ A) \cup A = N
  OBVIOUS
<1>4. Worth[N] \in Int /\ Worth[A] \in Int /\ Worth[B] \in Int /\ Worth[N \ A] \in Int
  BY Constants
<1>5. Worth[(N \ A) \cup B] = Worth[N \ A] + Worth[B] /\ Worth[N] = Worth[N \ A] + Worth[A]
  BY <1>1, <1>2, <1>3
<1>. QED BY <1>4, <1>5

-----------------------------------------------------------------------------
(* The tip is disapproved. *)

LEMMA InvalidateKeeps ==
  ASSUME Orderly, NEW d, Good(d), Account(d), Disapproved(Tip(d)), Tip(d) \notin d.invalid
  PROVE  Account(StakeInvalidate(d, Tip(d)))
<1>. DEFINE b == Tip(d)
            e == StakeInvalidate(d, b)
            txs == Recorded(d, b) \cap Regular
            moved == {c \in d.credits : c[2] = b /\ \E t \in txs : Creates(t, c)}
            debits == {x \in d.debits : x.block = b /\ x.tx \in txs}
            movedOuts == {c[1] : c \in moved}
            outs == {x.out : x \in debits}
            the(o) == CHOOSE x \in debits : x.out = o
<1>1. /\ d \in Stores /\ e \in Stores /\ b \in Block /\ ValidChains /\ NoSpendsWithin
      /\ Lines(d) /\ InOrder(d) /\ Books(d) /\ Archived(d) /\ Waiting(d)
      /\ Chained(d) /\ Placed(d) /\ Judged(d) /\ Credited(d)
  BY StakeInvalidateGood, TipTyped DEF Good, Orderly, Account, Lines, Books
<1>2. /\ e.chain = d.chain /\ e.records = d.records /\ e.invalid = d.invalid \cup {b}
      /\ e.credits = d.credits \ moved /\ e.invCredits = d.invCredits \cup moved
      /\ e.debits = d.debits \ debits /\ e.invDebits = d.invDebits \cup debits
      /\ e.spent = d.spent \ {<<x.out, x.credit>> : x \in {y \in debits : y.credit # b}}
      /\ e.unmined = d.unmined /\ e.unminedCredits = d.unminedCredits
  BY <1>1 DEF StakeInvalidate, Stores
<1>3. e.balance = d.balance - Worth[movedOuts] + Worth[outs]
  BY <1>1 DEF StakeInvalidate, Stores
<1>4. e.unspent = [o \in Outpoint |->
        IF \E x \in debits : x.out = o THEN the(o).credit
        ELSE IF \E c \in moved : c[1] = o THEN None ELSE d.unspent[o]]
  BY <1>1 DEF StakeInvalidate, Stores
<1>5. Tip(e) = Tip(d) /\ Chained(e)
  BY <1>1, <1>2 DEF Tip, Chained
\* What stands: all but the regular transactions of b.
<1>6. \A t \in Tx, c \in Block :
        /\ Stands(e, t, c) <=> Stands(d, t, c) /\ ~(c = b /\ t \in Regular)
        /\ Fits(e, t, c) <=> Fits(d, t, c) /\ ~(c = b /\ t \in Regular)
  BY <1>2, <1>5 DEF Stands, Fits, Invalidated
<1>7. txs = {t \in Regular : <<t, b>> \in d.records} /\ \A t \in txs : Stands(d, t, b)
  BY DEF Recorded, Stands, Invalidated, Regular
<1>8. \A o \in Outpoint, c \in Block :
        <<o, c>> \in moved <=> c = b /\ <<o, b>> \in d.credits /\ \E t \in txs : o \in Outputs[t]
  BY DEF Creates
<1>9. \A x \in Debits : x \in debits <=> x \in d.debits /\ x.block = b /\ x.tx \in Regular
  BY <1>1, <1>7 DEF Books, Debited, Stands
<1>10. moved \in SUBSET Coins /\ debits \in SUBSET Debits
  BY <1>1, FieldTypes
<1>. HIDE DEF moved, debits, txs, e, the
<1>11. Judged(e) /\ Placed(e)
  <2>1. ASSUME NEW x \in e.invalid PROVE x \in Line(Tip(e)) \cup {Genesis} /\ Disapproved(x)
    <3>1. CASE x \in d.invalid
      BY <1>1, <1>5, <3>1 DEF Judged
    <3>2. CASE x = b
      BY <1>1, <1>5, <3>2, OwnLine
    <3>. QED BY <1>2, <2>1, <3>1, <3>2
  <2>2. Placed(e)
    BY <1>1, <1>2, <1>5 DEF Placed
  <2>. QED BY <1>1, <1>2, <1>5, <2>1, <2>2 DEF Judged
<1>12. Lines(e)
  BY <1>5, <1>11 DEF Lines
<1>13. InOrder(e)
  BY <1>1, <1>2 DEF InOrder, Full, Recorded
\* No coin that goes was spent, and no debit that goes is of one that does.
<1>14. ASSUME NEW x \in d.debits, NEW t \in txs, x.out \in Outputs[t], x.out \in Owned PROVE FALSE
  <2>1. x \in Debits
    BY <1>1, FieldTypes
  <2>2. /\ x.tx \in Tx /\ x.block \in Block /\ Stands(d, x.tx, x.block)
        /\ x.out \in Inputs[x.tx]
    BY <1>1, <2>1, DebitFields DEF Books, Debited
  <2>3. t \in Tx /\ t \in Regular /\ Fits(d, t, b) /\ t \in MinedTxs(b)
    BY <1>1, <1>7, StandsFits DEF Regular, Fits
  <2>4. Fits(d, x.tx, x.block)
    BY <1>1, <2>2, StandsFits
  <2>5. CASE x.block = b /\ x.tx \in Regular
    <3>1. x.tx \in MinedTxs(b)
      BY <2>4, <2>5 DEF Fits
    <3>. QED BY <1>1, <1>14, <2>2, <2>3, <2>5, <3>1 DEF NoSpendsWithin
  <2>6. CASE ~(x.block = b /\ x.tx \in Regular)
    <3>1. Fits(e, x.tx, x.block)
      BY <1>6, <2>2, <2>4, <2>6
    <3>2. PICK c \in Line(x.block) : Fits(e, t, c)
      BY <1>1, <1>5, <1>11, <1>14, <2>2, <2>3, <3>1, MakerFits
    <3>3. c \in Block
      BY <2>2, <3>2, InLine
    <3>4. Fits(d, t, c) /\ ~(c = b /\ t \in Regular)
      BY <1>6, <2>3, <3>2, <3>3
    <3>5. c = b
      BY <1>1, <2>3, <3>3, <3>4, OneBlock
    <3>. QED BY <2>3, <3>4, <3>5
  <2>. QED BY <2>5, <2>6
<1>15. ASSUME NEW x \in d.debits PROVE <<x.out, x.credit>> \in e.credits
  <2>1. x \in Debits /\ x.out \in Outpoint /\ x.credit \in Block /\ <<x.out, x.credit>> \in d.credits
    BY <1>1, FieldTypes, DebitFields DEF Books, Debited
  <2>2. x.out \in Owned
    BY <1>1, <2>1 DEF Credited
  <2>3. <<x.out, x.credit>> \notin moved
    BY <1>8, <1>14, <2>1, <2>2
  <2>. QED BY <1>2, <2>1, <2>3
<1>16. \A x \in debits : x.credit # b
  <2>. SUFFICES ASSUME NEW x \in debits, x.credit = b PROVE FALSE
    OBVIOUS
  <2>1. /\ x \in Debits /\ x \in d.debits /\ x.out \in Outpoint
        /\ <<x.out, b>> \in d.credits /\ x.block = b /\ x.tx \in Regular /\ x.tx \in Tx
        /\ x.out \in Inputs[x.tx] /\ Stands(d, x.tx, b)
    BY <1>1, <1>9, <1>10, DebitFields DEF Books, Debited
  <2>2. PICK t \in Tx : x.out \in Owned /\ x.out \in Outputs[t] /\ Stands(d, t, b)
    BY <1>1, <2>1 DEF Credited
  <2>3. x.tx \in MinedTxs(b) /\ t \in MinedTxs(b)
    BY <1>1, <2>1, <2>2, StandsFits DEF Fits
  <2>. QED BY <1>1, <2>1, <2>2, <2>3 DEF NoSpendsWithin
<1>17. Credited(e)
  <2>. SUFFICES ASSUME NEW o \in Outpoint, NEW c \in Block
                PROVE  <<o, c>> \in e.credits
                         <=> o \in Owned /\ \E t \in Tx : o \in Outputs[t] /\ Stands(e, t, c)
    BY DEF Credited
  <2>1. ASSUME <<o, c>> \in e.credits
        PROVE  o \in Owned /\ \E t \in Tx : o \in Outputs[t] /\ Stands(e, t, c)
    <3>1. <<o, c>> \in d.credits /\ <<o, c>> \notin moved
      BY <1>2, <2>1
    <3>2. PICK t \in Tx : o \in Owned /\ o \in Outputs[t] /\ Stands(d, t, c)
      BY <1>1, <3>1 DEF Credited
    <3>3. ~(c = b /\ t \in Regular)
      BY <1>7, <1>8, <3>1, <3>2 DEF Stands
    <3>. QED BY <1>6, <3>2, <3>3
  <2>2. ASSUME NEW t \in Tx, o \in Owned, o \in Outputs[t], Stands(e, t, c)
        PROVE  <<o, c>> \in e.credits
    <3>1. Stands(d, t, c) /\ ~(c = b /\ t \in Regular)
      BY <1>6, <2>2
    <3>2. <<o, c>> \in d.credits
      BY <1>1, <2>2, <3>1 DEF Credited
    <3>3. <<o, c>> \notin moved
      <4>. SUFFICES ASSUME <<o, c>> \in moved PROVE FALSE
        OBVIOUS
      <4>1. PICK u \in txs : c = b /\ o \in Outputs[u]
        BY <1>8
      <4>. QED BY <1>7, <2>2, <3>1, <4>1, OneMaker DEF Regular
    <3>. QED BY <1>2, <3>2, <3>3
  <2>. QED BY <2>1, <2>2
<1>18. Debited(e)
  <2>. SUFFICES ASSUME NEW x \in Debits
                PROVE  x \in e.debits <=> /\ Stands(e, x.tx, x.block) /\ x.out \in Inputs[x.tx]
                                          /\ <<x.out, x.credit>> \in e.credits
    BY DEF Debited
  <2>1. x.tx \in Tx /\ x.block \in Block
    BY DebitFields
  <2>2. x \in d.debits <=> /\ Stands(d, x.tx, x.block) /\ x.out \in Inputs[x.tx]
                           /\ <<x.out, x.credit>> \in d.credits
    BY <1>1 DEF Books, Debited
  <2>3. Stands(e, x.tx, x.block) <=> Stands(d, x.tx, x.block) /\ ~(x.block = b /\ x.tx \in Regular)
    BY <1>6, <2>1
  <2>4. x \in e.debits <=> x \in d.debits /\ ~(x.block = b /\ x.tx \in Regular)
    BY <1>2, <1>9
  <2>. QED BY <1>2, <1>15, <2>2, <2>3, <2>4
<1>19. Flagged(e)
  <2>. SUFFICES ASSUME NEW o \in Outpoint, NEW c \in Block
                PROVE  <<o, c>> \in e.spent <=> \E x \in e.debits : x.out = o /\ x.credit = c
    BY DEF Flagged
  <2>1. <<o, c>> \in d.spent <=> \E x \in d.debits : x.out = o /\ x.credit = c
    BY <1>1 DEF Books, Flagged
  <2>2. <<o, c>> \in e.spent
          <=> <<o, c>> \in d.spent /\ ~\E x \in debits : x.out = o /\ x.credit = c
    BY <1>2, <1>16
  <2>3. ASSUME NEW x \in d.debits, NEW y \in debits, x.out = y.out PROVE x = y
    BY <1>1, <1>2, <1>9, <1>10, <2>3, OneDebit DEF Books
  <2>. QED BY <1>2, <2>1, <2>2, <2>3
<1>20. ASSUME NEW x \in debits, NEW c \in moved PROVE c[1] # x.out
  <2>. SUFFICES ASSUME c[1] = x.out PROVE FALSE
    OBVIOUS
  <2>1. c = <<x.out, c[2]>> /\ c[2] \in Block /\ x.out \in Outpoint
    BY <1>10, <1>20 DEF Coins
  <2>2. PICK t \in txs : x.out \in Outputs[t] /\ <<x.out, b>> \in d.credits
    BY <1>8, <1>20, <2>1
  <2>3. x.out \in Owned
    BY <1>1, <2>1, <2>2 DEF Credited
  <2>. QED BY <1>9, <1>10, <1>14, <1>20, <2>2, <2>3
<1>21. /\ \A o \in Outpoint : \A x \in debits : x.out = o => e.unspent[o] = x.credit
       /\ \A o \in Outpoint : \A c \in moved : c[1] = o => e.unspent[o] = None
  <2>1. ASSUME NEW o \in Outpoint, NEW x \in debits, x.out = o PROVE e.unspent[o] = x.credit
    <3>1. \A y \in debits : y.out = o => y = x
      BY <1>1, <1>9, <1>10, <2>1, OneDebit DEF Books
    <3>2. (\E y \in debits : y.out = o) /\ ~\E c \in moved : c[1] = o
      BY <1>20, <2>1
    <3>3. the(o) \in debits /\ the(o).out = o
      BY <3>2, Zenon DEF the
    <3>4. e.unspent[o] = the(o).credit
      BY <1>4, <3>2
    <3>. QED BY <3>1, <3>3, <3>4
  <2>2. ASSUME NEW o \in Outpoint, NEW c \in moved, c[1] = o PROVE e.unspent[o] = None
    <3>1. ~\E y \in debits : y.out = o
      BY <1>20, <2>2
    <3>. QED BY <1>4, <2>2, <3>1
  <2>. QED BY <2>1, <2>2
<1>22. ASSUME NEW o \in Outpoint, ~\E x \in debits : x.out = o, ~\E c \in moved : c[1] = o
       PROVE  e.unspent[o] = d.unspent[o]
  BY <1>4, <1>22
<1>23. Indexed(e)
  <2>. SUFFICES ASSUME NEW o \in Outpoint, NEW c \in Block
                PROVE  e.unspent[o] = c <=> <<o, c>> \in e.credits /\ <<o, c>> \notin e.spent
    BY DEF Indexed
  <2>1. CASE \E x \in debits : x.out = o
    <3>1. PICK x \in debits : x.out = o
      BY <2>1
    <3>2. x \in d.debits /\ x \in Debits /\ x.credit \in Block /\ x \notin e.debits
      BY <1>2, <1>9, <1>10, DebitFields
    <3>3. e.unspent[o] = x.credit /\ <<o, x.credit>> \in e.credits
      BY <1>15, <1>21, <3>1, <3>2
    <3>4. <<o, x.credit>> \notin e.spent
      BY <1>2, <1>16, <3>1
    <3>. QED BY <1>1, <1>12, <1>17, <3>2, <3>3, <3>4, OneCoin
  <2>2. CASE \E m \in moved : m[1] = o
    <3>1. PICK m \in moved : m[1] = o
      BY <2>2
    <3>2. m = <<o, m[2]>> /\ m[2] \in Block
      BY <1>10, <3>1 DEF Coins
    <3>3. <<o, b>> \in moved /\ <<o, b>> \in d.credits
      BY <1>1, <1>8, <3>1, <3>2
    <3>4. e.unspent[o] = None
      BY <1>21, <3>1
    <3>5. <<o, c>> \notin e.credits
      BY <1>1, <1>2, <3>3, OneCoin
    <3>. QED BY <3>4, <3>5, Constants
  <2>3. CASE ~(\E x \in debits : x.out = o) /\ ~(\E m \in moved : m[1] = o)
    <3>1. e.unspent[o] = d.unspent[o]
      BY <1>22, <2>3
    <3>2. <<o, c>> \in e.credits <=> <<o, c>> \in d.credits
      BY <1>2, <2>3
    <3>3. <<o, c>> \in e.spent <=> <<o, c>> \in d.spent
      BY <1>2, <2>3
    <3>. QED BY <1>1, <3>1, <3>2, <3>3 DEF Books, Indexed
  <2>. QED BY <2>1, <2>2, <2>3
<1>24. Summed(e)
  <2>. DEFINE N == UnspentOutputs(d)
  <2>1. N \in SUBSET Outpoint /\ movedOuts \in SUBSET Outpoint /\ outs \in SUBSET Outpoint
    BY <1>10, CreditsTyped, DebitsTyped DEF UnspentOutputs
  <2>2. movedOuts \subseteq N
    <3>. SUFFICES ASSUME NEW m \in moved PROVE m[1] \in N
      OBVIOUS
    <3>1. m = <<m[1], m[2]>> /\ m[1] \in Outpoint /\ m[2] \in Block
      BY <1>10 DEF Coins
    <3>2. PICK t \in txs : m[1] \in Outputs[t] /\ <<m[1], b>> \in d.credits
      BY <1>8, <3>1
    <3>3. m[1] \in Owned
      BY <1>1, <3>1, <3>2 DEF Credited
    <3>4. <<m[1], b>> \notin d.spent
      BY <1>1, <1>14, <3>1, <3>2, <3>3 DEF Books, Flagged
    <3>5. d.unspent[m[1]] = b
      BY <1>1, <3>1, <3>2, <3>4 DEF Books, Indexed
    <3>. QED BY <1>1, <3>1, <3>5, Constants DEF UnspentOutputs
  <2>3. outs \cap N = {}
    <3>. SUFFICES ASSUME NEW x \in debits PROVE d.unspent[x.out] = None
      BY DEF UnspentOutputs
    <3>1. x \in Debits /\ x \in d.debits
      BY <1>9, <1>10
    <3>2. x.tx \in Tx /\ x.block \in Block /\ Stands(d, x.tx, x.block) /\ x.out \in Inputs[x.tx]
      BY <1>1, <3>1, DebitFields DEF Books, Debited
    <3>. QED BY <1>1, <3>2, InputsSpent
  <2>4. UnspentOutputs(e) = (N \ movedOuts) \cup outs
    <3>. SUFFICES ASSUME NEW o \in Outpoint
                  PROVE  e.unspent[o] # None <=> (o \in N /\ o \notin movedOuts) \/ o \in outs
      BY <2>1 DEF UnspentOutputs
    <3>1. CASE \E x \in debits : x.out = o
      BY <1>10, <1>21, <3>1, DebitFields, Constants
    <3>2. CASE \E m \in moved : m[1] = o
      <4>1. e.unspent[o] = None /\ o \in movedOuts
        BY <1>21, <3>2
      <4>2. o \notin outs
        BY <2>2, <2>3, <4>1
      <4>. QED BY <4>1, <4>2
    <3>3. CASE ~(\E x \in debits : x.out = o) /\ ~(\E m \in moved : m[1] = o)
      BY <1>22, <3>3 DEF UnspentOutputs
    <3>. QED BY <3>1, <3>2, <3>3
  <2>. HIDE DEF movedOuts, outs, N
  <2>5. Worth[UnspentOutputs(e)] = Worth[N] - Worth[movedOuts] + Worth[outs]
    BY <2>1, <2>2, <2>3, <2>4, Traded
  <2>6. d.balance = Worth[N]
    BY <1>1 DEF Books, Summed, N, UnspentOutputs
  <2>. QED BY <1>3, <2>5, <2>6 DEF Summed, UnspentOutputs
<1>25. Archived(e)
  <2>1. ASSUME NEW o \in Outpoint, NEW c \in Block, <<o, c>> \in e.invCredits PROVE o \in Owned
    BY <1>1, <1>2, <1>8, <2>1 DEF Archived, Credited
  <2>2. ASSUME NEW t \in Tx, NEW c \in Block, <<t, c>> \in e.records, Invalidated(e, t, c)
        PROVE  /\ \A o \in Outputs[t] : o \in Owned => <<o, c>> \in e.invCredits
               /\ \A o \in Inputs[t], h \in Block :
                    <<o, h>> \in e.credits => Debit(t, c, o, h) \in e.invDebits
    <3>1. CASE c \in d.invalid
      <4>1. <<t, c>> \in d.records /\ Invalidated(d, t, c)
        BY <1>2, <2>2, <3>1 DEF Invalidated
      <4>. QED BY <1>1, <1>2, <4>1 DEF Archived
    <3>2. CASE c = b
      <4>1. t \in txs /\ t \in Regular /\ Stands(d, t, b)
        BY <1>2, <1>7, <2>2, <3>2 DEF Invalidated
      <4>2. ASSUME NEW o \in Outputs[t], o \in Owned PROVE <<o, c>> \in e.invCredits
        <5>1. o \in Outpoint
          BY Constants
        <5>2. <<o, b>> \in d.credits
          BY <1>1, <4>1, <4>2, <5>1 DEF Credited
        <5>. QED BY <1>1, <1>2, <1>8, <3>2, <4>1, <5>1, <5>2
      <4>3. ASSUME NEW o \in Inputs[t], NEW h \in Block, <<o, h>> \in e.credits
            PROVE  Debit(t, c, o, h) \in e.invDebits
        <5>1. o \in Outpoint /\ <<o, h>> \in d.credits
          BY <1>2, <4>3, Constants
        <5>. DEFINE x == Debit(t, c, o, h)
        <5>2. x \in Debits /\ x.tx = t /\ x.block = c /\ x.out = o /\ x.credit = h
          BY <5>1, DebitTyped
        <5>. HIDE DEF x
        <5>3. x \in d.debits
          BY <1>1, <3>2, <4>1, <5>1, <5>2 DEF Books, Debited
        <5>4. x \in debits
          BY <1>9, <3>2, <4>1, <5>2, <5>3
        <5>. QED BY <1>2, <5>4 DEF x
      <4>. QED BY <4>2, <4>3
    <3>. QED BY <1>2, <2>2, <3>1, <3>2 DEF Invalidated
  <2>3. ASSUME NEW x \in debits PROVE Earned(x)
    <3>1. /\ x \in Debits /\ x \in d.debits /\ x.out \in Outpoint
          /\ x.credit \in Block /\ x.tx \in Tx /\ x.block = b
      BY <1>9, <1>10, DebitFields
    <3>2. /\ Stands(d, x.tx, b) /\ x.out \in Inputs[x.tx] /\ <<x.out, x.credit>> \in d.credits
      BY <1>1, <3>1 DEF Books, Debited
    <3>3. PICK u \in Tx : x.out \in Owned /\ x.out \in Outputs[u] /\ Stands(d, u, x.credit)
      BY <1>1, <3>1, <3>2 DEF Credited
    <3>4. Fits(d, x.tx, b) /\ Fits(d, u, x.credit)
      BY <1>1, <3>1, <3>2, <3>3, StandsFits
    <3>5. x.tx \in MinedTxs(b)
      BY <3>4 DEF Fits
    <3>6. x.credit \in Line(b) /\ Counts(ChainTo[b], Height(x.credit), u)
      BY <1>1, <3>1, <3>4, FitsCounts
    <3>. QED BY <1>16, <3>1, <3>2, <3>3, <3>5, <3>6 DEF Earned
  <2>4. \A x \in e.invDebits : Earned(x)
    BY <1>1, <1>2, <2>3 DEF Archived
  <2>. QED BY <2>1, <2>2, <2>4 DEF Archived
<1>26. Waiting(e)
  BY <1>1, <1>2 DEF Waiting
<1>27. Books(e)
  BY <1>17, <1>18, <1>19, <1>23, <1>24 DEF Books
<1>. QED BY <1>12, <1>13, <1>25, <1>26, <1>27 DEF Account, e

-----------------------------------------------------------------------------
(* The tip is approved after all. *)

LEMMA ValidateKeeps ==
  ASSUME Orderly, NEW d, Good(d), Account(d), Tip(d) \in d.invalid
  PROVE  Account(StakeValidate(d, Tip(d)))
<1>. DEFINE b == Tip(d)
            e == StakeValidate(d, b)
            txs == Recorded(d, b) \cap Regular
            moved == {c \in d.invCredits : c[2] = b /\ \E t \in txs : Creates(t, c)}
            debits == {x \in d.invDebits : x.block = b /\ x.tx \in txs}
            spends == {<<x.out, x.credit>> : x \in debits}
            movedOuts == {c[1] : c \in moved}
            outs == {x.out : x \in debits}
<1>1. /\ d \in Stores /\ e \in Stores /\ b \in Block /\ ValidChains /\ NoSpendsWithin
      /\ Lines(d) /\ InOrder(d) /\ Books(d) /\ Archived(d) /\ Waiting(d)
      /\ Chained(d) /\ Placed(d) /\ Judged(d) /\ Credited(d)
  BY StakeValidateGood, TipTyped DEF Good, Orderly, Account, Lines, Books
<1>2. /\ e.chain = d.chain /\ e.records = d.records /\ e.invalid = d.invalid \ {b}
      /\ e.credits = d.credits \cup moved \cup spends /\ e.invCredits = d.invCredits \ moved
      /\ e.debits = d.debits \cup debits /\ e.invDebits = d.invDebits \ debits
      /\ e.spent = d.spent \cup spends
      /\ e.unmined = d.unmined /\ e.unminedCredits = d.unminedCredits
  BY <1>1 DEF StakeValidate, Stores
<1>3. e.balance = d.balance + Worth[movedOuts] - Worth[outs]
  BY <1>1 DEF StakeValidate, Stores
<1>4. e.unspent = [o \in Outpoint |->
        IF \E x \in debits : x.out = o THEN None
        ELSE IF \E c \in moved : c[1] = o THEN b ELSE d.unspent[o]]
  BY <1>1 DEF StakeValidate, Stores
<1>5. Tip(e) = Tip(d) /\ Chained(e) /\ b \in d.invalid
  BY <1>1, <1>2 DEF Tip, Chained
\* What stands: the regular transactions of b do again.
<1>6. txs = {t \in Regular : <<t, b>> \in d.records} /\ \A t \in txs : t \in Tx /\ t \in Regular
  BY DEF Recorded, Regular
<1>7. \A t \in Tx, c \in Block :
        /\ Stands(e, t, c) <=> Stands(d, t, c) \/ (c = b /\ t \in txs)
        /\ Fits(d, t, c) => Fits(e, t, c) /\ ~(c = b /\ t \in Regular)
  BY <1>2, <1>5, <1>6 DEF Stands, Fits, Invalidated
<1>8. \A o \in Outpoint, c \in Block :
        <<o, c>> \in moved <=> c = b /\ o \in Owned /\ \E t \in txs : o \in Outputs[t]
  <2>. SUFFICES ASSUME NEW o \in Outpoint, NEW c \in Block
                PROVE  <<o, c>> \in moved <=> c = b /\ o \in Owned /\ \E t \in txs : o \in Outputs[t]
    OBVIOUS
  <2>1. ASSUME <<o, c>> \in moved PROVE c = b /\ o \in Owned /\ \E t \in txs : o \in Outputs[t]
    BY <1>1, <2>1 DEF Archived, Creates
  <2>2. ASSUME NEW t \in txs, c = b, o \in Owned, o \in Outputs[t] PROVE <<o, c>> \in moved
    <3>1. <<t, b>> \in d.records /\ Invalidated(d, t, b)
      BY <1>5, <1>6 DEF Invalidated
    <3>2. <<o, b>> \in d.invCredits
      BY <1>1, <1>6, <2>2, <3>1 DEF Archived
    <3>. QED BY <2>2, <3>2 DEF Creates
  <2>. QED BY <2>1, <2>2
<1>9. \A x \in Debits :
        x \in debits <=> x \in d.invDebits /\ x.block = b /\ x.tx \in Regular /\ <<x.tx, b>> \in d.records
  BY <1>6
<1>10. moved \in SUBSET Coins /\ debits \in SUBSET Debits
  BY <1>1, FieldTypes
<1>. HIDE DEF moved, debits, txs, e
<1>11. Judged(e) /\ Placed(e)
  BY <1>1, <1>2, <1>5 DEF Judged, Placed
<1>12. Lines(e)
  BY <1>5, <1>11 DEF Lines
<1>13. InOrder(e)
  BY <1>1, <1>2 DEF InOrder, Full, Recorded
<1>14. \A t \in txs : t \in Tx /\ t \in Regular /\ t \in MinedTxs(b) /\ Fits(e, t, b)
  <2>1. \A t \in txs : t \in Tx /\ Stands(e, t, b)
    BY <1>1, <1>6, <1>7
  <2>. QED BY <1>1, <1>6, <1>11, <2>1, StandsFits DEF Fits
\* A debit that comes back is of a coin that is there, ...
<1>15. ASSUME NEW x \in debits
       PROVE  <<x.out, x.credit>> \in d.credits /\ x.out \in Inputs[x.tx] /\ x.tx \in txs
  <2>1. /\ x \in Debits /\ Earned(x) /\ x.block = b /\ x.tx \in txs /\ x.out \in Outpoint
        /\ x.credit \in Block /\ <<x.tx, b>> \in d.records /\ x.tx \in Tx
    BY <1>1, <1>6, <1>9, <1>10, DebitFields DEF Archived, debits
  <2>2. PICK u \in Tx : x.out \in Outputs[u] /\ Counts(ChainTo[b], Height(x.credit), u)
    BY <2>1 DEF Earned
  <2>3. /\ x.credit \in Line(b) /\ x.credit # b /\ x.out \in Owned /\ x.out \in Inputs[x.tx]
    BY <2>1 DEF Earned
  <2>4. ChainTo[b][Height(x.credit)] = x.credit /\ Height(x.credit) \in 1 .. Height(b)
    BY <1>1, <2>3, InLine
  <2>5. Height(x.credit) # Len(ChainTo[b])
    <3>1. b \in Line(b)
      BY <1>1, <2>3, OwnLine, OfGenesis
    <3>. QED BY <1>1, <2>3, <3>1, SameHeight, LineFacts
  <2>6. u \in MinedTxs(x.credit) /\ (u \in Regular => ChainTo[b][Height(x.credit) + 1] \in Approves)
    BY <2>2, <2>4, <2>5 DEF Counts
  <2>7. <<u, x.credit>> \in d.records
    BY <1>1, <2>1, <2>3, <2>6 DEF InOrder, Full, Recorded
  <2>8. Stands(d, u, x.credit)
    BY <1>1, <2>3, <2>6, <2>7 DEF Stands, Invalidated, Judged
  <2>. QED BY <1>1, <2>1, <2>2, <2>3, <2>8 DEF Credited
\* ... and that nothing spends.
<1>16. ASSUME NEW x \in debits, NEW y \in d.debits, x.out = y.out PROVE FALSE
  <2>1. /\ y \in Debits /\ y.tx \in Tx /\ y.block \in Block /\ Stands(d, y.tx, y.block)
        /\ y.out \in Inputs[y.tx]
    BY <1>1, FieldTypes, DebitFields DEF Books, Debited
  <2>2. Fits(d, y.tx, y.block)
    BY <1>1, <2>1, StandsFits
  <2>3. Fits(e, y.tx, y.block) /\ ~(y.block = b /\ y.tx \in Regular)
    BY <1>7, <2>1, <2>2
  <2>4. x.tx \in Tx /\ x.tx \in Regular /\ Fits(e, x.tx, b) /\ x.out \in Inputs[x.tx]
    BY <1>14, <1>15
  <2>5. x.tx = y.tx /\ b = y.block
    BY <1>1, <1>5, <1>11, <1>16, <2>1, <2>3, <2>4, OneSpender
  <2>. QED BY <2>3, <2>4, <2>5
\* No coin that comes back is there, in this block or another.
<1>17. ASSUME NEW t \in txs, NEW o \in Outputs[t], NEW c \in Block, <<o, c>> \in d.credits PROVE FALSE
  <2>1. o \in Outpoint /\ t \in Tx /\ t \in Regular /\ Fits(e, t, b)
    BY <1>14, Constants
  <2>2. PICK u \in Tx : o \in Outputs[u] /\ Stands(d, u, c)
    BY <1>1, <1>17, <2>1 DEF Credited
  <2>3. u = t
    BY <2>1, <2>2, OneMaker
  <2>4. Fits(e, t, c) /\ ~(c = b /\ t \in Regular)
    BY <1>1, <1>7, <2>1, <2>2, <2>3, StandsFits
  <2>5. c = b
    BY <1>1, <1>5, <1>11, <2>1, <2>4, OneBlock
  <2>. QED BY <2>1, <2>4, <2>5
<1>18. \A c \in moved : /\ c = <<c[1], b>> /\ c[1] \in Outpoint /\ c[1] \in Owned
                        /\ \E t \in txs : c[1] \in Outputs[t]
  <2>. SUFFICES ASSUME NEW c \in moved
                PROVE  /\ c = <<c[1], b>> /\ c[1] \in Outpoint /\ c[1] \in Owned
                       /\ \E t \in txs : c[1] \in Outputs[t]
    OBVIOUS
  <2>1. c = <<c[1], c[2]>> /\ c[1] \in Outpoint /\ c[2] \in Block
    BY <1>10 DEF Coins
  <2>. QED BY <1>8, <2>1
<1>19. spends \subseteq d.credits /\ e.credits = d.credits \cup moved
  <2>1. spends \subseteq d.credits
    BY <1>15
  <2>. QED BY <1>2, <2>1
<1>20. ASSUME NEW x, x \in d.debits \/ x \in debits PROVE <<x.out, x.credit>> \in d.credits
  BY <1>1, <1>15, <1>20, FieldTypes DEF Books, Debited
<1>21. ASSUME NEW x, x \in d.debits \/ x \in debits, NEW c \in moved PROVE c[1] # x.out
  <2>1. x \in Debits /\ x.credit \in Block
    BY <1>1, <1>10, <1>21, FieldTypes, DebitFields
  <2>. QED BY <1>17, <1>18, <1>20, <1>21, <2>1
<1>22. Credited(e)
  <2>. SUFFICES ASSUME NEW o \in Outpoint, NEW c \in Block
                PROVE  <<o, c>> \in e.credits
                         <=> o \in Owned /\ \E t \in Tx : o \in Outputs[t] /\ Stands(e, t, c)
    BY DEF Credited
  <2>1. <<o, c>> \in d.credits <=> o \in Owned /\ \E t \in Tx : o \in Outputs[t] /\ Stands(d, t, c)
    BY <1>1 DEF Credited
  <2>2. \A t \in Tx : Stands(e, t, c) <=> Stands(d, t, c) \/ (c = b /\ t \in txs)
    BY <1>7
  <2>3. \A t \in txs : t \in Tx
    BY <1>14
  <2>. QED BY <1>8, <1>19, <2>1, <2>2, <2>3
<1>23. Debited(e)
  <2>. SUFFICES ASSUME NEW x \in Debits
                PROVE  x \in e.debits <=> /\ Stands(e, x.tx, x.block) /\ x.out \in Inputs[x.tx]
                                          /\ <<x.out, x.credit>> \in e.credits
    BY DEF Debited
  <2>1. /\ x.tx \in Tx /\ x.block \in Block /\ x.out \in Outpoint /\ x.credit \in Block
        /\ x = Debit(x.tx, x.block, x.out, x.credit)
    BY DebitFields
  <2>2. x \in d.debits <=> /\ Stands(d, x.tx, x.block) /\ x.out \in Inputs[x.tx]
                           /\ <<x.out, x.credit>> \in d.credits
    BY <1>1 DEF Books, Debited
  <2>3. Stands(e, x.tx, x.block) <=> Stands(d, x.tx, x.block) \/ (x.block = b /\ x.tx \in txs)
    BY <1>7, <2>1
  <2>4. x \in debits => /\ x.block = b /\ x.tx \in txs /\ x.out \in Inputs[x.tx]
                        /\ <<x.out, x.credit>> \in d.credits
    BY <1>9, <1>15
  <2>5. ASSUME Stands(d, x.tx, x.block), x.out \in Inputs[x.tx], <<x.out, x.credit>> \in moved
        PROVE  FALSE
    <3>1. PICK t \in txs : x.out \in Outputs[t] /\ x.out \in Owned
      BY <1>8, <2>1, <2>5
    <3>2. t \in Tx /\ t \in Regular /\ Fits(e, t, b) /\ Fits(d, x.tx, x.block)
      BY <1>1, <1>14, <2>1, <2>5, StandsFits
    <3>3. PICK c \in Line(x.block) : Fits(d, t, c)
      BY <1>1, <2>1, <2>5, <3>1, <3>2, MakerFits
    <3>4. c \in Block
      BY <2>1, <3>3, InLine
    <3>5. Fits(e, t, c) /\ ~(c = b /\ t \in Regular)
      BY <1>7, <3>2, <3>3, <3>4
    <3>6. c = b
      BY <1>1, <1>5, <1>11, <3>2, <3>4, <3>5, OneBlock
    <3>. QED BY <3>2, <3>5, <3>6
  <2>6. ASSUME x.block = b, x.tx \in txs, x.out \in Inputs[x.tx], <<x.out, x.credit>> \in e.credits
        PROVE  x \in debits
    <3>1. x.tx \in Regular /\ x.tx \in MinedTxs(b) /\ <<x.tx, b>> \in d.records
      BY <1>6, <1>14, <2>6
    <3>2. <<x.out, x.credit>> \notin moved
      <4>. SUFFICES ASSUME <<x.out, x.credit>> \in moved PROVE FALSE
        OBVIOUS
      <4>1. PICK t \in txs : x.out \in Outputs[t] /\ x.out \in Owned
        BY <1>8, <2>1
      <4>2. t \in MinedTxs(b)
        BY <1>14
      <4>. QED BY <1>1, <1>5, <2>6, <3>1, <4>1, <4>2 DEF NoSpendsWithin, Judged
    <3>3. <<x.out, x.credit>> \in d.credits
      BY <1>19, <2>6, <3>2
    <3>4. Debit(x.tx, b, x.out, x.credit) \in d.invDebits
      BY <1>1, <1>5, <2>1, <2>6, <3>1, <3>3 DEF Archived, Invalidated
    <3>. QED BY <1>9, <2>1, <2>6, <3>1, <3>4
  <2>. QED BY <1>2, <1>19, <2>2, <2>3, <2>4, <2>5, <2>6
<1>24. Flagged(e)
  <2>. SUFFICES ASSUME NEW o \in Outpoint, NEW c \in Block
                PROVE  <<o, c>> \in e.spent <=> \E x \in e.debits : x.out = o /\ x.credit = c
    BY DEF Flagged
  <2>1. <<o, c>> \in d.spent <=> \E x \in d.debits : x.out = o /\ x.credit = c
    BY <1>1 DEF Books, Flagged
  <2>2. <<o, c>> \in spends <=> \E x \in debits : x.out = o /\ x.credit = c
    OBVIOUS
  <2>. QED BY <1>2, <2>1, <2>2
<1>25. Indexed(e)
  <2>. SUFFICES ASSUME NEW o \in Outpoint, NEW c \in Block
                PROVE  e.unspent[o] = c <=> <<o, c>> \in e.credits /\ <<o, c>> \notin e.spent
    BY DEF Indexed
  <2>1. CASE \E x \in debits : x.out = o
    <3>1. PICK x \in debits : x.out = o
      BY <2>1
    <3>2. x.credit \in Block /\ <<o, x.credit>> \in e.credits /\ <<o, x.credit>> \in e.spent
      BY <1>2, <1>10, <1>19, <3>1, DebitFields
    <3>3. e.unspent[o] = None
      BY <1>4, <2>1
    <3>. QED BY <1>1, <1>12, <1>22, <3>2, <3>3, OneCoin, Constants
  <2>2. CASE (\E m \in moved : m[1] = o) /\ ~(\E x \in debits : x.out = o)
    <3>1. PICK m \in moved : m[1] = o
      BY <2>2
    <3>2. e.unspent[o] = b
      BY <1>4, <2>2
    <3>3. <<o, b>> \in e.credits
      BY <1>18, <1>19, <3>1
    <3>4. <<o, b>> \notin e.spent
      BY <1>1, <1>2, <1>21, <2>2, <3>1 DEF Books, Flagged
    <3>. QED BY <1>1, <1>12, <1>22, <3>2, <3>3, <3>4, OneCoin
  <2>3. CASE ~(\E x \in debits : x.out = o) /\ ~(\E m \in moved : m[1] = o)
    <3>1. e.unspent[o] = d.unspent[o]
      BY <1>4, <2>3
    <3>2. <<o, c>> \in e.credits <=> <<o, c>> \in d.credits
      BY <1>19, <2>3
    <3>3. <<o, c>> \in e.spent <=> <<o, c>> \in d.spent
      BY <1>2, <2>3
    <3>. QED BY <1>1, <3>1, <3>2, <3>3 DEF Books, Indexed
  <2>. QED BY <2>1, <2>2, <2>3
<1>26. Summed(e)
  <2>. DEFINE N == UnspentOutputs(d)
  <2>1. N \in SUBSET Outpoint /\ movedOuts \in SUBSET Outpoint /\ outs \in SUBSET Outpoint
    BY <1>10, CreditsTyped, DebitsTyped DEF UnspentOutputs
  <2>2. outs \subseteq N
    <3>. SUFFICES ASSUME NEW x \in debits PROVE x.out \in N
      OBVIOUS
    <3>1. x.out \in Outpoint /\ x.credit \in Block /\ <<x.out, x.credit>> \in d.credits
      BY <1>10, <1>15, DebitFields
    <3>2. <<x.out, x.credit>> \notin d.spent
      BY <1>1, <1>16, <3>1 DEF Books, Flagged
    <3>3. d.unspent[x.out] = x.credit
      BY <1>1, <3>1, <3>2 DEF Books, Indexed
    <3>. QED BY <3>1, <3>3, Constants DEF UnspentOutputs
  <2>3. movedOuts \cap N = {}
    <3>. SUFFICES ASSUME NEW m \in moved PROVE d.unspent[m[1]] = None
      BY DEF UnspentOutputs
    <3>1. m[1] \in Outpoint /\ \E t \in txs : m[1] \in Outputs[t]
      BY <1>18
    <3>2. d.unspent[m[1]] \in Block => <<m[1], d.unspent[m[1]]>> \in d.credits
      BY <1>1, <3>1 DEF Books, Indexed
    <3>3. d.unspent[m[1]] \in Block \cup {None}
      BY <1>1, <3>1, FieldTypes
    <3>. QED BY <1>17, <3>1, <3>2, <3>3
  <2>4. UnspentOutputs(e) = (N \ outs) \cup movedOuts
    <3>. SUFFICES ASSUME NEW o \in Outpoint
                  PROVE  e.unspent[o] # None <=> (o \in N /\ o \notin outs) \/ o \in movedOuts
      BY <2>1 DEF UnspentOutputs
    <3>1. CASE \E x \in debits : x.out = o
      <4>1. e.unspent[o] = None /\ o \in outs /\ o \notin movedOuts
        BY <1>4, <1>21, <3>1
      <4>. QED BY <4>1
    <3>2. CASE (\E m \in moved : m[1] = o) /\ ~(\E x \in debits : x.out = o)
      BY <1>1, <1>4, <3>2, Constants
    <3>3. CASE ~(\E x \in debits : x.out = o) /\ ~(\E m \in moved : m[1] = o)
      <4>1. e.unspent[o] = d.unspent[o] /\ o \notin outs /\ o \notin movedOuts
        BY <1>4, <3>3
      <4>. QED BY <4>1 DEF UnspentOutputs
    <3>. QED BY <3>1, <3>2, <3>3
  <2>. HIDE DEF movedOuts, outs, N
  <2>5. Worth[UnspentOutputs(e)] = Worth[N] - Worth[outs] + Worth[movedOuts]
    BY <2>1, <2>2, <2>3, <2>4, Traded
  <2>6. d.balance = Worth[N]
    BY <1>1 DEF Books, Summed, N, UnspentOutputs
  <2>7. Worth[N] \in Int /\ Worth[outs] \in Int /\ Worth[movedOuts] \in Int
    BY <2>1, Constants
  <2>8. e.balance = Worth[UnspentOutputs(e)]
    BY <1>3, <2>5, <2>6, <2>7
  <2>. QED BY <2>8 DEF Summed, UnspentOutputs
<1>27. Archived(e)
  <2>1. ASSUME NEW t \in Tx, NEW c \in Block, <<t, c>> \in e.records, Invalidated(e, t, c)
        PROVE  /\ \A o \in Outputs[t] : o \in Owned => <<o, c>> \in e.invCredits
               /\ \A o \in Inputs[t], h \in Block :
                    <<o, h>> \in e.credits => Debit(t, c, o, h) \in e.invDebits
    <3>1. <<t, c>> \in d.records /\ Invalidated(d, t, c) /\ c # b /\ t \in Regular /\ c \in d.invalid
      BY <1>2, <2>1 DEF Invalidated
    <3>2. \A o \in Outputs[t] : o \in Owned => <<o, c>> \in e.invCredits
      <4>. SUFFICES ASSUME NEW o \in Outputs[t], o \in Owned PROVE <<o, c>> \in e.invCredits
        OBVIOUS
      <4>1. <<o, c>> \in d.invCredits /\ o \in Outpoint
        BY <1>1, <3>1, Constants DEF Archived
      <4>2. <<o, c>> \notin moved
        BY <1>8, <3>1, <4>1
      <4>. QED BY <1>2, <4>1, <4>2
    <3>3. ASSUME NEW o \in Inputs[t], NEW h \in Block, <<o, h>> \in e.credits
          PROVE  Debit(t, c, o, h) \in e.invDebits
      <4>1. o \in Outpoint
        BY Constants
      <4>2. <<o, h>> \notin moved
        <5>. SUFFICES ASSUME <<o, h>> \in moved PROVE FALSE
          OBVIOUS
        <5>1. PICK u \in txs : o \in Outputs[u] /\ o \in Owned
          BY <1>8, <4>1
        <5>2. u \in Tx /\ u \in MinedTxs(b) /\ b \in Block \ {Genesis}
          BY <1>1, <1>5, <1>14, OfGenesis, LineFacts DEF Fits
        <5>3. c \in Line(b) /\ t \in MinedTxs(c) /\ c \in Block \ {Genesis}
          BY <1>1, <3>1, InLine DEF Placed
        <5>4. Counts(ChainTo[c], Height(c), t) /\ c \in Line(c) /\ Line(c) \subseteq Line(b)
          BY <1>1, <5>3, CountsHere, LineGrows
        <5>5. o \in Inputs[t] \cap Outputs[u] \cap Owned
          BY <5>1
        <5>6. PICK g \in Line(c) :
                /\ Counts(ChainTo[c], Height(g), u) /\ u \in MinedTxs(g)
                /\ g # c \/ Precedes(c, u, t)
          BY <1>1, <5>2, <5>4, <5>5, MadeBefore
        <5>7. CASE g = c
          BY <1>1, <3>1, <5>2, <5>3, <5>5, <5>6, <5>7 DEF NoSpendsWithin, Judged
        <5>8. CASE g # c
          <6>1. Counts(ChainTo[b], Height(g), u) /\ g \in Line(b)
            BY <1>1, <5>3, <5>4, <5>6, <5>8, CountsBelow
          <6>2. Counts(ChainTo[b], Height(b), u) /\ b \in Line(b)
            BY <5>2, CountsHere, OwnLine
          <6>3. g = b
            BY <1>1, <5>2, <6>1, <6>2, Once
          <6>4. Height(g) < Height(c) /\ Height(c) \in 1 .. Height(b) /\ Height(b) \in Nat
            BY <1>1, <5>3, <5>6, <5>8, CountsBelow, InLine, LineFacts
          <6>. QED BY <6>3, <6>4
        <5>. QED BY <5>7, <5>8
      <4>3. <<o, h>> \in d.credits
        BY <1>19, <3>3, <4>2
      <4>4. Debit(t, c, o, h) \in d.invDebits
        BY <1>1, <3>1, <4>3 DEF Archived
      <4>5. Debit(t, c, o, h) \notin debits
        <5>1. Debit(t, c, o, h) \in Debits /\ Debit(t, c, o, h).block = c
          BY <4>1, DebitTyped
        <5>. QED BY <1>9, <3>1, <5>1
      <4>. QED BY <1>2, <4>4, <4>5
    <3>. QED BY <3>2, <3>3
  <2>. QED BY <1>1, <1>2, <2>1 DEF Archived
<1>28. Waiting(e)
  BY <1>1, <1>2 DEF Waiting
<1>29. Books(e)
  BY <1>22, <1>23, <1>24, <1>25, <1>26 DEF Books
<1>. QED BY <1>12, <1>13, <1>27, <1>28, <1>29 DEF Account, e

-----------------------------------------------------------------------------
(* A block is attached. *)

\* What e and d have in common: all but the chain, the marker and what is unmined.
SameCoins(e, d) ==
  /\ e.invalid = d.invalid /\ e.records = d.records
  /\ e.credits = d.credits /\ e.spent = d.spent /\ e.debits = d.debits
  /\ e.unspent = d.unspent /\ e.balance = d.balance
  /\ e.invCredits = d.invCredits /\ e.invDebits = d.invDebits

LEMMA CoinsCarry ==
  ASSUME NEW d, NEW e, SameCoins(e, d)
  PROVE  /\ \A t, b : Stands(e, t, b) <=> Stands(d, t, b)
         /\ InOrder(d) => InOrder(e)
         /\ Books(d) => Books(e)
         /\ Archived(d) => Archived(e)
<1>1. \A t, b : /\ Stands(e, t, b) <=> Stands(d, t, b)
                /\ Invalidated(e, t, b) <=> Invalidated(d, t, b)
  BY DEF SameCoins, Stands, Invalidated
<1>2. InOrder(d) => InOrder(e)
  BY DEF SameCoins, InOrder, Full, Recorded
<1>3. Books(d) => Books(e)
  <2>1. Credited(d) => Credited(e)
    BY <1>1 DEF SameCoins, Credited
  <2>2. Debited(d) => Debited(e)
    BY <1>1 DEF SameCoins, Debited
  <2>3. (Flagged(d) => Flagged(e)) /\ (Indexed(d) => Indexed(e)) /\ (Summed(d) => Summed(e))
    BY DEF SameCoins, Flagged, Indexed, Summed
  <2>. QED BY <2>1, <2>2, <2>3 DEF Books
<1>4. Archived(d) => Archived(e)
  BY <1>1 DEF SameCoins, Archived
<1>. QED BY <1>1, <1>2, <1>3, <1>4

LEMMA JudgeRest ==
  ASSUME NEW d \in Stores, NEW b \in Block
  PROVE  /\ StakeInvalidate(d, b).invalid = d.invalid \cup {b}
         /\ StakeInvalidate(d, b).unmined = d.unmined
         /\ StakeValidate(d, b).invalid = d.invalid \ {b}
         /\ StakeValidate(d, b).unmined = d.unmined
<1>1. /\ StakeInvalidate(d, b).invalid = d.invalid \cup {b}
      /\ StakeInvalidate(d, b).unmined = d.unmined
  BY DEF StakeInvalidate, Stores
<1>2. /\ StakeValidate(d, b).invalid = d.invalid \ {b}
      /\ StakeValidate(d, b).unmined = d.unmined
  BY DEF StakeValidate, Stores
<1>. QED BY <1>1, <1>2

LEMMA ExtendAccount ==
  ASSUME Orderly, NEW d, Good(d), Account(d), NEW x \in Block \ {Genesis},
         ChainTo[x] = Append(ChainTo[Tip(d)], x)
  PROVE  LET e == ExtendMainChain(d, x) IN
         /\ Account(e) /\ Tip(e) = x /\ x \notin e.invalid /\ e.unmined = d.unmined
         /\ \A t \in Tx, b \in Block : Stands(e, t, b) =>
              Stands(d, t, b) \/ (b = Tip(d) /\ t \in Regular /\ Tip(d) \in d.invalid)
<1>. DEFINE y == Tip(d)
            j == CASE x \in Approves /\ y \in d.invalid -> StakeValidate(d, y)
                   [] x \notin Approves /\ y \notin d.invalid -> StakeInvalidate(d, y)
                   [] OTHER -> d
            e == ExtendMainChain(d, x)
<1>1. d \in Stores /\ y \in Block /\ e \in Stores /\ d.chain = ChainTo[y] /\ Chained(d)
  BY ExtendGood, TipTyped DEF Good, Account, Lines, Chained
<1>2. e = [j EXCEPT !.chain = Append(j.chain, x)]
  BY DEF ExtendMainChain
\* The tip is judged by the votes of x.
<1>3. /\ j \in Stores /\ Account(j) /\ j.chain = d.chain /\ j.unmined = d.unmined
      /\ j.records = d.records
      /\ y \in j.invalid <=> x \notin Approves
      /\ j.invalid \subseteq d.invalid \cup {y} /\ d.invalid \subseteq j.invalid \cup {y}
      /\ y \notin j.invalid => j = d \/ y \in d.invalid
  <2>1. CASE x \in Approves /\ y \in d.invalid
    <3>1. j = StakeValidate(d, y)
      BY <2>1
    <3>. HIDE DEF j
    <3>. QED BY <1>1, <2>1, <3>1, ValidateKeeps, StakeValidateGood, JudgeView, JudgeRest
             DEF Good, View
  <2>2. CASE x \notin Approves /\ y \notin d.invalid
    <3>1. j = StakeInvalidate(d, y)
      BY <2>2
    <3>2. Disapproved(y)
      BY <2>2 DEF Disapproved
    <3>. HIDE DEF j
    <3>. QED BY <1>1, <2>2, <3>1, <3>2, InvalidateKeeps, StakeInvalidateGood, JudgeView, JudgeRest
             DEF Good, View
  <2>3. CASE x \in Approves <=> y \notin d.invalid
    <3>1. j = d
      BY <2>3
    <3>. QED BY <1>1, <2>3, <3>1
  <2>. QED BY <2>1, <2>2, <2>3
<1>. HIDE DEF j, e
<1>4. /\ e.chain = Append(d.chain, x) /\ SameCoins(e, j)
      /\ e.unmined = d.unmined /\ e.unminedCredits = j.unminedCredits
  BY <1>2, <1>3 DEF SameCoins, Stores
<1>5. /\ ChainTo[y] \in Chains /\ Len(ChainTo[y]) = Height(y) /\ Height(y) \in Nat
      /\ Height(x) = Height(y) + 1 /\ ChainTo[x] \in Chains
      /\ \A i \in 1 .. Height(y) : ChainTo[x][i] = ChainTo[y][i]
      /\ ChainTo[x][Height(y) + 1] = x
  BY <1>1, LineFacts DEF Chains, Height
<1>6. Tip(e) = x /\ Chained(e)
  <2>1. e.chain = ChainTo[x] /\ e.chain # <<>> /\ ChainTo[x][Len(ChainTo[x])] = x
    BY <1>1, <1>4, <1>5, TreeAssumption
  <2>. QED BY <2>1 DEF Tip, Last, Chained
<1>7. Line(y) \subseteq Line(x) /\ \A z \in Line(x) : z # x => z \in Line(y) /\ Height(z) <= Height(y)
  <2>1. ASSUME NEW z \in Line(x), z # x PROVE z \in Line(y) /\ Height(z) <= Height(y)
    <3>1. Height(z) \in 1 .. Height(x) /\ ChainTo[x][Height(z)] = z
      BY <2>1, InLine
    <3>2. Height(z) # Height(y) + 1
      BY <1>5, <2>1, <3>1
    <3>3. Height(z) \in 1 .. Height(y)
      BY <1>5, <3>1, <3>2
    <3>4. ChainTo[y][Height(z)] = z
      BY <1>5, <3>1, <3>3
    <3>. QED BY <3>3, <3>4 DEF Line
  <2>2. ASSUME NEW z \in Line(y) PROVE z \in Line(x)
    <3>1. Height(z) \in 1 .. Height(y) /\ ChainTo[y][Height(z)] = z
      BY <1>1, InLine
    <3>2. Height(z) \in 1 .. Height(x) /\ ChainTo[x][Height(z)] = z
      BY <1>5, <3>1
    <3>. QED BY <3>2 DEF Line
  <2>. QED BY <2>1, <2>2
<1>8. x \notin Line(y) /\ x # y
  <2>1. \A z \in Line(y) : Height(z) <= Height(y)
    BY <1>1, <1>5, InLine
  <2>. QED BY <1>5, <2>1
<1>9. Placed(j) /\ Judged(j) /\ Tip(j) = y /\ Line(Tip(j)) = Line(y)
  BY <1>3 DEF Account, Lines, Tip
<1>10. Placed(e)
  BY <1>4, <1>6, <1>7, <1>9 DEF Placed, SameCoins
<1>11. x \notin e.invalid
  BY <1>4, <1>8, <1>9 DEF Judged, SameCoins
<1>12. Judged(e)
  <2>1. \A b \in e.invalid : b \in Line(x) \cup {Genesis} /\ Disapproved(b)
    BY <1>4, <1>7, <1>9 DEF Judged, SameCoins
  <2>2. ASSUME NEW b \in Line(x), b # x
        PROVE  b \in e.invalid <=> ChainTo[x][Height(b) + 1] \notin Approves
    <3>1. b \in Line(y) /\ Height(b) \in 1 .. Height(y) /\ Height(b) <= Height(y)
      BY <1>1, <1>7, <2>2, InLine
    <3>2. CASE b = y
      BY <1>3, <1>4, <1>5, <3>2 DEF SameCoins
    <3>3. CASE b # y
      <4>1. y \in Line(y)
        BY <1>1, <3>1, OwnLine, OfGenesis
      <4>2. Height(b) # Height(y)
        BY <1>1, <3>1, <3>3, <4>1, SameHeight
      <4>3. Height(b) + 1 \in 1 .. Height(y)
        BY <1>5, <3>1, <4>2
      <4>4. ChainTo[x][Height(b) + 1] = ChainTo[y][Height(b) + 1]
        BY <1>5, <4>3
      <4>. QED BY <1>4, <1>9, <3>1, <3>3, <4>4 DEF Judged, SameCoins
    <3>. QED BY <3>2, <3>3
  <2>. QED BY <1>6, <2>1, <2>2 DEF Judged
<1>13. InOrder(e) /\ Books(e) /\ Archived(e) /\ Waiting(e)
  BY <1>3, <1>4, CoinsCarry DEF Account, Waiting
<1>14. ASSUME NEW t \in Tx, NEW b \in Block, Stands(e, t, b)
       PROVE  Stands(d, t, b) \/ (b = y /\ t \in Regular /\ y \in d.invalid)
  <2>1. Stands(j, t, b)
    BY <1>4, <1>14, CoinsCarry
  <2>. QED BY <1>3, <2>1 DEF Stands, Invalidated
<1>15. Account(e)
  BY <1>6, <1>10, <1>12, <1>13 DEF Account, Lines
<1>. QED BY <1>4, <1>6, <1>11, <1>14, <1>15 DEF e

-----------------------------------------------------------------------------
(* The tip is rolled back. *)

\* What is unmined stands nowhere.
Apart(d) == \A t \in d.unmined, b \in Block : ~Stands(d, t, b)

LEMMA RollbackAccount ==
  ASSUME Orderly, NEW d, Good(d), Account(d), d.chain # <<>>
  PROVE  Account(RollbackBlock(d)) /\ (Apart(d) => Apart(RollbackBlock(d)))
<1>. DEFINE b == Last(d.chain)
            e == RollbackBlock(d)
            y == Tip(e)
            n == Height(b) - 1
            gone == Recorded(d, b)
            back == gone \ Coinbase
            debits == {x \in d.debits : x.block = b /\ x.tx \in gone}
            lost == {c \in d.credits : c[2] = b /\ \E t \in gone : Creates(t, c)}
            lostOuts == {c[1] : c \in lost}
            given == {x \in debits : x.credit # b /\ x.out \notin Ska}
            G == {x.out : x \in given}
            L == {o \in lostOuts : d.unspent[o] # None}
            the(o) == CHOOSE x \in given : x.out = o
<1>1. /\ d \in Stores /\ e \in Stores /\ b \in Block /\ ValidChains /\ Owned \cap Ska = {}
      /\ Lines(d) /\ InOrder(d) /\ Books(d) /\ Archived(d) /\ Waiting(d)
      /\ Chained(d) /\ Placed(d) /\ Judged(d) /\ Credited(d) /\ b = Tip(d)
  BY RollbackGood, TipTyped DEF Good, Orderly, Account, Lines, Books, Tip
<1>2. /\ e.chain = SubSeq(d.chain, 1, Len(d.chain) - 1) /\ e.invalid = d.invalid \ {b}
      /\ e.records = d.records \ (gone \X {b})
      /\ e.credits = d.credits \ lost /\ e.invCredits = d.invCredits
      /\ e.debits = d.debits \ debits /\ e.invDebits = d.invDebits
      /\ e.spent = d.spent \ (lost \cup {<<x.out, x.credit>> : x \in debits})
      /\ e.unmined = d.unmined \cup back
      /\ e.unminedCredits = d.unminedCredits \cup {o \in lostOuts : \E t \in back : o \in Outputs[t]}
  BY <1>1 DEF RollbackBlock, Stores
<1>3. e.balance = d.balance + Worth[G] - Worth[L]
  BY <1>1 DEF RollbackBlock, Stores
<1>4. e.unspent = [o \in Outpoint |->
        IF \E x \in given : x.out = o THEN the(o).credit
        ELSE IF o \in lostOuts THEN None ELSE d.unspent[o]]
  BY <1>1 DEF RollbackBlock, Stores
<1>. HIDE DEF e, b
<1>5. /\ d.chain = ChainTo[b] /\ b \in Block \ {Genesis} /\ Height(b) \in Nat \ {0}
      /\ Len(d.chain) = Height(b) /\ n \in 0 .. Height(b) /\ b \in Line(b)
  <2>1. d.chain = ChainTo[b] /\ Len(d.chain) = Height(b)
    BY <1>1, ChainedFacts
  <2>2. b # Genesis
    BY <2>1, TreeAssumption
  <2>3. Height(b) \in Nat \ {0} /\ b \in Line(b)
    BY <1>1, <2>2, OwnLine
  <2>4. n \in 0 .. Height(b)
    BY <2>3
  <2>. QED BY <1>1, <2>1, <2>2, <2>3, <2>4
<1>6. e.chain = SubSeq(ChainTo[b], 1, n)
  BY <1>2, <1>5
<1>7. /\ Chained(e) /\ y \in Block /\ Height(y) = n
      /\ Line(y) = {z \in Line(b) : Height(z) <= n}
      /\ n # 0 => y = ChainTo[b][n] /\ y \in Line(b)
  BY <1>1, <1>5, <1>6, Prefix
<1>8. Line(y) = Line(b) \ {b}
  <2>1. \A z \in Line(b) : Height(z) \in 1 .. Height(b) /\ (Height(z) = Height(b) => z = b)
    BY <1>1, <1>5, InLine, SameHeight
  <2>2. \A z \in Line(b) : Height(z) <= n <=> z # b
    BY <1>5, <2>1
  <2>. QED BY <1>7, <2>2
<1>9. \A t \in Tx, c \in Block :
        /\ <<t, c>> \in e.records <=> <<t, c>> \in d.records /\ c # b
        /\ Stands(e, t, c) <=> Stands(d, t, c) /\ c # b
  BY <1>2 DEF Recorded, Stands, Invalidated
<1>10. \A o \in Outpoint, c \in Block : <<o, c>> \in lost <=> <<o, c>> \in d.credits /\ c = b
  BY <1>1 DEF Credited, Stands, Creates, Recorded
<1>11. \A x \in Debits : x \in debits <=> x \in d.debits /\ x.block = b
  BY <1>1, DebitFields DEF Books, Debited, Stands, Recorded
<1>12. lost \in SUBSET Coins /\ debits \in SUBSET Debits
  BY <1>1, FieldTypes
<1>13. \A x \in d.debits : /\ x \in Debits /\ x.tx \in Tx /\ x.block \in Block
                           /\ x.out \in Outpoint /\ x.credit \in Block /\ x.out \in Owned
                           /\ Stands(d, x.tx, x.block) /\ x.out \in Inputs[x.tx]
                           /\ <<x.out, x.credit>> \in d.credits
  BY <1>1, FieldTypes, DebitFields DEF Books, Debited, Credited
<1>14. \A x \in Debits : x \in given <=> x \in d.debits /\ x.block = b /\ x.credit # b
  BY <1>1, <1>11, <1>13
<1>15. given \in SUBSET debits
  OBVIOUS
<1>. HIDE DEF lost, debits, given, the
<1>16. Placed(e)
  BY <1>1, <1>8, <1>9 DEF Placed
<1>17. Judged(e)
  <2>1. \A z \in e.invalid : z \in Line(y) \cup {Genesis} /\ Disapproved(z)
    BY <1>1, <1>2, <1>8 DEF Judged
  <2>2. ASSUME NEW z \in Line(y), z # y
        PROVE  z \in e.invalid <=> ChainTo[y][Height(z) + 1] \notin Approves
    <3>1. z \in Line(b) /\ z # b /\ Height(z) \in 1 .. n /\ y # Genesis
      BY <1>7, <1>8, <2>2, InLine, OfGenesis
    <3>5. Height(z) # n
      BY <1>7, <2>2, <3>1, SameHeight, OwnLine
    <3>2. Height(z) + 1 \in 1 .. n
      BY <1>5, <3>1, <3>5
    <3>3. ChainTo[y] = SubSeq(ChainTo[b], 1, n) /\ ChainTo[b] \in Chains
      BY <1>1, <1>6, <1>7, Constants DEF Chained
    <3>4. ChainTo[y][Height(z) + 1] = ChainTo[b][Height(z) + 1]
      BY <1>5, <3>2, <3>3 DEF Chains
    <3>. QED BY <1>1, <1>2, <3>1, <3>4 DEF Judged
  <2>. QED BY <2>1, <2>2 DEF Judged
<1>18. Lines(e)
  BY <1>7, <1>16, <1>17 DEF Lines
<1>19. InOrder(e)
  <2>. SUFFICES ASSUME NEW t \in Tx, NEW c \in Block, <<t, c>> \in e.records
                PROVE  /\ \A h \in Line(c) : h # c => Full(e, h)
                       /\ \A u \in Tx : Precedes(c, u, t) => <<u, c>> \in e.records
    BY DEF InOrder
  <2>1. <<t, c>> \in d.records /\ c # b /\ c \in Line(y)
    BY <1>7, <1>9, <1>16 DEF Placed
  <2>2. ASSUME NEW h \in Line(c), h # c PROVE Full(e, h)
    <3>1. Full(d, h) /\ h \in Block /\ h # b
      BY <1>1, <1>7, <1>8, <2>1, <2>2, LineGrows, InLine DEF InOrder
    <3>2. Recorded(e, h) = Recorded(d, h)
      BY <1>9, <3>1 DEF Recorded
    <3>. QED BY <3>1, <3>2 DEF Full
  <2>. QED BY <1>1, <1>9, <2>1, <2>2 DEF InOrder
\* What stays spends no coin that goes.
<1>20. ASSUME NEW x \in d.debits, x.block # b PROVE x.credit # b
  <2>. SUFFICES ASSUME x.credit = b PROVE FALSE
    OBVIOUS
  <2>1. PICK u \in Tx : x.out \in Outputs[u] /\ Stands(d, u, b)
    BY <1>1, <1>13 DEF Credited
  <2>2. Fits(d, u, b) /\ Fits(d, x.tx, x.block)
    BY <1>1, <1>13, <2>1, StandsFits
  <2>3. PICK c \in Line(x.block) : Fits(d, u, c)
    BY <1>1, <1>13, <2>1, <2>2, MakerFits
  <2>4. c = b
    BY <1>1, <1>13, <2>2, <2>3, OneBlock, InLine
  <2>5. x.block \in Line(y)
    BY <1>1, <1>8, <1>20, <2>2 DEF Fits
  <2>. QED BY <1>7, <1>8, <2>3, <2>4, <2>5, LineGrows
<1>21. Credited(e)
  <2>. SUFFICES ASSUME NEW o \in Outpoint, NEW c \in Block
                PROVE  <<o, c>> \in e.credits
                         <=> o \in Owned /\ \E t \in Tx : o \in Outputs[t] /\ Stands(e, t, c)
    BY DEF Credited
  <2>1. <<o, c>> \in d.credits <=> o \in Owned /\ \E t \in Tx : o \in Outputs[t] /\ Stands(d, t, c)
    BY <1>1 DEF Credited
  <2>2. <<o, c>> \in e.credits <=> <<o, c>> \in d.credits /\ c # b
    BY <1>2, <1>10
  <2>. QED BY <1>9, <2>1, <2>2
<1>22. Debited(e)
  <2>. SUFFICES ASSUME NEW x \in Debits
                PROVE  x \in e.debits <=> /\ Stands(e, x.tx, x.block) /\ x.out \in Inputs[x.tx]
                                          /\ <<x.out, x.credit>> \in e.credits
    BY DEF Debited
  <2>1. x.tx \in Tx /\ x.block \in Block /\ x.out \in Outpoint /\ x.credit \in Block
    BY DebitFields
  <2>2. x \in d.debits <=> /\ Stands(d, x.tx, x.block) /\ x.out \in Inputs[x.tx]
                           /\ <<x.out, x.credit>> \in d.credits
    BY <1>1 DEF Books, Debited
  <2>3. x \in e.debits <=> x \in d.debits /\ x.block # b
    BY <1>2, <1>11
  <2>4. <<x.out, x.credit>> \in e.credits <=> <<x.out, x.credit>> \in d.credits /\ x.credit # b
    BY <1>2, <1>10, <2>1
  <2>. QED BY <1>9, <1>20, <2>1, <2>2, <2>3, <2>4
<1>23. ASSUME NEW x \in d.debits, NEW z \in debits, x.out = z.out PROVE x = z
  BY <1>1, <1>11, <1>12, <1>23, OneDebit DEF Books
<1>24. \A o \in Outpoint, c \in Block : <<o, c>> \in e.spent <=>
         /\ <<o, c>> \in d.spent /\ ~(<<o, c>> \in d.credits /\ c = b)
         /\ ~\E x \in debits : x.out = o /\ x.credit = c
  BY <1>2, <1>10
<1>25. Flagged(e)
  <2>. SUFFICES ASSUME NEW o \in Outpoint, NEW c \in Block
                PROVE  <<o, c>> \in e.spent <=> \E x \in e.debits : x.out = o /\ x.credit = c
    BY DEF Flagged
  <2>1. <<o, c>> \in d.spent <=> \E x \in d.debits : x.out = o /\ x.credit = c
    BY <1>1 DEF Books, Flagged
  <2>2. \A x \in d.debits : x \notin debits => x.credit # b
    BY <1>11, <1>13, <1>20
  <2>. QED BY <1>2, <1>23, <1>24, <2>1, <2>2
<1>26. \A x \in given : /\ x \in d.debits /\ x \in debits /\ x.out \in Outpoint
                        /\ x.credit \in Block /\ x.credit # b /\ <<x.out, x.credit>> \in d.credits
  BY <1>12, <1>13, <1>14, <1>15
<1>27. ASSUME NEW x \in given PROVE e.unspent[x.out] = x.credit
  <2>1. \A z \in given : z.out = x.out => z = x
    BY <1>23, <1>26
  <2>2. the(x.out) \in given /\ the(x.out).out = x.out
    BY Zenon DEF the
  <2>3. e.unspent[x.out] = the(x.out).credit
    BY <1>4, <1>26
  <2>. QED BY <2>1, <2>2, <2>3
<1>28. /\ lostOuts \in SUBSET Outpoint
       /\ \A o \in Outpoint : o \in lostOuts <=> <<o, b>> \in d.credits
  <2>1. lostOuts \in SUBSET Outpoint
    BY <1>12, CreditsTyped
  <2>2. ASSUME NEW o \in Outpoint, o \in lostOuts PROVE <<o, b>> \in d.credits
    <3>1. PICK m \in lost : m[1] = o
      BY <2>2
    <3>2. m = <<o, m[2]>> /\ m[2] \in Block
      BY <1>12, <3>1 DEF Coins
    <3>. QED BY <1>10, <3>2
  <2>3. ASSUME NEW o \in Outpoint, <<o, b>> \in d.credits PROVE o \in lostOuts
    <3>1. <<o, b>> \in lost /\ <<o, b>>[1] = o
      BY <1>1, <1>10, <2>3
    <3>. QED BY <3>1
  <2>. QED BY <2>1, <2>2, <2>3
<1>29. \A x \in given : x.out \notin lostOuts
  BY <1>1, <1>26, <1>28, OneCoin
<1>. HIDE DEF lostOuts
<1>30. Indexed(e)
  <2>. SUFFICES ASSUME NEW o \in Outpoint, NEW c \in Block
                PROVE  e.unspent[o] = c <=> <<o, c>> \in e.credits /\ <<o, c>> \notin e.spent
    BY DEF Indexed
  <2>1. <<o, c>> \in e.credits <=> <<o, c>> \in d.credits /\ c # b
    BY <1>2, <1>10
  <2>2. CASE \E x \in given : x.out = o
    <3>1. PICK x \in given : x.out = o
      BY <2>2
    <3>2. e.unspent[o] = x.credit /\ <<o, x.credit>> \in d.credits /\ x.credit # b
      BY <1>26, <1>27, <3>1
    <3>3. <<o, x.credit>> \notin e.spent
      BY <1>24, <1>26, <3>1
    <3>. QED BY <1>1, <1>26, <2>1, <3>1, <3>2, <3>3, OneCoin
  <2>3. CASE o \in lostOuts /\ ~\E x \in given : x.out = o
    <3>1. e.unspent[o] = None
      BY <1>4, <2>3
    <3>2. <<o, c>> \notin e.credits
      BY <1>1, <1>28, <2>1, <2>3, OneCoin
    <3>. QED BY <3>1, <3>2, Constants
  <2>4. CASE o \notin lostOuts /\ ~\E x \in given : x.out = o
    <3>1. e.unspent[o] = d.unspent[o]
      BY <1>4, <2>4
    <3>2. <<o, c>> \in d.credits => c # b
      BY <1>28, <2>4
    <3>3. ~\E x \in debits : x.out = o /\ x.credit = c /\ <<o, c>> \in d.credits
      BY <1>11, <1>12, <1>14, <2>4, <3>2
    <3>. QED BY <1>1, <1>24, <2>1, <3>1, <3>2, <3>3 DEF Books, Indexed
  <2>. QED BY <2>2, <2>3, <2>4
<1>31. Summed(e)
  <2>. DEFINE N == UnspentOutputs(d)
  <2>1. N \in SUBSET Outpoint /\ L \in SUBSET Outpoint /\ G \in SUBSET Outpoint
    BY <1>26, <1>28 DEF UnspentOutputs
  <2>2. L \subseteq N
    BY <1>28 DEF UnspentOutputs
  <2>3. G \cap N = {}
    <3>. SUFFICES ASSUME NEW x \in given PROVE d.unspent[x.out] = None
      BY DEF UnspentOutputs
    <3>. QED BY <1>1, <1>13, <1>26, InputsSpent
  <2>4. UnspentOutputs(e) = (N \ L) \cup G
    <3>. SUFFICES ASSUME NEW o \in Outpoint
                  PROVE  e.unspent[o] # None <=> (o \in N /\ o \notin L) \/ o \in G
      BY <2>1 DEF UnspentOutputs
    <3>1. CASE \E x \in given : x.out = o
      BY <1>26, <1>27, <3>1, Constants
    <3>2. CASE o \in lostOuts /\ ~\E x \in given : x.out = o
      <4>1. e.unspent[o] = None /\ o \notin G
        BY <1>4, <3>2
      <4>. QED BY <3>2, <4>1 DEF UnspentOutputs
    <3>3. CASE o \notin lostOuts /\ ~\E x \in given : x.out = o
      <4>1. e.unspent[o] = d.unspent[o] /\ o \notin G
        BY <1>4, <3>3
      <4>. QED BY <3>3, <4>1 DEF UnspentOutputs
    <3>. QED BY <3>1, <3>2, <3>3
  <2>. HIDE DEF L, G, N
  <2>5. Worth[UnspentOutputs(e)] = Worth[N] - Worth[L] + Worth[G]
    BY <2>1, <2>2, <2>3, <2>4, Traded
  <2>6. d.balance = Worth[N]
    BY <1>1 DEF Books, Summed, N, UnspentOutputs
  <2>7. Worth[N] \in Int /\ Worth[L] \in Int /\ Worth[G] \in Int
    BY <2>1, Constants
  <2>8. e.balance = Worth[UnspentOutputs(e)]
    BY <1>3, <2>5, <2>6, <2>7
  <2>. QED BY <2>8 DEF Summed, UnspentOutputs
<1>32. Archived(e)
  <2>1. ASSUME NEW t \in Tx, NEW c \in Block, <<t, c>> \in e.records, Invalidated(e, t, c)
        PROVE  <<t, c>> \in d.records /\ Invalidated(d, t, c)
    BY <1>2, <1>9, <2>1 DEF Invalidated
  <2>. QED BY <1>1, <1>2, <2>1 DEF Archived
<1>33. Waiting(e)
  <2>1. e.unmined \cap Coinbase = {}
    BY <1>1, <1>2 DEF Waiting
  <2>2. ASSUME NEW o \in e.unminedCredits PROVE o \in Owned /\ \E t \in e.unmined : o \in Outputs[t]
    <3>1. CASE o \in d.unminedCredits
      BY <1>1, <1>2, <3>1 DEF Waiting
    <3>2. CASE o \in lostOuts /\ \E t \in back : o \in Outputs[t]
      BY <1>1, <1>2, <1>28, <3>2 DEF Credited
    <3>. QED BY <1>2, <2>2, <3>1, <3>2
  <2>. QED BY <2>1, <2>2 DEF Waiting
<1>34. ASSUME Apart(d), NEW t \in e.unmined, NEW c \in Block, Stands(e, t, c) PROVE FALSE
  <2>1. t \in Tx /\ Stands(d, t, c) /\ c # b
    BY <1>1, <1>9, <1>34, FieldTypes
  <2>2. <<t, b>> \in d.records
    BY <1>2, <1>34, <2>1 DEF Apart, Recorded
  <2>3. t \in MinedTxs(b) /\ c \in Line(b)
    BY <1>1, <2>1, <2>2 DEF Placed, Stands
  <2>4. Counts(ChainTo[b], Height(c), t) /\ Counts(ChainTo[b], Height(b), t)
    BY <1>1, <1>5, <2>1, <2>3, StandsFits, FitsCounts, CountsHere
  <2>. QED BY <1>1, <1>5, <2>1, <2>3, <2>4, Once
<1>35. Books(e)
  BY <1>21, <1>22, <1>25, <1>30, <1>31 DEF Books
<1>. QED BY <1>18, <1>19, <1>32, <1>33, <1>34, <1>35 DEF Account, Apart, e

-----------------------------------------------------------------------------
(* A transaction of a block is recorded. *)

LEMMA RemoveRest ==
  ASSUME NEW d \in Stores, NEW T
  PROVE  LET e == RemoveUnconfirmed(d, T) IN
         /\ SameCoins(e, d) /\ e.chain = d.chain /\ e.marker = d.marker
         /\ e.unmined \subseteq d.unmined /\ (Waiting(d) => Waiting(e))
<1>. DEFINE e == RemoveUnconfirmed(d, T)
            gone == SpendChains(d, T)
<1>1. SameCoins(e, d) /\ e.chain = d.chain /\ e.marker = d.marker
  BY DEF RemoveUnconfirmed, SameCoins, Stores
<1>2. /\ e.unmined = d.unmined \ gone
      /\ e.unminedCredits = {o \in d.unminedCredits : \A t \in gone : o \notin Outputs[t]}
  BY DEF RemoveUnconfirmed, Stores
<1>. HIDE DEF e, gone
<1>3. Waiting(d) => Waiting(e)
  BY <1>2 DEF Waiting
<1>. QED BY <1>1, <1>2, <1>3 DEF e

LEMMA PutRest ==
  ASSUME NEW d \in Stores, NEW S, NEW b
  PROVE  LET e == PutCredits(d, S, b) IN
         /\ e.chain = d.chain /\ e.invalid = d.invalid /\ e.records = d.records
         /\ e.debits = d.debits /\ e.invCredits = d.invCredits /\ e.invDebits = d.invDebits
         /\ e.unmined = d.unmined /\ e.unminedCredits = d.unminedCredits
         /\ e.credits = d.credits \cup (S \X {b}) /\ e.spent = d.spent \ (S \X {b})
         /\ e.unspent = [o \in Outpoint |-> IF o \in S THEN b ELSE d.unspent[o]]
         /\ e.balance = d.balance + Worth[S]
BY DEF PutCredits, Stores

\* What a transaction spends, in the block it is in.
Ins(d, t) == {o \in Inputs[t] : d.unspent[o] # None}
DebitsOf(d, t, b) == {Debit(t, b, o, d.unspent[o]) : o \in Ins(d, t)}
Coined(D) == {<<x.out, x.credit>> : x \in D}
Outs(t) == Outputs[t] \cap Owned

LEMMA SpendRest ==
  ASSUME NEW d \in Stores, NEW t \in Tx, NEW b \in Block, ~Invalidated(d, t, b)
  PROVE  LET e == SpendCredits(d, t, b)
             S == Coined(DebitsOf(d, t, b)) IN
         /\ e.chain = d.chain /\ e.invalid = d.invalid /\ e.records = d.records
         /\ e.invCredits = d.invCredits /\ e.invDebits = d.invDebits
         /\ e.unmined = d.unmined /\ e.unminedCredits = d.unminedCredits
         /\ e.unminedInputs = d.unminedInputs
         /\ e.credits = d.credits \cup S /\ e.spent = d.spent \cup S
         /\ e.debits = d.debits \cup DebitsOf(d, t, b)
         /\ e.unspent = [o \in Outpoint |-> IF o \in Ins(d, t) THEN None ELSE d.unspent[o]]
         /\ e.balance = d.balance - Worth[Ins(d, t)]
<1>. DEFINE D == DebitsOf(d, t, b)
            I == Ins(d, t)
<1>1. SpendCredits(d, t, b) =
        [d EXCEPT !.credits = d.credits \cup {<<x.out, x.credit>> : x \in D},
                  !.spent = d.spent \cup {<<x.out, x.credit>> : x \in D},
                  !.debits = d.debits \cup D,
                  !.unspent = [o \in Outpoint |-> IF o \in I THEN None ELSE d.unspent[o]],
                  !.balance = d.balance - Worth[I]]
  BY DEF SpendCredits, DebitsOf, Ins, Debit
<1>2. Coined(D) = {<<x.out, x.credit>> : x \in D}
  BY DEF Coined
<1>. HIDE DEF D, I
<1>. QED BY <1>1, <1>2 DEF Stores, D, I

\* What the record of a transaction that is not disapproved changes.
LEMMA ProcessRest ==
  ASSUME NEW d, Good(d), NEW t \in Tx, NEW b \in Block, <<t, b>> \notin d.records,
         ~Invalidated(d, t, b), Waiting(d),
         \A o \in Outs(t) : <<o, b>> \notin d.credits,
         \A x \in DebitsOf(d, t, b) : <<x.out, x.credit>> \in d.credits
  PROVE  LET e == ProcessTransactionRecord(d, t, b) IN
         /\ e.chain = d.chain /\ e.invalid = d.invalid
         /\ e.records = d.records \cup {<<t, b>>}
         /\ e.invCredits = d.invCredits /\ e.invDebits = d.invDebits
         /\ e.credits = d.credits \cup (Outs(t) \X {b})
         /\ e.spent = (d.spent \cup Coined(DebitsOf(d, t, b)))
                        \ (Outs(t) \X {b})
         /\ e.debits = d.debits \cup DebitsOf(d, t, b)
         /\ e.unspent = [o \in Outpoint |->
              IF o \in Outs(t) THEN b ELSE IF o \in Ins(d, t) THEN None ELSE d.unspent[o]]
         /\ e.balance = d.balance - Worth[Ins(d, t)] + Worth[Outs(t)]
         /\ Waiting(e) /\ e.unmined \subseteq d.unmined /\ t \notin e.unmined
<1>. DEFINE O == Outs(t)
            I == Ins(d, t)
            D == DebitsOf(d, t, b)
            S == Coined(D)
            s == SpendCredits(d, t, b)
            k == InsertMinedTx(d, t, b)
            e == ProcessTransactionRecord(d, t, b)
            M == IF t \in d.unmined THEN d.unminedCredits \cap Outputs[t] ELSE {}
            R == {o \in O : <<o, b>> \notin k.credits}
<1>0. d \in Stores
  BY DEF Good
<1>1. d \in Stores /\ s \in Stores /\ Good(s)
  BY SpendGood DEF Good
<1>2. S \subseteq d.credits
  BY DEF Coined
<1>3. /\ s.chain = d.chain /\ s.invalid = d.invalid /\ s.records = d.records
      /\ s.invCredits = d.invCredits /\ s.invDebits = d.invDebits
      /\ s.unmined = d.unmined /\ s.unminedCredits = d.unminedCredits
      /\ s.credits = d.credits /\ s.spent = d.spent \cup S
      /\ s.debits = d.debits \cup D
      /\ s.unspent = [o \in Outpoint |-> IF o \in I THEN None ELSE d.unspent[o]]
      /\ s.balance = d.balance - Worth[I]
  <2>. HIDE DEF O, I, D, S, M, R, k, e
  <2>1. s.credits = d.credits \cup Coined(DebitsOf(d, t, b))
    BY <1>0, SpendRest
  <2>2. s.credits = d.credits
    BY <1>2, <2>1 DEF S, D
  <2>. QED BY <1>1, <2>2, SpendRest DEF I, D, S
<1>4. /\ M \subseteq O /\ O \in SUBSET Outpoint /\ M \in SUBSET Outpoint
      /\ I \in SUBSET Outpoint
  BY Constants DEF Waiting, Outs, Ins
<1>5. Worth[{}] = 0
  BY WorthOfNothing
<1>. HIDE DEF s, O, I, D, S
\* After its record, ...
<1>6. /\ k \in Stores /\ k.chain = d.chain /\ k.invalid = d.invalid
      /\ k.records = d.records \cup {<<t, b>>}
      /\ k.invCredits = d.invCredits /\ k.invDebits = d.invDebits
      /\ k.credits = d.credits \cup (M \X {b}) /\ k.spent = (d.spent \cup S) \ (M \X {b})
      /\ k.debits = d.debits \cup D
      /\ k.unspent = [o \in Outpoint |->
           IF o \in M THEN b ELSE IF o \in I THEN None ELSE d.unspent[o]]
      /\ k.balance = d.balance - Worth[I] + Worth[M]
      /\ Waiting(k) /\ k.unmined \subseteq d.unmined /\ t \notin k.unmined
  <2>1. CASE t \in d.unmined
    <3>. DEFINE m == [s EXCEPT
                   !.records = s.records \cup {<<t, b>>},
                   !.unmined = s.unmined \ {t},
                   !.unminedInputs =
                     [o \in Outpoint |-> IF o \in Inputs[t] THEN None ELSE s.unminedInputs[o]],
                   !.unminedCredits = s.unminedCredits \ Outputs[t]]
    <3>1. k = PutCredits(m, M, b)
      BY <1>3, <2>1 DEF InsertMinedTx, MoveMinedTx, s
    <3>2. k \in Stores
      <4>1. k = MoveMinedTx(s, t, b)
        BY <2>1 DEF InsertMinedTx, s
      <4>. HIDE DEF k
      <4>. QED BY <1>1, <4>1, MoveGood DEF Good
    <3>3. /\ m \in Stores /\ m.chain = s.chain /\ m.invalid = s.invalid
          /\ m.records = s.records \cup {<<t, b>>}
          /\ m.invCredits = s.invCredits /\ m.invDebits = s.invDebits
          /\ m.credits = s.credits /\ m.spent = s.spent /\ m.debits = s.debits
          /\ m.unspent = s.unspent /\ m.balance = s.balance
          /\ m.unmined = s.unmined \ {t} /\ m.unminedCredits = s.unminedCredits \ Outputs[t]
      <4>1. /\ s.records \cup {<<t, b>>} \in SUBSET (Tx \X Block) /\ s.unmined \ {t} \in SUBSET Tx
            /\ s.unminedCredits \ Outputs[t] \in SUBSET Outpoint
            /\ [o \in Outpoint |-> IF o \in Inputs[t] THEN None ELSE s.unminedInputs[o]]
                 \in [Outpoint -> Tx \cup {None}]
        BY <1>1, FieldTypes
      <4>. QED BY <1>1, <4>1 DEF Stores
    <3>. HIDE DEF m, k
    <3>4. /\ k.chain = m.chain /\ k.invalid = m.invalid /\ k.records = m.records
          /\ k.debits = m.debits /\ k.invCredits = m.invCredits /\ k.invDebits = m.invDebits
          /\ k.unmined = m.unmined /\ k.unminedCredits = m.unminedCredits
          /\ k.credits = m.credits \cup (M \X {b}) /\ k.spent = m.spent \ (M \X {b})
          /\ k.unspent = [o \in Outpoint |-> IF o \in M THEN b ELSE m.unspent[o]]
          /\ k.balance = m.balance + Worth[M]
      BY <3>1, <3>3, PutRest
    <3>5. Waiting(k)
      BY <1>3, <3>3, <3>4 DEF Waiting
    <3>. QED BY <1>3, <3>2, <3>3, <3>4, <3>5
  <2>2. CASE t \notin d.unmined
    <3>. DEFINE r == RemoveUnconfirmed(s, DoubleSpends(s, t))
    <3>1. k = [r EXCEPT !.records = r.records \cup {<<t, b>>}] /\ k = RecordMinedTx(s, t, b)
      BY <2>2 DEF InsertMinedTx, RecordMinedTx, s
    <3>2. r \in Stores
      <4>1. DoubleSpends(s, t) \in SUBSET Tx
        BY <1>1, Constants, FieldTypes DEF DoubleSpends
      <4>. QED BY <1>1, <4>1, RemoveGood DEF Good
    <3>. HIDE DEF k
    <3>3. k \in Stores
      <4>1. Good(RecordMinedTx(s, t, b))
        BY <1>1, RecordGood
      <4>. QED BY <3>1, <4>1 DEF Good
    <3>4. /\ SameCoins(r, s) /\ r.chain = s.chain
          /\ r.unmined \subseteq s.unmined /\ (Waiting(s) => Waiting(r))
      BY <1>1, RemoveRest
    <3>. HIDE DEF r
    <3>5. /\ k.chain = r.chain /\ k.invalid = r.invalid /\ k.records = r.records \cup {<<t, b>>}
          /\ k.debits = r.debits /\ k.invCredits = r.invCredits /\ k.invDebits = r.invDebits
          /\ k.unmined = r.unmined /\ k.unminedCredits = r.unminedCredits
          /\ k.credits = r.credits /\ k.spent = r.spent /\ k.unspent = r.unspent
          /\ k.balance = r.balance
      BY <3>1, <3>2 DEF Stores
    <3>6. M = {} /\ Worth[M] = 0
      BY <1>5, <2>2
    <3>. HIDE DEF M
    <3>7. Waiting(k)
      BY <1>3, <3>4, <3>5 DEF Waiting
    <3>8. k.balance = d.balance - Worth[I] + Worth[M]
      <4>1. d.balance \in Int /\ Worth[I] \in Int
        BY <1>1, <1>4, FieldTypes, Constants
      <4>. QED BY <1>3, <3>4, <3>5, <3>6, <4>1 DEF SameCoins
    <3>. QED BY <1>3, <2>2, <3>3, <3>4, <3>5, <3>6, <3>7, <3>8 DEF SameCoins
  <2>. QED BY <2>1, <2>2
<1>. HIDE DEF k
\* ... it gets the credits it has not got yet.
<1>7. R = O \ M
  BY <1>4, <1>6 DEF O
<1>8. e = PutCredits(k, R, b)
  BY <1>6 DEF ProcessTransactionRecord, AddCredits, Invalidated, k, O, Outs
<1>. HIDE DEF e, R
<1>9. /\ e.chain = k.chain /\ e.invalid = k.invalid /\ e.records = k.records
      /\ e.debits = k.debits /\ e.invCredits = k.invCredits /\ e.invDebits = k.invDebits
      /\ e.unmined = k.unmined /\ e.unminedCredits = k.unminedCredits
      /\ e.credits = k.credits \cup (R \X {b}) /\ e.spent = k.spent \ (R \X {b})
      /\ e.unspent = [o \in Outpoint |-> IF o \in R THEN b ELSE k.unspent[o]]
      /\ e.balance = k.balance + Worth[R]
  BY <1>6, <1>8, PutRest
<1>. HIDE DEF M
<1>10. O = M \cup R /\ M \cap R = {} /\ R \in SUBSET Outpoint
  BY <1>4, <1>7
<1>11. Worth[O] = Worth[M] + Worth[R]
  BY <1>4, <1>10, TxAssumption
<1>12. e.balance = d.balance - Worth[I] + Worth[O]
  <2>1. /\ d.balance \in Int /\ Worth[I] \in Int /\ Worth[M] \in Int /\ Worth[R] \in Int
    BY <1>1, <1>4, <1>10, FieldTypes, Constants
  <2>. QED BY <1>6, <1>9, <1>11, <2>1
<1>13. /\ e.credits = d.credits \cup (O \X {b})
       /\ e.spent = (d.spent \cup S) \ (O \X {b})
  BY <1>6, <1>9, <1>10
<1>14. e.unspent = [o \in Outpoint |->
         IF o \in O THEN b ELSE IF o \in I THEN None ELSE d.unspent[o]]
  BY <1>6, <1>9, <1>10
<1>15. Waiting(e) /\ e.unmined \subseteq d.unmined /\ t \notin e.unmined
  BY <1>6, <1>9 DEF Waiting
<1>. QED BY <1>6, <1>9, <1>12, <1>13, <1>14, <1>15 DEF e, O, I, D, S

\* It may be recorded: what comes before it is.
Due(d, t, b) ==
  /\ b \in Line(Tip(d)) /\ t \in MinedTxs(b) /\ <<t, b>> \notin d.records
  /\ \A c \in Line(b) : c # b => Full(d, c)
  /\ \A u \in Tx : Precedes(b, u, t) => <<u, b>> \in d.records
  /\ ~(t \in d.unmined /\ Invalidated(d, t, b))

\* Nothing above a block stands before the block is recorded, ...
LEMMA Latest ==
  ASSUME NEW d \in Stores, Lines(d), InOrder(d), NEW t \in Tx, NEW b \in Block, Due(d, t, b),
         NEW u \in Tx, NEW c \in Block, Stands(d, u, c)
  PROVE  c \in Line(b) /\ Counts(ChainTo[b], Height(c), u) /\ u \in MinedTxs(c)
<1>1. /\ Tip(d) \in Block /\ b \in Line(Tip(d)) /\ c \in Line(Tip(d)) /\ u \in MinedTxs(c)
      /\ t \in MinedTxs(b) /\ <<t, b>> \notin d.records /\ <<u, c>> \in d.records
      /\ Counts(ChainTo[Tip(d)], Height(c), u) /\ b \in Block \ {Genesis}
  BY TipTyped, StandsFits, FitsCounts, InLine DEF Lines, Placed, Due, Stands
<1>2. c \in Line(b)
  <2>. SUFFICES ASSUME c \notin Line(b) PROVE FALSE
    OBVIOUS
  <2>1. Height(c) > Height(b) /\ Height(c) \in Nat /\ Height(b) \in Nat
    BY <1>1, InLine, LineFacts
  <2>2. b \in Line(c) /\ b # c
    BY <1>1, <2>1, InLine
  <2>3. Full(d, b)
    BY <1>1, <2>2 DEF InOrder
  <2>. QED BY <1>1, <2>3 DEF Full, Recorded
<1>3. CASE c = b
  BY <1>1, <1>2, <1>3, CountsHere
<1>4. CASE c # b
  BY <1>1, <1>2, <1>4, CountsBelow
<1>. QED BY <1>1, <1>2, <1>3, <1>4

\* ... so nothing that stands spends what it spends, or is it.
LEMMA NotYet ==
  ASSUME ValidChains, NEW d \in Stores, Lines(d), InOrder(d), NEW t \in Tx, NEW b \in Block,
         Due(d, t, b), NEW u \in Tx, NEW c \in Block, Stands(d, u, c)
  PROVE  u # t /\ Inputs[t] \cap Inputs[u] = {}
<1>1. c \in Line(b) /\ Counts(ChainTo[b], Height(c), u)
  BY Latest
<1>2. /\ b \in Block \ {Genesis} /\ b \in Line(b) /\ Counts(ChainTo[b], Height(b), t)
      /\ <<t, b>> \notin d.records /\ <<u, c>> \in d.records
  BY TipTyped, InLine, CountsHere, OwnLine DEF Due, Stands
<1>3. ASSUME u = t \/ Inputs[t] \cap Inputs[u] # {} PROVE FALSE
  <2>1. t = u /\ b = c
    BY <1>1, <1>2, <1>3, Once
  <2>. QED BY <1>2, <2>1
<1>. QED BY <1>3

LEMMA BooksCarry ==
  ASSUME NEW d, NEW e, e.credits = d.credits, e.spent = d.spent, e.debits = d.debits,
         e.unspent = d.unspent, e.balance = d.balance,
         \A t \in Tx, b \in Block : Stands(e, t, b) <=> Stands(d, t, b), Books(d)
  PROVE  Books(e)
<1>1. Credited(e)
  BY DEF Books, Credited
<1>2. Debited(e)
  BY DebitFields DEF Books, Debited
<1>3. Flagged(e) /\ Indexed(e) /\ Summed(e)
  BY DEF Books, Flagged, Indexed, Summed
<1>. QED BY <1>1, <1>2, <1>3 DEF Books

\* It finds unspent the coins that are there.
LEMMA InsHere ==
  ASSUME ValidChains, NEW d \in Stores, Lines(d), InOrder(d), Books(d), NEW t \in Tx,
         NEW b \in Block, Due(d, t, b), NEW o \in Inputs[t], NEW h \in Block
  PROVE  d.unspent[o] = h <=> <<o, h>> \in d.credits
<1>1. o \in Outpoint
  BY Constants
<1>2. ASSUME <<o, h>> \in d.spent PROVE FALSE
  <2>1. PICK x \in d.debits : x.out = o
    BY <1>1, <1>2 DEF Books, Flagged
  <2>2. /\ x \in Debits /\ x.tx \in Tx /\ x.block \in Block /\ Stands(d, x.tx, x.block)
        /\ o \in Inputs[x.tx]
    BY <2>1, FieldTypes, DebitFields DEF Books, Debited
  <2>. QED BY <2>2, NotYet
<1>. QED BY <1>1, <1>2 DEF Books, Indexed

\* Its outputs have no coin yet.
LEMMA NoCoinYet ==
  ASSUME ValidChains, NEW d \in Stores, Lines(d), InOrder(d), Books(d), NEW t \in Tx,
         NEW b \in Block, Due(d, t, b), NEW o \in Outputs[t], NEW h \in Block
  PROVE  <<o, h>> \notin d.credits /\ <<o, h>> \notin d.spent /\ d.unspent[o] # h
<1>1. o \in Outpoint
  BY Constants
<1>2. ASSUME <<o, h>> \in d.credits PROVE FALSE
  <2>1. PICK u \in Tx : o \in Outputs[u] /\ Stands(d, u, h)
    BY <1>1, <1>2 DEF Books, Credited
  <2>. QED BY <2>1, OneMaker, NotYet
<1>3. ASSUME <<o, h>> \in d.spent PROVE <<o, h>> \in d.credits
  BY <1>1, <1>3, FieldTypes DEF Books, Flagged, Debited
<1>. QED BY <1>1, <1>2, <1>3 DEF Books, Indexed

\* A regular transaction of a disapproved block goes to the archive.
LEMMA ArchiveKeeps ==
  ASSUME Orderly, NEW d, Good(d), Account(d), NEW t \in Tx, NEW b \in Block, Due(d, t, b),
         Invalidated(d, t, b)
  PROVE  LET e == ProcessTransactionRecord(d, t, b) IN
         /\ Account(e) /\ e.invalid = d.invalid /\ e.unmined \subseteq d.unmined
         /\ \A u \in Tx, c \in Block : Stands(e, u, c) => Stands(d, u, c)
<1>. DEFINE O == Outs(t)
            D == DebitsOf(d, t, b)
            s == SpendCredits(d, t, b)
            r == RemoveUnconfirmed(s, DoubleSpends(s, t))
            k == InsertMinedTx(d, t, b)
            e == ProcessTransactionRecord(d, t, b)
<1>1. /\ d \in Stores /\ s \in Stores /\ Good(s) /\ e \in Stores /\ ValidChains /\ NoSpendsWithin
      /\ Lines(d) /\ InOrder(d) /\ Books(d) /\ Archived(d) /\ Waiting(d)
      /\ Chained(d) /\ Placed(d) /\ Judged(d)
      /\ t \in Regular /\ b \in d.invalid /\ t \notin d.unmined /\ <<t, b>> \notin d.records
  BY SpendGood, ProcessGood DEF Good, Orderly, Account, Lines, Invalidated, Due
<1>2. s = [d EXCEPT !.invDebits = d.invDebits \cup D]
  BY DEF SpendCredits, DebitsOf, Ins, Debit
<1>3. k = [r EXCEPT !.records = r.records \cup {<<t, b>>}] /\ k = RecordMinedTx(s, t, b)
  BY <1>1 DEF InsertMinedTx, RecordMinedTx
<1>4. r \in Stores /\ k \in Stores
  <2>1. DoubleSpends(s, t) \in SUBSET Tx
    BY <1>1, Constants, FieldTypes DEF DoubleSpends
  <2>2. Good(r)
    BY <1>1, <2>1, RemoveGood
  <2>3. Good(RecordMinedTx(s, t, b))
    BY <1>1, RecordGood
  <2>. HIDE DEF r, k, s
  <2>. QED BY <1>3, <2>2, <2>3 DEF Good
<1>5. /\ SameCoins(r, s) /\ r.chain = s.chain /\ r.unmined \subseteq s.unmined
      /\ Waiting(s) => Waiting(r)
  BY <1>1, RemoveRest
<1>6. e = AddCredits(k, t, b)
  BY DEF ProcessTransactionRecord
<1>. HIDE DEF D, s, r, k, e
<1>7. /\ s.chain = d.chain /\ s.invalid = d.invalid /\ s.records = d.records
      /\ s.invCredits = d.invCredits /\ s.invDebits = d.invDebits \cup D
      /\ s.unmined = d.unmined /\ s.unminedCredits = d.unminedCredits
      /\ s.credits = d.credits /\ s.spent = d.spent /\ s.debits = d.debits
      /\ s.unspent = d.unspent /\ s.balance = d.balance
  BY <1>1, <1>2 DEF Stores
<1>8. /\ k.chain = r.chain /\ k.invalid = r.invalid /\ k.records = r.records \cup {<<t, b>>}
      /\ k.debits = r.debits /\ k.invCredits = r.invCredits /\ k.invDebits = r.invDebits
      /\ k.unmined = r.unmined /\ k.unminedCredits = r.unminedCredits
      /\ k.credits = r.credits /\ k.spent = r.spent /\ k.unspent = r.unspent
      /\ k.balance = r.balance
  BY <1>3, <1>4 DEF Stores
<1>9. k.invalid = d.invalid
  BY <1>5, <1>7, <1>8 DEF SameCoins
<1>10. e = [k EXCEPT !.invCredits = k.invCredits \cup (O \X {b}), !.spent = k.spent \ (O \X {b})]
  BY <1>1, <1>6, <1>9 DEF AddCredits, Invalidated, Outs
<1>11. d.spent \ (O \X {b}) = d.spent
  <2>1. \A o \in O : <<o, b>> \notin d.spent
    BY <1>1, NoCoinYet DEF Outs
  <2>. HIDE DEF O
  <2>. QED BY <2>1
<1>. HIDE DEF O
<1>12. /\ e.chain = k.chain /\ e.invalid = k.invalid /\ e.records = k.records
       /\ e.debits = k.debits /\ e.invCredits = k.invCredits \cup (O \X {b})
       /\ e.invDebits = k.invDebits
       /\ e.unmined = k.unmined /\ e.unminedCredits = k.unminedCredits
       /\ e.credits = k.credits /\ e.spent = k.spent \ (O \X {b})
       /\ e.unspent = k.unspent /\ e.balance = k.balance
  BY <1>4, <1>10 DEF Stores
<1>13. /\ e.chain = d.chain /\ e.invalid = d.invalid /\ e.records = d.records \cup {<<t, b>>}
       /\ e.debits = d.debits /\ e.invCredits = d.invCredits \cup (O \X {b})
       /\ e.invDebits = d.invDebits \cup D
       /\ e.credits = d.credits /\ e.spent = d.spent
       /\ e.unspent = d.unspent /\ e.balance = d.balance
       /\ e.unmined \subseteq d.unmined
  BY <1>5, <1>7, <1>8, <1>11, <1>12 DEF SameCoins
<1>14. Waiting(e)
  BY <1>1, <1>5, <1>7, <1>8, <1>12 DEF Waiting
<1>15. \A u \in Tx, c \in Block : Stands(e, u, c) <=> Stands(d, u, c)
  BY <1>1, <1>13 DEF Stands, Invalidated
<1>16. Books(e)
  BY <1>1, <1>13, <1>15, BooksCarry
<1>17. Tip(e) = Tip(d) /\ b \in Line(Tip(d)) /\ t \in MinedTxs(b)
  BY <1>13 DEF Tip, Due
<1>18. Lines(e)
  BY <1>1, <1>13, <1>17 DEF Lines, Chained, Placed, Judged
<1>19. InOrder(e)
  <2>1. \A c : Full(d, c) => Full(e, c)
    BY <1>13 DEF Full, Recorded
  <2>. QED BY <1>1, <1>13, <2>1 DEF InOrder, Due
<1>20. Archived(e)
  <2>1. \A o \in Outpoint, c \in Block : <<o, c>> \in e.invCredits => o \in Owned
    BY <1>1, <1>13 DEF Archived, Outs, O
  <2>2. ASSUME NEW u \in Tx, NEW c \in Block, <<u, c>> \in e.records, Invalidated(e, u, c)
        PROVE  /\ \A o \in Outputs[u] : o \in Owned => <<o, c>> \in e.invCredits
               /\ \A o \in Inputs[u], h \in Block :
                    <<o, h>> \in e.credits => Debit(u, c, o, h) \in e.invDebits
    <3>1. CASE <<u, c>> \in d.records
      BY <1>1, <1>13, <2>2, <3>1 DEF Archived, Invalidated
    <3>2. CASE u = t /\ c = b
      <4>1. \A o \in Outputs[t] : o \in Owned => <<o, b>> \in e.invCredits
        BY <1>13 DEF O, Outs
      <4>2. ASSUME NEW o \in Inputs[t], NEW h \in Block, <<o, h>> \in e.credits
            PROVE  Debit(t, b, o, h) \in e.invDebits
        <5>1. d.unspent[o] = h
          BY <1>1, <1>13, <4>2, InsHere
        <5>2. h # None
          BY Constants
        <5>. QED BY <1>13, <5>1, <5>2 DEF D, DebitsOf, Ins
      <4>. QED BY <3>2, <4>1, <4>2
    <3>. QED BY <1>13, <2>2, <3>1, <3>2
  <2>3. ASSUME NEW x \in D PROVE Earned(x)
    <3>1. PICK o \in Ins(d, t) : x = Debit(t, b, o, d.unspent[o])
      BY DEF D, DebitsOf
    <3>. DEFINE h == d.unspent[o]
    <3>2. o \in Inputs[t] /\ o \in Outpoint /\ h \in Block
      BY <1>1, Constants, FieldTypes DEF Ins
    <3>3. x.tx = t /\ x.block = b /\ x.out = o /\ x.credit = h
      BY <3>1, <3>2, DebitTyped
    <3>4. <<o, h>> \in d.credits
      BY <1>1, <3>2, InsHere
    <3>. HIDE DEF h
    <3>5. PICK u \in Tx : o \in Owned /\ o \in Outputs[u] /\ Stands(d, u, h)
      BY <1>1, <3>2, <3>4 DEF Books, Credited
    <3>6. h \in Line(b) /\ Counts(ChainTo[b], Height(h), u) /\ u \in MinedTxs(h)
      BY <1>1, <3>2, <3>5, Latest
    <3>7. h # b
      BY <1>1, <1>17, <3>2, <3>5, <3>6 DEF NoSpendsWithin, Judged
    <3>. QED BY <1>17, <3>2, <3>3, <3>5, <3>6, <3>7 DEF Earned
  <2>4. \A x \in e.invDebits : Earned(x)
    BY <1>1, <1>13, <2>3 DEF Archived
  <2>. QED BY <2>1, <2>2, <2>4 DEF Archived
<1>21. Account(e)
  BY <1>14, <1>16, <1>18, <1>19, <1>20 DEF Account
<1>. QED BY <1>13, <1>15, <1>21 DEF e

\* Any other one stands.
LEMMA RecordKeeps ==
  ASSUME Orderly, NEW d, Good(d), Account(d), NEW t \in Tx, NEW b \in Block, Due(d, t, b),
         ~Invalidated(d, t, b)
  PROVE  LET e == ProcessTransactionRecord(d, t, b) IN
         /\ Account(e) /\ e.invalid = d.invalid
         /\ e.unmined \subseteq d.unmined /\ t \notin e.unmined
         /\ \A u \in Tx, c \in Block : Stands(e, u, c) => Stands(d, u, c) \/ (u = t /\ c = b)
<1>. DEFINE O == Outs(t)
            I == Ins(d, t)
            D == DebitsOf(d, t, b)
            S == Coined(D)
            e == ProcessTransactionRecord(d, t, b)
<1>0. d \in Stores
  BY DEF Good
<1>1. /\ e \in Stores /\ ValidChains /\ NoSpendsWithin
      /\ Lines(d) /\ InOrder(d) /\ Books(d) /\ Archived(d) /\ Waiting(d)
      /\ Chained(d) /\ Placed(d) /\ Judged(d) /\ Credited(d)
      /\ b \in Line(Tip(d)) /\ t \in MinedTxs(b) /\ <<t, b>> \notin d.records
      /\ Fits(d, t, b) /\ Tip(d) \in Block
  BY <1>0, ProcessGood, TipTyped DEF Good, Orderly, Account, Lines, Books, Due, Fits
<1>2. \A o \in O, h \in Block : <<o, h>> \notin d.credits /\ <<o, h>> \notin d.spent /\ d.unspent[o] # h
  BY <1>0, <1>1, NoCoinYet DEF Outs
<1>3. \A o \in I : /\ o \in Inputs[t] /\ o \in Outpoint /\ d.unspent[o] \in Block
                   /\ <<o, d.unspent[o]>> \in d.credits
  <2>1. \A o \in I : o \in Inputs[t] /\ o \in Outpoint /\ d.unspent[o] \in Block
    BY <1>0, Constants, FieldTypes DEF Ins
  <2>. QED BY <1>0, <1>1, <2>1, InsHere
<1>4. \A x \in Debits : x \in D <=> /\ x.tx = t /\ x.block = b /\ x.out \in I
                                    /\ d.unspent[x.out] = x.credit
  <2>1. ASSUME NEW x \in Debits, x \in D
        PROVE  /\ x.tx = t /\ x.block = b /\ x.out \in I /\ d.unspent[x.out] = x.credit
    <3>1. PICK o \in I : x = Debit(t, b, o, d.unspent[o])
      BY <2>1 DEF DebitsOf
    <3>. HIDE DEF I
    <3>2. x.tx = t /\ x.block = b /\ x.out = o /\ x.credit = d.unspent[o]
      <4>1. o \in Outpoint /\ d.unspent[o] \in Block
        BY <1>3
      <4>. QED BY <3>1, <4>1, DebitTyped
    <3>. QED BY <3>1, <3>2
  <2>2. ASSUME NEW x \in Debits, x.tx = t, x.block = b, x.out \in I, d.unspent[x.out] = x.credit
        PROVE  x \in D
    <3>1. x = Debit(t, b, x.out, d.unspent[x.out])
      BY <2>2, DebitFields
    <3>. QED BY <2>2, <3>1 DEF DebitsOf
  <2>. QED BY <2>1, <2>2
<1>5. D \in SUBSET Debits
  <2>1. \A o \in I : Debit(t, b, o, d.unspent[o]) \in Debits
    BY <1>3, DebitTyped
  <2>. QED BY <2>1 DEF DebitsOf
<1>6. \A x \in D : <<x.out, x.credit>> \in d.credits
  BY <1>3, <1>4, <1>5
<1>7. \A o \in O : <<o, b>> \notin d.credits
  BY <1>2
<1>. HIDE DEF O, I, D, S, e
<1>8. /\ e.chain = d.chain /\ e.invalid = d.invalid
      /\ e.records = d.records \cup {<<t, b>>}
      /\ e.invCredits = d.invCredits /\ e.invDebits = d.invDebits
      /\ e.credits = d.credits \cup (O \X {b})
      /\ e.spent = (d.spent \cup S) \ (O \X {b})
      /\ e.debits = d.debits \cup D
      /\ e.unspent = [o \in Outpoint |->
           IF o \in O THEN b ELSE IF o \in I THEN None ELSE d.unspent[o]]
      /\ e.balance = d.balance - Worth[I] + Worth[O]
      /\ Waiting(e) /\ e.unmined \subseteq d.unmined /\ t \notin e.unmined
  BY <1>1, <1>6, <1>7, ProcessRest DEF O, I, D, S, e
<1>9. \A o, h : <<o, h>> \in S <=> \E x \in D : x.out = o /\ x.credit = h
  BY DEF S, Coined
<1>10. O \in SUBSET Outpoint /\ I \in SUBSET Outpoint /\ O \subseteq Owned /\ O \subseteq Outputs[t]
  BY Constants DEF O, I, Outs, Ins
<1>11. \A o \in Outpoint, c \in Block :
         /\ <<o, c>> \in e.credits <=> <<o, c>> \in d.credits \/ (c = b /\ o \in O)
         /\ <<o, c>> \in e.spent <=> <<o, c>> \in d.spent \/ <<o, c>> \in S
  <2>. SUFFICES ASSUME NEW o \in Outpoint, NEW c \in Block
                PROVE  /\ <<o, c>> \in e.credits <=> <<o, c>> \in d.credits \/ (c = b /\ o \in O)
                       /\ <<o, c>> \in e.spent <=> <<o, c>> \in d.spent \/ <<o, c>> \in S
    OBVIOUS
  <2>1. o \in O /\ c = b => <<o, c>> \notin d.spent /\ <<o, c>> \notin S
    BY <1>2, <1>6, <1>9
  <2>. QED BY <1>8, <2>1
<1>12. \A u \in Tx, c \in Block : Stands(e, u, c) <=> Stands(d, u, c) \/ (u = t /\ c = b)
  BY <1>8 DEF Stands, Invalidated
<1>13. Tip(e) = Tip(d)
  BY <1>8 DEF Tip
<1>14. Lines(e)
  BY <1>1, <1>8, <1>13 DEF Lines, Chained, Placed, Judged
<1>15. InOrder(e)
  <2>1. \A c : Full(d, c) => Full(e, c)
    BY <1>8 DEF Full, Recorded
  <2>. QED BY <1>1, <1>8, <2>1 DEF InOrder, Due
\* What stands spends nothing of it, and it spends nothing of its own.
<1>16. ASSUME NEW u \in Tx, NEW c \in Block, NEW o \in O, o \in Inputs[u],
              Stands(d, u, c) \/ (u = t /\ c = b)
       PROVE  FALSE
  <2>1. Fits(d, u, c)
    BY <1>0, <1>1, <1>16, StandsFits
  <2>2. PICK h \in Line(c) : Fits(d, t, h) /\ (h # c \/ Precedes(c, t, u))
    BY <1>0, <1>1, <1>10, <1>16, <2>1, MakerFits
  <2>3. h = b
    BY <1>0, <1>1, <2>2, InLine, OneBlock
  <2>4. CASE u = t /\ c = b
    BY <1>1, <2>2, <2>3, <2>4 DEF Due
  <2>5. CASE Stands(d, u, c)
    <3>1. <<u, c>> \in d.records
      BY <2>5 DEF Stands
    <3>2. CASE h # c
      <4>1. Full(d, b)
        BY <1>1, <2>2, <2>3, <3>1, <3>2 DEF InOrder
      <4>. QED BY <1>1, <4>1 DEF Full, Recorded
    <3>3. CASE Precedes(c, t, u)
      <4>1. c = b \/ h # c
        BY <2>3
      <4>. QED BY <1>1, <3>1, <3>2, <3>3, <4>1 DEF InOrder
    <3>. QED BY <2>2, <3>2, <3>3
  <2>. QED BY <1>16, <2>4, <2>5
<1>17. Credited(e)
  <2>. SUFFICES ASSUME NEW o \in Outpoint, NEW c \in Block
                PROVE  <<o, c>> \in e.credits
                         <=> o \in Owned /\ \E u \in Tx : o \in Outputs[u] /\ Stands(e, u, c)
    BY DEF Credited
  <2>1. <<o, c>> \in d.credits <=> o \in Owned /\ \E u \in Tx : o \in Outputs[u] /\ Stands(d, u, c)
    BY <1>1 DEF Credited
  <2>2. o \in O <=> o \in Owned /\ o \in Outputs[t]
    BY DEF O, Outs
  <2>. QED BY <1>11, <1>12, <2>1, <2>2
<1>18. Debited(e)
  <2>. SUFFICES ASSUME NEW x \in Debits
                PROVE  x \in e.debits <=> /\ Stands(e, x.tx, x.block) /\ x.out \in Inputs[x.tx]
                                          /\ <<x.out, x.credit>> \in e.credits
    BY DEF Debited
  <2>1. x.tx \in Tx /\ x.block \in Block /\ x.out \in Outpoint /\ x.credit \in Block
    BY DebitFields
  <2>2. x \in d.debits <=> /\ Stands(d, x.tx, x.block) /\ x.out \in Inputs[x.tx]
                           /\ <<x.out, x.credit>> \in d.credits
    BY <1>1 DEF Books, Debited
  <2>3. Stands(e, x.tx, x.block) <=> Stands(d, x.tx, x.block) \/ (x.tx = t /\ x.block = b)
    BY <1>12, <2>1
  <2>4. x \in D <=> /\ x.tx = t /\ x.block = b /\ x.out \in Inputs[t]
                    /\ <<x.out, x.credit>> \in d.credits
    <3>1. x.out \in Inputs[t] => (d.unspent[x.out] = x.credit <=> <<x.out, x.credit>> \in d.credits)
      BY <1>0, <1>1, <2>1, InsHere
    <3>2. x.out \in I <=> x.out \in Inputs[t] /\ d.unspent[x.out] # None
      BY DEF I, Ins
    <3>. QED BY <1>4, <2>1, <3>1, <3>2, Constants
  <2>5. Stands(e, x.tx, x.block) /\ x.out \in Inputs[x.tx] => x.out \notin O
    BY <1>16, <2>1, <2>3
  <2>. QED BY <1>8, <1>11, <2>1, <2>2, <2>3, <2>4, <2>5
<1>19. Flagged(e)
  <2>. SUFFICES ASSUME NEW o \in Outpoint, NEW c \in Block
                PROVE  <<o, c>> \in e.spent <=> \E x \in e.debits : x.out = o /\ x.credit = c
    BY DEF Flagged
  <2>1. <<o, c>> \in d.spent <=> \E x \in d.debits : x.out = o /\ x.credit = c
    BY <1>1 DEF Books, Flagged
  <2>. QED BY <1>8, <1>9, <1>11, <2>1
<1>20. Indexed(e)
  <2>. SUFFICES ASSUME NEW o \in Outpoint, NEW c \in Block
                PROVE  e.unspent[o] = c <=> <<o, c>> \in e.credits /\ <<o, c>> \notin e.spent
    BY DEF Indexed
  <2>1. CASE o \in O
    <3>1. e.unspent[o] = b /\ <<o, b>> \in e.credits
      BY <1>1, <1>8, <1>11, <2>1
    <3>2. <<o, b>> \notin e.spent
      BY <1>2, <1>6, <1>9, <1>11, <2>1
    <3>. QED BY <1>1, <1>14, <1>17, <3>1, <3>2, OneCoin
  <2>2. CASE o \in I /\ o \notin O
    <3>1. e.unspent[o] = None
      BY <1>8, <2>2
    <3>2. d.unspent[o] \in Block /\ <<o, d.unspent[o]>> \in d.credits
      BY <1>3, <2>2
    <3>. DEFINE x == Debit(t, b, o, d.unspent[o])
    <3>3. x \in Debits /\ x.tx = t /\ x.block = b /\ x.out = o /\ x.credit = d.unspent[o]
      BY <3>2, DebitTyped
    <3>. HIDE DEF x
    <3>4. <<o, d.unspent[o]>> \in S
      BY <1>4, <1>9, <2>2, <3>3
    <3>5. <<o, d.unspent[o]>> \in e.credits /\ <<o, d.unspent[o]>> \in e.spent
      BY <1>11, <3>2, <3>4
    <3>. QED BY <1>1, <1>14, <1>17, <3>1, <3>2, <3>5, OneCoin, Constants
  <2>3. CASE o \notin I /\ o \notin O
    <3>1. e.unspent[o] = d.unspent[o]
      BY <1>8, <2>3
    <3>2. <<o, c>> \notin S
      BY <1>4, <1>5, <1>9, <2>3
    <3>. QED BY <1>1, <1>11, <2>3, <3>1, <3>2 DEF Books, Indexed
  <2>. QED BY <2>1, <2>2, <2>3
<1>21. Summed(e)
  <2>. DEFINE N == UnspentOutputs(d)
  <2>1. N \in SUBSET Outpoint /\ I \subseteq N
    BY <1>10 DEF UnspentOutputs, I, Ins
  <2>2. O \cap N = {}
    BY <1>0, <1>2, FieldTypes DEF UnspentOutputs
  <2>3. UnspentOutputs(e) = (N \ I) \cup O
    <3>. SUFFICES ASSUME NEW o \in Outpoint
                  PROVE  e.unspent[o] # None <=> (o \in N /\ o \notin I) \/ o \in O
      BY <1>10, <2>1 DEF UnspentOutputs
    <3>1. e.unspent[o] = IF o \in O THEN b ELSE IF o \in I THEN None ELSE d.unspent[o]
      BY <1>8
    <3>2. o \in N <=> d.unspent[o] # None
      BY DEF UnspentOutputs
    <3>. HIDE DEF N
    <3>. QED BY <3>1, <3>2, Constants
  <2>. HIDE DEF N
  <2>4. Worth[UnspentOutputs(e)] = Worth[N] - Worth[I] + Worth[O]
    BY <1>10, <2>1, <2>2, <2>3, Traded
  <2>5. d.balance = Worth[N]
    BY <1>1 DEF Books, Summed, N, UnspentOutputs
  <2>. QED BY <1>8, <2>4, <2>5 DEF Summed, UnspentOutputs
<1>22. Archived(e)
  <2>1. ASSUME NEW u \in Tx, NEW c \in Block, <<u, c>> \in e.records, Invalidated(e, u, c)
        PROVE  /\ \A o \in Outputs[u] : o \in Owned => <<o, c>> \in e.invCredits
               /\ \A o \in Inputs[u], h \in Block :
                    <<o, h>> \in e.credits => Debit(u, c, o, h) \in e.invDebits
    <3>1. <<u, c>> \in d.records /\ Invalidated(d, u, c) /\ u \in Regular /\ c \in d.invalid
      BY <1>8, <2>1 DEF Invalidated
    <3>2. ASSUME NEW o \in Inputs[u], NEW h \in Block, <<o, h>> \in e.credits
          PROVE  <<o, h>> \in d.credits
      <4>. SUFFICES ASSUME o \in O, h = b PROVE FALSE
        BY <1>11, <3>2, Constants
      <4>1. /\ c \in Line(Tip(d)) /\ u \in MinedTxs(c) /\ c \in Block \ {Genesis}
            /\ Disapproved(c)
        BY <1>1, <3>1, InLine DEF Placed, Judged
      <4>2. Counts(ChainTo[c], Height(c), u) /\ c \in Line(c) /\ Line(c) \subseteq Line(Tip(d))
        BY <1>1, <4>1, CountsHere, LineGrows
      <4>3. o \in Inputs[u] \cap Outputs[t] \cap Owned
        BY <1>10
      <4>4. PICK g \in Line(c) :
              /\ Counts(ChainTo[c], Height(g), t) /\ t \in MinedTxs(g)
              /\ g # c \/ Precedes(c, t, u)
        BY <1>1, <4>1, <4>2, <4>3, MadeBefore
      <4>5. CASE g = c
        BY <1>1, <3>1, <4>1, <4>3, <4>4, <4>5 DEF NoSpendsWithin
      <4>6. CASE g # c
        <5>1. Counts(ChainTo[Tip(d)], Height(g), t) /\ g \in Line(Tip(d))
          BY <1>1, <4>1, <4>2, <4>4, <4>6, CountsBelow
        <5>2. Counts(ChainTo[Tip(d)], Height(b), t)
          BY <1>0, <1>1, FitsCounts
        <5>3. g = b
          BY <1>1, <5>1, <5>2, Once
        <5>4. Full(d, b)
          BY <1>1, <3>1, <4>4, <4>6, <5>3 DEF InOrder
        <5>. QED BY <1>1, <5>4 DEF Full, Recorded
      <4>. QED BY <4>5, <4>6
    <3>. QED BY <1>1, <1>8, <3>1, <3>2 DEF Archived
  <2>. QED BY <1>1, <1>8, <2>1 DEF Archived
<1>23. Books(e)
  BY <1>17, <1>18, <1>19, <1>20, <1>21 DEF Books
<1>24. Account(e)
  BY <1>8, <1>14, <1>15, <1>22, <1>23 DEF Account
<1>. QED BY <1>8, <1>12, <1>24 DEF e

LEMMA ProcessAccount ==
  ASSUME Orderly, NEW d, Good(d), Account(d), NEW t \in Tx, NEW b \in Block,
         <<t, b>> \in d.records \/ Due(d, t, b)
  PROVE  LET e == ProcessTransactionRecord(d, t, b) IN
         /\ Account(e) /\ e.invalid = d.invalid /\ e.chain = d.chain
         /\ e.unmined \subseteq d.unmined
         /\ \A u \in e.unmined, c \in Block : Stands(e, u, c) => Stands(d, u, c)
         /\ <<t, b>> \in d.records => e = d
<1>. DEFINE e == ProcessTransactionRecord(d, t, b)
<1>1. d \in Stores /\ e \in Stores
  BY ProcessGood DEF Good
<1>2. CASE <<t, b>> \in d.records
  BY <1>1, <1>2, NoNews
<1>3. CASE Due(d, t, b) /\ Invalidated(d, t, b)
  <2>1. e.chain = d.chain /\ <<t, b>> \notin d.records
    BY <1>3, ProcessView DEF Due
  <2>2. \A u \in e.unmined : u \in Tx
    BY <1>1, FieldTypes
  <2>. QED BY <1>3, <2>1, <2>2, ArchiveKeeps
<1>4. CASE Due(d, t, b) /\ ~Invalidated(d, t, b)
  <2>1. e.chain = d.chain /\ <<t, b>> \notin d.records
    BY <1>4, ProcessView DEF Due
  <2>2. \A u \in e.unmined : u \in Tx
    BY <1>1, FieldTypes
  <2>. QED BY <1>4, <2>1, <2>2, RecordKeeps
<1>. QED BY <1>2, <1>3, <1>4

-----------------------------------------------------------------------------
(* What is unmined comes and goes. *)

\* The account leaves open which transactions are unmined.
LEMMA SameAccount ==
  ASSUME NEW d, Account(d), NEW e, SameCoins(e, d), e.chain = d.chain, Waiting(e)
  PROVE  Account(e) /\ Tip(e) = Tip(d) /\ \A t, b : Stands(e, t, b) <=> Stands(d, t, b)
<1>1. Lines(e) /\ Tip(e) = Tip(d)
  BY DEF Account, Lines, Chained, Placed, Judged, Tip, SameCoins
<1>. QED BY <1>1, CoinsCarry DEF Account

\* A store a database transaction may begin with.
Settled(d) == Account(d) /\ Apart(d) /\ Tip(d) \notin d.invalid

LEMMA SettledRest ==
  ASSUME NEW d, Settled(d), NEW e, SameCoins(e, d), e.chain = d.chain, Waiting(e),
         \A t \in e.unmined, b \in Block : ~Stands(d, t, b)
  PROVE  Settled(e)
<1>1. Account(e) /\ Tip(e) = Tip(d) /\ \A t, b : Stands(e, t, b) <=> Stands(d, t, b)
  BY SameAccount DEF Settled
<1>. QED BY <1>1 DEF Settled, Apart, SameCoins

LEMMA RemoveSettled ==
  ASSUME NEW d \in Stores, Settled(d), NEW T PROVE Settled(RemoveUnconfirmed(d, T))
<1>. DEFINE e == RemoveUnconfirmed(d, T)
<1>1. SameCoins(e, d) /\ e.chain = d.chain /\ e.unmined \subseteq d.unmined /\ Waiting(e)
  BY RemoveRest DEF Settled, Account
<1>. HIDE DEF e
<1>2. Settled(e)
  BY <1>1, SettledRest DEF Settled, Apart
<1>. QED BY <1>2 DEF e

LEMMA InsertSettled ==
  ASSUME NEW d \in Stores, Settled(d), NEW t \in Tx, t \notin Coinbase,
         \A b \in Block : <<t, b>> \notin d.records
  PROVE  Settled(InsertMemPoolTx(d, t))
<1>. DEFINE e == InsertMemPoolTx(d, t)
<1>1. SameCoins(e, d) /\ e.chain = d.chain
  BY DEF InsertMemPoolTx, SameCoins, Stores
<1>2. e.unmined = d.unmined \cup {t}
  BY DEF InsertMemPoolTx, Stores
<1>3. e.unminedCredits = d.unminedCredits \cup (Outputs[t] \cap Owned)
  BY DEF InsertMemPoolTx, Stores
<1>. HIDE DEF e
<1>4. Waiting(e)
  BY <1>2, <1>3 DEF Waiting, Settled, Account
<1>5. \A u \in e.unmined, b \in Block : ~Stands(d, u, b)
  BY <1>2 DEF Settled, Apart, Stands
<1>6. Settled(e)
  BY <1>1, <1>4, <1>5, SettledRest
<1>. QED BY <1>6 DEF e

LEMMA MarkerRest ==
  ASSUME NEW d \in Stores, NEW b
  PROVE  LET e == UpdateProcessedTxsBlockMarker(d, b) IN
         /\ SameCoins(e, d) /\ e.chain = d.chain /\ e.unmined = d.unmined
         /\ Waiting(d) => Waiting(e)
<1>. DEFINE e == UpdateProcessedTxsBlockMarker(d, b)
<1>1. /\ SameCoins(e, d) /\ e.chain = d.chain /\ e.unmined = d.unmined
      /\ e.unminedCredits = d.unminedCredits
  BY DEF UpdateProcessedTxsBlockMarker, SameCoins, Stores
<1>. HIDE DEF e
<1>2. Waiting(d) => Waiting(e)
  BY <1>1 DEF Waiting
<1>. QED BY <1>1, <1>2 DEF e

LEMMA MarkerSettled ==
  ASSUME NEW d \in Stores, Settled(d), NEW b PROVE Settled(UpdateProcessedTxsBlockMarker(d, b))
<1>. DEFINE e == UpdateProcessedTxsBlockMarker(d, b)
<1>1. SameCoins(e, d) /\ e.chain = d.chain /\ e.unmined = d.unmined /\ Waiting(e)
  BY MarkerRest DEF Settled, Account
<1>. HIDE DEF e
<1>2. Settled(e)
  BY <1>1, SettledRest DEF Settled, Apart
<1>. QED BY <1>2 DEF e

\* In a switch, what is unmined stands at the fork at most, where an approval has
\* brought the block's regular transactions back.
ApartBut(d, h) == \A t \in d.unmined, b \in Block :
  Stands(d, t, b) => Height(b) = h /\ Disapproved(b) /\ t \in Regular

\* The prune that ends the switch removes it: it finds its inputs spent.
LEMMA PruneSettles ==
  ASSUME Orderly, NEW d, Good(d), Account(d), NEW h, ApartBut(d, h), Tip(d) \notin d.invalid
  PROVE  Settled(PruneUnmined(d))
<1>. DEFINE T == {t \in d.unmined : NoLongerBelongs(d, t)}
            e == RemoveUnconfirmed(d, T)
<1>1. d \in Stores /\ ValidChains /\ NoSpendsWithin /\ Lines(d) /\ InOrder(d) /\ Books(d)
      /\ Waiting(d) /\ Chained(d) /\ Placed(d) /\ Judged(d)
  BY DEF Good, Orderly, Account, Lines
<1>2. PruneUnmined(d) = e
  BY DEF PruneUnmined
<1>3. ASSUME NEW t \in d.unmined, NEW b \in Block, Stands(d, t, b) PROVE t \in T
  <2>1. t \in Tx /\ Height(b) = h /\ Disapproved(b) /\ t \in Regular /\ t \notin Coinbase
    BY <1>1, <1>3, FieldTypes DEF ApartBut, Waiting
  <2>2. PICK o \in Inputs[t] : TRUE
    BY <1>1, <2>1 DEF ValidChains
  <2>3. d.unspent[o] = None
    BY <1>1, <1>3, <2>1, InputsSpent
  <2>4. ASSUME o \in d.unminedCredits PROVE FALSE
    <3>1. PICK u \in d.unmined : o \in Owned /\ o \in Outputs[u]
      BY <1>1, <2>4 DEF Waiting
    <3>2. u \in Tx /\ Fits(d, t, b) /\ <<t, b>> \in d.records /\ t \in MinedTxs(b)
      BY <1>1, <1>3, <2>1, FieldTypes, StandsFits DEF Stands, Fits
    <3>3. PICK c \in Line(b) : Fits(d, u, c) /\ (c # b \/ Precedes(b, u, t))
      BY <1>1, <2>1, <2>2, <3>1, <3>2, MakerFits
    <3>4. c \in Block /\ u \in MinedTxs(c)
      BY <3>3, InLine DEF Fits
    <3>5. <<u, c>> \in d.records
      <4>1. /\ \A v \in Line(b) : v # b => Full(d, v)
            /\ \A v \in Tx : Precedes(b, v, t) => <<v, b>> \in d.records
        BY <1>1, <2>1, <3>2 DEF InOrder
      <4>2. CASE c # b
        <5>1. Full(d, c)
          BY <3>3, <4>1, <4>2
        <5>. QED BY <3>4, <5>1 DEF Full, Recorded
      <4>3. CASE c = b
        BY <3>2, <3>3, <4>1, <4>3
      <4>. QED BY <4>2, <4>3
    <3>6. Stands(d, u, c)
      BY <3>3, <3>5 DEF Stands, Fits
    <3>7. Height(c) = Height(b)
      BY <2>1, <3>1, <3>4, <3>6 DEF ApartBut
    <3>8. b \in Line(b)
      BY <3>2, <1>1, LineGrows, TipTyped DEF Fits
    <3>9. c = b
      BY <3>3, <3>7, <3>8, SameHeight
    <3>. QED BY <1>1, <2>1, <2>2, <3>1, <3>2, <3>4, <3>9 DEF NoSpendsWithin
  <2>. QED BY <1>3, <2>1, <2>3, <2>4 DEF NoLongerBelongs, HasValidInputs
<1>4. T \cap e.unmined = {}
  <2>1. T \subseteq SpendChains(d, T)
    BY DEF SpendChains
  <2>2. e.unmined = d.unmined \ SpendChains(d, T)
    BY <1>1 DEF RemoveUnconfirmed, Stores
  <2>. QED BY <2>1, <2>2
<1>. HIDE DEF T
<1>5. SameCoins(e, d) /\ e.chain = d.chain /\ e.unmined \subseteq d.unmined /\ Waiting(e)
  BY <1>1, RemoveRest
<1>. HIDE DEF e
<1>6. Account(e) /\ Tip(e) = Tip(d) /\ \A t, b : Stands(e, t, b) <=> Stands(d, t, b)
  BY <1>5, SameAccount
<1>7. Apart(e)
  BY <1>3, <1>4, <1>5, <1>6 DEF Apart
<1>8. Settled(e)
  BY <1>5, <1>6, <1>7 DEF Settled, SameCoins
<1>. QED BY <1>2, <1>8

-----------------------------------------------------------------------------
(* The open database transaction. *)

\* In a switch, the store between two database transactions.
Midway ==
  IF ~Switching THEN Settled(db)
  ELSE IF task.at = None THEN Apart(db)
  ELSE ApartBut(db, task.fork) /\ Tip(db) \notin db.invalid

\* What is left to record of a block: those before it are recorded.
Remaining == task.txs # <<>> =>
  /\ task.at \in Block /\ (Switching => task.found)
  /\ \E n \in 1 .. Len(TxsOf[task.at]) :
       /\ task.txs = SubSeq(TxsOf[task.at], n, Len(TxsOf[task.at]))
       /\ \A i \in 1 .. n - 1 : <<TxsOf[task.at][i], task.at>> \in db.records

\* A session that starts rescans the blocks in the order of the chain.
Scanning == phase = "rescan" /\ rescan.last # None =>
  LET c == ChainTo[rescan.last] IN
  \E i, j \in 0 .. Len(c) :
    /\ i <= j /\ task.blocks = SubSeq(c, i + 1, j) /\ rescan.todo = SubSeq(c, j + 1, Len(c))
    /\ task.at # None => i # 0 /\ task.at = c[i]

\* A rescan of what the marker has passed has written nothing.
Unwritten ==
  task.op = "save" /\ (phase = "up" \/ task.at = None \/ Height(task.at) <= MarkerHeight(disk))
    => db = disk

CoinInv ==
  Account(db) /\ Settled(disk) /\ Midway /\ Remaining /\ Scanning /\ Unwritten
\* Nothing is open after the step.
LEMMA Closes ==
  ASSUME db' = disk', Settled(disk'), task' = NoTask, Scanning' PROVE CoinInv'
<1>1. task'.op = "none" /\ task'.txs = <<>>
  BY DEF NoTask
<1>2. Account(db') /\ Midway'
  BY <1>1 DEF Settled, Midway, Switching
<1>3. Remaining' /\ Unwritten'
  BY <1>1 DEF Remaining, Unwritten
<1>. QED BY <1>2, <1>3 DEF CoinInv

\* The step writes nothing.
LEMMA Reads ==
  ASSUME CoinInv, UNCHANGED <<db, disk, task>>, task.op # "save", Scanning' PROVE CoinInv'
<1>1. Account(db)' /\ Settled(disk)' /\ Midway' /\ Remaining'
  BY DEF CoinInv, Midway, Switching, Remaining
<1>. QED BY <1>1 DEF CoinInv, Unwritten

LEMMA RestartCounts == ASSUME CoinInv, Restart PROVE CoinInv'
<1>1. /\ db' = disk /\ disk' = disk /\ task' = NoTask /\ phase' = "headers"
  BY DEF Restart, RollBackTask
<1>. QED BY <1>1, Closes DEF CoinInv, Scanning

LEMMA RefusedCounts == ASSUME MInv, CoinInv, SaveRefused PROVE CoinInv'
<1>1. db' = disk /\ disk' = disk /\ task' = NoTask
  BY DEF SaveRefused, RollBackTask
<1>2. phase' # "rescan"
  BY DEF SaveRefused, MInv, Phases, AfterFailedRescan
<1>. QED BY <1>1, <1>2, Closes DEF CoinInv, Scanning

LEMMA AddCounts ==
  ASSUME IInv, IInv', MInv, CoinInv, NEW t \in Tx, AddTransaction(t) PROVE CoinInv'
<1>. DEFINE e == RemoveUnconfirmed(db, StaleVotes(db, t))
<1>1. /\ Idle /\ db' = InsertMemPoolTx(e, t) /\ disk' = db' /\ task' = NoTask
      /\ phase = "up" /\ UNCHANGED <<phase, rescan>> /\ t \notin Coinbase /\ ~Known(db, t)
  BY DEF AddTransaction, Commit
<1>2. Settled(db) /\ db \in Stores /\ Good(db)
  BY <1>1, Stored DEF MInv, Idleness, Idle, NoTask, CoinInv
<1>3. StaleVotes(db, t) \in SUBSET Tx
  BY <1>2, FieldTypes, Constants DEF StaleVotes, DoubleSpends
<1>4. e \in Stores /\ Settled(e) /\ e.records = db.records
  BY <1>2, <1>3, RemoveGood, RemoveSettled, RemoveView DEF Good, View
<1>. HIDE DEF e
<1>5. \A b \in Block : <<t, b>> \notin e.records
  BY <1>1, <1>4 DEF Known
<1>6. Settled(db')
  BY <1>1, <1>4, <1>5, InsertSettled
<1>. QED BY <1>1, <1>6, Closes DEF Scanning

LEMMA AbandonCounts ==
  ASSUME IInv, IInv', MInv, CoinInv, NEW t \in Tx, AbandonTransaction(t) PROVE CoinInv'
<1>1. /\ Idle /\ db' = RemoveUnconfirmed(db, {t}) /\ disk' = db' /\ task' = NoTask
      /\ UNCHANGED <<phase, rescan>>
  BY DEF AbandonTransaction, Commit
<1>2. Settled(db) /\ db \in Stores
  BY <1>1, Stored DEF MInv, Idleness, Idle, NoTask, CoinInv
<1>3. Settled(db')
  BY <1>1, <1>2, RemoveSettled
<1>4. Scanning'
  BY <1>1 DEF CoinInv, Scanning, Idle
<1>. QED BY <1>1, <1>3, <1>4, Closes

LEMMA SwitchCounts ==
  ASSUME MInv, CoinInv, NEW b \in Block, ChainSwitch(b) PROVE CoinInv'
<1>1. /\ Idle /\ UNCHANGED <<db, disk, phase, rescan>> /\ phase # "rescan"
      /\ task' = [NoTask EXCEPT
           !.op = "switch", !.fork = CommonHeight(ChainTo[b], disk.chain),
           !.blocks = SubSeq(ChainTo[b], CommonHeight(ChainTo[b], disk.chain) + 1,
                             Len(ChainTo[b])),
           !.found = phase = "up" /\ RescanPoint(disk) = None]
  BY Zenon DEF ChainSwitch
<1>2. task'.op = "switch" /\ task'.at = None /\ task'.txs = <<>>
  BY <1>1 DEF NoTask
<1>3. db = disk
  BY <1>1 DEF MInv, Idleness, Idle, NoTask
<1>4. Account(db)' /\ Settled(disk)' /\ Midway'
  BY <1>1, <1>2, <1>3 DEF CoinInv, Midway, Switching, Settled
<1>5. Remaining' /\ Scanning' /\ Unwritten'
  BY <1>1, <1>2 DEF Remaining, Scanning, Unwritten
<1>. QED BY <1>4, <1>5 DEF CoinInv

LEMMA RescanFromCounts ==
  ASSUME MInv, CoinInv, NEW b \in Block, RescanFrom(b) PROVE CoinInv'
<1>1. /\ UNCHANGED <<db, disk, task, phase>> /\ phase = "up" /\ ~rescan.on
  BY Zenon DEF RescanFrom
<1>2. task.op # "save"
  BY <1>1 DEF MInv, Phases, SaveInv, NoRescan
<1>. QED BY <1>1, <1>2, Reads DEF Scanning

LEMMA HeadersCounts == ASSUME MInv, CoinInv, HeadersEnd PROVE CoinInv'
<1>1. /\ Idle /\ UNCHANGED <<db, disk, task>>
      /\ \/ phase' = "up"
         \/ rescan' = [NoRescan EXCEPT
              !.on = TRUE, !.from = RescanPoint(disk), !.inclusive = TRUE]
  BY Zenon DEF HeadersEnd
<1>2. task.op # "save"
  BY <1>1 DEF Idle, NoTask
<1>3. phase' = "up" \/ rescan'.last = None
  BY <1>1 DEF NoRescan
<1>. QED BY <1>1, <1>2, <1>3, Reads DEF Scanning

LEMMA RescanFailsCounts == ASSUME MInv, CoinInv, RescanFails PROVE CoinInv'
<1>1. /\ UNCHANGED <<db, disk, task>> /\ rescan.on /\ phase' = AfterFailedRescan
      /\ rescan.last = None \/ Idle
  BY Zenon DEF RescanFails
<1>2. task.op # "save"
  BY <1>1 DEF MInv, SaveInv, Idle, NoTask
<1>3. phase' # "rescan"
  BY <1>1 DEF AfterFailedRescan
<1>. QED BY <1>1, <1>2, <1>3, Reads DEF Scanning

LEMMA MarkCounts == ASSUME IInv, IInv', MInv, CoinInv, MarkRescanned PROVE CoinInv'
<1>1. /\ Idle /\ Commit(UpdateProcessedTxsBlockMarker(db, rescan.last))
      /\ rescan' = [NoRescan EXCEPT !.on = TRUE, !.from = rescan.last]
  BY DEF MarkRescanned
<1>2. Settled(db) /\ db \in Stores
  BY <1>1, Stored DEF MInv, Idleness, Idle, NoTask, CoinInv
<1>3. /\ db' = disk' /\ disk' = UpdateProcessedTxsBlockMarker(db, rescan.last)
      /\ task' = NoTask /\ rescan'.last = None
  BY <1>1 DEF Commit, NoRescan
<1>4. Settled(disk')
  BY <1>2, <1>3, MarkerSettled
<1>. QED BY <1>3, <1>4, Closes DEF Scanning

LEMMA SaveEndCounts == ASSUME IInv, MInv, CoinInv, SaveEnd PROVE CoinInv'
<1>1. /\ task.op = "save" /\ task.txs = <<>> /\ task.blocks = <<>>
      /\ db' = db /\ disk' = db /\ task' = NoTask /\ UNCHANGED <<phase, rescan>>
  BY DEF SaveEnd, Commit
<1>2. Settled(db)
  BY <1>1 DEF CoinInv, Midway, Switching
<1>3. Scanning'
  <2>. SUFFICES ASSUME phase = "rescan", rescan.last # None PROVE Scanning'
    BY <1>1 DEF Scanning
  <2>. DEFINE c == ChainTo[rescan.last]
  <2>1. PICK i, j \in 0 .. Len(c) : rescan.todo = SubSeq(c, j + 1, Len(c))
    BY DEF CoinInv, Scanning
  <2>2. SubSeq(c, j + 1, j) = <<>> /\ j <= j
    BY SubSeqEmpty
  <2>3. NoTask.blocks = <<>> /\ NoTask.at = None
    BY DEF NoTask
  <2>. QED BY <1>1, <2>1, <2>2, <2>3 DEF Scanning
<1>. QED BY <1>1, <1>2, <1>3, Closes

\* The blocks a rescan that a session starts with has listed.
LEMMA ScanFacts ==
  ASSUME IInv, IInv', MInv, CoinInv, phase = "rescan", rescan.last # None
  PROVE  LET c == ChainTo[rescan.last] IN
         /\ rescan.last \in Block /\ rescan.last \in Line(Tip(disk)) /\ Tip(disk) \in Block
         /\ c \in Chains /\ Len(c) = Height(rescan.last) /\ Len(c) \in Nat
         /\ \A i \in 1 .. Len(c) : c[i] \in Block \ {Genesis} /\ Height(c[i]) = i
         /\ \A i \in 1 .. Len(c) : c[i] \in Line(Tip(disk))
<1>1. Tip(disk) \in Block /\ rescan.last \in Line(Tip(disk))
  BY Stored, ChainedFacts DEF MInv, ChainInv, Listed
<1>2. rescan.last \in Block
  BY <1>1, LineFacts
<1>. QED BY <1>1, <1>2, LineFacts, LineGrows

LEMMA SaveRescannedCounts ==
  ASSUME IInv, IInv', MInv, CoinInv, NEW n \in 1 .. MaxBlocksPerRescan, SaveRescanned(n)
  PROVE  CoinInv'
<1>. DEFINE B == SubSeq(rescan.todo, 1, n)
            R == SubSeq(rescan.todo, n + 1, Len(rescan.todo))
<1>1. /\ Idle /\ n \in DOMAIN rescan.todo /\ UNCHANGED <<db, disk, phase>>
      /\ task' = [NoTask EXCEPT !.op = "save", !.blocks = B]
      /\ rescan' = [rescan EXCEPT !.todo = R]
  BY Zenon DEF SaveRescanned
<1>2. /\ db = disk /\ rescan \in Rescans /\ rescan.todo \in Chains /\ task.blocks = <<>>
  BY <1>1, Stored, TaskFields DEF MInv, Idleness, Idle, NoTask, TaskInv
<1>3. /\ task'.op = "save" /\ task'.blocks = B /\ task'.at = None /\ task'.txs = <<>>
      /\ rescan'.todo = R /\ rescan'.last = rescan.last
  BY <1>1, <1>2 DEF NoTask, Rescans
<1>4. Account(db)' /\ Settled(disk)' /\ Midway'
  BY <1>1, <1>2, <1>3 DEF CoinInv, Midway, Switching, Settled
<1>5. Remaining' /\ Unwritten'
  BY <1>1, <1>2, <1>3 DEF Remaining, Unwritten
<1>6. Scanning'
  <2>. SUFFICES ASSUME phase = "rescan", rescan.last # None PROVE Scanning'
    BY <1>1, <1>3 DEF Scanning
  <2>. DEFINE c == ChainTo[rescan.last]
  <2>1. PICK i, j \in 0 .. Len(c) :
          i <= j /\ task.blocks = SubSeq(c, i + 1, j) /\ rescan.todo = SubSeq(c, j + 1, Len(c))
    BY DEF CoinInv, Scanning
  <2>2. c \in Seq(Block \ {Genesis}) /\ Len(c) \in Nat
    BY ScanFacts DEF Chains
  <2>. HIDE DEF c
  <2>3. Len(rescan.todo) = Len(c) - j /\ n \in 1 .. Len(rescan.todo) /\ n \in Nat /\ j \in Nat
    <3>1. \A k \in j + 1 .. Len(c) : c[k] \in Block \ {Genesis}
      BY <2>2
    <3>2. Len(rescan.todo) = IF j + 1 <= Len(c) THEN Len(c) - (j + 1) + 1 ELSE 0
      BY <2>1, <2>2, <3>1, SubSeqProperties
    <3>3. Len(rescan.todo) = Len(c) - j
      BY <2>1, <2>2, <3>2
    <3>. QED BY <1>1, <1>2, <2>1, <2>2, <3>3 DEF Chains
  <2>4. /\ j + n \in 0 .. Len(c) /\ j + 1 \in 1 .. Len(c) /\ Len(c) \in 1 .. Len(c)
        /\ n \in 1 .. Len(c) - (j + 1) + 1 /\ 1 \in 1 .. Len(c) - (j + 1) + 1
        /\ Len(rescan.todo) \in 1 .. Len(c) - (j + 1) + 1
    BY <2>1, <2>2, <2>3
  <2>5. B = SubSeq(c, j + 1, j + n)
    <3>1. B = SubSeq(c, (j + 1) + 1 - 1, (j + 1) + n - 1)
      BY <2>1, <2>2, <2>4, SubSeqOfSubSeq
    <3>2. (j + 1) + 1 - 1 = j + 1 /\ (j + 1) + n - 1 = j + n
      BY <2>3
    <3>. QED BY <3>1, <3>2
  <2>6. R = SubSeq(c, (j + n) + 1, Len(c))
    <3>1. CASE n = Len(rescan.todo)
      <4>1. R = <<>>
        BY <1>2, <2>3, <3>1, SubSeqEmpty
      <4>2. SubSeq(c, (j + n) + 1, Len(c)) = <<>>
        BY <2>2, <2>3, <3>1, SubSeqEmpty
      <4>. QED BY <4>1, <4>2
    <3>2. CASE n # Len(rescan.todo)
      <4>1. n + 1 \in 1 .. Len(c) - (j + 1) + 1
        BY <2>2, <2>3, <3>2
      <4>2. R = SubSeq(c, (j + 1) + (n + 1) - 1, (j + 1) + Len(rescan.todo) - 1)
        BY <2>1, <2>2, <2>4, <4>1, SubSeqOfSubSeq
      <4>3. /\ (j + 1) + (n + 1) - 1 = (j + n) + 1
            /\ (j + 1) + Len(rescan.todo) - 1 = Len(c)
        BY <2>2, <2>3
      <4>. QED BY <4>2, <4>3
    <3>. QED BY <3>1, <3>2
  <2>7. j <= j + n
    BY <2>3
  <2>. QED BY <1>3, <2>1, <2>4, <2>5, <2>6, <2>7 DEF Scanning, c
<1>. QED BY <1>4, <1>5, <1>6 DEF CoinInv

LEMMA SaveBlockCounts == ASSUME IInv, IInv', MInv, CoinInv, SaveBlock PROVE CoinInv'
<1>. DEFINE b == Head(task.blocks)
<1>1. /\ task.op = "save" /\ task.txs = <<>> /\ task.blocks # <<>>
      /\ task' = [task EXCEPT !.at = b, !.blocks = Tail(task.blocks), !.txs = TxsOf[b]]
      /\ UNCHANGED <<db, disk, phase, rescan>>
  BY DEF SaveBlock
<1>2. task \in Tasks /\ task.blocks \in Chains
  BY Stored, TaskFields DEF TaskInv
<1>3. /\ task'.op = "save" /\ task'.blocks = Tail(task.blocks) /\ task'.at = b
      /\ task'.txs = TxsOf[b]
  BY <1>1, <1>2 DEF Tasks
<1>4. b \in Block /\ TxsOf[b] \in Seq(Tx) /\ b # None
  BY <1>1, <1>2, Parts, Constants DEF Chains
<1>5. Account(db)' /\ Settled(disk)' /\ Midway'
  BY <1>1, <1>3 DEF CoinInv, Midway, Switching
<1>6. Remaining'
  <2>. SUFFICES ASSUME TxsOf[b] # <<>> PROVE Remaining'
    BY <1>3 DEF Remaining
  <2>1. 1 \in 1 .. Len(TxsOf[b]) /\ TxsOf[b] = SubSeq(TxsOf[b], 1, Len(TxsOf[b]))
    BY <1>4, SubSeqFull
  <2>2. \A i \in 1 .. 1 - 1 : <<TxsOf[b][i], b>> \in db'.records
    OBVIOUS
  <2>3. task'.at \in Block /\ ~Switching'
    BY <1>3, <1>4 DEF Switching
  <2>. HIDE DEF b
  <2>. QED BY <1>3, <2>1, <2>2, <2>3 DEF Remaining
<1>7. ASSUME phase = "rescan", rescan.last # None
      PROVE  Scanning' /\ (Height(b) <= MarkerHeight(disk) => db = disk)
  <2>. DEFINE c == ChainTo[rescan.last]
  <2>1. PICK i, j \in 0 .. Len(c) :
          /\ i <= j /\ task.blocks = SubSeq(c, i + 1, j) /\ rescan.todo = SubSeq(c, j + 1, Len(c))
          /\ task.at # None => i # 0 /\ task.at = c[i]
    BY <1>7 DEF CoinInv, Scanning
  <2>2. /\ c \in Seq(Block \ {Genesis}) /\ Len(c) \in Nat
        /\ \A k \in 1 .. Len(c) : Height(c[k]) = k
    BY <1>7, ScanFacts DEF Chains
  <2>3. MarkerHeight(disk) \in Nat
    BY Stored, ChainedFacts DEF MInv, ChainInv
  <2>. HIDE DEF c
  <2>4. i # j /\ i \in Nat /\ j \in Nat
    <3>1. i = j => SubSeq(c, i + 1, j) = <<>>
      BY <2>1, SubSeqEmpty
    <3>. QED BY <1>1, <2>1, <3>1
  <2>5. i + 1 \in 1 .. Len(c) /\ j \in i + 1 .. Len(c)
    BY <2>1, <2>2, <2>4
  <2>6. b = c[i + 1] /\ Tail(task.blocks) = SubSeq(c, (i + 1) + 1, j)
    BY <2>1, <2>2, <2>5, HeadTailOfSubSeq
  <2>7. i + 1 \in 0 .. Len(c) /\ i + 1 # 0 /\ i + 1 <= j
    BY <2>2, <2>5
  <2>8. Scanning'
    <3>. HIDE DEF b
    <3>. QED BY <1>1, <1>3, <2>1, <2>6, <2>7 DEF Scanning, c
  <2>9. ASSUME Height(b) <= MarkerHeight(disk) PROVE db = disk
    <3>1. Height(b) = i + 1
      BY <2>2, <2>5, <2>6
    <3>2. task.at # None => Height(task.at) = i
      BY <2>1, <2>2, <2>5
    <3>3. task.at # None => Height(task.at) <= MarkerHeight(disk)
      BY <2>3, <2>4, <2>9, <3>1, <3>2
    <3>. QED BY <1>1, <3>3 DEF CoinInv, Unwritten
  <2>. QED BY <2>8, <2>9
<1>8. Scanning'
  BY <1>1, <1>3, <1>7 DEF Scanning
<1>9. Unwritten'
  <2>1. phase = "up" \/ (phase = "rescan" /\ rescan.last # None)
    BY <1>1, Stored DEF MInv, SaveInv
  <2>. QED BY <1>1, <1>3, <1>4, <1>7, <2>1 DEF CoinInv, Unwritten
<1>. QED BY <1>5, <1>6, <1>8, <1>9 DEF CoinInv

LEMMA ListCounts == ASSUME IInv, IInv', MInv, CoinInv, ListBlocks PROVE CoinInv'
<1>. DEFINE f == Height(rescan.from) + IF rescan.inclusive THEN 0 ELSE 1
            m == IF Len(disk.chain) < f + MaxBlocksPerRescan - 1
                 THEN Len(disk.chain) ELSE f + MaxBlocksPerRescan - 1
            B == SubSeq(disk.chain, f, m)
<1>1. /\ UNCHANGED <<db, disk, task>> /\ rescan.on /\ rescan.last = None
      /\ InChain(disk, rescan.from)
      /\ \/ rescan' = NoRescan /\ phase' = "up"
         \/ /\ B # <<>> /\ UNCHANGED phase
            /\ rescan' = [rescan EXCEPT !.todo = B, !.last = Last(B)]
  BY Zenon DEF ListBlocks
<1>2. /\ task.op # "save" /\ rescan \in Rescans /\ disk \in Stores /\ Chained(disk)
  BY <1>1, Stored DEF MInv, SaveInv, TaskInv, ChainInv
<1>3. /\ Tip(disk) \in Block /\ disk.chain = ChainTo[Tip(disk)]
      /\ Len(disk.chain) = Height(Tip(disk)) /\ rescan.from \in Line(Tip(disk))
      /\ disk.chain \in Seq(Block \ {Genesis})
  BY <1>1, <1>2, ChainedFacts DEF Chains
<1>. DEFINE n == Height(Tip(disk))
<1>4. n \in Nat /\ Height(rescan.from) \in 1 .. n
  BY <1>3, LineFacts, InLine
<1>5. f \in Nat \ {0} /\ m \in Int /\ m <= n
  BY <1>2, <1>3, <1>4, TreeAssumption DEF Rescans
<1>6. ASSUME phase' = "rescan", rescan'.last # None PROVE Scanning'
  <2>1. B # <<>> /\ phase = "rescan" /\ rescan'.todo = B /\ rescan'.last = Last(B)
    BY <1>1, <1>2, <1>6 DEF NoRescan, Rescans
  <2>2. task.blocks = <<>> /\ task.at = None
    BY <1>2, <2>1, Stored DEF MInv, Phases, Switching, Idleness, Idle, NoTask, TaskInv, Tasks
  <2>. HIDE DEF f, m
  <2>3. f <= m
    <3>1. ~(f <= m) => B = <<>>
      BY <1>5, SubSeqEmpty
    <3>. QED BY <2>1, <3>1
  <2>4. m \in 1 .. n
    BY <1>4, <1>5, <2>3
  <2>5. Last(B) = disk.chain[m]
    <3>1. \A k \in f .. m : disk.chain[k] \in Block \ {Genesis}
      BY <1>3, <1>5
    <3>2. /\ Len(B) = IF f <= m THEN m - f + 1 ELSE 0
          /\ \A k \in 1 .. m - f + 1 : B[k] = disk.chain[f + k - 1]
      BY <1>5, <3>1, SubSeqProperties
    <3>. HIDE DEF B
    <3>3. Len(B) = m - f + 1 /\ m - f + 1 \in 1 .. m - f + 1 /\ f + (m - f + 1) - 1 = m
      BY <1>5, <2>3, <2>4, <3>2
    <3>. QED BY <3>2, <3>3 DEF Last
  <2>. DEFINE c == ChainTo[rescan'.last]
  <2>6. c = SubSeq(disk.chain, 1, m) /\ Len(c) = m
    BY <1>3, <2>1, <2>4, <2>5, LineFacts DEF Height
  <2>7. B = SubSeq(c, f, m)
    <3>1. \A k \in 1 .. m : c[k] = disk.chain[k] /\ disk.chain[k] \in Block \ {Genesis}
      BY <1>3, <2>4, <2>6
    <3>. HIDE DEF c
    <3>2. \A k \in f .. m : c[k] = disk.chain[k]
      BY <1>5, <2>4, <3>1
    <3>. QED BY <1>5, <2>4, <3>2
  <2>. HIDE DEF B, c
  <2>8. f - 1 \in 0 .. Len(c) /\ f - 1 <= f - 1 /\ (f - 1) + 1 = f /\ Len(c) = m
    BY <1>5, <2>3, <2>4, <2>6
  <2>9. SubSeq(c, (f - 1) + 1, f - 1) = <<>>
    BY <1>5, SubSeqEmpty
  <2>. QED BY <1>1, <2>1, <2>2, <2>7, <2>8, <2>9 DEF Scanning, c
<1>. QED BY <1>1, <1>2, <1>6, Reads DEF Scanning

\* What a step within a switch has to show.
LEMMA InSwitch ==
  ASSUME MInv, CoinInv, Switching, task'.op = "switch", UNCHANGED <<disk, phase, rescan>>,
         Account(db'), Midway', Remaining'
  PROVE  CoinInv'
<1>1. phase # "rescan"
  BY DEF MInv, Phases
<1>. QED BY <1>1 DEF CoinInv, Scanning, Unwritten

\* While it rolls back, no transaction is at hand; once it is over, a block is.
LEMMA SwitchStages ==
  ASSUME IInv, IInv', MInv, Switching
  PROVE  /\ task.at = None => task.txs = <<>>
         /\ task.blocks = <<>> => task.at # None
<1>1. PICK b \in Block : SwitchTo(b)
  BY DEF MInv, SwitchInv
<1>2. /\ ChainTo[b] \in Chains /\ Height(b) = Len(ChainTo[b]) /\ Tip(db) \in Block
      /\ task.fork \in Nat /\ task.fork < Height(b) /\ Height(b) \in Nat
  BY <1>1, SwitchFacts
<1>3. task.at = None => Rolling(b)
  BY <1>1, <1>2, Constants DEF SwitchTo, Attaching
<1>4. SubSeq(ChainTo[b], task.fork + 1, Height(b)) # <<>>
  <2>1. Len(SubSeq(ChainTo[b], task.fork + 1, Height(b))) = Height(b) - task.fork
    BY <1>2 DEF Chains
  <2>2. Height(b) - task.fork # 0 /\ Len(<<>>) = 0
    BY <1>2
  <2>. QED BY <2>1, <2>2
<1>. QED BY <1>3, <1>4 DEF Rolling

LEMMA RollbackCounts ==
  ASSUME Orderly, IInv, IInv', MInv, CoinInv, Rollback PROVE CoinInv'
<1>1. /\ Switching /\ Len(db.chain) > task.fork /\ task.at = None
      /\ db' = RollbackBlock(db) /\ UNCHANGED <<disk, phase, rescan>>
      /\ task' = [task EXCEPT !.orphaned = task.orphaned \cup CoinbaseOutputs(db)]
  BY DEF Rollback, Write
<1>2. Good(db) /\ task \in Tasks /\ Account(db) /\ Apart(db) /\ task.txs = <<>>
  BY <1>1, Stored, SwitchStages DEF TaskInv, CoinInv, Midway
<1>3. task'.op = task.op /\ task'.at = None /\ task'.txs = <<>>
  BY <1>1, <1>2 DEF Tasks
<1>4. db.chain # <<>>
  <2>1. task.fork \in Nat
    BY <1>2 DEF Tasks
  <2>. QED BY <1>1, <2>1
<1>5. Account(db') /\ Apart(db')
  BY <1>1, <1>2, <1>4, RollbackAccount
<1>6. Midway' /\ Remaining'
  BY <1>1, <1>3, <1>5 DEF Midway, Switching, Remaining
<1>. QED BY <1>1, <1>3, <1>5, <1>6, InSwitch DEF Switching

LEMMA RollbackEndCounts ==
  ASSUME IInv, IInv', MInv, CoinInv, RollbackEnd PROVE CoinInv'
<1>1. /\ Switching /\ db' = RemoveUnconfirmed(db, SpendersOf(db, task.orphaned))
      /\ UNCHANGED <<disk, phase, rescan>> /\ task' = [task EXCEPT !.orphaned = {}]
      /\ task.at = None
  BY DEF RollbackEnd, Write
<1>2. db \in Stores /\ task \in Tasks /\ Account(db) /\ Apart(db) /\ task.txs = <<>>
  BY <1>1, Stored, SwitchStages DEF TaskInv, CoinInv, Midway
<1>3. task'.op = task.op /\ task'.at = None /\ task'.txs = <<>>
  BY <1>1, <1>2 DEF Tasks
<1>4. /\ SameCoins(db', db) /\ db'.chain = db.chain /\ db'.unmined \subseteq db.unmined
      /\ Waiting(db')
  BY <1>1, <1>2, RemoveRest DEF Account
<1>5. Account(db') /\ \A t, b : Stands(db', t, b) <=> Stands(db, t, b)
  BY <1>2, <1>4, SameAccount
<1>6. Apart(db')
  BY <1>2, <1>4, <1>5 DEF Apart
<1>7. Midway' /\ Remaining'
  BY <1>1, <1>3, <1>6 DEF Midway, Switching, Remaining
<1>. QED BY <1>1, <1>3, <1>5, <1>7, InSwitch DEF Switching

\* The block's votes judge the tip: if they approve a tip that an earlier chain's
\* disapproved, its regular transactions stand again.
LEMMA AttachCounts ==
  ASSUME Orderly, IInv, IInv', MInv, CoinInv, AttachBlock PROVE CoinInv'
<1>. DEFINE x == Head(task.blocks)
            y == Tip(db)
<1>1. /\ Switching /\ task.txs = <<>> /\ task.blocks # <<>>
      /\ task.at = None => Len(db.chain) = task.fork
      /\ db' = ExtendMainChain(db, x) /\ UNCHANGED <<disk, phase, rescan>>
      /\ task' = [task EXCEPT !.at = x, !.blocks = Tail(task.blocks),
                              !.txs = IF task.found THEN TxsOf[x] ELSE <<>>]
  BY DEF AttachBlock, Write
<1>2. /\ db \in Stores /\ db' \in Stores /\ task \in Tasks /\ Good(db) /\ Account(db)
      /\ Chained(db) /\ Chained(db')
  BY Stored, AttachKeeps DEF TaskInv, CoinInv, MInv, ChainInv, Account, Lines
<1>3. /\ task'.op = task.op /\ task'.fork = task.fork /\ task'.at = x
      /\ task'.txs = (IF task.found THEN TxsOf[x] ELSE <<>>) /\ task'.found = task.found
  BY <1>1, <1>2 DEF Tasks
<1>4. x \in Block \ {Genesis} /\ x # None /\ TxsOf[x] \in Seq(Tx)
  <2>1. task.blocks \in Seq(Block \ {Genesis})
    BY <1>2 DEF Tasks, Chains
  <2>. QED BY <1>1, <2>1, Constants
<1>5. y \in Block /\ db.chain = ChainTo[y] /\ Len(db.chain) = Height(y)
  BY <1>2, ChainedFacts
<1>6. db'.chain = Append(ChainTo[y], x)
  BY <1>1, <1>2, <1>4, <1>5, ExtendView
<1>7. Tip(db') = x
  <2>1. ChainTo[y] \in Seq(Block \ {Genesis})
    BY <1>5, LineFacts DEF Chains
  <2>. HIDE DEF x, y
  <2>. QED BY <1>4, <1>6, <2>1 DEF Tip, Last
<1>8. ChainTo[x] = Append(ChainTo[y], x)
  BY <1>2, <1>6, <1>7 DEF Chained
<1>9. /\ Account(db') /\ x \notin db'.invalid /\ db'.unmined = db.unmined
      /\ \A t \in Tx, b \in Block : Stands(db', t, b) =>
           Stands(db, t, b) \/ (b = y /\ t \in Regular /\ y \in db.invalid)
  BY <1>1, <1>2, <1>4, <1>8, ExtendAccount
<1>10. ApartBut(db', task.fork)
  <2>. SUFFICES ASSUME NEW t \in db.unmined, NEW b \in Block, Stands(db', t, b)
                PROVE  Height(b) = task.fork /\ Disapproved(b) /\ t \in Regular
    BY <1>9 DEF ApartBut
  <2>1. t \in Tx
    BY <1>2, FieldTypes
  <2>2. Stands(db, t, b) \/ (b = y /\ t \in Regular /\ y \in db.invalid)
    BY <1>9, <2>1
  <2>3. CASE task.at = None
    <3>1. ~Stands(db, t, b)
      BY <1>1, <2>3 DEF CoinInv, Midway, Apart
    <3>2. Disapproved(b)
      BY <1>2, <2>2, <3>1 DEF Account, Lines, Judged
    <3>. QED BY <1>1, <1>5, <2>2, <2>3, <3>1, <3>2
  <2>4. CASE task.at # None
    <3>1. ApartBut(db, task.fork) /\ y \notin db.invalid
      BY <1>1, <2>4 DEF CoinInv, Midway
    <3>. QED BY <2>2, <3>1 DEF ApartBut
  <2>. QED BY <2>3, <2>4
<1>11. Midway'
  BY <1>1, <1>3, <1>4, <1>7, <1>9, <1>10 DEF Midway, Switching
<1>12. Remaining'
  <2>. SUFFICES ASSUME task.found, TxsOf[x] # <<>> PROVE Remaining'
    BY <1>3 DEF Remaining
  <2>1. 1 \in 1 .. Len(TxsOf[x]) /\ TxsOf[x] = SubSeq(TxsOf[x], 1, Len(TxsOf[x]))
    BY <1>4, SubSeqFull
  <2>2. \A i \in 1 .. 1 - 1 : <<TxsOf[x][i], x>> \in db'.records
    OBVIOUS
  <2>. HIDE DEF x
  <2>. QED BY <1>3, <1>4, <2>1, <2>2 DEF Remaining
<1>. QED BY <1>1, <1>3, <1>9, <1>11, <1>12, InSwitch DEF Switching

\* The prune at the end takes what the switch has let stand and be unmined at once.
LEMMA SwitchEndCounts ==
  ASSUME Orderly, IInv, IInv', MInv, CoinInv, SwitchEnd PROVE CoinInv'
<1>. DEFINE nogap == MarkerHeight(db) + 2 >= task.fork + 1
            u == UpdateProcessedTxsBlockMarker(db, Tip(db))
            m == IF task.found /\ nogap THEN u ELSE db
<1>1. /\ Switching /\ task.blocks = <<>> /\ Commit(PruneUnmined(m))
      /\ UNCHANGED <<phase, rescan>>
  BY DEF SwitchEnd
<1>2. /\ db \in Stores /\ Good(db) /\ phase # "rescan" /\ Account(db) /\ Tip(db) \in Block
      /\ ApartBut(db, task.fork) /\ Tip(db) \notin db.invalid
  BY <1>1, Stored, SwitchStages, TipTyped DEF MInv, Phases, CoinInv, Midway
<1>3. /\ Good(u) /\ SameCoins(u, db) /\ u.chain = db.chain /\ u.unmined = db.unmined
      /\ Waiting(u)
  BY <1>2, MarkerGood, MarkerRest DEF Account
<1>. HIDE DEF u
<1>4. Account(u) /\ Tip(u) = Tip(db) /\ \A t, b : Stands(u, t, b) <=> Stands(db, t, b)
  BY <1>2, <1>3, SameAccount
<1>5. ApartBut(u, task.fork) /\ Tip(u) \notin u.invalid
  BY <1>2, <1>3, <1>4 DEF ApartBut, SameCoins
<1>6. Good(m) /\ Account(m) /\ ApartBut(m, task.fork) /\ Tip(m) \notin m.invalid
  BY <1>2, <1>3, <1>4, <1>5
<1>. HIDE DEF m
<1>7. Settled(PruneUnmined(m))
  BY <1>6, PruneSettles
<1>8. db' = disk' /\ Settled(disk') /\ task' = NoTask
  BY <1>1, <1>7 DEF Commit
<1>. QED BY <1>1, <1>2, <1>8, Closes DEF Scanning

\* A transaction is recorded after what comes before it: in a switch and in a rescan
\* of a session that starts the blocks come in order, and a rescan the user asks for
\* meets blocks that are recorded already.
LEMMA BelowFull ==
  ASSUME IInv, IInv', MInv, CoinInv, task.txs # <<>>, task.at \in Line(Tip(db)),
         NEW c \in Line(task.at), c # task.at
  PROVE  Full(db, c)
<1>. DEFINE x == task.at
<1>1. /\ db \in Stores /\ disk \in Stores /\ Chained(db) /\ Chained(disk) /\ Honest(disk)
      /\ Tip(db) \in Block /\ Tip(disk) \in Block
  BY Stored, TipTyped DEF MInv, ChainInv
<1>2. x \in Block /\ c \in Block /\ c \in Line(Tip(db))
  BY <1>1, LineFacts, LineGrows
<1>3. CASE Switching
  <2>1. PICK b \in Block : SwitchTo(b)
    BY <1>3 DEF MInv, SwitchInv
  <2>2. task.found
    BY <1>3 DEF CoinInv, Remaining
  <2>3. Doing(c)
    BY <1>2, <2>1, <2>2 DEF SwitchTo
  <2>. QED BY <2>3 DEF Doing
<1>4. CASE task.op = "save"
  <2>1. /\ db.marker = disk.marker /\ db.chain = disk.chain /\ Tip(db) = Tip(disk)
        /\ \A z \in Block : Full(disk, z) => Full(db, z)
        /\ phase # "headers" /\ rescan.last # None
    BY <1>4 DEF MInv, SaveInv, Tip, Full
  <2>2. ASSUME c \in Line(disk.marker) PROVE Full(db, c)
    BY <1>1, <1>2, <2>1, <2>2 DEF Honest
  <2>3. CASE phase = "up"
    <3>1. disk.marker = Tip(disk)
      BY <2>3 DEF MInv, Phases
    <3>. QED BY <1>2, <2>1, <2>2, <3>1
  <2>4. CASE phase = "rescan"
    <3>. DEFINE l == ChainTo[rescan.last]
    <3>1. PICK i, j \in 0 .. Len(l) :
            /\ i <= j /\ task.blocks = SubSeq(l, i + 1, j)
            /\ rescan.todo = SubSeq(l, j + 1, Len(l))
            /\ i # 0 /\ x = l[i]
      BY <1>2, <2>1, <2>4, Constants DEF CoinInv, Scanning
    <3>2. /\ rescan.last \in Block /\ Len(l) \in Nat /\ Len(l) = Height(rescan.last)
          /\ \A h \in 1 .. Len(l) : l[h] \in Block \ {Genesis} /\ Height(l[h]) = h
      BY <2>1, <2>4, ScanFacts
    <3>3. x \in Line(rescan.last) /\ Height(x) = i /\ i \in Nat /\ j \in Nat
      BY <3>1, <3>2, LineFacts
    <3>4. Height(c) \in 1 .. i /\ Height(c) # i /\ c \in Line(rescan.last)
      <4>1. Height(c) \in 1 .. i /\ x \in Line(x)
        BY <1>2, <3>2, <3>3, InLine, LineGrows
      <4>2. Height(c) # Height(x)
        BY <1>2, <4>1, SameHeight
      <4>. QED BY <3>2, <3>3, <4>1, <4>2, LineGrows
    <3>. HIDE DEF l
    <3>5. ASSUME NEW m \in i .. Len(l), NEW n \in 0 .. Len(l), c \in Elements(SubSeq(l, m + 1, n))
          PROVE  FALSE
      <4>1. \A h \in m + 1 .. n : l[h] \in Block
        BY <3>2, <3>3
      <4>2. /\ Len(SubSeq(l, m + 1, n)) = IF m + 1 <= n THEN n - (m + 1) + 1 ELSE 0
            /\ \A h \in 1 .. n - (m + 1) + 1 : SubSeq(l, m + 1, n)[h] = l[(m + 1) + h - 1]
        BY <3>2, <3>3, <4>1, SubSeqProperties
      <4>3. PICK h \in 1 .. Len(SubSeq(l, m + 1, n)) : c = SubSeq(l, m + 1, n)[h]
        BY <3>5 DEF Elements
      <4>4. h \in 1 .. n - (m + 1) + 1
        BY <3>2, <3>3, <4>2, <4>3
      <4>5. c = l[m + h] /\ m + h \in 1 .. Len(l)
        <5>1. (m + 1) + h - 1 = m + h /\ m + h \in 1 .. Len(l)
          BY <3>2, <3>3, <4>4
        <5>. QED BY <4>2, <4>3, <4>4, <5>1
      <4>6. Height(c) = m + h
        BY <3>2, <4>5
      <4>. QED BY <3>3, <3>4, <4>4, <4>6
    <3>6. c \notin Elements(rescan.todo) /\ c \notin Elements(task.blocks)
      <4>1. Len(l) \in 0 .. Len(l) /\ j \in i .. Len(l) /\ i \in i .. Len(l)
        BY <3>1, <3>2, <3>3
      <4>. QED BY <3>1, <3>5, <4>1
    <3>7. Passed(c)
      BY <2>1, <2>4, <3>4 DEF MInv, Listed
    <3>8. Doing(c) => Full(db, c)
      BY DEF Doing
    <3>. QED BY <1>2, <2>1, <2>2, <3>6, <3>7, <3>8 DEF Passed
  <2>. QED BY <2>1, <2>3, <2>4, Stored
<1>5. task.op \in {"none", "switch", "save"} /\ task.op # "none"
  BY Stored DEF TaskInv, Tasks, MInv, Idleness, Idle, NoTask
<1>. QED BY <1>3, <1>4, <1>5 DEF Switching

LEMMA SaveTxCounts ==
  ASSUME Orderly, IInv, IInv', MInv, CoinInv, SaveTx PROVE CoinInv'
<1>. DEFINE t == Head(task.txs)
            x == task.at
<1>1. /\ task.txs # <<>> /\ ~Refused(db, t, x)
      /\ db' = ProcessTransactionRecord(db, t, x) /\ UNCHANGED <<disk, phase, rescan>>
      /\ task' = [task EXCEPT !.txs = Tail(task.txs)]
  BY DEF SaveTx, Write
<1>2. /\ db \in Stores /\ disk \in Stores /\ task \in Tasks /\ Good(db) /\ task.txs \in Seq(Tx)
      /\ Chained(db) /\ Account(db) /\ Chained(disk) /\ Honest(disk)
  BY Stored, TaskFields DEF TaskInv, MInv, ChainInv, CoinInv
<1>3. /\ task'.op = task.op /\ task'.fork = task.fork /\ task'.blocks = task.blocks
      /\ task'.txs = Tail(task.txs) /\ task'.at = task.at /\ task'.found = task.found
  BY <1>1, <1>2 DEF Tasks
<1>. DEFINE T == TxsOf[x]
<1>4. PICK n \in 1 .. Len(T) :
        /\ task.txs = SubSeq(T, n, Len(T)) /\ \A i \in 1 .. n - 1 : <<T[i], x>> \in db.records
  BY <1>1 DEF CoinInv, Remaining
<1>5. x \in Block /\ T \in Seq(Tx) /\ x # None /\ (Switching => task.found)
  BY <1>1, Constants DEF CoinInv, Remaining
<1>6. x \in Line(Tip(db)) /\ Tip(db) \in Block
  BY <1>1, <1>2, ChainedFacts DEF Refused
<1>. HIDE DEF x
<1>7. Len(T) \in 1 .. Len(T) /\ Len(T) \in n .. Len(T) /\ Len(T) \in Nat
  BY <1>4, <1>5
<1>8. t = T[n] /\ Tail(task.txs) = SubSeq(T, n + 1, Len(T)) /\ t \in Tx /\ t \in MinedTxs(x)
  <2>1. t = T[n] /\ Tail(task.txs) = SubSeq(T, n + 1, Len(T))
    BY <1>4, <1>5, <1>7, HeadTailOfSubSeq
  <2>2. T[n] \in Tx /\ T[n] \in MinedTxs(x)
    BY <1>4, <1>5 DEF MinedTxs
  <2>. QED BY <2>1, <2>2
<1>9. ASSUME <<t, x>> \notin db.records PROVE Due(db, t, x)
  <2>1. ASSUME NEW u \in Tx, Precedes(x, u, t) PROVE <<u, x>> \in db.records
    <3>1. PICK i, j \in DOMAIN T : i < j /\ T[i] = u /\ T[j] = t
      BY <2>1 DEF Precedes
    <3>2. j = n
      BY <1>4, <1>5, <1>8, <3>1 DEF Orderly, ValidChains
    <3>3. i \in 1 .. n - 1
      BY <1>5, <3>1, <3>2
    <3>. QED BY <1>4, <3>1, <3>3
  <2>2. ~(t \in db.unmined /\ Invalidated(db, t, x))
    BY <1>1, <1>9 DEF Refused, x
  <2>. QED BY <1>1, <1>6, <1>8, <1>9, <2>1, <2>2, BelowFull DEF Due, x
<1>. HIDE DEF t
<1>10. /\ Account(db') /\ db'.invalid = db.invalid /\ db'.chain = db.chain
       /\ db'.unmined \subseteq db.unmined
       /\ \A u \in db'.unmined, c \in Block : Stands(db', u, c) => Stands(db, u, c)
       /\ <<t, x>> \in db.records => db' = db
       /\ db'.records = db.records \cup {<<t, x>>}
  BY <1>1, <1>2, <1>5, <1>8, <1>9, ProcessAccount, ProcessView DEF x
<1>11. Tip(db') = Tip(db)
  BY <1>10 DEF Tip
<1>12. Midway'
  <2>1. CASE ~Switching
    <3>1. Apart(db) /\ Tip(db) \notin db.invalid
      BY <2>1 DEF CoinInv, Midway, Settled
    <3>2. Apart(db')
      BY <1>10, <3>1 DEF Apart
    <3>. QED BY <1>3, <1>10, <1>11, <2>1, <3>1, <3>2 DEF Midway, Switching, Settled
  <2>2. CASE Switching
    <3>1. ApartBut(db, task.fork) /\ Tip(db) \notin db.invalid
      BY <1>5, <2>2 DEF CoinInv, Midway, x
    <3>2. ApartBut(db', task.fork)
      BY <1>10, <3>1 DEF ApartBut
    <3>. QED BY <1>3, <1>5, <1>10, <1>11, <2>2, <3>1, <3>2 DEF Midway, Switching, x
  <2>. QED BY <2>1, <2>2
<1>13. Remaining'
  <2>. SUFFICES ASSUME Tail(task.txs) # <<>> PROVE Remaining'
    BY <1>3 DEF Remaining
  <2>1. n + 1 \in 1 .. Len(T)
    <3>1. n = Len(T) => Tail(task.txs) = <<>>
      BY <1>7, <1>8, SubSeqEmpty
    <3>. QED BY <1>7, <3>1
  <2>2. \A i \in 1 .. (n + 1) - 1 : <<T[i], x>> \in db'.records
    <3>1. \A i \in 1 .. (n + 1) - 1 : i = n \/ i \in 1 .. n - 1
      BY <1>7
    <3>. QED BY <1>4, <1>8, <1>10, <3>1
  <2>3. task'.at = x
    BY <1>3 DEF x
  <2>. QED BY <1>3, <1>5, <1>8, <2>1, <2>2, <2>3 DEF Remaining, Switching
<1>14. Scanning'
  BY <1>1, <1>3 DEF CoinInv, Scanning
<1>15. Unwritten'
  <2>. SUFFICES ASSUME task.op = "save", phase = "up" \/ Height(x) <= MarkerHeight(disk)
                PROVE  db' = disk
    BY <1>1, <1>3, <1>5 DEF Unwritten, x
  <2>1. db = disk
    BY DEF CoinInv, Unwritten, x
  <2>2. x \in Line(disk.marker)
    BY <1>2, <1>6, <2>1, ChainedFacts DEF MInv, Phases
  <2>3. Full(disk, x)
    BY <1>2, <1>6, <2>1, <2>2 DEF Honest
  <2>. QED BY <1>8, <1>10, <2>1, <2>3 DEF Full, Recorded
<1>. QED BY <1>1, <1>10, <1>12, <1>13, <1>14, <1>15 DEF CoinInv

-----------------------------------------------------------------------------

LEMMA InitSettled == Settled(InitStore)
<1>. DEFINE d == InitStore
<1>1. /\ d.chain = <<>> /\ d.invalid = {} /\ d.records = {} /\ d.credits = {} /\ d.spent = {}
      /\ d.debits = {} /\ d.unspent = [o \in Outpoint |-> None] /\ d.invCredits = {}
      /\ d.invDebits = {} /\ d.unmined = {} /\ d.unminedCredits = {} /\ d.balance = 0
  BY DEF InitStore
<1>. HIDE DEF d
<1>2. Tip(d) = Genesis /\ Line(Genesis) = {} /\ ChainTo[Genesis] = <<>>
  BY <1>1, OfGenesis, TreeAssumption DEF Tip
<1>3. Lines(d) /\ InOrder(d) /\ Archived(d) /\ Waiting(d) /\ Apart(d)
  BY <1>1, <1>2 DEF Lines, Chained, Placed, Judged, InOrder, Archived, Waiting, Apart
<1>4. \A b \in Block : b # None
  BY TreeAssumption
<1>5. Credited(d) /\ Debited(d) /\ Flagged(d)
  BY <1>1 DEF Credited, Debited, Flagged, Stands
<1>6. Indexed(d)
  BY <1>1, <1>4 DEF Indexed
<1>7. Summed(d)
  <2>1. Worth[{}] = 0
    BY WorthOfNothing
  <2>2. {o \in Outpoint : d.unspent[o] # None} = {}
    BY <1>1
  <2>. QED BY <1>1, <2>1, <2>2 DEF Summed
<1>8. Tip(d) \notin d.invalid
  BY <1>1
<1>. QED BY <1>3, <1>5, <1>6, <1>7, <1>8 DEF Settled, Account, Books, d

LEMMA InitCounted == Init => CoinInv
<1>1. ASSUME Init PROVE CoinInv
  <2>1. /\ db = disk /\ disk = InitStore /\ phase = "headers" /\ task.op = "none"
        /\ task.txs = <<>>
    BY <1>1 DEF Init, NoTask
  <2>2. Settled(disk) /\ Account(db) /\ Midway
    BY <2>1, InitSettled DEF Midway, Switching, Settled
  <2>. QED BY <2>1, <2>2 DEF CoinInv, Remaining, Scanning, Unwritten
<1>. QED BY <1>1

LEMMA StepCounted ==
  ASSUME Orderly, IInv, IInv', MInv, CoinInv, [Next]_vars PROVE CoinInv'
<1>1. CASE UNCHANGED vars
  BY <1>1 DEF vars, CoinInv, Midway, Switching, Remaining, Scanning, Unwritten
<1>. QED
  BY <1>1, SwitchCounts, RescanFromCounts, HeadersCounts, ListCounts, MarkCounts,
     RescanFailsCounts, SaveRescannedCounts, RollbackCounts, RollbackEndCounts, AttachCounts,
     SwitchEndCounts, SaveBlockCounts, SaveTxCounts, RefusedCounts, SaveEndCounts,
     RestartCounts, AddCounts, AbandonCounts, Zenon
     DEF Next, Rescan, Task

LEMMA CountedAlways == ASSUME NoReturn, Orderly PROVE Spec => []CoinInv
<1>1. IInv /\ IInv' /\ MInv /\ CoinInv /\ [Next]_vars => CoinInv'
  BY StepCounted
<1>. QED BY <1>1, InitCounted, Invariance, MarkedAlways, PTL DEF Spec

LEMMA OnDisk ==
  ASSUME IInv, CoinInv
  PROVE  /\ disk \in Stores /\ Account(disk) /\ Lines(disk) /\ Placed(disk) /\ Books(disk)
         /\ Waiting(disk) /\ Apart(disk) /\ Tip(disk) \notin disk.invalid
BY DEF IInv, StoreInv, Good, CoinInv, Settled, Account, Lines

\* A coin is flagged as spent exactly if a debit spends it, and listed as unspent
\* exactly if it is not flagged: for any tree of valid blocks, through every switch,
\* disapproval, rescan and restart.
THEOREM SpentCoinsHaveDebits == ASSUME NoReturn, Orderly PROVE Spec => []SpentHasDebit
<1>1. IInv /\ CoinInv => SpentHasDebit
  <2>. SUFFICES ASSUME IInv, CoinInv PROVE SpentHasDebit
    OBVIOUS
  <2>1. disk \in Stores /\ Books(disk)
    BY OnDisk
  <2>2. \A x \in disk.debits : x \in Debits
    BY <2>1, FieldTypes
  <2>3. \A e \in disk.credits : e = <<e[1], e[2]>> /\ e[1] \in Outpoint /\ e[2] \in Block
    BY <2>1, FieldTypes DEF Coins
  <2>4. ASSUME NEW x \in disk.debits
        PROVE  <<x.out, x.credit>> \in disk.spent \cap disk.credits
    <3>1. x.out \in Outpoint /\ x.credit \in Block
      BY <2>2, DebitFields
    <3>. QED BY <2>1, <2>2, <3>1 DEF Books, Debited, Flagged
  <2>5. ASSUME NEW e \in disk.spent \cap disk.credits
        PROVE  \E x \in disk.debits : e = <<x.out, x.credit>>
    <3>1. PICK o \in Outpoint, b \in Block : e = <<o, b>>
      BY <2>3
    <3>2. PICK x \in disk.debits : x.out = o /\ x.credit = b
      BY <2>1, <3>1 DEF Books, Flagged
    <3>. QED BY <3>1, <3>2
  <2>6. disk.spent \cap disk.credits = {<<x.out, x.credit>> : x \in disk.debits}
    BY <2>4, <2>5
  <2>7. ASSUME NEW o \in Outpoint, disk.unspent[o] # None
        PROVE  <<o, disk.unspent[o]>> \in disk.credits \ disk.spent
    <3>1. disk.unspent[o] \in Block
      BY <2>1, <2>7, FieldTypes
    <3>. QED BY <2>1, <3>1 DEF Books, Indexed
  <2>8. ASSUME NEW e \in disk.credits \ disk.spent PROVE disk.unspent[e[1]] = e[2]
    <3>1. PICK o \in Outpoint, b \in Block : e = <<o, b>>
      BY <2>3
    <3>2. disk.unspent[o] = b
      BY <2>1, <3>1 DEF Books, Indexed
    <3>. QED BY <3>1, <3>2
  <2>. QED BY <2>6, <2>7, <2>8 DEF SpentHasDebit
<1>. QED BY <1>1, Invariance, CountedAlways, PTL

\* An output has one coin at most: of one block of the main chain, or of an unmined
\* transaction, though the same transaction comes in more than one block, goes back
\* to the unmined ones and is found again.
THEOREM OutputsHaveOneCoin == ASSUME NoReturn, Orderly PROVE Spec => []OneCoinPerOutput
<1>1. ASSUME Orderly, IInv, CoinInv PROVE OneCoinPerOutput
  <2>1. /\ disk \in Stores /\ Books(disk) /\ Lines(disk) /\ Waiting(disk) /\ Apart(disk)
        /\ ValidChains
    BY <1>1, OnDisk DEF Orderly
  <2>2. \A e \in disk.credits : e = <<e[1], e[2]>> /\ e[1] \in Outpoint /\ e[2] \in Block
    BY <2>1, FieldTypes DEF Coins
  <2>3. ASSUME NEW o \in Outpoint, NEW b \in Block, <<o, b>> \in disk.credits,
               o \in disk.unminedCredits
        PROVE  FALSE
    <3>1. PICK t \in Tx : o \in Outputs[t] /\ Stands(disk, t, b)
      BY <2>1, <2>3 DEF Books, Credited
    <3>2. PICK u \in disk.unmined : o \in Outputs[u]
      BY <2>1, <2>3 DEF Waiting
    <3>3. u = t
      BY <2>1, <3>1, <3>2, FieldTypes, OneMaker
    <3>. QED BY <2>1, <3>1, <3>2, <3>3 DEF Apart
  <2>4. ASSUME NEW o \in Outpoint, NEW b \in Block, NEW c \in Block,
               <<o, b>> \in disk.credits, <<o, c>> \in disk.credits
        PROVE  b = c
    BY <2>1, <2>4, OneCoin DEF Books
  <2>. QED BY <2>2, <2>3, <2>4 DEF OneCoinPerOutput
<1>. QED BY <1>1, Invariance, CountedAlways, PTL

\* What is unmined is in no block of the main chain, but in one that the next block
\* disapproved.
THEOREM UnminedStandsNowhere == ASSUME NoReturn, Orderly PROVE Spec => []UnminedIsNotMined
<1>1. IInv /\ CoinInv => UnminedIsNotMined
  <2>. SUFFICES ASSUME IInv, CoinInv, NEW t \in disk.unmined, NEW i \in DOMAIN disk.chain,
                       <<t, disk.chain[i]>> \in disk.records
                PROVE  disk.chain[i] \in disk.invalid /\ t \in Regular
    BY DEF UnminedIsNotMined
  <2>1. disk \in Stores /\ Apart(disk)
    BY OnDisk
  <2>2. disk.chain[i] \in Block
    BY <2>1, FieldTypes DEF Chains
  <2>. QED BY <2>1, <2>2 DEF Apart, Stands, Invalidated
<1>. QED BY <1>1, Invariance, CountedAlways, PTL

\* Rescanning what the marker has passed leaves the store as it is.
THEOREM RescansRepeat == ASSUME NoReturn, Orderly PROVE Spec => RescanAddsNothing
<1>1. CoinInv => [SaveEnd /\ task.at # None /\ InChain(disk, task.at)
                    /\ Height(task.at) <= MarkerHeight(disk) => disk' = disk]_vars
  BY DEF CoinInv, Unwritten, SaveEnd, Commit
<1>. QED BY <1>1, CountedAlways, PTL DEF RescanAddsNothing
\* Where every block's transactions are recorded, what stands is what counts.
LEMMA StandsCounts ==
  ASSUME NEW d \in Stores, Lines(d), Tip(d) \notin d.invalid,
         \A z \in Line(Tip(d)) : Full(d, z), NEW i \in DOMAIN d.chain, NEW t \in Tx
  PROVE  /\ d.chain[i] \in Block /\ d.chain[i] \in Line(Tip(d))
         /\ Counts(d.chain, i, t) <=> Stands(d, t, d.chain[i])
<1>. DEFINE b == d.chain[i]
            n == Height(Tip(d))
<1>1. /\ Tip(d) \in Block /\ d.chain = ChainTo[Tip(d)] /\ Len(d.chain) = n
      /\ DOMAIN d.chain = 1 .. n /\ n \in Nat /\ i \in 1 .. n
  BY ChainedFacts, LineFacts DEF Lines
<1>2. b \in Block \ {Genesis} /\ b \in Line(Tip(d)) /\ Height(b) = i
  BY <1>1, LineFacts
<1>3. <<t, b>> \in d.records <=> t \in MinedTxs(b)
  BY <1>2 DEF Lines, Placed, Full, Recorded
<1>4. b = Tip(d) <=> i = n
  <2>1. i = n => b = Tip(d)
    BY <1>1, <1>2, OfGenesis, OwnLine
  <2>. QED BY <1>2, <2>1
<1>5. b \in d.invalid <=> ~(i = n \/ d.chain[i + 1] \in Approves)
  BY <1>1, <1>2, <1>4 DEF Lines, Judged
<1>. QED BY <1>1, <1>2, <1>3, <1>5 DEF Counts, Stands, Invalidated

\* When no block is left to rescan the unspent coins are exactly those the main
\* chain gives the wallet, and the balance, kept by increments, is their sum:
\* whatever switches, disapprovals, rescans, restarts and unmined transactions
\* came before.
THEOREM CoinsAreTheChains == ASSUME NoReturn, Orderly PROVE Spec => []CoinsMatchChain
<1>1. ASSUME Orderly, IInv, MInv, CoinInv PROVE CoinsMatchChain
  <2>. SUFFICES ASSUME RescanPoint(disk) = None
                PROVE  /\ \A o \in Outpoint : disk.unspent[o] = CoinBlock(disk.chain, o)
                       /\ disk.balance = Worth[{o \in Outpoint : disk.unspent[o] # None}]
    BY DEF CoinsMatchChain
  <2>. DEFINE c == disk.chain
  <2>1. /\ disk \in Stores /\ Books(disk) /\ Lines(disk) /\ Tip(disk) \notin disk.invalid
        /\ Placed(disk) /\ Credited(disk) /\ Debited(disk) /\ Flagged(disk) /\ Indexed(disk)
        /\ Chained(disk) /\ Honest(disk) /\ ValidChains
    BY <1>1, OnDisk DEF Orderly, MInv, ChainInv, Books
  <2>2. \A z \in Line(Tip(disk)) : Full(disk, z)
    <3>1. /\ Tip(disk) \in Block /\ MarkerHeight(disk) = Height(Tip(disk))
          /\ \A z \in Line(Tip(disk)) : z \in Line(disk.marker) <=> Height(z) <= MarkerHeight(disk)
      BY <2>1, ChainedFacts
    <3>2. \A z \in Line(Tip(disk)) : Height(z) <= Height(Tip(disk))
      BY <3>1, InLine
    <3>. QED BY <2>1, <3>1, <3>2 DEF Honest
  <2>3. \A i \in DOMAIN c, t \in Tx :
          c[i] \in Block /\ (Counts(c, i, t) <=> Stands(disk, t, c[i]))
    BY <2>1, <2>2, StandsCounts
  <2>4. \A t \in Tx, b \in Block : Stands(disk, t, b) => \E i \in DOMAIN c : c[i] = b
    <3>1. \A x : InChain(disk, x) <=> x \in Line(Tip(disk))
      BY <2>1, ChainedFacts
    <3>. QED BY <2>1, <3>1 DEF InChain, Stands, Placed
  <2>. HIDE DEF c
  <2>5. ASSUME NEW o \in Outpoint PROVE disk.unspent[o] = CoinBlock(c, o)
    <3>1. ASSUME NEW i \in Creation(c, o), o \in Owned
          PROVE  i \in DOMAIN c /\ c[i] \in Block /\ <<o, c[i]>> \in disk.credits
      <4>1. PICK t \in Tx : i \in DOMAIN c /\ o \in Outputs[t] /\ Counts(c, i, t)
        BY <3>1 DEF Creation
      <4>. QED BY <2>1, <2>3, <3>1, <4>1 DEF Credited
    <3>2. ASSUME NEW b \in Block, <<o, b>> \in disk.credits
          PROVE  o \in Owned /\ Creation(c, o) # {}
      <4>1. PICK t \in Tx : o \in Owned /\ o \in Outputs[t] /\ Stands(disk, t, b)
        BY <2>1, <3>2 DEF Credited
      <4>2. PICK i \in DOMAIN c : c[i] = b
        BY <2>4, <4>1
      <4>. QED BY <2>3, <4>1, <4>2 DEF Creation
    <3>3. ASSUME NEW b \in Block, <<o, b>> \in disk.credits
          PROVE  <<o, b>> \in disk.spent <=> SpentOn(c, o)
      <4>1. ASSUME <<o, b>> \in disk.spent PROVE SpentOn(c, o)
        <5>1. PICK x \in disk.debits : x.out = o
          BY <2>1, <3>3, <4>1 DEF Flagged
        <5>2. x \in Debits /\ x.tx \in Tx /\ x.block \in Block
          BY <2>1, <5>1, FieldTypes, DebitFields
        <5>3. Stands(disk, x.tx, x.block) /\ o \in Inputs[x.tx]
          BY <2>1, <5>1, <5>2 DEF Debited
        <5>4. PICK i \in DOMAIN c : c[i] = x.block
          BY <2>4, <5>2, <5>3
        <5>. QED BY <2>3, <5>2, <5>3, <5>4 DEF SpentOn
      <4>2. ASSUME SpentOn(c, o) PROVE <<o, b>> \in disk.spent
        <5>1. PICK i \in DOMAIN c, t \in Tx : o \in Inputs[t] /\ Counts(c, i, t)
          BY <4>2 DEF SpentOn
        <5>2. c[i] \in Block /\ Stands(disk, t, c[i])
          BY <2>3, <5>1
        <5>. DEFINE x == Debit(t, c[i], o, b)
        <5>3. /\ x \in Debits /\ x.tx = t /\ x.block = c[i] /\ x.out = o /\ x.credit = b
          BY <3>3, <5>2, DebitTyped
        <5>. HIDE DEF x
        <5>4. x \in disk.debits
          BY <2>1, <3>3, <5>1, <5>2, <5>3 DEF Debited
        <5>. QED BY <2>1, <3>3, <5>3, <5>4 DEF Flagged
      <4>. QED BY <4>1, <4>2
    <3>4. disk.unspent[o] \in Block \cup {None} /\ None \notin Block
      BY <2>1, FieldTypes, TreeAssumption
    <3>5. CASE disk.unspent[o] \in Block
      <4>. DEFINE b == disk.unspent[o]
                  j == CHOOSE i \in Creation(c, o) : TRUE
      <4>1. b \in Block /\ <<o, b>> \in disk.credits /\ <<o, b>> \notin disk.spent
        BY <2>1, <3>5 DEF Indexed
      <4>. HIDE DEF b
      <4>2. o \in Owned /\ Creation(c, o) # {} /\ ~SpentOn(c, o)
        BY <3>2, <3>3, <4>1
      <4>3. CoinBlock(c, o) = c[j] /\ j \in Creation(c, o)
        BY <4>2 DEF CoinBlock
      <4>. HIDE DEF j
      <4>4. c[j] = b
        BY <2>1, <3>1, <4>1, <4>2, <4>3, OneCoin
      <4>. QED BY <4>3, <4>4 DEF b
    <3>6. CASE disk.unspent[o] = None
      <4>1. ASSUME o \in Owned, NEW i \in Creation(c, o), ~SpentOn(c, o) PROVE FALSE
        <5>1. c[i] \in Block /\ <<o, c[i]>> \in disk.credits
          BY <3>1, <4>1
        <5>2. <<o, c[i]>> \notin disk.spent
          BY <3>3, <4>1, <5>1
        <5>3. disk.unspent[o] = c[i]
          BY <2>1, <5>1, <5>2 DEF Indexed
        <5>. QED BY <3>4, <3>6, <5>1, <5>3
      <4>. QED BY <3>6, <4>1 DEF CoinBlock
    <3>. QED BY <3>4, <3>5, <3>6
  <2>. QED BY <2>1, <2>5 DEF Books, Summed, c
<1>. QED BY <1>1, Invariance, MarkedAlways, CountedAlways, PTL

-----------------------------------------------------------------------------
(* Who spends what *)

\* The mark of a delicate output names the unmined transaction that spends it, ...
Exact(d) == \A t \in d.unmined : \A o \in Inputs[t] \cap Delicate : d.unminedInputs[o] = t

\* ... and what is recorded does not spend it.
Alone(d) == \A t \in d.unmined, u \in Tx, b \in Block :
  <<u, b>> \in d.records /\ u # t => Inputs[t] \cap Inputs[u] \cap Delicate = {}

\* The unmined transactions of K spend outputs of known transactions, or of S.
Funded(d, K, S) == \A t \in d.unmined \cap K, u \in Tx :
  \A o \in Inputs[t] \cap Outputs[u] : o \in S \/ Known(d, u)

\* The unmined votes are for the tip, ...
ForTip(d) == \A t \in d.unmined \cap Vote : VotesOn[t] = Tip(d)

\* ... and in a switch for a block below its end.
ForPast == \A t \in db.unmined \cap Vote :
  VotesOn[t] \in Block /\ Height(VotesOn[t]) <= Height(Tip(disk))

SpendInv ==
  /\ Exact(db) /\ Alone(db) /\ Exact(disk) /\ Alone(disk)
  /\ Funded(disk, Tx, {}) /\ ForTip(disk)
  /\ IF Switching
     THEN /\ Funded(db, Ticket, task.orphaned) /\ ForPast
          /\ task.at # None => task.orphaned = {}
     ELSE Funded(db, Tx, {}) /\ ForTip(db)

LEMMA RemoveGone ==
  ASSUME NEW d \in Stores, NEW T \in SUBSET d.unmined
  PROVE  LET gone == SpendChains(d, T)
             e == RemoveUnconfirmed(d, T) IN
         /\ T \subseteq gone /\ gone \subseteq d.unmined /\ Closed(d, gone)
         /\ e.unmined = d.unmined \ gone /\ e.records = d.records /\ e.chain = d.chain
         /\ e.unminedInputs = [o \in Outpoint |->
              IF \E t \in gone : o \in Inputs[t] THEN None ELSE d.unminedInputs[o]]
<1>. DEFINE gone == SpendChains(d, T)
            e == RemoveUnconfirmed(d, T)
<1>1. gone = {t \in d.unmined :
               \A S \in SUBSET d.unmined : T \subseteq S /\ Closed(d, S) => t \in S}
  <2>1. T \cup d.unmined = d.unmined
    OBVIOUS
  <2>. QED BY <2>1 DEF SpendChains
<1>2. /\ e.unmined = d.unmined \ gone /\ e.records = d.records /\ e.chain = d.chain
      /\ e.unminedInputs = [o \in Outpoint |->
           IF \E t \in gone : o \in Inputs[t] THEN None ELSE d.unminedInputs[o]]
  BY DEF RemoveUnconfirmed, Stores
<1>. HIDE DEF gone, e
<1>3. T \subseteq gone /\ gone \subseteq d.unmined
  BY <1>1
<1>4. ASSUME NEW t \in gone, NEW o \in Outputs[t], d.unminedInputs[o] \in d.unmined
      PROVE  d.unminedInputs[o] \in gone
  BY <1>1, <1>4 DEF Closed
<1>5. Closed(d, gone)
  BY <1>4 DEF Closed
<1>. QED BY <1>2, <1>3, <1>5 DEF gone, e

LEMMA RemoveTies ==
  ASSUME NEW d \in Stores, Exact(d), Alone(d), NEW T \in SUBSET d.unmined
  PROVE  LET e == RemoveUnconfirmed(d, T) IN Exact(e) /\ Alone(e)
<1>. DEFINE gone == SpendChains(d, T)
            e == RemoveUnconfirmed(d, T)
<1>1. /\ gone \subseteq d.unmined /\ e.unmined = d.unmined \ gone /\ e.records = d.records
      /\ e.unminedInputs = [o \in Outpoint |->
           IF \E t \in gone : o \in Inputs[t] THEN None ELSE d.unminedInputs[o]]
  BY RemoveGone
<1>. HIDE DEF gone, e
<1>2. ASSUME NEW t \in e.unmined, NEW o \in Inputs[t] \cap Delicate
      PROVE  e.unminedInputs[o] = t
  <2>1. t \in d.unmined /\ t \notin gone /\ d.unminedInputs[o] = t
    BY <1>1 DEF Exact
  <2>2. ASSUME NEW g \in gone, o \in Inputs[g] PROVE FALSE
    BY <1>1, <2>1, <2>2 DEF Exact
  <2>. QED BY <1>1, <2>1, <2>2 DEF Delicate
<1>3. Exact(e)
  BY <1>2 DEF Exact
<1>4. Alone(e)
  BY <1>1 DEF Alone
<1>. QED BY <1>3, <1>4 DEF e

\* What spends an output of what goes, goes.
LEMMA RemoveFunded ==
  ASSUME NEW d \in Stores, Exact(d), Waiting(d), NEW T \in SUBSET d.unmined,
         NEW K, NEW S, Funded(d, K, S)
  PROVE  Funded(RemoveUnconfirmed(d, T), K, S)
<1>. DEFINE gone == SpendChains(d, T)
            e == RemoveUnconfirmed(d, T)
<1>1. /\ Closed(d, gone) /\ e.unmined = d.unmined \ gone /\ e.records = d.records
  BY RemoveGone
<1>. HIDE DEF gone, e
<1>2. ASSUME NEW t \in e.unmined \cap K, NEW u \in Tx, NEW o \in Inputs[t] \cap Outputs[u],
             o \notin S
      PROVE  Known(e, u)
  <2>1. t \in d.unmined /\ t \notin gone /\ Known(d, u)
    BY <1>1, <1>2 DEF Funded
  <2>2. CASE u \in d.unmined
    <3>1. o \in Delicate
      BY <2>2, TxAssumption DEF Waiting, Delicate
    <3>2. d.unminedInputs[o] = t
      BY <2>1, <3>1 DEF Exact
    <3>3. u \notin gone
      BY <1>1, <2>1, <3>2 DEF Closed
    <3>. QED BY <1>1, <2>2, <3>3 DEF Known
  <2>. QED BY <1>1, <2>1, <2>2 DEF Known
<1>3. Funded(e, K, S)
  BY <1>2 DEF Funded
<1>. QED BY <1>3 DEF e

\* The removal that ends the rollbacks.
LEMMA RemoveOrphans ==
  ASSUME NEW d, Good(d), Exact(d), Waiting(d), NEW S, S \subseteq Outpoint,
         Funded(d, Ticket, S)
  PROVE  /\ SpendersOf(d, S) \in SUBSET d.unmined
         /\ Funded(RemoveUnconfirmed(d, SpendersOf(d, S)), Ticket, {})
<1>. DEFINE T == SpendersOf(d, S)
            gone == SpendChains(d, T)
            e == RemoveUnconfirmed(d, T)
<1>1. d \in Stores /\ T \in SUBSET d.unmined
  BY DEF SpendersOf, Good, Live
<1>2. T \subseteq gone /\ e.unmined = d.unmined \ gone
  BY <1>1, RemoveGone
<1>3. Funded(e, Ticket, S)
  BY <1>1, RemoveFunded
<1>. HIDE DEF gone, e
<1>4. ASSUME NEW t \in e.unmined \cap Ticket, NEW o \in Inputs[t] \cap S PROVE FALSE
  <2>1. t \in d.unmined /\ t \notin T /\ t \in Tx
    BY <1>1, <1>2, FieldTypes
  <2>2. o \in Delicate
    BY <2>1 DEF Delicate
  <2>3. d.unminedInputs[o] = t /\ t # None
    BY <2>1, <2>2, TreeAssumption DEF Exact
  <2>. QED BY <2>1, <2>3 DEF SpendersOf
<1>5. Funded(e, Ticket, {})
  BY <1>3, <1>4 DEF Funded
<1>. QED BY <1>1, <1>5 DEF e

\* What a method leaves that does not touch the unmined transactions or the records.
SameTies(e, d) == Marked(e, d) /\ e.records = d.records

LEMMA TiesCarry ==
  ASSUME NEW d, NEW e, SameTies(e, d)
  PROVE  /\ Exact(d) => Exact(e)
         /\ Alone(d) => Alone(e)
         /\ \A K, S : Funded(d, K, S) => Funded(e, K, S)
BY DEF SameTies, Marked, Exact, Alone, Funded, Known

LEMMA CoinsTies ==
  ASSUME NEW d \in Stores, NEW t \in Tx, NEW b \in Block
  PROVE  /\ SameTies(SpendCredits(d, t, b), d) /\ SameTies(AddCredits(d, t, b), d)
         /\ SpendCredits(d, t, b).unminedCredits = d.unminedCredits
<1>1. \A S : SameTies(PutCredits(d, S, b), d)
  BY DEF PutCredits, SameTies, Marked, Stores
<1>2. SameTies([d EXCEPT !.invCredits = d.invCredits \cup ((Outputs[t] \cap Owned) \X {b}),
                         !.spent = d.spent \ ((Outputs[t] \cap Owned) \X {b})], d)
  BY DEF SameTies, Marked, Stores
<1>3. SameTies(AddCredits(d, t, b), d)
  BY <1>1, <1>2 DEF AddCredits
<1>4. SameTies(SpendCredits(d, t, b), d)
  BY DEF SpendCredits, SameTies, Marked, Stores
<1>5. SpendCredits(d, t, b).unminedCredits = d.unminedCredits
  BY DEF SpendCredits, Stores
<1>. QED BY <1>3, <1>4, <1>5

LEMMA ExtendTies ==
  ASSUME NEW d \in Stores, NEW b \in Block PROVE SameTies(ExtendMainChain(d, b), d)
<1>. DEFINE parent == Tip(d)
            judged == CASE b \in Approves /\ parent \in d.invalid -> StakeValidate(d, parent)
                        [] b \notin Approves /\ parent \notin d.invalid ->
                             StakeInvalidate(d, parent)
                        [] OTHER -> d
<1>1. ExtendMainChain(d, b) = [judged EXCEPT !.chain = Append(judged.chain, b)]
  BY DEF ExtendMainChain
<1>2. \A x :
      SameTies([StakeValidate(d, x) EXCEPT !.chain = Append(StakeValidate(d, x).chain, b)], d)
  BY DEF StakeValidate, SameTies, Marked, Stores
<1>3. \A x :
      SameTies([StakeInvalidate(d, x) EXCEPT !.chain = Append(StakeInvalidate(d, x).chain, b)], d)
  BY DEF StakeInvalidate, SameTies, Marked, Stores
<1>4. SameTies([d EXCEPT !.chain = Append(d.chain, b)], d)
  BY DEF SameTies, Marked, Stores
<1>. HIDE DEF parent
<1>5. CASE b \in Approves /\ parent \in d.invalid
  BY <1>1, <1>2, <1>5
<1>6. CASE b \notin Approves /\ parent \notin d.invalid
  BY <1>1, <1>3, <1>6
<1>7. CASE /\ ~(b \in Approves /\ parent \in d.invalid)
           /\ ~(b \notin Approves /\ parent \notin d.invalid)
  BY <1>1, <1>4, <1>7
<1>. QED BY <1>5, <1>6, <1>7

LEMMA MarkerTies ==
  ASSUME NEW d \in Stores, NEW b PROVE SameTies(UpdateProcessedTxsBlockMarker(d, b), d)
BY DEF UpdateProcessedTxsBlockMarker, SameTies, Marked, Stores

LEMMA MoveTies ==
  ASSUME NEW d \in Stores, NEW t \in d.unmined, NEW b \in Block, Exact(d), Alone(d)
  PROVE  LET e == MoveMinedTx(d, t, b) IN
         /\ Exact(e) /\ Alone(e) /\ e.unmined \subseteq d.unmined
         /\ \A K, S : Funded(d, K, S) => Funded(e, K, S)
<1>. DEFINE e == MoveMinedTx(d, t, b)
<1>1. /\ e.unmined = d.unmined \ {t} /\ e.records = d.records \cup {<<t, b>>}
      /\ e.unminedInputs =
           [o \in Outpoint |-> IF o \in Inputs[t] THEN None ELSE d.unminedInputs[o]]
  <2>. DEFINE moved == [d EXCEPT
         !.records = d.records \cup {<<t, b>>},
         !.unmined = d.unmined \ {t},
         !.unminedInputs = [o \in Outpoint |-> IF o \in Inputs[t] THEN None
                                               ELSE d.unminedInputs[o]],
         !.unminedCredits = d.unminedCredits \ Outputs[t]]
  <2>1. e = PutCredits(moved, d.unminedCredits \cap Outputs[t], b)
    BY DEF MoveMinedTx
  <2>2. /\ moved.unmined = d.unmined \ {t} /\ moved.records = d.records \cup {<<t, b>>}
        /\ moved.unminedInputs =
             [o \in Outpoint |-> IF o \in Inputs[t] THEN None ELSE d.unminedInputs[o]]
        /\ DOMAIN moved = DOMAIN d
    BY DEF Stores
  <2>. HIDE DEF moved
  <2>3. \A S : LET p == PutCredits(moved, S, b) IN
          /\ p.unmined = moved.unmined /\ p.records = moved.records
          /\ p.unminedInputs = moved.unminedInputs
    BY <2>2 DEF PutCredits, Stores
  <2>. QED BY <2>1, <2>2, <2>3
<1>. HIDE DEF e
<1>2. t \in Tx
  BY FieldTypes
<1>3. ASSUME NEW s \in e.unmined PROVE Inputs[s] \cap Inputs[t] \cap Delicate = {}
  BY <1>1, <1>3 DEF Exact
<1>4. Exact(e)
  BY <1>1, <1>3 DEF Exact, Delicate
<1>5. Alone(e)
  BY <1>1, <1>3 DEF Alone
<1>6. \A u \in Tx : Known(d, u) => Known(e, u)
  BY <1>1 DEF Known
<1>7. \A K, S : Funded(d, K, S) => Funded(e, K, S)
  BY <1>1, <1>6 DEF Funded
<1>. QED BY <1>1, <1>4, <1>5, <1>7 DEF e

LEMMA RecordTies ==
  ASSUME NEW d, Good(d), NEW t \in Tx, NEW b \in Block, t \notin d.unmined,
         Exact(d), Alone(d), Waiting(d)
  PROVE  LET e == RecordMinedTx(d, t, b) IN
         /\ Exact(e) /\ Alone(e) /\ e.unmined \subseteq d.unmined
         /\ \A K, S : Funded(d, K, S) => Funded(e, K, S)
<1>. DEFINE T == DoubleSpends(d, t)
            r == RemoveUnconfirmed(d, T)
            e == RecordMinedTx(d, t, b)
<1>1. d \in Stores /\ T \in SUBSET d.unmined /\ T \in SUBSET Tx
  <2>1. d \in Stores /\ Live(d)
    BY DEF Good
  <2>2. \A o \in Inputs[t] : o \in Outpoint
    BY TxAssumption
  <2>. QED BY <2>1, <2>2, FieldTypes DEF DoubleSpends, Live
<1>2. /\ Exact(r) /\ Alone(r) /\ r.unmined \subseteq d.unmined \ T
      /\ \A K, S : Funded(d, K, S) => Funded(r, K, S)
  <2>. HIDE DEF T
  <2>1. Exact(r) /\ Alone(r)
    BY <1>1, RemoveTies
  <2>2. r.unmined \subseteq d.unmined \ T
    <3>1. r.unmined = d.unmined \ SpendChains(d, T) /\ T \subseteq SpendChains(d, T)
      BY <1>1, RemoveGone
    <3>. QED BY <3>1
  <2>3. \A K, S : Funded(d, K, S) => Funded(r, K, S)
    BY <1>1, RemoveFunded
  <2>. QED BY <2>1, <2>2, <2>3
<1>3. r \in Stores
  BY <1>1, RemoveGood DEF Good
<1>4. e.unmined = r.unmined /\ e.unminedInputs = r.unminedInputs
      /\ e.records = r.records \cup {<<t, b>>}
  BY <1>3 DEF RecordMinedTx, Stores
<1>. HIDE DEF r, e
<1>5. ASSUME NEW s \in e.unmined PROVE Inputs[s] \cap Inputs[t] \cap Delicate = {}
  <2>. SUFFICES ASSUME NEW o \in Inputs[s] \cap Inputs[t] \cap Delicate PROVE FALSE
    OBVIOUS
  <2>1. s \in d.unmined /\ s \notin T /\ s # None
    BY <1>1, <1>2, <1>4, FieldTypes, TreeAssumption
  <2>2. d.unminedInputs[o] = s
    BY <2>1 DEF Exact
  <2>. QED BY <2>1, <2>2 DEF DoubleSpends
<1>6. Exact(e)
  BY <1>2, <1>4 DEF Exact
<1>7. Alone(e)
  BY <1>2, <1>4, <1>5 DEF Alone
<1>8. \A K, S : Funded(d, K, S) => Funded(e, K, S)
  BY <1>2, <1>4 DEF Funded, Known
<1>. QED BY <1>2, <1>4, <1>6, <1>7, <1>8 DEF e

LEMMA ProcessTies ==
  ASSUME NEW d, Good(d), NEW t \in Tx, NEW b \in Block, Exact(d), Alone(d), Waiting(d)
  PROVE  LET e == ProcessTransactionRecord(d, t, b) IN
         /\ Exact(e) /\ Alone(e) /\ e.unmined \subseteq d.unmined
         /\ \A K, S : Funded(d, K, S) => Funded(e, K, S)
<1>. DEFINE spent == SpendCredits(d, t, b)
            kept == InsertMinedTx(d, t, b)
            e == ProcessTransactionRecord(d, t, b)
<1>1. d \in Stores /\ Good(spent) /\ spent \in Stores /\ SameTies(spent, d)
  BY SpendGood, CoinsTies DEF Good
<1>2. /\ Exact(spent) /\ Alone(spent) /\ \A K, S : Funded(d, K, S) => Funded(spent, K, S)
  BY <1>1, TiesCarry
<1>3. spent.unmined = d.unmined /\ spent.records = d.records /\ Waiting(spent)
  BY <1>1, CoinsTies DEF SameTies, Marked, Waiting
<1>4. /\ Exact(kept) /\ Alone(kept) /\ kept.unmined \subseteq d.unmined
      /\ \A K, S : Funded(d, K, S) => Funded(kept, K, S)
  <2>1. CASE <<t, b>> \in d.records
    <3>1. kept = spent
      BY <2>1 DEF InsertMinedTx
    <3>. QED BY <1>2, <1>3, <3>1
  <2>2. CASE <<t, b>> \notin d.records /\ t \in d.unmined
    <3>1. kept = MoveMinedTx(spent, t, b)
      BY <2>2 DEF InsertMinedTx
    <3>. HIDE DEF kept, spent
    <3>. QED BY <1>1, <1>2, <1>3, <2>2, <3>1, MoveTies
  <2>3. CASE <<t, b>> \notin d.records /\ t \notin d.unmined
    <3>1. kept = RecordMinedTx(spent, t, b)
      BY <2>3 DEF InsertMinedTx
    <3>. HIDE DEF kept, spent
    <3>. QED BY <1>1, <1>2, <1>3, <2>3, <3>1, RecordTies
  <2>. QED BY <2>1, <2>2, <2>3
<1>5. kept \in Stores
  BY <1>1, MoveGood, RecordGood DEF InsertMinedTx, Good
<1>6. e = AddCredits(kept, t, b)
  BY DEF ProcessTransactionRecord
<1>. HIDE DEF kept, e
<1>7. SameTies(e, kept)
  BY <1>5, <1>6, CoinsTies
<1>8. /\ Exact(e) /\ Alone(e) /\ \A K, S : Funded(kept, K, S) => Funded(e, K, S)
  BY <1>4, <1>7, TiesCarry
<1>9. e.unmined = kept.unmined
  BY <1>7 DEF SameTies, Marked
<1>. QED BY <1>4, <1>8, <1>9 DEF e

LEMMA InsertTies ==
  ASSUME NEW d \in Stores, NEW t \in Tx, Exact(d), Alone(d), Funded(d, Tx, {}),
         DoubleSpends(d, t) = {},
         \A u \in Tx, b \in Block :
           <<u, b>> \in d.records => Inputs[t] \cap Inputs[u] \cap Delicate = {},
         \A u \in Tx : Outputs[u] \cap Inputs[t] # {} => Known(d, u)
  PROVE  LET e == InsertMemPoolTx(d, t) IN
         /\ Exact(e) /\ Alone(e) /\ Funded(e, Tx, {}) /\ e.unmined = d.unmined \cup {t}
<1>. DEFINE e == InsertMemPoolTx(d, t)
<1>1. /\ e.unmined = d.unmined \cup {t} /\ e.records = d.records
      /\ e.unminedInputs =
           [o \in Outpoint |-> IF o \in Inputs[t] THEN t ELSE d.unminedInputs[o]]
  BY DEF InsertMemPoolTx, Stores
<1>. HIDE DEF e
<1>2. ASSUME NEW s \in d.unmined, NEW o \in Inputs[s] \cap Delicate, o \in Inputs[t]
      PROVE  FALSE
  <2>1. d.unminedInputs[o] = s /\ s # None
    BY FieldTypes, TreeAssumption DEF Exact
  <2>. QED BY <1>2, <2>1 DEF DoubleSpends
<1>3. Exact(e)
  BY <1>1, <1>2 DEF Exact, Delicate
<1>4. Alone(e)
  BY <1>1 DEF Alone
<1>5. Funded(e, Tx, {})
  BY <1>1 DEF Funded, Known
<1>. QED BY <1>1, <1>3, <1>4, <1>5 DEF e

-----------------------------------------------------------------------------
(* The block that is rolled back *)

\* What is recorded in the tip and what is recorded below it spend nothing delicate
\* both, ...
LEMMA TipAlone ==
  ASSUME Orderly, NoDisputes, NEW d \in Stores, Lines(d), NEW t \in Tx, NEW u \in Tx,
         NEW c \in Block, <<t, Tip(d)>> \in d.records, <<u, c>> \in d.records, u # t
  PROVE  /\ Inputs[t] \cap Inputs[u] \cap Delicate = {}
         /\ c = Tip(d) => Inputs[t] \cap Inputs[u] = {}
<1>. DEFINE b == Tip(d)
<1>1. /\ b \in Block /\ b \in Line(b) /\ t \in MinedTxs(b) /\ b \in Block \ {Genesis}
      /\ c \in Line(b) /\ u \in MinedTxs(c) /\ ValidChains
  <2>1. b \in Block
    BY TipTyped
  <2>2. b \in Line(b) /\ t \in MinedTxs(b) /\ c \in Line(b) /\ u \in MinedTxs(c)
    BY <2>1 DEF Lines, Placed
  <2>. QED BY <2>1, <2>2, LineFacts DEF Orderly
<1>. HIDE DEF b
<1>2. Counts(ChainTo[b], Height(b), t)
  BY <1>1, CountsHere
<1>3. CASE Counts(ChainTo[b], Height(c), u)
  BY <1>1, <1>2, <1>3, Once
<1>4. CASE ~Counts(ChainTo[b], Height(c), u)
  <2>1. /\ ChainTo[b][Height(c)] = c /\ Height(c) \in 1 .. Height(b) /\ Height(b) \in Nat
        /\ Len(ChainTo[b]) = Height(b)
    BY <1>1, InLine, LineFacts
  <2>2. /\ u \in Regular /\ Height(c) # Height(b)
        /\ ChainTo[b][Height(c) + 1] \notin Approves
    BY <1>1, <1>4, <2>1 DEF Counts
  <2>3. Disapproved(c)
    <3>. DEFINE x == ChainTo[b][Height(c) + 1]
    <3>1. Height(c) + 1 \in 1 .. Height(b)
      BY <2>1, <2>2
    <3>2. x \in Block /\ ChainTo[x] = SubSeq(ChainTo[b], 1, Height(c) + 1)
      BY <1>1, <3>1, LineFacts
    <3>3. ChainTo[c] = SubSeq(ChainTo[b], 1, Height(c))
      BY <1>1, <2>1, LineFacts
    <3>4. ChainTo[b] \in Chains
      BY <1>1, Constants
    <3>5. SubSeq(ChainTo[b], 1, Height(c) + 1)
            = Append(SubSeq(ChainTo[b], 1, Height(c)), x)
      BY <2>1, <3>1, <3>4 DEF Chains
    <3>. QED BY <2>2, <3>2, <3>3, <3>5 DEF Disapproved
  <2>4. c # b
    BY <2>2
  <2>. QED BY <1>1, <2>2, <2>3, <2>4 DEF NoDisputes, b
<1>. QED BY <1>3, <1>4 DEF b

\* ... and the makers of what its tickets spend are recorded.
LEMMA TicketMakers ==
  ASSUME Orderly, NoDisputes, NEW d \in Stores, Lines(d), InOrder(d), NEW t \in Ticket,
         NEW u \in Tx, NEW o \in Inputs[t] \cap Outputs[u], <<t, Tip(d)>> \in d.records
  PROVE  \E c \in Line(Tip(d)) : <<u, c>> \in d.records
<1>1. t \in Tx /\ o \in Owned /\ ValidChains /\ Tip(d) \in Block
  BY TxAssumption, TipTyped DEF NoDisputes, Orderly
<1>2. Fits(d, t, Tip(d))
  BY <1>1 DEF Lines, Placed, Fits, Invalidated, Regular
<1>3. PICK c \in Line(Tip(d)) : Fits(d, u, c) /\ (c # Tip(d) \/ Precedes(Tip(d), u, t))
  BY <1>1, <1>2, MakerFits DEF Lines
<1>4. c \in Block
  BY <1>1, LineFacts
<1>5. CASE c # Tip(d)
  BY <1>1, <1>3, <1>4, <1>5 DEF InOrder, Full, Recorded, Fits
<1>6. CASE c = Tip(d)
  BY <1>1, <1>3, <1>4, <1>6 DEF InOrder
<1>. QED BY <1>5, <1>6

LEMMA RollbackTies ==
  ASSUME Orderly, NoDisputes, NEW d, Good(d), Account(d), d.chain # <<>>,
         Exact(d), Alone(d), NEW S, Funded(d, Ticket, S)
  PROVE  LET e == RollbackBlock(d) IN
         /\ Exact(e) /\ Alone(e) /\ Funded(e, Ticket, S \cup CoinbaseOutputs(d))
         /\ \A t \in e.unmined : t \in d.unmined \/ t \in MinedTxs(Tip(d))
<1>. DEFINE e == RollbackBlock(d)
            b == Tip(d)
            gone == Recorded(d, b)
            back == gone \ Coinbase
<1>1. /\ b = Last(d.chain) /\ b \in Block /\ d \in Stores /\ Lines(d) /\ InOrder(d)
      /\ Placed(d) /\ Judged(d) /\ Credited(d)
  BY TipTyped DEF Tip, Good, Account, Lines, Books
<1>2. /\ e.records = d.records \ (gone \X {b}) /\ e.unmined = d.unmined \cup back
      /\ e.unminedInputs =
           [o \in Outpoint |-> IF \E t \in back : o \in Inputs[t]
                               THEN CHOOSE t \in back : o \in Inputs[t]
                               ELSE d.unminedInputs[o]]
  BY <1>1 DEF RollbackBlock, Stores
<1>3. \A t \in gone : t \in Tx /\ <<t, Tip(d)>> \in d.records
  BY DEF Recorded
<1>4. \A t \in Tx, c \in Block :
        <<t, c>> \in d.records => <<t, c>> \in e.records \/ (c = b /\ t \in gone)
  BY <1>2 DEF Recorded
<1>5. d.unmined \subseteq Tx
  BY <1>1, FieldTypes
<1>. HIDE DEF e, gone
<1>6. Exact(e)
  <2>. SUFFICES ASSUME NEW t \in e.unmined, NEW o \in Inputs[t] \cap Delicate
                PROVE  e.unminedInputs[o] = t
    BY DEF Exact
  <2>1. o \in Outpoint
    BY DEF Delicate
  <2>2. CASE \E r \in back : o \in Inputs[r]
    <3>. DEFINE r == CHOOSE r \in back : o \in Inputs[r]
    <3>1. r \in back /\ o \in Inputs[r] /\ e.unminedInputs[o] = r
      BY <1>2, <2>1, <2>2
    <3>. HIDE DEF r
    <3>2. CASE t \in back
      BY <1>1, <1>3, <3>1, <3>2, TipAlone
    <3>3. CASE t \in d.unmined
      BY <1>1, <1>3, <3>1, <3>3 DEF Alone
    <3>. QED BY <1>2, <3>1, <3>2, <3>3
  <2>3. CASE ~\E r \in back : o \in Inputs[r]
    BY <1>2, <2>1, <2>3 DEF Exact
  <2>. QED BY <2>2, <2>3
<1>7. Alone(e)
  <2>. SUFFICES ASSUME NEW t \in e.unmined, NEW u \in Tx, NEW c \in Block,
                       <<u, c>> \in e.records, u # t
                PROVE  Inputs[t] \cap Inputs[u] \cap Delicate = {}
    BY DEF Alone
  <2>1. <<u, c>> \in d.records
    BY <1>2
  <2>2. CASE t \in back
    BY <1>1, <1>3, <2>1, <2>2, TipAlone
  <2>. QED BY <1>2, <2>1, <2>2 DEF Alone
<1>8. Funded(e, Ticket, S \cup CoinbaseOutputs(d))
  <2>. SUFFICES ASSUME NEW t \in e.unmined \cap Ticket, NEW u \in Tx,
                       NEW o \in Inputs[t] \cap Outputs[u], o \notin S,
                       o \notin CoinbaseOutputs(d)
                PROVE  Known(e, u)
    BY DEF Funded
  <2>1. t \in Tx /\ o \in Owned /\ o \in Outpoint
    BY TxAssumption DEF NoDisputes
  <2>2. Known(d, u)
    <3>1. CASE t \in d.unmined
      BY <3>1 DEF Funded
    <3>2. CASE t \in back
      <4>1. \E c \in Line(Tip(d)) : <<u, c>> \in d.records
        BY <1>1, <1>3, <3>2, TicketMakers
      <4>. QED BY <1>1, <4>1, LineFacts DEF Known
    <3>. QED BY <1>2, <3>1, <3>2
  <2>3. ASSUME u \in gone \cap Coinbase PROVE FALSE
    <3>1. <<u, b>> \in d.records /\ u \in MinedTxs(b)
      BY <1>1, <1>3, <2>3 DEF Placed
    <3>2. CASE Stands(d, u, b)
      <4>1. <<o, b>> \in d.credits
        BY <1>1, <2>1, <3>2 DEF Credited
      <4>. QED BY <1>1, <2>3, <4>1 DEF CoinbaseOutputs, Creates, gone
    <3>3. CASE ~Stands(d, u, b)
      <4>1. u \in Regular /\ Disapproved(b)
        BY <1>1, <3>1, <3>3 DEF Stands, Invalidated, Judged
      <4>. QED BY <1>1, <2>3, <3>1, <4>1 DEF NoDisputes
    <3>. QED BY <3>2, <3>3
  <2>4. CASE u \in d.unmined
    BY <1>2, <2>4 DEF Known
  <2>5. CASE \E c \in Block : <<u, c>> \in d.records
    BY <1>2, <1>4, <2>3, <2>5 DEF Known
  <2>. QED BY <2>2, <2>4, <2>5 DEF Known
<1>9. \A t \in e.unmined : t \in d.unmined \/ t \in MinedTxs(Tip(d))
  BY <1>1, <1>2, <1>3 DEF Placed
<1>. QED BY <1>6, <1>7, <1>8, <1>9 DEF e

-----------------------------------------------------------------------------
(* The prune that ends a switch *)

LEMMA PruneTies ==
  ASSUME NEW d, Good(d), Account(d), Exact(d), Alone(d), Funded(d, Ticket, {}),
         \A t \in d.unmined \cap Vote : VotesOn[t] # Tip(d)
  PROVE  LET e == PruneUnmined(d) IN
         Exact(e) /\ Alone(e) /\ Funded(e, Tx, {}) /\ e.unmined \cap Vote = {}
<1>. DEFINE T == {t \in d.unmined : NoLongerBelongs(d, t)}
            gone == SpendChains(d, T)
            e == RemoveUnconfirmed(d, T)
<1>1. d \in Stores /\ T \in SUBSET d.unmined /\ Waiting(d) /\ Credited(d) /\ Indexed(d)
  BY DEF Good, Account, Books
<1>2. PruneUnmined(d) = e
  BY DEF PruneUnmined
<1>3. \A t \in d.unmined : t \in T <=> NoLongerBelongs(d, t)
  OBVIOUS
<1>. HIDE DEF T
<1>4. Exact(e) /\ Alone(e)
  BY <1>1, RemoveTies
<1>5. /\ T \subseteq gone /\ Closed(d, gone)
      /\ e.unmined = d.unmined \ gone /\ e.records = d.records
  BY <1>1, RemoveGone
<1>6. Funded(e, Ticket, {})
  BY <1>1, RemoveFunded
<1>. HIDE DEF gone, e
<1>7. e.unmined \cap Vote = {}
  BY <1>3, <1>5 DEF NoLongerBelongs
<1>8. ASSUME NEW t \in e.unmined, t \in Regular, NEW u \in Tx,
             NEW o \in Inputs[t] \cap Outputs[u]
      PROVE  Known(e, u)
  <2>1. t \in d.unmined /\ t \notin gone /\ HasValidInputs(d, t) /\ t \in Tx /\ o \in Outpoint
    BY <1>1, <1>3, <1>5, <1>8, FieldTypes, TxAssumption DEF NoLongerBelongs
  <2>2. CASE d.unspent[o] # None
    <3>1. d.unspent[o] \in Block
      BY <1>1, <2>1, <2>2, FieldTypes
    <3>2. PICK v \in Tx : o \in Outputs[v] /\ Stands(d, v, d.unspent[o])
      BY <1>1, <2>1, <3>1 DEF Indexed, Credited
    <3>3. v = u
      BY <3>2, OneMaker
    <3>. QED BY <1>5, <3>1, <3>2, <3>3 DEF Stands, Known
  <2>3. CASE o \in d.unminedCredits
    <3>1. PICK v \in d.unmined : o \in Outputs[v]
      BY <1>1, <2>3 DEF Waiting
    <3>2. v = u /\ u \in d.unmined /\ u \notin Coinbase
      BY <1>1, <3>1, OneMaker, FieldTypes DEF Waiting
    <3>3. o \in Delicate
      BY <2>1, <3>2 DEF Delicate
    <3>4. d.unminedInputs[o] = t
      BY <2>1, <3>3 DEF Exact
    <3>5. u \notin gone
      BY <1>5, <2>1, <3>4 DEF Closed
    <3>. QED BY <1>5, <3>2, <3>5 DEF Known
  <2>. QED BY <2>1, <2>2, <2>3 DEF HasValidInputs
<1>9. Funded(e, Tx, {})
  <2>. SUFFICES ASSUME NEW t \in e.unmined, t \in Tx, NEW u \in Tx,
                       NEW o \in Inputs[t] \cap Outputs[u]
                PROVE  Known(e, u)
    BY DEF Funded
  <2>1. CASE t \in Ticket
    BY <1>6, <2>1 DEF Funded
  <2>2. CASE t \notin Ticket
    BY <1>7, <1>8, <2>2 DEF Regular
  <2>. QED BY <2>1, <2>2
<1>. QED BY <1>2, <1>4, <1>7, <1>9

-----------------------------------------------------------------------------
(* The steps *)

\* Nothing is open after the step.
LEMMA TiesClose ==
  ASSUME db' = disk', task' = NoTask, Exact(disk'), Alone(disk'), Funded(disk', Tx, {}),
         ForTip(disk')
  PROVE  SpendInv'
<1>1. ~Switching'
  BY DEF Switching, NoTask
<1>. QED BY <1>1 DEF SpendInv

LEMMA RestartTies == ASSUME SpendInv, Restart \/ SaveRefused PROVE SpendInv'
<1>1. db' = disk /\ disk' = disk /\ task' = NoTask
  BY DEF Restart, SaveRefused, RollBackTask
<1>. QED BY <1>1, TiesClose DEF SpendInv

LEMMA SwitchTies ==
  ASSUME IInv, MInv, SpendInv, NEW b \in Block, ChainSwitch(b) PROVE SpendInv'
<1>1. /\ Idle /\ UNCHANGED <<db, disk>>
      /\ task' = [NoTask EXCEPT
           !.op = "switch", !.fork = CommonHeight(ChainTo[b], disk.chain),
           !.blocks = SubSeq(ChainTo[b], CommonHeight(ChainTo[b], disk.chain) + 1,
                             Len(ChainTo[b])),
           !.found = phase = "up" /\ RescanPoint(disk) = None]
  BY Zenon DEF ChainSwitch
<1>2. task'.op = "switch" /\ task'.at = None /\ task'.orphaned = {}
  BY <1>1 DEF NoTask
<1>3. db = disk /\ ~Switching
  BY <1>1 DEF MInv, Idleness, Idle, NoTask, Switching
<1>4. Tip(disk) \in Block /\ Height(Tip(disk)) \in Nat /\ db \in Stores
  BY TipTyped, LineFacts DEF IInv, StoreInv, Good
<1>5. ForPast'
  BY <1>1, <1>3, <1>4 DEF SpendInv, ForTip, ForPast
<1>6. Funded(db, Ticket, {})
  BY <1>3, <1>4, FieldTypes DEF SpendInv, Funded
<1>. QED BY <1>1, <1>2, <1>3, <1>5, <1>6 DEF SpendInv, Switching

LEMMA ReadTies ==
  ASSUME MInv, SpendInv,
         HeadersEnd \/ ListBlocks \/ RescanFails \/ \E b \in Block : RescanFrom(b)
  PROVE  SpendInv'
<1>1. UNCHANGED <<db, disk, task>>
  BY DEF HeadersEnd, ListBlocks, RescanFails, RescanFrom
<1>2. /\ UNCHANGED <<db, disk>> /\ task'.op = task.op
      /\ task'.orphaned = task.orphaned /\ task'.at = task.at
  BY <1>1
<1>. QED BY <1>2 DEF SpendInv, Switching, ForPast

LEMMA SaveTies ==
  ASSUME IInv, SpendInv, SaveBlock \/ \E n \in 1 .. MaxBlocksPerRescan : SaveRescanned(n)
  PROVE  SpendInv'
<1>1. CASE SaveBlock
  <2>1. /\ UNCHANGED <<db, disk>> /\ task.op = "save"
        /\ task' = [task EXCEPT !.at = Head(task.blocks), !.blocks = Tail(task.blocks),
                                !.txs = TxsOf[Head(task.blocks)]]
    BY <1>1 DEF SaveBlock
  <2>2. ~Switching
    BY <2>1 DEF Switching
  <2>3. task'.op = task.op
    BY <2>1 DEF IInv, TaskInv, Tasks
  <2>. QED BY <2>1, <2>2, <2>3 DEF SpendInv, Switching
<1>2. ASSUME NEW n \in 1 .. MaxBlocksPerRescan, SaveRescanned(n) PROVE SpendInv'
  <2>1. /\ UNCHANGED <<db, disk>> /\ Idle
        /\ task' = [NoTask EXCEPT !.op = "save", !.blocks = SubSeq(rescan.todo, 1, n)]
    BY <1>2 DEF SaveRescanned
  <2>2. ~Switching /\ ~Switching'
    BY <2>1 DEF Switching, Idle, NoTask
  <2>. QED BY <2>1, <2>2 DEF SpendInv
<1>. QED BY <1>1, <1>2

LEMMA MarkTies == ASSUME IInv, MInv, SpendInv, MarkRescanned PROVE SpendInv'
<1>. DEFINE e == UpdateProcessedTxsBlockMarker(db, rescan.last)
<1>1. Idle /\ db' = e /\ disk' = e /\ task' = NoTask
  BY DEF MarkRescanned, Commit
<1>2. db = disk /\ db \in Stores
  BY <1>1 DEF MInv, Idleness, Idle, NoTask, IInv, StoreInv, Good
<1>3. SameTies(e, db) /\ e.chain = db.chain
  BY <1>2, MarkerTies, MarkerRest
<1>. HIDE DEF e
<1>4. Exact(e) /\ Alone(e) /\ Funded(e, Tx, {})
  BY <1>2, <1>3, TiesCarry DEF SpendInv
<1>5. ForTip(e)
  BY <1>2, <1>3 DEF SpendInv, ForTip, SameTies, Marked, Tip
<1>. QED BY <1>1, <1>4, <1>5, TiesClose

LEMMA SaveEndTies == ASSUME MInv, SpendInv, SaveEnd PROVE SpendInv'
<1>1. task.op = "save" /\ db' = db /\ disk' = db /\ task' = NoTask
  BY DEF SaveEnd, Commit
<1>2. ~Switching
  BY <1>1 DEF Switching
<1>. QED BY <1>1, <1>2, TiesClose DEF SpendInv

LEMMA SaveTxTies == ASSUME IInv, IInv', MInv, CoinInv, SpendInv, SaveTx PROVE SpendInv'
<1>. DEFINE t == Head(task.txs)
            e == ProcessTransactionRecord(db, t, task.at)
<1>1. /\ db' = e /\ UNCHANGED disk /\ task' = [task EXCEPT !.txs = Tail(task.txs)]
      /\ task.txs # <<>>
  BY DEF SaveTx, Write
<1>2. Good(db) /\ task \in Tasks /\ Waiting(db) /\ task.at \in Block
  BY <1>1 DEF IInv, StoreInv, TaskInv, Tasks, CoinInv, Account, Remaining
<1>3. t \in Tx
  BY <1>1, <1>2 DEF Tasks
<1>. HIDE DEF t
<1>4. /\ Exact(e) /\ Alone(e) /\ e.unmined \subseteq db.unmined /\ e.chain = db.chain
      /\ \A K, S : Funded(db, K, S) => Funded(e, K, S)
  BY <1>2, <1>3, ProcessTies, ProcessView DEF SpendInv
<1>5. task'.op = task.op /\ task'.orphaned = task.orphaned /\ task'.at = task.at
  BY <1>1, <1>2 DEF Tasks
<1>. HIDE DEF e
<1>6. CASE Switching
  BY <1>1, <1>4, <1>5, <1>6 DEF SpendInv, Switching, ForPast
<1>7. CASE ~Switching
  BY <1>1, <1>4, <1>5, <1>7 DEF SpendInv, Switching, ForTip, Tip
<1>. QED BY <1>6, <1>7

LEMMA AbandonTies ==
  ASSUME IInv, MInv, CoinInv, SpendInv, NEW t \in Tx, AbandonTransaction(t) PROVE SpendInv'
<1>. DEFINE e == RemoveUnconfirmed(db, {t})
<1>1. Idle /\ db' = e /\ disk' = e /\ task' = NoTask /\ {t} \in SUBSET db.unmined
  BY DEF AbandonTransaction, Commit
<1>2. db = disk /\ db \in Stores /\ Waiting(db)
  BY <1>1 DEF MInv, Idleness, Idle, NoTask, IInv, StoreInv, Good, CoinInv, Account
<1>3. Exact(e) /\ Alone(e) /\ Funded(e, Tx, {})
  BY <1>1, <1>2, RemoveTies, RemoveFunded DEF SpendInv
<1>4. e.chain = db.chain /\ e.unmined \subseteq db.unmined
  BY <1>2, RemoveRest
<1>. HIDE DEF e
<1>5. ForTip(e)
  BY <1>2, <1>4 DEF SpendInv, ForTip, Tip
<1>. QED BY <1>1, <1>3, <1>5, TiesClose

LEMMA AddTies ==
  ASSUME Orderly, NoDisputes, IInv, MInv, CoinInv, SpendInv, NEW t \in Tx, AddTransaction(t)
  PROVE  SpendInv'
<1>. DEFINE e == RemoveUnconfirmed(db, {})
            f == InsertMemPoolTx(e, t)
<1>1. /\ Idle /\ ~Known(db, t) /\ Conflicts(db, t) = {}
      /\ \A u \in Tx : Outputs[u] \cap Inputs[t] # {} => Known(db, u)
      /\ \A o \in Inputs[t] : ~SpentOn(db.chain, o)
      /\ t \in Vote => VotesOn[t] = Tip(db)
      /\ db' = InsertMemPoolTx(RemoveUnconfirmed(db, StaleVotes(db, t)), t)
      /\ disk' = db' /\ task' = NoTask
  BY DEF AddTransaction, Commit
<1>2. /\ db = disk /\ Good(db) /\ db \in Stores /\ Live(db) /\ Waiting(db) /\ Lines(db)
      /\ Placed(db) /\ Judged(db) /\ Chained(db) /\ Tip(db) \in Block
  BY <1>1, TipTyped
     DEF MInv, Idleness, Idle, NoTask, IInv, StoreInv, Good, CoinInv, Account, Lines
<1>3. Exact(db) /\ Alone(db) /\ Funded(db, Tx, {}) /\ ForTip(db)
  BY <1>2 DEF SpendInv
<1>4. StaleVotes(db, t) = {}
  <2>1. DoubleSpends(db, t) \subseteq db.unmined
    BY <1>2, TxAssumption DEF DoubleSpends, Live
  <2>. QED BY <1>3, <2>1 DEF StaleVotes, ForTip
<1>5. DoubleSpends(db, t) = {} /\ db' = f
  BY <1>1, <1>4 DEF Conflicts
<1>6. /\ e \in Stores /\ e.unmined = db.unmined /\ e.records = db.records /\ e.chain = db.chain
      /\ \A o \in Outpoint : e.unminedInputs[o] \in {None, db.unminedInputs[o]}
  <2>1. SpendChains(db, {}) = {}
    <3>1. Closed(db, {})
      BY DEF Closed
    <3>. QED BY <3>1 DEF SpendChains
  <2>2. e \in Stores
    BY <1>2, RemoveGood DEF Good
  <2>3. /\ e.unmined = db.unmined \ SpendChains(db, {})
        /\ e.records = db.records /\ e.chain = db.chain
        /\ e.unminedInputs = [o \in Outpoint |->
             IF \E g \in SpendChains(db, {}) : o \in Inputs[g] THEN None
             ELSE db.unminedInputs[o]]
    BY <1>2, RemoveGone
  <2>. QED BY <2>1, <2>2, <2>3
<1>7. Exact(e) /\ Alone(e) /\ Funded(e, Tx, {})
  BY <1>2, <1>3, RemoveTies, RemoveFunded
<1>. HIDE DEF e
<1>8. DoubleSpends(e, t) = {}
  BY <1>5, <1>6, TxAssumption DEF DoubleSpends
<1>9. ASSUME NEW u \in Tx, NEW b \in Block, <<u, b>> \in e.records
      PROVE  Inputs[t] \cap Inputs[u] \cap Delicate = {}
  <2>1. /\ <<u, b>> \in db.records /\ u # t /\ b \in Line(Tip(db)) /\ u \in MinedTxs(b)
    BY <1>1, <1>2, <1>6, <1>9 DEF Known, Placed
  <2>2. CASE Stands(db, u, b)
    <3>1. Fits(db, u, b)
      BY <1>2, <2>2, StandsFits
    <3>2. Counts(ChainTo[Tip(db)], Height(b), u) /\ db.chain = ChainTo[Tip(db)]
      BY <1>2, <3>1, FitsCounts DEF Chained
    <3>3. Height(b) \in DOMAIN db.chain
      BY <1>2, <2>1, <3>2, InLine, LineFacts
    <3>4. \A o \in Inputs[u] : SpentOn(db.chain, o)
      BY <3>2, <3>3 DEF SpentOn
    <3>. QED BY <1>1, <3>4
  <2>3. CASE ~Stands(db, u, b)
    <3>1. u \in Regular /\ Disapproved(b)
      BY <1>2, <2>1, <2>3 DEF Stands, Invalidated, Judged
    <3>. QED BY <2>1, <3>1 DEF NoDisputes
  <2>. QED BY <2>2, <2>3
<1>10. \A u \in Tx : Outputs[u] \cap Inputs[t] # {} => Known(e, u)
  BY <1>1, <1>6 DEF Known
<1>11. /\ Exact(f) /\ Alone(f) /\ Funded(f, Tx, {}) /\ f.unmined = e.unmined \cup {t}
  BY <1>6, <1>7, <1>8, <1>9, <1>10, InsertTies
<1>12. f.chain = db.chain
  BY <1>6, InsertView DEF View
<1>. HIDE DEF f
<1>13. ForTip(f)
  BY <1>1, <1>3, <1>6, <1>11, <1>12 DEF ForTip, Tip
<1>. QED BY <1>1, <1>5, <1>11, <1>13, TiesClose

LEMMA RollbackSpends ==
  ASSUME Orderly, NoDisputes, IInv, IInv', MInv, CoinInv, SpendInv, Rollback PROVE SpendInv'
<1>. DEFINE e == RollbackBlock(db)
<1>1. /\ Switching /\ Len(db.chain) > task.fork /\ task.at = None
      /\ db' = e /\ UNCHANGED disk
      /\ task' = [task EXCEPT !.orphaned = task.orphaned \cup CoinbaseOutputs(db)]
  BY DEF Rollback, Write
<1>2. Good(db) /\ db \in Stores /\ task \in Tasks /\ Account(db)
  BY Stored DEF TaskInv, CoinInv
<1>3. /\ task'.op = task.op /\ task'.at = None
      /\ task'.orphaned = task.orphaned \cup CoinbaseOutputs(db)
  BY <1>1, <1>2 DEF Tasks
<1>4. db.chain # <<>>
  <2>1. task.fork \in Nat
    BY <1>2 DEF Tasks
  <2>. QED BY <1>1, <2>1
<1>5. PICK b \in Block : SwitchTo(b)
  BY <1>1 DEF MInv, SwitchInv
<1>6. /\ Tip(db) \in Block /\ Height(Tip(db)) \in Nat /\ Height(Tip(disk)) \in Nat
      /\ Height(Tip(db)) <= Height(Tip(disk))
  <2>1. /\ Tip(db) \in Block /\ Len(db.chain) = Height(Tip(db)) /\ Height(Tip(db)) \in Nat
        /\ Height(Tip(disk)) \in Nat
    BY <1>5, SwitchFacts
  <2>2. Rolling(b)
    BY <1>1, <1>5, <2>1, Constants DEF SwitchTo, Attaching
  <2>. QED BY <2>1, <2>2 DEF Rolling
<1>7. /\ Exact(e) /\ Alone(e) /\ Funded(e, Ticket, task.orphaned \cup CoinbaseOutputs(db))
      /\ \A t \in e.unmined : t \in db.unmined \/ t \in MinedTxs(Tip(db))
  BY <1>1, <1>2, <1>4, RollbackTies DEF SpendInv
<1>. HIDE DEF e
<1>8. ForPast'
  <2>. SUFFICES ASSUME NEW t \in e.unmined \cap Vote
                PROVE  VotesOn[t] \in Block /\ Height(VotesOn[t]) <= Height(Tip(disk))
    BY <1>1 DEF ForPast
  <2>1. CASE t \in db.unmined
    BY <1>1, <2>1 DEF SpendInv, ForPast
  <2>2. CASE t \in MinedTxs(Tip(db))
    <3>1. VotesOn[t] \in Block /\ Height(VotesOn[t]) < Height(Tip(db))
      BY <1>6, <2>2 DEF NoDisputes
    <3>2. Height(VotesOn[t]) \in Nat
      BY <3>1, LineFacts
    <3>. QED BY <1>6, <3>1, <3>2
  <2>. QED BY <1>7, <2>1, <2>2
<1>. QED BY <1>1, <1>3, <1>7, <1>8 DEF SpendInv, Switching

LEMMA RollbackEndSpends ==
  ASSUME IInv, IInv', MInv, CoinInv, SpendInv, RollbackEnd PROVE SpendInv'
<1>. DEFINE T == SpendersOf(db, task.orphaned)
            e == RemoveUnconfirmed(db, T)
<1>1. /\ Switching /\ task.at = None /\ db' = e /\ UNCHANGED disk
      /\ task' = [task EXCEPT !.orphaned = {}]
  BY DEF RollbackEnd, Write
<1>2. /\ Good(db) /\ db \in Stores /\ task \in Tasks /\ Waiting(db)
      /\ task.orphaned \subseteq Outpoint
  BY Stored DEF TaskInv, CoinInv, Account, Tasks
<1>3. task'.op = task.op /\ task'.at = None /\ task'.orphaned = {}
  BY <1>1, <1>2 DEF Tasks
<1>4. Exact(db) /\ Alone(db) /\ Funded(db, Ticket, task.orphaned) /\ ForPast
  BY <1>1 DEF SpendInv
<1>5. T \in SUBSET db.unmined /\ Funded(e, Ticket, {})
  BY <1>2, <1>4, RemoveOrphans
<1>. HIDE DEF T
<1>6. Exact(e) /\ Alone(e)
  BY <1>2, <1>4, <1>5, RemoveTies
<1>7. e.unmined \subseteq db.unmined
  BY <1>2, RemoveRest
<1>. HIDE DEF e
<1>8. ForPast'
  BY <1>1, <1>4, <1>7 DEF ForPast
<1>. QED BY <1>1, <1>3, <1>5, <1>6, <1>8 DEF SpendInv, Switching

LEMMA AttachSpends ==
  ASSUME IInv, IInv', MInv, SpendInv, AttachBlock PROVE SpendInv'
<1>. DEFINE x == Head(task.blocks)
            e == ExtendMainChain(db, x)
<1>1. /\ Switching /\ task.orphaned = {} /\ task.blocks # <<>> /\ db' = e /\ UNCHANGED disk
      /\ task' = [task EXCEPT !.at = x, !.blocks = Tail(task.blocks),
                              !.txs = IF task.found THEN TxsOf[x] ELSE <<>>]
  BY DEF AttachBlock, Write
<1>2. db \in Stores /\ task \in Tasks
  BY Stored DEF TaskInv
<1>3. x \in Block
  BY <1>1, <1>2 DEF Tasks, Chains
<1>4. task'.op = task.op /\ task'.orphaned = {}
  BY <1>1, <1>2 DEF Tasks
<1>. HIDE DEF x
<1>5. SameTies(e, db)
  BY <1>2, <1>3, ExtendTies
<1>. HIDE DEF e
<1>6. Exact(e) /\ Alone(e) /\ Funded(e, Ticket, {})
  BY <1>1, <1>5, TiesCarry DEF SpendInv
<1>7. ForPast'
  BY <1>1, <1>5 DEF SpendInv, ForPast, SameTies, Marked
<1>. QED BY <1>1, <1>4, <1>6, <1>7 DEF SpendInv, Switching

\* The chain is longer than before the switch: no vote is for its tip.
LEMMA SwitchEndSpends ==
  ASSUME IInv, IInv', MInv, CoinInv, SpendInv, SwitchEnd PROVE SpendInv'
<1>. DEFINE nogap == MarkerHeight(db) + 2 >= task.fork + 1
            u == UpdateProcessedTxsBlockMarker(db, Tip(db))
            m == IF task.found /\ nogap THEN u ELSE db
<1>1. Switching /\ task.blocks = <<>> /\ Commit(PruneUnmined(m))
  BY DEF SwitchEnd
<1>2. /\ db \in Stores /\ Good(db) /\ Account(db) /\ Tip(db) \in Block /\ task.at # None
  BY <1>1, Stored, SwitchStages, TipTyped DEF CoinInv
<1>3. /\ Good(u) /\ SameCoins(u, db) /\ u.chain = db.chain /\ Waiting(u) /\ SameTies(u, db)
  BY <1>2, MarkerGood, MarkerRest, MarkerTies DEF Account
<1>. HIDE DEF u
<1>4. Account(u)
  BY <1>2, <1>3, SameAccount
<1>5. Good(m) /\ Account(m) /\ SameTies(m, db) /\ m.chain = db.chain
  BY <1>2, <1>3, <1>4 DEF SameTies, Marked
<1>. HIDE DEF m
<1>6. Exact(m) /\ Alone(m) /\ Funded(m, Ticket, {})
  BY <1>1, <1>2, <1>5, TiesCarry DEF SpendInv
<1>7. Height(Tip(db)) > Height(Tip(disk)) /\ Height(Tip(disk)) \in Nat
  <2>1. PICK b \in Block : SwitchTo(b)
    BY <1>1 DEF MInv, SwitchInv
  <2>2. /\ Len(db.chain) = Height(Tip(db)) /\ Height(Tip(db)) \in Nat
        /\ Height(Tip(disk)) \in Nat /\ Height(Tip(disk)) < Height(b) /\ Height(b) \in Nat
        /\ Height(b) = Len(ChainTo[b]) /\ ChainTo[b] \in Chains
    BY <2>1, SwitchFacts
  <2>3. /\ Height(Tip(db)) <= Height(b)
        /\ SubSeq(ChainTo[b], Height(Tip(db)) + 1, Height(b)) = <<>>
    BY <1>1, <1>2, <2>1, <2>2 DEF SwitchTo, Rolling, Attaching
  <2>4. Len(SubSeq(ChainTo[b], Height(Tip(db)) + 1, Height(b))) = Height(b) - Height(Tip(db))
    BY <2>2, <2>3 DEF Chains
  <2>5. Height(b) - Height(Tip(db)) = 0
    BY <2>3, <2>4
  <2>. QED BY <2>2, <2>5
<1>8. \A t \in m.unmined \cap Vote : VotesOn[t] # Tip(m)
  <2>1. m.unmined = db.unmined /\ Tip(m) = Tip(db)
    BY <1>5 DEF SameTies, Marked, Tip
  <2>2. ForPast
    BY <1>1 DEF SpendInv
  <2>. SUFFICES ASSUME NEW t \in db.unmined \cap Vote, VotesOn[t] = Tip(db) PROVE FALSE
    BY <2>1
  <2>3. Height(Tip(db)) <= Height(Tip(disk))
    BY <2>2 DEF ForPast
  <2>4. Height(Tip(db)) \in Nat
    BY <1>2, LineFacts
  <2>. QED BY <1>7, <2>3, <2>4
<1>. DEFINE e == PruneUnmined(m)
<1>9. Exact(e) /\ Alone(e) /\ Funded(e, Tx, {}) /\ e.unmined \cap Vote = {}
  BY <1>5, <1>6, <1>8, PruneTies
<1>10. db' = e /\ disk' = e /\ task' = NoTask
  BY <1>1 DEF Commit
<1>. HIDE DEF e
<1>11. ForTip(e)
  BY <1>9 DEF ForTip
<1>. QED BY <1>9, <1>10, <1>11, TiesClose

LEMMA InitSpends == Init => SpendInv
<1>1. ASSUME Init PROVE SpendInv
  <2>1. /\ db = InitStore /\ disk = InitStore /\ db.unmined = {}
        /\ disk.unmined = {} /\ ~Switching
    BY <1>1 DEF Init, InitStore, Switching, NoTask
  <2>. QED BY <2>1 DEF SpendInv, Exact, Alone, Funded, ForTip
<1>. QED BY <1>1

LEMMA StepSpends ==
  ASSUME Orderly, NoDisputes, IInv, IInv', MInv, CoinInv, SpendInv, [Next]_vars
  PROVE  SpendInv'
<1>1. CASE UNCHANGED vars
  BY <1>1 DEF vars, SpendInv, Switching, ForPast
<1>. QED
  BY <1>1, SwitchTies, ReadTies, MarkTies, SaveTies, SaveTxTies, SaveEndTies, RestartTies,
     RollbackSpends, RollbackEndSpends, AttachSpends, SwitchEndSpends, AddTies, AbandonTies,
     Zenon
     DEF Next, Rescan, Task

\* No unmined transaction spends an output of a transaction that is gone, though
\* transactions are removed in five ways and each looks for the spenders by the marks
\* alone; if what a disapproved block spends is spent by no other.
THEOREM NothingIsOrphaned ==
  ASSUME NoReturn, Orderly, NoDisputes PROVE Spec => []NoOrphans
<1>1. IInv /\ IInv' /\ MInv /\ CoinInv /\ SpendInv /\ [Next]_vars => SpendInv'
  BY StepSpends
<1>2. IInv /\ SpendInv => NoOrphans
  <2>. SUFFICES ASSUME IInv, SpendInv, NEW t \in disk.unmined, NEW u \in Tx,
                       Outputs[u] \cap Inputs[t] # {}
                PROVE  Known(disk, u)
    BY DEF NoOrphans
  <2>1. t \in Tx /\ Funded(disk, Tx, {})
    BY FieldTypes DEF IInv, StoreInv, Good, SpendInv
  <2>. QED BY <2>1 DEF Funded
<1>. QED BY <1>1, <1>2, InitSpends, Invariance, MarkedAlways, CountedAlways, PTL DEF Spec
=============================================================================
