-------------------------- MODULE TxStore_proofs ---------------------------
(***************************************************************************)
(* Proofs about TxStore, for any tree of blocks and any transactions.      *)
(*                                                                         *)
(* Each method of the store keeps two things of the store it is given: its *)
(* types, and that a mark of an output names an unmined transaction that   *)
(* spends it (Live).  A database transaction is a sequence of methods: what*)
(* it commits has both.                                                    *)
(*                                                                         *)
(* The marker of the rescans is honest.  A block stands for the chain to   *)
(* it, and Line(x) for the set of its blocks: then a fork is an            *)
(* intersection, and what is lost is a block that is on the marker's line  *)
(* and the main chain's at once.                                           *)
(***************************************************************************)
EXTENDS TxStore, FiniteSetTheorems, SequenceTheorems, TLAPS

Live(d) ==
  \A o \in Outpoint : LET spender == d.unminedInputs[o] IN
    spender # None => spender \in d.unmined /\ o \in Inputs[spender]

Good(d) == d \in Stores /\ Live(d)

\* A store with the marks and the unmined transactions of another.
Marked(d, e) == d.unmined = e.unmined /\ d.unminedInputs = e.unminedInputs

LEMMA Constants ==
  /\ Genesis \in Block /\ None \notin Block /\ None \notin Tx
  /\ \A b \in Block : ChainTo[b] \in Chains /\ TxsOf[b] \in Seq(Tx)
  /\ \A t \in Tx : Inputs[t] \in SUBSET Outpoint /\ Outputs[t] \in SUBSET Outpoint
  /\ \A S \in SUBSET Outpoint : Worth[S] \in Int
BY TreeAssumption, TxAssumption

LEMMA FieldTypes ==
  ASSUME NEW d \in Stores
  PROVE  /\ d.chain \in Chains /\ d.marker \in Block /\ d.invalid \in SUBSET Block
         /\ d.records \in SUBSET (Tx \X Block)
         /\ d.credits \in SUBSET Coins /\ d.spent \in SUBSET Coins
         /\ d.debits \in SUBSET Debits
         /\ d.unspent \in [Outpoint -> Block \cup {None}]
         /\ d.invCredits \in SUBSET Coins /\ d.invDebits \in SUBSET Debits
         /\ d.unmined \in SUBSET Tx
         /\ d.unminedInputs \in [Outpoint -> Tx \cup {None}]
         /\ d.unminedCredits \in SUBSET Outpoint /\ d.balance \in Int
BY DEF Stores

-----------------------------------------------------------------------------
(* The methods of the store *)

LEMMA RemoveGood ==
  ASSUME NEW d, Good(d), NEW T \in SUBSET Tx PROVE Good(RemoveUnconfirmed(d, T))
<1>. DEFINE gone == SpendChains(d, T)
            U == d.unmined \ gone
            C == {o \in d.unminedCredits : \A t \in gone : o \notin Outputs[t]}
            I == [o \in Outpoint |->
                   IF \E t \in gone : o \in Inputs[t] THEN None ELSE d.unminedInputs[o]]
            r == [d EXCEPT !.unmined = U, !.unminedCredits = C, !.unminedInputs = I]
<1>1. RemoveUnconfirmed(d, T) = r
  BY DEF RemoveUnconfirmed
<1>2. d \in Stores /\ Live(d)
  BY DEF Good
<1>3. U \in SUBSET Tx /\ C \in SUBSET Outpoint /\ I \in [Outpoint -> Tx \cup {None}]
  BY <1>2, FieldTypes
<1>4. \A o \in Outpoint : I[o] # None =>
        I[o] = d.unminedInputs[o] /\ \A t \in gone : o \notin Inputs[t]
  OBVIOUS
<1>. HIDE DEF I
<1>5. \A o \in Outpoint : I[o] # None => I[o] \in U /\ o \in Inputs[I[o]]
  BY <1>2, <1>4 DEF Live
<1>. HIDE DEF U, C
<1>6. r \in Stores /\ r.unmined = U /\ r.unminedInputs = I
  BY <1>2, <1>3 DEF Stores
<1>. QED BY <1>1, <1>5, <1>6 DEF Good, Live

LEMMA InsertGood ==
  ASSUME NEW d, Good(d), NEW t \in Tx PROVE Good(InsertMemPoolTx(d, t))
<1>. DEFINE U == d.unmined \cup {t}
            C == d.unminedCredits \cup (Outputs[t] \cap Owned)
            I == [o \in Outpoint |-> IF o \in Inputs[t] THEN t ELSE d.unminedInputs[o]]
            r == [d EXCEPT !.unmined = U, !.unminedInputs = I, !.unminedCredits = C]
<1>1. InsertMemPoolTx(d, t) = r
  BY DEF InsertMemPoolTx
<1>2. d \in Stores /\ Live(d)
  BY DEF Good
<1>3. U \in SUBSET Tx /\ C \in SUBSET Outpoint /\ I \in [Outpoint -> Tx \cup {None}]
  BY <1>2, FieldTypes, Constants
<1>4. \A o \in Outpoint : I[o] # None => I[o] \in U /\ o \in Inputs[I[o]]
  BY <1>2 DEF Live
<1>. HIDE DEF U, C, I
<1>5. r \in Stores /\ r.unmined = U /\ r.unminedInputs = I
  BY <1>2, <1>3 DEF Stores
<1>. QED BY <1>1, <1>4, <1>5 DEF Good, Live

LEMMA PruneGood ==
  ASSUME NEW d, Good(d) PROVE Good(PruneUnmined(d))
<1>1. {t \in d.unmined : NoLongerBelongs(d, t)} \in SUBSET Tx
  BY FieldTypes DEF Good
<1>. QED BY <1>1, RemoveGood DEF PruneUnmined

\* What leaves the unmined transactions and the marks alone.
LEMMA MarkedGood ==
  ASSUME NEW d, Good(d), NEW e \in Stores, Marked(e, d) PROVE Good(e)
BY DEF Good, Live, Marked

LEMMA TipTyped == ASSUME NEW d \in Stores PROVE Tip(d) \in Block
BY FieldTypes, Constants DEF Tip, Last, Chains

LEMMA CreditsTyped ==
  ASSUME NEW S \in SUBSET Coins
  PROVE  /\ {c[1] : c \in S} \in SUBSET Outpoint
         /\ \A c \in S : c[1] \in Outpoint /\ c[2] \in Block
BY DEF Coins

LEMMA DebitsTyped ==
  ASSUME NEW S \in SUBSET Debits
  PROVE  /\ {x.out : x \in S} \in SUBSET Outpoint
         /\ {<<x.out, x.credit>> : x \in S} \in SUBSET Coins
         /\ \A x \in S : x.out \in Outpoint /\ x.credit \in Block
BY DEF Debits, Coins

LEMMA StakeInvalidateGood ==
  ASSUME NEW d, Good(d), NEW b \in Block PROVE Good(StakeInvalidate(d, b))
<1>. DEFINE txs == Recorded(d, b) \cap Regular
            moved == {c \in d.credits : c[2] = b /\ \E t \in txs : Creates(t, c)}
            debits == {x \in d.debits : x.block = b /\ x.tx \in txs}
            S == d.spent \ {<<x.out, x.credit>> : x \in {y \in debits : y.credit # b}}
            I == d.invalid \cup {b}
            C == d.credits \ moved
            A == d.invCredits \cup moved
            D == d.debits \ debits
            X == d.invDebits \cup debits
            U == [o \in Outpoint |->
                   IF \E x \in debits : x.out = o
                   THEN (CHOOSE x \in debits : x.out = o).credit
                   ELSE IF \E c \in moved : c[1] = o THEN None ELSE d.unspent[o]]
            B == d.balance - Worth[{c[1] : c \in moved}] + Worth[{x.out : x \in debits}]
            r == [d EXCEPT !.invalid = I, !.credits = C, !.invCredits = A, !.debits = D,
                           !.invDebits = X, !.spent = S, !.unspent = U, !.balance = B]
<1>1. StakeInvalidate(d, b) = r
  BY DEF StakeInvalidate
<1>2. d \in Stores
  BY DEF Good
<1>3. moved \in SUBSET Coins /\ debits \in SUBSET Debits
  BY <1>2, FieldTypes
<1>4. B \in Int
  <2>1. {c[1] : c \in moved} \in SUBSET Outpoint /\ {x.out : x \in debits} \in SUBSET Outpoint
    BY <1>3, CreditsTyped, DebitsTyped
  <2>2. Worth[{c[1] : c \in moved}] \in Int /\ Worth[{x.out : x \in debits}] \in Int
    BY <2>1, Constants
  <2>3. d.balance \in Int
    BY <1>2, FieldTypes
  <2>. HIDE DEF moved, debits
  <2>. QED BY <2>2, <2>3
<1>5. \A x \in debits : x.credit \in Block
  BY <1>3, DebitsTyped
<1>6. U \in [Outpoint -> Block \cup {None}]
  <2>1. d.unspent \in [Outpoint -> Block \cup {None}]
    BY <1>2, FieldTypes
  <2>. HIDE DEF moved, debits
  <2>. QED BY <1>5, <2>1
<1>7. /\ I \in SUBSET Block /\ C \in SUBSET Coins /\ A \in SUBSET Coins
      /\ D \in SUBSET Debits /\ X \in SUBSET Debits /\ S \in SUBSET Coins
  <2>. HIDE DEF moved, debits
  <2>. QED BY <1>2, <1>3, FieldTypes
<1>. HIDE DEF I, C, A, D, X, S, U, B
<1>8. r \in Stores /\ Marked(r, d)
  BY <1>2, <1>4, <1>6, <1>7 DEF Stores, Marked
<1>. QED BY <1>1, <1>8, MarkedGood

LEMMA StakeValidateGood ==
  ASSUME NEW d, Good(d), NEW b \in Block PROVE Good(StakeValidate(d, b))
<1>. DEFINE txs == Recorded(d, b) \cap Regular
            moved == {c \in d.invCredits : c[2] = b /\ \E t \in txs : Creates(t, c)}
            debits == {x \in d.invDebits : x.block = b /\ x.tx \in txs}
            spends == {<<x.out, x.credit>> : x \in debits}
            I == d.invalid \ {b}
            C == d.credits \cup moved \cup spends
            A == d.invCredits \ moved
            D == d.debits \cup debits
            X == d.invDebits \ debits
            S == d.spent \cup spends
            U == [o \in Outpoint |->
                   IF \E x \in debits : x.out = o THEN None
                   ELSE IF \E c \in moved : c[1] = o THEN b ELSE d.unspent[o]]
            B == d.balance + Worth[{c[1] : c \in moved}] - Worth[{x.out : x \in debits}]
            r == [d EXCEPT !.invalid = I, !.credits = C, !.invCredits = A, !.debits = D,
                           !.invDebits = X, !.spent = S, !.unspent = U, !.balance = B]
<1>1. StakeValidate(d, b) = r
  BY DEF StakeValidate
<1>2. d \in Stores
  BY DEF Good
<1>3. moved \in SUBSET Coins /\ debits \in SUBSET Debits
  BY <1>2, FieldTypes
<1>4. B \in Int
  <2>1. {c[1] : c \in moved} \in SUBSET Outpoint /\ {x.out : x \in debits} \in SUBSET Outpoint
    BY <1>3, CreditsTyped, DebitsTyped
  <2>2. Worth[{c[1] : c \in moved}] \in Int /\ Worth[{x.out : x \in debits}] \in Int
    BY <2>1, Constants
  <2>3. d.balance \in Int
    BY <1>2, FieldTypes
  <2>. HIDE DEF moved, debits
  <2>. QED BY <2>2, <2>3
<1>5. spends \in SUBSET Coins
  BY <1>3, DebitsTyped
<1>6. U \in [Outpoint -> Block \cup {None}]
  <2>1. d.unspent \in [Outpoint -> Block \cup {None}]
    BY <1>2, FieldTypes
  <2>. HIDE DEF moved, debits
  <2>. QED BY <2>1
<1>7. /\ I \in SUBSET Block /\ C \in SUBSET Coins /\ A \in SUBSET Coins
      /\ D \in SUBSET Debits /\ X \in SUBSET Debits /\ S \in SUBSET Coins
  <2>. HIDE DEF moved, debits, spends
  <2>. QED BY <1>2, <1>3, <1>5, FieldTypes
<1>. HIDE DEF I, C, A, D, X, S, U, B
<1>8. r \in Stores /\ Marked(r, d)
  BY <1>2, <1>4, <1>6, <1>7 DEF Stores, Marked
<1>. QED BY <1>1, <1>8, MarkedGood

LEMMA ExtendGood ==
  ASSUME NEW d, Good(d), NEW b \in Block \ {Genesis} PROVE Good(ExtendMainChain(d, b))
<1>. DEFINE parent == Tip(d)
            judged == CASE b \in Approves /\ parent \in d.invalid -> StakeValidate(d, parent)
                        [] b \notin Approves /\ parent \notin d.invalid -> StakeInvalidate(d, parent)
                        [] OTHER -> d
<1>1. ExtendMainChain(d, b) = [judged EXCEPT !.chain = Append(judged.chain, b)]
  BY DEF ExtendMainChain
<1>2. parent \in Block
  BY TipTyped DEF Good
<1>. HIDE DEF parent
<1>3. Good(judged)
  BY <1>2, StakeValidateGood, StakeInvalidateGood
<1>. HIDE DEF judged
<1>4. judged \in Stores /\ judged.chain \in Chains
  BY <1>3, FieldTypes DEF Good
<1>5. Append(judged.chain, b) \in Chains
  BY <1>4 DEF Chains
<1>. DEFINE A == Append(judged.chain, b)
<1>. HIDE DEF A
<1>6. [judged EXCEPT !.chain = A] \in Stores /\ Marked([judged EXCEPT !.chain = A], judged)
  BY <1>4, <1>5 DEF Stores, Marked, A
<1>. QED BY <1>1, <1>3, <1>6, MarkedGood DEF A

LEMMA MarkerGood ==
  ASSUME NEW d, Good(d), NEW b \in Block PROVE Good(UpdateProcessedTxsBlockMarker(d, b))
<1>1. [d EXCEPT !.marker = b] \in Stores /\ Marked([d EXCEPT !.marker = b], d)
  BY DEF Good, Stores, Marked
<1>2. Good([d EXCEPT !.marker = b])
  BY <1>1, MarkedGood
<1>. QED BY <1>2 DEF UpdateProcessedTxsBlockMarker

LEMMA SpendGood ==
  ASSUME NEW d, Good(d), NEW t \in Tx, NEW b \in Block PROVE Good(SpendCredits(d, t, b))
<1>. DEFINE ins == {o \in Inputs[t] : d.unspent[o] # None}
            debits == {[tx |-> t, block |-> b, out |-> o, credit |-> d.unspent[o]] : o \in ins}
            X == d.invDebits \cup debits
            C == d.credits \cup {<<x.out, x.credit>> : x \in debits}
            S == d.spent \cup {<<x.out, x.credit>> : x \in debits}
            D == d.debits \cup debits
            U == [o \in Outpoint |-> IF o \in ins THEN None ELSE d.unspent[o]]
            B == d.balance - Worth[ins]
            q == [d EXCEPT !.invDebits = X]
            r == [d EXCEPT !.credits = C, !.spent = S, !.debits = D, !.unspent = U,
                           !.balance = B]
<1>1. SpendCredits(d, t, b) = IF Invalidated(d, t, b) THEN q ELSE r
  BY DEF SpendCredits
<1>2. d \in Stores
  BY DEF Good
<1>3. ins \in SUBSET Outpoint /\ \A o \in ins : d.unspent[o] \in Block
  BY <1>2, FieldTypes, Constants
<1>4. debits \in SUBSET Debits
  BY <1>3 DEF Debits
<1>5. {<<x.out, x.credit>> : x \in debits} \in SUBSET Coins
  BY <1>4, DebitsTyped
<1>6. B \in Int
  <2>1. Worth[ins] \in Int /\ d.balance \in Int
    BY <1>2, <1>3, Constants, FieldTypes
  <2>. HIDE DEF ins
  <2>. QED BY <2>1
<1>7. U \in [Outpoint -> Block \cup {None}]
  BY <1>2, FieldTypes
<1>8. /\ X \in SUBSET Debits /\ C \in SUBSET Coins /\ S \in SUBSET Coins
      /\ D \in SUBSET Debits
  <2>. HIDE DEF debits
  <2>. QED BY <1>2, <1>4, <1>5, FieldTypes
<1>. HIDE DEF X, C, S, D, U, B
<1>9. q \in Stores /\ Marked(q, d) /\ r \in Stores /\ Marked(r, d)
  BY <1>2, <1>6, <1>7, <1>8 DEF Stores, Marked
<1>. QED BY <1>1, <1>9, MarkedGood

LEMMA PutGood ==
  ASSUME NEW d, Good(d), NEW outs \in SUBSET Outpoint, NEW b \in Block
  PROVE  Good(PutCredits(d, outs, b))
<1>. DEFINE C == d.credits \cup (outs \X {b})
            S == d.spent \ (outs \X {b})
            U == [o \in Outpoint |-> IF o \in outs THEN b ELSE d.unspent[o]]
            B == d.balance + Worth[outs]
            r == [d EXCEPT !.credits = C, !.spent = S, !.unspent = U, !.balance = B]
<1>1. PutCredits(d, outs, b) = r
  BY DEF PutCredits
<1>2. d \in Stores
  BY DEF Good
<1>3. B \in Int
  BY <1>2, Constants, FieldTypes
<1>4. C \in SUBSET Coins /\ S \in SUBSET Coins /\ U \in [Outpoint -> Block \cup {None}]
  BY <1>2, FieldTypes DEF Coins
<1>. HIDE DEF C, S, U, B
<1>5. r \in Stores /\ Marked(r, d)
  BY <1>2, <1>3, <1>4 DEF Stores, Marked
<1>. QED BY <1>1, <1>5, MarkedGood

LEMMA MoveGood ==
  ASSUME NEW d, Good(d), NEW t \in Tx, NEW b \in Block PROVE Good(MoveMinedTx(d, t, b))
<1>. DEFINE R == d.records \cup {<<t, b>>}
            U == d.unmined \ {t}
            I == [o \in Outpoint |-> IF o \in Inputs[t] THEN None ELSE d.unminedInputs[o]]
            C == d.unminedCredits \ Outputs[t]
            r == [d EXCEPT !.records = R, !.unmined = U, !.unminedInputs = I,
                           !.unminedCredits = C]
            outs == d.unminedCredits \cap Outputs[t]
<1>1. MoveMinedTx(d, t, b) = PutCredits(r, outs, b)
  BY DEF MoveMinedTx
<1>2. d \in Stores /\ Live(d)
  BY DEF Good
<1>3. /\ R \in SUBSET (Tx \X Block) /\ U \in SUBSET Tx /\ C \in SUBSET Outpoint
      /\ I \in [Outpoint -> Tx \cup {None}] /\ outs \in SUBSET Outpoint
  BY <1>2, FieldTypes
<1>4. \A o \in Outpoint : I[o] # None => I[o] \in U /\ o \in Inputs[I[o]]
  BY <1>2 DEF Live
<1>. HIDE DEF R, U, I, C, outs
<1>5. r \in Stores /\ r.unmined = U /\ r.unminedInputs = I
  BY <1>2, <1>3 DEF Stores
<1>6. Good(r)
  BY <1>4, <1>5 DEF Good, Live
<1>. HIDE DEF r
<1>. QED BY <1>1, <1>3, <1>6, PutGood

LEMMA RecordGood ==
  ASSUME NEW d, Good(d), NEW t \in Tx, NEW b \in Block PROVE Good(RecordMinedTx(d, t, b))
<1>1. DoubleSpends(d, t) \in SUBSET Tx
  BY FieldTypes, Constants DEF DoubleSpends, Good
<1>. DEFINE e == RemoveUnconfirmed(d, DoubleSpends(d, t))
            R == e.records \cup {<<t, b>>}
            r == [e EXCEPT !.records = R]
<1>2. RecordMinedTx(d, t, b) = r
  BY DEF RecordMinedTx
<1>3. Good(e)
  BY <1>1, RemoveGood
<1>. HIDE DEF e
<1>4. R \in SUBSET (Tx \X Block)
  BY <1>3, FieldTypes DEF Good
<1>. HIDE DEF R
<1>5. r \in Stores /\ Marked(r, e)
  BY <1>3, <1>4 DEF Good, Stores, Marked
<1>. QED BY <1>2, <1>3, <1>5, MarkedGood

LEMMA AddCreditsGood ==
  ASSUME NEW d, Good(d), NEW t \in Tx, NEW b \in Block PROVE Good(AddCredits(d, t, b))
<1>. DEFINE outs == Outputs[t] \cap Owned
            A == d.invCredits \cup (outs \X {b})
            S == d.spent \ (outs \X {b})
            r == [d EXCEPT !.invCredits = A, !.spent = S]
            new == {o \in outs : <<o, b>> \notin d.credits}
<1>1. AddCredits(d, t, b) = IF Invalidated(d, t, b) THEN r ELSE PutCredits(d, new, b)
  BY DEF AddCredits
<1>2. d \in Stores
  BY DEF Good
<1>3. outs \in SUBSET Outpoint /\ new \in SUBSET Outpoint
  BY Constants
<1>4. A \in SUBSET Coins /\ S \in SUBSET Coins
  BY <1>2, <1>3, FieldTypes DEF Coins
<1>. HIDE DEF A, S, new
<1>5. r \in Stores /\ Marked(r, d)
  BY <1>2, <1>4 DEF Stores, Marked
<1>. QED BY <1>1, <1>3, <1>5, MarkedGood, PutGood

LEMMA ProcessGood ==
  ASSUME NEW d, Good(d), NEW t \in Tx, NEW b \in Block
  PROVE  Good(ProcessTransactionRecord(d, t, b))
<1>1. Good(SpendCredits(d, t, b))
  BY SpendGood
<1>2. Good(InsertMinedTx(d, t, b))
  BY <1>1, MoveGood, RecordGood DEF InsertMinedTx
<1>. QED BY <1>2, AddCreditsGood DEF ProcessTransactionRecord

LEMMA RollbackGood ==
  ASSUME NEW d, Good(d), d.chain # <<>> PROVE Good(RollbackBlock(d))
<1>. DEFINE b == Last(d.chain)
            gone == Recorded(d, b)
            back == gone \ Coinbase
            debits == {x \in d.debits : x.block = b /\ x.tx \in gone}
            lost == {c \in d.credits : c[2] = b /\ \E t \in gone : Creates(t, c)}
            lostOuts == {c[1] : c \in lost}
            given == {x \in debits : x.credit # b /\ x.out \notin Ska}
            N == SubSeq(d.chain, 1, Len(d.chain) - 1)
            V == d.invalid \ {b}
            R == d.records \ (gone \X {b})
            C == d.credits \ lost
            S == d.spent \ (lost \cup {<<x.out, x.credit>> : x \in debits})
            D == d.debits \ debits
            U == [o \in Outpoint |->
                   IF \E x \in given : x.out = o
                   THEN (CHOOSE x \in given : x.out = o).credit
                   ELSE IF o \in lostOuts THEN None ELSE d.unspent[o]]
            M == d.unmined \cup back
            I == [o \in Outpoint |->
                   IF \E t \in back : o \in Inputs[t]
                   THEN CHOOSE t \in back : o \in Inputs[t] ELSE d.unminedInputs[o]]
            K == d.unminedCredits \cup {o \in lostOuts : \E t \in back : o \in Outputs[t]}
            B == d.balance + Worth[{x.out : x \in given}]
                           - Worth[{o \in lostOuts : d.unspent[o] # None}]
            r == [d EXCEPT !.chain = N, !.invalid = V, !.records = R, !.credits = C,
                           !.spent = S, !.debits = D, !.unspent = U, !.unmined = M,
                           !.unminedInputs = I, !.unminedCredits = K, !.balance = B]
<1>1. RollbackBlock(d) = r
  BY DEF RollbackBlock
<1>2. d \in Stores /\ Live(d)
  BY DEF Good
<1>3. gone \in SUBSET Tx /\ back \in SUBSET Tx
  BY DEF Recorded
<1>4. /\ lost \in SUBSET Coins /\ debits \in SUBSET Debits /\ given \in SUBSET Debits
  BY <1>2, FieldTypes
<1>5. lostOuts \in SUBSET Outpoint /\ {x.out : x \in given} \in SUBSET Outpoint
  BY <1>4, CreditsTyped, DebitsTyped
<1>6. N \in Chains
  BY <1>2, FieldTypes DEF Chains
<1>7. B \in Int
  <2>. DEFINE P == {x.out : x \in given}
              Q == {o \in lostOuts : d.unspent[o] # None}
  <2>1. P \in SUBSET Outpoint /\ Q \in SUBSET Outpoint
    BY <1>5
  <2>2. Worth[P] \in Int /\ Worth[Q] \in Int /\ d.balance \in Int
    BY <1>2, <2>1, Constants, FieldTypes
  <2>. HIDE DEF P, Q
  <2>3. d.balance + Worth[P] - Worth[Q] \in Int
    BY <2>2
  <2>. QED BY <2>3 DEF P, Q
<1>8. U \in [Outpoint -> Block \cup {None}]
  <2>1. d.unspent \in [Outpoint -> Block \cup {None}] /\ \A x \in given : x.credit \in Block
    BY <1>2, <1>4, FieldTypes, DebitsTyped
  <2>. HIDE DEF given, lostOuts
  <2>. QED BY <2>1
<1>9. /\ V \in SUBSET Block /\ C \in SUBSET Coins /\ S \in SUBSET Coins /\ D \in SUBSET Debits
      /\ R \in SUBSET (Tx \X Block) /\ M \in SUBSET Tx /\ K \in SUBSET Outpoint
  <2>. HIDE DEF b, gone, back, debits, lost, lostOuts
  <2>. QED BY <1>2, <1>3, <1>5, FieldTypes
<1>10. /\ I \in [Outpoint -> Tx \cup {None}]
       /\ \A o \in Outpoint : I[o] # None => I[o] \in M /\ o \in Inputs[I[o]]
  <2>1. d.unminedInputs \in [Outpoint -> Tx \cup {None}]
    BY <1>2, FieldTypes
  <2>. HIDE DEF back
  <2>. QED BY <1>2, <1>3, <2>1 DEF Live
<1>. HIDE DEF N, V, R, C, S, D, U, M, I, K, B
<1>11. r \in Stores /\ r.unmined = M /\ r.unminedInputs = I
  BY <1>2, <1>6, <1>7, <1>8, <1>9, <1>10 DEF Stores
<1>. QED BY <1>1, <1>10, <1>11 DEF Good, Live

LEMMA InitGood == Good(InitStore)
BY Constants DEF InitStore, Good, Live, Stores, Chains

-----------------------------------------------------------------------------
(* The database transactions *)

Tasks == [op : {"none", "switch", "save"}, blocks : Chains, txs : Seq(Tx),
          at : Block \cup {None}, found : BOOLEAN, fork : Nat, orphaned : SUBSET Outpoint]
Rescans == [on : BOOLEAN, from : Block \cup {None}, inclusive : BOOLEAN,
            todo : Chains, last : Block \cup {None}]

StoreInv == Good(db) /\ Good(disk)
TaskInv == task \in Tasks /\ rescan \in Rescans /\ phase \in {"headers", "rescan", "up"}
IInv == StoreInv /\ TaskInv

LEMMA Typed == TypeOK <=> db \in Stores /\ disk \in Stores /\ TaskInv
BY DEF TypeOK, TaskInv, Tasks, Rescans

LEMMA CommonHeightTyped ==
  ASSUME NEW c \in Chains, NEW e \in Chains
  PROVE  CommonHeight(c, e) \in Nat /\ CommonHeight(c, e) <= Len(e)
<1>. DEFINE S == {i \in DOMAIN c \cap DOMAIN e : c[i] = e[i]}
            n == Len(e)
<1>1. n \in Nat /\ S \in SUBSET (1 .. n)
  BY DEF Chains
<1>2. CommonHeight(c, e) = Cardinality(S)
  BY DEF CommonHeight
<1>. HIDE DEF S, n
<1>3. IsFiniteSet(1 .. n) /\ Cardinality(1 .. n) = n
  BY <1>1, FS_Interval
<1>4. IsFiniteSet(S) /\ Cardinality(S) <= n
  BY <1>1, <1>3, FS_Subset
<1>5. Cardinality(S) \in Nat
  BY <1>4, FS_CardinalityType
<1>. QED BY <1>2, <1>4, <1>5 DEF n

LEMMA RescanPointTyped ==
  ASSUME NEW d \in Stores PROVE RescanPoint(d) \in Block \cup {None}
<1>1. d.chain \in Chains /\ ChainTo[d.marker] \in Chains
  BY FieldTypes, Constants
<1>2. MarkerHeight(d) \in Nat /\ MarkerHeight(d) <= Len(d.chain)
  BY <1>1, CommonHeightTyped DEF MarkerHeight
<1>. QED BY <1>1, <1>2 DEF RescanPoint, Chains

LEMMA PartOf ==
  ASSUME NEW S, NEW s \in Seq(S), NEW m \in Nat \ {0}, NEW n \in Nat, n <= Len(s)
  PROVE  SubSeq(s, m, n) \in Seq(S)
OBVIOUS

LEMMA Parts ==
  ASSUME NEW S, NEW s \in Seq(S), s # <<>>
  PROVE  Head(s) \in S /\ Tail(s) \in Seq(S) /\ Last(s) \in S
BY DEF Last

LEMMA NothingTyped == NoTask \in Tasks /\ NoRescan \in Rescans
BY DEF NoTask, NoRescan, Tasks, Rescans, Chains

LEMMA TaskFields ==
  ASSUME TaskInv
  PROVE  /\ task.blocks \in Chains /\ task.txs \in Seq(Tx) /\ task.at \in Block \cup {None}
         /\ task.fork \in Nat /\ task.orphaned \in SUBSET Outpoint
         /\ rescan.todo \in Chains /\ rescan.from \in Block \cup {None}
         /\ rescan.last \in Block \cup {None}
BY DEF TaskInv, Tasks, Rescans

LEMMA InChainTyped ==
  ASSUME NEW d \in Stores, NEW b, InChain(d, b) PROVE b \in Block \ {Genesis}
BY FieldTypes DEF InChain, Chains

(* What each step writes is good, ... *)

LEMMA StoreHolds == ASSUME IInv, [Next]_vars PROVE StoreInv'
<1>0. Good(db) /\ Good(disk) /\ TaskInv /\ db \in Stores /\ disk \in Stores
  BY DEF IInv, StoreInv, Good
<1>1. ASSUME NEW d, Good(d), Commit(d) \/ Write(d) PROVE StoreInv'
  BY <1>0, <1>1 DEF StoreInv, Commit, Write, Good, Live
<1>2. ASSUME RollBackTask \/ UNCHANGED <<db, disk>> PROVE StoreInv'
  BY <1>0, <1>2 DEF StoreInv, RollBackTask, Good, Live
<1>3. ASSUME Rollback PROVE StoreInv'
  <2>1. db.chain # <<>>
    BY <1>0, <1>3, FieldTypes, TaskFields DEF Rollback, Chains
  <2>. QED BY <1>0, <1>1, <1>3, <2>1, RollbackGood DEF Rollback
<1>4. ASSUME RollbackEnd PROVE StoreInv'
  <2>1. SpendersOf(db, task.orphaned) \in SUBSET Tx
    BY <1>0, FieldTypes, TaskFields DEF SpendersOf
  <2>. QED BY <1>0, <1>1, <1>4, <2>1, RemoveGood DEF RollbackEnd
<1>5. ASSUME AttachBlock PROVE StoreInv'
  <2>1. Head(task.blocks) \in Block \ {Genesis}
    BY <1>0, <1>5, TaskFields, Parts DEF AttachBlock, Chains
  <2>. QED BY <1>0, <1>1, <1>5, <2>1, ExtendGood DEF AttachBlock
<1>6. ASSUME SaveTx PROVE StoreInv'
  <2>1. Head(task.txs) \in Tx
    BY <1>0, <1>6, TaskFields, Parts DEF SaveTx
  <2>2. task.at \in Block
    BY <1>0, <1>6, InChainTyped DEF SaveTx, Refused
  <2>. QED BY <1>0, <1>1, <1>6, <2>1, <2>2, ProcessGood DEF SaveTx
<1>7. ASSUME SwitchEnd PROVE StoreInv'
  <2>. DEFINE marked(g) == IF task.found /\ g
                           THEN UpdateProcessedTxsBlockMarker(db, Tip(db)) ELSE db
  <2>1. Good(UpdateProcessedTxsBlockMarker(db, Tip(db)))
    BY <1>0, TipTyped, MarkerGood
  <2>2. PICK g \in BOOLEAN : Commit(PruneUnmined(marked(g)))
    BY <1>7 DEF SwitchEnd
  <2>3. Good(marked(g))
    BY <1>0, <2>1
  <2>. HIDE DEF marked
  <2>4. Good(PruneUnmined(marked(g)))
    BY <2>3, PruneGood
  <2>. QED BY <1>1, <2>2, <2>4
<1>8. ASSUME SaveEnd PROVE StoreInv'
  BY <1>0, <1>1, <1>8 DEF SaveEnd
<1>9. ASSUME MarkRescanned PROVE StoreInv'
  <2>1. rescan.last \in Block
    BY <1>0, <1>9, TaskFields DEF MarkRescanned
  <2>. QED BY <1>0, <1>1, <1>9, <2>1, MarkerGood DEF MarkRescanned
<1>10. ASSUME NEW t \in Tx, AddTransaction(t) PROVE StoreInv'
  <2>. DEFINE e == RemoveUnconfirmed(db, StaleVotes(db, t))
  <2>1. StaleVotes(db, t) \in SUBSET Tx
    BY <1>0, FieldTypes, Constants DEF StaleVotes, DoubleSpends
  <2>2. Good(e)
    BY <1>0, <2>1, RemoveGood
  <2>3. Commit(InsertMemPoolTx(e, t))
    BY <1>10 DEF AddTransaction
  <2>. HIDE DEF e
  <2>. QED BY <1>1, <2>2, <2>3, InsertGood
<1>11. ASSUME NEW t \in Tx, AbandonTransaction(t) PROVE StoreInv'
  <2>1. {t} \in SUBSET Tx
    OBVIOUS
  <2>2. Good(RemoveUnconfirmed(db, {t}))
    BY <1>0, <2>1, RemoveGood
  <2>. QED BY <1>1, <1>11, <2>2 DEF AbandonTransaction
<1>12. ASSUME \/ (\E b \in Block : ChainSwitch(b) \/ RescanFrom(b))
              \/ HeadersEnd \/ ListBlocks \/ RescanFails \/ SaveBlock \/ SaveRefused \/ Restart
              \/ (\E n \in 1 .. MaxBlocksPerRescan : SaveRescanned(n)) \/ UNCHANGED vars
       PROVE  RollBackTask \/ UNCHANGED <<db, disk>>
  BY <1>12, Zenon DEF ChainSwitch, RescanFrom, HeadersEnd, ListBlocks, RescanFails, SaveBlock,
     SaveRefused, Restart, SaveRescanned, vars
<1>. QED
  BY <1>2, <1>3, <1>4, <1>5, <1>6, <1>7, <1>8, <1>9, <1>10, <1>11, <1>12, Zenon
  DEF Next, Rescan, Task

(* ... and the task and the rescan keep their types. *)

LEMMA TaskHolds == ASSUME IInv, [Next]_vars PROVE TaskInv'
<1>0. /\ TaskInv /\ task \in Tasks /\ rescan \in Rescans
      /\ phase \in {"headers", "rescan", "up"} /\ db \in Stores /\ disk \in Stores
  BY DEF IInv, StoreInv, Good, TaskInv
<1>1. ASSUME NEW b \in Block, ChainSwitch(b) PROVE TaskInv'
  <2>. DEFINE n == CommonHeight(ChainTo[b], disk.chain)
              B == SubSeq(ChainTo[b], n + 1, Len(ChainTo[b]))
              f == phase = "up" /\ RescanPoint(disk) = None
  <2>1. ChainTo[b] \in Chains /\ disk.chain \in Chains
    BY <1>0, FieldTypes, Constants
  <2>2. n \in Nat
    BY <2>1, CommonHeightTyped
  <2>3. B \in Chains
    <3>1. Len(ChainTo[b]) \in Nat /\ n + 1 \in Nat \ {0}
      BY <2>1, <2>2 DEF Chains
    <3>. QED BY <2>1, <3>1, PartOf DEF Chains
  <2>4. /\ task' = [NoTask EXCEPT !.op = "switch", !.fork = n, !.blocks = B, !.found = f]
        /\ UNCHANGED <<phase, rescan>>
    BY <1>1, Zenon DEF ChainSwitch
  <2>5. f \in BOOLEAN
    OBVIOUS
  <2>. HIDE DEF n, B, f
  <2>6. task' \in Tasks
    BY <2>2, <2>3, <2>4, <2>5, NothingTyped DEF Tasks
  <2>. QED BY <1>0, <2>4, <2>6 DEF TaskInv
<1>2. ASSUME Rollback PROVE TaskInv'
  <2>. DEFINE O == task.orphaned \cup CoinbaseOutputs(db)
  <2>1. O \in SUBSET Outpoint
    <3>1. {e \in db.credits : /\ e[2] = Last(db.chain)
                              /\ \E t \in Recorded(db, Last(db.chain)) \cap Coinbase :
                                   Creates(t, e)} \in SUBSET Coins
      BY <1>0, FieldTypes
    <3>. QED BY <1>0, <3>1, CreditsTyped, TaskFields DEF CoinbaseOutputs
  <2>2. task' = [task EXCEPT !.orphaned = O] /\ UNCHANGED <<phase, rescan>>
    BY <1>2, Zenon DEF Rollback
  <2>. HIDE DEF O
  <2>3. task' \in Tasks
    BY <1>0, <2>1, <2>2 DEF Tasks
  <2>. QED BY <1>0, <2>2, <2>3 DEF TaskInv
<1>3. ASSUME RollbackEnd PROVE TaskInv'
  <2>1. task' = [task EXCEPT !.orphaned = {}] /\ UNCHANGED <<phase, rescan>>
    BY <1>3, Zenon DEF RollbackEnd
  <2>2. task' \in Tasks
    BY <1>0, <2>1 DEF Tasks
  <2>. QED BY <1>0, <2>1, <2>2 DEF TaskInv
<1>4. ASSUME AttachBlock \/ SaveBlock PROVE TaskInv'
  <2>. DEFINE b == Head(task.blocks)
              T == IF AttachBlock /\ ~task.found THEN <<>> ELSE TxsOf[b]
  <2>1. b \in Block /\ Tail(task.blocks) \in Chains
    BY <1>0, <1>4, TaskFields, Parts DEF AttachBlock, SaveBlock, Chains
  <2>2. TxsOf[b] \in Seq(Tx) /\ <<>> \in Seq(Tx)
    BY <2>1, Constants
  <2>3. PICK X \in Seq(Tx) : task' = [task EXCEPT !.at = b, !.blocks = Tail(task.blocks),
                                                  !.txs = X]
    BY <1>4, <2>2 DEF AttachBlock, SaveBlock
  <2>4. UNCHANGED <<phase, rescan>>
    BY <1>4, Zenon DEF AttachBlock, SaveBlock
  <2>. HIDE DEF b
  <2>5. task' \in Tasks
    BY <1>0, <2>1, <2>3 DEF Tasks
  <2>. QED BY <1>0, <2>4, <2>5 DEF TaskInv
<1>5. ASSUME SaveTx PROVE TaskInv'
  <2>1. task' = [task EXCEPT !.txs = Tail(task.txs)] /\ UNCHANGED <<phase, rescan>>
    BY <1>5, Zenon DEF SaveTx
  <2>2. Tail(task.txs) \in Seq(Tx)
    BY <1>0, <1>5, TaskFields, Parts DEF SaveTx
  <2>3. task' \in Tasks
    BY <1>0, <2>1, <2>2 DEF Tasks
  <2>. QED BY <1>0, <2>1, <2>3 DEF TaskInv
<1>6. ASSUME SaveRefused \/ Restart PROVE TaskInv'
  <2>1. task' = NoTask /\ rescan' \in {rescan, NoRescan}
    BY <1>6, Zenon DEF SaveRefused, Restart, RollBackTask
  <2>2. phase' \in {phase, "up", "headers"}
    BY <1>6 DEF SaveRefused, Restart, AfterFailedRescan
  <2>. QED BY <1>0, <2>1, <2>2, NothingTyped DEF TaskInv
<1>7. ASSUME NEW d, Commit(d), UNCHANGED <<phase, rescan>> PROVE TaskInv'
  BY <1>0, <1>7, NothingTyped DEF TaskInv, Commit
<1>8. ASSUME HeadersEnd PROVE TaskInv'
  <2>1. UNCHANGED task /\ phase' \in {"up", "rescan"}
    BY <1>8 DEF HeadersEnd
  <2>2. RescanPoint(disk) \in Block \cup {None}
    BY <1>0, RescanPointTyped
  <2>3. \/ UNCHANGED rescan
        \/ rescan' = [NoRescan EXCEPT !.on = TRUE, !.from = RescanPoint(disk), !.inclusive = TRUE]
    BY <1>8, Zenon DEF HeadersEnd
  <2>4. rescan' \in Rescans
    BY <1>0, <2>2, <2>3, NothingTyped DEF Rescans
  <2>. QED BY <1>0, <2>1, <2>4 DEF TaskInv
<1>9. ASSUME NEW b \in Block, RescanFrom(b) PROVE TaskInv'
  <2>1. /\ rescan' = [NoRescan EXCEPT !.on = TRUE, !.from = b, !.inclusive = TRUE]
        /\ UNCHANGED <<task, phase>>
    BY <1>9, Zenon DEF RescanFrom
  <2>2. rescan' \in Rescans
    BY <2>1, NothingTyped DEF Rescans
  <2>. QED BY <1>0, <2>1, <2>2 DEF TaskInv
<1>10. ASSUME NEW n \in 1 .. MaxBlocksPerRescan, SaveRescanned(n) PROVE TaskInv'
  <2>. DEFINE B == SubSeq(rescan.todo, 1, n)
              R == SubSeq(rescan.todo, n + 1, Len(rescan.todo))
  <2>1. /\ n \in DOMAIN rescan.todo /\ UNCHANGED phase
        /\ task' = [NoTask EXCEPT !.op = "save", !.blocks = B]
        /\ rescan' = [rescan EXCEPT !.todo = R]
    BY <1>10, Zenon DEF SaveRescanned
  <2>2. rescan.todo \in Chains
    BY <1>0, TaskFields
  <2>3. n \in Nat /\ n <= Len(rescan.todo) /\ n # 0
    BY <2>1, <2>2 DEF Chains
  <2>4. B \in Chains /\ R \in Chains
    <3>1. Len(rescan.todo) \in Nat /\ n + 1 \in Nat \ {0} /\ 1 \in Nat \ {0}
      BY <2>2, <2>3 DEF Chains
    <3>. QED BY <2>2, <2>3, <3>1, PartOf DEF Chains
  <2>. HIDE DEF B, R
  <2>5. task' \in Tasks /\ rescan' \in Rescans
    BY <1>0, <2>1, <2>4, NothingTyped DEF Tasks, Rescans
  <2>. QED BY <1>0, <2>1, <2>5 DEF TaskInv
<1>11. ASSUME MarkRescanned PROVE TaskInv'
  <2>1. /\ task' = NoTask /\ UNCHANGED phase /\ rescan.last # None
        /\ rescan' = [NoRescan EXCEPT !.on = TRUE, !.from = rescan.last]
    BY <1>11, Zenon DEF MarkRescanned, Commit
  <2>2. rescan' \in Rescans
    BY <1>0, <2>1, TaskFields, NothingTyped DEF Rescans
  <2>. QED BY <1>0, <2>1, <2>2, NothingTyped DEF TaskInv
<1>12. ASSUME RescanFails PROVE TaskInv'
  <2>1. rescan' = NoRescan /\ UNCHANGED task /\ phase' = AfterFailedRescan
    BY <1>12, Zenon DEF RescanFails
  <2>. QED BY <1>0, <2>1, NothingTyped DEF TaskInv, AfterFailedRescan
<1>13. CASE UNCHANGED vars
  BY <1>0, <1>13 DEF TaskInv, vars
<1>14. ASSUME ListBlocks PROVE TaskInv'
  <2>. DEFINE f == Height(rescan.from) + IF rescan.inclusive THEN 0 ELSE 1
              m == IF Len(disk.chain) < f + MaxBlocksPerRescan - 1
                   THEN Len(disk.chain) ELSE f + MaxBlocksPerRescan - 1
              B == SubSeq(disk.chain, f, m)
  <2>1. rescan.from \in Block \ {Genesis}
    BY <1>0, <1>14, InChainTyped DEF ListBlocks
  <2>2. Height(rescan.from) \in Nat \ {0}
    BY <2>1, TreeAssumption DEF Height, Chains
  <2>3. disk.chain \in Chains /\ Len(disk.chain) \in Nat
    BY <1>0, FieldTypes DEF Chains
  <2>4. f \in Nat \ {0}
    BY <2>2
  <2>5. m \in Nat /\ m <= Len(disk.chain)
    <3>. HIDE DEF f
    <3>. QED BY <2>3, <2>4, TreeAssumption
  <2>6. B \in Chains
    <3>. HIDE DEF f, m
    <3>. QED BY <2>3, <2>4, <2>5, PartOf DEF Chains
  <2>7. /\ UNCHANGED task
        /\ \/ rescan' = NoRescan /\ phase' = "up"
           \/ /\ B # <<>> /\ UNCHANGED phase
              /\ rescan' = [rescan EXCEPT !.todo = B, !.last = Last(B)]
    BY <1>14, Zenon DEF ListBlocks
  <2>. HIDE DEF f, m, B
  <2>8. B # <<>> => Last(B) \in Block
    BY <2>6, Parts DEF Chains
  <2>9. rescan' \in Rescans
    BY <1>0, <2>6, <2>7, <2>8, NothingTyped DEF Rescans
  <2>. QED BY <1>0, <2>7, <2>9 DEF TaskInv
<1>. QED
  BY <1>1, <1>2, <1>3, <1>4, <1>5, <1>6, <1>7, <1>8, <1>9, <1>10, <1>11, <1>12, <1>13, <1>14,
     Zenon DEF Next, Rescan, Task, SwitchEnd, SaveEnd, AddTransaction, AbandonTransaction

-----------------------------------------------------------------------------

LEMMA InitInv == Init => IInv
BY InitGood, NothingTyped DEF Init, IInv, StoreInv, TaskInv

LEMMA Invariance == Spec => []IInv
<1>1. IInv /\ [Next]_vars => IInv'
  BY StoreHolds, TaskHolds DEF IInv
<1>. QED BY <1>1, InitInv, PTL DEF Spec

LEMMA InvTyped == IInv => TypeOK
BY Typed DEF IInv, StoreInv, Good

LEMMA InvMarks == IInv => MarksAreLive
BY DEF IInv, StoreInv, Good, Live, MarksAreLive

\* The store, the task and the rescan keep their types: every method of the
\* store, on any tree of blocks, writes coins, debits and records of known
\* transactions and blocks, and no block that is rescanned is genesis.
THEOREM TypeCorrect == Spec => []TypeOK
BY Invariance, InvTyped, PTL

\* An output marked as spent by an unmined transaction is spent by one that is
\* there: for any tree of blocks and any transactions, through all the ways a
\* transaction stops being unmined (mined, pruned, abandoned, replaced, or a
\* double spend of what was mined) and back (a rollback).
THEOREM MarksHold == Spec => []MarksAreLive
BY Invariance, InvMarks, PTL

\* The elements of a sequence.
Elements(s) == {s[i] : i \in 1 .. Len(s)}

-----------------------------------------------------------------------------
(* The tree of blocks *)

LEMMA LineFacts ==
  ASSUME NEW x \in Block
  PROVE  /\ ChainTo[x] \in Chains /\ Height(x) \in Nat /\ Height(x) = Len(ChainTo[x])
         /\ DOMAIN ChainTo[x] = 1 .. Height(x)
         /\ \A i \in 1 .. Height(x) :
              /\ ChainTo[x][i] \in Block \ {Genesis} /\ ChainTo[x][i] \in Line(x)
              /\ ChainTo[ChainTo[x][i]] = SubSeq(ChainTo[x], 1, i)
              /\ Height(ChainTo[x][i]) = i
         /\ Line(x) \subseteq Block \ {Genesis}
<1>1. ChainTo[x] \in Chains
  BY Constants
<1>2. Height(x) \in Nat /\ DOMAIN ChainTo[x] = 1 .. Height(x) /\ Height(x) = Len(ChainTo[x])
  BY <1>1 DEF Height, Chains
<1>3. ASSUME NEW i \in 1 .. Height(x)
      PROVE  /\ ChainTo[x][i] \in Block \ {Genesis}
             /\ ChainTo[ChainTo[x][i]] = SubSeq(ChainTo[x], 1, i)
             /\ Height(ChainTo[x][i]) = i
  <2>1. ChainTo[x][i] \in Block \ {Genesis}
    BY <1>1, <1>2 DEF Chains
  <2>2. ChainTo[ChainTo[x][i]] = SubSeq(ChainTo[x], 1, i)
    BY <1>2, ParentAssumption
  <2>3. Len(SubSeq(ChainTo[x], 1, i)) = i
    BY <1>1, <1>2 DEF Chains
  <2>. QED BY <2>1, <2>2, <2>3 DEF Height
<1>. QED BY <1>1, <1>2, <1>3 DEF Line

LEMMA OfGenesis == Height(Genesis) = 0 /\ Line(Genesis) = {}
<1>1. ChainTo[Genesis] = <<>>
  BY TreeAssumption
<1>2. Height(Genesis) = 0
  BY <1>1 DEF Height
<1>. QED BY <1>2 DEF Line

LEMMA OwnLine ==
  ASSUME NEW x \in Block \ {Genesis}
  PROVE  x \in Line(x) /\ Height(x) \in Nat \ {0} /\ ChainTo[x][Height(x)] = x
<1>1. ChainTo[x] # <<>> /\ ChainTo[x][Len(ChainTo[x])] = x
  BY TreeAssumption
<1>2. Height(x) \in Nat \ {0}
  BY <1>1, LineFacts DEF Chains
<1>. QED BY <1>1, <1>2, LineFacts DEF Line

LEMMA InLine ==
  ASSUME NEW x \in Block, NEW y \in Line(x)
  PROVE  /\ y \in Block \ {Genesis} /\ Height(y) \in 1 .. Height(x)
         /\ ChainTo[x][Height(y)] = y
         /\ ChainTo[y] = SubSeq(ChainTo[x], 1, Height(y))
         /\ Line(y) = {z \in Line(x) : Height(z) <= Height(y)}
<1>1. PICK i \in 1 .. Height(x) : y = ChainTo[x][i]
  BY DEF Line
<1>2. y \in Block \ {Genesis} /\ Height(y) = i /\ ChainTo[y] = SubSeq(ChainTo[x], 1, i)
  BY <1>1, LineFacts
<1>3. \A j \in 1 .. i : ChainTo[y][j] = ChainTo[x][j]
  BY <1>2, LineFacts DEF Chains
<1>4. Line(y) = {ChainTo[x][j] : j \in 1 .. i}
  BY <1>2, <1>3 DEF Line
<1>5. Line(y) = {z \in Line(x) : Height(z) <= i}
  <2>1. ASSUME NEW z \in Line(y) PROVE z \in Line(x) /\ Height(z) <= i
    BY <1>1, <1>4, LineFacts
  <2>2. ASSUME NEW z \in Line(x), Height(z) <= i PROVE z \in Line(y)
    BY <1>1, <1>4, <2>2, LineFacts DEF Line
  <2>. QED BY <2>1, <2>2
<1>. QED BY <1>1, <1>2, <1>5

\* The blocks of a chain are told apart by their heights.
LEMMA SameHeight ==
  ASSUME NEW x \in Block, NEW y \in Line(x), NEW z \in Line(x), Height(y) = Height(z)
  PROVE  y = z
BY InLine

LEMMA LineGrows ==
  ASSUME NEW x \in Block, NEW y \in Line(x)
  PROVE  Line(y) \subseteq Line(x) /\ y \in Line(y)
BY InLine, OwnLine

\* A set of numbers up to n that has all below each of its numbers is an interval.
LEMMA Interval ==
  ASSUME NEW n \in Nat, NEW S \in SUBSET (1 .. n),
         \A i \in S : \A j \in 1 .. i : j \in S
  PROVE  Cardinality(S) \in Nat /\ S = 1 .. Cardinality(S)
<1>1. IsFiniteSet(1 .. n) /\ IsFiniteSet(S)
  <2>1. IsFiniteSet(1 .. n)
    BY FS_Interval
  <2>. QED BY <2>1, FS_Subset
<1>. DEFINE k == Cardinality(S)
<1>2. k \in Nat
  BY <1>1, FS_CardinalityType
<1>3. ASSUME NEW i \in S PROVE i \in 1 .. k
  <2>1. (1 .. i) \subseteq S /\ i \in Nat \ {0}
    OBVIOUS
  <2>2. Cardinality(1 .. i) = i
    BY <2>1, FS_Interval
  <2>3. i <= k
    BY <1>1, <2>1, <2>2, FS_Subset
  <2>. QED BY <1>2, <2>1, <2>3
<1>4. IsFiniteSet(1 .. k) /\ Cardinality(1 .. k) = k
  BY <1>2, FS_Interval
<1>5. S \subseteq 1 .. k
  BY <1>3
<1>6. S = 1 .. k
  BY <1>4, <1>5, FS_Subset
<1>. QED BY <1>2, <1>6

LEMMA Common ==
  ASSUME NEW x \in Block, NEW y \in Block
  PROVE  LET h == CommonHeight(ChainTo[x], ChainTo[y]) IN
         /\ h \in Nat /\ h <= Height(x) /\ h <= Height(y)
         /\ \A z \in Line(x) : z \in Line(y) <=> Height(z) <= h
         /\ \A z \in Line(y) : z \in Line(x) <=> Height(z) <= h
         /\ SubSeq(ChainTo[x], 1, h) = SubSeq(ChainTo[y], 1, h)
<1>. DEFINE S == {i \in DOMAIN ChainTo[x] \cap DOMAIN ChainTo[y] :
                   ChainTo[x][i] = ChainTo[y][i]}
            h == CommonHeight(ChainTo[x], ChainTo[y])
<1>1. h = Cardinality(S)
  BY DEF CommonHeight
<1>2. \A i \in S : \A j \in 1 .. i : j \in S
  <2>1. TAKE i \in S
  <2>2. TAKE j \in 1 .. i
  <2>3. i \in 1 .. Height(x) /\ i \in 1 .. Height(y) /\ ChainTo[x][i] = ChainTo[y][i]
    BY LineFacts
  <2>4. SubSeq(ChainTo[x], 1, i) = SubSeq(ChainTo[y], 1, i)
    BY <2>3, LineFacts
  <2>5. /\ SubSeq(ChainTo[x], 1, i)[j] = ChainTo[x][j]
        /\ SubSeq(ChainTo[y], 1, i)[j] = ChainTo[y][j]
    BY <2>3, LineFacts DEF Chains
  <2>. QED BY <2>3, <2>4, <2>5, LineFacts
<1>3. S \in SUBSET (1 .. Height(x)) /\ S \in SUBSET (1 .. Height(y))
  BY LineFacts
<1>4. h \in Nat /\ S = 1 .. h
  <2>. HIDE DEF S, h
  <2>. QED BY <1>1, <1>2, <1>3, Interval, LineFacts
<1>5. h <= Height(x) /\ h <= Height(y)
  <2>1. CASE h = 0
    BY <2>1, LineFacts
  <2>2. CASE h # 0
    <3>. HIDE DEF S, h
    <3>1. h \in 1 .. h
      BY <1>4, <2>2
    <3>. QED BY <1>3, <1>4, <3>1
  <2>. QED BY <2>1, <2>2
<1>6. \A i \in 1 .. h : ChainTo[x][i] = ChainTo[y][i]
  BY <1>4
<1>. HIDE DEF h
<1>7. ASSUME NEW z \in Line(x) PROVE z \in Line(y) <=> Height(z) <= h
  <2>1. Height(z) \in 1 .. Height(x) /\ ChainTo[x][Height(z)] = z
    BY InLine
  <2>2. ASSUME z \in Line(y) PROVE Height(z) <= h
    <3>1. Height(z) \in 1 .. Height(y) /\ ChainTo[y][Height(z)] = z
      BY <2>2, InLine
    <3>2. Height(z) \in S
      BY <2>1, <3>1, LineFacts
    <3>. QED BY <1>4, <3>2
  <2>3. ASSUME Height(z) <= h PROVE z \in Line(y)
    <3>1. Height(z) \in 1 .. h
      BY <1>4, <2>1, <2>3
    <3>2. Height(z) \in 1 .. Height(y)
      BY <1>4, <1>5, <3>1, LineFacts
    <3>. QED BY <1>6, <2>1, <3>1, <3>2, LineFacts
  <2>. QED BY <2>2, <2>3
<1>8. ASSUME NEW z \in Line(y) PROVE z \in Line(x) <=> Height(z) <= h
  <2>1. Height(z) \in 1 .. Height(y) /\ ChainTo[y][Height(z)] = z
    BY InLine
  <2>2. ASSUME z \in Line(x) PROVE Height(z) <= h
    BY <1>7, <2>2
  <2>3. ASSUME Height(z) <= h PROVE z \in Line(x)
    <3>1. Height(z) \in 1 .. h
      BY <1>4, <2>1, <2>3
    <3>2. Height(z) \in 1 .. Height(x)
      BY <1>4, <1>5, <3>1, LineFacts
    <3>. QED BY <1>6, <2>1, <3>1, <3>2, LineFacts
  <2>. QED BY <2>2, <2>3
<1>9. SubSeq(ChainTo[x], 1, h) = SubSeq(ChainTo[y], 1, h)
  BY <1>4, <1>5, <1>6, LineFacts DEF Chains
<1>. QED BY <1>4, <1>5, <1>7, <1>8, <1>9 DEF h

-----------------------------------------------------------------------------
(* What the methods of the store do to the chain, the marker and the records *)

View(e, d) == e.chain = d.chain /\ e.marker = d.marker /\ e.records = d.records

LEMMA RemoveView ==
  ASSUME NEW d \in Stores, NEW T PROVE View(RemoveUnconfirmed(d, T), d)
BY DEF RemoveUnconfirmed, View, Stores

LEMMA PruneView == ASSUME NEW d \in Stores PROVE View(PruneUnmined(d), d)
BY RemoveView DEF PruneUnmined

LEMMA InsertView ==
  ASSUME NEW d \in Stores, NEW t \in Tx PROVE View(InsertMemPoolTx(d, t), d)
BY DEF InsertMemPoolTx, View, Stores

LEMMA JudgeView ==
  ASSUME NEW d \in Stores, NEW b \in Block
  PROVE  View(StakeInvalidate(d, b), d) /\ View(StakeValidate(d, b), d)
<1>1. View(StakeInvalidate(d, b), d)
  BY DEF StakeInvalidate, View, Stores
<1>2. View(StakeValidate(d, b), d)
  BY DEF StakeValidate, View, Stores
<1>. QED BY <1>1, <1>2

LEMMA ExtendView ==
  ASSUME NEW d, Good(d), NEW b \in Block \ {Genesis}
  PROVE  LET e == ExtendMainChain(d, b) IN
         e.chain = Append(d.chain, b) /\ e.marker = d.marker /\ e.records = d.records
<1>. DEFINE parent == Tip(d)
            judged == CASE b \in Approves /\ parent \in d.invalid -> StakeValidate(d, parent)
                        [] b \notin Approves /\ parent \notin d.invalid ->
                             StakeInvalidate(d, parent)
                        [] OTHER -> d
<1>1. ExtendMainChain(d, b) = [judged EXCEPT !.chain = Append(judged.chain, b)]
  BY DEF ExtendMainChain
<1>2. parent \in Block /\ d \in Stores
  BY TipTyped DEF Good
<1>. HIDE DEF parent
<1>3. Good(judged) /\ View(judged, d)
  BY <1>2, StakeValidateGood, StakeInvalidateGood, JudgeView DEF View
<1>. HIDE DEF judged
<1>. QED BY <1>1, <1>3 DEF Good, View, Stores

LEMMA MarkerView ==
  ASSUME NEW d \in Stores, NEW b \in Block
  PROVE  LET e == UpdateProcessedTxsBlockMarker(d, b) IN
         /\ e.chain = d.chain /\ e.records = d.records
         /\ e.marker = IF Height(b) > MarkerHeight(d) THEN b ELSE d.marker
BY DEF UpdateProcessedTxsBlockMarker, Stores

LEMMA SpendView ==
  ASSUME NEW d \in Stores, NEW t \in Tx, NEW b \in Block PROVE View(SpendCredits(d, t, b), d)
BY DEF SpendCredits, View, Stores

LEMMA PutView ==
  ASSUME NEW d \in Stores, NEW S, NEW b \in Block PROVE View(PutCredits(d, S, b), d)
BY DEF PutCredits, View, Stores

LEMMA AddView ==
  ASSUME NEW d \in Stores, NEW t \in Tx, NEW b \in Block PROVE View(AddCredits(d, t, b), d)
<1>1. View([d EXCEPT !.invCredits = d.invCredits \cup ((Outputs[t] \cap Owned) \X {b}),
                     !.spent = d.spent \ ((Outputs[t] \cap Owned) \X {b})], d)
  BY DEF View, Stores
<1>. QED BY <1>1, PutView DEF AddCredits

LEMMA ProcessView ==
  ASSUME NEW d, Good(d), NEW t \in Tx, NEW b \in Block
  PROVE  LET e == ProcessTransactionRecord(d, t, b) IN
         /\ e.chain = d.chain /\ e.marker = d.marker
         /\ e.records = d.records \cup {<<t, b>>}
<1>. DEFINE spent == SpendCredits(d, t, b)
            kept == InsertMinedTx(d, t, b)
<1>1. Good(spent) /\ View(spent, d)
  BY SpendGood, SpendView DEF Good
<1>2. Good(kept)
  BY <1>1, MoveGood, RecordGood DEF InsertMinedTx
<1>3. /\ kept.chain = spent.chain /\ kept.marker = spent.marker
      /\ kept.records = spent.records \cup {<<t, b>>}
  <2>1. CASE <<t, b>> \in d.records
    BY <1>1, <2>1 DEF InsertMinedTx, View
  <2>2. CASE <<t, b>> \notin d.records /\ t \in d.unmined
    <3>. DEFINE moved == [spent EXCEPT
                  !.records = spent.records \cup {<<t, b>>},
                  !.unmined = spent.unmined \ {t},
                  !.unminedInputs = [o \in Outpoint |-> IF o \in Inputs[t] THEN None
                                                        ELSE spent.unminedInputs[o]],
                  !.unminedCredits = spent.unminedCredits \ Outputs[t]]
    <3>1. kept = PutCredits(moved, spent.unminedCredits \cap Outputs[t], b)
      BY <2>2 DEF InsertMinedTx, MoveMinedTx
    <3>2. /\ moved.chain = spent.chain /\ moved.marker = spent.marker
          /\ moved.records = spent.records \cup {<<t, b>>}
      BY <1>1 DEF Good, Stores
    <3>3. moved \in Stores
      <4>1. spent \in Stores
        BY <1>1 DEF Good
      <4>2. /\ spent.records \cup {<<t, b>>} \in SUBSET (Tx \X Block)
            /\ spent.unmined \ {t} \in SUBSET Tx
            /\ [o \in Outpoint |-> IF o \in Inputs[t] THEN None ELSE spent.unminedInputs[o]]
                 \in [Outpoint -> Tx \cup {None}]
            /\ spent.unminedCredits \ Outputs[t] \in SUBSET Outpoint
        BY <4>1, FieldTypes
      <4>. QED BY <4>1, <4>2 DEF Stores
    <3>. HIDE DEF moved
    <3>. QED BY <3>1, <3>2, <3>3, PutView DEF View
  <2>3. CASE <<t, b>> \notin d.records /\ t \notin d.unmined
    <3>1. kept = RecordMinedTx(spent, t, b)
      BY <2>3 DEF InsertMinedTx
    <3>. DEFINE r == RemoveUnconfirmed(spent, DoubleSpends(spent, t))
    <3>2. r \in Stores /\ View(r, spent)
      <4>1. DoubleSpends(spent, t) \in SUBSET Tx
        BY <1>1, FieldTypes, Constants DEF DoubleSpends, Good
      <4>. QED BY <1>1, <4>1, RemoveGood, RemoveView DEF Good
    <3>3. kept = [r EXCEPT !.records = r.records \cup {<<t, b>>}]
      BY <3>1 DEF RecordMinedTx
    <3>. HIDE DEF r
    <3>. QED BY <3>2, <3>3 DEF View, Stores
  <2>. QED BY <2>1, <2>2, <2>3
<1>4. ProcessTransactionRecord(d, t, b) = AddCredits(kept, t, b)
  BY DEF ProcessTransactionRecord
<1>. HIDE DEF kept
<1>. QED BY <1>1, <1>2, <1>3, <1>4, AddView DEF Good, View

LEMMA RollbackView ==
  ASSUME NEW d \in Stores
  PROVE  LET e == RollbackBlock(d)
             b == Last(d.chain) IN
         /\ e.chain = SubSeq(d.chain, 1, Len(d.chain) - 1) /\ e.marker = d.marker
         /\ \A x \in Block : Recorded(e, x) = IF x = b THEN {} ELSE Recorded(d, x)
<1>. DEFINE e == RollbackBlock(d)
            b == Last(d.chain)
<1>1. /\ e.chain = SubSeq(d.chain, 1, Len(d.chain) - 1) /\ e.marker = d.marker
      /\ e.records = d.records \ (Recorded(d, b) \X {b})
  BY DEF RollbackBlock, Stores
<1>. HIDE DEF e, b
<1>2. \A x \in Block : Recorded(e, x) = IF x = b THEN {} ELSE Recorded(d, x)
  BY <1>1 DEF Recorded
<1>. QED BY <1>1, <1>2 DEF e, b

-----------------------------------------------------------------------------
(* Which blocks have their transactions recorded *)

Full(d, x) == MinedTxs(x) \subseteq Recorded(d, x)

\* The main chain is the one to its tip, ...
Chained(d) == d.chain = ChainTo[Tip(d)]

\* ... and what it shares with the marker's is recorded.
Honest(d) == \A x \in Line(Tip(d)) \cap Line(d.marker) : Full(d, x)

\* The marker is on the main chain, or a session that started has left it.
Behind(d) ==
  \/ d.marker \in Line(Tip(d)) \cup {Genesis}
  \/ Tip(d) \in Fetched /\ Height(d.marker) < Height(Tip(d))

\* A block is recorded in the open database transaction, or is being so.
Doing(x) ==
  IF x = task.at THEN MinedTxs(x) \subseteq Recorded(db, x) \cup Elements(task.txs)
  ELSE Full(db, x)

\* How far a switch to b is: it rolls back to the fork, or attaches up to b.
Rolling(b) ==
  /\ Len(db.chain) <= Height(Tip(disk)) /\ db.chain = SubSeq(disk.chain, 1, Len(db.chain))
  /\ task.at = None /\ task.txs = <<>>
  /\ task.blocks = SubSeq(ChainTo[b], task.fork + 1, Height(b))
Attaching(b) ==
  /\ task.fork < Len(db.chain) /\ Len(db.chain) <= Height(b)
  /\ db.chain = SubSeq(ChainTo[b], 1, Len(db.chain))
  /\ task.at = Tip(db)
  /\ task.blocks = SubSeq(ChainTo[b], Len(db.chain) + 1, Height(b))

SwitchTo(b) ==
  /\ Height(b) > Height(Tip(disk))
  /\ task.fork = CommonHeight(ChainTo[b], disk.chain) /\ task.fork <= Len(db.chain)
  /\ Rolling(b) \/ Attaching(b)
  /\ Line(disk.marker) \cap Line(b) \subseteq Line(Tip(disk))
  /\ \/ phase = "headers" /\ ~task.found /\ b \in Fetched
     \/ phase = "up" /\ task.found /\ \A x \in Line(Tip(db)) : Doing(x)

SwitchInv == Switching => db.marker = disk.marker /\ \E b \in Block : SwitchTo(b)

SaveInv == task.op = "save" =>
  /\ db.marker = disk.marker /\ db.chain = disk.chain
  /\ \A x \in Block : Recorded(disk, x) \subseteq Recorded(db, x)
  /\ phase # "headers" /\ rescan.last # None

Idleness == task.op = "none" => Idle /\ db = disk

Phases ==
  /\ phase = "headers" => rescan = NoRescan
  /\ phase = "up" => disk.marker = Tip(disk)
  /\ phase = "rescan" => ~Switching /\ rescan.on
  /\ rescan.last = None => rescan.todo = <<>>
  /\ ~rescan.on => rescan = NoRescan

\* What the rescan of a session that starts has passed is recorded, listed or
\* being recorded.
Passed(x) ==
  \/ x \in Line(disk.marker) \/ Full(disk, x) \/ x \in Elements(rescan.todo)
  \/ task.op = "save" /\ (x \in Elements(task.blocks) \/ Doing(x))

Listed == phase = "rescan" =>
  IF rescan.last = None
  THEN /\ rescan.from \in Line(Tip(disk))
       /\ Height(rescan.from) <= MarkerHeight(disk) + IF rescan.inclusive THEN 1 ELSE 0
  ELSE rescan.last \in Line(Tip(disk)) /\ \A x \in Line(rescan.last) : Passed(x)

ChainInv ==
  /\ Chained(db) /\ Honest(db) /\ Chained(disk) /\ Honest(disk) /\ Behind(disk)

MInv == ChainInv /\ SwitchInv /\ SaveInv /\ Idleness /\ Phases /\ Listed

LEMMA ChainedFacts ==
  ASSUME NEW d \in Stores, Chained(d)
  PROVE  /\ Tip(d) \in Block /\ d.chain \in Chains /\ d.marker \in Block
         /\ d.chain = ChainTo[Tip(d)] /\ Len(d.chain) = Height(Tip(d))
         /\ DOMAIN d.chain = 1 .. Height(Tip(d))
         /\ \A x : InChain(d, x) <=> x \in Line(Tip(d))
         /\ MarkerHeight(d) \in Nat
         /\ MarkerHeight(d) <= Height(Tip(d)) /\ MarkerHeight(d) <= Height(d.marker)
         /\ \A z \in Line(Tip(d)) : z \in Line(d.marker) <=> Height(z) <= MarkerHeight(d)
         /\ RescanPoint(d) = None => MarkerHeight(d) = Height(Tip(d))
         /\ RescanPoint(d) # None => /\ RescanPoint(d) \in Line(Tip(d))
                                     /\ Height(RescanPoint(d)) = MarkerHeight(d) + 1
<1>1. Tip(d) \in Block /\ d.chain \in Chains /\ d.chain = ChainTo[Tip(d)] /\ d.marker \in Block
  BY TipTyped, FieldTypes DEF Chained
<1>2. Len(d.chain) = Height(Tip(d)) /\ DOMAIN d.chain = 1 .. Height(Tip(d))
  BY <1>1, LineFacts
<1>3. \A x : InChain(d, x) <=> x \in Line(Tip(d))
  BY <1>1, <1>2 DEF InChain, Line
<1>4. MarkerHeight(d) = CommonHeight(ChainTo[d.marker], ChainTo[Tip(d)])
  BY <1>1 DEF MarkerHeight
<1>5. /\ MarkerHeight(d) \in Nat
      /\ MarkerHeight(d) <= Height(Tip(d)) /\ MarkerHeight(d) <= Height(d.marker)
      /\ \A z \in Line(Tip(d)) : z \in Line(d.marker) <=> Height(z) <= MarkerHeight(d)
  BY <1>1, <1>4, Common
<1>6. RescanPoint(d) = IF MarkerHeight(d) = Height(Tip(d)) THEN None
                       ELSE ChainTo[Tip(d)][MarkerHeight(d) + 1]
  BY <1>1, <1>2 DEF RescanPoint
<1>7. MarkerHeight(d) # Height(Tip(d)) => MarkerHeight(d) + 1 \in 1 .. Height(Tip(d))
  BY <1>1, <1>5, LineFacts
<1>8. RescanPoint(d) = None => MarkerHeight(d) = Height(Tip(d))
  BY <1>1, <1>6, <1>7, LineFacts, Constants
<1>9. RescanPoint(d) # None => /\ RescanPoint(d) \in Line(Tip(d))
                               /\ Height(RescanPoint(d)) = MarkerHeight(d) + 1
  BY <1>1, <1>6, <1>7, LineFacts
<1>. QED BY <1>1, <1>2, <1>3, <1>5, <1>8, <1>9

\* A store whose chain is the beginning of the one to x.
LEMMA Prefix ==
  ASSUME NEW d \in Stores, NEW x \in Block, NEW n \in 0 .. Height(x),
         d.chain = SubSeq(ChainTo[x], 1, n)
  PROVE  /\ Chained(d) /\ Tip(d) \in Block /\ Len(d.chain) = n /\ Height(Tip(d)) = n
         /\ Line(Tip(d)) = {z \in Line(x) : Height(z) <= n}
         /\ n # 0 => Tip(d) = ChainTo[x][n] /\ Tip(d) \in Line(x)
<1>1. ChainTo[x] \in Chains /\ Height(x) = Len(ChainTo[x]) /\ Height(x) \in Nat
  BY LineFacts
<1>2. Len(d.chain) = n
  BY <1>1 DEF Chains
<1>3. CASE n = 0
  <2>1. d.chain = <<>>
    BY <1>1, <1>2, <1>3 DEF Chains
  <2>2. Tip(d) = Genesis /\ Chained(d)
    BY <2>1, TreeAssumption DEF Tip, Chained
  <2>3. \A z \in Line(x) : ~(Height(z) <= n)
    BY <1>3, InLine, LineFacts
  <2>. QED BY <1>2, <1>3, <2>2, <2>3, OfGenesis, Constants
<1>4. CASE n # 0
  <2>1. n \in 1 .. Height(x) /\ d.chain # <<>> /\ Last(d.chain) = ChainTo[x][n]
    BY <1>1, <1>2, <1>4 DEF Last, Chains
  <2>2. Tip(d) = ChainTo[x][n]
    BY <2>1 DEF Tip
  <2>3. /\ Tip(d) \in Line(x) /\ Height(Tip(d)) = n
        /\ ChainTo[Tip(d)] = SubSeq(ChainTo[x], 1, n)
    BY <2>1, <2>2, LineFacts
  <2>4. Line(Tip(d)) = {z \in Line(x) : Height(z) <= n} /\ Tip(d) \in Block
    BY <2>3, InLine
  <2>. QED BY <1>2, <2>2, <2>3, <2>4 DEF Chained
<1>. QED BY <1>3, <1>4

\* If no block is left to rescan, the marker is the tip.
LEMMA Caught ==
  ASSUME NEW d \in Stores, Chained(d), Behind(d), MarkerHeight(d) = Height(Tip(d))
  PROVE  d.marker = Tip(d)
<1>1. /\ Tip(d) \in Block /\ d.marker \in Block /\ Height(Tip(d)) \in Nat
      /\ Height(d.marker) \in Nat /\ Height(Tip(d)) <= Height(d.marker)
  BY ChainedFacts, LineFacts
<1>2. CASE d.marker \in Line(Tip(d))
  <2>1. Height(d.marker) = Height(Tip(d)) /\ Height(Tip(d)) # 0
    BY <1>1, <1>2, InLine
  <2>2. Tip(d) # Genesis
    BY <2>1, OfGenesis
  <2>. QED BY <1>1, <1>2, <2>1, <2>2, OwnLine, SameHeight
<1>3. CASE d.marker = Genesis
  BY <1>1, <1>3, OfGenesis, OwnLine
<1>. QED BY <1>1, <1>2, <1>3 DEF Behind

LEMMA AtTip ==
  ASSUME NEW d \in Stores, Chained(d), d.marker = Tip(d)
  PROVE  MarkerHeight(d) = Height(Tip(d)) /\ RescanPoint(d) = None
<1>1. Tip(d) \in Block /\ Height(Tip(d)) \in Nat
  BY ChainedFacts, LineFacts
<1>2. CASE Tip(d) = Genesis
  BY <1>1, <1>2, ChainedFacts, OfGenesis DEF RescanPoint
<1>3. CASE Tip(d) # Genesis
  <2>1. Height(Tip(d)) <= MarkerHeight(d)
    BY <1>1, <1>3, ChainedFacts, OwnLine
  <2>. QED BY <1>1, <2>1, ChainedFacts DEF RescanPoint
<1>. QED BY <1>2, <1>3

-----------------------------------------------------------------------------
(* Every step keeps that. *)

LEMMA Stored ==
  ASSUME IInv, IInv'
  PROVE  /\ db \in Stores /\ disk \in Stores /\ db' \in Stores /\ disk' \in Stores
         /\ Good(db) /\ Good(disk) /\ TaskInv /\ TaskInv'
         /\ phase \in {"headers", "rescan", "up"}
BY DEF IInv, StoreInv, Good, TaskInv

LEMMA SamePart ==
  ASSUME NEW d, NEW e, View(e, d)
  PROVE  /\ Tip(e) = Tip(d) /\ MarkerHeight(e) = MarkerHeight(d)
         /\ Chained(d) => Chained(e)
         /\ Honest(d) => Honest(e)
         /\ Behind(d) => Behind(e)
         /\ \A x : Recorded(e, x) = Recorded(d, x) /\ (Full(d, x) <=> Full(e, x))
BY DEF View, Tip, MarkerHeight, Chained, Honest, Behind, Recorded, Full

\* A step that changes neither chain nor records.
LEMMA SameView ==
  ASSUME MInv, View(db', db), View(disk', disk), UNCHANGED <<task, phase, rescan>>,
         Idle => db' = disk'
  PROVE  MInv'
<1>1. /\ Tip(db') = Tip(db) /\ Tip(disk') = Tip(disk)
      /\ MarkerHeight(disk') = MarkerHeight(disk)
      /\ Chained(db') /\ Honest(db') /\ Chained(disk') /\ Honest(disk') /\ Behind(disk')
      /\ \A x : Recorded(db', x) = Recorded(db, x) /\ (Full(db, x) <=> Full(db', x))
      /\ \A x : Recorded(disk', x) = Recorded(disk, x) /\ (Full(disk, x) <=> Full(disk', x))
  BY SamePart DEF MInv, ChainInv
<1>2. /\ db'.chain = db.chain /\ disk'.chain = disk.chain
      /\ db'.marker = db.marker /\ disk'.marker = disk.marker
  BY DEF View
<1>3. \A x : Doing(x)' <=> Doing(x)
  BY <1>1 DEF Doing, Full
<1>4. \A b : SwitchTo(b)' <=> SwitchTo(b)
  BY <1>1, <1>2, <1>3 DEF SwitchTo, Rolling, Attaching, Full
<1>5. SwitchInv'
  BY <1>2, <1>4 DEF MInv, SwitchInv, Switching
<1>6. SaveInv' /\ Idleness' /\ Phases'
  BY <1>1, <1>2 DEF MInv, SaveInv, Idleness, Phases, Switching, Idle
<1>7. \A x : Passed(x) => Passed(x)'
  BY <1>1, <1>2, <1>3 DEF Passed, Full
<1>8. Listed'
  BY <1>1, <1>7 DEF MInv, Listed
<1>9. ChainInv'
  BY <1>1 DEF ChainInv, Chained, Honest, Behind, Full
<1>. QED BY <1>5, <1>6, <1>8, <1>9 DEF MInv

\* The database transaction is rolled back.
LEMMA BackToDisk ==
  ASSUME MInv, RollBackTask,
         \/ UNCHANGED <<phase, rescan>> /\ phase # "rescan"
         \/ rescan' = NoRescan /\ phase' = "headers"
         \/ rescan' = NoRescan /\ phase = "up" /\ phase' = "up"
  PROVE  MInv'
<1>1. db' = disk /\ disk' = disk /\ task' = NoTask /\ task'.op = "none"
  BY DEF RollBackTask, NoTask
<1>2. ChainInv'
  BY <1>1 DEF MInv, ChainInv, Chained, Honest, Behind, Full
<1>3. SwitchInv' /\ SaveInv' /\ Idleness'
  BY <1>1 DEF SwitchInv, SaveInv, Idleness, Switching, Idle
<1>4. NoRescan.last = None /\ NoRescan.todo = <<>>
  BY DEF NoRescan
<1>5. Phases' /\ phase' # "rescan"
  BY <1>1, <1>4 DEF MInv, Phases, Switching
<1>. QED BY <1>2, <1>3, <1>5 DEF MInv, Listed

LEMMA RestartKeeps == ASSUME MInv, Restart PROVE MInv'
BY BackToDisk DEF Restart

LEMMA RefusedKeeps == ASSUME IInv, IInv', MInv, SaveRefused PROVE MInv'
<1>1. CASE Switching
  <2>1. phase # "rescan"
    BY <1>1 DEF MInv, Phases
  <2>. QED BY <1>1, <2>1, BackToDisk DEF SaveRefused
<1>2. CASE ~Switching
  BY <1>2, BackToDisk DEF SaveRefused, AfterFailedRescan
<1>. QED BY <1>1, <1>2

LEMMA AddKeeps ==
  ASSUME IInv, IInv', MInv, NEW t \in Tx, AddTransaction(t) \/ AbandonTransaction(t)
  PROVE  MInv'
<1>1. db \in Stores /\ Good(db)
  BY Stored
<1>2. StaleVotes(db, t) \in SUBSET Tx
  BY <1>1, FieldTypes, Constants DEF StaleVotes, DoubleSpends
<1>3. CASE AddTransaction(t)
  <2>. DEFINE e == RemoveUnconfirmed(db, StaleVotes(db, t))
  <2>1. e \in Stores /\ View(e, db)
    BY <1>1, <1>2, RemoveGood, RemoveView DEF Good
  <2>2. /\ Idle /\ db' = InsertMemPoolTx(e, t) /\ disk' = db' /\ task' = NoTask
        /\ UNCHANGED <<phase, rescan>>
    BY <1>3 DEF AddTransaction, Commit
  <2>. HIDE DEF e
  <2>3. View(db', db)
    BY <2>1, <2>2, InsertView DEF View
  <2>. QED BY <2>2, <2>3, SameView DEF MInv, Idleness, Idle, NoTask
<1>4. CASE AbandonTransaction(t)
  <2>1. /\ Idle /\ db' = RemoveUnconfirmed(db, {t}) /\ disk' = db' /\ task' = NoTask
        /\ UNCHANGED <<phase, rescan>>
    BY <1>4 DEF AbandonTransaction, Commit
  <2>2. View(db', db)
    BY <1>1, <2>1, RemoveView
  <2>. QED BY <2>1, <2>2, SameView DEF MInv, Idleness, Idle, NoTask
<1>. QED BY <1>3, <1>4

\* A switch begins with what is committed.
LEMMA SwitchKeeps ==
  ASSUME NoReturn, IInv, IInv', MInv, NEW b \in Block, ChainSwitch(b) PROVE MInv'
<1>1. /\ db = disk /\ Idle /\ UNCHANGED <<db, disk, phase, rescan>>
      /\ Chained(disk) /\ Honest(disk) /\ Behind(disk) /\ disk \in Stores
      /\ Tip(disk) \in Block /\ disk.marker \in Block
      /\ disk.chain = ChainTo[Tip(disk)] /\ Len(disk.chain) = Height(Tip(disk))
  BY Stored, ChainedFacts DEF ChainSwitch, MInv, Idleness, Idle, NoTask, ChainInv
<1>. DEFINE f == CommonHeight(ChainTo[b], disk.chain)
            r == SubSeq(ChainTo[b], f + 1, Len(ChainTo[b]))
            g == phase = "up" /\ RescanPoint(disk) = None
<1>2. /\ task' = [NoTask EXCEPT !.op = "switch", !.fork = f, !.blocks = r, !.found = g]
      /\ Len(ChainTo[b]) > Len(disk.chain)
      /\ \/ phase = "headers" /\ b \in Fetched
         \/ phase = "up"
  BY Zenon DEF ChainSwitch
<1>3. /\ task'.op = "switch" /\ task'.fork = f /\ task'.blocks = r /\ task'.found = g
      /\ task'.at = None /\ task'.txs = <<>>
  BY <1>2 DEF NoTask
<1>4. /\ Height(b) > Height(Tip(disk)) /\ Height(b) \in Nat /\ Height(b) = Len(ChainTo[b])
      /\ f \in Nat /\ f <= Height(Tip(disk)) /\ Height(Tip(disk)) \in Nat
  BY <1>1, <1>2, LineFacts, Common
<1>5. Line(disk.marker) \cap Line(b) \subseteq Line(Tip(disk))
  <2>1. CASE disk.marker \in Line(Tip(disk))
    BY <1>1, <2>1, LineGrows
  <2>2. CASE disk.marker = Genesis
    BY <2>2, OfGenesis
  <2>3. CASE Tip(disk) \in Fetched /\ Height(disk.marker) < Height(Tip(disk))
    <3>1. CASE phase = "up"
      BY <1>1, <3>1 DEF MInv, Phases
    <3>2. CASE phase = "headers"
      BY <1>1, <1>2, <1>4, <2>3, <3>2 DEF NoReturn
    <3>. QED BY <1>2, <3>1, <3>2
  <2>. QED BY <1>1, <2>1, <2>2, <2>3 DEF Behind
<1>6. phase = "up" => g /\ \A x \in Line(Tip(disk)) : Full(disk, x)
  BY <1>1, AtTip DEF MInv, Phases, Honest
<1>7. \A x \in Line(Tip(disk)) : x # None
  BY <1>1, LineFacts, Constants
<1>. HIDE DEF f, r, g
<1>8. Len(db'.chain) <= Height(Tip(disk)) /\ db'.chain = SubSeq(disk'.chain, 1, Len(db'.chain))
  BY <1>1, <1>4, FieldTypes DEF Chains
<1>9. SwitchTo(b)'
  <2>1. Rolling(b)'
    BY <1>1, <1>3, <1>4, <1>8 DEF Rolling, r
  <2>2. /\ Height(b) > Height(Tip(disk'))
        /\ task'.fork = CommonHeight(ChainTo[b], disk'.chain) /\ task'.fork <= Len(db'.chain)
        /\ Line(disk'.marker) \cap Line(b) \subseteq Line(Tip(disk'))
    BY <1>1, <1>3, <1>4, <1>5 DEF f
  <2>3. CASE phase = "up"
    <3>1. ASSUME NEW x \in Line(Tip(db')) PROVE Doing(x)'
      <4>1. db' = disk /\ x \in Line(Tip(disk))
        BY <1>1
      <4>2. Full(db', x) /\ x # task'.at
        BY <1>3, <1>6, <1>7, <2>3, <4>1
      <4>. QED BY <4>2 DEF Doing
    <3>. QED BY <1>1, <1>3, <1>6, <2>1, <2>2, <2>3, <3>1 DEF SwitchTo
  <2>4. CASE phase = "headers"
    BY <1>1, <1>2, <1>3, <2>1, <2>2, <2>4 DEF SwitchTo, g
  <2>. QED BY <1>2, <2>3, <2>4
<1>10. ChainInv'
  BY <1>1 DEF ChainInv, Chained, Honest, Behind, Full
<1>11. SwitchInv'
  BY <1>1, <1>9 DEF SwitchInv
<1>12. SaveInv' /\ Idleness'
  BY <1>3 DEF SaveInv, Idleness
<1>13. Phases' /\ Listed'
  BY <1>1, <1>2 DEF MInv, Phases, Listed
<1>. QED BY <1>10, <1>11, <1>12, <1>13 DEF MInv

\* A step within a switch to b.
LEMMA WithinSwitch ==
  ASSUME MInv, Switching, task'.op = "switch", UNCHANGED <<disk, phase, rescan>>,
         Chained(db)', Honest(db)', db'.marker = db.marker, NEW b \in Block, SwitchTo(b)'
  PROVE  MInv'
<1>1. ChainInv'
  BY DEF MInv, ChainInv, Chained, Honest, Behind, Full
<1>2. SwitchInv'
  BY DEF MInv, SwitchInv
<1>3. SaveInv' /\ Idleness' /\ phase # "rescan"
  BY DEF MInv, SaveInv, Idleness, Phases
<1>4. Phases' /\ Listed'
  BY <1>3 DEF MInv, Phases, Listed
<1>. QED BY <1>1, <1>2, <1>3, <1>4 DEF MInv

\* What a switch to b stands on.
LEMMA SwitchFacts ==
  ASSUME IInv, IInv', MInv, NEW b \in Block, SwitchTo(b)
  PROVE  /\ Tip(db) \in Block /\ db.chain = ChainTo[Tip(db)]
         /\ Len(db.chain) = Height(Tip(db)) /\ Height(Tip(db)) \in Nat
         /\ Tip(disk) \in Block /\ disk.chain = ChainTo[Tip(disk)]
         /\ Height(Tip(disk)) \in Nat /\ Height(Tip(disk)) < Height(b) /\ Height(b) \in Nat
         /\ Height(b) = Len(ChainTo[b]) /\ ChainTo[b] \in Chains
         /\ disk.marker \in Block
         /\ task.fork \in Nat /\ task.fork <= Height(Tip(disk)) /\ task.fork <= Len(db.chain)
         /\ \A z \in Line(b) : z \in Line(Tip(disk)) <=> Height(z) <= task.fork
         /\ SubSeq(disk.chain, 1, task.fork) = SubSeq(ChainTo[b], 1, task.fork)
<1>1. db \in Stores /\ disk \in Stores
  BY Stored
<1>2. Chained(db) /\ Chained(disk)
  BY DEF MInv, ChainInv
<1>3. /\ Tip(db) \in Block /\ db.chain = ChainTo[Tip(db)] /\ Len(db.chain) = Height(Tip(db))
      /\ Tip(disk) \in Block /\ disk.chain = ChainTo[Tip(disk)] /\ disk.marker \in Block
  BY <1>1, <1>2, ChainedFacts
<1>4. /\ Height(Tip(db)) \in Nat /\ Height(Tip(disk)) \in Nat /\ Height(b) \in Nat
      /\ Height(b) = Len(ChainTo[b]) /\ ChainTo[b] \in Chains
  BY <1>3, LineFacts
<1>5. /\ Height(Tip(disk)) < Height(b)
      /\ task.fork = CommonHeight(ChainTo[b], ChainTo[Tip(disk)])
      /\ task.fork <= Len(db.chain)
  BY <1>3, <1>4 DEF SwitchTo
<1>. QED BY <1>3, <1>4, <1>5, Common

LEMMA RollbackKeeps == ASSUME IInv, IInv', MInv, Rollback PROVE MInv'
<1>1. /\ Switching /\ Len(db.chain) > task.fork /\ task.at = None
      /\ db' = RollbackBlock(db) /\ UNCHANGED <<disk, phase, rescan>>
      /\ task' = [task EXCEPT !.orphaned = task.orphaned \cup CoinbaseOutputs(db)]
  BY DEF Rollback, Write
<1>2. /\ db.marker = disk.marker /\ db \in Stores /\ db' \in Stores /\ task \in Tasks
      /\ disk \in Stores
  BY <1>1, Stored DEF MInv, SwitchInv, TaskInv
<1>3. PICK b \in Block : SwitchTo(b)
  BY <1>1 DEF MInv, SwitchInv
<1>4. /\ task'.op = task.op /\ task'.fork = task.fork /\ task'.blocks = task.blocks
      /\ task'.txs = task.txs /\ task'.at = task.at /\ task'.found = task.found
  BY <1>1, <1>2 DEF Tasks
<1>. DEFINE n == Len(db.chain)
            x == Last(db.chain)
<1>5. /\ db'.chain = SubSeq(db.chain, 1, n - 1) /\ db'.marker = db.marker
      /\ \A z \in Block : Recorded(db', z) = IF z = x THEN {} ELSE Recorded(db, z)
  BY <1>1, <1>2, RollbackView
<1>6. /\ Rolling(b) /\ n \in Nat /\ n > task.fork /\ task.fork \in Nat
      /\ n <= Height(Tip(disk)) /\ Tip(db) \in Block /\ n = Height(Tip(db))
      /\ db.chain = ChainTo[Tip(db)] /\ disk.chain = ChainTo[Tip(disk)]
  <2>1. Rolling(b)
    BY <1>1, <1>3, SwitchFacts, Constants DEF SwitchTo, Attaching
  <2>. QED BY <1>1, <1>3, <2>1, SwitchFacts DEF Rolling
<1>7. x = Tip(db) /\ n # 0
  BY <1>6, Constants, LineFacts DEF Tip, Chains
<1>8. n - 1 \in 0 .. Height(Tip(db))
  BY <1>6
<1>9. /\ Chained(db') /\ Len(db'.chain) = n - 1
      /\ Line(Tip(db')) = {z \in Line(Tip(db)) : Height(z) <= n - 1}
  BY <1>2, <1>5, <1>6, <1>8, Prefix
<1>10. \A z \in Line(Tip(db')) : z \in Line(Tip(db)) /\ z # x /\ z \in Block
  BY <1>6, <1>7, <1>9, LineFacts
<1>11. \A z \in Line(Tip(db')) : Recorded(db', z) = Recorded(db, z)
  BY <1>5, <1>10
<1>12. Honest(db')
  BY <1>2, <1>5, <1>10, <1>11 DEF MInv, ChainInv, Honest, Full
<1>13. db'.chain = SubSeq(disk.chain, 1, n - 1)
  <2>1. disk.chain \in Chains /\ db.chain = SubSeq(disk.chain, 1, n) /\ n <= Len(disk.chain)
    BY <1>2, <1>6, FieldTypes, LineFacts, ChainedFacts DEF Rolling, MInv, ChainInv
  <2>. HIDE DEF n
  <2>. QED BY <1>5, <1>6, <1>7, <2>1 DEF Chains
<1>14. SwitchTo(b)'
  <2>1. Rolling(b)'
    <3>. HIDE DEF n
    <3>1. n - 1 <= Height(Tip(disk))
      BY <1>6, <1>2, SwitchFacts, <1>3
    <3>2. /\ Len(db'.chain) <= Height(Tip(disk'))
          /\ db'.chain = SubSeq(disk'.chain, 1, Len(db'.chain))
      BY <1>1, <1>9, <1>13, <3>1
    <3>. QED BY <1>1, <1>4, <1>6, <3>2 DEF Rolling
  <2>2. \A z \in Line(Tip(db')) : Doing(z) => Doing(z)'
    BY <1>4, <1>11 DEF Doing, Full
  <2>3. n - 1 >= task.fork
    BY <1>6
  <2>. HIDE DEF n
  <2>. QED BY <1>1, <1>3, <1>4, <1>9, <1>10, <2>1, <2>2, <2>3 DEF SwitchTo
<1>. QED BY <1>1, <1>4, <1>5, <1>9, <1>12, <1>14, WithinSwitch DEF Switching

LEMMA RollbackEndKeeps == ASSUME IInv, IInv', MInv, RollbackEnd PROVE MInv'
<1>1. /\ Switching /\ db' = RemoveUnconfirmed(db, SpendersOf(db, task.orphaned))
      /\ UNCHANGED <<disk, phase, rescan>> /\ task' = [task EXCEPT !.orphaned = {}]
  BY DEF RollbackEnd, Write
<1>2. db.marker = disk.marker /\ db \in Stores /\ task \in Tasks
  BY <1>1, Stored DEF MInv, SwitchInv, TaskInv
<1>3. PICK b \in Block : SwitchTo(b)
  BY <1>1 DEF MInv, SwitchInv
<1>4. /\ task'.op = task.op /\ task'.fork = task.fork /\ task'.blocks = task.blocks
      /\ task'.txs = task.txs /\ task'.at = task.at /\ task'.found = task.found
  BY <1>1, <1>2 DEF Tasks
<1>5. View(db', db)
  BY <1>1, <1>2, RemoveView
<1>6. /\ Tip(db') = Tip(db) /\ Chained(db') /\ Honest(db')
      /\ db'.chain = db.chain /\ db'.marker = db.marker
      /\ \A x : Recorded(db', x) = Recorded(db, x)
  BY <1>5, SamePart DEF MInv, ChainInv, View
<1>7. \A x : Doing(x) => Doing(x)'
  BY <1>4, <1>6 DEF Doing, Full
<1>8. SwitchTo(b)'
  BY <1>1, <1>3, <1>4, <1>6, <1>7 DEF SwitchTo, Rolling, Attaching
<1>. QED BY <1>1, <1>4, <1>6, <1>8, WithinSwitch DEF Switching

LEMMA AttachKeeps == ASSUME IInv, IInv', MInv, AttachBlock PROVE MInv'
<1>. DEFINE n == Len(db.chain)
            x == Head(task.blocks)
<1>1. /\ Switching /\ task.txs = <<>> /\ task.blocks # <<>>
      /\ task.at = None => n = task.fork
      /\ db' = ExtendMainChain(db, x) /\ UNCHANGED <<disk, phase, rescan>>
      /\ task' = [task EXCEPT !.at = x, !.blocks = Tail(task.blocks),
                              !.txs = IF task.found THEN TxsOf[x] ELSE <<>>]
  BY DEF AttachBlock, Write
<1>2. /\ db.marker = disk.marker /\ db \in Stores /\ db' \in Stores /\ task \in Tasks
      /\ disk \in Stores /\ Good(db)
  BY <1>1, Stored DEF MInv, SwitchInv, TaskInv
<1>3. PICK b \in Block : SwitchTo(b)
  BY <1>1 DEF MInv, SwitchInv
<1>4. /\ task'.op = task.op /\ task'.fork = task.fork /\ task'.blocks = Tail(task.blocks)
      /\ task'.txs = (IF task.found THEN TxsOf[x] ELSE <<>>) /\ task'.at = x
      /\ task'.found = task.found
  BY <1>1, <1>2 DEF Tasks
<1>5. /\ Tip(db) \in Block /\ db.chain = ChainTo[Tip(db)] /\ n = Height(Tip(db)) /\ n \in Nat
      /\ Height(b) = Len(ChainTo[b]) /\ ChainTo[b] \in Chains /\ Height(b) \in Nat
      /\ task.fork \in Nat /\ task.fork <= n
      /\ \A z \in Line(b) : z \in Line(Tip(disk)) <=> Height(z) <= task.fork
  BY <1>3, SwitchFacts
<1>6. /\ n <= Height(b) /\ db.chain = SubSeq(ChainTo[b], 1, n)
      /\ task.blocks = SubSeq(ChainTo[b], n + 1, Height(b))
  <2>1. CASE Rolling(b)
    <3>1. n = task.fork /\ db.chain = SubSeq(disk.chain, 1, n)
      BY <1>1, <2>1 DEF Rolling
    <3>. QED BY <1>3, <2>1, <3>1, SwitchFacts DEF Rolling
  <2>2. CASE Attaching(b)
    BY <2>2 DEF Attaching
  <2>. QED BY <1>3, <2>1, <2>2 DEF SwitchTo
<1>. HIDE DEF n
<1>7. n + 1 \in 1 .. Height(b) /\ n \in 0 .. Height(b)
  BY <1>1, <1>5, <1>6 DEF Chains
<1>8. x = ChainTo[b][n + 1] /\ Tail(task.blocks) = SubSeq(ChainTo[b], n + 2, Height(b))
  <2>1. ChainTo[b] \in Seq(Block \ {Genesis}) /\ n + 1 \in 1 .. Len(ChainTo[b])
    BY <1>5, <1>7 DEF Chains
  <2>2. task.blocks = SubSeq(ChainTo[b], n + 1, Len(ChainTo[b])) /\ (n + 1) + 1 = n + 2
    BY <1>5, <1>6
  <2>3. Len(ChainTo[b]) \in n + 1 .. Len(ChainTo[b])
    BY <2>1
  <2>4. /\ Head(SubSeq(ChainTo[b], n + 1, Len(ChainTo[b]))) = ChainTo[b][n + 1]
        /\ Tail(SubSeq(ChainTo[b], n + 1, Len(ChainTo[b])))
             = SubSeq(ChainTo[b], (n + 1) + 1, Len(ChainTo[b]))
    BY <2>1, <2>3, HeadTailOfSubSeq
  <2>. QED BY <1>5, <2>2, <2>4
<1>9. x \in Block \ {Genesis} /\ Height(x) = n + 1 /\ x \in Line(b)
  BY <1>7, <1>8, LineFacts
<1>10. /\ db'.chain = Append(db.chain, x) /\ db'.marker = db.marker
       /\ \A z : Recorded(db', z) = Recorded(db, z)
  BY <1>1, <1>2, <1>9, ExtendView DEF Recorded
<1>11. db'.chain = SubSeq(ChainTo[b], 1, n + 1)
  <2>. DEFINE w == ChainTo[b]
  <2>1. /\ w \in Seq(Block \ {Genesis}) /\ n + 1 \in 1 .. Len(w) /\ n \in 0 .. Len(w)
        /\ db'.chain = Append(SubSeq(w, 1, n), w[n + 1])
    BY <1>5, <1>6, <1>7, <1>8, <1>10 DEF Chains
  <2>. HIDE DEF w
  <2>2. Append(SubSeq(w, 1, n), w[n + 1]) = SubSeq(w, 1, n + 1)
    BY <2>1
  <2>. QED BY <2>1, <2>2 DEF w
<1>12. /\ Chained(db') /\ Len(db'.chain) = n + 1 /\ Tip(db') = x
       /\ Line(Tip(db')) = {z \in Line(b) : Height(z) <= n + 1}
  <2>1. n + 1 \in 0 .. Height(b) /\ n + 1 # 0
    BY <1>5, <1>7
  <2>. QED BY <1>2, <1>8, <1>11, <2>1, Prefix
<1>13. Line(Tip(db)) = {z \in Line(b) : Height(z) <= n}
  BY <1>2, <1>6, <1>7, Prefix
<1>14. Honest(db')
  <2>1. ASSUME NEW z \in Line(Tip(db')) \cap Line(db'.marker) PROVE Full(db', z)
    <3>1. z \in Line(b) \cap Line(disk.marker)
      BY <1>2, <1>10, <1>12, <2>1
    <3>2. z \in Line(Tip(disk))
      BY <1>3, <3>1 DEF SwitchTo
    <3>3. Height(z) <= n
      BY <1>5, <3>1, <3>2, LineFacts, InLine
    <3>4. Full(db, z)
      BY <1>2, <1>10, <1>13, <2>1, <3>1, <3>3 DEF MInv, ChainInv, Honest
    <3>. QED BY <1>10, <3>4 DEF Full
  <2>. QED BY <2>1 DEF Honest
<1>15. task.found => \A z \in Line(Tip(db')) : Doing(z)'
  <2>. SUFFICES ASSUME task.found, NEW z \in Line(Tip(db')) PROVE Doing(z)'
    OBVIOUS
  <2>1. CASE z = x
    <3>1. MinedTxs(x) = Elements(TxsOf[x])
      BY <1>9, Constants DEF MinedTxs, Elements
    <3>. QED BY <1>4, <2>1, <3>1 DEF Doing
  <2>2. CASE z # x
    <3>1. z \in Line(b) /\ Height(z) \in Nat /\ Height(z) # n + 1 /\ Height(z) <= n + 1
      BY <1>9, <1>12, <2>2, InLine, SameHeight
    <3>2. z \in Line(Tip(db))
      BY <1>5, <1>13, <3>1
    <3>3. Doing(z)
      BY <1>3, <3>2 DEF SwitchTo
    <3>4. Elements(<<>>) = {}
      BY DEF Elements
    <3>5. Full(db, z)
      BY <1>1, <3>3, <3>4 DEF Doing, Full
    <3>. QED BY <1>4, <1>10, <2>2, <3>5 DEF Doing, Full
  <2>. QED BY <2>1, <2>2
<1>16. Attaching(b)'
  <2>1. n + 1 > task.fork /\ n + 1 <= Height(b) /\ n + 2 = (n + 1) + 1
    BY <1>5, <1>7
  <2>. HIDE DEF x
  <2>. QED BY <1>4, <1>8, <1>11, <1>12, <2>1 DEF Attaching
<1>17. SwitchTo(b)'
  BY <1>1, <1>3, <1>4, <1>5, <1>12, <1>15, <1>16 DEF SwitchTo
<1>. QED BY <1>1, <1>4, <1>10, <1>12, <1>14, <1>17, WithinSwitch DEF Switching

LEMMA SaveTxKeeps == ASSUME IInv, IInv', MInv, SaveTx PROVE MInv'
<1>. DEFINE t == Head(task.txs)
            x == task.at
<1>1. /\ task.txs # <<>> /\ ~Refused(db, t, x)
      /\ db' = ProcessTransactionRecord(db, t, x) /\ UNCHANGED <<disk, phase, rescan>>
      /\ task' = [task EXCEPT !.txs = Tail(task.txs)]
  BY DEF SaveTx, Write
<1>2. /\ db \in Stores /\ db' \in Stores /\ task \in Tasks /\ Good(db)
      /\ task.txs \in Seq(Tx)
  BY Stored, TaskFields DEF TaskInv
<1>3. /\ task'.op = task.op /\ task'.fork = task.fork /\ task'.blocks = task.blocks
      /\ task'.txs = Tail(task.txs) /\ task'.at = task.at /\ task'.found = task.found
  BY <1>1, <1>2 DEF Tasks
<1>4. t \in Tx /\ x \in Block \ {Genesis}
  BY <1>1, <1>2, Parts, InChainTyped DEF Refused
<1>5. /\ db'.chain = db.chain /\ db'.marker = db.marker
      /\ db'.records = db.records \cup {<<t, x>>}
  BY <1>1, <1>2, <1>4, ProcessView
<1>6. /\ \A z : Recorded(db, z) \subseteq Recorded(db', z)
      /\ t \in Recorded(db', x)
      /\ \A z : Full(db, z) => Full(db', z)
  BY <1>4, <1>5 DEF Recorded, Full
<1>7. Tip(db') = Tip(db)
  BY <1>5 DEF Tip
<1>8. Elements(task.txs) \subseteq {t} \cup Elements(Tail(task.txs))
  <2>1. ASSUME NEW i \in 1 .. Len(task.txs), i # 1
        PROVE  task.txs[i] \in Elements(Tail(task.txs))
    <3>1. i - 1 \in 1 .. Len(Tail(task.txs)) /\ Tail(task.txs)[i - 1] = task.txs[i]
      BY <1>1, <1>2, <2>1
    <3>. QED BY <3>1 DEF Elements
  <2>2. task.txs[1] = t
    BY <1>1, <1>2
  <2>. QED BY <2>1, <2>2 DEF Elements
<1>9. \A z : Doing(z) => Doing(z)'
  BY <1>3, <1>6, <1>8 DEF Doing
<1>10. Chained(db') /\ Honest(db') /\ task.op # "none"
  BY <1>1, <1>5, <1>6, <1>7 DEF MInv, ChainInv, Chained, Honest, Idleness, Idle, NoTask
<1>11. CASE Switching
  <2>1. PICK b \in Block : SwitchTo(b)
    BY <1>11 DEF MInv, SwitchInv
  <2>2. db'.chain = db.chain /\ ~Rolling(b)
    BY <1>1, <1>5 DEF Rolling
  <2>3. Attaching(b)'
    BY <1>3, <1>7, <2>1, <2>2 DEF SwitchTo, Attaching
  <2>4. SwitchTo(b)'
    BY <1>1, <1>3, <1>7, <1>9, <2>1, <2>2, <2>3 DEF SwitchTo
  <2>. QED BY <1>1, <1>3, <1>5, <1>10, <1>11, <2>4, WithinSwitch DEF Switching
<1>12. CASE ~Switching
  <2>1. ChainInv'
    BY <1>1, <1>10 DEF MInv, ChainInv, Chained, Honest, Behind, Full
  <2>2. SwitchInv' /\ Idleness'
    BY <1>3, <1>10, <1>12 DEF SwitchInv, Idleness, Switching
  <2>3. SaveInv'
    BY <1>1, <1>3, <1>5, <1>6 DEF MInv, SaveInv
  <2>4. Phases'
    BY <1>1, <1>3 DEF MInv, Phases, Switching
  <2>5. \A z : Passed(z) => Passed(z)'
    BY <1>1, <1>3, <1>9 DEF Passed, Full
  <2>6. Listed'
    BY <1>1, <2>5 DEF MInv, Listed
  <2>. QED BY <2>1, <2>2, <2>3, <2>4, <2>6 DEF MInv
<1>. QED BY <1>11, <1>12

LEMMA CommonTwice == \A c, e : CommonHeight(c, e) = CommonHeight(e, c)
<1>1. ASSUME NEW c, NEW e PROVE CommonHeight(c, e) = CommonHeight(e, c)
  <2>1. {i \in DOMAIN c \cap DOMAIN e : c[i] = e[i]}
          = {i \in DOMAIN e \cap DOMAIN c : e[i] = c[i]}
    OBVIOUS
  <2>. QED BY <2>1 DEF CommonHeight
<1>. QED BY <1>1

\* What a step commits, the next database transaction begins with.
LEMMA Committed ==
  ASSUME NEW d \in Stores, Commit(d), UNCHANGED <<phase, rescan>>, phase # "rescan",
         Chained(d), Honest(d), Behind(d), phase = "up" => d.marker = Tip(d), MInv
  PROVE  MInv'
<1>1. db' = d /\ disk' = d /\ task' = NoTask /\ task'.op = "none" /\ Idle'
  BY DEF Commit, NoTask, Idle
<1>2. ChainInv'
  BY <1>1 DEF ChainInv, Chained, Honest, Behind, Full
<1>3. SwitchInv' /\ SaveInv' /\ Idleness' /\ Listed'
  BY <1>1 DEF SwitchInv, SaveInv, Idleness, Switching, Listed
<1>4. Phases'
  BY <1>1 DEF MInv, Phases
<1>. QED BY <1>2, <1>3, <1>4 DEF MInv

LEMMA SwitchEndKeeps == ASSUME IInv, IInv', MInv, SwitchEnd PROVE MInv'
<1>. DEFINE nogap == MarkerHeight(db) + 2 >= task.fork + 1
            m == IF task.found /\ nogap
                 THEN UpdateProcessedTxsBlockMarker(db, Tip(db)) ELSE db
            e == PruneUnmined(m)
<1>1. /\ Switching /\ task.blocks = <<>> /\ task.txs = <<>> /\ Commit(e)
      /\ UNCHANGED <<phase, rescan>>
  BY DEF SwitchEnd
<1>2. /\ db.marker = disk.marker /\ db \in Stores /\ Good(db) /\ phase # "rescan"
      /\ Chained(db) /\ Honest(db) /\ Behind(disk) /\ disk \in Stores
      /\ Chained(disk)
  BY <1>1, Stored DEF MInv, SwitchInv, ChainInv, Phases
<1>3. PICK b \in Block : SwitchTo(b)
  BY <1>1 DEF MInv, SwitchInv
<1>4. /\ Tip(db) \in Block /\ db.chain = ChainTo[Tip(db)] /\ Len(db.chain) = Height(Tip(db))
      /\ Tip(disk) \in Block /\ disk.chain = ChainTo[Tip(disk)]
      /\ Height(b) = Len(ChainTo[b]) /\ ChainTo[b] \in Chains /\ Height(b) \in Nat
      /\ Height(Tip(disk)) \in Nat /\ Height(Tip(disk)) < Height(b)
      /\ task.fork \in Nat /\ task.fork <= Height(Tip(disk))
      /\ disk.marker \in Block
  BY <1>3, SwitchFacts
<1>5. ASSUME NEW n \in Nat, n < Height(b), task.blocks = SubSeq(ChainTo[b], n + 1, Height(b))
      PROVE  FALSE
  <2>1. Len(SubSeq(ChainTo[b], n + 1, Height(b))) = Height(b) - n
    BY <1>4, <1>5 DEF Chains
  <2>. QED BY <1>1, <1>4, <1>5, <2>1
<1>6. Attaching(b) /\ Len(db.chain) = Height(b)
  <2>1. ~Rolling(b)
    <3>1. task.fork \in Nat /\ task.fork < Height(b)
      BY <1>4
    <3>2. task.blocks # SubSeq(ChainTo[b], task.fork + 1, Height(b))
      BY <1>5, <3>1
    <3>. QED BY <3>2 DEF Rolling
  <2>2. Attaching(b) /\ Len(db.chain) \in Nat
    BY <1>3, <1>4, <2>1, LineFacts DEF SwitchTo
  <2>. QED BY <1>4, <1>5, <2>2 DEF Attaching
<1>7. db.chain = ChainTo[b] /\ b # Genesis
  BY <1>4, <1>6, OfGenesis DEF Attaching, Chains
<1>8. Tip(db) = b
  BY <1>7, TreeAssumption DEF Tip, Last
<1>9. b \in Line(b)
  BY <1>7, OwnLine
<1>10. m \in Stores /\ View(e, m) /\ e \in Stores
  <2>1. Good(UpdateProcessedTxsBlockMarker(db, Tip(db)))
    BY <1>2, <1>4, MarkerGood
  <2>2. Good(m)
    BY <1>2, <2>1
  <2>. HIDE DEF m
  <2>. QED BY <2>2, PruneGood, PruneView DEF Good
<1>11. CASE ~task.found
  <2>1. m = db /\ phase = "headers" /\ b \in Fetched
    BY <1>3, <1>11 DEF SwitchTo
  <2>2. Behind(db)
    <3>1. disk.marker \notin Line(Tip(disk)) \cup {Genesis} =>
            Height(disk.marker) < Height(b)
      BY <1>2, <1>4, LineFacts DEF Behind
    <3>2. disk.marker \in Line(Tip(disk)) => Height(disk.marker) < Height(b)
      BY <1>4, InLine
    <3>. QED BY <1>2, <1>8, <2>1, <3>1, <3>2 DEF Behind
  <2>. HIDE DEF e, m
  <2>3. Chained(e) /\ Honest(e) /\ Behind(e)
    BY <1>2, <1>10, <2>1, <2>2, SamePart
  <2>. QED BY <1>1, <1>2, <1>10, <2>1, <2>3, Committed
<1>12. CASE task.found
  <2>1. phase = "up" /\ disk.marker = Tip(disk)
    BY <1>3, <1>12 DEF SwitchTo, MInv, Phases
  <2>2. MarkerHeight(db) = task.fork
    BY <1>2, <1>3, <1>4, <1>7, <2>1, CommonTwice DEF MarkerHeight, SwitchTo
  <2>3. nogap
    BY <1>4, <2>2
  <2>4. m = UpdateProcessedTxsBlockMarker(db, b)
    BY <1>8, <1>12, <2>3
  <2>5. Height(b) > MarkerHeight(db)
    BY <1>4, <2>2
  <2>6. m.chain = db.chain /\ m.records = db.records /\ m.marker = b
    BY <1>2, <2>4, <2>5, MarkerView
  <2>7. Tip(m) = b /\ Chained(m)
    BY <1>2, <1>8, <2>6 DEF Tip, Chained
  <2>8. Elements(<<>>) = {}
    BY DEF Elements
  <2>9. \A z \in Line(b) : Full(m, z)
    BY <1>1, <1>3, <1>8, <1>12, <2>6, <2>8 DEF SwitchTo, Doing, Full, Recorded
  <2>10. Honest(m) /\ Behind(m)
    BY <1>9, <2>6, <2>7, <2>9 DEF Honest, Behind
  <2>. HIDE DEF e, m
  <2>11. Chained(e) /\ Honest(e) /\ Behind(e) /\ e.marker = Tip(e)
    BY <1>10, <2>6, <2>7, <2>10, SamePart DEF View
  <2>. QED BY <1>1, <1>2, <1>10, <2>11, Committed
<1>. QED BY <1>11, <1>12

\* The headers are in: what is left to rescan begins above the marker.
LEMMA HeadersKeeps == ASSUME IInv, IInv', MInv, HeadersEnd PROVE MInv'
<1>1. /\ Idle /\ UNCHANGED <<db, disk, task>> /\ phase = "headers"
      /\ IF RescanPoint(disk) = None
         THEN phase' = "up" /\ UNCHANGED rescan
         ELSE /\ phase' = "rescan"
              /\ rescan' = [NoRescan EXCEPT
                   !.on = TRUE, !.from = RescanPoint(disk), !.inclusive = TRUE]
  BY Zenon DEF HeadersEnd
<1>2. /\ disk \in Stores /\ Chained(disk) /\ Behind(disk) /\ db = disk
      /\ task.op = "none" /\ rescan = NoRescan
  BY <1>1, Stored DEF MInv, ChainInv, Idleness, Idle, NoTask, Phases
<1>3. ChainInv'
  BY <1>1 DEF MInv, ChainInv, Chained, Honest, Behind, Full
<1>4. SwitchInv' /\ SaveInv' /\ Idleness'
  BY <1>1, <1>2 DEF SwitchInv, SaveInv, Idleness, Switching, Idle
<1>5. Phases' /\ Listed'
  <2>1. CASE RescanPoint(disk) = None
    <3>1. disk.marker = Tip(disk)
      BY <1>2, <2>1, ChainedFacts, Caught
    <3>. QED BY <1>1, <1>2, <2>1, <3>1 DEF Phases, Listed, NoRescan
  <2>2. CASE RescanPoint(disk) # None
    <3>1. /\ rescan'.on = TRUE /\ rescan'.from = RescanPoint(disk) /\ rescan'.inclusive = TRUE
          /\ rescan'.last = None /\ rescan'.todo = <<>>
      BY <1>1, <2>2 DEF NoRescan
    <3>2. /\ RescanPoint(disk) \in Line(Tip(disk))
          /\ Height(RescanPoint(disk)) = MarkerHeight(disk) + 1
          /\ MarkerHeight(disk) \in Nat
      BY <1>2, <2>2, ChainedFacts
    <3>3. Phases'
      BY <1>1, <1>2, <2>2, <3>1 DEF Phases, Switching
    <3>4. Listed'
      BY <1>1, <3>1, <3>2 DEF Listed
    <3>. QED BY <3>3, <3>4
  <2>. QED BY <2>1, <2>2
<1>. QED BY <1>3, <1>4, <1>5 DEF MInv

\* A step of the rescan, or of its session, that writes nothing.
LEMMA NothingWritten ==
  ASSUME MInv, UNCHANGED <<db, disk, task>>, task.op # "save", phase' # "headers",
         Phases', Listed', phase = "headers" => task.op = "none",
         phase = "rescan" \/ phase' = phase
  PROVE  MInv'
<1>1. ChainInv'
  BY DEF MInv, ChainInv, Chained, Honest, Behind, Full
<1>2. ASSUME Switching PROVE phase' = phase
  BY <1>2 DEF MInv, Phases
<1>3. SwitchInv'
  BY <1>2 DEF MInv, SwitchInv, SwitchTo, Rolling, Attaching, Doing, Full, Switching
<1>4. SaveInv' /\ Idleness'
  BY DEF MInv, SaveInv, Idleness, Idle
<1>. QED BY <1>1, <1>3, <1>4 DEF MInv

LEMMA RescanFromKeeps ==
  ASSUME MInv, NEW b \in Block, RescanFrom(b) PROVE MInv'
<1>1. /\ UNCHANGED <<db, disk, task, phase>> /\ phase = "up" /\ ~rescan.on
      /\ rescan' = [NoRescan EXCEPT !.on = TRUE, !.from = b, !.inclusive = TRUE]
  BY Zenon DEF RescanFrom
<1>2. rescan'.on = TRUE /\ rescan'.todo = <<>> /\ rescan = NoRescan
  BY <1>1 DEF NoRescan, MInv, Phases
<1>3. task.op # "save"
  BY <1>2 DEF MInv, SaveInv, NoRescan
<1>4. Phases' /\ Listed'
  BY <1>1, <1>2 DEF MInv, Phases, Listed, Switching
<1>. QED BY <1>1, <1>3, <1>4, NothingWritten

LEMMA RescanFailsKeeps == ASSUME MInv, RescanFails PROVE MInv'
<1>1. /\ UNCHANGED <<db, disk, task>> /\ rescan.on /\ rescan' = NoRescan
      /\ phase' = AfterFailedRescan
      /\ rescan.last = None \/ Idle
  BY Zenon DEF RescanFails
<1>2. task.op # "save" /\ rescan'.last = None /\ rescan'.todo = <<>>
  BY <1>1 DEF MInv, SaveInv, Idle, NoTask, NoRescan
<1>3. phase # "headers"
  BY <1>1 DEF MInv, Phases, NoRescan
<1>4. Phases' /\ Listed'
  BY <1>1, <1>2 DEF MInv, Phases, Listed, Switching, AfterFailedRescan
<1>5. ChainInv'
  BY <1>1 DEF MInv, ChainInv, Chained, Honest, Behind, Full
<1>6. ASSUME Switching PROVE phase = "up" /\ phase' = "up"
  <2>1. PICK b \in Block : SwitchTo(b)
    BY <1>6 DEF MInv, SwitchInv
  <2>. QED BY <1>1, <1>3, <2>1 DEF SwitchTo, AfterFailedRescan
<1>7. SwitchInv'
  BY <1>1, <1>6 DEF MInv, SwitchInv, SwitchTo, Rolling, Attaching, Doing, Full, Switching
<1>8. SaveInv' /\ Idleness'
  BY <1>1, <1>2 DEF MInv, SaveInv, Idleness, Idle
<1>. QED BY <1>4, <1>5, <1>7, <1>8 DEF MInv

\* What is listed begins where the marker ends, or before.
LEMMA ListKeeps == ASSUME IInv, IInv', MInv, ListBlocks PROVE MInv'
<1>. DEFINE f == Height(rescan.from) + IF rescan.inclusive THEN 0 ELSE 1
            m == IF Len(disk.chain) < f + MaxBlocksPerRescan - 1
                 THEN Len(disk.chain) ELSE f + MaxBlocksPerRescan - 1
            B == SubSeq(disk.chain, f, m)
<1>1. /\ UNCHANGED <<db, disk, task>> /\ rescan.on /\ rescan.last = None
      /\ InChain(disk, rescan.from)
      /\ \/ B = <<>> /\ rescan' = NoRescan /\ phase' = "up"
         \/ /\ B # <<>> /\ UNCHANGED phase
            /\ rescan' = [rescan EXCEPT !.todo = B, !.last = Last(B)]
  BY Zenon DEF ListBlocks
<1>2. /\ task.op # "save" /\ phase # "headers" /\ rescan \in Rescans
      /\ disk \in Stores /\ Chained(disk) /\ Behind(disk)
  BY <1>1, Stored DEF MInv, SaveInv, Phases, NoRescan, TaskInv, ChainInv
<1>3. /\ Tip(disk) \in Block /\ disk.chain = ChainTo[Tip(disk)]
      /\ Len(disk.chain) = Height(Tip(disk)) /\ rescan.from \in Line(Tip(disk))
      /\ disk.chain \in Chains
      /\ MarkerHeight(disk) \in Nat /\ MarkerHeight(disk) <= Height(Tip(disk))
      /\ \A z \in Line(Tip(disk)) : z \in Line(disk.marker) <=> Height(z) <= MarkerHeight(disk)
  BY <1>1, <1>2, ChainedFacts
<1>4. Height(Tip(disk)) \in Nat /\ Height(rescan.from) \in 1 .. Height(Tip(disk))
  BY <1>3, LineFacts, InLine
<1>. DEFINE n == Height(Tip(disk))
<1>5. f \in Nat \ {0} /\ m \in Nat /\ m <= n /\ n \in Nat
      /\ (f <= n => f <= m) /\ (~rescan.inclusive \/ f <= n)
      /\ f <= n + 1
  <2>1. MaxBlocksPerRescan \in Nat \ {0} /\ rescan.inclusive \in BOOLEAN
    BY <1>2, TreeAssumption DEF Rescans
  <2>2. f \in Nat \ {0} /\ (rescan.inclusive => f <= n) /\ f <= n + 1
    BY <1>4, <2>1
  <2>. HIDE DEF f
  <2>. QED BY <1>3, <1>4, <2>1, <2>2
<1>6. phase = "rescan" => f <= MarkerHeight(disk) + 1
  BY <1>1, <1>3, <1>4 DEF MInv, Listed
<1>7. /\ B \in Chains /\ Len(B) = (IF f <= m THEN m - f + 1 ELSE 0)
      /\ \A i \in 1 .. m - f + 1 : B[i] = ChainTo[Tip(disk)][f + i - 1]
  <2>. HIDE DEF f, m
  <2>. QED BY <1>3, <1>5 DEF Chains
<1>. HIDE DEF f, m, B
<1>8. CASE B = <<>>
  <2>1. rescan' = NoRescan /\ phase' = "up" /\ rescan'.todo = <<>>
    BY <1>1, <1>8 DEF NoRescan
  <2>2. ~(f <= n)
    <3>1. Len(B) = 0
      BY <1>8
    <3>. QED BY <1>5, <1>7, <3>1
  <2>3. phase = "rescan" => MarkerHeight(disk) = n
    BY <1>3, <1>5, <1>6, <2>2
  <2>4. disk.marker = Tip(disk)
    BY <1>2, <2>3, Caught DEF MInv, Phases, IInv, TaskInv
  <2>5. Phases' /\ Listed'
    BY <1>1, <2>1, <2>4 DEF Phases, Listed, Switching
  <2>6. phase = "up" \/ phase = "rescan"
    BY <1>2, Stored
  <2>. QED BY <1>1, <1>2, <2>1, <2>5, <2>6, NothingWritten
<1>9. CASE B # <<>>
  <2>1. /\ rescan'.todo = B /\ rescan'.last = Last(B) /\ rescan'.on = TRUE
        /\ phase' = phase
    BY <1>1, <1>2, <1>9 DEF Rescans
  <2>2. f <= m /\ m \in 1 .. n
    BY <1>5, <1>7, <1>9 DEF Chains
  <2>3. Last(B) = ChainTo[Tip(disk)][m]
    <3>1. Len(B) = m - f + 1 /\ m - f + 1 \in 1 .. m - f + 1 /\ f + (m - f + 1) - 1 = m
      BY <1>5, <1>7, <2>2
    <3>. QED BY <1>7, <3>1 DEF Last
  <2>4. Last(B) \in Line(Tip(disk)) /\ Height(Last(B)) = m /\ Last(B) # None
    BY <1>3, <2>2, <2>3, LineFacts, Constants
  <2>5. ASSUME NEW x \in Line(Last(B)), phase = "rescan"
        PROVE  x \in Line(disk.marker) \/ x \in Elements(B)
    <3>1. x \in Line(Tip(disk)) /\ Height(x) \in 1 .. m /\ ChainTo[Tip(disk)][Height(x)] = x
      BY <1>3, <2>2, <2>4, InLine
    <3>2. CASE Height(x) <= MarkerHeight(disk)
      BY <1>3, <3>1, <3>2
    <3>3. CASE Height(x) > MarkerHeight(disk)
      <4>1. Height(x) - f + 1 \in 1 .. m - f + 1 /\ f + (Height(x) - f + 1) - 1 = Height(x)
        BY <1>3, <1>5, <1>6, <2>2, <2>5, <3>1, <3>3
      <4>2. B[Height(x) - f + 1] = x /\ Len(B) = m - f + 1
        BY <1>7, <2>2, <3>1, <4>1
      <4>. QED BY <4>1, <4>2 DEF Elements
    <3>. QED BY <1>3, <3>1, <3>2, <3>3
  <2>6. Phases'
    BY <1>1, <1>2, <2>1, <2>4 DEF MInv, Phases, Switching
  <2>7. Listed'
    BY <1>1, <2>1, <2>4, <2>5 DEF Listed, Passed
  <2>. QED BY <1>1, <1>2, <2>1, <2>6, <2>7, NothingWritten
<1>. QED BY <1>8, <1>9

LEMMA SaveRescannedKeeps ==
  ASSUME IInv, IInv', MInv, NEW n \in 1 .. MaxBlocksPerRescan, SaveRescanned(n) PROVE MInv'
<1>. DEFINE B == SubSeq(rescan.todo, 1, n)
            R == SubSeq(rescan.todo, n + 1, Len(rescan.todo))
<1>1. /\ Idle /\ n \in DOMAIN rescan.todo /\ UNCHANGED <<db, disk, phase>>
      /\ task' = [NoTask EXCEPT !.op = "save", !.blocks = B]
      /\ rescan' = [rescan EXCEPT !.todo = R]
  BY Zenon DEF SaveRescanned
<1>2. /\ db = disk /\ task.op = "none" /\ rescan \in Rescans /\ rescan.todo \in Chains
      /\ ~Switching
  BY <1>1, Stored, TaskFields DEF MInv, Idleness, Idle, NoTask, TaskInv, Switching
<1>3. /\ task'.op = "save" /\ task'.blocks = B /\ task'.at = None /\ task'.txs = <<>>
      /\ rescan'.todo = R /\ rescan'.last = rescan.last /\ rescan'.on = rescan.on
      /\ rescan'.from = rescan.from /\ rescan'.inclusive = rescan.inclusive
  BY <1>1, <1>2 DEF NoTask, Rescans
<1>4. rescan.todo # <<>> /\ rescan.last # None /\ rescan.on /\ phase # "headers"
  BY <1>1, <1>2 DEF MInv, Phases, NoRescan, Chains
<1>5. Elements(rescan.todo) \subseteq Elements(B) \cup Elements(R)
  <2>1. /\ n \in 1 .. Len(rescan.todo) /\ Len(rescan.todo) \in Nat
        /\ Len(B) = n /\ Len(R) = Len(rescan.todo) - n
        /\ \A i \in 1 .. n : B[i] = rescan.todo[i]
        /\ \A i \in 1 .. Len(rescan.todo) - n : R[i] = rescan.todo[n + i]
    <3>1. n \in 1 .. Len(rescan.todo) /\ Len(rescan.todo) \in Nat /\ n \in Int /\ n + 1 \in Int
          /\ Len(rescan.todo) \in Int
      BY <1>1, <1>2 DEF Chains
    <3>2. \A i \in 1 .. Len(rescan.todo) : rescan.todo[i] \in Block
      BY <1>2 DEF Chains
    <3>3. \A i \in 1 .. n : rescan.todo[i] \in Block
      BY <3>1, <3>2
    <3>4. \A i \in n + 1 .. Len(rescan.todo) : rescan.todo[i] \in Block
      BY <3>1, <3>2
    <3>5. Len(B) = n /\ \A i \in 1 .. n : B[i] = rescan.todo[i]
      <4>1. /\ Len(B) = IF 1 <= n THEN n - 1 + 1 ELSE 0
            /\ \A i \in 1 .. n - 1 + 1 : B[i] = rescan.todo[1 + i - 1]
        BY <3>1, <3>3, SubSeqProperties
      <4>. HIDE DEF B
      <4>. QED BY <3>1, <4>1
    <3>6. /\ Len(R) = Len(rescan.todo) - n
          /\ \A i \in 1 .. Len(rescan.todo) - n : R[i] = rescan.todo[n + i]
      <4>1. /\ Len(R) = IF n + 1 <= Len(rescan.todo) THEN Len(rescan.todo) - (n + 1) + 1 ELSE 0
            /\ \A i \in 1 .. Len(rescan.todo) - (n + 1) + 1 :
                  R[i] = rescan.todo[(n + 1) + i - 1]
        BY <3>1, <3>4, SubSeqProperties
      <4>. HIDE DEF R
      <4>. QED BY <3>1, <4>1
    <3>. QED BY <3>1, <3>5, <3>6
  <2>. HIDE DEF B, R
  <2>2. ASSUME NEW i \in 1 .. Len(rescan.todo), i > n PROVE rescan.todo[i] \in Elements(R)
    <3>1. i - n \in 1 .. Len(R) /\ n + (i - n) = i
      BY <2>1, <2>2
    <3>. QED BY <2>1, <3>1 DEF Elements
  <2>3. ASSUME NEW i \in 1 .. Len(rescan.todo), ~(i > n) PROVE rescan.todo[i] \in Elements(B)
    <3>1. i \in 1 .. n
      BY <2>1, <2>3
    <3>. QED BY <2>1, <3>1 DEF Elements
  <2>. QED BY <2>2, <2>3 DEF Elements
<1>. HIDE DEF B, R
<1>6. ChainInv'
  BY <1>1 DEF MInv, ChainInv, Chained, Honest, Behind, Full
<1>7. SwitchInv' /\ Idleness'
  BY <1>3 DEF SwitchInv, Switching, Idleness
<1>8. SaveInv'
  <2>1. db' = db /\ disk' = disk
    BY <1>1
  <2>. QED BY <1>1, <1>2, <1>3, <1>4, <2>1 DEF SaveInv
<1>9. Phases'
  BY <1>1, <1>3, <1>4 DEF MInv, Phases, Switching
<1>10. ASSUME NEW x, Passed(x) PROVE Passed(x)'
  BY <1>1, <1>2, <1>3, <1>5, <1>10 DEF Passed, Full
<1>11. Listed'
  BY <1>1, <1>3, <1>4, <1>10 DEF MInv, Listed
<1>. QED BY <1>6, <1>7, <1>8, <1>9, <1>11 DEF MInv

LEMMA SaveBlockKeeps == ASSUME IInv, IInv', MInv, SaveBlock PROVE MInv'
<1>. DEFINE b == Head(task.blocks)
<1>1. /\ task.op = "save" /\ task.txs = <<>> /\ task.blocks # <<>>
      /\ task' = [task EXCEPT !.at = b, !.blocks = Tail(task.blocks), !.txs = TxsOf[b]]
      /\ UNCHANGED <<db, disk, phase, rescan>>
  BY DEF SaveBlock
<1>2. task \in Tasks /\ task.blocks \in Chains
  BY Stored, TaskFields DEF TaskInv
<1>3. /\ task'.op = "save" /\ task'.blocks = Tail(task.blocks) /\ task'.at = b
      /\ task'.txs = TxsOf[b]
  BY <1>1, <1>2 DEF Tasks
<1>4. b \in Block
  BY <1>1, <1>2, Parts DEF Chains
<1>5. Elements(task.blocks) \subseteq {b} \cup Elements(Tail(task.blocks))
  <2>1. ASSUME NEW i \in 1 .. Len(task.blocks), i # 1
        PROVE  task.blocks[i] \in Elements(Tail(task.blocks))
    <3>1. i - 1 \in 1 .. Len(Tail(task.blocks)) /\ Tail(task.blocks)[i - 1] = task.blocks[i]
      BY <1>1, <1>2, <2>1 DEF Chains
    <3>. QED BY <3>1 DEF Elements
  <2>2. task.blocks[1] = b
    BY <1>1, <1>2 DEF Chains
  <2>. QED BY <2>1, <2>2 DEF Elements
<1>6. MinedTxs(b) = Elements(TxsOf[b])
  BY <1>4, Constants DEF MinedTxs, Elements
<1>7. Elements(<<>>) = {}
  BY DEF Elements
<1>8. ASSUME NEW x, Doing(x) \/ x = b PROVE Doing(x)'
  BY <1>1, <1>3, <1>6, <1>7, <1>8 DEF Doing, Full
<1>9. ASSUME NEW x, Passed(x) PROVE Passed(x)'
  BY <1>1, <1>3, <1>5, <1>8, <1>9 DEF Passed, Full
<1>10. ChainInv'
  BY <1>1 DEF MInv, ChainInv, Chained, Honest, Behind, Full
<1>11. SwitchInv' /\ Idleness'
  BY <1>3 DEF SwitchInv, Switching, Idleness
<1>12. SaveInv' /\ Phases'
  BY <1>1, <1>3 DEF MInv, SaveInv, Phases, Switching
<1>13. Listed'
  BY <1>1, <1>9 DEF MInv, Listed
<1>. QED BY <1>10, <1>11, <1>12, <1>13 DEF MInv

LEMMA SaveEndKeeps == ASSUME IInv, IInv', MInv, SaveEnd PROVE MInv'
<1>1. /\ task.op = "save" /\ task.txs = <<>> /\ task.blocks = <<>>
      /\ db' = db /\ disk' = db /\ task' = NoTask /\ UNCHANGED <<phase, rescan>>
  BY DEF SaveEnd, Commit
<1>2. /\ db.marker = disk.marker /\ db.chain = disk.chain
      /\ \A x \in Block : Recorded(disk, x) \subseteq Recorded(db, x)
      /\ Chained(db) /\ Honest(db) /\ Behind(disk) /\ disk \in Stores /\ Chained(disk)
  BY <1>1, Stored DEF MInv, SaveInv, ChainInv
<1>3. Tip(db) = Tip(disk) /\ MarkerHeight(db) = MarkerHeight(disk)
  BY <1>2 DEF Tip, MarkerHeight
<1>4. ChainInv'
  BY <1>1, <1>2, <1>3 DEF ChainInv, Chained, Honest, Behind, Full
<1>5. SwitchInv' /\ SaveInv' /\ Idleness'
  BY <1>1 DEF SwitchInv, SaveInv, Idleness, Idle, Switching, NoTask
<1>6. Phases'
  BY <1>1, <1>2, <1>3 DEF MInv, Phases, Switching, NoTask
<1>7. Elements(<<>>) = {}
  BY DEF Elements
<1>8. ASSUME NEW x \in Block, Passed(x) PROVE Passed(x)'
  <2>1. Full(disk, x) => Full(db, x)
    BY <1>2 DEF Full
  <2>2. Doing(x) => Full(db, x)
    BY <1>1, <1>7 DEF Doing, Full
  <2>. QED BY <1>1, <1>2, <1>7, <1>8, <2>1, <2>2 DEF Passed, Full
<1>9. rescan.last \in Line(Tip(disk)) => \A x \in Line(rescan.last) : x \in Block
  BY <1>2, ChainedFacts, LineFacts
<1>10. Listed'
  BY <1>1, <1>2, <1>3, <1>8, <1>9 DEF MInv, Listed
<1>. QED BY <1>4, <1>5, <1>6, <1>10 DEF MInv

\* All that was listed is recorded: the marker may follow.
LEMMA MarkKeeps == ASSUME IInv, IInv', MInv, MarkRescanned PROVE MInv'
<1>. DEFINE l == rescan.last
            e == UpdateProcessedTxsBlockMarker(db, l)
<1>1. /\ Idle /\ l # None /\ rescan.todo = <<>> /\ InChain(db, l)
      /\ Commit(e) /\ rescan' = [NoRescan EXCEPT !.on = TRUE, !.from = l] /\ UNCHANGED phase
  BY DEF MarkRescanned
<1>2. /\ db = disk /\ task.op = "none" /\ disk \in Stores /\ Good(disk)
      /\ Chained(disk) /\ Honest(disk) /\ Behind(disk)
  BY <1>1, Stored DEF MInv, Idleness, Idle, NoTask, ChainInv
<1>3. /\ db' = e /\ disk' = e /\ task' = NoTask /\ task'.op = "none" /\ Idle'
      /\ rescan'.on = TRUE /\ rescan'.from = l /\ rescan'.inclusive = FALSE
      /\ rescan'.last = None /\ rescan'.todo = <<>>
  BY <1>1 DEF Commit, NoTask, Idle, NoRescan
<1>4. l \in Line(Tip(disk)) /\ l \in Block \ {Genesis} /\ Tip(disk) \in Block
  BY <1>1, <1>2, ChainedFacts, InLine
<1>5. /\ e.chain = disk.chain /\ e.records = disk.records
      /\ e.marker = IF Height(l) > MarkerHeight(disk) THEN l ELSE disk.marker
      /\ e \in Stores
  BY <1>2, <1>4, MarkerView, MarkerGood DEF Good
<1>. HIDE DEF l, e
<1>6. Tip(e) = Tip(disk) /\ Chained(e) /\ \A x : Full(disk, x) => Full(e, x)
  BY <1>2, <1>5 DEF Tip, Chained, Full, Recorded
<1>7. phase # "headers" /\ ~Switching
  BY <1>1, <1>2 DEF MInv, Phases, NoRescan, Switching, l
<1>8. CASE phase = "up"
  <2>1. disk.marker = Tip(disk) /\ MarkerHeight(disk) = Height(Tip(disk))
    BY <1>2, <1>8, AtTip DEF MInv, Phases
  <2>2. Height(l) \in 1 .. Height(Tip(disk)) /\ Height(Tip(disk)) \in Nat
    BY <1>4, InLine, LineFacts
  <2>3. e.marker = disk.marker
    BY <1>5, <2>1, <2>2
  <2>4. Honest(e) /\ Behind(e) /\ e.marker = Tip(e)
    BY <1>2, <1>5, <1>6, <2>1, <2>3 DEF Honest, Behind
  <2>5. ChainInv'
    BY <1>3, <1>6, <2>4 DEF ChainInv, Chained, Honest, Behind, Full
  <2>6. SwitchInv' /\ SaveInv' /\ Idleness'
    BY <1>3 DEF SwitchInv, SaveInv, Idleness, Switching
  <2>7. Phases' /\ Listed'
    BY <1>1, <1>3, <1>8, <2>4 DEF Phases, Listed
  <2>. QED BY <2>5, <2>6, <2>7 DEF MInv
<1>9. CASE phase = "rescan"
  <2>1. \A x \in Line(l) : Passed(x)
    BY <1>1, <1>9 DEF MInv, Listed, l
  <2>2. Elements(<<>>) = {}
    BY DEF Elements
  <2>3. \A x \in Line(l) : x \in Line(disk.marker) \/ Full(disk, x)
    BY <1>1, <1>2, <2>1, <2>2 DEF Passed
  <2>4. Honest(e) /\ Behind(e)
    <3>1. CASE e.marker = disk.marker
      BY <1>2, <1>5, <1>6, <3>1 DEF Honest, Behind
    <3>2. CASE e.marker = l
      <4>1. \A x \in Line(Tip(e)) \cap Line(l) : Full(e, x)
        BY <1>2, <1>6, <2>3 DEF Honest
      <4>. QED BY <1>4, <1>6, <3>2, <4>1 DEF Honest, Behind
    <3>. QED BY <1>5, <3>1, <3>2
  <2>5. Height(l) <= MarkerHeight(e)
    <3>1. CASE Height(l) > MarkerHeight(disk)
      <4>1. e.marker = l /\ l \in Line(Tip(e)) /\ l \in Line(l)
        BY <1>4, <1>5, <1>6, <3>1, OwnLine
      <4>. QED BY <1>5, <1>6, <4>1, ChainedFacts
    <3>2. CASE ~(Height(l) > MarkerHeight(disk))
      <4>1. MarkerHeight(e) = MarkerHeight(disk)
        BY <1>5, <3>2 DEF MarkerHeight
      <4>2. Height(l) \in Nat /\ MarkerHeight(disk) \in Nat
        BY <1>2, <1>4, LineFacts, ChainedFacts
      <4>. QED BY <3>2, <4>1, <4>2
    <3>. QED BY <3>1, <3>2
  <2>6. ChainInv'
    BY <1>3, <1>6, <2>4 DEF ChainInv, Chained, Honest, Behind, Full
  <2>7. SwitchInv' /\ SaveInv' /\ Idleness'
    BY <1>3 DEF SwitchInv, SaveInv, Idleness, Switching
  <2>8. Phases'
    BY <1>1, <1>3, <1>9 DEF Phases, Switching
  <2>9. MarkerHeight(e) \in Nat /\ Height(l) \in Nat
    BY <1>4, <1>5, <1>6, ChainedFacts, LineFacts
  <2>10. Listed'
    BY <1>3, <1>4, <1>6, <2>5, <2>9 DEF Listed
  <2>. QED BY <2>6, <2>7, <2>8, <2>10 DEF MInv
<1>. QED BY <1>7, <1>8, <1>9, Stored

-----------------------------------------------------------------------------

LEMMA InitMarked == Init => MInv
<1>. SUFFICES ASSUME Init PROVE MInv
  OBVIOUS
<1>1. /\ db = InitStore /\ disk = InitStore /\ db = disk /\ task = NoTask /\ Idle
      /\ phase = "headers" /\ rescan = NoRescan
  BY DEF Init, Idle
<1>2. Tip(InitStore) = Genesis /\ InitStore.chain = <<>> /\ InitStore.marker = Genesis
  BY DEF InitStore, Tip
<1>3. ChainInv
  BY <1>1, <1>2, OfGenesis, TreeAssumption DEF ChainInv, Chained, Honest, Behind
<1>. QED
  BY <1>1, <1>3 DEF MInv, SwitchInv, SaveInv, Idleness, Phases, Listed, NoTask, NoRescan,
     Switching

LEMMA StepMarked == ASSUME NoReturn, IInv, IInv', MInv, [Next]_vars PROVE MInv'
<1>1. CASE UNCHANGED vars
  BY <1>1, SameView DEF vars, View, MInv, Idleness, Idle, NoTask
<1>. QED
  BY <1>1, SwitchKeeps, RescanFromKeeps, HeadersKeeps, ListKeeps, MarkKeeps, RescanFailsKeeps,
     SaveRescannedKeeps, RollbackKeeps, RollbackEndKeeps, AttachKeeps, SwitchEndKeeps,
     SaveBlockKeeps, SaveTxKeeps, RefusedKeeps, SaveEndKeeps, RestartKeeps, AddKeeps, Zenon
     DEF Next, Rescan, Task

LEMMA MarkedAlways == ASSUME NoReturn PROVE Spec => []MInv
<1>1. IInv /\ IInv' /\ MInv /\ [Next]_vars => MInv'
  BY StepMarked
<1>. QED BY <1>1, InitMarked, Invariance, PTL DEF Spec

\* The marker passes no block of the main chain whose transactions are not
\* recorded: for any tree of blocks and any transactions, through switches and
\* rescans that are refused, fail or are cut off at any step, if the peers serve a
\* session that starts no chain that another had replaced.
THEOREM MarkerStaysHonest == ASSUME NoReturn PROVE Spec => []MarkerIsHonest
<1>1. IInv /\ MInv => MarkerIsHonest
  <2>. SUFFICES ASSUME IInv, MInv, NEW i \in 1 .. MarkerHeight(disk)
                PROVE  MinedTxs(disk.chain[i]) \subseteq Recorded(disk, disk.chain[i])
    BY DEF MarkerIsHonest
  <2>1. disk \in Stores /\ Chained(disk) /\ Honest(disk)
    BY DEF IInv, StoreInv, Good, MInv, ChainInv
  <2>2. i \in 1 .. Height(Tip(disk)) /\ disk.chain = ChainTo[Tip(disk)] /\ Tip(disk) \in Block
    BY <2>1, ChainedFacts, LineFacts
  <2>3. disk.chain[i] \in Line(Tip(disk)) /\ Height(disk.chain[i]) = i
    BY <2>2, LineFacts
  <2>4. disk.chain[i] \in Line(disk.marker)
    BY <2>1, <2>3, ChainedFacts
  <2>. QED BY <2>1, <2>3, <2>4 DEF Honest, Full
<1>. QED BY <1>1, Invariance, MarkedAlways, PTL

==============================================================================
