------------------------ MODULE TicketBuyer_proofs -------------------------
(***************************************************************************)
(* Proofs about TicketBuyer, for any number of starts and of blocks, any   *)
(* window of at least two blocks and any number of tickets to a block.     *)
(***************************************************************************)
EXTENDS TicketBuyer, TLAPS

LEMMA Constants ==
  /\ IntervalSize \in Nat /\ IntervalSize > 1 /\ MaxBuy \in Nat
  /\ FirstTip \in Nat /\ Buyers \subseteq Nat \ {0}
BY BuyerAssumption DEF Buyers

\* An interval is the window of IntervalSize blocks that a height is in.
LEMMA Interval ==
  ASSUME NEW h \in Nat
  PROVE  /\ IntervalOf(h) \in Nat /\ NextInterval(h) \in Nat
         /\ NextInterval(h) = (IntervalOf(h) + 1) * IntervalSize
         /\ IntervalOf(h) * IntervalSize <= h /\ h < NextInterval(h)
         /\ NextInterval(h) - IntervalSize <= h
BY Constants DEF IntervalOf, NextInterval

LEMMA IntervalIs ==
  ASSUME NEW h \in Nat, NEW q \in Nat,
         q * IntervalSize <= h, h < (q + 1) * IntervalSize
  PROVE  IntervalOf(h) = q
BY Constants DEF IntervalOf

-----------------------------------------------------------------------------
(***************************************************************************)
(* What is known of one buyer r when the main chain's tip is at height t.  *)
(***************************************************************************)

\* Steps of a purchase that still have a ticket to make; steps that may have
\* recorded tickets; steps after the price is read; and all of a purchase.
ToMake == {"expiry", "price", "record", "publish", "ticket"} \cup Splitting
Made == {"ticket", "send", "record fee", "removed"}
Priced == {"record", "publish"} \cup Splitting \cup Made
InPurchase == {"expiry", "price"} \cup Priced

Counted(r) ==
  /\ r \in Buyer /\ r.left + r.made <= MaxBuy
  /\ r.pc \in ToMake => r.left >= 1
  /\ r.made > 0 => r.pc \in Made

\* The interval that the loop takes for the next one starts at most a window
\* after height h, and if that is far, tickets expire there.
Near(r, h) ==
  /\ r.nextInterval # 0 =>
       \E q \in Nat : /\ r.nextInterval = (q + 1) * IntervalSize
                      /\ q * IntervalSize <= h
  /\ h + 2 < r.nextInterval => r.expiry = r.nextInterval

\* The tickets expire where the interval of the block after the split's ends.
Expires(r) ==
  /\ r.height + 2 < r.expiry
  /\ \E q \in Nat : /\ r.expiry = (q + 1) * IntervalSize
                     /\ q * IntervalSize <= r.height + 1

Good(r, t) ==
  /\ Counted(r)
  /\ r.height <= t /\ Near(r, t)
  /\ r.pc = "turn" => Near(r, r.height)
  /\ r.pc \in InPurchase => Expires(r)
  /\ r.pc \in Priced =>
       \A h \in t + 1 .. r.expiry - 1 : IntervalOf(h) = r.price

LEMMA BuyerFields ==
  ASSUME NEW r \in Buyer
  PROVE  /\ r.height \in Nat /\ r.nextInterval \in Nat /\ r.expiry \in Nat
         /\ r.price \in Nat /\ r.left \in 0 .. MaxBuy /\ r.made \in 0 .. MaxBuy
         /\ r.pc \in PC /\ r.fatal \in BOOLEAN
BY DEF Buyer

LEMMA UnbornType == Unborn \in Buyer
BY Constants DEF Unborn, Buyer, PC

\* A buyer outside of a turn knows the next interval and the expiry only.
Resting(next, exp, fatal) ==
  [Unborn EXCEPT !.pc = "select", !.nextInterval = next, !.expiry = exp,
                 !.fatal = fatal]

LEMMA RestingGood ==
  ASSUME NEW t \in Nat, NEW next \in Nat, NEW exp \in Nat, NEW fatal \in BOOLEAN,
         Near(Resting(next, exp, fatal), t)
  PROVE  Good(Resting(next, exp, fatal), t)
<1>. DEFINE r == Resting(next, exp, fatal)
<1>1. r \in Buyer
  BY UnbornType DEF Resting, Buyer, PC
<1>2. r.pc = "select" /\ r.height = 0 /\ r.left = 0 /\ r.made = 0
  BY DEF Resting, Unborn
<1>3. r.pc \notin InPurchase /\ r.pc \notin Priced /\ r.pc \notin ToMake
  BY <1>2 DEF InPurchase, Priced, Made, ToMake, Splitting
<1>4. Counted(r)
  BY <1>1, <1>2, <1>3, Constants DEF Counted
<1>. QED
  BY <1>2, <1>3, <1>4 DEF Good

LEMMA NewGood ==
  ASSUME NEW t \in Nat, NEW l \in {"unborn", "subscribe", "stop", "ended"}
  PROVE  Good([Unborn EXCEPT !.pc = l], t)
<1>. DEFINE r == [Unborn EXCEPT !.pc = l]
<1>1. r \in Buyer
  BY UnbornType DEF Buyer, PC
<1>2. /\ r.pc = l /\ r.height = 0 /\ r.left = 0 /\ r.made = 0
      /\ r.nextInterval = 0 /\ r.expiry = 0
  BY DEF Unborn
<1>3. r.pc \notin InPurchase /\ r.pc \notin Priced /\ r.pc \notin ToMake
  BY <1>2 DEF InPurchase, Priced, Made, ToMake, Splitting
<1>4. Counted(r)
  BY <1>1, <1>2, <1>3, Constants DEF Counted
<1>. QED
  BY <1>2, <1>3, <1>4 DEF Good, Near

\* The tip only rises.
LEMMA GoodLater ==
  ASSUME NEW r, NEW t \in Nat, NEW u \in Nat, t <= u, Good(r, t)
  PROVE  Good(r, u)
<1>1. r.height \in Nat /\ r.nextInterval \in Nat /\ r.expiry \in Nat
  BY BuyerFields DEF Good, Counted
<1>2. Near(r, t) => Near(r, u)
  <2>1. ASSUME NEW q \in Nat, q * IntervalSize <= t PROVE q * IntervalSize <= u
    BY <2>1, Constants
  <2>. QED
    BY <1>1, <2>1 DEF Near
<1>3. \A h \in u + 1 .. r.expiry - 1 : h \in t + 1 .. r.expiry - 1
  BY <1>1
<1>. QED
  BY <1>1, <1>2, <1>3 DEF Good

\* A step of a purchase that changes neither its expiry nor its price.
LEMMA GoodStep ==
  ASSUME NEW t \in Nat, NEW r, Good(r, t), NEW n, Counted(n),
         n.height = r.height, n.nextInterval = r.nextInterval,
         n.expiry = r.expiry, n.price = r.price, n.pc # "turn",
         n.pc \in InPurchase => r.pc \in InPurchase,
         n.pc \in Priced => r.pc \in Priced
  PROVE  Good(n, t)
BY DEF Good, Near, Expires

LEMMA GotoGood ==
  ASSUME NEW t \in Nat, NEW r, Good(r, t), NEW l \in PC \ {"turn"},
         l \in ToMake => r.pc \in ToMake, l \in InPurchase => r.pc \in InPurchase,
         l \in Priced => r.pc \in Priced, r.made > 0 => l \in Made
  PROVE  Good([r EXCEPT !.pc = l], t)
<1>. DEFINE n == [r EXCEPT !.pc = l]
<1>1. r \in Buyer /\ Counted(r)
  BY DEF Good, Counted
<1>2. /\ n \in Buyer /\ n.pc = l /\ n.left = r.left /\ n.made = r.made
      /\ n.height = r.height /\ n.nextInterval = r.nextInterval
      /\ n.expiry = r.expiry /\ n.price = r.price
  BY <1>1 DEF Buyer
<1>3. Counted(n)
  BY <1>1, <1>2 DEF Counted
<1>. QED
  BY <1>2, <1>3, GoodStep

-----------------------------------------------------------------------------
(* The steps of a turn *)

AllGood ==
  /\ tip \in Nat /\ buyer \in [Buyers -> Buyer]
  /\ \A b \in Buyers : Good(buyer[b], tip)

LEMMA SetGood ==
  ASSUME AllGood, NEW b \in Buyers, NEW r, Good(r, tip),
         buyer' = [buyer EXCEPT ![b] = r], UNCHANGED tip
  PROVE  AllGood'
<1>1. r \in Buyer
  BY DEF Good, Counted
<1>. QED
  BY <1>1 DEF AllGood, Good, Counted, Near, Expires

\* A turn sets its buyer only, to what is good of a buyer.
TurnTo(b, r) ==
  /\ buyer' = [buyer EXCEPT ![b] = r] /\ Good(r, tip)
  /\ buyer[b].pc \in {"turn"} \cup InPurchase
  /\ r.pc \in {"select"} \cup InPurchase

LEMMA ContinueGood ==
  ASSUME AllGood, NEW b \in Buyers, Continue(b),
         buyer[b].pc \in {"turn"} \cup InPurchase
  PROVE  \E r : TurnTo(b, r)
<1>. DEFINE o == buyer[b]
            r == Resting(o.nextInterval, o.expiry, o.fatal)
<1>1. o \in Buyer /\ Good(o, tip) /\ tip \in Nat
  BY DEF AllGood
<1>2. buyer' = [buyer EXCEPT ![b] = r]
  BY DEF Continue, NextTurn, Resting
<1>3. r.nextInterval = o.nextInterval /\ r.expiry = o.expiry /\ r.pc = "select"
  BY DEF Resting, Unborn
<1>4. Near(r, tip)
  BY <1>1, <1>3 DEF Good, Near
<1>5. Good(r, tip)
  BY <1>1, <1>4, BuyerFields, RestingGood
<1>. QED
  BY <1>2, <1>3, <1>5 DEF TurnTo

LEMMA GotoTurn ==
  ASSUME AllGood, NEW b \in Buyers, NEW l \in InPurchase, Goto(b, l),
         buyer[b].pc \in InPurchase,
         l \in ToMake => buyer[b].pc \in ToMake,
         l \in Priced => buyer[b].pc \in Priced,
         buyer[b].made > 0 => l \in Made
  PROVE  \E r : TurnTo(b, r)
<1>. DEFINE o == buyer[b]
            r == [o EXCEPT !.pc = l]
<1>1. o \in Buyer /\ Good(o, tip) /\ tip \in Nat
  BY DEF AllGood
<1>2. buyer' = [buyer EXCEPT ![b] = r] /\ r.pc = l
  BY <1>1 DEF Goto, Buyer, AllGood
<1>3. l \in PC \ {"turn"}
  BY DEF InPurchase, Priced, Made, Splitting, PC, Purchasing, Waits
<1>4. Good(r, tip)
  BY <1>1, <1>3, GotoGood
<1>. QED
  BY <1>2, <1>4 DEF TurnTo

\* What the loop makes of the interval's start and the expiry, at height h.
LEMMA PlanInterval ==
  ASSUME AllGood, NEW b \in Buyers, buyer[b].pc = "turn"
  PROVE  /\ IntervalStart(b) \in Nat /\ Expiry(b) \in Nat
         /\ \E q \in Nat : /\ IntervalStart(b) = (q + 1) * IntervalSize
                           /\ q * IntervalSize <= buyer[b].height
         /\ buyer[b].height + 2 < IntervalStart(b) => Expiry(b) = IntervalStart(b)
         /\ ~Skipped(b) =>
              /\ buyer[b].height + 2 < Expiry(b)
              /\ \E q \in Nat : /\ Expiry(b) = (q + 1) * IntervalSize
                                /\ q * IntervalSize <= buyer[b].height + 1
<1>. DEFINE o == buyer[b]
            h == o.height
            next == NextInterval(h)
<1>1. o \in Buyer /\ Near(o, h) /\ h \in Nat /\ o.nextInterval \in Nat /\ o.expiry \in Nat
  BY BuyerFields DEF AllGood, Good
<1>2. /\ IntervalOf(h) \in Nat /\ next \in Nat
      /\ next = (IntervalOf(h) + 1) * IntervalSize
      /\ IntervalOf(h) * IntervalSize <= h /\ h < next
  BY <1>1, Interval
<1>3. CASE ~NewInterval(b)
  <2>1. h + 2 < o.nextInterval /\ o.nextInterval # 0
    BY <1>1, <1>3 DEF NewInterval
  <2>2. o.expiry = o.nextInterval
    BY <1>1, <2>1 DEF Near
  <2>3. IntervalStart(b) = o.nextInterval /\ Expiry(b) = o.expiry
    BY <1>3 DEF IntervalStart, Expiry
  <2>4. PICK q \in Nat :
          o.nextInterval = (q + 1) * IntervalSize /\ q * IntervalSize <= h
    BY <1>1, <2>1 DEF Near
  <2>5. q * IntervalSize <= h + 1
    BY <1>1, <2>4, Constants
  <2>. QED
    BY <1>1, <2>1, <2>2, <2>3, <2>4, <2>5
<1>4. CASE NewInterval(b)
  <2>1. IntervalStart(b) = next
    BY <1>4 DEF IntervalStart
  <2>2. CASE Skipped(b)
    <3>1. Expiry(b) = o.expiry /\ h + 2 = next
      BY <2>2 DEF Expiry, Skipped
    <3>. QED
      BY <1>1, <1>2, <2>1, <2>2, <3>1
  <2>3. CASE ~Skipped(b) /\ h + 1 = next
    <3>1. Expiry(b) = next + IntervalSize
      BY <1>4, <2>3 DEF Expiry
    <3>2. next + IntervalSize = ((IntervalOf(h) + 1) + 1) * IntervalSize
      BY <1>2, Constants
    <3>3. (IntervalOf(h) + 1) \in Nat /\ (IntervalOf(h) + 1) * IntervalSize <= h + 1
      BY <1>2, <2>3
    <3>4. h + 2 < next + IntervalSize /\ ~(h + 2 < next) /\ next + IntervalSize \in Nat
      BY <1>1, <1>2, <2>3, Constants
    <3>. QED
      BY <1>2, <2>1, <3>1, <3>2, <3>3, <3>4
  <2>4. CASE ~Skipped(b) /\ h + 1 # next
    <3>1. Expiry(b) = next /\ h + 2 # next
      BY <1>4, <2>4 DEF Expiry, Skipped
    <3>2. h + 2 < next
      BY <1>1, <1>2, <2>4, <3>1
    <3>3. IntervalOf(h) * IntervalSize <= h + 1
      BY <1>1, <1>2, Constants
    <3>. QED
      BY <1>1, <1>2, <2>1, <3>1, <3>2, <3>3
  <2>. QED
    BY <2>2, <2>3, <2>4
<1>. QED
  BY <1>3, <1>4

\* An interval that is near from the height of the turn is near from the tip.
LEMMA PlanNear ==
  ASSUME AllGood, NEW b \in Buyers, buyer[b].pc = "turn", NEW r,
         r.nextInterval = IntervalStart(b), r.expiry = Expiry(b)
  PROVE  Near(r, tip)
<1>1. /\ buyer[b].height \in Nat /\ buyer[b].height <= tip /\ tip \in Nat
      /\ IntervalStart(b) \in Nat
  BY PlanInterval, BuyerFields DEF AllGood, Good
<1>2. PICK q \in Nat : /\ IntervalStart(b) = (q + 1) * IntervalSize
                       /\ q * IntervalSize <= buyer[b].height
  BY PlanInterval
<1>3. q * IntervalSize <= tip
  BY <1>1, <1>2, Constants
<1>4. tip + 2 < IntervalStart(b) => Expiry(b) = IntervalStart(b)
  BY <1>1, PlanInterval
<1>. QED
  BY <1>2, <1>3, <1>4 DEF Near

LEMMA PlanGood ==
  ASSUME AllGood, NEW b \in Buyers, NEW n \in 0 .. MaxBuy, Plan(b, n)
  PROVE  \E r : TurnTo(b, r)
<1>. DEFINE o == buyer[b]
<1>1. /\ o.pc = "turn" /\ o \in Buyer /\ Good(o, tip) /\ tip \in Nat
      /\ o.height \in Nat /\ o.fatal \in BOOLEAN
  BY BuyerFields DEF Plan, At, AllGood
<1>2. IntervalStart(b) \in Nat /\ Expiry(b) \in Nat
  BY <1>1, PlanInterval
<1>3. CASE Skipped(b) \/ n = 0
  <2>. DEFINE r == Resting(IntervalStart(b), Expiry(b), o.fatal)
  <2>1. buyer' = [buyer EXCEPT ![b] = r]
    BY <1>3 DEF Plan, NextTurn, Resting
  <2>2. /\ r.nextInterval = IntervalStart(b) /\ r.expiry = Expiry(b)
        /\ r.pc = "select"
    BY DEF Resting, Unborn
  <2>3. Good(r, tip)
    BY <1>1, <1>2, <2>2, PlanNear, RestingGood
  <2>. QED
    BY <1>1, <2>1, <2>2, <2>3 DEF TurnTo
<1>4. CASE ~Skipped(b) /\ n # 0
  <2>. DEFINE r == [o EXCEPT !.pc = "expiry", !.left = n,
                      !.nextInterval = IntervalStart(b), !.expiry = Expiry(b)]
  <2>1. buyer' = [buyer EXCEPT ![b] = r]
    BY <1>4 DEF Plan
  <2>2. r \in Buyer
    BY <1>1, <1>2 DEF Buyer, PC, Purchasing
  <2>3. /\ r.pc = "expiry" /\ r.left = n /\ r.made = o.made /\ r.height = o.height
        /\ r.nextInterval = IntervalStart(b) /\ r.expiry = Expiry(b)
    BY <1>1 DEF Buyer
  <2>4. o.made = 0
    BY <1>1, BuyerFields DEF Good, Counted, Made
  <2>5. Counted(r)
    BY <1>4, <2>2, <2>3, <2>4, Constants DEF Counted
  <2>6. Near(r, tip)
    BY <1>1, <2>3, PlanNear
  <2>7. Expires(r)
    BY <1>1, <1>4, <2>3, PlanInterval DEF Expires
  <2>8. Good(r, tip)
    BY <1>1, <2>3, <2>5, <2>6, <2>7 DEF Good, Priced, Made, Splitting
  <2>. QED
    BY <1>1, <2>1, <2>3, <2>8 DEF TurnTo, InPurchase
<1>. QED
  BY <1>3, <1>4

\* No block that may hold the tickets has another price than the block after
\* the tip, wherever the tip is by now.
LEMMA ReadPriceGood ==
  ASSUME AllGood, NEW b \in Buyers, ReadPrice(b)
  PROVE  \E r : TurnTo(b, r)
<1>. DEFINE o == buyer[b]
<1>1. /\ o.pc = "price" /\ o \in Buyer /\ Good(o, tip) /\ tip \in Nat
      /\ o.height \in Nat /\ o.expiry \in Nat /\ o.height <= tip
  BY BuyerFields DEF ReadPrice, At, AllGood, Good
<1>2. PICK n \in 1 .. o.left :
        buyer' = [buyer EXCEPT ![b] =
          [o EXCEPT !.pc = "record", !.price = IntervalOf(tip + 1), !.left = n]]
  BY DEF ReadPrice
<1>. DEFINE r == [o EXCEPT !.pc = "record", !.price = IntervalOf(tip + 1), !.left = n]
<1>3. IntervalOf(tip + 1) \in Nat
  BY <1>1, Interval
<1>4. /\ r.pc = "record" /\ r.left = n /\ r.made = o.made /\ r.height = o.height
      /\ r.nextInterval = o.nextInterval /\ r.expiry = o.expiry
      /\ r.price = IntervalOf(tip + 1)
  BY <1>1 DEF Buyer
<1>5. o.made = 0 /\ o.left \in 0 .. MaxBuy /\ n \in 0 .. MaxBuy
  BY <1>1, BuyerFields, Constants DEF Good, Counted, Made
<1>6. r \in Buyer
  BY <1>1, <1>3, <1>5 DEF Buyer, PC, Waits
<1>7. Counted(r)
  BY <1>4, <1>5, <1>6, Constants DEF Counted
<1>8. Expires(o)
  BY <1>1 DEF Good, InPurchase
<1>9. PICK q \in Nat : /\ o.expiry = (q + 1) * IntervalSize
                       /\ q * IntervalSize <= o.height + 1
  BY <1>8 DEF Expires
<1>10. ASSUME NEW h \in tip + 1 .. r.expiry - 1
       PROVE  IntervalOf(h) = r.price
  <2>1. /\ h \in Nat /\ tip + 1 \in Nat /\ tip + 1 <= h /\ h < o.expiry
        /\ o.height + 1 <= tip + 1
    BY <1>1, <1>4, <1>10
  <2>2. q * IntervalSize \in Nat
    BY Constants
  <2>3. q * IntervalSize <= tip + 1 /\ q * IntervalSize <= h
    BY <1>1, <1>9, <2>1, <2>2
  <2>4. tip + 1 < (q + 1) * IntervalSize /\ h < (q + 1) * IntervalSize
    BY <1>1, <1>9, <2>1
  <2>5. IntervalOf(h) = q /\ IntervalOf(tip + 1) = q
    BY <2>1, <2>3, <2>4, IntervalIs
  <2>. QED
    BY <1>4, <2>5
<1>11. Near(r, tip) /\ Expires(r)
  BY <1>1, <1>4, <1>8 DEF Good, Near, Expires
<1>12. Good(r, tip)
  BY <1>1, <1>4, <1>7, <1>10, <1>11 DEF Good
<1>. QED
  BY <1>1, <1>2, <1>4, <1>12 DEF TurnTo, InPurchase, Priced

\* A step of a purchase that changes what the purchase has made so far.
LEMMA SetTurn ==
  ASSUME AllGood, NEW b \in Buyers, NEW r, Counted(r),
         buyer' = [buyer EXCEPT ![b] = r],
         buyer[b].pc \in InPurchase, r.pc \in InPurchase,
         r.pc \in Priced => buyer[b].pc \in Priced,
         r.height = buyer[b].height, r.nextInterval = buyer[b].nextInterval,
         r.expiry = buyer[b].expiry, r.price = buyer[b].price
  PROVE  \E n : TurnTo(b, n)
<1>1. Good(buyer[b], tip) /\ tip \in Nat
  BY DEF AllGood
<1>2. r.pc # "turn"
  BY DEF InPurchase, Priced, Made, Splitting
<1>3. Good(r, tip)
  BY <1>1, <1>2, GoodStep
<1>. QED
  BY <1>3 DEF TurnTo

LEMMA AbandonSplitGood ==
  ASSUME AllGood, NEW b \in Buyers, AbandonSplit(b)
  PROVE  \E r : TurnTo(b, r)
<1>. DEFINE o == buyer[b]
            r == [o EXCEPT !.pc = "removed", !.split = "none"]
<1>1. o.pc \in {"publish", "publish again"} /\ o \in Buyer /\ Counted(o)
  BY DEF AbandonSplit, AllGood, Good
<1>2. o.pc \in InPurchase /\ o.pc \in Priced
  BY <1>1 DEF InPurchase, Priced, Splitting
<1>3. CASE Continue(b)
  BY <1>2, <1>3, ContinueGood
<1>4. CASE buyer' = [buyer EXCEPT ![b] = r]
  <2>1. /\ r \in Buyer /\ r.pc = "removed" /\ r.left = o.left /\ r.made = o.made
        /\ r.height = o.height /\ r.nextInterval = o.nextInterval
        /\ r.expiry = o.expiry /\ r.price = o.price
    BY <1>1 DEF Buyer, PC, Waits
  <2>2. Counted(r) /\ r.pc \in InPurchase
    BY <1>1, <2>1 DEF Counted, ToMake, Made, Splitting, InPurchase, Priced
  <2>. QED
    BY <1>2, <1>4, <2>1, <2>2, SetTurn
<1>. QED
  BY <1>3, <1>4 DEF AbandonSplit

LEMMA PublishSplitGood ==
  ASSUME AllGood, NEW b \in Buyers, PublishSplit(b)
  PROVE  \E r : TurnTo(b, r)
<1>. DEFINE o == buyer[b]
            r == [o EXCEPT !.pc = "record again", !.split = "sent"]
<1>1. o.pc = "publish" /\ o \in Buyer /\ Counted(o) /\ buyer' = [buyer EXCEPT ![b] = r]
  BY DEF PublishSplit, At, AllGood, Good
<1>2. /\ r \in Buyer /\ r.pc = "record again" /\ r.left = o.left /\ r.made = o.made
      /\ r.height = o.height /\ r.nextInterval = o.nextInterval
      /\ r.expiry = o.expiry /\ r.price = o.price
  BY <1>1 DEF Buyer, PC, Splitting
<1>3. Counted(r) /\ r.pc \in InPurchase /\ o.pc \in InPurchase /\ o.pc \in Priced
  BY <1>1, <1>2 DEF Counted, ToMake, Made, Splitting, InPurchase, Priced
<1>. QED
  BY <1>1, <1>2, <1>3, SetTurn

LEMMA RecordTicketGood ==
  ASSUME AllGood, NEW b \in Buyers, RecordTicket(b)
  PROVE  \E r : TurnTo(b, r)
<1>. DEFINE o == buyer[b]
            l == IF o.left = 1 THEN "send" ELSE "ticket"
            r == [o EXCEPT !.left = o.left - 1, !.made = o.made + 1, !.pc = l]
<1>1. o.pc = "ticket" /\ o \in Buyer /\ Counted(o) /\ buyer' = [buyer EXCEPT ![b] = r]
  BY DEF RecordTicket, At, AllGood, Good
<1>2. o.left >= 1 /\ o.left + o.made <= MaxBuy /\ o.left \in Nat /\ o.made \in Nat
  BY <1>1, BuyerFields, Constants DEF Counted, ToMake
<1>3. o.left - 1 \in 0 .. MaxBuy /\ o.made + 1 \in 0 .. MaxBuy
  BY <1>2, Constants
<1>4. /\ r \in Buyer /\ r.pc = l /\ r.left = o.left - 1 /\ r.made = o.made + 1
      /\ r.height = o.height /\ r.nextInterval = o.nextInterval
      /\ r.expiry = o.expiry /\ r.price = o.price
  BY <1>1, <1>3 DEF Buyer, PC, Waits, Purchasing
<1>5. r.pc \in ToMake => r.left >= 1
  BY <1>2, <1>4 DEF ToMake, Splitting
<1>6. r.pc \in Made /\ r.left + r.made <= MaxBuy
  BY <1>2, <1>4 DEF Made
<1>7. Counted(r) /\ r.pc \in InPurchase /\ o.pc \in InPurchase /\ o.pc \in Priced
  BY <1>1, <1>4, <1>5, <1>6 DEF Counted, Made, InPurchase, Priced
<1>. QED
  BY <1>1, <1>4, <1>7, SetTurn

LEMMA OneLess ==
  ASSUME NEW l \in 0 .. MaxBuy, NEW m \in 0 .. MaxBuy, m # 0, l + m <= MaxBuy
  PROVE  /\ l \in Nat /\ m \in Nat /\ m - 1 \in 0 .. MaxBuy
         /\ l + (m - 1) <= MaxBuy
BY Constants

LEMMA SentGood ==
  ASSUME AllGood, NEW b \in Buyers, NEW l \in {"send", "record fee", "removed"},
         buyer[b].pc = "send", buyer[b].made # 0, Sent(b, l)
  PROVE  \E r : TurnTo(b, r)
<1>. DEFINE o == buyer[b]
            r == [o EXCEPT !.made = o.made - 1, !.pc = l]
<1>1. o \in Buyer /\ Counted(o) /\ buyer' = [buyer EXCEPT ![b] = r]
  BY DEF Sent, AllGood, Good
<1>2. /\ o.left + o.made <= MaxBuy /\ o.left \in 0 .. MaxBuy
      /\ o.made \in 0 .. MaxBuy /\ o.made # 0
  BY <1>1, BuyerFields DEF Counted
<1>3. /\ o.left \in Nat /\ o.made \in Nat /\ o.made - 1 \in 0 .. MaxBuy
      /\ o.left + (o.made - 1) <= MaxBuy
  BY <1>2, OneLess
<1>4. /\ r \in Buyer /\ r.pc = l /\ r.left = o.left /\ r.made = o.made - 1
      /\ r.height = o.height /\ r.nextInterval = o.nextInterval
      /\ r.expiry = o.expiry /\ r.price = o.price
  BY <1>1, <1>3 DEF Buyer, PC, Waits
<1>5. r.pc \notin ToMake /\ r.pc \in Made /\ r.left + r.made <= MaxBuy
  <2>1. r.left + r.made <= MaxBuy
    BY <1>3, <1>4
  <2>. QED
    BY <1>4, <2>1 DEF ToMake, Splitting, Made
<1>6. Counted(r) /\ r.pc \in InPurchase /\ o.pc \in InPurchase /\ o.pc \in Priced
  BY <1>4, <1>5 DEF Counted, Made, InPurchase, Priced
<1>. QED
  BY <1>1, <1>4, <1>6, SetTurn

LEMMA MadeNat ==
  ASSUME AllGood, NEW b \in Buyers PROVE buyer[b].made \in Nat
BY Constants DEF AllGood, Buyer

\* Steps that only go on.
LEMMA GoOn ==
  ASSUME AllGood, NEW b \in Buyers,
         \/ CheckExpiry(b) \/ RecordSplit(b) \/ RecordAgain(b) \/ PublishAgain(b)
         \/ RecordFee(b)
  PROVE  \E r : TurnTo(b, r)
<1>1. Counted(buyer[b])
  BY DEF AllGood, Good
<1>2. CASE CheckExpiry(b)
  BY <1>1, <1>2, GotoTurn
     DEF CheckExpiry, At, Counted, InPurchase, Priced, ToMake, Made, Splitting
<1>3. CASE RecordSplit(b)
  BY <1>1, <1>3, GotoTurn
     DEF RecordSplit, At, Counted, InPurchase, Priced, ToMake, Made, Splitting
<1>4. CASE RecordAgain(b)
  BY <1>1, <1>4, GotoTurn
     DEF RecordAgain, At, Counted, InPurchase, Priced, ToMake, Made, Splitting
<1>5. CASE PublishAgain(b)
  BY <1>1, <1>5, GotoTurn
     DEF PublishAgain, At, Counted, InPurchase, Priced, ToMake, Made, Splitting
<1>6. CASE RecordFee(b)
  BY <1>1, <1>6, GotoTurn
     DEF RecordFee, At, Counted, InPurchase, Priced, ToMake, Made, Splitting
<1>. QED
  BY <1>2, <1>3, <1>4, <1>5, <1>6

LEMMA WrongPassphraseGood ==
  ASSUME AllGood, NEW b \in Buyers, WrongPassphrase(b)
  PROVE  \E r : TurnTo(b, r)
<1>. DEFINE o == buyer[b]
            r == Resting(o.nextInterval, o.expiry, TRUE)
<1>1. o.pc = "expiry" /\ o \in Buyer /\ Good(o, tip) /\ tip \in Nat
  BY DEF WrongPassphrase, At, AllGood
<1>2. buyer' = [buyer EXCEPT ![b] = r]
  BY DEF WrongPassphrase, NextTurn, Resting
<1>3. r.nextInterval = o.nextInterval /\ r.expiry = o.expiry /\ r.pc = "select"
  BY DEF Resting, Unborn
<1>4. Near(r, tip)
  BY <1>1, <1>3 DEF Good, Near
<1>5. Good(r, tip)
  BY <1>1, <1>4, BuyerFields, RestingGood
<1>. QED
  BY <1>1, <1>2, <1>3, <1>5 DEF TurnTo, InPurchase

\* Steps that end the turn.
LEMMA TurnEnds ==
  ASSUME AllGood, NEW b \in Buyers,
         NotSynced(b) \/ GiveUp(b) \/ AnnounceRemoval(b) \/ EndPurchase(b)
  PROVE  \E r : TurnTo(b, r)
<1>1. Continue(b)
  BY DEF NotSynced, GiveUp, AnnounceRemoval, EndPurchase, Purchased
<1>2. buyer[b].pc \in {"turn"} \cup InPurchase
  BY DEF NotSynced, GiveUp, AnnounceRemoval, EndPurchase, At, Purchasing,
         InPurchase, Priced, Made
<1>. QED
  BY <1>1, <1>2, ContinueGood

LEMMA TurnGood ==
  ASSUME AllGood, NEW b \in Buyers,
         NotSynced(b) \/ (\E n \in 0 .. MaxBuy : Plan(b, n)) \/ Purchase(b)
  PROVE  Steps /\ \E r : TurnTo(b, r)
<1>1. Steps
  BY DEF NotSynced, Plan, Purchase, GiveUp, WrongPassphrase, CheckExpiry, ReadPrice,
         RecordSplit, PublishSplit, RecordAgain, PublishAgain, AbandonSplit,
         AnnounceRemoval, RecordTicket, SendTicket, AbandonTicket, EndPurchase,
         RecordFee, Purchased
<1>2. CASE SendTicket(b) \/ AbandonTicket(b)
  <2>1. buyer[b].pc = "send" /\ buyer[b].made > 0
    BY <1>2 DEF SendTicket, AbandonTicket, At
  <2>2. buyer[b].made # 0
    BY <2>1, MadeNat
  <2>3. PICK l \in {"send", "record fee", "removed"} : Sent(b, l)
    BY <1>2 DEF SendTicket, AbandonTicket
  <2>. QED
    BY <1>1, <2>1, <2>2, <2>3, SentGood
<1>3. \/ NotSynced(b) \/ GiveUp(b) \/ AnnounceRemoval(b) \/ EndPurchase(b)
      \/ (\E n \in 0 .. MaxBuy : Plan(b, n)) \/ WrongPassphrase(b) \/ ReadPrice(b)
      \/ CheckExpiry(b) \/ RecordSplit(b) \/ RecordAgain(b) \/ PublishAgain(b)
      \/ RecordFee(b) \/ PublishSplit(b) \/ AbandonSplit(b) \/ RecordTicket(b)
      \/ SendTicket(b) \/ AbandonTicket(b)
  BY DEF Purchase
<1>. QED
  BY <1>1, <1>2, <1>3, TurnEnds, PlanGood, WrongPassphraseGood, ReadPriceGood,
     GoOn, PublishSplitGood, AbandonSplitGood, RecordTicketGood

-----------------------------------------------------------------------------
(* Every step leaves what is good of every buyer *)

\* The rest of the types.
OtherTypes ==
  /\ registered \in Buyers \cup {None} /\ cancelled \subseteq Buyers
  /\ starter \in [Starters -> [pc : {"idle", "quote", "halt"},
                               of : Buyers \cup {None}]]
  /\ server \in [pc : {"quiet", "lock", "send"}, left : SUBSET Buyers,
                 to : Buyers \cup {None}]
  /\ mu \in BOOLEAN /\ clients \subseteq Buyers /\ draining \subseteq Buyers

\* A confirmation under way starts a buyer that no other one starts.
Quotes(s) == starter[s].pc = "quote"
Fresh ==
  \A s \in Starters : Quotes(s) =>
    /\ starter[s].of \in Buyers /\ At(starter[s].of, "unborn")
    /\ \A r \in Starters \ {s} : Quotes(r) => starter[r].of # starter[s].of

Inv == AllGood /\ OtherTypes /\ Fresh

LEMMA TypesOfInv == Inv => TypeOK
BY DEF Inv, AllGood, Good, Counted, OtherTypes, TypeOK

LEMMA InitInv == Init => Inv
<1> SUFFICES ASSUME Init PROVE Inv
  OBVIOUS
<1>1. Unborn = [Unborn EXCEPT !.pc = "unborn"]
  BY DEF Unborn
<1>2. tip \in Nat /\ Good(Unborn, tip)
  BY <1>1, NewGood, Constants DEF Init
<1>3. AllGood
  BY <1>2, UnbornType DEF AllGood, Init
<1>4. OtherTypes /\ Fresh
  BY DEF Init, OtherTypes, Fresh, Quotes, Idle, Quiet
<1>. QED
  BY <1>3, <1>4 DEF Inv

\* A step of a buyer's goroutine moves it along, and no other buyer.
Moves(b) ==
  \E r : /\ buyer' = [buyer EXCEPT ![b] = r] /\ Good(r, tip)
         /\ buyer[b].pc # "unborn" /\ r.pc # "unborn"

LEMMA TurnMoves ==
  ASSUME NEW b \in Buyers, NEW r, TurnTo(b, r)
  PROVE  Moves(b) /\ Running(b) /\ r.pc \notin {"unborn", "ended"}
BY DEF TurnTo, Moves, Running, InPurchase, Priced, Made, Splitting

LEMMA GotoMoves ==
  ASSUME AllGood, NEW b \in Buyers, NEW l \in {"select", "stop"}, Goto(b, l),
         At(b, "subscribe")
  PROVE  Moves(b)
<1>. DEFINE o == buyer[b]
            r == [o EXCEPT !.pc = l]
<1>1. o \in Buyer /\ Good(o, tip) /\ Counted(o) /\ tip \in Nat /\ o.pc = "subscribe"
  BY DEF AllGood, Good, At
<1>2. buyer' = [buyer EXCEPT ![b] = r] /\ r.pc = l
  BY <1>1 DEF Goto, Buyer, AllGood
<1>3. ~(o.made > 0)
  BY <1>1 DEF Counted, Made
<1>4. /\ l \in PC \ {"turn"} /\ l \notin ToMake /\ l \notin InPurchase
      /\ l \notin Priced
  BY DEF PC, ToMake, InPurchase, Priced, Made, Splitting
<1>5. Good(r, tip)
  BY <1>1, <1>3, <1>4, GotoGood
<1>. QED
  BY <1>1, <1>2, <1>5 DEF Moves

LEMMA GoneMoves ==
  ASSUME AllGood, NEW b \in Buyers, NEW l \in {"stop", "ended"}, Gone(b, l),
         buyer[b].pc # "unborn"
  PROVE  Moves(b)
<1>. DEFINE r == [Unborn EXCEPT !.pc = l]
<1>1. buyer' = [buyer EXCEPT ![b] = r] /\ r.pc = l
  BY DEF Gone, Unborn
<1>2. Good(r, tip)
  BY NewGood DEF AllGood
<1>. QED
  BY <1>1, <1>2 DEF Moves

LEMMA ReceiveMoves ==
  ASSUME AllGood, NEW b \in Buyers, Receive(b)
  PROVE  Moves(b) /\ Running(b) /\ buyer'[b].pc = "turn"
<1>. DEFINE o == buyer[b]
            r == [o EXCEPT !.pc = "turn", !.height = tip]
<1>1. o \in Buyer /\ Good(o, tip) /\ Counted(o) /\ tip \in Nat /\ o.pc = "select"
  BY DEF Receive, AllGood, Good, At
<1>2. buyer' = [buyer EXCEPT ![b] = r]
  BY DEF Receive, AllGood
<1>3. /\ r \in Buyer /\ r.pc = "turn" /\ r.height = tip
      /\ r.left = o.left /\ r.made = o.made
      /\ r.nextInterval = o.nextInterval /\ r.expiry = o.expiry
  BY <1>1 DEF Buyer, PC
<1>4. Counted(r)
  BY <1>1, <1>3 DEF Counted, Made, ToMake, Splitting
<1>5. Near(r, tip)
  BY <1>1, <1>3 DEF Good, Near
<1>6. Good(r, tip)
  BY <1>1, <1>3, <1>4, <1>5 DEF Good, InPurchase, Priced, Made, Splitting
<1>. QED
  BY <1>1, <1>2, <1>3, <1>6 DEF Moves, Running, AllGood

LEMMA MovesInv ==
  ASSUME Inv, NEW b \in Buyers, Moves(b), UNCHANGED <<tip, starter>>, OtherTypes'
  PROVE  Inv'
<1>1. PICK r : /\ buyer' = [buyer EXCEPT ![b] = r] /\ Good(r, tip)
               /\ buyer[b].pc # "unborn"
  BY DEF Moves
<1>2. AllGood'
  BY <1>1, SetGood DEF Inv
<1>3. Fresh'
  BY <1>1 DEF Inv, Fresh, Quotes, At, AllGood
<1>. QED
  BY <1>2, <1>3 DEF Inv

\* What the goroutine of a buyer does.
LEMMA BuyerMoves ==
  ASSUME Inv, NEW b \in Buyers, BuyerStep(b)
  PROVE  Moves(b) /\ UNCHANGED <<tip, starter>>
<1>1. AllGood
  BY DEF Inv
<1>2. CASE NotSynced(b) \/ (\E n \in 0 .. MaxBuy : Plan(b, n)) \/ Purchase(b)
  BY <1>1, <1>2, TurnGood, TurnMoves DEF Steps
<1>3. CASE Subscribe(b)
  BY <1>1, <1>3, GotoMoves DEF Subscribe
<1>4. CASE CannotRun(b)
  BY <1>1, <1>4, GotoMoves DEF CannotRun, Steps
<1>5. CASE LeaveLoop(b) \/ Fail(b)
  BY <1>1, <1>5, GoneMoves DEF LeaveLoop, Fail, Return, At
<1>6. CASE EndBuyer(b)
  BY <1>1, <1>6, GoneMoves DEF EndBuyer, At
<1>. QED
  BY <1>2, <1>3, <1>4, <1>5, <1>6 DEF BuyerStep

LEMMA BuyerTypes ==
  ASSUME Inv, NEW b \in Buyers, BuyerStep(b)
  PROVE  OtherTypes'
<1>1. AllGood /\ OtherTypes
  BY DEF Inv
<1>2. CASE NotSynced(b) \/ (\E n \in 0 .. MaxBuy : Plan(b, n)) \/ Purchase(b)
  BY <1>1, <1>2, TurnGood DEF Steps, OtherTypes, control, notes
<1>3. CASE Subscribe(b)
  BY <1>1, <1>3 DEF Subscribe, OtherTypes, control
<1>4. CASE CannotRun(b)
  BY <1>1, <1>4 DEF CannotRun, Steps, OtherTypes, control, notes
<1>5. CASE LeaveLoop(b) \/ Fail(b)
  BY <1>1, <1>5 DEF LeaveLoop, Fail, Return, OtherTypes, control
<1>6. CASE EndBuyer(b)
  BY <1>1, <1>6 DEF EndBuyer, StopAutoTicketsPurchase, OtherTypes, notes
<1>. QED
  BY <1>2, <1>3, <1>4, <1>5, <1>6 DEF BuyerStep

LEMMA AttachInv ==
  ASSUME Inv, NEW h \in 1 .. MaxHeight, NEW mined \in SUBSET MayBeMined, Attach(h, mined)
  PROVE  Inv'
<1>1. AllGood /\ OtherTypes /\ Fresh
  BY DEF Inv
<1>2. tip \in Nat /\ tip' \in Nat /\ tip <= tip' /\ tip' = h
  BY <1>1, Constants DEF Attach, AllGood
<1>3. ASSUME NEW b \in Buyers
      PROVE  /\ buyer'[b] \in Buyer /\ Good(buyer'[b], tip')
             /\ buyer'[b].pc = buyer[b].pc
  <2>. DEFINE o == buyer[b]
              r == [o EXCEPT !.split = "mined"]
  <2>1. o \in Buyer /\ Good(o, tip')
    BY <1>1, <1>2, GoodLater DEF AllGood
  <2>2. CASE b \notin mined
    BY <2>1, <2>2 DEF Attach
  <2>3. CASE b \in mined
    <3>1. buyer'[b] = r
      BY <2>3 DEF Attach
    <3>2. /\ r \in Buyer /\ r.pc = o.pc /\ r.left = o.left /\ r.made = o.made
          /\ r.height = o.height /\ r.nextInterval = o.nextInterval
          /\ r.expiry = o.expiry /\ r.price = o.price
      BY <2>1 DEF Buyer
    <3>3. Counted(r)
      BY <2>1, <3>2 DEF Good, Counted
    <3>4. r.pc # "turn"
      BY <2>3, <3>2 DEF MayBeMined, Splitting
    <3>5. Good(r, tip')
      BY <1>2, <2>1, <3>2, <3>3, <3>4, GoodStep
    <3>. QED
      BY <3>1, <3>2, <3>5
  <2>. QED
    BY <2>2, <2>3
<1>4. buyer' \in [Buyers -> Buyer]
  BY <1>3 DEF Attach
<1>5. AllGood'
  BY <1>2, <1>3, <1>4 DEF AllGood, Good, Counted, Near, Expires
<1>6. OtherTypes'
  BY <1>1 DEF Attach, OtherTypes, control
<1>7. Fresh'
  BY <1>1, <1>3 DEF Attach, Fresh, Quotes, At
<1>. QED
  BY <1>5, <1>6, <1>7 DEF Inv

LEMMA RegisterInv ==
  ASSUME Inv, NEW s \in Starters, Register(s)
  PROVE  Inv'
<1>. DEFINE b == starter[s].of
            o == buyer[b]
            r == [o EXCEPT !.pc = "subscribe"]
<1>1. AllGood /\ OtherTypes /\ Fresh
  BY DEF Inv
<1>2. b \in Buyers /\ o.pc = "unborn" /\ o \in Buyer /\ Good(o, tip) /\ tip \in Nat
  BY <1>1 DEF Register, Fresh, Quotes, At, AllGood
<1>3. buyer' = [buyer EXCEPT ![b] = r]
  BY <1>2 DEF Register, AllGood
<1>4. ~(o.made > 0)
  BY <1>2 DEF Good, Counted, Made
<1>5. /\ "subscribe" \in PC \ {"turn"} /\ "subscribe" \notin ToMake
      /\ "subscribe" \notin InPurchase /\ "subscribe" \notin Priced
  BY DEF PC, ToMake, InPurchase, Priced, Made, Splitting
<1>6. Good(r, tip) /\ r.pc = "subscribe"
  BY <1>2, <1>4, <1>5, GotoGood DEF Buyer
<1>7. AllGood'
  BY <1>1, <1>2, <1>3, <1>6, SetGood DEF Register
<1>8. OtherTypes'
  BY <1>1, <1>2 DEF Register, OtherTypes, Idle, notes
<1>9. Fresh'
  <2>. SUFFICES ASSUME NEW t \in Starters, Quotes(t)'
       PROVE  /\ starter[t].of \in Buyers /\ At(starter[t].of, "unborn")'
              /\ starter'[t] = starter[t] /\ t # s /\ Quotes(t)
    BY <1>1 DEF Fresh, Quotes, OtherTypes, Register, Idle
  <2>1. t # s /\ starter'[t] = starter[t] /\ Quotes(t)
    BY <1>1 DEF Quotes, Register, Idle, OtherTypes
  <2>2. /\ starter[t].of \in Buyers /\ At(starter[t].of, "unborn")
        /\ starter[t].of # b
    BY <1>1, <2>1 DEF Fresh, Quotes, Register
  <2>. QED
    BY <1>1, <1>3, <2>1, <2>2 DEF At, AllGood
<1>. QED
  BY <1>7, <1>8, <1>9 DEF Inv, Register

\* What the server, the page and the draining goroutines do to the rest.
Quietly == UNCHANGED <<tip, buyer>> /\ OtherTypes' /\ Fresh'

LEMMA QuietlyInv == Inv /\ Quietly => Inv'
BY DEF Quietly, Inv, AllGood, Good, Counted, Near, Expires

LEMMA ServerQuietly ==
  ASSUME Inv,
         \/ LockToSend \/ AllSent
         \/ \E b \in Buyers : SendTo(b) \/ Drain(b) \/ Deregister(b)
  PROVE  Quietly /\ UNCHANGED <<control, starter>>
<1>1. OtherTypes /\ Fresh
  BY DEF Inv
<1>2. UNCHANGED <<tip, buyer, control, starter>>
  BY DEF LockToSend, AllSent, SendTo, Drain, Deregister
<1>3. Fresh'
  BY <1>1, <1>2 DEF Fresh, Quotes, At
<1>4. OtherTypes'
  <2>1. CASE LockToSend
    BY <1>1, <2>1 DEF LockToSend, OtherTypes, control
  <2>2. CASE AllSent
    BY <1>1, <2>2 DEF AllSent, Quiet, OtherTypes, control
  <2>3. ASSUME NEW b \in Buyers, SendTo(b) PROVE OtherTypes'
    BY <1>1, <2>3 DEF SendTo, OtherTypes, control
  <2>4. ASSUME NEW b \in Buyers, Drain(b) PROVE OtherTypes'
    BY <1>1, <2>4 DEF Drain, Taken, OtherTypes, control
  <2>5. ASSUME NEW b \in Buyers, Deregister(b) PROVE OtherTypes'
    BY <1>1, <2>5 DEF Deregister, OtherTypes, control
  <2>. QED
    BY <2>1, <2>2, <2>3, <2>4, <2>5
<1>. QED
  BY <1>2, <1>3, <1>4 DEF Quietly

LEMMA PageQuietly ==
  ASSUME Inv,
         \/ Stop
         \/ \E s \in Starters : Refuse(s) \/ Halt(s)
         \/ \E s \in Starters, b \in Buyers : StartTicketBuyer(s, b)
  PROVE  Quietly
<1>1. OtherTypes /\ Fresh
  BY DEF Inv
<1>2. UNCHANGED <<tip, buyer>>
  BY DEF Refuse, StartTicketBuyer, Halt, Stop
<1>3. OtherTypes'
  <2>1. ASSUME NEW s \in Starters, Refuse(s) PROVE OtherTypes'
    BY <1>1, <2>1 DEF Refuse, OtherTypes, control, notes
  <2>2. ASSUME NEW s \in Starters, NEW b \in Buyers, StartTicketBuyer(s, b)
        PROVE  OtherTypes'
    BY <1>1, <2>2 DEF StartTicketBuyer, OtherTypes, control, notes
  <2>3. ASSUME NEW s \in Starters, Halt(s) PROVE OtherTypes'
    BY <1>1, <2>3 DEF Halt, StopAutoTicketsPurchase, Idle, OtherTypes, notes
  <2>4. CASE Stop
    BY <1>1, <2>4 DEF Stop, StopAutoTicketsPurchase, OtherTypes, notes
  <2>. QED
    BY <2>1, <2>2, <2>3, <2>4
<1>4. Fresh'
  <2>1. ASSUME NEW s \in Starters, Refuse(s) PROVE Fresh'
    BY <1>1, <1>2, <2>1 DEF Refuse, Fresh, Quotes, At, OtherTypes
  <2>2. ASSUME NEW s \in Starters, NEW b \in Buyers, StartTicketBuyer(s, b)
        PROVE  Fresh'
    <3>1. /\ \A t \in Starters : starter[t].of # b
          /\ At(b, "unborn") /\ starter' = [starter EXCEPT ![s] = [pc |-> "quote", of |-> b]]
      BY <2>2 DEF StartTicketBuyer, Unused
    <3>. QED
      BY <1>1, <1>2, <3>1 DEF Fresh, Quotes, At, OtherTypes
  <2>3. ASSUME NEW s \in Starters, Halt(s) PROVE Fresh'
    BY <1>1, <1>2, <2>3 DEF Halt, Idle, Fresh, Quotes, At, OtherTypes
  <2>4. CASE Stop
    BY <1>1, <1>2, <2>4 DEF Stop, Fresh, Quotes, At
  <2>. QED
    BY <2>1, <2>2, <2>3, <2>4
<1>. QED
  BY <1>2, <1>3, <1>4 DEF Quietly

LEMMA ReceiveTypes ==
  ASSUME Inv, NEW b \in Buyers, Receive(b)
  PROVE  OtherTypes' /\ UNCHANGED <<tip, starter, control>>
BY DEF Inv, Receive, Taken, OtherTypes, control

LEMMA NextInv == Inv /\ [Next]_vars => Inv'
<1> SUFFICES ASSUME Inv, [Next]_vars PROVE Inv'
  OBVIOUS
<1>1. CASE UNCHANGED vars
  BY <1>1 DEF vars, control, notes, Inv, AllGood, Good, Counted, Near, Expires,
              OtherTypes, Fresh, Quotes, At
<1>2. ASSUME NEW b \in Buyers, BuyerStep(b) PROVE Inv'
  BY <1>2, BuyerMoves, BuyerTypes, MovesInv
<1>3. ASSUME NEW b \in Buyers, Receive(b) PROVE Inv'
  BY <1>3, ReceiveMoves, ReceiveTypes, MovesInv DEF Inv
<1>4. ASSUME NEW s \in Starters, Register(s) PROVE Inv'
  BY <1>4, RegisterInv
<1>5. CASE \/ Stop
           \/ \E s \in Starters : Refuse(s) \/ Halt(s)
           \/ \E s \in Starters, b \in Buyers : StartTicketBuyer(s, b)
  BY <1>5, PageQuietly, QuietlyInv
<1>6. CASE \/ LockToSend \/ AllSent
           \/ \E b \in Buyers : SendTo(b) \/ Drain(b) \/ Deregister(b)
  BY <1>6, ServerQuietly, QuietlyInv
<1>. QED
  BY <1>1, <1>2, <1>3, <1>4, <1>5, <1>6, AttachInv DEF Next, Page, Send

\* The variables keep their types, and no purchase has more tickets under way
\* than it was planned for (ticket.go, createtx.go).
THEOREM TypeCorrect == Spec => []TypeOK
BY InitInv, NextInv, TypesOfInv, PTL DEF Spec

LEMMA InvHolds == Spec => []Inv
BY InitInv, NextInv, PTL DEF Spec

-----------------------------------------------------------------------------
(* The price and the expiry *)

\* A ticket that is recorded can be mined only in blocks whose price it pays,
\* though its expiry was set at the tip that the loop was told of, and checked
\* and its price read at two later ones (ticket.go, createtx.go).
THEOREM TicketsPayTheirInterval == Spec => []PaysItsInterval
<1>1. Inv => PaysItsInterval
  BY DEF Inv, AllGood, Good, Counted, PaysItsInterval, Recorded, Priced
<1>. QED
  BY <1>1, InvHolds, PTL

\* If no block came since the loop was told of the tip, some block may hold the
\* ticket after the one that holds its split (ticket.go).
THEOREM TicketsCanBeMined == Spec => []CanBeMined
<1>1. Inv => CanBeMined
  BY DEF Inv, AllGood, Good, Counted, CanBeMined, Recorded, Expires, InPurchase, Priced
<1>. QED
  BY <1>1, InvHolds, PTL

-----------------------------------------------------------------------------
(* The registered buyer *)

OneStarter == \A s, r \in Starters : s = r

\* While one confirmation is under way no buyer is registered, and a context
\* that was not given to a goroutine is not cancelled.
Control ==
  /\ RegisteredIsLive
  /\ \A s \in Starters : Quotes(s) => registered = None
  /\ \A b \in Buyers : At(b, "unborn") => b \notin cancelled

\* A step that moves running buyers along, and cancels none.
LEMMA ControlKept ==
  ASSUME Inv, Control, UNCHANGED <<control, starter>>,
         \A b \in Buyers : /\ Running(b)' <=> Running(b)
                           /\ At(b, "unborn")' => At(b, "unborn")
  PROVE  Control'
BY DEF Inv, OtherTypes, Control, RegisteredIsLive, Running, At, Quotes, control

LEMMA BuyerKeeps ==
  ASSUME Inv, Control, NEW b \in Buyers,
         \/ NotSynced(b) \/ (\E n \in 0 .. MaxBuy : Plan(b, n)) \/ Purchase(b)
         \/ Subscribe(b) \/ CannotRun(b) \/ LeaveLoop(b) \/ Fail(b)
  PROVE  Control'
<1>1. AllGood
  BY DEF Inv
<1>2. CASE NotSynced(b) \/ (\E n \in 0 .. MaxBuy : Plan(b, n)) \/ Purchase(b)
  <2>1. PICK r : TurnTo(b, r)
    BY <1>1, <1>2, TurnGood
  <2>2. Running(b) /\ r.pc \notin {"unborn", "ended"}
    BY <2>1, TurnMoves
  <2>3. UNCHANGED <<control, starter>>
    BY <1>1, <1>2, TurnGood DEF Steps
  <2>. QED
    BY <1>1, <2>1, <2>2, <2>3, ControlKept DEF TurnTo, Running, At, AllGood
<1>3. CASE Subscribe(b) \/ CannotRun(b)
  <2>1. /\ At(b, "subscribe") /\ UNCHANGED <<control, starter>>
        /\ Goto(b, "select") \/ Goto(b, "stop")
    BY <1>3 DEF Subscribe, CannotRun, Steps
  <2>. QED
    BY <1>1, <2>1, ControlKept DEF Goto, Running, At, AllGood, Buyer
<1>4. CASE LeaveLoop(b) \/ Fail(b)
  <2>1. /\ Running(b) /\ buyer[b].pc # "unborn" /\ UNCHANGED <<control, starter>>
        /\ buyer' = [buyer EXCEPT ![b] = [Unborn EXCEPT !.pc = "stop"]]
    BY <1>4 DEF LeaveLoop, Fail, Return, Gone, At, Running
  <2>2. [Unborn EXCEPT !.pc = "stop"].pc = "stop"
    BY DEF Unborn
  <2>. QED
    BY <1>1, <2>1, <2>2, ControlKept DEF Running, At, AllGood
<1>. QED
  BY <1>2, <1>3, <1>4

LEMMA ControlNext ==
  ASSUME OneStarter, Inv, Control, [Next]_vars
  PROVE  Control'
<1>1. AllGood /\ OtherTypes /\ Fresh
  BY DEF Inv
<1>2. CASE UNCHANGED vars
  BY <1>2, ControlKept DEF vars, Running, At
<1>3. ASSUME NEW b \in Buyers, BuyerStep(b), ~EndBuyer(b) PROVE Control'
  BY <1>3, BuyerKeeps DEF BuyerStep
<1>4. ASSUME NEW b \in Buyers, EndBuyer(b) PROVE Control'
  <2>1. /\ buyer' = [buyer EXCEPT ![b] = [Unborn EXCEPT !.pc = "ended"]]
        /\ At(b, "stop") /\ UNCHANGED starter /\ StopAutoTicketsPurchase
    BY <1>4 DEF EndBuyer, Gone
  <2>2. [Unborn EXCEPT !.pc = "ended"].pc = "ended"
    BY DEF Unborn
  <2>3. \A c \in Buyers : c # b => buyer'[c] = buyer[c]
    BY <1>1, <2>1 DEF AllGood
  <2>4. registered # None => ~At(registered, "unborn")
    BY DEF Control, RegisteredIsLive, Running, At
  <2>. QED
    BY <1>1, <2>1, <2>2, <2>3, <2>4 DEF Control, RegisteredIsLive, Quotes,
       StopAutoTicketsPurchase, Running, At, OtherTypes, AllGood
<1>5. ASSUME NEW b \in Buyers, Receive(b) PROVE Control'
  <2>1. PICK r : buyer' = [buyer EXCEPT ![b] = r]
    BY <1>1, <1>5, ReceiveMoves DEF Moves
  <2>. QED
    BY <1>1, <1>5, <2>1, ReceiveMoves, ReceiveTypes, ControlKept DEF Running, At, AllGood
<1>6. ASSUME NEW s \in Starters, Register(s) PROVE Control'
  <2>. DEFINE b == starter[s].of
  <2>1. b \in Buyers /\ At(b, "unborn") /\ registered = None
    BY <1>1, <1>6 DEF Register, Fresh, Quotes, Control
  <2>2. b \notin cancelled
    BY <2>1 DEF Control
  <2>3. \A c \in Buyers : c \notin cancelled => ~Running(c)
    BY <2>1 DEF Control, RegisteredIsLive, OtherTypes, Buyers, None
  <2>4. /\ registered' = b /\ cancelled' = cancelled
        /\ buyer' = [buyer EXCEPT ![b].pc = "subscribe"]
    BY <1>6 DEF Register
  <2>5. \A t \in Starters : ~Quotes(t)'
    BY <1>1, <1>6 DEF OneStarter, Register, Idle, Quotes, OtherTypes
  <2>6. buyer'[b].pc = "subscribe" /\ \A c \in Buyers : c # b => buyer'[c] = buyer[c]
    BY <1>1, <2>1, <2>4 DEF AllGood, Buyer
  <2>. QED
    BY <2>1, <2>2, <2>3, <2>4, <2>5, <2>6 DEF Control, RegisteredIsLive, Running, At
<1>7. CASE \/ Stop \/ \E s \in Starters : Halt(s)
  <2>1. /\ StopAutoTicketsPurchase /\ UNCHANGED buyer
        /\ \A s \in Starters : Quotes(s)' => Quotes(s)
    BY <1>1, <1>7 DEF Stop, Halt, Idle, Quotes, OtherTypes
  <2>2. registered # None => ~At(registered, "unborn")
    BY DEF Control, RegisteredIsLive, Running, At
  <2>. QED
    BY <1>1, <2>1, <2>2 DEF Control, RegisteredIsLive, StopAutoTicketsPurchase,
       Running, At, OtherTypes
<1>8. ASSUME NEW s \in Starters,
             Refuse(s) \/ \E b \in Buyers : StartTicketBuyer(s, b)
      PROVE  Control'
  <2>1. /\ UNCHANGED <<control, buyer>>
        /\ \A t \in Starters : Quotes(t)' => Quotes(t) \/ registered = None
    BY <1>1, <1>8 DEF Refuse, StartTicketBuyer, Quotes, OtherTypes
  <2>. QED
    BY <2>1 DEF Control, RegisteredIsLive, Running, At, control
<1>9. CASE \/ LockToSend \/ AllSent
           \/ \E b \in Buyers : SendTo(b) \/ Drain(b) \/ Deregister(b)
  BY <1>9, ServerQuietly, ControlKept DEF Quietly, Running, At
<1>10. ASSUME NEW h \in 1 .. MaxHeight, NEW mined \in SUBSET MayBeMined,
              Attach(h, mined)
       PROVE  Control'
  <2>1. UNCHANGED <<control, starter>>
    BY <1>10 DEF Attach
  <2>2. \A b \in Buyers : buyer'[b].pc = buyer[b].pc
    BY <1>1, <1>10 DEF Attach, AllGood, Buyer
  <2>. QED
    BY <2>1, <2>2, ControlKept DEF Running, At
<1>. QED
  BY <1>2, <1>3, <1>4, <1>5, <1>6, <1>7, <1>8, <1>9, <1>10 DEF Next, Page, Send

\* With one confirmation at a time, the buyer that the toggle shows is a live one,
\* and the only one that was not told to stop (ticket.go, stake_overview.go).
THEOREM OneLiveBuyer ==
  ASSUME OneStarter
  PROVE  Spec => []RegisteredIsLive
<1>1. Init => Control
  BY Constants DEF Init, Control, RegisteredIsLive, Quotes, Idle, Running, Unborn
<1>2. Inv /\ Control /\ [Next]_vars => Control'
  BY ControlNext
<1>3. Control => RegisteredIsLive
  BY DEF Control
<1>. QED
  BY <1>1, <1>2, <1>3, InvHolds, PTL DEF Spec
=============================================================================
