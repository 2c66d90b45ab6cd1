-------------------------- MODULE TraderLedgerProofs --------------------------
(***************************************************************************)
(* The money of the trader, for every set of versions and symbols, all     *)
(* prices, stops, fees, slippages, limits and lots, and however often a    *)
(* slot is traded.                                                         *)
(*                                                                         *)
(* LedgerBalances is all but inductive: a sale needs the position's entry  *)
(* fee to be the one its purchase paid, which OpenCost already records.    *)
(* A snapshot adds up because every slot does (SlotsAddUp: the sums, slot  *)
(* by slot).  A loss limit holds because snapshots of a book at rest agree *)
(* and equity is never above its peak (SnapTyped).                         *)
(***************************************************************************)
EXTENDS TraderLedger, FiniteFacts

\* The rows that move money have amounts, and an entry order has a stop.
BookTyped ==
    /\ signals \subseteq Signals
    /\ \A o \in orders : /\ o.slot \in Slots /\ o.size \in Nat \ {0}
                         /\ o.side = "BUY" => o.stop \in Stops
    /\ pos \in [Slots -> Positions]
    /\ net \in [Slots -> Int] /\ realised \in [Slots -> Int] /\ fills \in [Slots -> Nat]

SnapTyped ==
    /\ price \in [Symbols -> Prices]
    /\ snap.equity \in Int /\ snap.peak \in Int /\ snap.equity <= snap.peak
    /\ days \in Nat

IInv == BookTyped /\ SnapTyped /\ LedgerBalances

-----------------------------------------------------------------------------
(* What the proofs use of the constants *)

LEMMA LedgerConstants ==
    /\ IsFiniteSet(Versions) /\ IsFiniteSet(Symbols)
    /\ Prices \subseteq Nat /\ Stops \subseteq Nat /\ 0 \notin Stops
    /\ Start \in Nat \ {0} /\ Lot \in Nat \ {0} /\ FeeBps \in Nat
    /\ 10000 + SlipBps \in Nat /\ 10000 - SlipBps \in Nat
<1>1. IsFiniteSet(Versions) /\ IsFiniteSet(Symbols)  BY LedgerAssumption
<1>2. Prices \subseteq Nat \ {0} /\ Stops \subseteq Nat \ {0}  BY LedgerAssumption
<1>3. Start \in Nat \ {0} /\ Lot \in Nat \ {0} /\ FeeBps \in Nat  BY LedgerAssumption
<1>4. SlipBps \in 0..10000  BY LedgerAssumption
<1>5. 10000 + SlipBps \in Nat /\ 10000 - SlipBps \in Nat  BY <1>4
<1> QED  BY <1>1, <1>2, <1>3, <1>5

-----------------------------------------------------------------------------
(* Lemmas about the arithmetic *)

LEMMA Division ==
    ASSUME NEW x \in Int, NEW d \in Nat \ {0}
    PROVE  /\ x \div d \in Int
           /\ x % d \in 0 .. d - 1
           /\ x = (d * (x \div d)) + (x % d)
  BY SMT

\* Rounding moves a quotient by at most a half.
LEMMA RoundingIsClose ==
    ASSUME NEW x \in Int, NEW d \in Nat \ {0}
    PROVE  /\ RoundHalfEven(x, d) \in Int
           /\ 2 * ((d * RoundHalfEven(x, d)) - x) <= d
           /\ 2 * (x - (d * RoundHalfEven(x, d))) <= d
<1> DEFINE q == x \div d
           r == x % d
<1>1. q \in Int /\ r \in 0 .. d - 1 /\ x = (d * q) + r  BY Division
<1>2. CASE RoundHalfEven(x, d) = q /\ 2 * r <= d
  <2>1. (d * q) - x = -r /\ x - (d * q) = r  BY <1>1
  <2> QED  BY <1>1, <1>2, <2>1
<1>3. CASE RoundHalfEven(x, d) = q + 1 /\ 2 * r >= d
  <2>1. d * (q + 1) = (d * q) + d  BY <1>1
  <2>2. (d * (q + 1)) - x = d - r /\ x - (d * (q + 1)) = r - d  BY <1>1, <2>1
  <2> QED  BY <1>1, <1>3, <2>2
<1> QED  BY <1>1, <1>2, <1>3 DEF RoundHalfEven

\* A whole number that rounds a number from 0 up is not negative.
LEMMA RoundingIsNat ==
    ASSUME NEW x \in Nat, NEW d \in Nat \ {0}
    PROVE  RoundHalfEven(x, d) \in Nat
<1>1. x \div d \in Nat  BY SMT
<1> QED  BY <1>1 DEF RoundHalfEven

\* The notional of a product of price and size.
LEMMA NotionalIsClose ==
    ASSUME NEW x \in Int
    PROVE  /\ RoundHalfEven(x, Lot) \in Int
           /\ 2 * ((Lot * RoundHalfEven(x, Lot)) - x) <= Lot
           /\ 2 * (x - (Lot * RoundHalfEven(x, Lot))) <= Lot
<1>1. Lot \in Nat \ {0}  BY LedgerConstants
<1> QED  BY <1>1, RoundingIsClose

\* Prices, fees and notionals are amounts, and the notional is Dust away from
\* the product it rounds.
LEMMA FillAmounts ==
    ASSUME NEW p \in Nat, NEW size \in Nat
    PROVE  /\ BuyPrice(p) \in Nat /\ SellPrice(p) \in Nat
           /\ Fee(p, size) \in Nat
           /\ Notional(p, size) \in Int
           /\ Dust((Lot * Notional(p, size)) - (p * size), 1)
           /\ Dust((p * size) - (Lot * Notional(p, size)), 1)
<1>1. /\ Lot \in Nat \ {0} /\ FeeBps \in Nat
      /\ 10000 + SlipBps \in Nat /\ 10000 - SlipBps \in Nat
  BY LedgerConstants
<1>2. BuyPrice(p) \in Nat /\ SellPrice(p) \in Nat
  <2>1. p * (10000 + SlipBps) \in Nat /\ p * (10000 - SlipBps) \in Nat  BY <1>1
  <2> QED  BY <2>1, RoundingIsNat DEF BuyPrice, SellPrice
<1>3. p * size \in Nat  OBVIOUS
<1>4. Fee(p, size) \in Nat
  <2>1. p * size * FeeBps \in Nat /\ Lot * 10000 \in Nat \ {0}  BY <1>1, <1>3
  <2> QED  BY <2>1, RoundingIsNat DEF Fee
<1>5. /\ Notional(p, size) \in Int
      /\ 2 * ((Lot * Notional(p, size)) - (p * size)) <= Lot
      /\ 2 * ((p * size) - (Lot * Notional(p, size))) <= Lot
  BY <1>3, NotionalIsClose DEF Notional
<1>6. Lot * Notional(p, size) \in Int  BY <1>1, <1>5
<1> QED  BY <1>1, <1>2, <1>3, <1>4, <1>5, <1>6 DEF Dust

\* Dust of n fills and of one more is dust of n + 1.
LEMMA DustAdds ==
    ASSUME NEW x \in Int, NEW y \in Int, NEW n \in Nat, Dust(x, n), Dust(y, 1)
    PROVE  Dust(x + y, n + 1)
<1>1. Lot \in Nat  BY LedgerConstants
<1>2. Lot * (n + 1) = (Lot * n) + Lot /\ Lot * n \in Nat  BY <1>1
<1> QED  BY <1>1, <1>2 DEF Dust

\* An open position has amounts; the cost of none is 0.
LEMMA PositionAmounts ==
    ASSUME BookTyped, NEW s \in Slots
    PROVE  /\ pos[s].size \in Nat /\ pos[s].entry \in Nat /\ pos[s].fee \in Nat
           /\ s \in Open => pos[s].stop \in Nat
           /\ OpenCost(s) \in Int
           /\ s \notin Open => OpenCost(s) = 0
<1>1. pos[s] \in Positions /\ Stops \subseteq Nat /\ Lot \in Nat
  BY LedgerConstants DEF BookTyped
<1>2. CASE pos[s] = NoPosition
  <2>1. /\ pos[s].size = 0 /\ pos[s].entry = 0 /\ pos[s].fee = 0
        /\ s \notin Open
    BY <1>2 DEF NoPosition, Open
  <2>2. OpenCost(s) = 0  BY <2>1, <1>1 DEF OpenCost
  <2> QED  BY <2>1, <2>2
<1>3. CASE pos[s] # NoPosition
  <2>1. /\ pos[s].size \in Nat /\ pos[s].entry \in Nat /\ pos[s].fee \in Nat
        /\ pos[s].stop \in Nat /\ s \in Open
    BY <1>1, <1>3 DEF Positions, Open
  <2>2. OpenCost(s) \in Int  BY <2>1, <1>1 DEF OpenCost
  <2> QED  BY <2>1, <2>2
<1> QED  BY <1>2, <1>3

\* The same of any two numbers of fills.
LEMMA DustSum ==
    ASSUME NEW x \in Int, NEW y \in Int, NEW m \in Nat, NEW n \in Nat, Dust(x, m), Dust(y, n)
    PROVE  Dust(x + y, m + n)
<1>1. Lot \in Nat  BY LedgerConstants
<1>2. Lot * (m + n) = (Lot * m) + (Lot * n) /\ Lot * m \in Nat /\ Lot * n \in Nat  BY <1>1
<1> QED  BY <1>1, <1>2 DEF Dust

-----------------------------------------------------------------------------
(* The two transactions that move money *)

\* What a slot's books differ by.
Difference(s) == Lot * net[s] - realised[s] + OpenCost(s)

LEMMA DifferenceIsInt ==
    ASSUME BookTyped, NEW s \in Slots
    PROVE  Difference(s) \in Int
<1>1. net[s] \in Int /\ realised[s] \in Int /\ Lot \in Int  BY LedgerConstants DEF BookTyped
<1> QED  BY <1>1, PositionAmounts DEF Difference

\* A sale keeps the books of its slot balanced, and does not touch others'.
LEMMA SellKeepsBook ==
    ASSUME IInv, NEW s \in Open, NEW p \in Nat, Sell(s, p)
    PROVE  /\ pos' \in [Slots -> Positions]
           /\ net' \in [Slots -> Int] /\ realised' \in [Slots -> Int]
           /\ fills' \in [Slots -> Nat]
           /\ LedgerBalances'
<1> DEFINE size == pos[s].size
           entry == pos[s].entry
           paid == pos[s].fee
           fee == Fee(p, size)
           notional == Notional(p, size)
<1>1. BookTyped /\ s \in Slots /\ Lot \in Nat  BY LedgerConstants DEF IInv, Open
<1>2. size \in Nat /\ entry \in Nat /\ paid \in Nat  BY <1>1, PositionAmounts
<1>3. /\ fee \in Nat /\ notional \in Int
      /\ Dust((Lot * notional) - (p * size), 1)
  BY <1>2, FillAmounts
<1>4. /\ net[s] \in Int /\ realised[s] \in Int /\ fills[s] \in Nat
      /\ Dust(Difference(s), fills[s])
  BY <1>1 DEF BookTyped, IInv, LedgerBalances, Difference
<1>5. /\ pos' = [pos EXCEPT ![s] = NoPosition]
      /\ net' = [net EXCEPT ![s] = @ + notional - fee]
      /\ realised' = [realised EXCEPT ![s] = @ + (p - entry) * size - Lot * (paid + fee)]
      /\ fills' = [fills EXCEPT ![s] = @ + 1]
  BY DEF Sell
<1> HIDE DEF size, entry, paid, fee, notional
<1>6. /\ (p - entry) * size \in Int
      /\ Lot * (paid + fee) \in Int
      /\ (p - entry) * size = (p * size) - (size * entry)
      /\ Lot * (paid + fee) = (Lot * paid) + (Lot * fee)
      /\ Lot * (net[s] + notional - fee) = (Lot * net[s]) + (Lot * notional) - (Lot * fee)
      /\ p * size \in Int /\ size * entry \in Int /\ Lot * paid \in Int
      /\ Lot * fee \in Int /\ Lot * notional \in Int /\ Lot * net[s] \in Int
  BY <1>1, <1>2, <1>3, <1>4
<1>7. /\ pos' \in [Slots -> Positions]
      /\ net' \in [Slots -> Int] /\ realised' \in [Slots -> Int]
      /\ fills' \in [Slots -> Nat]
  BY <1>1, <1>3, <1>4, <1>5, <1>6 DEF BookTyped, Positions
<1>8. /\ pos'[s] = NoPosition
      /\ net'[s] = net[s] + notional - fee
      /\ realised'[s] = realised[s] + (p - entry) * size - Lot * (paid + fee)
      /\ fills'[s] = fills[s] + 1
  BY <1>1, <1>5 DEF BookTyped
<1>9. Difference(s)' = Difference(s) + ((Lot * notional) - (p * size))
  <2>1. OpenCost(s)' = 0  BY <1>1, <1>8 DEF OpenCost, NoPosition
  <2>2. OpenCost(s) = (size * entry) + (Lot * paid)  BY DEF OpenCost, size, entry, paid
  <2>3. Difference(s) = (Lot * net[s]) - realised[s] + ((size * entry) + (Lot * paid))
    BY <2>2 DEF Difference
  <2>4. Difference(s)' = (Lot * net'[s]) - realised'[s] + 0
    BY <2>1 DEF Difference
  <2> QED  BY <1>4, <1>6, <1>8, <2>3, <2>4
<1>10. Dust(Difference(s)', fills'[s])
  <2>1. Difference(s) \in Int  BY <1>1, DifferenceIsInt
  <2>2. Dust(Difference(s) + ((Lot * notional) - (p * size)), fills[s] + 1)
    BY <1>3, <1>4, <1>6, <2>1, DustAdds
  <2> QED  BY <1>8, <1>9, <2>2
<1>11. ASSUME NEW t \in Slots, t # s
       PROVE  Dust(Difference(t)', fills'[t])
  <2>1. pos'[t] = pos[t] /\ net'[t] = net[t] /\ realised'[t] = realised[t]
        /\ fills'[t] = fills[t]
    BY <1>1, <1>5, <1>11 DEF BookTyped
  <2>2. Dust(Difference(t), fills[t])  BY DEF IInv, LedgerBalances, Difference
  <2> QED  BY <2>1, <2>2 DEF Difference, OpenCost
<1> QED  BY <1>7, <1>10, <1>11 DEF LedgerBalances, Difference

\* So does a purchase.
LEMMA BuyKeepsBook ==
    ASSUME IInv, NEW o \in orders, BuyFill(o)
    PROVE  /\ pos' \in [Slots -> Positions]
           /\ net' \in [Slots -> Int] /\ fills' \in [Slots -> Nat]
           /\ LedgerBalances'
<1> DEFINE s == o.slot
           size == o.size
<1>1. /\ BookTyped /\ Lot \in Nat /\ Prices \subseteq Nat /\ Stops \subseteq Nat
      /\ s \in Slots /\ size \in Nat \ {0} /\ o.stop \in Stops /\ s \notin Open
  BY LedgerConstants DEF IInv, BookTyped, BuyFill
<1>2. PICK open \in Prices :
        /\ net' = [net EXCEPT ![s] = @ - (Notional(BuyPrice(open), size)
                                           + Fee(BuyPrice(open), size))]
        /\ pos' = [pos EXCEPT ![s] = [size |-> size, entry |-> BuyPrice(open),
                                       fee |-> Fee(BuyPrice(open), size), stop |-> o.stop]]
  BY DEF BuyFill
<1>3. fills' = [fills EXCEPT ![s] = @ + 1] /\ realised' = realised  BY DEF BuyFill
<1> DEFINE p == BuyPrice(open)
           fee == Fee(p, size)
           notional == Notional(p, size)
<1>4. /\ p \in Nat /\ fee \in Nat /\ notional \in Int
      /\ Dust((p * size) - (Lot * notional), 1)
  BY <1>1, FillAmounts
<1>5. /\ net' = [net EXCEPT ![s] = @ - (notional + fee)]
      /\ pos' = [pos EXCEPT ![s] = [size |-> size, entry |-> p, fee |-> fee,
                                     stop |-> o.stop]]
  BY <1>2
<1>6. /\ net[s] \in Int /\ realised[s] \in Int /\ fills[s] \in Nat
      /\ Dust(Difference(s), fills[s])
  BY <1>1 DEF BookTyped, IInv, LedgerBalances, Difference
<1> HIDE DEF s, size, p, fee, notional
<1>7. /\ Lot * (net[s] - (notional + fee)) = (Lot * net[s]) - (Lot * notional) - (Lot * fee)
      /\ size * p = p * size
      /\ p * size \in Int /\ Lot * fee \in Int /\ Lot * notional \in Int /\ Lot * net[s] \in Int
  BY <1>1, <1>4, <1>6
<1>8. /\ pos' \in [Slots -> Positions]
      /\ net' \in [Slots -> Int] /\ fills' \in [Slots -> Nat]
  BY <1>1, <1>3, <1>4, <1>5, <1>6 DEF BookTyped, Positions
<1>9. /\ pos'[s] = [size |-> size, entry |-> p, fee |-> fee, stop |-> o.stop]
      /\ net'[s] = net[s] - (notional + fee)
      /\ fills'[s] = fills[s] + 1
  BY <1>1, <1>3, <1>5 DEF BookTyped
<1>10. Difference(s)' = Difference(s) + ((p * size) - (Lot * notional))
  <2>1. OpenCost(s)' = (p * size) + (Lot * fee)  BY <1>7, <1>9 DEF OpenCost
  <2>2. OpenCost(s) = 0  BY <1>1, PositionAmounts
  <2>3. Difference(s) = (Lot * net[s]) - realised[s] + 0  BY <2>2 DEF Difference
  <2>4. Difference(s)' = (Lot * net'[s]) - realised[s] + ((p * size) + (Lot * fee))
    BY <1>3, <2>1 DEF Difference
  <2> QED  BY <1>6, <1>7, <1>9, <2>3, <2>4
<1>11. Dust(Difference(s)', fills'[s])
  <2>1. Difference(s) \in Int  BY <1>1, DifferenceIsInt
  <2>2. Dust(Difference(s) + ((p * size) - (Lot * notional)), fills[s] + 1)
    BY <1>4, <1>6, <1>7, <2>1, DustAdds
  <2> QED  BY <1>9, <1>10, <2>2
<1>12. ASSUME NEW t \in Slots, t # s
       PROVE  Dust(Difference(t)', fills'[t])
  <2>1. pos'[t] = pos[t] /\ net'[t] = net[t] /\ realised'[t] = realised[t]
        /\ fills'[t] = fills[t]
    BY <1>1, <1>3, <1>5, <1>12 DEF BookTyped
  <2>2. Dust(Difference(t), fills[t])  BY DEF IInv, LedgerBalances, Difference
  <2> QED  BY <2>1, <2>2 DEF Difference, OpenCost
<1> QED  BY <1>8, <1>11, <1>12 DEF LedgerBalances, Difference

-----------------------------------------------------------------------------
(* The sums of portfolio.py *)

\* The summands of a snapshot, over the open positions.
Values  == [s \in Open |-> pos[s].size * price[s[2]]]
Gains   == [s \in Open |-> pos[s].size * (price[s[2]] - pos[s].entry)]
FeesOf  == [s \in Open |-> pos[s].fee]

Total(f, S) == SumFunctionOnSet(f, S)

\* The sums are over finite sets, of whole numbers.
LEMMA Summands ==
    ASSUME BookTyped, price \in [Symbols -> Prices]
    PROVE  /\ IsFiniteSet(Slots) /\ Open \subseteq Slots /\ IsFiniteSet(Open)
           /\ \A s \in Slots : net[s] \in Int /\ realised[s] \in Int /\ fills[s] \in Int
           /\ \A s \in Open : /\ Values[s] \in Int /\ Gains[s] \in Int /\ FeesOf[s] \in Int
                              /\ Values[s] - Gains[s] = pos[s].size * pos[s].entry
<1>1. IsFiniteSet(Slots)  BY LedgerConstants, FS_Product DEF Slots
<1>2. Open \subseteq Slots  BY DEF Open
<1>3. IsFiniteSet(Open)  BY <1>1, <1>2, FS_Subset
<1>4. \A s \in Slots : net[s] \in Int /\ realised[s] \in Int /\ fills[s] \in Int
  BY DEF BookTyped
<1>5. ASSUME NEW s \in Open
      PROVE  /\ Values[s] \in Int /\ Gains[s] \in Int /\ FeesOf[s] \in Int
             /\ Values[s] - Gains[s] = pos[s].size * pos[s].entry
  <2>1. s \in Slots /\ s[2] \in Symbols  BY <1>2 DEF Slots
  <2>2. price[s[2]] \in Nat
    <3>1. price[s[2]] \in Prices  BY <2>1
    <3>2. Prices \subseteq Nat  BY LedgerConstants
    <3> QED  BY <3>1, <3>2
  <2>3. pos[s].size \in Nat /\ pos[s].entry \in Nat /\ pos[s].fee \in Nat
    BY <2>1, PositionAmounts
  <2> DEFINE size == pos[s].size
             entry == pos[s].entry
             close == price[s[2]]
  <2>4. Values[s] = size * close /\ Gains[s] = size * (close - entry) /\ FeesOf[s] = pos[s].fee
    BY DEF Values, Gains, FeesOf
  <2> HIDE DEF size, entry, close
  <2>5. size \in Nat /\ entry \in Nat /\ close \in Nat  BY <2>2, <2>3 DEF size, entry, close
  <2>6. size * close \in Int /\ size * entry \in Int
        /\ size * (close - entry) = (size * close) - (size * entry)
    BY <2>5
  <2>7. Values[s] - Gains[s] = size * entry  BY <2>4, <2>6
  <2> QED  BY <2>3, <2>4, <2>6, <2>7 DEF size, entry
<1> QED  BY <1>1, <1>2, <1>3, <1>4, <1>5

\* What the snapshot's equation is off by, over the slots of T.
Gap(T) == (Lot * Total(net, T)) - Total(realised, T)
            + Total(Values, Open \cap T) - Total(Gains, Open \cap T)
            + (Lot * Total(FeesOf, Open \cap T))

\* The sums over a set with one slot less.
LEMMA OneSlotLess ==
    ASSUME BookTyped, price \in [Symbols -> Prices], NEW T, T \subseteq Slots, NEW s \in T
    PROVE  /\ Gap(T) \in Int /\ Gap(T) = Difference(s) + Gap(T \ {s})
           /\ Total(fills, T) = fills[s] + Total(fills, T \ {s})
<1> DEFINE R == T \ {s}
           O == Open \cap T
           P == Open \cap R
<1>1. /\ IsFiniteSet(T) /\ IsFiniteSet(R) /\ R \subseteq Slots
      /\ IsFiniteSet(O) /\ IsFiniteSet(P) /\ P = O \ {s} /\ O \subseteq Open /\ P \subseteq Open
      /\ s \in Slots
  BY Summands, FS_Subset
<1>2. Lot \in Nat  BY LedgerConstants
<1> HIDE DEF R, O, P
<1>3. /\ \A x \in T : net[x] \in Int /\ realised[x] \in Int /\ fills[x] \in Int
      /\ \A x \in R : net[x] \in Int /\ realised[x] \in Int /\ fills[x] \in Int
      /\ \A x \in O : Values[x] \in Int /\ Gains[x] \in Int /\ FeesOf[x] \in Int
      /\ \A x \in P : Values[x] \in Int /\ Gains[x] \in Int /\ FeesOf[x] \in Int
  BY <1>1, Summands
<1>4. /\ Total(net, R) \in Int /\ Total(net, T) = net[s] + Total(net, R)
      /\ Total(realised, R) \in Int /\ Total(realised, T) = realised[s] + Total(realised, R)
      /\ Total(fills, R) \in Int /\ Total(fills, T) = fills[s] + Total(fills, R)
  BY <1>1, <1>3, SumWithout DEF Total, R
<1>5. /\ Total(Values, P) \in Int /\ Total(Gains, P) \in Int /\ Total(FeesOf, P) \in Int
  BY <1>1, <1>3, SumWithout DEF Total
<1>6. net[s] \in Int /\ realised[s] \in Int  BY <1>3
<1>7. /\ Lot * (net[s] + Total(net, R)) = (Lot * net[s]) + (Lot * Total(net, R))
      /\ Lot * net[s] \in Int /\ Lot * Total(net, R) \in Int
      /\ Lot * Total(FeesOf, P) \in Int
  BY <1>2, <1>4, <1>5, <1>6
<1>8. Gap(R) = (Lot * Total(net, R)) - Total(realised, R)
                 + Total(Values, P) - Total(Gains, P) + (Lot * Total(FeesOf, P))
  BY DEF Gap, P
<1>9. Gap(T) = (Lot * net[s]) + (Lot * Total(net, R)) - (realised[s] + Total(realised, R))
                 + Total(Values, O) - Total(Gains, O) + (Lot * Total(FeesOf, O))
  <2>1. Gap(T) = (Lot * Total(net, T)) - Total(realised, T)
                   + Total(Values, O) - Total(Gains, O) + (Lot * Total(FeesOf, O))
    BY DEF Gap, O
  <2>2. Lot * Total(net, T) = (Lot * net[s]) + (Lot * Total(net, R))  BY <1>4, <1>7
  <2>3. /\ Total(Values, O) \in Int /\ Total(Gains, O) \in Int /\ Total(FeesOf, O) \in Int
    BY <1>1, <1>3, SumWithout DEF Total
  <2>4. Lot * Total(FeesOf, O) \in Int  BY <1>2, <2>3
  <2> QED  BY <1>4, <1>6, <1>7, <2>1, <2>2, <2>3, <2>4
<1>10. CASE s \in Open
  <2>1. s \in O  BY <1>10 DEF O
  <2>2. /\ Total(Values, O) = Values[s] + Total(Values, P)
        /\ Total(Gains, O) = Gains[s] + Total(Gains, P)
        /\ Total(FeesOf, O) = FeesOf[s] + Total(FeesOf, P)
    BY <1>1, <1>3, <2>1, SumWithout DEF Total
  <2>3. /\ Values[s] \in Int /\ Gains[s] \in Int /\ FeesOf[s] \in Int
        /\ Values[s] - Gains[s] = pos[s].size * pos[s].entry
    BY <1>10, Summands
  <2>4. FeesOf[s] = pos[s].fee  BY <1>10 DEF FeesOf
  <2>5. /\ Lot * (FeesOf[s] + Total(FeesOf, P)) = (Lot * FeesOf[s]) + (Lot * Total(FeesOf, P))
        /\ Lot * FeesOf[s] \in Int
    BY <1>2, <1>5, <2>3
  <2>6. Difference(s) = (Lot * net[s]) - realised[s] + ((Values[s] - Gains[s]) + (Lot * FeesOf[s]))
    BY <2>3, <2>4 DEF Difference, OpenCost
  <2> QED  BY <1>4, <1>5, <1>6, <1>7, <1>8, <1>9, <2>2, <2>3, <2>5, <2>6 DEF R
<1>11. CASE s \notin Open
  <2>1. O = P  BY <1>1, <1>11 DEF O
  <2>2. OpenCost(s) = 0  BY <1>1, <1>11, PositionAmounts
  <2>3. Difference(s) = (Lot * net[s]) - realised[s] + 0  BY <2>2 DEF Difference
  <2> QED  BY <1>4, <1>5, <1>6, <1>7, <1>8, <1>9, <2>1, <2>3 DEF R
<1> QED  BY <1>10, <1>11

\* Over any slots the equation is off by the dust of their fills.
LEMMA SlotsAddUp ==
    ASSUME IInv, price \in [Symbols -> Prices]
    PROVE  Dust(Gap(Slots), AllFills)
<1> DEFINE Bad == {T \in FiniteSubsetsOf(Slots) :
                     ~(Total(fills, T) \in Nat /\ Gap(T) \in Int /\ Dust(Gap(T), Total(fills, T)))}
<1>1. BookTyped /\ Lot \in Nat  BY LedgerConstants DEF IInv
<1>2. \A T \in FiniteSubsetsOf(Slots) : T \subseteq Slots /\ IsFiniteSet(T)
  BY DEF FiniteSubsetsOf
<1>3. Bad = {}
  <2> SUFFICES ASSUME Bad # {}  PROVE FALSE  OBVIOUS
  <2>1. Bad \subseteq FiniteSubsetsOf(Slots)  OBVIOUS
  <2>2. PICK T \in Bad : \A U \in Bad : U \subseteq T => U = T
    <3> HIDE DEF Bad
    <3> QED  BY <2>1, MinimalCounterexample
  <2>3. T \subseteq Slots /\ IsFiniteSet(T)  BY <1>2
  <2>4. T # {}
    <3> SUFFICES ASSUME T = {}  PROVE FALSE  OBVIOUS
    <3>1. \A f : Total(f, {}) = 0  BY FS_EmptySet, SumUnfolded DEF Total
    <3>2. Total(fills, T) = 0 /\ Gap(T) = (Lot * 0) - 0 + 0 - 0 + (Lot * 0)
      BY <3>1 DEF Gap
    <3>3. Gap(T) = 0  BY <3>2, <1>1
    <3> QED  BY <1>1, <3>2, <3>3 DEF Dust
  <2>5. PICK s \in T : TRUE  BY <2>4
  <2>6. T \ {s} \in FiniteSubsetsOf(Slots) /\ T \ {s} \notin Bad
    BY <2>2, <2>3, <2>5, FS_Subset DEF FiniteSubsetsOf
  <2>7. /\ Total(fills, T \ {s}) \in Nat /\ Gap(T \ {s}) \in Int
        /\ Dust(Gap(T \ {s}), Total(fills, T \ {s}))
    BY <2>6
  <2>8. /\ Gap(T) \in Int /\ Gap(T) = Difference(s) + Gap(T \ {s})
        /\ Total(fills, T) = fills[s] + Total(fills, T \ {s})
    BY <1>1, <2>3, <2>5, OneSlotLess
  <2>9. s \in Slots /\ fills[s] \in Nat /\ Difference(s) \in Int /\ Dust(Difference(s), fills[s])
    BY <1>1, <2>3, <2>5, DifferenceIsInt DEF IInv, BookTyped, LedgerBalances, Difference
  <2>10. Dust(Gap(T), Total(fills, T))
    BY <1>1, <2>7, <2>8, <2>9, DustSum
  <2> QED  BY <2>7, <2>8, <2>9, <2>10
<1>4. Slots \in FiniteSubsetsOf(Slots)  BY <1>1, Summands DEF FiniteSubsetsOf
<1>5. Dust(Gap(Slots), Total(fills, Slots))  BY <1>3, <1>4
<1>6. AllFills = Total(fills, Slots)  BY <1>1 DEF AllFills, SumFunction, BookTyped, Total
<1> QED  BY <1>5, <1>6

\* What the sums of a snapshot are.
LEMMA SnapshotSums ==
    ASSUME BookTyped, price \in [Symbols -> Prices]
    PROVE  /\ Cash \in Int /\ MarkToMarket \in Int
           /\ Lot * Cash \in Int
           /\ \A equity, profit, gain :
                equity = Lot * Cash + MarkToMarket /\ profit = Realised /\ gain = Unrealised
                  => equity - Lot * Start - profit - gain
                       + Lot * SumFunction([s \in Open |-> pos[s].fee]) = Gap(Slots)
           /\ Open = {} => MarkToMarket = 0
<1>1. Lot \in Nat /\ Start \in Nat  BY LedgerConstants
<1>2. /\ Cash = Start + Total(net, Slots) /\ Realised = Total(realised, Slots)
      /\ MarkToMarket = Total(Values, Open) /\ Unrealised = Total(Gains, Open)
      /\ SumFunction([s \in Open |-> pos[s].fee]) = Total(FeesOf, Open)
  BY DEF Cash, Realised, MarkToMarket, Unrealised, SumFunction, Total, BookTyped,
         Values, Gains, FeesOf
<1>3. /\ Total(net, Slots) \in Int /\ Total(realised, Slots) \in Int
      /\ Total(Values, Open) \in Int /\ Total(Gains, Open) \in Int /\ Total(FeesOf, Open) \in Int
  BY Summands, SumWithout DEF Total
<1>4. Open \cap Slots = Open  BY Summands
<1>5. Lot * (Start + Total(net, Slots)) = (Lot * Start) + (Lot * Total(net, Slots))
      /\ Lot * Start \in Int /\ Lot * Total(net, Slots) \in Int /\ Lot * Total(FeesOf, Open) \in Int
  BY <1>1, <1>3
<1>6. Gap(Slots) = (Lot * Total(net, Slots)) - Total(realised, Slots) + Total(Values, Open)
                     - Total(Gains, Open) + (Lot * Total(FeesOf, Open))
  BY <1>4 DEF Gap
<1>7. ASSUME NEW equity, NEW profit, NEW gain,
             equity = Lot * Cash + MarkToMarket, profit = Realised, gain = Unrealised
      PROVE  equity - Lot * Start - profit - gain
               + Lot * SumFunction([s \in Open |-> pos[s].fee]) = Gap(Slots)
  BY <1>2, <1>3, <1>5, <1>6, <1>7
<1>8. Cash \in Int /\ MarkToMarket \in Int /\ Lot * Cash \in Int  BY <1>1, <1>2, <1>3, <1>5
<1>9. Open = {} => MarkToMarket = 0  BY <1>2, FS_EmptySet, SumUnfolded DEF Total
<1> QED  BY <1>7, <1>8, <1>9

\* Equity is an amount and not above its peak.
LEMMA SnapStep ==
    ASSUME IInv, [Next]_vars
    PROVE  SnapTyped'
<1> USE DEF SnapTyped
<1>1. CASE NewBars  BY <1>1 DEF IInv, NewBars
<1>2. CASE Snapshot
  <2>1. BookTyped /\ SnapTyped  BY DEF IInv
  <2>2. Lot * Cash + MarkToMarket \in Int  BY <2>1, SnapshotSums
  <2> DEFINE equity == Lot * Cash + MarkToMarket
  <2>3. /\ snap'.equity = equity
        /\ snap'.peak = IF equity > snap.peak THEN equity ELSE snap.peak
        /\ price' = price /\ days' = days
    BY <1>2 DEF Snapshot
  <2> HIDE DEF equity
  <2>4. equity \in Int  BY <2>2 DEF equity
  <2> QED  BY <2>1, <2>3, <2>4
<1>3. CASE Midnight  BY <1>3 DEF IInv, Midnight
<1>4. CASE ~NewBars /\ ~Snapshot /\ ~Midnight
  <2>1. UNCHANGED <<price, snap, days>>
    BY <1>4 DEF Next, vars, ApproveBuy, ApproveExit, Order, Block, StopClose,
                BuyFill, ExitFill, RejectExit, PhaseOver
  <2> QED  BY <2>1 DEF IInv
<1> QED  BY <1>1, <1>2, <1>3, <1>4

-----------------------------------------------------------------------------
(* The invariant *)

LEMMA InitHolds == Init => IInv
<1> SUFFICES ASSUME Init PROVE IInv  OBVIOUS
<1>1. BookTyped  BY DEF Init, BookTyped, Positions
<1>3. SnapTyped
  <2>1. Lot * Start \in Int  BY LedgerConstants
  <2> QED  BY <2>1 DEF Init, SnapTyped
<1>2. ASSUME NEW s \in Slots
      PROVE  Dust(Lot * net[s] - realised[s] + OpenCost(s), fills[s])
  <2>1. Lot \in Nat  BY LedgerConstants
  <2>2. net[s] = 0 /\ realised[s] = 0 /\ fills[s] = 0 /\ pos[s] = NoPosition
    BY DEF Init
  <2>3. OpenCost(s) = 0  BY <2>1, <2>2 DEF OpenCost, NoPosition
  <2>4. Lot * net[s] - realised[s] + OpenCost(s) = 0  BY <2>1, <2>2, <2>3
  <2> QED  BY <2>1, <2>2, <2>4 DEF Dust
<1> QED  BY <1>1, <1>2, <1>3 DEF IInv, LedgerBalances

\* A step that leaves the book alone keeps the invariant if what it adds to the
\* signals and the orders is typed.
LEMMA BookUntouched ==
    ASSUME IInv, SnapTyped', UNCHANGED <<pos, net, realised, fills>>, signals' \subseteq Signals,
           \A o \in orders' : o \in orders \/
                /\ o.slot \in Slots /\ o.size \in Nat \ {0}
                /\ o.side = "BUY" => o.stop \in Stops
    PROVE  IInv'
<1>1. BookTyped'  BY DEF IInv, BookTyped
<1>2. LedgerBalances'  BY DEF IInv, LedgerBalances, OpenCost
<1> QED  BY <1>1, <1>2 DEF IInv

\* What a new order copies from its signal is typed.
LEMMA OrderIsTyped ==
    ASSUME IInv, SnapTyped', NEW g \in signals, NEW side, NEW size \in Nat \ {0},
           side = "BUY" => g.kind = "BUY", Order(g, side, size)
    PROVE  IInv'
<1>1. g \in Signals  BY DEF IInv, BookTyped
<1>2. g.slot \in Slots /\ (side = "BUY" => g.stop \in Stops)  BY <1>1 DEF Signals
<1>3. signals' \subseteq Signals  BY DEF IInv, BookTyped, Order
<1> QED  BY <1>2, <1>3, BookUntouched DEF Order

LEMMA StepHolds == IInv /\ [Next]_vars => IInv'
<1> SUFFICES ASSUME IInv, [Next]_vars PROVE IInv'  OBVIOUS
<1>0. SnapTyped'  BY SnapStep
<1> USE <1>0 DEF IInv, BookTyped
<1>1. CASE NewBars
  <2>1. signals' \subseteq Signals  BY <1>1 DEF NewBars
  <2> QED  BY <1>1, <2>1, BookUntouched DEF NewBars
<1>2. CASE Midnight  BY <1>2, BookUntouched DEF Midnight
<1>3. ASSUME NEW g \in signals, ApproveBuy(g) PROVE IInv'
  <2>1. Size(g.slot[1], g.entry, g.stop) \in Nat \ {0}  BY <1>3 DEF ApproveBuy, WithinCaps
  <2> QED  BY <1>3, <2>1, OrderIsTyped DEF ApproveBuy
<1>4. ASSUME NEW g \in signals, ApproveExit(g) PROVE IInv'
  <2>1. pos[g.slot] \in Positions /\ pos[g.slot] # NoPosition
    BY <1>4 DEF ApproveExit, Open
  <2>2. pos[g.slot].size \in Nat \ {0}  BY <2>1 DEF Positions
  <2> QED  BY <1>4, <2>2, OrderIsTyped DEF ApproveExit
<1>5. ASSUME NEW g \in signals, Block(g) PROVE IInv'
  BY <1>5, BookUntouched DEF Block
<1>6. ASSUME NEW s \in Open, StopClose(s) PROVE IInv'
  <2>1. s \in Slots /\ pos[s].stop \in Nat
    BY PositionAmounts DEF Open
  <2>2. SellPrice(pos[s].stop) \in Nat  BY <2>1, FillAmounts
  <2> QED  BY <1>6, <2>2, SellKeepsBook DEF StopClose
<1>7. ASSUME NEW o \in orders, BuyFill(o) PROVE IInv'
  <2>1. signals' \subseteq Signals /\ orders' \subseteq orders /\ realised' = realised
    BY <1>7 DEF BuyFill
  <2> QED  BY <1>7, <2>1, BuyKeepsBook
<1>8. ASSUME NEW o \in orders, ExitFill(o) PROVE IInv'
  <2>1. o.slot \in Open /\ signals' \subseteq Signals /\ orders' \subseteq orders
    BY <1>8 DEF ExitFill
  <2>2. PICK open \in Prices : Sell(o.slot, SellPrice(open))  BY <1>8 DEF ExitFill
  <2>3. open \in Nat  BY LedgerConstants
  <2>4. SellPrice(open) \in Nat  BY <2>3, FillAmounts
  <2> QED  BY <2>1, <2>2, <2>4, SellKeepsBook
<1>9. ASSUME NEW o \in orders, RejectExit(o) PROVE IInv'
  BY <1>9, BookUntouched DEF RejectExit
<1>10. CASE Snapshot  BY <1>10, BookUntouched DEF Snapshot
<1>11. CASE PhaseOver  BY <1>11, BookUntouched DEF PhaseOver
<1>12. CASE UNCHANGED vars  BY <1>12, BookUntouched DEF vars
<1> QED  BY <1>1, <1>2, <1>3, <1>4, <1>5, <1>6, <1>7, <1>8, <1>9, <1>10, <1>11, <1>12
         DEF Next

\* The invariant of the ledger.
LEMMA Invariance == Spec => []IInv
  BY InitHolds, StepHolds, PTL DEF Spec

-----------------------------------------------------------------------------
(* Theorems *)

\* The fills and the positions of every slot tell one story, after every step.
THEOREM BooksBalance == Spec => []LedgerBalances
<1>1. IInv => LedgerBalances  BY DEF IInv
<1> QED  BY Invariance, <1>1, PTL

\* compute_and_persist_snapshot: the equity it stores is the starting cash plus
\* realised and unrealised profit less the entry fees of what is open, up to
\* half a quantum a fill, for every book and any prices.
THEOREM SnapshotsAddUp == Spec => SnapshotAddsUp
<1>1. ASSUME IInv, Next, snap' # snap
      PROVE  Dust(snap'.equity - Lot * Start - snap'.realised - snap'.unrealised
                    + Lot * SumFunction([s \in Open |-> pos[s].fee]), AllFills)
  <2>1. Snapshot
    BY <1>1 DEF Next, NewBars, Midnight, ApproveBuy, ApproveExit, Order, Block, StopClose,
                BuyFill, ExitFill, RejectExit, PhaseOver
  <2>2. /\ snap'.equity = Lot * Cash + MarkToMarket
        /\ snap'.realised = Realised /\ snap'.unrealised = Unrealised
    BY <2>1 DEF Snapshot
  <2>3. BookTyped /\ price \in [Symbols -> Prices]  BY <1>1 DEF IInv, SnapTyped
  <2>4. Dust(Gap(Slots), AllFills)  BY <1>1, <2>3, SlotsAddUp
  <2>5. snap'.equity - Lot * Start - snap'.realised - snap'.unrealised
          + Lot * SumFunction([s \in Open |-> pos[s].fee]) = Gap(Slots)
    BY <2>2, <2>3, SnapshotSums
  <2> QED  BY <2>4, <2>5
<1>2. IInv /\ [Next]_vars =>
        [snap' # snap =>
           Dust(snap'.equity - Lot * Start - snap'.realised - snap'.unrealised
                  + Lot * SumFunction([s \in Open |-> pos[s].fee]), AllFills)]_vars
  BY <1>1
<1> QED  BY Invariance, <1>2, PTL DEF Spec, SnapshotAddsUp

\* A step from rest, beyond a limit.
LEMMA RestStep ==
    ASSUME IInv, Next, AtRest, KillSwitch \/ DailyLoss \/ WeeklyLoss
    PROVE  /\ AtRest' /\ snap'.equity = snap.equity /\ snap'.peak = snap.peak
           /\ day' = day \/ days' # days
<1>1. Open = {} /\ (\A o \in orders : o.side = "SELL") /\ snap.equity = Lot * Cash
  BY DEF AtRest
<1>2. ASSUME UNCHANGED <<pos, net, snap>>, orders' \subseteq orders
      PROVE  AtRest'
  <2>1. Cash' = Cash /\ Open' = Open  BY <1>2 DEF Cash, Open
  <2> QED  BY <1>1, <1>2, <2>1 DEF AtRest
<1>3. CASE NewBars  BY <1>2, <1>3 DEF NewBars
<1>4. CASE Midnight
  <2>1. days' # days  BY <1>4 DEF Midnight, IInv, SnapTyped
  <2> QED  BY <1>2, <1>4, <2>1 DEF Midnight
<1>5. ASSUME NEW g \in signals, ApproveBuy(g) PROVE FALSE  BY <1>5 DEF ApproveBuy
<1>6. ASSUME NEW g \in signals, ApproveExit(g) PROVE FALSE  BY <1>1, <1>6 DEF ApproveExit
<1>7. ASSUME NEW g \in signals, Block(g)
      PROVE  AtRest' /\ UNCHANGED <<snap, day, week, days>>
  BY <1>2, <1>7 DEF Block
<1>8. ASSUME NEW o \in orders, BuyFill(o) PROVE FALSE  BY <1>1, <1>8 DEF BuyFill
<1>9. ASSUME NEW o \in orders, ExitFill(o) PROVE FALSE  BY <1>1, <1>9 DEF ExitFill
<1>10. ASSUME NEW o \in orders, RejectExit(o)
       PROVE  AtRest' /\ UNCHANGED <<snap, day, week, days>>
  BY <1>2, <1>10 DEF RejectExit
<1>11. CASE Snapshot
  <2>1. BookTyped /\ SnapTyped  BY DEF IInv
  <2>2. MarkToMarket = 0 /\ Lot * Cash \in Int  BY <1>1, <2>1, SnapshotSums DEF SnapTyped
  <2>3. /\ snap'.equity = Lot * Cash + MarkToMarket
        /\ snap'.peak = IF Lot * Cash + MarkToMarket > snap.peak
                        THEN Lot * Cash + MarkToMarket ELSE snap.peak
        /\ UNCHANGED <<orders, pos, net, day, week, days>>
    BY <1>11 DEF Snapshot
  <2>4. snap'.equity = snap.equity /\ snap'.peak = snap.peak
    BY <1>1, <2>1, <2>2, <2>3 DEF SnapTyped
  <2>5. Cash' = Cash /\ Open' = Open  BY <2>3 DEF Cash, Open
  <2>6. AtRest'  BY <1>1, <2>3, <2>4, <2>5 DEF AtRest
  <2> QED  BY <2>3, <2>4, <2>6
<1>12. CASE PhaseOver  BY <1>2, <1>12 DEF PhaseOver
<1> QED  BY <1>1, <1>3, <1>4, <1>5, <1>6, <1>7, <1>8, <1>9, <1>10, <1>11, <1>12 DEF Next

\* risk.evaluate_risk: the kill switch has no way back while the book is empty,
\* and the daily and the weekly limit none but a midnight, for all prices,
\* limits and capital.
THEOREM LimitsHold == Spec => LossLimitsHold
<1> DEFINE Held ==
        AtRest =>
          /\ KillSwitch => AtRest' /\ KillSwitch'
          /\ DailyLoss => (AtRest' /\ DailyLoss') \/ days' # days
          /\ WeeklyLoss => (AtRest' /\ WeeklyLoss') \/ week' # week
<1>1. ASSUME IInv, Next  PROVE Held
  <2>1. AtRest /\ KillSwitch => AtRest' /\ KillSwitch'
    BY <1>1, RestStep DEF KillSwitch
  <2>2. AtRest /\ DailyLoss => (AtRest' /\ DailyLoss') \/ days' # days
    BY <1>1, RestStep DEF DailyLoss
  <2>3. AtRest /\ WeeklyLoss => (AtRest' /\ WeeklyLoss') \/ week' # week
    BY <1>1, RestStep DEF WeeklyLoss
  <2> QED  BY <2>1, <2>2, <2>3
<1>2. IInv /\ [Next]_vars => [Held]_vars  BY <1>1
<1> QED  BY Invariance, <1>2, PTL DEF Spec, LossLimitsHold
=============================================================================
