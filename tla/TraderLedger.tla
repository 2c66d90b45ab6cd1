----------------------------- MODULE TraderLedger -----------------------------
(***************************************************************************)
(* The money of the paper trader: what the risk manager sizes and caps,    *)
(* what the executor books and what the portfolio snapshot reports.        *)
(*                                                                         *)
(* TraderPipeline models which rows there are and in which order; this     *)
(* module keeps the amounts of those rows and leaves that control out: a   *)
(* stop may be breached, and the bar of an order be stored, in any pass.   *)
(*                                                                         *)
(* Numbers are exact.  A price, a fee, a notional or cash is a whole       *)
(* number of quanta (10^-8), a size a whole number of lots, of which Lot   *)
(* make a unit; products of a price and a size, which the code does not    *)
(* round, are counted in quanta / Lot.  Equity is such a number.           *)
(*                                                                         *)
(* A phase that raises is rolled back as a whole, so that it is as if it   *)
(* had not run: any phase may be skipped.                                  *)
(***************************************************************************)
EXTENDS Integers, Sequences, FiniteSets, Functions

CONSTANTS
    Versions, Symbols,
    Prices,         \* the opens and closes of bars
    Stops,          \* the stop prices a signal may propose
    Start,          \* trader_starting_cash_gbp, in quanta
    Lot,            \* lots in a unit of size
    RiskPct,        \* risk_pct of each version, in percent
    RiskCap,        \* trader_max_risk_per_trade_pct
    TotalCap,       \* trader_max_portfolio_risk_pct
    DayCap,         \* trader_max_daily_loss_pct
    WeekCap,        \* trader_max_weekly_loss_pct
    DrawdownCap,    \* trader_max_drawdown_pct
    FeeBps,         \* fee_bps, in basis points
    SlipBps,        \* slippage_bps
    MaxOrders,      \* bound: pending orders at a time
    MaxFills,       \* bound: fills
    MaxDays,        \* bound: midnights
    MaxFaults       \* bound: phases that raise

ASSUME LedgerAssumption ==
    /\ IsFiniteSet(Versions) /\ IsFiniteSet(Symbols)
    /\ Prices \subseteq Nat \ {0} /\ Prices # {} /\ Stops \subseteq Nat \ {0}
    /\ Start \in Nat \ {0} /\ Lot \in Nat \ {0}
    /\ RiskPct \in [Versions -> Nat] /\ RiskCap \in Nat
    /\ TotalCap \in Nat /\ DayCap \in Nat /\ WeekCap \in Nat /\ DrawdownCap \in Nat
    /\ FeeBps \in Nat /\ SlipBps \in 0 .. 10000
    /\ MaxOrders \in Nat /\ MaxFills \in Nat
    /\ MaxDays \in Nat /\ MaxFaults \in Nat

\* _PER_SYMBOL_EXPOSURE_CAP_PCT
SymbolCap == 50

\* A position is looked up by version and symbol.
Slots == Versions \X Symbols

Phases == {"ingest", "risk", "stops", "fills", "snapshot"}

\* An unprocessed signal, with the close as its entry; only a BUY has a stop.
Signals == [slot : Slots, kind : {"BUY"}, entry : Prices, stop : Stops]
              \cup [slot : Slots, kind : {"EXIT"}, entry : Prices, stop : {0}]

\* A PENDING order, with the proposals of its signal.
Orders == [id : 1 .. MaxOrders, slot : Slots, side : {"BUY"}, size : Nat \ {0},
           entry : Prices, stop : Stops]
             \cup [id : 1 .. MaxOrders, slot : Slots, side : {"SELL"}, size : Nat \ {0},
                   entry : Prices, stop : {0}]

NoPosition == [size |-> 0, entry |-> 0, fee |-> 0, stop |-> 0]
Positions == {NoPosition} \cup [size : Nat \ {0}, entry : Nat, fee : Nat, stop : Stops]

\* A row of trader_portfolio_snapshots; fees and dust follow from the fills and
\* are no columns.  Amounts but cash are in quanta / Lot.
Snapshots == [cash : Int, equity : Int, unrealised : Int, realised : Int, peak : Nat]

\* The phases that may follow phase p: the i-th if i - 1 phases raise.
After(p) == CASE p = "ingest" -> <<"risk", "stops", "snapshot", "ingest">>
              [] p = "risk" -> <<"stops", "snapshot", "ingest">>
              [] p = "stops" -> <<"fills">>
              [] p = "fills" -> <<"snapshot", "ingest">>
              [] OTHER -> <<"ingest">>

VARIABLES
    price,      \* latest close of each symbol
    pc,         \* the phase that runs; execute is "stops", then "fills"
    signals,    \* unprocessed signals
    orders,     \* PENDING orders
    pos,        \* the OPEN position of each slot
    net,        \* per slot, the sum of the cash flows of its fills, in quanta
    realised,   \* per slot, the sum of realised_pnl, in quanta / Lot
    fills,      \* per slot, the number of fills
    snap,       \* the latest snapshot
    day, week,  \* equity of the latest snapshot at or before midnight, Monday
    days,       \* midnights so far
    faults      \* phases that have raised

vars == <<price, pc, signals, orders, pos, net, realised, fills, snap, day, week, days,
          faults>>

-----------------------------------------------------------------------------
(* money.py *)

\* x / d, rounded to a whole number; a tie goes to the even one.
RoundHalfEven(x, d) ==
    LET q == x \div d
        r == x % d
    IN IF 2 * r > d \/ (2 * r = d /\ q % 2 = 1) THEN q + 1 ELSE q

\* apply_slippage_buy, apply_slippage_sell
BuyPrice(p) == RoundHalfEven(p * (10000 + SlipBps), 10000)
SellPrice(p) == RoundHalfEven(p * (10000 - SlipBps), 10000)

\* The notional of a fill and its fee (_compute_fill, fee_for_fill).
Notional(p, size) == RoundHalfEven(p * size, Lot)
Fee(p, size) == RoundHalfEven(p * size * FeeBps, Lot * 10000)

-----------------------------------------------------------------------------
(* What the queries of risk.py and portfolio.py add up *)

Open == {s \in Slots : pos[s] # NoPosition}

\* cash = starting cash + the cash flows of every fill
Cash == Start + SumFunction(net)

Realised == SumFunction(realised)

\* The market value of the open positions at the latest closes.
MarkToMarket == SumFunction([s \in Open |-> pos[s].size * price[s[2]]])

Unrealised == SumFunction([s \in Open |-> pos[s].size * (price[s[2]] - pos[s].entry)])

Distance(entry, stop) == IF entry > stop THEN entry - stop ELSE stop - entry

\* compute_total_open_risk
OpenRisk == SumFunction([s \in Open |-> pos[s].size * Distance(pos[s].entry, pos[s].stop)])

\* compute_symbol_existing_notional
SymbolNotional(y) ==
    SumFunction([s \in {t \in Open : t[2] = y} |-> pos[s].size * price[y]])

\* The number of fills so far.
AllFills == SumFunction(fills)

\* The phase is over; the next one that does not raise starts.
NextPhase ==
    \E i \in DOMAIN After(pc) :
        /\ faults + i - 1 <= MaxFaults
        /\ pc' = After(pc)[i] /\ faults' = faults + i - 1

-----------------------------------------------------------------------------
(* Ingestion and signals, as TraderPipeline has them *)

\* New bars close and the signal engine evaluates them: an exit where a
\* position is open, an entry anywhere (a tier-3 version does not look).  The
\* bounds: one undecided signal a slot, and room for its order.
NewBars ==
    /\ pc = "ingest"
    /\ price' \in [Symbols -> Prices]
    /\ \E new \in SUBSET {g \in Signals :
                           /\ g.entry = price'[g.slot[2]]
                           /\ g.kind = "EXIT" => g.slot \in Open} :
          signals' = signals \cup new
    /\ \A g, h \in signals' : g.slot = h.slot => g = h
    /\ Cardinality(signals') + Cardinality(orders) <= MaxOrders
    /\ NextPhase
    /\ UNCHANGED <<orders, pos, net, realised, fills, snap, day, week, days>>

\* Midnight, and perhaps a Monday's: compute_window_pnl anchors at the latest
\* snapshot before it.
Midnight ==
    /\ pc \in {"ingest", "snapshot"}
    /\ days < MaxDays /\ days' = days + 1
    /\ day' = snap.equity
    /\ week' \in {week, snap.equity}
    /\ UNCHANGED <<price, pc, signals, orders, pos, net, realised, fills, snap, faults>>

-----------------------------------------------------------------------------
(* risk.evaluate_risk, risk.process_pending_signals *)

\* Checks 1 to 3, on the latest snapshot.
KillSwitch == 100 * (snap.peak - snap.equity) >= DrawdownCap * snap.peak
DailyLoss == 100 * (snap.equity - day) <= -(DayCap * Start * Lot)
WeeklyLoss == 100 * (snap.equity - week) <= -(WeekCap * Start * Lot)

\* Check 6: the effective risk of the version over the stop distance,
\* rounded down; entry is above stop.
Size(v, entry, stop) ==
    LET pct == IF RiskPct[v] < RiskCap THEN RiskPct[v] ELSE RiskCap
    IN (snap.equity * pct) \div (100 * (entry - stop))

\* Checks 6 to 8 of a BUY of this size.
WithinCaps(g, size) ==
    /\ size \in Nat \ {0}
    /\ 100 * (OpenRisk + size * (g.entry - g.stop)) <= TotalCap * snap.equity
    /\ 100 * (SymbolNotional(g.slot[2]) + size * g.entry) <= SymbolCap * snap.equity

FreeId == CHOOSE i \in 1 .. MaxOrders : \A o \in orders : o.id # i

\* An order for signal g, which is marked processed.
Order(g, side, size) ==
    /\ orders' = orders \cup {[id |-> FreeId, slot |-> g.slot, side |-> side,
                               size |-> size, entry |-> g.entry, stop |-> g.stop]}
    /\ signals' = signals \ {g}
    /\ UNCHANGED <<price, pc, pos, net, realised, fills, snap, day, week, days, faults>>

\* Mutant of ApproveBuy: the daily limit is not looked at.
ApproveBuyAnyDay(g) ==
    /\ pc = "risk" /\ g \in signals /\ g.kind = "BUY"
    /\ ~KillSwitch /\ ~WeeklyLoss
    /\ g.entry > g.stop
    /\ WithinCaps(g, Size(g.slot[1], g.entry, g.stop))
    /\ Order(g, "BUY", Size(g.slot[1], g.entry, g.stop))

ApproveBuy(g) ==
    /\ pc = "risk" /\ g \in signals /\ g.kind = "BUY"
    /\ ~KillSwitch /\ ~DailyLoss /\ ~WeeklyLoss
    /\ g.entry > g.stop
    /\ WithinCaps(g, Size(g.slot[1], g.entry, g.stop))
    /\ Order(g, "BUY", Size(g.slot[1], g.entry, g.stop))

\* An EXIT bypasses every check and takes the size of the open position.
ApproveExit(g) ==
    /\ pc = "risk" /\ g \in signals /\ g.kind = "EXIT"
    /\ g.slot \in Open
    /\ Order(g, "SELL", pos[g.slot].size)

\* A signal is blocked: by a check above, or because its version is disabled or
\* not approved, or its data stale (TraderPipeline has the switches).
Block(g) ==
    /\ pc = "risk" /\ g \in signals
    /\ g.kind = "EXIT" => g.slot \notin Open
    /\ signals' = signals \ {g}
    /\ UNCHANGED <<price, pc, orders, pos, net, realised, fills, snap, day, week, days,
                   faults>>

-----------------------------------------------------------------------------
(* execution.process_one_cycle *)

\* Mutant of Sell: realised_pnl is net of the exit fee only.
SellGrossOfEntryFee(s, p) ==
    LET fee == Fee(p, pos[s].size) IN
    /\ fills' = [fills EXCEPT ![s] = @ + 1]
    /\ net' = [net EXCEPT ![s] = @ + Notional(p, pos[s].size) - fee]
    /\ realised' = [realised EXCEPT ![s] = @ + (p - pos[s].entry) * pos[s].size - Lot * fee]
    /\ pos' = [pos EXCEPT ![s] = NoPosition]

\* The position of slot s is sold at price p.
Sell(s, p) ==
    LET fee == Fee(p, pos[s].size) IN
    /\ fills' = [fills EXCEPT ![s] = @ + 1]
    /\ net' = [net EXCEPT ![s] = @ + Notional(p, pos[s].size) - fee]
    /\ realised' = [realised EXCEPT ![s] =
                      @ + (p - pos[s].entry) * pos[s].size - Lot * (pos[s].fee + fee)]
    /\ pos' = [pos EXCEPT ![s] = NoPosition]

\* A stored bar breaches the stop: the position closes at the stop.
StopClose(s) ==
    /\ pc = "stops" /\ s \in Open
    /\ Sell(s, SellPrice(pos[s].stop))
    /\ UNCHANGED <<price, pc, signals, orders, snap, day, week, days, faults>>

\* An entry order fills at the open of its bar, if its slot is flat.  (The bound
\* leaves room for the exits.)
BuyFill(o) ==
    /\ pc = "fills" /\ o \in orders /\ o.side = "BUY"
    /\ o.slot \notin Open /\ AllFills + Cardinality(Open) + 1 < MaxFills
    /\ \E open \in Prices :
          LET p == BuyPrice(open)
              fee == Fee(p, o.size)
          IN /\ net' = [net EXCEPT ![o.slot] = @ - (Notional(p, o.size) + fee)]
             /\ pos' = [pos EXCEPT ![o.slot] = [size |-> o.size, entry |-> p,
                                                fee |-> fee, stop |-> o.stop]]
    /\ fills' = [fills EXCEPT ![o.slot] = @ + 1]
    /\ orders' = orders \ {o}
    /\ UNCHANGED <<price, pc, signals, realised, snap, day, week, days, faults>>

\* An exit order sells what the slot holds, whatever size was ordered.
ExitFill(o) ==
    /\ pc = "fills" /\ o \in orders /\ o.side = "SELL" /\ o.slot \in Open
    /\ \E open \in Prices : Sell(o.slot, SellPrice(open))
    /\ orders' = orders \ {o}
    /\ UNCHANGED <<price, pc, signals, snap, day, week, days, faults>>

\* position_already_closed
RejectExit(o) ==
    /\ pc = "fills" /\ o \in orders /\ o.side = "SELL" /\ o.slot \notin Open
    /\ orders' = orders \ {o}
    /\ UNCHANGED <<price, pc, signals, pos, net, realised, fills, snap, day, week, days,
                   faults>>

-----------------------------------------------------------------------------
(* portfolio.compute_and_persist_snapshot *)

\* Mutant of Snapshot: equity holds the positions at what they have cost.
SnapshotAtCost ==
    /\ pc = "snapshot"
    /\ LET equity == Lot * Cash + SumFunction([s \in Open |-> pos[s].size * pos[s].entry]) IN
       snap' = [cash |-> Cash, equity |-> equity, unrealised |-> Unrealised,
                realised |-> Realised,
                peak |-> IF equity > snap.peak THEN equity ELSE snap.peak]
    /\ NextPhase
    /\ UNCHANGED <<price, signals, orders, pos, net, realised, fills, day, week, days>>

Snapshot ==
    /\ pc = "snapshot"
    /\ LET equity == Lot * Cash + MarkToMarket IN
       snap' = [cash |-> Cash, equity |-> equity, unrealised |-> Unrealised,
                realised |-> Realised,
                peak |-> IF equity > snap.peak THEN equity ELSE snap.peak]
    /\ NextPhase
    /\ UNCHANGED <<price, signals, orders, pos, net, realised, fills, day, week, days>>

-----------------------------------------------------------------------------
(* The specification *)

\* Every signal is decided, every position scanned, or every order whose bar is
\* stored handled.
PhaseOver ==
    /\ pc \in {"risk", "stops", "fills"}
    /\ pc = "risk" => signals = {}
    /\ NextPhase
    /\ UNCHANGED <<price, signals, orders, pos, net, realised, fills, snap, day, week, days>>

Init ==
    /\ price \in [Symbols -> Prices]
    /\ pc = "ingest"
    /\ signals = {} /\ orders = {}
    /\ pos = [s \in Slots |-> NoPosition]
    /\ net = [s \in Slots |-> 0]
    /\ realised = [s \in Slots |-> 0]
    /\ fills = [s \in Slots |-> 0]
    \* Without a snapshot everything falls back to the starting cash.
    /\ snap = [cash |-> Start, equity |-> Lot * Start, unrealised |-> 0,
               realised |-> 0, peak |-> Lot * Start]
    /\ day = Lot * Start /\ week = Lot * Start
    /\ days = 0 /\ faults = 0

Next ==
    \/ NewBars
    \/ Midnight
    \/ \E g \in signals : ApproveBuy(g) \/ ApproveExit(g) \/ Block(g)
    \/ \E s \in Open : StopClose(s)
    \/ \E o \in orders : BuyFill(o) \/ ExitFill(o) \/ RejectExit(o)
    \/ Snapshot
    \/ PhaseOver

Spec == Init /\ [][Next]_vars

-----------------------------------------------------------------------------
(* Properties *)

\* Rows of the right shape: no order or position of size 0, amounts whole.
TypeOK ==
    /\ price \in [Symbols -> Prices]
    /\ pc \in Phases
    /\ signals \subseteq Signals
    /\ orders \subseteq Orders
    /\ pos \in [Slots -> Positions]
    /\ net \in [Slots -> Int] /\ realised \in [Slots -> Int] /\ fills \in [Slots -> Nat]
    /\ snap \in Snapshots /\ snap.peak >= Lot * Start
    /\ day \in Int /\ week \in Int /\ days \in 0 .. MaxDays /\ faults \in 0 .. MaxFaults

\* What the open position of slot s has cost, fee included.
OpenCost(s) == pos[s].size * pos[s].entry + Lot * pos[s].fee

\* x is at most half a quantum for each of n fills away from 0.
Dust(x, n) == 2 * x <= Lot * n /\ -(2 * x) <= Lot * n

\* The fills and the positions tell one story: the cash that a slot's fills have
\* moved is its realised profit less the cost of what it holds, up to the
\* rounding of each notional.  portfolio.py takes cash from the fills and profit
\* from the positions; drift.py and the dashboard trust that they agree.
LedgerBalances ==
    \A s \in Slots : Dust(Lot * net[s] - realised[s] + OpenCost(s), fills[s])

\* A snapshot adds up: equity is the starting cash plus realised and unrealised
\* profit, less the entry fees of what is still open.
SnapshotAddsUp ==
    [][snap' # snap =>
         Dust(snap'.equity - Lot * Start - snap'.realised - snap'.unrealised
                + Lot * SumFunction([s \in Open |-> pos[s].fee]),
              AllFills)]_vars

\* The portfolio is flat, no entry is queued and the latest snapshot is current.
AtRest ==
    /\ Open = {} /\ \A o \in orders : o.side = "SELL"
    /\ snap.equity = Lot * Cash

\* A loss limit cannot be outwaited: at rest beyond the drawdown limit the trader
\* never trades again, whatever prices do and however many days pass; beyond the
\* daily or the weekly limit it rests until midnight, or until Monday's.
LossLimitsHold ==
    [][AtRest =>
         /\ KillSwitch => AtRest' /\ KillSwitch'
         /\ DailyLoss => (AtRest' /\ DailyLoss') \/ days' # days
         /\ WeeklyLoss => (AtRest' /\ WeeklyLoss') \/ week' # week]_vars
=============================================================================
