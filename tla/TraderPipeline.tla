---------------------------- MODULE TraderPipeline ----------------------------
(***************************************************************************)
(* The trading core of the trader worker: one RQ worker runs, once a       *)
(* minute, the phases ingest -> signal -> risk -> execute over the tables  *)
(* trader_candles, trader_signals, trader_paper_orders, trader_paper_fills *)
(* and trader_paper_positions.                                             *)
(*                                                                         *)
(* The tables share their keys.  A signal is unique per (strategy version, *)
(* symbol, timeframe, candle close); an order is unique per signal, a fill *)
(* per order, and a position is born of the fill of one BUY order.  So one *)
(* function from signal keys to rows holds all four tables, and the UNIQUE *)
(* constraints of migration 0008 are its being a function.                 *)
(*                                                                         *)
(* A phase opens one connection.  Its heartbeat commits by itself; the     *)
(* plain SELECT that loads the work list then starts an implicit           *)
(* transaction, inside which every `with conn.transaction()` is only a     *)
(* savepoint.  `tx` is what that transaction sees, `db` what is committed: *)
(* tx becomes db at the end of the phase, or is dropped as a whole.        *)
(*                                                                         *)
(* Left out: prices other than the bar's low and the stop, sizes, fees,    *)
(* and the snapshot and alert phases, which write none of these tables.    *)
(* The caps of the risk manager are a free choice (approve or block).      *)
(***************************************************************************)
EXTENDS Integers

CONSTANTS
    Versions,     \* strategy versions
    Symbols,
    Timeframes,
    BarLen,       \* length of a bar of each timeframe, in ticks of the clock
    Stateful,     \* versions whose SpecTemplate carries state across candles
    Tier3,        \* stateful versions driven by the tier-3 shadow simulation
    Lows,         \* the lows a bar may have
    Stops,        \* the stop prices an entry may propose
    FeedGaps,     \* TRUE: the exchange may leave out bars and deliver them later
    MaxTime,      \* bound: last tick of the clock
    MaxFaults     \* bound: crashes, failed phases and failed evaluations

ASSUME PipelineAssumption ==
    /\ BarLen \in [Timeframes -> Nat \ {0}]
    /\ Tier3 \subseteq Stateful /\ Stateful \subseteq Versions
    /\ Lows \subseteq Nat /\ Stops \subseteq Nat
    /\ FeedGaps \in BOOLEAN
    /\ MaxTime \in Nat /\ MaxFaults \in Nat

Times == 0 .. MaxTime
Phases == {"ingest", "signal", "risk", "stops", "fills"}

\* The identity of a signal, and of the order, fill and position born of it.
Keys == [v : Versions, s : Symbols, tf : Timeframes, ts : Times]

\* A closed candle, with its open time and its low.
Bars == [s : Symbols, tf : Timeframes, open : Times, low : Lows]

\* One key's rows.  fill is the fill_ts of the fill row (0: no fill row); exit
\* holds the exit_order_id of the position, adv says that the
\* trader_strategy_state row of this candle exists.
Row == [sig : {"none", "BUY", "EXIT"}, stop : Stops \cup {0}, done : BOOLEAN,
        adv : BOOLEAN, ord : {"none", "PENDING", "FILLED", "REJECTED"},
        fill : Times, pos : {"none", "OPEN", "CLOSED"},
        why : {"none", "stop_hit", "signal_exit"}, exit : SUBSET Keys]

NoRow == [sig |-> "none", stop |-> 0, done |-> FALSE, adv |-> FALSE,
          ord |-> "none", fill |-> 0, pos |-> "none", why |-> "none",
          exit |-> {}]

VARIABLES
    now,        \* the clock
    candles,    \* trader_candles
    db,         \* the committed rows
    tx,         \* the rows as the running phase sees them
    active,     \* versions with enabled and approved_for_paper, committed
    disabled,   \* versions the running phase has disabled, not yet committed
    pc,         \* the phase that runs; execute is "stops", then "fills"
    todo,       \* keys the phase loaded and has not handled yet
    faults      \* faults so far

vars == <<now, candles, db, tx, active, disabled, pc, todo, faults>>

-----------------------------------------------------------------------------
(* Reading the tables *)

Close(c) == c.open + BarLen[c.tf]

SamePair(k, l) == k.s = l.s /\ k.tf = l.tf

\* Mutant of SameSlot: positions are looked up by symbol alone.
SameSlotAnyVersion(k, l) == k.s = l.s

SameSlot(k, l) == k.v = l.v /\ k.s = l.s

\* The OPEN positions of k's (version, symbol), in the rows d.
OpenIn(d, k) == {p \in Keys : d[p].pos = "OPEN" /\ SameSlot(p, k)}

\* k stands for the latest candle of its pair among the candles cs.
IsLatest(cs, k) ==
    /\ \E c \in cs : SamePair(c, k) /\ Close(c) = k.ts
    /\ \A c \in cs : SamePair(c, k) => Close(c) <= k.ts

\* The state of k's pair has been advanced to k's candle or beyond it.
StateAdvanced(d, k) ==
    \E p \in Keys : p.v = k.v /\ SamePair(p, k) /\ p.ts >= k.ts /\ d[p].adv

\* Mutant of Breaches: bars from before the entry count.
BreachesAnyTime(d, k) == {c \in candles : SamePair(c, k) /\ c.low <= d[k].stop}

\* The bars that breach the stop of the position born of k.
Breaches(d, k) ==
    {c \in candles : SamePair(c, k) /\ c.open >= k.ts /\ c.low <= d[k].stop}

\* Mutant of FillBarStored: the bar is looked up by its close.
FillBarByClose(k) == \E c \in candles : SamePair(c, k) /\ Close(c) = k.ts

\* The bar at whose open the order of k fills has been stored.
FillBarStored(k) == \E c \in candles : SamePair(c, k) /\ c.open = k.ts

\* Mutant of Unprocessed: decided signals are read again.
UnprocessedOrNot(d) == {k \in Keys : d[k].sig # "none"}

Unprocessed(d) == {k \in Keys : d[k].sig # "none" /\ ~d[k].done}
OpenPositions(d) == {k \in Keys : d[k].pos = "OPEN"}
PendingOrders(d) == {k \in Keys : d[k].ord = "PENDING"}

\* The oldest keys of a work list: ORDER BY candle_close_ts, entry_ts or
\* intended_fill_ts, which all equal ts.
Oldest(S) == {k \in S : \A l \in S : k.ts <= l.ts}

-----------------------------------------------------------------------------
(* Phases and their transactions *)

NextPhase(p) == CASE p = "ingest" -> "signal"
                  [] p = "signal" -> "risk"
                  [] p = "risk" -> "stops"
                  [] OTHER -> "ingest"

\* Mutant of Load: only the positions of enabled versions are scanned.
LoadEnabled(p, d, cs, a) == CASE p = "signal" -> {k \in Keys : k.v \in a /\ IsLatest(cs, k)}
                              [] p = "risk" -> Unprocessed(d)
                              [] p = "stops" -> {k \in OpenPositions(d) : k.v \in a}
                              [] OTHER -> {}

\* What phase p loads when it starts on the rows d, candles cs and versions a.
Load(p, d, cs, a) == CASE p = "signal" -> {k \in Keys : k.v \in a /\ IsLatest(cs, k)}
                       [] p = "risk" -> Unprocessed(d)
                       [] p = "stops" -> OpenPositions(d)
                       [] OTHER -> {}

\* The phase after the current one starts on the rows d and versions a.
StartNext(d, a) ==
    /\ pc' = NextPhase(pc)
    /\ tx' = d
    /\ disabled' = {}
    /\ todo' = Load(NextPhase(pc), d, candles', a)

\* The phase ends normally: leaving the connection's context commits.
Commit ==
    /\ pc \in {"signal", "risk", "fills"} /\ todo = {}
    /\ db' = tx
    /\ active' = active \ disabled
    /\ UNCHANGED <<now, candles, faults>>
    /\ StartNext(tx, active \ disabled)

\* An exception leaves the phase: the connection rolls everything back,
\* _run_phase logs it and the cycle goes on with the next phase.
Abort ==
    /\ UNCHANGED <<now, candles, db, active>>
    /\ StartNext(db, active)

\* The phase is done with key k, whose rows it may have changed.
Handled(k) ==
    /\ todo' = todo \ {k}
    /\ UNCHANGED <<now, candles, db, active, pc, faults>>

-----------------------------------------------------------------------------
(* The clock, the operator and the failures *)

Tick ==
    /\ pc = "ingest" /\ now < MaxTime
    /\ now' = now + 1
    /\ UNCHANGED <<candles, db, tx, active, disabled, pc, todo, faults>>

\* The admin route enables or disables a version.  A version the running
\* phase has disabled is locked by its transaction until that ends.
Operator(v) ==
    /\ v \notin disabled
    /\ active' = IF v \in active THEN active \ {v} ELSE active \cup {v}
    /\ UNCHANGED <<now, candles, db, tx, disabled, pc, todo, faults>>

\* An error of the database, or of a stateless template, leaves the phase.
PhaseFails ==
    /\ pc # "ingest" /\ faults < MaxFaults
    /\ faults' = faults + 1
    /\ Abort

\* The worker dies; PostgreSQL drops its transaction.  The next worker boots
\* into a fresh cycle.
Crash ==
    /\ pc # "ingest" /\ faults < MaxFaults
    /\ faults' = faults + 1
    /\ pc' = "ingest" /\ tx' = db /\ disabled' = {} /\ todo' = {}
    /\ UNCHANGED <<now, candles, db, active>>

-----------------------------------------------------------------------------
(* ingestion.ingest_one_cycle *)

\* Mutant of Missing: the bar still forming is stored too.
MissingOrForming == {b \in [s : Symbols, tf : Timeframes, open : Times] :
                        /\ b.open % BarLen[b.tf] = 0
                        /\ b.open <= now
                        /\ ~\E c \in candles : SamePair(c, b) /\ c.open = b.open}

\* The bars whose candle is closed and not stored yet.
Missing == {b \in [s : Symbols, tf : Timeframes, open : Times] :
               /\ b.open % BarLen[b.tf] = 0
               /\ Close(b) <= now
               /\ ~\E c \in candles : SamePair(c, b) /\ c.open = b.open}

\* Per pair the fetch fails, or delivers what is missing; an exchange with
\* gaps may deliver any part of it, the rest in a later cycle.
Deliveries ==
    IF FeedGaps
    THEN SUBSET Missing
    ELSE {{b \in Missing : <<b.s, b.tf>> \in P} : P \in SUBSET (Symbols \X Timeframes)}

Ingest ==
    /\ pc = "ingest"
    /\ \E D \in Deliveries : \E low \in [D -> Lows] :
          candles' = candles \cup {[s |-> b.s, tf |-> b.tf, open |-> b.open,
                                    low |-> low[b]] : b \in D}
    /\ UNCHANGED <<now, db, active, faults>>
    /\ StartNext(db, active)

-----------------------------------------------------------------------------
(* signal_engine.evaluate_one_cycle *)

\* Mutant of Evaluable: no guard against advancing a candle's state again.
EvaluableAgain(k) == tx[k].sig = "none"

Evaluable(k) ==
    /\ tx[k].sig = "none"
    /\ k.v \in Stateful => ~StateAdvanced(tx, k)

\* What a template may say: entries when flat, exits when in a position.  The
\* tier-3 simulation follows its own shadow trades and may say BUY anyway.
Signals(k) ==
    IF OpenIn(tx, k) = {} THEN {"BUY"}
    ELSE {"EXIT"} \cup (IF k.v \in Tier3 THEN {"BUY"} ELSE {})

\* Nothing to do: a signal or a state row exists for the candle.  (There is one
\* worker, so the advisory lock is free; min_bars_needed is taken as one bar.)
SkipPair(k) ==
    /\ pc = "signal" /\ k \in todo
    /\ ~Evaluable(k)
    /\ UNCHANGED <<tx, disabled>>
    /\ Handled(k)

\* HOLD: a line in the audit log, and the state row of a stateful version.  A
\* signal without a positive stop leaves the same: it is logged and dropped.
Hold(k) ==
    /\ pc = "signal" /\ k \in todo
    /\ Evaluable(k)
    /\ tx' = [tx EXCEPT ![k].adv = k.v \in Stateful]
    /\ UNCHANGED disabled
    /\ Handled(k)

\* BUY or EXIT: the state row and the signal row, in the same transaction.
EmitSignal(k) ==
    /\ pc = "signal" /\ k \in todo
    /\ Evaluable(k)
    /\ \E kind \in Signals(k), stop \in Stops :
          tx' = [tx EXCEPT ![k] = [@ EXCEPT !.sig = kind,
                                            !.stop = IF kind = "BUY" THEN stop ELSE 0,
                                            !.adv = k.v \in Stateful]]
    /\ UNCHANGED disabled
    /\ Handled(k)

\* The state row does not load or the stateful evaluation raises: disable the
\* version and alert (_handle_corrupt_state).
DisableVersion(k) ==
    /\ pc = "signal" /\ k \in todo
    /\ k.v \in Stateful /\ tx[k].sig = "none"
    /\ faults < MaxFaults
    /\ disabled' = disabled \cup {k.v}
    /\ faults' = faults + 1
    /\ todo' = todo \ {k}
    /\ UNCHANGED <<now, candles, db, tx, active, pc>>

-----------------------------------------------------------------------------
(* risk.process_pending_signals *)

\* An EXIT passes if there is a position to exit.  A BUY passes if its version
\* is enabled and approved and the caps allow it.
ApproveSignal(k) ==
    /\ pc = "risk" /\ k \in Oldest(todo)
    /\ IF tx[k].sig = "BUY" THEN k.v \in active ELSE OpenIn(tx, k) # {}
    /\ tx' = [tx EXCEPT ![k] = [@ EXCEPT !.ord = "PENDING", !.done = TRUE]]
    /\ UNCHANGED disabled
    /\ Handled(k)

\* Mutant of BlockSignal: a blocked signal is not marked processed.
BlockUnmarked(k) ==
    /\ pc = "risk" /\ k \in Oldest(todo)
    /\ tx[k].sig = "BUY" \/ OpenIn(tx, k) = {}
    /\ UNCHANGED <<tx, disabled>>
    /\ Handled(k)

BlockSignal(k) ==
    /\ pc = "risk" /\ k \in Oldest(todo)
    /\ tx[k].sig = "BUY" \/ OpenIn(tx, k) = {}
    /\ tx' = [tx EXCEPT ![k].done = TRUE]
    /\ UNCHANGED disabled
    /\ Handled(k)

-----------------------------------------------------------------------------
(* execution.process_one_cycle, phase 1: the stop scan *)

NoBreach(k) ==
    /\ pc = "stops" /\ k \in Oldest(todo)
    /\ Breaches(tx, k) = {}
    /\ UNCHANGED <<tx, disabled>>
    /\ Handled(k)

\* The key of the synthetic signal of a stop-close of k at the bar b.
StopKey(k, b) == [k EXCEPT !.ts = Close(b)]

\* Mutant of StopRows: the close writes no fill.
StopRowsNoFill(k, b) ==
    [tx EXCEPT ![StopKey(k, b)] = [@ EXCEPT !.sig = "EXIT", !.done = TRUE, !.ord = "FILLED"],
               ![k] = [@ EXCEPT !.pos = "CLOSED", !.why = "stop_hit",
                                !.exit = {StopKey(k, b)}]]

\* Synthetic EXIT signal, FILLED order, fill at the bar's open, CLOSED position.
StopRows(k, b) ==
    [tx EXCEPT ![StopKey(k, b)] = [@ EXCEPT !.sig = "EXIT", !.done = TRUE,
                                            !.ord = "FILLED", !.fill = b.open],
               ![k] = [@ EXCEPT !.pos = "CLOSED", !.why = "stop_hit",
                                !.exit = {StopKey(k, b)}]]

\* The earliest breach wins.
StopClose(k) ==
    /\ pc = "stops" /\ k \in Oldest(todo)
    /\ \E b \in Breaches(tx, k) :
          /\ \A c \in Breaches(tx, k) : b.open <= c.open
          /\ tx[StopKey(k, b)].sig = "none"
          /\ tx' = StopRows(k, b)
    /\ UNCHANGED disabled
    /\ Handled(k)

\* The breaching candle already carries a signal of this version: the INSERT
\* of the synthetic signal violates the UNIQUE constraint and raises.
StopCollides(k) ==
    /\ pc = "stops" /\ k \in Oldest(todo)
    /\ \E b \in Breaches(tx, k) :
          /\ \A c \in Breaches(tx, k) : b.open <= c.open
          /\ tx[StopKey(k, b)].sig # "none"
    /\ UNCHANGED faults
    /\ Abort

\* Phase 2 loads the PENDING orders, in the same transaction.
StopsScanned ==
    /\ pc = "stops" /\ todo = {}
    /\ pc' = "fills"
    /\ todo' = PendingOrders(tx)
    /\ UNCHANGED <<now, candles, db, tx, active, disabled, faults>>

-----------------------------------------------------------------------------
(* execution.process_one_cycle, phase 2: the pending orders *)

Fillable(k) == pc = "fills" /\ k \in Oldest(todo) /\ FillBarStored(k)

\* The fill candle is not there yet: the order waits for another cycle.
KeepWaiting(k) ==
    /\ pc = "fills" /\ k \in Oldest(todo)
    /\ ~FillBarStored(k)
    /\ UNCHANGED <<tx, disabled>>
    /\ Handled(k)

\* Mutant of BuyFill: no unique index on the open positions.
BuyFillUnchecked(k) ==
    /\ Fillable(k) /\ tx[k].sig = "BUY"
    /\ tx' = [tx EXCEPT ![k] = [@ EXCEPT !.ord = "FILLED", !.fill = k.ts, !.pos = "OPEN"]]
    /\ UNCHANGED disabled
    /\ Handled(k)

BuyFill(k) ==
    /\ Fillable(k) /\ tx[k].sig = "BUY"
    /\ OpenIn(tx, k) = {}
    /\ tx' = [tx EXCEPT ![k] = [@ EXCEPT !.ord = "FILLED", !.fill = k.ts, !.pos = "OPEN"]]
    /\ UNCHANGED disabled
    /\ Handled(k)

\* The INSERT of the position violates the partial unique index and raises.
BuyCollides(k) ==
    /\ Fillable(k) /\ tx[k].sig = "BUY"
    /\ OpenIn(tx, k) # {}
    /\ UNCHANGED faults
    /\ Abort

ExitFill(k) ==
    /\ Fillable(k) /\ tx[k].sig = "EXIT"
    /\ \E p \in OpenIn(tx, k) :
          tx' = [tx EXCEPT ![k] = [@ EXCEPT !.ord = "FILLED", !.fill = k.ts],
                           ![p] = [@ EXCEPT !.pos = "CLOSED", !.why = "signal_exit",
                                            !.exit = {k}]]
    /\ UNCHANGED disabled
    /\ Handled(k)

\* Mutant of RejectExit: the order fills with nothing to sell.
FillExitAnyway(k) ==
    /\ Fillable(k) /\ tx[k].sig = "EXIT"
    /\ OpenIn(tx, k) = {}
    /\ tx' = [tx EXCEPT ![k] = [@ EXCEPT !.ord = "FILLED", !.fill = k.ts]]
    /\ UNCHANGED disabled
    /\ Handled(k)

\* position_already_closed
RejectExit(k) ==
    /\ Fillable(k) /\ tx[k].sig = "EXIT"
    /\ OpenIn(tx, k) = {}
    /\ tx' = [tx EXCEPT ![k].ord = "REJECTED"]
    /\ UNCHANGED disabled
    /\ Handled(k)

-----------------------------------------------------------------------------
(* The specification *)

Init ==
    /\ now = 0
    /\ candles = {}
    /\ db = [k \in Keys |-> NoRow]
    /\ tx = [k \in Keys |-> NoRow]
    /\ active = Versions
    /\ disabled = {}
    /\ pc = "ingest"
    /\ todo = {}
    /\ faults = 0

SignalStep(k) == SkipPair(k) \/ Hold(k) \/ EmitSignal(k) \/ DisableVersion(k)

RiskStep(k) == ApproveSignal(k) \/ BlockSignal(k)

StopStep(k) == NoBreach(k) \/ StopClose(k) \/ StopCollides(k)

FillStep(k) == KeepWaiting(k) \/ BuyFill(k) \/ BuyCollides(k) \/ ExitFill(k) \/ RejectExit(k)

WorkerStep ==
    \/ Ingest
    \/ \E k \in todo : SignalStep(k) \/ RiskStep(k) \/ StopStep(k) \/ FillStep(k)
    \/ StopsScanned
    \/ Commit

Next ==
    \/ WorkerStep
    \/ Tick
    \/ \E v \in Versions : Operator(v)
    \/ PhaseFails
    \/ Crash

Spec == Init /\ [][Next]_vars

\* The worker keeps taking steps; the clock, the operator and the failures
\* owe nothing.
FairSpec == Spec /\ WF_vars(WorkerStep)

-----------------------------------------------------------------------------
(* Properties *)

\* Rows of the right shape, and no candle stored before it closed
\* (exchanges: a bar is kept only once its close is in the past).
TypeOK ==
    /\ now \in Times
    /\ candles \subseteq Bars /\ \A c \in candles : Close(c) <= now
    /\ db \in [Keys -> Row] /\ tx \in [Keys -> Row]
    /\ active \subseteq Versions /\ disabled \subseteq Versions
    /\ pc \in Phases
    /\ todo \subseteq Keys
    /\ faults \in 0 .. MaxFaults

\* At most one OPEN position per version and symbol: what the signal engine,
\* the risk manager and the executor all assume when they read "the" position.
OneOpen(d) == \A k, l \in Keys :
    d[k].pos = "OPEN" /\ d[l].pos = "OPEN" /\ SameSlot(k, l) => k = l
OneOpenPosition == OneOpen(db)

\* Signal, order, fill and position of a key are in lock-step: an order needs a
\* processed signal, a fill a FILLED order, and a position the fill of a BUY.
Lockstep(d) == \A k \in Keys :
    /\ d[k].ord # "none" => d[k].done
    /\ d[k].done => d[k].sig # "none"
    /\ d[k].fill # 0 <=> d[k].ord = "FILLED"
    /\ d[k].pos # "none" <=> d[k].ord = "FILLED" /\ d[k].sig = "BUY"
LedgerInLockstep == Lockstep(db)

\* Closed positions and executed SELL orders are in one-to-one correspondence,
\* within a version and symbol: the cash that portfolio.py sums over the fills
\* is the cash of exactly the trades the positions table shows.
ExitsPairUp(d) ==
    /\ \A k \in Keys : d[k].pos = "CLOSED" <=> d[k].exit # {}
    /\ \A k \in Keys : \A e \in d[k].exit :
          /\ SameSlot(e, k)
          /\ d[e].sig = "EXIT" /\ d[e].ord = "FILLED"
          /\ d[k].exit = {e}
    /\ \A e \in Keys : d[e].sig = "EXIT" /\ d[e].ord = "FILLED" =>
          \E k \in Keys : e \in d[k].exit
    /\ \A k, l \in Keys : d[k].exit \cap d[l].exit # {} => k = l
ExitsMatchPositions == ExitsPairUp(db)

\* An order fills at the open of bar N+1, after its signal's bar N closed, or,
\* for a stop-close, at the open of the breaching bar; either way that bar was
\* stored, hence closed, when the fill was written: nothing looks ahead.
FillsAtStoredOpen(d) == \A k \in Keys : d[k].ord = "FILLED" =>
    \E c \in candles :
       /\ SamePair(c, k) /\ c.open = d[k].fill
       /\ c.open = k.ts \/ (Close(c) = k.ts /\ d[k].sig = "EXIT")
NoLookahead == FillsAtStoredOpen(db)

\* A trade is not left before it is entered.  It takes one timeframe per symbol
\* and a feed without gaps: an EXIT order still waiting for its bar closes
\* whatever position is open when that bar comes, be it a later one.
ExitNotBeforeEntry ==
    \A k \in Keys : \A e \in db[k].exit : db[k].fill <= db[e].fill

\* The signal of k was written by a stop-close, not by a template.
Synthetic(d, k) == d[k].sig = "EXIT" /\ d[k].ord = "FILLED" /\ d[k].fill # k.ts

\* A stateful version decides a candle once: its signal and the advance of its
\* state are one commit, which no crash or rollback tears; the state advances
\* candle by candle, and a candle whose state has advanced is never decided
\* again, though the cycle sees it every minute.
StatefulDecidesOnce ==
    [][\A k \in Keys : k.v \in Stateful =>
         /\ db'[k].sig # "none" => db'[k].adv \/ Synthetic(db', k)
         /\ StateAdvanced(db, k) /\ ~db[k].adv => ~db'[k].adv
         /\ db[k].adv /\ db[k].sig = "none" => db'[k].sig = "none" \/ Synthetic(db', k)]_vars

\* What one committed row may become: decisions, executions and closed trades
\* are never revised, and a blocked signal is never reconsidered.
RowGrows(r, q) ==
    /\ r.sig # "none" => q.sig = r.sig /\ q.stop = r.stop
    /\ r.done => q.done
    /\ r.adv => q.adv
    /\ r.ord \in {"FILLED", "REJECTED"} => q.ord = r.ord /\ q.fill = r.fill
    /\ r.done /\ r.ord = "none" => q.ord = "none"
    /\ r.pos = "OPEN" => q.pos \in {"OPEN", "CLOSED"}
    /\ r.pos = "CLOSED" => q.pos = r.pos /\ q.why = r.why /\ q.exit = r.exit

\* The audit trail is append-only, through every rollback, crash and retry.
AuditTrail == [][\A k \in Keys : RowGrows(db[k], db'[k])]_vars

\* An execute phase that commits leaves no position open that it found open
\* and whose stop a stored bar has breached, the entry bar included: exits and
\* entries of the same pass never jump the stop.
StopsHonoured ==
    [][pc = "fills" /\ Commit =>
         \A k \in Keys : db[k].pos = "OPEN" /\ db'[k].pos = "OPEN" =>
            Breaches(db', k) = {}]_vars

\* The entry and the exit order of the CLOSED positions.
ClosedTrades(d) == UNION {{k} \X d[k].exit : k \in Keys}

\* The committed rows keep the book of TradeBook: its open trades are the OPEN
\* positions, its closed ones the entry and exit orders of the CLOSED ones.
Book == INSTANCE TradeBook WITH
    Ids <- Keys,
    SlotOf <- [k \in Keys |-> <<k.v, k.s>>],
    open <- OpenPositions(db),
    closed <- ClosedTrades(db)

\* The executor implements the book of trades.
KeepsBook == Book!Spec

\* Every signal is decided on, whatever phases fail or crash in between.
SignalsDecided == \A k \in Keys : db[k].sig # "none" ~> db[k].done

-----------------------------------------------------------------------------
(* What the documentation says and the code does not do *)

\* execution.process_one_cycle: the first breach force-closes the position.
BreachedStopCloses == \A k \in Keys :
    db[k].pos = "OPEN" /\ Breaches(db, k) # {} ~> db[k].pos = "CLOSED"
=============================================================================
