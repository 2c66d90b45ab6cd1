--------------------------- MODULE Tier3Simulator ---------------------------
(***************************************************************************)
(* The two evaluators of Tier-3 specs: run_iterative_backtest, which walks *)
(* a complete history and may look forward to score a skipped signal, and  *)
(* run_live_cycle, which advances a persisted checkpoint by the bars that  *)
(* closed since and steps each skipped signal's phantom one bar at a time. *)
(*                                                                         *)
(* A behaviour first backtests a history bar by bar and then replays it    *)
(* through live cycles that end at arbitrary bars.  Bars are numbered from *)
(* 0, as in the code.  Amounts are integers in units of Scale^-4, so that  *)
(* the at most four rate factors applied to a price leave no remainder.    *)
(***************************************************************************)
EXTENDS Integers, Sequences, SequencesExt, FiniteSetsExt

CONSTANTS
    N,            \* number of bars of the history
    Bars,         \* the bars a history is drawn from
    Strategies,   \* the specs: gate, stop, target, exits, sizing
    Scale,        \* denominator of the rates
    Slippage,     \* slippage_for_spec, in 1/Scale
    Commission,   \* commission_for_spec, in 1/Scale
    WarmupBars,   \* bars before the ATR has a value
    NONE          \* Python's None and NaN

ASSUME BarsAssumption ==
    /\ N \in Nat /\ N > 1 /\ WarmupBars \in Nat
    /\ \A b \in Bars : /\ {b.open, b.low, b.high, b.close} \subseteq Nat
                       /\ b.raw \in BOOLEAN /\ b.exit \in BOOLEAN
ASSUME RatesAssumption ==
    /\ Scale \in Nat \ {0}
    /\ Slippage \in 0..(Scale - 1)
    /\ Commission \in 0..(Scale - 1)

StopKinds == {"none", "percent", "trailing_percent", "atr_multiple", "trailing_atr", "fixed_price"}
TargetKinds == {"none", "percent", "fixed_price", "atr_multiple", "r_multiple"}

\* StrategySpec's validator: an r_multiple target requires a stop.
ASSUME StrategiesAssumption ==
    \A s \in Strategies :
        /\ s.stop.kind \in StopKinds /\ s.stop.value \in Int
        /\ s.target.kind \in TargetKinds /\ s.target.value \in Int
        /\ s.target.kind = "r_multiple" => s.stop.kind # "none"

\* An open position, and the exit that a bar triggers.
Levels == Int \cup {NONE}
Positions == [entry : Int, fill : Int, stop : Levels, target : Levels, anchor : Int]
Exits == [raw : Int, reason : {"stop_loss", "take_profit"}]

ASSUME NoneAssumption == NONE \notin Int \cup Positions \cup Exits

VARIABLES
    strategy,  \* the compiled spec
    bars,      \* the history, a function from bar numbers
    backtest,  \* the locals of run_iterative_backtest
    done,      \* number of bars the backtest has walked
    trail,     \* trail[b]: the backtest's locals after bar b
    live,      \* the persisted Tier3State
    lastBar,   \* Tier3State.last_bar
    decision   \* what the latest live cycle returned

simVars == <<strategy, bars, backtest, done, trail, live, lastBar, decision>>

-----------------------------------------------------------------------------
(* Prices and costs. *)

Times(x, rate) == (x * rate) \div Scale
Price(p) == p * (Scale * Scale * Scale * Scale)

BuyFill(raw) == Times(raw, Scale + Slippage)
SellFill(raw) == Times(raw, Scale - Slippage)
EntryCost(fill) == Times(fill, Scale + Commission)
ExitProceeds(raw) == Times(SellFill(raw), Scale - Commission)

Atr(b) == IF b < WarmupBars THEN NONE ELSE Price(1)

\* StopLossMethod and TakeProfitMethod: a kind and its value.  A position
\* without the exit has level NONE; an ATR still warming up counts as 0.
AtrAtEntry(b) == IF Atr(b) = NONE THEN 0 ELSE Atr(b)

StopLevel(fill, entry) ==
    LET m == strategy.stop IN
    CASE m.kind = "none" -> NONE
      [] m.kind \in {"percent", "trailing_percent"} -> Times(fill, Scale - m.value)
      [] m.kind \in {"atr_multiple", "trailing_atr"} -> fill - m.value * AtrAtEntry(entry)
      [] m.kind = "fixed_price" -> Price(m.value)

TpLevel(fill, stop, entry) ==
    LET m == strategy.target IN
    CASE m.kind = "none" -> NONE
      [] m.kind = "percent" -> Times(fill, Scale + m.value)
      [] m.kind = "fixed_price" -> Price(m.value)
      [] m.kind = "atr_multiple" -> fill + m.value * AtrAtEntry(entry)
      [] m.kind = "r_multiple" -> fill + m.value * (fill - stop)

\* _entry_size: risk-based sizing on an ATR stop buys nothing in the warm-up.
Sized(entry) == ~(strategy.riskSized /\ Atr(entry) = NONE)

NewPosition(raw, entry) ==
    LET fill == BuyFill(raw)
        stop == StopLevel(fill, entry)
    IN [entry |-> entry, fill |-> fill, stop |-> stop,
        target |-> TpLevel(fill, stop, entry), anchor |-> fill]

OpenPosition(raw, entry) == IF Sized(entry) THEN NewPosition(raw, entry) ELSE NONE

\* The stop goes first, and a gap through a level fills at the open.
IntrabarExit(pos, b) ==
    LET open == Price(bars[b].open) IN
    IF pos.stop # NONE /\ Price(bars[b].low) <= pos.stop
    THEN [raw |-> IF open <= pos.stop THEN open ELSE pos.stop, reason |-> "stop_loss"]
    ELSE IF pos.target # NONE /\ Price(bars[b].high) >= pos.target
    THEN [raw |-> IF open >= pos.target THEN open ELSE pos.target, reason |-> "take_profit"]
    ELSE NONE

UpdateTrailing(pos, b) ==
    LET anchor == Max({pos.anchor, Price(bars[b].high)})
        m == strategy.stop
        Raised(level) == [pos EXCEPT !.anchor = anchor, !.stop = Max({@, level})]
    IN CASE m.kind = "trailing_percent" -> Raised(Times(anchor, Scale - m.value))
         [] m.kind = "trailing_atr" /\ Atr(b) # NONE -> Raised(anchor - m.value * Atr(b))
         [] m.kind = "trailing_atr" /\ Atr(b) = NONE -> [pos EXCEPT !.anchor = anchor]
         [] OTHER -> pos

\* Condition exits: a precomputed series, and a compare against a ratchet
\* that runs over the bars since the entry.
CondExit(b, entry) ==
    CASE strategy.exit = "none" -> FALSE
      [] strategy.exit = "series" -> bars[b].exit
      [] strategy.exit = "ratchet" -> bars[b].close < Max({bars[i].high : i \in entry..b}) - 1

ExitDecided(b, entry) ==
    \/ strategy.maxBars # NONE /\ b - entry >= strategy.maxBars
    \/ CondExit(b, entry)

-----------------------------------------------------------------------------
(* TradeHistory and SignalHistory. *)

\* _completed: the exit index of a completed trade is its number.
Completed(sim, pnl) == [exitIndex |-> sim.tradeId + 1, pnl |-> pnl]

PriorTrade(history, gate, b) ==
    LET Run(Won(_)) == /\ Len(history) >= gate.n
                       /\ \A i \in (Len(history) - gate.n + 1)..Len(history) : Won(history[i].pnl)
    IN /\ history # <<>>
       /\ CASE gate.pred = "last_won" -> Last(history).pnl > 0
            [] gate.pred = "last_lost" -> Last(history).pnl < 0
            [] gate.pred = "consecutive_wins_at_least" -> Run(LAMBDA p : p > 0)
            [] gate.pred = "consecutive_losses_at_least" -> Run(LAMBDA p : p < 0)
            [] gate.pred = "bars_since_last_at_least" -> b - Last(history).exitIndex >= gate.n

Resolved(rec, b) == rec.resolvedBar # NONE /\ rec.resolvedBar <= b

PriorSignal(signals, gate, b) ==
    LET known == {i \in DOMAIN signals : Resolved(signals[i], b)} IN
    /\ known # {}
    /\ LET rec == signals[Max(known)] IN
       CASE gate.pred = "last_would_have_won" -> rec.pnl > 0
         [] gate.pred = "last_would_have_lost" -> rec.pnl < 0
         [] gate.pred = "last_fired" -> rec.fired

TracksSignals == strategy.gate.type = "prior_signal"

\* The entry condition and(core, gate) or and(core, not(gate)).
EntryEval(sim, b) ==
    LET gate == strategy.gate
        open == IF TracksSignals THEN PriorSignal(sim.signals, gate, b)
                ELSE PriorTrade(sim.history, gate, b)
    IN bars[b].raw /\ (gate.negated # open)

NewSignal(b, fired) == [bar |-> b, fired |-> fired, pnl |-> NONE, resolvedBar |-> NONE]

ResolveAt(signals, i, pnl, b) ==
    [signals EXCEPT ![i] = [@ EXCEPT !.pnl = pnl, !.resolvedBar = b]]

ResolveLastPending(signals, pnl, b) ==
    ResolveAt(signals, Max({i \in DOMAIN signals : signals[i].pnl = NONE}), pnl, b)

Resolve(signals, bar, pnl, b) ==
    ResolveAt(signals, Min({i \in DOMAIN signals : signals[i].bar = bar /\ signals[i].pnl = NONE}),
              pnl, b)

-----------------------------------------------------------------------------
(* The phantom trade of a skipped signal. *)

NewPhantom(b) == [bar |-> b, pos |-> NONE, exitAt |-> NONE]

PhantomReturn(pos, raw) == ExitProceeds(raw) - EntryCost(pos.fill)

\* Mutant of AdvancePhantom: a phantom counts its bars from its fill.
AdvancePhantomFromFill(ph, b) ==
    LET pos == IF ph.pos = NONE THEN NewPosition(Price(bars[b].open), ph.bar) ELSE ph.pos
        hit == IntrabarExit(pos, b)
        moved == [ph EXCEPT !.pos = UpdateTrailing(pos, b),
                            !.exitAt = IF ExitDecided(b, ph.bar + 1) THEN b ELSE NONE]
    IN CASE ph.exitAt # NONE ->
              [ph |-> ph, pnl |-> PhantomReturn(pos, Price(bars[b].open)), resolvedBar |-> b]
         [] ph.exitAt = NONE /\ hit # NONE ->
              [ph |-> ph, pnl |-> PhantomReturn(pos, hit.raw), resolvedBar |-> b]
         [] OTHER -> [ph |-> moved, pnl |-> NONE, resolvedBar |-> NONE]

\* One bar of a phantom: its next state, and its return once it has one.
AdvancePhantom(ph, b) ==
    LET pos == IF ph.pos = NONE THEN NewPosition(Price(bars[b].open), ph.bar) ELSE ph.pos
        hit == IntrabarExit(pos, b)
        moved == [ph EXCEPT !.pos = UpdateTrailing(pos, b),
                            !.exitAt = IF ExitDecided(b, ph.bar) THEN b ELSE NONE]
    IN CASE ph.exitAt # NONE ->
              [ph |-> ph, pnl |-> PhantomReturn(pos, Price(bars[b].open)), resolvedBar |-> b]
         [] ph.exitAt = NONE /\ hit # NONE ->
              [ph |-> ph, pnl |-> PhantomReturn(pos, hit.raw), resolvedBar |-> b]
         [] OTHER -> [ph |-> moved, pnl |-> NONE, resolvedBar |-> NONE]

\* The backtest runs the phantom of a signal to its end at once; what is
\* still open after the last bar is worth the last close.
Phantom(signalBar) ==
    LET run[b \in signalBar..(N - 1)] ==
            IF b = signalBar
            THEN [ph |-> NewPhantom(signalBar), pnl |-> NONE, resolvedBar |-> NONE]
            ELSE IF run[b - 1].pnl # NONE THEN run[b - 1] ELSE AdvancePhantom(run[b - 1].ph, b)
        end == run[N - 1]
    IN IF end.pnl # NONE THEN end
       ELSE [end EXCEPT !.pnl = PhantomReturn(end.ph.pos, Price(bars[N - 1].close)),
                        !.resolvedBar = N - 1]

-----------------------------------------------------------------------------
(* One bar of a simulation.  The two loops share their stages and differ   *)
(* in how a signal's outcome is found and in the last bar, which has no    *)
(* successor in a backtest and is the moving edge of a live history.       *)

NoSim == [pos |-> NONE, cash |-> 0, entryAt |-> NONE, exitAt |-> NONE, tradeId |-> 0,
          trades |-> <<>>, history |-> <<>>, signals |-> <<>>, phantoms |-> <<>>]

FillEntry(sim, b) ==
    IF sim.entryAt = NONE \/ sim.pos # NONE THEN sim
    ELSE LET pos == OpenPosition(Price(bars[b].open), sim.entryAt) IN
         [sim EXCEPT !.pos = pos, !.entryAt = NONE,
                     !.cash = IF pos = NONE THEN @ ELSE @ - EntryCost(pos.fill)]

\* _close_position and the records that follow it.
Close(sim, exitBar, raw, reason, signals) ==
    LET pnl == ExitProceeds(raw) - EntryCost(sim.pos.fill) IN
    [sim EXCEPT
        !.pos = NONE,
        !.cash = @ + ExitProceeds(raw),
        !.tradeId = @ + 1,
        !.trades = Append(@, [entry |-> sim.pos.entry, exit |-> exitBar, raw |-> raw,
                              reason |-> reason, pnl |-> pnl]),
        !.history = Append(@, Completed(sim, pnl)),
        !.signals = signals]

\* The signal records after the open trade closed on bar b at raw.
BacktestScore(sim, raw, b) ==
    IF TracksSignals
    THEN ResolveLastPending(sim.signals, ExitProceeds(raw) - EntryCost(sim.pos.fill), b)
    ELSE sim.signals

LiveScore(sim, raw, b) ==
    IF TracksSignals
    THEN Resolve(sim.signals, sim.pos.entry, ExitProceeds(raw) - EntryCost(sim.pos.fill), b)
    ELSE sim.signals

\* replay: the loop is the live one, not the backtest's.
Score(sim, raw, b, replay) ==
    IF replay THEN LiveScore(sim, raw, b) ELSE BacktestScore(sim, raw, b)

FillExit(sim, b, replay) ==
    IF sim.exitAt = NONE \/ sim.pos = NONE THEN sim
    ELSE LET raw == Price(bars[b].open) IN
         [Close(sim, sim.exitAt, raw, "signal", Score(sim, raw, b, replay)) EXCEPT !.exitAt = NONE]

\* Mutant of Intrabar: the stop trails before the bar is checked against it.
IntrabarTrailFirst(sim, b, replay) ==
    IF sim.pos = NONE THEN sim
    ELSE LET hit == IntrabarExit(UpdateTrailing(sim.pos, b), b) IN
         IF hit # NONE THEN Close(sim, b, hit.raw, hit.reason, Score(sim, hit.raw, b, replay))
         ELSE [sim EXCEPT !.pos = UpdateTrailing(@, b)]

Intrabar(sim, b, replay) ==
    IF sim.pos = NONE THEN sim
    ELSE LET hit == IntrabarExit(sim.pos, b) IN
         IF hit # NONE THEN Close(sim, b, hit.raw, hit.reason, Score(sim, hit.raw, b, replay))
         ELSE [sim EXCEPT !.pos = UpdateTrailing(@, b)]

\* What to do with a signal that the gate skipped.
BacktestSkip(sim, b) ==
    LET r == Phantom(b) IN
    [sim EXCEPT !.signals = Append(@, [NewSignal(b, FALSE) EXCEPT !.pnl = r.pnl,
                                                                 !.resolvedBar = r.resolvedBar])]

LiveSkip(sim, b) ==
    [sim EXCEPT !.signals = Append(@, NewSignal(b, FALSE)),
                !.phantoms = Append(@, NewPhantom(b))]

DecideEntry(sim, b, canFill, replay) ==
    LET fired == EntryEval(sim, b)
        entered == [sim EXCEPT !.entryAt = b]
    IN IF ~canFill \/ sim.pos # NONE \/ sim.entryAt # NONE THEN sim
       ELSE IF ~TracksSignals THEN IF fired THEN entered ELSE sim
       ELSE IF ~bars[b].raw THEN sim
       ELSE IF fired THEN [entered EXCEPT !.signals = Append(@, NewSignal(b, TRUE))]
       ELSE IF replay THEN LiveSkip(sim, b) ELSE BacktestSkip(sim, b)

DecideExit(sim, b, canFill) ==
    IF canFill /\ sim.pos # NONE /\ sim.exitAt = NONE /\ ExitDecided(b, sim.pos.entry)
    THEN [sim EXCEPT !.exitAt = b]
    ELSE sim

\* STEP 2.5 of the live loop: every pending phantom moves by this bar, and
\* those that exited leave the list and resolve their signals.
AdvancePhantoms(sim, b) ==
    LET One(s, ph) ==
            LET r == AdvancePhantom(ph, b) IN
            IF r.pnl = NONE THEN [s EXCEPT !.phantoms = Append(@, r.ph)]
            ELSE [s EXCEPT !.signals = Resolve(@, ph.bar, r.pnl, r.resolvedBar)]
        moved[i \in 0..Len(sim.phantoms)] ==
            IF i = 0 THEN [sim EXCEPT !.phantoms = <<>>] ELSE One(moved[i - 1], sim.phantoms[i])
    IN moved[Len(sim.phantoms)]

BacktestStep(sim, b) ==
    LET filled == FillExit(FillEntry(sim, b), b, FALSE)
        marked == Intrabar(filled, b, FALSE)
    IN DecideExit(DecideEntry(marked, b, b < N - 1, FALSE), b, b < N - 1)

\* Mutant of LiveStep: the phantoms move after the entry was decided.
LiveStepPhantomsLast(sim, b) ==
    LET filled == FillExit(FillEntry(sim, b), b, TRUE)
        marked == Intrabar(filled, b, TRUE)
    IN DecideExit(AdvancePhantoms(DecideEntry(marked, b, TRUE, TRUE), b), b, TRUE)

LiveStep(sim, b) ==
    LET filled == FillExit(FillEntry(sim, b), b, TRUE)
        marked == AdvancePhantoms(Intrabar(filled, b, TRUE), b)
    IN DecideExit(DecideEntry(marked, b, TRUE, TRUE), b, TRUE)

-----------------------------------------------------------------------------
SimInit ==
    /\ strategy \in Strategies
    /\ bars \in [0..(N - 1) -> Bars]
    /\ backtest = NoSim
    /\ done = 0
    /\ trail = <<>>
    /\ live = NoSim
    /\ lastBar = -1
    /\ decision = "HOLD"

\* The body of the loop of run_iterative_backtest.
BacktestBar ==
    /\ done < N
    /\ backtest' = BacktestStep(backtest, done)
    /\ trail' = Append(trail, backtest')
    /\ done' = done + 1
    /\ UNCHANGED <<strategy, bars, live, lastBar, decision>>

\* After the loop: an open position is valued at the last close.  It is
\* appended to the trades and not to the history.
EndOfData ==
    /\ done = N
    /\ backtest.pos # NONE
    /\ LET closed == Close(backtest, N - 1, Price(bars[N - 1].close), "end_of_data", backtest.signals)
       IN backtest' = [closed EXCEPT !.history = backtest.history]
    /\ UNCHANGED <<strategy, bars, done, trail, live, lastBar, decision>>

\* What a simulation decided on the close of bar b.
Decision(sim, b) ==
    IF sim.entryAt = b THEN "BUY" ELSE IF sim.exitAt = b THEN "EXIT" ELSE "HOLD"

\* run_live_cycle on a history that ends at bar latest: every bar since the
\* checkpoint is stepped, and only the latest bar's decision is returned.
LiveCycle(latest) ==
    /\ done = N
    /\ latest \in (lastBar + 1)..(N - 1)
    /\ LET run[b \in lastBar..latest] == IF b = lastBar THEN live ELSE LiveStep(run[b - 1], b)
       IN live' = run[latest]
    /\ lastBar' = latest
    /\ decision' = Decision(live', latest)
    /\ UNCHANGED <<strategy, bars, backtest, done, trail>>

SimNext ==
    \/ BacktestBar
    \/ EndOfData
    \/ \E latest \in 0..(N - 1) : LiveCycle(latest)

SimSpec == SimInit /\ [][SimNext]_simVars

-----------------------------------------------------------------------------
(* Properties. *)

\* What is known of a signal record at the close of bar b.
KnownAt(signals, b) ==
    [i \in DOMAIN signals |->
        IF Resolved(signals[i], b) THEN signals[i]
        ELSE [signals[i] EXCEPT !.pnl = NONE, !.resolvedBar = NONE]]

\* Drift parity (iterative_live.py, "gated bit-for-bit"): whatever the bars
\* at which its cycles ended, a live checkpoint before the last bar agrees
\* with the backtest after the same bar on the position and its levels, the
\* cash, the trades, all outcomes known by then, and the decision returned.
\* As a live cycle has no later bars, the backtest's gates do not look ahead
\* either, although it scores a skipped signal with bars yet to come.
LiveMatchesBacktest ==
    lastBar \in 0..(N - 2) =>
        LET past == trail[lastBar + 1] IN
        /\ \A f \in {"pos", "cash", "entryAt", "exitAt", "trades", "history"} : live[f] = past[f]
        /\ live.signals = KnownAt(past.signals, lastBar)
        /\ decision = Decision(past, lastBar)

\* The promise of the phantom evaluator's docstring: a phantom outcome is
\* what a real trade on the same signal gives.  Checked on the signals that
\* did fire: the phantom of such a signal has its trade's result and bar.
PhantomMatchesTrade ==
    \A i \in DOMAIN backtest.signals :
        LET rec == backtest.signals[i] IN
        rec.fired /\ rec.pnl # NONE =>
            LET r == Phantom(rec.bar) IN r.pnl = rec.pnl /\ r.resolvedBar = rec.resolvedBar

\* A stop fills no better than the open and at a level raised by earlier
\* bars only (_update_trailing: "no intrabar look-ahead"): the reference
\* level is computed anew from the bars between entry and exit.
StopReference(t) ==
    LET fill == BuyFill(Price(bars[t.entry + 1].open))
        m == strategy.stop
        Anchor(b) == Max({fill} \cup {Price(bars[i].high) : i \in (t.entry + 1)..b})
        Raises == CASE m.kind = "trailing_percent" ->
                         {Times(Anchor(b), Scale - m.value) : b \in (t.entry + 1)..(t.exit - 1)}
                    [] m.kind = "trailing_atr" ->
                         {Anchor(b) - m.value * Atr(b) :
                             b \in {i \in (t.entry + 1)..(t.exit - 1) : Atr(i) # NONE}}
                    [] OTHER -> {}
    IN Max({StopLevel(fill, t.entry)} \cup Raises)

StopsFillAtPastLevel ==
    \A i \in DOMAIN backtest.trades :
        LET t == backtest.trades[i] IN
        t.reason = "stop_loss" =>
            t.raw = Min({StopReference(t), Price(bars[t.exit].open)})
=============================================================================
