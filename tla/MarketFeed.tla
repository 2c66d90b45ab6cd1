----------------------------- MODULE MarketFeed -----------------------------
(***************************************************************************)
(* Market data and alerts.  ingest_one_cycle fetches the recent candles of *)
(* every pair through an exchange adapter, stores the closed ones, counts  *)
(* consecutive fetch errors in Redis, and looks for gaps, which it tries   *)
(* to backfill.  dispatch_pending_alerts sends the alert rows to Telegram. *)
(*                                                                         *)
(* Both run in the one trader worker.  The heartbeat and, in ingestion,    *)
(* the writes of the first pair commit by themselves; the first plain      *)
(* SELECT opens a transaction that lasts until the job ends.  `db` is what *)
(* is committed, `tx` what the running job sees.  Redis keys and sent      *)
(* messages are in no transaction.                                         *)
(*                                                                         *)
(* The clock counts ticks; bar b opens at b * BarTicks.  The venue's clock *)
(* is `lead` behind the worker's.  Candle values are left out, but for     *)
(* whether a row was taken from a bar that was still forming.  The Redis   *)
(* keys' expiry after 24 h is left out.                                    *)
(***************************************************************************)
EXTENDS Integers, Sequences, FiniteSets, FiniteSetsExt, SequencesExt

CONSTANTS
    Feeds,         \* what TRADER_SYMBOLS x TRADER_TIMEFRAMES may be: sequences of pairs
    Pairs,         \* pairs that may occur: a symbol has a base and a quote, or no quote
    FirstDay,      \* the weekday of tick 0 (0: Monday)
    BarTicks,      \* ticks in a bar
    DayTicks,      \* ticks in a day
    Margin,        \* _SAFETY_MARGIN_SECONDS, in ticks
    Limit,         \* candles of a recent fetch
    BackfillLimit, \* candles of a backfill
    PageSize,      \* _PAGE_SIZE of the Oanda adapter
    Lookback,      \* _GAP_DETECTION_LOOKBACK
    Threshold,     \* _DATA_FEED_FAILURE_THRESHOLD
    MaxRetries,    \* attempts of a fetch, and of a Telegram call
    MaxTime,       \* bound: last tick
    MaxAlerts,     \* bound: alert rows
    MaxOthers,     \* bound: alerts of other loops
    MaxHoles,      \* bound: bars that an answer of a venue may leave out
    MaxFaults      \* bound: crashes, exceptions and failed deliveries

ASSUME FeedAssumption ==
    /\ {BarTicks, DayTicks, Limit, BackfillLimit, PageSize, Lookback, Threshold,
        MaxRetries} \subseteq Nat \ {0}
    /\ {Margin, MaxTime, MaxAlerts, MaxOthers, MaxHoles, MaxFaults} \subseteq Nat
    /\ FirstDay \in 0..6
    /\ Feeds \subseteq Seq(Pairs) \ {<< >>}
    /\ \A f \in Feeds : IsInjective(f)
    /\ [base |-> "", quote |-> ""] \notin Pairs

Times == 0..MaxTime
Bars == 0..(MaxTime \div BarTicks)
Kinds == {"failure", "recovery", "info", "refusable"}
NoPair == [base |-> "", quote |-> ""]

VARIABLES
    feed,      \* the pairs, in order
    now,       \* the worker's clock
    lead,      \* how far it is ahead of the venues'
    db, tx,    \* trader_candles, trader_alerts and the stale_data risk events
    open,      \* a transaction is open: inner transactions are savepoints
    redis,     \* err_count and err_alerted per pair
    pc,        \* "idle", "ingest", "backfill" or "dispatch"
    cycleNow,  \* actual_now of the latest cycle, -1 before the first
    todo,      \* the pairs, or the alerts, that the job has yet to handle
    failing,   \* history: consecutive cycles in which the fetch of a pair failed
    sent,      \* how often Telegram has received each alert
    faults

vars == <<feed, now, lead, db, tx, open, redis, pc, cycleNow, todo, failing, sent, faults>>

-----------------------------------------------------------------------------
(* The adapters. *)

CryptoQuotes == {"USDT", "USDC", "BTC", "ETH"}
FxMajors == {"EUR", "GBP", "AUD", "NZD", "USD", "JPY", "CHF", "CAD"}
Metals == {"XAU", "XAG", "XPT", "XPD"}

InferAssetClass(p) ==
    CASE p.quote = "" -> "equity"
      [] p.quote \in CryptoQuotes -> "crypto_spot"
      [] p.base \in Metals -> "metals_spot"
      [] {p.base, p.quote} \subseteq FxMajors -> "fx_spot"
      [] OTHER -> "unknown"

\* make_adapter has no adapter for the equity classes.
AdapterOf(p) ==
    CASE InferAssetClass(p) = "crypto_spot" -> "binance"
      [] InferAssetClass(p) \in {"fx_spot", "metals_spot"} -> "oanda"
      [] OTHER -> "none"

\* The adapter of a cycle is that of the first symbol.
Adapter == AdapterOf(feed[1])

\* What a venue may answer to one attempt.  A pair of another asset class is
\* unknown to it.
Answers(p) ==
    IF AdapterOf(p) # Adapter THEN {"http_error"}
    ELSE {"ok", "network", "http_error", "malformed"}
             \cup (IF Adapter = "oanda" /\ faults < MaxFaults THEN {"protocol"} ELSE {})

\* The Binance adapter retries on every ccxt error, the Oanda adapter on
\* network errors and timeouts; others of httpx's exceptions it lets through.
Retried == IF Adapter = "binance" THEN {"network", "http_error", "malformed"} ELSE {"network"}

FetchWithRetry(answers) ==
    LET final == {i \in 1..MaxRetries : answers[i] \notin Retried} IN
    CASE final = {} -> "error"
      [] answers[Min(final)] = "ok" -> "ok"
      [] answers[Min(final)] = "protocol" -> "raise"
      [] OTHER -> "error"

FetchResults(p) == {FetchWithRetry(answers) : answers \in [1..MaxRetries -> Answers(p)]}

VenueNow == Max({0, now - lead})
Forming == VenueNow \div BarTicks

FirstOf(n, S) == {b \in S : Cardinality({c \in S : c < b}) < n}
LastOf(n, S) == {b \in S : Cardinality({c \in S : c > b}) < n}

\* The bars of a recent fetch; Oanda's page may hold the forming bar, which
\* _parse_candles drops.
FetchRecent(published) ==
    LET page == LastOf(Limit, published) IN
    IF Adapter = "oanda" THEN page \ {Forming} ELSE page

\* Mutant of OandaSince: the cursor does not move to the next page.
OandaSinceOnePage(since, published) ==
    FirstOf(PageSize, {b \in published : b >= since}) \ {Forming}

\* fetch_ohlcv_since of the Oanda adapter: pages until one is short.
OandaSince(since, published) ==
    LET pages[at \in (0..(Forming + 1)) \X (0..BackfillLimit)] ==
            LET cursor == at[1]
                room   == at[2]
                count  == Min({PageSize, room})
                page   == FirstOf(count, {b \in published : b >= cursor}) \ {Forming}
            IN IF room = 0 \/ Cardinality(page) < count THEN page
               ELSE page \cup pages[<<Max(page) + 1, room - count>>]
    IN pages[<<since, BackfillLimit>>]

FetchSince(since, published) ==
    IF Adapter = "oanda" THEN OandaSince(since, published)
    ELSE FirstOf(BackfillLimit, {b \in published : b >= since})

\* A venue serves its bars up to the forming one, and may leave some out.
Published == {(0..Forming) \ holes : holes \in UNION {kSubset(n, 0..Forming) : n \in 0..MaxHoles}}

-----------------------------------------------------------------------------
(* Pure helpers of ingestion. *)

\* Mutant of FilterClosed: without the safety margin.
FilterClosedNoMargin(bars) == {b \in Bars \cap bars : (b + 1) * BarTicks <= cycleNow}

FilterClosed(bars) == {b \in Bars \cap bars : (b + 1) * BarTicks <= cycleNow - Margin}

Recent(d, p) == LastOf(Lookback, d.candles[p])

\* Pairs of consecutive rows that are not one bar apart.
Gaps(d, p) ==
    {b \in Recent(d, p) : b + 1 \notin Recent(d, p) /\ \E c \in Recent(d, p) : c > b}

\* ON CONFLICT DO NOTHING: the first row of a bar stays.
Upsert(d, p, bars) ==
    [d EXCEPT !.candles[p] = @ \cup bars,
              !.partial = @ \cup {<<p, b>> : b \in {b \in bars \ d.candles[p] :
                                                       (b + 1) * BarTicks > VenueNow}}]

Emit(d, kind, p) ==
    [d EXCEPT !.alerts = Append(@, [kind |-> kind, of |-> p, delivered |-> FALSE,
                                    error |-> FALSE])]

ShouldSkipWeekend(p, t) == InferAssetClass(p) # "crypto_spot" /\ (FirstDay + t \div DayTicks) % 7 >= 5

\* Mutant of Failed: an alert for every failure from the threshold on.
FailedAgain(p) ==
    LET n == redis.count[p] + 1 IN
    [redis |-> [redis EXCEPT !.count[p] = n, !.alerted[p] = n >= Threshold],
     fire |-> n >= Threshold]

\* _update_error_state: the new streak and the alert to write.
Failed(p) ==
    LET n == redis.count[p] + 1
        fire == n = Threshold /\ ~redis.alerted[p]
    IN [redis |-> [redis EXCEPT !.count[p] = n, !.alerted[p] = @ \/ fire], fire |-> fire]

Succeeded(p) ==
    [redis |-> [redis EXCEPT !.count[p] = 0, !.alerted[p] = FALSE], fire |-> redis.alerted[p]]

-----------------------------------------------------------------------------
(* Transactions. *)

\* A write commits at once unless a transaction is open.
Write(d) == tx' = d /\ db' = IF open THEN db ELSE d

Commit ==
    /\ db' = tx /\ tx' = tx
    /\ open' = FALSE /\ pc' = "idle" /\ todo' = << >>

\* The process dies, or the job ends by an exception.
Abort ==
    /\ faults < MaxFaults
    /\ faults' = faults + 1
    /\ tx' = db /\ open' = FALSE /\ pc' = "idle" /\ todo' = << >>
    /\ UNCHANGED <<feed, now, lead, db, cycleNow, sent>>

Crash == pc # "idle" /\ Abort /\ UNCHANGED <<redis, failing>>

-----------------------------------------------------------------------------
(* ingest_one_cycle *)

\* The main cycle runs once a minute; without an adapter it fails at once.
StartCycle ==
    /\ pc = "idle" /\ cycleNow < now
    /\ Len(tx.alerts) + Len(feed) <= MaxAlerts \* so that the bound stops no cycle halfway
    /\ cycleNow' = now
    /\ IF Adapter = "none" THEN UNCHANGED <<pc, todo>>
       ELSE pc' = "ingest" /\ todo' = feed
    /\ UNCHANGED <<feed, now, lead, db, tx, open, redis, failing, sent, faults>>

\* A symbol without a class is met after the pairs before it: the cycle ends.
ClassifyRaises ==
    /\ pc = "ingest" /\ todo # << >> /\ InferAssetClass(Head(todo)) = "unknown"
    /\ tx' = db /\ open' = FALSE /\ pc' = "idle" /\ todo' = << >>
    /\ UNCHANGED <<feed, now, lead, db, redis, cycleNow, failing, sent, faults>>

SkipWeekend ==
    /\ pc = "ingest" /\ todo # << >> /\ InferAssetClass(Head(todo)) # "unknown"
    /\ ShouldSkipWeekend(Head(todo), cycleNow)
    /\ todo' = Tail(todo)
    /\ UNCHANGED <<feed, now, lead, db, tx, open, redis, pc, cycleNow, failing, sent, faults>>

\* The pair whose turn it is, and what its fetch comes to.
Fetch(p, result) ==
    /\ pc = "ingest" /\ todo # << >> /\ p = Head(todo) /\ InferAssetClass(p) # "unknown"
    /\ ~ShouldSkipWeekend(p, cycleNow)
    /\ result \in FetchResults(p)

FetchFails(p) ==
    LET update == Failed(p) IN
    /\ Fetch(p, "error")
    /\ redis' = update.redis
    /\ failing' = [failing EXCEPT ![p] = @ + 1]
    /\ IF update.fire THEN Write(Emit(tx, "failure", p)) ELSE UNCHANGED <<db, tx>>
    /\ todo' = Tail(todo)
    /\ UNCHANGED <<feed, now, lead, open, pc, cycleNow, sent, faults>>

FetchRaises(p) == Fetch(p, "raise") /\ Abort /\ UNCHANGED <<redis, failing>>

\* Store the closed bars, end the streak, and look for gaps: the SELECT of
\* the gap detection opens the transaction, behind the first pair's writes.
FetchStores(p) ==
    LET update == Succeeded(p) IN
    /\ Fetch(p, "ok")
    /\ redis' = update.redis
    /\ failing' = [failing EXCEPT ![p] = 0]
    /\ \E published \in Published :
         LET stored == Upsert(tx, p, FilterClosed(FetchRecent(published)))
         IN Write(IF update.fire THEN Emit(stored, "recovery", p) ELSE stored)
    /\ open' = TRUE
    /\ IF Gaps(tx', p) # {} THEN pc' = "backfill" /\ UNCHANGED todo
       ELSE todo' = Tail(todo) /\ UNCHANGED pc
    /\ UNCHANGED <<feed, now, lead, cycleNow, sent, faults>>

\* A gap that the backfill leaves becomes a stale_data event.
Reported(d, p) ==
    IF Gaps(d, p) = {} THEN d ELSE [d EXCEPT !.stale = @ \cup {<<p, cycleNow>>}]

\* since is the first recent close, which is the open of the bar behind it.
BackfillStores(p, published) ==
    /\ pc = "backfill" /\ p = Head(todo) /\ "ok" \in FetchResults(p)
    /\ tx' = Reported(Upsert(tx, p, FilterClosed(
                          FetchSince(Min(Recent(tx, p)) + 1, published))), p)
    /\ pc' = "ingest" /\ todo' = Tail(todo)
    /\ UNCHANGED <<feed, now, lead, db, open, redis, cycleNow, failing, sent, faults>>

BackfillFails(p) ==
    /\ pc = "backfill" /\ p = Head(todo) /\ "error" \in FetchResults(p)
    /\ tx' = Reported(tx, p)
    /\ pc' = "ingest" /\ todo' = Tail(todo)
    /\ UNCHANGED <<feed, now, lead, db, open, redis, cycleNow, failing, sent, faults>>

BackfillRaises(p) ==
    /\ pc = "backfill" /\ p = Head(todo) /\ "raise" \in FetchResults(p)
    /\ Abort /\ UNCHANGED <<redis, failing>>

EndCycle ==
    /\ pc = "ingest" /\ todo = << >>
    /\ Commit
    /\ UNCHANGED <<feed, now, lead, redis, cycleNow, failing, sent, faults>>

-----------------------------------------------------------------------------
(* dispatch_pending_alerts *)

\* Other loops write alerts: of severity info, or with a text that Telegram
\* refuses as Markdown.
EmitOther(kind) ==
    /\ pc = "idle" /\ Len(tx.alerts) < MaxAlerts
    /\ Len(SelectSeq(tx.alerts, LAMBDA a : a.of = NoPair)) < MaxOthers
    /\ Write(Emit(tx, kind, NoPair))
    /\ UNCHANGED <<feed, now, lead, open, redis, pc, cycleNow, todo, failing, sent, faults>>

Pending(d) == {i \in DOMAIN d.alerts : ~d.alerts[i].delivered}

\* Oldest first.  The SELECT opens the transaction of the pass.
StartDispatch ==
    /\ pc = "idle" /\ Pending(tx) # {}
    /\ pc' = "dispatch" /\ open' = TRUE
    /\ todo' = SetToSortSeq(Pending(tx), <)
    /\ UNCHANGED <<feed, now, lead, db, tx, redis, cycleNow, failing, sent, faults>>

Handle(i, row) ==
    /\ tx' = [tx EXCEPT !.alerts[i] = row]
    /\ todo' = Tail(todo)
    /\ UNCHANGED <<feed, now, lead, db, open, redis, pc, cycleNow, failing>>

\* No network call for severity info and the channel log.
MarkInfo ==
    /\ pc = "dispatch" /\ todo # << >>
    /\ LET i == Head(todo) IN
         /\ tx.alerts[i].kind = "info"
         /\ Handle(i, [tx.alerts[i] EXCEPT !.delivered = TRUE, !.error = FALSE])
    /\ UNCHANGED <<sent, faults>>

\* Attempts of one call: up to the first answer that is neither an error of
\* the connection ("lost": the message had arrived) nor of the server.
Attempts(answers) ==
    LET final == {i \in 1..MaxRetries : answers[i] \in {"ok", "refused"}} IN
    SubSeq(answers, 1, IF final = {} THEN MaxRetries ELSE Min(final))

\* Mutant of SendToTelegram: a pass stops at an alert that fails.
SendOrStop(i, attempts) ==
    LET success == Last(attempts) = "ok" IN
    /\ sent' = [sent EXCEPT ![i] = @ + Cardinality({k \in DOMAIN attempts : attempts[k] \in {"ok", "lost"}})]
    /\ tx' = [tx EXCEPT !.alerts[i].delivered = success, !.alerts[i].error = ~success]
    /\ todo' = IF success THEN Tail(todo) ELSE << >>
    /\ UNCHANGED <<feed, now, lead, db, open, redis, pc, cycleNow, failing>>

SendToTelegram(i, attempts) ==
    LET success == Last(attempts) = "ok" IN
    /\ sent' = [sent EXCEPT ![i] = @ + Cardinality({k \in DOMAIN attempts : attempts[k] \in {"ok", "lost"}})]
    /\ Handle(i, [tx.alerts[i] EXCEPT !.delivered = success, !.error = ~success])

\* Telegram always refuses a refusable text, and fails at times.
Send ==
    /\ pc = "dispatch" /\ todo # << >>
    /\ LET i == Head(todo) IN
         /\ tx.alerts[i].kind # "info"
         /\ \E answers \in [1..MaxRetries -> {"ok", "lost", "unavailable", "refused"}] :
              LET attempts == Attempts(answers)
                  smooth == IF tx.alerts[i].kind = "refusable" THEN <<"refused">> ELSE <<"ok">>
              IN /\ tx.alerts[i].kind = "refusable" => "ok" \notin Range(attempts) /\ "lost" \notin Range(attempts)
                 /\ attempts # smooth => faults < MaxFaults
                 /\ faults' = IF attempts # smooth THEN faults + 1 ELSE faults
                 /\ SendToTelegram(i, attempts)

EndDispatch ==
    /\ pc = "dispatch" /\ todo = << >>
    /\ Commit
    /\ UNCHANGED <<feed, now, lead, redis, cycleNow, failing, sent, faults>>

-----------------------------------------------------------------------------
Init ==
    /\ feed \in Feeds /\ now = 0 /\ lead \in 0..Margin
    /\ db = [candles |-> [p \in Pairs |-> {}], partial |-> {}, alerts |-> << >>, stale |-> {}]
    /\ tx = db /\ open = FALSE
    /\ redis = [count |-> [p \in Pairs |-> 0], alerted |-> [p \in Pairs |-> FALSE]]
    /\ pc = "idle" /\ cycleNow = -1 /\ todo = << >>
    /\ failing = [p \in Pairs |-> 0]
    /\ sent = [i \in 1..MaxAlerts |-> 0]
    /\ faults = 0

Tick ==
    /\ now < MaxTime
    /\ now' = now + 1
    /\ UNCHANGED <<feed, lead, db, tx, open, redis, pc, cycleNow, todo, failing, sent, faults>>

Ingest ==
    \/ StartCycle \/ ClassifyRaises \/ SkipWeekend \/ EndCycle
    \/ \E p \in Pairs :
         \/ FetchFails(p) \/ FetchRaises(p) \/ FetchStores(p)
         \/ \E published \in Published : BackfillStores(p, published)
         \/ BackfillFails(p) \/ BackfillRaises(p)

Dispatch == StartDispatch \/ MarkInfo \/ Send \/ EndDispatch

Next ==
    \/ Tick \/ Crash \/ Ingest \/ Dispatch
    \/ \E kind \in {"info", "refusable"} : EmitOther(kind)

\* Jobs end and are enqueued again: the chain of ticks is TraderRunner's.
Spec == Init /\ [][Next]_vars /\ WF_vars(Ingest) /\ SF_vars(StartDispatch) /\ WF_vars(Dispatch)
-----------------------------------------------------------------------------
(* Properties. *)

\* _filter_closed_candles drops the in-flight bar: since a stored row is never
\* updated, no row may be taken from a forming bar, although the clock of the
\* worker leads, and a cycle reads it once and may fetch and backfill later.
NoFormingBar == tx.partial = {}

\* The latest of the first n alerts of a pair is a failure.
Unanswered(alerts, n, p) ==
    \E i \in 1..n : /\ alerts[i].of = p /\ alerts[i].kind = "failure"
                   /\ \A j \in (i + 1)..n : alerts[j].of # p

Alternate(alerts, p) ==
    \A i \in 1..Len(alerts) :
        alerts[i].of = p =>
            alerts[i].kind = IF Unanswered(alerts, i - 1, p) THEN "recovery" ELSE "failure"

\* _update_error_state, "this alert fires once per streak; a recovery alert
\* will follow": the alert rows of a pair alternate, and there is one that no
\* recovery has answered exactly while the streak is at the threshold or more.
\* A symbol of no class behind the second may end a cycle and roll back an
\* alert that Redis counts as written.
StreakAlerted ==
    (faults = 0 /\ \A k \in 3..Len(feed) : InferAssetClass(feed[k]) # "unknown") =>
        \A p \in Pairs :
            /\ Alternate(tx.alerts, p)
            /\ Unanswered(tx.alerts, Len(tx.alerts), p) <=> (failing[p] >= Threshold)

\* "One-shot backfill": whatever holes earlier answers left in the recent
\* window, a backfill that the venue answers in full closes them, through
\* the pages of the adapter and the limits of both fetches.
BackfillHeals ==
    [][\A p \in Pairs : BackfillStores(p, 0..Forming) => Gaps(tx', p) = {}]_vars

\* alerts.py, "always write the alert row even if Telegram fails": a committed
\* alert is delivered in the end, and counts as delivered only if Telegram got
\* it, whatever other alerts it waits behind, and despite crashes.
AlertsReachOperator ==
    \A i \in 1..MaxAlerts :
        (i \in DOMAIN db.alerts /\ db.alerts[i].kind # "refusable")
            ~> /\ i \in DOMAIN db.alerts \ Pending(db)
               /\ db.alerts[i].kind # "info" => sent[i] > 0
=============================================================================
