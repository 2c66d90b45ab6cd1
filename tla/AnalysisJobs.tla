---------------------------- MODULE AnalysisJobs ----------------------------
(***************************************************************************)
(* The analysis service: the API counts a client's requests and enqueues   *)
(* jobs, and one worker ingests, transcribes, extracts a strategy with a   *)
(* language model, backtests it and analyses the backtest.  Each job looks *)
(* for its result, does the work in steps and stores a row; each step may  *)
(* be the last one of a job that is killed or runs out of time.            *)
(*                                                                         *)
(* A request handler reads the database, or counts in Redis, and enqueues  *)
(* later, so that handlers and the worker interleave.  Files of the disk   *)
(* cache are written in place: a killed job may leave one torn.            *)
(*                                                                         *)
(* A bar of the market data is a tick.  Texts, prices and measured results *)
(* are left out.  The quota is that of one IP.                             *)
(***************************************************************************)
EXTENDS Integers, Sequences, FiniteSets, FiniteSetsExt

CONSTANTS
    Sources,      \* what may be ingested: records with a kind
    Databases,    \* databases the service may be started on: what it has left behind before
    Windows,      \* ranges [from, to) that may be backtested
    Listing,      \* the first bar that the exchange has
    Outage,       \* bars that it lacks
    PageLimit,    \* _FETCH_LIMIT
    QuotaLimit,   \* rate_limit_ingest_per_day, 0: no limit
    CapCents,     \* the daily cost cap, 0: no cap
    CallMills,    \* what a call of the model costs, in tenths of a cent
    DayTicks,     \* ticks in a day
    Handlers,     \* request handlers of the API
    StartTime,    \* the first tick
    MaxTime,      \* bound: the last tick
    MaxRequests,  \* bound: requests
    MaxFaults     \* bound: killed jobs, restarts of the API, failures of Redis

ASSUME JobsAssumption ==
    /\ {PageLimit, CallMills, DayTicks} \subseteq Nat \ {0}
    /\ {Listing, QuotaLimit, CapCents, StartTime, MaxTime, MaxRequests, MaxFaults} \subseteq Nat
    /\ StartTime <= MaxTime
    /\ \A s \in Sources : s.kind \in {"youtube", "article", "text"}
    /\ \A w \in Windows : w.from \in Nat /\ w.to \in Nat /\ w.from < w.to

\* The bars from one to the last of the given ones, without a hole.
Unbroken(bars, from) == bars = {b \in from..Max(bars) : b >= Listing /\ b \notin Outage}

\* The unique indexes hold, a transcript has one extraction, and the bars of the
\* backtests have no holes of their own.
LeftBehind(d) ==
    LET bars == UNION {d.backtests[b].bars : b \in DOMAIN d.backtests} IN
    /\ d \in [contents : Seq(Sources), transcripts : Seq(Nat),
              extractions : Seq([of : Nat, spec : BOOLEAN, parses : BOOLEAN, cost : Nat]),
              backtests : Seq([of : [extraction : Nat, window : Windows],
                               bars : SUBSET (Listing..StartTime)]),
              analyses : Seq(Nat)]
    /\ \A b \in DOMAIN d.backtests :
          /\ d.backtests[b].bars # {}
          /\ Unbroken(d.backtests[b].bars, d.backtests[b].of.window.from)
    /\ IsInjective([e \in DOMAIN d.extractions |-> d.extractions[e].of])
    /\ IsInjective([b \in DOMAIN d.backtests |-> d.backtests[b].of])
    /\ IsInjective(d.analyses)
    /\ bars # {} => Unbroken(bars, Min(bars))

ASSUME DatabasesAssumption == \A d \in Databases : LeftBehind(d)

NoExpiry == -1
Idle == [step |-> "idle"]

VARIABLES
    now,
    db,        \* the rows, each table a sequence
    disk,      \* the audio files, and the sidecar, article and transcript caches
    market,    \* the Parquet file of the symbol: "none", "torn" or "whole", and its bars
    quota,     \* the INCR counter of the IP (0: no key) and when it expires
    spend,     \* the counter of cents of each day
    queue,     \* of the worker
    work,      \* the job at work and its next step
    requests,  \* what each handler has yet to do
    done,      \* the jobs that ended, as GET /jobs/{id} answers
    paid,      \* history: mills that the model's provider has charged
    charged,   \* history: those of the job of each extraction's row
    lost,      \* history: those of jobs that ended without a row
    asked, faults

vars == <<now, db, disk, market, quota, spend, queue, work, requests, done, paid, charged, lost,
          asked, faults>>

-----------------------------------------------------------------------------
(* Market data. *)

Today == now \div DayTicks

\* The exchange serves the forming bar too.
Exchange == {b \in Listing..now : b \notin Outage}

\* Mutant of FetchOhlcv: a page of the limit's size ends the loop.
FetchOnePage(from, to) ==
    {b \in Exchange : b >= from /\ b < to /\ Cardinality({c \in Exchange : c >= from /\ c < b}) < PageLimit}

\* fetch_ohlcv: page after page from a cursor, up to a short one.
FetchOhlcv(from, to) ==
    LET pages[cursor \in from..(now + 1)] ==
            LET ahead == {b \in Exchange : b >= cursor}
                batch == {b \in ahead : Cardinality({c \in ahead : c < b}) < PageLimit}
            IN IF cursor >= to \/ batch = {} THEN {}
               ELSE {b \in batch : b < to}
                        \cup (IF Cardinality(batch) < PageLimit THEN {} ELSE pages[Max(batch) + 1])
    IN IF from > now THEN {} ELSE pages[from]

\* get_market_data, unless the network fails: what the file holds after it, and
\* the bars; without any NoDataError is raised, for a span that was fetched and
\* is empty before the file is written.
GetMarketData(w) ==
    LET cold == market.file # "whole"
        front == IF cold THEN FetchOhlcv(w.from, w.to)
                 ELSE FetchOhlcv(w.from, Min(market.bars))
        next == Max(market.bars) + 1
        noData ==
            \/ cold /\ front = {}
            \/ ~cold /\ w.from < Min(market.bars) /\ front = {}
            \/ ~cold /\ w.to > next /\ FetchOhlcv(next, w.to) = {}
        bars == IF cold THEN front
                ELSE market.bars
                        \cup (IF w.from < Min(market.bars) THEN front ELSE {})
                        \cup (IF w.to > next THEN FetchOhlcv(next, w.to) ELSE {})
        served == {b \in bars : b >= w.from /\ b < w.to}
    IN IF noData THEN [market |-> market, bars |-> {}]
       ELSE [market |-> [file |-> "whole", bars |-> bars], bars |-> served]

-----------------------------------------------------------------------------
(* The API. *)

Request(h, r) == requests' = [requests EXCEPT ![h] = r]

Accept(h) == requests[h] = Idle /\ asked < MaxRequests /\ asked' = asked + 1

\* check_daily_cost_cap: before the request's own cost is known.
BelowCostCap == CapCents > 0 => spend[Today] < CapCents

\* POST /content/ingest: the cost cap, then the quota.
PostIngest(h, s) ==
    /\ Accept(h)
    /\ BelowCostCap
    /\ Request(h, [step |-> IF QuotaLimit = 0 THEN "enqueue" ELSE "count",
                   job |-> [kind |-> "ingest", of |-> s], seen |-> 0])
    /\ UNCHANGED <<now, db, disk, market, quota, spend, queue, work, done,
                   paid, charged, lost, faults>>

Count(h) ==
    /\ requests[h].step = "count"
    /\ quota' = [quota EXCEPT !.count = @ + 1]
    /\ Request(h, [requests[h] EXCEPT !.step = "expire", !.seen = quota.count + 1])
    /\ UNCHANGED <<now, db, disk, market, spend, queue, work, done,
                   paid, charged, lost, asked, faults>>

\* EXPIRE at the first request of a window, and when a key has none, as after
\* a crash behind INCR; no effect without a key.
Expiry(seen) ==
    IF (seen = 1 \/ quota.expires = NoExpiry) /\ quota.count > 0
    THEN [quota EXCEPT !.expires = now + DayTicks] ELSE quota

\* Above the limit the request ends with status 429.
Expire(h) ==
    /\ requests[h].step = "expire"
    /\ quota' = Expiry(requests[h].seen)
    /\ Request(h, IF requests[h].seen > QuotaLimit THEN Idle ELSE [requests[h] EXCEPT !.step = "enqueue"])
    /\ UNCHANGED <<now, db, disk, market, spend, queue, work, done,
                   paid, charged, lost, asked, faults>>

\* A probe of the tables found no result: the job will be enqueued.
PostJob(h, kind, of) ==
    /\ Accept(h)
    /\ Request(h, [step |-> "enqueue", job |-> [kind |-> kind, of |-> of], seen |-> 0])
    /\ UNCHANGED <<now, db, disk, market, quota, spend, queue, work, done,
                   paid, charged, lost, faults>>

PostTranscribe(h, c) == db.contents[c].kind = "youtube" /\ PostJob(h, "transcribe", c)

TranscriptsOf(c) == {t \in DOMAIN db.transcripts : db.transcripts[t] = c}
ExtractionsOf(t) == {e \in DOMAIN db.extractions : db.extractions[e].of = t}
BacktestsOf(key) == {b \in DOMAIN db.backtests : db.backtests[b].of = key}
AnalysesOf(b) == {a \in DOMAIN db.analyses : db.analyses[a] = b}

\* Of the latest transcript.  A row that does not parse would raise.
PostExtract(h, c) ==
    /\ TranscriptsOf(c) # {}
    /\ ExtractionsOf(Max(TranscriptsOf(c))) = {}
    /\ PostJob(h, "extract", Max(TranscriptsOf(c)))

PostBacktest(h, e, w) ==
    /\ db.extractions[e].spec /\ db.extractions[e].parses
    /\ BacktestsOf([extraction |-> e, window |-> w]) = {}
    /\ PostJob(h, "backtest", [extraction |-> e, window |-> w])

PostOverfitting(h, b) == AnalysesOf(b) = {} /\ PostJob(h, "overfitting", b)

Enqueue(h) ==
    /\ requests[h].step = "enqueue"
    /\ queue' = Append(queue, requests[h].job)
    /\ Request(h, Idle)
    /\ UNCHANGED <<now, db, disk, market, quota, spend, work, done,
                   paid, charged, lost, asked, faults>>

\* The API restarts: its requests are gone.
ApiCrash ==
    /\ faults < MaxFaults /\ \E h \in Handlers : requests[h] # Idle
    /\ faults' = faults + 1
    /\ requests' = [h \in Handlers |-> Idle]
    /\ UNCHANGED <<now, db, disk, market, quota, spend, queue, work, done,
                   paid, charged, lost, asked>>

\* A key is gone when it expires.
Tick ==
    /\ now < MaxTime
    /\ now' = now + 1
    /\ quota' = IF quota.expires = now + 1 THEN [count |-> 0, expires |-> NoExpiry] ELSE quota
    /\ UNCHANGED <<db, disk, market, spend, queue, work, requests, done,
                   paid, charged, lost, asked, faults>>

-----------------------------------------------------------------------------
(* The worker. *)

TakeJob ==
    /\ work = Idle /\ queue # << >>
    /\ work' = [step |-> "probe", job |-> Head(queue), content |-> 0,
                spec |-> FALSE, parses |-> TRUE, cost |-> 0, charged |-> 0, bars |-> {}]
    /\ queue' = Tail(queue)
    /\ UNCHANGED <<now, db, disk, market, quota, spend, requests, done,
                   paid, charged, lost, asked, faults>>

Job == work.job
At(kind, step) == work # Idle /\ Job.kind = kind /\ work.step = step
Go(step) == work' = [work EXCEPT !.step = step]

\* What GET /jobs/{id} makes of the error of a job.
Answer(error) ==
    CASE error = "none" -> "finished"
      [] error = "cookie" -> "503"
      [] error = "format" -> "422"
      [] error = "timeout" -> "504"
      [] OTHER -> "failed"

Settle(error, id) ==
    /\ work' = Idle
    /\ done' = done \cup {[job |-> Job, answer |-> Answer(error), id |-> id]}

Save(table, row) == db' = [db EXCEPT ![table] = Append(@, row)]

idleWorld == <<now, quota, queue, requests, asked>>

CacheKey == IF Job.kind = "ingest" THEN Job.of ELSE db.contents[Job.of]

Window == IF Job.kind = "backtest" THEN Job.of.window ELSE db.backtests[Job.of].of.window

\* A job is killed, runs out of its job_timeout, or the container restarts:
\* RQ marks it failed.  A file it was about to write may be torn.
JobDies ==
    /\ faults < MaxFaults /\ work # Idle
    /\ faults' = faults + 1
    /\ \E error \in {"killed", "timeout"} : Settle(error, 0)
    /\ \E charge \in IF work.step \in {"call", "retry"} THEN {0, CallMills} ELSE {0} :
         /\ paid' = paid + charge
         /\ lost' = lost + charge + (IF work.step \in {"retry", "save"} THEN work.charged ELSE 0)
    /\ \E torn \in BOOLEAN :
         /\ disk' = IF torn /\ work.step = "cache"
                    THEN [disk EXCEPT ![Job.kind][CacheKey] = "torn"] ELSE disk
         /\ market' = IF torn /\ work.step \in {"engine", "benchmark"}
                         /\ GetMarketData(Window).market # market
                      THEN [file |-> "torn", bars |-> {}] ELSE market
    /\ UNCHANGED <<idleWorld, db, spend, charged>>

-----------------------------------------------------------------------------
(* ingest_youtube, ingest_article and ingest_raw_text *)

Source == Job.of

\* A file that does not parse is no hit; a video needs its audio file, under
\* the name of its id, and the sidecar.
CacheHit(s) ==
    \/ s.kind = "text"
    \/ s.kind = "article" /\ disk.ingest[s] = "whole"
    \/ s.kind = "youtube" /\ disk.ingest[s] = "whole" /\ disk.audio[s] = "m4a"

IngestProbe ==
    /\ At("ingest", "probe")
    /\ Go(IF CacheHit(Source) THEN "save" ELSE "fetch")
    /\ UNCHANGED <<idleWorld, db, disk, market, spend, done, paid, charged, lost, faults>>

\* The classes of _classify_ytdlp_error, and an article that cannot be read.
FetchErrors(s) ==
    IF s.kind = "youtube" THEN {"cookie", "format", "ingest_error"} ELSE {"ingest_error"}

\* yt-dlp may leave the audio under the suffix of another container.
IngestFetch ==
    /\ At("ingest", "fetch")
    /\ \/ /\ \E error \in FetchErrors(Source) : Settle(error, 0)
          /\ UNCHANGED disk
       \/ /\ Go("cache")
          /\ IF Source.kind = "article" THEN UNCHANGED disk
             ELSE \E suffix \in {"m4a", "webm"} :
                     disk' = [disk EXCEPT !.audio[Source] = IF @ = "m4a" THEN @ ELSE suffix]
          /\ UNCHANGED done
    /\ UNCHANGED <<idleWorld, db, market, spend, paid, charged, lost, faults>>

\* The sidecar of a video, or the cache file of an article.
IngestCache ==
    /\ At("ingest", "cache")
    /\ disk' = [disk EXCEPT !.ingest[Source] = "whole"]
    /\ Go("save")
    /\ UNCHANGED <<idleWorld, db, market, spend, done, paid, charged, lost, faults>>

\* Mutant of SaveContent: the job of an article ends here.
SaveContentOnly ==
    /\ At("ingest", "save")
    /\ Save("contents", Source)
    /\ Settle("none", Len(db.contents) + 1)
    /\ UNCHANGED <<idleWorld, disk, market, spend, paid, charged, lost, faults>>

\* The content row; a text gets its transcript row in a transaction of its own.
SaveContent ==
    /\ At("ingest", "save")
    /\ Save("contents", Source)
    /\ IF Source.kind = "youtube" THEN Settle("none", Len(db.contents) + 1)
       ELSE /\ work' = [work EXCEPT !.step = "transcript", !.content = Len(db.contents) + 1]
            /\ UNCHANGED done
    /\ UNCHANGED <<idleWorld, disk, market, spend, paid, charged, lost, faults>>

\* save_transcript: nothing forbids a second transcript of a content.
NewTranscript(content) == Save("transcripts", content)

SaveTextTranscript ==
    /\ At("ingest", "transcript")
    /\ NewTranscript(work.content)
    /\ Settle("none", work.content)
    /\ UNCHANGED <<idleWorld, disk, market, spend, paid, charged, lost, faults>>

-----------------------------------------------------------------------------
(* transcribe *)

\* The cache is keyed by the hash of the audio, which is that of the source.
TranscribeProbe ==
    /\ At("transcribe", "probe")
    /\ Go(IF disk.transcribe[CacheKey] = "whole" THEN "save" ELSE "whisper")
    /\ UNCHANGED <<idleWorld, db, disk, market, spend, done, paid, charged, lost, faults>>

\* ffprobe or the model may fail.
Transcribe ==
    /\ At("transcribe", "whisper")
    /\ \/ Go("cache") /\ UNCHANGED done
       \/ Settle("transcription_error", 0)
    /\ UNCHANGED <<idleWorld, db, disk, market, spend, paid, charged, lost, faults>>

TranscribeCache ==
    /\ At("transcribe", "cache")
    /\ disk' = [disk EXCEPT !.transcribe[CacheKey] = "whole"]
    /\ Go("save")
    /\ UNCHANGED <<idleWorld, db, market, spend, done, paid, charged, lost, faults>>

SaveTranscript ==
    /\ At("transcribe", "save")
    /\ NewTranscript(Job.of)
    /\ Settle("none", Len(db.transcripts) + 1)
    /\ UNCHANGED <<idleWorld, disk, market, spend, paid, charged, lost, faults>>

-----------------------------------------------------------------------------
(* extract_strategy *)

\* Mutant of ExtractProbe: without the look for an existing row.
ExtractProbeBlind ==
    /\ At("extract", "probe")
    /\ Go("call")
    /\ UNCHANGED <<idleWorld, db, disk, market, spend, done, paid, charged, lost, faults>>

\* The latest extraction of the transcript answers, if its report parses.  The
\* rows that the source bundle is read from are always there.
ExtractProbe ==
    /\ At("extract", "probe")
    /\ LET existing == ExtractionsOf(Job.of) IN
       IF existing = {} THEN Go("call") /\ UNCHANGED done
       ELSE IF db.extractions[Max(existing)].parses THEN Settle("none", Max(existing))
       ELSE Settle("validation_error", 0)
    /\ UNCHANGED <<idleWorld, db, disk, market, spend, paid, charged, lost, faults>>

\* A job that ends without a row loses what its calls have cost.
Lose(mills) == Settle("extraction_error", 0) /\ lost' = lost + mills

\* A transcript above the cost ceiling.
TooExpensive ==
    /\ At("extract", "call") /\ Lose(0)
    /\ UNCHANGED <<idleWorld, db, disk, market, spend, paid, charged, faults>>

\* An error of the first call, which may have been charged; an answer behind
\* the deadline, or without the tool's block.
FirstCallFails ==
    /\ At("extract", "call")
    /\ \E charge \in {0, CallMills} : Lose(charge) /\ paid' = paid + charge
    /\ UNCHANGED <<idleWorld, db, disk, market, spend, charged, faults>>

\* A payload that validates has a spec, or refuses.
Answered(cost, charge) ==
    /\ \E spec \in BOOLEAN :
         work' = [work EXCEPT !.step = "save", !.spec = spec, !.cost = cost, !.charged = charge]
    /\ UNCHANGED <<done, lost>>

FirstCallAnswers ==
    /\ At("extract", "call")
    /\ paid' = paid + CallMills
    /\ \/ Answered(CallMills, CallMills)
       \/ /\ work' = [work EXCEPT !.step = "retry", !.cost = CallMills, !.charged = CallMills]
          /\ UNCHANGED <<done, lost>>
    /\ UNCHANGED <<idleWorld, db, disk, market, spend, charged, faults>>

\* _downgrade_to_refusal: the copy of the report is not validated, so that
\* its explanation may be longer than a reader accepts; a report built anew
\* is, and then the job raises.
Downgrade(cost, charge) ==
    \/ /\ \E fits \in BOOLEAN :
            work' = [work EXCEPT !.step = "save", !.spec = FALSE, !.parses = fits,
                                 !.cost = cost, !.charged = charge]
       /\ UNCHANGED <<done, lost>>
    \/ Lose(charge)

\* The second call, with the errors of the first.  Any error of it is
\* swallowed, that of the client's or the job's timeout too, although the
\* provider may have charged the call: the cost is that of the first.
RetryFails ==
    \E charge \in {0, CallMills} :
        Downgrade(work.cost, work.charged + charge) /\ paid' = paid + charge

\* Mutant of RetryAnswers: the cost of the last call.
RetryAnswersAlone ==
    LET charge == work.charged + CallMills IN
    /\ paid' = paid + CallMills
    /\ \/ Lose(charge)
       \/ Downgrade(CallMills, charge)
       \/ Answered(CallMills, charge)

\* An answer that is too late, that validates, or that does not.
RetryAnswers ==
    LET cost == work.cost + CallMills
        charge == work.charged + CallMills IN
    /\ paid' = paid + CallMills
    /\ \/ Lose(charge)
       \/ Downgrade(cost, charge)
       \/ Answered(cost, charge)

RetryCall ==
    /\ At("extract", "retry")
    /\ RetryFails \/ RetryAnswers
    /\ UNCHANGED <<idleWorld, db, disk, market, spend, charged, faults>>

\* The extraction and its cost in one transaction.
NewExtraction ==
    Save("extractions", [of |-> Job.of, spec |-> work.spec, parses |-> work.parses,
                         cost |-> work.cost])

SaveExtraction ==
    /\ At("extract", "save")
    /\ NewExtraction
    /\ charged' = Append(charged, work.charged)
    /\ Go("record")
    /\ UNCHANGED <<idleWorld, disk, market, spend, done, paid, lost, faults>>

\* The rows of extraction_costs.
CostColumn(rows) == [e \in DOMAIN rows |-> rows[e].cost]
Costs == SumFunction(CostColumn(db.extractions))

\* The counter of the day counts whole cents.
Cents(mills) == (mills + 9) \div 10

\* Whole cents, rounded up, on the counter of the day; a failure of Redis is
\* only logged.
RecordDailyCost ==
    /\ At("extract", "record")
    /\ \/ /\ spend' = [spend EXCEPT ![Today] = @ + Cents(work.cost)]
          /\ UNCHANGED faults
       \/ /\ faults < MaxFaults /\ faults' = faults + 1
          /\ UNCHANGED spend
    /\ Settle("none", Max(ExtractionsOf(Job.of)))
    /\ UNCHANGED <<idleWorld, db, disk, market, paid, charged, lost>>

-----------------------------------------------------------------------------
(* backtest and overfitting_analysis *)

\* The row of the same parameters answers.
BacktestProbe ==
    /\ At("backtest", "probe")
    /\ LET existing == BacktestsOf(Job.of) IN
       IF existing = {} THEN Go("engine") /\ UNCHANGED done
       ELSE Settle("none", Max(existing))
    /\ UNCHANGED <<idleWorld, db, disk, market, spend, paid, charged, lost, faults>>

\* Read the window's bars, of which at least so many are needed; a failure of
\* the network leaves the file alone.
ReadBars(next, atLeast) ==
    \/ LET read == GetMarketData(Window) IN
       /\ market' = read.market
       /\ IF Cardinality(read.bars) >= atLeast
          THEN work' = [work EXCEPT !.step = next, !.bars = read.bars] /\ UNCHANGED done
          ELSE Settle("no_data", 0)
    \/ Settle("network", 0) /\ UNCHANGED market

\* run_backtest and compute_buy_and_hold read the same window.
BacktestEngine ==
    /\ At("backtest", "engine") /\ ReadBars("benchmark", 1)
    /\ UNCHANGED <<idleWorld, db, disk, spend, paid, charged, lost, faults>>

Benchmark ==
    /\ At("backtest", "benchmark") /\ ReadBars("save", 2)
    /\ UNCHANGED <<idleWorld, db, disk, spend, paid, charged, lost, faults>>

\* The unique index admits one row of the parameters.
NewBacktest ==
    IF BacktestsOf(Job.of) = {}
    THEN /\ Save("backtests", [of |-> Job.of, bars |-> work.bars])
         /\ Settle("none", Len(db.backtests) + 1)
    ELSE Settle("unique_violation", 0) /\ UNCHANGED db

SaveBacktest ==
    /\ At("backtest", "save")
    /\ NewBacktest
    /\ UNCHANGED <<idleWorld, disk, market, spend, paid, charged, lost, faults>>

OverfittingProbe ==
    /\ At("overfitting", "probe")
    /\ LET existing == AnalysesOf(Job.of) IN
       IF existing = {} THEN Go("engine") /\ UNCHANGED done
       ELSE Settle("none", Max(existing))
    /\ UNCHANGED <<idleWorld, db, disk, market, spend, paid, charged, lost, faults>>

\* The backtests of the analysis read the window and parts of it.
Analyse ==
    /\ At("overfitting", "engine") /\ ReadBars("save", 1)
    /\ UNCHANGED <<idleWorld, db, disk, spend, paid, charged, lost, faults>>

\* The unique index admits one row of the backtest.
NewAnalysis ==
    IF AnalysesOf(Job.of) = {}
    THEN Save("analyses", Job.of) /\ Settle("none", Len(db.analyses) + 1)
    ELSE Settle("unique_violation", 0) /\ UNCHANGED db

SaveAnalysis ==
    /\ At("overfitting", "save")
    /\ NewAnalysis
    /\ UNCHANGED <<idleWorld, disk, market, spend, paid, charged, lost, faults>>

-----------------------------------------------------------------------------
\* The caches hold what the rows were made from, and the day's counter what
\* the extractions have cost.
Init ==
    /\ now = StartTime
    /\ db \in Databases
    /\ disk =
        [audio |-> [s \in Sources |-> IF s.kind = "youtube" /\ s \in Range(db.contents) THEN "m4a" ELSE "none"],
         ingest |-> [s \in Sources |-> IF s \in Range(db.contents) THEN "whole" ELSE "none"],
         transcribe |-> [s \in Sources |-> "none"]]
    /\ LET bars == UNION {db.backtests[b].bars : b \in DOMAIN db.backtests} IN
       market = [file |-> IF bars = {} THEN "none" ELSE "whole", bars |-> bars]
    /\ quota = [count |-> 0, expires |-> NoExpiry]
    /\ spend = [day \in 0..(MaxTime \div DayTicks) |-> IF day = Today THEN Cents(Costs) ELSE 0]
    /\ queue = << >> /\ work = Idle
    /\ requests = [h \in Handlers |-> Idle]
    /\ done = {} /\ paid = Costs /\ charged = CostColumn(db.extractions)
    /\ lost = 0 /\ asked = 0 /\ faults = 0

Api(h) ==
    \/ \E s \in Sources : PostIngest(h, s)
    \/ Count(h) \/ Expire(h) \/ Enqueue(h)
    \/ \E c \in DOMAIN db.contents : PostTranscribe(h, c) \/ PostExtract(h, c)
    \/ \E e \in DOMAIN db.extractions, w \in Windows : PostBacktest(h, e, w)
    \/ \E b \in DOMAIN db.backtests : PostOverfitting(h, b)

Worker ==
    \/ TakeJob \/ JobDies
    \/ IngestProbe \/ IngestFetch \/ IngestCache \/ SaveContent \/ SaveTextTranscript
    \/ TranscribeProbe \/ Transcribe \/ TranscribeCache \/ SaveTranscript
    \/ ExtractProbe \/ TooExpensive \/ FirstCallFails \/ FirstCallAnswers \/ RetryCall
    \/ SaveExtraction \/ RecordDailyCost
    \/ BacktestProbe \/ BacktestEngine \/ Benchmark \/ SaveBacktest
    \/ OverfittingProbe \/ Analyse \/ SaveAnalysis

Next == Tick \/ ApiCrash \/ Worker \/ \E h \in Handlers : Api(h)

Spec == Init /\ [][Next]_vars
-----------------------------------------------------------------------------
(* Properties. *)

\* The docstrings call the requests and jobs idempotent: a transcript has one
\* extraction, parameters one backtest, a backtest one analysis, although
\* handlers probe before they enqueue and jobs die between their steps.
WorkDoneOnce ==
    /\ \A t \in DOMAIN db.transcripts : Cardinality(ExtractionsOf(t)) <= 1
    /\ \A b \in DOMAIN db.backtests :
         /\ BacktestsOf(db.backtests[b].of) = {b}
         /\ Cardinality(AnalysesOf(b)) <= 1
    /\ \A d \in done : d.answer # "finished" => d.id = 0

\* What a finished job answers is there: a video has its audio, a text its
\* transcript, a backtest every bar that the exchange has between its first
\* and last; and an extraction with a spec parses, so that POST /backtest can
\* read it.  A refusal may not: _downgrade_to_refusal can write an explanation
\* that no reader of the row accepts.
FinishedJobsUsable ==
    \A d \in done : d.answer = "finished" =>
        CASE d.job.kind = "ingest" ->
                 /\ db.contents[d.id] = d.job.of
                 /\ IF d.job.of.kind = "youtube" THEN disk.audio[d.job.of] # "none"
                    ELSE TranscriptsOf(d.id) # {}
                 /\ d.job.of.kind # "text" => disk.ingest[d.job.of] # "none"
          [] d.job.kind = "transcribe" -> db.transcripts[d.id] = d.job.of
          [] d.job.kind = "extract" ->
                 LET row == db.extractions[d.id] IN
                 row.of = d.job.of /\ (row.spec => row.parses)
          [] d.job.kind = "backtest" ->
                 LET row == db.backtests[d.id] IN
                 /\ row.of = d.job.of
                 /\ row.bars = {b \in Exchange : b >= row.of.window.from /\ b <= Max(row.bars)}
          [] OTHER -> db.analyses[d.id] = d.job.of

\* "So cost tracking reflects the full work we paid for, including retries":
\* what the provider charged was for a row, was lost with a job that ended
\* without one, or belongs to the job at work.  The row of a strategy costs
\* what its job was charged, that of a refusal may lack the second call: an
\* error of it is swallowed.  And unless a step failed, the counter that the
\* cost cap reads has all the rows of this run.
SpendAccounted ==
    LET saving == work # Idle /\ work.step \in {"retry", "save"} IN
    /\ paid = SumFunction(charged) + lost + (IF saving THEN work.charged ELSE 0)
    /\ \A e \in DOMAIN db.extractions :
         charged[e] - db.extractions[e].cost
             \in (IF db.extractions[e].spec THEN {0} ELSE {0, CallMills})
    /\ faults = 0 /\ (work # Idle => work.step # "record") => 10 * SumFunction(spend) >= Costs

\* "The Parquet file always holds a contiguous range": after any sequence of
\* windows, failures and torn files it has every bar of the exchange between
\* its first and its last.
CacheContiguous ==
    market.file = "whole" =>
        market.bars = {b \in Exchange : b >= Min(market.bars) /\ b <= Max(market.bars)}
=============================================================================
