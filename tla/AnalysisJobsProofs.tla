------------------------- MODULE AnalysisJobsProofs -------------------------
(***************************************************************************)
(* Proofs about AnalysisJobs, for every set of sources and windows, every  *)
(* database the service may start on, every limit and price, and any       *)
(* number of handlers, requests and faults.                                *)
(*                                                                         *)
(* There is one worker, so that what its job has looked up stays true      *)
(* until it stores its row (Working); handlers only add jobs, which may    *)
(* come twice.  Rows and files are never taken back, except by a torn      *)
(* write.  The rest is bookkeeping: what has been paid was for a row, is   *)
(* lost, or at work, and a refusal's row may lack a call (Accounted).      *)
(***************************************************************************)
EXTENDS AnalysisJobs, FiniteFacts, SequenceTheorems

ExtractionRows == [of : Nat, spec : BOOLEAN, parses : BOOLEAN, cost : Nat]
Keys           == [extraction : Nat, window : Windows]
BacktestRows   == [of : Keys, bars : SUBSET Nat]
Tables == [contents : Seq(Sources), transcripts : Seq(Nat), extractions : Seq(ExtractionRows),
           backtests : Seq(BacktestRows), analyses : Seq(Nat)]
Marks  == {"none", "m4a", "webm", "torn", "whole"}
Files  == [audio : [Sources -> Marks], ingest : [Sources -> Marks],
           transcribe : [Sources -> Marks]]
Days   == 0..(MaxTime \div DayTicks)

\* What a job refers to is there.
Valid(j) ==
    \/ j.kind = "ingest" /\ j.of \in Sources
    \/ j.kind = "transcribe" /\ j.of \in DOMAIN db.contents
    \/ j.kind = "extract" /\ j.of \in DOMAIN db.transcripts
    \/ j.kind = "backtest" /\ j.of \in Keys
    \/ j.kind = "overfitting" /\ j.of \in DOMAIN db.backtests

Queued(jobs) == queue \in Seq(jobs) /\ \A j \in jobs : Valid(j)

Pending(r) == DOMAIN r = {"step", "job", "seen"} /\ Valid(r.job)

RequestsOK == /\ DOMAIN requests = Handlers
              /\ \A h \in Handlers : requests[h] # Idle => Pending(requests[h])

WorkFields == {"step", "job", "content", "spec", "parses", "cost", "charged", "bars"}

TypeOK ==
    /\ now \in StartTime..MaxTime
    /\ db \in Tables
    /\ disk \in Files
    /\ spend \in [Days -> Nat]
    /\ \E jobs : Queued(jobs)
    /\ RequestsOK
    /\ work # Idle => /\ DOMAIN work = WorkFields /\ Valid(work.job)
                      /\ work.spec \in BOOLEAN /\ work.parses \in BOOLEAN
                      /\ work.cost \in Nat /\ work.charged \in Nat
    /\ charged \in Seq(Nat)
    /\ paid \in Nat /\ lost \in Nat /\ faults \in Nat

\* Bars the exchange has had, with every one behind the first up to the last.
Bars(bars, from) == bars # {} /\ bars \subseteq Listing..now /\ Unbroken(bars, from)

CacheOK(m) == m.file = "whole" => m.bars # {} /\ Bars(m.bars, Min(m.bars))

\* The unique indexes, and one extraction of a transcript.
RowsOK ==
    /\ \A e, f \in DOMAIN db.extractions : db.extractions[e].of = db.extractions[f].of => e = f
    /\ \A a, b \in DOMAIN db.backtests : db.backtests[a].of = db.backtests[b].of => a = b
    /\ \A a, b \in DOMAIN db.analyses : db.analyses[a] = db.analyses[b] => a = b
    /\ \A b \in DOMAIN db.backtests : Bars(db.backtests[b].bars, db.backtests[b].of.window.from)

Fetched(s) == /\ s.kind = "youtube" => disk.audio[s] # "none"
              /\ s.kind # "text" => disk.ingest[s] # "none"

\* What the job at work knows at its steps.
Ingesting ==
    /\ work.step \in {"probe", "fetch", "cache", "save", "transcript"}
    /\ work.step = "cache" /\ Job.of.kind = "youtube" => disk.audio[Job.of] # "none"
    /\ work.step \in {"save", "transcript"} => Fetched(Job.of)
    /\ work.step = "transcript" => /\ work.content \in DOMAIN db.contents
                                   /\ db.contents[work.content] = Job.of
                                   /\ Job.of.kind # "youtube"

\* A strategy that the next stage can read.
Readable(row) == row.spec => row.parses

\* What the job of a row, or a row to be, was charged beyond its cost.
Unseen(charge, row) == charge - row.cost \in (IF row.spec THEN {0} ELSE {0, CallMills})

Extracting ==
    /\ work.step \in {"probe", "call", "retry", "save", "record"}
    /\ work.step \in {"call", "retry", "save"} => ExtractionsOf(Job.of) = {}
    /\ work.step \in {"probe", "call", "retry"} => work.parses
    /\ work.step = "retry" => work.charged = work.cost
    /\ work.step = "save" => /\ Unseen(work.charged, work)
                             /\ work.spec => work.parses
    /\ work.step = "record" => /\ ExtractionsOf(Job.of) # {}
                               /\ \A e \in ExtractionsOf(Job.of) : Readable(db.extractions[e])

Backtesting ==
    /\ work.step \in {"probe", "engine", "benchmark", "save"}
    /\ work.step \in {"benchmark", "save"} => Bars(work.bars, Job.of.window.from)

Working ==
    work # Idle =>
        /\ Job.kind = "ingest" => Ingesting
        /\ Job.kind = "transcribe" => work.step \in {"probe", "whisper", "cache", "save"}
        /\ Job.kind = "extract" => Extracting
        /\ Job.kind # "extract" => work.cost = 0 /\ work.charged = 0
        /\ Job.kind = "backtest" => Backtesting
        /\ Job.kind = "overfitting" => work.step \in {"probe", "engine", "save"}

Usable(d) ==
    \/ /\ d.job.kind = "ingest" /\ d.job.of \in Sources
       /\ d.id \in DOMAIN db.contents /\ db.contents[d.id] = d.job.of
       /\ d.job.of.kind # "youtube" => TranscriptsOf(d.id) # {}
       /\ Fetched(d.job.of)
    \/ /\ d.job.kind = "transcribe"
       /\ d.id \in DOMAIN db.transcripts /\ db.transcripts[d.id] = d.job.of
    \/ /\ d.job.kind = "extract"
       /\ d.id \in DOMAIN db.extractions /\ db.extractions[d.id].of = d.job.of
       /\ Readable(db.extractions[d.id])
    \/ /\ d.job.kind = "backtest"
       /\ d.id \in DOMAIN db.backtests /\ db.backtests[d.id].of = d.job.of
    \/ /\ d.job.kind = "overfitting"
       /\ d.id \in DOMAIN db.analyses /\ db.analyses[d.id] = d.job.of

Settled == \A d \in done : IF d.answer = "finished" THEN Usable(d) ELSE d.id = 0

\* What the job at work has paid: before its row, and before the counter.
Held       == IF work # Idle /\ work.step \in {"retry", "save"} THEN work.charged ELSE 0
Unrecorded == IF work # Idle /\ work.step = "record" THEN work.cost ELSE 0

Charges == SumFunction(charged)

\* What the rows cost and what they were charged.
Booked == /\ DOMAIN charged = DOMAIN db.extractions
          /\ \A e \in DOMAIN db.extractions : Unseen(charged[e], db.extractions[e])

Accounted ==
    /\ paid = Charges + lost + Held
    /\ Booked
    /\ faults = 0 => Costs <= 10 * SumFunction(spend) + Unrecorded

IInv == TypeOK /\ RowsOK /\ CacheOK(market) /\ Working /\ Settled /\ Accounted

-----------------------------------------------------------------------------
(* Pages of candles. *)

LEMMA ConstantTypes ==
    /\ PageLimit \in Nat \ {0} /\ CallMills \in Nat \ {0} /\ DayTicks \in Nat \ {0}
    /\ Listing \in Nat /\ StartTime \in Nat /\ MaxTime \in Nat /\ StartTime <= MaxTime
    /\ \A w \in Windows : w.from \in Nat /\ w.to \in Nat
    /\ \A s \in Sources : s.kind \in {"youtube", "article", "text"}
  BY JobsAssumption

Ahead(cursor) == {b \in Exchange : b >= cursor}
Batch(cursor) == {b \in Ahead(cursor) : Cardinality({c \in Ahead(cursor) : c < b}) < PageLimit}

\* The page behind a cursor, and what is read behind it by g.
Page(g, cursor, to) ==
    IF cursor >= to \/ Batch(cursor) = {} THEN {}
    ELSE {b \in Batch(cursor) : b < to}
            \cup (IF Cardinality(Batch(cursor)) < PageLimit THEN {} ELSE g[Max(Batch(cursor)) + 1])

Paging(g, from, to) == g = [cursor \in from..(now + 1) |-> Page(g, cursor, to)]

Between(from, to) == {b \in Exchange : b >= from /\ b < to}

LEMMA Exchanges ==
    ASSUME now \in Nat
    PROVE  /\ Exchange \subseteq Listing..now /\ Exchange \subseteq Nat /\ IsFiniteSet(Exchange)
           /\ \A T : T \subseteq Exchange => IsFiniteSet(T) /\ T \in SUBSET Int
<1>1. Listing \in Nat  BY ConstantTypes
<1>2. Exchange \subseteq Listing..now /\ Exchange \subseteq Nat  BY <1>1 DEF Exchange
<1>3. IsFiniteSet(Listing..now)
  <2>1. Listing \in Int /\ now \in Int  BY <1>1
  <2> QED  BY <2>1, FS_Interval
<1>4. IsFiniteSet(Exchange)  BY <1>2, <1>3, FS_Subset
<1>5. ASSUME NEW T, T \subseteq Exchange  PROVE IsFiniteSet(T) /\ T \in SUBSET Int
  <2>1. IsFiniteSet(T)  BY <1>4, <1>5, FS_Subset
  <2>2. T \in SUBSET Int  BY <1>2, <1>5
  <2> QED  BY <2>1, <2>2
<1> QED  BY <1>2, <1>4, <1>5

LEMMA Batches ==
    ASSUME now \in Nat, NEW cursor \in Nat
    PROVE  /\ Batch(cursor) = {} => Ahead(cursor) = {}
           /\ Cardinality(Batch(cursor)) < PageLimit => Batch(cursor) = Ahead(cursor)
           /\ Batch(cursor) # {} =>
                /\ Max(Batch(cursor)) \in Batch(cursor)
                /\ \A b \in Ahead(cursor) : b \in Batch(cursor) <=> b <= Max(Batch(cursor))
<1> DEFINE A == Ahead(cursor)
           B == Batch(cursor)
           Below(b) == {c \in A : c < b}
<1>1. /\ A \subseteq Exchange /\ B \subseteq A /\ A \subseteq Nat
      /\ \A b \in A : b \in B <=> Cardinality(Below(b)) < PageLimit
  BY Exchanges DEF Ahead, Batch
<1>2. \A T : T \subseteq A => IsFiniteSet(T) /\ T \in SUBSET Int /\ Cardinality(T) \in Nat
  <2> TAKE T
  <2> HAVE T \subseteq A
  <2>1. T \subseteq Exchange  BY <1>1
  <2>2. IsFiniteSet(T) /\ T \in SUBSET Int  BY <2>1, Exchanges
  <2> QED  BY <2>2, FS_CardinalityType
<1>3. PageLimit \in Nat \ {0}  BY ConstantTypes
<1> HIDE DEF A, B
<1>4. ASSUME NEW b \in A, b \notin B
      PROVE  \E T : T \subseteq B /\ PageLimit <= Cardinality(T)
  <2>1. PICK m \in A \ B : \A n \in A \ B : m <= n
    <3>1. A \ B \subseteq Nat /\ A \ B # {}  BY <1>1, <1>4
    <3> HIDE DEF Below
    <3> QED  BY <3>1, LeastNatural
  <2>2. m \in Nat /\ A \subseteq Nat  BY <1>1, <2>1
  <2>3. \A n \in Below(m) : n \in B  BY <2>1, <2>2
  <2>4. Cardinality(Below(m)) \in Nat  BY <1>2
  <2>5. ~(Cardinality(Below(m)) < PageLimit)  BY <1>1, <2>1
  <2> HIDE DEF Below
  <2>6. PageLimit <= Cardinality(Below(m))  BY <1>3, <2>4, <2>5
  <2>7. Below(m) \subseteq B  BY <2>3
  <2> QED  BY <2>6, <2>7
<1>5. ASSUME Cardinality(B) < PageLimit  PROVE B = A
  <2> SUFFICES ASSUME NEW b \in A, b \notin B  PROVE FALSE  BY <1>1
  <2>1. PICK T : T \subseteq B /\ PageLimit <= Cardinality(T)  BY <1>4
  <2>2. IsFiniteSet(B) /\ Cardinality(B) \in Nat /\ Cardinality(T) \in Nat  BY <1>1, <1>2, <2>1
  <2>3. Cardinality(T) <= Cardinality(B)  BY <2>1, <2>2, FS_Subset
  <2> QED  BY <1>3, <1>5, <2>1, <2>2, <2>3
<1>6. ASSUME B = {}  PROVE A = {}
  <2>1. Cardinality(B) = 0  BY <1>6, FS_EmptySet
  <2> QED  BY <1>3, <1>5, <1>6, <2>1
<1>7. ASSUME B # {}
      PROVE  Max(B) \in B /\ \A b \in A : b \in B <=> b <= Max(B)
  <2>1. IsFiniteSet(B) /\ B \in SUBSET Int  BY <1>1, <1>2
  <2>2. Max(B) \in B /\ \A b \in B : b <= Max(B)  BY <1>7, <2>1, MaxOfFinite
  <2>3. ASSUME NEW b \in A, b <= Max(B)  PROVE b \in B
    <3> DEFINE m == Max(B)
    <3>1. m \in A /\ m \in Nat /\ b \in Nat /\ A \subseteq Nat  BY <1>1, <2>2
    <3>2. Below(b) \subseteq Below(m)
      <4> SUFFICES ASSUME NEW c \in A, c < b  PROVE c < m  OBVIOUS
      <4>1. c \in Nat  BY <3>1
      <4> HIDE DEF m
      <4> QED  BY <2>3, <3>1, <4>1 DEF m
    <3>3. Below(m) \subseteq A /\ Below(b) \subseteq A  OBVIOUS
    <3> HIDE DEF Below
    <3>4. IsFiniteSet(Below(m)) /\ Cardinality(Below(m)) \in Nat /\ Cardinality(Below(b)) \in Nat
      BY <1>2, <3>3
    <3>5. Cardinality(Below(b)) <= Cardinality(Below(m))  BY <3>2, <3>4, FS_Subset
    <3>6. Cardinality(Below(m)) < PageLimit  BY <1>1, <2>2, <3>1
    <3> QED  BY <1>1, <1>3, <3>4, <3>5, <3>6
  <2> QED  BY <2>2, <2>3
<1> QED  BY <1>5, <1>6, <1>7 DEF A, B

\* A page and all behind it are all bars up to the end.
LEMMA PageIsAll ==
    ASSUME now \in Nat, NEW from \in Nat, NEW cursor \in from..(now + 1), NEW to \in Nat, NEW g,
           \A c \in from..(now + 1) : c > cursor => g[c] = Between(c, to)
    PROVE  Page(g, cursor, to) = Between(cursor, to)
<1> DEFINE A == Ahead(cursor)
           B == Batch(cursor)
<1>1. cursor \in Nat  OBVIOUS
<1>2. Exchange \subseteq Nat /\ A = {b \in Exchange : b >= cursor} /\ \A b \in Exchange : b <= now
  BY Exchanges DEF Ahead, Exchange
<1>3. B \subseteq A  BY DEF Batch
<1> HIDE DEF A, B
<1>4. Between(cursor, to) = {b \in A : b < to}  BY <1>2 DEF Between
<1>5. CASE cursor >= to
  <2>1. Page(g, cursor, to) = {}  BY <1>5 DEF Page
  <2>2. Between(cursor, to) = {}
    <3> SUFFICES ASSUME NEW b \in Exchange, b >= cursor, b < to  PROVE FALSE  BY DEF Between
    <3>1. b \in Nat  BY <1>2
    <3> QED  BY <1>1, <1>5, <3>1
  <2> QED  BY <2>1, <2>2
<1>6. CASE ~(cursor >= to) /\ B = {}
  <2>1. Page(g, cursor, to) = {}  BY <1>6 DEF Page, B
  <2>2. A = {}  BY <1>1, <1>6, Batches DEF A, B
  <2> QED  BY <1>4, <2>1, <2>2
<1>7. CASE ~(cursor >= to) /\ B # {} /\ Cardinality(B) < PageLimit
  <2>1. Page(g, cursor, to) = {b \in B : b < to}  BY <1>7 DEF Page, B
  <2>2. B = A  BY <1>1, <1>7, Batches DEF A, B
  <2> QED  BY <1>4, <2>1, <2>2
<1>8. CASE ~(cursor >= to) /\ B # {} /\ ~(Cardinality(B) < PageLimit)
  <2> DEFINE m == Max(B)
  <2>1. Page(g, cursor, to) = {b \in B : b < to} \cup g[m + 1]  BY <1>8 DEF Page, B
  <2>2. m \in B /\ \A b \in A : b \in B <=> b <= m  BY <1>1, <1>8, Batches DEF A, B
  <2> HIDE DEF m
  <2>3. m \in Nat /\ m >= cursor /\ m <= now  BY <1>2, <1>3, <2>2
  <2>4. m + 1 \in from..(now + 1) /\ m + 1 > cursor  BY <2>3
  <2>5. g[m + 1] = Between(m + 1, to)  BY <2>4
  <2>6. {b \in A : b < to} = {b \in B : b < to} \cup Between(m + 1, to)
    <3>1. ASSUME NEW b \in A, b < to  PROVE b \in B \/ b \in Between(m + 1, to)
      <4>1. b \in Nat /\ b \in Exchange  BY <1>2
      <4>2. CASE b <= m  BY <2>2, <4>2
      <4>3. CASE ~(b <= m)
        <5>1. b >= m + 1  BY <2>3, <4>1, <4>3
        <5> QED  BY <3>1, <4>1, <5>1 DEF Between
      <4> QED  BY <4>2, <4>3
    <3>2. ASSUME NEW b \in Between(m + 1, to)  PROVE b \in A /\ b < to
      <4>1. b \in Exchange /\ b >= m + 1 /\ b < to  BY DEF Between
      <4>2. b \in Nat  BY <1>2, <4>1
      <4>3. b >= cursor  BY <2>3, <4>1, <4>2
      <4> QED  BY <1>2, <4>1, <4>3
    <3> QED  BY <1>3, <3>1, <3>2
  <2> QED  BY <1>4, <2>1, <2>5, <2>6
<1> QED  BY <1>5, <1>6, <1>7, <1>8

\* fetch_ohlcv reads every bar of the span, whatever the limit of a page.
LEMMA FetchAll ==
    ASSUME now \in Nat, NEW from \in Nat, NEW to \in Nat
    PROVE  FetchOhlcv(from, to) = Between(from, to)
<1> DEFINE Cursors == from..(now + 1)
           all == [cursor \in Cursors |-> Between(cursor, to)]
           pages == CHOOSE g : Paging(g, from, to)
<1>1. Exchange \subseteq Nat /\ \A b \in Exchange : b <= now  BY Exchanges DEF Exchange
<1>2. FetchOhlcv(from, to) = IF from > now THEN {} ELSE pages[from]
  BY Zenon DEF FetchOhlcv, Paging, Page, Batch, Ahead
<1>3. Paging(all, from, to)
  <2>1. \A cursor \in Cursors : Page(all, cursor, to) = Between(cursor, to)
    <3> TAKE cursor \in Cursors
    <3>1. \A c \in Cursors : all[c] = Between(c, to)  OBVIOUS
    <3> HIDE DEF all
    <3>2. cursor \in from..(now + 1) /\ \A c \in from..(now + 1) : c > cursor => all[c] = Between(c, to)
      BY <3>1
    <3> HIDE DEF Cursors
    <3> QED  BY <3>2, PageIsAll
  <2>2. all = [cursor \in Cursors |-> Page(all, cursor, to)]
    <3> DEFINE a == all
    <3>1. a = [cursor \in Cursors |-> Between(cursor, to)]  OBVIOUS
    <3>2. \A cursor \in Cursors : Page(a, cursor, to) = Between(cursor, to)  BY <2>1
    <3> HIDE DEF a
    <3>3. a = [cursor \in Cursors |-> Page(a, cursor, to)]  BY <3>1, <3>2
    <3> QED  BY <3>3 DEF a
  <2> HIDE DEF all
  <2> QED  BY <2>2 DEF Paging
<1>4. Paging(pages, from, to)
  <2> HIDE DEF all
  <2> QED  BY <1>3
<1> HIDE DEF pages, all
<1>5. \A c \in Cursors : pages[c] = Page(pages, c, to)  BY <1>4 DEF Paging
<1>6. \A c \in Cursors : pages[c] = Between(c, to)
  <2> DEFINE Bad == {n \in Nat : (now + 1) - n \in Cursors /\ pages[(now + 1) - n] # Between((now + 1) - n, to)}
  <2>1. Bad = {}
    <3> SUFFICES ASSUME Bad # {}  PROVE FALSE  OBVIOUS
    <3>1. Bad \subseteq Nat  OBVIOUS
    <3>2. PICK n \in Bad : \A k \in Bad : n <= k
      <4> HIDE DEF Bad
      <4> QED  BY <3>1, LeastNatural
    <3> DEFINE c == (now + 1) - n
    <3>3. n \in Nat /\ c \in Cursors /\ pages[c] # Between(c, to)  BY <3>2
    <3>4. \A d \in Cursors : d > c => pages[d] = Between(d, to)
      <4> SUFFICES ASSUME NEW d \in Cursors, d > c, pages[d] # Between(d, to)  PROVE FALSE
        OBVIOUS
      <4> DEFINE k == (now + 1) - d
      <4>1. k \in Nat /\ (now + 1) - k = d /\ k < n  BY <3>3
      <4>2. k \in Bad  BY <4>1
      <4> HIDE DEF k
      <4> QED  BY <3>2, <3>3, <4>1, <4>2
    <3> HIDE DEF c, Bad
    <3>5. c \in from..(now + 1) /\ \A d \in from..(now + 1) : d > c => pages[d] = Between(d, to)
      BY <3>3, <3>4
    <3> HIDE DEF Cursors
    <3>6. Page(pages, c, to) = Between(c, to)  BY <3>5, PageIsAll
    <3> QED  BY <1>5, <3>3, <3>6
  <2>2. TAKE c \in Cursors
  <2>3. (now + 1) - c \in Nat /\ (now + 1) - ((now + 1) - c) = c  OBVIOUS
  <2>4. (now + 1) - c \notin Bad  BY <2>1
  <2> QED  BY <2>3, <2>4
<1>7. CASE from > now
  <2>1. Between(from, to) = {}
    <3> SUFFICES ASSUME NEW b \in Exchange, b >= from, b < to  PROVE FALSE  BY DEF Between
    <3>1. b \in Nat /\ b <= now  BY <1>1
    <3> QED  BY <1>7, <3>1
  <2> QED  BY <1>2, <1>7, <2>1
<1>8. CASE ~(from > now)
  <2>1. from \in Cursors  BY <1>8
  <2> QED  BY <1>2, <1>6, <1>8, <2>1
<1> QED  BY <1>7, <1>8

\* The bars of a span are bars without a hole, from its start or from the first.
LEMMA SpanIsBars ==
    ASSUME now \in Nat, NEW from \in Nat, NEW to \in Nat, Between(from, to) # {}
    PROVE  /\ Bars(Between(from, to), from)
           /\ Bars(Between(from, to), Min(Between(from, to)))
<1> DEFINE S == Between(from, to)
<1>1. Listing \in Nat /\ Exchange \subseteq Nat  BY ConstantTypes, Exchanges
<1>2. S \subseteq Exchange /\ S # {}  BY DEF Between
<1>3. IsFiniteSet(S) /\ S \in SUBSET Int  BY <1>2, Exchanges
<1>4. \A b : b \in S <=> b \in Listing..now /\ b \notin Outage /\ b >= from /\ b < to
  BY DEF Between, Exchange
<1> HIDE DEF S
<1>5. Max(S) \in S /\ \A b \in S : b <= Max(S)  BY <1>2, <1>3, MaxOfFinite
<1>6. PICK first \in S : \A b \in S : first <= b
  <2>1. S \subseteq Nat  BY <1>1, <1>2
  <2> QED  BY <1>2, <2>1, LeastNatural
<1>7. Min(S) = first
  <2>1. \A b \in S : first <= b  BY <1>6
  <2> QED  BY <1>3, <2>1, MinIs
<1>8. S \subseteq Listing..now  BY <1>4
<1>9. Unbroken(S, from)
  <2>1. S = {b \in from..Max(S) : b >= Listing /\ b \notin Outage}
    <3> DEFINE m == Max(S)
    <3>1. m \in S /\ m \in Nat /\ m <= now /\ m < to  BY <1>1, <1>2, <1>4, <1>5
    <3> HIDE DEF m
    <3>2. ASSUME NEW b \in from..m, b >= Listing, b \notin Outage  PROVE b \in S
      <4>1. b \in Listing..now /\ b < to  BY <1>1, <3>1, <3>2
      <4> QED  BY <1>4, <3>2, <4>1
    <3>3. ASSUME NEW b \in S  PROVE b \in from..m /\ b >= Listing /\ b \notin Outage
      <4>1. b <= m  BY <1>5 DEF m
      <4> QED  BY <1>1, <1>4, <3>1, <4>1
    <3>4. S = {b \in from..m : b >= Listing /\ b \notin Outage}  BY <3>2, <3>3
    <3> QED  BY <3>4 DEF m
  <2> QED  BY <2>1 DEF Unbroken
<1>10. Unbroken(S, first)
  <2>1. \A b \in S : b \in first..Max(S)  BY <1>1, <1>2, <1>5, <1>6
  <2>2. first \in Nat /\ first >= from  BY <1>1, <1>2, <1>4
  <2>3. Max(S) \in Int  BY <1>3, <1>5
  <2>4. S = {b \in from..Max(S) : b >= Listing /\ b \notin Outage}  BY <1>9 DEF Unbroken
  <2> DEFINE m == Max(S)
  <2>5. S = {b \in first..m : b >= Listing /\ b \notin Outage}
    <3> HIDE DEF m
    <3>1. m \in Int  BY <2>3 DEF m
    <3> QED  BY <2>1, <2>2, <2>4, <3>1 DEF m
  <2> QED  BY <2>5 DEF Unbroken
<1> QED  BY <1>2, <1>7, <1>8, <1>9, <1>10 DEF Bars, S

\* And bars without a hole are those of a span.
LEMMA BarsAreSpan ==
    ASSUME now \in Nat, NEW S, Bars(S, Min(S))
    PROVE  /\ Min(S) \in S /\ Max(S) \in S /\ Min(S) \in Nat /\ Max(S) \in Nat
           /\ S = Between(Min(S), Max(S) + 1)
<1>1. Listing \in Nat  BY ConstantTypes
<1>2. S # {} /\ S \subseteq Listing..now /\ S = {b \in Min(S)..Max(S) : b >= Listing /\ b \notin Outage}
  BY DEF Bars, Unbroken
<1>3. S \subseteq Nat /\ S \in SUBSET Int  BY <1>1, <1>2
<1>4. IsFiniteSet(S)
  <2>1. IsFiniteSet(Listing..now)  BY <1>1, FS_Interval
  <2> QED  BY <1>2, <2>1, FS_Subset
<1>5. Max(S) \in S  BY <1>2, <1>3, <1>4, MaxOfFinite
<1>6. PICK first \in S : \A b \in S : first <= b  BY <1>2, <1>3, LeastNatural
<1>7. Min(S) = first
  <2>1. \A b \in S : first <= b  BY <1>6
  <2> QED  BY <1>3, <2>1, MinIs
<1> DEFINE lo == Min(S)
           hi == Max(S)
<1>8. lo \in S /\ hi \in S /\ lo \in Nat /\ hi \in Nat /\ hi <= now
  BY <1>1, <1>2, <1>3, <1>5, <1>7
<1>9. S = {b \in lo..hi : b >= Listing /\ b \notin Outage}  BY <1>2
<1> HIDE DEF lo, hi
<1>10. \A b : b \in Between(lo, hi + 1) <=> b \in lo..hi /\ b >= Listing /\ b \notin Outage
  <2>1. \A b : b \in Between(lo, hi + 1) <=>
                 b \in Listing..now /\ b \notin Outage /\ b >= lo /\ b < hi + 1
    BY DEF Between, Exchange
  <2>2. \A b : b \in Listing..now => b \in Int  OBVIOUS
  <2>3. \A b : b \in lo..hi => b \in Int  OBVIOUS
  <2>4. ASSUME NEW b  PROVE (b \in Listing..now /\ b >= lo /\ b < hi + 1) <=> (b \in lo..hi /\ b >= Listing)
    BY <1>1, <1>8
  <2> QED  BY <2>1, <2>4
<1>11. S = Between(lo, hi + 1)  BY <1>9, <1>10
<1> QED  BY <1>8, <1>11 DEF lo, hi

LEMMA Joined ==
    ASSUME now \in Nat, NEW a \in Nat, NEW b \in Nat, NEW c \in Nat, a <= b, b <= c
    PROVE  Between(a, c) = Between(a, b) \cup Between(b, c)
<1>1. \A x \in Exchange : x \in Nat  BY Exchanges
<1>2. ASSUME NEW x \in Exchange
      PROVE  (x >= a /\ x < c) <=> ((x >= a /\ x < b) \/ (x >= b /\ x < c))
  <2>1. x \in Nat  BY <1>1
  <2> QED  BY <2>1
<1> QED  BY <1>2 DEF Between

\* get_market_data keeps the file without a hole, and serves the window from
\* its first bar.
LEMMA ReadMarket ==
    ASSUME now \in Nat, CacheOK(market), NEW w, w.from \in Nat, w.to \in Nat
    PROVE  LET read == GetMarketData(w) IN
           /\ CacheOK(read.market)
           /\ read.bars # {} => Bars(read.bars, w.from)
<1> DEFINE M == market.bars
           cold == market.file # "whole"
           from == w.from
           to == w.to
           least == Min(M)
           next == Max(M) + 1
           front == IF cold THEN FetchOhlcv(from, to) ELSE FetchOhlcv(from, least)
           noData == \/ cold /\ front = {}
                     \/ ~cold /\ from < least /\ front = {}
                     \/ ~cold /\ to > next /\ FetchOhlcv(next, to) = {}
           bars == IF cold THEN front
                   ELSE M \cup (IF from < least THEN front ELSE {})
                          \cup (IF to > next THEN FetchOhlcv(next, to) ELSE {})
           served == {b \in bars : b >= from /\ b < to}
           read == GetMarketData(w)
<1>1. read = IF noData THEN [market |-> market, bars |-> {}]
             ELSE [market |-> [file |-> "whole", bars |-> bars], bars |-> served]
  BY DEF GetMarketData
<1>2. from \in Nat /\ to \in Nat  OBVIOUS
<1>3. ~cold => Bars(M, least)  BY DEF CacheOK
<1>4. ~cold => least \in M /\ least \in Nat /\ Max(M) \in Nat /\ M = Between(least, next) /\ least < next
  <2> SUFFICES ASSUME ~cold  PROVE least \in M /\ least \in Nat /\ Max(M) \in Nat
                                   /\ M = Between(least, next) /\ least < next
    OBVIOUS
  <2>1. Bars(M, Min(M))  BY <1>3
  <2>2. Min(M) \in M /\ Max(M) \in M /\ Min(M) \in Nat /\ Max(M) \in Nat
        /\ M = Between(Min(M), Max(M) + 1)
    <3> HIDE DEF M
    <3> QED  BY <2>1, BarsAreSpan
  <2>3. Min(M) < Max(M) + 1
    <3> DEFINE x == Min(M)
               y == Max(M) + 1
    <3>1. x \in Between(x, y)  BY <2>2
    <3> HIDE DEF x, y
    <3>2. x < y  BY <3>1 DEF Between
    <3> QED  BY <3>2 DEF x, y
  <2> QED  BY <2>2, <2>3
<1>5. cold => bars = Between(from, to)
  BY <1>2, FetchAll
<1> DEFINE lo == IF from < least THEN from ELSE least
           hi == IF to > next THEN to ELSE next
<1>6. ~cold => lo \in Nat /\ hi \in Nat /\ lo <= from /\ to <= hi /\ bars = Between(lo, hi)
  <2> SUFFICES ASSUME ~cold
               PROVE  lo \in Nat /\ hi \in Nat /\ lo <= from /\ to <= hi /\ bars = Between(lo, hi)
    OBVIOUS
  <2>1. least \in Nat /\ next \in Nat /\ least < next /\ M = Between(least, next)  BY <1>4
  <2>2. FetchOhlcv(from, least) = Between(from, least)  BY <1>2, <2>1, FetchAll
  <2>3. FetchOhlcv(next, to) = Between(next, to)  BY <1>2, <2>1, FetchAll
  <2> DEFINE below == IF from < least THEN Between(from, least) ELSE {}
             above == IF to > next THEN Between(next, to) ELSE {}
  <2>4. bars = M \cup below \cup above  BY <2>2, <2>3
  <2> HIDE DEF M, least, next, front, bars
  <2>5. M \cup below = Between(lo, next)
    <3>1. from < least => Between(from, next) = Between(from, least) \cup Between(least, next)
      BY <1>2, <2>1, Joined
    <3> QED  BY <2>1, <3>1
  <2>6. lo \in Nat /\ hi \in Nat /\ lo <= from /\ to <= hi /\ lo <= next /\ next <= hi
    BY <1>2, <2>1
  <2>7. Between(lo, hi) = Between(lo, next) \cup above
    <3>1. to > next => Between(lo, to) = Between(lo, next) \cup Between(next, to)
      BY <1>2, <2>1, <2>6, Joined
    <3> QED  BY <3>1
  <2> QED  BY <2>4, <2>5, <2>6, <2>7
<1>7. \E a, b \in Nat : a <= from /\ to <= b /\ bars = Between(a, b)
  <2> HIDE DEF lo, hi, bars
  <2>1. from <= from /\ to <= to  BY <1>2
  <2> QED  BY <1>2, <1>5, <1>6, <2>1
<1> HIDE DEF bars
<1>8. PICK a \in Nat, b \in Nat : a <= from /\ to <= b /\ bars = Between(a, b)  BY <1>7
<1>9. served = Between(from, to)
  <2>1. \A x \in Exchange : x \in Nat  BY Exchanges
  <2>2. ASSUME NEW x \in Exchange
        PROVE  (x >= a /\ x < b /\ x >= from /\ x < to) <=> (x >= from /\ x < to)
    <3>1. x \in Nat  BY <2>1
    <3> QED  BY <1>2, <1>8, <3>1
  <2> QED  BY <1>8, <2>2 DEF Between
<1> HIDE DEF served
<1>10. bars # {} => Bars(bars, Min(bars))
  <2> SUFFICES ASSUME Between(a, b) # {}
               PROVE  Bars(Between(a, b), Min(Between(a, b)))
    BY <1>8
  <2> QED  BY SpanIsBars
<1>11. served # {} => Bars(served, from)
  <2> SUFFICES ASSUME Between(from, to) # {}  PROVE Bars(Between(from, to), from)
    BY <1>9
  <2> QED  BY <1>2, SpanIsBars
<1>12. ~noData => bars # {}
  <2>1. cold /\ front # {} => bars # {}  BY DEF bars
  <2>2. ~cold => bars # {}
    <3>1. ~cold => least \in M  BY <1>4
    <3>2. ~cold => M \subseteq bars  BY DEF bars
    <3> QED  BY <3>1, <3>2
  <2> QED  BY <2>1, <2>2
<1> HIDE DEF noData, read
<1>13. CacheOK(read.market) /\ (read.bars # {} => Bars(read.bars, from))
  <2>1. CASE noData  BY <1>1, <2>1
  <2>2. CASE ~noData  BY <1>1, <1>10, <1>11, <1>12, <2>2 DEF CacheOK
  <2> QED  BY <2>1, <2>2
<1> QED  BY <1>13 DEF read

-----------------------------------------------------------------------------
(* Rows and files stay. *)

Longer(s, t) == DOMAIN s \subseteq DOMAIN t /\ \A i \in DOMAIN s : t[i] = s[i]

Kept ==
    /\ Longer(db.contents, db'.contents)
    /\ Longer(db.transcripts, db'.transcripts)
    /\ Longer(db.extractions, db'.extractions)
    /\ Longer(db.backtests, db'.backtests)
    /\ Longer(db.analyses, db'.analyses)
    /\ \A s \in Sources : /\ disk.audio[s] # "none" => disk'.audio[s] # "none"
                          /\ disk.ingest[s] # "none" => disk'.ingest[s] # "none"

LEMMA RowAppended ==
    ASSUME NEW S, NEW t \in Seq(S), NEW row \in S
    PROVE  LET u == Append(t, row)  new == Len(t) + 1 IN
           /\ u \in Seq(S) /\ DOMAIN t = 1..Len(t) /\ Len(t) \in Nat
           /\ DOMAIN u = DOMAIN t \cup {new} /\ new \notin DOMAIN t
           /\ Longer(t, u) /\ u[new] = row
<1>1. Len(t) \in Nat /\ DOMAIN t = 1..Len(t)  BY LenProperties
<1>2. Append(t, row) \in Seq(S) /\ Len(Append(t, row)) = Len(t) + 1  OBVIOUS
<1>3. DOMAIN Append(t, row) = 1..(Len(t) + 1)  BY <1>2, LenProperties
<1>4. \A i \in 1..Len(t) : Append(t, row)[i] = t[i]  OBVIOUS
<1>5. Append(t, row)[Len(t) + 1] = row  OBVIOUS
<1> QED  BY <1>1, <1>2, <1>3, <1>4, <1>5 DEF Longer

LEMMA SameKept == ASSUME UNCHANGED <<db, disk>>  PROVE Kept
  BY DEF Kept, Longer

LEMMA StillValid ==
    ASSUME Kept, NEW j, Valid(j)
    PROVE  Valid(j)'
  BY DEF Kept, Longer, Valid

LEMMA StillFetched ==
    ASSUME Kept, NEW s \in Sources, Fetched(s)
    PROVE  Fetched(s)'
  BY DEF Kept, Fetched

LEMMA StillUsable ==
    ASSUME Kept, NEW d, Usable(d)
    PROVE  Usable(d)'
<1>1. ASSUME TranscriptsOf(d.id) # {}  PROVE TranscriptsOf(d.id)' # {}
  BY <1>1 DEF TranscriptsOf, Kept, Longer
<1>2. d.job.of \in Sources /\ Fetched(d.job.of) => Fetched(d.job.of)'  BY StillFetched
<1> QED  BY <1>1, <1>2 DEF Usable, Kept, Longer

LEMMA StillSettled ==
    ASSUME Settled, Kept, done' = done
    PROVE  Settled'
  BY StillUsable DEF Settled

LEMMA JobSettled ==
    ASSUME Settled, Kept, NEW error, NEW id, Settle(error, id),
           NEW j, j = Job,
           IF error = "none" THEN Usable([job |-> j, answer |-> "finished", id |-> id])'
           ELSE id = 0
    PROVE  Settled'
<1> DEFINE d == [job |-> j, answer |-> Answer(error), id |-> id]
<1>1. done' = done \cup {d}  BY DEF Settle
<1>2. error = "none" => d = [job |-> j, answer |-> "finished", id |-> id]  BY DEF Answer
<1>3. error # "none" => d.answer # "finished"
  BY Zenon DEF Answer
<1>4. d.id = id  OBVIOUS
<1>5. \A e \in done : Usable(e) => Usable(e)'  BY StillUsable
<1>6. error = "none" => d.answer = "finished"  BY <1>2
<1>7. error = "none" => Usable(d)'
  <2> SUFFICES ASSUME error = "none"  PROVE Usable(d)'  OBVIOUS
  <2> HIDE DEF d
  <2> QED  BY <1>2
<1> HIDE DEF d
<1>8. IF d.answer = "finished" THEN Usable(d)' ELSE d.id = 0  BY <1>3, <1>4, <1>6, <1>7
<1> QED  BY <1>1, <1>5, <1>8 DEF Settled

\* The job at work goes on.
GoesOn == /\ DOMAIN work' = WorkFields /\ work'.job = work.job
          /\ work'.spec \in BOOLEAN /\ work'.parses \in BOOLEAN /\ work'.cost \in Nat
             /\ work'.charged \in Nat

LEMMA Steps ==
    ASSUME TypeOK, work # Idle, NEW step, Go(step)
    PROVE  GoesOn /\ work' # Idle /\ work'.step = step /\ work'.cost = work.cost
           /\ work'.charged = work.charged
           /\ work'.content = work.content /\ work'.bars = work.bars
           /\ work'.spec = work.spec /\ work'.parses = work.parses
<1>1. DOMAIN work = WorkFields /\ work.spec \in BOOLEAN /\ work.parses \in BOOLEAN
      /\ work.cost \in Nat /\ work.charged \in Nat
  BY DEF TypeOK
<1>2. work' = [work EXCEPT !.step = step]  BY DEF Go
<1>3. DOMAIN work' = WorkFields  BY <1>1, <1>2
<1>4. DOMAIN Idle = {"step"}  BY DEF Idle
<1>5. work' # Idle
  <2>1. "job" \in DOMAIN work'  BY <1>3 DEF WorkFields
  <2>2. "job" \notin DOMAIN Idle  BY <1>4
  <2> QED  BY <2>1, <2>2
<1> QED  BY <1>1, <1>2, <1>3, <1>5 DEF GoesOn, WorkFields

\* A step of the worker on well-typed rows and files keeps the types.
LEMMA WorkerTypes ==
    ASSUME TypeOK, UNCHANGED <<now, queue, requests>>, Kept, db' \in Tables, disk' \in Files,
           spend' \in [Days -> Nat], paid' \in Nat, charged' \in Seq(Nat), lost' \in Nat, faults' \in Nat,
           work' = Idle \/ (work # Idle /\ GoesOn)
    PROVE  TypeOK'
<1>1. (\E jobs : Queued(jobs))'
  <2>1. PICK jobs : Queued(jobs)  BY DEF TypeOK
  <2>2. Queued(jobs)'  BY <2>1, StillValid DEF Queued
  <2> QED  BY <2>2
<1>2. RequestsOK'
  <2>1. \A r : Pending(r) => Pending(r)'  BY StillValid DEF Pending
  <2> QED  BY <2>1 DEF TypeOK, RequestsOK
<1>3. (work # Idle => /\ DOMAIN work = WorkFields /\ Valid(work.job)
                      /\ work.spec \in BOOLEAN /\ work.parses \in BOOLEAN
                         /\ work.cost \in Nat /\ work.charged \in Nat)'
  <2> SUFFICES ASSUME work' # Idle
               PROVE  (/\ DOMAIN work = WorkFields /\ Valid(work.job)
                       /\ work.spec \in BOOLEAN /\ work.parses \in BOOLEAN
                          /\ work.cost \in Nat /\ work.charged \in Nat)'
    OBVIOUS
  <2>1. work # Idle /\ GoesOn  OBVIOUS
  <2>2. Valid(work.job)  BY <2>1 DEF TypeOK
  <2>3. Valid(work.job)'  BY <2>1, <2>2, StillValid DEF GoesOn
  <2> QED  BY <2>1, <2>3 DEF GoesOn
<1>4. now' \in StartTime..MaxTime  BY DEF TypeOK
<1> QED  BY <1>1, <1>2, <1>3, <1>4 DEF TypeOK

LEMMA LaterBars ==
    ASSUME now \in Nat, now' \in Nat, now <= now', NEW bars, NEW from, Bars(bars, from)
    PROVE  Bars(bars, from)'
<1>1. Listing \in Nat  BY ConstantTypes
<1>2. bars \subseteq Listing..now  BY DEF Bars
<1>3. \A b \in Listing..now : b \in Listing..now'  BY <1>1
<1>4. bars \subseteq Listing..now'  BY <1>2, <1>3
<1> QED  BY <1>4 DEF Bars, Unbroken

LEMMA SameRows ==
    ASSUME RowsOK, UNCHANGED <<db.extractions, db.backtests, db.analyses>>,
           now \in Nat, now' \in Nat, now <= now'
    PROVE  RowsOK'
<1>1. (\A b \in DOMAIN db.backtests : Bars(db.backtests[b].bars, db.backtests[b].of.window.from))'
  BY LaterBars DEF RowsOK
<1> QED  BY <1>1 DEF RowsOK

LEMMA SameCache ==
    ASSUME CacheOK(market), UNCHANGED market, now \in Nat, now' \in Nat, now <= now'
    PROVE  CacheOK(market)'
  BY LaterBars DEF CacheOK

LEMMA Rows ==
    ASSUME db \in Tables
    PROVE  /\ db.contents \in Seq(Sources) /\ db.transcripts \in Seq(Nat)
           /\ db.extractions \in Seq(ExtractionRows) /\ db.backtests \in Seq(BacktestRows)
           /\ db.analyses \in Seq(Nat)
  BY DEF Tables

\* What is appended to a table leaves the others alone.
LEMMA Saved ==
    ASSUME db \in Tables, disk' = disk, NEW row
    PROVE  /\ Save("contents", row) /\ row \in Sources =>
                /\ db' \in Tables /\ db'.contents = Append(db.contents, row) /\ Kept
                /\ UNCHANGED <<db.transcripts, db.extractions, db.backtests, db.analyses>>
           /\ Save("transcripts", row) /\ row \in Nat =>
                /\ db' \in Tables /\ db'.transcripts = Append(db.transcripts, row) /\ Kept
                /\ UNCHANGED <<db.contents, db.extractions, db.backtests, db.analyses>>
           /\ Save("extractions", row) /\ row \in ExtractionRows =>
                /\ db' \in Tables /\ db'.extractions = Append(db.extractions, row) /\ Kept
                /\ UNCHANGED <<db.contents, db.transcripts, db.backtests, db.analyses>>
           /\ Save("backtests", row) /\ row \in BacktestRows =>
                /\ db' \in Tables /\ db'.backtests = Append(db.backtests, row) /\ Kept
                /\ UNCHANGED <<db.contents, db.transcripts, db.extractions, db.analyses>>
           /\ Save("analyses", row) /\ row \in Nat =>
                /\ db' \in Tables /\ db'.analyses = Append(db.analyses, row) /\ Kept
                /\ UNCHANGED <<db.contents, db.transcripts, db.extractions, db.backtests>>
<1>1. \A t : Longer(t, t)  BY DEF Longer
<1>2. ASSUME Save("contents", row), row \in Sources
      PROVE  /\ db' \in Tables /\ db'.contents = Append(db.contents, row) /\ Kept
             /\ UNCHANGED <<db.transcripts, db.extractions, db.backtests, db.analyses>>
  <2>1. Append(db.contents, row) \in Seq(Sources) /\ Longer(db.contents, Append(db.contents, row))
    BY <1>2, Rows, RowAppended
  <2>2. db' = [db EXCEPT !.contents = Append(db.contents, row)]  BY <1>2 DEF Save
  <2>3. db' \in Tables /\ db'.contents = Append(db.contents, row)
        /\ UNCHANGED <<db.transcripts, db.extractions, db.backtests, db.analyses>>
    BY <2>1, <2>2 DEF Tables
  <2> QED  BY <1>1, <1>2, <2>1, <2>3 DEF Kept
<1>3. ASSUME Save("transcripts", row), row \in Nat
      PROVE  /\ db' \in Tables /\ db'.transcripts = Append(db.transcripts, row) /\ Kept
             /\ UNCHANGED <<db.contents, db.extractions, db.backtests, db.analyses>>
  <2>1. Append(db.transcripts, row) \in Seq(Nat) /\ Longer(db.transcripts, Append(db.transcripts, row))
    BY <1>3, Rows, RowAppended
  <2>2. db' = [db EXCEPT !.transcripts = Append(db.transcripts, row)]  BY <1>3 DEF Save
  <2>3. db' \in Tables /\ db'.transcripts = Append(db.transcripts, row)
        /\ UNCHANGED <<db.contents, db.extractions, db.backtests, db.analyses>>
    BY <2>1, <2>2 DEF Tables
  <2> QED  BY <1>1, <1>3, <2>1, <2>3 DEF Kept
<1>4. ASSUME Save("extractions", row), row \in ExtractionRows
      PROVE  /\ db' \in Tables /\ db'.extractions = Append(db.extractions, row) /\ Kept
             /\ UNCHANGED <<db.contents, db.transcripts, db.backtests, db.analyses>>
  <2>1. Append(db.extractions, row) \in Seq(ExtractionRows) /\ Longer(db.extractions, Append(db.extractions, row))
    BY <1>4, Rows, RowAppended
  <2>2. db' = [db EXCEPT !.extractions = Append(db.extractions, row)]  BY <1>4 DEF Save
  <2>3. db' \in Tables /\ db'.extractions = Append(db.extractions, row)
        /\ UNCHANGED <<db.contents, db.transcripts, db.backtests, db.analyses>>
    BY <2>1, <2>2 DEF Tables
  <2> QED  BY <1>1, <1>4, <2>1, <2>3 DEF Kept
<1>5. ASSUME Save("backtests", row), row \in BacktestRows
      PROVE  /\ db' \in Tables /\ db'.backtests = Append(db.backtests, row) /\ Kept
             /\ UNCHANGED <<db.contents, db.transcripts, db.extractions, db.analyses>>
  <2>1. Append(db.backtests, row) \in Seq(BacktestRows) /\ Longer(db.backtests, Append(db.backtests, row))
    BY <1>5, Rows, RowAppended
  <2>2. db' = [db EXCEPT !.backtests = Append(db.backtests, row)]  BY <1>5 DEF Save
  <2>3. db' \in Tables /\ db'.backtests = Append(db.backtests, row)
        /\ UNCHANGED <<db.contents, db.transcripts, db.extractions, db.analyses>>
    BY <2>1, <2>2 DEF Tables
  <2> QED  BY <1>1, <1>5, <2>1, <2>3 DEF Kept
<1>6. ASSUME Save("analyses", row), row \in Nat
      PROVE  /\ db' \in Tables /\ db'.analyses = Append(db.analyses, row) /\ Kept
             /\ UNCHANGED <<db.contents, db.transcripts, db.extractions, db.backtests>>
  <2>1. Append(db.analyses, row) \in Seq(Nat) /\ Longer(db.analyses, Append(db.analyses, row))
    BY <1>6, Rows, RowAppended
  <2>2. db' = [db EXCEPT !.analyses = Append(db.analyses, row)]  BY <1>6 DEF Save
  <2>3. db' \in Tables /\ db'.analyses = Append(db.analyses, row)
        /\ UNCHANGED <<db.contents, db.transcripts, db.extractions, db.backtests>>
    BY <2>1, <2>2 DEF Tables
  <2> QED  BY <1>1, <1>6, <2>1, <2>3 DEF Kept
<1> QED  BY <1>2, <1>3, <1>4, <1>5, <1>6

-----------------------------------------------------------------------------
(* Costs *)

LEMMA CostColumns ==
    ASSUME NEW rows \in Seq(ExtractionRows)
    PROVE  /\ IsFiniteSet(DOMAIN rows) /\ CostColumn(rows) \in [DOMAIN rows -> Nat]
           /\ SumFunction(CostColumn(rows)) \in Nat
<1>1. Len(rows) \in Nat /\ DOMAIN rows = 1..Len(rows) /\ rows \in [1..Len(rows) -> ExtractionRows]
  BY LenProperties
<1>2. IsFiniteSet(DOMAIN rows)  BY <1>1, FS_Interval
<1>3. CostColumn(rows) \in [DOMAIN rows -> Nat]  BY <1>1 DEF CostColumn, ExtractionRows
<1> QED  BY <1>2, <1>3, SumNatural

LEMMA DayTypes ==
    ASSUME TypeOK
    PROVE  IsFiniteSet(Days) /\ Today \in Days
<1>1. now \in Nat /\ MaxTime \in Nat /\ now <= MaxTime /\ DayTicks \in Nat \ {0}
  BY ConstantTypes DEF TypeOK
<1>2. now \div DayTicks \in Nat /\ MaxTime \div DayTicks \in Nat  BY <1>1, Quotient
<1>3. now \div DayTicks <= MaxTime \div DayTicks  BY <1>1, QuotientOrder
<1>4. IsFiniteSet(0..(MaxTime \div DayTicks))  BY <1>2, FS_Interval
<1> QED  BY <1>2, <1>3, <1>4 DEF Days, Today

LEMMA ChargeTypes ==
    ASSUME NEW charges \in Seq(Nat)
    PROVE  SumFunction(charges) \in Nat
<1>1. Len(charges) \in Nat /\ charges \in [1..Len(charges) -> Nat]  BY LenProperties
<1>2. IsFiniteSet(1..Len(charges))  BY <1>1, FS_Interval
<1> QED  BY <1>1, <1>2, SumNatural

LEMMA ChargeAdded ==
    ASSUME NEW charges \in Seq(Nat), NEW charge \in Nat
    PROVE  /\ Append(charges, charge) \in Seq(Nat)
           /\ SumFunction(Append(charges, charge)) = SumFunction(charges) + charge
<1> DEFINE more == Append(charges, charge)
           new == Len(charges) + 1
           D == DOMAIN charges
<1>1. more \in Seq(Nat) /\ DOMAIN more = D \cup {new} /\ new \notin D
      /\ (\A i \in D : more[i] = charges[i]) /\ more[new] = charge
  BY RowAppended DEF Longer
<1>2. IsFiniteSet(D) /\ \A i \in D : charges[i] \in Int
  <2>1. Len(charges) \in Nat /\ charges \in [1..Len(charges) -> Nat] /\ D = 1..Len(charges)
    BY LenProperties
  <2>2. IsFiniteSet(1..Len(charges))  BY <2>1, FS_Interval
  <2> QED  BY <2>1, <2>2
<1>3. more[new] \in Int  BY <1>1
<1> HIDE DEF more, new, D
<1>4. D = DOMAIN charges  BY DEF D
<1>5. SumFunction(more) = SumFunction(charges) + more[new]
  BY ONLY <1>1, <1>2, <1>3, <1>4, SumExtended
<1> QED  BY <1>1, <1>5 DEF more

LEMMA SumTypes ==
    ASSUME TypeOK
    PROVE  /\ Costs \in Nat /\ SumFunction(spend) \in Nat /\ Held \in Nat /\ Unrecorded \in Nat
           /\ Charges \in Nat
<1>1. db.extractions \in Seq(ExtractionRows)  BY Rows DEF TypeOK
<1>2. Costs \in Nat  BY <1>1, CostColumns DEF Costs, CostColumn
<1>3. spend \in [Days -> Nat]  BY DEF TypeOK
<1>4. SumFunction(spend) \in Nat  BY <1>3, DayTypes, SumNatural
<1>5. Charges \in Nat  BY ChargeTypes DEF TypeOK, Charges
<1> QED  BY <1>2, <1>4, <1>5 DEF TypeOK, Held, Unrecorded

LEMMA CostAdded ==
    ASSUME NEW rows \in Seq(ExtractionRows), NEW row \in ExtractionRows
    PROVE  SumFunction(CostColumn(Append(rows, row))) = SumFunction(CostColumn(rows)) + row.cost
<1> DEFINE more == Append(rows, row)
           new == Len(rows) + 1
           f == CostColumn(rows)
           g == CostColumn(more)
           D == DOMAIN rows
<1>1. more \in Seq(ExtractionRows) /\ DOMAIN more = D \cup {new} /\ new \notin D
      /\ (\A i \in D : more[i] = rows[i]) /\ more[new] = row
  BY RowAppended DEF Longer
<1>2. IsFiniteSet(D) /\ f \in [D -> Nat] /\ g \in [DOMAIN more -> Nat]
  BY <1>1, CostColumns
<1>3. (\A y \in D : g[y] = f[y]) /\ g[new] = row.cost
  BY <1>1 DEF CostColumn
<1> HIDE DEF more, new, f, g, D
<1>4. f \in [D -> Int] /\ g \in [D \cup {new} -> Int]  BY <1>1, <1>2
<1>5. SumFunction(g) = SumFunction(f) + g[new]
  <2>1. IsFiniteSet(D)  BY <1>2
  <2>2. new \notin D  BY <1>1
  <2>3. DOMAIN f = D /\ \A y \in D : f[y] \in Int  BY <1>4
  <2>4. DOMAIN g = D \cup {new} /\ g[new] \in Int  BY <1>4
  <2>5. \A y \in D : g[y] = f[y]  BY <1>3
  <2> QED  BY ONLY <2>1, <2>2, <2>3, <2>4, <2>5, SumExtended
<1> QED  BY <1>3, <1>5 DEF f, g, more

\* Whole cents, rounded up, are at least the cost.
LEMMA CentsCover ==
    ASSUME NEW mills \in Nat
    PROVE  Cents(mills) \in Nat /\ mills <= 10 * Cents(mills)
<1>1. mills + 9 \in Int /\ mills + 9 >= 0 /\ 10 \in Nat \ {0}  OBVIOUS
<1>2. /\ (mills + 9) \div 10 \in Nat
      /\ mills + 9 < (10 * ((mills + 9) \div 10)) + 10
  BY <1>1, Quotient
<1> DEFINE c == (mills + 9) \div 10
<1> HIDE DEF c
<1>3. c \in Nat /\ mills + 9 < (10 * c) + 10  BY <1>2 DEF c
<1>4. mills <= 10 * c  BY <1>3
<1> QED  BY <1>3, <1>4 DEF c, Cents

LEMMA StillAccounted ==
    ASSUME Accounted, UNCHANGED <<db.extractions, spend, paid, charged, lost, faults>>,
           Held' = Held, Unrecorded' = Unrecorded
    PROVE  Accounted'
<1>1. Costs' = Costs /\ Charges' = Charges /\ Booked' = Booked  BY DEF Costs, Charges, Booked
<1> QED  BY <1>1 DEF Accounted

-----------------------------------------------------------------------------
(* The initial states, and the steps of the API. *)

LEMMA Initially == Init => IInv
<1> SUFFICES ASSUME Init  PROVE IInv  OBVIOUS
<1> USE DEF Init
<1> DEFINE bars == UNION {db.backtests[b].bars : b \in DOMAIN db.backtests}
<1>1. LeftBehind(db)  BY DatabasesAssumption
<1>2. /\ db \in [contents : Seq(Sources), transcripts : Seq(Nat),
                 extractions : Seq(ExtractionRows),
                 backtests : Seq([of : Keys, bars : SUBSET (Listing..StartTime)]),
                 analyses : Seq(Nat)]
      /\ \A b \in DOMAIN db.backtests :
            /\ db.backtests[b].bars # {}
            /\ Unbroken(db.backtests[b].bars, db.backtests[b].of.window.from)
      /\ IsInjective([e \in DOMAIN db.extractions |-> db.extractions[e].of])
      /\ IsInjective([b \in DOMAIN db.backtests |-> db.backtests[b].of])
      /\ IsInjective(db.analyses)
      /\ bars # {} => Unbroken(bars, Min(bars))
  BY <1>1 DEF LeftBehind, ExtractionRows, Keys
<1>3. Listing \in Nat /\ StartTime \in Nat /\ MaxTime \in Nat /\ StartTime <= MaxTime
  BY ConstantTypes
<1>4. now \in StartTime..MaxTime /\ now \in Nat /\ now = StartTime  BY <1>3
<1>5. db \in Tables
  <2> DEFINE Narrow == [of : Keys, bars : SUBSET (Listing..StartTime)]
  <2>1. Narrow \subseteq BacktestRows
    <3>1. Listing..StartTime \subseteq Nat  BY <1>3
    <3> QED  BY <3>1 DEF BacktestRows
  <2>2. db.backtests \in Seq(Narrow)  BY <1>2
  <2> HIDE DEF Narrow
  <2>3. db.backtests \in Seq(BacktestRows)  BY <2>1, <2>2, SeqMonotonic
  <2> QED  BY <1>2, <2>3 DEF Tables
<1>6. disk \in Files
  <2>1. [s \in Sources |-> IF s.kind = "youtube" /\ s \in Range(db.contents) THEN "m4a" ELSE "none"]
          \in [Sources -> Marks]  BY DEF Marks
  <2>2. [s \in Sources |-> IF s \in Range(db.contents) THEN "whole" ELSE "none"]
          \in [Sources -> Marks]  BY DEF Marks
  <2>3. [s \in Sources |-> "none"] \in [Sources -> Marks]  BY DEF Marks
  <2> QED  BY <2>1, <2>2, <2>3 DEF Files
<1>7. db.extractions \in Seq(ExtractionRows)  BY <1>5, Rows
<1>8. Costs \in Nat  BY <1>7, CostColumns DEF Costs, CostColumn
<1>9. Cents(Costs) \in Nat /\ Costs <= 10 * Cents(Costs)  BY <1>8, CentsCover
<1>10. spend \in [Days -> Nat]  BY <1>9 DEF Days
<1>11. TypeOK
  <2>1. \E jobs : Queued(jobs)
    <3>1. << >> \in Seq({})  BY EmptySeq
    <3>2. Queued({})  BY <3>1 DEF Queued
    <3> QED  BY ONLY <3>2
  <2>2. paid \in Nat /\ lost \in Nat /\ faults \in Nat  BY <1>8
  <2>5. charged \in Seq(Nat)
    <3>1. Len(db.extractions) \in Nat /\ DOMAIN db.extractions = 1..Len(db.extractions)
      BY <1>7, LenProperties
    <3>2. charged \in [1..Len(db.extractions) -> Nat]  BY <1>7, <3>1, CostColumns
    <3> QED  BY <3>1, <3>2, SeqDef
  <2>3. RequestsOK  BY DEF RequestsOK
  <2>4. work = Idle  OBVIOUS
  <2> QED  BY ONLY <1>4, <1>5, <1>6, <1>10, <2>1, <2>2, <2>3, <2>4, <2>5 DEF TypeOK
<1>12. \A b \in DOMAIN db.backtests : db.backtests[b].bars \subseteq Listing..now
  <2> SUFFICES ASSUME NEW b \in DOMAIN db.backtests  PROVE db.backtests[b].bars \subseteq Listing..now
    OBVIOUS
  <2> DEFINE Narrow == [of : Keys, bars : SUBSET (Listing..StartTime)]
  <2>1. db.backtests \in Seq(Narrow)  BY <1>2
  <2> HIDE DEF Narrow
  <2>2. db.backtests[b] \in Narrow  BY <2>1, LenProperties, ElementOfSeq
  <2> QED  BY <1>4, <2>2 DEF Narrow
<1>13. RowsOK
  <2>1. \A e, f \in DOMAIN db.extractions : db.extractions[e].of = db.extractions[f].of => e = f
    BY <1>2 DEF IsInjective
  <2>2. \A a, b \in DOMAIN db.backtests : db.backtests[a].of = db.backtests[b].of => a = b
    BY <1>2 DEF IsInjective
  <2>3. \A a, b \in DOMAIN db.analyses : db.analyses[a] = db.analyses[b] => a = b
    BY <1>2 DEF IsInjective
  <2>4. \A b \in DOMAIN db.backtests : Bars(db.backtests[b].bars, db.backtests[b].of.window.from)
    BY ONLY <1>2, <1>12 DEF Bars
  <2> QED  BY ONLY <2>1, <2>2, <2>3, <2>4 DEF RowsOK
<1>14. CacheOK(market)
  <2>1. market.file = IF bars = {} THEN "none" ELSE "whole"  OBVIOUS
  <2>2. market.bars = bars  OBVIOUS
  <2>3. bars \subseteq Listing..now  BY <1>12
  <2> HIDE DEF bars
  <2> QED  BY ONLY <1>2, <2>1, <2>2, <2>3 DEF CacheOK, Bars
<1>15. Accounted
  <2>1. IsFiniteSet(Days) /\ Today \in Days  BY <1>11, DayTypes
  <2> DEFINE rest == [spend EXCEPT ![Today] = 0]
  <2>2. rest \in [Days -> Nat]  BY <1>10
  <2>3. spend \in [Days -> Int] /\ 0 \in Int  BY <1>10
  <2>4. SumFunction(spend) \in Int /\ SumFunction(rest) = SumFunction(spend) + (0 - spend[Today])
    BY ONLY <2>1, <2>3, SumChanged
  <2> HIDE DEF rest
  <2>5. SumFunction(rest) \in Nat  BY ONLY <2>1, <2>2, SumNatural
  <2>6. spend[Today] = Cents(Costs)  BY <2>1 DEF Days
  <2>7. Costs <= 10 * SumFunction(spend)
    BY ONLY <1>8, <1>9, <2>4, <2>5, <2>6
  <2>8. Held = 0 /\ Unrecorded = 0  BY DEF Held, Unrecorded
  <2>9. SumFunction(spend) \in Int /\ paid = Costs /\ lost = 0 /\ Charges = Costs
    BY <2>4 DEF Charges, Costs
  <2>10. Booked
    <3>1. charged \in [DOMAIN db.extractions -> Nat]  BY <1>7, CostColumns
    <3>2. \A e \in DOMAIN db.extractions : charged[e] = db.extractions[e].cost  BY DEF CostColumn
    <3>3. \A e \in DOMAIN db.extractions : charged[e] - db.extractions[e].cost = 0  BY ONLY <3>1, <3>2
    <3> QED  BY <3>1, <3>3 DEF Booked, Unseen
  <2> QED  BY ONLY <1>8, <2>7, <2>8, <2>9, <2>10 DEF Accounted
<1>16. Working /\ Settled  BY DEF Working, Settled
<1> QED  BY ONLY <1>11, <1>13, <1>14, <1>15, <1>16 DEF IInv

\* A step that leaves rows, files and the job at work alone.
LEMMA ApiStep ==
    ASSUME IInv, UNCHANGED <<db, disk, market, spend, work, done, paid, charged, lost>>,
           now' \in StartTime..MaxTime, now <= now', faults' \in Nat, faults' = 0 => faults = 0,
           (\E jobs : Queued(jobs))', RequestsOK'
    PROVE  IInv'
<1>1. Kept  BY SameKept
<1>2. TypeOK /\ RowsOK /\ CacheOK(market) /\ Working /\ Settled /\ Accounted  BY DEF IInv
<1>3. now \in Nat /\ now' \in Nat  BY <1>2, ConstantTypes DEF TypeOK
<1>4. \A j : Valid(j) => Valid(j)'  BY <1>1, StillValid
<1>5. work = work'  OBVIOUS
<1>6. (work # Idle => /\ DOMAIN work = WorkFields /\ Valid(work.job)
                      /\ work.spec \in BOOLEAN /\ work.parses \in BOOLEAN
                         /\ work.cost \in Nat /\ work.charged \in Nat)'
  BY <1>2, <1>4, <1>5 DEF TypeOK
<1>7. TypeOK'  BY <1>2, <1>6 DEF TypeOK
<1>8. RowsOK' /\ CacheOK(market)'  BY <1>2, <1>3, SameRows, SameCache
<1>9. Working'
  <2>1. \A s : Fetched(s) => Fetched(s)'  BY DEF Fetched
  <2>2. \A bars, from : Bars(bars, from) => Bars(bars, from)'  BY <1>2, <1>3, LaterBars
  <2>3. \A t : ExtractionsOf(t)' = ExtractionsOf(t)  BY DEF ExtractionsOf
  <2>4. Job' = Job  BY DEF Job
  <2>5. Ingesting => Ingesting'  BY <2>1, <2>4 DEF Ingesting
  <2>6. Extracting => Extracting'  BY <2>3, <2>4 DEF Extracting, Unseen, Readable
  <2>7. Backtesting => Backtesting'  BY <2>2, <2>4 DEF Backtesting
  <2> QED  BY <1>2, <2>4, <2>5, <2>6, <2>7 DEF Working
<1>10. Settled'  BY <1>1, <1>2, StillSettled
<1>11. Accounted'
  <2>1. Held' = Held /\ Unrecorded' = Unrecorded  BY DEF Held, Unrecorded
  <2>2. Costs' = Costs /\ Charges' = Charges /\ Booked' = Booked  BY DEF Costs, Charges, Booked
  <2> QED  BY <1>2, <2>1, <2>2 DEF Accounted
<1> QED  BY <1>7, <1>8, <1>9, <1>10, <1>11 DEF IInv

LEMMA Requested ==
    ASSUME TypeOK, NEW h \in Handlers, NEW r, Request(h, r), r = Idle \/ Pending(r), db' = db
    PROVE  RequestsOK'
<1>1. \A p : Pending(p) => Pending(p)'  BY DEF Pending, Valid
<1>2. requests' = [requests EXCEPT ![h] = r] /\ RequestsOK  BY DEF Request, TypeOK
<1>3. \A g \in Handlers : requests'[g] = IF g = h THEN r ELSE requests[g]  BY <1>2 DEF RequestsOK
<1>4. DOMAIN requests' = Handlers  BY <1>2 DEF RequestsOK
<1>5. \A g \in Handlers : requests'[g] # Idle => Pending(requests'[g])
  BY <1>2, <1>3 DEF RequestsOK
<1>6. \A g \in Handlers : requests'[g] # Idle => Pending(requests[g])'
  <2> SUFFICES ASSUME NEW g \in Handlers, requests'[g] # Idle  PROVE Pending(requests[g])'
    OBVIOUS
  <2> DEFINE p == requests'[g]
  <2>1. Pending(p)  BY <1>5
  <2> QED  BY <1>1, <2>1
<1> QED  BY <1>4, <1>6 DEF RequestsOK

LEMMA SameQueue ==
    ASSUME TypeOK, UNCHANGED <<db, queue>>
    PROVE  (\E jobs : Queued(jobs))'
<1>1. PICK jobs : Queued(jobs)  BY DEF TypeOK
<1>2. Queued(jobs)'  BY <1>1 DEF Queued, Valid
<1> QED  BY <1>2

LEMMA LatestIsOne ==
    ASSUME NEW S, NEW t \in Seq(S), NEW T, T \subseteq DOMAIN t, T # {}
    PROVE  Max(T) \in T
<1>1. Len(t) \in Nat /\ DOMAIN t = 1..Len(t)  BY LenProperties
<1>2. IsFiniteSet(1..Len(t)) /\ 1..Len(t) \subseteq Int  BY <1>1, FS_Interval
<1>3. IsFiniteSet(T) /\ T \in SUBSET Int  BY <1>1, <1>2, FS_Subset
<1> QED  BY <1>3, MaxOfFinite

LEMMA TickStep == ASSUME IInv, Tick  PROVE IInv'
<1>1. TypeOK  BY DEF IInv
<1>2. now \in StartTime..MaxTime /\ StartTime \in Nat /\ MaxTime \in Nat /\ now < MaxTime /\ now' = now + 1
  BY <1>1, ConstantTypes DEF TypeOK, Tick
<1>3. now' \in StartTime..MaxTime /\ now <= now'  BY <1>2
<1>4. (\E jobs : Queued(jobs))'  BY <1>1, SameQueue DEF Tick
<1>5. RequestsOK'  BY <1>1 DEF TypeOK, RequestsOK, Pending, Valid, Tick
<1>6. faults' \in Nat /\ faults' = faults  BY <1>1 DEF TypeOK, Tick
<1> QED  BY <1>3, <1>4, <1>5, <1>6, ApiStep DEF Tick

LEMMA CrashStep == ASSUME IInv, ApiCrash  PROVE IInv'
<1>1. TypeOK  BY DEF IInv
<1>2. now' \in StartTime..MaxTime /\ now <= now'  BY <1>1, ConstantTypes DEF TypeOK, ApiCrash
<1>3. (\E jobs : Queued(jobs))'  BY <1>1, SameQueue DEF ApiCrash
<1>4. RequestsOK'  BY DEF RequestsOK, ApiCrash
<1>5. faults' \in Nat /\ faults' # 0  BY <1>1 DEF TypeOK, ApiCrash
<1> QED  BY <1>2, <1>3, <1>4, <1>5, ApiStep DEF ApiCrash

\* A handler that counts a request or finds nothing done.
LEMMA HandlerStep ==
    ASSUME IInv, NEW h \in Handlers, NEW r, Request(h, r), r = Idle \/ Pending(r),
           UNCHANGED <<now, db, disk, market, spend, queue, work, done,
                       paid, charged, lost, faults>>
    PROVE  IInv'
<1>1. TypeOK  BY DEF IInv
<1>2. now' \in StartTime..MaxTime /\ now <= now' /\ faults' \in Nat
  BY <1>1, ConstantTypes DEF TypeOK
<1>3. (\E jobs : Queued(jobs))'  BY <1>1, SameQueue
<1>4. RequestsOK'  BY <1>1, Requested
<1> QED  BY <1>2, <1>3, <1>4, ApiStep

LEMMA PostStep ==
    ASSUME IInv, NEW h \in Handlers, NEW kind, NEW of, PostJob(h, kind, of),
           Valid([kind |-> kind, of |-> of])
    PROVE  IInv'
<1> DEFINE r == [step |-> "enqueue", job |-> [kind |-> kind, of |-> of], seen |-> 0]
<1>1. Pending(r)  BY DEF Pending
<1>2. Request(h, r)  BY DEF PostJob
<1> HIDE DEF r
<1> QED  BY <1>1, <1>2, HandlerStep DEF PostJob

LEMMA IngestPosted ==
    ASSUME IInv, NEW h \in Handlers, NEW s \in Sources, PostIngest(h, s)
    PROVE  IInv'
<1> DEFINE r == [step |-> IF QuotaLimit = 0 THEN "enqueue" ELSE "count",
                 job |-> [kind |-> "ingest", of |-> s], seen |-> 0]
<1>1. Pending(r)  BY DEF Pending, Valid
<1>2. Request(h, r)  BY DEF PostIngest
<1> HIDE DEF r
<1> QED  BY <1>1, <1>2, HandlerStep DEF PostIngest

LEMMA CountStep == ASSUME IInv, NEW h \in Handlers, Count(h)  PROVE IInv'
<1> DEFINE r == [requests[h] EXCEPT !.step = "expire", !.seen = quota.count + 1]
<1>1. requests[h] # Idle  BY DEF Count, Idle
<1>2. Pending(requests[h])  BY <1>1 DEF IInv, TypeOK, RequestsOK
<1>3. DOMAIN r = DOMAIN requests[h] /\ r.job = requests[h].job  BY <1>2 DEF Pending
<1>4. Request(h, r)  BY DEF Count
<1> HIDE DEF r
<1>5. Pending(r)  BY <1>2, <1>3 DEF Pending
<1> QED  BY <1>4, <1>5, HandlerStep DEF Count

LEMMA ExpireStep == ASSUME IInv, NEW h \in Handlers, Expire(h)  PROVE IInv'
<1> DEFINE r == [requests[h] EXCEPT !.step = "enqueue"]
           q == IF requests[h].seen > QuotaLimit THEN Idle ELSE r
<1>1. requests[h] # Idle  BY DEF Expire, Idle
<1>2. Pending(requests[h])  BY <1>1 DEF IInv, TypeOK, RequestsOK
<1>3. DOMAIN r = DOMAIN requests[h] /\ r.job = requests[h].job  BY <1>2 DEF Pending
<1>4. Request(h, q)  BY DEF Expire
<1> HIDE DEF r
<1>5. Pending(r)  BY <1>2, <1>3 DEF Pending
<1>6. q = Idle \/ Pending(q)  BY <1>5
<1> HIDE DEF q
<1> QED  BY <1>4, <1>6, HandlerStep DEF Expire

LEMMA EnqueueStep == ASSUME IInv, NEW h \in Handlers, Enqueue(h)  PROVE IInv'
<1>1. TypeOK  BY DEF IInv
<1>2. now' \in StartTime..MaxTime /\ now <= now' /\ faults' \in Nat
  BY <1>1, ConstantTypes DEF TypeOK, Enqueue
<1>3. requests[h] # Idle  BY DEF Enqueue, Idle
<1>4. Valid(requests[h].job)  BY <1>1, <1>3 DEF TypeOK, RequestsOK, Pending
<1>5. (\E jobs : Queued(jobs))'
  <2>1. PICK jobs : Queued(jobs)  BY <1>1 DEF TypeOK
  <2>2. PICK j : j = requests[h].job  OBVIOUS
  <2>3. queue \in Seq(jobs) /\ \A i \in jobs : Valid(i)  BY <2>1 DEF Queued
  <2>4. jobs \subseteq jobs \cup {j}  OBVIOUS
  <2>5. queue \in Seq(jobs \cup {j})  BY <2>3, <2>4, SeqMonotonic
  <2>6. queue' = Append(queue, j)  BY <2>2 DEF Enqueue
  <2>7. \A i \in jobs \cup {j} : Valid(i)'
    <3>1. \A i : Valid(i) => Valid(i)'  BY DEF Valid, Enqueue
    <3>2. Valid(j)  BY <1>4, <2>2
    <3> QED  BY <2>3, <3>1, <3>2
  <2>8. queue' \in Seq(jobs \cup {j})  BY <2>5, <2>6
  <2>9. Queued(jobs \cup {j})'  BY <2>7, <2>8 DEF Queued
  <2> QED  BY <2>9
<1>6. RequestsOK'
  <2>1. Request(h, Idle) /\ db' = db  BY DEF Enqueue
  <2> QED  BY <1>1, <2>1, Requested
<1> QED  BY <1>2, <1>5, <1>6, ApiStep DEF Enqueue

LEMMA ApiSteps == ASSUME IInv, NEW h \in Handlers, Api(h)  PROVE IInv'
<1>1. db \in Tables  BY DEF IInv, TypeOK
<1>2. /\ db.contents \in Seq(Sources) /\ db.transcripts \in Seq(Nat)
      /\ db.extractions \in Seq(ExtractionRows) /\ db.backtests \in Seq(BacktestRows)
  BY <1>1, Rows
<1>3. CASE \E s \in Sources : PostIngest(h, s)  BY <1>3, IngestPosted
<1>4. CASE Count(h)  BY <1>4, CountStep
<1>5. CASE Expire(h)  BY <1>5, ExpireStep
<1>6. CASE Enqueue(h)  BY <1>6, EnqueueStep
<1>7. ASSUME NEW c \in DOMAIN db.contents, PostTranscribe(h, c)  PROVE IInv'
  <2>1. Valid([kind |-> "transcribe", of |-> c])  BY DEF Valid
  <2> QED  BY <1>7, <2>1, PostStep DEF PostTranscribe
<1>8. ASSUME NEW c \in DOMAIN db.contents, PostExtract(h, c)  PROVE IInv'
  <2> DEFINE t == Max(TranscriptsOf(c))
  <2>1. TranscriptsOf(c) \subseteq DOMAIN db.transcripts /\ TranscriptsOf(c) # {}
    BY <1>8 DEF TranscriptsOf, PostExtract
  <2>2. t \in DOMAIN db.transcripts  BY <1>2, <2>1, LatestIsOne
  <2>3. PostJob(h, "extract", t)  BY <1>8 DEF PostExtract
  <2> HIDE DEF t
  <2>4. Valid([kind |-> "extract", of |-> t])  BY <2>2 DEF Valid
  <2> QED  BY <2>3, <2>4, PostStep
<1>9. ASSUME NEW e \in DOMAIN db.extractions, NEW w \in Windows, PostBacktest(h, e, w)  PROVE IInv'
  <2>1. e \in Nat  BY <1>2, LenProperties
  <2>2. Valid([kind |-> "backtest", of |-> [extraction |-> e, window |-> w]])
    BY <2>1 DEF Valid, Keys
  <2> QED  BY <1>9, <2>2, PostStep DEF PostBacktest
<1>10. ASSUME NEW b \in DOMAIN db.backtests, PostOverfitting(h, b)  PROVE IInv'
  <2>1. Valid([kind |-> "overfitting", of |-> b])  BY DEF Valid
  <2> QED  BY <1>10, <2>1, PostStep DEF PostOverfitting
<1> QED  BY <1>3, <1>4, <1>5, <1>6, <1>7, <1>8, <1>9, <1>10 DEF Api

-----------------------------------------------------------------------------
(* The worker takes a job, or loses it. *)

LEMMA TakeStep == ASSUME IInv, TakeJob  PROVE IInv'
<1>1. TypeOK /\ RowsOK /\ CacheOK(market) /\ Settled /\ Accounted  BY DEF IInv
<1>2. Kept  BY SameKept DEF TakeJob
<1>3. PICK jobs : Queued(jobs)  BY <1>1 DEF TypeOK
<1>4. queue \in Seq(jobs) /\ queue # << >> /\ \A j \in jobs : Valid(j)
  BY <1>3 DEF Queued, TakeJob
<1>5. Head(queue) \in jobs /\ Tail(queue) \in Seq(jobs)  BY <1>4, HeadTailProperties
<1>6. \A j : Valid(j) => Valid(j)'  BY <1>2, StillValid
<1>7. Queued(jobs)'  BY <1>4, <1>5, <1>6 DEF Queued, TakeJob
<1>8. work' = [step |-> "probe", job |-> Head(queue), content |-> 0,
               spec |-> FALSE, parses |-> TRUE, cost |-> 0, charged |-> 0, bars |-> {}]
  BY DEF TakeJob
<1>9. work' # Idle /\ DOMAIN work' = WorkFields
  <2>1. DOMAIN work' = WorkFields  BY <1>8 DEF WorkFields
  <2>2. DOMAIN Idle = {"step"}  BY DEF Idle
  <2>3. "job" \in DOMAIN work'  BY <2>1 DEF WorkFields
  <2> QED  BY <2>1, <2>2, <2>3
<1>10. /\ work'.step = "probe" /\ work'.job = Head(queue) /\ work'.spec = FALSE
       /\ work'.parses = TRUE /\ work'.cost = 0 /\ work'.charged = 0
  BY <1>8
<1>11. Valid(work.job)'
  <2>1. PICK j : j = Head(queue)  OBVIOUS
  <2>2. Valid(j)'  BY <1>4, <1>5, <1>6, <2>1
  <2> QED  BY <1>10, <2>1, <2>2
<1>12. TypeOK'
  <2>1. RequestsOK'
    <3>1. \A r : Pending(r) => Pending(r)'  BY <1>6 DEF Pending
    <3> QED  BY <1>1, <3>1 DEF TypeOK, RequestsOK, TakeJob
  <2>2. (\E q : Queued(q))'  BY <1>7
  <2> QED  BY <1>1, <1>9, <1>10, <1>11, <2>1, <2>2 DEF TypeOK, TakeJob
<1>13. now \in Nat /\ now' \in Nat /\ now <= now'  BY <1>1, ConstantTypes DEF TypeOK, TakeJob
<1>14. RowsOK' /\ CacheOK(market)'  BY <1>1, <1>13, SameRows, SameCache DEF TakeJob
<1>15. Working'
  BY <1>10 DEF Working, Ingesting, Extracting, Backtesting, Job, Unseen
<1>16. Settled'  BY <1>1, <1>2, StillSettled DEF TakeJob
<1>17. Accounted'
  <2>1. Held = 0 /\ Unrecorded = 0  BY DEF Held, Unrecorded, TakeJob
  <2>2. Held' = 0 /\ Unrecorded' = 0  BY <1>10 DEF Held, Unrecorded
  <2> QED  BY <1>1, <2>1, <2>2, StillAccounted DEF TakeJob
<1> QED  BY <1>12, <1>14, <1>15, <1>16, <1>17 DEF IInv

\* A step of a job that pays nothing.
LEMMA FreeStep ==
    ASSUME IInv, work # Idle, Job.kind # "extract",
           UNCHANGED <<now, queue, requests, spend, paid, charged, lost, faults, db.extractions>>,
           Kept, db' \in Tables, disk' \in Files,
           work' = Idle \/ (GoesOn /\ work'.cost = work.cost /\ work'.charged = work.charged),
           RowsOK', CacheOK(market)', Working', Settled'
    PROVE  IInv'
<1>1. TypeOK /\ Working /\ Accounted  BY DEF IInv
<1>2. TypeOK'
  <2>1. /\ spend' \in [Days -> Nat] /\ paid' \in Nat /\ charged' \in Seq(Nat)
           /\ lost' \in Nat /\ faults' \in Nat
        /\ UNCHANGED <<now, queue, requests>>
    BY <1>1 DEF TypeOK
  <2>2. work' = Idle \/ (work # Idle /\ GoesOn)  OBVIOUS
  <2> QED  BY <1>1, <2>1, <2>2, WorkerTypes
<1>3. work.cost = 0 /\ work.charged = 0  BY <1>1 DEF Working
<1>4. Held = 0 /\ Unrecorded = 0  BY <1>3 DEF Held, Unrecorded
<1>5. Held' = 0 /\ Unrecorded' = 0  BY <1>3 DEF Held, Unrecorded
<1>6. Accounted'  BY <1>1, <1>4, <1>5, StillAccounted
<1> QED  BY <1>2, <1>6 DEF IInv

\* The job goes on to a step that it is ready for.
LEMMA GoStep ==
    ASSUME IInv, work # Idle, Job.kind # "extract", NEW step, Go(step), Working',
           UNCHANGED <<now, queue, requests, db, disk, market, spend, done,
                       paid, charged, lost, faults>>
    PROVE  IInv'
<1>1. TypeOK /\ RowsOK /\ CacheOK(market) /\ Settled  BY DEF IInv
<1>2. GoesOn /\ work'.cost = work.cost /\ work'.charged = work.charged  BY <1>1, Steps
<1>3. Kept  BY SameKept
<1>4. now \in Nat /\ now' \in Nat /\ now <= now'  BY <1>1, ConstantTypes DEF TypeOK
<1>5. RowsOK' /\ CacheOK(market)' /\ Settled'
  BY <1>1, <1>3, <1>4, SameRows, SameCache, StillSettled
<1>6. db' \in Tables /\ disk' \in Files  BY <1>1 DEF TypeOK
<1> QED  BY <1>2, <1>3, <1>5, <1>6, FreeStep

\* The job ends, with rows that the others do not exclude.
LEMMA EndStep ==
    ASSUME IInv, work # Idle, Job.kind # "extract", NEW error, NEW id, NEW j, j = Job,
           Settle(error, id),
           IF error = "none" THEN Usable([job |-> j, answer |-> "finished", id |-> id])' ELSE id = 0,
           UNCHANGED <<now, queue, requests, spend, paid, charged, lost, faults, db.extractions>>,
           Kept, db' \in Tables, disk' \in Files, RowsOK', CacheOK(market)'
    PROVE  IInv'
<1>1. Settled  BY DEF IInv
<1>2. Settled'  BY <1>1, JobSettled
<1>3. work' = Idle  BY DEF Settle
<1>4. Working'  BY <1>3 DEF Working
<1> QED  BY <1>2, <1>3, <1>4, FreeStep

LEMMA FailStep ==
    ASSUME IInv, work # Idle, Job.kind # "extract", NEW error, error # "none", Settle(error, 0),
           UNCHANGED <<now, queue, requests, db, disk, market, spend, paid, charged, lost, faults>>
    PROVE  IInv'
<1>1. TypeOK /\ RowsOK /\ CacheOK(market)  BY DEF IInv
<1>2. Kept  BY SameKept
<1>3. now \in Nat /\ now' \in Nat /\ now <= now'  BY <1>1, ConstantTypes DEF TypeOK
<1>4. RowsOK' /\ CacheOK(market)'  BY <1>1, <1>3, SameRows, SameCache
<1>5. db' \in Tables /\ disk' \in Files  BY <1>1 DEF TypeOK
<1>6. PICK j : j = Job  OBVIOUS
<1> QED  BY <1>2, <1>4, <1>5, <1>6, EndStep

-----------------------------------------------------------------------------
(* Ingest *)

\* The next step of an ingest job that knows enough.
LEMMA IngestGoes ==
    ASSUME IInv, work # Idle, Job.kind = "ingest", GoesOn, work' # Idle, work'.cost = work.cost /\ work'.charged = work.charged,
           Ingesting'
    PROVE  Working'
<1>1. work.cost = 0 /\ work.charged = 0  BY DEF IInv, Working
<1>2. (Job.kind = "ingest")'  BY DEF GoesOn, Job
<1> QED  BY <1>1, <1>2 DEF Working

LEMMA IngestProbed == ASSUME IInv, IngestProbe  PROVE IInv'
<1> DEFINE step == IF CacheHit(Source) THEN "save" ELSE "fetch"
<1>1. work # Idle /\ Job.kind = "ingest" /\ Go(step)  BY DEF IngestProbe, At
<1>2. TypeOK  BY DEF IInv
<1> HIDE DEF step
<1>3. GoesOn /\ work' # Idle /\ work'.step = step /\ work'.cost = work.cost
      /\ work'.charged = work.charged  BY <1>1, <1>2, Steps
<1>4. CacheHit(Source) => Fetched(Job.of)  BY DEF CacheHit, Fetched, Source
<1>5. step = "save" => Fetched(Job.of)  BY <1>4 DEF step
<1>6. step = "save" => Fetched(Job.of)'
  <2>1. Job' = Job  BY <1>3 DEF GoesOn, Job
  <2> QED  BY <1>5, <2>1 DEF Fetched, IngestProbe
<1>7. step \in {"save", "fetch"}  BY DEF step
<1>8. Ingesting'  BY <1>3, <1>6, <1>7 DEF Ingesting
<1>9. Working'  BY <1>1, <1>3, <1>8, IngestGoes
<1> QED  BY <1>1, <1>9, GoStep DEF IngestProbe, idleWorld

LEMMA JobValid ==
    ASSUME TypeOK, work # Idle
    PROVE  /\ Valid(Job) /\ DOMAIN work = WorkFields /\ work.cost \in Nat /\ work.charged \in Nat
           /\ work.spec \in BOOLEAN /\ work.parses \in BOOLEAN
           /\ Job.kind = "ingest" => Job.of \in Sources
           /\ Job.kind = "transcribe" => Job.of \in DOMAIN db.contents
           /\ Job.kind = "extract" => Job.of \in DOMAIN db.transcripts
           /\ Job.kind = "backtest" => Job.of \in Keys
           /\ Job.kind = "overfitting" => Job.of \in DOMAIN db.backtests
  BY DEF TypeOK, Valid, Job

\* A file of a source is written.
LEMMA FileWritten ==
    ASSUME disk \in Files, db' = db, NEW s \in Sources, NEW mark \in Marks \ {"none"},
           \/ disk' = [disk EXCEPT !.audio[s] = mark]
           \/ disk' = [disk EXCEPT !.ingest[s] = mark]
           \/ disk' = [disk EXCEPT !.transcribe[s] = mark]
    PROVE  disk' \in Files /\ Kept
<1>1. \A t : Longer(t, t)  BY DEF Longer
<1>2. disk' \in Files
  BY DEF Files
<1>3. \A r \in Sources : /\ disk.audio[r] # "none" => disk'.audio[r] # "none"
                         /\ disk.ingest[r] # "none" => disk'.ingest[r] # "none"
  BY DEF Files
<1> QED  BY <1>1, <1>2, <1>3 DEF Kept

LEMMA IngestFetched == ASSUME IInv, IngestFetch  PROVE IInv'
<1>1. TypeOK /\ RowsOK /\ CacheOK(market) /\ Settled  BY DEF IInv
<1>2. work # Idle /\ Job.kind = "ingest" /\ Job.of \in Sources
  BY <1>1, JobValid DEF IngestFetch, At
<1>3. UNCHANGED <<now, queue, requests, db, market, spend, paid, charged, lost, faults>>
  BY DEF IngestFetch, idleWorld
<1>4. now \in Nat /\ now' \in Nat /\ now <= now'  BY <1>1, <1>3, ConstantTypes DEF TypeOK
<1>5. ASSUME NEW error \in FetchErrors(Source), Settle(error, 0), UNCHANGED disk  PROVE IInv'
  <2>1. error # "none"  BY DEF FetchErrors
  <2> QED  BY <1>2, <1>3, <1>5, <2>1, FailStep
<1>6. ASSUME Go("cache"), UNCHANGED done, disk' \in Files, Kept,
             Job.of.kind = "youtube" => disk'.audio[Job.of] # "none"
      PROVE  IInv'
  <2>1. GoesOn /\ work' # Idle /\ work'.step = "cache" /\ work'.cost = work.cost
        /\ work'.charged = work.charged
    BY <1>1, <1>2, <1>6, Steps
  <2>2. Ingesting'
    <3>1. work'.job = work.job  BY <2>1 DEF GoesOn
    <3> QED  BY <1>6, <2>1, <3>1 DEF Ingesting, Job
  <2>3. Working'  BY <1>2, <2>1, <2>2, IngestGoes
  <2>4. RowsOK' /\ CacheOK(market)' /\ Settled'
    BY <1>1, <1>3, <1>4, <1>6, SameRows, SameCache, StillSettled
  <2>5. db' \in Tables /\ UNCHANGED db.extractions  BY <1>1, <1>3 DEF TypeOK
  <2> QED  BY <1>2, <1>3, <1>6, <2>1, <2>3, <2>4, <2>5, FreeStep
<1>7. CASE Go("cache") /\ UNCHANGED done /\ Source.kind = "article" /\ UNCHANGED disk
  <2>1. Kept  BY <1>3, <1>7, SameKept
  <2>2. disk' \in Files  BY <1>1, <1>7 DEF TypeOK
  <2> QED  BY <1>6, <1>7, <2>1, <2>2 DEF Source
<1>8. ASSUME Go("cache"), UNCHANGED done, NEW suffix \in {"m4a", "webm"},
             disk' = [disk EXCEPT !.audio[Source] = IF @ = "m4a" THEN @ ELSE suffix]
      PROVE  IInv'
  <2> DEFINE mark == IF disk.audio[Source] = "m4a" THEN "m4a" ELSE suffix
  <2>1. disk' = [disk EXCEPT !.audio[Source] = mark]  BY <1>8
  <2>2. mark \in Marks \ {"none"}  BY DEF Marks
  <2> HIDE DEF mark
  <2>3. disk \in Files /\ Source \in Sources  BY <1>1, <1>2 DEF TypeOK, Source
  <2>4. disk' \in Files /\ Kept  BY <1>3, <2>1, <2>2, <2>3, FileWritten
  <2>5. disk'.audio[Source] = mark  BY <2>1, <2>3 DEF Files
  <2> QED  BY <1>6, <1>8, <2>2, <2>4, <2>5 DEF Source
<1> QED  BY <1>5, <1>7, <1>8 DEF IngestFetch

LEMMA IngestCached == ASSUME IInv, IngestCache  PROVE IInv'
<1>1. TypeOK /\ RowsOK /\ CacheOK(market) /\ Settled /\ Working  BY DEF IInv
<1>2. work # Idle /\ Job.kind = "ingest" /\ Job.of \in Sources /\ work.step = "cache"
  BY <1>1, JobValid DEF IngestCache, At
<1>3. UNCHANGED <<now, queue, requests, db, market, spend, done, paid, charged, lost, faults>>
  BY DEF IngestCache, idleWorld
<1>4. now \in Nat /\ now' \in Nat /\ now <= now'  BY <1>1, <1>3, ConstantTypes DEF TypeOK
<1>5. disk' = [disk EXCEPT !.ingest[Job.of] = "whole"] /\ Go("save")
  BY DEF IngestCache, Source
<1>6. disk' \in Files /\ Kept
  <2>1. disk \in Files /\ "whole" \in Marks \ {"none"}  BY <1>1 DEF TypeOK, Marks
  <2> QED  BY <1>2, <1>3, <1>5, <2>1, FileWritten
<1>7. GoesOn /\ work' # Idle /\ work'.step = "save" /\ work'.cost = work.cost
      /\ work'.charged = work.charged
  BY <1>1, <1>2, <1>5, Steps
<1>8. Ingesting'
  <2>1. work'.job = work.job  BY <1>7 DEF GoesOn
  <2>2. disk'.ingest[Job.of] = "whole" /\ disk'.audio = disk.audio
    BY <1>1, <1>2, <1>5 DEF TypeOK, Files
  <2>3. Job.of.kind = "youtube" => disk.audio[Job.of] # "none"  BY <1>1, <1>2 DEF Working, Ingesting
  <2> QED  BY <1>7, <2>1, <2>2, <2>3 DEF Ingesting, Fetched, Job
<1>9. Working'  BY <1>2, <1>7, <1>8, IngestGoes
<1>10. RowsOK' /\ CacheOK(market)' /\ Settled'
  BY <1>1, <1>3, <1>4, <1>6, SameRows, SameCache, StillSettled
<1>11. db' \in Tables /\ UNCHANGED db.extractions  BY <1>1, <1>3 DEF TypeOK
<1> QED  BY <1>2, <1>3, <1>6, <1>7, <1>9, <1>10, <1>11, FreeStep

LEMMA ContentSaved == ASSUME IInv, SaveContent  PROVE IInv'
<1>1. TypeOK /\ RowsOK /\ CacheOK(market) /\ Settled /\ Working  BY DEF IInv
<1>2. work # Idle /\ Job.kind = "ingest" /\ Job.of \in Sources /\ work.step = "save"
      /\ DOMAIN work = WorkFields
  BY <1>1, JobValid DEF SaveContent, At
<1>3. UNCHANGED <<now, queue, requests, disk, market, spend, paid, charged, lost, faults>>
  BY DEF SaveContent, idleWorld
<1>4. now \in Nat /\ now' \in Nat /\ now <= now'  BY <1>1, <1>3, ConstantTypes DEF TypeOK
<1>5. PICK j, new : j = Job /\ new = Len(db.contents) + 1  OBVIOUS
<1>6. db \in Tables /\ disk' \in Files  BY <1>1, <1>3 DEF TypeOK
<1>7. /\ db' \in Tables /\ db'.contents = Append(db.contents, j.of) /\ Kept
      /\ UNCHANGED <<db.transcripts, db.extractions, db.backtests, db.analyses>>
  <2>1. Save("contents", Job.of)  BY DEF SaveContent, Source
  <2> QED  BY <1>2, <1>3, <1>5, <1>6, <2>1, Saved
<1>8. new \in DOMAIN db'.contents /\ db'.contents[new] = j.of
  BY <1>2, <1>5, <1>6, <1>7, Rows, RowAppended
<1>9. RowsOK' /\ CacheOK(market)'  BY <1>1, <1>3, <1>4, <1>7, SameRows, SameCache
<1>10. Fetched(j.of)'
  <2>1. Fetched(j.of)  BY <1>1, <1>2, <1>5 DEF Working, Ingesting
  <2> QED  BY <1>3, <2>1 DEF Fetched
<1>11. CASE j.of.kind = "youtube" /\ Settle("none", Len(db.contents) + 1)
  <2> DEFINE d == [job |-> j, answer |-> "finished", id |-> new]
  <2>1. d.job = j /\ d.id = new /\ j.kind = "ingest" /\ j.of \in Sources  BY <1>2, <1>5
  <2> HIDE DEF d
  <2>2. Usable(d)'  BY <1>8, <1>10, <1>11, <2>1 DEF Usable
  <2>3. Settle("none", new)  BY <1>5, <1>11
  <2> QED  BY <1>2, <1>3, <1>5, <1>6, <1>7, <1>9, <2>2, <2>3, EndStep DEF d
<1>12. CASE /\ j.of.kind # "youtube" /\ UNCHANGED done
            /\ work' = [work EXCEPT !.step = "transcript", !.content = Len(db.contents) + 1]
  <2> DEFINE once == [work EXCEPT !.step = "transcript"]
  <2>1. work' = [once EXCEPT !.content = new]  BY <1>5, <1>12
  <2>2. DOMAIN once = WorkFields /\ once.step = "transcript" /\ once.job = work.job
        /\ once.cost = work.cost /\ once.charged = work.charged /\ once.spec = work.spec
           /\ once.parses = work.parses
    BY <1>2 DEF WorkFields
  <2> HIDE DEF once
  <2>3. DOMAIN work' = WorkFields /\ work'.step = "transcript" /\ work'.job = work.job
        /\ work'.cost = work.cost /\ work'.charged = work.charged /\ work'.spec = work.spec
           /\ work'.parses = work.parses
        /\ work'.content = new
    BY <2>1, <2>2 DEF WorkFields
  <2>4. work' # Idle
    <3>1. "job" \in DOMAIN work'  BY <2>3 DEF WorkFields
    <3>2. DOMAIN Idle = {"step"}  BY DEF Idle
    <3> QED  BY <3>1, <3>2
  <2>5. GoesOn  BY <1>1, <1>2, <2>3, JobValid DEF GoesOn
  <2>6. Ingesting'  BY <1>5, <1>8, <1>10, <1>12, <2>3 DEF Ingesting, Job
  <2>7. Working'  BY <1>2, <2>3, <2>4, <2>5, <2>6, IngestGoes
  <2>8. Settled'  BY <1>1, <1>7, <1>12, StillSettled
  <2> QED  BY <1>2, <1>3, <1>6, <1>7, <1>9, <2>3, <2>5, <2>7, <2>8, FreeStep
<1> QED  BY <1>5, <1>11, <1>12 DEF SaveContent, Source

LEMMA TextSaved == ASSUME IInv, SaveTextTranscript  PROVE IInv'
<1>1. TypeOK /\ RowsOK /\ CacheOK(market) /\ Settled /\ Working  BY DEF IInv
<1>2. work # Idle /\ Job.kind = "ingest" /\ Job.of \in Sources /\ work.step = "transcript"
  BY <1>1, JobValid DEF SaveTextTranscript, At
<1>3. UNCHANGED <<now, queue, requests, disk, market, spend, paid, charged, lost, faults>>
  BY DEF SaveTextTranscript, idleWorld
<1>4. now \in Nat /\ now' \in Nat /\ now <= now'  BY <1>1, <1>3, ConstantTypes DEF TypeOK
<1>5. PICK j, c : j = Job /\ c = work.content  OBVIOUS
<1>6. db \in Tables /\ disk' \in Files  BY <1>1, <1>3 DEF TypeOK
<1>7. c \in DOMAIN db.contents /\ db.contents[c] = j.of /\ j.of.kind # "youtube" /\ Fetched(j.of)
  BY <1>1, <1>2, <1>5 DEF Working, Ingesting
<1>8. c \in Nat  BY <1>6, <1>7, Rows, LenProperties
<1>9. /\ db' \in Tables /\ db'.transcripts = Append(db.transcripts, c) /\ Kept
      /\ UNCHANGED <<db.contents, db.extractions, db.backtests, db.analyses>>
  <2>1. Save("transcripts", c)  BY <1>5 DEF SaveTextTranscript, NewTranscript
  <2> QED  BY <1>3, <1>6, <1>8, <2>1, Saved
<1>10. \E t \in DOMAIN db'.transcripts : db'.transcripts[t] = c
  BY <1>6, <1>8, <1>9, Rows, RowAppended
<1>11. RowsOK' /\ CacheOK(market)'  BY <1>1, <1>3, <1>4, <1>9, SameRows, SameCache
<1> DEFINE d == [job |-> j, answer |-> "finished", id |-> c]
<1>12. d.job = j /\ d.id = c /\ j.kind = "ingest" /\ j.of \in Sources  BY <1>2, <1>5
<1> HIDE DEF d
<1>13. Usable(d)'
  <2>1. TranscriptsOf(c)' # {}  BY <1>10 DEF TranscriptsOf
  <2>2. Fetched(j.of)'  BY <1>3, <1>7 DEF Fetched
  <2> QED  BY <1>7, <1>9, <1>12, <2>1, <2>2 DEF Usable
<1>14. Settle("none", c)  BY <1>5 DEF SaveTextTranscript
<1> QED  BY <1>2, <1>3, <1>5, <1>6, <1>9, <1>11, <1>13, <1>14, EndStep DEF d

-----------------------------------------------------------------------------
(* Transcribe *)

LEMMA TranscribeGoes ==
    ASSUME IInv, work # Idle, Job.kind = "transcribe", GoesOn, work' # Idle, work'.cost = work.cost /\ work'.charged = work.charged,
           work'.step \in {"probe", "whisper", "cache", "save"}
    PROVE  Working'
<1>1. work.cost = 0 /\ work.charged = 0  BY DEF IInv, Working
<1>2. (Job.kind = "transcribe")'  BY DEF GoesOn, Job
<1> QED  BY <1>1, <1>2 DEF Working

LEMMA TranscribeProbed == ASSUME IInv, TranscribeProbe  PROVE IInv'
<1> DEFINE step == IF disk.transcribe[CacheKey] = "whole" THEN "save" ELSE "whisper"
<1>1. work # Idle /\ Job.kind = "transcribe" /\ Go(step) /\ TypeOK
  BY DEF TranscribeProbe, At, IInv
<1>2. step \in {"save", "whisper"}  OBVIOUS
<1> HIDE DEF step
<1>3. GoesOn /\ work' # Idle /\ work'.step = step /\ work'.cost = work.cost
      /\ work'.charged = work.charged  BY <1>1, Steps
<1>4. Working'  BY <1>1, <1>2, <1>3, TranscribeGoes
<1> QED  BY <1>1, <1>4, GoStep DEF TranscribeProbe, idleWorld

LEMMA Transcribed == ASSUME IInv, Transcribe  PROVE IInv'
<1>1. work # Idle /\ Job.kind = "transcribe" /\ TypeOK  BY DEF Transcribe, At, IInv
<1>2. ASSUME Go("cache"), UNCHANGED done  PROVE IInv'
  <2>1. GoesOn /\ work' # Idle /\ work'.step = "cache" /\ work'.cost = work.cost
        /\ work'.charged = work.charged
    BY <1>1, <1>2, Steps
  <2>2. Working'  BY <1>1, <2>1, TranscribeGoes
  <2> QED  BY <1>1, <1>2, <2>2, GoStep DEF Transcribe, idleWorld
<1>3. ASSUME Settle("transcription_error", 0)  PROVE IInv'
  BY <1>1, <1>3, FailStep DEF Transcribe, idleWorld
<1> QED  BY <1>2, <1>3 DEF Transcribe

LEMMA TranscribeCached == ASSUME IInv, TranscribeCache  PROVE IInv'
<1>1. TypeOK /\ RowsOK /\ CacheOK(market) /\ Settled /\ Working  BY DEF IInv
<1>2. work # Idle /\ Job.kind = "transcribe" /\ Job.of \in DOMAIN db.contents
  BY <1>1, JobValid DEF TranscribeCache, At
<1>3. UNCHANGED <<now, queue, requests, db, market, spend, done, paid, charged, lost, faults>>
  BY DEF TranscribeCache, idleWorld
<1>4. now \in Nat /\ now' \in Nat /\ now <= now'  BY <1>1, <1>3, ConstantTypes DEF TypeOK
<1>5. CacheKey \in Sources
  <2>1. db.contents \in Seq(Sources)  BY <1>1, Rows DEF TypeOK
  <2>2. CacheKey = db.contents[Job.of]  BY <1>2 DEF CacheKey
  <2> QED  BY <1>2, <2>1, <2>2, LenProperties, ElementOfSeq
<1>6. disk' = [disk EXCEPT !.transcribe[CacheKey] = "whole"] /\ Go("save")
  BY DEF TranscribeCache
<1>7. disk' \in Files /\ Kept
  <2>1. disk \in Files /\ "whole" \in Marks \ {"none"}  BY <1>1 DEF TypeOK, Marks
  <2> QED  BY <1>3, <1>5, <1>6, <2>1, FileWritten
<1>8. GoesOn /\ work' # Idle /\ work'.step = "save" /\ work'.cost = work.cost
      /\ work'.charged = work.charged
  BY <1>1, <1>2, <1>6, Steps
<1>9. Working'  BY <1>2, <1>8, TranscribeGoes
<1>10. RowsOK' /\ CacheOK(market)' /\ Settled'
  BY <1>1, <1>3, <1>4, <1>7, SameRows, SameCache, StillSettled
<1>11. db' \in Tables /\ UNCHANGED db.extractions  BY <1>1, <1>3 DEF TypeOK
<1> QED  BY <1>2, <1>3, <1>7, <1>8, <1>9, <1>10, <1>11, FreeStep

LEMMA TranscriptSaved == ASSUME IInv, SaveTranscript  PROVE IInv'
<1>1. TypeOK /\ RowsOK /\ CacheOK(market)  BY DEF IInv
<1>2. work # Idle /\ Job.kind = "transcribe" /\ Job.of \in DOMAIN db.contents
  BY <1>1, JobValid DEF SaveTranscript, At
<1>3. UNCHANGED <<now, queue, requests, disk, market, spend, paid, charged, lost, faults>>
  BY DEF SaveTranscript, idleWorld
<1>4. now \in Nat /\ now' \in Nat /\ now <= now'  BY <1>1, <1>3, ConstantTypes DEF TypeOK
<1>5. PICK j, new : j = Job /\ new = Len(db.transcripts) + 1  OBVIOUS
<1>6. db \in Tables /\ disk' \in Files  BY <1>1, <1>3 DEF TypeOK
<1>7. j.of \in Nat  BY <1>2, <1>5, <1>6, Rows, LenProperties
<1>8. /\ db' \in Tables /\ db'.transcripts = Append(db.transcripts, j.of) /\ Kept
      /\ UNCHANGED <<db.contents, db.extractions, db.backtests, db.analyses>>
  <2>1. Save("transcripts", j.of)  BY <1>5 DEF SaveTranscript, NewTranscript
  <2> QED  BY <1>3, <1>6, <1>7, <2>1, Saved
<1>9. new \in DOMAIN db'.transcripts /\ db'.transcripts[new] = j.of
  BY <1>5, <1>6, <1>7, <1>8, Rows, RowAppended
<1>10. RowsOK' /\ CacheOK(market)'  BY <1>1, <1>3, <1>4, <1>8, SameRows, SameCache
<1> DEFINE d == [job |-> j, answer |-> "finished", id |-> new]
<1>11. d.job = j /\ d.id = new /\ j.kind = "transcribe"  BY <1>2, <1>5
<1> HIDE DEF d
<1>12. Usable(d)'  BY <1>9, <1>11 DEF Usable
<1>13. Settle("none", new)  BY <1>5 DEF SaveTranscript
<1> QED  BY <1>2, <1>3, <1>5, <1>6, <1>8, <1>10, <1>12, <1>13, EndStep DEF d

-----------------------------------------------------------------------------
(* Extract *)

\* A call of the model, or the look for a row before it.
LEMMA PayStep ==
    ASSUME IInv, work # Idle, Job.kind = "extract", work.step # "record",
           UNCHANGED <<now, queue, requests, db, disk, market, spend, charged, faults>>,
           work' = Idle \/ (GoesOn /\ work' # Idle /\ Extracting' /\ work'.step # "record"),
           lost' \in Nat, paid' = Charges + lost' + Held', Settled'
    PROVE  IInv'
<1>1. TypeOK /\ RowsOK /\ CacheOK(market) /\ Accounted  BY DEF IInv
<1>2. Kept  BY SameKept
<1>3. Held' \in Nat  BY DEF Held, GoesOn
<1>4. Charges \in Nat  BY <1>1, SumTypes
<1>5. paid' \in Nat
  <2>1. PICK c, k, l \in Nat : c = Charges /\ k = lost' /\ l = Held'  BY <1>3, <1>4
  <2>2. paid' = c + k + l  BY <2>1
  <2> QED  BY <2>2
<1>6. TypeOK'
  <2>1. /\ db' \in Tables /\ disk' \in Files /\ spend' \in [Days -> Nat] /\ faults' \in Nat
        /\ charged' \in Seq(Nat)
    BY <1>1 DEF TypeOK
  <2> QED  BY <1>1, <1>2, <1>5, <2>1, WorkerTypes
<1>7. now \in Nat /\ now' \in Nat /\ now <= now'  BY <1>1, ConstantTypes DEF TypeOK
<1>8. RowsOK' /\ CacheOK(market)'  BY <1>1, <1>7, SameRows, SameCache
<1>9. Working'
  <2>1. work' # Idle => (Job.kind = "extract")'  BY DEF GoesOn, Job
  <2> QED  BY <2>1 DEF Working
<1>10. Accounted'
  <2>1. Costs' = Costs /\ Charges' = Charges /\ Booked' = Booked  BY DEF Costs, Charges, Booked
  <2>2. Unrecorded = 0 /\ Unrecorded' = 0  BY DEF Unrecorded
  <2> QED  BY <1>1, <2>1, <2>2 DEF Accounted
<1> QED  BY <1>6, <1>8, <1>9, <1>10 DEF IInv

\* A job that has looked for the row and has not yet stored it.
Calling == work # Idle /\ Job.kind = "extract" /\ work.step \in {"call", "retry"}

LEMMA CallTypes ==
    ASSUME IInv, Calling
    PROVE  /\ ExtractionsOf(Job.of) = {} /\ DOMAIN work = WorkFields /\ CallMills \in Nat
           /\ paid \in Nat /\ lost \in Nat /\ Charges \in Nat /\ Held \in Nat /\ work.parses
           /\ paid = Charges + lost + Held
           /\ work.step = "call" => Held = 0
           /\ work.step = "retry" => Held = work.charged /\ work.charged = work.cost
           /\ work.spec \in BOOLEAN /\ work.parses \in BOOLEAN /\ work.cost \in Nat
              /\ work.charged \in Nat
<1>1. TypeOK /\ Working /\ Accounted  BY DEF IInv
<1>2. /\ ExtractionsOf(Job.of) = {} /\ work.parses
      /\ work.step = "retry" => work.charged = work.cost
  BY <1>1 DEF Working, Extracting, Calling
<1>3. Charges \in Nat /\ Held \in Nat  BY <1>1, SumTypes
<1>4. CallMills \in Nat  BY ConstantTypes
<1>5. paid = Charges + lost + Held  BY <1>1 DEF Accounted
<1> QED  BY <1>1, <1>2, <1>3, <1>4, <1>5, JobValid DEF TypeOK, Held, Calling

LEMMA CallPaid ==
    ASSUME IInv, Calling, NEW charge \in Nat, paid' = paid + (charge - Held),
           UNCHANGED <<now, queue, requests, db, disk, market, spend, charged, faults, done, lost>>,
           GoesOn, work' # Idle, work'.step \in {"retry", "save"}, work'.charged = charge,
           work'.step = "retry" => work'.parses /\ charge = work'.cost,
           work'.step = "save" => Unseen(charge, work') /\ (work'.spec => work'.parses)
    PROVE  IInv'
<1>1. work # Idle /\ Job.kind = "extract" /\ work.step # "record"  BY DEF Calling
<1>2. Extracting'
  <2>1. ExtractionsOf(Job.of) = {}  BY CallTypes
  <2>2. Job' = Job  BY DEF GoesOn, Job
  <2>3. ExtractionsOf(Job.of)' = ExtractionsOf(Job.of)  BY <2>2 DEF ExtractionsOf
  <2> QED  BY <2>1, <2>3 DEF Extracting, Unseen
<1>3. Held' = charge  BY DEF Held
<1>4. lost' \in Nat /\ paid' = Charges + lost' + Held'  BY <1>3, CallTypes
<1>5. Settled'
  <2>1. Settled /\ Kept  BY SameKept DEF IInv
  <2> QED  BY <2>1, StillSettled
<1> QED  BY <1>1, <1>2, <1>4, <1>5, PayStep

LEMMA CallLost ==
    ASSUME IInv, Calling, NEW mills \in Nat, Lose(mills), paid' = paid + (mills - Held),
           UNCHANGED <<now, queue, requests, db, disk, market, spend, charged, faults>>
    PROVE  IInv'
<1>1. work # Idle /\ Job.kind = "extract" /\ work.step # "record"  BY DEF Calling
<1>2. work' = Idle /\ lost' = lost + mills  BY DEF Lose, Settle
<1>3. Held' = 0  BY <1>2 DEF Held
<1>4. lost' \in Nat /\ paid' = Charges + lost' + Held'  BY <1>2, <1>3, CallTypes
<1>5. Settled'
  <2>1. Settled /\ Kept  BY SameKept DEF IInv
  <2>2. PICK j : j = Job  OBVIOUS
  <2>3. Settle("extraction_error", 0)  BY DEF Lose
  <2> QED  BY <2>1, <2>2, <2>3, JobSettled
<1> QED  BY <1>1, <1>2, <1>4, <1>5, PayStep

LEMMA AnswerStep ==
    ASSUME IInv, Calling, NEW cost \in Nat, Answered(cost, cost), paid' = paid + (cost - Held),
           UNCHANGED <<now, queue, requests, db, disk, market, spend, charged, faults>>
    PROVE  IInv'
<1>1. PICK spec \in BOOLEAN :
          work' = [work EXCEPT !.step = "save", !.spec = spec, !.cost = cost, !.charged = cost]
  BY DEF Answered
<1>2. DOMAIN work = WorkFields /\ work.parses  BY CallTypes
<1>3. /\ DOMAIN work' = WorkFields /\ work'.step = "save" /\ work'.cost = cost
      /\ work'.charged = cost /\ work'.spec = spec /\ work'.parses = work.parses
      /\ work'.job = work.job
  BY <1>1, <1>2 DEF WorkFields
<1>4. GoesOn  BY <1>2, <1>3, CallTypes DEF GoesOn
<1>5. work' # Idle
  <2>1. "job" \in DOMAIN work'  BY <1>3 DEF WorkFields
  <2>2. DOMAIN Idle = {"step"}  BY DEF Idle
  <2> QED  BY <2>1, <2>2
<1>6. Unseen(cost, work') /\ work'.parses  BY <1>2, <1>3 DEF Unseen
<1> QED  BY <1>3, <1>4, <1>5, <1>6, CallPaid DEF Answered

LEMMA DowngradeStep ==
    ASSUME IInv, Calling, NEW cost \in Nat, NEW charge \in Nat, charge - cost \in {0, CallMills},
           Downgrade(cost, charge), paid' = paid + (charge - Held),
           UNCHANGED <<now, queue, requests, db, disk, market, spend, charged, faults>>
    PROVE  IInv'
<1>1. CASE Lose(charge)  BY <1>1, CallLost
<1>2. ASSUME UNCHANGED <<done, lost>>, NEW fits \in BOOLEAN,
             work' = [work EXCEPT !.step = "save", !.spec = FALSE, !.parses = fits,
                                  !.cost = cost, !.charged = charge]
      PROVE  IInv'
  <2>1. DOMAIN work = WorkFields  BY CallTypes
  <2>2. /\ DOMAIN work' = WorkFields /\ work'.step = "save" /\ work'.cost = cost
        /\ work'.charged = charge /\ work'.spec = FALSE /\ work'.parses = fits
        /\ work'.job = work.job
    BY <1>2, <2>1 DEF WorkFields
  <2>3. GoesOn  BY <2>2 DEF GoesOn
  <2>4. work' # Idle
    <3>1. "job" \in DOMAIN work'  BY <2>2 DEF WorkFields
    <3>2. DOMAIN Idle = {"step"}  BY DEF Idle
    <3> QED  BY <3>1, <3>2
  <2>5. Unseen(charge, work') /\ ~work'.spec  BY <2>2 DEF Unseen
  <2> QED  BY <1>2, <2>2, <2>3, <2>4, <2>5, CallPaid
<1> QED  BY <1>1, <1>2 DEF Downgrade

LEMMA Called ==
    ASSUME IInv, TooExpensive \/ FirstCallFails \/ FirstCallAnswers \/ RetryCall
    PROVE  IInv'
<1>1. Calling  BY DEF Calling, TooExpensive, FirstCallFails, FirstCallAnswers, RetryCall, At
<1>2. UNCHANGED <<now, queue, requests, db, disk, market, spend, charged, faults>>
  BY DEF TooExpensive, FirstCallFails, FirstCallAnswers, RetryCall, idleWorld
<1>3. /\ CallMills \in Nat /\ paid \in Nat /\ lost \in Nat /\ Held \in Nat /\ work.cost \in Nat /\ work.parses
      /\ work.step = "call" => Held = 0
      /\ work.step = "retry" => Held = work.cost /\ work.charged = work.cost
  BY <1>1, CallTypes
<1>4. CASE TooExpensive
  <2>1. Lose(0) /\ paid' = paid + (0 - Held)  BY <1>3, <1>4 DEF TooExpensive, At
  <2> QED  BY <1>1, <1>2, <2>1, CallLost
<1>5. CASE FirstCallFails
  <2>1. PICK charge \in {0, CallMills} : Lose(charge) /\ paid' = paid + charge
    BY <1>5 DEF FirstCallFails
  <2>2. charge \in Nat /\ paid' = paid + (charge - Held)
    BY <1>3, <1>5, <2>1 DEF FirstCallFails, At
  <2> QED  BY <1>1, <1>2, <2>1, <2>2, CallLost
<1>6. CASE FirstCallAnswers
  <2>1. paid' = paid + (CallMills - Held)  BY <1>3, <1>6 DEF FirstCallAnswers, At
  <2>2. CASE Answered(CallMills, CallMills)  BY <1>1, <1>2, <1>3, <2>1, <2>2, AnswerStep
  <2>3. CASE /\ work' = [work EXCEPT !.step = "retry", !.cost = CallMills, !.charged = CallMills]
             /\ UNCHANGED <<done, lost>>
    <3>1. DOMAIN work = WorkFields /\ work.spec \in BOOLEAN /\ work.parses \in BOOLEAN
      BY <1>1, CallTypes
    <3>2. /\ DOMAIN work' = WorkFields /\ work'.step = "retry" /\ work'.cost = CallMills
          /\ work'.charged = CallMills
          /\ work'.spec = work.spec /\ work'.parses = work.parses /\ work'.job = work.job
      BY <2>3, <3>1 DEF WorkFields
    <3>3. GoesOn  BY <1>3, <3>1, <3>2 DEF GoesOn
    <3>4. work' # Idle
      <4>1. "job" \in DOMAIN work'  BY <3>2 DEF WorkFields
      <4>2. DOMAIN Idle = {"step"}  BY DEF Idle
      <4> QED  BY <4>1, <4>2
    <3> QED  BY <1>1, <1>2, <1>3, <2>1, <2>3, <3>2, <3>3, <3>4, CallPaid
  <2> QED  BY <1>6, <2>2, <2>3 DEF FirstCallAnswers
<1>7. CASE RetryCall
  <2>1. Held = work.cost /\ work.charged = work.cost  BY <1>3, <1>7 DEF RetryCall, At
  <2>2. CASE RetryFails
    <3>1. PICK charge \in {0, CallMills} :
              Downgrade(work.cost, work.charged + charge) /\ paid' = paid + charge
      BY <2>2 DEF RetryFails
    <3> DEFINE sum == work.charged + charge
    <3>2. /\ sum \in Nat /\ sum - work.cost \in {0, CallMills} /\ paid' = paid + (sum - Held)
          /\ Downgrade(work.cost, sum)
      BY <1>3, <2>1, <3>1
    <3> HIDE DEF sum
    <3> QED  BY <1>1, <1>2, <1>3, <3>2, DowngradeStep
  <2>3. CASE RetryAnswers
    <3> DEFINE cost == work.cost + CallMills
               sum == work.charged + CallMills
    <3>1. cost \in Nat /\ cost - cost \in {0, CallMills} /\ sum = cost  BY <1>3, <2>1
    <3>2. paid' = paid + (cost - Held)  BY <1>3, <2>1, <2>3 DEF RetryAnswers
    <3>3. Lose(sum) \/ Downgrade(cost, sum) \/ Answered(cost, sum)  BY <2>3 DEF RetryAnswers
    <3> HIDE DEF cost, sum
    <3>4. Lose(cost) \/ Downgrade(cost, cost) \/ Answered(cost, cost)  BY <3>1, <3>3
    <3> QED  BY <1>1, <1>2, <3>1, <3>2, <3>4, CallLost, DowngradeStep, AnswerStep
  <2> QED  BY <1>7, <2>2, <2>3 DEF RetryCall
<1> QED  BY <1>4, <1>5, <1>6, <1>7

LEMMA ExtractProbed == ASSUME IInv, ExtractProbe  PROVE IInv'
<1>1. TypeOK /\ Settled /\ Accounted  BY DEF IInv
<1>2. work # Idle /\ Job.kind = "extract" /\ work.step = "probe"  BY DEF ExtractProbe, At
<1>3. UNCHANGED <<now, queue, requests, db, disk, market, spend, paid, charged, lost, faults>>
  BY DEF ExtractProbe, idleWorld
<1>4. Kept  BY <1>3, SameKept
<1>5. Held = 0  BY <1>2 DEF Held
<1>6. lost' \in Nat /\ paid' = Charges + lost' + 0
  <2>1. lost \in Nat /\ paid = Charges + lost + 0  BY <1>1, <1>5 DEF TypeOK, Accounted
  <2> QED  BY <1>3, <2>1
<1>7. CASE ExtractionsOf(Job.of) = {} /\ Go("call") /\ UNCHANGED done
  <2>1. GoesOn /\ work' # Idle /\ work'.step = "call" /\ work'.parses = work.parses
    BY <1>1, <1>2, <1>7, Steps
  <2>2. Extracting'
    <3>1. work'.job = work.job  BY <2>1 DEF GoesOn
    <3>2. ExtractionsOf(Job.of)' = {}  BY <1>3, <1>7, <3>1 DEF ExtractionsOf, Job
    <3>3. work.parses  BY <1>2 DEF IInv, Working, Extracting
    <3> QED  BY <2>1, <3>2, <3>3 DEF Extracting
  <2>3. Held' = 0  BY <2>1 DEF Held
  <2>4. Settled'  BY <1>1, <1>4, <1>7, StillSettled
  <2> QED  BY <1>2, <1>3, <1>6, <2>1, <2>2, <2>3, <2>4, PayStep
<1>8. ASSUME NEW error, NEW id, Settle(error, id), NEW j, j = Job,
             IF error = "none" THEN id \in ExtractionsOf(j.of) /\ db.extractions[id].parses
             ELSE id = 0
      PROVE  IInv'
  <2>1. work' = Idle  BY <1>8 DEF Settle
  <2>2. Held' = 0  BY <2>1 DEF Held
  <2> DEFINE d == [job |-> j, answer |-> "finished", id |-> id]
  <2>3. d.job = j /\ d.id = id /\ j.kind = "extract"  BY <1>2, <1>8
  <2> HIDE DEF d
  <2>4. id \in ExtractionsOf(j.of) /\ db.extractions[id].parses => Usable(d)'
    BY <1>3, <2>3 DEF Usable, ExtractionsOf, Readable
  <2>5. IF error = "none" THEN Usable(d)' ELSE id = 0  BY <1>8, <2>4
  <2>6. Settled'  BY <1>1, <1>4, <1>8, <2>5, JobSettled DEF d
  <2> QED  BY <1>2, <1>3, <1>6, <2>1, <2>2, <2>6, PayStep
<1>9. CASE ExtractionsOf(Job.of) # {}
  <2> DEFINE latest == Max(ExtractionsOf(Job.of))
  <2>1. latest \in ExtractionsOf(Job.of)
    <3>1. db.extractions \in Seq(ExtractionRows)  BY <1>1, Rows DEF TypeOK
    <3>2. ExtractionsOf(Job.of) \subseteq DOMAIN db.extractions  BY DEF ExtractionsOf
    <3> QED  BY <1>9, <3>1, <3>2, LatestIsOne
  <2>2. \/ Settle("none", latest) /\ db.extractions[latest].parses
        \/ Settle("validation_error", 0)
    BY <1>9 DEF ExtractProbe
  <2> HIDE DEF latest
  <2>3. PICK j : j = Job  OBVIOUS
  <2>4. latest \in ExtractionsOf(j.of)  BY <2>1, <2>3
  <2>5. CASE Settle("none", latest) /\ db.extractions[latest].parses  BY <1>8, <2>3, <2>4, <2>5
  <2>6. CASE Settle("validation_error", 0)  BY <1>8, <2>3, <2>6
  <2> QED  BY <2>2, <2>5, <2>6
<1> QED  BY <1>7, <1>9 DEF ExtractProbe

\* Sequences with one domain have one length.
LEMMA SameLength ==
    ASSUME NEW S, NEW T, NEW s \in Seq(S), NEW t \in Seq(T), DOMAIN s = DOMAIN t
    PROVE  Len(s) = Len(t)
<1>1. PICK m, n \in Nat : m = Len(s) /\ n = Len(t) /\ DOMAIN s = 1..m /\ DOMAIN t = 1..n
  BY LenProperties
<1>2. 1..m = 1..n  BY <1>1
<1>3. \A i \in Nat : i \in 1..m <=> i \in 1..n  BY <1>2
<1>4. ~(m < n)
  <2>1. n \in 1..n <=> n \in 1..m  BY <1>3
  <2> QED  BY <2>1
<1>5. ~(n < m)
  <2>1. m \in 1..n <=> m \in 1..m  BY <1>3
  <2> QED  BY <2>1
<1>6. m = n  BY <1>4, <1>5
<1> QED  BY <1>1, <1>6

LEMMA ExtractionSaved == ASSUME IInv, SaveExtraction  PROVE IInv'
<1>1. TypeOK /\ RowsOK /\ CacheOK(market) /\ Settled /\ Accounted /\ Working  BY DEF IInv
<1>2. work # Idle /\ Job.kind = "extract" /\ work.step = "save" /\ Job.of \in DOMAIN db.transcripts
      /\ work.spec \in BOOLEAN /\ work.parses \in BOOLEAN /\ work.cost \in Nat
      /\ work.charged \in Nat
  BY <1>1, JobValid DEF SaveExtraction, At
<1>3. UNCHANGED <<now, queue, requests, disk, market, spend, done, paid, lost, faults>>
  BY DEF SaveExtraction, idleWorld
<1>4. now \in Nat /\ now' \in Nat /\ now <= now'  BY <1>1, <1>3, ConstantTypes DEF TypeOK
<1>5. db \in Tables /\ disk' \in Files  BY <1>1, <1>3 DEF TypeOK
<1>6. PICK row, new : /\ row = [of |-> Job.of, spec |-> work.spec, parses |-> work.parses, cost |-> work.cost]
                      /\ new = Len(db.extractions) + 1
  OBVIOUS
<1>7. Job.of \in Nat  BY <1>2, <1>5, Rows, LenProperties
<1>8. /\ row \in ExtractionRows /\ row.of = Job.of /\ row.cost = work.cost
      /\ row.spec = work.spec /\ row.parses = work.parses
  BY <1>2, <1>6, <1>7 DEF ExtractionRows
<1>9. /\ db' \in Tables /\ db'.extractions = Append(db.extractions, row) /\ Kept
      /\ UNCHANGED <<db.contents, db.transcripts, db.backtests, db.analyses>>
  <2>1. Save("extractions", row)  BY <1>6 DEF SaveExtraction, NewExtraction
  <2> QED  BY <1>3, <1>5, <1>8, <2>1, Saved
<1>10. /\ DOMAIN db'.extractions = DOMAIN db.extractions \cup {new} /\ new \notin DOMAIN db.extractions
       /\ \A e \in DOMAIN db.extractions : db'.extractions[e] = db.extractions[e]
       /\ db'.extractions[new] = row
  BY <1>5, <1>6, <1>8, <1>9, Rows, RowAppended DEF Longer
<1>11. Go("record")  BY DEF SaveExtraction
<1>12. GoesOn /\ work' # Idle /\ work'.step = "record" /\ work'.cost = work.cost
       /\ work'.charged = work.charged
  BY <1>1, <1>2, <1>11, Steps
<1>18. charged' = Append(charged, work.charged)  BY DEF SaveExtraction
<1>19. TypeOK'
  <2>2. charged' \in Seq(Nat)  BY <1>1, <1>2, <1>18, ChargeAdded DEF TypeOK
  <2>1. spend' \in [Days -> Nat] /\ paid' \in Nat /\ charged' \in Seq(Nat) /\ lost' \in Nat
        /\ faults' \in Nat
    BY <1>1, <1>3, <2>2 DEF TypeOK
  <2> QED  BY <1>1, <1>2, <1>3, <1>5, <1>9, <1>12, <2>1, WorkerTypes
<1>14. RowsOK'
  <2>1. \A e \in DOMAIN db.extractions : db.extractions[e].of # Job.of
    BY <1>1, <1>2 DEF Working, Extracting, ExtractionsOf
  <2>2. \A e, f \in DOMAIN db'.extractions : db'.extractions[e].of = db'.extractions[f].of => e = f
    BY <1>1, <1>8, <1>10, <2>1 DEF RowsOK
  <2>3. (\A b \in DOMAIN db.backtests : Bars(db.backtests[b].bars, db.backtests[b].of.window.from))'
    BY <1>1, <1>4, <1>9, LaterBars DEF RowsOK
  <2> QED  BY <1>1, <1>9, <2>2, <2>3 DEF RowsOK
<1>15. CacheOK(market)' /\ Settled'  BY <1>1, <1>3, <1>4, <1>9, SameCache, StillSettled
<1>16. Working'
  <2>1. work'.job = work.job  BY <1>12 DEF GoesOn
  <2>2. ExtractionsOf(Job.of)' # {}  BY <1>8, <1>10, <2>1 DEF ExtractionsOf, Job
  <2>4. ExtractionsOf(Job.of) = {} /\ (work.spec => work.parses)
    BY <1>1, <1>2 DEF Working, Extracting
  <2>5. \A e \in DOMAIN db'.extractions : db'.extractions[e].of = Job.of => e = new
    BY <1>10, <2>4 DEF ExtractionsOf
  <2>6. \A e \in DOMAIN db'.extractions : db'.extractions[e].of = Job.of => Readable(db'.extractions[e])
    BY <1>8, <1>10, <2>4, <2>5 DEF Readable
  <2>7. \A e \in ExtractionsOf(Job.of)' : Readable(db'.extractions[e])
    BY <2>1, <2>6 DEF ExtractionsOf, Job
  <2>3. Extracting'  BY <1>12, <2>2, <2>7 DEF Extracting, Readable
  <2> QED  BY <1>2, <2>1, <2>3 DEF Working, Job
<1>17. Accounted'
  <2>1. Costs' = Costs + work.cost
    <3>1. db.extractions \in Seq(ExtractionRows)  BY <1>5, Rows
    <3>2. SumFunction(CostColumn(db'.extractions)) = SumFunction(CostColumn(db.extractions)) + work.cost
      BY <1>8, <1>9, <3>1, CostAdded
    <3> QED  BY <3>2 DEF Costs
  <2>2. Charges' = Charges + work.charged  BY <1>1, <1>2, <1>18, ChargeAdded DEF TypeOK, Charges
  <2>3. Held = work.charged /\ Unrecorded = 0  BY <1>2 DEF Held, Unrecorded
  <2>4. Held' = 0 /\ Unrecorded' = work.cost  BY <1>12 DEF Held, Unrecorded
  <2>5. Costs \in Nat /\ SumFunction(spend) \in Nat /\ Charges \in Nat  BY <1>1, SumTypes
  <2>6. paid = Charges + lost + work.charged /\ (faults = 0 => Costs <= 10 * SumFunction(spend))
        /\ lost \in Nat
    BY <1>1, <2>3, <2>5 DEF Accounted, TypeOK
  <2>7. paid' = paid /\ lost' = lost /\ faults' = faults /\ spend' = spend  BY <1>3
  <2>8. paid' = Charges' + lost' + Held'  BY <1>2, <2>2, <2>4, <2>5, <2>6, <2>7
  <2>9. faults' = 0 => Costs' <= 10 * SumFunction(spend') + Unrecorded'
    BY <1>2, <2>1, <2>4, <2>5, <2>6, <2>7
  <2>10. Booked'
    <3>1. Booked /\ Unseen(work.charged, work)  BY <1>1, <1>2 DEF Accounted, Working, Extracting
    <3>2. /\ DOMAIN charged' = DOMAIN charged \cup {new} /\ charged'[new] = work.charged
          /\ \A e \in DOMAIN charged : charged'[e] = charged[e]
      <4>1. charged \in Seq(Nat) /\ db.extractions \in Seq(ExtractionRows)
        BY <1>1, <1>5, Rows DEF TypeOK
      <4>2. Len(charged) = Len(db.extractions)  BY <3>1, <4>1, SameLength DEF Booked
      <4> QED  BY <1>2, <1>6, <1>18, <4>1, <4>2, RowAppended DEF Longer
    <3>3. Unseen(work.charged, row)  BY <1>8, <3>1 DEF Unseen
    <3> QED  BY <1>10, <3>1, <3>2, <3>3 DEF Booked
  <2> QED  BY <2>8, <2>9, <2>10 DEF Accounted
<1> QED  BY <1>19, <1>14, <1>15, <1>16, <1>17 DEF IInv

LEMMA CostRecorded == ASSUME IInv, RecordDailyCost  PROVE IInv'
<1>1. TypeOK /\ RowsOK /\ CacheOK(market) /\ Settled /\ Accounted /\ Working  BY DEF IInv
<1>2. work # Idle /\ Job.kind = "extract" /\ work.step = "record" /\ work.cost \in Nat
  BY <1>1, JobValid DEF RecordDailyCost, At
<1>3. UNCHANGED <<now, queue, requests, db, disk, market, paid, charged, lost>>
  BY DEF RecordDailyCost, idleWorld
<1>4. now \in Nat /\ now' \in Nat /\ now <= now'  BY <1>1, <1>3, ConstantTypes DEF TypeOK
<1>5. db' \in Tables /\ disk' \in Files /\ Kept  BY <1>1, <1>3, SameKept DEF TypeOK
<1>6. PICK j, latest : j = Job /\ latest = Max(ExtractionsOf(Job.of))  OBVIOUS
<1>7. latest \in ExtractionsOf(Job.of)
  <2>1. db.extractions \in Seq(ExtractionRows)  BY <1>1, Rows DEF TypeOK
  <2>2. ExtractionsOf(Job.of) \subseteq DOMAIN db.extractions  BY DEF ExtractionsOf
  <2>3. ExtractionsOf(Job.of) # {}  BY <1>1, <1>2 DEF Working, Extracting
  <2> QED  BY <1>6, <2>1, <2>2, <2>3, LatestIsOne
<1>8. Settled'
  <2> DEFINE d == [job |-> j, answer |-> "finished", id |-> latest]
  <2>1. d.job = j /\ d.id = latest /\ j.kind = "extract"  BY <1>2, <1>6
  <2> HIDE DEF d
  <2>5. \A e \in ExtractionsOf(Job.of) : Readable(db.extractions[e])
    BY <1>1, <1>2 DEF Working, Extracting
  <2>2. /\ latest \in DOMAIN db.extractions /\ db.extractions[latest].of = j.of
        /\ Readable(db.extractions[latest])
    BY <1>6, <1>7, <2>5 DEF ExtractionsOf
  <2>3. Usable(d)'  BY <1>3, <2>1, <2>2 DEF Usable, Readable
  <2>4. Settle("none", latest)  BY <1>6 DEF RecordDailyCost
  <2> QED  BY <1>1, <1>5, <1>6, <2>3, <2>4, JobSettled DEF d
<1>9. work' = Idle  BY DEF RecordDailyCost, Settle
<1>10. /\ SumFunction(spend) \in Nat /\ Costs \in Nat /\ lost \in Nat /\ faults \in Nat
       /\ spend \in [Days -> Nat] /\ IsFiniteSet(Days) /\ Today \in Days
  BY <1>1, SumTypes, DayTypes DEF TypeOK
<1>11. Held = 0 /\ Unrecorded = work.cost /\ Held' = 0 /\ Unrecorded' = 0
  BY <1>2, <1>9 DEF Held, Unrecorded
<1>12. paid = Charges + lost + 0 /\ (faults = 0 => Costs <= 10 * SumFunction(spend) + work.cost)
  BY <1>1, <1>11 DEF Accounted
<1>13. Costs' = Costs /\ Charges' = Charges /\ Booked' = Booked
  BY <1>3 DEF Costs, Charges, Booked
<1>14. spend' \in [Days -> Nat] /\ faults' \in Nat
       /\ (faults' = 0 => Costs <= 10 * SumFunction(spend'))
  <2>1. CASE faults' = faults /\ spend' = [spend EXCEPT ![Today] = @ + Cents(work.cost)]
    <3> DEFINE c == Cents(work.cost)
               v == spend[Today] + c
               total == SumFunction(spend)
    <3>1. c \in Nat /\ work.cost <= 10 * c  BY <1>2, CentsCover
    <3>2. spend' = [spend EXCEPT ![Today] = v]  BY <2>1
    <3>3. spend[Today] \in Nat  BY <1>10
    <3> HIDE DEF c
    <3>4. v \in Nat  BY <3>1, <3>3
    <3>5. spend \in [Days -> Int] /\ v \in Int  BY <1>10, <3>4
    <3>6. SumFunction([spend EXCEPT ![Today] = v]) = SumFunction(spend) + (v - spend[Today])
      <4> HIDE DEF v
      <4> QED  BY ONLY <1>10, <3>5, SumChanged
    <3>7. v - spend[Today] = c  BY <3>1, <3>3
    <3>8. SumFunction(spend') = SumFunction(spend) + c  BY <3>2, <3>6, <3>7
    <3>9. spend' \in [Days -> Nat]  BY <1>10, <3>2, <3>4
    <3>10. total \in Nat /\ SumFunction(spend') = total + c
           /\ (faults' = 0 => Costs <= 10 * total + work.cost)
      BY <1>10, <1>12, <2>1, <3>8
    <3> HIDE DEF total, v
    <3>11. faults' = 0 => Costs <= 10 * SumFunction(spend')
      <4> SUFFICES ASSUME faults' = 0  PROVE Costs <= 10 * SumFunction(spend')  OBVIOUS
      <4>1. Costs <= 10 * total + work.cost  BY <3>10
      <4>2. Costs <= 10 * (total + c)  BY <1>2, <1>10, <3>1, <3>10, <4>1
      <4> QED  BY <3>10, <4>2
    <3> QED  BY <1>10, <2>1, <3>9, <3>11
  <2>2. CASE faults' = faults + 1 /\ UNCHANGED spend
    <3>1. faults' \in Nat /\ faults' # 0  BY <1>10, <2>2
    <3> QED  BY <1>10, <2>2, <3>1
  <2> QED  BY <2>1, <2>2 DEF RecordDailyCost
<1>15. TypeOK'
  <2>1. paid' \in Nat /\ charged' \in Seq(Nat) /\ lost' \in Nat  BY <1>1, <1>3 DEF TypeOK
  <2> QED  BY <1>1, <1>3, <1>5, <1>9, <1>14, <2>1, WorkerTypes
<1>16. RowsOK' /\ CacheOK(market)'  BY <1>1, <1>3, <1>4, SameRows, SameCache
<1>17. Working'  BY <1>9 DEF Working
<1>18. Accounted'
  <2>1. paid' = Charges' + lost' + Held' /\ Booked'
    BY <1>1, <1>3, <1>11, <1>12, <1>13 DEF Accounted
  <2>2. faults' = 0 => Costs' <= 10 * SumFunction(spend') + Unrecorded'
    <3>1. spend' \in [Days -> Nat]  BY <1>14
    <3>2. SumFunction(spend') \in Nat  BY <1>10, <3>1, SumNatural
    <3>3. 10 * SumFunction(spend') + 0 = 10 * SumFunction(spend')  BY <3>2
    <3> QED  BY <1>11, <1>13, <1>14, <3>3
  <2> QED  BY <2>1, <2>2 DEF Accounted
<1> QED  BY <1>8, <1>15, <1>16, <1>17, <1>18 DEF IInv

-----------------------------------------------------------------------------
(* Backtest and analyse *)

\* A probe of a table: the next step, or the row that is there.
LEMMA ProbeStep ==
    ASSUME IInv, work # Idle, Job.kind \in {"backtest", "overfitting"}, NEW existing, NEW j, j = Job,
           existing = {} \/ Usable([job |-> j, answer |-> "finished", id |-> Max(existing)]),
           IF existing = {} THEN Go("engine") /\ UNCHANGED done ELSE Settle("none", Max(existing)),
           UNCHANGED <<now, queue, requests, db, disk, market, spend, paid, charged, lost, faults>>
    PROVE  IInv'
<1>1. TypeOK /\ RowsOK /\ CacheOK(market) /\ Working  BY DEF IInv
<1>2. Kept  BY SameKept
<1>3. CASE existing = {}
  <2>1. Go("engine") /\ UNCHANGED done  BY <1>3
  <2>2. GoesOn /\ work' # Idle /\ work'.step = "engine" /\ work'.cost = work.cost
        /\ work'.charged = work.charged
    BY <1>1, <2>1, Steps
  <2>3. Working'
    <3>1. work.cost = 0 /\ work.charged = 0  BY <1>1 DEF Working
    <3>2. (Job.kind \in {"backtest", "overfitting"})' /\ work'.job = work.job
      BY <2>2 DEF GoesOn, Job
    <3> QED  BY <2>2, <3>1, <3>2 DEF Working, Backtesting, Job
  <2> QED  BY <2>1, <2>3, GoStep
<1>4. CASE existing # {}
  <2>1. PICK latest : latest = Max(existing)  OBVIOUS
  <2> DEFINE d == [job |-> j, answer |-> "finished", id |-> latest]
  <2>2. Usable(d)  BY <1>4, <2>1
  <2>3. Usable(d)'
    <3> HIDE DEF d
    <3> QED  BY <1>2, <2>2, StillUsable
  <2>4. Settle("none", latest)  BY <1>4, <2>1
  <2>5. now \in Nat /\ now' \in Nat /\ now <= now'  BY <1>1, ConstantTypes DEF TypeOK
  <2>6. RowsOK' /\ CacheOK(market)'  BY <1>1, <2>5, SameRows, SameCache
  <2>7. db' \in Tables /\ disk' \in Files  BY <1>1 DEF TypeOK
  <2> QED  BY <1>2, <2>3, <2>4, <2>6, <2>7, EndStep
<1> QED  BY <1>3, <1>4

LEMMA Probed == ASSUME IInv, BacktestProbe \/ OverfittingProbe  PROVE IInv'
<1>1. db \in Tables  BY DEF IInv, TypeOK
<1>2. work # Idle /\ Job.kind \in {"backtest", "overfitting"}
  BY DEF BacktestProbe, OverfittingProbe, At
<1>3. UNCHANGED <<now, queue, requests, db, disk, market, spend, paid, charged, lost, faults>>
  BY DEF BacktestProbe, OverfittingProbe, idleWorld
<1>4. PICK j : j = Job  OBVIOUS
<1>5. CASE BacktestProbe
  <2>1. PICK existing : existing = BacktestsOf(j.of)  OBVIOUS
  <2>2. Job.kind = "backtest"  BY <1>5 DEF BacktestProbe, At
  <2>3. IF existing = {} THEN Go("engine") /\ UNCHANGED done ELSE Settle("none", Max(existing))
    BY <1>4, <1>5, <2>1 DEF BacktestProbe
  <2>4. existing # {} => Usable([job |-> j, answer |-> "finished", id |-> Max(existing)])
    <3>1. existing # {} => Max(existing) \in existing
      <4>1. db.backtests \in Seq(BacktestRows)  BY <1>1, Rows
      <4>2. existing \subseteq DOMAIN db.backtests  BY <2>1 DEF BacktestsOf
      <4> QED  BY <4>1, <4>2, LatestIsOne
    <3> DEFINE d == [job |-> j, answer |-> "finished", id |-> Max(existing)]
    <3>2. d.job = j /\ d.id = Max(existing) /\ j.kind = "backtest"  BY <1>4, <2>2
    <3> HIDE DEF d
    <3>3. existing # {} => Usable(d)  BY <2>1, <3>1, <3>2 DEF Usable, BacktestsOf
    <3> QED  BY <3>3 DEF d
  <2> QED  BY <1>2, <1>3, <1>4, <2>3, <2>4, ProbeStep
<1>6. CASE OverfittingProbe
  <2>1. PICK existing : existing = AnalysesOf(j.of)  OBVIOUS
  <2>2. Job.kind = "overfitting"  BY <1>6 DEF OverfittingProbe, At
  <2>3. IF existing = {} THEN Go("engine") /\ UNCHANGED done ELSE Settle("none", Max(existing))
    BY <1>4, <1>6, <2>1 DEF OverfittingProbe
  <2>4. existing # {} => Usable([job |-> j, answer |-> "finished", id |-> Max(existing)])
    <3>1. existing # {} => Max(existing) \in existing
      <4>1. db.analyses \in Seq(Nat)  BY <1>1, Rows
      <4>2. existing \subseteq DOMAIN db.analyses  BY <2>1 DEF AnalysesOf
      <4> QED  BY <4>1, <4>2, LatestIsOne
    <3> DEFINE d == [job |-> j, answer |-> "finished", id |-> Max(existing)]
    <3>2. d.job = j /\ d.id = Max(existing) /\ j.kind = "overfitting"  BY <1>4, <2>2
    <3> HIDE DEF d
    <3>3. existing # {} => Usable(d)  BY <2>1, <3>1, <3>2 DEF Usable, AnalysesOf
    <3> QED  BY <3>3 DEF d
  <2> QED  BY <1>2, <1>3, <1>4, <2>3, <2>4, ProbeStep
<1> QED  BY <1>5, <1>6

\* The window of a job is one that may be backtested.
LEMMA WindowTypes ==
    ASSUME TypeOK, work # Idle, Job.kind \in {"backtest", "overfitting"}
    PROVE  Window.from \in Nat /\ Window.to \in Nat
<1>1. CASE Job.kind = "backtest"
  <2>1. Job.of \in Keys  BY <1>1, JobValid
  <2> QED  BY <1>1, <2>1, ConstantTypes DEF Window, Keys
<1>2. CASE Job.kind = "overfitting"
  <2>1. db.backtests \in Seq(BacktestRows)  BY Rows DEF TypeOK
  <2>2. Job.of \in DOMAIN db.backtests  BY <1>2, JobValid
  <2>3. db.backtests[Job.of] \in BacktestRows  BY <2>1, <2>2, LenProperties, ElementOfSeq
  <2> QED  BY <1>2, <2>3, ConstantTypes DEF Window, BacktestRows, Keys
<1> QED  BY <1>1, <1>2

LEMMA ReadStep ==
    ASSUME IInv, work # Idle, NEW next, NEW atLeast \in Nat \ {0}, ReadBars(next, atLeast),
           \/ Job.kind = "backtest" /\ next \in {"benchmark", "save"}
           \/ Job.kind = "overfitting" /\ next = "save",
           UNCHANGED <<now, queue, requests, db, disk, spend, paid, charged, lost, faults>>
    PROVE  IInv'
<1>1. TypeOK /\ RowsOK /\ CacheOK(market) /\ Settled /\ Working  BY DEF IInv
<1>2. Job.kind \in {"backtest", "overfitting"} /\ DOMAIN work = WorkFields /\ work.cost \in Nat
      /\ work.charged \in Nat
      /\ work.spec \in BOOLEAN /\ work.parses \in BOOLEAN
  BY <1>1, JobValid
<1>3. Kept  BY SameKept
<1>4. now \in Nat /\ now' \in Nat /\ now <= now'  BY <1>1, ConstantTypes DEF TypeOK
<1>5. db' \in Tables /\ disk' \in Files /\ RowsOK'  BY <1>1, <1>4, SameRows DEF TypeOK
<1>6. CASE Settle("network", 0) /\ UNCHANGED market
  BY <1>2, <1>6, FailStep
<1>7. ASSUME NEW read, read = GetMarketData(Window), market' = read.market,
             IF Cardinality(read.bars) >= atLeast
             THEN work' = [work EXCEPT !.step = next, !.bars = read.bars] /\ UNCHANGED done
             ELSE Settle("no_data", 0)
      PROVE  IInv'
  <2>1. CacheOK(read.market) /\ (read.bars # {} => Bars(read.bars, Window.from))
    <3>1. Window.from \in Nat /\ Window.to \in Nat  BY <1>1, <1>2, WindowTypes
    <3> QED  BY <1>1, <1>4, <1>7, <3>1, ReadMarket
  <2>2. CacheOK(market)'
    <3>1. CacheOK(read.market)'  BY <1>4, <2>1, LaterBars DEF CacheOK
    <3> QED  BY <1>7, <3>1 DEF CacheOK
  <2>3. CASE Cardinality(read.bars) >= atLeast
    <3>1. read.bars # {}
      <4>1. Cardinality({}) = 0  BY FS_EmptySet
      <4> QED  BY <2>3, <4>1
    <3> DEFINE once == [work EXCEPT !.step = next]
    <3>2. work' = [once EXCEPT !.bars = read.bars] /\ UNCHANGED done  BY <1>7, <2>3
    <3>3. DOMAIN once = WorkFields /\ once.step = next /\ once.job = work.job
          /\ once.cost = work.cost /\ once.charged = work.charged /\ once.spec = work.spec
             /\ once.parses = work.parses
      BY <1>2 DEF WorkFields
    <3> HIDE DEF once
    <3>4. DOMAIN work' = WorkFields /\ work'.step = next /\ work'.job = work.job
          /\ work'.cost = work.cost /\ work'.charged = work.charged /\ work'.spec = work.spec
             /\ work'.parses = work.parses
          /\ work'.bars = read.bars
      BY <3>2, <3>3 DEF WorkFields
    <3>5. GoesOn  BY <1>2, <3>4 DEF GoesOn
    <3>6. Working'
      <4>1. work'.cost = 0 /\ work'.charged = 0  BY <1>1, <1>2, <3>4 DEF Working
      <4>2. Job' = Job  BY <3>4 DEF Job
      <4>3. Job.kind = "backtest" => Backtesting'
        <5> SUFFICES ASSUME Job.kind = "backtest"  PROVE Backtesting'  OBVIOUS
        <5>1. Bars(read.bars, Window.from)  BY <2>1, <3>1
        <5>2. Bars(read.bars, Window.from)' \/ TRUE  OBVIOUS
        <5>3. PICK bars, from : bars = read.bars /\ from = Job.of.window.from  OBVIOUS
        <5>4. Bars(bars, from)'
          <6>1. Bars(bars, from)  BY <5>1, <5>3 DEF Window
          <6> QED  BY <1>4, <6>1, LaterBars
        <5>5. work'.bars = bars /\ (Job.of.window.from)' = from  BY <3>4, <4>2, <5>3
        <5>6. Bars(work.bars, Job.of.window.from)'  BY <5>4, <5>5
        <5> QED  BY <3>4, <5>6 DEF Backtesting
      <4> QED  BY <1>2, <3>4, <4>1, <4>2, <4>3 DEF Working
    <3>7. Settled'  BY <1>1, <1>3, <3>2, StillSettled
    <3> QED  BY <1>2, <1>3, <1>5, <2>2, <3>4, <3>5, <3>6, <3>7, FreeStep
  <2>4. CASE ~(Cardinality(read.bars) >= atLeast)
    <3>1. Settle("no_data", 0)  BY <1>7, <2>4
    <3>2. PICK j : j = Job  OBVIOUS
    <3> QED  BY <1>2, <1>3, <1>5, <2>2, <3>1, <3>2, EndStep
  <2> QED  BY <2>3, <2>4
<1> QED  BY <1>6, <1>7 DEF ReadBars

LEMMA MarketRead == ASSUME IInv, BacktestEngine \/ Benchmark \/ Analyse  PROVE IInv'
<1>1. UNCHANGED <<now, queue, requests, db, disk, spend, paid, charged, lost, faults>>
  BY DEF BacktestEngine, Benchmark, Analyse, idleWorld
<1>2. 1 \in Nat \ {0} /\ 2 \in Nat \ {0}  OBVIOUS
<1>3. CASE BacktestEngine
  <2>1. work # Idle /\ Job.kind = "backtest" /\ ReadBars("benchmark", 1)
    BY <1>3 DEF BacktestEngine, At
  <2> QED  BY <1>1, <1>2, <2>1, ReadStep
<1>4. CASE Benchmark
  <2>1. work # Idle /\ Job.kind = "backtest" /\ ReadBars("save", 2)  BY <1>4 DEF Benchmark, At
  <2> QED  BY <1>1, <1>2, <2>1, ReadStep
<1>5. CASE Analyse
  <2>1. work # Idle /\ Job.kind = "overfitting" /\ ReadBars("save", 1)  BY <1>5 DEF Analyse, At
  <2> QED  BY <1>1, <1>2, <2>1, ReadStep
<1> QED  BY <1>3, <1>4, <1>5

\* A row whose key the table lacks.
LEMMA BacktestSaved == ASSUME IInv, SaveBacktest  PROVE IInv'
<1>1. TypeOK /\ RowsOK /\ CacheOK(market) /\ Working  BY DEF IInv
<1>2. work # Idle /\ Job.kind = "backtest" /\ work.step = "save" /\ Job.of \in Keys
  BY <1>1, JobValid DEF SaveBacktest, At
<1>3. UNCHANGED <<now, queue, requests, disk, market, spend, paid, charged, lost, faults>>
  BY DEF SaveBacktest, idleWorld
<1>4. now \in Nat /\ now' \in Nat /\ now <= now'  BY <1>1, <1>3, ConstantTypes DEF TypeOK
<1>5. db \in Tables /\ disk' \in Files  BY <1>1, <1>3 DEF TypeOK
<1>6. CASE BacktestsOf(Job.of) # {}
  <2>1. Settle("unique_violation", 0) /\ UNCHANGED db
    BY <1>6 DEF SaveBacktest, NewBacktest
  <2> QED  BY <1>2, <1>3, <2>1, FailStep
<1>7. CASE BacktestsOf(Job.of) = {}
  <2>1. PICK j, row, new : /\ j = Job /\ row = [of |-> Job.of, bars |-> work.bars]
                           /\ new = Len(db.backtests) + 1
    OBVIOUS
  <2>2. Bars(work.bars, Job.of.window.from)  BY <1>1, <1>2 DEF Working, Backtesting
  <2>3. row.of = Job.of /\ row.bars = work.bars  BY <2>1
  <2>4. row \in BacktestRows
    <3>1. work.bars \subseteq Nat
      <4>1. work.bars \subseteq Listing..now /\ Listing \in Nat  BY <2>2, ConstantTypes DEF Bars
      <4> QED  BY <4>1
    <3> QED  BY <1>2, <2>1, <3>1 DEF BacktestRows
  <2>5. /\ db' \in Tables /\ db'.backtests = Append(db.backtests, row) /\ Kept
        /\ UNCHANGED <<db.contents, db.transcripts, db.extractions, db.analyses>>
    <3>1. Save("backtests", row)  BY <1>7, <2>1 DEF SaveBacktest, NewBacktest
    <3> QED  BY <1>3, <1>5, <2>4, <3>1, Saved
  <2>6. /\ DOMAIN db'.backtests = DOMAIN db.backtests \cup {new} /\ new \notin DOMAIN db.backtests
        /\ \A b \in DOMAIN db.backtests : db'.backtests[b] = db.backtests[b]
        /\ db'.backtests[new] = row
    BY <1>5, <2>1, <2>4, <2>5, Rows, RowAppended DEF Longer
  <2>7. RowsOK'
    <3>1. \A b \in DOMAIN db.backtests : db.backtests[b].of # Job.of
      BY <1>7 DEF BacktestsOf
    <3>2. \A a, b \in DOMAIN db'.backtests : db'.backtests[a].of = db'.backtests[b].of => a = b
      BY <1>1, <2>3, <2>6, <3>1 DEF RowsOK
    <3>3. \A b \in DOMAIN db'.backtests : Bars(db'.backtests[b].bars, db'.backtests[b].of.window.from)
      BY <1>1, <2>2, <2>3, <2>6 DEF RowsOK
    <3>4. (\A b \in DOMAIN db.backtests : Bars(db.backtests[b].bars, db.backtests[b].of.window.from))'
      <4>1. \A bars, from : Bars(bars, from) => Bars(bars, from)'  BY <1>4, LaterBars
      <4> QED  BY <3>3, <4>1
    <3> QED  BY <1>1, <2>5, <3>2, <3>4 DEF RowsOK
  <2>8. CacheOK(market)'  BY <1>1, <1>3, <1>4, SameCache
  <2> DEFINE d == [job |-> j, answer |-> "finished", id |-> new]
  <2>9. d.job = j /\ d.id = new /\ j.kind = "backtest"  BY <1>2, <2>1
  <2> HIDE DEF d
  <2>10. Usable(d)'  BY <2>1, <2>3, <2>6, <2>9 DEF Usable
  <2>11. Settle("none", new)  BY <1>7, <2>1 DEF SaveBacktest, NewBacktest
  <2> QED  BY <1>2, <1>3, <1>5, <2>1, <2>5, <2>7, <2>8, <2>10, <2>11, EndStep DEF d
<1> QED  BY <1>6, <1>7

LEMMA AnalysisSaved == ASSUME IInv, SaveAnalysis  PROVE IInv'
<1>1. TypeOK /\ RowsOK /\ CacheOK(market) /\ Working  BY DEF IInv
<1>2. work # Idle /\ Job.kind = "overfitting" /\ Job.of \in DOMAIN db.backtests
  BY <1>1, JobValid DEF SaveAnalysis, At
<1>3. UNCHANGED <<now, queue, requests, disk, market, spend, paid, charged, lost, faults>>
  BY DEF SaveAnalysis, idleWorld
<1>4. now \in Nat /\ now' \in Nat /\ now <= now'  BY <1>1, <1>3, ConstantTypes DEF TypeOK
<1>5. db \in Tables /\ disk' \in Files  BY <1>1, <1>3 DEF TypeOK
<1>6. CASE AnalysesOf(Job.of) # {}
  <2>1. Settle("unique_violation", 0) /\ UNCHANGED db
    BY <1>6 DEF SaveAnalysis, NewAnalysis
  <2> QED  BY <1>2, <1>3, <2>1, FailStep
<1>7. CASE AnalysesOf(Job.of) = {}
  <2>1. PICK j, new : j = Job /\ new = Len(db.analyses) + 1  OBVIOUS
  <2>2. j.of \in Nat  BY <1>2, <1>5, <2>1, Rows, LenProperties
  <2>3. /\ db' \in Tables /\ db'.analyses = Append(db.analyses, j.of) /\ Kept
        /\ UNCHANGED <<db.contents, db.transcripts, db.extractions, db.backtests>>
    <3>1. Save("analyses", j.of)  BY <1>7, <2>1 DEF SaveAnalysis, NewAnalysis
    <3> QED  BY <1>3, <1>5, <2>2, <3>1, Saved
  <2>4. /\ DOMAIN db'.analyses = DOMAIN db.analyses \cup {new} /\ new \notin DOMAIN db.analyses
        /\ \A a \in DOMAIN db.analyses : db'.analyses[a] = db.analyses[a]
        /\ db'.analyses[new] = j.of
    BY <1>5, <2>1, <2>2, <2>3, Rows, RowAppended DEF Longer
  <2>5. RowsOK'
    <3>1. \A a \in DOMAIN db.analyses : db.analyses[a] # j.of  BY <1>7, <2>1 DEF AnalysesOf
    <3>2. \A a, b \in DOMAIN db'.analyses : db'.analyses[a] = db'.analyses[b] => a = b
      BY <1>1, <2>4, <3>1 DEF RowsOK
    <3>3. (\A b \in DOMAIN db.backtests : Bars(db.backtests[b].bars, db.backtests[b].of.window.from))'
      BY <1>1, <1>4, <2>3, LaterBars DEF RowsOK
    <3> QED  BY <1>1, <2>3, <3>2, <3>3 DEF RowsOK
  <2>6. CacheOK(market)'  BY <1>1, <1>3, <1>4, SameCache
  <2> DEFINE d == [job |-> j, answer |-> "finished", id |-> new]
  <2>7. d.job = j /\ d.id = new /\ j.kind = "overfitting"  BY <1>2, <2>1
  <2> HIDE DEF d
  <2>8. Usable(d)'  BY <2>4, <2>7 DEF Usable
  <2>9. Settle("none", new)  BY <1>7, <2>1 DEF SaveAnalysis, NewAnalysis
  <2> QED  BY <1>2, <1>3, <1>5, <2>1, <2>3, <2>5, <2>6, <2>8, <2>9, EndStep DEF d
<1> QED  BY <1>6, <1>7

-----------------------------------------------------------------------------
(* A job dies; the steps together. *)

LEMMA DeathStep == ASSUME IInv, JobDies  PROVE IInv'
<1>1. TypeOK /\ RowsOK /\ CacheOK(market) /\ Settled /\ Accounted /\ Working  BY DEF IInv
<1>2. work # Idle  BY DEF JobDies
<1>3. UNCHANGED <<now, queue, requests, db, spend, charged>>  BY DEF JobDies, idleWorld
<1>4. now \in Nat /\ now' \in Nat /\ now <= now'  BY <1>1, <1>3, ConstantTypes DEF TypeOK
<1>5. db' = db /\ db' \in Tables /\ disk \in Files  BY <1>1, <1>3 DEF TypeOK
<1>6. disk' \in Files /\ Kept
  <2>1. CASE disk' = disk
    BY <1>5, <2>1, SameKept
  <2>2. CASE work.step = "cache" /\ disk' = [disk EXCEPT ![Job.kind][CacheKey] = "torn"]
    <3>1. Job.kind \in {"ingest", "transcribe"}
      BY <1>1, <1>2, <2>2 DEF Working, Extracting, Backtesting, TypeOK, Valid, Job
    <3>2. CacheKey \in Sources
      <4>1. CASE Job.kind = "ingest"  BY <1>1, <1>2, <4>1, JobValid DEF CacheKey
      <4>2. CASE Job.kind = "transcribe"
        <5>1. db.contents \in Seq(Sources)  BY <1>1, Rows DEF TypeOK
        <5>2. Job.of \in DOMAIN db.contents  BY <1>1, <1>2, <4>2, JobValid
        <5>3. CacheKey = db.contents[Job.of]  BY <4>2 DEF CacheKey
        <5> QED  BY <5>1, <5>2, <5>3, LenProperties, ElementOfSeq
      <4> QED  BY <3>1, <4>1, <4>2
    <3>3. "torn" \in Marks \ {"none"}  BY DEF Marks
    <3>4. \/ disk' = [disk EXCEPT !.ingest[CacheKey] = "torn"]
          \/ disk' = [disk EXCEPT !.transcribe[CacheKey] = "torn"]
      BY <2>2, <3>1
    <3> QED  BY <1>5, <3>2, <3>3, <3>4, FileWritten
  <2> QED  BY <2>1, <2>2 DEF JobDies
<1>7. PICK error \in {"killed", "timeout"} : Settle(error, 0)  BY DEF JobDies
<1>8. work' = Idle  BY <1>7 DEF Settle
<1>9. Settled'
  <2>1. PICK j : j = Job  OBVIOUS
  <2>2. error # "none"  BY <1>7
  <2> QED  BY <1>1, <1>6, <1>7, <2>1, <2>2, JobSettled
<1>10. RowsOK'  BY <1>1, <1>3, <1>4, SameRows
<1>11. CacheOK(market)'
  <2>1. CASE market' = market  BY <1>1, <1>4, <2>1, SameCache
  <2>2. CASE market' = [file |-> "torn", bars |-> {}]
    <3>1. market'.file # "whole"  BY <2>2
    <3> QED  BY <3>1 DEF CacheOK
  <2> QED  BY <2>1, <2>2 DEF JobDies
<1>12. PICK charge \in {0, CallMills} :
          /\ paid' = paid + charge
          /\ lost' = lost + charge + (IF work.step \in {"retry", "save"} THEN work.charged ELSE 0)
  BY DEF JobDies
<1>13. charge \in Nat /\ Charges \in Nat /\ Held \in Nat /\ lost \in Nat /\ paid \in Nat /\ faults \in Nat
  BY <1>1, <1>12, SumTypes, ConstantTypes DEF TypeOK
<1>14. paid = Charges + lost + Held  BY <1>1 DEF Accounted
<1>15. lost' = lost + charge + Held  BY <1>2, <1>12 DEF Held
<1>16. faults' \in Nat /\ faults' # 0  BY <1>13 DEF JobDies
<1>17. TypeOK'
  <2>1. paid' \in Nat /\ charged' \in Seq(Nat) /\ lost' \in Nat
    BY <1>1, <1>3, <1>12, <1>13, <1>15 DEF TypeOK
  <2>2. spend' \in [Days -> Nat]  BY <1>1, <1>3 DEF TypeOK
  <2> QED  BY <1>1, <1>3, <1>5, <1>6, <1>8, <1>16, <2>1, <2>2, WorkerTypes
<1>18. Accounted'
  <2>1. Charges' = Charges /\ Booked'  BY <1>1, <1>3 DEF Charges, Booked, Accounted
  <2>2. Held' = 0  BY <1>8 DEF Held
  <2>3. paid' = Charges + lost' + 0  BY <1>12, <1>13, <1>14, <1>15
  <2> QED  BY <1>16, <2>1, <2>2, <2>3 DEF Accounted
<1>19. Working'  BY <1>8 DEF Working
<1> QED  BY <1>9, <1>10, <1>11, <1>17, <1>18, <1>19 DEF IInv

LEMMA WorkerSteps == ASSUME IInv, Worker  PROVE IInv'
<1>1. CASE TakeJob \/ JobDies  BY <1>1, TakeStep, DeathStep
<1>2. CASE IngestProbe \/ IngestFetch \/ IngestCache \/ SaveContent \/ SaveTextTranscript
  BY <1>2, IngestProbed, IngestFetched, IngestCached, ContentSaved, TextSaved
<1>3. CASE TranscribeProbe \/ Transcribe \/ TranscribeCache \/ SaveTranscript
  BY <1>3, TranscribeProbed, Transcribed, TranscribeCached, TranscriptSaved
<1>4. CASE \/ ExtractProbe \/ TooExpensive \/ FirstCallFails \/ FirstCallAnswers \/ RetryCall
           \/ SaveExtraction \/ RecordDailyCost
  BY <1>4, ExtractProbed, Called, ExtractionSaved, CostRecorded
<1>5. CASE BacktestProbe \/ BacktestEngine \/ Benchmark \/ SaveBacktest
  BY <1>5, Probed, MarketRead, BacktestSaved
<1>6. CASE OverfittingProbe \/ Analyse \/ SaveAnalysis
  BY <1>6, Probed, MarketRead, AnalysisSaved
<1> QED  BY <1>1, <1>2, <1>3, <1>4, <1>5, <1>6 DEF Worker

LEMMA Stuttering == ASSUME IInv, UNCHANGED vars  PROVE IInv'
<1>1. TypeOK  BY DEF IInv
<1>2. now' \in StartTime..MaxTime /\ now <= now' /\ faults' \in Nat
  BY <1>1, ConstantTypes DEF TypeOK, vars
<1>3. (\E jobs : Queued(jobs))'  BY <1>1, SameQueue DEF vars
<1>4. RequestsOK'
  <2>1. \A p : Pending(p) => Pending(p)'  BY DEF Pending, Valid, vars
  <2> QED  BY <1>1, <2>1 DEF TypeOK, RequestsOK, vars
<1> QED  BY <1>2, <1>3, <1>4, ApiStep DEF vars

\* The inductive invariant holds in every reachable state.
LEMMA Invariance == Spec => []IInv
<1>1. Init => IInv  BY Initially
<1>2. IInv /\ [Next]_vars => IInv'
  <2> SUFFICES ASSUME IInv, [Next]_vars  PROVE IInv'  OBVIOUS
  <2> QED  BY TickStep, CrashStep, WorkerSteps, ApiSteps, Stuttering DEF Next
<1> QED  BY <1>1, <1>2, PTL DEF Spec

-----------------------------------------------------------------------------
(* What the invariant says. *)

LEMMA AtMostOne ==
    ASSUME NEW S, \A x, y \in S : x = y
    PROVE  Cardinality(S) <= 1
<1>1. CASE S = {}  BY <1>1, FS_EmptySet
<1>2. CASE S # {}
  <2>1. PICK x \in S : TRUE  BY <1>2
  <2>2. S = {x}  BY <2>1
  <2> QED  BY <2>2, FS_Singleton
<1> QED  BY <1>1, <1>2

\* Bars without a hole are all that the exchange has in their span.
LEMMA BarsOfExchange ==
    ASSUME now \in Nat, NEW bars, NEW from \in Nat, Bars(bars, from)
    PROVE  bars = {b \in Exchange : b >= from /\ b <= Max(bars)}
<1>1. Listing \in Nat  BY ConstantTypes
<1>2. bars # {} /\ bars \subseteq Listing..now
      /\ bars = {b \in from..Max(bars) : b >= Listing /\ b \notin Outage}
  BY DEF Bars, Unbroken
<1>3. IsFiniteSet(bars) /\ bars \in SUBSET Int
  <2>1. IsFiniteSet(Listing..now)  BY <1>1, FS_Interval
  <2>2. Listing..now \subseteq Int  BY <1>1
  <2> QED  BY <1>2, <2>1, <2>2, FS_Subset
<1> DEFINE last == Max(bars)
<1>4. last \in bars  BY <1>2, <1>3, MaxOfFinite
<1>5. last \in Nat /\ last <= now  BY <1>1, <1>2, <1>4
<1>6. bars = {b \in from..last : b >= Listing /\ b \notin Outage}  BY <1>2
<1> HIDE DEF last
<1>7. ASSUME NEW b
      PROVE  (b \in from..last /\ b >= Listing /\ b \notin Outage)
                <=> (b \in Exchange /\ b >= from /\ b <= last)
  BY <1>1, <1>5 DEF Exchange
<1>8. bars = {b \in Exchange : b >= from /\ b <= last}  BY <1>6, <1>7
<1> QED  BY <1>8 DEF last

LEMMA DoneOnce == IInv => WorkDoneOnce
<1> SUFFICES ASSUME IInv  PROVE WorkDoneOnce  OBVIOUS
<1>1. RowsOK /\ Settled  BY DEF IInv
<1>2. \A t \in DOMAIN db.transcripts : Cardinality(ExtractionsOf(t)) <= 1
  <2> TAKE t \in DOMAIN db.transcripts
  <2>1. \A e, f \in ExtractionsOf(t) : e = f  BY <1>1 DEF RowsOK, ExtractionsOf
  <2> QED  BY <2>1, AtMostOne
<1>3. \A b \in DOMAIN db.backtests : BacktestsOf(db.backtests[b].of) = {b}
  BY <1>1 DEF RowsOK, BacktestsOf
<1>4. \A b \in DOMAIN db.backtests : Cardinality(AnalysesOf(b)) <= 1
  <2> TAKE b \in DOMAIN db.backtests
  <2>1. \A a, c \in AnalysesOf(b) : a = c  BY <1>1 DEF RowsOK, AnalysesOf
  <2> QED  BY <2>1, AtMostOne
<1>5. \A d \in done : d.answer # "finished" => d.id = 0  BY <1>1 DEF Settled
<1> QED  BY <1>2, <1>3, <1>4, <1>5 DEF WorkDoneOnce

LEMMA Finished == IInv => FinishedJobsUsable
<1> SUFFICES ASSUME IInv  PROVE FinishedJobsUsable  OBVIOUS
<1>1. TypeOK /\ RowsOK /\ Settled  BY DEF IInv
<1>2. now \in Nat  BY <1>1, ConstantTypes DEF TypeOK
<1> SUFFICES ASSUME NEW d \in done, d.answer = "finished"
             PROVE  CASE d.job.kind = "ingest" ->
                             /\ db.contents[d.id] = d.job.of
                             /\ IF d.job.of.kind = "youtube" THEN disk.audio[d.job.of] # "none"
                                ELSE TranscriptsOf(d.id) # {}
                             /\ d.job.of.kind # "text" => disk.ingest[d.job.of] # "none"
                      [] d.job.kind = "transcribe" -> db.transcripts[d.id] = d.job.of
                      [] d.job.kind = "extract" ->
                             LET row == db.extractions[d.id] IN
                             row.of = d.job.of /\ (row.spec => row.parses)
                      [] d.job.kind = "backtest" ->
                             LET row == db.backtests[d.id] IN
                             /\ row.of = d.job.of
                             /\ row.bars = {b \in Exchange : b >= row.of.window.from /\ b <= Max(row.bars)}
                      [] OTHER -> db.analyses[d.id] = d.job.of
  BY DEF FinishedJobsUsable
<1>3. Usable(d)  BY <1>1 DEF Settled
<1>4. CASE d.job.kind = "ingest"  BY <1>3, <1>4 DEF Usable, Fetched
<1>5. CASE d.job.kind = "transcribe"  BY <1>3, <1>5 DEF Usable
<1>6. CASE d.job.kind = "extract"  BY <1>3, <1>6 DEF Usable, Readable
<1>7. CASE d.job.kind = "backtest"
  <2> DEFINE row == db.backtests[d.id]
  <2>1. d.id \in DOMAIN db.backtests /\ row.of = d.job.of  BY <1>3, <1>7 DEF Usable
  <2>2. Bars(row.bars, row.of.window.from)  BY <1>1, <2>1 DEF RowsOK
  <2>3. row.of.window.from \in Nat
    <3>1. db.backtests \in Seq(BacktestRows)  BY <1>1, Rows DEF TypeOK
    <3>2. row \in BacktestRows  BY <2>1, <3>1, LenProperties, ElementOfSeq
    <3> QED  BY <3>2, ConstantTypes DEF BacktestRows, Keys
  <2>4. row.bars = {b \in Exchange : b >= row.of.window.from /\ b <= Max(row.bars)}
    BY <1>2, <2>2, <2>3, BarsOfExchange
  <2> QED  BY <1>7, <2>1, <2>4
<1>8. CASE d.job.kind = "overfitting"  BY <1>3, <1>8 DEF Usable
<1> QED  BY <1>3, <1>4, <1>5, <1>6, <1>7, <1>8 DEF Usable

LEMMA Contiguous == IInv => CacheContiguous
<1> SUFFICES ASSUME IInv, market.file = "whole"
             PROVE  market.bars = {b \in Exchange : b >= Min(market.bars) /\ b <= Max(market.bars)}
  BY DEF CacheContiguous
<1>1. now \in Nat  BY ConstantTypes DEF IInv, TypeOK
<1>2. Bars(market.bars, Min(market.bars))  BY DEF IInv, CacheOK
<1>3. Min(market.bars) \in Nat  BY <1>1, <1>2, BarsAreSpan
<1> QED  BY <1>1, <1>2, <1>3, BarsOfExchange

LEMMA SpendIs == IInv => SpendAccounted
<1> SUFFICES ASSUME IInv  PROVE SpendAccounted  OBVIOUS
<1>1. TypeOK /\ Accounted  BY DEF IInv
<1>2. Costs \in Nat /\ SumFunction(spend) \in Nat  BY <1>1, SumTypes
<1>3. paid = SumFunction(charged) + lost
                + (IF work # Idle /\ work.step \in {"retry", "save"} THEN work.charged ELSE 0)
  BY <1>1 DEF Accounted, Held, Charges
<1>5. \A e \in DOMAIN db.extractions :
         charged[e] - db.extractions[e].cost
             \in (IF db.extractions[e].spec THEN {0} ELSE {0, CallMills})
  BY <1>1 DEF Accounted, Booked, Unseen
<1>4. ASSUME faults = 0, work # Idle => work.step # "record"
      PROVE  10 * SumFunction(spend) >= Costs
  <2>1. Unrecorded = 0  BY <1>4 DEF Unrecorded
  <2>2. Costs <= 10 * SumFunction(spend) + 0  BY <1>1, <1>4, <2>1 DEF Accounted
  <2> QED  BY <1>2, <2>2
<1> QED  BY <1>3, <1>4, <1>5 DEF SpendAccounted

\* Handlers that probe and enqueue later, jobs that come twice and jobs that
\* die leave one extraction of a transcript, one backtest of the parameters
\* and one analysis of a backtest, and a job that failed names no row: the
\* probes and the unique indexes of extraction/job.py, backtest/job.py and
\* overfitting/job.py.
THEOREM EachWorkIsDoneOnce == Spec => []WorkDoneOnce
<1>1. IInv => WorkDoneOnce  BY DoneOnce
<1> QED  BY <1>1, Invariance, PTL

\* What GET /jobs/{id} calls finished has its row, its files, for a backtest
\* every bar of the exchange from the window's start to its last, and for an
\* extraction with a spec a row that parses.
THEOREM FinishedMeansUsable == Spec => []FinishedJobsUsable
<1>1. IInv => FinishedJobsUsable  BY Finished
<1> QED  BY <1>1, Invariance, PTL

\* get_market_data, for every limit of a page, every outage of the exchange and
\* any sequence of windows and torn writes: the Parquet file has no hole.
THEOREM TheCacheIsContiguous == Spec => []CacheContiguous
<1>1. IInv => CacheContiguous  BY Contiguous
<1> QED  BY <1>1, Invariance, PTL

\* Every mill that the model's provider charged was for a row, was lost with
\* a job that ended without one, or is of the job at work; the row of a
\* strategy has all of it, and that of a refusal lacks at most the second
\* call, whose error extract_strategy swallows; without a fault the day
\* counters of record_daily_cost cover the rows.
THEOREM EveryCallIsAccounted == Spec => []SpendAccounted
<1>1. IInv => SpendAccounted  BY SpendIs
<1> QED  BY <1>1, Invariance, PTL

=============================================================================
