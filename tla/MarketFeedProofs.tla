--------------------------- MODULE MarketFeedProofs ---------------------------
(***************************************************************************)
(* Proofs about MarketFeed, for every feed, weekday, size of a bar, of a   *)
(* page and of a window, margin, threshold, bound and history of answers.  *)
(*                                                                         *)
(* NoFormingBar rests on the clock of a cycle being in the past (Clocks)   *)
(* and on the margin.  StreakAlerted rests on Redis counting what the      *)
(* history counts (Counted), and on no alert being lost when a symbol of   *)
(* no class ends a cycle: the writes of the first pair commit by           *)
(* themselves (Committed, FirstPairCommits).                               *)
(*                                                                         *)
(* BackfillHeals rests on the stored rows having closed (ClosedRows): a    *)
(* row behind a hole shows that what is missing has closed as well, and so *)
(* is in the answer and passes the filter.                                 *)
(***************************************************************************)
EXTENDS MarketFeed, FiniteFacts, SequenceTheorems

Alerts == [kind : Kinds, of : Pairs \cup {NoPair}, delivered : BOOLEAN, error : BOOLEAN]

Databases == [candles : [Pairs -> SUBSET Bars], partial : SUBSET (Pairs \X Bars),
              alerts : Seq(Alerts), stale : SUBSET (Pairs \X Int)]

\* The pairs that a cycle has yet to handle are the last ones of the feed.
CycleTyped ==
    /\ Adapter # "none"
    /\ todo \in Seq(Pairs) /\ Len(todo) <= Len(feed)
    /\ \A k \in 1..Len(todo) : todo[k] = feed[Len(feed) - Len(todo) + k]
    /\ pc = "backfill" => todo # << >>

TypeOK ==
    /\ feed \in Feeds /\ now \in Nat /\ lead \in 0..Margin /\ faults \in Nat
    /\ db \in Databases /\ tx \in Databases /\ open \in BOOLEAN
    /\ redis \in [count : [Pairs -> Nat], alerted : [Pairs -> BOOLEAN]]
    /\ pc \in {"idle", "ingest", "backfill", "dispatch"}
    /\ cycleNow \in Int
    /\ failing \in [Pairs -> Nat]
    /\ pc \in {"ingest", "backfill"} => CycleTyped

Clocks == cycleNow <= now

\* Nothing was taken from a forming bar, and an abort brings nothing back.
NothingPartial == db.partial = {} /\ tx.partial = {}

\* Outside a transaction all is committed.
Committed == (pc = "idle" => ~open) /\ (~open => tx = db)

\* A backfill and the dispatcher are in a transaction.
Opened == pc \in {"backfill", "dispatch"} => open

\* The pairs whose fetch this cycle has handled.
Handled == Len(feed) - Len(todo) + (IF pc = "backfill" THEN 1 ELSE 0)

FirstPairCommits ==
    pc \in {"ingest", "backfill"} =>
        /\ Handled = 0 => ~open
        /\ Handled <= 1 => tx.alerts = db.alerts

\* Redis counts the streaks, and remembers those at the threshold.
Counted ==
    \A p \in Pairs : /\ redis.count[p] = failing[p]
                     /\ redis.alerted[p] <=> (failing[p] >= Threshold)

ClassifiedFeed == \A k \in 3..Len(feed) : InferAssetClass(feed[k]) # "unknown"

IInv ==
    /\ TypeOK /\ Clocks /\ NothingPartial /\ Committed /\ Opened /\ FirstPairCommits
    /\ (faults = 0 /\ ClassifiedFeed) => Counted
    /\ StreakAlerted

-----------------------------------------------------------------------------
(* Lemmas about the alert rows of a pair *)

LEMMA AlertRow == ASSUME NEW a \in Seq(Alerts), NEW i \in 1..Len(a)  PROVE a[i] \in Alerts
  BY ElementOfSeq

\* Only the kinds of the rows and their pairs matter.
LEMMA SameLabels ==
    ASSUME NEW a \in Seq(Alerts), NEW b \in Seq(Alerts), Len(a) = Len(b), NEW p,
           \A i \in 1..Len(a) : a[i].of = b[i].of /\ a[i].kind = b[i].kind
    PROVE  /\ Alternate(a, p) => Alternate(b, p)
           /\ Unanswered(a, Len(a), p) <=> Unanswered(b, Len(b), p)
<1>1. Len(a) \in Nat  BY LenProperties
<1>2. ASSUME NEW n \in 0..Len(a)
      PROVE  Unanswered(a, n, p) <=> Unanswered(b, n, p)
  <2>1. \A i \in 1..n : i \in 1..Len(a)  BY <1>1
  <2>2. \A i \in 1..n : \A j \in (i + 1)..n : j \in 1..n  BY <1>1
  <2>3. \A i \in 1..n : a[i].of = b[i].of /\ a[i].kind = b[i].kind  BY <2>1
  <2>4. ASSUME NEW i \in 1..n
        PROVE  (\A j \in (i + 1)..n : a[j].of # p) <=> (\A j \in (i + 1)..n : b[j].of # p)
    BY <2>2, <2>3
  <2>5. ASSUME NEW i \in 1..n
        PROVE  (a[i].of = p /\ a[i].kind = "failure") <=> (b[i].of = p /\ b[i].kind = "failure")
    BY <2>3
  <2> QED  BY Zenon, <2>4, <2>5 DEF Unanswered
<1>3. ASSUME NEW i \in 1..Len(a)  PROVE i - 1 \in 0..Len(a)  BY <1>1
<1> QED  BY <1>1, <1>2, <1>3 DEF Alternate

LEMMA Appended ==
    ASSUME NEW a \in Seq(Alerts), NEW row \in Alerts
    PROVE  /\ Append(a, row) \in Seq(Alerts) /\ Len(a) \in Nat
           /\ Len(Append(a, row)) = Len(a) + 1
           /\ \A i \in 1..Len(a) : Append(a, row)[i] = a[i]
           /\ Append(a, row)[Len(a) + 1] = row
  BY AppendProperties, LenProperties

\* What the rows before the last one say does not depend on it.
LEMMA Prefix ==
    ASSUME NEW a \in Seq(Alerts), NEW row \in Alerts, NEW p, NEW n \in 0..Len(a)
    PROVE  Unanswered(Append(a, row), n, p) <=> Unanswered(a, n, p)
  BY Appended DEF Unanswered

\* A row of another pair, or of none, changes nothing.
LEMMA OthersAlert ==
    ASSUME NEW a \in Seq(Alerts), NEW row \in Alerts, NEW p, row.of # p
    PROVE  /\ Alternate(a, p) => Alternate(Append(a, row), p)
           /\ Unanswered(Append(a, row), Len(a) + 1, p) <=> Unanswered(a, Len(a), p)
<1> DEFINE b == Append(a, row)
<1>1. /\ Len(a) \in Nat /\ Len(b) = Len(a) + 1 /\ b[Len(a) + 1] = row
      /\ \A i \in 1..Len(a) : b[i] = a[i]
  BY Appended
<1>2. Alternate(a, p) => Alternate(b, p)
  <2> SUFFICES ASSUME Alternate(a, p), NEW i \in 1..Len(b), b[i].of = p
               PROVE  b[i].kind = IF Unanswered(b, i - 1, p) THEN "recovery" ELSE "failure"
    BY DEF Alternate
  <2>1. i \in 1..Len(a) /\ i - 1 \in 0..Len(a) /\ b[i] = a[i]  BY <1>1
  <2>2. Unanswered(b, i - 1, p) <=> Unanswered(a, i - 1, p)  BY <2>1, Prefix
  <2> QED  BY <2>1, <2>2 DEF Alternate
<1>3. Unanswered(b, Len(a) + 1, p) <=> Unanswered(a, Len(a), p)
  BY <1>1 DEF Unanswered
<1> QED  BY <1>2, <1>3

\* A row that continues the alternation of its pair.
LEMMA OwnAlert ==
    ASSUME NEW a \in Seq(Alerts), NEW row \in Alerts, NEW p, row.of = p, Alternate(a, p),
           row.kind = IF Unanswered(a, Len(a), p) THEN "recovery" ELSE "failure"
    PROVE  /\ Alternate(Append(a, row), p)
           /\ Unanswered(Append(a, row), Len(a) + 1, p) <=> row.kind = "failure"
<1> DEFINE b == Append(a, row)
<1>1. /\ Len(a) \in Nat /\ Len(b) = Len(a) + 1 /\ b[Len(a) + 1] = row
      /\ \A i \in 1..Len(a) : b[i] = a[i]
  BY Appended
<1>2. Alternate(b, p)
  <2> SUFFICES ASSUME NEW i \in 1..Len(b), b[i].of = p
               PROVE  b[i].kind = IF Unanswered(b, i - 1, p) THEN "recovery" ELSE "failure"
    BY DEF Alternate
  <2>1. i - 1 \in 0..Len(a)  BY <1>1
  <2>2. Unanswered(b, i - 1, p) <=> Unanswered(a, i - 1, p)  BY <2>1, Prefix
  <2>3. CASE i = Len(a) + 1
    <3>1. i - 1 = Len(a)  BY <1>1, <2>3
    <3> QED  BY <1>1, <2>2, <2>3, <3>1
  <2>4. CASE i # Len(a) + 1
    <3>1. i \in 1..Len(a) /\ b[i] = a[i]  BY <1>1, <2>4
    <3> QED  BY <2>2, <3>1 DEF Alternate
  <2> QED  BY <2>3, <2>4
<1>3. Unanswered(b, Len(a) + 1, p) <=> row.kind = "failure"
  BY <1>1 DEF Unanswered
<1> QED  BY <1>2, <1>3

\* An alert in the database.
LEMMA Emitted ==
    ASSUME NEW d \in Databases, NEW kind \in Kinds, NEW p \in Pairs \cup {NoPair}
    PROVE  /\ Emit(d, kind, p) \in Databases
           /\ Emit(d, kind, p).partial = d.partial
           /\ \E row \in Alerts : /\ row.kind = kind /\ row.of = p
                                /\ Emit(d, kind, p).alerts = Append(d.alerts, row)
<1> DEFINE row == [kind |-> kind, of |-> p, delivered |-> FALSE, error |-> FALSE]
<1>1. row \in Alerts  BY DEF Alerts
<1>2. d.alerts \in Seq(Alerts)  BY DEF Databases
<1>3. Append(d.alerts, row) \in Seq(Alerts)  BY <1>1, <1>2, Appended
<1>4. Emit(d, kind, p) = [d EXCEPT !.alerts = Append(d.alerts, row)]  BY DEF Emit
<1>5. /\ Emit(d, kind, p) \in Databases /\ Emit(d, kind, p).partial = d.partial
      /\ Emit(d, kind, p).alerts = Append(d.alerts, row)
  BY <1>3, <1>4 DEF Databases
<1> QED  BY <1>1, <1>5

-----------------------------------------------------------------------------
(* Lemmas about candles *)

LEMMA ConstantTypes ==
    /\ BarTicks \in Nat \ {0} /\ Threshold \in Nat \ {0} /\ Margin \in Nat
    /\ MaxTime \in Nat /\ Bars \subseteq Nat
<1>1. /\ BarTicks \in Nat \ {0} /\ Threshold \in Nat \ {0}
      /\ Margin \in Nat /\ MaxTime \in Nat
  BY FeedAssumption
<1> QED  BY <1>1 DEF Bars

\* The closed bars of a cycle are closed at the venue too.
LEMMA ClosedBars ==
    ASSUME TypeOK, Clocks, NEW bars
    PROVE  \A b \in FilterClosed(bars) : b \in Bars /\ ~((b + 1) * BarTicks > VenueNow)
<1>1. /\ BarTicks \in Nat /\ Margin \in Nat /\ now \in Nat /\ lead \in 0..Margin
      /\ cycleNow \in Int /\ cycleNow <= now /\ Bars \subseteq Nat
  BY ConstantTypes DEF TypeOK, Clocks
<1>2. VenueNow \in Int /\ now - lead <= VenueNow
  <2>1. \E x \in {0, now - lead} : \A y \in {0, now - lead} : x >= y
    <3>1. CASE 0 >= now - lead  BY <1>1, <3>1
    <3>2. CASE ~(0 >= now - lead)  BY <1>1, <3>2
    <3> QED  BY <3>1, <3>2
  <2>2. VenueNow \in {0, now - lead} /\ \A y \in {0, now - lead} : VenueNow >= y
    BY <2>1 DEF VenueNow, Max
  <2> QED  BY <1>1, <2>2
<1> SUFFICES ASSUME NEW b \in FilterClosed(bars)
             PROVE  b \in Bars /\ ~((b + 1) * BarTicks > VenueNow)
  OBVIOUS
<1>3. b \in Bars /\ (b + 1) * BarTicks <= cycleNow - Margin  BY DEF FilterClosed
<1>4. (b + 1) * BarTicks \in Int  BY <1>1, <1>3
<1> QED  BY <1>1, <1>2, <1>3, <1>4

\* Storing them takes nothing from a forming bar.
LEMMA Stored ==
    ASSUME TypeOK, Clocks, NEW d \in Databases, NEW p \in Pairs, NEW bars
    PROVE  LET new == Upsert(d, p, FilterClosed(bars)) IN
           new \in Databases /\ new.partial = d.partial /\ new.alerts = d.alerts
<1> DEFINE closed == FilterClosed(bars)
           forming == {<<p, b>> : b \in {b \in closed \ d.candles[p] : (b + 1) * BarTicks > VenueNow}}
           new == Upsert(d, p, closed)
<1>1. \A b \in closed : b \in Bars /\ ~((b + 1) * BarTicks > VenueNow)  BY ClosedBars
<1>2. forming = {}  BY <1>1
<1>3. new = [d EXCEPT !.candles[p] = @ \cup closed, !.partial = @ \cup forming]  BY DEF Upsert
<1>4. d.candles \in [Pairs -> SUBSET Bars] /\ d.candles[p] \cup closed \in SUBSET Bars
  BY <1>1 DEF Databases
<1>5. PICK c : c = [d.candles EXCEPT ![p] = @ \cup closed]  OBVIOUS
<1>6. c \in [Pairs -> SUBSET Bars]  BY <1>4, <1>5
<1>7. new = [[d EXCEPT !.candles = c] EXCEPT !.partial = @ \cup forming]
  BY <1>3, <1>5
<1>8. d.partial \cup forming = d.partial  BY <1>2
<1> HIDE DEF closed, forming, new
<1>9. [d EXCEPT !.candles = c] \in Databases
      /\ [d EXCEPT !.candles = c].partial = d.partial /\ [d EXCEPT !.candles = c].alerts = d.alerts
  BY <1>6 DEF Databases
<1>10. PICK e : e = [d EXCEPT !.candles = c]  OBVIOUS
<1>11. new = [e EXCEPT !.partial = d.partial]  BY <1>7, <1>8, <1>9, <1>10
<1>12. e \in Databases /\ d.partial \in SUBSET (Pairs \X Bars)  BY <1>9, <1>10 DEF Databases
<1>13. PICK z : z = d.partial  OBVIOUS
<1>14. [e EXCEPT !.partial = z] \in Databases  BY <1>12, <1>13 DEF Databases
<1>15. [e EXCEPT !.partial = z].partial = z /\ [e EXCEPT !.partial = z].alerts = e.alerts
  BY <1>12 DEF Databases
<1>16. new \in Databases /\ new.partial = d.partial /\ new.alerts = d.alerts
  BY <1>9, <1>10, <1>11, <1>13, <1>14, <1>15
<1> QED  BY <1>16 DEF new, closed

-----------------------------------------------------------------------------
(* Each step *)

LEMMA Start == Init => IInv
<1> SUFFICES ASSUME Init  PROVE IInv  OBVIOUS
<1> DEFINE empty == [candles |-> [p \in Pairs |-> {}], partial |-> {}, alerts |-> << >>,
                     stale |-> {}]
<1>1. empty \in Databases
  <2>1. << >> \in Seq(Alerts) /\ [p \in Pairs |-> {}] \in [Pairs -> SUBSET Bars]  OBVIOUS
  <2> QED  BY <2>1 DEF Databases
<1>2. tx = empty /\ db = empty  BY DEF Init
<1>3. TypeOK
  <2>1. lead \in 0..Margin /\ Margin \in Nat  BY ConstantTypes DEF Init
  <2>2. redis \in [count : [Pairs -> Nat], alerted : [Pairs -> BOOLEAN]]  BY DEF Init
  <2>3. now \in Nat /\ cycleNow \in Int /\ faults \in Nat /\ failing \in [Pairs -> Nat]  BY DEF Init
  <2>4. feed \in Feeds /\ open \in BOOLEAN /\ pc = "idle"  BY DEF Init
  <2> QED  BY <1>1, <1>2, <2>1, <2>2, <2>3, <2>4 DEF TypeOK
<1>4. Clocks /\ NothingPartial /\ Committed /\ Opened /\ FirstPairCommits
  BY <1>2 DEF Init, Clocks, NothingPartial, Committed, Opened, FirstPairCommits
<1>5. Counted  BY ConstantTypes DEF Init, Counted
<1>6. StreakAlerted
  <2>1. Len(tx.alerts) = 0  BY <1>2
  <2>2. \A p \in Pairs : ~(failing[p] >= Threshold)  BY ConstantTypes DEF Init
  <2> QED  BY <2>1, <2>2 DEF StreakAlerted, Alternate, Unanswered
<1> QED  BY <1>3, <1>4, <1>5, <1>6 DEF IInv

\* A step that leaves Redis, the streaks and the labels of the alerts alone.
LEMMA LabelsKept ==
    ASSUME IInv, TypeOK', UNCHANGED <<feed, redis, failing>>, faults' = 0 => faults = 0,
           Len(tx.alerts) = Len(tx'.alerts),
           \A i \in 1..Len(tx.alerts) : /\ tx.alerts[i].of = tx'.alerts[i].of
                                       /\ tx.alerts[i].kind = tx'.alerts[i].kind
    PROVE  ((faults = 0 /\ ClassifiedFeed) => Counted)' /\ StreakAlerted'
<1>1. tx.alerts \in Seq(Alerts) /\ tx'.alerts \in Seq(Alerts)
  BY DEF IInv, TypeOK, Databases
<1>2. ASSUME NEW p \in Pairs
      PROVE  /\ Alternate(tx.alerts, p) => Alternate(tx'.alerts, p)
             /\ Unanswered(tx.alerts, Len(tx.alerts), p)
                    <=> Unanswered(tx'.alerts, Len(tx'.alerts), p)
  BY <1>1, SameLabels
<1>3. StreakAlerted'
  BY <1>2 DEF IInv, StreakAlerted
<1>4. ((faults = 0 /\ ClassifiedFeed) => Counted)'
  BY DEF IInv, Counted, ClassifiedFeed
<1> QED  BY <1>3, <1>4

\* The process dies, or the job ends by an exception, with a fault.
LEMMA AbortStep ==
    ASSUME IInv, Abort, UNCHANGED <<redis, failing>>
    PROVE  IInv'
<1>1. TypeOK'
  <2>1. faults' \in Nat  BY DEF IInv, TypeOK, Abort
  <2>2. UNCHANGED <<feed, now, lead, db, cycleNow, redis, failing>>  BY DEF Abort
  <2>3. open' \in BOOLEAN /\ pc' = "idle" /\ tx' = db  BY DEF Abort
  <2> QED  BY <2>1, <2>2, <2>3 DEF IInv, TypeOK
<1>2. (Clocks /\ NothingPartial /\ Committed /\ Opened /\ FirstPairCommits)'
  BY DEF IInv, Abort, Clocks, NothingPartial, Committed, Opened, FirstPairCommits
<1>3. faults' # 0  BY DEF IInv, TypeOK, Abort
<1> QED  BY <1>1, <1>2, <1>3 DEF IInv, StreakAlerted

\* The head of the pairs, and the cycle behind it.
LEMMA NextPair ==
    ASSUME IInv, pc \in {"ingest", "backfill"}, todo # << >>
    PROVE  /\ Head(todo) \in Pairs /\ Len(feed) \in Nat \ {0} /\ Len(todo) \in 1..Len(feed)
           /\ Head(todo) = feed[Len(feed) - Len(todo) + 1]
           /\ Tail(todo) \in Seq(Pairs) /\ Len(Tail(todo)) = Len(todo) - 1
           /\ \A k \in 1..Len(Tail(todo)) :
                 Tail(todo)[k] = feed[Len(feed) - Len(Tail(todo)) + k]
<1>1. CycleTyped  BY DEF IInv, TypeOK
<1>2. feed \in Seq(Pairs) /\ feed # << >>  BY FeedAssumption DEF IInv, TypeOK
<1>3. todo \in Seq(Pairs) /\ Len(todo) \in Nat \ {0} /\ Len(feed) \in Nat \ {0}
  BY <1>1, <1>2, EmptySeq DEF CycleTyped
<1>4. /\ Tail(todo) \in Seq(Pairs) /\ Len(Tail(todo)) = Len(todo) - 1 /\ Head(todo) = todo[1]
      /\ \A k \in 1..Len(Tail(todo)) : Tail(todo)[k] = todo[k + 1]
  BY <1>3, HeadTailProperties
<1>5. \A k \in 1..Len(todo) : todo[k] = feed[Len(feed) - Len(todo) + k]
  BY <1>1 DEF CycleTyped
<1>6. Head(todo) = feed[Len(feed) - Len(todo) + 1]  BY <1>3, <1>4, <1>5
<1>7. ASSUME NEW k \in 1..Len(Tail(todo))
      PROVE  Tail(todo)[k] = feed[Len(feed) - Len(Tail(todo)) + k]
  <2>1. /\ k + 1 \in 1..Len(todo)
        /\ Len(feed) - Len(todo) + (k + 1) = Len(feed) - Len(Tail(todo)) + k
    BY <1>3, <1>4
  <2> QED  BY <1>4, <1>5, <2>1
<1>8. Head(todo) \in Pairs /\ Len(todo) \in 1..Len(feed)
  BY <1>1, <1>3, HeadTailProperties DEF CycleTyped
<1> QED  BY <1>2, <1>3, <1>4, <1>6, <1>7, <1>8

LEMMA StartCycleStep == ASSUME IInv, StartCycle  PROVE IInv'
<1> USE DEF StartCycle
<1>1. TypeOK'
  <2>1. feed \in Seq(Pairs)  BY FeedAssumption DEF IInv, TypeOK
  <2>2. Len(feed) \in Nat  BY <2>1, LenProperties
  <2>3. CASE Adapter = "none"  BY <2>3 DEF IInv, TypeOK
  <2>4. CASE Adapter # "none"
    <3>1. CycleTyped'
      BY <2>1, <2>2, <2>4 DEF CycleTyped, Adapter
    <3> QED  BY <2>4, <3>1 DEF IInv, TypeOK
  <2> QED  BY <2>3, <2>4
<1>2. (Clocks /\ NothingPartial /\ Committed /\ Opened)'
  BY DEF IInv, TypeOK, Clocks, NothingPartial, Committed, Opened
<1>3. FirstPairCommits'
  BY DEF IInv, Committed, Opened, FirstPairCommits
<1>4. (((faults = 0 /\ ClassifiedFeed) => Counted)') /\ StreakAlerted'
  BY <1>1, LabelsKept
<1> QED  BY <1>1, <1>2, <1>3, <1>4 DEF IInv

LEMMA SkipWeekendStep == ASSUME IInv, SkipWeekend  PROVE IInv'
<1> USE DEF SkipWeekend
<1>1. TypeOK'
  <2>1. CycleTyped /\ Len(feed) \in Nat  BY NextPair DEF IInv, TypeOK
  <2>2. Adapter' # "none"  BY <2>1 DEF CycleTyped, Adapter
  <2>3. CycleTyped'  BY <2>1, <2>2, NextPair DEF CycleTyped
  <2> QED  BY <2>3 DEF IInv, TypeOK
<1>2. (Clocks /\ NothingPartial /\ Committed /\ Opened)'
  BY DEF IInv, TypeOK, Clocks, NothingPartial, Committed, Opened
<1>3. FirstPairCommits'
  <2>1. Handled' = Handled + 1 /\ Handled >= 0  BY NextPair DEF Handled
  <2> QED  BY <2>1, NextPair DEF IInv, FirstPairCommits, Handled
<1>4. (((faults = 0 /\ ClassifiedFeed) => Counted)') /\ StreakAlerted'
  BY <1>1, LabelsKept
<1> QED  BY <1>1, <1>2, <1>3, <1>4 DEF IInv

\* A symbol of no class behind the second may not end a cycle, the first one
\* has an adapter, and what the first pair wrote is committed.
LEMMA ClassifyRaisesStep == ASSUME IInv, ClassifyRaises  PROVE IInv'
<1> USE DEF ClassifyRaises
<1>1. TypeOK'  BY DEF IInv, TypeOK
<1>2. (Clocks /\ NothingPartial /\ Committed /\ Opened /\ FirstPairCommits)'
  BY DEF IInv, Clocks, NothingPartial, Committed, Opened, FirstPairCommits
<1>3. CASE ClassifiedFeed
  <2> DEFINE k == Len(feed) - Len(todo) + 1
  <2>1. k \in 1..Len(feed) /\ InferAssetClass(feed[k]) = "unknown" /\ Len(feed) \in Nat
        /\ Len(todo) \in Nat
    BY NextPair
  <2>2. k \notin 3..Len(feed)  BY <1>3, <2>1 DEF ClassifiedFeed
  <2>3. k # 1
    <3>1. Adapter # "none"  BY DEF IInv, TypeOK, CycleTyped
    <3> QED  BY <2>1, <3>1 DEF Adapter, AdapterOf
  <2>4. k = 2  BY <2>1, <2>2, <2>3
  <2>5. Handled <= 1  BY <2>1, <2>4 DEF Handled
  <2>6. tx'.alerts = tx.alerts  BY <2>5 DEF IInv, FirstPairCommits
  <2>7. (((faults = 0 /\ ClassifiedFeed) => Counted)') /\ StreakAlerted'
    BY <1>1, <2>6, LabelsKept
  <2> QED  BY <1>1, <1>2, <2>7 DEF IInv
<1>4. CASE ~ClassifiedFeed
  <2>1. ~ClassifiedFeed'  BY <1>4 DEF ClassifiedFeed
  <2> QED  BY <1>1, <1>2, <2>1 DEF IInv, StreakAlerted, ClassifiedFeed
<1> QED  BY <1>3, <1>4

\* The commit at the end of a job.
LEMMA CommitStep ==
    ASSUME IInv, Commit,
           UNCHANGED <<feed, now, lead, redis, cycleNow, failing, sent, faults>>
    PROVE  IInv'
<1> USE DEF Commit
<1>1. TypeOK'  BY DEF IInv, TypeOK
<1>2. (Clocks /\ NothingPartial /\ Committed /\ Opened /\ FirstPairCommits)'
  BY DEF IInv, Clocks, NothingPartial, Committed, Opened, FirstPairCommits
<1>3. (((faults = 0 /\ ClassifiedFeed) => Counted)') /\ StreakAlerted'
  BY <1>1, LabelsKept
<1> QED  BY <1>1, <1>2, <1>3 DEF IInv

\* What a write leaves true, in or outside a transaction.
LEMMA Written ==
    ASSUME IInv, NEW d \in Databases, d.partial = {}, Write(d)
    PROVE  /\ tx' = d /\ tx' \in Databases /\ db' \in Databases /\ NothingPartial'
           /\ ~open => db' = d
           /\ open => db' = db
  BY DEF IInv, TypeOK, Write, NothingPartial

\* The fetch of the pair at hand leads to the pairs behind it.
LEMMA PairDone ==
    ASSUME IInv, pc \in {"ingest", "backfill"}, todo # << >>, todo' = Tail(todo),
           pc' = "ingest", feed' = feed
    PROVE  /\ CycleTyped'
           /\ Handled' = IF pc = "ingest" THEN Handled + 1 ELSE Handled
           /\ Handled \in Nat
<1>1. CycleTyped  BY DEF IInv, TypeOK
<1>2. Adapter' # "none"  BY <1>1 DEF CycleTyped, Adapter
<1>3. CycleTyped'  BY <1>2, NextPair DEF CycleTyped
<1>4. Handled' = (IF pc = "ingest" THEN Handled + 1 ELSE Handled) /\ Handled \in Nat
  BY NextPair DEF Handled
<1> QED  BY <1>3, <1>4

\* The alert that a fetch writes continues the alternation of its pair.
LEMMA AlertWritten ==
    ASSUME IInv, TypeOK', faults = 0, ClassifiedFeed, NEW p \in Pairs, NEW row \in Alerts,
           row.of = p, row.kind = IF failing[p] >= Threshold THEN "recovery" ELSE "failure",
           tx'.alerts = Append(tx.alerts, row),
           failing'[p] >= Threshold <=> row.kind = "failure",
           \A q \in Pairs \ {p} : failing'[q] = failing[q]
    PROVE  StreakAlerted'
<1>1. \A q \in Pairs :
         /\ Alternate(tx.alerts, q)
         /\ Unanswered(tx.alerts, Len(tx.alerts), q) <=> (failing[q] >= Threshold)
  BY DEF IInv, StreakAlerted, ClassifiedFeed
<1>2. tx.alerts \in Seq(Alerts)  BY DEF IInv, TypeOK, Databases
<1>3. Len(tx'.alerts) = Len(tx.alerts) + 1  BY <1>2, Appended
<1>4. /\ Alternate(tx'.alerts, p)
      /\ Unanswered(tx'.alerts, Len(tx'.alerts), p) <=> (failing'[p] >= Threshold)
  BY <1>1, <1>2, <1>3, OwnAlert
<1>5. ASSUME NEW q \in Pairs \ {p}
      PROVE  /\ Alternate(tx'.alerts, q)
             /\ Unanswered(tx'.alerts, Len(tx'.alerts), q) <=> (failing'[q] >= Threshold)
  BY <1>1, <1>2, <1>3, OthersAlert
<1> QED  BY <1>4, <1>5 DEF StreakAlerted

\* So does none where the streak stays on its side of the threshold.
LEMMA NoAlertWritten ==
    ASSUME IInv, faults = 0, ClassifiedFeed, tx'.alerts = tx.alerts,
           \A q \in Pairs : failing'[q] >= Threshold <=> failing[q] >= Threshold
    PROVE  StreakAlerted'
  BY DEF IInv, StreakAlerted, ClassifiedFeed

\* What happens behind a fault, or in a feed where alerts may be lost.
LEMMA OutsideStreaks ==
    ASSUME UNCHANGED <<feed, faults>>,
           (faults = 0 /\ ClassifiedFeed) => Counted' /\ StreakAlerted'
    PROVE  ((faults = 0 /\ ClassifiedFeed) => Counted)' /\ StreakAlerted'
<1>1. ClassifiedFeed' <=> ClassifiedFeed  BY DEF ClassifiedFeed
<1>2. ~(faults = 0 /\ ClassifiedFeed) => StreakAlerted'  BY DEF StreakAlerted, ClassifiedFeed
<1> QED  BY <1>1, <1>2

LEMMA FetchFailsStep == ASSUME IInv, NEW p \in Pairs, FetchFails(p)  PROVE IInv'
<1> DEFINE n == redis.count[p] + 1
           fire == n = Threshold /\ ~redis.alerted[p]
           new == IF fire THEN Emit(tx, "failure", p) ELSE tx
<1>1. /\ pc = "ingest" /\ pc' = pc /\ todo # << >> /\ todo' = Tail(todo)
      /\ UNCHANGED <<feed, now, lead, open, cycleNow, faults>>
      /\ failing' = [failing EXCEPT ![p] = @ + 1]
      /\ redis' = [redis EXCEPT !.count[p] = n, !.alerted[p] = @ \/ fire]
      /\ tx' = new
      /\ db' = IF open \/ ~fire THEN db ELSE new
  BY DEF FetchFails, Failed, Fetch, Write
<1>2. tx \in Databases /\ db \in Databases /\ tx.partial = {} /\ db.partial = {}
  BY DEF IInv, TypeOK, NothingPartial
<1>3. new \in Databases /\ new.partial = {}
  <2>1. "failure" \in Kinds /\ p \in Pairs \cup {NoPair}  BY DEF Kinds
  <2>2. Emit(tx, "failure", p) \in Databases /\ Emit(tx, "failure", p).partial = tx.partial
    BY <1>2, <2>1, Emitted
  <2> QED  BY <1>2, <2>2
<1>4. /\ redis \in [count : [Pairs -> Nat], alerted : [Pairs -> BOOLEAN]]
      /\ failing \in [Pairs -> Nat]
  BY DEF IInv, TypeOK
<1>5. /\ redis' \in [count : [Pairs -> Nat], alerted : [Pairs -> BOOLEAN]]
      /\ redis'.count = [redis.count EXCEPT ![p] = n]
      /\ redis'.alerted = [redis.alerted EXCEPT ![p] = @ \/ fire]
      /\ failing' \in [Pairs -> Nat]
  <2>1. n \in Nat /\ failing[p] + 1 \in Nat  BY <1>4
  <2>2. (redis.alerted[p] \/ fire) \in BOOLEAN  OBVIOUS
  <2> QED  BY <1>1, <1>4, <2>1, <2>2
<1>6. TypeOK'
  BY <1>1, <1>2, <1>3, <1>5, PairDone DEF IInv, TypeOK
<1>7. (Clocks /\ NothingPartial /\ Committed /\ Opened)'
  BY <1>1, <1>2, <1>3 DEF IInv, Clocks, NothingPartial, Committed, Opened
<1>8. FirstPairCommits'
  <2>1. Handled' = Handled + 1 /\ Handled \in Nat  BY <1>1, PairDone
  <2>2. Handled' <= 1 => ~open  BY <1>1, <2>1 DEF IInv, FirstPairCommits
  <2>3. ~open => db' = new  BY <1>1 DEF IInv, Committed
  <2> QED  BY <1>1, <2>1, <2>2, <2>3 DEF FirstPairCommits
<1>9. ASSUME faults = 0, ClassifiedFeed  PROVE Counted' /\ StreakAlerted'
  <2>1. Counted  BY <1>9 DEF IInv
  <2>2. n = failing[p] + 1 /\ (fire <=> n = Threshold) /\ failing[p] \in Nat
    BY <1>4, <2>1, ConstantTypes DEF Counted
  <2>3. \A q \in Pairs \ {p} : /\ failing'[q] = failing[q]
                              /\ redis'.count[q] = redis.count[q]
                              /\ redis'.alerted[q] = redis.alerted[q]
    BY <1>1, <1>4, <1>5
  <2>4. failing'[p] = n /\ redis'.count[p] = n /\ redis'.alerted[p] = (redis.alerted[p] \/ fire)
    BY <1>1, <1>4, <1>5, <2>2
  <2>5. redis'.alerted[p] <=> n >= Threshold
    <3>1. redis.alerted[p] <=> failing[p] >= Threshold  BY <2>1 DEF Counted
    <3>2. n >= Threshold <=> (failing[p] >= Threshold \/ n = Threshold)
      BY <2>2, ConstantTypes
    <3>3. redis'.alerted[p] <=> (redis.alerted[p] \/ fire)  BY <2>4
    <3> HIDE DEF n, fire
    <3> QED  BY <2>2, <3>1, <3>2, <3>3
  <2>6. Counted'  BY <2>1, <2>3, <2>4, <2>5 DEF Counted
  <2>7. CASE ~fire
    <3>1. \A q \in Pairs : failing'[q] >= Threshold <=> failing[q] >= Threshold
      BY <2>2, <2>3, <2>4, <2>7, ConstantTypes
    <3> QED  BY <1>1, <1>9, <2>6, <2>7, <3>1, NoAlertWritten
  <2>8. CASE fire
    <3>1. "failure" \in Kinds /\ p \in Pairs \cup {NoPair} /\ tx' = Emit(tx, "failure", p)
      BY <1>1, <2>8 DEF Kinds
    <3>2. PICK row \in Alerts : /\ row.kind = "failure" /\ row.of = p
                                /\ tx'.alerts = Append(tx.alerts, row)
      BY <1>2, <3>1, Emitted
    <3>3. ~(failing[p] >= Threshold) /\ failing'[p] >= Threshold
      BY <2>2, <2>4, <2>8, ConstantTypes
    <3>4. StreakAlerted'  BY <1>6, <1>9, <2>3, <3>2, <3>3, AlertWritten
    <3> QED  BY <2>6, <3>4
  <2> QED  BY <2>7, <2>8
<1> QED  BY <1>1, <1>6, <1>7, <1>8, <1>9, OutsideStreaks DEF IInv

LEMMA FetchStoresStep == ASSUME IInv, NEW p \in Pairs, FetchStores(p)  PROVE IInv'
<1>1. /\ pc = "ingest" /\ todo # << >>
      /\ UNCHANGED <<feed, now, lead, cycleNow, faults>> /\ open' = TRUE
      /\ failing' = [failing EXCEPT ![p] = 0]
      /\ redis' = [redis EXCEPT !.count[p] = 0, !.alerted[p] = FALSE]
      /\ \/ pc' = "backfill" /\ todo' = todo
         \/ pc' = pc /\ todo' = Tail(todo)
  BY DEF FetchStores, Succeeded, Fetch
<1>2. /\ tx \in Databases /\ tx.partial = {}
      /\ redis \in [count : [Pairs -> Nat], alerted : [Pairs -> BOOLEAN]]
      /\ failing \in [Pairs -> Nat]
  BY DEF IInv, TypeOK, NothingPartial
<1>3. PICK published \in Published :
         LET stored == Upsert(tx, p, FilterClosed(FetchRecent(published)))
         IN Write(IF redis.alerted[p] THEN Emit(stored, "recovery", p) ELSE stored)
  BY DEF FetchStores, Succeeded
<1> DEFINE stored == Upsert(tx, p, FilterClosed(FetchRecent(published)))
           new == IF redis.alerted[p] THEN Emit(stored, "recovery", p) ELSE stored
<1>4. stored \in Databases /\ stored.partial = {} /\ stored.alerts = tx.alerts
  BY <1>2, Stored DEF IInv
<1>5. "recovery" \in Kinds /\ p \in Pairs \cup {NoPair}  BY DEF Kinds
<1>6. /\ Emit(stored, "recovery", p) \in Databases
      /\ Emit(stored, "recovery", p).partial = {}
      /\ \E row \in Alerts : /\ row.kind = "recovery" /\ row.of = p
                           /\ Emit(stored, "recovery", p).alerts = Append(tx.alerts, row)
  <2> HIDE DEF stored
  <2> QED  BY <1>4, <1>5, Emitted
<1>7. new \in Databases /\ new.partial = {} /\ Write(new)  BY <1>3, <1>4, <1>6
<1> HIDE DEF new
<1>8. /\ tx' = new /\ tx' \in Databases /\ db' \in Databases /\ NothingPartial'
      /\ ~open => db' = new
  BY <1>7, Written
<1>9. /\ redis' \in [count : [Pairs -> Nat], alerted : [Pairs -> BOOLEAN]]
      /\ redis'.count = [redis.count EXCEPT ![p] = 0]
      /\ redis'.alerted = [redis.alerted EXCEPT ![p] = FALSE]
      /\ failing' \in [Pairs -> Nat]
  BY <1>1, <1>2
<1>10. CycleTyped' /\ Handled' = Handled + 1 /\ Handled \in Nat
  <2>1. CASE pc' = "backfill" /\ todo' = todo
    <3>1. CycleTyped /\ Handled \in Nat /\ Len(feed) \in Nat /\ Len(todo) \in Nat
      BY <1>1, NextPair DEF IInv, TypeOK, Handled
    <3>2. CycleTyped'  BY <1>1, <2>1, <3>1 DEF CycleTyped, Adapter
    <3> QED  BY <1>1, <2>1, <3>1, <3>2 DEF Handled
  <2>2. CASE pc' = pc /\ todo' = Tail(todo)
    BY <1>1, <2>2, PairDone
  <2> QED  BY <1>1, <2>1, <2>2
<1>11. TypeOK'
  <2>1. pc' \in {"ingest", "backfill"} /\ open' \in BOOLEAN  BY <1>1
  <2> QED  BY <1>1, <1>8, <1>9, <1>10, <2>1 DEF IInv, TypeOK
<1>12. (Clocks /\ Committed /\ Opened)'
  BY <1>1 DEF IInv, Clocks, Committed, Opened
<1>13. FirstPairCommits'
  <2>1. Handled' <= 1 => ~open  BY <1>1, <1>10 DEF IInv, FirstPairCommits
  <2> QED  BY <1>8, <1>10, <2>1 DEF FirstPairCommits
<1>14. ASSUME faults = 0, ClassifiedFeed  PROVE Counted' /\ StreakAlerted'
  <2>1. Counted  BY <1>14 DEF IInv
  <2>2. \A q \in Pairs \ {p} : /\ failing'[q] = failing[q]
                              /\ redis'.count[q] = redis.count[q]
                              /\ redis'.alerted[q] = redis.alerted[q]
    BY <1>1, <1>2, <1>9
  <2>3. failing'[p] = 0 /\ redis'.count[p] = 0 /\ ~redis'.alerted[p] /\ ~(0 >= Threshold)
    BY <1>1, <1>2, <1>9, ConstantTypes
  <2>4. Counted'  BY <2>1, <2>2, <2>3 DEF Counted
  <2>5. redis.alerted[p] <=> failing[p] >= Threshold  BY <2>1 DEF Counted
  <2>6. CASE redis.alerted[p]
    <3>1. new = Emit(stored, "recovery", p)  BY <2>6 DEF new
    <3>2. PICK row \in Alerts : /\ row.kind = "recovery" /\ row.of = p
                                /\ tx'.alerts = Append(tx.alerts, row)
      BY <1>6, <1>8, <3>1
    <3>3. StreakAlerted'
      BY <1>11, <1>14, <2>2, <2>3, <2>5, <2>6, <3>2, AlertWritten
    <3> QED  BY <2>4, <3>3
  <2>7. CASE ~redis.alerted[p]
    <3>1. tx'.alerts = tx.alerts  BY <1>4, <1>8, <2>7 DEF new
    <3>2. \A q \in Pairs : failing'[q] >= Threshold <=> failing[q] >= Threshold
      BY <2>2, <2>3, <2>5, <2>7
    <3> QED  BY <1>14, <2>4, <3>1, <3>2, NoAlertWritten
  <2> QED  BY <2>6, <2>7
<1> QED  BY <1>1, <1>8, <1>11, <1>12, <1>13, <1>14, OutsideStreaks DEF IInv

\* A backfill stores closed bars and reports what it leaves; no alert.
LEMMA BackfillStep ==
    ASSUME IInv, pc = "backfill", NEW p \in Pairs, NEW d \in Databases,
           d.partial = {}, d.alerts = tx.alerts, tx' = Reported(d, p),
           pc' = "ingest", todo' = Tail(todo),
           UNCHANGED <<feed, now, lead, db, open, redis, cycleNow, failing, sent, faults>>
    PROVE  IInv'
<1>1. tx' \in Databases /\ tx'.partial = {} /\ tx'.alerts = tx.alerts
  <2>1. cycleNow \in Int  BY DEF IInv, TypeOK
  <2>2. d.stale \cup {<<p, cycleNow>>} \in SUBSET (Pairs \X Int)  BY <2>1 DEF Databases
  <2> QED  BY <2>2 DEF Reported, Databases
<1>2. todo # << >>  BY DEF IInv, TypeOK, CycleTyped
<1>3. CycleTyped' /\ Handled' = Handled  BY <1>2, PairDone
<1>4. TypeOK'  BY <1>1, <1>3 DEF IInv, TypeOK
<1>5. Handled >= 1  BY <1>2, NextPair DEF Handled
<1>6. open  BY DEF IInv, Opened
<1>7. (Clocks /\ NothingPartial /\ Committed /\ Opened)'
  BY <1>1, <1>6 DEF IInv, Clocks, NothingPartial, Committed, Opened
<1>8. FirstPairCommits'  BY <1>1, <1>3, <1>5 DEF IInv, FirstPairCommits
<1>9. (((faults = 0 /\ ClassifiedFeed) => Counted)') /\ StreakAlerted'
  BY <1>1, <1>4, LabelsKept
<1> QED  BY <1>4, <1>7, <1>8, <1>9 DEF IInv

LEMMA BackfillStoresStep ==
    ASSUME IInv, NEW p \in Pairs, NEW published \in Published, BackfillStores(p, published)
    PROVE  IInv'
<1> DEFINE d == Upsert(tx, p, FilterClosed(FetchSince(Min(Recent(tx, p)) + 1, published)))
<1>1. tx \in Databases /\ tx.partial = {}  BY DEF IInv, TypeOK, NothingPartial
<1>2. d \in Databases /\ d.partial = {} /\ d.alerts = tx.alerts
  BY <1>1, Stored DEF IInv
<1>3. /\ tx' = Reported(d, p) /\ pc = "backfill" /\ pc' = "ingest" /\ todo' = Tail(todo)
      /\ UNCHANGED <<feed, now, lead, db, open, redis, cycleNow, failing, sent, faults>>
  BY DEF BackfillStores
<1> HIDE DEF d
<1> QED  BY <1>2, <1>3, BackfillStep

LEMMA BackfillFailsStep == ASSUME IInv, NEW p \in Pairs, BackfillFails(p)  PROVE IInv'
<1>1. tx \in Databases /\ tx.partial = {}  BY DEF IInv, TypeOK, NothingPartial
<1> QED  BY <1>1, BackfillStep DEF BackfillFails

LEMMA EmitOtherStep ==
    ASSUME IInv, NEW kind \in {"info", "refusable"}, EmitOther(kind)
    PROVE  IInv'
<1> DEFINE new == Emit(tx, kind, NoPair)
<1>1. /\ pc = "idle" /\ Write(new)
      /\ UNCHANGED <<feed, now, lead, open, redis, pc, cycleNow, todo, failing, sent, faults>>
  BY DEF EmitOther
<1>2. tx \in Databases /\ tx.partial = {} /\ kind \in Kinds
  BY DEF IInv, TypeOK, NothingPartial, Kinds
<1>3. /\ new \in Databases /\ new.partial = {}
      /\ \E row \in Alerts : row.of = NoPair /\ new.alerts = Append(tx.alerts, row)
  BY <1>2, Emitted
<1> HIDE DEF new
<1>4. tx' = new /\ tx' \in Databases /\ db' \in Databases /\ NothingPartial'
  BY <1>1, <1>3, Written
<1>5. TypeOK'  BY <1>1, <1>4 DEF IInv, TypeOK
<1>6. (Clocks /\ Committed /\ Opened /\ FirstPairCommits)'
  BY <1>1, <1>3, Written DEF IInv, Clocks, Committed, Opened, FirstPairCommits
<1>7. ASSUME faults = 0, ClassifiedFeed  PROVE Counted' /\ StreakAlerted'
  <2>1. PICK row \in Alerts : row.of = NoPair /\ tx'.alerts = Append(tx.alerts, row)
    BY <1>3, <1>4
  <2>2. tx.alerts \in Seq(Alerts)  BY <1>2 DEF Databases
  <2>3. Len(tx'.alerts) = Len(tx.alerts) + 1  BY <2>1, <2>2, Appended
  <2>4. NoPair \notin Pairs  BY FeedAssumption DEF NoPair
  <2>5. \A q \in Pairs :
           /\ Alternate(tx.alerts, q)
           /\ Unanswered(tx.alerts, Len(tx.alerts), q) <=> (failing[q] >= Threshold)
    BY <1>7 DEF IInv, StreakAlerted, ClassifiedFeed
  <2>6. ASSUME NEW q \in Pairs
        PROVE  /\ Alternate(tx'.alerts, q)
               /\ Unanswered(tx'.alerts, Len(tx'.alerts), q) <=> (failing'[q] >= Threshold)
    BY <1>1, <2>1, <2>2, <2>3, <2>4, <2>5, OthersAlert
  <2>7. Counted'  BY <1>1, <1>7 DEF IInv, Counted
  <2> QED  BY <2>6, <2>7 DEF StreakAlerted
<1> QED  BY <1>1, <1>4, <1>5, <1>6, <1>7, OutsideStreaks DEF IInv

\* The dispatcher changes what is delivered, and no label.
LEMMA HandleStep ==
    ASSUME IInv, pc = "dispatch", NEW i, NEW delivered \in BOOLEAN, NEW error \in BOOLEAN,
           Handle(i, [tx.alerts[i] EXCEPT !.delivered = delivered, !.error = error]),
           faults' \in Nat, faults' = 0 => faults = 0
    PROVE  IInv'
<1> DEFINE row == [tx.alerts[i] EXCEPT !.delivered = delivered, !.error = error]
           new == [tx.alerts EXCEPT ![i] = row]
<1>1. /\ tx' = [tx EXCEPT !.alerts[i] = row]
      /\ UNCHANGED <<feed, now, lead, db, open, redis, pc, cycleNow, failing>>
  BY DEF Handle
<1>2. tx \in Databases /\ tx.alerts \in Seq(Alerts) /\ tx.partial = {} /\ open
  BY DEF IInv, TypeOK, NothingPartial, Databases, Opened
<1>3. /\ new \in Seq(Alerts) /\ Len(new) = Len(tx.alerts)
      /\ \A k \in 1..Len(tx.alerts) : tx.alerts[k].of = new[k].of /\ tx.alerts[k].kind = new[k].kind
  <2>1. CASE i \in 1..Len(tx.alerts)
    <3>1. tx.alerts[i] \in Alerts  BY <1>2, <2>1, ElementOfSeq
    <3>2. row \in Alerts /\ row.of = tx.alerts[i].of /\ row.kind = tx.alerts[i].kind
      BY <3>1 DEF Alerts
    <3> HIDE DEF row
    <3> QED  BY <1>2, <2>1, <3>2, ExceptSeq
  <2>2. CASE i \notin 1..Len(tx.alerts)
    <3>1. DOMAIN tx.alerts = 1..Len(tx.alerts)  BY <1>2, LenProperties
    <3>2. new = tx.alerts
      <4> HIDE DEF row
      <4> QED  BY <1>2, <2>2, <3>1, LenProperties
    <3> QED  BY <1>2, <3>2
  <2> QED  BY <2>1, <2>2
<1>4. tx' \in Databases /\ tx'.alerts = new /\ tx'.partial = {}
  <2> HIDE DEF row
  <2>1. tx' = [tx EXCEPT !.alerts = new]  BY <1>1, <1>2 DEF Databases
  <2> HIDE DEF new
  <2> QED  BY <1>2, <1>3, <2>1 DEF Databases
<1> HIDE DEF new
<1>5. TypeOK'  BY <1>1, <1>4 DEF IInv, TypeOK
<1>6. (Clocks /\ NothingPartial /\ Committed /\ Opened /\ FirstPairCommits)'
  BY <1>1, <1>2, <1>4 DEF IInv, Clocks, NothingPartial, Committed, Opened, FirstPairCommits
<1>7. (((faults = 0 /\ ClassifiedFeed) => Counted)') /\ StreakAlerted'
  BY <1>1, <1>3, <1>4, <1>5, LabelsKept
<1> QED  BY <1>5, <1>6, <1>7 DEF IInv

LEMMA SendStep == ASSUME IInv, Send  PROVE IInv'
<1>1. PICK i, attempts : SendToTelegram(i, attempts)
  BY DEF Send
<1>2. faults' \in Nat /\ (faults' = 0 => faults = 0) /\ pc = "dispatch"
  BY DEF Send, IInv, TypeOK
<1> DEFINE success == Last(attempts) = "ok"
<1>3. Handle(i, [tx.alerts[i] EXCEPT !.delivered = success, !.error = ~success])
  BY <1>1 DEF SendToTelegram
<1>4. success \in BOOLEAN /\ (~success) \in BOOLEAN  OBVIOUS
<1> HIDE DEF success
<1> QED  BY <1>2, <1>3, <1>4, HandleStep

LEMMA MarkInfoStep == ASSUME IInv, MarkInfo  PROVE IInv'
<1>1. /\ pc = "dispatch" /\ faults' = faults
      /\ \E i : Handle(i, [tx.alerts[i] EXCEPT !.delivered = TRUE, !.error = FALSE])
  BY DEF MarkInfo
<1>2. faults \in Nat  BY DEF IInv, TypeOK
<1> QED  BY <1>1, <1>2, HandleStep

LEMMA StartDispatchStep == ASSUME IInv, StartDispatch  PROVE IInv'
<1> USE DEF StartDispatch
<1>1. TypeOK'  BY DEF IInv, TypeOK
<1>2. (Clocks /\ NothingPartial /\ Committed /\ Opened /\ FirstPairCommits)'
  BY DEF IInv, Clocks, NothingPartial, Committed, Opened, FirstPairCommits
<1>3. (((faults = 0 /\ ClassifiedFeed) => Counted)') /\ StreakAlerted'
  BY <1>1, LabelsKept
<1> QED  BY <1>1, <1>2, <1>3 DEF IInv

\* A tick of the clock, or no step.
LEMMA TickStep == ASSUME IInv, Tick \/ UNCHANGED vars  PROVE IInv'
<1>1. /\ now' \in Nat /\ now' >= now
      /\ UNCHANGED <<feed, lead, db, tx, open, redis, pc, cycleNow, todo, failing, faults>>
  BY DEF Tick, vars, IInv, TypeOK
<1>2. CycleTyped' <=> CycleTyped  BY <1>1 DEF CycleTyped, Adapter
<1>3. TypeOK'  BY <1>1, <1>2 DEF IInv, TypeOK
<1>4. Clocks'  BY <1>1 DEF IInv, TypeOK, Clocks
<1>5. (NothingPartial /\ Committed /\ Opened /\ FirstPairCommits)'
  BY <1>1 DEF IInv, NothingPartial, Committed, Opened, FirstPairCommits, Handled
<1>6. (((faults = 0 /\ ClassifiedFeed) => Counted)') /\ StreakAlerted'
  BY <1>1, <1>3, LabelsKept
<1> QED  BY <1>3, <1>4, <1>5, <1>6 DEF IInv

LEMMA Step == IInv /\ [Next]_vars => IInv'
<1> SUFFICES ASSUME IInv, [Next]_vars  PROVE IInv'  OBVIOUS
<1>1. CASE Tick \/ UNCHANGED vars  BY <1>1, TickStep
<1>2. CASE Crash  BY <1>2, AbortStep DEF Crash
<1>3. CASE Ingest
  <2>1. CASE StartCycle  BY <2>1, StartCycleStep
  <2>2. CASE ClassifyRaises  BY <2>2, ClassifyRaisesStep
  <2>3. CASE SkipWeekend  BY <2>3, SkipWeekendStep
  <2>4. CASE EndCycle  BY <2>4, CommitStep DEF EndCycle
  <2>5. ASSUME NEW p \in Pairs, FetchFails(p)  PROVE IInv'  BY <2>5, FetchFailsStep
  <2>6. ASSUME NEW p \in Pairs, FetchRaises(p) \/ BackfillRaises(p)  PROVE IInv'
    BY <2>6, AbortStep DEF FetchRaises, BackfillRaises
  <2>7. ASSUME NEW p \in Pairs, FetchStores(p)  PROVE IInv'  BY <2>7, FetchStoresStep
  <2>8. ASSUME NEW p \in Pairs, NEW published \in Published, BackfillStores(p, published)
        PROVE  IInv'
    BY <2>8, BackfillStoresStep
  <2>9. ASSUME NEW p \in Pairs, BackfillFails(p)  PROVE IInv'  BY <2>9, BackfillFailsStep
  <2> QED  BY <1>3, <2>1, <2>2, <2>3, <2>4, <2>5, <2>6, <2>7, <2>8, <2>9 DEF Ingest
<1>4. CASE Dispatch
  <2>1. CASE EndDispatch  BY <2>1, CommitStep DEF EndDispatch
  <2> QED  BY <1>4, <2>1, StartDispatchStep, MarkInfoStep, SendStep DEF Dispatch
<1>5. ASSUME NEW kind \in {"info", "refusable"}, EmitOther(kind)  PROVE IInv'
  BY <1>5, EmitOtherStep
<1> QED  BY <1>1, <1>2, <1>3, <1>4, <1>5 DEF Next

\* The inductive invariant holds in every reachable state.
LEMMA Invariance == Spec => []IInv
  BY Start, Step, PTL DEF Spec

-----------------------------------------------------------------------------
(* Holes and backfills *)

LEMMA Limits == BackfillLimit \in Nat /\ PageSize \in Nat \ {0} /\ Lookback \in Nat
  BY FeedAssumption

\* The first bars of an interval.
LEMMA FirstOfInterval ==
    ASSUME NEW a \in Int, NEW m \in Int, NEW n \in Int
    PROVE  FirstOf(n, a..m) = {b \in a..m : b - a < n}
<1>1. ASSUME NEW b \in a..m  PROVE Cardinality({c \in a..m : c < b}) = b - a
  <2>1. {c \in a..m : c < b} = a..(b - 1)  OBVIOUS
  <2>2. PICK z \in Int : z = b - 1  OBVIOUS
  <2>3. Cardinality(a..z) = IF a > z THEN 0 ELSE z - a + 1  BY FS_Interval
  <2>4. Cardinality(a..z) = b - a  BY <2>2, <2>3
  <2>5. {c \in a..m : c < b} = a..z  BY <2>1, <2>2
  <2> QED  BY <2>4, <2>5
<1> QED  BY <1>1 DEF FirstOf

\* One page of fetch_ohlcv_since with what is behind it.
Places == (0..(Forming + 1)) \X (0..BackfillLimit)
PageFrom(cursor, count, published) == FirstOf(count, {b \in published : b >= cursor}) \ {Forming}
PagesFrom(g, at, published) ==
    LET count == Min({PageSize, at[2]})
        page  == PageFrom(at[1], count, published)
    IN IF at[2] = 0 \/ Cardinality(page) < count THEN page
       ELSE page \cup g[<<Max(page) + 1, at[2] - count>>]
Paging(g, published) == g = [at \in Places |-> PagesFrom(g, at, published)]

\* What fetch_ohlcv_since returns is such pages from its first cursor on.
LEMMA SinceIsPages ==
    ASSUME NEW since, NEW published
    PROVE  OandaSince(since, published) = (CHOOSE g : Paging(g, published))[<<since, BackfillLimit>>]
  BY Zenon DEF OandaSince, Paging, PagesFrom, PageFrom, Places

\* What the pages from a cursor on hold, if the venue leaves nothing out.
Ahead(at) == {b \in at[1]..(Forming - 1) : b - at[1] < at[2]}

\* One page and those behind it.
LEMMA PageIsAhead ==
    ASSUME Forming \in Nat, NEW c \in 0..(Forming + 1), NEW r \in 0..BackfillLimit, NEW g,
           \A d \in 0..(Forming + 1), q \in 0..BackfillLimit : q < r => g[<<d, q>>] = Ahead(<<d, q>>)
    PROVE  PagesFrom(g, <<c, r>>, 0..Forming) = Ahead(<<c, r>>)
<1>1. PageSize \in Nat \ {0} /\ BackfillLimit \in Nat  BY Limits
<1>2. PICK f \in Nat : f = Forming  OBVIOUS
<1>3. PICK n : n = Min({PageSize, r})  OBVIOUS
<1>4. n \in Nat /\ n <= r /\ (r # 0 => n > 0)
  <2>1. CASE PageSize <= r
    <3>1. Min({PageSize, r}) = PageSize
      <4>1. {PageSize, r} \in SUBSET Int /\ PageSize \in {PageSize, r} /\ \A y \in {PageSize, r} : PageSize <= y
        BY <1>1, <2>1
      <4> QED  BY <4>1, MinIs
    <3> QED  BY <1>1, <1>3, <2>1, <3>1
  <2>2. CASE r < PageSize
    <3>1. Min({PageSize, r}) = r
      <4>1. {PageSize, r} \in SUBSET Int /\ r \in {PageSize, r} /\ \A y \in {PageSize, r} : r <= y
        BY <1>1, <2>2
      <4> QED  BY <4>1, MinIs
    <3> QED  BY <1>1, <1>3, <2>2, <3>1
  <2> QED  BY <1>1, <2>1, <2>2
<1>5. {b \in 0..f : b >= c} = c..f /\ c \in Nat  BY <1>2
<1>6. PICK page : page = {b \in c..(f - 1) : b - c < n}  OBVIOUS
<1>7. PageFrom(c, n, 0..Forming) = page
  <2>1. FirstOf(n, c..f) = {b \in c..f : b - c < n}  BY <1>2, <1>4, <1>5, FirstOfInterval
  <2>2. {b \in c..f : b - c < n} \ {f} = {b \in c..(f - 1) : b - c < n}  BY <1>2, <1>5
  <2> QED  BY <1>2, <1>5, <1>6, <2>1, <2>2 DEF PageFrom
<1>8. PagesFrom(g, <<c, r>>, 0..Forming) =
          IF r = 0 \/ Cardinality(page) < n THEN page ELSE page \cup g[<<Max(page) + 1, r - n>>]
  BY <1>3, <1>7 DEF PagesFrom
<1>9. Ahead(<<c, r>>) = {b \in c..(f - 1) : b - c < r}  BY <1>2 DEF Ahead
<1>10. CASE r = 0
  <2>1. n = 0  BY <1>4, <1>10
  <2>2. {b \in c..(f - 1) : b - c < 0} = {}  BY <1>2, <1>5
  <2> QED  BY <1>6, <1>8, <1>9, <1>10, <2>1, <2>2
<1>11. CASE r # 0 /\ c + n > f
  <2>1. page = c..(f - 1)
    <3>1. \A b \in c..(f - 1) : b - c < n  BY <1>2, <1>4, <1>5, <1>11
    <3> QED  BY <1>6, <3>1
  <2>2. Ahead(<<c, r>>) = c..(f - 1)
    <3>1. r \in Nat /\ \A b \in c..(f - 1) : b - c < r  BY <1>1, <1>2, <1>4, <1>5, <1>11
    <3> QED  BY <1>9, <3>1
  <2>3. PICK z \in Int : z = f - 1  BY <1>2
  <2>4. Cardinality(c..z) = IF c > z THEN 0 ELSE z - c + 1
    <3>1. c \in Int  BY <1>5
    <3> QED  BY <3>1, FS_Interval, Zenon
  <2>5. Cardinality(page) < n  BY <1>2, <1>4, <1>5, <1>11, <2>1, <2>3, <2>4
  <2> QED  BY <1>8, <2>1, <2>2, <2>5
<1>12. CASE r # 0 /\ c + n <= f
  <2>1. PICK z \in Int : z = c + n - 1  BY <1>4, <1>5
  <2>2. page = c..z /\ c <= z /\ z < f
    <3>1. n > 0 /\ c <= z /\ z < f  BY <1>2, <1>4, <1>5, <1>12, <2>1
    <3>2. ASSUME NEW b \in c..(f - 1)  PROVE b \in c..z <=> b - c < n
      BY <1>2, <1>4, <1>5, <2>1
    <3>3. c..z \subseteq c..(f - 1)  BY <1>2, <1>5, <2>1, <3>1
    <3>4. page = c..z  BY <1>6, <3>2, <3>3
    <3> QED  BY <3>1, <3>4
  <2>3. Cardinality(c..z) = IF c > z THEN 0 ELSE z - c + 1
    <3>1. c \in Int  BY <1>5
    <3> QED  BY <3>1, FS_Interval, Zenon
  <2>4. Cardinality(page) = n
    <3>1. Cardinality(c..z) = n  BY <1>4, <1>5, <2>1, <2>2, <2>3
    <3> QED  BY <2>2, <3>1
  <2>5. Max(page) = z
    <3>1. page \in SUBSET Int /\ z \in page /\ \A y \in page : y <= z  BY <1>5, <2>1, <2>2
    <3> QED  BY <3>1, MaxIs
  <2>6. PICK d, q : d = c + n /\ q = r - n  OBVIOUS
  <2>7. d \in 0..(Forming + 1) /\ q \in 0..BackfillLimit /\ q < r
    BY <1>1, <1>2, <1>4, <1>5, <1>12, <2>6
  <2>8. g[<<d, q>>] = Ahead(<<d, q>>)  BY <2>7
  <2>9. Ahead(<<d, q>>) = {b \in d..(f - 1) : b - d < q}  BY <1>2 DEF Ahead
  <2>10. PagesFrom(g, <<c, r>>, 0..Forming) = page \cup g[<<d, q>>]
    <3>1. ~(Cardinality(page) < n) /\ Max(page) + 1 = d /\ r - n = q
      BY <1>4, <1>5, <2>1, <2>4, <2>5, <2>6
    <3> QED  BY <1>8, <1>12, <3>1
  <2>11. {b \in c..(f - 1) : b - c < r} = (c..z) \cup {b \in d..(f - 1) : b - d < q}
    BY <1>2, <1>4, <1>5, <1>12, <2>1, <2>2, <2>6
  <2> QED  BY <1>9, <2>2, <2>8, <2>9, <2>10, <2>11
<1> QED  BY <1>2, <1>4, <1>5, <1>10, <1>11, <1>12

\* fetch_ohlcv_since pages through all bars that are not forming any more, up
\* to the limit.
LEMMA PagesReadAll ==
    ASSUME Forming \in Nat, NEW since \in 0..(Forming + 1)
    PROVE  OandaSince(since, 0..Forming) = {b \in since..(Forming - 1) : b - since < BackfillLimit}
<1>1. BackfillLimit \in Nat  BY Limits
<1>2. PICK all : all = [at \in Places |-> Ahead(at)]  OBVIOUS
<1>3. PICK F : F = 0..Forming  OBVIOUS
<1>4. \A at \in Places : \E d \in 0..(Forming + 1), q \in 0..BackfillLimit : at = <<d, q>>
  BY DEF Places
<1>5. \A d \in 0..(Forming + 1), q \in 0..BackfillLimit : <<d, q>> \in Places  BY DEF Places
<1>6. Paging(all, F)
  <2>1. \A d \in 0..(Forming + 1), q \in 0..BackfillLimit : all[<<d, q>>] = Ahead(<<d, q>>)
    BY <1>2, <1>5
  <2>2. \A d \in 0..(Forming + 1), q \in 0..BackfillLimit : PagesFrom(all, <<d, q>>, F) = Ahead(<<d, q>>)
    BY <1>3, <2>1, PageIsAhead
  <2>3. \A at \in Places : PagesFrom(all, at, F) = Ahead(at)  BY <1>4, <2>2
  <2>4. all = [at \in Places |-> PagesFrom(all, at, F)]  BY <1>2, <2>3
  <2> QED  BY <2>4 DEF Paging
<1>7. PICK pages : pages = CHOOSE g : Paging(g, F)  OBVIOUS
<1>8. Paging(pages, F)  BY <1>6, <1>7
<1>9. \A d \in 0..(Forming + 1), q \in 0..BackfillLimit : pages[<<d, q>>] = PagesFrom(pages, <<d, q>>, F)
  BY <1>5, <1>8 DEF Paging
<1>10. \A q \in 0..BackfillLimit : \A d \in 0..(Forming + 1) : pages[<<d, q>>] = Ahead(<<d, q>>)
  <2> DEFINE Bad == {q \in 0..BackfillLimit : \E d \in 0..(Forming + 1) : pages[<<d, q>>] # Ahead(<<d, q>>)}
  <2>1. Bad = {}
    <3> SUFFICES ASSUME Bad # {}  PROVE FALSE  OBVIOUS
    <3>1. Bad \subseteq Nat  BY <1>1
    <3>2. PICK r \in Bad : \A k \in Bad : r <= k
      <4> HIDE DEF Bad
      <4> QED  BY <3>1, LeastNatural
    <3>3. PICK c \in 0..(Forming + 1) : pages[<<c, r>>] # Ahead(<<c, r>>)  BY <3>2
    <3>4. r \in 0..BackfillLimit  BY <3>2
    <3>5. \A d \in 0..(Forming + 1), q \in 0..BackfillLimit : q < r => pages[<<d, q>>] = Ahead(<<d, q>>)
      <4> SUFFICES ASSUME NEW d \in 0..(Forming + 1), NEW q \in 0..BackfillLimit, q < r,
                          pages[<<d, q>>] # Ahead(<<d, q>>)
                   PROVE  FALSE
        OBVIOUS
      <4>1. q \in Bad  OBVIOUS
      <4> HIDE DEF Bad
      <4>2. r <= q  BY <3>2, <4>1
      <4> QED  BY <1>1, <3>4, <4>2
    <3> HIDE DEF Bad
    <3>6. PagesFrom(pages, <<c, r>>, 0..Forming) = Ahead(<<c, r>>)  BY <3>4, <3>5, PageIsAhead
    <3> QED  BY <1>3, <1>9, <3>3, <3>4, <3>6
  <2> QED  BY <2>1
<1>11. OandaSince(since, F) = pages[<<since, BackfillLimit>>]  BY <1>7, SinceIsPages
<1>12. BackfillLimit \in 0..BackfillLimit  BY <1>1
<1>13. pages[<<since, BackfillLimit>>] = Ahead(<<since, BackfillLimit>>)  BY <1>10, <1>12
<1> QED  BY <1>3, <1>11, <1>13 DEF Ahead

\* What a backfill of a venue that leaves nothing out holds of the closed bars.
LEMMA SinceReadsAll ==
    ASSUME Forming \in Nat, NEW since \in 0..(Forming + 1)
    PROVE  /\ \A b \in since..(Forming - 1) : b - since < BackfillLimit => b \in FetchSince(since, 0..Forming)
           /\ \A b \in FetchSince(since, 0..Forming) : b \in Nat /\ b >= since /\ b - since < BackfillLimit
<1>1. BackfillLimit \in Nat  BY Limits
<1>2. PICK f \in Nat : f = Forming  OBVIOUS
<1>3. CASE Adapter = "oanda"
  <2>1. FetchSince(since, 0..f) = {b \in since..(f - 1) : b - since < BackfillLimit}
    BY <1>2, <1>3, PagesReadAll DEF FetchSince
  <2> QED  BY <1>2, <2>1
<1>4. CASE Adapter # "oanda"
  <2>1. {b \in 0..f : b >= since} = since..f  BY <1>2
  <2>2. FirstOf(BackfillLimit, since..f) = {b \in since..f : b - since < BackfillLimit}
    BY <1>1, <1>2, FirstOfInterval
  <2>3. FetchSince(since, 0..f) = {b \in since..f : b - since < BackfillLimit}
    BY <1>2, <1>4, <2>1, <2>2 DEF FetchSince
  <2> QED  BY <1>2, <2>3
<1> QED  BY <1>3, <1>4

\* The last rows of a set: with a row, all behind it.
LEMMA LastRows ==
    ASSUME NEW S \in SUBSET Nat, IsFiniteSet(S), NEW n \in Nat, NEW b \in LastOf(n, S), NEW c \in S, c > b
    PROVE  c \in LastOf(n, S)
<1>1. b \in Nat /\ c \in Nat  BY DEF LastOf
<1>2. PICK X : X = {x \in S : x > c}  OBVIOUS
<1>3. PICK Y : Y = {x \in S : x > b}  OBVIOUS
<1>4. X \subseteq Y
  <2>1. \A x \in S : x > c => x > b  BY <1>1
  <2> QED  BY <1>2, <1>3, <2>1, Zenon
<1>5. IsFiniteSet(Y)  BY <1>3, FS_Subset
<1>6. Cardinality(X) <= Cardinality(Y) /\ Cardinality(X) \in Nat /\ Cardinality(Y) \in Nat
  BY <1>4, <1>5, FS_Subset, FS_CardinalityType
<1>7. Cardinality(Y) < n  BY <1>3 DEF LastOf
<1>8. Cardinality(X) < n  BY <1>6, <1>7
<1> QED  BY <1>2, <1>8 DEF LastOf

\* The last rows of more rows.
LEMMA LastRowsOfMore ==
    ASSUME NEW S \in SUBSET Nat, IsFiniteSet(S), NEW T, IsFiniteSet(T), S \subseteq T, NEW n \in Nat,
           NEW b \in S, b \in LastOf(n, T)
    PROVE  b \in LastOf(n, S)
<1>1. PICK X : X = {x \in S : x > b}  OBVIOUS
<1>2. PICK Y : Y = {x \in T : x > b}  OBVIOUS
<1>3. X \subseteq Y  BY <1>1, <1>2
<1>4. IsFiniteSet(Y)  BY <1>2, FS_Subset
<1>5. Cardinality(X) <= Cardinality(Y) /\ Cardinality(X) \in Nat /\ Cardinality(Y) \in Nat
  BY <1>3, <1>4, FS_Subset, FS_CardinalityType
<1>6. Cardinality(Y) < n  BY <1>2 DEF LastOf
<1>7. Cardinality(X) < n  BY <1>5, <1>6
<1> QED  BY <1>1, <1>7 DEF LastOf

\* The venues' clock, and the bars that it has closed.
LEMMA VenueClock ==
    ASSUME TypeOK, Clocks
    PROVE  /\ Forming \in Nat
           /\ \A b \in Nat : (b + 1) * BarTicks <= cycleNow - Margin => b < Forming
<1>1. /\ BarTicks \in Nat \ {0} /\ Margin \in Nat /\ now \in Nat /\ lead \in 0..Margin
      /\ cycleNow \in Int /\ cycleNow <= now
  BY ConstantTypes DEF TypeOK, Clocks
<1>2. VenueNow \in Nat /\ now - lead <= VenueNow
  <2>1. CASE 0 >= now - lead
    <3>1. {0, now - lead} \in SUBSET Int /\ \A y \in {0, now - lead} : y <= 0  BY <1>1, <2>1
    <3>2. VenueNow = 0  BY <3>1, MaxIs DEF VenueNow
    <3> QED  BY <2>1, <3>2
  <2>2. CASE ~(0 >= now - lead)
    <3>1. {0, now - lead} \in SUBSET Int /\ \A y \in {0, now - lead} : y <= now - lead  BY <1>1, <2>2
    <3>2. VenueNow = now - lead  BY <3>1, MaxIs DEF VenueNow
    <3> QED  BY <1>1, <2>2, <3>2
  <2> QED  BY <2>1, <2>2
<1>3. PICK v \in Nat : v = VenueNow  BY <1>2
<1>4. PICK f : f = Forming  OBVIOUS
<1>5. f = v \div BarTicks  BY <1>3, <1>4 DEF Forming
<1>6. f \in Nat /\ v < (BarTicks * f) + BarTicks  BY <1>1, <1>3, <1>5, Quotient
<1>7. ASSUME NEW b \in Nat, (b + 1) * BarTicks <= cycleNow - Margin  PROVE b < f
  <2>1. (b + 1) * BarTicks <= v  BY <1>1, <1>2, <1>3, <1>7
  <2>2. (b + 1) * BarTicks = (BarTicks * b) + BarTicks /\ BarTicks * b \in Nat /\ BarTicks * f \in Nat
    BY <1>1, <1>6
  <2>3. BarTicks * b < BarTicks * f  BY <1>1, <1>3, <1>6, <2>1, <2>2
  <2>4. f <= b => BarTicks * f <= BarTicks * b  BY <1>1, <1>6
  <2> QED  BY <1>6, <2>2, <2>3, <2>4
<1> QED  BY <1>4, <1>6, <1>7

\* Bars that a cycle may store have closed for it.
ClosedRows == \A p \in Pairs : \A b \in db.candles[p] \cup tx.candles[p] : (b + 1) * BarTicks <= cycleNow - Margin

\* A backfill has a hole to fill.
BackfillHasGap == pc = "backfill" => Gaps(tx, Head(todo)) # {}

HealInv == IInv /\ ClosedRows /\ BackfillHasGap

\* The rows that a step leaves were there before, or are closed.
Sourced(d) ==
    \A p \in Pairs : \A b \in d.candles[p] :
        \/ b \in db.candles[p] \cup tx.candles[p]
        \/ b \in Bars /\ (b + 1) * BarTicks <= cycleNow - Margin

\* A later clock leaves a closed bar closed.
LEMMA RowsStayClosed ==
    ASSUME HealInv, Sourced(db'), Sourced(tx'), cycleNow' \in Int, cycleNow' >= cycleNow
    PROVE  ClosedRows'
<1>1. cycleNow \in Int /\ Margin \in Nat /\ BarTicks \in Nat  BY ConstantTypes DEF HealInv, IInv, TypeOK
<1>2. \A p \in Pairs : db.candles[p] \subseteq Nat /\ tx.candles[p] \subseteq Nat
  BY ConstantTypes DEF HealInv, IInv, TypeOK, Databases
<1>3. ASSUME NEW p \in Pairs, NEW d, Sourced(d), NEW b \in d.candles[p]
      PROVE  (b + 1) * BarTicks <= cycleNow' - Margin
  <2>1. b \in Nat /\ (b + 1) * BarTicks <= cycleNow - Margin
    <3>1. CASE b \in db.candles[p] \cup tx.candles[p]  BY <1>2, <3>1 DEF HealInv, ClosedRows
    <3>2. CASE b \in Bars /\ (b + 1) * BarTicks <= cycleNow - Margin  BY <3>2, ConstantTypes
    <3> QED  BY <1>3, <3>1, <3>2 DEF Sourced
  <2>2. PICK m \in Int : m = (b + 1) * BarTicks  BY <1>1, <2>1
  <2>3. PICK t \in Int, u \in Int : t = cycleNow /\ u = cycleNow' /\ t <= u  BY <1>1
  <2>4. m <= t - Margin  BY <2>1, <2>2, <2>3
  <2>5. m <= u - Margin
    <3>1. PICK g \in Int : g = Margin  BY <1>1
    <3>2. m <= t - g /\ t <= u  BY <2>3, <2>4, <3>1
    <3>3. m <= u - g  BY <3>2
    <3> QED  BY <3>1, <3>3
  <2> QED  BY <2>2, <2>3, <2>5
<1>4. ASSUME NEW p \in Pairs, NEW b \in db'.candles[p] \cup tx'.candles[p]
      PROVE  (b + 1) * BarTicks <= cycleNow' - Margin
  <2>1. \A d : Sourced(d) /\ b \in d.candles[p] => (b + 1) * BarTicks <= cycleNow' - Margin
    BY <1>3
  <2>2. b \in db'.candles[p] \/ b \in tx'.candles[p]  OBVIOUS
  <2> QED  BY <2>1, <2>2
<1> QED  BY <1>4 DEF ClosedRows

\* The rows of a database stay, or closed bars join them.
LEMMA SameRowsSourced ==
    ASSUME NEW d, d.candles = db.candles \/ d.candles = tx.candles
    PROVE  Sourced(d)
  BY DEF Sourced

LEMMA StoredSourced ==
    ASSUME IInv, NEW p \in Pairs, NEW bars, NEW d,
           d.candles = Upsert(tx, p, FilterClosed(bars)).candles
    PROVE  Sourced(d)
<1> DEFINE closed == FilterClosed(bars)
<1>1. \A b \in closed : b \in Bars /\ (b + 1) * BarTicks <= cycleNow - Margin  BY DEF FilterClosed
<1> HIDE DEF closed
<1>2. d.candles = [tx.candles EXCEPT ![p] = @ \cup closed]
  BY DEF Upsert, closed, IInv, TypeOK, Databases
<1>3. tx.candles \in [Pairs -> SUBSET Bars]  BY DEF IInv, TypeOK, Databases
<1>4. \A q \in Pairs : \A b \in d.candles[q] : b \in tx.candles[q] \/ b \in closed  BY <1>2, <1>3
<1> QED  BY <1>1, <1>4 DEF Sourced

LEMMA HealStarts == Init => HealInv
<1> SUFFICES ASSUME Init  PROVE HealInv  OBVIOUS
<1>1. \A p \in Pairs : db.candles[p] = {} /\ tx.candles[p] = {}  BY DEF Init
<1>2. ClosedRows  BY <1>1 DEF ClosedRows
<1>3. BackfillHasGap  BY DEF Init, BackfillHasGap
<1> QED  BY <1>2, <1>3, Start DEF HealInv

\* A step that only moves rows between what is committed and what is seen, or
\* writes alerts.
LEMMA RowsMove ==
    ASSUME HealInv, IInv', cycleNow' >= cycleNow,
           db'.candles = db.candles \/ db'.candles = tx.candles,
           tx'.candles = db.candles \/ tx'.candles = tx.candles,
           pc' # "backfill"
    PROVE  HealInv'
<1>1. Sourced(db') /\ Sourced(tx')  BY SameRowsSourced
<1>2. cycleNow' \in Int  BY DEF IInv, TypeOK
<1>3. ClosedRows'  BY <1>1, <1>2, RowsStayClosed
<1> QED  BY <1>3 DEF HealInv, BackfillHasGap

LEMMA HealStep == HealInv /\ [Next]_vars => HealInv'
<1> SUFFICES ASSUME HealInv, [Next]_vars  PROVE HealInv'  OBVIOUS
<1>1. IInv /\ IInv'  BY Step DEF HealInv
<1>2. cycleNow \in Int /\ now \in Int /\ cycleNow <= cycleNow /\ tx \in Databases /\ db \in Databases
  BY <1>1 DEF IInv, TypeOK
<1>3. CASE Tick \/ UNCHANGED vars
  <2>1. UNCHANGED <<db, tx, pc, cycleNow, todo>>  BY <1>3 DEF Tick, vars
  <2> QED  BY <1>1, <2>1 DEF HealInv, ClosedRows, BackfillHasGap, Gaps, Recent
<1>4. ASSUME Abort  PROVE HealInv'
  <2>1. tx' = db /\ db' = db /\ cycleNow' = cycleNow /\ pc' # "backfill"  BY <1>4 DEF Abort
  <2> QED  BY <1>1, <1>2, <2>1, RowsMove
<1>5. ASSUME Commit, cycleNow' = cycleNow  PROVE HealInv'
  <2>1. tx' = tx /\ db' = tx /\ pc' # "backfill"  BY <1>5 DEF Commit
  <2> QED  BY <1>1, <1>2, <1>5, <2>1, RowsMove
<1>6. CASE Crash  BY <1>4, <1>6 DEF Crash
<1>7. CASE Ingest
  <2>1. CASE StartCycle
    <3>1. /\ cycleNow < now /\ cycleNow' = now /\ db' = db /\ tx' = tx
          /\ pc = "idle" /\ (pc' = pc \/ pc' = "ingest")
      BY <2>1 DEF StartCycle
    <3> QED  BY <1>1, <1>2, <3>1, RowsMove
  <2>2. CASE ClassifyRaises
    <3>1. cycleNow' = cycleNow /\ db' = db /\ tx' = db /\ pc' = "idle"  BY <2>2 DEF ClassifyRaises
    <3> QED  BY <1>1, <1>2, <3>1, RowsMove
  <2>3. CASE SkipWeekend
    <3>1. cycleNow' = cycleNow /\ db' = db /\ tx' = tx /\ pc' = "ingest"  BY <2>3 DEF SkipWeekend
    <3> QED  BY <1>1, <1>2, <3>1, RowsMove
  <2>4. CASE EndCycle  BY <1>5, <2>4 DEF EndCycle
  <2>5. ASSUME NEW p \in Pairs, FetchFails(p)  PROVE HealInv'
    <3>1. cycleNow' = cycleNow /\ pc' = "ingest"  BY <2>5 DEF FetchFails, Fetch
    <3>2. Write(Emit(tx, "failure", p)) \/ UNCHANGED <<db, tx>>  BY <2>5 DEF FetchFails
    <3>3. Emit(tx, "failure", p).candles = tx.candles  BY <1>2 DEF Emit, Databases
    <3>4. tx'.candles = tx.candles /\ (db'.candles = db.candles \/ db'.candles = tx.candles)
      BY <3>2, <3>3 DEF Write
    <3> QED  BY <1>1, <1>2, <3>1, <3>4, RowsMove
  <2>6. ASSUME NEW p \in Pairs, FetchRaises(p) \/ BackfillRaises(p)  PROVE HealInv'
    BY <1>4, <2>6 DEF FetchRaises, BackfillRaises
  <2>7. ASSUME NEW p \in Pairs, FetchStores(p)  PROVE HealInv'
    <3>1. PICK published \in Published :
             LET stored == Upsert(tx, p, FilterClosed(FetchRecent(published)))
             IN Write(IF redis.alerted[p] THEN Emit(stored, "recovery", p) ELSE stored)
      BY <2>7 DEF FetchStores, Succeeded
    <3>2. PICK stored : stored = Upsert(tx, p, FilterClosed(FetchRecent(published)))  OBVIOUS
    <3>3. PICK new : new = IF redis.alerted[p] THEN Emit(stored, "recovery", p) ELSE stored  OBVIOUS
    <3>4. Write(new)  BY <3>1, <3>2, <3>3
    <3>5. stored \in Databases  BY <1>1, <1>2, <3>2, Stored DEF IInv
    <3>6. new.candles = stored.candles
      <4>1. Emit(stored, "recovery", p).candles = stored.candles  BY <3>5 DEF Emit, Databases
      <4> QED  BY <3>3, <4>1
    <3>7. Sourced(new)  BY <1>1, <3>2, <3>6, StoredSourced
    <3>8. tx' = new /\ (db' = db \/ db' = new)  BY <3>4 DEF Write
    <3>9. Sourced(db') /\ Sourced(tx')  BY <3>7, <3>8, SameRowsSourced
    <3>10. cycleNow' = cycleNow  BY <2>7 DEF FetchStores
    <3>11. ClosedRows'  BY <1>2, <3>9, <3>10, RowsStayClosed
    <3>12. BackfillHasGap'
      <4>1. \/ Gaps(tx', p) # {} /\ pc' = "backfill" /\ todo' = todo /\ p = Head(todo)
            \/ pc' = "ingest"
        BY <2>7 DEF FetchStores, Fetch
      <4>2. Gaps(tx, p)' = Gaps(tx', p)  BY DEF Gaps, Recent
      <4> QED  BY <4>1 DEF BackfillHasGap, Gaps, Recent
    <3> QED  BY <1>1, <3>11, <3>12 DEF HealInv
  <2>8. ASSUME NEW p \in Pairs, NEW published \in Published, BackfillStores(p, published)
        PROVE  HealInv'
    <3>1. PICK bars : bars = FetchSince(Min(Recent(tx, p)) + 1, published)  OBVIOUS
    <3>2. PICK d : d = Upsert(tx, p, FilterClosed(bars))  OBVIOUS
    <3>3. tx' = Reported(d, p) /\ db' = db /\ cycleNow' = cycleNow /\ pc' = "ingest"
      BY <2>8, <3>1, <3>2 DEF BackfillStores
    <3>4. d \in Databases  BY <1>1, <1>2, <3>2, Stored DEF IInv
    <3>5. tx'.candles = d.candles  BY <3>3, <3>4 DEF Reported, Databases
    <3>6. Sourced(tx') /\ Sourced(db')
      BY <1>1, <3>2, <3>3, <3>5, StoredSourced, SameRowsSourced
    <3>7. ClosedRows'  BY <1>2, <3>3, <3>6, RowsStayClosed
    <3> QED  BY <1>1, <3>3, <3>7 DEF HealInv, BackfillHasGap
  <2>9. ASSUME NEW p \in Pairs, BackfillFails(p)  PROVE HealInv'
    <3>1. tx' = Reported(tx, p) /\ db' = db /\ cycleNow' = cycleNow /\ pc' = "ingest"
      BY <2>9 DEF BackfillFails
    <3>2. tx'.candles = tx.candles  BY <1>2, <3>1 DEF Reported, Databases
    <3> QED  BY <1>1, <1>2, <3>1, <3>2, RowsMove
  <2> QED  BY <1>7, <2>1, <2>2, <2>3, <2>4, <2>5, <2>6, <2>7, <2>8, <2>9 DEF Ingest
<1>8. CASE Dispatch
  <2>1. CASE EndDispatch  BY <1>5, <2>1 DEF EndDispatch
  <2>2. CASE StartDispatch
    <3>1. cycleNow' = cycleNow /\ db' = db /\ tx' = tx /\ pc' = "dispatch"  BY <2>2 DEF StartDispatch
    <3> QED  BY <1>1, <1>2, <3>1, RowsMove
  <2>3. ASSUME NEW i, NEW row, Handle(i, row), pc = "dispatch"  PROVE HealInv'
    <3>1. cycleNow' = cycleNow /\ db' = db /\ pc' = "dispatch" /\ tx' = [tx EXCEPT !.alerts[i] = row]
      BY <2>3 DEF Handle
    <3>2. tx'.candles = tx.candles  BY <1>2, <3>1 DEF Databases
    <3> QED  BY <1>1, <1>2, <3>1, <3>2, RowsMove
  <2>4. CASE MarkInfo
    <3>1. pc = "dispatch" /\ \E i, row : Handle(i, row)  BY <2>4 DEF MarkInfo
    <3> QED  BY <2>3, <3>1
  <2>5. CASE Send
    <3>1. pc = "dispatch" /\ \E i, row : Handle(i, row)  BY <2>5 DEF Send, SendToTelegram
    <3> QED  BY <2>3, <3>1
  <2> QED  BY <1>8, <2>1, <2>2, <2>4, <2>5 DEF Dispatch
<1>9. ASSUME NEW kind \in {"info", "refusable"}, EmitOther(kind)  PROVE HealInv'
  <2>1. pc' = "idle" /\ cycleNow' = cycleNow /\ Write(Emit(tx, kind, NoPair))  BY <1>9 DEF EmitOther
  <2>2. Emit(tx, kind, NoPair).candles = tx.candles  BY <1>2 DEF Emit, Databases
  <2>3. tx'.candles = tx.candles /\ (db'.candles = db.candles \/ db'.candles = tx.candles)
    BY <2>1, <2>2 DEF Write
  <2> QED  BY <1>1, <1>2, <2>1, <2>3, RowsMove
<1> QED  BY <1>3, <1>6, <1>7, <1>8, <1>9 DEF Next

LEMMA HealInvariance == Spec => []HealInv
  BY HealStarts, HealStep, PTL DEF Spec

\* Every hole that the lookback sees begins within the limit of a backfill.
WithinReach(p) == Max(Recent(tx, p)) <= Min(Recent(tx, p)) + BackfillLimit

\* The recent rows of a pair are finitely many bars.
LEMMA RecentRows ==
    ASSUME IInv, NEW p \in Pairs, NEW d \in Databases
    PROVE  /\ d.candles[p] \in SUBSET Nat /\ IsFiniteSet(d.candles[p])
           /\ Recent(d, p) = LastOf(Lookback, d.candles[p])
           /\ Recent(d, p) \subseteq d.candles[p] /\ Recent(d, p) \in SUBSET Int
           /\ IsFiniteSet(Recent(d, p)) /\ Lookback \in Nat
<1>1. d.candles[p] \subseteq Bars  BY DEF Databases
<1>2. Bars \subseteq Nat  BY ConstantTypes
<1>3. IsFiniteSet(Bars)
  <2>1. PICK z : z = MaxTime \div BarTicks  OBVIOUS
  <2>2. z \in Int  BY <2>1, ConstantTypes, Quotient
  <2>3. 0 \in Int  OBVIOUS
  <2>4. IsFiniteSet(0..z)  BY <2>2, <2>3, FS_Interval
  <2> QED  BY <2>1, <2>4 DEF Bars
<1>4. IsFiniteSet(d.candles[p])  BY <1>1, <1>3, FS_Subset
<1>5. Recent(d, p) = LastOf(Lookback, d.candles[p])  BY DEF Recent
<1>6. Recent(d, p) \subseteq d.candles[p]  BY <1>5 DEF LastOf
<1>7. IsFiniteSet(Recent(d, p))  BY <1>4, <1>6, FS_Subset
<1>8. Lookback \in Nat  BY Limits
<1>9. d.candles[p] \in SUBSET Nat  BY <1>1, <1>2
<1>10. Recent(d, p) \in SUBSET Int  BY <1>6, <1>9
<1> QED  BY <1>4, <1>5, <1>6, <1>7, <1>8, <1>9, <1>10

\* The bars that a full answer adds, up to any row behind the first recent one.
LEMMA HoleFilled ==
    ASSUME IInv, NEW a \in Nat, NEW b \in Nat, NEW c \in Bars, a <= b, b < c,
           (c + 1) * BarTicks <= cycleNow - Margin, b - a < BackfillLimit
    PROVE  b + 1 \in FilterClosed(FetchSince(a + 1, 0..Forming))
<1>1. /\ BarTicks \in Nat /\ BarTicks > 0 /\ Margin \in Nat /\ Bars \subseteq Nat /\ cycleNow \in Int
      /\ BackfillLimit \in Nat
  BY ConstantTypes, Limits DEF IInv, TypeOK
<1>2. PICK f \in Nat : f = Forming /\ c < f  BY <1>1, VenueClock DEF IInv
<1>3. b + 1 \in Bars /\ b + 1 <= c /\ c \in Nat
  <2>1. PICK z : z = MaxTime \div BarTicks  OBVIOUS
  <2>2. z \in Int  BY <2>1, ConstantTypes, Quotient
  <2>3. c \in 0..z  BY <2>1 DEF Bars
  <2>4. b + 1 \in 0..z /\ b + 1 <= c  BY <2>2, <2>3
  <2> QED  BY <2>1, <2>3, <2>4 DEF Bars
<1>4. (b + 1 + 1) * BarTicks <= cycleNow - Margin
  <2>1. (b + 1 + 1) * BarTicks <= (c + 1) * BarTicks
    <3>1. PICK x \in Nat, y \in Nat : x = b + 1 + 1 /\ y = c + 1 /\ x <= y  BY <1>3
    <3>2. x * BarTicks <= y * BarTicks  BY <1>1, <3>1
    <3> QED  BY <3>1, <3>2
  <2>2. PICK x \in Int, y \in Int : x = (b + 1 + 1) * BarTicks /\ y = (c + 1) * BarTicks
    BY <1>1, <1>3
  <2>3. x <= y /\ y <= cycleNow - Margin  BY <2>1, <2>2
  <2>4. x <= cycleNow - Margin  BY <1>1, <2>3
  <2> QED  BY <2>2, <2>4
<1>5. b + 1 \in FetchSince(a + 1, 0..Forming)
  <2>1. a + 1 \in 0..(Forming + 1)  BY <1>2, <1>3
  <2>2. b + 1 \in (a + 1)..(Forming - 1) /\ (b + 1) - (a + 1) < BackfillLimit  BY <1>1, <1>2, <1>3
  <2> QED  BY <1>2, <2>1, <2>2, SinceReadsAll
<1> QED  BY <1>3, <1>4, <1>5 DEF FilterClosed

\* A bar missing behind a recent row would be one that the answer has filled.
LEMMA HolesClose ==
    ASSUME HealInv, NEW p \in Pairs, BackfillStores(p, 0..Forming), WithinReach(p)
    PROVE  Gaps(tx', p) = {}
<1> DEFINE a == Min(Recent(tx, p))
           K == FilterClosed(FetchSince(a + 1, 0..Forming))
           d == Upsert(tx, p, K)
<1>1. /\ IInv /\ tx \in Databases /\ p = Head(todo) /\ Gaps(tx, p) # {}
  BY DEF HealInv, IInv, TypeOK, BackfillHasGap, BackfillStores
<1>2. PICK old : old = tx.candles[p]  OBVIOUS
<1>3. PICK R : R = Recent(tx, p)  OBVIOUS
<1>4. /\ old \in SUBSET Nat /\ IsFiniteSet(old) /\ R = LastOf(Lookback, old) /\ R \subseteq old
      /\ R \in SUBSET Int /\ IsFiniteSet(R) /\ Lookback \in Nat
  BY <1>1, <1>2, <1>3, RecentRows
<1>5. R # {}  BY <1>1, <1>3 DEF Gaps
<1>6. a \in R /\ (\A y \in R : a <= y)  BY <1>3, <1>4, <1>5, MinOfFinite
<1>7. \A y \in R : y <= a + BackfillLimit
  <2>1. PICK m : m = Max(R)  OBVIOUS
  <2>2. m \in R /\ \A y \in R : y <= m  BY <1>4, <1>5, <2>1, MaxOfFinite
  <2>3. m <= a + BackfillLimit  BY <1>3, <2>1 DEF WithinReach
  <2>4. BackfillLimit \in Int  BY Limits
  <2> HIDE DEF a
  <2> QED  BY <1>4, <1>6, <2>2, <2>3, <2>4
<1>8. d \in Databases  BY <1>1, Stored DEF IInv
<1>9. d.candles = [tx.candles EXCEPT ![p] = @ \cup K]
  <2> HIDE DEF K
  <2> QED  BY <1>1 DEF Upsert, d, Databases
<1>10. tx' = Reported(d, p)  BY DEF BackfillStores
<1> HIDE DEF a, K, d
<1>11. tx'.candles = d.candles  BY <1>8, <1>10 DEF Reported, Databases
<1>12. PICK new : new = tx'.candles[p]  OBVIOUS
<1>13. new = old \cup K
  <2>1. tx.candles \in [Pairs -> SUBSET Bars]  BY <1>1 DEF Databases
  <2> QED  BY <1>2, <1>9, <1>11, <1>12, <2>1
<1>14. a \in Nat /\ a + 1 \in 0..(Forming + 1)
  <2>1. a \in old /\ a \in Nat  BY <1>4, <1>6
  <2>2. (a + 1) * BarTicks <= cycleNow - Margin  BY <1>2, <2>1 DEF HealInv, ClosedRows
  <2>3. Forming \in Nat /\ a < Forming  BY <1>1, <2>1, <2>2, VenueClock DEF IInv
  <2> QED  BY <2>1, <2>3
<1>15. \A b \in K : b \in Bars /\ (b + 1) * BarTicks <= cycleNow - Margin /\ b >= a + 1 /\ b \in Nat
             /\ b - (a + 1) < BackfillLimit
  <2>1. \A b \in K : b \in Bars /\ (b + 1) * BarTicks <= cycleNow - Margin
                     /\ b \in FetchSince(a + 1, 0..Forming)
    BY DEF K, FilterClosed
  <2>2. Forming \in Nat  BY <1>1, VenueClock DEF IInv
  <2> QED  BY <1>14, <2>1, <2>2, SinceReadsAll
<1>16. /\ new \in SUBSET Nat /\ IsFiniteSet(new)
  <2>1. new = d.candles[p]  BY <1>11, <1>12
  <2> QED  BY <1>1, <1>8, <2>1, RecentRows
<1>17. Gaps(tx', p) = {b \in LastOf(Lookback, new) : /\ b + 1 \notin LastOf(Lookback, new)
                                                 /\ \E c \in LastOf(Lookback, new) : c > b}
  BY <1>12 DEF Gaps, Recent
<1>18. SUFFICES ASSUME NEW b \in LastOf(Lookback, new), b + 1 \notin LastOf(Lookback, new),
                       NEW c \in LastOf(Lookback, new), c > b
                PROVE  FALSE
  BY <1>17
<1>19. b \in new /\ c \in new /\ b \in Nat /\ c \in Nat  BY <1>16 DEF LastOf
<1>20. b + 1 \notin new
  <2>1. b + 1 > b  BY <1>19
  <2> QED  BY <1>4, <1>16, <1>18, <2>1, LastRows
<1>21. a <= b
  <2>1. CASE b \in K  BY <1>14, <1>15, <2>1
  <2>2. CASE b \in old
    <3>1. old \subseteq new  BY <1>13
    <3>2. b \in R  BY <1>4, <1>16, <2>2, <3>1, LastRowsOfMore
    <3> QED  BY <1>6, <3>2
  <2> QED  BY <1>13, <1>19, <2>1, <2>2
<1>22. c \in Bars /\ (c + 1) * BarTicks <= cycleNow - Margin
  <2>1. CASE c \in K  BY <1>15, <2>1
  <2>2. CASE c \in old
    <3>1. (c + 1) * BarTicks <= cycleNow - Margin  BY <1>2, <2>2 DEF HealInv, ClosedRows
    <3>2. c \in Bars  BY <1>1, <1>2, <2>2 DEF Databases
    <3> QED  BY <3>1, <3>2
  <2> QED  BY <1>13, <1>19, <2>1, <2>2
<1>23. b - a < BackfillLimit
  <2>1. CASE c \in old
    <3>1. c > a  BY <1>14, <1>18, <1>19, <1>21
    <3>2. a \in LastOf(Lookback, old)  BY <1>4, <1>6
    <3>3. c \in R  BY <1>4, <2>1, <3>1, <3>2, LastRows
    <3>4. c <= a + BackfillLimit /\ BackfillLimit \in Int  BY <1>7, <3>3, Limits
    <3> QED  BY <1>14, <1>18, <1>19, <3>4
  <2>2. CASE c \in K
    <3>1. c - (a + 1) < BackfillLimit /\ BackfillLimit \in Int  BY <1>15, <2>2, Limits
    <3> QED  BY <1>14, <1>18, <1>19, <3>1
  <2> QED  BY <1>13, <1>19, <2>1, <2>2
<1> QED  BY <1>1, <1>14, <1>18, <1>19, <1>20, <1>21, <1>22, <1>23, <1>13, HoleFilled DEF K

-----------------------------------------------------------------------------
(* Theorems *)

\* _filter_closed_candles keeps every bar out of the table that is still
\* forming at the venue, whatever the venues' clocks, the margin, the size of
\* the bars and the pages, and however late in a cycle the fetch or backfill.
THEOREM NeverAFormingBar == Spec => []NoFormingBar
<1>1. IInv => NoFormingBar  BY DEF IInv, NothingPartial, NoFormingBar
<1> QED  BY <1>1, Invariance, PTL

\* _update_error_state: as long as nothing crashes, the failure and recovery
\* alerts of every pair alternate, and the last one tells whether the streak is
\* at the threshold, for every feed in which no symbol of no class stands
\* behind the second place.
THEOREM StreaksAreAlertedOnce == Spec => []StreakAlerted
<1>1. IInv => StreakAlerted  BY DEF IInv
<1> QED  BY <1>1, Invariance, PTL

\* The one-shot backfill closes every hole in the recent window that begins
\* within its limit of the first recent row, through the pages of either
\* adapter, if the venue leaves nothing out.
ReachableHolesClose ==
    [][\A p \in Pairs : BackfillStores(p, 0..Forming) /\ WithinReach(p) => Gaps(tx', p) = {}]_vars

THEOREM BackfillsReach == Spec => ReachableHolesClose
<1>1. HealInv => [\A p \in Pairs : BackfillStores(p, 0..Forming) /\ WithinReach(p) => Gaps(tx', p) = {}]_vars
  BY HolesClose
<1> QED  BY <1>1, HealInvariance, PTL DEF ReachableHolesClose

\* If no more bars go by than a backfill reads, that is every hole.
THEOREM BackfillsHeal ==
    ASSUME MaxTime \div BarTicks <= BackfillLimit
    PROVE  Spec => BackfillHeals
<1>1. ASSUME HealInv, NEW p \in Pairs, BackfillStores(p, 0..Forming)  PROVE WithinReach(p)
  <2>1. IInv /\ tx \in Databases /\ p = Head(todo) /\ Gaps(tx, p) # {}
    BY <1>1 DEF HealInv, IInv, TypeOK, BackfillHasGap, BackfillStores
  <2>2. PICK R : R = Recent(tx, p)  OBVIOUS
  <2>3. R \in SUBSET Nat /\ R \in SUBSET Int /\ IsFiniteSet(R) /\ R # {} /\ R \subseteq Bars
    <3>1. R # {}  BY <2>1, <2>2 DEF Gaps
    <3>2. R \subseteq tx.candles[p] /\ tx.candles[p] \in SUBSET Nat /\ IsFiniteSet(R)
      BY <2>1, <2>2, RecentRows
    <3>3. tx.candles[p] \subseteq Bars  BY <2>1 DEF Databases
    <3> QED  BY <3>1, <3>2, <3>3
  <2>4. PICK hi \in Nat : hi = Max(R) /\ hi \in Bars  BY <2>3, MaxOfFinite
  <2>5. PICK lo \in Nat : lo = Min(R)  BY <2>3, MinOfFinite
  <2>6. hi <= BackfillLimit
    <3>1. PICK z : z = MaxTime \div BarTicks  OBVIOUS
    <3>2. z \in Int  BY <3>1, ConstantTypes, Quotient
    <3>3. hi <= z /\ z <= BackfillLimit  BY <2>4, <3>1, <3>2 DEF Bars
    <3> QED  BY <3>2, <3>3, Limits
  <2>7. hi <= lo + BackfillLimit  BY <2>6, Limits
  <2> QED  BY <2>2, <2>4, <2>5, <2>7 DEF WithinReach
<1>2. HealInv => [\A p \in Pairs : BackfillStores(p, 0..Forming) => Gaps(tx', p) = {}]_vars
  BY <1>1, HolesClose
<1> QED  BY <1>2, HealInvariance, PTL DEF BackfillHeals

=============================================================================
