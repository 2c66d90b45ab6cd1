---------------------------- MODULE StrategyProofs ----------------------------
(***************************************************************************)
(* Proofs about the life of a strategy: the versions that the research     *)
(* databases feed (StrategyVersions), for every set of extractions,        *)
(* ranges, seeders and names, and the two evaluators of Tier-3 specs       *)
(* (Tier3Simulator), for every spec, every history and all rates.          *)
(*                                                                         *)
(* Versions.  Both properties rest on row ids that name one row, on either *)
(* database (OneRowPerId): that is why a transfer may skip rows by id, and *)
(* why the seed may read the evidence in queries that others interleave    *)
(* with.                                                                   *)
(*                                                                         *)
(* Evaluators.  A position of the backtest is, bar by bar, the phantom of  *)
(* its signal (Carried, Standing); its stop is the one computed anew from  *)
(* the bars behind it (LevelsAt).  A live simulation has the same book, a  *)
(* view of the same signals, and one phantom, in the state that its walk   *)
(* has at that bar, for each skipped signal with no outcome yet (Matched). *)
(* BacktestKeeps and LiveMatches show that one bar keeps this; the         *)
(* invariant of the system (SimInv) adds what its states are computed      *)
(* from.                                                                   *)
(***************************************************************************)
EXTENDS StrategyVersions, Tier3Simulator, FiniteFacts, SequenceTheorems

-----------------------------------------------------------------------------
(* Versions and their evidence. *)

Backtests == [id : Nat, ext : Extractions, range : Ranges]
Segments  == UNION {Windows(r) : r \in Ranges}
Analyses  == [id : Nat, bt : Nat, failed : SUBSET Segments]
Tables    == [exts : SUBSET Extractions, bts : SUBSET Backtests, ans : SUBSET Analyses]
Transfers == [pc : {"idle", "plan", "done"}, exts : SUBSET Extractions,
              bts : SUBSET Backtests, ans : SUBSET Analyses]
VersionRows == [name : Names, version : Nat, ext : Extractions, bt : Backtests, an : Analyses,
                tf : Timeframes, approved : BOOLEAN, enabled : BOOLEAN]

\* What the seed script has read so far, step by step.
Seeds ==
    {NoSeed}
    \cup [pc : {"backtest"}, ext : Extractions, name : Names, tf : Timeframes]
    \cup [pc : {"analysis"}, ext : Extractions, name : Names, tf : Timeframes, bt : Backtests]
    \cup [pc : {"version"}, ext : Extractions, name : Names, tf : Timeframes, bt : Backtests,
          an : Analyses]
    \cup [pc : {"insert"}, ext : Extractions, name : Names, tf : Timeframes, bt : Backtests,
          an : Analyses, fresh : BOOLEAN, version : Nat]

TypeOK ==
    /\ db \in [Sites -> Tables] /\ nextId \in Nat
    /\ transfer \in Transfers
    /\ seed \in [Seeders -> Seeds]
    /\ versions \in Seq(VersionRows)

\* Ids are drawn from one counter: they are the rows' identity on both sites.
IdsBelow(rows) == \A x \in rows : x.id < nextId
NamedOnce(rows, others) == \A x \in rows, y \in others : x.id = y.id => x = y

OneRowPerId ==
    \A s, t \in Sites :
        /\ IdsBelow(db[s].bts) /\ NamedOnce(db[s].bts, db[t].bts)
        /\ IdsBelow(db[s].ans) /\ NamedOnce(db[s].ans, db[t].ans)

\* A set of rows with all that their foreign keys name.
Closed(exts, bts, ans) ==
    /\ \A b \in bts : b.ext \in exts
    /\ \A a \in ans : \E b \in bts : b.id = a.bt

Chains == \A s \in Sites : Closed(db[s].exts, db[s].bts, db[s].ans)

\* What a transfer is about to write is a closed part of the laptop's rows.
Planned ==
    transfer.pc = "plan" =>
        /\ transfer.bts \subseteq db["laptop"].bts /\ transfer.ans \subseteq db["laptop"].ans
        /\ Closed(transfer.exts, transfer.bts, transfer.ans)

\* What it has written stays.
Arrived ==
    transfer.pc = "done" =>
        /\ transfer.exts \subseteq db["prod"].exts
        /\ transfer.bts \subseteq db["prod"].bts
        /\ transfer.ans \subseteq db["prod"].ans

HasBacktest(row) == row.bt \in db["prod"].bts /\ row.bt.ext = row.ext
HasAnalysis(row) == row.an \in db["prod"].ans /\ row.an.bt = row.bt.id

\* What the seed has read is evidence of its extraction.
SeedBacked ==
    \A s \in Seeders :
        /\ seed[s].pc \in {"analysis", "version", "insert"} => HasBacktest(seed[s])
        /\ seed[s].pc \in {"version", "insert"} => HasAnalysis(seed[s])

IInv == TypeOK /\ OneRowPerId /\ Chains /\ Planned /\ Arrived /\ SeedBacked /\ VersionsBacked

-----------------------------------------------------------------------------
(* Lemmas *)

LEMMA SiteRows ==
    ASSUME TypeOK, NEW s \in Sites
    PROVE  /\ db[s].exts \subseteq Extractions
           /\ db[s].bts \subseteq Backtests /\ db[s].ans \subseteq Analyses
  BY DEF TypeOK, Tables

\* A row with a new id is no other row.
LEMMA FreshRow ==
    ASSUME NEW S, NEW T, NEW row, NamedOnce(S, T),
           \A x \in S \cup T : x.id # row.id
    PROVE  /\ NamedOnce(S \cup {row}, T \cup {row})
           /\ NamedOnce(S \cup {row}, T) /\ NamedOnce(S, T \cup {row})
  BY DEF NamedOnce

\* The number of a version is read off finitely many rows.
LEMMA NextVersion ==
    ASSUME TypeOK, NEW name
    PROVE  Max(VersionsOf(name) \cup {0}) + 1 \in Nat
<1> DEFINE D == {j \in DOMAIN versions : versions[j].name = name}
           f == [i \in D |-> versions[i].version]
<1>1. Len(versions) \in Nat /\ DOMAIN versions = 1 .. Len(versions)
  BY LenProperties DEF TypeOK
<1>2. IsFiniteSet(D)
  <2>1. IsFiniteSet(1 .. Len(versions)) /\ D \in SUBSET (1 .. Len(versions))
    BY <1>1, FS_Interval
  <2> QED  BY <2>1, FS_Subset
<1>3. VersionsOf(name) \in SUBSET Nat
  <2>1. \A i \in D : versions[i] \in VersionRows  BY <1>1, ElementOfSeq DEF TypeOK
  <2> QED  BY <2>1 DEF VersionsOf, VersionRows
<1>4. IsFiniteSet(VersionsOf(name))
  <2>1. f \in Surjection(D, VersionsOf(name))  BY DEF VersionsOf, Surjection
  <2> QED  BY <1>2, <2>1, FS_Surjection
<1>5. IsFiniteSet(VersionsOf(name) \cup {0})  BY <1>4, FS_AddElement
<1>6. VersionsOf(name) \cup {0} \in SUBSET Int /\ VersionsOf(name) \cup {0} # {}  BY <1>3
<1>7. Max(VersionsOf(name) \cup {0}) \in VersionsOf(name) \cup {0}
  BY <1>5, <1>6, MaxOfFinite
<1> QED  BY <1>3, <1>7

\* Rows are never deleted: evidence stays evidence as tables grow.
LEMMA EvidenceStays ==
    ASSUME IInv, UNCHANGED <<seed, versions>>,
           db["prod"].bts \subseteq db'["prod"].bts, db["prod"].ans \subseteq db'["prod"].ans
    PROVE  SeedBacked' /\ VersionsBacked'
<1>1. SeedBacked'  BY DEF IInv, SeedBacked, HasBacktest, HasAnalysis
<1>2. VersionsBacked'  BY DEF IInv, VersionsBacked
<1> QED  BY <1>1, <1>2

\* A step that leaves the research tables and the transfer alone.
LEMMA ResearchKept ==
    ASSUME IInv, UNCHANGED <<db, nextId, transfer>>
    PROVE  OneRowPerId' /\ Chains' /\ Planned' /\ Arrived'
  BY DEF IInv, OneRowPerId, IdsBelow, NamedOnce, Chains, Closed, Planned, Arrived

\* A step of the seed script that makes no version.
LEMMA SeedingStep ==
    ASSUME IInv, NEW s \in Seeders, NEW row \in Seeds, Step(s, row), idleSeed' = idleSeed,
           row.pc \in {"analysis", "version", "insert"} => HasBacktest(row),
           row.pc \in {"version", "insert"} => HasAnalysis(row)
    PROVE  IInv'
<1>1. UNCHANGED <<db, nextId, transfer, versions>> /\ seed' = [seed EXCEPT ![s] = row]
  BY DEF idleSeed, Step
<1>2. TypeOK'  BY <1>1 DEF IInv, TypeOK
<1>3. (OneRowPerId /\ Chains /\ Planned /\ Arrived)'  BY <1>1, ResearchKept
<1>4. SeedBacked'
  <2> SUFFICES ASSUME NEW t \in Seeders
               PROVE  /\ seed'[t].pc \in {"analysis", "version", "insert"} => HasBacktest(seed[t])'
                      /\ seed'[t].pc \in {"version", "insert"} => HasAnalysis(seed[t])'
    BY DEF SeedBacked
  <2>1. seed'[t] = IF t = s THEN row ELSE seed[t]  BY <1>1 DEF IInv, TypeOK
  <2> QED  BY <1>1, <2>1 DEF IInv, SeedBacked, HasBacktest, HasAnalysis
<1>5. VersionsBacked'  BY <1>1 DEF IInv, VersionsBacked
<1> QED  BY <1>2, <1>3, <1>4, <1>5 DEF IInv

LEMMA EndStep ==
    ASSUME IInv, NEW s \in Seeders, End(s), idleSeed' = idleSeed
    PROVE  IInv'
<1>1. Step(s, NoSeed) /\ NoSeed \in Seeds /\ NoSeed.pc = "idle"
  BY DEF End, Step, Seeds, NoSeed
<1> QED  BY <1>1, SeedingStep

-----------------------------------------------------------------------------
(* Each step *)

LEMMA Start == Init => IInv
<1> SUFFICES ASSUME Init  PROVE IInv  OBVIOUS
<1>1. TypeOK
  <2>1. db \in [Sites -> Tables]  BY DEF Init, Sites, Tables
  <2>2. transfer \in Transfers /\ transfer.pc = "idle"  BY DEF Init, NoTransfer, Transfers
  <2>3. seed \in [Seeders -> Seeds]  BY DEF Init, Seeds
  <2> QED  BY <2>1, <2>2, <2>3 DEF Init, TypeOK
<1>2. \A s \in Sites : db[s].bts = {} /\ db[s].ans = {}  BY DEF Init, Sites
<1>3. OneRowPerId /\ Chains  BY <1>2 DEF OneRowPerId, IdsBelow, NamedOnce, Chains, Closed
<1>4. Planned /\ Arrived  BY DEF Init, NoTransfer, Planned, Arrived
<1>5. SeedBacked  BY DEF Init, NoSeed, SeedBacked
<1>6. VersionsBacked  BY DEF Init, VersionsBacked
<1> QED  BY <1>1, <1>3, <1>4, <1>5, <1>6 DEF IInv

LEMMA BacktestJobStep ==
    ASSUME IInv, NEW s \in Sites, NEW e \in Extractions, NEW r \in Ranges, Backtest(s, e, r)
    PROVE  IInv'
<1> DEFINE row == [id |-> nextId, ext |-> e, range |-> r]
<1>1. /\ db' = [db EXCEPT ![s].bts = @ \cup {row}] /\ nextId' = nextId + 1
      /\ e \in db[s].exts /\ UNCHANGED <<transfer, seed, versions>>
  BY DEF Backtest
<1>2. row \in Backtests /\ nextId \in Nat  BY DEF IInv, TypeOK, Backtests
<1>3. \A t \in Sites : /\ db'[t].exts = db[t].exts /\ db'[t].ans = db[t].ans
                       /\ db'[t].bts = IF t = s THEN db[t].bts \cup {row} ELSE db[t].bts
  BY <1>1 DEF IInv, TypeOK, Tables
<1>4. TypeOK'
  <2>1. [db[s] EXCEPT !.bts = db[s].bts \cup {row}] \in Tables
    BY <1>2 DEF IInv, TypeOK, Tables
  <2>2. db' = [db EXCEPT ![s] = [db[s] EXCEPT !.bts = db[s].bts \cup {row}]]
    BY <1>1 DEF IInv, TypeOK, Tables
  <2>3. db' \in [Sites -> Tables]  BY <2>1, <2>2 DEF IInv, TypeOK
  <2> QED  BY <1>1, <1>2, <2>3 DEF IInv, TypeOK
<1>5. OneRowPerId'
  <2>1. \A t \in Sites : \A x \in db[t].bts : x.id < nextId /\ x.id \in Nat
    BY SiteRows DEF IInv, OneRowPerId, IdsBelow, Backtests
  <2>2. \A t \in Sites : \A x \in db[t].ans : x.id < nextId /\ x.id \in Nat
    BY SiteRows DEF IInv, OneRowPerId, IdsBelow, Analyses
  <2>3. row.id = nextId /\ \A t \in Sites : \A x \in db[t].bts : x.id # row.id
    BY <1>2, <2>1
  <2> HIDE DEF row
  <2>4. \A t \in Sites : \A x \in db'[t].bts : x.id < nextId'
    BY <1>1, <1>2, <1>3, <2>1, <2>3
  <2>5. \A t \in Sites : \A x \in db'[t].ans : x.id < nextId'
    BY <1>1, <1>2, <1>3, <2>2
  <2>6. ASSUME NEW t \in Sites, NEW u \in Sites
        PROVE  NamedOnce(db'[t].bts, db'[u].bts) /\ NamedOnce(db'[t].ans, db'[u].ans)
    <3>1. NamedOnce(db[t].bts, db[u].bts) /\ NamedOnce(db[t].ans, db[u].ans)
      BY DEF IInv, OneRowPerId
    <3>2. \A x \in db[t].bts \cup db[u].bts : x.id # row.id  BY <2>3
    <3>3. /\ NamedOnce(db[t].bts \cup {row}, db[u].bts \cup {row})
          /\ NamedOnce(db[t].bts \cup {row}, db[u].bts)
          /\ NamedOnce(db[t].bts, db[u].bts \cup {row})
      BY <3>1, <3>2, FreshRow
    <3>4. NamedOnce(db'[t].bts, db'[u].bts)
      <4>1. CASE t = s /\ u = s  BY <1>3, <3>3, <4>1
      <4>2. CASE t = s /\ u # s  BY <1>3, <3>3, <4>2
      <4>3. CASE t # s /\ u = s  BY <1>3, <3>3, <4>3
      <4>4. CASE t # s /\ u # s  BY <1>3, <3>1, <4>4
      <4> QED  BY <4>1, <4>2, <4>3, <4>4
    <3> QED  BY <1>3, <3>1, <3>4
  <2> QED  BY <2>4, <2>5, <2>6 DEF OneRowPerId, IdsBelow, NamedOnce
<1>6. Chains'  BY <1>1, <1>3 DEF IInv, Chains, Closed
<1>7. "laptop" \in Sites /\ "prod" \in Sites  BY DEF Sites
<1>8. Planned' /\ Arrived'
  BY <1>1, <1>3, <1>7 DEF IInv, Planned, Arrived, Closed
<1>9. SeedBacked' /\ VersionsBacked'  BY <1>1, <1>3, <1>7, EvidenceStays
<1> QED  BY <1>4, <1>5, <1>6, <1>8, <1>9 DEF IInv

\* What may fail are windows that the analysis makes.
LEMMA FailuresAreSegments ==
    ASSUME NEW e, NEW r \in Ranges, NEW f \in Failures(e, r)
    PROVE  f \in SUBSET Segments
<1>1. f \in SUBSET Windows(r)
  <2>1. CASE Kind[e] = "stateful"  BY <2>1 DEF Failures
  <2>2. CASE Kind[e] # "stateful"  BY <2>2 DEF Failures
  <2> QED  BY <2>1, <2>2
<1> QED  BY <1>1 DEF Segments

LEMMA AnalyseStep ==
    ASSUME IInv, NEW s \in Sites, NEW bt \in db[s].bts,
           NEW failed \in Failures(bt.ext, bt.range), Analyse(s, bt, failed)
    PROVE  IInv'
<1> DEFINE row == [id |-> nextId, bt |-> bt.id, failed |-> failed]
<1>1. /\ db' = [db EXCEPT ![s].ans = @ \cup {row}] /\ nextId' = nextId + 1
      /\ UNCHANGED <<transfer, seed, versions>>
  BY DEF Analyse
<1>2. row \in Analyses /\ nextId \in Nat
  <2>1. bt \in Backtests  BY SiteRows DEF IInv
  <2>2. failed \in SUBSET Segments  BY <2>1, FailuresAreSegments DEF Backtests
  <2> QED  BY <2>1, <2>2 DEF IInv, TypeOK, Analyses, Backtests
<1>3. \A t \in Sites : /\ db'[t].exts = db[t].exts /\ db'[t].bts = db[t].bts
                       /\ db'[t].ans = IF t = s THEN db[t].ans \cup {row} ELSE db[t].ans
  BY <1>1 DEF IInv, TypeOK, Tables
<1>4. TypeOK'
  <2>1. [db[s] EXCEPT !.ans = db[s].ans \cup {row}] \in Tables
    BY <1>2 DEF IInv, TypeOK, Tables
  <2>2. db' = [db EXCEPT ![s] = [db[s] EXCEPT !.ans = db[s].ans \cup {row}]]
    BY <1>1 DEF IInv, TypeOK, Tables
  <2>3. db' \in [Sites -> Tables]  BY <2>1, <2>2 DEF IInv, TypeOK
  <2> QED  BY <1>1, <1>2, <2>3 DEF IInv, TypeOK
<1>5. OneRowPerId'
  <2>1. \A t \in Sites : \A x \in db[t].ans : x.id < nextId /\ x.id \in Nat
    BY SiteRows DEF IInv, OneRowPerId, IdsBelow, Analyses
  <2>2. \A t \in Sites : \A x \in db[t].bts : x.id < nextId /\ x.id \in Nat
    BY SiteRows DEF IInv, OneRowPerId, IdsBelow, Backtests
  <2>3. row.id = nextId /\ \A t \in Sites : \A x \in db[t].ans : x.id # row.id
    BY <1>2, <2>1
  <2> HIDE DEF row
  <2>4. \A t \in Sites : \A x \in db'[t].ans : x.id < nextId'
    BY <1>1, <1>2, <1>3, <2>1, <2>3
  <2>5. \A t \in Sites : \A x \in db'[t].bts : x.id < nextId'
    BY <1>1, <1>2, <1>3, <2>2
  <2>6. ASSUME NEW t \in Sites, NEW u \in Sites
        PROVE  NamedOnce(db'[t].ans, db'[u].ans) /\ NamedOnce(db'[t].bts, db'[u].bts)
    <3>1. NamedOnce(db[t].ans, db[u].ans) /\ NamedOnce(db[t].bts, db[u].bts)
      BY DEF IInv, OneRowPerId
    <3>2. \A x \in db[t].ans \cup db[u].ans : x.id # row.id  BY <2>3
    <3>3. /\ NamedOnce(db[t].ans \cup {row}, db[u].ans \cup {row})
          /\ NamedOnce(db[t].ans \cup {row}, db[u].ans)
          /\ NamedOnce(db[t].ans, db[u].ans \cup {row})
      BY <3>1, <3>2, FreshRow
    <3>4. NamedOnce(db'[t].ans, db'[u].ans)
      <4>1. CASE t = s /\ u = s  BY <1>3, <3>3, <4>1
      <4>2. CASE t = s /\ u # s  BY <1>3, <3>3, <4>2
      <4>3. CASE t # s /\ u = s  BY <1>3, <3>3, <4>3
      <4>4. CASE t # s /\ u # s  BY <1>3, <3>1, <4>4
      <4> QED  BY <4>1, <4>2, <4>3, <4>4
    <3> QED  BY <1>3, <3>1, <3>4
  <2> QED  BY <2>4, <2>5, <2>6 DEF OneRowPerId, IdsBelow, NamedOnce
<1>6. Chains'  BY <1>1, <1>3 DEF IInv, Chains, Closed
<1>7. "laptop" \in Sites /\ "prod" \in Sites  BY DEF Sites
<1>8. Planned' /\ Arrived'
  BY <1>1, <1>3, <1>7 DEF IInv, Planned, Arrived, Closed
<1>9. SeedBacked' /\ VersionsBacked'  BY <1>1, <1>3, <1>7, EvidenceStays
<1> QED  BY <1>4, <1>5, <1>6, <1>8, <1>9 DEF IInv

LEMMA TransferCollectStep ==
    ASSUME IInv, NEW es \in SUBSET Extractions, NEW same \in BOOLEAN, NEW dry \in BOOLEAN,
           TransferCollect(es, same, dry)
    PROVE  IInv'
<1>1. /\ transfer' \in {NoTransfer, Plan(es)}
      /\ UNCHANGED <<db, nextId, seed, versions>>
  BY DEF TransferCollect
<1>2. "laptop" \in Sites  BY DEF Sites
<1>3. transfer' \in Transfers
  <2>1. db["laptop"].bts \subseteq Backtests /\ db["laptop"].ans \subseteq Analyses
    BY <1>2, SiteRows DEF IInv
  <2> QED  BY <1>1, <2>1 DEF NoTransfer, Plan, Transfers
<1>4. TypeOK'  BY <1>1, <1>3 DEF IInv, TypeOK
<1>5. OneRowPerId' /\ Chains'  BY <1>1 DEF IInv, OneRowPerId, IdsBelow, NamedOnce, Chains, Closed
<1>6. Planned'
  <2>1. CASE transfer' = NoTransfer  BY <2>1 DEF NoTransfer, Planned
  <2>2. CASE transfer' = Plan(es)  BY <1>1, <2>2 DEF Plan, Planned, Closed
  <2> QED  BY <1>1, <2>1, <2>2
<1>7. Arrived'  BY <1>1 DEF NoTransfer, Plan, Arrived
<1>8. SeedBacked' /\ VersionsBacked'  BY <1>1, EvidenceStays
<1> QED  BY <1>4, <1>5, <1>6, <1>7, <1>8 DEF IInv

\* Skipping the rows that production has by id loses none: they are the same.
LEMMA TransferWriteStep == ASSUME IInv, TransferWrite  PROVE IInv'
<1>1. CASE Collides(transfer)
  <2>1. transfer' = NoTransfer /\ UNCHANGED <<db, nextId, seed, versions>>
    BY <1>1 DEF TransferWrite
  <2>2. TypeOK'  BY <2>1 DEF IInv, TypeOK, Transfers, NoTransfer
  <2>3. OneRowPerId' /\ Chains'  BY <2>1 DEF IInv, OneRowPerId, IdsBelow, NamedOnce, Chains, Closed
  <2>4. Planned' /\ Arrived'  BY <2>1 DEF NoTransfer, Planned, Arrived
  <2>5. SeedBacked' /\ VersionsBacked'  BY <2>1, EvidenceStays
  <2> QED  BY <2>2, <2>3, <2>4, <2>5 DEF IInv
<1>2. CASE ~Collides(transfer)
  <2> DEFINE bts == NewRows(transfer.bts, db["prod"].bts)
             ans == NewRows(transfer.ans, db["prod"].ans)
  <2>1. /\ transfer.pc = "plan" /\ transfer' = [transfer EXCEPT !.pc = "done"]
        /\ db' = [db EXCEPT !["prod"] = Inserted(transfer)]
        /\ UNCHANGED <<nextId, seed, versions>>
    BY <1>2 DEF TransferWrite
  <2>2. /\ transfer \in Transfers /\ "laptop" \in Sites /\ "prod" \in Sites
        /\ db \in [Sites -> Tables]
    BY DEF IInv, TypeOK, Sites
  <2>3. /\ transfer'.exts = transfer.exts /\ transfer'.bts = transfer.bts
        /\ transfer'.ans = transfer.ans /\ transfer'.pc = "done" /\ transfer' \in Transfers
    BY <2>1, <2>2 DEF Transfers
  <2>4. /\ bts \subseteq db["laptop"].bts /\ ans \subseteq db["laptop"].ans
        /\ transfer.bts \subseteq db["laptop"].bts /\ transfer.ans \subseteq db["laptop"].ans
        /\ Closed(transfer.exts, transfer.bts, transfer.ans)
    BY <2>1 DEF IInv, Planned, NewRows
  <2>5. /\ db'["prod"].exts = db["prod"].exts \cup transfer.exts
        /\ db'["prod"].bts = db["prod"].bts \cup bts
        /\ db'["prod"].ans = db["prod"].ans \cup ans
        /\ \A s \in Sites \ {"prod"} : db'[s] = db[s]
    BY <2>1, <2>2 DEF Inserted
  <2>6. transfer.bts \subseteq db'["prod"].bts /\ transfer.ans \subseteq db'["prod"].ans
    <3>1. /\ NamedOnce(db["prod"].bts, db["laptop"].bts)
          /\ NamedOnce(db["prod"].ans, db["laptop"].ans)
      BY <2>2 DEF IInv, OneRowPerId
    <3>2. ASSUME NEW b \in transfer.bts, b \notin bts  PROVE b \in db["prod"].bts
      BY <2>4, <3>1, <3>2 DEF NewRows, NamedOnce
    <3>3. ASSUME NEW a \in transfer.ans, a \notin ans  PROVE a \in db["prod"].ans
      BY <2>4, <3>1, <3>3 DEF NewRows, NamedOnce
    <3> QED  BY <2>5, <3>2, <3>3
  <2>7. TypeOK'
    <3>1. Inserted(transfer) \in Tables
      BY <2>2, SiteRows DEF IInv, Inserted, NewRows, Tables, Transfers
    <3> QED  BY <2>1, <2>2, <2>3, <3>1 DEF IInv, TypeOK
  <2> HIDE DEF bts, ans
  <2>8. OneRowPerId'
    <3>1. \A s \in Sites : /\ db'[s].bts \subseteq db["laptop"].bts \cup db[s].bts
                           /\ db'[s].ans \subseteq db["laptop"].ans \cup db[s].ans
      BY <2>4, <2>5
    <3>2. ASSUME NEW s \in Sites
          PROVE  /\ \A x \in db'[s].bts : x.id < nextId'
                 /\ \A x \in db'[s].ans : x.id < nextId'
      BY <2>1, <2>2, <3>1 DEF IInv, OneRowPerId, IdsBelow
    <3>3. ASSUME NEW s \in Sites, NEW t \in Sites
          PROVE  NamedOnce(db'[s].bts, db'[t].bts) /\ NamedOnce(db'[s].ans, db'[t].ans)
      <4>1. \A u, w \in Sites : /\ NamedOnce(db[u].bts, db[w].bts)
                                /\ NamedOnce(db[u].ans, db[w].ans)
        BY DEF IInv, OneRowPerId
      <4> QED  BY <2>2, <3>1, <4>1 DEF NamedOnce
    <3> QED  BY <3>2, <3>3 DEF OneRowPerId, IdsBelow, NamedOnce
  <2>9. Chains'
    <3>1. Closed(db["prod"].exts, db["prod"].bts, db["prod"].ans)  BY <2>2 DEF IInv, Chains
    <3>2. ans \subseteq transfer.ans /\ bts \subseteq transfer.bts  BY DEF ans, bts, NewRows
    <3>3. Closed(db'["prod"].exts, db'["prod"].bts, db'["prod"].ans)
      BY <2>4, <2>5, <2>6, <3>1, <3>2 DEF Closed
    <3>4. \A s \in Sites \ {"prod"} : Closed(db'[s].exts, db'[s].bts, db'[s].ans)
      BY <2>5 DEF IInv, Chains
    <3> QED  BY <3>3, <3>4 DEF Chains, Closed
  <2>10. Planned' /\ Arrived'  BY <2>3, <2>5, <2>6 DEF Planned, Arrived
  <2>11. SeedBacked' /\ VersionsBacked'  BY <2>1, <2>5, EvidenceStays
  <2> QED  BY <2>7, <2>8, <2>9, <2>10, <2>11 DEF IInv
<1> QED  BY <1>1, <1>2

LEMMA SeedStartStep ==
    ASSUME IInv, NEW s \in Seeders, NEW e \in Extractions, NEW cli \in BOOLEAN,
           NEW n \in Names, NEW tf \in Timeframes, SeedStart(s, e, cli, n, tf)
    PROVE  IInv'
<1> DEFINE row == [pc |-> "backtest", ext |-> e, name |-> n, tf |-> tf]
<1>1. row \in Seeds /\ row.pc = "backtest"  BY DEF Seeds
<1>2. (End(s) \/ Step(s, row)) /\ idleSeed' = idleSeed  BY DEF SeedStart
<1> HIDE DEF row
<1> QED  BY <1>1, <1>2, EndStep, SeedingStep

\* Whatever the seed script holds is of its type.
LEMMA SeedTyped ==
    ASSUME TypeOK, NEW s \in Seeders, seed[s].pc # "idle"
    PROVE  /\ seed[s].ext \in Extractions /\ seed[s].name \in Names /\ seed[s].tf \in Timeframes
           /\ seed[s].pc # "backtest" => seed[s].bt \in Backtests
           /\ seed[s].pc \in {"version", "insert"} => seed[s].an \in Analyses
           /\ seed[s].pc = "insert" => seed[s].version \in Nat
<1>1. seed[s] \in Seeds /\ seed[s] # NoSeed  BY DEF TypeOK, NoSeed
<1> QED  BY <1>1 DEF Seeds

LEMMA SeedBacktestStep ==
    ASSUME IInv, NEW s \in Seeders, NEW pick, SeedBacktest(s, pick)
    PROVE  IInv'
<1> DEFINE me == seed[s]
           found == BacktestFor(me.ext, pick)
           b == CHOOSE b \in found : TRUE
           row == [pc |-> "analysis", ext |-> me.ext, name |-> me.name, tf |-> me.tf, bt |-> b]
<1>1. me.pc = "backtest" /\ idleSeed' = idleSeed
      /\ IF found = {} THEN End(s) ELSE Step(s, row)
  BY DEF SeedBacktest
<1>2. CASE found = {}  BY <1>1, <1>2, EndStep
<1>3. CASE found # {}
  <2>1. b \in found  BY <1>3
  <2>2. b \in db["prod"].bts /\ b.ext = me.ext  BY <2>1 DEF BacktestFor, Latest
  <2>3. b \in Backtests  BY <2>2, SiteRows DEF IInv, Sites
  <2>4. me.ext \in Extractions /\ me.name \in Names /\ me.tf \in Timeframes
    BY <1>1, SeedTyped DEF IInv
  <2>5. row \in Seeds /\ row.pc = "analysis" /\ row.bt = b /\ row.ext = me.ext
    BY <2>3, <2>4 DEF Seeds
  <2>6. HasBacktest(row)  BY <2>2, <2>5 DEF HasBacktest
  <2>7. Step(s, row)  BY <1>1, <1>3
  <2> HIDE DEF row
  <2> QED  BY <1>1, <2>5, <2>6, <2>7, SeedingStep
<1> QED  BY <1>2, <1>3

LEMMA SeedAnalysisStep ==
    ASSUME IInv, NEW s \in Seeders, NEW pick, NEW dry, SeedAnalysis(s, pick, dry)
    PROVE  IInv'
<1> DEFINE me == seed[s]
           found == AnalysisFor(me.bt, pick)
           a == CHOOSE a \in found : TRUE
           row == [pc |-> "version", ext |-> me.ext, name |-> me.name, tf |-> me.tf,
                   bt |-> me.bt, an |-> a]
<1>1. me.pc = "analysis" /\ idleSeed' = idleSeed
      /\ IF found = {} \/ dry THEN End(s) ELSE Step(s, row)
  BY DEF SeedAnalysis
<1>2. CASE found = {} \/ dry  BY <1>1, <1>2, EndStep
<1>3. CASE ~(found = {} \/ dry)
  <2>1. a \in found  BY <1>3
  <2>2. a \in db["prod"].ans /\ a.bt = me.bt.id  BY <2>1 DEF AnalysisFor
  <2>3. a \in Analyses  BY <2>2, SiteRows DEF IInv, Sites
  <2>4. /\ me.ext \in Extractions /\ me.name \in Names /\ me.tf \in Timeframes
        /\ me.bt \in Backtests
    BY <1>1, SeedTyped DEF IInv
  <2>5. row \in Seeds /\ row.bt = me.bt /\ row.ext = me.ext /\ row.an = a
    BY <2>3, <2>4 DEF Seeds
  <2>6. HasBacktest(me)  BY <1>1 DEF IInv, SeedBacked
  <2>7. HasBacktest(row) /\ HasAnalysis(row)
    BY <2>2, <2>5, <2>6 DEF HasBacktest, HasAnalysis
  <2>8. Step(s, row)  BY <1>1, <1>3
  <2> HIDE DEF row
  <2> QED  BY <1>1, <2>5, <2>7, <2>8, SeedingStep
<1> QED  BY <1>2, <1>3

LEMMA SeedVersionStep ==
    ASSUME IInv, NEW s \in Seeders, SeedVersion(s)
    PROVE  IInv'
<1> DEFINE me == seed[s]
           number == Max(VersionsOf(me.name) \cup {0}) + 1
           fresh == me.name \notin strategies
           row == [pc |-> "insert", ext |-> me.ext, name |-> me.name, tf |-> me.tf,
                   bt |-> me.bt, an |-> me.an, fresh |-> fresh, version |-> number]
<1>1. me.pc = "version" /\ idleSeed' = idleSeed /\ Step(s, row)  BY DEF SeedVersion
<1>2. number \in Nat  BY NextVersion DEF IInv
<1>3. fresh \in BOOLEAN  OBVIOUS
<1> HIDE DEF number, fresh
<1>4. /\ me.ext \in Extractions /\ me.name \in Names /\ me.tf \in Timeframes
      /\ me.bt \in Backtests /\ me.an \in Analyses
  BY <1>1, SeedTyped DEF IInv
<1>5. row \in Seeds /\ row.bt = me.bt /\ row.ext = me.ext /\ row.an = me.an
  BY <1>2, <1>3, <1>4 DEF Seeds
<1>6. HasBacktest(me) /\ HasAnalysis(me)  BY <1>1 DEF IInv, SeedBacked
<1>7. HasBacktest(row) /\ HasAnalysis(row)  BY <1>5, <1>6 DEF HasBacktest, HasAnalysis
<1> HIDE DEF row
<1> QED  BY <1>1, <1>5, <1>7, SeedingStep

LEMMA SeedInsertStep ==
    ASSUME IInv, NEW s \in Seeders, NEW conduct, SeedInsert(s, conduct)
    PROVE  IInv'
<1> DEFINE me == seed[s]
           row == [name |-> me.name, version |-> me.version, ext |-> me.ext, bt |-> me.bt,
                   an |-> me.an, tf |-> me.tf, approved |-> FALSE, enabled |-> TRUE]
<1>1. /\ me.pc = "insert" /\ seed' = [seed EXCEPT ![s] = NoSeed]
      /\ UNCHANGED <<db, nextId, transfer>>
      /\ versions' = versions \/ versions' = Append(versions, row)
  BY DEF SeedInsert, End, trading
<1>2. /\ me.ext \in Extractions /\ me.name \in Names /\ me.tf \in Timeframes
      /\ me.bt \in Backtests /\ me.an \in Analyses /\ me.version \in Nat
  BY <1>1, SeedTyped DEF IInv
<1>3. row \in VersionRows /\ row.bt = me.bt /\ row.ext = me.ext /\ row.an = me.an
  BY <1>2 DEF VersionRows
<1>4. HasBacktest(me) /\ HasAnalysis(me)  BY <1>1 DEF IInv, SeedBacked
<1>5. HasBacktest(row) /\ HasAnalysis(row)  BY <1>3, <1>4 DEF HasBacktest, HasAnalysis
<1> HIDE DEF row
<1>6. /\ versions \in Seq(VersionRows) /\ Len(versions) \in Nat
      /\ DOMAIN versions = 1 .. Len(versions)
  BY LenProperties DEF IInv, TypeOK
<1>7. TypeOK'
  <2>1. versions' \in Seq(VersionRows)  BY <1>1, <1>3, <1>6, AppendProperties
  <2>2. seed' \in [Seeders -> Seeds]  BY <1>1 DEF IInv, TypeOK, Seeds
  <2> QED  BY <1>1, <2>1, <2>2 DEF IInv, TypeOK
<1>8. (OneRowPerId /\ Chains /\ Planned /\ Arrived)'  BY <1>1, ResearchKept
<1>9. SeedBacked'
  BY <1>1 DEF IInv, TypeOK, SeedBacked, HasBacktest, HasAnalysis, NoSeed
<1>10. VersionsBacked'
  <2>1. CASE versions' = versions  BY <1>1, <2>1 DEF IInv, VersionsBacked
  <2>2. CASE versions' = Append(versions, row)
    <3>1. DOMAIN versions' = 1 .. Len(versions) + 1
      BY <1>3, <1>6, <2>2, AppendProperties, LenProperties
    <3>2. ASSUME NEW v \in DOMAIN versions'
          PROVE  HasBacktest(versions'[v]) /\ HasAnalysis(versions'[v])
      <4>1. CASE v = Len(versions) + 1
        <5>1. versions'[v] = row  BY <1>3, <1>6, <2>2, <4>1, AppendProperties
        <5> QED  BY <1>5, <5>1
      <4>2. CASE v # Len(versions) + 1
        <5>1. v \in DOMAIN versions  BY <1>6, <3>1, <4>2
        <5>2. versions'[v] = versions[v]  BY <1>3, <1>6, <2>2, <5>1, AppendProperties
        <5>3. HasBacktest(versions[v]) /\ HasAnalysis(versions[v])
          BY <5>1 DEF IInv, VersionsBacked, HasBacktest, HasAnalysis
        <5> QED  BY <5>2, <5>3
      <4> QED  BY <4>1, <4>2
    <3> QED  BY <1>1, <3>2 DEF VersionsBacked, HasBacktest, HasAnalysis
  <2> QED  BY <1>1, <2>1, <2>2
<1> QED  BY <1>7, <1>8, <1>9, <1>10 DEF IInv

\* The admin routes change the flags of a version and none of its evidence.
LEMMA SetFlagsStep ==
    ASSUME IInv, NEW v \in DOMAIN versions, NEW approved \in BOOLEAN, NEW enabled \in BOOLEAN,
           SetFlags(v, approved, enabled)
    PROVE  IInv'
<1> DEFINE row == [versions[v] EXCEPT !.approved = approved, !.enabled = enabled]
<1>1. /\ versions' = [versions EXCEPT ![v] = row]
      /\ UNCHANGED <<db, nextId, transfer, seed>>
  BY DEF SetFlags, idleAdmin
<1>2. /\ versions \in Seq(VersionRows) /\ Len(versions) \in Nat
      /\ DOMAIN versions = 1 .. Len(versions) /\ v \in 1 .. Len(versions)
  BY LenProperties DEF IInv, TypeOK
<1>3. versions[v] \in VersionRows  BY <1>2, ElementOfSeq
<1>4. /\ row \in VersionRows /\ row.bt = versions[v].bt /\ row.ext = versions[v].ext
      /\ row.an = versions[v].an
  BY <1>3 DEF VersionRows
<1> HIDE DEF row
<1>5. /\ versions' \in Seq(VersionRows) /\ DOMAIN versions' = DOMAIN versions
      /\ \A j \in DOMAIN versions : versions'[j] = IF j = v THEN row ELSE versions[j]
  BY <1>1, <1>2, <1>4, ExceptSeq, LenProperties
<1>6. TypeOK'  BY <1>1, <1>5 DEF IInv, TypeOK
<1>7. (OneRowPerId /\ Chains /\ Planned /\ Arrived)'  BY <1>1, ResearchKept
<1>8. SeedBacked'  BY <1>1 DEF IInv, SeedBacked, HasBacktest, HasAnalysis
<1>9. VersionsBacked'  BY <1>1, <1>4, <1>5 DEF IInv, VersionsBacked
<1> QED  BY <1>6, <1>7, <1>8, <1>9 DEF IInv

\* The transfer's memory goes when its process ends; a tick, a drift pass or no
\* step leaves the rows alone.
LEMMA OtherSteps ==
    ASSUME IInv, UNCHANGED <<db, nextId, seed, versions>>, transfer' \in {transfer, NoTransfer}
    PROVE  IInv'
<1>1. TypeOK'
  <2>1. NoTransfer \in Transfers  BY DEF NoTransfer, Transfers
  <2> QED  BY <2>1 DEF IInv, TypeOK
<1>2. OneRowPerId' /\ Chains'  BY DEF IInv, OneRowPerId, IdsBelow, NamedOnce, Chains, Closed
<1>3. Planned' /\ Arrived'
  BY DEF IInv, Planned, Arrived, Closed, NoTransfer
<1>4. SeedBacked' /\ VersionsBacked'  BY EvidenceStays
<1> QED  BY <1>1, <1>2, <1>3, <1>4 DEF IInv

LEMMA NextStep == IInv /\ [Next]_vars => IInv'
<1> SUFFICES ASSUME IInv, [Next]_vars  PROVE IInv'  OBVIOUS
<1>1. CASE Research
  <2>1. ASSUME NEW es \in (SUBSET Extractions) \ {{}}, NEW same \in BOOLEAN, NEW dry \in BOOLEAN,
               TransferCollect(es, same, dry)
        PROVE  IInv'
    BY <2>1, TransferCollectStep
  <2> QED  BY <1>1, <2>1, BacktestJobStep, AnalyseStep, TransferWriteStep DEF Research
<1>2. CASE Seeding
  <2>1. PICK s \in Seeders :
           \/ \E e \in Extractions, cli \in BOOLEAN, n \in Names, tf \in Timeframes :
                 SeedStart(s, e, cli, n, tf)
           \/ \E pick \in {None} \cup Ids : SeedBacktest(s, pick)
           \/ \E pick \in {None} \cup Ids, dry \in BOOLEAN : SeedAnalysis(s, pick, dry)
           \/ SeedVersion(s)
           \/ \E c \in Conducts : SeedInsert(s, c)
    BY <1>2 DEF Seeding
  <2> QED  BY <2>1, SeedStartStep, SeedBacktestStep, SeedAnalysisStep, SeedVersionStep, SeedInsertStep
<1>3. CASE Trading
  <2>1. ASSUME NEW v \in DOMAIN versions, ApprovePaper(v) \/ Enable(v) \/ Disable(v)
        PROVE  IInv'
    <3>1. versions[v] \in VersionRows
      BY LenProperties, ElementOfSeq DEF IInv, TypeOK
    <3>2. versions[v].approved \in BOOLEAN /\ versions[v].enabled \in BOOLEAN
      BY <3>1 DEF VersionRows
    <3> QED  BY <2>1, <3>2, SetFlagsStep DEF ApprovePaper, Enable, Disable
  <2>2. ASSUME NEW dd \in Drawdowns, Tick(dd)  PROVE IInv'
    BY <2>2, OtherSteps DEF Tick
  <2>3. CASE DriftPass  BY <2>3, OtherSteps DEF DriftPass, trading
  <2> QED  BY <1>3, <2>1, <2>2, <2>3 DEF Trading
<1>4. CASE UNCHANGED vars  BY <1>4, OtherSteps DEF vars
<1> QED  BY <1>1, <1>2, <1>3, <1>4 DEF Next

\* The inductive invariant holds in every reachable state.
LEMMA Invariance == Spec => []IInv
  BY Start, NextStep, PTL DEF Spec

-----------------------------------------------------------------------------
(* Theorems *)

\* trader_seed_strategy.py: a version is pinned to a backtest of its own
\* extraction and to the analysis of that backtest, both rows of production,
\* whatever other seeds, jobs and transfers run between its queries.
THEOREM VersionsAreBacked == Spec => []VersionsBacked
<1>1. IInv => VersionsBacked  BY DEF IInv
<1> QED  BY <1>1, Invariance, PTL

\* transfer_demos.py: a transfer that ends well has brought every row of its
\* plan, and production never holds an analysis without its backtest or a
\* backtest without its extraction.
THEOREM TransfersKeepChains == Spec => []TransferKeepsChains
<1>1. IInv => TransferKeepsChains
  <2>1. "prod" \in Sites  BY DEF Sites
  <2> QED  BY <2>1 DEF IInv, Arrived, Chains, Closed, TransferKeepsChains
<1> QED  BY <1>1, Invariance, PTL

-----------------------------------------------------------------------------
(* Amounts, levels and positions. *)

\* What a behaviour keeps: one spec and one history.
Given == strategy \in Strategies /\ bars \in [0..(N - 1) -> Bars]

LEMMA BarNumbers == N \in Nat /\ N > 1 /\ N - 1 \in Nat /\ WarmupBars \in Nat
  BY BarsAssumption

LEMMA NotNone ==
    /\ \A x \in Int : x # NONE
    /\ \A p \in Positions : p # NONE
    /\ \A h \in Exits : h # NONE
<1>1. NONE \notin Int /\ NONE \notin Positions /\ NONE \notin Exits
  BY NoneAssumption
<1> QED  BY <1>1

LEMMA Amounts ==
    ASSUME NEW x \in Int, NEW y \in Int
    PROVE  /\ Times(x, y) \in Int /\ Price(x) \in Int
           /\ BuyFill(x) \in Int /\ SellFill(x) \in Int
           /\ EntryCost(x) \in Int /\ ExitProceeds(x) \in Int
<1>1. \A i, j \in Int : Times(i, j) \in Int
  <2> SUFFICES ASSUME NEW i \in Int, NEW j \in Int  PROVE Times(i, j) \in Int  OBVIOUS
  <2>1. i * j \in Int /\ Scale \in Nat \ {0}  BY RatesAssumption
  <2> QED  BY <2>1, Quotient DEF Times
<1>2. Price(x) \in Int
  <2>1. Scale \in Int  BY RatesAssumption
  <2>2. Scale * Scale * Scale * Scale \in Int  BY <2>1
  <2> QED  BY <2>2 DEF Price
<1>3. Scale + Slippage \in Int /\ Scale - Slippage \in Int
      /\ Scale + Commission \in Int /\ Scale - Commission \in Int
  BY RatesAssumption
<1>4. BuyFill(x) \in Int /\ SellFill(x) \in Int /\ EntryCost(x) \in Int
  BY <1>1, <1>3 DEF BuyFill, SellFill, EntryCost
<1>5. ExitProceeds(x) \in Int  BY <1>1, <1>3, <1>4 DEF ExitProceeds
<1> QED  BY <1>1, <1>2, <1>4, <1>5

LEMMA BarPrices ==
    ASSUME Given, NEW b \in 0..(N - 1)
    PROVE  /\ bars[b] \in Bars
           /\ Price(bars[b].open) \in Int /\ Price(bars[b].low) \in Int
           /\ Price(bars[b].high) \in Int /\ Price(bars[b].close) \in Int
           /\ bars[b].raw \in BOOLEAN
<1>1. bars[b] \in Bars  BY DEF Given
<1>2. {bars[b].open, bars[b].low, bars[b].high, bars[b].close} \subseteq Nat
      /\ bars[b].raw \in BOOLEAN
  BY <1>1, BarsAssumption
<1>3. bars[b].open \in Int /\ bars[b].low \in Int /\ bars[b].high \in Int /\ bars[b].close \in Int
  BY <1>2
<1> QED  BY <1>1, <1>2, <1>3, Amounts

LEMMA Methods ==
    ASSUME Given
    PROVE  /\ strategy.stop.kind \in StopKinds /\ strategy.stop.value \in Int
           /\ strategy.target.kind \in TargetKinds /\ strategy.target.value \in Int
           /\ strategy.target.kind = "r_multiple" => strategy.stop.kind # "none"
  BY StrategiesAssumption DEF Given

LEMMA AtrTypes ==
    ASSUME NEW b \in Int
    PROVE  /\ Atr(b) \in Levels /\ AtrAtEntry(b) \in Int
           /\ Atr(b) # NONE => Atr(b) \in Int
  BY Amounts DEF Atr, AtrAtEntry, Levels

LEMMA MaxOfTwo ==
    ASSUME NEW x \in Int, NEW y \in Int
    PROVE  /\ Max({x, y}) \in Int
           /\ x <= y => Max({x, y}) = y
           /\ y <= x => Max({x, y}) = x
<1>1. {x, y} \in SUBSET Int /\ x \in {x, y} /\ y \in {x, y}  OBVIOUS
<1>2. x <= y => Max({x, y}) = y
  <2> SUFFICES ASSUME x <= y  PROVE Max({x, y}) = y  OBVIOUS
  <2>1. \A z \in {x, y} : z <= y  OBVIOUS
  <2> QED  BY <1>1, <2>1, MaxIs
<1>3. y <= x => Max({x, y}) = x
  <2> SUFFICES ASSUME y <= x  PROVE Max({x, y}) = x  OBVIOUS
  <2>1. \A z \in {x, y} : z <= x  OBVIOUS
  <2> QED  BY <1>1, <2>1, MaxIs
<1> QED  BY <1>2, <1>3

\* A position has a stop exactly when the spec has one.
Placed(p) == p \in Positions /\ (p.stop = NONE <=> strategy.stop.kind = "none")

LEMMA StopLevelTyped ==
    ASSUME Given, NEW fill \in Int, NEW e \in Int
    PROVE  /\ StopLevel(fill, e) \in Levels
           /\ StopLevel(fill, e) = NONE <=> strategy.stop.kind = "none"
<1> DEFINE v == strategy.stop.value
<1>1. v \in Int /\ strategy.stop.kind \in StopKinds  BY Methods
<1>2. AtrAtEntry(e) \in Int  BY AtrTypes
<1>3. Scale \in Int  BY RatesAssumption
<1>4. /\ Times(fill, Scale - v) \in Int /\ fill - v * AtrAtEntry(e) \in Int
      /\ Price(v) \in Int
  <2> HIDE DEF v
  <2>1. Scale - v \in Int /\ v * AtrAtEntry(e) \in Int  BY <1>1, <1>2, <1>3
  <2>2. Times(fill, Scale - v) \in Int /\ Price(v) \in Int  BY <1>1, <2>1, Amounts
  <2>3. fill - v * AtrAtEntry(e) \in Int  BY <2>1
  <2> QED  BY <2>2, <2>3
<1> HIDE DEF v
<1>5. CASE strategy.stop.kind = "none"
  BY <1>5 DEF StopLevel, Levels
<1>6. CASE strategy.stop.kind # "none"
  <2>1. StopLevel(fill, e) \in Int
    <3>1. CASE strategy.stop.kind \in {"percent", "trailing_percent"}
      BY <1>4, <3>1 DEF StopLevel, v
    <3>2. CASE strategy.stop.kind \in {"atr_multiple", "trailing_atr"}
      BY <1>4, <3>2 DEF StopLevel, v
    <3>3. CASE strategy.stop.kind = "fixed_price"
      BY <1>4, <3>3 DEF StopLevel, v
    <3> QED  BY <1>1, <1>6, <3>1, <3>2, <3>3 DEF StopKinds
  <2> QED  BY <1>6, <2>1, NotNone DEF Levels
<1> QED  BY <1>5, <1>6

LEMMA TpLevelTyped ==
    ASSUME Given, NEW fill \in Int, NEW e \in Int, NEW stop \in Levels,
           stop = NONE <=> strategy.stop.kind = "none"
    PROVE  TpLevel(fill, stop, e) \in Levels
<1> DEFINE v == strategy.target.value
<1>1. /\ v \in Int /\ strategy.target.kind \in TargetKinds
      /\ strategy.target.kind = "r_multiple" => strategy.stop.kind # "none"  BY Methods
<1>2. AtrAtEntry(e) \in Int /\ Scale \in Int  BY AtrTypes, RatesAssumption
<1>3. /\ Times(fill, Scale + v) \in Int /\ fill + v * AtrAtEntry(e) \in Int
      /\ Price(v) \in Int
  <2> HIDE DEF v
  <2>1. Scale + v \in Int /\ v * AtrAtEntry(e) \in Int  BY <1>1, <1>2
  <2>2. Times(fill, Scale + v) \in Int /\ Price(v) \in Int  BY <1>1, <2>1, Amounts
  <2>3. fill + v * AtrAtEntry(e) \in Int  BY <2>1
  <2> QED  BY <2>2, <2>3
<1>4. CASE strategy.target.kind = "r_multiple"
  <2>1. stop \in Int  BY <1>1, <1>4 DEF Levels
  <2>2. fill - stop \in Int  BY <2>1
  <2>3. v * (fill - stop) \in Int
    <3> HIDE DEF v
    <3> QED  BY <1>1, <2>2
  <2>4. fill + v * (fill - stop) \in Int
    <3> HIDE DEF v
    <3> QED  BY <2>3
  <2> QED  BY <1>4, <2>4 DEF TpLevel, Levels
<1>5. CASE strategy.target.kind # "r_multiple"
  <2>1. strategy.target.kind \in {"none", "percent", "fixed_price", "atr_multiple"}
    BY <1>1, <1>5 DEF TargetKinds
  <2>2. CASE strategy.target.kind = "none"  BY <2>2 DEF TpLevel, Levels
  <2>3. CASE strategy.target.kind = "percent"  BY <2>3, <1>3 DEF TpLevel, Levels
  <2>4. CASE strategy.target.kind = "fixed_price"  BY <2>4, <1>3 DEF TpLevel, Levels
  <2>5. CASE strategy.target.kind = "atr_multiple"  BY <2>5, <1>3 DEF TpLevel, Levels
  <2> QED  BY <2>1, <2>2, <2>3, <2>4, <2>5
<1> QED  BY <1>4, <1>5

LEMMA NewPositionTyped ==
    ASSUME Given, NEW raw \in Int, NEW e \in Int
    PROVE  /\ NewPosition(raw, e) \in Positions /\ Placed(NewPosition(raw, e))
           /\ NewPosition(raw, e).entry = e
           /\ NewPosition(raw, e).fill = BuyFill(raw)
           /\ NewPosition(raw, e).anchor = BuyFill(raw)
           /\ NewPosition(raw, e).stop = StopLevel(BuyFill(raw), e)
<1> DEFINE fill == BuyFill(raw)
           stop == StopLevel(fill, e)
           target == TpLevel(fill, stop, e)
<1>1. fill \in Int  BY Amounts
<1>2. stop \in Levels /\ (stop = NONE <=> strategy.stop.kind = "none")
  <2> HIDE DEF fill
  <2> QED  BY <1>1, StopLevelTyped
<1>3. target \in Levels
  <2> HIDE DEF fill, stop
  <2> QED  BY <1>1, <1>2, TpLevelTyped
<1>4. NewPosition(raw, e) = [entry |-> e, fill |-> fill, stop |-> stop, target |-> target, anchor |-> fill]
  BY DEF NewPosition
<1> HIDE DEF fill, stop, target
<1>5. NewPosition(raw, e) \in Positions  BY <1>1, <1>2, <1>3, <1>4 DEF Positions
<1>6. /\ NewPosition(raw, e).entry = e /\ NewPosition(raw, e).fill = fill
      /\ NewPosition(raw, e).anchor = fill /\ NewPosition(raw, e).stop = stop
  BY <1>4
<1>7. Placed(NewPosition(raw, e))  BY <1>2, <1>5, <1>6 DEF Placed
<1> QED  BY <1>5, <1>6, <1>7 DEF fill, stop

LEMMA IntrabarExitTyped ==
    ASSUME Given, NEW p, Placed(p), NEW b \in 0..(N - 1), NEW h, h = IntrabarExit(p, b)
    PROVE  /\ h # NONE => h \in Exits
           /\ h # NONE /\ h.reason = "stop_loss" =>
                 /\ p.stop \in Int
                 /\ h.raw = IF Price(bars[b].open) <= p.stop THEN Price(bars[b].open) ELSE p.stop
<1> DEFINE open == Price(bars[b].open)
<1>1. p.stop \in Levels /\ p.target \in Levels  BY DEF Placed, Positions
<1>2. open \in Int  BY BarPrices
<1>3. CASE p.stop # NONE /\ Price(bars[b].low) <= p.stop
  <2>1. p.stop \in Int  BY <1>1, <1>3 DEF Levels
  <2>2. h = [raw |-> IF open <= p.stop THEN open ELSE p.stop, reason |-> "stop_loss"]
    BY <1>3 DEF IntrabarExit
  <2> HIDE DEF open
  <2>3. h.raw = (IF open <= p.stop THEN open ELSE p.stop) /\ h.raw \in Int /\ h.reason = "stop_loss"
    BY <1>2, <2>1, <2>2
  <2>4. h \in Exits  BY <1>2, <2>1, <2>2 DEF Exits
  <2> QED  BY <2>1, <2>3, <2>4 DEF open
<1>4. CASE ~(p.stop # NONE /\ Price(bars[b].low) <= p.stop)
  <2>1. CASE p.target # NONE /\ Price(bars[b].high) >= p.target
    <3>1. p.target \in Int  BY <1>1, <2>1 DEF Levels
    <3>2. h = [raw |-> IF open >= p.target THEN open ELSE p.target, reason |-> "take_profit"]
      BY <1>4, <2>1 DEF IntrabarExit
    <3> HIDE DEF open
    <3>3. h \in Exits  BY <1>2, <3>1, <3>2 DEF Exits
    <3>4. h.reason = "take_profit"  BY <3>2
    <3> QED  BY <3>3, <3>4
  <2>2. CASE ~(p.target # NONE /\ Price(bars[b].high) >= p.target)
    <3>1. h = NONE  BY <1>4, <2>2 DEF IntrabarExit
    <3> QED  BY <3>1
  <2> QED  BY <2>1, <2>2
<1> QED  BY <1>3, <1>4

\* The position p after it was trailed by bar b.
Trailed(p, q, b) ==
    /\ Placed(q) /\ q.entry = p.entry /\ q.fill = p.fill /\ q.target = p.target
    /\ strategy.stop.kind = "trailing_percent" =>
          /\ q.anchor = Max({p.anchor, Price(bars[b].high)})
          /\ q.stop = Max({p.stop, Times(q.anchor, Scale - strategy.stop.value)})
          /\ p.stop \in Int /\ Times(q.anchor, Scale - strategy.stop.value) \in Int
    /\ strategy.stop.kind = "trailing_atr" =>
          q.anchor = Max({p.anchor, Price(bars[b].high)})
    /\ strategy.stop.kind = "trailing_atr" /\ Atr(b) # NONE =>
          /\ q.stop = Max({p.stop, q.anchor - strategy.stop.value * Atr(b)})
          /\ p.stop \in Int /\ q.anchor - strategy.stop.value * Atr(b) \in Int
    /\ strategy.stop.kind = "trailing_atr" /\ Atr(b) = NONE => q.stop = p.stop
    /\ strategy.stop.kind \notin {"trailing_percent", "trailing_atr"} => q = p

LEMMA UpdateTrailingTyped ==
    ASSUME Given, NEW p, Placed(p), NEW b \in 0..(N - 1)
    PROVE  Trailed(p, UpdateTrailing(p, b), b)
<1> SUFFICES ASSUME NEW q, q = UpdateTrailing(p, b)  PROVE Trailed(p, q, b)  OBVIOUS
<1> DEFINE anchor == Max({p.anchor, Price(bars[b].high)})
           v == strategy.stop.value
           Raised(level) == [p EXCEPT !.anchor = anchor, !.stop = Max({@, level})]
<1>1. /\ p \in [entry : Int, fill : Int, stop : Levels, target : Levels, anchor : Int]
      /\ p.anchor \in Int /\ (p.stop = NONE <=> strategy.stop.kind = "none")
  BY DEF Placed, Positions
<1>2. anchor \in Int  BY <1>1, BarPrices, MaxOfTwo
<1>3. v \in Int /\ Scale \in Int /\ b \in Int  BY Methods, RatesAssumption
<1> HIDE DEF anchor, v
<1>4. ASSUME NEW level \in Int, strategy.stop.kind # "none"
      PROVE  /\ Placed(Raised(level)) /\ Raised(level).entry = p.entry /\ Raised(level).fill = p.fill
             /\ Raised(level).target = p.target
             /\ Raised(level).anchor = anchor /\ Raised(level).stop = Max({p.stop, level})
             /\ p.stop \in Int
  <2>1. p.stop \in Int  BY <1>1, <1>4 DEF Levels
  <2>2. Max({p.stop, level}) \in Int  BY <2>1, <1>4, MaxOfTwo
  <2> DEFINE top == Max({p.stop, level})
  <2>3. Raised(level) = [p EXCEPT !.anchor = anchor, !.stop = top]  OBVIOUS
  <2> HIDE DEF top, Raised
  <2>4. Raised(level) \in [entry : Int, fill : Int, stop : Levels, target : Levels, anchor : Int]
    BY <1>1, <1>2, <2>2, <2>3 DEF Levels, top
  <2>5. /\ Raised(level).entry = p.entry /\ Raised(level).fill = p.fill
        /\ Raised(level).target = p.target
        /\ Raised(level).anchor = anchor /\ Raised(level).stop = top
    BY <1>1, <2>3
  <2>6. top # NONE  BY <2>2, NotNone DEF top
  <2> QED  BY <1>4, <2>1, <2>4, <2>5, <2>6 DEF Placed, Positions, top
<1>5. CASE strategy.stop.kind = "trailing_percent"
  <2> DEFINE level == Times(anchor, Scale - v)
  <2>1. level \in Int
    <3>1. Scale - v \in Int  BY <1>3
    <3> QED  BY <1>2, <3>1, Amounts
  <2>2. q = Raised(level)  BY <1>5 DEF UpdateTrailing, anchor, v
  <2> HIDE DEF Raised, level
  <2>3. Placed(q) /\ q.entry = p.entry /\ q.fill = p.fill /\ q.target = p.target /\ q.anchor = anchor
        /\ q.stop = Max({p.stop, level}) /\ p.stop \in Int
    BY <1>4, <1>5, <2>1, <2>2
  <2> QED  BY <1>5, <2>1, <2>3 DEF level, anchor, v, Trailed
<1>6. CASE strategy.stop.kind = "trailing_atr" /\ Atr(b) # NONE
  <2> DEFINE level == anchor - v * Atr(b)
  <2>1. level \in Int
    <3>1. Atr(b) \in Int  BY <1>3, <1>6, AtrTypes
    <3>2. v * Atr(b) \in Int  BY <1>3, <3>1
    <3> QED  BY <1>2, <3>2
  <2>2. q = Raised(level)  BY <1>6 DEF UpdateTrailing, anchor, v
  <2> HIDE DEF Raised, level
  <2>3. Placed(q) /\ q.entry = p.entry /\ q.fill = p.fill /\ q.target = p.target /\ q.anchor = anchor
        /\ q.stop = Max({p.stop, level}) /\ p.stop \in Int
    BY <1>4, <1>6, <2>1, <2>2
  <2> QED  BY <1>6, <2>1, <2>3 DEF level, anchor, v, Trailed
<1>7. CASE strategy.stop.kind = "trailing_atr" /\ Atr(b) = NONE
  <2>1. q = [p EXCEPT !.anchor = anchor]  BY <1>7 DEF UpdateTrailing, anchor
  <2>2. /\ q \in [entry : Int, fill : Int, stop : Levels, target : Levels, anchor : Int]
        /\ q.entry = p.entry /\ q.fill = p.fill /\ q.target = p.target /\ q.anchor = anchor
        /\ q.stop = p.stop
    BY <1>1, <1>2, <2>1
  <2>3. Placed(q)  BY <1>1, <2>2 DEF Placed, Positions
  <2> QED  BY <1>7, <2>2, <2>3 DEF anchor, Trailed
<1>8. CASE strategy.stop.kind \notin {"trailing_percent", "trailing_atr"}
  <2>1. q = p  BY <1>8 DEF UpdateTrailing
  <2> QED  BY <1>8, <2>1 DEF Trailed
<1> QED  BY <1>5, <1>6, <1>7, <1>8


-----------------------------------------------------------------------------
(* The walk of a phantom over the bars. *)

\* What holds at m, and at each number after one that it holds at, holds to n.
LEMMA Upward ==
    ASSUME NEW m \in Nat, NEW n \in Int, NEW S, m \in S,
           \A k \in m..n : k # m /\ k - 1 \in S => k \in S
    PROVE  \A k \in m..n : k \in S
<1> DEFINE Bad == {k \in m..n : k \notin S}
<1>1. SUFFICES ASSUME Bad # {}  PROVE FALSE  OBVIOUS
<1>2. Bad \subseteq Nat
  <2>1. \A k \in m..n : k \in Nat  OBVIOUS
  <2> QED  BY <2>1
<1>3. PICK k \in Bad : \A j \in Bad : k <= j
  <2> HIDE DEF Bad
  <2> QED  BY <1>1, <1>2, LeastNatural
<1>4. k \in m..n /\ k \notin S  BY <1>3
<1>5. k # m  BY <1>4
<1>6. k - 1 \in m..n /\ ~(k <= k - 1)  BY <1>4, <1>5
<1>7. k - 1 \in S  BY <1>3, <1>6
<1> QED  BY <1>4, <1>5, <1>7

Phantoms == [bar : Int, pos : Positions \cup {NONE}, exitAt : Levels]
Outcomes == [ph : Phantoms, pnl : Levels, resolvedBar : Levels]

\* The position that a phantom has when bar b begins to trade.
PosOn(ph, b) == IF ph.pos = NONE THEN NewPosition(Price(bars[b].open), ph.bar) ELSE ph.pos

LEMMA ReturnTyped ==
    ASSUME NEW p, Placed(p), NEW raw \in Int
    PROVE  PhantomReturn(p, raw) \in Int
<1>1. p.fill \in Int  BY DEF Placed, Positions
<1>2. ExitProceeds(raw) \in Int /\ EntryCost(p.fill) \in Int  BY <1>1, Amounts
<1> QED  BY <1>2 DEF PhantomReturn

\* One bar of a phantom: an exit at the open, a hit level, or a move.
LEMMA Advance ==
    ASSUME Given, NEW b \in 0..(N - 1), NEW ph \in Phantoms,
           NEW p, p = PosOn(ph, b), Placed(p),
           NEW h, h = IntrabarExit(p, b), NEW r, r = AdvancePhantom(ph, b)
    PROVE  /\ ph.exitAt # NONE =>
                 /\ r \in Outcomes /\ r.ph = ph /\ r.resolvedBar = b
                 /\ r.pnl = PhantomReturn(p, Price(bars[b].open)) /\ r.pnl \in Int
           /\ ph.exitAt = NONE /\ h # NONE =>
                 /\ r \in Outcomes /\ r.ph = ph /\ r.resolvedBar = b
                 /\ r.pnl = PhantomReturn(p, h.raw) /\ r.pnl \in Int
           /\ ph.exitAt = NONE /\ h = NONE =>
                 /\ r \in Outcomes /\ r.pnl = NONE /\ r.resolvedBar = NONE
                 /\ r.ph.bar = ph.bar /\ r.ph.pos = UpdateTrailing(p, b)
                 /\ r.ph.exitAt = IF ExitDecided(b, ph.bar) THEN b ELSE NONE
<1>1. b \in Int /\ b # NONE  BY NotNone
<1>2. CASE ph.exitAt # NONE
  <2> DEFINE ret == PhantomReturn(p, Price(bars[b].open))
  <2>1. ret \in Int  BY BarPrices, ReturnTyped
  <2>2. r = [ph |-> ph, pnl |-> ret, resolvedBar |-> b]  BY <1>2 DEF AdvancePhantom, PosOn
  <2> HIDE DEF ret
  <2>3. r \in Outcomes /\ r.ph = ph /\ r.resolvedBar = b /\ r.pnl = ret
    BY <1>1, <2>1, <2>2 DEF Outcomes, Levels
  <2> QED  BY <1>2, <2>1, <2>3 DEF ret
<1>3. CASE ph.exitAt = NONE /\ h # NONE
  <2> DEFINE ret == PhantomReturn(p, h.raw)
  <2>1. ret \in Int
    <3>1. h \in Exits  BY <1>3, IntrabarExitTyped
    <3>2. h.raw \in Int  BY <3>1 DEF Exits
    <3> QED  BY <3>2, ReturnTyped
  <2>2. r = [ph |-> ph, pnl |-> ret, resolvedBar |-> b]  BY <1>3 DEF AdvancePhantom, PosOn
  <2> HIDE DEF ret
  <2>3. r \in Outcomes /\ r.ph = ph /\ r.resolvedBar = b /\ r.pnl = ret
    BY <1>1, <2>1, <2>2 DEF Outcomes, Levels
  <2> QED  BY <1>3, <2>1, <2>3 DEF ret
<1>4. CASE ph.exitAt = NONE /\ h = NONE
  <2> DEFINE q == UpdateTrailing(p, b)
             at == IF ExitDecided(b, ph.bar) THEN b ELSE NONE
             moved == [ph EXCEPT !.pos = q, !.exitAt = at]
  <2>1. q \in Positions
    <3>1. Trailed(p, q, b)  BY UpdateTrailingTyped
    <3> HIDE DEF q
    <3> QED  BY <3>1 DEF Trailed, Placed
  <2>2. at \in Levels  BY <1>1 DEF Levels
  <2>3. r = [ph |-> moved, pnl |-> NONE, resolvedBar |-> NONE]
    BY <1>4 DEF AdvancePhantom, PosOn
  <2> HIDE DEF q, at
  <2>4. moved \in Phantoms /\ moved.bar = ph.bar /\ moved.pos = q /\ moved.exitAt = at
    BY <2>1, <2>2 DEF Phantoms
  <2> HIDE DEF moved
  <2>5. r \in Outcomes /\ r.ph = moved /\ r.pnl = NONE /\ r.resolvedBar = NONE
    BY <2>3, <2>4 DEF Outcomes, Levels
  <2> QED  BY <1>4, <2>4, <2>5 DEF q, at
<1> QED  BY <1>2, <1>3, <1>4

\* Phantom's recursive function, to a last bar.
Unmoved(e) == [ph |-> NewPhantom(e), pnl |-> NONE, resolvedBar |-> NONE]
Moved(r, b) == IF r.pnl # NONE THEN r ELSE AdvancePhantom(r.ph, b)
Walk(run, e, last) == run = [b \in e..last |-> IF b = e THEN Unmoved(e) ELSE Moved(run[b - 1], b)]

LEMMA WalkExtends ==
    ASSUME NEW e \in Nat, NEW last \in Int, last >= e, NEW g, Walk(g, e, last)
    PROVE  \E h : Walk(h, e, last + 1)
<1> DEFINE h == [b \in e..(last + 1) |-> IF b = last + 1 THEN Moved(g[last], b) ELSE g[b]]
<1>1. \A b \in e..(last + 1) : h[b] = IF b = e THEN Unmoved(e) ELSE Moved(h[b - 1], b)
  <2> TAKE b \in e..(last + 1)
  <2>1. CASE b = last + 1
    <3>1. b # e /\ b - 1 = last /\ last \in e..(last + 1) /\ last # last + 1  BY <2>1
    <3>2. h[b] = Moved(g[last], b) /\ h[last] = g[last]  BY <2>1, <3>1
    <3> HIDE DEF h
    <3> QED  BY <3>1, <3>2
  <2>2. CASE b # last + 1
    <3>1. b \in e..last  BY <2>2
    <3>2. h[b] = g[b]  BY <2>2
    <3>3. g[b] = IF b = e THEN Unmoved(e) ELSE Moved(g[b - 1], b)  BY <3>1 DEF Walk
    <3>4. b # e => h[b - 1] = g[b - 1]
      <4>1. b # e => b - 1 \in e..(last + 1) /\ b - 1 # last + 1  BY <3>1
      <4> QED  BY <4>1
    <3> HIDE DEF h
    <3> QED  BY <3>2, <3>3, <3>4
  <2> QED  BY <2>1, <2>2
<1>2. h = [b \in e..(last + 1) |-> h[b]]  OBVIOUS
<1> HIDE DEF h
<1>3. Walk(h, e, last + 1)  BY <1>1, <1>2 DEF Walk
<1> QED  BY <1>3

LEMMA WalkExists ==
    ASSUME NEW e \in 0..(N - 1)
    PROVE  \E run : Walk(run, e, N - 1)
<1> DEFINE Reached == {last \in e..(N - 1) : \E run : Walk(run, e, last)}
<1>1. e \in Nat /\ N - 1 \in Int /\ e \in e..(N - 1) /\ N - 1 \in e..(N - 1)  BY BarNumbers
<1>2. e \in Reached
  <2> DEFINE g == [b \in e..e |-> Unmoved(e)]
  <2>1. e..e = {e}  BY <1>1
  <2>2. g = [b \in e..e |-> IF b = e THEN Unmoved(e) ELSE Moved(g[b - 1], b)]  BY <2>1
  <2> HIDE DEF g
  <2>3. Walk(g, e, e)  BY <2>2 DEF Walk
  <2> QED  BY <1>1, <2>3
<1>3. \A k \in e..(N - 1) : k # e /\ k - 1 \in Reached => k \in Reached
  <2> SUFFICES ASSUME NEW k \in e..(N - 1), k # e, k - 1 \in Reached  PROVE k \in Reached
    OBVIOUS
  <2>1. PICK g : Walk(g, e, k - 1)  OBVIOUS
  <2>2. k - 1 \in Int /\ k - 1 >= e /\ (k - 1) + 1 = k  BY <1>1
  <2>3. \E h : Walk(h, e, k)  BY <1>1, <2>1, <2>2, WalkExtends
  <2> QED  BY <2>3
<1> HIDE DEF Reached
<1>4. N - 1 \in Reached  BY <1>1, <1>2, <1>3, Upward
<1> QED  BY <1>4 DEF Reached

\* Two walks of a phantom agree.
LEMMA WalksAgree ==
    ASSUME NEW e \in 0..(N - 1), NEW f, Walk(f, e, N - 1), NEW g, Walk(g, e, N - 1)
    PROVE  f = g
<1> DEFINE Same == {b \in e..(N - 1) : f[b] = g[b]}
<1>1. e \in Nat /\ N - 1 \in Int /\ e \in e..(N - 1)  BY BarNumbers
<1>2. \A b \in e..(N - 1) : /\ f[b] = IF b = e THEN Unmoved(e) ELSE Moved(f[b - 1], b)
                            /\ g[b] = IF b = e THEN Unmoved(e) ELSE Moved(g[b - 1], b)
  BY DEF Walk
<1>3. e \in Same  BY <1>1, <1>2
<1>4. \A b \in e..(N - 1) : b # e /\ b - 1 \in Same => b \in Same  BY <1>2
<1>5. \A b \in e..(N - 1) : b \in Same
  <2> HIDE DEF Same
  <2> QED  BY <1>1, <1>3, <1>4, Upward
<1>6. f = [b \in e..(N - 1) |-> f[b]] /\ g = [b \in e..(N - 1) |-> g[b]]  BY DEF Walk
<1> QED  BY <1>5, <1>6

PhantomWalk(e) == CHOOSE run : Walk(run, e, N - 1)

\* What is worth at the end of the data.
Valued(end) ==
    IF end.pnl # NONE THEN end
    ELSE [end EXCEPT !.pnl = PhantomReturn(end.ph.pos, Price(bars[N - 1].close)),
                     !.resolvedBar = N - 1]

LEMMA PhantomOfWalk ==
    ASSUME NEW e
    PROVE  Phantom(e) = Valued(PhantomWalk(e)[N - 1])
  BY Zenon DEF Phantom, PhantomWalk, Valued, Walk, Unmoved, Moved

LEMMA WalkSteps ==
    ASSUME NEW e \in 0..(N - 1), NEW w, w = PhantomWalk(e)
    PROVE  /\ Walk(w, e, N - 1) /\ w[e] = Unmoved(e)
           /\ \A b \in (e + 1)..(N - 1) : w[b] = Moved(w[b - 1], b)
<1>1. Walk(w, e, N - 1)  BY WalkExists DEF PhantomWalk
<1>2. e \in e..(N - 1) /\ e \in Int /\ N - 1 \in Int  BY BarNumbers
<1>3. \A b \in (e + 1)..(N - 1) : b \in e..(N - 1) /\ b # e  BY <1>2
<1> QED  BY <1>1, <1>2, <1>3 DEF Walk

\* What the walk of phantom e is at bar b.
Walking(r, e, b) ==
    /\ r \in Outcomes /\ r.ph.bar = e
    /\ r.pnl = NONE <=> r.resolvedBar = NONE
    /\ b = e => r = Unmoved(e)
    /\ b # e /\ r.pnl = NONE =>
          Placed(r.ph.pos) /\ r.ph.pos.entry = e /\ r.ph.exitAt \in {NONE, b}
    /\ r.pnl # NONE => r.resolvedBar \in (e + 1)..b

\* One bar of a walk that has not ended, from what it was before that bar.
WalkMove(w, e, b, p, h) ==
    /\ Placed(p) /\ p.entry = e
    /\ b - 1 = e => p = NewPosition(Price(bars[b].open), e) /\ w[b - 1].ph.exitAt = NONE
    /\ b - 1 # e => p = w[b - 1].ph.pos
    /\ w[b - 1].ph.exitAt # NONE =>
          w[b].resolvedBar = b /\ w[b].pnl = PhantomReturn(p, Price(bars[b].open)) /\ w[b].pnl \in Int
    /\ w[b - 1].ph.exitAt = NONE /\ h # NONE =>
          w[b].resolvedBar = b /\ w[b].pnl = PhantomReturn(p, h.raw) /\ w[b].pnl \in Int
    /\ w[b - 1].ph.exitAt = NONE /\ h = NONE =>
          /\ w[b].pnl = NONE /\ w[b].ph.pos = UpdateTrailing(p, b)
          /\ w[b].ph.exitAt = IF ExitDecided(b, e) THEN b ELSE NONE
    /\ w[b] = AdvancePhantom(w[b - 1].ph, b)

LEMMA WalkMoves ==
    ASSUME Given, NEW e \in 0..(N - 1), NEW w, w = PhantomWalk(e), NEW b \in (e + 1)..(N - 1),
           Walking(w[b - 1], e, b - 1), w[b - 1].pnl = NONE,
           NEW p, p = PosOn(w[b - 1].ph, b), NEW h, h = IntrabarExit(p, b)
    PROVE  WalkMove(w, e, b, p, h) /\ Walking(w[b], e, b)
<1> DEFINE ph == w[b - 1].ph
<1>1. /\ e \in Int /\ b \in Int /\ b \in 0..(N - 1) /\ b # NONE /\ b # e /\ N - 1 \in Int
      /\ b \in (e + 1)..b
  BY BarNumbers, NotNone
<1>2. ph \in Phantoms /\ ph.bar = e  BY DEF Walking, Outcomes
<1>3. /\ Placed(p) /\ p.entry = e
      /\ b - 1 = e => p = NewPosition(Price(bars[b].open), e) /\ ph.exitAt = NONE
      /\ b - 1 # e => p = ph.pos
  <2>1. CASE b - 1 = e
    <3>1. ph = NewPhantom(e)  BY <2>1 DEF Walking, Unmoved
    <3>2. ph.pos = NONE /\ ph.exitAt = NONE  BY <3>1 DEF NewPhantom
    <3>3. p = NewPosition(Price(bars[b].open), e)  BY <1>2, <3>2 DEF PosOn
    <3>4. Price(bars[b].open) \in Int  BY <1>1, BarPrices
    <3>5. Placed(p) /\ p.entry = e  BY <1>1, <3>3, <3>4, NewPositionTyped
    <3> QED  BY <2>1, <3>2, <3>3, <3>5
  <2>2. CASE b - 1 # e
    <3>1. Placed(ph.pos) /\ ph.pos.entry = e  BY <2>2 DEF Walking
    <3>2. ph.pos # NONE  BY <3>1, NotNone DEF Placed
    <3>3. p = ph.pos  BY <3>2 DEF PosOn
    <3> QED  BY <2>2, <3>1, <3>3
  <2> QED  BY <2>1, <2>2
<1>4. w[b] = AdvancePhantom(ph, b)
  <2>1. w[b] = Moved(w[b - 1], b)  BY WalkSteps
  <2> QED  BY <2>1 DEF Moved
<1> DEFINE r == w[b]
<1>5. /\ ph.exitAt # NONE =>
            /\ r \in Outcomes /\ r.ph = ph /\ r.resolvedBar = b
            /\ r.pnl = PhantomReturn(p, Price(bars[b].open)) /\ r.pnl \in Int
      /\ ph.exitAt = NONE /\ h # NONE =>
            /\ r \in Outcomes /\ r.ph = ph /\ r.resolvedBar = b
            /\ r.pnl = PhantomReturn(p, h.raw) /\ r.pnl \in Int
      /\ ph.exitAt = NONE /\ h = NONE =>
            /\ r \in Outcomes /\ r.pnl = NONE /\ r.resolvedBar = NONE
            /\ r.ph.bar = e /\ r.ph.pos = UpdateTrailing(p, b)
            /\ r.ph.exitAt = IF ExitDecided(b, e) THEN b ELSE NONE
  <2> HIDE DEF ph, r
  <2>1. p = PosOn(ph, b) /\ r = AdvancePhantom(ph, b)  BY <1>4 DEF ph, r
  <2>2. /\ ph.exitAt # NONE =>
              /\ r \in Outcomes /\ r.ph = ph /\ r.resolvedBar = b
              /\ r.pnl = PhantomReturn(p, Price(bars[b].open)) /\ r.pnl \in Int
        /\ ph.exitAt = NONE /\ h # NONE =>
              /\ r \in Outcomes /\ r.ph = ph /\ r.resolvedBar = b
              /\ r.pnl = PhantomReturn(p, h.raw) /\ r.pnl \in Int
        /\ ph.exitAt = NONE /\ h = NONE =>
              /\ r \in Outcomes /\ r.pnl = NONE /\ r.resolvedBar = NONE
              /\ r.ph.bar = ph.bar /\ r.ph.pos = UpdateTrailing(p, b)
              /\ r.ph.exitAt = IF ExitDecided(b, ph.bar) THEN b ELSE NONE
    BY <1>1, <1>2, <1>3, <2>1, Advance
  <2> QED  BY <1>2, <2>2
<1>6. WalkMove(w, e, b, p, h)
  <2> HIDE DEF ph, r
  <2>1. w[b - 1].ph = ph /\ w[b] = r  BY DEF ph, r
  <2> QED  BY <1>3, <1>4, <1>5, <2>1 DEF WalkMove
<1>7. Walking(r, e, b)
  <2> HIDE DEF ph, r
  <2>1. CASE ph.exitAt # NONE \/ h # NONE
    <3>1. r \in Outcomes /\ r.ph = ph /\ r.resolvedBar = b /\ r.pnl \in Int  BY <1>5, <2>1
    <3>2. r.pnl # NONE  BY <3>1, NotNone
    <3> QED  BY <1>1, <1>2, <3>1, <3>2 DEF Walking
  <2>2. CASE ph.exitAt = NONE /\ h = NONE
    <3>1. /\ r \in Outcomes /\ r.pnl = NONE /\ r.resolvedBar = NONE
          /\ r.ph.bar = e /\ r.ph.pos = UpdateTrailing(p, b)
          /\ r.ph.exitAt \in {NONE, b}
      BY <1>5, <2>2
    <3>2. Placed(r.ph.pos) /\ r.ph.pos.entry = e
      <4>1. Trailed(p, UpdateTrailing(p, b), b)  BY <1>1, <1>3, UpdateTrailingTyped
      <4> QED  BY <1>3, <3>1, <4>1 DEF Trailed
    <3> QED  BY <1>1, <3>1, <3>2 DEF Walking
  <2> QED  BY <2>1, <2>2
<1> QED  BY <1>6, <1>7

LEMMA WalksTyped ==
    ASSUME Given, NEW e \in 0..(N - 1), NEW w, w = PhantomWalk(e)
    PROVE  \A b \in e..(N - 1) : Walking(w[b], e, b)
<1> DEFINE Right == {b \in e..(N - 1) : Walking(w[b], e, b)}
<1>1. e \in Nat /\ N - 1 \in Int /\ e \in e..(N - 1) /\ e \in Int  BY BarNumbers
<1>2. e \in Right
  <2>1. w[e] = Unmoved(e)  BY WalkSteps
  <2>2. NewPhantom(e) \in Phantoms /\ NewPhantom(e).bar = e  BY <1>1 DEF NewPhantom, Phantoms, Levels
  <2>3. w[e] \in Outcomes /\ w[e].ph = NewPhantom(e) /\ w[e].pnl = NONE /\ w[e].resolvedBar = NONE
    BY <2>1, <2>2 DEF Unmoved, Outcomes, Levels
  <2> QED  BY <1>1, <2>1, <2>2, <2>3 DEF Walking
<1>3. \A k \in e..(N - 1) : k # e /\ k - 1 \in Right => k \in Right
  <2> SUFFICES ASSUME NEW k \in e..(N - 1), k # e, k - 1 \in Right  PROVE Walking(w[k], e, k)
    OBVIOUS
  <2>1. k \in (e + 1)..(N - 1) /\ k - 1 \in e..(N - 1) /\ k \in Int /\ (k - 1) - e \in Nat
    BY <1>1
  <2>2. Walking(w[k - 1], e, k - 1)  OBVIOUS
  <2>3. CASE w[k - 1].pnl = NONE
    <3> HIDE DEF Right
    <3>1. PICK p : p = PosOn(w[k - 1].ph, k)  OBVIOUS
    <3>2. PICK h : h = IntrabarExit(p, k)  OBVIOUS
    <3> QED  BY <2>1, <2>2, <2>3, <3>1, <3>2, WalkMoves
  <2>4. CASE w[k - 1].pnl # NONE
    <3>1. w[k] = w[k - 1]
      <4>1. w[k] = Moved(w[k - 1], k)  BY <2>1, WalkSteps
      <4> QED  BY <2>4, <4>1 DEF Moved
    <3>2. w[k - 1].resolvedBar \in (e + 1)..k  BY <2>1, <2>2, <2>4 DEF Walking
    <3> HIDE DEF Right
    <3>3. /\ w[k] \in Outcomes /\ w[k].ph.bar = e
          /\ w[k].pnl = NONE <=> w[k].resolvedBar = NONE
      BY <2>2, <3>1 DEF Walking
    <3>4. w[k].pnl # NONE /\ w[k].resolvedBar \in (e + 1)..k  BY <2>4, <3>1, <3>2
    <3> QED  BY <3>3, <3>4 DEF Walking
  <2> QED  BY <2>3, <2>4
<1> HIDE DEF Right
<1>4. \A b \in e..(N - 1) : b \in Right  BY <1>1, <1>2, <1>3, Upward
<1> QED  BY <1>4 DEF Right

\* A walk that has ended stays as it is.
LEMMA WalkStays ==
    ASSUME Given, NEW e \in 0..(N - 1), NEW w, w = PhantomWalk(e),
           NEW b \in e..(N - 1), w[b].pnl # NONE, NEW c \in b..(N - 1)
    PROVE  w[c] = w[b]
<1> DEFINE Same == {k \in b..(N - 1) : w[k] = w[b]}
<1>1. b \in Nat /\ e \in Nat /\ N - 1 \in Int /\ b \in b..(N - 1)  BY BarNumbers
<1>2. b \in Same  BY <1>1
<1>3. \A k \in b..(N - 1) : k # b /\ k - 1 \in Same => k \in Same
  <2> SUFFICES ASSUME NEW k \in b..(N - 1), k # b, w[k - 1] = w[b]  PROVE w[k] = w[b]
    OBVIOUS
  <2>1. k \in (e + 1)..(N - 1)  BY <1>1
  <2>2. w[k] = Moved(w[k - 1], k)  BY <2>1, WalkSteps
  <2> QED  BY <2>2 DEF Moved
<1> HIDE DEF Same
<1>4. c \in Same  BY <1>1, <1>2, <1>3, Upward
<1> QED  BY <1>4 DEF Same

\* What the phantom evaluator returns, from its walk at any bar.
LEMMA PhantomIs ==
    ASSUME Given, NEW e \in 0..(N - 2), NEW w, w = PhantomWalk(e), NEW b \in e..(N - 1)
    PROVE  /\ Phantom(e).pnl \in Int /\ Phantom(e).resolvedBar \in (e + 1)..(N - 1)
           /\ w[b].pnl # NONE =>
                 /\ Phantom(e).pnl = w[b].pnl /\ Phantom(e).resolvedBar = w[b].resolvedBar
                 /\ Phantom(e).resolvedBar <= b
           /\ w[b].pnl = NONE /\ b # N - 1 => Phantom(e).resolvedBar > b
<1>1. /\ e \in 0..(N - 1) /\ e \in Int /\ N \in Int /\ b \in Int /\ N - 1 \in e..(N - 1)
      /\ N - 1 # e /\ N - 1 \in (e + 1)..(N - 1) /\ N - 1 \in b..(N - 1) /\ N - 1 \in 0..(N - 1)
  BY BarNumbers
<1> DEFINE end == w[N - 1]
<1>2. Phantom(e) = Valued(end)  BY PhantomOfWalk
<1>3. Walking(end, e, N - 1) /\ Walking(w[b], e, b)  BY <1>1, WalksTyped
<1>4. end \in Outcomes /\ end.pnl \in Levels /\ w[b].pnl \in Levels
  BY <1>3 DEF Walking, Outcomes
<1>5. CASE end.pnl # NONE
  <2>1. Phantom(e) = end  BY <1>2, <1>5 DEF Valued
  <2>2. end.pnl \in Int /\ end.resolvedBar \in (e + 1)..(N - 1)  BY <1>3, <1>4, <1>5 DEF Walking, Levels
  <2>3. ASSUME w[b].pnl # NONE
        PROVE  end = w[b] /\ w[b].resolvedBar <= b
    <3>1. end = w[b]  BY <1>1, <2>3, WalkStays
    <3>2. w[b].resolvedBar \in (e + 1)..b  BY <1>3, <2>3 DEF Walking
    <3> QED  BY <1>1, <3>1, <3>2
  <2>4. ASSUME w[b].pnl = NONE, ~(end.resolvedBar > b)
        PROVE  FALSE
    <3> DEFINE k == end.resolvedBar
               Right == {c \in b..(N - 1) : w[c].pnl = NONE \/ w[c].resolvedBar > b}
    <3>1. b \in Right  BY <1>1, <2>4
    <3>2. \A c \in b..(N - 1) : c # b /\ c - 1 \in Right => c \in Right
      <4> SUFFICES ASSUME NEW c \in b..(N - 1), c # b, c - 1 \in Right  PROVE c \in Right
        OBVIOUS
      <4>1. c \in (e + 1)..(N - 1) /\ c - 1 \in e..(N - 1) /\ c \in Int /\ c > b  BY <1>1
      <4>2. CASE w[c - 1].pnl # NONE
        <5>1. w[c] = Moved(w[c - 1], c)  BY <1>1, <4>1, WalkSteps
        <5>2. w[c] = w[c - 1]  BY <4>2, <5>1 DEF Moved
        <5> QED  BY <4>2, <5>2
      <4>3. CASE w[c - 1].pnl = NONE
        <5> HIDE DEF Right
        <5>1. Walking(w[c - 1], e, c - 1)  BY <1>1, <4>1, WalksTyped
        <5>2. PICK p : p = PosOn(w[c - 1].ph, c)  OBVIOUS
        <5>3. PICK h : h = IntrabarExit(p, c)  OBVIOUS
        <5>4. WalkMove(w, e, c, p, h)  BY <1>1, <4>1, <4>3, <5>1, <5>2, <5>3, WalkMoves
        <5>5. w[c].pnl = NONE \/ w[c].resolvedBar = c  BY <5>4 DEF WalkMove
        <5> QED  BY <4>1, <5>5 DEF Right
      <4> QED  BY <4>2, <4>3
    <3> HIDE DEF Right
    <3>3. N - 1 \in Right
      <4>1. b \in Nat  BY <1>1
      <4> QED  BY <1>1, <3>1, <3>2, <4>1, Upward
    <3> QED  BY <1>5, <2>4, <3>3 DEF Right
  <2> QED  BY <2>1, <2>2, <2>3, <2>4
<1>6. CASE end.pnl = NONE
  <2> DEFINE ret == PhantomReturn(end.ph.pos, Price(bars[N - 1].close))
  <2>1. ret \in Int
    <3>1. Placed(end.ph.pos)  BY <1>1, <1>3, <1>6 DEF Walking
    <3>2. Price(bars[N - 1].close) \in Int  BY <1>1, BarPrices
    <3> QED  BY <3>1, <3>2, ReturnTyped
  <2>2. Phantom(e) = [end EXCEPT !.pnl = ret, !.resolvedBar = N - 1]
    BY <1>2, <1>6 DEF Valued
  <2> HIDE DEF ret, end
  <2>3. Phantom(e).pnl = ret /\ Phantom(e).resolvedBar = N - 1
    BY <1>4, <2>2 DEF Outcomes
  <2>4. w[b].pnl = NONE
    <3> SUFFICES ASSUME w[b].pnl # NONE  PROVE FALSE  OBVIOUS
    <3>1. end = w[b]  BY <1>1, WalkStays DEF end
    <3> QED  BY <1>6, <3>1
  <2> QED  BY <1>1, <2>1, <2>3, <2>4
<1> QED  BY <1>5, <1>6

-----------------------------------------------------------------------------
(* The levels of a position, computed anew from the bars. *)

\* m is the greatest member of S.
Tops(S, m) == S \subseteq Int /\ m \in S /\ \A y \in S : y <= m

LEMMA TopIsMax ==
    ASSUME NEW S, NEW m, Tops(S, m)
    PROVE  Max(S) = m /\ m \in Int
<1>1. S \in SUBSET Int /\ m \in S /\ \A y \in S : y <= m  BY DEF Tops
<1> QED  BY <1>1, MaxIs

LEMMA TopGrows ==
    ASSUME NEW S, NEW m, Tops(S, m), NEW x \in Int
    PROVE  Tops(S \cup {x}, Max({m, x}))
<1>1. m \in Int /\ S \subseteq Int  BY DEF Tops
<1>2. CASE x <= m
  <2>1. Max({m, x}) = m  BY <1>1, <1>2, MaxOfTwo
  <2> QED  BY <1>1, <1>2, <2>1 DEF Tops
<1>3. CASE ~(x <= m)
  <2>1. m <= x  BY <1>1, <1>3
  <2>2. Max({m, x}) = x  BY <1>1, <2>1, MaxOfTwo
  <2>3. \A y \in S : y <= x  BY <1>1, <2>1 DEF Tops
  <2> QED  BY <1>1, <2>2, <2>3 DEF Tops
<1> QED  BY <1>2, <1>3

FillOf(e) == BuyFill(Price(bars[e + 1].open))
Highs(e, b) == {FillOf(e)} \cup {Price(bars[i].high) : i \in (e + 1)..b}
AnchorAt(e, b) == Max(Highs(e, b))
RaisesTo(e, b) ==
    CASE strategy.stop.kind = "trailing_percent" ->
            {Times(AnchorAt(e, i), Scale - strategy.stop.value) : i \in (e + 1)..b}
      [] strategy.stop.kind = "trailing_atr" ->
            {AnchorAt(e, i) - strategy.stop.value * Atr(i) : i \in {k \in (e + 1)..b : Atr(k) # NONE}}
      [] OTHER -> {}
StopsTo(e, b) == {StopLevel(FillOf(e), e)} \cup RaisesTo(e, b)

LEMMA ReferenceIs ==
    ASSUME NEW t
    PROVE  StopReference(t) = Max(StopsTo(t.entry, t.exit - 1))
  BY Zenon DEF StopReference, StopsTo, RaisesTo, AnchorAt, Highs, FillOf

\* The levels of a position after bar b.
LevelsAt(p, e, b) ==
    /\ p.fill = FillOf(e)
    /\ strategy.stop.kind \in {"trailing_percent", "trailing_atr"} => Tops(Highs(e, b), p.anchor)
    /\ strategy.stop.kind # "none" => Tops(StopsTo(e, b), p.stop)

LEMMA LevelsAtEntry ==
    ASSUME Given, NEW e \in 0..(N - 2), NEW p, p = NewPosition(Price(bars[e + 1].open), e)
    PROVE  LevelsAt(p, e, e)
<1>1. e \in Int /\ e + 1 \in 0..(N - 1) /\ (e + 1)..e = {}  BY BarNumbers
<1>2. Price(bars[e + 1].open) \in Int  BY <1>1, BarPrices
<1>3. /\ Placed(p) /\ p.fill = FillOf(e) /\ p.anchor = FillOf(e) /\ p.stop = StopLevel(FillOf(e), e)
  BY <1>1, <1>2, NewPositionTyped DEF FillOf
<1>4. p.fill \in Int /\ (strategy.stop.kind # "none" => p.stop \in Int)
  BY <1>3 DEF Placed, Positions, Levels
<1>5. Highs(e, e) = {FillOf(e)}  BY <1>1 DEF Highs
<1>6. RaisesTo(e, e) = {}
  <2>1. {k \in (e + 1)..e : Atr(k) # NONE} = {}  BY <1>1
  <2> QED  BY <1>1, <2>1 DEF RaisesTo
<1>7. StopsTo(e, e) = {StopLevel(FillOf(e), e)}  BY <1>6 DEF StopsTo
<1>8. Tops(Highs(e, e), p.anchor)  BY <1>3, <1>4, <1>5 DEF Tops
<1>9. strategy.stop.kind # "none" => Tops(StopsTo(e, e), p.stop)  BY <1>3, <1>4, <1>7 DEF Tops
<1> QED  BY <1>3, <1>8, <1>9 DEF LevelsAt

LEMMA LevelsTrail ==
    ASSUME Given, NEW e \in 0..(N - 2), NEW b \in (e + 1)..(N - 1),
           NEW p, Placed(p), LevelsAt(p, e, b - 1), NEW q, Trailed(p, q, b)
    PROVE  LevelsAt(q, e, b)
<1>1. /\ e \in Int /\ b \in Int /\ b \in 0..(N - 1)
      /\ \A i : i \in (e + 1)..b <=> i \in (e + 1)..(b - 1) \/ i = b
  BY BarNumbers
<1> DEFINE high == Price(bars[b].high)
<1>2. high \in Int  BY <1>1, BarPrices
<1>3. Highs(e, b) = Highs(e, b - 1) \cup {high}  BY <1>1 DEF Highs
<1>4. CASE strategy.stop.kind = "trailing_percent"
  <2> DEFINE level(i) == Times(AnchorAt(e, i), Scale - strategy.stop.value)
             raise == Times(q.anchor, Scale - strategy.stop.value)
  <2>1. /\ q.anchor = Max({p.anchor, high}) /\ q.stop = Max({p.stop, raise}) /\ raise \in Int
        /\ q.fill = p.fill
    BY <1>4 DEF Trailed
  <2>2. Tops(Highs(e, b - 1), p.anchor) /\ Tops(StopsTo(e, b - 1), p.stop)  BY <1>4 DEF LevelsAt
  <2> HIDE DEF raise
  <2>3. Tops(Highs(e, b), q.anchor)
    <3> HIDE DEF high
    <3> QED  BY <1>2, <1>3, <2>1, <2>2, TopGrows
  <2>4. AnchorAt(e, b) = q.anchor  BY <2>3, TopIsMax DEF AnchorAt
  <2>5. level(b) = raise  BY <2>4 DEF raise
  <2>6. RaisesTo(e, b) = {level(i) : i \in (e + 1)..b}
        /\ RaisesTo(e, b - 1) = {level(i) : i \in (e + 1)..(b - 1)}
    BY <1>4 DEF RaisesTo
  <2>7. RaisesTo(e, b) = RaisesTo(e, b - 1) \cup {level(b)}
    <3> HIDE DEF level
    <3> QED  BY <1>1, <2>6
  <2>8. StopsTo(e, b) = StopsTo(e, b - 1) \cup {raise}  BY <2>5, <2>7 DEF StopsTo
  <2>9. Tops(StopsTo(e, b), q.stop)  BY <2>1, <2>2, <2>8, TopGrows
  <2> QED  BY <2>1, <2>3, <2>9 DEF LevelsAt
<1>5. CASE strategy.stop.kind = "trailing_atr"
  <2> DEFINE level(i) == AnchorAt(e, i) - strategy.stop.value * Atr(i)
             raise == q.anchor - strategy.stop.value * Atr(b)
  <2>1. /\ q.anchor = Max({p.anchor, high})
        /\ Atr(b) # NONE => q.stop = Max({p.stop, raise}) /\ raise \in Int
        /\ Atr(b) = NONE => q.stop = p.stop
        /\ q.fill = p.fill
    BY <1>5 DEF Trailed
  <2>2. Tops(Highs(e, b - 1), p.anchor) /\ Tops(StopsTo(e, b - 1), p.stop)  BY <1>5 DEF LevelsAt
  <2> HIDE DEF raise
  <2>3. Tops(Highs(e, b), q.anchor)
    <3> HIDE DEF high
    <3> QED  BY <1>2, <1>3, <2>1, <2>2, TopGrows
  <2>4. AnchorAt(e, b) = q.anchor  BY <2>3, TopIsMax DEF AnchorAt
  <2>5. level(b) = raise  BY <2>4 DEF raise
  <2>6. RaisesTo(e, b) = {level(i) : i \in {k \in (e + 1)..b : Atr(k) # NONE}}
        /\ RaisesTo(e, b - 1) = {level(i) : i \in {k \in (e + 1)..(b - 1) : Atr(k) # NONE}}
    BY <1>5 DEF RaisesTo
  <2>7. Atr(b) # NONE => RaisesTo(e, b) = RaisesTo(e, b - 1) \cup {level(b)}
    <3> HIDE DEF level
    <3> QED  BY <1>1, <2>6
  <2>8. Atr(b) = NONE => RaisesTo(e, b) = RaisesTo(e, b - 1)
    <3> HIDE DEF level
    <3> QED  BY <1>1, <2>6
  <2>9. Tops(StopsTo(e, b), q.stop)
    <3>1. CASE Atr(b) # NONE
      <4>1. StopsTo(e, b) = StopsTo(e, b - 1) \cup {raise}  BY <2>5, <2>7, <3>1 DEF StopsTo
      <4> QED  BY <2>1, <2>2, <3>1, <4>1, TopGrows
    <3>2. CASE Atr(b) = NONE
      <4>1. StopsTo(e, b) = StopsTo(e, b - 1)  BY <2>8, <3>2 DEF StopsTo
      <4> QED  BY <2>1, <2>2, <3>2, <4>1
    <3> QED  BY <3>1, <3>2
  <2> QED  BY <2>1, <2>3, <2>9 DEF LevelsAt
<1>6. CASE strategy.stop.kind \notin {"trailing_percent", "trailing_atr"}
  <2>1. q = p  BY <1>6 DEF Trailed
  <2>2. RaisesTo(e, b) = {} /\ RaisesTo(e, b - 1) = {}  BY <1>6 DEF RaisesTo
  <2>3. StopsTo(e, b) = StopsTo(e, b - 1)  BY <2>2 DEF StopsTo
  <2> QED  BY <1>6, <2>1, <2>3 DEF LevelsAt
<1> QED  BY <1>4, <1>5, <1>6

\* A walk's position trades bar b at the levels that the bars before gave.
LEMMA WalkLevels ==
    ASSUME Given, NEW e \in 0..(N - 2), NEW w, w = PhantomWalk(e)
    PROVE  \A b \in (e + 1)..(N - 1) :
              w[b - 1].pnl = NONE => LevelsAt(PosOn(w[b - 1].ph, b), e, b - 1)
<1> DEFINE Right == {b \in (e + 1)..(N - 1) :
                        w[b - 1].pnl = NONE => LevelsAt(PosOn(w[b - 1].ph, b), e, b - 1)}
<1>1. /\ e + 1 \in Nat /\ N - 1 \in Int /\ e + 1 \in (e + 1)..(N - 1) /\ e \in 0..(N - 1)
      /\ e \in e..(N - 1) /\ (e + 1) - 1 = e /\ e \in Int /\ N \in Int
  BY BarNumbers
<1>2. e + 1 \in Right
  <2> SUFFICES ASSUME w[e].pnl = NONE  PROVE LevelsAt(PosOn(w[e].ph, e + 1), e, e)
    BY <1>1
  <2>1. Walking(w[e], e, e)  BY <1>1, WalksTyped
  <2>2. Walking(w[(e + 1) - 1], e, (e + 1) - 1) /\ w[(e + 1) - 1].pnl = NONE  BY <1>1, <2>1
  <2>3. PICK p : p = PosOn(w[(e + 1) - 1].ph, e + 1)  OBVIOUS
  <2>4. PICK h : h = IntrabarExit(p, e + 1)  OBVIOUS
  <2>5. WalkMove(w, e, e + 1, p, h)  BY <1>1, <2>2, <2>3, <2>4, WalkMoves
  <2>6. p = NewPosition(Price(bars[e + 1].open), e)  BY <1>1, <2>5 DEF WalkMove
  <2>7. LevelsAt(p, e, e)  BY <2>6, LevelsAtEntry
  <2> QED  BY <1>1, <2>3, <2>7
<1>3. \A k \in (e + 1)..(N - 1) : k # e + 1 /\ k - 1 \in Right => k \in Right
  <2> SUFFICES ASSUME NEW k \in (e + 1)..(N - 1), k # e + 1, k - 1 \in Right, w[k - 1].pnl = NONE
               PROVE  LevelsAt(PosOn(w[k - 1].ph, k), e, k - 1)
    OBVIOUS
  <2>1. /\ k - 1 \in (e + 1)..(N - 1) /\ (k - 1) - 1 \in e..(N - 1) /\ k - 1 \in e..(N - 1)
        /\ k - 1 # e /\ k \in Int /\ k - 1 \in 0..(N - 1)
    BY <1>1
  <2>2. w[(k - 1) - 1].pnl = NONE => LevelsAt(PosOn(w[(k - 1) - 1].ph, k - 1), e, (k - 1) - 1)
    OBVIOUS
  <2> HIDE DEF Right
  <2>3. w[k - 1] = Moved(w[(k - 1) - 1], k - 1)  BY <1>1, <2>1, WalkSteps
  <2>4. w[(k - 1) - 1].pnl = NONE  BY <2>3 DEF Moved
  <2>5. Walking(w[(k - 1) - 1], e, (k - 1) - 1) /\ Walking(w[k - 1], e, k - 1)
    BY <1>1, <2>1, WalksTyped
  <2>6. PICK p : p = PosOn(w[(k - 1) - 1].ph, k - 1)  OBVIOUS
  <2>7. PICK h : h = IntrabarExit(p, k - 1)  OBVIOUS
  <2>8. WalkMove(w, e, k - 1, p, h)  BY <1>1, <2>1, <2>4, <2>5, <2>6, <2>7, WalkMoves
  <2>9. w[k - 1].ph.pos = UpdateTrailing(p, k - 1) /\ Placed(p)  BY <2>8, NotNone DEF WalkMove
  <2>10. Trailed(p, w[k - 1].ph.pos, k - 1)
    <3>1. Trailed(p, UpdateTrailing(p, k - 1), k - 1)  BY <2>1, <2>9, UpdateTrailingTyped
    <3> QED  BY <2>9, <3>1
  <2>11. LevelsAt(p, e, (k - 1) - 1)  BY <2>2, <2>4, <2>6
  <2>12. LevelsAt(w[k - 1].ph.pos, e, k - 1)  BY <2>1, <2>9, <2>10, <2>11, LevelsTrail
  <2>13. w[k - 1].ph.pos # NONE
    <3>1. Placed(w[k - 1].ph.pos)  BY <2>1, <2>5 DEF Walking
    <3> QED  BY <3>1, NotNone DEF Placed
  <2> QED  BY <2>12, <2>13 DEF PosOn
<1> HIDE DEF Right
<1>4. \A b \in (e + 1)..(N - 1) : b \in Right  BY <1>1, <1>2, <1>3, Upward
<1> QED  BY <1>4 DEF Right

-----------------------------------------------------------------------------
(* The stages of a bar, field by field. *)

Reasons == {"stop_loss", "take_profit", "signal", "end_of_data"}
TradeRows == [entry : Int, exit : Int, raw : Int, reason : Reasons, pnl : Int]
Completions == [exitIndex : Int, pnl : Int]
Signals == [bar : Int, fired : BOOLEAN, pnl : Levels, resolvedBar : Levels]
Sims == [pos : Positions \cup {NONE}, cash : Int, entryAt : Levels, exitAt : Levels,
         tradeId : Nat, trades : Seq(TradeRows), history : Seq(Completions),
         signals : Seq(Signals), phantoms : Seq(Phantoms)]

LEMMA NoSimTyped == NoSim \in Sims
<1>1. <<>> \in Seq(TradeRows) /\ <<>> \in Seq(Completions) /\ <<>> \in Seq(Signals)
      /\ <<>> \in Seq(Phantoms)
  OBVIOUS
<1> QED  BY <1>1 DEF NoSim, Sims, Levels

\* s and t but for the fields of a stage.
KeepsRecords(s, t) ==
    /\ t.tradeId = s.tradeId /\ t.trades = s.trades /\ t.history = s.history
    /\ t.signals = s.signals /\ t.phantoms = s.phantoms

EntryFilled(s, t, b) ==
    /\ t \in Sims /\ KeepsRecords(s, t) /\ t.exitAt = s.exitAt
    /\ s.entryAt # NONE /\ s.pos = NONE =>
          /\ t.entryAt = NONE /\ t.pos = OpenPosition(Price(bars[b].open), s.entryAt)
          /\ t.cash = IF t.pos = NONE THEN s.cash ELSE s.cash - EntryCost(t.pos.fill)
    /\ s.entryAt = NONE \/ s.pos # NONE => t = s

LEMMA FillEntryFields ==
    ASSUME Given, NEW b \in 0..(N - 1), NEW s \in Sims
    PROVE  EntryFilled(s, FillEntry(s, b), b)
<1> SUFFICES ASSUME NEW t, t = FillEntry(s, b)  PROVE EntryFilled(s, t, b)  OBVIOUS
<1>1. CASE s.entryAt = NONE \/ s.pos # NONE
  <2>1. t = s  BY <1>1 DEF FillEntry
  <2> QED  BY <1>1, <2>1 DEF EntryFilled, KeepsRecords
<1>2. CASE ~(s.entryAt = NONE \/ s.pos # NONE)
  <2> DEFINE pos == OpenPosition(Price(bars[b].open), s.entryAt)
             cash == IF pos = NONE THEN s.cash ELSE s.cash - EntryCost(pos.fill)
  <2>1. s.entryAt \in Int /\ s.cash \in Int  BY <1>2 DEF Sims, Levels
  <2>2. pos \in Positions \cup {NONE}
    <3>1. Price(bars[b].open) \in Int  BY BarPrices
    <3>2. NewPosition(Price(bars[b].open), s.entryAt) \in Positions  BY <2>1, <3>1, NewPositionTyped
    <3> QED  BY <3>2 DEF OpenPosition
  <2>3. t = [s EXCEPT !.pos = pos, !.entryAt = NONE, !.cash = cash]
    BY <1>2 DEF FillEntry
  <2> HIDE DEF pos
  <2>4. cash \in Int
    <3>1. CASE pos = NONE  BY <2>1, <3>1
    <3>2. CASE pos # NONE
      <4>1. pos.fill \in Int  BY <2>2, <3>2 DEF Positions
      <4>2. EntryCost(pos.fill) \in Int  BY <4>1, Amounts
      <4> QED  BY <2>1, <3>2, <4>2
    <3> QED  BY <3>1, <3>2
  <2> HIDE DEF cash
  <2>5. /\ t \in Sims /\ KeepsRecords(s, t) /\ t.exitAt = s.exitAt
        /\ t.pos = pos /\ t.entryAt = NONE /\ t.cash = cash
    BY <2>2, <2>3, <2>4 DEF Sims, KeepsRecords, Levels
  <2> QED  BY <1>2, <2>5 DEF EntryFilled, pos, cash
<1> QED  BY <1>1, <1>2

TradeOf(p, x, raw, reason) ==
    [entry |-> p.entry, exit |-> x, raw |-> raw, reason |-> reason, pnl |-> PhantomReturn(p, raw)]

\* t is s with its position closed.
ClosedBy(s, t, x, raw, reason, sigs) ==
    /\ t \in Sims /\ t.pos = NONE /\ t.cash = s.cash + ExitProceeds(raw)
    /\ t.entryAt = s.entryAt
    /\ t.tradeId = s.tradeId + 1
    /\ t.trades = Append(s.trades, TradeOf(s.pos, x, raw, reason))
    /\ t.history = Append(s.history, [exitIndex |-> s.tradeId + 1, pnl |-> PhantomReturn(s.pos, raw)])
    /\ t.signals = sigs /\ t.phantoms = s.phantoms

LEMMA CloseFields ==
    ASSUME NEW s \in Sims, Placed(s.pos), NEW x \in Int, NEW raw \in Int,
           NEW reason \in Reasons, NEW sigs \in Seq(Signals)
    PROVE  /\ ClosedBy(s, Close(s, x, raw, reason, sigs), x, raw, reason, sigs)
           /\ Close(s, x, raw, reason, sigs).exitAt = s.exitAt
<1> DEFINE pnl == PhantomReturn(s.pos, raw)
           trade == TradeOf(s.pos, x, raw, reason)
           record == [exitIndex |-> s.tradeId + 1, pnl |-> pnl]
           cash == s.cash + ExitProceeds(raw)
           t == Close(s, x, raw, reason, sigs)
<1>1. pnl \in Int  BY ReturnTyped
<1>2. cash \in Int
  <2>1. ExitProceeds(raw) \in Int /\ s.cash \in Int  BY Amounts DEF Sims
  <2> QED  BY <2>1
<1>3. /\ s.tradeId \in Nat /\ s.trades \in Seq(TradeRows) /\ s.history \in Seq(Completions)
      /\ s.pos.entry \in Int
  BY DEF Sims, Placed, Positions
<1>4. trade = [entry |-> s.pos.entry, exit |-> x, raw |-> raw, reason |-> reason, pnl |-> pnl]
  BY DEF TradeOf
<1>5. trade \in TradeRows /\ record \in Completions
  <2> HIDE DEF pnl, trade
  <2> QED  BY <1>1, <1>3, <1>4 DEF TradeRows, Completions
<1>6. t = [s EXCEPT !.pos = NONE, !.cash = cash, !.tradeId = s.tradeId + 1,
                    !.trades = Append(s.trades, trade), !.history = Append(s.history, record),
                    !.signals = sigs]
  BY DEF Close, Completed, PhantomReturn, TradeOf
<1>7. s.tradeId + 1 \in Nat /\ Append(s.trades, trade) \in Seq(TradeRows)
      /\ Append(s.history, record) \in Seq(Completions)
  <2> HIDE DEF trade, record
  <2> QED  BY <1>3, <1>5, AppendProperties
<1> DEFINE trades == Append(s.trades, trade)
           history == Append(s.history, record)
           id == s.tradeId + 1
<1>8. t = [s EXCEPT !.pos = NONE, !.cash = cash, !.tradeId = id,
                    !.trades = trades, !.history = history, !.signals = sigs]
  BY <1>6
<1>9. id \in Nat /\ trades \in Seq(TradeRows) /\ history \in Seq(Completions)  BY <1>7
<1> HIDE DEF t, cash, id, trades, history
<1>10. /\ t \in Sims /\ t.pos = NONE /\ t.cash = cash /\ t.entryAt = s.entryAt /\ t.exitAt = s.exitAt
       /\ t.tradeId = id /\ t.trades = trades /\ t.history = history
       /\ t.signals = sigs /\ t.phantoms = s.phantoms
  BY <1>2, <1>8, <1>9 DEF Sims
<1> QED  BY <1>10 DEF ClosedBy, t, cash, id, trades, history

\* new is sigs with the record at i resolved.
ResolvedAt(sigs, new, i, pnl, b) ==
    /\ new \in Seq(Signals) /\ Len(new) = Len(sigs)
    /\ \A k \in 1..Len(sigs) : k # i => new[k] = sigs[k]
    /\ i \in 1..Len(sigs) =>
          /\ new[i].bar = sigs[i].bar /\ new[i].fired = sigs[i].fired
          /\ new[i].pnl = pnl /\ new[i].resolvedBar = b

LEMMA ResolveAtFields ==
    ASSUME NEW sigs \in Seq(Signals), NEW i, NEW pnl \in Int, NEW b \in Int
    PROVE  ResolvedAt(sigs, ResolveAt(sigs, i, pnl, b), i, pnl, b)
<1> DEFINE new == ResolveAt(sigs, i, pnl, b)
           rec == [sigs[i] EXCEPT !.pnl = pnl, !.resolvedBar = b]
<1>1. new = [sigs EXCEPT ![i] = rec]  BY DEF ResolveAt
<1>2. Len(sigs) \in Nat /\ DOMAIN sigs = 1..Len(sigs) /\ \A k \in 1..Len(sigs) : sigs[k] \in Signals
  OBVIOUS
<1>3. i \in 1..Len(sigs) =>
         /\ rec \in Signals /\ rec.bar = sigs[i].bar /\ rec.fired = sigs[i].fired
         /\ rec.pnl = pnl /\ rec.resolvedBar = b
  BY <1>2 DEF Signals, Levels
<1> HIDE DEF new, rec
<1>4. DOMAIN new = 1..Len(sigs) /\ \A k \in 1..Len(sigs) : new[k] = IF k = i THEN rec ELSE sigs[k]
  BY <1>1, <1>2
<1>5. new = [k \in 1..Len(sigs) |-> new[k]]  BY <1>1, <1>2
<1>6. \A k \in 1..Len(sigs) : new[k] \in Signals  BY <1>2, <1>3, <1>4
<1>7. new \in Seq(Signals) /\ Len(new) = Len(sigs)  BY <1>2, <1>5, <1>6
<1> QED  BY <1>3, <1>4, <1>7 DEF new, ResolvedAt

LEMMA ScoreTyped ==
    ASSUME NEW s \in Sims, Placed(s.pos), NEW raw \in Int, NEW b \in Int, NEW replay
    PROVE  Score(s, raw, b, replay) \in Seq(Signals)
<1> DEFINE pnl == ExitProceeds(raw) - EntryCost(s.pos.fill)
<1>1. s.signals \in Seq(Signals)  BY DEF Sims
<1>2. pnl \in Int  BY ReturnTyped DEF PhantomReturn
<1> HIDE DEF pnl
<1>3. ResolveLastPending(s.signals, pnl, b) \in Seq(Signals)
      /\ Resolve(s.signals, s.pos.entry, pnl, b) \in Seq(Signals)
  BY <1>1, <1>2, ResolveAtFields DEF ResolveLastPending, Resolve, ResolvedAt
<1> QED  BY <1>1, <1>3 DEF Score, LiveScore, BacktestScore, pnl

ExitFilled(s, t, b, replay) ==
    /\ s.exitAt = NONE \/ s.pos = NONE => t = s
    /\ s.exitAt # NONE /\ s.pos # NONE =>
          /\ ClosedBy(s, t, s.exitAt, Price(bars[b].open), "signal",
                      Score(s, Price(bars[b].open), b, replay))
          /\ t.exitAt = NONE

LEMMA FillExitFields ==
    ASSUME Given, NEW b \in 0..(N - 1), NEW s \in Sims, s.pos # NONE => Placed(s.pos), NEW replay
    PROVE  ExitFilled(s, FillExit(s, b, replay), b, replay)
<1> DEFINE raw == Price(bars[b].open)
           t == FillExit(s, b, replay)
<1>1. raw \in Int /\ b \in Int  BY BarPrices
<1>2. CASE s.exitAt = NONE \/ s.pos = NONE
  <2>1. t = s  BY <1>2 DEF FillExit
  <2> QED  BY <1>2, <2>1 DEF ExitFilled
<1>3. CASE ~(s.exitAt = NONE \/ s.pos = NONE)
  <2> DEFINE sigs == Score(s, raw, b, replay)
             c == Close(s, s.exitAt, raw, "signal", sigs)
  <2>1. t = [c EXCEPT !.exitAt = NONE]  BY <1>3 DEF FillExit
  <2>2. s.exitAt \in Int  BY <1>3 DEF Sims, Levels
  <2>3. "signal" \in Reasons  BY DEF Reasons
  <2>4. sigs \in Seq(Signals)
    <3> HIDE DEF raw
    <3> QED  BY <1>1, <1>3, ScoreTyped
  <2> HIDE DEF t, raw, sigs
  <2>5. ClosedBy(s, c, s.exitAt, raw, "signal", sigs)
    BY <1>1, <1>3, <2>2, <2>3, <2>4, CloseFields
  <2> HIDE DEF c
  <2>6. c \in Sims  BY <2>5 DEF ClosedBy
  <2>7. /\ t \in Sims /\ t.exitAt = NONE /\ t.pos = c.pos /\ t.cash = c.cash
        /\ t.entryAt = c.entryAt /\ t.tradeId = c.tradeId /\ t.trades = c.trades
        /\ t.history = c.history /\ t.signals = c.signals /\ t.phantoms = c.phantoms
    BY <2>1, <2>6 DEF Sims, Levels
  <2>8. ClosedBy(s, t, s.exitAt, raw, "signal", sigs)  BY <2>5, <2>7 DEF ClosedBy
  <2> QED  BY <1>3, <2>7, <2>8 DEF ExitFilled, t, raw, sigs
<1> QED  BY <1>2, <1>3

Traded(s, t, b, replay) ==
    LET h == IntrabarExit(s.pos, b) IN
    /\ s.pos = NONE => t = s
    /\ s.pos # NONE /\ h # NONE =>
          /\ ClosedBy(s, t, b, h.raw, h.reason, Score(s, h.raw, b, replay))
          /\ t.exitAt = s.exitAt
    /\ s.pos # NONE /\ h = NONE =>
          /\ t \in Sims /\ KeepsRecords(s, t)
          /\ t.cash = s.cash /\ t.entryAt = s.entryAt /\ t.exitAt = s.exitAt
          /\ t.pos = UpdateTrailing(s.pos, b)

LEMMA IntrabarFields ==
    ASSUME Given, NEW b \in 0..(N - 1), NEW s \in Sims, s.pos # NONE => Placed(s.pos), NEW replay
    PROVE  Traded(s, Intrabar(s, b, replay), b, replay)
<1> DEFINE t == Intrabar(s, b, replay)
           h == IntrabarExit(s.pos, b)
<1>1. CASE s.pos = NONE
  <2>1. t = s  BY <1>1 DEF Intrabar
  <2> QED  BY <1>1, <2>1 DEF Traded
<1>2. CASE s.pos # NONE /\ h # NONE
  <2> DEFINE sigs == Score(s, h.raw, b, replay)
             c == Close(s, b, h.raw, h.reason, sigs)
  <2>1. t = c  BY <1>2 DEF Intrabar
  <2>2. h \in Exits  BY <1>2, IntrabarExitTyped
  <2>3. h.raw \in Int /\ h.reason \in Reasons /\ b \in Int  BY <2>2 DEF Exits, Reasons
  <2> HIDE DEF t, h
  <2>4. sigs \in Seq(Signals)  BY <1>2, <2>3, ScoreTyped
  <2> HIDE DEF sigs
  <2>5. ClosedBy(s, c, b, h.raw, h.reason, sigs) /\ c.exitAt = s.exitAt
    BY <1>2, <2>3, <2>4, CloseFields
  <2> QED  BY <1>2, <2>1, <2>5 DEF Traded, t, h, sigs
<1>3. CASE s.pos # NONE /\ h = NONE
  <2> DEFINE q == UpdateTrailing(s.pos, b)
  <2>1. t = [s EXCEPT !.pos = q]  BY <1>3 DEF Intrabar
  <2>2. Placed(q)
    <3>1. Trailed(s.pos, q, b)  BY <1>3, UpdateTrailingTyped
    <3> QED  BY <3>1 DEF Trailed
  <2> HIDE DEF t, h, q
  <2>3. /\ t \in Sims /\ KeepsRecords(s, t)
        /\ t.cash = s.cash /\ t.entryAt = s.entryAt /\ t.exitAt = s.exitAt /\ t.pos = q
    BY <2>1, <2>2 DEF Sims, KeepsRecords, Placed
  <2> QED  BY <1>3, <2>3 DEF Traded, t, h, q
<1> QED  BY <1>1, <1>2, <1>3

ExitChosen(s, t, b, canFill) ==
    LET chosen == canFill /\ s.pos # NONE /\ s.exitAt = NONE /\ ExitDecided(b, s.pos.entry) IN
    /\ ~chosen => t = s
    /\ chosen => /\ t \in Sims /\ KeepsRecords(s, t) /\ t.exitAt = b
                 /\ t.cash = s.cash /\ t.entryAt = s.entryAt /\ t.pos = s.pos

LEMMA DecideExitFields ==
    ASSUME NEW b \in Int, NEW s \in Sims, NEW canFill \in BOOLEAN
    PROVE  ExitChosen(s, DecideExit(s, b, canFill), b, canFill)
<1> DEFINE chosen == canFill /\ s.pos # NONE /\ s.exitAt = NONE /\ ExitDecided(b, s.pos.entry)
           t == DecideExit(s, b, canFill)
<1>1. CASE chosen
  <2>1. t = [s EXCEPT !.exitAt = b]  BY <1>1 DEF DecideExit
  <2>2. b \in Levels  BY DEF Levels
  <2> HIDE DEF t, chosen
  <2>3. /\ t \in Sims /\ KeepsRecords(s, t) /\ t.exitAt = b
        /\ t.cash = s.cash /\ t.entryAt = s.entryAt /\ t.pos = s.pos
    BY <2>1, <2>2 DEF Sims, KeepsRecords
  <2> QED  BY <1>1, <2>3 DEF ExitChosen, t, chosen
<1>2. CASE ~chosen
  <2>1. t = s  BY <1>2 DEF DecideExit
  <2> QED  BY <1>2, <2>1 DEF ExitChosen
<1> QED  BY <1>1, <1>2

\* The record of a signal that the gate skips, in either loop.
SkippedSignal(b, replay) ==
    IF replay THEN NewSignal(b, FALSE)
    ELSE [NewSignal(b, FALSE) EXCEPT !.pnl = Phantom(b).pnl, !.resolvedBar = Phantom(b).resolvedBar]

EntryDecided(s, t, b, canFill, replay) ==
    LET free == canFill /\ s.pos = NONE /\ s.entryAt = NONE
        signals == free /\ TracksSignals /\ bars[b].raw
        fired == EntryEval(s, b)
    IN /\ t \in Sims /\ t.pos = s.pos /\ t.cash = s.cash /\ t.exitAt = s.exitAt
       /\ t.tradeId = s.tradeId /\ t.trades = s.trades /\ t.history = s.history
       /\ free /\ fired => t.entryAt = b
       /\ ~(free /\ fired) => t.entryAt = s.entryAt
       /\ signals /\ fired => t.signals = Append(s.signals, NewSignal(b, TRUE))
       /\ signals /\ ~fired => t.signals = Append(s.signals, SkippedSignal(b, replay))
       /\ ~signals => t.signals = s.signals
       /\ signals /\ ~fired /\ replay => t.phantoms = Append(s.phantoms, NewPhantom(b))
       /\ ~(signals /\ ~fired /\ replay) => t.phantoms = s.phantoms

FiredRecord(rec, b) ==
    rec \in Signals /\ rec.bar = b /\ rec.fired /\ rec.pnl = NONE /\ rec.resolvedBar = NONE

SkippedRecord(rec, b, replay) ==
    /\ rec \in Signals /\ rec.bar = b /\ ~rec.fired
    /\ replay => rec.pnl = NONE /\ rec.resolvedBar = NONE
    /\ ~replay => rec.pnl = Phantom(b).pnl /\ rec.resolvedBar = Phantom(b).resolvedBar

LEMMA SignalTyped ==
    ASSUME Given, NEW b \in Int, NEW replay \in BOOLEAN, ~replay => b \in 0..(N - 2)
    PROVE  /\ FiredRecord(NewSignal(b, TRUE), b)
           /\ SkippedRecord(SkippedSignal(b, replay), b, replay)
           /\ NewPhantom(b) \in Phantoms
<1>1. /\ NewSignal(b, FALSE) \in Signals /\ NewSignal(b, TRUE) \in Signals /\ NewPhantom(b) \in Phantoms
      /\ NewSignal(b, TRUE).bar = b /\ NewSignal(b, TRUE).fired
      /\ NewSignal(b, TRUE).pnl = NONE /\ NewSignal(b, TRUE).resolvedBar = NONE
      /\ NewSignal(b, FALSE).bar = b /\ ~NewSignal(b, FALSE).fired
      /\ NewSignal(b, FALSE).pnl = NONE /\ NewSignal(b, FALSE).resolvedBar = NONE
  BY DEF NewSignal, NewPhantom, Signals, Phantoms, Levels
<1>2. CASE replay
  <2>1. SkippedSignal(b, replay) = NewSignal(b, FALSE)  BY <1>2 DEF SkippedSignal
  <2> QED  BY <1>1, <1>2, <2>1 DEF FiredRecord, SkippedRecord
<1>3. CASE ~replay
  <2> DEFINE pnl == Phantom(b).pnl
             bar == Phantom(b).resolvedBar
             sig == NewSignal(b, FALSE)
  <2>1. pnl \in Int /\ bar \in Int
    <3>1. b \in b..(N - 1)  BY <1>3, BarNumbers
    <3> QED  BY <1>3, <3>1, PhantomIs
  <2>2. SkippedSignal(b, replay) = [sig EXCEPT !.pnl = pnl, !.resolvedBar = bar]
    BY <1>3 DEF SkippedSignal
  <2> HIDE DEF pnl, bar, sig
  <2>3. sig \in Signals /\ sig.bar = b /\ ~sig.fired  BY <1>1 DEF sig
  <2>4. /\ SkippedSignal(b, replay) \in Signals /\ SkippedSignal(b, replay).bar = b
        /\ ~SkippedSignal(b, replay).fired
        /\ SkippedSignal(b, replay).pnl = pnl /\ SkippedSignal(b, replay).resolvedBar = bar
    BY <2>1, <2>2, <2>3 DEF Signals, Levels
  <2> QED  BY <1>1, <1>3, <2>4 DEF pnl, bar, FiredRecord, SkippedRecord
<1> QED  BY <1>2, <1>3

LEMMA DecideEntryFields ==
    ASSUME Given, NEW b \in Int, NEW s \in Sims, NEW canFill \in BOOLEAN, NEW replay \in BOOLEAN,
           canFill /\ ~replay => b \in 0..(N - 2)
    PROVE  EntryDecided(s, DecideEntry(s, b, canFill, replay), b, canFill, replay)
<1> DEFINE free == canFill /\ s.pos = NONE /\ s.entryAt = NONE
           fired == EntryEval(s, b)
<1> SUFFICES ASSUME NEW t, t = DecideEntry(s, b, canFill, replay)
             PROVE  EntryDecided(s, t, b, canFill, replay)
  OBVIOUS
<1>1. s.signals \in Seq(Signals) /\ s.phantoms \in Seq(Phantoms)  BY DEF Sims
<1>2. CASE ~free
  <2>1. t = s  BY <1>2 DEF DecideEntry
  <2> QED  BY <1>2, <2>1 DEF EntryDecided
<1>3. CASE free /\ ~TracksSignals
  <2>1. CASE fired
    <3>1. t = [s EXCEPT !.entryAt = b]  BY <1>3, <2>1 DEF DecideEntry
    <3> HIDE DEF fired
    <3>2. /\ t \in Sims /\ t.pos = s.pos /\ t.cash = s.cash /\ t.exitAt = s.exitAt
          /\ t.tradeId = s.tradeId /\ t.trades = s.trades /\ t.history = s.history
          /\ t.entryAt = b /\ t.signals = s.signals /\ t.phantoms = s.phantoms
      BY <3>1 DEF Sims, Levels
    <3> QED  BY <1>3, <2>1, <3>2 DEF EntryDecided, fired
  <2>2. CASE ~fired
    <3>1. t = s  BY <1>3, <2>2 DEF DecideEntry
    <3> QED  BY <1>3, <2>2, <3>1 DEF EntryDecided
  <2> QED  BY <2>1, <2>2
<1>4. CASE free /\ TracksSignals /\ ~bars[b].raw
  <2>1. t = s /\ ~fired  BY <1>4 DEF DecideEntry, EntryEval
  <2> QED  BY <1>4, <2>1 DEF EntryDecided
<1>5. CASE free /\ TracksSignals /\ bars[b].raw /\ fired
  <2> DEFINE sigs == Append(s.signals, NewSignal(b, TRUE))
             e == [s EXCEPT !.entryAt = b]
  <2>1. t = [e EXCEPT !.signals = Append(@, NewSignal(b, TRUE))]  BY <1>5 DEF DecideEntry
  <2>2. sigs \in Seq(Signals)  BY <1>1, AppendProperties DEF NewSignal, Signals, Levels
  <2>3. /\ e \in Sims /\ e.pos = s.pos /\ e.cash = s.cash /\ e.exitAt = s.exitAt
        /\ e.tradeId = s.tradeId /\ e.trades = s.trades /\ e.history = s.history
        /\ e.entryAt = b /\ e.signals = s.signals /\ e.phantoms = s.phantoms
    BY DEF Sims, Levels
  <2> HIDE DEF e, fired
  <2>4. t = [e EXCEPT !.signals = sigs]  BY <2>1, <2>3
  <2> HIDE DEF sigs
  <2>5. /\ t \in Sims /\ t.pos = s.pos /\ t.cash = s.cash /\ t.exitAt = s.exitAt
        /\ t.tradeId = s.tradeId /\ t.trades = s.trades /\ t.history = s.history
        /\ t.entryAt = b /\ t.signals = sigs /\ t.phantoms = s.phantoms
    BY <2>2, <2>3, <2>4 DEF Sims
  <2> QED  BY <1>5, <2>5 DEF EntryDecided, fired, sigs
<1>6. CASE free /\ TracksSignals /\ bars[b].raw /\ ~fired
  <2> DEFINE sigs == Append(s.signals, SkippedSignal(b, replay))
             phs == IF replay THEN Append(s.phantoms, NewPhantom(b)) ELSE s.phantoms
  <2>1. t = [s EXCEPT !.signals = sigs, !.phantoms = phs]
    <3>1. CASE replay
      <4>1. t = LiveSkip(s, b)  BY <1>6, <3>1 DEF DecideEntry
      <4>2. SkippedSignal(b, replay) = NewSignal(b, FALSE)  BY <3>1 DEF SkippedSignal
      <4> QED  BY <3>1, <4>1, <4>2 DEF LiveSkip
    <3>2. CASE ~replay
      <4>1. t = BacktestSkip(s, b)  BY <1>6, <3>2 DEF DecideEntry
      <4>2. t = [s EXCEPT !.signals = sigs]  BY <3>2, <4>1 DEF BacktestSkip, SkippedSignal
      <4>3. phs = s.phantoms  BY <3>2
      <4> HIDE DEF sigs, phs
      <4> QED  BY <4>2, <4>3 DEF Sims
    <3> QED  BY <3>1, <3>2
  <2>2. SkippedSignal(b, replay) \in Signals /\ NewPhantom(b) \in Phantoms  BY <1>6, SignalTyped DEF SkippedRecord
  <2>3. sigs \in Seq(Signals) /\ phs \in Seq(Phantoms)  BY <1>1, <2>2, AppendProperties
  <2> HIDE DEF sigs, phs, fired
  <2>4. /\ t \in Sims /\ t.pos = s.pos /\ t.cash = s.cash /\ t.exitAt = s.exitAt
        /\ t.tradeId = s.tradeId /\ t.trades = s.trades /\ t.history = s.history
        /\ t.entryAt = s.entryAt /\ t.signals = sigs /\ t.phantoms = phs
    BY <2>1, <2>3 DEF Sims
  <2> QED  BY <1>6, <2>4 DEF EntryDecided, fired, sigs, phs
<1> QED  BY <1>2, <1>3, <1>4, <1>5, <1>6

-----------------------------------------------------------------------------
(* What the backtest keeps from bar to bar. *)

\* A position that enters bar b, with the exit that is due, as its phantom.
Carried(p, x, b) ==
    LET w == PhantomWalk(p.entry) IN
    /\ p.entry \in 0..(N - 2) /\ p.entry < b
    /\ w[b - 1].pnl = NONE /\ p = PosOn(w[b - 1].ph, b) /\ w[b - 1].ph.exitAt = x

\* And one that has traded bar b; x may be any exit where no phantom counts.
Standing(p, x, b) ==
    LET w == PhantomWalk(p.entry) IN
    /\ p.entry \in 0..(N - 2) /\ p.entry < b
    /\ w[b].pnl = NONE /\ p = w[b].ph.pos /\ (b < N - 1 => w[b].ph.exitAt = x)

TradeRight(t) ==
    t.reason = "stop_loss" => t.raw = Min({StopReference(t), Price(bars[t.exit].open)})
TradesRight(trades) == \A i \in 1..Len(trades) : TradeRight(trades[i])

\* The record of a signal, as it is after bar b.
SignalRight(rec, b) ==
    /\ rec.bar \in 0..(N - 2) /\ rec.bar <= b
    /\ rec.fired /\ rec.pnl = NONE => rec.resolvedBar = NONE
    /\ rec.fired /\ rec.pnl # NONE => rec.resolvedBar \in Int /\ rec.resolvedBar <= b
    /\ ~rec.fired \/ rec.pnl # NONE =>
          rec.pnl = Phantom(rec.bar).pnl /\ rec.resolvedBar = Phantom(rec.bar).resolvedBar
SignalsRight(sigs, b) ==
    /\ sigs \in Seq(Signals)
    /\ \A i \in 1..Len(sigs) : SignalRight(sigs[i], b)
    /\ \A i, k \in 1..Len(sigs) : i < k => sigs[i].bar < sigs[k].bar

Older(sigs, b) == \A i \in 1..Len(sigs) : sigs[i].bar < b

\* The last signal is the one of the open or ordered position.
Awaited(sigs, e) ==
    TracksSignals => /\ Len(sigs) > 0
                     /\ sigs[Len(sigs)].fired /\ sigs[Len(sigs)].pnl = NONE
                     /\ sigs[Len(sigs)].bar = e

\* The backtest after bar b.
Steady(s, b) ==
    /\ s \in Sims
    /\ s.entryAt # NONE => /\ s.entryAt = b /\ b \in 0..(N - 2) /\ s.pos = NONE
                           /\ Awaited(s.signals, b)
    /\ s.exitAt # NONE => s.pos # NONE
    /\ s.pos # NONE => Standing(s.pos, s.exitAt, b) /\ Awaited(s.signals, s.pos.entry)
    /\ TradesRight(s.trades) /\ SignalsRight(s.signals, b)

\* Within bar b, once the ordered entry is filled; its signals are those of c.
InBar(s, b, c) ==
    /\ s \in Sims /\ s.entryAt = NONE
    /\ s.exitAt # NONE => s.pos # NONE
    /\ s.pos # NONE => Carried(s.pos, s.exitAt, b) /\ Awaited(s.signals, s.pos.entry)
    /\ TradesRight(s.trades) /\ SignalsRight(s.signals, c) /\ Older(s.signals, b)

\* And once the bar's range was traded.
Marked(s, b) ==
    /\ s \in Sims /\ s.entryAt = NONE /\ s.exitAt = NONE
    /\ s.pos # NONE =>
          /\ Standing(s.pos, IF ExitDecided(b, s.pos.entry) THEN b ELSE NONE, b)
          /\ Awaited(s.signals, s.pos.entry)
    /\ TradesRight(s.trades) /\ SignalsRight(s.signals, b) /\ Older(s.signals, b)

LEMMA MinOfTwo ==
    ASSUME NEW x \in Int, NEW y \in Int
    PROVE  Min({x, y}) = IF y <= x THEN y ELSE x
<1>1. {x, y} \in SUBSET Int /\ x \in {x, y} /\ y \in {x, y}  OBVIOUS
<1>2. CASE y <= x
  <2>1. \A z \in {x, y} : y <= z  BY <1>2
  <2> QED  BY <1>1, <1>2, <2>1, MinIs
<1>3. CASE ~(y <= x)
  <2>1. \A z \in {x, y} : x <= z  BY <1>3
  <2>2. Min({x, y}) = x  BY <1>1, <2>1, MinIs
  <2> QED  BY <1>3, <2>2
<1> QED  BY <1>2, <1>3

\* One bar of the walk of a position that is carried into it.
LEMMA CarriedMoves ==
    ASSUME Given, NEW b \in 0..(N - 1), NEW p, NEW x, Carried(p, x, b)
    PROVE  /\ Placed(p) /\ b \in (p.entry + 1)..(N - 1)
           /\ WalkMove(PhantomWalk(p.entry), p.entry, b, p, IntrabarExit(p, b))
           /\ LevelsAt(p, p.entry, b - 1)
<1> DEFINE e == p.entry
           w == PhantomWalk(e)
<1>1. /\ e \in 0..(N - 2) /\ e < b /\ w[b - 1].pnl = NONE /\ p = PosOn(w[b - 1].ph, b)
  BY DEF Carried
<1> HIDE DEF e
<1>2. /\ e \in 0..(N - 1) /\ b \in (e + 1)..(N - 1) /\ b - 1 \in e..(N - 1)
  BY <1>1, BarNumbers
<1> HIDE DEF w
<1>3. w = PhantomWalk(e)  BY DEF w
<1>4. Walking(w[b - 1], e, b - 1)  BY <1>2, <1>3, WalksTyped
<1>5. PICK h : h = IntrabarExit(p, b)  OBVIOUS
<1>6. WalkMove(w, e, b, p, h)  BY <1>1, <1>2, <1>3, <1>4, <1>5, WalkMoves
<1>7. Placed(p)  BY <1>6 DEF WalkMove
<1>8. LevelsAt(p, e, b - 1)  BY <1>1, <1>2, <1>3, WalkLevels
<1> QED  BY <1>2, <1>5, <1>6, <1>7, <1>8 DEF e, w

LEMMA SignalsLater ==
    ASSUME NEW b \in Int, NEW c \in Int, b <= c, NEW sigs, SignalsRight(sigs, b)
    PROVE  SignalsRight(sigs, c)
<1>1. ASSUME NEW i \in 1..Len(sigs)  PROVE SignalRight(sigs[i], c)
  <2>1. SignalRight(sigs[i], b) /\ sigs[i] \in Signals  BY DEF SignalsRight
  <2>2. sigs[i].bar \in Int /\ sigs[i].resolvedBar \in Levels  BY <2>1 DEF Signals
  <2>3. sigs[i].bar <= c  BY <2>1, <2>2 DEF SignalRight
  <2>4. ASSUME sigs[i].fired, sigs[i].pnl # NONE  PROVE sigs[i].resolvedBar \in Int /\ sigs[i].resolvedBar <= c
    <3>1. sigs[i].resolvedBar \in Int /\ sigs[i].resolvedBar <= b
      BY <2>1, <2>4 DEF SignalRight
    <3> QED  BY <3>1
  <2> QED  BY <2>1, <2>3, <2>4 DEF SignalRight
<1> QED  BY <1>1 DEF SignalsRight

\* The last signal that is pending is the last of all.
LEMMA LastIsPending ==
    ASSUME NEW sigs \in Seq(Signals), Len(sigs) > 0, sigs[Len(sigs)].pnl = NONE
    PROVE  Max({i \in DOMAIN sigs : sigs[i].pnl = NONE}) = Len(sigs)
<1> DEFINE S == {i \in DOMAIN sigs : sigs[i].pnl = NONE}
<1>1. DOMAIN sigs = 1..Len(sigs) /\ Len(sigs) \in Nat /\ Len(sigs) \in 1..Len(sigs)  OBVIOUS
<1>2. S \in SUBSET Int /\ Len(sigs) \in S /\ \A i \in S : i <= Len(sigs)  BY <1>1
<1> HIDE DEF S
<1>3. Max(S) = Len(sigs)  BY <1>2, MaxIs
<1> QED  BY <1>3 DEF S

\* A position that leaves at raw leaves its signal with its phantom's outcome.
LEMMA ScoreRight ==
    ASSUME Given, NEW b \in 0..(N - 1), NEW s \in Sims, NEW c \in {b - 1, b}, NEW raw \in Int,
           s.pos # NONE, Carried(s.pos, s.exitAt, b), Awaited(s.signals, s.pos.entry),
           SignalsRight(s.signals, c), Older(s.signals, b),
           PhantomWalk(s.pos.entry)[b].pnl = PhantomReturn(s.pos, raw),
           PhantomWalk(s.pos.entry)[b].resolvedBar = b
    PROVE  /\ SignalsRight(Score(s, raw, b, FALSE), b)
           /\ Older(Score(s, raw, b, FALSE), b)
<1> DEFINE sigs == s.signals
           e == s.pos.entry
           n == Len(sigs)
           pnl == PhantomReturn(s.pos, raw)
           new == ResolveAt(sigs, n, pnl, b)
<1>1. b \in Int /\ c \in Int /\ c <= b  OBVIOUS
<1>2. SignalsRight(sigs, b)  BY <1>1, SignalsLater
<1>3. CASE ~TracksSignals
  <2>1. Score(s, raw, b, FALSE) = sigs  BY <1>3 DEF Score, BacktestScore
  <2> QED  BY <1>2, <2>1
<1>4. CASE TracksSignals
  <2>1. /\ sigs \in Seq(Signals) /\ n \in Nat /\ n > 0 /\ n \in 1..n /\ sigs[n] \in Signals
        /\ sigs[n].fired /\ sigs[n].pnl = NONE /\ sigs[n].bar = e
    BY <1>2, <1>4 DEF SignalsRight, Awaited
  <2>2. Score(s, raw, b, FALSE) = new
    <3>1. Max({i \in DOMAIN sigs : sigs[i].pnl = NONE}) = n
      <4> HIDE DEF sigs
      <4> QED  BY <2>1, LastIsPending
    <3> QED  BY <1>4, <3>1 DEF Score, BacktestScore, ResolveLastPending, PhantomReturn
  <2>3. /\ e \in 0..(N - 2) /\ e < b /\ Placed(s.pos)
    BY CarriedMoves DEF Carried
  <2>4. pnl \in Int  BY <2>3, ReturnTyped
  <2>5. Phantom(e).pnl = pnl /\ Phantom(e).resolvedBar = b
    <3>1. b \in e..(N - 1)  BY <2>3
    <3>2. PhantomWalk(e)[b].pnl # NONE  BY <2>4, NotNone
    <3> QED  BY <2>3, <3>1, <3>2, PhantomIs
  <2> HIDE DEF sigs, pnl, e, new
  <2>6. /\ new \in Seq(Signals) /\ Len(new) = n
        /\ \A k \in 1..n : k # n => new[k] = sigs[k]
        /\ new[n].bar = sigs[n].bar /\ new[n].fired = sigs[n].fired
        /\ new[n].pnl = pnl /\ new[n].resolvedBar = b
    <3>1. ResolvedAt(sigs, new, n, pnl, b)  BY <1>1, <2>1, <2>4, ResolveAtFields DEF new
    <3> QED  BY <2>1, <3>1 DEF ResolvedAt
  <2>7. ASSUME NEW i \in 1..n  PROVE SignalRight(new[i], b) /\ new[i].bar = sigs[i].bar
    <3>1. SignalRight(sigs[i], b)  BY <1>2 DEF SignalsRight
    <3>2. CASE i # n  BY <2>6, <3>1, <3>2
    <3>3. CASE i = n
      <4>1. /\ new[i].bar = e /\ new[i].fired /\ new[i].pnl = pnl /\ new[i].resolvedBar = b
        BY <2>1, <2>6, <3>3
      <4>2. pnl # NONE  BY <2>4, NotNone
      <4> QED  BY <1>1, <2>1, <2>3, <2>5, <3>1, <3>3, <4>1, <4>2 DEF SignalRight
    <3> QED  BY <3>2, <3>3
  <2>8. \A i, k \in 1..n : i < k => new[i].bar < new[k].bar  BY <1>2, <2>7 DEF SignalsRight
  <2>9. SignalsRight(new, b)  BY <2>6, <2>7, <2>8 DEF SignalsRight
  <2>10. Older(new, b)  BY <2>6, <2>7 DEF Older, sigs
  <2> QED  BY <2>2, <2>9, <2>10
<1> QED  BY <1>3, <1>4

\* A trade that is appended.
LEMMA TradeAppended ==
    ASSUME NEW trades \in Seq(TradeRows), TradesRight(trades), NEW t, TradeRight(t)
    PROVE  TradesRight(Append(trades, t))
<1>1. Len(Append(trades, t)) = Len(trades) + 1 /\ Len(trades) \in Nat
      /\ \A i \in 1..Len(trades) : Append(trades, t)[i] = trades[i]
      /\ Append(trades, t)[Len(trades) + 1] = t
  OBVIOUS
<1>2. ASSUME NEW i \in 1..(Len(trades) + 1)  PROVE TradeRight(Append(trades, t)[i])
  <2>1. CASE i = Len(trades) + 1  BY <1>1, <2>1
  <2>2. CASE i # Len(trades) + 1
    <3>1. i \in 1..Len(trades)  BY <1>1, <2>2
    <3> QED  BY <1>1, <3>1 DEF TradesRight
  <2> QED  BY <2>1, <2>2
<1> QED  BY <1>1, <1>2 DEF TradesRight

LEMMA FillEntryKeeps ==
    ASSUME Given, NEW b \in 0..(N - 1), NEW s, Steady(s, b - 1), NEW t, EntryFilled(s, t, b)
    PROVE  InBar(t, b, b - 1)
<1>1. b \in Int /\ N \in Int /\ N - 1 \in Int  BY BarNumbers
<1>0. Older(s.signals, b)
  <2> SUFFICES ASSUME NEW i \in 1..Len(s.signals)  PROVE s.signals[i].bar < b  BY DEF Older
  <2>1. SignalRight(s.signals[i], b - 1)  BY DEF Steady, SignalsRight
  <2>2. s.signals[i].bar \in 0..(N - 2) /\ s.signals[i].bar <= b - 1  BY <2>1 DEF SignalRight
  <2> QED  BY <1>1, <2>2
<1>2. CASE s.entryAt # NONE /\ s.pos = NONE
  <2> DEFINE e == s.entryAt
             w == PhantomWalk(e)
  <2>1. e = b - 1 /\ e \in 0..(N - 2) /\ Awaited(s.signals, e) /\ s.exitAt = NONE
    BY <1>1, <1>2 DEF Steady
  <2>2. /\ t \in Sims /\ t.entryAt = NONE /\ t.exitAt = NONE /\ t.signals = s.signals
        /\ t.trades = s.trades /\ t.pos = OpenPosition(Price(bars[b].open), e)
    BY <1>2, <2>1 DEF EntryFilled, KeepsRecords
  <2>3. ASSUME t.pos # NONE
        PROVE  Carried(t.pos, NONE, b) /\ Awaited(t.signals, t.pos.entry)
    <3>1. t.pos = NewPosition(Price(bars[b].open), e)  BY <2>2, <2>3 DEF OpenPosition
    <3>2. Price(bars[b].open) \in Int /\ e \in Int  BY <2>1, BarPrices
    <3>3. t.pos.entry = e  BY <3>1, <3>2, NewPositionTyped
    <3>4. w[e] = Unmoved(e)
      <4>1. e \in 0..(N - 1)  BY <1>1, <2>1
      <4> QED  BY <4>1, WalkSteps
    <3>5. w[e].pnl = NONE /\ w[e].ph.exitAt = NONE /\ w[e].ph.pos = NONE /\ w[e].ph.bar = e
      BY <3>4 DEF Unmoved, NewPhantom
    <3>6. t.pos = PosOn(w[e].ph, b)  BY <3>1, <3>5 DEF PosOn
    <3>7. Awaited(t.signals, e)  BY <2>1, <2>2
    <3> HIDE DEF e
    <3> QED  BY <1>1, <2>1, <3>3, <3>5, <3>6, <3>7 DEF Carried
  <2> QED  BY <1>0, <2>2, <2>3 DEF InBar, Steady
<1>3. CASE s.entryAt = NONE \/ s.pos # NONE
  <2>1. t = s /\ s.entryAt = NONE  BY <1>3 DEF EntryFilled, Steady
  <2>2. ASSUME s.pos # NONE
        PROVE  Carried(s.pos, s.exitAt, b)
    <3> DEFINE p == s.pos
               w == PhantomWalk(p.entry)
    <3>1. /\ p.entry \in 0..(N - 2) /\ p.entry < b - 1 /\ w[b - 1].pnl = NONE /\ p = w[b - 1].ph.pos
          /\ w[b - 1].ph.exitAt = s.exitAt
      BY <1>1, <2>2 DEF Steady, Standing
    <3>2. p = PosOn(w[b - 1].ph, b)  BY <2>2, <3>1 DEF PosOn
    <3>3. p.entry < b  BY <1>1, <3>1
    <3> QED  BY <3>1, <3>2, <3>3 DEF Carried
  <2> QED  BY <1>0, <2>1, <2>2 DEF InBar, Steady
<1> QED  BY <1>2, <1>3

LEMMA FillExitKeeps ==
    ASSUME Given, NEW b \in 0..(N - 1), NEW s, InBar(s, b, b - 1), NEW t, ExitFilled(s, t, b, FALSE)
    PROVE  InBar(t, b, b) /\ t.exitAt = NONE
<1>1. b \in Int /\ s \in Sims  BY DEF InBar
<1>2. CASE s.exitAt = NONE \/ s.pos = NONE
  <2>1. t = s /\ s.exitAt = NONE  BY <1>2 DEF ExitFilled, InBar
  <2>2. SignalsRight(s.signals, b)
    <3>1. SignalsRight(s.signals, b - 1) /\ b - 1 \in Int /\ b - 1 <= b  BY <1>1 DEF InBar
    <3> QED  BY <1>1, <3>1, SignalsLater
  <2> QED  BY <2>1, <2>2 DEF InBar
<1>3. CASE s.exitAt # NONE /\ s.pos # NONE
  <2> DEFINE raw == Price(bars[b].open)
             p == s.pos
             trade == TradeOf(p, s.exitAt, raw, "signal")
  <2>1. /\ Carried(p, s.exitAt, b) /\ Awaited(s.signals, p.entry) /\ SignalsRight(s.signals, b - 1)
        /\ TradesRight(s.trades) /\ Older(s.signals, b)
    BY <1>3 DEF InBar
  <2>2. WalkMove(PhantomWalk(p.entry), p.entry, b, p, IntrabarExit(p, b))  BY <2>1, CarriedMoves
  <2>3. PhantomWalk(p.entry)[b].pnl = PhantomReturn(p, raw) /\ PhantomWalk(p.entry)[b].resolvedBar = b
    BY <1>3, <2>1, <2>2 DEF WalkMove, Carried
  <2>4. raw \in Int  BY BarPrices
  <2>5. SignalsRight(Score(s, raw, b, FALSE), b) /\ Older(Score(s, raw, b, FALSE), b)
    <3> HIDE DEF raw
    <3> QED  BY <1>1, <1>3, <2>1, <2>3, <2>4, ScoreRight
  <2>6. /\ ClosedBy(s, t, s.exitAt, raw, "signal", Score(s, raw, b, FALSE)) /\ t.exitAt = NONE
    BY <1>3 DEF ExitFilled
  <2> HIDE DEF raw
  <2>7. /\ t \in Sims /\ t.pos = NONE /\ t.entryAt = NONE /\ t.signals = Score(s, raw, b, FALSE)
        /\ t.trades = Append(s.trades, trade)
    BY <2>6 DEF ClosedBy, InBar
  <2>8. TradeRight(trade)  BY DEF TradeRight, TradeOf
  <2>9. TradesRight(t.trades)
    <3> HIDE DEF trade
    <3>1. s.trades \in Seq(TradeRows)  BY <1>1 DEF Sims
    <3> QED  BY <2>1, <2>7, <2>8, <3>1, TradeAppended
  <2> QED  BY <2>5, <2>6, <2>7, <2>9 DEF InBar
<1> QED  BY <1>2, <1>3

LEMMA IntrabarKeeps ==
    ASSUME Given, NEW b \in 0..(N - 1), NEW s, InBar(s, b, b), s.exitAt = NONE,
           NEW t, Traded(s, t, b, FALSE)
    PROVE  Marked(t, b)
<1>1. /\ b \in Int /\ s \in Sims /\ TradesRight(s.trades) /\ SignalsRight(s.signals, b)
      /\ Older(s.signals, b)
  BY DEF InBar
<1>2. CASE s.pos = NONE
  <2>1. t = s  BY <1>2 DEF Traded
  <2> QED  BY <1>2, <2>1 DEF InBar, Marked
<1> DEFINE p == s.pos
           e == p.entry
           w == PhantomWalk(e)
           h == IntrabarExit(p, b)
<1>3. ASSUME s.pos # NONE
      PROVE  /\ Carried(p, NONE, b) /\ Awaited(s.signals, e)
             /\ Placed(p) /\ b \in (e + 1)..(N - 1) /\ LevelsAt(p, e, b - 1)
             /\ WalkMove(w, e, b, p, h) /\ w[b - 1].ph.exitAt = NONE
  <2>1. Carried(p, NONE, b) /\ Awaited(s.signals, e)  BY <1>3 DEF InBar
  <2>2. Placed(p) /\ b \in (e + 1)..(N - 1) /\ WalkMove(w, e, b, p, h) /\ LevelsAt(p, e, b - 1)
    BY <2>1, CarriedMoves
  <2> QED  BY <2>1, <2>2 DEF Carried
<1>4. CASE s.pos # NONE /\ h # NONE
  <2> DEFINE trade == TradeOf(p, b, h.raw, h.reason)
  <2>1. /\ ClosedBy(s, t, b, h.raw, h.reason, Score(s, h.raw, b, FALSE)) /\ t.exitAt = NONE
    BY <1>4 DEF Traded
  <2>2. w[b].resolvedBar = b /\ w[b].pnl = PhantomReturn(p, h.raw)  BY <1>3, <1>4 DEF WalkMove
  <2>3. /\ h \in Exits
        /\ h.reason = "stop_loss" =>
              /\ p.stop \in Int
              /\ h.raw = IF Price(bars[b].open) <= p.stop THEN Price(bars[b].open) ELSE p.stop
    BY <1>3, <1>4, IntrabarExitTyped
  <2> HIDE DEF h
  <2>4. h.raw \in Int  BY <2>3 DEF Exits
  <2>5. SignalsRight(Score(s, h.raw, b, FALSE), b) /\ Older(Score(s, h.raw, b, FALSE), b)
    BY <1>1, <1>3, <1>4, <2>2, <2>4, ScoreRight
  <2>6. TradeRight(trade)
    <3> SUFFICES ASSUME h.reason = "stop_loss"
                 PROVE  h.raw = Min({StopReference(trade), Price(bars[b].open)})
      BY DEF TradeRight, TradeOf
    <3>1. StopReference(trade) = Max(StopsTo(e, b - 1))
      <4>1. trade.entry = e /\ trade.exit = b  BY DEF TradeOf
      <4> HIDE DEF trade, e
      <4> QED  BY <4>1, ReferenceIs
    <3>2. p.stop \in Int /\ p.stop # NONE  BY <2>3, NotNone
    <3>3. Tops(StopsTo(e, b - 1), p.stop)  BY <1>3, <1>4, <3>2 DEF LevelsAt, Placed
    <3>4. StopReference(trade) = p.stop  BY <3>1, <3>3, TopIsMax
    <3>5. Price(bars[b].open) \in Int  BY BarPrices
    <3> QED  BY <2>3, <3>2, <3>4, <3>5, MinOfTwo
  <2>7. /\ t \in Sims /\ t.pos = NONE /\ t.entryAt = NONE /\ t.signals = Score(s, h.raw, b, FALSE)
        /\ t.trades = Append(s.trades, trade)
    BY <2>1 DEF ClosedBy, InBar
  <2>8. TradesRight(t.trades)
    <3> HIDE DEF trade
    <3>1. s.trades \in Seq(TradeRows)  BY <1>1 DEF Sims
    <3> QED  BY <1>1, <2>6, <2>7, <3>1, TradeAppended
  <2> QED  BY <2>1, <2>5, <2>7, <2>8 DEF Marked
<1>5. CASE s.pos # NONE /\ h = NONE
  <2>1. /\ t \in Sims /\ KeepsRecords(s, t) /\ t.entryAt = NONE /\ t.exitAt = NONE
        /\ t.pos = UpdateTrailing(p, b)
    BY <1>5 DEF Traded, InBar
  <2>2. /\ w[b].pnl = NONE /\ w[b].ph.pos = t.pos
        /\ w[b].ph.exitAt = IF ExitDecided(b, e) THEN b ELSE NONE
    BY <1>3, <1>5, <2>1 DEF WalkMove
  <2>3. t.pos.entry = e
    <3>1. Trailed(p, UpdateTrailing(p, b), b)  BY <1>3, <1>5, UpdateTrailingTyped
    <3> QED  BY <2>1, <3>1 DEF Trailed
  <2>4. Standing(t.pos, IF ExitDecided(b, e) THEN b ELSE NONE, b)
    <3>1. e \in 0..(N - 2) /\ e < b  BY <1>3, <1>5 DEF Carried
    <3> HIDE DEF e
    <3> QED  BY <2>2, <2>3, <3>1 DEF Standing
  <2>5. /\ Awaited(t.signals, t.pos.entry) /\ TradesRight(t.trades)
        /\ SignalsRight(t.signals, b) /\ Older(t.signals, b)
    BY <1>1, <1>3, <1>5, <2>1, <2>3 DEF KeepsRecords
  <2> QED  BY <2>1, <2>3, <2>4, <2>5 DEF Marked
<1> QED  BY <1>2, <1>4, <1>5

\* A signal of bar b that is appended.
LEMMA SignalAppended ==
    ASSUME NEW b \in Int, NEW sigs, SignalsRight(sigs, b), Older(sigs, b),
           NEW rec \in Signals, rec.bar = b, SignalRight(rec, b)
    PROVE  /\ SignalsRight(Append(sigs, rec), b)
           /\ Len(Append(sigs, rec)) = Len(sigs) + 1 /\ Append(sigs, rec)[Len(sigs) + 1] = rec
           /\ Len(sigs) \in Nat
<1> DEFINE new == Append(sigs, rec)
           n == Len(sigs)
<1>1. sigs \in Seq(Signals) /\ n \in Nat  BY DEF SignalsRight
<1>2. /\ new \in Seq(Signals) /\ Len(new) = n + 1 /\ new[n + 1] = rec
      /\ \A i \in 1..n : new[i] = sigs[i]
  BY <1>1
<1> HIDE DEF new, n
<1>3. \A i \in 1..(n + 1) : i \in 1..n \/ i = n + 1  BY <1>1
<1>4. ASSUME NEW i \in 1..(n + 1)  PROVE SignalRight(new[i], b)
  BY <1>2, <1>3 DEF SignalsRight, n
<1>5. ASSUME NEW i \in 1..(n + 1), NEW k \in 1..(n + 1), i < k  PROVE new[i].bar < new[k].bar
  <2>1. i \in 1..n  BY <1>1, <1>5
  <2>2. CASE k = n + 1
    <3>1. new[i].bar < b  BY <1>2, <2>1 DEF Older, n
    <3> QED  BY <1>2, <2>2, <3>1
  <2>3. CASE k # n + 1
    <3>1. k \in 1..n  BY <1>3, <2>3
    <3> QED  BY <1>2, <1>5, <2>1, <3>1 DEF SignalsRight, n
  <2> QED  BY <2>2, <2>3
<1>6. SignalsRight(new, b)  BY <1>2, <1>4, <1>5 DEF SignalsRight
<1> QED  BY <1>1, <1>2, <1>6 DEF new, n

LEMMA DecisionsKeep ==
    ASSUME Given, NEW b \in 0..(N - 1), NEW s, Marked(s, b),
           NEW t, EntryDecided(s, t, b, b < N - 1, FALSE),
           NEW u, ExitChosen(t, u, b, b < N - 1)
    PROVE  Steady(u, b)
<1>1. /\ b \in Int /\ N \in Int /\ s \in Sims /\ s.entryAt = NONE /\ s.exitAt = NONE
      /\ TradesRight(s.trades) /\ SignalsRight(s.signals, b) /\ Older(s.signals, b)
  BY BarNumbers DEF Marked
<1>2. /\ t \in Sims /\ t.pos = s.pos /\ t.exitAt = NONE /\ t.trades = s.trades
  BY <1>1 DEF EntryDecided
<1>3. CASE s.pos # NONE
  <2> DEFINE p == s.pos
  <2>1. t.entryAt = NONE /\ t.signals = s.signals
    BY <1>1, <1>3 DEF EntryDecided
  <2>2. /\ Standing(p, IF ExitDecided(b, p.entry) THEN b ELSE NONE, b)
        /\ Awaited(s.signals, p.entry)
    BY <1>3 DEF Marked
  <2>3. /\ u \in Sims /\ u.pos = p /\ u.entryAt = NONE /\ u.signals = s.signals
        /\ u.trades = s.trades
    BY <1>2, <2>1 DEF ExitChosen, KeepsRecords
  <2>4. b < N - 1 => u.exitAt = IF ExitDecided(b, p.entry) THEN b ELSE NONE
    BY <1>2, <1>3 DEF ExitChosen
  <2>5. Standing(p, u.exitAt, b)  BY <2>2, <2>4 DEF Standing
  <2> QED  BY <1>1, <1>3, <2>2, <2>3, <2>5 DEF Steady
<1>4. CASE s.pos = NONE
  <2>1. u = t  BY <1>2, <1>4 DEF ExitChosen
  <2> DEFINE free == b < N - 1
             signals == free /\ TracksSignals /\ bars[b].raw
             fired == EntryEval(s, b)
  <2>2. /\ free /\ fired => t.entryAt = b
        /\ ~(free /\ fired) => t.entryAt = NONE
        /\ signals /\ fired => t.signals = Append(s.signals, NewSignal(b, TRUE))
        /\ signals /\ ~fired => t.signals = Append(s.signals, SkippedSignal(b, FALSE))
        /\ ~signals => t.signals = s.signals
    BY <1>1, <1>4 DEF EntryDecided
  <2>3. fired => bars[b].raw  BY DEF EntryEval
  <2>4. free => b \in 0..(N - 2)  BY <1>1
  <2> HIDE DEF fired
  <2>5. /\ SignalsRight(t.signals, b)
        /\ free /\ fired => Awaited(t.signals, b)
    <3>1. CASE signals /\ fired
      <4> DEFINE rec == NewSignal(b, TRUE)
      <4>1. FiredRecord(rec, b)  BY <1>1, SignalTyped
      <4> HIDE DEF rec
      <4>2. SignalRight(rec, b)  BY <1>1, <2>4, <3>1, <4>1 DEF SignalRight, FiredRecord
      <4>3. t.signals = Append(s.signals, rec)  BY <2>2, <3>1 DEF rec
      <4>4. /\ SignalsRight(t.signals, b) /\ Len(t.signals) = Len(s.signals) + 1
            /\ t.signals[Len(s.signals) + 1] = rec /\ Len(s.signals) \in Nat
        BY <1>1, <4>1, <4>2, <4>3, SignalAppended DEF FiredRecord
      <4> QED  BY <4>1, <4>4 DEF Awaited, FiredRecord
    <3>2. CASE signals /\ ~fired
      <4> DEFINE rec == SkippedSignal(b, FALSE)
      <4>1. SkippedRecord(rec, b, FALSE)  BY <1>1, <2>4, <3>2, SignalTyped
      <4> HIDE DEF rec
      <4>2. SignalRight(rec, b)  BY <1>1, <2>4, <3>2, <4>1 DEF SignalRight, SkippedRecord
      <4>3. t.signals = Append(s.signals, rec)  BY <2>2, <3>2 DEF rec
      <4>4. SignalsRight(t.signals, b)
        BY <1>1, <4>1, <4>2, <4>3, SignalAppended DEF SkippedRecord
      <4> QED  BY <3>2, <4>4
    <3>3. CASE ~signals
      BY <1>1, <2>2, <2>3, <3>3 DEF Awaited
    <3> QED  BY <3>1, <3>2, <3>3
  <2>6. t.entryAt # NONE => t.entryAt = b /\ b \in 0..(N - 2) /\ Awaited(t.signals, b)
    BY <2>2, <2>4, <2>5
  <2> QED  BY <1>1, <1>2, <1>4, <2>1, <2>5, <2>6 DEF Steady
<1> QED  BY <1>3, <1>4

\* One bar of the backtest.
LEMMA BacktestKeeps ==
    ASSUME Given, NEW b \in 0..(N - 1), NEW s, Steady(s, b - 1)
    PROVE  Steady(BacktestStep(s, b), b)
<1>1. PICK t : t = FillEntry(s, b)  OBVIOUS
<1>2. PICK u : u = FillExit(t, b, FALSE)  OBVIOUS
<1>3. PICK v : v = Intrabar(u, b, FALSE)  OBVIOUS
<1>4. PICK x : x = DecideEntry(v, b, b < N - 1, FALSE)  OBVIOUS
<1>5. PICK y : y = DecideExit(x, b, b < N - 1)  OBVIOUS
<1>6. BacktestStep(s, b) = y  BY <1>1, <1>2, <1>3, <1>4, <1>5 DEF BacktestStep
<1>7. b \in Int /\ N \in Int /\ (b < N - 1) \in BOOLEAN /\ (b < N - 1 => b \in 0..(N - 2))
  BY BarNumbers
<1>8. InBar(t, b, b - 1)
  <2>1. EntryFilled(s, t, b)  BY <1>1, FillEntryFields DEF Steady
  <2> QED  BY <2>1, FillEntryKeeps
<1>9. InBar(u, b, b) /\ u.exitAt = NONE
  <2>1. t.pos # NONE => Placed(t.pos)  BY <1>8, CarriedMoves DEF InBar
  <2>2. ExitFilled(t, u, b, FALSE)  BY <1>2, <1>8, <2>1, FillExitFields DEF InBar
  <2> QED  BY <1>8, <2>2, FillExitKeeps
<1>10. Marked(v, b)
  <2>1. u.pos # NONE => Placed(u.pos)  BY <1>9, CarriedMoves DEF InBar
  <2>2. Traded(u, v, b, FALSE)  BY <1>3, <1>9, <2>1, IntrabarFields DEF InBar
  <2> QED  BY <1>9, <2>2, IntrabarKeeps
<1>11. Steady(y, b)
  <2>1. EntryDecided(v, x, b, b < N - 1, FALSE)
    <3>1. v \in Sims  BY <1>10 DEF Marked
    <3> QED  BY <1>4, <1>7, <3>1, DecideEntryFields
  <2>2. ExitChosen(x, y, b, b < N - 1)
    <3>1. x \in Sims  BY <2>1 DEF EntryDecided
    <3> QED  BY <1>5, <1>7, <3>1, DecideExitFields
  <2> QED  BY <1>10, <2>1, <2>2, DecisionsKeep
<1> QED  BY <1>6, <1>11

-----------------------------------------------------------------------------
(* A live simulation beside the backtest of the same bars. *)

Same(l, s) ==
    /\ l.pos = s.pos /\ l.cash = s.cash /\ l.entryAt = s.entryAt /\ l.exitAt = s.exitAt
    /\ l.tradeId = s.tradeId /\ l.trades = s.trades /\ l.history = s.history

\* What a live simulation knows of a signal at bar c.
Unknown(rec) == [rec EXCEPT !.pnl = NONE, !.resolvedBar = NONE]
View(rec, c) == IF rec.fired \/ Resolved(rec, c) THEN rec ELSE Unknown(rec)

Viewed(lsigs, sigs, c) ==
    /\ lsigs \in Seq(Signals) /\ Len(lsigs) = Len(sigs)
    /\ \A k \in 1..Len(sigs) : lsigs[k] = View(sigs[k], c)

\* The phantoms after bar b are those of the skipped signals with no outcome.
Ghost(ph, sigs, b) ==
    /\ \E k \in 1..Len(sigs) : sigs[k].bar = ph.bar /\ ~sigs[k].fired
    /\ PhantomWalk(ph.bar)[b].ph = ph /\ PhantomWalk(ph.bar)[b].pnl = NONE
Haunted(phs, bar) == \E i \in 1..Len(phs) : phs[i].bar = bar
PhantomsRight(phs, sigs, b) ==
    /\ phs \in Seq(Phantoms)
    /\ \A i \in 1..Len(phs) : Ghost(phs[i], sigs, b)
    /\ \A i, k \in 1..Len(phs) : i # k => phs[i].bar # phs[k].bar
    /\ \A k \in 1..Len(sigs) :
          ~sigs[k].fired /\ ~Resolved(sigs[k], b) => Haunted(phs, sigs[k].bar)

Matched(l, s, b) ==
    /\ l \in Sims /\ Same(l, s)
    /\ Viewed(l.signals, s.signals, b)
    /\ PhantomsRight(l.phantoms, s.signals, b)

LEMMA ViewTyped ==
    ASSUME NEW rec \in Signals, NEW c
    PROVE  /\ View(rec, c) \in Signals
           /\ View(rec, c).bar = rec.bar /\ View(rec, c).fired = rec.fired
           /\ Unknown(rec) \in Signals /\ Unknown(rec).pnl = NONE
           /\ Unknown(rec).resolvedBar = NONE
<1>1. /\ Unknown(rec) \in Signals /\ Unknown(rec).bar = rec.bar /\ Unknown(rec).fired = rec.fired
      /\ Unknown(rec).pnl = NONE /\ Unknown(rec).resolvedBar = NONE
  BY DEF Unknown, Signals, Levels
<1> QED  BY <1>1 DEF View

\* An entry that is filled, or not, in both.
LEMMA EntryMatched ==
    ASSUME NEW b, NEW s, NEW l, Same(l, s), NEW t, EntryFilled(s, t, b), NEW m, EntryFilled(l, m, b)
    PROVE  /\ m \in Sims /\ Same(m, t) /\ t.signals = s.signals
           /\ m.signals = l.signals /\ m.phantoms = l.phantoms
<1>1. CASE s.entryAt # NONE /\ s.pos = NONE
  BY <1>1 DEF EntryFilled, Same, KeepsRecords
<1>2. CASE s.entryAt = NONE \/ s.pos # NONE
  BY <1>2 DEF EntryFilled, Same, KeepsRecords
<1> QED  BY <1>1, <1>2

\* The signals after a resolution, whose skipped ones stay as they were.
Likewise(sigs, new) ==
    /\ Len(new) = Len(sigs)
    /\ \A k \in 1..Len(sigs) : /\ new[k].bar = sigs[k].bar /\ new[k].fired = sigs[k].fired
                               /\ ~sigs[k].fired => new[k] = sigs[k]

LEMMA PhantomsLikewise ==
    ASSUME NEW sigs, NEW new, Likewise(sigs, new), NEW phs, NEW b, PhantomsRight(phs, sigs, b)
    PROVE  PhantomsRight(phs, new, b)
<1>1. ASSUME NEW i \in 1..Len(phs)  PROVE Ghost(phs[i], new, b)
  <2>1. Ghost(phs[i], sigs, b)  BY DEF PhantomsRight
  <2> QED  BY <2>1 DEF Ghost, Likewise
<1>2. ASSUME NEW k \in 1..Len(new), ~new[k].fired, ~Resolved(new[k], b)
      PROVE  Haunted(phs, new[k].bar)
  <2>1. k \in 1..Len(sigs) /\ ~sigs[k].fired /\ new[k] = sigs[k]  BY <1>2 DEF Likewise
  <2> QED  BY <1>2, <2>1 DEF PhantomsRight
<1> QED  BY <1>1, <1>2 DEF PhantomsRight

\* The signal of the position that leaves is the last in both.
LEMMA ScoreMatched ==
    ASSUME Given, NEW b \in Int, NEW c \in Int, NEW s \in Sims, NEW raw \in Int, NEW d \in Int,
           Placed(s.pos), Awaited(s.signals, s.pos.entry), SignalsRight(s.signals, d),
           NEW l \in Sims, Same(l, s), Viewed(l.signals, s.signals, c)
    PROVE  /\ Viewed(Score(l, raw, b, TRUE), Score(s, raw, b, FALSE), c)
           /\ Likewise(s.signals, Score(s, raw, b, FALSE))
<1> DEFINE sigs == s.signals
           lsigs == l.signals
           e == s.pos.entry
           n == Len(sigs)
           pnl == PhantomReturn(s.pos, raw)
           new == ResolveAt(sigs, n, pnl, b)
           lnew == ResolveAt(lsigs, n, pnl, b)
<1>1. CASE ~TracksSignals
  <2>1. Score(s, raw, b, FALSE) = sigs /\ Score(l, raw, b, TRUE) = lsigs
    BY <1>1 DEF Score, BacktestScore, LiveScore
  <2>2. Likewise(sigs, sigs)  BY DEF Likewise
  <2> QED  BY <2>1, <2>2
<1>2. CASE TracksSignals
  <2>1. /\ sigs \in Seq(Signals) /\ n \in Nat /\ n > 0 /\ n \in 1..n
        /\ \A k \in 1..n : sigs[k] \in Signals /\ sigs[k].bar \in Int
        /\ sigs[n].fired /\ sigs[n].pnl = NONE /\ sigs[n].bar = e
        /\ \A i, k \in 1..n : i < k => sigs[i].bar < sigs[k].bar
    <3>1. sigs \in Seq(Signals) /\ \A i, k \in 1..n : i < k => sigs[i].bar < sigs[k].bar
      BY DEF SignalsRight
    <3>2. n > 0 /\ sigs[n].fired /\ sigs[n].pnl = NONE /\ sigs[n].bar = e  BY <1>2 DEF Awaited
    <3> HIDE DEF sigs, e
    <3>3. \A k \in 1..n : sigs[k] \in Signals  BY <3>1
    <3>4. \A k \in 1..n : sigs[k].bar \in Int  BY <3>3 DEF Signals
    <3> QED  BY <3>1, <3>2, <3>3, <3>4
  <2>2. pnl \in Int  BY ReturnTyped
  <2>3. /\ lsigs \in Seq(Signals) /\ Len(lsigs) = n /\ DOMAIN lsigs = 1..n
        /\ \A k \in 1..n : lsigs[k] = View(sigs[k], c)
    BY DEF Viewed
  <2>4. \A k \in 1..n : lsigs[k].bar = sigs[k].bar  BY <2>1, <2>3, ViewTyped
  <2>5. lsigs[n] = sigs[n]  BY <2>1, <2>3 DEF View
  <2>6. Score(s, raw, b, FALSE) = new
    <3>1. Max({i \in DOMAIN sigs : sigs[i].pnl = NONE}) = n
      <4> HIDE DEF sigs
      <4> QED  BY <2>1, LastIsPending
    <3> QED  BY <1>2, <3>1 DEF Score, BacktestScore, ResolveLastPending, PhantomReturn
  <2>7. Score(l, raw, b, TRUE) = lnew
    <3> DEFINE S == {i \in DOMAIN lsigs : lsigs[i].bar = e /\ lsigs[i].pnl = NONE}
    <3>1. S \in SUBSET Int /\ n \in S
      <4> HIDE DEF sigs, lsigs
      <4> QED  BY <2>1, <2>3, <2>5
    <3>2. \A i \in S : n <= i
      <4> SUFFICES ASSUME NEW i \in S, ~(n <= i)  PROVE FALSE  OBVIOUS
      <4>1. i \in 1..n /\ i < n /\ sigs[i].bar = e  BY <2>3, <2>4
      <4>2. sigs[i].bar < sigs[n].bar  BY <2>1, <4>1
      <4> QED  BY <2>1, <4>1, <4>2
    <3> HIDE DEF S
    <3>3. Min(S) = n  BY <3>1, <3>2, MinIs
    <3>4. l.pos = s.pos  BY DEF Same
    <3> QED  BY <1>2, <3>3, <3>4 DEF Score, LiveScore, Resolve, PhantomReturn, S
  <2> HIDE DEF sigs, lsigs, pnl, e
  <2>8. ResolvedAt(sigs, new, n, pnl, b) /\ ResolvedAt(lsigs, lnew, n, pnl, b)
    BY <2>1, <2>2, <2>3, ResolveAtFields
  <2> HIDE DEF new, lnew
  <2>9. ASSUME NEW k \in 1..n  PROVE lnew[k] = View(new[k], c)
    <3>1. CASE k # n
      <4>1. lnew[k] = lsigs[k] /\ new[k] = sigs[k]  BY <2>3, <2>8, <3>1 DEF ResolvedAt
      <4> QED  BY <2>3, <4>1
    <3>2. CASE k = n
      <4>1. /\ lnew[n].bar = sigs[n].bar /\ lnew[n].fired = sigs[n].fired
            /\ lnew[n].pnl = pnl /\ lnew[n].resolvedBar = b
            /\ new[n].bar = sigs[n].bar /\ new[n].fired = sigs[n].fired
            /\ new[n].pnl = pnl /\ new[n].resolvedBar = b
        BY <2>1, <2>3, <2>5, <2>8 DEF ResolvedAt
      <4>2. lnew[n] \in Signals /\ new[n] \in Signals
        <5>1. /\ new \in Seq(Signals) /\ Len(new) = n /\ lnew \in Seq(Signals) /\ Len(lnew) = n
          BY <2>3, <2>8 DEF ResolvedAt
        <5> HIDE DEF n
        <5> QED  BY <2>1, <5>1
      <4>3. lnew[n] = new[n]  BY <4>1, <4>2 DEF Signals
      <4>4. new[n].fired  BY <2>1, <4>1
      <4> QED  BY <3>2, <4>3, <4>4 DEF View
    <3> QED  BY <3>1, <3>2
  <2>10. Viewed(lnew, new, c)  BY <2>3, <2>8, <2>9 DEF Viewed, ResolvedAt
  <2>11. Likewise(sigs, new)
    <3>1. ASSUME NEW k \in 1..n
          PROVE  /\ new[k].bar = sigs[k].bar /\ new[k].fired = sigs[k].fired
                 /\ ~sigs[k].fired => new[k] = sigs[k]
      BY <2>1, <2>8 DEF ResolvedAt
    <3> QED  BY <2>8, <3>1 DEF Likewise, ResolvedAt
  <2> QED  BY <2>6, <2>7, <2>10, <2>11 DEF sigs
<1> QED  BY <1>1, <1>2

\* Both loops close the position.
LEMMA CloseMatched ==
    ASSUME NEW s, NEW l, Same(l, s), NEW x, NEW raw, NEW reason, NEW sigs, NEW lsigs,
           NEW t, ClosedBy(s, t, x, raw, reason, sigs), NEW m, ClosedBy(l, m, x, raw, reason, lsigs),
           m.exitAt = t.exitAt
    PROVE  /\ m \in Sims /\ Same(m, t) /\ t.signals = sigs
           /\ m.signals = lsigs /\ m.phantoms = l.phantoms
  BY DEF ClosedBy, Same

LEMMA ExitMatched ==
    ASSUME Given, NEW b \in 0..(N - 1), NEW s, InBar(s, b, b - 1),
           NEW l, Matched(l, s, b - 1), NEW t, ExitFilled(s, t, b, FALSE), NEW m, ExitFilled(l, m, b, TRUE)
    PROVE  Matched(m, t, b - 1)
<1>1. /\ b \in Int /\ b - 1 \in Int /\ s \in Sims /\ l \in Sims /\ Same(l, s)
      /\ Viewed(l.signals, s.signals, b - 1) /\ PhantomsRight(l.phantoms, s.signals, b - 1)
  BY DEF InBar, Matched
<1>2. l.exitAt = s.exitAt /\ l.pos = s.pos  BY <1>1 DEF Same
<1>3. CASE s.exitAt = NONE \/ s.pos = NONE
  <2>1. t = s /\ m = l  BY <1>2, <1>3 DEF ExitFilled
  <2> QED  BY <2>1
<1>4. CASE s.exitAt # NONE /\ s.pos # NONE
  <2> DEFINE raw == Price(bars[b].open)
             sigs == Score(s, raw, b, FALSE)
             lsigs == Score(l, raw, b, TRUE)
  <2>1. /\ ClosedBy(s, t, s.exitAt, raw, "signal", sigs) /\ t.exitAt = NONE
        /\ ClosedBy(l, m, s.exitAt, raw, "signal", lsigs) /\ m.exitAt = NONE
    BY <1>2, <1>4 DEF ExitFilled
  <2>2. /\ Carried(s.pos, s.exitAt, b) /\ Awaited(s.signals, s.pos.entry)
        /\ SignalsRight(s.signals, b - 1)
    BY <1>4 DEF InBar
  <2>3. Placed(s.pos)  BY <2>2, CarriedMoves
  <2>4. raw \in Int  BY BarPrices
  <2> HIDE DEF raw
  <2>5. Viewed(lsigs, sigs, b - 1) /\ Likewise(s.signals, sigs)
    BY <1>1, <2>2, <2>3, <2>4, ScoreMatched
  <2> HIDE DEF sigs, lsigs
  <2>6. /\ m \in Sims /\ Same(m, t) /\ t.signals = sigs
        /\ m.signals = lsigs /\ m.phantoms = l.phantoms
    BY <1>1, <2>1, CloseMatched
  <2>7. PhantomsRight(m.phantoms, t.signals, b - 1)
    BY <1>1, <2>5, <2>6, PhantomsLikewise
  <2> QED  BY <2>5, <2>6, <2>7 DEF Matched
<1> QED  BY <1>3, <1>4

LEMMA BarMatched ==
    ASSUME Given, NEW b \in 0..(N - 1), NEW s, InBar(s, b, b), s.exitAt = NONE,
           NEW l, Matched(l, s, b - 1), NEW t, Traded(s, t, b, FALSE), NEW m, Traded(l, m, b, TRUE)
    PROVE  Matched(m, t, b - 1)
<1>1. /\ b \in Int /\ b - 1 \in Int /\ s \in Sims /\ l \in Sims /\ Same(l, s)
      /\ Viewed(l.signals, s.signals, b - 1) /\ PhantomsRight(l.phantoms, s.signals, b - 1)
  BY DEF InBar, Matched
<1>2. l.exitAt = s.exitAt /\ l.pos = s.pos  BY <1>1 DEF Same
<1>3. CASE s.pos = NONE
  <2>1. t = s /\ m = l  BY <1>2, <1>3 DEF Traded
  <2> QED  BY <2>1
<1> DEFINE h == IntrabarExit(s.pos, b)
<1>4. CASE s.pos # NONE /\ h # NONE
  <2> DEFINE sigs == Score(s, h.raw, b, FALSE)
             lsigs == Score(l, h.raw, b, TRUE)
  <2>1. /\ ClosedBy(s, t, b, h.raw, h.reason, sigs) /\ t.exitAt = s.exitAt
        /\ ClosedBy(l, m, b, h.raw, h.reason, lsigs) /\ m.exitAt = l.exitAt
    BY <1>2, <1>4 DEF Traded
  <2>2. /\ Carried(s.pos, s.exitAt, b) /\ Awaited(s.signals, s.pos.entry)
        /\ SignalsRight(s.signals, b)
    BY <1>4 DEF InBar
  <2>3. Placed(s.pos)  BY <2>2, CarriedMoves
  <2>4. h \in Exits  BY <1>4, <2>3, IntrabarExitTyped
  <2> HIDE DEF h
  <2>5. h.raw \in Int  BY <2>4 DEF Exits
  <2>6. Viewed(lsigs, sigs, b - 1) /\ Likewise(s.signals, sigs)
    BY <1>1, <2>2, <2>3, <2>5, ScoreMatched
  <2> HIDE DEF sigs, lsigs
  <2>7. /\ m \in Sims /\ Same(m, t) /\ t.signals = sigs
        /\ m.signals = lsigs /\ m.phantoms = l.phantoms
    BY <1>1, <1>2, <2>1, CloseMatched
  <2>8. PhantomsRight(m.phantoms, t.signals, b - 1)
    BY <1>1, <2>6, <2>7, PhantomsLikewise
  <2> QED  BY <2>6, <2>7, <2>8 DEF Matched
<1>5. CASE s.pos # NONE /\ h = NONE
  <2>1. /\ t.signals = s.signals /\ m.signals = l.signals /\ m.phantoms = l.phantoms
        /\ m \in Sims /\ Same(m, t)
    BY <1>1, <1>2, <1>5 DEF Traded, KeepsRecords, Same
  <2> QED  BY <1>1, <2>1 DEF Matched
<1> QED  BY <1>3, <1>4, <1>5

-----------------------------------------------------------------------------
(* The phantoms of a live simulation, one bar on. *)

OneAdvanced(s, ph, b) ==
    LET r == AdvancePhantom(ph, b) IN
    IF r.pnl = NONE THEN [s EXCEPT !.phantoms = Append(@, r.ph)]
    ELSE [s EXCEPT !.signals = Resolve(@, ph.bar, r.pnl, r.resolvedBar)]
Unhaunted(l) == [l EXCEPT !.phantoms = <<>>]
AdvanceRun(g, l, b) ==
    g = [i \in 0..Len(l.phantoms) |->
            IF i = 0 THEN Unhaunted(l) ELSE OneAdvanced(g[i - 1], l.phantoms[i], b)]

\* The signal of a phantom, before bar b and after the phantom's outcome r there.
Wakes(r, rec, b) ==
    /\ rec \in Signals /\ ~rec.fired /\ ~Resolved(rec, b - 1)
    /\ r.pnl = NONE => ~Resolved(rec, b)
    /\ r.pnl # NONE => /\ r.pnl \in Int /\ r.resolvedBar \in Int
                       /\ rec.pnl = r.pnl /\ rec.resolvedBar = r.resolvedBar /\ Resolved(rec, b)
Stirred(ph, r, sigs, b) ==
    /\ PhantomWalk(ph.bar)[b] = r /\ r \in Outcomes /\ r.ph.bar = ph.bar /\ ph.bar \in Int
    /\ r.pnl # NONE => r.pnl \in Int /\ r.resolvedBar \in Int
    /\ \E k \in 1..Len(sigs) : sigs[k].bar = ph.bar /\ Wakes(r, sigs[k], b)

LEMMA GhostMoves ==
    ASSUME Given, NEW b \in 0..(N - 2), NEW sigs, SignalsRight(sigs, b), Older(sigs, b),
           NEW ph, Ghost(ph, sigs, b - 1)
    PROVE  Stirred(ph, AdvancePhantom(ph, b), sigs, b)
<1>1. PICK k \in 1..Len(sigs) : sigs[k].bar = ph.bar /\ ~sigs[k].fired
  BY DEF Ghost
<1>2. PICK e : e = ph.bar  OBVIOUS
<1>3. PICK w : w = PhantomWalk(e)  OBVIOUS
<1>4. PICK rec : rec = sigs[k]  OBVIOUS
<1>5. rec \in Signals /\ SignalRight(rec, b) /\ rec.bar < b
  <2>1. sigs \in Seq(Signals) /\ SignalRight(sigs[k], b)  BY <1>1 DEF SignalsRight
  <2>2. sigs[k] \in Signals  BY <1>1, <2>1
  <2>3. sigs[k].bar < b  BY <1>1 DEF Older
  <2> QED  BY <1>4, <2>1, <2>2, <2>3
<1>6. e = rec.bar /\ ~rec.fired  BY <1>1, <1>2, <1>4
<1>7. /\ e \in 0..(N - 2) /\ e < b
      /\ rec.pnl = Phantom(e).pnl /\ rec.resolvedBar = Phantom(e).resolvedBar
  BY <1>5, <1>6 DEF SignalRight
<1>8. /\ e \in 0..(N - 1) /\ b \in (e + 1)..(N - 1) /\ b \in e..(N - 1) /\ b - 1 \in e..(N - 1)
      /\ b # N - 1 /\ b - 1 # N - 1 /\ b \in Int /\ b - 1 \in Int /\ e \in Int /\ b # e
  BY <1>7, BarNumbers
<1>9. w[b - 1].ph = ph /\ w[b - 1].pnl = NONE  BY <1>2, <1>3 DEF Ghost
<1>10. PICK r : r = AdvancePhantom(ph, b)  OBVIOUS
<1>11. w[b] = r
  <2>1. w[b] = Moved(w[b - 1], b)  BY <1>3, <1>8, WalkSteps
  <2> QED  BY <1>9, <1>10, <2>1 DEF Moved
<1>12. Walking(r, e, b)  BY <1>3, <1>8, <1>11, WalksTyped
<1>13. r \in Outcomes /\ r.ph.bar = e  BY <1>12 DEF Walking
<1>14. r.pnl # NONE => r.pnl \in Int /\ r.resolvedBar \in Int /\ r.resolvedBar <= b
  <2>1. r.pnl \in Levels  BY <1>13 DEF Outcomes
  <2> QED  BY <1>8, <1>12, <2>1 DEF Walking, Levels
<1>15. /\ Phantom(e).resolvedBar \in Int /\ Phantom(e).resolvedBar > b - 1
       /\ r.pnl # NONE => Phantom(e).pnl = r.pnl /\ Phantom(e).resolvedBar = r.resolvedBar
       /\ r.pnl = NONE => Phantom(e).resolvedBar > b
  <2>1. Phantom(e).resolvedBar \in Int /\ Phantom(e).resolvedBar > b - 1
    BY <1>3, <1>7, <1>8, <1>9, PhantomIs
  <2>2. /\ r.pnl # NONE => Phantom(e).pnl = r.pnl /\ Phantom(e).resolvedBar = r.resolvedBar
        /\ r.pnl = NONE => Phantom(e).resolvedBar > b
    BY <1>3, <1>7, <1>8, <1>11, PhantomIs
  <2> QED  BY <2>1, <2>2
<1>16. Wakes(r, rec, b)
  <2>1. rec.resolvedBar \in Int /\ rec.resolvedBar # NONE /\ rec.resolvedBar > b - 1
    BY <1>7, <1>15, NotNone
  <2>2. ~Resolved(rec, b - 1)  BY <1>8, <2>1 DEF Resolved
  <2>3. r.pnl = NONE => ~Resolved(rec, b)  BY <1>7, <1>8, <1>15, <2>1 DEF Resolved
  <2>4. r.pnl # NONE => Resolved(rec, b)  BY <1>7, <1>14, <1>15, <2>1 DEF Resolved
  <2> QED  BY <1>5, <1>6, <1>7, <1>14, <1>15, <2>2, <2>3, <2>4 DEF Wakes
<1> QED  BY <1>1, <1>2, <1>3, <1>4, <1>8, <1>10, <1>11, <1>13, <1>14, <1>16 DEF Stirred

\* The fields after one phantom.
Resolving(s, t, ph, r) ==
    /\ t \in Sims /\ Same(t, s)
    /\ r.pnl = NONE => t.signals = s.signals /\ t.phantoms = Append(s.phantoms, r.ph)
    /\ r.pnl # NONE => /\ t.signals = Resolve(s.signals, ph.bar, r.pnl, r.resolvedBar)
                       /\ t.phantoms = s.phantoms

LEMMA OneFields ==
    ASSUME NEW s \in Sims, NEW ph, NEW b, NEW sigs, Stirred(ph, AdvancePhantom(ph, b), sigs, b)
    PROVE  Resolving(s, OneAdvanced(s, ph, b), ph, AdvancePhantom(ph, b))
<1>1. PICK r : r = AdvancePhantom(ph, b)  OBVIOUS
<1>2. r \in Outcomes /\ (r.pnl # NONE => r.pnl \in Int /\ r.resolvedBar \in Int)
  BY <1>1 DEF Stirred
<1>3. PICK t : t = OneAdvanced(s, ph, b)  OBVIOUS
<1>4. s.signals \in Seq(Signals) /\ s.phantoms \in Seq(Phantoms)  BY DEF Sims
<1>5. CASE r.pnl = NONE
  <2>1. PICK phs : phs = Append(s.phantoms, r.ph)  OBVIOUS
  <2>2. t = [s EXCEPT !.phantoms = phs]  BY <1>1, <1>3, <1>5, <2>1 DEF OneAdvanced
  <2>3. phs \in Seq(Phantoms)
    <3>1. r.ph \in Phantoms  BY <1>2 DEF Outcomes
    <3> QED  BY <1>4, <2>1, <3>1, AppendProperties
  <2>4. t \in Sims /\ Same(t, s) /\ t.signals = s.signals /\ t.phantoms = phs
    BY <2>2, <2>3 DEF Sims, Same
  <2> QED  BY <1>1, <1>3, <1>5, <2>1, <2>4 DEF Resolving
<1>6. CASE r.pnl # NONE
  <2>1. PICK new : new = Resolve(s.signals, ph.bar, r.pnl, r.resolvedBar)  OBVIOUS
  <2>2. t = [s EXCEPT !.signals = new]  BY <1>1, <1>3, <1>6, <2>1 DEF OneAdvanced
  <2>3. new \in Seq(Signals)
    BY <1>2, <1>4, <1>6, <2>1, ResolveAtFields DEF Resolve, ResolvedAt
  <2>4. t \in Sims /\ Same(t, s) /\ t.signals = new /\ t.phantoms = s.phantoms
    BY <2>2, <2>3 DEF Sims, Same
  <2> QED  BY <1>1, <1>3, <1>6, <2>1, <2>4 DEF Resolving
<1> QED  BY <1>1, <1>3, <1>5, <1>6

\* The states after each phantom, the last of which AdvancePhantoms returns.
Advancing(g, l, b) ==
    /\ g \in [0..Len(l.phantoms) -> Sims] /\ g[0] = Unhaunted(l)
    /\ \A i \in 1..Len(l.phantoms) : g[i] = OneAdvanced(g[i - 1], l.phantoms[i], b)
    /\ AdvancePhantoms(l, b) = g[Len(l.phantoms)]

LEMMA AdvanceRuns ==
    ASSUME NEW b, NEW sigs, NEW l \in Sims,
           \A i \in 1..Len(l.phantoms) :
              Stirred(l.phantoms[i], AdvancePhantom(l.phantoms[i], b), sigs, b)
    PROVE  \E g : Advancing(g, l, b)
<1> DEFINE phs == l.phantoms
           n == Len(phs)
           run == CHOOSE g : AdvanceRun(g, l, b)
           T == [i \in 1..n |-> [s \in Sims |-> OneAdvanced(s, phs[i], b)]]
<1>1. phs \in Seq(Phantoms) /\ n \in Nat
  <2>1. phs \in Seq(Phantoms)  BY DEF Sims
  <2> QED  BY <2>1
<1>2. AdvancePhantoms(l, b) = run[n]
  BY Zenon DEF AdvancePhantoms, AdvanceRun, OneAdvanced, Unhaunted
<1>3. ASSUME NEW s \in Sims, NEW i \in 1..n  PROVE OneAdvanced(s, phs[i], b) \in Sims
  <2>1. Stirred(phs[i], AdvancePhantom(phs[i], b), sigs, b)  OBVIOUS
  <2> QED  BY <2>1, OneFields DEF Resolving
<1>4. Unhaunted(l) \in Sims
  <2>1. <<>> \in Seq(Phantoms)  OBVIOUS
  <2> QED  BY <2>1 DEF Unhaunted, Sims
<1> HIDE DEF n, phs
<1>5. T \in [1..n -> [Sims -> Sims]]  BY <1>3
<1>6. \A i \in 1..n, s \in Sims : T[i][s] = OneAdvanced(s, phs[i], b)  OBVIOUS
<1> HIDE DEF T, run
<1>7. PICK g : Stepping(g, n, Sims, Unhaunted(l), T)  BY <1>1, <1>4, <1>5, StepsExist
<1>8. \A i \in 0..n : g[i] = IF i = 0 THEN Unhaunted(l) ELSE OneAdvanced(g[i - 1], phs[i], b)
  <2> TAKE i \in 0..n
  <2>1. CASE i = 0  BY <1>7, <2>1 DEF Stepping
  <2>2. CASE i # 0
    <3>1. i \in 1..n /\ i - 1 \in 0..n  BY <1>1, <2>2
    <3>2. g[i - 1] \in Sims /\ g[i] = T[i][g[i - 1]]  BY <1>7, <3>1 DEF Stepping
    <3> QED  BY <1>6, <2>2, <3>1, <3>2
  <2> QED  BY <2>1, <2>2
<1>9. AdvanceRun(g, l, b)
  <2>1. g = [i \in 0..n |-> g[i]]  BY <1>7 DEF Stepping
  <2>2. g = [i \in 0..n |-> IF i = 0 THEN Unhaunted(l) ELSE OneAdvanced(g[i - 1], phs[i], b)]
    BY <1>8, <2>1
  <2> QED  BY <2>2 DEF AdvanceRun, n, phs
<1>10. AdvanceRun(run, l, b)  BY <1>9 DEF run
<1>11. /\ run = [i \in 0..n |-> run[i]] /\ run[0] = Unhaunted(l)
       /\ \A i \in 1..n : run[i] = OneAdvanced(run[i - 1], phs[i], b)
  BY <1>1, <1>10 DEF AdvanceRun, n, phs
<1>12. \A i \in 1..n : run[i - 1] \in Sims => run[i] = T[i][run[i - 1]]
  BY <1>6, <1>11
<1>13. Stepping(run, n, Sims, Unhaunted(l), T)  BY <1>1, <1>4, <1>5, <1>11, <1>12, StepsTyped
<1>14. run \in [0..n -> Sims]  BY <1>13 DEF Stepping
<1>15. Advancing(run, l, b)  BY <1>2, <1>11, <1>14 DEF Advancing, n, phs
<1> QED  BY <1>15

\* Whether one of the first i phantoms is of the signal at bar.
Visited(phs, i, bar) == \E q \in 1..i : phs[q].bar = bar

\* A live simulation after the first i phantoms of l moved by bar b.
Advanced(m, l, sigs, b, i) ==
    /\ m \in Sims /\ Same(m, l) /\ Len(m.signals) = Len(sigs)
    /\ \A k \in 1..Len(sigs) :
          m.signals[k] = View(sigs[k], IF Visited(l.phantoms, i, sigs[k].bar) THEN b ELSE b - 1)
    /\ \A j \in 1..Len(m.phantoms) :
          Ghost(m.phantoms[j], sigs, b) /\ Visited(l.phantoms, i, m.phantoms[j].bar)
    /\ \A j, k \in 1..Len(m.phantoms) : j # k => m.phantoms[j].bar # m.phantoms[k].bar
    /\ \A q \in 1..i :
          PhantomWalk(l.phantoms[q].bar)[b].pnl = NONE => Haunted(m.phantoms, l.phantoms[q].bar)

\* The first i phantoms and the next one.
LEMMA VisitedNext ==
    ASSUME NEW phs, NEW i \in Nat \ {0}, NEW bar
    PROVE  Visited(phs, i, bar) <=> Visited(phs, i - 1, bar) \/ phs[i].bar = bar
<1>1. \A q : q \in 1..i <=> q \in 1..(i - 1) \/ q = i  OBVIOUS
<1> QED  BY <1>1 DEF Visited

\* A phantom that goes on.
LEMMA AdvancedStays ==
    ASSUME Given, NEW b \in 0..(N - 2), NEW sigs \in Seq(Signals), NEW l, NEW i \in 1..Len(l.phantoms),
           Len(l.phantoms) \in Nat,
           \A j, k \in 1..Len(l.phantoms) : j # k => l.phantoms[j].bar # l.phantoms[k].bar,
           NEW s, Advanced(s, l, sigs, b, i - 1), NEW r, Stirred(l.phantoms[i], r, sigs, b),
           r.pnl = NONE, NEW t, Resolving(s, t, l.phantoms[i], r),
           \A j, k \in 1..Len(sigs) : sigs[j].bar = sigs[k].bar => j = k
    PROVE  Advanced(t, l, sigs, b, i)
<1>1. PICK ph : ph = l.phantoms[i]  OBVIOUS
<1>2. PICK phs : phs = l.phantoms  OBVIOUS
<1>3. /\ t \in Sims /\ Same(t, l) /\ t.signals = s.signals /\ t.phantoms = Append(s.phantoms, r.ph)
      /\ s \in Sims
  BY DEF Resolving, Advanced, Same
<1>4. s.phantoms \in Seq(Phantoms)  BY <1>3 DEF Sims
<1>5. PICK n : n = Len(s.phantoms)  OBVIOUS
<1>6. /\ n \in Nat /\ Len(t.phantoms) = n + 1 /\ t.phantoms[n + 1] = r.ph
      /\ \A j \in 1..n : t.phantoms[j] = s.phantoms[j]
  BY <1>3, <1>4, <1>5, AppendProperties
<1>7. /\ r.ph.bar = ph.bar /\ PhantomWalk(ph.bar)[b] = r
      /\ \E k \in 1..Len(sigs) : sigs[k].bar = ph.bar /\ Wakes(r, sigs[k], b)
  BY <1>1 DEF Stirred
<1>8. PICK k0 \in 1..Len(sigs) : sigs[k0].bar = ph.bar /\ Wakes(r, sigs[k0], b)  BY <1>7
<1>9. i \in Nat \ {0} /\ i - 1 \in Nat /\ 1..(i - 1) \subseteq 1..Len(phs)
  BY <1>2
<1>10. ~Visited(phs, i - 1, ph.bar)
  BY <1>1, <1>2, <1>9 DEF Visited
<1>11. \A bar : Visited(phs, i, bar) <=> Visited(phs, i - 1, bar) \/ ph.bar = bar
  BY <1>1, <1>2, <1>9, VisitedNext
<1>12. ASSUME NEW k \in 1..Len(sigs)
       PROVE  t.signals[k] = View(sigs[k], IF Visited(phs, i, sigs[k].bar) THEN b ELSE b - 1)
  <2>1. s.signals[k] = View(sigs[k], IF Visited(phs, i - 1, sigs[k].bar) THEN b ELSE b - 1)
    BY <1>2 DEF Advanced
  <2>2. CASE sigs[k].bar # ph.bar
    BY <1>3, <1>11, <2>1, <2>2
  <2>3. CASE sigs[k].bar = ph.bar
    <3>1. k = k0  BY <1>8, <2>3
    <3>2. ~sigs[k].fired /\ ~Resolved(sigs[k], b - 1) /\ ~Resolved(sigs[k], b)
      BY <1>8, <3>1 DEF Wakes
    <3>3. View(sigs[k], b - 1) = View(sigs[k], b)  BY <3>2 DEF View
    <3>4. s.signals[k] = View(sigs[k], b - 1)  BY <1>10, <2>1, <2>3
    <3>5. Visited(phs, i, sigs[k].bar)  BY <1>11, <2>3
    <3> QED  BY <1>3, <3>3, <3>4, <3>5
  <2> QED  BY <2>2, <2>3
<1>13. ASSUME NEW j \in 1..(n + 1)
       PROVE  Ghost(t.phantoms[j], sigs, b) /\ Visited(phs, i, t.phantoms[j].bar)
  <2>1. CASE j = n + 1
    <3>1. PhantomWalk(r.ph.bar)[b].ph = r.ph /\ PhantomWalk(r.ph.bar)[b].pnl = NONE  BY <1>7
    <3>2. sigs[k0].bar = r.ph.bar /\ ~sigs[k0].fired  BY <1>7, <1>8 DEF Wakes
    <3>3. Ghost(r.ph, sigs, b)  BY <3>1, <3>2 DEF Ghost
    <3>4. Visited(phs, i, r.ph.bar)  BY <1>7, <1>11
    <3> QED  BY <1>6, <2>1, <3>3, <3>4
  <2>2. CASE j # n + 1
    <3>1. j \in 1..n  BY <1>6, <2>2
    <3>2. Ghost(s.phantoms[j], sigs, b) /\ Visited(phs, i - 1, s.phantoms[j].bar)
      BY <1>2, <1>5, <3>1 DEF Advanced
    <3> QED  BY <1>6, <1>11, <3>1, <3>2
  <2> QED  BY <2>1, <2>2
<1>14. ASSUME NEW j \in 1..(n + 1), NEW k \in 1..(n + 1), j # k
       PROVE  t.phantoms[j].bar # t.phantoms[k].bar
  <2>1. \A x \in 1..n : t.phantoms[x].bar # ph.bar
    <3> TAKE x \in 1..n
    <3>1. Visited(phs, i - 1, s.phantoms[x].bar)  BY <1>2, <1>5 DEF Advanced
    <3> QED  BY <1>6, <1>10, <3>1
  <2>2. CASE j \in 1..n /\ k \in 1..n
    <3>1. s.phantoms[j].bar # s.phantoms[k].bar  BY <1>5, <1>14, <2>2 DEF Advanced
    <3> QED  BY <1>6, <2>2, <3>1
  <2>3. CASE ~(j \in 1..n /\ k \in 1..n)
    <3>1. (j = n + 1 /\ k \in 1..n) \/ (k = n + 1 /\ j \in 1..n)  BY <1>6, <1>14, <2>3
    <3>2. t.phantoms[n + 1].bar = ph.bar  BY <1>6, <1>7
    <3>3. \A x \in 1..n : t.phantoms[x].bar # t.phantoms[n + 1].bar  BY <2>1, <3>2
    <3>4. CASE j = n + 1 /\ k \in 1..n
      <4>1. t.phantoms[k].bar # t.phantoms[n + 1].bar  BY <3>3, <3>4
      <4> QED  BY <3>4, <4>1
    <3>5. CASE k = n + 1 /\ j \in 1..n
      <4>1. t.phantoms[j].bar # t.phantoms[n + 1].bar  BY <3>3, <3>5
      <4> QED  BY <3>5, <4>1
    <3> QED  BY <3>1, <3>4, <3>5
  <2> QED  BY <2>2, <2>3
<1>15. ASSUME NEW q \in 1..i, PhantomWalk(phs[q].bar)[b].pnl = NONE
       PROVE  Haunted(t.phantoms, phs[q].bar)
  <2>1. CASE q = i
    <3>1. n + 1 \in 1..(n + 1)  BY <1>6
    <3>2. t.phantoms[n + 1].bar = phs[q].bar  BY <1>1, <1>2, <1>6, <1>7, <2>1
    <3>3. Len(t.phantoms) = n + 1  BY <1>6
    <3> QED  BY <3>1, <3>2, <3>3 DEF Haunted
  <2>2. CASE q # i
    <3>1. q \in 1..(i - 1)  BY <1>9, <2>2
    <3>2. Haunted(s.phantoms, phs[q].bar)  BY <1>2, <1>15, <3>1 DEF Advanced
    <3>3. PICK x \in 1..n : s.phantoms[x].bar = phs[q].bar  BY <1>5, <3>2 DEF Haunted
    <3>4. x \in 1..(n + 1) /\ t.phantoms[x].bar = phs[q].bar  BY <1>6, <3>3
    <3> QED  BY <1>6, <3>4 DEF Haunted
  <2> QED  BY <2>1, <2>2
<1>16. Len(t.signals) = Len(sigs)  BY <1>3 DEF Advanced
<1> QED  BY <1>2, <1>3, <1>6, <1>12, <1>13, <1>14, <1>15, <1>16 DEF Advanced

LEMMA SignalsEqual ==
    ASSUME NEW x \in Signals, NEW y \in Signals, x.bar = y.bar, x.fired = y.fired,
           x.pnl = y.pnl, x.resolvedBar = y.resolvedBar
    PROVE  x = y
  BY DEF Signals

\* A phantom that exits.
LEMMA AdvancedResolves ==
    ASSUME Given, NEW b \in 0..(N - 2), NEW sigs \in Seq(Signals), NEW l, NEW i \in 1..Len(l.phantoms),
           Len(l.phantoms) \in Nat,
           \A j, k \in 1..Len(l.phantoms) : j # k => l.phantoms[j].bar # l.phantoms[k].bar,
           NEW s, Advanced(s, l, sigs, b, i - 1), NEW r, Stirred(l.phantoms[i], r, sigs, b),
           r.pnl # NONE, NEW t, Resolving(s, t, l.phantoms[i], r),
           \A j, k \in 1..Len(sigs) : sigs[j].bar = sigs[k].bar => j = k
    PROVE  Advanced(t, l, sigs, b, i)
<1>1. PICK ph : ph = l.phantoms[i]  OBVIOUS
<1>2. PICK phs : phs = l.phantoms  OBVIOUS
<1>3. /\ t \in Sims /\ Same(t, l) /\ t.phantoms = s.phantoms /\ s \in Sims
      /\ t.signals = Resolve(s.signals, ph.bar, r.pnl, r.resolvedBar)
  BY <1>1 DEF Resolving, Advanced, Same
<1>4. s.signals \in Seq(Signals) /\ t.signals \in Seq(Signals)  BY <1>3 DEF Sims
<1>5. PICK n : n = Len(sigs)  OBVIOUS
<1>6. n \in Nat /\ Len(s.signals) = n /\ DOMAIN s.signals = 1..n
  <2>1. Len(s.signals) = n  BY <1>5 DEF Advanced
  <2> QED  BY <1>4, <2>1
<1>7. /\ PhantomWalk(ph.bar)[b] = r /\ r.pnl \in Int /\ r.resolvedBar \in Int
      /\ \E k \in 1..Len(sigs) : sigs[k].bar = ph.bar /\ Wakes(r, sigs[k], b)
  BY <1>1 DEF Stirred
<1>8. PICK k0 \in 1..n : sigs[k0].bar = ph.bar /\ Wakes(r, sigs[k0], b)  BY <1>5, <1>7
<1>9. /\ sigs[k0] \in Signals /\ ~sigs[k0].fired /\ ~Resolved(sigs[k0], b - 1)
      /\ sigs[k0].pnl = r.pnl /\ sigs[k0].resolvedBar = r.resolvedBar /\ Resolved(sigs[k0], b)
  BY <1>8 DEF Wakes
<1>10. i \in Nat \ {0} /\ i - 1 \in Nat /\ 1..(i - 1) \subseteq 1..Len(phs)
  BY <1>2
<1>11. ~Visited(phs, i - 1, ph.bar)
  BY <1>1, <1>2, <1>10 DEF Visited
<1>12. \A bar : Visited(phs, i, bar) <=> Visited(phs, i - 1, bar) \/ ph.bar = bar
  BY <1>1, <1>2, <1>10, VisitedNext
<1>13. \A k \in 1..n : s.signals[k] = View(sigs[k], IF Visited(phs, i - 1, sigs[k].bar) THEN b ELSE b - 1)
  BY <1>2, <1>5 DEF Advanced
<1>14. \A k \in 1..n : sigs[k] \in Signals /\ s.signals[k].bar = sigs[k].bar
  <2> TAKE k \in 1..n
  <2>1. sigs[k] \in Signals  BY <1>5
  <2> QED  BY <1>13, <2>1, ViewTyped
<1>15. s.signals[k0] = Unknown(sigs[k0])
  <2>1. s.signals[k0] = View(sigs[k0], b - 1)  BY <1>8, <1>11, <1>13
  <2> QED  BY <1>9, <2>1 DEF View
<1>16. s.signals[k0].pnl = NONE /\ s.signals[k0].fired = sigs[k0].fired
  <2>1. s.signals[k0].pnl = NONE
    <3>1. Unknown(sigs[k0]).pnl = NONE  BY <1>9 DEF Unknown, Signals
    <3> QED  BY <1>15, <3>1, Zenon
  <2>2. s.signals[k0].fired = sigs[k0].fired  BY <1>8, <1>9, <1>13, ViewTyped
  <2> QED  BY <2>1, <2>2
<1>17. t.signals = ResolveAt(s.signals, k0, r.pnl, r.resolvedBar)
  <2> DEFINE S == {k \in DOMAIN s.signals : s.signals[k].bar = ph.bar /\ s.signals[k].pnl = NONE}
  <2>1. S \in SUBSET Int /\ k0 \in S
    BY <1>6, <1>8, <1>14, <1>16
  <2>2. \A k \in S : k0 <= k
    <3> TAKE k \in S
    <3>1. k \in 1..n /\ sigs[k].bar = ph.bar  BY <1>6, <1>14
    <3>2. k = k0  BY <1>5, <1>8, <3>1
    <3> QED  BY <1>6, <3>2
  <2> HIDE DEF S
  <2>3. Min(S) = k0  BY <2>1, <2>2, MinIs
  <2> QED  BY <1>3, <2>3 DEF Resolve, S
<1>18. ResolvedAt(s.signals, t.signals, k0, r.pnl, r.resolvedBar)
  BY <1>4, <1>7, <1>17, ResolveAtFields
<1>19. t.signals[k0] = sigs[k0]
  <2>1. /\ t.signals[k0].bar = sigs[k0].bar /\ t.signals[k0].fired = sigs[k0].fired
        /\ t.signals[k0].pnl = sigs[k0].pnl /\ t.signals[k0].resolvedBar = sigs[k0].resolvedBar
        /\ Len(t.signals) = n
    BY <1>6, <1>8, <1>9, <1>14, <1>16, <1>18 DEF ResolvedAt
  <2>2. t.signals[k0] \in Signals  BY <1>4, <2>1
  <2> QED  BY <1>9, <2>1, <2>2, SignalsEqual
<1>20. ASSUME NEW k \in 1..n
       PROVE  t.signals[k] = View(sigs[k], IF Visited(phs, i, sigs[k].bar) THEN b ELSE b - 1)
  <2>1. CASE k = k0
    <3>1. View(sigs[k0], b) = sigs[k0]  BY <1>9 DEF View
    <3>2. Visited(phs, i, sigs[k0].bar)  BY <1>8, <1>12
    <3> QED  BY <1>19, <2>1, <3>1, <3>2
  <2>2. CASE k # k0
    <3>1. t.signals[k] = s.signals[k]  BY <1>6, <1>18, <2>2 DEF ResolvedAt
    <3>2. sigs[k].bar # ph.bar  BY <1>5, <1>8, <2>2
    <3>3. Visited(phs, i, sigs[k].bar) <=> Visited(phs, i - 1, sigs[k].bar)  BY <1>12, <3>2
    <3> QED  BY <1>13, <3>1, <3>3
  <2> QED  BY <2>1, <2>2
<1>21. ASSUME NEW j \in 1..Len(t.phantoms)
       PROVE  Ghost(t.phantoms[j], sigs, b) /\ Visited(phs, i, t.phantoms[j].bar)
  <2>1. Ghost(s.phantoms[j], sigs, b) /\ Visited(phs, i - 1, s.phantoms[j].bar)
    BY <1>2, <1>3 DEF Advanced
  <2> QED  BY <1>3, <1>12, <2>1
<1>22. \A j, k \in 1..Len(t.phantoms) : j # k => t.phantoms[j].bar # t.phantoms[k].bar
  BY <1>3 DEF Advanced
<1>23. ASSUME NEW q \in 1..i, PhantomWalk(phs[q].bar)[b].pnl = NONE
       PROVE  Haunted(t.phantoms, phs[q].bar)
  <2>1. q # i  BY <1>1, <1>2, <1>7, <1>23
  <2>2. q \in 1..(i - 1)  BY <1>10, <2>1
  <2> QED  BY <1>2, <1>3, <1>23, <2>2 DEF Advanced
<1>24. Len(t.signals) = Len(sigs)  BY <1>5, <1>6, <1>18 DEF ResolvedAt
<1> QED  BY <1>2, <1>3, <1>5, <1>20, <1>21, <1>22, <1>23, <1>24 DEF Advanced

\* After the phantoms moved by bar b, what is known is what it was at bar b.
LEMMA AdvanceMatched ==
    ASSUME Given, NEW b \in 0..(N - 2), NEW s, SignalsRight(s.signals, b), Older(s.signals, b),
           NEW l, Matched(l, s, b - 1)
    PROVE  Matched(AdvancePhantoms(l, b), s, b)
<1>1. PICK sigs : sigs = s.signals  OBVIOUS
<1>2. PICK phs : phs = l.phantoms  OBVIOUS
<1>3. PICK n : n = Len(phs)  OBVIOUS
<1>4. /\ l \in Sims /\ Same(l, s) /\ Viewed(l.signals, sigs, b - 1) /\ PhantomsRight(phs, sigs, b - 1)
      /\ SignalsRight(sigs, b) /\ Older(sigs, b)
  BY <1>1, <1>2 DEF Matched
<1>5. /\ phs \in Seq(Phantoms) /\ n \in Nat
      /\ \A i \in 1..n : Ghost(phs[i], sigs, b - 1)
      /\ \A i, k \in 1..n : i # k => phs[i].bar # phs[k].bar
  BY <1>3, <1>4 DEF PhantomsRight
<1>6. /\ sigs \in Seq(Signals) /\ Len(sigs) \in Nat
      /\ \A j, k \in 1..Len(sigs) : sigs[j].bar = sigs[k].bar => j = k
  <2>1. sigs \in Seq(Signals) /\ \A i, k \in 1..Len(sigs) : i < k => sigs[i].bar < sigs[k].bar
    BY <1>4 DEF SignalsRight
  <2>2. \A k \in 1..Len(sigs) : sigs[k].bar \in Int
    <3> TAKE k \in 1..Len(sigs)
    <3>1. sigs[k] \in Signals  BY <2>1
    <3> QED  BY <3>1 DEF Signals
  <2>3. Len(sigs) \in Nat  BY <2>1
  <2>4. ASSUME NEW j \in 1..Len(sigs), NEW k \in 1..Len(sigs), sigs[j].bar = sigs[k].bar, j # k
        PROVE  FALSE
    <3>1. j < k \/ k < j  BY <2>3, <2>4
    <3>2. sigs[j].bar < sigs[k].bar \/ sigs[k].bar < sigs[j].bar  BY <2>1, <3>1
    <3> QED  BY <2>2, <2>4, <3>2
  <2> QED  BY <2>1, <2>3, <2>4
<1>7. \A i \in 1..n : Stirred(phs[i], AdvancePhantom(phs[i], b), sigs, b)
  BY <1>4, <1>5, GhostMoves
<1>8. PICK g : Advancing(g, l, b)  BY <1>2, <1>3, <1>4, <1>7, AdvanceRuns
<1>9. /\ \A i \in 0..n : g[i] \in Sims
      /\ g[0] = Unhaunted(l) /\ AdvancePhantoms(l, b) = g[n]
      /\ \A i \in 1..n : g[i] = OneAdvanced(g[i - 1], phs[i], b)
  BY <1>2, <1>3, <1>8 DEF Advancing
<1> DEFINE Reached == {i \in 0..n : Advanced(g[i], l, sigs, b, i)}
<1>10. 0 \in Reached
  <2>1. /\ g[0] \in Sims /\ g[0].phantoms = <<>> /\ g[0].signals = l.signals /\ Same(g[0], l)
    <3>1. <<>> \in Seq(Phantoms)  OBVIOUS
    <3> QED  BY <1>4, <1>9, <3>1 DEF Unhaunted, Sims, Same
  <2>2. 1..0 = {} /\ Len(<<>>) = 0  OBVIOUS
  <2>3. \A bar : ~Visited(phs, 0, bar)  BY <2>2 DEF Visited
  <2>4. Advanced(g[0], l, sigs, b, 0)
    BY <1>2, <1>4, <2>1, <2>2, <2>3 DEF Advanced, Viewed
  <2> QED  BY <1>5, <2>4
<1>11. \A i \in 0..n : i # 0 /\ i - 1 \in Reached => i \in Reached
  <2> SUFFICES ASSUME NEW i \in 0..n, i # 0, i - 1 \in Reached  PROVE i \in Reached
    OBVIOUS
  <2>1. i \in 1..n /\ i - 1 \in 0..n  BY <1>5
  <2>2. PICK u : u = g[i - 1]  OBVIOUS
  <2>3. PICK r : r = AdvancePhantom(phs[i], b)  OBVIOUS
  <2>4. Advanced(u, l, sigs, b, i - 1) /\ u \in Sims  BY <1>9, <2>1, <2>2
  <2>5. Stirred(phs[i], r, sigs, b)  BY <1>7, <2>1, <2>3
  <2>6. Resolving(u, g[i], phs[i], r)
    <3>1. g[i] = OneAdvanced(u, phs[i], b)  BY <1>9, <2>1, <2>2
    <3> QED  BY <2>3, <2>4, <2>5, <3>1, OneFields
  <2> HIDE DEF Reached
  <2>7. Advanced(g[i], l, sigs, b, i)
    <3>1. CASE r.pnl = NONE
      BY <1>2, <1>3, <1>5, <1>6, <2>1, <2>4, <2>5, <2>6, <3>1, AdvancedStays
    <3>2. CASE r.pnl # NONE
      BY <1>2, <1>3, <1>5, <1>6, <2>1, <2>4, <2>5, <2>6, <3>2, AdvancedResolves
    <3> QED  BY <3>1, <3>2
  <2> QED  BY <2>1, <2>7 DEF Reached
<1> HIDE DEF Reached
<1>12. n \in Reached
  <2>1. 0 \in Nat /\ n \in Int /\ n \in 0..n  BY <1>5
  <2> QED  BY <1>10, <1>11, <2>1, Upward
<1>13. PICK m : m = g[n]  OBVIOUS
<1>14. Advanced(m, l, sigs, b, n)  BY <1>12, <1>13 DEF Reached
<1>15. /\ m \in Sims /\ Same(m, s) /\ m.signals \in Seq(Signals) /\ m.phantoms \in Seq(Phantoms)
  <2>1. m \in Sims /\ Same(m, l)  BY <1>14 DEF Advanced
  <2> QED  BY <1>4, <2>1 DEF Sims, Same
<1>16. b \in Int /\ b # N - 1  BY BarNumbers
<1>17. ASSUME NEW k \in 1..Len(sigs)
       PROVE  /\ m.signals[k] = View(sigs[k], b)
              /\ ~sigs[k].fired /\ ~Resolved(sigs[k], b) => Haunted(m.phantoms, sigs[k].bar)
  <2>1. m.signals[k] = View(sigs[k], IF Visited(phs, n, sigs[k].bar) THEN b ELSE b - 1)
    BY <1>2, <1>14 DEF Advanced
  <2>2. CASE sigs[k].fired
    BY <2>1, <2>2 DEF View
  <2>3. CASE ~sigs[k].fired /\ Resolved(sigs[k], b - 1)
    <3>1. SignalRight(sigs[k], b)  BY <1>4 DEF SignalsRight
    <3>2. sigs[k].resolvedBar \in Int
      <4>1. sigs[k].bar \in 0..(N - 2) /\ sigs[k].resolvedBar = Phantom(sigs[k].bar).resolvedBar
        BY <2>3, <3>1 DEF SignalRight
      <4>2. sigs[k].bar \in sigs[k].bar..(N - 1)  BY <4>1, BarNumbers
      <4> QED  BY <4>1, <4>2, PhantomIs
    <3>3. Resolved(sigs[k], b)  BY <1>16, <2>3, <3>2 DEF Resolved
    <3> QED  BY <2>1, <2>3, <3>3 DEF View
  <2>4. CASE ~sigs[k].fired /\ ~Resolved(sigs[k], b - 1)
    <3>1. Haunted(phs, sigs[k].bar)  BY <1>4, <2>4 DEF PhantomsRight
    <3>2. PICK q \in 1..n : phs[q].bar = sigs[k].bar  BY <1>3, <3>1 DEF Haunted
    <3>3. Visited(phs, n, sigs[k].bar)  BY <3>2 DEF Visited
    <3>4. ASSUME ~Resolved(sigs[k], b)  PROVE Haunted(m.phantoms, sigs[k].bar)
      <4>1. PICK r : r = AdvancePhantom(phs[q], b)  OBVIOUS
      <4>2. Stirred(phs[q], r, sigs, b)  BY <1>7, <4>1
      <4>3. PICK x \in 1..Len(sigs) : sigs[x].bar = phs[q].bar /\ Wakes(r, sigs[x], b)
        BY <4>2 DEF Stirred
      <4>4. x = k  BY <1>6, <3>2, <4>3
      <4>5. r.pnl = NONE  BY <3>4, <4>3, <4>4 DEF Wakes
      <4>6. PhantomWalk(phs[q].bar)[b].pnl = NONE  BY <4>2, <4>5 DEF Stirred
      <4> QED  BY <1>2, <1>14, <3>2, <4>6 DEF Advanced
    <3> QED  BY <2>1, <3>3, <3>4
  <2> QED  BY <2>2, <2>3, <2>4
<1>18. Viewed(m.signals, sigs, b)  BY <1>14, <1>15, <1>17 DEF Viewed, Advanced
<1>19. PhantomsRight(m.phantoms, sigs, b)  BY <1>14, <1>15, <1>17 DEF PhantomsRight, Advanced
<1> QED  BY <1>1, <1>9, <1>13, <1>15, <1>18, <1>19 DEF Matched

-----------------------------------------------------------------------------
(* The decisions of both loops. *)

KnownOf(sigs, b) == {i \in DOMAIN sigs : Resolved(sigs[i], b)}
Tells(rec, gate) ==
    CASE gate.pred = "last_would_have_won" -> rec.pnl > 0
      [] gate.pred = "last_would_have_lost" -> rec.pnl < 0
      [] gate.pred = "last_fired" -> rec.fired

\* A gate on past signals reads what is known of them.
LEMMA GatesMatched ==
    ASSUME NEW b \in Int, NEW sigs \in Seq(Signals), NEW lsigs, Viewed(lsigs, sigs, b), NEW gate
    PROVE  PriorSignal(lsigs, gate, b) <=> PriorSignal(sigs, gate, b)
<1>1. PICK n : n = Len(sigs)  OBVIOUS
<1>2. /\ n \in Nat /\ DOMAIN sigs = 1..n /\ DOMAIN lsigs = 1..n
      /\ \A k \in 1..n : sigs[k] \in Signals /\ lsigs[k] = View(sigs[k], b)
  BY <1>1 DEF Viewed
<1>3. ASSUME NEW k \in 1..n
      PROVE  /\ Resolved(lsigs[k], b) <=> Resolved(sigs[k], b)
             /\ Resolved(sigs[k], b) => lsigs[k] = sigs[k]
  <2>1. sigs[k] \in Signals /\ lsigs[k] = View(sigs[k], b)  BY <1>2
  <2>2. CASE sigs[k].fired \/ Resolved(sigs[k], b)
    BY <2>1, <2>2 DEF View
  <2>3. CASE ~sigs[k].fired /\ ~Resolved(sigs[k], b)
    <3>1. lsigs[k] = Unknown(sigs[k])  BY <2>1, <2>3 DEF View
    <3>2. lsigs[k].resolvedBar = NONE  BY <2>1, <3>1, ViewTyped
    <3> QED  BY <2>3, <3>2 DEF Resolved
  <2> QED  BY <2>2, <2>3
<1>4. PICK K : K = KnownOf(sigs, b)  OBVIOUS
<1>5. KnownOf(lsigs, b) = K  BY <1>2, <1>3, <1>4 DEF KnownOf
<1>6. PICK j : j = Max(K)  OBVIOUS
<1>7. K # {} => lsigs[j] = sigs[j]
  <2> SUFFICES ASSUME K # {}  PROVE lsigs[j] = sigs[j]  OBVIOUS
  <2>1. K \subseteq 1..n /\ \A k \in K : Resolved(sigs[k], b)  BY <1>2, <1>4 DEF KnownOf
  <2>2. IsFiniteSet(K) /\ K \in SUBSET Int
    <3>1. IsFiniteSet(1..n)  BY <1>2, FS_Interval
    <3>2. IsFiniteSet(K)  BY <2>1, <3>1, FS_Subset
    <3>3. K \in SUBSET Int  BY <1>2, <2>1
    <3> QED  BY <3>2, <3>3
  <2>3. j \in K  BY <1>6, <2>2, MaxOfFinite
  <2> QED  BY <1>3, <2>1, <2>3
<1>8. /\ PriorSignal(sigs, gate, b) <=> K # {} /\ Tells(sigs[j], gate)
      /\ PriorSignal(lsigs, gate, b) <=> K # {} /\ Tells(lsigs[j], gate)
  BY Zenon, <1>4, <1>5, <1>6 DEF PriorSignal, Tells, KnownOf
<1> QED  BY Zenon, <1>7, <1>8

LEMMA EvalMatched ==
    ASSUME NEW b \in Int, NEW s \in Sims, NEW l, Matched(l, s, b)
    PROVE  EntryEval(l, b) <=> EntryEval(s, b)
<1>1. s.signals \in Seq(Signals)  BY DEF Sims
<1>2. Viewed(l.signals, s.signals, b) /\ l.history = s.history  BY DEF Matched, Same
<1>3. PriorSignal(l.signals, strategy.gate, b) <=> PriorSignal(s.signals, strategy.gate, b)
  BY <1>1, <1>2, GatesMatched
<1>4. CASE TracksSignals
  <2>1. PICK p : p = PriorSignal(l.signals, strategy.gate, b)  OBVIOUS
  <2>2. PICK q : q = PriorSignal(s.signals, strategy.gate, b)  OBVIOUS
  <2>3. p \in BOOLEAN /\ q \in BOOLEAN  BY Zenon, <2>1, <2>2 DEF PriorSignal
  <2>4. p <=> q  BY Zenon, <1>3, <2>1, <2>2
  <2>5. p = q  BY <2>3, <2>4
  <2> QED  BY Zenon, <1>4, <2>1, <2>2, <2>5 DEF EntryEval
<1>5. CASE ~TracksSignals
  BY Zenon, <1>2, <1>5 DEF EntryEval
<1> QED  BY <1>4, <1>5

\* The records of a new signal, in both loops.
LEMMA NewMatched ==
    ASSUME Given, NEW b \in 0..(N - 2)
    PROVE  /\ View(NewSignal(b, TRUE), b) = NewSignal(b, TRUE)
           /\ View(SkippedSignal(b, FALSE), b) = SkippedSignal(b, TRUE)
           /\ ~SkippedSignal(b, FALSE).fired
           /\ PhantomWalk(b)[b] = Unmoved(b)
<1>1. /\ b \in Int /\ b \in b..(N - 1) /\ b \in 0..(N - 1) /\ b # N - 1
      /\ TRUE \in BOOLEAN /\ FALSE \in BOOLEAN
  BY BarNumbers
<1>2. FiredRecord(NewSignal(b, TRUE), b)  BY <1>1, SignalTyped
<1>3. View(NewSignal(b, TRUE), b) = NewSignal(b, TRUE)  BY <1>2 DEF FiredRecord, View
<1>4. PhantomWalk(b)[b] = Unmoved(b)  BY <1>1, WalkSteps
<1>5. Unmoved(b).pnl = NONE  BY DEF Unmoved
<1>6. Phantom(b).resolvedBar > b  BY <1>1, <1>4, <1>5, PhantomIs
<1>7. PICK x : x = SkippedSignal(b, FALSE)  OBVIOUS
<1>8. PICK y : y = SkippedSignal(b, TRUE)  OBVIOUS
<1>9. SkippedRecord(x, b, FALSE) /\ SkippedRecord(y, b, TRUE)  BY <1>1, <1>7, <1>8, SignalTyped
<1>10. /\ x \in Signals /\ x.bar = b /\ ~x.fired /\ x.resolvedBar = Phantom(b).resolvedBar
       /\ y \in Signals /\ y.bar = b /\ ~y.fired /\ y.pnl = NONE /\ y.resolvedBar = NONE
  BY <1>9 DEF SkippedRecord
<1>11. ~Resolved(x, b)
  <2>1. x.resolvedBar > b /\ x.resolvedBar \in Levels  BY <1>6, <1>10 DEF Signals
  <2> QED  BY <1>1, <2>1 DEF Resolved, Levels
<1>12. View(x, b) = Unknown(x)  BY <1>10, <1>11 DEF View
<1>13. PICK u : u = Unknown(x)  OBVIOUS
<1>14. u \in Signals /\ u.bar = b /\ u.fired = x.fired /\ u.pnl = NONE /\ u.resolvedBar = NONE
  BY <1>10, <1>12, <1>13, ViewTyped
<1>15. u.fired \in BOOLEAN /\ y.fired \in BOOLEAN /\ ~u.fired  BY <1>10, <1>14 DEF Signals
<1>16. u.fired = y.fired  BY <1>10, <1>15
<1>17. u = y  BY <1>10, <1>14, <1>16, SignalsEqual
<1> QED  BY <1>3, <1>4, <1>7, <1>8, <1>10, <1>12, <1>13, <1>17

\* A record that both loops append.
LEMMA ViewedAppended ==
    ASSUME NEW b, NEW sigs \in Seq(Signals), NEW lsigs, Viewed(lsigs, sigs, b),
           NEW rec \in Signals, NEW lrec, lrec = View(rec, b)
    PROVE  /\ Viewed(Append(lsigs, lrec), Append(sigs, rec), b)
           /\ Len(Append(sigs, rec)) = Len(sigs) + 1 /\ Len(sigs) \in Nat
           /\ Append(sigs, rec)[Len(sigs) + 1] = rec
           /\ \A k \in 1..Len(sigs) : Append(sigs, rec)[k] = sigs[k]
<1>1. PICK n : n = Len(sigs)  OBVIOUS
<1>2. PICK new : new = Append(sigs, rec)  OBVIOUS
<1>3. PICK lnew : lnew = Append(lsigs, lrec)  OBVIOUS
<1>4. /\ n \in Nat /\ lsigs \in Seq(Signals) /\ Len(lsigs) = n
      /\ \A k \in 1..n : lsigs[k] = View(sigs[k], b)
  BY <1>1 DEF Viewed
<1>5. lrec \in Signals  BY ViewTyped
<1>6. /\ new \in Seq(Signals) /\ Len(new) = n + 1 /\ new[n + 1] = rec
      /\ \A k \in 1..n : new[k] = sigs[k]
  BY <1>1, <1>2, AppendProperties
<1>7. /\ lnew \in Seq(Signals) /\ Len(lnew) = n + 1 /\ lnew[n + 1] = lrec
      /\ \A k \in 1..n : lnew[k] = lsigs[k]
  BY <1>3, <1>4, <1>5, AppendProperties
<1>8. ASSUME NEW k \in 1..(n + 1)  PROVE lnew[k] = View(new[k], b)
  <2>1. CASE k = n + 1  BY <1>6, <1>7, <2>1
  <2>2. CASE k # n + 1
    <3>1. k \in 1..n  BY <1>4, <2>2
    <3> QED  BY <1>4, <1>6, <1>7, <3>1
  <2> QED  BY <2>1, <2>2
<1>9. Viewed(lnew, new, b)  BY <1>6, <1>7, <1>8 DEF Viewed
<1> QED  BY <1>1, <1>2, <1>3, <1>4, <1>6, <1>9

\* The new phantom haunts its signal, beside the others.
LEMMA PhantomAppended ==
    ASSUME Given, NEW b \in 0..(N - 2), NEW sigs, SignalsRight(sigs, b), Older(sigs, b),
           NEW phs, PhantomsRight(phs, sigs, b), NEW new, NEW n \in Nat, n = Len(sigs),
           Len(new) = n + 1, \A k \in 1..n : new[k] = sigs[k],
           new[n + 1].bar = b, ~new[n + 1].fired
    PROVE  PhantomsRight(Append(phs, NewPhantom(b)), new, b)
<1>1. PICK ph : ph = NewPhantom(b)  OBVIOUS
<1>2. PICK lnew : lnew = Append(phs, ph)  OBVIOUS
<1>3. PICK c : c = Len(phs)  OBVIOUS
<1>4. ph \in Phantoms /\ ph.bar = b
  <2>1. b \in Int  OBVIOUS
  <2>2. ph \in Phantoms  BY <1>1, <2>1, SignalTyped
  <2> QED  BY <1>1, <2>2 DEF NewPhantom
<1>5. phs \in Seq(Phantoms)  BY DEF PhantomsRight
<1>6. /\ c \in Nat /\ lnew \in Seq(Phantoms) /\ Len(lnew) = c + 1 /\ lnew[c + 1] = ph
      /\ \A i \in 1..c : lnew[i] = phs[i]
  BY <1>2, <1>3, <1>4, <1>5, AppendProperties
<1>7. PhantomWalk(b)[b].ph = ph /\ PhantomWalk(b)[b].pnl = NONE
  <2>1. PhantomWalk(b)[b] = Unmoved(b)  BY NewMatched
  <2>2. Unmoved(b).ph = ph /\ Unmoved(b).pnl = NONE  BY <1>1 DEF Unmoved
  <2> QED  BY <2>1, <2>2
<1>8. ASSUME NEW i \in 1..c  PROVE Ghost(lnew[i], new, b) /\ lnew[i].bar # b
  <2>1. Ghost(phs[i], sigs, b)  BY <1>3 DEF PhantomsRight
  <2>2. PICK k \in 1..n : sigs[k].bar = phs[i].bar /\ ~sigs[k].fired  BY <2>1 DEF Ghost
  <2>3. k \in 1..(n + 1) /\ new[k].bar = phs[i].bar /\ ~new[k].fired  BY <2>2
  <2>4. Ghost(phs[i], new, b)  BY <2>1, <2>3 DEF Ghost
  <2>5. phs[i].bar < b /\ b \in Int  BY <2>2 DEF Older
  <2>6. phs[i].bar # b
    <3>1. SignalRight(sigs[k], b)  BY <2>2 DEF SignalsRight
    <3>2. phs[i].bar \in Int  BY <2>2, <3>1 DEF SignalRight
    <3> QED  BY <2>5, <3>2
  <2> QED  BY <1>6, <2>4, <2>6
<1>9. Ghost(ph, new, b)
  <2>1. n + 1 \in 1..Len(new)  OBVIOUS
  <2> QED  BY <1>4, <1>7, <2>1 DEF Ghost
<1>10. ASSUME NEW i \in 1..(c + 1)  PROVE Ghost(lnew[i], new, b)
  <2>1. CASE i = c + 1  BY <1>6, <1>9, <2>1
  <2>2. CASE i # c + 1
    <3>1. i \in 1..c  BY <1>6, <2>2
    <3> QED  BY <1>8, <3>1
  <2> QED  BY <2>1, <2>2
<1>11. ASSUME NEW i \in 1..(c + 1), NEW k \in 1..(c + 1), i # k  PROVE lnew[i].bar # lnew[k].bar
  <2>1. CASE i \in 1..c /\ k \in 1..c
    <3>1. phs[i].bar # phs[k].bar  BY <1>3, <1>11, <2>1 DEF PhantomsRight
    <3> QED  BY <1>6, <2>1, <3>1
  <2>2. CASE ~(i \in 1..c /\ k \in 1..c)
    <3>1. (i = c + 1 /\ k \in 1..c) \/ (k = c + 1 /\ i \in 1..c)  BY <1>6, <1>11, <2>2
    <3> QED  BY <1>4, <1>6, <1>8, <3>1
  <2> QED  BY <2>1, <2>2
<1>12. ASSUME NEW k \in 1..(n + 1), ~new[k].fired, ~Resolved(new[k], b)
       PROVE  Haunted(lnew, new[k].bar)
  <2>1. CASE k = n + 1
    <3>1. c + 1 \in 1..(c + 1)  BY <1>6
    <3> QED  BY <1>4, <1>6, <2>1, <3>1 DEF Haunted
  <2>2. CASE k # n + 1
    <3>1. k \in 1..n /\ new[k] = sigs[k]  BY <2>2
    <3>2. Haunted(phs, sigs[k].bar)  BY <1>12, <3>1 DEF PhantomsRight
    <3>3. PICK i \in 1..c : phs[i].bar = sigs[k].bar  BY <1>3, <3>2 DEF Haunted
    <3>4. i \in 1..(c + 1) /\ lnew[i].bar = sigs[k].bar  BY <1>6, <3>3
    <3> QED  BY <1>6, <3>1, <3>4 DEF Haunted
  <2> QED  BY <2>1, <2>2
<1>13. PhantomsRight(lnew, new, b)  BY <1>6, <1>10, <1>11, <1>12 DEF PhantomsRight
<1> QED  BY <1>1, <1>2, <1>13

\* A fired signal has no phantom.
LEMMA FiredAppended ==
    ASSUME NEW b, NEW sigs, NEW phs, PhantomsRight(phs, sigs, b), NEW new, NEW n \in Nat, n = Len(sigs),
           Len(new) = n + 1, \A k \in 1..n : new[k] = sigs[k], new[n + 1].fired
    PROVE  PhantomsRight(phs, new, b)
<1>1. ASSUME NEW i \in 1..Len(phs)  PROVE Ghost(phs[i], new, b)
  <2>1. Ghost(phs[i], sigs, b)  BY DEF PhantomsRight
  <2>2. PICK k \in 1..n : sigs[k].bar = phs[i].bar /\ ~sigs[k].fired  BY <2>1 DEF Ghost
  <2>3. k \in 1..(n + 1) /\ new[k].bar = phs[i].bar /\ ~new[k].fired  BY <2>2
  <2> QED  BY <2>1, <2>3 DEF Ghost
<1>2. ASSUME NEW k \in 1..(n + 1), ~new[k].fired, ~Resolved(new[k], b)
      PROVE  Haunted(phs, new[k].bar)
  <2>1. k \in 1..n /\ new[k] = sigs[k]
    <3>1. k # n + 1  BY <1>2
    <3>2. k \in 1..n  BY <3>1
    <3> QED  BY <3>2
  <2> QED  BY <1>2, <2>1 DEF PhantomsRight
<1> QED  BY <1>1, <1>2 DEF PhantomsRight

LEMMA EntriesMatched ==
    ASSUME Given, NEW b \in 0..(N - 2), NEW s, Marked(s, b), NEW l, Matched(l, s, b),
           NEW t, EntryDecided(s, t, b, TRUE, FALSE), NEW m, EntryDecided(l, m, b, TRUE, TRUE)
    PROVE  Matched(m, t, b)
<1> DEFINE free == s.pos = NONE /\ s.entryAt = NONE
           signals == free /\ TracksSignals /\ bars[b].raw
           fired == EntryEval(s, b)
<1>1. /\ s \in Sims /\ l \in Sims /\ Same(l, s) /\ Viewed(l.signals, s.signals, b)
      /\ PhantomsRight(l.phantoms, s.signals, b) /\ SignalsRight(s.signals, b) /\ Older(s.signals, b)
      /\ b \in Int
  BY DEF Marked, Matched
<1>2. s.signals \in Seq(Signals)  BY <1>1 DEF Sims
<1>3. EntryEval(l, b) <=> fired  BY <1>1, EvalMatched
<1>4. l.pos = s.pos /\ l.entryAt = s.entryAt  BY <1>1 DEF Same
<1> HIDE DEF fired
<1>5. /\ t.pos = s.pos /\ t.cash = s.cash /\ t.exitAt = s.exitAt /\ t.tradeId = s.tradeId
      /\ t.trades = s.trades /\ t.history = s.history
      /\ free /\ fired => t.entryAt = b
      /\ ~(free /\ fired) => t.entryAt = s.entryAt
      /\ signals /\ fired => t.signals = Append(s.signals, NewSignal(b, TRUE))
      /\ signals /\ ~fired => t.signals = Append(s.signals, SkippedSignal(b, FALSE))
      /\ ~signals => t.signals = s.signals
  BY DEF EntryDecided, fired
<1>6. /\ m \in Sims /\ m.pos = l.pos /\ m.cash = l.cash /\ m.exitAt = l.exitAt /\ m.tradeId = l.tradeId
      /\ m.trades = l.trades /\ m.history = l.history
      /\ free /\ fired => m.entryAt = b
      /\ ~(free /\ fired) => m.entryAt = l.entryAt
      /\ signals /\ fired => m.signals = Append(l.signals, NewSignal(b, TRUE))
      /\ signals /\ ~fired => m.signals = Append(l.signals, SkippedSignal(b, TRUE))
      /\ ~signals => m.signals = l.signals
      /\ signals /\ ~fired => m.phantoms = Append(l.phantoms, NewPhantom(b))
      /\ ~(signals /\ ~fired) => m.phantoms = l.phantoms
  BY <1>3, <1>4 DEF EntryDecided
<1>7. Same(m, t)  BY <1>1, <1>5, <1>6 DEF Same
<1> HIDE DEF signals
<1>8. Viewed(m.signals, t.signals, b) /\ PhantomsRight(m.phantoms, t.signals, b)
  <2>1. CASE signals /\ fired
    <3>1. PICK rec : rec = NewSignal(b, TRUE)  OBVIOUS
    <3>2. View(rec, b) = rec /\ rec \in Signals /\ rec.fired
      <4>1. FiredRecord(rec, b)  BY <1>1, <3>1, SignalTyped
      <4> QED  BY <3>1, <4>1, NewMatched DEF FiredRecord
    <3>3. t.signals = Append(s.signals, rec) /\ m.signals = Append(l.signals, rec)
      BY <1>5, <1>6, <2>1, <3>1
    <3>4. /\ Viewed(m.signals, t.signals, b)
          /\ Len(t.signals) = Len(s.signals) + 1 /\ Len(s.signals) \in Nat
          /\ t.signals[Len(s.signals) + 1] = rec
          /\ \A k \in 1..Len(s.signals) : t.signals[k] = s.signals[k]
      BY <1>1, <1>2, <3>2, <3>3, ViewedAppended
    <3>5. PhantomsRight(l.phantoms, t.signals, b)
      BY <1>1, <3>2, <3>4, FiredAppended
    <3> QED  BY <1>6, <2>1, <3>4, <3>5
  <2>2. CASE signals /\ ~fired
    <3>1. PICK rec : rec = SkippedSignal(b, FALSE)  OBVIOUS
    <3>2. PICK lrec : lrec = SkippedSignal(b, TRUE)  OBVIOUS
    <3>3. lrec = View(rec, b) /\ rec \in Signals /\ ~rec.fired /\ rec.bar = b
      <4>1. SkippedRecord(rec, b, FALSE)  BY <1>1, <3>1, SignalTyped
      <4> QED  BY <3>1, <3>2, <4>1, NewMatched DEF SkippedRecord
    <3>4. t.signals = Append(s.signals, rec) /\ m.signals = Append(l.signals, lrec)
      BY <1>5, <1>6, <2>2, <3>1, <3>2
    <3>5. /\ Viewed(m.signals, t.signals, b)
          /\ Len(t.signals) = Len(s.signals) + 1 /\ Len(s.signals) \in Nat
          /\ t.signals[Len(s.signals) + 1] = rec
          /\ \A k \in 1..Len(s.signals) : t.signals[k] = s.signals[k]
      BY <1>1, <1>2, <3>3, <3>4, ViewedAppended
    <3>6. PhantomsRight(Append(l.phantoms, NewPhantom(b)), t.signals, b)
      BY <1>1, <3>3, <3>5, PhantomAppended
    <3> QED  BY <1>6, <2>2, <3>5, <3>6
  <2>3. CASE ~signals
    BY <1>1, <1>5, <1>6, <2>3
  <2> QED  BY <2>1, <2>2, <2>3
<1> QED  BY <1>6, <1>7, <1>8 DEF Matched

LEMMA ExitsMatched ==
    ASSUME NEW b, NEW s, NEW l, Matched(l, s, b),
           NEW t, ExitChosen(s, t, b, TRUE), NEW m, ExitChosen(l, m, b, TRUE)
    PROVE  Matched(m, t, b)
<1> DEFINE chosen == s.pos # NONE /\ s.exitAt = NONE /\ ExitDecided(b, s.pos.entry)
<1>1. l \in Sims /\ Same(l, s)  BY DEF Matched
<1>2. l.pos = s.pos /\ l.exitAt = s.exitAt  BY <1>1 DEF Same
<1>3. CASE ~chosen
  <2>1. t = s /\ m = l  BY <1>2, <1>3 DEF ExitChosen
  <2> QED  BY <2>1
<1>4. CASE chosen
  <2>1. /\ KeepsRecords(s, t) /\ t.exitAt = b
        /\ t.cash = s.cash /\ t.entryAt = s.entryAt /\ t.pos = s.pos
        /\ m \in Sims /\ KeepsRecords(l, m) /\ m.exitAt = b
        /\ m.cash = l.cash /\ m.entryAt = l.entryAt /\ m.pos = l.pos
    BY <1>2, <1>4 DEF ExitChosen
  <2>2. Same(m, t) /\ t.signals = s.signals /\ m.signals = l.signals /\ m.phantoms = l.phantoms
    BY <1>1, <2>1 DEF Same, KeepsRecords
  <2> QED  BY <2>1, <2>2 DEF Matched
<1> QED  BY <1>3, <1>4

\* One bar of a live history, beside the same bar of the backtest.
LEMMA LiveMatches ==
    ASSUME Given, NEW b \in 0..(N - 2), NEW s, Steady(s, b - 1), NEW l, Matched(l, s, b - 1)
    PROVE  Matched(LiveStep(l, b), BacktestStep(s, b), b)
<1>1. /\ b \in Int /\ b \in 0..(N - 1) /\ b < N - 1 /\ (b < N - 1) = TRUE
      /\ s \in Sims /\ l \in Sims /\ TRUE \in BOOLEAN /\ FALSE \in BOOLEAN
  BY BarNumbers DEF Steady, Matched
<1>2. PICK s1 : s1 = FillEntry(s, b)  OBVIOUS
<1>3. PICK s2 : s2 = FillExit(s1, b, FALSE)  OBVIOUS
<1>4. PICK s3 : s3 = Intrabar(s2, b, FALSE)  OBVIOUS
<1>5. PICK s4 : s4 = DecideEntry(s3, b, TRUE, FALSE)  OBVIOUS
<1>6. PICK s5 : s5 = DecideExit(s4, b, TRUE)  OBVIOUS
<1>7. BacktestStep(s, b) = s5  BY <1>1, <1>2, <1>3, <1>4, <1>5, <1>6 DEF BacktestStep
<1>8. PICK l1 : l1 = FillEntry(l, b)  OBVIOUS
<1>9. PICK l2 : l2 = FillExit(l1, b, TRUE)  OBVIOUS
<1>10. PICK l3 : l3 = Intrabar(l2, b, TRUE)  OBVIOUS
<1>11. PICK l4 : l4 = AdvancePhantoms(l3, b)  OBVIOUS
<1>12. PICK l5 : l5 = DecideEntry(l4, b, TRUE, TRUE)  OBVIOUS
<1>13. PICK l6 : l6 = DecideExit(l5, b, TRUE)  OBVIOUS
<1>14. LiveStep(l, b) = l6  BY <1>8, <1>9, <1>10, <1>11, <1>12, <1>13 DEF LiveStep
<1>15. InBar(s1, b, b - 1) /\ Matched(l1, s1, b - 1)
  <2>1. EntryFilled(s, s1, b) /\ EntryFilled(l, l1, b)  BY <1>1, <1>2, <1>8, FillEntryFields
  <2>2. InBar(s1, b, b - 1)  BY <1>1, <2>1, FillEntryKeeps
  <2>3. /\ l1 \in Sims /\ Same(l1, s1) /\ s1.signals = s.signals
        /\ l1.signals = l.signals /\ l1.phantoms = l.phantoms
    BY <2>1, EntryMatched DEF Matched
  <2> QED  BY <2>2, <2>3 DEF Matched
<1>16. InBar(s2, b, b) /\ s2.exitAt = NONE /\ Matched(l2, s2, b - 1)
  <2>1. s1 \in Sims /\ l1 \in Sims /\ l1.pos = s1.pos  BY <1>15 DEF InBar, Matched, Same
  <2>2. s1.pos # NONE => Placed(s1.pos)  BY <1>1, <1>15, CarriedMoves DEF InBar
  <2>3. ExitFilled(s1, s2, b, FALSE)  BY <1>1, <1>3, <2>1, <2>2, FillExitFields
  <2>4. ExitFilled(l1, l2, b, TRUE)  BY <1>1, <1>9, <2>1, <2>2, FillExitFields
  <2>5. InBar(s2, b, b) /\ s2.exitAt = NONE  BY <1>1, <1>15, <2>3, FillExitKeeps
  <2>6. Matched(l2, s2, b - 1)  BY <1>1, <1>15, <2>3, <2>4, ExitMatched
  <2> QED  BY <2>5, <2>6
<1>17. Marked(s3, b) /\ Matched(l3, s3, b - 1)
  <2>1. s2 \in Sims /\ l2 \in Sims /\ l2.pos = s2.pos  BY <1>16 DEF InBar, Matched, Same
  <2>2. s2.pos # NONE => Placed(s2.pos)  BY <1>1, <1>16, CarriedMoves DEF InBar
  <2>3. Traded(s2, s3, b, FALSE)  BY <1>1, <1>4, <2>1, <2>2, IntrabarFields
  <2>4. Traded(l2, l3, b, TRUE)  BY <1>1, <1>10, <2>1, <2>2, IntrabarFields
  <2>5. Marked(s3, b)  BY <1>1, <1>16, <2>3, IntrabarKeeps
  <2>6. Matched(l3, s3, b - 1)  BY <1>1, <1>16, <2>3, <2>4, BarMatched
  <2> QED  BY <2>5, <2>6
<1>18. Matched(l4, s3, b)
  <2>1. SignalsRight(s3.signals, b) /\ Older(s3.signals, b)  BY <1>17 DEF Marked
  <2> QED  BY <1>11, <1>17, <2>1, AdvanceMatched
<1>19. Matched(l5, s4, b) /\ s4 \in Sims
  <2>1. s3 \in Sims /\ l4 \in Sims  BY <1>17, <1>18 DEF Marked, Matched
  <2>2. EntryDecided(s3, s4, b, TRUE, FALSE)  BY <1>1, <1>5, <2>1, DecideEntryFields
  <2>3. EntryDecided(l4, l5, b, TRUE, TRUE)  BY <1>1, <1>12, <2>1, DecideEntryFields
  <2>4. s4 \in Sims  BY <2>2 DEF EntryDecided
  <2> QED  BY <1>17, <1>18, <2>2, <2>3, <2>4, EntriesMatched
<1>20. Matched(l6, s5, b)
  <2>1. l5 \in Sims  BY <1>19 DEF Matched
  <2>2. ExitChosen(s4, s5, b, TRUE)  BY <1>1, <1>6, <1>19, DecideExitFields
  <2>3. ExitChosen(l5, l6, b, TRUE)  BY <1>1, <1>13, <2>1, DecideExitFields
  <2> QED  BY <1>19, <2>2, <2>3, ExitsMatched
<1> QED  BY <1>7, <1>14, <1>20

-----------------------------------------------------------------------------
(* From the first bar on. *)

LEMMA StartsRight ==
    ASSUME Given
    PROVE  Steady(NoSim, -1) /\ Matched(NoSim, NoSim, -1)
<1>1. /\ NoSim.pos = NONE /\ NoSim.entryAt = NONE /\ NoSim.exitAt = NONE
      /\ NoSim.trades = <<>> /\ NoSim.signals = <<>> /\ NoSim.phantoms = <<>>
  BY DEF NoSim
<1>2. Len(<<>>) = 0 /\ 1..0 = {} /\ <<>> \in Seq(Signals) /\ <<>> \in Seq(Phantoms)  OBVIOUS
<1>3. SignalsRight(NoSim.signals, -1) /\ TradesRight(NoSim.trades)
  BY <1>1, <1>2 DEF SignalsRight, TradesRight
<1>4. Viewed(NoSim.signals, NoSim.signals, -1) /\ PhantomsRight(NoSim.phantoms, NoSim.signals, -1)
  BY <1>1, <1>2 DEF Viewed, PhantomsRight
<1>5. Same(NoSim, NoSim)  BY DEF Same
<1>6. Steady(NoSim, -1)  BY <1>1, <1>3, NoSimTyped DEF Steady
<1>7. Matched(NoSim, NoSim, -1)  BY <1>4, <1>5, NoSimTyped DEF Matched
<1> QED  BY <1>6, <1>7

\* The backtest's states, one per bar, and the live ones.
Backtested(run, n) ==
    \A j \in 1..n : run[j] = BacktestStep(IF j = 1 THEN NoSim ELSE run[j - 1], j - 1)
Replayed(run, c) ==
    run[-1] = NoSim /\ \A b \in 0..c : run[b] = LiveStep(run[b - 1], b)

LEMMA BacktestedRight ==
    ASSUME Given, NEW n \in 0..N, NEW run, Backtested(run, n)
    PROVE  \A j \in 1..n : Steady(run[j], j - 1)
<1>1. n \in Nat /\ N \in Nat  BY BarNumbers
<1> SUFFICES ASSUME n # 0  PROVE \A j \in 1..n : Steady(run[j], j - 1)  BY <1>1
<1> DEFINE Right == {j \in 1..n : Steady(run[j], j - 1)}
<1>2. \A j \in 1..n : j \in Int /\ j - 1 \in 0..(N - 1) /\ (j # 1 => j - 1 \in 1..n)
  BY <1>1
<1>3. 1 \in Right
  <2>1. 1 \in 1..n /\ 1 - 1 = 0  BY <1>1
  <2>2. run[1] = BacktestStep(NoSim, 0)  BY <2>1 DEF Backtested
  <2>3. 0 \in 0..(N - 1) /\ 0 - 1 = -1  BY <1>2, <2>1
  <2>4. Steady(NoSim, 0 - 1)  BY <2>3, StartsRight
  <2>5. Steady(BacktestStep(NoSim, 0), 0)  BY <2>3, <2>4, BacktestKeeps
  <2> QED  BY <2>1, <2>2, <2>5
<1>4. \A j \in 1..n : j # 1 /\ j - 1 \in Right => j \in Right
  <2> SUFFICES ASSUME NEW j \in 1..n, j # 1, j - 1 \in Right  PROVE j \in Right
    OBVIOUS
  <2>1. PICK s : s = run[j - 1]  OBVIOUS
  <2>2. PICK b : b = j - 1  OBVIOUS
  <2>3. b \in 0..(N - 1) /\ Steady(s, b - 1)  BY <1>2, <2>1, <2>2
  <2>4. Steady(BacktestStep(s, b), b)  BY <2>3, BacktestKeeps
  <2>5. run[j] = BacktestStep(s, b)  BY <2>1, <2>2 DEF Backtested
  <2> QED  BY <2>2, <2>4, <2>5
<1> HIDE DEF Right
<1>5. \A j \in 1..n : j \in Right
  <2>1. 1 \in Nat /\ n \in Int  BY <1>1
  <2> QED  BY <1>3, <1>4, <2>1, Upward
<1> QED  BY <1>5 DEF Right

\* Bar b is the state b + 1 of a trail.
LEMMA ReplayedRight ==
    ASSUME Given, NEW run, Backtested(run, N), NEW c \in 0..(N - 2), NEW lrun, Replayed(lrun, c)
    PROVE  Matched(lrun[c], run[c + 1], c)
<1> DEFINE Right == {b \in 0..c : Matched(lrun[b], run[b + 1], b)}
<1>1. /\ N \in 0..N /\ c \in Int /\ 0 \in Nat
      /\ \A b \in 0..c : /\ b \in 0..(N - 2) /\ b \in Int /\ b + 1 \in 1..N /\ (b + 1) - 1 = b
                         /\ b # 0 => b \in 1..N /\ b + 1 # 1
  BY BarNumbers
<1>2. \A j \in 1..N : Steady(run[j], j - 1)  BY <1>1, BacktestedRight
<1>3. 0 \in Right
  <2>1. 0 \in 0..c /\ 0 + 1 = 1 /\ 0 - 1 = -1 /\ 1 - 1 = 0 /\ 1 \in 1..N  BY <1>1
  <2>2. run[1] = BacktestStep(NoSim, 0)  BY <2>1 DEF Backtested
  <2>3. lrun[0] = LiveStep(NoSim, 0)
    <3>1. lrun[0] = LiveStep(lrun[0 - 1], 0) /\ lrun[-1] = NoSim  BY <2>1 DEF Replayed
    <3> QED  BY <2>1, <3>1
  <2>4. 0 \in 0..(N - 2) /\ Steady(NoSim, 0 - 1) /\ Matched(NoSim, NoSim, 0 - 1)
    BY <1>1, <2>1, StartsRight
  <2>5. Matched(LiveStep(NoSim, 0), BacktestStep(NoSim, 0), 0)  BY <2>4, LiveMatches
  <2> QED  BY <2>1, <2>2, <2>3, <2>5
<1>4. \A b \in 0..c : b # 0 /\ b - 1 \in Right => b \in Right
  <2> SUFFICES ASSUME NEW b \in 0..c, b # 0, b - 1 \in Right  PROVE b \in Right
    OBVIOUS
  <2>1. (b - 1) + 1 = b  BY <1>1
  <2>2. PICK s : s = run[b]  OBVIOUS
  <2>3. PICK l : l = lrun[b - 1]  OBVIOUS
  <2>4. b \in 0..(N - 2) /\ Steady(s, b - 1) /\ Matched(l, s, b - 1)
    BY <1>1, <1>2, <2>1, <2>2, <2>3
  <2>5. Matched(LiveStep(l, b), BacktestStep(s, b), b)  BY <2>4, LiveMatches
  <2>6. lrun[b] = LiveStep(l, b)  BY <2>3 DEF Replayed
  <2>7. run[b + 1] = BacktestStep(s, b)
    <3>1. run[b + 1] = BacktestStep(IF b + 1 = 1 THEN NoSim ELSE run[(b + 1) - 1], (b + 1) - 1)
      BY <1>1 DEF Backtested
    <3> QED  BY <1>1, <2>2, <3>1
  <2> QED  BY <2>5, <2>6, <2>7
<1> HIDE DEF Right
<1>5. c \in Right
  <2>1. c \in 0..c  BY <1>1
  <2> QED  BY <1>1, <1>3, <1>4, <2>1, Upward
<1> QED  BY <1>5 DEF Right

\* The signals of a live simulation are those that the backtest knew.
LEMMA SignalsKnown ==
    ASSUME Given, NEW b \in 0..(N - 2), NEW sigs, SignalsRight(sigs, b), NEW lsigs, Viewed(lsigs, sigs, b)
    PROVE  lsigs = KnownAt(sigs, b)
<1>1. PICK n : n = Len(sigs)  OBVIOUS
<1>2. /\ sigs \in Seq(Signals) /\ n \in Nat /\ DOMAIN sigs = 1..n /\ \A k \in 1..n : sigs[k] \in Signals
  <2>1. sigs \in Seq(Signals)  BY DEF SignalsRight
  <2> QED  BY <1>1, <2>1
<1>3. /\ lsigs = [k \in 1..n |-> lsigs[k]]
      /\ \A k \in 1..n : lsigs[k] = View(sigs[k], b)
  <2>1. lsigs \in Seq(Signals) /\ Len(lsigs) = n  BY <1>1 DEF Viewed
  <2>2. lsigs = [k \in 1..n |-> lsigs[k]]  BY <2>1
  <2> QED  BY <1>1, <2>2 DEF Viewed
<1>4. KnownAt(sigs, b) = [k \in 1..n |-> IF Resolved(sigs[k], b) THEN sigs[k] ELSE Unknown(sigs[k])]
  BY <1>2 DEF KnownAt, Unknown
<1>5. ASSUME NEW k \in 1..n
      PROVE  View(sigs[k], b) = IF Resolved(sigs[k], b) THEN sigs[k] ELSE Unknown(sigs[k])
  <2>1. PICK rec : rec = sigs[k]  OBVIOUS
  <2>2. PICK u : u = Unknown(rec)  OBVIOUS
  <2>3. rec \in Signals /\ SignalRight(rec, b) /\ b \in Int  BY <1>1, <1>2, <2>1 DEF SignalsRight
  <2>4. ASSUME rec.fired, ~Resolved(rec, b)  PROVE rec = u
    <3>1. rec.pnl = NONE
      <4> SUFFICES ASSUME rec.pnl # NONE  PROVE FALSE  OBVIOUS
      <4>1. rec.resolvedBar \in Int /\ rec.resolvedBar <= b  BY <2>3, <2>4 DEF SignalRight
      <4> QED  BY <2>3, <2>4, <4>1, NotNone DEF Resolved
    <3>2. rec.resolvedBar = NONE  BY <2>3, <2>4, <3>1 DEF SignalRight
    <3>3. /\ u \in Signals /\ u.bar = rec.bar /\ u.fired = rec.fired /\ u.pnl = NONE
          /\ u.resolvedBar = NONE
      BY <2>2, <2>3 DEF Unknown, Signals, Levels
    <3> QED  BY <2>3, <3>1, <3>2, <3>3, SignalsEqual
  <2> QED  BY <2>1, <2>2, <2>4 DEF View
<1> QED  BY <1>3, <1>4, <1>5

\* LiveCycle's recursive function, from a checkpoint l at bar c to bar d.
Cycle(run, l, c, d) == run = [b \in c..d |-> IF b = c THEN l ELSE LiveStep(run[b - 1], b)]

LEMMA CycleExtends ==
    ASSUME NEW l, NEW c \in Int, NEW d \in Int, d >= c, NEW g, Cycle(g, l, c, d)
    PROVE  \E h : Cycle(h, l, c, d + 1)
<1> DEFINE h == [b \in c..(d + 1) |-> IF b = d + 1 THEN LiveStep(g[d], b) ELSE g[b]]
<1>1. \A b \in c..(d + 1) : h[b] = IF b = c THEN l ELSE LiveStep(h[b - 1], b)
  <2> TAKE b \in c..(d + 1)
  <2>1. CASE b = d + 1
    <3>1. b # c /\ b - 1 = d /\ d \in c..(d + 1) /\ d # d + 1  BY <2>1
    <3>2. h[b] = LiveStep(g[d], b) /\ h[d] = g[d]  BY <2>1, <3>1
    <3> HIDE DEF h
    <3> QED  BY <3>1, <3>2
  <2>2. CASE b # d + 1
    <3>1. b \in c..d  BY <2>2
    <3>2. h[b] = g[b]  BY <2>2
    <3>3. g[b] = IF b = c THEN l ELSE LiveStep(g[b - 1], b)  BY <3>1 DEF Cycle
    <3>4. b # c => h[b - 1] = g[b - 1]
      <4>1. b # c => b - 1 \in c..(d + 1) /\ b - 1 # d + 1  BY <3>1
      <4> QED  BY <4>1
    <3> HIDE DEF h
    <3> QED  BY <3>2, <3>3, <3>4
  <2> QED  BY <2>1, <2>2
<1>2. h = [b \in c..(d + 1) |-> h[b]]  OBVIOUS
<1> HIDE DEF h
<1>3. Cycle(h, l, c, d + 1)  BY <1>1, <1>2 DEF Cycle
<1> QED  BY <1>3

LEMMA CycleExists ==
    ASSUME NEW l, NEW c \in Int, NEW d \in Int, d >= c
    PROVE  \E run : Cycle(run, l, c, d)
<1> DEFINE Reached == {i \in 0..(d - c) : \E run : Cycle(run, l, c, c + i)}
<1>1. 0 \in Nat /\ d - c \in Int /\ 0 \in 0..(d - c) /\ d - c \in 0..(d - c)
      /\ c + 0 = c /\ c + (d - c) = d
  OBVIOUS
<1>2. 0 \in Reached
  <2> DEFINE g == [b \in c..c |-> l]
  <2>1. c..c = {c}  OBVIOUS
  <2>2. g = [b \in c..c |-> IF b = c THEN l ELSE LiveStep(g[b - 1], b)]  BY <2>1
  <2> HIDE DEF g
  <2>3. Cycle(g, l, c, c + 0)  BY <1>1, <2>2 DEF Cycle
  <2> QED  BY <1>1, <2>3
<1>3. \A i \in 0..(d - c) : i # 0 /\ i - 1 \in Reached => i \in Reached
  <2> SUFFICES ASSUME NEW i \in 0..(d - c), i # 0, i - 1 \in Reached  PROVE i \in Reached
    OBVIOUS
  <2>1. PICK g : Cycle(g, l, c, c + (i - 1))  OBVIOUS
  <2>2. PICK k : k = c + (i - 1)  OBVIOUS
  <2>3. k \in Int /\ k >= c /\ k + 1 = c + i  BY <2>2
  <2>4. \E h : Cycle(h, l, c, k + 1)  BY <2>1, <2>2, <2>3, CycleExtends
  <2> QED  BY <2>3, <2>4
<1> HIDE DEF Reached
<1>4. d - c \in Reached  BY <1>1, <1>2, <1>3, Upward
<1> QED  BY <1>1, <1>4 DEF Reached

\* A cycle goes on where the last one ended.
LEMMA ReplayGoesOn ==
    ASSUME NEW c \in -1..(N - 1), NEW d \in (c + 1)..(N - 1), NEW run, Replayed(run, c),
           NEW g, Cycle(g, run[c], c, d)
    PROVE  \E h : Replayed(h, d) /\ h[d] = g[d]
<1> DEFINE h == [b \in -1..d |-> IF b <= c THEN run[b] ELSE g[b]]
<1>1. c \in Int /\ d \in Int /\ c < d /\ -1 <= c /\ d \in -1..d /\ ~(d <= c) /\ -1 \in -1..d
      /\ N \in Int
  BY BarNumbers
<1>2. h[-1] = NoSim /\ h[d] = g[d]  BY <1>1 DEF Replayed
<1>3. \A b \in c..d : g[b] = IF b = c THEN run[c] ELSE LiveStep(g[b - 1], b)  BY DEF Cycle
<1>4. ASSUME NEW b \in 0..d  PROVE h[b] = LiveStep(h[b - 1], b)
  <2>1. b \in -1..d /\ b - 1 \in -1..d /\ b \in Int  BY <1>1
  <2>2. CASE b <= c
    <3>1. b \in 0..c /\ b - 1 <= c  BY <1>1, <2>1, <2>2
    <3>2. h[b] = run[b] /\ h[b - 1] = run[b - 1]  BY <2>1, <2>2, <3>1
    <3> HIDE DEF h
    <3> QED  BY <3>1, <3>2 DEF Replayed
  <2>3. CASE ~(b <= c)
    <3>1. b \in c..d /\ b # c /\ b - 1 \in c..d  BY <1>1, <2>1, <2>3
    <3>2. h[b] = g[b]  BY <2>1, <2>3
    <3>3. h[b - 1] = g[b - 1]
      <4>1. CASE b - 1 <= c
        <5>1. b - 1 = c  BY <3>1, <4>1
        <5>2. c \in c..d  BY <1>1
        <5>3. g[c] = run[c]  BY <1>3, <5>2
        <5> QED  BY <2>1, <4>1, <5>1, <5>3
      <4>2. CASE ~(b - 1 <= c)
        BY <2>1, <4>2
      <4> QED  BY <4>1, <4>2
    <3> HIDE DEF h
    <3> QED  BY <1>3, <3>1, <3>2, <3>3
  <2> QED  BY <2>2, <2>3
<1> HIDE DEF h
<1>5. Replayed(h, d)  BY <1>2, <1>4 DEF Replayed
<1> QED  BY <1>2, <1>5

\* An open position at the end of the data.
Ended(s) ==
    [Close(s, N - 1, Price(bars[N - 1].close), "end_of_data", s.signals) EXCEPT !.history = s.history]

LEMMA EndedFields ==
    ASSUME Given, NEW s, Steady(s, N - 1), s.pos # NONE
    PROVE  /\ Ended(s).signals = s.signals /\ TradesRight(Ended(s).trades)
           /\ Ended(s).trades \in Seq(TradeRows) /\ Ended(s).pos = NONE
<1>1. PICK b : b = N - 1  OBVIOUS
<1>2. PICK raw : raw = Price(bars[b].close)  OBVIOUS
<1>3. b \in 0..(N - 1) /\ b \in Int /\ raw \in Int
  <2>1. b \in 0..(N - 1) /\ b \in Int  BY <1>1, BarNumbers
  <2> QED  BY <1>2, <2>1, BarPrices
<1>4. s \in Sims /\ Placed(s.pos) /\ TradesRight(s.trades)
  <2>1. s \in Sims /\ Standing(s.pos, s.exitAt, b) /\ TradesRight(s.trades)  BY <1>1 DEF Steady
  <2>2. PICK e : e = s.pos.entry  OBVIOUS
  <2>3. PICK w : w = PhantomWalk(e)  OBVIOUS
  <2>4. /\ e \in 0..(N - 2) /\ e < b /\ w[b].pnl = NONE /\ s.pos = w[b].ph.pos
    BY <2>1, <2>2, <2>3 DEF Standing
  <2>5. e \in 0..(N - 1) /\ b \in e..(N - 1) /\ b # e  BY <1>1, <1>3, <2>4, BarNumbers
  <2>6. Walking(w[b], e, b)  BY <2>3, <2>5, WalksTyped
  <2>7. Placed(s.pos)  BY <2>4, <2>5, <2>6 DEF Walking
  <2> QED  BY <2>1, <2>7
<1>5. PICK c : c = Close(s, b, raw, "end_of_data", s.signals)  OBVIOUS
<1>6. ClosedBy(s, c, b, raw, "end_of_data", s.signals)
  <2>1. "end_of_data" \in Reasons /\ s.signals \in Seq(Signals)  BY <1>4 DEF Reasons, Sims
  <2> QED  BY <1>3, <1>4, <1>5, <2>1, CloseFields
<1>7. PICK t : t = Ended(s)  OBVIOUS
<1>8. t = [c EXCEPT !.history = s.history]  BY <1>1, <1>2, <1>5, <1>7 DEF Ended
<1>9. c \in Sims /\ s.history \in Seq(Completions)  BY <1>4, <1>6 DEF ClosedBy, Sims
<1>10. t.signals = c.signals /\ t.trades = c.trades /\ c.trades \in Seq(TradeRows) /\ t.pos = c.pos
  BY <1>8, <1>9 DEF Sims
<1>11. c.pos = NONE /\ c.signals = s.signals /\ c.trades = Append(s.trades, TradeOf(s.pos, b, raw, "end_of_data"))
  BY <1>6 DEF ClosedBy
<1>12. TradesRight(c.trades)
  <2>1. PICK x : x = TradeOf(s.pos, b, raw, "end_of_data")  OBVIOUS
  <2>2. x \in TradeRows /\ x.reason = "end_of_data"
    <3>1. PhantomReturn(s.pos, raw) \in Int  BY <1>3, <1>4, ReturnTyped
    <3>2. s.pos.entry \in Int  BY <1>4 DEF Placed, Positions
    <3> QED  BY <1>3, <2>1, <3>1, <3>2 DEF TradeOf, TradeRows, Reasons, PhantomReturn
  <2>3. TradeRight(x)  BY <2>2 DEF TradeRight
  <2>4. s.trades \in Seq(TradeRows)  BY <1>4 DEF Sims
  <2> QED  BY <1>4, <1>11, <2>1, <2>2, <2>3, <2>4, TradeAppended
<1> QED  BY <1>7, <1>10, <1>11, <1>12

-----------------------------------------------------------------------------
(* A step that keeps the spec and the history keeps what is computed from  *)
(* them.                                                                   *)

Kept == strategy' = strategy /\ bars' = bars

LEMMA LevelsKept ==
    ASSUME Kept
    PROVE  /\ \A f, e : StopLevel(f, e)' = StopLevel(f, e)
           /\ \A f, s, e : TpLevel(f, s, e)' = TpLevel(f, s, e)
           /\ \A r, e : NewPosition(r, e)' = NewPosition(r, e)
           /\ \A r, e : OpenPosition(r, e)' = OpenPosition(r, e)
           /\ \A p, b : IntrabarExit(p, b)' = IntrabarExit(p, b)
           /\ \A p, b : UpdateTrailing(p, b)' = UpdateTrailing(p, b)
<1>1. \A f, e : StopLevel(f, e)' = StopLevel(f, e)  BY DEF Kept, StopLevel
<1>2. \A f, s, e : TpLevel(f, s, e)' = TpLevel(f, s, e)  BY DEF Kept, TpLevel
<1>3. ASSUME NEW r, NEW e  PROVE NewPosition(r, e)' = NewPosition(r, e)
  BY Zenon, <1>1, <1>2 DEF NewPosition
<1>4. ASSUME NEW r, NEW e  PROVE OpenPosition(r, e)' = OpenPosition(r, e)
  BY <1>3 DEF Kept, OpenPosition, Sized
<1>5. \A p, b : IntrabarExit(p, b)' = IntrabarExit(p, b)  BY DEF Kept, IntrabarExit
<1>6. \A p, b : UpdateTrailing(p, b)' = UpdateTrailing(p, b)  BY DEF Kept, UpdateTrailing
<1> QED  BY <1>1, <1>2, <1>3, <1>4, <1>5, <1>6

LEMMA ExitsKept ==
    ASSUME Kept, NEW b, NEW e
    PROVE  ExitDecided(b, e)' <=> ExitDecided(b, e)
  BY DEF Kept, ExitDecided, CondExit

LEMMA EvalKept ==
    ASSUME Kept, NEW s, NEW b
    PROVE  /\ EntryEval(s, b)' <=> EntryEval(s, b)
           /\ TracksSignals' <=> TracksSignals
<1>1. TracksSignals' <=> TracksSignals  BY DEF Kept, TracksSignals
<1>2. EntryEval(s, b)' <=> EntryEval(s, b)  BY <1>1 DEF Kept, EntryEval
<1> QED  BY <1>1, <1>2

LEMMA PhantomsKept ==
    ASSUME Kept
    PROVE  /\ \A ph, b : AdvancePhantom(ph, b)' = AdvancePhantom(ph, b)
           /\ \A b : Phantom(b)' = Phantom(b)
           /\ \A s, b : AdvancePhantoms(s, b)' = AdvancePhantoms(s, b)
<1>1. ASSUME NEW ph, NEW b  PROVE AdvancePhantom(ph, b)' = AdvancePhantom(ph, b)
  <2>1. PICK p : p = PosOn(ph, b)  OBVIOUS
  <2>2. PosOn(ph, b)' = p
    <3>1. PICK raw : raw = Price(bars[b].open)  OBVIOUS
    <3>2. Price(bars[b].open)' = raw  BY <3>1 DEF Kept, Price
    <3>3. NewPosition(raw, ph.bar)' = NewPosition(raw, ph.bar)  BY LevelsKept
    <3> QED  BY <2>1, <3>1, <3>2, <3>3 DEF PosOn
  <2>3. PICK h : h = IntrabarExit(p, b)  OBVIOUS
  <2>4. PICK q : q = UpdateTrailing(p, b)  OBVIOUS
  <2>5. PICK at : at = IF ExitDecided(b, ph.bar) THEN b ELSE NONE  OBVIOUS
  <2>6. IntrabarExit(p, b)' = h /\ UpdateTrailing(p, b)' = q  BY <2>3, <2>4, LevelsKept
  <2>7. at = IF ExitDecided(b, ph.bar)' THEN b ELSE NONE  BY <2>5, ExitsKept
  <2>8. PICK raw : raw = Price(bars[b].open)  OBVIOUS
  <2>9. Price(bars[b].open)' = raw  BY <2>8 DEF Kept, Price
  <2> DEFINE Out == CASE ph.exitAt # NONE -> [ph |-> ph, pnl |-> PhantomReturn(p, raw), resolvedBar |-> b]
                      [] ph.exitAt = NONE /\ h # NONE ->
                            [ph |-> ph, pnl |-> PhantomReturn(p, h.raw), resolvedBar |-> b]
                      [] OTHER -> [ph |-> [ph EXCEPT !.pos = q, !.exitAt = at],
                                   pnl |-> NONE, resolvedBar |-> NONE]
  <2>10. AdvancePhantom(ph, b) = Out
    BY Zenon, <2>1, <2>3, <2>4, <2>5, <2>8 DEF AdvancePhantom, PosOn
  <2>11. AdvancePhantom(ph, b)' = Out
    BY Zenon, <2>2, <2>6, <2>7, <2>8, <2>9 DEF AdvancePhantom, PosOn
  <2> QED  BY <2>10, <2>11
<1>2. ASSUME NEW b  PROVE Phantom(b)' = Phantom(b)
  <2>1. \A r, k : Moved(r, k)' = Moved(r, k)  BY <1>1 DEF Moved
  <2>2. \A run : Walk(run, b, N - 1)' <=> Walk(run, b, N - 1)  BY <2>1 DEF Walk
  <2>3. PhantomWalk(b)' = PhantomWalk(b)  BY <2>2 DEF PhantomWalk
  <2>4. PICK end : end = PhantomWalk(b)[N - 1]  OBVIOUS
  <2>5. Valued(end)' = Valued(end)  BY DEF Kept, Valued
  <2>6. (Phantom(b) = Valued(PhantomWalk(b)[N - 1]))'
    BY Zenon DEF Phantom, PhantomWalk, Valued, Walk, Unmoved, Moved
  <2> QED  BY <2>3, <2>4, <2>5, <2>6, PhantomOfWalk
<1>3. ASSUME NEW s, NEW b  PROVE AdvancePhantoms(s, b)' = AdvancePhantoms(s, b)
  BY Zenon, <1>1 DEF AdvancePhantoms
<1> QED  BY <1>1, <1>2, <1>3

LEMMA StagesKept ==
    ASSUME Kept
    PROVE  /\ \A s, b : FillEntry(s, b)' = FillEntry(s, b)
           /\ \A s, b, replay : FillExit(s, b, replay)' = FillExit(s, b, replay)
           /\ \A s, b, replay : Intrabar(s, b, replay)' = Intrabar(s, b, replay)
           /\ \A s, b, c : DecideExit(s, b, c)' = DecideExit(s, b, c)
           /\ \A s, b, c, replay : DecideEntry(s, b, c, replay)' = DecideEntry(s, b, c, replay)
<1>1. ASSUME NEW s, NEW b  PROVE FillEntry(s, b)' = FillEntry(s, b)
  BY LevelsKept DEF Kept, FillEntry
<1>2. ASSUME NEW s, NEW raw, NEW b, NEW replay  PROVE Score(s, raw, b, replay)' = Score(s, raw, b, replay)
  BY EvalKept DEF Score, LiveScore, BacktestScore
<1>3. ASSUME NEW s, NEW b, NEW replay  PROVE FillExit(s, b, replay)' = FillExit(s, b, replay)
  BY <1>2 DEF Kept, FillExit
<1>4. ASSUME NEW s, NEW b, NEW replay  PROVE Intrabar(s, b, replay)' = Intrabar(s, b, replay)
  BY <1>2, LevelsKept DEF Intrabar
<1>5. ASSUME NEW s, NEW b, NEW c  PROVE DecideExit(s, b, c)' = DecideExit(s, b, c)
  BY ExitsKept DEF DecideExit
<1>6. ASSUME NEW s, NEW b, NEW c, NEW replay
      PROVE  DecideEntry(s, b, c, replay)' = DecideEntry(s, b, c, replay)
  BY EvalKept, PhantomsKept DEF Kept, DecideEntry, LiveSkip, BacktestSkip
<1> QED  BY <1>1, <1>3, <1>4, <1>5, <1>6

LEMMA StepsKept ==
    ASSUME Kept
    PROVE  /\ \A s, b : BacktestStep(s, b)' = BacktestStep(s, b)
           /\ \A s, b : LiveStep(s, b)' = LiveStep(s, b)
           /\ \A s : Ended(s)' = Ended(s)
<1>1. ASSUME NEW s, NEW b  PROVE BacktestStep(s, b)' = BacktestStep(s, b)
  BY Zenon, StagesKept DEF BacktestStep
<1>2. ASSUME NEW s, NEW b  PROVE LiveStep(s, b)' = LiveStep(s, b)
  <2>1. PICK t : t = FillEntry(s, b)  OBVIOUS
  <2>2. PICK u : u = FillExit(t, b, TRUE)  OBVIOUS
  <2>3. PICK v : v = Intrabar(u, b, TRUE)  OBVIOUS
  <2>4. PICK w : w = AdvancePhantoms(v, b)  OBVIOUS
  <2>5. PICK x : x = DecideEntry(w, b, TRUE, TRUE)  OBVIOUS
  <2>6. PICK y : y = DecideExit(x, b, TRUE)  OBVIOUS
  <2>7. LiveStep(s, b) = y  BY <2>1, <2>2, <2>3, <2>4, <2>5, <2>6 DEF LiveStep
  <2>8. /\ FillEntry(s, b)' = t /\ FillExit(t, b, TRUE)' = u /\ Intrabar(u, b, TRUE)' = v
        /\ DecideEntry(w, b, TRUE, TRUE)' = x /\ DecideExit(x, b, TRUE)' = y
    BY <2>1, <2>2, <2>3, <2>5, <2>6, StagesKept
  <2>9. AdvancePhantoms(v, b)' = w  BY <2>4, PhantomsKept
  <2>10. LiveStep(s, b)' = y  BY <2>8, <2>9 DEF LiveStep
  <2> QED  BY <2>7, <2>10
<1>3. ASSUME NEW s  PROVE Ended(s)' = Ended(s)
  BY Zenon DEF Kept, Ended, Close
<1> QED  BY <1>1, <1>2, <1>3

LEMMA RunsKept ==
    ASSUME Kept, NEW run, NEW n
    PROVE  /\ Backtested(run, n)' <=> Backtested(run, n)
           /\ Replayed(run, n)' <=> Replayed(run, n)
<1>1. \A s, b : BacktestStep(s, b)' = BacktestStep(s, b)  BY StepsKept
<1>2. \A s, b : LiveStep(s, b)' = LiveStep(s, b)  BY StepsKept
<1>3. Backtested(run, n)' <=> Backtested(run, n)  BY <1>1 DEF Backtested
<1>4. Replayed(run, n)' <=> Replayed(run, n)  BY <1>2 DEF Replayed
<1> QED  BY <1>3, <1>4

-----------------------------------------------------------------------------
(* The behaviours.                                                         *)
(*                                                                         *)
(* The invariant says what a state was computed from, and no more: the     *)
(* trail holds the states of the backtest's bars, the backtest is the last *)
(* of them or that one closed, and the checkpoint is what single live      *)
(* steps from the first bar give.  What these computations keep from bar   *)
(* to bar is shown above, without a step of the system.                    *)

LastState(tr, n) == IF n = 0 THEN NoSim ELSE tr[n]
Walked(s, tr, n) ==
    \/ s = LastState(tr, n)
    \/ n = N /\ tr[n].pos # NONE /\ s = Ended(tr[n])

SimInv ==
    /\ Given
    /\ done \in 0..N /\ trail \in Seq(Sims) /\ Len(trail) = done
    /\ Backtested(trail, done)
    /\ Walked(backtest, trail, done)
    /\ lastBar \in -1..(N - 1) /\ (lastBar # -1 => done = N)
    /\ \E run : Replayed(run, lastBar) /\ live = run[lastBar]
    /\ lastBar # -1 => decision = Decision(live, lastBar)

\* Every state of the trail, and so the latest, is right.
LEMMA LatestRight ==
    ASSUME Given, NEW n \in 0..N, NEW tr, Backtested(tr, n)
    PROVE  Steady(LastState(tr, n), n - 1)
<1>1. CASE n = 0
  BY <1>1, StartsRight DEF LastState
<1>2. CASE n # 0
  <2>1. n \in 1..n  BY <1>2, BarNumbers
  <2> QED  BY <1>2, <2>1, BacktestedRight DEF LastState
<1> QED  BY <1>1, <1>2

\* The trail with one more bar.
LEMMA TrailExtends ==
    ASSUME Given, NEW n \in 0..(N - 1), NEW tr \in Seq(Sims), Len(tr) = n, Backtested(tr, n),
           NEW t, t = BacktestStep(LastState(tr, n), n)
    PROVE  /\ Append(tr, t) \in Seq(Sims) /\ Len(Append(tr, t)) = n + 1
           /\ Backtested(Append(tr, t), n + 1) /\ t = LastState(Append(tr, t), n + 1)
<1>1. n \in 0..N /\ n \in Nat /\ n + 1 # 0  BY BarNumbers
<1>2. PICK s : s = LastState(tr, n)  OBVIOUS
<1>3. Steady(s, n - 1)  BY <1>1, <1>2, LatestRight
<1>4. t \in Sims
  <2>1. Steady(BacktestStep(s, n), n)  BY <1>3, BacktestKeeps
  <2> QED  BY <1>2, <2>1 DEF Steady
<1>5. PICK new : new = Append(tr, t)  OBVIOUS
<1>6. /\ new \in Seq(Sims) /\ Len(new) = n + 1 /\ new[n + 1] = t
      /\ \A j \in 1..n : new[j] = tr[j]
  BY <1>4, <1>5, AppendProperties
<1>7. ASSUME NEW j \in 1..(n + 1)
      PROVE  new[j] = BacktestStep(IF j = 1 THEN NoSim ELSE new[j - 1], j - 1)
  <2>1. CASE j = n + 1
    <3>1. j - 1 = n  BY <1>1, <2>1
    <3>2. s = IF j = 1 THEN NoSim ELSE new[j - 1]
      <4>1. CASE j = 1
        <5>1. n = 0  BY <1>1, <2>1, <4>1
        <5> QED  BY <1>2, <4>1, <5>1 DEF LastState
      <4>2. CASE j # 1
        <5>1. n # 0 /\ n \in 1..n  BY <1>1, <2>1, <4>2
        <5> QED  BY <1>2, <1>6, <3>1, <4>2, <5>1 DEF LastState
      <4> QED  BY <4>1, <4>2
    <3> QED  BY <1>2, <1>6, <2>1, <3>1, <3>2
  <2>2. CASE j # n + 1
    <3>1. j \in 1..n /\ (j # 1 => j - 1 \in 1..n)  BY <1>1, <2>2
    <3>2. tr[j] = BacktestStep(IF j = 1 THEN NoSim ELSE tr[j - 1], j - 1)
      BY <3>1 DEF Backtested
    <3>3. (IF j = 1 THEN NoSim ELSE tr[j - 1]) = (IF j = 1 THEN NoSim ELSE new[j - 1])
      BY <1>6, <3>1
    <3> QED  BY <1>6, <3>1, <3>2, <3>3
  <2> QED  BY <2>1, <2>2
<1>8. Backtested(new, n + 1)  BY <1>7 DEF Backtested
<1>9. t = LastState(new, n + 1)  BY <1>1, <1>6 DEF LastState
<1> QED  BY <1>5, <1>6, <1>8, <1>9

LEMMA SimStarts == SimInit => SimInv
<1> SUFFICES ASSUME SimInit  PROVE SimInv  OBVIOUS
<1>1. /\ Given /\ done = 0 /\ trail = <<>> /\ backtest = NoSim /\ live = NoSim /\ lastBar = -1
  BY DEF SimInit, Given
<1>2. 0 \in 0..N /\ <<>> \in Seq(Sims) /\ Len(<<>>) = 0 /\ 1..0 = {} /\ -1 \in -1..(N - 1)
  BY BarNumbers
<1>3. Backtested(trail, done)  BY <1>1, <1>2 DEF Backtested
<1>4. Walked(backtest, trail, done)  BY <1>1 DEF Walked, LastState
<1>5. \E run : Replayed(run, lastBar) /\ live = run[lastBar]
  <2> DEFINE run == [b \in {-1} |-> NoSim]
  <2>1. run[-1] = NoSim  OBVIOUS
  <2>2. 0..(-1) = {}  OBVIOUS
  <2> HIDE DEF run
  <2>3. Replayed(run, -1)  BY <2>1, <2>2 DEF Replayed
  <2> QED  BY <1>1, <2>1, <2>3
<1> QED  BY <1>1, <1>2, <1>3, <1>4, <1>5 DEF SimInv

\* What a step keeps that changes neither the checkpoint nor the decision.
LEMMA CheckpointKept ==
    ASSUME SimInv, Kept, UNCHANGED <<live, lastBar, decision>>
    PROVE  /\ lastBar' \in -1..(N - 1) /\ (lastBar' # -1 => done = N)
           /\ (\E run : Replayed(run, lastBar) /\ live = run[lastBar])'
           /\ lastBar' # -1 => decision' = Decision(live', lastBar')
<1>1. PICK run : Replayed(run, lastBar) /\ live = run[lastBar]  BY DEF SimInv
<1>2. PICK c : c = lastBar  OBVIOUS
<1>3. Replayed(run, c)'  BY <1>1, <1>2, RunsKept
<1>4. lastBar' = c /\ live' = run[c]  BY <1>1, <1>2
<1>5. Replayed(run, lastBar)'  BY <1>3, <1>4
<1>6. (\E r : Replayed(r, lastBar) /\ live = r[lastBar])'  BY <1>4, <1>5
<1> QED  BY <1>6 DEF SimInv

\* And one that does not change the backtest.
LEMMA TrailKept ==
    ASSUME SimInv, Kept, UNCHANGED <<done, trail>>
    PROVE  /\ done' \in 0..N /\ trail' \in Seq(Sims) /\ Len(trail') = done'
           /\ Backtested(trail, done)'
<1>1. PICK n : n = done  OBVIOUS
<1>2. PICK tr : tr = trail  OBVIOUS
<1>3. Backtested(tr, n)  BY <1>1, <1>2 DEF SimInv
<1>4. Backtested(tr, n)'  BY <1>3, RunsKept
<1>5. done' = n /\ trail' = tr  BY <1>1, <1>2
<1>6. Backtested(trail, done)'  BY <1>4, <1>5
<1> QED  BY <1>6 DEF SimInv

LEMMA WalkedKept ==
    ASSUME Kept, NEW s, NEW tr, NEW n
    PROVE  Walked(s, tr, n)' <=> Walked(s, tr, n)
<1>1. \A t : Ended(t)' = Ended(t)  BY StepsKept
<1> QED  BY <1>1 DEF Walked

LEMMA BarSteps ==
    ASSUME SimInv, BacktestBar
    PROVE  SimInv'
<1>1. /\ done < N /\ done' = done + 1 /\ trail' = Append(trail, backtest')
      /\ backtest' = BacktestStep(backtest, done) /\ Kept
      /\ UNCHANGED <<strategy, bars, live, lastBar, decision>>
  BY DEF BacktestBar, Kept
<1>2. PICK n : n = done  OBVIOUS
<1>3. PICK tr : tr = trail  OBVIOUS
<1>4. PICK t : t = backtest'  OBVIOUS
<1>5. PICK new : new = Append(tr, t)  OBVIOUS
<1>6. /\ Given /\ n \in 0..(N - 1) /\ n # N /\ tr \in Seq(Sims) /\ Len(tr) = n /\ Backtested(tr, n)
      /\ Walked(backtest, tr, n) /\ lastBar = -1
  <2>1. /\ Given /\ n \in 0..N /\ tr \in Seq(Sims) /\ Len(tr) = n /\ Backtested(tr, n)
        /\ Walked(backtest, tr, n) /\ (lastBar # -1 => n = N)
    BY <1>2, <1>3 DEF SimInv
  <2>2. n \in 0..(N - 1) /\ n # N  BY <1>1, <1>2, <2>1, BarNumbers
  <2> QED  BY <2>1, <2>2
<1>7. t = BacktestStep(LastState(tr, n), n)
  <2>1. PICK s : s = backtest  OBVIOUS
  <2>2. s = LastState(tr, n)  BY <1>6, <2>1 DEF Walked
  <2> QED  BY <1>1, <1>2, <1>4, <2>1, <2>2
<1>8. /\ new \in Seq(Sims) /\ Len(new) = n + 1
      /\ Backtested(new, n + 1) /\ t = LastState(new, n + 1)
  BY <1>5, <1>6, <1>7, TrailExtends
<1>9. PICK k : k = n + 1  OBVIOUS
<1>10. done' = k /\ trail' = new /\ backtest' = t /\ k \in 0..N
  BY <1>1, <1>2, <1>3, <1>4, <1>5, <1>6, <1>9, BarNumbers
<1>11. Backtested(trail, done)'
  <2>1. Backtested(new, k)'  BY <1>1, <1>8, <1>9, RunsKept
  <2> QED  BY <1>10, <2>1
<1>12. Walked(backtest, trail, done)'
  <2>1. backtest' = LastState(trail', done')  BY <1>8, <1>9, <1>10
  <2> QED  BY <2>1 DEF Walked
<1>13. /\ lastBar' = -1 /\ lastBar' \in -1..(N - 1)
       /\ (\E run : Replayed(run, lastBar) /\ live = run[lastBar])'
  BY <1>1, <1>6, CheckpointKept
<1>14. Given'  BY <1>1, <1>6 DEF Given
<1> QED  BY <1>8, <1>9, <1>10, <1>11, <1>12, <1>13, <1>14 DEF SimInv

LEMMA EndSteps ==
    ASSUME SimInv, EndOfData
    PROVE  SimInv'
<1>1. /\ done = N /\ backtest.pos # NONE /\ Kept /\ backtest' = Ended(backtest)
      /\ UNCHANGED <<strategy, bars, done, trail, live, lastBar, decision>>
  BY DEF EndOfData, Kept, Ended
<1>2. PICK tr : tr = trail  OBVIOUS
<1>3. PICK s : s = backtest  OBVIOUS
<1>4. /\ Given /\ tr \in Seq(Sims) /\ Len(tr) = N /\ Backtested(tr, N) /\ Walked(s, tr, N)
  BY <1>1, <1>2, <1>3 DEF SimInv
<1>5. s = tr[N]
  <2>1. CASE s = LastState(tr, N)
    BY <2>1, BarNumbers DEF LastState
  <2>2. CASE tr[N].pos # NONE /\ s = Ended(tr[N])
    <3>1. PICK u : u = tr[N]  OBVIOUS
    <3>2. u \in Sims
      <4>1. N \in 1..Len(tr)  BY <1>4, BarNumbers
      <4> QED  BY <1>4, <3>1, <4>1
    <3>3. s.pos = NONE
      <4>1. N \in 0..N /\ N # 0  BY BarNumbers
      <4>2. Steady(LastState(tr, N), N - 1)  BY <1>4, <4>1, LatestRight
      <4>3. Steady(u, N - 1)  BY <3>1, <4>1, <4>2 DEF LastState
      <4> QED  BY <1>4, <2>2, <3>1, <4>3, EndedFields
    <3> QED  BY <1>1, <1>3, <3>3
  <2> QED  BY <1>4, <2>1, <2>2 DEF Walked
<1>6. PICK t : t = Ended(s)  OBVIOUS
<1>7. Walked(t, tr, N)  BY <1>1, <1>3, <1>5, <1>6 DEF Walked
<1>8. Walked(backtest, trail, done)'
  <2>1. Walked(t, tr, N)'  BY <1>1, <1>7, WalkedKept
  <2>2. backtest' = t /\ trail' = tr /\ done' = N  BY <1>1, <1>2, <1>3, <1>6
  <2> QED  BY <2>1, <2>2
<1>9. Given'  BY <1>1, <1>4 DEF Given
<1>10. /\ lastBar' \in -1..(N - 1) /\ (lastBar' # -1 => done = N)
       /\ (\E run : Replayed(run, lastBar) /\ live = run[lastBar])'
       /\ lastBar' # -1 => decision' = Decision(live', lastBar')
  BY <1>1, CheckpointKept
<1>11. /\ done' \in 0..N /\ trail' \in Seq(Sims) /\ Len(trail') = done'
       /\ Backtested(trail, done)'
  BY <1>1, TrailKept
<1> QED  BY <1>1, <1>8, <1>9, <1>10, <1>11 DEF SimInv

LEMMA CycleSteps ==
    ASSUME SimInv, NEW latest \in 0..(N - 1), LiveCycle(latest)
    PROVE  SimInv'
<1>1. PICK c : c = lastBar  OBVIOUS
<1>2. PICK l : l = live  OBVIOUS
<1>3. /\ done = N /\ latest \in (c + 1)..(N - 1) /\ Kept
      /\ lastBar' = latest /\ decision' = Decision(live', latest)
      /\ UNCHANGED <<strategy, bars, backtest, done, trail>>
  BY <1>1 DEF LiveCycle, Kept
<1>4. PICK g : g = CHOOSE run : Cycle(run, l, c, latest)  OBVIOUS
<1>5. live' = g[latest]
  BY Zenon, <1>1, <1>2, <1>4 DEF LiveCycle, Cycle
<1>6. /\ Given /\ c \in -1..(N - 1) /\ \E run : Replayed(run, c) /\ l = run[c]
  BY <1>1, <1>2 DEF SimInv
<1>7. c \in Int /\ latest \in Int /\ latest >= c /\ latest \in -1..(N - 1) /\ latest # -1
  BY <1>3, <1>6, BarNumbers
<1>8. Cycle(g, l, c, latest)  BY <1>4, <1>7, CycleExists
<1>9. PICK run : Replayed(run, c) /\ l = run[c]  BY <1>6
<1>10. PICK h : Replayed(h, latest) /\ h[latest] = g[latest]
  BY <1>3, <1>6, <1>8, <1>9, ReplayGoesOn
<1>11. (\E r : Replayed(r, lastBar) /\ live = r[lastBar])'
  <2>1. Replayed(h, latest)'  BY <1>3, <1>10, RunsKept
  <2>2. Replayed(h, lastBar)'  BY <1>3, <2>1
  <2>3. live' = h[lastBar']  BY <1>3, <1>5, <1>10
  <2> QED  BY <2>2, <2>3
<1>12. Walked(backtest, trail, done)'
  <2>1. PICK s : s = backtest  OBVIOUS
  <2>2. PICK tr : tr = trail  OBVIOUS
  <2>3. Walked(s, tr, N)  BY <1>3, <2>1, <2>2 DEF SimInv
  <2>4. Walked(s, tr, N)'  BY <1>3, <2>3, WalkedKept
  <2>5. backtest' = s /\ trail' = tr /\ done' = N  BY <1>3, <2>1, <2>2
  <2> QED  BY <2>4, <2>5
<1>13. /\ done' \in 0..N /\ trail' \in Seq(Sims) /\ Len(trail') = done'
       /\ Backtested(trail, done)'
  BY <1>3, TrailKept
<1>14. Given'  BY <1>3, <1>6 DEF Given
<1>15. decision' = Decision(live', lastBar')
  <2>1. PICK m : m = live'  OBVIOUS
  <2> QED  BY <1>3
<1> QED  BY <1>3, <1>7, <1>11, <1>12, <1>13, <1>14, <1>15 DEF SimInv

\* A state of a behaviour was computed from the spec and the history.
THEOREM SimInvariant == SimSpec => []SimInv
<1>1. SimInit => SimInv  BY SimStarts
<1>2. SimInv /\ [SimNext]_simVars => SimInv'
  <2> SUFFICES ASSUME SimInv, [SimNext]_simVars  PROVE SimInv'  OBVIOUS
  <2>1. CASE BacktestBar  BY <2>1, BarSteps
  <2>2. CASE EndOfData  BY <2>2, EndSteps
  <2>3. ASSUME NEW latest \in 0..(N - 1), LiveCycle(latest)  PROVE SimInv'
    BY <2>3, CycleSteps
  <2>4. CASE UNCHANGED simVars
    <3>1. Kept /\ UNCHANGED <<strategy, bars, backtest, done, trail, live, lastBar, decision>>
      BY <2>4 DEF simVars, Kept
    <3>2. PICK s : s = backtest  OBVIOUS
    <3>3. PICK tr : tr = trail  OBVIOUS
    <3>4. PICK n : n = done  OBVIOUS
    <3>5. Walked(s, tr, n)  BY <3>2, <3>3, <3>4 DEF SimInv
    <3>6. Walked(s, tr, n)'  BY <3>1, <3>5, WalkedKept
    <3>7. backtest' = s /\ trail' = tr /\ done' = n  BY <3>1, <3>2, <3>3, <3>4
    <3>8. Walked(backtest, trail, done)'  BY <3>6, <3>7
    <3>9. Given'  BY <3>1 DEF SimInv, Given
    <3>10. /\ lastBar' \in -1..(N - 1) /\ (lastBar' # -1 => done = N)
           /\ (\E run : Replayed(run, lastBar) /\ live = run[lastBar])'
           /\ lastBar' # -1 => decision' = Decision(live', lastBar')
      BY <3>1, CheckpointKept
    <3>11. /\ done' \in 0..N /\ trail' \in Seq(Sims) /\ Len(trail') = done'
           /\ Backtested(trail, done)'
      BY <3>1, TrailKept
    <3> QED  BY <3>1, <3>8, <3>9, <3>10, <3>11 DEF SimInv
  <2> QED  BY <2>1, <2>2, <2>3, <2>4 DEF SimNext
<1> QED  BY <1>1, <1>2, PTL DEF SimSpec

\* The trades and the signals of the backtest, whether it was closed or not.
LEMMA WalkedRight ==
    ASSUME SimInv
    PROVE  /\ TradesRight(backtest.trades) /\ backtest.trades \in Seq(TradeRows)
           /\ \E b \in Int : SignalsRight(backtest.signals, b)
<1>1. PICK s : s = backtest  OBVIOUS
<1>2. PICK tr : tr = trail  OBVIOUS
<1>3. PICK n : n = done  OBVIOUS
<1>4. Given /\ n \in 0..N /\ Backtested(tr, n) /\ Walked(s, tr, n)
  BY <1>1, <1>2, <1>3 DEF SimInv
<1>5. PICK u : u = LastState(tr, n)  OBVIOUS
<1>6. Steady(u, n - 1)  BY <1>4, <1>5, LatestRight
<1>7. n - 1 \in Int  BY <1>4, BarNumbers
<1>8. TradesRight(u.trades) /\ u.trades \in Seq(TradeRows) /\ SignalsRight(u.signals, n - 1)
  BY <1>6 DEF Steady, Sims
<1>9. CASE s = u
  BY <1>1, <1>7, <1>8, <1>9
<1>10. CASE s # u
  <2>1. n = N /\ tr[n].pos # NONE /\ s = Ended(tr[n])  BY <1>4, <1>5, <1>10 DEF Walked
  <2>2. u = tr[n]  BY <1>5, <2>1, BarNumbers DEF LastState
  <2>3. s.signals = u.signals /\ TradesRight(s.trades) /\ s.trades \in Seq(TradeRows)
    BY <1>4, <1>6, <2>1, <2>2, EndedFields
  <2> QED  BY <1>1, <1>7, <1>8, <2>3
<1> QED  BY <1>9, <1>10

\* A stop fills at the worse of the open and the level that the bars before
\* its own had raised it to, for every method and every history.
THEOREM StopsAreOfThePast == SimSpec => []StopsFillAtPastLevel
<1>1. SimInv => StopsFillAtPastLevel
  <2> SUFFICES ASSUME SimInv  PROVE StopsFillAtPastLevel  OBVIOUS
  <2>1. TradesRight(backtest.trades) /\ backtest.trades \in Seq(TradeRows)  BY WalkedRight
  <2>2. DOMAIN backtest.trades = 1..Len(backtest.trades)  BY <2>1
  <2> QED  BY <2>1, <2>2 DEF StopsFillAtPastLevel, TradesRight, TradeRight
<1> QED  BY <1>1, SimInvariant, PTL

\* The phantom evaluator gives a fired signal the result and the bar of the
\* trade that was made on it, for every spec and every history.
THEOREM PhantomsAreTrades == SimSpec => []PhantomMatchesTrade
<1>1. SimInv => PhantomMatchesTrade
  <2> SUFFICES ASSUME SimInv, NEW i \in DOMAIN backtest.signals,
                      backtest.signals[i].fired, backtest.signals[i].pnl # NONE
               PROVE  /\ Phantom(backtest.signals[i].bar).pnl = backtest.signals[i].pnl
                      /\ Phantom(backtest.signals[i].bar).resolvedBar = backtest.signals[i].resolvedBar
    BY Zenon DEF PhantomMatchesTrade
  <2>1. PICK sigs : sigs = backtest.signals  OBVIOUS
  <2>2. PICK b \in Int : SignalsRight(sigs, b)  BY <2>1, WalkedRight
  <2>3. sigs \in Seq(Signals)  BY <2>2 DEF SignalsRight
  <2>4. i \in 1..Len(sigs)  BY <2>1, <2>3
  <2>5. SignalRight(sigs[i], b)  BY <2>2, <2>4 DEF SignalsRight
  <2> QED  BY <2>1, <2>5 DEF SignalRight
<1> QED  BY <1>1, SimInvariant, PTL

\* Drift parity: wherever its cycles ended, a live checkpoint agrees with the
\* backtest of the same bars on the position, the cash, the trades, what is
\* known of the signals, and the decision that the last cycle returned.
THEOREM LiveIsBacktest == SimSpec => []LiveMatchesBacktest
<1>1. SimInv => LiveMatchesBacktest
  <2> SUFFICES ASSUME SimInv, lastBar \in 0..(N - 2)
               PROVE  /\ \A f \in {"pos", "cash", "entryAt", "exitAt", "trades", "history"} :
                            live[f] = trail[lastBar + 1][f]
                      /\ live.signals = KnownAt(trail[lastBar + 1].signals, lastBar)
                      /\ decision = Decision(trail[lastBar + 1], lastBar)
    BY Zenon DEF LiveMatchesBacktest
  <2>1. PICK c : c = lastBar  OBVIOUS
  <2>2. PICK tr : tr = trail  OBVIOUS
  <2>3. PICK s : s = tr[c + 1]  OBVIOUS
  <2>4. PICK l : l = live  OBVIOUS
  <2>5. /\ Given /\ c \in 0..(N - 2) /\ done = N /\ Backtested(tr, N) /\ decision = Decision(l, c)
        /\ \E run : Replayed(run, c) /\ l = run[c]
    <3>1. lastBar # -1  BY BarNumbers
    <3> QED  BY <2>1, <2>2, <2>4, <3>1 DEF SimInv
  <2>6. PICK run : Replayed(run, c) /\ l = run[c]  BY <2>5
  <2>7. Matched(l, s, c)  BY <2>3, <2>5, <2>6, ReplayedRight
  <2>8. SignalsRight(s.signals, c)
    <3>1. N \in 0..N /\ c + 1 \in 1..N /\ (c + 1) - 1 = c  BY <2>5, BarNumbers
    <3>2. Steady(tr[c + 1], (c + 1) - 1)  BY <2>5, <3>1, BacktestedRight
    <3> QED  BY <2>3, <3>1, <3>2 DEF Steady
  <2>9. Same(l, s) /\ Viewed(l.signals, s.signals, c)  BY <2>7 DEF Matched
  <2>10. l.signals = KnownAt(s.signals, c)  BY <2>5, <2>8, <2>9, SignalsKnown
  <2>11. \A f \in {"pos", "cash", "entryAt", "exitAt", "trades", "history"} : l[f] = s[f]
    BY <2>9 DEF Same
  <2>12. Decision(l, c) = Decision(s, c)  BY <2>9 DEF Decision, Same
  <2> QED  BY <2>1, <2>2, <2>3, <2>4, <2>5, <2>10, <2>11, <2>12
<1> QED  BY <1>1, SimInvariant, PTL
=============================================================================
