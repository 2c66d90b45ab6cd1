------------------------- MODULE TraderPipelineProofs -------------------------
(***************************************************************************)
(* Proofs about TraderPipeline, for every set of versions, symbols,        *)
(* timeframes, prices and every bound on time and faults.                  *)
(*                                                                         *)
(* The committed rows db alone are not inductive: what Commit publishes is *)
(* what the running phase has built in tx.  IInv therefore says of tx what *)
(* it says of db, that tx only grows from db, and what each phase knows of *)
(* the keys it still has to handle.                                        *)
(***************************************************************************)
EXTENDS TraderPipeline, TLAPS

\* A signal belongs to a candle closed after the origin of time.
Rooted(d) == \A k \in Keys : d[k].sig # "none" => k.ts > 0

\* A state row belongs to a stateful version.
StateOwned(d) == \A k \in Keys : d[k].adv => k.v \in Stateful

\* Everything the rows d satisfy on their own.
Good(d) == /\ OneOpen(d) /\ Lockstep(d) /\ ExitsPairUp(d) /\ FillsAtStoredOpen(d)
           /\ Rooted(d) /\ StateOwned(d)

\* The rows q came from the rows r by legal changes only.
Grows(r, q) == \A k \in Keys : RowGrows(r[k], q[k])

\* What the running phase knows of the keys it has loaded and not handled.
WorkList ==
    /\ pc = "signal" => \A k \in todo : k.ts > 0
    /\ pc = "risk" => \A k \in todo : tx[k].sig # "none" /\ ~tx[k].done
    /\ pc = "stops" => \A k \in todo : tx[k].pos = "OPEN"
    /\ pc = "fills" => \A k \in todo : tx[k].ord = "PENDING"

\* Positions found open, still open, and already scanned have no breach.
Scanned ==
    /\ pc = "stops" => \A k \in Keys \ todo :
          db[k].pos = "OPEN" /\ tx[k].pos = "OPEN" => Breaches(tx, k) = {}
    /\ pc = "fills" => \A k \in Keys :
          db[k].pos = "OPEN" /\ tx[k].pos = "OPEN" => Breaches(tx, k) = {}

IInv == TypeOK /\ Good(db) /\ Good(tx) /\ Grows(db, tx) /\ WorkList /\ Scanned

-----------------------------------------------------------------------------
(* Lemmas on rows *)

LEMMA GrowsReflexive == ASSUME NEW d PROVE Grows(d, d)
  BY DEF Grows, RowGrows

LEMMA RowGrowsTransitive ==
  ASSUME NEW p, NEW q, NEW r, RowGrows(p, q), RowGrows(q, r)
  PROVE  RowGrows(p, r)
  BY DEF RowGrows

LEMMA KeysFacts ==
  ASSUME NEW k \in Keys
  PROVE  k.ts \in Nat /\ k.ts \in Times /\ k.tf \in Timeframes /\ k.s \in Symbols /\ k.v \in Versions
  BY PipelineAssumption DEF Keys, Times

\* One row changes, without a fill and without touching its position.
LEMMA SoftChange ==
  ASSUME NEW d \in [Keys -> Row], Good(d), NEW k \in Keys, NEW r \in Row,
         r.fill = d[k].fill, r.pos = d[k].pos, r.exit = d[k].exit,
         r.ord = "FILLED" <=> d[k].ord = "FILLED",
         d[k].sig # "none" => r.sig = d[k].sig,
         r.ord # "none" => r.done, r.done => r.sig # "none",
         r.sig # "none" => k.ts > 0, r.adv => k.v \in Stateful
  PROVE  Good([d EXCEPT ![k] = r])
  <1> DEFINE q == [d EXCEPT ![k] = r]
  <1>1. \A x \in Keys : q[x] = IF x = k THEN r ELSE d[x]
    OBVIOUS
  <1>2. \A x \in Keys : /\ q[x].fill = d[x].fill /\ q[x].pos = d[x].pos /\ q[x].exit = d[x].exit
                        /\ q[x].ord = "FILLED" <=> d[x].ord = "FILLED"
                        /\ d[x].sig # "none" => q[x].sig = d[x].sig
    BY <1>1
  <1>3. \A x \in Keys : d[x].ord = "FILLED" => d[x].sig # "none"
    BY DEF Good, Lockstep
  <1>4. \A x \in Keys : d[x].ord = "FILLED" => q[x].sig = d[x].sig
    BY <1>2, <1>3
  <1> HIDE DEF q
  <1>5. OneOpen(q)
    BY <1>2 DEF Good, OneOpen
  <1>6. Lockstep(q)
    <2> SUFFICES ASSUME NEW x \in Keys
                 PROVE  /\ q[x].ord # "none" => q[x].done
                        /\ q[x].done => q[x].sig # "none"
                        /\ q[x].fill # 0 <=> q[x].ord = "FILLED"
                        /\ q[x].pos # "none" <=> q[x].ord = "FILLED" /\ q[x].sig = "BUY"
      BY DEF Lockstep
    <2>1. q[x].ord # "none" => q[x].done
      BY <1>1 DEF Good, Lockstep
    <2>2. q[x].done => q[x].sig # "none"
      BY <1>1 DEF Good, Lockstep
    <2>3. q[x].fill # 0 <=> q[x].ord = "FILLED"
      BY <1>2 DEF Good, Lockstep
    <2>4. q[x].pos # "none" <=> q[x].ord = "FILLED" /\ q[x].sig = "BUY"
      BY <1>2, <1>4 DEF Good, Lockstep
    <2> QED BY <2>1, <2>2, <2>3, <2>4
  <1>7. ExitsPairUp(q)
    <2>1. \A x \in Keys : q[x].exit = d[x].exit /\ q[x].pos = d[x].pos /\ d[x].exit \subseteq Keys
      BY <1>2 DEF Row
    <2>2. \A x \in Keys : q[x].sig = "EXIT" /\ q[x].ord = "FILLED" <=> d[x].sig = "EXIT" /\ d[x].ord = "FILLED"
      BY <1>2, <1>4
    <2> QED BY <2>1, <2>2 DEF Good, ExitsPairUp
  <1>8. FillsAtStoredOpen(q)
    BY <1>2, <1>4 DEF Good, FillsAtStoredOpen
  <1>9. Rooted(q)
    BY <1>1 DEF Good, Rooted
  <1>10. StateOwned(q)
    BY <1>1, Zenon DEF Good, StateOwned
  <1> QED BY <1>5, <1>6, <1>7, <1>8, <1>9, <1>10 DEF Good, q

\* The fill of a BUY opens a position where none is open.
LEMMA EntryChange ==
  ASSUME NEW d \in [Keys -> Row], Good(d), NEW k \in Keys, NEW r \in Row,
         d[k].sig = "BUY", d[k].ord = "PENDING", OpenIn(d, k) = {}, FillBarStored(k),
         r = [d[k] EXCEPT !.ord = "FILLED", !.fill = k.ts, !.pos = "OPEN"]
  PROVE  Good([d EXCEPT ![k] = r])
  <1> DEFINE q == [d EXCEPT ![k] = r]
  <1>1. \A x \in Keys : q[x] = IF x = k THEN r ELSE d[x]
    OBVIOUS
  <1>2. d[k].pos = "none" /\ d[k].exit = {} /\ d[k].done /\ d[k].fill = 0 /\ k.ts > 0
    <2>1. d[k].pos = "none" /\ d[k].fill = 0
      BY DEF Good, Lockstep, Row
    <2>2. d[k].exit = {}
      BY <2>1 DEF Good, ExitsPairUp
    <2>3. d[k].done
      BY DEF Good, Lockstep
    <2>4. k.ts > 0
      BY DEF Good, Rooted
    <2> QED BY <2>1, <2>2, <2>3, <2>4
  <1>3. /\ r.sig = "BUY" /\ r.done /\ r.ord = "FILLED" /\ r.fill = k.ts /\ r.pos = "OPEN"
        /\ r.exit = {}
    BY <1>2 DEF Row
  <1>4. \A x \in Keys : /\ q[x].exit = d[x].exit /\ q[x].sig = d[x].sig /\ q[x].adv = d[x].adv
                        /\ d[x].exit \subseteq Keys
    BY <1>1, <1>2, <1>3 DEF Row
  <1> HIDE DEF q
  <1>5. OneOpen(q)
    <2>1. \A x \in Keys : d[x].pos = "OPEN" => ~SameSlot(x, k)
      BY DEF OpenIn
    <2>2. \A x, y \in Keys : SameSlot(x, y) => SameSlot(y, x)
      BY DEF SameSlot
    <2> QED BY <1>1, <2>1, <2>2 DEF Good, OneOpen
  <1>6. Lockstep(q)
    <2> SUFFICES ASSUME NEW x \in Keys
                 PROVE  /\ q[x].ord # "none" => q[x].done
                        /\ q[x].done => q[x].sig # "none"
                        /\ q[x].fill # 0 <=> q[x].ord = "FILLED"
                        /\ q[x].pos # "none" <=> q[x].ord = "FILLED" /\ q[x].sig = "BUY"
      BY DEF Lockstep
    <2>1. CASE x = k
      <3>1. k.ts # 0
        BY <1>2, KeysFacts
      <3> QED BY <2>1, <3>1, <1>1, <1>3
    <2>2. CASE x # k
      BY <2>2, <1>1 DEF Good, Lockstep
    <2> QED BY <2>1, <2>2
  <1>7. ExitsPairUp(q)
    <2>1. \A x \in Keys : q[x].sig = "EXIT" /\ q[x].ord = "FILLED" <=> d[x].sig = "EXIT" /\ d[x].ord = "FILLED"
      BY <1>1, <1>3
    <2>2. \A x \in Keys : q[x].pos = "CLOSED" <=> d[x].pos = "CLOSED"
      BY <1>1, <1>2, <1>3
    <2> QED BY <1>4, <2>1, <2>2 DEF Good, ExitsPairUp
  <1>8. FillsAtStoredOpen(q)
    <2> SUFFICES ASSUME NEW x \in Keys, q[x].ord = "FILLED"
                 PROVE  \E c \in candles : /\ SamePair(c, x) /\ c.open = q[x].fill
                                           /\ c.open = x.ts \/ (Close(c) = x.ts /\ q[x].sig = "EXIT")
      BY DEF FillsAtStoredOpen
    <2>1. CASE x = k
      <3>1. PICK c \in candles : SamePair(c, k) /\ c.open = k.ts
        BY DEF FillBarStored
      <3> QED BY <2>1, <3>1, <1>1, <1>3
    <2>2. CASE x # k
      BY <2>2, <1>1 DEF Good, FillsAtStoredOpen
    <2> QED BY <2>1, <2>2
  <1>9. Rooted(q)
    BY <1>4 DEF Good, Rooted
  <1>10. StateOwned(q)
    BY <1>4, Zenon DEF Good, StateOwned
  <1> QED BY <1>5, <1>6, <1>7, <1>8, <1>9, <1>10 DEF Good, q

\* An order of k filled at price, the open of a stored bar.
AtStoredOpen(k, price) ==
    \E c \in candles : /\ SamePair(c, k) /\ c.open = price
                       /\ c.open = k.ts \/ Close(c) = k.ts

\* The rows q are d but for the position of p, which the order of e closes.
Closes(d, q, p, e) ==
    /\ e # p /\ SameSlot(e, p) /\ e.ts > 0
    /\ \A x \in Keys : x # e /\ x # p => q[x] = d[x]
    /\ d[p].pos = "OPEN"
    /\ q[p].sig = d[p].sig /\ q[p].ord = d[p].ord /\ (q[p].done <=> d[p].done)
    /\ q[p].fill = d[p].fill /\ q[p].pos = "CLOSED" /\ q[p].exit = {e}
    /\ d[e].ord # "FILLED" /\ d[e].sig \in {"none", "EXIT"}
    /\ q[e].sig = "EXIT" /\ q[e].ord = "FILLED" /\ q[e].done /\ q[e].fill # 0
    /\ q[e].pos = d[e].pos /\ q[e].exit = d[e].exit
    /\ q[e].adv = d[e].adv /\ q[p].adv = d[p].adv
    /\ AtStoredOpen(e, q[e].fill)

\* The position of p is closed by the order of e, which no position used before.
LEMMA ExitChange ==
  ASSUME NEW d \in [Keys -> Row], Good(d), NEW q \in [Keys -> Row],
         NEW p \in Keys, NEW e \in Keys, Closes(d, q, p, e)
  PROVE  Good(q)
  <1> USE DEF Closes
  <1>1. d[e].pos = "none" /\ d[e].exit = {} /\ d[p].sig = "BUY" /\ d[p].ord = "FILLED" /\ d[p].exit = {}
    BY DEF Good, Lockstep, ExitsPairUp, Row
  <1>2. \A x \in Keys : d[x].exit \subseteq Keys /\ q[x].exit \subseteq Keys
    BY DEF Row
  <1>3. \A x \in Keys : e \notin d[x].exit
    BY DEF Good, ExitsPairUp
  <1>4. \A x \in Keys : x # p => q[x].exit = d[x].exit
    OBVIOUS
  <1>5. OneOpen(q)
    <2>1. \A x \in Keys : q[x].pos = "OPEN" => d[x].pos = "OPEN"
      OBVIOUS
    <2> QED BY <2>1 DEF Good, OneOpen
  <1>6. Lockstep(q)
    <2> SUFFICES ASSUME NEW x \in Keys
                 PROVE  /\ q[x].ord # "none" => q[x].done
                        /\ q[x].done => q[x].sig # "none"
                        /\ q[x].fill # 0 <=> q[x].ord = "FILLED"
                        /\ q[x].pos # "none" <=> q[x].ord = "FILLED" /\ q[x].sig = "BUY"
      BY DEF Lockstep
    <2>1. CASE x = e
      BY <2>1, <1>1
    <2>2. CASE x = p
      BY <2>2, <1>1 DEF Good, Lockstep
    <2>3. CASE x # e /\ x # p
      BY <2>3 DEF Good, Lockstep
    <2> QED BY <2>1, <2>2, <2>3
  <1>7. ExitsPairUp(q)
    <2>1. \A x \in Keys : q[x].pos = "CLOSED" <=> q[x].exit # {}
      <3> SUFFICES ASSUME NEW x \in Keys PROVE q[x].pos = "CLOSED" <=> q[x].exit # {}
        OBVIOUS
      <3>1. CASE x = e  BY <3>1, <1>1
      <3>2. CASE x = p  BY <3>2
      <3>3. CASE x # e /\ x # p  BY <3>3 DEF Good, ExitsPairUp
      <3> QED BY <3>1, <3>2, <3>3
    <2>2. ASSUME NEW x \in Keys, NEW f \in q[x].exit
          PROVE  SameSlot(f, x) /\ q[f].sig = "EXIT" /\ q[f].ord = "FILLED" /\ q[x].exit = {f}
      <3>1. CASE x = p  BY <3>1
      <3>2. CASE x # p
        <4>1. f \in d[x].exit /\ f \in Keys
          BY <3>2, <1>2, <1>4
        <4>2. SameSlot(f, x) /\ d[f].sig = "EXIT" /\ d[f].ord = "FILLED" /\ d[x].exit = {f}
          BY <4>1 DEF Good, ExitsPairUp
        <4>3. f # p /\ f # e
          BY <4>1, <4>2, <1>1, <1>3
        <4> QED BY <4>1, <4>2, <4>3, <3>2, <1>4
      <3> QED BY <3>1, <3>2
    <2>3. ASSUME NEW f \in Keys, q[f].sig = "EXIT", q[f].ord = "FILLED"
          PROVE  \E x \in Keys : f \in q[x].exit
      <3>1. CASE f = e  BY <3>1
      <3>2. CASE f = p  BY <3>2, <2>3, <1>1
      <3>3. CASE f # e /\ f # p
        <4>1. PICK x \in Keys : f \in d[x].exit
          BY <3>3, <2>3 DEF Good, ExitsPairUp
        <4>2. x # p
          BY <4>1, <1>1
        <4> QED BY <4>1, <4>2, <1>4
      <3> QED BY <3>1, <3>2, <3>3
    <2>4. ASSUME NEW x \in Keys, NEW y \in Keys, q[x].exit \cap q[y].exit # {}
          PROVE  x = y
      <3>1. CASE x # p /\ y # p
        BY <3>1, <2>4, <1>4 DEF Good, ExitsPairUp
      <3>2. CASE x = p /\ y # p
        BY <3>2, <2>4, <1>3, <1>4
      <3>3. CASE x # p /\ y = p
        BY <3>3, <2>4, <1>3, <1>4
      <3> QED BY <3>1, <3>2, <3>3
    <2> QED BY <2>1, <2>2, <2>3, <2>4 DEF ExitsPairUp
  <1>8. FillsAtStoredOpen(q)
    <2> SUFFICES ASSUME NEW x \in Keys, q[x].ord = "FILLED"
                 PROVE  \E c \in candles : /\ SamePair(c, x) /\ c.open = q[x].fill
                                           /\ c.open = x.ts \/ (Close(c) = x.ts /\ q[x].sig = "EXIT")
      BY DEF FillsAtStoredOpen
    <2>1. CASE x = e
      BY <2>1 DEF AtStoredOpen
    <2>2. CASE x # e
      <3>1. d[x].ord = "FILLED" /\ d[x].fill = q[x].fill /\ d[x].sig = q[x].sig
        BY <2>2
      <3> QED BY <3>1 DEF Good, FillsAtStoredOpen
    <2> QED BY <2>1, <2>2
  <1>9. Rooted(q)
    BY <1>1 DEF Good, Rooted
  <1>10. StateOwned(q)
    <2>1. \A x \in Keys : q[x].adv = d[x].adv
      OBVIOUS
    <2> QED BY <2>1, Zenon DEF Good, StateOwned
  <1> QED BY <1>5, <1>6, <1>7, <1>8, <1>9, <1>10 DEF Good

-----------------------------------------------------------------------------
(* Lemmas on steps *)

\* The facts about rows survive new candles.
LEMMA GoodTxPrimed ==
  ASSUME candles \subseteq candles', Good(tx') PROVE Good(tx)'
  BY DEF Good, OneOpen, Lockstep, ExitsPairUp, FillsAtStoredOpen, Rooted, StateOwned

LEMMA GoodDbPrimed ==
  ASSUME candles \subseteq candles', Good(db') PROVE Good(db)'
  BY DEF Good, OneOpen, Lockstep, ExitsPairUp, FillsAtStoredOpen, Rooted, StateOwned

\* A phase, or a whole cycle, starts afresh on committed rows.
LEMMA RestartInv ==
  ASSUME IInv,
         now' \in Times, candles' \subseteq Bars, \A c \in candles' : Close(c) <= now',
         candles \subseteq candles', db' \in {db, tx}, tx' = db',
         active' \subseteq Versions, disabled' = {}, faults' \in 0 .. MaxFaults,
         pc' \in Phases \ {"fills"}, todo' \subseteq Keys,
         pc' = "signal" => \A k \in todo' : k.ts > 0,
         pc' = "risk" => todo' = Unprocessed(db'),
         pc' = "stops" => todo' = OpenPositions(db')
  PROVE  IInv'
  <1>1. TypeOK'
    BY DEF IInv, TypeOK
  <1>2. Good(db') /\ Good(tx')
    BY DEF IInv
  <1>3. Good(db)' /\ Good(tx)'
    BY <1>2, GoodTxPrimed, GoodDbPrimed
  <1>4. Grows(db, tx)'
    BY GrowsReflexive DEF Grows
  <1>5. WorkList'
    BY DEF WorkList, Unprocessed, OpenPositions
  <1>6. Scanned'
    BY DEF Scanned, OpenPositions
  <1> QED BY <1>1, <1>3, <1>4, <1>5, <1>6 DEF IInv

\* A phase handles one of its keys.
LEMMA HandledInv ==
  ASSUME IInv, NEW k \in todo, todo' = todo \ {k},
         UNCHANGED <<now, candles, db, active, pc>>,
         faults' \in 0 .. MaxFaults, disabled' \subseteq Versions,
         tx' \in [Keys -> Row], Good(tx'), Grows(tx, tx'),
         pc = "risk" => \A x \in todo \ {k} : tx'[x].sig = tx[x].sig /\ tx'[x].done = tx[x].done,
         pc = "stops" => \A x \in todo \ {k} : tx'[x].pos = tx[x].pos,
         pc = "fills" => \A x \in todo \ {k} : tx'[x].ord = tx[x].ord,
         pc = "stops" /\ tx'[k].pos = "OPEN" => Breaches(tx', k) = {}
  PROVE  IInv'
  <1>1. TypeOK'
    BY DEF IInv, TypeOK
  <1>2. Good(tx)'
    BY GoodTxPrimed
  <1>3. Good(db)'
    <2>1. db' = db /\ candles' = candles /\ Good(db)
      BY DEF IInv
    <2> QED BY <2>1, GoodDbPrimed
  <1>4. Grows(db, tx)'
    <2>1. Grows(db, tx')
      BY RowGrowsTransitive DEF IInv, Grows
    <2> QED BY <2>1 DEF Grows
  <1>5. WorkList'
    BY DEF IInv, WorkList
  <1>6. Scanned'
    <2>1. ASSUME NEW x \in Keys, db[x].pos = "OPEN", tx'[x].pos = "OPEN"
          PROVE  tx[x].pos = "OPEN" /\ Breaches(tx', x) = Breaches(tx, x)
      <3>1. db[x].pos = "OPEN" => tx[x].pos \in {"OPEN", "CLOSED"}
        BY DEF IInv, Grows, RowGrows
      <3>2. tx[x].pos = "CLOSED" => tx'[x].pos = "CLOSED"
        BY DEF Grows, RowGrows
      <3>3. tx[x].pos = "OPEN"
        BY <2>1, <3>1, <3>2
      <3>4. tx[x].sig = "BUY"
        BY <3>3 DEF IInv, Good, Lockstep
      <3>5. tx'[x].stop = tx[x].stop
        BY <3>4 DEF Grows, RowGrows
      <3> QED BY <3>3, <3>5 DEF Breaches
    <2>2. ASSUME pc' = "stops", NEW x \in Keys \ todo', db'[x].pos = "OPEN", tx'[x].pos = "OPEN"
          PROVE  Breaches(tx', x) = {}
      <3>1. CASE x = k
        BY <2>2, <3>1
      <3>2. CASE x # k
        BY <2>1, <2>2, <3>2 DEF IInv, Scanned
      <3> QED BY <3>1, <3>2
    <2>3. ASSUME pc' = "fills", NEW x \in Keys, db'[x].pos = "OPEN", tx'[x].pos = "OPEN"
          PROVE  Breaches(tx', x) = {}
      BY <2>1, <2>3 DEF IInv, Scanned
    <2> QED BY <2>2, <2>3 DEF Scanned, Breaches
  <1> QED BY <1>1, <1>2, <1>3, <1>4, <1>5, <1>6 DEF IInv

-----------------------------------------------------------------------------
(* Every action preserves the invariant *)

LEMMA LatestIsRooted ==
  ASSUME NEW cs \in SUBSET Bars, NEW k \in Keys, IsLatest(cs, k)
  PROVE  k.ts > 0
  <1>1. PICK c \in cs : Close(c) = k.ts
    BY DEF IsLatest
  <1>2. c.open \in Nat /\ BarLen[c.tf] \in Nat \ {0}
    BY PipelineAssumption DEF Bars, Times
  <1> QED BY <1>1, <1>2 DEF Close

LEMMA StartNextInv ==
  ASSUME IInv, NEW d \in {db, tx}, NEW a \in SUBSET Versions, StartNext(d, a),
         db' = d, active' = a, UNCHANGED now, faults' \in 0 .. MaxFaults,
         candles' \subseteq Bars, \A c \in candles' : Close(c) <= now',
         candles \subseteq candles'
  PROVE  IInv'
  <1>1. pc' \in Phases \ {"fills"}
    BY DEF StartNext, NextPhase, Phases
  <1>2. todo' \subseteq Keys
    BY DEF StartNext, Load, Unprocessed, OpenPositions
  <1>3. ASSUME pc' = "signal", NEW k \in todo' PROVE k.ts > 0
    BY <1>3, LatestIsRooted DEF StartNext, Load
  <1>4. pc' = "risk" => todo' = Unprocessed(db')
    BY DEF StartNext, Load
  <1>5. pc' = "stops" => todo' = OpenPositions(db')
    BY DEF StartNext, Load
  <1> QED BY <1>1, <1>2, <1>3, <1>4, <1>5, RestartInv DEF StartNext, IInv, TypeOK

LEMMA CommitInv == ASSUME IInv, Commit PROVE IInv'
  <1>1. active \ disabled \in SUBSET Versions
    BY DEF IInv, TypeOK
  <1> QED BY <1>1, StartNextInv DEF Commit, IInv, TypeOK

LEMMA AbortInv == ASSUME IInv, Abort, faults' \in 0 .. MaxFaults PROVE IInv'
  BY StartNextInv DEF Abort, IInv, TypeOK

LEMMA IngestInv == ASSUME IInv, Ingest PROVE IInv'
  <1>1. PICK D \in Deliveries : \E low \in [D -> Lows] :
          candles' = candles \cup {[s |-> b.s, tf |-> b.tf, open |-> b.open,
                                    low |-> low[b]] : b \in D}
    BY DEF Ingest
  <1>2. PICK low \in [D -> Lows] :
          candles' = candles \cup {[s |-> b.s, tf |-> b.tf, open |-> b.open,
                                    low |-> low[b]] : b \in D}
    BY <1>1
  <1>3. D \subseteq Missing
    BY DEF Deliveries
  <1>4. \A b \in D : b \in [s : Symbols, tf : Timeframes, open : Times] /\ Close(b) <= now
    BY <1>3 DEF Missing
  <1>5. candles' \subseteq Bars
    BY <1>2, <1>4 DEF Bars, IInv, TypeOK
  <1>6. \A c \in candles' : Close(c) <= now'
    <2> SUFFICES ASSUME NEW c \in candles' PROVE Close(c) <= now
      BY DEF Ingest
    <2>1. CASE c \in candles
      BY <2>1 DEF IInv, TypeOK
    <2>2. CASE c \notin candles
      <3>1. PICK b \in D : c = [s |-> b.s, tf |-> b.tf, open |-> b.open, low |-> low[b]]
        BY <2>2, <1>2
      <3>2. Close(c) = Close(b)
        BY <3>1 DEF Close
      <3> QED BY <3>2, <1>4
    <2> QED BY <2>1, <2>2
  <1>7. candles \subseteq candles'
    BY <1>2
  <1> QED BY <1>5, <1>6, <1>7, StartNextInv DEF Ingest, IInv, TypeOK

LEMMA TickInv == ASSUME IInv, Tick PROVE IInv'
  <1>1. now' \in Times /\ now <= now'
    BY PipelineAssumption DEF IInv, TypeOK, Tick, Times
  <1>2. \A c \in candles : Close(c) \in Nat
    BY PipelineAssumption DEF IInv, TypeOK, Close, Bars, Times
  <1>3. \A c \in candles : Close(c) <= now'
    BY <1>1, <1>2 DEF IInv, TypeOK, Times
  <1>4. TypeOK'
    BY <1>1, <1>3 DEF IInv, TypeOK, Tick
  <1>5. (Good(db) /\ Good(tx))'
    BY GoodTxPrimed, GoodDbPrimed DEF Tick, IInv
  <1> QED BY <1>4, <1>5 DEF Tick, IInv, Grows, WorkList, Scanned, Breaches

LEMMA OperatorInv == ASSUME IInv, NEW v \in Versions, Operator(v) PROVE IInv'
  <1>1. TypeOK'
    BY DEF IInv, TypeOK, Operator
  <1>2. (Good(db) /\ Good(tx))'
    BY GoodTxPrimed, GoodDbPrimed DEF Operator, IInv
  <1> QED BY <1>1, <1>2 DEF Operator, IInv, Grows, WorkList, Scanned, Breaches

LEMMA StopsScannedInv == ASSUME IInv, StopsScanned PROVE IInv'
  <1>1. TypeOK'
    BY DEF IInv, TypeOK, StopsScanned, Phases, PendingOrders
  <1>2. (Good(db) /\ Good(tx))'
    BY GoodTxPrimed, GoodDbPrimed DEF StopsScanned, IInv
  <1>3. WorkList'
    BY DEF WorkList, StopsScanned, PendingOrders
  <1>4. Scanned'
    BY DEF IInv, Scanned, StopsScanned, Breaches
  <1> QED BY <1>1, <1>2, <1>3, <1>4 DEF StopsScanned, IInv, Grows

LEMMA CrashInv == ASSUME IInv, Crash PROVE IInv'
  <1>1. faults' \in 0 .. MaxFaults
    BY PipelineAssumption DEF IInv, TypeOK, Crash
  <1> QED BY <1>1, RestartInv DEF Crash, IInv, TypeOK, Phases

LEMMA PhaseFailsInv == ASSUME IInv, PhaseFails PROVE IInv'
  <1>1. faults' \in 0 .. MaxFaults
    BY PipelineAssumption DEF IInv, TypeOK, PhaseFails
  <1> QED BY <1>1, AbortInv DEF PhaseFails

\* One row of tx changes softly: what Hold, EmitSignal, ApproveSignal,
\* BlockSignal and RejectExit do.
LEMMA SoftStepInv ==
  ASSUME IInv, NEW k \in todo, Handled(k), NEW r \in Row, disabled' = disabled,
         tx' = [tx EXCEPT ![k] = r], pc # "stops",
         RowGrows(tx[k], r),
         r.fill = tx[k].fill, r.pos = tx[k].pos, r.exit = tx[k].exit,
         r.ord = "FILLED" <=> tx[k].ord = "FILLED",
         r.ord # "none" => r.done, r.done => r.sig # "none",
         r.sig # "none" => k.ts > 0, r.adv => k.v \in Stateful
  PROVE  IInv'
  <1>1. k \in Keys /\ tx \in [Keys -> Row] /\ Good(tx)
    BY DEF IInv, TypeOK
  <1>2. tx' \in [Keys -> Row]
    BY <1>1
  <1>3. Good(tx')
    <2>1. tx[k].sig # "none" => r.sig = tx[k].sig
      BY DEF RowGrows
    <2> QED BY <1>1, <2>1, SoftChange
  <1>4. Grows(tx, tx')
    <2> SUFFICES ASSUME NEW x \in Keys PROVE RowGrows(tx[x], tx'[x])
      BY DEF Grows
    <2>1. CASE x = k
      BY <2>1, <1>1
    <2>2. CASE x # k
      BY <2>2, <1>1, GrowsReflexive DEF Grows
    <2> QED BY <2>1, <2>2
  <1>5. \A x \in todo \ {k} : tx'[x] = tx[x]
    BY <1>1 DEF IInv, TypeOK
  <1> QED BY <1>2, <1>3, <1>4, <1>5, HandledInv DEF Handled, IInv, TypeOK

LEMMA SkipInv ==
  ASSUME IInv, NEW k \in todo, Handled(k), UNCHANGED <<tx, disabled>>,
         pc = "stops" => Breaches(tx, k) = {}
  PROVE  IInv'
  <1>1. Grows(tx, tx')
    BY GrowsReflexive
  <1> QED BY <1>1, HandledInv DEF Handled, IInv, TypeOK, Breaches

LEMMA SignalStepInv == ASSUME IInv, NEW k \in todo, SignalStep(k) PROVE IInv'
  <1>1. k \in Keys /\ tx \in [Keys -> Row] /\ tx[k] \in Row /\ Good(tx)
    BY DEF IInv, TypeOK
  <1>2. pc = "signal" /\ k.ts > 0
    BY DEF SignalStep, SkipPair, Hold, EmitSignal, DisableVersion, IInv, WorkList
  <1>3. tx[k].sig = "none" => ~tx[k].done /\ tx[k].ord = "none" /\ tx[k].pos = "none"
    BY <1>1 DEF Good, Lockstep, Row
  <1>4. CASE SkipPair(k)
    BY <1>2, <1>4, SkipInv DEF SkipPair
  <1>5. CASE Hold(k)
    <2> DEFINE r == [tx[k] EXCEPT !.adv = k.v \in Stateful]
    <2>1. tx' = [tx EXCEPT ![k] = r] /\ tx[k].sig = "none" /\ Handled(k) /\ disabled' = disabled
      BY <1>5 DEF Hold, Evaluable
    <2>2. (k.v \in Stateful) \in BOOLEAN
      OBVIOUS
    <2>3. r \in Row /\ r.adv = (k.v \in Stateful)
      BY <1>1, <2>2 DEF Row
    <2>4. /\ r.fill = tx[k].fill /\ r.pos = tx[k].pos /\ r.exit = tx[k].exit /\ r.ord = tx[k].ord
          /\ r.done = tx[k].done /\ r.sig = tx[k].sig /\ r.stop = tx[k].stop /\ r.why = tx[k].why
      BY <1>1 DEF Row
    <2>5. tx[k].adv => k.v \in Stateful
      BY <1>1, Zenon DEF Good, StateOwned
    <2> HIDE DEF r
    <2>6. RowGrows(tx[k], r)
      BY <2>3, <2>4, <2>5 DEF RowGrows
    <2> QED BY <1>2, <1>3, <2>1, <2>3, <2>4, <2>6, SoftStepInv
  <1>6. CASE EmitSignal(k)
    <2>1. PICK kind \in Signals(k), stop \in Stops :
            tx' = [tx EXCEPT ![k] = [@ EXCEPT !.sig = kind,
                                              !.stop = IF kind = "BUY" THEN stop ELSE 0,
                                              !.adv = k.v \in Stateful]]
      BY <1>6 DEF EmitSignal
    <2> DEFINE r == [tx[k] EXCEPT !.sig = kind, !.stop = IF kind = "BUY" THEN stop ELSE 0,
                                  !.adv = k.v \in Stateful]
    <2>2. tx' = [tx EXCEPT ![k] = r] /\ tx[k].sig = "none" /\ Handled(k) /\ disabled' = disabled
      BY <1>6, <2>1 DEF EmitSignal, Evaluable
    <2>3. kind \in {"BUY", "EXIT"} /\ (k.v \in Stateful) \in BOOLEAN
      BY DEF Signals
    <2>4. r \in Row /\ r.adv = (k.v \in Stateful)
      BY <1>1, <2>3 DEF Row
    <2>5. /\ r.fill = tx[k].fill /\ r.pos = tx[k].pos /\ r.exit = tx[k].exit /\ r.ord = tx[k].ord
          /\ r.done = tx[k].done /\ r.sig = kind /\ r.why = tx[k].why
      BY <1>1 DEF Row
    <2>6. tx[k].adv => k.v \in Stateful
      BY <1>1, Zenon DEF Good, StateOwned
    <2> HIDE DEF r
    <2>7. RowGrows(tx[k], r)
      BY <1>3, <2>2, <2>4, <2>5, <2>6 DEF RowGrows
    <2> QED BY <1>2, <1>3, <2>2, <2>3, <2>4, <2>5, <2>7, SoftStepInv
  <1>7. CASE DisableVersion(k)
    <2>1. faults' \in 0 .. MaxFaults
      BY <1>7, PipelineAssumption DEF DisableVersion, IInv, TypeOK
    <2>2. disabled' \subseteq Versions
      BY <1>1, <1>7, KeysFacts DEF DisableVersion, IInv, TypeOK
    <2>3. Grows(tx, tx') /\ tx' = tx
      BY <1>7, GrowsReflexive DEF DisableVersion
    <2> QED BY <1>1, <1>2, <1>7, <2>1, <2>2, <2>3, HandledInv DEF DisableVersion
  <1> QED BY <1>4, <1>5, <1>6, <1>7 DEF SignalStep
LEMMA RiskStepInv == ASSUME IInv, NEW k \in todo, RiskStep(k) PROVE IInv'
  <1>1. k \in Keys /\ tx \in [Keys -> Row] /\ tx[k] \in Row /\ Good(tx)
    BY DEF IInv, TypeOK
  <1>2. pc = "risk" /\ tx[k].sig # "none" /\ ~tx[k].done
    BY DEF RiskStep, ApproveSignal, BlockSignal, IInv, WorkList
  <1>3. k.ts > 0 /\ tx[k].ord = "none"
    BY <1>1, <1>2 DEF Good, Rooted, Lockstep
  <1>4. tx[k].adv => k.v \in Stateful
    BY <1>1, Zenon DEF Good, StateOwned
  <1>5. CASE ApproveSignal(k)
    <2> DEFINE r == [tx[k] EXCEPT !.ord = "PENDING", !.done = TRUE]
    <2>1. tx' = [tx EXCEPT ![k] = r] /\ Handled(k) /\ disabled' = disabled
      BY <1>5 DEF ApproveSignal
    <2>2. r \in Row /\ r.ord = "PENDING" /\ r.done /\ r.adv = tx[k].adv
      BY <1>1 DEF Row
    <2>3. /\ r.fill = tx[k].fill /\ r.pos = tx[k].pos /\ r.exit = tx[k].exit
          /\ r.sig = tx[k].sig /\ r.stop = tx[k].stop /\ r.why = tx[k].why
      BY <1>1 DEF Row
    <2> HIDE DEF r
    <2>4. RowGrows(tx[k], r)
      BY <1>2, <1>3, <2>2, <2>3 DEF RowGrows
    <2> QED BY <1>2, <1>3, <1>4, <2>1, <2>2, <2>3, <2>4, SoftStepInv
  <1>6. CASE BlockSignal(k)
    <2> DEFINE r == [tx[k] EXCEPT !.done = TRUE]
    <2>1. tx' = [tx EXCEPT ![k] = r] /\ Handled(k) /\ disabled' = disabled
      BY <1>6 DEF BlockSignal
    <2>2. r \in Row /\ r.done /\ r.adv = tx[k].adv
      BY <1>1 DEF Row
    <2>3. /\ r.fill = tx[k].fill /\ r.pos = tx[k].pos /\ r.exit = tx[k].exit /\ r.ord = tx[k].ord
          /\ r.sig = tx[k].sig /\ r.stop = tx[k].stop /\ r.why = tx[k].why
      BY <1>1 DEF Row
    <2> HIDE DEF r
    <2>4. RowGrows(tx[k], r)
      BY <1>2, <1>3, <2>2, <2>3 DEF RowGrows
    <2> QED BY <1>2, <1>3, <1>4, <2>1, <2>2, <2>3, <2>4, SoftStepInv
  <1> QED BY <1>5, <1>6 DEF RiskStep

\* A stop-close is an exit by the order of the breaching bar.
LEMMA StopCloseInv == ASSUME IInv, NEW k \in todo, StopClose(k) PROVE IInv'
  <1>1. k \in Keys /\ tx \in [Keys -> Row] /\ tx[k] \in Row /\ Good(tx)
    BY DEF IInv, TypeOK
  <1>2. pc = "stops" /\ tx[k].pos = "OPEN" /\ Handled(k) /\ disabled' = disabled
    BY DEF StopClose, IInv, WorkList
  <1>3. tx[k].sig = "BUY" /\ k.ts > 0
    <2>1. tx[k].sig = "BUY"
      BY <1>1, <1>2 DEF Good, Lockstep
    <2> QED BY <1>1, <2>1 DEF Good, Rooted
  <1>4. PICK b \in Breaches(tx, k) : tx[StopKey(k, b)].sig = "none" /\ tx' = StopRows(k, b)
    BY DEF StopClose
  <1>5. b \in candles /\ b \in Bars /\ SamePair(b, k) /\ b.open >= k.ts /\ Close(b) <= now
    BY DEF Breaches, IInv, TypeOK
  <1> DEFINE e == StopKey(k, b)
  <1>6. /\ Close(b) \in Times /\ Close(b) > 0 /\ b.open \in Times /\ b.open # 0
    <2>1. b.open \in Times /\ BarLen[b.tf] \in Nat \ {0} /\ now \in Times
      BY <1>5, PipelineAssumption DEF Bars, IInv, TypeOK
    <2> QED BY <1>1, <1>3, <1>5, <2>1, KeysFacts, PipelineAssumption DEF Close, Times
  <1>7. e \in Keys /\ e.ts = Close(b) /\ e.s = k.s /\ e.tf = k.tf /\ e.v = k.v
    BY <1>1, <1>6 DEF StopKey, Keys
  <1>8. e # k /\ tx[e].sig = "none" /\ tx[e] \in Row
    BY <1>1, <1>3, <1>4, <1>7
  <1>9. ~tx[e].done /\ tx[e].ord = "none" /\ tx[e].pos = "none"
    BY <1>1, <1>7, <1>8 DEF Good, Lockstep, Row
  <1> HIDE DEF e
  <1> DEFINE re == [tx[e] EXCEPT !.sig = "EXIT", !.done = TRUE, !.ord = "FILLED", !.fill = b.open]
             rk == [tx[k] EXCEPT !.pos = "CLOSED", !.why = "stop_hit", !.exit = {e}]
  <1>10. tx' = [tx EXCEPT ![e] = re, ![k] = rk]
    BY <1>1, <1>4, <1>7, <1>8 DEF StopRows, e
  <1>11. re \in Row /\ rk \in Row
    <2>1. \A row \in Row, n \in Times :
            [row EXCEPT !.sig = "EXIT", !.done = TRUE, !.ord = "FILLED", !.fill = n] \in Row
      BY DEF Row
    <2>2. \A row \in Row, x \in Keys :
            [row EXCEPT !.pos = "CLOSED", !.why = "stop_hit", !.exit = {x}] \in Row
      BY DEF Row
    <2>3. re \in Row  BY <1>6, <1>8, <2>1
    <2>4. rk \in Row  BY <1>1, <1>7, <2>2
    <2> QED BY <2>3, <2>4
  <1>12. /\ re.sig = "EXIT" /\ re.done /\ re.ord = "FILLED" /\ re.fill = b.open
         /\ re.pos = tx[e].pos /\ re.exit = tx[e].exit /\ re.adv = tx[e].adv
    BY <1>8 DEF Row
  <1>13. /\ rk.sig = tx[k].sig /\ rk.stop = tx[k].stop /\ rk.done = tx[k].done /\ rk.ord = tx[k].ord
         /\ rk.fill = tx[k].fill /\ rk.pos = "CLOSED" /\ rk.exit = {e} /\ rk.adv = tx[k].adv
    BY <1>1 DEF Row
  <1> HIDE DEF re, rk
  <1>14. /\ tx' \in [Keys -> Row] /\ tx'[e] = re /\ tx'[k] = rk
         /\ \A x \in Keys \ {e, k} : tx'[x] = tx[x]
    BY <1>1, <1>7, <1>8, <1>10, <1>11
  <1>15. Good(tx')
    <2>1. SameSlot(e, k)
      BY <1>7 DEF SameSlot
    <2>2. SamePair(b, e) /\ Close(b) = e.ts /\ b.open = tx'[e].fill
      BY <1>5, <1>7, <1>12, <1>14 DEF SamePair
    <2>3. e.ts > 0 /\ tx'[e].fill # 0
      BY <1>6, <1>7, <1>12, <1>14
    <2>4. AtStoredOpen(e, tx'[e].fill)
      BY <1>5, <2>2 DEF AtStoredOpen
    <2>5. /\ tx'[k].sig = tx[k].sig /\ tx'[k].ord = tx[k].ord /\ tx'[k].fill = tx[k].fill
          /\ tx'[k].pos = "CLOSED" /\ tx'[k].exit = {e} /\ tx'[k].adv = tx[k].adv
      BY <1>13, <1>14
    <2>6. tx'[k].done <=> tx[k].done
      BY <1>13, <1>14
    <2>7. /\ tx'[e].sig = "EXIT" /\ tx'[e].ord = "FILLED" /\ tx'[e].pos = tx[e].pos
          /\ tx'[e].exit = tx[e].exit /\ tx'[e].adv = tx[e].adv
      BY <1>12, <1>14
    <2>8. tx'[e].done
      BY <1>12, <1>14
    <2>9. tx[e].ord # "FILLED" /\ tx[e].sig \in {"none", "EXIT"} /\ tx[k].pos = "OPEN"
      BY <1>2, <1>8, <1>9
    <2>10. Closes(tx, tx', k, e)
      <3>1. e # k /\ \A x \in Keys : x # e /\ x # k => tx'[x] = tx[x]  BY <1>8, <1>14
      <3> QED  BY <2>1, <2>3, <2>4, <2>5, <2>6, <2>7, <2>8, <2>9, <3>1 DEF Closes
    <2> QED BY <1>1, <1>7, <1>14, <2>10, ExitChange
  <1>16. Grows(tx, tx')
    <2> SUFFICES ASSUME NEW x \in Keys PROVE RowGrows(tx[x], tx'[x])
      BY DEF Grows
    <2>1. CASE x = e
      BY <2>1, <1>8, <1>9, <1>12, <1>14 DEF RowGrows
    <2>2. CASE x = k
      BY <2>2, <1>2, <1>3, <1>13, <1>14 DEF RowGrows
    <2>3. CASE x # e /\ x # k
      BY <2>3, <1>14 DEF RowGrows
    <2> QED BY <2>1, <2>2, <2>3
  <1>17. \A x \in todo \ {k} : tx'[x].pos = tx[x].pos
    BY <1>12, <1>14 DEF IInv, TypeOK
  <1>18. tx'[k].pos # "OPEN"
    BY <1>13, <1>14
  <1> QED BY <1>2, <1>14, <1>15, <1>16, <1>17, <1>18, HandledInv DEF Handled, IInv, TypeOK

LEMMA StopStepInv == ASSUME IInv, NEW k \in todo, StopStep(k) PROVE IInv'
  <1>1. CASE NoBreach(k)
    BY <1>1, SkipInv DEF NoBreach
  <1>2. CASE StopClose(k)
    BY <1>2, StopCloseInv
  <1>3. CASE StopCollides(k)
    BY <1>3, AbortInv DEF StopCollides, IInv, TypeOK
  <1> QED BY <1>1, <1>2, <1>3 DEF StopStep

LEMMA BuyFillInv == ASSUME IInv, NEW k \in todo, BuyFill(k) PROVE IInv'
  <1>1. k \in Keys /\ tx \in [Keys -> Row] /\ tx[k] \in Row /\ Good(tx)
    BY DEF IInv, TypeOK
  <1>2. /\ pc = "fills" /\ tx[k].ord = "PENDING" /\ tx[k].sig = "BUY" /\ Handled(k)
        /\ disabled' = disabled /\ OpenIn(tx, k) = {} /\ FillBarStored(k)
    BY DEF BuyFill, Fillable, IInv, WorkList
  <1>3. tx[k].pos = "none"
    BY <1>1, <1>2 DEF Good, Lockstep, Row
  <1> DEFINE r == [tx[k] EXCEPT !.ord = "FILLED", !.fill = k.ts, !.pos = "OPEN"]
  <1>4. tx' = [tx EXCEPT ![k] = r]
    BY DEF BuyFill
  <1>5. r \in Row
    BY <1>1, KeysFacts DEF Row
  <1>6. /\ r.sig = tx[k].sig /\ r.stop = tx[k].stop /\ r.done = tx[k].done /\ r.adv = tx[k].adv
    BY <1>1 DEF Row
  <1>7. tx' \in [Keys -> Row] /\ tx'[k] = r /\ \A x \in Keys \ {k} : tx'[x] = tx[x]
    BY <1>1, <1>4, <1>5
  <1>8. Good(tx')
    BY <1>1, <1>2, <1>4, <1>5, EntryChange
  <1> HIDE DEF r
  <1>9. Grows(tx, tx')
    <2> SUFFICES ASSUME NEW x \in Keys PROVE RowGrows(tx[x], tx'[x])
      BY DEF Grows
    <2>1. CASE x = k
      BY <2>1, <1>2, <1>3, <1>6, <1>7 DEF RowGrows
    <2>2. CASE x # k
      BY <2>2, <1>7 DEF RowGrows
    <2> QED BY <2>1, <2>2
  <1>10. \A x \in todo \ {k} : tx'[x] = tx[x]
    BY <1>7 DEF IInv, TypeOK
  <1> QED BY <1>2, <1>7, <1>8, <1>9, <1>10, HandledInv DEF Handled, IInv, TypeOK

LEMMA ExitFillInv == ASSUME IInv, NEW k \in todo, ExitFill(k) PROVE IInv'
  <1>1. k \in Keys /\ tx \in [Keys -> Row] /\ tx[k] \in Row /\ Good(tx)
    BY DEF IInv, TypeOK
  <1>2. /\ pc = "fills" /\ tx[k].ord = "PENDING" /\ tx[k].sig = "EXIT" /\ Handled(k)
        /\ disabled' = disabled /\ FillBarStored(k)
    BY DEF ExitFill, Fillable, IInv, WorkList
  <1>3. PICK p \in OpenIn(tx, k) :
          tx' = [tx EXCEPT ![k] = [@ EXCEPT !.ord = "FILLED", !.fill = k.ts],
                           ![p] = [@ EXCEPT !.pos = "CLOSED", !.why = "signal_exit", !.exit = {k}]]
    BY DEF ExitFill
  <1>4. p \in Keys /\ tx[p] \in Row /\ tx[p].pos = "OPEN" /\ SameSlot(k, p)
    BY <1>1 DEF OpenIn, SameSlot
  <1>5. tx[p].sig = "BUY" /\ tx[p].ord = "FILLED" /\ p # k
    BY <1>1, <1>2, <1>4 DEF Good, Lockstep
  <1>6. tx[k].done /\ k.ts > 0
    <2>1. tx[k].done
      BY <1>1, <1>2 DEF Good, Lockstep
    <2>2. k.ts > 0
      BY <1>1, <1>2 DEF Good, Rooted
    <2> QED BY <2>1, <2>2
  <1> DEFINE rk == [tx[k] EXCEPT !.ord = "FILLED", !.fill = k.ts]
             rp == [tx[p] EXCEPT !.pos = "CLOSED", !.why = "signal_exit", !.exit = {k}]
  <1>7. tx' = [tx EXCEPT ![k] = rk, ![p] = rp]
    BY <1>1, <1>3, <1>4, <1>5
  <1>8. rk \in Row /\ rp \in Row
    <2>1. k.ts \in Times
      BY <1>1, KeysFacts
    <2>2. rk \in Row
      BY <1>1, <2>1 DEF Row
    <2>3. {k} \in SUBSET Keys
      BY <1>1
    <2>4. rp \in Row
      BY <1>4, <2>3 DEF Row
    <2> QED BY <2>2, <2>4
  <1>9. /\ rk.sig = tx[k].sig /\ rk.stop = tx[k].stop /\ rk.done = tx[k].done /\ rk.adv = tx[k].adv
        /\ rk.ord = "FILLED" /\ rk.fill = k.ts /\ rk.pos = tx[k].pos /\ rk.why = tx[k].why
        /\ rk.exit = tx[k].exit
    BY <1>1 DEF Row
  <1>10. /\ rp.sig = tx[p].sig /\ rp.stop = tx[p].stop /\ rp.done = tx[p].done /\ rp.adv = tx[p].adv
         /\ rp.ord = tx[p].ord /\ rp.fill = tx[p].fill /\ rp.pos = "CLOSED" /\ rp.exit = {k}
    BY <1>4 DEF Row
  <1> HIDE DEF rk, rp
  <1>11. /\ tx' \in [Keys -> Row] /\ tx'[k] = rk /\ tx'[p] = rp
         /\ \A x \in Keys \ {k, p} : tx'[x] = tx[x]
    BY <1>1, <1>4, <1>5, <1>7, <1>8
  <1>12. Good(tx')
    <2>1. AtStoredOpen(k, tx'[k].fill)
      BY <1>2, <1>9, <1>11 DEF FillBarStored, AtStoredOpen
    <2>2. k.ts # 0 /\ tx'[k].fill # 0
      BY <1>1, <1>6, <1>9, <1>11, KeysFacts
    <2>3. (tx'[k].done <=> tx[k].done) /\ (tx'[p].done <=> tx[p].done)
      BY <1>9, <1>10, <1>11
    <2>4. tx'[k].done
      BY <2>3, <1>6, Zenon
    <2>5. /\ tx'[k].sig = "EXIT" /\ tx'[k].ord = "FILLED" /\ tx'[k].pos = tx[k].pos
          /\ tx'[k].exit = tx[k].exit
      BY <1>2, <1>9, <1>11
    <2>6. /\ tx'[p].sig = tx[p].sig /\ tx'[p].ord = tx[p].ord /\ tx'[p].fill = tx[p].fill
          /\ tx'[p].pos = "CLOSED" /\ tx'[p].exit = {k}
      BY <1>10, <1>11
    <2>7. tx[k].ord # "FILLED" /\ tx[k].sig \in {"none", "EXIT"}
      BY <1>2
    <2>8. tx'[k].adv = tx[k].adv /\ tx'[p].adv = tx[p].adv
      BY <1>9, <1>10, <1>11
    <2>9. Closes(tx, tx', p, k)
      BY <1>4, <1>5, <1>6, <1>11, <2>1, <2>2, <2>3, <2>4, <2>5, <2>6, <2>7, <2>8 DEF Closes
    <2> QED BY <1>1, <1>4, <1>11, <2>9, ExitChange
  <1>13. tx[k].pos = "none"
    BY <1>1, <1>2 DEF Good, Lockstep
  <1>14. Grows(tx, tx')
    <2> SUFFICES ASSUME NEW x \in Keys PROVE RowGrows(tx[x], tx'[x])
      BY DEF Grows
    <2>1. CASE x = k
      BY <2>1, <1>2, <1>9, <1>11, <1>13 DEF RowGrows
    <2>2. CASE x = p
      BY <2>2, <1>4, <1>5, <1>10, <1>11 DEF RowGrows
    <2>3. CASE x # k /\ x # p
      BY <2>3, <1>11 DEF RowGrows
    <2> QED BY <2>1, <2>2, <2>3
  <1>15. \A x \in todo \ {k} : tx'[x].ord = tx[x].ord
    BY <1>10, <1>11 DEF IInv, TypeOK
  <1> QED BY <1>2, <1>11, <1>12, <1>14, <1>15, HandledInv DEF Handled, IInv, TypeOK

LEMMA RejectExitInv == ASSUME IInv, NEW k \in todo, RejectExit(k) PROVE IInv'
  <1>1. k \in Keys /\ tx \in [Keys -> Row] /\ tx[k] \in Row /\ Good(tx)
    BY DEF IInv, TypeOK
  <1>2. pc = "fills" /\ tx[k].ord = "PENDING" /\ tx[k].sig = "EXIT" /\ Handled(k) /\ disabled' = disabled
    BY DEF RejectExit, Fillable, IInv, WorkList
  <1>3. tx[k].done /\ tx[k].pos = "none"
    <2>1. tx[k].done
      BY <1>1, <1>2 DEF Good, Lockstep
    <2>2. tx[k].pos = "none"
      BY <1>1, <1>2 DEF Good, Lockstep
    <2> QED BY <2>1, <2>2
  <1>4. k.ts > 0
    BY <1>1, <1>2 DEF Good, Rooted
  <1>5. tx[k].adv => k.v \in Stateful
    BY <1>1, Zenon DEF Good, StateOwned
  <1> DEFINE r == [tx[k] EXCEPT !.ord = "REJECTED"]
  <1>6. tx' = [tx EXCEPT ![k] = r]
    BY DEF RejectExit
  <1>7. r \in Row /\ r.ord = "REJECTED" /\ r.adv = tx[k].adv /\ r.done = tx[k].done
    BY <1>1 DEF Row
  <1>8. /\ r.fill = tx[k].fill /\ r.pos = tx[k].pos /\ r.exit = tx[k].exit
        /\ r.sig = tx[k].sig /\ r.stop = tx[k].stop /\ r.why = tx[k].why
    BY <1>1 DEF Row
  <1> HIDE DEF r
  <1>9. RowGrows(tx[k], r)
    BY <1>2, <1>3, <1>7, <1>8 DEF RowGrows
  <1> QED BY <1>2, <1>3, <1>4, <1>5, <1>6, <1>7, <1>8, <1>9, SoftStepInv

LEMMA FillStepInv == ASSUME IInv, NEW k \in todo, FillStep(k) PROVE IInv'
  <1>1. CASE KeepWaiting(k)
    BY <1>1, SkipInv DEF KeepWaiting
  <1>2. CASE BuyFill(k)
    BY <1>2, BuyFillInv
  <1>3. CASE BuyCollides(k)
    BY <1>3, AbortInv DEF BuyCollides, IInv, TypeOK
  <1>4. CASE ExitFill(k)
    BY <1>4, ExitFillInv
  <1>5. CASE RejectExit(k)
    BY <1>5, RejectExitInv
  <1> QED BY <1>1, <1>2, <1>3, <1>4, <1>5 DEF FillStep

LEMMA InitInv == Init => IInv
  <1> SUFFICES ASSUME Init PROVE IInv
    OBVIOUS
  <1>1. 0 \in Times /\ 0 \in 0 .. MaxFaults
    BY PipelineAssumption DEF Times
  <1>2. NoRow \in Row
    BY <1>1 DEF NoRow, Row
  <1>3. TypeOK
    BY <1>1, <1>2 DEF Init, TypeOK, Phases
  <1>4. \A k \in Keys : db[k] = NoRow /\ tx[k] = NoRow
    BY DEF Init
  <1>5. Good(db)
    BY <1>4 DEF Good, NoRow, OneOpen, Lockstep, ExitsPairUp, FillsAtStoredOpen, Rooted, StateOwned
  <1>6. Good(tx) /\ Grows(db, tx)
    BY <1>5, GrowsReflexive DEF Init
  <1>7. WorkList /\ Scanned
    BY DEF Init, WorkList, Scanned
  <1> QED BY <1>3, <1>5, <1>6, <1>7 DEF IInv

LEMMA NextInv == IInv /\ [Next]_vars => IInv'
  <1> SUFFICES ASSUME IInv, [Next]_vars PROVE IInv'
    OBVIOUS
  <1>1. CASE Ingest
    BY <1>1, IngestInv
  <1>2. ASSUME NEW k \in todo, SignalStep(k) PROVE IInv'
    BY <1>2, SignalStepInv
  <1>3. ASSUME NEW k \in todo, RiskStep(k) PROVE IInv'
    BY <1>3, RiskStepInv
  <1>4. ASSUME NEW k \in todo, StopStep(k) PROVE IInv'
    BY <1>4, StopStepInv
  <1>5. ASSUME NEW k \in todo, FillStep(k) PROVE IInv'
    BY <1>5, FillStepInv
  <1>6. CASE StopsScanned
    BY <1>6, StopsScannedInv
  <1>7. CASE Commit
    BY <1>7, CommitInv
  <1>8. CASE Tick
    BY <1>8, TickInv
  <1>9. ASSUME NEW v \in Versions, Operator(v) PROVE IInv'
    BY <1>9, OperatorInv
  <1>10. CASE PhaseFails
    BY <1>10, PhaseFailsInv
  <1>11. CASE Crash
    BY <1>11, CrashInv
  <1>12. CASE UNCHANGED vars
    <2>1. (Good(db) /\ Good(tx))'
      BY <1>12, GoodTxPrimed, GoodDbPrimed DEF IInv, vars
    <2> QED BY <1>12, <2>1 DEF vars, IInv, TypeOK, Grows, WorkList, Scanned, Breaches
  <1> QED BY <1>1, <1>2, <1>3, <1>4, <1>5, <1>6, <1>7, <1>8, <1>9, <1>10, <1>11, <1>12
          DEF Next, WorkerStep

\* What a step does to the committed rows: nothing, or a phase commits.
LEMMA DbSteps ==
  ASSUME [Next]_vars PROVE UNCHANGED db \/ Commit
  BY DEF Next, WorkerStep, vars, Ingest, SignalStep, SkipPair, Hold, EmitSignal, DisableVersion,
         RiskStep, ApproveSignal, BlockSignal, StopStep, NoBreach, StopClose, StopCollides,
         FillStep, KeepWaiting, BuyFill, BuyCollides, ExitFill, RejectExit, StopsScanned, Tick,
         Operator, PhaseFails, Crash, Abort, Handled

-----------------------------------------------------------------------------
(* Decisions of stateful versions.  The facts below are inductive on top of
   IInv: the phase cannot advance a state that is committed at or beyond the
   candle, since it sees it (Evaluable) and rows only grow. *)

\* A decided candle has its state row, or its signal is a stop-close's.
Decided(d) == \A k \in Keys :
    k.v \in Stateful /\ d[k].sig # "none" => d[k].adv \/ Synthetic(d, k)

\* The rows t neither go back behind the states of the rows d nor decide again.
Onward(d, t) == \A k \in Keys :
    k.v \in Stateful =>
        /\ StateAdvanced(d, k) /\ ~d[k].adv => ~t[k].adv
        /\ d[k].adv /\ d[k].sig = "none" => t[k].sig = "none" \/ Synthetic(t, k)

DecidedOnce == Decided(db) /\ Decided(tx) /\ Onward(db, tx)

\* What a step may do to the decision of k in tx.
StepOf(k) ==
    /\ tx[k].adv => tx'[k].adv
    /\ Synthetic(tx, k) => Synthetic(tx', k)
    /\ \/ tx'[k].sig = tx[k].sig /\ (tx'[k].adv <=> tx[k].adv)
       \/ Evaluable(k) /\ (k.v \in Stateful => tx'[k].adv)
       \/ Synthetic(tx', k) /\ (tx'[k].adv <=> tx[k].adv)

\* A row that only gets an order, or its fill, or is marked.
LEMMA OrderStep ==
  ASSUME NEW x \in Keys, tx[x].ord # "FILLED",
         tx'[x].sig = tx[x].sig, tx'[x].adv <=> tx[x].adv
  PROVE  StepOf(x)
  BY DEF StepOf, Synthetic

LEMMA SameStep ==
  ASSUME NEW x \in Keys, tx'[x] = tx[x]
  PROVE  StepOf(x)
  BY DEF StepOf, Synthetic

\* A position that closes keeps its decision.
LEMMA CloseStep ==
  ASSUME NEW x \in Keys, tx'[x].sig = tx[x].sig, tx'[x].adv <=> tx[x].adv,
         tx'[x].ord = tx[x].ord, tx'[x].fill = tx[x].fill
  PROVE  StepOf(x)
  BY DEF StepOf, Synthetic

LEMMA SignalStepOf ==
  ASSUME IInv, NEW k \in todo, SignalStep(k), NEW x \in Keys
  PROVE  StepOf(x)
  <1>1. k \in Keys /\ tx \in [Keys -> Row] /\ tx[k] \in Row /\ Good(tx)
    BY DEF IInv, TypeOK
  <1>2. CASE tx' = tx
    BY <1>2, SameStep
  <1>3. CASE Hold(k)
    <2>1. tx' = [tx EXCEPT ![k].adv = k.v \in Stateful] /\ Evaluable(k)
      BY <1>3 DEF Hold
    <2>2. CASE x # k
      BY <1>1, <2>1, <2>2, SameStep
    <2>3. CASE x = k
      <3>1. tx'[k].adv = (k.v \in Stateful) /\ tx'[k].sig = tx[k].sig
        BY <1>1, <2>1 DEF Row
      <3>2. tx[k].adv => k.v \in Stateful
        BY <1>1, Zenon DEF Good, StateOwned
      <3>3. ~Synthetic(tx, k)
        BY <2>1 DEF Evaluable, Synthetic
      <3>4. /\ tx[k].adv => tx'[k].adv
            /\ k.v \in Stateful => tx'[k].adv
        BY <3>1, <3>2
      <3> QED BY <2>1, <2>3, <3>3, <3>4 DEF StepOf
    <2> QED BY <2>2, <2>3
  <1>4. CASE EmitSignal(k)
    <2>1. PICK kind \in Signals(k), stop \in Stops :
            tx' = [tx EXCEPT ![k] = [@ EXCEPT !.sig = kind,
                                              !.stop = IF kind = "BUY" THEN stop ELSE 0,
                                              !.adv = k.v \in Stateful]]
      BY <1>4 DEF EmitSignal
    <2>2. Evaluable(k)
      BY <1>4 DEF EmitSignal
    <2>3. CASE x # k
      BY <1>1, <2>1, <2>3, SameStep
    <2>4. CASE x = k
      <3>1. tx'[k].adv = (k.v \in Stateful)
        BY <1>1, <2>1 DEF Row
      <3>2. tx[k].adv => k.v \in Stateful
        BY <1>1, Zenon DEF Good, StateOwned
      <3>3. ~Synthetic(tx, k)
        BY <2>2 DEF Evaluable, Synthetic
      <3>4. /\ tx[k].adv => tx'[k].adv
            /\ k.v \in Stateful => tx'[k].adv
        BY <3>1, <3>2
      <3> QED BY <2>2, <2>4, <3>3, <3>4 DEF StepOf
    <2> QED BY <2>3, <2>4
  <1> QED BY <1>2, <1>3, <1>4 DEF SignalStep, SkipPair, DisableVersion

LEMMA RiskStepOf ==
  ASSUME IInv, NEW k \in todo, RiskStep(k), NEW x \in Keys
  PROVE  StepOf(x)
  <1>1. k \in Keys /\ tx \in [Keys -> Row] /\ tx[k] \in Row /\ Good(tx)
    BY DEF IInv, TypeOK
  <1>2. ~tx[k].done
    BY DEF RiskStep, ApproveSignal, BlockSignal, IInv, WorkList
  <1>3. tx[k].ord # "FILLED"
    BY <1>1, <1>2 DEF Good, Lockstep
  <1>4. CASE x # k
    <2>1. tx'[x] = tx[x]
      BY <1>1, <1>4 DEF RiskStep, ApproveSignal, BlockSignal
    <2> QED BY <2>1, SameStep
  <1>5. CASE x = k
    <2>1. CASE ApproveSignal(k)
      <3>1. tx'[k].sig = tx[k].sig /\ tx'[k].adv = tx[k].adv
        BY <1>1, <2>1 DEF ApproveSignal, Row
      <3> QED BY <1>3, <1>5, <3>1, OrderStep
    <2>2. CASE BlockSignal(k)
      <3>1. tx'[k].sig = tx[k].sig /\ tx'[k].adv = tx[k].adv
        BY <1>1, <2>2 DEF BlockSignal, Row
      <3> QED BY <1>3, <1>5, <3>1, OrderStep
    <2> QED BY <2>1, <2>2 DEF RiskStep
  <1> QED BY <1>4, <1>5

LEMMA StopCloseOf ==
  ASSUME IInv, NEW k \in todo, StopClose(k), NEW x \in Keys
  PROVE  StepOf(x)
  <1>1. k \in Keys /\ tx \in [Keys -> Row] /\ Good(tx)
    BY DEF IInv, TypeOK
  <1>2. pc = "stops" /\ tx[k].pos = "OPEN"
    BY DEF StopClose, IInv, WorkList
  <1>3. PICK b \in Breaches(tx, k) : tx[StopKey(k, b)].sig = "none" /\ tx' = StopRows(k, b)
    BY DEF StopClose
  <1>4. b \in Bars /\ SamePair(b, k) /\ b.open >= k.ts /\ Close(b) <= now
    BY DEF Breaches, IInv, TypeOK
  <1>5. b.open \in Times /\ BarLen[b.tf] \in Nat \ {0} /\ now \in Times
    BY <1>4, PipelineAssumption DEF Bars, IInv, TypeOK
  <1>6. Close(b) \in Times /\ Close(b) > b.open
    BY <1>1, <1>4, <1>5, KeysFacts, PipelineAssumption DEF Close, Times
  <1> DEFINE e == StopKey(k, b)
  <1>7. e \in Keys /\ e.ts = Close(b)
    BY <1>1, <1>6 DEF StopKey, Keys
  <1>8. tx[k].sig = "BUY"
    BY <1>1, <1>2 DEF Good, Lockstep
  <1>9. e # k /\ tx[e].sig = "none" /\ tx[e] \in Row /\ tx[k] \in Row
    BY <1>1, <1>3, <1>7, <1>8
  <1>10. tx' = [tx EXCEPT ![e] = [@ EXCEPT !.sig = "EXIT", !.done = TRUE,
                                           !.ord = "FILLED", !.fill = b.open],
                          ![k] = [@ EXCEPT !.pos = "CLOSED", !.why = "stop_hit",
                                           !.exit = {e}]]
    BY <1>3 DEF StopRows
  <1> HIDE DEF e
  <1>11. CASE x = e
    <2>1. /\ tx'[e].sig = "EXIT" /\ tx'[e].ord = "FILLED" /\ tx'[e].fill = b.open
          /\ tx'[e].adv = tx[e].adv
      BY <1>1, <1>7, <1>9, <1>10 DEF Row
    <2>2. b.open # e.ts
      BY <1>5, <1>6, <1>7 DEF Times
    <2>3. Synthetic(tx', e)
      BY <2>1, <2>2 DEF Synthetic
    <2> QED BY <1>11, <2>1, <2>3 DEF StepOf
  <1>12. CASE x = k
    <2>1. /\ tx'[k].sig = tx[k].sig /\ tx'[k].adv = tx[k].adv
          /\ tx'[k].ord = tx[k].ord /\ tx'[k].fill = tx[k].fill
      BY <1>1, <1>9, <1>10 DEF Row
    <2> QED BY <1>12, <2>1, CloseStep
  <1>13. CASE x # e /\ x # k
    <2>1. tx'[x] = tx[x]
      BY <1>1, <1>10, <1>13
    <2> QED BY <2>1, SameStep
  <1> QED BY <1>11, <1>12, <1>13

LEMMA FillStepOf ==
  ASSUME IInv, NEW k \in todo, BuyFill(k) \/ ExitFill(k) \/ RejectExit(k), NEW x \in Keys
  PROVE  StepOf(x)
  <1>1. k \in Keys /\ tx \in [Keys -> Row] /\ tx[k] \in Row /\ Good(tx)
    BY DEF IInv, TypeOK
  <1>2. tx[k].ord = "PENDING"
    BY DEF BuyFill, ExitFill, RejectExit, Fillable, IInv, WorkList
  <1>3. CASE BuyFill(k)
    <2>1. /\ x # k => tx'[x] = tx[x]
          /\ tx'[k].sig = tx[k].sig /\ tx'[k].adv = tx[k].adv
      BY <1>1, <1>3 DEF BuyFill, Row
    <2> QED BY <1>2, <2>1, OrderStep, SameStep
  <1>5. CASE RejectExit(k)
    <2>1. /\ x # k => tx'[x] = tx[x]
          /\ tx'[k].sig = tx[k].sig /\ tx'[k].adv = tx[k].adv
      BY <1>1, <1>5 DEF RejectExit, Row
    <2> QED BY <1>2, <2>1, OrderStep, SameStep
  <1>4. CASE ExitFill(k)
    <2>1. PICK p \in OpenIn(tx, k) :
            tx' = [tx EXCEPT ![k] = [@ EXCEPT !.ord = "FILLED", !.fill = k.ts],
                             ![p] = [@ EXCEPT !.pos = "CLOSED", !.why = "signal_exit",
                                              !.exit = {k}]]
      BY <1>4 DEF ExitFill
    <2>2. p \in Keys /\ tx[p] \in Row /\ tx[p].pos = "OPEN"
      BY <1>1 DEF OpenIn
    <2>3. tx[p].ord = "FILLED"
      BY <1>1, <2>2 DEF Good, Lockstep
    <2>4. p # k
      BY <1>2, <2>3
    <2>5. CASE x = k
      <3>1. tx'[k].sig = tx[k].sig /\ tx'[k].adv = tx[k].adv
        BY <1>1, <2>1, <2>2, <2>4 DEF Row
      <3> QED BY <1>2, <2>5, <3>1, OrderStep
    <2>6. CASE x = p
      <3>1. /\ tx'[p].sig = tx[p].sig /\ tx'[p].adv = tx[p].adv
            /\ tx'[p].ord = tx[p].ord /\ tx'[p].fill = tx[p].fill
        BY <1>1, <2>1, <2>2, <2>4 DEF Row
      <3> QED BY <2>6, <3>1, CloseStep
    <2>7. CASE x # k /\ x # p
      <3>1. tx'[x] = tx[x]
        BY <1>1, <2>1, <2>7
      <3> QED BY <3>1, SameStep
    <2> QED BY <2>5, <2>6, <2>7
  <1> QED BY <1>3, <1>4, <1>5

\* A step starts a phase on committed rows, or changes rows of tx as above.
LEMMA TxSteps ==
  ASSUME IInv, [Next]_vars
  PROVE  \/ tx' = db' /\ db' \in {db, tx}
         \/ db' = db /\ \A x \in Keys : StepOf(x)
  <1>1. CASE Ingest \/ Commit \/ Crash \/ PhaseFails
    BY <1>1 DEF Ingest, Commit, Crash, PhaseFails, Abort, StartNext
  <1>2. CASE StopsScanned \/ Tick \/ (\E v \in Versions : Operator(v)) \/ UNCHANGED vars
    <2>1. tx' = tx /\ db' = db
      BY <1>2 DEF StopsScanned, Tick, Operator, vars
    <2> QED BY <2>1, SameStep
  <1>3. ASSUME NEW k \in todo, SignalStep(k)
        PROVE  db' = db /\ \A x \in Keys : StepOf(x)
    <2>1. db' = db
      BY <1>3 DEF SignalStep, SkipPair, Hold, EmitSignal, DisableVersion, Handled
    <2> QED BY <1>3, <2>1, SignalStepOf
  <1>4. ASSUME NEW k \in todo, RiskStep(k)
        PROVE  db' = db /\ \A x \in Keys : StepOf(x)
    <2>1. db' = db
      BY <1>4 DEF RiskStep, ApproveSignal, BlockSignal, Handled
    <2> QED BY <1>4, <2>1, RiskStepOf
  <1>5. ASSUME NEW k \in todo, StopClose(k)
        PROVE  db' = db /\ \A x \in Keys : StepOf(x)
    <2>1. db' = db
      BY <1>5 DEF StopClose, Handled
    <2> QED BY <1>5, <2>1, StopCloseOf
  <1>6. ASSUME NEW k \in todo, BuyFill(k) \/ ExitFill(k) \/ RejectExit(k)
        PROVE  db' = db /\ \A x \in Keys : StepOf(x)
    <2>1. db' = db
      BY <1>6 DEF BuyFill, ExitFill, RejectExit, Handled
    <2> QED BY <1>6, <2>1, FillStepOf
  <1>7. ASSUME NEW k \in todo, NoBreach(k) \/ KeepWaiting(k)
        PROVE  db' = db /\ \A x \in Keys : StepOf(x)
    <2>1. tx' = tx /\ db' = db
      BY <1>7 DEF NoBreach, KeepWaiting, Handled
    <2> QED BY <2>1, SameStep
  <1>8. ASSUME NEW k \in todo, StopCollides(k) \/ BuyCollides(k)
        PROVE  tx' = db' /\ db' = db
    BY <1>8 DEF StopCollides, BuyCollides, Abort, StartNext
  <1> QED BY <1>1, <1>2, <1>3, <1>4, <1>5, <1>6, <1>7, <1>8
          DEF Next, WorkerStep, StopStep, FillStep

LEMMA AdvancedGrows ==
  ASSUME NEW k \in Keys, Grows(db, tx), StateAdvanced(db, k)
  PROVE  StateAdvanced(tx, k)
  BY DEF StateAdvanced, Grows, RowGrows

LEMMA OnceInv == IInv /\ DecidedOnce /\ [Next]_vars => DecidedOnce'
  <1> SUFFICES ASSUME IInv, DecidedOnce, [Next]_vars PROVE DecidedOnce'
    OBVIOUS
  <1>1. CASE tx' = db' /\ db' \in {db, tx}
    <2>1. Decided(db') /\ Decided(tx')
      BY <1>1 DEF DecidedOnce
    <2>2. Onward(db', tx')
      BY <1>1 DEF Onward
    <2> QED BY <2>1, <2>2 DEF DecidedOnce, Decided, Onward, Synthetic, StateAdvanced
  <1>2. CASE db' = db /\ \A x \in Keys : StepOf(x)
    <2>1. ASSUME NEW k \in Keys, k.v \in Stateful, tx'[k].sig # "none"
          PROVE  tx'[k].adv \/ Synthetic(tx', k)
      <3>1. tx[k].sig # "none" => tx[k].adv \/ Synthetic(tx, k)
        BY <2>1 DEF DecidedOnce, Decided
      <3>2. StepOf(k)
        BY <1>2
      <3> QED BY <2>1, <3>1, <3>2 DEF StepOf
    <2>2. ASSUME NEW k \in Keys, k.v \in Stateful, StateAdvanced(db, k), ~db[k].adv
          PROVE  ~tx'[k].adv
      <3>1. ~tx[k].adv
        BY <2>2 DEF DecidedOnce, Onward
      <3>2. ~Evaluable(k)
        BY <2>2, AdvancedGrows DEF IInv, Evaluable
      <3>3. StepOf(k)
        BY <1>2
      <3> QED BY <3>1, <3>2, <3>3 DEF StepOf
    <2>3. ASSUME NEW k \in Keys, k.v \in Stateful, db[k].adv, db[k].sig = "none"
          PROVE  tx'[k].sig = "none" \/ Synthetic(tx', k)
      <3>1. tx[k].sig = "none" \/ Synthetic(tx, k)
        BY <2>3 DEF DecidedOnce, Onward
      <3>2. StateAdvanced(db, k)
        <4>1. k.ts >= k.ts
          BY KeysFacts
        <4> QED BY <2>3, <4>1 DEF StateAdvanced, SamePair
      <3>3. ~Evaluable(k)
        BY <2>3, <3>2, AdvancedGrows DEF IInv, Evaluable
      <3>4. StepOf(k)
        BY <1>2
      <3> QED BY <3>1, <3>3, <3>4 DEF StepOf
    <2>4. Decided(tx') /\ Decided(db')
      BY <1>2, <2>1 DEF Decided, DecidedOnce
    <2>5. Onward(db', tx')
      BY <1>2, <2>2, <2>3 DEF Onward
    <2> QED BY <2>4, <2>5 DEF DecidedOnce, Decided, Onward, Synthetic, StateAdvanced
  <1> QED BY <1>1, <1>2, TxSteps

-----------------------------------------------------------------------------
(* Trades are left after they are entered, if a symbol has one timeframe and
   its bars come in order.  On top of IInv: bars are stored without holes
   (NoHoles), signals come with the latest candle, the risk manager decides the
   older ones first (Timely), and so does the executor, so that no older EXIT
   is left when a BUY fills (Past). *)

\* One timeframe, and an exchange without gaps.
Regular == ~FeedGaps /\ \A t, u \in Timeframes : t = u

NoHoles == \A c \in candles : \A b \in [s : Symbols, tf : Timeframes, open : Times] :
    SamePair(c, b) /\ b.open % BarLen[b.tf] = 0 /\ b.open <= c.open =>
        \E a \in candles : SamePair(a, b) /\ a.open = b.open

OnGrid == \A c \in candles : c.open % BarLen[c.tf] = 0

\* A signal belongs to a stored candle.
SignalHasCandle(d) == \A k \in Keys : d[k].sig # "none" =>
    \E c \in candles : SamePair(c, k) /\ Close(c) = k.ts

\* Before a BUY gets its order, every older signal of its slot is decided.
Timely(d) == \A k, e \in Keys :
    SameSlot(e, k) /\ e.ts < k.ts /\ d[k].sig = "BUY" /\ d[k].ord # "none"
      => (d[e].sig # "none" => d[e].done)

\* No EXIT from before an open position is on its way.
Past(d) == \A k, e \in Keys :
    SameSlot(e, k) /\ e.ts < k.ts /\ d[k].pos = "OPEN" /\ d[e].sig = "EXIT"
      => d[e].done /\ d[e].ord # "PENDING"

ExitsLate(d) == \A k \in Keys : \A e \in d[k].exit : d[k].fill <= d[e].fill

InOrder(d) == SignalHasCandle(d) /\ Timely(d) /\ Past(d) /\ ExitsLate(d)

\* The work lists leave nothing out.
WholeLists ==
    /\ pc = "signal" => \A k \in todo : IsLatest(candles, k)
    /\ pc = "risk" => Unprocessed(tx) \subseteq todo
    /\ pc = "fills" => \A k \in PendingOrders(tx) : k \in todo \/ ~FillBarStored(k)

Orderly == OnGrid /\ NoHoles /\ InOrder(db) /\ InOrder(tx) /\ WholeLists

\* The next multiple.
LEMMA NextMultiple ==
  ASSUME NEW x \in Nat, NEW d \in Nat \ {0}, x % d = 0
  PROVE  (x + d) % d = 0
  <1> DEFINE p == x \div d
             q == (x + d) \div d
             r == (x + d) % d
             m == p + 1 - q
  <1>1. p \in Int /\ x = (d * p) + (x % d)
    BY SMT
  <1>2. q \in Int /\ r \in 0 .. d - 1 /\ x + d = (d * q) + r
    BY SMT
  <1> HIDE DEF p, q, r
  <1>3. m \in Int /\ d * m = r
    <2>1. d * (p + 1 - q) = (d * p) + d - (d * q)
      BY <1>1, <1>2
    <2>2. d * p \in Int /\ d * q \in Int
      BY <1>1, <1>2
    <2>3. d * p = x
      BY <1>1, <2>2
    <2> QED BY <1>1, <1>2, <2>1, <2>2, <2>3
  <1> HIDE DEF m
  <1>4. m >= 1 => d * m >= d
    BY <1>3
  <1>5. m <= -1 => d * m <= -d
    BY <1>3
  <1>6. m = 0
    BY <1>2, <1>3, <1>4, <1>5
  <1>7. r = 0
    BY <1>3, <1>6
  <1> QED BY <1>7 DEF r

LEMMA SlotIsPair ==
  ASSUME Regular, NEW k \in Keys, NEW e \in Keys, SameSlot(e, k)
  PROVE  SamePair(e, k)
  BY KeysFacts DEF Regular, SameSlot, SamePair

\* With the bar of a later key the bar of an earlier one is stored.
LEMMA EarlierBarStored ==
  ASSUME Regular, TypeOK, OnGrid, NoHoles, NEW k \in Keys, NEW e \in Keys,
         SameSlot(e, k), e.ts < k.ts, FillBarStored(k),
         \E c \in candles : SamePair(c, e) /\ Close(c) = e.ts
  PROVE  FillBarStored(e)
  <1>1. PICK a \in candles : SamePair(a, e) /\ Close(a) = e.ts
    OBVIOUS
  <1>2. PICK c \in candles : SamePair(c, k) /\ c.open = k.ts
    BY DEF FillBarStored
  <1>3. a \in Bars /\ a.open \in Nat /\ BarLen[a.tf] \in Nat \ {0} /\ a.tf = e.tf
    BY <1>1, PipelineAssumption DEF TypeOK, Bars, Times, SamePair
  <1>4. e.ts % BarLen[e.tf] = 0
    <2>1. (a.open + BarLen[a.tf]) % BarLen[a.tf] = 0
      BY <1>1, <1>3, NextMultiple DEF OnGrid
    <2> QED BY <1>1, <1>3, <2>1 DEF Close
  <1> DEFINE b == [s |-> e.s, tf |-> e.tf, open |-> e.ts]
  <1>5. b \in [s : Symbols, tf : Timeframes, open : Times]
    BY KeysFacts
  <1>6. SamePair(c, b) /\ b.open <= c.open /\ b.open % BarLen[b.tf] = 0
    BY <1>2, <1>4, SlotIsPair, KeysFacts DEF SamePair
  <1> HIDE DEF b
  <1>7. PICK z \in candles : SamePair(z, b) /\ z.open = b.open
    BY <1>5, <1>6 DEF NoHoles
  <1> QED BY <1>7 DEF b, FillBarStored, SamePair

\* Nothing is known of the row but these fields.
LEMMA InOrderSame ==
  ASSUME NEW d, NEW q, InOrder(d),
         \A x \in Keys : /\ q[x].sig = d[x].sig /\ (q[x].done <=> d[x].done)
                         /\ q[x].ord = d[x].ord /\ q[x].pos = d[x].pos
                         /\ q[x].fill = d[x].fill /\ q[x].exit = d[x].exit /\ d[x].exit \subseteq Keys
  PROVE  InOrder(q)
  <1>1. SignalHasCandle(q)
    BY DEF InOrder, SignalHasCandle
  <1>2. Timely(q)
    BY DEF InOrder, Timely
  <1>3. Past(q)
    BY DEF InOrder, Past
  <1>4. ExitsLate(q)
    BY DEF InOrder, ExitsLate
  <1> QED BY <1>1, <1>2, <1>3, <1>4 DEF InOrder

\* No key's signal is later than the latest candle.
LEMMA NoneLater ==
  ASSUME Regular, TypeOK, NEW d, SignalHasCandle(d), NEW k \in Keys, IsLatest(candles, k),
         NEW x \in Keys, SameSlot(k, x), d[x].sig # "none"
  PROVE  ~(k.ts < x.ts)
  <1>1. PICK c \in candles : SamePair(c, x) /\ Close(c) = x.ts
    BY DEF SignalHasCandle
  <1>2. SamePair(c, k)
    BY <1>1, SlotIsPair DEF SamePair
  <1>3. x.ts <= k.ts
    BY <1>1, <1>2 DEF IsLatest
  <1> QED BY <1>3, KeysFacts

LEMMA HoldInOrder ==
  ASSUME IInv, Orderly, NEW k \in todo, Hold(k)
  PROVE  InOrder(tx')
  <1>1. k \in Keys /\ tx \in [Keys -> Row]
    BY DEF IInv, TypeOK
  <1>2. tx' = [tx EXCEPT ![k].adv = k.v \in Stateful]
    BY DEF Hold
  <1>3. \A x \in Keys :
          /\ tx'[x].sig = tx[x].sig /\ tx'[x].done = tx[x].done
          /\ tx'[x].ord = tx[x].ord /\ tx'[x].pos = tx[x].pos
          /\ tx'[x].fill = tx[x].fill /\ tx'[x].exit = tx[x].exit /\ tx[x].exit \subseteq Keys
    BY <1>1, <1>2 DEF Row
  <1> QED BY <1>3, InOrderSame DEF Orderly

LEMMA EmitInOrder ==
  ASSUME Regular, IInv, Orderly, NEW k \in todo, EmitSignal(k)
  PROVE  InOrder(tx')
  <1>1. k \in Keys /\ tx \in [Keys -> Row] /\ tx[k] \in Row /\ Good(tx) /\ TypeOK
    BY DEF IInv, TypeOK
  <1>2. PICK kind \in Signals(k), stop \in Stops :
          tx' = [tx EXCEPT ![k] = [@ EXCEPT !.sig = kind,
                                            !.stop = IF kind = "BUY" THEN stop ELSE 0,
                                            !.adv = k.v \in Stateful]]
    BY DEF EmitSignal
  <1>3. tx[k].sig = "none" /\ IsLatest(candles, k)
    BY DEF EmitSignal, Evaluable, Orderly, WholeLists
  <1>4. tx[k].ord = "none" /\ tx[k].pos = "none"
    BY <1>1, <1>3 DEF Good, Lockstep, Row
  <1>5. /\ \A x \in Keys : /\ tx'[x].done = tx[x].done
                           /\ tx'[x].ord = tx[x].ord /\ tx'[x].pos = tx[x].pos
                           /\ tx'[x].fill = tx[x].fill /\ tx'[x].exit = tx[x].exit
                           /\ tx[x].exit \subseteq Keys
        /\ \A x \in Keys : x # k => tx'[x].sig = tx[x].sig
    BY <1>1, <1>2 DEF Row
  <1>6. SignalHasCandle(tx) /\ Timely(tx) /\ Past(tx) /\ ExitsLate(tx)
    BY DEF Orderly, InOrder
  <1>7. SignalHasCandle(tx')
    <2> SUFFICES ASSUME NEW x \in Keys, tx'[x].sig # "none"
                 PROVE  \E c \in candles : SamePair(c, x) /\ Close(c) = x.ts
      BY DEF SignalHasCandle
    <2>1. CASE x = k
      BY <1>3, <2>1 DEF IsLatest
    <2>2. CASE x # k
      BY <1>5, <1>6, <2>2 DEF SignalHasCandle
    <2> QED BY <2>1, <2>2
  <1>8. Timely(tx')
    <2> SUFFICES ASSUME NEW x \in Keys, NEW e \in Keys, SameSlot(e, x), e.ts < x.ts,
                        tx'[x].sig = "BUY", tx'[x].ord # "none", tx'[e].sig # "none"
                 PROVE  tx'[e].done
      BY DEF Timely
    <2>1. x # k
      BY <1>4, <1>5
    <2>2. e # k
      BY <1>1, <1>3, <1>5, <1>6, <2>1, NoneLater
    <2> QED BY <1>5, <1>6, <2>1, <2>2 DEF Timely
  <1>9. Past(tx')
    <2> SUFFICES ASSUME NEW x \in Keys, NEW e \in Keys, SameSlot(e, x), e.ts < x.ts,
                        tx'[x].pos = "OPEN", tx'[e].sig = "EXIT"
                 PROVE  tx'[e].done /\ tx'[e].ord # "PENDING"
      BY DEF Past
    <2>1. tx[x].pos = "OPEN"
      BY <1>5
    <2>2. tx[x].sig = "BUY"
      BY <1>1, <2>1 DEF Good, Lockstep
    <2>3. e # k
      BY <1>1, <1>3, <1>6, <2>2, NoneLater
    <2> QED BY <1>5, <1>6, <2>1, <2>3 DEF Past
  <1>10. ExitsLate(tx')
    BY <1>5, <1>6 DEF ExitsLate
  <1> QED BY <1>7, <1>8, <1>9, <1>10 DEF InOrder

\* The row of a decided signal: it is the oldest, hence none before it is open.
LEMMA RiskInOrder ==
  ASSUME IInv, Orderly, NEW k \in todo, RiskStep(k)
  PROVE  InOrder(tx')
  <1>1. k \in Keys /\ tx \in [Keys -> Row] /\ tx[k] \in Row /\ Good(tx)
    BY DEF IInv, TypeOK
  <1>2. pc = "risk" /\ ~tx[k].done /\ k \in Oldest(todo)
    BY DEF RiskStep, ApproveSignal, BlockSignal, IInv, WorkList
  <1>3. /\ \A x \in Keys : x # k => tx'[x] = tx[x]
        /\ tx'[k].done /\ tx'[k].sig = tx[k].sig /\ tx'[k].pos = tx[k].pos
        /\ tx'[k].fill = tx[k].fill /\ tx'[k].exit = tx[k].exit
    <2>1. CASE ApproveSignal(k)
      BY <1>1, <2>1 DEF ApproveSignal, Row
    <2>2. CASE BlockSignal(k)
      BY <1>1, <2>2 DEF BlockSignal, Row
    <2> QED BY <2>1, <2>2 DEF RiskStep
  <1>4. SignalHasCandle(tx) /\ Timely(tx) /\ Past(tx) /\ ExitsLate(tx)
    BY DEF Orderly, InOrder
  <1>5. \A x \in Keys : tx[x].exit \subseteq Keys
    BY <1>1 DEF Row
  <1>6. SignalHasCandle(tx')
    BY <1>3, <1>4 DEF SignalHasCandle
  <1>7. Timely(tx')
    <2> SUFFICES ASSUME NEW x \in Keys, NEW e \in Keys, SameSlot(e, x), e.ts < x.ts,
                        tx'[x].sig = "BUY", tx'[x].ord # "none", tx'[e].sig # "none"
                 PROVE  tx'[e].done
      BY DEF Timely
    <2>1. CASE e = k
      BY <1>3, <2>1
    <2>2. CASE e # k /\ x # k
      BY <1>3, <1>4, <2>2 DEF Timely
    <2>3. CASE e # k /\ x = k
      <3>1. ~(k.ts <= e.ts)
        BY <2>3, KeysFacts
      <3>2. e \notin todo
        BY <1>2, <3>1 DEF Oldest
      <3>3. tx[e].sig # "none"
        BY <1>3, <2>3
      <3>4. tx[e].done
        BY <1>2, <3>2, <3>3 DEF Orderly, WholeLists, Unprocessed
      <3> QED BY <1>3, <2>3, <3>4
    <2> QED BY <2>1, <2>2, <2>3
  <1>8. Past(tx')
    <2> SUFFICES ASSUME NEW x \in Keys, NEW e \in Keys, SameSlot(e, x), e.ts < x.ts,
                        tx'[x].pos = "OPEN", tx'[e].sig = "EXIT"
                 PROVE  tx'[e].done /\ tx'[e].ord # "PENDING"
      BY DEF Past
    <2>1. tx[x].pos = "OPEN" /\ tx[e].sig = "EXIT"
      BY <1>3
    <2>2. tx[e].done /\ tx[e].ord # "PENDING"
      BY <1>4, <2>1 DEF Past
    <2>3. e # k
      BY <1>2, <2>2
    <2> QED BY <1>3, <2>2, <2>3
  <1>9. ExitsLate(tx')
    BY <1>3, <1>4, <1>5 DEF ExitsLate
  <1> QED BY <1>6, <1>7, <1>8, <1>9 DEF InOrder

\* A position's fill is at its own candle.
LEMMA EntryFill ==
  ASSUME NEW d \in [Keys -> Row], Good(d), NEW k \in Keys, d[k].pos = "OPEN"
  PROVE  d[k].sig = "BUY" /\ d[k].ord = "FILLED" /\ d[k].fill = k.ts /\ d[k].exit = {}
  <1>1. d[k].sig = "BUY" /\ d[k].ord = "FILLED"
    BY DEF Good, Lockstep
  <1>2. d[k].exit = {}
    BY DEF Good, ExitsPairUp
  <1>3. PICK c \in candles : c.open = d[k].fill /\ c.open = k.ts
    BY <1>1 DEF Good, FillsAtStoredOpen
  <1> QED BY <1>1, <1>2, <1>3

\* A position p is left by e, which was filled no earlier.
LEMMA ExitInOrder ==
  ASSUME IInv, Orderly, NEW p \in Keys, NEW e \in Keys, e # p,
         \A x \in Keys \ {e, p} : tx'[x] = tx[x],
         tx[p].pos = "OPEN", tx[e].ord # "FILLED", tx[e].pos = "none",
         tx[e].sig \in {"none", "EXIT"}, tx[e].exit = {},
         tx'[p].sig = tx[p].sig, tx'[p].ord = tx[p].ord, tx'[p].done <=> tx[p].done,
         tx'[p].fill = tx[p].fill, tx'[p].pos = "CLOSED", tx'[p].exit = {e},
         tx'[e].sig = "EXIT", tx'[e].ord = "FILLED", tx'[e].done, tx'[e].pos = "none",
         tx'[e].exit = {}, p.ts <= tx'[e].fill,
         \E c \in candles : SamePair(c, e) /\ Close(c) = e.ts
  PROVE  InOrder(tx')
  <1>1. tx \in [Keys -> Row] /\ Good(tx)
    BY DEF IInv, TypeOK
  <1>2. SignalHasCandle(tx) /\ Timely(tx) /\ Past(tx) /\ ExitsLate(tx)
    BY DEF Orderly, InOrder
  <1>3. tx[p].sig = "BUY" /\ tx[p].ord = "FILLED" /\ tx[p].fill = p.ts
    BY <1>1, EntryFill
  <1>4. \A x \in Keys : tx[x].exit \subseteq Keys /\ e \notin tx[x].exit
    BY <1>1 DEF Row, Good, ExitsPairUp
  <1>5. SignalHasCandle(tx')
    <2> SUFFICES ASSUME NEW x \in Keys, tx'[x].sig # "none"
                 PROVE  \E c \in candles : SamePair(c, x) /\ Close(c) = x.ts
      BY DEF SignalHasCandle
    <2>1. CASE x = e
      BY <2>1
    <2>2. CASE x # e
      <3>1. tx[x].sig # "none"
        BY <2>2
      <3> QED BY <1>2, <3>1 DEF SignalHasCandle
    <2> QED BY <2>1, <2>2
  <1>6. Timely(tx')
    <2> SUFFICES ASSUME NEW x \in Keys, NEW y \in Keys, SameSlot(y, x), y.ts < x.ts,
                        tx'[x].sig = "BUY", tx'[x].ord # "none", tx'[y].sig # "none"
                 PROVE  tx'[y].done
      BY DEF Timely
    <2>1. CASE y = e
      BY <2>1
    <2>2. CASE y # e
      <3>1. x # e
        OBVIOUS
      <3>2. tx[x].sig = "BUY" /\ tx[x].ord # "none" /\ tx[y].sig # "none"
        BY <2>2, <3>1
      <3>3. tx[y].done
        BY <1>2, <3>2 DEF Timely
      <3> QED BY <2>2, <3>3
    <2> QED BY <2>1, <2>2
  <1>7. Past(tx')
    <2> SUFFICES ASSUME NEW x \in Keys, NEW y \in Keys, SameSlot(y, x), y.ts < x.ts,
                        tx'[x].pos = "OPEN", tx'[y].sig = "EXIT"
                 PROVE  tx'[y].done /\ tx'[y].ord # "PENDING"
      BY DEF Past
    <2>1. x # e /\ x # p
      OBVIOUS
    <2>2. CASE y = e
      BY <2>2
    <2>3. CASE y = p
      BY <1>3, <2>3
    <2>4. CASE y # e /\ y # p
      BY <1>2, <2>1, <2>4 DEF Past
    <2> QED BY <2>2, <2>3, <2>4
  <1>8. ExitsLate(tx')
    <2> SUFFICES ASSUME NEW x \in Keys, NEW y \in tx'[x].exit
                 PROVE  tx'[x].fill <= tx'[y].fill
      BY DEF ExitsLate
    <2>1. CASE x = p
      BY <1>3, <2>1
    <2>2. CASE x = e
      BY <2>2
    <2>3. CASE x # p /\ x # e
      <3>1. y \in tx[x].exit /\ y \in Keys /\ y # e
        BY <1>4, <2>3
      <3>2. tx[x].fill <= tx[y].fill
        BY <1>2, <3>1 DEF ExitsLate
      <3>3. tx'[y].fill = tx[y].fill
        BY <3>1
      <3> QED BY <2>3, <3>2, <3>3
    <2> QED BY <2>1, <2>2, <2>3
  <1> QED BY <1>5, <1>6, <1>7, <1>8 DEF InOrder

LEMMA StopInOrder ==
  ASSUME IInv, Orderly, NEW k \in todo, StopClose(k)
  PROVE  InOrder(tx')
  <1>1. k \in Keys /\ tx \in [Keys -> Row] /\ Good(tx)
    BY DEF IInv, TypeOK
  <1>2. pc = "stops" /\ tx[k].pos = "OPEN"
    BY DEF StopClose, IInv, WorkList
  <1>3. PICK b \in Breaches(tx, k) : tx[StopKey(k, b)].sig = "none" /\ tx' = StopRows(k, b)
    BY DEF StopClose
  <1>4. b \in candles /\ b \in Bars /\ SamePair(b, k) /\ b.open >= k.ts /\ Close(b) <= now
    BY DEF Breaches, IInv, TypeOK
  <1>5. b.open \in Times /\ BarLen[b.tf] \in Nat \ {0} /\ now \in Times
    BY <1>4, PipelineAssumption DEF Bars, IInv, TypeOK
  <1>6. Close(b) \in Times
    BY <1>4, <1>5, KeysFacts, PipelineAssumption DEF Close, Times
  <1> DEFINE e == StopKey(k, b)
  <1>7. e \in Keys /\ e.ts = Close(b) /\ e.s = k.s /\ e.tf = k.tf
    BY <1>1, <1>6 DEF StopKey, Keys
  <1>8. tx[k].sig = "BUY"
    BY <1>1, <1>2 DEF Good, Lockstep
  <1>9. e # k /\ tx[e].sig = "none" /\ tx[e] \in Row /\ tx[k] \in Row
    BY <1>1, <1>3, <1>7, <1>8
  <1>10. tx' = [tx EXCEPT ![e] = [@ EXCEPT !.sig = "EXIT", !.done = TRUE,
                                           !.ord = "FILLED", !.fill = b.open],
                          ![k] = [@ EXCEPT !.pos = "CLOSED", !.why = "stop_hit",
                                           !.exit = {e}]]
    BY <1>3 DEF StopRows
  <1> HIDE DEF e
  <1>11. tx[e].ord = "none" /\ tx[e].pos = "none" /\ tx[e].exit = {}
    <2>1. tx[e].ord = "none" /\ tx[e].pos = "none"
      BY <1>1, <1>7, <1>9 DEF Good, Lockstep, Row
    <2>2. tx[e].exit = {}
      BY <1>1, <1>7, <2>1 DEF Good, ExitsPairUp
    <2> QED BY <2>1, <2>2
  <1>12. /\ tx'[e].sig = "EXIT" /\ tx'[e].ord = "FILLED" /\ tx'[e].fill = b.open /\ tx'[e].done
         /\ tx'[e].pos = tx[e].pos /\ tx'[e].exit = tx[e].exit
    BY <1>1, <1>7, <1>9, <1>10 DEF Row
  <1>13. /\ tx'[k].sig = tx[k].sig /\ tx'[k].done = tx[k].done
         /\ tx'[k].ord = tx[k].ord /\ tx'[k].fill = tx[k].fill
         /\ tx'[k].pos = "CLOSED" /\ tx'[k].exit = {e}
    BY <1>1, <1>9, <1>10 DEF Row
  <1>14. \A x \in Keys \ {e, k} : tx'[x] = tx[x]
    BY <1>1, <1>10
  <1>15. k.ts <= tx'[e].fill
    BY <1>1, <1>4, <1>5, <1>12, KeysFacts DEF Times
  <1>16. \E c \in candles : SamePair(c, e) /\ Close(c) = e.ts
    BY <1>4, <1>7 DEF SamePair
  <1>17. tx[e].ord # "FILLED" /\ tx[e].sig \in {"none", "EXIT"}
    BY <1>9, <1>11
  <1> QED BY <1>1, <1>2, <1>7, <1>9, <1>11, <1>12, <1>13, <1>14, <1>15, <1>16, <1>17,
             ExitInOrder

LEMMA ExitFillInOrder ==
  ASSUME Regular, IInv, Orderly, NEW k \in todo, ExitFill(k)
  PROVE  InOrder(tx')
  <1>1. k \in Keys /\ tx \in [Keys -> Row] /\ tx[k] \in Row /\ Good(tx)
    BY DEF IInv, TypeOK
  <1>2. tx[k].ord = "PENDING" /\ tx[k].sig = "EXIT"
    BY DEF ExitFill, Fillable, IInv, WorkList
  <1>3. PICK p \in OpenIn(tx, k) :
          tx' = [tx EXCEPT ![k] = [@ EXCEPT !.ord = "FILLED", !.fill = k.ts],
                           ![p] = [@ EXCEPT !.pos = "CLOSED", !.why = "signal_exit",
                                            !.exit = {k}]]
    BY DEF ExitFill
  <1>4. p \in Keys /\ tx[p] \in Row /\ tx[p].pos = "OPEN" /\ SameSlot(k, p)
    BY <1>1 DEF OpenIn, SameSlot
  <1>5. p # k
    BY <1>1, <1>2, <1>4, EntryFill
  <1>6. tx[k].done /\ tx[k].pos = "none"
    <2>1. tx[k].done
      BY <1>1, <1>2 DEF Good, Lockstep
    <2>2. tx[k].pos = "none"
      BY <1>1, <1>2 DEF Good, Lockstep
    <2> QED BY <2>1, <2>2
  <1>7. tx[k].exit = {}
    BY <1>1, <1>6 DEF Good, ExitsPairUp
  <1>8. /\ tx'[k].sig = tx[k].sig /\ tx'[k].ord = "FILLED" /\ tx'[k].fill = k.ts
        /\ tx'[k].done = tx[k].done /\ tx'[k].pos = tx[k].pos /\ tx'[k].exit = tx[k].exit
    BY <1>1, <1>3, <1>4, <1>5 DEF Row
  <1>9. /\ tx'[p].sig = tx[p].sig /\ tx'[p].done = tx[p].done
        /\ tx'[p].ord = tx[p].ord /\ tx'[p].fill = tx[p].fill
        /\ tx'[p].pos = "CLOSED" /\ tx'[p].exit = {k}
    BY <1>1, <1>3, <1>4, <1>5 DEF Row
  <1>10. \A x \in Keys \ {k, p} : tx'[x] = tx[x]
    BY <1>1, <1>3
  <1>11. ~(k.ts < p.ts)
    BY <1>1, <1>2, <1>4 DEF Orderly, InOrder, Past
  <1>12. p.ts <= tx'[k].fill
    BY <1>1, <1>4, <1>8, <1>11, KeysFacts
  <1>13. \E c \in candles : SamePair(c, k) /\ Close(c) = k.ts
    BY <1>1, <1>2 DEF Orderly, InOrder, SignalHasCandle
  <1>14. tx[k].ord # "FILLED" /\ tx[k].sig \in {"none", "EXIT"} /\ tx'[k].sig = "EXIT"
    BY <1>2, <1>8
  <1>15. tx'[k].pos = "none" /\ tx'[k].exit = {}
    BY <1>6, <1>7, <1>8
  <1>16. tx'[k].done
    BY <1>6, <1>8, Zenon
  <1> QED BY <1>1, <1>4, <1>5, <1>6, <1>7, <1>8, <1>9, <1>10, <1>12, <1>13, <1>14, <1>15,
             <1>16, ExitInOrder

LEMMA RejectInOrder ==
  ASSUME IInv, Orderly, NEW k \in todo, RejectExit(k)
  PROVE  InOrder(tx')
  <1>1. k \in Keys /\ tx \in [Keys -> Row] /\ tx[k] \in Row /\ Good(tx)
    BY DEF IInv, TypeOK
  <1>2. tx[k].ord = "PENDING" /\ tx[k].sig = "EXIT"
    BY DEF RejectExit, Fillable, IInv, WorkList
  <1>3. tx' = [tx EXCEPT ![k].ord = "REJECTED"]
    BY DEF RejectExit
  <1>4. /\ \A x \in Keys : /\ tx'[x].sig = tx[x].sig /\ tx'[x].done = tx[x].done
                           /\ tx'[x].pos = tx[x].pos
                           /\ tx'[x].fill = tx[x].fill /\ tx'[x].exit = tx[x].exit
                           /\ tx[x].exit \subseteq Keys
        /\ \A x \in Keys : x # k => tx'[x].ord = tx[x].ord
        /\ tx'[k].ord = "REJECTED"
    BY <1>1, <1>3 DEF Row
  <1>5. SignalHasCandle(tx) /\ Timely(tx) /\ Past(tx) /\ ExitsLate(tx)
    BY DEF Orderly, InOrder
  <1>6. SignalHasCandle(tx')
    BY <1>4, <1>5 DEF SignalHasCandle
  <1>7. Timely(tx')
    <2> SUFFICES ASSUME NEW x \in Keys, NEW e \in Keys, SameSlot(e, x), e.ts < x.ts,
                        tx'[x].sig = "BUY", tx'[x].ord # "none", tx'[e].sig # "none"
                 PROVE  tx'[e].done
      BY DEF Timely
    <2>1. x # k
      BY <1>2, <1>4
    <2> QED BY <1>4, <1>5, <2>1 DEF Timely
  <1>8. Past(tx')
    BY <1>4, <1>5 DEF Past
  <1>9. ExitsLate(tx')
    BY <1>4, <1>5 DEF ExitsLate
  <1> QED BY <1>6, <1>7, <1>8, <1>9 DEF InOrder

LEMMA BuyInOrder ==
  ASSUME Regular, IInv, Orderly, NEW k \in todo, BuyFill(k)
  PROVE  InOrder(tx')
  <1>1. k \in Keys /\ tx \in [Keys -> Row] /\ tx[k] \in Row /\ Good(tx) /\ TypeOK
    BY DEF IInv, TypeOK
  <1>2. /\ pc = "fills" /\ tx[k].ord = "PENDING" /\ tx[k].sig = "BUY"
        /\ FillBarStored(k) /\ k \in Oldest(todo)
    BY DEF BuyFill, Fillable, IInv, WorkList
  <1>3. tx' = [tx EXCEPT ![k] = [@ EXCEPT !.ord = "FILLED", !.fill = k.ts, !.pos = "OPEN"]]
    BY DEF BuyFill
  <1>4. /\ \A x \in Keys : /\ tx'[x].sig = tx[x].sig /\ tx'[x].done = tx[x].done
                           /\ tx'[x].exit = tx[x].exit /\ tx[x].exit \subseteq Keys
        /\ \A x \in Keys : x # k => tx'[x] = tx[x]
        /\ tx'[k].ord = "FILLED"
    BY <1>1, <1>3 DEF Row
  <1>5. SignalHasCandle(tx) /\ Timely(tx) /\ Past(tx) /\ ExitsLate(tx) /\ OnGrid /\ NoHoles
    BY DEF Orderly, InOrder
  <1>6. tx[k].exit = {}
    <2>1. tx[k].pos = "none"
      BY <1>1, <1>2 DEF Good, Lockstep
    <2> QED BY <1>1, <2>1 DEF Good, ExitsPairUp
  <1>7. \A x \in Keys : k \notin tx[x].exit
    BY <1>1, <1>2 DEF Good, ExitsPairUp
  <1>8. SignalHasCandle(tx')
    BY <1>4, <1>5 DEF SignalHasCandle
  <1>9. Timely(tx')
    <2> SUFFICES ASSUME NEW x \in Keys, NEW e \in Keys, SameSlot(e, x), e.ts < x.ts,
                        tx'[x].sig = "BUY", tx'[x].ord # "none", tx'[e].sig # "none"
                 PROVE  tx'[e].done
      BY DEF Timely
    <2>1. tx[x].sig = "BUY" /\ tx[x].ord # "none" /\ tx[e].sig # "none"
      BY <1>2, <1>4
    <2> QED BY <1>4, <1>5, <2>1 DEF Timely
  <1>10. Past(tx')
    <2> SUFFICES ASSUME NEW x \in Keys, NEW e \in Keys, SameSlot(e, x), e.ts < x.ts,
                        tx'[x].pos = "OPEN", tx'[e].sig = "EXIT"
                 PROVE  tx'[e].done /\ tx'[e].ord # "PENDING"
      BY DEF Past
    <2>1. tx[e].sig = "EXIT" /\ e # k
      BY <1>2, <1>4
    <2>2. CASE x # k
      BY <1>4, <1>5, <2>1, <2>2 DEF Past
    <2>3. CASE x = k
      <3>1. tx[e].done
        BY <1>2, <1>5, <2>1, <2>3 DEF Timely
      <3>2. FillBarStored(e)
        <4>1. \E c \in candles : SamePair(c, e) /\ Close(c) = e.ts
          BY <1>5, <2>1 DEF SignalHasCandle
        <4> QED BY <1>1, <1>2, <1>5, <2>3, <4>1, EarlierBarStored
      <3>3. e \notin todo
        <4>1. ~(k.ts <= e.ts)
          BY <2>3, KeysFacts
        <4> QED BY <1>2, <4>1 DEF Oldest
      <3>4. tx[e].ord # "PENDING"
        BY <1>2, <3>2, <3>3 DEF Orderly, WholeLists, PendingOrders
      <3> QED BY <1>4, <2>1, <3>1, <3>4
    <2> QED BY <2>2, <2>3
  <1>11. ExitsLate(tx')
    <2> SUFFICES ASSUME NEW x \in Keys, NEW y \in tx'[x].exit
                 PROVE  tx'[x].fill <= tx'[y].fill
      BY DEF ExitsLate
    <2>1. x # k /\ y \in tx[x].exit /\ y \in Keys /\ y # k
      BY <1>4, <1>6, <1>7
    <2> QED BY <1>4, <1>5, <2>1 DEF ExitsLate
  <1> QED BY <1>8, <1>9, <1>10, <1>11 DEF InOrder

-----------------------------------------------------------------------------
(* Candles and work lists *)

\* What holds of rows holds of them with more candles.
LEMMA MoreCandles ==
  ASSUME candles \subseteq candles', InOrder(tx'), InOrder(db')
  PROVE  InOrder(tx)' /\ InOrder(db)'
  <1>1. Timely(tx)' /\ Past(tx)' /\ ExitsLate(tx)' /\ Timely(db)' /\ Past(db)' /\ ExitsLate(db)'
    BY DEF InOrder, Timely, Past, ExitsLate
  <1>2. SignalHasCandle(tx)' /\ SignalHasCandle(db)'
    BY DEF InOrder, SignalHasCandle
  <1> QED BY <1>1, <1>2 DEF InOrder

LEMMA IngestOrderly ==
  ASSUME Regular, IInv, Orderly, Ingest
  PROVE  OnGrid' /\ NoHoles' /\ candles \subseteq candles'
  <1>1. PICK D \in Deliveries : \E low \in [D -> Lows] :
          candles' = candles \cup {[s |-> b.s, tf |-> b.tf, open |-> b.open,
                                    low |-> low[b]] : b \in D}
    BY DEF Ingest
  <1>2. PICK low \in [D -> Lows] :
          candles' = candles \cup {[s |-> b.s, tf |-> b.tf, open |-> b.open,
                                    low |-> low[b]] : b \in D}
    BY <1>1
  <1>3. PICK P \in SUBSET (Symbols \X Timeframes) : D = {b \in Missing : <<b.s, b.tf>> \in P}
    BY DEF Deliveries, Regular
  <1>4. \A b \in D : b \in [s : Symbols, tf : Timeframes, open : Times] /\ b \in Missing
    BY <1>3 DEF Missing
  <1>5. candles \subseteq candles'
    BY <1>2
  <1>6. ASSUME NEW c \in candles', c \notin candles
        PROVE  \E b \in D : c.s = b.s /\ c.tf = b.tf /\ c.open = b.open
    BY <1>2, <1>6
  <1>7. ASSUME NEW b \in D
        PROVE  \E c \in candles' : c.s = b.s /\ c.tf = b.tf /\ c.open = b.open
    <2>1. [s |-> b.s, tf |-> b.tf, open |-> b.open, low |-> low[b]] \in candles'
      BY <1>2
    <2> QED BY <2>1
  <1>8. OnGrid'
    <2> SUFFICES ASSUME NEW c \in candles' PROVE c.open % BarLen[c.tf] = 0
      BY DEF OnGrid
    <2>1. CASE c \in candles
      BY <2>1 DEF Orderly, OnGrid
    <2>2. CASE c \notin candles
      <3>1. PICK b \in D : c.s = b.s /\ c.tf = b.tf /\ c.open = b.open
        BY <1>6, <2>2
      <3>2. b.open % BarLen[b.tf] = 0
        BY <1>4 DEF Missing
      <3> QED BY <3>1, <3>2
    <2> QED BY <2>1, <2>2
  <1>9. NoHoles'
    <2> SUFFICES ASSUME NEW c \in candles',
                        NEW b \in [s : Symbols, tf : Timeframes, open : Times],
                        SamePair(c, b), b.open % BarLen[b.tf] = 0, b.open <= c.open
                 PROVE  \E a \in candles' : SamePair(a, b) /\ a.open = b.open
      BY DEF NoHoles
    <2>1. CASE c \in candles
      <3>1. \E a \in candles : SamePair(a, b) /\ a.open = b.open
        BY <2>1 DEF Orderly, NoHoles
      <3> QED BY <1>5, <3>1
    <2>2. CASE c \notin candles
      <3>1. PICK z \in D : c.s = z.s /\ c.tf = z.tf /\ c.open = z.open
        BY <1>6, <2>2
      <3>2. z \in [s : Symbols, tf : Timeframes, open : Times] /\ Close(z) <= now
            /\ <<z.s, z.tf>> \in P
        BY <1>3, <1>4 DEF Missing
      <3>3. z.s = b.s /\ z.tf = b.tf
        BY <3>1 DEF SamePair
      <3>4. z.open \in Nat /\ b.open \in Nat /\ BarLen[b.tf] \in Nat /\ now \in Nat
        BY <3>2, PipelineAssumption DEF Times, IInv, TypeOK
      <3>5. Close(b) <= now
        BY <3>1, <3>2, <3>3, <3>4 DEF Close
      <3>6. CASE \E a \in candles : SamePair(a, b) /\ a.open = b.open
        BY <1>5, <3>6
      <3>7. CASE ~\E a \in candles : SamePair(a, b) /\ a.open = b.open
        <4>1. b \in Missing
          BY <3>5, <3>7 DEF Missing
        <4>2. <<b.s, b.tf>> \in P
          BY <3>2, <3>3
        <4>3. b \in D
          BY <1>3, <4>1, <4>2
        <4>4. PICK a \in candles' : a.s = b.s /\ a.tf = b.tf /\ a.open = b.open
          BY <1>7, <4>3
        <4> QED BY <4>4 DEF SamePair
      <3> QED BY <3>6, <3>7
    <2> QED BY <2>1, <2>2
  <1> QED BY <1>5, <1>8, <1>9

\* A step leaves the candles alone or is an ingest.
LEMMA CandleSteps ==
  ASSUME [Next]_vars PROVE UNCHANGED candles \/ Ingest
  BY DEF Next, WorkerStep, vars, SignalStep, SkipPair, Hold, EmitSignal, DisableVersion,
         RiskStep, ApproveSignal, BlockSignal, StopStep, NoBreach, StopClose, StopCollides,
         FillStep, KeepWaiting, BuyFill, BuyCollides, ExitFill, RejectExit, StopsScanned, Tick,
         Operator, PhaseFails, Crash, Abort, Handled, Commit

\* A phase starts with a whole list.
LEMMA StartNextLists ==
  ASSUME IInv, NEW d \in {db, tx}, NEW a \in SUBSET Versions, StartNext(d, a)
  PROVE  WholeLists'
  <1>1. pc' = NextPhase(pc) /\ tx' = d /\ todo' = Load(NextPhase(pc), d, candles', a)
    BY DEF StartNext
  <1>2. pc' # "fills"
    BY <1>1 DEF NextPhase
  <1>3. ASSUME pc' = "signal", NEW k \in todo' PROVE IsLatest(candles', k)
    BY <1>1, <1>3 DEF Load
  <1>4. pc' = "risk" => todo' = Unprocessed(tx')
    BY <1>1 DEF Load
  <1> QED BY <1>2, <1>3, <1>4 DEF WholeLists, IsLatest, Unprocessed

\* A phase has handled k: nothing else is left behind.
LEMMA HandledLists ==
  ASSUME IInv, Orderly, NEW k \in todo, Handled(k),
         pc = "risk" => tx'[k].done /\ \A x \in Keys \ {k} : tx'[x] = tx[x],
         pc = "fills" => /\ \A x \in Keys : tx'[x].ord = "PENDING" => tx[x].ord = "PENDING"
                         /\ tx'[k].ord # "PENDING" \/ ~FillBarStored(k)
  PROVE  WholeLists'
  <1>1. todo' = todo \ {k} /\ pc' = pc /\ candles' = candles
    BY DEF Handled
  <1>2. pc' = "signal" => \A x \in todo' : IsLatest(candles', x)
    BY <1>1 DEF Orderly, WholeLists
  <1>3. pc' = "risk" => Unprocessed(tx') \subseteq todo'
    BY <1>1 DEF Orderly, WholeLists, Unprocessed
  <1>4. ASSUME pc' = "fills", NEW x \in Keys, tx'[x].ord = "PENDING"
        PROVE  x \in todo' \/ ~FillBarStored(x)
    <2>1. tx[x].ord = "PENDING"
      BY <1>1, <1>4
    <2>2. x \in todo \/ ~FillBarStored(x)
      BY <1>1, <1>4, <2>1 DEF Orderly, WholeLists, PendingOrders
    <2> QED BY <1>1, <1>4, <2>2
  <1> QED BY <1>1, <1>2, <1>3, <1>4
          DEF WholeLists, PendingOrders, FillBarStored, IsLatest, Unprocessed

\* The rows a step leaves are in order.
LEMMA RowsInOrder ==
  ASSUME Regular, IInv, Orderly, [Next]_vars
  PROVE  InOrder(tx') /\ InOrder(db')
  <1>1. InOrder(tx) /\ InOrder(db)
    BY DEF Orderly
  <1>2. CASE Ingest \/ Commit \/ Crash \/ PhaseFails \/ StopsScanned \/ Tick
             \/ (\E v \in Versions : Operator(v)) \/ UNCHANGED vars
    <2>1. tx' \in {tx, db} /\ db' \in {tx, db}
      BY <1>2 DEF Ingest, Commit, Crash, PhaseFails, Abort, StartNext, StopsScanned, Tick,
                  Operator, vars
    <2> QED BY <1>1, <2>1
  <1>3. ASSUME NEW k \in todo,
               SkipPair(k) \/ DisableVersion(k) \/ NoBreach(k) \/ StopCollides(k)
                 \/ KeepWaiting(k) \/ BuyCollides(k)
        PROVE  InOrder(tx') /\ InOrder(db')
    <2>1. tx' \in {tx, db} /\ db' = db
      BY <1>3 DEF SkipPair, DisableVersion, NoBreach, StopCollides, KeepWaiting, BuyCollides,
                  Abort, StartNext, Handled
    <2> QED BY <1>1, <2>1
  <1>4. ASSUME NEW k \in todo,
               Hold(k) \/ EmitSignal(k) \/ RiskStep(k) \/ StopClose(k) \/ BuyFill(k)
                 \/ ExitFill(k) \/ RejectExit(k)
        PROVE  InOrder(tx') /\ InOrder(db')
    <2>1. db' = db
      BY <1>4 DEF Hold, EmitSignal, RiskStep, ApproveSignal, BlockSignal, StopClose, BuyFill,
                  ExitFill, RejectExit, Handled
    <2> QED BY <1>1, <1>4, <2>1, HoldInOrder, EmitInOrder, RiskInOrder, StopInOrder, BuyInOrder,
               ExitFillInOrder, RejectInOrder
  <1> QED BY <1>2, <1>3, <1>4 DEF Next, WorkerStep, SignalStep, StopStep, FillStep

\* And the work list is whole again.
LEMMA ListsStayWhole ==
  ASSUME IInv, Orderly, [Next]_vars
  PROVE  WholeLists'
  <1>1. CASE Ingest \/ Commit \/ PhaseFails
             \/ \E k \in todo : StopCollides(k) \/ BuyCollides(k)
    <2>1. active \in SUBSET Versions /\ active \ disabled \in SUBSET Versions
      BY DEF IInv, TypeOK
    <2>2. StartNext(tx, active \ disabled) \/ StartNext(db, active)
      BY <1>1 DEF Ingest, Commit, PhaseFails, StopCollides, BuyCollides, Abort
    <2> QED BY <2>1, <2>2, StartNextLists
  <1>2. CASE Crash
    BY <1>2 DEF Crash, WholeLists
  <1>3. CASE StopsScanned
    BY <1>3 DEF StopsScanned, WholeLists
  <1>4. CASE Tick \/ (\E v \in Versions : Operator(v)) \/ UNCHANGED vars
    <2>1. UNCHANGED <<candles, tx, pc, todo>>
      BY <1>4 DEF Tick, Operator, vars
    <2> QED BY <2>1 DEF Orderly, WholeLists, IsLatest, Unprocessed, PendingOrders, FillBarStored
  <1>5. ASSUME NEW k \in todo, SignalStep(k) PROVE WholeLists'
    <2>1. UNCHANGED <<candles, pc>> /\ pc = "signal" /\ todo' = todo \ {k}
      BY <1>5 DEF SignalStep, SkipPair, Hold, EmitSignal, DisableVersion, Handled
    <2> QED BY <2>1 DEF Orderly, WholeLists, IsLatest
  <1>6. ASSUME NEW k \in todo, RiskStep(k) PROVE WholeLists'
    <2>1. k \in Keys /\ tx \in [Keys -> Row]
      BY DEF IInv, TypeOK
    <2>2. pc = "risk" /\ Handled(k)
      BY <1>6 DEF RiskStep, ApproveSignal, BlockSignal
    <2>3. tx'[k].done /\ \A x \in Keys : x # k => tx'[x] = tx[x]
      <3>1. CASE ApproveSignal(k)
        BY <2>1, <3>1 DEF ApproveSignal, Row
      <3>2. CASE BlockSignal(k)
        BY <2>1, <3>2 DEF BlockSignal, Row
      <3> QED BY <1>6, <3>1, <3>2 DEF RiskStep
    <2>4. \A x \in Keys \ {k} : tx'[x] = tx[x]
      BY <2>3
    <2> QED BY <2>2, <2>3, <2>4, HandledLists
  <1>7. ASSUME NEW k \in todo, NoBreach(k) \/ StopClose(k) PROVE WholeLists'
    <2>1. pc' = "stops"
      BY <1>7 DEF NoBreach, StopClose, Handled
    <2> QED BY <2>1 DEF WholeLists
  <1>8. ASSUME NEW k \in todo, KeepWaiting(k) \/ BuyFill(k) \/ ExitFill(k) \/ RejectExit(k)
        PROVE  WholeLists'
    <2>1. k \in Keys /\ tx \in [Keys -> Row]
      BY DEF IInv, TypeOK
    <2>2. pc = "fills" /\ Handled(k)
      BY <1>8 DEF KeepWaiting, BuyFill, ExitFill, RejectExit, Fillable
    <2>3. CASE KeepWaiting(k)
      BY <2>2, <2>3, HandledLists DEF KeepWaiting
    <2>4. CASE BuyFill(k) \/ RejectExit(k)
      <3>1. tx'[k].ord # "PENDING" /\ \A x \in Keys : x # k => tx'[x].ord = tx[x].ord
        <4>1. CASE BuyFill(k)
          BY <2>1, <4>1 DEF BuyFill, Row
        <4>2. CASE RejectExit(k)
          BY <2>1, <4>2 DEF RejectExit, Row
        <4> QED BY <2>4, <4>1, <4>2
      <3> QED BY <2>1, <2>2, <3>1, HandledLists
    <2>5. CASE ExitFill(k)
      <3>1. PICK p \in OpenIn(tx, k) :
              tx' = [tx EXCEPT ![k] = [@ EXCEPT !.ord = "FILLED", !.fill = k.ts],
                               ![p] = [@ EXCEPT !.pos = "CLOSED", !.why = "signal_exit",
                                                !.exit = {k}]]
        BY <2>5 DEF ExitFill
      <3>2. p \in Keys
        BY DEF OpenIn
      <3>3. tx'[k].ord = "FILLED" /\ \A x \in Keys : x # k => tx'[x].ord = tx[x].ord
        <4>1. tx[k].ord = "PENDING" /\ tx[p].pos = "OPEN" /\ Good(tx)
          BY <2>2 DEF OpenIn, IInv, WorkList
        <4>2. p # k
          BY <2>1, <3>2, <4>1, EntryFill
        <4>3. tx[k] \in Row /\ tx[p] \in Row
          BY <2>1, <3>2
        <4> QED BY <2>1, <3>1, <3>2, <4>2, <4>3 DEF Row
      <3> QED BY <2>1, <2>2, <3>3, HandledLists
    <2> QED BY <1>8, <2>3, <2>4, <2>5
  <1> QED BY <1>1, <1>2, <1>3, <1>4, <1>5, <1>6, <1>7, <1>8
          DEF Next, WorkerStep, StopStep, FillStep

LEMMA OrderlyInv == Regular /\ IInv /\ Orderly /\ [Next]_vars => Orderly'
  <1> SUFFICES ASSUME Regular, IInv, Orderly, [Next]_vars PROVE Orderly'
    OBVIOUS
  <1>1. OnGrid' /\ NoHoles' /\ candles \subseteq candles'
    <2>1. CASE Ingest
      BY <2>1, IngestOrderly
    <2>2. CASE UNCHANGED candles
      BY <2>2 DEF Orderly, OnGrid, NoHoles
    <2> QED BY <2>1, <2>2, CandleSteps
  <1>2. InOrder(tx)' /\ InOrder(db)'
    BY <1>1, RowsInOrder, MoreCandles
  <1> QED BY <1>1, <1>2, ListsStayWhole DEF Orderly

-----------------------------------------------------------------------------
(* Theorems of the specification *)

THEOREM Invariance == Spec => []IInv
  BY InitInv, NextInv, PTL DEF Spec

\* Every variable keeps its type, and every stored candle is closed.
THEOREM TypeCorrect == Spec => []TypeOK
  <1>1. IInv => TypeOK
    BY DEF IInv
  <1> QED BY <1>1, Invariance, PTL

\* A version never holds two open positions of one symbol.
THEOREM AtMostOneOpen == Spec => []OneOpenPosition
  <1>1. IInv => OneOpenPosition
    BY DEF IInv, Good, OneOpenPosition
  <1> QED BY <1>1, Invariance, PTL

\* Signals, orders, fills and positions stay in lock-step.
THEOREM InLockstep == Spec => []LedgerInLockstep
  <1>1. IInv => LedgerInLockstep
    BY DEF IInv, Good, LedgerInLockstep
  <1> QED BY <1>1, Invariance, PTL

\* Closed positions and executed exit orders are in one-to-one correspondence.
THEOREM ExitsCorrespond == Spec => []ExitsMatchPositions
  <1>1. IInv => ExitsMatchPositions
    BY DEF IInv, Good, ExitsMatchPositions
  <1> QED BY <1>1, Invariance, PTL

\* No fill precedes the bar it is priced from.
THEOREM NeverLooksAhead == Spec => []NoLookahead
  <1>1. IInv => NoLookahead
    BY DEF IInv, Good, NoLookahead
  <1> QED BY <1>1, Invariance, PTL

\* No step revises what an earlier step committed.
THEOREM AuditTrailAppendOnly == Spec => AuditTrail
  <1>1. IInv /\ [Next]_vars => [\A k \in Keys : RowGrows(db[k], db'[k])]_vars
    <2> SUFFICES ASSUME IInv, [Next]_vars PROVE \A k \in Keys : RowGrows(db[k], db'[k])
      OBVIOUS
    <2>1. CASE UNCHANGED db
      BY <2>1, GrowsReflexive DEF Grows
    <2>2. CASE Commit
      BY <2>2 DEF Commit, IInv, Grows
    <2> QED BY <2>1, <2>2, DbSteps
  <1> QED BY <1>1, Invariance, PTL DEF Spec, AuditTrail

\* A committed execute phase leaves no scanned position beyond its stop.
THEOREM StopsAreHonoured == Spec => StopsHonoured
  <1>1. IInv /\ [Next]_vars =>
          [pc = "fills" /\ Commit =>
             \A k \in Keys : db[k].pos = "OPEN" /\ db'[k].pos = "OPEN" => Breaches(db', k) = {}]_vars
    BY DEF IInv, Scanned, Commit
  <1> QED BY <1>1, Invariance, PTL DEF Spec, StopsHonoured

\* execution: with one timeframe per symbol and a feed without gaps, no trade is
\* left before it is entered: an EXIT order that still waits for its bar never
\* closes a position opened after its signal.
THEOREM ExitsFollowEntries == ASSUME Regular PROVE Spec => []ExitNotBeforeEntry
  <1>1. Init => Orderly
    <2> SUFFICES ASSUME Init PROVE Orderly
      OBVIOUS
    <2>1. \A k \in Keys : db[k] = NoRow /\ tx[k] = NoRow
      BY DEF Init
    <2>2. InOrder(db) /\ InOrder(tx)
      BY <2>1 DEF NoRow, InOrder, SignalHasCandle, Timely, Past, ExitsLate
    <2> QED BY <2>2 DEF Init, Orderly, OnGrid, NoHoles, WholeLists
  <1>2. IInv /\ Orderly /\ [Next]_vars => Orderly'
    BY OrderlyInv
  <1>3. Orderly => ExitNotBeforeEntry
    BY DEF Orderly, InOrder, ExitsLate, ExitNotBeforeEntry
  <1> QED BY <1>1, <1>2, <1>3, Invariance, PTL DEF Spec

\* evaluate_one_cycle: a stateful version decides a candle once, and never a
\* candle behind its state, whatever phases fail or crash and whenever bars come.
THEOREM StatefulDecideOnce == Spec => StatefulDecidesOnce
  <1>1. Init => DecidedOnce
    <2> SUFFICES ASSUME Init PROVE DecidedOnce
      OBVIOUS
    <2>1. \A k \in Keys : db[k] = NoRow /\ tx[k] = NoRow
      BY DEF Init
    <2> QED BY <2>1 DEF DecidedOnce, Decided, Onward, StateAdvanced, NoRow
  <1>2. Spec => []DecidedOnce
    BY <1>1, OnceInv, Invariance, PTL DEF Spec
  <1>3. ASSUME IInv, DecidedOnce, [Next]_vars, NEW k \in Keys, k.v \in Stateful
        PROVE  /\ db'[k].sig # "none" => db'[k].adv \/ Synthetic(db', k)
               /\ StateAdvanced(db, k) /\ ~db[k].adv => ~db'[k].adv
               /\ db[k].adv /\ db[k].sig = "none" => db'[k].sig = "none" \/ Synthetic(db', k)
    <2>1. db' = db \/ db' = tx
      BY <1>3, DbSteps DEF Commit
    <2> QED BY <1>3, <2>1 DEF DecidedOnce, Decided, Onward
  <1>4. IInv /\ DecidedOnce /\ [Next]_vars =>
          [\A k \in Keys : k.v \in Stateful =>
             /\ db'[k].sig # "none" => db'[k].adv \/ Synthetic(db', k)
             /\ StateAdvanced(db, k) /\ ~db[k].adv => ~db'[k].adv
             /\ db[k].adv /\ db[k].sig = "none" => db'[k].sig = "none" \/ Synthetic(db', k)]_vars
    BY <1>3
  <1> QED BY <1>2, <1>4, Invariance, PTL DEF Spec, StatefulDecidesOnce

-----------------------------------------------------------------------------
(* The committed rows implement TradeBook *)

LEMMA ClosedTradesFacts ==
  ASSUME NEW d \in [Keys -> Row], NEW p \in ClosedTrades(d)
  PROVE  /\ p[1] \in Keys /\ p[2] \in Keys /\ p = <<p[1], p[2]>>
         /\ p[2] \in d[p[1]].exit
  <1>1. PICK k \in Keys : p \in {k} \X d[k].exit
    BY DEF ClosedTrades
  <1>2. d[k].exit \subseteq Keys
    BY DEF Row
  <1> QED BY <1>1, <1>2

\* Rows in good order are a well-kept book.
LEMMA GoodBook ==
  ASSUME NEW d \in [Keys -> Row], Good(d)
  PROVE  Book!WellKept(OpenPositions(d), ClosedTrades(d))
  <1> DEFINE o == OpenPositions(d)
             c == ClosedTrades(d)
  <1>1. \A p \in c : /\ p[1] \in Keys /\ p[2] \in Keys /\ p = <<p[1], p[2]>>
                     /\ p[2] \in d[p[1]].exit
    BY ClosedTradesFacts
  <1>2. \A p \in c : /\ d[p[1]].pos = "CLOSED" /\ SameSlot(p[2], p[1])
                     /\ d[p[2]].sig = "EXIT" /\ d[p[2]].ord = "FILLED"
                     /\ d[p[1]].exit = {p[2]}
    BY <1>1 DEF Good, ExitsPairUp
  <1>3. \A k \in Keys : d[k].pos # "none" => d[k].sig = "BUY"
    BY DEF Good, Lockstep
  <1> HIDE DEF c
  <1>4. o \subseteq Keys /\ \A k \in o : d[k].pos = "OPEN"
    BY DEF OpenPositions
  <1> HIDE DEF o
  <1>5. c \subseteq Keys \X Keys
    BY <1>1
  <1>6. o \cap Book!Entries(c) = {}
    BY <1>2, <1>4 DEF Book!Entries
  <1>7. Book!Exits(c) \cap (o \cup Book!Entries(c)) = {}
    <2> SUFFICES ASSUME NEW p \in c, p[2] \in o \/ \E q \in c : p[2] = q[1] PROVE FALSE
      BY DEF Book!Exits, Book!Entries
    <2>1. d[p[2]].pos # "none"
      BY <1>2, <1>4
    <2> QED BY <1>1, <1>2, <1>3, <2>1
  <1>8. ASSUME NEW i \in o, NEW j \in o,
               [k \in Keys |-> <<k.v, k.s>>][i] = [k \in Keys |-> <<k.v, k.s>>][j]
        PROVE  i = j
    <2>1. SameSlot(i, j)
      BY <1>4, <1>8 DEF SameSlot
    <2> QED BY <1>4, <2>1 DEF Good, OneOpen
  <1>9. \A p \in c : [k \in Keys |-> <<k.v, k.s>>][p[1]] = [k \in Keys |-> <<k.v, k.s>>][p[2]]
    BY <1>1, <1>2 DEF SameSlot
  <1>10. ASSUME NEW p \in c, NEW q \in c, p[1] = q[1] \/ p[2] = q[2] PROVE p = q
    <2>1. CASE p[1] = q[1]
      <3>1. p[2] = q[2]
        BY <1>2, <2>1
      <3> QED BY <1>1, <2>1, <3>1
    <2>2. CASE p[2] = q[2]
      <3>1. p[2] \in d[p[1]].exit \cap d[q[1]].exit
        BY <1>1, <2>2
      <3>2. p[1] = q[1]
        BY <1>1, <3>1 DEF Good, ExitsPairUp
      <3> QED BY <1>1, <2>2, <3>2
    <2> QED BY <1>10, <2>1, <2>2
  <1> QED BY <1>4, <1>5, <1>6, <1>7, <1>8, <1>9, <1>10 DEF Book!WellKept, o, c

\* Rows that grow settle trades: none vanishes, none is revised.
LEMMA GrowthSettles ==
  ASSUME NEW d \in [Keys -> Row], NEW q \in [Keys -> Row], Good(d), Good(q), Grows(d, q)
  PROVE  /\ ClosedTrades(d) \subseteq ClosedTrades(q)
         /\ OpenPositions(d) \subseteq OpenPositions(q) \cup Book!Entries(ClosedTrades(q))
  <1>1. \A k \in Keys : d[k].exit \subseteq q[k].exit
    <2> SUFFICES ASSUME NEW k \in Keys, d[k].exit # {} PROVE d[k].exit = q[k].exit
      OBVIOUS
    <2>1. d[k].pos = "CLOSED"
      BY DEF Good, ExitsPairUp
    <2> QED BY <2>1 DEF Grows, RowGrows
  <1>2. ClosedTrades(d) \subseteq ClosedTrades(q)
    BY <1>1 DEF ClosedTrades
  <1>3. ASSUME NEW k \in OpenPositions(d), k \notin OpenPositions(q)
        PROVE  k \in Book!Entries(ClosedTrades(q))
    <2>1. k \in Keys /\ q[k].pos = "CLOSED"
      BY <1>3 DEF OpenPositions, Grows, RowGrows
    <2>2. PICK e \in q[k].exit : TRUE
      BY <2>1 DEF Good, ExitsPairUp
    <2>3. <<k, e>> \in ClosedTrades(q) /\ <<k, e>>[1] = k
      BY <2>1, <2>2 DEF ClosedTrades
    <2> QED BY <2>3 DEF Book!Entries
  <1> QED BY <1>2, <1>3

\* The executor implements the book of trades.
THEOREM ImplementsBook == Spec => KeepsBook
  <1>1. Init => Book!Init
    <2> SUFFICES ASSUME Init PROVE Book!Init
      OBVIOUS
    <2>1. \A k \in Keys : db[k].pos = "none" /\ db[k].exit = {}
      BY DEF Init, NoRow
    <2>2. OpenPositions(db) = {} /\ ClosedTrades(db) = {}
      BY <2>1 DEF OpenPositions, ClosedTrades
    <2> QED BY <2>2 DEF Book!Init
  <1>2. IInv /\ IInv' /\ [Next]_vars => [Book!Settle]_(Book!book)
    <2> SUFFICES ASSUME IInv, IInv', [Next]_vars PROVE [Book!Settle]_(Book!book)
      OBVIOUS
    <2>1. CASE UNCHANGED db
      BY <2>1 DEF Book!book, OpenPositions, ClosedTrades
    <2>2. CASE Commit
      <3>1. db \in [Keys -> Row] /\ tx \in [Keys -> Row] /\ Good(db) /\ Good(tx) /\ Grows(db, tx)
        BY DEF IInv, TypeOK
      <3>2. Book!WellKept(OpenPositions(tx), ClosedTrades(tx))
        BY <3>1, GoodBook
      <3>3. OpenPositions(db)' = OpenPositions(tx) /\ ClosedTrades(db)' = ClosedTrades(tx)
        BY <2>2 DEF Commit, OpenPositions, ClosedTrades
      <3> QED BY <3>1, <3>2, <3>3, GrowthSettles DEF Book!Settle, Book!WellKept
    <2> QED BY <2>1, <2>2, DbSteps
  <1> QED BY <1>1, <1>2, Invariance, PTL DEF Spec, KeepsBook, Book!Spec
=============================================================================
