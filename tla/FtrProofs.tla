------------------------------ MODULE FtrProofs ------------------------------
(***************************************************************************)
(* Proofs about FtrRecorder, for every set of symbols, length of an hour,  *)
(* number of updates, runs and faults; and about FtrLab with FtrTrader,    *)
(* for every grid of cells, profiles and deployments.                      *)
(*                                                                         *)
(* RecordingsReplay rests on the sequencer of a symbol describing the last *)
(* row the run has recorded, in whichever file it is (Positioned), and on  *)
(* the hour of a run's next file being later than those of its others: an  *)
(* empty buffer is then never written over a file (HoursInOrder).          *)
(* DeployedPassedGauntlet is followed through memory, report, rows and     *)
(* deployments (Gauntlet); that a PASS has its plateau judged rests on     *)
(* every threshold of the grid having a next one. LeaksOnlyAcrossHoles     *)
(* rests on what the pages of a walk add up to (WalkReadsAll), what the    *)
(* QA's gaps add up to (MissingAreCounted) and the arithmetic of a fold.   *)
(* EnginesAgree is that the ledger at a row holds the trades of the masks  *)
(* up to it (EnginesSame), by induction on the rows. TrendCausal is that   *)
(* the states of a coin are the same with and without the later bars       *)
(* (AssetCausal), by the same induction.                                   *)
(***************************************************************************)
EXTENDS FtrRecorder, FtrTrader, FiniteFacts, SequenceTheorems

Rows   == [kind : {"snapshot", "diff"}, first : Int, final : Int]
Events == [sym : Books \cup {Nobody}, first : Int, final : Int]
DepthFiles  == [rows : Seq(Rows), run : Nat, events : Int, gaps : Nat, resyncs : Nat, uptime : Int]
Meters  == [started : Nat, connected : Int, since : Int]
Buffers == [rows : Seq(Rows), gaps : Nat, resyncs : Nat]

RecTypeOK ==
    /\ book \in [Books -> Nat]
    /\ socket \in [open : BOOLEAN, queue : Seq(Events)]
    /\ proc \in [at : {"down", "boot", "backoff", "run"}, todo : SUBSET Books,
                 await : Books \cup {Nobody}, stop : BOOLEAN, runs : Nat]
    /\ seqs \in [Books -> [last : Int, synced : BOOLEAN]]
    /\ bufs \in [Books -> Buffers]
    /\ meter \in Meters
    /\ disk \in [Books -> [Hours -> DepthFiles]]
    /\ tick \in 0 .. MaxTick

Hour == meter.started \div HourTicks

\* Files are written hour by hour: none is ahead of the clock, and a running
\* process has none yet of the hour it records.
HoursInOrder ==
    /\ \A s \in Books, h \in Hours : /\ disk[s][h].run <= proc.runs
                                     /\ h > tick \div HourTicks => disk[s][h] = NoFile
    /\ proc.at # "down" =>
         /\ proc.runs # 0 /\ meter.started <= tick
         /\ \A s \in Books, h \in Hours :
              /\ h >= Hour \/ proc.at = "boot" => disk[s][h].run # proc.runs
              /\ h > Hour => disk[s][h] = NoFile

\* It has something to write there if an older run has left a file.
NoFileKept ==
    proc.at # "down" =>
        \A s \in Books : \/ disk[s][Hour] = NoFile \/ bufs[s].rows # << >>
                         \/ proc.at = "boot" /\ s \in proc.todo

\* The sequencer is where the last row of the pieces is.
Tip(piece, q) ==
    /\ Filled(piece) # {}
    /\ LET r == LastRow(piece[Max(Filled(piece))])
       IN q.last = r.final /\ (q.synced <=> r.kind = "diff")

Positioned ==
    proc.at # "down" =>
        \A s \in Books : IF proc.at = "boot" /\ s \in proc.todo THEN bufs[s].rows = << >>
                         ELSE Tip(Pieces(s), seqs[s])

SnapshotRows(list) == {i \in DOMAIN list : list[i].kind = "snapshot"}

Counted == \A s \in Books : bufs[s].resyncs = Cardinality(SnapshotRows(bufs[s].rows))

RecInv == RecTypeOK /\ HoursInOrder /\ NoFileKept /\ Positioned /\ Counted /\ RecordingsReplay

-----------------------------------------------------------------------------
(* Lemmas about pieces.  U is the place of the buffer. *)

U == Unwritten
ArePieces(P) == /\ P \in [DOMAIN P -> Seq(Rows)]
                /\ DOMAIN P \subseteq 0 .. U /\ U \in DOMAIN P

LEMMA ConstantTypes ==
    /\ HourTicks \in Nat \ {0} /\ MaxTick \in Nat /\ U \in Nat /\ Hours = 0 .. U - 1
<1>1. HourTicks \in Nat \ {0} /\ MaxTick \in Nat  BY RecAssumption
<1>2. MaxTick \div HourTicks \in Nat  BY <1>1, Quotient
<1> QED  BY <1>1, <1>2 DEF U, Unwritten, Hours

LEMMA FilledPieces ==
    ASSUME NEW P, ArePieces(P), NEW F \in SUBSET Filled(P)
    PROVE  /\ F \in SUBSET Int /\ IsFiniteSet(F)
           /\ F # {} => Max(F) \in F /\ \A g \in F : g <= Max(F)
<1>1. F \in SUBSET (0 .. U) /\ U \in Nat  BY ConstantTypes DEF ArePieces, Filled
<1>2. IsFiniteSet(0 .. U)
  <2>1. 0 \in Int /\ U \in Int  BY <1>1
  <2> QED  BY <2>1, FS_Interval
<1>3. IsFiniteSet(F)  BY <1>1, <1>2, FS_Subset
<1>4. F \in SUBSET Int  BY <1>1
<1> QED  BY <1>3, <1>4, MaxOfFinite

LEMMA NonEmpty ==
    ASSUME NEW list \in Seq(Rows), list # << >>
    PROVE  /\ Len(list) \in Nat \ {0} /\ LastRow(list) \in Rows /\ list[1] \in Rows
<1>1. Len(list) \in Nat \ {0}  BY EmptySeq
<1> QED  BY <1>1, ElementOfSeq DEF LastRow

\* A row behind others.
LEMMA RowAppended ==
    ASSUME NEW list \in Seq(Rows), NEW row \in Rows
    PROVE  LET new == Append(list, row) IN
           /\ new \in Seq(Rows) /\ new # << >> /\ LastRow(new) = row
           /\ list = << >> => Chained(new) /\ new[1] = row
           /\ (list # << >> /\ Chained(list) /\ Follows(LastRow(list), row)) =>
                 Chained(new) /\ new[1] = list[1]
<1> DEFINE new == Append(list, row)
<1>1. /\ new \in Seq(Rows) /\ Len(list) \in Nat /\ Len(new) = Len(list) + 1
      /\ new[Len(list) + 1] = row /\ \A i \in 1 .. Len(list) : new[i] = list[i]
  BY AppendProperties, LenProperties
<1>2. new # << >> /\ LastRow(new) = row  BY <1>1, EmptySeq DEF LastRow
<1>3. ASSUME list = << >>  PROVE Chained(new) /\ new[1] = row
  <2>1. Len(list) = 0  BY <1>3
  <2> QED  BY <1>1, <2>1 DEF Chained
<1>4. ASSUME list # << >>, Chained(list), Follows(LastRow(list), row)
      PROVE  Chained(new) /\ new[1] = list[1]
  <2>1. Len(list) \in Nat \ {0}  BY <1>4, NonEmpty
  <2>2. ASSUME NEW i \in 1 .. (Len(new) - 1)  PROVE Follows(new[i], new[i + 1])
    <3>1. CASE i = Len(list)  BY <1>1, <1>4, <2>1, <3>1 DEF LastRow
    <3>2. CASE i # Len(list)
      <4>1. i \in 1 .. (Len(list) - 1) /\ i + 1 \in 1 .. Len(list)  BY <1>1, <3>2
      <4>2. Follows(list[i], list[i + 1])  BY <1>4, <4>1 DEF Chained
      <4> QED  BY <1>1, <4>1, <4>2
    <3> QED  BY <3>1, <3>2
  <2> QED  BY <1>1, <2>1, <2>2 DEF Chained
<1> QED  BY <1>1, <1>2, <1>3, <1>4

\* A row at the end of the buffer: it continues the last row recorded.
LEMMA BufferExtended ==
    ASSUME NEW P, ArePieces(P), Replays(P), NEW row \in Rows,
           Filled(P) = {} => row.kind = "snapshot",
           Filled(P) # {} => Follows(LastRow(P[Max(Filled(P))]), row)
    PROVE  LET Q == [P EXCEPT ![U] = Append(P[U], row)] IN
           /\ ArePieces(Q) /\ Replays(Q)
           /\ Filled(Q) # {} /\ LastRow(Q[Max(Filled(Q))]) = row
<1> DEFINE Q == [P EXCEPT ![U] = Append(P[U], row)]
           Before(S, h) == {g \in Filled(S) : g < h}
<1>1. /\ U \in DOMAIN P /\ P[U] \in Seq(Rows) /\ DOMAIN P \subseteq 0 .. U /\ U \in Nat
      /\ DOMAIN Q = DOMAIN P /\ Q[U] = Append(P[U], row)
      /\ \A h \in DOMAIN P \ {U} : Q[h] = P[h]
  BY ConstantTypes DEF ArePieces
<1>2. /\ Q[U] \in Seq(Rows) /\ Q[U] # << >> /\ LastRow(Q[U]) = row
  BY <1>1, RowAppended
<1>3. ArePieces(Q)  BY <1>1, <1>2 DEF ArePieces
<1> HIDE DEF Q
<1>4. Filled(Q) = Filled(P) \cup {U}  BY <1>1, <1>2 DEF Filled
<1>5. Max(Filled(Q)) = U
  <2>1. Filled(Q) \in SUBSET Int /\ U \in Filled(Q)  BY <1>3, <1>4, FilledPieces
  <2>2. \A g \in Filled(Q) : g <= U  BY <1>1 DEF Filled
  <2> QED  BY <2>1, <2>2, MaxIs
<1>6. ASSUME NEW h \in Filled(Q)
      PROVE  /\ Chained(Q[h])
             /\ IF Before(Q, h) = {} THEN Q[h][1].kind = "snapshot"
                ELSE Follows(LastRow(Q[Max(Before(Q, h))]), Q[h][1])
  <2>1. Before(Q, h) = Before(P, h) /\ U \notin Before(P, h)
    <3>1. h \in 0 .. U /\ Filled(P) \subseteq 0 .. U  BY <1>1 DEF Filled
    <3> QED  BY <1>1, <1>4, <3>1
  <2>2. Before(P, h) # {} => Q[Max(Before(P, h))] = P[Max(Before(P, h))]
    <3>1. Before(P, h) \in SUBSET Filled(P)  OBVIOUS
    <3>2. Before(P, h) # {} => Max(Before(P, h)) \in Before(P, h)  BY <3>1, FilledPieces
    <3>3. Before(P, h) \subseteq DOMAIN P \ {U}  BY <2>1 DEF Filled
    <3> QED  BY <1>1, <3>2, <3>3
  <2>3. CASE h # U
    <3>1. h \in Filled(P) /\ Q[h] = P[h]  BY <1>1, <1>4, <2>3 DEF Filled
    <3> QED  BY <2>1, <2>2, <3>1 DEF Replays
  <2>4. CASE h = U /\ P[U] = << >>
    <3>1. U \notin Filled(P)  BY <2>4 DEF Filled
    <3>2. Before(P, U) = Filled(P)  BY <1>1, <3>1 DEF Filled
    <3>3. Chained(Q[U]) /\ Q[U][1] = row
      <4> DEFINE list == P[U]
      <4>1. list \in Seq(Rows) /\ list = << >> /\ Q[U] = Append(list, row)  BY <1>1, <2>4
      <4> HIDE DEF list
      <4>2. Chained(Append(list, row)) /\ Append(list, row)[1] = row
        BY ONLY <4>1, list \in Seq(Rows), row \in Rows, RowAppended, Zenon
      <4> QED  BY <4>1, <4>2
    <3> QED  BY <2>1, <2>2, <2>4, <3>2, <3>3
  <2>5. CASE h = U /\ P[U] # << >>
    <3>1. U \in Filled(P)  BY <1>1, <2>5 DEF Filled
    <3>2. Max(Filled(P)) = U
      <4>1. Filled(P) \in SUBSET Int /\ \A g \in Filled(P) : g <= U
        BY <1>1, FilledPieces DEF Filled
      <4> QED  BY <3>1, <4>1, MaxIs
    <3>3. Chained(P[U]) /\ Follows(LastRow(P[U]), row)  BY <3>1, <3>2 DEF Replays
    <3>4. Chained(Q[U]) /\ Q[U][1] = P[U][1]  BY <1>1, <2>5, <3>3, RowAppended
    <3> QED  BY <2>1, <2>2, <2>5, <3>1, <3>4 DEF Replays
  <2> QED  BY <2>3, <2>4, <2>5
<1>7. Replays(Q)  BY <1>6 DEF Replays
<1> QED  BY <1>2, <1>3, <1>4, <1>5, <1>7 DEF Q

\* Pieces that hold the same rows in the same order replay alike: here the
\* buffer becomes the file of an hour behind all others.
LEMMA BufferWritten ==
    ASSUME NEW P, ArePieces(P), Replays(P), NEW g \in Hours,
           \A h \in DOMAIN P \ {U} : h < g
    PROVE  LET Q == [h \in DOMAIN P \cup {g} |->
                        IF h = U THEN << >> ELSE IF h = g THEN P[U] ELSE P[h]] IN
           /\ ArePieces(Q) /\ Replays(Q)
           /\ Filled(P) # {} => Filled(Q) # {} /\ Q[Max(Filled(Q))] = P[Max(Filled(P))]
<1> DEFINE Q == [h \in DOMAIN P \cup {g} |->
                    IF h = U THEN << >> ELSE IF h = g THEN P[U] ELSE P[h]]
           Before(S, h) == {k \in Filled(S) : k < h}
<1>1. /\ U \in DOMAIN P /\ P[U] \in Seq(Rows) /\ DOMAIN P \subseteq 0 .. U /\ U \in Nat
      /\ g \in 0 .. U /\ g # U
  BY ConstantTypes DEF ArePieces
<1>2. g \notin DOMAIN P /\ \A h \in DOMAIN P \ {U} : h < g /\ h < U
  BY <1>1
<1>3. /\ DOMAIN Q = DOMAIN P \cup {g} /\ Q[U] = << >> /\ Q[g] = P[U]
      /\ \A h \in DOMAIN P \ {U} : Q[h] = P[h]
  BY <1>1, <1>2
<1>4. ArePieces(Q)
  <2>1. \A h \in DOMAIN P : P[h] \in Seq(Rows)  BY DEF ArePieces
  <2> QED  BY <1>1, <2>1 DEF ArePieces
<1> HIDE DEF Q
<1>5. /\ \A h \in DOMAIN P \ {U} : h \in Filled(Q) <=> h \in Filled(P)
      /\ g \in Filled(Q) <=> U \in Filled(P)
      /\ U \notin Filled(Q) /\ g \notin Filled(P)
      /\ Filled(Q) \subseteq DOMAIN P \cup {g} /\ Filled(P) \subseteq DOMAIN P
  BY <1>1, <1>2, <1>3 DEF Filled
<1>6. ASSUME NEW h \in DOMAIN P \ {U}  PROVE Before(Q, h) = Before(P, h)
  <2>1. ~(g < h) /\ ~(U < h) /\ h \in Nat  BY <1>1, <1>2
  <2> QED  BY <1>5, <2>1
<1>7. Before(Q, g) = Before(P, U)
  <2>1. ~(g < g) /\ ~(U < U) /\ g < U  BY <1>1
  <2> QED  BY <1>2, <1>5, <2>1
<1>8. ASSUME NEW F \in SUBSET Filled(P), U \notin F, F # {}
      PROVE  Q[Max(F)] = P[Max(F)]
  <2>1. Max(F) \in F  BY <1>8, FilledPieces
  <2> QED  BY <1>3, <1>5, <1>8, <2>1
<1>9. ASSUME NEW h \in Filled(Q)
      PROVE  /\ Chained(Q[h])
             /\ IF Before(Q, h) = {} THEN Q[h][1].kind = "snapshot"
                ELSE Follows(LastRow(Q[Max(Before(Q, h))]), Q[h][1])
  <2>1. CASE h = g
    <3>1. U \notin Before(P, U)  BY <1>1
    <3>2. Before(P, U) # {} => Q[Max(Before(P, U))] = P[Max(Before(P, U))]
      BY <1>8, <3>1
    <3>3. U \in Filled(P) /\ Q[h] = P[U]  BY <1>3, <1>5, <2>1
    <3> QED  BY <1>7, <2>1, <3>2, <3>3 DEF Replays
  <2>2. CASE h # g
    <3>1. h \in DOMAIN P \ {U} /\ h \in Filled(P) /\ Q[h] = P[h]  BY <1>3, <1>5, <2>2
    <3>2. ~(U < h)  BY <1>1, <1>2, <3>1
    <3>3. Before(P, h) # {} => Q[Max(Before(P, h))] = P[Max(Before(P, h))]
      BY <1>8, <3>2
    <3> QED  BY <1>6, <3>1, <3>3 DEF Replays
  <2> QED  BY <2>1, <2>2
<1>10. Replays(Q)  BY <1>9 DEF Replays
<1>11. ASSUME Filled(P) # {}
       PROVE  Filled(Q) # {} /\ Q[Max(Filled(Q))] = P[Max(Filled(P))]
  <2>1. Filled(P) \in SUBSET Int /\ Filled(Q) \in SUBSET Int  BY <1>4, FilledPieces
  <2>2. CASE U \in Filled(P)
    <3>1. \A h \in Filled(P) : h <= U  BY <1>1, <1>5
    <3>2. Max(Filled(P)) = U  BY <2>1, <2>2, <3>1, MaxIs
    <3>3. g \in Filled(Q) /\ \A h \in Filled(Q) : h <= g  BY <1>1, <1>2, <1>5, <2>2
    <3>4. Max(Filled(Q)) = g  BY <2>1, <3>3, MaxIs
    <3> QED  BY <1>3, <3>2, <3>3, <3>4
  <2>3. CASE U \notin Filled(P)
    <3>1. Filled(Q) = Filled(P)  BY <1>5, <2>3
    <3> QED  BY <1>8, <1>11, <2>3, <3>1
  <2> QED  BY <2>2, <2>3
<1> QED  BY <1>4, <1>10, <1>11 DEF Q

\* The buffer is lost.
LEMMA BufferLost ==
    ASSUME NEW P, ArePieces(P), Replays(P)
    PROVE  Replays([P EXCEPT ![U] = << >>])
<1> DEFINE Q == [P EXCEPT ![U] = << >>]
           Before(S, h) == {k \in Filled(S) : k < h}
<1>1. /\ U \in DOMAIN P /\ DOMAIN P \subseteq 0 .. U /\ U \in Nat /\ DOMAIN Q = DOMAIN P
      /\ Q[U] = << >> /\ \A h \in DOMAIN P \ {U} : Q[h] = P[h]
  BY ConstantTypes DEF ArePieces
<1> HIDE DEF Q
<1>2. Filled(Q) = Filled(P) \ {U}  BY <1>1 DEF Filled
<1>3. ASSUME NEW h \in Filled(Q)
      PROVE  /\ Chained(Q[h])
             /\ IF Before(Q, h) = {} THEN Q[h][1].kind = "snapshot"
                ELSE Follows(LastRow(Q[Max(Before(Q, h))]), Q[h][1])
  <2>1. h \in Filled(P) /\ Q[h] = P[h] /\ ~(U < h)  BY <1>1, <1>2 DEF Filled
  <2>2. Before(Q, h) = Before(P, h)  BY <1>2, <2>1
  <2>3. Before(P, h) # {} => Q[Max(Before(P, h))] = P[Max(Before(P, h))]
    <3>1. Before(P, h) \in SUBSET Filled(P)  OBVIOUS
    <3>2. Before(P, h) # {} => Max(Before(P, h)) \in Before(P, h)  BY <3>1, FilledPieces
    <3> QED  BY <1>1, <2>1, <3>2 DEF Filled
  <2> QED  BY <2>1, <2>2, <2>3 DEF Replays
<1>4. Replays(Q)  BY <1>3 DEF Replays
<1> QED  BY <1>4 DEF Q

-----------------------------------------------------------------------------
(* The pieces of a symbol with files d, of run r, and a buffer of rows b. *)

PieceOf(d, r, b) ==
    [h \in {h \in Hours : d[h].run = r} \cup {U} |-> IF h = U THEN b ELSE d[h].rows]

LEMMA PiecesOf ==
    \A s : Pieces(s) = PieceOf(disk[s], proc.runs, bufs[s].rows)
  BY DEF Pieces, PieceOf, U

LEMMA AsPieces ==
    ASSUME NEW d \in [Hours -> DepthFiles], NEW r, NEW b \in Seq(Rows)
    PROVE  ArePieces(PieceOf(d, r, b)) /\ PieceOf(d, r, b)[U] = b
<1>1. U \in Nat /\ Hours = 0 .. U - 1 /\ U \notin Hours  BY ConstantTypes
<1>2. \A h \in Hours : d[h].rows \in Seq(Rows)  BY DEF DepthFiles
<1> QED  BY <1>1, <1>2 DEF ArePieces, PieceOf

\* A run that has recorded nothing.
LEMMA NothingYet ==
    ASSUME NEW d, NEW r, \A h \in Hours : d[h].run = r => d[h].rows = << >>
    PROVE  Filled(PieceOf(d, r, << >>)) = {} /\ Replays(PieceOf(d, r, << >>))
  BY DEF PieceOf, Filled, Replays

\* The sequencer after a row.
After(row) == [last |-> row.final, synced |-> (row.kind = "diff")]

LEMMA RowRecorded ==
    ASSUME NEW d \in [Hours -> DepthFiles], NEW r, NEW b \in Seq(Rows), NEW row \in Rows,
           Replays(PieceOf(d, r, b)),
           \/ row.kind = "snapshot"
           \/ LET P == PieceOf(d, r, b) IN
              Filled(P) # {} /\ Follows(LastRow(P[Max(Filled(P))]), row)
    PROVE  /\ Replays(PieceOf(d, r, Append(b, row)))
           /\ Tip(PieceOf(d, r, Append(b, row)), After(row))
           /\ Append(b, row) \in Seq(Rows) /\ Append(b, row) # << >>
<1> DEFINE P == PieceOf(d, r, b)
           Q == [P EXCEPT ![U] = Append(P[U], row)]
<1>1. ArePieces(P) /\ P[U] = b  BY AsPieces
<1>2. Q = PieceOf(d, r, Append(b, row))
  <2>1. U \notin Hours  BY ConstantTypes
  <2> QED  BY <1>1, <2>1 DEF PieceOf
<1>3. row.kind = "snapshot" => \A a : Follows(a, row)  BY DEF Follows
<1>4. ArePieces(Q) /\ Replays(Q) /\ Filled(Q) # {} /\ LastRow(Q[Max(Filled(Q))]) = row
  <2> HIDE DEF P
  <2>1. Replays(P) /\ (Filled(P) = {} => row.kind = "snapshot")
        /\ (Filled(P) # {} => Follows(LastRow(P[Max(Filled(P))]), row))
    BY <1>3 DEF P
  <2> QED  BY <1>1, <2>1, BufferExtended
<1>5. Append(b, row) \in Seq(Rows) /\ Append(b, row) # << >>  BY RowAppended
<1> HIDE DEF Q
<1>6. Tip(Q, After(row))  BY <1>4 DEF Tip, After
<1> QED  BY <1>2, <1>4, <1>5, <1>6

LEMMA BufferFiled ==
    ASSUME NEW d \in [Hours -> DepthFiles], NEW r, NEW b \in Seq(Rows), NEW g \in Hours,
           NEW f \in DepthFiles, f.run = r, f.rows = b,
           \A h \in Hours : d[h].run = r => h < g,
           Replays(PieceOf(d, r, b))
    PROVE  /\ Replays(PieceOf([d EXCEPT ![g] = f], r, << >>))
           /\ \A q : Tip(PieceOf(d, r, b), q) => Tip(PieceOf([d EXCEPT ![g] = f], r, << >>), q)
<1> DEFINE P == PieceOf(d, r, b)
           Q == [h \in DOMAIN P \cup {g} |->
                    IF h = U THEN << >> ELSE IF h = g THEN P[U] ELSE P[h]]
           new == [d EXCEPT ![g] = f]
<1>1. ArePieces(P) /\ P[U] = b  BY AsPieces
<1>2. U \notin Hours /\ g # U  BY ConstantTypes
<1>3. Q = PieceOf(new, r, << >>)
  <2>1. \A h \in Hours : new[h] = IF h = g THEN f ELSE d[h]  OBVIOUS
  <2>2. {h \in Hours : new[h].run = r} \cup {U} = DOMAIN P \cup {g}  BY <2>1 DEF PieceOf
  <2>3. \A h \in Hours : h \in DOMAIN P => P[h] = d[h].rows  BY <1>2 DEF PieceOf
  <2>4. DOMAIN P \subseteq Hours \cup {U}  BY DEF PieceOf
  <2> HIDE DEF P, new
  <2>5. \A h \in DOMAIN P \cup {g} :
           Q[h] = IF h = U THEN << >> ELSE new[h].rows
    BY <1>1, <1>2, <2>1, <2>3, <2>4
  <2> QED  BY <2>2, <2>5 DEF PieceOf
<1>4. \A h \in DOMAIN P \ {U} : h < g  BY DEF PieceOf
<1>5. Replays(P)  OBVIOUS
<1> HIDE DEF P
<1>6. /\ ArePieces(Q) /\ Replays(Q)
      /\ Filled(P) # {} => Filled(Q) # {} /\ Q[Max(Filled(Q))] = P[Max(Filled(P))]
  BY <1>1, <1>4, <1>5, BufferWritten
<1> HIDE DEF Q
<1>7. \A q : Tip(P, q) => Tip(Q, q)  BY <1>6 DEF Tip
<1> QED  BY <1>3, <1>6, <1>7 DEF P

LEMMA BufferDropped ==
    ASSUME NEW d \in [Hours -> DepthFiles], NEW r, NEW b \in Seq(Rows), Replays(PieceOf(d, r, b))
    PROVE  Replays(PieceOf(d, r, << >>))
<1> DEFINE P == PieceOf(d, r, b)
           Q == [P EXCEPT ![U] = << >>]
<1>1. ArePieces(P)  BY AsPieces
<1>2. Q = PieceOf(d, r, << >>)
  <2>1. U \notin Hours  BY ConstantTypes
  <2> QED  BY <2>1 DEF PieceOf
<1>3. Replays(Q)
  <2> HIDE DEF P
  <2>1. Replays(P)  BY DEF P
  <2> QED  BY <1>1, <2>1, BufferLost
<1> QED  BY <1>2, <1>3

\* The rows of the buffer by themselves.
LEMMA BufferChained ==
    ASSUME NEW d \in [Hours -> DepthFiles], NEW r, NEW b \in Seq(Rows), Replays(PieceOf(d, r, b))
    PROVE  Chained(b)
<1> DEFINE P == PieceOf(d, r, b)
<1>1. ArePieces(P) /\ P[U] = b  BY AsPieces
<1>2. CASE b = << >>
  <2>1. Len(b) = 0  BY <1>2
  <2> QED  BY <2>1 DEF Chained
<1>3. CASE b # << >>
  <2>1. U \in Filled(P)
    <3> HIDE DEF P
    <3> QED  BY <1>1, <1>3 DEF Filled, ArePieces
  <2>2. Replays(P)  OBVIOUS
  <2> HIDE DEF P
  <2> QED  BY <1>1, <2>1, <2>2 DEF Replays
<1> QED  BY <1>2, <1>3

-----------------------------------------------------------------------------
(* The manifest and the clock. *)

\* A snapshot adds to the count of snapshots, a diff does not.
LEMMA RowCounted ==
    ASSUME NEW list \in Seq(Rows), NEW row \in Rows
    PROVE  /\ Cardinality(SnapshotRows(list)) \in Nat
           /\ Cardinality(SnapshotRows(Append(list, row))) =
                 Cardinality(SnapshotRows(list)) + (IF row.kind = "snapshot" THEN 1 ELSE 0)
<1> DEFINE n == Len(list)
           new == Append(list, row)
           S == SnapshotRows(list)
<1>1. /\ n \in Nat /\ DOMAIN list = 1 .. n /\ DOMAIN new = 1 .. n + 1
      /\ new[n + 1] = row /\ \A i \in 1 .. n : new[i] = list[i]
  BY AppendProperties, LenProperties
<1> HIDE DEF n, new
<1>2. IsFiniteSet(1 .. n) /\ S \subseteq 1 .. n
  <2>1. 1 \in Int /\ n \in Int  BY <1>1
  <2> QED  BY <1>1, <2>1, FS_Interval DEF SnapshotRows
<1>3. IsFiniteSet(S) /\ Cardinality(S) \in Nat  BY <1>2, FS_Subset, FS_CardinalityType
<1>4. n + 1 \notin S  BY <1>1, <1>2
<1>5. SnapshotRows(new) = IF row.kind = "snapshot" THEN S \cup {n + 1} ELSE S
  <2>1. n + 1 \notin 1 .. n /\ 1 .. n + 1 = (1 .. n) \cup {n + 1}  BY <1>1
  <2> QED  BY <1>1, <2>1 DEF SnapshotRows
<1>6. Cardinality(S \cup {n + 1}) = Cardinality(S) + 1  BY <1>3, <1>4, FS_AddElement
<1>7. Cardinality(SnapshotRows(new)) = Cardinality(S) + (IF row.kind = "snapshot" THEN 1 ELSE 0)
  <2> HIDE DEF S
  <2>1. CASE row.kind = "snapshot"  BY <1>3, <1>5, <1>6, <2>1
  <2>2. CASE row.kind # "snapshot"
    <3>1. SnapshotRows(new) = S  BY <1>5, <2>2
    <3> QED  BY <1>3, <2>2, <3>1
  <2> QED  BY <2>1, <2>2
<1> QED  BY <1>3, <1>7 DEF new

LEMMA UptimeType ==
    ASSUME NEW m, m.started \in Int, m.connected \in Int, tick \in Int
    PROVE  Uptime(m) \in Int
<1> DEFINE a == tick - m.started
           span == Max({a, 1})
           share == (100 * m.connected) \div span
<1>1. a \in Int  OBVIOUS
<1> HIDE DEF a
<1>2. span \in Nat \ {0}
  <2>1. CASE a <= 1
    <3>1. {a, 1} \in SUBSET Int /\ 1 \in {a, 1} /\ \A y \in {a, 1} : y <= 1  BY <1>1, <2>1
    <3>2. span = 1  BY <3>1, MaxIs
    <3> QED  BY <3>2
  <2>2. CASE ~(a <= 1)
    <3>1. {a, 1} \in SUBSET Int /\ a \in {a, 1} /\ \A y \in {a, 1} : y <= a  BY <1>1, <2>2
    <3>2. span = a  BY <3>1, MaxIs
    <3> QED  BY <1>1, <2>2, <3>2
  <2> QED  BY <2>1, <2>2
<1> HIDE DEF span
<1>3. share \in Int
  <2>1. 100 * m.connected \in Int  OBVIOUS
  <2> QED  BY <1>2, <2>1, Quotient
<1> HIDE DEF share
<1>4. Min({share, 100}) \in Int
  <2>1. {share, 100} \in SUBSET Int  BY <1>3
  <2>2. CASE share <= 100  BY <1>3, <2>1, <2>2, MinIs
  <2>3. CASE ~(share <= 100)  BY <1>3, <2>1, <2>3, MinIs
  <2> QED  BY <2>2, <2>3
<1> QED  BY <1>4 DEF Uptime, share, span, a

LEMMA HourOfClock ==
    ASSUME NEW t \in Nat, NEW u \in 0 .. MaxTick, t <= u
    PROVE  /\ t \div HourTicks \in Hours /\ u \div HourTicks \in Hours
           /\ t \div HourTicks <= u \div HourTicks
           /\ u - t >= HourTicks => t \div HourTicks < u \div HourTicks
<1>1. HourTicks \in Nat \ {0} /\ MaxTick \in Nat  BY ConstantTypes
<1>2. t \in Int /\ u \in Int /\ t >= 0 /\ u >= 0 /\ u <= MaxTick /\ u \in Nat  BY <1>1
<1>3. t \div HourTicks \in Nat /\ u \div HourTicks \in Nat /\ MaxTick \div HourTicks \in Nat
  BY <1>1, <1>2, Quotient
<1>4. /\ t \div HourTicks <= u \div HourTicks
      /\ u \div HourTicks <= MaxTick \div HourTicks
  BY <1>1, <1>2, QuotientOrder
<1>5. u - t >= HourTicks => t + HourTicks <= u  BY <1>1, <1>2
<1>6. t + HourTicks <= u => t \div HourTicks < u \div HourTicks  BY <1>1, <1>2, QuotientOrder
<1> QED  BY <1>3, <1>4, <1>5, <1>6 DEF Hours

-----------------------------------------------------------------------------
(* What a symbol's recording has to satisfy, as a predicate of the files, the *)
(* run and the buffer.                                                       *)

Recording(d, r, b) ==
    /\ Replays(PieceOf(d, r, b.rows))
    /\ b.resyncs = Cardinality(SnapshotRows(b.rows))
    /\ \A h \in Hours : d[h].events # None => ManifestMatchesFile(d[h])

LEMMA Recordings ==
    (Counted /\ RecordingsReplay) <=>
        \A s \in Books : Recording(disk[s], proc.runs, bufs[s])
  BY PiecesOf DEF Counted, RecordingsReplay, Recording, Manifests

LEMMA NothingInBuffer ==
    /\ EmptyBuffer \in Buffers /\ EmptyBuffer.rows = << >>
    /\ Cardinality(SnapshotRows(EmptyBuffer.rows)) = EmptyBuffer.resyncs
<1>1. SnapshotRows(EmptyBuffer.rows) = {}  BY DEF SnapshotRows, EmptyBuffer
<1>2. Cardinality({}) = 0  BY FS_EmptySet
<1>3. << >> \in Seq(Rows)  OBVIOUS
<1>4. EmptyBuffer \in Buffers  BY <1>3 DEF EmptyBuffer, Buffers
<1>5. EmptyBuffer.rows = << >> /\ EmptyBuffer.resyncs = 0  BY DEF EmptyBuffer
<1> QED  BY <1>1, <1>2, <1>4, <1>5

\* Writing the buffers of the hour: b are the buffers, m the clocks.
LEMMA HourWritten ==
    ASSUME RecTypeOK, HoursInOrder, proc.at # "down",
           NEW b \in [Books -> Buffers],
           \A s \in Books : /\ Recording(disk[s], proc.runs, b[s])
                            /\ disk[s][Hour] = NoFile \/ b[s].rows # << >>,
           NEW m, m.started = meter.started, m.connected \in Int
    PROVE  LET W == Written(b, m) IN
           /\ W \in [Books -> [Hours -> DepthFiles]]
           /\ \A s \in Books :
                /\ \A h \in Hours \ {Hour} : W[s][h] = disk[s][h]
                /\ W[s][Hour].run = proc.runs
                /\ Recording(W[s], proc.runs, EmptyBuffer)
                /\ \A q : Tip(PieceOf(disk[s], proc.runs, b[s].rows), q) =>
                             Tip(PieceOf(W[s], proc.runs, << >>), q)
<1> DEFINE W == Written(b, m)
           New(s) == [rows    |-> IF b[s].rows = <<>> THEN disk[s][Hour].rows ELSE b[s].rows,
                      run     |-> proc.runs,
                      events  |-> Len(b[s].rows),
                      gaps    |-> b[s].gaps,
                      resyncs |-> b[s].resyncs,
                      uptime  |-> Uptime(m)]
<1>1. W = [s \in Books |-> [disk[s] EXCEPT ![Hour] = New(s)]]
  BY DEF Written, Hour
<1>2. Hour \in Hours
  <2>1. meter.started \in Nat /\ tick \in 0 .. MaxTick /\ meter.started <= tick
    BY DEF RecTypeOK, HoursInOrder, Meters
  <2> QED  BY <2>1, HourOfClock DEF Hour
<1>3. Uptime(m) \in Int
  <2>1. m.started \in Int /\ tick \in Int  BY ConstantTypes DEF RecTypeOK, Meters
  <2> QED  BY <2>1, UptimeType
<1>4. ASSUME NEW s \in Books
      PROVE  /\ New(s) \in DepthFiles /\ New(s).run = proc.runs
             /\ New(s).rows = b[s].rows /\ ManifestMatchesFile(New(s))
  <2>1. b[s] \in Buffers /\ b[s].rows \in Seq(Rows) /\ Len(b[s].rows) \in Nat
    BY LenProperties DEF Buffers
  <2>2. New(s).rows = b[s].rows  BY DEF NoFile
  <2>3. proc.runs \in Nat  BY DEF RecTypeOK
  <2>4. New(s) \in DepthFiles
    <3> HIDE DEF Buffers
    <3>1. b[s].gaps \in Nat /\ b[s].resyncs \in Nat  BY <2>1 DEF Buffers
    <3>2. Len(b[s].rows) \in Int  BY <2>1
    <3>3. New(s) = [rows |-> b[s].rows, run |-> proc.runs, events |-> Len(b[s].rows),
                    gaps |-> b[s].gaps, resyncs |-> b[s].resyncs, uptime |-> Uptime(m)]
      BY <2>2
    <3> QED  BY <1>3, <2>1, <2>3, <3>1, <3>2, <3>3 DEF DepthFiles
  <2>5. Chained(b[s].rows)
    <3>1. disk[s] \in [Hours -> DepthFiles]  BY DEF RecTypeOK
    <3>2. Replays(PieceOf(disk[s], proc.runs, b[s].rows))  BY DEF Recording
    <3> QED  BY <2>1, <3>1, <3>2, BufferChained
  <2>6. b[s].resyncs = Cardinality(SnapshotRows(b[s].rows))  BY DEF Recording
  <2>7. ManifestMatchesFile(New(s))
    BY <2>2, <2>5, <2>6 DEF ManifestMatchesFile, SnapshotRows
  <2> QED  BY <2>2, <2>4, <2>7
<1> HIDE DEF New
<1>5. disk \in [Books -> [Hours -> DepthFiles]]  BY DEF RecTypeOK
<1>6. W \in [Books -> [Hours -> DepthFiles]]
  <2>1. ASSUME NEW s \in Books  PROVE [disk[s] EXCEPT ![Hour] = New(s)] \in [Hours -> DepthFiles]
    <3> DEFINE d == disk[s]
    <3>1. d \in [Hours -> DepthFiles] /\ New(s) \in DepthFiles  BY <1>4, <1>5
    <3> HIDE DEF d
    <3>2. [d EXCEPT ![Hour] = New(s)] \in [Hours -> DepthFiles]  BY <3>1
    <3> QED  BY <3>2 DEF d
  <2> HIDE DEF W
  <2> QED  BY <1>1, <2>1
<1>7. ASSUME NEW s \in Books
      PROVE  /\ \A h \in Hours \ {Hour} : W[s][h] = disk[s][h]
             /\ W[s][Hour].run = proc.runs
             /\ Recording(W[s], proc.runs, EmptyBuffer)
             /\ \A q : Tip(PieceOf(disk[s], proc.runs, b[s].rows), q) =>
                          Tip(PieceOf(W[s], proc.runs, << >>), q)
  <2> DEFINE d == disk[s]
             list == b[s].rows
  <2>1. d \in [Hours -> DepthFiles] /\ W[s] = [d EXCEPT ![Hour] = New(s)]  BY <1>1, <1>5
  <2>2. /\ W[s][Hour] = New(s)
        /\ \A h \in Hours \ {Hour} : W[s][h] = d[h]
    BY <1>2, <2>1
  <2>3. \A h \in Hours : d[h].run = proc.runs => h < Hour
    <3>1. \A h \in Hours : h >= Hour => d[h].run # proc.runs  BY DEF HoursInOrder
    <3>2. Hours \subseteq Int  BY ConstantTypes
    <3> QED  BY <1>2, <3>1, <3>2
  <2>4. list \in Seq(Rows)  BY DEF Buffers
  <2>5. Replays(PieceOf(d, proc.runs, list))  BY DEF Recording
  <2>6. /\ Replays(PieceOf(W[s], proc.runs, << >>))
        /\ \A q : Tip(PieceOf(d, proc.runs, list), q) => Tip(PieceOf(W[s], proc.runs, << >>), q)
    <3> DEFINE f == New(s)
               r == proc.runs
    <3>1. f \in DepthFiles /\ f.run = r /\ f.rows = list  BY <1>4
    <3> HIDE DEF d, list, f, Hour
    <3>2. /\ Replays(PieceOf([d EXCEPT ![Hour] = f], r, << >>))
          /\ \A q : Tip(PieceOf(d, r, list), q) =>
                       Tip(PieceOf([d EXCEPT ![Hour] = f], r, << >>), q)
      <4> HIDE DEF r
      <4>1. \A h \in Hours : d[h].run = r => h < Hour  BY <2>3 DEF r
      <4>2. Replays(PieceOf(d, r, list))  BY <2>5 DEF r
      <4>3. d \in [Hours -> DepthFiles]  BY <2>1
      <4> QED  BY <1>2, <2>4, <3>1, <4>1, <4>2, <4>3, BufferFiled
    <3>3. W[s] = [d EXCEPT ![Hour] = f]  BY <2>1 DEF f
    <3> QED  BY <3>2, <3>3
  <2>7. \A h \in Hours : W[s][h].events # None => ManifestMatchesFile(W[s][h])
    <3>1. \A h \in Hours : d[h].events # None => ManifestMatchesFile(d[h])  BY DEF Recording
    <3> HIDE DEF W, d
    <3> QED  BY <1>4, <2>2, <3>1
  <2>8. Recording(W[s], proc.runs, EmptyBuffer)
    BY <2>6, <2>7, NothingInBuffer DEF Recording
  <2> QED  BY <1>4, <2>2, <2>6, <2>8
<1> QED  BY <1>6, <1>7

-----------------------------------------------------------------------------
(* The steps.  Most leave the files and the rows alone. *)

AllRecorded == \A s \in Books : Recording(disk[s], proc.runs, bufs[s])

LEMMA Parts ==
    RecInv <=> RecTypeOK /\ HoursInOrder /\ NoFileKept /\ Positioned /\ AllRecorded
  BY Recordings DEF RecInv, AllRecorded

LEMMA PartsNext ==
    RecInv' <=> RecTypeOK' /\ HoursInOrder' /\ NoFileKept' /\ Positioned' /\ AllRecorded'
<1>1. (Counted' /\ RecordingsReplay') <=> AllRecorded'
  <2>1. \A s \in Books : Pieces(s)' = PieceOf(disk[s]', proc.runs', bufs[s].rows')
    BY DEF Pieces, PieceOf, U
  <2> QED  BY <2>1 DEF Counted, RecordingsReplay, AllRecorded, Recording, Manifests
<1> QED  BY <1>1 DEF RecInv

LEMMA QuietStep ==
    ASSUME RecInv, tick' \in 0 .. MaxTick, tick <= tick',
           disk' = disk, seqs' = seqs, meter'.started = meter.started,
           \A s \in Books : bufs'[s].rows = bufs[s].rows /\ bufs'[s].resyncs = bufs[s].resyncs,
           proc'.runs = proc.runs, proc'.at # "down" => proc.at # "down",
           proc'.at = "boot" => proc.at = "boot",
           \A s \in Books : (proc'.at = "boot" /\ s \in proc'.todo) <=>
                            (proc.at = "boot" /\ s \in proc.todo)
    PROVE  HoursInOrder' /\ NoFileKept' /\ Positioned' /\ AllRecorded'
<1>1. tick \div HourTicks <= tick' \div HourTicks
      /\ tick \div HourTicks \in Int /\ tick' \div HourTicks \in Int
  <2>1. HourTicks \in Nat \ {0} /\ tick \in Int /\ tick' \in Int
    BY ConstantTypes DEF RecInv, RecTypeOK
  <2> QED  BY <2>1, Quotient, QuotientOrder
<1>2. Hours \subseteq Int  BY ConstantTypes
<1>3. HoursInOrder'
  <2>1. \A h \in Hours : h > tick' \div HourTicks => h > tick \div HourTicks
    BY <1>1, <1>2
  <2>2. meter.started <= tick => meter'.started <= tick'
    BY DEF RecInv, RecTypeOK, Meters
  <2>3. Hour' = Hour  BY DEF Hour
  <2> QED  BY <2>1, <2>2, <2>3 DEF RecInv, HoursInOrder
<1>4. NoFileKept'
  <2>1. Hour' = Hour  BY DEF Hour
  <2> QED  BY <2>1 DEF RecInv, NoFileKept
<1>5. \A s \in Books : Pieces(s)' = Pieces(s)
  BY DEF Pieces
<1>6. Positioned'  BY <1>5 DEF RecInv, Positioned
<1>7. AllRecorded'  BY Parts DEF AllRecorded, Recording
<1> QED  BY <1>3, <1>4, <1>6, <1>7

\* The process is gone; disk' is what it has left behind.
LEMMA DownStep ==
    ASSUME tick' = tick, proc'.at = "down", proc'.runs = proc.runs, bufs' = Emptied,
           \A s \in Books :
              /\ Recording(disk'[s], proc.runs, EmptyBuffer)
              /\ \A h \in Hours : /\ disk'[s][h].run <= proc.runs
                                  /\ h > tick \div HourTicks => disk'[s][h] = NoFile
    PROVE  HoursInOrder' /\ NoFileKept' /\ Positioned' /\ AllRecorded'
<1>1. \A s \in Books : bufs'[s] = EmptyBuffer  BY DEF Emptied
<1>2. AllRecorded'  BY <1>1 DEF AllRecorded
<1> QED  BY <1>2 DEF HoursInOrder, NoFileKept, Positioned

\* The meter after an event, and after the turn of the hour.
CountedUp(m, c, t) == [m EXCEPT !.connected = c, !.since = t]
Restarted(m, c, t) == [m EXCEPT !.started = t, !.connected = c]

LEMMA MeterFields ==
    ASSUME NEW m \in Meters, NEW c \in Int, NEW t \in Nat
    PROVE  /\ CountedUp(m, c, t) \in Meters
           /\ CountedUp(m, c, t).started = m.started /\ CountedUp(m, c, t).connected = c
           /\ Restarted(m, c, t) \in Meters /\ Restarted(m, c, t).started = t
<1>1. ASSUME NEW x \in Meters
      PROVE  /\ [x EXCEPT !.since = t] \in Meters
             /\ [x EXCEPT !.connected = c] \in Meters
             /\ [x EXCEPT !.started = t] \in Meters
  <2>1. t \in Int  OBVIOUS
  <2> QED  BY <2>1 DEF Meters
<1>2. [m EXCEPT !.connected = c, !.since = t] = [[m EXCEPT !.connected = c] EXCEPT !.since = t]
      /\ [m EXCEPT !.started = t, !.connected = c] = [[m EXCEPT !.started = t] EXCEPT !.connected = c]
  BY DEF Meters
<1>3. /\ [m EXCEPT !.connected = c, !.since = t].started = m.started
      /\ [m EXCEPT !.connected = c, !.since = t].connected = c
      /\ [m EXCEPT !.started = t, !.connected = c].started = t
  BY DEF Meters
<1> QED  BY <1>1, <1>2, <1>3 DEF CountedUp, Restarted

\* The rest of the loop after an event, from the buffers b.
LEMMA EventStep ==
    ASSUME RecInv, proc.at = "run", NEW b \in [Books -> Buffers], NEW rest \in Seq(Events),
           \A s \in Books : /\ Recording(disk[s], proc.runs, b[s])
                            /\ disk[s][Hour] = NoFile \/ b[s].rows # << >>
                            /\ Tip(PieceOf(disk[s], proc.runs, b[s].rows), seqs'[s]),
           EndOfEvent(b, rest),
           proc'.at = "run", proc'.runs = proc.runs, tick' = tick
    PROVE  /\ disk' \in [Books -> [Hours -> DepthFiles]]
           /\ bufs' \in [Books -> Buffers]
           /\ meter' \in Meters
           /\ socket' \in [open : BOOLEAN, queue : Seq(Events)]
           /\ HoursInOrder' /\ NoFileKept' /\ Positioned' /\ AllRecorded'
<1> DEFINE m == Metered
           full == tick - meter.started >= HourTicks
<1>1. /\ RecTypeOK /\ HoursInOrder /\ HourTicks \in Nat \ {0}
      /\ tick \in Nat /\ tick \in 0 .. MaxTick /\ meter.started \in Nat
      /\ meter.started <= tick /\ Hours \subseteq Int
  <2>1. RecTypeOK /\ HoursInOrder  BY DEF RecInv
  <2>2. meter.started \in Nat /\ tick \in 0 .. MaxTick  BY <2>1 DEF RecTypeOK, Meters
  <2>3. meter.started <= tick  BY <2>1 DEF HoursInOrder
  <2> QED  BY <2>1, <2>2, <2>3, ConstantTypes
<1>2. /\ disk' = IF full THEN Written(b, m) ELSE disk
      /\ bufs' = IF full THEN Emptied ELSE b
      /\ meter' = IF full THEN [m EXCEPT !.started = tick, !.connected = 0] ELSE m
      /\ socket' = IF proc.stop THEN [open |-> FALSE, queue |-> <<>>] ELSE [socket EXCEPT !.queue = rest]
  BY DEF EndOfEvent, Metered, Cleared
<1>3. m \in Meters /\ m.started = meter.started /\ m.connected \in Int
  <2>1. meter \in Meters /\ tick \in Nat  BY <1>1 DEF RecTypeOK, Meters
  <2>2. meter.connected + (tick - meter.since) \in Int  BY <2>1 DEF Meters
  <2> DEFINE c == meter.connected + (tick - meter.since)
  <2>3. m = CountedUp(meter, c, tick)  BY DEF Metered, CountedUp
  <2> HIDE DEF m, c
  <2>4. c \in Int  BY <2>2 DEF c
  <2> QED  BY <2>1, <2>3, <2>4, MeterFields
<1> HIDE DEF m
<1>4. meter' \in Meters /\ (full => meter'.started = tick)
  <2>1. 0 \in Int  OBVIOUS
  <2>2. Restarted(m, 0, tick) \in Meters /\ Restarted(m, 0, tick).started = tick
    BY <1>1, <1>3, <2>1, MeterFields
  <2> QED  BY <1>2, <1>3, <2>2 DEF Restarted
<1>5. socket' \in [open : BOOLEAN, queue : Seq(Events)]
  <2>1. socket \in [open : BOOLEAN, queue : Seq(Events)]  BY <1>1 DEF RecTypeOK
  <2>2. CASE proc.stop
    <3>1. << >> \in Seq(Events)  OBVIOUS
    <3> QED  BY <1>2, <2>2, <3>1
  <2>3. CASE ~proc.stop
    <3>1. [socket EXCEPT !.queue = rest] \in [open : BOOLEAN, queue : Seq(Events)]  BY <2>1
    <3> QED  BY <1>2, <2>3, <3>1
  <2> QED  BY <2>2, <2>3
<1>6. CASE ~full
  <2>1. disk' = disk /\ bufs' = b /\ meter'.started = meter.started
    BY <1>2, <1>3, <1>6
  <2>2. HoursInOrder'
    <3>1. Hour' = Hour /\ tick' \div HourTicks = tick \div HourTicks  BY <2>1 DEF Hour
    <3> QED  BY <1>1, <2>1, <3>1 DEF HoursInOrder
  <2>3. NoFileKept'
    <3>1. Hour' = Hour  BY <2>1 DEF Hour
    <3> QED  BY <2>1, <3>1 DEF NoFileKept
  <2>4. Positioned'
    <3>1. \A s \in Books : Pieces(s)' = PieceOf(disk[s], proc.runs, b[s].rows)
      BY <2>1 DEF Pieces, PieceOf, U
    <3> QED  BY <3>1 DEF Positioned
  <2>5. AllRecorded'  BY <2>1 DEF AllRecorded
  <2>6. disk \in [Books -> [Hours -> DepthFiles]]  BY <1>1 DEF RecTypeOK
  <2> QED  BY <1>4, <1>5, <2>1, <2>2, <2>3, <2>4, <2>5, <2>6
<1>7. CASE full
  <2> DEFINE W == Written(b, m)
  <2>1. disk' = W /\ bufs' = Emptied /\ meter'.started = tick
    BY <1>2, <1>4, <1>7
  <2>2. /\ W \in [Books -> [Hours -> DepthFiles]]
        /\ \A s \in Books :
             /\ \A h \in Hours \ {Hour} : W[s][h] = disk[s][h]
             /\ W[s][Hour].run = proc.runs
             /\ Recording(W[s], proc.runs, EmptyBuffer)
             /\ \A q : Tip(PieceOf(disk[s], proc.runs, b[s].rows), q) =>
                          Tip(PieceOf(W[s], proc.runs, << >>), q)
    BY <1>1, <1>3, HourWritten
  <2> HIDE DEF W
  <2>3. Hour' = tick \div HourTicks /\ Hour < Hour' /\ Hour \in Hours /\ Hour' \in Hours
    BY <1>1, <1>7, <2>1, HourOfClock DEF Hour
  <2>4. proc.runs \in Nat /\ proc.runs # 0  BY <1>1 DEF RecTypeOK, HoursInOrder
  <2>5. ASSUME NEW s \in Books, NEW h \in Hours
        PROVE  /\ disk'[s][h].run <= proc.runs
               /\ h > tick \div HourTicks => disk'[s][h] = NoFile
               /\ h >= Hour' => disk'[s][h].run # proc.runs /\ disk'[s][h] = NoFile
    <3>1. h \in Int /\ Hour \in Int /\ Hour' \in Int  BY <1>1, <2>3
    <3>2. CASE h = Hour  BY <2>1, <2>2, <2>3, <2>4, <3>1, <3>2
    <3>3. CASE h # Hour
      <4>1. disk'[s][h] = disk[s][h]  BY <2>1, <2>2, <3>3
      <4>2. h >= Hour' => h > Hour  BY <2>3, <3>1
      <4>3. /\ disk[s][h].run <= proc.runs
            /\ h > tick \div HourTicks => disk[s][h] = NoFile
            /\ h > Hour => disk[s][h] = NoFile
        BY <1>1 DEF HoursInOrder
      <4>4. NoFile.run # proc.runs  BY <2>4 DEF NoFile
      <4> QED  BY <4>1, <4>2, <4>3, <4>4
    <3> QED  BY <3>2, <3>3
  <2>6. HoursInOrder'
    <3>1. \A h \in Hours : h > Hour' => h >= Hour'  BY <1>1, <2>3
    <3>2. meter'.started <= tick'  BY <1>1, <2>1
    <3>3. tick' \div HourTicks = tick \div HourTicks  OBVIOUS
    <3> QED  BY <2>4, <2>5, <3>1, <3>2, <3>3 DEF HoursInOrder
  <2>7. NoFileKept'
    <3>1. Hour' >= Hour'  BY <1>1, <2>3
    <3> QED  BY <2>3, <2>5, <3>1 DEF NoFileKept
  <2>8. \A s \in Books : bufs'[s] = EmptyBuffer /\ bufs'[s].rows = << >>
    BY <2>1, NothingInBuffer DEF Emptied
  <2>9. Positioned'
    <3>1. \A s \in Books : Pieces(s)' = PieceOf(W[s], proc.runs, << >>)
      BY <2>1, <2>8 DEF Pieces, PieceOf, U
    <3> QED  BY <2>2, <3>1 DEF Positioned
  <2>10. AllRecorded'  BY <2>1, <2>2, <2>8 DEF AllRecorded
  <2>11. bufs' \in [Books -> Buffers]  BY <2>1, NothingInBuffer DEF Emptied
  <2> QED  BY <1>4, <1>5, <2>1, <2>2, <2>6, <2>7, <2>9, <2>10, <2>11
<1> QED  BY <1>6, <1>7

-----------------------------------------------------------------------------
Sockets == [open : BOOLEAN, queue : Seq(Events)]
Procs   == [at : {"down", "boot", "backoff", "run"}, todo : SUBSET Books,
            await : Books \cup {Nobody}, stop : BOOLEAN, runs : Nat]
Sequencers == [last : Int, synced : BOOLEAN]

LEMMA Typing ==
    RecTypeOK <=> /\ book \in [Books -> Nat] /\ socket \in Sockets /\ proc \in Procs
               /\ seqs \in [Books -> Sequencers] /\ bufs \in [Books -> Buffers]
               /\ meter \in Meters /\ disk \in [Books -> [Hours -> DepthFiles]]
               /\ tick \in 0 .. MaxTick
  BY DEF RecTypeOK, Sockets, Procs, Sequencers

LEMMA TypingNext ==
    RecTypeOK' <=> /\ book' \in [Books -> Nat] /\ socket' \in Sockets /\ proc' \in Procs
                /\ seqs' \in [Books -> Sequencers] /\ bufs' \in [Books -> Buffers]
                /\ meter' \in Meters /\ disk' \in [Books -> [Hours -> DepthFiles]]
                /\ tick' \in 0 .. MaxTick
  BY DEF RecTypeOK, Sockets, Procs, Sequencers

LEMMA SocketFields ==
    /\ [open |-> FALSE, queue |-> << >>] \in Sockets
    /\ [open |-> TRUE, queue |-> << >>] \in Sockets
    /\ \A k \in Sockets, q \in Seq(Events) : [k EXCEPT !.queue = q] \in Sockets
    /\ \A k \in Sockets : k.queue \in Seq(Events) /\ Tail(k.queue) \in Seq(Events)
    /\ \A k \in Sockets, e \in Events : Append(k.queue, e) \in Seq(Events)
    /\ \A k \in Sockets : k.queue # << >> => Head(k.queue) \in Events
<1>1. << >> \in Seq(Events)  OBVIOUS
<1>2. \A k \in Sockets : k.queue \in Seq(Events)  BY DEF Sockets
<1>3. \A k \in Sockets, q \in Seq(Events) : [k EXCEPT !.queue = q] \in Sockets
  BY DEF Sockets
<1>4. \A q \in Seq(Events) : Tail(q) \in Seq(Events) /\ (q # << >> => Head(q) \in Events)
  <2> TAKE q \in Seq(Events)
  <2>1. CASE q = << >>
    <3>1. Len(q) = 0  BY <2>1
    <3> QED  BY <2>1, <3>1
  <2>2. CASE q # << >>  BY <2>2, HeadTailProperties
  <2> QED  BY <2>1, <2>2
<1>5. \A q \in Seq(Events), e \in Events : Append(q, e) \in Seq(Events)  BY AppendProperties
<1> QED  BY <1>1, <1>2, <1>3, <1>4, <1>5 DEF Sockets

LEMMA Initially == RecInit => RecInv
<1> SUFFICES ASSUME RecInit  PROVE RecInv  OBVIOUS
<1>1. NoFile \in DepthFiles /\ NewSequencer \in Sequencers
  <2>1. << >> \in Seq(Rows) /\ None \in Int  BY DEF None
  <2> QED  BY <2>1 DEF NoFile, DepthFiles, NewSequencer, Sequencers
<1>2. RecTypeOK
  <2>1. proc \in Procs  BY DEF RecInit, Procs
  <2>2. meter \in Meters  BY DEF RecInit, Meters
  <2>3. tick \in 0 .. MaxTick  BY ConstantTypes DEF RecInit
  <2>4. bufs \in [Books -> Buffers] /\ seqs \in [Books -> Sequencers]
    BY <1>1, NothingInBuffer DEF RecInit
  <2>5. socket \in Sockets  BY SocketFields DEF RecInit
  <2>6. disk \in [Books -> [Hours -> DepthFiles]] /\ book \in [Books -> Nat]
    BY <1>1 DEF RecInit
  <2> QED  BY <2>1, <2>2, <2>3, <2>4, <2>5, <2>6, Typing
<1>3. /\ proc.at = "down" /\ proc.runs = 0
      /\ \A s \in Books : bufs[s] = EmptyBuffer /\ \A h \in Hours : disk[s][h] = NoFile
  BY DEF RecInit
<1>4. HoursInOrder /\ NoFileKept /\ Positioned
  BY <1>3 DEF HoursInOrder, NoFileKept, Positioned, NoFile
<1>5. AllRecorded
  <2> SUFFICES ASSUME NEW s \in Books  PROVE Recording(disk[s], proc.runs, EmptyBuffer)
    BY <1>3 DEF AllRecorded
  <2>1. Replays(PieceOf(disk[s], proc.runs, << >>))
    BY <1>3, NothingYet DEF NoFile
  <2>2. \A h \in Hours : disk[s][h].events = None  BY <1>3 DEF NoFile
  <2> QED  BY <2>1, <2>2, NothingInBuffer DEF Recording
<1> QED  BY <1>2, <1>4, <1>5, Parts

\* The exchange and the clock.
LEMMA OutsideStep ==
    ASSUME RecInv,
           (\E s \in Books, n \in 1 .. 2 : Publish(s, n)) \/ Trade \/ Lose \/ Clock
    PROVE  RecInv'
<1>1. RecTypeOK /\ tick \in 0 .. MaxTick /\ tick \in Int  BY DEF RecInv, RecTypeOK
<1>2. UNCHANGED <<proc, seqs, bufs, meter, disk>>  BY DEF Publish, Trade, Lose, Clock
<1>3. tick' \in 0 .. MaxTick /\ tick <= tick'
  <2>1. tick' = tick \/ (tick < MaxTick /\ tick' = tick + 1)
    BY DEF Publish, Trade, Lose, Clock
  <2> QED  BY <1>1, <2>1, ConstantTypes
<1>4. socket' \in Sockets
  <2>1. socket \in Sockets  BY <1>1, Typing
  <2>2. ASSUME NEW e \in Events  PROVE Send(e) \in Sockets
    BY <2>1, SocketFields DEF Send
  <2>3. [sym |-> Nobody, first |-> 0, final |-> 0] \in Events  BY DEF Events
  <2>4. ASSUME NEW s \in Books, NEW n \in 1 .. 2
        PROVE  [sym |-> s, first |-> book[s] + 1, final |-> book[s] + n] \in Events
    <3>1. book[s] \in Nat  BY <1>1, Typing
    <3>2. book[s] + 1 \in Int /\ book[s] + n \in Int  BY <3>1
    <3> QED  BY <3>2 DEF Events
  <2>5. Tail(socket.queue) \in Seq(Events)  BY <2>1, SocketFields
  <2>6. [socket EXCEPT !.queue = Tail(@)] \in Sockets  BY <2>1, <2>5, SocketFields
  <2>7. CASE \E s \in Books, n \in 1 .. 2 : Publish(s, n)
    <3>1. PICK s \in Books, n \in 1 .. 2 : Publish(s, n)  BY <2>7
    <3> QED  BY <2>2, <2>4, <3>1 DEF Publish
  <2>8. CASE Trade  BY <2>2, <2>3, <2>8 DEF Trade
  <2>9. CASE Lose  BY <2>6, <2>9 DEF Lose
  <2>10. CASE Clock  BY <2>1, <2>10 DEF Clock
  <2> QED  BY <2>7, <2>8, <2>9, <2>10
<1>5. book' \in [Books -> Nat]
  <2>1. book \in [Books -> Nat]  BY <1>1, Typing
  <2>2. CASE \E s \in Books, n \in 1 .. 2 : Publish(s, n)
    <3>1. PICK s \in Books, n \in 1 .. 2 : Publish(s, n)  BY <2>2
    <3>2. book[s] + n \in Nat  BY <2>1
    <3> QED  BY <2>1, <3>1, <3>2 DEF Publish
  <2>3. CASE UNCHANGED book  BY <2>1, <2>3
  <2> QED  BY <2>2, <2>3 DEF Trade, Lose, Clock
<1>6. RecTypeOK'  BY <1>1, <1>2, <1>3, <1>4, <1>5, Typing, TypingNext
<1>7. HoursInOrder' /\ NoFileKept' /\ Positioned' /\ AllRecorded'
  BY <1>2, <1>3, QuietStep
<1> QED  BY <1>6, <1>7, PartsNext

\* Steps of the process that record nothing and write nothing.
LEMMA LoopStep ==
    ASSUME RecInv,
           \/ Connect \/ ConnectFails \/ Break \/ Close \/ Stop
           \/ proc.at = "backoff" /\ \E s \in Books : ResyncFails(s)
    PROVE  RecInv'
<1>1. RecTypeOK /\ tick \in 0 .. MaxTick /\ tick <= tick  BY ConstantTypes DEF RecInv, RecTypeOK
<1>2. UNCHANGED <<book, seqs, bufs, disk, tick>>
  BY DEF Connect, ConnectFails, Break, Close, Stop, ResyncFails
<1>3. meter' \in Meters /\ meter'.started = meter.started
  <2>1. meter \in Meters /\ tick \in Int  BY <1>1, Typing
  <2>2. [meter EXCEPT !.since = tick] \in Meters
        /\ [meter EXCEPT !.since = tick].started = meter.started
    BY <2>1 DEF Meters
  <2> QED  BY <2>1, <2>2 DEF Connect, ConnectFails, Break, Close, Stop, ResyncFails
<1>4. socket' \in Sockets
  <2>1. socket \in Sockets  BY <1>1, Typing
  <2> QED  BY <2>1, SocketFields DEF Connect, ConnectFails, Break, Close, Stop, ResyncFails
<1>5. /\ proc' \in Procs /\ proc'.runs = proc.runs
      /\ proc'.at # "down" => proc.at # "down"
      /\ proc'.at = "boot" => proc.at = "boot" /\ proc'.todo = proc.todo
      /\ proc.at = "boot" /\ proc'.at # "boot" => proc.todo = {}
  <2>1. proc \in Procs  BY <1>1, Typing
  <2>2. CASE Connect
    <3>1. [proc EXCEPT !.at = "run"] \in Procs  BY <2>1 DEF Procs
    <3> QED  BY <2>1, <2>2, <3>1 DEF Connect, Ready, Procs
  <2>3. CASE ConnectFails
    <3>1. proc' = [[proc EXCEPT !.at = "backoff"] EXCEPT !.todo = Books]
      BY <2>1, <2>3 DEF ConnectFails, Procs
    <3>2. proc' \in Procs  BY <2>1, <3>1 DEF Procs
    <3> QED  BY <2>1, <2>3, <3>2 DEF ConnectFails, Ready, Procs
  <2>4. CASE Break
    <3>1. proc' = [[[proc EXCEPT !.at = "backoff"] EXCEPT !.todo = Books] EXCEPT !.await = Nobody]
      BY <2>1, <2>4 DEF Break, Procs
    <3>2. proc' \in Procs  BY <2>1, <3>1 DEF Procs
    <3> QED  BY <2>1, <2>4, <3>2 DEF Break, Procs
  <2>5. CASE Close  BY <2>1, <2>5 DEF Close
  <2>6. CASE Stop
    <3>1. [proc EXCEPT !.stop = TRUE] \in Procs  BY <2>1 DEF Procs
    <3> QED  BY <2>1, <2>6, <3>1 DEF Stop, Procs
  <2>7. CASE proc.at = "backoff" /\ \E s \in Books : ResyncFails(s)
    <3>1. PICK s \in Books : ResyncFails(s)  BY <2>7
    <3>2. proc' = [proc EXCEPT !.todo = @ \ {s}]  BY <2>7, <3>1 DEF ResyncFails
    <3>3. [proc EXCEPT !.todo = @ \ {s}] \in Procs  BY <2>1 DEF Procs
    <3> QED  BY <2>1, <2>7, <3>2, <3>3 DEF Procs
  <2> QED  BY <2>2, <2>3, <2>4, <2>5, <2>6, <2>7
<1>6. RecTypeOK'  BY <1>1, <1>2, <1>3, <1>4, <1>5, Typing, TypingNext
<1>7. HoursInOrder' /\ NoFileKept' /\ Positioned' /\ AllRecorded'
  BY <1>1, <1>2, <1>3, <1>5, QuietStep
<1> QED  BY <1>6, <1>7, PartsNext

\* The process ends: it leaves, or its first snapshot fails, or it crashes.
LEMMA EndStep ==
    ASSUME RecInv,
           \/ Leave \/ Crash
           \/ proc.at = "boot" /\ \E s \in Books : ResyncFails(s)
    PROVE  RecInv'
<1>1. /\ RecTypeOK /\ HoursInOrder /\ proc.at # "down" /\ HourTicks \in Nat \ {0}
      /\ tick \in 0 .. MaxTick
  BY ConstantTypes DEF RecInv, RecTypeOK, Leave, Crash, Ready
<1>2. UNCHANGED <<book, tick>> /\ proc' = Gone /\ Lost
  BY DEF Leave, Crash, ResyncFails
<1>3. proc' \in Procs /\ proc'.at = "down" /\ proc'.runs = proc.runs
  <2>1. proc \in Procs  BY <1>1, Typing
  <2>2. Gone = [[[[proc EXCEPT !.at = "down"] EXCEPT !.todo = {}] EXCEPT !.await = Nobody]
                   EXCEPT !.stop = FALSE]
    BY <2>1 DEF Gone, Procs
  <2> DEFINE a == [proc EXCEPT !.at = "down"]
             b == [a EXCEPT !.todo = {}]
             c == [b EXCEPT !.await = Nobody]
             d == [c EXCEPT !.stop = FALSE]
  <2>3. a \in Procs /\ a.at = "down" /\ a.runs = proc.runs  BY <2>1 DEF Procs
  <2> HIDE DEF a
  <2>4. b \in Procs /\ b.at = "down" /\ b.runs = proc.runs  BY <2>3 DEF Procs
  <2> HIDE DEF b
  <2>5. c \in Procs /\ c.at = "down" /\ c.runs = proc.runs  BY <2>4 DEF Procs
  <2> HIDE DEF c
  <2>6. d \in Procs /\ d.at = "down" /\ d.runs = proc.runs  BY <2>5 DEF Procs
  <2>7. proc' = d  BY <1>2, <2>2 DEF a, b, c
  <2> HIDE DEF d
  <2> QED  BY <2>6, <2>7
<1>4. /\ socket' \in Sockets /\ seqs' \in [Books -> Sequencers] /\ bufs' \in [Books -> Buffers]
      /\ meter' \in Meters
  <2>1. NewSequencer \in Sequencers  BY DEF NewSequencer, Sequencers, None
  <2>2. [started |-> 0, connected |-> 0, since |-> 0] \in Meters  BY DEF Meters
  <2> QED  BY <1>2, <2>1, <2>2, SocketFields, NothingInBuffer DEF Lost, Emptied
<1>5. /\ disk' \in [Books -> [Hours -> DepthFiles]]
      /\ \A s \in Books :
            /\ Recording(disk'[s], proc.runs, EmptyBuffer)
            /\ \A h \in Hours : /\ disk'[s][h].run <= proc.runs
                                /\ h > tick \div HourTicks => disk'[s][h] = NoFile
  <2>1. AllRecorded /\ proc.runs \in Nat  BY <1>1, Parts DEF RecTypeOK
  <2>2. disk \in [Books -> [Hours -> DepthFiles]] /\ bufs \in [Books -> Buffers]
    BY <1>1, Typing
  <2>3. CASE disk' = disk
    <3>1. ASSUME NEW s \in Books  PROVE Recording(disk[s], proc.runs, EmptyBuffer)
      <4>1. disk[s] \in [Hours -> DepthFiles] /\ bufs[s].rows \in Seq(Rows)
        BY <2>2 DEF Buffers
      <4>2. Replays(PieceOf(disk[s], proc.runs, bufs[s].rows))
        BY <2>1 DEF AllRecorded, Recording
      <4>3. Replays(PieceOf(disk[s], proc.runs, << >>))
        BY <4>1, <4>2, BufferDropped
      <4> QED  BY <2>1, <4>3, NothingInBuffer DEF AllRecorded, Recording
    <3> QED  BY <1>1, <2>2, <2>3, <3>1 DEF HoursInOrder
  <2>4. CASE Leave
    <3> DEFINE W == Written(bufs, meter)
    <3>1. disk' = W /\ proc.todo = {}  BY <2>4 DEF Leave, Ready
    <3>2. \A s \in Books : disk[s][Hour] = NoFile \/ bufs[s].rows # << >>
      BY <1>1, <3>1 DEF RecInv, NoFileKept
    <3>3. meter.connected \in Int  BY <1>1, Typing DEF Meters
    <3> HIDE DEF W
    <3>4. /\ W \in [Books -> [Hours -> DepthFiles]]
          /\ \A s \in Books :
               /\ \A h \in Hours \ {Hour} : W[s][h] = disk[s][h]
               /\ W[s][Hour].run = proc.runs
               /\ Recording(W[s], proc.runs, EmptyBuffer)
      BY <1>1, <2>1, <2>2, <3>2, <3>3, HourWritten DEF W, AllRecorded
    <3>5. Hour <= tick \div HourTicks /\ Hour \in Int /\ tick \div HourTicks \in Int
      <4>1. meter.started \in Nat /\ meter.started <= tick
        BY <1>1, Typing DEF HoursInOrder, Meters
      <4>2. Hours \subseteq Int  BY ConstantTypes
      <4> QED  BY <1>1, <4>1, <4>2, HourOfClock DEF Hour
    <3>6. ASSUME NEW s \in Books, NEW h \in Hours
          PROVE  W[s][h].run <= proc.runs /\ (h > tick \div HourTicks => W[s][h] = NoFile)
      <4>1. CASE h = Hour  BY <2>1, <3>4, <3>5, <4>1
      <4>2. CASE h # Hour  BY <1>1, <3>4, <4>2 DEF HoursInOrder
      <4> QED  BY <4>1, <4>2
    <3> QED  BY <3>1, <3>4, <3>6
  <2> QED  BY <2>3, <2>4 DEF Leave, Crash, ResyncFails
<1>6. RecTypeOK'  BY <1>1, <1>2, <1>3, <1>4, <1>5, Typing, TypingNext
<1>7. bufs' = Emptied  BY <1>2 DEF Lost
<1>8. HoursInOrder' /\ NoFileKept' /\ Positioned' /\ AllRecorded'
  BY <1>2, <1>3, <1>5, <1>7, DownStep
<1> QED  BY <1>6, <1>8, PartsNext

LEMMA StartStep == ASSUME RecInv, Start  PROVE RecInv'
<1>1. RecTypeOK /\ HoursInOrder /\ tick \in 0 .. MaxTick /\ tick \in Nat
  BY ConstantTypes DEF RecInv, RecTypeOK
<1>2. proc.runs \in Nat /\ proc'.runs = proc.runs + 1 /\ proc'.at = "boot" /\ proc'.todo = Books
  BY <1>1 DEF RecTypeOK, Start
<1>3. /\ proc' \in Procs /\ seqs' \in [Books -> Sequencers] /\ bufs' \in [Books -> Buffers]
      /\ meter' \in Meters /\ meter'.started = tick
  <2>1. NewSequencer \in Sequencers  BY DEF NewSequencer, Sequencers, None
  <2>2. [started |-> tick, connected |-> 0, since |-> tick] \in Meters
    BY <1>1 DEF Meters
  <2>3. [at |-> "boot", todo |-> Books, await |-> Nobody, stop |-> FALSE, runs |-> proc.runs + 1] \in Procs
    BY <1>2 DEF Procs
  <2> QED  BY <2>1, <2>2, <2>3, NothingInBuffer DEF Start, Emptied
<1>4. RecTypeOK'  BY <1>1, <1>3, Typing, TypingNext DEF Start
<1>5. disk' = disk /\ tick' = tick /\ \A s \in Books : bufs'[s] = EmptyBuffer
  BY DEF Start, Emptied
<1>6. \A s \in Books, h \in Hours : disk[s][h].run <= proc.runs /\ disk[s][h].run \in Nat
  <2>1. disk \in [Books -> [Hours -> DepthFiles]]  BY <1>1, Typing
  <2>2. \A s \in Books, h \in Hours : disk[s][h] \in DepthFiles  BY <2>1
  <2> QED  BY <1>1, <2>2 DEF HoursInOrder, DepthFiles
<1>7. \A s \in Books, h \in Hours : disk[s][h].run # proc'.runs /\ disk[s][h].run <= proc'.runs
  <2> TAKE s \in Books, h \in Hours
  <2>1. disk[s][h].run <= proc.runs /\ disk[s][h].run \in Nat  BY <1>6
  <2> QED  BY <1>2, <2>1
<1>8. HoursInOrder'
  <2>1. Hour' = tick \div HourTicks  BY <1>3 DEF Hour
  <2>2. proc'.runs # 0 /\ meter'.started <= tick  BY <1>1, <1>2, <1>3
  <2> QED  BY <1>1, <1>5, <1>7, <2>1, <2>2 DEF HoursInOrder
<1>9. NoFileKept'  BY <1>2 DEF NoFileKept
<1>10. Positioned'  BY <1>2, <1>5, NothingInBuffer DEF Positioned
<1>11. AllRecorded'
  <2> SUFFICES ASSUME NEW s \in Books  PROVE Recording(disk[s], proc'.runs, EmptyBuffer)
    BY <1>5 DEF AllRecorded
  <2>1. Replays(PieceOf(disk[s], proc'.runs, << >>))
    <3> DEFINE r == proc'.runs
    <3>1. \A h \in Hours : disk[s][h].run # r  BY <1>7
    <3> HIDE DEF r
    <3>2. Replays(PieceOf(disk[s], r, << >>))  BY <3>1, NothingYet
    <3> QED  BY <3>2 DEF r
  <2>2. Recording(disk[s], proc.runs, bufs[s])  BY Parts DEF AllRecorded
  <2> QED  BY <2>1, <2>2, NothingInBuffer DEF Recording
<1> QED  BY <1>4, <1>8, <1>9, <1>10, <1>11, PartsNext

-----------------------------------------------------------------------------
(* Rows *)

Row(kind, first, final) == [kind |-> kind, first |-> first, final |-> final]

LEMMA BufferFields ==
    ASSUME NEW b \in Buffers, NEW list \in Seq(Rows)
    PROVE  /\ [b EXCEPT !.rows = list] \in Buffers
           /\ [b EXCEPT !.rows = list].rows = list
           /\ [b EXCEPT !.rows = list].resyncs = b.resyncs
           /\ [b EXCEPT !.resyncs = @ + 1] \in Buffers
           /\ [b EXCEPT !.resyncs = @ + 1].rows = b.rows
           /\ [b EXCEPT !.resyncs = @ + 1].resyncs = b.resyncs + 1
           /\ [b EXCEPT !.gaps = @ + 1] \in Buffers
           /\ [b EXCEPT !.gaps = @ + 1].rows = b.rows
           /\ [b EXCEPT !.gaps = @ + 1].resyncs = b.resyncs
<1>1. b.gaps \in Nat /\ b.resyncs \in Nat /\ b.rows \in Seq(Rows)  BY DEF Buffers
<1>2. b.gaps + 1 \in Nat /\ b.resyncs + 1 \in Nat  BY <1>1
<1> QED  BY <1>1, <1>2 DEF Buffers

\* The buffer after a diff and after a snapshot.
WithDiff(b, first, final) == [b EXCEPT !.rows = Append(@, Row("diff", first, final))]
WithSnapshot(b, l) ==
    [b EXCEPT !.resyncs = @ + 1, !.rows = Append(@, Row("snapshot", l, l))]

LEMMA SnapshotRecorded ==
    ASSUME NEW d \in [Hours -> DepthFiles], NEW r, NEW b \in Buffers, Recording(d, r, b),
           NEW l \in Int
    PROVE  LET c == WithSnapshot(b, l) IN
           /\ c \in Buffers /\ c.rows # << >> /\ Recording(d, r, c)
           /\ Tip(PieceOf(d, r, c.rows), [last |-> l, synced |-> FALSE])
<1> DEFINE row == Row("snapshot", l, l)
           c == WithSnapshot(b, l)
           list == Append(b.rows, row)
<1>1. row \in Rows /\ row.kind = "snapshot" /\ row.final = l  BY DEF Row, Rows
<1>2. b.rows \in Seq(Rows) /\ b.resyncs \in Nat  BY DEF Buffers
<1>3. /\ Replays(PieceOf(d, r, b.rows))
      /\ b.resyncs = Cardinality(SnapshotRows(b.rows))
  BY DEF Recording
<1>4. /\ Replays(PieceOf(d, r, list)) /\ Tip(PieceOf(d, r, list), After(row))
      /\ list \in Seq(Rows) /\ list # << >>
  <2> HIDE DEF row
  <2> QED  BY <1>1, <1>2, <1>3, RowRecorded
<1>5. Cardinality(SnapshotRows(list)) = b.resyncs + 1
  <2> HIDE DEF row
  <2> QED  BY <1>1, <1>2, <1>3, RowCounted
<1>6. c \in Buffers /\ c.rows = list /\ c.resyncs = b.resyncs + 1
  <2> DEFINE a == [b EXCEPT !.resyncs = @ + 1]
  <2>1. c = [a EXCEPT !.rows = list]  BY DEF WithSnapshot, Buffers
  <2>2. a \in Buffers /\ a.resyncs = b.resyncs + 1  BY <1>4, BufferFields
  <2> HIDE DEF a, c, list
  <2> QED  BY <1>4, <2>1, <2>2, BufferFields
<1>7. After(row) = [last |-> l, synced |-> FALSE]  BY <1>1 DEF After
<1> HIDE DEF c, list, row
<1>8. Recording(d, r, c)  BY <1>4, <1>5, <1>6 DEF Recording
<1> QED  BY <1>4, <1>6, <1>7, <1>8 DEF c

\* An event the sequencer lets through continues the last row.
LEMMA DiffRecorded ==
    ASSUME NEW d \in [Hours -> DepthFiles], NEW r, NEW b \in Buffers, Recording(d, r, b),
           NEW q \in Sequencers, Tip(PieceOf(d, r, b.rows), q),
           NEW first \in Int, NEW final \in Int, Check(q, first, final) = "apply"
    PROVE  LET c == WithDiff(b, first, final) IN
           /\ c \in Buffers /\ c.rows # << >> /\ Recording(d, r, c)
           /\ Tip(PieceOf(d, r, c.rows), Applied(final))
<1> DEFINE row == Row("diff", first, final)
           c == WithDiff(b, first, final)
           list == Append(b.rows, row)
           P == PieceOf(d, r, b.rows)
           tip == LastRow(P[Max(Filled(P))])
<1>1. row \in Rows /\ row.kind = "diff" /\ row.first = first /\ row.final = final
  BY DEF Row, Rows
<1>2. b.rows \in Seq(Rows) /\ b.resyncs \in Nat  BY DEF Buffers
<1>3. /\ Replays(P) /\ b.resyncs = Cardinality(SnapshotRows(b.rows))
  BY DEF Recording
<1>4. Filled(P) # {} /\ q.last = tip.final /\ (q.synced <=> tip.kind = "diff")
  BY DEF Tip
<1>5. tip \in Rows
  <2>1. ArePieces(P)  BY <1>2, AsPieces
  <2> HIDE DEF P
  <2>2. Max(Filled(P)) \in Filled(P)  BY <1>4, <2>1, FilledPieces
  <2>3. P[Max(Filled(P))] \in Seq(Rows) /\ P[Max(Filled(P))] # << >>
    BY <2>1, <2>2 DEF ArePieces, Filled
  <2> QED  BY <2>3, NonEmpty
<1>6. Follows(tip, row)
  <2> HIDE DEF tip, row
  <2>1. tip.kind \in {"snapshot", "diff"} /\ tip.final \in Int /\ q.last \in Int
    BY <1>5 DEF Rows, Sequencers
  <2>2. CASE q.synced
    <3>1. first = q.last + 1  BY <2>2 DEF Check
    <3> QED  BY <1>1, <1>4, <2>1, <2>2, <3>1 DEF Follows
  <2>3. CASE ~q.synced
    <3>1. ~(final <= q.last) /\ first <= q.last + 1  BY <2>3 DEF Check
    <3> QED  BY <1>1, <1>4, <2>1, <2>3, <3>1 DEF Follows
  <2> QED  BY <2>2, <2>3
<1>7. /\ Replays(PieceOf(d, r, list)) /\ Tip(PieceOf(d, r, list), After(row))
      /\ list \in Seq(Rows) /\ list # << >>
  <2> HIDE DEF row
  <2> QED  BY <1>1, <1>2, <1>3, <1>4, <1>6, RowRecorded
<1>8. Cardinality(SnapshotRows(list)) = b.resyncs
  <2> HIDE DEF row
  <2> QED  BY <1>1, <1>2, <1>3, RowCounted
<1>9. c \in Buffers /\ c.rows = list /\ c.resyncs = b.resyncs
  BY <1>7, BufferFields DEF WithDiff
<1>10. After(row) = Applied(final)  BY <1>1 DEF After, Applied
<1> HIDE DEF c, list, row
<1>11. Recording(d, r, c)  BY <1>7, <1>8, <1>9 DEF Recording
<1> QED  BY <1>7, <1>9, <1>10, <1>11 DEF c

-----------------------------------------------------------------------------
LEMMA SymbolFacts ==
    ASSUME RecInv, NEW s \in Books
    PROVE  /\ disk[s] \in [Hours -> DepthFiles] /\ bufs[s] \in Buffers
           /\ seqs[s] \in Sequencers /\ Recording(disk[s], proc.runs, bufs[s])
           /\ proc.at # "down" /\ ~(proc.at = "boot" /\ s \in proc.todo) =>
                /\ disk[s][Hour] = NoFile \/ bufs[s].rows # << >>
                /\ Tip(PieceOf(disk[s], proc.runs, bufs[s].rows), seqs[s])
<1>1. RecTypeOK /\ NoFileKept /\ Positioned /\ AllRecorded  BY Parts
<1>2. Pieces(s) = PieceOf(disk[s], proc.runs, bufs[s].rows)  BY PiecesOf
<1> QED  BY <1>1, <1>2, Typing DEF NoFileKept, Positioned, AllRecorded

LEMMA SnapshotTypes ==
    ASSUME RecTypeOK, NEW s \in Books, NEW l \in Snapshots(s)
    PROVE  l \in Int
<1>1. book[s] \in Nat  BY Typing
<1> QED  BY <1>1 DEF Snapshots

\* Before the first connection and after a broken one.
LEMMA ResyncStep ==
    ASSUME RecInv, NEW s \in Books, Resync(s)
    PROVE  RecInv'
<1>1. RecTypeOK /\ HoursInOrder /\ NoFileKept /\ Positioned /\ AllRecorded  BY Parts
<1>2. /\ proc.at \in {"boot", "backoff"} /\ s \in proc.todo
      /\ UNCHANGED <<book, socket, meter, disk, tick>>
      /\ proc' = [proc EXCEPT !.todo = @ \ {s}]
  BY DEF Resync
<1>3. PICK l \in Snapshots(s) : AfterSnapshot(s, l)  BY DEF Resync
<1>4. l \in Int  BY <1>1, SnapshotTypes
<1>5. /\ proc' \in Procs /\ proc'.at = proc.at /\ proc'.runs = proc.runs
      /\ proc'.todo = proc.todo \ {s}
  <2>1. proc \in Procs  BY <1>1, Typing
  <2> QED  BY <1>2, <2>1 DEF Procs
<1> DEFINE c == WithSnapshot(bufs[s], l)
<1>6. /\ c \in Buffers /\ c.rows # << >> /\ Recording(disk[s], proc.runs, c)
      /\ Tip(PieceOf(disk[s], proc.runs, c.rows), [last |-> l, synced |-> FALSE])
  BY <1>4, SymbolFacts, SnapshotRecorded
<1>7. bufs' = [bufs EXCEPT ![s] = c]
  <2>1. bufs[s] \in Buffers /\ bufs \in [Books -> Buffers]  BY <1>1, Typing
  <2>2. bufs' = [bufs EXCEPT ![s].resyncs = @ + 1,
                             ![s].rows = Append(@, Row("snapshot", l, l))]
    BY <1>3 DEF AfterSnapshot, Row
  <2> QED  BY <2>1, <2>2 DEF WithSnapshot, Buffers
<1> HIDE DEF c
<1>8. /\ bufs' \in [Books -> Buffers] /\ bufs'[s] = c
      /\ \A u \in Books \ {s} : bufs'[u] = bufs[u]
  <2>1. bufs \in [Books -> Buffers]  BY <1>1, Typing
  <2> QED  BY <1>6, <1>7, <2>1
<1>9. /\ seqs' \in [Books -> Sequencers] /\ seqs'[s] = [last |-> l, synced |-> FALSE]
      /\ \A u \in Books \ {s} : seqs'[u] = seqs[u]
  <2>1. seqs \in [Books -> Sequencers]  BY <1>1, Typing
  <2>2. [last |-> l, synced |-> FALSE] \in Sequencers  BY <1>4 DEF Sequencers
  <2> QED  BY <1>3, <2>1, <2>2 DEF AfterSnapshot
<1>10. RecTypeOK'  BY <1>1, <1>2, <1>5, <1>8, <1>9, Typing, TypingNext
<1>11. Hour' = Hour /\ tick' \div HourTicks = tick \div HourTicks  BY <1>2 DEF Hour
<1>12. HoursInOrder'  BY <1>1, <1>2, <1>5, <1>11 DEF HoursInOrder
<1>13. NoFileKept'
  <2> SUFFICES ASSUME NEW u \in Books
               PROVE  disk'[u][Hour'] = NoFile \/ bufs'[u].rows # << >>
                      \/ (proc'.at = "boot" /\ u \in proc'.todo)
    BY DEF NoFileKept
  <2>1. CASE u = s  BY <1>6, <1>8, <2>1
  <2>2. CASE u # s
    <3>1. disk[u][Hour] = NoFile \/ bufs[u].rows # << >> \/ (proc.at = "boot" /\ u \in proc.todo)
      BY <1>1, <1>2 DEF NoFileKept
    <3> QED  BY <1>2, <1>5, <1>8, <1>11, <2>2, <3>1
  <2> QED  BY <2>1, <2>2
<1>14. Positioned'
  <2> SUFFICES ASSUME NEW u \in Books
               PROVE  IF proc'.at = "boot" /\ u \in proc'.todo THEN bufs'[u].rows = << >>
                      ELSE Tip(PieceOf(disk'[u], proc'.runs, bufs'[u].rows), seqs'[u])
    BY DEF Positioned, Pieces, PieceOf, U
  <2>1. CASE u = s
    <3>1. u \notin proc'.todo  BY <1>5, <2>1
    <3> QED  BY <1>2, <1>5, <1>6, <1>8, <1>9, <2>1, <3>1
  <2>2. CASE u # s
    <3>1. IF proc.at = "boot" /\ u \in proc.todo THEN bufs[u].rows = << >>
          ELSE Tip(PieceOf(disk[u], proc.runs, bufs[u].rows), seqs[u])
      BY <1>1, <1>2, PiecesOf DEF Positioned
    <3> QED  BY <1>2, <1>5, <1>8, <1>9, <2>2, <3>1
  <2> QED  BY <2>1, <2>2
<1>15. AllRecorded'
  <2>1. \A u \in Books : Recording(disk[u], proc.runs, bufs'[u])
    BY <1>1, <1>6, <1>8 DEF AllRecorded
  <2> QED  BY <1>2, <1>5, <2>1 DEF AllRecorded
<1> QED  BY <1>10, <1>12, <1>13, <1>14, <1>15, PartsNext

\* The snapshot that the loop waits for.
LEMMA ResyncedStep == ASSUME RecInv, Resynced  PROVE RecInv'
<1>1. RecTypeOK /\ proc.at = "run" /\ book' = book /\ tick' = tick /\ proc.await \in Books
  BY Parts DEF Resynced, RecTypeOK
<1> DEFINE s == proc.await
<1>2. PICK l \in Snapshots(s) :
          /\ seqs' = [seqs EXCEPT ![s] = [last |-> l, synced |-> FALSE]]
          /\ EndOfEvent([bufs EXCEPT
                            ![s].resyncs = @ + 1,
                            ![s].rows = Append(@, [kind |-> "snapshot", first |-> l, final |-> l])],
                        socket.queue)
  BY DEF Resynced
<1>3. /\ proc' \in Procs /\ proc'.at = "run" /\ proc'.runs = proc.runs
  <2>1. proc \in Procs /\ proc' = [proc EXCEPT !.await = Nobody]
    BY <1>1, Typing DEF Resynced
  <2> QED  BY <1>1, <2>1 DEF Procs
<1> HIDE DEF s
<1>4. s \in Books /\ l \in Int  BY <1>1, SnapshotTypes DEF s
<1> DEFINE c == WithSnapshot(bufs[s], l)
           b == [bufs EXCEPT ![s] = c]
<1>5. /\ c \in Buffers /\ c.rows # << >> /\ Recording(disk[s], proc.runs, c)
      /\ Tip(PieceOf(disk[s], proc.runs, c.rows), [last |-> l, synced |-> FALSE])
  BY <1>4, SymbolFacts, SnapshotRecorded
<1>6. EndOfEvent(b, socket.queue)
  <2>1. bufs[s] \in Buffers /\ bufs \in [Books -> Buffers]  BY <1>1, <1>4, Typing
  <2>2. b = [bufs EXCEPT ![s].resyncs = @ + 1,
                         ![s].rows = Append(@, [kind |-> "snapshot", first |-> l, final |-> l])]
    BY <2>1 DEF WithSnapshot, Buffers, Row
  <2> QED  BY <1>2, <2>2
<1> HIDE DEF c
<1>7. /\ b \in [Books -> Buffers] /\ b[s] = c /\ \A u \in Books \ {s} : b[u] = bufs[u]
  <2>1. bufs \in [Books -> Buffers]  BY <1>1, Typing
  <2> QED  BY <1>4, <1>5, <2>1
<1> HIDE DEF b
<1>8. /\ seqs' \in [Books -> Sequencers] /\ seqs'[s] = [last |-> l, synced |-> FALSE]
      /\ \A u \in Books \ {s} : seqs'[u] = seqs[u]
  <2>1. seqs \in [Books -> Sequencers]  BY <1>1, Typing
  <2>2. [last |-> l, synced |-> FALSE] \in Sequencers  BY <1>4 DEF Sequencers
  <2> QED  BY <1>2, <1>4, <2>1, <2>2
<1>9. ASSUME NEW u \in Books
      PROVE  /\ Recording(disk[u], proc.runs, b[u])
             /\ disk[u][Hour] = NoFile \/ b[u].rows # << >>
             /\ Tip(PieceOf(disk[u], proc.runs, b[u].rows), seqs'[u])
  <2>1. CASE u = s  BY <1>5, <1>7, <1>8, <2>1
  <2>2. CASE u # s  BY <1>1, <1>7, <1>8, <2>2, SymbolFacts
  <2> QED  BY <2>1, <2>2
<1>10. socket.queue \in Seq(Events)  BY <1>1, Typing, SocketFields
<1>11. /\ disk' \in [Books -> [Hours -> DepthFiles]] /\ bufs' \in [Books -> Buffers]
       /\ meter' \in Meters /\ socket' \in [open : BOOLEAN, queue : Seq(Events)]
       /\ HoursInOrder' /\ NoFileKept' /\ Positioned' /\ AllRecorded'
  BY <1>1, <1>3, <1>6, <1>7, <1>9, <1>10, EventStep
<1>12. RecTypeOK'
  <2>1. book \in [Books -> Nat] /\ tick \in 0 .. MaxTick  BY <1>1, Typing
  <2>2. socket' \in Sockets  BY <1>11 DEF Sockets
  <2> QED  BY <1>1, <1>3, <1>8, <1>11, <2>1, <2>2, TypingNext
<1> QED  BY <1>11, <1>12, PartsNext

LEMMA HandleStep == ASSUME RecInv, Handle  PROVE RecInv'
<1> DEFINE e == Head(socket.queue)
           rest == Tail(socket.queue)
<1>1. /\ RecTypeOK /\ proc.at = "run" /\ book' = book /\ tick' = tick
      /\ tick \in 0 .. MaxTick /\ tick <= tick /\ socket.queue # << >>
  <2>1. RecTypeOK /\ tick \in 0 .. MaxTick  BY Parts, Typing
  <2>2. proc.at = "run" /\ socket.queue # << >>  BY DEF Handle
  <2>3. book' = book /\ tick' = tick  BY DEF Handle
  <2>4. tick \in Int  BY <2>1, ConstantTypes
  <2> QED  BY <2>1, <2>2, <2>3, <2>4
<1>2. socket \in Sockets /\ proc \in Procs /\ bufs \in [Books -> Buffers]
      /\ seqs \in [Books -> Sequencers]
  BY <1>1, Typing
<1>3. e \in Events /\ rest \in Seq(Events)  BY <1>1, <1>2, SocketFields
<1>4. ASSUME NEW u \in Books
      PROVE  /\ Recording(disk[u], proc.runs, bufs[u])
             /\ disk[u][Hour] = NoFile \/ bufs[u].rows # << >>
             /\ Tip(PieceOf(disk[u], proc.runs, bufs[u].rows), seqs[u])
  BY <1>1, SymbolFacts
<1>5. ASSUME EndOfEvent(bufs, rest), UNCHANGED <<proc, seqs>>  PROVE RecInv'
  <2>1. /\ disk' \in [Books -> [Hours -> DepthFiles]] /\ bufs' \in [Books -> Buffers]
        /\ meter' \in Meters /\ socket' \in [open : BOOLEAN, queue : Seq(Events)]
        /\ HoursInOrder' /\ NoFileKept' /\ Positioned' /\ AllRecorded'
    <3> HIDE DEF rest
    <3> QED  BY <1>1, <1>2, <1>3, <1>4, <1>5, EventStep
  <2>2. RecTypeOK'  BY <1>1, <1>2, <1>5, <2>1, Typing, TypingNext DEF Sockets
  <2> QED  BY <2>1, <2>2, PartsNext
<1>6. CASE e.sym = Nobody /\ EndOfEvent(bufs, rest) /\ UNCHANGED <<proc, seqs>>
  BY <1>5, <1>6
<1>7. CASE e.sym # Nobody
  <2> DEFINE s == e.sym
             verdict == Check(seqs[s], e.first, e.final)
  <2>1. s \in Books /\ e.first \in Int /\ e.final \in Int  BY <1>3, <1>7 DEF Events
  <2>2. CASE verdict = "skip" /\ EndOfEvent(bufs, rest) /\ UNCHANGED <<proc, seqs>>
    BY <1>5, <2>2
  <2>3. CASE /\ verdict = "apply"
             /\ seqs' = [seqs EXCEPT ![s] = Applied(e.final)]
             /\ EndOfEvent([bufs EXCEPT ![s].rows =
                              Append(@, [kind |-> "diff", first |-> e.first, final |-> e.final])],
                           rest)
             /\ UNCHANGED proc
    <3> DEFINE c == WithDiff(bufs[s], e.first, e.final)
               b == [bufs EXCEPT ![s] = c]
    <3>1. /\ c \in Buffers /\ c.rows # << >> /\ Recording(disk[s], proc.runs, c)
          /\ Tip(PieceOf(disk[s], proc.runs, c.rows), Applied(e.final))
      <4>1. disk[s] \in [Hours -> DepthFiles] /\ bufs[s] \in Buffers /\ seqs[s] \in Sequencers
        BY <2>1, SymbolFacts
      <4>2. verdict = "apply"  BY <2>3
      <4> HIDE DEF e, s
      <4> QED  BY <1>4, <2>1, <4>1, <4>2, DiffRecorded
    <3>2. EndOfEvent(b, rest)
      <4>1. b = [bufs EXCEPT ![s].rows =
                   Append(@, [kind |-> "diff", first |-> e.first, final |-> e.final])]
        BY DEF WithDiff, Row
      <4> QED  BY <2>3, <4>1
    <3> HIDE DEF c
    <3>3. b \in [Books -> Buffers] /\ b[s] = c /\ \A u \in Books \ {s} : b[u] = bufs[u]
      BY <1>2, <2>1, <3>1
    <3> HIDE DEF b
    <3>4. /\ seqs' \in [Books -> Sequencers] /\ seqs'[s] = Applied(e.final)
          /\ \A u \in Books \ {s} : seqs'[u] = seqs[u]
      <4>1. Applied(e.final) \in Sequencers  BY <2>1 DEF Applied, Sequencers
      <4> QED  BY <1>2, <2>1, <2>3, <4>1
    <3>5. ASSUME NEW u \in Books
          PROVE  /\ Recording(disk[u], proc.runs, b[u])
                 /\ disk[u][Hour] = NoFile \/ b[u].rows # << >>
                 /\ Tip(PieceOf(disk[u], proc.runs, b[u].rows), seqs'[u])
      <4>1. CASE u = s  BY <3>1, <3>3, <3>4, <4>1
      <4>2. CASE u # s  BY <1>4, <3>3, <3>4, <4>2
      <4> QED  BY <4>1, <4>2
    <3>6. /\ disk' \in [Books -> [Hours -> DepthFiles]] /\ bufs' \in [Books -> Buffers]
          /\ meter' \in Meters /\ socket' \in [open : BOOLEAN, queue : Seq(Events)]
          /\ HoursInOrder' /\ NoFileKept' /\ Positioned' /\ AllRecorded'
      <4>1. proc' = proc  BY <2>3
      <4> HIDE DEF rest
      <4> QED  BY <1>1, <1>3, <3>2, <3>3, <3>5, <4>1, EventStep
    <3>7. RecTypeOK'  BY <1>1, <1>2, <2>3, <3>4, <3>6, Typing, TypingNext DEF Sockets
    <3> QED  BY <3>6, <3>7, PartsNext
  <2>4. CASE /\ bufs' = [bufs EXCEPT ![s].gaps = @ + 1]
             /\ proc' = [proc EXCEPT !.await = s]
             /\ socket' = [socket EXCEPT !.queue = rest]
             /\ UNCHANGED <<seqs, meter, disk>>
    <3>1. /\ proc' \in Procs /\ proc'.at = proc.at /\ proc'.runs = proc.runs
      BY <1>2, <2>1, <2>4 DEF Procs
    <3>2. socket' \in Sockets  BY <1>2, <1>3, <2>4, SocketFields
    <3>3. /\ bufs' \in [Books -> Buffers]
          /\ \A u \in Books : bufs'[u].rows = bufs[u].rows /\ bufs'[u].resyncs = bufs[u].resyncs
      <4> DEFINE c == [bufs[s] EXCEPT !.gaps = @ + 1]
      <4>1. c \in Buffers /\ c.rows = bufs[s].rows /\ c.resyncs = bufs[s].resyncs
        <5> DEFINE a == bufs[s]
        <5>1. a \in Buffers /\ a.rows \in Seq(Rows)  BY <1>2, <2>1 DEF Buffers
        <5> HIDE DEF a
        <5>2. /\ [a EXCEPT !.gaps = @ + 1] \in Buffers
              /\ [a EXCEPT !.gaps = @ + 1].rows = a.rows
              /\ [a EXCEPT !.gaps = @ + 1].resyncs = a.resyncs
          BY <5>1, BufferFields
        <5> QED  BY <5>2 DEF a
      <4>2. bufs' = [bufs EXCEPT ![s] = c]  BY <2>4
      <4> HIDE DEF c
      <4> QED  BY <1>2, <2>1, <4>1, <4>2
    <3>4. RecTypeOK'  BY <1>1, <2>4, <3>1, <3>2, <3>3, Typing, TypingNext
    <3>5. HoursInOrder' /\ NoFileKept' /\ Positioned' /\ AllRecorded'
      BY <1>1, <2>4, <3>1, <3>3, QuietStep
    <3> QED  BY <3>4, <3>5, PartsNext
  <2> QED  BY <1>7, <2>2, <2>3, <2>4 DEF Handle
<1> QED  BY <1>6, <1>7 DEF Handle

-----------------------------------------------------------------------------
LEMMA Inductive == RecInv /\ [RecNext]_recVars => RecInv'
<1> SUFFICES ASSUME RecInv, [RecNext]_recVars  PROVE RecInv'  OBVIOUS
<1>1. CASE (\E s \in Books, n \in 1 .. 2 : Publish(s, n)) \/ Trade \/ Lose \/ Clock
  BY <1>1, OutsideStep
<1>2. CASE Start  BY <1>2, StartStep
<1>3. CASE Connect \/ ConnectFails \/ Break \/ Close \/ Stop  BY <1>3, LoopStep
<1>4. CASE Handle  BY <1>4, HandleStep
<1>5. CASE Resynced  BY <1>5, ResyncedStep
<1>6. CASE \E s \in Books : Resync(s)  BY <1>6, ResyncStep
<1>7. CASE \E s \in Books : ResyncFails(s)
  <2>1. proc.at \in {"boot", "backoff"}  BY <1>7 DEF ResyncFails
  <2> QED  BY <1>7, <2>1, LoopStep, EndStep
<1>8. CASE Leave \/ Crash  BY <1>8, EndStep
<1>9. CASE UNCHANGED recVars
  <2>1. UNCHANGED <<book, socket, proc, seqs, bufs, meter, disk, tick>>  BY <1>9 DEF recVars
  <2>2. RecTypeOK /\ tick \in 0 .. MaxTick /\ tick <= tick  BY Parts, ConstantTypes DEF RecTypeOK
  <2>3. RecTypeOK'  BY <2>1, <2>2, Typing, TypingNext
  <2>4. HoursInOrder' /\ NoFileKept' /\ Positioned' /\ AllRecorded'  BY <2>1, <2>2, QuietStep
  <2> QED  BY <2>3, <2>4, PartsNext
<1> QED  BY <1>1, <1>2, <1>3, <1>4, <1>5, <1>6, <1>7, <1>8, <1>9 DEF RecNext

\* A book can be rebuilt from the files and the buffer of every run, across
\* the turns of the hour, and every manifest describes the file beside it
\* (ftr/data/recorder.py: run(), DepthSequencer.check(), rotate()).
THEOREM RecordingsCanBeReplayed == RecSpec => []RecordingsReplay
<1>1. RecInv => RecordingsReplay  BY DEF RecInv
<1> QED  BY Initially, Inductive, <1>1, PTL DEF RecSpec

-----------------------------------------------------------------------------
(***************************************************************************)
(* From the sweep to the paper trader.                                     *)
(***************************************************************************)

\* A PASS on an accessible venue has a plateau gate behind it that was judged.
Sound(verdicts) ==
    \A p \in Profiles \cap Feasible :
        verdicts[p].verdict = "PASS" => verdicts[p].plateau # "skipped"

LabSound ==
    /\ "phase" \in DOMAIN lab
    /\ lab.phase = "swept" =>
         /\ DOMAIN lab = {"phase", "verdicts"}
         /\ DOMAIN lab.verdicts = Profiles /\ Sound(lab.verdicts)

ReportSound == DOMAIN report = {"ml", "trend"} /\ Sound(report["ml"])

RowsSound ==
    \A r \in rows :
        r.strategy = "ml" /\ r.verdict = "PASS" /\ r.profile \in Feasible => r.judged

Traders == [at : {"down", "idle", "tick"}, specs : SUBSET (Types \X Ids), todo : SUBSET (Types \X Ids),
            now : Nat, db : BOOLEAN, boots : Nat]

TradersTyped ==
    /\ trader \in Traders /\ trader.todo \subseteq trader.specs
    /\ file \subseteq Types \X Ids \X Profiles /\ minute \in Nat

\* What the trader holds and what it has decided has passed.
Backed(s) ==
    \E r \in rows : /\ r.strategy = s /\ r.verdict = "PASS" /\ r.profile \in Feasible
                    /\ s = "ml" => r.judged

PassedInv ==
    /\ trader.db => \A s \in trader.specs : Backed(s[2])
    /\ \A d \in decisions : Backed(d[2])

Gauntlet == LabSound /\ ReportSound /\ RowsSound /\ TradersTyped /\ PassedInv

-----------------------------------------------------------------------------
(* Every cell of the sweep has a neighbour. *)

\* No number lies between a threshold and the next one.
LEMMA NextThreshold ==
    ASSUME NEW a \in PMins
    PROVE  \E b \in PMins : b # a /\ Adjacent(PMins, a, b)
<1>1. PMins \subseteq Int /\ IsFiniteSet(PMins) /\ a \in Int  BY GridAssumption
<1> DEFINE Above == {s \in PMins : s > a}
           Below == {s \in PMins : s < a}
<1>2. Above \cup Below # {}
  <2>1. ASSUME PMins = {a}  PROVE FALSE
    <3>1. Cardinality({a}) = 1  BY FS_Singleton
    <3> QED  BY <2>1, <3>1, GridAssumption
  <2>2. PICK s \in PMins : s # a  BY <2>1
  <2>3. s > a \/ s < a  BY <1>1, <2>2
  <2> QED  BY <2>2, <2>3
<1>3. CASE Above # {}
  <2>1. PICK b \in Above : \A y \in Above : b <= y
    <3>1. Above \in SUBSET Int /\ IsFiniteSet(Above)  BY <1>1, FS_Subset
    <3> HIDE DEF Above
    <3> QED  BY <1>3, <3>1, MinOfFinite
  <2>2. {s \in PMins : (a < s /\ s <= b) \/ (b < s /\ s <= a)} = {b}
    <3>1. b \in PMins /\ b \in Int /\ a \in Int  BY <1>1, <2>1
    <3>2. ASSUME NEW s \in PMins
          PROVE  ((a < s /\ s <= b) \/ (b < s /\ s <= a)) <=> s = b
      <4>1. s \in Int  BY <1>1
      <4> QED  BY <2>1, <3>1, <4>1
    <3> QED  BY <3>1, <3>2
  <2>3. Cardinality({b}) = 1  BY FS_Singleton
  <2>4. Adjacent(PMins, a, b)  BY <2>2, <2>3 DEF Adjacent
  <2> QED  BY <1>1, <2>1, <2>4
<1>4. CASE Below # {}
  <2>1. PICK b \in Below : \A y \in Below : y <= b
    <3>1. Below \in SUBSET Int /\ IsFiniteSet(Below)  BY <1>1, FS_Subset
    <3> HIDE DEF Below
    <3> QED  BY <1>4, <3>1, MaxOfFinite
  <2>2. {s \in PMins : (a < s /\ s <= b) \/ (b < s /\ s <= a)} = {a}
    <3>1. b \in PMins /\ b \in Int /\ a \in Int  BY <1>1, <2>1
    <3>2. ASSUME NEW s \in PMins
          PROVE  ((a < s /\ s <= b) \/ (b < s /\ s <= a)) <=> s = a
      <4>1. s \in Int  BY <1>1
      <4> QED  BY <2>1, <3>1, <4>1
    <3> QED  BY <3>1, <3>2
  <2>3. Cardinality({a}) = 1  BY FS_Singleton
  <2>4. Adjacent(PMins, a, b)  BY <2>2, <2>3 DEF Adjacent
  <2> QED  BY <1>1, <2>1, <2>4
<1> QED  BY <1>2, <1>3, <1>4

\* The cells of the sweep with the same family and horizon.
LEMMA NeighbourExists ==
    ASSUME NEW prof, NEW cells, DOMAIN cells = Cells(prof), NEW c \in Cells(prof)
    PROVE  Neighbours(cells, c) # {}
<1>1. c[1] \in Families /\ c[2] \in Tried(prof) /\ c[3] \in PMins /\ c = <<c[1], c[2], c[3]>>
  BY DEF Cells
<1>2. PICK b \in PMins : b # c[3] /\ Adjacent(PMins, c[3], b)  BY <1>1, NextThreshold
<1> DEFINE d == <<c[1], c[2], b>>
<1>3. d \in Cells(prof) /\ d[1] = c[1] /\ d[2] = c[2] /\ d[3] = b /\ d # c
  BY <1>1, <1>2 DEF Cells
<1>4. Adjacent({x[2] : x \in DOMAIN cells}, c[2], c[2])
  <2> DEFINE S == {x[2] : x \in DOMAIN cells}
  <2>1. Tried(prof) \subseteq Int  BY GridAssumption DEF Tried
  <2>2. S \subseteq Int /\ c[2] \in Int  BY <1>1, <2>1 DEF Cells
  <2> HIDE DEF S
  <2>3. {s \in S : (c[2] < s /\ s <= c[2]) \/ (c[2] < s /\ s <= c[2])} = {}
    <3>1. ASSUME NEW s \in S  PROVE ~(c[2] < s /\ s <= c[2])
      <4>1. s \in Int /\ c[2] \in Int  BY <2>2
      <4> QED  BY <4>1
    <3> QED  BY <3>1
  <2>4. Cardinality({}) = 0  BY FS_EmptySet
  <2>5. Adjacent(S, c[2], c[2])  BY <2>3, <2>4 DEF Adjacent
  <2> QED  BY <2>5 DEF S
<1>5. d \in Neighbours(cells, c)  BY <1>2, <1>3, <1>4 DEF Neighbours, Comparable
<1> QED  BY <1>5

\* A verdict on a cell of the sweep is a PASS for a ratio above the floor only,
\* and such a cell has its plateau judged.
LEMMA PlateauJudged ==
    ASSUME NEW prof, NEW cells \in [Cells(prof) -> {NoTrades} \union Sharpes],
           NEW c \in Candidates(cells), NEW dear,
           NEW in \in Inputs(cells[c], PlateauOf(cells, c), dear),
           EvaluateGates(prof, in) = "PASS"
    PROVE  Verdict(prof, in).plateau # "skipped"
<1>1. c \in Cells(prof)  BY DEF Candidates, Bests
<1>2. in.level = cells[c] /\ in.plateau = PlateauOf(cells, c)  BY DEF Inputs
<1>3. cells[c] \in Int /\ ~(cells[c] < SharpeFloor)
  <2>1. cells[c] \in Int
    <3>1. NoTrades \in Int /\ \A x \in Sharpes : x \in Int  BY GridAssumption DEF NoTrades
    <3>2. cells[c] \in {NoTrades} \union Sharpes  BY <1>1
    <3> QED  BY <3>1, <3>2
  <2>2. ~(in.level < SharpeFloor)  BY DEF EvaluateGates
  <2> QED  BY <1>2, <2>1, <2>2
<1>4. ~(cells[c] <= 0)  BY <1>3 DEF SharpeFloor
<1>5. Neighbours(cells, c) # {}  BY <1>1, NeighbourExists
<1>6. PlateauOf(cells, c) # "skipped"  BY <1>4, <1>5 DEF PlateauOf
<1> QED  BY <1>2, <1>6 DEF Verdict

\* A cell that does not trade, and no candidate at all, is rejected.
LEMMA NoTradesRejected ==
    ASSUME NEW prof, NEW plateau, NEW dear, NEW in \in Inputs(NoTrades, plateau, dear)
    PROVE  Verdict(prof, in).verdict # "PASS"
<1>1. in.level = NoTrades  BY DEF Inputs
<1> QED  BY <1>1 DEF Verdict, EvaluateGates

-----------------------------------------------------------------------------
(* The steps of the research. *)

LEMMA JudgeStep ==
    ASSUME LabSound, NEW prof \in Profiles, JudgeMl(prof)
    PROVE  LabSound'
<1>1. /\ lab.phase = "swept" /\ DOMAIN lab = {"phase", "verdicts"}
      /\ DOMAIN lab.verdicts = Profiles /\ Sound(lab.verdicts)
  BY DEF LabSound, JudgeMl
<1>2. PICK v : /\ lab' = [lab EXCEPT !.verdicts[prof] = v]
               /\ v.verdict = "PASS" => v.plateau # "skipped"
  <2>1. PICK cells \in [Cells(prof) -> {NoTrades} \union Sharpes] :
          LET chosen == Candidates(cells)
          IN \/ /\ chosen = {}
                /\ \E in \in Inputs(NoTrades, "skipped", {"skipped"}) :
                      lab' = [lab EXCEPT !.verdicts[prof] = Verdict(prof, in)]
             \/ \E c \in chosen :
                \E in \in Inputs(cells[c], PlateauOf(cells, c), {"gain", "loss", "skipped"}) :
                      lab' = [lab EXCEPT !.verdicts[prof] = Verdict(prof, in)]
    BY DEF JudgeMl
  <2>2. CASE \E in \in Inputs(NoTrades, "skipped", {"skipped"}) :
                lab' = [lab EXCEPT !.verdicts[prof] = Verdict(prof, in)]
    <3>1. PICK in \in Inputs(NoTrades, "skipped", {"skipped"}) :
             lab' = [lab EXCEPT !.verdicts[prof] = Verdict(prof, in)]
      BY <2>2
    <3>2. Verdict(prof, in).verdict # "PASS"  BY NoTradesRejected
    <3> QED  BY <3>1, <3>2
  <2>3. CASE \E c \in Candidates(cells) :
             \E in \in Inputs(cells[c], PlateauOf(cells, c), {"gain", "loss", "skipped"}) :
                lab' = [lab EXCEPT !.verdicts[prof] = Verdict(prof, in)]
    <3>1. PICK c \in Candidates(cells) :
             \E in \in Inputs(cells[c], PlateauOf(cells, c), {"gain", "loss", "skipped"}) :
                lab' = [lab EXCEPT !.verdicts[prof] = Verdict(prof, in)]
      BY <2>3
    <3>2. PICK in \in Inputs(cells[c], PlateauOf(cells, c), {"gain", "loss", "skipped"}) :
             lab' = [lab EXCEPT !.verdicts[prof] = Verdict(prof, in)]
      BY <3>1
    <3>3. Verdict(prof, in).verdict = EvaluateGates(prof, in)  BY DEF Verdict
    <3>4. Verdict(prof, in).verdict = "PASS" => Verdict(prof, in).plateau # "skipped"
      BY <3>3, PlateauJudged
    <3> QED  BY <3>2, <3>4
  <2> QED  BY <2>1, <2>2, <2>3
<1>3. /\ DOMAIN lab' = {"phase", "verdicts"} /\ lab'.phase = "swept"
      /\ lab'.verdicts = [lab.verdicts EXCEPT ![prof] = v]
  BY <1>1, <1>2
<1>4. DOMAIN lab'.verdicts = Profiles  BY <1>1, <1>3
<1>5. ASSUME NEW p \in Profiles \cap Feasible, lab'.verdicts[p].verdict = "PASS"
      PROVE  lab'.verdicts[p].plateau # "skipped"
  <2>1. CASE p = prof
    <3>1. lab'.verdicts[p] = v  BY <1>1, <1>3, <2>1
    <3> QED  BY <1>2, <1>5, <3>1
  <2>2. CASE p # prof
    <3>1. lab'.verdicts[p] = lab.verdicts[p]  BY <1>1, <1>3, <2>2
    <3> QED  BY <1>1, <1>5, <3>1 DEF Sound
  <2> QED  BY <2>1, <2>2
<1>6. (Sound(lab.verdicts))'  BY <1>5 DEF Sound
<1> QED  BY <1>3, <1>4, <1>6 DEF LabSound

\* Outside of the sweep.
LEMMA OtherPhase ==
    ASSUME "phase" \in DOMAIN lab', lab'.phase # "swept"
    PROVE  LabSound'
  BY DEF LabSound

LEMMA ResearchStep ==
    ASSUME LabSound, ReportSound, LabNext
    PROVE  LabSound' /\ ReportSound'
<1>1. ASSUME UNCHANGED lab  PROVE LabSound'  BY <1>1 DEF LabSound, Sound
<1>2. ASSUME UNCHANGED report  PROVE ReportSound'  BY <1>2 DEF ReportSound, Sound
<1>3. CASE NextBar \/ FetchAll  BY <1>1, <1>2, <1>3 DEF NextBar, FetchAll
<1>4. ASSUME NEW h, NEW k, WalkForward(h, k)  PROVE LabSound' /\ ReportSound'
  <2>1. "phase" \in DOMAIN lab' /\ lab'.phase = "fitted"  BY <1>4 DEF WalkForward
  <2> QED  BY <1>2, <1>4, <2>1, OtherPhase DEF WalkForward
<1>5. ASSUME NEW p, Decide(p)  PROVE LabSound' /\ ReportSound'
  <2>1. "phase" \in DOMAIN lab' /\ lab'.phase = "decided"  BY <1>5 DEF Decide
  <2> QED  BY <1>2, <1>5, <2>1, OtherPhase DEF Decide
<1>6. ASSUME NEW p \in Profiles, JudgeMl(p)  PROVE LabSound' /\ ReportSound'
  BY <1>2, <1>6, JudgeStep DEF JudgeMl
<1>7. CASE Ablate
  <2>1. "phase" \in DOMAIN lab /\ lab.phase = "decided"  BY <1>7 DEF Ablate, LabSound
  <2>2. "phase" \in DOMAIN lab' /\ lab'.phase = "decided"  BY <1>7, <2>1 DEF Ablate
  <2> QED  BY <1>2, <1>7, <2>2, OtherPhase DEF Ablate
<1>8. CASE Sweep
  <2>1. lab' = [phase |-> "swept", verdicts |-> Unreported]  BY <1>8 DEF Sweep
  <2>2. /\ DOMAIN lab' = {"phase", "verdicts"} /\ lab'.verdicts = Unreported
        /\ DOMAIN Unreported = Profiles
    BY <2>1 DEF Unreported
  <2>3. \A p \in Profiles : Unreported[p].verdict # "PASS"  BY DEF Unreported, Unjudged
  <2>4. (Sound(lab.verdicts))'  BY <2>2, <2>3 DEF Sound
  <2>5. LabSound'  BY <2>2, <2>4 DEF LabSound
  <2> QED  BY <1>2, <1>8, <2>5 DEF Sweep
<1>9. CASE ReportMl
  <2>1. "phase" \in DOMAIN lab' /\ lab'.phase # "swept"  BY <1>9 DEF ReportMl, Idle
  <2>2. Sound(lab.verdicts) /\ report' = [report EXCEPT !["ml"] = lab.verdicts]
    BY <1>9 DEF ReportMl, LabSound
  <2>3. DOMAIN report' = {"ml", "trend"} /\ report'["ml"] = lab.verdicts
    BY <2>2 DEF ReportSound
  <2>4. (Sound(report["ml"]))'  BY <2>2, <2>3 DEF Sound
  <2> QED  BY <2>1, <2>3, <2>4, OtherPhase DEF ReportSound
<1>10. CASE TrendGrid
  <2>1. "phase" \in DOMAIN lab' /\ lab'.phase = "grid"  BY <1>10 DEF TrendGrid
  <2> QED  BY <1>2, <1>10, <2>1, OtherPhase DEF TrendGrid
<1>11. CASE TrendValidation
  <2>1. "phase" \in DOMAIN lab' /\ lab'.phase = "trend"  BY <1>11 DEF TrendValidation
  <2> QED  BY <1>2, <1>11, <2>1, OtherPhase DEF TrendValidation
<1>12. CASE ReportTrend
  <2>1. "phase" \in DOMAIN lab' /\ lab'.phase # "swept"  BY <1>12 DEF ReportTrend, Idle
  <2>2. PICK verdicts : report' = [report EXCEPT !["trend"] = verdicts]
    BY <1>12 DEF ReportTrend
  <2>3. DOMAIN report' = {"ml", "trend"} /\ report'["ml"] = report["ml"]
    BY <2>2 DEF ReportSound
  <2>4. (Sound(report["ml"]))'  BY <2>3 DEF Sound, ReportSound
  <2> QED  BY <2>1, <2>3, <2>4, OtherPhase DEF ReportSound
<1> QED
  BY <1>3, <1>4, <1>5, <1>6, <1>7, <1>8, <1>9, <1>10, <1>11, <1>12 DEF LabNext

-----------------------------------------------------------------------------
(* The steps of the operator and the trader. *)

LEMMA RowsStep ==
    ASSUME ReportSound, RowsSound, NEW n, NEW s, InsertVerdictRows(n, s)
    PROVE  RowsSound' /\ rows \subseteq rows'
<1>1. ASSUME NEW p \in Profiles, s = "ml", report[s][p].verdict = "PASS", p \in Feasible
      PROVE  report[s][p].plateau # "skipped"
  BY <1>1 DEF ReportSound, Sound
<1>2. ASSUME NEW r \in rows', r.strategy = "ml", r.verdict = "PASS", r.profile \in Feasible
      PROVE  r.judged
  <2>1. CASE r \in rows  BY <1>2, <2>1 DEF RowsSound
  <2>2. CASE r \notin rows
    <3>1. PICK p \in Profiles :
            r = [stamp |-> n, strategy |-> s, profile |-> p, verdict |-> report[s][p].verdict,
                 judged |-> report[s][p].plateau # "skipped"]
      BY <1>2, <2>2 DEF InsertVerdictRows
    <3>2. s = "ml" /\ report[s][p].verdict = "PASS" /\ p \in Feasible  BY <1>2, <3>1
    <3>3. report[s][p].plateau # "skipped"  BY <1>1, <3>2
    <3>4. r.judged = (report[s][p].plateau # "skipped")  BY <3>1
    <3> QED  BY <3>3, <3>4
  <2> QED  BY <2>1, <2>2
<1> QED  BY <1>2 DEF RowsSound, InsertVerdictRows

\* Rows are never removed, so that what was backed stays so.
LEMMA StaysPassed ==
    ASSUME PassedInv, rows \subseteq rows', decisions' = decisions,
           trader'.db => trader.db /\ trader'.specs \subseteq trader.specs
    PROVE  PassedInv'
<1>1. ASSUME NEW s, Backed(s)  PROVE Backed(s)'  BY <1>1 DEF Backed
<1> QED  BY <1>1 DEF PassedInv

LEMMA BootStep ==
    ASSUME RowsSound, TradersTyped, PassedInv, NEW db \in BOOLEAN, Boot(db)
    PROVE  TradersTyped' /\ PassedInv'
<1>1. UNCHANGED <<rows, file, minute, decisions>>  BY DEF Boot
<1>2. trader \in Traders /\ trader.boots + 1 \in Nat  BY DEF TradersTyped, Traders
<1>3. CASE trader' = [trader EXCEPT !.boots = @ + 1]
  <2>1. trader' \in Traders /\ trader'.todo = trader.todo /\ trader'.specs = trader.specs
        /\ trader'.db = trader.db
    BY <1>2, <1>3 DEF Traders
  <2>2. TradersTyped'  BY <1>1, <2>1 DEF TradersTyped
  <2> QED  BY <1>1, <2>1, <2>2, StaysPassed
<1>4. CASE (\A d \in file : ~Refused(d, db)) /\
           trader' = [at |-> "idle", specs |-> {<<d[1], d[2]>> : d \in file}, todo |-> {},
                      now |-> 0, db |-> db, boots |-> trader.boots + 1]
  <2>1. {<<d[1], d[2]>> : d \in file} \subseteq Types \X Ids  BY DEF TradersTyped
  <2>2. trader' \in Traders /\ trader'.todo = {} /\ trader'.specs = {<<d[1], d[2]>> : d \in file}
        /\ (trader'.db <=> db)
    BY <1>2, <1>4, <2>1 DEF Traders
  <2>3. TradersTyped'  BY <1>1, <2>2 DEF TradersTyped
  <2>4. ASSUME db, NEW s \in trader'.specs  PROVE Backed(s[2])'
    <3>1. PICK d \in file : s = <<d[1], d[2]>>  BY <2>2, <2>4
    <3>2. HasPassVerdict(s[2])  BY <1>4, <2>4, <3>1 DEF Refused
    <3>3. PICK r \in rows : r.strategy = s[2] /\ r.verdict = "PASS" /\ r.profile \in Feasible
      BY <3>2 DEF HasPassVerdict
    <3>4. s[2] = "ml" => r.judged  BY <3>3 DEF RowsSound
    <3> QED  BY <1>1, <3>3, <3>4 DEF Backed
  <2>5. ASSUME NEW d \in decisions  PROVE Backed(d[2])'
    <3>1. Backed(d[2])  BY <2>5 DEF PassedInv
    <3> QED  BY <1>1, <3>1 DEF Backed
  <2> QED  BY <1>1, <2>2, <2>3, <2>4, <2>5 DEF PassedInv
<1> QED  BY <1>3, <1>4 DEF Boot

LEMMA TraderEnds ==
    ASSUME TradersTyped, PassedInv, TraderStops \/ TraderCrashes
    PROVE  TradersTyped' /\ PassedInv'
<1>1. trader' = [Down EXCEPT !.boots = trader.boots] /\ UNCHANGED <<rows, file, minute, decisions>>
  BY DEF TraderStops, TraderCrashes
<1>2. trader' \in Traders /\ trader'.specs = {} /\ trader'.todo = {} /\ ~trader'.db
  BY <1>1 DEF TradersTyped, Traders, Down
<1>3. TradersTyped'  BY <1>1, <1>2 DEF TradersTyped
<1> QED  BY <1>1, <1>2, <1>3, StaysPassed

LEMMA TickStep ==
    ASSUME TradersTyped, PassedInv, TickStarts \/ Evaluate \/ Snapshot \/ TickFails
    PROVE  TradersTyped' /\ PassedInv'
<1>1. trader \in Traders /\ minute \in Nat /\ trader.todo \subseteq trader.specs
  BY DEF TradersTyped
<1>2. UNCHANGED <<rows, file, minute>>
  BY DEF TickStarts, Evaluate, Snapshot, TickFails
<1>3. /\ trader' \in Traders /\ trader'.specs = trader.specs /\ (trader'.db <=> trader.db)
      /\ trader'.todo \subseteq trader.specs
  <2>1. CASE TickStarts
    <3>1. PICK marked \in SUBSET {s \in trader.specs : s[1] = "ml"} :
             trader' = [trader EXCEPT !.at = "tick", !.todo = marked, !.now = minute]
      BY <2>1 DEF TickStarts
    <3>2. marked \in SUBSET (Types \X Ids)  BY <1>1 DEF Traders
    <3> QED  BY <1>1, <3>1, <3>2 DEF Traders
  <2>2. CASE Evaluate  BY <1>1, <2>2 DEF Evaluate, Traders
  <2>3. CASE Snapshot  BY <1>1, <2>3 DEF Snapshot, Traders
  <2>4. CASE TickFails  BY <1>1, <2>4 DEF TickFails, Traders
  <2> QED  BY <2>1, <2>2, <2>3, <2>4
<1>4. TradersTyped'  BY <1>2, <1>3 DEF TradersTyped
<1>5. ASSUME NEW d \in decisions'  PROVE Backed(d[2])
  <2>1. CASE d \in decisions  BY <2>1 DEF PassedInv
  <2>2. CASE d \notin decisions
    <3>1. trader.db /\ decisions' = decisions \union {<<trader.now, s[2]>> : s \in trader.todo}
      BY <1>5, <2>2 DEF TickStarts, Evaluate, Snapshot, TickFails, InsertDecisions
    <3>2. PICK s \in trader.todo : d = <<trader.now, s[2]>>  BY <1>5, <2>2, <3>1
    <3>3. s \in trader.specs /\ d[2] = s[2]  BY <1>1, <3>2
    <3> QED  BY <3>1, <3>3 DEF PassedInv
  <2> QED  BY <2>1, <2>2
<1>6. (trader'.db => \A s \in trader'.specs : Backed(s[2])) /\ \A d \in decisions' : Backed(d[2])
  BY <1>3, <1>5 DEF PassedInv
<1>7. PassedInv'
  <2>1. ASSUME NEW s, Backed(s)  PROVE Backed(s)'  BY <1>2, <2>1 DEF Backed
  <2> QED  BY <1>6, <2>1 DEF PassedInv
<1> QED  BY <1>4, <1>7

LEMMA TradingStep ==
    ASSUME ReportSound, RowsSound, TradersTyped, PassedInv, TrdNext
    PROVE  RowsSound' /\ TradersTyped' /\ PassedInv'
<1>1. ASSUME UNCHANGED rows  PROVE RowsSound'  BY <1>1 DEF RowsSound
<1>2. ASSUME UNCHANGED <<trader, decisions>>, rows \subseteq rows'  PROVE PassedInv'
  BY <1>2, StaysPassed
<1>3. ASSUME NEW n, NEW s, InsertVerdictRows(n, s)
      PROVE  RowsSound' /\ TradersTyped' /\ PassedInv'
  BY <1>2, <1>3, RowsStep DEF InsertVerdictRows, TradersTyped
<1>4. ASSUME NEW f \in Files, WriteFile(f)  PROVE RowsSound' /\ TradersTyped' /\ PassedInv'
  <2>1. f \subseteq Types \X Ids \X Profiles  BY TraderAssumption
  <2> QED  BY <1>1, <1>2, <1>4, <2>1 DEF WriteFile, TradersTyped
<1>5. CASE KillSwitch  BY <1>1, <1>2, <1>5 DEF KillSwitch, TradersTyped
<1>6. ASSUME NEW db \in BOOLEAN, Boot(db)  PROVE RowsSound' /\ TradersTyped' /\ PassedInv'
  BY <1>1, <1>6, BootStep DEF Boot
<1>7. CASE TraderStops \/ TraderCrashes
  BY <1>1, <1>7, TraderEnds DEF TraderStops, TraderCrashes
<1>8. CASE TickStarts \/ Evaluate \/ Snapshot \/ TickFails
  BY <1>1, <1>8, TickStep DEF TickStarts, Evaluate, Snapshot, TickFails
<1>9. CASE Minute
  <2>1. minute' \in Nat  BY <1>9 DEF Minute, TradersTyped
  <2> QED  BY <1>1, <1>2, <1>9, <2>1 DEF Minute, TradersTyped
<1> QED  BY <1>3, <1>4, <1>5, <1>6, <1>7, <1>8, <1>9 DEF TrdNext

-----------------------------------------------------------------------------
LEMMA GauntletStarts == LabInit /\ TrdInit => Gauntlet
<1> SUFFICES ASSUME LabInit, TrdInit  PROVE Gauntlet  OBVIOUS
<1>1. LabSound  BY DEF LabInit, LabSound, Idle
<1>2. ReportSound
  <2>1. DOMAIN report = {"ml", "trend"} /\ report["ml"] = Unreported  BY DEF LabInit
  <2>2. \A p \in Profiles : Unreported[p].verdict # "PASS"  BY DEF Unreported, Unjudged
  <2> QED  BY <2>1, <2>2 DEF ReportSound, Sound
<1>3. RowsSound /\ TradersTyped /\ PassedInv
  BY DEF TrdInit, RowsSound, TradersTyped, Traders, Down, PassedInv
<1> QED  BY <1>1, <1>2, <1>3 DEF Gauntlet

LEMMA GauntletStep ==
    ASSUME Gauntlet,
           [(LabNext /\ UNCHANGED trdVars) \/ (TrdNext /\ UNCHANGED labVars)]_<<labVars, trdVars>>
    PROVE  Gauntlet'
<1>1. ASSUME UNCHANGED labVars  PROVE LabSound' /\ ReportSound'
  BY <1>1 DEF labVars, Gauntlet, LabSound, ReportSound, Sound
<1>2. ASSUME UNCHANGED trdVars  PROVE RowsSound' /\ TradersTyped' /\ PassedInv'
  BY <1>2 DEF trdVars, Gauntlet, RowsSound, TradersTyped, PassedInv, Backed
<1>3. CASE LabNext /\ UNCHANGED trdVars  BY <1>2, <1>3, ResearchStep DEF Gauntlet
<1>4. CASE TrdNext /\ UNCHANGED labVars  BY <1>1, <1>4, TradingStep DEF Gauntlet
<1>5. CASE UNCHANGED <<labVars, trdVars>>  BY <1>1, <1>2, <1>5 DEF Gauntlet
<1> QED  BY <1>3, <1>4, <1>5

\* The trader deploys and decides for strategies only whose gauntlet was passed
\* on an accessible venue with its plateau judged (ftr/validation/runner.py and
\* gates.py, ftr/trader/runner.py: load_deployments, tick()), for every grid,
\* profile and report, and however often verdicts are published or the trader
\* restarted.
THEOREM OnlyPassedIsDeployed == FtrSpec => []DeployedPassedGauntlet
<1>1. Gauntlet => DeployedPassedGauntlet
  BY DEF Gauntlet, PassedInv, Backed, DeployedPassedGauntlet
<1>2. Gauntlet /\ [(LabNext /\ UNCHANGED trdVars) \/ (TrdNext /\ UNCHANGED labVars)]_<<labVars, trdVars>>
        => Gauntlet'
  BY GauntletStep
<1> QED  BY GauntletStarts, <1>1, <1>2, PTL DEF FtrSpec
-----------------------------------------------------------------------------
(***************************************************************************)
(* From the exchange's candles to the labels of a fold.                    *)
(***************************************************************************)

\* The members of S in their order.
Increasing(q, S) ==
    /\ q \in [1 .. Cardinality(S) -> S] /\ q \in Seq(S) /\ Len(q) = Cardinality(S)
    /\ \A i, j \in 1 .. Cardinality(S) : i < j => q[i] < q[j]
    /\ \A x \in S : \E i \in 1 .. Cardinality(S) : q[i] = x

\* Sorting by rank.
LEMMA SortedIsIncreasing ==
    ASSUME NEW S \in SUBSET Int, IsFiniteSet(S)
    PROVE  Cardinality(S) \in Nat /\ Increasing(Sorted(S), S)
<1> DEFINE Below(x) == {y \in S : y < x}
           n == Cardinality(S)
           rank == [x \in S |-> Cardinality(Below(x)) + 1]
           q == Sorted(S)
<1>1. n \in Nat  BY FS_CardinalityType
<1>2. ASSUME NEW T, T \subseteq S  PROVE IsFiniteSet(T) /\ Cardinality(T) \in Nat
  BY <1>2, FS_Subset, FS_CardinalityType
<1>3. ASSUME NEW x \in S, NEW y \in S, x < y  PROVE rank[x] < rank[y]
  <2>1. x \in Int /\ y \in Int /\ S \subseteq Int  OBVIOUS
  <2>2. x \in Below(y) /\ x \notin Below(x)  BY <1>3, <2>1
  <2>3. Below(x) \subseteq Below(y)
    <3> SUFFICES ASSUME NEW z \in S, z < x  PROVE z < y  OBVIOUS
    <3>1. z \in Int  BY <2>1
    <3> QED  BY <1>3, <2>1, <3>1
  <2>4. Below(x) \cup {x} \subseteq Below(y)  BY <2>2, <2>3
  <2>5. Below(x) \subseteq S /\ Below(y) \subseteq S  OBVIOUS
  <2>6. rank[x] = Cardinality(Below(x)) + 1 /\ rank[y] = Cardinality(Below(y)) + 1  OBVIOUS
  <2> HIDE DEF Below, rank
  <2>7. IsFiniteSet(Below(x)) /\ IsFiniteSet(Below(y))
        /\ Cardinality(Below(x)) \in Nat /\ Cardinality(Below(y)) \in Nat
    BY <1>2, <2>5
  <2>8. Cardinality(Below(x) \cup {x}) = Cardinality(Below(x)) + 1  BY <2>2, <2>7, FS_AddElement
  <2>9. Cardinality(Below(x) \cup {x}) <= Cardinality(Below(y))  BY <2>4, <2>7, FS_Subset
  <2> QED  BY <2>6, <2>7, <2>8, <2>9
<1>4. \A x \in S : rank[x] \in 1 .. n
  <2> TAKE x \in S
  <2>1. x \in Int  OBVIOUS
  <2>2. Below(x) \subseteq S \ {x} /\ Below(x) \subseteq S  BY <2>1
  <2>3. rank[x] = Cardinality(Below(x)) + 1  OBVIOUS
  <2> HIDE DEF Below, rank
  <2>4. IsFiniteSet(S \ {x}) /\ Cardinality(S \ {x}) = n - 1  BY FS_RemoveElement
  <2>5. Cardinality(Below(x)) <= n - 1  BY <2>2, <2>4, FS_Subset
  <2>6. Cardinality(Below(x)) \in Nat  BY <1>2, <2>2
  <2> QED  BY <1>1, <2>3, <2>5, <2>6
<1>5. rank \in Injection(S, 1 .. n)
  <2>1. rank \in [S -> 1 .. n]
    <3>1. DOMAIN rank = S  OBVIOUS
    <3> QED  BY <1>4
  <2>2. ASSUME NEW x \in S, NEW y \in S, x # y  PROVE rank[x] # rank[y]
    <3>1. x \in Int /\ y \in Int  OBVIOUS
    <3>2. x < y \/ y < x  BY <2>2, <3>1
    <3>3. rank[x] \in Int /\ rank[y] \in Int  BY <1>1, <1>4
    <3>4. rank[x] < rank[y] \/ rank[y] < rank[x]
      <4> HIDE DEF rank
      <4> QED  BY <1>3, <3>2
    <3> HIDE DEF rank
    <3> QED  BY <3>3, <3>4
  <2> HIDE DEF rank
  <2> QED  BY <2>1, <2>2 DEF Injection, IsInjective
<1>6. rank \in Surjection(S, 1 .. n)
  <2>1. IsFiniteSet(1 .. n) /\ Cardinality(1 .. n) = n  BY <1>1, FS_Interval
  <2> HIDE DEF rank
  <2> QED  BY <1>5, <2>1, FS_Injection
<1>7. \A i \in 1 .. n : \E x \in S : rank[x] = i  BY <1>6 DEF Surjection
<1>8. /\ \A i \in 1 .. n : q[i] \in S /\ rank[q[i]] = i
      /\ DOMAIN q = 1 .. n /\ q = [i \in 1 .. n |-> q[i]]
  <2>1. \A i \in 1 .. n : \E x \in S : Cardinality(Below(x)) = i - 1
    <3> TAKE i \in 1 .. n
    <3>1. PICK x \in S : rank[x] = i  BY <1>7
    <3>2. rank[x] = Cardinality(Below(x)) + 1  OBVIOUS
    <3>3. Cardinality(Below(x)) \in Nat
      <4>1. Below(x) \subseteq S  OBVIOUS
      <4> QED  BY <1>2, <4>1
    <3> HIDE DEF rank, Below
    <3>4. Cardinality(Below(x)) = i - 1  BY <3>1, <3>2, <3>3
    <3> QED  BY <3>4
  <2>2. q = [i \in 1 .. n |-> CHOOSE x \in S : Cardinality(Below(x)) = i - 1]  BY DEF Sorted
  <2> HIDE DEF q, Below
  <2>3. \A i \in 1 .. n : q[i] \in S /\ Cardinality(Below(q[i])) = i - 1  BY <2>1, <2>2
  <2>4. \A x \in S : rank[x] = Cardinality(Below(x)) + 1  OBVIOUS
  <2> HIDE DEF rank
  <2>5. \A i \in 1 .. n : rank[q[i]] = i
    <3> TAKE i \in 1 .. n
    <3>1. q[i] \in S /\ Cardinality(Below(q[i])) = i - 1  BY <2>3
    <3>2. rank[q[i]] = Cardinality(Below(q[i])) + 1  BY <2>4, <3>1
    <3>3. i \in Int  BY <1>1
    <3> QED  BY <3>1, <3>2, <3>3
  <2> QED  BY <2>2, <2>3, <2>5
<1> HIDE DEF q, rank
<1>9. q \in [1 .. n -> S]  BY <1>8
<1>10. \A i, j \in 1 .. n : i < j => q[i] < q[j]
  <2> SUFFICES ASSUME NEW i \in 1 .. n, NEW j \in 1 .. n, i < j, ~(q[i] < q[j])  PROVE FALSE
    OBVIOUS
  <2>1. q[i] \in S /\ q[j] \in S /\ rank[q[i]] = i /\ rank[q[j]] = j  BY <1>8
  <2>2. q[i] \in Int /\ q[j] \in Int  BY <2>1
  <2>3. CASE q[i] = q[j]  BY <2>1, <2>3
  <2>4. CASE q[j] < q[i]
    <3>1. rank[q[j]] < rank[q[i]]  BY <1>3, <2>1, <2>4
    <3> QED  BY <2>1, <3>1
  <2> QED  BY <2>2, <2>3, <2>4
<1>11. \A x \in S : \E i \in 1 .. n : q[i] = x
  <2> TAKE x \in S
  <2> DEFINE i == rank[x]
  <2>1. i \in 1 .. n  BY <1>4
  <2>2. q[i] \in S /\ rank[q[i]] = rank[x]  BY <1>8, <2>1
  <2>3. q[i] = x  BY <1>5, <2>2 DEF Injection, IsInjective
  <2> QED  BY <2>1, <2>3
<1>12. q \in Seq(S) /\ Len(q) = n
  <2>1. q \in Seq(S)  BY <1>1, <1>9, SeqDef
  <2> QED  BY <1>1, <1>9, <2>1
<1> QED  BY <1>1, <1>9, <1>10, <1>11, <1>12 DEF Increasing, q
-----------------------------------------------------------------------------
(* Pages of candles. *)

Later(c) == {t \in Listed : t >= c}
CandlesOf(c, end) == {t \in Later(c) : t < end}

LEMMA ListedType ==
    ASSUME now \in Nat, NEW T, T \subseteq Listed
    PROVE  IsFiniteSet(T) /\ T \in SUBSET Int /\ T \subseteq Nat /\ (\A t \in T : t <= now)
<1>1. IsFiniteSet(0 .. now)  BY FS_Interval
<1>2. T \subseteq 0 .. now  BY DEF Listed
<1>3. IsFiniteSet(T)  BY <1>1, <1>2, FS_Subset
<1> QED  BY <1>2, <1>3

\* A page is the first candles of those behind its cursor, all of them unless
\* it is full.
LEMMA Pages ==
    ASSUME now \in Nat, NEW c \in Nat
    PROVE  /\ Page(c) \subseteq Later(c)
           /\ Page(c) = {} => Later(c) = {}
           /\ Cardinality(Page(c)) < PageLimit => Page(c) = Later(c)
           /\ Page(c) # {} =>
                /\ Max(Page(c)) \in Page(c)
                /\ \A t \in Later(c) : t \in Page(c) <=> t <= Max(Page(c))
<1> DEFINE A == Later(c)
           q == Sorted(A)
           n == Cardinality(A)
           m == Min({PageLimit, n})
           P == {q[i] : i \in 1 .. m}
<1>1. A \in SUBSET Int /\ IsFiniteSet(A)
  <2>1. A \subseteq Listed  BY DEF Later
  <2> QED  BY <2>1, ListedType
<1> HIDE DEF A
<1>2. n \in Nat /\ Increasing(q, A)  BY <1>1, SortedIsIncreasing
<1> HIDE DEF q
<1>3. /\ q \in Seq(A) /\ Len(q) = n /\ \A i \in 1 .. n : q[i] \in A /\ q[i] \in Int
      /\ \A i, j \in 1 .. n : i < j => q[i] < q[j]
      /\ \A x \in A : \E i \in 1 .. n : q[i] = x
  BY <1>1, <1>2 DEF Increasing
<1>4. PageLimit \in Nat /\ PageLimit > 0  BY FoldAssumption
<1>5. m \in 0 .. n /\ m <= PageLimit /\ (m = n \/ m = PageLimit)
  <2>1. CASE PageLimit <= n
    <3>1. {PageLimit, n} \in SUBSET Int /\ PageLimit \in {PageLimit, n}
          /\ \A y \in {PageLimit, n} : PageLimit <= y
      BY <1>2, <1>4, <2>1
    <3>2. m = PageLimit
      <4> HIDE DEF n
      <4> QED  BY <3>1, MinIs
    <3> QED  BY <1>2, <1>4, <2>1, <3>2
  <2>2. CASE ~(PageLimit <= n)
    <3>1. {PageLimit, n} \in SUBSET Int /\ n \in {PageLimit, n}
          /\ \A y \in {PageLimit, n} : n <= y
      BY <1>2, <1>4, <2>2
    <3>2. m = n
      <4> HIDE DEF n
      <4> QED  BY <3>1, MinIs
    <3> QED  BY <1>2, <1>4, <2>2, <3>2
  <2> QED  BY <2>1, <2>2
<1>6. Page(c) = P
  <2>1. Page(c) = ToSet(SubSeq(q, 1, m))
    <3>1. Page(c) = ToSet(SubSeq(q, 1, Min({PageLimit, Len(q)})))  BY DEF Page, q, A, Later
    <3> QED  BY <1>3, <3>1
  <2> HIDE DEF m, n
  <2>2. /\ DOMAIN SubSeq(q, 1, m) = 1 .. m
        /\ \A i \in 1 .. m : SubSeq(q, 1, m)[i] = q[i]
    BY <1>2, <1>3, <1>5
  <2> QED  BY <2>1, <2>2 DEF ToSet
<1> HIDE DEF m, n
<1>7. P \subseteq A /\ P \in SUBSET Int /\ IsFiniteSet(P)
  <2>1. P \subseteq A  BY <1>2, <1>3, <1>5
  <2> QED  BY <1>1, <2>1, FS_Subset
<1>8. Cardinality(P) = m
  <2> DEFINE f == [i \in 1 .. m |-> q[i]]
  <2>1. f \in Bijection(1 .. m, P)
    <3>1. \A i, j \in 1 .. m : f[i] = f[j] => i = j
      <4> SUFFICES ASSUME NEW i \in 1 .. m, NEW j \in 1 .. m, q[i] = q[j], i # j  PROVE FALSE
        OBVIOUS
      <4>1. i \in 1 .. n /\ j \in 1 .. n /\ i \in Int /\ j \in Int /\ q[i] \in Int
        BY <1>2, <1>3, <1>5
      <4>2. i < j \/ j < i  BY <4>1
      <4> QED  BY <1>3, <4>1, <4>2
    <3> QED  BY <3>1 DEF Bijection, Injection, Surjection, IsInjective
  <2>2. IsFiniteSet(1 .. m) /\ Cardinality(1 .. m) = m  BY <1>2, <1>5, FS_Interval
  <2> HIDE DEF f
  <2> QED  BY <2>1, <2>2, FS_Bijection DEF ExistsBijection
<1>9. m = n => P = A
  <2>1. ASSUME m = n, NEW x \in A  PROVE x \in P  BY <1>3, <2>1
  <2> QED  BY <1>7, <2>1
<1>10. ASSUME P = {}  PROVE A = {}
  <2>1. m = 0
    <3>1. Cardinality(P) = 0  BY <1>10, FS_EmptySet
    <3> QED  BY <1>8, <3>1
  <2> QED  BY <1>4, <1>5, <1>9, <1>10, <2>1
<1>11. ASSUME Cardinality(P) < PageLimit  PROVE P = A
  BY <1>4, <1>5, <1>8, <1>9, <1>11
<1>12. ASSUME P # {}
       PROVE  Max(P) \in P /\ \A t \in A : t \in P <=> t <= Max(P)
  <2>1. Max(P) \in P /\ \A y \in P : y <= Max(P)  BY <1>7, <1>12, MaxOfFinite
  <2>2. PICK j \in 1 .. m : Max(P) = q[j]  BY <2>1
  <2>3. ASSUME NEW t \in A, t <= Max(P)  PROVE t \in P
    <3>1. PICK i \in 1 .. n : q[i] = t  BY <1>3
    <3>2. i \in Int /\ j \in 1 .. n /\ j \in Int /\ j <= m /\ m \in Int  BY <1>2, <1>5
    <3>3. q[i] \in Int /\ q[j] \in Int  BY <1>3, <3>2
    <3>4. ~(j < i)
      <4> SUFFICES ASSUME j < i  PROVE FALSE  OBVIOUS
      <4>1. q[j] < q[i]  BY <1>3, <3>2
      <4>2. q[i] <= q[j]  BY <2>2, <2>3, <3>1
      <4> QED  BY <3>3, <4>1, <4>2
    <3>5. i \in 1 .. m  BY <1>2, <3>2, <3>4
    <3> QED  BY <3>1, <3>5
  <2> QED  BY <2>1, <2>3
<1> HIDE DEF P
<1> QED  BY <1>6, <1>7, <1>10, <1>11, <1>12 DEF A
\* What is read behind a cursor: a page, and what g reads behind it.
Reading(g, c, end) ==
    IF c >= end THEN {}
    ELSE IF Page(c) = {} THEN {}
    ELSE {t \in Page(c) : t < end}
            \cup (IF Cardinality(Page(c)) < PageLimit THEN {} ELSE g[Max(Page(c)) + 1])

Walking(g, end) == g = [c \in 0 .. (MaxNow + 2) |-> Reading(g, c, end)]

LEMMA ReadingIsAll ==
    ASSUME now \in 0 .. MaxNow, NEW c \in 0 .. (MaxNow + 2), NEW end \in Nat, NEW g,
           \A d \in 0 .. (MaxNow + 2) : d > c => g[d] = CandlesOf(d, end)
    PROVE  Reading(g, c, end) = CandlesOf(c, end)
<1> DEFINE A == Later(c)
           B == Page(c)
<1>1. MaxNow \in Nat /\ now \in Nat /\ now <= MaxNow /\ c \in Nat  BY FoldAssumption
<1>2. A = {t \in Listed : t >= c} /\ A \subseteq Nat /\ \A t \in Listed : t \in Nat /\ t <= now
  <2>1. A \subseteq Listed /\ Listed \subseteq Listed  BY DEF Later
  <2> QED  BY <1>1, <2>1, ListedType DEF Later
<1>3. B \subseteq A  BY <1>1, Pages
<1>4. CandlesOf(c, end) = {t \in A : t < end}  BY DEF CandlesOf
<1> HIDE DEF A, B
<1>5. CASE c >= end
  <2>1. CandlesOf(c, end) = {}
    <3> SUFFICES ASSUME NEW t \in A, t < end  PROVE FALSE  BY <1>4
    <3>1. t \in Nat /\ t >= c  BY <1>2
    <3> QED  BY <1>1, <1>5, <3>1
  <2> QED  BY <1>5, <2>1 DEF Reading
<1>6. CASE ~(c >= end) /\ B = {}
  <2>1. A = {}  BY <1>1, <1>6, Pages DEF A, B
  <2> QED  BY <1>4, <1>6, <2>1 DEF Reading, B
<1>7. CASE ~(c >= end) /\ B # {} /\ Cardinality(B) < PageLimit
  <2>1. B = A  BY <1>1, <1>7, Pages DEF A, B
  <2>2. Reading(g, c, end) = {t \in B : t < end}  BY <1>7 DEF Reading, B
  <2> QED  BY <1>4, <2>1, <2>2
<1>8. CASE ~(c >= end) /\ B # {} /\ ~(Cardinality(B) < PageLimit)
  <2> DEFINE m == Max(B)
  <2>1. Reading(g, c, end) = {t \in B : t < end} \cup g[m + 1]  BY <1>8 DEF Reading, B
  <2>2. m \in B /\ \A t \in A : t \in B <=> t <= m  BY <1>1, <1>8, Pages DEF A, B
  <2> HIDE DEF m
  <2>3. m \in Nat /\ m >= c /\ m <= now  BY <1>2, <1>3, <2>2
  <2>4. m + 1 \in 0 .. (MaxNow + 2) /\ m + 1 > c  BY <1>1, <2>3
  <2>5. g[m + 1] = CandlesOf(m + 1, end)  BY <2>4
  <2>6. {t \in A : t < end} = {t \in B : t < end} \cup CandlesOf(m + 1, end)
    <3>1. ASSUME NEW t \in A, t < end  PROVE t \in B \/ t \in CandlesOf(m + 1, end)
      <4>1. t \in Nat /\ t \in Listed  BY <1>2
      <4>2. CASE t <= m  BY <2>2, <4>2
      <4>3. CASE ~(t <= m)
        <5>1. t >= m + 1  BY <2>3, <4>1, <4>3
        <5> QED  BY <3>1, <4>1, <5>1 DEF CandlesOf, Later
      <4> QED  BY <4>2, <4>3
    <3>2. ASSUME NEW t \in CandlesOf(m + 1, end)  PROVE t \in A /\ t < end
      <4>1. t \in Listed /\ t >= m + 1 /\ t < end  BY DEF CandlesOf, Later
      <4>2. t \in Nat  BY <1>2, <4>1
      <4>3. t >= c  BY <1>1, <2>3, <4>1, <4>2
      <4> QED  BY <1>2, <4>1, <4>3
    <3> QED  BY <1>3, <3>1, <3>2
  <2> QED  BY <1>4, <2>1, <2>5, <2>6
<1> QED  BY <1>5, <1>6, <1>7, <1>8

\* fetch_ohlcv reads all candles of the span, whatever the size of a page.
LEMMA WalkReadsAll ==
    ASSUME now \in 0 .. MaxNow, NEW from \in 0 .. (MaxNow + 2), NEW end \in Nat
    PROVE  Walk(from, end) = CandlesOf(from, end)
<1> DEFINE Cursors == 0 .. (MaxNow + 2)
           all == [c \in Cursors |-> CandlesOf(c, end)]
           walk == CHOOSE g : Walking(g, end)
<1>1. MaxNow \in Nat  BY FoldAssumption
<1>2. Walk(from, end) = walk[from]
  BY Zenon DEF Walk, Walking, Reading
<1>3. Walking(all, end)
  <2>1. \A c \in Cursors : Reading(all, c, end) = CandlesOf(c, end)
    <3> TAKE c \in Cursors
    <3>1. \A d \in Cursors : all[d] = CandlesOf(d, end)  OBVIOUS
    <3> HIDE DEF all
    <3> QED  BY <3>1, ReadingIsAll
  <2> DEFINE a == all
  <2>2. a = [c \in Cursors |-> CandlesOf(c, end)]  OBVIOUS
  <2>3. \A c \in Cursors : Reading(a, c, end) = CandlesOf(c, end)  BY <2>1
  <2> HIDE DEF a
  <2>4. a = [c \in Cursors |-> Reading(a, c, end)]  BY <2>2, <2>3
  <2>5. Walking(a, end)  BY <2>4 DEF Walking
  <2> QED  BY <2>5 DEF a
<1>4. Walking(walk, end)
  <2> HIDE DEF all
  <2> QED  BY <1>3
<1> HIDE DEF walk, all
<1>5. \A c \in Cursors : walk[c] = Reading(walk, c, end)  BY <1>4 DEF Walking
<1> DEFINE Top == MaxNow + 2
           Bad == {n \in Nat : Top - n \in Cursors /\ walk[Top - n] # CandlesOf(Top - n, end)}
<1>6. Bad = {}
  <2> SUFFICES ASSUME Bad # {}  PROVE FALSE  OBVIOUS
  <2>1. Bad \subseteq Nat  OBVIOUS
  <2>2. PICK n \in Bad : \A k \in Bad : n <= k
    <3> HIDE DEF Bad
    <3> QED  BY <2>1, LeastNatural
  <2> DEFINE c == Top - n
  <2>3. n \in Nat /\ c \in Cursors /\ walk[c] # CandlesOf(c, end)  BY <2>2
  <2>4. \A d \in Cursors : d > c => walk[d] = CandlesOf(d, end)
    <3> SUFFICES ASSUME NEW d \in Cursors, d > c, walk[d] # CandlesOf(d, end)  PROVE FALSE
      OBVIOUS
    <3> DEFINE k == Top - d
    <3>1. k \in Nat /\ Top - k = d /\ k < n  BY <1>1, <2>3
    <3>2. k \in Bad  BY <3>1
    <3> HIDE DEF k
    <3> QED  BY <2>2, <2>3, <3>1, <3>2
  <2> HIDE DEF c
  <2>5. Reading(walk, c, end) = CandlesOf(c, end)  BY <2>3, <2>4, ReadingIsAll
  <2> QED  BY <1>5, <2>3, <2>5
<1>7. Top - from \in Nat /\ Top - (Top - from) = from  BY <1>1
<1>8. Top - from \notin Bad  BY <1>6
<1> QED  BY <1>2, <1>7, <1>8
-----------------------------------------------------------------------------
(* What the QA counts. *)

\* The gaps between neighbours add up to the bars that are missing between the
\* first candle and the last.
LEMMA MissingAreCounted ==
    ASSUME NEW C \in SUBSET Int, IsFiniteSet(C), C # {}
    PROVE  MissingBars(C) = Cardinality((Min(C) .. Max(C)) \ C)
<1> DEFINE q == Sorted(C)
           n == Cardinality(C)
           G == Gaps(q)
           F == [i \in Gaps(q) |-> q[i + 1] - q[i] - 1]
           Before(k) == {i \in G : i < k}
           Sum(s) == SumFunctionOnSet(F, s)
           Right(k) == Sum(Before(k)) = q[k] - q[1] + 1 - k
<1>1. n \in Nat /\ n # 0 /\ Increasing(q, C)
  <2>1. n # 0  BY FS_EmptySet
  <2> QED  BY <2>1, SortedIsIncreasing
<1>2. MissingBars(C) = Sum(G)
  BY DEF MissingBars, SumFunction
<1> HIDE DEF q
<1>3. /\ Len(q) = n /\ \A i \in 1 .. n : q[i] \in C /\ q[i] \in Int
      /\ \A i, j \in 1 .. n : i < j => q[i] < q[j]
      /\ \A x \in C : \E i \in 1 .. n : q[i] = x
  BY <1>1 DEF Increasing
<1>4. \A i \in 1 .. n - 1 : q[i + 1] \in Int /\ q[i] \in Int /\ q[i] + 1 <= q[i + 1]
  <2> TAKE i \in 1 .. n - 1
  <2>1. i \in 1 .. n /\ i + 1 \in 1 .. n /\ i < i + 1  BY <1>1
  <2>2. q[i] \in Int /\ q[i + 1] \in Int /\ q[i] < q[i + 1]  BY <1>3, <2>1
  <2> QED  BY <2>2
<1>5. /\ G \subseteq 1 .. n - 1
      /\ \A i \in 1 .. n - 1 : i \in G <=> 2 * (q[i + 1] - q[i]) > 3
      /\ \A i \in G : F[i] = q[i + 1] - q[i] - 1
  BY <1>3 DEF Gaps
<1> HIDE DEF n, F, G
<1>6. \A i \in G : F[i] \in Int
  <2> TAKE i \in G
  <2>1. i \in 1 .. n - 1  BY <1>5
  <2> QED  BY <1>4, <1>5, <2>1
<1>7. \A i \in 1 .. n - 1 : i \notin G => q[i + 1] = q[i] + 1
  <2> SUFFICES ASSUME NEW i \in 1 .. n - 1, i \notin G  PROVE q[i + 1] = q[i] + 1
    OBVIOUS
  <2>1. ~(2 * (q[i + 1] - q[i]) > 3)  BY <1>5
  <2> QED  BY <1>4, <2>1
<1>8. IsFiniteSet(1 .. n - 1)  BY <1>1, FS_Interval
<1>9. \A k : IsFiniteSet(Before(k)) /\ Before(k) \subseteq G
  <2> TAKE k
  <2>1. Before(k) \subseteq 1 .. n - 1  BY <1>5
  <2> QED  BY <1>8, <2>1, FS_Subset
<1>10. Right(1)
  <2>1. Before(1) = {}
    <3> SUFFICES ASSUME NEW i \in G, i < 1  PROVE FALSE  OBVIOUS
    <3>1. i \in 1 .. n - 1  BY <1>5
    <3> QED  BY <1>1, <3>1
  <2>2. Sum(Before(1)) = 0
    <3>1. IsFiniteSet({})  BY FS_EmptySet
    <3> QED  BY <2>1, <3>1, SumUnfolded
  <2>3. q[1] \in Int
    <3>1. 1 \in 1 .. n  BY <1>1
    <3> QED  BY <1>3, <3>1
  <2> HIDE DEF Before, Sum
  <2> QED  BY <2>2, <2>3
<1>11. ASSUME NEW k \in 1 .. n - 1, Right(k)  PROVE Right(k + 1)
  <2>1. k \in Int /\ q[k] \in Int /\ q[k + 1] \in Int /\ q[1] \in Int
    <3>1. 1 \in 1 .. n  BY <1>1
    <3> QED  BY <1>3, <1>4, <3>1
  <2>2. \A i \in G : i \in Int
    <3> TAKE i \in G
    <3>1. i \in 1 .. n - 1  BY <1>5
    <3> QED  BY <3>1
  <2>3. CASE k \in G
    <3>1. k \in Before(k + 1) /\ Before(k + 1) \ {k} = Before(k)
      <4>1. \A i \in G : i < k + 1 /\ i # k <=> i < k  BY <2>1, <2>2
      <4>2. k < k + 1  BY <2>1
      <4> QED  BY <2>3, <4>1, <4>2
    <3>2. \A y \in Before(k + 1) : F[y] \in Int  BY <1>6
    <3>3. IsFiniteSet(Before(k + 1))  BY <1>9
    <3> HIDE DEF Before
    <3>4. Sum(Before(k + 1)) = F[k] + Sum(Before(k))  BY <3>1, <3>2, <3>3, SumWithout
    <3>5. F[k] = q[k + 1] - q[k] - 1  BY <1>5, <2>3
    <3> HIDE DEF Sum
    <3> QED  BY <1>11, <2>1, <3>4, <3>5
  <2>4. CASE k \notin G
    <3>1. Before(k + 1) = Before(k)
      <4>1. \A i \in G : i < k + 1 <=> i < k  BY <2>1, <2>2, <2>4
      <4> QED  BY <4>1
    <3>2. q[k + 1] = q[k] + 1  BY <1>7, <2>4
    <3> HIDE DEF Before, Sum
    <3> QED  BY <1>11, <2>1, <3>1, <3>2
  <2> QED  BY <2>3, <2>4
<1>12. Right(n)
  <2> DEFINE Bad == {k \in 1 .. n : ~Right(k)}
  <2> HIDE DEF Right
  <2>1. Bad = {}
    <3> SUFFICES ASSUME Bad # {}  PROVE FALSE  OBVIOUS
    <3>1. Bad \subseteq Nat  BY <1>1
    <3>2. PICK k \in Bad : \A j \in Bad : k <= j
      <4> HIDE DEF Bad
      <4> QED  BY <3>1, LeastNatural
    <3>3. k \in 1 .. n /\ ~Right(k) /\ k # 1  BY <1>10, <3>2
    <3>4. k - 1 \in 1 .. n - 1 /\ k - 1 \in 1 .. n /\ (k - 1) + 1 = k /\ k - 1 < k  BY <1>1, <3>3
    <3>5. k - 1 \notin Bad  BY <1>1, <3>2, <3>3, <3>4
    <3>6. Right(k - 1)  BY <3>4, <3>5
    <3> QED  BY <1>11, <3>3, <3>4, <3>6
  <2>2. n \in 1 .. n  BY <1>1
  <2> QED  BY <2>1, <2>2
<1>13. Before(n) = G
  <2>1. \A i \in G : i < n
    <3> TAKE i \in G
    <3>1. i \in 1 .. n - 1  BY <1>5
    <3> QED  BY <1>1, <3>1
  <2> QED  BY <2>1
<1>14. Min(C) = q[1] /\ Max(C) = q[n] /\ q[1] \in Int /\ q[n] \in Int /\ q[1] <= q[n]
  <2>1. 1 \in 1 .. n /\ n \in 1 .. n  BY <1>1
  <2>2. ASSUME NEW x \in C  PROVE q[1] <= x /\ x <= q[n]
    <3>1. PICK i \in 1 .. n : q[i] = x  BY <1>3
    <3>2. q[i] \in Int /\ q[1] \in Int /\ q[n] \in Int  BY <1>3, <2>1
    <3>3. i = 1 \/ 1 < i  BY <1>1
    <3>4. i = n \/ i < n  BY <1>1
    <3>5. q[1] <= q[i]  BY <1>3, <2>1, <3>2, <3>3
    <3>6. q[i] <= q[n]  BY <1>3, <2>1, <3>2, <3>4
    <3> QED  BY <3>1, <3>5, <3>6
  <2>3. q[1] \in C /\ q[n] \in C /\ q[1] \in Int /\ q[n] \in Int  BY <1>3, <2>1
  <2>4. Min(C) = q[1]  BY <2>2, <2>3, MinIs
  <2>5. Max(C) = q[n]  BY <2>2, <2>3, MaxIs
  <2> QED  BY <2>2, <2>3, <2>4, <2>5
<1>15. Cardinality((Min(C) .. Max(C)) \ C) = (q[n] - q[1] + 1) - n
  <2> DEFINE span == q[1] .. q[n]
  <2>1. IsFiniteSet(span) /\ Cardinality(span) = q[n] - q[1] + 1
    <3> HIDE DEF span
    <3> QED  BY <1>14, FS_Interval DEF span
  <2>2. span \cap C = C
    <3>1. \A x \in C : x \in Int /\ Min(C) <= x /\ x <= Max(C)
      <4> TAKE x \in C
      <4>1. x \in Int  OBVIOUS
      <4> QED  BY <4>1, MinOfFinite, MaxOfFinite
    <3>2. ASSUME NEW x \in C  PROVE x \in span
      <4>1. x \in Int /\ q[1] <= x /\ x <= q[n]  BY <1>14, <3>1
      <4> QED  BY <1>14, <4>1
    <3> HIDE DEF span
    <3> QED  BY <3>2
  <2> HIDE DEF span
  <2>3. Cardinality(span \ C) = Cardinality(span) - Cardinality(span \cap C)  BY <2>1, FS_Difference
  <2> QED  BY <1>14, <2>1, <2>2, <2>3 DEF span, n
<1> HIDE DEF Before, Sum
<1>16. Sum(G) = q[n] - q[1] + 1 - n  BY <1>12, <1>13
<1>17. q[n] - q[1] + 1 - n = (q[n] - q[1] + 1) - n  BY <1>1, <1>14
<1> QED  BY <1>2, <1>15, <1>16, <1>17 DEF Sum
-----------------------------------------------------------------------------
(* The cache and its manifest. *)

HolesAreOutages(C) == (Min(C) .. Max(C)) \ C \subseteq outage

\* A report spans rows of the file, and counts what is missing between them.
QaSound(qa, C) ==
    qa # NoReport => /\ qa.first \in C /\ qa.last \in C
                     /\ qa.missing = Cardinality((qa.first .. qa.last) \ C)

CacheSound ==
    /\ now \in 0 .. MaxNow
    /\ cache \subseteq 0 .. now
    /\ cache # {} => HolesAreOutages(cache)
    /\ "qa" \in DOMAIN manifest /\ QaSound(manifest.qa, cache)

Fitted ==
    /\ "phase" \in DOMAIN lab
    /\ lab.phase = "fitted" =>
         /\ lab.rows \in Seq(Int) /\ lab.h \in Horizons \cup ShortHorizons
         /\ lab.folds \subseteq 0 .. MaxNow

LEMMA CacheType ==
    ASSUME now \in 0 .. MaxNow, NEW C, C \subseteq 0 .. now
    PROVE  /\ now \in Nat /\ IsFiniteSet(C) /\ C \in SUBSET Int /\ C \subseteq Nat
           /\ C # {} => /\ Min(C) \in C /\ Max(C) \in C /\ Min(C) \in 0 .. now /\ Max(C) \in 0 .. now
                        /\ \A t \in C : Min(C) <= t /\ t <= Max(C)
<1>1. now \in Nat  BY FoldAssumption
<1>2. IsFiniteSet(0 .. now)  BY <1>1, FS_Interval
<1>3. IsFiniteSet(C) /\ C \in SUBSET Int /\ C \subseteq Nat
  <2>1. \A t \in C : t \in Nat  BY <1>1
  <2>2. IsFiniteSet(C)  BY <1>2, FS_Subset
  <2> QED  BY <2>1, <2>2
<1>4. ASSUME C # {}
      PROVE  Min(C) \in C /\ Max(C) \in C /\ \A t \in C : Min(C) <= t /\ t <= Max(C)
  BY <1>3, <1>4, MinOfFinite, MaxOfFinite
<1> QED  BY <1>1, <1>3, <1>4

\* Extending the cache at its ends makes no holes of its own and fills none.
LEMMA ExtendedSound ==
    ASSUME CacheSound
    PROVE  /\ Extended \subseteq 0 .. now
           /\ Extended # {} => HolesAreOutages(Extended)
           /\ cache # {} => /\ cache \subseteq Extended
                            /\ \A t \in Extended \ cache : t < Min(cache) \/ Max(cache) < t
<1>1. /\ MaxNow \in Nat /\ now \in Nat /\ now \in 0 .. MaxNow /\ cache \subseteq 0 .. now
      /\ 0 \in 0 .. (MaxNow + 2) /\ now + 1 \in Nat
  BY FoldAssumption, CacheType DEF CacheSound
<1>2. ASSUME NEW c \in Nat, NEW end \in Nat
      PROVE  \A t : t \in CandlesOf(c, end) <=> t \in 0 .. now /\ t \notin outage /\ c <= t /\ t < end
  BY <1>1 DEF CandlesOf, Later, Listed
<1> HIDE DEF CandlesOf
<1>3. CASE cache = {}
  <2>1. Extended = CandlesOf(0, now + 1)
    <3>1. Walk(0, now + 1) = CandlesOf(0, now + 1)  BY <1>1, WalkReadsAll
    <3> QED  BY <1>3, <3>1 DEF Extended
  <2>2. \A t : t \in Extended <=> t \in 0 .. now /\ t \notin outage  BY <1>1, <1>2, <2>1
  <2>3. Extended \subseteq 0 .. now  BY <2>2
  <2>4. ASSUME Extended # {}  PROVE HolesAreOutages(Extended)
    <3>1. Min(Extended) \in 0 .. now /\ Max(Extended) \in 0 .. now
      BY <1>1, <2>3, <2>4, CacheType
    <3>2. \A t \in Min(Extended) .. Max(Extended) : t \in 0 .. now  BY <1>1, <3>1
    <3> QED  BY <2>2, <3>2 DEF HolesAreOutages
  <2> QED  BY <1>3, <2>3, <2>4
<1>4. CASE cache # {}
  <2> DEFINE lo == Min(cache)
             hi == Max(cache)
             front == IF NeedFront THEN Walk(0, lo) ELSE {}
             back  == IF NeedBack THEN Walk(hi + 1, now + 1) ELSE {}
             E == Extended
  <2>1. lo \in cache /\ hi \in cache /\ lo \in 0 .. now /\ hi \in 0 .. now
        /\ \A t \in cache : lo <= t /\ t <= hi
    BY <1>1, <1>4, CacheType
  <2>2. E = cache \cup front \cup back  BY <1>4 DEF Extended
  <2>3. (lo .. hi) \ cache \subseteq outage  BY <1>4 DEF CacheSound, HolesAreOutages
  <2>0. (NeedFront <=> lo > 1) /\ (NeedBack <=> hi < now - 1)  BY DEF NeedFront, NeedBack
  <2> HIDE DEF lo, hi, E
  <2>4. \A t : t \in front <=> lo > 1 /\ t \in 0 .. now /\ t \notin outage /\ t < lo
    <3>1. lo \in Nat  BY <2>1
    <3>2. Walk(0, lo) = CandlesOf(0, lo)  BY <1>1, <3>1, WalkReadsAll
    <3> QED  BY <1>1, <1>2, <2>0, <3>1, <3>2
  <2>5. \A t : t \in back <=> hi < now - 1 /\ t \in 0 .. now /\ t \notin outage /\ hi < t
    <3>1. hi + 1 \in 0 .. (MaxNow + 2) /\ hi \in Nat /\ hi + 1 \in Nat  BY <1>1, <2>1
    <3>2. Walk(hi + 1, now + 1) = CandlesOf(hi + 1, now + 1)
      BY <1>1, <3>1, WalkReadsAll
    <3>3. \A t : t \in CandlesOf(hi + 1, now + 1)
                   <=> t \in 0 .. now /\ t \notin outage /\ hi < t
      BY <1>1, <1>2, <3>1
    <3> QED  BY <2>0, <3>2, <3>3
  <2> HIDE DEF front, back
  <2>6. E \subseteq 0 .. now  BY <1>1, <2>2, <2>4, <2>5
  <2>7. E # {}  BY <1>4, <2>2
  <2>8. Min(E) \in E /\ Max(E) \in E /\ Min(E) \in 0 .. now /\ Max(E) \in 0 .. now
    BY <1>1, <2>6, <2>7, CacheType
  <2>9. ASSUME NEW t \in Min(E) .. Max(E), t \notin E  PROVE t \in outage
    <3>1. t \in 0 .. now /\ Min(E) <= t /\ t <= Max(E) /\ t \in Int  BY <1>1, <2>8
    <3>2. CASE t < lo
      <4>1. Min(E) < lo /\ Min(E) \in Int  BY <2>1, <2>8, <3>1, <3>2
      <4>2. Min(E) \notin cache /\ Min(E) \notin back  BY <1>1, <2>1, <2>5, <4>1
      <4>3. lo > 1  BY <2>2, <2>4, <2>8, <4>2
      <4> QED  BY <2>2, <2>4, <2>9, <3>1, <3>2, <4>3
    <3>3. CASE hi < t
      <4>1. hi < Max(E) /\ Max(E) \in Int  BY <2>1, <2>8, <3>1, <3>3
      <4>2. Max(E) \notin cache /\ Max(E) \notin front  BY <1>1, <2>1, <2>4, <4>1
      <4>3. hi < now - 1  BY <2>2, <2>5, <2>8, <4>2
      <4> QED  BY <2>2, <2>5, <2>9, <3>1, <3>3, <4>3
    <3>4. CASE ~(t < lo) /\ ~(hi < t)
      <4>1. t \in lo .. hi  BY <2>1, <3>1, <3>4
      <4> QED  BY <2>2, <2>3, <2>9, <4>1
    <3> QED  BY <3>2, <3>3, <3>4
  <2>10. HolesAreOutages(E)  BY <2>9 DEF HolesAreOutages
  <2>11. cache \subseteq E /\ \A t \in E \ cache : t < lo \/ hi < t  BY <2>2, <2>4, <2>5
  <2> QED  BY <2>6, <2>10, <2>11 DEF E, lo, hi
<1> QED  BY <1>3, <1>4

\* A run leaves the old report or writes one of the whole file.
LEMMA QaOfManifest ==
    ASSUME NEW m, NEW new \in {m, Entered(m), Reported(Entered(m))},
           "qa" \in DOMAIN m
    PROVE  new.qa = m.qa \/ new.qa = [first |-> Min(Extended), last |-> Max(Extended),
                                      missing |-> MissingBars(Extended)]
<1>1. Entered(m).qa = m.qa /\ "qa" \in DOMAIN Entered(m)
  <2>1. CASE Entered(m) = m  BY <2>1
  <2>2. CASE Entered(m) # m
    <3>1. PICK a, b : Entered(m) = [m EXCEPT !.first = a, !.last = b]  BY <2>2 DEF Entered
    <3> QED  BY <3>1
  <2> QED  BY <2>1, <2>2
<1>2. PICK e : e = Entered(m)  OBVIOUS
<1>3. PICK r : r = [first |-> Min(Extended), last |-> Max(Extended), missing |-> MissingBars(Extended)]
  OBVIOUS
<1>4. Reported(e).qa = r  BY <1>1, <1>2, <1>3 DEF Reported
<1> QED  BY <1>1, <1>2, <1>3, <1>4

LEMMA FetchStep ==
    ASSUME CacheSound, FetchAll
    PROVE  CacheSound'
<1>1. outage' = outage /\ now' = now  BY DEF FetchAll
<1>2. CASE UNCHANGED <<cache, manifest>>
  BY <1>1, <1>2 DEF CacheSound, HolesAreOutages, QaSound
<1>3. CASE /\ Extended # {} /\ cache' = Extended
           /\ manifest' \in {manifest, Entered(manifest), Reported(Entered(manifest))}
  <2> DEFINE E == Extended
             lo == Min(cache)
             hi == Max(cache)
             full == [first |-> Min(E), last |-> Max(E), missing |-> MissingBars(E)]
  <2>1. E \subseteq 0 .. now /\ HolesAreOutages(E) /\ E # {}
        /\ (cache # {} => cache \subseteq E /\ \A t \in E \ cache : t < lo \/ hi < t)
    BY <1>3, ExtendedSound
  <2>2. cache' = E  BY <1>3
  <2>3. manifest'.qa = manifest.qa \/ manifest'.qa = full
    <3>1. "qa" \in DOMAIN manifest  BY DEF CacheSound
    <3> QED  BY <1>3, <3>1, QaOfManifest
  <2>4. PICK C : C = E  OBVIOUS
  <2>5. (HolesAreOutages(cache))'  BY <1>1, <2>1, <2>2 DEF HolesAreOutages
  <2>6. E \in SUBSET Int /\ IsFiniteSet(E) /\ Min(E) \in E /\ Max(E) \in E
    BY <2>1, CacheType DEF CacheSound
  <2>7. QaSound(full, E)
    <3>1. MissingBars(E) = Cardinality((Min(E) .. Max(E)) \ E)  BY <2>6, MissingAreCounted
    <3> HIDE DEF E
    <3> QED  BY <2>6, <3>1 DEF QaSound
  <2>8. QaSound(manifest.qa, E)
    <3> SUFFICES ASSUME manifest.qa # NoReport
                 PROVE  /\ manifest.qa.first \in E /\ manifest.qa.last \in E
                        /\ manifest.qa.missing
                             = Cardinality((manifest.qa.first .. manifest.qa.last) \ E)
      BY DEF QaSound
    <3>1. PICK a, b : a = manifest.qa.first /\ b = manifest.qa.last  OBVIOUS
    <3>2. a \in cache /\ b \in cache /\ manifest.qa.missing = Cardinality((a .. b) \ cache)
      BY <3>1 DEF CacheSound, QaSound
    <3>3. cache # {} /\ cache \subseteq E /\ \A t \in E \ cache : t < lo \/ hi < t
      BY <2>1, <3>2
    <3>4. lo \in Int /\ hi \in Int /\ a \in Int /\ b \in Int /\ lo <= a /\ b <= hi
      BY <3>2, CacheType DEF CacheSound
    <3> HIDE DEF E, lo, hi
    <3>5. \A t \in a .. b : t \in E => t \in cache  BY <2>6, <3>3, <3>4
    <3>6. (a .. b) \ E = (a .. b) \ cache  BY <3>3, <3>5
    <3> QED  BY <3>1, <3>2, <3>3, <3>6
  <2> HIDE DEF full
  <2>9. QaSound(manifest'.qa, E)  BY <2>3, <2>7, <2>8
  <2> HIDE DEF E
  <2>10. (QaSound(manifest.qa, cache))'  BY <2>2, <2>9 DEF QaSound
  <2>11. "qa" \in DOMAIN manifest'  BY <1>3 DEF CacheSound, Entered, Reported
  <2> QED  BY <1>1, <2>1, <2>2, <2>5, <2>10, <2>11 DEF CacheSound
<1> QED  BY <1>2, <1>3 DEF FetchAll

LEMMA ResearchKeepsCache ==
    ASSUME CacheSound, LabNext
    PROVE  CacheSound'
<1>1. CASE NextBar
  <2>1. now' = now + 1 /\ now < MaxNow /\ UNCHANGED <<outage, cache, manifest>>  BY <1>1 DEF NextBar
  <2>2. MaxNow \in Nat /\ now \in 0 .. MaxNow  BY FoldAssumption DEF CacheSound
  <2>3. now' \in 0 .. MaxNow /\ 0 .. now \subseteq 0 .. now'  BY <2>1, <2>2
  <2>4. cache # {} => (HolesAreOutages(cache))'
    BY <2>1 DEF CacheSound, HolesAreOutages
  <2>5. (QaSound(manifest.qa, cache))'  BY <2>1 DEF CacheSound, QaSound
  <2>6. cache \subseteq 0 .. now'  BY <2>3 DEF CacheSound
  <2> QED  BY <2>1, <2>3, <2>4, <2>5, <2>6 DEF CacheSound
<1>2. CASE FetchAll  BY <1>2, FetchStep
<1>3. ASSUME UNCHANGED <<outage, now, cache, manifest>>  PROVE CacheSound'
  BY <1>3 DEF CacheSound, HolesAreOutages, QaSound
<1> QED
  BY <1>1, <1>2, <1>3
  DEF LabNext, WalkForward, Decide, JudgeMl, Ablate, Sweep, ReportMl, TrendGrid, TrendValidation,
      ReportTrend
-----------------------------------------------------------------------------
(* The labels of a fold. *)

LEMMA FittedStart ==
    ASSUME CacheSound, NEW h \in Horizons \cup ShortHorizons, NEW k, WalkForward(h, k)
    PROVE  Fitted'
<1> DEFINE q == Sorted(cache)
<1>1. q \in Seq(Int)
  <2>1. cache \in SUBSET Int /\ IsFiniteSet(cache)  BY CacheType DEF CacheSound
  <2>2. Increasing(q, cache)  BY <2>1, SortedIsIncreasing
  <2>3. q \in Seq(cache)  BY <2>2 DEF Increasing
  <2> HIDE DEF q
  <2>4. PICK n \in Nat : q \in [1 .. n -> cache]  BY <2>3, SeqDef
  <2>5. \A i \in 1 .. n : q[i] \in Int  BY <2>1, <2>4
  <2>6. q \in [1 .. n -> Int]  BY <2>4, <2>5
  <2> QED  BY <2>6, SeqDef
<1>2. PICK ks, m : lab' = [phase |-> "fitted", rows |-> q, h |-> h, folds |-> ks, moves |-> m]
                   /\ ks \subseteq FoldIds(q)
  BY DEF WalkForward, LoadCache
<1>3. FoldIds(q) \subseteq 0 .. MaxNow  BY DEF FoldIds
<1> HIDE DEF q
<1> QED  BY <1>1, <1>2, <1>3 DEF Fitted

LEMMA NotFitted ==
    ASSUME "phase" \in DOMAIN lab', lab'.phase # "fitted"
    PROVE  Fitted'
  BY DEF Fitted

LEMMA ResearchKeepsFit ==
    ASSUME CacheSound, Fitted, LabNext
    PROVE  Fitted'
<1>1. "phase" \in DOMAIN lab  BY DEF Fitted
<1>2. CASE NextBar \/ FetchAll  BY <1>2 DEF NextBar, FetchAll, Fitted
<1>3. ASSUME NEW h \in Horizons \cup ShortHorizons, NEW k, WalkForward(h, k)  PROVE Fitted'
  BY <1>3, FittedStart
<1>4. ASSUME NEW p, Decide(p)  PROVE Fitted'  BY <1>4, NotFitted DEF Decide
<1>5. ASSUME NEW p, JudgeMl(p)  PROVE Fitted'
  <2>1. PICK v : lab' = [lab EXCEPT !.verdicts[p] = v]  BY <1>5 DEF JudgeMl
  <2>2. lab.phase = "swept"  BY <1>5 DEF JudgeMl
  <2>3. "phase" \in DOMAIN lab' /\ lab'.phase = "swept"  BY <1>1, <2>1, <2>2
  <2> QED  BY <2>3, NotFitted
<1>6. CASE Ablate
  <2>1. "phase" \in DOMAIN lab' /\ lab'.phase = "decided"  BY <1>1, <1>6 DEF Ablate
  <2> QED  BY <2>1, NotFitted
<1>7. CASE Sweep  BY <1>7, NotFitted DEF Sweep
<1>8. CASE ReportMl \/ ReportTrend  BY <1>8, NotFitted DEF ReportMl, ReportTrend, Idle
<1>9. CASE TrendGrid \/ TrendValidation
  <2>1. "phase" \in DOMAIN lab' /\ (lab'.phase = "grid" \/ lab'.phase = "trend")
    BY <1>9 DEF TrendGrid, TrendValidation
  <2> QED  BY <2>1, NotFitted
<1> QED  BY <1>2, <1>3, <1>4, <1>5, <1>6, <1>7, <1>8, <1>9 DEF LabNext

\* Without a hole the row a horizon ahead is a horizon away.
LEMMA LabelsOfFold ==
    ASSUME NEW q \in Seq(Int), NEW h \in Horizons \cup ShortHorizons, NEW k \in 0 .. MaxNow
    PROVE  /\ \A i \in TrainRows(q, h, k) :
                 Looks(q, h, i) < Fold(q, k).trainEnd \/ Hole(q, i, i + h)
           /\ \A i \in ValRows(q, h, k) :
                 Looks(q, h, i) < Fold(q, k).testStart \/ Hole(q, i, i + h)
<1>1. h \in Nat /\ h <= EmbargoBars /\ k \in Nat
  BY FoldAssumption, GridAssumption
<1>2. TrainBars \in Nat /\ ValBars \in Nat /\ EmbargoBars \in Nat /\ StepBars \in Nat
  BY FoldAssumption
<1>3. ASSUME NEW i \in Labelled(q, h)
      PROVE  /\ i \in Int /\ q[i] \in Int /\ q[i + h] \in Int /\ q[1] \in Int
             /\ ~Hole(q, i, i + h) => q[i + h] <= q[i] + h
  <2>1. i \in 1 .. Len(q) /\ i + h <= Len(q) /\ Len(q) \in Nat  BY DEF Labelled
  <2>2. i + h \in 1 .. Len(q) /\ 1 \in 1 .. Len(q) /\ i \in Int  BY <1>1, <2>1
  <2>3. q[i] \in Int /\ q[i + h] \in Int /\ q[1] \in Int  BY <2>1, <2>2
  <2>4. Hole(q, i, i + h) <=> q[i + h] - q[i] > (i + h) - i  BY DEF Hole
  <2> QED  BY <1>1, <2>2, <2>3, <2>4
<1> DEFINE start == q[1] + k * StepBars
           train == start + TrainBars
<1>4. /\ Fold(q, k).trainEnd = train /\ Fold(q, k).valEnd = train + ValBars
      /\ Fold(q, k).testStart = train + ValBars + EmbargoBars
  BY DEF Fold
<1>5. ASSUME NEW i \in Labelled(q, h)  PROVE train \in Int
  <2>1. k * StepBars \in Int  BY <1>1, <1>2
  <2> QED  BY <1>2, <1>3, <1>5, <2>1
<1> HIDE DEF train
<1>6. ASSUME NEW i \in TrainRows(q, h, k), ~Hole(q, i, i + h)
      PROVE  Looks(q, h, i) < Fold(q, k).trainEnd
  <2>1. i \in Labelled(q, h) /\ q[i] < train - h  BY <1>4 DEF TrainRows, Between
  <2>2. q[i + h] <= q[i] + h /\ q[i] \in Int /\ q[i + h] \in Int  BY <1>3, <1>6, <2>1
  <2>3. q[i + h] < train  BY <1>1, <1>5, <2>1, <2>2
  <2> QED  BY <1>4, <2>3 DEF Looks
<1>7. ASSUME NEW i \in ValRows(q, h, k), ~Hole(q, i, i + h)
      PROVE  Looks(q, h, i) < Fold(q, k).testStart
  <2>1. i \in Labelled(q, h) /\ q[i] < train + ValBars  BY <1>4 DEF ValRows, Between
  <2>2. q[i + h] <= q[i] + h /\ q[i] \in Int /\ q[i + h] \in Int  BY <1>3, <1>7, <2>1
  <2>3. q[i + h] < train + ValBars + EmbargoBars  BY <1>1, <1>2, <1>5, <2>1, <2>2
  <2> QED  BY <1>4, <2>3 DEF Looks
<1> QED  BY <1>6, <1>7

LEMMA ResearchStarts == LabInit => CacheSound /\ Fitted
  BY FoldAssumption DEF LabInit, CacheSound, QaSound, NoManifest, Fitted, Idle

LEMMA ResearchRuns ==
    ASSUME CacheSound, Fitted,
           [(LabNext /\ UNCHANGED trdVars) \/ (TrdNext /\ UNCHANGED labVars)]_<<labVars, trdVars>>
    PROVE  CacheSound' /\ Fitted'
<1>1. CASE LabNext  BY <1>1, ResearchKeepsCache, ResearchKeepsFit
<1>2. CASE UNCHANGED labVars  BY <1>2 DEF labVars, CacheSound, HolesAreOutages, QaSound, Fitted
<1> QED  BY <1>1, <1>2

\* The cache has no holes but the exchange's, the report of the QA counts those of
\* its span, and a training or validation label looks past its slice only across one of them
\* (ftr/data: get_ohlcv and validate_ohlcv, features/splits.py,
\* strategies/ml_hourly.py), for every outage, page size, anatomy of a fold and
\* horizon within the embargo, after any number of fetches and failures.
THEOREM LabelsLookAcrossHolesOnly == FtrSpec => []LeaksOnlyAcrossHoles
<1>1. ASSUME CacheSound, Fitted  PROVE LeaksOnlyAcrossHoles
  <2>1. HolesReported
    BY <1>1 DEF CacheSound, HolesAreOutages, QaSound, HolesReported
  <2>2. lab.phase = "fitted" =>
          \A k \in lab.folds :
             /\ \A i \in TrainRows(lab.rows, lab.h, k) :
                   Looks(lab.rows, lab.h, i) < Fold(lab.rows, k).trainEnd
                   \/ Hole(lab.rows, i, i + lab.h)
             /\ \A i \in ValRows(lab.rows, lab.h, k) :
                   Looks(lab.rows, lab.h, i) < Fold(lab.rows, k).testStart
                   \/ Hole(lab.rows, i, i + lab.h)
    BY <1>1, LabelsOfFold DEF Fitted
  <2> QED  BY <2>1, <2>2 DEF LeaksOnlyAcrossHoles
<1>2. CacheSound /\ Fitted
        /\ [(LabNext /\ UNCHANGED trdVars) \/ (TrdNext /\ UNCHANGED labVars)]_<<labVars, trdVars>>
        => CacheSound' /\ Fitted'
  BY ResearchRuns
<1> QED  BY ResearchStarts, <1>1, <1>2, PTL DEF FtrSpec
-----------------------------------------------------------------------------
(* The engines and the overlay over any series of positions. *)

Signals(p) == p \in [1 .. Len(p) -> {0, 1}] /\ Len(p) \in Nat

-----------------------------------------------------------------------------
(* The overlay. *)

Waits == [at : {"flat", "in", "wait", "skipped"}, defers : Nat]
Flat  == [at |-> "flat", defers |-> 0]

\* What a bar makes of the state before it.
Waited(s, want, spread) ==
    IF want = 0 THEN [s EXCEPT !.at = "flat"]
    ELSE IF Settled(s.at) THEN s
    ELSE IF spread = "unknown" THEN [s EXCEPT !.at = "in"]
    ELSE IF spread = "narrow" THEN [at |-> "in", defers |-> 0]
    ELSE IF s.defers + 1 <= MaxDefer THEN [at |-> "wait", defers |-> s.defers + 1]
    ELSE [at |-> "skipped", defers |-> 0]

Waiting(g, p, spread) == g = [i \in 0 .. Len(p) |-> IF i = 0 THEN Flat ELSE Waited(g[i - 1], p[i], spread[i])]

Walked(p, spread) ==
    \E g \in [0 .. Len(p) -> Waits] :
        /\ \A i \in 1 .. Len(p) : g[i] = Waited(g[i - 1], p[i], spread[i])
        /\ Overlay(p, spread) = [i \in 1 .. Len(p) |-> g[i].at]

LEMMA WaitsOf ==
    ASSUME NEW p, Signals(p), NEW spread
    PROVE  Walked(p, spread)
<1> DEFINE n == Len(p)
           walk == CHOOSE g : Waiting(g, p, spread)
           T == [i \in 1 .. n |-> [s \in Waits |-> Waited(s, p[i], spread[i])]]
<1>1. n \in Nat  BY DEF Signals
<1>2. Overlay(p, spread) = [i \in 1 .. n |-> walk[i].at]
  BY Zenon DEF Overlay, Waiting, Waited, Flat
<1>3. ASSUME NEW s \in Waits, NEW w, NEW f  PROVE Waited(s, w, f) \in Waits
  BY DEF Waited, Waits
<1> HIDE DEF n
<1>4. T \in [1 .. n -> [Waits -> Waits]]  BY <1>3
<1>5. \A i \in 1 .. n, s \in Waits : T[i][s] = Waited(s, p[i], spread[i])  OBVIOUS
<1>6. Flat \in Waits  BY DEF Flat, Waits
<1> HIDE DEF T, walk
<1>7. PICK g : Stepping(g, n, Waits, Flat, T)  BY <1>1, <1>4, <1>6, StepsExist
<1> USE DEF walk
<1>8. \A i \in 0 .. n : g[i] = IF i = 0 THEN Flat ELSE Waited(g[i - 1], p[i], spread[i])
  <2> TAKE i \in 0 .. n
  <2>1. CASE i = 0  BY <1>7, <2>1 DEF Stepping
  <2>2. CASE i # 0
    <3>1. i \in 1 .. n /\ i - 1 \in 0 .. n  BY <1>1, <2>2
    <3>2. g[i - 1] \in Waits /\ g[i] = T[i][g[i - 1]]  BY <1>7, <3>1 DEF Stepping
    <3> QED  BY <1>5, <2>2, <3>1, <3>2
  <2> QED  BY <2>1, <2>2
<1>9. Waiting(g, p, spread)
  <2>1. g = [i \in 0 .. n |-> g[i]]  BY <1>7 DEF Stepping
  <2>2. g = [i \in 0 .. n |-> IF i = 0 THEN Flat ELSE Waited(g[i - 1], p[i], spread[i])]
    BY <1>8, <2>1
  <2> QED  BY <2>2 DEF Waiting, n
<1>10. Waiting(walk, p, spread)  BY <1>9
<1> HIDE DEF walk
<1>11. /\ walk = [i \in 0 .. n |-> walk[i]] /\ walk[0] = Flat
       /\ \A i \in 1 .. n : walk[i] = Waited(walk[i - 1], p[i], spread[i])
  BY <1>1, <1>10 DEF Waiting, n
<1>12. \A i \in 1 .. n : walk[i - 1] \in Waits => walk[i] = T[i][walk[i - 1]]
  BY <1>5, <1>11
<1>13. Stepping(walk, n, Waits, Flat, T)  BY <1>1, <1>4, <1>6, <1>11, <1>12, StepsTyped
<1>14. walk \in [0 .. n -> Waits]  BY <1>13 DEF Stepping
<1>15. \E w \in [0 .. n -> Waits] :
          /\ \A i \in 1 .. n : w[i] = Waited(w[i - 1], p[i], spread[i])
          /\ Overlay(p, spread) = [i \in 1 .. n |-> w[i].at]
  <2> WITNESS walk \in [0 .. n -> Waits]
  <2> QED  BY <1>2, <1>11
<1> QED  BY Zenon, <1>15 DEF n, Walked

\* The overlay drops the start of an episode or all of it.
LEMMA OverlayDelays ==
    ASSUME NEW p, Signals(p), NEW spread
    PROVE  LET at == Overlay(p, spread) IN
           /\ DOMAIN at = 1 .. Len(p)
           /\ \A i \in 1 .. Len(p) :
                /\ at[i] = "in" => p[i] = 1
                /\ i > 1 /\ Settled(at[i - 1]) /\ p[i] = 1 => at[i] = at[i - 1]
<1> DEFINE at == Overlay(p, spread)
<1>0. Walked(p, spread)  BY WaitsOf
<1>1. PICK g \in [0 .. Len(p) -> Waits] :
         /\ \A i \in 1 .. Len(p) : g[i] = Waited(g[i - 1], p[i], spread[i])
         /\ at = [i \in 1 .. Len(p) |-> g[i].at]
  BY Zenon, <1>0 DEF Walked
<1> HIDE DEF at
<1>2. Len(p) \in Nat  BY DEF Signals
<1>3. ASSUME NEW i \in 1 .. Len(p)
      PROVE  /\ at[i] = "in" => p[i] = 1
             /\ i > 1 /\ Settled(at[i - 1]) /\ p[i] = 1 => at[i] = at[i - 1]
  <2>1. i - 1 \in 0 .. Len(p) /\ p[i] \in {0, 1}  BY <1>2 DEF Signals
  <2>2. g[i - 1] \in Waits /\ g[i] = Waited(g[i - 1], p[i], spread[i]) /\ at[i] = g[i].at
    BY <1>1, <2>1
  <2>3. i > 1 => at[i - 1] = g[i - 1].at
    <3>1. i > 1 => i - 1 \in 1 .. Len(p)  BY <1>2
    <3> QED  BY <1>1, <3>1
  <2> QED  BY <2>1, <2>2, <2>3 DEF Waited, Waits
<1> QED  BY <1>1, <1>3 DEF at
-----------------------------------------------------------------------------
(* The engines. *)

Ledgers(n) == [open : 0 .. n, trades : SUBSET ((0 .. n) \X (0 .. n)), earns : SUBSET (1 .. n), sides : Int]
Ledger(o, t, e, c) == [open |-> o, trades |-> t, earns |-> e, sides |-> c]
NoTrade == Ledger(0, {}, {}, 0)

\* A row with a position earns.
Marked(s, i) == [s EXCEPT !.earns = IF s.open > 0 THEN @ \union {i} ELSE @]

\* What a row makes of the ledger before it.
Traded(s, x, i, n) ==
    Marked(SoldOut(IF x = 1 /\ s.open = 0 THEN Bought(s, i)
                   ELSE IF ~(x = 1) /\ s.open > 0 THEN Sold(s, i) ELSE s, i, n), i)

Trading(g, p) ==
    g = [i \in 0 .. Len(p) |-> IF i = 0 THEN NoTrade ELSE Traded(g[i - 1], Held(p)[i], i, Len(p))]

WithTrade(t, o, i) == t \cup {<<o, i>>}
WithRow(e, i) == e \cup {i}

LEMMA LedgerFields ==
    ASSUME NEW o, NEW t, NEW e, NEW c
    PROVE  LET s == Ledger(o, t, e, c) IN
           /\ s.open = o /\ s.trades = t /\ s.earns = e /\ s.sides = c
           /\ \A i : Bought(s, i) = Ledger(i, t, e, c + 1)
           /\ \A i : Sold(s, i) = Ledger(0, WithTrade(t, o, i), e, c + 1)
           /\ \A i : o > 0 => Marked(s, i) = Ledger(o, t, WithRow(e, i), c)
           /\ \A i : ~(o > 0) => Marked(s, i) = s
<1> DEFINE s == Ledger(o, t, e, c)
<1>1. s.open = o /\ s.trades = t /\ s.earns = e /\ s.sides = c  BY DEF Ledger
<1>2. ASSUME NEW a, NEW b, NEW f, NEW d, NEW x
      PROVE  /\ [Ledger(a, b, f, d) EXCEPT !.open = x] = Ledger(x, b, f, d)
             /\ [Ledger(a, b, f, d) EXCEPT !.trades = x] = Ledger(a, x, f, d)
             /\ [Ledger(a, b, f, d) EXCEPT !.earns = x] = Ledger(a, b, x, d)
             /\ [Ledger(a, b, f, d) EXCEPT !.sides = x] = Ledger(a, b, f, x)
  BY DEF Ledger
<1>3. ASSUME NEW x, NEW y, NEW z
      PROVE  /\ [s EXCEPT !.open = x, !.sides = y] = Ledger(x, t, e, y)
             /\ [s EXCEPT !.open = x, !.sides = y, !.trades = z] = Ledger(x, z, e, y)
  <2> DEFINE s1 == [s EXCEPT !.open = x]
             s2 == [s1 EXCEPT !.sides = y]
  <2>1. [s EXCEPT !.open = x, !.sides = y] = s2  BY DEF Ledger
  <2>2. [s EXCEPT !.open = x, !.sides = y, !.trades = z] = [s2 EXCEPT !.trades = z]  BY DEF Ledger
  <2>3. s1 = Ledger(x, t, e, c)  BY <1>2
  <2> HIDE DEF s, s1
  <2>4. s2 = Ledger(x, t, e, y)  BY <1>2, <2>3
  <2> HIDE DEF s2
  <2>5. [s2 EXCEPT !.trades = z] = Ledger(x, z, e, y)  BY <1>2, <2>4
  <2> QED  BY <2>1, <2>2, <2>4, <2>5
<1>4. ASSUME NEW f  PROVE [s EXCEPT !.earns = f] = Ledger(o, t, f, c)  BY DEF Ledger
<1> HIDE DEF s
<1>5. ASSUME NEW i  PROVE Bought(s, i) = Ledger(i, t, e, c + 1)
  <2> DEFINE x == s.sides + 1
  <2>1. Bought(s, i) = [s EXCEPT !.open = i, !.sides = x]  BY DEF Bought
  <2>2. x = c + 1  BY <1>1
  <2> HIDE DEF x
  <2>3. [s EXCEPT !.open = i, !.sides = x] = Ledger(i, t, e, x)  BY <1>3
  <2> QED  BY <2>1, <2>2, <2>3
<1>6. ASSUME NEW i  PROVE Sold(s, i) = Ledger(0, WithTrade(t, o, i), e, c + 1)
  <2> DEFINE x == s.sides + 1
             y == s.trades \cup {<<s.open, i>>}
  <2>1. Sold(s, i) = [s EXCEPT !.open = 0, !.sides = x, !.trades = y]  BY DEF Sold
  <2>2. x = c + 1 /\ y = WithTrade(t, o, i)  BY <1>1 DEF WithTrade
  <2> HIDE DEF x, y
  <2>3. [s EXCEPT !.open = 0, !.sides = x, !.trades = y] = Ledger(0, y, e, x)  BY <1>3
  <2> QED  BY <2>1, <2>2, <2>3
<1>7. ASSUME NEW i
      PROVE  /\ o > 0 => Marked(s, i) = Ledger(o, t, WithRow(e, i), c)
             /\ ~(o > 0) => Marked(s, i) = Ledger(o, t, e, c)
  <2>1. ASSUME NEW f, f = IF o > 0 THEN WithRow(e, i) ELSE e  PROVE Marked(s, i) = Ledger(o, t, f, c)
    <3>1. f = IF s.open > 0 THEN s.earns \union {i} ELSE s.earns  BY <1>1, <2>1 DEF WithRow
    <3>2. Marked(s, i) = [s EXCEPT !.earns = f]  BY <3>1 DEF Marked
    <3> QED  BY <1>4, <3>2
  <2> QED  BY <2>1
<1> QED  BY <1>1, <1>5, <1>6, <1>7 DEF s

LEMMA LedgerType ==
    ASSUME NEW n \in Nat, NEW s \in Ledgers(n)
    PROVE  \E o \in 0 .. n, t \in SUBSET ((0 .. n) \X (0 .. n)), e \in SUBSET (1 .. n), c \in Int :
              s = Ledger(o, t, e, c)
<1>1. /\ s.open \in 0 .. n /\ s.trades \in SUBSET ((0 .. n) \X (0 .. n))
      /\ s.earns \in SUBSET (1 .. n) /\ s.sides \in Int
      /\ s = Ledger(s.open, s.trades, s.earns, s.sides)
  BY DEF Ledgers, Ledger
<1> QED  BY <1>1

\* What a row does to the ledger, by whether a position is wanted and held.
LEMMA TradedIs ==
    ASSUME NEW n \in Nat, NEW x, NEW i \in 1 .. n,
           NEW o \in 0 .. n, NEW t, NEW e, NEW c \in Int,
           NEW s, s = Ledger(o, t, e, c)
    PROVE  /\ x = 1 /\ o = 0 /\ i = n => Traded(s, x, i, n) = Ledger(0, WithTrade(t, i, i), e, c + 2)
           /\ x = 1 /\ o = 0 /\ i # n => Traded(s, x, i, n) = Ledger(i, t, WithRow(e, i), c + 1)
           /\ o > 0 /\ (x # 1 \/ i = n) =>
                Traded(s, x, i, n) = Ledger(0, WithTrade(t, o, i), e, c + 1)
           /\ o > 0 /\ x = 1 /\ i # n => Traded(s, x, i, n) = Ledger(o, t, WithRow(e, i), c)
           /\ o = 0 /\ x # 1 => Traded(s, x, i, n) = Ledger(o, t, e, c)
<1> DEFINE u == IF x = 1 /\ s.open = 0 THEN Bought(s, i)
                ELSE IF ~(x = 1) /\ s.open > 0 THEN Sold(s, i) ELSE s
           r == SoldOut(u, i, n)
<1>1. Traded(s, x, i, n) = Marked(r, i)
  BY DEF Traded
<1>2. s.open = o /\ Bought(s, i) = Ledger(i, t, e, c + 1)
      /\ Sold(s, i) = Ledger(0, WithTrade(t, o, i), e, c + 1)
  BY LedgerFields
<1>3. i > 0 /\ ~(0 > 0) /\ (o = 0 <=> ~(o > 0)) /\ (c + 1) + 1 = c + 2  OBVIOUS
<1>4. ASSUME NEW o1, NEW t1, NEW c1, r = Ledger(o1, t1, e, c1)
      PROVE  /\ o1 > 0 => Traded(s, x, i, n) = Ledger(o1, t1, WithRow(e, i), c1)
             /\ ~(o1 > 0) => Traded(s, x, i, n) = Ledger(o1, t1, e, c1)
  <2> HIDE DEF r
  <2> QED  BY <1>1, <1>4, LedgerFields
<1>5. ASSUME NEW o1, NEW t1, NEW c1
      PROVE  /\ Ledger(o1, t1, e, c1).open = o1
             /\ Sold(Ledger(o1, t1, e, c1), i) = Ledger(0, WithTrade(t1, o1, i), e, c1 + 1)
  BY LedgerFields
<1>6. /\ x = 1 /\ o = 0 => u = Ledger(i, t, e, c + 1)
      /\ ~(x = 1) /\ o > 0 => u = Ledger(0, WithTrade(t, o, i), e, c + 1)
      /\ ~(x = 1 /\ o = 0) /\ ~(~(x = 1) /\ o > 0) => u = Ledger(o, t, e, c)
  BY <1>2, <1>3
<1> HIDE DEF u
<1>7. ASSUME NEW o1, NEW t1, NEW c1, u = Ledger(o1, t1, e, c1)
      PROVE  /\ i = n /\ o1 > 0 => r = Ledger(0, WithTrade(t1, o1, i), e, c1 + 1)
             /\ ~(i = n /\ o1 > 0) => r = Ledger(o1, t1, e, c1)
  <2>1. u.open = o1 /\ Sold(u, i) = Ledger(0, WithTrade(t1, o1, i), e, c1 + 1)  BY <1>5, <1>7
  <2> QED  BY <1>7, <2>1 DEF SoldOut
<1> HIDE DEF r
<1>8. CASE x = 1 /\ o = 0 /\ i = n
  <2>1. r = Ledger(0, WithTrade(t, i, i), e, (c + 1) + 1)  BY <1>3, <1>6, <1>7, <1>8
  <2>2. r = Ledger(0, WithTrade(t, i, i), e, c + 2)  BY <1>3, <2>1
  <2> QED  BY <1>3, <1>4, <1>8, <2>2
<1>9. CASE x = 1 /\ o = 0 /\ i # n
  <2>1. r = Ledger(i, t, e, c + 1)  BY <1>6, <1>7, <1>9
  <2> QED  BY <1>3, <1>4, <1>9, <2>1
<1>10. CASE o > 0 /\ ~(x = 1)
  <2>1. r = Ledger(0, WithTrade(t, o, i), e, c + 1)  BY <1>3, <1>6, <1>7, <1>10
  <2> QED  BY <1>3, <1>4, <1>10, <2>1
<1>11. CASE o > 0 /\ x = 1 /\ i = n
  <2>1. r = Ledger(0, WithTrade(t, o, i), e, c + 1)  BY <1>3, <1>6, <1>7, <1>11
  <2> QED  BY <1>3, <1>4, <1>11, <2>1
<1>12. CASE o > 0 /\ x = 1 /\ i # n
  <2>1. r = Ledger(o, t, e, c)  BY <1>3, <1>6, <1>7, <1>12
  <2> QED  BY <1>3, <1>4, <1>12, <2>1
<1>13. CASE ~(o > 0) /\ ~(x = 1)
  <2>1. r = Ledger(o, t, e, c)  BY <1>3, <1>6, <1>7, <1>13
  <2> QED  BY <1>3, <1>4, <1>13, <2>1
<1> QED  BY <1>3, <1>8, <1>9, <1>10, <1>11, <1>12, <1>13

LEMMA TradedType ==
    ASSUME NEW n \in Nat, NEW s \in Ledgers(n), NEW x, NEW i \in 1 .. n
    PROVE  Traded(s, x, i, n) \in Ledgers(n)
<1>1. PICK o \in 0 .. n, t \in SUBSET ((0 .. n) \X (0 .. n)), e \in SUBSET (1 .. n), c \in Int :
         s = Ledger(o, t, e, c)
  BY LedgerType
<1>2. i \in 0 .. n /\ 0 \in 0 .. n  OBVIOUS
<1>3. /\ WithTrade(t, i, i) \in SUBSET ((0 .. n) \X (0 .. n))
      /\ WithTrade(t, o, i) \in SUBSET ((0 .. n) \X (0 .. n))
      /\ WithRow(e, i) \in SUBSET (1 .. n) /\ c + 1 \in Int /\ c + 2 \in Int
  BY <1>2 DEF WithTrade, WithRow
<1>4. \A a \in 0 .. n, b \in SUBSET ((0 .. n) \X (0 .. n)), f \in SUBSET (1 .. n), d \in Int :
         Ledger(a, b, f, d) \in Ledgers(n)
  BY DEF Ledger, Ledgers
<1>5. \/ Traded(s, x, i, n) = Ledger(0, WithTrade(t, i, i), e, c + 2)
      \/ Traded(s, x, i, n) = Ledger(i, t, WithRow(e, i), c + 1)
      \/ Traded(s, x, i, n) = Ledger(0, WithTrade(t, o, i), e, c + 1)
      \/ Traded(s, x, i, n) = Ledger(o, t, WithRow(e, i), c)
      \/ Traded(s, x, i, n) = Ledger(o, t, e, c)
  BY <1>1, TradedIs
<1> QED  BY <1>2, <1>3, <1>4, <1>5

LEMMA HeldType ==
    ASSUME NEW p, Signals(p)
    PROVE  /\ Held(p) = [i \in 1 .. Len(p) |-> Held(p)[i]]
           /\ \A i \in 1 .. Len(p) : Held(p)[i] \in {0, 1}
           /\ Len(p) > 0 => Held(p)[1] = 0
<1>1. DOMAIN p = 1 .. Len(p) /\ Len(p) \in Nat /\ \A i \in 1 .. Len(p) : p[i] \in {0, 1}
  BY DEF Signals
<1>2. \A i \in 1 .. Len(p) : i # 1 => i - 1 \in 1 .. Len(p)  BY <1>1
<1>3. Len(p) > 0 => 1 \in 1 .. Len(p)  BY <1>1
<1> QED  BY <1>1, <1>2, <1>3 DEF Held

LEMMA LedgersOf ==
    ASSUME NEW p, Signals(p)
    PROVE  \E g \in [0 .. Len(p) -> Ledgers(Len(p))] :
              /\ g[0] = NoTrade
              /\ \A i \in 1 .. Len(p) : g[i] = Traded(g[i - 1], Held(p)[i], i, Len(p))
              /\ EventRun(p) = [trades |-> g[Len(p)].trades, earns |-> g[Len(p)].earns,
                                sides |-> g[Len(p)].sides]
<1> DEFINE n == Len(p)
           S == Ledgers(n)
           h == Held(p)
           step == CHOOSE g : Trading(g, p)
           T == [i \in 1 .. n |-> [s \in S |-> Traded(s, h[i], i, n)]]
<1>1. n \in Nat  BY DEF Signals
<1>2. EventRun(p) = [trades |-> step[n].trades, earns |-> step[n].earns, sides |-> step[n].sides]
  BY Zenon DEF EventRun, Trading, Traded, Marked, NoTrade, Ledger
<1> HIDE DEF n, h, step
<1>3. ASSUME NEW i \in 1 .. n, NEW s \in S  PROVE Traded(s, h[i], i, n) \in S
  BY <1>1, TradedType
<1>4. NoTrade \in S  BY <1>1 DEF NoTrade, Ledger, Ledgers
<1> HIDE DEF S
<1>5. T \in [1 .. n -> [S -> S]]  BY <1>3
<1>6. \A i \in 1 .. n, s \in S : T[i][s] = Traded(s, h[i], i, n)  OBVIOUS
<1> HIDE DEF T
<1>7. PICK g : Stepping(g, n, S, NoTrade, T)  BY <1>1, <1>4, <1>5, StepsExist
<1>8. \A i \in 0 .. n : g[i] = IF i = 0 THEN NoTrade ELSE Traded(g[i - 1], h[i], i, n)
  <2> TAKE i \in 0 .. n
  <2>1. CASE i = 0  BY <1>7, <2>1 DEF Stepping
  <2>2. CASE i # 0
    <3>1. i \in 1 .. n /\ i - 1 \in 0 .. n  BY <1>1, <2>2
    <3>2. g[i - 1] \in S /\ g[i] = T[i][g[i - 1]]  BY <1>7, <3>1 DEF Stepping
    <3> QED  BY <1>6, <2>2, <3>1, <3>2
  <2> QED  BY <2>1, <2>2
<1>9. Trading(g, p)
  <2>1. g = [i \in 0 .. n |-> g[i]]  BY <1>7 DEF Stepping
  <2>2. g = [i \in 0 .. n |-> IF i = 0 THEN NoTrade ELSE Traded(g[i - 1], h[i], i, n)]
    BY <1>8, <2>1
  <2> QED  BY <2>2 DEF Trading, n, h
<1>10. Trading(step, p)  BY <1>9 DEF step
<1>11. /\ step = [i \in 0 .. n |-> step[i]] /\ step[0] = NoTrade
       /\ \A i \in 1 .. n : step[i] = Traded(step[i - 1], h[i], i, n)
  BY <1>1, <1>10 DEF Trading, n, h
<1>12. \A i \in 1 .. n : step[i - 1] \in S => step[i] = T[i][step[i - 1]]
  BY <1>6, <1>11
<1>13. Stepping(step, n, S, NoTrade, T)  BY <1>1, <1>4, <1>5, <1>11, <1>12, StepsTyped
<1>14. step \in [0 .. n -> S]  BY <1>13 DEF Stepping
<1> QED  BY <1>2, <1>11, <1>14 DEF n, h, S
\* The rows of a series of positions where one is opened, and where one is closed.
Flips(h, n, changes, ins, outs) ==
    /\ n \in Nat /\ \A i \in 1 .. n : h[i] \in {0, 1}
    /\ ins \subseteq 1 .. n /\ outs \subseteq 1 .. n
    /\ \A i \in 1 .. n : /\ changes[i] = h[i] - (IF i = 1 THEN 0 ELSE h[i - 1])
                         /\ i \in ins <=> changes[i] = 1
                         /\ i \in outs <=> changes[i] = -1
HeldLast(h, n) == IF n > 0 /\ h[n] = 1 THEN 1 ELSE 0

\* A position that was opened is closed, or open at the last row.
LEMMA FlipsPair ==
    ASSUME NEW n, NEW h, NEW changes, NEW ins, NEW outs, Flips(h, n, changes, ins, outs)
    PROVE  Cardinality(ins) + Cardinality(outs) + HeldLast(h, n) = 2 * Cardinality(ins)
<1> DEFINE flips == [i \in 1 .. n |-> h[i] - (IF i = 1 THEN 0 ELSE h[i - 1])]
           Flipped(v, k) == {i \in 1 .. n : i <= k /\ flips[i] = v}
           last(k) == IF k > 0 /\ h[k] = 1 THEN 1 ELSE 0
           In(k)   == Cardinality(Flipped(1, k))
           Left(k) == Cardinality(Flipped(-1, k))
           Bad == {k \in 0 .. n : Left(k) + last(k) # In(k)}
<1>0. /\ n \in Nat /\ \A i \in 1 .. n : h[i] \in {0, 1}
      /\ ins \subseteq 1 .. n /\ outs \subseteq 1 .. n
      /\ \A i \in 1 .. n : /\ changes[i] = h[i] - (IF i = 1 THEN 0 ELSE h[i - 1])
                           /\ i \in ins <=> changes[i] = 1
                           /\ i \in outs <=> changes[i] = -1
  BY DEF Flips
<1> USE <1>0
<1>1. \A i \in 1 .. n : /\ i > 1 => flips[i] = h[i] - h[i - 1] /\ h[i - 1] \in {0, 1}
                        /\ i = 1 => flips[i] = h[i]
                        /\ h[i] \in {0, 1}
  <2> TAKE i \in 1 .. n
  <2>1. i > 1 => i - 1 \in 1 .. n /\ i # 1  OBVIOUS
  <2>2. i = 1 => h[i] - 0 = h[i]  OBVIOUS
  <2> QED  BY <2>1, <2>2
<1>2. ASSUME NEW v, NEW k \in 0 .. n
      PROVE  IsFiniteSet(Flipped(v, k)) /\ Cardinality(Flipped(v, k)) \in Nat
  <2>1. IsFiniteSet(1 .. n) /\ Flipped(v, k) \subseteq 1 .. n  BY FS_Interval
  <2>2. IsFiniteSet(Flipped(v, k))  BY <2>1, FS_Subset
  <2> HIDE DEF Flipped
  <2> QED  BY <2>2, FS_CardinalityType
<1>3. ASSUME NEW v, NEW k \in 0 .. (n - 1)
      PROVE  Cardinality(Flipped(v, k + 1))
               = IF flips[k + 1] = v THEN Cardinality(Flipped(v, k)) + 1 ELSE Cardinality(Flipped(v, k))
  <2>1. k + 1 \in 1 .. n /\ k \in 0 .. n /\ \A i \in 1 .. n : i <= k + 1 <=> i <= k \/ i = k + 1
    OBVIOUS
  <2>2. IsFiniteSet(Flipped(v, k)) /\ k + 1 \notin Flipped(v, k)
    <3>1. ~(k + 1 <= k)  BY <2>1
    <3>2. k + 1 \notin Flipped(v, k)  BY <3>1
    <3> HIDE DEF Flipped
    <3> QED  BY <1>2, <2>1, <3>2
  <2>3. CASE flips[k + 1] = v
    <3>1. Flipped(v, k + 1) = Flipped(v, k) \cup {k + 1}  BY <2>1, <2>3
    <3> HIDE DEF Flipped, flips
    <3> QED  BY <2>2, <2>3, <3>1, FS_AddElement
  <2>4. CASE flips[k + 1] # v
    <3>1. Flipped(v, k + 1) = Flipped(v, k)  BY <2>1, <2>4
    <3> HIDE DEF Flipped, flips
    <3> QED  BY <2>4, <3>1
  <2> QED  BY <2>3, <2>4
<1> HIDE DEF flips
<1>4. Left(0) + last(0) = In(0)
  <2>1. Flipped(1, 0) = {} /\ Flipped(-1, 0) = {}  OBVIOUS
  <2> HIDE DEF Flipped
  <2>2. In(0) = 0 /\ Left(0) = 0  BY <2>1, FS_EmptySet
  <2>3. last(0) = 0  OBVIOUS
  <2> HIDE DEF In, Left, last
  <2> QED  BY <2>2, <2>3
<1>5. ASSUME NEW k \in 0 .. (n - 1), Left(k) + last(k) = In(k)
      PROVE  Left(k + 1) + last(k + 1) = In(k + 1)
  <2>1. PICK a \in Nat, b \in Nat : a = In(k) /\ b = Left(k)
    <3>1. k \in 0 .. n  OBVIOUS
    <3> HIDE DEF Flipped
    <3> QED  BY <1>2, <3>1
  <2>2. /\ In(k + 1) = IF flips[k + 1] = 1 THEN a + 1 ELSE a
        /\ Left(k + 1) = IF flips[k + 1] = -1 THEN b + 1 ELSE b
    <3> HIDE DEF Flipped
    <3> QED  BY <1>3, <2>1
  <2>3. k + 1 \in 1 .. n /\ h[k + 1] \in {0, 1}  BY <1>1
  <2>4. flips[k + 1] = h[k + 1] - last(k)
    <3>1. CASE k = 0  BY <1>1, <2>3, <3>1
    <3>2. CASE k # 0
      <4>1. k > 0 /\ k + 1 > 1 /\ (k + 1) - 1 = k  BY <3>2
      <4>2. flips[k + 1] = h[k + 1] - h[k] /\ h[k] \in {0, 1}  BY <1>1, <2>3, <4>1
      <4> QED  BY <4>1, <4>2
    <3> QED  BY <3>1, <3>2
  <2>5. PICK l \in {0, 1} : l = last(k)  OBVIOUS
  <2>6. b + l = a  BY <1>5, <2>1, <2>5
  <2>7. PICK x \in {0, 1} : x = h[k + 1] /\ x = last(k + 1)  BY <2>3
  <2>8. flips[k + 1] = x - l  BY <2>4, <2>5, <2>7
  <2>9. PICK c, d : c = In(k + 1) /\ d = Left(k + 1)  OBVIOUS
  <2>10. c = (IF x - l = 1 THEN a + 1 ELSE a) /\ d = (IF x - l = -1 THEN b + 1 ELSE b)
    BY <2>2, <2>8, <2>9
  <2>11. d + x = c  BY <2>6, <2>10
  <2> HIDE DEF In, Left, last
  <2> QED  BY <2>7, <2>9, <2>11
<1> HIDE DEF Flipped, In, Left, last
<1>6. Bad = {}
  <2> SUFFICES ASSUME Bad # {}  PROVE FALSE  OBVIOUS
  <2>1. Bad \subseteq Nat  OBVIOUS
  <2>2. PICK k \in Bad : \A j \in Bad : k <= j
    <3> HIDE DEF Bad
    <3> QED  BY <2>1, LeastNatural
  <2>3. k \in 0 .. n /\ k # 0  BY <1>4, <2>2
  <2>4. k - 1 \in 0 .. (n - 1) /\ (k - 1) + 1 = k /\ ~(k <= k - 1) /\ k - 1 \in 0 .. n  BY <2>3
  <2>5. Left(k - 1) + last(k - 1) = In(k - 1)  BY <2>2, <2>4
  <2> QED  BY <1>5, <2>2, <2>4, <2>5
<1>7. Left(n) + last(n) = In(n)  BY <1>6
<1>8. Flipped(1, n) = {i \in 1 .. n : flips[i] = 1} /\ Flipped(-1, n) = {i \in 1 .. n : flips[i] = -1}
  <2>1. \A i \in 1 .. n : i <= n  OBVIOUS
  <2> QED  BY <2>1 DEF Flipped
<1>9. In(n) \in Nat /\ Left(n) \in Nat  BY <1>2 DEF In, Left
<1>10. PICK a \in Nat, b \in Nat : a = In(n) /\ b = Left(n)  BY <1>9
<1>11. a + b + last(n) = 2 * a
  <2>1. last(n) \in {0, 1}  BY DEF last
  <2> QED  BY <1>7, <1>10, <2>1
<1>12. \A i \in 1 .. n : changes[i] = flips[i]  BY DEF flips
<1>13. ins = Flipped(1, n) /\ outs = Flipped(-1, n)
  <2>1. \A i \in 1 .. n : (i \in ins <=> flips[i] = 1) /\ (i \in outs <=> flips[i] = -1)
    BY <1>12
  <2>2. ins = {i \in 1 .. n : flips[i] = 1}  BY <2>1
  <2>3. outs = {i \in 1 .. n : flips[i] = -1}  BY <2>1
  <2> QED  BY <1>8, <2>2, <2>3
<1>14. Cardinality(ins) = a /\ Cardinality(outs) = b
  BY <1>10, <1>13 DEF In, Left
<1> QED  BY <1>11, <1>14 DEF last, HeldLast

\* The event engine at a row has the trades of the vector engine that have ended
\* by then, and the open one.
LEMMA EnginesSame ==
    ASSUME NEW p, Signals(p)
    PROVE  VectorRun(p) = EventRun(p)
<1> DEFINE n == Len(p)
           h == Held(p)
           flips == [i \in 1 .. n |-> h[i] - (IF i = 1 THEN 0 ELSE h[i - 1])]
           ins == {i \in 1 .. n : flips[i] = 1}
           later(i) == {j \in (i + 1) .. n : flips[j] = -1}
           outOf(i) == IF later(i) = {} THEN n ELSE Min(later(i))
           booked(S) == {<<i, outOf(i)>> : i \in S}
           Ins(k) == {i \in ins : i <= k}
           was(k) == k > 0 /\ k < n /\ h[k] = 1
           one(k) == IF was(k) THEN 1 ELSE 0
<1>1. PICK g \in [0 .. n -> Ledgers(n)] :
         /\ g[0] = NoTrade
         /\ \A i \in 1 .. n : g[i] = Traded(g[i - 1], h[i], i, n)
         /\ EventRun(p) = [trades |-> g[n].trades, earns |-> g[n].earns, sides |-> g[n].sides]
  BY LedgersOf
<1>2. VectorRun(p) = [trades |-> booked(ins), earns |-> {i \in 1 .. (n - 1) : h[i] = 1},
                      sides |-> 2 * Cardinality(ins)]
  <2> DEFINE outs == {i \in 1 .. n : flips[i] = -1}
             last == IF n > 0 /\ h[n] = 1 THEN 1 ELSE 0
  <2>1. n \in Nat /\ \A i \in 1 .. n : h[i] \in {0, 1}  BY HeldType DEF Signals
  <2>2. Cardinality(ins) + Cardinality(outs) + last = 2 * Cardinality(ins)
    <3>1. PICK l : l = last  OBVIOUS
    <3>2. /\ ins \subseteq 1 .. n /\ outs \subseteq 1 .. n
          /\ \A i \in 1 .. n : /\ flips[i] = h[i] - (IF i = 1 THEN 0 ELSE h[i - 1])
                               /\ i \in ins <=> flips[i] = 1
                               /\ i \in outs <=> flips[i] = -1
      OBVIOUS
    <3>3. l = HeldLast(h, n)  BY <3>1 DEF HeldLast
    <3> HIDE DEF n, h, flips, ins, outs, last
    <3>4. Flips(h, n, flips, ins, outs)  BY <2>1, <3>2 DEF Flips
    <3>5. Cardinality(ins) + Cardinality(outs) + HeldLast(h, n) = 2 * Cardinality(ins)
      BY <3>4, FlipsPair
    <3> QED  BY <3>1, <3>3, <3>5
  <2> QED  BY <2>2 DEF VectorRun
<1>3. n \in Nat /\ (\A i \in 1 .. n : h[i] \in {0, 1}) /\ (n > 0 => h[1] = 0)
  BY HeldType DEF Signals
<1> HIDE DEF n, h
<1>4. ASSUME NEW k \in 0 .. n - 1
      PROVE  /\ k + 1 \in 1 .. n /\ flips[k + 1] = h[k + 1] - (IF was(k) THEN 1 ELSE 0)
             /\ h[k + 1] \in {0, 1}
  <2>1. k + 1 \in 1 .. n /\ k \in Int /\ k < n  BY <1>3
  <2>2. h[k + 1] \in {0, 1}  BY <1>3, <2>1
  <2>3. CASE k = 0
    <3>1. flips[1] = h[1] - 0  BY <2>1, <2>3
    <3> QED  BY <2>1, <2>2, <2>3, <3>1
  <2>4. CASE k # 0
    <3>1. k \in 1 .. n /\ k > 0 /\ k + 1 # 1 /\ (k + 1) - 1 = k  BY <1>3, <2>1, <2>4
    <3>2. flips[k + 1] = h[k + 1] - h[k]  BY <2>1, <3>1
    <3>3. h[k] \in {0, 1}  BY <1>3, <3>1
    <3>4. was(k) <=> h[k] = 1  BY <2>1, <3>1
    <3> HIDE DEF was, flips
    <3> QED  BY <2>1, <2>2, <3>2, <3>3, <3>4
  <2> QED  BY <2>3, <2>4
<1>5. ins \subseteq 1 .. n /\ \A i \in 1 .. n : i \in ins <=> flips[i] = 1  OBVIOUS
<1>6. \A i \in 1 .. n : later(i) \subseteq 1 .. n
                        /\ \A j \in 1 .. n : j \in later(i) <=> i < j /\ flips[j] = -1
  BY <1>3
<1> HIDE DEF flips, ins, later
<1>7. \A k : IsFiniteSet(Ins(k)) /\ Ins(k) \subseteq 1 .. n /\ Cardinality(Ins(k)) \in Nat
  <2> TAKE k
  <2>1. Ins(k) \subseteq 1 .. n  BY <1>5
  <2>2. IsFiniteSet(1 .. n)  BY <1>3, FS_Interval
  <2>3. IsFiniteSet(Ins(k))  BY <2>1, <2>2, FS_Subset
  <2> HIDE DEF Ins
  <2> QED  BY <2>1, <2>3, FS_CardinalityType
\* The ledger after row k.
<1> DEFINE earned(k) == {j \in 1 .. k : j < n /\ h[j] = 1}
           Same(k) == \E o \in 0 .. n :
                        /\ g[k] = Ledger(o, booked(Ins(k) \ {o}), earned(k), 2 * Cardinality(Ins(k)) - one(k))
                        /\ o > 0 <=> was(k)
                        /\ o > 0 => o \in Ins(k) /\ \A j \in 1 .. k : o < j => flips[j] # -1
<1>8. Same(0)
  <2>1. Ins(0) = {} /\ earned(0) = {} /\ ~was(0)
    <3>1. \A i \in ins : i \in 1 .. n /\ ~(i <= 0)  BY <1>3, <1>5
    <3> QED  BY <3>1
  <2>2. Cardinality(Ins(0)) = 0  BY <2>1, FS_EmptySet
  <2>3. booked(Ins(0) \ {0}) = {}  BY <2>1
  <2>4. 2 * 0 - 0 = 0  OBVIOUS
  <2> HIDE DEF Ins, earned, was, booked
  <2>5. g[0] = Ledger(0, booked(Ins(0) \ {0}), earned(0), 2 * Cardinality(Ins(0)) - one(0))
    BY <1>1, <2>1, <2>2, <2>3, <2>4 DEF NoTrade
  <2>6. 0 \in 0 .. n /\ ~(0 > 0)  BY <1>3
  <2> QED  BY <2>1, <2>5, <2>6
<1>9. ASSUME NEW k \in 0 .. n - 1, Same(k)  PROVE Same(k + 1)
  <2> DEFINE i == k + 1
             c == 2 * Cardinality(Ins(k)) - one(k)
  <2>1. PICK o \in 0 .. n :
           /\ g[k] = Ledger(o, booked(Ins(k) \ {o}), earned(k), c)
           /\ o > 0 <=> was(k)
           /\ o > 0 => o \in Ins(k) /\ \A j \in 1 .. k : o < j => flips[j] # -1
    BY <1>9
  <2> DEFINE t == booked(Ins(k) \ {o})
  <2>2. i \in 1 .. n /\ i - 1 = k /\ k \in Nat /\ k < n /\ i > 0 /\ i \in Int /\ i \in 0 .. n
    BY <1>3, <1>4
  <2>3. flips[i] = h[i] - (IF o > 0 THEN 1 ELSE 0) /\ h[i] \in {0, 1}  BY <1>4, <2>1
  <2>4. (o = 0 <=> ~(o > 0)) /\ o \in Int  BY <1>3
  <2>5. c \in Int /\ c = 2 * Cardinality(Ins(k)) - (IF o > 0 THEN 1 ELSE 0)
    <3>1. Cardinality(Ins(k)) \in Nat  BY <1>7
    <3> HIDE DEF Ins, was
    <3> QED  BY <2>1, <3>1
  <2>6. \A j \in ins : j \in 1 .. n /\ j \in Int  BY <1>3, <1>5
  <2>7. /\ flips[i] = 1 => Ins(i) = Ins(k) \cup {i} /\ i \notin Ins(k)
                           /\ Cardinality(Ins(i)) = Cardinality(Ins(k)) + 1
        /\ flips[i] # 1 => Ins(i) = Ins(k)
    <3>1. \A j \in ins : j <= i <=> j <= k \/ j = i  BY <2>2, <2>6
    <3>2. i \in ins <=> flips[i] = 1  BY <1>5, <2>2
    <3>3. i \notin Ins(k)  BY <2>2
    <3>4. flips[i] = 1 => Ins(i) = Ins(k) \cup {i}  BY <3>1, <3>2, <2>2
    <3>5. flips[i] # 1 => Ins(i) = Ins(k)  BY <3>1, <3>2
    <3>6. Cardinality(Ins(k) \cup {i}) = Cardinality(Ins(k)) + 1
      <4>1. IsFiniteSet(Ins(k))  BY <1>7
      <4> HIDE DEF Ins
      <4> QED  BY <3>3, <4>1, FS_AddElement
    <3> HIDE DEF Ins
    <3> QED  BY <3>3, <3>4, <3>5, <3>6
  <2>8. earned(i) = IF i < n /\ h[i] = 1 THEN WithRow(earned(k), i) ELSE earned(k)
    <3>1. \A j : j \in 1 .. i <=> j \in 1 .. k \/ j = i  BY <2>2
    <3> HIDE DEF h, i
    <3> QED  BY <3>1 DEF WithRow
  <2>9. was(i) <=> i < n /\ h[i] = 1  BY <2>2
  <2>10. \A S, j : booked(S \cup {j}) = WithTrade(booked(S), j, outOf(j))  BY DEF WithTrade
  <2>11. 0 \notin Ins(k) /\ 0 \notin Ins(i)  BY <2>6
  \* What is sold at row i, as the vector engine has it.
  <2>12. ASSUME NEW j \in Ins(i), \A m \in 1 .. k : j < m => flips[m] # -1,
                flips[i] = -1 \/ i = n
         PROVE  outOf(j) = i
    <3>1. j \in 1 .. n /\ j <= i  BY <2>6
    <3>2. \A m \in later(j) : m \in 1 .. n /\ j < m /\ flips[m] = -1 /\ m \in Int  BY <1>3, <1>6, <3>1
    <3>3. \A m \in later(j) : i <= m
      <4> SUFFICES ASSUME NEW m \in later(j), ~(i <= m)  PROVE FALSE  OBVIOUS
      <4>1. m \in 1 .. k  BY <2>2, <3>2
      <4> QED  BY <2>12, <3>2, <4>1
    <3>4. CASE flips[i] = -1 /\ j < i
      <4>1. i \in later(j)  BY <1>6, <2>2, <3>1, <3>4
      <4>2. later(j) \in SUBSET Int  BY <3>2
      <4>3. Min(later(j)) = i  BY <3>3, <4>1, <4>2, MinIs
      <4> QED  BY <4>1, <4>3
    <3>5. CASE i = n /\ ~(flips[i] = -1 /\ j < i)
      <4>1. later(j) = {}
        <5> SUFFICES ASSUME NEW m \in later(j)  PROVE FALSE  OBVIOUS
        <5>1. m = i  BY <1>3, <2>2, <3>2, <3>3, <3>5
        <5> QED  BY <3>2, <3>5, <5>1
      <4> QED  BY <3>5, <4>1
    <3>6. CASE flips[i] = -1 /\ ~(j < i)
      <4>1. j = i  BY <2>2, <3>1, <3>6
      <4>2. i \in ins  BY <4>1
      <4> QED  BY <1>5, <2>2, <3>6, <4>2
    <3> QED  BY <2>12, <3>4, <3>5, <3>6
  <2>13. g[i] = Traded(g[k], h[i], i, n)  BY <1>1, <2>2
  <2>14. /\ h[i] = 1 /\ o = 0 /\ i = n => g[i] = Ledger(0, WithTrade(t, i, i), earned(k), c + 2)
         /\ h[i] = 1 /\ o = 0 /\ i # n => g[i] = Ledger(i, t, WithRow(earned(k), i), c + 1)
         /\ o > 0 /\ (h[i] # 1 \/ i = n) => g[i] = Ledger(0, WithTrade(t, o, i), earned(k), c + 1)
         /\ o > 0 /\ h[i] = 1 /\ i # n => g[i] = Ledger(o, t, WithRow(earned(k), i), c)
         /\ o = 0 /\ h[i] # 1 => g[i] = Ledger(o, t, earned(k), c)
    <3> HIDE DEF t, c, i, earned, was, booked, Ins, outOf
    <3>1. g[k] = Ledger(o, t, earned(k), c)  BY <2>1 DEF t, c
    <3>2. n \in Nat /\ i \in 1 .. n /\ c \in Int  BY <1>3, <2>2, <2>5
    <3> QED  BY <2>13, <3>1, <3>2, TradedIs
  <2>15. ASSUME NEW x \in 0 .. n,
                g[i] = Ledger(x, booked(Ins(i) \ {x}), earned(i), 2 * Cardinality(Ins(i)) - one(i)),
                x > 0 <=> was(i),
                x > 0 => x \in Ins(i) /\ \A j \in 1 .. i : x < j => flips[j] # -1
         PROVE  Same(i)
    BY <2>15
  <2>16. PICK m \in Nat : m = Cardinality(Ins(k))  BY <1>7
  <2>17. 0 \in 0 .. n /\ ~(0 > 0) /\ -1 # 1  BY <1>3
  <2>18. Ins(i) \ {0} = Ins(i)  BY <2>11
  <2> SUFFICES Same(i)  OBVIOUS
  <2> HIDE DEF booked, outOf, Ins, earned, was, Same, i
  <2>19. one(i) = IF i < n /\ h[i] = 1 THEN 1 ELSE 0  BY <2>9
  <2>20. c = 2 * m - (IF o > 0 THEN 1 ELSE 0)  BY <2>5, <2>16
  <2>21. CASE h[i] = 1 /\ o = 0
    <3>1. flips[i] = 1  BY <2>3, <2>4, <2>21
    <3>2. /\ Ins(i) = Ins(k) \cup {i} /\ i \notin Ins(k) /\ Cardinality(Ins(i)) = m + 1
      BY <2>7, <2>16, <3>1
    <3>3. Ins(k) \ {o} = Ins(k)  BY <2>11, <2>21
    <3>4. t = booked(Ins(k))  BY <3>3
    <3>5. CASE i = n
      <4>1. g[i] = Ledger(0, WithTrade(t, i, i), earned(k), c + 2)  BY <2>14, <2>21, <3>5
      <4>2. \A j \in 1 .. k : i < j => flips[j] # -1  BY <2>2
      <4>3. outOf(i) = i  BY <2>12, <3>2, <3>5, <4>2
      <4>4. booked(Ins(i) \ {0}) = WithTrade(t, i, i)  BY <2>10, <2>18, <3>2, <3>4, <4>3
      <4>5. ~was(i) /\ one(i) = 0 /\ earned(i) = earned(k)  BY <2>2, <2>8, <2>9, <2>19, <3>5
      <4>6. 2 * (m + 1) - 0 = c + 2  BY <2>4, <2>20, <2>21
      <4>7. 2 * Cardinality(Ins(i)) - one(i) = c + 2  BY <3>2, <4>5, <4>6
      <4> HIDE DEF one, t, c
      <4> QED  BY <2>15, <2>17, <4>1, <4>4, <4>5, <4>7
    <3>6. CASE i # n
      <4>1. g[i] = Ledger(i, t, WithRow(earned(k), i), c + 1)  BY <2>14, <2>21, <3>6
      <4>2. \A j \in 1 .. i : i < j => flips[j] # -1  BY <2>2
      <4>3. Ins(i) \ {i} = Ins(k)  BY <3>2
      <4>4. i < n  BY <1>3, <2>2, <3>6
      <4>5. was(i) /\ one(i) = 1 /\ earned(i) = WithRow(earned(k), i)  BY <2>8, <2>9, <2>19, <2>21, <4>4
      <4>6. 2 * (m + 1) - 1 = c + 1  BY <2>4, <2>20, <2>21
      <4>7. 2 * Cardinality(Ins(i)) - one(i) = c + 1  BY <3>2, <4>5, <4>6
      <4>8. i \in Ins(i)  BY <3>2
      <4>9. g[i] = Ledger(i, booked(Ins(i) \ {i}), earned(i), 2 * Cardinality(Ins(i)) - one(i))
        BY <3>4, <4>1, <4>3, <4>5, <4>7
      <4> HIDE DEF one, t, c
      <4> QED  BY <2>2, <2>15, <4>2, <4>5, <4>8, <4>9
    <3> QED  BY <3>5, <3>6
  <2>22. CASE o > 0 /\ (h[i] # 1 \/ i = n)
    <3>1. g[i] = Ledger(0, WithTrade(t, o, i), earned(k), c + 1)  BY <2>4, <2>14, <2>22
    <3>2. flips[i] # 1 /\ (h[i] # 1 => flips[i] = -1)  BY <2>3, <2>22
    <3>3. Ins(i) = Ins(k) /\ Cardinality(Ins(i)) = m  BY <2>7, <2>16, <3>2
    <3>4. o \in Ins(i) /\ \A j \in 1 .. k : o < j => flips[j] # -1  BY <2>1, <2>22, <3>3
    <3>5. outOf(o) = i  BY <2>12, <2>22, <3>2, <3>4
    <3>6. Ins(i) = (Ins(k) \ {o}) \cup {o}  BY <3>3, <3>4
    <3>7. booked(Ins(i) \ {0}) = WithTrade(t, o, i)  BY <2>10, <2>18, <3>5, <3>6
    <3>8. ~(i < n /\ h[i] = 1)  BY <2>2, <2>22
    <3>9. ~was(i) /\ one(i) = 0 /\ earned(i) = earned(k)  BY <2>8, <2>9, <2>19, <3>8
    <3>10. 2 * m - 0 = c + 1  BY <2>20, <2>22
    <3>11. 2 * Cardinality(Ins(i)) - one(i) = c + 1  BY <3>3, <3>9, <3>10
    <3> HIDE DEF one, t, c
    <3> QED  BY <2>15, <2>17, <3>1, <3>7, <3>9, <3>11
  <2>23. CASE o > 0 /\ h[i] = 1 /\ i # n
    <3>1. g[i] = Ledger(o, t, WithRow(earned(k), i), c)  BY <2>4, <2>14, <2>23
    <3>2. flips[i] = 0  BY <2>3, <2>23
    <3>3. Ins(i) = Ins(k) /\ Cardinality(Ins(i)) = m  BY <2>7, <2>16, <3>2
    <3>4. i < n  BY <1>3, <2>2, <2>23
    <3>5. was(i) /\ one(i) = 1 /\ earned(i) = WithRow(earned(k), i)  BY <2>8, <2>9, <2>19, <2>23, <3>4
    <3>6. 2 * Cardinality(Ins(i)) - one(i) = c  BY <2>20, <2>23, <3>3, <3>5
    <3>7. o \in Ins(i)  BY <2>1, <2>23, <3>3
    <3>8. \A j \in 1 .. i : j \in 1 .. k \/ j = i  BY <2>2
    <3>9. \A j \in 1 .. i : o < j => flips[j] # -1  BY <2>1, <2>23, <3>2, <3>8
    <3>10. g[i] = Ledger(o, booked(Ins(i) \ {o}), earned(i), 2 * Cardinality(Ins(i)) - one(i))
      BY <3>1, <3>3, <3>5, <3>6
    <3> HIDE DEF one, t, c
    <3> QED  BY <2>15, <2>23, <3>5, <3>7, <3>9, <3>10
  <2>24. CASE o = 0 /\ h[i] # 1
    <3>1. g[i] = Ledger(o, t, earned(k), c)  BY <2>4, <2>14, <2>24
    <3>2. flips[i] # 1  BY <2>3, <2>4, <2>24
    <3>3. Ins(i) = Ins(k) /\ Cardinality(Ins(i)) = m  BY <2>7, <2>16, <3>2
    <3>4. ~was(i) /\ one(i) = 0 /\ earned(i) = earned(k)  BY <2>8, <2>9, <2>19, <2>24
    <3>5. 2 * Cardinality(Ins(i)) - one(i) = c  BY <2>4, <2>20, <2>24, <3>3, <3>4
    <3>6. g[i] = Ledger(o, booked(Ins(i) \ {o}), earned(i), 2 * Cardinality(Ins(i)) - one(i))
      BY <3>1, <3>3, <3>4, <3>5
    <3> HIDE DEF one, t, c
    <3> QED  BY <2>4, <2>15, <2>24, <3>4, <3>6
  <2> QED  BY <2>3, <2>4, <2>21, <2>22, <2>23, <2>24
<1> HIDE DEF Same
<1>10. Same(n)
  <2> DEFINE Bad == {k \in 0 .. n : ~Same(k)}
  <2> SUFFICES ASSUME Bad # {}  PROVE FALSE  BY <1>3
  <2>1. Bad \subseteq Nat  OBVIOUS
  <2>2. PICK k \in Bad : \A j \in Bad : k <= j
    <3> HIDE DEF Bad
    <3> QED  BY <2>1, LeastNatural
  <2>3. k \in 0 .. n /\ k # 0 /\ ~Same(k)  BY <1>8, <2>2
  <2>4. k - 1 \in 0 .. n - 1 /\ (k - 1) + 1 = k /\ ~(k <= k - 1) /\ k - 1 \in 0 .. n  BY <1>3, <2>3
  <2>5. Same(k - 1)  BY <2>2, <2>4
  <2> QED  BY <1>9, <2>3, <2>4, <2>5
<1>11. PICK o \in 0 .. n :
         /\ g[n] = Ledger(o, booked(Ins(n) \ {o}), earned(n), 2 * Cardinality(Ins(n)) - one(n))
         /\ o > 0 <=> was(n)
  BY <1>10 DEF Same
<1>12. ~was(n) /\ o = 0 /\ one(n) = 0  BY <1>3, <1>11
<1>13. Ins(n) = ins /\ 0 \notin ins
  <2>1. \A i \in ins : i \in 1 .. n /\ i <= n /\ i # 0  BY <1>3, <1>5
  <2> QED  BY <2>1
<1>14. earned(n) = {i \in 1 .. (n - 1) : h[i] = 1}
  <2>1. \A j : j \in 1 .. n /\ j < n <=> j \in 1 .. (n - 1)  BY <1>3
  <2> QED  BY <2>1
<1>15. Ins(n) \ {o} = ins  BY <1>12, <1>13
<1>16. Cardinality(ins) \in Nat  BY <1>7, <1>13
<1> HIDE DEF booked, Ins, earned, one, was
<1>17. 2 * Cardinality(Ins(n)) - one(n) = 2 * Cardinality(ins)  BY <1>12, <1>13, <1>16
<1>18. g[n] = Ledger(o, booked(ins), earned(n), 2 * Cardinality(ins))  BY <1>11, <1>15, <1>17
<1>19. /\ g[n].trades = booked(ins) /\ g[n].earns = earned(n) /\ g[n].sides = 2 * Cardinality(ins)
  BY <1>18, LedgerFields
<1> QED  BY <1>1, <1>2, <1>14, <1>19 DEF n, h
-----------------------------------------------------------------------------
(* The series that the research holds. *)

\* What is held once entries wait for a narrow spread.
Taken(at) == [i \in DOMAIN at |-> IF at[i] = "in" THEN 1 ELSE 0]

Delayed(p, at, timed) == \E spread : at = Overlay(p, spread) /\ timed = Taken(at)

\* The overlay's series is a series of positions, within the one it re-times.
LEMMA DelayedSound ==
    ASSUME NEW p, Signals(p), NEW at, NEW timed, Delayed(p, at, timed)
    PROVE  /\ Signals(timed)
           /\ \A i \in DOMAIN p :
                /\ timed[i] = 1 => p[i] = 1
                /\ i > 1 /\ timed[i - 1] = 1 /\ p[i] = 1 => timed[i] = 1
                /\ i > 1 /\ at[i - 1] = "skipped" /\ p[i] = 1 => timed[i] = 0
<1> DEFINE n == Len(p)
<1>1. PICK spread : at = Overlay(p, spread) /\ timed = Taken(at)  BY DEF Delayed
<1>2. /\ DOMAIN at = 1 .. n
      /\ \A i \in 1 .. n :
           /\ at[i] = "in" => p[i] = 1
           /\ i > 1 /\ Settled(at[i - 1]) /\ p[i] = 1 => at[i] = at[i - 1]
  BY <1>1, OverlayDelays
<1>3. n \in Nat /\ DOMAIN p = 1 .. n  BY DEF Signals
<1> HIDE DEF n
<1>4. \A i \in 1 .. n : timed[i] = IF at[i] = "in" THEN 1 ELSE 0  BY <1>1, <1>2 DEF Taken
<1>5. timed \in [1 .. n -> {0, 1}]  BY <1>1, <1>2 DEF Taken
<1>6. Signals(timed)
  <2>1. timed \in Seq({0, 1}) /\ Len(timed) = n  BY <1>3, <1>5
  <2> QED  BY <1>3, <1>5, <2>1 DEF Signals
<1>7. \A i \in 1 .. n : i > 1 => i - 1 \in 1 .. n  BY <1>3
<1> QED  BY <1>2, <1>3, <1>4, <1>6, <1>7 DEF Settled

\* Positions are held as 0 and 1, and an ablation re-times those of the cell.
Decided ==
    /\ "phase" \in DOMAIN lab
    /\ lab.phase = "fitted" => \E n \in Nat : DOMAIN lab.moves = 1 .. n
    /\ lab.phase = "decided" =>
         /\ {"pos", "waits", "timed"} \subseteq DOMAIN lab
         /\ Signals(lab.pos)
         /\ lab.timed # <<>> => Delayed(lab.pos, lab.waits, lab.timed)

LEMMA FittedRows ==
    ASSUME CacheSound, NEW h \in Horizons \cup ShortHorizons, NEW k, WalkForward(h, k)
    PROVE  Decided'
<1> DEFINE q == Sorted(cache)
           K == {x \in FoldIds(q) : Fits(q, h, x)} \ k
           tested == UNION {TestRows(q, h, x) : x \in K}
           w == Stitched(q, h, K)
<1>1. PICK f : lab' = [phase |-> "fitted", rows |-> q, h |-> h, folds |-> K,
                       moves |-> [i \in DOMAIN w |-> f[i]]]
  <2>1. PICK m : lab' = [phase |-> "fitted", rows |-> q, h |-> h, folds |-> K,
                         moves |-> [i \in DOMAIN w |-> m[FoldOf(q, h, K, w[i])]]]
    BY DEF WalkForward, LoadCache
  <2> DEFINE f == [i \in DOMAIN w |-> m[FoldOf(q, h, K, w[i])]]
  <2>2. f = [i \in DOMAIN w |-> f[i]]  OBVIOUS
  <2>3. lab' = [phase |-> "fitted", rows |-> q, h |-> h, folds |-> K, moves |-> f]  BY <2>1
  <2> HIDE DEF f, q, K, w
  <2>4. lab' = [phase |-> "fitted", rows |-> q, h |-> h, folds |-> K,
                moves |-> [i \in DOMAIN w |-> f[i]]]
    BY <2>2, <2>3
  <2> QED  BY <2>4
<1>2. Len(q) \in Nat
  <2>1. cache \in SUBSET Int /\ IsFiniteSet(cache)  BY CacheType DEF CacheSound
  <2>2. q \in Seq(cache)  BY <2>1, SortedIsIncreasing DEF Increasing
  <2> QED  BY <2>2
<1>3. tested \subseteq 1 .. Len(q)
  <2>1. \A x : TestRows(q, h, x) \subseteq Labelled(q, h)  BY DEF TestRows, Between
  <2>2. \A i \in Labelled(q, h) : i \in 1 .. Len(q)
    <3>1. cache \in SUBSET Int /\ IsFiniteSet(cache)  BY CacheType DEF CacheSound
    <3>2. q \in Seq(cache)  BY <3>1, SortedIsIncreasing DEF Increasing
    <3> HIDE DEF q
    <3>3. DOMAIN q = 1 .. Len(q)  BY <3>2
    <3> QED  BY <3>3 DEF Labelled
  <2> HIDE DEF q, K
  <2> QED  BY <2>1, <2>2
<1>4. w = Sorted(tested)  BY DEF Stitched
<1> HIDE DEF tested, q, K
<1>5. Cardinality(tested) \in Nat
  <2>1. IsFiniteSet(1 .. Len(q))  BY <1>2, FS_Interval
  <2>2. IsFiniteSet(tested)  BY <1>3, <2>1, FS_Subset
  <2> QED  BY <2>2, FS_CardinalityType
<1>6. DOMAIN w = 1 .. Cardinality(tested)  BY <1>4 DEF Sorted
<1> HIDE DEF w
<1>7. "phase" \in DOMAIN lab' /\ lab'.phase = "fitted"
      /\ lab'.moves = [i \in DOMAIN w |-> f[i]]
  BY <1>1
<1>8. DOMAIN lab'.moves = 1 .. Cardinality(tested)  BY <1>6, <1>7
<1> QED  BY <1>5, <1>7, <1>8 DEF Decided

LEMMA PositionsDecided ==
    ASSUME Decided, NEW prof, Decide(prof)
    PROVE  Decided'
<1>1. PICK n \in Nat : DOMAIN lab.moves = 1 .. n  BY DEF Decided, Decide
<1>2. PICK p : /\ lab' = [phase |-> "decided", timed |-> <<>>, waits |-> <<>>, pos |-> p]
               /\ \E prob, close : p = Positions(lab.h, lab.moves, prob, close, prof)
  BY DEF Decide
<1>3. p \in [1 .. n -> {0, 1}]
  <2>1. PICK prob, close : p = Positions(lab.h, lab.moves, prob, close, prof)  BY <1>2
  <2> DEFINE step == CHOOSE s : s = [i \in 0 .. Len(lab.moves) |->
                        IF i = 0 THEN [in |-> FALSE, high |-> 0, held |-> 0]
                        ELSE LET r == s[i - 1]
                                 high == Max({r.high, close[i]})
                             IN IF r.in
                                THEN [in   |-> ~ (\/ prob[i] = "decay"
                                                  \/ close[i] <= high - TrailGap
                                                  \/ r.held + 1 >= HoldMultiple * lab.h),
                                      high |-> high, held |-> r.held + 1]
                                ELSE [in   |-> Enters(prob[i], lab.moves[i], prof),
                                      high |-> close[i], held |-> 0]]
  <2>2. p = [i \in 1 .. n |-> IF step[i].in THEN 1 ELSE 0]
    BY <1>1, <2>1, Zenon DEF Positions
  <2> HIDE DEF step
  <2> QED  BY <2>2
<1>4. Signals(p)
  <2>1. p \in Seq({0, 1}) /\ Len(p) = n  BY <1>3
  <2> QED  BY <1>3, <2>1 DEF Signals
<1>5. /\ {"phase", "pos", "waits", "timed"} \subseteq DOMAIN lab'
      /\ lab'.phase = "decided" /\ lab'.pos = p /\ lab'.timed = <<>>
  BY <1>2
<1> QED  BY <1>4, <1>5 DEF Decided, Signals

LEMMA OverlayApplied ==
    ASSUME Decided, Ablate
    PROVE  Decided'
<1>1. lab.phase = "decided" /\ {"phase", "pos", "waits", "timed"} \subseteq DOMAIN lab
      /\ Signals(lab.pos)
  BY DEF Decided, Ablate
<1>2. PICK spread : lab' = [lab EXCEPT !.waits = Overlay(lab.pos, spread),
                                     !.timed = Taken(Overlay(lab.pos, spread))]
  BY Zenon DEF Ablate, Taken
<1>3. PICK p, at, timed : p = lab.pos /\ at = Overlay(p, spread) /\ timed = Taken(at)  OBVIOUS
<1>4. lab' = [lab EXCEPT !.waits = at, !.timed = timed]  BY <1>2, <1>3
<1>5. /\ DOMAIN lab' = DOMAIN lab /\ lab'.phase = "decided" /\ lab'.pos = p
      /\ lab'.waits = at /\ lab'.timed = timed
  BY <1>1, <1>3, <1>4
<1>6. Delayed(p, at, timed)  BY <1>3 DEF Delayed
<1> QED  BY <1>1, <1>3, <1>5, <1>6 DEF Decided, Signals, Delayed

LEMMA Undecided ==
    ASSUME "phase" \in DOMAIN lab', lab'.phase # "fitted", lab'.phase # "decided"
    PROVE  Decided'
  BY DEF Decided

LEMMA ResearchDecides ==
    ASSUME CacheSound, Decided, LabNext
    PROVE  Decided'
<1>1. "phase" \in DOMAIN lab  BY DEF Decided
<1>2. CASE NextBar \/ FetchAll  BY <1>2 DEF NextBar, FetchAll, Decided
<1>3. ASSUME NEW h \in Horizons \cup ShortHorizons, NEW k, WalkForward(h, k)  PROVE Decided'
  BY <1>3, FittedRows
<1>4. ASSUME NEW p, Decide(p)  PROVE Decided'  BY <1>4, PositionsDecided
<1>5. ASSUME NEW p, JudgeMl(p)  PROVE Decided'
  <2>1. PICK v : lab' = [lab EXCEPT !.verdicts[p] = v]  BY <1>5 DEF JudgeMl
  <2>2. lab.phase = "swept"  BY <1>5 DEF JudgeMl
  <2>3. "phase" \in DOMAIN lab' /\ lab'.phase = "swept"  BY <1>1, <2>1, <2>2
  <2> QED  BY <2>3, Undecided
<1>6. CASE Ablate  BY <1>6, OverlayApplied
<1>7. CASE Sweep  BY <1>7, Undecided DEF Sweep
<1>8. CASE ReportMl \/ ReportTrend  BY <1>8, Undecided DEF ReportMl, ReportTrend, Idle
<1>9. CASE TrendGrid \/ TrendValidation
  <2>1. "phase" \in DOMAIN lab' /\ (lab'.phase = "grid" \/ lab'.phase = "trend")
    BY <1>9 DEF TrendGrid, TrendValidation
  <2> QED  BY <2>1, Undecided
<1> QED  BY <1>2, <1>3, <1>4, <1>5, <1>6, <1>7, <1>8, <1>9 DEF LabNext

\* The loop over bars and the masks over the whole series, and the ledger that
\* is walked row by row, book the same trades, costs and rows, for the positions
\* of a cell and for those an overlay has delayed (ftr/backtest/vector_engine,
\* event_engine, strategies/liquidity), for every series of positions of any
\* length, not only for those of the runs.
THEOREM TheEnginesAgree == FtrSpec => []EnginesAgree
<1>1. LabInit => CacheSound /\ Decided
  BY ResearchStarts DEF LabInit, Decided, Idle
<1>2. CacheSound /\ Decided
        /\ [(LabNext /\ UNCHANGED trdVars) \/ (TrdNext /\ UNCHANGED labVars)]_<<labVars, trdVars>>
        => CacheSound' /\ Decided'
  <2> SUFFICES ASSUME CacheSound, Decided,
                 [(LabNext /\ UNCHANGED trdVars) \/ (TrdNext /\ UNCHANGED labVars)]_<<labVars, trdVars>>
               PROVE  CacheSound' /\ Decided'
    OBVIOUS
  <2>1. CASE LabNext  BY <2>1, ResearchKeepsCache, ResearchDecides
  <2>2. CASE UNCHANGED labVars  BY <2>2 DEF labVars, CacheSound, HolesAreOutages, Decided
  <2> QED  BY <2>1, <2>2
<1>3. ASSUME Decided  PROVE EnginesAgree
  <2>1. lab.phase = "decided" => VectorRun(lab.pos) = EventRun(lab.pos)
    BY <1>3, EnginesSame DEF Decided
  <2>2. ASSUME lab.phase = "decided", lab.timed # <<>>
        PROVE  /\ VectorRun(lab.timed) = EventRun(lab.timed)
               /\ \A i \in DOMAIN lab.pos :
                    /\ lab.timed[i] = 1 => lab.pos[i] = 1
                    /\ i > 1 /\ lab.timed[i - 1] = 1 /\ lab.pos[i] = 1 => lab.timed[i] = 1
                    /\ i > 1 /\ lab.waits[i - 1] = "skipped" /\ lab.pos[i] = 1 => lab.timed[i] = 0
    <3>1. Signals(lab.pos) /\ Delayed(lab.pos, lab.waits, lab.timed)  BY <1>3, <2>2 DEF Decided
    <3>2. Signals(lab.timed)  BY <3>1, DelayedSound
    <3> QED  BY <3>1, <3>2, DelayedSound, EnginesSame
  <2> QED  BY <2>1, <2>2 DEF EnginesAgree, OverlayOnlyDelays
<1> QED  BY <1>1, <1>2, <1>3, PTL DEF FtrSpec
-----------------------------------------------------------------------------
(* The trend grid, with the bars up to one and with all of them. *)

\* Price histories of n bars.
History(closes, n) == n \in Nat /\ closes \in [ToSet(Coins) -> [1 .. n -> Int]]

\* The states of compute_asset_signals, and what a bar makes of the one before.
AssetStates == [in : BOOLEAN, high : Int, until : Int]
Out == [in |-> FALSE, high |-> 0, until |-> 0]

AssetStep(p, s, closes, volumes, gate, c, i) ==
    LET high  == Max({p.high, s[i]})
        rises == i > 1 /\ s[i] > s[i - 1]
        falls == i > 1 /\ s[i] < s[i - 1]
    IN IF p.in
       THEN IF s[i] <= high - TrailGap \/ falls \/ ~Member(volumes, c, i)
            THEN [in |-> FALSE, high |-> high, until |-> i + Cooldown]
            ELSE [p EXCEPT !.high = high]
       ELSE IF /\ rises /\ i > p.until /\ Member(volumes, c, i)
               /\ gate => Regime(closes, i)
            THEN [in |-> TRUE, high |-> s[i], until |-> p.until]
            ELSE p

AssetRun(g, closes, volumes, gate, c, n) ==
    /\ g \in [0 .. n -> AssetStates] /\ g[0] = Out
    /\ \A i \in 1 .. n : g[i] = AssetStep(g[i - 1], closes[c], closes, volumes, gate, c, i)
    /\ Asset(closes, volumes, gate, c) = [i \in 1 .. n |-> IF g[i].in THEN 1 ELSE 0]

Asset0(g, closes, volumes, gate, c) ==
    g = [i \in 0 .. Len(closes[c]) |->
           IF i = 0 THEN Out ELSE AssetStep(g[i - 1], closes[c], closes, volumes, gate, c, i)]

LEMMA AssetStepType ==
    ASSUME NEW p \in AssetStates, NEW n, NEW s \in [1 .. n -> Int], NEW closes, NEW volumes, NEW gate,
           NEW c, n \in Nat, NEW i \in 1 .. n
    PROVE  AssetStep(p, s, closes, volumes, gate, c, i) \in AssetStates
<1> DEFINE high == Max({p.high, s[i]})
<1>1. p.high \in Int /\ s[i] \in Int /\ p.until \in Int /\ i \in Int /\ Cooldown \in Int
  BY TrendAssumption DEF AssetStates
<1>2. high \in Int
  <2>1. ASSUME NEW a \in Int, NEW b \in Int  PROVE Max({a, b}) \in Int
    <3> DEFINE pair == {a, b}
    <3>1. pair \in SUBSET Int /\ a \in pair /\ b \in pair /\ \A y \in pair : y = a \/ y = b  OBVIOUS
    <3> SUFFICES Max(pair) \in Int  OBVIOUS
    <3> HIDE DEF pair
    <3>2. CASE a >= b
      <4>1. \A y \in pair : y <= a  BY <3>1, <3>2
      <4> QED  BY <3>1, <4>1, MaxIs
    <3>3. CASE ~(a >= b)
      <4>1. \A y \in pair : y <= b  BY <3>1, <3>3
      <4> QED  BY <3>1, <4>1, MaxIs
    <3> QED  BY <3>2, <3>3
  <2> QED  BY <1>1, <2>1
<1>3. i + Cooldown \in Int  BY <1>1
<1> HIDE DEF high
<1>4. /\ [in |-> FALSE, high |-> high, until |-> i + Cooldown] \in AssetStates
      /\ [p EXCEPT !.high = high] \in AssetStates
      /\ [in |-> TRUE, high |-> s[i], until |-> p.until] \in AssetStates
  BY <1>1, <1>2, <1>3 DEF AssetStates
<1>5. \/ AssetStep(p, s, closes, volumes, gate, c, i) = [in |-> FALSE, high |-> high, until |-> i + Cooldown]
      \/ AssetStep(p, s, closes, volumes, gate, c, i) = [p EXCEPT !.high = high]
      \/ AssetStep(p, s, closes, volumes, gate, c, i) = [in |-> TRUE, high |-> s[i], until |-> p.until]
      \/ AssetStep(p, s, closes, volumes, gate, c, i) = p
  BY Zenon DEF AssetStep, high
<1> QED  BY <1>4, <1>5

LEMMA AssetRuns ==
    ASSUME NEW closes, NEW n, History(closes, n), NEW volumes, NEW gate, NEW c \in ToSet(Coins)
    PROVE  \E g : AssetRun(g, closes, volumes, gate, c, n)
<1> DEFINE s == closes[c]
           step == CHOOSE g : Asset0(g, closes, volumes, gate, c)
           T == [i \in 1 .. n |-> [p \in AssetStates |-> AssetStep(p, s, closes, volumes, gate, c, i)]]
<1>1. n \in Nat /\ s \in [1 .. n -> Int]  BY DEF History
<1>2. Len(s) = n
  <2> HIDE DEF s
  <2>1. s \in Seq(Int)  BY <1>1
  <2> QED  BY <1>1, <2>1
<1>3. Asset(closes, volumes, gate, c) = [i \in 1 .. n |-> IF step[i].in THEN 1 ELSE 0]
  <2>1. Asset(closes, volumes, gate, c) = [i \in 1 .. Len(s) |-> IF step[i].in THEN 1 ELSE 0]
    BY Zenon DEF Asset, Asset0, AssetStep, Out
  <2> QED  BY <1>2, <2>1
<1>4. T \in [1 .. n -> [AssetStates -> AssetStates]]
  <2> HIDE DEF s
  <2>1. ASSUME NEW i \in 1 .. n, NEW p \in AssetStates
        PROVE  AssetStep(p, s, closes, volumes, gate, c, i) \in AssetStates
    BY <1>1, AssetStepType
  <2> QED  BY <2>1
<1>5. Out \in AssetStates  BY DEF Out, AssetStates
<1>6. \A i \in 1 .. n, p \in AssetStates : T[i][p] = AssetStep(p, s, closes, volumes, gate, c, i)
  OBVIOUS
<1> HIDE DEF T, step
<1>7. PICK g : Stepping(g, n, AssetStates, Out, T)  BY <1>1, <1>4, <1>5, StepsExist
<1>8. \A i \in 0 .. n : g[i] = IF i = 0 THEN Out ELSE AssetStep(g[i - 1], s, closes, volumes, gate, c, i)
  <2> TAKE i \in 0 .. n
  <2>1. CASE i = 0  BY <1>7, <2>1 DEF Stepping
  <2>2. CASE i # 0
    <3>1. i \in 1 .. n /\ i - 1 \in 0 .. n  BY <1>1, <2>2
    <3>2. g[i - 1] \in AssetStates /\ g[i] = T[i][g[i - 1]]  BY <1>7, <3>1 DEF Stepping
    <3> QED  BY <1>6, <2>2, <3>1, <3>2
  <2> QED  BY <2>1, <2>2
<1>9. Asset0(g, closes, volumes, gate, c)
  <2>1. g = [i \in 0 .. n |-> g[i]]  BY <1>7 DEF Stepping
  <2>2. g = [i \in 0 .. n |-> IF i = 0 THEN Out ELSE AssetStep(g[i - 1], s, closes, volumes, gate, c, i)]
    BY <1>8, <2>1
  <2> QED  BY <1>2, <2>2 DEF Asset0
<1>10. Asset0(step, closes, volumes, gate, c)  BY <1>9 DEF step
<1>11. /\ step = [i \in 0 .. n |-> step[i]] /\ step[0] = Out
       /\ \A i \in 1 .. n : step[i] = AssetStep(step[i - 1], s, closes, volumes, gate, c, i)
  <2>1. step = [i \in 0 .. n |-> IF i = 0 THEN Out ELSE AssetStep(step[i - 1], s, closes, volumes, gate, c, i)]
    BY <1>2, <1>10 DEF Asset0
  <2> HIDE DEF s
  <2> QED  BY <1>1, <2>1
<1>12. \A i \in 1 .. n : step[i - 1] \in AssetStates => step[i] = T[i][step[i - 1]]
  BY <1>6, <1>11
<1>13. Stepping(step, n, AssetStates, Out, T)  BY <1>1, <1>4, <1>5, <1>11, <1>12, StepsTyped
<1>14. step \in [0 .. n -> AssetStates]  BY <1>13 DEF Stepping
<1>15. AssetRun(step, closes, volumes, gate, c, n)  BY <1>3, <1>11, <1>14 DEF AssetRun
<1> QED  BY <1>15

\* What is known at a bar is a history, with the closes up to it.
LEMMA UptoIs ==
    ASSUME NEW closes, NEW n, History(closes, n), NEW t \in 0 .. n
    PROVE  /\ History(Upto(closes, t), t)
           /\ \A c \in ToSet(Coins), i \in 1 .. t : Upto(closes, t)[c][i] = closes[c][i]
<1>1. ASSUME NEW c \in ToSet(Coins)
      PROVE  /\ SubSeq(closes[c], 1, t) \in [1 .. t -> Int]
             /\ \A i \in 1 .. t : SubSeq(closes[c], 1, t)[i] = closes[c][i]
  <2>1. n \in Nat /\ closes[c] \in [1 .. n -> Int]  BY DEF History
  <2> DEFINE s == closes[c]
  <2> HIDE DEF s
  <2>2. s \in Seq(Int) /\ Len(s) = n  BY <2>1 DEF s
  <2>3. SubSeq(s, 1, t) = [i \in 1 .. t |-> s[i]]  BY <2>1, <2>2
  <2>4. \A i \in 1 .. t : s[i] \in Int  BY <2>1 DEF s
  <2> QED  BY <2>3, <2>4 DEF s
<1>2. t \in Nat  BY DEF History
<1> QED  BY <1>1, <1>2 DEF Upto, History

\* The regime of a bar is known before it.
LEMMA RegimeKnown ==
    ASSUME NEW closes, NEW n, History(closes, n), NEW t \in 0 .. n, NEW i \in 1 .. t
    PROVE  Regime(closes, i) <=> Regime(Upto(closes, t), i)
<1> DEFINE d == DayOf(i) - 1
           u == Upto(closes, t)
<1>1. n \in Nat /\ t \in Nat /\ i \in Nat /\ i >= 1 /\ i <= t /\ t <= n  BY DEF History
<1>2. DayBars \in Nat \ {0} /\ Btc \in ToSet(Coins)
  BY TrendAssumption DEF ToSet, Btc
<1>3. d \in Nat /\ d * DayBars <= i - 1  BY <1>1, <1>2 DEF DayOf
<1> HIDE DEF d, u
<1>4. History(u, t) /\ \A j \in 1 .. t : u[Btc][j] = closes[Btc][j]  BY <1>2, UptoIs DEF u
<1>5. ASSUME NEW hist, NEW m \in Nat, History(hist, m), t <= m, NEW e \in Nat, e <= d, e >= 1
      PROVE  DailyClose(hist, e) = hist[Btc][e * DayBars] /\ e * DayBars \in 1 .. t
  <2>1. e * DayBars <= d * DayBars /\ e * DayBars \in Nat /\ e * DayBars >= 1 /\ d * DayBars \in Nat
    BY <1>2, <1>3, <1>5
  <2>2. hist[Btc] \in [1 .. m -> Int]  BY <1>2, <1>5 DEF History
  <2>3. Len(hist[Btc]) = m
    <3>1. hist[Btc] \in Seq(Int)  BY <2>2
    <3> QED  BY <2>2, <3>1
  <2> DEFINE x == e * DayBars
  <2>4. x \in Nat /\ x <= m /\ x \in 1 .. t  BY <1>1, <1>3, <1>5, <2>1
  <2> HIDE DEF x
  <2>5. Min({x, m}) = x  BY <2>4, MinIs
  <2> QED  BY <2>3, <2>4, <2>5 DEF DailyClose, x
<1>6. ASSUME d >= 2
      PROVE  DailyClose(closes, d) = DailyClose(u, d) /\ DailyClose(closes, d - 1) = DailyClose(u, d - 1)
  <2>1. d \in Nat /\ d - 1 \in Nat /\ d <= d /\ d - 1 <= d /\ d >= 1 /\ d - 1 >= 1 /\ t <= t
    BY <1>1, <1>3, <1>6
  <2>2. DailyClose(closes, d) = closes[Btc][d * DayBars] /\ d * DayBars \in 1 .. t
        /\ DailyClose(u, d) = u[Btc][d * DayBars]
    BY <1>1, <1>4, <1>5, <2>1
  <2>3. DailyClose(closes, d - 1) = closes[Btc][(d - 1) * DayBars] /\ (d - 1) * DayBars \in 1 .. t
        /\ DailyClose(u, d - 1) = u[Btc][(d - 1) * DayBars]
    BY <1>1, <1>4, <1>5, <2>1
  <2> QED  BY <1>4, <2>2, <2>3
<1> QED  BY <1>6 DEF Regime, AboveAverage, d, u

\* What a cell holds up to a bar does not depend on later closes.
LEMMA AssetCausal ==
    ASSUME NEW closes, NEW n, History(closes, n), NEW t \in 0 .. n, NEW volumes, NEW gate,
           NEW c \in ToSet(Coins), NEW i \in 1 .. t
    PROVE  Asset(closes, volumes, gate, c)[i] = Asset(Upto(closes, t), volumes, gate, c)[i]
<1> DEFINE u == Upto(closes, t)
<1>1. n \in Nat /\ t \in Nat /\ t <= n  BY DEF History
<1>2. History(u, t) /\ \A j \in 1 .. t : u[c][j] = closes[c][j]  BY UptoIs
<1> HIDE DEF u
<1>3. PICK g : AssetRun(g, closes, volumes, gate, c, n)  BY AssetRuns
<1>4. PICK h : AssetRun(h, u, volumes, gate, c, t)  BY <1>2, AssetRuns
<1>5. ASSUME NEW j \in 1 .. t, g[j - 1] = h[j - 1]  PROVE g[j] = h[j]
  <2>1. j \in 1 .. n  BY <1>1
  <2>2. closes[c][j] = u[c][j] /\ (j > 1 => closes[c][j - 1] = u[c][j - 1])
    <3>1. j > 1 => j - 1 \in 1 .. t  BY <1>1
    <3> QED  BY <1>2, <3>1
  <2>3. Regime(closes, j) <=> Regime(u, j)  BY RegimeKnown DEF u
  <2>4. AssetStep(h[j - 1], closes[c], closes, volumes, gate, c, j)
          = AssetStep(h[j - 1], u[c], u, volumes, gate, c, j)
    BY <2>2, <2>3 DEF AssetStep
  <2> QED  BY <1>3, <1>4, <1>5, <2>1, <2>4 DEF AssetRun
<1>6. \A j \in 0 .. t : g[j] = h[j]
  <2> DEFINE Bad == {j \in 0 .. t : g[j] # h[j]}
  <2> SUFFICES ASSUME Bad # {}  PROVE FALSE  OBVIOUS
  <2>1. Bad \subseteq Nat  OBVIOUS
  <2>2. PICK j \in Bad : \A k \in Bad : j <= k
    <3> HIDE DEF Bad
    <3> QED  BY <2>1, LeastNatural
  <2>3. j \in 0 .. t /\ g[j] # h[j]  BY <2>2
  <2>4. j # 0  BY <1>3, <1>4, <2>3 DEF AssetRun
  <2>5. j \in 1 .. t /\ j - 1 \in 0 .. t /\ ~(j <= j - 1)  BY <1>1, <2>3, <2>4
  <2>6. g[j - 1] = h[j - 1]  BY <2>2, <2>5
  <2> QED  BY <1>5, <2>3, <2>5, <2>6
<1>7. i \in 1 .. n /\ i \in 0 .. t  BY <1>1
<1>8. Asset(closes, volumes, gate, c)[i] = IF g[i].in THEN 1 ELSE 0  BY <1>3, <1>7 DEF AssetRun
<1>9. Asset(u, volumes, gate, c)[i] = IF h[i].in THEN 1 ELSE 0  BY <1>4 DEF AssetRun
<1> QED  BY <1>6, <1>7, <1>8, <1>9 DEF u

\* And so for the whole run of a cell.
LEMMA CellCausal ==
    ASSUME NEW closes, NEW n, History(closes, n), NEW t \in 0 .. n, NEW volumes, NEW gate,
           NEW c \in ToSet(Coins), NEW i \in 1 .. t
    PROVE  CellRun(closes, volumes, gate)[c][i] = CellRun(Upto(closes, t), volumes, gate)[c][i]
  BY AssetCausal DEF CellRun

\* The sums and counts over a window take what is held and paid within it.
LEMMA WindowSame ==
    ASSUME NEW run, NEW other, NEW closes, NEW known, NEW last \in Nat,
           \A c \in ToSet(Coins), i \in 1 .. last :
               run[c][i] = other[c][i] /\ closes[c][i] = known[c][i]
    PROVE  /\ Entries(run, 1, last) = Entries(other, 1, last)
           /\ Earned(run, closes, 1, last) = Earned(other, known, 1, last)
<1>1. ASSUME NEW x \in ToSet(Coins) \X (2 .. last)
      PROVE  run[x[1]][x[2]] = other[x[1]][x[2]] /\ run[x[1]][x[2] - 1] = other[x[1]][x[2] - 1]
             /\ closes[x[1]][x[2]] = known[x[1]][x[2]] /\ closes[x[1]][x[2] - 1] = known[x[1]][x[2] - 1]
  <2>1. x[1] \in ToSet(Coins) /\ x[2] \in 1 .. last /\ x[2] - 1 \in 1 .. last  OBVIOUS
  <2> QED  BY <2>1
<1>2. Entries(run, 1, last) = Entries(other, 1, last)
  <2>1. {x \in ToSet(Coins) \X (2 .. last) : run[x[1]][x[2]] = 1 /\ run[x[1]][x[2] - 1] = 0}
         = {x \in ToSet(Coins) \X (2 .. last) : other[x[1]][x[2]] = 1 /\ other[x[1]][x[2] - 1] = 0}
    BY <1>1
  <2>2. 1 + 1 = 2  OBVIOUS
  <2> QED  BY <2>1, <2>2 DEF Entries
<1>3. Earned(run, closes, 1, last) = Earned(other, known, 1, last)
  <2> DEFINE W == ToSet(Coins) \X (2 .. (last - 1))
             f == [x \in W |-> run[x[1]][x[2] - 1] * (closes[x[1]][x[2]] - closes[x[1]][x[2] - 1])]
             g == [x \in W |-> other[x[1]][x[2] - 1] * (known[x[1]][x[2]] - known[x[1]][x[2] - 1])]
  <2>1. \A x \in W : x \in ToSet(Coins) \X (2 .. last)  OBVIOUS
  <2>2. f = g  BY <1>1, <2>1
  <2>3. 1 + 1 = 2  OBVIOUS
  <2>4. Earned(run, closes, 1, last) = SumFunction(f)  BY <2>3 DEF Earned
  <2>5. Earned(other, known, 1, last) = SumFunction(g)  BY <2>3 DEF Earned
  <2> QED  BY <2>2, <2>4, <2>5
<1> QED  BY <1>2, <1>3

\* The choice of a cell takes the counts and sums of the selection window.
LEMMA SelectionSame ==
    ASSUME NEW runs, NEW others, NEW closes, NEW known,
           \A g \in BOOLEAN :
               /\ Entries(runs[g], 1, LastBefore(HoldoutDay)) = Entries(others[g], 1, LastBefore(HoldoutDay))
               /\ Earned(runs[g], closes, 1, LastBefore(HoldoutDay))
                    = Earned(others[g], known, 1, LastBefore(HoldoutDay))
    PROVE  SelectCell(runs, closes) = SelectCell(others, known)
<1> DEFINE early == LastBefore(HoldoutDay)
           V(r) == {g \in BOOLEAN : Entries(r[g], 1, early) > 0}
           E(r, p) == [g \in V(r) |-> Earned(r[g], p, 1, early)]
<1>1. V(runs) = V(others)  OBVIOUS
<1>2. E(runs, closes) = E(others, known)  BY <1>1
<1>3. ASSUME NEW r, NEW p
      PROVE  SelectCell(r, p) =
                IF V(r) = {} THEN "none"
                ELSE IF FALSE \in V(r) /\ \A o \in V(r) : E(r, p)[FALSE] >= E(r, p)[o]
                     THEN "ungated" ELSE "gated"
  BY Zenon DEF SelectCell
<1> HIDE DEF V, E
<1> QED  BY <1>1, <1>2, <1>3

\* The trend run holds the histories it has read and what the cells make of them.
Charted ==
    /\ "phase" \in DOMAIN lab
    /\ lab.phase = "grid" =>
         /\ lab.closes \in Closes
         /\ lab.runs = [g \in BOOLEAN |-> CellRun(lab.closes, lab.volumes, g)]

LEMMA ResearchCharts ==
    ASSUME Charted, LabNext
    PROVE  Charted'
<1>1. "phase" \in DOMAIN lab  BY DEF Charted
<1>2. ASSUME "phase" \in DOMAIN lab', lab'.phase # "grid"  PROVE Charted'
  BY <1>2 DEF Charted
<1>3. CASE NextBar \/ FetchAll  BY <1>3 DEF NextBar, FetchAll, Charted
<1>4. ASSUME NEW h, NEW k, WalkForward(h, k)  PROVE Charted'  BY <1>2, <1>4 DEF WalkForward
<1>5. ASSUME NEW p, Decide(p)  PROVE Charted'  BY <1>2, <1>5 DEF Decide
<1>6. ASSUME NEW p, JudgeMl(p)  PROVE Charted'
  <2>1. PICK v : lab' = [lab EXCEPT !.verdicts[p] = v]  BY <1>6 DEF JudgeMl
  <2>2. lab.phase = "swept"  BY <1>6 DEF JudgeMl
  <2>3. "phase" \in DOMAIN lab' /\ lab'.phase = "swept"  BY <1>1, <2>1, <2>2
  <2> QED  BY <1>2, <2>3
<1>7. CASE Ablate
  <2>1. "phase" \in DOMAIN lab' /\ lab'.phase = "decided"  BY <1>1, <1>7 DEF Ablate
  <2> QED  BY <1>2, <2>1
<1>8. CASE Sweep  BY <1>2, <1>8 DEF Sweep
<1>9. CASE ReportMl \/ ReportTrend  BY <1>2, <1>9 DEF ReportMl, ReportTrend, Idle
<1>10. CASE TrendValidation  BY <1>2, <1>10 DEF TrendValidation
<1>11. CASE TrendGrid
  <2>1. PICK closes \in Closes, volumes \in Volumes :
           lab' = [phase |-> "grid", closes |-> closes, volumes |-> volumes,
                   runs |-> [g \in BOOLEAN |-> CellRun(closes, volumes, g)]]
    BY <1>11 DEF TrendGrid
  <2>2. PICK r : r = [g \in BOOLEAN |-> CellRun(closes, volumes, g)]  OBVIOUS
  <2>3. lab' = [phase |-> "grid", closes |-> closes, volumes |-> volumes, runs |-> r]
    BY <2>1, <2>2
  <2>4. "phase" \in DOMAIN lab' /\ lab'.closes = closes /\ lab'.volumes = volumes /\ lab'.runs = r
    BY <2>3
  <2>5. (lab.runs = [g \in BOOLEAN |-> CellRun(lab.closes, lab.volumes, g)])'
    BY <2>2, <2>4
  <2> QED  BY <2>4, <2>5 DEF Charted
<1> QED  BY <1>3, <1>4, <1>5, <1>6, <1>7, <1>8, <1>9, <1>10, <1>11 DEF LabNext

\* Every cell of the trend grid holds at each close what it would have held
\* knowing nothing later, and the choice of the cell knows nothing of the holdout
\* (ftr/validation/run_trend_validation.py, strategies/trend.py), for any price
\* histories, coins, days and bars in a day.
THEOREM TrendLooksBackOnly == FtrSpec => []TrendCausal
<1>1. LabInit => Charted  BY DEF LabInit, Charted, Idle
<1>2. Charted
        /\ [(LabNext /\ UNCHANGED trdVars) \/ (TrdNext /\ UNCHANGED labVars)]_<<labVars, trdVars>>
        => Charted'
  <2> SUFFICES ASSUME Charted,
                 [(LabNext /\ UNCHANGED trdVars) \/ (TrdNext /\ UNCHANGED labVars)]_<<labVars, trdVars>>
               PROVE  Charted'
    OBVIOUS
  <2>1. CASE LabNext  BY <2>1, ResearchCharts
  <2>2. CASE UNCHANGED labVars
    <3>1. lab' = lab  BY <2>2 DEF labVars
    <3>2. (lab.runs = [g \in BOOLEAN |-> CellRun(lab.closes, lab.volumes, g)])'
            <=> (lab.runs = [g \in BOOLEAN |-> CellRun(lab.closes, lab.volumes, g)])
      BY <3>1
    <3> QED  BY <3>1, <3>2 DEF Charted
  <2> QED  BY <2>1, <2>2
<1>3. ASSUME Charted  PROVE TrendCausal
  <2> SUFFICES ASSUME lab.phase = "grid"
               PROVE  LET Known(g, t) == CellRun(Upto(lab.closes, t), lab.volumes, g)
                          early == LastBefore(HoldoutDay)
                      IN /\ \A g \in BOOLEAN, c \in ToSet(Coins), t \in Bars :
                               lab.runs[g][c][t] = Known(g, t)[c][t]
                         /\ SelectCell(lab.runs, lab.closes)
                              = SelectCell([g \in BOOLEAN |-> Known(g, early)], Upto(lab.closes, early))
    BY DEF TrendCausal
  <2> DEFINE Known(g, t) == CellRun(Upto(lab.closes, t), lab.volumes, g)
             early == LastBefore(HoldoutDay)
             n == Days * DayBars
             others == [g \in BOOLEAN |-> Known(g, early)]
  <2>1. /\ n \in Nat /\ early \in Nat /\ early <= n
        /\ \A g \in BOOLEAN : lab.runs[g] = CellRun(lab.closes, lab.volumes, g)
        /\ History(lab.closes, n)
    <3>1. Days \in Nat /\ DayBars \in Nat /\ HoldoutDay \in Nat /\ HoldoutDay >= 1 /\ HoldoutDay <= Days
      BY TrendAssumption
    <3>2. n \in Nat /\ early \in Nat /\ early <= n  BY <3>1 DEF LastBefore
    <3>3. lab.closes \in [ToSet(Coins) -> [1 .. n -> Int]]  BY <1>3, TrendAssumption DEF Charted, Bars
    <3> QED  BY <1>3, <3>2, <3>3 DEF Charted, History
  <2> HIDE DEF n
  <2>2. ASSUME NEW g \in BOOLEAN, NEW c \in ToSet(Coins), NEW t \in Bars
        PROVE  lab.runs[g][c][t] = Known(g, t)[c][t]
    <3>1. t \in 0 .. n /\ t \in 1 .. t  BY <2>1 DEF Bars, n
    <3> QED  BY <2>1, <3>1, CellCausal
  <2>3. SelectCell(lab.runs, lab.closes) = SelectCell(others, Upto(lab.closes, early))
    <3>1. early \in 0 .. n  BY <2>1
    <3> HIDE DEF early
    <3>2. ASSUME NEW g \in BOOLEAN, NEW c \in ToSet(Coins), NEW i \in 1 .. early
          PROVE  lab.runs[g][c][i] = others[g][c][i] /\ lab.closes[c][i] = Upto(lab.closes, early)[c][i]
      BY <2>1, <3>1, CellCausal, UptoIs
    <3>3. ASSUME NEW g \in BOOLEAN
          PROVE  /\ Entries(lab.runs[g], 1, early) = Entries(others[g], 1, early)
                 /\ Earned(lab.runs[g], lab.closes, 1, early)
                      = Earned(others[g], Upto(lab.closes, early), 1, early)
      <4> HIDE DEF others
      <4> QED  BY <2>1, <3>2, WindowSame
    <3> HIDE DEF others
    <3> QED  BY <3>3, SelectionSame DEF early
  <2> QED  BY <2>2, <2>3
<1> QED  BY <1>1, <1>2, <1>3, PTL DEF FtrSpec
=============================================================================
