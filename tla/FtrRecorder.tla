----------------------------- MODULE FtrRecorder -----------------------------
(***************************************************************************)
(* The order-book recorder of the research pipeline (ftr/data/recorder.py) *)
(* and the sample gate that reads its manifests (ftr/strategies/           *)
(* ofi_research.py): a process that keeps one websocket open, checks that  *)
(* the depth events of each symbol follow one another, asks for a REST     *)
(* snapshot when they do not, and writes its buffers and a manifest once   *)
(* an hour.                                                                *)
(*                                                                         *)
(* An id stands for an update of a book. A depth event carries the range   *)
(* of ids it covers. Prices and quantities are left out, and the rows of   *)
(* trades and best quotes too: such an event only moves the clocks. An     *)
(* hour lasts HourTicks ticks.                                             *)
(***************************************************************************)
EXTENDS Integers, Sequences, FiniteSets, FiniteSetsExt

CONSTANTS
    Books,         \* the symbols that are recorded
    HourTicks,     \* ticks in an hour
    MaxId,         \* bound: the last update id of a book
    MaxTick,       \* bound: the last tick
    MaxRuns,       \* bound: starts of the process
    MaxQueue,      \* bound: events on their way
    MaxFaults      \* bound: lost events, failed requests, broken connections, crashes

ASSUME RecAssumption ==
    HourTicks \in Nat \ {0} /\ {MaxId, MaxTick, MaxRuns, MaxQueue, MaxFaults} \subseteq Nat

VARIABLES
    book,      \* per symbol: the last update id the exchange has published
    socket,    \* the websocket: open or not, and the events on their way
    proc,      \* the process: where it is, what it waits for
    seqs,      \* per symbol: its DepthSequencer
    bufs,      \* per symbol: its _HourBuffer
    meter,     \* hour_started_at, connected_seconds and the last connect_t
    disk,      \* per symbol and hour: the depth file and the manifest
    tick,      \* the clock
    faults     \* faults so far

recVars == <<book, socket, proc, seqs, bufs, meter, disk, tick, faults>>

None == -1
Nobody == "nobody"
Hours == 0 .. (MaxTick \div HourTicks)

EmptyBuffer == [rows |-> <<>>, gaps |-> 0, resyncs |-> 0]
NewSequencer == [last |-> None, synced |-> FALSE]
NoFile == [rows |-> <<>>, run |-> 0, events |-> None, gaps |-> 0, resyncs |-> 0, uptime |-> 0]

RecInit ==
    /\ book = [s \in Books |-> 0]
    /\ socket = [open |-> FALSE, queue |-> <<>>]
    /\ proc = [at |-> "down", todo |-> {}, await |-> Nobody, stop |-> FALSE, runs |-> 0]
    /\ seqs = [s \in Books |-> NewSequencer]
    /\ bufs = [s \in Books |-> EmptyBuffer]
    /\ meter = [started |-> 0, connected |-> 0, since |-> 0]
    /\ disk = [s \in Books |-> [h \in Hours |-> NoFile]]
    /\ tick = 0 /\ faults = 0

Fault == faults < MaxFaults /\ faults' = faults + 1
-----------------------------------------------------------------------------
(***************************************************************************)
(* The exchange.                                                           *)
(***************************************************************************)
Send(e) == IF socket.open THEN [socket EXCEPT !.queue = Append(@, e)] ELSE socket
Room == socket.open => Len(socket.queue) < MaxQueue

\* A diff event covers one id or two.
Publish(s, n) ==
    /\ book[s] + n <= MaxId /\ Room
    /\ book' = [book EXCEPT ![s] = @ + n]
    /\ socket' = Send([sym |-> s, first |-> book[s] + 1, final |-> book[s] + n])
    /\ UNCHANGED <<proc, seqs, bufs, meter, disk, tick, faults>>

\* An event of the channels that are recorded without a check.
Trade ==
    /\ socket.open /\ Room
    /\ socket' = Send([sym |-> Nobody, first |-> 0, final |-> 0])
    /\ UNCHANGED <<book, proc, seqs, bufs, meter, disk, tick, faults>>

Lose ==
    /\ socket.queue # <<>> /\ Fault
    /\ socket' = [socket EXCEPT !.queue = Tail(@)]
    /\ UNCHANGED <<book, proc, seqs, bufs, meter, disk, tick>>

Clock ==
    /\ tick < MaxTick
    /\ tick' = tick + 1
    /\ UNCHANGED <<book, socket, proc, seqs, bufs, meter, disk, faults>>
-----------------------------------------------------------------------------
(***************************************************************************)
(* DepthSequencer.                                                         *)
(***************************************************************************)
\* Mutant of Check: an event after a gap is applied once the book is synced.
CheckForward(q, first, final) ==
    IF q.last = None THEN "resync"
    ELSE IF final <= q.last THEN "skip"
    ELSE IF first <= q.last + 1 \/ q.synced THEN "apply" ELSE "resync"

Check(q, first, final) ==
    IF q.last = None THEN "resync"
    ELSE IF ~q.synced THEN
        IF final <= q.last THEN "skip"
        ELSE IF first <= q.last + 1 THEN "apply" ELSE "resync"
    ELSE IF first = q.last + 1 THEN "apply"
    ELSE IF final <= q.last THEN "skip" ELSE "resync"

Applied(final) == [last |-> final, synced |-> TRUE]

\* The answer of the REST endpoint: at most one update behind.
Snapshots(s) == {l \in {book[s] - 1, book[s]} : l >= 0}

AfterSnapshot(s, l) ==
    /\ seqs' = [seqs EXCEPT ![s] = [last |-> l, synced |-> FALSE]]
    /\ bufs' = [bufs EXCEPT ![s].resyncs = @ + 1,
                            ![s].rows = Append(@, [kind |-> "snapshot", first |-> l, final |-> l])]
-----------------------------------------------------------------------------
(***************************************************************************)
(* rotate(): every symbol's rows, if it has any, and its manifest go to    *)
(* the directory of the hour in which the buffers were started.            *)
(***************************************************************************)
Uptime(m) == LET span == Max({tick - m.started, 1})
             IN Min({(100 * m.connected) \div span, 100})

\* b and m are the buffers and the clocks at the time of the call.
Written(b, m) ==
    LET hour == m.started \div HourTicks
    IN [s \in Books |->
          [disk[s] EXCEPT ![hour] =
             [rows    |-> IF b[s].rows = <<>> THEN @.rows ELSE b[s].rows,
              run     |-> proc.runs,
              events  |-> Len(b[s].rows),
              gaps    |-> b[s].gaps,
              resyncs |-> b[s].resyncs,
              uptime  |-> Uptime(m)]]]

Emptied == [s \in Books |-> EmptyBuffer]
Metered == [meter EXCEPT !.connected = @ + (tick - meter.since), !.since = tick]

Cleared(b) == Emptied

\* What the loop does after an event: count the time, rotate an hour that is
\* over, and leave when it was told to stop, which closes the websocket.
EndOfEvent(b, rest) ==
    LET m    == Metered
        full == tick - m.started >= HourTicks
    IN /\ disk' = IF full THEN Written(b, m) ELSE disk
       /\ bufs' = IF full THEN Cleared(b) ELSE b
       /\ meter' = IF full THEN [m EXCEPT !.started = tick, !.connected = 0] ELSE m
       /\ socket' = IF proc.stop THEN [open |-> FALSE, queue |-> <<>>] ELSE [socket EXCEPT !.queue = rest]

-----------------------------------------------------------------------------
(***************************************************************************)
(* The process.                                                            *)
(***************************************************************************)
Start ==
    /\ proc.at = "down" /\ proc.runs < MaxRuns
    /\ proc' = [at |-> "boot", todo |-> Books, await |-> Nobody, stop |-> FALSE, runs |-> proc.runs + 1]
    /\ seqs' = [s \in Books |-> NewSequencer]
    /\ bufs' = Emptied
    /\ meter' = [started |-> tick, connected |-> 0, since |-> tick]
    /\ UNCHANGED <<book, socket, disk, tick, faults>>

Gone == [proc EXCEPT !.at = "down", !.todo = {}, !.await = Nobody, !.stop = FALSE]
Lost == /\ socket' = [open |-> FALSE, queue |-> <<>>]
        /\ seqs' = [s \in Books |-> NewSequencer]
        /\ bufs' = Emptied
        /\ meter' = [started |-> 0, connected |-> 0, since |-> 0]

\* A snapshot of every symbol, before the first connection and after a broken one.
Resync(s) ==
    /\ proc.at \in {"boot", "backoff"} /\ s \in proc.todo
    /\ \E l \in Snapshots(s) : AfterSnapshot(s, l)
    /\ proc' = [proc EXCEPT !.todo = @ \ {s}]
    /\ UNCHANGED <<book, socket, meter, disk, tick, faults>>

\* At the start a failed request ends the process; later it is logged.
ResyncFails(s) ==
    /\ proc.at \in {"boot", "backoff"} /\ s \in proc.todo /\ Fault
    /\ \/ /\ proc.at = "boot"
          /\ proc' = Gone /\ Lost
       \/ /\ proc.at = "backoff"
          /\ proc' = [proc EXCEPT !.todo = @ \ {s}]
          /\ UNCHANGED <<socket, seqs, bufs, meter>>
    /\ UNCHANGED <<book, disk, tick>>

Ready == proc.at \in {"boot", "backoff", "run"} /\ proc.todo = {} /\ ~socket.open

Connect ==
    /\ Ready /\ ~proc.stop
    /\ socket' = [open |-> TRUE, queue |-> <<>>]
    /\ proc' = [proc EXCEPT !.at = "run"]
    /\ meter' = [meter EXCEPT !.since = tick]
    /\ UNCHANGED <<book, seqs, bufs, disk, tick, faults>>

ConnectFails ==
    /\ Ready /\ ~proc.stop /\ Fault
    /\ proc' = [proc EXCEPT !.at = "backoff", !.todo = Books]
    /\ UNCHANGED <<book, socket, seqs, bufs, meter, disk, tick>>

\* An event that starts the wait for a snapshot has not been counted yet.
Handle ==
    /\ proc.at = "run" /\ proc.await = Nobody /\ socket.queue # <<>>
    /\ LET e == Head(socket.queue)
       IN \/ /\ e.sym = Nobody
             /\ EndOfEvent(bufs, Tail(socket.queue))
             /\ UNCHANGED <<proc, seqs>>
          \/ /\ e.sym # Nobody
             /\ LET verdict == Check(seqs[e.sym], e.first, e.final)
                IN \/ /\ verdict = "skip"
                      /\ EndOfEvent(bufs, Tail(socket.queue))
                      /\ UNCHANGED <<proc, seqs>>
                   \/ /\ verdict = "apply"
                      /\ seqs' = [seqs EXCEPT ![e.sym] = Applied(e.final)]
                      /\ EndOfEvent([bufs EXCEPT ![e.sym].rows =
                                       Append(@, [kind |-> "diff", first |-> e.first, final |-> e.final])],
                                    Tail(socket.queue))
                      /\ UNCHANGED proc
                   \/ /\ verdict = "resync"
                      /\ bufs' = [bufs EXCEPT ![e.sym].gaps = @ + 1]
                      /\ proc' = [proc EXCEPT !.await = e.sym]
                      /\ socket' = [socket EXCEPT !.queue = Tail(@)]
                      /\ UNCHANGED <<seqs, meter, disk>>
    /\ UNCHANGED <<book, tick, faults>>

\* The snapshot the loop waits for arrives; the socket has filled meanwhile.
Resynced ==
    /\ proc.at = "run" /\ proc.await # Nobody
    /\ \E l \in Snapshots(proc.await) :
          /\ seqs' = [seqs EXCEPT ![proc.await] = [last |-> l, synced |-> FALSE]]
          /\ EndOfEvent([bufs EXCEPT
                            ![proc.await].resyncs = @ + 1,
                            ![proc.await].rows = Append(@, [kind |-> "snapshot", first |-> l, final |-> l])],
                        socket.queue)
    /\ proc' = [proc EXCEPT !.await = Nobody]
    /\ UNCHANGED <<book, tick, faults>>

\* The connection breaks, or the request the loop waits for fails: the
\* websocket is left, and after a pause every symbol asks for a snapshot.
Break ==
    /\ proc.at = "run" /\ (socket.open \/ proc.await # Nobody) /\ Fault
    /\ proc' = [proc EXCEPT !.at = "backoff", !.todo = Books, !.await = Nobody]
    /\ socket' = [open |-> FALSE, queue |-> <<>>]
    /\ UNCHANGED <<book, seqs, bufs, meter, disk, tick>>

\* The exchange closes the connection in order: the loop connects at once.
Close ==
    /\ proc.at = "run" /\ proc.await = Nobody /\ socket.open /\ Fault
    /\ socket' = [open |-> FALSE, queue |-> <<>>]
    /\ UNCHANGED <<book, proc, seqs, bufs, meter, disk, tick>>

\* SIGTERM is noticed after the next event, or before the next connection.
Stop ==
    /\ proc.at # "down" /\ ~proc.stop
    /\ proc' = [proc EXCEPT !.stop = TRUE]
    /\ UNCHANGED <<book, socket, seqs, bufs, meter, disk, tick, faults>>

Leave ==
    /\ Ready /\ proc.stop
    /\ disk' = Written(bufs, meter)
    /\ proc' = Gone /\ Lost
    /\ UNCHANGED <<book, tick, faults>>

Crash ==
    /\ proc.at # "down" /\ Fault
    /\ proc' = Gone /\ Lost
    /\ UNCHANGED <<book, disk, tick>>

RecNext ==
    \/ \E s \in Books, n \in 1 .. 2 : Publish(s, n)
    \/ Trade \/ Lose \/ Clock
    \/ Start \/ Connect \/ ConnectFails \/ Handle \/ Resynced
    \/ \E s \in Books : Resync(s) \/ ResyncFails(s)
    \/ Break \/ Close \/ Stop \/ Leave \/ Crash

RecSpec == RecInit /\ [][RecNext]_recVars
-----------------------------------------------------------------------------
(***************************************************************************)
(* What the sample gate of the microstructure research counts.             *)
(***************************************************************************)
Manifests(s) == {h \in Hours : disk[s][h].events # None}

-----------------------------------------------------------------------------
Follows(a, b) ==
    b.kind = "snapshot" \/
    IF a.kind = "snapshot" THEN b.first <= a.final + 1 /\ a.final + 1 <= b.final
    ELSE b.first = a.final + 1

Chained(rows) == \A i \in 1 .. (Len(rows) - 1) : Follows(rows[i], rows[i + 1])

\* What a run has recorded so far, in pieces: its files by the hour, and the
\* buffer behind them.
Unwritten == (MaxTick \div HourTicks) + 1
Pieces(s) ==
    [h \in {h \in Hours : disk[s][h].run = proc.runs} \cup {Unwritten} |->
        IF h = Unwritten THEN bufs[s].rows ELSE disk[s][h].rows]
Filled(piece) == {h \in DOMAIN piece : piece[h] # <<>>}

LastRow(rows) == rows[Len(rows)]

\* The first row is a snapshot and every diff continues the row before it, in
\* the same piece or at the end of the one before.
Replays(piece) ==
    \A h \in Filled(piece) :
        LET before == {g \in Filled(piece) : g < h} IN
        /\ Chained(piece[h])
        /\ IF before = {} THEN piece[h][1].kind = "snapshot"
           ELSE Follows(LastRow(piece[Max(before)]), piece[h][1])

\* The manifest counts the file's rows and its snapshots, and an hour without
\* a resync holds an unbroken stretch of diffs.
ManifestMatchesFile(f) ==
    LET snaps == {i \in DOMAIN f.rows : f.rows[i].kind = "snapshot"}
    IN /\ f.events = Len(f.rows)
       /\ f.resyncs = Cardinality(snaps)
       /\ f.resyncs = 0 => Chained(f.rows)

\* A book can be rebuilt from what a run records, and each manifest describes
\* the file beside it, through lost events, late and failed snapshots, broken
\* connections and the turn of the hour.
RecordingsReplay ==
    \A s \in Books :
        /\ Replays(Pieces(s))
        /\ \A h \in Manifests(s) : ManifestMatchesFile(disk[s][h])
=============================================================================
