----------------------------- MODULE TraderRunner -----------------------------
(***************************************************************************)
(* The trader runner: one process at a time that boots, cleans up after    *)
(* its predecessor, seeds the tick jobs and then works the RQ queue, one   *)
(* job after the other.  Every tick job re-enqueues itself for its next    *)
(* boundary as its last act; a chain whose job ends before that is broken  *)
(* until the next boot.  The ticks: the main cycle, drift, the summaries   *)
(* and the detector of stale heartbeats.                                   *)
(*                                                                         *)
(* RQ is external: a registry of scheduled jobs keyed by job id (kind and  *)
(* boundary), from which due jobs move to a FIFO queue.  Time is counted   *)
(* in minutes: the clock turns round after Grid minutes, scheduled jobs    *)
(* count down to their boundary and heartbeats age, so that no counter     *)
(* grows without bound.                                                    *)
(*                                                                         *)
(* Left out: what a phase does (TraderPipeline), the 24h expiry of the     *)
(* failure counters, and the text of the alerts: undelivered alerts of the *)
(* same subject are one.                                                   *)
(***************************************************************************)
EXTENDS Integers, Sequences

CONSTANTS
    Kinds,        \* the tick kinds that are scheduled
    Phases,       \* the phases of the main cycle, in order; the last is "alerts"
    Every,        \* the minutes between two boundaries of a kind
    Grid,         \* a number of minutes all of them divide
    StaleAfter,   \* _STALE_HEARTBEAT_THRESHOLD_S, in minutes
    Threshold,    \* _PHASE_FAILURE_THRESHOLD
    MaxRuns,      \* bound: boots of the runner
    MaxStall,     \* bound: minutes the worker is busy without a pause
    MaxFaults     \* bound: failed phases, deliveries, jobs and processes

ASSUME RunnerAssumption ==
    /\ Kinds \subseteq {"main", "drift", "summary", "stale"}
    /\ Phases \in Seq(STRING) /\ Phases # <<>> /\ Phases[Len(Phases)] = "alerts"
    /\ Grid \in Nat \ {0}
    /\ Every \in [Kinds -> {n \in 1 .. Grid : Grid % n = 0}]
    /\ StaleAfter \in Nat /\ Threshold \in Nat \ {0}
    /\ MaxRuns \in Nat /\ MaxStall \in Nat /\ MaxFaults \in Nat

RunIds == 1 .. MaxRuns
PhaseNames == {Phases[i] : i \in DOMAIN Phases} \cup {"drift"}

\* The ticks that look up the active run and give up without one.
NeedsRun == {"main", "drift"}

\* The phases of a tick.
Work(kind) == CASE kind = "main" -> Phases
                [] kind = "drift" -> <<"drift">>
                [] OTHER -> <<>>

\* A row of trader_alerts that has not been delivered: what it is about.
Alerts == ({"stale"} \X RunIds) \cup ({"failing", "recovered"} \X PhaseNames)
             \cup {<<"summary", "daily">>}

\* The job at hand.  at is 0 before its first phase, then the phase that is
\* next, and Len(Work(kind)) + 1 when only the re-enqueue is left; emit holds
\* the alerts to be inserted before it goes on, run the run it has looked up.
Idle == [kind |-> "none", at |-> 0, run |-> 0, emit |-> {}]
Jobs == {Idle} \cup [kind : Kinds, at : 0 .. Len(Phases) + 1, run : 0 .. MaxRuns,
                     emit : SUBSET Alerts]

\* A row of trader_bot_runs; age counts the minutes since its heartbeat.
RunRows == [status : {"none", "running", "stopped", "crashed"}, age : 0 .. StaleAfter + 1]

VARIABLES
    clock,      \* minutes, modulo Grid
    scheduled,  \* ScheduledJobRegistry: <<kind, minutes until the boundary>>
    queue,      \* kinds of the due jobs, in Redis
    runs,       \* trader_bot_runs: status, and minutes since the heartbeat
    boots,      \* number of rows in runs; the newest is the process's own
    proc,       \* "down", "created", "seeding" or "up"
    unseeded,   \* kinds the bootstrap has yet to look at
    job,        \* the job the worker executes
    fails,      \* consecutive failures of each phase, in Redis
    pending,    \* undelivered alerts
    stall,      \* minutes the worker has been busy
    faults,     \* faults so far
    hurt        \* history: a job of this process has died

vars == <<clock, scheduled, queue, runs, boots, proc, unseeded, job, fails,
          pending, stall, faults, hurt>>

-----------------------------------------------------------------------------
(* Reading the state *)

Running(r) == runs[r].status = "running"

\* _active_run_id: the latest running row, if there is one.
ActiveRun == {r \in RunIds : Running(r) /\ \A s \in RunIds : Running(s) => s <= r}

\* The minutes until the next boundary of kind, strictly after now.
UntilNext(kind) == Every[kind] - (clock % Every[kind])

Due == {e \in scheduled : e[2] = 0}

\* A job of kind is scheduled, queued or at work.
Alive(kind) ==
    \/ \E e \in scheduled : e[1] = kind
    \/ \E i \in DOMAIN queue : queue[i] = kind
    \/ job.kind = kind

\* The process boots, or its worker has something to do.
Busy == proc \notin {"down", "up"} \/ (proc = "up" /\ (job # Idle \/ queue # <<>>))

\* A heartbeat ages; beyond StaleAfter it makes no difference.
Older(run) == [run EXCEPT !.age = IF @ > StaleAfter THEN @ ELSE @ + 1]

-----------------------------------------------------------------------------
(* The clock *)

\* RQ's scheduler, a process of its own, moves due jobs within the minute.
Tick ==
    /\ proc = "up" => Due = {}
    /\ Busy => stall < MaxStall
    /\ stall' = IF Busy THEN stall + 1 ELSE 0
    /\ clock' = (clock + 1) % Grid
    /\ scheduled' = {<<e[1], IF e[2] = 0 THEN 0 ELSE e[2] - 1>> : e \in scheduled}
    /\ runs' = [r \in RunIds |-> Older(runs[r])]
    /\ UNCHANGED <<queue, boots, proc, unseeded, job, fails, pending, faults, hurt>>

-----------------------------------------------------------------------------
(* The life of the process: runner.main *)

\* Step 5: a fresh run, of status running.
Boot ==
    /\ proc = "down" /\ boots < MaxRuns
    /\ boots' = boots + 1
    /\ runs' = [runs EXCEPT ![boots + 1] = [status |-> "running", age |-> 0]]
    /\ proc' = "created" /\ hurt' = FALSE /\ stall' = 0
    /\ UNCHANGED <<clock, scheduled, queue, unseeded, job, fails, pending, faults>>

\* Mutant of CleanOrphans: a row with a fresh heartbeat is left alone.
CleanStaleOrphans ==
    /\ proc = "created"
    /\ runs' = [r \in RunIds |->
                  IF Running(r) /\ r # boots /\ runs[r].age > StaleAfter
                  THEN [runs[r] EXCEPT !.status = "crashed"] ELSE runs[r]]
    /\ proc' = "seeding" /\ unseeded' = Kinds
    /\ UNCHANGED <<clock, scheduled, queue, boots, job, fails, pending, stall, faults, hurt>>

\* Step 6: every other running row is an orphan.
CleanOrphans ==
    /\ proc = "created"
    /\ runs' = [r \in RunIds |->
                  IF Running(r) /\ r # boots
                  THEN [runs[r] EXCEPT !.status = "crashed"] ELSE runs[r]]
    /\ proc' = "seeding" /\ unseeded' = Kinds
    /\ UNCHANGED <<clock, scheduled, queue, boots, job, fails, pending, stall, faults, hurt>>

\* Mutant of Seed: an entry of any kind counts, as with a prefix too short.
SeedUnlessAny(kind) ==
    /\ proc = "seeding" /\ kind \in unseeded
    /\ scheduled' = IF scheduled # {} THEN scheduled
                    ELSE scheduled \cup {<<kind, UntilNext(kind)>>}
    /\ unseeded' = unseeded \ {kind}
    /\ UNCHANGED <<clock, queue, runs, boots, proc, job, fails, pending, stall, faults, hurt>>

\* Step 7: a kind without an entry in the registry is scheduled.  (The order
\* of the kinds is fixed in the code and free here.)
Seed(kind) ==
    /\ proc = "seeding" /\ kind \in unseeded
    /\ scheduled' = IF \E e \in scheduled : e[1] = kind THEN scheduled
                    ELSE scheduled \cup {<<kind, UntilNext(kind)>>}
    /\ unseeded' = unseeded \ {kind}
    /\ UNCHANGED <<clock, queue, runs, boots, proc, job, fails, pending, stall, faults, hurt>>

StartWork ==
    /\ proc = "seeding" /\ unseeded = {}
    /\ proc' = "up"
    /\ UNCHANGED <<clock, scheduled, queue, runs, boots, unseeded, job, fails, pending,
                   stall, faults, hurt>>

\* SIGTERM: the worker lets the current job complete and returns; then the
\* run is marked stopped, whatever its status.
Stop ==
    /\ proc = "up" /\ job = Idle
    /\ proc' = "down"
    /\ runs' = [runs EXCEPT ![boots] = [status |-> "stopped", age |-> 0]]
    /\ UNCHANGED <<clock, scheduled, queue, boots, unseeded, job, fails, pending,
                   stall, faults, hurt>>

\* The process dies, or a step of its boot fails; the job at hand is lost, what
\* is in Redis and PostgreSQL stays.
ProcessDies ==
    /\ proc # "down" /\ boots < MaxRuns /\ faults < MaxFaults
    /\ faults' = faults + 1
    /\ proc' = "down" /\ job' = Idle /\ unseeded' = {}
    /\ UNCHANGED <<clock, scheduled, queue, runs, boots, fails, pending, stall, hurt>>

-----------------------------------------------------------------------------
(* RQ *)

\* A due job leaves the registry for the queue.
Enqueue(e) ==
    /\ proc = "up" /\ e \in Due
    /\ scheduled' = scheduled \ {e}
    /\ queue' = Append(queue, e[1])
    /\ UNCHANGED <<clock, runs, boots, proc, unseeded, job, fails, pending, stall,
                   faults, hurt>>

Dequeue ==
    /\ proc = "up" /\ job = Idle /\ queue # <<>>
    /\ job' = [Idle EXCEPT !.kind = Head(queue)]
    /\ queue' = Tail(queue)
    /\ UNCHANGED <<clock, scheduled, runs, boots, proc, unseeded, fails, pending,
                   stall, faults, hurt>>

-----------------------------------------------------------------------------
(* The tick jobs *)

\* What a step of a job leaves alone.
JobStep == UNCHANGED <<clock, queue, boots, proc, unseeded, stall>>

\* tick_main_cycle, tick_drift: find the active run, or give up: without a
\* run the job returns and its chain ends.
FindRun ==
    /\ job.kind \in NeedsRun /\ job.at = 0
    /\ IF ActiveRun = {} THEN job' = Idle
       ELSE \E r \in ActiveRun : job' = [job EXCEPT !.at = 1, !.run = r]
    /\ JobStep /\ UNCHANGED <<scheduled, runs, fails, pending, faults, hurt>>

\* The job is about to run phase p.
AtPhase(p) ==
    /\ job.kind \in NeedsRun /\ job.at \in DOMAIN Work(job.kind) /\ job.emit = {}
    /\ p = Work(job.kind)[job.at]

Touch(r) == [runs EXCEPT ![r].age = 0]

\* dispatch_pending_alerts: every alert is marked delivered except the critical
\* ones that Telegram does not take; they wait for the next pass.
Dispatch ==
    \E left \in SUBSET {a \in pending : a[1] \in {"stale", "failing"}} :
        /\ left # {} => faults < MaxFaults
        /\ faults' = IF left = {} THEN faults ELSE faults + 1
        /\ pending' = left

\* The phase succeeds: it has touched the heartbeat, its failure streak ends
\* and a streak that had crossed the threshold is reported as recovered.
PhaseSucceeds(p) ==
    /\ AtPhase(p)
    /\ runs' = Touch(job.run)
    /\ fails' = [fails EXCEPT ![p] = 0]
    /\ IF p = "alerts" THEN Dispatch ELSE UNCHANGED <<pending, faults>>
    /\ job' = [job EXCEPT !.at = @ + 1,
                          !.emit = IF fails[p] >= Threshold THEN {<<"recovered", p>>} ELSE {}]
    /\ JobStep /\ UNCHANGED <<scheduled, hurt>>

\* Mutant of PhaseFails: the exception ends the tick.
PhaseEndsTick(p) ==
    /\ AtPhase(p) /\ faults < MaxFaults
    /\ faults' = faults + 1
    /\ fails' = [fails EXCEPT ![p] = IF @ > Threshold THEN @ ELSE @ + 1]
    /\ job' = Idle
    /\ UNCHANGED runs
    /\ JobStep /\ UNCHANGED <<scheduled, pending, hurt>>

\* The phase raises, before or after its heartbeat: its streak grows, and is
\* reported when it reaches the threshold.  (The count saturates above it.)
PhaseFails(p) ==
    /\ AtPhase(p) /\ faults < MaxFaults
    /\ faults' = faults + 1
    /\ runs' \in {runs, Touch(job.run)}
    /\ fails' = [fails EXCEPT ![p] = IF @ > Threshold THEN @ ELSE @ + 1]
    /\ job' = [job EXCEPT !.at = @ + 1,
                          !.emit = IF fails'[p] = Threshold THEN {<<"failing", p>>} ELSE {}]
    /\ JobStep /\ UNCHANGED <<scheduled, pending, hurt>>

\* Mutant of Stale: a heartbeat of exactly the threshold is stale.
StaleOrEqual == {r \in RunIds : Running(r) /\ runs[r].age >= StaleAfter}

\* find_stale_runs
Stale == {r \in RunIds : Running(r) /\ runs[r].age > StaleAfter}

\* tick_stale_heartbeat_detector, first transaction.
DetectStale ==
    /\ job.kind = "stale" /\ job.at = 0
    /\ runs' = [r \in RunIds |-> IF r \in Stale THEN [runs[r] EXCEPT !.status = "crashed"]
                                 ELSE runs[r]]
    /\ job' = [job EXCEPT !.at = 1, !.emit = {"stale"} \X Stale]
    /\ JobStep /\ UNCHANGED <<scheduled, fails, pending, faults, hurt>>

\* tick_summary_daily, tick_summary_weekly
Summarise ==
    /\ job.kind = "summary" /\ job.at = 0
    /\ job' = [job EXCEPT !.at = 1, !.emit = {<<"summary", "daily">>}]
    /\ JobStep /\ UNCHANGED <<scheduled, runs, fails, pending, faults, hurt>>

\* _emit_alert: one row, in a transaction of its own.
EmitAlert(a) ==
    /\ a \in job.emit
    /\ pending' = pending \cup {a}
    /\ job' = [job EXCEPT !.emit = @ \ {a}]
    /\ JobStep /\ UNCHANGED <<scheduled, runs, fails, faults, hurt>>

\* The last act of a tick; the id of a boundary is scheduled once.
Requeue ==
    /\ job # Idle /\ job.at = Len(Work(job.kind)) + 1 /\ job.emit = {}
    /\ scheduled' = scheduled \cup {<<job.kind, UntilNext(job.kind)>>}
    /\ job' = Idle
    /\ JobStep /\ UNCHANGED <<runs, fails, pending, faults, hurt>>

\* The job ends early: the run lookup, the recording of an outcome, the insert
\* of an alert or the re-enqueue raises because PostgreSQL or Redis is away, or
\* RQ's timeout or the kernel kills the work horse.
JobDies ==
    /\ job # Idle /\ faults < MaxFaults
    /\ faults' = faults + 1
    /\ job' = Idle /\ hurt' = TRUE
    /\ JobStep /\ UNCHANGED <<scheduled, runs, fails, pending>>

-----------------------------------------------------------------------------
(* The specification *)

Init ==
    /\ clock = 0 /\ scheduled = {} /\ queue = <<>>
    /\ runs = [r \in RunIds |-> [status |-> "none", age |-> 0]]
    /\ boots = 0 /\ proc = "down" /\ unseeded = {} /\ job = Idle
    /\ fails = [p \in PhaseNames |-> 0]
    /\ pending = {}
    /\ stall = 0 /\ faults = 0 /\ hurt = FALSE

\* Docker restarts the process, and a process that lives keeps working.
BootStep == Boot \/ CleanOrphans \/ (\E kind \in Kinds : Seed(kind)) \/ StartWork

WorkStep ==
    \/ \E e \in Due : Enqueue(e)
    \/ Dequeue
    \/ FindRun
    \/ \E p \in PhaseNames : PhaseSucceeds(p) \/ PhaseFails(p)
    \/ DetectStale
    \/ Summarise
    \/ \E a \in job.emit : EmitAlert(a)
    \/ Requeue

Next ==
    \/ Tick
    \/ BootStep
    \/ WorkStep
    \/ JobDies
    \/ ProcessDies
    \/ Stop

Spec == Init /\ [][Next]_vars

\* Time passes, Docker restarts the process (restart: unless-stopped), and the
\* worker works on; faults and SIGTERM owe nothing.
FairSpec == Spec /\ WF_vars(Tick) /\ WF_vars(BootStep) /\ WF_vars(WorkStep)

-----------------------------------------------------------------------------
(* Properties *)

\* Rows, counters and jobs of the right shape, and every scheduled job at most
\* Grid minutes away.
TypeOK ==
    /\ clock \in 0 .. Grid - 1
    /\ scheduled \subseteq Kinds \X (0 .. Grid)
    /\ queue \in Seq(Kinds)
    /\ runs \in [RunIds -> RunRows]
    /\ boots \in 0 .. MaxRuns
    /\ proc \in {"down", "created", "seeding", "up"}
    /\ unseeded \subseteq Kinds
    /\ job \in Jobs
    /\ fails \in [PhaseNames -> 0 .. Threshold + 1]
    /\ pending \subseteq Alerts
    /\ stall \in 0 .. MaxStall /\ faults \in 0 .. MaxFaults /\ hurt \in BOOLEAN

\* _active_run_id: "within a healthy lifecycle there is at most one 'running'
\* row": once a boot has cleaned up, no row but its own is running, and a job
\* at work holds the row of the process that executes it.
OneRunningRun ==
    proc \in {"seeding", "up"} =>
        /\ \A r \in RunIds : Running(r) => r = boots
        /\ job.run \in {0, boots}

\* jobs.py, module docstring: each tick re-enqueues itself, except when there
\* is no active run.  So while no job of the process has died, every chain has
\* a job somewhere, through reboots and any number of failed phases; only the
\* chains that need a run may have ended, and only when the run has.
ChainsUnbroken ==
    proc = "up" /\ ~hurt =>
        \A kind \in Kinds : Alive(kind) \/ (kind \in NeedsRun /\ ~Running(boots))

\* The detector calls the run of the living process crashed only when its main
\* chain is broken, or when every phase of the main cycle fails.
DetectorAccurate ==
    [][proc = "up" /\ Running(boots) /\ runs'[boots].status = "crashed" =>
         ~Alive("main") \/ \A i \in DOMAIN Phases : fails[Phases[i]] > 0]_vars

\* A run whose process is gone does not stay running: the next boot, or its
\* detector, settles it.
DeadRunSettled ==
    \A r \in RunIds : Running(r) /\ ~(proc # "down" /\ r = boots) ~> ~Running(r)

\* While the process lives, its run is running and no job dies, the main cycle
\* comes round again.
CycleGoesOn ==
    (proc = "up" /\ ~hurt /\ Running(boots))
        ~> (job.kind = "main" \/ proc # "up" \/ hurt \/ ~Running(boots))
=============================================================================
