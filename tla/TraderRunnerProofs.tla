-------------------------- MODULE TraderRunnerProofs --------------------------
(***************************************************************************)
(* Proofs about TraderRunner, for every set of ticks, list of phases,      *)
(* schedule, threshold and bound.                                          *)
(*                                                                         *)
(* ChainsUnbroken is not inductive: that a boot ends with every chain      *)
(* alive rests on what the bootstrap has done so far (Seeded), that no job *)
(* is at work outside proc = "up" (Quiet), and that a chain which gives up *)
(* for want of a run leaves none running rests on the boot having settled  *)
(* all older rows (Settled).                                               *)
(***************************************************************************)
EXTENDS TraderRunner, TLAPS

\* Only a worker that is up executes a job.
Quiet == proc # "up" => job = Idle

\* The rows that are running have been created, and a live process has one.
Booted ==
    /\ \A r \in RunIds : Running(r) => r <= boots
    /\ proc # "down" => boots \in RunIds

\* After the clean-up no row but the process's own is running.
Settled ==
    proc \in {"seeding", "up"} =>
        /\ \A r \in RunIds : Running(r) => r = boots
        /\ job.run \in {0, boots}

\* What the bootstrap has looked at is in the registry.
Seeded ==
    proc = "seeding" =>
        \A kind \in Kinds \ unseeded : \E e \in scheduled : e[1] = kind

IInv == TypeOK /\ Quiet /\ Booted /\ Settled /\ Seeded /\ ChainsUnbroken

-----------------------------------------------------------------------------
(* Lemmas about the helpers *)

\* The next boundary is at least one and at most Grid minutes away.
LEMMA UntilNextInGrid ==
    ASSUME NEW kind \in Kinds, clock \in 0 .. Grid - 1
    PROVE  UntilNext(kind) \in 1 .. Grid
<1>1. Every[kind] \in 1 .. Grid  BY RunnerAssumption
<1>2. clock % Every[kind] \in 0 .. Every[kind] - 1  BY <1>1, RunnerAssumption
<1> QED  BY <1>1, <1>2, RunnerAssumption DEF UntilNext

LEMMA IdleIsAJob == Idle \in Jobs
<1>1. Len(Phases) \in Nat  BY RunnerAssumption
<1> QED  BY <1>1, RunnerAssumption DEF Idle, Jobs

\* How a job at hand may change.
LEMMA JobFields ==
    ASSUME NEW j \in Jobs, j # Idle
    PROVE  /\ j.kind \in Kinds
           /\ j.at \in 0 .. Len(Phases) + 1
           /\ j.emit \subseteq Alerts
           /\ \A S \in SUBSET Alerts : [j EXCEPT !.emit = S] \in Jobs
           /\ \A n \in 0 .. Len(Phases) + 1 :
                 /\ \A r \in 0 .. MaxRuns : [j EXCEPT !.at = n, !.run = r] \in Jobs
                 /\ \A S \in SUBSET Alerts : [j EXCEPT !.at = n, !.emit = S] \in Jobs
  BY DEF Jobs

\* No tick has more phases than the main cycle.
LEMMA WorkIsShort ==
    ASSUME NEW kind \in Kinds
    PROVE  /\ Work(kind) \in Seq(PhaseNames)
           /\ Len(Work(kind)) <= Len(Phases)
<1>1. Phases \in Seq(PhaseNames)  BY RunnerAssumption DEF PhaseNames
<1>2. Len(Phases) >= 1  BY RunnerAssumption
<1>3. "drift" \in PhaseNames  BY DEF PhaseNames
<1> QED  BY <1>1, <1>2, <1>3 DEF Work

\* Who is at work is not idle.
LEMMA NotIdle ==
    /\ job.kind \in {"main", "drift", "summary", "stale"} => job # Idle
    /\ job.emit # {} => job # Idle
  BY DEF Idle

\* The job at a phase has a next step.
LEMMA PhaseHasNext ==
    ASSUME TypeOK, NEW p, AtPhase(p)
    PROVE  job # Idle /\ job.at + 1 \in 0 .. Len(Phases) + 1
<1>1. job # Idle  BY NotIdle DEF AtPhase, NeedsRun
<1>2. job.kind \in Kinds /\ job.at \in 0 .. Len(Phases) + 1
  BY <1>1, JobFields DEF TypeOK
<1>3. Work(job.kind) \in Seq(PhaseNames) /\ Len(Work(job.kind)) <= Len(Phases)
  BY <1>2, WorkIsShort
<1>4. job.at \in 1 .. Len(Work(job.kind))  BY <1>3 DEF AtPhase
<1>5. Len(Phases) \in Nat  BY RunnerAssumption
<1> QED  BY <1>1, <1>2, <1>3, <1>4, <1>5

\* How a row of trader_bot_runs may change.
LEMMA RowFields ==
    ASSUME NEW row \in RunRows
    PROVE  /\ row.age \in 0 .. StaleAfter + 1
           /\ \A n \in 0 .. StaleAfter + 1 : [row EXCEPT !.age = n] \in RunRows
           /\ [row EXCEPT !.status = "crashed"] \in RunRows
           /\ Older(row) \in RunRows /\ Older(row).status = row.status
<1>1. row.age \in 0 .. StaleAfter + 1  BY DEF RunRows
<1>2. \A n \in 0 .. StaleAfter + 1 : [row EXCEPT !.age = n] \in RunRows  BY DEF RunRows
<1>3. [row EXCEPT !.status = "crashed"] \in RunRows  BY DEF RunRows
<1>4. Older(row) \in RunRows /\ Older(row).status = row.status
  <2> DEFINE n == IF row.age > StaleAfter THEN row.age ELSE row.age + 1
  <2>1. n \in 0 .. StaleAfter + 1  BY <1>1, RunnerAssumption
  <2>2. Older(row) = [row EXCEPT !.age = n]  BY DEF Older
  <2> HIDE DEF n
  <2>3. [row EXCEPT !.age = n].status = row.status  BY DEF RunRows
  <2> QED  BY <1>2, <2>1, <2>2, <2>3
<1> QED  BY <1>1, <1>2, <1>3, <1>4

\* A heartbeat leaves every row a row, of the same status.
LEMMA TouchKeepsRows ==
    ASSUME runs \in [RunIds -> RunRows], NEW r
    PROVE  /\ Touch(r) \in [RunIds -> RunRows]
           /\ \A s \in RunIds : Touch(r)[s].status = runs[s].status
<1>1. \A s \in RunIds : [runs[s] EXCEPT !.age = 0] \in RunRows
                      /\ [runs[s] EXCEPT !.age = 0].status = runs[s].status
  BY SMTT(30), RunnerAssumption DEF RunRows
<1>2. CASE r \in RunIds  BY <1>1, <1>2 DEF Touch
<1>3. CASE r \notin RunIds
  <2>1. Touch(r) = runs  BY <1>3 DEF Touch
  <2> QED  BY <2>1
<1> QED  BY <1>2, <1>3

-----------------------------------------------------------------------------
(* Type correctness *)

LEMMA InitTypeOK == Init => TypeOK
<1> SUFFICES ASSUME Init PROVE TypeOK  OBVIOUS
<1>1. 0 \in 0 .. Grid - 1 /\ 0 \in 0 .. MaxRuns /\ 0 \in 0 .. MaxStall /\ 0 \in 0 .. MaxFaults
  BY RunnerAssumption
<1>2. runs \in [RunIds -> RunRows]  BY RunnerAssumption DEF Init, RunRows
<1>3. fails \in [PhaseNames -> 0 .. Threshold + 1]  BY RunnerAssumption DEF Init
<1>4. queue \in Seq(Kinds)  BY DEF Init
<1> QED  BY <1>1, <1>2, <1>3, <1>4, IdleIsAJob DEF Init, TypeOK

LEMMA NextTypeOK == TypeOK /\ [Next]_vars => TypeOK'
<1> SUFFICES ASSUME TypeOK, [Next]_vars PROVE TypeOK'  OBVIOUS
<1> USE RunnerAssumption
<1>0. Len(Phases) \in Nat  OBVIOUS
<1>1. CASE Tick
  <2>1. scheduled' \subseteq Kinds \X (0 .. Grid)  BY <1>1 DEF TypeOK, Tick
  <2>2. clock' \in 0 .. Grid - 1  BY <1>1 DEF TypeOK, Tick
  <2>3. runs' \in [RunIds -> RunRows]  BY <1>1, RowFields DEF TypeOK, Tick
  <2>4. stall' \in 0 .. MaxStall  BY <1>1 DEF TypeOK, Tick
  <2> QED  BY <1>1, <2>1, <2>2, <2>3, <2>4 DEF TypeOK, Tick
<1>2. CASE Boot
  <2>1. boots' \in 0 .. MaxRuns /\ 0 \in 0 .. MaxStall  BY <1>2 DEF TypeOK, Boot
  <2>2. [status |-> "running", age |-> 0] \in RunRows  BY DEF RunRows
  <2>3. runs' \in [RunIds -> RunRows]  BY <1>2, <2>2 DEF TypeOK, Boot
  <2> QED  BY <1>2, <2>1, <2>3 DEF TypeOK, Boot
<1>3. CASE CleanOrphans
  <2>1. runs' \in [RunIds -> RunRows]  BY <1>3, RowFields DEF TypeOK, CleanOrphans
  <2> QED  BY <1>3, <2>1 DEF TypeOK, CleanOrphans
<1>4. ASSUME NEW kind \in Kinds, Seed(kind) PROVE TypeOK'
  <2>1. UntilNext(kind) \in 0 .. Grid  BY UntilNextInGrid DEF TypeOK
  <2> QED  BY <1>4, <2>1 DEF TypeOK, Seed
<1>5. CASE StartWork
  BY <1>5 DEF TypeOK, StartWork
<1>6. CASE Stop
  <2>1. [status |-> "stopped", age |-> 0] \in RunRows  BY DEF RunRows
  <2>2. runs' \in [RunIds -> RunRows]  BY <1>6, <2>1 DEF TypeOK, Stop
  <2> QED  BY <1>6, <2>2 DEF TypeOK, Stop
<1>7. CASE ProcessDies
  BY <1>7, IdleIsAJob DEF TypeOK, ProcessDies
<1>8. ASSUME NEW e \in Due, Enqueue(e) PROVE TypeOK'
  <2>1. e[1] \in Kinds  BY DEF TypeOK, Due
  <2>2. queue' \in Seq(Kinds)  BY <1>8, <2>1 DEF TypeOK, Enqueue
  <2> QED  BY <1>8, <2>2 DEF TypeOK, Enqueue
<1>9. CASE Dequeue
  <2>1. Head(queue) \in Kinds /\ Tail(queue) \in Seq(Kinds)
    BY <1>9 DEF TypeOK, Dequeue
  <2>2. job' \in Jobs
    <3>1. job' = [kind |-> Head(queue), at |-> 0, run |-> 0, emit |-> {}]
      BY <1>9 DEF Dequeue, Idle
    <3>2. 0 \in 0 .. Len(Phases) + 1 /\ 0 \in 0 .. MaxRuns  BY <1>0
    <3> QED  BY <2>1, <3>1, <3>2 DEF Jobs
  <2> QED  BY <1>9, <2>1, <2>2 DEF TypeOK, Dequeue
<1>10. CASE FindRun
  <2>1. 1 \in 0 .. Len(Phases) + 1  BY <1>0
  <2>4. job # Idle  BY <1>10, NotIdle DEF FindRun, NeedsRun
  <2>2. ActiveRun \subseteq 0 .. MaxRuns  BY DEF ActiveRun, RunIds
  <2>3. job' \in Jobs
    <3>1. CASE ActiveRun = {}  BY <1>10, <3>1, IdleIsAJob DEF FindRun
    <3>2. CASE ActiveRun # {}
      <4>1. PICK r \in ActiveRun : job' = [job EXCEPT !.at = 1, !.run = r]
        BY <1>10, <3>2 DEF FindRun
      <4> QED  BY <4>1, <2>1, <2>2, <2>4, JobFields DEF TypeOK
    <3> QED  BY <3>1, <3>2
  <2> QED  BY <1>10, <2>3 DEF TypeOK, FindRun, JobStep
<1>11. ASSUME NEW p \in PhaseNames, PhaseSucceeds(p) PROVE TypeOK'
  <2>1. job # Idle /\ job.at + 1 \in 0 .. Len(Phases) + 1
    BY <1>11, PhaseHasNext DEF PhaseSucceeds
  <2>2. <<"recovered", p>> \in Alerts  BY DEF Alerts
  <2>3. job' \in Jobs
    <3> DEFINE emit == IF fails[p] >= Threshold THEN {<<"recovered", p>>} ELSE {}
    <3>1. emit \subseteq Alerts  BY <2>2
    <3>2. job' = [job EXCEPT !.at = @ + 1, !.emit = emit]  BY <1>11 DEF PhaseSucceeds
    <3> HIDE DEF emit
    <3> QED  BY <2>1, <3>1, <3>2, JobFields DEF TypeOK
  <2>4. runs' \in [RunIds -> RunRows]  BY <1>11, TouchKeepsRows DEF TypeOK, PhaseSucceeds
  <2>5. fails' \in [PhaseNames -> 0 .. Threshold + 1]  BY <1>11 DEF TypeOK, PhaseSucceeds
  <2>6. pending' \subseteq Alerts /\ faults' \in 0 .. MaxFaults
    <3>0. /\ pending \subseteq Alerts /\ faults \in 0 .. MaxFaults
          /\ IF p = "alerts" THEN Dispatch ELSE UNCHANGED <<pending, faults>>
      BY <1>11 DEF TypeOK, PhaseSucceeds
    <3>1. CASE p = "alerts"
      <4>1. Dispatch  BY <3>0, <3>1
      <4> QED  BY ONLY <3>0, <4>1, RunnerAssumption DEF Dispatch
    <3>2. CASE p # "alerts"  BY <3>0, <3>2
    <3> QED  BY <3>1, <3>2
  <2> QED  BY <1>11, <2>3, <2>4, <2>5, <2>6 DEF TypeOK, PhaseSucceeds, JobStep
<1>12. ASSUME NEW p \in PhaseNames, PhaseFails(p) PROVE TypeOK'
  <2>1. job # Idle /\ job.at + 1 \in 0 .. Len(Phases) + 1
    BY <1>12, PhaseHasNext DEF PhaseFails
  <2>2. <<"failing", p>> \in Alerts  BY DEF Alerts
  <2>3. job' \in Jobs
    <3> DEFINE emit == IF fails'[p] = Threshold THEN {<<"failing", p>>} ELSE {}
    <3>1. emit \subseteq Alerts  BY <2>2
    <3>2. job' = [job EXCEPT !.at = @ + 1, !.emit = emit]  BY <1>12 DEF PhaseFails
    <3> HIDE DEF emit
    <3> QED  BY <2>1, <3>1, <3>2, JobFields DEF TypeOK
  <2>4. runs' \in [RunIds -> RunRows]  BY <1>12, TouchKeepsRows DEF TypeOK, PhaseFails
  <2>5. fails' \in [PhaseNames -> 0 .. Threshold + 1]
    <3>1. fails \in [PhaseNames -> 0 .. Threshold + 1] /\ Threshold \in Nat
      BY RunnerAssumption DEF TypeOK
    <3> DEFINE n == IF fails[p] > Threshold THEN fails[p] ELSE fails[p] + 1
    <3>2. fails' = [fails EXCEPT ![p] = n]  BY <1>12 DEF PhaseFails
    <3>3. n \in 0 .. Threshold + 1
      <4>1. fails[p] \in 0 .. Threshold + 1  BY <3>1
      <4> QED  BY <3>1, <4>1
    <3> HIDE DEF n
    <3> QED  BY <3>1, <3>2, <3>3
  <2>6. faults' \in 0 .. MaxFaults
    <3>1. faults' = faults + 1 /\ faults < MaxFaults  BY <1>12 DEF PhaseFails
    <3> QED  BY <3>1 DEF TypeOK
  <2>7. UNCHANGED <<clock, scheduled, queue, boots, proc, unseeded, pending, stall, hurt>>
    BY <1>12 DEF PhaseFails, JobStep
  <2>8. TypeOK  OBVIOUS
  <2> QED  BY ONLY <2>3, <2>4, <2>5, <2>6, <2>7, <2>8 DEF TypeOK
<1>13. CASE DetectStale
  <2>1. {"stale"} \X Stale \subseteq Alerts  BY DEF Alerts, Stale
  <2>2. 1 \in 0 .. Len(Phases) + 1 /\ job # Idle  BY <1>0, <1>13, NotIdle DEF DetectStale
  <2>3. job' \in Jobs  BY <1>13, <2>1, <2>2, JobFields DEF TypeOK, DetectStale
  <2>4. runs' \in [RunIds -> RunRows]  BY <1>13, RowFields DEF TypeOK, DetectStale
  <2> QED  BY <1>13, <2>3, <2>4 DEF TypeOK, DetectStale, JobStep
<1>14. CASE Summarise
  <2>1. {<<"summary", "daily">>} \subseteq Alerts  BY DEF Alerts
  <2>2. 1 \in 0 .. Len(Phases) + 1 /\ job # Idle  BY <1>0, <1>14, NotIdle DEF Summarise
  <2>3. job' \in Jobs  BY <1>14, <2>1, <2>2, JobFields DEF TypeOK, Summarise
  <2> QED  BY <1>14, <2>3 DEF TypeOK, Summarise, JobStep
<1>15. ASSUME NEW a \in job.emit, EmitAlert(a) PROVE TypeOK'
  <2>1. job' \in Jobs /\ a \in Alerts  BY <1>15, NotIdle, JobFields DEF TypeOK, EmitAlert
  <2> QED  BY <1>15, <2>1 DEF TypeOK, EmitAlert, JobStep
<1>16. CASE Requeue
  <2>1. job.kind \in Kinds
    BY <1>16, JobFields DEF TypeOK, Requeue
  <2>2. \A kind \in Kinds : UntilNext(kind) \in 0 .. Grid  BY UntilNextInGrid DEF TypeOK
  <2>3. scheduled' \subseteq Kinds \X (0 .. Grid)
    <3> DEFINE e == <<job.kind, UntilNext(job.kind)>>
    <3>1. UntilNext(job.kind) \in 0 .. Grid  BY <2>1, <2>2
    <3>2. e \in Kinds \X (0 .. Grid)  BY <2>1, <3>1
    <3>3. scheduled' = scheduled \cup {e}  BY <1>16 DEF Requeue
    <3>4. scheduled \subseteq Kinds \X (0 .. Grid)  BY DEF TypeOK
    <3> HIDE DEF e
    <3> QED  BY <3>2, <3>3, <3>4
  <2>4. job' \in Jobs  BY <1>16, IdleIsAJob DEF Requeue
  <2> QED  BY <1>16, <2>3, <2>4 DEF TypeOK, Requeue, JobStep
<1>17. CASE JobDies
  <2>1. job' \in Jobs /\ faults' \in 0 .. MaxFaults  BY <1>17, IdleIsAJob DEF TypeOK, JobDies
  <2>2. UNCHANGED <<clock, scheduled, queue, runs, boots, proc, unseeded, fails, pending, stall>>
    BY <1>17 DEF JobDies, JobStep
  <2>3. hurt' \in BOOLEAN  BY <1>17 DEF JobDies
  <2> QED  BY <2>1, <2>2, <2>3 DEF TypeOK
<1>18. CASE UNCHANGED vars
  BY <1>18 DEF TypeOK, vars
<1>19. CASE BootStep  BY <1>2, <1>3, <1>4, <1>5, <1>19 DEF BootStep
<1>20. CASE WorkStep
  BY <1>8, <1>9, <1>10, <1>11, <1>12, <1>13, <1>14, <1>15, <1>16, <1>20 DEF WorkStep
<1> QED  BY <1>1, <1>6, <1>7, <1>17, <1>18, <1>19, <1>20 DEF Next

-----------------------------------------------------------------------------
(* The chains and the runs *)

LEMMA InitIInv == Init => IInv
<1> SUFFICES ASSUME Init PROVE IInv  OBVIOUS
<1>1. TypeOK  BY InitTypeOK
<1>2. Quiet /\ Booted /\ Settled /\ Seeded /\ ChainsUnbroken
  BY DEF Init, Quiet, Booted, Settled, Seeded, ChainsUnbroken, Running
<1> QED  BY <1>1, <1>2 DEF IInv

\* A step of a job that leaves the rows' statuses, or turns some of them from
\* running to crashed, and neither ends the job nor touches the registry.
LEMMA WorkKeeps ==
    ASSUME IInv, TypeOK', job # Idle, JobStep, scheduled' = scheduled, hurt' = hurt,
           job'.kind = job.kind, job'.run \in {job.run, boots},
           \A r \in RunIds : Running(r)' => Running(r)
    PROVE  IInv'
<1>1. proc = "up" /\ proc' = "up"  BY DEF IInv, Quiet, JobStep
<1>2. Quiet' /\ Seeded'  BY <1>1 DEF Quiet, Seeded
<1>3. Booted'  BY DEF IInv, Booted, JobStep
<1>4. Settled'  BY <1>1 DEF IInv, Settled, JobStep
<1>5. \A kind : Alive(kind) => Alive(kind)'  BY DEF Alive, JobStep
<1>6. boots \in RunIds  BY <1>1 DEF IInv, Booted
<1>7. ChainsUnbroken'  BY <1>1, <1>5, <1>6 DEF IInv, ChainsUnbroken, JobStep
<1> QED  BY <1>2, <1>3, <1>4, <1>7 DEF IInv

LEMMA NextIInv == IInv /\ [Next]_vars => IInv'
<1> SUFFICES ASSUME IInv, [Next]_vars PROVE IInv'  OBVIOUS
<1> USE DEF IInv
<1>0. TypeOK'  BY NextTypeOK
<1>1. CASE Tick
  <2>1. \A r \in RunIds : runs'[r].status = runs[r].status
    BY <1>1, RowFields DEF TypeOK, Tick
  <2>2. ASSUME NEW kind, NEW e \in scheduled, e[1] = kind
        PROVE  \E f \in scheduled' : f[1] = kind
    <3> DEFINE f == <<e[1], IF e[2] = 0 THEN 0 ELSE e[2] - 1>>
    <3>1. f \in scheduled'  BY <1>1 DEF Tick
    <3>2. f[1] = kind  BY <2>2
    <3> QED  BY <3>1, <3>2
  <2>3. \A kind : Alive(kind) => Alive(kind)'  BY <1>1, <2>2 DEF Tick, Alive
  <2>4. Quiet' /\ Booted' /\ Settled'
    BY <1>1, <2>1 DEF Tick, Quiet, Booted, Settled, Running
  <2>5. Seeded'  BY <1>1, <2>2 DEF Tick, Seeded
  <2>6. ChainsUnbroken'  BY <1>1, <2>1, <2>3 DEF Tick, ChainsUnbroken, Booted, Running
  <2> QED  BY <1>0, <2>4, <2>5, <2>6
<1>2. CASE Boot
  <2>1. boots' \in RunIds  BY <1>2, RunnerAssumption DEF Boot, TypeOK, RunIds
  <2>2. \A r \in RunIds : Running(r)' => Running(r) \/ r = boots'
    BY <1>2 DEF Boot, TypeOK, Running
  <2>3. Booted'  BY <1>2, <2>1, <2>2 DEF Boot, Booted, TypeOK, RunIds
  <2>4. Quiet' /\ Settled' /\ Seeded' /\ ChainsUnbroken'
    BY <1>2 DEF Boot, Quiet, Settled, Seeded, ChainsUnbroken
  <2> QED  BY <1>0, <2>3, <2>4
<1>3. CASE CleanOrphans
  <2>1. \A r \in RunIds : Running(r)' => Running(r) /\ r = boots
    BY <1>3 DEF CleanOrphans, TypeOK, Running, RunRows
  <2>2. Booted' /\ Quiet'  BY <1>3, <2>1 DEF CleanOrphans, Booted, Quiet
  <2>3. Settled'  BY <1>3, <2>1 DEF CleanOrphans, Settled, Quiet, Idle
  <2>4. Seeded' /\ ChainsUnbroken'  BY <1>3 DEF CleanOrphans, Seeded, ChainsUnbroken
  <2> QED  BY <1>0, <2>2, <2>3, <2>4
<1>4. ASSUME NEW kind \in Kinds, Seed(kind) PROVE IInv'
  <2>1. Quiet' /\ Booted' /\ Settled' /\ ChainsUnbroken'
    BY <1>4 DEF Seed, Quiet, Booted, Settled, ChainsUnbroken, Running
  <2>2. Seeded'
    <3>1. \E e \in scheduled' : e[1] = kind
      <4>1. CASE \E e \in scheduled : e[1] = kind  BY <1>4, <4>1 DEF Seed
      <4>2. CASE ~\E e \in scheduled : e[1] = kind
        <5>1. <<kind, UntilNext(kind)>> \in scheduled'  BY <1>4, <4>2 DEF Seed
        <5> QED  BY <5>1
      <4> QED  BY <4>1, <4>2
    <3>2. scheduled \subseteq scheduled'  BY <1>4 DEF Seed
    <3> QED  BY <1>4, <3>1, <3>2 DEF Seed, Seeded
  <2> QED  BY <1>0, <2>1, <2>2
<1>5. CASE StartWork
  <2>1. Quiet' /\ Booted' /\ Settled' /\ Seeded'
    BY <1>5 DEF StartWork, Quiet, Booted, Settled, Seeded, Running
  <2>2. \A kind \in Kinds : Alive(kind)'  BY <1>5 DEF StartWork, Seeded, Alive
  <2>3. ChainsUnbroken'  BY <2>2 DEF ChainsUnbroken
  <2> QED  BY <1>0, <2>1, <2>3
<1>6. CASE Stop
  <2>1. \A r \in RunIds : Running(r)' => Running(r)
    BY <1>6 DEF Stop, TypeOK, Running
  <2>2. Booted'  BY <1>6, <2>1 DEF Stop, Booted
  <2>3. Quiet' /\ Settled' /\ Seeded' /\ ChainsUnbroken'
    BY <1>6 DEF Stop, Quiet, Settled, Seeded, ChainsUnbroken
  <2> QED  BY <1>0, <2>2, <2>3
<1>7. CASE ProcessDies
  <2>1. Quiet' /\ Booted' /\ Settled' /\ Seeded' /\ ChainsUnbroken'
    BY <1>7 DEF ProcessDies, Quiet, Booted, Settled, Seeded, ChainsUnbroken, Running
  <2> QED  BY <1>0, <2>1
<1>8. ASSUME NEW e \in Due, Enqueue(e) PROVE IInv'
  <2>1. e \in scheduled /\ e[1] \in Kinds  BY DEF Due, TypeOK
  <2>2. queue' = Append(queue, e[1]) /\ queue \in Seq(Kinds)  BY <1>8 DEF Enqueue, TypeOK
  <2>3. /\ \A i \in DOMAIN queue : i \in DOMAIN queue' /\ queue'[i] = queue[i]
        /\ \E i \in DOMAIN queue' : queue'[i] = e[1]
    <3>1. Len(queue) \in Nat /\ Len(queue') = Len(queue) + 1  BY <2>1, <2>2
    <3>2. queue'[Len(queue) + 1] = e[1]  BY <2>1, <2>2
    <3>3. DOMAIN queue' = 1 .. Len(queue) + 1 /\ DOMAIN queue = 1 .. Len(queue)
      BY <2>1, <2>2, <3>1
    <3>4. Len(queue) + 1 \in DOMAIN queue'  BY <3>1, <3>3
    <3> QED  BY <2>1, <2>2, <3>1, <3>2, <3>3, <3>4
  <2>4. \A kind : Alive(kind) => Alive(kind)'  BY <1>8, <2>3 DEF Enqueue, Alive
  <2>5. Quiet' /\ Booted' /\ Settled' /\ Seeded'
    BY <1>8 DEF Enqueue, Quiet, Booted, Settled, Seeded, Running
  <2>6. ChainsUnbroken'  BY <1>8, <2>4 DEF Enqueue, ChainsUnbroken, Running
  <2> QED  BY <1>0, <2>5, <2>6
<1>9. CASE Dequeue
  <2>1. queue \in Seq(Kinds) /\ queue # <<>>  BY <1>9 DEF Dequeue, TypeOK
  <2>2. job'.kind = Head(queue) /\ job'.run = 0 /\ queue' = Tail(queue)
    BY <1>9 DEF Dequeue, Idle
  <2>3. \A i \in DOMAIN queue : queue[i] = Head(queue)
                             \/ \E j \in DOMAIN queue' : queue'[j] = queue[i]
    <3>1. Len(queue) \in Nat \ {0} /\ DOMAIN queue = 1 .. Len(queue)  BY <2>1
    <3>2. DOMAIN queue' = 1 .. Len(queue) - 1  BY <2>1, <2>2
    <3>3. \A j \in 1 .. Len(queue) - 1 : queue'[j] = queue[j + 1]  BY <2>1, <2>2
    <3>4. Head(queue) = queue[1]  BY <2>1
    <3>5. ASSUME NEW i \in DOMAIN queue, i # 1
          PROVE  \E j \in DOMAIN queue' : queue'[j] = queue[i]
      <4>1. i - 1 \in DOMAIN queue' /\ queue'[i - 1] = queue[i]
        BY <3>1, <3>2, <3>3, <3>5
      <4> QED  BY <4>1
    <3> QED  BY <3>4, <3>5
  <2>4. \A kind \in Kinds : job.kind # kind  BY <1>9, RunnerAssumption DEF Dequeue, Idle
  <2>5. \A kind \in Kinds : Alive(kind) => Alive(kind)'
    BY <1>9, <2>2, <2>3, <2>4 DEF Dequeue, Alive
  <2>6. Quiet' /\ Booted' /\ Seeded'
    BY <1>9 DEF Dequeue, Quiet, Booted, Seeded, Running
  <2>7. Settled'  BY <1>9, <2>2 DEF Dequeue, Settled, Running
  <2>8. ChainsUnbroken'  BY <1>9, <2>5 DEF Dequeue, ChainsUnbroken, Running
  <2> QED  BY <1>0, <2>6, <2>7, <2>8
<1>10. CASE FindRun
  <2>1. job # Idle  BY <1>10, NotIdle DEF FindRun, NeedsRun
  <2>2. proc = "up" /\ boots \in RunIds  BY <2>1 DEF Quiet, Booted
  <2>3. ActiveRun \subseteq {boots}  BY <2>2 DEF ActiveRun, Settled
  <2>4. CASE ActiveRun = {}
    <3>1. ~Running(boots)
      <4>1. SUFFICES ASSUME Running(boots) PROVE FALSE  OBVIOUS
      <4>2. \A s \in RunIds : Running(s) => s <= boots  BY DEF Booted
      <4>3. boots \in ActiveRun  BY <2>2, <4>1, <4>2 DEF ActiveRun
      <4> QED  BY <2>4, <4>3
    <3>2. job' = Idle  BY <1>10, <2>4 DEF FindRun
    <3>3. \A kind : Alive(kind) => Alive(kind)' \/ kind = job.kind
      BY <1>10 DEF FindRun, JobStep, Alive
    <3>4. ChainsUnbroken'
      BY <1>10, <3>1, <3>3 DEF FindRun, JobStep, ChainsUnbroken, Running
    <3>5. Quiet' /\ Booted' /\ Seeded'
      BY <1>10, <2>2 DEF FindRun, JobStep, Quiet, Booted, Seeded, Running
    <3>6. Settled'  BY <1>10, <3>2 DEF FindRun, JobStep, Settled, Running, Idle
    <3> QED  BY <1>0, <3>4, <3>5, <3>6
  <2>5. CASE ActiveRun # {}
    <3>1. PICK r \in ActiveRun : job' = [job EXCEPT !.at = 1, !.run = r]
      BY <1>10, <2>5 DEF FindRun
    <3>2. job'.kind = job.kind /\ job'.run = boots
      <4>1. job \in Jobs  BY DEF TypeOK
      <4> QED  BY <2>1, <2>3, <3>1, <4>1 DEF Jobs
    <3>3. \A s \in RunIds : Running(s)' => Running(s)  BY <1>10 DEF FindRun, Running
    <3> QED  BY <1>0, <1>10, <2>1, <3>2, <3>3, WorkKeeps DEF FindRun
  <2> QED  BY <2>4, <2>5
<1>11. ASSUME NEW p \in PhaseNames, PhaseSucceeds(p) PROVE IInv'
  <2>1. job # Idle /\ job \in Jobs  BY <1>11, PhaseHasNext DEF PhaseSucceeds, TypeOK
  <2>2. job'.kind = job.kind /\ job'.run = job.run
    BY <1>11, <2>1 DEF PhaseSucceeds, Jobs
  <2>3. \A s \in RunIds : Running(s)' => Running(s)
    BY <1>11, TouchKeepsRows DEF PhaseSucceeds, Running, TypeOK
  <2> QED  BY <1>0, <1>11, <2>1, <2>2, <2>3, WorkKeeps DEF PhaseSucceeds
<1>12. ASSUME NEW p \in PhaseNames, PhaseFails(p) PROVE IInv'
  <2>1. job # Idle /\ job \in Jobs  BY <1>12, PhaseHasNext DEF PhaseFails, TypeOK
  <2>2. job'.kind = job.kind /\ job'.run = job.run
    BY <1>12, <2>1 DEF PhaseFails, Jobs
  <2>3. \A s \in RunIds : Running(s)' => Running(s)
    BY <1>12, TouchKeepsRows DEF PhaseFails, Running, TypeOK
  <2> QED  BY <1>0, <1>12, <2>1, <2>2, <2>3, WorkKeeps DEF PhaseFails
<1>13. CASE DetectStale
  <2>1. job # Idle /\ job \in Jobs  BY <1>13, NotIdle DEF DetectStale, TypeOK
  <2>2. job'.kind = job.kind /\ job'.run = job.run
    BY <1>13, <2>1 DEF DetectStale, Jobs
  <2>3. \A s \in RunIds : Running(s)' => Running(s)
    BY <1>13 DEF DetectStale, Stale, Running, TypeOK
  <2> QED  BY <1>0, <1>13, <2>1, <2>2, <2>3, WorkKeeps DEF DetectStale
<1>14. CASE Summarise
  <2>1. job # Idle /\ job \in Jobs  BY <1>14, NotIdle DEF Summarise, TypeOK
  <2>2. job'.kind = job.kind /\ job'.run = job.run
    BY <1>14, <2>1 DEF Summarise, Jobs
  <2>3. \A s \in RunIds : Running(s)' => Running(s)  BY <1>14 DEF Summarise, Running
  <2> QED  BY <1>0, <1>14, <2>1, <2>2, <2>3, WorkKeeps DEF Summarise
<1>15. ASSUME NEW a \in job.emit, EmitAlert(a) PROVE IInv'
  <2>1. job # Idle /\ job \in Jobs  BY <1>15, NotIdle DEF TypeOK
  <2>2. job'.kind = job.kind /\ job'.run = job.run
    BY <1>15, <2>1 DEF EmitAlert, Jobs
  <2>3. \A s \in RunIds : Running(s)' => Running(s)  BY <1>15 DEF EmitAlert, Running
  <2> QED  BY <1>0, <1>15, <2>1, <2>2, <2>3, WorkKeeps DEF EmitAlert
<1>16. CASE Requeue
  <2>1. proc = "up"  BY <1>16 DEF Requeue, Quiet
  <2>2. \E e \in scheduled' : e[1] = job.kind
    <3>1. <<job.kind, UntilNext(job.kind)>> \in scheduled'  BY <1>16 DEF Requeue
    <3> QED  BY <3>1
  <2>3. \A kind : Alive(kind) => Alive(kind)'
    BY <1>16, <2>2 DEF Requeue, JobStep, Alive
  <2>4. Quiet' /\ Booted' /\ Seeded'
    BY <1>16, <2>1 DEF Requeue, JobStep, Quiet, Booted, Seeded, Running
  <2>5. Settled'  BY <1>16 DEF Requeue, JobStep, Settled, Running, Idle
  <2>6. ChainsUnbroken'  BY <1>16, <2>3 DEF Requeue, JobStep, ChainsUnbroken, Running
  <2> QED  BY <1>0, <2>4, <2>5, <2>6
<1>17. CASE JobDies
  <2>1. Quiet' /\ Booted' /\ Seeded' /\ ChainsUnbroken'
    BY <1>17 DEF JobDies, JobStep, Quiet, Booted, Seeded, ChainsUnbroken, Running
  <2>2. Settled'  BY <1>17 DEF JobDies, JobStep, Settled, Running, Idle
  <2> QED  BY <1>0, <2>1, <2>2
<1>18. CASE UNCHANGED vars
  BY <1>0, <1>18 DEF vars, Quiet, Booted, Settled, Seeded, ChainsUnbroken, Running, Alive
<1>19. CASE BootStep  BY <1>2, <1>3, <1>4, <1>5, <1>19 DEF BootStep
<1>20. CASE WorkStep
  BY <1>8, <1>9, <1>10, <1>11, <1>12, <1>13, <1>14, <1>15, <1>16, <1>20 DEF WorkStep
<1> QED  BY <1>1, <1>6, <1>7, <1>17, <1>18, <1>19, <1>20 DEF Next

-----------------------------------------------------------------------------
(* The detector and the living process.  On top of IInv: how old the heartbeat
   of the process's own run can be, by where the next main cycle is. *)

\* The heartbeat of the newest run, in minutes.
Age == runs[boots].age

\* The process lives, its run is running, and not all of its phases fail.
Healthy ==
    /\ proc # "down" /\ Running(boots)
    /\ \E i \in DOMAIN Phases : fails[Phases[i]] = 0

\* A main cycle is queued or at work; it has got a phase done that still works.
MainWaits == job.kind = "main" \/ \E i \in DOMAIN queue : queue[i] = "main"
MainTouched == job.kind = "main" /\ \E i \in DOMAIN Phases : i < job.at /\ fails[Phases[i]] = 0

\* A boundary is at most one interval away.
InReach == \A e \in scheduled : e[2] <= Every[e[1]]

\* A job in its phases holds the run of its process.
HoldsRun == job.kind \in NeedsRun /\ job.at > 0 => job.run = boots

\* The heartbeat is from this busy spell, or from the one before the current
\* wait, or before the wait that this busy spell has ended.
Fresh == Healthy =>
    /\ proc # "up" \/ MainTouched => Age <= stall
    /\ MainWaits => Age <= Every["main"] + MaxStall + stall
    /\ \A e \in scheduled : e[1] = "main" => Age + e[2] <= Every["main"] + MaxStall

LEMMA Numbers ==
    ASSUME TypeOK
    PROVE  /\ \A r \in RunIds : runs[r].age \in Nat
           /\ stall \in Nat /\ stall <= MaxStall /\ MaxStall \in Nat
           /\ \A e \in scheduled : e[1] \in Kinds /\ e[2] \in Nat
           /\ \A kind \in Kinds : Every[kind] \in Nat
<1>1. \A r \in RunIds : runs[r] \in RunRows  BY DEF TypeOK
<1>2. ASSUME NEW r \in RunIds PROVE runs[r].age \in Nat
  <2>1. runs[r].age \in 0 .. StaleAfter + 1  BY <1>1 DEF RunRows
  <2> QED  BY <2>1, RunnerAssumption
<1>3. \A e \in scheduled : e[1] \in Kinds /\ e[2] \in Nat  BY DEF TypeOK
<1> QED  BY <1>2, <1>3, RunnerAssumption DEF TypeOK

LEMMA UntilNextInReach ==
    ASSUME TypeOK, NEW kind \in Kinds
    PROVE  UntilNext(kind) \in Nat /\ UntilNext(kind) <= Every[kind]
<1>1. Every[kind] \in 1 .. Grid  BY RunnerAssumption
<1>2. clock \in Nat  BY RunnerAssumption DEF TypeOK
<1>3. clock % Every[kind] \in 0 .. Every[kind] - 1  BY <1>1, <1>2, RunnerAssumption
<1> QED  BY <1>1, <1>3, RunnerAssumption DEF UntilNext

LEMMA InReachInv == TypeOK /\ InReach /\ [Next]_vars => InReach'
<1> SUFFICES ASSUME TypeOK, InReach, [Next]_vars PROVE InReach'  OBVIOUS
<1>1. CASE Tick
  <2> SUFFICES ASSUME NEW e \in scheduled
               PROVE  (IF e[2] = 0 THEN 0 ELSE e[2] - 1) <= Every[e[1]]
    BY <1>1 DEF Tick, InReach
  <2> QED  BY Numbers DEF InReach
<1>2. ASSUME NEW kind \in Kinds, scheduled' \subseteq scheduled \cup {<<kind, UntilNext(kind)>>}
      PROVE  InReach'
  BY <1>2, UntilNextInReach DEF InReach
<1>3. CASE Requeue
  <2>1. job.kind \in Kinds  BY <1>3, JobFields DEF TypeOK, Requeue
  <2> QED  BY <1>2, <1>3, <2>1 DEF Requeue
<1>4. ASSUME NEW kind \in Kinds, Seed(kind) PROVE InReach'
  BY <1>2, <1>4 DEF Seed
<1>5. CASE scheduled' \subseteq scheduled
  BY <1>5 DEF InReach
<1> QED  BY <1>1, <1>3, <1>4, <1>5
  DEF Next, BootStep, WorkStep, Boot, CleanOrphans, StartWork, Stop, ProcessDies, Enqueue, Dequeue,
      FindRun, PhaseSucceeds, PhaseFails, DetectStale, Summarise, EmitAlert, JobDies, vars

LEMMA HoldsRunInv == IInv /\ HoldsRun /\ [Next]_vars => HoldsRun'
<1> SUFFICES ASSUME IInv, HoldsRun, [Next]_vars PROVE HoldsRun'  OBVIOUS
<1>1. CASE job' = job /\ boots' = boots
  BY <1>1 DEF HoldsRun
<1>2. CASE job' = Idle
  BY <1>2 DEF HoldsRun, Idle
<1>3. CASE Boot
  <2>1. job' = Idle  BY <1>3 DEF Boot, IInv, Quiet
  <2> QED  BY <1>2, <2>1
<1>4. CASE Dequeue
  <2>1. job'.at = 0  BY <1>4 DEF Dequeue, Idle
  <2> QED  BY <2>1 DEF HoldsRun
<1>5. CASE FindRun /\ job' # Idle
  <2>1. job # Idle  BY <1>5, NotIdle DEF FindRun, NeedsRun
  <2>2. proc = "up" /\ job \in Jobs  BY <2>1 DEF IInv, Quiet, TypeOK
  <2>3. ActiveRun \subseteq {boots}  BY <2>2 DEF ActiveRun, IInv, Settled
  <2>4. PICK r \in ActiveRun : job' = [job EXCEPT !.at = 1, !.run = r]
    BY <1>5 DEF FindRun
  <2>5. job'.run = boots  BY <2>1, <2>2, <2>3, <2>4 DEF Jobs
  <2> QED  BY <1>5, <2>5 DEF HoldsRun, FindRun, JobStep
<1>6. ASSUME NEW p, PhaseSucceeds(p) \/ PhaseFails(p) PROVE HoldsRun'
  <2>1. AtPhase(p)  BY <1>6 DEF PhaseSucceeds, PhaseFails
  <2>2. job \in Jobs /\ job # Idle  BY <2>1, PhaseHasNext DEF IInv, TypeOK
  <2>3. job.at > 0
    <3>1. Work(job.kind) \in Seq(PhaseNames)  BY <2>2, JobFields, WorkIsShort
    <3> QED  BY <2>1, <3>1 DEF AtPhase
  <2>4. job'.run = job.run  BY <1>6, <2>2 DEF PhaseSucceeds, PhaseFails, Jobs
  <2>5. job.run = boots  BY <2>1, <2>3 DEF AtPhase, HoldsRun
  <2> QED  BY <1>6, <2>4, <2>5 DEF HoldsRun, PhaseSucceeds, PhaseFails, JobStep
<1>7. CASE DetectStale \/ Summarise
  <2>1. job.kind \notin NeedsRun /\ job # Idle /\ job \in Jobs
    BY <1>7, NotIdle DEF DetectStale, Summarise, NeedsRun, IInv, TypeOK
  <2>2. job'.kind = job.kind  BY <1>7, <2>1 DEF DetectStale, Summarise, Jobs
  <2> QED  BY <2>1, <2>2 DEF HoldsRun
<1>8. ASSUME NEW a, EmitAlert(a) PROVE HoldsRun'
  <2>1. job # Idle /\ job \in Jobs  BY <1>8, NotIdle DEF EmitAlert, IInv, TypeOK
  <2>2. job'.kind = job.kind /\ job'.at = job.at /\ job'.run = job.run
    BY <1>8, <2>1 DEF EmitAlert, Jobs
  <2> QED  BY <1>8, <2>2 DEF HoldsRun, EmitAlert, JobStep
<1> QED  BY <1>1, <1>2, <1>3, <1>4, <1>5, <1>6, <1>7, <1>8
  DEF Next, BootStep, WorkStep, Tick, CleanOrphans, Seed, StartWork, Stop, ProcessDies, Enqueue,
      Requeue, JobDies, vars

\* A step that does not make the heartbeat older, nor the main cycle wait anew.
LEMMA FreshKept ==
    ASSUME TypeOK, Fresh, UNCHANGED <<boots, proc, stall>>, proc # "down" => boots \in RunIds,
           runs' \in [RunIds -> RunRows], Healthy' => Healthy /\ Age' <= Age,
           scheduled' \subseteq scheduled,
           MainWaits' => MainWaits, MainTouched' => MainTouched,
           "main" \in Kinds
    PROVE  Fresh'
<1> SUFFICES ASSUME Healthy' PROVE
      /\ proc' # "up" \/ MainTouched' => Age' <= stall'
      /\ MainWaits' => Age' <= Every["main"] + MaxStall + stall'
      /\ \A e \in scheduled' : e[1] = "main" => Age' + e[2] <= Every["main"] + MaxStall
  BY DEF Fresh
<1>1. Healthy /\ boots \in RunIds  BY DEF Healthy
<1>2. Age \in Nat /\ Age' \in Nat
  <2>1. runs'[boots] \in RunRows  BY <1>1
  <2>2. runs'[boots].age \in 0 .. StaleAfter + 1  BY <2>1 DEF RunRows
  <2> QED  BY <1>1, <2>2, Numbers, RunnerAssumption DEF Age
<1>3. Every["main"] \in Nat /\ MaxStall \in Nat /\ stall \in Nat
      /\ \A e \in scheduled : e[2] \in Nat
  BY Numbers
<1>4. proc' # "up" \/ MainTouched' => Age' <= stall'
  BY <1>1, <1>2, <1>3 DEF Fresh
<1>5. MainWaits' => Age' <= Every["main"] + MaxStall + stall'
  BY <1>1, <1>2, <1>3 DEF Fresh
<1>6. ASSUME NEW e \in scheduled', e[1] = "main"
      PROVE  Age' + e[2] <= Every["main"] + MaxStall
  <2>1. Age + e[2] <= Every["main"] + MaxStall  BY <1>1, <1>6 DEF Fresh
  <2> QED  BY <1>2, <1>3, <1>6, <2>1
<1> QED  BY <1>4, <1>5, <1>6

\* A heartbeat of this minute is fresh enough for all that follows.
LEMMA FreshTouch ==
    ASSUME TypeOK', InReach', "main" \in Kinds, Age' = 0
    PROVE  Fresh'
<1>1. Every["main"] \in Nat /\ MaxStall \in Nat /\ stall' \in Nat  BY Numbers, RunnerAssumption DEF TypeOK
<1>2. \A e \in scheduled' : e[2] \in Nat /\ (e[1] = "main" => e[2] <= Every["main"])
  BY DEF TypeOK, InReach
<1> QED  BY <1>1, <1>2 DEF Fresh

LEMMA FreshInv ==
    ASSUME "main" \in Kinds
    PROVE  IInv /\ InReach /\ HoldsRun /\ Fresh /\ [Next]_vars => Fresh'
<1> SUFFICES ASSUME IInv, InReach, HoldsRun, Fresh, [Next]_vars PROVE Fresh'  OBVIOUS
<1>0. /\ TypeOK /\ TypeOK' /\ InReach' /\ runs' \in [RunIds -> RunRows]
      /\ proc # "down" => boots \in RunIds
  <2>1. TypeOK /\ TypeOK'  BY NextTypeOK DEF IInv
  <2>2. InReach'  BY <2>1, InReachInv
  <2> QED  BY <2>1, <2>2 DEF IInv, Booted, TypeOK
<1>1. CASE Tick
  <2> SUFFICES ASSUME Healthy' PROVE
        /\ proc' # "up" \/ MainTouched' => Age' <= stall'
        /\ MainWaits' => Age' <= Every["main"] + MaxStall + stall'
        /\ \A e \in scheduled' : e[1] = "main" => Age' + e[2] <= Every["main"] + MaxStall
    BY DEF Fresh
  <2>1. UNCHANGED <<queue, boots, proc, job, fails>>  BY <1>1 DEF Tick
  <2>2. boots \in RunIds /\ runs[boots] \in RunRows /\ runs'[boots] = Older(runs[boots])
    BY <1>0, <1>1, <2>1 DEF Tick, Healthy, TypeOK
  <2>3. Healthy  BY <2>1, <2>2, RowFields DEF Healthy, Running
  <2>4. Age \in Nat /\ Age' \in Nat /\ Age' <= Age + 1
    <3>1. Older(runs[boots]).age \in {runs[boots].age, runs[boots].age + 1}
      BY <2>2 DEF Older, RunRows
    <3> QED  BY <1>0, <2>1, <2>2, <3>1, Numbers DEF Age
  <2>5. /\ Every["main"] \in Nat /\ MaxStall \in Nat /\ stall \in Nat /\ stall <= MaxStall
        /\ \A e \in scheduled : e[2] \in Nat
    BY <1>0, Numbers
  <2>6. Busy => stall' = stall + 1 /\ stall' <= MaxStall
    BY <1>1, <2>5 DEF Tick
  <2>7. proc # "up" => Busy  BY <2>3 DEF Busy, Healthy
  <2>8. MainWaits \/ MainTouched => Busy
    <3>1. job.kind = "main" => job # Idle  BY NotIdle
    <3>2. ASSUME NEW i \in DOMAIN queue PROVE queue # <<>>  OBVIOUS
    <3> QED  BY <3>1, <3>2, <2>7 DEF MainWaits, MainTouched, Busy
  <2>9. proc' # "up" \/ MainTouched' => Age' <= stall'
    BY <2>1, <2>3, <2>4, <2>5, <2>6, <2>7, <2>8 DEF Fresh, MainTouched
  <2>10. MainWaits' => Age' <= Every["main"] + MaxStall + stall'
    BY <2>1, <2>3, <2>4, <2>5, <2>6, <2>8 DEF Fresh, MainWaits
  <2>11. ASSUME NEW f \in scheduled', f[1] = "main"
         PROVE  Age' + f[2] <= Every["main"] + MaxStall
    <3>1. PICK e \in scheduled : f = <<e[1], IF e[2] = 0 THEN 0 ELSE e[2] - 1>>
      BY <1>1 DEF Tick
    <3>2. e[1] = "main" /\ Age + e[2] <= Every["main"] + MaxStall /\ e[2] \in Nat
          /\ e[2] <= Every["main"]
      BY <2>3, <2>5, <2>11, <3>1 DEF Fresh, InReach
    <3>3. CASE e[2] = 0 /\ proc = "up"
      BY <1>1, <3>3 DEF Tick, Due
    <3>4. CASE e[2] = 0 /\ proc # "up"
      BY <2>1, <2>3, <2>4, <2>5, <2>6, <2>7, <2>9, <3>1, <3>4
    <3>5. CASE e[2] # 0
      BY <2>4, <2>5, <3>1, <3>2, <3>5
    <3> QED  BY <3>3, <3>4, <3>5
  <2> QED  BY <2>9, <2>10, <2>11
<1>2. CASE Boot
  <2>1. Age' = 0  BY <1>0, <1>2 DEF Boot, Age, TypeOK, RunIds
  <2> QED  BY <1>0, <2>1, FreshTouch
<1>3. CASE CleanOrphans
  <2>1. proc = "created" /\ proc' = "seeding" /\ UNCHANGED <<scheduled, queue, boots, job, fails, stall>>
    BY <1>3 DEF CleanOrphans
  <2>2. runs'[boots] = runs[boots]  BY <1>0, <1>3, <2>1 DEF CleanOrphans, TypeOK
  <2>3. Age' = Age /\ (Healthy' => Healthy)  BY <2>1, <2>2 DEF Age, Healthy, Running
  <2> QED  BY <2>1, <2>3 DEF Fresh, MainTouched, MainWaits
<1>4. ASSUME NEW kind \in Kinds, Seed(kind) PROVE Fresh'
  <2>1. proc = "seeding" /\ UNCHANGED <<proc, queue, runs, boots, job, fails, stall>>
        /\ scheduled' \subseteq scheduled \cup {<<kind, UntilNext(kind)>>}
    BY <1>4 DEF Seed
  <2>2. Age' = Age /\ (Healthy' => Healthy /\ boots \in RunIds)
    BY <1>0, <2>1 DEF Age, Healthy, Running
  <2>3. /\ \A r \in RunIds : runs[r].age \in Nat
        /\ Every["main"] \in Nat /\ MaxStall \in Nat /\ stall \in Nat /\ stall <= MaxStall
    BY <1>0, Numbers
  <2>4. UntilNext(kind) \in Nat /\ UntilNext(kind) <= Every[kind]
    BY <1>0, UntilNextInReach
  <2>5. Healthy' => Age \in Nat /\ Age <= stall
    BY <2>1, <2>2, <2>3 DEF Age, Fresh
  <2>6. Healthy' /\ kind = "main" => Age' + UntilNext(kind) <= Every["main"] + MaxStall
    BY <2>2, <2>3, <2>4, <2>5
  <2>7. Healthy' => \A e \in scheduled' : e[1] = "main" => Age' + e[2] <= Every["main"] + MaxStall
    BY <2>1, <2>2, <2>6 DEF Fresh
  <2> QED  BY <2>1, <2>2, <2>7 DEF Fresh, MainTouched, MainWaits
<1>5. CASE StartWork
  BY <1>5 DEF StartWork, Fresh, Healthy, Running, MainTouched, MainWaits, Age
<1>6. CASE Stop \/ ProcessDies
  BY <1>6 DEF Stop, ProcessDies, Fresh, Healthy
<1>7. CASE UNCHANGED vars
  BY <1>7 DEF vars, Fresh, Healthy, Running, MainTouched, MainWaits, Age
<1>8. ASSUME NEW e \in Due, Enqueue(e) PROVE Fresh'
  <2>1. /\ UNCHANGED <<proc, runs, boots, job, fails, stall>>
        /\ queue' = Append(queue, e[1]) /\ scheduled' \subseteq scheduled
        /\ e \in scheduled /\ e[2] = 0 /\ e[1] \in Kinds /\ queue \in Seq(Kinds)
    BY <1>0, <1>8 DEF Enqueue, Due, TypeOK
  <2>2. MainWaits' => MainWaits \/ e[1] = "main"
    BY <2>1 DEF MainWaits
  <2>3. Healthy' => Healthy /\ boots \in RunIds  BY <1>0, <2>1 DEF Healthy, Running
  <2>4. /\ \A r \in RunIds : runs[r].age \in Nat
        /\ Every["main"] \in Nat /\ MaxStall \in Nat /\ stall \in Nat
    BY <1>0, Numbers
  <2>5. Healthy' /\ e[1] = "main" => Age <= Every["main"] + MaxStall + stall
    BY <2>1, <2>3, <2>4 DEF Fresh, Age
  <2> QED  BY <2>1, <2>2, <2>3, <2>5 DEF Fresh, MainTouched, Age
<1>9. CASE Dequeue
  <2>1. /\ UNCHANGED <<scheduled, proc, runs, boots, fails, stall>>
        /\ job'.kind = Head(queue) /\ job'.at = 0 /\ queue' = Tail(queue)
        /\ queue \in Seq(Kinds) /\ queue # <<>>
    BY <1>0, <1>9 DEF Dequeue, Idle, TypeOK
  <2>2. MainWaits' => MainWaits
    BY <2>1 DEF MainWaits
  <2>3. Phases \in Seq(STRING)  BY RunnerAssumption
  <2>4. ~MainTouched'  BY <2>1, <2>3 DEF MainTouched
  <2>5. Healthy' => Healthy  BY <2>1 DEF Healthy, Running
  <2>6. Healthy' => Age' <= Age  BY <1>0, <2>1, <2>5, Numbers DEF Age, Healthy
  <2> QED  BY <1>0, <2>1, <2>2, <2>4, <2>5, <2>6, FreshKept
<1>10. ASSUME job # Idle, JobStep, scheduled' = scheduled, fails' = fails,
              job'.kind \in {job.kind, "none"}, MainTouched' => MainTouched,
              runs'[boots].age = runs[boots].age, Running(boots)' => Running(boots)
       PROVE  Fresh'
  <2>1. proc = "up" /\ boots \in RunIds  BY <1>0, <1>10 DEF IInv, Quiet
  <2>2. Healthy' => Healthy  BY <1>10 DEF Healthy, JobStep
  <2>3. Age' <= Age  BY <1>0, <1>10, <2>1, Numbers DEF Age, JobStep
  <2>4. MainWaits' => MainWaits  BY <1>10 DEF MainWaits, JobStep
  <2> QED  BY <1>0, <1>10, <2>2, <2>3, <2>4, FreshKept DEF JobStep
<1>11. ASSUME proc' = proc, boots' = boots, runs' = runs
       PROVE  runs'[boots].age = runs[boots].age /\ (Running(boots)' => Running(boots))
  BY <1>11 DEF Running
<1>12. CASE FindRun
  <2>1. job # Idle /\ job \in Jobs  BY <1>0, <1>12, NotIdle DEF FindRun, NeedsRun, TypeOK
  <2>2. job'.kind \in {job.kind, "none"} /\ job'.at \in {0, 1}
    <3>1. CASE job' = Idle  BY <3>1 DEF Idle
    <3>2. ASSUME NEW s, job' = [job EXCEPT !.at = 1, !.run = s]
          PROVE  job'.kind = job.kind /\ job'.at = 1
      BY <2>1, <3>2 DEF Jobs
    <3> QED  BY <1>12, <3>1, <3>2 DEF FindRun
  <2>3. ~MainTouched'
    <3>1. \A i \in DOMAIN Phases : ~(i < job'.at)
      BY <2>2, RunnerAssumption
    <3> QED  BY <3>1 DEF MainTouched
  <2> QED  BY <1>10, <1>11, <1>12, <2>1, <2>2, <2>3 DEF FindRun, JobStep
<1>13. ASSUME NEW p \in PhaseNames, PhaseSucceeds(p) PROVE Fresh'
  <2>1. job # Idle /\ job \in Jobs  BY <1>0, <1>13, PhaseHasNext DEF PhaseSucceeds, TypeOK
  <2>2. job.at > 0 /\ job.kind \in NeedsRun
    <3>1. Work(job.kind) \in Seq(PhaseNames)  BY <2>1, JobFields, WorkIsShort
    <3> QED  BY <1>13, <3>1 DEF PhaseSucceeds, AtPhase
  <2>3. job.run = boots /\ boots \in RunIds
    BY <1>0, <2>1, <2>2 DEF HoldsRun, IInv, Quiet
  <2>4. runs' = [runs EXCEPT ![boots].age = 0] /\ boots' = boots
    BY <1>13, <2>3 DEF PhaseSucceeds, Touch, JobStep
  <2>5. Age' = 0  BY <1>0, <2>3, <2>4 DEF Age, TypeOK, RunRows
  <2> QED  BY <1>0, <2>5, FreshTouch
<1>14. ASSUME NEW p \in PhaseNames, PhaseFails(p) PROVE Fresh'
  <2>1. /\ job # Idle /\ job \in Jobs /\ job.at \in Nat /\ AtPhase(p)
        /\ job'.kind = job.kind /\ job'.at = job.at + 1
    <3>1. job # Idle /\ job \in Jobs /\ AtPhase(p)
      BY <1>0, <1>14, PhaseHasNext DEF PhaseFails, TypeOK
    <3>2. job.at \in Nat
      <4>1. job.at \in 0 .. Len(Phases) + 1  BY <3>1, JobFields
      <4> QED  BY <4>1, RunnerAssumption
    <3>3. job'.kind = job.kind /\ job'.at = job.at + 1  BY <1>14, <3>1 DEF PhaseFails, Jobs
    <3> QED  BY <3>1, <3>2, <3>3
  <2>2. proc = "up" /\ boots \in RunIds  BY <1>0, <2>1 DEF IInv, Quiet
  <2>3. /\ fails \in [PhaseNames -> Nat] /\ fails'[p] > 0
        /\ \A q \in PhaseNames : q # p => fails'[q] = fails[q]
    <3>1. fails \in [PhaseNames -> 0 .. Threshold + 1] /\ Threshold \in Nat
      BY <1>0, RunnerAssumption DEF TypeOK
    <3>2. fails' = [fails EXCEPT ![p] = IF @ > Threshold THEN @ ELSE @ + 1]
      BY <1>14 DEF PhaseFails
    <3>3. fails[p] \in Nat  BY <3>1
    <3> QED  BY <3>1, <3>2, <3>3
  <2>4. \A i \in DOMAIN Phases : Phases[i] \in PhaseNames /\ i \in Nat
    BY RunnerAssumption DEF PhaseNames
  <2>5. Running(boots)' => Running(boots)
    <3>1. runs \in [RunIds -> RunRows]  BY <1>0 DEF TypeOK
    <3>2. runs'[boots].status = runs[boots].status
      BY <1>14, <2>2, <3>1, TouchKeepsRows DEF PhaseFails
    <3> QED  BY <1>14, <3>2 DEF PhaseFails, JobStep, Running
  <2>6. Healthy' => Healthy
    <3>1. \A i \in DOMAIN Phases : fails'[Phases[i]] = 0 => fails[Phases[i]] = 0
      BY <2>3, <2>4
    <3> QED  BY <1>14, <2>5, <3>1 DEF Healthy, PhaseFails, JobStep
  <2>7. Age' <= Age
    <3>1. runs'[boots].age \in {runs[boots].age, 0}
      <4>1. CASE runs' = runs  BY <4>1
      <4>2. CASE runs' = Touch(job.run)
        BY <1>0, <2>2, <4>2 DEF Touch, TypeOK, RunRows
      <4> QED  BY <1>14, <4>1, <4>2 DEF PhaseFails
    <3> QED  BY <1>0, <1>14, <2>2, <3>1, Numbers DEF Age, PhaseFails, JobStep
  <2>8. MainTouched' => MainTouched
    <3> SUFFICES ASSUME job.kind = "main", NEW i \in DOMAIN Phases, i < job.at + 1,
                        fails'[Phases[i]] = 0
                 PROVE  MainTouched
      BY <2>1 DEF MainTouched
    <3>1. p = Phases[job.at]  BY <2>1 DEF AtPhase, Work
    <3>2. i # job.at  BY <2>3, <3>1
    <3>3. i < job.at  BY <2>1, <2>4, <3>2
    <3>4. fails[Phases[i]] = 0  BY <2>3, <2>4
    <3> QED  BY <3>3, <3>4 DEF MainTouched
  <2>9. MainWaits' => MainWaits  BY <1>14, <2>1 DEF MainWaits, PhaseFails, JobStep
  <2> QED  BY <1>0, <1>14, <2>6, <2>7, <2>8, <2>9, FreshKept DEF PhaseFails, JobStep
<1>15. CASE DetectStale
  <2>1. job # Idle /\ job \in Jobs /\ job.kind = "stale"
    BY <1>0, <1>15, NotIdle DEF DetectStale, TypeOK
  <2>2. job'.kind = job.kind  BY <1>15, <2>1 DEF DetectStale, Jobs
  <2>3. ~MainTouched'  BY <2>1, <2>2 DEF MainTouched
  <2>4. boots \in RunIds /\ boots' = boots  BY <1>0, <1>15, <2>1 DEF IInv, Quiet, DetectStale, JobStep
  <2>5. runs'[boots].age = runs[boots].age /\ (Running(boots)' => Running(boots))
    BY <1>0, <1>15, <2>4 DEF DetectStale, Stale, Running, TypeOK, RunRows
  <2> QED  BY <1>10, <1>15, <2>1, <2>2, <2>3, <2>5 DEF DetectStale
<1>16. CASE Summarise
  <2>1. job # Idle /\ job \in Jobs /\ job.kind = "summary"
    BY <1>0, <1>16, NotIdle DEF Summarise, TypeOK
  <2>2. job'.kind = job.kind  BY <1>16, <2>1 DEF Summarise, Jobs
  <2>3. ~MainTouched'  BY <2>1, <2>2 DEF MainTouched
  <2> QED  BY <1>10, <1>11, <1>16, <2>1, <2>2, <2>3 DEF Summarise, JobStep
<1>17. ASSUME NEW a, EmitAlert(a) PROVE Fresh'
  <2>1. job # Idle /\ job \in Jobs  BY <1>0, <1>17, NotIdle DEF EmitAlert, TypeOK
  <2>2. job'.kind = job.kind /\ job'.at = job.at  BY <1>17, <2>1 DEF EmitAlert, Jobs
  <2>3. MainTouched' => MainTouched  BY <1>17, <2>2 DEF MainTouched, EmitAlert
  <2> QED  BY <1>10, <1>11, <1>17, <2>1, <2>2, <2>3 DEF EmitAlert, JobStep
<1>18. CASE JobDies
  <2>1. job'.kind = "none" /\ ~MainTouched'  BY <1>18 DEF JobDies, Idle, MainTouched
  <2> QED  BY <1>10, <1>11, <1>18, <2>1 DEF JobDies, JobStep
<1>19. CASE Requeue
  <2>1. /\ UNCHANGED <<queue, proc, runs, boots, fails, stall>> /\ job' = Idle
        /\ scheduled' = scheduled \cup {<<job.kind, UntilNext(job.kind)>>}
        /\ job # Idle /\ job.at = Len(Work(job.kind)) + 1
    BY <1>19 DEF Requeue, JobStep
  <2>2. job.kind \in Kinds  BY <1>0, <2>1, JobFields DEF TypeOK
  <2>3. ~MainTouched' /\ proc = "up" /\ boots \in RunIds
    BY <1>0, <2>1 DEF MainTouched, Idle, IInv, Quiet
  <2>4. Age' = Age /\ (MainWaits' => MainWaits) /\ (Healthy' => Healthy)
    BY <2>1 DEF Age, MainWaits, Healthy, Running, Idle
  <2>5. /\ Age \in Nat
        /\ Every["main"] \in Nat /\ MaxStall \in Nat /\ stall \in Nat /\ stall <= MaxStall
        /\ UntilNext(job.kind) \in Nat /\ UntilNext(job.kind) <= Every[job.kind]
    BY <1>0, <2>2, <2>3, Numbers, UntilNextInReach DEF Age
  <2>6. Healthy /\ job.kind = "main" => Age <= stall
    <3>1. job.kind = "main" => job.at = Len(Phases) + 1  BY <2>1 DEF Work
    <3>2. \A i \in DOMAIN Phases : i < Len(Phases) + 1  BY RunnerAssumption
    <3>3. Healthy /\ job.kind = "main" => MainTouched  BY <3>1, <3>2 DEF Healthy, MainTouched
    <3> QED  BY <3>3 DEF Fresh
  <2>7. Healthy /\ job.kind = "main" => Age' + UntilNext(job.kind) <= Every["main"] + MaxStall
    BY <2>4, <2>5, <2>6
  <2>8. Healthy' => \A e \in scheduled' : e[1] = "main" => Age' + e[2] <= Every["main"] + MaxStall
    BY <2>1, <2>4, <2>7 DEF Fresh
  <2> QED  BY <2>1, <2>3, <2>4, <2>8 DEF Fresh
<1> QED  BY <1>1, <1>2, <1>3, <1>4, <1>5, <1>6, <1>7, <1>8, <1>9, <1>12, <1>13, <1>14, <1>15,
            <1>16, <1>17, <1>18, <1>19
  DEF Next, BootStep, WorkStep

\* Who calls the newest run crashed is the detector.
LEMMA WhoCrashes ==
    ASSUME IInv, [Next]_vars, proc = "up", Running(boots), runs'[boots].status = "crashed"
    PROVE  DetectStale /\ boots \in Stale
<1>1. boots \in RunIds /\ runs \in [RunIds -> RunRows] /\ runs[boots].status = "running"
  BY DEF IInv, Booted, TypeOK, Running
<1>2. CASE runs'[boots].status = runs[boots].status
  BY <1>1, <1>2
<1>3. CASE Boot \/ CleanOrphans
  BY <1>3 DEF Boot, CleanOrphans
<1>4. CASE Stop
  BY <1>1, <1>4 DEF Stop
<1>5. ASSUME NEW p, PhaseSucceeds(p) \/ PhaseFails(p) PROVE runs'[boots].status = runs[boots].status
  BY <1>1, <1>5, TouchKeepsRows DEF PhaseSucceeds, PhaseFails
<1>6. CASE DetectStale
  BY <1>1, <1>6 DEF DetectStale
<1>7. CASE Tick
  BY <1>1, <1>7, RowFields DEF Tick
<1> QED  BY <1>1, <1>2, <1>3, <1>4, <1>5, <1>6, <1>7
  DEF Next, BootStep, WorkStep, Seed, StartWork, ProcessDies, Enqueue, Dequeue, FindRun,
      Summarise, EmitAlert, Requeue, JobDies, vars

\* The strengthened invariant holds of every behaviour of the runner.
THEOREM RunnerInvariance == Spec => []IInv
<1>1. Init => IInv  BY InitIInv
<1>2. IInv /\ [Next]_vars => IInv'  BY NextIInv
<1> QED  BY <1>1, <1>2, PTL DEF Spec

\* Rows, counters and jobs keep their shape.
THEOREM RunnerTypeCorrect == Spec => []TypeOK
<1>1. IInv => TypeOK  BY DEF IInv
<1> QED  BY <1>1, RunnerInvariance, PTL

\* Once a boot has cleaned up, no run but its own is running.
THEOREM AtMostOneRunning == Spec => []OneRunningRun
<1>1. IInv => OneRunningRun  BY DEF IInv, Settled, OneRunningRun
<1> QED  BY <1>1, RunnerInvariance, PTL

\* While no job of a process has died, every chain of tick jobs has a next link,
\* unless it needs a run and the run has been called crashed.
THEOREM ChainsHold == Spec => []ChainsUnbroken
<1>1. IInv => ChainsUnbroken  BY DEF IInv
<1> QED  BY <1>1, RunnerInvariance, PTL

\* If the worker is never busy for so long that a whole interval and two such
\* spells exceed the threshold, find_stale_runs calls the run of a living process
\* crashed only when its main chain is broken or all its phases fail.
THEOREM DetectorIsAccurate ==
    ASSUME "main" \in Kinds, Every["main"] + MaxStall + MaxStall <= StaleAfter
    PROVE  Spec => DetectorAccurate
<1>1. Init => InReach /\ HoldsRun /\ Fresh
  BY DEF Init, InReach, HoldsRun, Idle, NeedsRun, Fresh, Healthy
<1>2. IInv /\ InReach /\ HoldsRun /\ Fresh /\ [Next]_vars => InReach' /\ HoldsRun' /\ Fresh'
  BY InReachInv, HoldsRunInv, FreshInv DEF IInv
<1>3. Spec => [](InReach /\ HoldsRun /\ Fresh)
  BY <1>1, <1>2, RunnerInvariance, PTL DEF Spec
<1>4. ASSUME IInv, Fresh, [Next]_vars, proc = "up", Running(boots), runs'[boots].status = "crashed",
             Alive("main"), NEW i \in DOMAIN Phases, ~(fails[Phases[i]] > 0)
      PROVE  FALSE
  <2>1. DetectStale /\ boots \in Stale  BY <1>4, WhoCrashes
  <2>2. boots \in RunIds /\ Age > StaleAfter /\ job.kind = "stale"
    BY <2>1 DEF Stale, Age, DetectStale
  <2>3. fails[Phases[i]] = 0
    <3>1. Phases[i] \in PhaseNames  BY DEF PhaseNames
    <3>2. fails[Phases[i]] \in 0 .. Threshold + 1  BY <1>4, <3>1 DEF IInv, TypeOK
    <3> QED  BY <1>4, <3>2, RunnerAssumption
  <2>4. Healthy  BY <1>4, <2>3 DEF Healthy
  <2>5. /\ Age \in Nat /\ stall \in Nat /\ stall <= MaxStall /\ MaxStall \in Nat
        /\ Every["main"] \in Nat /\ StaleAfter \in Nat /\ \A e \in scheduled : e[2] \in Nat
    BY <1>4, <2>2, Numbers, RunnerAssumption DEF IInv, Age
  <2>6. CASE MainWaits
    BY <1>4, <2>2, <2>4, <2>5, <2>6 DEF Fresh
  <2>7. ASSUME NEW e \in scheduled, e[1] = "main" PROVE FALSE
    <3>1. Age + e[2] <= Every["main"] + MaxStall  BY <1>4, <2>4, <2>7 DEF Fresh
    <3> QED  BY <2>2, <2>5, <3>1
  <2> QED  BY <1>4, <2>6, <2>7 DEF Alive, MainWaits
<1>5. IInv /\ Fresh /\ [Next]_vars =>
        [proc = "up" /\ Running(boots) /\ runs'[boots].status = "crashed" =>
           ~Alive("main") \/ \A i \in DOMAIN Phases : fails[Phases[i]] > 0]_vars
  BY <1>4
<1> QED  BY <1>3, <1>5, RunnerInvariance, PTL DEF Spec, DetectorAccurate
=============================================================================
