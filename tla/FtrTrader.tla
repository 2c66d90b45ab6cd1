------------------------------ MODULE FtrTrader ------------------------------
(***************************************************************************)
(* The paper trader of FTR (ftr/trader) behind the research of FtrLab. An  *)
(* operator copies the verdicts of a report to ftr_verdicts and writes     *)
(* deployments.json; the trader refuses what has no PASS on an accessible  *)
(* venue, and ticks once a minute. It never trades: the evaluator only     *)
(* holds, so the broker's cash is what it started with and is left out.    *)
(***************************************************************************)
EXTENDS FtrLab

CONSTANTS
    Files,         \* contents deployments.json may have: sets of <<type, id, profile>>
    MaxMinute,     \* bound: the last minute
    MaxStamps,     \* bound: run stamps of published verdicts
    MaxBoots       \* bound: starts of the trader

VARIABLES
    rows,      \* ftr_verdicts
    file,      \* deployments.json
    kill,      \* the flag of ftr_killswitch, or the KILLSWITCH file
    trader,    \* the process: down, idle or in a tick; what it has deployed
    minute,    \* the clock
    decisions, \* ftr_decisions: minute and strategy_id
    snapshots  \* ftr_equity_snapshots: the minute, and the specs deployed then

trdVars == <<rows, file, kill, trader, minute, decisions, snapshots>>

\* The kinds of spec. The strategy_id is the operator's choice: "ml" and "trend"
\* stand for the ids that the gauntlet gives its verdicts under.
Types == {"ml", "trend", "ofi"}
Ids   == {"ml", "trend", "other"}

ASSUME TraderAssumption ==
    /\ Files \subseteq SUBSET (Types \X Ids \X Profiles)
    /\ {MaxMinute, MaxStamps, MaxBoots} \subseteq Nat

Down == [at |-> "down", specs |-> {}, todo |-> {}, now |-> 0, db |-> FALSE, boots |-> 0]

TrdInit ==
    /\ rows = {} /\ file = {} /\ kill = FALSE
    /\ trader = Down /\ minute = 0
    /\ decisions = {} /\ snapshots = {}
-----------------------------------------------------------------------------
(***************************************************************************)
(* The operator.                                                           *)
(***************************************************************************)
\* insert_verdict_rows: a row that is there already stays as it is.
InsertVerdictRows(stamp, s) ==
    /\ report[s] # Unreported
    /\ rows' = rows \union
         {[stamp |-> stamp, strategy |-> s, profile |-> p, verdict |-> report[s][p].verdict,
           judged |-> report[s][p].plateau # "skipped"] :
            p \in {q \in Profiles : \A r \in rows :
                      <<r.stamp, r.strategy, r.profile>> # <<stamp, s, q>>}}
    /\ UNCHANGED <<file, kill, trader, minute, decisions, snapshots>>

WriteFile(f) ==
    /\ file # f
    /\ file' = f
    /\ UNCHANGED <<rows, kill, trader, minute, decisions, snapshots>>

KillSwitch ==
    /\ kill' = ~kill
    /\ UNCHANGED <<rows, file, trader, minute, decisions, snapshots>>
-----------------------------------------------------------------------------
(***************************************************************************)
(* load_deployments. Without a database the verdict is not asked for. Only *)
(* the id is looked up: neither the kind nor the parameters of the spec,   *)
(* nor the profile that it names.                                          *)
(***************************************************************************)
HasPassVerdict(id) ==
    \E r \in rows : r.strategy = id /\ r.verdict = "PASS" /\ r.profile \in Feasible

Refused(d, db) ==
    \/ d[1] = "ofi"
    \/ d[3] \notin Feasible
    \/ db /\ ~HasPassVerdict(d[2])

\* One refusal ends the start of the trader.
Boot(db) ==
    /\ trader.at = "down" /\ trader.boots < MaxBoots
    /\ \/ /\ \A d \in file : ~Refused(d, db)
          /\ trader' = [at |-> "idle", specs |-> {<<d[1], d[2]>> : d \in file}, todo |-> {},
                        now |-> 0, db |-> db, boots |-> trader.boots + 1]
       \/ /\ \E d \in file : Refused(d, db)
          /\ trader' = [trader EXCEPT !.boots = @ + 1]
    /\ UNCHANGED <<rows, file, kill, minute, decisions, snapshots>>

TraderStops ==
    /\ trader.at = "idle"
    /\ trader' = [Down EXCEPT !.boots = trader.boots]
    /\ UNCHANGED <<rows, file, kill, minute, decisions, snapshots>>

TraderCrashes ==
    /\ trader.at # "down"
    /\ trader' = [Down EXCEPT !.boots = trader.boots]
    /\ UNCHANGED <<rows, file, kill, minute, decisions, snapshots>>
-----------------------------------------------------------------------------
(***************************************************************************)
(* tick(). The kill switch ends it, and so does a database that is gone.   *)
(* The trend portfolio has no instrument of its own and is never looked    *)
(* at; nor is a symbol whose mark could not be fetched.                    *)
(***************************************************************************)
TickStarts ==
    /\ trader.at = "idle" /\ ~kill
    /\ \E marked \in SUBSET {s \in trader.specs : s[1] = "ml"} :
          trader' = [trader EXCEPT !.at = "tick", !.todo = marked, !.now = minute]
    /\ UNCHANGED <<rows, file, kill, minute, decisions, snapshots>>

\* One decision per id and minute; a second one is dropped.
InsertDecisions(specs) ==
    decisions' = decisions \union {<<trader.now, s[2]>> : s \in specs}

Evaluate ==
    /\ trader.at = "tick" /\ trader.todo # {}
    /\ IF trader.db THEN InsertDecisions(trader.todo) ELSE UNCHANGED decisions
    /\ trader' = [trader EXCEPT !.todo = {}]
    /\ UNCHANGED <<rows, file, kill, minute, snapshots>>

\* A second snapshot of a minute is dropped.
Snapshot ==
    /\ trader.at = "tick" /\ trader.todo = {}
    /\ snapshots' = IF trader.db /\ \A s \in snapshots : s[1] # trader.now
                    THEN snapshots \union {<<trader.now, trader.specs>>} ELSE snapshots
    /\ trader' = [trader EXCEPT !.at = "idle", !.now = 0]
    /\ UNCHANGED <<rows, file, kill, minute, decisions>>

TickFails ==
    /\ trader.at = "tick"
    /\ trader' = [trader EXCEPT !.at = "idle", !.todo = {}, !.now = 0]
    /\ UNCHANGED <<rows, file, kill, minute, decisions, snapshots>>

\* A tick that takes longer than a minute runs into the next one.
Minute ==
    /\ minute < MaxMinute
    /\ minute' = minute + 1
    /\ UNCHANGED <<rows, file, kill, trader, decisions, snapshots>>

TrdNext ==
    \/ \E n \in 1 .. MaxStamps, s \in {"ml", "trend"} : InsertVerdictRows(n, s)
    \/ \E f \in Files : WriteFile(f)
    \/ KillSwitch
    \/ \E db \in BOOLEAN : Boot(db)
    \/ TraderStops \/ TraderCrashes \/ TickStarts \/ Evaluate \/ Snapshot \/ TickFails \/ Minute

\* The research and the trader share the reports and the verdicts only.
FtrSpec ==
    /\ LabInit /\ TrdInit
    /\ [][(LabNext /\ UNCHANGED trdVars) \/ (TrdNext /\ UNCHANGED labVars)]_<<labVars, trdVars>>
-----------------------------------------------------------------------------
\* Behind every id that a trader with a database has deployed stands a PASS on an
\* accessible venue, from the sweep over the report and the operator's rows to the
\* start: no skipped plateau gate of the hourly model is behind it, and no decision
\* in the table belongs to an id that never passed.
DeployedPassedGauntlet ==
    LET backed(id) == \E r \in rows : /\ r.strategy = id /\ r.verdict = "PASS" /\ r.profile \in Feasible
                                      /\ id = "ml" => r.judged
    IN /\ trader.db => \A s \in trader.specs : backed(s[2])
       /\ \A d \in decisions : backed(d[2])
=============================================================================
