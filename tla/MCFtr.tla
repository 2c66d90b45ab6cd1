-------------------------------- MODULE MCFtr --------------------------------
(***************************************************************************)
(* One run for the programs of FTR. They share no state but the reports    *)
(* and verdicts, so a behaviour looks at one desk: the recorder, the cache *)
(* and the walk-forward of the hourly model, or one strategy from its      *)
(* sweep to the paper trader. A desk never changes.                        *)
(***************************************************************************)
EXTENDS FtrRecorder, FtrTrader

CONSTANTS Desks

VARIABLE desk

vars == <<recVars, labVars, trdVars, desk>>

MCOutages == {{}, {3}, {4}, {8}, {3, 4}, {0, 1, 2}}
MCCost == [p \in Profiles |-> IF p = Reference THEN 0 ELSE 1]
MCCoins == <<"BTC", "ETH">>
MCVolumes == {[c \in {"BTC", "ETH"} |-> IF c = "BTC" THEN <<1, 1, 1, 1>> ELSE v] :
                 v \in {<<1, 1, 1, 1>>, <<2, 1, 1, 1>>, <<1, 2, 2, 2>>}}
\* BTC moves at the end of its days only.
MCCloses == {[c \in {"BTC", "ETH"} |->
                 IF c = "BTC" THEN <<1, b[1], 1, b[2], 1, b[3], 1, b[4]>> ELSE <<1, 1>> \o e] :
                    b \in [1 .. 4 -> Prices], e \in [1 .. 6 -> Prices]}
\* The hourly model may be deployed under the id of the trend portfolio.
MCFiles == {{}, {<<"ml", "ml", "kraken">>}, {<<"trend", "trend", "kraken">>},
            {<<"ml", "trend", "kraken">>}, {<<"ml", "ml", "binance">>}, {<<"ofi", "ml", "kraken">>},
            {<<"ml", "ml", "kraken">>, <<"trend", "trend", "kraken">>}}

Init ==
    /\ RecInit /\ LabInit /\ TrdInit
    /\ desk \in Desks
    /\ desk # "research" => outage = {}

\* Away from the research desk the cache is filled once, when the bars are there,
\* by a program that is not killed.
Loads == fetches = 0 /\ (NextBar \/ (now = MaxNow /\ FetchAll /\ manifest'.qa # NoReport))

\* At a trading desk one gauntlet is run, and before the trader starts.
Fresh == trdVars = <<{}, {}, FALSE, Down, 0, {}, {}>>

\* The hourly model up to the engines. What a move is worth at the reference's
\* costs, a larger move is worth at the other profile's: one profile is enough.
\* Positions know the number of their rows and not the times, so a series
\* without holes, of any length an early fetch leaves, is enough too.
Research ==
    \/ NextBar \/ FetchAll
    \/ \E h \in Horizons \union ShortHorizons, k \in SUBSET (0 .. 1) : WalkForward(h, k)
    \/ outage = {} /\ \E p \in Profiles \ {Reference} : Decide(p)
    \/ Ablate

\* Its sweep and report, from one fit.
MlDesk ==
    \/ Loads
    \/ Fresh /\ report["ml"] = Unreported /\ \E h \in Horizons : WalkForward(h, {}) /\ ToSet(lab'.moves) = {1}
    \/ Sweep \/ ReportMl \/ \E p \in Profiles : JudgeMl(p)

TrendDesk ==
    \/ Loads
    \/ Fresh /\ report["trend"] = Unreported /\ TrendGrid
    \/ TrendValidation \/ ReportTrend

Next ==
    /\ UNCHANGED desk
    /\ \/ desk = "record" /\ RecNext /\ UNCHANGED <<labVars, trdVars>>
       \/ desk = "research" /\ Research /\ UNCHANGED <<recVars, trdVars>>
       \/ desk = "ml" /\ MlDesk /\ UNCHANGED <<recVars, trdVars>>
       \/ desk = "trend" /\ TrendDesk /\ UNCHANGED <<recVars, trdVars>>
       \/ desk \in {"ml", "trend"} /\ lab = Idle /\ TrdNext /\ UNCHANGED <<recVars, labVars>>

Spec == Init /\ [][Next]_vars
=============================================================================
