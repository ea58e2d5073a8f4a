---------------------------- MODULE TradingPanels ----------------------------
(***************************************************************************)
(* TradingPanels::update of the dashboard (dashboard/trading_panels.cpp):  *)
(* it loads the exec's statistics at every frame of its own, through their *)
(* seqlock, and every quarter of a second shows how much the cumulative    *)
(* counters have grown.  They are those of an exec process, and execs come *)
(* and go and die (ExecRestart.tla) behind its back.  Of the counters,     *)
(* tick_to_order's count stands for all.                                   *)
(***************************************************************************)
EXTENDS ExecRestart

\* There is a dashboard.
PanelsAssumption == Reader # {}

VARIABLES
    execPrev,  \* State::exec_prev
    wrapped,   \* history: an unsigned difference of counters went below zero
    torn       \* history: an exec died inside a store of exec_stats

panelVars == <<execPrev, wrapped, torn>>

\* The dashboard's UI thread, and State::exec, its last successful load.
Dashboard == CHOOSE r \in Reader : TRUE
Exec == result[Dashboard]

PanelInit ==
    /\ RestartInit
    /\ execPrev = Blank /\ wrapped = FALSE /\ torn = FALSE

-----------------------------------------------------------------------------
\* update: try_load(exec_stats), a step of it.
UpdateLoad ==
    /\ Load(Dashboard)
    /\ UNCHANGED <<tableVars, execVars, panelVars>>

\* Mutant: the counters are subtracted across generations.
SampleAcross ==
    /\ rpc[Dashboard] = "idle"
    /\ wrapped' = (wrapped \/ Exec["tick_to_order"] < execPrev["tick_to_order"])
    /\ execPrev' = Exec
    /\ UNCHANGED <<restartVars, torn>>

\* update: the sampling period is over.  A new generation is not subtracted
\* from the one before.
Sample ==
    LET prev == IF Exec["generation"] # execPrev["generation"] THEN Exec ELSE execPrev
    IN  /\ rpc[Dashboard] = "idle"
        /\ wrapped' = (wrapped \/ Exec["tick_to_order"] < prev["tick_to_order"])
        /\ execPrev' = Exec
        /\ UNCHANGED <<restartVars, torn>>

\* A step of the rest of the system.
Behind ==
    /\ RestartNext
    /\ torn' = (torn \/ (wpc = "copy" /\ phase # "down" /\ phase' = "down"))
    /\ UNCHANGED <<execPrev, wrapped>>

PanelNext == UpdateLoad \/ Sample \/ Behind

PanelSpec == PanelInit /\ [][PanelNext]_<<restartVars, panelVars>> /\ RestartFairness

-----------------------------------------------------------------------------
(* Properties.                                                             *)

\* No rate is the difference of two processes' counters: whatever execs exit,
\* fail to start or die between two samples or during a load, an unsigned
\* difference goes below zero only after an exec died inside a store, which
\* leaves seq odd and its successor with a generation already used.
RatesNeverWrap == wrapped => torn
=============================================================================
