------------------------------- MODULE Manager -------------------------------
(***************************************************************************)
(* manager.cpp: the supervisor that spawns the workers, reaps them, and    *)
(* decides between a restart of exec, KILL and a shutdown of everything;   *)
(* with the workers reduced to their lives and the operator's requests     *)
(* (SIGTERM, Ctrl-C, SIGUSR1, the dashboard's buttons) arriving anywhere.  *)
(*                                                                         *)
(* What a SIGTERM does to a worker depends on how far it has come: between *)
(* fork and execv the child still has the manager's handlers, which set a  *)
(* flag execv throws away; until main has called sigaction the default     *)
(* action kills it; from then on the worker's own flag is set.             *)
(***************************************************************************)
EXTENDS Naturals, FiniteSets

CONSTANTS
    Requests,      \* what the operator may do: "term", "ctrlc", "usr1", "swap"
    MaxDeaths,     \* bound: crashes, failed starts and failed forks
    MaxRequests    \* bound: operator requests

ASSUME ManagerAssumption ==
    /\ Requests \subseteq {"term", "ctrlc", "usr1", "swap"}
    /\ MaxDeaths \in Nat /\ MaxRequests \in Nat

Role == {"exchange", "core", "exec", "dashboard"}
Producer == {"exchange", "core"}

\* How a worker ended: exit 0, another exit or a crash, killed by SIGTERM,
\* exit 75.  "gone": never spawned, or reaped.  "swapping": exec saw SWAP and
\* is leaving.
Status == {"ok", "failed", "killed", "swap"}
Alive == {"forked", "started", "running", "stopping", "swapping"}

VARIABLES
    autoRestart,    \* auto_restart_exec of the config
    life,           \* where each worker is
    mpc,            \* manager: "top", "usr1", "wait", "pause" or "exited"
    shutdownReq, restartReq,  \* the flags its signal handlers set
    shuttingDown, exitCode, restartPending,
    flags,          \* Control.flags: KILL, PAUSE and SWAP
    swapPath,       \* is Control.swap_path set?
    strategy,       \* what exec was last spawned with: "config" or "path"
    deaths, requests,  \* bounded by MaxDeaths and MaxRequests
    unclearedDeath,    \* history: has exec died unasked since KILL was last cleared?
    mishaps            \* history: "signal", a SIGTERM was lost in a child not yet
                       \* past execv; "path", a restart took swap_path away from
                       \* a swap still asked for

managerVars == <<mpc, shuttingDown, exitCode, restartPending>>
signalVars == <<shutdownReq, restartReq>>
controlVars == <<flags, swapPath, strategy>>
historyVars == <<unclearedDeath, mishaps>>
boundVars == <<deaths, requests>>
vars == <<autoRestart, life, managerVars, signalVars, controlVars, historyVars, boundVars>>

-----------------------------------------------------------------------------
\* main: one spawn per role; the dashboard only if configured; a failed fork is
\* reported and otherwise ignored.
Init ==
    /\ autoRestart \in BOOLEAN
    /\ life \in [Role -> {"forked", "gone"}]
    /\ deaths = Cardinality({r \in Role \ {"dashboard"} : life[r] = "gone"})
    /\ deaths <= MaxDeaths
    /\ mpc = "top"
    /\ shutdownReq = FALSE /\ restartReq = FALSE
    /\ shuttingDown = FALSE /\ exitCode = 0 /\ restartPending = FALSE
    /\ flags = {} /\ swapPath = FALSE /\ strategy = "config"
    /\ requests = 0
    /\ unclearedDeath = FALSE /\ mishaps = {}

\* What a SIGTERM makes of a worker.
Signalled(s) ==
    CASE s = "started" -> "killed"
      [] s = "running" -> "stopping"
      [] OTHER -> s

\* The SIGTERMs to the workers in hit are lost if one of them is not past execv.
Lose(hit) ==
    mishaps' = IF \E r \in hit : life[r] = "forked" THEN mishaps \cup {"signal"} ELSE mishaps

\* begin_shutdown(code), with the workers as in lives: SIGTERM to the whole
\* group, the manager included.
BeginShutdown(code, lives) ==
    /\ shuttingDown' = TRUE
    /\ exitCode' = code
    /\ shutdownReq' = TRUE
    /\ life' = [r \in Role |-> Signalled(lives[r])]
    /\ Lose(Role)

\* The top of the loop: a pending SIGINT or SIGTERM.
CheckShutdown ==
    /\ mpc = "top"
    /\ mpc' = "usr1"
    /\ IF shutdownReq /\ ~shuttingDown
       THEN BeginShutdown(0, life)
       ELSE UNCHANGED <<shuttingDown, exitCode, shutdownReq, life, mishaps>>
    /\ UNCHANGED <<restartReq, restartPending, controlVars, unclearedDeath, boundVars>>

\* A pending SIGUSR1: exec is asked to leave, once.
CheckRestart ==
    /\ mpc = "usr1"
    /\ mpc' = "wait"
    /\ restartReq' = FALSE
    /\ IF restartReq /\ ~shuttingDown /\ life["exec"] # "gone" /\ ~restartPending
       THEN /\ restartPending' = TRUE
            /\ life' = [life EXCEPT !["exec"] = Signalled(@)]
            /\ Lose({"exec"})
       ELSE UNCHANGED <<restartPending, life, mishaps>>
    /\ UNCHANGED <<shutdownReq, shuttingDown, exitCode, controlVars, unclearedDeath, boundVars>>

\* waitpid: no child has ended (sleep 20 ms), or there is none left.
WaitNone ==
    /\ mpc = "wait"
    /\ \A r \in Role : life[r] \notin Status
    /\ mpc' = IF \A r \in Role : life[r] = "gone" THEN "exited" ELSE "top"
    /\ UNCHANGED <<life, signalVars, shuttingDown, exitCode, restartPending,
                   controlVars, historyVars, boundVars>>

\* waitpid returns r.
Reaped(r) == mpc = "wait" /\ life[r] \in Status
Without(r) == [life EXCEPT ![r] = "gone"]

\* Reaped while shutting down, or the dashboard: nothing but the bookkeeping.
ReapOnly(r) ==
    /\ Reaped(r)
    /\ shuttingDown \/ r = "dashboard"
    /\ life' = Without(r)
    /\ mpc' = "top"
    /\ UNCHANGED <<signalVars, shuttingDown, exitCode, restartPending,
                   controlVars, historyVars, boundVars>>

\* A feed producer finished: graceful shutdown.
ReapFinished(r) ==
    /\ Reaped(r) /\ ~shuttingDown /\ r \in Producer
    /\ life[r] = "ok"
    /\ BeginShutdown(0, Without(r))
    /\ mpc' = "top"
    /\ UNCHANGED <<restartReq, restartPending, controlVars, unclearedDeath, boundVars>>

\* A feed producer died: KILL|PAUSE, and a second for exec to see it.
ReapDied(r) ==
    /\ Reaped(r) /\ ~shuttingDown /\ r \in Producer
    /\ life[r] # "ok"
    /\ flags' = flags \cup {"kill", "pause"}
    /\ life' = Without(r)
    /\ mpc' = "pause"
    /\ UNCHANGED <<signalVars, shuttingDown, exitCode, restartPending, swapPath, strategy,
                   historyVars, boundVars>>

\* The second is over.
PauseOver ==
    /\ mpc = "pause"
    /\ BeginShutdown(1, life)
    /\ mpc' = "top"
    /\ UNCHANGED <<restartReq, restartPending, controlVars, unclearedDeath, boundVars>>

\* Mutant: the config's strategy is always taken.
RespawnExecConfig ==
    /\ strategy' = "config"
    /\ swapPath' = FALSE
    /\ mishaps' = IF swapPath /\ "swap" \in flags THEN mishaps \cup {"path"} ELSE mishaps
    /\ life' = [life EXCEPT !["exec"] = "forked"]
    /\ UNCHANGED deaths

\* respawn_exec: with swap_path if set (then cleared), else the config's
\* strategy.  A failed fork leaves no exec.
RespawnExec ==
    /\ strategy' = IF swapPath THEN "path" ELSE "config"
    /\ swapPath' = FALSE
    /\ mishaps' = IF swapPath /\ "swap" \in flags THEN mishaps \cup {"path"} ELSE mishaps
    /\ \/ life' = [life EXCEPT !["exec"] = "forked"] /\ UNCHANGED deaths
       \/ life' = Without("exec") /\ deaths < MaxDeaths /\ deaths' = deaths + 1

\* Mutant: exec is spawned again although everything is being shut down.
ReapExecRestartLate ==
    /\ Reaped("exec")
    /\ restartPending \/ life["exec"] = "swap"
    /\ restartPending' = FALSE
    /\ RespawnExec
    /\ mpc' = "top"
    /\ UNCHANGED <<signalVars, shuttingDown, exitCode, flags, unclearedDeath, requests>>

\* exec ended as SIGUSR1 or the swap status asks: it is spawned again.  While a
\* restart is pending, a crash counts as the end that was asked for.
ReapExecRestart ==
    /\ Reaped("exec") /\ ~shuttingDown
    /\ restartPending \/ life["exec"] = "swap"
    /\ restartPending' = FALSE
    /\ RespawnExec
    /\ mpc' = "top"
    /\ UNCHANGED <<signalVars, shuttingDown, exitCode, flags, unclearedDeath, requests>>

\* Mutant: an automatic restart goes on without KILL.
ReapExecDeathUnkilled ==
    /\ Reaped("exec") /\ ~shuttingDown
    /\ ~restartPending /\ life["exec"] # "swap"
    /\ unclearedDeath' = TRUE
    /\ IF autoRestart
       THEN RespawnExec /\ UNCHANGED <<shuttingDown, exitCode, shutdownReq, flags>>
       ELSE /\ flags' = flags \cup {"kill"}
            /\ BeginShutdown(1, Without("exec")) /\ UNCHANGED <<strategy, swapPath, deaths>>
    /\ mpc' = "top"
    /\ UNCHANGED <<restartReq, restartPending, requests>>

\* exec ended unasked: KILL, then a restart if configured, else shutdown.
ReapExecDeath ==
    /\ Reaped("exec") /\ ~shuttingDown
    /\ ~restartPending /\ life["exec"] # "swap"
    /\ flags' = flags \cup {"kill"}
    /\ unclearedDeath' = TRUE
    /\ IF autoRestart
       THEN RespawnExec /\ UNCHANGED <<shuttingDown, exitCode, shutdownReq>>
       ELSE BeginShutdown(1, Without("exec")) /\ UNCHANGED <<strategy, swapPath, deaths>>
    /\ mpc' = "top"
    /\ UNCHANGED <<restartReq, restartPending, requests>>

-----------------------------------------------------------------------------
(* The workers.                                                            *)

Becomes(r, s) ==
    /\ life' = [life EXCEPT ![r] = s]
    /\ UNCHANGED <<autoRestart, managerVars, signalVars, swapPath, strategy, historyVars, requests>>

\* execv, main up to its sigaction calls: the worker is on its way.
Start(r) ==
    /\ \/ life[r] = "forked" /\ Becomes(r, "started")
       \/ life[r] = "started" /\ Becomes(r, "running")
    /\ UNCHANGED <<flags, deaths>>

\* Asked to stop, a worker drains and returns 0.
Stop(r) ==
    /\ life[r] = "stopping" /\ Becomes(r, "ok")
    /\ UNCHANGED <<flags, deaths>>

\* The feed ends, max_events is reached, or the dashboard's window is closed.
Finish(r) ==
    /\ \/ r \in Producer /\ life[r] = "running"
       \/ r = "dashboard" /\ life[r] \in Alive
    /\ Becomes(r, "ok")
    /\ UNCHANGED <<flags, deaths>>

\* A crash, a failed execv or a start that returns 2.  (However the dashboard
\* ends, the manager takes no notice: Finish stands for all its ends.)
Crash(r) ==
    /\ r # "dashboard"
    /\ deaths < MaxDeaths
    /\ deaths' = deaths + 1
    /\ life[r] \in Alive /\ Becomes(r, "failed")
    /\ UNCHANGED flags

\* The hot loop sees SWAP, unless it was told to stop first (run_strategy).
SeeSwap ==
    /\ "swap" \in flags
    /\ life["exec"] = "running" /\ Becomes("exec", "swapping")
    /\ UNCHANGED <<flags, deaths>>

\* main's end after a swap: SWAP is cleared, exit 75.
SwapExit ==
    /\ life["exec"] = "swapping" /\ Becomes("exec", "swap")
    /\ flags' = flags \ {"swap"}
    /\ UNCHANGED deaths

-----------------------------------------------------------------------------
(* The operator.                                                           *)

Asks(what) ==
    /\ what \in Requests /\ mpc # "exited"
    /\ requests < MaxRequests
    /\ requests' = requests + 1
    /\ UNCHANGED <<autoRestart, managerVars, strategy, historyVars, deaths>>

\* SIGTERM to the manager.
OperatorTerm ==
    /\ Asks("term")
    /\ shutdownReq' = TRUE
    /\ UNCHANGED <<life, restartReq, flags, swapPath>>

\* Ctrl-C: SIGINT to the foreground process group, workers included.
OperatorCtrlC ==
    /\ Asks("ctrlc")
    /\ shutdownReq' = TRUE
    /\ life' = [r \in Role |-> Signalled(life[r])]
    /\ UNCHANGED <<restartReq, flags, swapPath>>

\* SIGUSR1 to the manager.
OperatorRestart ==
    /\ Asks("usr1")
    /\ restartReq' = TRUE
    /\ UNCHANGED <<life, shutdownReq, flags, swapPath>>

\* "Swap strategy": swap_path, then the flag.
OperatorSwap ==
    /\ Asks("swap") /\ life["dashboard"] = "running"
    /\ swapPath' = TRUE /\ flags' = flags \cup {"swap"}
    /\ UNCHANGED <<life, signalVars>>

\* "KILL ON (clear)".
OperatorClear ==
    /\ life["dashboard"] = "running" /\ "kill" \in flags
    /\ flags' = flags \ {"kill"}
    /\ unclearedDeath' = FALSE
    /\ UNCHANGED <<autoRestart, life, managerVars, signalVars, swapPath, strategy, mishaps, boundVars>>

-----------------------------------------------------------------------------
ManagerStep ==
    /\ UNCHANGED autoRestart
    /\ \/ CheckShutdown \/ CheckRestart \/ WaitNone \/ PauseOver
       \/ ReapExecRestart \/ ReapExecDeath
       \/ \E r \in Role : ReapOnly(r) \/ ReapFinished(r) \/ ReapDied(r)

\* What a worker does without fail: it starts, it stops when told, and exec
\* looks at the control flags.
Progress(r) == Start(r) \/ Stop(r) \/ (r = "exec" /\ (SeeSwap \/ SwapExit))

Operator == OperatorTerm \/ OperatorCtrlC \/ OperatorRestart \/ OperatorSwap \/ OperatorClear

Next ==
    \/ ManagerStep
    \/ \E r \in Role : Progress(r) \/ Finish(r) \/ Crash(r)
    \/ Operator

Spec == Init /\ [][Next]_vars

\* The manager polls every 20 ms; a worker that is starting or stopping gets on
\* with it (Pipeline and ExecOrders show that they do).  Nothing is assumed of
\* the feed's end, of crashes or of the operator.
FairSpec ==
    /\ Spec
    /\ WF_vars(ManagerStep)
    /\ \A r \in Role : WF_vars(Progress(r))

-----------------------------------------------------------------------------
(* Properties.                                                             *)

\* Every variable has its type; the manager, once shutting down, has had its own
\* SIGTERM, and it never leaves a worker behind.
TypeOK ==
    /\ autoRestart \in BOOLEAN
    /\ life \in [Role -> Alive \cup Status \cup {"gone"}]
    /\ \A r \in Role : life[r] \in {"swap", "swapping"} => r = "exec"
    /\ mpc \in {"top", "usr1", "wait", "pause", "exited"}
    /\ shutdownReq \in BOOLEAN /\ restartReq \in BOOLEAN
    /\ shuttingDown \in BOOLEAN /\ exitCode \in 0..1 /\ restartPending \in BOOLEAN
    /\ flags \subseteq {"kill", "pause", "swap"} /\ swapPath \in BOOLEAN
    /\ strategy \in {"config", "path"}
    /\ deaths \in 0..MaxDeaths /\ requests \in 0..MaxRequests
    /\ unclearedDeath \in BOOLEAN /\ mishaps \subseteq {"signal", "path"}
    /\ shuttingDown => shutdownReq
    /\ mpc = "exited" => \A r \in Role : life[r] = "gone"

\* After exec has died unasked, no exec that follows it trades until the
\* operator clears KILL, whatever restarts and swaps come in between.
KillAfterUnaskedDeath == unclearedDeath => "kill" \in flags

\* What the manager has begun it finishes: a restart asked for with SIGUSR1 gets
\* done (no later one is ignored for ever), and a shutdown, whoever began it, even in
\* the middle of a restart, ends with the manager gone and every worker reaped.
\* The exception is a SIGTERM that met a worker between fork and execv.
RequestsSettle ==
    (shuttingDown \/ restartPending) ~>
        \/ mpc = "exited"
        \/ ~shuttingDown /\ ~restartPending
        \/ "signal" \in mishaps

\* An exec that leaves with the swap status is followed by one with the
\* operator's strategy, unless another restart had taken swap_path before.
SwapHonoured ==
    [][(life["exec"] = "swap" /\ life'["exec"] = "forked" /\ "path" \notin mishaps)
          => strategy' = "path"]_vars
=============================================================================
