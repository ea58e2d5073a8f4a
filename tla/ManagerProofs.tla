---------------------------- MODULE ManagerProofs ----------------------------
(***************************************************************************)
(* The manager's safety, for any number of crashes and operator requests.  *)
(***************************************************************************)
EXTENDS Manager, FiniteSetTheorems, TLAPS

\* The property needs no strengthening but the types: KILL leaves the flags only
\* with the operator's clear, and no other step lowers unclearedDeath.
Inv == TypeOK /\ KillAfterUnaskedDeath

\* A SIGTERM takes a worker from a life to a life, and none to or from a swap.
LEMMA SignalledType ==
    ASSUME NEW s \in Alive \cup Status \cup {"gone"}
    PROVE  /\ Signalled(s) \in Alive \cup Status \cup {"gone"}
           /\ Signalled(s) \in {"swap", "swapping"} => Signalled(s) = s
           /\ s = "gone" <=> Signalled(s) = "gone"
BY DEF Signalled, Alive, Status

\* What life may be: only exec ever swaps.
LifeOK(l) ==
    /\ l \in [Role -> Alive \cup Status \cup {"gone"}]
    /\ \A r \in Role : l[r] \in {"swap", "swapping"} => r = "exec"

\* A SIGTERM to the group, and the reaping of one worker, keep life in its type.
LEMMA GroupSignalType ==
    ASSUME NEW l, LifeOK(l)
    PROVE  LifeOK([r \in Role |-> Signalled(l[r])])
<1> DEFINE m == [r \in Role |-> Signalled(l[r])]
<1>1. ASSUME NEW r \in Role
      PROVE  /\ m[r] \in Alive \cup Status \cup {"gone"}
             /\ m[r] \in {"swap", "swapping"} => r = "exec"
  <2>1. l[r] \in Alive \cup Status \cup {"gone"}
    BY <1>1 DEF LifeOK
  <2> QED BY <1>1, <2>1, SignalledType DEF LifeOK
<1>2. m \in [Role -> Alive \cup Status \cup {"gone"}]
  BY <1>1
<1> QED BY <1>1, <1>2 DEF LifeOK

LEMMA ReapType ==
    ASSUME NEW r \in Role, LifeOK(life)
    PROVE  LifeOK(Without(r))
BY DEF LifeOK, Without

LEMMA BecomesType ==
    ASSUME NEW r \in Role, NEW s \in Alive \cup Status \cup {"gone"}, LifeOK(life),
           s \in {"swap", "swapping"} => r = "exec"
    PROVE  LifeOK([life EXCEPT ![r] = s])
BY DEF LifeOK

\* The state main leaves behind after its spawns.
LEMMA InitInv == Init => Inv
<1> SUFFICES ASSUME Init PROVE Inv
    OBVIOUS
<1>1. deaths \in Nat
  <2>1. IsFiniteSet(Role)
    <3>1. IsFiniteSet({"exchange"})
      BY FS_Singleton
    <3>2. IsFiniteSet({"exchange"} \cup {"core"})
      BY <3>1, FS_AddElement
    <3>3. IsFiniteSet(({"exchange"} \cup {"core"}) \cup {"exec"})
      BY <3>2, FS_AddElement
    <3>4. IsFiniteSet((({"exchange"} \cup {"core"}) \cup {"exec"}) \cup {"dashboard"})
      BY <3>3, FS_AddElement
    <3>5. Role = (({"exchange"} \cup {"core"}) \cup {"exec"}) \cup {"dashboard"}
      BY DEF Role
    <3> QED BY <3>4, <3>5
  <2>2. IsFiniteSet({r \in Role \ {"dashboard"} : life[r] = "gone"})
    BY <2>1, FS_Subset
  <2> QED BY <2>2, FS_CardinalityType DEF Init
<1>2. LifeOK(life)
  <2>1. \A r \in Role : life[r] \in {"forked", "gone"}
    BY DEF Init
  <2>2. life \in [Role -> Alive \cup Status \cup {"gone"}]
    BY DEF Init, Alive
  <2> QED BY <2>1, <2>2 DEF LifeOK
<1>3. TypeOK
  <2>1. deaths \in 0..MaxDeaths /\ requests \in 0..MaxRequests /\ exitCode \in 0..1
    BY <1>1, ManagerAssumption DEF Init
  <2>2. /\ shutdownReq \in BOOLEAN /\ restartReq \in BOOLEAN /\ shuttingDown \in BOOLEAN
        /\ restartPending \in BOOLEAN /\ swapPath \in BOOLEAN /\ unclearedDeath \in BOOLEAN
        /\ autoRestart \in BOOLEAN
        /\ ~shuttingDown
    BY Zenon DEF Init
  <2> QED BY <1>2, <2>1, <2>2 DEF Init, TypeOK, LifeOK
<1>4. KillAfterUnaskedDeath
  BY DEF Init, KillAfterUnaskedDeath
<1> QED BY <1>3, <1>4 DEF Inv

\* Every step of the manager, a worker or the operator keeps the types.
LEMMA TypeStep == TypeOK /\ [Next]_vars => TypeOK'
<1> SUFFICES ASSUME TypeOK, [Next]_vars PROVE TypeOK'
    OBVIOUS
<1> USE ManagerAssumption
<1> DEFINE Counters == exitCode' \in 0..1 /\ deaths' \in 0..MaxDeaths /\ requests' \in 0..MaxRequests
           Booleans == /\ shutdownReq' \in BOOLEAN /\ restartReq' \in BOOLEAN
                       /\ shuttingDown' \in BOOLEAN /\ restartPending' \in BOOLEAN
                       /\ swapPath' \in BOOLEAN /\ unclearedDeath' \in BOOLEAN
                       /\ shuttingDown' => shutdownReq'
           Names == /\ mpc' \in {"top", "usr1", "wait", "pause", "exited"}
                    /\ flags' \subseteq {"kill", "pause", "swap"}
                    /\ strategy' \in {"config", "path"}
                    /\ mishaps' \subseteq {"signal", "path"}
                    /\ mpc' = "exited" => \A r \in Role : life'[r] = "gone"
<1>0. SUFFICES LifeOK(life') /\ Counters /\ Booleans /\ Names
  <2>1. autoRestart' = autoRestart
    BY DEF Next, vars, ManagerStep, Progress, Start, Stop, SeeSwap, SwapExit, Finish, Crash, Becomes,
           Operator, OperatorTerm, OperatorCtrlC, OperatorRestart, OperatorSwap, OperatorClear, Asks
  <2>2. autoRestart \in BOOLEAN
    BY DEF TypeOK
  <2>3. autoRestart' \in BOOLEAN
    BY <2>1, <2>2
  <2> QED BY <1>0, <2>3 DEF TypeOK, LifeOK
<1> HIDE DEF Counters, Booleans, Names
<1>a. LifeOK(life)
  BY DEF TypeOK, LifeOK
<1>1. CASE CheckShutdown
  <2>1. LifeOK(life')
    BY <1>1, <1>a, GroupSignalType DEF CheckShutdown, BeginShutdown
  <2>2a. Counters
    BY <1>1 DEF CheckShutdown, BeginShutdown, TypeOK, Counters, controlVars, historyVars, boundVars
  <2>2b. Booleans
    BY <1>1 DEF CheckShutdown, BeginShutdown, TypeOK, Booleans, controlVars, historyVars, boundVars
  <2>2c. Names
    BY <1>1 DEF CheckShutdown, BeginShutdown, Lose, TypeOK, Names, controlVars, historyVars, boundVars
  <2> QED BY <2>1, <2>2a, <2>2b, <2>2c
<1>2. CASE CheckRestart
  <2>1. LifeOK(life')
    <3>1. /\ Signalled(life["exec"]) \in Alive \cup Status \cup {"gone"}
          /\ "exec" \in Role
      BY <1>a, SignalledType DEF LifeOK, Role
    <3>2. LifeOK([life EXCEPT !["exec"] = Signalled(@)])
      BY <1>a, <3>1, BecomesType
    <3> QED BY <1>2, <1>a, <3>2 DEF CheckRestart
  <2>2a. Counters
    BY <1>2 DEF CheckRestart, TypeOK, Counters, controlVars, historyVars, boundVars
  <2>2b. Booleans
    BY <1>2 DEF CheckRestart, TypeOK, Booleans, controlVars, historyVars, boundVars
  <2>2c. Names
    BY <1>2 DEF CheckRestart, Lose, TypeOK, Names, controlVars, historyVars, boundVars
  <2> QED BY <2>1, <2>2a, <2>2b, <2>2c
<1>3. CASE WaitNone
  <2>1. LifeOK(life')
    BY <1>3, <1>a DEF WaitNone
  <2>2a. Counters
    BY <1>3 DEF WaitNone, TypeOK, Counters, signalVars, controlVars, historyVars, boundVars
  <2>2b. Booleans
    BY <1>3 DEF WaitNone, TypeOK, Booleans, signalVars, controlVars, historyVars, boundVars
  <2>2c. Names
    BY <1>3 DEF WaitNone, TypeOK, Names, signalVars, controlVars, historyVars, boundVars
  <2> QED BY <2>1, <2>2a, <2>2b, <2>2c
<1>4. CASE PauseOver
  <2>1. LifeOK(life')
    BY <1>4, <1>a, GroupSignalType DEF PauseOver, BeginShutdown
  <2>2a. Counters
    BY <1>4 DEF PauseOver, BeginShutdown, TypeOK, Counters, controlVars, historyVars, boundVars
  <2>2b. Booleans
    BY <1>4 DEF PauseOver, BeginShutdown, TypeOK, Booleans, controlVars, historyVars, boundVars
  <2>2c. Names
    BY <1>4 DEF PauseOver, BeginShutdown, Lose, TypeOK, Names, controlVars, historyVars, boundVars
  <2> QED BY <2>1, <2>2a, <2>2b, <2>2c
<1>b. "exec" \in Role
  BY DEF Role
<1>c. RespawnExec => LifeOK(life') /\ deaths' \in 0..MaxDeaths
  <2>1. "forked" \in Alive \cup Status \cup {"gone"}
    BY DEF Alive
  <2>2. LifeOK([life EXCEPT !["exec"] = "forked"])
    BY <1>a, <1>b, <2>1, BecomesType
  <2>3. LifeOK(Without("exec"))
    BY <1>a, <1>b, ReapType
  <2>4. deaths \in 0..MaxDeaths
    BY DEF TypeOK
  <2>5. RespawnExec => LifeOK(life')
    BY <2>2, <2>3 DEF RespawnExec
  <2>6. RespawnExec => deaths' \in 0..MaxDeaths
    <3>1. RespawnExec => deaths' = deaths \/ (deaths < MaxDeaths /\ deaths' = deaths + 1)
      BY DEF RespawnExec
    <3> QED BY <2>4, <3>1
  <2> QED BY <2>5, <2>6
<1>5. CASE ReapExecRestart
  <2>1. LifeOK(life') /\ deaths' \in 0..MaxDeaths
    BY <1>5, <1>c DEF ReapExecRestart
  <2>2a. Counters
    BY <1>5, <2>1 DEF ReapExecRestart, RespawnExec, TypeOK, Counters, signalVars
  <2>2b. Booleans
    BY <1>5, <2>1 DEF ReapExecRestart, RespawnExec, TypeOK, Booleans, signalVars
  <2>2c. Names
    BY <1>5, <2>1 DEF ReapExecRestart, RespawnExec, TypeOK, Names, signalVars
  <2> QED BY <2>1, <2>2a, <2>2b, <2>2c
<1>6. CASE ReapExecDeath
  <2>1. CASE autoRestart
    <3>1. LifeOK(life') /\ deaths' \in 0..MaxDeaths
      BY <1>6, <1>c, <2>1 DEF ReapExecDeath
    <3>2a. Counters
      BY <1>6, <2>1, <3>1 DEF ReapExecDeath, RespawnExec, TypeOK, Counters
    <3>2b. Booleans
      BY <1>6, <2>1, <3>1 DEF ReapExecDeath, RespawnExec, TypeOK, Booleans
    <3>2c. Names
      BY <1>6, <2>1, <3>1 DEF ReapExecDeath, RespawnExec, TypeOK, Names
    <3> QED BY <3>1, <3>2a, <3>2b, <3>2c
  <2>2. CASE ~autoRestart
    <3>1. LifeOK(life')
      BY <1>6, <1>a, <1>b, <2>2, ReapType, GroupSignalType DEF ReapExecDeath, BeginShutdown
    <3>2a. Counters
      BY <1>6, <2>2 DEF ReapExecDeath, BeginShutdown, TypeOK, Counters
    <3>2b. Booleans
      BY <1>6, <2>2 DEF ReapExecDeath, BeginShutdown, TypeOK, Booleans
    <3>2c. Names
      BY <1>6, <2>2 DEF ReapExecDeath, BeginShutdown, Lose, TypeOK, Names
    <3> QED BY <3>1, <3>2a, <3>2b, <3>2c
  <2> QED BY <2>1, <2>2
<1>7. ASSUME NEW r \in Role, ReapOnly(r) \/ ReapDied(r) PROVE LifeOK(life') /\ Counters /\ Booleans /\ Names
  <2>1. LifeOK(life')
    BY <1>7, <1>a, ReapType DEF ReapOnly, ReapDied
  <2>2a. Counters
    BY <1>7 DEF ReapOnly, ReapDied, TypeOK, Counters, signalVars, controlVars, historyVars, boundVars
  <2>2b. Booleans
    BY <1>7 DEF ReapOnly, ReapDied, TypeOK, Booleans, signalVars, controlVars, historyVars, boundVars
  <2>2c. Names
    BY <1>7 DEF ReapOnly, ReapDied, TypeOK, Names, signalVars, controlVars, historyVars, boundVars
  <2> QED BY <2>1, <2>2a, <2>2b, <2>2c
<1>8. ASSUME NEW r \in Role, ReapFinished(r) PROVE LifeOK(life') /\ Counters /\ Booleans /\ Names
  <2>1. LifeOK(life')
    BY <1>8, <1>a, ReapType, GroupSignalType DEF ReapFinished, BeginShutdown
  <2>2a. Counters
    BY <1>8 DEF ReapFinished, BeginShutdown, TypeOK, Counters, controlVars, historyVars, boundVars
  <2>2b. Booleans
    BY <1>8 DEF ReapFinished, BeginShutdown, TypeOK, Booleans, controlVars, historyVars, boundVars
  <2>2c. Names
    BY <1>8 DEF ReapFinished, BeginShutdown, Lose, TypeOK, Names, controlVars, historyVars, boundVars
  <2> QED BY <2>1, <2>2a, <2>2b, <2>2c
<1>9. ASSUME NEW r \in Role, Progress(r) \/ Finish(r) \/ Crash(r)
      PROVE  LifeOK(life') /\ Counters /\ Booleans /\ Names
  <2>1. PICK q \in Role, s \in Alive \cup Status :
            Becomes(q, s) /\ (s \in {"swap", "swapping"} => q = "exec")
    BY <1>9, <1>b DEF Progress, Start, Stop, SeeSwap, SwapExit, Finish, Crash, Alive, Status
  <2>2. LifeOK(life')
    BY <1>a, <2>1, BecomesType DEF Becomes
  <2>3. life[q] # "gone"
    BY <1>9, <2>1
    DEF Progress, Start, Stop, SeeSwap, SwapExit, Finish, Crash, Becomes, Alive, Status, TypeOK
  <2>4. flags' \subseteq {"kill", "pause", "swap"} /\ deaths' \in 0..MaxDeaths
    <3>1. /\ flags' = flags \/ flags' = flags \ {"swap"}
          /\ deaths' = deaths \/ (deaths < MaxDeaths /\ deaths' = deaths + 1)
      BY <1>9 DEF Progress, Start, Stop, SeeSwap, SwapExit, Finish, Crash
    <3>2. flags \subseteq {"kill", "pause", "swap"} /\ deaths \in 0..MaxDeaths
      BY DEF TypeOK
    <3>3. flags' \subseteq {"kill", "pause", "swap"}
      BY <3>1, <3>2, Zenon
    <3>4. deaths' \in 0..MaxDeaths
      BY <3>1, <3>2, SMT
    <3> QED BY <3>3, <3>4
  <2>5a. Counters
    BY <2>1, <2>3, <2>4 DEF Becomes, TypeOK, Counters, managerVars, signalVars, historyVars
  <2>5b. Booleans
    BY <2>1, <2>3, <2>4 DEF Becomes, TypeOK, Booleans, managerVars, signalVars, historyVars
  <2>5c. Names
    BY <2>1, <2>3, <2>4 DEF Becomes, TypeOK, Names, managerVars, signalVars, historyVars
  <2> QED BY <2>2, <2>5a, <2>5b, <2>5c
<1>10. CASE Operator
  <2>1. LifeOK(life')
    BY <1>10, <1>a, GroupSignalType
    DEF Operator, OperatorTerm, OperatorCtrlC, OperatorRestart, OperatorSwap, OperatorClear
  <2>2a. Counters
    BY <1>10 DEF Operator, OperatorTerm, OperatorCtrlC, OperatorRestart, OperatorSwap, OperatorClear,
                 Asks, TypeOK, Counters, managerVars, signalVars, historyVars, boundVars
  <2>2b. Booleans
    <3>1. /\ shutdownReq' = shutdownReq \/ shutdownReq' = TRUE
          /\ restartReq' = restartReq \/ restartReq' = TRUE
          /\ swapPath' = swapPath \/ swapPath' = TRUE
          /\ unclearedDeath' = unclearedDeath \/ unclearedDeath' = FALSE
          /\ UNCHANGED <<shuttingDown, restartPending>>
      BY <1>10 DEF Operator, OperatorTerm, OperatorCtrlC, OperatorRestart, OperatorSwap,
                   OperatorClear, Asks, managerVars, signalVars, historyVars, boundVars
    <3>2. /\ shutdownReq \in BOOLEAN /\ restartReq \in BOOLEAN
          /\ shuttingDown \in BOOLEAN /\ restartPending \in BOOLEAN
          /\ swapPath \in BOOLEAN /\ unclearedDeath \in BOOLEAN
          /\ shuttingDown => shutdownReq
      BY DEF TypeOK
    <3> QED BY <3>1, <3>2, Zenon DEF Booleans
  <2>2c. Names
    BY <1>10 DEF Operator, OperatorTerm, OperatorCtrlC, OperatorRestart, OperatorSwap, OperatorClear,
                 Asks, TypeOK, Names, managerVars, signalVars, historyVars, boundVars
  <2> QED BY <2>1, <2>2a, <2>2b, <2>2c
<1>11. CASE UNCHANGED vars
  BY <1>11, <1>a
  DEF vars, managerVars, signalVars, controlVars, historyVars, boundVars, TypeOK, Counters, Booleans, Names
<1> QED BY <1>1, <1>2, <1>3, <1>4, <1>5, <1>6, <1>7, <1>8, <1>9, <1>10, <1>11
        DEF Next, ManagerStep

\* Only ReapExecDeath adds an unasked death, and it sets KILL; only the operator
\* clears KILL, which acknowledges the deaths.
LEMMA KillStep == TypeOK /\ KillAfterUnaskedDeath /\ [Next]_vars => KillAfterUnaskedDeath'
<1> SUFFICES ASSUME TypeOK, KillAfterUnaskedDeath, [Next]_vars PROVE KillAfterUnaskedDeath'
    OBVIOUS
<1> USE DEF KillAfterUnaskedDeath
<1>1. CASE CheckShutdown
  BY <1>1 DEF CheckShutdown, controlVars, historyVars
<1>2. CASE CheckRestart
  BY <1>2 DEF CheckRestart, controlVars, historyVars
<1>3. CASE WaitNone
  BY <1>3 DEF WaitNone, controlVars, historyVars
<1>4. CASE PauseOver
  BY <1>4 DEF PauseOver, controlVars, historyVars
<1>5. CASE ReapExecRestart
  BY <1>5 DEF ReapExecRestart
<1>6. CASE ReapExecDeath
  BY <1>6 DEF ReapExecDeath
<1>7. ASSUME NEW r \in Role, ReapOnly(r) \/ ReapFinished(r) \/ ReapDied(r)
      PROVE  KillAfterUnaskedDeath'
  BY <1>7 DEF ReapOnly, ReapFinished, ReapDied, controlVars, historyVars
<1>8. ASSUME NEW r \in Role, Progress(r) \/ Finish(r) \/ Crash(r)
      PROVE  KillAfterUnaskedDeath'
  BY <1>8 DEF Progress, Start, Stop, SeeSwap, SwapExit, Finish, Crash, Becomes, historyVars
<1>9. CASE Operator
  BY <1>9 DEF Operator, OperatorTerm, OperatorCtrlC, OperatorRestart, OperatorSwap, OperatorClear,
              Asks, historyVars
<1>10. CASE UNCHANGED vars
  BY <1>10 DEF vars, controlVars, historyVars
<1> QED BY <1>1, <1>2, <1>3, <1>4, <1>5, <1>6, <1>7, <1>8, <1>9, <1>10 DEF Next, ManagerStep

LEMMA Invariance == Spec => []Inv
<1>1. Inv /\ [Next]_vars => Inv'
  BY TypeStep, KillStep DEF Inv
<1> QED BY InitInv, <1>1, PTL DEF Spec

\* Every variable keeps its type, the manager that shuts down has its own SIGTERM
\* on record, and it exits only with every worker reaped, however often workers
\* crash and the operator asks.
THEOREM TypeCorrect == Spec => []TypeOK
<1>1. Inv => TypeOK
  BY DEF Inv
<1> QED BY Invariance, <1>1, PTL

\* However exec dies, restarts and swaps: after a death nobody asked for, KILL
\* stays set until the operator clears it.
THEOREM KillStays == Spec => []KillAfterUnaskedDeath
<1>1. Inv => KillAfterUnaskedDeath
  BY DEF Inv
<1> QED BY Invariance, <1>1, PTL

\* A swap that is asked for or under way has its path still set, unless another
\* restart took it: what links the exec that leaves with the swap status to the
\* strategy respawn_exec reads afterwards.
SwapInv ==
    ("path" \notin mishaps /\ ("swap" \in flags \/ life["exec"] \in {"swapping", "swap"}))
        => swapPath

\* No signal begins or ends a swap.
LEMMA SignalledSwap ==
    ASSUME NEW s
    PROVE  /\ Signalled(s) \in {"swapping", "swap"} => Signalled(s) = s
           /\ Signalled(s) # "forked" \/ s = "forked"
BY DEF Signalled

\* respawn_exec takes the path: if SWAP is still set, that is on record.
LEMMA RespawnSwap ==
    ASSUME TypeOK, SwapInv, RespawnExec, "swap" \in flags' => "swap" \in flags
    PROVE  SwapInv'
<1>1. life'["exec"] \in {"forked", "gone"}
  <2>1. "exec" \in Role /\ life \in [Role -> Alive \cup Status \cup {"gone"}]
    BY DEF Role, TypeOK
  <2> QED BY <2>1 DEF RespawnExec, Without
<1>2. CASE swapPath /\ "swap" \in flags
  BY <1>2 DEF RespawnExec, SwapInv
<1>3. CASE ~(swapPath /\ "swap" \in flags)
  <2>1. mishaps' = mishaps
    BY <1>3 DEF RespawnExec
  <2>2. "path" \notin mishaps => "swap" \notin flags
    BY <1>3 DEF SwapInv
  <2> QED BY <1>1, <2>1, <2>2 DEF SwapInv
<1> QED BY <1>2, <1>3

\* A shutdown begun with the workers as in l, among which exec swaps only if it
\* did before.
LEMMA ShutdownSwap ==
    ASSUME SwapInv, NEW c, NEW l, BeginShutdown(c, l), UNCHANGED swapPath,
           "swap" \in flags' => "swap" \in flags,
           l["exec"] \in {"swapping", "swap"} => l["exec"] = life["exec"]
    PROVE  SwapInv'
<1>1. life'["exec"] = Signalled(l["exec"])
  BY DEF BeginShutdown, Role
<1>2. life'["exec"] \in {"swapping", "swap"} => life["exec"] \in {"swapping", "swap"}
  BY <1>1, SignalledSwap
<1>3. "path" \in mishaps => "path" \in mishaps'
  BY DEF BeginShutdown, Lose
<1> QED BY <1>2, <1>3 DEF SwapInv

LEMMA SwapStep == TypeOK /\ SwapInv /\ [Next]_vars => SwapInv'
<1> SUFFICES ASSUME TypeOK, SwapInv, [Next]_vars PROVE SwapInv'
    OBVIOUS
<1>a. "exec" \in Role /\ life \in [Role -> Alive \cup Status \cup {"gone"}]
  BY DEF Role, TypeOK
<1>1. CASE CheckShutdown
  <2>1. CASE shutdownReq /\ ~shuttingDown
    <3>1. BeginShutdown(0, life) /\ UNCHANGED controlVars
      BY <1>1, <2>1 DEF CheckShutdown
    <3> QED BY <3>1, ShutdownSwap DEF controlVars
  <2>2. CASE ~(shutdownReq /\ ~shuttingDown)
    <3>1. UNCHANGED <<life, mishaps, controlVars>>
      BY <1>1, <2>2 DEF CheckShutdown
    <3> QED BY <3>1 DEF SwapInv, controlVars
  <2> QED BY <2>1, <2>2
<1>2. CASE CheckRestart
  <2>1. /\ life'["exec"] = life["exec"] \/ life'["exec"] = Signalled(life["exec"])
        /\ "path" \in mishaps => "path" \in mishaps'
        /\ UNCHANGED controlVars
    BY <1>2, <1>a DEF CheckRestart, Lose
  <2> QED BY <2>1, SignalledSwap DEF SwapInv, controlVars
<1>3. CASE WaitNone
  BY <1>3 DEF WaitNone, SwapInv, controlVars, historyVars
<1>4. CASE PauseOver
  <2>1. BeginShutdown(1, life) /\ UNCHANGED controlVars
    BY <1>4 DEF PauseOver
  <2> QED BY <2>1, ShutdownSwap DEF controlVars
<1>5. CASE ReapExecRestart
  BY <1>5, RespawnSwap DEF ReapExecRestart
<1>6. CASE ReapExecDeath
  <2>0. "swap" \in flags' => "swap" \in flags
    BY <1>6 DEF ReapExecDeath
  <2>1. CASE autoRestart
    BY <1>6, <2>0, <2>1, RespawnSwap DEF ReapExecDeath
  <2>2. CASE ~autoRestart
    <3>1. BeginShutdown(1, Without("exec")) /\ UNCHANGED swapPath
      BY <1>6, <2>2 DEF ReapExecDeath
    <3>2. Without("exec")["exec"] = "gone"
      BY <1>a DEF Without
    <3> QED BY <2>0, <3>1, <3>2, ShutdownSwap
  <2> QED BY <2>1, <2>2
<1>7. ASSUME NEW r \in Role, ReapOnly(r) \/ ReapDied(r) PROVE SwapInv'
  <2>1. /\ life'["exec"] \in {life["exec"], "gone"}
        /\ "swap" \in flags' => "swap" \in flags
        /\ UNCHANGED <<mishaps, swapPath>>
    BY <1>7, <1>a DEF ReapOnly, ReapDied, Without, controlVars, historyVars
  <2> QED BY <2>1 DEF SwapInv
<1>8. ASSUME NEW r \in Role, ReapFinished(r) PROVE SwapInv'
  <2>1. BeginShutdown(0, Without(r)) /\ UNCHANGED controlVars
    BY <1>8 DEF ReapFinished
  <2>2. Without(r)["exec"] \in {life["exec"], "gone"}
    BY <1>8, <1>a DEF Without
  <2> QED BY <2>1, <2>2, ShutdownSwap DEF controlVars
<1>9. ASSUME NEW r \in Role, Progress(r) \/ Finish(r) \/ Crash(r) PROVE SwapInv'
  <2>1. UNCHANGED <<swapPath, mishaps>>
    BY <1>9 DEF Progress, Start, Stop, SeeSwap, SwapExit, Finish, Crash, Becomes, historyVars
  <2>2. "swap" \in flags' => "swap" \in flags
    BY <1>9 DEF Progress, Start, Stop, SeeSwap, SwapExit, Finish, Crash
  <2>3. life'["exec"] \in {"swapping", "swap"}
           => "swap" \in flags \/ life["exec"] \in {"swapping", "swap"}
    BY <1>9, <1>a DEF Progress, Start, Stop, SeeSwap, SwapExit, Finish, Crash, Becomes
  <2> QED BY <2>1, <2>2, <2>3 DEF SwapInv
<1>10. CASE Operator
  <2>1. /\ UNCHANGED mishaps
        /\ life'["exec"] = life["exec"] \/ life'["exec"] = Signalled(life["exec"])
        /\ swapPath' \/ (swapPath' = swapPath /\ ("swap" \in flags' => "swap" \in flags))
    BY <1>10, <1>a DEF Operator, OperatorTerm, OperatorCtrlC, OperatorRestart, OperatorSwap,
                       OperatorClear, Asks, historyVars
  <2> QED BY <2>1, SignalledSwap DEF SwapInv
<1>11. CASE UNCHANGED vars
  BY <1>11 DEF vars, controlVars, historyVars, SwapInv
<1> QED BY <1>1, <1>2, <1>3, <1>4, <1>5, <1>6, <1>7, <1>8, <1>9, <1>10, <1>11
        DEF Next, ManagerStep

\* However requests, signals and deaths interleave: an exec that left with the
\* swap status is followed by one with the operator's strategy, unless a
\* SIGUSR1 or automatic restart took swap_path before it.
THEOREM SwapKept == Spec => SwapHonoured
<1>1. Init => SwapInv
  <2>1. Init => life["exec"] \in {"forked", "gone"}
    BY DEF Init, Role
  <2> QED BY <2>1 DEF Init, SwapInv
<1>2. TypeOK /\ SwapInv /\ [Next]_vars
        => (life["exec"] = "swap" /\ life'["exec"] = "forked" /\ "path" \notin mishaps
              => strategy' = "path")
  <2> SUFFICES ASSUME TypeOK, SwapInv, [Next]_vars,
                      life["exec"] = "swap", life'["exec"] = "forked", "path" \notin mishaps
               PROVE  strategy' = "path"
    OBVIOUS
  <2>a. "exec" \in Role /\ life \in [Role -> Alive \cup Status \cup {"gone"}]
    BY DEF Role, TypeOK
  <2>1. swapPath
    BY DEF SwapInv
  <2>2. RespawnExec
    <3>b. \A c, l : BeginShutdown(c, l) /\ l["exec"] # "forked" => life'["exec"] # "forked"
      BY SignalledSwap DEF BeginShutdown, Role
    <3>c. \A r \in Role : Without(r)["exec"] # "forked"
      BY <2>a DEF Without
    <3>1. ~(CheckShutdown \/ WaitNone \/ PauseOver)
      BY <3>b DEF CheckShutdown, WaitNone, PauseOver
    <3>2. ~CheckRestart
      BY <2>a, SignalledSwap DEF CheckRestart
    <3>3. \A r \in Role : ~(ReapOnly(r) \/ ReapDied(r) \/ ReapFinished(r))
      BY <3>b, <3>c DEF ReapOnly, ReapDied, ReapFinished
    <3>4. \A r \in Role : ~(Progress(r) \/ Finish(r) \/ Crash(r))
      BY <2>a DEF Progress, Start, Stop, SeeSwap, SwapExit, Finish, Crash, Becomes
    <3>5. ~Operator
      BY <3>b, SignalledSwap, <2>a DEF Operator, OperatorTerm, OperatorCtrlC, OperatorRestart,
         OperatorSwap, OperatorClear
    <3>6. ~UNCHANGED vars
      BY DEF vars
    <3>7. ReapExecRestart \/ ReapExecDeath
      BY <3>1, <3>2, <3>3, <3>4, <3>5, <3>6 DEF Next, ManagerStep
    <3> QED BY <3>7 DEF ReapExecRestart, ReapExecDeath
  <2> QED BY <2>1, <2>2 DEF RespawnExec
<1>3. Spec => [](TypeOK /\ SwapInv)
  <2>1. Spec => []TypeOK
    BY TypeCorrect
  <2> QED BY <1>1, <2>1, SwapStep, PTL DEF Spec
<1> QED BY <1>2, <1>3, PTL DEF Spec, SwapHonoured
=============================================================================
