---------------------------- MODULE ExecRestart ----------------------------
(***************************************************************************)
(* The life of exec across restarts, and the order identifiers it hands    *)
(* out.  An identifier is (generation << 40) | counter; the counter starts *)
(* afresh in every process, so identifiers stay distinct only if every     *)
(* process gets a generation of its own.  The generation is carried from   *)
(* one process to the next by the exec_stats seqlock in shared memory,     *)
(* which the dying process last wrote: exec_context.hpp, exec_main.cpp,    *)
(* order_table.hpp over Seqlock.tla.                                       *)
(*                                                                         *)
(* The manager spawns exec only after it has reaped the previous one, so   *)
(* the words of exec_stats never have two writers at once, and nobody      *)
(* writes them while setup() reads them.                                   *)
(*                                                                         *)
(* setup() also waits for core to enter the traded symbol in the           *)
(* instrument table (InstrumentTable::add, by a process spawned at the     *)
(* same time), for as long as it is not told to stop.  The manager tells   *)
(* it once, and exec can miss it: between fork and execv the child has the *)
(* manager's handler, whose flag execv throws away (Manager.tla).          *)
(***************************************************************************)
EXTENDS Seqlock, Sequences, Functions, FiniteSets

CONSTANTS
    GenerationMod,  \* 2^24: the bits of the generation kept in an identifier
    MaxSpawns,      \* bound: exec processes in one behaviour
    MaxIds          \* bound: orders submitted in one behaviour

\* What exec stores in exec_stats fits its words.  (An operator, so that what
\* is proved of the seqlock is not proved of these frames only.)
RestartAssumption ==
    /\ GenerationMod \in Nat \ {0}
    /\ MaxSpawns \in Nat
    /\ MaxIds \in Nat
    /\ Word = {"generation", "tick_to_order"}
    /\ 0..MaxSpawns \subseteq Item /\ 0..MaxIds \subseteq Item
    /\ Zero = 0

\* The generation does not go round: exec is spawned less than 2^24 times.
GenerationsFit == MaxSpawns < GenerationMod

VARIABLES
    core,        \* core_main: "adding" its row, "added" or "dead"
    rowWords,    \* words of rows[0] that are stored
    count,       \* InstrumentTable::count
    told,        \* has the manager broadcast its SIGTERM?
    term,        \* exec: shutdown_flag
    lost,        \* history: the broadcast met an exec not past execv
    phase,       \* exec: "down", "forked", "started" (main, no handlers yet),
                 \* "setup", "registered", "ready", "run" or "exit"
    registered,  \* exec: the words of rows[0] it registered in Account and RiskGate
    generation,  \* exec: st.exec_generation
    counter,     \* exec: OrderTable's counter_
    spawns,      \* exec processes spawned so far
    issued,      \* history: the identifiers handed out, in order
    orphaned     \* history: did an exec die inside a store, or with identifiers
                 \* handed out and its generation not yet in exec_stats?

stopVars == <<told, term, lost>>
tableVars == <<core, rowWords, count, stopVars>>
execVars == <<phase, registered, generation, counter, spawns, issued, orphaned>>
restartVars == <<vars, tableVars, execVars>>

RestartInit ==
    /\ Init
    /\ core = "adding" /\ rowWords = {} /\ count = 0
    /\ told = FALSE /\ term = FALSE /\ lost = FALSE
    /\ registered = {}
    /\ phase = "down" /\ generation = 0 /\ counter = 0 /\ spawns = 0
    /\ issued = <<>> /\ orphaned = FALSE

-----------------------------------------------------------------------------
(* core_main's entry in the instrument table, and the manager's stop.      *)

\* add: rows[0] = row, one word of it.
AddWord(w) ==
    /\ core = "adding" /\ w \notin rowWords
    /\ rowWords' = rowWords \union {w}
    /\ UNCHANGED <<vars, core, count, stopVars, execVars>>

\* Mutant: the count may overtake the row (no release ordering).
AddCountEarly ==
    /\ core = "adding"
    /\ count' = 1
    /\ core' = IF rowWords = Word THEN "added" ELSE "adding"
    /\ UNCHANGED <<vars, rowWords, stopVars, execVars>>

\* add: count.store(n + 1, release), after the row.
AddCount ==
    /\ core = "adding" /\ rowWords = Word
    /\ count' = 1
    /\ core' = "added"
    /\ UNCHANGED <<vars, rowWords, stopVars, execVars>>

\* core_main fails or dies at any point.
CoreDies ==
    /\ core # "dead"
    /\ core' = "dead"
    /\ UNCHANGED <<vars, rowWords, count, stopVars, execVars>>

\* The manager is told to stop, or has reaped core, and sends SIGTERM to the
\* rest, once.  What it does to exec depends on how far exec has come: nothing
\* before execv, death before sigaction, then the shutdown flag.
Terminate ==
    /\ ~told
    /\ told' = TRUE
    /\ lost' = (phase = "forked")
    /\ phase' = IF phase = "started" THEN "down" ELSE phase
    /\ term' = (phase \notin {"down", "forked", "started"})
    /\ UNCHANGED <<vars, core, rowWords, count, registered, generation, counter, spawns,
                   issued, orphaned>>

-----------------------------------------------------------------------------
(* exec.                                                                   *)

\* The manager forks exec (again): a process with zeroed state.
Spawn ==
    /\ phase = "down" /\ ~told
    /\ spawns < MaxSpawns
    /\ spawns' = spawns + 1
    /\ phase' = "forked"
    /\ generation' = 0
    /\ counter' = 0
    /\ registered' = {}
    /\ UNCHANGED <<vars, tableVars, issued, orphaned>>

\* spawn: the child calls execv, and main of exec begins.
Execv ==
    /\ phase = "forked"
    /\ phase' = "started"
    /\ UNCHANGED <<vars, tableVars, registered, generation, counter, spawns, issued, orphaned>>

\* main: sigaction, behind the configuration, the module and the segment.
HandleSignals ==
    /\ phase = "started"
    /\ phase' = "setup"
    /\ UNCHANGED <<vars, tableVars, registered, generation, counter, spawns, issued, orphaned>>

\* setup(): the table is not empty, and its row is registered.
Register ==
    /\ phase = "setup" /\ count > 0
    /\ registered' = rowWords
    /\ phase' = "registered"
    /\ UNCHANGED <<vars, tableVars, generation, counter, spawns, issued, orphaned>>

\* Mutant: the wait for an instrument does not look at the shutdown flag.
SetupStoppedNever ==
    /\ phase = "setup" /\ count = 0 /\ term /\ FALSE
    /\ UNCHANGED restartVars

\* setup(): told to stop while the table is still empty, it returns false.
SetupStopped ==
    /\ phase = "setup" /\ count = 0 /\ term
    /\ phase' = "down"
    /\ UNCHANGED <<vars, tableVars, registered, generation, counter, spawns, issued, orphaned>>

\* What the (up to 1000) tries of try_load leave in prev: the frame, or, when
\* seq is odd, the zeros prev was initialised with.
PreviousGeneration ==
    IF seq % 2 = 0 THEN data["generation"] ELSE 0

\* Mutant: the generation of the previous process is taken over as it is.
SetupSameGeneration ==
    /\ phase = "registered"
    /\ generation' = IF PreviousGeneration = 0 THEN 1 ELSE PreviousGeneration
    /\ phase' = "ready"
    /\ UNCHANGED <<vars, tableVars, registered, counter, spawns, issued, orphaned>>

\* setup(): continue the generation sequence.
Setup ==
    /\ phase = "registered"
    /\ generation' = PreviousGeneration + 1
    /\ phase' = "ready"
    /\ UNCHANGED <<vars, tableVars, registered, counter, spawns, issued, orphaned>>

\* The strategy is created and the hot loop starts.
Start ==
    /\ phase = "ready"
    /\ phase' = "run"
    /\ UNCHANGED <<vars, tableVars, registered, generation, counter, spawns, issued, orphaned>>

\* execv fails, the module or the segment is refused, setup() returns false for
\* a bad balance or create() returns nullptr: exec exits unpublished.
StartFails ==
    /\ phase \in {"forked", "started", "setup", "registered", "ready"}
    /\ phase' = "down"
    /\ UNCHANGED <<vars, tableVars, registered, generation, counter, spawns, issued, orphaned>>

\* StrategyContext::submit takes next_id() for an order it will route.
NextId ==
    /\ phase = "run"
    /\ wpc = "idle"
    /\ Len(issued) < MaxIds
    /\ counter' = counter + 1
    /\ issued' = Append(issued, <<generation % GenerationMod, counter'>>)
    /\ UNCHANGED <<vars, tableVars, registered, phase, generation, spawns, orphaned>>

\* publish() begins: exec_stats.store(st), of which two words are kept here, the
\* generation and the count of tick_to_order, one per order of this process.
StoreStats == StoreBegin([generation |-> generation, tick_to_order |-> counter])

\* The timer period of the hot loop publishes.
TimerPublish ==
    /\ phase = "run"
    /\ StoreStats
    /\ UNCHANGED <<tableVars, execVars>>

\* run_null returns (shutdown or swap); main cancels and publishes once more.
Leave ==
    /\ phase = "run"
    /\ StoreStats
    /\ phase' = "exit"
    /\ UNCHANGED <<tableVars, registered, generation, counter, spawns, issued, orphaned>>

\* A store in progress goes on.
PublishStep ==
    /\ StoreStep
    /\ UNCHANGED <<tableVars, execVars>>

\* main returns once the last store is complete.
Exit ==
    /\ phase = "exit"
    /\ wpc = "idle"
    /\ phase' = "down"
    /\ UNCHANGED <<vars, tableVars, registered, generation, counter, spawns, issued, orphaned>>

\* exec dies by a signal, possibly in the middle of a store.
Crash ==
    /\ phase # "down"
    /\ phase' = "down"
    /\ WriterCrash \/ (wpc = "idle" /\ UNCHANGED vars)
    /\ orphaned' = \/ orphaned
                   \/ wpc = "copy"
                   \/ counter > 0 /\ data["generation"] # generation
    /\ UNCHANGED <<tableVars, registered, generation, counter, spawns, issued>>

RestartNext ==
    \/ \E w \in Word : AddWord(w)
    \/ AddCount \/ CoreDies \/ Terminate
    \/ Spawn \/ Execv \/ HandleSignals \/ Register \/ SetupStopped \/ Setup \/ Start \/ StartFails
    \/ NextId \/ TimerPublish \/ Leave \/ PublishStep \/ Exit
    \/ Crash

RestartSpec == RestartInit /\ [][RestartNext]_restartVars

\* core goes on, the manager reaps a dead core and broadcasts, and exec comes up
\* and goes on looking at the table and at its shutdown flag.
RestartFairness ==
    /\ WF_restartVars((\E w \in Word : AddWord(w)) \/ AddCount)
    /\ WF_restartVars(core = "dead" /\ Terminate)
    /\ WF_restartVars(Execv \/ HandleSignals \/ Register \/ SetupStopped)

FairRestartSpec == RestartSpec /\ RestartFairness

-----------------------------------------------------------------------------
(* Properties.                                                             *)

\* No identifier is ever handed out twice, in whatever process: a venue would
\* otherwise take a new order for one it already knows (next_id, setup).
IdsNeverRepeat == IsInjective(issued)

\* Restarts, failed starts, exits and crashes never repeat an identifier, as long
\* as every exec that dies has its generation completely in exec_stats (or has
\* handed out none).
IdsDistinctUnlessOrphaned == ~orphaned => IsInjective(issued)

\* An exec that got past its wait has registered a whole row, whenever core was
\* adding it and wherever core died.
RegistersWholeRows ==
    phase \in {"registered", "ready", "run", "exit"} => registered = Word

\* No exec that was forked waits for its instrument for ever: the row appears, or
\* core died before it entered one and exec is told to stop.  The exception is a
\* broadcast that met exec between fork and execv: nobody tells it again.
SetupSettles ==
    phase \in {"forked", "started", "setup"} ~>
        phase \notin {"forked", "started", "setup"} \/ lost
=============================================================================
