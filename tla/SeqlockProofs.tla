---------------------------- MODULE SeqlockProofs ----------------------------
(***************************************************************************)
(* Proofs about Seqlock without writer crashes, for every frame size and   *)
(* every set of readers, and, from them, about exec_stats, the seqlock     *)
(* that carries the generation from one exec process to the next and the   *)
(* counters to the dashboard (ExecRestart, TradingPanels).                 *)
(***************************************************************************)
EXTENDS TradingPanels, SequenceTheorems, TLAPS

\* Between stores the shared frame is that of the last store; during one, each
\* word is the new one if it has been copied and the old one if not.
WriterInv ==
    /\ wpc = "idle" => data = cell
    /\ wpc = "copy" => /\ s = seq - 1
                       /\ \A w \in Word :
                             data[w] = IF w \in written THEN in[w] ELSE cell[w]

\* A reader started from an even number that seq has not gone back behind, and
\* as long as seq still has that value its words are those of the last store.
ReaderInv ==
    \A r \in Reader : rpc[r] = "copy" =>
        /\ pre[r] <= seq
        /\ pre[r] % 2 = 0
        /\ pre[r] = seq => \A w \in copied[r] : out[r][w] = cell[w]

IInv == TypeOK /\ WriterInv /\ ReaderInv

\* An increment turns the parity.
LEMMA Parity ==
    ASSUME NEW n \in Nat
    PROVE  /\ n % 2 = 0 => (n + 1) % 2 = 1
           /\ n % 2 = 1 => (n + 1) % 2 = 0
OBVIOUS

LEMMA InitIInv == Init => IInv
<1> SUFFICES ASSUME Init PROVE IInv
  OBVIOUS
<1>1. Blank \in Frame
  BY SeqlockAssumption DEF Blank, Frame
<1>2. TypeOK
  BY <1>1, SeqlockAssumption DEF Init, TypeOK
<1> QED BY <1>1, <1>2 DEF Init, IInv, WriterInv, ReaderInv

LEMMA WriterStep ==
    ASSUME IInv, (\E f \in Frame : StoreBegin(f)) \/ StoreStep
    PROVE  IInv'
<1> USE DEF IInv
<1>1. ASSUME NEW f \in Frame, StoreBegin(f) PROVE IInv'
  <2>1. seq % 2 = 0 /\ seq' % 2 = 1
    BY <1>1, Parity DEF StoreBegin, TypeOK
  <2>2. TypeOK'
    BY <1>1, <2>1, SeqlockAssumption DEF StoreBegin, TypeOK, readerVars
  <2>3. WriterInv'
    BY <1>1 DEF StoreBegin, WriterInv, TypeOK
  <2>4. ReaderInv'
    BY <1>1 DEF StoreBegin, ReaderInv, readerVars, TypeOK
  <2> QED BY <2>2, <2>3, <2>4
<1>2. ASSUME NEW w \in Word, StoreWord(w) PROVE IInv'
  <2>1. TypeOK'
    BY <1>2 DEF StoreWord, TypeOK, readerVars, Frame
  <2>2. WriterInv'
    BY <1>2 DEF StoreWord, WriterInv, TypeOK, Frame
  <2>3. ReaderInv'
    BY <1>2 DEF StoreWord, ReaderInv, readerVars
  <2> QED BY <2>1, <2>2, <2>3
<1>3. CASE StoreEnd
  <2>1. seq % 2 = 1 /\ seq' = seq + 1
    BY <1>3 DEF StoreEnd, TypeOK, WriterInv
  <2>2. seq' % 2 = 0
    BY <2>1, Parity DEF TypeOK
  <2>3. TypeOK'
    BY <1>3, <2>1, <2>2 DEF StoreEnd, TypeOK, readerVars
  <2>4. data = in
    BY <1>3 DEF StoreEnd, WriterInv, TypeOK, Frame
  <2>5. WriterInv'
    BY <1>3, <2>4 DEF StoreEnd, WriterInv
  <2>6. ReaderInv'
    <3> SUFFICES ASSUME NEW r \in Reader, rpc[r] = "copy"
                 PROVE  pre[r] < seq' /\ pre[r] % 2 = 0
      BY <1>3 DEF StoreEnd, ReaderInv, readerVars, TypeOK
    <3>1. pre[r] <= seq /\ pre[r] % 2 = 0
      BY DEF ReaderInv
    <3> QED BY <2>1, <3>1 DEF TypeOK
  <2> QED BY <2>3, <2>5, <2>6
<1> QED BY <1>1, <1>2, <1>3 DEF StoreStep

LEMMA ReaderStep ==
    ASSUME IInv, NEW r \in Reader, Load(r)
    PROVE  IInv'
<1> USE DEF IInv
<1>1. CASE LoadBegin(r)
  <2>1. TypeOK'
    BY <1>1 DEF LoadBegin, TypeOK, writerVars
  <2>2. WriterInv'
    BY <1>1 DEF LoadBegin, WriterInv, writerVars
  <2>3. ReaderInv'
    BY <1>1 DEF LoadBegin, ReaderInv, writerVars, TypeOK
  <2> QED BY <2>1, <2>2, <2>3
<1>2. ASSUME NEW w \in Word, LoadWord(r, w) PROVE IInv'
  <2>1. TypeOK'
    BY <1>2 DEF LoadWord, TypeOK, writerVars, Frame
  <2>2. WriterInv'
    BY <1>2 DEF LoadWord, WriterInv, writerVars
  <2>3. pre[r] = seq => data = cell
    BY <1>2 DEF LoadWord, ReaderInv, WriterInv, TypeOK
  <2>4. ReaderInv'
    BY <1>2, <2>3 DEF LoadWord, ReaderInv, writerVars, TypeOK, Frame
  <2> QED BY <2>1, <2>2, <2>4
<1>3. CASE LoadEnd(r)
  <2>1. TypeOK'
    BY <1>3 DEF LoadEnd, TypeOK, writerVars
  <2>2. WriterInv'
    BY <1>3 DEF LoadEnd, WriterInv, writerVars
  <2>3. ReaderInv'
    BY <1>3 DEF LoadEnd, ReaderInv, writerVars, TypeOK
  <2> QED BY <2>1, <2>2, <2>3
<1> QED BY <1>1, <1>2, <1>3 DEF Load

\* The invariant holds in every reachable state.
THEOREM Invariance == Spec => []IInv
<1>1. IInv /\ [Next]_vars => IInv'
  <2> SUFFICES ASSUME IInv, [Next]_vars PROVE IInv'
    OBVIOUS
  <2>1. CASE Next
    BY <2>1, WriterStep, ReaderStep DEF Next
  <2>2. CASE UNCHANGED vars
    BY <2>2 DEF vars, writerVars, readerVars, IInv, TypeOK, WriterInv, ReaderInv
  <2> QED BY <2>1, <2>2
<1> QED BY InitIInv, <1>1, PTL DEF Spec

\* seq is odd exactly while the one writer is inside store().
THEOREM TypeCorrect == Spec => []TypeOK
BY Invariance, PTL DEF IInv

\* A load that try_load accepts returns, whole, the frame of the last completed
\* store; a store takes effect at its second write of seq.
THEOREM Refinement == Spec => RefinesCell
<1>1. Init => Cell!CellInit
  <2>1. Blank \in Frame
    BY SeqlockAssumption DEF Blank, Frame
  <2> QED BY <2>1 DEF Init, Cell!CellInit
<1>2. IInv /\ [Next]_vars => [Cell!CellNext]_(Cell!cellVars)
  <2> SUFFICES ASSUME IInv, [Next]_vars PROVE [Cell!CellNext]_(Cell!cellVars)
    OBVIOUS
  <2> USE DEF Cell!cellVars
  <2>1. ASSUME NEW f \in Frame, StoreBegin(f) PROVE UNCHANGED Cell!cellVars
    BY <2>1 DEF StoreBegin, readerVars
  <2>2. ASSUME NEW w \in Word, StoreWord(w) PROVE UNCHANGED Cell!cellVars
    BY <2>2 DEF StoreWord, readerVars
  <2>3. CASE StoreEnd
    <3>1. Cell!Write(in) /\ in \in Frame
      BY <2>3 DEF StoreEnd, readerVars, IInv, TypeOK, Cell!Write
    <3> QED BY <3>1 DEF Cell!CellNext
  <2>4. ASSUME NEW r \in Reader, LoadBegin(r) PROVE UNCHANGED Cell!cellVars
    BY <2>4 DEF LoadBegin, writerVars
  <2>5. ASSUME NEW r \in Reader, NEW w \in Word, LoadWord(r, w)
        PROVE  UNCHANGED Cell!cellVars
    BY <2>5 DEF LoadWord, writerVars
  <2>6. ASSUME NEW r \in Reader, LoadEnd(r)
        PROVE  Cell!Read(r) \/ UNCHANGED Cell!cellVars
    <3>1. CASE pre[r] = seq
      <4>1. out[r] = cell
        BY <2>6, <3>1 DEF LoadEnd, IInv, ReaderInv, TypeOK, Frame
      <4> QED BY <2>6, <3>1, <4>1 DEF LoadEnd, writerVars, Cell!Read
    <3>2. CASE pre[r] # seq
      BY <2>6, <3>2 DEF LoadEnd, writerVars
    <3> QED BY <3>1, <3>2
  <2>7. CASE UNCHANGED vars
    BY <2>7 DEF vars, writerVars, readerVars
  <2> QED BY <2>1, <2>2, <2>3, <2>4, <2>5, <2>6, <2>7
      DEF Next, StoreStep, Load, Cell!CellNext
<1> QED BY <1>1, <1>2, Invariance, PTL DEF Spec, RefinesCell, Cell!CellSpec

-----------------------------------------------------------------------------
(* exec_stats across restarts: ExecRestart and TradingPanels.              *)

\* What is always so: the count of the instrument table follows its row, and
\* exec registers only behind the count.
RowInv ==
    /\ rowWords \subseteq Word
    /\ count \in Nat
    /\ count > 0 => rowWords = Word
    /\ RegistersWholeRows

Phase == {"down", "forked", "started", "setup", "registered", "ready", "run", "exit"}

LifeTypeOK ==
    /\ phase \in Phase
    /\ generation \in Nat /\ counter \in Nat
    /\ spawns \in 0..MaxSpawns
    /\ issued \in Seq(Nat \X Nat)
    /\ counter <= Len(issued) /\ Len(issued) <= MaxIds

\* The generation exec_stats holds is that of an exec already spawned; one that
\* has read it has the next, and what it is storing, or has stored, is its own.
LifeInv ==
    /\ cell["generation"] \in Nat /\ cell["tick_to_order"] \in Nat
    /\ cell["generation"] <= spawns
    /\ wpc = "copy" =>
          /\ phase \in {"run", "exit"}
          /\ in["generation"] = generation /\ in["tick_to_order"] = counter
    /\ phase \in {"forked", "started", "setup", "registered"} =>
          /\ cell["generation"] < spawns
          /\ counter = 0
    /\ phase = "ready" =>
          /\ generation = cell["generation"] + 1 /\ generation <= spawns
          /\ counter = 0
    /\ phase \in {"run", "exit"} =>
          /\ generation <= spawns
          /\ \/ generation = cell["generation"] + 1
             \/ generation = cell["generation"] /\ cell["tick_to_order"] <= counter
    /\ phase = "exit" /\ wpc = "idle" => generation = cell["generation"]

\* What is so until an exec dies inside a store.
Intact == IInv /\ LifeTypeOK /\ LifeInv

\* Where the identifiers are: those of earlier processes are of generations
\* that exec_stats has reached, those of this one are counted.
IdInv ==
    /\ \A i \in 1..Len(issued) :
          \/ issued[i][1] <= cell["generation"]
          \/ phase \in {"run", "exit"} /\ issued[i][1] = generation
    /\ phase \in {"run", "exit"} =>
          \A i \in 1..Len(issued) :
             \/ issued[i][1] < generation
             \/ issued[i][1] = generation /\ issued[i][2] \in 1..counter
    /\ IsInjective(issued)

\* One frame of exec_stats is not older than another.
NotOlder(f, g) ==
    \/ f["generation"] < g["generation"]
    \/ f["generation"] = g["generation"] /\ f["tick_to_order"] <= g["tick_to_order"]

\* What the dashboard has shown is not newer than what it has loaded, nor that
\* newer than what is stored.
PanelOrder ==
    /\ execPrev["generation"] \in Nat /\ execPrev["tick_to_order"] \in Nat
    /\ Exec["generation"] \in Nat /\ Exec["tick_to_order"] \in Nat
    /\ NotOlder(execPrev, Exec)
    /\ NotOlder(Exec, cell)

\* An exec dies inside a store.
DiesStoring == wpc = "copy" /\ phase # "down" /\ phase' = "down"

PanelIInv ==
    /\ RestartAssumption /\ PanelsAssumption
    /\ RowInv
    /\ torn \in BOOLEAN /\ wrapped \in BOOLEAN /\ orphaned \in BOOLEAN
    /\ torn => orphaned
    /\ wrapped => torn
    /\ ~torn => Intact /\ PanelOrder
    /\ GenerationsFit /\ ~orphaned => IdInv

\* Zero-filled statistics are of generation 0, before every exec's.
LEMMA BlankZero ==
    ASSUME RestartAssumption
    PROVE  Blank["generation"] = 0 /\ Blank["tick_to_order"] = 0
BY DEF RestartAssumption, Blank

LEMMA PanelInitIInv ==
    ASSUME RestartAssumption, PanelsAssumption, PanelInit
    PROVE  PanelIInv
<1> USE DEF PanelInit, RestartInit
<1>1. RowInv
  BY DEF RowInv, RegistersWholeRows
<1>2. IInv
  BY InitIInv
<1>3. LifeTypeOK
  BY DEF LifeTypeOK, Phase, RestartAssumption
<1>4. cell = Blank /\ wpc = "idle"
  BY DEF Init
<1>5. LifeInv
  BY <1>4, BlankZero DEF LifeInv
<1>6. Dashboard \in Reader
  BY DEF PanelsAssumption, Dashboard
<1>7. Exec = Blank /\ execPrev = Blank
  BY <1>6 DEF Exec, Init
<1>8. PanelOrder
  BY <1>4, <1>7, BlankZero DEF PanelOrder, NotOlder
<1>9. IdInv
  BY DEF IdInv, IsInjective
<1> QED BY <1>1, <1>2, <1>3, <1>5, <1>8, <1>9 DEF PanelIInv, Intact

LEMMA RowStep ==
    ASSUME RestartAssumption, RowInv, RestartNext
    PROVE  RowInv'
<1> USE DEF RowInv, RegistersWholeRows
<1>1. ASSUME NEW w \in Word, AddWord(w) PROVE RowInv'
  BY <1>1 DEF AddWord, execVars
<1>2. CASE AddCount
  BY <1>2 DEF AddCount, execVars
<1>3. CASE CoreDies \/ Terminate
  BY <1>3 DEF CoreDies, Terminate, execVars
<1>4. CASE \/ Spawn \/ Execv \/ HandleSignals \/ Register
           \/ SetupStopped \/ Setup \/ Start \/ StartFails
  BY <1>4 DEF Spawn, Execv, HandleSignals, Register, SetupStopped, Setup, Start, StartFails,
              tableVars, stopVars
<1>5. CASE NextId \/ TimerPublish \/ Leave \/ PublishStep \/ Exit \/ Crash
  BY <1>5 DEF NextId, TimerPublish, Leave, PublishStep, Exit, Crash, tableVars, execVars
<1> QED BY <1>1, <1>2, <1>3, <1>4, <1>5 DEF RestartNext

\* The statistics of a live exec fit the words of exec_stats.
LEMMA StatsFit ==
    ASSUME RestartAssumption, LifeTypeOK, LifeInv, phase = "run"
    PROVE  [generation |-> generation, tick_to_order |-> counter] \in Frame
<1>1. generation \in 0..MaxSpawns /\ counter \in 0..MaxIds
  BY DEF LifeTypeOK, LifeInv, RestartAssumption
<1>2. generation \in Item /\ counter \in Item
  BY <1>1 DEF RestartAssumption
<1> QED BY <1>2 DEF RestartAssumption, Frame

\* A step that leaves the seqlock alone keeps its invariant.
LEMMA SeqlockStutter ==
    ASSUME IInv, UNCHANGED vars
    PROVE  IInv'
BY DEF vars, writerVars, readerVars, IInv, TypeOK, WriterInv, ReaderInv

\* Only the end of a store changes cell, to the frame that was stored.
LEMMA StoreStepCell ==
    ASSUME StoreStep
    PROVE  /\ wpc = "copy" /\ UNCHANGED <<in, result>>
           /\ \/ wpc' = "copy" /\ cell' = cell
              \/ wpc' = "idle" /\ cell' = in
BY DEF StoreStep, StoreWord, StoreEnd, readerVars

\* A step of exec or core, but the death of an exec inside a store, keeps the
\* seqlock and the generations sound, and never stores an older frame.
LEMMA LifeStep ==
    ASSUME RestartAssumption, Intact, RestartNext, ~DiesStoring
    PROVE  Intact' /\ NotOlder(cell, cell') /\ result' = result
<1> USE DEF Intact
<1>0. cell["generation"] \in Nat /\ cell["tick_to_order"] \in Nat
  BY DEF LifeInv
<1>a. ASSUME cell' = cell PROVE NotOlder(cell, cell')
  BY <1>0, <1>a DEF NotOlder
<1>1. CASE (\E w \in Word : AddWord(w)) \/ AddCount \/ CoreDies
  <2>1. UNCHANGED <<vars, execVars>>
    BY <1>1 DEF AddWord, AddCount, CoreDies
  <2>2. IInv'
    BY <2>1, SeqlockStutter
  <2>3. LifeTypeOK' /\ LifeInv'
    BY <2>1 DEF execVars, vars, writerVars, LifeTypeOK, LifeInv
  <2> QED BY <1>a, <2>1, <2>2, <2>3 DEF vars, writerVars, readerVars
<1>2. CASE \/ Terminate \/ Spawn \/ Execv \/ HandleSignals \/ Register
           \/ SetupStopped \/ Start \/ StartFails
  <2>1. UNCHANGED vars
    BY <1>2 DEF Terminate, Spawn, Execv, HandleSignals, Register, SetupStopped, Start, StartFails
  <2>2. IInv'
    BY <2>1, SeqlockStutter
  <2>3. LifeTypeOK'
    BY <1>2 DEF Terminate, Spawn, Execv, HandleSignals, Register, SetupStopped, Start, StartFails,
          LifeTypeOK, Phase, RestartAssumption
  <2>4. LifeInv'
    BY <1>2 DEF Terminate, Spawn, Execv, HandleSignals, Register, SetupStopped, Start, StartFails,
          LifeTypeOK, LifeInv, vars, writerVars
  <2> QED BY <1>a, <2>1, <2>2, <2>3, <2>4 DEF vars, writerVars, readerVars
<1>3. CASE Setup
  <2>1. UNCHANGED vars
    BY <1>3 DEF Setup
  <2>2. IInv'
    BY <2>1, SeqlockStutter
  <2>3. wpc = "idle"
    BY <1>3 DEF Setup, LifeInv, IInv, TypeOK
  <2>4. PreviousGeneration = cell["generation"]
    BY <2>3 DEF IInv, TypeOK, WriterInv, PreviousGeneration
  <2>5. LifeTypeOK'
    BY <1>3, <2>4, <1>0 DEF Setup, LifeTypeOK, Phase
  <2>6. LifeInv'
    BY <1>3, <2>3, <2>4, <2>1 DEF Setup, LifeTypeOK, LifeInv, vars, writerVars
  <2> QED BY <1>a, <2>1, <2>2, <2>5, <2>6 DEF vars, writerVars, readerVars
<1>4. CASE NextId
  <2>1. UNCHANGED vars
    BY <1>4 DEF NextId
  <2>2. IInv'
    BY <2>1, SeqlockStutter
  <2>3. <<generation % GenerationMod, counter + 1>> \in Nat \X Nat
    BY DEF RestartAssumption, LifeTypeOK
  <2>4. issued' = Append(issued, <<generation % GenerationMod, counter + 1>>)
    BY <1>4 DEF NextId
  <2>5. issued' \in Seq(Nat \X Nat) /\ Len(issued') = Len(issued) + 1
    BY <2>3, <2>4, AppendProperties DEF LifeTypeOK
  <2>6. LifeTypeOK'
    BY <1>4, <2>5, LenProperties DEF NextId, LifeTypeOK, RestartAssumption
  <2>7. LifeInv'
    BY <1>4, <2>1 DEF NextId, LifeTypeOK, LifeInv, vars, writerVars
  <2> QED BY <1>a, <2>1, <2>2, <2>6, <2>7 DEF vars, writerVars, readerVars
<1>5. CASE TimerPublish \/ Leave
  <2>1. phase = "run" /\ StoreStats /\ phase' \in {"run", "exit"}
        /\ UNCHANGED <<generation, counter, spawns, issued>>
    BY <1>5 DEF TimerPublish, Leave, execVars
  <2>2. [generation |-> generation, tick_to_order |-> counter] \in Frame
    BY <2>1, StatsFit
  <2>3. IInv'
    BY <2>1, <2>2, WriterStep DEF StoreStats
  <2>4. LifeTypeOK'
    BY <2>1 DEF LifeTypeOK, Phase
  <2>5. cell' = cell /\ result' = result /\ wpc' = "copy"
        /\ in' = [generation |-> generation, tick_to_order |-> counter]
    BY <2>1 DEF StoreStats, StoreBegin, readerVars
  <2>6. LifeInv'
    BY <2>1, <2>5 DEF LifeInv, LifeTypeOK
  <2> QED BY <1>a, <2>3, <2>4, <2>5, <2>6
<1>6. CASE PublishStep
  <2>1. StoreStep /\ UNCHANGED execVars
    BY <1>6 DEF PublishStep
  <2>2. IInv'
    BY <2>1, WriterStep
  <2>3. LifeTypeOK'
    BY <2>1 DEF execVars, LifeTypeOK
  <2>4. wpc = "copy" /\ UNCHANGED <<in, result>>
        /\ ((wpc' = "copy" /\ cell' = cell) \/ (wpc' = "idle" /\ cell' = in))
    BY <2>1, StoreStepCell
  <2>5. in["generation"] = generation /\ in["tick_to_order"] = counter
        /\ phase \in {"run", "exit"}
    BY <2>4 DEF LifeInv
  <2>6. NotOlder(cell, in)
    BY <2>5 DEF LifeInv, LifeTypeOK, NotOlder
  <2>7. LifeInv'
    BY <2>1, <2>4, <2>5 DEF LifeInv, LifeTypeOK, execVars
  <2> QED BY <1>a, <2>2, <2>3, <2>4, <2>6, <2>7
<1>7. CASE Exit \/ Crash
  <2>1. wpc = "idle" /\ phase' = "down" /\ UNCHANGED vars
        /\ UNCHANGED <<generation, counter, spawns, issued>>
    <3>1. wpc # "copy" \/ Exit
      BY <1>7 DEF Crash, DiesStoring
    <3> QED BY <1>7, <3>1 DEF Exit, Crash, WriterCrash
  <2>2. IInv'
    BY <2>1, SeqlockStutter
  <2>3. LifeTypeOK'
    BY <2>1 DEF LifeTypeOK, Phase
  <2>4. LifeInv'
    BY <2>1 DEF LifeInv, vars, writerVars
  <2> QED BY <1>a, <2>1, <2>2, <2>3, <2>4 DEF vars, writerVars, readerVars
<1> QED BY <1>1, <1>2, <1>3, <1>4, <1>5, <1>6, <1>7 DEF RestartNext

\* A step that leaves the identifiers, the process and the stored frame alone
\* keeps IdInv.
LEMMA IdStutter ==
    ASSUME IdInv, UNCHANGED <<issued, phase, generation, counter, cell>>
    PROVE  IdInv'
BY DEF IdInv

\* No step repeats an identifier, but after an exec that died inside a store or
\* with identifiers handed out that exec_stats does not know of.
LEMMA IdStep ==
    ASSUME RestartAssumption, GenerationsFit, Intact, IdInv, RestartNext,
           orphaned \in BOOLEAN, ~orphaned'
    PROVE  IdInv'
<1> USE DEF Intact
<1>0. /\ cell["generation"] \in Nat /\ generation \in Nat /\ counter \in Nat
      /\ \A i \in 1..Len(issued) : issued[i][1] \in Nat /\ issued[i][2] \in Nat
  <2>1. \A i \in 1..Len(issued) : issued[i] \in Nat \X Nat
    BY ElementOfSeq DEF LifeTypeOK
  <2> QED BY <2>1 DEF LifeInv, LifeTypeOK
<1>1. CASE (\E w \in Word : AddWord(w)) \/ AddCount \/ CoreDies
  BY <1>1, IdStutter DEF AddWord, AddCount, CoreDies, execVars, vars, writerVars
<1>2. CASE \/ Terminate \/ Spawn \/ Execv \/ HandleSignals \/ Register
           \/ SetupStopped \/ Setup \/ StartFails
  BY <1>2, <1>0 DEF Terminate, Spawn, Execv, HandleSignals, Register, SetupStopped, Setup, StartFails,
                   vars, writerVars, IdInv
<1>3. CASE Start
  <2>1. UNCHANGED <<cell, generation, counter, issued>> /\ phase' = "run" /\ phase = "ready"
    BY <1>3 DEF Start, vars, writerVars
  <2>2. generation = cell["generation"] + 1
    BY <2>1 DEF LifeInv
  <2>3. \A i \in 1..Len(issued) : issued[i][1] <= cell["generation"]
    BY <2>1 DEF IdInv
  <2>4. \A i \in 1..Len(issued) : issued[i][1] < generation
    BY <2>2, <2>3, <1>0
  <2> QED BY <2>1, <2>3, <2>4 DEF IdInv
<1>4. CASE NextId
  <2> DEFINE id == <<generation, counter + 1>>
  <2>1. UNCHANGED <<cell, generation, phase>> /\ phase = "run" /\ counter' = counter + 1
    BY <1>4 DEF NextId, vars, writerVars
  <2>2. generation % GenerationMod = generation
    <3>1. generation \in 0..(GenerationMod - 1) /\ GenerationMod \in Nat
      BY <2>1 DEF LifeInv, LifeTypeOK, GenerationsFit, RestartAssumption
    <3> QED BY <3>1
  <2>3. issued' = Append(issued, id)
    BY <1>4, <2>2 DEF NextId
  <2>4. issued \in Seq(Nat \X Nat) /\ id \in Nat \X Nat
    BY <1>0 DEF LifeTypeOK
  <2>5. /\ Len(issued') = Len(issued) + 1 /\ Len(issued) \in Nat
        /\ \A i \in 1..Len(issued) : issued'[i] = issued[i]
        /\ issued'[Len(issued) + 1] = id
        /\ DOMAIN issued = 1..Len(issued) /\ DOMAIN issued' = 1..Len(issued')
    <3> HIDE DEF id
    <3> QED BY <2>3, <2>4, AppendProperties, LenProperties
  <2>6. \A i \in 1..Len(issued) : issued[i] # id
    BY <1>0, <2>1 DEF IdInv
  <2>7. IsInjective(issued')
    <3> HIDE DEF id
    <3> SUFFICES ASSUME NEW a \in 1..(Len(issued) + 1), NEW b \in 1..(Len(issued) + 1),
                        issued'[a] = issued'[b]
                 PROVE  a = b
      BY <2>5 DEF IsInjective
    <3>1. a \in 1..Len(issued) \/ a = Len(issued) + 1
      BY <2>5
    <3>2. b \in 1..Len(issued) \/ b = Len(issued) + 1
      BY <2>5
    <3>3. CASE a \in 1..Len(issued) /\ b \in 1..Len(issued)
      BY <2>5, <3>3 DEF IdInv, IsInjective
    <3>4. CASE a = Len(issued) + 1 \/ b = Len(issued) + 1
      BY <2>5, <2>6, <3>1, <3>2, <3>4
    <3> QED BY <3>1, <3>2, <3>3, <3>4
  <2>8. ASSUME NEW i \in 1..(Len(issued) + 1)
        PROVE  /\ issued'[i][1] <= cell["generation"] \/ issued'[i][1] = generation
               /\ \/ issued'[i][1] < generation
                  \/ issued'[i][1] = generation /\ issued'[i][2] \in 1..(counter + 1)
    <3>1. CASE i = Len(issued) + 1
      BY <3>1, <2>5, <1>0
    <3>2. CASE i \in 1..Len(issued)
      <4>1. issued'[i] = issued[i]
        BY <3>2, <2>5
      <4>2. issued[i][1] <= cell["generation"] \/ issued[i][1] = generation
        BY <3>2 DEF IdInv
      <4>3. \/ issued[i][1] < generation
            \/ issued[i][1] = generation /\ issued[i][2] \in 1..counter
        BY <3>2, <2>1 DEF IdInv
      <4> QED BY <4>1, <4>2, <4>3, <1>0, <3>2
    <3> QED BY <3>1, <3>2, <2>5
  <2> QED BY <2>1, <2>5, <2>7, <2>8 DEF IdInv
<1>5. CASE TimerPublish \/ Leave
  BY <1>5 DEF TimerPublish, Leave, StoreStats, StoreBegin, execVars, IdInv
<1>6. CASE PublishStep
  <2>1. StoreStep /\ UNCHANGED execVars
    BY <1>6 DEF PublishStep
  <2>2. wpc = "copy" /\ (cell' = cell \/ cell' = in)
    BY <2>1, StoreStepCell
  <2>3. CASE cell' = cell
    BY <2>1, <2>3, IdStutter DEF execVars
  <2>4. CASE cell' = in
    <3>1. cell'["generation"] = generation /\ phase \in {"run", "exit"}
      BY <2>2, <2>4 DEF LifeInv
    <3>2. cell["generation"] <= generation
      BY <3>1, <1>0 DEF LifeInv
    <3> QED BY <2>1, <3>1, <3>2, <1>0 DEF execVars, IdInv
  <2> QED BY <2>2, <2>3, <2>4
<1>7. CASE Exit \/ Crash
  <2>1. wpc = "idle" /\ phase' = "down" /\ phase # "down"
        /\ UNCHANGED <<issued, generation, counter, cell>>
    BY <1>7 DEF Exit, Crash, WriterCrash, vars, writerVars, IInv, TypeOK
  <2>2. data = cell
    BY <2>1 DEF IInv, WriterInv
  <2>3. phase \in {"run", "exit"} => counter = 0 \/ generation = cell["generation"]
    <3>1. CASE Exit
      BY <3>1, <2>1 DEF Exit, LifeInv
    <3>2. CASE Crash
      BY <3>2, <2>2, <1>0 DEF Crash
    <3> QED BY <1>7, <3>1, <3>2
  <2>4. \A i \in 1..Len(issued) : issued[i][1] <= cell["generation"]
    <3> SUFFICES ASSUME NEW i \in 1..Len(issued) PROVE issued[i][1] <= cell["generation"]
      OBVIOUS
    <3>1. CASE phase \in {"run", "exit"}
      <4>1. generation <= cell["generation"] + 1
        BY <3>1, <1>0 DEF LifeInv
      <4>2. \/ issued[i][1] < generation
            \/ issued[i][1] = generation /\ issued[i][2] \in 1..counter
        BY <3>1 DEF IdInv
      <4> QED BY <4>1, <4>2, <2>3, <3>1, <1>0
    <3>2. CASE phase \notin {"run", "exit"}
      BY <3>2 DEF IdInv
    <3> QED BY <3>1, <3>2
  <2> QED BY <2>1, <2>4 DEF IdInv
<1> QED BY <1>1, <1>2, <1>3, <1>4, <1>5, <1>6, <1>7 DEF RestartNext

\* Frames only get newer.
LEMMA NotOlderTransitive ==
    ASSUME NEW f, NEW g, NEW k,
           f["generation"] \in Nat, f["tick_to_order"] \in Nat,
           g["generation"] \in Nat, g["tick_to_order"] \in Nat,
           k["generation"] \in Nat, k["tick_to_order"] \in Nat,
           NotOlder(f, g), NotOlder(g, k)
    PROVE  NotOlder(f, k)
BY DEF NotOlder

\* orphaned is never unset, and is set when an exec dies inside a store.
LEMMA OrphanedStep ==
    ASSUME RestartNext, orphaned \in BOOLEAN
    PROVE  /\ orphaned' \in BOOLEAN
           /\ orphaned => orphaned'
           /\ Intact /\ DiesStoring => orphaned'
<1>1. CASE Crash
  BY <1>1 DEF Crash, DiesStoring
<1>2. CASE ~Crash
  <2>1. orphaned' = orphaned
    BY <1>2 DEF RestartNext, AddWord, AddCount, CoreDies, Terminate, Spawn, Execv,
                HandleSignals, Register, SetupStopped, Setup, Start, StartFails, NextId,
                TimerPublish, Leave, PublishStep, Exit, execVars
  <2>2. ~(Intact /\ DiesStoring)
    <3> SUFFICES ASSUME Intact, wpc = "copy", phase # "down", phase' = "down" PROVE FALSE
      BY DEF DiesStoring
    <3>1. phase \in {"run", "exit"}
      BY DEF Intact, LifeInv
    <3> QED BY <1>2, <3>1 DEF RestartNext, AddWord, AddCount, CoreDies, Terminate, Spawn,
                Execv, HandleSignals, Register, SetupStopped, Setup, Start, StartFails, NextId,
                TimerPublish, Leave, PublishStep, Exit, execVars
  <2> QED BY <2>1, <2>2
<1> QED BY <1>1, <1>2

\* A step of the system behind the dashboard.
LEMMA BehindStep ==
    ASSUME PanelIInv, Behind
    PROVE  PanelIInv'
<1> USE DEF PanelIInv
<1>1. RestartNext /\ torn' = (torn \/ DiesStoring) /\ UNCHANGED <<execPrev, wrapped>>
  BY DEF Behind, DiesStoring
<1>2. RowInv'
  BY <1>1, RowStep
<1>3. orphaned' \in BOOLEAN /\ (orphaned => orphaned') /\ (Intact /\ DiesStoring => orphaned')
  BY <1>1, OrphanedStep
<1>4. torn' \in BOOLEAN /\ (torn => torn') /\ (~torn' => ~torn /\ ~DiesStoring)
  BY <1>1
<1>5. torn' => orphaned'
  BY <1>1, <1>3
<1>6. ASSUME ~torn' PROVE Intact' /\ PanelOrder'
  <2>1. Intact' /\ NotOlder(cell, cell') /\ result' = result
    BY <1>1, <1>4, <1>6, LifeStep
  <2>2. cell'["generation"] \in Nat /\ cell'["tick_to_order"] \in Nat
    BY <2>1 DEF Intact, LifeInv
  <2>3. PanelOrder /\ Intact
    BY <1>4, <1>6
  <2>4. cell["generation"] \in Nat /\ cell["tick_to_order"] \in Nat
    BY <2>3 DEF Intact, LifeInv
  <2>5. Exec' = Exec /\ execPrev' = execPrev
    BY <1>1, <2>1 DEF Exec
  <2>6. NotOlder(Exec, cell')
    <3> HIDE DEF PanelIInv
    <3> QED BY <2>1, <2>2, <2>3, <2>4, NotOlderTransitive DEF PanelOrder
  <2>7. PanelOrder'
    BY <2>3, <2>5, <2>6 DEF PanelOrder, NotOlder
  <2> QED BY <2>1, <2>7
<1>7. ASSUME GenerationsFit, ~orphaned' PROVE IdInv'
  <2>1. ~orphaned /\ ~torn
    BY <1>3, <1>7
  <2> QED BY <1>1, <1>7, <2>1, IdStep
<1> QED BY <1>1, <1>2, <1>3, <1>4, <1>5, <1>6, <1>7
        DEF RestartAssumption, GenerationsFit, PanelsAssumption

\* A step of the dashboard's load: what it accepts is the last frame stored.
LEMMA UpdateLoadStep ==
    ASSUME PanelIInv, UpdateLoad
    PROVE  PanelIInv'
<1> USE DEF PanelIInv
<1>1. Dashboard \in Reader
  BY DEF PanelsAssumption, Dashboard
<1>2. Load(Dashboard) /\ UNCHANGED <<tableVars, execVars, panelVars>>
  BY DEF UpdateLoad
<1>3. UNCHANGED <<cell, wpc, in, data>>
  BY <1>2 DEF Load, LoadBegin, LoadWord, LoadEnd, writerVars
<1>4. RowInv' /\ (GenerationsFit /\ ~orphaned' => IdInv')
  BY <1>2, <1>3 DEF tableVars, execVars, RowInv, RegistersWholeRows, IdInv
<1>5. ASSUME ~torn PROVE Intact' /\ PanelOrder'
  <2>1. Intact /\ PanelOrder
    BY <1>5
  <2>2. IInv'
    BY <1>1, <1>2, <2>1, ReaderStep DEF Intact
  <2>3. LifeTypeOK' /\ LifeInv'
    BY <1>2, <1>3, <2>1 DEF execVars, Intact, LifeTypeOK, LifeInv
  <2>4. Exec' = Exec \/ Exec' = cell
    <3>1. CASE LoadEnd(Dashboard) /\ pre[Dashboard] = seq
      <4>1. out[Dashboard] = cell
        BY <1>1, <2>1, <3>1 DEF LoadEnd, Intact, IInv, TypeOK, ReaderInv, Frame
      <4> QED BY <1>1, <2>1, <3>1, <4>1 DEF LoadEnd, Exec, Intact, IInv, TypeOK
    <3>2. CASE ~(LoadEnd(Dashboard) /\ pre[Dashboard] = seq)
      BY <1>2, <3>2 DEF Load, LoadBegin, LoadWord, LoadEnd, Exec
    <3> QED BY <3>1, <3>2
  <2>5. cell["generation"] \in Nat /\ cell["tick_to_order"] \in Nat
    BY <2>1 DEF Intact, LifeInv
  <2>6. NotOlder(execPrev, cell)
    <3> HIDE DEF PanelIInv
    <3> QED BY <2>1, <2>5, NotOlderTransitive DEF PanelOrder
  <2>7. NotOlder(cell, cell)
    BY <2>5 DEF NotOlder
  <2>8. execPrev' = execPrev
    BY <1>2 DEF panelVars
  <2>9. PanelOrder'
    BY <1>3, <2>1, <2>4, <2>5, <2>6, <2>7, <2>8 DEF PanelOrder, NotOlder
  <2> QED BY <2>2, <2>3, <2>9 DEF Intact
<1> QED BY <1>2, <1>4, <1>5 DEF execVars, panelVars, RestartAssumption, GenerationsFit,
                                PanelsAssumption

\* The end of a sampling period subtracts counters of one process.
LEMMA SampleStep ==
    ASSUME PanelIInv, Sample
    PROVE  PanelIInv'
<1> USE DEF PanelIInv
<1>1. UNCHANGED <<restartVars, torn>> /\ execPrev' = Exec
  BY DEF Sample
<1>2. UNCHANGED <<vars, tableVars, execVars>>
  BY <1>1 DEF restartVars
<1>3. RowInv' /\ (GenerationsFit /\ ~orphaned' => IdInv')
  BY <1>2 DEF tableVars, execVars, vars, writerVars, RowInv, RegistersWholeRows, IdInv
<1>4. Exec' = Exec /\ cell' = cell
  BY <1>2 DEF Exec, vars, readerVars, writerVars
<1>5. ASSUME ~torn PROVE Intact' /\ PanelOrder' /\ wrapped' = wrapped
  <2>1. Intact /\ PanelOrder
    BY <1>5
  <2>2. IInv'
    BY <1>2, <2>1, SeqlockStutter DEF Intact
  <2>3. LifeTypeOK' /\ LifeInv'
    BY <1>2, <2>1 DEF execVars, vars, writerVars, Intact, LifeTypeOK, LifeInv
  <2>4. NotOlder(Exec, Exec)
    BY <2>1 DEF PanelOrder, NotOlder
  <2>5. PanelOrder'
    BY <1>1, <1>4, <2>1, <2>4 DEF PanelOrder, NotOlder
  <2> DEFINE prev == IF Exec["generation"] # execPrev["generation"] THEN Exec ELSE execPrev
  <2>6. ~(Exec["tick_to_order"] < prev["tick_to_order"])
    BY <2>1 DEF PanelOrder, NotOlder
  <2>7. wrapped' = (wrapped \/ Exec["tick_to_order"] < prev["tick_to_order"])
    BY DEF Sample
  <2>8. wrapped' = wrapped
    <3> HIDE DEF prev
    <3> QED BY <2>6, <2>7
  <2> QED BY <2>2, <2>3, <2>5, <2>8 DEF Intact
<1>6. wrapped' \in BOOLEAN
  BY DEF Sample
<1> QED BY <1>1, <1>2, <1>3, <1>5, <1>6
        DEF execVars, RestartAssumption, GenerationsFit, PanelsAssumption

\* The invariant of exec, core and the dashboard holds in every reachable state.
THEOREM PanelInvariance ==
    RestartAssumption /\ PanelsAssumption /\ PanelSpec => []PanelIInv
<1>1. RestartAssumption /\ PanelsAssumption /\ PanelInit => PanelIInv
  BY PanelInitIInv
<1>2. PanelIInv /\ [PanelNext]_<<restartVars, panelVars>> => PanelIInv'
  <2> SUFFICES ASSUME PanelIInv, [PanelNext]_<<restartVars, panelVars>> PROVE PanelIInv'
    OBVIOUS
  <2>1. CASE PanelNext
    BY <2>1, BehindStep, UpdateLoadStep, SampleStep DEF PanelNext
  <2>2. CASE UNCHANGED <<restartVars, panelVars>>
    <3>1. UNCHANGED vars /\ UNCHANGED <<tableVars, execVars, panelVars>>
      BY <2>2 DEF restartVars
    <3>2. ~torn => IInv'
      BY <3>1, SeqlockStutter DEF PanelIInv, Intact
    <3>3. RowInv' /\ (GenerationsFit /\ ~orphaned => IdInv')
      BY <3>1 DEF PanelIInv, tableVars, execVars, vars, writerVars, RowInv,
                  RegistersWholeRows, IdInv
    <3>4. ~torn => LifeTypeOK' /\ LifeInv' /\ PanelOrder'
      BY <3>1 DEF PanelIInv, Intact, execVars, vars, writerVars, readerVars, panelVars,
                  LifeTypeOK, LifeInv, PanelOrder, Exec, NotOlder
    <3> QED BY <3>1, <3>2, <3>3, <3>4
            DEF PanelIInv, Intact, execVars, panelVars, RestartAssumption, GenerationsFit,
                PanelsAssumption
  <2> QED BY <2>1, <2>2
<1> QED BY <1>1, <1>2, PTL DEF PanelSpec

\* No identifier is handed out twice across restarts, failed starts, exits and
\* crashes, for any number of processes short of 2^24, unless an exec died
\* inside publish() or before it published its generation (setup, next_id).
THEOREM IdsDistinct ==
    RestartAssumption /\ PanelsAssumption /\ GenerationsFit /\ PanelSpec
        => []IdsDistinctUnlessOrphaned
<1>1. PanelIInv /\ GenerationsFit => IdsDistinctUnlessOrphaned
  BY DEF PanelIInv, IdInv, IdsDistinctUnlessOrphaned
<1>2. GenerationsFit => GenerationsFit'
  BY DEF GenerationsFit
<1> QED BY <1>1, <1>2, PanelInvariance, PTL

\* setup() registers whole rows only, wherever core is in InstrumentTable::add
\* and wherever it dies.
THEOREM WholeRows ==
    RestartAssumption /\ PanelsAssumption /\ PanelSpec
        => []RegistersWholeRows
<1>1. PanelIInv => RegistersWholeRows
  BY DEF PanelIInv, RowInv
<1> QED BY <1>1, PanelInvariance, PTL

\* The dashboard never shows the difference of two processes' counters, unless
\* an exec died inside a store of exec_stats (TradingPanels::update).
THEOREM RatesSound ==
    RestartAssumption /\ PanelsAssumption /\ PanelSpec
        => []RatesNeverWrap
<1>1. PanelIInv => RatesNeverWrap
  BY DEF PanelIInv, RatesNeverWrap
<1> QED BY <1>1, PanelInvariance, PTL
=============================================================================
