-------------------------- MODULE OperationProofs --------------------------
(***************************************************************************)
(* Proofs about Operation, for any operations, plans, files found, bounds  *)
(* on history and on faults. Executors differ in what they do to files;    *)
(* for the stored record only five kinds of step count, which the lemma    *)
(* ExecutorSteps names: a save is begun, a save is finished, work is done, *)
(* storage is reclaimed, a record is pruned.                               *)
(***************************************************************************)
EXTENDS Operation, TLAPS, FiniteSetTheorems

(* Operations with one Store and a record nobody has removed.              *)
Retained == Ops \ (reloadedOver \cup pruned)

(* All who may still write the record of an operation no reload was made   *)
(* over use the active server's Store, and so the same mutex.              *)
OneStore ==
  \A o \in Ops \ reloadedOver :
    /\ Live(o) \/ pc[o] = "accepted" => store[o] = cur
    /\ cancel[o] # "idle" => cancelStore[o] = cur

Mutex ==
  \A o \in Ops : ~(pc[o] = "write" /\ cancel[o] = "write" /\ store[o] = cancelStore[o])

(* Operations that do not exist yet have left no trace.                    *)
Created ==
  \A o \in Ops :
    /\ ~Begun(o) => record[o] = NoRecord /\ phase[o] = "queued" /\ cancel[o] = "idle"
    /\ Begun(o) /\ o \notin pruned => record[o].phase # "none"

(* Between Save's check and its write the record still allows the write.   *)
(* It lags behind the executor only while a save has failed.               *)
Lags(o) == o \in unsaved /\ Precedes(record[o].phase, phase[o])

WritesAllowed ==
  \A o \in Retained :
    /\ pc[o] = "run" => record[o].phase = phase[o] \/ Terminal(record[o].phase) \/ Lags(o)
    /\ pc[o] = "write" =>
         record[o].phase = phase[o] \/ CanTransition(record[o].phase, phase[o]) \/ Lags(o)
    /\ cancel[o] = "write" => record[o].phase = "cancelled" \/ ~Terminal(record[o].phase)

Running == \A o \in Ops : pc[o] = "run" => ~Terminal(phase[o])

PruneTerminal ==
  \A x \in Ops : pc[x] = "drop" =>
    \A q \in todo[x] \cap Retained : Terminal(record[q].phase)

(* At start nobody else is there and the listed records are as they were;  *)
(* at a reload the stale copies are of operations it was made over.        *)
RecoveryOK ==
  /\ \A e \in recovery.todo : ~Terminal(e.phase) /\ Begun(e.op)
  /\ srv \in {"up", "swapped"} => recovery.todo = {}
  /\ srv = "reloading" => \A e \in recovery.todo : e.op \in reloadedOver
  /\ srv = "booting" =>
       /\ \A o \in Ops : pc[o] \in {"new", "done", "dead"} /\ cancel[o] = "idle"
       /\ \A e \in recovery.todo : e.phase = record[e.op].phase
       /\ \A o \in Ops \ unsaved : Unfinished(o) /\ ~record[o].interrupted
                       => [op |-> o, phase |-> record[o].phase] \in recovery.todo

SuccessEarned ==
  \A o \in Ops :
    /\ Live(o) /\ phase[o] \in {"reloading", "succeeded"} => o \in registered
    /\ Live(o) /\ phase[o] = "registering" /\ art[o] = 1 => o \in registered
    /\ record[o].phase = "succeeded" => o \in registered

IInv ==
  /\ TypeOK /\ OneStore /\ Mutex /\ Created /\ WritesAllowed /\ Running
  /\ PruneTerminal /\ RecoveryOK /\ SuccessEarned /\ UnfinishedIsLiveOrMarked

-----------------------------------------------------------------------------
(* The sequence of phases.                                                 *)

(* Every phase but the last has the one that follows it in happyPath.      *)
LEMMA PhaseAfterValues ==
  /\ PhaseAfter("queued") = "preflighting" /\ PhaseAfter("preflighting") = "resolving"
  /\ PhaseAfter("resolving") = "downloading" /\ PhaseAfter("downloading") = "verifying"
  /\ PhaseAfter("verifying") = "installing" /\ PhaseAfter("installing") = "registering"
  /\ PhaseAfter("registering") = "reloading" /\ PhaseAfter("reloading") = "succeeded"
<1>1. \A i \in 1..8 :
        /\ (happyPath[i] = "queued") <=> (i = 1)
        /\ (happyPath[i] = "preflighting") <=> (i = 2)
        /\ (happyPath[i] = "resolving") <=> (i = 3)
        /\ (happyPath[i] = "downloading") <=> (i = 4)
        /\ (happyPath[i] = "verifying") <=> (i = 5)
        /\ (happyPath[i] = "installing") <=> (i = 6)
        /\ (happyPath[i] = "registering") <=> (i = 7)
        /\ (happyPath[i] = "reloading") <=> (i = 8)
  BY DEF happyPath
<1> QED
  BY <1>1 DEF PhaseAfter, happyPath

(* The phases an executor passes through before the last.                  *)
LEMMA HappyValues ==
  Happy = {"queued", "preflighting", "resolving", "downloading", "verifying",
           "installing", "registering", "reloading", "succeeded"}
BY DEF Happy, happyPath

(* The phases, one by one.                                                 *)
LEMMA PhaseNames ==
  Phase = {"queued", "preflighting", "resolving", "downloading", "verifying", "installing",
           "registering", "reloading", "succeeded", "cancelled", "failed"}
BY HappyValues DEF Phase

(* An executor that is not at its end can take the next phase, or fail.    *)
LEMMA NextPhase ==
  ASSUME NEW p \in Phase, ~Terminal(p)
  PROVE  /\ PhaseAfter(p) \in Phase
         /\ CanTransition(p, PhaseAfter(p)) /\ CanTransition(p, "failed")
         /\ CanTransition(p, "cancelled")
         /\ PhaseAfter(p) = "succeeded" => p = "reloading"
         /\ PhaseAfter(p) = "reloading" => p = "registering"
BY PhaseAfterValues, HappyValues DEF Phase, Terminal, CanTransition

(* A phase that precedes another is not an end, and precedes what follows. *)
LEMMA Preceding ==
  ASSUME NEW p, NEW q, Precedes(p, q)
  PROVE  /\ p \in Phase /\ ~Terminal(p) /\ CanTransition(p, "failed")
         /\ CanTransition(p, "cancelled")
         /\ ~Terminal(q) => Precedes(p, PhaseAfter(q))
<1>1. PICK i \in 1..9, j \in 1..9 : i < j /\ happyPath[i] = p /\ happyPath[j] = q
  BY DEF Precedes
<1>2. p \in Phase /\ ~Terminal(p)
  <2>1. i \in {1, 2, 3, 4, 5, 6, 7, 8}
    BY <1>1
  <2> QED
    BY <1>1, <2>1, PhaseNames DEF happyPath, Terminal
<1>3. ASSUME ~Terminal(q) PROVE Precedes(p, PhaseAfter(q))
  <2>1. j \in {2, 3, 4, 5, 6, 7, 8}
    <3>1. j \in {2, 3, 4, 5, 6, 7, 8, 9}
      BY <1>1
    <3> QED
      BY <1>1, <1>3, <3>1 DEF happyPath, Terminal
  <2>2. PhaseAfter(q) = happyPath[j + 1]
    BY <1>1, <2>1, PhaseAfterValues DEF happyPath
  <2> QED
    BY <1>1, <2>1, <2>2 DEF Precedes
<1> QED
  BY <1>2, <1>3 DEF CanTransition

(* The phase after a phase comes after it.                                 *)
LEMMA StepPrecedes ==
  ASSUME NEW p, p \in Happy \ {"succeeded"}
  PROVE  Precedes(p, PhaseAfter(p))
<1>1. PICK i \in {1, 2, 3, 4, 5, 6, 7, 8} : happyPath[i] = p
  BY HappyValues DEF happyPath
<1>2. PhaseAfter(p) = happyPath[i + 1]
  BY <1>1, PhaseAfterValues DEF happyPath
<1> QED
  BY <1>1, <1>2 DEF Precedes

-----------------------------------------------------------------------------
(* Types.                                                                  *)

(* downloadOne, verify and install look at artifacts of the plan.          *)
LEMMA CurrentType ==
  ASSUME TypeOK, NEW o \in Ops, art[o] < Len(Artifacts[o])
  PROVE  Current(o) \in Destinations
BY ArtifactsAssumption DEF TypeOK, ExecOK, Current

(* An operation installs to known destinations.                            *)
LEMMA FilesOfType == ASSUME NEW o \in Ops PROVE FilesOf(o) \subseteq Destinations
BY ArtifactsAssumption DEF FilesOf

(* What downloadOne writes makes a file of a file.                         *)
LEMMA WrittenType ==
  ASSUME NEW x \in Files, NEW p \in Nat, NEW unit \in Units
  PROVE  Written(x, p, unit) \in Files
<1> DEFINE n == Longer(Length(x), p + 1)
           at(i) == IF i = p + 1 THEN unit ELSE IF i <= Length(x) THEN x.data[i] ELSE Hole
<1>1. /\ x.data \in Seq(Units \cup {Hole}) /\ Length(x) \in Nat /\ n \in Nat
      /\ Length(x) = Len(x.data)
  BY DEF Files, Length, Longer
<1>2. \A i \in 1..n : at(i) \in Units \cup {Hole}
  BY <1>1
<1> HIDE DEF n, at
<1>3. [i \in 1..n |-> at(i)] \in Seq(Units \cup {Hole})
  BY <1>1, <1>2
<1> QED
  BY <1>3 DEF Files, Written, n, at

(* A file has a length.                                                    *)
LEMMA LengthType == ASSUME NEW x \in Files PROVE Length(x) \in Nat
BY DEF Files, Length

(* An empty file, or none.                                                 *)
LEMMA EmptyType == NoFile \in Files /\ [NoFile EXCEPT !.there = TRUE] \in Files
<1>1. <<>> \in Seq(Units \cup {Hole})
  OBVIOUS
<1>2. NoFile \in Files
  BY <1>1 DEF Files, NoFile
<1> QED
  BY <1>2 DEF Files

(* A rename or a removal changes open files only in what they lead to.     *)
LEMMA FdTypes ==
  ASSUME TypeOK, NEW f
  PROVE  /\ FdsAfterRename(f) \in [Ops -> [to : {"none", "part", "dest", "gone"},
                                          append : BOOLEAN, pos : Nat]]
         /\ FdsAfterRemove(f) \in [Ops -> [to : {"none", "part", "dest", "gone"},
                                          append : BOOLEAN, pos : Nat]]
BY DEF TypeOK, ExecOK, FdsAfterRename, FdsAfterRemove

(* The initial state is well typed.                                        *)
LEMMA InitType == Init => TypeOK
<1> SUFFICES ASSUME Init PROVE TypeOK
  OBVIOUS
<1>1. DirOK
  BY DEF Init, DirOK, NoRecord
<1>2. ExecOK
  BY PhaseNames DEF Init, ExecOK, Closed
<1>3. TodoOK
  BY DEF Init, TodoOK
<1>4. FilesOK
  BY FoundAssumption DEF Init, FilesOK
<1>5. ServerOK
  <2>1. cancel \in [Ops -> {"idle", "loaded", "write"}] /\ cancelStore \in [Ops -> Nat]
    BY DEF Init
  <2>2. recovery \in [at : {"check", "write"}, todo : SUBSET [op : Ops, phase : Phase]]
    BY DEF Init
  <2>3. faults \in [AllFaultKinds -> Nat]
    BY DEF Init
  <2>4. /\ srv \in {"booting", "up", "reloading", "swapped"} /\ cur \in Nat \ {0}
        /\ stopped \subseteq Nat /\ reloadedOver \subseteq Ops
    BY DEF Init
  <2>5. exiting \in BOOLEAN
    BY DEF Init
  <2> QED
    BY <2>1, <2>2, <2>3, <2>4, <2>5 DEF ServerOK
<1> QED
  BY <1>1, <1>2, <1>3, <1>4, <1>5 DEF TypeOK

(* Where an executor may be.                                               *)
PCs == {"new", "accepted", "run", "write", "reclaim", "sweep", "drop", "done", "dead"}

(* Save is begun with a phase, as advance, saveProgress and terminate do.  *)
LEMMA SaveType ==
  ASSUME TypeOK, NEW o \in Ops, NEW p \in Phase, SaveAs(o, p), pc[o] = "run"
  PROVE  /\ phase' \in [Ops -> Phase]
         /\ pc' \in [Ops -> PCs]
         /\ pc'[o] \in {"write", "reclaim"}
         /\ \A q \in Ops \ {o} : pc'[q] = pc[q]
BY DEF TypeOK, ExecOK, SaveAs, PCs

(* Faults are counted.                                                     *)
LEMMA FaultType ==
  ASSUME TypeOK, NEW k, Fault(k)
  PROVE  faults' \in [AllFaultKinds -> Nat]
<1>1. k \in AllFaultKinds /\ faults[k] + 1 \in Nat
  BY BoundAssumption DEF Fault, TypeOK, ServerOK
<1>2. faults \in [AllFaultKinds -> Nat] /\ faults' = [faults EXCEPT ![k] = faults[k] + 1]
  BY DEF Fault, TypeOK, ServerOK
<1> QED
  BY <1>1, <1>2

(* A save writes a record.                                                 *)
LEMMA PutType ==
  ASSUME TypeOK, NEW o \in Ops, NEW p \in Phase, NEW i \in BOOLEAN, Put(o, p, i)
  PROVE  record' \in [Ops -> [phase : Phase \cup {"none"}, interrupted : BOOLEAN]]
BY DEF Put, TypeOK, DirOK

(* A save that goes through, or does not, leaves a record of its type.     *)
LEMMA SavesType ==
  ASSUME TypeOK, NEW o \in Ops, NEW p \in Phase, NEW i \in BOOLEAN, NEW S \in SUBSET Ops,
         Saves(o, p, i) \/ SaveFails(S)
  PROVE  /\ record' \in [Ops -> [phase : Phase \cup {"none"}, interrupted : BOOLEAN]]
         /\ unsaved' \subseteq Ops /\ faults' \in [AllFaultKinds -> Nat]
<1>1. CASE Saves(o, p, i)
  BY <1>1, PutType DEF Saves, TypeOK, DirOK, ServerOK
<1>2. CASE SaveFails(S)
  BY <1>2, FaultType DEF SaveFails, TypeOK, DirOK
<1> QED
  BY <1>1, <1>2

(* An executor's step keeps every variable in its type.                    *)
LEMMA ExecutorType ==
  ASSUME TypeOK, Running, NEW o \in Ops, ExecutorStep(o)
  PROVE  TypeOK'
<1> USE DEF TypeOK, dirVars, cancelVars, fileVars, srvVars, serverVars, faultVars
<1>1. /\ ServerOK' /\ record' \in [Ops -> [phase : Phase \cup {"none"}, interrupted : BOOLEAN]]
      /\ older' = older /\ pruned' \subseteq Ops /\ unsaved' \subseteq Ops
      /\ missed' \subseteq Destinations
  <2>1. CASE Write(o)
    <3>1. phase[o] \in Phase /\ {o} \in SUBSET Ops /\ FALSE \in BOOLEAN
      BY DEF ExecOK
    <3>2. Saves(o, phase[o], FALSE) \/ SaveFails({o})
      BY <2>1 DEF Write
    <3>3. /\ record' \in [Ops -> [phase : Phase \cup {"none"}, interrupted : BOOLEAN]]
          /\ unsaved' \subseteq Ops /\ faults' \in [AllFaultKinds -> Nat]
      BY <3>1, <3>2, SavesType
    <3>4. missed' \subseteq Destinations
      BY <2>1, FilesOfType DEF Write, FilesOK
    <3> QED
      BY <2>1, <3>3, <3>4 DEF Write, ServerOK, DirOK
  <2>2. CASE PruneRemove(o)
    <3>1. faults' \in [AllFaultKinds -> Nat]
      BY <2>2, FaultType DEF PruneRemove, ServerOK
    <3>2. /\ record' \in [Ops -> [phase : Phase \cup {"none"}, interrupted : BOOLEAN]]
          /\ pruned' \subseteq Ops
      <4>1. PICK q \in todo[o] :
              \/ record' = [record EXCEPT ![q] = NoRecord] /\ pruned' = pruned \cup {q}
              \/ UNCHANGED <<record, pruned>>
        BY <2>2 DEF PruneRemove
      <4>2. q \in Ops /\ NoRecord \in [phase : Phase \cup {"none"}, interrupted : BOOLEAN]
        BY <2>2 DEF PruneRemove, TodoOK, NoRecord
      <4> QED
        BY <4>1, <4>2 DEF DirOK
    <3> QED
      BY <2>2, <3>1, <3>2 DEF PruneRemove, ServerOK, DirOK, FilesOK
  <2>3. CASE CleanupRemove(o)
    <3>1. faults' \in [AllFaultKinds -> Nat]
      BY <2>3, FaultType DEF CleanupRemove, ServerOK
    <3>2. missed' \subseteq Destinations
      BY <2>3 DEF CleanupRemove, TodoOK, FilesOK
    <3> QED
      BY <2>3, <3>1, <3>2 DEF CleanupRemove, ServerOK, DirOK
  <2>4. CASE UNCHANGED srvVars /\ UNCHANGED cancelVars /\ UNCHANGED dirVars
    BY <2>4 DEF ServerOK, DirOK, FilesOK
  <2> QED
    BY <2>1, <2>2, <2>3, <2>4
    DEF ExecutorStep, advance, StepFails, DownloadAborted, SkipArtifact, StatPartial,
     OpenPartial, CopyUnit, CopyDone, verify, VerifyFails, install, InstallFails, Register,
     CleanupList, PruneList, RunReturns, Fail
<1>2. DirOK'
  BY <1>1 DEF DirOK
<1> USE <1>1 DEF PCs
<1>3. ExecOK' /\ TodoOK' /\ FilesOK'
  <2>1. CASE advance(o)
    <3>1. PhaseAfter(phase[o]) \in Phase
      BY <2>1, NextPhase DEF advance, ExecOK, Running
    <3>2. /\ phase' \in [Ops -> Phase] /\ pc' \in [Ops -> PCs] /\ pc'[o] \in {"write", "reclaim"}
          /\ \A q \in Ops \ {o} : pc'[q] = pc[q]
      BY <2>1, <3>1, SaveType DEF advance
    <3>3. art' = [art EXCEPT ![o] = 0] /\ UNCHANGED <<store, step, fd, todo, fileVars>> /\ pc[o] = "run"
      BY <2>1 DEF advance
    <3> QED
      BY <3>2, <3>3 DEF ExecOK, TodoOK, FilesOK
  <2>2. CASE Write(o)
    BY <2>2 DEF Write, ExecOK, TodoOK, FilesOK
  <2>3. CASE pc[o] = "run" /\ Fail(o)
    BY <2>3, SaveType, PhaseNames DEF Fail, Closed, ExecOK, TodoOK, FilesOK
  <2>4. CASE SkipArtifact(o)
    BY <2>4 DEF SkipArtifact, Downloading, ExecOK, TodoOK, FilesOK
  <2>5. CASE StatPartial(o)
    <3>1. Length(part[Current(o)]) \in Nat
      BY <2>5, CurrentType, LengthType DEF StatPartial, Downloading, FilesOK
    <3>2. fd' \in [Ops -> [to : {"none", "part", "dest", "gone"}, append : BOOLEAN, pos : Nat]]
      BY <2>5, <3>1 DEF StatPartial, ExecOK
    <3> QED
      BY <2>5, <3>2 DEF StatPartial, ExecOK, TodoOK, FilesOK
  <2>6. CASE OpenPartial(o)
    <3>1. PICK resuming \in BOOLEAN :
            /\ fd' = [fd EXCEPT ![o] = [to |-> "part", append |-> resuming,
                                       pos |-> IF resuming THEN @.pos ELSE 0]]
            /\ part' = [part EXCEPT ![Current(o)] =
                            IF resuming /\ @.there THEN @ ELSE [NoFile EXCEPT !.there = TRUE]]
      BY <2>6 DEF OpenPartial
    <3>2. part' \in [Destinations -> Files]
      BY <3>1, EmptyType DEF FilesOK
    <3>4. fd' \in [Ops -> [to : {"none", "part", "dest", "gone"}, append : BOOLEAN, pos : Nat]]
      BY <3>1 DEF ExecOK
    <3> QED
      BY <2>6, <3>2, <3>4 DEF OpenPartial, Downloading, ExecOK, TodoOK, FilesOK
  <2>7. CASE CopyUnit(o)
    <3> DEFINE unit == [of |-> Revision[o], at |-> fd[o].pos]
               place(x) == IF fd[o].append THEN Length(x) ELSE fd[o].pos
               grow(x) == Written(x, place(x), unit)
    <3>1. \A x \in Files : grow(x) \in Files
      <4>1. fd[o].pos \in Nat /\ unit \in Units
        BY PlanAssumption DEF ExecOK, Units
      <4>2. \A x \in Files : place(x) \in Nat
        BY <4>1, LengthType
      <4> QED
        BY <4>1, <4>2, WrittenType
    <3>2. /\ part' = part \/ part' = [part EXCEPT ![Current(o)] = grow(@)]
          /\ dest' = dest \/ dest' = [dest EXCEPT ![Current(o)] = grow(@)]
      BY <2>7 DEF CopyUnit
    <3> HIDE DEF grow
    <3>3. part' \in [Destinations -> Files] /\ dest' \in [Destinations -> Files]
      BY <3>1, <3>2 DEF FilesOK
    <3>4. fd' \in [Ops -> [to : {"none", "part", "dest", "gone"}, append : BOOLEAN, pos : Nat]]
      BY <2>7 DEF CopyUnit, ExecOK
    <3>5. /\ phase' \in [Ops -> Phase]
          /\ pc' \in [Ops -> PCs]
          /\ pc'[o] \in {"run", "write", "reclaim"}
          /\ \A q \in Ops \ {o} : pc'[q] = pc[q]
      BY <2>7, SaveType, PhaseNames DEF CopyUnit, Downloading, ExecOK
    <3> QED
      BY <2>7, <3>3, <3>4, <3>5 DEF CopyUnit, Downloading, ExecOK, TodoOK, FilesOK
  <2>8. CASE CopyDone(o)
    <3>1. /\ phase' \in [Ops -> Phase]
          /\ pc' \in [Ops -> PCs]
          /\ pc'[o] \in {"write", "reclaim"}
          /\ \A q \in Ops \ {o} : pc'[q] = pc[q]
      BY <2>8, SaveType, PhaseNames DEF CopyDone, Downloading
    <3>2. fd' \in [Ops -> [to : {"none", "part", "dest", "gone"}, append : BOOLEAN, pos : Nat]]
      BY <2>8 DEF CopyDone, Closed, ExecOK
    <3>3. /\ step' = [step EXCEPT ![o] = "stat"] /\ art' = [art EXCEPT ![o] = @ + 1]
          /\ UNCHANGED <<store, todo, part, dest, registered, clash, installed>>
      BY <2>8 DEF CopyDone
    <3>4. ExecOK'
      BY <3>1, <3>2, <3>3 DEF ExecOK
    <3> QED
      BY <2>8, <3>1, <3>3, <3>4 DEF CopyDone, Downloading, TodoOK, FilesOK
  <2>9. CASE verify(o)
    BY <2>9 DEF verify, ExecOK, TodoOK, FilesOK
  <2>10. CASE install(o)
    <3> DEFINE f == Current(o)
    <3>1. f \in Destinations
      BY <2>10, CurrentType DEF install
    <3> HIDE DEF f
    <3>2. \/ dest' = [dest EXCEPT ![f] = part[f]] /\ part' = [part EXCEPT ![f] = NoFile]
             /\ fd' = FdsAfterRename(f)
          \/ UNCHANGED <<dest, part, fd>>
      BY <2>10 DEF install, f
    <3>3. part' \in [Destinations -> Files] /\ dest' \in [Destinations -> Files]
      BY <3>1, <3>2, EmptyType DEF FilesOK
    <3>4. fd' \in [Ops -> [to : {"none", "part", "dest", "gone"}, append : BOOLEAN, pos : Nat]]
      BY <3>2, FdTypes DEF ExecOK
    <3>5. ExecOK'
      <4>1. art' = [art EXCEPT ![o] = @ + 1] /\ UNCHANGED <<pc, phase, store, step, todo>>
        BY <2>10 DEF install
      <4> QED
        BY <3>4, <4>1 DEF ExecOK
    <3>6. installed' \in [Destinations -> SUBSET Ops]
      <4>1. \/ installed' = [installed EXCEPT ![f] = {o}]
            \/ installed' = [installed EXCEPT ![f] = @ \cup {o}]
        BY <2>10 DEF install, f
      <4> QED
        BY <4>1, <3>1 DEF FilesOK
    <3> QED
      BY <2>10, <3>3, <3>5, <3>6 DEF install, TodoOK, FilesOK
  <2>11. CASE Register(o)
    BY <2>11 DEF Register, ExecOK, TodoOK, FilesOK
  <2>12. CASE CleanupList(o)
    <3>1. Abandoned \subseteq Destinations
      BY FilesOfType DEF Abandoned
    <3> QED
      BY <2>12, <3>1, PhaseNames DEF CleanupList, Closed, ExecOK, TodoOK, FilesOK
  <2>13. CASE CleanupRemove(o)
    <3>1. todo[o] \subseteq Destinations /\ pc[o] = "sweep" /\ pc' = pc
      BY <2>13 DEF CleanupRemove, TodoOK
    <3>2. PICK f \in todo[o] :
            \/ /\ part' = [part EXCEPT ![f] = NoFile] /\ fd' = FdsAfterRemove(f)
               /\ todo' = [todo EXCEPT ![o] = @ \ {f}]
               /\ clash' = clash \cup {g \in {f} : part[f].there /\ \E q \in Ops : Live(q) /\ f \in FilesOf(q)}
            \/ /\ \E rest \in {{}, todo[o] \ {f}} : todo' = [todo EXCEPT ![o] = rest]
               /\ UNCHANGED <<part, fd, clash>>
      BY <2>13 DEF CleanupRemove
    <3>3. part' \in [Destinations -> Files] /\ clash' \subseteq Destinations
      BY <3>1, <3>2, EmptyType DEF FilesOK
    <3>4. /\ todo' \in [Ops -> SUBSET (Ops \cup Destinations)] /\ todo'[o] \subseteq Destinations
          /\ \A q \in Ops \ {o} : todo'[q] = todo[q]
      BY <3>1, <3>2 DEF ExecOK
    <3>5. fd' \in [Ops -> [to : {"none", "part", "dest", "gone"}, append : BOOLEAN, pos : Nat]]
      BY <3>2, FdTypes DEF ExecOK
    <3>6. ExecOK'
      BY <2>13, <3>4, <3>5 DEF CleanupRemove, ExecOK
    <3>7. TodoOK'
      BY <3>1, <3>4 DEF TodoOK
    <3> QED
      BY <2>13, <3>3, <3>6, <3>7 DEF CleanupRemove, FilesOK
  <2>14. CASE PruneList(o)
    <3>1. Prunable \subseteq Ops
      BY DEF Prunable
    <3> QED
      BY <2>14, <3>1 DEF PruneList, ExecOK, TodoOK, FilesOK
  <2>15. CASE PruneRemove(o)
    <3>1. \E q \in todo[o] : todo' = [todo EXCEPT ![o] = @ \ {q}] \/ todo' = [todo EXCEPT ![o] = {}]
      BY <2>15 DEF PruneRemove
    <3>2. /\ todo' \in [Ops -> SUBSET (Ops \cup Destinations)] /\ todo'[o] \subseteq todo[o]
          /\ \A q \in Ops \ {o} : todo'[q] = todo[q]
      BY <3>1 DEF ExecOK
    <3> QED
      BY <2>15, <3>2 DEF PruneRemove, ExecOK, TodoOK, FilesOK
  <2>16. CASE RunReturns(o)
    BY <2>16 DEF RunReturns, ExecOK, TodoOK, FilesOK
  <2> QED
    BY <2>1, <2>2, <2>3, <2>4, <2>5, <2>6, <2>7, <2>8, <2>9, <2>10, <2>11, <2>12, <2>13,
       <2>14, <2>15, <2>16
    DEF ExecutorStep, StepFails, DownloadAborted, VerifyFails, InstallFails
<1> QED
  BY <1>1, <1>2, <1>3

(* So does a request's.                                                    *)
LEMMA HandlerType ==
  ASSUME TypeOK, NEW o \in Ops, HandlerStep(o)
  PROVE  TypeOK'
<1> USE DEF TypeOK, dirVars, execVars, cancelVars, fileVars, srvVars, serverVars, faultVars
<1>1. CASE Accept(o)
  <2>1. /\ pc' = [pc EXCEPT ![o] = "accepted"] /\ store' = [store EXCEPT ![o] = cur]
        /\ UNCHANGED <<phase, step, art, fd, todo>> /\ pc[o] = "new" /\ cur \in Nat
        /\ UNCHANGED <<dirVars, cancelVars, fileVars, srvVars>>
    BY <1>1 DEF Accept, ServerOK
  <2>2. ExecOK' /\ TodoOK'
    BY <2>1 DEF ExecOK, TodoOK
  <2> QED
    BY <2>1, <2>2 DEF DirOK, FilesOK, ServerOK
<1>2. CASE Create(o)
  <2>1. DirOK' /\ faults' \in [AllFaultKinds -> Nat]
    <3>1. \/ Put(o, "queued", FALSE) /\ UNCHANGED faults
             /\ older' = [older EXCEPT ![o] = {q \in Ops : Begun(q)}]
          \/ Fault("disk") /\ UNCHANGED <<record, older>>
      BY <1>2 DEF Create
    <3>2. UNCHANGED <<pruned, unsaved>>
      BY <1>2 DEF Create
    <3>3. record' \in [Ops -> [phase : Phase \cup {"none"}, interrupted : BOOLEAN]]
      <4>1. "queued" \in Phase /\ FALSE \in BOOLEAN
        BY PhaseNames
      <4>2. CASE Put(o, "queued", FALSE)
        BY <4>1, <4>2, PutType
      <4> QED
        BY <3>1, <4>2 DEF DirOK
    <3>4. older' \in [Ops -> SUBSET Ops]
      BY <3>1 DEF DirOK
    <3>5. faults' \in [AllFaultKinds -> Nat]
      BY <3>1, FaultType DEF ServerOK
    <3> QED
      BY <3>2, <3>3, <3>4, <3>5 DEF DirOK
  <2>2. ExecOK' /\ TodoOK'
    <3>1. /\ pc' = [pc EXCEPT ![o] = "run"] \/ pc' = [pc EXCEPT ![o] = "new"]
          /\ UNCHANGED <<phase, store, step, art, fd, todo>> /\ pc[o] = "accepted"
      BY <1>2 DEF Create
    <3>2. ExecOK'
      BY <3>1 DEF ExecOK
    <3> QED
      BY <3>1, <3>2 DEF TodoOK, ExecOK
  <2>3. FilesOK'
    BY <1>2, FilesOfType DEF Create, FilesOK
  <2>4. ServerOK'
    BY <1>2, <2>1 DEF Create, ServerOK
  <2> QED
    BY <2>1, <2>2, <2>3, <2>4
<1>3. CASE CancelLoad(o) \/ CancelSave(o) \/ CancelWrite(o)
  <2>1. DirOK' /\ faults' \in [AllFaultKinds -> Nat]
    <3>1. CASE CancelWrite(o)
      <4>1. "cancelled" \in Phase /\ FALSE \in BOOLEAN /\ {} \in SUBSET Ops
        BY PhaseNames
      <4>2. Saves(o, "cancelled", FALSE) \/ SaveFails({})
        BY <3>1 DEF CancelWrite
      <4>3. /\ record' \in [Ops -> [phase : Phase \cup {"none"}, interrupted : BOOLEAN]]
            /\ unsaved' \subseteq Ops /\ faults' \in [AllFaultKinds -> Nat]
        BY <4>1, <4>2, SavesType
      <4> QED
        BY <3>1, <4>3 DEF CancelWrite, DirOK
    <3> QED
      BY <1>3, <3>1, FaultType DEF CancelLoad, CancelSave, DirOK, ServerOK
  <2>2. ExecOK' /\ TodoOK' /\ FilesOK'
    BY <1>3 DEF CancelLoad, CancelSave, CancelWrite, ExecOK, TodoOK, FilesOK
  <2>4. cancel' \in [Ops -> {"idle", "loaded", "write"}] /\ cancelStore' \in [Ops -> Nat]
    BY <1>3 DEF CancelLoad, CancelSave, CancelWrite, ServerOK
  <2>5. UNCHANGED <<srv, cur, stopped, exiting, recovery, reloadedOver>>
    BY <1>3 DEF CancelLoad, CancelSave, CancelWrite
  <2>6. ServerOK'
    BY <2>1, <2>4, <2>5 DEF ServerOK
  <2> QED
    BY <2>1, <2>2, <2>6
<1> QED
  BY <1>1, <1>2, <1>3 DEF HandlerStep

(* What Recover lists are copies of unfinished records.                    *)
LEMMA StaleType == TypeOK => Stale \in SUBSET [op : Ops, phase : Phase]
BY DEF TypeOK, DirOK, Stale, Unfinished

(* And the server's.                                                       *)
LEMMA ServerType ==
  ASSUME TypeOK, ServerStep
  PROVE  TypeOK'
<1> USE DEF TypeOK, dirVars, execVars, cancelVars, fileVars, faultVars
<1>1. DirOK' /\ faults' \in [AllFaultKinds -> Nat]
  <2>1. CASE RecoverWrite
    <3>1. PICK e \in recovery.todo :
            Saves(e.op, e.phase, TRUE) \/ SaveFails({x.op : x \in recovery.todo})
      BY <2>1 DEF RecoverWrite
    <3>2. /\ e.op \in Ops /\ e.phase \in Phase /\ TRUE \in BOOLEAN
          /\ {x.op : x \in recovery.todo} \in SUBSET Ops
      BY DEF ServerOK
    <3>3. /\ record' \in [Ops -> [phase : Phase \cup {"none"}, interrupted : BOOLEAN]]
          /\ unsaved' \subseteq Ops /\ faults' \in [AllFaultKinds -> Nat]
      BY <3>1, <3>2, SavesType
    <3> QED
      BY <2>1, <3>3 DEF RecoverWrite, DirOK
  <2>2. CASE ~RecoverWrite
    <3>1. faults' \in [AllFaultKinds -> Nat]
      BY <2>2, FaultType DEF ServerStep, ReloadPass, RecoverCheck, Booted, ReloadAbandoned, Swap,
         OldShutdown, Exit, Crash, ServerOK
    <3> QED
      BY <2>2, <3>1 DEF ServerStep, ReloadPass, RecoverCheck, Booted, ReloadAbandoned, Swap,
         OldShutdown, Exit, Crash, DirOK
  <2> QED
    BY <2>1, <2>2
<1>2. FilesOK'
  BY DEF ServerStep, ReloadPass, RecoverCheck, RecoverWrite, Booted, ReloadAbandoned, Swap,
     OldShutdown, Exit, Crash, FilesOK
<1>3. CASE Crash
  <2>1. ExecOK'
    BY <1>3, PhaseNames DEF Crash, ExecOK, Closed
  <2>2. TodoOK'
    <3>1. /\ todo' = [o \in Ops |-> {}]
          /\ \A o \in Ops : pc'[o] \notin {"sweep", "drop"}
      BY <1>3 DEF Crash, ExecOK
    <3> QED
      BY <3>1 DEF TodoOK
  <2>4. recovery' \in [at : {"check", "write"}, todo : SUBSET [op : Ops, phase : Phase]]
    BY <1>3, StaleType DEF Crash
  <2>5. /\ cancel' \in [Ops -> {"idle", "loaded", "write"}] /\ cancelStore' \in [Ops -> Nat]
        /\ srv' \in {"booting", "up", "reloading", "swapped"} /\ cur' \in Nat \ {0}
        /\ stopped' \subseteq Nat /\ reloadedOver' \subseteq Ops
    BY <1>3 DEF Crash, ServerOK
  <2>6. exiting' \in BOOLEAN
    BY <1>3 DEF Crash
  <2>7. ServerOK'
    BY <1>1, <2>4, <2>5, <2>6 DEF ServerOK
  <2> QED
    BY <1>1, <1>2, <2>1, <2>2, <2>7
<1>4. CASE ~Crash
  <2>1. UNCHANGED <<execVars, cancelVars>>
    BY <1>4 DEF ServerStep, ReloadPass, RecoverCheck, RecoverWrite, Booted, ReloadAbandoned, Swap,
       OldShutdown, Exit
  <2>2. ExecOK' /\ TodoOK'
    BY <2>1 DEF ExecOK, TodoOK
  <2>4. recovery' \in [at : {"check", "write"}, todo : SUBSET [op : Ops, phase : Phase]]
    <3>1. CASE ReloadPass
      BY <3>1, StaleType DEF ReloadPass
    <3>2. CASE RecoverCheck
      BY <3>2 DEF RecoverCheck, ServerOK
    <3>3. CASE RecoverWrite
      <4>1. \E S \in SUBSET recovery.todo : recovery' = [at |-> "check", todo |-> S]
        BY <3>3 DEF RecoverWrite
      <4> QED
        BY <4>1 DEF ServerOK
    <3> QED
      BY <1>4, <3>1, <3>2, <3>3 DEF ServerStep, Booted, ReloadAbandoned, Swap, OldShutdown,
         Exit, ServerOK
  <2>5. /\ srv' \in {"booting", "up", "reloading", "swapped"} /\ cur' \in Nat \ {0}
        /\ stopped' \subseteq Nat /\ reloadedOver' \subseteq Ops
    <3>1. cur \in Nat \ {0} /\ stopped \subseteq Nat /\ reloadedOver \subseteq Ops
      BY DEF ServerOK
    <3>2. CASE Swap
      BY <3>1, <3>2 DEF Swap, UnderWay
    <3>3. CASE OldShutdown
      BY <3>1, <3>3 DEF OldShutdown
    <3>4. CASE Exit
      BY <3>1, <3>4 DEF Exit, ServerOK
    <3> QED
      BY <1>4, <3>2, <3>3, <3>4 DEF ServerStep, ReloadPass, RecoverCheck, RecoverWrite, Booted,
         ReloadAbandoned, UnderWay, ServerOK
  <2>6. exiting' \in BOOLEAN
    BY <1>4 DEF ServerStep, ReloadPass, RecoverCheck, RecoverWrite, Booted, ReloadAbandoned, Swap,
       OldShutdown, Exit, ServerOK
  <2>7. ServerOK'
    BY <1>1, <2>1, <2>4, <2>5, <2>6 DEF ServerOK
  <2> QED
    BY <1>1, <1>2, <2>2, <2>7
<1> QED
  BY <1>3, <1>4

-----------------------------------------------------------------------------
(* What an executor's step means to the stored record.                     *)

(* A save is begun; Save's check lets it pass, or the run ends. (Only the  *)
(* result of downloadOne's first saveProgress is not looked at.)           *)
SaveBegun(o) ==
  /\ pc[o] = "run" /\ ~Locked(store[o])
  /\ \E p \in Phase, at \in {"write", "reclaim", "run"} :
      /\ phase' = [phase EXCEPT ![o] = p] /\ pc' = [pc EXCEPT ![o] = at]
      /\ at = "write" <=> Passes(o, p)
      /\ p = phase[o] \/ CanTransition(phase[o], p)
      /\ at = "run" => p = phase[o] /\ p = "downloading"
      /\ p = "registering" => art'[o] = 0
      /\ p \in {"reloading", "succeeded"} => o \in registered
  /\ \A q \in Ops \ {o} : art'[q] = art[q]
  /\ UNCHANGED <<record, pruned, unsaved, registered, store, todo>>

(* Work of the phase is done, on files or on the config.                   *)
Work(o) ==
  /\ pc[o] = "run"
  /\ registered \subseteq registered'
  /\ phase[o] = "registering" => o \in registered'
  /\ phase[o] \notin {"reloading", "succeeded"}
  /\ \A q \in Ops \ {o} : art'[q] = art[q]
  /\ UNCHANGED <<record, pruned, unsaved, pc, phase, store, todo>>

(* Run has returned, storage is reclaimed.                                 *)
Reclaim(o) ==
  /\ pc[o] \in {"reclaim", "sweep", "drop"}
  /\ \E at \in {"sweep", "drop", "done"} : pc' = [pc EXCEPT ![o] = at]
  /\ pc'[o] = "drop" => todo'[o] \subseteq {q \in Ops : Terminal(record[q].phase)}
  /\ \A q \in Ops \ {o} :
      todo'[q] = todo[q] /\ phase'[q] = phase[q] /\ art'[q] = art[q]
  /\ UNCHANGED <<record, pruned, unsaved, registered, store>>

(* The removal of a pruned record.                                         *)
Dropped(o) ==
  /\ pc[o] = "drop"
  /\ \E q \in todo[o] :
      /\ record' = [record EXCEPT ![q] = NoRecord]
      /\ todo' = [todo EXCEPT ![o] = @ \ {q}]
      /\ pruned' = pruned \cup {q}
  /\ UNCHANGED <<pc, phase, store, art, registered, unsaved>>

(* These, the write of a save and the removal of a pruned record are all.  *)
LEMMA ExecutorSteps ==
  ASSUME TypeOK, Running, SuccessEarned, NEW o \in Ops, ExecutorStep(o)
  PROVE  /\ SaveBegun(o) \/ Work(o) \/ Write(o) \/ Reclaim(o) \/ Dropped(o)
         /\ older' = older /\ UNCHANGED cancelVars /\ UNCHANGED serverVars
<1> USE DEF dirVars, cancelVars, fileVars, srvVars, faultVars
<1>1. older' = older /\ UNCHANGED cancelVars /\ UNCHANGED serverVars
  BY DEF ExecutorStep, advance, Write, StepFails, DownloadAborted, SkipArtifact, StatPartial,
     OpenPartial, CopyUnit, CopyDone, verify, VerifyFails, install, InstallFails, Register,
     CleanupList, CleanupRemove, PruneList, PruneRemove, RunReturns, Fail
<1>2. ASSUME NEW p \in Phase, SaveAs(o, p), pc[o] = "run",
             p = phase[o] \/ CanTransition(phase[o], p),
             p = "registering" => art'[o] = 0,
             p \in {"reloading", "succeeded"} => o \in registered,
             \A q \in Ops \ {o} : art'[q] = art[q],
             UNCHANGED <<record, pruned, unsaved, registered, store, todo>>
      PROVE  SaveBegun(o)
  BY <1>2 DEF SaveAs, SaveBegun
<1>3. CASE advance(o)
  <2> DEFINE p == PhaseAfter(phase[o])
  <2>1. phase[o] \in Phase /\ ~Terminal(phase[o])
    BY <1>3 DEF advance, Running, TypeOK, ExecOK
  <2>2. /\ p \in Phase /\ CanTransition(phase[o], p)
        /\ p = "succeeded" => phase[o] = "reloading"
        /\ p = "reloading" => phase[o] = "registering"
    BY <2>1, NextPhase
  <2>3. p \in {"reloading", "succeeded"} => o \in registered
    BY <1>3, <2>2 DEF advance, WorkDone, SuccessEarned, Live
  <2>4. art'[o] = 0 /\ \A q \in Ops \ {o} : art'[q] = art[q]
    BY <1>3 DEF advance, TypeOK, ExecOK
  <2>5. SaveAs(o, p) /\ pc[o] = "run" /\ UNCHANGED <<record, pruned, unsaved, registered, store, todo>>
    BY <1>3 DEF advance
  <2> HIDE DEF p
  <2> QED
    BY <1>1, <1>2, <2>2, <2>3, <2>4, <2>5
<1>4. CASE pc[o] = "run" /\ Fail(o)
  <2>1. phase[o] \in Phase /\ ~Terminal(phase[o])
    BY <1>4 DEF Running, TypeOK, ExecOK
  <2>2. CanTransition(phase[o], "failed") /\ "failed" \in Phase
    BY <2>1, NextPhase DEF Phase
  <2> QED
    BY <1>1, <1>2, <1>4, <2>2 DEF Fail
<1>5. CASE SkipArtifact(o)
  <2>1. phase' = [phase EXCEPT ![o] = phase[o]] /\ phase[o] = "downloading" /\ phase[o] \in Phase
    BY <1>5 DEF SkipArtifact, Downloading, TypeOK, ExecOK
  <2>2. \A q \in Ops \ {o} : art'[q] = art[q]
    BY <1>5 DEF SkipArtifact, TypeOK, ExecOK
  <2> QED
    BY <1>1, <1>5, <2>1, <2>2 DEF SkipArtifact, Downloading, SaveBegun
<1>6. CASE CopyDone(o) \/ CopyUnit(o)
  <2>1. "downloading" \in Phase /\ phase[o] = "downloading" /\ pc[o] = "run"
    BY <1>6 DEF CopyDone, CopyUnit, Downloading, TypeOK, ExecOK
  <2>2. \A q \in Ops \ {o} : art'[q] = art[q]
    BY <1>6 DEF CopyDone, CopyUnit, TypeOK, ExecOK
  <2>3. /\ UNCHANGED <<record, pruned, unsaved, registered, store, todo>>
        /\ SaveAs(o, "downloading") \/ UNCHANGED <<pc, phase>>
    BY <1>6 DEF CopyDone, CopyUnit
  <2>4. CASE SaveAs(o, "downloading")
    BY <1>1, <1>2, <2>1, <2>2, <2>3, <2>4
  <2>5. CASE UNCHANGED <<pc, phase>>
    BY <1>1, <2>1, <2>2, <2>3, <2>5 DEF Work
  <2> QED
    BY <2>3, <2>4, <2>5
<1>7. CASE StatPartial(o) \/ OpenPartial(o) \/ verify(o) \/ install(o) \/ Register(o)
  <2>1. pc[o] = "run" /\ phase[o] \in {"downloading", "verifying", "installing", "registering"}
    BY <1>7 DEF StatPartial, OpenPartial, Downloading, verify, install, Register
  <2>2. \A q \in Ops \ {o} : art'[q] = art[q]
    BY <1>7 DEF StatPartial, OpenPartial, verify, install, Register, TypeOK, ExecOK
  <2>3. registered \subseteq registered' /\ (phase[o] = "registering" => o \in registered')
    BY <1>7 DEF StatPartial, OpenPartial, Downloading, verify, install, Register
  <2> QED
    BY <1>1, <1>7, <2>1, <2>2, <2>3
    DEF StatPartial, OpenPartial, verify, install, Register, Work
<1>8. CASE CleanupList(o) \/ CleanupRemove(o) \/ PruneList(o) \/ RunReturns(o)
  <2>1. CASE CleanupList(o)
    BY <2>1 DEF CleanupList, Reclaim, TypeOK, ExecOK
  <2>2. CASE CleanupRemove(o)
    <3>1. /\ pc[o] = "sweep" /\ pc' = [pc EXCEPT ![o] = "sweep"]
          /\ UNCHANGED <<record, pruned, unsaved, registered, store, phase, art>>
      BY <2>2 DEF CleanupRemove, TypeOK, ExecOK
    <3>2. \A q \in Ops \ {o} : todo'[q] = todo[q]
      BY <2>2 DEF CleanupRemove, TypeOK, ExecOK
    <3>3. pc'[o] = "sweep"
      BY <3>1 DEF TypeOK, ExecOK
    <3>4. \A q \in Ops \ {o} : todo'[q] = todo[q] /\ phase'[q] = phase[q] /\ art'[q] = art[q]
      BY <3>1, <3>2
    <3> QED
      BY <1>1, <3>1, <3>3, <3>4 DEF Reclaim
  <2>3. CASE PruneList(o)
    <3>1. Prunable \subseteq {q \in Ops : Terminal(record[q].phase)}
      BY DEF Prunable
    <3> QED
      BY <2>3, <3>1 DEF PruneList, Reclaim, TypeOK, ExecOK
  <2>4. CASE RunReturns(o)
    BY <2>4 DEF RunReturns, Reclaim, TypeOK, ExecOK
  <2> QED
    BY <1>1, <1>8, <2>1, <2>2, <2>3, <2>4
<1>9. CASE PruneRemove(o)
  <2>1. PICK q \in todo[o] :
          \/ /\ record' = [record EXCEPT ![q] = NoRecord]
             /\ todo' = [todo EXCEPT ![o] = @ \ {q}] /\ pruned' = pruned \cup {q}
          \/ todo' = [todo EXCEPT ![o] = {}] /\ UNCHANGED <<record, pruned>>
    BY <1>9 DEF PruneRemove
  <2>2. /\ pc[o] = "drop" /\ pc' = [pc EXCEPT ![o] = "drop"]
        /\ UNCHANGED <<phase, pc, store, art, registered, unsaved>>
    BY <1>9 DEF PruneRemove, TypeOK, ExecOK
  <2>3. CASE todo' = [todo EXCEPT ![o] = {}] /\ UNCHANGED <<record, pruned>>
    <3>1. todo'[o] = {} /\ \A x \in Ops \ {o} : todo'[x] = todo[x]
      BY <2>3 DEF TypeOK, ExecOK
    <3>2. \A x \in Ops \ {o} : todo'[x] = todo[x] /\ phase'[x] = phase[x] /\ art'[x] = art[x]
      BY <2>2, <3>1
    <3> QED
      BY <1>1, <2>2, <2>3, <3>1, <3>2 DEF Reclaim
  <2>4. CASE /\ record' = [record EXCEPT ![q] = NoRecord]
             /\ todo' = [todo EXCEPT ![o] = @ \ {q}] /\ pruned' = pruned \cup {q}
    BY <1>1, <2>1, <2>2, <2>4 DEF Dropped
  <2> QED
    BY <1>1, <2>1, <2>3, <2>4
<1>10. StepFails(o) \/ DownloadAborted(o) \/ VerifyFails(o) \/ InstallFails(o)
        => pc[o] = "run" /\ Fail(o)
  BY DEF StepFails, DownloadAborted, VerifyFails, InstallFails
<1> QED
  BY <1>1, <1>3, <1>4, <1>5, <1>6, <1>7, <1>8, <1>9, <1>10 DEF ExecutorStep

-----------------------------------------------------------------------------
(* The inductive invariant.                                                *)

(* It holds at first: there is no record, no executor, no server but one.  *)
LEMMA InitInvariant == Init => IInv
<1> SUFFICES ASSUME Init PROVE IInv
  OBVIOUS
<1>1. TypeOK
  BY InitType
<1>2. /\ \A o \in Ops : /\ pc[o] = "new" /\ record[o] = NoRecord /\ phase[o] = "queued"
                        /\ cancel[o] = "idle" /\ record[o].phase = "none"
      /\ srv = "up" /\ recovery.todo = {}
  BY DEF Init, NoRecord
<1>3. OneStore /\ Mutex /\ Created /\ Running /\ PruneTerminal
  BY <1>2 DEF OneStore, Mutex, Created, Begun, Running, PruneTerminal, Live
<1>4. WritesAllowed /\ RecoveryOK /\ SuccessEarned /\ UnfinishedIsLiveOrMarked
  BY <1>2 DEF WritesAllowed, Retained, RecoveryOK, SuccessEarned, UnfinishedIsLiveOrMarked,
     Live, Unfinished
<1> QED
  BY <1>1, <1>3, <1>4 DEF IInv

(* A save begun: the check either lets the record take the phase, under    *)
(* the mutex, or finds it terminal and the run ends.                       *)
LEMMA SaveBegunInvariant ==
  ASSUME IInv, TypeOK', NEW o \in Ops, SaveBegun(o), UNCHANGED <<cancelVars, serverVars>>
  PROVE  IInv'
<1> USE DEF IInv, cancelVars, serverVars
<1>1. PICK p \in Phase, at \in {"write", "reclaim", "run"} :
        /\ phase' = [phase EXCEPT ![o] = p] /\ pc' = [pc EXCEPT ![o] = at]
        /\ at = "write" <=> Passes(o, p)
        /\ p = phase[o] \/ CanTransition(phase[o], p)
        /\ at = "run" => p = phase[o] /\ p = "downloading"
        /\ p = "registering" => art'[o] = 0
        /\ p \in {"reloading", "succeeded"} => o \in registered
  BY DEF SaveBegun
<1>2. /\ pc[o] = "run" /\ ~Locked(store[o]) /\ UNCHANGED <<record, pruned, unsaved, registered, store, todo>>
      /\ \A q \in Ops \ {o} : art'[q] = art[q] /\ pc'[q] = pc[q] /\ phase'[q] = phase[q]
      /\ pc'[o] = at /\ phase'[o] = p
  BY <1>1 DEF SaveBegun, TypeOK, ExecOK
<1>3. OneStore'
  BY <1>1, <1>2 DEF OneStore, Live
<1>4. Mutex'
  BY <1>1, <1>2 DEF Mutex, Locked
<1>5. Created'
  BY <1>1, <1>2 DEF Created, Begun
<1>6. WritesAllowed'
  <2>1. ASSUME o \in Retained
        PROVE  /\ at = "run" => record[o].phase = p \/ Terminal(record[o].phase) \/ Lags(o)'
               /\ at = "write" => record[o].phase = p \/ CanTransition(record[o].phase, p) \/ Lags(o)'
    <3>1. CASE record[o].phase = phase[o] \/ Terminal(record[o].phase)
      BY <1>1, <1>2, <2>1, <3>1 DEF Passes
    <3>2. CASE Lags(o) /\ p = phase[o]
      BY <1>2, <3>2 DEF Lags
    <3>3. CASE Lags(o) /\ CanTransition(phase[o], p)
      <4>1. CASE p \in {"cancelled", "failed"}
        BY <1>1, <3>3, <4>1, Preceding DEF Lags, CanTransition, Terminal
      <4>2. CASE p = PhaseAfter(phase[o]) /\ ~Terminal(phase[o])
        BY <1>1, <1>2, <3>3, <4>2, Preceding DEF Lags
      <4> QED
        BY <3>3, <4>1, <4>2 DEF CanTransition
    <3> QED
      BY <1>1, <1>2, <2>1, <3>1, <3>2, <3>3 DEF WritesAllowed
  <2>2. Retained' = Retained /\ \A q \in Ops \ {o} : Lags(q)' = Lags(q)
    BY <1>2 DEF Retained, Lags
  <2> QED
    BY <1>1, <1>2, <2>1, <2>2 DEF WritesAllowed, Retained
<1>7. Running'
  BY <1>1, <1>2 DEF Running, Terminal
<1>8. PruneTerminal'
  BY <1>1, <1>2 DEF PruneTerminal, Retained
<1>9. RecoveryOK'
  BY <1>1, <1>2 DEF RecoveryOK, Begun, Unfinished, TypeOK, ServerOK
<1>10. SuccessEarned'
  BY <1>1, <1>2 DEF SuccessEarned, Live
<1>11. UnfinishedIsLiveOrMarked'
  BY <1>1, <1>2 DEF UnfinishedIsLiveOrMarked, Unfinished, Live, Passes, Terminal
<1> QED
  BY <1>3, <1>4, <1>5, <1>6, <1>7, <1>8, <1>9, <1>10, <1>11

(* Work leaves records alone; only Register makes later phases possible.   *)
LEMMA WorkInvariant ==
  ASSUME IInv, TypeOK', NEW o \in Ops, Work(o), UNCHANGED <<cancelVars, serverVars>>
  PROVE  IInv'
<1> USE DEF IInv, cancelVars, serverVars
<1>1. /\ pc[o] = "run" /\ UNCHANGED <<record, pruned, unsaved, pc, phase, store, todo>>
      /\ \A q \in Ops \ {o} : art'[q] = art[q]
      /\ registered \subseteq registered' /\ (phase[o] = "registering" => o \in registered')
      /\ phase[o] \notin {"reloading", "succeeded"}
  BY DEF Work
<1>2. OneStore' /\ Mutex' /\ Created' /\ Running' /\ PruneTerminal'
  BY <1>1 DEF OneStore, Mutex, Created, Begun, Running, PruneTerminal, Live, Retained
<1>3. WritesAllowed'
  BY <1>1 DEF WritesAllowed, Retained, Lags
<1>4. RecoveryOK'
  BY <1>1 DEF RecoveryOK, Begun, Unfinished
<1>5. SuccessEarned'
  BY <1>1 DEF SuccessEarned, Live
<1>6. UnfinishedIsLiveOrMarked'
  BY <1>1 DEF UnfinishedIsLiveOrMarked, Unfinished, Live
<1> QED
  BY <1>2, <1>3, <1>4, <1>5, <1>6

(* The write of a save: Mutex excludes the cancel handler in between.      *)
LEMMA WriteInvariant ==
  ASSUME IInv, TypeOK', NEW o \in Ops, Write(o)
  PROVE  IInv'
<1> USE DEF IInv, cancelVars, serverVars, fileVars
<1>1. /\ pc[o] = "write" /\ phase[o] \in Phase
      /\ pc'[o] = IF Terminal(phase[o]) THEN "reclaim" ELSE "run"
      /\ \A q \in Ops \ {o} :
          pc'[q] = pc[q] /\ record'[q] = record[q] /\ (q \in unsaved' <=> q \in unsaved)
      /\ UNCHANGED <<pruned, phase, store, step, art, todo, registered, cancelVars, serverVars>>
  BY DEF Write, Saves, SaveFails, Put, TypeOK, DirOK, ExecOK
<1>2. \/ record'[o].phase = phase[o] /\ o \notin unsaved'
      \/ record' = record /\ o \in unsaved'
  BY DEF Write, Saves, SaveFails, Put, TypeOK, DirOK
<1>3. OneStore' /\ Mutex'
  BY <1>1 DEF OneStore, Mutex, Live
<1>4. Created'
  BY <1>1, <1>2, PhaseNames DEF Created, Begun
<1>5. WritesAllowed'
  <2>1. o \in Retained => cancel[o] # "write"
    BY <1>1 DEF Retained, OneStore, Mutex, Live
  <2>2. Retained' = Retained /\ \A q \in Ops \ {o} : Lags(q)' = Lags(q)
    BY <1>1 DEF Retained, Lags
  <2>3. ASSUME o \in Retained, ~Terminal(phase[o])
        PROVE  \/ record'[o].phase = phase[o] \/ Terminal(record'[o].phase) \/ Lags(o)'
    <3>1. CASE record'[o].phase = phase[o]
      BY <3>1
    <3>2. CASE record' = record /\ o \in unsaved'
      <4>1. CASE CanTransition(record[o].phase, phase[o])
        <5>1. record[o].phase \in Happy \ {"succeeded"} /\ phase[o] = PhaseAfter(record[o].phase)
          BY <2>3, <4>1 DEF CanTransition, Terminal
        <5>2. Precedes(record[o].phase, phase[o])
          BY <5>1, StepPrecedes
        <5> QED
          BY <1>1, <3>2, <5>2 DEF Lags
      <4> QED
        BY <1>1, <2>3, <3>2, <4>1 DEF WritesAllowed, Lags
    <3> QED
      BY <1>2, <3>1, <3>2
  <2> QED
    BY <1>1, <2>1, <2>2, <2>3 DEF WritesAllowed, Retained
<1>6. Running'
  BY <1>1 DEF Running
<1>7. PruneTerminal'
  <2>1. o \in Retained /\ Terminal(record[o].phase) => Terminal(record'[o].phase)
    BY <1>1, <1>2, Preceding DEF WritesAllowed, CanTransition, Lags
  <2> QED
    BY <1>1, <2>1 DEF PruneTerminal, Retained
<1>8. RecoveryOK'
  BY <1>1 DEF RecoveryOK, Begun, Unfinished, TypeOK, ServerOK
<1>9. SuccessEarned'
  BY <1>1, <1>2 DEF SuccessEarned, Live
<1>10. UnfinishedIsLiveOrMarked'
  BY <1>1, <1>2 DEF UnfinishedIsLiveOrMarked, Unfinished, Live, Terminal
<1> QED
  BY <1>3, <1>4, <1>5, <1>6, <1>7, <1>8, <1>9, <1>10

(* Storage is reclaimed when the executor writes records no more.          *)
LEMMA ReclaimInvariant ==
  ASSUME IInv, TypeOK', NEW o \in Ops, Reclaim(o), UNCHANGED <<cancelVars, serverVars>>
  PROVE  IInv'
<1> USE DEF IInv, cancelVars, serverVars
<1>1. /\ pc[o] \in {"reclaim", "sweep", "drop"} /\ pc'[o] \in {"sweep", "drop", "done"}
      /\ pc'[o] = "drop" => todo'[o] \subseteq {q \in Ops : Terminal(record[q].phase)}
      /\ \A q \in Ops \ {o} :
          pc'[q] = pc[q] /\ todo'[q] = todo[q] /\ phase'[q] = phase[q] /\ art'[q] = art[q]
      /\ UNCHANGED <<record, pruned, unsaved, registered, store>>
  BY DEF Reclaim, TypeOK, ExecOK
<1>2. OneStore' /\ Mutex' /\ Created' /\ Running'
  BY <1>1 DEF OneStore, Mutex, Created, Begun, Running, Live
<1>3. WritesAllowed'
  BY <1>1 DEF WritesAllowed, Retained, Lags
<1>4. PruneTerminal'
  BY <1>1 DEF PruneTerminal, Retained
<1>5. RecoveryOK'
  BY <1>1 DEF RecoveryOK, Begun, Unfinished, TypeOK, ServerOK
<1>6. SuccessEarned'
  BY <1>1 DEF SuccessEarned, Live
<1>7. UnfinishedIsLiveOrMarked'
  BY <1>1 DEF UnfinishedIsLiveOrMarked, Unfinished, Live
<1> QED
  BY <1>2, <1>3, <1>4, <1>5, <1>6, <1>7

(* A pruned record is nobody's concern: the operation leaves Retained.     *)
LEMMA DroppedInvariant ==
  ASSUME IInv, TypeOK', NEW o \in Ops, Dropped(o), UNCHANGED <<cancelVars, serverVars>>
  PROVE  IInv'
<1> USE DEF IInv, cancelVars, serverVars, fileVars
<1>1. PICK x \in todo[o] :
        /\ record' = [record EXCEPT ![x] = NoRecord] /\ todo' = [todo EXCEPT ![o] = @ \ {x}]
        /\ pruned' = pruned \cup {x}
  BY DEF Dropped
<1>2. /\ pc[o] = "drop" /\ x \in Ops /\ record'[x] = NoRecord /\ record'[x].phase = "none"
      /\ \A q \in Ops \ {x} : record'[q] = record[q]
      /\ \A q \in Ops : todo'[q] \subseteq todo[q]
      /\ UNCHANGED <<pc, phase, store, art, registered, unsaved, cancelVars, serverVars>>
  BY <1>1 DEF Dropped, TypeOK, DirOK, ExecOK, TodoOK, NoRecord
<1>3. OneStore' /\ Mutex' /\ Running' /\ Created'
  BY <1>1, <1>2 DEF OneStore, Mutex, Created, Begun, Running, Live
<1>4. WritesAllowed'
  BY <1>1, <1>2 DEF WritesAllowed, Retained, Lags
<1>5. PruneTerminal'
  BY <1>1, <1>2 DEF PruneTerminal, Retained
<1>6. RecoveryOK'
  BY <1>2 DEF RecoveryOK, Begun, Unfinished, TypeOK, ServerOK
<1>7. SuccessEarned'
  BY <1>2 DEF SuccessEarned, Live
<1>8. UnfinishedIsLiveOrMarked'
  BY <1>2 DEF UnfinishedIsLiveOrMarked, Unfinished, Live
<1> QED
  BY <1>3, <1>4, <1>5, <1>6, <1>7, <1>8

(* All five kinds of step together.                                        *)
LEMMA ExecutorInvariant ==
  ASSUME IInv, NEW o \in Ops, ExecutorStep(o)
  PROVE  IInv'
<1>1. TypeOK'
  BY ExecutorType DEF IInv
<1>2. SaveBegun(o) \/ Work(o) \/ Write(o) \/ Reclaim(o) \/ Dropped(o)
  BY ExecutorSteps DEF IInv
<1>3. UNCHANGED cancelVars /\ UNCHANGED serverVars
  BY ExecutorSteps DEF IInv
<1> QED
  BY <1>1, <1>2, <1>3, SaveBegunInvariant, WorkInvariant, WriteInvariant, ReclaimInvariant,
     DroppedInvariant

(* Requests: a record is created before its executor; a cancellation holds *)
(* the Store from its check to its write.                                  *)
LEMMA HandlerInvariant ==
  ASSUME IInv, NEW o \in Ops, HandlerStep(o)
  PROVE  IInv'
<1> USE DEF IInv
<1>1. TypeOK'
  BY HandlerType
<1>2. CASE Accept(o) \/ (Create(o) /\ pc'[o] = "new")
  <2>1. /\ ~Begun(o) /\ pc'[o] \in {"new", "accepted"} /\ srv # "booting"
        /\ pc'[o] = "accepted" => store'[o] = cur
        /\ \A q \in Ops \ {o} : pc'[q] = pc[q] /\ store'[q] = store[q]
        /\ UNCHANGED <<record, pruned, unsaved, phase, art, todo, registered, cancelVars, serverVars>>
    <3>1. CASE Accept(o)
      BY <3>1 DEF Accept, Begun, TypeOK, ExecOK, dirVars, fileVars, srvVars, faultVars
    <3>2. CASE Create(o) /\ pc'[o] = "new"
      <4>1. srv # "booting"
        BY <3>2 DEF Create, RecoveryOK
      <4> QED
        BY <3>2, <4>1 DEF Create, Begun, TypeOK, ExecOK
    <3> QED
      BY <1>2, <3>1, <3>2
  <2>2. OneStore' /\ Mutex' /\ Created' /\ Running'
    BY <2>1 DEF OneStore, Mutex, Created, Begun, Running, Live, cancelVars, serverVars
  <2>3. WritesAllowed'
    BY <2>1 DEF WritesAllowed, Retained, Lags, Begun, cancelVars, serverVars
  <2>4. PruneTerminal'
    BY <2>1 DEF PruneTerminal, Retained, Begun, serverVars
  <2>5. RecoveryOK'
    BY <2>1 DEF RecoveryOK, Begun, Unfinished, TypeOK, ServerOK, serverVars
  <2>6. SuccessEarned' /\ UnfinishedIsLiveOrMarked'
    BY <2>1 DEF SuccessEarned, UnfinishedIsLiveOrMarked, Unfinished, Live, Begun, serverVars
  <2> QED
    BY <1>1, <2>2, <2>3, <2>4, <2>5, <2>6
<1>6. CASE Create(o) /\ pc'[o] # "new"
  <2>1. /\ pc[o] = "accepted" /\ pc'[o] = "run" /\ record'[o].phase = "queued"
        /\ \A q \in Ops \ {o} : pc'[q] = pc[q] /\ record'[q] = record[q]
        /\ UNCHANGED <<pruned, unsaved, phase, store, art, todo, registered, cancelVars, serverVars>>
    BY <1>6 DEF Create, Put, TypeOK, DirOK, ExecOK
  <2>2. phase[o] = "queued" /\ cancel[o] = "idle" /\ record[o].phase = "none" /\ srv # "booting"
    BY <2>1 DEF Created, Begun, NoRecord, RecoveryOK
  <2>3. OneStore' /\ Mutex' /\ Created' /\ Running'
    BY <2>1, <2>2 DEF OneStore, Mutex, Created, Begun, Running, Live, Terminal, cancelVars, serverVars
  <2>4. WritesAllowed'
    BY <2>1, <2>2 DEF WritesAllowed, Retained, Lags, cancelVars, serverVars
  <2>5. PruneTerminal'
    BY <2>1, <2>2 DEF PruneTerminal, Retained, Terminal, serverVars
  <2>6. RecoveryOK'
    BY <2>1, <2>2 DEF RecoveryOK, Begun, TypeOK, ServerOK, serverVars
  <2>7. SuccessEarned'
    BY <2>1, <2>2 DEF SuccessEarned, Live
  <2>8. UnfinishedIsLiveOrMarked'
    BY <2>1 DEF UnfinishedIsLiveOrMarked, Unfinished, Live, serverVars
  <2> QED
    BY <1>1, <2>3, <2>4, <2>5, <2>6, <2>7, <2>8
<1>3. CASE CancelLoad(o)
  <2>1. /\ cancel'[o] = "loaded" /\ cancelStore'[o] = cur /\ srv # "booting"
        /\ record[o].phase # "none"
        /\ \A q \in Ops \ {o} : cancel'[q] = cancel[q] /\ cancelStore'[q] = cancelStore[q]
        /\ UNCHANGED <<dirVars, unsaved, execVars, registered, srv, cur, recovery, reloadedOver>>
    BY <1>3 DEF CancelLoad, TypeOK, ServerOK, fileVars, serverVars
  <2>2. OneStore' /\ Mutex' /\ Created' /\ Running' /\ PruneTerminal'
    BY <2>1 DEF OneStore, Mutex, Created, Begun, Running, PruneTerminal, Live, Retained, NoRecord,
       dirVars, execVars
  <2>3. WritesAllowed' /\ SuccessEarned'
    BY <2>1 DEF WritesAllowed, SuccessEarned, Live, Retained, Lags, dirVars, execVars
  <2>4. RecoveryOK' /\ UnfinishedIsLiveOrMarked'
    BY <2>1 DEF RecoveryOK, Begun, UnfinishedIsLiveOrMarked, Unfinished, Live, TypeOK, ServerOK,
       dirVars, execVars
  <2> QED
    BY <1>1, <2>2, <2>3, <2>4
<1>4. CASE CancelSave(o)
  <2>1. /\ cancel[o] = "loaded" /\ ~Locked(cancelStore[o])
        /\ cancel'[o] = IF Passes(o, "cancelled") THEN "write" ELSE "idle"
        /\ \A q \in Ops \ {o} : cancel'[q] = cancel[q]
        /\ UNCHANGED <<cancelStore, dirVars, execVars, registered, srvVars>>
    BY <1>4 DEF CancelSave, TypeOK, ServerOK, fileVars
  <2>2. OneStore' /\ Mutex' /\ Created' /\ Running' /\ PruneTerminal'
    BY <2>1 DEF OneStore, Mutex, Created, Begun, Running, PruneTerminal, Live, Retained, Locked,
       dirVars, execVars, srvVars, serverVars, faultVars
  <2>3. WritesAllowed' /\ SuccessEarned'
    BY <2>1 DEF WritesAllowed, SuccessEarned, Live, Retained, Lags, Passes, dirVars, execVars, srvVars, serverVars, faultVars
  <2>4. RecoveryOK' /\ UnfinishedIsLiveOrMarked'
    BY <2>1 DEF RecoveryOK, Begun, UnfinishedIsLiveOrMarked, Unfinished, Live, TypeOK, ServerOK,
       dirVars, execVars, srvVars, serverVars, faultVars
  <2> QED
    BY <1>1, <2>2, <2>3, <2>4
<1>5. CASE CancelWrite(o)
  <2>1. /\ cancel[o] = "write" /\ cancel'[o] = "idle"
        /\ \A q \in Ops \ {o} :
            cancel'[q] = cancel[q] /\ record'[q] = record[q] /\ (q \in unsaved' <=> q \in unsaved)
        /\ UNCHANGED <<cancelStore, pruned, execVars, registered, serverVars>>
        /\ record'[o].phase = "cancelled" \/ UNCHANGED <<record, unsaved>>
    BY <1>5 DEF CancelWrite, Saves, SaveFails, Put, TypeOK, DirOK, ServerOK, fileVars
  <2>2. OneStore' /\ Mutex' /\ Created' /\ Running'
    BY <2>1 DEF OneStore, Mutex, Created, Begun, Running, Live, execVars, serverVars
  <2>3. o \in Retained => pc[o] # "write"
    BY <2>1 DEF Retained, OneStore, Mutex, Live
  <2>4. WritesAllowed'
    BY <2>1, <2>3 DEF WritesAllowed, Retained, Lags, Terminal, execVars, serverVars
  <2>5. PruneTerminal'
    BY <2>1 DEF PruneTerminal, Retained, Terminal, execVars, serverVars
  <2>6. RecoveryOK'
    BY <2>1 DEF RecoveryOK, Begun, TypeOK, ServerOK, execVars, serverVars
  <2>7. SuccessEarned' /\ UnfinishedIsLiveOrMarked'
    BY <2>1 DEF SuccessEarned, UnfinishedIsLiveOrMarked, Unfinished, Live, execVars, serverVars
  <2> QED
    BY <1>1, <2>2, <2>4, <2>5, <2>6, <2>7
<1> QED
  BY <1>2, <1>3, <1>4, <1>5, <1>6 DEF HandlerStep

(* A server's step that leaves records, executors and cancellations alone. *)
ServerOnly ==
  /\ UNCHANGED <<record, pruned, unsaved, pc, phase, store, art, todo, cancel, cancelStore, registered>>
  /\ reloadedOver \subseteq reloadedOver'
  /\ \A o \in Ops \ reloadedOver' : cur' = cur \/ (~Live(o) /\ pc[o] # "accepted" /\ cancel[o] = "idle")
  /\ \/ srv # "booting" \/ srv' = "booting"
     \/ \A o \in Ops \ unsaved : Unfinished(o) => record[o].interrupted

(* The server: recovery at a reload saves copies of operations the reload  *)
(* was made over; recovery at start is alone.                              *)
LEMMA ServerInvariant ==
  ASSUME IInv, ServerStep
  PROVE  IInv'
<1> USE DEF IInv, Begun, dirVars, execVars, cancelVars, fileVars, faultVars
<1>1. TypeOK'
  BY ServerType
<1>2. ASSUME ServerOnly
      PROVE  /\ OneStore' /\ Mutex' /\ Created' /\ WritesAllowed' /\ Running'
             /\ PruneTerminal' /\ SuccessEarned' /\ UnfinishedIsLiveOrMarked'
  <2> USE DEF ServerOnly
  <2>1. OneStore' /\ Mutex' /\ Created' /\ Running' /\ PruneTerminal'
    BY <1>2 DEF OneStore, Mutex, Created, Running, PruneTerminal, Live, Retained
  <2>2. WritesAllowed' /\ SuccessEarned'
    BY <1>2 DEF WritesAllowed, SuccessEarned, Live, Retained, Lags
  <2>3. UnfinishedIsLiveOrMarked'
    BY <1>2 DEF UnfinishedIsLiveOrMarked, Unfinished, Live
  <2> QED
    BY <2>1, <2>2, <2>3
<1>3. CASE ReloadPass
  <2>1. \A e \in Stale : ~Terminal(e.phase) /\ Begun(e.op) /\ e.op \in UnderWay
    BY DEF Stale, UnderWay, Unfinished, Terminal, Created, NoRecord
  <2>2. RecoveryOK'
    BY <1>3, <2>1 DEF ReloadPass, RecoveryOK
  <2>3. ServerOnly
    BY <1>3 DEF ReloadPass, ServerOnly
  <2> QED
    BY <1>1, <1>2, <2>2, <2>3
<1>4. CASE RecoverCheck
  <2>1. PICK e \in recovery.todo :
          recovery' = IF Passes(e.op, e.phase) THEN [recovery EXCEPT !.at = "write"]
                      ELSE [recovery EXCEPT !.todo = {}]
    BY <1>4 DEF RecoverCheck
  <2>2. recovery'.todo = recovery.todo \/ (recovery'.todo = {} /\ srv # "booting")
    <3>1. srv = "booting" => Passes(e.op, e.phase)
      BY DEF RecoveryOK, Passes
    <3> QED
      BY <2>1, <3>1 DEF TypeOK, ServerOK
  <2>3. RecoveryOK'
    BY <1>4, <2>2 DEF RecoverCheck, RecoveryOK, Unfinished
  <2>4. ServerOnly
    BY <1>4 DEF RecoverCheck, ServerOnly
  <2> QED
    BY <1>1, <1>2, <2>3, <2>4
<1>5. CASE RecoverWrite /\ ~UNCHANGED record
  <2>1. PICK e \in recovery.todo :
          /\ record' = [record EXCEPT ![e.op] = [phase |-> e.phase, interrupted |-> TRUE]]
          /\ recovery' = [at |-> "check", todo |-> recovery.todo \ {e}]
          /\ unsaved' = unsaved \ {e.op}
    BY <1>5 DEF RecoverWrite, Saves, SaveFails, Put
  <2>2. e.op \in Ops /\ e.phase \in Phase /\ ~Terminal(e.phase) /\ Begun(e.op)
    BY DEF RecoveryOK, TypeOK, ServerOK
  <2>3. /\ record'[e.op].phase = e.phase /\ record'[e.op].interrupted
        /\ \A q \in Ops \ {e.op} : record'[q] = record[q]
        /\ recovery'.todo = recovery.todo \ {e} /\ unsaved' = unsaved \ {e.op}
        /\ UNCHANGED <<pruned, srv, cur, reloadedOver>>
        /\ UNCHANGED execVars /\ UNCHANGED cancelVars /\ UNCHANGED fileVars
    BY <1>5, <2>1, <2>2 DEF RecoverWrite, TypeOK, DirOK
  <2>4. /\ srv = "booting" \/ srv = "reloading"
        /\ srv = "reloading" => e.op \in reloadedOver
        /\ srv = "booting" => e.phase = record[e.op].phase
        /\ srv = "booting" => \A o \in Ops : pc[o] \in {"new", "done", "dead"}
    BY DEF RecoveryOK, TypeOK, ServerOK
  <2>5. OneStore' /\ Mutex' /\ Running' /\ Created'
    BY <2>2, <2>3, PhaseNames DEF OneStore, Mutex, Created, Running, Live
  <2>6. WritesAllowed'
    BY <2>2, <2>3, <2>4 DEF WritesAllowed, Retained, Lags
  <2>7. PruneTerminal'
    BY <2>2, <2>3, <2>4 DEF PruneTerminal, Retained
  <2>8. SuccessEarned'
    BY <2>2, <2>3 DEF SuccessEarned, Live, Terminal
  <2>9. UnfinishedIsLiveOrMarked'
    BY <2>2, <2>3 DEF UnfinishedIsLiveOrMarked, Unfinished, Live
  <2>10. RecoveryOK'
    <3>1. \A x \in recovery'.todo : ~Terminal(x.phase) /\ Begun(x.op)'
      BY <2>3 DEF RecoveryOK
    <3>2. srv' = "reloading" => \A x \in recovery'.todo : x.op \in reloadedOver'
      BY <2>3 DEF RecoveryOK
    <3>3. ASSUME srv' = "booting"
          PROVE  /\ \A o \in Ops : pc'[o] \in {"new", "done", "dead"} /\ cancel'[o] = "idle"
                 /\ \A x \in recovery'.todo : x.phase = record'[x.op].phase
                 /\ \A o \in Ops \ unsaved' : Unfinished(o)' /\ ~record'[o].interrupted
                                 => [op |-> o, phase |-> record'[o].phase] \in recovery'.todo
      <4>1. /\ \A o \in Ops : pc[o] \in {"new", "done", "dead"} /\ cancel[o] = "idle"
            /\ \A x \in recovery.todo : x.phase = record[x.op].phase
            /\ \A o \in Ops \ unsaved : Unfinished(o) /\ ~record[o].interrupted
                            => [op |-> o, phase |-> record[o].phase] \in recovery.todo
        BY <2>3, <3>3 DEF RecoveryOK
      <4>2. \A x \in recovery'.todo : x.phase = record'[x.op].phase
        BY <2>2, <2>3, <2>4, <3>3, <4>1 DEF TypeOK, ServerOK
      <4>3. ASSUME NEW o \in Ops \ unsaved', Unfinished(o)', ~record'[o].interrupted
            PROVE  [op |-> o, phase |-> record'[o].phase] \in recovery'.todo
        <5>1. o # e.op /\ record'[o] = record[o] /\ o \in Ops \ unsaved
          BY <2>2, <2>3, <4>3
        <5>2. [op |-> o, phase |-> record[o].phase] \in recovery.todo
          BY <4>1, <4>3, <5>1 DEF Unfinished
        <5>3. [op |-> o, phase |-> record[o].phase] # e
          BY <5>1
        <5> QED
          BY <2>3, <5>1, <5>2, <5>3
      <4> QED
        BY <2>3, <4>1, <4>2, <4>3
    <3> QED
      BY <2>3, <2>4, <3>1, <3>2, <3>3 DEF RecoveryOK
  <2> QED
    BY <1>1, <2>5, <2>6, <2>7, <2>8, <2>9, <2>10
<1>12. CASE RecoverWrite /\ UNCHANGED record
  <2>1. PICK e \in recovery.todo :
          \/ /\ record' = [record EXCEPT ![e.op] = [phase |-> e.phase, interrupted |-> TRUE]]
             /\ recovery' = [at |-> "check", todo |-> recovery.todo \ {e}]
             /\ unsaved' = unsaved \ {e.op}
          \/ /\ unsaved' = unsaved \cup {x.op : x \in recovery.todo}
             /\ recovery' = [at |-> "check", todo |-> {}]
    BY <1>12 DEF RecoverWrite, Saves, SaveFails, Put
  <2>2. UNCHANGED <<record, pruned, srv, cur, reloadedOver, execVars, cancelVars, fileVars>>
    BY <1>12 DEF RecoverWrite
  <2>3. /\ e.op \in Ops /\ e.phase \in Phase /\ ~Terminal(e.phase)
        /\ srv = "booting" \/ srv = "reloading"
        /\ srv = "reloading" => e.op \in reloadedOver
        /\ srv = "booting" => \A o \in Ops : pc[o] \in {"new", "done", "dead"}
        /\ recovery'.todo \subseteq recovery.todo
    BY <2>1 DEF RecoveryOK, TypeOK, ServerOK
  <2>4. \A o \in unsaved \ unsaved' : record[o].interrupted /\ o = e.op
    <3>1. CASE /\ record' = [record EXCEPT ![e.op] = [phase |-> e.phase, interrupted |-> TRUE]]
               /\ unsaved' = unsaved \ {e.op}
      BY <2>2, <2>3, <3>1 DEF TypeOK, DirOK
    <3> QED
      BY <2>1, <3>1
  <2>5. OneStore' /\ Mutex' /\ Created' /\ Running' /\ PruneTerminal' /\ SuccessEarned'
    BY <2>2 DEF OneStore, Mutex, Created, Running, PruneTerminal, SuccessEarned, Live, Retained
  <2>6. WritesAllowed'
    BY <2>2, <2>3, <2>4 DEF WritesAllowed, Retained, Lags
  <2>7. UnfinishedIsLiveOrMarked'
    BY <2>2, <2>4 DEF UnfinishedIsLiveOrMarked, Unfinished, Live
  <2>8. RecoveryOK'
    <3>1. ASSUME srv = "booting", NEW o \in Ops \ unsaved', Unfinished(o), ~record[o].interrupted
          PROVE  [op |-> o, phase |-> record[o].phase] \in recovery'.todo
      <4>1. o \notin unsaved
        BY <2>4, <3>1
      <4>2. [op |-> o, phase |-> record[o].phase] \in recovery.todo
        BY <3>1, <4>1 DEF RecoveryOK
      <4>3. o \in {x.op : x \in recovery.todo}
        <5>1. [op |-> o, phase |-> record[o].phase].op = o
          OBVIOUS
        <5> QED
          BY <4>2, <5>1
      <4>4. /\ record'[e.op].interrupted
            /\ recovery'.todo = recovery.todo \ {e}
        <5>1. /\ record' = [record EXCEPT ![e.op] = [phase |-> e.phase, interrupted |-> TRUE]]
              /\ recovery' = [at |-> "check", todo |-> recovery.todo \ {e}]
          BY <2>1, <3>1, <4>3
        <5> QED
          BY <2>3, <5>1 DEF TypeOK, DirOK
      <4>5. [op |-> o, phase |-> record[o].phase] # e
        BY <2>2, <3>1, <4>4
      <4> QED
        BY <4>2, <4>4, <4>5
    <3>2. \A x \in recovery'.todo : ~Terminal(x.phase) /\ Begun(x.op)'
      BY <2>2, <2>3 DEF RecoveryOK
    <3>3. srv' = "reloading" => \A x \in recovery'.todo : x.op \in reloadedOver'
      BY <2>2, <2>3 DEF RecoveryOK
    <3>4. srv' = "booting" => /\ \A o \in Ops : pc'[o] \in {"new", "done", "dead"} /\ cancel'[o] = "idle"
                              /\ \A x \in recovery'.todo : x.phase = record'[x.op].phase
      BY <2>2, <2>3 DEF RecoveryOK
    <3>5. srv' \notin {"up", "swapped"}
      BY <2>2, <2>3
    <3> QED
      BY <2>2, <3>1, <3>2, <3>3, <3>4, <3>5 DEF RecoveryOK, Unfinished
  <2> QED
    BY <1>1, <2>5, <2>6, <2>7, <2>8
<1>6. CASE Booted
  <2>1. \A o \in Ops \ unsaved : Unfinished(o) => record[o].interrupted
    BY <1>6 DEF Booted, RecoveryOK
  <2>2. RecoveryOK'
    BY <1>6 DEF Booted, RecoveryOK
  <2>3. ServerOnly
    BY <1>6, <2>1 DEF Booted, ServerOnly
  <2> QED
    BY <1>1, <1>2, <2>2, <2>3
<1>7. CASE ReloadAbandoned
  <2>1. RecoveryOK'
    BY <1>7 DEF ReloadAbandoned, RecoveryOK
  <2>2. ServerOnly
    BY <1>7 DEF ReloadAbandoned, ServerOnly
  <2> QED
    BY <1>1, <1>2, <2>1, <2>2
<1>8. CASE Swap
  <2>1. RecoveryOK'
    BY <1>8 DEF Swap, RecoveryOK
  <2>2. ServerOnly
    BY <1>8 DEF Swap, ServerOnly, UnderWay
  <2> QED
    BY <1>1, <1>2, <2>1, <2>2
<1>9. CASE OldShutdown
  <2>1. RecoveryOK'
    BY <1>9 DEF OldShutdown, RecoveryOK
  <2>2. ServerOnly
    BY <1>9 DEF OldShutdown, ServerOnly
  <2> QED
    BY <1>1, <1>2, <2>1, <2>2
<1>10. CASE Exit
  <2>1. RecoveryOK'
    BY <1>10 DEF Exit, RecoveryOK, Unfinished
  <2>2. ServerOnly
    BY <1>10 DEF Exit, ServerOnly
  <2> QED
    BY <1>1, <1>2, <2>1, <2>2
<1>11. CASE Crash
  <2>1. /\ \A o \in Ops : /\ pc'[o] \in {"new", "done", "dead"}
                          /\ pc'[o] = "new" <=> ~Begun(o)
                          /\ cancel'[o] = "idle" /\ phase'[o] = "queued" /\ todo'[o] = {}
        /\ srv' = "booting" /\ recovery'.todo = Stale /\ unsaved' = {}
        /\ UNCHANGED <<record, pruned, registered>>
    BY <1>11 DEF Crash, Live, TypeOK, ExecOK
  <2>2. OneStore' /\ Mutex' /\ Running' /\ PruneTerminal' /\ Created'
    BY <2>1 DEF OneStore, Mutex, Running, PruneTerminal, Created, Live
  <2>3. WritesAllowed' /\ SuccessEarned' /\ UnfinishedIsLiveOrMarked'
    BY <2>1 DEF WritesAllowed, SuccessEarned, UnfinishedIsLiveOrMarked, Live, Retained
  <2>4. RecoveryOK'
    <3>1. \A e \in Stale : /\ ~Terminal(e.phase) /\ Begun(e.op) /\ e.op \in Ops
                           /\ e.phase = record[e.op].phase
      BY DEF Stale, Unfinished, Terminal, Created, NoRecord
    <3>2. \A o \in Ops : Unfinished(o) /\ ~record[o].interrupted
                       => [op |-> o, phase |-> record[o].phase] \in Stale
      BY DEF Stale
    <3> QED
      BY <2>1, <3>1, <3>2 DEF RecoveryOK, Unfinished
  <2> QED
    BY <1>1, <2>2, <2>3, <2>4
<1> QED
  BY <1>3, <1>4, <1>5, <1>6, <1>7, <1>8, <1>9, <1>10, <1>11, <1>12 DEF ServerStep

-----------------------------------------------------------------------------
(* Theorems.                                                               *)

(* The invariant is about the variables of the specification only.         *)
LEMMA StutterInvariant == IInv /\ UNCHANGED vars => IInv'
<1> SUFFICES ASSUME IInv, UNCHANGED vars PROVE IInv'
  OBVIOUS
<1> USE DEF vars, IInv, Begun, Lags
<1>1. TypeOK'
  BY DEF TypeOK, DirOK, ExecOK, TodoOK, FilesOK, ServerOK
<1>2. OneStore' /\ Mutex' /\ Created' /\ Running' /\ PruneTerminal'
  BY DEF OneStore, Mutex, Created, Running, PruneTerminal, Live, Retained
<1>3. WritesAllowed' /\ SuccessEarned'
  BY DEF WritesAllowed, SuccessEarned, Live, Retained
<1>4. RecoveryOK' /\ UnfinishedIsLiveOrMarked'
  BY DEF RecoveryOK, UnfinishedIsLiveOrMarked, Unfinished, Live
<1> QED
  BY <1>1, <1>2, <1>3, <1>4

(* Every reachable state satisfies the inductive invariant: executors,     *)
(* cancellations, reloads, crashes and recoveries in any order.            *)
THEOREM Invariance == Spec => []IInv
<1>1. IInv /\ [Next]_vars => IInv'
  BY ExecutorInvariant, HandlerInvariant, ServerInvariant, StutterInvariant DEF Next
<1> QED
  BY InitInvariant, <1>1, PTL DEF Spec

(* Every variable keeps its type; what a reclaiming executor is to remove  *)
(* are files while it cleans up and records while it prunes.               *)
THEOREM TypeCorrect == Spec => []TypeOK
BY Invariance, PTL DEF IInv

(* A record that is not terminal has an executor or carries the warning of *)
(* an interruption, however the process was reloaded, stopped or killed,   *)
(* unless its last save failed.                                            *)
THEOREM UnfinishedIsLiveOrMarkedHolds == Spec => []UnfinishedIsLiveOrMarked
BY Invariance, PTL DEF IInv

(* A record that says succeeded is that of a model that was written to the *)
(* config.                                                                 *)
THEOREM SucceededIsRegisteredHolds == Spec => []SucceededIsRegistered
<1>1. IInv => SucceededIsRegistered
  BY DEF IInv, SuccessEarned, SucceededIsRegistered
<1> QED
  BY Invariance, <1>1, PTL

(* The step RecordFollowsTheStateMachine allows.                           *)
Legal(o) ==
  record[o].phase \notin {"none", record'[o].phase}
  => \/ CanTransition(record[o].phase, record'[o].phase)
     \/ Terminal(record[o].phase) /\ record'[o].phase = "none"
     \/ o \in unsaved /\ Precedes(record[o].phase, record'[o].phase)

(* Five steps write a record: the executor's and the handler's under the   *)
(* mutex, the creation, the pruning of a terminal one, and recovery, which *)
(* at start saves what it has just read.                                   *)
LEMMA LegalSteps ==
  ASSUME IInv, Next, NEW o \in Retained
  PROVE  Legal(o)
<1> USE DEF IInv, dirVars
<1>1. o \in Ops
  BY DEF Retained
<1>2. CASE record'[o] = record[o]
  BY <1>2 DEF Legal
<1>3. ASSUME NEW q \in Ops, ExecutorStep(q), record'[o] # record[o]
      PROVE  Legal(o)
  <2>1. Write(q) \/ Dropped(q)
    BY <1>3, ExecutorSteps DEF SaveBegun, Work, Reclaim
  <2>2. CASE Write(q)
    <3>1. q = o /\ pc[o] = "write" /\ record'[o].phase = phase[o]
      BY <1>1, <1>3, <2>2 DEF Write, Saves, SaveFails, Put, TypeOK, DirOK
    <3> QED
      BY <3>1 DEF WritesAllowed, Lags, Legal
  <2>3. CASE Dropped(q)
    <3>1. PICK x \in todo[q] : record' = [record EXCEPT ![x] = NoRecord]
      BY <2>3 DEF Dropped
    <3>2. x = o /\ record'[o].phase = "none" /\ pc[q] = "drop"
      BY <1>1, <1>3, <2>3, <3>1 DEF Dropped, NoRecord, TypeOK, DirOK
    <3> QED
      BY <3>1, <3>2 DEF PruneTerminal, Legal
  <2> QED
    BY <2>1, <2>2, <2>3
<1>4. ASSUME NEW q \in Ops, HandlerStep(q), record'[o] # record[o]
      PROVE  Legal(o)
  <2>1. Create(q) \/ CancelWrite(q)
    BY <1>4 DEF HandlerStep, Accept, CancelLoad, CancelSave
  <2>2. CASE Create(q)
    <3>1. q = o /\ record[o].phase = "none"
      BY <1>1, <1>4, <2>2 DEF Create, Begun, Put, Created, NoRecord, TypeOK, DirOK
    <3> QED
      BY <3>1 DEF Legal
  <2>3. CASE CancelWrite(q)
    <3>1. q = o /\ cancel[o] = "write" /\ record'[o].phase = "cancelled"
      BY <1>1, <1>4, <2>3 DEF CancelWrite, Saves, SaveFails, Put, TypeOK, DirOK
    <3> QED
      BY <3>1 DEF WritesAllowed, CanTransition, Legal
  <2> QED
    BY <2>1, <2>2, <2>3
<1>5. ASSUME ServerStep, record'[o] # record[o]
      PROVE  Legal(o)
  <2>1. RecoverWrite
    BY <1>5 DEF ServerStep, ReloadPass, RecoverCheck, Booted, ReloadAbandoned, Swap, OldShutdown,
       Exit, Crash
  <2>2. PICK e \in recovery.todo :
          record' = [record EXCEPT ![e.op] = [phase |-> e.phase, interrupted |-> TRUE]]
    BY <1>5, <2>1 DEF RecoverWrite, Saves, SaveFails, Put
  <2>3. e.op = o /\ record'[o].phase = e.phase
    BY <1>1, <1>5, <2>2 DEF TypeOK, DirOK, ServerOK
  <2>4. srv = "booting" /\ e.phase = record[o].phase
    BY <2>2, <2>3 DEF RecoveryOK, Retained, TypeOK, ServerOK
  <2> QED
    BY <2>3, <2>4 DEF Legal
<1> QED
  BY <1>2, <1>3, <1>4, <1>5 DEF Next

(* Every change of a stored record is one transitions.go allows, or the    *)
(* removal of a terminal record, unless a reload was made over the         *)
(* operation or its record has been pruned; after a failed save it may     *)
(* skip phases, never go back.                                             *)
THEOREM RecordFollowsTheStateMachineHolds == Spec => RecordFollowsTheStateMachine
<1>1. IInv /\ [Next]_vars
        => [\A o \in Ops \ (reloadedOver \cup pruned) :
             record[o].phase \notin {"none", record'[o].phase}
             => \/ CanTransition(record[o].phase, record'[o].phase)
                \/ Terminal(record[o].phase) /\ record'[o].phase = "none"
                \/ o \in unsaved /\ Precedes(record[o].phase, record'[o].phase)]_vars
  BY LegalSteps DEF Legal, Retained
<1> QED
  BY Invariance, <1>1, PTL DEF Spec, RecordFollowsTheStateMachine
=============================================================================
