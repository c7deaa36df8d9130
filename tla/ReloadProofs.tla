----------------------------- MODULE ReloadProofs -----------------------------
(***************************************************************************)
(* Proofs about Reload.tla: its type invariant, the safety properties the  *)
(* run checks, and that the runner, with whatever else goes on, takes only *)
(* steps of PassPerTrigger. The inductive invariant is IInv.               *)
(***************************************************************************)
EXTENDS Reload, TLAPS

HandlerStates ==
    {"new", "lock", "open", "write", "rename", "stage", "call", "flag", "acked", "unchanged", "failed"}

(* The flag, its leader, and the leader's place in reloadPass. *)
RunnerInv ==
    /\ running <=> \E c \in Callers : Leading(c)
    /\ PassesNeverOverlap
    /\ dirty => running
    /\ \A c \in Callers : step[c] # "none" <=> at[c] = "pass"

(* What a pass that has built a Server works with. *)
PassInv ==
    /\ lastGood = served
    /\ \A c \in Callers : step[c] \in {"archive", "swap"} =>
           raw[c] \in Contents /\ Loads(raw[c])

(* What a handler in the middle of a write holds. *)
CopyInv ==
    \A h \in Handlers : hs[h] \in {"open", "write"} => copy[h] \in Contents

(* Whose turn it is. *)
MutexInv ==
    /\ \A h \in Handlers : hs[h] = "new" => job[h] = "reload"
    /\ \A h \in Handlers : hs[h] \in {"open", "write"} => job[h] \in Edits \cup {"rollback"}
    /\ \A h \in Handlers : hs[h] = "rename" => job[h] \in Edits
    /\ \A g, h \in Handlers : InSection(g) /\ InSection(h) /\ srv[g] = srv[h] => g = h

(* A trigger has been called, or a call is on its way to one, that no pass *)
(* has answered by reading the file.                                       *)
WillRead ==
    \/ unannounced
    \/ \E h \in Handlers : hs[h] \in {"stage", "call"} \/ (hs[h] = "write" /\ job[h] = "rollback")
    \/ dirty
    \/ \E c \in Callers : at[c] \in {"enter", "begin"} \/ step[c] = "build"

(* The file is in use, or refused, unless it will be read. *)
CoveredInv ==
    \/ WillRead
    \/ buildFailed
    \/ Loads(file) /\ \E c \in Callers : step[c] \in {"archive", "swap"} /\ raw[c] = file
    \/ /\ \A c \in Callers : step[c] \notin {"archive", "swap"}
       /\ IF Loads(file) THEN served = file ELSE ~valid

(* What is staged is for a file that is yet to be read, or was refused. *)
AttributionInv ==
    \/ WillRead
    \/ buildFailed
    \/ pending = Nobody
    \/ ~Loads(file)
    \/ \E c \in Callers : step[c] = "archive"

ArchiveInv ==
    /\ \A c \in Callers : step[c] = "swap" /\ Keep[raw[c]] > 0 =>
           served \in Archived \cup unarchived \cup {Empty}
    /\ (\A c \in Callers : step[c] # "swap") /\ Keep[served] > 0 =>
           replaced \in Archived \cup unarchived \cup {Empty}

(* While the calls are those of one Server, edits only accumulate. *)
OneServer == \A g, h \in Handlers : hs[g] # "new" /\ hs[h] # "new" => srv[g] = srv[h]
EditInv ==
    OneServer /\ ~Overwritten =>
        /\ file \in Configs
        /\ \A h \in Handlers :
            /\ job[h] \in Edits /\ hs[h] \in {"stage", "call", "acked"} => job[h] \in file.edits
            /\ hs[h] \in {"open", "write"} => copy[h] \in Configs /\ file.edits \cup {job[h]} \subseteq copy[h].edits
            /\ hs[h] = "write" => fd[h] = "tmp" /\ tmp = Empty
            /\ hs[h] = "rename" => tmp \in Configs /\ file.edits \cup {job[h]} \subseteq tmp.edits

IInv ==
    /\ TypeOK
    /\ RunnerInv
    /\ PassInv
    /\ CopyInv
    /\ MutexInv
    /\ CoveredInv
    /\ AttributionInv
    /\ ArchiveInv
    /\ EditInv
-----------------------------------------------------------------------------
(* The initial state. *)
LEMMA InitIInv == Init => IInv
<1> SUFFICES ASSUME Init PROVE IInv
  OBVIOUS
<1> USE DEF Init, RunnerInit
<1>1. file \in Configs /\ file \in Contents /\ Empty \in Contents
  BY DEF Contents, Configs, Empty
<1>2. TypeOK
  <2>1. /\ at \in [Callers -> {"idle", "enter", "begin", "pass", "check"}]
        /\ step \in [Callers -> {"none", "build", "archive", "swap", "retire"}]
        /\ raw \in [Callers -> Contents \cup {Missing}]
    OBVIOUS
  <2>2. /\ hs \in [Handlers -> HandlerStates]
        /\ job \in [Handlers -> Edits \cup {"rollback", "reload"}]
        /\ srv \in [Handlers -> Nat]
        /\ copy \in [Handlers -> Contents \cup {Missing}]
        /\ fd \in [Handlers -> {"tmp", "file", "gone"}]
    BY DEF HandlerStates
  <2>3. history \in Seq(Contents) /\ unarchived \subseteq Contents
    OBVIOUS
  <2>4. /\ running \in BOOLEAN /\ dirty \in BOOLEAN /\ valid \in BOOLEAN
        /\ buildFailed \in BOOLEAN /\ unannounced \in BOOLEAN
    BY Zenon
  <2>5. /\ lastGood \in Contents /\ served \in Contents /\ replaced \in Contents
        /\ pending \in Handlers \cup {Nobody} /\ prev \in {"same", "older", "none"}
        /\ active \in Nat /\ handEdits \in Nat /\ faults \in Nat
        /\ tmp \in Contents \cup {Missing}
    BY <1>1
  <2> QED
    BY <1>1, <2>1, <2>2, <2>3, <2>4, <2>5 DEF TypeOK, HandlerStates
<1>3. RunnerInv /\ PassInv
  BY DEF RunnerInv, PassInv, PassesNeverOverlap, Leading
<1>4. CopyInv /\ MutexInv
  BY DEF CopyInv, MutexInv, InSection
<1>5. Loads(file)
  <2>1. file \notin {Garbled, Missing}
    BY <1>1, ContentsAssumption DEF Contents
  <2>2. file.edits \cap BadEdits = {}
    OBVIOUS
  <2> QED
    BY <2>1, <2>2 DEF Loads, Parses
<1>6. CoveredInv /\ AttributionInv
  BY <1>5 DEF CoveredInv, AttributionInv
<1>7. ArchiveInv
  BY DEF ArchiveInv
<1>8. EditInv
  BY <1>1, EditsAssumption DEF EditInv
<1> QED
  BY <1>2, <1>3, <1>4, <1>6, <1>7, <1>8 DEF IInv
-----------------------------------------------------------------------------
(* Which parts of the state a step is about. *)

(* A step that is none of the runner's, of a pass's or of a Server's.      *)
Outside == UNCHANGED <<runnerVars, passLocals, serverVars>>

(* A handler's step is outside the passes unless it is the trigger.        *)
LEMMA HandlersAreOutside ==
    ASSUME NEW h \in Handlers, Handle(h), ~TriggerReload(h)
    PROVE  Outside
<1>1. CASE WriteOut(h)
  BY <1>1 DEF WriteOut, Outside
<1>2. CASE ~WriteOut(h)
  BY <1>2 DEF Handle, Arrive, ReadRoot, FindSnapshot, OpenFile, Rename, Stage, CheckFile, Flag, NoPass, Outside
<1> QED
  BY <1>1, <1>2

(* A trigger puts a goroutine on its way to the lock.                      *)
LEMMA TriggersEnter ==
    ASSUME IInv, NEW h \in Handlers, TriggerReload(h)
    PROVE  h \in Callers /\ Call(h) /\ UNCHANGED <<passLocals, serverVars>>
<1>1. ReloadFnSet(srv[h])
  BY DEF IInv, TypeOK, ReloadFnSet
<1> QED
  BY <1>1, CallersAssumption DEF TriggerReload

(* The ways a step can touch the runner.                                   *)
LEMMA StepKinds ==
    ASSUME IInv, [Next]_vars
    PROVE  \/ Outside
           \/ \E c \in Callers : Call(c) /\ UNCHANGED <<passLocals, serverVars>>
           \/ \E c \in Callers : Pass(c)
<1>1. CASE HandEdit \/ WatcherSeesNoFile
  BY <1>1 DEF HandEdit, WatcherSeesNoFile, Outside
<1>2. CASE WatcherFires
  BY <1>2, CallersAssumption DEF WatcherFires
<1>3. CASE \E h \in Handlers : Handle(h)
  BY <1>3, HandlersAreOutside, TriggersEnter
<1>4. CASE \E c \in Callers : Pass(c)
  BY <1>4
<1>5. CASE UNCHANGED vars
  BY <1>5 DEF vars, Outside
<1> QED
  BY <1>1, <1>2, <1>3, <1>4, <1>5 DEF Next
-----------------------------------------------------------------------------
(* The runner and the passes. *)

(* One leader, who alone is in reloadPass; a mark has a leader to see it.  *)
LEMMA RunnerStep ==
    ASSUME IInv, [Next]_vars
    PROVE  RunnerInv'
<1> USE DEF Leading, PassesNeverOverlap
<1>1. TypeOK /\ RunnerInv
  BY DEF IInv
<1>a. at \in [Callers -> {"idle", "enter", "begin", "pass", "check"}]
      /\ step \in [Callers -> {"none", "build", "archive", "swap", "retire"}]
  BY <1>1 DEF TypeOK
<1>2. CASE Outside
  BY <1>1, <1>2 DEF Outside, runnerVars, passLocals, RunnerInv
<1>3. ASSUME NEW c \in Callers, Call(c), UNCHANGED <<passLocals, serverVars>>
      PROVE  RunnerInv'
  BY <1>1, <1>a, <1>3 DEF Call, Moves, passLocals, RunnerInv
<1>4. ASSUME NEW c \in Callers, Pass(c)
      PROVE  RunnerInv'
  <2>1. CASE Trigger(c)
    <3>0. UNCHANGED step
      BY <2>1 DEF Trigger, passLocals
    <3>1. CASE Join(c)
      BY <1>1, <1>a, <3>0, <3>1 DEF Join, Moves, RunnerInv
    <3>2. CASE Lead(c)
      BY <1>1, <1>a, <3>0, <3>2 DEF Lead, Moves, RunnerInv
    <3>3. CASE Again(c)
      BY <1>1, <1>a, <3>0, <3>3 DEF Again, Moves, RunnerInv
    <3>4. CASE Finish(c)
      BY <1>1, <1>a, <3>0, <3>4 DEF Finish, Moves, RunnerInv
    <3> QED
      BY <2>1, <3>1, <3>2, <3>3, <3>4 DEF Trigger
  <2>2. CASE BeginPass(c)
    <3>1. CASE Reloading
      BY <1>1, <1>a, <2>2, <3>1 DEF BeginPass, Moves, Reloading, RunnerInv
    <3>2. CASE ~Reloading
      BY <1>1, <1>a, <2>2, <3>2 DEF BeginPass, Begin, Steps, Moves, RunnerInv
    <3> QED
      BY <3>1, <3>2
  <2>3. ASSUME NEW from \in {"build", "retire"}, Ends(c, from)
        PROVE  RunnerInv'
    BY <1>1, <1>a, <2>3 DEF Ends, Return, Steps, Moves, RunnerInv
  <2>4. ASSUME NEW from \in {"build", "archive", "swap"}, NEW to \in {"archive", "swap", "retire"},
               Steps(c, from, to), UNCHANGED runnerVars
        PROVE  RunnerInv'
    BY <1>1, <1>a, <2>4 DEF Steps, runnerVars, RunnerInv
  <2>5. CASE BuildServer(c)
    BY <2>3, <2>4, <2>5 DEF BuildServer
  <2>6. CASE ArchiveOld(c) \/ SwapServer(c) \/ RetireServer(c)
    BY <2>3, <2>4, <2>6 DEF ArchiveOld, SwapServer, RetireServer
  <2> QED
    BY <1>4, <2>1, <2>2, <2>5, <2>6 DEF Pass
<1> QED
  BY <1>2, <1>3, <1>4, StepKinds

(* What a pass sees: what it has read can be loaded.                       *)
LEMMA PassStep ==
    ASSUME IInv, [Next]_vars
    PROVE  PassInv'
<1>1. TypeOK /\ RunnerInv /\ PassInv
  BY DEF IInv
<1>a. /\ at \in [Callers -> {"idle", "enter", "begin", "pass", "check"}]
      /\ step \in [Callers -> {"none", "build", "archive", "swap", "retire"}]
      /\ raw \in [Callers -> Contents \cup {Missing}]
      /\ file \in Contents \cup {Missing} /\ active \in Nat
  BY <1>1 DEF TypeOK
<1>b. \A c, d \in Callers : step[c] # "none" /\ step[d] # "none" => c = d
  BY <1>1 DEF RunnerInv, PassesNeverOverlap, Leading
<1>2. ASSUME UNCHANGED lastGood, UNCHANGED <<passLocals, serverVars>>
      PROVE  PassInv'
  BY <1>1, <1>2 DEF passLocals, serverVars, PassInv, Loads, Parses
<1>3. ASSUME NEW c \in Callers, Pass(c)
      PROVE  PassInv'
  <2>1. CASE Trigger(c)
    BY <1>2, <2>1 DEF Trigger, stateVars
  <2>2. CASE BeginPass(c)
    <3>1. CASE Reloading
      BY <1>2, <2>2, <3>1 DEF BeginPass, stateVars, passLocals
    <3>2. CASE ~Reloading
      <4>1. \A d \in Callers : step[d] = "none"
        BY <3>2, <1>a DEF Reloading
      <4>2. step' = [step EXCEPT ![c] = "build"] /\ UNCHANGED <<lastGood, raw, serverVars>>
        BY <2>2, <3>2 DEF BeginPass, Steps, stateVars
      <4> QED
        BY <1>1, <1>a, <4>1, <4>2 DEF PassInv, serverVars
    <3> QED
      BY <3>1, <3>2
  <2>3. CASE BuildServer(c)
    <3>0. step[c] = "build" /\ (\A d \in Callers \ {c} : step[d] = "none")
      <4>1. step[c] = "build"
        BY <2>3 DEF BuildServer, Ends, Steps
      <4> QED
        BY <4>1, <1>1, <1>b DEF PassInv
    <3>1. CASE Ends(c, "build")
      BY <1>1, <1>a, <2>3, <3>0, <3>1 DEF BuildServer, Ends, Steps, PassInv
    <3>2. CASE Loads(file) /\ raw' = [raw EXCEPT ![c] = file] /\ Steps(c, "build", "archive")
      <4>1. file \in Contents
        BY <1>a, <3>2 DEF Loads, Parses
      <4>2. UNCHANGED <<lastGood, active, served>>
        BY <2>3 DEF BuildServer
      <4>3. raw'[c] = file /\ step' = [step EXCEPT ![c] = "archive"]
        BY <1>a, <3>0, <3>2 DEF Steps
      <4>4. Loads(raw'[c]) /\ raw'[c] \in Contents
        BY <3>2, <4>1, <4>3 DEF Loads, Parses
      <4> QED
        BY <1>1, <1>a, <3>0, <4>2, <4>3, <4>4 DEF PassInv, Loads, Parses
    <3> QED
      BY <2>3, <3>1, <3>2 DEF BuildServer
  <2>4. CASE ArchiveOld(c)
    <3>1. step[c] = "archive" /\ step' = [step EXCEPT ![c] = "swap"] /\ UNCHANGED <<lastGood, raw, serverVars>>
      BY <2>4 DEF ArchiveOld, Steps
    <3> QED
      BY <1>1, <1>a, <3>1 DEF PassInv, serverVars, Loads, Parses
  <2>5. CASE SwapServer(c)
    <3>1. /\ step[c] = "swap" /\ step' = [step EXCEPT ![c] = "retire"]
          /\ lastGood' = raw[c] /\ served' = raw[c] /\ active' = active + 1 /\ UNCHANGED raw
      BY <2>5 DEF SwapServer, Steps, SetLastGood
    <3>2. \A d \in Callers \ {c} : step[d] = "none"
      BY <1>b, <3>1
    <3> QED
      BY <1>1, <1>a, <3>1, <3>2 DEF PassInv
  <2>6. CASE RetireServer(c)
    <3>1. /\ step[c] = "retire" /\ step' = [step EXCEPT ![c] = "none"]
          /\ UNCHANGED <<lastGood, active, served>>
      BY <2>6 DEF RetireServer, Ends, Steps, stateVars, serverVars
    <3>2. \A d \in Callers \ {c} : step[d] = "none"
      BY <1>b, <3>1
    <3> QED
      BY <1>1, <1>a, <3>1, <3>2 DEF PassInv
  <2> QED
    BY <1>3, <2>1, <2>2, <2>3, <2>4, <2>5, <2>6 DEF Pass
<1>4. CASE ~(\E c \in Callers : Pass(c))
  <2>1. UNCHANGED <<passLocals, serverVars>>
    BY <1>4, StepKinds DEF Outside
  <2>2. UNCHANGED lastGood
    BY <1>4 DEF Next, vars, stateVars, HandEdit, WatcherFires, WatcherSeesNoFile, Handle, Arrive, ReadRoot,
                FindSnapshot, OpenFile, WriteOut, Rename, Stage, CheckFile, Flag, TriggerReload
  <2> QED
    BY <1>2, <2>1, <2>2
<1> QED
  BY <1>3, <1>4
-----------------------------------------------------------------------------
(* The handlers. *)

(* Everything that is not a handler leaves the handlers alone.             *)
LEMMA HandlersOnly ==
    ASSUME [Next]_vars
    PROVE  (\E h \in Handlers : Handle(h)) \/ UNCHANGED handlerVars
<1>1. CASE HandEdit \/ WatcherFires \/ WatcherSeesNoFile \/ UNCHANGED vars
  BY <1>1 DEF HandEdit, WatcherFires, WatcherSeesNoFile, vars
<1>2. ASSUME NEW c \in Callers, Pass(c)
      PROVE  UNCHANGED handlerVars
  BY <1>2 DEF Pass, Trigger, BeginPass, BuildServer, ArchiveOld, SwapServer, RetireServer, NoHandler
<1> QED
  BY <1>1, <1>2 DEF Next

(* What a step does to a handler's own variables.                          *)
LEMMA HandlerMoves ==
    ASSUME IInv, NEW h \in Handlers, Handle(h)
    PROVE  /\ hs' = [hs EXCEPT ![h] = hs'[h]]
           /\ job' = [job EXCEPT ![h] = job'[h]]
           /\ srv' = [srv EXCEPT ![h] = srv'[h]]
           /\ copy' = [copy EXCEPT ![h] = copy'[h]]
           /\ hs[h] # "new" => UNCHANGED <<job, srv>>
           /\ hs[h] = "new" => hs'[h] = "lock" /\ srv'[h] = active /\ job'[h] \in Edits \cup {"rollback", "reload"}
           /\ hs'[h] # "new"
<1>1. /\ hs \in [Handlers -> HandlerStates]
      /\ job \in [Handlers -> Edits \cup {"rollback", "reload"}]
      /\ srv \in [Handlers -> Nat]
      /\ copy \in [Handlers -> Contents \cup {Missing}]
  BY DEF IInv, TypeOK, HandlerStates
<1>2. CASE Arrive(h)
  BY <1>1, <1>2, EditsAssumption DEF Arrive, Goes
<1>3. CASE ReadRoot(h) \/ FindSnapshot(h)
  BY <1>1, <1>3 DEF ReadRoot, FindSnapshot, Goes
<1>4. CASE OpenFile(h) \/ WriteOut(h) \/ Rename(h)
  BY <1>1, <1>4 DEF OpenFile, WriteOut, Rename, Goes
<1>5. CASE Stage(h) \/ CheckFile(h) \/ Flag(h) \/ TriggerReload(h)
  BY <1>1, <1>5 DEF Stage, CheckFile, Flag, TriggerReload, Goes
<1> QED
  BY <1>2, <1>3, <1>4, <1>5 DEF Handle

(* A handler in the middle of a write holds what it is about to write.     *)
LEMMA CopyStep ==
    ASSUME IInv, [Next]_vars
    PROVE  CopyInv'
<1>1. TypeOK /\ CopyInv
  BY DEF IInv
<1>2. CASE UNCHANGED handlerVars
  BY <1>1, <1>2 DEF handlerVars, CopyInv
<1>3. ASSUME NEW h \in Handlers, Handle(h)
      PROVE  CopyInv'
  <2>0. /\ hs \in [Handlers -> HandlerStates]
        /\ copy \in [Handlers -> Contents \cup {Missing}] /\ job[h] \in Edits \cup {"rollback", "reload"}
        /\ file \in Contents \cup {Missing} /\ history \in Seq(Contents)
    BY <1>1 DEF TypeOK, HandlerStates
  <2>1. \A g \in Handlers \ {h} : hs'[g] = hs[g] /\ copy'[g] = copy[g]
    BY <1>3, <2>0, HandlerMoves
  <2>2. ASSUME hs'[h] \in {"open", "write"}
        PROVE  copy'[h] \in Contents
    <3>1. CASE ReadRoot(h)
      <4>1. Parses(file) /\ job[h] \in Edits /\ copy'[h] = Edited(job[h])
        BY <2>0, <2>2, <3>1 DEF ReadRoot, Goes
      <4>2. file \in Configs
        BY <2>0, <4>1 DEF Parses, Contents
      <4>3. file.from \in {"start", "hand", "empty"} /\ file.edits \cup {job[h]} \subseteq Edits
        BY <4>1, <4>2 DEF Configs
      <4> QED
        BY <4>1, <4>3 DEF Edited, Configs, Contents
    <3>2. CASE FindSnapshot(h)
      <4>1. Archived \subseteq Contents
        BY <2>0 DEF Archived
      <4> QED
        BY <2>0, <2>2, <3>2, <4>1 DEF FindSnapshot, Goes
    <3>3. CASE OpenFile(h)
      BY <1>1, <2>0, <2>2, <3>3 DEF OpenFile, Goes, CopyInv
    <3>4. CASE ~ReadRoot(h) /\ ~FindSnapshot(h) /\ ~OpenFile(h)
      BY <1>3, <2>0, <2>2, <3>4 DEF Handle, Goes, Arrive, WriteOut, Rename, Stage, CheckFile, Flag, TriggerReload
    <3> QED
      BY <3>1, <3>2, <3>3, <3>4
  <2> QED
    BY <1>1, <2>1, <2>2 DEF CopyInv
<1> QED
  BY <1>2, <1>3, HandlersOnly

(* configMu: two calls of one Server are never both in its section.        *)
LEMMA MutexStep ==
    ASSUME IInv, [Next]_vars
    PROVE  MutexInv'
<1>1. TypeOK /\ MutexInv
  BY DEF IInv
<1>2. CASE UNCHANGED handlerVars
  BY <1>1, <1>2 DEF handlerVars, MutexInv, InSection
<1>3. ASSUME NEW h \in Handlers, Handle(h)
      PROVE  MutexInv'
  <2>0. /\ hs \in [Handlers -> HandlerStates]
        /\ job \in [Handlers -> Edits \cup {"rollback", "reload"}]
        /\ srv \in [Handlers -> Nat]
    BY <1>1 DEF TypeOK, HandlerStates
  <2>1. \A g \in Handlers \ {h} : hs'[g] = hs[g] /\ job'[g] = job[g] /\ srv'[g] = srv[g]
    BY <1>3, <2>0, HandlerMoves
  <2>2. hs[h] = "new" => hs'[h] = "lock"
    BY <1>3, HandlerMoves
  <2>3. hs[h] # "new" => job'[h] = job[h] /\ srv'[h] = srv[h]
    BY <1>3, HandlerMoves
  <2>9. hs'[h] # "new"
    BY <1>3, HandlerMoves
  <2>4. /\ hs'[h] = "open" => job[h] \in Edits \cup {"rollback"} /\ hs[h] = "lock" /\ ~Locked(srv[h])
        /\ hs'[h] = "write" => hs[h] = "open"
        /\ hs'[h] = "rename" => hs[h] = "write" /\ job[h] # "rollback"
    BY <1>3, <2>0 DEF Handle, Goes, Arrive, ReadRoot, FindSnapshot, OpenFile, WriteOut, Rename, Stage, CheckFile, Flag, TriggerReload
  <2>5. /\ \A g \in Handlers : hs'[g] = "new" => job'[g] = "reload"
        /\ \A g \in Handlers : hs'[g] \in {"open", "write"} => job'[g] \in Edits \cup {"rollback"}
        /\ \A g \in Handlers : hs'[g] = "rename" => job'[g] \in Edits
    BY <1>1, <2>1, <2>3, <2>4, <2>9 DEF MutexInv
  <2>6. ASSUME NEW g \in Handlers \ {h}, InSection(g)', InSection(h)', srv'[g] = srv'[h]
        PROVE  FALSE
    <3>1. InSection(g) /\ srv[g] = srv[h]
      BY <2>1, <2>2, <2>3, <2>6 DEF InSection
    <3>2. ~Locked(srv[h]) \/ InSection(h)
      BY <2>4, <2>6 DEF InSection
    <3> QED
      BY <1>1, <3>1, <3>2 DEF Locked, MutexInv
  <2>7. ASSUME NEW g \in Handlers \ {h}, NEW k \in Handlers \ {h}, InSection(g)', InSection(k)', srv'[g] = srv'[k]
        PROVE  g = k
    BY <1>1, <2>1, <2>7 DEF MutexInv, InSection
  <2>8. ASSUME NEW g \in Handlers, NEW k \in Handlers, InSection(g)', InSection(k)', srv'[g] = srv'[k]
        PROVE  g = k
    BY <2>6, <2>7, <2>8
  <2> QED
    BY <2>5, <2>8 DEF MutexInv
<1> QED
  BY <1>2, <1>3, HandlersOnly
-----------------------------------------------------------------------------
(* No trigger is lost. *)

(* A change of the file is followed by a trigger, or marks the file as     *)
(* changed by hand.                                                        *)
LEMMA WritersWillTrigger ==
    ASSUME IInv, [Next]_vars, file' # file
    PROVE  WillRead'
<1>1. CASE HandEdit
  BY <1>1 DEF HandEdit, WillRead
<1>2. ASSUME NEW h \in Handlers, Handle(h)
      PROVE  WillRead'
  <2>0. TypeOK /\ MutexInv
    BY DEF IInv
  <2>a. hs \in [Handlers -> HandlerStates]
    BY <2>0 DEF TypeOK, HandlerStates
  <2>1. CASE OpenFile(h)
    BY <2>a, <2>1 DEF OpenFile, Goes, fileVars, WillRead
  <2>2. CASE WriteOut(h)
    <3>1. fd[h] = "file"
      BY <2>2 DEF WriteOut, Puts
    <3>2. unannounced' \/ hs'[h] = "stage"
      BY <2>a, <2>2, <3>1 DEF WriteOut, Goes
    <3> QED
      BY <3>2 DEF WillRead
  <2>3. CASE Rename(h)
    BY <2>a, <2>3 DEF Rename, Goes, fileVars, WillRead
  <2>4. CASE ~OpenFile(h) /\ ~WriteOut(h) /\ ~Rename(h)
    BY <1>2, <2>4 DEF Handle, fileVars, Arrive, ReadRoot, FindSnapshot, Stage, CheckFile, Flag, TriggerReload
  <2> QED
    BY <2>1, <2>2, <2>3, <2>4
<1>3. ASSUME NEW c \in Callers, Pass(c)
      PROVE  UNCHANGED file
  BY <1>3 DEF Pass, Trigger, BeginPass, BuildServer, ArchiveOld, SwapServer, RetireServer, NoHandler, fileVars
<1> QED
  BY <1>1, <1>2, <1>3 DEF Next, WatcherFires, WatcherSeesNoFile, vars, fileVars

(* The reasons for a pass to come go away only when a pass has read.       *)
LEMMA WillReadStays ==
    ASSUME IInv, [Next]_vars, WillRead, ~(\E c \in Callers : BuildServer(c))
    PROVE  WillRead'
<1>1. TypeOK /\ RunnerInv
  BY DEF IInv
<1>a. /\ at \in [Callers -> {"idle", "enter", "begin", "pass", "check"}]
      /\ step \in [Callers -> {"none", "build", "archive", "swap", "retire"}]
      /\ hs \in [Handlers -> HandlerStates]
  BY <1>1 DEF TypeOK, HandlerStates
<1>2. ASSUME NEW c \in Callers, Pass(c)
      PROVE  WillRead'
  <2>0. UNCHANGED <<unannounced, hs, job>>
    BY <1>2 DEF Pass, Trigger, BeginPass, BuildServer, ArchiveOld, SwapServer, RetireServer, NoHandler, ghostVars, handlerVars
  <2>1. CASE Trigger(c)
    BY <1>1, <1>a, <2>0, <2>1 DEF Trigger, Join, Lead, Again, Finish, Moves, passLocals, WillRead
  <2>2. CASE BeginPass(c)
    <3>1. at[c] = "begin"
      BY <2>2 DEF BeginPass, Begin, Moves
    <3>2. ~Reloading
      BY <1>1, <1>a, <3>1 DEF Reloading, RunnerInv, PassesNeverOverlap, Leading
    <3>3. step'[c] = "build"
      BY <1>a, <2>2, <3>2 DEF BeginPass, Steps
    <3> QED
      BY <3>3 DEF WillRead
  <2>3. CASE ArchiveOld(c) \/ SwapServer(c)
    <3>1. UNCHANGED <<at, dirty>> /\ step[c] # "build" /\ \A d \in Callers \ {c} : step'[d] = step[d]
      BY <1>a, <2>3 DEF ArchiveOld, SwapServer, runnerVars, Steps
    <3> QED
      BY <2>0, <3>1 DEF WillRead
  <2>4. CASE RetireServer(c)
    <3>1. /\ UNCHANGED dirty /\ step[c] # "build" /\ at[c] = "pass"
          /\ \A d \in Callers \ {c} : step'[d] = step[d] /\ at'[d] = at[d]
      BY <1>a, <2>4 DEF RetireServer, Ends, Return, Moves, Steps
    <3> QED
      BY <2>0, <3>1 DEF WillRead
  <2> QED
    BY <1>2, <2>1, <2>2, <2>3, <2>4 DEF Pass
<1>3. ASSUME NEW c \in Callers, Call(c)
      PROVE  WillRead'
  <2>1. at'[c] = "enter"
    BY <1>a, <1>3 DEF Call, Moves
  <2> QED
    BY <2>1 DEF WillRead
<1>4. CASE Outside
  <2>0. UNCHANGED <<at, dirty, step>>
    BY <1>4 DEF Outside, runnerVars, passLocals
  <2>1. ASSUME NEW h \in Handlers, Handle(h), ~TriggerReload(h)
        PROVE  WillRead'
    <3>1. unannounced => unannounced'
      BY <2>1 DEF Handle, NoPass, ghostVars, Arrive, ReadRoot, FindSnapshot, OpenFile, WriteOut, Rename, Stage, CheckFile, Flag
    <3>2. \A g \in Handlers \ {h} : hs'[g] = hs[g]
      BY <1>a, <2>1, HandlerMoves
    <3>3. hs[h] \in {"stage", "call"} \/ (hs[h] = "write" /\ job[h] = "rollback")
             => unannounced' \/ hs'[h] \in {"stage", "call"}
      BY <1>a, <2>1 DEF Handle, Goes, Arrive, ReadRoot, FindSnapshot, OpenFile, WriteOut, Rename, Stage, CheckFile, Flag
    <3>4. \A g \in Handlers \ {h} : job'[g] = job[g]
      BY <1>1, <2>1, HandlerMoves DEF TypeOK
    <3> QED
      BY <2>0, <3>1, <3>2, <3>3, <3>4 DEF WillRead
  <2>2. CASE HandEdit \/ WatcherSeesNoFile \/ UNCHANGED vars
    <3>1. UNCHANGED <<hs, job>> /\ (unannounced => unannounced')
      BY <2>2 DEF HandEdit, WatcherSeesNoFile, vars, handlerVars, ghostVars
    <3> QED
      BY <2>0, <3>1 DEF WillRead
  <2>3. CASE WatcherFires \/ \E h \in Handlers : TriggerReload(h)
    BY <1>3, <2>3, TriggersEnter, CallersAssumption DEF WatcherFires
  <2>4. CASE \E c \in Callers : Pass(c)
    BY <1>2, <2>4
  <2> QED
    BY <2>1, <2>2, <2>3, <2>4 DEF Next
<1> QED
  BY <1>2, <1>3, <1>4, StepKinds
(* Away from BuildServer these change in one place each.                   *)
LEMMA BetweenReads ==
    ASSUME IInv, [Next]_vars, ~WillRead', ~(\E c \in Callers : BuildServer(c))
    PROVE  /\ ~WillRead
           /\ UNCHANGED <<file, buildFailed>>
           /\ pending' \in {pending, Nobody}
           /\ valid' \in {valid, FALSE} \/ \E c \in Callers : SwapServer(c)
           /\ UNCHANGED <<served, raw>> \/ \E c \in Callers : SwapServer(c) \/ RetireServer(c)
           /\ UNCHANGED step \/ \E c \in Callers : BeginPass(c) \/ ArchiveOld(c) \/ SwapServer(c) \/ RetireServer(c)
<1>1. ~WillRead /\ UNCHANGED file
  BY WillReadStays, WritersWillTrigger
<1>2. ASSUME NEW h \in Handlers, Handle(h)
      PROVE  /\ UNCHANGED buildFailed
             /\ pending' = pending
             /\ valid' \in {valid, FALSE}
             /\ UNCHANGED <<served, raw, step>>
  <2>1. UNCHANGED <<buildFailed, served, raw, step>>
    BY <1>2 DEF Handle, NoPass, passLocals, serverVars, ghostVars, Arrive, ReadRoot, FindSnapshot, OpenFile, WriteOut, Rename, Stage, CheckFile, Flag, TriggerReload
  <2>2. CASE Stage(h)
    <3>1. hs'[h] = "call"
      BY <2>2 DEF IInv, TypeOK, Stage, Goes
    <3> QED
      BY <3>1 DEF WillRead
  <2>3. CASE ~Stage(h)
    BY <1>2, <2>1, <2>3 DEF Handle, stateVars, SetInvalid, Arrive, ReadRoot, FindSnapshot, OpenFile, WriteOut, Rename, CheckFile, Flag, TriggerReload
  <2> QED
    BY <2>2, <2>3
<1>3. ASSUME NEW c \in Callers, Pass(c)
      PROVE  /\ UNCHANGED buildFailed
             /\ pending' \in {pending, Nobody}
             /\ valid' = valid \/ SwapServer(c)
             /\ UNCHANGED <<served, raw>> \/ SwapServer(c) \/ RetireServer(c)
             /\ UNCHANGED step \/ BeginPass(c) \/ ArchiveOld(c) \/ SwapServer(c) \/ RetireServer(c)
  <2>1. CASE Trigger(c)
    BY <2>1 DEF Trigger, stateVars, ghostVars, serverVars, passLocals
  <2>2. CASE BeginPass(c)
    BY <2>2 DEF BeginPass, stateVars, ghostVars, serverVars
  <2>3. CASE ArchiveOld(c)
    BY <2>3 DEF ArchiveOld, TakePending, serverVars
  <2>4. CASE SwapServer(c) \/ RetireServer(c)
    BY <2>4 DEF SwapServer, RetireServer, stateVars, ghostVars
  <2> QED
    BY <1>3, <2>1, <2>2, <2>3, <2>4 DEF Pass
<1>4. CASE HandEdit \/ WatcherFires \/ WatcherSeesNoFile \/ UNCHANGED vars
  BY <1>1, <1>4 DEF HandEdit, WatcherFires, WatcherSeesNoFile, vars, stateVars, ghostVars, serverVars, passLocals
<1>5. CASE \E h \in Handlers : Handle(h)
  BY <1>1, <1>2, <1>5
<1>6. CASE \E c \in Callers : Pass(c)
  <2>1. PICK c \in Callers : Pass(c)
    BY <1>6
  <2> QED
    BY <1>1, <1>3, <2>1
<1> QED
  BY <1>1, <1>4, <1>5, <1>6 DEF Next

(* What is in use is what is on disk, unless somebody is to look.          *)
LEMMA CoveredStep ==
    ASSUME IInv, [Next]_vars
    PROVE  CoveredInv'
<1> SUFFICES ASSUME ~WillRead' PROVE CoveredInv'
  BY DEF CoveredInv
<1>1. /\ step \in [Callers -> {"none", "build", "archive", "swap", "retire"}]
      /\ raw \in [Callers -> Contents \cup {Missing}]
      /\ RunnerInv /\ CoveredInv
  BY DEF IInv, TypeOK
<1>b. \A c, d \in Callers : step[c] # "none" /\ step[d] # "none" => c = d
  BY <1>1 DEF RunnerInv, PassesNeverOverlap, Leading
<1>2. ASSUME NEW c \in Callers, BuildServer(c)
      PROVE  CoveredInv'
  <2>0. UNCHANGED file /\ step[c] = "build" /\ \A d \in Callers \ {c} : step[d] = "none"
    BY <1>b, <1>2 DEF BuildServer, NoHandler, fileVars, Ends, Steps
  <2>1. CASE ~Loads(file) /\ ~valid' /\ Ends(c, "build")
    <3>1. \A d \in Callers : step'[d] \notin {"archive", "swap"}
      BY <1>1, <2>0, <2>1 DEF Ends, Steps
    <3>2. ~Loads(file)'
      BY <2>0, <2>1 DEF Loads, Parses
    <3> QED
      BY <2>1, <3>1, <3>2 DEF CoveredInv
  <2>2. CASE buildFailed'
    BY <2>2 DEF CoveredInv
  <2>3. CASE Loads(file) /\ raw' = [raw EXCEPT ![c] = file] /\ Steps(c, "build", "archive")
    <3>1. raw'[c] = file' /\ step'[c] = "archive"
      BY <1>1, <2>0, <2>3 DEF Steps
    <3>2. Loads(file)'
      BY <2>0, <2>3 DEF Loads, Parses
    <3> QED
      BY <3>1, <3>2 DEF CoveredInv
  <2> QED
    BY <1>2, <2>1, <2>2, <2>3 DEF BuildServer, SetInvalid
<1>3. ASSUME NEW c \in Callers, SwapServer(c), ~(\E d \in Callers : BuildServer(d))
      PROVE  CoveredInv'
  <2>1. /\ step[c] = "swap" /\ step' = [step EXCEPT ![c] = "retire"] /\ served' = raw[c]
        /\ \A d \in Callers \ {c} : step[d] = "none"
    BY <1>b, <1>3 DEF SwapServer, Steps
  <2>2. ~WillRead /\ UNCHANGED <<file, buildFailed>>
    BY <1>3, BetweenReads
  <2>3. buildFailed \/ (Loads(file) /\ raw[c] = file)
    BY <1>1, <2>1, <2>2 DEF CoveredInv
  <2>4. Loads(file) => Loads(file)'
    BY <2>2 DEF Loads, Parses
  <2>5. \A d \in Callers : step'[d] \notin {"archive", "swap"}
    BY <1>1, <2>1
  <2> QED
    BY <2>1, <2>2, <2>3, <2>4, <2>5 DEF CoveredInv
<1>4. CASE ~(\E c \in Callers : BuildServer(c) \/ SwapServer(c))
  <2>1. ~WillRead /\ UNCHANGED <<file, buildFailed, served>> /\ valid' \in {valid, FALSE}
    <3>1. ~WillRead /\ UNCHANGED <<file, buildFailed>> /\ valid' \in {valid, FALSE}
      BY <1>4, BetweenReads
    <3>2. \A c \in Callers : RetireServer(c) => UNCHANGED served
      BY DEF RetireServer, serverVars
    <3>3. UNCHANGED served
      BY <1>4, <3>2, BetweenReads
    <3> QED
      BY <3>1, <3>3
  <2>2. Loads(file)' <=> Loads(file)
    BY <2>1 DEF Loads, Parses
  <2>3. \A c \in Callers : /\ step'[c] \in {"archive", "swap"} <=> step[c] \in {"archive", "swap"}
                           /\ step[c] \in {"archive", "swap"} => raw'[c] = raw[c]
    <3>1. CASE UNCHANGED <<raw, step>>
      BY <3>1
    <3>2. ASSUME NEW c \in Callers, BeginPass(c) \/ ArchiveOld(c)
          PROVE  <2>3
      BY <1>1, <3>2 DEF BeginPass, ArchiveOld, Steps
    <3>3. ASSUME NEW c \in Callers, RetireServer(c)
          PROVE  <2>3
      BY <1>1, <3>3 DEF RetireServer, Ends, Steps
    <3> QED
      BY <1>4, <3>1, <3>2, <3>3, BetweenReads
  <2>4. CASE buildFailed
    BY <2>1, <2>4 DEF CoveredInv
  <2>5. ASSUME NEW c \in Callers, Loads(file), step[c] \in {"archive", "swap"}, raw[c] = file
        PROVE  CoveredInv'
    BY <2>1, <2>2, <2>3, <2>5 DEF CoveredInv
  <2>6. CASE (\A c \in Callers : step[c] \notin {"archive", "swap"}) /\ IF Loads(file) THEN served = file ELSE ~valid
    <3>1. \A c \in Callers : step'[c] \notin {"archive", "swap"}
      BY <2>3, <2>6
    <3>2. ~valid => ~valid'
      BY <2>1, Zenon
    <3>3. IF Loads(file)' THEN served' = file' ELSE ~valid'
      BY <2>1, <2>2, <2>6, <3>2
    <3> QED
      BY <3>1, <3>3 DEF CoveredInv
  <2> QED
    BY <1>1, <2>1, <2>4, <2>5, <2>6 DEF CoveredInv
<1> QED
  BY <1>2, <1>3, <1>4

(* What is staged will be taken by a pass that succeeds.                   *)
LEMMA AttributionStep ==
    ASSUME IInv, [Next]_vars
    PROVE  AttributionInv'
<1> SUFFICES ASSUME ~WillRead' PROVE AttributionInv'
  BY DEF AttributionInv
<1>1. /\ step \in [Callers -> {"none", "build", "archive", "swap", "retire"}]
      /\ AttributionInv
  BY DEF IInv, TypeOK
<1>2. ASSUME NEW c \in Callers, BuildServer(c)
      PROVE  AttributionInv'
  <2>0. UNCHANGED file
    BY <1>2 DEF BuildServer, NoHandler, fileVars
  <2>1. CASE ~Loads(file)
    BY <2>0, <2>1 DEF AttributionInv, Loads, Parses
  <2>2. CASE buildFailed'
    BY <2>2 DEF AttributionInv
  <2>3. CASE Steps(c, "build", "archive")
    BY <1>1, <2>3 DEF Steps, AttributionInv
  <2> QED
    BY <1>2, <2>1, <2>2, <2>3 DEF BuildServer
<1>3. ASSUME NEW c \in Callers, ArchiveOld(c)
      PROVE  AttributionInv'
  BY <1>3 DEF ArchiveOld, TakePending, AttributionInv
<1>4. CASE ~(\E c \in Callers : BuildServer(c) \/ ArchiveOld(c))
  <2>1. ~WillRead /\ UNCHANGED <<file, buildFailed>> /\ pending' \in {pending, Nobody}
    BY <1>4, BetweenReads
  <2>2. Loads(file)' <=> Loads(file)
    BY <2>1 DEF Loads, Parses
  <2>3. \A c \in Callers : step[c] = "archive" => step'[c] = "archive"
    <3>1. ASSUME NEW c \in Callers, BeginPass(c) \/ SwapServer(c) \/ RetireServer(c)
          PROVE  <2>3
      BY <1>1, <3>1 DEF BeginPass, SwapServer, RetireServer, Ends, Steps
    <3> QED
      BY <1>4, <3>1, BetweenReads
  <2> QED
    BY <1>1, <2>1, <2>2, <2>3 DEF AttributionInv
<1> QED
  BY <1>2, <1>3, <1>4
-----------------------------------------------------------------------------
(* The history. *)

(* Pruning keeps the newest snapshot.                                      *)
LEMMA NewestIsRetained ==
    ASSUME NEW keep \in Nat \ {0}, NEW S, NEW h \in Seq(S), NEW x \in S, NEW young \in Nat
    PROVE  LET r == Retained(<<x>> \o h, keep, young)
           IN  r \in Seq(S) /\ 1 \in DOMAIN r /\ r[1] = x
<1> DEFINE s == <<x>> \o h
           n == AtMost(Len(s), AtMost(HardCap, AtLeast(keep, young)))
<1>1. s \in Seq(S) /\ Len(s) = Len(h) + 1 /\ s[1] = x
  OBVIOUS
<1>2. Len(h) \in Nat
  OBVIOUS
<1>3. n \in 1..Len(s)
  BY <1>1, <1>2, RetentionAssumption DEF AtMost, AtLeast
<1>4. Retained(s, keep, young) = SubSeq(s, 1, n)
  BY DEF Retained
<1> HIDE DEF s, n
<1>5. SubSeq(s, 1, n) \in Seq(S) /\ 1 \in DOMAIN SubSeq(s, 1, n) /\ SubSeq(s, 1, n)[1] = s[1]
  BY <1>1, <1>3
<1> QED
  BY <1>1, <1>4, <1>5 DEF s

(* A snapshot that succeeds is in the directory; the directory holds       *)
(* contents.                                                               *)
LEMMA SnapshotIsArchived ==
    ASSUME NEW keep \in Nat, NEW S, history \in Seq(S), NEW x \in S, NEW e, SnapshotConfig(x, keep, e)
    PROVE  history' \in Seq(S) /\ (keep > 0 /\ x # e => x \in Archived')
<1>1. CASE keep = 0 \/ x = e
  BY <1>1 DEF SnapshotConfig
<1>2. CASE ~(keep = 0 \/ x = e)
  <2>1. PICK young \in 0..(Len(history) + 1) : history' = Retained(<<x>> \o history, keep, young)
    BY <1>2 DEF SnapshotConfig
  <2>2. keep \in Nat \ {0} /\ young \in Nat
    BY <1>2
  <2>3. history' \in Seq(S) /\ 1 \in DOMAIN history' /\ history'[1] = x
    BY <2>1, <2>2, NewestIsRetained
  <2> QED
    BY <2>3 DEF Archived
<1> QED
  BY <1>1, <1>2

(* What a pass replaces the active configuration by has a retention.       *)
LEMMA RawIsConfig ==
    ASSUME IInv, NEW c \in Callers, step[c] \in {"archive", "swap"}
    PROVE  raw[c] \in Configs
<1>1. raw[c] \in Contents /\ Loads(raw[c])
  BY DEF IInv, PassInv
<1> QED
  BY <1>1 DEF Loads, Parses, Contents

(* What was replaced is archived: ArchiveOld does it before SwapServer.    *)
LEMMA ArchiveStep ==
    ASSUME IInv, [Next]_vars
    PROVE  ArchiveInv'
<1>1. /\ step \in [Callers -> {"none", "build", "archive", "swap", "retire"}]
      /\ raw \in [Callers -> Contents \cup {Missing}]
      /\ history \in Seq(Contents) /\ lastGood \in Contents /\ served = lastGood
      /\ ArchiveInv
  BY DEF IInv, TypeOK, PassInv
<1>b. \A c, d \in Callers : step[c] # "none" /\ step[d] # "none" => c = d
  BY DEF IInv, RunnerInv, PassesNeverOverlap, Leading
<1>2. ASSUME UNCHANGED <<history, served, replaced, unarchived>>,
             \A c \in Callers : /\ step'[c] = "swap" <=> step[c] = "swap"
                                /\ step[c] = "swap" => raw'[c] = raw[c]
      PROVE  ArchiveInv'
  BY <1>1, <1>2 DEF ArchiveInv, Archived
<1>3. ASSUME NEW c \in Callers, ArchiveOld(c)
      PROVE  ArchiveInv'
  <2>1. /\ step[c] = "archive" /\ step' = [step EXCEPT ![c] = "swap"]
        /\ UNCHANGED <<served, lastGood, raw>>
        /\ \A d \in Callers \ {c} : step[d] = "none"
    BY <1>b, <1>3 DEF ArchiveOld, Steps, serverVars
  <2>2. CASE SnapshotConfig(lastGood, Keep[raw[c]], Empty) /\ UNCHANGED unarchived
    <3>1. Keep[raw[c]] \in Nat
      BY <2>1, RawIsConfig, KeepAssumption
    <3>2. Keep[raw[c]] > 0 /\ lastGood # Empty => lastGood \in Archived'
      BY <1>1, <2>2, <3>1, SnapshotIsArchived
    <3> QED
      BY <1>1, <2>1, <2>2, <3>2 DEF ArchiveInv
  <2>3. CASE unarchived' = unarchived \cup {lastGood}
    BY <1>1, <2>1, <2>3 DEF ArchiveInv
  <2> QED
    BY <1>3, <2>2, <2>3 DEF ArchiveOld
<1>4. ASSUME NEW c \in Callers, SwapServer(c)
      PROVE  ArchiveInv'
  <2>1. /\ step[c] = "swap" /\ step' = [step EXCEPT ![c] = "retire"] /\ replaced' = served
        /\ served' = raw[c] /\ UNCHANGED <<history, unarchived>>
    BY <1>4 DEF SwapServer, Steps
  <2>2. Keep[raw[c]] > 0 => served \in Archived \cup unarchived \cup {Empty}
    BY <1>1, <2>1 DEF ArchiveInv
  <2>3. \A d \in Callers : step'[d] # "swap"
    BY <1>1, <1>b, <2>1
  <2> QED
    BY <2>1, <2>2, <2>3 DEF ArchiveInv, Archived
<1>5. ASSUME NEW c \in Callers, Pass(c), ~ArchiveOld(c), ~SwapServer(c)
      PROVE  ArchiveInv'
  <2>1. UNCHANGED <<history, served, replaced, unarchived>>
    BY <1>5 DEF Pass, Trigger, BeginPass, BuildServer, RetireServer, stateVars, serverVars, ghostVars
  <2>2. \A d \in Callers : /\ step'[d] = "swap" <=> step[d] = "swap"
                           /\ step[d] = "swap" => raw'[d] = raw[d]
    <3>1. CASE Trigger(c) \/ BeginPass(c)
      BY <1>1, <3>1 DEF Trigger, BeginPass, passLocals, Steps
    <3>2. ASSUME NEW from \in {"build", "retire"}, Ends(c, from)
          PROVE  <2>2
      BY <1>1, <3>2 DEF Ends, Steps
    <3>3. CASE Steps(c, "build", "archive") /\ raw' = [raw EXCEPT ![c] = file]
      BY <1>1, <3>3 DEF Steps
    <3> QED
      BY <1>5, <3>1, <3>2, <3>3 DEF Pass, BuildServer, RetireServer
  <2> QED
    BY <1>2, <2>1, <2>2
<1>6. ASSUME NEW h \in Handlers, Handle(h)
      PROVE  UNCHANGED <<history, served, replaced, unarchived, step, raw>>
  BY <1>6 DEF Handle, NoPass, stateVars, passLocals, serverVars, ghostVars, Arrive, ReadRoot, FindSnapshot, OpenFile, WriteOut, Rename, Stage, CheckFile, Flag, TriggerReload
<1>7. CASE HandEdit \/ WatcherFires \/ WatcherSeesNoFile \/ UNCHANGED vars
  BY <1>2, <1>7 DEF HandEdit, WatcherFires, WatcherSeesNoFile, vars, stateVars, ghostVars, serverVars, passLocals
<1> QED
  BY <1>2, <1>3, <1>4, <1>5, <1>6, <1>7 DEF Next
-----------------------------------------------------------------------------
(* The edits. *)

(* What was not overwritten before a step of another kind still is not.    *)
LEMMA EditPremise ==
    ASSUME IInv, [Next]_vars, OneServer', ~Overwritten'
    PROVE  OneServer /\ ~Overwritten /\ ~HandEdit
<1>1. TypeOK /\ MutexInv
  BY DEF IInv
<1>2. handEdits \in Nat
  BY <1>1 DEF TypeOK
<1>3. ~HandEdit
  BY <1>2 DEF HandEdit, Overwritten
<1>4. handEdits' = handEdits
  BY <1>3 DEF Next, vars, envVars, Pass, NoHandler, Trigger, BeginPass, BuildServer, ArchiveOld, SwapServer, RetireServer,
              WatcherFires, WatcherSeesNoFile, Handle, Arrive, ReadRoot, FindSnapshot, OpenFile, WriteOut, Rename, Stage, CheckFile, Flag, TriggerReload
<1>5. \A h \in Handlers : hs[h] # "new" => hs'[h] # "new" /\ job'[h] = job[h] /\ srv'[h] = srv[h]
  <2>1. ASSUME NEW g \in Handlers, Handle(g)
        PROVE  <1>5
    <3>1. /\ hs \in [Handlers -> HandlerStates]
          /\ job \in [Handlers -> Edits \cup {"rollback", "reload"}]
          /\ srv \in [Handlers -> Nat]
      BY <1>1 DEF TypeOK, HandlerStates
    <3> QED
      BY <2>1, <3>1, HandlerMoves
  <2>2. CASE UNCHANGED handlerVars
    BY <2>2 DEF handlerVars
  <2> QED
    BY <2>1, <2>2, HandlersOnly
<1>6. \A h \in Handlers : job[h] = "rollback" => job'[h] = "rollback"
  BY <1>1, <1>5 DEF MutexInv
<1>7. ~Overwritten
  BY <1>4, <1>6 DEF Overwritten
<1>8. OneServer
  BY <1>5 DEF OneServer
<1> QED
  BY <1>3, <1>7, <1>8
(* Under one Server and without a rollback, writes only add edits.         *)
LEMMA EditStep ==
    ASSUME IInv, [Next]_vars
    PROVE  EditInv'
<1> SUFFICES ASSUME OneServer', ~Overwritten' PROVE EditInv'
  BY DEF EditInv
<1>1. OneServer /\ ~Overwritten /\ ~HandEdit
  BY EditPremise
<1>2. TypeOK /\ MutexInv /\ EditInv /\ CopyInv
  BY DEF IInv
<1>3. ASSUME UNCHANGED <<file, tmp, fd, hs, job, copy>>
      PROVE  EditInv'
  BY <1>1, <1>2, <1>3 DEF EditInv
<1>4. ASSUME NEW h \in Handlers, Handle(h)
      PROVE  EditInv'
  <2>0. /\ hs \in [Handlers -> HandlerStates]
        /\ job \in [Handlers -> Edits \cup {"rollback", "reload"}]
        /\ copy \in [Handlers -> Contents \cup {Missing}]
        /\ fd \in [Handlers -> {"tmp", "file", "gone"}]
    BY <1>2 DEF TypeOK, HandlerStates
  <2>1. \A g \in Handlers \ {h} : hs'[g] = hs[g] /\ job'[g] = job[g] /\ copy'[g] = copy[g]
    BY <1>4, <2>0, HandlerMoves
  <2>2. /\ file \in Configs
        /\ \A g \in Handlers :
            /\ job[g] \in Edits /\ hs[g] \in {"stage", "call", "acked"} => job[g] \in file.edits
            /\ hs[g] \in {"open", "write"} => copy[g] \in Configs /\ file.edits \cup {job[g]} \subseteq copy[g].edits
            /\ hs[g] = "write" => fd[g] = "tmp" /\ tmp = Empty
            /\ hs[g] = "rename" => tmp \in Configs /\ file.edits \cup {job[g]} \subseteq tmp.edits
    BY <1>1, <1>2 DEF EditInv
  <2>3. job[h] # "rollback"
    BY <1>1 DEF Overwritten
  <2>4. InSection(h) => \A g \in Handlers \ {h} : ~InSection(g)
    BY <1>1, <1>2 DEF InSection, OneServer, MutexInv
  <2>5. CASE UNCHANGED <<file, tmp, fd>> /\ hs'[h] \notin {"open", "write", "rename", "stage", "call", "acked"}
    BY <2>1, <2>2, <2>5 DEF EditInv
  <2>6. CASE ReadRoot(h)
    <3>1. UNCHANGED <<file, tmp, fd, job>>
      BY <2>6 DEF ReadRoot, fileVars
    <3>2. CASE hs'[h] = "open"
      <4>1. copy'[h] = [from |-> file.from, edits |-> file.edits \cup {job[h]}] /\ job[h] \in Edits
        BY <2>0, <2>6, <3>2 DEF ReadRoot, Goes, Edited
      <4>2. copy'[h] \in Configs /\ copy'[h].edits = file.edits \cup {job[h]}
        BY <2>2, <4>1 DEF Configs
      <4> QED
        BY <2>1, <2>2, <3>1, <3>2, <4>2 DEF EditInv
    <3>3. CASE hs'[h] # "open"
      BY <2>0, <2>5, <2>6, <3>1, <3>3 DEF ReadRoot, Goes
    <3> QED
      BY <3>2, <3>3
  <2>a. CASE OpenFile(h)
    <3>1. hs[h] = "open" /\ job[h] \in Edits /\ UNCHANGED <<job, copy>>
      BY <1>2, <2>3, <2>a DEF OpenFile, Goes, MutexInv
    <3>2. \A g \in Handlers \ {h} : hs[g] \notin {"open", "write", "rename"}
      BY <2>4, <3>1 DEF InSection
    <3>3. CASE hs'[h] = "write" /\ tmp' = Empty /\ fd' = [fd EXCEPT ![h] = "tmp"] /\ UNCHANGED file
      BY <2>0, <2>1, <2>2, <3>1, <3>2, <3>3 DEF EditInv
    <3>4. CASE hs'[h] = "failed" /\ UNCHANGED fileVars
      BY <2>5, <3>4 DEF fileVars
    <3> QED
      BY <2>0, <2>3, <2>a, <3>3, <3>4 DEF OpenFile, Goes
  <2>7. CASE WriteOut(h)
    <3>1. hs[h] = "write" /\ job[h] # "rollback" /\ UNCHANGED job
      BY <2>3, <2>7 DEF WriteOut, Goes
    <3>2. \A g \in Handlers \ {h} : hs[g] \notin {"open", "write", "rename"}
      BY <2>4, <3>1 DEF InSection
    <3>3. fd[h] = "tmp" /\ tmp = Empty /\ Tails(h) = {}
      BY <2>2, <3>1 DEF Tails
    <3>4. UNCHANGED file /\ hs'[h] \in {"rename", "failed"}
      BY <2>0, <2>7, <3>1, <3>3 DEF WriteOut, Puts, Goes
    <3>5. hs'[h] = "rename" => tmp' = copy[h]
      BY <2>0, <2>7, <3>1, <3>3 DEF WriteOut, Puts, Goes
    <3> QED
      BY <2>1, <2>2, <3>1, <3>2, <3>4, <3>5 DEF EditInv
  <2>8. CASE Rename(h)
    <3>1. CASE hs'[h] = "failed" /\ UNCHANGED fileVars
      BY <2>5, <3>1 DEF fileVars
    <3>2. CASE file' = tmp /\ hs'[h] = "stage"
      <4>1. /\ hs[h] = "rename" /\ UNCHANGED job
            /\ \A g \in Handlers \ {h} : hs[g] \notin {"open", "write", "rename"}
        BY <2>0, <2>4, <2>8 DEF Rename, Goes, InSection
      <4>2. tmp \in Configs /\ file.edits \cup {job[h]} \subseteq tmp.edits
        BY <2>2, <4>1
      <4> QED
        BY <2>1, <2>2, <3>2, <4>1, <4>2 DEF EditInv
    <3> QED
      BY <2>0, <2>8, <3>1, <3>2 DEF Rename, Goes, Write
  <2>9. CASE Arrive(h) \/ Flag(h)
    BY <2>0, <2>5, <2>9 DEF Arrive, Flag, Goes, fileVars
  <2>10. CASE CheckFile(h) \/ Stage(h) \/ TriggerReload(h)
    <3>1. /\ UNCHANGED <<file, tmp, fd, job>>
          /\ hs'[h] \in {"call", "flag", "acked"}
          /\ job[h] = "reload" \/ hs[h] \in {"stage", "call"}
      BY <2>0, <2>10 DEF CheckFile, Stage, TriggerReload, Goes, fileVars
    <3>2. job[h] \in Edits /\ hs'[h] \in {"call", "acked"} => job[h] \in file.edits
      BY <2>2, <3>1, EditsAssumption
    <3> QED
      BY <2>1, <2>2, <3>1, <3>2 DEF EditInv
  <2>11. ~FindSnapshot(h)
    BY <2>3 DEF FindSnapshot
  <2> QED
    BY <1>4, <2>6, <2>a, <2>7, <2>8, <2>9, <2>10, <2>11 DEF Handle
<1>5. CASE WatcherFires \/ WatcherSeesNoFile \/ UNCHANGED vars
  BY <1>3, <1>5 DEF WatcherFires, WatcherSeesNoFile, vars, fileVars, handlerVars
<1>6. ASSUME NEW c \in Callers, Pass(c)
      PROVE  UNCHANGED <<file, tmp, fd, hs, job, copy>>
  BY <1>6 DEF Pass, Trigger, BeginPass, BuildServer, ArchiveOld, SwapServer, RetireServer, NoHandler, fileVars, handlerVars
<1> QED
  BY <1>1, <1>3, <1>4, <1>5, <1>6 DEF Next
-----------------------------------------------------------------------------
(* Types. *)
LEMMA TypeStep ==
    ASSUME IInv, [Next]_vars
    PROVE  TypeOK'
<1>1. TypeOK /\ PassInv /\ CopyInv
  BY DEF IInv
<1>a. /\ at \in [Callers -> {"idle", "enter", "begin", "pass", "check"}]
      /\ step \in [Callers -> {"none", "build", "archive", "swap", "retire"}]
      /\ raw \in [Callers -> Contents \cup {Missing}]
      /\ hs \in [Handlers -> HandlerStates]
      /\ job \in [Handlers -> Edits \cup {"rollback", "reload"}]
      /\ srv \in [Handlers -> Nat]
      /\ copy \in [Handlers -> Contents \cup {Missing}]
      /\ file \in Contents \cup {Missing} /\ tmp \in Contents \cup {Missing}
      /\ prev \in {"same", "older", "none"} /\ fd \in [Handlers -> {"tmp", "file", "gone"}]
  BY <1>1 DEF TypeOK, HandlerStates
<1>b. /\ lastGood \in Contents /\ served \in Contents /\ replaced \in Contents
      /\ pending \in Handlers \cup {Nobody} /\ history \in Seq(Contents)
      /\ active \in Nat /\ handEdits \in Nat /\ faults \in Nat
      /\ unarchived \subseteq Contents
  BY <1>1 DEF TypeOK
<1>c. /\ running \in BOOLEAN /\ dirty \in BOOLEAN /\ valid \in BOOLEAN
      /\ buildFailed \in BOOLEAN /\ unannounced \in BOOLEAN
  BY <1>1 DEF TypeOK
<1>d. Empty \in Contents
  BY DEF Empty, Contents, Configs
(* The parts of TypeOK that a step can touch on its own. *)
<1>2. /\ at' \in [Callers -> {"idle", "enter", "begin", "pass", "check"}]
      /\ step' \in [Callers -> {"none", "build", "archive", "swap", "retire"}]
      /\ raw' \in [Callers -> Contents \cup {Missing}]
  <2>1. CASE Outside
    BY <1>a, <2>1 DEF Outside, runnerVars, passLocals
  <2>2. ASSUME NEW c \in Callers, Call(c), UNCHANGED <<passLocals, serverVars>>
        PROVE  <1>2
    BY <1>a, <2>2 DEF Call, Moves, passLocals
  <2>3. ASSUME NEW c \in Callers, Pass(c)
        PROVE  <1>2
    <3>1. CASE Trigger(c)
      BY <1>a, <3>1 DEF Trigger, Join, Lead, Again, Finish, Moves, passLocals
    <3>2. CASE BeginPass(c)
      BY <1>a, <3>2 DEF BeginPass, Begin, Steps, Moves
    <3>3. CASE BuildServer(c) \/ RetireServer(c)
      BY <1>a, <3>3 DEF BuildServer, RetireServer, Ends, Return, Steps, Moves, runnerVars
    <3>4. CASE ArchiveOld(c) \/ SwapServer(c)
      BY <1>a, <3>4 DEF ArchiveOld, SwapServer, Steps, runnerVars
    <3> QED
      BY <2>3, <3>1, <3>2, <3>3, <3>4 DEF Pass
  <2> QED
    BY <2>1, <2>2, <2>3, StepKinds
<1>3. /\ hs' \in [Handlers -> HandlerStates]
      /\ job' \in [Handlers -> Edits \cup {"rollback", "reload"}]
      /\ srv' \in [Handlers -> Nat]
      /\ copy' \in [Handlers -> Contents \cup {Missing}]
  <2>1. ASSUME NEW h \in Handlers, Handle(h)
        PROVE  <1>3
    <3>1. hs'[h] \in HandlerStates
      BY <1>a, <2>1 DEF Handle, Goes, Arrive, ReadRoot, FindSnapshot, OpenFile, WriteOut, Rename,
                        Stage, CheckFile, Flag, TriggerReload, HandlerStates
    <3>2. job'[h] \in Edits \cup {"rollback", "reload"} /\ srv'[h] \in Nat
      BY <1>a, <1>b, <2>1, HandlerMoves
    <3>3. copy'[h] \in Contents \cup {Missing}
      <4>1. CASE ReadRoot(h) \/ FindSnapshot(h)
        <5>1. copy' = copy \/ hs'[h] = "open"
          BY <1>a, <4>1 DEF ReadRoot, FindSnapshot, Goes
        <5>2. CopyInv'
          BY CopyStep
        <5> QED
          BY <1>a, <5>1, <5>2 DEF CopyInv, Contents
      <4>2. CASE ~ReadRoot(h) /\ ~FindSnapshot(h)
        BY <1>a, <2>1, <4>2 DEF Handle, Arrive, OpenFile, WriteOut, Rename, Stage, CheckFile, Flag, TriggerReload
      <4> QED
        BY <4>1, <4>2
    <3> QED
      BY <1>a, <2>1, <3>1, <3>2, <3>3, HandlerMoves
  <2>2. CASE UNCHANGED handlerVars
    BY <1>a, <2>2 DEF handlerVars
  <2> QED
    BY <2>1, <2>2, HandlersOnly
<1>4. /\ file' \in Contents \cup {Missing} /\ tmp' \in Contents \cup {Missing}
      /\ prev' \in {"same", "older", "none"} /\ fd' \in [Handlers -> {"tmp", "file", "gone"}]
  <2>1. CASE HandEdit \/ WatcherFires \/ WatcherSeesNoFile \/ UNCHANGED vars
    BY <1>a, <2>1, ContentsAssumption DEF HandEdit, Write, Detached, WatcherFires, WatcherSeesNoFile, vars, fileVars
  <2>2. ASSUME NEW h \in Handlers, Handle(h)
        PROVE  <1>4
    <3>1. CASE OpenFile(h) \/ Rename(h)
      BY <1>a, <1>d, <3>1 DEF OpenFile, Rename, Write, fileVars
    <3>2. CASE WriteOut(h)
      <4>1. copy[h] \in Contents /\ Garbled \in Contents
        BY <1>1, <3>2 DEF WriteOut, Goes, CopyInv, Contents
      <4>2. PICK content \in Contents : Puts(h, content)
        BY <1>d, <3>2, <4>1 DEF WriteOut, Tails
      <4> QED
        BY <1>a, <4>2 DEF Puts, Write
    <3>3. CASE ~OpenFile(h) /\ ~WriteOut(h) /\ ~Rename(h)
      BY <1>a, <2>2, <3>3 DEF Handle, Arrive, ReadRoot, FindSnapshot, Stage, CheckFile, Flag, TriggerReload, fileVars
    <3> QED
      BY <3>1, <3>2, <3>3
  <2>3. ASSUME NEW c \in Callers, Pass(c)
        PROVE  <1>4
    <3>1. UNCHANGED <<file, tmp, fd, prev>>
      BY <2>3 DEF Pass, Trigger, BeginPass, BuildServer, ArchiveOld, SwapServer, RetireServer, NoHandler, fileVars
    <3> QED
      BY <1>a, <3>1
  <2> QED
    BY <2>1, <2>2, <2>3 DEF Next
<1>5. /\ lastGood' \in Contents /\ served' \in Contents /\ replaced' \in Contents
      /\ pending' \in Handlers \cup {Nobody} /\ history' \in Seq(Contents)
      /\ active' \in Nat /\ handEdits' \in Nat /\ faults' \in Nat
      /\ unarchived' \subseteq Contents
  <2>1. CASE HandEdit \/ WatcherFires \/ WatcherSeesNoFile \/ UNCHANGED vars
    <3>1. /\ UNCHANGED <<lastGood, served, replaced, pending, history, active, faults, unarchived>>
          /\ handEdits' \in {handEdits, handEdits + 1}
      BY <2>1 DEF HandEdit, WatcherFires, WatcherSeesNoFile, vars, stateVars, serverVars, envVars, ghostVars
    <3> QED
      BY <1>b, <3>1
  <2>2. ASSUME NEW h \in Handlers, Handle(h)
        PROVE  <1>5
    <3>1. UNCHANGED <<lastGood, history, serverVars, replaced, unarchived, handEdits>>
      BY <2>2 DEF Handle, NoPass, Arrive, ReadRoot, FindSnapshot, OpenFile, WriteOut, Rename, Stage, CheckFile,
                  Flag, TriggerReload, stateVars, ghostVars, envVars
    <3>2. pending' \in {pending, h}
      BY <2>2 DEF Handle, Arrive, ReadRoot, FindSnapshot, OpenFile, WriteOut, Rename, Stage, CheckFile,
                  Flag, TriggerReload, SetPending, stateVars
    <3>3. faults' \in {faults, faults + 1}
      BY <2>2 DEF Handle, Arrive, ReadRoot, FindSnapshot, OpenFile, WriteOut, Rename, Stage, CheckFile,
                  Flag, TriggerReload, Fault, envVars
    <3> QED
      BY <1>b, <3>1, <3>2, <3>3 DEF serverVars
  <2>3. ASSUME NEW c \in Callers, Pass(c)
        PROVE  <1>5
    <3>1. CASE Trigger(c) \/ BeginPass(c)
      BY <1>b, <3>1 DEF Trigger, BeginPass, NoHandler, stateVars, serverVars, ghostVars
    <3>2. CASE BuildServer(c)
      <4>1. UNCHANGED <<lastGood, served, replaced, pending, history, active, handEdits, unarchived>>
        BY <3>2 DEF BuildServer, NoHandler
      <4>3. faults' \in {faults, faults + 1}
        BY <3>2 DEF BuildServer, Fault
      <4> QED
        BY <1>b, <4>1, <4>3
    <3>3. CASE ArchiveOld(c)
      <4>1. history' \in Seq(Contents)
        <5>1. CASE SnapshotConfig(lastGood, Keep[raw[c]], Empty)
          <6>1. Keep[raw[c]] \in Nat
            BY <3>3, RawIsConfig, KeepAssumption DEF ArchiveOld, Steps
          <6> QED
            BY <1>b, <5>1, <6>1, SnapshotIsArchived
        <5>2. CASE SnapshotFails(lastGood)
          <6>1. history' = history \/ history' = <<lastGood>> \o history
            BY <5>2 DEF SnapshotFails
          <6>2. <<lastGood>> \o history \in Seq(Contents)
            BY <1>b
          <6> QED
            BY <1>b, <6>1, <6>2
        <5> QED
          BY <3>3, <5>1, <5>2 DEF ArchiveOld
      <4> QED
        BY <1>b, <3>3, <4>1 DEF ArchiveOld, TakePending, NoHandler, Fault, serverVars
    <3>4. CASE SwapServer(c)
      <4>1. raw[c] \in Contents
        BY <1>1, <3>4 DEF SwapServer, Steps, PassInv
      <4> QED
        BY <1>b, <3>4, <4>1 DEF SwapServer, SetLastGood, NoHandler
    <3>5. CASE RetireServer(c)
      BY <1>b, <3>5 DEF RetireServer, NoHandler, stateVars, serverVars, ghostVars
    <3> QED
      BY <2>3, <3>1, <3>2, <3>3, <3>4, <3>5 DEF Pass
  <2> QED
    BY <2>1, <2>2, <2>3 DEF Next
<1>6. /\ running' \in {running, TRUE, FALSE} /\ dirty' \in {dirty, TRUE, FALSE}
      /\ valid' \in {valid, TRUE, FALSE}
      /\ buildFailed' \in {buildFailed, TRUE, FALSE} /\ unannounced' \in {unannounced, TRUE, FALSE}
  <2>1. CASE HandEdit \/ WatcherFires \/ WatcherSeesNoFile \/ UNCHANGED vars
    BY <2>1 DEF HandEdit, WatcherFires, WatcherSeesNoFile, Call, vars, stateVars, ghostVars, runnerVars
  <2>2. ASSUME NEW h \in Handlers, Handle(h)
        PROVE  <1>6
    BY <2>2 DEF Handle, NoPass, Arrive, ReadRoot, FindSnapshot, OpenFile, WriteOut, Rename, Stage, CheckFile,
                Flag, TriggerReload, Call, SetInvalid, stateVars, ghostVars, runnerVars
  <2>3. ASSUME NEW c \in Callers, Pass(c)
        PROVE  <1>6
    BY <2>3 DEF Pass, Trigger, Join, Lead, Again, Finish, BeginPass, Begin, BuildServer, ArchiveOld, SwapServer,
                RetireServer, Ends, Return, SetInvalid, SetValid, stateVars, ghostVars, runnerVars
  <2> QED
    BY <2>1, <2>2, <2>3 DEF Next
<1>7. /\ running' \in BOOLEAN /\ dirty' \in BOOLEAN /\ valid' \in BOOLEAN
      /\ buildFailed' \in BOOLEAN /\ unannounced' \in BOOLEAN
  BY <1>c, <1>6
<1> QED
  BY <1>2, <1>3, <1>4, <1>5, <1>7 DEF TypeOK, HandlerStates
-----------------------------------------------------------------------------
(* Theorems. *)

(* The inductive invariant.                                                *)
THEOREM Invariance == Spec => []IInv
<1>1. ASSUME IInv, [Next]_vars PROVE IInv'
  BY <1>1, TypeStep, RunnerStep, PassStep, CopyStep, MutexStep, CoveredStep, AttributionStep, ArchiveStep, EditStep
     DEF IInv
<1> QED
  BY InitIInv, <1>1, PTL DEF Spec

(* The state of reloads is well typed.                                     *)
THEOREM TypeCorrect == Spec => []TypeOK
<1>1. IInv => TypeOK
  BY DEF IInv
<1> QED
  BY Invariance, <1>1, PTL

(* fn runs at most once concurrently, for any number of callers of the     *)
(* trigger function (NewCoalescingRunner).                                 *)
THEOREM NeverOverlap == Spec => []PassesNeverOverlap
<1>1. IInv => PassesNeverOverlap
  BY DEF IInv, RunnerInv
<1> QED
  BY Invariance, <1>1, PTL

(* No trigger of a reload is lost, for any handlers, edits and disk        *)
(* failures: at rest, a file that has been announced is in use or refused, *)
(* unless server.New failed.                                               *)
THEOREM Convergence == Spec => []Converged
<1>1. IInv => Converged
  <2> SUFFICES ASSUME IInv, Quiet PROVE IF Loads(file) THEN served = file ELSE ~valid
    BY DEF Converged
  <2>1. /\ \A c \in Callers : at[c] = "idle" /\ step[c] = "none"
        /\ ~dirty
    BY DEF Quiet, IInv, TypeOK, RunnerInv, Leading
  <2>2. ~WillRead /\ ~buildFailed
    BY <2>1 DEF Quiet, WillRead
  <2> QED
    BY <2>1, <2>2 DEF IInv, CoveredInv
<1> QED
  BY Invariance, <1>1, PTL

(* No attribution is left staged at rest with a file that is in use        *)
(* (SetPending, TakePending); one staged for a file that is then refused   *)
(* is, and goes to the next reload that succeeds.                          *)
THEOREM AttributionTaken == Spec => []NoAttributionLeftBehind
<1>1. IInv => NoAttributionLeftBehind
  <2> SUFFICES ASSUME IInv, Quiet, Loads(file) PROVE pending = Nobody
    BY DEF NoAttributionLeftBehind
  <2>1. /\ \A c \in Callers : at[c] = "idle" /\ step[c] = "none"
        /\ ~dirty
    BY DEF Quiet, IInv, TypeOK, RunnerInv, Leading
  <2>2. ~WillRead /\ ~buildFailed
    BY <2>1 DEF Quiet, WillRead
  <2> QED
    BY <2>1, <2>2 DEF IInv, AttributionInv
<1> QED
  BY Invariance, <1>1, PTL

(* A transition can be undone: its predecessor is archived (ArchiveOld),   *)
(* whatever the retention settings, unless the snapshot failed or those of *)
(* the configuration that replaced it retain nothing.                      *)
THEOREM TransitionsCanBeUndone == Spec => []ReplacedIsArchived
<1>1. IInv => ReplacedIsArchived
  BY DEF IInv, ArchiveInv, ReplacedIsArchived
<1> QED
  BY Invariance, <1>1, PTL

(* configMu protects acknowledged edits, among the calls of one Server.    *)
THEOREM EditsSurvive == Spec => []AckedEditsSurviveOnOneServer
<1>1. IInv => AckedEditsSurviveOnOneServer
  BY DEF IInv, EditInv, OneServer, AckedEditsSurvive, AckedEditsSurviveOnOneServer
<1> QED
  BY Invariance, <1>1, PTL

(* The runner, called by the handlers and the watcher of a program that    *)
(* reloads, implements PassPerTrigger: no trigger is lost and no pass      *)
(* begins while another is running.                                        *)
THEOREM OnePassPerTrigger == Spec => Passes!PassSpec
<1> USE DEF Passes!passVars, Passes!PassNext, Passes!Request, Passes!Start, Passes!End
<1>1. Init => Passes!PassInit
  BY DEF Init, RunnerInit, Passes!PassInit
<1>2. ASSUME IInv, [Next]_vars
      PROVE  [Passes!PassNext]_(Passes!passVars)
  <2>1. RunnerInv /\ at \in [Callers -> {"idle", "enter", "begin", "pass", "check"}]
    BY <1>2 DEF IInv, TypeOK
  <2>2. CASE UNCHANGED runnerVars
    BY <2>2 DEF runnerVars
  <2>3. ASSUME NEW c \in Callers, Call(c)
        PROVE  Passes!Request
    BY <2>1, <2>3 DEF Call, Moves
  <2>4. ASSUME NEW c \in Callers, Pass(c)
        PROVE  [Passes!PassNext]_(Passes!passVars)
    <3>1. CASE Join(c)
      BY <2>1, <3>1 DEF Join, Moves
    <3>2. CASE Lead(c)
      BY <2>1, <3>2 DEF Lead, Moves
    <3>3. CASE Again(c)
      BY <2>1, <3>3 DEF Again, Moves
    <3>4. CASE Finish(c)
      BY <2>1, <3>4 DEF Finish, Moves
    <3>5. CASE BeginPass(c)
      BY <2>1, <3>5 DEF BeginPass, Begin, Steps, Moves, RunnerInv, PassesNeverOverlap, Leading, Reloading
    <3>6. CASE Return(c)
      BY <2>1, <3>6 DEF Return, Moves, RunnerInv, PassesNeverOverlap, Leading
    <3>7. CASE UNCHANGED runnerVars
      BY <3>7 DEF runnerVars
    <3> QED
      BY <2>4, <3>1, <3>2, <3>3, <3>4, <3>5, <3>6, <3>7
         DEF Pass, Trigger, BuildServer, ArchiveOld, SwapServer, RetireServer, Ends
  <2> QED
    BY <1>2, <2>2, <2>3, <2>4, StepKinds DEF Outside
<1> QED
  BY <1>1, <1>2, Invariance, PTL DEF Spec, Passes!PassSpec
=============================================================================
