----------------------------- MODULE Operation -----------------------------
(***************************************************************************)
(* Model installs (internal/operation and apimodeloperations.go): the JSON *)
(* record of each operation, the executor that drives it, the cancel       *)
(* handler, recovery at start and at every reload, the partial files the   *)
(* operations download into, and the reclaiming of storage after each run. *)
(*                                                                         *)
(* Store.Save is two steps, the check of the stored phase and the write,   *)
(* because Store.mu belongs to one Store and every server.New makes a new  *)
(* one over the same directory: `store` says which of them an actor uses.  *)
(* stopIfCancelled is folded into the check, which rejects what it detects *)
(* and more. A crash between the two steps leaves the record as it was.    *)
(*                                                                         *)
(* A file is the sequence of the units of a read that were written to it,  *)
(* each known by the revision of the repository it is from and its place   *)
(* there: destinations are the same for every revision. An open file is    *)
(* known by what its inode is now: still the .part, renamed to the         *)
(* destination, or unlinked. A digest is that of the plan's revision.      *)
(*                                                                         *)
(* The disk may refuse a save, a removal or a rename. A record that is     *)
(* there can be read.                                                      *)
(*                                                                         *)
(* Bounds: every operation is created once; MaxFaults bounds the cancels,  *)
(* reloads, terminations, crashes and refusals of the disk together;       *)
(* MaxOverrun bounds what an origin sends beyond the size in the plan.     *)
(***************************************************************************)
EXTENDS Naturals, Sequences, FiniteSets

CONSTANTS
    Ops,          \* the operations submitted
    Destinations, \* the files they install
    Artifacts,    \* each operation's destinations, in plan order
    Revisions, Revision,    \* the revision each plan names
    Size,         \* its size_bytes of each artifact
    Digested,     \* the operations whose plan gives digests
    Hole,         \* what a file reads as where nothing was written
    Found,        \* what the models directory may hold beforehand
    MaxTerminal,  \* maxTerminalOperations
    FaultKinds, MaxFaults, MaxOverrun

AllFaultKinds == {"cancel", "reload", "exit", "crash", "disk"}
Units == [of : Revisions, at : Nat]
Files == [there : BOOLEAN, data : Seq(Units \cup {Hole})]
NoFile == [there |-> FALSE, data |-> <<>>]

ASSUME ArtifactsAssumption == Artifacts \in [Ops -> Seq(Destinations)]
ASSUME PlanAssumption ==
    Revision \in [Ops -> Revisions] /\ Size \in [Ops -> [Destinations -> Nat \ {0}]]
ASSUME FoundAssumption ==
    Found \subseteq [part : [Destinations -> Files], dest : [Destinations -> Files]]
ASSUME BoundAssumption ==
    {MaxTerminal, MaxFaults, MaxOverrun} \subseteq Nat /\ FaultKinds \subseteq AllFaultKinds

happyPath == <<"queued", "preflighting", "resolving", "downloading", "verifying",
               "installing", "registering", "reloading", "succeeded">>
Happy == {happyPath[i] : i \in 1..9}
Phase == Happy \cup {"cancelled", "failed"}
Terminal(p) == p \in {"succeeded", "cancelled", "failed"}

VARIABLES
    record,      \* the state directory
    older,       \* the operations created before each
    \* the executors
    pc,          \* new, accepted (by a server), run, write (Save's check has passed),
                 \* reclaim, sweep, drop, done, dead (its process crashed)
    phase,       \* Operation.Phase of its own copy
    store,       \* the Store (and server) it was created with
    step,        \* in downloadOne: stat, get, copy
    art,         \* artifacts of this phase done
    fd,          \* the open partial file and the position in the response
    todo,        \* files to remove, then records to prune
    \* the cancel handler of each operation: idle, loaded, write
    cancel, cancelStore,
    \* the models directory and the config file
    part, dest, registered,
    \* the process: booting, up, reloading (in server.New), swapped
    srv, cur,    \* cur is the Store of the active server
    stopped,     \* Stores whose server's shutdownCtx is cancelled
    exiting,     \* SIGTERM has been handled
    recovery,    \* Recover: the stale copies still to be saved
    faults,
    \* history: destinations two operations got in each other's way on; the
    \* operations that have installed each file as it is now; operations under
    \* way when the configuration was reloaded; those whose record was pruned;
    \* those whose record does not have what it should, because a save failed;
    \* and partial files that a failure made reclaiming pass over
    clash, installed, reloadedOver, pruned, unsaved, missed

dirVars == <<record, older, pruned>>
execVars == <<pc, phase, store, step, art, fd, todo>>
cancelVars == <<cancel, cancelStore>>
fileVars == <<part, dest, registered, clash, installed>>
serverVars == <<srv, cur, stopped, exiting, recovery, reloadedOver>>
faultVars == <<faults, unsaved, missed>>
srvVars == <<serverVars, faultVars>>
vars == <<record, older, pc, phase, store, step, art, fd, todo, cancel, cancelStore,
          part, dest, registered, clash, installed, srv, cur, stopped, exiting, recovery,
          faults, reloadedOver, pruned, unsaved, missed>>

NoRecord == [phase |-> "none", interrupted |-> FALSE]
Closed == [to |-> "none", append |-> FALSE, pos |-> 0]

Init ==
    /\ record = [o \in Ops |-> NoRecord] /\ older = [o \in Ops |-> {}]
    /\ pc = [o \in Ops |-> "new"] /\ phase = [o \in Ops |-> "queued"]
    /\ store = [o \in Ops |-> 1] /\ step = [o \in Ops |-> "stat"]
    /\ art = [o \in Ops |-> 0] /\ fd = [o \in Ops |-> Closed]
    /\ todo = [o \in Ops |-> {}]
    /\ cancel = [o \in Ops |-> "idle"] /\ cancelStore = [o \in Ops |-> 1]
    /\ \E models \in Found : part = models.part /\ dest = models.dest
    /\ registered = {} /\ clash = {} /\ installed = [f \in Destinations |-> {}]
    /\ srv = "up" /\ cur = 1 /\ stopped = {} /\ exiting = FALSE
    /\ recovery = [at |-> "check", todo |-> {}]
    /\ faults = [k \in AllFaultKinds |-> 0]
    /\ reloadedOver = {} /\ pruned = {} /\ unsaved = {} /\ missed = {}

Fault(k) ==
    /\ k \in FaultKinds
    /\ faults["cancel"] + faults["reload"] + faults["exit"] + faults["crash"]
          + faults["disk"] < MaxFaults
    /\ faults' = [faults EXCEPT ![k] = @ + 1]

FilesOf(o) == {Artifacts[o][i] : i \in 1..Len(Artifacts[o])}
Begun(o) == pc[o] \notin {"new", "accepted"}
Live(o) == pc[o] \in {"run", "write"}
Unfinished(o) == record[o].phase \notin {"none", "succeeded", "cancelled", "failed"}

-----------------------------------------------------------------------------
(* Store. *)

(* Mutant: a Store without mu. *)
Locked_Never(s) == FALSE

(* Store.mu: somebody is between Save's check and its write. *)
Locked(s) == \E o \in Ops : \/ pc[o] = "write" /\ store[o] = s
                            \/ cancel[o] = "write" /\ cancelStore[o] = s

(* Save's check: a terminal record is not overwritten with another phase. *)
Passes(o, p) == Terminal(record[o].phase) => record[o].phase = p

Put(o, p, i) == record' = [record EXCEPT ![o] = [phase |-> p, interrupted |-> i]]

(* Save's write: what the record should have is there, or the disk refuses *)
(* it and the record stays as it was.                                      *)
Saves(o, p, i) ==
    /\ Put(o, p, i)
    /\ unsaved' = unsaved \ {o}
    /\ UNCHANGED faults

SaveFails(behind) ==
    /\ Fault("disk")
    /\ unsaved' = unsaved \cup behind
    /\ UNCHANGED record

(* Prune's victims: terminal records with MaxTerminal newer terminal ones. *)
Prunable ==
    LET terminal == {o \in Ops : Terminal(record[o].phase)}
    IN  {o \in terminal : Cardinality({q \in terminal : o \in older[q]}) >= MaxTerminal}

-----------------------------------------------------------------------------
(* handleAPICreateModelOperation: a server has the request ...             *)
Accept(o) ==
    /\ pc[o] = "new" /\ srv # "booting"
    /\ pc' = [pc EXCEPT ![o] = "accepted"]
    /\ store' = [store EXCEPT ![o] = cur]
    /\ UNCHANGED <<phase, step, art, fd, todo>>
    /\ UNCHANGED dirVars /\ UNCHANGED cancelVars /\ UNCHANGED fileVars /\ UNCHANGED srvVars

(* ... the record is saved, the executor started. Nobody else knows the id  *)
(* yet, so the save's check and its write are one step here. If it fails    *)
(* the client is told, and may submit the plan again.                       *)
Create(o) ==
    /\ pc[o] = "accepted" /\ ~Locked(store[o])
    /\ \/ /\ Put(o, "queued", FALSE)
          /\ older' = [older EXCEPT ![o] = {q \in Ops : Begun(q)}]
          /\ pc' = [pc EXCEPT ![o] = "run"]
          /\ clash' = clash \cup {f \in FilesOf(o) : \E q \in Ops : Live(q) /\ f \in FilesOf(q)}
          /\ UNCHANGED faults
       \/ /\ Fault("disk")
          /\ pc' = [pc EXCEPT ![o] = "new"]
          /\ UNCHANGED <<record, older, clash>>
    /\ UNCHANGED <<pruned, phase, store, step, art, fd, todo, part, dest, registered, installed>>
    /\ UNCHANGED <<unsaved, missed>> /\ UNCHANGED cancelVars /\ UNCHANGED serverVars

(* advance / saveProgress / terminate, up to Save's check. A rejected save   *)
(* ends the run: the stored record already says how the operation ended.     *)
SaveAs(o, p) ==
    /\ ~Locked(store[o])
    /\ phase' = [phase EXCEPT ![o] = p]
    /\ pc' = [pc EXCEPT ![o] = IF Passes(o, p) THEN "write" ELSE "reclaim"]

(* ... and its write. When it fails that is logged and the executor goes on *)
(* as if it had not, or ends: then nobody will look for its partial files.  *)
Write(o) ==
    /\ pc[o] = "write"
    /\ \/ Saves(o, phase[o], FALSE) /\ UNCHANGED missed
       \/ /\ SaveFails({o})
          /\ missed' = missed \cup {f \in FilesOf(o) : Terminal(phase[o])}
    /\ pc' = [pc EXCEPT ![o] = IF Terminal(phase[o]) THEN "reclaim" ELSE "run"]
    /\ UNCHANGED <<older, pruned, phase, store, step, art, fd, todo>>
    /\ UNCHANGED cancelVars /\ UNCHANGED fileVars /\ UNCHANGED serverVars

(* Mutant: registering is over at once. *)
WorkDone_Registering(o) ==
    phase[o] \in {"downloading", "verifying", "installing"} => art[o] = Len(Artifacts[o])

(* Run: the work of the phase is done. *)
WorkDone(o) ==
    CASE phase[o] \in {"downloading", "verifying", "installing"} -> art[o] = Len(Artifacts[o])
      [] phase[o] = "registering" -> art[o] = 1
      [] OTHER -> TRUE

PhaseAfter(p) == happyPath[1 + CHOOSE i \in 1..8 : happyPath[i] = p]

advance(o) ==
    /\ pc[o] = "run" /\ WorkDone(o)
    /\ SaveAs(o, PhaseAfter(phase[o]))
    /\ art' = [art EXCEPT ![o] = 0]
    /\ UNCHANGED <<store, step, fd, todo>>
    /\ UNCHANGED dirVars /\ UNCHANGED cancelVars /\ UNCHANGED fileVars /\ UNCHANGED srvVars

(* finish: a step failed, the partial file stays. *)
Fail(o) ==
    /\ SaveAs(o, "failed")
    /\ fd' = [fd EXCEPT ![o] = Closed]
    /\ UNCHANGED <<store, step, art, todo>>
    /\ UNCHANGED dirVars /\ UNCHANGED cancelVars /\ UNCHANGED fileVars /\ UNCHANGED srvVars

(* The disk is full, a path no longer resolves, the origin or the network   *)
(* refuses, the config cannot be written.                                   *)
StepFails(o) ==
    /\ pc[o] = "run"
    /\ \/ phase[o] \in {"preflighting", "resolving"}
       \/ phase[o] = "downloading" /\ step[o] \in {"get", "copy"}
       \/ phase[o] = "registering" /\ art[o] = 0
    /\ Fail(o)

(* downloadOne's loop finds its server's shutdownCtx cancelled; so does doGet. *)
DownloadAborted(o) ==
    /\ pc[o] = "run" /\ phase[o] = "downloading" /\ step[o] \in {"get", "copy"}
    /\ store[o] \in stopped
    /\ Fail(o)

-----------------------------------------------------------------------------
(* downloadOne. *)

Downloading(o) == pc[o] = "run" /\ phase[o] = "downloading" /\ art[o] < Len(Artifacts[o])
Current(o) == Artifacts[o][art[o] + 1]
Length(x) == Len(x.data)

(* The artifact is there already, or its partial file is long enough. The   *)
(* result of saveProgress is not looked at here.                            *)
SkipArtifact(o) ==
    /\ Downloading(o) /\ step[o] = "stat" /\ ~Locked(store[o])
    /\ \/ Length(dest[Current(o)]) = Size[o][Current(o)]
       \/ Length(part[Current(o)]) >= Size[o][Current(o)]
    /\ art' = [art EXCEPT ![o] = @ + 1]
    /\ pc' = [pc EXCEPT ![o] = IF Passes(o, "downloading") THEN "write" ELSE "run"]
    /\ UNCHANGED <<phase, store, step, fd, todo>>
    /\ UNCHANGED dirVars /\ UNCHANGED cancelVars /\ UNCHANGED fileVars /\ UNCHANGED srvVars

(* The size of the partial file is what the request will resume from. *)
StatPartial(o) ==
    /\ Downloading(o) /\ step[o] = "stat"
    /\ Length(dest[Current(o)]) # Size[o][Current(o)]
    /\ Length(part[Current(o)]) < Size[o][Current(o)]
    /\ step' = [step EXCEPT ![o] = "get"]
    /\ fd' = [fd EXCEPT ![o].pos = Length(part[Current(o)])]
    /\ UNCHANGED <<pc, phase, store, art, todo>>
    /\ UNCHANGED dirVars /\ UNCHANGED cancelVars /\ UNCHANGED fileVars /\ UNCHANGED srvVars

(* fetchArtifact and the open: the origin honours the range and the file is  *)
(* appended to, or it does not and the file starts again from nothing.       *)
OpenPartial(o) ==
    /\ Downloading(o) /\ step[o] = "get" /\ store[o] \notin stopped
    /\ \E resuming \in BOOLEAN :
        /\ resuming => fd[o].pos > 0
        /\ fd' = [fd EXCEPT ![o] = [to |-> "part", append |-> resuming,
                                   pos |-> IF resuming THEN @.pos ELSE 0]]
        /\ part' = [part EXCEPT ![Current(o)] =
                        IF resuming /\ @.there THEN @ ELSE [NoFile EXCEPT !.there = TRUE]]
    /\ step' = [step EXCEPT ![o] = "copy"]
    /\ UNCHANGED <<pc, phase, store, art, todo, dest, registered, clash, installed>>
    /\ UNCHANGED dirVars /\ UNCHANGED cancelVars /\ UNCHANGED srvVars

(* A unit reaches file x at a place in it, beyond its end perhaps. *)
Longer(m, n) == IF m < n THEN n ELSE m
Written(x, place, unit) ==
    [there |-> TRUE,
     data  |-> [i \in 1..Longer(Length(x), place + 1) |->
                    IF i = place + 1 THEN unit ELSE IF i <= Length(x) THEN x.data[i] ELSE Hole]]

(* A read and a write, which appends or goes where the response is; every   *)
(* saveEvery bytes, progress is saved as well.                              *)
CopyUnit(o) ==
    /\ Downloading(o) /\ step[o] = "copy" /\ store[o] \notin stopped
    /\ fd[o].pos < Size[o][Current(o)] + MaxOverrun
    /\ LET f == Current(o)
           unit == [of |-> Revision[o], at |-> fd[o].pos]
           grow(x) == Written(x, IF fd[o].append THEN Length(x) ELSE fd[o].pos, unit)
       IN  /\ part' = IF fd[o].to = "part" THEN [part EXCEPT ![f] = grow(@)] ELSE part
           /\ dest' = IF fd[o].to = "dest" THEN [dest EXCEPT ![f] = grow(@)] ELSE dest
    /\ fd' = [fd EXCEPT ![o].pos = @ + 1]
    /\ \/ UNCHANGED <<pc, phase>>
       \/ SaveAs(o, "downloading")
    /\ UNCHANGED <<store, step, art, todo, registered, clash, installed>>
    /\ UNCHANGED dirVars /\ UNCHANGED cancelVars /\ UNCHANGED srvVars

(* The response ends, wherever that is; the file is synced and closed,      *)
(* progress saved.                                                          *)
CopyDone(o) ==
    /\ Downloading(o) /\ step[o] = "copy"
    /\ SaveAs(o, "downloading")
    /\ step' = [step EXCEPT ![o] = "stat"]
    /\ fd' = [fd EXCEPT ![o] = Closed]
    /\ art' = [art EXCEPT ![o] = @ + 1]
    /\ UNCHANGED <<store, todo>>
    /\ UNCHANGED dirVars /\ UNCHANGED cancelVars /\ UNCHANGED fileVars /\ UNCHANGED srvVars

-----------------------------------------------------------------------------
(* verify and install, one artifact at a time; Register. *)

(* What the plan says of a file: its size, and its digest if it gives one. *)
AsPlanned(o, f, x) ==
    /\ Length(x) = Size[o][f]
    /\ o \in Digested =>
          \A i \in 1..Length(x) : x.data[i] = [of |-> Revision[o], at |-> i - 1]

(* Mutant: the digest is compared only with a file that is still a .part. *)
Verified_PartOnly(o, f) ==
    IF part[f].there THEN AsPlanned(o, f, part[f])
    ELSE dest[f].there /\ Length(dest[f]) = Size[o][f]

(* The .part if there is one, else what is installed. *)
Verified(o, f) ==
    LET x == IF part[f].there THEN part[f] ELSE dest[f]
    IN  x.there /\ AsPlanned(o, f, x)

verify(o) ==
    /\ pc[o] = "run" /\ phase[o] = "verifying" /\ art[o] < Len(Artifacts[o])
    /\ Verified(o, Current(o))
    /\ art' = [art EXCEPT ![o] = @ + 1]
    /\ UNCHANGED <<pc, phase, store, step, fd, todo>>
    /\ UNCHANGED dirVars /\ UNCHANGED cancelVars /\ UNCHANGED fileVars /\ UNCHANGED srvVars

VerifyFails(o) ==
    /\ pc[o] = "run" /\ phase[o] = "verifying" /\ art[o] < Len(Artifacts[o])
    /\ ~Verified(o, Current(o))
    /\ Fail(o)

Writes(q, f) == fd[q].to # "none" /\ Current(q) = f

(* os.Rename of f's .part: open files follow their inode. *)
FdsAfterRename(f) ==
    [q \in Ops |-> IF Writes(q, f)
                   THEN [fd[q] EXCEPT !.to = IF @ = "part" THEN "dest" ELSE "gone"] ELSE fd[q]]

(* os.Remove of f's .part. *)
FdsAfterRemove(f) ==
    [q \in Ops |-> IF Writes(q, f) /\ fd[q].to = "part"
                   THEN [fd[q] EXCEPT !.to = "gone"] ELSE fd[q]]

install(o) ==
    /\ pc[o] = "run" /\ phase[o] = "installing" /\ art[o] < Len(Artifacts[o])
    /\ LET f == Current(o) IN
        IF part[f].there
        THEN /\ dest' = [dest EXCEPT ![f] = part[f]]
             /\ part' = [part EXCEPT ![f] = NoFile]
             /\ fd' = FdsAfterRename(f)
             /\ installed' = [installed EXCEPT ![f] = {o}]
        ELSE /\ dest[f].there
             /\ installed' = [installed EXCEPT ![f] = @ \cup {o}]
             /\ UNCHANGED <<dest, part, fd>>
    /\ art' = [art EXCEPT ![o] = @ + 1]
    /\ UNCHANGED <<pc, phase, store, step, todo, registered, clash>>
    /\ UNCHANGED dirVars /\ UNCHANGED cancelVars /\ UNCHANGED srvVars

(* There is nothing to rename, or the rename fails. *)
InstallFails(o) ==
    /\ pc[o] = "run" /\ phase[o] = "installing" /\ art[o] < Len(Artifacts[o])
    /\ part[Current(o)].there \/ ~dest[Current(o)].there
    /\ Fail(o)

(* registerInstalledModel: the model is written to the config; a reload      *)
(* follows, which here may come at any time. What becomes of the file then,  *)
(* edits, removals, or a lost update between two servers, is Reload's.       *)
Register(o) ==
    /\ pc[o] = "run" /\ phase[o] = "registering" /\ art[o] = 0
    /\ registered' = registered \cup {o}
    /\ art' = [art EXCEPT ![o] = 1]
    /\ UNCHANGED <<pc, phase, store, step, fd, todo, part, dest, clash, installed>>
    /\ UNCHANGED dirVars /\ UNCHANGED cancelVars /\ UNCHANGED srvVars

-----------------------------------------------------------------------------
(* reclaimOperationStorage, after Run has returned. *)

(* Mutant: only the first artifact is thought of. *)
Abandoned_First ==
    {Artifacts[q][1] : q \in {q \in Ops : record[q].phase = "cancelled"}}

Abandoned == UNION {FilesOf(q) : q \in {q \in Ops : record[q].phase = "cancelled"}}

(* CleanupAbandonedPartials: list the cancelled operations ... Run has        *)
(* returned: its variables are no more.                                      *)
CleanupList(o) ==
    /\ pc[o] = "reclaim"
    /\ pc' = [pc EXCEPT ![o] = "sweep"]
    /\ todo' = [todo EXCEPT ![o] = Abandoned]
    /\ phase' = [phase EXCEPT ![o] = "queued"]
    /\ step' = [step EXCEPT ![o] = "stat"] /\ art' = [art EXCEPT ![o] = 0]
    /\ fd' = [fd EXCEPT ![o] = Closed]
    /\ UNCHANGED store
    /\ UNCHANGED dirVars /\ UNCHANGED cancelVars /\ UNCHANGED fileVars /\ UNCHANGED srvVars

(* ... and remove their partial files. The first one that cannot be removed *)
(* ends the cleanup; one whose path does not resolve is left out.           *)
CleanupRemove(o) ==
    /\ pc[o] = "sweep"
    /\ \E f \in todo[o] :
        \/ /\ part' = [part EXCEPT ![f] = NoFile]
           /\ fd' = FdsAfterRemove(f)
           /\ todo' = [todo EXCEPT ![o] = @ \ {f}]
           /\ clash' = clash \cup {g \in {f} : part[f].there /\ \E q \in Ops : Live(q) /\ f \in FilesOf(q)}
           /\ UNCHANGED <<faults, missed>>
        \/ /\ Fault("disk")
           /\ \E rest \in {{}, todo[o] \ {f}} :
                /\ todo' = [todo EXCEPT ![o] = rest]
                /\ missed' = missed \cup (todo[o] \ rest)
           /\ UNCHANGED <<part, fd, clash>>
    /\ UNCHANGED <<pc, phase, store, step, art, dest, registered, installed, unsaved>>
    /\ UNCHANGED dirVars /\ UNCHANGED cancelVars /\ UNCHANGED serverVars

(* Prune: list the terminal records beyond maxTerminal ... *)
PruneList(o) ==
    /\ pc[o] = "sweep" /\ todo[o] = {}
    /\ pc' = [pc EXCEPT ![o] = "drop"]
    /\ todo' = [todo EXCEPT ![o] = Prunable]
    /\ UNCHANGED <<phase, store, step, art, fd>>
    /\ UNCHANGED dirVars /\ UNCHANGED cancelVars /\ UNCHANGED fileVars /\ UNCHANGED srvVars

(* ... and remove them, without Store.mu. The first failure ends it. *)
PruneRemove(o) ==
    /\ pc[o] = "drop"
    /\ \E q \in todo[o] :
        \/ /\ record' = [record EXCEPT ![q] = NoRecord]
           /\ todo' = [todo EXCEPT ![o] = @ \ {q}]
           /\ pruned' = pruned \cup {q}
           /\ UNCHANGED faults
        \/ /\ Fault("disk")
           /\ todo' = [todo EXCEPT ![o] = {}]
           /\ UNCHANGED <<record, pruned>>
    /\ UNCHANGED <<older, pc, phase, store, step, art, fd, unsaved, missed>>
    /\ UNCHANGED cancelVars /\ UNCHANGED fileVars /\ UNCHANGED serverVars

(* Mutant: Prune gives up before its list is done. *)
RunReturns_Early(o) ==
    /\ pc[o] = "drop"
    /\ pc' = [pc EXCEPT ![o] = "done"]
    /\ UNCHANGED <<phase, store, step, art, fd, todo>>
    /\ UNCHANGED dirVars /\ UNCHANGED cancelVars /\ UNCHANGED fileVars /\ UNCHANGED srvVars

RunReturns(o) ==
    /\ pc[o] = "drop" /\ todo[o] = {}
    /\ pc' = [pc EXCEPT ![o] = "done"]
    /\ UNCHANGED <<phase, store, step, art, fd, todo>>
    /\ UNCHANGED dirVars /\ UNCHANGED cancelVars /\ UNCHANGED fileVars /\ UNCHANGED srvVars

-----------------------------------------------------------------------------
(* handleAPICancelModelOperation: Load and Cancel, Save's check, its write.  *)
(* One that has already succeeded or failed is refused; a save that fails is *)
(* the client's to try again.                                                *)
CancelLoad(o) ==
    /\ cancel[o] = "idle" /\ srv # "booting"
    /\ record[o].phase \notin {"none", "succeeded", "failed"}
    /\ Fault("cancel")
    /\ cancel' = [cancel EXCEPT ![o] = "loaded"]
    /\ cancelStore' = [cancelStore EXCEPT ![o] = cur]
    /\ UNCHANGED <<unsaved, missed>> /\ UNCHANGED serverVars
    /\ UNCHANGED dirVars /\ UNCHANGED execVars /\ UNCHANGED fileVars

CancelSave(o) ==
    /\ cancel[o] = "loaded" /\ ~Locked(cancelStore[o])
    /\ cancel' = [cancel EXCEPT ![o] = IF Passes(o, "cancelled") THEN "write" ELSE "idle"]
    /\ UNCHANGED cancelStore
    /\ UNCHANGED dirVars /\ UNCHANGED execVars /\ UNCHANGED fileVars /\ UNCHANGED srvVars

CancelWrite(o) ==
    /\ cancel[o] = "write"
    /\ Saves(o, "cancelled", FALSE) \/ SaveFails({})
    /\ cancel' = [cancel EXCEPT ![o] = "idle"]
    /\ UNCHANGED <<older, pruned, cancelStore, missed>>
    /\ UNCHANGED execVars /\ UNCHANGED fileVars /\ UNCHANGED serverVars

-----------------------------------------------------------------------------
(* The process: server.New with Recover, the reload pass around it, the end. *)

(* Mutant: only interrupted downloads are recovered. *)
Stale_Downloads ==
    {[op |-> o, phase |-> record[o].phase] :
        o \in {o \in Ops : record[o].phase = "downloading" /\ ~record[o].interrupted}}

(* Recover's List: the unfinished records that do not carry the warning yet. *)
Stale ==
    {[op |-> o, phase |-> record[o].phase] :
        o \in {o \in Ops : Unfinished(o) /\ ~record[o].interrupted}}

(* Operations somebody may still write: an executor or a cancel handler. *)
UnderWay ==
    {o \in Ops : pc[o] = "accepted" \/ Live(o) \/ cancel[o] # "idle" \/ Unfinished(o)}

(* The config file is read and server.New makes a new Store. *)
ReloadPass ==
    /\ srv = "up" /\ Fault("reload")
    /\ srv' = "reloading"
    /\ recovery' = [at |-> "check", todo |-> Stale]
    /\ reloadedOver' = reloadedOver \cup UnderWay
    /\ UNCHANGED <<cur, stopped, exiting, unsaved, missed>>
    /\ UNCHANGED dirVars /\ UNCHANGED execVars /\ UNCHANGED cancelVars /\ UNCHANGED fileVars

(* Recover saves the copies it listed, newest operation first; a save that   *)
(* is rejected, or fails, ends the recovery.                                 *)
Newest(e) == e \in recovery.todo /\ \A x \in recovery.todo \ {e} : x.op \in older[e.op]

RecoverCheck ==
    /\ recovery.at = "check"
    /\ \E e \in recovery.todo :
        /\ Newest(e)
        /\ recovery' = IF Passes(e.op, e.phase) THEN [recovery EXCEPT !.at = "write"]
                       ELSE [recovery EXCEPT !.todo = {}]
    /\ UNCHANGED <<srv, cur, stopped, exiting, reloadedOver>> /\ UNCHANGED faultVars
    /\ UNCHANGED dirVars /\ UNCHANGED execVars /\ UNCHANGED cancelVars /\ UNCHANGED fileVars

RecoverWrite ==
    /\ recovery.at = "write"
    /\ \E e \in recovery.todo :
        /\ Newest(e)
        /\ \/ /\ Saves(e.op, e.phase, TRUE)
              /\ recovery' = [at |-> "check", todo |-> recovery.todo \ {e}]
           \/ /\ SaveFails({x.op : x \in recovery.todo})
              /\ recovery' = [at |-> "check", todo |-> {}]
    /\ UNCHANGED <<older, pruned, srv, cur, stopped, exiting, reloadedOver, missed>>
    /\ UNCHANGED execVars /\ UNCHANGED cancelVars /\ UNCHANGED fileVars

Booted ==
    /\ srv = "booting" /\ recovery.todo = {}
    /\ srv' = "up"
    /\ UNCHANGED <<cur, stopped, exiting, recovery, reloadedOver>> /\ UNCHANGED faultVars
    /\ UNCHANGED dirVars /\ UNCHANGED execVars /\ UNCHANGED cancelVars /\ UNCHANGED fileVars

(* server.New returns an error after Recover: the old server stays. *)
ReloadAbandoned ==
    /\ srv = "reloading" /\ recovery.todo = {}
    /\ srv' = "up"
    /\ UNCHANGED <<cur, stopped, exiting, recovery, reloadedOver>> /\ UNCHANGED faultVars
    /\ UNCHANGED dirVars /\ UNCHANGED execVars /\ UNCHANGED cancelVars /\ UNCHANGED fileVars

(* activeSrv becomes the new server ... *)
Swap ==
    /\ srv = "reloading" /\ recovery.todo = {}
    /\ srv' = "swapped" /\ cur' = cur + 1
    /\ reloadedOver' = reloadedOver \cup UnderWay
    /\ UNCHANGED <<stopped, exiting, recovery>> /\ UNCHANGED faultVars
    /\ UNCHANGED dirVars /\ UNCHANGED execVars /\ UNCHANGED cancelVars /\ UNCHANGED fileVars

(* ... and the old one is shut down, its executors not waited for. *)
OldShutdown ==
    /\ srv = "swapped"
    /\ srv' = "up" /\ stopped' = stopped \cup {cur - 1}
    /\ UNCHANGED <<cur, exiting, recovery, reloadedOver>> /\ UNCHANGED faultVars
    /\ UNCHANGED dirVars /\ UNCHANGED execVars /\ UNCHANGED cancelVars /\ UNCHANGED fileVars

(* SIGTERM: the active server is shut down; the process will end. *)
Exit ==
    /\ srv # "booting" /\ ~exiting /\ Fault("exit")
    /\ exiting' = TRUE /\ stopped' = stopped \cup {cur}
    /\ UNCHANGED <<srv, cur, recovery, reloadedOver, unsaved, missed>>
    /\ UNCHANGED dirVars /\ UNCHANGED execVars /\ UNCHANGED cancelVars /\ UNCHANGED fileVars

(* The process is gone, and started again over the directories it leaves. *)
Crash ==
    /\ \/ exiting /\ UNCHANGED faults
       \/ ~exiting /\ Fault("crash")
    /\ pc' = [o \in Ops |-> IF pc[o] = "accepted" THEN "new"
                            ELSE IF pc[o] \in {"new", "done"} THEN pc[o] ELSE "dead"]
    /\ phase' = [o \in Ops |-> "queued"] /\ store' = [o \in Ops |-> 1]
    /\ step' = [o \in Ops |-> "stat"] /\ art' = [o \in Ops |-> 0]
    /\ fd' = [o \in Ops |-> Closed] /\ todo' = [o \in Ops |-> {}]
    /\ cancel' = [o \in Ops |-> "idle"] /\ cancelStore' = [o \in Ops |-> 1]
    /\ srv' = "booting" /\ cur' = 1 /\ stopped' = {} /\ exiting' = FALSE
    /\ recovery' = [at |-> "check", todo |-> Stale]
    /\ reloadedOver' = {o \in reloadedOver : pc[o] = "done"}
    /\ unsaved' = {} /\ UNCHANGED missed
    /\ UNCHANGED dirVars /\ UNCHANGED fileVars

-----------------------------------------------------------------------------
ExecutorStep(o) ==
    \/ advance(o) \/ Write(o) \/ StepFails(o) \/ DownloadAborted(o)
    \/ SkipArtifact(o) \/ StatPartial(o) \/ OpenPartial(o) \/ CopyUnit(o) \/ CopyDone(o)
    \/ verify(o) \/ VerifyFails(o) \/ install(o) \/ InstallFails(o) \/ Register(o)
    \/ CleanupList(o) \/ CleanupRemove(o) \/ PruneList(o) \/ PruneRemove(o) \/ RunReturns(o)

HandlerStep(o) == Accept(o) \/ Create(o) \/ CancelLoad(o) \/ CancelSave(o) \/ CancelWrite(o)

ServerStep ==
    \/ ReloadPass \/ RecoverCheck \/ RecoverWrite \/ Booted \/ ReloadAbandoned
    \/ Swap \/ OldShutdown \/ Exit \/ Crash

Next == ServerStep \/ \E o \in Ops : ExecutorStep(o) \/ HandlerStep(o)

Spec == Init /\ [][Next]_vars

-----------------------------------------------------------------------------
DirOK ==
    /\ record \in [Ops -> [phase : Phase \cup {"none"}, interrupted : BOOLEAN]]
    /\ older \in [Ops -> SUBSET Ops]
    /\ pruned \subseteq Ops
    /\ unsaved \subseteq Ops

ExecOK ==
    /\ pc \in [Ops -> {"new", "accepted", "run", "write", "reclaim", "sweep", "drop", "done", "dead"}]
    /\ phase \in [Ops -> Phase]
    /\ store \in [Ops -> Nat]
    /\ step \in [Ops -> {"stat", "get", "copy"}]
    /\ art \in [Ops -> Nat]
    /\ fd \in [Ops -> [to : {"none", "part", "dest", "gone"}, append : BOOLEAN, pos : Nat]]
    /\ todo \in [Ops -> SUBSET (Ops \cup Destinations)]

(* What an executor has to remove belongs to where it is in reclaiming. *)
TodoOK ==
    \A o \in Ops : CASE pc[o] = "sweep" -> todo[o] \subseteq Destinations
                     [] pc[o] = "drop"  -> todo[o] \subseteq Ops
                     [] OTHER -> todo[o] = {}

FilesOK ==
    /\ part \in [Destinations -> Files] /\ dest \in [Destinations -> Files]
    /\ registered \subseteq Ops /\ clash \subseteq Destinations /\ missed \subseteq Destinations
    /\ installed \in [Destinations -> SUBSET Ops]

ServerOK ==
    /\ cancel \in [Ops -> {"idle", "loaded", "write"}]
    /\ cancelStore \in [Ops -> Nat]
    /\ srv \in {"booting", "up", "reloading", "swapped"} /\ cur \in Nat \ {0}
    /\ stopped \subseteq Nat /\ exiting \in BOOLEAN
    /\ recovery \in [at : {"check", "write"}, todo : SUBSET [op : Ops, phase : Phase]]
    /\ faults \in [AllFaultKinds -> Nat]
    /\ reloadedOver \subseteq Ops

TypeOK == DirOK /\ ExecOK /\ TodoOK /\ FilesOK /\ ServerOK

(* transitions.go: one step forward, or an end, never out of a terminal phase. *)
CanTransition(p, q) ==
    /\ ~Terminal(p)
    /\ \/ q \in {"cancelled", "failed"}
       \/ p \in Happy \ {"succeeded"} /\ q = PhaseAfter(p)

Precedes(p, q) == \E i, j \in 1..9 : i < j /\ happyPath[i] = p /\ happyPath[j] = q

(* Executor, cancel handler, recovery, prune and crashes in any order: the   *)
(* stored record of an operation that no reload was made over moves as the   *)
(* state machine allows, and a terminal record is only ever removed. Save's  *)
(* check and Store.mu are what the code has for it (store.go:123-137). While *)
(* a save has failed and none has gone through since (unsaved), phases may   *)
(* be skipped, because the executor does not stop for that                   *)
(* (executor.go:287-292), but none is gone back to.                          *)
RecordFollowsTheStateMachine ==
    [][\A o \in Ops \ (reloadedOver \cup pruned) :
        record[o].phase \notin {"none", record'[o].phase}
        => \/ CanTransition(record[o].phase, record'[o].phase)
           \/ Terminal(record[o].phase) /\ record'[o].phase = "none"
           \/ o \in unsaved /\ Precedes(record[o].phase, record'[o].phase)]_vars

(* A record that is not terminal has an executor at work on it, or says that *)
(* it was interrupted (recover.go:11-14), whatever the process has been      *)
(* through. NOT claimed of one whose last save failed: an executor whose     *)
(* terminal save fails only logs it and returns (executor.go:308-310), and a *)
(* recovery ends at the first save that fails (recover.go:39-41). Such a     *)
(* record waits, unmarked, for the next recovery, at a reload or a start.    *)
UnfinishedIsLiveOrMarked ==
    \A o \in Ops \ unsaved :
        Unfinished(o) => Live(o) \/ record[o].interrupted \/ srv = "booting"

(* A model written to the config has its files: on every destination that no *)
(* two operations used at once there is what an operation installed, and it  *)
(* is as planned, in size and digest, by every operation that installed it:  *)
(* partial files resumed after crashes, refused ranges, responses too short  *)
(* or too long, files of another revision found in place notwithstanding.    *)
(* NOT claimed: that it is the model's own. Destinations do not depend on    *)
(* the revision (source.go:96-109), so a later operation may install another *)
(* revision over the files of a model in the config; the file is then as     *)
(* that operation's plan says.                                               *)
RegisteredIsInstalled ==
    \A o \in registered : \A f \in FilesOf(o) \ clash :
        /\ dest[f].there /\ installed[f] # {}
        /\ \A q \in installed[f] : AsPlanned(q, f, dest[f])

(* A record that says succeeded is that of a model that was written to the   *)
(* config. (What is done to the config afterwards is not looked at here.)    *)
SucceededIsRegistered ==
    \A o \in Ops : record[o].phase = "succeeded" => o \in registered

(* A cancelled operation whose run has returned leaves no partial file       *)
(* behind, if nobody else installs to its destination (cleanup.go,           *)
(* apimodeloperations.go:42-51). Exempt are the files that a failure made    *)
(* reclaiming pass over (missed): CleanupAbandonedPartials returns at the    *)
(* first file it cannot remove (cleanup.go:56-58), and an operation whose    *)
(* own end could not be saved is not yet cancelled when its run reclaims.    *)
CancelledLeavesNothing ==
    \A o \in Ops \ (reloadedOver \cup pruned) :
        pc[o] = "done" /\ record[o].phase = "cancelled"
        => \A f \in FilesOf(o) \ missed :
              part[f].there => \E q \in Ops \ {o} : Begun(q) /\ f \in FilesOf(q)

(* The context an operation runs on "is cancelled only when the server       *)
(* process itself shuts down" (apimodeloperations.go:135-136). The code      *)
(* cancels it at every reload.                                               *)
DownloadsOutliveReloads ==
    [][\A o \in Ops : DownloadAborted(o) => exiting]_vars
=============================================================================
