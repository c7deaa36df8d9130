------------------------------- MODULE Reload -------------------------------
(***************************************************************************)
(* Config reload: reloadPass (llama-skein.go) under the coalescing runner, *)
(* the handlers of the config API that rewrite the file and trigger it     *)
(* (internal/server/apiconfig.go, confighelpers.go), the polling watcher   *)
(* (internal/watcher), SIGHUP, and whoever edits the file by hand.         *)
(*                                                                         *)
(* The content of the file is kept as where it comes from and the set of   *)
(* API edits it carries. A handler is used once: it edits, rolls back, or  *)
(* asks for a reload, on the Server that was active when it arrived, and   *)
(* configMu is that Server's. A SIGHUP calls the trigger as a reload       *)
(* request does. Servers are numbered in the order they are built.         *)
(*                                                                         *)
(* The temporary file has one name for the handlers of every Server, so a  *)
(* rename moves whatever file is there, with the writers that have it      *)
(* open: `fd` says where the file each of them writes is by now.           *)
(***************************************************************************)
EXTENDS CoalescingRunner, ConfigHistory

CONSTANTS
    Handlers,       \* calls of the config API
    Watcher,        \* the watcher's goroutine
    Edits,          \* what a handler may change in the file ...
    Kind,           \* ... by which handler: default, add, patch, remove, group
    BadEdits,       \* ... and the changes LoadConfig then refuses
    Keep,           \* keep() of a configuration: snapshots it retains whatever their age
    Jobs,           \* what each handler may be asked: an edit, "rollback", "reload"
    HandContents,   \* what a hand edit may leave in the file
    Garbled,        \* content that is not YAML
    Missing,        \* no file
    MaxHandEdits, MaxFaults, MaxMishaps     \* bounds: on each, and on both together

ASSUME CallersAssumption ==
    /\ Callers = Handlers \cup {Watcher}
    /\ Watcher \notin Handlers
    /\ Nobody \notin Handlers
ASSUME EditsAssumption ==
    /\ Kind \in [Edits -> {"default", "add", "patch", "remove", "group"}]
    /\ BadEdits \subseteq Edits
    /\ {"rollback", "reload"} \cap Edits = {}
    /\ \A h \in Handlers : Jobs[h] \subseteq Edits \cup {"rollback", "reload"}
ASSUME ReloadBoundsAssumption == {MaxHandEdits, MaxFaults, MaxMishaps} \subseteq Nat

Configs == [from : {"start", "hand", "empty"}, edits : SUBSET Edits]
Contents == Configs \cup {Garbled}
Empty == [from |-> "empty", edits |-> {}]

ASSUME KeepAssumption == Keep \in [Configs -> Nat]
ASSUME ContentsAssumption ==
    /\ Garbled \notin Configs /\ Missing \notin Contents
    /\ HandContents \subseteq Contents \cup {Missing}

VARIABLES
    file,       \* the config file
    tmp,        \* the file atomicWriteFile renames over it, or Missing
    fd,         \* where the file a handler has open is by now: under the temporary
                \* name ("tmp"), the config file ("file"), or neither ("gone")
    \* the handlers
    hs,         \* new, lock, open, write, rename, stage, call, flag,
                \* and how the call was answered: acked, unchanged, failed
    job,        \* the edit, "rollback" or "reload"
    srv,        \* the Server the call runs on
    copy,       \* the content it is about to write
    \* the passes
    step,       \* none, build, archive, swap, retire
    raw,        \* rawNew: what the pass has read
    \* the Servers
    active,     \* activeSrv ...
    served,     \* ... and the content it was built from
    prev,       \* the watcher's last stat: it shows the file as it is ("same"),
                \* as it was ("older"), or no file ("none")
    \* the environment, and what the properties remember of a behaviour
    handEdits, faults,
    buildFailed,    \* server.New failed in the last pass that got that far
    unannounced,    \* the file was changed by hand, left half restored, or changed by
                    \* a handler whose temporary file another one had renamed, and no
                    \* trigger has been called since
    replaced,       \* the content the active Server's predecessor was built from
    unarchived      \* the contents whose snapshot failed

fileVars == <<file, tmp, fd, prev>>
handlerVars == <<hs, job, srv, copy>>
passLocals == <<step, raw>>
serverVars == <<active, served>>
envVars == <<handEdits, faults>>
ghostVars == <<buildFailed, unannounced, replaced, unarchived>>
vars == <<runnerVars, stateVars, fileVars, handlerVars, passLocals, serverVars, envVars, ghostVars>>

(* A failure of the disk or of server.New. *)
Fault ==
    /\ faults < MaxFaults /\ handEdits + faults < MaxMishaps
    /\ faults' = faults + 1

Parses(c) == c \notin {Garbled, Missing}

(* config.LoadConfigFromReader accepts it. *)
Loads(c) == Parses(c) /\ c.edits \cap BadEdits = {}

Init ==
    /\ RunnerInit
    /\ file = [from |-> "start", edits |-> {}]
    /\ lastGood = file
    /\ valid = TRUE
    /\ pending = Nobody
    /\ history = <<>>
    /\ tmp = Missing
    /\ fd = [h \in Handlers |-> "gone"]
    /\ prev = "same"
    /\ hs = [h \in Handlers |-> "new"]
    /\ job = [h \in Handlers |-> "reload"]
    /\ srv = [h \in Handlers |-> 1]
    /\ copy = [h \in Handlers |-> Missing]
    /\ step = [c \in Callers |-> "none"]
    /\ raw = [c \in Callers |-> Missing]
    /\ active = 1
    /\ served = file
    /\ handEdits = 0 /\ faults = 0
    /\ buildFailed = FALSE
    /\ unannounced = FALSE
    /\ replaced = Empty
    /\ unarchived = {}
-----------------------------------------------------------------------------
(* The file. *)

(* A write changes the file's modification time. *)
Write(content) ==
    /\ file' = content
    /\ prev' = IF prev = "same" THEN "older" ELSE prev

(* Whoever has the config file open has another one when it is replaced.   *)
Detached == [g \in Handlers |-> IF fd[g] = "file" THEN "gone" ELSE fd[g]]

(* An editor or a deployment rewrites or replaces the file, damages or     *)
(* removes it.                                                             *)
HandEdit ==
    /\ handEdits < MaxHandEdits /\ handEdits + faults < MaxMishaps
    /\ handEdits' = handEdits + 1
    /\ \E c \in HandContents :
          /\ c # file
          /\ Write(c)
          /\ fd' = Detached \/ (c # Missing /\ UNCHANGED fd)
    /\ unannounced' = TRUE
    /\ UNCHANGED <<runnerVars, stateVars, tmp, handlerVars, passLocals, serverVars, faults,
                   buildFailed, replaced, unarchived>>

(* Watcher.Run, on a tick: the file is there and is not what the last stat *)
(* showed. OnChange is the trigger function, called in this goroutine.     *)
WatcherFires ==
    /\ file # Missing
    /\ prev # "same"
    /\ prev' = "same"
    /\ Call(Watcher)
    /\ unannounced' = FALSE
    /\ UNCHANGED <<stateVars, file, tmp, fd, handlerVars, passLocals, serverVars, envVars,
                   buildFailed, replaced, unarchived>>

(* ... and when the file is gone it only takes note of that. *)
WatcherSeesNoFile ==
    /\ at[Watcher] = "idle"
    /\ file = Missing
    /\ prev # "none"
    /\ prev' = "none"
    /\ UNCHANGED <<runnerVars, stateVars, file, tmp, fd, handlerVars, passLocals, serverVars, envVars, ghostVars>>

-----------------------------------------------------------------------------
(* The handlers. *)

InSection(h) == hs[h] \in {"open", "write", "rename"}

(* Mutant: no mutex. *)
Locked_Never(s) == s = 0

(* configMu of the Server the call runs on. *)
Locked(s) == \E h \in Handlers : InSection(h) /\ srv[h] = s

Goes(h, from, to) ==
    /\ hs[h] = from
    /\ hs' = [hs EXCEPT ![h] = to]

NoPass == UNCHANGED <<runnerVars, passLocals, serverVars, ghostVars>>

Arrive(h) ==
    /\ Goes(h, "new", "lock")
    /\ \E j \in Jobs[h] : job' = [job EXCEPT ![h] = j]
    /\ srv' = [srv EXCEPT ![h] = active]
    /\ NoPass
    /\ UNCHANGED <<stateVars, fileVars, copy, envVars>>

(* The file does not have the section, or the entry, to change.            *)
SectionMissing(e) == Kind[e] \in {"patch", "group"} /\ file.from = "empty"

(* The edit changes nothing. The handlers of the default model and of      *)
(* groups do not look.                                                     *)
NoChange(e) == Kind[e] \in {"add", "patch", "remove"} /\ e \in file.edits

Edited(e) == [from |-> file.from, edits |-> file.edits \cup {e}]

(* Read, under configMu, what is to be changed: an error if there is no    *)
(* such file or section; nothing is written if nothing changes.            *)
ReadRoot(h) ==
    /\ job[h] \in Edits
    /\ ~Locked(srv[h])
    /\ \/ /\ Parses(file) => SectionMissing(job[h])
          /\ Goes(h, "lock", "failed")
          /\ UNCHANGED copy
       \/ /\ Parses(file)
          /\ ~SectionMissing(job[h])
          /\ NoChange(job[h])
          /\ Goes(h, "lock", "unchanged")
          /\ UNCHANGED copy
       \/ /\ Parses(file)
          /\ ~SectionMissing(job[h])
          /\ ~NoChange(job[h])
          /\ copy' = [copy EXCEPT ![h] = Edited(job[h])]
          /\ Goes(h, "lock", "open")
    /\ NoPass
    /\ UNCHANGED <<stateVars, fileVars, job, srv, envVars>>

(* RollbackConfig finds the snapshot and reads it, or cannot ... *)
FindSnapshot(h) ==
    /\ job[h] = "rollback"
    /\ ~Locked(srv[h])
    /\ \/ /\ Goes(h, "lock", "failed")
          /\ UNCHANGED copy
       \/ /\ Goes(h, "lock", "open")
          /\ \E c \in Archived : copy' = [copy EXCEPT ![h] = c]
    /\ NoPass
    /\ UNCHANGED <<stateVars, fileVars, job, srv, envVars>>

(* os.WriteFile opens the file and truncates it: the temporary one for an  *)
(* edit (atomicWriteFile), the config file itself for a rollback.          *)
OpenFile(h) ==
    /\ \/ /\ Goes(h, "open", "write")
          /\ \/ /\ job[h] \in Edits
                /\ tmp' = Empty
                /\ fd' = [fd EXCEPT ![h] = "tmp"]
                /\ UNCHANGED <<file, prev>>
             \/ /\ job[h] = "rollback"
                /\ Write(Empty)
                /\ fd' = [fd EXCEPT ![h] = "file"]
                /\ UNCHANGED tmp
          /\ UNCHANGED faults
       \/ /\ Fault
          /\ Goes(h, "open", "failed")
          /\ UNCHANGED fileVars
    /\ NoPass
    /\ UNCHANGED <<stateVars, job, srv, copy, handEdits>>

(* The file a handler has open then holds `content`. *)
Puts(h, content) ==
    /\ tmp' = IF fd[h] = "tmp" THEN content ELSE tmp
    /\ IF fd[h] = "file" THEN Write(content) ELSE UNCHANGED <<file, prev>>
    /\ fd' = [fd EXCEPT ![h] = "gone"]

(* The end of what another writer put there may stay behind. *)
Tails(h) ==
    IF \/ fd[h] = "tmp" /\ tmp # Empty
       \/ fd[h] = "file" /\ file # Empty
    THEN {Garbled} ELSE {}

(* ... and fills it, unless the disk is full: nothing or a part is there   *)
(* then, which is taken not to be YAML. A rollback is done with that.      *)
WriteOut(h) ==
    /\ \/ /\ Goes(h, "write", IF job[h] = "rollback" THEN "stage" ELSE "rename")
          /\ \E content \in {copy[h]} \cup Tails(h) : Puts(h, content)
          /\ unannounced' = (unannounced \/ (job[h] # "rollback" /\ fd[h] = "file"))
          /\ UNCHANGED faults
       \/ /\ Fault
          /\ Goes(h, "write", "failed")
          /\ \E content \in {Empty, Garbled} \cup Tails(h) : Puts(h, content)
          /\ unannounced' = (unannounced \/ job[h] = "rollback" \/ fd[h] = "file")
    /\ copy' = [copy EXCEPT ![h] = Missing]
    /\ UNCHANGED <<runnerVars, passLocals, serverVars, buildFailed, replaced, unarchived>>
    /\ UNCHANGED <<stateVars, job, srv, handEdits>>

(* The temporary file is renamed over the config file, if it can be and is *)
(* still there.                                                            *)
Rename(h) ==
    /\ \/ /\ tmp # Missing
          /\ Goes(h, "rename", "stage")
          /\ Write(tmp)
          /\ tmp' = Missing
          /\ fd' = [g \in Handlers |-> IF fd[g] = "tmp" THEN "file" ELSE "gone"]
          /\ UNCHANGED faults
       \/ /\ (tmp = Missing /\ UNCHANGED faults) \/ Fault
          /\ Goes(h, "rename", "failed")
          /\ UNCHANGED fileVars
    /\ NoPass
    /\ UNCHANGED <<stateVars, job, srv, copy, handEdits>>

(* SetPending: who the next snapshot is attributed to. *)
Stage(h) ==
    /\ Goes(h, "stage", "call")
    /\ SetPending(h)
    /\ NoPass
    /\ UNCHANGED <<lastGood, valid, history, fileVars, job, srv, copy, envVars>>

(* handleAPIConfigReload loads the file before it accepts. *)
CheckFile(h) ==
    /\ job[h] = "reload"
    /\ IF Loads(file) THEN Goes(h, "lock", "call") ELSE Goes(h, "lock", "flag")
    /\ NoPass
    /\ UNCHANGED <<stateVars, fileVars, job, srv, copy, envVars>>

Flag(h) ==
    /\ Goes(h, "flag", "failed")
    /\ SetInvalid
    /\ NoPass
    /\ UNCHANGED <<lastGood, pending, history, fileVars, job, srv, copy, envVars>>

(* The Servers that SetReloadFn was called on: the initial one, and every  *)
(* one reloadPass builds.                                                  *)
ReloadFnSet(s) == s \in Nat

(* triggerReload: go s.reloadFn(), and the call is answered. *)
TriggerReload(h) ==
    /\ Goes(h, "call", "acked")
    /\ IF ReloadFnSet(srv[h]) THEN Call(h) ELSE UNCHANGED runnerVars
    /\ unannounced' = FALSE
    /\ UNCHANGED <<stateVars, fileVars, job, srv, copy, passLocals, serverVars, envVars,
                   buildFailed, replaced, unarchived>>

Handle(h) ==
    \/ Arrive(h) \/ ReadRoot(h) \/ FindSnapshot(h)
    \/ OpenFile(h) \/ WriteOut(h) \/ Rename(h)
    \/ Stage(h) \/ CheckFile(h) \/ Flag(h) \/ TriggerReload(h)
-----------------------------------------------------------------------------
(* reloadPass, in the goroutine that leads. *)

Steps(c, from, to) ==
    /\ step[c] = from
    /\ step' = [step EXCEPT ![c] = to]

NoHandler == UNCHANGED <<fileVars, handlerVars, handEdits>>

(* The runner's own steps. *)
Trigger(c) ==
    /\ Join(c) \/ Lead(c) \/ Again(c) \/ Finish(c)
    /\ NoHandler
    /\ UNCHANGED <<stateVars, passLocals, serverVars, faults, ghostVars>>

(* The reloading flag, kept beside the runner, refuses a second pass. *)
Reloading == \E c \in Callers : step[c] # "none"

BeginPass(c) ==
    /\ IF Reloading
       THEN Moves(c, "begin", "check") /\ UNCHANGED <<running, dirty, step>>
       ELSE Begin(c) /\ Steps(c, "none", "build")
    /\ NoHandler
    /\ UNCHANGED <<stateVars, raw, serverVars, faults, ghostVars>>

(* reloadPass returns. *)
Ends(c, from) ==
    /\ Return(c)
    /\ Steps(c, from, "none")
    /\ raw' = [raw EXCEPT ![c] = Missing]

(* ReadFile, LoadConfigFromReader and server.New. An edit of the file      *)
(* while the Server is built is one after this step: what was read stays.  *)
BuildServer(c) ==
    /\ \/ /\ ~Loads(file)
          /\ SetInvalid
          /\ Ends(c, "build")
          /\ UNCHANGED <<faults, buildFailed>>
       \/ /\ Loads(file)
          /\ Fault
          /\ buildFailed' = TRUE
          /\ Ends(c, "build")
          /\ UNCHANGED valid
       \/ /\ Loads(file)
          /\ raw' = [raw EXCEPT ![c] = file]
          /\ buildFailed' = FALSE
          /\ Steps(c, "build", "archive")
          /\ UNCHANGED <<runnerVars, valid, faults>>
    /\ NoHandler
    /\ UNCHANGED <<lastGood, pending, history, active, served, unannounced, replaced, unarchived>>

(* TakePending, and SnapshotConfig of what was active, under the retention *)
(* of what replaces it; an error is logged.                                *)
ArchiveOld(c) ==
    /\ Steps(c, "archive", "swap")
    /\ TakePending
    /\ \/ /\ SnapshotConfig(lastGood, Keep[raw[c]], Empty)
          /\ UNCHANGED <<faults, unarchived>>
       \/ /\ Fault
          /\ Keep[raw[c]] > 0 /\ lastGood # Empty
          /\ SnapshotFails(lastGood)
          /\ unarchived' = unarchived \cup {lastGood}
    /\ NoHandler
    /\ UNCHANGED <<runnerVars, lastGood, valid, raw, serverVars, buildFailed, unannounced, replaced>>

(* Mutant: SetLastGood is forgotten. *)
SwapServer_Unrecorded(c) ==
    /\ Steps(c, "swap", "retire")
    /\ SetValid
    /\ active' = active + 1
    /\ served' = raw[c]
    /\ replaced' = served
    /\ NoHandler
    /\ UNCHANGED <<runnerVars, lastGood, pending, history, raw, faults, buildFailed,
                   unannounced, unarchived>>

(* Mutant: what is recorded is the file as it is by now. *)
SwapServer_Rereads(c) ==
    /\ Steps(c, "swap", "retire")
    /\ SetLastGood(file)
    /\ SetValid
    /\ active' = active + 1
    /\ served' = raw[c]
    /\ replaced' = served
    /\ NoHandler
    /\ UNCHANGED <<runnerVars, pending, history, raw, faults, buildFailed, unannounced, unarchived>>

(* SetLastGood, SetValid and activeSrv = newSrv. *)
SwapServer(c) ==
    /\ Steps(c, "swap", "retire")
    /\ SetLastGood(raw[c])
    /\ SetValid
    /\ active' = active + 1
    /\ served' = raw[c]
    /\ replaced' = served
    /\ NoHandler
    /\ UNCHANGED <<runnerVars, pending, history, raw, faults, buildFailed, unannounced, unarchived>>

(* old.Shutdown: the pass is not over while it lasts. A model it cannot    *)
(* stop is only logged, so it says nothing of the models afterwards.       *)
RetireServer(c) ==
    /\ Ends(c, "retire")
    /\ NoHandler
    /\ UNCHANGED <<stateVars, serverVars, faults, ghostVars>>

Pass(c) ==
    \/ Trigger(c) \/ BeginPass(c) \/ BuildServer(c)
    \/ ArchiveOld(c) \/ SwapServer(c) \/ RetireServer(c)
-----------------------------------------------------------------------------
Next ==
    \/ HandEdit
    \/ WatcherFires \/ WatcherSeesNoFile
    \/ \E h \in Handlers : Handle(h)
    \/ \E c \in Callers : Pass(c)

Spec == Init /\ [][Next]_vars

(* The goroutine in a pass goes on, and so does one that has called the    *)
(* trigger. Nobody has to call, to answer or to edit.                      *)
Fairness == \A c \in Callers : WF_vars(Pass(c))

FairSpec == Spec /\ Fairness
-----------------------------------------------------------------------------
TypeOK ==
    /\ running \in BOOLEAN /\ dirty \in BOOLEAN
    /\ at \in [Callers -> {"idle", "enter", "begin", "pass", "check"}]
    /\ lastGood \in Contents /\ valid \in BOOLEAN
    /\ pending \in Handlers \cup {Nobody}
    /\ history \in Seq(Contents)
    /\ file \in Contents \cup {Missing}
    /\ tmp \in Contents \cup {Missing}
    /\ prev \in {"same", "older", "none"}
    /\ hs \in [Handlers -> {"new", "lock", "open", "write", "rename", "stage", "call", "flag",
                             "acked", "unchanged", "failed"}]
    /\ fd \in [Handlers -> {"tmp", "file", "gone"}]
    /\ job \in [Handlers -> Edits \cup {"rollback", "reload"}]
    /\ srv \in [Handlers -> Nat]
    /\ copy \in [Handlers -> Contents \cup {Missing}]
    /\ step \in [Callers -> {"none", "build", "archive", "swap", "retire"}]
    /\ raw \in [Callers -> Contents \cup {Missing}]
    /\ active \in Nat /\ served \in Contents
    /\ handEdits \in Nat /\ faults \in Nat
    /\ buildFailed \in BOOLEAN /\ unannounced \in BOOLEAN
    /\ replaced \in Contents /\ unarchived \subseteq Contents

(* Nobody is at work on the file, whoever changed it has called a trigger  *)
(* that has been served, and a Server could be built from it.              *)
Quiet ==
    /\ \A c \in Callers : at[c] = "idle"
    /\ \A h \in Handlers : hs[h] \in {"new", "lock", "acked", "unchanged", "failed"}
    /\ ~unannounced
    /\ ~buildFailed

(* No trigger is lost, whatever pass it falls into: when everything has    *)
(* come to rest the Server in use was built from the file as it is, or the *)
(* file is refused and /health says so. NOT claimed for a file that nobody *)
(* has announced, which the watcher alone can notice: one edited by hand,  *)
(* half restored, or written through a temporary file that another         *)
(* Server's handler had renamed over the config meanwhile (the writer is   *)
(* then answered 500 and calls no trigger); nor after a server.New that    *)
(* failed (reloadPass logs it and keeps the old Server).                   *)
Converged == Quiet => IF Loads(file) THEN served = file ELSE ~valid

(* What a transition replaced is one rollback away, whoever replaced it    *)
(* and however many triggers were coalesced: it is in config-history,      *)
(* unless its snapshot failed or the configuration that replaced it        *)
(* retains none.                                                           *)
ReplacedIsArchived ==
    Keep[served] > 0 /\ (\A c \in Callers : step[c] # "swap")
        => replaced \in Archived \cup unarchived \cup {Empty}

Overwritten == handEdits > 0 \/ \E h \in Handlers : job[h] = "rollback"

(* An edit that was acknowledged is in the file, until a hand edit or a    *)
(* rollback replaces it.                                                   *)
AckedEditsSurvive ==
    ~Overwritten => \A h \in Handlers : job[h] \in Edits /\ hs[h] = "acked" => job[h] \in file.edits

(* ... as far as configMu reaches: while all calls were accepted by the    *)
(* same Server.                                                            *)
AckedEditsSurviveOnOneServer ==
    (\A g, h \in Handlers : hs[g] # "new" /\ hs[h] # "new" => srv[g] = srv[h])
        => AckedEditsSurvive

(* What SetPending staged is not left behind by a trigger that joined a    *)
(* pass: at rest, with a file in use, nothing is staged. NOT claimed: that *)
(* the pass that takes it is the change's own (one under way may, before   *)
(* the change's trigger), or that it is taken when the file is refused or  *)
(* server.New fails. It then stays staged, and the next reload that goes   *)
(* through, a hand edit's or a SIGHUP's, is archived in its name.          *)
NoAttributionLeftBehind == Quiet /\ Loads(file) => pending = Nobody

(* A trigger, once called, is never lost and is served in the end: the     *)
(* runner implements PassPerTrigger with its fairness.                     *)
EveryTriggerIsServed == Passes!PassFairSpec
=============================================================================
