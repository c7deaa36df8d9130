----------------------- MODULE OperationStorageProofs -----------------------
(***************************************************************************)
(* What the operations do to the models directory. No lock guards a        *)
(* destination, so nothing can be said of one that two operations got in   *)
(* each other's way on (clash). Of the others only one live operation at a *)
(* time is a user, so what it has verified stays as it was until it is     *)
(* installed. Afterwards the file changes only when another operation      *)
(* installs its own: an open file that a rename has carried to the         *)
(* destination is one of two users'.                                       *)
(***************************************************************************)
EXTENDS OperationProofs

OneUser ==
  \A p, q \in Ops : Live(p) /\ Live(q) /\ p # q => FilesOf(p) \cap FilesOf(q) \subseteq clash

(* An operation comes to its downloads with nothing asked for yet.         *)
FreshStart ==
  \A o \in Ops :
    ~Begun(o) \/ (Live(o) /\ phase[o] \in {"queued", "preflighting", "resolving"})
      => step[o] = "stat"

Good(o, f) == dest[f].there /\ AsPlanned(o, f, dest[f])

(* Installed by o, and no partial file to take its place.                  *)
Settled(o, f) == ~part[f].there /\ Good(o, f) /\ o \in installed[f]

(* What an executor in its last phases has done to its i-th artifact.      *)
Treated(o, i) ==
  LET f == Artifacts[o][i]
  IN  /\ phase[o] = "verifying" /\ i <= art[o] => Verified(o, f)
      /\ phase[o] = "installing" =>
            /\ Verified(o, f)
            /\ i <= art[o] => Settled(o, f)
      /\ phase[o] \in {"registering", "reloading", "succeeded"} => Settled(o, f)

WorkStays ==
  \A o \in Ops : Live(o) =>
    \A i \in 1..Len(Artifacts[o]) : Artifacts[o][i] \notin clash => Treated(o, i)

(* o is about to ask for file f, or is receiving it.                       *)
Fetches(o, f) ==
  /\ Live(o) /\ phase[o] = "downloading" /\ step[o] # "stat"
  /\ art[o] < Len(Artifacts[o]) /\ Current(o) = f

(* Only a download has its file open, and one that a rename has carried to *)
(* the destination is of two users.                                        *)
OpenFiles ==
  \A o \in Ops : fd[o].to # "none" /\ (Live(o) \/ ~Begun(o)) =>
    /\ Fetches(o, Current(o)) /\ step[o] = "copy"
    /\ fd[o].to = "dest" => Current(o) \in clash

(* A file is as planned by every operation that has installed it.          *)
InstalledStays ==
  \A f \in Destinations \ clash : \A o \in installed[f] : Good(o, f)

(* The files of a model written to the config have been installed.         *)
RegisteredThere ==
  \A o \in registered : \A f \in FilesOf(o) \ clash : installed[f] # {}

StorageInv ==
  OneUser /\ FreshStart /\ WorkStays /\ OpenFiles /\ InstalledStays /\ RegisteredThere

(* Whoever reclaims has a terminal record, or could not save it and leaves *)
(* its files to be missed; it has swept, or still has on its list, every   *)
(* other file nobody else has ever been a user of.                         *)
Ended ==
  \A o \in Retained :
    pc[o] \in {"reclaim", "sweep", "drop", "done"}
      => Terminal(record[o].phase) \/ FilesOf(o) \subseteq missed

Swept ==
  \A o \in Retained :
    record[o].phase = "cancelled" /\ pc[o] \in {"sweep", "drop", "done"}
      => \A f \in FilesOf(o) \ missed :
            part[f].there =>
              \/ pc[o] = "sweep" /\ f \in todo[o]
              \/ \E q \in Ops \ {o} : Begun(q) /\ f \in FilesOf(q)

-----------------------------------------------------------------------------
(* What a step does to one file.                                           *)

(* As it was, or still not there.                                          *)
SameFile(f) ==
  /\ dest'[f] = dest[f] /\ installed'[f] = installed[f]
  /\ part'[f] = part[f] \/ (~part[f].there /\ ~part'[f].there)

(* What is known of a file outlasts a step that leaves it as it was.       *)
LEMMA SameFileFacts ==
  ASSUME NEW o, NEW f, SameFile(f)
  PROVE  /\ Verified(o, f) => Verified(o, f)'
         /\ Settled(o, f) => Settled(o, f)'
BY DEF SameFile, Verified, AsPlanned, Length, Settled, Good

(* The artifact at hand is one of the operation's own.                     *)
LEMMA CurrentIsOwn ==
  ASSUME TypeOK, NEW o \in Ops, art[o] < Len(Artifacts[o])
  PROVE  Current(o) \in FilesOf(o) /\ Current(o) \in Destinations
<1>1. art[o] + 1 \in 1..Len(Artifacts[o])
  BY ArtifactsAssumption DEF TypeOK, ExecOK
<1> QED
  BY <1>1, CurrentType DEF Current, FilesOf

(* An executor changes a file it is receiving, renames one it installs,    *)
(* and removes partial files of cancelled operations.                      *)
LEMMA FileSteps ==
  ASSUME IInv, NEW o \in Ops, ExecutorStep(o), NEW f \in Destinations
  PROVE  \/ SameFile(f)
         \/ /\ Fetches(o, f) /\ f \in FilesOf(o) /\ installed' = installed
            /\ dest'[f] = dest[f] \/ fd[o].to = "dest"
         \/ install(o) /\ f = Current(o) /\ f \in FilesOf(o)
         \/ /\ part[f].there /\ ~part'[f].there /\ dest'[f] = dest[f] /\ installed' = installed
            /\ \A q \in Ops : Live(q) /\ f \in FilesOf(q) => f \in clash'
<1> USE DEF IInv
<1>1. CASE OpenPartial(o)
  <2>1. Downloading(o) /\ step[o] = "get" /\ dest' = dest /\ installed' = installed
    BY <1>1 DEF OpenPartial
  <2>2. f # Current(o) => part'[f] = part[f]
    BY <1>1 DEF OpenPartial, TypeOK, FilesOK
  <2>3. f = Current(o) => Fetches(o, f) /\ f \in FilesOf(o)
    BY <2>1, CurrentIsOwn DEF Downloading, Fetches, Live
  <2> QED
    BY <2>1, <2>2, <2>3 DEF SameFile
<1>2. CASE CopyUnit(o)
  <2>1. Downloading(o) /\ step[o] = "copy" /\ installed' = installed
    BY <1>2 DEF CopyUnit
  <2>2. PICK x, y : part' = (IF fd[o].to = "part" THEN [part EXCEPT ![Current(o)] = x] ELSE part)
                 /\ dest' = (IF fd[o].to = "dest" THEN [dest EXCEPT ![Current(o)] = y] ELSE dest)
    BY <1>2 DEF CopyUnit
  <2>3. f # Current(o) => part'[f] = part[f] /\ dest'[f] = dest[f]
    BY <2>2 DEF TypeOK, FilesOK
  <2>4. f = Current(o) => Fetches(o, f) /\ f \in FilesOf(o)
    BY <2>1, CurrentIsOwn DEF Downloading, Fetches, Live
  <2>5. dest' = dest \/ fd[o].to = "dest"
    BY <2>2
  <2> QED
    BY <2>1, <2>3, <2>4, <2>5 DEF SameFile
<1>3. CASE install(o)
  <2>1. PICK g : g = Current(o)
    OBVIOUS
  <2>2. g \in FilesOf(o) /\ g \in Destinations
    BY <1>3, <2>1, CurrentIsOwn DEF install
  <2>3. /\ part' = [part EXCEPT ![g] = NoFile] \/ part' = part
        /\ dest' = [dest EXCEPT ![g] = part[g]] \/ dest' = dest
        /\ installed' = [installed EXCEPT ![g] = {o}] \/ installed' = [installed EXCEPT ![g] = @ \cup {o}]
    BY <1>3, <2>1 DEF install
  <2>4. f # g => part'[f] = part[f] /\ dest'[f] = dest[f] /\ installed'[f] = installed[f]
    BY <2>2, <2>3 DEF TypeOK, FilesOK
  <2> QED
    BY <1>3, <2>1, <2>2, <2>4 DEF SameFile
<1>4. CASE CleanupRemove(o)
  <2>1. PICK g \in todo[o] :
          \/ /\ part' = [part EXCEPT ![g] = NoFile]
             /\ clash' = clash \cup
                  {h \in {g} : part[g].there /\ \E q \in Ops : Live(q) /\ g \in FilesOf(q)}
          \/ part' = part
    BY <1>4 DEF CleanupRemove
  <2>2. dest' = dest /\ installed' = installed
    BY <1>4 DEF CleanupRemove
  <2>3. CASE f = g /\ part' # part
    <3>1. ~part'[f].there
      BY <2>1, <2>3 DEF NoFile, TypeOK, FilesOK
    <3>2. part[f].there => \A q \in Ops : Live(q) /\ f \in FilesOf(q) => f \in clash'
      BY <2>1, <2>3
    <3> QED
      BY <2>2, <3>1, <3>2 DEF SameFile
  <2>4. CASE f # g \/ part' = part
    BY <2>1, <2>2, <2>4 DEF SameFile, TypeOK, FilesOK
  <2> QED
    BY <2>3, <2>4
<1>5. CASE ~(OpenPartial(o) \/ CopyUnit(o) \/ install(o) \/ CleanupRemove(o))
  <2>1. part' = part /\ dest' = dest /\ installed' = installed
    BY <1>5 DEF ExecutorStep, advance, Write, StepFails, DownloadAborted, SkipArtifact,
       StatPartial, CopyDone, verify, VerifyFails, InstallFails, Register, CleanupList,
       PruneList, PruneRemove, RunReturns, Fail, fileVars
  <2> QED
    BY <2>1 DEF SameFile
<1> QED
  BY <1>1, <1>2, <1>3, <1>4, <1>5

-----------------------------------------------------------------------------
(* The others.                                                             *)

(* An executor's step leaves the other executors where they are, and makes *)
(* none of its own.                                                        *)
LEMMA OthersStay ==
  ASSUME IInv, NEW o \in Ops, ExecutorStep(o)
  PROVE  /\ \A q \in Ops \ {o} : /\ pc'[q] = pc[q] /\ phase'[q] = phase[q]
                                 /\ step'[q] = step[q] /\ art'[q] = art[q]
         /\ Begun(o) /\ Begun(o)'
         /\ Live(o)' => Live(o)
         /\ clash \subseteq clash'
         /\ registered' = registered \/ (Register(o) /\ registered' = registered \cup {o})
<1> USE DEF IInv, TypeOK, ExecOK
<1>1. CASE SaveBegun(o) \/ Work(o) \/ Write(o) \/ Reclaim(o) \/ Dropped(o)
  <2>1. /\ \A q \in Ops \ {o} : pc'[q] = pc[q] /\ phase'[q] = phase[q] /\ art'[q] = art[q]
        /\ Begun(o) /\ Begun(o)'
        /\ Live(o)' => Live(o)
    BY <1>1 DEF SaveBegun, Work, Write, Reclaim, Dropped, Live, Begun
  <2>2. \A q \in Ops \ {o} : step'[q] = step[q]
    BY DEF ExecutorStep, advance, Write, StepFails, DownloadAborted, SkipArtifact, StatPartial,
       OpenPartial, CopyUnit, CopyDone, verify, VerifyFails, install, InstallFails, Register,
       CleanupList, CleanupRemove, PruneList, PruneRemove, RunReturns, Fail
  <2>3. clash \subseteq clash'
    BY DEF ExecutorStep, advance, Write, StepFails, DownloadAborted, SkipArtifact, StatPartial,
       OpenPartial, CopyUnit, CopyDone, verify, VerifyFails, install, InstallFails, Register,
       CleanupList, CleanupRemove, PruneList, PruneRemove, RunReturns, Fail, fileVars
  <2>4. registered' = registered \/ (Register(o) /\ registered' = registered \cup {o})
    BY DEF ExecutorStep, advance, Write, StepFails, DownloadAborted, SkipArtifact, StatPartial,
       OpenPartial, CopyUnit, CopyDone, verify, VerifyFails, install, InstallFails, Register,
       CleanupList, CleanupRemove, PruneList, PruneRemove, RunReturns, Fail, fileVars
  <2> QED
    BY <2>1, <2>2, <2>3, <2>4
<1> QED
  BY <1>1, ExecutorSteps

-----------------------------------------------------------------------------
(* The parts of the invariant, under an executor's step.              *)

(* No executor appears: a destination has no more users than before.       *)
LEMMA ExecutorOneUser ==
  ASSUME IInv, OneUser, NEW o \in Ops, ExecutorStep(o)
  PROVE  OneUser'
<1>1. \A q \in Ops : Live(q)' => Live(q)
  BY OthersStay DEF Live
<1>2. clash \subseteq clash'
  BY OthersStay
<1> QED
  BY <1>1, <1>2 DEF OneUser, FilesOf

(* Only in the downloading phase is anything asked for.                    *)
LEMMA ExecutorFreshStart ==
  ASSUME IInv, FreshStart, NEW o \in Ops, ExecutorStep(o)
  PROVE  FreshStart'
<1> USE DEF IInv, TypeOK, ExecOK
<1> SUFFICES ASSUME NEW q \in Ops,
                    \/ ~Begun(q)'
                    \/ Live(q)' /\ phase'[q] \in {"queued", "preflighting", "resolving"}
             PROVE  step'[q] = "stat"
  BY DEF FreshStart, Live, Begun
<1>1. CASE q # o
  BY <1>1, OthersStay DEF FreshStart, Live, Begun
<1>2. CASE q = o
  <2>1. Live(o) /\ Live(o)' /\ phase'[o] \in {"queued", "preflighting", "resolving"}
    BY <1>2, OthersStay
  <2>2. CASE advance(o)
    <3>1. /\ pc[o] = "run" /\ phase'[o] = PhaseAfter(phase[o]) /\ step' = step
          /\ phase[o] \in Phase /\ ~Terminal(phase[o])
      BY <2>2 DEF advance, SaveAs, Running
    <3>2. phase[o] \in {"queued", "preflighting", "resolving"}
      BY <2>1, <3>1, PhaseNames, PhaseAfterValues DEF Terminal
    <3> QED
      BY <1>2, <2>1, <3>1, <3>2 DEF FreshStart
  <2>3. CASE Write(o)
    <3>1. phase' = phase /\ step' = step
      BY <2>3 DEF Write
    <3> QED
      BY <1>2, <2>1, <3>1 DEF FreshStart
  <2>4. CASE Fail(o)
    BY <2>1, <2>4 DEF Fail, SaveAs
  <2>5. CASE CopyUnit(o)
    BY <2>1, <2>5 DEF CopyUnit, Downloading, SaveAs
  <2>6. CASE CopyDone(o)
    BY <2>1, <2>6 DEF CopyDone, SaveAs
  <2>7. CASE SkipArtifact(o) \/ StatPartial(o) \/ OpenPartial(o)
    BY <2>1, <2>7 DEF SkipArtifact, StatPartial, OpenPartial, Downloading
  <2>8. CASE verify(o) \/ install(o) \/ Register(o)
    BY <2>1, <2>8 DEF verify, install, Register
  <2>9. CASE CleanupList(o) \/ CleanupRemove(o) \/ PruneList(o) \/ PruneRemove(o) \/ RunReturns(o)
    BY <2>1, <2>9 DEF CleanupList, CleanupRemove, PruneList, PruneRemove, RunReturns, Live
  <2> QED
    BY <2>2, <2>3, <2>4, <2>5, <2>6, <2>7, <2>8, <2>9
    DEF ExecutorStep, StepFails, DownloadAborted, VerifyFails, InstallFails
<1> QED
  BY <1>1, <1>2

(* A file nobody else uses stays as an executor has left it.               *)
LEMMA OwnFileStays ==
  ASSUME IInv, OneUser, NEW o \in Ops, ExecutorStep(o),
         NEW q \in Ops, q # o, Live(q), NEW f \in FilesOf(q), f \notin clash'
  PROVE  SameFile(f)
<1>1. f \in Destinations /\ f \notin clash
  BY FilesOfType, OthersStay
<1>2. ~(Live(o) /\ f \in FilesOf(o))
  BY <1>1 DEF OneUser
<1>3. install(o) => Live(o)
  BY DEF install, Live
<1> QED
  BY <1>1, <1>2, <1>3, FileSteps DEF Fetches

(* The work another has done is not undone.                                *)
LEMMA OthersWorkStays ==
  ASSUME IInv, OneUser, WorkStays, NEW o \in Ops, ExecutorStep(o),
         NEW q \in Ops, q # o, Live(q)', NEW i \in 1..Len(Artifacts[q]),
         Artifacts[q][i] \notin clash'
  PROVE  Treated(q, i)'
<1>1. Live(q) /\ phase'[q] = phase[q] /\ art'[q] = art[q]
  BY OthersStay DEF Live
<1>2. Artifacts[q][i] \in FilesOf(q) /\ Artifacts[q][i] \notin clash
  BY OthersStay DEF FilesOf
<1>3. Treated(q, i)
  BY <1>1, <1>2 DEF WorkStays
<1>4. SameFile(Artifacts[q][i])
  BY <1>1, <1>2, OwnFileStays
<1>5. PICK f : f = Artifacts[q][i]
  OBVIOUS
<1>6. /\ Verified(q, f) => Verified(q, f)'
      /\ Settled(q, f) => Settled(q, f)'
  BY <1>4, <1>5, SameFileFacts
<1> QED
  BY <1>1, <1>3, <1>5, <1>6 DEF Treated

(* verify has looked at every artifact before install moves the first, and *)
(* install has moved every one before the model is registered.             *)
LEMMA OwnWorkStays ==
  ASSUME IInv, WorkStays, NEW o \in Ops, ExecutorStep(o), Live(o)',
         NEW i \in 1..Len(Artifacts[o]), Artifacts[o][i] \notin clash'
  PROVE  Treated(o, i)'
<1> USE DEF IInv, TypeOK, ExecOK
<1>1. PICK f : f = Artifacts[o][i]
  OBVIOUS
<1>2. Live(o) /\ f \in FilesOf(o) /\ f \notin clash /\ f \in Destinations
  BY <1>1, OthersStay, FilesOfType DEF FilesOf
<1>3. Treated(o, i)
  BY <1>1, <1>2 DEF WorkStays
<1>4. CASE advance(o)
  <2>1. /\ pc[o] = "run" /\ phase'[o] = PhaseAfter(phase[o]) /\ art'[o] = 0
        /\ phase[o] \in Phase /\ ~Terminal(phase[o]) /\ part' = part /\ dest' = dest /\ installed' = installed
    BY <1>4 DEF advance, SaveAs, Running, fileVars
  <2>2. ~(i <= 0)
    BY ArtifactsAssumption
  <2>3. phase[o] \in {"verifying", "installing"} => i <= art[o]
    BY <1>4 DEF advance, WorkDone
  <2>4. /\ phase'[o] = "installing" => phase[o] = "verifying"
        /\ phase'[o] = "registering" => phase[o] = "installing"
        /\ phase'[o] = "reloading" => phase[o] = "registering"
        /\ phase'[o] = "succeeded" => phase[o] = "reloading"
    BY <2>1, PhaseNames, PhaseAfterValues DEF Terminal
  <2>5. SameFile(f)
    BY <2>1 DEF SameFile
  <2>6. /\ Verified(o, f) => Verified(o, f)'
        /\ Settled(o, f) => Settled(o, f)'
    BY <2>5, SameFileFacts
  <2> QED
    BY <1>1, <1>3, <2>1, <2>2, <2>3, <2>4, <2>6 DEF Treated
<1>5. CASE Write(o) \/ Register(o)
  <2>1. /\ phase' = phase /\ part' = part /\ dest' = dest /\ installed' = installed
        /\ art' = art \/ phase[o] = "registering"
    BY <1>5 DEF Write, Register, fileVars
  <2>2. SameFile(f)
    BY <2>1 DEF SameFile
  <2>3. /\ Verified(o, f) => Verified(o, f)'
        /\ Settled(o, f) => Settled(o, f)'
    BY <2>2, SameFileFacts
  <2> QED
    BY <1>1, <1>3, <2>1, <2>3 DEF Treated
<1>6. CASE verify(o)
  <2>1. /\ phase[o] = "verifying" /\ phase' = phase /\ part' = part /\ dest' = dest /\ installed' = installed
        /\ art'[o] = art[o] + 1 /\ Verified(o, Current(o))
    BY <1>6 DEF verify, fileVars
  <2>2. i <= art[o] + 1 => i <= art[o] \/ i = art[o] + 1
    OBVIOUS
  <2>3. i = art[o] + 1 => Verified(o, f)
    BY <1>1, <2>1 DEF Current
  <2>4. SameFile(f)
    BY <2>1 DEF SameFile
  <2>5. Verified(o, f) => Verified(o, f)'
    BY <2>4, SameFileFacts
  <2> QED
    BY <1>1, <1>3, <2>1, <2>2, <2>3, <2>5 DEF Treated
<1>7. CASE install(o)
  <2>1. /\ phase[o] = "installing" /\ phase' = phase /\ art'[o] = art[o] + 1
        /\ Current(o) \in Destinations
    BY <1>7, CurrentType DEF install
  <2>2. Verified(o, f)
    BY <1>1, <1>3, <2>1 DEF Treated
  <2>3. i <= art[o] + 1 => i <= art[o] \/ f = Current(o)
    <3>1. i <= art[o] + 1 => i <= art[o] \/ i = art[o] + 1
      OBVIOUS
    <3> QED
      BY <1>1, <3>1 DEF Current
  <2>4. CASE f = Current(o)
    <3>1. Settled(o, f)' /\ Verified(o, f)'
      <4>1. CASE part[f].there
        <5>1. dest'[f] = part[f] /\ part'[f] = NoFile /\ installed'[f] = {o}
          BY <1>7, <2>1, <2>4, <4>1 DEF install, FilesOK
        <5> QED
          BY <2>2, <4>1, <5>1 DEF Verified, AsPlanned, Length, Settled, Good, NoFile
      <4>2. CASE ~part[f].there
        <5>1. dest' = dest /\ part' = part /\ o \in installed'[f]
          BY <1>7, <2>1, <2>4, <4>2 DEF install, FilesOK
        <5> QED
          BY <2>2, <4>2, <5>1 DEF Verified, AsPlanned, Length, Settled, Good
      <4> QED
        BY <4>1, <4>2
    <3> QED
      BY <1>1, <2>1, <3>1 DEF Treated
  <2>5. CASE f # Current(o)
    <3>1. SameFile(f)
      <4>2. PICK g : g = Current(o)
        OBVIOUS
      <4>3. /\ part' = [part EXCEPT ![g] = NoFile] \/ part' = part
            /\ dest' = [dest EXCEPT ![g] = part[g]] \/ dest' = dest
            /\ installed' = [installed EXCEPT ![g] = {o}] \/ installed' = [installed EXCEPT ![g] = @ \cup {o}]
        BY <1>7, <4>2 DEF install
      <4>4. part'[f] = part[f] /\ dest'[f] = dest[f] /\ installed'[f] = installed[f]
        BY <1>2, <2>5, <4>2, <4>3 DEF FilesOK
      <4> QED
        BY <4>4 DEF SameFile
    <3>2. /\ Verified(o, f) => Verified(o, f)'
          /\ Settled(o, f) => Settled(o, f)'
      BY <3>1, SameFileFacts
    <3> QED
      BY <1>1, <1>3, <2>1, <2>3, <2>5, <3>2 DEF Treated
  <2> QED
    BY <2>4, <2>5
<1>8. CASE phase'[o] \in {"downloading", "failed"}
  BY <1>8 DEF Treated
<1>9. Fail(o) \/ SkipArtifact(o) \/ StatPartial(o) \/ OpenPartial(o) \/ CopyUnit(o) \/ CopyDone(o)
        => phase'[o] \in {"downloading", "failed"}
  BY DEF Fail, SkipArtifact, StatPartial, OpenPartial, CopyUnit, CopyDone, Downloading, SaveAs
<1>10. ~(CleanupList(o) \/ CleanupRemove(o) \/ PruneList(o) \/ PruneRemove(o) \/ RunReturns(o))
  BY <1>2 DEF CleanupList, CleanupRemove, PruneList, PruneRemove, RunReturns, Live
<1> QED
  BY <1>4, <1>5, <1>6, <1>7, <1>8, <1>9, <1>10
  DEF ExecutorStep, StepFails, DownloadAborted, VerifyFails, InstallFails

(* A file is opened by a download and closed at its end; a rename that     *)
(* carries it off is another user's.                                       *)
LEMMA ExecutorOpenFiles ==
  ASSUME IInv, OneUser, OpenFiles, NEW o \in Ops, ExecutorStep(o)
  PROVE  OpenFiles'
<1> USE DEF IInv, TypeOK, ExecOK
<1> SUFFICES ASSUME NEW q \in Ops, fd'[q].to # "none", Live(q)' \/ ~Begun(q)'
             PROVE  /\ Fetches(q, Current(q))' /\ step'[q] = "copy"
                    /\ fd'[q].to = "dest" => Current(q)' \in clash'
  BY DEF OpenFiles, Live, Begun
<1>1. Live(q) \/ ~Begun(q)
  BY OthersStay DEF Live, Begun
<1>2. CASE fd'[q] = fd[q] /\ step'[q] = step[q] /\ art'[q] = art[q] /\ phase'[q] = phase[q]
  <2>1. Fetches(q, Current(q)) /\ step[q] = "copy" /\ (fd[q].to = "dest" => Current(q) \in clash)
    BY <1>1, <1>2 DEF OpenFiles
  <2>2. Live(q)' /\ clash \subseteq clash'
    BY <2>1, OthersStay DEF Fetches, Live, Begun
  <2> QED
    BY <1>2, <2>1, <2>2 DEF Fetches, Current
<1>3. CASE q # o /\ fd'[q] # fd[q]
  <2>1. \A f : FdsAfterRemove(f)[q] \in {fd[q], [fd[q] EXCEPT !.to = "gone"]}
    BY DEF FdsAfterRemove
  <2>2. \A f : \/ FdsAfterRename(f)[q] = fd[q]
               \/ (Writes(q, f) /\ FdsAfterRename(f)[q].to \in {"dest", "gone"})
    <3>1. fd[q] \in [to : {"none", "part", "dest", "gone"}, append : BOOLEAN, pos : Nat]
      BY DEF IInv, TypeOK, ExecOK
    <3>2. TAKE f
    <3>3. CASE Writes(q, f) /\ fd[q].to = "part"
      BY <3>1, <3>3 DEF FdsAfterRename
    <3>4. CASE Writes(q, f) /\ fd[q].to = "dest"
      BY <3>1, <3>4 DEF FdsAfterRename
    <3>5. CASE ~Writes(q, f) \/ fd[q].to \notin {"part", "dest"}
      BY <3>1, <3>5 DEF FdsAfterRename
    <3> QED
      BY <3>3, <3>4, <3>5
  <2>3. \/ fd'[q].to = "gone" /\ fd[q].to # "none"
        \/ install(o) /\ Writes(q, Current(o))
    <3>1. CASE install(o)
      BY <1>3, <2>2, <3>1 DEF install
    <3>2. CASE CleanupRemove(o)
      <4>1. PICK f : fd' = FdsAfterRemove(f)
        BY <1>3, <3>2 DEF CleanupRemove
      <4>2. Writes(q, f) /\ fd'[q] = [fd[q] EXCEPT !.to = "gone"]
        BY <1>3, <4>1 DEF FdsAfterRemove
      <4> QED
        BY <4>2 DEF Writes
    <3>3. CASE ~install(o) /\ ~CleanupRemove(o)
      <4>1. fd' = fd \/ \E x : fd' = [fd EXCEPT ![o] = x]
        BY <3>3 DEF ExecutorStep, advance, Write, StepFails, DownloadAborted, SkipArtifact,
           StatPartial, OpenPartial, CopyUnit, CopyDone, verify, VerifyFails, InstallFails, Register,
           CleanupList, PruneList, PruneRemove, RunReturns, Fail
      <4> QED
        BY <1>3, <4>1
    <3> QED
      BY <3>1, <3>2, <3>3
  <2>4. fd[q].to # "none"
    BY <2>3 DEF Writes
  <2>5. Fetches(q, Current(q)) /\ step[q] = "copy"
    BY <1>1, <2>4 DEF OpenFiles
  <2>6. Fetches(q, Current(q))' /\ step'[q] = "copy" /\ Current(q)' = Current(q)
    BY <1>3, <2>5, OthersStay DEF Fetches, Live, Current
  <2>7. install(o) /\ Writes(q, Current(o)) => Current(q) \in clash'
    <3>1. ASSUME install(o), Writes(q, Current(o)) PROVE Current(q) \in clash'
      <4>1. Current(q) = Current(o) /\ Live(o) /\ Live(q)
        BY <2>5, <3>1 DEF Writes, install, Live, Fetches
      <4>2. Current(q) \in FilesOf(o) \cap FilesOf(q)
        BY <2>5, <3>1, <4>1, CurrentIsOwn DEF install, Fetches
      <4>3. Current(q) \in clash
        BY <1>3, <4>1, <4>2 DEF OneUser
      <4> QED
        BY <4>3, OthersStay
    <3> QED
      BY <3>1
  <2> QED
    BY <2>3, <2>6, <2>7
<1>4. CASE q = o
  <2>1. Live(o) /\ Live(o)'
    BY <1>1, <1>4, OthersStay
  <2>2. CASE advance(o)
    <3>1. fd[o].to # "none" /\ pc[o] = "run" /\ WorkDone(o)
      BY <1>4, <2>2 DEF advance
    <3>2. phase[o] = "downloading" /\ art[o] < Len(Artifacts[o])
      BY <2>1, <3>1 DEF OpenFiles, Fetches
    <3> QED
      BY <3>1, <3>2, ArtifactsAssumption DEF WorkDone
  <2>3. CASE Write(o)
    BY <1>2, <1>4, <2>3 DEF Write
  <2>4. CASE Fail(o) \/ CopyDone(o)
    BY <1>4, <2>4 DEF Fail, CopyDone, Closed
  <2>5. CASE SkipArtifact(o) \/ StatPartial(o)
    <3>1. step[o] = "stat" /\ fd'[o].to = fd[o].to
      BY <2>5 DEF SkipArtifact, StatPartial
    <3> QED
      BY <1>4, <2>1, <3>1 DEF OpenFiles
  <2>6. CASE OpenPartial(o)
    <3>1. /\ fd'[o].to = "part" /\ step'[o] = "copy" /\ UNCHANGED <<art, phase>>
          /\ phase[o] = "downloading" /\ art[o] < Len(Artifacts[o])
      BY <2>6 DEF OpenPartial, Downloading
    <3> QED
      BY <1>4, <2>1, <3>1 DEF Fetches, Current
  <2>7. CASE CopyUnit(o)
    <3>1. /\ fd'[o].to = fd[o].to /\ step' = step /\ art' = art
          /\ phase[o] = "downloading" /\ phase'[o] = "downloading" /\ clash' = clash
      BY <2>7 DEF CopyUnit, Downloading, SaveAs
    <3> QED
      BY <1>4, <2>1, <3>1 DEF OpenFiles, Fetches, Current
  <2>8. CASE verify(o) \/ install(o) \/ Register(o)
    <3>1. fd[o].to = "none"
      <4>1. phase[o] # "downloading"
        BY <2>8 DEF verify, install, Register
      <4> QED
        BY <2>1, <4>1 DEF OpenFiles, Fetches
    <3>2. fd'[o] = fd[o]
      BY <2>8, <3>1 DEF verify, install, Register, FdsAfterRename, Writes
    <3> QED
      BY <1>4, <3>1, <3>2
  <2>9. CASE CleanupList(o) \/ CleanupRemove(o) \/ PruneList(o) \/ PruneRemove(o) \/ RunReturns(o)
    BY <2>1, <2>9 DEF CleanupList, CleanupRemove, PruneList, PruneRemove, RunReturns, Live
  <2> QED
    BY <2>2, <2>3, <2>4, <2>5, <2>6, <2>7, <2>8, <2>9
    DEF ExecutorStep, StepFails, DownloadAborted, VerifyFails, InstallFails
<1> QED
  BY <1>2, <1>3, <1>4, OthersStay

(* What is installed stays so until another operation installs its own.    *)
LEMMA ExecutorInstalledStays ==
  ASSUME IInv, StorageInv, NEW o \in Ops, ExecutorStep(o)
  PROVE  InstalledStays'
<1> USE DEF StorageInv
<1> SUFFICES ASSUME NEW f \in Destinations, f \notin clash', NEW r \in installed'[f]
             PROVE  Good(r, f)'
  BY DEF InstalledStays
<1>1. f \notin clash
  BY OthersStay
<1>2. CASE dest'[f] = dest[f] /\ installed'[f] = installed[f]
  <2>1. Good(r, f)
    BY <1>1, <1>2 DEF InstalledStays
  <2> QED
    BY <1>2, <2>1 DEF Good, AsPlanned, Length
<1>3. CASE install(o) /\ f = Current(o)
  <2>1. Verified(o, f)
    <3>1. /\ Live(o) /\ phase[o] = "installing" /\ art[o] + 1 \in 1..Len(Artifacts[o])
      BY <1>3, ArtifactsAssumption DEF install, Live, IInv, TypeOK, ExecOK
    <3> QED
      BY <1>1, <1>3, <3>1 DEF WorkStays, Treated, Current
  <2>2. CASE part[f].there
    <3>1. dest'[f] = part[f] /\ installed'[f] = {o}
      BY <1>3, <2>2 DEF install, IInv, TypeOK, FilesOK
    <3> QED
      BY <2>1, <2>2, <3>1 DEF Verified, Good, AsPlanned, Length
  <2>3. CASE ~part[f].there
    <3>1. dest' = dest /\ installed'[f] = installed[f] \cup {o}
      BY <1>3, <2>3 DEF install, IInv, TypeOK, FilesOK
    <3>2. Good(r, f)
      <4>1. CASE r = o
        BY <2>1, <2>3, <4>1 DEF Verified, Good
      <4>2. CASE r # o
        BY <1>1, <3>1, <4>2 DEF InstalledStays
      <4> QED
        BY <4>1, <4>2
    <3> QED
      BY <3>1, <3>2 DEF Good, AsPlanned, Length
  <2> QED
    BY <2>2, <2>3
<1>4. CASE Fetches(o, f) /\ fd[o].to = "dest"
  BY <1>1, <1>4 DEF OpenFiles, Fetches
<1> QED
  BY <1>2, <1>3, <1>4, FileSteps DEF SameFile

(* A model is written to the config when its own executor has installed    *)
(* every file.                                                             *)
LEMMA ExecutorRegisteredThere ==
  ASSUME IInv, StorageInv, NEW o \in Ops, ExecutorStep(o)
  PROVE  RegisteredThere'
<1> USE DEF StorageInv
<1> SUFFICES ASSUME NEW r \in registered', NEW f \in FilesOf(r), f \notin clash'
             PROVE  installed'[f] # {}
  BY DEF RegisteredThere, FilesOf
<1>1. r \in Ops
  BY OthersStay DEF IInv, TypeOK, FilesOK
<1>2. f \in Destinations /\ f \notin clash
  BY <1>1, FilesOfType, OthersStay
<1>3. installed[f] # {}
  <2>1. CASE r \in registered
    BY <1>2, <2>1 DEF RegisteredThere
  <2>2. CASE r \notin registered
    <3>1. r = o /\ Register(o) /\ Live(o) /\ phase[o] = "registering"
      BY <2>2, OthersStay DEF Register, Live
    <3>2. PICK i \in 1..Len(Artifacts[o]) : f = Artifacts[o][i]
      BY <3>1 DEF FilesOf
    <3>3. Settled(o, f)
      BY <1>2, <3>1, <3>2 DEF WorkStays, Treated
    <3> QED
      BY <3>3 DEF Settled
  <2> QED
    BY <2>1, <2>2
<1>4. CASE install(o) /\ f = Current(o)
  BY <1>2, <1>4 DEF install, IInv, TypeOK, FilesOK
<1> QED
  BY <1>2, <1>3, <1>4, FileSteps DEF SameFile

-----------------------------------------------------------------------------
(* Storage, under any step.                                                *)

(* The lemmas above, put together.                                         *)
LEMMA ExecutorStorage ==
  ASSUME IInv, StorageInv, NEW o \in Ops, ExecutorStep(o)
  PROVE  StorageInv'
<1>1. OneUser' /\ FreshStart' /\ OpenFiles' /\ InstalledStays' /\ RegisteredThere'
  BY ExecutorOneUser, ExecutorFreshStart, ExecutorOpenFiles, ExecutorInstalledStays,
     ExecutorRegisteredThere DEF StorageInv
<1>2. ASSUME NEW q \in Ops, Live(q)', NEW i \in 1..Len(Artifacts[q]), Artifacts[q][i] \notin clash'
      PROVE  Treated(q, i)'
  BY <1>2, OthersWorkStays, OwnWorkStays DEF StorageInv
<1>3. WorkStays'
  BY <1>2 DEF WorkStays, Live
<1> QED
  BY <1>1, <1>3 DEF StorageInv

(* A step of neither executors nor files changes nothing of it, nor does a *)
(* request that a server has and no executor yet.                          *)
LEMMA SameStorage ==
  ASSUME StorageInv, UNCHANGED <<phase, step, art, fd>>, UNCHANGED fileVars,
         \A o \in Ops : pc'[o] = pc[o] \/ (~Begun(o) /\ ~Begun(o)')
  PROVE  StorageInv'
<1> USE DEF fileVars
<1>1. \A o \in Ops : (Live(o)' <=> Live(o)) /\ (Begun(o)' <=> Begun(o))
  BY DEF Live, Begun
<1>2. OneUser' /\ FreshStart'
  BY <1>1 DEF StorageInv, OneUser, FreshStart, FilesOf
<1>3. WorkStays'
  BY <1>1 DEF StorageInv, WorkStays, Treated, Verified, AsPlanned, Length, Settled, Good
<1>4. OpenFiles'
  BY <1>1 DEF StorageInv, OpenFiles, Fetches, Current
<1>5. InstalledStays' /\ RegisteredThere'
  BY DEF StorageInv, InstalledStays, RegisteredThere, Good, AsPlanned, Length, FilesOf
<1> QED
  BY <1>2, <1>3, <1>4, <1>5 DEF StorageInv

(* A new operation shares its destinations with others or is alone on      *)
(* them, and has done nothing yet.                                         *)
LEMMA CreateStorage ==
  ASSUME IInv, StorageInv, NEW o \in Ops, Create(o), pc'[o] # "new"
  PROVE  StorageInv'
<1> USE DEF IInv, TypeOK, ExecOK, StorageInv
<1>1. /\ pc[o] = "accepted" /\ phase[o] = "queued" /\ step[o] = "stat"
      /\ pc'[o] = "run" /\ \A q \in Ops \ {o} : pc'[q] = pc[q]
      /\ UNCHANGED <<phase, step, art, fd, part, dest, registered, installed>>
      /\ clash' = clash \cup {f \in FilesOf(o) : \E q \in Ops : Live(q) /\ f \in FilesOf(q)}
  BY DEF Create, Created, FreshStart, Begun
<1>2. OneUser'
  <2>1. \A q \in Ops \ {o} : Live(q)' => Live(q)
    BY <1>1 DEF Live
  <2>2. \A q \in Ops : Live(q) => FilesOf(o) \cap FilesOf(q) \subseteq clash'
    BY <1>1
  <2>3. \A p, q \in Ops \ {o} : Live(p)' /\ Live(q)' /\ p # q
        => FilesOf(p) \cap FilesOf(q) \subseteq clash'
    BY <1>1, <2>1 DEF OneUser
  <2>4. \A p, q \in Ops : Live(p)' /\ Live(q)' /\ p # q
        => FilesOf(p) \cap FilesOf(q) \subseteq clash'
    BY <2>1, <2>2, <2>3
  <2> QED
    BY <2>4 DEF OneUser, FilesOf
<1>3. FreshStart'
  BY <1>1 DEF FreshStart, Live, Begun
<1>4. WorkStays'
  <2> SUFFICES ASSUME NEW q \in Ops, Live(q)', NEW i \in 1..Len(Artifacts[q]),
                      Artifacts[q][i] \notin clash'
               PROVE  Treated(q, i)'
    BY DEF WorkStays, Live
  <2>1. CASE q = o
    BY <1>1, <2>1 DEF Treated
  <2>2. CASE q # o
    <3>1. Treated(q, i)
      BY <1>1, <2>2 DEF WorkStays, Live
    <3> QED
      BY <1>1, <3>1 DEF Treated, Verified, AsPlanned, Length, Settled, Good
  <2> QED
    BY <2>1, <2>2
<1>5. OpenFiles'
  <2>1. fd[o].to = "none"
    BY <1>1 DEF OpenFiles, Begun, Fetches, Live
  <2>2. \A q \in Ops \ {o} : (Live(q)' <=> Live(q)) /\ (Begun(q)' <=> Begun(q))
    BY <1>1 DEF Live, Begun
  <2> QED
    BY <1>1, <2>1, <2>2 DEF OpenFiles, Fetches, Current
<1>6. InstalledStays'
  BY <1>1 DEF InstalledStays, Good, AsPlanned, Length
<1>7. RegisteredThere'
  BY <1>1 DEF RegisteredThere, FilesOf
<1> QED
  BY <1>2, <1>3, <1>4, <1>5, <1>6, <1>7

(* A crash leaves no executor, and the files as they were.                 *)
LEMMA CrashStorage ==
  ASSUME IInv, StorageInv, Crash
  PROVE  StorageInv'
<1>1. /\ \A q \in Ops : ~Live(q)' /\ step'[q] = "stat" /\ fd'[q].to = "none"
      /\ UNCHANGED <<part, dest, registered, clash, installed>>
  BY DEF Crash, Closed, Live, IInv, TypeOK, ExecOK, fileVars
<1>2. OneUser' /\ FreshStart' /\ WorkStays' /\ OpenFiles'
  BY <1>1 DEF OneUser, FreshStart, WorkStays, OpenFiles
<1>3. InstalledStays' /\ RegisteredThere'
  BY <1>1 DEF StorageInv, InstalledStays, RegisteredThere, Good, AsPlanned, Length, FilesOf
<1> QED
  BY <1>2, <1>3 DEF StorageInv

(* At first nothing runs and nothing is in the config.                     *)
LEMMA InitStorage == Init => StorageInv
BY DEF Init, StorageInv, OneUser, FreshStart, WorkStays, OpenFiles, InstalledStays,
   RegisteredThere, Closed, Live

(* Where no two operations got in each other's way, files stay as the      *)
(* executor that verified and installed them has left them.                *)
LEMMA StorageStep == IInv /\ StorageInv /\ [Next]_vars => StorageInv'
<1> SUFFICES ASSUME IInv, StorageInv, [Next]_vars PROVE StorageInv'
  OBVIOUS
<1>1. CASE UNCHANGED vars
  BY <1>1, SameStorage DEF vars, fileVars
<1>2. ASSUME NEW o \in Ops, HandlerStep(o) PROVE StorageInv'
  <2>1. CASE Create(o) /\ pc'[o] # "new"
    BY <2>1, CreateStorage
  <2>2. CASE ~(Create(o) /\ pc'[o] # "new")
    <3>1. /\ UNCHANGED <<phase, step, art, fd>> /\ UNCHANGED fileVars
          /\ \A q \in Ops : pc'[q] = pc[q] \/ (~Begun(q) /\ ~Begun(q)')
      <4>1. CASE Accept(o)
        BY <4>1 DEF Accept, Begun, IInv, TypeOK, ExecOK
      <4>2. CASE Create(o)
        <5>1. pc[o] = "accepted" /\ pc' = [pc EXCEPT ![o] = "new"] /\ clash' = clash
          BY <2>2, <4>2 DEF Create, IInv, TypeOK, ExecOK
        <5>2. UNCHANGED <<phase, step, art, fd, part, dest, registered, installed>>
          BY <4>2 DEF Create
        <5> QED
          BY <5>1, <5>2 DEF Begun, fileVars, IInv, TypeOK, ExecOK
      <4>3. CASE CancelLoad(o) \/ CancelSave(o) \/ CancelWrite(o)
        BY <4>3 DEF CancelLoad, CancelSave, CancelWrite, execVars
      <4> QED
        BY <1>2, <4>1, <4>2, <4>3 DEF HandlerStep
    <3> QED
      BY <3>1, SameStorage
  <2> QED
    BY <2>1, <2>2
<1>3. CASE ServerStep
  <2>1. Crash \/ (UNCHANGED execVars /\ UNCHANGED fileVars)
    BY <1>3 DEF ServerStep, ReloadPass, RecoverCheck, RecoverWrite, Booted, ReloadAbandoned, Swap,
       OldShutdown, Exit
  <2> QED
    BY <2>1, CrashStorage, SameStorage DEF execVars
<1> QED
  BY <1>1, <1>2, <1>3, ExecutorStorage DEF Next

(* A model written to the config has its files in place, as planned by     *)
(* every operation that has installed them as they are, on every           *)
(* destination no two operations used at once.                             *)
THEOREM RegisteredIsInstalledHolds == Spec => []RegisteredIsInstalled
<1>1. IInv /\ StorageInv => RegisteredIsInstalled
  <2> SUFFICES ASSUME IInv, StorageInv, NEW o \in registered, NEW f \in FilesOf(o) \ clash
               PROVE  /\ dest[f].there /\ installed[f] # {}
                      /\ \A q \in installed[f] : AsPlanned(q, f, dest[f])
    BY DEF RegisteredIsInstalled
  <2>1. f \in Destinations
    BY FilesOfType DEF IInv, TypeOK, FilesOK
  <2>2. installed[f] # {}
    BY DEF StorageInv, RegisteredThere
  <2>3. \A q \in installed[f] : Good(q, f)
    BY <2>1 DEF StorageInv, InstalledStays
  <2> QED
    BY <2>2, <2>3 DEF Good
<1> QED
  BY Invariance, InitStorage, StorageStep, <1>1, PTL DEF Spec

-----------------------------------------------------------------------------
(* Reclaiming.                                                             *)

(* A server's step, seen from the reclaiming executors: nothing happens to *)
(* them, or they are no more.                                              *)
Spared ==
  /\ part' = part
  /\ \A o \in Ops :
      \/ pc'[o] = pc[o] /\ todo'[o] = todo[o]
      \/ pc'[o] = "dead"
      \/ pc'[o] = pc[o] /\ pc[o] \in {"new", "done"}
      \/ ~Begun(o) /\ pc'[o] = "new"

(* The server does no more than that.                                      *)
LEMMA ServerSpares ==
  ASSUME IInv, ServerStep
  PROVE  Spared
<1>1. CASE Crash
  BY <1>1 DEF Crash, Spared, Begun, Live, IInv, TypeOK, ExecOK, fileVars
<1>2. CASE ~Crash
  BY <1>2 DEF ServerStep, ReloadPass, RecoverCheck, RecoverWrite, Booted, ReloadAbandoned, Swap,
     OldShutdown, Exit, Spared, execVars, fileVars
<1> QED
  BY <1>1, <1>2

(* An operation is created once.                                           *)
LEMMA CreatedOnce ==
  ASSUME IInv, Next, NEW o \in Ops, Begun(o)
  PROVE  Begun(o)'
<1>1. ASSUME NEW q \in Ops, ExecutorStep(q) PROVE Begun(o)'
  BY <1>1, OthersStay DEF Begun
<1>2. ASSUME NEW q \in Ops, HandlerStep(q) PROVE Begun(o)'
  BY <1>2 DEF IInv, TypeOK, ExecOK, Begun, HandlerStep, Accept, Create, CancelLoad, CancelSave,
     CancelWrite, execVars
<1>3. ASSUME ServerStep PROVE Begun(o)'
  BY <1>3, ServerSpares DEF Spared, Begun
<1> QED
  BY <1>1, <1>2, <1>3 DEF Next

(* The end of an operation is not rewritten.                               *)
LEMMA TerminalStays ==
  ASSUME IInv, Next, NEW o \in Retained, o \notin pruned', Begun(o),
         Terminal(record[o].phase)
  PROVE  record'[o].phase = record[o].phase
<1>1. o \in Ops /\ Begun(o)'
  BY CreatedOnce DEF Retained
<1>2. Created'
  BY ExecutorInvariant, HandlerInvariant, ServerInvariant DEF Next, IInv
<1>3. record'[o].phase # "none"
  BY <1>1, <1>2 DEF Created
<1>4. record[o].phase # "none"
  BY DEF Terminal
<1>5. ~Precedes(record[o].phase, record'[o].phase)
  BY Preceding
<1> QED
  BY <1>3, <1>4, <1>5, LegalSteps DEF Legal, CanTransition

(* Whoever counts as retained after a step, and has a run that ended, was  *)
(* retained before: a crash forgets only the reloads of runs it killed.    *)
LEMMA RetainedBefore ==
  ASSUME IInv, Next, NEW o \in Retained', pc'[o] \in {"reclaim", "sweep", "drop", "done"}
  PROVE  o \in Retained /\ o \notin pruned'
<1> USE DEF Retained, IInv, TypeOK, ExecOK
<1>1. ASSUME NEW q \in Ops, ExecutorStep(q)
      PROVE  reloadedOver' = reloadedOver /\ pruned \subseteq pruned'
  <2>1. UNCHANGED serverVars
    BY <1>1, ExecutorSteps
  <2>2. pruned \subseteq pruned'
    BY <1>1, ExecutorSteps DEF SaveBegun, Work, Write, Reclaim, Dropped
  <2> QED
    BY <2>1, <2>2 DEF serverVars
<1>2. ASSUME NEW q \in Ops, HandlerStep(q) PROVE reloadedOver' = reloadedOver /\ pruned' = pruned
  BY <1>2 DEF HandlerStep, Accept, Create, CancelLoad, CancelSave, CancelWrite, srvVars, serverVars, dirVars
<1>3. ASSUME ServerStep, ~Crash PROVE reloadedOver \subseteq reloadedOver' /\ pruned' = pruned
  BY <1>3 DEF ServerStep, ReloadPass, RecoverCheck, RecoverWrite, Booted, ReloadAbandoned, Swap,
     OldShutdown, Exit, dirVars
<1>4. CASE Crash
  <2>1. pc'[o] = "done" => pc[o] = "done"
    BY <1>4 DEF Crash
  <2>2. pc'[o] \notin {"reclaim", "sweep", "drop"}
    BY <1>4 DEF Crash
  <2>3. reloadedOver' = {x \in reloadedOver : pc[x] = "done"} /\ pruned' = pruned
    BY <1>4 DEF Crash, dirVars
  <2> QED
    BY <2>1, <2>2, <2>3
<1> QED
  BY <1>1, <1>2, <1>3, <1>4 DEF Next

(* What was missed is not forgotten.                                       *)
LEMMA MissedGrows ==
  ASSUME Next
  PROVE  missed \subseteq missed'
<1>1. ASSUME NEW q \in Ops, ExecutorStep(q) PROVE missed \subseteq missed'
  BY <1>1 DEF ExecutorStep, advance, Write, StepFails, DownloadAborted, SkipArtifact, StatPartial,
     OpenPartial, CopyUnit, CopyDone, verify, VerifyFails, install, InstallFails, Register,
     CleanupList, CleanupRemove, PruneList, PruneRemove, RunReturns, Fail, srvVars, faultVars
<1>2. ASSUME NEW q \in Ops, HandlerStep(q) PROVE missed' = missed
  BY <1>2 DEF HandlerStep, Accept, Create, CancelLoad, CancelSave, CancelWrite, srvVars, faultVars
<1>3. ASSUME ServerStep PROVE missed' = missed
  BY <1>3 DEF ServerStep, ReloadPass, RecoverCheck, RecoverWrite, Booted, ReloadAbandoned, Swap,
     OldShutdown, Exit, Crash, faultVars
<1> QED
  BY <1>1, <1>2, <1>3 DEF Next

(* A run begins to reclaim when a save was rejected, which only a terminal *)
(* record does, or when its last one is written.                           *)
LEMMA EndedStep ==
  ASSUME IInv, Ended, Next
  PROVE  Ended'
<1> SUFFICES ASSUME NEW o \in Retained', pc'[o] \in {"reclaim", "sweep", "drop", "done"}
             PROVE  Terminal(record'[o].phase) \/ FilesOf(o) \subseteq missed'
  BY DEF Ended, Terminal, FilesOf
<1>1. o \in Retained /\ o \in Ops /\ o \notin pruned'
  BY RetainedBefore DEF Retained
<1>2. CASE pc[o] \in {"reclaim", "sweep", "drop", "done"}
  <2>1. CASE FilesOf(o) \subseteq missed
    BY <2>1, MissedGrows
  <2>2. CASE Terminal(record[o].phase)
    BY <1>1, <1>2, <2>2, TerminalStays DEF Begun
  <2> QED
    BY <1>1, <1>2, <2>1, <2>2 DEF Ended
<1>3. CASE pc[o] \notin {"reclaim", "sweep", "drop", "done"}
  <2>1. ASSUME NEW q \in Ops, ExecutorStep(q)
        PROVE  Terminal(record'[o].phase) \/ FilesOf(o) \subseteq missed'
    <3>1. q = o
      BY <1>1, <1>3, <2>1, OthersStay
    <3>2. SaveBegun(o) \/ Write(o)
      <4>1. SaveBegun(o) \/ Work(o) \/ Write(o) \/ Reclaim(o) \/ Dropped(o)
        BY <2>1, <3>1, ExecutorSteps DEF IInv
      <4> QED
        BY <1>3, <4>1 DEF Work, Reclaim, Dropped
    <3>3. CASE SaveBegun(o)
      <4>1. PICK p \in Phase, at \in {"write", "reclaim", "run"} :
              pc' = [pc EXCEPT ![o] = at] /\ (at = "write" <=> Passes(o, p))
              /\ (at = "run" => p = phase[o])
        BY <3>3 DEF SaveBegun
      <4>2. at = "reclaim"
        BY <1>1, <4>1 DEF IInv, TypeOK, ExecOK
      <4>3. ~Passes(o, p) /\ record' = record
        BY <3>3, <4>1, <4>2 DEF SaveBegun
      <4> QED
        BY <4>3 DEF Passes
    <3>4. CASE Write(o)
      <4>1. Terminal(phase[o])
        BY <1>1, <3>4 DEF Write, IInv, TypeOK, ExecOK
      <4>2. record'[o].phase = phase[o] \/ missed' = missed \cup {f \in FilesOf(o) : Terminal(phase[o])}
        BY <1>1, <3>4 DEF Write, Saves, Put, IInv, TypeOK, DirOK
      <4> QED
        BY <4>1, <4>2
    <3> QED
      BY <3>2, <3>3, <3>4
  <2>2. ASSUME NEW q \in Ops, HandlerStep(q) PROVE FALSE
    BY <1>1, <1>3, <2>2 DEF IInv, TypeOK, ExecOK, HandlerStep, Accept, Create, CancelLoad, CancelSave,
     CancelWrite, execVars
  <2>3. ASSUME ServerStep PROVE FALSE
    BY <1>1, <1>3, <2>3, ServerSpares DEF Spared
  <2> QED
    BY <2>1, <2>2, <2>3 DEF Next
<1> QED
  BY <1>2, <1>3

(* A partial file comes into being for a live operation that installs it.  *)
LEMMA PartialAppears ==
  ASSUME IInv, Next, NEW f \in Destinations, ~part[f].there, part'[f].there
  PROVE  \E q \in Ops : Live(q) /\ f \in FilesOf(q)
<1>1. ASSUME NEW q \in Ops, ExecutorStep(q) PROVE Live(q) /\ f \in FilesOf(q)
  BY <1>1, FileSteps DEF SameFile, Fetches, install, Live
<1>2. ASSUME NEW q \in Ops, HandlerStep(q) PROVE FALSE
  BY <1>2 DEF HandlerStep, Accept, Create, CancelLoad, CancelSave, CancelWrite, fileVars
<1>3. ASSUME ServerStep PROVE FALSE
  BY <1>3, ServerSpares DEF Spared
<1> QED
  BY <1>1, <1>2, <1>3 DEF Next

(* What an executor has still to sweep it forgets only by removing it, or  *)
(* it is missed.                                                           *)
LEMMA TodoStep ==
  ASSUME IInv, Next, NEW o \in Ops, pc[o] = "sweep", pc'[o] \in {"sweep", "drop", "done"},
         NEW f \in todo[o], part'[f].there, f \notin missed'
  PROVE  pc'[o] = "sweep" /\ f \in todo'[o]
<1>1. ASSUME NEW q \in Ops, q # o, ExecutorStep(q) PROVE pc'[o] = pc[o] /\ todo'[o] = todo[o]
  <2>1. todo'[o] = todo[o]
    <3>1. SaveBegun(q) \/ Work(q) \/ Write(q) \/ Reclaim(q) \/ Dropped(q)
      BY <1>1, ExecutorSteps DEF IInv
    <3> QED
      BY <1>1, <3>1 DEF SaveBegun, Work, Write, Reclaim, Dropped, IInv, TypeOK, ExecOK
  <2> QED
    BY <1>1, <2>1, OthersStay
<1>2. ASSUME ExecutorStep(o) PROVE pc'[o] = "sweep" /\ f \in todo'[o]
  <2>1. CleanupRemove(o)
    <3>1. CleanupRemove(o) \/ PruneList(o)
      BY <1>2 DEF ExecutorStep, advance, Write, StepFails, DownloadAborted, SkipArtifact,
         StatPartial, OpenPartial, CopyUnit, CopyDone, Downloading, verify, VerifyFails, install,
         InstallFails, Register, CleanupList, PruneRemove, RunReturns
    <3> QED
      BY <3>1 DEF PruneList
  <2>2. PICK g \in todo[o] :
          \/ part' = [part EXCEPT ![g] = NoFile] /\ todo' = [todo EXCEPT ![o] = @ \ {g}]
          \/ \E rest \in {{}, todo[o] \ {g}} :
               todo' = [todo EXCEPT ![o] = rest] /\ missed' = missed \cup (todo[o] \ rest)
    BY <2>1 DEF CleanupRemove
  <2>3. f \in todo'[o]
    <3>1. CASE part' = [part EXCEPT ![g] = NoFile] /\ todo' = [todo EXCEPT ![o] = @ \ {g}]
      <4>1. g # f
        BY <3>1 DEF NoFile, IInv, TypeOK, TodoOK, FilesOK
      <4> QED
        BY <3>1, <4>1 DEF IInv, TypeOK, ExecOK
    <3>2. ASSUME NEW rest, todo' = [todo EXCEPT ![o] = rest], missed' = missed \cup (todo[o] \ rest)
          PROVE  f \in todo'[o]
      BY <3>2 DEF IInv, TypeOK, ExecOK
    <3> QED
      BY <2>2, <3>1, <3>2
  <2>4. pc' = pc
    BY <2>1 DEF CleanupRemove
  <2> QED
    BY <2>3, <2>4
<1>3. ASSUME NEW q \in Ops, HandlerStep(q) PROVE pc'[o] = pc[o] /\ todo'[o] = todo[o]
  BY <1>3 DEF IInv, TypeOK, ExecOK, HandlerStep, Accept, Create, CancelLoad, CancelSave,
     CancelWrite, execVars
<1>4. ASSUME ServerStep PROVE pc'[o] = pc[o] /\ todo'[o] = todo[o]
  BY <1>4, ServerSpares DEF Spared
<1> QED
  BY <1>1, <1>2, <1>3, <1>4 DEF Next

(* The sweep begins with every file of the operations cancelled by then,   *)
(* its own among them.                                                     *)
LEMMA SweepBegins ==
  ASSUME IInv, Next, NEW o \in Ops, pc[o] \notin {"sweep", "drop", "done"},
         pc'[o] \in {"sweep", "drop", "done"}
  PROVE  /\ pc'[o] = "sweep" /\ record' = record
         /\ record[o].phase = "cancelled" => FilesOf(o) \subseteq todo'[o]
<1>1. ASSUME NEW q \in Ops, ExecutorStep(q) PROVE CleanupList(o)
  <2>1. q = o
    BY <1>1, OthersStay
  <2>2. pc[o] = "reclaim"
    <3>1. SaveBegun(o) \/ Work(o) \/ Write(o) \/ Reclaim(o) \/ Dropped(o)
      BY <1>1, <2>1, ExecutorSteps DEF IInv
    <3> QED
      BY <3>1 DEF SaveBegun, Work, Write, Reclaim, Dropped, IInv, TypeOK, ExecOK
  <2> QED
    BY <1>1, <2>1, <2>2 DEF ExecutorStep, advance, Write, StepFails, DownloadAborted, SkipArtifact,
       StatPartial, OpenPartial, CopyUnit, CopyDone, Downloading, verify, VerifyFails, install,
       InstallFails, Register, CleanupRemove, PruneList, PruneRemove, RunReturns
<1>2. ASSUME NEW q \in Ops, HandlerStep(q) PROVE FALSE
  BY <1>2 DEF IInv, TypeOK, ExecOK, HandlerStep, Accept, Create, CancelLoad, CancelSave,
     CancelWrite, execVars
<1>3. ASSUME ServerStep PROVE FALSE
  BY <1>3, ServerSpares DEF Spared
<1>4. CleanupList(o)
  BY <1>1, <1>2, <1>3 DEF Next
<1> QED
  BY <1>4 DEF CleanupList, Abandoned, dirVars, IInv, TypeOK, ExecOK

(* What a cancelled operation leaves is on its list, or another's.         *)
LEMMA SweptStep ==
  ASSUME IInv, Ended, Swept, Next
  PROVE  Swept'
<1> SUFFICES ASSUME NEW o \in Retained', record'[o].phase = "cancelled",
                    pc'[o] \in {"sweep", "drop", "done"}, NEW f \in FilesOf(o), f \notin missed',
                    part'[f].there
             PROVE  \/ pc'[o] = "sweep" /\ f \in todo'[o]
                    \/ \E q \in Ops \ {o} : Begun(q)' /\ f \in FilesOf(q)
  BY DEF Swept, FilesOf, Begun
<1>1. /\ o \in Retained /\ o \in Ops /\ o \notin pruned' /\ f \in Destinations
      /\ f \notin missed
  BY RetainedBefore, FilesOfType, MissedGrows DEF Retained
<1>2. CASE pc[o] \notin {"sweep", "drop", "done"}
  BY <1>1, <1>2, SweepBegins
<1>3. CASE pc[o] \in {"sweep", "drop", "done"}
  <2>1. record[o].phase = "cancelled"
    <3>1. Terminal(record[o].phase)
      BY <1>1, <1>3 DEF Ended
    <3> QED
      BY <1>1, <1>3, <3>1, TerminalStays DEF Begun
  <2>2. CASE part[f].there
    <3>1. \/ pc[o] = "sweep" /\ f \in todo[o]
          \/ \E q \in Ops \ {o} : Begun(q) /\ f \in FilesOf(q)
      BY <1>1, <1>3, <2>1, <2>2 DEF Swept
    <3> QED
      BY <1>1, <3>1, TodoStep, CreatedOnce
  <2>3. CASE ~part[f].there
    <3>1. PICK q \in Ops : Live(q) /\ f \in FilesOf(q)
      BY <1>1, <2>3, PartialAppears DEF FilesOf
    <3>2. q # o /\ Begun(q)
      BY <1>3, <3>1 DEF Live, Begun
    <3> QED
      BY <3>1, <3>2, CreatedOnce
  <2> QED
    BY <2>2, <2>3
<1> QED
  BY <1>2, <1>3

(* A cancelled operation whose run has returned leaves no partial file     *)
(* behind that only it would install, whatever was downloaded, cancelled   *)
(* and reclaimed meanwhile, and whatever crash came between, unless the    *)
(* file is one that a failure made reclaiming pass over.                   *)
THEOREM CancelledLeavesNothingHolds == Spec => []CancelledLeavesNothing
<1>1. Init => Ended /\ Swept
  BY DEF Init, Ended, Swept, Retained
<1>2. IInv /\ Ended /\ Swept /\ UNCHANGED vars => Ended' /\ Swept'
  BY DEF vars, Ended, Swept, Retained, Begun, FilesOf
<1>3. IInv /\ Ended /\ Swept /\ [Next]_vars => Ended' /\ Swept'
  BY <1>2, EndedStep, SweptStep
<1>4. Swept => CancelledLeavesNothing
  BY DEF Swept, CancelledLeavesNothing, Retained
<1> QED
  BY Invariance, <1>1, <1>3, <1>4, PTL DEF Spec
=============================================================================
