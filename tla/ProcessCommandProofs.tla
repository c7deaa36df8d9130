------------------------ MODULE ProcessCommandProofs ------------------------
(***************************************************************************)
(* Proofs about ProcessCommand, for any callers and any crash threshold:   *)
(* its safety properties, and that it implements ProcessLifecycle.         *)
(* Control is the heart of the inductive invariant: which combinations of  *)
(* the run loop's place, doStart's place, the published state and the held *)
(* cmd occur at all. Account adds where the operating-system process is.   *)
(***************************************************************************)
EXTENDS ProcessCommand, TLAPS

(* Where run() is determines what is published, whether it holds a cmd and *)
(* which callers it has taken on.                                          *)
Control ==
    /\ loop = "select" =>
          /\ state \in {"stopped", "ready", "failed"}
          /\ cmd <=> state = "ready"
          /\ handler <=> cmd
          /\ start = "none" /\ curRun = NoCall /\ curStop = NoCall
          /\ readyWaiters # {} => state = "stopped"
    /\ loop = "starting" =>
          /\ state = "starting" /\ ~cmd /\ ~handler
          /\ start # "none" /\ curRun \in Runs /\ curStop = NoCall
    /\ loop \in {"abortStart", "killStart"} =>
          /\ state = "starting" /\ ~cmd /\ ~handler
          /\ start # "none" /\ curRun \in Runs /\ curStop \in Stops
    /\ loop = "killStart" => start = "live"
    /\ loop = "stopping" =>
          /\ state = "stopping" /\ cmd /\ readyWaiters = {}
          /\ start = "none" /\ curRun = NoCall /\ curStop \in Stops
    /\ loop \in {"shutdownStart", "shutdownKill", "returned"} =>
          /\ state = "shutdown" /\ ~handler /\ curStop = NoCall /\ parentDone
    /\ loop = "shutdownStart" => ~cmd /\ start # "none"
    /\ loop \in {"shutdownKill", "returned"} => start = "none"
    /\ loop = "returned" => ~cmd /\ readyWaiters = {}
    /\ runResp # NoCall <=> cmd

(* Before the launch there is no process; afterwards somebody has it. What *)
(* is flagged is nobody's: no start is under way and no cmd is held.       *)
Account ==
    /\ live <= 1
    /\ start \in {"breaker", "exec"} => live = 0
    /\ possiblyLeaked => ~cmd /\ start \in {"none", "failed"} /\ loop # "shutdownKill"
    /\ NoUntrackedProcess

IInv == TypeOK /\ Control /\ Account

-----------------------------------------------------------------------------
(* The inductive invariant holds initially ...                             *)
LEMMA InitIInv == Init => IInv
<1> SUFFICES ASSUME Init PROVE IInv
  OBVIOUS
<1>1. state \in Lifecycle!ProcessState
  BY DEF Init, Lifecycle!ProcessState
<1>2. loop \in LoopPc /\ start \in StartPc
  BY DEF Init, LoopPc, StartPc
<1>3. crashes \in 0..Threshold /\ live \in Nat
  BY ThresholdAssumption DEF Init
<1>4. TypeOK
  BY <1>1, <1>2, <1>3 DEF Init, TypeOK
<1>5. Control
  BY DEF Init, Control
<1>6. Account
  BY DEF Init, Account, NoUntrackedProcess, StartHolds
<1> QED
  BY <1>4, <1>5, <1>6 DEF IInv

(* Every change of the crash history keeps it within its bound.            *)
LEMMA BreakerBounded ==
  ASSUME crashes \in 0..Threshold, cooling \in BOOLEAN,
         clearCrashHistory \/ recordUnexpectedExit \/ TimePasses
  PROVE  crashes' \in 0..Threshold /\ cooling' \in BOOLEAN
<1>1. CASE clearCrashHistory
  <2>1. crashes' = 0 /\ cooling' = FALSE
    BY <1>1 DEF clearCrashHistory
  <2>2. 0 \in 0..Threshold
    BY ThresholdAssumption
  <2> QED
    BY <2>1, <2>2
<1>2. CASE recordUnexpectedExit
  BY <1>2, ThresholdAssumption DEF recordUnexpectedExit
<1>3. CASE TimePasses
  <2>1. cooling' \in BOOLEAN
    BY <1>3 DEF TimePasses
  <2>2. crashes' = crashes \/ (crashes > 0 /\ crashes' = crashes - 1)
    <3>1. crashes > (IF cooling THEN 1 ELSE 0) => crashes > 0
      BY ThresholdAssumption
    <3> QED
      BY <1>3, <3>1, Zenon DEF TimePasses
  <2>3. crashes' \in 0..Threshold
    BY <2>2, ThresholdAssumption
  <2> QED
    BY <2>1, <2>3
<1> QED
  BY <1>1, <1>2, <1>3

(* What callers do on their own side of the channels. *)
LEMMA CallersStep ==
  ASSUME IInv,
         \/ \E r \in Runs : CallRun(r)
         \/ \E s \in Stops : CallStop(s)
         \/ \E w \in Waits : CallWaitReady(w)
         \/ GiveUpOnShutdown
         \/ \E w \in Waits : GiveUpWaiting(w)
  PROVE  IInv'
<1> USE DEF IInv, TypeOK, Control, Account, NoUntrackedProcess, StartPc, LoopPc, StartHolds,
         RunAnswer, StopAnswer, WaitAnswer, Lifecycle!ProcessState,
         loopVars, breakerVars, callVars
<1>1. ASSUME NEW r \in Runs, CallRun(r)
      PROVE  IInv'
  BY <1>1 DEF CallRun
<1>2. ASSUME NEW s \in Stops, CallStop(s)
      PROVE  IInv'
  BY <1>2 DEF CallStop
<1>3. ASSUME NEW w \in Waits, CallWaitReady(w)
      PROVE  IInv'
  BY <1>3 DEF CallWaitReady
<1>4. ASSUME GiveUpOnShutdown
      PROVE  IInv'
  BY <1>4 DEF GiveUpOnShutdown
<1>5. ASSUME NEW w \in Waits, GiveUpWaiting(w)
      PROVE  IInv'
  BY <1>5 DEF GiveUpWaiting
<1> QED
  BY <1>1, <1>2, <1>3, <1>4, <1>5

(* run() in its outer select. *)
LEMMA SelectStep ==
  ASSUME IInv,
         \/ \E w \in Waits : AcceptWaitReady(w)
         \/ \E r \in Runs : RefuseRun(r)
         \/ \E r \in Runs : AcceptRun(r)
         \/ \E s \in Stops : AcceptStopIdle(s)
         \/ \E s \in Stops : AcceptStop(s)
         \/ FinishStop
         \/ UpstreamExited
         \/ ShutdownIdle
         \/ ShutdownRunning
         \/ FinishShutdown
  PROVE  IInv'
<1> USE DEF IInv, TypeOK, Control, Account, NoUntrackedProcess, StartPc, LoopPc, StartHolds,
         RunAnswer, StopAnswer, WaitAnswer, Lifecycle!ProcessState,
         loopVars, breakerVars, callVars
<1>1. ASSUME NEW w \in Waits, AcceptWaitReady(w)
      PROVE  IInv'
  BY <1>1 DEF AcceptWaitReady
<1>2. ASSUME NEW r \in Runs, RefuseRun(r)
      PROVE  IInv'
  BY <1>2 DEF RefuseRun
<1>3. ASSUME NEW r \in Runs, AcceptRun(r)
      PROVE  IInv'
  <2>1. TypeOK'
    BY <1>3 DEF AcceptRun, Lifecycle!StartableFrom
  <2>2. Control'
    BY <1>3, NoCallAssumption DEF AcceptRun, Lifecycle!StartableFrom
  <2>3. Account'
    BY <1>3 DEF AcceptRun, Lifecycle!StartableFrom
  <2> QED
    BY <2>1, <2>2, <2>3
<1>4. ASSUME NEW s \in Stops, AcceptStopIdle(s)
      PROVE  IInv'
  <2>1. crashes' \in 0..Threshold /\ cooling' \in BOOLEAN
    BY <1>4, BreakerBounded DEF AcceptStopIdle
  <2>2. TypeOK'
    BY <1>4, <2>1 DEF AcceptStopIdle
  <2>3. Control'
    BY <1>4, NoCallAssumption DEF AcceptStopIdle
  <2>4. Account'
    BY <1>4 DEF AcceptStopIdle
  <2> QED
    BY <2>2, <2>3, <2>4
<1>5. ASSUME NEW s \in Stops, AcceptStop(s)
      PROVE  IInv'
  BY <1>5, NoCallAssumption DEF AcceptStop
<1>6. ASSUME FinishStop
      PROVE  IInv'
  <2>1. crashes' \in 0..Threshold /\ cooling' \in BOOLEAN
    BY <1>6, BreakerBounded DEF FinishStop
  <2>2. TypeOK'
    BY <1>6, <2>1 DEF FinishStop, AnswerRun, StopAnswerNow, killProcess,
       KillConfirmed, KillGaveUp
  <2>3. Control'
    BY <1>6, NoCallAssumption DEF FinishStop, AnswerRun, StopAnswerNow,
       killProcess, KillConfirmed, KillGaveUp
  <2>4. Account'
    BY <1>6 DEF FinishStop, AnswerRun, StopAnswerNow, killProcess,
       KillConfirmed, KillGaveUp
  <2> QED
    BY <2>2, <2>3, <2>4
<1>7. ASSUME UpstreamExited
      PROVE  IInv'
  <2>1. crashes' \in 0..Threshold /\ cooling' \in BOOLEAN
    BY <1>7, BreakerBounded DEF UpstreamExited
  <2>2. TypeOK'
    BY <1>7, <2>1 DEF UpstreamExited, AnswerRun
  <2>3. Control'
    BY <1>7, NoCallAssumption DEF UpstreamExited, AnswerRun
  <2>4. Account'
    BY <1>7 DEF UpstreamExited, AnswerRun
  <2> QED
    BY <2>2, <2>3, <2>4
<1>8. ASSUME ShutdownIdle
      PROVE  IInv'
  BY <1>8 DEF ShutdownIdle, notifyWaiters
<1>9. ASSUME ShutdownRunning
      PROVE  IInv'
  BY <1>9 DEF ShutdownRunning
<1>10. ASSUME FinishShutdown
      PROVE  IInv'
  <2>1. TypeOK'
    BY <1>10 DEF FinishShutdown, notifyWaiters, AnswerRun, killProcess,
       KillConfirmed, KillGaveUp
  <2>2. Control'
    BY <1>10, NoCallAssumption DEF FinishShutdown, notifyWaiters, AnswerRun,
       killProcess, KillConfirmed, KillGaveUp
  <2>3. Account'
    BY <1>10 DEF FinishShutdown, notifyWaiters, AnswerRun, killProcess,
       KillConfirmed, KillGaveUp
  <2> QED
    BY <2>1, <2>2, <2>3
<1> QED
  BY <1>1, <1>2, <1>3, <1>4, <1>5, <1>6, <1>7, <1>8, <1>9, <1>10

(* run() while a start is in progress. *)
LEMMA StartingStep ==
  ASSUME IInv,
         \/ \E s \in Stops : StopDuringStart(s)
         \/ StartSucceeded
         \/ StartFailed
         \/ AbortedStartFailed
         \/ AbortedStartLive
         \/ FinishAbortedStart
         \/ ShutdownDuringStart
         \/ ShutdownStartResult
  PROVE  IInv'
<1> USE DEF IInv, TypeOK, Control, Account, NoUntrackedProcess, StartPc, LoopPc, StartHolds,
         RunAnswer, StopAnswer, WaitAnswer, Lifecycle!ProcessState,
         loopVars, breakerVars, callVars
<1>1. ASSUME NEW s \in Stops, StopDuringStart(s)
      PROVE  IInv'
  BY <1>1, NoCallAssumption DEF StopDuringStart
<1>2. ASSUME StartSucceeded
      PROVE  IInv'
  BY <1>2, NoCallAssumption DEF StartSucceeded, notifyWaiters
<1>3. ASSUME StartFailed
      PROVE  IInv'
  BY <1>3 DEF StartFailed, notifyWaiters, AnswerRun
<1>4. ASSUME AbortedStartFailed
      PROVE  IInv'
  BY <1>4 DEF AbortedStartFailed, StartAborted, notifyWaiters, AnswerRun
<1>5. ASSUME AbortedStartLive
      PROVE  IInv'
  BY <1>5 DEF AbortedStartLive
<1>6. ASSUME FinishAbortedStart
      PROVE  IInv'
  <2>1. TypeOK'
    BY <1>6 DEF FinishAbortedStart, StartAborted, notifyWaiters, AnswerRun,
       StopAnswerNow, killProcess, KillConfirmed, KillGaveUp
  <2>2. Control'
    BY <1>6, NoCallAssumption DEF FinishAbortedStart, StartAborted,
       notifyWaiters, AnswerRun, StopAnswerNow, killProcess, KillConfirmed,
       KillGaveUp
  <2>3. Account'
    BY <1>6 DEF FinishAbortedStart, StartAborted, notifyWaiters, AnswerRun,
       StopAnswerNow, killProcess, KillConfirmed, KillGaveUp
  <2> QED
    BY <2>1, <2>2, <2>3
<1>7. ASSUME ShutdownDuringStart
      PROVE  IInv'
  BY <1>7 DEF ShutdownDuringStart
<1>8. ASSUME ShutdownStartResult
      PROVE  IInv'
  BY <1>8, NoCallAssumption DEF ShutdownStartResult, notifyWaiters
<1> QED
  BY <1>1, <1>2, <1>3, <1>4, <1>5, <1>6, <1>7, <1>8

(* The doStart goroutine. *)
LEMMA doStartStep ==
  ASSUME IInv,
         \/ CheckBreaker
         \/ LaunchFails
         \/ Launch
         \/ AbortStart
         \/ PrematureExit
         \/ HealthCheckPasses
         \/ WarmupPasses
         \/ WarmupFails
         \/ AbortKill
         \/ StartReturns
  PROVE  IInv'
<1> USE DEF IInv, TypeOK, Control, Account, NoUntrackedProcess, StartPc, LoopPc, StartHolds,
         RunAnswer, StopAnswer, WaitAnswer, Lifecycle!ProcessState,
         loopVars, breakerVars, callVars
<1>1. ASSUME CheckBreaker
      PROVE  IInv'
  BY <1>1 DEF CheckBreaker, doStartUnchanged
<1>2. ASSUME LaunchFails
      PROVE  IInv'
  BY <1>2 DEF LaunchFails, doStartUnchanged
<1>3. ASSUME Launch
      PROVE  IInv'
  BY <1>3 DEF Launch, doStartUnchanged
<1>4. ASSUME AbortStart
      PROVE  IInv'
  BY <1>4 DEF AbortStart, doStartUnchanged
<1>5. ASSUME PrematureExit
      PROVE  IInv'
  BY <1>5 DEF PrematureExit, doStartUnchanged
<1>6. ASSUME HealthCheckPasses
      PROVE  IInv'
  BY <1>6 DEF HealthCheckPasses, doStartUnchanged
<1>7. ASSUME WarmupPasses
      PROVE  IInv'
  BY <1>7 DEF WarmupPasses, doStartUnchanged
<1>8. ASSUME WarmupFails
      PROVE  IInv'
  <2>1. crashes' \in 0..Threshold /\ cooling' \in BOOLEAN
    BY <1>8, BreakerBounded DEF WarmupFails
  <2>2. TypeOK'
    BY <1>8, <2>1 DEF WarmupFails, doStartUnchanged
  <2>3. Control'
    BY <1>8, NoCallAssumption DEF WarmupFails, doStartUnchanged
  <2>4. Account'
    BY <1>8 DEF WarmupFails, doStartUnchanged
  <2> QED
    BY <2>2, <2>3, <2>4
<1>9. ASSUME AbortKill
      PROVE  IInv'
  <2>1. TypeOK'
    BY <1>9 DEF AbortKill, killProcess, KillConfirmed, KillGaveUp,
       doStartUnchanged
  <2>2. Control'
    BY <1>9, NoCallAssumption DEF AbortKill, killProcess, KillConfirmed,
       KillGaveUp, doStartUnchanged
  <2>3. Account'
    BY <1>9 DEF AbortKill, killProcess, KillConfirmed, KillGaveUp,
       doStartUnchanged
  <2> QED
    BY <2>1, <2>2, <2>3
<1>10. ASSUME StartReturns
      PROVE  IInv'
  BY <1>10 DEF StartReturns, doStartUnchanged
<1> QED
  BY <1>1, <1>2, <1>3, <1>4, <1>5, <1>6, <1>7, <1>8, <1>9, <1>10

(* The process, its reaper, the clock and the router. *)
LEMMA EnvironmentStep ==
  ASSUME IInv,
         \/ ProcessExits
         \/ reapLeaked
         \/ TimePasses
         \/ CancelParent
  PROVE  IInv'
<1> USE DEF IInv, TypeOK, Control, Account, NoUntrackedProcess, StartPc, LoopPc, StartHolds,
         RunAnswer, StopAnswer, WaitAnswer, Lifecycle!ProcessState,
         loopVars, breakerVars, callVars
<1>1. ASSUME ProcessExits
      PROVE  IInv'
  BY <1>1 DEF ProcessExits
<1>2. ASSUME reapLeaked
      PROVE  IInv'
  <2>1. TypeOK'
    BY <1>2 DEF reapLeaked
  <2>2. Control'
    BY <1>2, NoCallAssumption DEF reapLeaked
  <2>3. Account'
    BY <1>2 DEF reapLeaked
  <2> QED
    BY <2>1, <2>2, <2>3
<1>3. ASSUME TimePasses
      PROVE  IInv'
  <2>1. crashes' \in 0..Threshold /\ cooling' \in BOOLEAN
    BY <1>3, BreakerBounded
  <2>2. TypeOK'
    BY <1>3, <2>1 DEF TimePasses
  <2>3. Control'
    BY <1>3, NoCallAssumption DEF TimePasses
  <2>4. Account'
    BY <1>3 DEF TimePasses
  <2> QED
    BY <2>2, <2>3, <2>4
<1>4. ASSUME CancelParent
      PROVE  IInv'
  BY <1>4 DEF CancelParent
<1> QED
  BY <1>1, <1>2, <1>3, <1>4

-----------------------------------------------------------------------------
(* The invariant is preserved by every step.                               *)
LEMMA NextIInv == IInv /\ [Next]_vars => IInv'
<1> SUFFICES ASSUME IInv, [Next]_vars PROVE IInv'
  OBVIOUS
<1>1. CASE Calls \/ GiveUpOnShutdown \/ \E w \in Waits : GiveUpWaiting(w)
  BY <1>1, CallersStep DEF Calls
<1>2. CASE run
  BY <1>2, SelectStep, StartingStep DEF run
<1>3. CASE doStart
  BY <1>3, doStartStep DEF doStart
<1>4. CASE reapLeaked \/ ProcessExits \/ TimePasses \/ CancelParent
  BY <1>4, EnvironmentStep
<1>5. CASE UNCHANGED vars
  BY <1>5 DEF vars, IInv, TypeOK, Control, Account, NoUntrackedProcess, StartHolds
<1> QED
  BY <1>1, <1>2, <1>3, <1>4, <1>5 DEF Next

(* The inductive invariant holds throughout.                               *)
THEOREM Invariance == Spec => []IInv
<1> QED
  BY InitIInv, NextIInv, PTL DEF Spec

(* Every variable of the process keeps its type; in particular the crash   *)
(* history never grows past the threshold.                                 *)
THEOREM TypeCorrect == Spec => []TypeOK
<1>1. IInv => TypeOK
  BY DEF IInv
<1> QED
  BY <1>1, Invariance, PTL

(* One model never has two operating-system processes, however its starts, *)
(* stops and unconfirmed kills interleave.                                 *)
THEOREM AtMostOneInstance == Spec => []OneInstance
<1>1. IInv => OneInstance
  BY DEF IInv, Account, OneInstance
<1> QED
  BY <1>1, Invariance, PTL

(* A live process is held by run(), by a start in progress, or is flagged  *)
(* by possiblyLeaked; shutdown kills it or flags it before run() returns.  *)
THEOREM EveryProcessTracked == Spec => []NoUntrackedProcess
<1>1. IInv => NoUntrackedProcess
  BY DEF IInv, Control, Account, NoUntrackedProcess
<1> QED
  BY <1>1, Invariance, PTL

(* No WaitReady or Run caller is left parked beyond the event it waits for. *)
THEOREM NobodyForgotten == Spec => []NobodyParkedPastTheAnswer
<1>1. IInv => NobodyParkedPastTheAnswer
  BY DEF IInv, TypeOK, Control, LoopPc, NobodyParkedPastTheAnswer
<1> QED
  BY <1>1, Invariance, PTL

-----------------------------------------------------------------------------
(* A kill, or the end of a start that owes none, settles the lifecycle.    *)
LEMMA Settles ==
  ASSUME live \in Nat, possiblyLeaked \in BOOLEAN, live' = live,
         \/ killProcess
         \/ UNCHANGED possiblyLeaked /\ (live = 0 \/ possiblyLeaked)
  PROVE  Lifecycle!Settle
<1>1. possiblyLeaked' = possiblyLeaked \/ possiblyLeaked' = TRUE
  BY DEF killProcess, KillConfirmed, KillGaveUp
<1>2. live = 0 => ~(live > 0)
  OBVIOUS
<1>3. live > 0 => possiblyLeaked'
  BY <1>2, Zenon DEF killProcess, KillConfirmed, KillGaveUp
<1> QED
  BY <1>1, <1>3, Zenon DEF Lifecycle!Settle

(* What each step of run() is to ProcessLifecycle.                         *)
LEMMA RunSimulation ==
  ASSUME IInv, run
  PROVE  Lifecycle!LifecycleNext \/ UNCHANGED Lifecycle!lifecycleVars
<1> USE DEF IInv, TypeOK, Control, Account, NoUntrackedProcess, StartHolds, loopVars, callVars
<1>1. ASSUME NEW w \in Waits, AcceptWaitReady(w)
      PROVE  UNCHANGED Lifecycle!lifecycleVars
  BY <1>1 DEF AcceptWaitReady, Lifecycle!lifecycleVars
<1>2. ASSUME NEW r \in Runs, RefuseRun(r)
      PROVE  UNCHANGED Lifecycle!lifecycleVars
  BY <1>2 DEF RefuseRun, Lifecycle!lifecycleVars
<1>3. ASSUME NEW r \in Runs, AcceptRun(r)
      PROVE  Lifecycle!Start
  BY <1>3 DEF AcceptRun, Lifecycle!Start, Lifecycle!StartableFrom
<1>4. ASSUME NEW s \in Stops, AcceptStopIdle(s)
      PROVE  UNCHANGED Lifecycle!lifecycleVars \/ Lifecycle!EndStop
  <2>1. CASE state = "stopped"
    BY <1>4, <2>1 DEF AcceptStopIdle, Lifecycle!lifecycleVars
  <2>2. CASE state = "failed"
    <3>1. Lifecycle!Settle
      BY <1>4, <2>2, Settles DEF AcceptStopIdle, StartHolds
    <3> QED
      BY <1>4, <2>2, <3>1 DEF AcceptStopIdle, Lifecycle!EndStop
  <2> QED
    BY <1>4, <2>1, <2>2 DEF AcceptStopIdle
<1>5. ASSUME NEW s \in Stops, AcceptStop(s)
      PROVE  Lifecycle!BeginStop
  BY <1>5 DEF AcceptStop, Lifecycle!BeginStop
<1>6. ASSUME NEW s \in Stops, StopDuringStart(s)
      PROVE  UNCHANGED Lifecycle!lifecycleVars
  BY <1>6 DEF StopDuringStart, Lifecycle!lifecycleVars
<1>7. ASSUME FinishStop
      PROVE  Lifecycle!EndStop
  <2>1. Lifecycle!Settle
    BY <1>7, Settles DEF FinishStop
  <2> QED
    BY <1>7, <2>1 DEF FinishStop, Lifecycle!EndStop
<1>8. ASSUME UpstreamExited
      PROVE  Lifecycle!Crash
  BY <1>8 DEF UpstreamExited, Lifecycle!Crash
<1>9. ASSUME ShutdownIdle
      PROVE  Lifecycle!Shutdown
  BY <1>9 DEF ShutdownIdle, Lifecycle!Shutdown
<1>10. ASSUME ShutdownRunning
      PROVE  Lifecycle!Shutdown
  BY <1>10 DEF ShutdownRunning, Lifecycle!Shutdown
<1>11. ASSUME FinishShutdown
      PROVE  UNCHANGED Lifecycle!lifecycleVars \/ Lifecycle!GiveUp
  BY <1>11 DEF FinishShutdown, killProcess, KillConfirmed, KillGaveUp,
     Lifecycle!GiveUp, Lifecycle!lifecycleVars
<1>12. ASSUME StartSucceeded
      PROVE  Lifecycle!BecomeReady
  BY <1>12 DEF StartSucceeded, Lifecycle!BecomeReady
<1>13. ASSUME StartFailed
      PROVE  Lifecycle!StartEnds
  <2>1. Lifecycle!Settle
    BY <1>13, Settles DEF StartFailed
  <2> QED
    BY <1>13, <2>1 DEF StartFailed, Lifecycle!StartEnds
<1>14. ASSUME AbortedStartFailed
      PROVE  Lifecycle!StartEnds
  <2>1. Lifecycle!Settle
    BY <1>14, Settles DEF AbortedStartFailed, StartAborted
  <2> QED
    BY <1>14, <2>1 DEF AbortedStartFailed, StartAborted, Lifecycle!StartEnds
<1>15. ASSUME AbortedStartLive
      PROVE  UNCHANGED Lifecycle!lifecycleVars
  BY <1>15 DEF AbortedStartLive, Lifecycle!lifecycleVars
<1>16. ASSUME FinishAbortedStart
      PROVE  Lifecycle!StartEnds
  <2>1. Lifecycle!Settle
    BY <1>16, Settles DEF FinishAbortedStart, StartAborted
  <2> QED
    BY <1>16, <2>1 DEF FinishAbortedStart, StartAborted, Lifecycle!StartEnds
<1>17. ASSUME ShutdownDuringStart
      PROVE  Lifecycle!Shutdown
  BY <1>17 DEF ShutdownDuringStart, Lifecycle!Shutdown
<1>18. ASSUME ShutdownStartResult
      PROVE  UNCHANGED Lifecycle!lifecycleVars
  BY <1>18 DEF ShutdownStartResult, Lifecycle!lifecycleVars
<1> QED
  BY <1>1, <1>2, <1>3, <1>4, <1>5, <1>6, <1>7, <1>8, <1>9, <1>10, <1>11,
     <1>12, <1>13, <1>14, <1>15, <1>16, <1>17, <1>18 DEF run,
     Lifecycle!LifecycleNext

(* What each step of doStart is to ProcessLifecycle.                       *)
LEMMA doStartSimulation ==
  ASSUME IInv, doStart
  PROVE  Lifecycle!LifecycleNext \/ UNCHANGED Lifecycle!lifecycleVars
<1> USE DEF IInv, TypeOK, Control, Account, NoUntrackedProcess, LoopPc, StartHolds,
         Lifecycle!ProcessState
<1>1. ASSUME Launch
      PROVE  Lifecycle!Spawn
  BY <1>1 DEF Launch, doStartUnchanged, Lifecycle!Spawn
<1>2. ASSUME AbortKill
      PROVE  UNCHANGED Lifecycle!lifecycleVars \/ Lifecycle!GiveUp
  BY <1>2 DEF AbortKill, killProcess, KillConfirmed, KillGaveUp,
     doStartUnchanged, Lifecycle!GiveUp, Lifecycle!lifecycleVars
<1>3. ASSUME CheckBreaker \/ LaunchFails \/ AbortStart \/ PrematureExit \/ StartReturns
      PROVE  UNCHANGED Lifecycle!lifecycleVars
  BY <1>3 DEF CheckBreaker, LaunchFails, AbortStart, PrematureExit,
     StartReturns, doStartUnchanged, Lifecycle!lifecycleVars
<1>4. ASSUME HealthCheckPasses \/ WarmupPasses \/ WarmupFails
      PROVE  UNCHANGED Lifecycle!lifecycleVars
  BY <1>4 DEF HealthCheckPasses, WarmupPasses, WarmupFails, doStartUnchanged,
     Lifecycle!lifecycleVars
<1> QED
  BY <1>1, <1>2, <1>3, <1>4 DEF doStart, Lifecycle!LifecycleNext

(* Every step of ProcessCommand is a step of ProcessLifecycle, or changes  *)
(* nothing that one shows.                                                 *)
LEMMA StepSimulation ==
  ASSUME IInv, [Next]_vars
  PROVE  [Lifecycle!LifecycleNext]_(Lifecycle!lifecycleVars)
<1>1. ASSUME ProcessExits
      PROVE  Lifecycle!Exit
  BY <1>1 DEF ProcessExits, Lifecycle!Exit
<1>2. ASSUME reapLeaked
      PROVE  Lifecycle!Reclaimed
  BY <1>2 DEF reapLeaked, Lifecycle!Reclaimed
<1>3. ASSUME Calls \/ GiveUpOnShutdown \/ \E w \in Waits : GiveUpWaiting(w)
      PROVE  UNCHANGED Lifecycle!lifecycleVars
  BY <1>3 DEF Calls, CallRun, CallStop, CallWaitReady, GiveUpOnShutdown, GiveUpWaiting,
     Lifecycle!lifecycleVars
<1>4. ASSUME TimePasses \/ CancelParent \/ UNCHANGED vars
      PROVE  UNCHANGED Lifecycle!lifecycleVars
  BY <1>4 DEF TimePasses, CancelParent, vars, Lifecycle!lifecycleVars
<1> QED
  BY <1>1, <1>2, <1>3, <1>4, RunSimulation, doStartSimulation
     DEF Next, Lifecycle!LifecycleNext

(* ProcessCommand implements ProcessLifecycle: the published states move   *)
(* only as promised, a start is accepted only while nothing is flagged,    *)
(* and a lifecycle that settles over a live process flags it.              *)
THEOREM Implementation == Spec => ImplementsLifecycle
<1>1. Init => Lifecycle!LifecycleInit
  BY DEF Init, Lifecycle!LifecycleInit
<1>2. IInv /\ [Next]_vars => [Lifecycle!LifecycleNext]_(Lifecycle!lifecycleVars)
  BY StepSimulation
<1> QED
  BY <1>1, <1>2, Invariance, PTL DEF Spec, ImplementsLifecycle, Lifecycle!LifecycleSpec


-----------------------------------------------------------------------------
(* A step that answers a parked Run caller leaves no process unaccounted.  *)
LEMMA AnsweredRun ==
  ASSUME IInv, [Next]_vars,
         NEW x \in Runs, runPc[x] = "parked", runPc'[x] # "parked"
  PROVE  live' = 0 \/ possiblyLeaked' \/ parentDone
<1>1. CASE run
  <2> USE DEF IInv, TypeOK, Control, Account, NoUntrackedProcess, StartHolds, RunAnswer, loopVars,
           callVars, AnswerRun, killProcess, KillConfirmed, KillGaveUp
  <2>1. CASE \/ \E w \in Waits : AcceptWaitReady(w)
             \/ \E s \in Stops : AcceptStopIdle(s) \/ AcceptStop(s) \/ StopDuringStart(s)
             \/ ShutdownIdle \/ ShutdownRunning \/ StartSucceeded
             \/ AbortedStartLive \/ ShutdownDuringStart \/ ShutdownStartResult
    BY <2>1 DEF AcceptWaitReady, AcceptStopIdle, AcceptStop, StopDuringStart,
         ShutdownIdle, ShutdownRunning, StartSucceeded, AbortedStartLive,
         ShutdownDuringStart, ShutdownStartResult
  <2>2. CASE \E r \in Runs : RefuseRun(r) \/ AcceptRun(r)
    BY <2>2 DEF RefuseRun, AcceptRun
  <2>3. CASE FinishStop \/ FinishShutdown \/ FinishAbortedStart
    BY <2>3 DEF FinishStop, FinishShutdown, FinishAbortedStart, StartAborted
  <2>4. CASE UpstreamExited
    BY <2>4 DEF UpstreamExited
  <2>5. CASE StartFailed \/ AbortedStartFailed
    BY <2>5 DEF StartFailed, AbortedStartFailed, StartAborted
  <2> QED
    BY <1>1, <2>1, <2>2, <2>3, <2>4, <2>5 DEF run
<1>2. CASE Calls
  BY <1>2 DEF IInv, TypeOK, Calls, CallRun, CallStop, CallWaitReady
<1>3. CASE GiveUpOnShutdown \/ \E w \in Waits : GiveUpWaiting(w)
  BY <1>3 DEF GiveUpOnShutdown, GiveUpWaiting
<1>4. CASE \/ doStart \/ reapLeaked \/ ProcessExits
           \/ TimePasses \/ CancelParent \/ UNCHANGED vars
  BY <1>4 DEF doStart, CheckBreaker, LaunchFails, Launch, AbortStart,
     PrematureExit, HealthCheckPasses, WarmupPasses, WarmupFails, AbortKill,
     StartReturns, doStartUnchanged, reapLeaked, ProcessExits, TimePasses,
     CancelParent, callVars, vars
<1> QED
  BY <1>1, <1>2, <1>3, <1>4 DEF Next

(* Run blocks its caller until the process is gone, flagged as possibly    *)
(* alive, or everything is shutting down.                                  *)
THEOREM RunBlocks == Spec => RunBlocksUntilTerminated
<1>1. IInv /\ [Next]_vars
        => [\A r \in Runs : runPc[r] = "parked" /\ runPc'[r] # "parked"
              => live' = 0 \/ possiblyLeaked' \/ parentDone]_vars
  BY AnsweredRun
<1> QED
  BY <1>1, Invariance, PTL DEF Spec, RunBlocksUntilTerminated

-----------------------------------------------------------------------------
(* Whoever is parked.                                                      *)

(* Callers park only by being accepted, and leave by being answered.       *)
LEMMA HeldStep ==
  ASSUME IInv, EveryParkedCallerIsHeld, [Next]_vars
  PROVE  EveryParkedCallerIsHeld'
<1> USE NoCallAssumption DEF IInv, TypeOK, Control, LoopPc, EveryParkedCallerIsHeld,
         RunAnswer, StopAnswer, WaitAnswer, loopVars, callVars
<1>1. CASE Calls
  BY <1>1 DEF Calls, CallRun, CallStop, CallWaitReady
<1>2. CASE GiveUpOnShutdown \/ \E w \in Waits : GiveUpWaiting(w)
  BY <1>2 DEF GiveUpOnShutdown, GiveUpWaiting
<1>3. CASE \E w \in Waits : AcceptWaitReady(w)
  BY <1>3 DEF AcceptWaitReady
<1>4. CASE \E r \in Runs : RefuseRun(r) \/ AcceptRun(r)
  BY <1>4 DEF RefuseRun, AcceptRun
<1>5. CASE \E s \in Stops : AcceptStopIdle(s) \/ AcceptStop(s) \/ StopDuringStart(s)
  BY <1>5 DEF AcceptStopIdle, AcceptStop, StopDuringStart
<1>6. CASE FinishStop
  BY <1>6 DEF FinishStop, AnswerRun, StopAnswerNow
<1>7. CASE UpstreamExited
  BY <1>7 DEF UpstreamExited, AnswerRun
<1>8. CASE ShutdownIdle \/ ShutdownRunning
  BY <1>8 DEF ShutdownIdle, ShutdownRunning, notifyWaiters
<1>9. CASE FinishShutdown
  BY <1>9 DEF FinishShutdown, notifyWaiters, AnswerRun
<1>10. CASE StartSucceeded
  BY <1>10 DEF StartSucceeded, notifyWaiters
<1>11. CASE StartFailed
  BY <1>11 DEF StartFailed, notifyWaiters, AnswerRun
<1>12. CASE AbortedStartFailed \/ FinishAbortedStart
  BY <1>12 DEF AbortedStartFailed, FinishAbortedStart, StartAborted,
     notifyWaiters, AnswerRun, StopAnswerNow
<1>13. CASE AbortedStartLive
  BY <1>13 DEF AbortedStartLive
<1>14. CASE ShutdownDuringStart \/ ShutdownStartResult
  BY <1>14 DEF ShutdownDuringStart, ShutdownStartResult, notifyWaiters
<1>15. CASE doStart
  BY <1>15 DEF doStart, CheckBreaker, LaunchFails, Launch, AbortStart,
     PrematureExit, HealthCheckPasses, WarmupPasses, WarmupFails, AbortKill,
     StartReturns, doStartUnchanged
<1>16. CASE reapLeaked \/ ProcessExits \/ TimePasses \/ CancelParent \/ UNCHANGED vars
  BY <1>16 DEF reapLeaked, ProcessExits, TimePasses, CancelParent, vars
<1> QED
  BY <1>1, <1>2, <1>3, <1>4, <1>5, <1>6, <1>7, <1>8, <1>9, <1>10, <1>11,
     <1>12, <1>13, <1>14, <1>15, <1>16 DEF Next, run

(* Every caller that is parked is known to run(), which will answer it.    *)
THEOREM ParkedCallersAreHeld == Spec => []EveryParkedCallerIsHeld
<1>1. Init => EveryParkedCallerIsHeld
  BY NoCallAssumption DEF Init, EveryParkedCallerIsHeld
<1> QED
  BY <1>1, HeldStep, Invariance, PTL DEF Spec

-----------------------------------------------------------------------------
(* What a router sees.                                                     *)

ServiceStep == [Service!ServiceNext]_(Service!serviceVars)

(* What callers do on their side.                                          *)
LEMMA CallersServe ==
  ASSUME IInv, EveryParkedCallerIsHeld,
         Calls \/ GiveUpOnShutdown \/ \E w \in Waits : GiveUpWaiting(w)
  PROVE  Service!Call \/ Service!Leave
<1> USE DEF IInv, TypeOK, loopVars, breakerVars, callVars
<1>1. CASE Calls
  <2>1. Service!Call
    BY <1>1 DEF Calls, CallRun, CallStop, CallWaitReady, Service!Call, MayBeAlive
  <2> QED
    BY <2>1
<1>2. CASE GiveUpOnShutdown
  <2>1. Service!Leave
    BY <1>2, NoCallAssumption DEF GiveUpOnShutdown, Service!Leave, MayBeAlive,
       EveryParkedCallerIsHeld
  <2> QED
    BY <2>1
<1>3. CASE \E w \in Waits : GiveUpWaiting(w)
  <2>1. Service!Leave
    BY <1>3 DEF GiveUpWaiting, Service!Leave, MayBeAlive
  <2> QED
    BY <2>1
<1> QED
  BY <1>1, <1>2, <1>3

(* The outer select of run().                                              *)
LEMMA SelectServes ==
  ASSUME IInv, EveryParkedCallerIsHeld,
         \/ \E w \in Waits : AcceptWaitReady(w)
         \/ \E r \in Runs : RefuseRun(r) \/ AcceptRun(r)
         \/ \E s \in Stops : AcceptStopIdle(s) \/ AcceptStop(s)
         \/ FinishStop \/ UpstreamExited
  PROVE  Service!ServiceNext
<1> USE DEF IInv, TypeOK, Control, Account, LoopPc, loopVars, breakerVars, callVars,
         MayBeAlive
<1>1. ASSUME NEW w \in Waits, AcceptWaitReady(w)
      PROVE  Service!AnswerWait \/ Service!ParkWait
  <2>1. CASE state = "stopped"
    BY <1>1, <2>1 DEF AcceptWaitReady, Service!ParkWait, Service!waitVars
  <2>2. CASE state # "stopped"
    BY <1>1, <2>2 DEF AcceptWaitReady, Service!AnswerWait
  <2> QED
    BY <2>1, <2>2
<1>2. ASSUME NEW r \in Runs, RefuseRun(r)
      PROVE  Service!RefuseRun
  BY <1>2 DEF RefuseRun, Service!RefuseRun, Service!waitVars, Lifecycle!StartableFrom
<1>3. ASSUME NEW r \in Runs, AcceptRun(r)
      PROVE  Service!BeginStart
  BY <1>3 DEF AcceptRun, Service!BeginStart, Service!waitVars, Lifecycle!StartableFrom
<1>4. ASSUME NEW s \in Stops, AcceptStopIdle(s)
      PROVE  Service!StopIdle
  BY <1>4 DEF AcceptStopIdle, Service!StopIdle, Service!waitVars
<1>5. ASSUME NEW s \in Stops, AcceptStop(s)
      PROVE  Service!BeginStop
  BY <1>5 DEF AcceptStop, Service!BeginStop, Service!waitVars
<1>6. ASSUME FinishStop
      PROVE  Service!EndStop
  BY <1>6, NoCallAssumption DEF FinishStop, AnswerRun, StopAnswerNow, killProcess,
     KillConfirmed, KillGaveUp, EveryParkedCallerIsHeld, RunAnswer,
     Service!EndStop, Service!Killed, Service!waitVars
<1>7. ASSUME UpstreamExited
      PROVE  Service!Crash
  BY <1>7 DEF UpstreamExited, AnswerRun, RunAnswer, Service!Crash, Service!callerVars
<1> QED
  BY <1>1, <1>2, <1>3, <1>4, <1>5, <1>6, <1>7 DEF Service!ServiceNext

(* A start, from the time Run was accepted.                                *)
LEMMA StartServes ==
  ASSUME IInv, EveryParkedCallerIsHeld,
         \/ \E s \in Stops : StopDuringStart(s)
         \/ StartSucceeded \/ StartFailed
         \/ AbortedStartFailed \/ AbortedStartLive \/ FinishAbortedStart
  PROVE  ServiceStep
<1> USE DEF IInv, TypeOK, Control, Account, LoopPc, loopVars, breakerVars, callVars,
         MayBeAlive
<1>1. ASSUME NEW s \in Stops, StopDuringStart(s)
      PROVE  UNCHANGED Service!serviceVars
  BY <1>1 DEF StopDuringStart, Service!serviceVars
<1>2. ASSUME StartSucceeded
      PROVE  Service!BecomeReady
  BY <1>2 DEF StartSucceeded, notifyWaiters, EveryParkedCallerIsHeld, Service!BecomeReady
<1>3. ASSUME StartFailed
      PROVE  Service!FailStart
  BY <1>3 DEF StartFailed, notifyWaiters, AnswerRun, RunAnswer,
     EveryParkedCallerIsHeld, Service!FailStart, Service!Killed
<1>4. ASSUME AbortedStartFailed
      PROVE  Service!AbortStart
  BY <1>4 DEF AbortedStartFailed, StartAborted, notifyWaiters, AnswerRun, RunAnswer,
     EveryParkedCallerIsHeld, Service!AbortStart, Service!Killed
<1>5. ASSUME AbortedStartLive
      PROVE  UNCHANGED Service!serviceVars
  BY <1>5 DEF AbortedStartLive, Service!serviceVars
<1>6. ASSUME FinishAbortedStart
      PROVE  Service!AbortStart
  BY <1>6 DEF FinishAbortedStart, StartAborted, notifyWaiters, AnswerRun, RunAnswer,
     StopAnswerNow, killProcess, KillConfirmed, KillGaveUp,
     EveryParkedCallerIsHeld, Service!AbortStart, Service!Killed
<1> QED
  BY <1>1, <1>2, <1>3, <1>4, <1>5, <1>6 DEF ServiceStep, Service!ServiceNext

(* The end of procCtx.                                                     *)
LEMMA ShutdownServes ==
  ASSUME IInv, EveryParkedCallerIsHeld,
         \/ ShutdownIdle \/ ShutdownRunning \/ FinishShutdown
         \/ ShutdownDuringStart \/ ShutdownStartResult
  PROVE  Service!ShutDown
<1> USE DEF IInv, TypeOK, Control, Account, LoopPc, loopVars, breakerVars, callVars,
         MayBeAlive, EveryParkedCallerIsHeld, Service!ShutDown, Service!Killed
<1>1. CASE ShutdownIdle
  BY <1>1 DEF ShutdownIdle, notifyWaiters
<1>2. CASE ShutdownRunning
  BY <1>2 DEF ShutdownRunning
<1>3. CASE FinishShutdown
  BY <1>3 DEF FinishShutdown, notifyWaiters, AnswerRun, RunAnswer, killProcess,
     KillConfirmed, KillGaveUp
<1>4. CASE ShutdownDuringStart
  BY <1>4 DEF ShutdownDuringStart
<1>5. CASE ShutdownStartResult
  BY <1>5 DEF ShutdownStartResult, notifyWaiters
<1> QED
  BY <1>1, <1>2, <1>3, <1>4, <1>5

(* The doStart goroutine shows only that an abort at shutdown was          *)
(* confirmed, or not.                                                      *)
LEMMA doStartServes ==
  ASSUME IInv, doStart
  PROVE  ServiceStep
<1> USE DEF IInv, TypeOK, Control, Account, LoopPc, StartPc, StartHolds, doStart,
         CheckBreaker, LaunchFails, Launch, AbortStart, PrematureExit,
         HealthCheckPasses, WarmupPasses, WarmupFails, AbortKill, StartReturns,
         doStartUnchanged, loopVars, callVars
<1>1. CASE loop \in {"starting", "abortStart", "killStart"}
  <2>1. UNCHANGED Service!serviceVars
    BY <1>1 DEF killProcess, KillConfirmed, KillGaveUp, MayBeAlive, Service!serviceVars
  <2> QED
    BY <2>1 DEF ServiceStep
<1>2. CASE loop = "shutdownStart"
  <2>1. Service!ShutDown
    BY <1>2 DEF killProcess, KillConfirmed, KillGaveUp, MayBeAlive,
       Service!ShutDown, Service!Killed
  <2> QED
    BY <2>1 DEF ServiceStep, Service!ServiceNext
<1> QED
  BY <1>1, <1>2

(* The rest of the world.                                                  *)
LEMMA EnvironmentServes ==
  ASSUME IInv, reapLeaked \/ ProcessExits \/ TimePasses \/ CancelParent \/ UNCHANGED vars
  PROVE  ServiceStep
<1> USE DEF IInv, TypeOK, Control, Account, LoopPc, loopVars, breakerVars, callVars,
         MayBeAlive
<1>1. CASE reapLeaked
  <2>1. CASE state = "starting"
    <3>1. UNCHANGED Service!serviceVars
      BY <1>1, <2>1 DEF reapLeaked, Service!serviceVars
    <3> QED
      BY <3>1 DEF ServiceStep
  <2>2. CASE state # "starting"
    <3>1. Service!Reclaim
      BY <1>1, <2>2 DEF reapLeaked, Service!Reclaim, Service!callerVars
    <3> QED
      BY <3>1 DEF ServiceStep, Service!ServiceNext
  <2> QED
    BY <2>1, <2>2
<1>2. CASE ProcessExits \/ TimePasses \/ UNCHANGED vars
  <2>1. UNCHANGED Service!serviceVars
    BY <1>2 DEF ProcessExits, TimePasses, vars, Service!serviceVars
  <2> QED
    BY <2>1 DEF ServiceStep
<1>3. CASE CancelParent
  <2>1. Service!Cancel
    BY <1>3 DEF CancelParent, Service!Cancel, Service!callerVars
  <2> QED
    BY <2>1 DEF ServiceStep, Service!ServiceNext
<1> QED
  BY <1>1, <1>2, <1>3

(* Seen by its callers, the process behaves as ProcessService says: every  *)
(* start, stop, kill, answer and shutdown is one of the interface's steps, *)
(* or is not seen.                                                         *)
THEOREM ServiceImplementation == Spec => ImplementsService
<1>1. Init => Service!ServiceInit
  BY DEF Init, Service!ServiceInit, MayBeAlive
<1>2. IInv /\ EveryParkedCallerIsHeld /\ [Next]_vars => ServiceStep
  BY CallersServe, SelectServes, StartServes, ShutdownServes, doStartServes,
     EnvironmentServes DEF Next, run, ServiceStep, Service!ServiceNext
<1>3. IInv /\ EveryParkedCallerIsHeld /\ [Next]_vars
        => [Service!ServiceNext]_(Service!serviceVars)
  BY <1>2 DEF ServiceStep
<1> QED
  BY <1>1, <1>3, Invariance, ParkedCallersAreHeld, PTL
     DEF Spec, ImplementsService, Service!ServiceSpec

=============================================================================
