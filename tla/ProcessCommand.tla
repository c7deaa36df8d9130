--------------------------- MODULE ProcessCommand ---------------------------
(***************************************************************************)
(* The lifecycle of one upstream process (internal/process/                *)
(* process_command.go): the single-writer goroutine run(), the doStart     *)
(* goroutine it spawns and can cancel, killProcess with its bounded wait,  *)
(* the reapLeaked goroutine, the crash-loop breaker, and the callers of    *)
(* Run, Stop and WaitReady blocked on their unbuffered channels.           *)
(*                                                                         *)
(* A caller is used once: Runs, Stops and Waits are the calls that may be  *)
(* made, by the router, by the TTL and inference-probe goroutines, by wedge *)
(* recovery or by an operator; each may come at any time, in any order.    *)
(*                                                                         *)
(* Abstractions: what the upstream prints, its HTTP answers and the wall   *)
(* clock. A deadline that may expire is an action that may be taken; the   *)
(* crash history is the number of unexpected exits inside crashLoopWindow  *)
(* (saturating at crashLoopThreshold) and whether the last one is more     *)
(* recent than crashLoopCooldown.                                          *)
(***************************************************************************)
EXTENDS Naturals, FiniteSets

CONSTANTS
    Runs, Stops, Waits,   \* calls of Run, Stop and WaitReady
    NoCall,               \* no caller is parked
    Threshold,            \* crashLoopThreshold
    NeedsWarmup           \* the backend is not llama.cpp: warm-up gates readiness

ASSUME NoCallAssumption == NoCall \notin Runs \cup Stops \cup Waits
ASSUME ThresholdAssumption == Threshold \in Nat \ {0}
ASSUME NeedsWarmupAssumption == NeedsWarmup \in BOOLEAN

VARIABLES
    state,          \* the published ProcessState
    loop,           \* what the run goroutine is doing
    cmd,            \* run() holds a *exec.Cmd (with cmdDone and cmdCancel)
    handler,        \* p.handler is not nil
    readyWaiters,   \* WaitReady callers parked in run()
    runResp,        \* the Run caller parked until the process terminates
    curRun,         \* the Run request whose start is in progress
    curStop,        \* the Stop request being carried out
    start,          \* where the doStart goroutine is
    cancelled,      \* startCtx is cancelled
    live,           \* number of live operating-system processes
    possiblyLeaked,
    crashes,        \* unexpected exits inside crashLoopWindow
    cooling,        \* the last of them is more recent than crashLoopCooldown
    parentDone,     \* parentCtx is cancelled
    runPc, stopPc, waitPc   \* the callers: idle, sent (blocked on the channel),
                            \* parked (accepted), or the answer they got

callVars == <<runPc, stopPc, waitPc>>
loopVars == <<cmd, handler, readyWaiters, runResp, curRun, curStop>>
breakerVars == <<crashes, cooling>>
vars == <<state, loop, cmd, handler, readyWaiters, runResp, curRun, curStop,
          start, cancelled, live, possiblyLeaked, crashes, cooling, parentDone,
          runPc, stopPc, waitPc>>

(* A ProcessCommand's published states and process account, as promised. *)
Lifecycle == INSTANCE ProcessLifecycle WITH flagged <- possiblyLeaked

(* An operating-system process of this model may exist: somebody holds it, *)
(* or will if its start goes on, or gave up on killing it.                 *)
MayBeAlive ==
    \/ state = "starting" \/ cmd \/ possiblyLeaked
    \/ loop = "shutdownKill" \/ (loop = "shutdownStart" /\ start # "failed")

(* What a router sees of it. A flag raised by the abort inside doStart is  *)
(* news only when the start is over.                                       *)
Service == INSTANCE ProcessService WITH
    NoOne <- NoCall,
    holding <- MayBeAlive,
    leaked <- possiblyLeaked /\ state # "starting",
    runs <- {r \in Runs : runPc[r] = "sent"},
    sent <- {w \in Waits : waitPc[w] = "sent"},
    parked <- {w \in Waits : waitPc[w] = "parked"},
    told <- {w \in Waits : waitPc[w] = "ready"},
    stops <- {s \in Stops : stopPc[s] \in {"sent", "parked"}},
    stopper <- IF loop = "stopping" THEN curStop ELSE NoCall,
    cancelled <- parentDone

(* Where doStart can be; "live" and "failed" are the two shapes of the     *)
(* startResult waiting in resultCh.                                        *)
StartPc == {"none", "breaker", "exec", "health", "warmup", "returning",
            "aborting", "live", "failed"}
(* "select" is the outer select; "starting" the inner one; the others are  *)
(* the waits for doStart's result and the calls of killProcess.            *)
LoopPc == {"select", "starting", "abortStart", "killStart", "stopping",
           "shutdownStart", "shutdownKill", "returned"}
RunAnswer == {"refused", "reclaiming", "failed", "aborted", "stopped", "crashed", "shutdown"}
WaitAnswer == {"ready", "failed", "aborted", "shutdown", "cancelled"}
StopAnswer == {"ok", "mayBeAlive", "shutdown"}

(* doStart has started the operating-system process and not yet handed it over. *)
StartHolds == start \in {"health", "warmup", "returning", "aborting", "live"}

Init ==
    /\ state = "stopped" /\ loop = "select"
    /\ cmd = FALSE /\ handler = FALSE
    /\ readyWaiters = {} /\ runResp = NoCall
    /\ curRun = NoCall /\ curStop = NoCall
    /\ start = "none" /\ cancelled = FALSE
    /\ live = 0 /\ possiblyLeaked = FALSE
    /\ crashes = 0 /\ cooling = FALSE
    /\ parentDone = FALSE
    /\ runPc = [r \in Runs |-> "idle"]
    /\ stopPc = [s \in Stops |-> "idle"]
    /\ waitPc = [w \in Waits |-> "idle"]

-----------------------------------------------------------------------------
(* The callers. *)

CallRun(r) ==
    /\ runPc[r] = "idle"
    /\ runPc' = [runPc EXCEPT ![r] = "sent"]
    /\ UNCHANGED <<state, loop, loopVars, start, cancelled, live,
                   possiblyLeaked, breakerVars, parentDone, stopPc, waitPc>>

CallStop(s) ==
    /\ stopPc[s] = "idle"
    /\ stopPc' = [stopPc EXCEPT ![s] = "sent"]
    /\ UNCHANGED <<state, loop, loopVars, start, cancelled, live,
                   possiblyLeaked, breakerVars, parentDone, runPc, waitPc>>

CallWaitReady(w) ==
    /\ waitPc[w] = "idle"
    /\ waitPc' = [waitPc EXCEPT ![w] = "sent"]
    /\ UNCHANGED <<state, loop, loopVars, start, cancelled, live,
                   possiblyLeaked, breakerVars, parentDone, runPc, stopPc>>

(* A caller that finds parentCtx done gives up: Run at either of its two   *)
(* selects, Stop and WaitReady only while their request is not accepted.   *)
GiveUpOnShutdown ==
    /\ parentDone
    /\ \/ \E r \in Runs :
            /\ runPc[r] \in {"sent", "parked"}
            /\ runPc' = [runPc EXCEPT ![r] = "shutdown"]
            /\ UNCHANGED <<stopPc, waitPc>>
       \/ \E s \in Stops :
            /\ stopPc[s] = "sent"
            /\ stopPc' = [stopPc EXCEPT ![s] = "shutdown"]
            /\ UNCHANGED <<runPc, waitPc>>
       \/ \E w \in Waits :
            /\ waitPc[w] = "sent"
            /\ waitPc' = [waitPc EXCEPT ![w] = "shutdown"]
            /\ UNCHANGED <<runPc, stopPc>>
    /\ UNCHANGED <<state, loop, loopVars, start, cancelled, live,
                   possiblyLeaked, breakerVars, parentDone>>

(* A WaitReady caller's own context ends; run() is not told.               *)
GiveUpWaiting(w) ==
    /\ waitPc[w] \in {"sent", "parked"}
    /\ waitPc' = [waitPc EXCEPT ![w] = "cancelled"]
    /\ UNCHANGED <<state, loop, loopVars, start, cancelled, live,
                   possiblyLeaked, breakerVars, parentDone, runPc, stopPc>>

(* Mutant: the answer is computed and never sent. *)
AnswerRun_NotSent(r, answer) == UNCHANGED runPc

(* The answers run() delivers. A caller that already gave up on a context  *)
(* keeps the answer it took.                                               *)
AnswerRun(r, answer) ==
    runPc' = IF r \in Runs /\ runPc[r] = "parked"
             THEN [runPc EXCEPT ![r] = answer] ELSE runPc

notifyWaiters(answer) ==
    /\ waitPc' = [w \in Waits |-> IF w \in readyWaiters /\ waitPc[w] = "parked"
                                 THEN answer ELSE waitPc[w]]
    /\ readyWaiters' = {}

-----------------------------------------------------------------------------
(* The operating-system process and its reaper. *)

(* The upstream process exits: on its own, or because it was signalled.    *)
ProcessExits ==
    /\ live > 0
    /\ live' = live - 1
    /\ UNCHANGED <<state, loop, loopVars, start, cancelled, possiblyLeaked,
                   breakerVars, parentDone, callVars>>

(* killProcess returned true: cmdDone confirmed the exit. *)
KillConfirmed == live = 0 /\ UNCHANGED possiblyLeaked

(* Mutant: give up without raising the flag. *)
KillGaveUp_Silent == live > 0 /\ UNCHANGED possiblyLeaked

(* killProcess returned false: postKillGrace elapsed first. *)
KillGaveUp == live > 0 /\ possiblyLeaked' = TRUE

(* Mutant: wait for the exit without a bound. *)
killProcess_Unbounded == KillConfirmed

killProcess == KillConfirmed \/ KillGaveUp

(* reapLeaked: lower the flag once the leaked process has exited. It gives *)
(* up when parentCtx ends, unless its select sees the exit first.          *)
reapLeaked ==
    /\ possiblyLeaked /\ live = 0
    /\ possiblyLeaked' = FALSE
    /\ UNCHANGED <<state, loop, loopVars, start, cancelled, live,
                   breakerVars, parentDone, callVars>>

-----------------------------------------------------------------------------
(* The crash-loop breaker. *)

(* crashLoopError: Threshold exits in the window, the last one recent. *)
crashLoopError == crashes = Threshold /\ cooling

recordUnexpectedExit ==
    /\ crashes' = IF crashes < Threshold THEN crashes + 1 ELSE Threshold
    /\ cooling' = TRUE

clearCrashHistory == crashes' = 0 /\ cooling' = FALSE

(* Time passes: crashLoopCooldown runs out, or exits leave crashLoopWindow *)
(* (the last one not before its own cooldown is over).                     *)
TimePasses ==
    /\ \/ cooling /\ cooling' = FALSE /\ UNCHANGED crashes
       \/ /\ crashes > (IF cooling THEN 1 ELSE 0)
          /\ crashes' = crashes - 1
          /\ UNCHANGED cooling
    /\ UNCHANGED <<state, loop, loopVars, start, cancelled, live,
                   possiblyLeaked, parentDone, callVars>>

-----------------------------------------------------------------------------
(* The doStart goroutine. *)

doStartUnchanged == UNCHANGED <<state, loop, loopVars, cancelled, parentDone, callVars>>

(* An open breaker refuses the start; otherwise go on to the launch. *)
CheckBreaker ==
    /\ start = "breaker"
    /\ start' = IF crashLoopError THEN "failed" ELSE "exec"
    /\ UNCHANGED <<live, possiblyLeaked, breakerVars>> /\ doStartUnchanged

(* A bad command line or proxy URL, or cmd.Start itself, fails. *)
LaunchFails ==
    /\ start = "exec"
    /\ start' = "failed"
    /\ UNCHANGED <<live, possiblyLeaked, breakerVars>> /\ doStartUnchanged

Launch ==
    /\ start = "exec"
    /\ live' = live + 1
    /\ start' = "health"
    /\ UNCHANGED <<possiblyLeaked, breakerVars>> /\ doStartUnchanged

(* startCtx is seen cancelled, or the health-check deadline has passed. *)
AbortStart ==
    /\ \/ start \in {"health", "warmup"} /\ cancelled
       \/ start = "health"
    /\ start' = "aborting"
    /\ UNCHANGED <<live, possiblyLeaked, breakerVars>> /\ doStartUnchanged

PrematureExit ==
    /\ start = "health" /\ live = 0
    /\ start' = "failed"
    /\ UNCHANGED <<live, possiblyLeaked, breakerVars>> /\ doStartUnchanged

(* The health check answers 200; a backend that needs it is then warmed up. *)
(* checkEndpoint "none" skips both.                                        *)
HealthCheckPasses ==
    /\ start = "health" /\ ~cancelled
    /\ start' \in {"returning"} \cup (IF NeedsWarmup THEN {"warmup"} ELSE {})
    /\ UNCHANGED <<live, possiblyLeaked, breakerVars>> /\ doStartUnchanged

WarmupPasses ==
    /\ start = "warmup" /\ ~cancelled
    /\ start' = "returning"
    /\ UNCHANGED <<live, possiblyLeaked, breakerVars>> /\ doStartUnchanged

(* Up but not serving: counts as a crash, and the start is aborted. *)
WarmupFails ==
    /\ start = "warmup" /\ ~cancelled
    /\ recordUnexpectedExit
    /\ start' = "aborting"
    /\ UNCHANGED <<live, possiblyLeaked>> /\ doStartUnchanged

(* abort() discards killProcess's answer: the start just fails. *)
AbortKill ==
    /\ start = "aborting"
    /\ killProcess
    /\ start' = "failed"
    /\ UNCHANGED <<live, breakerVars>> /\ doStartUnchanged

(* The result is in resultCh. *)
StartReturns ==
    /\ start = "returning"
    /\ start' = "live"
    /\ UNCHANGED <<live, possiblyLeaked, breakerVars>> /\ doStartUnchanged

doStart ==
    \/ CheckBreaker \/ LaunchFails \/ Launch \/ AbortStart \/ PrematureExit
    \/ HealthCheckPasses \/ WarmupPasses \/ WarmupFails \/ AbortKill \/ StartReturns

-----------------------------------------------------------------------------
(* run(): the cases of the outer select. *)

AcceptWaitReady(w) ==
    /\ loop = "select" /\ waitPc[w] = "sent"
    /\ \/ /\ state \in {"ready", "failed", "shutdown"}
          /\ waitPc' = [waitPc EXCEPT ![w] = state]
          /\ UNCHANGED readyWaiters
       \/ /\ state \notin {"ready", "failed", "shutdown"}
          /\ waitPc' = [waitPc EXCEPT ![w] = "parked"]
          /\ readyWaiters' = readyWaiters \cup {w}
    /\ UNCHANGED <<state, loop, cmd, handler, runResp, curRun, curStop, start,
                   cancelled, live, possiblyLeaked, breakerVars, parentDone,
                   runPc, stopPc>>

(* Run is refused unless the state is startable and nothing is being       *)
(* reclaimed; a refusal changes nothing else.                              *)
RefuseRun(r) ==
    /\ loop = "select" /\ runPc[r] = "sent"
    /\ \/ /\ ~Lifecycle!StartableFrom(state)
          /\ runPc' = [runPc EXCEPT ![r] = "refused"]
       \/ /\ Lifecycle!StartableFrom(state) /\ possiblyLeaked
          /\ runPc' = [runPc EXCEPT ![r] = "reclaiming"]
    /\ UNCHANGED <<state, loop, loopVars, start, cancelled, live,
                   possiblyLeaked, breakerVars, parentDone, stopPc, waitPc>>

(* Mutant: Run does not look at possiblyLeaked. *)
AcceptRun_IgnoresLeak(r) ==
    /\ loop = "select" /\ runPc[r] = "sent"
    /\ Lifecycle!StartableFrom(state)
    /\ state' = "starting" /\ loop' = "starting"
    /\ start' = "breaker" /\ cancelled' = FALSE
    /\ curRun' = r
    /\ runPc' = [runPc EXCEPT ![r] = "parked"]
    /\ UNCHANGED <<cmd, handler, readyWaiters, runResp, curStop, live,
                   possiblyLeaked, breakerVars, parentDone, stopPc, waitPc>>

AcceptRun(r) ==
    /\ loop = "select" /\ runPc[r] = "sent"
    /\ Lifecycle!StartableFrom(state)
    /\ ~possiblyLeaked
    /\ state' = "starting" /\ loop' = "starting"
    /\ start' = "breaker" /\ cancelled' = FALSE
    /\ curRun' = r
    /\ runPc' = [runPc EXCEPT ![r] = "parked"]
    /\ UNCHANGED <<cmd, handler, readyWaiters, runResp, curStop, live,
                   possiblyLeaked, breakerVars, parentDone, stopPc, waitPc>>

(* Stop with nothing running is idempotent, but admits an open reclaim. *)
AcceptStopIdle(s) ==
    /\ loop = "select" /\ ~cmd /\ stopPc[s] = "sent"
    /\ state' = "stopped"
    /\ clearCrashHistory
    /\ stopPc' = [stopPc EXCEPT ![s] = IF possiblyLeaked THEN "mayBeAlive" ELSE "ok"]
    /\ UNCHANGED <<loop, loopVars, start, cancelled, live, possiblyLeaked,
                   parentDone, runPc, waitPc>>

AcceptStop(s) ==
    /\ loop = "select" /\ cmd /\ stopPc[s] = "sent"
    /\ state' = "stopping" /\ loop' = "stopping"
    /\ curStop' = s
    /\ stopPc' = [stopPc EXCEPT ![s] = "parked"]
    /\ UNCHANGED <<cmd, handler, readyWaiters, runResp, curRun, start, cancelled,
                   live, possiblyLeaked, breakerVars, parentDone, runPc, waitPc>>

StopAnswerNow == IF live > 0 THEN "mayBeAlive" ELSE "ok"

(* Mutant: requests still go to the handler of the stopped process. *)
FinishStop_KeepsHandler ==
    /\ loop = "stopping"
    /\ killProcess
    /\ cmd' = FALSE
    /\ state' = "stopped" /\ loop' = "select"
    /\ clearCrashHistory
    /\ AnswerRun(runResp, "stopped") /\ runResp' = NoCall
    /\ stopPc' = [stopPc EXCEPT ![curStop] = StopAnswerNow] /\ curStop' = NoCall
    /\ UNCHANGED <<handler, readyWaiters, curRun, start, cancelled, live, parentDone, waitPc>>

(* killProcess returns in the Stop branch. *)
FinishStop ==
    /\ loop = "stopping"
    /\ killProcess
    /\ cmd' = FALSE /\ handler' = FALSE
    /\ state' = "stopped" /\ loop' = "select"
    /\ clearCrashHistory
    /\ AnswerRun(runResp, "stopped") /\ runResp' = NoCall
    /\ stopPc' = [stopPc EXCEPT ![curStop] = StopAnswerNow] /\ curStop' = NoCall
    /\ UNCHANGED <<readyWaiters, curRun, start, cancelled, live, parentDone, waitPc>>

(* Mutants: the handler survives the process; a crash looks like a stop. *)
UpstreamExited_KeepsHandler ==
    /\ loop = "select" /\ cmd /\ live = 0
    /\ cmd' = FALSE
    /\ state' = "failed"
    /\ recordUnexpectedExit
    /\ AnswerRun(runResp, "crashed") /\ runResp' = NoCall
    /\ UNCHANGED <<loop, handler, readyWaiters, curRun, curStop, start, cancelled,
                   live, possiblyLeaked, parentDone, stopPc, waitPc>>
UpstreamExited_LooksStopped ==
    /\ loop = "select" /\ cmd /\ live = 0
    /\ cmd' = FALSE /\ handler' = FALSE
    /\ state' = "stopped"
    /\ recordUnexpectedExit
    /\ AnswerRun(runResp, "crashed") /\ runResp' = NoCall
    /\ UNCHANGED <<loop, readyWaiters, curRun, curStop, start, cancelled, live,
                   possiblyLeaked, parentDone, stopPc, waitPc>>

(* cmdDone: the upstream exited on its own while run() held it. *)
UpstreamExited ==
    /\ loop = "select" /\ cmd /\ live = 0
    /\ cmd' = FALSE /\ handler' = FALSE
    /\ state' = "failed"
    /\ recordUnexpectedExit
    /\ AnswerRun(runResp, "crashed") /\ runResp' = NoCall
    /\ UNCHANGED <<loop, readyWaiters, curRun, curStop, start, cancelled, live,
                   possiblyLeaked, parentDone, stopPc, waitPc>>

(* parentCtx.Done in the outer select. *)
ShutdownIdle ==
    /\ loop = "select" /\ parentDone /\ ~cmd
    /\ state' = "shutdown" /\ loop' = "returned"
    /\ notifyWaiters("shutdown")
    /\ UNCHANGED <<cmd, handler, runResp, curRun, curStop, start, cancelled, live,
                   possiblyLeaked, breakerVars, parentDone, runPc, stopPc>>

ShutdownRunning ==
    /\ loop = "select" /\ parentDone /\ cmd
    /\ state' = "shutdown" /\ loop' = "shutdownKill"
    /\ handler' = FALSE
    /\ UNCHANGED <<cmd, readyWaiters, runResp, curRun, curStop, start, cancelled,
                   live, possiblyLeaked, breakerVars, parentDone, callVars>>

(* killProcess returns on the way out of run(). *)
FinishShutdown ==
    /\ loop = "shutdownKill"
    /\ killProcess
    /\ cmd' = FALSE /\ loop' = "returned"
    /\ notifyWaiters("shutdown")
    /\ AnswerRun(runResp, "shutdown") /\ runResp' = NoCall
    /\ UNCHANGED <<state, handler, curRun, curStop, start, cancelled, live,
                   breakerVars, parentDone, stopPc>>

-----------------------------------------------------------------------------
(* run(): the inner select, while doStart is in progress. *)

(* Mutant: Run returns as soon as the model is ready. *)
StartSucceeded_AnswersRun ==
    /\ loop = "starting" /\ start = "live"
    /\ cmd' = TRUE /\ handler' = TRUE
    /\ state' = "ready" /\ loop' = "select" /\ start' = "none"
    /\ notifyWaiters("ready")
    /\ AnswerRun(curRun, "stopped")
    /\ runResp' = curRun /\ curRun' = NoCall
    /\ UNCHANGED <<curStop, cancelled, live, possiblyLeaked, breakerVars,
                   parentDone, stopPc>>

StartSucceeded ==
    /\ loop = "starting" /\ start = "live"
    /\ cmd' = TRUE /\ handler' = TRUE
    /\ state' = "ready" /\ loop' = "select" /\ start' = "none"
    /\ notifyWaiters("ready")
    /\ runResp' = curRun /\ curRun' = NoCall
    /\ UNCHANGED <<curStop, cancelled, live, possiblyLeaked, breakerVars,
                   parentDone, runPc, stopPc>>

(* Mutant: a failed start wakes nobody. *)
StartFailed_Silent ==
    /\ loop = "starting" /\ start = "failed"
    /\ state' = "failed" /\ loop' = "select" /\ start' = "none"
    /\ AnswerRun(curRun, "failed") /\ curRun' = NoCall
    /\ UNCHANGED <<cmd, handler, readyWaiters, runResp, curStop, cancelled, live,
                   possiblyLeaked, breakerVars, parentDone, stopPc, waitPc>>

StartFailed ==
    /\ loop = "starting" /\ start = "failed"
    /\ state' = "failed" /\ loop' = "select" /\ start' = "none"
    /\ notifyWaiters("failed")
    /\ AnswerRun(curRun, "failed") /\ curRun' = NoCall
    /\ UNCHANGED <<cmd, handler, runResp, curStop, cancelled, live,
                   possiblyLeaked, breakerVars, parentDone, stopPc>>

(* Stop arrives mid-start: cancel startCtx and wait for doStart. *)
StopDuringStart(s) ==
    /\ loop = "starting" /\ stopPc[s] = "sent"
    /\ cancelled' = TRUE /\ loop' = "abortStart"
    /\ curStop' = s
    /\ stopPc' = [stopPc EXCEPT ![s] = "parked"]
    /\ UNCHANGED <<state, cmd, handler, readyWaiters, runResp, curRun, start, live,
                   possiblyLeaked, breakerVars, parentDone, runPc, waitPc>>

(* What both ends of an aborted start do: Stopped, wake everyone. The      *)
(* crash history is left as it is.                                         *)
StartAborted(answer) ==
    /\ state' = "stopped" /\ loop' = "select" /\ start' = "none"
    /\ notifyWaiters("aborted")
    /\ AnswerRun(curRun, "aborted") /\ curRun' = NoCall
    /\ stopPc' = [stopPc EXCEPT ![curStop] = answer] /\ curStop' = NoCall
    /\ UNCHANGED <<cmd, handler, runResp, cancelled, live, breakerVars, parentDone>>

(* doStart came back without a process: pendingStopErr is nil. *)
AbortedStartFailed ==
    /\ loop = "abortStart" /\ start = "failed"
    /\ StartAborted("ok")
    /\ UNCHANGED possiblyLeaked

(* doStart had crossed the finish line: run() kills the process itself. *)
AbortedStartLive ==
    /\ loop = "abortStart" /\ start = "live"
    /\ loop' = "killStart"
    /\ UNCHANGED <<state, loopVars, start, cancelled, live, possiblyLeaked,
                   breakerVars, parentDone, callVars>>

FinishAbortedStart ==
    /\ loop = "killStart"
    /\ killProcess
    /\ StartAborted(StopAnswerNow)

(* parentCtx.Done mid-start. *)
ShutdownDuringStart ==
    /\ loop = "starting" /\ parentDone
    /\ cancelled' = TRUE /\ loop' = "shutdownStart"
    /\ state' = "shutdown"
    /\ UNCHANGED <<loopVars, start, live, possiblyLeaked, breakerVars,
                   parentDone, callVars>>

(* doStart's result; curRun is not answered, its caller watches parentCtx. *)
ShutdownStartResult ==
    /\ loop = "shutdownStart"
    /\ \/ /\ start = "failed"
          /\ loop' = "returned"
          /\ notifyWaiters("shutdown")
       \/ /\ start = "live"
          /\ loop' = "shutdownKill"
          /\ UNCHANGED <<readyWaiters, waitPc>>
    /\ start' = "none" /\ curRun' = NoCall
    /\ UNCHANGED <<state, cmd, handler, runResp, curStop, cancelled, live,
                   possiblyLeaked, breakerVars, parentDone, runPc, stopPc>>

(* The router cancels procCtx. *)
CancelParent ==
    /\ ~parentDone
    /\ parentDone' = TRUE
    /\ UNCHANGED <<state, loop, loopVars, start, cancelled, live,
                   possiblyLeaked, breakerVars, callVars>>

-----------------------------------------------------------------------------
run ==
    \/ \E w \in Waits : AcceptWaitReady(w)
    \/ \E r \in Runs : RefuseRun(r) \/ AcceptRun(r)
    \/ \E s \in Stops : AcceptStopIdle(s) \/ AcceptStop(s) \/ StopDuringStart(s)
    \/ FinishStop \/ UpstreamExited
    \/ ShutdownIdle \/ ShutdownRunning \/ FinishShutdown
    \/ StartSucceeded \/ StartFailed
    \/ AbortedStartFailed \/ AbortedStartLive \/ FinishAbortedStart
    \/ ShutdownDuringStart \/ ShutdownStartResult

Calls ==
    \/ \E r \in Runs : CallRun(r)
    \/ \E s \in Stops : CallStop(s)
    \/ \E w \in Waits : CallWaitReady(w)

Next ==
    \/ Calls \/ GiveUpOnShutdown \/ (\E w \in Waits : GiveUpWaiting(w))
    \/ run \/ doStart \/ reapLeaked
    \/ ProcessExits \/ TimePasses \/ CancelParent

(* Goroutines that can move eventually do: run(), doStart (whose waits are *)
(* all bounded by a deadline) and a caller that sees parentCtx done.       *)
(* Nothing is assumed of calls, exits, the reaper, time or shutdown: in    *)
(* particular a process that is killed need never die.                     *)
Fairness == WF_vars(run) /\ WF_vars(doStart) /\ WF_vars(GiveUpOnShutdown)

Spec == Init /\ [][Next]_vars
FairSpec == Spec /\ Fairness

-----------------------------------------------------------------------------
(* Properties. *)

(* The types; run() has a cmd and a handler only in the states that have a *)
(* process to go with them.                                                *)
TypeOK ==
    /\ state \in Lifecycle!ProcessState
    /\ loop \in LoopPc
    /\ cmd \in BOOLEAN /\ (cmd => state \in {"ready", "stopping", "shutdown"})
    /\ handler \in BOOLEAN /\ (handler => state \in {"ready", "stopping"})
    /\ readyWaiters \in SUBSET Waits
    /\ runResp \in Runs \cup {NoCall} /\ curRun \in Runs \cup {NoCall}
    /\ curStop \in Stops \cup {NoCall}
    /\ start \in StartPc /\ cancelled \in BOOLEAN
    /\ live \in Nat /\ possiblyLeaked \in BOOLEAN
    /\ crashes \in 0..Threshold /\ cooling \in BOOLEAN
    /\ parentDone \in BOOLEAN
    /\ runPc \in [Runs -> {"idle", "sent", "parked"} \cup RunAnswer]
    /\ stopPc \in [Stops -> {"idle", "sent", "parked"} \cup StopAnswer]
    /\ waitPc \in [Waits -> {"idle", "sent", "parked"} \cup WaitAnswer]

(* However starts, stops, kills that were given up, crashes and reclaims   *)
(* interleave, a model never has two operating-system processes: the       *)
(* possiblyLeaked check in Run is what stands between a leaked instance    *)
(* and a second one on the same port and GPU.                              *)
OneInstance == live <= 1

(* A live process is always in somebody's hands: run() holds its cmd, a    *)
(* start in progress will hand it over or kill it, or possiblyLeaked tells *)
(* Stop and Run about it. At shutdown, too, it is killed or flagged before *)
(* run() returns.                                                          *)
NoUntrackedProcess ==
    live > 0 => cmd \/ StartHolds \/ possiblyLeaked \/ loop = "shutdownKill"

(* "Run blocks until the process is terminated" (process.go), as far as    *)
(* the code keeps it: its caller gets an answer only when the process is   *)
(* gone or everything is shutting down, OR when the process is flagged as  *)
(* possibly alive. The last is a real exception: after a kill that could   *)
(* not be confirmed a Stop answers the parked Run with nil (run(), at the  *)
(* end of the Stop case) although the process may live on.                 *)
RunBlocksUntilTerminated ==
    [][\A r \in Runs :
          runPc[r] = "parked" /\ runPc'[r] # "parked"
              => live' = 0 \/ possiblyLeaked' \/ parentDone]_vars

(* A WaitReady caller is only ever left parked where a later transition    *)
(* can wake it; leaving "starting" wakes all, so that none waits in ready, *)
(* stopping, failed or after shutdown. The handler, the held cmd and the   *)
(* parked Run caller stand and fall together.                              *)
NobodyParkedPastTheAnswer ==
    /\ readyWaiters # {} => state \in {"stopped", "starting"} \/ loop \in {"shutdownStart", "shutdownKill"}
    /\ (runResp # NoCall) = cmd
    /\ handler => cmd
    /\ state = "ready" => handler

(* Whoever is parked is known to run(), which will answer: a Stop caller   *)
(* is the one being carried out, a Run caller the one being started or     *)
(* running (or it can leave by parentCtx), a WaitReady caller is listed;   *)
(* and the Stop being carried out has a caller that still waits for it.    *)
EveryParkedCallerIsHeld ==
    /\ \A s \in Stops : stopPc[s] = "parked" <=> s = curStop
    /\ curStop # NoCall => loop \in {"stopping", "abortStart", "killStart"}
    /\ \A r \in Runs : runPc[r] = "parked" => r \in {curRun, runResp} \/ parentDone
    /\ \A w \in Waits : waitPc[w] = "parked" => w \in readyWaiters

(* The published states move as ProcessLifecycle promises, and a process   *)
(* left behind by a settled lifecycle is flagged.                          *)
ImplementsLifecycle == Lifecycle!LifecycleSpec

(* Seen by its callers, the process stays within what ProcessService says  *)
(* (Run, WaitReady, Stop and State of ProcessCommand).                     *)
ImplementsService == Service!ServiceSpec

(* Stop always answers, even when the process cannot be killed: the bound  *)
(* on killProcess's wait keeps this model's control loop responsive.       *)
StopAnswered ==
    \A s \in Stops : stopPc[s] = "sent" ~> stopPc[s] \in StopAnswer

(* A WaitReady caller parked while a start is in progress is told how it   *)
(* ended, whichever way it ends.                                           *)
StartingWaiterAnswered ==
    \A w \in Waits :
        (w \in readyWaiters /\ state = "starting") ~> waitPc[w] \in WaitAnswer

(* What the comment on possiblyLeaked says of Stop: it never reports a     *)
(* clean handoff while the process may still be alive.                     *)
StopMeansGone ==
    [][\A s \in Stops :
          stopPc'[s] = "ok" /\ stopPc[s] # "ok" => live' = 0]_vars

=============================================================================
