----------------------------- MODULE Dispatcher -----------------------------
(***************************************************************************)
(* One group of the event dispatcher (internal/event/event.go): the        *)
(* consumers of one type of event, each with a queue and a goroutine of    *)
(* its own (Listen), and the goroutines that publish. All share one mutex  *)
(* and one condition variable: publishers sleep on it while a queue is     *)
(* full, consumers while theirs is empty. Every critical section is one    *)
(* action; a handler runs outside of the mutex and may itself publish.     *)
(*                                                                         *)
(* Publishers are goroutines that run no handler. Talkers are the          *)
(* consumers whose handler may publish an event of the same type. A        *)
(* consumer is one subscription: it is cancelled once and never reused.    *)
(* Events are numbered in the order in which their publication begins.     *)
(***************************************************************************)
EXTENDS Integers, Sequences, FiniteSets

CONSTANTS Publishers, Consumers, Talkers,
          MaxQueue,     \* maxQueue: 1000 for a log monitor
          MaxEvents     \* bound: events published in a behaviour

ASSUME ThreadsAssumption ==
    /\ Publishers \cap Consumers = {}
    /\ Talkers \subseteq Consumers
ASSUME BoundsAssumption == MaxQueue \in Nat \ {0} /\ MaxEvents \in Nat

Threads == Publishers \cup Consumers

VARIABLES
    registered,     \* the registry has this group (subs)
    subs,           \* group.subs
    queue, pend,    \* consumer.queue, and pending of its Listen
    stop,           \* consumer.stop
    pc,             \* where each goroutine is
    ev,             \* the event a publishing goroutine holds
    issued,         \* how many publications have begun
    log,            \* history: the events broadcast, in order
    from, upto,     \* history: what was broadcast before the subscription, the cancel
    given           \* history: what each handler was called with

busVars == <<registered, subs, queue, pend, stop, pc, ev, issued, log, from, upto, given>>

\* "find", "offer" and "full" are steps of a Publish; "lock", "asleep", "handle" of a Listen
PublisherAt == {"idle", "find", "offer", "full"}
ConsumerAt == {"new", "lock", "asleep", "handle", "find", "offer", "full", "done"}

BusInit ==
    /\ registered = FALSE
    /\ subs = {}
    /\ queue = [c \in Consumers |-> <<>>]
    /\ pend = [c \in Consumers |-> <<>>]
    /\ stop = [c \in Consumers |-> FALSE]
    /\ pc = [t \in Threads |-> IF t \in Publishers THEN "idle" ELSE "new"]
    /\ ev = [t \in Threads |-> 0]
    /\ issued = 0
    /\ log = <<>>
    /\ from = [c \in Consumers |-> 0]
    /\ upto = [c \in Consumers |-> 0]
    /\ given = [c \in Consumers |-> <<>>]

-----------------------------------------------------------------------------
(* cond.Broadcast: whoever sleeps on the condition goes for the mutex.     *)
Awake(at) == [t \in Threads |->
    CASE at[t] = "asleep" -> "lock"
      [] at[t] = "full" -> "offer"
      [] OTHER -> at[t]]

(* Where a goroutine goes on after its Publish.                            *)
Resume(t) == IF t \in Publishers THEN "idle" ELSE "handle"

(* SubscribeTo and group.Add under both mutexes; the first one stores the  *)
(* registry that has the group. Then Listen runs.                          *)
Subscribe(c) ==
    /\ pc[c] = "new"
    /\ registered' = TRUE
    /\ subs' = subs \cup {c}
    /\ from' = [from EXCEPT ![c] = Len(log)]
    /\ pc' = [pc EXCEPT ![c] = "lock"]
    /\ UNCHANGED <<queue, pend, stop, ev, issued, log, upto, given>>

(* The CancelFunc: group.Del. It wakes nobody.                             *)
Unsubscribe(c) ==
    /\ c \in subs
    /\ stop' = [stop EXCEPT ![c] = TRUE]
    /\ subs' = subs \ {c}
    /\ upto' = [upto EXCEPT ![c] = Len(log)]
    /\ UNCHANGED <<registered, queue, pend, pc, ev, issued, log, from, given>>

(* A publication begins.                                                   *)
Begin(t) ==
    /\ issued < MaxEvents
    /\ issued' = issued + 1
    /\ ev' = [ev EXCEPT ![t] = issued']
    /\ pc' = [pc EXCEPT ![t] = "find"]
    /\ UNCHANGED <<registered, subs, queue, stop, log, from, upto>>

Publish(p) ==
    /\ pc[p] = "idle"
    /\ Begin(p)
    /\ UNCHANGED <<pend, given>>

(* findGroup reads the registry without a lock: before the first           *)
(* subscription there is no group, and the event goes to nobody.           *)
Find(t) ==
    /\ pc[t] = "find"
    /\ pc' = [pc EXCEPT ![t] = IF registered THEN "offer" ELSE Resume(t)]
    /\ ev' = [ev EXCEPT ![t] = IF registered THEN @ ELSE 0]
    /\ UNCHANGED <<registered, subs, queue, pend, stop, issued, log, from, upto, given>>

SomeQueueIsFull_OffByOne == \E c \in subs : Len(queue[c]) > MaxQueue
SomeQueueIsFull == \E c \in subs : Len(queue[c]) >= MaxQueue

(* group.Broadcast finds a full queue: it waits.                           *)
WaitForRoom(t) ==
    /\ pc[t] = "offer"
    /\ SomeQueueIsFull
    /\ pc' = [pc EXCEPT ![t] = "full"]
    /\ UNCHANGED <<registered, subs, queue, pend, stop, ev, issued, log, from, upto, given>>

(* The mutant that only queues the event for those who have room.          *)
Broadcast_SkipsTheSlow(t) ==
    /\ pc[t] = "offer"
    /\ queue' = [c \in Consumers |->
                    IF c \in subs /\ Len(queue[c]) < MaxQueue
                    THEN Append(queue[c], ev[t]) ELSE queue[c]]
    /\ log' = Append(log, ev[t])
    /\ pc' = Awake([pc EXCEPT ![t] = Resume(t)])
    /\ ev' = [ev EXCEPT ![t] = 0]
    /\ UNCHANGED <<registered, subs, pend, stop, issued, from, upto, given>>

(* group.Broadcast finds room in every queue.                              *)
Broadcast(t) ==
    /\ pc[t] = "offer"
    /\ ~SomeQueueIsFull
    /\ queue' = [c \in Consumers |-> IF c \in subs THEN Append(queue[c], ev[t]) ELSE queue[c]]
    /\ log' = Append(log, ev[t])
    /\ pc' = Awake([pc EXCEPT ![t] = Resume(t)])
    /\ ev' = [ev EXCEPT ![t] = 0]
    /\ UNCHANGED <<registered, subs, pend, stop, issued, from, upto, given>>

(* Listen, holding the mutex: with an empty queue it ends if it is         *)
(* stopped, or sleeps.                                                     *)
ListenEnds(c) ==
    /\ pc[c] = "lock"
    /\ queue[c] = <<>>
    /\ stop[c]
    /\ pc' = [pc EXCEPT ![c] = "done"]
    /\ UNCHANGED <<registered, subs, queue, pend, stop, ev, issued, log, from, upto, given>>

ListenSleeps(c) ==
    /\ pc[c] = "lock"
    /\ queue[c] = <<>>
    /\ ~stop[c]
    /\ pc' = [pc EXCEPT ![c] = "asleep"]
    /\ UNCHANGED <<registered, subs, queue, pend, stop, ev, issued, log, from, upto, given>>

(* ... and otherwise it swaps the queue with the buffer it has worked off. *)
Swap(c) ==
    /\ pc[c] = "lock"
    /\ queue[c] # <<>>
    /\ pend' = [pend EXCEPT ![c] = queue[c]]
    /\ queue' = [queue EXCEPT ![c] = <<>>]
    /\ pc' = [pc EXCEPT ![c] = "handle"]
    /\ UNCHANGED <<registered, subs, stop, ev, issued, log, from, upto, given>>

(* The handler is called with the next event ...                           *)
Given(c) ==
    /\ pc[c] = "handle"
    /\ pend[c] # <<>>
    /\ given' = [given EXCEPT ![c] = Append(@, Head(pend[c]))]
    /\ pend' = [pend EXCEPT ![c] = Tail(@)]

(* ... and returns without publishing,                                     *)
Handle(c) ==
    /\ Given(c)
    /\ UNCHANGED <<registered, subs, queue, stop, pc, ev, issued, log, from, upto>>

(* ... or publishes an event before it returns.                            *)
HandleAndTalk(c) ==
    /\ c \in Talkers
    /\ Given(c)
    /\ Begin(c)

(* The mutant without the notification.                                    *)
Notify_Nobody(c) ==
    /\ pc[c] = "handle"
    /\ pend[c] = <<>>
    /\ pc' = [pc EXCEPT ![c] = "lock"]
    /\ UNCHANGED <<registered, subs, queue, pend, stop, ev, issued, log, from, upto, given>>

(* The batch is done: wake the publishers that wait for room.              *)
Notify(c) ==
    /\ pc[c] = "handle"
    /\ pend[c] = <<>>
    /\ pc' = Awake([pc EXCEPT ![c] = "lock"])
    /\ UNCHANGED <<registered, subs, queue, pend, stop, ev, issued, log, from, upto, given>>

Listen(c) == ListenEnds(c) \/ ListenSleeps(c) \/ Swap(c) \/ Notify(c)
Offer(t) == Find(t) \/ WaitForRoom(t) \/ Broadcast(t)

BusNext ==
    \/ \E c \in Consumers :
          Subscribe(c) \/ Unsubscribe(c) \/ Listen(c) \/ Handle(c) \/ HandleAndTalk(c)
    \/ \E p \in Publishers : Publish(p)
    \/ \E t \in Threads : Offer(t)

BusSpec == BusInit /\ [][BusNext]_busVars

-----------------------------------------------------------------------------
BusTypeOK ==
    /\ registered \in BOOLEAN
    /\ subs \subseteq Consumers
    /\ queue \in [Consumers -> Seq(Nat)]
    /\ pend \in [Consumers -> Seq(Nat)]
    /\ stop \in [Consumers -> BOOLEAN]
    /\ pc \in [Threads -> PublisherAt \cup ConsumerAt]
    /\ ev \in [Threads -> Nat]
    /\ issued \in 0..MaxEvents
    /\ log \in Seq(Nat)
    /\ from \in [Consumers -> Nat]
    /\ upto \in [Consumers -> Nat]
    /\ given \in [Consumers -> Seq(Nat)]

(* A handler waits for room in its own queue: nobody else can make it.     *)
HandlerWaitsForItself == \E c \in Consumers : pc[c] = "full" /\ Len(queue[c]) >= MaxQueue

(* A consumer that will come to the end of a batch, where it wakes all.    *)
WorksOff(c) ==
    \/ pc[c] \in {"handle", "find", "offer"}
    \/ pc[c] = "lock" /\ queue[c] # <<>>

(* With one condition variable for publishers and consumers no wake-up is  *)
(* lost: a consumer asleep has nothing to do, and while a publisher sleeps *)
(* (group.Broadcast) some consumer, even a cancelled one, is awake on its  *)
(* way to the cond.Broadcast at the end of Listen's loop, unless a handler *)
(* waits for itself.                                                       *)
NoWakeupIsLost ==
    /\ \A c \in Consumers : pc[c] = "asleep" => queue[c] = <<>>
    /\ (\E t \in Threads : pc[t] = "full") =>
          HandlerWaitsForItself \/ \E c \in Consumers : WorksOff(c)

(* The promise of EventLog.tla, for which a consumer that is not in the    *)
(* group has cancelled if its stop flag is set and has yet to come if not. *)
Standing(c) == IF c \in subs THEN "on" ELSE IF stop[c] THEN "off" ELSE "never"

EL == INSTANCE EventLog WITH
        Events <- 1..MaxEvents,
        member <- [c \in Consumers |-> Standing(c)]

(* Each consumer's handler is called with the events broadcast between its *)
(* Subscribe and its cancel, in order and once, whatever the interleaving  *)
(* of publishers, swaps of the two buffers and cancels.                    *)
ImplementsEventLog == EL!LogSpec
=============================================================================
