--------------------------- MODULE LogMonitorProofs ---------------------------
(***************************************************************************)
(* Proofs about Dispatcher.tla and LogMonitor.tla, for any number of       *)
(* publishers and consumers, any limits and any sizes of the lines. The    *)
(* dispatcher comes first: its inductive invariant is BusInv, and it shows *)
(* that the dispatcher implements EventLog.tla. A step of LogMonitor.tla   *)
(* is one of the dispatcher or leaves it alone, so the invariant carries   *)
(* over, and the monitor's own one is added to it. The last part is about  *)
(* who sleeps on the dispatcher's condition variable and who wakes him.    *)
(***************************************************************************)
EXTENDS LogMonitor, SequenceTheorems, TLAPS

USE ThreadsAssumption, BoundsAssumption

Publishing == {"find", "offer", "full"}

(* Whoever is subscribed is not stopped, and only those who are neither    *)
(* subscribed nor stopped have yet to come.                                *)
Standings ==
    \A c \in Consumers :
        /\ c \in subs => ~stop[c]
        /\ pc[c] = "new" <=> c \notin subs /\ ~stop[c]

(* What a consumer has been given, works off and still has in its queue    *)
(* makes up what was published while it was subscribed ...                 *)
Lengths ==
    \A c \in Consumers :
        /\ pc[c] = "new" => queue[c] = <<>> /\ pend[c] = <<>> /\ given[c] = <<>>
        /\ pc[c] \in {"lock", "asleep", "done"} => pend[c] = <<>>
        /\ c \in subs => from[c] + Len(given[c]) + Len(pend[c]) + Len(queue[c]) = Len(log)
        /\ stop[c] =>
              /\ from[c] + Len(given[c]) + Len(pend[c]) + Len(queue[c]) = upto[c]
              /\ upto[c] <= Len(log)
        /\ Len(queue[c]) <= MaxQueue

(* ... event by event.                                                     *)
Contents ==
    \A c \in Consumers :
        /\ \A i \in 1..Len(given[c]) : given[c][i] = log[from[c] + i]
        /\ \A i \in 1..Len(pend[c]) : pend[c][i] = log[from[c] + Len(given[c]) + i]
        /\ \A i \in 1..Len(queue[c]) :
              queue[c][i] = log[from[c] + Len(given[c]) + Len(pend[c]) + i]

(* A goroutine that publishes holds an event of its own, not yet published.*)
Lines ==
    /\ \A t \in Threads : pc[t] \in Publishing => ev[t] \in 1..issued
    /\ \A t, u \in Threads :
          pc[t] \in Publishing /\ pc[u] \in Publishing /\ ev[t] = ev[u] => t = u
    /\ \A i \in 1..Len(log) :
          /\ log[i] \in 1..issued
          /\ \A t \in Threads : pc[t] \in Publishing => log[i] # ev[t]

BusInv == BusTypeOK /\ Standings /\ Lengths /\ Contents /\ Lines


-----------------------------------------------------------------------------
Places == PublisherAt \cup ConsumerAt

(* cond.Broadcast only moves sleepers to where they ask for the mutex.     *)
LEMMA AwakeMoves ==
  ASSUME NEW spot \in [Threads -> Places]
  PROVE  /\ Awake(spot) \in [Threads -> Places]
         /\ \A t \in Threads :
               /\ Awake(spot)[t] \in Publishing <=> spot[t] \in Publishing
               /\ Awake(spot)[t] = "new" <=> spot[t] = "new"
               /\ Awake(spot)[t] \in {"lock", "asleep", "done"} <=> spot[t] \in {"lock", "asleep", "done"}
<1>1. \A t \in Threads :
        /\ spot[t] \in Places
        /\ Awake(spot)[t] = IF spot[t] = "asleep" THEN "lock"
                            ELSE IF spot[t] = "full" THEN "offer" ELSE spot[t]
  BY SMT DEF Awake
<1>2. \A t \in Threads : Awake(spot)[t] \in Places
  BY <1>1, SMT DEF Places, PublisherAt, ConsumerAt
<1>3. Awake(spot) \in [Threads -> Places]
  BY <1>2, SMT DEF Awake
<1> QED
  BY <1>1, <1>3, SMT DEF Publishing

(* The types hold at the start.                                            *)
LEMMA BusTypesStart == BusInit => BusTypeOK
<1> SUFFICES ASSUME BusInit PROVE BusTypeOK OBVIOUS
<1>1. pc \in [Threads -> PublisherAt \cup ConsumerAt]
  BY SMT DEF BusInit, PublisherAt, ConsumerAt
<1>2. << >> \in Seq(Nat)
  BY EmptySeq
<1>3. issued \in 0..MaxEvents
  BY SMT DEF BusInit
<1> QED BY <1>1, <1>2, <1>3, Zenon DEF BusInit, BusTypeOK

(* Every step of the dispatcher keeps the types.                           *)
LEMMA BusTypesKept ==
  ASSUME BusTypeOK, [BusNext]_busVars
  PROVE  BusTypeOK'
<1> USE DEF BusTypeOK
<1> DEFINE P == PublisherAt \cup ConsumerAt
<1>0. /\ "lock" \in P /\ "find" \in P /\ "offer" \in P /\ "idle" \in P /\ "handle" \in P
      /\ "full" \in P /\ "done" \in P /\ "asleep" \in P
      /\ \A t \in Threads : Resume(t) \in P
  BY DEF PublisherAt, ConsumerAt, Resume
<1>1. ASSUME NEW spot \in [Threads -> P] PROVE Awake(spot) \in [Threads -> P]
  BY <1>1, AwakeMoves DEF Places
<1>t. Consumers \subseteq Threads /\ Publishers \subseteq Threads
  BY DEF Threads
<1>q. pc \in [Threads -> P]
  OBVIOUS
<1> HIDE DEF P
<1>p. ASSUME pc' \in [Threads -> P],
             UNCHANGED <<registered, subs, queue, pend, stop, ev, issued, log, from, upto, given>>
      PROVE  BusTypeOK'
  BY <1>p, Zenon DEF P
<1>2. ASSUME NEW t \in Threads, Begin(t)
      PROVE  /\ issued' \in 0..MaxEvents /\ ev' \in [Threads -> Nat] /\ pc' \in [Threads -> P]
             /\ UNCHANGED <<registered, subs, queue, stop, log, from, upto>>
  BY <1>0, <1>2, SMT DEF Begin, P
<1>3. ASSUME NEW c \in Consumers, Given(c)
      PROVE  given' \in [Consumers -> Seq(Nat)] /\ pend' \in [Consumers -> Seq(Nat)]
  <2>1. pend[c] \in Seq(Nat) /\ given[c] \in Seq(Nat) /\ pend[c] # <<>>
    BY <1>3 DEF Given
  <2>2. Head(pend[c]) \in Nat /\ Tail(pend[c]) \in Seq(Nat)
    BY <2>1, HeadTailProperties
  <2>3. Append(given[c], Head(pend[c])) \in Seq(Nat)
    BY <2>1, <2>2, AppendProperties
  <2> QED BY <1>3, <2>2, <2>3, SMT DEF Given
<1>4. ASSUME NEW c \in Consumers, Subscribe(c) PROVE BusTypeOK'
  <2>1. Len(log) \in Nat BY LenProperties
  <2> QED BY <1>0, <1>t, <1>4, <2>1, SMT DEF Subscribe, P
<1>5. ASSUME NEW c \in Consumers, Unsubscribe(c) PROVE BusTypeOK'
  <2>1. Len(log) \in Nat BY LenProperties
  <2> QED BY <1>5, <2>1, SMT DEF Unsubscribe
<1>6. ASSUME NEW c \in Consumers, Listen(c) PROVE BusTypeOK'
  <2>1. CASE ListenEnds(c) \/ ListenSleeps(c)
    <3>1. pc' \in [Threads -> P]
      <4>1. PICK spot \in {"done", "asleep"} : pc' = [pc EXCEPT ![c] = spot]
        BY <2>1 DEF ListenEnds, ListenSleeps
      <4> QED BY <1>0, <1>q, <1>t, <4>1
    <3> QED BY <1>p, <2>1, <3>1 DEF ListenEnds, ListenSleeps
  <2>2. CASE Swap(c)
    BY <1>0, <1>t, <2>2, EmptySeq, SMT DEF Swap, P
  <2>3. CASE Notify(c)
    <3>1. [pc EXCEPT ![c] = "lock"] \in [Threads -> P] BY <1>0, <1>q, <1>t, SMT
    <3>2. pc' \in [Threads -> P] BY <1>1, <2>3, <3>1 DEF Notify
    <3> QED BY <1>p, <2>3, <3>2 DEF Notify
  <2> QED BY <1>6, <2>1, <2>2, <2>3 DEF Listen
<1>7. ASSUME NEW c \in Consumers, Handle(c) PROVE BusTypeOK'
  BY <1>3, <1>7, SMT DEF Handle
<1>8. ASSUME NEW c \in Consumers, HandleAndTalk(c) PROVE BusTypeOK'
  <2>1. Given(c) /\ Begin(c) BY <1>8 DEF HandleAndTalk
  <2> QED BY <1>2, <1>3, <1>t, <2>1, Zenon DEF P
<1>9. ASSUME NEW p \in Publishers, Publish(p) PROVE BusTypeOK'
  <2>1. Begin(p) /\ UNCHANGED <<pend, given>> BY <1>9 DEF Publish
  <2> QED BY <1>2, <1>t, <2>1, Zenon DEF P
<1>10. ASSUME NEW t \in Threads, Offer(t) PROVE BusTypeOK'
  <2>1. CASE Find(t)
    <3>1. pc' \in [Threads -> P] BY <1>0, <2>1, SMT DEF Find, P
    <3>2. ev' \in [Threads -> Nat] BY <2>1, SMT DEF Find
    <3> QED BY <2>1, <3>1, <3>2, SMT DEF Find, P
  <2>2. CASE WaitForRoom(t)
    BY <1>0, <2>2, SMT DEF WaitForRoom, P
  <2>3. CASE Broadcast(t)
    <3>1. [pc EXCEPT ![t] = Resume(t)] \in [Threads -> P] BY <1>0, SMT DEF P
    <3>2. pc' \in [Threads -> P] BY <1>1, <2>3, <3>1 DEF Broadcast
    <3>3. \A c \in Consumers : Append(queue[c], ev[t]) \in Seq(Nat) BY AppendProperties
    <3>4. queue' \in [Consumers -> Seq(Nat)] BY <2>3, <3>3, SMT DEF Broadcast
    <3>5. log' \in Seq(Nat) BY <2>3, AppendProperties DEF Broadcast
    <3>6. ev' \in [Threads -> Nat] BY <2>3, SMT DEF Broadcast
    <3> QED BY <2>3, <3>2, <3>4, <3>5, <3>6, Zenon DEF Broadcast, P
  <2> QED BY <1>10, <2>1, <2>2, <2>3 DEF Offer
<1>11. CASE UNCHANGED busVars
  BY <1>11 DEF busVars
<1> QED BY <1>4, <1>5, <1>6, <1>7, <1>8, <1>9, <1>10, <1>11 DEF BusNext

-----------------------------------------------------------------------------
(* What a step of the dispatcher does to the events on their way.          *)
NothingMoves ==
    /\ \A u \in Threads : pc'[u] \in Publishing <=> pc[u] \in Publishing
    /\ UNCHANGED <<ev, issued, log>>
OthersStay(t) ==
    \A u \in Threads \ {t} : ev'[u] = ev[u] /\ (pc'[u] \in Publishing <=> pc[u] \in Publishing)
Begins(t) ==
    /\ OthersStay(t)
    /\ pc[t] \notin Publishing
    /\ pc'[t] \in Publishing
    /\ issued' = issued + 1
    /\ ev'[t] = issued + 1
    /\ UNCHANGED log
Drops(t) ==
    /\ OthersStay(t)
    /\ ~registered
    /\ pc'[t] \notin Publishing
    /\ UNCHANGED <<issued, log>>
Posts(t) ==
    /\ OthersStay(t)
    /\ pc[t] \in Publishing
    /\ pc'[t] \notin Publishing
    /\ log' = Append(log, ev[t])
    /\ UNCHANGED issued

(* There is no other kind of step.                                         *)
LEMMA MoveKinds ==
  ASSUME BusTypeOK, [BusNext]_busVars
  PROVE  NothingMoves \/ \E t \in Threads : Begins(t) \/ Drops(t) \/ Posts(t)
<1>t. /\ Consumers \subseteq Threads /\ Publishers \subseteq Threads
      /\ pc \in [Threads -> Places] /\ ev \in [Threads -> Nat] /\ issued \in Nat
  BY SMT DEF Threads, BusTypeOK, Places
<1>1. ASSUME NEW t \in Threads, NEW spot \in Places \ Publishing, pc[t] \notin Publishing,
             pc' = [pc EXCEPT ![t] = spot], UNCHANGED <<ev, issued, log>>
      PROVE  NothingMoves
  BY <1>t, <1>1, SMT DEF NothingMoves
<1>2. ASSUME NEW t \in Threads, Begin(t), pc[t] \notin Publishing PROVE Begins(t)
  BY <1>t, <1>2, SMT DEF Begin, Begins, OthersStay, Publishing
<1>3. ASSUME NEW t \in Threads, Find(t) PROVE NothingMoves \/ Drops(t)
  <2>1. CASE registered
    <3>1. pc' = [pc EXCEPT ![t] = "offer"] /\ ev' = [ev EXCEPT ![t] = ev[t]] /\ pc[t] = "find"
      BY <1>3, <2>1 DEF Find
    <3>2. ev' = ev BY <1>t, <3>1, SMT
    <3>3. \A u \in Threads : pc'[u] \in Publishing <=> pc[u] \in Publishing
      BY <1>t, <3>1, SMT DEF Publishing
    <3> QED BY <1>3, <3>2, <3>3 DEF NothingMoves, Find
  <2>2. CASE ~registered
    <3>1. /\ pc' = [pc EXCEPT ![t] = Resume(t)] /\ ev' = [ev EXCEPT ![t] = 0]
          /\ UNCHANGED <<issued, log>>
      BY <1>3, <2>2 DEF Find
    <3>2. Resume(t) \notin Publishing BY DEF Resume, Publishing
    <3> QED BY <1>t, <2>2, <3>1, <3>2, SMT DEF Drops, OthersStay
  <2> QED BY <2>1, <2>2
<1>4. ASSUME NEW t \in Threads, Broadcast(t) PROVE Posts(t)
  <2>1. /\ pc[t] = "offer" /\ log' = Append(log, ev[t]) /\ UNCHANGED issued
        /\ pc' = Awake([pc EXCEPT ![t] = Resume(t)]) /\ ev' = [ev EXCEPT ![t] = 0]
    BY <1>4 DEF Broadcast
  <2>2. Resume(t) \in Places \ Publishing
    BY DEF Resume, Places, PublisherAt, ConsumerAt, Publishing
  <2>3. [pc EXCEPT ![t] = Resume(t)] \in [Threads -> Places]
    BY <1>t, <2>2, SMT
  <2>4. \A u \in Threads : pc'[u] \in Publishing <=> [pc EXCEPT ![t] = Resume(t)][u] \in Publishing
    BY <2>1, <2>3, AwakeMoves
  <2>5. pc'[t] \notin Publishing
    BY <1>t, <2>2, <2>4, SMT
  <2>6. OthersStay(t)
    <3>1. \A u \in Threads \ {t} : [pc EXCEPT ![t] = Resume(t)][u] = pc[u] /\ ev'[u] = ev[u]
      BY <1>t, <2>1, SMT
    <3> QED BY <2>4, <3>1, Zenon DEF OthersStay
  <2> QED BY <2>1, <2>5, <2>6 DEF Posts, Publishing
<1>5. ASSUME NEW c \in Consumers, Listen(c) PROVE NothingMoves
  <2>1. CASE Notify(c)
    <3>1. /\ pc[c] = "handle" /\ pc' = Awake([pc EXCEPT ![c] = "lock"])
          /\ UNCHANGED <<ev, issued, log>>
      BY <2>1 DEF Notify
    <3>2. [pc EXCEPT ![c] = "lock"] \in [Threads -> Places]
      BY <1>t, SMT DEF Places, PublisherAt, ConsumerAt
    <3>3. \A u \in Threads : pc'[u] \in Publishing <=> [pc EXCEPT ![c] = "lock"][u] \in Publishing
      BY <3>1, <3>2, AwakeMoves
    <3>4. \A u \in Threads : pc'[u] \in Publishing <=> pc[u] \in Publishing
      <4>1. \A u \in Threads : [pc EXCEPT ![c] = "lock"][u] = IF u = c THEN "lock" ELSE pc[u]
        BY <1>t, SMT
      <4>2. "lock" \notin Publishing /\ "handle" \notin Publishing
        BY DEF Publishing
      <4> QED BY <3>1, <3>3, <4>1, <4>2
    <3> QED BY <3>1, <3>4 DEF NothingMoves
  <2>2. CASE ListenEnds(c) \/ ListenSleeps(c) \/ Swap(c)
    <3>1. /\ \E spot \in {"done", "asleep", "handle"} : pc' = [pc EXCEPT ![c] = spot]
          /\ pc[c] = "lock" /\ UNCHANGED <<ev, issued, log>>
      BY <2>2 DEF ListenEnds, ListenSleeps, Swap
    <3> QED BY <1>1, <1>t, <3>1 DEF Publishing, Places, PublisherAt, ConsumerAt
  <2> QED BY <1>5, <2>1, <2>2 DEF Listen
<1>6. ASSUME NEW c \in Consumers, Subscribe(c) PROVE NothingMoves
  BY <1>1, <1>6, <1>t DEF Subscribe, Publishing, Places, PublisherAt, ConsumerAt
<1>7. ASSUME NEW c \in Consumers, Unsubscribe(c) \/ Handle(c) PROVE NothingMoves
  BY <1>7 DEF Unsubscribe, Handle, NothingMoves
<1>8. ASSUME NEW c \in Consumers, HandleAndTalk(c) PROVE Begins(c)
  BY <1>2, <1>8, <1>t DEF HandleAndTalk, Given, Publishing
<1>9. ASSUME NEW p \in Publishers, Publish(p) PROVE Begins(p)
  BY <1>2, <1>9, <1>t DEF Publish, Publishing
<1>10. ASSUME NEW t \in Threads, WaitForRoom(t) PROVE NothingMoves
  BY <1>10, <1>t, SMT DEF WaitForRoom, NothingMoves, Publishing
<1>11. CASE UNCHANGED busVars
  BY <1>11 DEF busVars, NothingMoves
<1>12. ASSUME NEW t \in Threads, Offer(t) PROVE NothingMoves \/ Drops(t) \/ Posts(t)
  BY <1>3, <1>4, <1>10, <1>12 DEF Offer
<1> QED BY <1>t, <1>5, <1>6, <1>7, <1>8, <1>9, <1>11, <1>12 DEF BusNext

(* Events stay with one holder each until they are published.              *)
LEMMA LinesKept ==
  ASSUME BusTypeOK, BusTypeOK', Lines, [BusNext]_busVars
  PROVE  Lines'
<1>t. /\ ev \in [Threads -> Nat] /\ ev' \in [Threads -> Nat] /\ issued \in Nat /\ issued' \in Nat
      /\ log \in Seq(Nat) /\ log' \in Seq(Nat) /\ Len(log) \in Nat
  <2>1. log \in Seq(Nat) BY DEF BusTypeOK
  <2> QED BY <2>1, LenProperties, SMT DEF BusTypeOK
<1>1. CASE NothingMoves
  BY <1>1, <1>t, SMT DEF NothingMoves, Lines
<1>2. ASSUME NEW t \in Threads, Begins(t) PROVE Lines'
  <2>1. \A u \in Threads : pc'[u] \in Publishing => ev'[u] \in 1..issued'
    BY <1>2, <1>t, SMT DEF Begins, OthersStay, Lines
  <2>2. \A u \in Threads \ {t} : pc'[u] \in Publishing => ev'[u] # ev'[t] /\ pc[u] \in Publishing /\ ev'[u] = ev[u]
    BY <1>2, <1>t, SMT DEF Begins, OthersStay, Lines
  <2>3. \A u, v \in Threads :
          pc'[u] \in Publishing /\ pc'[v] \in Publishing /\ ev'[u] = ev'[v] => u = v
    BY <2>2 DEF Lines
  <2>4. \A i \in 1..Len(log) : log[i] \in 1..issued' /\ log[i] # ev'[t]
    BY <1>2, <1>t, SMT DEF Begins, Lines
  <2>5. \A i \in 1..Len(log) : \A u \in Threads : pc'[u] \in Publishing => log[i] # ev'[u]
    BY <2>2, <2>4 DEF Lines
  <2> QED BY <1>2, <2>1, <2>3, <2>4, <2>5 DEF Lines, Begins
<1>3. ASSUME NEW t \in Threads, Drops(t) PROVE Lines'
  <2>1. \A u \in Threads : pc'[u] \in Publishing => u # t /\ pc[u] \in Publishing /\ ev'[u] = ev[u]
    BY <1>3 DEF Drops, OthersStay
  <2> QED BY <1>3, <1>t, <2>1, SMT DEF Lines, Drops
<1>4. ASSUME NEW t \in Threads, Posts(t) PROVE Lines'
  <2>1. \A u \in Threads : pc'[u] \in Publishing => u # t /\ pc[u] \in Publishing /\ ev'[u] = ev[u]
    BY <1>4 DEF Posts, OthersStay
  <2>2. /\ Len(log') = Len(log) + 1 /\ log'[Len(log) + 1] = ev[t]
        /\ \A i \in 1..Len(log) : log'[i] = log[i]
    BY <1>4, <1>t, AppendProperties DEF Posts
  <2>3. \A i \in 1..Len(log') : i \in 1..Len(log) \/ i = Len(log) + 1
    BY <1>t, <2>2, SMT
  <2>4. issued' = issued /\ ev[t] \in 1..issued
    BY <1>4 DEF Posts, Lines
  <2>5. \A i \in 1..Len(log') :
          /\ log'[i] \in 1..issued'
          /\ \A u \in Threads : pc'[u] \in Publishing => log'[i] # ev'[u]
    BY <1>4, <2>1, <2>2, <2>3, <2>4 DEF Lines, Posts
  <2>6. \A u \in Threads : pc'[u] \in Publishing => ev'[u] \in 1..issued'
    BY <2>1, <2>4 DEF Lines
  <2>7. \A u, v \in Threads :
          pc'[u] \in Publishing /\ pc'[v] \in Publishing /\ ev'[u] = ev'[v] => u = v
    BY <2>1 DEF Lines
  <2> QED BY <2>5, <2>6, <2>7 DEF Lines
<1> QED BY <1>1, <1>2, <1>3, <1>4, MoveKinds

-----------------------------------------------------------------------------
(* What a step of the dispatcher does to the consumers.                    *)
Hollow == {"lock", "asleep", "done"}

QueuesStay ==
    /\ UNCHANGED <<subs, stop, from, upto, queue, pend, given, log>>
    /\ \A c \in Consumers :
          /\ pc'[c] = "new" <=> pc[c] = "new"
          /\ pc'[c] \in Hollow => pc[c] \in Hollow \/ pend[c] = <<>>
Gives(c) ==
    /\ Given(c)
    /\ UNCHANGED <<subs, stop, from, upto, queue, log>>
    /\ pc'[c] \notin Hollow \cup {"new"}
    /\ \A d \in Consumers \ {c} : pc'[d] = pc[d]

(* There is no other kind of step.                                         *)
LEMMA QueueKinds ==
  ASSUME BusTypeOK, [BusNext]_busVars
  PROVE  \/ QueuesStay
         \/ \E c \in Consumers : Subscribe(c) \/ Unsubscribe(c) \/ Swap(c) \/ Gives(c)
         \/ \E t \in Threads : Broadcast(t)
<1>t. /\ Consumers \subseteq Threads /\ Publishers \subseteq Threads
      /\ pc \in [Threads -> Places]
  BY SMT DEF Threads, BusTypeOK, Places
<1>1. ASSUME NEW t \in Threads, NEW spot, pc' = [pc EXCEPT ![t] = spot], spot # "new",
             t \in Consumers => pc[t] # "new",
             t \in Consumers /\ spot \in Hollow => pc[t] \in Hollow \/ pend[t] = <<>>,
             UNCHANGED <<subs, stop, from, upto, queue, pend, given, log>>
      PROVE  QueuesStay
  <2>1. \A c \in Consumers : pc'[c] = IF c = t THEN spot ELSE pc[c]
    BY <1>t, <1>1, SMT
  <2> QED BY <1>1, <2>1 DEF QueuesStay
<1>2. ASSUME NEW c \in Consumers, ListenEnds(c) \/ ListenSleeps(c) PROVE QueuesStay
  <2>1. /\ pc' = [pc EXCEPT ![c] = "done"] \/ pc' = [pc EXCEPT ![c] = "asleep"]
        /\ pc[c] = "lock"
        /\ UNCHANGED <<subs, stop, from, upto, queue, pend, given, log>>
    BY <1>2 DEF ListenEnds, ListenSleeps
  <2> QED BY <1>1, <1>t, <2>1 DEF Hollow
<1>3. ASSUME NEW c \in Consumers, Notify(c) PROVE QueuesStay
  <2>1. [pc EXCEPT ![c] = "lock"] \in [Threads -> Places]
    BY <1>t, SMT DEF Places, PublisherAt, ConsumerAt
  <2>2. \A d \in Consumers : [pc EXCEPT ![c] = "lock"][d] = IF d = c THEN "lock" ELSE pc[d]
    BY <1>t, SMT
  <2>3. /\ pc' = Awake([pc EXCEPT ![c] = "lock"]) /\ pc[c] = "handle" /\ pend[c] = <<>>
        /\ UNCHANGED <<subs, stop, from, upto, queue, pend, given, log>>
    BY <1>3 DEF Notify
  <2>4. \A d \in Consumers :
          /\ pc'[d] = "new" <=> [pc EXCEPT ![c] = "lock"][d] = "new"
          /\ pc'[d] \in Hollow <=> [pc EXCEPT ![c] = "lock"][d] \in Hollow
    BY <1>t, <2>1, <2>3, AwakeMoves DEF Hollow
  <2>5. \A d \in Consumers : pc'[d] = "new" <=> pc[d] = "new"
    <3> TAKE d \in Consumers
    <3>1. CASE d = c
      <4>1. [pc EXCEPT ![c] = "lock"][c] = "lock" BY <2>2
      <4>2. pc'[c] # "new" BY <2>4, <4>1
      <4>3. pc[c] # "new" BY <2>3
      <4> QED BY <3>1, <4>2, <4>3
    <3>2. CASE d # c
      <4>1. [pc EXCEPT ![c] = "lock"][d] = pc[d] BY <2>2, <3>2
      <4> QED BY <2>4, <4>1
    <3> QED BY <3>1, <3>2
  <2>6. \A d \in Consumers : pc'[d] \in Hollow => pc[d] \in Hollow \/ pend[d] = <<>>
    BY <2>2, <2>3, <2>4
  <2> QED BY <2>3, <2>5, <2>6 DEF QueuesStay
<1>4. ASSUME NEW t \in Threads, Find(t) \/ WaitForRoom(t) PROVE QueuesStay
  <2>1. /\ \E spot \in {"offer", "full", Resume(t)} : pc' = [pc EXCEPT ![t] = spot]
        /\ pc[t] \in {"find", "offer"}
        /\ UNCHANGED <<subs, stop, from, upto, queue, pend, given, log>>
    BY <1>4 DEF Find, WaitForRoom
  <2>2. Resume(t) \in {"idle", "handle"}
    BY DEF Resume
  <2> QED BY <1>1, <2>1, <2>2 DEF Hollow
<1>5. ASSUME NEW c \in Consumers, Handle(c) PROVE Gives(c)
  BY <1>5 DEF Handle, Given, Gives, Hollow
<1>6. ASSUME NEW c \in Consumers, HandleAndTalk(c) PROVE Gives(c)
  <2>1. /\ pc' = [pc EXCEPT ![c] = "find"] /\ Given(c)
        /\ UNCHANGED <<subs, stop, from, upto, queue, log>>
    BY <1>6 DEF HandleAndTalk, Begin
  <2> QED BY <1>t, <2>1, SMT DEF Gives, Hollow
<1>7. ASSUME NEW p \in Publishers, Publish(p) PROVE QueuesStay
  <2>1. /\ pc' = [pc EXCEPT ![p] = "find"]
        /\ UNCHANGED <<subs, stop, from, upto, queue, pend, given, log>>
    BY <1>7 DEF Publish, Begin
  <2> QED BY <1>1, <1>t, <2>1
<1>8. CASE UNCHANGED busVars
  BY <1>8 DEF busVars, QueuesStay
<1>9. ASSUME NEW c \in Consumers, Listen(c) PROVE QueuesStay \/ Swap(c)
  BY <1>2, <1>3, <1>9 DEF Listen
<1>10. ASSUME NEW t \in Threads, Offer(t) PROVE QueuesStay \/ Broadcast(t)
  BY <1>4, <1>10 DEF Offer
<1> QED BY <1>5, <1>6, <1>7, <1>8, <1>9, <1>10 DEF BusNext

(* Subscriptions and the stop flags.                                       *)
LEMMA StandingsKept ==
  ASSUME BusTypeOK, Standings, [BusNext]_busVars
  PROVE  Standings'
<1>t. /\ Consumers \subseteq Threads /\ pc \in [Threads -> Places]
      /\ stop \in [Consumers -> BOOLEAN] /\ subs \subseteq Consumers
  BY SMT DEF Threads, BusTypeOK, Places
<1>1. CASE QueuesStay
  BY <1>1 DEF QueuesStay, Standings
<1>2. ASSUME NEW c \in Consumers, Subscribe(c) PROVE Standings'
  <2>1. /\ pc[c] = "new" /\ subs' = subs \cup {c} /\ UNCHANGED stop
        /\ pc' = [pc EXCEPT ![c] = "lock"]
    BY <1>2 DEF Subscribe
  <2>2. \A d \in Consumers : pc'[d] = IF d = c THEN "lock" ELSE pc[d]
    BY <1>t, <2>1, SMT
  <2>3. c \notin subs /\ (pc[c] = "new" => ~stop[c])
    <3>1. c \notin subs
      BY <2>1 DEF Standings
    <3> QED BY <3>1, <2>1 DEF Standings
  <2> QED BY <2>1, <2>2, <2>3 DEF Standings
<1>3. ASSUME NEW c \in Consumers, Unsubscribe(c) PROVE Standings'
  <2>1. /\ c \in subs /\ subs' = subs \ {c} /\ stop' = [stop EXCEPT ![c] = TRUE] /\ UNCHANGED pc
    BY <1>3 DEF Unsubscribe
  <2>2. stop'[c] /\ \A d \in Consumers \ {c} : stop'[d] = stop[d]
    BY <1>t, <2>1
  <2> QED BY <2>1, <2>2 DEF Standings
<1>4. ASSUME NEW c \in Consumers, Swap(c) PROVE Standings'
  <2>1. pc[c] = "lock" /\ pc' = [pc EXCEPT ![c] = "handle"] /\ UNCHANGED <<subs, stop>>
    BY <1>4 DEF Swap
  <2>2. \A d \in Consumers : pc'[d] = "new" <=> pc[d] = "new"
    BY <1>t, <2>1, SMT
  <2> QED BY <2>1, <2>2 DEF Standings
<1>5. ASSUME NEW c \in Consumers, Gives(c) PROVE Standings'
  BY <1>5 DEF Gives, Given, Standings
<1>6. ASSUME NEW t \in Threads, Broadcast(t) PROVE Standings'
  <2>1. /\ pc[t] = "offer" /\ pc' = Awake([pc EXCEPT ![t] = Resume(t)]) /\ UNCHANGED <<subs, stop>>
    BY <1>6 DEF Broadcast
  <2>2. [pc EXCEPT ![t] = Resume(t)] \in [Threads -> Places] /\ Resume(t) # "new"
    BY <1>t, SMT DEF Resume, Places, PublisherAt, ConsumerAt
  <2>3. \A d \in Consumers : [pc EXCEPT ![t] = Resume(t)][d] = "new" <=> pc[d] = "new"
    BY <1>t, <2>1, <2>2, SMT
  <2>4. \A d \in Consumers : pc'[d] = "new" <=> pc[d] = "new"
    BY <1>t, <2>1, <2>2, <2>3, AwakeMoves
  <2> QED BY <2>1, <2>4 DEF Standings
<1> QED BY <1>1, <1>2, <1>3, <1>4, <1>5, <1>6, QueueKinds

-----------------------------------------------------------------------------
(* The types of the sequences of a consumer, for citing.                   *)
LEMMA SequenceTypes ==
  ASSUME BusTypeOK, NEW c \in Consumers
  PROVE  /\ queue[c] \in Seq(Nat) /\ pend[c] \in Seq(Nat) /\ given[c] \in Seq(Nat) /\ log \in Seq(Nat)
         /\ Len(queue[c]) \in Nat /\ Len(pend[c]) \in Nat /\ Len(given[c]) \in Nat /\ Len(log) \in Nat
         /\ from[c] \in Nat /\ upto[c] \in Nat
<1>1. queue[c] \in Seq(Nat) /\ pend[c] \in Seq(Nat) /\ given[c] \in Seq(Nat) /\ log \in Seq(Nat)
  BY DEF BusTypeOK
<1>2. from[c] \in Nat /\ upto[c] \in Nat
  BY DEF BusTypeOK
<1> QED BY <1>1, <1>2, LenProperties

(* A consumer never gets ahead of the log.                                 *)
LEMMA WithinTheLog ==
  ASSUME BusTypeOK, Standings, Lengths, NEW c \in Consumers
  PROVE  \/ queue[c] = <<>> /\ pend[c] = <<>> /\ given[c] = <<>>
         \/ from[c] + Len(given[c]) + Len(pend[c]) + Len(queue[c]) <= Len(log)
<1>1. CASE c \in subs
  BY <1>1, SequenceTypes DEF Lengths
<1>2. CASE stop[c]
  BY <1>2, SequenceTypes DEF Lengths
<1>3. CASE c \notin subs /\ ~stop[c]
  BY <1>3 DEF Standings, Lengths
<1> QED BY <1>1, <1>2, <1>3

(* The event a handler is called with is the next one of the log.          *)
LEMMA GivesTheNext ==
  ASSUME BusTypeOK, Standings, Lengths, Contents, NEW c \in Consumers, Given(c)
  PROVE  /\ Len(given'[c]) = Len(given[c]) + 1
         /\ Len(pend'[c]) + 1 = Len(pend[c])
         /\ given'[c] = Append(given[c], log[from[c] + Len(given[c]) + 1])
         /\ \A i \in 1..Len(given[c]) : given'[c][i] = given[c][i]
         /\ given'[c][Len(given[c]) + 1] = log[from[c] + Len(given[c]) + 1]
         /\ \A i \in 1..Len(pend'[c]) : pend'[c][i] = pend[c][i + 1]
         /\ \A d \in Consumers \ {c} : given'[d] = given[d] /\ pend'[d] = pend[d]
         /\ from[c] + Len(given[c]) + 1 <= Len(log)
<1>1. /\ pend[c] # <<>>
      /\ given' = [given EXCEPT ![c] = Append(given[c], Head(pend[c]))]
      /\ pend' = [pend EXCEPT ![c] = Tail(pend[c])]
  BY DEF Given
<1>2. given \in [Consumers -> Seq(Nat)] /\ pend \in [Consumers -> Seq(Nat)]
  BY DEF BusTypeOK
<1>3. /\ given'[c] = Append(given[c], Head(pend[c])) /\ pend'[c] = Tail(pend[c])
      /\ \A d \in Consumers \ {c} : given'[d] = given[d] /\ pend'[d] = pend[d]
  BY <1>1, <1>2
<1>4. /\ Head(pend[c]) \in Nat /\ Tail(pend[c]) \in Seq(Nat)
      /\ Len(Tail(pend[c])) = Len(pend[c]) - 1
      /\ \A i \in 1..Len(Tail(pend[c])) : Tail(pend[c])[i] = pend[c][i + 1]
  BY <1>1, SequenceTypes, HeadTailProperties
<1>5. Len(pend[c]) >= 1 /\ Head(pend[c]) = pend[c][1]
  BY <1>1, <1>4, SequenceTypes, LenProperties
<1>6. Head(pend[c]) = log[from[c] + Len(given[c]) + 1]
  BY <1>5, SequenceTypes DEF Contents
<1>7. /\ Len(Append(given[c], Head(pend[c]))) = Len(given[c]) + 1
      /\ \A i \in 1..Len(given[c]) : Append(given[c], Head(pend[c]))[i] = given[c][i]
      /\ Append(given[c], Head(pend[c]))[Len(given[c]) + 1] = Head(pend[c])
  BY <1>4, SequenceTypes, AppendProperties
<1>8. Len(pend'[c]) + 1 = Len(pend[c])
  BY <1>3, <1>4, SequenceTypes
<1>9. from[c] + Len(given[c]) + 1 <= Len(log)
  <2>1. from[c] + Len(given[c]) + Len(pend[c]) + Len(queue[c]) <= Len(log)
    BY <1>1, WithinTheLog
  <2>2. /\ Len(queue[c]) \in Nat /\ Len(pend[c]) \in Nat /\ Len(given[c]) \in Nat
        /\ Len(log) \in Nat /\ from[c] \in Nat
    BY SequenceTypes
  <2> QED BY <1>5, <2>1, <2>2
<1> QED BY <1>3, <1>4, <1>6, <1>7, <1>8, <1>9

(* Broadcast puts the event at the end of the log and of every queue.      *)
LEMMA BroadcastAppends ==
  ASSUME BusTypeOK, NEW t \in Threads, Broadcast(t), NEW c \in Consumers
  PROVE  /\ Len(log') = Len(log) + 1
         /\ \A i \in 1..Len(log) : log'[i] = log[i]
         /\ c \notin subs => queue'[c] = queue[c]
         /\ c \in subs =>
               /\ Len(queue[c]) < MaxQueue
               /\ Len(queue'[c]) = Len(queue[c]) + 1
               /\ \A i \in 1..Len(queue[c]) : queue'[c][i] = queue[c][i]
               /\ queue'[c][Len(queue[c]) + 1] = log'[Len(log) + 1]
<1>1. ev[t] \in Nat
  BY DEF BusTypeOK
<1>2. log' = Append(log, ev[t]) /\ ~SomeQueueIsFull
  BY DEF Broadcast
<1>3. queue'[c] = IF c \in subs THEN Append(queue[c], ev[t]) ELSE queue[c]
  BY DEF Broadcast
<1>4. /\ Len(log') = Len(log) + 1 /\ log'[Len(log) + 1] = ev[t]
      /\ \A i \in 1..Len(log) : log'[i] = log[i]
  BY <1>1, <1>2, SequenceTypes, AppendProperties
<1>5. /\ Len(Append(queue[c], ev[t])) = Len(queue[c]) + 1
      /\ Append(queue[c], ev[t])[Len(queue[c]) + 1] = ev[t]
      /\ \A i \in 1..Len(queue[c]) : Append(queue[c], ev[t])[i] = queue[c][i]
  BY <1>1, SequenceTypes, AppendProperties
<1>6. c \in subs => Len(queue[c]) < MaxQueue
  BY <1>2, SequenceTypes, SMT DEF SomeQueueIsFull
<1> QED BY <1>3, <1>4, <1>5, <1>6

(* The lengths add up after every step.                                    *)
LEMMA LengthsKept ==
  ASSUME BusTypeOK, BusTypeOK', Standings, Standings', Lengths, Contents, [BusNext]_busVars
  PROVE  Lengths'
<1>t. /\ Consumers \subseteq Threads /\ pc \in [Threads -> Places]
      /\ stop \in [Consumers -> BOOLEAN] /\ subs \subseteq Consumers
      /\ from \in [Consumers -> Nat] /\ upto \in [Consumers -> Nat]
      /\ queue \in [Consumers -> Seq(Nat)] /\ pend \in [Consumers -> Seq(Nat)]
      /\ Len(<< >>) = 0
  BY SMT DEF Threads, BusTypeOK, Places
<1>1. CASE QueuesStay
  BY <1>1 DEF QueuesStay, Lengths, Hollow
<1>2. ASSUME NEW c \in Consumers, Subscribe(c) PROVE Lengths'
  <2>1. /\ pc[c] = "new" /\ subs' = subs \cup {c} /\ pc' = [pc EXCEPT ![c] = "lock"]
        /\ from' = [from EXCEPT ![c] = Len(log)] /\ UNCHANGED <<stop, queue, pend, given, log, upto>>
    BY <1>2 DEF Subscribe
  <2>2. \A d \in Consumers \ {c} : pc'[d] = pc[d] /\ from'[d] = from[d]
    BY <1>t, <2>1
  <2>3. pc'[c] = "lock" /\ from'[c] = Len(log)
    BY <1>t, <2>1
  <2>4. queue[c] = <<>> /\ pend[c] = <<>> /\ given[c] = <<>> /\ ~stop[c]
    BY <2>1 DEF Lengths, Standings
  <2>5. from'[c] + Len(given[c]) + Len(pend[c]) + Len(queue[c]) = Len(log)
    BY <1>t, <2>3, <2>4, SequenceTypes
  <2> QED BY <2>1, <2>2, <2>3, <2>4, <2>5 DEF Lengths
<1>3. ASSUME NEW c \in Consumers, Unsubscribe(c) PROVE Lengths'
  <2>1. /\ c \in subs /\ subs' = subs \ {c} /\ stop' = [stop EXCEPT ![c] = TRUE]
        /\ upto' = [upto EXCEPT ![c] = Len(log)] /\ UNCHANGED <<pc, queue, pend, given, log, from>>
    BY <1>3 DEF Unsubscribe
  <2>2. stop'[c] /\ upto'[c] = Len(log) /\ \A d \in Consumers \ {c} : stop'[d] = stop[d] /\ upto'[d] = upto[d]
    BY <1>t, <2>1
  <2>3. Len(log) <= Len(log)
    BY SequenceTypes
  <2> QED BY <2>1, <2>2, <2>3 DEF Lengths
<1>4. ASSUME NEW c \in Consumers, Swap(c) PROVE Lengths'
  <2>1. /\ pc[c] = "lock" /\ pc' = [pc EXCEPT ![c] = "handle"]
        /\ pend' = [pend EXCEPT ![c] = queue[c]] /\ queue' = [queue EXCEPT ![c] = <<>>]
        /\ UNCHANGED <<subs, stop, given, log, from, upto>>
    BY <1>4 DEF Swap
  <2>2. /\ pc'[c] = "handle" /\ pend'[c] = queue[c] /\ queue'[c] = <<>>
        /\ \A d \in Consumers \ {c} : pc'[d] = pc[d] /\ pend'[d] = pend[d] /\ queue'[d] = queue[d]
    BY <1>t, <2>1
  <2>3. pend[c] = <<>>
    BY <2>1 DEF Lengths
  <2>4. from[c] + Len(given[c]) + Len(pend'[c]) + Len(queue'[c])
          = from[c] + Len(given[c]) + Len(pend[c]) + Len(queue[c])
    BY <1>t, <2>2, <2>3, SequenceTypes
  <2>5. Len(queue'[c]) <= MaxQueue
    BY <1>t, <2>2
  <2> QED BY <2>1, <2>2, <2>4, <2>5 DEF Lengths
<1>5. ASSUME NEW c \in Consumers, Gives(c) PROVE Lengths'
  <2>1. /\ Given(c) /\ UNCHANGED <<subs, stop, from, upto, queue, log>>
        /\ pc'[c] \notin Hollow \cup {"new"}
        /\ \A d \in Consumers \ {c} : pc'[d] = pc[d]
    BY <1>5 DEF Gives
  <2>2. /\ \A d \in Consumers \ {c} : given'[d] = given[d] /\ pend'[d] = pend[d]
        /\ Len(given'[c]) = Len(given[c]) + 1 /\ Len(pend'[c]) + 1 = Len(pend[c])
    BY <2>1, GivesTheNext
  <2>3. Len(given'[c]) + Len(pend'[c]) = Len(given[c]) + Len(pend[c]) /\ Len(pend'[c]) \in Nat
    <3>1. Len(pend'[c]) \in Nat
      BY LenProperties DEF BusTypeOK
    <3>2. Len(pend[c]) \in Nat /\ Len(given[c]) \in Nat
      BY SequenceTypes
    <3>3. Len(given'[c]) \in Nat
      BY LenProperties DEF BusTypeOK
    <3> DEFINE g == Len(given[c])  p == Len(pend[c])  h == Len(given'[c])  r == Len(pend'[c])
    <3>4. g \in Nat /\ p \in Nat /\ h \in Nat /\ r \in Nat /\ h = g + 1 /\ r + 1 = p
      BY <2>2, <3>1, <3>2, <3>3
    <3> HIDE DEF g, p, h, r
    <3>5. h + r = g + p /\ r \in Nat
      BY <3>4
    <3> QED BY <3>5 DEF g, p, h, r
  <2>4. from[c] + Len(given'[c]) + Len(pend'[c]) + Len(queue[c])
          = from[c] + Len(given[c]) + Len(pend[c]) + Len(queue[c])
    <3>1. /\ Len(pend[c]) \in Nat /\ Len(given[c]) \in Nat /\ Len(queue[c]) \in Nat
          /\ from[c] \in Nat
      BY SequenceTypes
    <3> QED BY <2>2, <2>3, <3>1
  <2>5. ASSUME NEW d \in Consumers
        PROVE  /\ pc'[d] = "new" => queue'[d] = <<>> /\ pend'[d] = <<>> /\ given'[d] = <<>>
               /\ pc'[d] \in {"lock", "asleep", "done"} => pend'[d] = <<>>
               /\ d \in subs' => from'[d] + Len(given'[d]) + Len(pend'[d]) + Len(queue'[d]) = Len(log')
               /\ stop'[d] =>
                     /\ from'[d] + Len(given'[d]) + Len(pend'[d]) + Len(queue'[d]) = upto'[d]
                     /\ upto'[d] <= Len(log')
               /\ Len(queue'[d]) <= MaxQueue
    <3>1. CASE d = c
      BY <2>1, <2>4, <3>1 DEF Lengths, Hollow
    <3>2. CASE d # c
      BY <2>1, <2>2, <3>2 DEF Lengths
    <3> QED BY <3>1, <3>2
  <2> QED BY <2>5 DEF Lengths
<1>6. ASSUME NEW t \in Threads, Broadcast(t) PROVE Lengths'
  <2>1. /\ pc[t] = "offer" /\ pc' = Awake([pc EXCEPT ![t] = Resume(t)])
        /\ UNCHANGED <<subs, stop, pend, given, from, upto>>
    BY <1>6 DEF Broadcast
  <2>2. [pc EXCEPT ![t] = Resume(t)] \in [Threads -> Places] /\ Resume(t) \notin Hollow \cup {"new"}
    BY <1>t, SMT DEF Resume, Places, PublisherAt, ConsumerAt, Hollow
  <2>3. \A d \in Consumers : [pc EXCEPT ![t] = Resume(t)][d] = IF d = t THEN Resume(t) ELSE pc[d]
    BY <1>t, SMT
  <2>4. \A d \in Consumers :
          /\ pc'[d] = "new" => pc[d] = "new"
          /\ pc'[d] \in {"lock", "asleep", "done"} => pc[d] \in {"lock", "asleep", "done"}
    BY <1>t, <2>1, <2>2, <2>3, AwakeMoves DEF Hollow
  <2>5. ASSUME NEW d \in Consumers
        PROVE  /\ pc'[d] = "new" => queue'[d] = <<>> /\ pend'[d] = <<>> /\ given'[d] = <<>>
               /\ pc'[d] \in {"lock", "asleep", "done"} => pend'[d] = <<>>
               /\ d \in subs' => from'[d] + Len(given'[d]) + Len(pend'[d]) + Len(queue'[d]) = Len(log')
               /\ stop'[d] =>
                     /\ from'[d] + Len(given'[d]) + Len(pend'[d]) + Len(queue'[d]) = upto'[d]
                     /\ upto'[d] <= Len(log')
               /\ Len(queue'[d]) <= MaxQueue
    <3>1. CASE d \in subs
      <4>1. ~stop'[d] /\ pc[d] # "new"
        BY <2>1, <3>1 DEF Standings
      <4>2. /\ Len(queue[d]) < MaxQueue /\ Len(queue'[d]) = Len(queue[d]) + 1
            /\ Len(log') = Len(log) + 1
        BY <1>6, <3>1, BroadcastAppends
      <4>3. from[d] + Len(given[d]) + Len(pend[d]) + Len(queue'[d]) = Len(log')
        <5>1. from[d] + Len(given[d]) + Len(pend[d]) + Len(queue[d]) = Len(log)
          BY <3>1 DEF Lengths
        <5>2. /\ Len(queue[d]) \in Nat /\ Len(pend[d]) \in Nat /\ Len(given[d]) \in Nat
              /\ Len(log) \in Nat /\ from[d] \in Nat
          BY SequenceTypes
        <5>3. Len(queue'[d]) \in Nat /\ Len(log') \in Nat
          BY LenProperties DEF BusTypeOK
        <5> DEFINE f == from[d]  g == Len(given[d])  p == Len(pend[d])
                   q == Len(queue[d])  r == Len(queue'[d])  n == Len(log)  m == Len(log')
        <5>4. /\ f \in Nat /\ g \in Nat /\ p \in Nat /\ q \in Nat /\ n \in Nat
              /\ f + g + p + q = n /\ r = q + 1 /\ m = n + 1
          BY <4>2, <5>1, <5>2
        <5> HIDE DEF f, g, p, q, r, n, m
        <5>5. f + g + p + r = m
          BY <5>4
        <5> QED BY <5>5 DEF f, g, p, r, m
      <4>4. Len(queue'[d]) <= MaxQueue
        BY <4>2, SequenceTypes
      <4> QED BY <2>1, <2>4, <4>1, <4>3, <4>4 DEF Lengths
    <3>2. CASE d \notin subs
      <4>1. queue'[d] = queue[d] /\ Len(log') = Len(log) + 1
        BY <1>6, <3>2, BroadcastAppends
      <4>2. stop[d] => upto[d] <= Len(log')
        BY <4>1, SequenceTypes DEF Lengths
      <4> QED BY <2>1, <2>4, <3>2, <4>1, <4>2 DEF Lengths
    <3> QED BY <3>1, <3>2
  <2> QED BY <2>5 DEF Lengths
<1> QED BY <1>1, <1>2, <1>3, <1>4, <1>5, <1>6, QueueKinds

(* Contents, for one consumer.                                             *)
Content(c) ==
    /\ \A i \in 1..Len(given[c]) : given[c][i] = log[from[c] + i]
    /\ \A i \in 1..Len(pend[c]) : pend[c][i] = log[from[c] + Len(given[c]) + i]
    /\ \A i \in 1..Len(queue[c]) :
          queue[c][i] = log[from[c] + Len(given[c]) + Len(pend[c]) + i]

(* The sequences hold the right events after every step.                   *)
LEMMA ContentsKept ==
  ASSUME BusTypeOK, BusTypeOK', Standings, Lengths, Contents, [BusNext]_busVars
  PROVE  Contents'
<1>t. /\ from \in [Consumers -> Nat] /\ upto \in [Consumers -> Nat]
      /\ queue \in [Consumers -> Seq(Nat)] /\ pend \in [Consumers -> Seq(Nat)]
      /\ given \in [Consumers -> Seq(Nat)]
      /\ Len(<< >>) = 0
  BY SMT DEF BusTypeOK
<1>c. \A d \in Consumers : Content(d)
  BY DEF Contents, Content
<1>1. CASE QueuesStay
  BY <1>1 DEF QueuesStay, Contents
<1>2. ASSUME NEW c \in Consumers, Subscribe(c) PROVE Contents'
  <2>1. /\ pc[c] = "new" /\ from' = [from EXCEPT ![c] = Len(log)]
        /\ UNCHANGED <<queue, pend, given, log>>
    BY <1>2 DEF Subscribe
  <2>2. queue[c] = <<>> /\ pend[c] = <<>> /\ given[c] = <<>>
    BY <2>1 DEF Lengths
  <2>3. \A d \in Consumers \ {c} : from'[d] = from[d]
    BY <1>t, <2>1
  <2>4. Content(c)'
    BY <1>t, <2>1, <2>2, SMT DEF Content
  <2>5. \A d \in Consumers \ {c} : Content(d)'
    BY <1>c, <2>1, <2>3 DEF Content
  <2> QED BY <2>4, <2>5 DEF Contents, Content
<1>3. ASSUME NEW c \in Consumers, Unsubscribe(c) PROVE Contents'
  BY <1>3 DEF Unsubscribe, Contents
<1>4. ASSUME NEW c \in Consumers, Swap(c) PROVE Contents'
  <2>1. /\ pc[c] = "lock" /\ pend' = [pend EXCEPT ![c] = queue[c]]
        /\ queue' = [queue EXCEPT ![c] = <<>>] /\ UNCHANGED <<given, log, from>>
    BY <1>4 DEF Swap
  <2>2. /\ pend'[c] = queue[c] /\ queue'[c] = <<>>
        /\ \A d \in Consumers \ {c} : pend'[d] = pend[d] /\ queue'[d] = queue[d]
    BY <1>t, <2>1
  <2>3. pend[c] = <<>>
    BY <2>1 DEF Lengths
  <2>4. from[c] + Len(given[c]) + Len(pend[c]) = from[c] + Len(given[c])
    BY <1>t, <2>3, SequenceTypes
  <2>5. \A i \in 1..Len(queue[c]) : queue[c][i] = log[from[c] + Len(given[c]) + i]
    BY <1>c, <2>4 DEF Content
  <2>6. Content(c)'
    BY <1>c, <1>t, <2>1, <2>2, <2>5, SMT DEF Content
  <2>7. \A d \in Consumers \ {c} : Content(d)'
    BY <1>c, <2>1, <2>2 DEF Content
  <2> QED BY <2>6, <2>7 DEF Contents, Content
<1>5. ASSUME NEW c \in Consumers, Gives(c) PROVE Contents'
  <2>1. Given(c) /\ UNCHANGED <<from, queue, log>>
    BY <1>5 DEF Gives
  <2>2. /\ Len(given'[c]) = Len(given[c]) + 1
        /\ Len(pend'[c]) + 1 = Len(pend[c])
        /\ \A i \in 1..Len(given[c]) : given'[c][i] = given[c][i]
        /\ given'[c][Len(given[c]) + 1] = log[from[c] + Len(given[c]) + 1]
        /\ \A i \in 1..Len(pend'[c]) : pend'[c][i] = pend[c][i + 1]
        /\ \A d \in Consumers \ {c} : given'[d] = given[d] /\ pend'[d] = pend[d]
    BY <2>1, GivesTheNext
  <2>3. /\ Len(pend[c]) \in Nat /\ Len(given[c]) \in Nat /\ from[c] \in Nat
        /\ Len(pend'[c]) \in Nat /\ Len(queue[c]) \in Nat
    <3>1. Len(pend'[c]) \in Nat
      BY LenProperties DEF BusTypeOK
    <3> QED BY <3>1, SequenceTypes
  <2>4. ASSUME NEW i \in 1..Len(given'[c]) PROVE given'[c][i] = log[from[c] + i]
    <3>1. CASE i = Len(given[c]) + 1
      <4>1. from[c] + Len(given[c]) + 1 = from[c] + i
        BY <2>3, <3>1
      <4> QED BY <2>2, <3>1, <4>1
    <3>2. CASE i \in 1..Len(given[c])
      BY <1>c, <2>2, <3>2 DEF Content
    <3> QED BY <2>2, <2>3, <3>1, <3>2
  <2>5. ASSUME NEW i \in 1..Len(pend'[c])
        PROVE  pend'[c][i] = log[from[c] + Len(given'[c]) + i]
    <3>1. i + 1 \in 1..Len(pend[c])
      BY <2>2, <2>3
    <3>2. pend[c][i + 1] = log[from[c] + Len(given[c]) + (i + 1)]
      BY <1>c, <3>1 DEF Content
    <3>3. from[c] + Len(given[c]) + (i + 1) = from[c] + Len(given'[c]) + i
      <4> DEFINE h == Len(given'[c])  g == Len(given[c])  f == from[c]
      <4>1. f \in Nat /\ g \in Nat /\ h = g + 1 /\ i \in Int
        BY <2>2, <2>3
      <4> HIDE DEF f, g, h
      <4>2. f + g + (i + 1) = f + h + i
        BY <4>1
      <4> QED BY <4>2 DEF f, g, h
    <3> QED BY <2>2, <3>2, <3>3
  <2>6. from[c] + Len(given'[c]) + Len(pend'[c]) = from[c] + Len(given[c]) + Len(pend[c])
    <3> DEFINE h == Len(given'[c])  g == Len(given[c])  f == from[c]
               p == Len(pend[c])  r == Len(pend'[c])
    <3>1. f \in Nat /\ g \in Nat /\ h = g + 1 /\ p \in Nat /\ r \in Nat /\ r + 1 = p
      BY <2>2, <2>3
    <3> HIDE DEF f, g, h, p, r
    <3>2. f + h + r = f + g + p
      BY <3>1
    <3> QED BY <3>2 DEF f, g, h, p, r
  <2>7. \A i \in 1..Len(queue'[c]) :
          queue'[c][i] = log[from[c] + Len(given'[c]) + Len(pend'[c]) + i]
    BY <1>c, <2>1, <2>6 DEF Content
  <2>8. Content(c)'
    BY <2>1, <2>4, <2>5, <2>7 DEF Content
  <2>9. \A d \in Consumers \ {c} : Content(d)'
    BY <1>c, <2>1, <2>2 DEF Content
  <2> QED BY <2>8, <2>9 DEF Contents, Content
<1>6. ASSUME NEW t \in Threads, Broadcast(t) PROVE Contents'
  <2>1. UNCHANGED <<pend, given, from>>
    BY <1>6 DEF Broadcast
  <2>2. ASSUME NEW d \in Consumers PROVE Content(d)'
    <3> DEFINE f == from[d]  g == Len(given[d])  p == Len(pend[d])  q == Len(queue[d])
               n == Len(log)
    <3>1. f \in Nat /\ g \in Nat /\ p \in Nat /\ q \in Nat /\ n \in Nat
      BY SequenceTypes
    <3>2. /\ \A i \in 1..n : log'[i] = log[i]
          /\ d \notin subs => queue'[d] = queue[d]
          /\ d \in subs =>
                /\ Len(queue'[d]) = q + 1
                /\ \A i \in 1..q : queue'[d][i] = queue[d][i]
                /\ queue'[d][q + 1] = log'[n + 1]
      BY <1>6, BroadcastAppends
    <3>3. (queue[d] = <<>> /\ pend[d] = <<>> /\ given[d] = <<>>) \/ f + g + p + q <= n
      BY WithinTheLog
    <3>4. \/ g = 0 /\ p = 0 /\ q = 0
          \/ f + g + p + q <= n
      BY <1>t, <3>3
    <3>5. d \in subs => f + g + p + q = n
      BY DEF Lengths
    <3>6. Content(d)
      BY <1>c
    <3> HIDE DEF f, g, p, q, n
    <3>7. /\ \A i \in 1..g : f + i \in 1..n
          /\ \A i \in 1..p : f + g + i \in 1..n
          /\ \A i \in 1..q : f + g + p + i \in 1..n
      BY <3>1, <3>4
    <3>8. /\ \A i \in 1..g : given[d][i] = log'[f + i]
          /\ \A i \in 1..p : pend[d][i] = log'[f + g + i]
          /\ \A i \in 1..q : queue[d][i] = log'[f + g + p + i]
      BY <3>2, <3>6, <3>7 DEF Content, f, g, p, q
    <3>9. CASE d \notin subs
      BY <2>1, <3>2, <3>8, <3>9 DEF Content, f, g, p, q
    <3>10. CASE d \in subs
      <4>1. ASSUME NEW i \in 1..q + 1 PROVE queue'[d][i] = log'[f + g + p + i]
        <5>1. CASE i \in 1..q
          BY <3>2, <3>8, <3>10, <5>1
        <5>2. CASE i = q + 1
          <6>1. f + g + p + i = n + 1
            BY <3>1, <3>5, <3>10, <5>2
          <6> QED BY <3>2, <3>10, <5>2, <6>1
        <5> QED BY <3>1, <5>1, <5>2
      <4> QED BY <2>1, <3>2, <3>8, <3>10, <4>1 DEF Content, f, g, p, q
    <3> QED BY <3>9, <3>10
  <2> QED BY <2>2 DEF Contents, Content
<1> QED BY <1>1, <1>2, <1>3, <1>4, <1>5, <1>6, QueueKinds

(* BusInv holds at the start and after every step.                         *)
LEMMA BusInvStart == BusInit => BusInv
<1> SUFFICES ASSUME BusInit PROVE BusInv OBVIOUS
<1>1. \A c \in Consumers : pc[c] = "new" /\ queue[c] = <<>> /\ pend[c] = <<>> /\ given[c] = <<>> /\ ~stop[c]
  BY SMT DEF BusInit, Threads
<1>2. \A t \in Threads : pc[t] \notin Publishing
  BY SMT DEF BusInit, Publishing
<1>3. subs = {} /\ log = <<>> /\ Len(<< >>) = 0 /\ 0 <= MaxQueue
  BY DEF BusInit
<1>4. Standings
  BY <1>1, <1>3 DEF Standings
<1>5. Lengths
  BY <1>1, <1>3 DEF Lengths
<1>6. Contents
  BY <1>1, <1>3 DEF Contents
<1>7. Lines
  BY <1>2, <1>3 DEF Lines
<1> QED BY <1>4, <1>5, <1>6, <1>7, BusTypesStart DEF BusInv

(* ... so that it is an invariant.                                         *)
LEMMA BusInvKept ==
  ASSUME BusInv, [BusNext]_busVars
  PROVE  BusInv'
<1> USE DEF BusInv
<1>1. BusTypeOK'
  BY BusTypesKept
<1>2. Standings'
  BY StandingsKept
<1> QED BY <1>1, <1>2, LengthsKept, ContentsKept, LinesKept

(* Dispatcher.tla: the types, the queues' bound and the bookkeeping of     *)
(* every consumer hold in every reachable state.                           *)
THEOREM BusInvariance == BusSpec => []BusInv
  BY BusInvStart, BusInvKept, PTL DEF BusSpec

-----------------------------------------------------------------------------
(* Each step of the dispatcher is one of EventLog.tla or changes nothing   *)
(* that module sees.                                                       *)
LEMMA StepOfTheLog ==
  ASSUME BusInv, [BusNext]_busVars
  PROVE  [EL!LogNext]_EL!logVars
<1> USE DEF BusInv
<1>t. /\ stop \in [Consumers -> BOOLEAN] /\ subs \subseteq Consumers
      /\ from \in [Consumers -> Nat] /\ upto \in [Consumers -> Nat]
  BY DEF BusTypeOK
<1> DEFINE mem == [c \in Consumers |-> Standing(c)]
<1>1. ASSUME UNCHANGED <<subs, stop>> PROVE mem' = mem
  BY <1>1 DEF Standing
<1>2. CASE QueuesStay
  <2>1. UNCHANGED <<subs, stop, log, from, upto, given>>
    BY <1>2 DEF QueuesStay
  <2> QED BY <1>1, <2>1 DEF EL!logVars
<1>3. ASSUME NEW c \in Consumers, Subscribe(c) PROVE EL!Enter(c)
  <2>1. /\ pc[c] = "new" /\ subs' = subs \cup {c} /\ UNCHANGED <<stop, log, upto, given>>
        /\ from' = [from EXCEPT ![c] = Len(log)]
    BY <1>3 DEF Subscribe
  <2>2. c \notin subs /\ ~stop[c]
    BY <2>1 DEF Standings
  <2>3. mem[c] = "never"
    BY <2>2 DEF Standing
  <2>4. \A d \in Consumers : Standing(d)' = IF d = c THEN "on" ELSE Standing(d)
    BY <2>1 DEF Standing
  <2>5. mem' = [mem EXCEPT ![c] = "on"]
    BY <2>4
  <2> QED BY <2>1, <2>3, <2>5 DEF EL!Enter
<1>4. ASSUME NEW c \in Consumers, Unsubscribe(c) PROVE EL!Quit(c)
  <2>1. /\ c \in subs /\ subs' = subs \ {c} /\ stop' = [stop EXCEPT ![c] = TRUE]
        /\ upto' = [upto EXCEPT ![c] = Len(log)] /\ UNCHANGED <<log, from, given>>
    BY <1>4 DEF Unsubscribe
  <2>2. stop'[c] /\ \A d \in Consumers \ {c} : stop'[d] = stop[d]
    BY <1>t, <2>1
  <2>3. \A d \in Consumers : Standing(d)' = IF d = c THEN "off" ELSE Standing(d)
    BY <2>1, <2>2 DEF Standing
  <2>4. mem' = [mem EXCEPT ![c] = "off"]
    BY <2>3
  <2>5. mem[c] = "on"
    BY <2>1 DEF Standing
  <2> QED BY <2>1, <2>4, <2>5 DEF EL!Quit
<1>5. ASSUME NEW c \in Consumers, Swap(c) PROVE UNCHANGED EL!logVars
  <2>1. UNCHANGED <<subs, stop, log, from, upto, given>>
    BY <1>5 DEF Swap
  <2> QED BY <1>1, <2>1 DEF EL!logVars
<1>6. ASSUME NEW c \in Consumers, Gives(c) PROVE EL!Deliver(c)
  <2>1. /\ Given(c) /\ UNCHANGED <<subs, stop, from, upto, queue, log>>
        /\ pc[c] = "handle"
    BY <1>6 DEF Gives, Given
  <2>2. given' = [given EXCEPT ![c] = Append(given[c], log[from[c] + Len(given[c]) + 1])]
    <3>1. given' = [given EXCEPT ![c] = Append(given[c], Head(pend[c]))]
      BY <2>1 DEF Given
    <3>2. given \in [Consumers -> Seq(Nat)]
      BY DEF BusTypeOK
    <3>3. Append(given[c], Head(pend[c])) = given'[c]
      BY <3>1, <3>2
    <3> QED BY <2>1, <3>1, <3>3, GivesTheNext
  <2>3. c \in subs \/ stop[c]
    BY <2>1 DEF Standings
  <2>4. mem[c] = (IF c \in subs THEN "on" ELSE "off")
    BY <2>3 DEF Standing
  <2>5. from[c] + Len(given[c]) + 1 <= (IF mem[c] = "off" THEN upto[c] ELSE Len(log))
    <3>1. CASE c \in subs
      BY <2>1, <2>4, <3>1, GivesTheNext
    <3>2. CASE c \notin subs
      <4>1. from[c] + Len(given[c]) + Len(pend[c]) + Len(queue[c]) = upto[c]
        BY <2>3, <3>2 DEF Lengths
      <4>2. Len(pend[c]) >= 1
        <5>1. pend[c] # <<>>
          BY <2>1 DEF Given
        <5> QED BY <5>1, SequenceTypes, EmptySeq
      <4> DEFINE f == from[c]  g == Len(given[c])  p == Len(pend[c])  q == Len(queue[c])
      <4>3. f \in Nat /\ g \in Nat /\ p \in Nat /\ q \in Nat /\ p >= 1 /\ f + g + p + q = upto[c]
        BY <4>1, <4>2, SequenceTypes
      <4> HIDE DEF f, g, p, q
      <4>4. f + g + 1 <= upto[c]
        BY <4>3
      <4> QED BY <2>4, <3>2, <4>4 DEF f, g
    <3> QED BY <3>1, <3>2
  <2>6. mem' = mem
    BY <1>1, <2>1
  <2>7. mem[c] # "never"
    BY <2>4
  <2> QED BY <2>1, <2>2, <2>5, <2>6, <2>7 DEF EL!Deliver, EL!Reach
<1>7. ASSUME NEW t \in Threads, Broadcast(t) PROVE EL!Post(ev[t]) /\ ev[t] \in 1..MaxEvents
  <2>1. /\ pc[t] = "offer" /\ log' = Append(log, ev[t])
        /\ UNCHANGED <<subs, stop, from, upto, given>>
    BY <1>7 DEF Broadcast
  <2>2. ev[t] \in 1..issued /\ issued \in 0..MaxEvents
    BY <2>1 DEF Lines, Publishing, BusTypeOK
  <2>3. ev[t] \in 1..MaxEvents
    BY <2>2, SMT
  <2> QED BY <1>1, <2>1, <2>3 DEF EL!Post
<1> QED BY <1>2, <1>3, <1>4, <1>5, <1>6, <1>7, QueueKinds DEF EL!LogNext

(* ... and it starts like EventLog.tla.                                    *)
LEMMA StartOfTheLog == BusInit => EL!LogInit
<1> SUFFICES ASSUME BusInit PROVE EL!LogInit OBVIOUS
<1>1. \A c \in Consumers : Standing(c) = "never"
  BY DEF BusInit, Standing
<1> QED BY <1>1 DEF BusInit, EL!LogInit

(* The dispatcher (Publish, SubscribeTo, Listen, Broadcast and Del) hands  *)
(* every consumer what was published between its subscription and its      *)
(* cancel, in order and once.                                              *)
THEOREM DispatcherImplementsEventLog == BusSpec => ImplementsEventLog
<1>1. BusInv /\ [BusNext]_busVars => [EL!LogNext]_EL!logVars
  BY StepOfTheLog
<1> QED BY <1>1, StartOfTheLog, BusInvariance, PTL DEF BusSpec, ImplementsEventLog, EL!LogSpec

-----------------------------------------------------------------------------
(* LogMonitor.tla.                                                         *)

(* A client is subscribed from the step at which its handler says so.      *)
Presence ==
    \A c \in Consumers :
        /\ at[c] \in {"away", "asked"} <=> pc[c] = "new"
        /\ at[c] = "asked" => c \in Streams

(* The registry has the group of whoever is subscribed.                    *)
Known == \A c \in Consumers : at[c] \in {"subscribed", "open"} => registered

ClientInv ==
    /\ at \in [Consumers -> ClientAt]
    /\ Presence
    /\ Known

(* A step of the monitor and its clients is one of the dispatcher.         *)
LEMMA StepOfTheBus ==
  ASSUME [Next]_vars
  PROVE  [BusNext]_busVars
<1>1. ASSUME NEW w \in Writers, Write(w) PROVE BusNext
  BY <1>1 DEF Writers, Write, BusNext
<1>2. ASSUME NEW c \in Consumers,
             StreamHistory(c) \/ StreamSkipsHistory(c) \/ Take(c) \/ Disconnect(c)
      PROVE  UNCHANGED busVars
  BY <1>2 DEF StreamHistory, StreamSkipsHistory, Take, Disconnect
<1>3. ASSUME NEW c \in Consumers, StreamSubscribes(c) \/ EventsSubscribes(c) PROVE BusNext
  BY <1>3 DEF StreamSubscribes, EventsSubscribes, BusNext
<1>4. ASSUME NEW c \in Consumers, StreamHandles(c) \/ EventsHandles(c) PROVE BusNext
  BY <1>4 DEF StreamHandles, EventsHandles, BusNext
<1>5. ASSUME NEW c \in Talkers, EventsSendsHistory(c) PROVE BusNext \/ UNCHANGED busVars
  <2>1. Conn[c] \in Publishers
    BY ConnAssumption
  <2> QED BY <1>5, <2>1 DEF EventsSendsHistory, BusNext
<1>6. ASSUME NEW c \in Consumers, Leave(c) PROVE BusNext
  BY <1>6 DEF Leave, BusNext
<1>7. ASSUME NEW t \in Threads, Dispatch(t) PROVE BusNext
  BY <1>7 DEF Dispatch, BusNext
<1>8. CASE UNCHANGED vars
  BY <1>8 DEF vars
<1> QED BY <1>1, <1>2, <1>3, <1>4, <1>5, <1>6, <1>7, <1>8 DEF Next, Streams

(* What a step does to the handler of a client. Standing by, it may write  *)
(* and publish lines; the history is read while the log stands still.      *)
StandsBy ==
    /\ UNCHANGED <<at, told, from>>
    /\ \A c \in Consumers : pc'[c] = "new" <=> pc[c] = "new"
Reads(c) ==
    /\ \/ c \in Streams /\ at[c] = "away" /\ at' = [at EXCEPT ![c] = "asked"]
       \/ c \in Talkers /\ at[c] = "subscribed" /\ at' = [at EXCEPT ![c] = "open"]
    /\ UNCHANGED told \/ (SendsHistory(c) /\ Silent /\ UNCHANGED busVars)
    /\ UNCHANGED <<from, log>>
    /\ \A d \in Consumers : pc'[d] = "new" <=> pc[d] = "new"
Joins(c) ==
    /\ \/ c \in Streams /\ at[c] = "asked" /\ at' = [at EXCEPT ![c] = "open"]
       \/ c \in Talkers /\ at[c] = "away" /\ at' = [at EXCEPT ![c] = "subscribed"]
    /\ Subscribe(c)
    /\ UNCHANGED told
Leaves(c) ==
    /\ at[c] = "open" /\ at' = [at EXCEPT ![c] = "left"]
    /\ told' = [told EXCEPT ![c] = Nothing]
    /\ UNCHANGED <<from, log, pc>>

(* There is no other kind of step.                                         *)
LEMMA ClientKinds ==
  ASSUME BusInv, [Next]_vars
  PROVE  StandsBy \/ \E c \in Consumers : Reads(c) \/ Joins(c) \/ Leaves(c)
<1>t. Consumers \subseteq Threads /\ Publishers \subseteq Threads /\ Talkers \subseteq Consumers
      /\ pc \in [Threads -> Places]
  BY DEF Threads, BusInv, BusTypeOK, Places
<1>q. ASSUME QueuesStay PROVE \A c \in Consumers : pc'[c] = "new" <=> pc[c] = "new"
  BY <1>q DEF QueuesStay
<1>p. ASSUME NEW p \in Publishers, Publish(p)
      PROVE  /\ \A c \in Consumers : pc'[c] = "new" <=> pc[c] = "new"
             /\ UNCHANGED <<from, log>>
  <2>1. pc' = [pc EXCEPT ![p] = "find"] /\ UNCHANGED <<from, log>>
    BY <1>p DEF Publish, Begin
  <2>2. \A c \in Consumers : c # p
    BY ThreadsAssumption
  <2>3. \A c \in Consumers : pc'[c] = pc[c]
    BY <1>t, <2>1, <2>2
  <2> QED BY <2>1, <2>3
<1>1. ASSUME NEW w \in Writers, Write(w) PROVE StandsBy
  BY <1>1, <1>p DEF Write, Writers, StandsBy, clientVars
<1>2. ASSUME NEW c \in Streams, StreamHistory(c) \/ StreamSkipsHistory(c) PROVE Reads(c)
  BY <1>2 DEF StreamHistory, StreamSkipsHistory, Reads, busVars
<1>3. ASSUME NEW c \in Streams, StreamSubscribes(c) PROVE Joins(c)
  BY <1>3 DEF StreamSubscribes, Joins
<1>4. ASSUME NEW c \in Talkers, EventsSubscribes(c) PROVE Joins(c)
  BY <1>4 DEF EventsSubscribes, Joins
<1>5. ASSUME NEW c \in Consumers, StreamHandles(c) \/ EventsHandles(c) PROVE StandsBy
  <2>1. Handle(c) \/ HandleAndTalk(c)
    BY <1>5 DEF StreamHandles, EventsHandles
  <2>2. UNCHANGED <<at, told>>
    BY <1>5 DEF StreamHandles, EventsHandles, clientVars
  <2>3. UNCHANGED from /\ pc[c] = "handle" /\ (UNCHANGED pc \/ pc' = [pc EXCEPT ![c] = "find"])
    BY <2>1 DEF Handle, HandleAndTalk, Given, Begin
  <2>4. \A d \in Consumers : pc'[d] = "new" <=> pc[d] = "new"
    BY <1>t, <2>3, SMT
  <2> QED BY <2>2, <2>3, <2>4 DEF StandsBy
<1>6. ASSUME NEW c \in Talkers, EventsSendsHistory(c) PROVE Reads(c)
  <2>1. Conn[c] \in Publishers
    BY ConnAssumption
  <2>2. UNCHANGED busVars \/ Publish(Conn[c])
    BY <1>6 DEF EventsSendsHistory
  <2>3. UNCHANGED <<from, log>> /\ \A d \in Consumers : pc'[d] = "new" <=> pc[d] = "new"
    BY <1>p, <2>1, <2>2 DEF busVars
  <2>4. /\ at[c] = "subscribed" /\ at' = [at EXCEPT ![c] = "open"]
        /\ UNCHANGED told \/ (SendsHistory(c) /\ Silent /\ UNCHANGED busVars)
    BY <1>6 DEF EventsSendsHistory
  <2> QED BY <1>6, <2>3, <2>4 DEF Reads
<1>7. ASSUME NEW c \in Consumers, Take(c) \/ Disconnect(c) PROVE StandsBy
  BY <1>7 DEF Take, Disconnect, StandsBy, busVars
<1>8. ASSUME NEW c \in Consumers, Leave(c) PROVE Leaves(c)
  BY <1>8 DEF Leave, Leaves, Serving, Unsubscribe
<1>9. ASSUME NEW t \in Threads, Dispatch(t) PROVE StandsBy
  <2>1. UNCHANGED <<at, told>> /\ (Offer(t) \/ (t \in Consumers /\ Listen(t)))
    BY <1>9 DEF Dispatch, clientVars
  <2>2. UNCHANGED from
    BY <2>1 DEF Offer, Listen, Find, WaitForRoom, Broadcast, ListenEnds, ListenSleeps, Swap, Notify
  <2>3. [BusNext]_busVars /\ Standings
    BY <2>1 DEF BusNext, BusInv
  <2>4. Standings'
    BY <2>3, StandingsKept DEF BusInv
  <2>5. UNCHANGED <<subs, stop>>
    BY <2>1 DEF Offer, Listen, Find, WaitForRoom, Broadcast, ListenEnds, ListenSleeps, Swap, Notify
  <2>6. \A d \in Consumers : pc'[d] = "new" <=> pc[d] = "new"
    BY <2>3, <2>4, <2>5 DEF Standings
  <2> QED BY <2>1, <2>2, <2>6 DEF StandsBy
<1>10. CASE UNCHANGED vars
  BY <1>10 DEF vars, busVars, StandsBy
<1> QED BY <1>t, <1>1, <1>2, <1>3, <1>4, <1>5, <1>6, <1>7, <1>8, <1>9, <1>10 DEF Next, Streams

(* The handlers and their subscriptions stay in step.                      *)
LEMMA PresenceKept ==
  ASSUME BusInv, BusInv', at \in [Consumers -> ClientAt], Presence, [Next]_vars
  PROVE  Presence' /\ at' \in [Consumers -> ClientAt]
<1>1. CASE StandsBy
  BY <1>1 DEF StandsBy, Presence
<1>2. ASSUME NEW c \in Consumers, NEW next \in ClientAt, at' = [at EXCEPT ![c] = next]
      PROVE  /\ at' \in [Consumers -> ClientAt] /\ at'[c] = next
             /\ \A d \in Consumers \ {c} : at'[d] = at[d]
  BY <1>2
<1>3. ASSUME NEW c \in Consumers, Reads(c) PROVE Presence' /\ at' \in [Consumers -> ClientAt]
  <2>1. CASE c \in Streams /\ at[c] = "away" /\ at' = [at EXCEPT ![c] = "asked"]
    <3>1. /\ at' \in [Consumers -> ClientAt] /\ at'[c] = "asked"
          /\ \A d \in Consumers \ {c} : at'[d] = at[d]
      BY <1>2, <2>1 DEF ClientAt
    <3> QED BY <1>3, <2>1, <3>1 DEF Presence, Reads
  <2>2. CASE c \in Talkers /\ at[c] = "subscribed" /\ at' = [at EXCEPT ![c] = "open"]
    <3>1. /\ at' \in [Consumers -> ClientAt] /\ at'[c] = "open"
          /\ \A d \in Consumers \ {c} : at'[d] = at[d]
      BY <1>2, <2>2 DEF ClientAt
    <3> QED BY <1>3, <2>2, <3>1 DEF Presence, Reads
  <2> QED BY <1>3, <2>1, <2>2 DEF Reads
<1>4. ASSUME NEW c \in Consumers, Joins(c) PROVE Presence' /\ at' \in [Consumers -> ClientAt]
  <2>1. PICK next \in {"open", "subscribed"} : at' = [at EXCEPT ![c] = next]
    BY <1>4 DEF Joins
  <2>2. /\ at' \in [Consumers -> ClientAt] /\ at'[c] = next
        /\ \A d \in Consumers \ {c} : at'[d] = at[d]
    BY <1>2, <2>1 DEF ClientAt
  <2>3. pc'[c] = "lock" /\ \A d \in Consumers \ {c} : pc'[d] = pc[d]
    <3>1. pc' = [pc EXCEPT ![c] = "lock"] /\ pc \in [Threads -> Places]
      BY <1>4 DEF Joins, Subscribe, BusInv, BusTypeOK, Places
    <3> QED BY <3>1 DEF Threads
  <2> QED BY <2>2, <2>3 DEF Presence
<1>5. ASSUME NEW c \in Consumers, Leaves(c) PROVE Presence' /\ at' \in [Consumers -> ClientAt]
  <2>1. /\ at' \in [Consumers -> ClientAt] /\ at'[c] = "left"
        /\ \A d \in Consumers \ {c} : at'[d] = at[d]
    BY <1>2, <1>5 DEF Leaves, ClientAt
  <2> QED BY <1>5, <2>1 DEF Presence, Leaves
<1> QED BY <1>1, <1>3, <1>4, <1>5, ClientKinds

(* A group once in the registry stays there.                               *)
LEMMA KnownKept ==
  ASSUME BusInv, at \in [Consumers -> ClientAt], Known, [Next]_vars
  PROVE  Known'
<1>1. registered => registered'
  <2>1. [BusNext]_busVars
    BY StepOfTheBus
  <2> QED BY <2>1 DEF BusNext, busVars, Subscribe, Unsubscribe, Listen, ListenEnds, ListenSleeps,
             Swap, Notify, Handle, HandleAndTalk, Given, Begin, Publish, Offer, Find, WaitForRoom, Broadcast
<1>2. ASSUME NEW c \in Consumers, NEW next, at' = [at EXCEPT ![c] = next]
      PROVE  \A d \in Consumers \ {c} : at'[d] = at[d]
  BY <1>2
<1>3. CASE StandsBy
  BY <1>1, <1>3 DEF StandsBy, Known
<1>4. ASSUME NEW c \in Consumers, Reads(c) PROVE Known'
  <2>1. CASE c \in Streams /\ at[c] = "away" /\ at' = [at EXCEPT ![c] = "asked"]
    <3>1. at'[c] = "asked"
      BY <2>1
    <3> QED BY <1>1, <1>2, <2>1, <3>1 DEF Known
  <2>2. CASE c \in Talkers /\ at[c] = "subscribed" /\ at' = [at EXCEPT ![c] = "open"]
    <3>1. registered'
      BY <1>1, <2>2 DEF Known
    <3> QED BY <3>1 DEF Known
  <2> QED BY <1>4, <2>1, <2>2 DEF Reads
<1>5. ASSUME NEW c \in Consumers, Joins(c) PROVE Known'
  BY <1>5 DEF Joins, Subscribe, Known
<1>6. ASSUME NEW c \in Consumers, Leaves(c) PROVE Known'
  <2>1. at'[c] = "left"
    BY <1>6 DEF Leaves
  <2> QED BY <1>1, <1>2, <1>6, <2>1 DEF Leaves, Known
<1> QED BY <1>3, <1>4, <1>5, <1>6, ClientKinds

(* The invariant of the monitor and its clients, from the start ...         *)
LEMMA ClientInvStart == Init => BusInv /\ ClientInv
<1> SUFFICES ASSUME Init PROVE BusInv /\ ClientInv OBVIOUS
<1>1. BusInit /\ BusInv
  BY BusInvStart DEF Init
<1>2. \A c \in Consumers : at[c] = "away" /\ pc[c] = "new"
  BY <1>1 DEF Init, BusInit, Threads
<1>3. at \in [Consumers -> ClientAt]
  BY DEF Init, ClientAt
<1> QED BY <1>1, <1>2, <1>3 DEF ClientInv, Presence, Known

(* ... through every step.                                                 *)
LEMMA ClientInvKept ==
  ASSUME BusInv, ClientInv, [Next]_vars
  PROVE  BusInv' /\ ClientInv'
<1>1. BusInv'
  BY StepOfTheBus, BusInvKept
<1>2. Presence' /\ at' \in [Consumers -> ClientAt]
  BY <1>1, PresenceKept DEF ClientInv
<1>3. Known'
  BY KnownKept DEF ClientInv
<1> QED BY <1>1, <1>2, <1>3 DEF ClientInv

(* The dispatcher and the handlers of the clients (handleLogStream,        *)
(* handleAPISystemEvents) stay in step.                                    *)
THEOREM MonitorInvariance == Spec => [](BusInv /\ ClientInv)
<1> DEFINE Inv == BusInv /\ ClientInv
<1>1. Init => Inv
  BY ClientInvStart
<1>2. Inv /\ [Next]_vars => Inv'
  BY ClientInvKept
<1> QED BY <1>1, <1>2, PTL DEF Spec

(* Followed by clients that log their own drops, the dispatcher still      *)
(* hands everyone what was published while it was subscribed.              *)
THEOREM MonitorImplementsEventLog == Spec => ImplementsEventLog
<1>1. BusInv /\ ClientInv /\ [Next]_vars => [EL!LogNext]_EL!logVars
  BY StepOfTheBus, StepOfTheLog
<1>2. Init => EL!LogInit
  BY StartOfTheLog DEF Init
<1> QED BY <1>1, <1>2, MonitorInvariance, PTL DEF Spec, ImplementsEventLog, EL!LogSpec

-----------------------------------------------------------------------------
(* The circular buffer.                                                    *)

Cell == Nat \X Nat

(* A cell written is one of the two numbers that name it.                  *)
LEMMA CellsType ==
  ASSUME NEW line \in 1..MaxEvents
  PROVE  Cells(line) \in Seq(Cell) /\ Len(Cells(line)) = SizeOf[line] /\ SizeOf[line] \in Nat \ {0}
<1>1. SizeOf[line] \in Nat \ {0}
  BY BufferAssumption
<1>2. \A i \in 1..SizeOf[line] : <<line, i>> \in Cell
  BY <1>1 DEF Cell
<1>3. Cells(line) \in [1..SizeOf[line] -> Cell]
  BY <1>2 DEF Cells
<1>4. Cells(line) \in Seq(Cell)
  BY <1>1, <1>3, SeqDef
<1>5. Len(Cells(line)) = SizeOf[line]
  BY <1>1, <1>3, LenProperties, <1>4
<1> QED BY <1>1, <1>4, <1>5

(* What copy leaves at each place.                                         *)
HasCopy(result, data, i, p, n) ==
    /\ result \in [0..Cap - 1 -> Cell]
    /\ \A j \in 0..Cap - 1 :
          result[j] = IF i <= j /\ j < i + n THEN p[j - i + 1] ELSE data[j]

(* copy copies.                                                            *)
LEMMA CopiedCells ==
  ASSUME NEW data \in [0..Cap - 1 -> Cell], NEW p \in Seq(Cell), NEW i \in Nat
  PROVE  HasCopy(Copied(data, i, p), data, i, p, Len(p))
<1> SUFFICES ASSUME NEW n, n = Len(p), NEW result, result = Copied(data, i, p)
             PROVE  HasCopy(result, data, i, p, n)
  OBVIOUS
<1>1. DOMAIN data = 0..Cap - 1 /\ n \in Nat /\ Cap \in Nat
  BY LenProperties, BufferAssumption
<1>2. \A j \in 0..Cap - 1 : j \in i..i + n - 1 => p[j - i + 1] \in Cell
  <2> SUFFICES ASSUME NEW j \in 0..Cap - 1, j \in i..i + n - 1 PROVE p[j - i + 1] \in Cell
    OBVIOUS
  <2>1. j - i + 1 \in 1..Len(p)
    BY <1>1
  <2> QED BY <2>1, ElementOfSeq
<1>3. \A j \in 0..Cap - 1 :
         result[j] = IF i <= j /\ j < i + n THEN p[j - i + 1] ELSE data[j]
  <2>1. \A j \in 0..Cap - 1 : j \in i..i + n - 1 <=> i <= j /\ j < i + n
    BY <1>1
  <2> QED BY <1>1, <2>1 DEF Copied
<1>4. result \in [0..Cap - 1 -> Cell]
  BY <1>1, <1>2 DEF Copied
<1> QED BY <1>3, <1>4 DEF HasCopy

(* % for what lies within two turns of the buffer.                         *)
LEMMA Turn ==
  ASSUME NEW x \in Nat, x < 2 * Cap
  PROVE  x % Cap = IF x < Cap THEN x ELSE x - Cap
<1>1. Cap \in Nat \ {0}
  BY BufferAssumption
<1>2. CASE x < Cap
  BY <1>1, <1>2, SMT
<1>3. CASE x >= Cap
  BY <1>1, <1>3, SMT
<1> QED BY <1>1, <1>2, <1>3

(* The place d cells before the head, around the end.                      *)
Back(head, d) == IF head >= d THEN head - d ELSE head - d + Cap

(* The buffer holds the last cells of what was written, the last one just  *)
(* before the head.                                                        *)
Holds(cb, w) ==
    /\ cb \in Buffers
    /\ cb.size = IF Len(w) < Cap THEN Len(w) ELSE Cap
    /\ \A d \in 1..cb.size : cb.data[Back(cb.head, d)] = w[Len(w) + 1 - d]

(* What a write of p makes of the cells: the new ones lie before the head, *)
(* and behind them the old ones, as far as there is room.                  *)
Moved(cb, p, data, head) ==
    /\ data \in [0..Cap - 1 -> Cell]
    /\ head \in 0..Cap - 1
    /\ \A d \in 1..Len(p) : d <= Cap => data[Back(head, d)] = p[Len(p) + 1 - d]
    /\ \A d \in 1..cb.size :
          d + Len(p) <= Cap => data[Back(head, d + Len(p))] = cb.data[Back(cb.head, d)]

(* This is what the buffer should do.                                      *)
LEMMA MovedHolds ==
  ASSUME NEW cb, NEW w \in Seq(Cell), NEW p \in Seq(Cell), p # <<>>, Holds(cb, w),
         NEW data, NEW head, Moved(cb, p, data, head)
  PROVE  Holds([data |-> data, head |-> head,
                size |-> IF cb.size + Len(p) > Cap THEN Cap ELSE cb.size + Len(p)], w \o p)
<1>s. PICK n, l, size, v, new :
         /\ n = Len(p) /\ l = Len(w) /\ v = w \o p
         /\ size = IF cb.size + n > Cap THEN Cap ELSE cb.size + n
         /\ new = [data |-> data, head |-> head, size |-> size]
  OBVIOUS
<1>1. n \in Nat /\ n >= 1 /\ l \in Nat /\ Cap \in Nat /\ Cap >= 1 /\ cb.size \in 0..Cap
  <2>1. n \in Nat /\ l \in Nat /\ n # 0
    BY <1>s, LenProperties, EmptySeq
  <2>2. cb.size \in 0..Cap
    BY DEF Holds, Buffers
  <2> QED BY <2>1, <2>2, BufferAssumption
<1>2. /\ Len(v) = l + n
      /\ \A i \in 1..l : v[i] = w[i]
      /\ \A i \in 1..n : v[l + i] = p[i]
  <2>1. Len(v) = l + n /\ \A i \in 1..l + n : v[i] = IF i <= l THEN w[i] ELSE p[i - l]
    BY <1>s, ConcatProperties
  <2>2. \A i \in 1..l : v[i] = w[i]
    BY <1>1, <2>1
  <2>3. \A i \in 1..n : v[l + i] = p[i]
    <3> SUFFICES ASSUME NEW i \in 1..n PROVE v[l + i] = p[i]
      OBVIOUS
    <3>1. l + i \in 1..l + n /\ ~(l + i <= l) /\ l + i - l = i
      BY <1>1
    <3> QED BY <1>1, <2>1, <3>1
  <2> QED BY <2>1, <2>2, <2>3
<1>3. cb.size = IF l < Cap THEN l ELSE Cap
  BY <1>s DEF Holds
<1>4. \A d \in 1..cb.size : cb.data[Back(cb.head, d)] = w[l + 1 - d] /\ l + 1 - d \in 1..l
  BY <1>1, <1>3, <1>s DEF Holds
<1>5. /\ \A d \in 1..n : d <= Cap => data[Back(head, d)] = p[n + 1 - d]
      /\ \A d \in 1..cb.size : d + n <= Cap => data[Back(head, d + n)] = cb.data[Back(cb.head, d)]
  BY <1>s DEF Moved
<1>6. new.data = data /\ new.head = head /\ new.size = size
  BY <1>s
<1>7. size \in 0..Cap /\ size = IF Len(v) < Cap THEN Len(v) ELSE Cap
  <2>1. PICK m, k : m = cb.size /\ k = Len(v)
    OBVIOUS
  <2>2. /\ m \in Nat /\ k = l + n /\ m = (IF l < Cap THEN l ELSE Cap)
        /\ size = IF m + n > Cap THEN Cap ELSE m + n
    BY <1>1, <1>2, <1>3, <1>s, <2>1
  <2>3. size \in 0..Cap /\ size = IF k < Cap THEN k ELSE Cap
    BY <1>1, <2>2
  <2> QED BY <2>1, <2>3
<1>8. new \in Buffers
  BY <1>7, <1>s DEF Buffers, Cell, Moved
<1>9. ASSUME NEW d \in 1..size PROVE data[Back(head, d)] = v[Len(v) + 1 - d]
  <2>1. CASE d <= n
    <3>1. d \in 1..n /\ d <= Cap /\ n + 1 - d \in 1..n /\ l + (n + 1 - d) = Len(v) + 1 - d
      BY <1>1, <1>2, <1>7, <2>1
    <3>2. data[Back(head, d)] = p[n + 1 - d]
      BY <1>5, <3>1
    <3>3. v[l + (n + 1 - d)] = p[n + 1 - d]
      BY <1>2, <3>1
    <3> QED BY <3>1, <3>2, <3>3
  <2>2. CASE d > n
    <3>1. PICK e : e = d - n
      OBVIOUS
    <3>2. e \in 1..cb.size /\ e + n = d /\ e + n <= Cap /\ l + 1 - e = Len(v) + 1 - d
      BY <1>1, <1>2, <1>3, <1>7, <1>s, <2>2, <3>1
    <3>3. data[Back(head, d)] = cb.data[Back(cb.head, e)]
      BY <1>5, <3>2
    <3>4. cb.data[Back(cb.head, e)] = v[l + 1 - e]
      BY <1>2, <1>4, <3>2
    <3> QED BY <3>2, <3>3, <3>4
  <2> QED BY <1>1, <1>7, <2>1, <2>2
<1>10. Holds(new, v)
  BY <1>6, <1>7, <1>8, <1>9 DEF Holds
<1> QED BY <1>10, <1>s

(* A part of p that is copied.                                             *)
LEMMA PartOf ==
  ASSUME NEW p \in Seq(Cell), NEW i \in 0..Len(p), NEW n \in Nat, i + n <= Len(p)
  PROVE  /\ SubSeq(p, i + 1, i + n) \in Seq(Cell)
         /\ Len(SubSeq(p, i + 1, i + n)) = n
         /\ \A k \in 1..n : SubSeq(p, i + 1, i + n)[k] = p[i + k]
<1>1. Len(p) \in Nat
  BY LenProperties
<1>2. \A k \in i + 1..i + n : p[k] \in Cell
  <2> SUFFICES ASSUME NEW k \in i + 1..i + n PROVE p[k] \in Cell
    OBVIOUS
  <2>1. k \in 1..Len(p)
    BY <1>1
  <2> QED BY <2>1, ElementOfSeq
<1>3. i + 1 \in Int /\ i + n \in Int
  BY <1>1
<1>4. /\ SubSeq(p, i + 1, i + n) \in Seq(Cell)
      /\ Len(SubSeq(p, i + 1, i + n)) = IF i + 1 <= i + n THEN i + n - (i + 1) + 1 ELSE 0
      /\ \A k \in 1..i + n - (i + 1) + 1 : SubSeq(p, i + 1, i + n)[k] = p[i + 1 + k - 1]
  BY <1>2, <1>3, SubSeqProperties
<1>5. i + n - (i + 1) + 1 = n /\ (i + 1 <= i + n <=> n # 0) /\ \A k \in 1..n : i + 1 + k - 1 = i + k
  BY <1>1
<1> QED BY <1>4, <1>5

(* The branch for as much as the buffer holds, or more.                    *)
LEMMA MovedWhole ==
  ASSUME NEW cb \in Buffers, NEW p \in Seq(Cell), NEW n, n = Len(p), n >= Cap
  PROVE  Moved(cb, p, Copied(cb.data, 0, SubSeq(p, n - Cap + 1, n)), 0)
<1>1. /\ n \in Nat /\ Cap \in Nat /\ Cap >= 1
      /\ cb.size \in 0..Cap /\ cb.data \in [0..Cap - 1 -> Cell] /\ n - Cap \in 0..n
  <2>1. n \in Nat /\ Cap \in Nat /\ Cap >= 1
    BY LenProperties, BufferAssumption
  <2>2. cb.size \in 0..Cap /\ cb.data \in [0..Cap - 1 -> Cell]
    BY DEF Buffers, Cell
  <2> QED BY <2>1, <2>2
<1>p. PICK tail, data : tail = SubSeq(p, n - Cap + 1, n) /\ data = Copied(cb.data, 0, tail)
  OBVIOUS
<1>2. tail \in Seq(Cell) /\ Len(tail) = Cap /\ \A i \in 1..Cap : tail[i] = p[n - Cap + i]
  <2>1. n - Cap \in 0..Len(p) /\ n - Cap + Cap <= Len(p) /\ n - Cap + Cap = n
    BY <1>1
  <2> QED BY <1>1, <1>p, <2>1, PartOf
<1>3. /\ data \in [0..Cap - 1 -> Cell]
      /\ \A j \in 0..Cap - 1 : data[j] = tail[j + 1]
  <2>0. PICK z : z = 0
    OBVIOUS
  <2>1. cb.data \in [0..Cap - 1 -> Cell] /\ tail \in Seq(Cell) /\ Cap = Len(tail) /\ z \in Nat
        /\ data = Copied(cb.data, z, tail)
    BY <1>1, <1>2, <1>p, <2>0
  <2>c. HasCopy(data, cb.data, z, tail, Cap)
    BY <2>1, CopiedCells
  <2>2. \A j \in 0..Cap - 1 :
           data[j] = IF z <= j /\ j < z + Cap THEN tail[j - z + 1] ELSE cb.data[j]
    BY <2>c DEF HasCopy
  <2>3. data \in [0..Cap - 1 -> Cell]
    BY <2>c DEF HasCopy
  <2>4. \A j \in 0..Cap - 1 : z <= j /\ j < z + Cap /\ j - z + 1 = j + 1
    BY <1>1, <2>0
  <2> QED BY <2>2, <2>3, <2>4
<1>4. ASSUME NEW d \in 1..n, d <= Cap PROVE data[Back(0, d)] = p[n + 1 - d]
  <2>1. Back(0, d) = Cap - d /\ Cap - d \in 0..Cap - 1
        /\ Cap - d + 1 \in 1..Cap /\ n - Cap + (Cap - d + 1) = n + 1 - d
    BY <1>1, <1>4 DEF Back
  <2>2. data[Cap - d] = tail[Cap - d + 1]
    BY <1>1, <1>2, <1>3, <2>1
  <2> QED BY <1>2, <2>1, <2>2
<1>5. \A d \in 1..cb.size : ~(d + n <= Cap)
  BY <1>1
<1>6. 0 \in 0..Cap - 1
  BY <1>1
<1>7. Moved(cb, p, data, 0)
  BY <1>3, <1>4, <1>5, <1>6 DEF Moved
<1> QED BY <1>7, <1>p

(* The branch for what fits before the end.                                *)
LEMMA MovedFlat ==
  ASSUME NEW cb \in Buffers, NEW p \in Seq(Cell), NEW h, h = cb.head,
         NEW n, n = Len(p), n >= 1, n < Cap, h + n <= Cap
  PROVE  Moved(cb, p, Copied(cb.data, h, p), (h + n) % Cap)
<1>1. /\ n \in Nat /\ Cap \in Nat /\ h \in 0..Cap - 1
      /\ cb.size \in 0..Cap /\ cb.data \in [0..Cap - 1 -> Cell]
  BY LenProperties, BufferAssumption DEF Buffers, Cell
<1>p. PICK data, head : data = Copied(cb.data, h, p) /\ head = (h + n) % Cap
  OBVIOUS
<1>2. head = IF h + n < Cap THEN h + n ELSE 0
  <2>1. PICK x : x = h + n
    OBVIOUS
  <2>2. x \in Nat /\ x < 2 * Cap
    BY <1>1, <2>1
  <2>3. x % Cap = IF x < Cap THEN x ELSE x - Cap
    BY <2>2, Turn
  <2> QED BY <1>1, <1>p, <2>1, <2>3
<1>3. /\ data \in [0..Cap - 1 -> Cell]
      /\ \A j \in 0..Cap - 1 : data[j] = IF h <= j /\ j < h + n THEN p[j - h + 1] ELSE cb.data[j]
  <2>1. cb.data \in [0..Cap - 1 -> Cell] /\ h \in Nat /\ data = Copied(cb.data, h, p)
    BY <1>1, <1>p
  <2>2. HasCopy(data, cb.data, h, p, n)
    BY <2>1, CopiedCells
  <2> QED BY <2>2 DEF HasCopy
<1>4. ASSUME NEW d \in 1..n PROVE data[Back(head, d)] = p[n + 1 - d]
  <2>1. PICK j : j = h + n - d
    OBVIOUS
  <2>2. Back(head, d) = j
    BY <1>1, <1>2, <2>1 DEF Back
  <2>3. j \in 0..Cap - 1 /\ h <= j /\ j < h + n /\ j - h + 1 = n + 1 - d
    BY <1>1, <2>1
  <2> QED BY <1>3, <2>2, <2>3
<1>5. ASSUME NEW d \in 1..cb.size, d + n <= Cap
      PROVE  data[Back(head, d + n)] = cb.data[Back(h, d)]
  <2>1. Back(head, d + n) = Back(h, d)
    BY <1>1, <1>2, <1>5 DEF Back
  <2>2. Back(h, d) \in 0..Cap - 1 /\ ~(h <= Back(h, d) /\ Back(h, d) < h + n)
    BY <1>1, <1>5 DEF Back
  <2> QED BY <1>3, <2>1, <2>2
<1>6. head \in 0..Cap - 1
  BY <1>1, <1>2
<1>7. Moved(cb, p, data, head)
  BY <1>3, <1>4, <1>5, <1>6 DEF Moved
<1> QED BY <1>7, <1>p

(* Where the cells of a write lie that goes around the end: the last ones   *)
(* at the start of the buffer, those before them at its end, and the old   *)
(* ones in between.                                                        *)
Around(h, n, f, head) ==
    /\ \A d \in 1..n : d <= head =>
          /\ Back(head, d) = head - d
          /\ head - d \in 0..Cap - 1 /\ head - d < head
          /\ head - d + 1 \in 1..head /\ f + (head - d + 1) = n + 1 - d
    /\ \A d \in 1..n : d > head =>
          /\ Back(head, d) = h + n - d
          /\ h + n - d \in 0..Cap - 1 /\ ~(h + n - d < head)
          /\ h <= h + n - d /\ h + n - d < h + f
          /\ h + n - d - h + 1 = n + 1 - d /\ n + 1 - d \in 1..f
    /\ \A d \in 1..Cap : d + n <= Cap =>
          /\ Back(head, d + n) = Back(h, d) /\ Back(h, d) \in 0..Cap - 1
          /\ ~(h <= Back(h, d) /\ Back(h, d) < h + f) /\ ~(Back(h, d) < head)

(* They do.                                                                *)
LEMMA AroundPlaces ==
  ASSUME NEW h \in Nat, NEW n \in Nat, NEW f \in Nat, h + f = Cap, f < n, n < Cap,
         NEW head \in Nat, head = n - f
  PROVE  Around(h, n, f, head)
<1>1. Cap \in Nat
  BY BufferAssumption
<1>2. ASSUME NEW d \in 1..n, d <= head
      PROVE  /\ Back(head, d) = head - d
             /\ head - d \in 0..Cap - 1 /\ head - d < head
             /\ head - d + 1 \in 1..head /\ f + (head - d + 1) = n + 1 - d
  BY <1>1, <1>2 DEF Back
<1>3. ASSUME NEW d \in 1..n, d > head
      PROVE  /\ Back(head, d) = h + n - d
             /\ h + n - d \in 0..Cap - 1 /\ ~(h + n - d < head)
             /\ h <= h + n - d /\ h + n - d < h + f
             /\ h + n - d - h + 1 = n + 1 - d /\ n + 1 - d \in 1..f
  BY <1>1, <1>3 DEF Back
<1>4. ASSUME NEW d \in 1..Cap, d + n <= Cap
      PROVE  /\ Back(head, d + n) = Back(h, d) /\ Back(h, d) \in 0..Cap - 1
             /\ ~(h <= Back(h, d) /\ Back(h, d) < h + f) /\ ~(Back(h, d) < head)
  BY <1>1, <1>4 DEF Back
<1> QED BY <1>2, <1>3, <1>4 DEF Around

(* The branch that goes around the end.                                    *)
LEMMA MovedAround ==
  ASSUME NEW cb \in Buffers, NEW p \in Seq(Cell), NEW h, h = cb.head,
         NEW n, n = Len(p), n < Cap, NEW f, f = Cap - h, f < n
  PROVE  Moved(cb, p, Copied(Copied(cb.data, h, SubSeq(p, 1, f)), 0, SubSeq(p, f + 1, n)), n - f)
<1>1. /\ n \in Nat /\ Cap \in Nat /\ h \in 0..Cap - 1 /\ h \in Nat /\ f \in 1..n
      /\ cb.size \in 0..Cap /\ cb.data \in [0..Cap - 1 -> Cell]
  <2>1. /\ n \in Nat /\ Cap \in Nat /\ h \in 0..Cap - 1
        /\ cb.size \in 0..Cap /\ cb.data \in [0..Cap - 1 -> Cell]
    BY LenProperties, BufferAssumption DEF Buffers, Cell
  <2> QED BY <2>1
<1>p. PICK first, rest, part, data, head :
         /\ first = SubSeq(p, 1, f) /\ rest = SubSeq(p, f + 1, n)
         /\ part = Copied(cb.data, h, first) /\ data = Copied(part, 0, rest) /\ head = n - f
  OBVIOUS
<1>h. head = n - f /\ head \in Nat /\ f \in Nat /\ f <= n /\ n - f \in Nat /\ h + f = Cap
  <2>1. head = n - f
    BY <1>p, Zenon
  <2>2. f \in Nat /\ f <= n /\ n - f \in Nat
    BY <1>1
  <2>3. h + f = Cap
    BY <1>1
  <2>4. head \in Nat
    BY <2>1, <2>2
  <2> QED BY <2>1, <2>2, <2>3, <2>4
<1>2. first \in Seq(Cell) /\ Len(first) = f /\ \A i \in 1..f : first[i] = p[i]
  <2>1. 0 \in 0..Len(p) /\ 0 + f <= Len(p) /\ 0 + f = f /\ 0 + 1 = 1 /\ f \in Nat
        /\ \A i \in 1..f : 0 + i = i
    BY <1>1
  <2>2. /\ SubSeq(p, 0 + 1, 0 + f) \in Seq(Cell)
        /\ Len(SubSeq(p, 0 + 1, 0 + f)) = f
        /\ \A k \in 1..f : SubSeq(p, 0 + 1, 0 + f)[k] = p[0 + k]
    BY <2>1, PartOf
  <2> QED BY <1>p, <2>1, <2>2
<1>3. rest \in Seq(Cell) /\ Len(rest) = n - f /\ \A i \in 1..n - f : rest[i] = p[f + i]
  <2>0. f \in 0..n /\ n - f \in Nat
    BY <1>1, <1>h
  <2>1. f \in 0..Len(p) /\ n - f \in Nat
    BY <2>0, Zenon
  <2>n. f \in Int /\ n \in Int
    BY <1>1
  <2>c. f + (n - f) = n /\ n <= n
    BY <2>n
  <2>e. f + (n - f) <= Len(p) /\ f + (n - f) = n
    BY <2>c, Zenon
  <2>2. /\ SubSeq(p, f + 1, f + (n - f)) \in Seq(Cell)
        /\ Len(SubSeq(p, f + 1, f + (n - f))) = n - f
        /\ \A k \in 1..n - f : SubSeq(p, f + 1, f + (n - f))[k] = p[f + k]
    BY <2>1, <2>e, PartOf
  <2> QED BY <1>p, <2>e, <2>2
<1>4. /\ part \in [0..Cap - 1 -> Cell]
      /\ \A j \in 0..Cap - 1 :
            part[j] = IF h <= j /\ j < h + f THEN first[j - h + 1] ELSE cb.data[j]
  <2>1. cb.data \in [0..Cap - 1 -> Cell] /\ h \in Nat /\ first \in Seq(Cell) /\ f = Len(first)
        /\ part = Copied(cb.data, h, first)
    BY <1>1, <1>2, <1>p
  <2>2. HasCopy(part, cb.data, h, first, f)
    BY <2>1, CopiedCells
  <2> QED BY <2>2 DEF HasCopy
<1>5. /\ data \in [0..Cap - 1 -> Cell]
      /\ \A j \in 0..Cap - 1 : data[j] = IF j < n - f THEN rest[j + 1] ELSE part[j]
  <2>1. PICK k, z : k = n - f /\ z = 0
    OBVIOUS
  <2>2. part \in [0..Cap - 1 -> Cell] /\ z \in Nat /\ rest \in Seq(Cell) /\ k = Len(rest)
        /\ data = Copied(part, z, rest)
    BY <1>3, <1>4, <1>p, <2>1
  <2>c. HasCopy(data, part, z, rest, k)
    BY <2>2, CopiedCells
  <2>3. \A j \in 0..Cap - 1 : data[j] = IF z <= j /\ j < z + k THEN rest[j - z + 1] ELSE part[j]
    BY <2>c DEF HasCopy
  <2>4. data \in [0..Cap - 1 -> Cell]
    BY <2>c DEF HasCopy
  <2>5. \A j \in 0..Cap - 1 : j - z + 1 = j + 1 /\ (z <= j /\ j < z + k <=> j < n - f)
    BY <1>1, <2>1
  <2> QED BY <2>3, <2>4, <2>5
<1>a. Around(h, n, f, head)
  <2>1. h \in Nat /\ n \in Nat /\ f \in Nat /\ head \in Nat
    BY <1>1, <1>h
  <2> QED BY <2>1, <1>h, AroundPlaces
<1>w. /\ \A d \in 1..n : d <= head =>
            /\ Back(head, d) = head - d
            /\ head - d \in 0..Cap - 1 /\ head - d < head
            /\ head - d + 1 \in 1..head /\ f + (head - d + 1) = n + 1 - d
      /\ \A d \in 1..n : d > head =>
            /\ Back(head, d) = h + n - d
            /\ h + n - d \in 0..Cap - 1 /\ ~(h + n - d < head)
            /\ h <= h + n - d /\ h + n - d < h + f
            /\ h + n - d - h + 1 = n + 1 - d /\ n + 1 - d \in 1..f
      /\ \A d \in 1..Cap : d + n <= Cap =>
            /\ Back(head, d + n) = Back(h, d) /\ Back(h, d) \in 0..Cap - 1
            /\ ~(h <= Back(h, d) /\ Back(h, d) < h + f) /\ ~(Back(h, d) < head)
  BY <1>a DEF Around
<1>6. ASSUME NEW d \in 1..n PROVE data[Back(head, d)] = p[n + 1 - d]
  <2>1. CASE d <= head
    <3>1. data[head - d] = rest[head - d + 1]
      BY <1>5, <1>h, <1>w, <2>1
    <3>2. rest[head - d + 1] = p[f + (head - d + 1)]
      BY <1>3, <1>h, <1>w, <2>1
    <3> QED BY <1>w, <2>1, <3>1, <3>2
  <2>2. CASE d > head
    <3>1. data[h + n - d] = part[h + n - d]
      BY <1>5, <1>h, <1>w, <2>2
    <3>k. PICK k : k = h + n - d
      OBVIOUS
    <3>2. part[k] = first[n + 1 - d]
      <4>1. k \in 0..Cap - 1 /\ h <= k /\ k < h + f /\ k - h + 1 = n + 1 - d
        <5>1. k \in 0..Cap - 1 /\ h <= k /\ k < h + f
          BY <1>w, <2>2, <3>k
        <5>2. h \in Int /\ n \in Int /\ d \in Int
          BY <1>1
        <5>3. k - h + 1 = n + 1 - d
          BY <3>k, <5>2
        <5> QED BY <5>1, <5>3
      <4>2. part[k] = first[k - h + 1]
        BY <1>4, <4>1
      <4> QED BY <4>1, <4>2
    <3>3. first[n + 1 - d] = p[n + 1 - d]
      BY <1>2, <1>w, <2>2
    <3>4. data[k] = part[k] /\ Back(head, d) = k
      BY <1>w, <2>2, <3>1, <3>k
    <3> QED BY <3>2, <3>3, <3>4
  <2> QED BY <1>1, <1>h, <2>1, <2>2
<1>7. ASSUME NEW d \in 1..cb.size, d + n <= Cap
      PROVE  data[Back(head, d + n)] = cb.data[Back(h, d)]
  <2>1. d \in 1..Cap
    BY <1>1
  <2>2. data[Back(h, d)] = part[Back(h, d)]
    BY <1>5, <1>7, <1>h, <1>w, <2>1
  <2>3. part[Back(h, d)] = cb.data[Back(h, d)]
    BY <1>4, <1>7, <1>w, <2>1
  <2> QED BY <1>7, <1>w, <2>1, <2>2, <2>3
<1>8. head \in 0..Cap - 1
  BY <1>1, <1>p
<1>9. Moved(cb, p, data, head)
  BY <1>5, <1>6, <1>7, <1>8 DEF Moved
<1> QED BY <1>9, <1>p

(* circularBuffer.Write, whichever of its branches it takes, leaves the    *)
(* last cells of what was written before and now.                          *)
LEMMA PutHolds ==
  ASSUME NEW cb, NEW w \in Seq(Cell), NEW p \in Seq(Cell), p # <<>>, Holds(cb, w)
  PROVE  Holds(Put(cb, p), w \o p)
<1>s. PICK n, h, f, size :
         /\ n = Len(p) /\ h = cb.head /\ f = Cap - h
         /\ size = IF cb.size + n > Cap THEN Cap ELSE cb.size + n
  OBVIOUS
<1>1. /\ n \in Nat /\ n >= 1 /\ Cap \in Nat /\ h \in 0..Cap - 1 /\ cb.size \in 0..Cap
      /\ cb \in Buffers
  <2>1. n \in Nat /\ n # 0
    BY <1>s, LenProperties, EmptySeq
  <2>2. cb \in Buffers /\ h \in 0..Cap - 1 /\ cb.size \in 0..Cap
    BY <1>s DEF Holds, Buffers
  <2> QED BY <2>1, <2>2, BufferAssumption
<1>2. PICK data, head : /\ Moved(cb, p, data, head)
                        /\ Put(cb, p) = [data |-> data, head |-> head, size |-> size]
  <2>1. CASE n >= Cap
    <3>1. size = Cap
      BY <1>1, <1>s, <2>1
    <3>2. Put(cb, p) = [data |-> Copied(cb.data, 0, SubSeq(p, n - Cap + 1, n)), head |-> 0, size |-> size]
      BY <1>s, <2>1, <3>1 DEF Put
    <3> QED BY <1>1, <1>s, <2>1, <3>2, MovedWhole
  <2>2. CASE n < Cap /\ f >= n
    <3>1. Put(cb, p) = [data |-> Copied(cb.data, h, p), head |-> (h + n) % Cap, size |-> size]
      BY <1>1, <1>s, <2>2 DEF Put
    <3>2. h + n <= Cap
      BY <1>1, <1>s, <2>2
    <3> QED BY <1>1, <1>s, <2>2, <3>1, <3>2, MovedFlat
  <2>3. CASE n < Cap /\ f < n
    <3>1. Put(cb, p) = [data |-> Copied(Copied(cb.data, h, SubSeq(p, 1, f)), 0, SubSeq(p, f + 1, n)),
                        head |-> n - f, size |-> size]
      BY <1>1, <1>s, <2>3 DEF Put
    <3> QED BY <1>1, <1>s, <2>3, <3>1, MovedAround
  <2> QED BY <1>1, <1>s, <2>1, <2>2, <2>3
<1> QED BY <1>2, <1>s, MovedHolds

(* data[i:j].                                                              *)
Cut(data, i, j) == [k \in 1..j - i |-> data[i + k - 1]]

IsCut(slice, data, i, m) ==
    slice \in Seq(Cell) /\ Len(slice) = m /\ \A k \in 1..m : slice[k] = data[i + k - 1]

(* A slice of the buffer has the cells of the buffer.                      *)
LEMMA CutCells ==
  ASSUME NEW data \in [0..Cap - 1 -> Cell], NEW i \in 0..Cap, NEW j \in 0..Cap, i <= j
  PROVE  IsCut(Cut(data, i, j), data, i, j - i)
<1>1. Cap \in Nat /\ j - i \in Nat
  BY BufferAssumption
<1>2. \A k \in 1..j - i : i + k - 1 \in 0..Cap - 1
  BY <1>1
<1>3. \A k \in 1..j - i : data[i + k - 1] \in Cell
  BY <1>2
<1>4. Cut(data, i, j) \in [1..j - i -> Cell]
  BY <1>3 DEF Cut
<1>5. Cut(data, i, j) \in Seq(Cell)
  BY <1>1, <1>4, SeqDef
<1>6. Len(Cut(data, i, j)) = j - i
  BY <1>1, <1>4, <1>5, LenProperties
<1> QED BY <1>5, <1>6 DEF Cut, IsCut

(* Where the history begins, and where its cells lie.                      *)
LEMMA HistoryPlaces ==
  ASSUME NEW h \in 0..Cap - 1, NEW s \in 0..Cap
  PROVE  /\ (h - s + Cap) % Cap \in 0..Cap - 1
         /\ ((h - s + Cap) % Cap) + s <= Cap => \A i \in 1..s :
               Back(h, s + 1 - i) = ((h - s + Cap) % Cap) + i - 1
         /\ ((h - s + Cap) % Cap) + s > Cap =>
               /\ (h - s + Cap) % Cap = h - s + Cap /\ h < s
               /\ \A i \in 1..s - h : Back(h, s + 1 - i) = h - s + Cap + i - 1
               /\ \A i \in s - h + 1..s : Back(h, s + 1 - i) = i - (s - h) - 1
<1>1. Cap \in Nat /\ h \in Nat /\ s \in Nat /\ h < Cap /\ s <= Cap
  BY BufferAssumption
<1>2. PICK x : x = h - s + Cap
  OBVIOUS
<1>3. x \in Nat /\ x < 2 * Cap
  BY <1>1, <1>2
<1>4. x % Cap = IF x < Cap THEN x ELSE x - Cap
  BY <1>3, Turn
<1>5. PICK start : start = x % Cap
  OBVIOUS
<1>6. start = IF h < s THEN h - s + Cap ELSE h - s
  BY <1>1, <1>2, <1>4, <1>5
<1>7. start \in 0..Cap - 1
  BY <1>1, <1>6
<1>8. ASSUME start + s <= Cap, NEW i \in 1..s PROVE Back(h, s + 1 - i) = start + i - 1
  BY <1>1, <1>6, <1>8 DEF Back
<1>9. ASSUME start + s > Cap
      PROVE  /\ start = h - s + Cap /\ h < s
             /\ \A i \in 1..s - h : Back(h, s + 1 - i) = h - s + Cap + i - 1
             /\ \A i \in s - h + 1..s : Back(h, s + 1 - i) = i - (s - h) - 1
  <2>1. start = h - s + Cap /\ h < s
    BY <1>1, <1>6, <1>9
  <2>2. ASSUME NEW i \in 1..s - h PROVE Back(h, s + 1 - i) = h - s + Cap + i - 1
    BY <1>1, <2>1 DEF Back
  <2>3. ASSUME NEW i \in s - h + 1..s PROVE Back(h, s + 1 - i) = i - (s - h) - 1
    BY <1>1, <2>1 DEF Back
  <2> QED BY <2>1, <2>2, <2>3
<1> QED BY <1>2, <1>5, <1>7, <1>8, <1>9

(* circularBuffer.GetHistory returns what the buffer holds, in order.      *)
LEMMA HistoryHolds ==
  ASSUME NEW cb, NEW w \in Seq(Cell), Holds(cb, w)
  PROVE  GetHistory(cb) = SubSeq(w, Len(w) - cb.size + 1, Len(w))
<1>p. PICK h, s, data, n, start, history, tail :
         /\ h = cb.head /\ s = cb.size /\ data = cb.data /\ n = Len(w)
         /\ start = (h - s + Cap) % Cap
         /\ history = GetHistory(cb) /\ tail = SubSeq(w, n - s + 1, n)
  OBVIOUS
<1>1. /\ h \in 0..Cap - 1 /\ s \in 0..Cap /\ data \in [0..Cap - 1 -> Cell] /\ Cap \in Nat
      /\ n \in Nat /\ s <= n
  <2>1. h \in 0..Cap - 1 /\ s \in 0..Cap /\ data \in [0..Cap - 1 -> Cell]
    BY <1>p DEF Holds, Buffers, Cell
  <2>2. n \in Nat /\ Cap \in Nat
    BY <1>p, LenProperties, BufferAssumption
  <2>3. s = IF n < Cap THEN n ELSE Cap
    BY <1>p DEF Holds
  <2> QED BY <2>1, <2>2, <2>3
<1>2. \A d \in 1..s : data[Back(h, d)] = w[n + 1 - d]
  BY <1>p DEF Holds
<1>3. tail \in Seq(Cell) /\ Len(tail) = s /\ \A i \in 1..s : tail[i] = w[n - s + i]
  <2>0. PICK i : i = n - s
    OBVIOUS
  <2>1. i \in 0..n /\ s \in Nat /\ i + s = n /\ i + s <= n
    BY <1>1, <2>0
  <2>2. i \in 0..Len(w) /\ s \in Nat /\ i + s <= Len(w)
    BY <1>p, <2>1
  <2>3. /\ SubSeq(w, i + 1, i + s) \in Seq(Cell)
        /\ Len(SubSeq(w, i + 1, i + s)) = s
        /\ \A k \in 1..s : SubSeq(w, i + 1, i + s)[k] = w[i + k]
    BY <2>2, PartOf
  <2>4. tail = SubSeq(w, i + 1, i + s)
    BY <1>p, <2>0, <2>1
  <2> QED BY <2>0, <2>3, <2>4
<1>4. \A i \in 1..s : tail[i] = data[Back(h, s + 1 - i)]
  <2> SUFFICES ASSUME NEW i \in 1..s PROVE tail[i] = data[Back(h, s + 1 - i)]
    OBVIOUS
  <2>1. s + 1 - i \in 1..s /\ n + 1 - (s + 1 - i) = n - s + i
    BY <1>1
  <2> QED BY <1>2, <1>3, <2>1
<1>5. history = IF start + s <= Cap THEN Cut(data, start, start + s)
                ELSE Cut(data, start, Cap) \o Cut(data, 0, s - (Cap - start))
  BY <1>p DEF GetHistory, Cut
<1>6. /\ start \in 0..Cap - 1
      /\ start + s <= Cap => \A i \in 1..s : Back(h, s + 1 - i) = start + i - 1
      /\ start + s > Cap =>
            /\ start = h - s + Cap /\ h < s
            /\ \A i \in 1..s - h : Back(h, s + 1 - i) = h - s + Cap + i - 1
            /\ \A i \in s - h + 1..s : Back(h, s + 1 - i) = i - (s - h) - 1
  BY <1>p, <1>1, HistoryPlaces
<1>7. history \in Seq(Cell) /\ Len(history) = s /\ \A i \in 1..s : history[i] = data[Back(h, s + 1 - i)]
  <2>1. CASE start + s <= Cap
    <3>1. PICK j : j = start + s
      OBVIOUS
    <3>2. start \in 0..Cap /\ j \in 0..Cap /\ start <= j /\ j - start = s
      BY <1>1, <1>6, <2>1, <3>1
    <3>3. history = Cut(data, start, j)
      BY <1>5, <2>1, <3>1
    <3>4. /\ history \in Seq(Cell) /\ Len(history) = s
          /\ \A k \in 1..s : history[k] = data[start + k - 1]
      <4>1. IsCut(history, data, start, j - start)
        BY <1>1, <3>2, <3>3, CutCells
      <4> QED BY <3>2, <4>1 DEF IsCut
    <3> QED BY <1>6, <2>1, <3>4
  <2>2. CASE start + s > Cap
    <3>1. PICK a, b : a = Cut(data, start, Cap) /\ b = Cut(data, 0, h)
      OBVIOUS
    <3>2. start = h - s + Cap /\ h < s /\ Cap - start = s - h /\ s - (Cap - start) = h
      BY <1>1, <1>6, <2>2
    <3>3. history = a \o b
      BY <1>1, <1>5, <1>6, <2>2, <3>1, <3>2
    <3>4. /\ a \in Seq(Cell) /\ Len(a) = s - h
          /\ \A k \in 1..s - h : a[k] = data[start + k - 1]
      <4>1. start \in 0..Cap /\ Cap \in 0..Cap /\ start <= Cap
        BY <1>1, <1>6
      <4>2. IsCut(a, data, start, Cap - start)
        BY <1>1, <3>1, <4>1, CutCells
      <4> QED BY <3>2, <4>2 DEF IsCut
    <3>5. b \in Seq(Cell) /\ Len(b) = h /\ \A k \in 1..h : b[k] = data[k - 1]
      <4>0. PICK z : z = 0
        OBVIOUS
      <4>1. z \in 0..Cap /\ h \in 0..Cap /\ z <= h /\ h - z = h /\ b = Cut(data, z, h)
        BY <1>1, <3>1, <4>0
      <4>2. b \in Seq(Cell) /\ Len(b) = h /\ \A k \in 1..h : b[k] = data[z + k - 1]
        <5>1. IsCut(b, data, z, h - z)
          BY <1>1, <4>1, CutCells
        <5> QED BY <4>1, <5>1 DEF IsCut
      <4>3. \A k \in 1..h : z + k - 1 = k - 1
        BY <1>1, <4>0
      <4> QED BY <4>2, <4>3
    <3>6. PICK m : m = s - h
      OBVIOUS
    <3>7. m \in Nat /\ h \in Nat /\ m + h = s
      BY <1>1, <3>2, <3>6
    <3>8. /\ history \in Seq(Cell) /\ Len(history) = m + h
          /\ \A i \in 1..m + h : history[i] = IF i <= m THEN a[i] ELSE b[i - m]
      BY <3>3, <3>4, <3>5, <3>6, ConcatProperties
    <3>9. ASSUME NEW i \in 1..s PROVE history[i] = data[Back(h, s + 1 - i)]
      <4>1. CASE i <= m
        <5>1. i \in 1..s - h
          BY <1>1, <3>6, <4>1
        <5>2. history[i] = a[i]
          BY <3>7, <3>8, <4>1
        <5>3. a[i] = data[start + i - 1]
          BY <3>4, <5>1
        <5>4. Back(h, s + 1 - i) = h - s + Cap + i - 1
          BY <1>6, <2>2, <5>1
        <5> QED BY <3>2, <5>2, <5>3, <5>4
      <4>2. CASE i > m
        <5>1. i \in s - h + 1..s /\ i - m \in 1..h /\ i - m = i - (s - h)
          BY <1>1, <3>6, <3>7, <4>2
        <5>2. history[i] = b[i - m]
          BY <3>7, <3>8, <4>2
        <5>3. b[i - m] = data[i - m - 1]
          BY <3>5, <5>1
        <5>4. Back(h, s + 1 - i) = i - (s - h) - 1
          BY <1>6, <2>2, <5>1
        <5> QED BY <5>1, <5>2, <5>3, <5>4
      <4> QED BY <3>7, <4>1, <4>2
    <3> QED BY <3>7, <3>8, <3>9
  <2> QED BY <1>1, <1>6, <2>1, <2>2
<1>8. history = tail
  BY <1>3, <1>4, <1>7, SeqEqual
<1> QED BY <1>8, <1>p

-----------------------------------------------------------------------------
MonitorInv == written \in Seq(Cell) /\ Holds(buffer, written)

(* A step leaves buffer and history alone, or is a Monitor.Write.          *)
LEMMA StoreKinds ==
  ASSUME [Next]_vars
  PROVE  Silent \/ (Store /\ issued < MaxEvents)
<1>1. ASSUME NEW t, Publish(t) \/ HandleAndTalk(t) PROVE issued < MaxEvents
  BY <1>1 DEF Publish, HandleAndTalk, Begin
<1>2. ASSUME NEW w \in Writers, Write(w) PROVE Store /\ issued < MaxEvents
  BY <1>1, <1>2 DEF Write
<1>3. ASSUME NEW c, \/ StreamHistory(c) \/ StreamSkipsHistory(c) \/ StreamSubscribes(c)
                    \/ StreamHandles(c) \/ EventsSubscribes(c) \/ Take(c) \/ Disconnect(c)
                    \/ Leave(c) \/ Dispatch(c)
      PROVE  Silent
  BY <1>3 DEF StreamHistory, StreamSkipsHistory, StreamSubscribes, StreamHandles,
              EventsSubscribes, Take, Disconnect, Leave, Dispatch
<1>4. ASSUME NEW c, EventsSendsHistory(c) \/ EventsHandles(c)
      PROVE  Silent \/ (Store /\ issued < MaxEvents)
  BY <1>1, <1>4 DEF EventsSendsHistory, EventsHandles
<1>5. CASE UNCHANGED vars
  BY <1>5 DEF vars, Silent
<1> QED BY <1>2, <1>3, <1>4, <1>5 DEF Next

(* The buffer keeps the last bytes written.                                *)
LEMMA MonitorInvKept ==
  ASSUME BusTypeOK, MonitorInv, [Next]_vars
  PROVE  MonitorInv'
<1>1. CASE Silent
  <2>1. buffer' = buffer /\ written' = written
    BY <1>1 DEF Silent
  <2> QED BY <2>1 DEF MonitorInv
<1>2. CASE Store /\ issued < MaxEvents
  <2>1. PICK p : p = Cells(issued + 1)
    OBVIOUS
  <2>2. buffer' = Put(buffer, p) /\ written' = written \o p
    BY <1>2, <2>1 DEF Store
  <2>3. issued + 1 \in 1..MaxEvents
    <3>1. issued \in 0..MaxEvents
      BY DEF BusTypeOK
    <3> QED BY <1>2, <3>1
  <2>4. p \in Seq(Cell) /\ Len(p) # 0
    BY <2>1, <2>3, CellsType
  <2>5. p # <<>>
    BY <2>4, EmptySeq
  <2>6. Holds(Put(buffer, p), written \o p)
    BY <2>4, <2>5, PutHolds DEF MonitorInv
  <2>7. written \o p \in Seq(Cell)
    BY <2>4, ConcatProperties DEF MonitorInv
  <2>8. Holds(buffer', written')
    BY <2>2, <2>6
  <2> QED BY <2>2, <2>7, <2>8 DEF MonitorInv
<1> QED BY <1>1, <1>2, StoreKinds

(* The buffer begins empty.                                                *)
LEMMA MonitorInvStart == Init => MonitorInv
<1> SUFFICES ASSUME Init PROVE MonitorInv OBVIOUS
<1>1. /\ buffer = [data |-> [i \in 0..Cap - 1 |-> Blank], head |-> 0, size |-> 0]
      /\ written = <<>>
  BY DEF Init
<1>2. Cap \in Nat /\ Cap >= 1 /\ Blank \in Nat \X Nat
  BY BufferAssumption DEF Blank
<1>3. buffer \in Buffers
  BY <1>1, <1>2 DEF Buffers
<1>4. written \in Seq(Cell) /\ Len(written) = 0
  BY <1>1, EmptySeq
<1>5. buffer.size = 0
  BY <1>1
<1>6. Holds(buffer, written)
  BY <1>2, <1>3, <1>4, <1>5 DEF Holds
<1> QED BY <1>4, <1>6 DEF MonitorInv

(* circularBuffer: GetHistory returns the last bytes written, as many as   *)
(* the buffer holds, for any capacity and lines of any length.             *)
THEOREM HistoryIsWhatWasWritten == Spec => []HistoryIsTheTail
<1>1. MonitorInv => HistoryIsTheTail
  <2> SUFFICES ASSUME MonitorInv PROVE HistoryIsTheTail OBVIOUS
  <2>1. buffer.size = IF Len(written) < Cap THEN Len(written) ELSE Cap
    BY DEF MonitorInv, Holds
  <2>2. GetHistory(buffer) = SubSeq(written, Len(written) - buffer.size + 1, Len(written))
    BY HistoryHolds DEF MonitorInv
  <2> QED BY <2>1, <2>2 DEF HistoryIsTheTail
<1>2. BusInv /\ MonitorInv /\ [Next]_vars => MonitorInv'
  BY MonitorInvKept DEF BusInv
<1> QED BY <1>1, <1>2, MonitorInvStart, MonitorInvariance, PTL DEF Spec

-----------------------------------------------------------------------------
(* How the history that a client was sent meets the live lines.            *)

(* A line within the first n cells that were written.                      *)
Stored(line, n) == \A i \in 1..SizeOf[line] : \E k \in 1..n : written[k] = <<line, i>>

(* Every line is stored before it is published.                            *)
WrittenInv ==
    /\ \A k \in 1..Len(written) : written[k][1] \in 1..issued
    /\ \A line \in 1..issued : Stored(line, Len(written))

(* The last cells of the first n that were written.                        *)
IsLatest(cells, n) ==
    /\ cells \in Seq(Cell)
    /\ Len(cells) = IF n < Cap THEN n ELSE Cap
    /\ \A j \in 1..Len(cells) : cells[j] = written[n - Len(cells) + j]

Live(c) == {log[i] : i \in from[c] + 1..Len(log)}
Before(c, m) == 1..m \ told[c].flying

(* The history of c was read when n cells and m lines had been stored.     *)
Covers(c, n, m) ==
    /\ IsLatest(told[c].cells, n)
    /\ \A k \in 1..n : written[k][1] \in 1..m
    /\ \A line \in 1..m : Stored(line, n)
    /\ c \in Talkers => \A line \in m + 1..issued : line \in LinesInFlight \cup Live(c)
    /\ c \in Streams =>
          /\ Before(c, m) \cap LinesInFlight = {}
          /\ at[c] = "open" => Before(c, m) \cap Live(c) = {}

ToldTypes == told \in [Consumers -> [sent : BOOLEAN, cells : Seq(Cell), flying : SUBSET Nat]]

ToldInv ==
    /\ ToldTypes
    /\ WrittenInv
    /\ \A c \in Consumers : told[c].sent =>
          /\ at[c] \in {"asked", "open"}
          /\ \E n \in 0..Len(written), m \in 0..issued : Covers(c, n, m)

(* A step begins no publication and writes nothing, or does both.          *)
LEMMA LineKinds ==
  ASSUME BusTypeOK, [Next]_vars
  PROVE  (Silent /\ issued' = issued) \/ (Store /\ issued' = issued + 1 /\ issued < MaxEvents)
<1>1. ASSUME NEW t, Publish(t) \/ HandleAndTalk(t) PROVE issued' = issued + 1 /\ issued < MaxEvents
  BY <1>1 DEF Publish, HandleAndTalk, Begin
<1>2. ASSUME NEW w \in Writers, Write(w) PROVE Store /\ issued' = issued + 1 /\ issued < MaxEvents
  BY <1>1, <1>2 DEF Write
<1>3. ASSUME NEW c, \/ StreamHistory(c) \/ StreamSkipsHistory(c) \/ StreamSubscribes(c)
                    \/ StreamHandles(c) \/ EventsSubscribes(c) \/ Take(c) \/ Disconnect(c)
                    \/ Leave(c)
      PROVE  Silent /\ issued' = issued
  BY <1>3 DEF StreamHistory, StreamSkipsHistory, StreamSubscribes, StreamHandles,
              EventsSubscribes, Take, Disconnect, Leave, busVars, Subscribe, Unsubscribe, Handle
<1>4. ASSUME NEW t, Dispatch(t) PROVE Silent /\ issued' = issued
  BY <1>4 DEF Dispatch, Offer, Listen, Find, WaitForRoom, Broadcast, ListenEnds, ListenSleeps,
              Swap, Notify
<1>5. ASSUME NEW c, EventsSendsHistory(c) \/ EventsHandles(c)
      PROVE  (Silent /\ issued' = issued) \/ (Store /\ issued' = issued + 1 /\ issued < MaxEvents)
  BY <1>1, <1>5 DEF EventsSendsHistory, EventsHandles, busVars, Handle
<1>6. CASE UNCHANGED vars
  BY <1>6 DEF vars, busVars, Silent
<1> QED BY <1>2, <1>3, <1>4, <1>5, <1>6 DEF Next

(* What was written stays where it was, and a new line comes after it.     *)
LEMMA WrittenGrows ==
  ASSUME BusTypeOK, MonitorInv, WrittenInv, [Next]_vars
  PROVE  /\ WrittenInv' /\ Len(written) \in Nat /\ Len(written') \in Nat /\ issued <= issued'
         /\ Len(written) <= Len(written')
         /\ \A k \in 1..Len(written) : written'[k] = written[k]
<1>t. issued \in Nat /\ written \in Seq(Cell) /\ Len(written) \in Nat
  <2>1. written \in Seq(Cell)
    BY DEF MonitorInv
  <2> QED BY <2>1, LenProperties, SMT DEF BusTypeOK
<1>1. CASE Silent /\ issued' = issued
  <2>1. written' = written /\ issued' = issued
    BY <1>1 DEF Silent
  <2>2. WrittenInv'
    BY <2>1 DEF WrittenInv, Stored
  <2>3. Len(written') = Len(written) /\ issued <= issued'
    BY <1>t, <2>1
  <2> QED BY <1>t, <2>1, <2>2, <2>3
<1>2. CASE Store /\ issued' = issued + 1 /\ issued < MaxEvents
  <2> DEFINE new == issued + 1
  <2>1. new \in 1..MaxEvents /\ new \in Nat
    BY <1>t, <1>2
  <2>2. PICK p : p = Cells(new)
    OBVIOUS
  <2>3. p \in Seq(Cell) /\ Len(p) = SizeOf[new] /\ SizeOf[new] \in Nat
    BY <2>1, <2>2, CellsType
  <2>4. \A i \in 1..SizeOf[new] : p[i] = <<new, i>>
    BY <2>2 DEF Cells
  <2>5. written' = written \o p /\ issued' = new
    BY <1>2, <2>2 DEF Store
  <2> HIDE DEF new
  <2>6. PICK old, size : old = Len(written) /\ size = SizeOf[new]
    OBVIOUS
  <2>7. old \in Nat /\ size \in Nat /\ Len(p) = size
    BY <1>t, <2>3, <2>6
  <2>8. Len(written') = old + size
    BY <1>t, <2>3, <2>5, <2>6, <2>7, ConcatProperties
  <2>9. \A k \in 1..old + size : written'[k] = IF k <= old THEN written[k] ELSE p[k - old]
    BY <1>t, <2>3, <2>5, <2>6, <2>7, ConcatProperties
  <2>10. \A k \in 1..old : written'[k] = written[k]
    BY <2>7, <2>9
  <2>11. \A i \in 1..size : written'[old + i] = <<new, i>>
    <3> TAKE i \in 1..size
    <3>1. PICK k : k = old + i
      OBVIOUS
    <3>2. k \in 1..old + size /\ ~(k <= old) /\ k - old = i
      BY <2>7, <3>1
    <3>3. written'[k] = p[k - old]
      BY <2>9, <3>2
    <3> QED BY <2>4, <2>6, <3>1, <3>2, <3>3
  <2>12. \A k \in 1..old + size : k \in 1..old \/ \E i \in 1..size : k = old + i
    <3> TAKE k \in 1..old + size
    <3>1. k \in 1..old \/ (k - old \in 1..size /\ k = old + (k - old))
      BY <2>7
    <3> QED BY <3>1
  <2>13. \A k \in 1..old + size : written'[k][1] \in 1..new
    <3> TAKE k \in 1..old + size
    <3>1. CASE k \in 1..old
      <4>1. written'[k] = written[k] /\ written[k][1] \in 1..issued
        BY <2>6, <2>10, <3>1 DEF WrittenInv
      <4> QED BY <1>t, <4>1 DEF new
    <3>2. ASSUME NEW i \in 1..size, k = old + i PROVE written'[k][1] \in 1..new
      BY <2>1, <2>11, <3>2
    <3> QED BY <2>12, <3>1, <3>2
  <2>14. \A line \in 1..new : line \in 1..issued \/ line = new
    BY <1>t DEF new
  <2>15. ASSUME NEW line \in 1..new, NEW i \in 1..SizeOf[line]
         PROVE  \E k \in 1..old + size : written'[k] = <<line, i>>
    <3>1. CASE line \in 1..issued
      <4>1. PICK k \in 1..old : written[k] = <<line, i>>
        BY <2>6, <2>15, <3>1 DEF WrittenInv, Stored
      <4>2. k \in 1..old + size
        BY <2>7
      <4> QED BY <2>10, <4>1, <4>2
    <3>2. CASE line = new
      <4>1. i \in 1..size /\ old + i \in 1..old + size
        BY <2>6, <2>7, <3>2
      <4> QED BY <2>11, <3>2, <4>1
    <3> QED BY <2>14, <3>1, <3>2
  <2>16. WrittenInv'
    BY <2>5, <2>8, <2>13, <2>15 DEF WrittenInv, Stored
  <2>17. issued <= issued'
    BY <1>t, <2>5 DEF new
  <2> QED BY <1>t, <2>6, <2>7, <2>8, <2>10, <2>16, <2>17
<1> QED BY <1>1, <1>2, LineKinds

(* Whose handler is open has subscribed within the log.                    *)
LEMMA OpenWithinTheLog ==
  ASSUME BusInv, ClientInv, NEW c \in Consumers, at[c] = "open"
  PROVE  from[c] \in Nat /\ Len(log) \in Nat /\ from[c] <= Len(log)
<1>1. log \in Seq(Nat) /\ Len(log) \in Nat
  <2>1. log \in Seq(Nat)
    BY DEF BusInv, BusTypeOK
  <2> QED BY <2>1, LenProperties
<1>2. c \in subs \/ stop[c]
  BY DEF ClientInv, Presence, BusInv, Standings
<1> DEFINE g == Len(given[c])  p == Len(pend[c])  q == Len(queue[c])
<1>3. g \in Nat /\ p \in Nat /\ q \in Nat /\ from[c] \in Nat /\ upto[c] \in Nat
  BY SequenceTypes DEF BusInv
<1>4. from[c] + g + p + q = Len(log) \/ (from[c] + g + p + q = upto[c] /\ upto[c] <= Len(log))
  BY <1>2 DEF BusInv, Lengths
<1> HIDE DEF g, p, q
<1> QED BY <1>1, <1>3, <1>4

(* A line on its way stays there or is published; it is dropped only while *)
(* nobody has subscribed.                                                  *)
LEMMA LinesMove ==
  ASSUME BusInv, BusInv', [Next]_vars
  PROVE  /\ LinesInFlight' \subseteq LinesInFlight \cup issued + 1..issued'
         /\ issued + 1..issued' \subseteq LinesInFlight'
         /\ Len(log) \in Nat /\ Len(log') \in Nat /\ Len(log) <= Len(log')
         /\ \A i \in 1..Len(log) : log'[i] = log[i]
         /\ \A i \in Len(log) + 1..Len(log') : log'[i] \in LinesInFlight
         /\ registered => LinesInFlight \subseteq LinesInFlight' \cup {log'[i] : i \in Len(log) + 1..Len(log')}
<1>t. issued \in Nat /\ log \in Seq(Nat) /\ Len(log) \in Nat /\ ev \in [Threads -> Nat]
  <2>1. log \in Seq(Nat)
    BY DEF BusInv, BusTypeOK
  <2> QED BY <2>1, LenProperties, SMT DEF BusInv, BusTypeOK
<1>f. /\ \A t \in Threads : pc[t] \in Publishing => ev[t] \in LinesInFlight
      /\ \A x \in LinesInFlight : \E t \in Threads : pc[t] \in Publishing /\ ev[t] = x
      /\ \A t \in Threads : pc'[t] \in Publishing => ev'[t] \in LinesInFlight'
      /\ \A x \in LinesInFlight' : \E t \in Threads : pc'[t] \in Publishing /\ ev'[t] = x
  BY DEF LinesInFlight, Publishing
<1>1. CASE NothingMoves
  <2>1. LinesInFlight' = LinesInFlight
    BY <1>1, <1>f DEF NothingMoves
  <2> QED BY <1>1, <1>t, <2>1 DEF NothingMoves
<1>2. ASSUME NEW t \in Threads, Begins(t)
      PROVE  /\ issued' = issued + 1 /\ log' = log
             /\ LinesInFlight' = LinesInFlight \cup {issued + 1}
  <2>1. /\ issued' = issued + 1 /\ log' = log /\ ev'[t] = issued + 1 /\ pc[t] \notin Publishing
        /\ \A u \in Threads \ {t} : ev'[u] = ev[u] /\ (pc'[u] \in Publishing <=> pc[u] \in Publishing)
    BY <1>2 DEF Begins, OthersStay
  <2>2. pc'[t] \in Publishing
    BY <1>2 DEF Begins
  <2> QED BY <1>f, <2>1, <2>2
<1>3. ASSUME NEW t \in Threads, Drops(t)
      PROVE  /\ issued' = issued /\ log' = log /\ ~registered
             /\ LinesInFlight' \subseteq LinesInFlight
  BY <1>3, <1>f DEF Drops, OthersStay
<1>4. ASSUME NEW t \in Threads, Posts(t)
      PROVE  /\ issued' = issued /\ log' = Append(log, ev[t]) /\ ev[t] \in LinesInFlight
             /\ LinesInFlight' \subseteq LinesInFlight
             /\ LinesInFlight \subseteq LinesInFlight' \cup {ev[t]}
  BY <1>4, <1>f DEF Posts, OthersStay
<1>5. ASSUME NEW t \in Threads, Begins(t) \/ Drops(t)
      PROVE  /\ Len(log') = Len(log) /\ log' = log
             /\ LinesInFlight' \subseteq LinesInFlight \cup issued + 1..issued'
             /\ issued + 1..issued' \subseteq LinesInFlight'
             /\ registered => LinesInFlight \subseteq LinesInFlight'
  BY <1>2, <1>3, <1>5, <1>t
<1>6. ASSUME NEW t \in Threads, Posts(t)
      PROVE  /\ Len(log') = Len(log) + 1 /\ log'[Len(log) + 1] = ev[t]
             /\ \A i \in 1..Len(log) : log'[i] = log[i]
  BY <1>4, <1>6, <1>t, AppendProperties
<1>7. NothingMoves \/ \E t \in Threads : Begins(t) \/ Drops(t) \/ Posts(t)
  BY StepOfTheBus, MoveKinds DEF BusInv
<1>8. ASSUME NEW t \in Threads, Begins(t) \/ Drops(t)
      PROVE  /\ LinesInFlight' \subseteq LinesInFlight \cup issued + 1..issued'
             /\ issued + 1..issued' \subseteq LinesInFlight'
             /\ Len(log') \in Nat /\ Len(log) <= Len(log')
             /\ \A i \in 1..Len(log) : log'[i] = log[i]
             /\ \A i \in Len(log) + 1..Len(log') : log'[i] \in LinesInFlight
             /\ registered => LinesInFlight \subseteq LinesInFlight' \cup {log'[i] : i \in Len(log) + 1..Len(log')}
  BY <1>5, <1>8, <1>t
<1>9. ASSUME NEW t \in Threads, Posts(t)
      PROVE  /\ LinesInFlight' \subseteq LinesInFlight \cup issued + 1..issued'
             /\ issued + 1..issued' \subseteq LinesInFlight'
             /\ Len(log') \in Nat /\ Len(log) <= Len(log')
             /\ \A i \in 1..Len(log) : log'[i] = log[i]
             /\ \A i \in Len(log) + 1..Len(log') : log'[i] \in LinesInFlight
             /\ registered => LinesInFlight \subseteq LinesInFlight' \cup {log'[i] : i \in Len(log) + 1..Len(log')}
  <2>1. \A i \in Len(log) + 1..Len(log') : i = Len(log) + 1
    BY <1>6, <1>9, <1>t
  <2>2. Len(log) + 1 \in Len(log) + 1..Len(log') /\ issued + 1..issued' = {}
    BY <1>4, <1>6, <1>9, <1>t
  <2> QED BY <1>4, <1>6, <1>9, <1>t, <2>1, <2>2
<1> QED BY <1>1, <1>7, <1>8, <1>9, <1>t DEF NothingMoves

(* What the history covers it goes on to cover.                            *)
LEMMA CoversKept ==
  ASSUME BusInv, BusInv', ClientInv, MonitorInv, WrittenInv, [Next]_vars,
         NEW c \in Consumers, NEW n \in 0..Len(written), NEW m \in 0..issued, Covers(c, n, m),
         told'[c] = told[c], at'[c] = at[c], from'[c] = from[c], at[c] = "open" \/ c \notin Talkers
  PROVE  n \in 0..Len(written') /\ m \in 0..issued' /\ Covers(c, n, m)'
<1>w. /\ Len(written) \in Nat /\ Len(written') \in Nat /\ issued <= issued'
      /\ Len(written) <= Len(written') /\ \A k \in 1..Len(written) : written'[k] = written[k]
  BY WrittenGrows DEF BusInv
<1>t. issued \in Nat /\ issued' \in Nat /\ n \in Nat /\ m \in Nat /\ m <= issued /\ n <= Len(written)
  BY <1>w, SMT DEF BusInv, BusTypeOK
<1>1. \A k \in 1..n : written'[k] = written[k]
  BY <1>t, <1>w
<1>2. IsLatest(told[c].cells, n)'
  <2> DEFINE cells == told[c].cells
  <2>1. /\ cells \in Seq(Cell) /\ Len(cells) = (IF n < Cap THEN n ELSE Cap)
        /\ \A j \in 1..Len(cells) : cells[j] = written[n - Len(cells) + j]
    BY DEF Covers, IsLatest
  <2>2. \A j \in 1..Len(cells) : n - Len(cells) + j \in 1..n
    BY <1>t, <2>1, BufferAssumption
  <2>3. \A j \in 1..Len(cells) : cells[j] = written'[n - Len(cells) + j]
    BY <1>1, <2>1, <2>2
  <2>4. told'[c].cells = cells
    OBVIOUS
  <2> HIDE DEF cells
  <2> QED BY <2>1, <2>3, <2>4 DEF IsLatest
<1>3. /\ \A k \in 1..n : written'[k][1] \in 1..m
      /\ \A line \in 1..m : Stored(line, n)'
  BY <1>1 DEF Covers, Stored
<1>4. /\ LinesInFlight' \subseteq LinesInFlight \cup issued + 1..issued'
      /\ issued + 1..issued' \subseteq LinesInFlight'
      /\ Len(log) \in Nat /\ Len(log') \in Nat /\ Len(log) <= Len(log')
      /\ \A i \in 1..Len(log) : log'[i] = log[i]
      /\ \A i \in Len(log) + 1..Len(log') : log'[i] \in LinesInFlight
      /\ registered => LinesInFlight \subseteq LinesInFlight' \cup {log'[i] : i \in Len(log) + 1..Len(log')}
  BY LinesMove
<1>5. at[c] = "open" => from[c] \in Nat /\ from[c] <= Len(log)
  BY OpenWithinTheLog
<1>6. at[c] = "open" => Live(c)' = Live(c) \cup {log'[i] : i \in Len(log) + 1..Len(log')}
  <2> SUFFICES ASSUME at[c] = "open"
               PROVE  Live(c)' = Live(c) \cup {log'[i] : i \in Len(log) + 1..Len(log')}
    OBVIOUS
  <2>1. Live(c)' = {log'[i] : i \in from[c] + 1..Len(log')}
    BY DEF Live
  <2>2. \A i \in from[c] + 1..Len(log') : i \in from[c] + 1..Len(log) \/ i \in Len(log) + 1..Len(log')
    BY <1>4, <1>5
  <2>3. /\ \A i \in from[c] + 1..Len(log) : i \in from[c] + 1..Len(log') /\ i \in 1..Len(log)
        /\ \A i \in Len(log) + 1..Len(log') : i \in from[c] + 1..Len(log')
    BY <1>4, <1>5
  <2> QED BY <1>4, <2>1, <2>2, <2>3 DEF Live
<1>7. c \in Talkers => \A line \in m + 1..issued' : line \in LinesInFlight' \cup Live(c)'
  <2> SUFFICES ASSUME c \in Talkers, NEW line \in m + 1..issued'
               PROVE  line \in LinesInFlight' \cup Live(c)'
    OBVIOUS
  <2>1. registered
    BY DEF ClientInv, Known
  <2>2. line \in m + 1..issued \/ line \in issued + 1..issued'
    BY <1>t
  <2>3. CASE line \in m + 1..issued
    <3>1. line \in LinesInFlight \cup Live(c)
      BY <2>3 DEF Covers
    <3> QED BY <1>4, <1>6, <2>1, <3>1
  <2> QED BY <1>4, <2>2, <2>3
<1>8. Before(c, m)' = Before(c, m) /\ \A line \in issued + 1..issued' : line \notin Before(c, m)
  BY <1>t DEF Before
<1>9. c \in Streams =>
          /\ Before(c, m)' \cap LinesInFlight' = {}
          /\ at'[c] = "open" => Before(c, m)' \cap Live(c)' = {}
  BY <1>4, <1>6, <1>8 DEF Covers
<1>10. n \in 0..Len(written') /\ m \in 0..issued'
  BY <1>t, <1>w
<1> QED BY <1>2, <1>3, <1>7, <1>9, <1>10 DEF Covers

(* A history read now covers what is stored now.                           *)
LEMMA ReadingCovers ==
  ASSUME BusInv, BusInv', MonitorInv, WrittenInv, ToldTypes, NEW c \in Consumers,
         SendsHistory(c), Silent, UNCHANGED busVars, at'[c] = "open" => c \notin Streams
  PROVE  /\ ToldTypes'
         /\ Len(written) \in 0..Len(written') /\ issued \in 0..issued'
         /\ Covers(c, Len(written), issued)'
<1>t. issued \in Nat /\ written \in Seq(Cell) /\ Len(written) \in Nat /\ Cap \in Nat \ {0}
  <2>1. written \in Seq(Cell)
    BY DEF MonitorInv
  <2> QED BY <2>1, LenProperties, BufferAssumption, SMT DEF BusInv, BusTypeOK
<1>s. buffer' = buffer /\ written' = written /\ issued' = issued /\ log' = log /\ pc' = pc /\ ev' = ev
  BY DEF Silent, busVars
<1> DEFINE h == GetHistory(buffer)
           k == IF Len(written) < Cap THEN Len(written) ELSE Cap
<1>1. h = SubSeq(written, Len(written) - k + 1, Len(written))
  <2>1. buffer.size = k
    BY DEF MonitorInv, Holds
  <2> QED BY <2>1, HistoryHolds DEF MonitorInv
<1>2. k \in Nat /\ k <= Len(written) /\ Len(written) - k + 1 \in 1..Len(written) + 1
  <2>1. \A n \in Nat, b \in Nat : b <= n => n - b + 1 \in 1..n + 1
    OBVIOUS
  <2>2. k \in Nat /\ k <= Len(written)
    BY <1>t
  <2> HIDE DEF k
  <2> QED BY <1>t, <2>1, <2>2
<1>3. PICK a : a = Len(written) - k + 1
  OBVIOUS
<1> HIDE DEF k
<1>4. IsLatest(h, Len(written))
  <2>1. \A i \in a..Len(written) : written[i] \in Cell
    <3>1. \A i \in 1..Len(written) : written[i] \in Cell
      BY <1>t, ElementOfSeq
    <3>2. a \in Nat /\ a >= 1
      BY <1>2, <1>3
    <3> QED BY <1>t, <3>1, <3>2
  <2>2. a \in 1..Len(written) + 1
    BY <1>2, <1>3
  <2>3. /\ h \in Seq(Cell)
        /\ Len(h) = (IF a <= Len(written) THEN Len(written) - a + 1 ELSE 0)
        /\ \A i \in 1..Len(written) - a + 1 : h[i] = written[a + i - 1]
    BY <1>1, <1>3, <1>t, <2>1, <2>2, SubSeqProperties
  <2>4. Len(h) = k
    BY <1>2, <1>3, <1>t, <2>3
  <2>5. \A j \in 1..Len(h) : h[j] = written[Len(written) - Len(h) + j]
    <3> TAKE j \in 1..Len(h)
    <3>1. j \in 1..Len(written) - a + 1 /\ a + j - 1 = Len(written) - Len(h) + j
      BY <1>2, <1>3, <1>t, <2>4
    <3> QED BY <2>3, <3>1
  <2> HIDE DEF h
  <2> QED BY <2>3, <2>4, <2>5 DEF IsLatest, k
<1>5. told' = [told EXCEPT ![c] = [sent |-> TRUE, cells |-> h, flying |-> LinesInFlight]]
  BY DEF SendsHistory
<1>6. h \in Seq(Cell) /\ LinesInFlight \subseteq Nat
  <2>1. \A t \in Threads : pc[t] \in Publishing => ev[t] \in 1..issued
    BY DEF BusInv, Lines
  <2> QED BY <1>4, <1>t, <2>1 DEF IsLatest, LinesInFlight, Publishing
<1> HIDE DEF h
<1>7. told'[c].cells = h /\ told'[c].flying = LinesInFlight
  BY <1>5 DEF ToldTypes
<1>8. ToldTypes'
  BY <1>5, <1>6 DEF ToldTypes
<1>9. IsLatest(told[c].cells, Len(written))'
  BY <1>4, <1>7, <1>s DEF IsLatest
<1>10. /\ \A i \in 1..Len(written') : written'[i][1] \in 1..issued'
       /\ \A line \in 1..issued' : Stored(line, Len(written))'
  BY <1>s DEF WrittenInv, Stored
<1>11. LinesInFlight' = LinesInFlight /\ Before(c, issued)' \cap LinesInFlight' = {}
  <2>1. LinesInFlight' = LinesInFlight
    BY <1>s DEF LinesInFlight
  <2> QED BY <1>7, <2>1 DEF Before
<1>12. issued' + 1..issued' = {}
  BY <1>s, <1>t
<1>13. Len(written) \in 0..Len(written') /\ issued \in 0..issued'
  BY <1>s, <1>t
<1> QED BY <1>8, <1>9, <1>10, <1>11, <1>12, <1>13, <1>s DEF Covers

(* What the clients were told stays as described.                          *)
LEMMA ToldKept ==
  ASSUME BusInv, BusInv', ClientInv, ClientInv', MonitorInv, ToldInv, [Next]_vars
  PROVE  ToldInv'
<1> DEFINE Fine(d) == told[d].sent =>
               /\ at[d] \in {"asked", "open"}
               /\ \E n \in 0..Len(written), m \in 0..issued : Covers(d, n, m)
<1>w. WrittenInv'
  BY WrittenGrows DEF BusInv, ToldInv
<1>a. \A d \in Talkers : d \in Consumers /\ d \notin Streams
  BY DEF Streams
<1>b. \A d \in Consumers : Fine(d)
  BY DEF ToldInv
<1>c. at \in [Consumers -> ClientAt] /\ ToldTypes
  BY DEF ClientInv, ToldInv
(* A client whose handler has nothing to do with the step.                 *)
<1>1. ASSUME NEW d \in Consumers, told'[d] = told[d], at'[d] = at[d], from'[d] = from[d]
      PROVE  Fine(d)'
  <2> SUFFICES ASSUME told[d].sent
               PROVE  /\ at[d] \in {"asked", "open"}
                      /\ \E n \in 0..Len(written'), m \in 0..issued' : Covers(d, n, m)'
    BY <1>1
  <2>1. PICK n \in 0..Len(written), m \in 0..issued : Covers(d, n, m)
    BY <1>b
  <2>2. at[d] \in {"asked", "open"} /\ (at[d] = "open" \/ d \notin Talkers)
    BY <1>a, <1>b DEF ClientInv, Presence
  <2>3. n \in 0..Len(written') /\ m \in 0..issued' /\ Covers(d, n, m)'
    BY <1>1, <2>1, <2>2, CoversKept DEF ToldInv
  <2> QED BY <2>2, <2>3
<1>2. CASE StandsBy
  <2>1. UNCHANGED <<at, told, from>>
    BY <1>2 DEF StandsBy
  <2>2. \A d \in Consumers : Fine(d)'
    BY <1>1, <2>1
  <2>3. ToldTypes'
    BY <1>c, <2>1 DEF ToldTypes
  <2> QED BY <1>w, <2>2, <2>3 DEF ToldInv
<1>3. ASSUME NEW c \in Consumers, Reads(c) PROVE ToldInv'
  <2>1. /\ from' = from /\ \A d \in Consumers \ {c} : at'[d] = at[d] /\ told'[d] = told[d]
        /\ at'[c] \in {"asked", "open"} /\ (at'[c] = "open" => c \notin Streams)
    <3>1. told' = told \/ told' = [told EXCEPT ![c] = [sent |-> TRUE, cells |-> GetHistory(buffer), flying |-> LinesInFlight]]
      BY <1>3 DEF Reads, SendsHistory
    <3>2. \A d \in Consumers \ {c} : told'[d] = told[d]
      BY <1>c, <3>1 DEF ToldTypes
    <3> QED BY <1>3, <1>a, <1>c, <3>2 DEF Reads
  <2>2. \A d \in Consumers \ {c} : Fine(d)'
    BY <1>1, <2>1
  <2>3. CASE UNCHANGED told
    <3>1. at[c] \in {"away", "subscribed"}
      BY <1>3 DEF Reads
    <3>2. ~told[c].sent
      BY <1>b, <3>1
    <3>3. ToldTypes'
      BY <1>c, <2>3 DEF ToldTypes
    <3> QED BY <1>w, <2>2, <2>3, <3>2, <3>3 DEF ToldInv
  <2>4. CASE SendsHistory(c) /\ Silent /\ UNCHANGED busVars
    <3>1. /\ ToldTypes' /\ Len(written) \in 0..Len(written') /\ issued \in 0..issued'
          /\ Covers(c, Len(written), issued)'
      BY <1>c, <2>1, <2>4, ReadingCovers DEF ToldInv
    <3>2. written' = written /\ issued' = issued
      BY <2>4 DEF Silent, busVars
    <3>3. \E n \in 0..Len(written'), m \in 0..issued' : Covers(c, n, m)'
      BY <3>1, <3>2
    <3> QED BY <1>w, <2>1, <2>2, <3>1, <3>3 DEF ToldInv
  <2> QED BY <1>3, <2>3, <2>4 DEF Reads
<1>4. ASSUME NEW c \in Consumers, Joins(c) PROVE ToldInv'
  <2>1. told' = told /\ from' = [from EXCEPT ![c] = Len(log)] /\ log' = log
        /\ from \in [Consumers -> Nat]
    BY <1>4 DEF Joins, Subscribe, BusInv, BusTypeOK
  <2>2. from'[c] = Len(log) /\ \A d \in Consumers \ {c} : at'[d] = at[d] /\ from'[d] = from[d]
    BY <1>4, <1>c, <2>1 DEF Joins
  <2>3. \A d \in Consumers \ {c} : Fine(d)'
    BY <1>1, <2>1, <2>2
  <2>4. ToldTypes'
    BY <1>c, <2>1 DEF ToldTypes
  <2>5. Fine(c)'
    <3> SUFFICES ASSUME told[c].sent PROVE Fine(c)'
      BY <2>1
    <3>1. c \in Streams /\ at[c] = "asked" /\ at'[c] = "open" /\ c \notin Talkers
      BY <1>4, <1>a, <1>b, <1>c DEF Joins
    <3>2. PICK n \in 0..Len(written), m \in 0..issued : Covers(c, n, m)
      BY <1>b
    <3>3. Len(log) \in Nat /\ Live(c)' = {}
      <4>1. log \in Seq(Nat)
        BY DEF BusInv, BusTypeOK
      <4>2. Len(log) \in Nat
        BY <4>1, LenProperties
      <4>3. Len(log) + 1..Len(log) = {}
        BY <4>2
      <4> QED BY <2>1, <2>2, <4>2, <4>3 DEF Live
    <3>4. written' = written /\ issued' = issued /\ LinesInFlight' = LinesInFlight
      <4>1. issued' = issued /\ ev' = ev /\ pc' = [pc EXCEPT ![c] = "lock"] /\ pc[c] = "new"
        BY <1>4 DEF Joins, Subscribe
      <4>2. Silent
        <5>1. issued' # issued + 1
          BY <4>1, SMT DEF BusInv, BusTypeOK
        <5> QED BY <5>1, LineKinds DEF BusInv
      <4>3. pc \in [Threads -> Places]
        BY DEF BusInv, BusTypeOK, Places
      <4>4. \A t \in Threads : pc'[t] \in Publishing <=> pc[t] \in Publishing
        BY <4>1, <4>3 DEF Publishing
      <4> QED BY <4>1, <4>2, <4>4 DEF Silent, LinesInFlight, Publishing
    <3>5. Covers(c, n, m)'
      <4>1. told'[c] = told[c]
        BY <2>1
      <4> QED BY <3>1, <3>2, <3>3, <3>4, <4>1 DEF Covers, IsLatest, Stored, Before
    <3> QED BY <3>1, <3>4, <3>5
  <2> QED BY <1>w, <2>3, <2>4, <2>5 DEF ToldInv
<1>5. ASSUME NEW c \in Consumers, Leaves(c) PROVE ToldInv'
  <2>1. /\ told' = [told EXCEPT ![c] = Nothing] /\ from' = from
        /\ \A d \in Consumers \ {c} : at'[d] = at[d]
    BY <1>5, <1>c DEF Leaves
  <2>2. /\ \A d \in Consumers \ {c} : told'[d] = told[d]
        /\ ~told'[c].sent
    BY <1>c, <2>1 DEF ToldTypes, Nothing
  <2>3. <<>> \in Seq(Cell)
    BY EmptySeq
  <2>4. ToldTypes'
    BY <1>c, <2>1, <2>3 DEF ToldTypes, Nothing
  <2>5. \A d \in Consumers \ {c} : Fine(d)'
    BY <1>1, <2>1, <2>2
  <2> QED BY <1>w, <2>2, <2>4, <2>5 DEF ToldInv
<1> QED BY <1>2, <1>3, <1>4, <1>5, ClientKinds

(* Nobody has been told anything at the start.                             *)
LEMMA ToldStart == Init => ToldInv
<1> SUFFICES ASSUME Init PROVE ToldInv OBVIOUS
<1>1. written = <<>> /\ issued = 0 /\ told = [c \in Consumers |-> Nothing]
  BY DEF Init, BusInit
<1>2. Len(written) = 0 /\ <<>> \in Seq(Cell)
  BY <1>1, EmptySeq
<1>3. WrittenInv
  BY <1>1, <1>2 DEF WrittenInv
<1>4. \A c \in Consumers : ~told[c].sent
  BY <1>1 DEF Nothing
<1>5. ToldTypes
  BY <1>1, <1>2 DEF ToldTypes, Nothing
<1> QED BY <1>3, <1>4, <1>5 DEF ToldInv

(* All of it together.                                                     *)
LEMMA ToldInvariance == Spec => [](BusInv /\ ClientInv /\ MonitorInv /\ ToldInv)
<1>1. Init => MonitorInv /\ ToldInv
  BY MonitorInvStart, ToldStart
<1>2. /\ BusInv /\ BusInv' /\ ClientInv /\ ClientInv' /\ MonitorInv /\ ToldInv /\ [Next]_vars
      => MonitorInv' /\ ToldInv'
  BY MonitorInvKept, ToldKept DEF BusInv
<1> QED BY <1>1, <1>2, MonitorInvariance, PTL DEF Spec

(* A client of /api/system/events whose history was sent misses no line    *)
(* that was ever stored: the history has what the buffer still held of it, *)
(* or it comes live. One of /logs/stream sees a line twice only if its     *)
(* Write was on its way when the history was read.                         *)
THEOREM HistoryMeets == Spec => []HistoryMeetsLive
<1>1. BusInv /\ ClientInv /\ MonitorInv /\ ToldInv => HistoryMeetsLive
  <2> SUFFICES ASSUME BusInv, ClientInv, MonitorInv, ToldInv, NEW c \in Consumers,
                      at[c] = "open", told[c].sent
               PROVE  /\ c \in Talkers =>
                            \A line \in 1..issued \ (LinesInFlight \cup Live(c)) : \A k \in 1..SizeOf[line] :
                                Shows(c, <<line, k>>) \/ PushedOut(c, <<line, k>>)
                      /\ c \in Streams =>
                            \A line \in Live(c) : \A k \in 1..SizeOf[line] :
                                Shows(c, <<line, k>>) => line \in told[c].flying
    BY Zenon DEF HistoryMeetsLive, Live
  <2>1. PICK n \in 0..Len(written), m \in 0..issued : Covers(c, n, m)
    BY DEF ToldInv
  <2>2. PICK cells, old : cells = told[c].cells /\ old = n - Len(cells)
    OBVIOUS
  <2>3. /\ cells \in Seq(Cell) /\ Len(cells) = (IF n < Cap THEN n ELSE Cap)
        /\ \A j \in 1..Len(cells) : cells[j] = written[old + j]
    BY <2>1, <2>2 DEF Covers, IsLatest
  <2>4. /\ n \in Nat /\ n <= Len(written) /\ Len(written) \in Nat /\ issued \in Nat
        /\ m \in Nat /\ m <= issued /\ Cap \in Nat \ {0}
    <3>1. written \in Seq(Cell)
      BY DEF MonitorInv
    <3>2. Len(written) \in Nat /\ issued \in Nat
      BY <3>1, LenProperties, SMT DEF BusInv, BusTypeOK
    <3> QED BY <3>2, BufferAssumption
  <2>5. Len(cells) \in Nat /\ Len(cells) <= n /\ old \in Nat /\ (old > 0 => Len(cells) = Cap)
    BY <2>2, <2>3, <2>4
  <2>6. ASSUME c \in Talkers, NEW line \in 1..issued \ (LinesInFlight \cup Live(c)),
               NEW k \in 1..SizeOf[line]
        PROVE  Shows(c, <<line, k>>) \/ PushedOut(c, <<line, k>>)
    <3>1. line \in 1..m
      <4>1. line \notin m + 1..issued
        BY <2>1, <2>6 DEF Covers
      <4> QED BY <2>4, <2>6, <4>1
    <3>2. PICK p \in 1..n : written[p] = <<line, k>>
      BY <2>1, <2>6, <3>1 DEF Covers, Stored
    <3>3. CASE p > old
      <4>1. p - old \in 1..Len(cells) /\ old + (p - old) = p
        <5>1. \A len, o \in Nat : o = n - len /\ p > o => p - o \in 1..len /\ o + (p - o) = p
          BY <2>4
        <5> QED BY <2>2, <2>5, <3>3, <5>1
      <4>2. cells[p - old] = <<line, k>>
        BY <2>3, <3>2, <4>1
      <4> QED BY <2>2, <4>1, <4>2 DEF Shows
    <3>4. CASE p <= old
      <4>1. old > 0 /\ Len(cells) = Cap /\ 1 \in 1..Len(cells)
        BY <2>4, <2>5, <3>4
      <4>2. old + 1 \in 1..Len(written) /\ p \in 1..Len(written) /\ p < old + 1
        BY <2>2, <2>4, <2>5, <3>4, <4>1
      <4>3. written[old + 1] = cells[1]
        BY <2>3, <4>1
      <4> QED BY <2>2, <3>2, <4>1, <4>2, <4>3 DEF PushedOut
    <3> QED BY <2>4, <2>5, <3>3, <3>4
  <2>7. ASSUME c \in Streams, NEW line \in Live(c), NEW k \in 1..SizeOf[line], Shows(c, <<line, k>>)
        PROVE  line \in told[c].flying
    <3>1. PICK j \in 1..Len(cells) : cells[j] = <<line, k>>
      BY <2>2, <2>7 DEF Shows
    <3>2. old + j \in 1..n
      BY <2>2, <2>4, <2>5
    <3>3. written[old + j][1] \in 1..m /\ written[old + j] = <<line, k>>
      BY <2>1, <2>3, <3>1, <3>2 DEF Covers
    <3>4. line \in 1..m
      BY <3>3
    <3>5. line \notin Before(c, m)
      BY <2>1, <2>7 DEF Covers
    <3> QED BY <3>4, <3>5 DEF Before
  <2> QED BY <2>6, <2>7
<1> QED BY <1>1, ToldInvariance, PTL

-----------------------------------------------------------------------------
(* A sendBuffer never holds more than its capacity.                        *)
ChanTypes == chan \in [Talkers -> 0..ChanCap] /\ gone \in [Talkers -> BOOLEAN]

(* Only a handler that finds room puts a message into it.                  *)
LEMMA ChanKept ==
  ASSUME ChanTypes, [Next]_vars
  PROVE  ChanTypes'
<1>1. ASSUME NEW c \in Talkers,
             \/ UNCHANGED chan
             \/ chan[c] < ChanCap /\ chan' = [chan EXCEPT ![c] = @ + 1]
             \/ chan[c] > 0 /\ chan' = [chan EXCEPT ![c] = @ - 1]
      PROVE  chan' \in [Talkers -> 0..ChanCap]
  <2>1. chan \in [Talkers -> 0..ChanCap] /\ chan[c] \in 0..ChanCap /\ ChanCap \in Nat
    BY BufferAssumption DEF ChanTypes
  <2>2. CASE UNCHANGED chan
    BY <2>1, <2>2
  <2>3. CASE chan[c] < ChanCap /\ chan' = [chan EXCEPT ![c] = @ + 1]
    <3>1. chan[c] + 1 \in 0..ChanCap
      BY <2>1, <2>3
    <3> QED BY <2>1, <2>3, <3>1
  <2>4. CASE chan[c] > 0 /\ chan' = [chan EXCEPT ![c] = @ - 1]
    <3>1. chan[c] - 1 \in 0..ChanCap
      BY <2>1, <2>4
    <3> QED BY <2>1, <2>4, <3>1
  <2> QED BY <1>1, <2>2, <2>3, <2>4
<1>2. ASSUME NEW c \in Talkers, UNCHANGED gone \/ gone' = [gone EXCEPT ![c] = TRUE]
      PROVE  gone' \in [Talkers -> BOOLEAN]
  BY <1>2 DEF ChanTypes
<1>3. ASSUME NEW c \in Talkers,
             \/ EventsSubscribes(c) \/ EventsSendsHistory(c) \/ EventsHandles(c)
             \/ Take(c) \/ Disconnect(c)
      PROVE  ChanTypes'
  <2>1. \/ UNCHANGED chan
        \/ chan[c] < ChanCap /\ chan' = [chan EXCEPT ![c] = @ + 1]
        \/ chan[c] > 0 /\ chan' = [chan EXCEPT ![c] = @ - 1]
    BY <1>3 DEF EventsSubscribes, EventsSendsHistory, EventsHandles, Take, Disconnect
  <2>2. UNCHANGED gone \/ gone' = [gone EXCEPT ![c] = TRUE]
    BY <1>3 DEF EventsSubscribes, EventsSendsHistory, EventsHandles, Take, Disconnect
  <2> QED BY <1>1, <1>2, <2>1, <2>2 DEF ChanTypes
<1>4. ASSUME NEW c \in Consumers, Leave(c) PROVE ChanTypes'
  <2>1. UNCHANGED chan /\ gone' = IF c \in Talkers THEN [gone EXCEPT ![c] = TRUE] ELSE gone
    BY <1>4 DEF Leave
  <2> QED BY <2>1, <1>2 DEF ChanTypes
<1>5. ASSUME NEW c, \/ Write(c) \/ StreamHistory(c) \/ StreamSkipsHistory(c) \/ StreamSubscribes(c)
                    \/ StreamHandles(c) \/ Dispatch(c)
      PROVE  ChanTypes'
  BY <1>5 DEF Write, StreamHistory, StreamSkipsHistory, StreamSubscribes, StreamHandles,
              Dispatch, clientVars, ChanTypes
<1>6. CASE UNCHANGED vars
  BY <1>6 DEF vars, ChanTypes
<1> QED BY <1>3, <1>4, <1>5, <1>6 DEF Next

(* The state of the monitor is well typed, and no queue of the dispatcher  *)
(* is longer than its limit (group.Broadcast waits for room).              *)
THEOREM MonitorTypes == Spec => []TypeOK
<1>1. BusInv /\ ClientInv /\ MonitorInv /\ ToldInv /\ ChanTypes => TypeOK
  BY DEF BusInv, Lengths, ClientInv, MonitorInv, ToldInv, ToldTypes, Holds, ChanTypes, TypeOK, Cell
<1>2. Init => ChanTypes
  BY BufferAssumption DEF Init, ChanTypes
<1>3. ChanTypes /\ [Next]_vars => ChanTypes'
  BY ChanKept
<1> QED BY <1>1, <1>2, <1>3, ToldInvariance, PTL DEF Spec

-----------------------------------------------------------------------------
(* Who sleeps and who wakes. A consumer is at a step of Listen or of its   *)
(* handler, and it has ended only if it was stopped: that and the types    *)
(* make NoWakeupIsLost inductive.                                          *)
Waking ==
    /\ \A c \in Consumers : pc[c] \in ConsumerAt /\ (pc[c] = "done" => stop[c])
    /\ NoWakeupIsLost

(* After a cond.Broadcast nobody sleeps.                                   *)
LEMMA AwakeWakesAll ==
  ASSUME NEW spot \in [Threads -> Places]
  PROVE  \A t \in Threads :
            /\ Awake(spot)[t] \notin {"asleep", "full"}
            /\ spot[t] \in ConsumerAt => Awake(spot)[t] \in ConsumerAt
            /\ Awake(spot)[t] = "done" => spot[t] = "done"
  BY SMT DEF Awake, ConsumerAt

(* If nobody sleeps there is nothing to show of sleepers.                  *)
LEMMA AwakeIsWell ==
  ASSUME NEW t \in Threads, NEW place \in Places \ {"done"}, BusTypeOK, Waking,
         t \in Consumers => place \in ConsumerAt,
         UNCHANGED stop, pc' = Awake([pc EXCEPT ![t] = place])
  PROVE  Waking'
<1>t. Consumers \subseteq Threads /\ pc \in [Threads -> Places]
  BY SMT DEF Threads, BusTypeOK, Places
<1> DEFINE spot == [pc EXCEPT ![t] = place]
<1>1. spot \in [Threads -> Places] /\ \A u \in Threads : spot[u] = IF u = t THEN place ELSE pc[u]
  BY <1>t, SMT
<1>2. pc' = Awake(spot)
  OBVIOUS
<1> HIDE DEF spot
<1>3. \A u \in Threads :
        /\ pc'[u] \notin {"asleep", "full"}
        /\ spot[u] \in ConsumerAt => pc'[u] \in ConsumerAt
        /\ pc'[u] = "done" => spot[u] = "done"
  BY <1>1, <1>2, AwakeWakesAll
<1>4. \A c \in Consumers : spot[c] \in ConsumerAt /\ (spot[c] = "done" => stop[c])
  BY <1>1, <1>t DEF Waking
<1>5. \A c \in Consumers : pc'[c] \in ConsumerAt /\ (pc'[c] = "done" => stop'[c])
  BY <1>3, <1>4, <1>t
<1>6. NoWakeupIsLost'
  BY <1>3, <1>t DEF NoWakeupIsLost
<1> QED BY <1>5, <1>6 DEF Waking

(* One goroutine moves and goes to sleep only if it has nothing to do or   *)
(* leaves a worker behind; no worker but the one that moves is disturbed.  *)
LEMMA OneMoveIsWell ==
  ASSUME NEW t \in Threads, NEW place \in Places, BusTypeOK, Waking,
         pc' = [pc EXCEPT ![t] = place],
         t \in Consumers => place \in ConsumerAt,
         \A c \in Consumers : stop[c] => stop'[c],
         t \in Consumers /\ place = "done" => stop[t],
         \A c \in Consumers \ {t} : queue'[c] = queue[c],
         t \in Consumers /\ place = "asleep" => queue'[t] = <<>>,
         pc[t] # "full",
         \/ \E c \in Consumers : WorksOff(c)'
         \/ HandlerWaitsForItself'
         \/ place # "full" /\ (t \in Consumers => ~WorksOff(t))
  PROVE  Waking'
<1>t. Consumers \subseteq Threads /\ pc \in [Threads -> Places]
  BY SMT DEF Threads, BusTypeOK, Places
<1>1. \A u \in Threads : pc'[u] = IF u = t THEN place ELSE pc[u]
  BY <1>t, SMT
<1>2. \A c \in Consumers : pc'[c] \in ConsumerAt /\ (pc'[c] = "done" => stop'[c])
  BY <1>1, <1>t DEF Waking
<1>3. \A c \in Consumers : pc'[c] = "asleep" => queue'[c] = <<>>
  <2> SUFFICES ASSUME NEW c \in Consumers, pc'[c] = "asleep" PROVE queue'[c] = <<>>
    OBVIOUS
  <2>1. CASE c = t
    BY <1>1, <1>t, <2>1
  <2>2. CASE c # t
    BY <1>1, <1>t, <2>2 DEF Waking, NoWakeupIsLost
  <2> QED BY <2>1, <2>2
<1>4. ASSUME NEW u \in Threads, pc'[u] = "full"
      PROVE  HandlerWaitsForItself' \/ \E c \in Consumers : WorksOff(c)'
  <2>1. CASE place # "full" /\ (t \in Consumers => ~WorksOff(t))
    <3>1. pc[u] = "full"
      BY <1>1, <1>4, <2>1
    <3>2. HandlerWaitsForItself \/ \E c \in Consumers : WorksOff(c)
      BY <3>1 DEF Waking, NoWakeupIsLost
    <3>3. CASE HandlerWaitsForItself
      <4>1. PICK c \in Consumers : pc[c] = "full" /\ Len(queue[c]) >= MaxQueue
        BY <3>3 DEF HandlerWaitsForItself
      <4>2. c # t /\ pc'[c] = "full" /\ queue'[c] = queue[c]
        BY <4>1, <1>1, <1>t
      <4> QED BY <4>1, <4>2 DEF HandlerWaitsForItself
    <3>4. CASE \E c \in Consumers : WorksOff(c)
      <4>1. PICK c \in Consumers : WorksOff(c)
        BY <3>4
      <4>2. c # t /\ pc'[c] = pc[c] /\ queue'[c] = queue[c]
        BY <4>1, <2>1, <1>1, <1>t
      <4>3. WorksOff(c)'
        BY <4>1, <4>2 DEF WorksOff
      <4> QED BY <4>3
    <3> QED BY <3>2, <3>3, <3>4
  <2>2. CASE \E c \in Consumers : WorksOff(c)'
    BY <2>2
  <2>3. CASE HandlerWaitsForItself'
    BY <2>3
  <2> QED BY <2>1, <2>2, <2>3
<1>5. NoWakeupIsLost'
  BY <1>3, <1>4 DEF NoWakeupIsLost
<1> QED BY <1>2, <1>5 DEF Waking

(* Whoever goes to sleep in group.Broadcast has seen a full queue: its     *)
(* consumer is subscribed, so it has not ended, and awake.                 *)
LEMMA FullQueueIsWorkedOff ==
  ASSUME NEW t \in Threads, BusTypeOK, Standings, Waking, WaitForRoom(t)
  PROVE  HandlerWaitsForItself' \/ \E c \in Consumers : WorksOff(c)'
<1>t. Consumers \subseteq Threads /\ pc \in [Threads -> Places] /\ subs \subseteq Consumers
  BY SMT DEF Threads, BusTypeOK, Places
<1>1. PICK c \in Consumers : c \in subs /\ Len(queue[c]) >= MaxQueue
  BY <1>t DEF WaitForRoom, SomeQueueIsFull
<1>2. pc' = [pc EXCEPT ![t] = "full"] /\ queue' = queue /\ pc[t] = "offer"
  BY DEF WaitForRoom
<1>3. queue[c] # <<>>
  <2>1. Len(<<>>) = 0 /\ MaxQueue > 0
    BY BoundsAssumption
  <2> QED BY <1>1, <2>1
<1>4. pc[c] \in {"lock", "handle", "find", "offer", "full"}
  <2>1. pc[c] \in ConsumerAt /\ pc[c] # "done" /\ pc[c] # "new" /\ pc[c] # "asleep"
    BY <1>1, <1>3 DEF Waking, Standings, NoWakeupIsLost
  <2> QED BY <2>1 DEF ConsumerAt
<1>5. pc'[c] = IF c = t THEN "full" ELSE pc[c]
  BY <1>2, <1>t, SMT
<1>6. CASE pc'[c] = "full"
  BY <1>1, <1>2, <1>6 DEF HandlerWaitsForItself
<1>7. CASE pc'[c] # "full"
  <2>1. pc'[c] \in {"handle", "find", "offer"} \/ (pc'[c] = "lock" /\ queue'[c] # <<>>)
    BY <1>2, <1>3, <1>4, <1>5, <1>7
  <2> QED BY <2>1 DEF WorksOff
<1> QED BY <1>6, <1>7

(* Waking is kept by every step of the dispatcher.                         *)
LEMMA WakingKept ==
  ASSUME BusTypeOK, Standings, Waking, [BusNext]_busVars
  PROVE  Waking'
<1>t. /\ Consumers \subseteq Threads /\ pc \in [Threads -> Places]
      /\ stop \in [Consumers -> BOOLEAN] /\ queue \in [Consumers -> Seq(Nat)]
      /\ \A p \in Publishers : p \in Threads /\ p \notin Consumers
  BY SMT DEF Threads, BusTypeOK, Places
<1>p. ConsumerAt \subseteq Places
  BY DEF Places
<1>1. ASSUME NEW c \in Consumers, Subscribe(c) PROVE Waking'
  <2>1. pc[c] = "new" /\ pc' = [pc EXCEPT ![c] = "lock"] /\ UNCHANGED <<queue, stop>>
    BY <1>1 DEF Subscribe
  <2>2. ~WorksOff(c)
    BY <2>1 DEF WorksOff
  <2>3. "lock" \in Places /\ "lock" \in ConsumerAt
    BY <1>p DEF ConsumerAt
  <2> QED BY <1>t, <2>1, <2>2, <2>3, OneMoveIsWell
<1>2. ASSUME NEW c \in Consumers, Unsubscribe(c) PROVE Waking'
  <2>1. stop' = [stop EXCEPT ![c] = TRUE] /\ UNCHANGED <<pc, queue>>
    BY <1>2 DEF Unsubscribe
  <2>2. \A d \in Consumers : stop[d] => stop'[d]
    BY <1>t, <2>1
  <2>3. NoWakeupIsLost'
    BY <2>1 DEF Waking, NoWakeupIsLost, HandlerWaitsForItself, WorksOff
  <2> QED BY <2>1, <2>2, <2>3 DEF Waking
<1>3. ASSUME NEW c \in Consumers, ListenEnds(c) \/ ListenSleeps(c) PROVE Waking'
  <2>1. /\ pc[c] = "lock" /\ queue[c] = <<>> /\ UNCHANGED <<queue, stop>>
        /\ \/ pc' = [pc EXCEPT ![c] = "done"] /\ stop[c]
           \/ pc' = [pc EXCEPT ![c] = "asleep"]
    BY <1>3 DEF ListenEnds, ListenSleeps
  <2>2. ~WorksOff(c)
    BY <2>1 DEF WorksOff
  <2>3. {"done", "asleep"} \subseteq ConsumerAt
    BY DEF ConsumerAt
  <2> QED BY <1>p, <1>t, <2>1, <2>2, <2>3, OneMoveIsWell
<1>4. ASSUME NEW c \in Consumers, Swap(c) PROVE Waking'
  <2>1. /\ pc[c] = "lock" /\ pc' = [pc EXCEPT ![c] = "handle"] /\ UNCHANGED stop
        /\ queue' = [queue EXCEPT ![c] = <<>>]
    BY <1>4 DEF Swap
  <2>2. pc'[c] = "handle" /\ \A d \in Consumers \ {c} : queue'[d] = queue[d]
    BY <1>t, <2>1
  <2>3. WorksOff(c)'
    BY <2>2 DEF WorksOff
  <2>4. "handle" \in ConsumerAt
    BY DEF ConsumerAt
  <2> QED BY <1>p, <1>t, <2>1, <2>2, <2>3, <2>4, OneMoveIsWell
<1>5. ASSUME NEW c \in Consumers, Notify(c) PROVE Waking'
  <2>1. pc' = Awake([pc EXCEPT ![c] = "lock"]) /\ UNCHANGED stop
    BY <1>5 DEF Notify
  <2>2. "lock" \in ConsumerAt
    BY DEF ConsumerAt
  <2> QED BY <1>p, <1>t, <2>1, <2>2, AwakeIsWell
<1>6. ASSUME NEW c \in Consumers, Handle(c) PROVE Waking'
  <2>1. UNCHANGED <<pc, queue, stop>>
    BY <1>6 DEF Handle
  <2> QED BY <2>1 DEF Waking, NoWakeupIsLost, HandlerWaitsForItself, WorksOff
<1>7. ASSUME NEW c \in Consumers, HandleAndTalk(c) PROVE Waking'
  <2>1. pc[c] = "handle" /\ pc' = [pc EXCEPT ![c] = "find"] /\ UNCHANGED <<queue, stop>>
    BY <1>7 DEF HandleAndTalk, Given, Begin
  <2>2. pc'[c] = "find"
    BY <1>t, <2>1
  <2>3. WorksOff(c)'
    BY <2>2 DEF WorksOff
  <2>4. "find" \in ConsumerAt
    BY DEF ConsumerAt
  <2> QED BY <1>p, <1>t, <2>1, <2>3, <2>4, OneMoveIsWell
<1>8. ASSUME NEW p \in Publishers, Publish(p) PROVE Waking'
  <2>1. pc[p] = "idle" /\ pc' = [pc EXCEPT ![p] = "find"] /\ UNCHANGED <<queue, stop>>
    BY <1>8 DEF Publish, Begin
  <2>2. "find" \in Places
    BY DEF Places, PublisherAt
  <2> QED BY <1>t, <2>1, <2>2, OneMoveIsWell
<1>9. ASSUME NEW t \in Threads, Find(t) PROVE Waking'
  <2>1. /\ pc[t] = "find" /\ UNCHANGED <<queue, stop>>
        /\ pc' = [pc EXCEPT ![t] = "offer"] \/ pc' = [pc EXCEPT ![t] = Resume(t)]
    BY <1>9 DEF Find
  <2>2. CASE t \in Consumers
    <3>1. PICK place \in {"offer", "handle"} : pc' = [pc EXCEPT ![t] = place]
      BY <1>t, <2>1, <2>2 DEF Resume
    <3>2. pc'[t] = place
      BY <1>t, <3>1
    <3>3. WorksOff(t)'
      BY <3>1, <3>2 DEF WorksOff
    <3>4. place \in ConsumerAt /\ place \notin {"done", "asleep"}
      BY <3>1 DEF ConsumerAt
    <3> QED BY <1>p, <1>t, <2>1, <2>2, <3>1, <3>3, <3>4, OneMoveIsWell
  <2>3. CASE t \notin Consumers
    <3>1. t \in Publishers
      BY <2>3 DEF Threads
    <3>2. PICK place \in {"offer", "idle"} : pc' = [pc EXCEPT ![t] = place]
      BY <2>1, <3>1 DEF Resume
    <3>3. place \in Places /\ place # "full"
      BY <3>2 DEF Places, PublisherAt
    <3> QED BY <1>t, <2>1, <2>3, <3>2, <3>3, OneMoveIsWell
  <2> QED BY <2>2, <2>3
<1>10. ASSUME NEW t \in Threads, WaitForRoom(t) PROVE Waking'
  <2>1. pc[t] = "offer" /\ pc' = [pc EXCEPT ![t] = "full"] /\ UNCHANGED <<queue, stop>>
    BY <1>10 DEF WaitForRoom
  <2>2. HandlerWaitsForItself' \/ \E c \in Consumers : WorksOff(c)'
    BY <1>10, FullQueueIsWorkedOff
  <2>3. "full" \in ConsumerAt
    BY DEF ConsumerAt
  <2> QED BY <1>p, <1>t, <2>1, <2>2, <2>3, OneMoveIsWell
<1>11. ASSUME NEW t \in Threads, Broadcast(t) PROVE Waking'
  <2>1. pc' = Awake([pc EXCEPT ![t] = Resume(t)]) /\ UNCHANGED stop
    BY <1>11 DEF Broadcast
  <2>2. Resume(t) \in Places \ {"done"} /\ (t \in Consumers => Resume(t) \in ConsumerAt)
    BY <1>t DEF Resume, Places, PublisherAt, ConsumerAt
  <2> QED BY <2>1, <2>2, AwakeIsWell
<1>12. CASE UNCHANGED busVars
  BY <1>12 DEF busVars, Waking, NoWakeupIsLost, HandlerWaitsForItself, WorksOff
<1> QED
  BY <1>1, <1>2, <1>3, <1>4, <1>5, <1>6, <1>7, <1>8, <1>9, <1>10, <1>11, <1>12
     DEF BusNext, Listen, Offer

(* event.go's one condition variable for publishers and consumers: with    *)
(* any number of them nobody sleeps without somebody awake who will wake   *)
(* him, unless a handler waits for its own queue.                          *)
THEOREM NobodySleepsForGood == Spec => []NoWakeupIsLost
<1>1. Init => Waking
  <2> SUFFICES ASSUME Init PROVE Waking
    OBVIOUS
  <2>1. \A t \in Threads : pc[t] \notin {"full", "asleep", "done"}
    BY DEF Init, BusInit
  <2>2. \A c \in Consumers : c \in Threads /\ pc[c] = "new"
    BY DEF Init, BusInit, Threads
  <2> QED BY <2>1, <2>2 DEF Waking, NoWakeupIsLost, ConsumerAt
<1>2. BusInv /\ Waking /\ [Next]_vars => Waking'
  BY StepOfTheBus, WakingKept DEF BusInv
<1>3. Waking => NoWakeupIsLost
  BY DEF Waking
<1> QED BY <1>1, <1>2, <1>3, MonitorInvariance, PTL DEF Spec
=============================================================================
