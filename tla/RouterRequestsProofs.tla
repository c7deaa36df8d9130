------------------------- MODULE RouterRequestsProofs -------------------------
(***************************************************************************)
(* The account of the requests, for any number of them: each parked caller *)
(* is in one place of the run loop, where a later event finds it, and each *)
(* served one is counted once, whatever callers, unloads and a shutdown do *)
(* meanwhile. Last, on the same account, that every process inside the     *)
(* router stays within ProcessService: a request that still waits for its  *)
(* turn has no swap, so a swap that begins is a new caller.                *)
(***************************************************************************)
EXTENDS RouterProofs

-----------------------------------------------------------------------------
(* Queues without repetition. *)

In(r, s) == \E i \in 1..Len(s) : s[i] = r
Distinct(s) == \A i, j \in 1..Len(s) : s[i] = s[j] => i = j

(* What is in a queue after an append ...                                  *)
LEMMA AppendQueue ==
  ASSUME NEW s \in Seq(Requests), NEW r \in Requests
  PROVE  /\ \A x \in Requests : In(x, Append(s, r)) <=> (In(x, s) \/ x = r)
         /\ Distinct(s) /\ ~In(r, s) => Distinct(Append(s, r))
<1>1. /\ Len(Append(s, r)) = Len(s) + 1 /\ Len(s) \in Nat
      /\ Append(s, r)[Len(s) + 1] = r
      /\ \A i \in 1..Len(s) : Append(s, r)[i] = s[i]
  OBVIOUS
<1>2. \A i \in 1..(Len(s) + 1) : i \in 1..Len(s) \/ i = Len(s) + 1
  BY <1>1
<1>3. \A i \in 1..Len(s) : i \in 1..(Len(s) + 1)
  BY <1>1
<1>4. Len(s) + 1 \in 1..(Len(s) + 1)
  BY <1>1
<1>5. \A x \in Requests : In(x, Append(s, r)) <=> (In(x, s) \/ x = r)
  BY <1>1, <1>2, <1>3, <1>4 DEF In
<1>6. Distinct(s) /\ ~In(r, s) => Distinct(Append(s, r))
  BY <1>1, <1>2 DEF Distinct, In
<1> QED
  BY <1>5, <1>6

(* ... after its head is taken ...                                         *)
LEMMA TakeHead ==
  ASSUME NEW s \in Seq(Requests), s # <<>>
  PROVE  /\ \A x \in Requests : In(x, s) <=> (x = Head(s) \/ In(x, Tail(s)))
         /\ Distinct(s) => Distinct(Tail(s)) /\ ~In(Head(s), Tail(s))
<1>1. /\ Len(s) \in Nat \ {0} /\ Len(Tail(s)) = Len(s) - 1 /\ Head(s) = s[1]
      /\ \A i \in 1..(Len(s) - 1) : Tail(s)[i] = s[i + 1]
  OBVIOUS
<1>2. /\ 1 \in 1..Len(s)
      /\ \A i \in 1..(Len(s) - 1) : i + 1 \in 1..Len(s) /\ i + 1 # 1
      /\ \A i \in 1..Len(s) : i = 1 \/ (i - 1 \in 1..(Len(s) - 1) /\ (i - 1) + 1 = i)
      /\ \A i, j \in 1..(Len(s) - 1) : i + 1 = j + 1 => i = j
  BY <1>1
<1>3. \A x \in Requests : In(x, s) <=> (x = Head(s) \/ In(x, Tail(s)))
  BY <1>1, <1>2 DEF In
<1>4. Distinct(s) => Distinct(Tail(s))
  BY <1>1, <1>2 DEF Distinct
<1>5. Distinct(s) => ~In(Head(s), Tail(s))
  BY <1>1, <1>2 DEF Distinct, In
<1> QED
  BY <1>3, <1>4, <1>5

(* ... and after a prefix is dropped.                                      *)
LEMMA DropPrefix ==
  ASSUME NEW s \in Seq(Requests), NEW k \in 1..Len(s)
  PROVE  /\ \A x \in Requests : In(x, s) =>
               x \in {s[i] : i \in 1..k} \/ In(x, SubSeq(s, k + 1, Len(s)))
         /\ \A x \in Requests : In(x, SubSeq(s, k + 1, Len(s))) => In(x, s)
         /\ Distinct(s) => Distinct(SubSeq(s, k + 1, Len(s)))
<1> DEFINE t == SubSeq(s, k + 1, Len(s))
<1>1. /\ Len(s) \in Nat /\ Len(t) = Len(s) - k
      /\ \A i \in 1..(Len(s) - k) : t[i] = s[i + k]
  OBVIOUS
<1>2. /\ \A i \in 1..(Len(s) - k) : i + k \in 1..Len(s)
      /\ \A i \in 1..Len(s) : i \in 1..k \/ (i - k \in 1..(Len(s) - k) /\ (i - k) + k = i)
      /\ \A i, j \in 1..(Len(s) - k) : i + k = j + k => i = j
  BY <1>1
<1> HIDE DEF t
<1>3. ASSUME NEW x \in Requests, In(x, s)
      PROVE  x \in {s[i] : i \in 1..k} \/ In(x, t)
  <2>1. PICK i \in 1..Len(s) : s[i] = x
    BY <1>3 DEF In
  <2>2. CASE i \in 1..k
    BY <2>1, <2>2
  <2>3. CASE i \notin 1..k
    <3>1. PICK j \in 1..(Len(s) - k) : j + k = i
      BY <1>2, <2>3
    <3>2. t[j] = x /\ j \in 1..Len(t)
      BY <1>1, <2>1, <3>1
    <3> QED
      BY <3>2 DEF In
  <2> QED
    BY <2>2, <2>3
<1>4. \A x \in Requests : In(x, t) => In(x, s)
  BY <1>1, <1>2 DEF In
<1>5. Distinct(s) => Distinct(t)
  BY <1>1, <1>2 DEF Distinct
<1> QED
  BY <1>3, <1>4, <1>5 DEF t

(* Nothing is in an empty queue.                                           *)
LEMMA EmptyQueue == Distinct(<<>>) /\ \A x : ~In(x, <<>>)
BY DEF Distinct, In

-----------------------------------------------------------------------------
(* Where the parked callers are.                                           *)

(* A request is queued once, *)
QueuesApart ==
    /\ Distinct(queued) /\ Distinct(pending)
    /\ \A r \in Requests : ~(In(r, queued) /\ In(r, pending))

(* or has joined the active swap of its model, *)
WaitersApart ==
    \A m \in Models : \A r \in waiters[m] :
        model[r] = m /\ m \in active /\ ~In(r, queued) /\ ~In(r, pending)

(* and in either case has arrived; *)
OnlyArrived ==
    \A r \in Requests : status[r] = "idle" =>
        ~In(r, queued) /\ ~In(r, pending) /\ \A m \in Models : r \notin waiters[m]

(* a queue is only set aside while it is being walked; *)
PendingIsWalked == loop \notin {"drain", "filter"} => pending = <<>>

(* and whoever still waits is somewhere.                                   *)
Remembered ==
    \A r \in Requests : status[r] = "waiting" =>
        r \in waiters[model[r]] \/ In(r, queued) \/ In(r, pending)

Account == QueuesApart /\ WaitersApart /\ OnlyArrived /\ PendingIsWalked /\ Remembered

(* Starting to walk the queue moves it as it is.                           *)
LEMMA DrainKeepsQueue ==
  ASSUME TypeOK, QueuesApart, pending = <<>>, queued' = <<>>, pending' = queued
  PROVE  /\ QueuesApart'
         /\ \A r : (In(r, queued)' <=> FALSE) /\ (In(r, pending)' <=> In(r, queued))
         /\ \A r : ~In(r, pending)
BY EmptyQueue DEF QueuesApart, In

(* An error answers those of rs that wait, and nobody else.                *)
LEMMA RefuseAnswers ==
  ASSUME TypeOK, NEW rs, NEW answer \in RefusedStatus, status' = Refuse(rs, answer)
  PROVE  \A r \in Requests :
            /\ status'[r] = "idle" => status[r] = "idle"
            /\ status'[r] = "waiting" => status[r] = "waiting" /\ r \notin rs
BY DEF Refuse, RefusedStatus, TypeOK, ClientsOK

(* So does a handler.                                                      *)
LEMMA ServedAnswers ==
  ASSUME TypeOK, NEW rs, status' = Served(rs)
  PROVE  \A r \in Requests :
            /\ status'[r] = "idle" => status[r] = "idle"
            /\ status'[r] = "waiting" => status[r] = "waiting" /\ r \notin rs
BY DEF Served, Takers, TypeOK, ClientsOK

(* A swap that is forgotten leaves nobody behind who is not answered.      *)
LEMMA ForgetKeepsAccount ==
  ASSUME TypeOK, Account, model' = model, NEW ms \in SUBSET Models, Forget(ms),
         \/ UNCHANGED <<queued, pending>> /\ (loop' \notin {"drain", "filter"} => pending = <<>>)
         \/ /\ pending = <<>> /\ queued' = <<>> /\ pending' = queued
            /\ loop' \notin {"drain", "filter"} => queued = <<>>,
         \A r \in Requests :
            /\ status'[r] = "idle" => status[r] = "idle"
            /\ status'[r] = "waiting" => status[r] = "waiting" /\ \A m \in ms : r \notin waiters[m]
  PROVE  Account'
<1>1. /\ QueuesApart'
      /\ \A r : (In(r, queued)' \/ In(r, pending)') <=> (In(r, queued) \/ In(r, pending))
  BY DrainKeepsQueue DEF Account, QueuesApart, In
<1>2. \A m \in Models : waiters'[m] = (IF m \in ms THEN {} ELSE waiters[m])
  BY DEF Forget
<1>3. active' = active \ ms
  BY DEF Forget
<1>4. WaitersApart' /\ OnlyArrived'
  BY <1>1, <1>2, <1>3 DEF Account, WaitersApart, OnlyArrived, TypeOK, TablesOK
<1>5. PendingIsWalked'
  BY DEF PendingIsWalked
<1>6. Remembered'
  BY <1>1, <1>2 DEF Account, Remembered, WaitersApart, TypeOK, ClientsOK
<1> QED
  BY <1>1, <1>4, <1>5, <1>6 DEF Account

(* Events after which the same requests are parked in the same places.     *)
LEMMA SamePlacesKeepAccount ==
  ASSUME TypeOK, Account, UNCHANGED <<model, active, waiters>>,
         \/ UNCHANGED <<queued, pending>> /\ (loop' \notin {"drain", "filter"} => pending = <<>>)
         \/ /\ pending = <<>> /\ queued' = <<>> /\ pending' = queued
            /\ loop' \notin {"drain", "filter"} => queued = <<>>,
         \A r \in Requests :
            /\ status'[r] = "idle" => status[r] = "idle"
            /\ status'[r] = "waiting" => status[r] = "waiting"
  PROVE  Account'
<1>1. /\ QueuesApart'
      /\ \A r : (In(r, queued)' \/ In(r, pending)') <=> (In(r, queued) \/ In(r, pending))
  BY DrainKeepsQueue DEF Account, QueuesApart, In
<1>2. WaitersApart' /\ OnlyArrived' /\ Remembered'
  BY <1>1 DEF Account, WaitersApart, OnlyArrived, Remembered, TypeOK, TablesOK
<1> QED
  BY <1>1, <1>2 DEF Account, PendingIsWalked

Parked(r) == In(r, queued) \/ In(r, pending)

(* A request that joins the swap of its model, old or new, leaves the      *)
(* queue.                                                                  *)
LEMMA JoiningKeepsAccount ==
  ASSUME TypeOK, Account, model' = model, NEW r \in Requests,
         active' = active \cup {model[r]},
         \A m \in Models :
            waiters'[m] = IF m = model[r] THEN waiters[m] \cup {r} ELSE waiters[m],
         QueuesApart', PendingIsWalked',
         \A x \in Requests : Parked(x)' <=> (x # r /\ Parked(x)),
         \A x \in Requests \ {r} : status'[x] = status[x],
         status'[r] # "idle"
  PROVE  Account'
<1>1. WaitersApart'
  <2> SUFFICES ASSUME NEW m \in Models, NEW x \in waiters'[m]
               PROVE  model[x] = m /\ m \in active' /\ ~Parked(x)'
    BY DEF WaitersApart, Parked
  <2>1. CASE x = r /\ m = model[r]
    BY <2>1
  <2>2. CASE x \in waiters[m]
    <3>1. x \in Requests /\ model[x] = m /\ m \in active /\ ~Parked(x)
      BY <2>2 DEF Account, WaitersApart, Parked, TypeOK, TablesOK
    <3> QED
      BY <3>1
  <2> QED
    BY <2>1, <2>2
<1>2. OnlyArrived'
  <2> SUFFICES ASSUME NEW x \in Requests, status'[x] = "idle"
               PROVE  ~Parked(x)' /\ \A m \in Models : x \notin waiters'[m]
    BY DEF OnlyArrived, Parked
  <2>1. x # r /\ status[x] = "idle"
    OBVIOUS
  <2>2. ~Parked(x) /\ \A m \in Models : x \notin waiters[m]
    BY <2>1 DEF Account, OnlyArrived, Parked
  <2>3. \A m \in Models : x \notin waiters'[m]
    BY <2>1, <2>2
  <2>4. ~Parked(x)'
    BY <2>1, <2>2
  <2> QED
    BY <2>3, <2>4
<1>3. Remembered'
  <2> SUFFICES ASSUME NEW x \in Requests, status'[x] = "waiting"
               PROVE  x \in waiters'[model[x]] \/ Parked(x)'
    BY DEF Remembered, Parked
  <2>1. model[x] \in Models /\ model[r] \in Models
    BY DEF TypeOK, ClientsOK
  <2>2. CASE x # r
    <3>1. x \in waiters[model[x]] \/ Parked(x)
      BY <2>2 DEF Account, Remembered, Parked
    <3> QED
      BY <2>1, <2>2, <3>1
  <2> QED
    BY <2>1, <2>2
<1> QED
  BY <1>1, <1>2, <1>3 DEF Account

(* One that is queued has joined no swap.                                  *)
LEMMA QueueingKeepsAccount ==
  ASSUME TypeOK, Account, UNCHANGED <<model, active, waiters>>, NEW r \in Requests,
         \A m \in Models : r \notin waiters[m],
         QueuesApart', PendingIsWalked',
         \A x \in Requests : Parked(x)' <=> (x = r \/ Parked(x)),
         \A x \in Requests \ {r} : status'[x] = status[x],
         status'[r] # "idle"
  PROVE  Account'
<1>1. WaitersApart'
  BY DEF Account, WaitersApart, Parked, TypeOK, TablesOK
<1>2. OnlyArrived' /\ Remembered'
  BY DEF Account, OnlyArrived, Remembered, Parked, TypeOK, ClientsOK
<1> QED
  BY <1>1, <1>2 DEF Account

(* One that is answered need not be anywhere.                              *)
LEMMA AnsweringKeepsAccount ==
  ASSUME TypeOK, Account, UNCHANGED <<model, active, waiters>>, NEW r \in Requests,
         QueuesApart', PendingIsWalked',
         \A x \in Requests : Parked(x)' <=> (x # r /\ Parked(x)),
         \A x \in Requests \ {r} : status'[x] = status[x],
         status'[r] \notin {"idle", "waiting"}
  PROVE  Account'
<1>1. WaitersApart'
  BY DEF Account, WaitersApart, Parked, TypeOK, TablesOK
<1>2. OnlyArrived' /\ Remembered'
  BY DEF Account, OnlyArrived, Remembered, Parked, TypeOK, ClientsOK
<1> QED
  BY <1>1, <1>2 DEF Account

(* The swap that startSwap makes has no waiters yet.                       *)
LEMMA StartSwapJoins ==
  ASSUME TypeOK, Account, NEW r \in Requests, model[r] \notin active,
         NEW ev, StartSwap(r, model[r], ev)
  PROVE  /\ active' = active \cup {model[r]}
         /\ \A m \in Models :
               waiters'[m] = IF m = model[r] THEN waiters[m] \cup {r} ELSE waiters[m]
<1>1. waiters[model[r]] = {}
  BY DEF Account, WaitersApart, TypeOK, ClientsOK
<1> QED
  BY <1>1 DEF StartSwap, TypeOK, TablesOK, ClientsOK

(* handleRequest answers the new request or puts it in one place.          *)
LEMMA handleRequestKeepsAccount ==
  ASSUME TypeOK, Account, NEW r \in Requests, handleRequest(r)
  PROVE  Account'
<1>1. /\ loop = "select" /\ loop' = loop /\ model' = model
      /\ status[r] = "idle" /\ model[r] \in Models
      /\ status' = [status EXCEPT ![r] = status'[r]]
      /\ queued \in Seq(Requests) /\ pending = <<>> /\ pending' = pending
  BY DEF handleRequest, Account, PendingIsWalked, TypeOK, ClientsOK, QueuesOK, queueVars
<1>2. ~Parked(r) /\ \A m \in Models : r \notin waiters[m]
  BY <1>1 DEF Account, OnlyArrived, Parked
<1>3. PendingIsWalked' /\ \A x \in Requests \ {r} : status'[x] = status[x]
  BY <1>1 DEF PendingIsWalked, TypeOK, ClientsOK
<1>4. CASE queued' = queued
  <2>1. /\ QueuesApart'
        /\ \A x \in Requests : Parked(x)' <=> (x # r /\ Parked(x))
    BY <1>1, <1>2, <1>4 DEF Account, QueuesApart, Parked, In
  <2>2. CASE UNCHANGED <<active, waiters>> /\ status'[r] \in {"capped", "serving"}
    BY <1>1, <1>3, <2>1, <2>2, AnsweringKeepsAccount
  <2>3. CASE model[r] \in active /\ Join(r, model[r]) /\ status'[r] = "waiting"
    <3>1. /\ active' = active \cup {model[r]}
          /\ \A m \in Models :
                waiters'[m] = IF m = model[r] THEN waiters[m] \cup {r} ELSE waiters[m]
      BY <2>3 DEF Join, TypeOK, TablesOK
    <3> QED
      BY <1>1, <1>3, <2>1, <2>3, <3>1, JoiningKeepsAccount
  <2>4. CASE /\ model[r] \notin active /\ status'[r] = "waiting"
             /\ StartSwap(r, model[r], EvictionFor(model[r], activeTargets(model[r])))
    BY <1>1, <1>3, <2>1, <2>4, StartSwapJoins, JoiningKeepsAccount
  <2> QED
    BY <1>4, <2>2, <2>3, <2>4 DEF handleRequest, tableVars, TypeOK, ClientsOK
<1>5. CASE queued' # queued
  <2>1. /\ queued' = Append(queued, r) /\ UNCHANGED <<active, waiters>>
        /\ status'[r] = "waiting"
    BY <1>5 DEF handleRequest, queueVars, tableVars, TypeOK, ClientsOK
  <2>2. /\ QueuesApart'
        /\ \A x \in Requests : Parked(x)' <=> (x = r \/ Parked(x))
    BY <1>1, <1>2, <2>1, AppendQueue, EmptyQueue DEF Account, QueuesApart, Parked
  <2> QED
    BY <1>1, <1>2, <1>3, <2>1, <2>2, QueueingKeepsAccount
<1> QED
  BY <1>4, <1>5

(* drainQueue takes the next one and does the same with it.                *)
LEMMA drainQueueKeepsAccount ==
  ASSUME TypeOK, LoopHead, Account, drainQueue
  PROVE  Account'
<1>1. PICK r \in Requests : r = Head(pending) /\ pending # <<>>
  BY DEF drainQueue, LoopHead, TypeOK, QueuesOK
<1>2. /\ model' = model /\ model[r] \in Models /\ pending' = Tail(pending)
      /\ queued \in Seq(Requests) /\ pending \in Seq(Requests)
      /\ loop' = IF Tail(pending) = <<>> THEN "select" ELSE "drain"
  BY DEF drainQueue, TypeOK, ClientsOK, QueuesOK
<1>3. /\ In(r, pending) /\ ~In(r, queued) /\ ~In(r, pending')
      /\ Distinct(queued) /\ Distinct(pending')
      /\ \A x \in Requests : In(x, pending) <=> (x = r \/ In(x, pending'))
      /\ \A x \in Requests : ~(In(x, queued) /\ In(x, pending'))
  BY <1>1, <1>2, TakeHead DEF Account, QueuesApart
<1>4. status[r] # "idle" /\ \A m \in Models : r \notin waiters[m]
  BY <1>3 DEF Account, OnlyArrived, WaitersApart
<1>5. PendingIsWalked'
  BY <1>2 DEF PendingIsWalked
<1>6. CASE queued' = queued
  <2>1. /\ QueuesApart'
        /\ \A x \in Requests : Parked(x)' <=> (x # r /\ Parked(x))
    BY <1>3, <1>6 DEF QueuesApart, Parked
  <2>2. CASE UNCHANGED <<active, waiters>> /\ status' = Served({r})
    <3>1. status'[r] \notin {"idle", "waiting"} /\ \A x \in Requests \ {r} : status'[x] = status[x]
      BY <1>4, <2>2 DEF Served, Takers
    <3> QED
      BY <1>2, <1>5, <2>1, <2>2, <3>1, AnsweringKeepsAccount
  <2>3. CASE model[r] \in active /\ Join(r, model[r]) /\ status' = status
    <3>1. /\ active' = active \cup {model[r]}
          /\ \A m \in Models :
                waiters'[m] = IF m = model[r] THEN waiters[m] \cup {r} ELSE waiters[m]
      BY <2>3 DEF Join, TypeOK, TablesOK
    <3> QED
      BY <1>2, <1>4, <1>5, <2>1, <2>3, <3>1, JoiningKeepsAccount
  <2>4. CASE /\ model[r] \notin active /\ status' = status
             /\ StartSwap(r, model[r], EvictionFor(model[r], activeTargets(model[r])))
    BY <1>2, <1>4, <1>5, <2>1, <2>4, StartSwapJoins, JoiningKeepsAccount
  <2>5. CASE queued' = Append(queued, r)
    BY <1>3, <1>6, <2>5, AppendQueue
  <2> QED
    BY <1>1, <2>2, <2>3, <2>4, <2>5 DEF drainQueue
<1>7. CASE queued' # queued
  <2>1. queued' = Append(queued, r) /\ UNCHANGED <<active, waiters, status>>
    BY <1>1, <1>7 DEF drainQueue, tableVars
  <2>2. /\ QueuesApart'
        /\ \A x \in Requests : Parked(x)' <=> (x = r \/ Parked(x))
    BY <1>2, <1>3, <2>1, AppendQueue DEF QueuesApart, Parked
  <2> QED
    BY <1>2, <1>4, <1>5, <2>1, <2>2, QueueingKeepsAccount
<1> QED
  BY <1>6, <1>7

(* Every event of the run loop keeps the account.                          *)
LEMMA RunLoopKeepsAccount ==
  ASSUME TypeOK, LoopHead, Account, RunLoop
  PROVE  Account'
<1>0. model' = model /\ queued \in Seq(Requests) /\ pending \in Seq(Requests)
  BY RunLoopFrame DEF TypeOK, QueuesOK
<1>1. CASE \E r \in Requests : handleRequest(r)
  BY <1>1, handleRequestKeepsAccount
<1>2. CASE drainQueue
  BY <1>2, drainQueueKeepsAccount
<1>3. CASE \E r \in Requests : handleSwapDone(r)
  <2>1. PICK r \in Requests : handleSwapDone(r)
    BY <1>3
  <2>2. PICK m \in Models : m = model[r]
    BY DEF TypeOK, ClientsOK
  <2>3. pending = <<>>
    BY <2>1 DEF handleSwapDone, Account, PendingIsWalked
  <2>4. CASE UNCHANGED <<status, loop, tableVars, queueVars>>
    BY <1>0, <2>3, <2>4, SamePlacesKeepAccount DEF tableVars, queueVars
  <2>5. CASE /\ Forget({m}) /\ DrainQueue(queued)
             /\ status' = Refuse(waiters[m], "loadFailed") \/ status' = Served(waiters[m])
    <3>1. \A x \in Requests :
            /\ status'[x] = "idle" => status[x] = "idle"
            /\ status'[x] = "waiting" => status[x] = "waiting" /\ x \notin waiters[m]
      BY <2>5, RefuseAnswers, ServedAnswers DEF RefusedStatus
    <3> QED
      BY <1>0, <2>3, <2>5, <3>1, ForgetKeepsAccount DEF DrainQueue
  <2> QED
    BY <2>1, <2>2, <2>4, <2>5 DEF handleSwapDone
<1>4. CASE \E r \in Requests : handleServeDone(r)
  <2>1. PICK r \in Requests : handleServeDone(r)
    BY <1>4
  <2>2. /\ pending = <<>> /\ UNCHANGED <<active, waiters>>
        /\ \A x \in Requests : status'[x] \in {"idle", "waiting"} => status'[x] = status[x]
    BY <2>1 DEF handleServeDone, Account, PendingIsWalked, TypeOK, ClientsOK
  <2>3. CASE UNCHANGED <<loop, queueVars>>
    BY <1>0, <2>2, <2>3, SamePlacesKeepAccount DEF queueVars
  <2>4. CASE DrainQueue(queued)
    BY <1>0, <2>2, <2>4, SamePlacesKeepAccount DEF DrainQueue
  <2> QED
    BY <2>1, <2>3, <2>4 DEF handleServeDone
<1>5. CASE expireStaleQueued
  <2>1. PICK k \in 1..Len(queued) :
            /\ status' = Refuse({queued[i] : i \in 1..k}, "timedOut")
            /\ queued' = SubSeq(queued, k + 1, Len(queued))
    BY <1>5 DEF expireStaleQueued
  <2>2. UNCHANGED <<loop, active, waiters, pending>> /\ pending = <<>>
    BY <1>5 DEF expireStaleQueued, tableVars, Account, PendingIsWalked
  <2>3. PICK rs : rs = {queued[i] : i \in 1..k}
    OBVIOUS
  <2>4. \A x \in Requests :
            /\ status'[x] = "idle" => status[x] = "idle"
            /\ status'[x] = "waiting" => status[x] = "waiting" /\ x \notin rs
    BY <2>1, <2>3, RefuseAnswers DEF RefusedStatus
  <2>5. /\ \A x \in Requests : In(x, queued) => x \in rs \/ In(x, queued')
        /\ \A x \in Requests : In(x, queued') => In(x, queued)
        /\ Distinct(queued')
    BY <1>0, <2>1, <2>3, DropPrefix DEF Account, QueuesApart
  <2>6. \A x : ~In(x, pending)
    BY <2>2, EmptyQueue
  <2>7. QueuesApart'
    BY <2>2, <2>5, <2>6 DEF Account, QueuesApart
  <2>8. WaitersApart' /\ OnlyArrived'
    BY <1>0, <2>2, <2>4, <2>5 DEF Account, WaitersApart, OnlyArrived, TypeOK, TablesOK
  <2>9. PendingIsWalked' /\ Remembered'
    BY <1>0, <2>2, <2>4, <2>5 DEF Account, PendingIsWalked, Remembered
  <2> QED
    BY <2>7, <2>8, <2>9 DEF Account
<1>6. CASE \E ts \in SUBSET Models : handleUnload(ts)
  <2>1. PICK ts \in SUBSET Models : handleUnload(ts)
    BY <1>6
  <2>2. /\ pending = <<>> /\ Forget(ts) /\ loop' = "filter"
        /\ queued' = <<>> /\ pending' = queued
        /\ status' = Refuse(UNION {waiters[m] : m \in active \cap ts}, "unloaded")
    BY <2>1 DEF handleUnload, Account, PendingIsWalked
  <2>3. \A x \in Requests :
            /\ status'[x] = "idle" => status[x] = "idle"
            /\ status'[x] = "waiting" => status[x] = "waiting"
                  /\ x \notin UNION {waiters[m] : m \in active \cap ts}
    BY <2>2, RefuseAnswers DEF RefusedStatus
  <2>4. \A x \in Requests : \A m \in ts : x \in waiters[m] => m \in active
    BY DEF Account, WaitersApart
  <2>5. \A x \in Requests : status'[x] = "waiting" =>
            status[x] = "waiting" /\ \A m \in ts : x \notin waiters[m]
    BY <2>3, <2>4
  <2> QED
    BY <1>0, <2>2, <2>3, <2>5, ForgetKeepsAccount
<1>7. CASE UnloadFilter
  <2>1. PICK r \in Requests : r = Head(pending) /\ pending # <<>>
    BY <1>7 DEF UnloadFilter, TypeOK, QueuesOK
  <2>2. /\ loop = "filter" /\ loop' = loop /\ pending' = Tail(pending)
        /\ UNCHANGED <<active, waiters>>
    BY <1>7 DEF UnloadFilter, tableVars
  <2>3. /\ In(r, pending) /\ ~In(r, queued) /\ ~In(r, pending')
        /\ Distinct(queued) /\ Distinct(pending')
        /\ \A x \in Requests : In(x, pending) <=> (x = r \/ In(x, pending'))
        /\ \A x \in Requests : ~(In(x, queued) /\ In(x, pending'))
    BY <1>0, <2>1, <2>2, TakeHead DEF Account, QueuesApart
  <2>4. status[r] # "idle" /\ \A m \in Models : r \notin waiters[m]
    BY <2>3 DEF Account, OnlyArrived, WaitersApart
  <2>5. PendingIsWalked'
    BY <2>2 DEF PendingIsWalked
  <2>6. CASE status' = Refuse({r}, "unloaded") /\ queued' = queued
    <3>1. /\ QueuesApart'
          /\ \A x \in Requests : Parked(x)' <=> (x # r /\ Parked(x))
      BY <2>3, <2>6 DEF QueuesApart, Parked
    <3>2. status'[r] \notin {"idle", "waiting"} /\ \A x \in Requests \ {r} : status'[x] = status[x]
      BY <2>4, <2>6 DEF Refuse
    <3> QED
      BY <1>0, <2>2, <2>5, <3>1, <3>2, AnsweringKeepsAccount
  <2>7. CASE queued' = Append(queued, r) /\ status' = status
    <3>1. /\ QueuesApart'
          /\ \A x \in Requests : Parked(x)' <=> (x = r \/ Parked(x))
      BY <1>0, <2>3, <2>7, AppendQueue DEF QueuesApart, Parked
    <3> QED
      BY <1>0, <2>2, <2>4, <2>5, <2>7, <3>1, QueueingKeepsAccount
  <2> QED
    BY <1>7, <2>1, <2>6, <2>7 DEF UnloadFilter
<1>8. CASE UnloadStops
  BY <1>0, <1>8, SamePlacesKeepAccount DEF UnloadStops, clientVars, tableVars, queueVars
<1>9. CASE UnloadDone
  <2>1. pending = <<>>
    BY <1>9 DEF UnloadDone, Account, PendingIsWalked
  <2> QED
    BY <1>0, <1>9, <2>1, SamePlacesKeepAccount DEF UnloadDone, DrainQueue, clientVars, tableVars
<1>10. CASE ShutdownDone
  <2>1. pending = <<>>
    BY <1>10 DEF ShutdownDone, Account, PendingIsWalked
  <2> QED
    BY <1>0, <1>10, <2>1, SamePlacesKeepAccount DEF ShutdownDone, clientVars, tableVars, queueVars
<1>11. CASE handleShutdown
  <2>1. /\ pending = <<>> /\ pending' = pending /\ queued' = <<>>
        /\ status' = Refuse(Requests, "shutdown") /\ Forget(Models)
    BY <1>11 DEF handleShutdown, Account, PendingIsWalked
  <2>2. \A x \in Requests :
            /\ status'[x] = "idle" => status[x] = "idle"
            /\ status'[x] # "waiting"
    BY <2>1, RefuseAnswers DEF RefusedStatus
  <2>3. QueuesApart' /\ \A x : ~In(x, queued)' /\ ~In(x, pending)'
    BY <2>1, EmptyQueue DEF QueuesApart
  <2>4. \A m \in Models : waiters'[m] = {}
    BY <2>1 DEF Forget
  <2> QED
    BY <2>1, <2>2, <2>3, <2>4
       DEF Account, WaitersApart, OnlyArrived, PendingIsWalked, Remembered
<1> QED
  BY <1>1, <1>2, <1>3, <1>4, <1>5, <1>6, <1>7, <1>8, <1>9, <1>10, <1>11 DEF RunLoop

(* The account is right from the start and stays so.                       *)
LEMMA AccountIsKept ==
  /\ Init => Account
  /\ TypeOK /\ LoopHead /\ Account /\ [Next]_vars => Account'
<1>1. ASSUME Init
      PROVE  Account
  <2>1. queued = <<>> /\ pending = <<>> /\ \A x : ~In(x, <<>>)
    BY <1>1, EmptyQueue DEF Init
  <2> QED
    BY <1>1, <2>1, EmptyQueue
       DEF Init, Account, QueuesApart, WaitersApart, OnlyArrived, PendingIsWalked, Remembered
<1>2. ASSUME TypeOK, LoopHead, Account, [Next]_vars
      PROVE  Account'
  <2>1. CASE RunLoop
    BY <1>2, <2>1, RunLoopKeepsAccount
  <2>2. CASE Clients
    <3>1. UNCHANGED <<model, loop, active, waiters, queued, pending>>
      BY <2>2, ClientsFrame DEF Clients, RequestCancelled, ServeDoneDropped
    <3>2. \A x \in Requests : status'[x] \in {"idle", "waiting"} => status'[x] = status[x]
      BY <1>2, <2>2 DEF Clients, RequestCancelled, ServeDoneDropped, TypeOK, ClientsOK
    <3> QED
      BY <1>2, <3>1, <3>2, SamePlacesKeepAccount DEF Account, PendingIsWalked
  <2>3. CASE UNCHANGED <<status, model, loop, active, waiters, queued, pending>>
    BY <1>2, <2>3, SamePlacesKeepAccount DEF Account, PendingIsWalked
  <2> QED
    BY <1>2, <2>1, <2>2, <2>3, doSwapFrame, ProcessesFrame DEF Next, vars
<1> QED
  BY <1>1, <1>2

(* A parked caller is in one place, under its own model.                   *)
THEOREM NobodyIsForgotten == Spec => []WaitingIsRemembered
<1>1. Spec => [](TypeOK /\ LoopHead /\ Account)
  BY InitTyped, TypedStep, AccountIsKept, PTL DEF Spec
<1>2. TypeOK /\ Account => WaitingIsRemembered
  BY DEF Account, QueuesApart, WaitersApart, Remembered, WaitingIsRemembered,
         InQueue, InPending, In, TypeOK, ClientsOK
<1> QED
  BY <1>1, <1>2, PTL

-----------------------------------------------------------------------------
(* What is in flight.                                                      *)

ServedOf(m) == {r \in Requests : status[r] = "serving" /\ model[r] = m}

(* The served requests of a model can be counted.                          *)
LEMMA ServedIsFinite ==
  ASSUME NEW m
  PROVE  IsFiniteSet(ServedOf(m)) /\ IsFiniteSet(ServedOf(m)')
<1>1. ServedOf(m) \subseteq Requests /\ ServedOf(m)' \subseteq Requests
  BY DEF ServedOf
<1> QED
  BY <1>1, RequestsAssumption, FS_Subset

(* Events that serve nobody anew and end nothing.                          *)
LEMMA SameServedKeepsExact ==
  ASSUME InFlightExact, UNCHANGED <<model, inFlight>>,
         loop' \notin {"shutdown", "exited"} => loop \notin {"shutdown", "exited"},
         \A r \in Requests : status'[r] = "serving" <=> status[r] = "serving"
  PROVE  InFlightExact'
<1>1. \A m : ServedOf(m)' = ServedOf(m)
  BY DEF ServedOf
<1> QED
  BY <1>1 DEF InFlightExact, ServedOf

(* Handlers for callers of one model: as many are counted as take them.    *)
LEMMA GrantKeepsExact ==
  ASSUME TypeOK, InFlightExact, model' = model, NEW m \in Models,
         loop \notin {"shutdown", "exited"},
         NEW rs \in SUBSET Requests, \A r \in rs : model[r] = m,
         status' = Served(rs), inFlight' = GrantedTo(rs, m)
  PROVE  InFlightExact'
<1>1. PICK t \in SUBSET Requests : t = Takers(rs)
  BY DEF Takers
<1>2. /\ \A r \in t : status[r] = "waiting" /\ model[r] = m
      /\ \A r \in Requests : status'[r] = IF r \in t THEN "serving" ELSE status[r]
  BY <1>1 DEF Served, Takers
<1>3. \A x \in Models : ServedOf(x)' = IF x = m THEN ServedOf(m) \cup t ELSE ServedOf(x)
  BY <1>2 DEF ServedOf
<1>4. ServedOf(m) \cap t = {}
  BY <1>2 DEF ServedOf
<1>5. Cardinality(ServedOf(m) \cup t) = Cardinality(ServedOf(m)) + Cardinality(t)
  <2>1. IsFiniteSet(ServedOf(m)) /\ IsFiniteSet(t)
    BY ServedIsFinite, RequestsAssumption, FS_Subset
  <2>2. Cardinality(ServedOf(m) \cup t)
           = Cardinality(ServedOf(m)) + Cardinality(t) - Cardinality({})
    BY <1>4, <2>1, FS_Union
  <2>3. Cardinality(ServedOf(m)) \in Nat /\ Cardinality(t) \in Nat /\ Cardinality({}) = 0
    BY <2>1, FS_CardinalityType, FS_EmptySet
  <2> QED
    BY <2>2, <2>3
<1>6. inFlight' = [inFlight EXCEPT ![m] = inFlight[m] + Cardinality(t)]
  BY <1>1 DEF GrantedTo
<1>7. \A x \in Models : inFlight[x] = Cardinality(ServedOf(x))
  BY DEF InFlightExact, ServedOf
<1>8. \A x \in Models : inFlight'[x] = Cardinality(ServedOf(x)')
  BY <1>3, <1>5, <1>6, <1>7 DEF TypeOK, TablesOK
<1> QED
  BY <1>8 DEF InFlightExact, ServedOf

(* A served request that ends was counted, and the count of its model was  *)
(* therefore at least one.                                                 *)
LEMMA ServeDoneKeepsExact ==
  ASSUME TypeOK, InFlightExact, NEW r \in Requests, handleServeDone(r)
  PROVE  InFlightExact'
<1>1. PICK m \in Models : m = model[r]
  BY DEF TypeOK, ClientsOK
<1>2. /\ loop = "select" /\ status[r] = "serving" /\ model' = model
      /\ status' = [status EXCEPT ![r] = "done"]
      /\ inFlight' = [inFlight EXCEPT ![m] = IF inFlight[m] > 1 THEN inFlight[m] - 1 ELSE 0]
  BY <1>1 DEF handleServeDone, TypeOK, TablesOK
<1>3. /\ r \in ServedOf(m)
      /\ \A x \in Models : ServedOf(x)' = IF x = m THEN ServedOf(m) \ {r} ELSE ServedOf(x)
  BY <1>1, <1>2 DEF ServedOf, TypeOK, ClientsOK
<1>4. Cardinality(ServedOf(m) \ {r}) = Cardinality(ServedOf(m)) - 1
  BY <1>3, ServedIsFinite, FS_RemoveElement
<1>5. Cardinality(ServedOf(m) \ {r}) \in Nat /\ Cardinality(ServedOf(m)) \in Nat
  <2>1. IsFiniteSet(ServedOf(m)) /\ IsFiniteSet(ServedOf(m) \ {r})
    BY <1>3, ServedIsFinite, FS_RemoveElement
  <2> QED
    BY <2>1, FS_CardinalityType
<1>6. \A x \in Models : inFlight[x] = Cardinality(ServedOf(x))
  BY <1>2 DEF InFlightExact, ServedOf
<1>7. (IF inFlight[m] > 1 THEN inFlight[m] - 1 ELSE 0) = Cardinality(ServedOf(m) \ {r})
  BY <1>4, <1>5, <1>6
<1>8. \A x \in Models : inFlight'[x] = Cardinality(ServedOf(x)')
  BY <1>2, <1>3, <1>6, <1>7 DEF TypeOK, TablesOK
<1> QED
  BY <1>8 DEF InFlightExact, ServedOf

(* A new request that is served at once is counted at once.                *)
LEMMA RequestKeepsExact ==
  ASSUME TypeOK, InFlightExact, NEW r \in Requests, handleRequest(r)
  PROVE  InFlightExact'
<1>1. PICK m \in Models : m = model[r]
  BY DEF TypeOK, ClientsOK
<1>2. /\ loop = "select" /\ loop' = loop /\ status[r] = "idle" /\ model' = model
      /\ \A x \in Requests \ {r} : status'[x] = status[x]
  BY DEF handleRequest, TypeOK, ClientsOK
<1>3. CASE inFlight' = inFlight /\ status'[r] # "serving"
  BY <1>2, <1>3, SameServedKeepsExact
<1>4. CASE status'[r] = "serving" /\ inFlight' = [inFlight EXCEPT ![m] = @ + 1]
  <2>1. /\ r \notin ServedOf(m)
        /\ \A x \in Models : ServedOf(x)' = IF x = m THEN ServedOf(m) \cup {r} ELSE ServedOf(x)
    BY <1>1, <1>2, <1>4 DEF ServedOf
  <2>2. Cardinality(ServedOf(m) \cup {r}) = Cardinality(ServedOf(m)) + 1
    BY <2>1, ServedIsFinite, FS_AddElement
  <2>3. \A x \in Models : inFlight[x] = Cardinality(ServedOf(x))
    BY <1>2 DEF InFlightExact, ServedOf
  <2>4. \A x \in Models : inFlight'[x] = Cardinality(ServedOf(x)')
    BY <1>4, <2>1, <2>2, <2>3 DEF TypeOK, TablesOK
  <2> QED
    BY <2>4 DEF InFlightExact, ServedOf
<1> QED
  BY <1>1, <1>3, <1>4 DEF handleRequest, Join, StartSwap, tableVars, TypeOK, ClientsOK

(* Every event of the run loop keeps the counts exact.                     *)
LEMMA RunLoopKeepsExact ==
  ASSUME TypeOK, LoopHead, Account, InFlightExact, RunLoop
  PROVE  InFlightExact'
<1>0. model' = model
  BY RunLoopFrame
<1>1. CASE \E r \in Requests : handleRequest(r)
  BY <1>1, RequestKeepsExact
<1>2. CASE \E r \in Requests : handleServeDone(r)
  BY <1>2, ServeDoneKeepsExact
<1>3. CASE \E r \in Requests : handleSwapDone(r)
  <2>1. PICK r \in Requests : handleSwapDone(r)
    BY <1>3
  <2>2. PICK m \in Models : m = model[r]
    BY DEF TypeOK, ClientsOK
  <2>3. loop = "select"
    BY <2>1 DEF handleSwapDone
  <2>4. CASE status' = Served(waiters[m]) /\ inFlight' = GrantedTo(waiters[m], m)
    <3>1. waiters[m] \in SUBSET Requests /\ \A q \in waiters[m] : model[q] = m
      BY DEF TypeOK, TablesOK, Account, WaitersApart
    <3> QED
      BY <1>0, <2>3, <2>4, <3>1, GrantKeepsExact
  <2>5. CASE inFlight' = inFlight /\ status' \in {status, Refuse(waiters[m], "loadFailed")}
    <3>1. \A q \in Requests : status'[q] = "serving" <=> status[q] = "serving"
      BY <2>5 DEF Refuse
    <3> QED
      BY <1>0, <2>3, <2>5, <3>1, SameServedKeepsExact
  <2> QED
    BY <2>1, <2>2, <2>4, <2>5 DEF handleSwapDone, tableVars
<1>4. CASE drainQueue
  <2>1. PICK r \in Requests : r = Head(pending)
    BY <1>4 DEF drainQueue, LoopHead, TypeOK, QueuesOK
  <2>2. PICK m \in Models : m = model[r]
    BY DEF TypeOK, ClientsOK
  <2>3. loop = "drain" /\ loop' \in {"select", "drain"}
    BY <1>4 DEF drainQueue
  <2>4. CASE status' = Served({r}) /\ inFlight' = GrantedTo({r}, m)
    BY <1>0, <2>1, <2>2, <2>3, <2>4, GrantKeepsExact
  <2>5. CASE UNCHANGED <<status, inFlight>>
    BY <1>0, <2>3, <2>5, SameServedKeepsExact
  <2> QED
    BY <1>4, <2>1, <2>2, <2>4, <2>5 DEF drainQueue, Join, StartSwap, tableVars
<1>5. CASE \/ expireStaleQueued \/ UnloadFilter \/ UnloadStops \/ UnloadDone
           \/ handleShutdown \/ ShutdownDone \/ \E ts \in SUBSET Models : handleUnload(ts)
  <2>1. inFlight' = inFlight
    BY <1>5 DEF expireStaleQueued, UnloadFilter, UnloadStops, UnloadDone,
       handleShutdown, ShutdownDone, handleUnload, tableVars
  <2>2. \A q \in Requests : status'[q] = "serving" <=> status[q] = "serving"
    BY <1>5 DEF expireStaleQueued, UnloadFilter, UnloadStops, UnloadDone,
       handleShutdown, ShutdownDone, handleUnload, Refuse, clientVars
  <2>3. loop' \notin {"shutdown", "exited"} => loop \notin {"shutdown", "exited"}
    BY <1>5 DEF expireStaleQueued, UnloadFilter, UnloadStops, UnloadDone,
       handleShutdown, ShutdownDone, handleUnload
  <2> QED
    BY <1>0, <2>1, <2>2, <2>3, SameServedKeepsExact
<1> QED
  BY <1>1, <1>2, <1>3, <1>4, <1>5 DEF RunLoop

(* No step leaves a count too high or too low while the router works: not  *)
(* a caller that leaves as its handler comes, nor an unload under it.      *)
LEMMA NextKeepsExact ==
  TypeOK /\ LoopHead /\ Account /\ InFlightExact /\ [Next]_vars => InFlightExact'
<1> SUFFICES ASSUME TypeOK, LoopHead, Account, InFlightExact, [Next]_vars
             PROVE  InFlightExact'
  OBVIOUS
<1>1. CASE RunLoop
  BY <1>1, RunLoopKeepsExact
<1>2. CASE \E r \in Requests : RequestCancelled(r)
  <2>1. /\ UNCHANGED <<model, inFlight, loop>>
        /\ \A q \in Requests : status'[q] = "serving" <=> status[q] = "serving"
    BY <1>2 DEF RequestCancelled, tableVars, TypeOK, ClientsOK
  <2> QED
    BY <2>1, SameServedKeepsExact
<1>3. CASE \E r \in Requests : ServeDoneDropped(r)
  BY <1>3 DEF ServeDoneDropped, InFlightExact
<1>4. CASE UNCHANGED <<status, model, inFlight, loop>>
  BY <1>4, SameServedKeepsExact
<1> QED
  BY <1>1, <1>2, <1>3, <1>4, doSwapFrame, ProcessesFrame DEF Next, Clients, vars

(* At the start nothing is served.                                         *)
LEMMA InitExact == Init => InFlightExact
<1> SUFFICES ASSUME Init PROVE InFlightExact
  OBVIOUS
<1>1. \A m \in Models : ServedOf(m) = {} /\ inFlight[m] = 0
  BY DEF Init, ServedOf
<1> QED
  BY <1>1, FS_EmptySet DEF InFlightExact, ServedOf

(* The in-flight count is exact, for any number of requests: what          *)
(* conflictsWithInFlight reads is what is being served.                    *)
THEOREM CountsAreExact == Spec => []InFlightExact
<1>1. Spec => [](TypeOK /\ LoopHead /\ Account /\ InFlightExact)
  BY InitTyped, TypedStep, AccountIsKept, InitExact, NextKeepsExact, PTL DEF Spec
<1> QED
  BY <1>1, PTL

-----------------------------------------------------------------------------
(* What each process sees.                                                 *)

(* A process that is up is alive and not flagged, and carries out the Stop *)
(* of somebody still blocked in it; only a cancelled one is shut down.     *)
ProcessKept(m) ==
    /\ pState[m] \in {"starting", "ready", "stopping"} => live[m] > 0 /\ ~possiblyLeaked[m]
    /\ pState[m] = "stopping" => stopper[m] \in Stopping(m)
    /\ pState[m] # "stopping" => stopper[m] = NoOne
    /\ pState[m] = "shutdown" => loop = "exited"

(* This much follows from the interface alone.                             *)
LEMMA ServiceKept ==
  ASSUME NEW m \in Models, ProcessKept(m),
         [Process(m)!ServiceNext]_(Process(m)!serviceVars)
  PROVE  ProcessKept(m)'
<1> USE DEF ProcessKept
<1>1. CASE UNCHANGED Process(m)!serviceVars
  BY <1>1 DEF Process!serviceVars
<1>2. CASE Process(m)!Call \/ Process(m)!Leave \/ Process(m)!Cancel
  BY <1>2 DEF Process!Call, Process!Leave, Process!Cancel, Process!callerVars
<1>3. CASE Process(m)!BeginStart \/ Process(m)!RefuseRun
           \/ Process(m)!AnswerWait \/ Process(m)!ParkWait
  BY <1>3 DEF Process!BeginStart, Process!RefuseRun, Process!AnswerWait, Process!ParkWait,
              Process!waitVars
<1>4. CASE Process(m)!BecomeReady \/ Process(m)!FailStart \/ Process(m)!AbortStart
  BY <1>4 DEF Process!BecomeReady, Process!FailStart, Process!AbortStart, Process!Killed
<1>5. CASE Process(m)!StopIdle \/ Process(m)!BeginStop \/ Process(m)!EndStop
  BY <1>5 DEF Process!StopIdle, Process!BeginStop, Process!EndStop, Process!Killed
<1>6. CASE Process(m)!Crash \/ Process(m)!Reclaim \/ Process(m)!ShutDown
  BY <1>6 DEF Process!Crash, Process!Reclaim, Process!ShutDown, Process!Killed,
              Process!callerVars
<1> QED
  BY <1>1, <1>2, <1>3, <1>4, <1>5, <1>6 DEF Process!ServiceNext

(* A request has no swap of its own before it leaves the queue.            *)
Unstarted ==
    \A r \in Requests : status[r] = "idle" \/ Parked(r) => swapPc[r] = "none"

(* Nobody arrives twice, or is queued again once it has left the queue.    *)
LEMMA QueuesOnlyFromArrival ==
  ASSUME TypeOK, LoopHead, Account, RunLoop
  PROVE  \A r \in Requests :
            /\ status'[r] = "idle" => status[r] = "idle"
            /\ Parked(r)' => Parked(r) \/ status[r] = "idle"
<1>0. queued \in Seq(Requests) /\ pending \in Seq(Requests)
  BY DEF TypeOK, QueuesOK
<1>a. ASSUME UNCHANGED <<queued, pending>>
      PROVE  \A r \in Requests : Parked(r)' => Parked(r)
  BY <1>a DEF Parked, In
<1>b. ASSUME queued' = <<>>, pending' = queued
      PROVE  \A r \in Requests : Parked(r)' => Parked(r)
  BY <1>b DEF Parked, In
<1>1. CASE \E r \in Requests : handleRequest(r)
  <2>1. PICK r \in Requests : handleRequest(r)
    BY <1>1
  <2>2. /\ status[r] = "idle" /\ pending' = pending
        /\ status' = [status EXCEPT ![r] = status'[r]]
        /\ status'[r] # "idle"
    BY <2>1 DEF handleRequest, TypeOK, ClientsOK, queueVars
  <2>3. \A x \in Requests : status'[x] = "idle" => status[x] = "idle"
    BY <2>2 DEF TypeOK, ClientsOK
  <2>4. CASE queued' = queued
    BY <2>2, <2>3, <2>4, <1>a
  <2>5. CASE queued' = Append(queued, r)
    <3>1. \A x \in Requests : In(x, queued') => x = r \/ In(x, queued)
      BY <1>0, <2>5 DEF In
    <3> QED
      BY <2>2, <2>3, <3>1 DEF Parked
  <2> QED
    BY <2>1, <2>4, <2>5 DEF handleRequest, queueVars
<1>2. CASE drainQueue \/ UnloadFilter
  <2>1. PICK r \in Requests : r = Head(pending) /\ pending # <<>>
    BY <1>2 DEF drainQueue, UnloadFilter, LoopHead, TypeOK, QueuesOK
  <2>2. /\ pending' = Tail(pending) /\ queued' \in {queued, Append(queued, r)}
        /\ status' \in {status, Served({r}), Refuse({r}, "unloaded")}
    BY <1>2, <2>1 DEF drainQueue, UnloadFilter
  <2>3. \A x \in Requests : status'[x] = "idle" => status[x] = "idle"
    BY <2>2, RefuseAnswers, ServedAnswers DEF RefusedStatus
  <2>4. /\ In(r, pending)
        /\ \A x \in Requests : In(x, pending') => In(x, pending)
    BY <1>0, <2>1, <2>2, TakeHead DEF Account, QueuesApart
  <2>5. \A x \in Requests : In(x, queued') => x = r \/ In(x, queued)
    BY <1>0, <2>2 DEF In
  <2> QED
    BY <2>3, <2>4, <2>5 DEF Parked
<1>3. CASE \E r \in Requests : handleSwapDone(r)
  <2>1. PICK r \in Requests : handleSwapDone(r)
    BY <1>3
  <2>2. PICK rs : rs = waiters[model[r]]
    OBVIOUS
  <2>3. status' = status \/ status' = Refuse(rs, "loadFailed") \/ status' = Served(rs)
    BY <2>1, <2>2 DEF handleSwapDone
  <2>4. \A x \in Requests : status'[x] = "idle" => status[x] = "idle"
    BY <2>3, RefuseAnswers, ServedAnswers DEF RefusedStatus
  <2> QED
    BY <2>1, <2>4, <1>a, <1>b DEF handleSwapDone, DrainQueue, queueVars
<1>4. CASE \E r \in Requests : handleServeDone(r)
  <2>1. PICK r \in Requests : handleServeDone(r)
    BY <1>4
  <2>2. \A x \in Requests : status'[x] = "idle" => status[x] = "idle"
    BY <2>1 DEF handleServeDone, TypeOK, ClientsOK
  <2> QED
    BY <2>1, <2>2, <1>a, <1>b DEF handleServeDone, DrainQueue, queueVars
<1>5. CASE expireStaleQueued
  <2>1. PICK k \in 1..Len(queued) :
            /\ status' = Refuse({queued[i] : i \in 1..k}, "timedOut")
            /\ queued' = SubSeq(queued, k + 1, Len(queued))
            /\ pending' = pending
    BY <1>5 DEF expireStaleQueued
  <2>2. PICK rs : rs = {queued[i] : i \in 1..k}
    OBVIOUS
  <2>3. \A x \in Requests : status'[x] = "idle" => status[x] = "idle"
    BY <2>1, <2>2, RefuseAnswers DEF RefusedStatus
  <2>4. \A x \in Requests : In(x, queued') => In(x, queued)
    BY <1>0, <2>1, <2>2, DropPrefix DEF Account, QueuesApart
  <2> QED
    BY <2>1, <2>3, <2>4 DEF Parked
<1>6. CASE \E ts \in SUBSET Models : handleUnload(ts)
  <2>1. PICK ts \in SUBSET Models : handleUnload(ts)
    BY <1>6
  <2>2. PICK rs : rs = UNION {waiters[m] : m \in active \cap ts}
    OBVIOUS
  <2>3. \A x \in Requests : status'[x] = "idle" => status[x] = "idle"
    BY <2>1, <2>2, RefuseAnswers DEF handleUnload, RefusedStatus
  <2> QED
    BY <2>1, <2>3, <1>b DEF handleUnload
<1>7. CASE UnloadStops \/ UnloadDone \/ ShutdownDone
  BY <1>7, <1>a, <1>b DEF UnloadStops, UnloadDone, ShutdownDone, DrainQueue, clientVars, queueVars
<1>8. CASE handleShutdown
  <2>1. \A x \in Requests : status'[x] = "idle" => status[x] = "idle"
    BY <1>8, RefuseAnswers DEF handleShutdown, RefusedStatus
  <2>2. \A x : ~In(x, queued')
    BY <1>8, EmptyQueue DEF handleShutdown
  <2> QED
    BY <1>8, <2>1, <2>2 DEF handleShutdown, Parked
<1> QED
  BY <1>1, <1>2, <1>3, <1>4, <1>5, <1>6, <1>7, <1>8 DEF RunLoop

(* What an event of the run loop does to the swaps: one may begin, for a   *)
(* request that had none and now waits for it, or end.                     *)
SwapsAdvance ==
    \A r \in Requests :
        \/ swapPc'[r] = swapPc[r] /\ swapErr'[r] = swapErr[r] /\ toStop'[r] = toStop[r]
        \/ /\ swapPc[r] = "none" /\ swapPc'[r] = "stop"
           /\ model[r] \in Models /\ r \in waiters'[model[r]]
        \/ swapPc[r] = "report" /\ swapPc'[r] = "done"

(* A swap begins.                                                          *)
LEMMA StartSwapAdvances ==
  ASSUME TypeOK, NEW r \in Requests, swapPc[r] = "none",
         NEW ev, StartSwap(r, model[r], ev)
  PROVE  SwapsAdvance
<1>1. model[r] \in Models /\ r \in waiters'[model[r]]
  BY DEF StartSwap, TypeOK, TablesOK, ClientsOK
<1> QED
  BY <1>1 DEF StartSwap, SwapsAdvance, TypeOK, SwapsOK

(* No event does more; the request it starts a swap for had none.          *)
LEMMA RunLoopAdvances ==
  ASSUME TypeOK, LoopHead, Account, Unstarted, RunLoop
  PROVE  SwapsAdvance
<1>1. CASE \E r \in Requests : handleRequest(r)
  <2>1. PICK r \in Requests : handleRequest(r)
    BY <1>1
  <2>2. swapPc[r] = "none"
    BY <2>1 DEF handleRequest, Unstarted
  <2>3. CASE StartSwap(r, model[r], EvictionFor(model[r], activeTargets(model[r])))
    BY <2>2, <2>3, StartSwapAdvances
  <2>4. CASE UNCHANGED swapVars
    BY <2>4 DEF swapVars, SwapsAdvance
  <2> QED
    BY <2>1, <2>3, <2>4 DEF handleRequest, Join
<1>2. CASE drainQueue
  <2>1. PICK r \in Requests : r = Head(pending) /\ pending # <<>>
    BY <1>2 DEF drainQueue, LoopHead, TypeOK, QueuesOK
  <2>2. In(r, pending)
    BY <2>1, TakeHead DEF TypeOK, QueuesOK
  <2>3. swapPc[r] = "none"
    BY <2>2 DEF Unstarted, Parked
  <2>4. CASE StartSwap(r, model[r], EvictionFor(model[r], activeTargets(model[r])))
    BY <2>3, <2>4, StartSwapAdvances
  <2>5. CASE UNCHANGED swapVars
    BY <2>5 DEF swapVars, SwapsAdvance
  <2> QED
    BY <1>2, <2>1, <2>4, <2>5 DEF drainQueue, Join
<1>3. CASE \E r \in Requests : handleSwapDone(r)
  BY <1>3 DEF handleSwapDone, SwapsAdvance, TypeOK, SwapsOK
<1>4. CASE UNCHANGED swapVars
  BY <1>4 DEF swapVars, SwapsAdvance
<1> QED
  BY <1>1, <1>2, <1>3, <1>4
     DEF RunLoop, handleServeDone, expireStaleQueued, handleUnload, UnloadFilter,
         UnloadStops, UnloadDone, handleShutdown, ShutdownDone

(* What waits to be picked has no swap yet, from the start and ever after. *)
LEMMA UnstartedIsKept ==
  /\ Init => Unstarted
  /\ TypeOK /\ LoopHead /\ Account /\ Unstarted /\ [Next]_vars => Unstarted'
<1>1. ASSUME Init
      PROVE  Unstarted
  BY <1>1 DEF Init, Unstarted
<1>2. ASSUME TypeOK, LoopHead, Account, Unstarted, [Next]_vars
      PROVE  Unstarted'
  <2>1. Account' /\ TypeOK'
    BY <1>2, AccountIsKept, TypedStep
  <2>2. CASE RunLoop
    <3>1. SwapsAdvance /\ model' = model
      BY <1>2, <2>2, RunLoopAdvances, RunLoopFrame
    <3>2. \A r \in Requests : \A m \in Models :
              r \in waiters'[m] => status'[r] # "idle" /\ ~Parked(r)'
      BY <2>1 DEF Account, WaitersApart, OnlyArrived, Parked
    <3>3. \A r \in Requests :
              /\ status'[r] = "idle" => status[r] = "idle"
              /\ Parked(r)' => Parked(r) \/ status[r] = "idle"
      BY <1>2, <2>2, QueuesOnlyFromArrival
    <3> QED
      BY <1>2, <3>1, <3>2, <3>3 DEF Unstarted, SwapsAdvance
  <2>3. CASE Clients
    <3>1. UNCHANGED <<queued, pending, swapPc>>
      BY <2>3, ClientsFrame DEF swapVars
    <3>2. \A x \in Requests : status'[x] = "idle" => status[x] = "idle"
      BY <1>2, <2>3 DEF Clients, RequestCancelled, ServeDoneDropped, TypeOK, ClientsOK
    <3> QED
      BY <1>2, <3>1, <3>2 DEF Unstarted, Parked, In
  <2>4. CASE doSwap \/ Processes
    <3>1. UNCHANGED <<status, queued, pending>>
      BY <2>4, doSwapFrame, ProcessesFrame
    <3>2. \A r \in Requests : swapPc[r] = "none" => swapPc'[r] = "none"
      <4> USE <1>2 DEF TypeOK, SwapsOK
      <4>1. CASE doSwap
        BY <4>1 DEF doSwap, doSwapStopped, doSwapDropped
      <4>2. CASE \E r \in Requests : AcceptWaitReady(r) \/ AcceptRun(r)
        BY <4>2 DEF AcceptWaitReady, AcceptRun
      <4>3. CASE \E m \in Models : StartSucceeds(m) \/ StartFails(m) \/ ProcessCancelled(m)
        BY <4>3 DEF StartSucceeds, StartFails, ProcessCancelled, NotifyWaiters
      <4>4. CASE \E m \in Models, who \in Requests \cup {Loop, Self} : StopStarting(m, who)
        BY <4>4 DEF StopStarting
      <4>5. CASE swapPc' = swapPc
        BY <4>5
      <4> QED
        BY <2>4, <4>1, <4>2, <4>3, <4>4, <4>5
           DEF Processes, Stops, StopIdle, StopReady, UpstreamExits, LeakedExits,
               SelfStopDecided, FinishStop, swapVars
    <3> QED
      BY <1>2, <3>1, <3>2 DEF Unstarted, Parked, In
  <2>5. CASE UNCHANGED vars
    BY <1>2, <2>5 DEF vars, Unstarted, Parked, In
  <2> QED
    BY <1>2, <2>2, <2>3, <2>4, <2>5 DEF Next
<1> QED
  BY <1>1, <1>2

Serves(m) == [Process(m)!ServiceNext]_(Process(m)!serviceVars)

(* To a process the run loop is a caller: a swap that begins calls Stop,   *)
(* one that ends uses the answer it got, and only procCtx ends.            *)
LEMMA RunLoopServes ==
  ASSUME TypeOK, LoopHead, Account, Unstarted, RunLoop, NEW m \in Models
  PROVE  Serves(m)
<1>1. SwapsAdvance
  BY RunLoopAdvances
<1>2. /\ UNCHANGED <<model, runs, pState, live, possiblyLeaked, stopper, selfStop>>
      /\ loop # "exited"
  BY RunLoopFrame
     DEF procVars, RunLoop, handleRequest, handleSwapDone, handleServeDone, drainQueue,
         expireStaleQueued, handleUnload, UnloadFilter, UnloadStops, UnloadDone,
         handleShutdown, ShutdownDone
<1>3. /\ UNCHANGED <<Waiting(m, "wait"), Waiting(m, "parked")>>
      /\ {r \in Waiting(m, "report") : ~swapErr[r]}'
            \subseteq {r \in Waiting(m, "report") : ~swapErr[r]}
  BY <1>1, <1>2 DEF SwapsAdvance, Waiting
<1>4. CASE ShutdownDone
  <2>1. loop = "shutdown" /\ loopStops = {} /\ loop' = "exited" /\ UNCHANGED <<swapVars, loopStops>>
    BY <1>4 DEF ShutdownDone
  <2>2. UNCHANGED Stopping(m)
    BY <1>2, <2>1 DEF Stopping, swapVars
  <2>3. UNCHANGED {r \in Waiting(m, "report") : ~swapErr[r]}
    BY <1>2, <2>1 DEF Waiting, swapVars
  <2>4. Process(m)!Cancel
    BY <1>2, <1>3, <2>1, <2>2, <2>3 DEF Process!Cancel, Process!callerVars
  <2> QED
    BY <2>4 DEF Serves, Process!ServiceNext
<1>5. CASE ~ShutdownDone
  <2>1. /\ loop' # "exited"
        /\ loop \in {"unload", "shutdown"} /\ m \in loopStops
              => loop' = loop /\ loopStops' = loopStops
    BY <1>5
       DEF RunLoop, handleRequest, handleSwapDone, handleServeDone, drainQueue,
           expireStaleQueued, handleUnload, UnloadFilter, UnloadStops, UnloadDone,
           handleShutdown, DrainQueue
  <2>2. Stopping(m) \subseteq Stopping(m)'
    BY <1>1, <1>2, <2>1 DEF SwapsAdvance, Stopping
  <2>3. Process(m)!Call
    BY <1>2, <1>3, <2>1, <2>2 DEF Process!Call
  <2> QED
    BY <2>3 DEF Serves, Process!ServiceNext
<1> QED
  BY <1>4, <1>5

(* A doSwap goroutine calls, or gives up at shutdown.                      *)
LEMMA doSwapServes ==
  ASSUME TypeOK, doSwap, NEW m \in Models
  PROVE  Serves(m)
<1>1. UNCHANGED <<model, loop, loopStops, toStop, swapErr, pState, live, possiblyLeaked,
                  stopper, selfStop>>
  BY doSwapFrame DEF procVars
<1>2. CASE \E r \in Requests : doSwapStopped(r)
  <2>1. PICK r \in Requests :
            /\ swapPc[r] = "stop" /\ toStop[r] = {}
            /\ runs' \in {runs, runs \cup {r}}
            /\ \/ swapErr[r] /\ swapPc' = [swapPc EXCEPT ![r] = "report"]
               \/ swapPc' = [swapPc EXCEPT ![r] = "wait"]
    BY <1>2 DEF doSwapStopped
  <2>2. UNCHANGED Stopping(m)
    BY <1>1, <2>1 DEF Stopping, TypeOK, SwapsOK
  <2>3. /\ UNCHANGED <<Waiting(m, "parked"), {x \in Waiting(m, "report") : ~swapErr[x]}>>
        /\ Waiting(m, "wait") \subseteq Waiting(m, "wait")'
        /\ \A w \in Waiting(m, "wait")' : swapPc[w] \in {"wait", "stop"}
    BY <1>1, <2>1 DEF Waiting, TypeOK, SwapsOK
  <2>4. {x \in runs : model[x] = m} \subseteq {x \in runs : model[x] = m}'
    BY <1>1, <2>1
  <2>5. Process(m)!Call
    BY <1>1, <2>2, <2>3, <2>4 DEF Process!Call, Waiting
  <2> QED
    BY <2>5 DEF Serves, Process!ServiceNext
<1>3. CASE \E r \in Requests : doSwapDropped(r)
  <2>1. PICK r \in Requests :
            /\ swapPc[r] \in {"wait", "parked", "report"}
            /\ swapPc' = [swapPc EXCEPT ![r] = "done"]
            /\ runs' = runs
    BY <1>3 DEF doSwapDropped
  <2>2. UNCHANGED Stopping(m)
    BY <1>1, <2>1 DEF Stopping, TypeOK, SwapsOK
  <2>3. /\ Waiting(m, "wait")' \subseteq Waiting(m, "wait")
        /\ Waiting(m, "parked")' \subseteq Waiting(m, "parked")
        /\ {x \in Waiting(m, "report") : ~swapErr[x]}'
              \subseteq {x \in Waiting(m, "report") : ~swapErr[x]}
    BY <1>1, <2>1 DEF Waiting, TypeOK, SwapsOK
  <2>4. Process(m)!Leave
    BY <1>1, <2>1, <2>2, <2>3 DEF Process!Leave
  <2> QED
    BY <2>4 DEF Serves, Process!ServiceNext
<1> QED
  BY <1>2, <1>3 DEF doSwap

(* A step that leaves the calls and the state of a process alone.          *)
LEMMA Unserved ==
  ASSUME UNCHANGED <<model, loop, loopStops, swapVars, procVars>>, NEW m
  PROVE  Serves(m)
BY DEF Serves, swapVars, procVars, Process!serviceVars, Waiting, Stopping

Told(m) == {r \in Waiting(m, "report") : ~swapErr[r]}
RunsOf(m) == {r \in runs : model[r] = m}

(* A process that does not move while others do.                           *)
LEMMA Unmoved ==
  ASSUME NEW x,
         UNCHANGED <<pState[x], live[x], possiblyLeaked[x], stopper[x], RunsOf(x),
                     Waiting(x, "wait"), Waiting(x, "parked"), Told(x), Stopping(x), loop>>
  PROVE  Serves(x)
BY DEF Serves, Process!serviceVars, Told, RunsOf

(* The two calls of a swap are answered from the state of its model.       *)
LEMMA CallsServe ==
  ASSUME TypeOK, NEW r \in Requests, AcceptWaitReady(r) \/ AcceptRun(r), NEW x \in Models
  PROVE  Serves(x)
<1> USE DEF TypeOK, ClientsOK, SwapsOK, ProcsOK
<1>0. UNCHANGED <<model, loop, loopStops, selfStop, toStop, possiblyLeaked, stopper>>
  BY DEF AcceptWaitReady, AcceptRun, procUnchanged, clientVars, procVars
<1>1. CASE AcceptWaitReady(r)
  <2>1. /\ swapPc[r] = "wait" /\ pState[model[r]] \notin {"starting", "stopping"}
        /\ swapPc' = [swapPc EXCEPT ![r] = IF pState[model[r]] = "stopped" THEN "parked" ELSE "report"]
        /\ swapErr' = [swapErr EXCEPT ![r] = pState[model[r]] \in {"failed", "shutdown"}]
        /\ UNCHANGED <<runs, pState, live>>
    BY <1>1 DEF AcceptWaitReady, procVars
  <2>2. UNCHANGED <<Stopping(x), RunsOf(x)>>
    BY <1>0, <2>1 DEF Stopping, RunsOf
  <2>3. CASE x # model[r]
    <3>1. UNCHANGED <<Waiting(x, "wait"), Waiting(x, "parked"), Told(x)>>
      BY <1>0, <2>1, <2>3 DEF Waiting, Told
    <3> QED
      BY <1>0, <2>1, <2>2, <3>1, Unmoved
  <2>4. CASE x = model[r] /\ pState[x] = "stopped"
    <3>1. /\ r \in Waiting(x, "wait") /\ UNCHANGED Told(x)
          /\ Waiting(x, "wait")' = Waiting(x, "wait") \ {r}
          /\ Waiting(x, "parked")' = Waiting(x, "parked") \cup {r}
      BY <1>0, <2>1, <2>4 DEF Waiting, Told
    <3>2. Process(x)!ParkWait
      BY <1>0, <2>1, <2>2, <2>4, <3>1 DEF Process!ParkWait, Told, RunsOf
    <3> QED
      BY <3>2 DEF Serves, Process!ServiceNext
  <2>5. CASE x = model[r] /\ pState[x] # "stopped"
    <3>1. /\ r \in Waiting(x, "wait") /\ UNCHANGED Waiting(x, "parked")
          /\ Waiting(x, "wait")' = Waiting(x, "wait") \ {r}
          /\ Told(x)' = IF pState[x] = "ready" THEN Told(x) \cup {r} ELSE Told(x)
          /\ pState[x] \in {"ready", "failed", "shutdown"}
      BY <1>0, <2>1, <2>5 DEF Waiting, Told
    <3>2. Process(x)!AnswerWait
      BY <1>0, <2>1, <2>2, <3>1 DEF Process!AnswerWait, Told, RunsOf
    <3> QED
      BY <3>2 DEF Serves, Process!ServiceNext
  <2> QED
    BY <2>3, <2>4, <2>5
<1>2. CASE AcceptRun(r)
  <2>1. /\ r \in runs /\ runs' = runs \ {r} /\ UNCHANGED <<swapPc, swapErr>>
        /\ \/ /\ pState[model[r]] \in {"stopped", "failed"} /\ ~possiblyLeaked[model[r]]
              /\ pState' = [pState EXCEPT ![model[r]] = "starting"]
              /\ live' = [live EXCEPT ![model[r]] = @ + 1]
           \/ /\ \/ pState[model[r]] \in {"ready", "shutdown"}
                 \/ pState[model[r]] \in {"stopped", "failed"} /\ possiblyLeaked[model[r]]
              /\ UNCHANGED <<pState, live>>
    BY <1>2 DEF AcceptRun
  <2>2. UNCHANGED <<Stopping(x), Waiting(x, "wait"), Waiting(x, "parked"), Told(x)>>
    BY <1>0, <2>1 DEF Stopping, Waiting, Told
  <2>3. CASE x # model[r]
    <3>1. UNCHANGED <<RunsOf(x), pState[x], live[x]>>
      BY <1>0, <2>1, <2>3 DEF RunsOf
    <3> QED
      BY <1>0, <2>2, <3>1, Unmoved
  <2>4. CASE x = model[r]
    <3>1. r \in RunsOf(x) /\ RunsOf(x)' = RunsOf(x) \ {r}
      BY <1>0, <2>1, <2>4 DEF RunsOf
    <3>2. CASE pState' = pState /\ live' = live
      <4>1. pState[x] \in {"ready", "shutdown"} \/ (pState[x] \in {"stopped", "failed"} /\ possiblyLeaked[x])
        BY <2>1, <2>4, <3>2
      <4>2. Process(x)!RefuseRun
        BY <1>0, <2>2, <3>1, <3>2, <4>1 DEF Process!RefuseRun, Process!waitVars, Told, RunsOf
      <4> QED
        BY <4>2 DEF Serves, Process!ServiceNext
    <3>3. CASE pState' # pState \/ live' # live
      <4>1. /\ pState[x] \in {"stopped", "failed"} /\ ~possiblyLeaked[x]
            /\ pState'[x] = "starting" /\ live'[x] = live[x] + 1
        BY <2>1, <2>4, <3>3
      <4>2. live'[x] > 0
        BY <4>1
      <4>3. Process(x)!BeginStart
        BY <1>0, <2>2, <3>1, <4>1, <4>2 DEF Process!BeginStart, Process!waitVars, Told, RunsOf
      <4> QED
        BY <4>3 DEF Serves, Process!ServiceNext
    <3> QED
      BY <3>2, <3>3
  <2> QED
    BY <2>3, <2>4
<1> QED
  BY <1>1, <1>2

(* Those parked on m, and nobody else, learn how its start ended.          *)
LEMMA NotifyWaitersServes ==
  ASSUME TypeOK, model' = model, NEW m \in Models, NEW err \in BOOLEAN, NotifyWaiters(m, err)
  PROVE  /\ \A x \in Models : Waiting(x, "wait")' = Waiting(x, "wait")
         /\ \A x \in Models \ {m} : UNCHANGED <<Waiting(x, "parked"), Told(x)>>
         /\ Waiting(m, "parked")' = {}
         /\ Told(m)' = IF err THEN Told(m) ELSE Told(m) \cup Waiting(m, "parked")
         /\ \A r \in Requests : swapPc[r] = "stop" <=> swapPc'[r] = "stop"
<1> PICK woken : woken = {r \in Requests : swapPc[r] = "parked" /\ model[r] = m}
  OBVIOUS
<1>1. /\ \A r \in Requests : swapPc'[r] = IF r \in woken THEN "report" ELSE swapPc[r]
      /\ \A r \in Requests : swapErr'[r] = IF r \in woken THEN err ELSE swapErr[r]
  BY DEF NotifyWaiters
<1>2. woken = Waiting(m, "parked")
  BY DEF Waiting
<1>3. \A x \in Models : Waiting(x, "wait")' = Waiting(x, "wait")
  BY <1>1 DEF Waiting
<1>4. \A x \in Models \ {m} : UNCHANGED <<Waiting(x, "parked"), Told(x)>>
  BY <1>1 DEF Waiting, Told
<1>5. Waiting(m, "parked")' = {}
  BY <1>1 DEF Waiting
<1>6. Told(m)' = IF err THEN Told(m) ELSE Told(m) \cup Waiting(m, "parked")
  BY <1>1 DEF Waiting, Told
<1>7. \A r \in Requests : swapPc[r] = "stop" <=> swapPc'[r] = "stop"
  BY <1>1
<1> QED
  BY <1>3, <1>4, <1>5, <1>6, <1>7

(* A kill, confirmed or given up, is one of this process only.             *)
LEMMA KillServes ==
  ASSUME TypeOK, NEW m \in Models, live[m] > 0, KillConfirmed(m) \/ KillGaveUp(m)
  PROVE  /\ Process(m)!Killed
         /\ \A x \in Models \ {m} : live'[x] = live[x] /\ possiblyLeaked'[x] = possiblyLeaked[x]
<1> USE DEF TypeOK, ProcsOK
<1>1. CASE KillConfirmed(m)
  <2>1. live' = [live EXCEPT ![m] = 0] /\ possiblyLeaked' = possiblyLeaked
    BY <1>1 DEF KillConfirmed
  <2>2. ~(live'[m] > 0)
    BY <2>1
  <2> QED
    BY <2>1, <2>2 DEF Process!Killed
<1>2. CASE KillGaveUp(m)
  BY <1>2 DEF KillGaveUp, Process!Killed
<1> QED
  BY <1>1, <1>2

(* A start ends, as the process decides.                                   *)
LEMMA StartEndServes ==
  ASSUME TypeOK, NEW m \in Models, StartSucceeds(m) \/ StartFails(m), ProcessKept(m),
         NEW x \in Models
  PROVE  Serves(x)
<1> USE DEF TypeOK, ProcsOK
<1>1. /\ UNCHANGED <<model, loop, loopStops, toStop, runs, selfStop, stopper>>
      /\ pState[m] = "starting" /\ live[m] > 0
      /\ \A y \in Models \ {m} : pState'[y] = pState[y]
  BY DEF StartSucceeds, StartFails, procUnchanged, clientVars, ProcessKept
<1>2. PICK err \in BOOLEAN : NotifyWaiters(m, err) /\ (err <=> StartFails(m))
  <2>1. CASE StartSucceeds(m)
    <3>1. ~StartFails(m)
      BY <2>1 DEF StartSucceeds, StartFails
    <3> QED
      BY <2>1, <3>1 DEF StartSucceeds
  <2>2. CASE StartFails(m)
    BY <2>2 DEF StartFails
  <2> QED
    BY <2>1, <2>2
<1>3. /\ \A y \in Models : Waiting(y, "wait")' = Waiting(y, "wait")
      /\ \A y \in Models \ {m} : UNCHANGED <<Waiting(y, "parked"), Told(y)>>
      /\ Waiting(m, "parked")' = {}
      /\ Told(m)' = IF err THEN Told(m) ELSE Told(m) \cup Waiting(m, "parked")
      /\ \A r \in Requests : swapPc[r] = "stop" <=> swapPc'[r] = "stop"
  BY <1>1, <1>2, NotifyWaitersServes
<1>4. UNCHANGED <<Stopping(x), RunsOf(x)>>
  BY <1>1, <1>3 DEF Stopping, RunsOf
<1>5. CASE StartSucceeds(m)
  <2>1. ~err /\ pState'[m] = "ready" /\ UNCHANGED <<live, possiblyLeaked>>
    <3>1. ~StartFails(m)
      BY <1>5 DEF StartSucceeds, StartFails
    <3> QED
      BY <1>2, <1>5, <3>1 DEF StartSucceeds
  <2>2. CASE x = m
    <3>1. Process(x)!BecomeReady
      BY <1>1, <1>3, <1>4, <2>1, <2>2 DEF Process!BecomeReady, Told, RunsOf
    <3> QED
      BY <3>1 DEF Serves, Process!ServiceNext
  <2>3. CASE x # m
    BY <1>1, <1>3, <1>4, <2>1, <2>3, Unmoved
  <2> QED
    BY <2>2, <2>3
<1>6. CASE StartFails(m)
  <2>1. err /\ pState'[m] = "failed"
    BY <1>2, <1>6 DEF StartFails
  <2>2. KillConfirmed(m) \/ KillGaveUp(m) \/ (live' = [live EXCEPT ![m] = 0] /\ possiblyLeaked' = possiblyLeaked)
    BY <1>6 DEF StartFails
  <2>3. /\ Process(m)!Killed
        /\ \A y \in Models \ {m} : live'[y] = live[y] /\ possiblyLeaked'[y] = possiblyLeaked[y]
    <3>1. CASE KillConfirmed(m) \/ KillGaveUp(m)
      BY <1>1, <3>1, KillServes
    <3>2. CASE live' = [live EXCEPT ![m] = 0] /\ possiblyLeaked' = possiblyLeaked
      <4>1. ~(live'[m] > 0)
        BY <3>2
      <4> QED
        BY <3>2, <4>1 DEF Process!Killed
    <3> QED
      BY <2>2, <3>1, <3>2
  <2>4. CASE x = m
    <3>1. Process(x)!FailStart
      BY <1>1, <1>3, <1>4, <2>1, <2>3, <2>4 DEF Process!FailStart, Told, RunsOf
    <3> QED
      BY <3>1 DEF Serves, Process!ServiceNext
  <2>5. CASE x # m
    BY <1>1, <1>3, <1>4, <2>3, <2>5, Unmoved
  <2> QED
    BY <2>4, <2>5
<1> QED
  BY <1>5, <1>6

(* So does the process: it is cancelled, ...                               *)
LEMMA CancelledServes ==
  ASSUME TypeOK, NEW m \in Models, ProcessCancelled(m), NEW x \in Models
  PROVE  Serves(x)
<1> USE DEF TypeOK, ProcsOK
<1>1. /\ UNCHANGED <<model, loop, loopStops, toStop, runs, selfStop, stopper>>
      /\ loop = "exited" /\ pState[m] # "stopping" /\ pState'[m] = "shutdown"
      /\ NotifyWaiters(m, TRUE)
      /\ \A y \in Models \ {m} : pState'[y] = pState[y]
  BY DEF ProcessCancelled, procUnchanged, clientVars
<1>2. /\ \A y \in Models : Waiting(y, "wait")' = Waiting(y, "wait")
      /\ \A y \in Models \ {m} : UNCHANGED <<Waiting(y, "parked"), Told(y)>>
      /\ Waiting(m, "parked")' = {} /\ Told(m)' = Told(m)
      /\ \A r \in Requests : swapPc[r] = "stop" <=> swapPc'[r] = "stop"
  BY <1>1, NotifyWaitersServes
<1>3. UNCHANGED <<Stopping(x), RunsOf(x)>>
  BY <1>1, <1>2 DEF Stopping, RunsOf
<1>4. /\ Process(m)!Killed
      /\ \A y \in Models \ {m} : live'[y] = live[y] /\ possiblyLeaked'[y] = possiblyLeaked[y]
  <2>1. CASE KillConfirmed(m)
    <3>1. live' = [live EXCEPT ![m] = 0] /\ possiblyLeaked' = possiblyLeaked
      BY <2>1 DEF KillConfirmed
    <3>2. ~(live'[m] > 0)
      BY <3>1
    <3> QED
      BY <3>1, <3>2 DEF Process!Killed
  <2>2. CASE live[m] > 0 /\ KillGaveUp(m)
    BY <2>2, KillServes
  <2> QED
    BY <2>1, <2>2 DEF ProcessCancelled
<1>5. CASE x = m
  <2>1. Process(x)!ShutDown
    BY <1>1, <1>2, <1>3, <1>4, <1>5 DEF Process!ShutDown, Told, RunsOf
  <2> QED
    BY <2>1 DEF Serves, Process!ServiceNext
<1>6. CASE x # m
  BY <1>1, <1>2, <1>3, <1>4, <1>6, Unmoved
<1> QED
  BY <1>5, <1>6

(* ... its upstream exits, or a goroutine of its own decides to stop it.   *)
LEMMA EnvironmentServes ==
  ASSUME TypeOK, NEW m \in Models, UpstreamExits(m) \/ LeakedExits(m) \/ SelfStopDecided(m),
         ProcessKept(m), NEW x \in Models
  PROVE  Serves(x)
<1> USE DEF TypeOK, ProcsOK
<1>1. UNCHANGED <<model, loop, loopStops, swapPc, toStop, swapErr, runs, stopper>>
  BY DEF UpstreamExits, LeakedExits, SelfStopDecided, procUnchanged, clientVars, swapVars
<1>2. UNCHANGED <<Waiting(x, "wait"), Waiting(x, "parked"), Told(x), RunsOf(x)>>
  BY <1>1 DEF Waiting, Told, RunsOf
<1>3. CASE UpstreamExits(m) \/ LeakedExits(m)
  <2>1. /\ UNCHANGED selfStop /\ live' = [live EXCEPT ![m] = 0]
        /\ \/ /\ pState[m] = "ready" /\ pState' = [pState EXCEPT ![m] = "failed"]
              /\ UNCHANGED possiblyLeaked
           \/ /\ possiblyLeaked[m] /\ possiblyLeaked' = [possiblyLeaked EXCEPT ![m] = FALSE]
              /\ UNCHANGED pState
    BY <1>3 DEF UpstreamExits, LeakedExits
  <2>2. ~(live'[m] > 0)
    BY <2>1
  <2>3. UNCHANGED Stopping(x)
    BY <1>1, <2>1 DEF Stopping
  <2>4. CASE x # m
    BY <1>1, <1>2, <2>1, <2>3, <2>4, Unmoved
  <2>5. CASE x = m
    <3>1. Process(x)!Crash \/ Process(x)!Reclaim
      BY <1>1, <1>2, <2>1, <2>2, <2>3, <2>5
         DEF Process!Crash, Process!Reclaim, Process!callerVars, Told, RunsOf, ProcessKept
    <3> QED
      BY <3>1 DEF Serves, Process!ServiceNext
  <2> QED
    BY <2>4, <2>5
<1>4. CASE SelfStopDecided(m)
  <2>1. UNCHANGED <<pState, live, possiblyLeaked>> /\ Stopping(x) \subseteq Stopping(x)'
    BY <1>1, <1>4 DEF SelfStopDecided, Stopping
  <2>2. Process(x)!Call
    BY <1>1, <1>2, <2>1 DEF Process!Call, Told, RunsOf
  <2> QED
    BY <2>2 DEF Serves, Process!ServiceNext
<1> QED
  BY <1>3, <1>4

(* A Stop that returns is gone from its own process, and from no other.    *)
LEMMA StopReturnsServes ==
  ASSUME TypeOK, NEW m \in Models, NEW who \in Stopping(m), StopReturns(m, who), loop' = loop,
         \A r \in Requests : swapPc[r] = "stop" <=> swapPc'[r] = "stop"
  PROVE  /\ Stopping(m)' = Stopping(m) \ {who}
         /\ \A x \in Models \ {m} : Stopping(x)' = Stopping(x)
<1>1. /\ \A r \in Requests : toStop'[r] = IF r = who THEN toStop[r] \ {m} ELSE toStop[r]
      /\ loopStops' = IF who = Loop THEN loopStops \ {m} ELSE loopStops
      /\ selfStop' = IF who = Self THEN selfStop \ {m} ELSE selfStop
  BY DEF StopReturns
<1>2. who \in Requests \cup {Loop, Self}
  BY DEF Stopping
<1>3. \A x \in Models \ {m} : Stopping(x)' = Stopping(x)
  BY <1>1 DEF Stopping
<1>4. Stopping(m)' = Stopping(m) \ {who}
  <2>1. CASE who \in Requests
    <3>1. who # Loop /\ who # Self /\ Loop \notin Requests /\ Self \notin Requests
      BY <2>1, StopperAssumption
    <3> QED
      BY <1>1, <2>1, <3>1 DEF Stopping
  <2>2. CASE who = Loop
    <3>1. who # Self /\ who \notin Requests
      BY <2>2, StopperAssumption
    <3> QED
      BY <1>1, <2>2, <3>1 DEF Stopping
  <2>3. CASE who = Self
    <3>1. who # Loop /\ who \notin Requests
      BY <2>3, StopperAssumption
    <3> QED
      BY <1>1, <2>3, <3>1 DEF Stopping
  <2> QED
    BY <1>2, <2>1, <2>2, <2>3
<1> QED
  BY <1>3, <1>4

(* NoOne is never blocked in Stop.                                         *)
LEMMA NoOneStops == \A m : NoOne \notin Stopping(m)
BY StopperAssumption DEF Stopping

(* Stop with nothing running, ...                                          *)
LEMMA StopIdleServes ==
  ASSUME TypeOK, NEW m \in Models, NEW who \in Stopping(m), StopIdle(m, who),
         ProcessKept(m), NEW x \in Models
  PROVE  Serves(x)
<1> USE DEF TypeOK, ProcsOK
<1>1. /\ UNCHANGED <<model, loop, swapPc, runs, live, possiblyLeaked, stopper>>
      /\ pState[m] \in {"stopped", "failed", "shutdown"}
      /\ pState' = [pState EXCEPT ![m] = IF @ = "shutdown" THEN @ ELSE "stopped"]
      /\ StopReturns(m, who)
      /\ \A r \in Requests : r # who => swapErr'[r] = swapErr[r]
  BY DEF StopIdle, RecordStopErr, procUnchanged, clientVars, SwapsOK
<1>2. /\ Stopping(m)' = Stopping(m) \ {who}
      /\ \A y \in Models \ {m} : Stopping(y)' = Stopping(y)
  BY <1>1, StopReturnsServes
<1>3. who \in Requests => swapPc[who] = "stop"
  BY StopperAssumption DEF Stopping
<1>4. UNCHANGED <<Waiting(x, "wait"), Waiting(x, "parked"), Told(x), RunsOf(x)>>
  BY <1>1, <1>3 DEF Waiting, Told, RunsOf
<1>5. CASE x # m
  BY <1>1, <1>2, <1>4, <1>5, Unmoved
<1>6. CASE x = m /\ pState[m] = "shutdown"
  <2>1. stopper[x] \notin Stopping(x) /\ loop = "exited"
    BY <1>6, NoOneStops DEF ProcessKept
  <2>2. Process(x)!Leave
    BY <1>1, <1>2, <1>4, <1>6, <2>1 DEF Process!Leave, Told, RunsOf
  <2> QED
    BY <2>2 DEF Serves, Process!ServiceNext
<1>7. CASE x = m /\ pState[m] # "shutdown"
  <2>1. Process(x)!StopIdle
    BY <1>1, <1>2, <1>4, <1>7 DEF Process!StopIdle, Process!waitVars, Told, RunsOf
  <2> QED
    BY <2>1 DEF Serves, Process!ServiceNext
<1> QED
  BY <1>5, <1>6, <1>7

(* ... of one that is starting, ...                                        *)
LEMMA StopStartingServes ==
  ASSUME TypeOK, NEW m \in Models, NEW who \in Stopping(m), StopStarting(m, who),
         ProcessKept(m), NEW x \in Models
  PROVE  Serves(x)
<1> USE DEF TypeOK, ProcsOK
<1>1. /\ UNCHANGED <<model, loop, runs, stopper>>
      /\ pState[m] = "starting" /\ live[m] > 0
      /\ pState' = [pState EXCEPT ![m] = "stopped"]
      /\ StopReturns(m, who) /\ (KillConfirmed(m) \/ KillGaveUp(m))
  BY DEF StopStarting, ProcessKept, procUnchanged, clientVars
<1>2. PICK woken : woken = {r \in Requests : swapPc[r] = "parked" /\ model[r] = m}
  OBVIOUS
<1>3. /\ \A r \in Requests : swapPc'[r] = IF r \in woken THEN "report" ELSE swapPc[r]
      /\ \A r \in woken : swapErr'[r]
      /\ \A r \in Requests \ woken : r # who => swapErr'[r] = swapErr[r]
  BY <1>2 DEF StopStarting, SwapsOK
<1>4. who \in Requests => swapPc[who] = "stop"
  BY StopperAssumption DEF Stopping
<1>5. UNCHANGED <<Waiting(x, "wait"), Told(x), RunsOf(x)>>
  BY <1>1, <1>2, <1>3, <1>4 DEF Waiting, Told, RunsOf
<1>6. Waiting(x, "parked")' = IF x = m THEN {} ELSE Waiting(x, "parked")
  BY <1>1, <1>2, <1>3 DEF Waiting
<1>7. /\ Stopping(m)' = Stopping(m) \ {who}
      /\ \A y \in Models \ {m} : Stopping(y)' = Stopping(y)
  <2>1. \A r \in Requests : swapPc[r] = "stop" <=> swapPc'[r] = "stop"
    BY <1>2, <1>3
  <2> QED
    BY <1>1, <2>1, StopReturnsServes
<1>8. /\ Process(m)!Killed
      /\ \A y \in Models \ {m} : live'[y] = live[y] /\ possiblyLeaked'[y] = possiblyLeaked[y]
  BY <1>1, KillServes
<1>9. CASE x # m
  BY <1>1, <1>5, <1>6, <1>7, <1>8, <1>9, Unmoved
<1>10. CASE x = m
  <2>1. Process(x)!AbortStart
    BY <1>1, <1>5, <1>6, <1>7, <1>8, <1>10 DEF Process!AbortStart, Told, RunsOf
  <2> QED
    BY <2>1 DEF Serves, Process!ServiceNext
<1> QED
  BY <1>9, <1>10

(* ... and of one that is up, which takes two steps.                       *)
LEMMA StopReadyServes ==
  ASSUME TypeOK, NEW m \in Models, NEW who \in Stopping(m), StopReady(m, who),
         NEW x \in Models
  PROVE  Serves(x)
<1> USE DEF TypeOK, ProcsOK
<1>1. /\ UNCHANGED <<model, loop, loopStops, swapPc, toStop, swapErr, runs, live,
                     possiblyLeaked, selfStop>>
      /\ pState[m] = "ready" /\ pState' = [pState EXCEPT ![m] = "stopping"]
      /\ stopper' = [stopper EXCEPT ![m] = who]
  BY DEF StopReady, procUnchanged, clientVars, swapVars
<1>2. UNCHANGED <<Waiting(x, "wait"), Waiting(x, "parked"), Told(x), RunsOf(x), Stopping(x)>>
  BY <1>1 DEF Waiting, Told, RunsOf, Stopping
<1>3. CASE x # m
  BY <1>1, <1>2, <1>3, Unmoved
<1>4. CASE x = m
  <2>1. Process(x)!BeginStop
    BY <1>1, <1>2, <1>4 DEF Process!BeginStop, Process!waitVars, Told, RunsOf
  <2> QED
    BY <2>1 DEF Serves, Process!ServiceNext
<1> QED
  BY <1>3, <1>4

(* The second answers the caller it was accepted from.                     *)
LEMMA FinishStopServes ==
  ASSUME TypeOK, NEW m \in Models, FinishStop(m), ProcessKept(m), NEW x \in Models
  PROVE  Serves(x)
<1> USE DEF TypeOK, ProcsOK
<1>1. PICK who \in Stopping(m) : who = stopper[m]
  BY DEF FinishStop, ProcessKept
<1>2. /\ UNCHANGED <<model, loop, swapPc, runs>>
      /\ pState[m] = "stopping" /\ live[m] > 0
      /\ pState' = [pState EXCEPT ![m] = "stopped"]
      /\ stopper' = [stopper EXCEPT ![m] = NoOne]
      /\ StopReturns(m, who) /\ (KillConfirmed(m) \/ KillGaveUp(m))
      /\ \A r \in Requests : r # who => swapErr'[r] = swapErr[r]
  BY <1>1 DEF FinishStop, RecordStopErr, ProcessKept, procUnchanged, clientVars, SwapsOK
<1>3. /\ Stopping(m)' = Stopping(m) \ {who}
      /\ \A y \in Models \ {m} : Stopping(y)' = Stopping(y)
  BY <1>2, StopReturnsServes
<1>4. who \in Requests => swapPc[who] = "stop"
  BY StopperAssumption DEF Stopping
<1>5. UNCHANGED <<Waiting(x, "wait"), Waiting(x, "parked"), Told(x), RunsOf(x)>>
  BY <1>2, <1>4 DEF Waiting, Told, RunsOf
<1>6. /\ Process(m)!Killed
      /\ \A y \in Models \ {m} : live'[y] = live[y] /\ possiblyLeaked'[y] = possiblyLeaked[y]
  BY <1>2, KillServes
<1>7. CASE x # m
  BY <1>2, <1>3, <1>5, <1>6, <1>7, Unmoved
<1>8. CASE x = m
  <2>1. Process(x)!EndStop
    BY <1>1, <1>2, <1>3, <1>5, <1>6, <1>8 DEF Process!EndStop, Process!waitVars, Told, RunsOf
  <2> QED
    BY <2>1 DEF Serves, Process!ServiceNext
<1> QED
  BY <1>7, <1>8

(* What the steps need of the state, and of the processes in particular.   *)
ServingInv ==
    /\ TypeOK /\ LoopHead /\ Account /\ Unstarted
    /\ \A m \in Models : ProcessKept(m)

(* Whoever moves, every process makes a step of the interface, or none.    *)
LEMMA StepServes ==
  ASSUME ServingInv, [Next]_vars, NEW m \in Models
  PROVE  Serves(m)
<1> USE DEF ServingInv
<1>1. CASE RunLoop
  BY <1>1, RunLoopServes
<1>2. CASE Clients \/ UNCHANGED vars
  BY <1>2, ClientsFrame, Unserved DEF vars, swapVars, procVars
<1>3. CASE doSwap
  BY <1>3, doSwapServes
<1>4. CASE Stops
  BY <1>4, StopIdleServes, StopStartingServes, StopReadyServes DEF Stops
<1>5. CASE \E r \in Requests : AcceptWaitReady(r) \/ AcceptRun(r)
  BY <1>5, CallsServe
<1>6. CASE \E x \in Models :
              \/ StartSucceeds(x) \/ StartFails(x) \/ UpstreamExits(x) \/ LeakedExits(x)
              \/ SelfStopDecided(x) \/ FinishStop(x) \/ ProcessCancelled(x)
  BY <1>6, StartEndServes, EnvironmentServes, FinishStopServes, CancelledServes
<1> QED
  BY <1>1, <1>2, <1>3, <1>4, <1>5, <1>6 DEF Next, Processes

(* What the interface keeps of each process holds throughout.              *)
LEMMA ServingInvariance == Spec => []ServingInv
<1>1. Init => ServingInv
  <2> SUFFICES ASSUME Init PROVE ServingInv
    OBVIOUS
  <2>1. \A m \in Models : ProcessKept(m)
    BY DEF Init, ProcessKept
  <2> QED
    BY <2>1, InitTyped, AccountIsKept, UnstartedIsKept DEF ServingInv
<1>2. ServingInv /\ [Next]_vars => ServingInv'
  <2> SUFFICES ASSUME ServingInv, [Next]_vars PROVE ServingInv'
    OBVIOUS
  <2>1. \A m \in Models : ProcessKept(m)'
    BY StepServes, ServiceKept DEF Serves, ServingInv
  <2>2. TypeOK' /\ LoopHead' /\ Account' /\ Unstarted'
    BY TypedStep, AccountIsKept, UnstartedIsKept DEF ServingInv
  <2> QED
    BY <2>1, <2>2 DEF ServingInv
<1> QED
  BY <1>1, <1>2, PTL DEF Spec

(* Every process inside the router stays within the interface, whatever    *)
(* the others, the swaps, the run loop (baseRouter.run) and the faults do. *)
THEOREM EveryProcessServes == Spec => ProcessesServe
<1>1. Init => \A m \in Models : Process(m)!ServiceInit
  BY DEF Init, Process!ServiceInit, Waiting, Stopping
<1>2. ServingInv /\ [Next]_vars =>
          [\A m \in Models : [Process(m)!ServiceNext]_(Process(m)!serviceVars)]_vars
  BY StepServes DEF Serves
<1> QED
  BY <1>1, <1>2, ServingInvariance, PTL DEF Spec, ProcessesServe
=============================================================================
