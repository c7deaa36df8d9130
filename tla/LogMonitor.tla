----------------------------- MODULE LogMonitor -----------------------------
(***************************************************************************)
(* A log monitor (internal/logmon/logging.go) and those who follow it over *)
(* HTTP. A Write first puts the line into a circular buffer under its own  *)
(* mutex and then publishes it with the dispatcher: two steps, so the      *)
(* history and the live lines may disagree about what has been written.    *)
(*                                                                         *)
(* Two handlers put them together. GET /logs/stream (internal/server/      *)
(* log.go) sends the history and then subscribes. GET /api/system/events   *)
(* (internal/server/apisystem.go) subscribes first. Both hand the lines to *)
(* the connection through a channel that drops what finds it full; the     *)
(* second one logs every drop, to the very monitor it follows, and so is a *)
(* talker of Dispatcher.tla.                                               *)
(*                                                                         *)
(* A client is the consumer that its handler subscribes. A line is the     *)
(* number of its publication and consists of cells, which stand for bytes. *)
(***************************************************************************)
EXTENDS Dispatcher

CONSTANTS Conn,         \* the goroutine that serves each client of /api/system/events
          Cap,          \* BufferSize, in cells
          SizeOf,       \* how many cells each line has
          ChanCap       \* capacity of sendBuffer: 1024

ASSUME ConnAssumption ==
    /\ Conn \in [Talkers -> Publishers]
    /\ \A c, d \in Talkers : Conn[c] = Conn[d] => c = d
ASSUME BufferAssumption == Cap \in Nat \ {0} /\ SizeOf \in [1..MaxEvents -> Nat \ {0}] /\ ChanCap \in Nat

Streams == Consumers \ Talkers
Writers == Publishers \ {Conn[c] : c \in Talkers}

VARIABLES
    buffer,         \* Monitor.buffer: data, head and size
    at,             \* where the handler of each client is
    chan,           \* how many messages the sendBuffer of the events holds
    gone,           \* the context of their callback is done
    written,        \* history: the cells written so far
    told            \* history: what each client, until it leaves, was sent of GetHistory

vars == <<busVars, buffer, at, chan, gone, written, told>>
clientVars == <<at, chan, gone, told>>

ClientAt == {"away", "asked", "subscribed", "open", "left"}
Blank == <<0, 0>>
Nothing == [sent |-> FALSE, cells |-> <<>>, flying |-> {}]

Init ==
    /\ BusInit
    /\ buffer = [data |-> [i \in 0..Cap - 1 |-> Blank], head |-> 0, size |-> 0]
    /\ at = [c \in Consumers |-> "away"]
    /\ chan = [c \in Talkers |-> 0]
    /\ gone = [c \in Talkers |-> FALSE]
    /\ written = <<>>
    /\ told = [c \in Consumers |-> Nothing]

-----------------------------------------------------------------------------
(* The circular buffer.                                                    *)

(* copy(data[i:], p)                                                       *)
Copied(data, i, p) ==
    [j \in DOMAIN data |-> IF j \in i..i + Len(p) - 1 THEN p[j - i + 1] ELSE data[j]]

(* circularBuffer.Write                                                    *)
Put(cb, p) ==
    LET n == Len(p)
        firstPart == Cap - cb.head
        size == IF cb.size + n > Cap THEN Cap ELSE cb.size + n
    IN  IF n >= Cap
        THEN [data |-> Copied(cb.data, 0, SubSeq(p, n - Cap + 1, n)), head |-> 0, size |-> Cap]
        ELSE IF firstPart >= n
        THEN [data |-> Copied(cb.data, cb.head, p), head |-> (cb.head + n) % Cap, size |-> size]
        ELSE [data |-> Copied(Copied(cb.data, cb.head, SubSeq(p, 1, firstPart)),
                              0, SubSeq(p, firstPart + 1, n)),
              head |-> n - firstPart, size |-> size]

(* The mutant that reads from the start wherever the head is.              *)
GetHistory_Unrolled(cb) == [k \in 1..cb.size |-> cb.data[k - 1]]

(* circularBuffer.GetHistory                                               *)
GetHistory(cb) ==
    LET start == (cb.head - cb.size + Cap) % Cap
        Slice(i, j) == [k \in 1..j - i |-> cb.data[i + k - 1]]      \* data[i:j]
    IN  IF start + cb.size <= Cap
        THEN Slice(start, start + cb.size)
        ELSE Slice(start, Cap) \o Slice(0, cb.size - (Cap - start))

Cells(line) == [i \in 1..SizeOf[line] |-> <<line, i>>]

(* Monitor.Write up to the call of broadcast, made within a Begin.         *)
Store ==
    /\ buffer' = Put(buffer, Cells(issued + 1))
    /\ written' = written \o Cells(issued + 1)

Silent == UNCHANGED <<buffer, written>>

(* A part of the program writes a line.                                    *)
Write(w) ==
    /\ Publish(w)
    /\ Store
    /\ UNCHANGED clientVars

-----------------------------------------------------------------------------
(* The handlers of the clients.                                            *)

LinesInFlight == {ev[t] : t \in {u \in Threads : pc[u] \in {"find", "offer", "full"}}}

(* The handler sends what GetHistory returns; noted with it is which lines *)
(* have been stored and not yet published.                                 *)
SendsHistory(c) ==
    told' = [told EXCEPT ![c] = [sent |-> TRUE, cells |-> GetHistory(buffer), flying |-> LinesInFlight]]

(* handleLogStream: the history goes straight to the client.               *)
StreamHistory(c) ==
    /\ at[c] = "away"
    /\ at' = [at EXCEPT ![c] = "asked"]
    /\ SendsHistory(c)
    /\ Silent
    /\ UNCHANGED <<busVars, chan, gone>>

(* ... unless the query says no-history.                                   *)
StreamSkipsHistory(c) ==
    /\ at[c] = "away"
    /\ at' = [at EXCEPT ![c] = "asked"]
    /\ Silent
    /\ UNCHANGED <<busVars, chan, gone, told>>

StreamSubscribes(c) ==
    /\ at[c] = "asked"
    /\ Subscribe(c)
    /\ at' = [at EXCEPT ![c] = "open"]
    /\ Silent
    /\ UNCHANGED <<chan, gone, told>>

(* The mutant of the events that asks for the history before it subscribes. *)
EventsSubscribes_Late(c) == StreamHistory(c) \/ StreamSubscribes(c)

(* handleAPISystemEvents subscribes and then sends the history through the *)
(* channel, where it may be dropped like any other message.                *)
EventsSubscribes(c) ==
    /\ at[c] = "away"
    /\ Subscribe(c)
    /\ at' = [at EXCEPT ![c] = "subscribed"]
    /\ Silent
    /\ UNCHANGED <<chan, gone, told>>

EventsSendsHistory(c) ==
    /\ at[c] = "subscribed"
    /\ at' = [at EXCEPT ![c] = "open"]
    /\ \/ /\ chan[c] < ChanCap
          /\ chan' = [chan EXCEPT ![c] = @ + 1]
          /\ SendsHistory(c)
          /\ Silent
          /\ UNCHANGED busVars
       \/ /\ chan[c] = ChanCap \/ gone[c]
          /\ UNCHANGED <<chan, told>>
          /\ Publish(Conn[c]) /\ Store
    /\ UNCHANGED gone

(* The callback of the stream offers the line to a channel of ten and      *)
(* drops it if that is full: it returns at once. What the connection then  *)
(* takes from the channel nobody else sees, and is left out.               *)
StreamHandles(c) ==
    /\ Handle(c)
    /\ Silent
    /\ UNCHANGED clientVars

(* The callback of the events: the same, and a drop is logged. At the      *)
(* bound MaxEvents it is not.                                              *)
EventsHandles(c) ==
    /\ \/ /\ chan[c] < ChanCap
          /\ chan' = [chan EXCEPT ![c] = @ + 1]
          /\ Handle(c) /\ Silent
       \/ /\ chan[c] = ChanCap \/ gone[c]
          /\ UNCHANGED chan
          /\ \/ HandleAndTalk(c) /\ Store
             \/ issued = MaxEvents /\ Handle(c) /\ Silent
    /\ UNCHANGED <<at, gone, told>>

Serving(c) == at[c] = "open" /\ (c \in Talkers => pc[Conn[c]] = "idle")

(* The loop of the connection takes a message and sends it,                *)
Take(c) ==
    /\ Serving(c)
    /\ chan[c] > 0
    /\ chan' = [chan EXCEPT ![c] = @ - 1]
    /\ Silent
    /\ UNCHANGED <<busVars, at, gone, told>>

(* ... or sees that the client has gone or that the server shuts down,     *)
(* which it may at any time, and cancels the subscription; the context of  *)
(* the callback ends with it, unless it already has.                       *)
Leave(c) ==
    /\ Serving(c)
    /\ Unsubscribe(c)
    /\ at' = [at EXCEPT ![c] = "left"]
    /\ gone' = IF c \in Talkers THEN [gone EXCEPT ![c] = TRUE] ELSE gone
    /\ told' = [told EXCEPT ![c] = Nothing]
    /\ Silent
    /\ UNCHANGED chan

(* The client goes away.                                                   *)
Disconnect(c) ==
    /\ at[c] \in {"subscribed", "open"}
    /\ ~gone[c]
    /\ gone' = [gone EXCEPT ![c] = TRUE]
    /\ Silent
    /\ UNCHANGED <<busVars, at, chan, told>>

-----------------------------------------------------------------------------
(* The dispatcher works as Dispatcher.tla says.                            *)
Dispatch(t) ==
    /\ Offer(t) \/ (t \in Consumers /\ Listen(t))
    /\ Silent
    /\ UNCHANGED clientVars

Next ==
    \/ \E w \in Writers : Write(w)
    \/ \E c \in Streams :
          StreamHistory(c) \/ StreamSkipsHistory(c) \/ StreamSubscribes(c) \/ StreamHandles(c)
    \/ \E c \in Talkers :
          \/ EventsSubscribes(c) \/ EventsSendsHistory(c) \/ EventsHandles(c)
          \/ Take(c) \/ Disconnect(c)
    \/ \E c \in Consumers : Leave(c)
    \/ \E t \in Threads : Dispatch(t)

Spec == Init /\ [][Next]_vars

(* The goroutines of the dispatcher run and callbacks return; connections  *)
(* may be slow forever, and nobody has to write or to leave.               *)
Work(t) ==
    \/ Dispatch(t)
    \/ t \in Streams /\ StreamHandles(t)
    \/ t \in Talkers /\ EventsHandles(t)

FairSpec == Spec /\ \A t \in Threads : WF_vars(Work(t))

-----------------------------------------------------------------------------
Buffers == [data : [0..Cap - 1 -> Nat \X Nat], head : 0..Cap - 1, size : 0..Cap]

(* The types, and no queue longer than backpressure allows.                *)
TypeOK ==
    /\ BusTypeOK
    /\ buffer \in Buffers
    /\ written \in Seq(Nat \X Nat)
    /\ at \in [Consumers -> ClientAt]
    /\ chan \in [Talkers -> 0..ChanCap]
    /\ gone \in [Talkers -> BOOLEAN]
    /\ told \in [Consumers -> [sent : BOOLEAN, cells : Seq(Nat \X Nat), flying : SUBSET Nat]]
    /\ \A c \in Consumers : Len(queue[c]) <= MaxQueue

(* GetHistory returns the last bytes written, as many as the buffer holds, *)
(* in the order of the writes, wherever the head stands and however a line *)
(* was split (circularBuffer.Write and GetHistory).                        *)
HistoryIsTheTail ==
    LET kept == IF Len(written) < Cap THEN Len(written) ELSE Cap
    IN  GetHistory(buffer) = SubSeq(written, Len(written) - kept + 1, Len(written))

Shows(c, cell) == \E j \in 1..Len(told[c].cells) : told[c].cells[j] = cell

(* Gone from the buffer when the history was read: the history is as long  *)
(* as the buffer, and the cell was written before the first of it.         *)
PushedOut(c, cell) ==
    /\ Len(told[c].cells) = Cap
    /\ \E k, j \in 1..Len(written) :
          k < j /\ written[k] = cell /\ written[j] = told[c].cells[1]

(* How the history that a client was sent meets the live lines. Who        *)
(* subscribes first (/api/system/events) misses no line: of each line that *)
(* was ever stored, the history has every cell that the buffer still held, *)
(* or it is being published, or has been since the subscription. Who       *)
(* subscribes last (/logs/stream) sees no line twice but one whose Write   *)
(* was on its way from the buffer to the dispatcher when the history was   *)
(* read. Nothing is said of a client of the events whose history found the *)
(* sendBuffer full and was dropped, or of one that has left.               *)
HistoryMeetsLive ==
    \A c \in {d \in Consumers : at[d] = "open" /\ told[d].sent} :
        LET live == {log[i] : i \in from[c] + 1..Len(log)}
            InHistory(line) ==
                \A k \in 1..SizeOf[line] : Shows(c, <<line, k>>) \/ PushedOut(c, <<line, k>>)
        IN  /\ c \in Talkers =>
                  \A line \in 1..issued \ (LinesInFlight \cup live) : InHistory(line)
            /\ c \in Streams =>
                  \A line \in live : \A k \in 1..SizeOf[line] :
                      Shows(c, <<line, k>>) => line \in told[c].flying

(* Every Write returns, unless the callback of /api/system/events has run  *)
(* into its own full queue for good (group.Broadcast sleeps, and neither a *)
(* slow client nor a cancel between its steps keeps it asleep). NOT shown: *)
(* that one publisher cannot be starved by others that take the room each  *)
(* time. A behaviour has MaxEvents publications, and sync.Cond makes no    *)
(* promise about that.                                                     *)
WritersReturn ==
    []<>~HandlerWaitsForItself => \A w \in Writers : pc[w] # "idle" ~> pc[w] = "idle"
=============================================================================
