------------------------------ MODULE EventLog ------------------------------
(***************************************************************************)
(* What a Dispatcher promises for one type of event (internal/event/       *)
(* event.go): every event is published to all who are subscribed at that   *)
(* moment, and each of them is handed what was published between its       *)
(* Subscribe and its cancel, in that order and once, at its own pace. A    *)
(* handler may still be called after the cancel, for what was published    *)
(* before it. Dispatcher.tla is shown to implement this module.            *)
(***************************************************************************)
EXTENDS Naturals, Sequences

CONSTANTS Consumers, Events

VARIABLES log,      \* the events, in the order of publication
          member,   \* whether a consumer is subscribed
          from,     \* how many events came before its subscription
          upto,     \* how many came before its cancel
          given     \* what its handler was called with

logVars == <<log, member, from, upto, given>>

Membership == {"never", "on", "off"}

LogInit ==
    /\ log = <<>>
    /\ member = [c \in Consumers |-> "never"]
    /\ from = [c \in Consumers |-> 0]
    /\ upto = [c \in Consumers |-> 0]
    /\ given = [c \in Consumers |-> <<>>]

Enter(c) ==
    /\ member[c] = "never"
    /\ member' = [member EXCEPT ![c] = "on"]
    /\ from' = [from EXCEPT ![c] = Len(log)]
    /\ UNCHANGED <<log, upto, given>>

Quit(c) ==
    /\ member[c] = "on"
    /\ member' = [member EXCEPT ![c] = "off"]
    /\ upto' = [upto EXCEPT ![c] = Len(log)]
    /\ UNCHANGED <<log, from, given>>

Post(e) ==
    /\ log' = Append(log, e)
    /\ UNCHANGED <<member, from, upto, given>>

(* How far a consumer may get.                                             *)
Reach(c) == IF member[c] = "off" THEN upto[c] ELSE Len(log)

Deliver(c) ==
    LET next == from[c] + Len(given[c]) + 1
    IN  /\ member[c] # "never"
        /\ next <= Reach(c)
        /\ given' = [given EXCEPT ![c] = Append(@, log[next])]
        /\ UNCHANGED <<log, member, from, upto>>

LogNext ==
    \/ \E e \in Events : Post(e)
    \/ \E c \in Consumers : Enter(c) \/ Quit(c) \/ Deliver(c)

LogSpec == LogInit /\ [][LogNext]_logVars
=============================================================================
