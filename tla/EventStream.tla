---------------------------- MODULE EventStream ----------------------------
(***************************************************************************)
(* What one remote process session promises to the user of the client      *)
(* library: the events the server numbered 1, 2, 3, ... are shown to the   *)
(* subscriber in that order, each once, until the process is closed or the *)
(* session is declared failed.  Nothing is said of connections, lost       *)
(* notifications or recovery: EventDelivery is the specification of those, *)
(* and it implements this one.                                             *)
(***************************************************************************)
EXTENDS Sequences, Naturals

CONSTANTS Events,   \* the kinds of event a process emits
          Final     \* the last event of a process ("closed")

VARIABLES log,      \* the events in the order the server numbered them
          view,     \* the events the subscriber has been shown
          over      \* the session was declared failed

vars == <<log, view, over>>

Init == log = <<>> /\ view = <<>> /\ over = FALSE

(* The server numbers one more event; nothing follows the final one. *)
Emit == /\ \A i \in 1..Len(log) : log[i] # Final
        /\ \E e \in Events : log' = Append(log, e)
        /\ UNCHANGED <<view, over>>

(* The subscriber is shown the next few events of the log. *)
Reveal == /\ ~over
          /\ \E n \in Len(view)+1..Len(log) : view' = [i \in 1..n |-> log[i]]
          /\ UNCHANGED <<log, over>>

(* The session fails; a session that has shown the final event cannot. *)
Fail == /\ ~over
        /\ \A i \in 1..Len(view) : view[i] # Final
        /\ over' = TRUE
        /\ UNCHANGED <<log, view>>

Next == Emit \/ Reveal \/ Fail

Spec == Init /\ [][Next]_vars
=============================================================================
