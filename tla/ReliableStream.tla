--------------------------- MODULE ReliableStream ---------------------------
(***************************************************************************)
(* What the remote-control transport promises a client: on each stream it  *)
(* receives what the server sent, in order, without gaps or duplicates,    *)
(* however often the websocket under it is replaced.                       *)
(***************************************************************************)
EXTENDS Naturals, Sequences

CONSTANT Keys       \* streams

VARIABLES sent,     \* per stream, what the server has sent
          received  \* per stream, what the client has accepted

vars == <<sent, received>>

Init ==
  /\ sent = [k \in Keys |-> <<>>]
  /\ received = [k \in Keys |-> <<>>]

(* The server sends something more on a stream. *)
Send(k) ==
  /\ Len(sent'[k]) > Len(sent[k]) /\ SubSeq(sent'[k], 1, Len(sent[k])) = sent[k]
  /\ \A x \in Keys \ {k} : sent'[x] = sent[x]
  /\ UNCHANGED received

(* The client accepts what comes next. *)
Receive(k) ==
  /\ Len(received[k]) < Len(sent[k])
  /\ received' = [received EXCEPT ![k] = Append(@, sent[k][Len(@) + 1])]
  /\ UNCHANGED sent

Next == \E k \in Keys : Send(k) \/ Receive(k)

Spec == Init /\ [][Next]_vars

=============================================================================
