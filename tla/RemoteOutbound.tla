--------------------------- MODULE RemoteOutbound ---------------------------
(***************************************************************************)
(* Remote control, outbound: from the clients' outbound tasks to the       *)
(* clients, over websockets that break.                                    *)
(*                                                                         *)
(* The server's events of all streams share one queue.  The writer of the  *)
(* current websocket numbers each event within its stream, splits what is  *)
(* too large for one envelope, keeps the envelopes in a buffer and sends   *)
(* them (websocket.rs, run_server_writer_inner); the next websocket begins *)
(* with everything in the buffer.  An acknowledgement, read by the other   *)
(* worker, takes envelopes out of it.  The writer takes no more events     *)
(* while the buffer is full.                                               *)
(*                                                                         *)
(* The client is external: it accepts what is beyond the last envelope it  *)
(* accepted and acknowledges any of those, late or again.  The state lock  *)
(* is never held across an await, so taking an event from the queue,       *)
(* numbering and buffering it is one step.                                 *)
(***************************************************************************)
EXTENDS Integers, Sequences, FiniteSets

CONSTANTS Keys,       \* (client id, stream id)
          Capacity,   \* CHANNEL_CAPACITY: of the buffer and of the event queue
          MaxSegments,\* REMOTE_CONTROL_SEGMENT_COUNT_MAX
          MaxEvents,  \* bound: events per stream
          MaxBreaks   \* bound: websockets lost

ASSUME CapacityAssumption == Capacity \in Nat \ {0} /\ MaxSegments \in Nat \ {0}
ASSUME BoundsAssumption == MaxEvents \in Nat /\ MaxBreaks \in Nat

VARIABLES
  events,   \* how many events a stream's outbound task has queued
  queue,    \* the server event channel
  \* WebsocketState.
  nextSeq,  \* next_seq_id_by_stream
  buffer,   \* buffer_by_stream
  used,     \* the watch that counts its envelopes
  \* The writer and its websocket; only the order within a stream matters.
  writer,   \* "off", "replay", "ready" or "sending"
  out,      \* per stream, the envelopes it has yet to send
  wire,     \* per stream, the envelopes in flight
  breaks,   \* websockets lost so far
  \* The clients, and everything that was ever numbered for them.
  accepted, \* per stream, the envelopes the client accepted
  numbered  \* per stream, every envelope put into the buffer

state == <<nextSeq, buffer, used, numbered>>
vars == <<events, queue, state, writer, out, wire, breaks, accepted>>

Empty == [k \in Keys |-> <<>>]

Init ==
  /\ events = [k \in Keys |-> 0] /\ queue = <<>>
  /\ nextSeq = [k \in Keys |-> 1] /\ buffer = Empty /\ used = 0
  /\ writer = "off" /\ out = Empty /\ wire = Empty /\ breaks = 0
  /\ accepted = Empty /\ numbered = Empty

-----------------------------------------------------------------------------
(* Cursors are compared by sequence number, then by segment; a message that *)
(* was not split is its segment 0.                                          *)
NotAfter(x, y) == x.seq < y.seq \/ (x.seq = y.seq /\ x.seg <= y.seg)

(* run_client_outbound: an event of a stream is queued.  How many segments it *)
(* needs depends on its size; one that no number of them can carry has none.  *)
Enqueue(k) ==
  /\ events[k] < MaxEvents /\ Len(queue) < Capacity
  /\ \E n \in 0..MaxSegments : queue' = Append(queue, [key |-> k, segments |-> n])
  /\ events' = [events EXCEPT ![k] = @ + 1]
  /\ UNCHANGED <<state, writer, out, wire, breaks, accepted>>

(* split_server_envelope_for_transport *)
Split(event, seq) == [i \in 1..event.segments |-> [seq |-> seq, seg |-> i - 1]]

(* The writer takes an event while there is room in the buffer; a message *)
(* that is dropped uses up its number all the same.                       *)
TakeEvent ==
  /\ writer = "ready" /\ used < Capacity /\ queue # <<>>
  /\ LET k == Head(queue).key
         envelopes == Split(Head(queue), nextSeq[k])
     IN  /\ nextSeq' = [nextSeq EXCEPT ![k] = @ + 1]
         /\ buffer' = [buffer EXCEPT ![k] = @ \o envelopes]
         /\ numbered' = [numbered EXCEPT ![k] = @ \o envelopes]
         /\ used' = used + Len(envelopes)
         /\ out' = [out EXCEPT ![k] = envelopes]
  /\ queue' = Tail(queue) /\ writer' = "sending"
  /\ UNCHANGED <<events, wire, breaks, accepted>>

(* An event that cannot be encoded is given up, before its number is used. *)
SplitFails ==
  /\ writer = "ready" /\ used < Capacity /\ queue # <<>>
  /\ queue' = Tail(queue)
  /\ UNCHANGED <<events, state, writer, out, wire, breaks, accepted>>

(* One envelope is handed to the websocket. *)
Send(k) ==
  /\ writer \in {"replay", "sending"} /\ out[k] # <<>>
  /\ wire' = [wire EXCEPT ![k] = Append(@, Head(out[k]))]
  /\ out' = [out EXCEPT ![k] = Tail(@)]
  /\ UNCHANGED <<events, queue, state, writer, breaks, accepted>>

(* All are sent: the writer looks at the queue. *)
Sent ==
  /\ writer \in {"replay", "sending"} /\ out = Empty
  /\ writer' = "ready"
  /\ UNCHANGED <<events, queue, state, out, wire, breaks, accepted>>

(* Mutant: the buffer is not sent again. *)
ConnectAfresh ==
  /\ writer = "off"
  /\ out' = Empty /\ writer' = "replay"
  /\ UNCHANGED <<events, queue, state, wire, breaks, accepted>>

(* A websocket is connected: its writer starts with a copy of the buffer. *)
Connect ==
  /\ writer = "off"
  /\ out' = buffer /\ writer' = "replay"
  /\ UNCHANGED <<events, queue, state, wire, breaks, accepted>>

(* The websocket is lost with what it carried and what was yet to be sent. *)
Break ==
  /\ writer # "off" /\ breaks < MaxBreaks
  /\ writer' = "off" /\ out' = Empty /\ wire' = Empty /\ breaks' = breaks + 1
  /\ UNCHANGED <<events, queue, state, accepted>>

-----------------------------------------------------------------------------
(* The client takes an envelope and ignores one it has. *)
ClientReceive(k) ==
  /\ wire[k] # <<>>
  /\ LET e == Head(wire[k])
         had == accepted[k]
     IN  accepted' = IF had # <<>> /\ NotAfter(e, had[Len(had)]) THEN accepted
                     ELSE [accepted EXCEPT ![k] = Append(@, e)]
  /\ wire' = [wire EXCEPT ![k] = Tail(@)]
  /\ UNCHANGED <<events, queue, state, writer, out, breaks>>

(* VecDeque::retain: what is at the positions in keep stays, in its order. *)
Retain(seq, keep) ==
  [n \in 1..Cardinality(keep) |->
     seq[CHOOSE i \in keep : Cardinality({j \in keep : j <= i}) = n]]

(* The positions in the buffer of what an acknowledgement does not cover. *)
Unacked(k, cursor) == {j \in 1..Len(buffer[k]) : ~NotAfter(buffer[k][j], cursor)}

(* Mutants: an acknowledgement counts the whole buffer, or leaves the last. *)
AckCountsAll(k, i) ==
  /\ writer # "off" /\ i \in 1..Len(accepted[k])
  /\ buffer' = [buffer EXCEPT ![k] = Retain(@, Unacked(k, accepted[k][i]))]
  /\ used' = used - Len(buffer[k])
  /\ UNCHANGED <<events, queue, nextSeq, numbered, writer, out, wire, breaks, accepted>>

AckSparesLast(k, i) ==
  /\ writer # "off" /\ i \in 1..Len(accepted[k])
  /\ LET keep == {j \in 1..Len(buffer[k]) : NotAfter(accepted[k][i], buffer[k][j])}
     IN  /\ buffer' = [buffer EXCEPT ![k] = Retain(@, keep)]
         /\ used' = used - (Len(buffer[k]) - Cardinality(keep))
  /\ UNCHANGED <<events, queue, nextSeq, numbered, writer, out, wire, breaks, accepted>>

(* BoundedOutboundBuffer::ack, for an envelope the client has: what is not *)
(* after it leaves the buffer, and each one that leaves is counted.        *)
Ack(k, i) ==
  /\ writer # "off" /\ i \in 1..Len(accepted[k])
  /\ LET keep == Unacked(k, accepted[k][i])
     IN  /\ buffer' = [buffer EXCEPT ![k] = Retain(@, keep)]
         /\ used' = used - (Len(buffer[k]) - Cardinality(keep))
  /\ UNCHANGED <<events, queue, nextSeq, numbered, writer, out, wire, breaks, accepted>>

Writer == TakeEvent \/ SplitFails \/ (\E k \in Keys : Send(k)) \/ Sent \/ Connect

Next ==
  \/ (\E k \in Keys : Enqueue(k)) \/ Writer \/ Break
  \/ (\E k \in Keys : ClientReceive(k))
  \/ (\E k \in Keys : \E i \in 1..Len(accepted[k]) : Ack(k, i))

Spec == Init /\ [][Next]_vars

(* The writer's task runs and websockets are connected again; the clients   *)
(* read, and acknowledge the last envelope they have.                       *)
FairSpec ==
  /\ Spec
  /\ WF_vars(Writer)
  /\ \A k \in Keys : /\ WF_vars(ClientReceive(k))
                     /\ WF_vars(buffer[k] # <<>> /\ Ack(k, Len(accepted[k])))

-----------------------------------------------------------------------------
(* The envelopes in the buffer, each as its stream and its position there. *)
Buffered == UNION {{k} \X (1..Len(buffer[k])) : k \in Keys}

(* The watch that gates the writer counts exactly the envelopes in the   *)
(* buffer, which is overfull by the segments of one message at most      *)
(* (BoundedOutboundBuffer, insert and ack).                              *)
BufferAccounted ==
  /\ used = Cardinality(Buffered)
  /\ used < Capacity + MaxSegments

(* On each stream the client receives what was numbered, in order and     *)
(* without a gap, over any number of websockets and with acknowledgements *)
(* that come late or again.                                               *)
Stream == INSTANCE ReliableStream WITH sent <- numbered, received <- accepted
ImplementsReliableStream == Stream!Spec

(* When clients acknowledge what they have, everything the server queues   *)
(* and numbers is delivered: the buffer's limit holds the writer up only   *)
(* for a while.                                                            *)
EverythingArrives == []<>(queue = <<>> /\ accepted = numbered)

=============================================================================
