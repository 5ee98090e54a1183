---------------------------- MODULE RemoteClients ----------------------------
(***************************************************************************)
(* Remote control, inbound: the reader of the websocket to the backend,    *)
(* the ClientTracker and the app server's connections.                     *)
(*                                                                         *)
(* The backend numbers the envelopes of all clients; a new websocket asks  *)
(* for those after subscribe_cursor, so everything the reader had not yet  *)
(* recorded comes again.  The reader (websocket.rs) reassembles segmented  *)
(* messages, hands each envelope to the tracker and then records its       *)
(* cursor.  The tracker (client_tracker.rs) turns a client's stream into a *)
(* connection of the app server: ConnectionOpened, IncomingMessage...,     *)
(* ConnectionClosed on a bounded queue.  A send to it times out; closing   *)
(* events are sent by tasks of their own, because the worker may be        *)
(* aborted while it waits.  Each connection has an outbound task, whose    *)
(* end the reader collects.                                                *)
(*                                                                         *)
(* Time is left out: a client may be found idle at any sweep, and a send   *)
(* may time out whenever the queue is full.  A sweep that finds several    *)
(* idle clients is taken as several sweeps.                                *)
(***************************************************************************)
EXTENDS Naturals, Sequences, FiniteSets

CONSTANTS Clients, Streams,  \* client ids, stream ids that clients choose
          Sends,             \* bound: the kinds of envelopes on each client's stream
          LegacyStreams,     \* StreamId::new_random for clients that send none
          None,              \* no stream id
          AssemblyCap,       \* REMOTE_CONTROL_SEGMENT_ASSEMBLY_MAX_COUNT
          QueueCap,          \* capacity of the transport event queue
          MaxLog,            \* bound: envelopes the clients send
          MaxConns,          \* bound: connections opened
          MaxBreaks          \* bound: websockets lost or replaced

Keys == Clients \X (Streams \cup LegacyStreams)
Conns == 1..MaxConns
\* Segments of a segmented message; "bad" is a last segment that is oversized or invalid.
Segments == [chunk0 |-> 0, chunk1 |-> 1, bad |-> 1]
Chunks == DOMAIN Segments
Kinds == {"init", "msg", "ping", "closed"} \cup Chunks

ASSUME NamesAssumption ==
  None \notin Streams \cup LegacyStreams /\ Streams \cap LegacyStreams = {}
ASSUME SendsAssumption ==
  /\ Sends \in [Clients \X (Streams \cup {None}) -> SUBSET Kinds]
  /\ \A c \in Clients : Sends[<<c, None>>] \cap Chunks = {}
ASSUME CapsAssumption ==
  /\ AssemblyCap \in Nat \ {0} /\ QueueCap \in Nat \ {0}
  /\ MaxLog \in Nat /\ MaxConns \in Nat /\ MaxBreaks \in Nat

VARIABLES
  \* The backend and the websocket.
  log,       \* the clients' envelopes, in the backend's order
  pos,       \* the next one on this websocket
  link,      \* "up", "stopping" (workers are being joined) or "down"
  breaks,    \* websockets lost so far
  stop,      \* the shutdown token
  \* WebsocketState.
  cursor,    \* subscribe_cursor
  completed, \* last_completed_client_chunk_seq_id_by_stream
  asm,       \* the reassembler's assemblies, least recently extended first
  \* ClientTracker.
  clients,   \* connection of a client's stream, 0 when there is none
  last,      \* last_inbound_seq_id
  legacy,    \* legacy_stream_ids
  tasks,     \* outbound tasks in the join set
  conns,     \* connections made: the key, and the envelope that opened it
  \* The reader.
  at,        \* where it waits
  key,       \* the client it is dealing with
  wait,      \* the connection whose close it waits for
  \* The app server's side.
  closers,   \* detached tasks that forward ConnectionClosed
  load,      \* events in the transport event queue
  events     \* per connection, all events ever put there

backend == <<log, pos, link, breaks, stop>>
segments == <<completed, asm>>
tracker == <<clients, last, legacy, tasks, conns>>
queue == <<closers, load, events>>
vars == <<backend, cursor, segments, tracker, at, key, wait, queue>>

Init ==
  /\ log = <<>> /\ pos = 1 /\ link = "down" /\ breaks = 0 /\ stop = FALSE
  /\ cursor = 0 /\ completed = [k \in Keys |-> 0] /\ asm = <<>>
  /\ clients = [k \in Keys |-> 0] /\ last = [k \in Keys |-> 0]
  /\ legacy = [c \in Clients |-> None] /\ tasks = {} /\ conns = <<>>
  /\ at = "off" /\ key = None /\ wait = 0
  /\ closers = {} /\ load = 0 /\ events = [c \in Conns |-> <<>>]

-----------------------------------------------------------------------------
(* What clients send.  A stream is numbered from 1; the segments of a      *)
(* message share its number and come in order, between other streams'      *)
(* envelopes.  A stream starts with initialize, unless it did so with an   *)
(* earlier server process.  Chosen when first read.  Every message has a   *)
(* number: one without seq_id is never recognised when it comes again.  An *)
(* initialize comes whole: only messages above 100 KiB are segmented.      *)
OfStream(c, s) == { i \in 1..Len(log) : log[i].client = c /\ log[i].stream = s }

Numbers(c, s) == { log[i].seq : i \in OfStream(c, s) } \ {0}

InMessage(c, s) ==
  \E i \in OfStream(c, s) : log[i].kind = "chunk0" /\ \A j \in OfStream(c, s) : j <= i

Sendable(c, s) ==
  LET next == 1 + Cardinality(Numbers(c, s))
      now == IF OfStream(c, s) = {} /\ "init" \in Sends[<<c, s>>] THEN {"init"}
             ELSE IF InMessage(c, s) THEN {"chunk1", "bad"}
             ELSE Kinds \ {"chunk1", "bad"}
      Number(kind) == IF kind \in {"ping", "closed"} THEN 0
                      ELSE IF kind \in {"chunk1", "bad"} THEN next - 1 ELSE next
  IN  { [client |-> c, stream |-> s, kind |-> kind, seq |-> Number(kind)] :
        kind \in now \cap Sends[<<c, s>>] }

(* The reader's next envelope: one sent before, or a new one. *)
Incoming ==
  IF pos <= Len(log) THEN { log[pos] }
  ELSE IF Len(log) = MaxLog THEN {}
  ELSE UNION { Sendable(c, s) : c \in Clients, s \in Streams \cup {None} }

(* The envelope being handled: a complete segmented message is a message. *)
current == log[pos - 1]

-----------------------------------------------------------------------------
(* ClientSegmentReassembler: the places of a client's assembly, at most one, *)
(* and of its assembly when that is one of this stream.                      *)
Assembly(as, c) == { i \in 1..Len(as) : as[i].client = c }
StreamAssembly(as, c, s) == { i \in Assembly(as, c) : as[i].stream = s }

(* What is left without the one in these places, if there is one. *)
Without(as, places) ==
  IF places = {} THEN as
  ELSE LET i == CHOOSE i \in places : TRUE
       IN  [j \in 1..Len(as) - 1 |-> as[IF j < i THEN j ELSE j + 1]]

(* remove_assembly *)
Removed(as, c, s) == Without(as, StreamAssembly(as, c, s))

should_ignore_chunk(e) ==
  \E i \in StreamAssembly(asm, e.client, e.stream) :
    \/ e.seq < asm[i].seq
    \/ e.seq = asm[i].seq /\ Segments[e.kind] < asm[i].next

NewAssembly(e) == [client |-> e.client, stream |-> e.stream, seq |-> e.seq, next |-> 0]

(* Mutant: a full table is not trimmed. *)
WithoutEviction(e) ==
  IF StreamAssembly(asm, e.client, e.stream) # {} THEN asm
  ELSE Append(Without(asm, Assembly(asm, e.client)), NewAssembly(e))

(* The assemblies with one for this stream: a new one when there is none, in *)
(* the place of another stream's, or of the oldest when the table is full.   *)
WithAssembly(e) ==
  LET mine == Assembly(asm, e.client)
      kept == IF mine = {} /\ Len(asm) >= AssemblyCap THEN Tail(asm) ELSE Without(asm, mine)
  IN  IF StreamAssembly(asm, e.client, e.stream) # {} THEN asm
      ELSE Append(kept, NewAssembly(e))

(* observe, for a chunk: the new assemblies, and whether the message is complete. *)
Observe(e) ==
  LET with == WithAssembly(e)
      a == with[CHOOSE i \in Assembly(with, e.client) : TRUE]
      without == Removed(with, e.client, e.stream)
      extended == Append(without, [a EXCEPT !.next = @ + 1])
  IN  IF should_ignore_chunk(e) THEN [asm |-> asm, complete |-> FALSE]
      ELSE IF e.kind = "bad" THEN [asm |-> Removed(asm, e.client, e.stream), complete |-> FALSE]
      ELSE IF e.seq # a.seq \/ Segments[e.kind] # a.next THEN [asm |-> without, complete |-> FALSE]
      ELSE IF a.next = 0 THEN [asm |-> extended, complete |-> FALSE]
      ELSE [asm |-> without, complete |-> TRUE]

(* observe_client_message: segments of a message that was already delivered are dropped. *)
Forwarded(e) ==
  e.kind \in Chunks => completed[<<e.client, e.stream>>] < e.seq /\ Observe(e).complete

AssembliesAfter(e) ==
  IF e.kind \in Chunks /\ completed[<<e.client, e.stream>>] < e.seq THEN Observe(e).asm ELSE asm

-----------------------------------------------------------------------------
(* The stream of an envelope: its own, or the one a legacy client was given. *)
StreamOf(e) == IF e.stream # None THEN e.stream ELSE legacy[e.client]

(* The streams an initialize may get: a legacy client keeps its stream or *)
(* gets a random one, which no other connection has.                      *)
InitStreams(e) ==
  IF StreamOf(e) # None THEN { StreamOf(e) }
  ELSE { s \in LegacyStreams : /\ clients[<<e.client, s>>] = 0
                               /\ \A t \in tasks : t.key # <<e.client, s>> }

(* remove_client, cancel the outbound task, spawn_connection_closed. *)
CloseClient(k) ==
  /\ clients' = [clients EXCEPT ![k] = 0]
  /\ last' = [last EXCEPT ![k] = 0]
  /\ legacy' = IF legacy[k[1]] = k[2] THEN [legacy EXCEPT ![k[1]] = None] ELSE legacy
  /\ closers' = closers \cup { clients[k] }

(* A transport event is put on the queue. *)
Put(c, event) ==
  /\ load < QueueCap
  /\ load' = load + 1
  /\ events' = [events EXCEPT ![c] = Append(@, event)]

(* next_connection_id; ConnectionOpened is to be sent. *)
StartOpen(k) ==
  /\ conns' = Append(conns, [key |-> k, opener |-> pos' - 1])
  /\ at' = "open" /\ key' = k

(* The reader takes the next envelope of the websocket and goes on until it *)
(* has to wait, or until handle_message has returned.                       *)
ReadDropped(e) ==
  /\ ~Forwarded(e)
  /\ UNCHANGED <<at, key, wait, tracker, closers>>

(* An initialize closes the connection its stream already has. *)
ReadInit(e) ==
  /\ e.kind = "init" /\ Len(conns) < MaxConns
  /\ \E s \in InitStreams(e) :
       LET k == <<e.client, s>> IN
       IF clients[k] # 0
         THEN /\ CloseClient(k)
              /\ at' = "reopen" /\ key' = k /\ wait' = clients[k]
              /\ UNCHANGED <<tasks, conns>>
         ELSE /\ StartOpen(k)
              /\ legacy' = IF e.stream = None THEN [legacy EXCEPT ![e.client] = None] ELSE legacy
              /\ UNCHANGED <<wait, clients, last, tasks, closers>>

(* Mutant: redelivered messages are not recognised. *)
ReadMessageAgain(e) ==
  /\ e.kind \in {"msg"} \cup Chunks /\ Forwarded(e)
  /\ LET k == <<e.client, StreamOf(e)>> IN
     IF StreamOf(e) # None /\ clients[k] # 0
       THEN at' = "incoming" /\ key' = k
       ELSE at' = "record" /\ UNCHANGED key
  /\ UNCHANGED <<wait, tracker, closers>>

(* Mutant: the number is recorded before the send, which may time out. *)
ReadMessageRecorded(e) ==
  /\ e.kind \in {"msg"} \cup Chunks /\ Forwarded(e)
  /\ LET k == <<e.client, StreamOf(e)>> IN
     IF StreamOf(e) # None /\ clients[k] # 0 /\ last[k] < e.seq
       THEN at' = "incoming" /\ key' = k /\ last' = [last EXCEPT ![k] = e.seq]
       ELSE at' = "record" /\ UNCHANGED <<key, last>>
  /\ UNCHANGED <<wait, clients, legacy, tasks, conns, closers>>

(* Another message goes to its connection, unless there is none or it was *)
(* already forwarded.                                                     *)
ReadMessage(e) ==
  /\ e.kind \in {"msg"} \cup Chunks /\ Forwarded(e)
  /\ LET k == <<e.client, StreamOf(e)>> IN
     IF StreamOf(e) # None /\ clients[k] # 0 /\ last[k] < e.seq
       THEN at' = "incoming" /\ key' = k
       ELSE at' = "record" /\ UNCHANGED key
  /\ UNCHANGED <<wait, tracker, closers>>

(* A ping (like an acknowledgement) changes nothing here. *)
ReadPing(e) ==
  /\ e.kind = "ping"
  /\ at' = "record" /\ UNCHANGED <<key, wait, tracker, closers>>

ReadClosed(e) ==
  /\ e.kind = "closed"
  /\ LET k == <<e.client, StreamOf(e)>> IN
     IF StreamOf(e) # None /\ clients[k] # 0
       THEN /\ CloseClient(k)
            /\ at' = "closing" /\ key' = k /\ wait' = clients[k]
            /\ UNCHANGED <<tasks, conns>>
       ELSE at' = "record" /\ UNCHANGED <<key, wait, tracker, closers>>

Read ==
  /\ at = "select"
  /\ \E e \in Incoming :
       /\ log' = IF pos <= Len(log) THEN log ELSE Append(log, e)
       /\ pos' = pos + 1
       /\ asm' = AssembliesAfter(e)
       /\ \/ ReadDropped(e) \/ ReadInit(e) \/ ReadMessage(e) \/ ReadPing(e) \/ ReadClosed(e)
  /\ UNCHANGED <<link, breaks, stop, cursor, completed, load, events>>

(* The old connection is closed: a new one is opened. *)
Reopen ==
  /\ at = "reopen" /\ wait \notin closers
  /\ conns' = Append(conns, [key |-> key, opener |-> pos - 1])
  /\ at' = "open" /\ wait' = 0
  /\ UNCHANGED <<backend, cursor, segments, clients, last, legacy, tasks, key, queue>>

(* ConnectionOpened is queued; the outbound task and the client's entry follow. *)
Open ==
  /\ at = "open"
  /\ Put(Len(conns), [is |-> "opened", seq |-> 0])
  /\ tasks' = tasks \cup { [key |-> key, conn |-> Len(conns), ended |-> FALSE] }
  /\ clients' = [clients EXCEPT ![key] = Len(conns)]
  /\ last' = [last EXCEPT ![key] = 0]
  /\ legacy' = IF current.stream = None THEN [legacy EXCEPT ![key[1]] = key[2]] ELSE legacy
  /\ at' = "init"
  /\ UNCHANGED <<backend, cursor, segments, conns, key, wait, closers>>

(* The initialize, then its number when the client has stream ids. *)
SendInit ==
  /\ at = "init"
  /\ Put(clients[key], [is |-> "incoming", seq |-> current.seq])
  /\ last' = IF current.stream = None THEN last ELSE [last EXCEPT ![key] = current.seq]
  /\ at' = "record"
  /\ UNCHANGED <<backend, cursor, segments, clients, legacy, tasks, conns, key, wait, closers>>

(* record_inbound_message_delivery comes after the send. *)
SendIncoming ==
  /\ at = "incoming"
  /\ Put(clients[key], [is |-> "incoming", seq |-> current.seq])
  /\ last' = [last EXCEPT ![key] = current.seq]
  /\ at' = "record"
  /\ UNCHANGED <<backend, cursor, segments, clients, legacy, tasks, conns, key, wait, closers>>

(* ClientClosed: its close event is queued. *)
Closed ==
  /\ at = "closing" /\ wait \notin closers
  /\ at' = "record" /\ wait' = 0
  /\ UNCHANGED <<backend, cursor, segments, tracker, key, queue>>

(* record_client_message_delivery *)
Record ==
  /\ at = "record"
  /\ cursor' = pos - 1
  /\ completed' = IF current.kind \in Chunks
                  THEN [completed EXCEPT ![<<current.client, current.stream>>] = current.seq]
                  ELSE completed
  /\ at' = (IF current.kind = "closed" THEN "forget" ELSE "select") /\ key' = None
  /\ UNCHANGED <<backend, asm, tracker, wait, queue>>

(* What ClientClosed invalidates, the state's lock taken again. *)
Forget ==
  /\ at = "forget"
  /\ LET e == current
         k == <<e.client, e.stream>>
     IN  IF e.stream # None
           THEN /\ completed' = [completed EXCEPT ![k] = 0]
                /\ asm' = Removed(asm, e.client, e.stream)
           ELSE /\ completed' = [x \in Keys |-> IF x[1] = e.client THEN 0 ELSE completed[x]]
                /\ asm' = Without(asm, Assembly(asm, e.client))
  /\ at' = "select"
  /\ UNCHANGED <<backend, cursor, tracker, key, wait, queue>>

-----------------------------------------------------------------------------
(* The reader's other branches. *)

(* bookkeep_join_set: an outbound task has ended; its client is closed. *)
Collect(t) ==
  /\ at = "select" /\ t.ended
  /\ tasks' = tasks \ {t}
  /\ key' = t.key /\ at' = "collect"
  /\ IF clients[t.key] # 0 THEN CloseClient(t.key) /\ wait' = clients[t.key]
     ELSE UNCHANGED <<clients, last, legacy, closers, wait>>
  /\ UNCHANGED <<backend, cursor, segments, conns, load, events>>

(* close_expired_clients *)
Sweep(k) ==
  /\ at = "select" /\ clients[k] # 0
  /\ CloseClient(k)
  /\ key' = k /\ at' = "sweep" /\ wait' = clients[k]
  /\ UNCHANGED <<backend, cursor, segments, tasks, conns, load, events>>

(* The close event is queued: the stream's segments are forgotten, under *)
(* one lock after a sweep ...                                            *)
Invalidate ==
  /\ at = "sweep" /\ wait \notin closers
  /\ asm' = Removed(asm, key[1], key[2])
  /\ completed' = [completed EXCEPT ![key] = 0]
  /\ at' = "select" /\ key' = None /\ wait' = 0
  /\ UNCHANGED <<backend, cursor, tracker, queue>>

(* ... and the lock taken twice after an outbound task. *)
InvalidateSegments ==
  /\ at = "collect" /\ wait \notin closers
  /\ asm' = Removed(asm, key[1], key[2])
  /\ at' = "collected" /\ wait' = 0
  /\ UNCHANGED <<backend, cursor, completed, tracker, key, queue>>

InvalidateCompleted ==
  /\ at = "collected"
  /\ completed' = [completed EXCEPT ![key] = 0]
  /\ at' = "select" /\ key' = None
  /\ UNCHANGED <<backend, cursor, asm, tracker, wait, queue>>

(* The websocket ends with the reader, whatever the reason; the next one *)
(* will begin after subscribe_cursor.                                    *)
ReaderEnds ==
  /\ link' = "down" /\ pos' = cursor + 1 /\ at' = "off" /\ key' = None /\ wait' = 0
  /\ UNCHANGED <<log, breaks, stop, cursor, segments, load, events>>

(* A send times out while the queue is full: Stopped.  A connection whose *)
(* initialize was not forwarded is given up.                              *)
TimeOut ==
  /\ at \in {"open", "init", "incoming"} /\ load = QueueCap
  /\ ReaderEnds
  /\ IF at = "init" THEN CloseClient(key) ELSE UNCHANGED <<clients, last, legacy, closers>>
  /\ UNCHANGED <<tasks, conns>>

(* Mutant: the close event is sent by the worker itself and dies with it. *)
StoppedWhileClosing ==
  /\ link = "stopping"
  /\ ReaderEnds
  /\ closers' = closers \ {wait}
  /\ UNCHANGED tracker

(* The reader sees the shutdown token at its select; elsewhere it is aborted. *)
Stopped ==
  /\ link = "stopping"
  /\ ReaderEnds
  /\ UNCHANGED <<tracker, closers>>

-----------------------------------------------------------------------------
(* The websocket. *)
Connect ==
  /\ link = "down" /\ at = "off" /\ ~stop
  /\ link' = "up" /\ at' = "select"
  /\ UNCHANGED <<log, pos, breaks, stop, cursor, segments, tracker, key, wait, queue>>

(* It is lost, or remote control is disabled. *)
Break ==
  /\ link = "up" /\ breaks < MaxBreaks
  /\ link' = "stopping" /\ breaks' = breaks + 1
  /\ UNCHANGED <<log, pos, stop, cursor, segments, tracker, at, key, wait, queue>>

Shutdown ==
  /\ ~stop
  /\ stop' = TRUE /\ link' = IF link = "up" THEN "stopping" ELSE link
  /\ UNCHANGED <<log, pos, breaks, cursor, segments, tracker, at, key, wait, queue>>

(* ClientTracker::shutdown after the loop: close every client in turn ... *)
ShutdownClient(k) ==
  /\ stop /\ link = "down" /\ at = "off" /\ clients[k] # 0
  /\ CloseClient(k)
  /\ at' = "shutdown" /\ wait' = clients[k]
  /\ UNCHANGED <<backend, cursor, segments, tasks, conns, key, load, events>>

ShutdownNext ==
  /\ at = "shutdown" /\ wait \notin closers
  /\ at' = "off" /\ wait' = 0
  /\ UNCHANGED <<backend, cursor, segments, tracker, key, queue>>

(* ... and drain_join_set. *)
ShutdownDone ==
  /\ stop /\ link = "down" /\ at = "off" /\ \A k \in Keys : clients[k] = 0
  /\ \A t \in tasks : t.ended
  /\ tasks' = {} /\ at' = "done"
  /\ UNCHANGED <<backend, cursor, segments, clients, last, legacy, conns, key, wait, queue>>

-----------------------------------------------------------------------------
(* The other tasks. *)

(* run_client_outbound ends when its token is cancelled ... *)
TaskCancelled(t) ==
  /\ ~t.ended /\ (clients[t.key] # t.conn \/ stop)
  /\ tasks' = (tasks \ {t}) \cup { [t EXCEPT !.ended = TRUE] }
  /\ UNCHANGED <<backend, cursor, segments, clients, last, legacy, conns, at, key, wait, queue>>

(* ... or when the app server disconnects the client or drops the writer. *)
AppDisconnect(t) ==
  /\ ~t.ended /\ clients[t.key] = t.conn /\ ~stop
  /\ tasks' = (tasks \ {t}) \cup { [t EXCEPT !.ended = TRUE] }
  /\ UNCHANGED <<backend, cursor, segments, clients, last, legacy, conns, at, key, wait, queue>>

(* spawn_connection_closed: waits for room as long as it takes. *)
ForwardClosed(c) ==
  /\ Put(c, [is |-> "closed", seq |-> 0])
  /\ closers' = closers \ {c}
  /\ UNCHANGED <<backend, cursor, segments, tracker, at, key, wait>>

(* The app server takes an event. *)
AppTake ==
  /\ load > 0 /\ load' = load - 1
  /\ UNCHANGED <<backend, cursor, segments, tracker, at, key, wait, closers, events>>

(* The loop has ended and the app server knows: nothing is left to do. *)
Finished == at = "done" /\ closers = {} /\ load = 0 /\ UNCHANGED vars

Reader ==
  \/ Reopen \/ Open \/ SendInit \/ SendIncoming \/ Closed \/ Record \/ Forget
  \/ Invalidate \/ InvalidateSegments \/ InvalidateCompleted
Stopping == Stopped \/ ShutdownNext \/ ShutdownDone \/ (\E k \in Keys : ShutdownClient(k))

Next ==
  \/ Read \/ Reader \/ TimeOut
  \/ (\E t \in tasks : Collect(t)) \/ (\E k \in Keys : Sweep(k))
  \/ Connect \/ Break \/ Shutdown \/ Stopping
  \/ (\E t \in tasks : TaskCancelled(t) \/ AppDisconnect(t))
  \/ (\E c \in closers : ForwardClosed(c)) \/ AppTake
  \/ Finished

Spec == Init /\ [][Next]_vars

-----------------------------------------------------------------------------
TypeOK ==
  /\ pos \in 1..MaxLog + 1 /\ cursor \in 0..MaxLog /\ Len(log) <= MaxLog
  /\ link \in {"up", "stopping", "down"} /\ stop \in BOOLEAN /\ breaks \in 0..MaxBreaks
  /\ completed \in [Keys -> 0..MaxLog] /\ last \in [Keys -> 0..MaxLog]
  /\ Len(asm) <= AssemblyCap
  /\ clients \in [Keys -> 0..Len(conns)]
  /\ legacy \in [Clients -> LegacyStreams \cup {None}]
  /\ tasks \subseteq [key : Keys, conn : 1..Len(conns), ended : BOOLEAN]
  /\ closers \subseteq 1..Len(conns) /\ load \in 0..QueueCap /\ wait \in 0..Len(conns)

(* A connection's events begin with ConnectionOpened and end with at most *)
(* one ConnectionClosed.                                                  *)
OpenThenClosed ==
  \A c \in Conns : \A i \in 1..Len(events[c]) :
    /\ (events[c][i].is = "opened") <=> (i = 1)
    /\ events[c][i].is = "closed" => i = Len(events[c])

(* What the app server sees of a connection is ConnectionOpened, then the *)
(* client's messages, each once and in the order the client sent them,    *)
(* then at most one ConnectionClosed, although a new websocket delivers   *)
(* again whatever was not recorded (client_tracker.rs, handle_message).   *)
ConnectionOrder ==
  /\ OpenThenClosed
  /\ \A c \in Conns : \A i \in 3..Len(events[c]) :
       events[c][i].is = "incoming" => events[c][i - 1].seq < events[c][i].seq

InTable(c) == \E k \in Keys : clients[k] = c
Told(c) == events[c][Len(events[c])].is = "closed"

(* A connection the app server was told of is that of a client in the table, *)
(* or its ConnectionClosed was sent or is on its way, and only one of these, *)
(* wherever a send timed out or the reader was aborted                       *)
(* (send_connection_closed).                                                 *)
NoLeakedConnection ==
  \A c \in 1..Len(conns) : events[c] # <<>> =>
    /\ InTable(c) \/ c \in closers \/ Told(c)
    /\ c \in closers => ~InTable(c)
    /\ Told(c) => ~InTable(c) /\ c \notin closers

(* Whole: both segments of a message follow each other in the backend's order. *)
Whole(i) == log[i].kind = "chunk1" /\ i > 1 /\ log[i - 1] = [log[i] EXCEPT !.kind = "chunk0"]

(* What the backend will not send again has reached its connection: every *)
(* message of an open connection's stream that subscribe_cursor has       *)
(* passed, one of two segments included when nothing came between them.   *)
NoLossUpToCursor ==
  \A k \in Keys : clients[k] # 0 =>
    LET conn == clients[k] IN
    \A i \in conns[conn].opener..cursor :
      /\ log[i].client = k[1] /\ log[i].stream \in {k[2], None}
      /\ (log[i].stream = None => k[2] \in LegacyStreams)
      /\ log[i].kind \in {"init", "msg"} \/ Whole(i)
      => \E j \in 1..Len(events[conn]) : events[conn][j] = [is |-> "incoming", seq |-> log[i].seq]

(* The end of an outbound task closes its own connection, no other, as the *)
(* test cancelled_outbound_task_emits_connection_closed has it.            *)
TaskEndClosesItsOwn ==
  [][\A t \in tasks \ tasks' : \A k \in Keys :
       clients[k] # 0 /\ clients'[k] = 0 => clients[k] = t.conn]_vars
=============================================================================
