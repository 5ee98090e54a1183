--------------------------- MODULE EventDelivery ---------------------------
(***************************************************************************)
(* How the events of one remote process reach the subscriber of one client *)
(* session, through lost connections.                                      *)
(*                                                                         *)
(* The server numbers the events of a process under the process lock       *)
(* (local_process.rs) and three tasks - one for stdout, one for stderr,    *)
(* one waiting for the exit - each notify the connection that is attached  *)
(* at that moment, after releasing the lock.  Notifications are therefore  *)
(* reordered between tasks, and lost when the connection is not there.     *)
(* The client (client.rs) publishes events in sequence order, keeps the    *)
(* early ones pending, and after a disconnect resumes the session on a new *)
(* connection and fills the gap with one process/read (client_recovery.rs).*)
(*                                                                         *)
(* An event is named by its kind: the stream of an output chunk, "exited"  *)
(* or "closed"; its sequence number is its position in log.                *)
(***************************************************************************)
EXTENDS Sequences, Integers, FiniteSets

CONSTANTS Streams,    \* the output streams of the process: stdout and stderr
          Conns,      \* the connections the client may open
          First,      \* the one the process was started on
          None,       \* no connection
          MaxOutput   \* bound: output chunks the process writes

ASSUME ConnsAssumption == First \in Conns /\ None \notin Conns
ASSUME StreamsAssumption == IsFiniteSet(Streams) /\ {"exit", "exited", "closed"} \cap Streams = {}
ASSUME MaxOutputAssumption == MaxOutput \in Nat

Tasks   == Streams \cup {"exit"}
Events  == Streams \cup {"exited", "closed"}

VARIABLES
  \* Server: the process entry (RunningProcess) and its three tasks.
  log,        \* every event numbered so far; next_seq = Len(log) + 1
  floor,      \* output chunks below floor were evicted from the retained output
  entry,      \* the process is in the process table
  open,       \* open_streams
  pc,         \* where each task is
  cur,        \* the sequence number the task is notifying
  tgt,        \* the connection whose sender the task cloned
  \* Server: the session.
  sender,     \* the connection notifications go to (the attached one)
  expired,    \* the session was removed after its TTL
  hello,      \* connections whose initialize is not yet handled
  \* Connections.
  srv,        \* the server's end: "unused", "up" or "closed"
  cli,        \* the client's end: "unused", "up" or "closed"
  notes,      \* notifications on their way to the client's reader
  reader,     \* the client's reader task of the connection is running
  \* Client.
  status,     \* ConnectionStatus: "connected", "recovering" or "failed"
  conn,       \* the connection of Connected, else None
  cand,       \* the connection being resumed by recover(), or None
  phase,      \* how far resume_once got with cand
  asked,      \* after_seq of the recovery read
  resp,       \* the read response it is about to apply
  published,  \* the events shown to subscribers, in order
  pending,    \* OrderedSessionEvents.pending: early events by number
  failure     \* "none", or why the session was declared failed

server  == <<log, floor, entry, open, pc, cur, tgt>>
session == <<sender, expired, hello>>
links   == <<srv, cli, notes, reader>>
recovery == <<status, conn, cand, phase, asked, resp>>
ordered == <<published, pending, failure>>
vars == <<server, session, links, recovery, ordered>>

Note == [seq : Nat, event : Events]

(* The outcome of the recovery read: nothing yet, a response of exec_read, an
   error answer ("unknown"), or why the response could not be applied. *)
NoResp == [kind |-> "none", next |-> 1, exited |-> FALSE, closed |-> FALSE,
           chunks |-> <<>>]

Exited(s) == \E i \in 1..Len(s) : s[i] = "exited"
Closed(s) == \E i \in 1..Len(s) : s[i] = "closed"

Init ==
  /\ log = <<>> /\ floor = 1 /\ entry = TRUE /\ open = Cardinality(Streams)
  /\ pc = [t \in Tasks |-> "run"]
  /\ cur = [t \in Tasks |-> 0]
  /\ tgt = [t \in Tasks |-> None]
  /\ sender = First /\ expired = FALSE /\ hello = {}
  /\ srv = [c \in Conns |-> IF c = First THEN "up" ELSE "unused"]
  /\ cli = [c \in Conns |-> IF c = First THEN "up" ELSE "unused"]
  /\ notes = [c \in Conns |-> <<>>]
  /\ reader = [c \in Conns |-> c = First]
  /\ status = "connected" /\ conn = First
  /\ cand = None /\ phase = "idle" /\ asked = 0 /\ resp = NoResp
  /\ published = <<>> /\ pending = <<>> /\ failure = "none"

(***************************************************************************)
(* The server's tasks.                                                     *)
(***************************************************************************)

(* Number one event and remember that the task must notify it. *)
Number(t, e, next) ==
  /\ log' = Append(log, e)
  /\ cur' = [cur EXCEPT ![t] = Len(log) + 1]
  /\ pc' = [pc EXCEPT ![t] = next]

(* stream_output, one chunk: number it, retain it, evict the oldest chunks
   if the retained bytes exceed the limit.  Chunk sizes are abstract, so any
   older prefix of the chunks may go. *)
OutputChunk(t) ==
  /\ pc[t] = "run" /\ entry
  /\ Cardinality({i \in DOMAIN log : log[i] \in Streams}) < MaxOutput
  /\ Number(t, t, "notify")
  /\ floor' \in floor..Len(log) + 1
  /\ UNCHANGED <<entry, open, tgt, session, links, recovery, ordered>>

(* The stream ends, or the entry is gone: finish_output_stream. *)
FinishStream(t) ==
  /\ pc[t] = "run"
  /\ \/ entry /\ open' = open - 1 /\ pc' = [pc EXCEPT ![t] = "closing"]
     \/ ~entry /\ pc' = [pc EXCEPT ![t] = "done"] /\ UNCHANGED open
  /\ UNCHANGED <<log, floor, entry, cur, tgt, session, links, recovery, ordered>>

(* watch_exit: the child is gone. *)
ChildExit ==
  /\ pc["exit"] = "run"
  /\ \/ entry /\ Number("exit", "exited", "notify")
     \/ ~entry /\ pc' = [pc EXCEPT !["exit"] = "done"] /\ UNCHANGED <<log, cur>>
  /\ UNCHANGED <<floor, entry, open, tgt, session, links, recovery, ordered>>

CanClose == open = 0 /\ Exited(log) /\ ~Closed(log)

(* maybe_emit_closed, up to the notification. *)
MaybeEmitClosed(t) ==
  /\ pc[t] = "closing"
  /\ \/ entry /\ CanClose /\ Number(t, "closed", "notifyClosed")
     \/ ~(entry /\ CanClose) /\ pc' = [pc EXCEPT ![t] = "done"] /\ UNCHANGED <<log, cur>>
  /\ UNCHANGED <<floor, entry, open, tgt, session, links, recovery, ordered>>

(* Where a task goes once its notification is sent or dropped. *)
AfterNotify(t) ==
  IF pc[t] \in {"notifyClosed", "sendClosed"} THEN "done"
  ELSE IF t = "exit" THEN "closing" ELSE "run"

(* The task is done with its notification, sent or dropped. *)
Notified(t) ==
  /\ pc' = [pc EXCEPT ![t] = AfterNotify(t)]
  /\ cur' = [cur EXCEPT ![t] = 0]
  /\ tgt' = [tgt EXCEPT ![t] = None]

(* notification_sender: clone the current sender, if there is one. *)
PickSender(t) ==
  /\ pc[t] \in {"notify", "notifyClosed"}
  /\ \/ sender = None /\ Notified(t)
     \/ /\ sender # None
        /\ tgt' = [tgt EXCEPT ![t] = sender]
        /\ pc' = [pc EXCEPT ![t] = IF @ = "notify" THEN "send" ELSE "sendClosed"]
        /\ UNCHANGED cur
  /\ UNCHANGED <<log, floor, entry, open, session, links, recovery, ordered>>

(* notify().await: queued when both ends are up, lost otherwise. *)
SendNote(t) ==
  /\ pc[t] \in {"send", "sendClosed"}
  /\ LET c == tgt[t] IN
       notes' = IF srv[c] = "up" /\ cli[c] = "up"
                THEN [notes EXCEPT ![c] = Append(@, [seq |-> cur[t], event |-> log[cur[t]]])]
                ELSE notes
  /\ Notified(t)
  /\ UNCHANGED <<log, floor, entry, open, session, srv, cli, reader, recovery, ordered>>

(* The task spawned by maybe_emit_closed, EXITED_PROCESS_RETENTION later. *)
RemoveClosedEntry ==
  /\ entry /\ Closed(log)
  /\ entry' = FALSE
  /\ UNCHANGED <<log, floor, open, pc, cur, tgt, session, links, recovery, ordered>>

(***************************************************************************)
(* The server's sessions and connections.                                  *)
(***************************************************************************)

(* run_connection ends and ExecServerHandler::shutdown detaches the session.
   What is left in the outgoing queue is dropped: ClientClose loses it. *)
ServerClose(c) ==
  /\ srv[c] = "up"
  /\ srv' = [srv EXCEPT ![c] = "closed"]
  /\ hello' = hello \ {c}
  /\ sender' = IF sender = c THEN None ELSE sender
  /\ UNCHANGED <<server, expired, cli, notes, reader, recovery, ordered>>

(* expire_if_detached: the session and its processes go. *)
Expire ==
  /\ sender = None /\ ~expired
  /\ expired' = TRUE /\ entry' = FALSE
  /\ UNCHANGED <<log, floor, open, pc, cur, tgt, sender, hello, links, recovery, ordered>>

(* initialize with resume_session_id, accepted.  The server may handle it
   after the client has given the connection up. *)
Attach(c) ==
  /\ c \in hello /\ srv[c] = "up"
  /\ ~expired /\ sender = None
  /\ sender' = c /\ hello' = hello \ {c}
  /\ phase' = IF cand = c THEN "attached" ELSE phase
  /\ UNCHANGED <<server, expired, links, status, conn, cand, asked, resp, ordered>>

(***************************************************************************)
(* The client's ordered publisher.                                         *)
(***************************************************************************)

(* Mutant: forgets that Closed ends the session. *)
LiveAfterClosed == failure = "none"

(* Events are still accepted: no failure, Closed not published. *)
Live == failure = "none" /\ ~Closed(published)

(* Mutant: publishes the earliest pending event without waiting for the ones
   before it. *)
PublishEagerly(p) ==
  \E s \in DOMAIN p :
    /\ \A u \in DOMAIN p : s <= u
    /\ published' = Append(published, p[s])
    /\ pending' = [u \in DOMAIN p \ {s} |-> p[u]]

(* publish_ready: publish pending events as long as the next one is there. *)
PublishReady(p) ==
  \E n \in DOMAIN p \cup {Len(published)} :
    /\ n >= Len(published)
    /\ Len(published)+1..n \subseteq DOMAIN p
    /\ n + 1 \notin DOMAIN p
    /\ published' = [i \in 1..n |-> IF i <= Len(published) THEN published[i] ELSE p[i]]
    /\ pending' = [s \in DOMAIN p \ 1..n |-> p[s]]

(* pending.entry(seq).or_insert(event), for each event of q *)
OrInsert(p, q) == [i \in DOMAIN p \cup DOMAIN q |-> IF i \in DOMAIN p THEN p[i] ELSE q[i]]

Single(s, e) == [i \in {s} |-> e]

(* publish_ordered_event *)
PublishOrdered(s, e) ==
  IF Live /\ s > Len(published)
  THEN PublishReady(OrInsert(pending, Single(s, e))) /\ UNCHANGED failure
  ELSE UNCHANGED ordered

(* Mutant: fails a session that has already shown Closed. *)
SetFailureAlways(why) == failure' = why /\ pending' = <<>> /\ UNCHANGED published

(* set_failure *)
SetFailure(why) ==
  IF Live THEN failure' = why /\ pending' = <<>> /\ UNCHANGED published
          ELSE UNCHANGED ordered

(***************************************************************************)
(* The client's connections and their readers.                             *)
(***************************************************************************)

(* request_recovery: only the reader of the installed connection starts it. *)
RequestRecovery(c) ==
  IF status = "connected" /\ conn = c
  THEN status' = "recovering" /\ conn' = None
  ELSE UNCHANGED <<status, conn>>

(* spawn_rpc_reader, one notification: handle_server_notification. *)
Receive(c) ==
  /\ reader[c] /\ notes[c] # <<>>
  /\ notes' = [notes EXCEPT ![c] = Tail(@)]
  /\ PublishOrdered(Head(notes[c]).seq, Head(notes[c]).event)
  /\ UNCHANGED <<server, session, srv, cli, reader, recovery>>

(* The client's transport ends: is_disconnected from now on, and what was
   still under way, any suffix of the queue, is lost. *)
ClientClose(c) ==
  /\ cli[c] = "up"
  /\ cli' = [cli EXCEPT ![c] = "closed"]
  /\ \E k \in 0..Len(notes[c]) : notes' = [notes EXCEPT ![c] = SubSeq(@, 1, k)]
  /\ UNCHANGED <<server, session, srv, reader, recovery, ordered>>

(* Mutant: the reader ends without asking for recovery. *)
DisconnectedSilently(c) ==
  /\ reader[c] /\ cli[c] = "closed" /\ notes[c] = <<>>
  /\ reader' = [reader EXCEPT ![c] = FALSE]
  /\ UNCHANGED <<server, session, srv, cli, notes, recovery, ordered>>

(* The reader meets the Disconnected event, behind every notification. *)
Disconnected(c) ==
  /\ reader[c] /\ cli[c] = "closed" /\ notes[c] = <<>>
  /\ reader' = [reader EXCEPT ![c] = FALSE]
  /\ RequestRecovery(c)
  /\ UNCHANGED <<server, session, srv, cli, notes, cand, phase, asked, resp, ordered>>

(* A notification cannot be handled: close_transport, then recover. *)
HandlerError(c) ==
  /\ reader[c]
  /\ cli' = [cli EXCEPT ![c] = "closed"]
  /\ notes' = [notes EXCEPT ![c] = <<>>]
  /\ reader' = [reader EXCEPT ![c] = FALSE]
  /\ RequestRecovery(c)
  /\ UNCHANGED <<server, session, srv, cand, phase, asked, resp, ordered>>

(* The reader's weak reference to a dropped RpcClient does not upgrade. *)
ReaderGone(c) ==
  /\ reader[c] /\ c # conn /\ c # cand
  /\ reader' = [reader EXCEPT ![c] = FALSE]
  /\ notes' = [notes EXCEPT ![c] = <<>>]
  /\ UNCHANGED <<server, session, srv, cli, recovery, ordered>>

(***************************************************************************)
(* Recovery: recover and resume_once.                                      *)
(***************************************************************************)

(* reconnect_strategy.resume: a fresh connection, its reader, initialize. *)
Connect(c) ==
  /\ status = "recovering" /\ cand = None
  /\ cli[c] = "unused"
  /\ cli' = [cli EXCEPT ![c] = "up"] /\ srv' = [srv EXCEPT ![c] = "up"]
  /\ reader' = [reader EXCEPT ![c] = TRUE]
  /\ hello' = hello \cup {c}
  /\ cand' = c /\ phase' = "init"
  /\ UNCHANGED <<server, sender, expired, notes, status, conn, asked, resp, ordered>>

(* Mutant: the candidate is forgotten but the recovery goes on with it. *)
DropClientOnly ==
  /\ cli' = [c \in Conns |-> IF c = cand THEN "closed" ELSE cli[c]]
  /\ cand' = None /\ UNCHANGED phase /\ asked' = 0 /\ resp' = NoResp

(* The candidate's RpcClient, if any, is dropped with its transport. *)
DropClient ==
  /\ cli' = [c \in Conns |-> IF c = cand THEN "closed" ELSE cli[c]]
  /\ cand' = None /\ phase' = "idle" /\ asked' = 0 /\ resp' = NoResp

(* A retryable error: the transport closed, or initialize timed out. *)
RetryLater ==
  /\ status = "recovering" /\ cand # None
  /\ cli[cand] = "closed" \/ phase = "init"
  /\ DropClient
  /\ UNCHANGED <<server, session, srv, notes, reader, status, conn, ordered>>

(* Inner::fail, up to the status change. *)
FailStatus == status' = "failed" /\ conn' = None

(* initialize refused: the session is still attached (retry), or is unknown
   by now (give up). *)
Refuse(c) ==
  /\ c \in hello /\ srv[c] = "up"
  /\ hello' = hello \ {c}
  /\ \/ /\ cand # c /\ (expired \/ sender # None)
        /\ UNCHANGED <<recovery, cli>>
     \/ /\ cand = c /\ ~expired /\ sender # None
        /\ DropClient /\ UNCHANGED <<status, conn>>
     \/ /\ cand = c /\ expired
        /\ DropClient /\ FailStatus
  /\ UNCHANGED <<server, sender, expired, srv, notes, reader, ordered>>

(* Mutant: off by one, asks for the events after the first missing one. *)
AskTooLate ==
  /\ phase = "attached" /\ cli[cand] = "up"
  /\ \/ Live /\ asked' = Len(published) + 1 /\ phase' = "asked"
     \/ ~Live /\ phase' = "applied" /\ UNCHANGED asked
  /\ UNCHANGED <<server, session, links, status, conn, cand, resp, ordered>>

(* recover_processes sends process/read after the last published event, or
   skips a session that is no longer routed. *)
AskMissing ==
  /\ phase = "attached" /\ cli[cand] = "up"
  /\ \/ Live /\ asked' = Len(published) /\ phase' = "asked"
     \/ ~Live /\ phase' = "applied" /\ UNCHANGED asked
  /\ UNCHANGED <<server, session, links, status, conn, cand, resp, ordered>>

(* exec_read with wait_ms = 0 and no byte limit, under the process lock. *)
Snapshot ==
  [kind |-> "read", next |-> Len(log) + 1,
   exited |-> Exited(log), closed |-> Closed(log),
   chunks |-> [s \in {i \in 1..Len(log) : /\ i > asked /\ i >= floor
                                          /\ log[i] \in Streams} |-> log[s]]]

AnswerRead ==
  /\ phase = "asked" /\ srv[cand] = "up"
  /\ resp' = IF entry THEN Snapshot ELSE [NoResp EXCEPT !.kind = "unknown"]
  /\ phase' = "answered" /\ asked' = 0
  /\ UNCHANGED <<server, session, links, status, conn, cand, ordered>>
(* recover_events on a response that is worth applying.  The chunks and the
   Closed event are merged into pending; when the process has exited and no
   Exited event is known, the one number that is still missing is its own. *)
Target == resp.next - 1
WithChunks == OrInsert(pending, [s \in {i \in DOMAIN resp.chunks : i > Len(published)} |-> resp.chunks[s]])
WithClosed == IF resp.closed THEN OrInsert(WithChunks, Single(Target, "closed")) ELSE WithChunks
Conflict   == resp.closed /\ WithClosed[Target] # "closed"
ExitKnown  == Exited(published) \/ \E s \in DOMAIN WithClosed : s <= Target /\ WithClosed[s] = "exited"
Missing    == (Len(published)+1..Target) \ DOMAIN WithClosed
InferExit  == resp.exited /\ ~ExitKnown

(* The response is refused: what was merged so far stays pending. *)
Refused(why) ==
  /\ \/ why = "conflict" /\ Conflict /\ pending' = WithChunks
     \/ /\ why = "gap" /\ ~Conflict /\ pending' = WithClosed
        /\ IF InferExit THEN \A s \in Missing : Missing # {s} ELSE Missing # {}
  /\ resp' = [NoResp EXCEPT !.kind = why] /\ phase' = "terminating"
  /\ UNCHANGED <<published, failure>>

(* The response completes the sequence through its target. *)
Recovered ==
  /\ ~Conflict
  /\ \/ ~InferExit /\ Missing = {} /\ PublishReady(WithClosed)
     \/ /\ InferExit
        /\ \E s \in Missing : /\ Missing = {s}
                              /\ PublishReady(OrInsert(WithClosed, Single(s, "exited")))
  /\ resp' = NoResp /\ phase' = "applied"
  /\ UNCHANGED failure

RecoverEvents ==
  /\ phase = "answered" /\ resp.kind = "read"
  /\ \/ /\ ~Live \/ Target <= Len(published)
        /\ resp' = NoResp /\ phase' = "applied" /\ UNCHANGED ordered
     \/ /\ Live /\ Target > Len(published)
        /\ Recovered \/ \E why \in {"gap", "conflict"} : Refused(why)
  /\ UNCHANGED <<server, session, links, status, conn, cand, asked>>

(* The read was answered with an error: the process is unknown by now. *)
ReadError ==
  /\ phase = "answered" /\ resp.kind = "unknown"
  /\ phase' = "terminating"
  /\ UNCHANGED <<server, session, links, status, conn, cand, asked, resp, ordered>>

(* ... process/terminate was answered: the session is unrouted and failed. *)
GiveUpProcess ==
  /\ phase = "terminating" /\ srv[cand] = "up" /\ cli[cand] = "up"
  /\ SetFailure(resp.kind)
  /\ phase' = "applied" /\ resp' = NoResp
  /\ UNCHANGED <<server, session, links, status, conn, cand, asked>>

(* Mutant: installs a candidate that may already be disconnected. *)
InstallUnchecked ==
  /\ status = "recovering" /\ phase = "applied"
  /\ status' = "connected" /\ conn' = cand
  /\ cand' = None /\ phase' = "idle"
  /\ UNCHANGED <<server, session, links, asked, resp, ordered>>

(* Mutant: installs the resumed connection without the recovery read. *)
InstallUnrecovered ==
  /\ status = "recovering" /\ phase \in {"attached", "applied"} /\ cli[cand] = "up"
  /\ status' = "connected" /\ conn' = cand
  /\ cand' = None /\ phase' = "idle"
  /\ UNCHANGED <<server, session, links, asked, resp, ordered>>

(* install_recovered_client *)
Install ==
  /\ status = "recovering" /\ phase = "applied" /\ cli[cand] = "up"
  /\ status' = "connected" /\ conn' = cand
  /\ cand' = None /\ phase' = "idle"
  /\ UNCHANGED <<server, session, links, asked, resp, ordered>>

(* SESSION_RECOVERY_TIMEOUT, or an error that is not retryable. *)
RecoveryFails ==
  /\ status = "recovering"
  /\ DropClient /\ FailStatus
  /\ UNCHANGED <<server, session, srv, notes, reader, ordered>>

(* fail_all_in_flight_work *)
FailSessions ==
  /\ status = "failed" /\ Live
  /\ SetFailure("transport")
  /\ UNCHANGED <<server, session, links, recovery>>

-----------------------------------------------------------------------------
ServerTask(t) == MaybeEmitClosed(t) \/ PickSender(t) \/ SendNote(t)

Process == \/ \E t \in Streams : OutputChunk(t) \/ FinishStream(t)
           \/ ChildExit \/ RemoveClosedEntry
           \/ \E t \in Tasks : ServerTask(t)

Link(c) == \/ ServerClose(c) \/ Attach(c) \/ Refuse(c)
           \/ Receive(c) \/ ClientClose(c) \/ Disconnected(c)
           \/ HandlerError(c) \/ ReaderGone(c) \/ Connect(c)

Recovery == \/ RetryLater \/ AskMissing \/ AnswerRead \/ RecoverEvents
            \/ ReadError \/ GiveUpProcess \/ Install \/ RecoveryFails \/ FailSessions

Next == Process \/ Expire \/ Recovery \/ \E c \in Conns : Link(c)

(* The steps that do not stay away for ever: tokio runs every ready task, TCP
   and the websocket pings let each end notice that the other is gone, and a
   recovery has a deadline.  The child need not write, exit or close its
   streams, connections need not break and sessions need not expire. *)
Progress ==
  \/ \E t \in Tasks : ServerTask(t)
  \/ Recovery
  \/ \E c \in Conns : \/ Attach(c) \/ Refuse(c)
                      \/ Receive(c) \/ Disconnected(c)
                      \/ cli[c] = "closed" /\ ServerClose(c)
                      \/ srv[c] = "closed" /\ ClientClose(c)

Fairness == WF_vars(Progress)

Spec == Init /\ [][Next]_vars
FairSpec == Spec /\ Fairness

-----------------------------------------------------------------------------
Pcs == {"run", "notify", "send", "closing", "notifyClosed", "sendClosed", "done"}
Phases == {"idle", "init", "attached", "asked", "answered", "terminating", "applied"}

ServerTypes ==
  /\ log \in Seq(Events) /\ floor \in Nat \ {0} /\ entry \in BOOLEAN /\ open \in Int
  /\ pc \in [Tasks -> Pcs] /\ cur \in [Tasks -> Nat]
  /\ tgt \in [Tasks -> Conns \cup {None}]

SessionTypes ==
  sender \in Conns \cup {None} /\ expired \in BOOLEAN /\ hello \subseteq Conns

LinkTypes ==
  /\ srv \in [Conns -> {"unused", "up", "closed"}]
  /\ cli \in [Conns -> {"unused", "up", "closed"}]
  /\ notes \in [Conns -> Seq(Note)] /\ reader \in [Conns -> BOOLEAN]

RecoveryTypes ==
  /\ status \in {"connected", "recovering", "failed"} /\ conn \in Conns \cup {None}
  /\ cand \in Conns \cup {None} /\ phase \in Phases /\ asked \in Nat
  /\ resp.kind \in {"none", "read", "unknown", "gap", "conflict"}
  /\ status = "connected" <=> conn # None
  /\ phase = "idle" <=> cand = None
  /\ cand # None => status = "recovering"
  /\ phase = "terminating" => resp.kind \in {"unknown", "gap", "conflict"}

OrderedTypes ==
  /\ published \in Seq(Events)
  /\ DOMAIN pending \subseteq Nat /\ pending \in [DOMAIN pending -> Events]
  /\ failure \in {"none", "gap", "conflict", "unknown", "transport"}

(* Every variable has its type, a connection is installed exactly when the
   status says so, and a candidate exists exactly while recover() runs one. *)
TypeOK == ServerTypes /\ SessionTypes /\ LinkTypes /\ RecoveryTypes /\ OrderedTypes

(* The subscriber sees the server's events in the server's order, none
   missing, none twice, none invented (publish_ready, recover_events): an
   inferred Exited event has the number the server gave it. *)
PublishedIsPrefix ==
  /\ Len(published) <= Len(log)
  /\ \A i \in 1..Len(published) : published[i] = log[i]

(* While a connection is installed and alive and the server's session is
   attached to it, every event that is not yet published is on its way: it is
   pending, queued, or a task is about to send it to this connection.  Nothing
   slips between the recovery read and the live notifications. *)
Underway(s, c) ==
  \/ s \in DOMAIN pending
  \/ \E i \in 1..Len(notes[c]) : notes[c][i].seq = s
  \/ \E t \in Tasks : /\ cur[t] = s
                      /\ \/ pc[t] \in {"notify", "notifyClosed"}
                         \/ pc[t] \in {"send", "sendClosed"} /\ tgt[t] = c

NoSilentLoss ==
  (/\ status = "connected" /\ cli[conn] = "up" /\ srv[conn] = "up"
   /\ sender = conn /\ Live)
  => \A s \in Len(published)+1..Len(log) : Underway(s, conn)

(* A session is declared failed for a gap only if output really was evicted
   from the server's bounded retained output, and a recovered close never
   conflicts with recovered output (recover_events). *)
GapOnlyAfterEviction ==
  /\ "gap" \in {failure, resp.kind} => \E s \in 1..floor-1 : s <= Len(log) /\ log[s] \in Streams
  /\ "conflict" \notin {failure, resp.kind}

(* A dead installed connection still has a reader that will ask for recovery:
   install_recovered_client's check closes the race with the disconnect. *)
NoLostDisconnect ==
  status = "connected" => reader[conn]

(* Once Closed or a failure was published, nothing more is (closed_published
   and failure guards of the ordered publisher). *)
NothingAfterTheEnd ==
  [][failure # "none" \/ Closed(published)
     => published' = published /\ failure' = failure]_vars

(* The subscriber always catches up with the server or is told of a failure:
   a disconnect at any moment, between any two steps of publisher, notifier
   and recovery, strands nobody. *)
CatchesUp == []<>(published = log \/ failure # "none")

(* EventDelivery implements EventStream. *)
Abstract == INSTANCE EventStream WITH Final <- "closed", view <- published, over <- (failure # "none")
ImplementsEventStream == Abstract!Spec
=============================================================================
