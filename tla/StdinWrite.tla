----------------------------- MODULE StdinWrite -----------------------------
(***************************************************************************)
(* process/write through lost connections: at most once, or nearly.        *)
(*                                                                         *)
(* A client's write keeps its id and is sent again on the next connection  *)
(* until it is answered (client.rs, Session::write).  The server remembers *)
(* the ids it accepted in a bounded FIFO cache and acknowledges a repeated *)
(* one without writing (local_process.rs, exec_write).  It handles the     *)
(* requests of a connection one after the other, and drops the handler     *)
(* when the connection is lost (processor.rs): a write that waits for room *)
(* in the child's stdin queue may be cancelled there, and holds up every   *)
(* request behind it, a terminate of the same process included.            *)
(*                                                                         *)
(* A connection is resumed only when the server has let go of the old one  *)
(* (SessionRegistry), so at most one link is handled at a time.  A call    *)
(* takes the RpcClient of the connected link first and registers with it   *)
(* later: the link may have ended, or another one come, in between.        *)
(*                                                                         *)
(* The process is running: a Session exists only once its start has been   *)
(* answered, so the answer Starting is never given here.                   *)
(***************************************************************************)
EXTENDS Naturals, Sequences

CONSTANTS Writes,    \* calls of Session::write, each with its own write id
          Terminate, \* one call of Session::terminate
          None,      \* no request
          Cap,       \* RETAINED_STDIN_WRITE_IDS_PER_PROCESS
          Room,      \* capacity of the child's stdin queue
          MaxLinks   \* bound: connections the client uses

ASSUME CallsAssumption == Terminate \notin Writes /\ None \notin Writes \cup {Terminate}
ASSUME BoundsAssumption == Cap \in Nat \ {0} /\ Room \in Nat \ {0} /\ MaxLinks \in Nat

Calls == Writes \cup {Terminate}

VARIABLES
  \* Client.
  call,      \* "idle", "retry", "ready" with an RpcClient, "sent", or an outcome
  rpc,       \* the link whose RpcClient the call has, or 0
  cli,       \* the client's end of the link is up
  drained,   \* the link's reader has ended: closed is set, pending is drained
  failed,    \* ConnectionStatus::Failed
  links,     \* links used so far
  replies,   \* answers on their way to the client's reader
  \* Server: the connection.
  srv,       \* the server's end of the link is up
  queue,     \* requests on their way to run_connection
  request,   \* the request it is handling, or None
  stage,     \* how far exec_write is: "idle", "check", "reserve" or "permit"
  \* Server: the process.
  stdin,     \* where it comes from: "none", "pipe" (pipe_stdin) or "tty"
  child,     \* "alive", "exited" by itself, "killed", or "gone" from the table
  order,     \* AcceptedStdinWriteIds, oldest first
  written,   \* everything ever sent to the stdin queue
  taken      \* how much of it the writer task has passed on

client  == <<call, rpc, cli, drained, failed, links, replies>>
server  == <<srv, queue, request, stage>>
process == <<stdin, child, order, written, taken>>
vars == <<client, server, process>>

Init ==
  /\ call = [w \in Calls |-> "idle"] /\ rpc = [w \in Calls |-> 0]
  /\ cli = TRUE /\ drained = FALSE /\ failed = FALSE /\ links = 1 /\ replies = <<>>
  /\ srv = TRUE /\ queue = <<>> /\ request = None /\ stage = "idle"
  /\ stdin \in {"none", "pipe", "tty"} /\ child = "alive"
  /\ order = <<>> /\ written = <<>> /\ taken = 0

-----------------------------------------------------------------------------
(* Inner::rpc_client: waits for a connected link, or fails with the recovery. *)
GetClient(w) ==
  /\ call[w] \in {"idle", "retry"}
  /\ \/ /\ ~failed /\ cli
        /\ call' = [call EXCEPT ![w] = "ready"]
        /\ rpc' = [rpc EXCEPT ![w] = links]
     \/ /\ failed
        /\ call' = [call EXCEPT ![w] = "error"]
        /\ UNCHANGED rpc
  /\ UNCHANGED <<cli, drained, failed, links, replies, server, process>>

(* What a call does when its transport is closed: a write begins again, unless
   recovery was given up; a terminate does not. *)
Afterwards(w) == IF w = Terminate \/ failed THEN "error" ELSE "retry"

(* Mutant: registers without looking whether the link has ended. *)
SendUnchecked(w) ==
  /\ call[w] = "ready"
  /\ call' = [call EXCEPT ![w] = "sent"]
  /\ queue' = IF srv /\ rpc[w] = links THEN Append(queue, w) ELSE queue
  /\ UNCHANGED <<rpc, cli, drained, failed, links, replies, srv, request, stage, process>>

(* RpcClient::call: under the lock of the pending calls it looks whether the
   link has ended and registers; then it sends. *)
Send(w) ==
  /\ call[w] = "ready"
  /\ \/ /\ cli /\ rpc[w] = links
        /\ call' = [call EXCEPT ![w] = "sent"]
        /\ queue' = IF srv THEN Append(queue, w) ELSE queue
        /\ UNCHANGED rpc
     \/ /\ ~cli \/ rpc[w] # links
        /\ call' = [call EXCEPT ![w] = Afterwards(w)]
        /\ rpc' = [rpc EXCEPT ![w] = 0]
        /\ UNCHANGED queue
  /\ UNCHANGED <<cli, drained, failed, links, replies, srv, request, stage, process>>

(* The reader completes a pending call. *)
Receive ==
  /\ replies # <<>>
  /\ call' = [call EXCEPT ![Head(replies).of] = Head(replies).is]
  /\ rpc' = [rpc EXCEPT ![Head(replies).of] = 0]
  /\ replies' = Tail(replies)
  /\ UNCHANGED <<cli, drained, failed, links, server, process>>

(* The link breaks on the client's side: what was not yet read is lost. *)
ClientClose ==
  /\ cli
  /\ cli' = FALSE
  /\ \E k \in 0..Len(replies) : replies' = SubSeq(replies, 1, k)
  /\ UNCHANGED <<call, rpc, drained, failed, links, server, process>>

(* The calls in the link's pending map. *)
Pending == {w \in Calls : call[w] = "sent" /\ rpc[w] = links}

(* The reader has met the end: drain_pending, once, fails what is pending. *)
Drained ==
  /\ ~cli /\ replies = <<>> /\ ~drained
  /\ drained' = TRUE
  /\ call' = [w \in Calls |-> IF w \in Pending THEN Afterwards(w) ELSE call[w]]
  /\ rpc' = [w \in Calls |-> IF w \in Pending THEN 0 ELSE rpc[w]]
  /\ UNCHANGED <<cli, failed, links, replies, server, process>>

(* Recovery, which begins when the reader has ended, succeeds on a new link,
   once the server has let the old one go. *)
Reconnect ==
  /\ drained /\ ~srv /\ ~failed /\ links < MaxLinks
  /\ cli' = TRUE /\ srv' = TRUE /\ links' = links + 1 /\ drained' = FALSE
  /\ UNCHANGED <<call, rpc, failed, replies, queue, request, stage, process>>

(* Recovery is given up. *)
Fail ==
  /\ drained /\ ~failed
  /\ failed' = TRUE
  /\ UNCHANGED <<call, rpc, cli, drained, links, replies, server, process>>

-----------------------------------------------------------------------------
(* run_connection takes the next request. *)
Take ==
  /\ srv /\ request = None /\ queue # <<>>
  /\ request' = Head(queue) /\ queue' = Tail(queue)
  /\ stage' = "check"
  /\ UNCHANGED <<client, srv, process>>

(* The handler returns, and its answer goes out if the link is still there. *)
Answer(what) ==
  /\ replies' = IF cli THEN Append(replies, [of |-> request, is |-> what]) ELSE replies
  /\ request' = None /\ stage' = "idle"

(* terminate_process: nothing is done to a child that has exited. *)
DoTerminate ==
  /\ request = Terminate
  /\ child' = IF child = "alive" THEN "killed" ELSE child
  /\ Answer("done")
  /\ UNCHANGED <<call, rpc, cli, drained, failed, links, srv, queue, stdin, order, written, taken>>

(* AcceptedStdinWriteIds::contains *)
Accepted(w) == \E k \in 1..Len(order) : order[k] = w

(* exec_write before it waits for room: an unknown process, one without stdin,
   a write that was accepted before, or a new one. *)
CheckWrite ==
  /\ request \in Writes /\ stage = "check"
  /\ \/ child = "gone" /\ Answer("unknown")
     \/ child # "gone" /\ stdin = "none" /\ Answer("stdinClosed")
     \/ child # "gone" /\ stdin # "none" /\ Accepted(request) /\ Answer("accepted")
     \/ /\ child # "gone" /\ stdin # "none" /\ ~Accepted(request)
        /\ stage' = "reserve" /\ UNCHANGED <<replies, request>>
  /\ UNCHANGED <<call, rpc, cli, drained, failed, links, srv, queue, process>>

Full == Len(written) - taken >= Room

(* ProcessHandle::terminate, or its drop, aborts the writer task. *)
WriterAborted == child \in {"killed", "gone"}

(* A write is stuck: it waits for room in a full queue.  The abort of a pipe's
   writer frees it; a terminal's writer may be inside a blocking write, which
   an abort does not end. *)
Stuck == stage = "reserve" /\ Full /\ ~(stdin = "pipe" /\ WriterAborted)

(* writer_tx.reserve().await: room in the queue, or an error once the aborted
   writer task has let go of it; after the abort there is a while for both. *)
Reserve ==
  /\ stage = "reserve"
  /\ \/ ~Full /\ stage' = "permit" /\ UNCHANGED <<replies, request>>
     \/ WriterAborted /\ Answer("error")
  /\ UNCHANGED <<call, rpc, cli, drained, failed, links, srv, queue, process>>

(* Mutant: the cache is one id too small. *)
RememberTooFew(w) ==
  order' = IF Len(order) >= Cap - 1 THEN Tail(Append(order, w)) ELSE Append(order, w)

(* AcceptedStdinWriteIds::remember *)
Remember(w) ==
  order' = IF Len(order) >= Cap THEN Append(Tail(order), w) ELSE Append(order, w)

(* Mutant: the write is acknowledged but the permit is not used. *)
CommitUnsent ==
  /\ stage = "permit"
  /\ Remember(request)
  /\ Answer("accepted")
  /\ UNCHANGED <<call, rpc, cli, drained, failed, links, srv, queue, stdin, child, written, taken>>

(* With the permit: look again, then send and remember without an await. *)
Commit ==
  /\ stage = "permit"
  /\ IF Accepted(request)
     THEN UNCHANGED <<written, order>>
     ELSE written' = Append(written, request) /\ Remember(request)
  /\ Answer("accepted")
  /\ UNCHANGED <<call, rpc, cli, drained, failed, links, srv, queue, stdin, child, taken>>

(* Mutant: a lost connection does not end the handler. *)
ServerCloseKeeping ==
  /\ srv
  /\ srv' = FALSE /\ queue' = <<>>
  /\ UNCHANGED <<client, request, stage, process>>

(* The server sees that the link is gone: the select drops the handler at its
   await, and run_connection ends. *)
ServerClose ==
  /\ srv
  /\ srv' = FALSE /\ queue' = <<>>
  /\ request' = None /\ stage' = "idle"
  /\ UNCHANGED <<client, process>>

-----------------------------------------------------------------------------
(* The writer task passes a chunk on to the child, which may never read; one
   for a child that has exited it may throw away. *)
ChildReads ==
  /\ ~WriterAborted /\ taken < Len(written)
  /\ taken' = taken + 1
  /\ UNCHANGED <<client, server, stdin, child, order, written>>

(* The child exits by itself, and watch_exit records it. *)
ChildExits ==
  /\ child = "alive"
  /\ child' = "exited"
  /\ UNCHANGED <<client, server, stdin, order, written, taken>>

(* A process that has ended is closed and leaves the table (LocalProcess). *)
Forgotten ==
  /\ child \in {"exited", "killed"}
  /\ child' = "gone"
  /\ UNCHANGED <<client, server, stdin, order, written, taken>>

Client == \/ Receive \/ ClientClose \/ Drained \/ Reconnect \/ Fail
          \/ \E w \in Calls : GetClient(w) \/ Send(w)
Server == Take \/ DoTerminate \/ CheckWrite \/ Reserve \/ Commit \/ ServerClose

Next == Client \/ Server \/ ChildReads \/ ChildExits \/ Forgotten

(* tokio runs what is ready, each end notices that the other is gone, and a
   recovery ends.  The child need not read its input or exit, and links need
   not break. *)
Progress ==
  \/ Receive \/ Drained \/ Reconnect \/ Fail
  \/ \E w \in Calls : (call[w] # "idle" /\ GetClient(w)) \/ Send(w)
  \/ Take \/ DoTerminate \/ CheckWrite \/ (~Stuck /\ Reserve) \/ Commit
  \/ ~cli /\ ServerClose
  \/ ~srv /\ ClientClose

Spec == Init /\ [][Next]_vars
FairSpec == Spec /\ WF_vars(Progress)

-----------------------------------------------------------------------------
Outcomes == {"accepted", "stdinClosed", "unknown", "error", "done"}
Reply == [of : Calls, is : Outcomes]

(* Every variable has its type, and a stage belongs to a request. *)
TypeOK ==
  /\ call \in [Calls -> {"idle", "retry", "ready", "sent"} \cup Outcomes]
  /\ links \in Nat /\ rpc \in [Calls -> Nat]
  /\ cli \in BOOLEAN /\ drained \in BOOLEAN /\ failed \in BOOLEAN
  /\ replies \in Seq(Reply)
  /\ srv \in BOOLEAN /\ queue \in Seq(Calls) /\ request \in Calls \cup {None}
  /\ stage \in {"idle", "check", "reserve", "permit"}
  /\ stdin \in {"none", "pipe", "tty"} /\ child \in {"alive", "exited", "killed", "gone"}
  /\ order \in Seq(Writes) /\ written \in Seq(Writes) /\ taken \in 0..Len(written)
  /\ request = None <=> stage = "idle"
  /\ stage \in {"reserve", "permit"} => request \in Writes
  /\ ~srv => request = None

(* The child gets the bytes of a write twice only if at least Cap other
   writes were accepted in between: whatever is retried, cancelled or
   answered too late, the cache fails at its bound and nowhere else. *)
DuplicateOnlyBeyondCap ==
  \A i, j \in 1..Len(written) : i < j /\ written[i] = written[j] => j - i > Cap

(* The bytes of the write were handed to the child's stdin queue. *)
Written(w) == \E i \in 1..Len(written) : written[i] = w

(* The caller is told "accepted" only if the bytes were handed to the child's
   stdin queue: no cancelled handler leaves an id behind without its bytes. *)
AcceptedMeansDelivered ==
  \A w \in Writes : call[w] = "accepted" => Written(w)

(* Every write returns, with an answer or an error, and a terminate that is on
   its way ends the child or its caller is told that the link is lost, however
   links break and whenever a call takes its RpcClient, registers, is drained
   and tries again: nothing is left in a pending map that nobody will drain.
   One thing holds a request up for ever: a write that is stuck, because nobody
   reads what the child was sent.  run_connection does not come to the requests
   behind it, a terminate that would free it included. *)
RequestsReturn ==
  \/ /\ \A w \in Writes : call[w] # "idle" ~> call[w] \in Outcomes
     /\ call[Terminate] = "sent" ~> (child # "alive" \/ call[Terminate] = "error")
  \/ <>[]Stuck
=============================================================================
