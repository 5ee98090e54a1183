# TLA+ models of agentx

agentx is a workspace of Rust crates around a coding agent. This directory models
the parts whose correctness depends on concurrency and failure:

* the **remote executor** (`src/crates/exec-server`), in which a client runs processes
  on another machine over a websocket that may break at any moment;
* **remote control** (`src/crates/app-server-transport`), through which clients reach
  the app server by way of a backend, over a websocket that the server opens;
* **token refresh** (`src/crates/login`), where several processes share one `auth.json`.

Each module is written from the source; `PROJECT.json` gives the source lines of every
definition.

Contents: 1 inventory - 2 modules and their correspondence to the code - 3 runs -
4 fairness - 5 proofs - 6 disagreements found - 7 what is not modelled - 8 plan.

## 1. Inventory

### The remote executor (`crates/exec-server`)

```
 Session / ExecServerClient            connection             ConnectionProcessor
  ordered publisher   <---- notifications, answers ----   ExecServerHandler
  RpcClient           ----- requests ------------------>  SessionRegistry
  recovery task                                           LocalProcess (per session)
                                                             child, 3 tasks each
```

| Part | State | Operations | What makes it correct |
|---|---|---|---|
| process table, `local_process.rs` | id -> Starting(token) or Running(entry); per entry: next_seq, retained output, exit code, open_streams, closed, accepted write ids | start, read, write, signal, terminate, shutdown; tasks stream_output (2), watch_exit; retention timer | no child without an owner; closed once, last, after exit and both streams; an id is never shared by two processes |
| session registry, `server/session_registry.rs` | id -> session with its current connection or its detach deadline | attach (create or resume), detach, expire | a served connection keeps its session; a detached one lives for its grace period and then goes, with its processes |
| connection, `server/handler.rs`, `server/processor.rs` | session handle, initialize flags, body-stream ids | initialize, initialized, every request in turn, shutdown | requests only on an initialized, attached connection; the handler is dropped when the connection is lost |
| client sessions, `client.rs` | routed sessions; per session published events, pending events, failure | start, write, read, terminate, subscribe; publish_ordered_event | events in the server's order, each once; an end is final |
| recovery, `client_recovery.rs` | Connected, Recovering or Failed; attempts and deadline | request_recovery, resume_once, recover_events, fail | nothing lost between read and live events; catches up or fails |
| JSON-RPC, `rpc.rs` | pending calls, closed flag, event queue | call, notify, reader, drain_pending | every call is completed exactly once |
| long poll and event log, `local_process.rs`, `process.rs` | Notify, bounded history | exec_read with wait_ms, subscribe | no lost wake-up; replay without gap |
| streamed HTTP bodies, `client/http_response_body_stream.rs`, `server/handler.rs` | reserved request ids, routes, sequence numbers, failures | http/request, body deltas | deltas in order; an end or a failure reaches the reader |
| lazy client, `client.rs`, `environment.rs` | shared first connection, reconnect | get | one connection at a time; terminal failures remembered |
| file reads, `file_read.rs` | open handles per connection | open, readBlock, close | handle limit; handles die with their connection |
| transports, `connection.rs` | 128-message channels, ping timer | framing, backpressure, disconnect signal | a disconnect comes after the messages before it |
| environments, `remote.rs`, `environment*.rs` | registry of configured environments | registration, configuration | I/O and conversion |

Interactions. The processor handles the requests of one connection one at a time and
selects each against the disconnect, so a handler's future may be dropped at any
await. A session's `LocalProcess` outlives its connection; its notification sender is
swapped by attach and detach. The three tasks of a process number their events under
the process lock and notify after releasing it. The client's reader passes
notifications to the ordered publisher and, at the end of a connection, asks for
recovery; recovery opens a new connection, resumes the session and reads what was
missed.

Hard behaviours: cancellation at awaits, timers that wake after the state they were
made for has changed, notifications reordered between tasks, lost answers and retries,
a connection that breaks during recovery, bounded caches and queues. The
`hazards` list of `PROJECT.json` has each of them at its line.

### Remote control (`crates/app-server-transport/src/transport/remote_control`)

```
 clients -- backend ==== websocket ==== reader --> ClientTracker --> app server
                                        writer <-- server events <-- outbound tasks
                        handle: enable, disable, pairing -- lease -- websocket loop
```

| Part | State | Operations | What makes it correct |
|---|---|---|---|
| reader and reassembler, `websocket.rs`, `segment.rs` | subscribe cursor, completed segment numbers, one assembly per client | read, observe, record, invalidate | nothing the cursor has passed is lost; nothing is delivered twice |
| client tracker, `client_tracker.rs` | (client, stream) -> connection, last number, outbound task | handle_message, close, idle sweep, join, shutdown | every connection announced is closed, once, and closes its own |
| writer, `websocket.rs`, `segment.rs` | next numbers, buffer of unacknowledged envelopes and its count | take, split, send, ack, replay | a gapless ordered stream per client; the buffer never blocks for good |
| desired state and pairing, `mod.rs`, `desired_state.rs` | unknown, disabled or enabled; rpc and persistence locks | enable, disable, resolve, start_pairing, pairing_status | a disable wins over whatever is under way |
| enrollment, `enroll.rs`, `auth.rs`, `websocket.rs` | the selected server, behind a lease | enroll, refresh, replace, clear token | one server per account, used by pairing and websocket alike |

A new websocket asks the backend for the envelopes after the cursor and sends the whole
buffer again, so both directions see duplicates. The reader may be aborted at any await
when a websocket ends; sends to the app server's bounded queue time out, closing events
are sent by tasks of their own. The account may change during any request.

### Credentials (`crates/login/src/auth`)

`AuthManager` caches the contents of `auth.json`, records a permanent refresh failure,
and has a refresh lock; `UnauthorizedRecovery` reloads and then refreshes after a 401.
Operations: refresh_token, recovery, logout, save after a login. Correct when a rotating
refresh token is presented once, a failure does not outlive the credentials it is about,
and a refresh stays with its account. Hard: requests that overlap with reloads, logouts
and logins of this and of other processes, which only the file connects; saving truncates
before it writes.

### The other crates

| Crate | What it is | Here |
|---|---|---|
| `app-server-transport` | local transports of the app server (stdio, unix socket, websocket) | framing; remote control is above |
| `login`, `agent-identity` | OAuth pages, device codes, keyring; keys | pages, cryptography and HTTP are out of reach; the refresh is above |
| `agentx-api`, `agentx-client` | model API: SSE, websockets, retries | sequential per request, not modelled |
| `app-server-protocol`, `protocol` | message types, generated schemas, `thread_history.rs` | types have no behaviour; the history is a sequential fold |
| `sandboxing`, `bwrap`, `arg0`, `shell-command` | policies and command lines | sequential conversion without state |
| `cli` | argument parsing | not modelled |
| `utils/pty` | child processes | as the executor uses it: terminate, drop, exit channel, stdin queue, the readers and writers of pipes and terminals |
| `utils/*`, `async-utils`, `file-system` | paths, traits | no state |

## 2. Modules

| Module | Role |
|---|---|
| `EventStream` | abstract: what a subscriber is promised |
| `EventDelivery` | server tasks, connections, client and recovery; implements `EventStream` |
| `SessionRegistry` | registry, connection handlers, timers |
| `LocalProcess` | process table of a session |
| `StdinWrite` | retried writes, the pending calls of a link, the cache of accepted ids, head-of-line blocking |
| `RemoteClients` | remote control, inbound: reader, reassembler, client tracker |
| `MCRemoteClients` | which client sends what, for TLC |
| `ReliableStream` | abstract: a gapless ordered stream per client |
| `RemoteOutbound` | remote control, outbound; implements `ReliableStream` |
| `RemoteEnrollment` | remote control: desired state, pairing, websocket loop, their locks |
| `TokenRefresh` | `AuthManager`s of several processes on one `auth.json` |
| `MCTokenRefresh` | which call each task makes, for TLC |
| `*Proofs` | theorems about the module of that name |

The modules overlap at named seams. `EventDelivery` takes one process of one session:
its `Attach`, `Refuse`, `Expire` and `ServerClose` are the registry's transitions seen
from that session, whose own races are `SessionRegistry`. In `SessionRegistry` the
processes of a session are one bit (`procs`), which `LocalProcess` expands.
`LocalProcess` reduces a notification to a busy task, which `EventDelivery` expands;
`StdinWrite` uses the result of `SessionRegistry` that a session is on at most one
connection. `RemoteClients` and `RemoteOutbound` are the two directions of one websocket,
which share no state but the outbound task; the websocket that `RemoteEnrollment` calls
"up" is the one they run on. The `account` of `RemoteEnrollment` is what `TokenRefresh`
caches.

### EventDelivery

An event is its kind (the stream of a chunk, `exited`, `closed`); its number is its
position in `log`, so `next_seq` is `Len(log) + 1`. `floor` says which output chunks
the bounded retention has evicted: chunk sizes are abstract, so any older prefix may be
evicted whenever a chunk is added.

| Code | Model |
|---|---|
| `stream_output`, `finish_output_stream` | `OutputChunk`, `FinishStream` |
| `watch_exit`, `maybe_emit_closed`, retention task | `ChildExit`, `MaybeEmitClosed`, `RemoveClosedEntry` |
| `notification_sender` then `notify().await` | `PickSender`, `SendNote`: two steps, between which the session may be detached or resumed |
| `publish_ordered_event`, `publish_ready`, `set_failure` | `PublishOrdered`, `PublishReady`, `SetFailure` |
| reader task | `Receive`, `Disconnected`, `HandlerError`, `ReaderGone` |
| `request_recovery`, `recover`, `resume_once` | `RequestRecovery`, `Connect`, `RetryLater`, `Refuse`, `Attach`, `AskMissing`, `AnswerRead`, `RecoverEvents`, `ReadError`, `GiveUpProcess`, `Install`, `RecoveryFails`, `FailSessions` |
| `recover_events` | `Target`, `WithChunks`, `WithClosed`, `Conflict`, `ExitKnown`, `Missing`, `InferExit`, `Refused`, `Recovered` |

The two ends of a connection break independently (`ServerClose`, `ClientClose`), each
before the other knows; what was queued loses any suffix. A server may accept an
initialize that the client has given up.

### SessionRegistry

Time is counted in ticks: `left` to the deadline of a detached session, `sleep` to the
end of a timer's sleep; both run down together. `phase` is where the `run_connection`
of a connection is; `reaping` is the await in `attach` that shuts an expired session
down, where `CancelReap` drops the future. A start is two steps, `Exec` (the handler's check) and
`StartProcess`: the await of the handler is between them, and `CancelExec` drops the future
there. Rejected calls (resuming an attached or unknown session, a second initialize, a request
before initialized) change nothing and are no actions.

### LocalProcess

A start is identified with its token and with the process it makes, so
`table[i] = n` is both "the entry is n's token" and "the entry is n's process",
depending on `pc[n]`. Events carry the start whose task made them, which lets
`OwnEventsOnly` see a mix-up although tasks look their entry up by id, as the code does.
`DropStart` is the loss of the caller while start_process waits for the lock.

`Ptys` are the starts that ask for a terminal. Their stderr is empty, and their output is read
by a blocking task: aborting it does nothing, so a terminate ends the streams of a pipe
(`ReaderEnds`) but not that of a terminal, which stays open as long as anybody holds the slave,
a job in a process group of its own included. `TerminatedIsForgotten` promises the end of a
process with a terminal only once nobody holds it (`TerminalHeld`).

### StdinWrite

`stage` follows `exec_write` from the lookup through `reserve().await` to the commit
under the lock. `ServerClose` drops the handler wherever it is. The child's queue holds
`Len(written) - taken` chunks.

On the client, `GetClient` takes the RpcClient of the connected link and `Send` registers with
it, after looking under the lock of the pending calls whether that link has ended; `Drained` is
the one drain of a link, at the end of its reader. Between the two steps the link may end, and
another one may come. `stdin` says what the process was started with: without any, writes are
answered `stdinClosed`; a pipe's writer task ends when it is aborted, one of a terminal may be
inside a blocking write. The answer `Starting` is never given: a Session exists only once its
start was answered.

### RemoteClients

The backend's `log` holds the envelopes of all clients in the order it numbered them; a
websocket delivers it from `cursor + 1`. The log is chosen when it is first read, which
gives the same behaviours as choosing it in advance. A message in segments has two.
`at` is where the reader waits: `handle_message` is cut at its sends to the transport
event queue and at the joins of closing tasks, and nowhere else.

| Code | Model |
|---|---|
| `observe_client_message`, `ClientSegmentReassembler::observe` | `Forwarded`, `Observe`, `should_ignore_chunk`; the table of assemblies is read and changed by `Assembly`, `StreamAssembly`, `Without`, `Removed`, `NewAssembly`, `WithAssembly` |
| `handle_message` | `ReadInit`, `ReadMessage`, `ReadPing`, `ReadClosed`, then `Reopen`, `Open`, `SendInit`, `SendIncoming`, `Closed` |
| `record_client_message_delivery`, then the invalidation of a closed stream | `Record`, `Forget`: the lock is taken twice |
| `bookkeep_join_set` and the two invalidations after it | `Collect`, then `InvalidateSegments`, `InvalidateCompleted` |
| `close_expired_clients` and its invalidation | `Sweep`, then `Invalidate` |
| `remove_client`, `spawn_connection_closed` | `CloseClient`, `ForwardClosed` |
| send timeout, abort of the workers, shutdown | `TimeOut`, `Stopped`, `ShutdownClient`, `ShutdownNext`, `ShutdownDone` |

### RemoteOutbound

An envelope is its number and segment. The event's size is abstract: it is split into any
number of segments; into none, when it is dropped and its number with it; or the split fails
and the event is lost without using up a number (`SplitFails`). The client is
external: it takes what is beyond what it has and acknowledges anything it has taken, late
or repeatedly. `Retain` keeps what an acknowledgement does not cover (`Unacked`).

### RemoteEnrollment

Every call of the handle and the loop is an actor with a place (`at`), the account it goes
by, and the enrollment in its hand. Locks are held from a place to a place; `Leave` is the
drop of all guards, at the end of a call or where the loop's select drops an attempt. The
database of this build is a stub that keeps nothing (`stubs.rs`), so a preference is never
found and its calls appear only as awaits that may fail. `asked` counts pairing requests
that came back; `again` is the one retry after the credentials were recovered.

### TokenRefresh

Credentials are an account id, the account that the tokens were really issued for, and the
numbers of the two tokens. Reading the file and installing what was read are two steps, and
so are the truncation and the write of a save; a file deleted in between takes the bytes
with it (`linked`). The authority rotates refresh tokens or not, and its answer may be
lost; it may refuse any token, as it does with expired and revoked ones. A recovery whose
second step failed may be asked for that step again (`Fails`). A save may fail, or its process
die, before the file is opened or after it was truncated (`SaveFails`). `mishap` is a
history variable: something happened that excuses presenting a token again. One of these things is a save begun while another writer has the file open: the
later write of the two may put rotated tokens back. The instance of the run is too small to
reach that; it was met in the proof, which is about any calls and processes.

## 3. Runs

| Run | Instance | Shows |
|---|---|---|
| `events_reorder` | 1 stream, 2 chunks, 2 connections | order, no silent loss, no lost disconnect, gaps only after eviction, end is final, refinement of `EventStream` |
| `events_liveness` | exit and close only, 3 connections | the subscriber catches up or is told |
| `session_registry` | 3 connections, 2 sessions, TTL 1 | no eviction, senders, grace period, sessions end |
| `local_process` | 1 id, 2 starts, one with a terminal, 2 streams, 1 chunk each | owners, events, closing, timers, forgetting |
| `stdin_write` | 2 writes and a terminate, cache 1, queue 1, 2 links | duplicates only beyond the cache, no false accept; writes return and a terminate is obeyed, unless a write is stuck for ever |
| `remote_clients` | 2 clients, 3 streams, 4 envelopes, 2 connections, 1 break | order without duplicates, no leaked connection, no loss up to the cursor, shutdown ends |
| `remote_outbound` | 2 streams, 2 events each in up to 2 segments, buffer 2, 2 breaks | the count of the buffer, refinement of `ReliableStream`, everything arrives |
| `token_refresh` | 2 processes; refresh, recovery, logout, refresh, login; 3 tokens | one refresh at a time, failures about the cache, reuse only after a mishap |
| `remote_enrollment` | one call at a time of any kind, any number of them, and the loop; 2 accounts, 3 servers, 1 change of account | lock order, no needless server, nothing selected while disabled, a disable is obeyed |
| `session_leak`, `task_end_closes`, `refresh_account` | see 6 | a violated expectation each |

Why the bounds are enough. Reordering needs two tasks of a process, a stream and the
exit (the theorems about order hold for any number of streams). A recovery race needs the old
and the new connection; a third one lets a candidate die and a second recovery follow. An inferred exit is wrong only if
another number is missing too, which one evicted chunk among two gives. A stale timer
needs a session detached, resumed and detached again: two connections on one session,
and a third that competes. Reuse of an id needs two starts of it. Two writes are as many
as a cache of one needs for a duplicate beyond its bound, and a cache one id too small gives
one within it; the theorem is about any cache and any writes. A call that registers too late needs one link that ends
between its two steps, and a write that is stuck a queue of one that another write has filled.

Redelivery needs one break between handling and recording; four envelopes are an
initialize, two segments and a message after them, or an initialize, a close and a second
initialize. `Sends` gives each stream the kinds that matter for it: one with a whole life,
one of a client that initialized with an earlier server process and sends bad segments, a
legacy client, and a second client whose segments compete for the table of assemblies. A
buffer of two and messages of two segments make the buffer overfull, partly acknowledged
and replayed. Three tokens are the first, one rotation and one more; two processes make
the file change behind a cache. One enrollment lost, replaced and lost again takes three
servers. With two concurrent calls in addition to the loop, `remote_enrollment` takes more
time than it is given; `LocksInOrder`, `NoNeedlessEnrollment` and `AdoptedOnlyWhenEnabled`
are proved for any number of them. The mutants of `PROJECT.json` show for every
property that a plausible slip in the code it depends on is caught in these instances.

Deadlock is checked in `remote_clients` and `token_refresh`: there it says that a
shutdown, and every refresh, comes to an end. In `remote_enrollment` a call can always be
made, so that a circle of waits would be no deadlock of the whole: `LocksInOrder` excludes
it. The other systems use up a finite number of connections, starts, calls or events and
have then stopped as they should; that nobody waits for ever is stated by their liveness
properties. No run uses symmetry.

## 4. Fairness

Each fair specification has a weak fairness condition on the disjunction `Progress` of
the steps that do not stay away for ever, and only one, but for `SessionRegistry`, where a
start under way ends in its own time (other connections may go on for ever meanwhile). It is
weaker than fairness of every task on its own, which tokio's scheduling would justify. It
contains: steps of
ready tasks; answers by a server that is up; one end of a connection noticing that the
other is gone (TCP and websocket pings, `connection.rs`); timers; the end of a recovery
(`SESSION_RECOVERY_TIMEOUT`). It does not contain anything the environment may
withhold: the child writing, reading, exiting or closing its streams, a connection
breaking, a client calling. In `LocalProcess` a stream ends by itself only where a terminate
ends its reader (`ReaderEnds`): not with a terminal. In `StdinWrite` the first step of a call is
not fair, but a call that has begun goes on and a write that failed is retried, as
`Session::write` loops; a wait for room is fair unless it is `Stuck`. In `SessionRegistry`
dropping a lost handler's future is not fair by itself, because the select may as well
complete it.

`RemoteOutbound` assumes that the writer's task runs and reconnects, and of each client
that it reads what arrives and acknowledges the last envelope it has: without
acknowledgements the full buffer stops the writer by design. Breaks are finite in number.
`RemoteEnrollment` assumes that the loop's task runs, its requests have timeouts
(`REMOTE_CONTROL_*_TIMEOUT`) and its selects see a change of the desired state; it assumes
nothing of the calls, which may hold the lease for ever, nor that a websocket breaks.

## 5. Proofs

Every theorem is `Spec => ...` for all values of the constants, under the assumptions
named in the modules: the sentinels `None` and `Torn` are not members of the sets, `Streams`
is finite and disjoint from the names of the other events, bounds are natural numbers, and a
capacity is not 0. `RemoteClients` assumes in addition that names made up for legacy streams
are not names of streams, and that a client without a stream name sends no segments (the
code drops such an envelope, `segment.rs` line 72).

| Module | Theorems | Inductive invariant |
|---|---|---|
| `EventDeliveryProofs` | `TypeCorrect`, `InOrderDelivery`, `EndIsFinal`, `Refinement`, `DisconnectsAreNoticed`, `GapsComeFromEviction`, `NothingSlipsBetween` | `IInv`; with it `Readers`, `GapInv`, and `Greeted`, `Complete` |
| `SessionRegistryProofs` | `RegistryTypeCorrect`, `NoEviction`, `NotificationsFollow`, `NoStartAfterShutdown`, `GracePeriod` | types, `NeverEvicted`, `SenderFollowsAttachment`, `ShutdownIsFinal` with `Owned`, `Gone`, `Fresh` |
| `LocalProcessProofs` | `TableTypeCorrect`, `NoOrphans`, `NoMixup`, `CloseIsLast`, `NoStaleEntry`, `RetentionTimers` | the six invariants with `Drained`, `Idle`, `Attached`, `Counted`, `ExitRecorded`, `Finished`, `Timers` |
| `StdinWriteProofs` | `WriteTypeCorrect`, `NearlyOnce`, `NoFalseAccept` | types, `DuplicateOnlyBeyondCap`, `CacheIsSuffix`, `AnswersAreTrue` |
| `RemoteClientsProofs` | `NoLeak`, `Lifecycle`, `OrderOfConnections`, `Types`, `CursorLosesNothing` | `JInv` (places, log, types), `OInv` (order), `SInv` (segments), `RInv` (what was sent) |
| `RemoteOutboundProofs` | `OutboundImplementsReliableStream`, `BufferIsAccounted`, `NothingUnacceptedLeavesBuffer` | `TypeOK`, `Slices`, `Counted` |
| `TokenRefreshProofs` | `TypeCorrect`, `MutualExclusion`, `FailureScoped`, `RotatedTokensStayGone` | `TypeOK`, `Known`, `Placed`, and the two invariants; with it `Writers`, `NewTokens`, `NoReuse` |
| `RemoteEnrollmentProofs` | `TypeCorrect`, `LockOrder`, `OneServer`, `SelectedWhenEnabled` | `TypeOK`, `Places`, `Held`, `InHand`, `Needed` |

*EventDelivery.* That the subscriber sees a prefix of the log is not inductive: a
wrong event could sit in `pending`, in a queue or in a read response. The invariant says
that each of these agrees with the log (`Agrees(pending)`, `NotesAgree`, `RespAgrees`,
and `TasksAgree` for an event about to be sent), and that `closed` ends the log
(`ClosedIsLast`), which places a recovered close. The step that needs thought is the
inferred exit: when every number up to the target but one is known and none of them is
the exit, the missing number must be the exit's, because the response says there was
one. `Refinement` maps `view` to `published` and `over` to `failure # "none"`; each
action emits, reveals, fails or stutters.

Three more invariants rest on this one. `NoLostDisconnect` has to be carried through a
recovery, where the candidate becomes the installed connection: `Readers` says the same of
the candidate. For `GapOnlyAfterEviction`, the read asks from no later than the last
published event (`AskedLow`), so the response holds every chunk that is missing and was not
evicted, and knows of an exit and a close below its `next` (`RespComplete`); as there is one
exit (`ExitOnce`), all that can then be missing is evicted output. `NoSilentLoss` is about the
installed connection only; `Complete` says of a candidate what will be needed when it is
installed: once the response has been made, everything from its `next` on is pending, queued
on the candidate, or in the hand of a task that will send there, and once it has been applied
so is everything unpublished. `Greeted` gives where this begins, the handling of initialize.

*SessionRegistry.* `NeverEvicted` needs to know that a session that has somebody
attached is served by that connection (`Owned`), that a removed one has nobody attached
and that timers and reapers only hold removed ones (`Gone`), and that ids not yet
created have left no trace (`Fresh`).

*LocalProcess.* Tasks find their process by id, so `OwnEventsOnly` rests on the id
not being free while a task can still publish. `open_streams` counts exactly the streams
whose task has not ended (`Counted`, an argument about cardinalities), closing waits for
all of them and for the exit (`Finished`, `ExitRecorded`), and only closing or a shutdown
lets the entry of a running process go (`Attached`, `Drained`, `Timers`).

*StdinWrite.* The cache is the last `Cap` elements of everything written, or all of it
(`CacheIsSuffix`); a write that is not in it was therefore last written more than `Cap`
positions ago. `AnswersAreTrue` follows an answer from the handler to the caller.

*RemoteClients.* `NoLeakedConnection` needs more than its three cases: that the
connection of a client in the table is that client's, has been announced and is not being
closed (`Owned`), and what the reader has in hand at each place, above all that a connection
about to be announced has no events and no entry yet (`AtHand`).

The other theorems are about the log too. In it the numbers of a stream increase, the two
segments of a message stand side by side in their stream, and a message is open only at the
end (`LogInv`). What the reader has passed and not recorded, or has met on an earlier
websocket, are segments, the last envelope of the log aside (`Recorded`): so what is sent
again, other than segments, is one envelope. `ConnectionOrder` then follows from the number
in the table being that of the last message sent (`Latest`), with one exception that the
code has: a legacy client's initialize leaves no number, and is safe because it was recorded.

For `NoLossUpToCursor`, an assembly in the table has seen the first segment of its message and
its second segment is still ahead of the reader (`Assembled`). A message whose segments follow
each other is then followed from place to place: its first segment, just read, is in the
table (`Kept`); its second is never passed over by the number in the table nor by a newer
assembly (`Passed`); what is about to be recorded has been sent (`Handed`); what was recorded
has been sent (`Reached`). A break sends the reader back to `cursor + 1`, where all of this
holds again.

*RemoteOutbound.* Everything is compared by its position in `numbered[k]`, all that was ever
numbered for a stream: what the client has is a prefix, the buffer is an end of it that
begins no later than that prefix stops, and so is what is in flight with what is yet to be
sent (`Slices`). Cursors increase with positions, so that the comparisons of cursors in the
client and in `ack` find positions. The refinement maps `sent` to `numbered` and `received` to
`accepted`. That the count agrees with the buffers (`Counted`) is an argument
about the cardinality of the set of buffered envelopes.

*TokenRefresh.* `Known`: a call that asks the authority has credentials, one that
persists has an answer. The lock's holder is determined by the places of the calls, so
mutual exclusion is one equivalence. A failure is recorded only for credentials that are
cached, and cleared with them. For `ReuseOnlyAfterMishap`: a new refresh token is seen by
nobody but the call that got it until it is saved (`NewTokens`), so what is saved was never
spent; and as long as there was no mishap, a process that has spent a token that is still in
the file, in an open save or in its cache is in the middle of saving or loading the new one,
with the refresh lock held (`NoReuse`).

*RemoteEnrollment.* `Held` ties each lock to the places where it is held. As only the
holder of the lease changes the selected server, what an actor has in hand stays the
selected server while it uses it (`InHand`), and its reason to enroll another one stays
good until it does (`Needed`): it found none for its account, or the backend has
forgotten it, which is never undone. The loop gives the lease up before it dials; that is
why its replacement has to compare (`Same`) again.

**Model-checked only.** Liveness (`CatchesUp`, `DetachedSessionEnds`,
`TerminatedIsForgotten`, `RequestsReturn`, `EverythingArrives`,
`DisabledIsObeyed`), because
liveness under fairness is out of the prover's reach, and the absence of deadlock, which is
about `ENABLED`. Every safety property of a passing run is proved.

## 6. Disagreements between the code and its documentation

* `session_leak`. `attach` removes an expired session under the lock and then awaits
  the shutdown of its processes in the future of the initialize request. If that
  connection is lost at the await, `run_connection` drops the future; the detach timer
  finds the session gone. The processes keep running, although the README of
  exec-server says that the server terminates them.
* `task_end_closes`. The reader collects an ended outbound task and closes the client by
  its key (`websocket.rs`, line 1118). A client that initializes a second time on the same
  stream has cancelled the old task and got a new connection under that key; collecting the
  old task closes the new connection.
* `refresh_account`. The doc of `refresh_token` says that auth is reloaded only when the
  account id matches. After the authority's answer, `persist_tokens` merges the tokens into
  whatever `auth.json` holds and `refresh_and_persist_chatgpt_token` reloads without the
  guard: a login as another account while the request is out makes the process take over
  that account, with the first one's tokens in its file.

Without a run: the README of exec-server (lines 60-61) says that an unknown notification is
answered with an error of id -1; `server/processor.rs` (lines 130-138) closes the
connection. `LeaveLoop` models the code. The same README (line 272) says that
`process/closed` comes after "the process handle is removed"; the entry stays for
`EXITED_PROCESS_RETENTION` (`MaybeEmitClosed`, `Cleanup`). It also says (line 206) that
`process/terminate` terminates a running process. The requests of a connection are handled one
after the other, and a write waits without a timeout for room in the child's stdin queue: a
terminate behind it, which would free it, is never handled while the connection lasts. This is
what `<>[]Stuck` excuses in `RequestsReturn`; without the excuse both halves of it fail in the
instance of `stdin_write`.

Other observations made while modelling:

* Terminals. A process with a terminal that was terminated keeps its entry, and its id, as long
  as a background job holds the terminal.
* Remote control. Ended tasks and idle clients are not dealt with while the websocket is
  down; envelopes of clients that are gone leave the buffer only by acknowledgement.
  Segments of two streams of one client that alternate reset each other's assembly, and
  both messages are lost (`NoLossUpToCursor` asks only for segments that follow each
  other). A durable enable by one account carries over to the next one when a logout in
  between cleared the selected server.
* Credentials. A logout that comes between the read and the truncation of a save is
  undone by it; a file read between the truncation and the write counts as logged out; a
  rotation whose tokens cannot be saved is lost; the refresh lock is one process's, so two
  processes may present one token (`token_refresh` counts these as mishaps).

## 7. Limits of what is modelled

Message contents, framing and serialisation are left out; so are sizes, except for the
bounds named above. `process/read` is modelled without waiting, as the recovery uses it.
`process/signal` and the file system requests are one system call each. Sandboxed
starts differ from others only in how the child is made. A crash of the
executor loses every session: nothing is persisted, so there is nothing to recover. One
session is followed in each of `EventDelivery` and `StdinWrite`: sessions of a client
share its connection and its status, and are otherwise independent.

Remote control is modelled without the published status, `list_clients` and
`revoke_client` (one request each), URLs and headers, the wait for a client name, and
servers orphaned in the backend when an enroll request is dropped. In `RemoteClients` the
app server never drops its end of the queue, and a sweep closes one client at a time; every
message has a number (the code forwards one without a number and never recognises it when it
comes again, so that nothing is promised of it), and an initialize comes in one piece (only
messages above 100 KiB are segmented). The loop adopts a server that was enrolled for an account
that has changed meanwhile, as the code does; no property is about the attempt made with it.
`TokenRefresh` leaves out external auth, API keys, agent identities, the keyring,
credentials from the environment, ephemeral storage and logout_with_revoke.

### Not modelled

* In exec-server: the client's starts in flight, the waiting loop of process/read and the
  event log of local subscribers, streamed HTTP bodies, the backpressure of the transports,
  the lazy client. These have the hazards that
  `PROJECT.json` lists without a property; they are the plan below.
* Everything else, which is most of the repository's lines: type definitions and
  serialisation (`protocol`, `app-server-protocol`), parsing of shell commands and policies
  (`shell-command`, `sandboxing`), command lines, configuration, HTTP requests and file
  system calls. It is sequential conversion or I/O without shared state, where a model would
  repeat the code; tests reach it well.

## 8. Plan

Done, in order of importance: `EventStream` and `EventDelivery`; `SessionRegistry`;
`LocalProcess`; `StdinWrite`; `RemoteClients`; `RemoteOutbound` and `ReliableStream`;
`TokenRefresh`; `RemoteEnrollment`; the proofs named in 5.

Next:

1. `ClientStart`: `start_process`, `cleanup_process_start`, `wait_for_process_starts`
   against a disconnect at every await. No process is left behind that no session owns.
2. `LongPoll` and `EventLog`: lost wake-ups between unlock and `notified()`; a subscriber
   that lags behind the bounded history.
3. `HttpBodyStream`: reserved ids, sequenced deltas, a bounded channel, failures; an
   abstract byte stream it implements.
4. `Backpressure`: channels in both directions served by one task each.
5. `LazyClient`: one shared first connection, reconnects, remembered failures.

Each of these modules comes with its theorems: that no started process is without an owner,
that a subscriber is shown a prefix of the event log or told that it lagged, and that the body
stream implements its abstract byte stream.
