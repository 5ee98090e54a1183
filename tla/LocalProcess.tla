---------------------------- MODULE LocalProcess ----------------------------
(***************************************************************************)
(* The process table of one session (local_process.rs): how processes are  *)
(* started, run, terminated, closed and forgotten, and how a process id    *)
(* becomes free again.                                                     *)
(*                                                                         *)
(* A start reserves its id with a token, spawns the child outside the lock *)
(* and commits only if its token is still there: a terminate, a shutdown   *)
(* or the loss of the caller may come in between.  The tasks of a running  *)
(* process find their entry by process id only, so an id that is reused    *)
(* too early would mix two processes up.                                   *)
(*                                                                         *)
(* How notifications travel is EventDelivery's subject: here a task is     *)
(* just busy with one for a while.  process/read and process/signal change *)
(* nothing in the table; process/write is the subject of StdinWrite.       *)
(***************************************************************************)
EXTENDS Naturals, Sequences, FiniteSets

CONSTANTS Ids,        \* process ids, chosen by the client
          Starts,     \* calls of start_process, and the processes they make
          Ptys,       \* those that ask for a terminal (params.tty)
          None,       \* no entry
          Streams,    \* the output streams of a process
          Stderr,     \* the one that a terminal leaves empty
          MaxOutput   \* bound: output chunks of one process

ASSUME TableAssumption == None \notin Starts \cup Ids
ASSUME PtysAssumption == Ptys \subseteq Starts
ASSUME TasksAssumption == IsFiniteSet(Streams) /\ {"exit", "exited", "closed"} \cap Streams = {}
ASSUME OutputAssumption == MaxOutput \in Nat

Tasks  == Streams \cup {"exit"}
Events == Streams \cup {"exited", "closed"}

VARIABLES
  table,     \* Inner.processes: the start whose entry the id holds
  idOf,      \* the id each start asked for
  pc,        \* where each start_process call is; "running": it was committed
  child,     \* "none", "alive", "dead", or "killed" by ProcessHandle::terminate
  log,       \* the events of each process, and which process's task made them
  open,      \* open_streams
  task,      \* stream_output (two) and watch_exit of each process
  cleanups,  \* retention timers: the id, and the process that closed
  down       \* LocalProcess::shutdown has run

starts == <<idOf, pc>>
vars == <<table, starts, child, log, open, task, cleanups, down>>

Init ==
  /\ table = [i \in Ids |-> None]
  /\ idOf = [n \in Starts |-> None]
  /\ pc = [n \in Starts |-> "unused"]
  /\ child = [n \in Starts |-> "none"]
  /\ log = [n \in Starts |-> <<>>]
  /\ open = [n \in Starts |-> Cardinality(Streams)]
  /\ task = [n \in Starts |-> [t \in Tasks |-> "none"]]
  /\ cleanups = {}
  /\ down = FALSE

Has(n, e) == \E i \in 1..Len(log[n]) : log[n][i].event = e
Exited(n) == Has(n, "exited")
Closed(n) == Has(n, "closed")

(* The id's entry is ProcessEntry::Running; an entry that is not is Starting. *)
Running(i) == table[i] # None /\ pc[table[i]] = "running"

(* Arc::ptr_eq: the entry is still this start's own Starting token. *)
StillReserved(n) == table[idOf[n]] = n

(* ProcessHandle::terminate, also run when the handle is dropped. *)
Kill(S) == child' = [n \in Starts |-> IF n \in S THEN "killed" ELSE child[n]]

-----------------------------------------------------------------------------
(* start_process reserves the id.  No call comes after the shutdown: the
   session is out of the registry by then. *)
Begin(n, i) ==
  /\ pc[n] = "unused" /\ ~down
  /\ table[i] = None
  /\ table' = [table EXCEPT ![i] = n]
  /\ idOf' = [idOf EXCEPT ![n] = i]
  /\ pc' = [pc EXCEPT ![n] = "reserved"]
  /\ UNCHANGED <<child, log, open, task, cleanups, down>>

(* Mutant: a spawn that reports an error leaves the child behind. *)
SpawnHalf(n) ==
  /\ pc[n] = "reserved"
  /\ pc' \in {[pc EXCEPT ![n] = "spawned"], [pc EXCEPT ![n] = "failing"]}
  /\ child' = [child EXCEPT ![n] = "alive"]
  /\ UNCHANGED <<table, idOf, log, open, task, cleanups, down>>

(* The child is spawned without the lock, or cannot be. *)
Spawn(n) ==
  /\ pc[n] = "reserved"
  /\ \/ pc' = [pc EXCEPT ![n] = "spawned"] /\ child' = [child EXCEPT ![n] = "alive"]
     \/ pc' = [pc EXCEPT ![n] = "failing"] /\ UNCHANGED child
  /\ UNCHANGED <<table, idOf, log, open, task, cleanups, down>>

(* Mutant: the error path forgets its Starting entry. *)
SpawnFailedKeepingEntry(n) ==
  /\ pc[n] = "failing"
  /\ pc' = [pc EXCEPT ![n] = "failed"]
  /\ UNCHANGED <<table, idOf, child, log, open, task, cleanups, down>>

(* The error path takes the lock again and removes its own token. *)
SpawnFailed(n) ==
  /\ pc[n] = "failing"
  /\ pc' = [pc EXCEPT ![n] = "failed"]
  /\ table' = IF StillReserved(n) THEN [table EXCEPT ![idOf[n]] = None] ELSE table
  /\ UNCHANGED <<idOf, child, log, open, task, cleanups, down>>

(* The success path takes the lock again: Running, and its three tasks, or
   "start was cancelled" and the child is terminated. *)
Commit(n) ==
  /\ pc[n] = "spawned"
  /\ \/ /\ StillReserved(n)
        /\ table' = [table EXCEPT ![idOf[n]] = n]
        /\ pc' = [pc EXCEPT ![n] = "running"]
        /\ task' = [task EXCEPT ![n] = [t \in Tasks |-> "run"]]
        /\ UNCHANGED child
     \/ /\ ~StillReserved(n)
        /\ pc' = [pc EXCEPT ![n] = "cancelled"]
        /\ Kill({n})
        /\ UNCHANGED <<table, task>>
  /\ UNCHANGED <<idOf, log, open, cleanups, down>>

(* The caller is gone while start_process waits for the lock: the future is
   dropped and with it the child, but not the Starting entry. *)
DropStart(n) ==
  /\ \/ pc[n] = "spawned" /\ Kill({n})
     \/ pc[n] = "failing" /\ UNCHANGED child
  /\ pc' = [pc EXCEPT ![n] = "dropped"]
  /\ UNCHANGED <<table, idOf, log, open, task, cleanups, down>>

(* Mutant: forgets a process that was terminated at once. *)
TerminateForgetting(i) ==
  /\ table[i] # None
  /\ \/ /\ Running(i) /\ ~Exited(table[i]) /\ child[table[i]] # "killed"
        /\ Kill({table[i]})
     \/ /\ ~Running(i)
        /\ UNCHANGED child
  /\ table' = [table EXCEPT ![i] = None]
  /\ UNCHANGED <<starts, log, open, task, cleanups, down>>

(* Mutant: removes a process that has already exited. *)
TerminateDropsExited(i) ==
  /\ table[i] # None
  /\ \/ /\ Running(i) /\ ~Exited(table[i]) /\ child[table[i]] # "killed"
        /\ Kill({table[i]})
        /\ UNCHANGED table
     \/ /\ ~Running(i) \/ Exited(table[i])
        /\ table' = [table EXCEPT ![i] = None]
        /\ UNCHANGED child
  /\ UNCHANGED <<starts, log, open, task, cleanups, down>>

(* terminate_process: kill a running child that has not exited, or cancel a
   start by removing its token. *)
Terminate(i) ==
  /\ table[i] # None
  /\ \/ /\ Running(i) /\ ~Exited(table[i]) /\ child[table[i]] # "killed"
        /\ Kill({table[i]})
        /\ UNCHANGED table
     \/ /\ ~Running(i)
        /\ table' = [table EXCEPT ![i] = None]
        /\ UNCHANGED child
  /\ UNCHANGED <<starts, log, open, task, cleanups, down>>

(* Mutant: drains the table and forgets the children. *)
ShutdownLeaking ==
  /\ ~down /\ down' = TRUE
  /\ table' = [i \in Ids |-> None]
  /\ UNCHANGED <<starts, child, log, open, task, cleanups>>

(* shutdown: drain the table and terminate what runs. *)
Shutdown ==
  /\ ~down /\ down' = TRUE
  /\ table' = [i \in Ids |-> None]
  /\ Kill({table[i] : i \in {j \in Ids : Running(j)}})
  /\ UNCHANGED <<starts, log, open, task, cleanups>>

-----------------------------------------------------------------------------
(* The child exits by itself. *)
ChildDies(n) ==
  /\ child[n] = "alive"
  /\ child' = [child EXCEPT ![n] = "dead"]
  /\ UNCHANGED <<table, starts, log, open, task, cleanups, down>>

(* A task of n adds an event to the process that now has its id. *)
Publish(n, e) ==
  log' = [log EXCEPT ![table[idOf[n]]] = Append(@, [by |-> n, event |-> e])]

Go(n, t, where) == task' = [task EXCEPT ![n][t] = where]

(* stream_output: one chunk, numbered and published under the lock, then its
   notification; or the entry is gone and the loop breaks. *)
OutputChunk(n, t) ==
  /\ task[n][t] = "run" /\ ~(n \in Ptys /\ t = Stderr)
  /\ Cardinality({i \in 1..Len(log[n]) : log[n][i].event \in Streams}) < MaxOutput
  /\ \/ Running(idOf[n]) /\ Publish(n, t) /\ Go(n, t, "notify")
     \/ ~Running(idOf[n]) /\ Go(n, t, "ended") /\ UNCHANGED log
  /\ UNCHANGED <<table, starts, child, open, cleanups, down>>

(* The notification is sent or dropped. *)
Notified(n, t) ==
  /\ task[n][t] = "notify"
  /\ Go(n, t, IF t = "exit" THEN "closing" ELSE "run")
  /\ UNCHANGED <<table, starts, child, log, open, cleanups, down>>

(* Mutant: a stream that ends does not look whether it was the last. *)
FinishStreamOnly(n, t) ==
  /\ task[n][t] \in {"run", "ended"}
  /\ LET m == table[idOf[n]] IN
       \/ /\ Running(idOf[n])
          /\ open' = [open EXCEPT ![m] = IF @ > 0 THEN @ - 1 ELSE 0]
       \/ ~Running(idOf[n]) /\ UNCHANGED open
  /\ Go(n, t, "done")
  /\ UNCHANGED <<table, starts, child, log, cleanups, down>>

(* The stream has ended: finish_output_stream, up to maybe_emit_closed. *)
FinishStream(n, t) ==
  /\ task[n][t] \in {"run", "ended"}
  /\ LET m == table[idOf[n]] IN
       \/ /\ Running(idOf[n])
          /\ open' = [open EXCEPT ![m] = IF @ > 0 THEN @ - 1 ELSE 0]
          /\ Go(n, t, "closing")
       \/ ~Running(idOf[n]) /\ Go(n, t, "done") /\ UNCHANGED open
  /\ UNCHANGED <<table, starts, child, log, cleanups, down>>

(* watch_exit records the exit, if the entry is still there. *)
WatchExit(n) ==
  /\ task[n]["exit"] = "run" /\ child[n] \in {"dead", "killed"}
  /\ \/ Running(idOf[n]) /\ Publish(n, "exited") /\ Go(n, "exit", "notify")
     \/ ~Running(idOf[n]) /\ Go(n, "exit", "closing") /\ UNCHANGED log
  /\ UNCHANGED <<table, starts, child, open, cleanups, down>>

(* Mutant: does not wait for the output streams. *)
CanCloseEarly(m) == Exited(m) /\ ~Closed(m)

CanClose(m) == open[m] = 0 /\ Exited(m) /\ ~Closed(m)

(* maybe_emit_closed: the last task to come by closes the process and leaves
   a timer behind. *)
MaybeEmitClosed(n, t) ==
  /\ task[n][t] = "closing"
  /\ Go(n, t, "done")
  /\ LET i == idOf[n] IN
       \/ /\ Running(i) /\ CanClose(table[i])
          /\ Publish(n, "closed")
          /\ cleanups' = cleanups \cup {[id |-> i, of |-> table[i]]}
       \/ ~(Running(i) /\ CanClose(table[i])) /\ UNCHANGED <<log, cleanups>>
  /\ UNCHANGED <<table, starts, child, open, down>>

(* EXITED_PROCESS_RETENTION later: a closed entry is removed and dropped. *)
Cleanup(k) ==
  /\ k \in cleanups
  /\ cleanups' = cleanups \ {k}
  /\ \/ /\ Running(k.id) /\ Closed(table[k.id])
        /\ table' = [table EXCEPT ![k.id] = None]
        /\ Kill({table[k.id]})
     \/ ~(Running(k.id) /\ Closed(table[k.id])) /\ UNCHANGED <<table, child>>
  /\ UNCHANGED <<starts, log, open, task, down>>

-----------------------------------------------------------------------------
Call(n) == \/ \E i \in Ids : Begin(n, i)
           \/ Spawn(n) \/ SpawnFailed(n) \/ Commit(n) \/ DropStart(n)

Step(n) == \/ ChildDies(n) \/ WatchExit(n)
           \/ \E t \in Streams : OutputChunk(n, t) \/ FinishStream(n, t)
           \/ \E t \in Tasks : Notified(n, t) \/ MaybeEmitClosed(n, t)

Next == \/ \E n \in Starts : Call(n) \/ Step(n)
        \/ \E i \in Ids : Terminate(i)
        \/ \E k \in cleanups : Cleanup(k)
        \/ Shutdown

(* The stream has to end: ProcessHandle::terminate aborts the readers of
   pipes, and the stderr of a terminal has no sender.  The reader of a
   terminal is spawn_blocking, which an abort does not stop: it reads until
   nobody holds the slave, and a job that has left the child's process group
   may hold it for ever. *)
ReaderEnds(n, t) == IF n \in Ptys THEN t = Stderr ELSE child[n] = "killed"

(* tokio runs every ready task.  A stream whose reader goes on may stay open
   for ever. *)
Progress ==
  \/ \E n \in Starts : \/ WatchExit(n)
                       \/ \E t \in Streams : (ReaderEnds(n, t) \/ task[n][t] = "ended") /\ FinishStream(n, t)
                       \/ \E t \in Tasks : Notified(n, t) \/ MaybeEmitClosed(n, t)
  \/ \E k \in cleanups : Cleanup(k)

Spec == Init /\ [][Next]_vars
FairSpec == Spec /\ WF_vars(Progress)

-----------------------------------------------------------------------------
Pcs == {"unused", "reserved", "spawned", "failing", "failed", "running",
        "cancelled", "dropped"}

(* Every variable has its type; exactly the starts that spawned have a child. *)
TypeOK ==
  /\ table \in [Ids -> Starts \cup {None}]
  /\ idOf \in [Starts -> Ids \cup {None}]
  /\ pc \in [Starts -> Pcs]
  /\ child \in [Starts -> {"none", "alive", "dead", "killed"}]
  /\ log \in [Starts -> Seq([by : Starts, event : Events])]
  /\ open \in [Starts -> Nat]
  /\ task \in [Starts -> [Tasks -> {"none", "run", "notify", "ended", "closing", "done"}]]
  /\ cleanups \subseteq [id : Ids, of : Starts]
  /\ down \in BOOLEAN
  /\ \A n \in Starts :
       /\ pc[n] = "unused" <=> idOf[n] = None
       /\ pc[n] \in {"unused", "reserved", "failing", "failed"} => child[n] = "none"
       /\ pc[n] \in {"spawned", "running", "cancelled"} => child[n] # "none"

(* No child outlives what owns it: a child that is not terminated belongs to
   a start that is still going on, or to the Running entry of its id. *)
NoOrphanChild ==
  \A n \in Starts : child[n] \in {"alive", "dead"} =>
    pc[n] = "spawned" \/ (pc[n] = "running" /\ table[idOf[n]] = n)

(* Output and exit of one process never turn up in another that has the same
   id: the id is not free while a task of the old one can still publish. *)
OwnEventsOnly ==
  \A n \in Starts : \A i \in 1..Len(log[n]) :
    log[n][i].event # "closed" => log[n][i].by = n

(* closed is the last event of a process, after its one exit, and only once
   both of its streams have ended. *)
ClosedIsLast ==
  \A n \in Starts : Closed(n) =>
    /\ \A i \in 1..Len(log[n]) - 1 : log[n][i].event # "closed"
    /\ log[n][Len(log[n])].event = "closed"
    /\ \E i \in 1..Len(log[n]) : /\ log[n][i].event = "exited"
                                /\ \A j \in 1..Len(log[n]) \ {i} : log[n][j].event # "exited"
    /\ \A t \in Streams : task[n][t] \in {"closing", "done"}

(* An id is held by a running process, by a start that is going on, or by one
   whose caller dropped it (terminate frees it): failed and cancelled starts
   hold nothing. *)
HeldForAReason ==
  \A i \in Ids : table[i] # None =>
    /\ idOf[table[i]] = i
    /\ pc[table[i]] \in {"reserved", "spawned", "failing", "running", "dropped"}

(* A retention timer removes the process it was made for and no later one. *)
TimerHitsItsOwn ==
  \A k \in cleanups : ~down => table[k.id] = k.of

(* The terminal of n may still be open. *)
TerminalHeld(n) == n \in Ptys /\ \E t \in Streams \ {Stderr} : task[n][t] \in {"run", "notify"}

(* A terminated process is closed and forgotten in the end, and its id becomes
   free: terminate itself removes nothing, the three tasks and the timer do.
   With a terminal this holds from when nobody has the terminal open any
   more, which the server cannot bring about. *)
TerminatedIsForgotten ==
  \A n \in Starts :
    (pc[n] = "running" /\ child[n] = "killed" /\ ~TerminalHeld(n))
      ~> (\A i \in Ids : table[i] # n)
=============================================================================
