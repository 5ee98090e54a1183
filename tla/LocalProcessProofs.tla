------------------------- MODULE LocalProcessProofs -------------------------
(***************************************************************************)
(* Proofs about the process table, for any number of ids, starts, streams  *)
(* and output chunks.                                                      *)
(*                                                                         *)
(* Why a task never touches another process of its id: a task that can     *)
(* still publish holds its process open (Counted, ExitRecorded), a process *)
(* is forgotten only once it is closed (Timers), and so the entry found by *)
(* id is the task's own (Attached).                                        *)
(***************************************************************************)
EXTENDS LocalProcess, TLAPS, FiniteSetTheorems

(* The stream tasks of n that have not called finish_output_stream yet. *)
Reading(n) == {t \in Streams : task[n][t] \in {"run", "notify", "ended"}}

(* A drained table stays empty. *)
Drained == down => \A i \in Ids : table[i] = None

(* Only a committed start has tasks and events. *)
Idle ==
  \A n \in Starts :
    /\ pc[n] # "running" => /\ \A t \in Tasks : task[n][t] = "none"
                            /\ log[n] = <<>>
                            /\ open[n] = Cardinality(Streams)
    /\ pc[n] = "running" => \A t \in Tasks : task[n][t] # "none"

(* A process whose tasks can still publish holds its id. *)
Attached ==
  \A n \in Starts : ~down /\ pc[n] = "running" /\ (Reading(n) # {} \/ task[n]["exit"] = "run")
                      => table[idOf[n]] = n

(* open_streams counts the streams that have not finished. *)
Counted ==
  \A n \in Starts : ~down /\ pc[n] = "running" => open[n] = Cardinality(Reading(n))

(* The exit is recorded by watch_exit, once. *)
ExitRecorded ==
  \A n \in Starts :
    /\ task[n]["exit"] \in {"none", "run"} => ~Exited(n)
    /\ \A i, j \in 1..Len(log[n]) :
         log[n][i].event = "exited" /\ log[n][j].event = "exited" => i = j

(* What is closed has finished: nobody publishes there any more. *)
Finished ==
  \A n \in Starts :
    /\ Closed(n) => Exited(n) /\ \A t \in Streams : task[n][t] \in {"closing", "done"}
    /\ \A i \in 1..Len(log[n]) : log[n][i].event = "closed" => i = Len(log[n])

(* A retention timer belongs to the closed process that holds its id. *)
Timers ==
  \A k \in cleanups :
    /\ pc[k.of] = "running" /\ idOf[k.of] = k.id /\ Closed(k.of)
    /\ ~down => table[k.id] = k.of

IInv ==
  /\ TypeOK /\ HeldForAReason /\ NoOrphanChild /\ OwnEventsOnly
  /\ Drained /\ Idle /\ Attached /\ Counted /\ ExitRecorded /\ Finished /\ Timers

USE TableAssumption, TasksAssumption

(* The streams of a process that are still read are finitely many. *)
LEMMA ReadingFinite ==
  ASSUME NEW n \in Starts
  PROVE  /\ IsFiniteSet(Reading(n)) /\ Cardinality(Reading(n)) \in Nat
         /\ Cardinality(Reading(n)) = 0 <=> Reading(n) = {}
<1>1. Reading(n) \subseteq Streams
  BY DEF Reading
<1>2. IsFiniteSet(Reading(n))
  BY <1>1, FS_Subset
<1> QED
  BY <1>2, FS_CardinalityType, FS_EmptySet

(* A retention timer names an id and a start. *)
LEMMA TimerTypes == TypeOK => \A k \in cleanups : k.id \in Ids /\ k.of \in Starts
BY DEF TypeOK

(* A committed start has an id. *)
LEMMA CommittedId == TypeOK => \A n \in Starts : pc[n] = "running" => idOf[n] \in Ids
BY DEF TypeOK

(* The initial states. *)
LEMMA InitIInv == Init => IInv
<1> SUFFICES ASSUME Init PROVE IInv
  OBVIOUS
<1>1. Cardinality(Streams) \in Nat
  BY FS_CardinalityType
<1>2. log \in [Starts -> Seq([by : Starts, event : Events])]
  BY DEF Init
<1>3. TypeOK
  BY <1>1, <1>2 DEF Init, TypeOK, Pcs, Tasks
<1>4. \A n \in Starts : ~Exited(n) /\ ~Closed(n)
  BY DEF Init, Exited, Closed, Has
<1> QED
  BY <1>3, <1>4 DEF Init, IInv, HeldForAReason, NoOrphanChild, OwnEventsOnly, Drained, Idle,
     Attached, Counted, ExitRecorded, Finished, Timers, Tasks

(* Steps that leave events, tasks and timers alone keep what is said of them,
   as long as committed starts stay committed and hold their ids. *)
LEMMA CallStep ==
  ASSUME IInv, NEW n \in Starts,
         (\E i \in Ids : Begin(n, i)) \/ Spawn(n) \/ SpawnFailed(n) \/ DropStart(n)
                                      \/ ChildDies(n)
  PROVE  IInv'
<1> USE DEF IInv
<1>1. TypeOK'
  <2>1. ASSUME NEW i \in Ids, Begin(n, i) PROVE TypeOK'
    BY <2>1 DEF TypeOK, Pcs, Begin
  <2>2. CASE Spawn(n)
    BY <2>2 DEF TypeOK, Pcs, Spawn
  <2>3. CASE SpawnFailed(n)
    BY <2>3 DEF TypeOK, Pcs, SpawnFailed
  <2>4. CASE DropStart(n)
    BY <2>4, ZenonT(20) DEF TypeOK, Pcs, DropStart, Kill
  <2>5. CASE ChildDies(n)
    BY <2>5 DEF TypeOK, Pcs, ChildDies, starts
  <2> QED
    BY <2>1, <2>2, <2>3, <2>4, <2>5
<1>2. UNCHANGED <<log, open, task, cleanups, down>>
  BY DEF Begin, Spawn, SpawnFailed, DropStart, ChildDies, starts
<1>3. \A m \in Starts : pc[m] = "running" <=> pc'[m] = "running"
  BY DEF TypeOK, Begin, Spawn, SpawnFailed, DropStart, ChildDies, starts
<1>4. \A m \in Starts : pc[m] = "running" => idOf'[m] = idOf[m]
  BY DEF TypeOK, Begin, Spawn, SpawnFailed, DropStart, ChildDies, starts
<1>5. \A i \in Ids : table[i] # None /\ pc[table[i]] = "running" => table'[i] = table[i]
  <2>1. ASSUME NEW i \in Ids, Begin(n, i)
        PROVE  \A j \in Ids : table[j] # None => table'[j] = table[j]
    BY <2>1 DEF TypeOK, Begin
  <2>2. CASE SpawnFailed(n)
    BY <2>2 DEF TypeOK, SpawnFailed, StillReserved
  <2>3. CASE Spawn(n) \/ DropStart(n) \/ ChildDies(n)
    BY <2>3 DEF Spawn, DropStart, ChildDies
  <2> QED
    BY <2>1, <2>2, <2>3
<1>6. HeldForAReason'
  <2> SUFFICES ASSUME NEW j \in Ids, table'[j] # None
               PROVE  /\ idOf'[table'[j]] = j
                      /\ pc'[table'[j]] \in {"reserved", "spawned", "failing", "running", "dropped"}
    BY DEF HeldForAReason
  <2>1. ASSUME NEW i \in Ids, Begin(n, i) PROVE HeldForAReason'
    BY <2>1 DEF TypeOK, Begin, HeldForAReason
  <2>2. CASE SpawnFailed(n)
    BY <2>2 DEF TypeOK, SpawnFailed, HeldForAReason, StillReserved
  <2>3. CASE Spawn(n) \/ DropStart(n) \/ ChildDies(n)
    BY <2>3 DEF TypeOK, Spawn, DropStart, ChildDies, starts, HeldForAReason
  <2> QED
    BY <2>1, <2>2, <2>3 DEF HeldForAReason
<1>7. NoOrphanChild'
  BY <1>5 DEF TypeOK, HeldForAReason, NoOrphanChild, StillReserved, Begin, Spawn, SpawnFailed,
     DropStart, Kill, ChildDies, starts
<1>8. Drained'
  BY DEF TypeOK, Drained, StillReserved, Begin, Spawn, SpawnFailed, DropStart, ChildDies, starts
<1>9. (OwnEventsOnly /\ Idle /\ ExitRecorded /\ Finished)'
  BY <1>2, <1>3 DEF OwnEventsOnly, Idle, ExitRecorded, Finished, Exited, Closed, Has
<1>10. (Attached /\ Counted)'
  <2>1. \A m \in Starts : Reading(m)' = Reading(m)
    BY <1>2 DEF Reading
  <2>2. Counted'
    BY <1>2, <1>3, <2>1 DEF Counted
  <2>3. Attached'
    BY CommittedId, <1>2, <1>3, <1>4, <1>5, <2>1 DEF Attached
  <2> QED
    BY <2>2, <2>3
<1>11. Timers'
  <2> SUFFICES ASSUME NEW k \in cleanups
               PROVE  /\ pc'[k.of] = "running" /\ idOf'[k.of] = k.id /\ Closed(k.of)'
                      /\ ~down => table'[k.id] = k.of
    BY <1>2 DEF Timers
  <2>1. k.id \in Ids /\ k.of \in Starts
    BY TimerTypes
  <2>2. pc[k.of] = "running" /\ idOf[k.of] = k.id /\ Closed(k.of) /\ (~down => table[k.id] = k.of)
    BY DEF Timers
  <2>3. Closed(k.of)'
    BY <1>2, <2>2 DEF Closed, Has
  <2> QED
    BY <1>3, <1>4, <1>5, <2>1, <2>2, <2>3
<1> QED
  BY <1>1, <1>6, <1>7, <1>8, <1>9, <1>10, <1>11

(* terminate_process keeps the invariant: it frees Starting entries only. *)
LEMMA TerminateStep == ASSUME IInv, NEW i \in Ids, Terminate(i) PROVE IInv'
<1> USE DEF IInv, Terminate, Running, starts
<1>1. TypeOK'
  <2>1. CASE Running(i)
    <3>1. \A n \in Starts : child'[n] # child[n] => child'[n] = "killed" /\ pc[n] = "running"
      BY <2>1 DEF TypeOK, Kill
    <3>2. child' \in [Starts -> {"none", "alive", "dead", "killed"}]
      BY <2>1 DEF TypeOK, Kill
    <3> QED
      BY <2>1, <3>1, <3>2 DEF TypeOK
  <2>2. CASE ~Running(i)
    BY <2>2 DEF TypeOK
  <2> QED
    BY <2>1, <2>2
<1>2. UNCHANGED <<log, open, task, cleanups, down, pc, idOf>>
  OBVIOUS
<1>3. \A j \in Ids : table[j] # None /\ pc[table[j]] = "running" => table'[j] = table[j]
  BY DEF TypeOK
<1>4. HeldForAReason'
  BY DEF TypeOK, HeldForAReason
<1>5. NoOrphanChild'
  BY <1>3 DEF TypeOK, NoOrphanChild, Kill
<1>6. Drained'
  BY DEF TypeOK, Drained
<1>7. (OwnEventsOnly /\ Idle /\ ExitRecorded /\ Finished)'
  BY <1>2 DEF OwnEventsOnly, Idle, ExitRecorded, Finished, Exited, Closed, Has
<1>8. (Attached /\ Counted)'
  BY <1>2, <1>3 DEF TypeOK, Attached, Counted, Reading
<1>9. Timers'
  BY TimerTypes, <1>2, <1>3, SMTT(20) DEF TypeOK, Timers, Closed, Has
<1> QED
  BY <1>1, <1>4, <1>5, <1>6, <1>7, <1>8, <1>9

(* shutdown keeps the invariant: what ran is killed, nothing is left. *)
LEMMA ShutdownStep == IInv /\ Shutdown => IInv'
<1> SUFFICES ASSUME IInv, Shutdown PROVE IInv'
  OBVIOUS
<1> USE DEF IInv, Shutdown, starts
<1>1. TypeOK'
  <2>1. \A n \in Starts : child'[n] # child[n] => child'[n] = "killed" /\ pc[n] = "running"
    BY DEF TypeOK, Kill, Running
  <2>2. child' \in [Starts -> {"none", "alive", "dead", "killed"}]
    BY DEF TypeOK, Kill
  <2>3. table' \in [Ids -> Starts \cup {None}] /\ down' \in BOOLEAN
    OBVIOUS
  <2> QED
    BY <2>1, <2>2, <2>3 DEF TypeOK
<1>2. NoOrphanChild'
  BY DEF TypeOK, NoOrphanChild, Kill, Running, Pcs
<1>3. HeldForAReason' /\ Drained'
  BY DEF TypeOK, HeldForAReason, Drained
<1>4. (OwnEventsOnly /\ Idle /\ ExitRecorded /\ Finished)'
  BY DEF OwnEventsOnly, Idle, ExitRecorded, Finished, Exited, Closed, Has
<1>5. (Attached /\ Counted /\ Timers)'
  BY DEF Attached, Counted, Timers, Closed, Has
<1> QED
  BY <1>1, <1>2, <1>3, <1>4, <1>5

(* The commit of a start keeps the invariant: its token was still there. *)
LEMMA CommitStep == ASSUME IInv, NEW n \in Starts, Commit(n) PROVE IInv'
<1> USE DEF IInv
<1>1. idOf[n] \in Ids /\ pc[n] = "spawned" /\ "exit" \in Tasks /\ Streams \subseteq Tasks
  BY DEF Commit, TypeOK, Tasks
<1>2. CASE StillReserved(n)
  <2>1. /\ table' = table /\ child' = child
        /\ pc' = [pc EXCEPT ![n] = "running"]
        /\ task' = [task EXCEPT ![n] = [t \in Tasks |-> "run"]]
        /\ UNCHANGED <<idOf, log, open, cleanups, down>>
    BY <1>1, <1>2 DEF Commit, StillReserved, TypeOK
  <2>2. TypeOK'
    BY <1>1, <2>1 DEF TypeOK, Pcs
  <2>3. (HeldForAReason /\ NoOrphanChild /\ Drained)'
    BY <1>1, <1>2, <2>1 DEF TypeOK, HeldForAReason, NoOrphanChild, Drained, StillReserved
  <2>4. OwnEventsOnly' /\ Idle'
    BY <1>1, <2>1 DEF TypeOK, OwnEventsOnly, Idle
  <2>5. Attached'
    BY <1>2, <2>1 DEF TypeOK, Attached, StillReserved, Reading
  <2>6. Counted'
    <3>1. Reading(n)' = Streams /\ open[n] = Cardinality(Streams)
      BY <1>1, <2>1 DEF TypeOK, Reading, Idle
    <3>2. \A m \in Starts \ {n} : Reading(m)' = Reading(m)
      BY <2>1 DEF TypeOK, Reading
    <3> QED
      BY <2>1, <3>1, <3>2 DEF TypeOK, Counted
  <2>7. ExitRecorded' /\ Finished'
    <3>1. log[n] = <<>>
      BY <1>1 DEF Idle
    <3>2. ~Exited(n)' /\ ~Closed(n)'
      BY <2>1, <3>1 DEF Exited, Closed, Has
    <3>3. \A m \in Starts : (Exited(m)' <=> Exited(m)) /\ (Closed(m)' <=> Closed(m))
      BY <2>1 DEF Exited, Closed, Has
    <3> QED
      BY <2>1, <3>2, <3>3 DEF TypeOK, ExitRecorded, Finished
  <2>8. Timers'
    <3>1. \A k \in cleanups : Closed(k.of)' <=> Closed(k.of)
      BY <2>1 DEF Closed, Has
    <3> QED
      BY TimerTypes, <2>1, <3>1 DEF TypeOK, Timers
  <2> QED
    BY <2>2, <2>3, <2>4, <2>5, <2>6, <2>7, <2>8
<1>3. CASE ~StillReserved(n)
  <2>1. /\ pc' = [pc EXCEPT ![n] = "cancelled"]
        /\ UNCHANGED <<table, task, idOf, log, open, cleanups, down>>
    BY <1>3 DEF Commit
  <2>2. child' = [m \in Starts |-> IF m = n THEN "killed" ELSE child[m]]
    BY <1>3 DEF Commit, Kill
  <2>3. TypeOK'
    BY <1>1, <2>1, <2>2 DEF TypeOK, Pcs
  <2>4. (HeldForAReason /\ NoOrphanChild /\ Drained)'
    BY <1>1, <1>3, <2>1, <2>2 DEF TypeOK, HeldForAReason, NoOrphanChild, Drained, StillReserved
  <2>5. (OwnEventsOnly /\ Idle /\ ExitRecorded /\ Finished)'
    <3>1. (OwnEventsOnly /\ ExitRecorded /\ Finished)'
      BY <2>1 DEF OwnEventsOnly, ExitRecorded, Finished, Exited, Closed, Has
    <3>2. Idle'
      BY <1>1, <2>1 DEF TypeOK, Idle
    <3> QED
      BY <3>1, <3>2
  <2>6. (Attached /\ Counted)'
    <3>1. \A m \in Starts : Reading(m)' = Reading(m)
      BY <2>1 DEF Reading
    <3> QED
      BY <2>1, <3>1 DEF TypeOK, Attached, Counted
  <2>7. Timers'
    <3>1. \A k \in cleanups : Closed(k.of)' <=> Closed(k.of)
      BY <2>1 DEF Closed, Has
    <3> QED
      BY TimerTypes, <1>1, <2>1, <3>1 DEF TypeOK, Timers
  <2> QED
    BY <2>3, <2>4, <2>5, <2>6, <2>7
<1> QED
  BY <1>2, <1>3

(* Finding one's own entry: what a task that can still publish finds under
   its process id is its own process. *)
LEMMA OwnEntry ==
  ASSUME IInv, NEW n \in Starts, Running(idOf[n]),
         Reading(n) # {} \/ task[n]["exit"] = "run"
  PROVE  table[idOf[n]] = n /\ pc[n] = "running" /\ ~down /\ idOf[n] \in Ids
<1>1. "exit" \in Tasks /\ Streams \subseteq Tasks
  BY DEF Tasks
<1>2. pc[n] = "running"
  BY <1>1 DEF IInv, Idle, Reading
<1>3. idOf[n] \in Ids
  BY <1>2, CommittedId DEF IInv
<1>4. ~down
  BY <1>3 DEF IInv, Drained, Running
<1> QED
  BY <1>2, <1>3, <1>4 DEF IInv, Attached

(* Which events a log has after one more. *)
LEMMA LogGrows ==
  ASSUME TypeOK, NEW m \in Starts, NEW n \in Starts, NEW e \in Events,
         log' = [log EXCEPT ![m] = Append(@, [by |-> n, event |-> e])]
  PROVE  /\ log' \in [Starts -> Seq([by : Starts, event : Events])]
         /\ Len(log'[m]) = Len(log[m]) + 1 /\ Len(log[m]) \in Nat
         /\ \A i \in 1..Len(log[m]) : log'[m][i] = log[m][i]
         /\ log'[m][Len(log[m]) + 1] = [by |-> n, event |-> e]
         /\ \A l \in Starts : l # m => log'[l] = log[l]
         /\ Exited(m)' <=> (Exited(m) \/ e = "exited")
         /\ Closed(m)' <=> (Closed(m) \/ e = "closed")
         /\ \A l \in Starts : l # m => (Exited(l)' <=> Exited(l)) /\ (Closed(l)' <=> Closed(l))
<1>1. [by |-> n, event |-> e] \in [by : Starts, event : Events] /\ log[m] \in Seq([by : Starts, event : Events])
  BY DEF TypeOK
<1>2. log' \in [Starts -> Seq([by : Starts, event : Events])]
  <2> DEFINE R == [by : Starts, event : Events]
  <2>1. Append(log[m], [by |-> n, event |-> e]) \in Seq(R)
    BY <1>1
  <2>2. log \in [Starts -> Seq(R)]
    BY DEF TypeOK
  <2> HIDE DEF R
  <2>3. log' \in [Starts -> Seq(R)]
    BY <2>1, <2>2
  <2> QED
    BY <2>3 DEF R
<1>3. /\ Len(log'[m]) = Len(log[m]) + 1 /\ Len(log[m]) \in Nat
      /\ \A i \in 1..Len(log[m]) : log'[m][i] = log[m][i]
      /\ log'[m][Len(log[m]) + 1] = [by |-> n, event |-> e]
  BY <1>1 DEF TypeOK
<1>4. \A l \in Starts : l # m => log'[l] = log[l]
  BY DEF TypeOK
<1>5. \A l \in Starts : l # m => (Exited(l)' <=> Exited(l)) /\ (Closed(l)' <=> Closed(l))
  BY <1>4 DEF Exited, Closed, Has
<1>6. Exited(m)' <=> (Exited(m) \/ e = "exited")
  BY <1>3 DEF Exited, Has
<1>7. Closed(m)' <=> (Closed(m) \/ e = "closed")
  BY <1>3 DEF Closed, Has
<1> QED
  BY <1>2, <1>3, <1>4, <1>5, <1>6, <1>7

(* A process that is not closed may get one more event, but no second exit. *)
LEMMA LogShape ==
  ASSUME IInv, NEW m \in Starts, NEW n \in Starts, NEW e \in Events,
         log' = [log EXCEPT ![m] = Append(@, [by |-> n, event |-> e])],
         ~Closed(m), e = "exited" => ~Exited(m)
  PROVE  \A l \in Starts :
           /\ \A i, j \in 1..Len(log'[l]) :
                log'[l][i].event = "exited" /\ log'[l][j].event = "exited" => i = j
           /\ \A i \in 1..Len(log'[l]) : log'[l][i].event = "closed" => i = Len(log'[l])
<1>1. TypeOK
  BY DEF IInv
<1>2. \A i \in 1..Len(log[m]) : /\ log[m][i].event # "closed"
                                /\ e = "exited" => log[m][i].event # "exited"
  BY DEF Closed, Exited, Has
<1>3. \A i \in 1..Len(log'[m]) : \/ i \in 1..Len(log[m]) /\ log'[m][i].event = log[m][i].event
                                 \/ i = Len(log'[m]) /\ log'[m][i].event = e
  BY <1>1, LogGrows
<1>4. \A i, j \in 1..Len(log'[m]) :
        log'[m][i].event = "exited" /\ log'[m][j].event = "exited" => i = j
  BY <1>2, <1>3 DEF IInv, ExitRecorded
<1>5. \A i \in 1..Len(log'[m]) : log'[m][i].event = "closed" => i = Len(log'[m])
  BY <1>2, <1>3
<1>6. \A l \in Starts : l # m => log'[l] = log[l]
  BY <1>1, LogGrows
<1> QED
  BY <1>4, <1>5, <1>6 DEF IInv, ExitRecorded, Finished

(* The parts of the invariant that a step of the tasks leaves alone. *)
LEMMA TableKept ==
  ASSUME IInv, UNCHANGED <<table, idOf, pc, child, down>>
  PROVE  (HeldForAReason /\ NoOrphanChild /\ Drained)'
BY DEF IInv, HeldForAReason, NoOrphanChild, Drained

(* stream_output publishes in its own process. *)
LEMMA OutputStep == ASSUME IInv, NEW n \in Starts, NEW t \in Streams, OutputChunk(n, t) PROVE IInv'
<1> USE DEF IInv
<1>1. /\ "exit" \in Tasks /\ t \in Tasks /\ t # "exit" /\ t \in Events /\ Streams \subseteq Tasks
      /\ t # "exited" /\ t # "closed" /\ t \in Reading(n)
      /\ UNCHANGED <<table, idOf, pc, child, open, cleanups, down>>
  BY DEF OutputChunk, Tasks, Events, Reading, starts
<1>2. pc[n] = "running" /\ idOf[n] \in Ids
  BY <1>1, CommittedId DEF Idle, Reading
<1>3. PICK w \in {"notify", "ended"} : task' = [task EXCEPT ![n][t] = w]
  BY DEF OutputChunk, Go
<1>4. /\ \A m \in Starts : Reading(m)' = Reading(m)
      /\ \A m \in Starts : task'[m]["exit"] = task[m]["exit"]
      /\ \A m \in Starts : \A u \in Streams : task[m][u] \in {"closing", "done"} => task'[m][u] \in {"closing", "done"}
      /\ \A m \in Starts : \A u \in Tasks : task'[m][u] = "none" <=> task[m][u] = "none"
      /\ task' \in [Starts -> [Tasks -> {"none", "run", "notify", "ended", "closing", "done"}]]
  BY <1>1, <1>3 DEF TypeOK, Reading
<1>5. (Attached /\ Counted)'
  BY <1>1, <1>4 DEF Attached, Counted
<1>6. CASE Running(idOf[n])
  <2>1. table[idOf[n]] = n /\ ~down
    BY <1>1, <1>6, OwnEntry
  <2>2. log' = [log EXCEPT ![n] = Append(@, [by |-> n, event |-> t])]
    BY <1>6, <2>1 DEF OutputChunk, Publish
  <2>3. ~Closed(n)
    BY <1>1 DEF Finished, Reading
  <2>4. TypeOK'
    BY <1>1, <1>4, <2>2, LogGrows DEF TypeOK
  <2>5. OwnEventsOnly' /\ Idle'
    BY <1>1, <1>2, <1>4, <2>2, LogGrows DEF OwnEventsOnly, Idle
  <2>6. \A m \in Starts : (Exited(m)' <=> Exited(m)) /\ (Closed(m)' <=> Closed(m))
    <3>1. (Exited(n)' <=> Exited(n)) /\ (Closed(n)' <=> Closed(n))
      BY <1>1, <2>2, LogGrows
    <3>2. \A m \in Starts : m # n => (Exited(m)' <=> Exited(m)) /\ (Closed(m)' <=> Closed(m))
      BY <1>1, <2>2, LogGrows
    <3> QED
      BY <3>1, <3>2
  <2>7. \A l \in Starts :
          /\ \A i, j \in 1..Len(log'[l]) :
               log'[l][i].event = "exited" /\ log'[l][j].event = "exited" => i = j
          /\ \A i \in 1..Len(log'[l]) : log'[l][i].event = "closed" => i = Len(log'[l])
    BY <1>1, <2>2, <2>3, LogShape
  <2>8. ExitRecorded' /\ Finished'
    BY <1>4, <2>6, <2>7 DEF ExitRecorded, Finished
  <2>9. Timers'
    BY <1>1, <2>6, TimerTypes DEF Timers
  <2> QED
    BY <1>1, <1>5, <2>4, <2>5, <2>8, <2>9, TableKept
<1>7. CASE ~Running(idOf[n])
  <2>1. log' = log
    BY <1>7 DEF OutputChunk
  <2>2. TypeOK'
    BY <1>1, <1>4, <2>1 DEF TypeOK
  <2>3. \A m \in Starts : (Exited(m)' <=> Exited(m)) /\ (Closed(m)' <=> Closed(m))
    BY <2>1 DEF Exited, Closed, Has
  <2>4. (OwnEventsOnly /\ Idle /\ ExitRecorded /\ Finished)'
    BY <1>1, <1>4, <2>1, <2>3 DEF OwnEventsOnly, Idle, ExitRecorded, Finished
  <2>5. Timers'
    BY <1>1, <2>3, TimerTypes DEF Timers
  <2> QED
    BY <1>1, <1>5, <2>2, <2>4, <2>5, TableKept
<1> QED
  BY <1>6, <1>7

(* A notification that is done changes the task only. *)
LEMMA NotifiedStep == ASSUME IInv, NEW n \in Starts, NEW t \in Tasks, Notified(n, t) PROVE IInv'
<1> USE DEF IInv
<1>1. /\ "exit" \in Tasks /\ Streams \subseteq Tasks /\ "exit" \notin Streams
      /\ UNCHANGED <<table, idOf, pc, child, open, log, cleanups, down>>
  BY DEF Notified, Tasks, starts
<1>2. PICK w \in {"closing", "run"} : /\ task' = [task EXCEPT ![n][t] = w]
                                      /\ t = "exit" <=> w = "closing"
                                      /\ task[n][t] = "notify"
  BY DEF Notified, Go
<1>3. /\ \A m \in Starts : Reading(m)' = Reading(m)
      /\ \A m \in Starts : task'[m]["exit"] \in {"none", "run"} => task'[m]["exit"] = task[m]["exit"]
      /\ \A m \in Starts : \A u \in Streams : task[m][u] \in {"closing", "done"} => task'[m][u] \in {"closing", "done"}
      /\ \A m \in Starts : \A u \in Tasks : task'[m][u] = "none" <=> task[m][u] = "none"
      /\ task' \in [Starts -> [Tasks -> {"none", "run", "notify", "ended", "closing", "done"}]]
  <2>1. task' \in [Starts -> [Tasks -> {"none", "run", "notify", "ended", "closing", "done"}]]
    BY <1>2 DEF TypeOK
  <2>2. \A m \in Starts : \A u \in Tasks : task'[m][u] = IF m = n /\ u = t THEN w ELSE task[m][u]
    BY <1>2 DEF TypeOK
  <2>3. \A m \in Starts : Reading(m)' = Reading(m)
    BY <1>1, <1>2, <2>2 DEF Reading
  <2> QED
    BY <1>1, <1>2, <2>1, <2>2, <2>3
<1>4. (Attached /\ Counted)'
  BY <1>1, <1>3 DEF Attached, Counted
<1>5. TypeOK'
  BY <1>1, <1>3 DEF TypeOK
<1>6. \A m \in Starts : (Exited(m)' <=> Exited(m)) /\ (Closed(m)' <=> Closed(m))
  BY <1>1 DEF Exited, Closed, Has
<1>7. (OwnEventsOnly /\ Idle /\ ExitRecorded /\ Finished)'
  BY <1>1, <1>3, <1>6 DEF OwnEventsOnly, Idle, ExitRecorded, Finished
<1>8. Timers'
  BY <1>1, <1>6, TimerTypes DEF Timers
<1> QED
  BY <1>1, <1>4, <1>5, <1>7, <1>8, TableKept

(* finish_output_stream takes the stream off its own count. *)
LEMMA FinishStep == ASSUME IInv, NEW n \in Starts, NEW t \in Streams, FinishStream(n, t) PROVE IInv'
<1> USE DEF IInv
<1>1. /\ "exit" \in Tasks /\ t \in Tasks /\ t # "exit" /\ Streams \subseteq Tasks
      /\ t \in Reading(n)
      /\ UNCHANGED <<table, idOf, pc, child, log, cleanups, down>>
  BY DEF FinishStream, Tasks, Reading, starts
<1>2. pc[n] = "running" /\ idOf[n] \in Ids
  BY <1>1, CommittedId DEF Idle, Reading
<1>3. PICK w \in {"closing", "done"} : task' = [task EXCEPT ![n][t] = w]
  BY DEF FinishStream, Go
<1>4. /\ \A m \in Starts : m # n => Reading(m)' = Reading(m)
      /\ Reading(n)' = Reading(n) \ {t}
      /\ \A m \in Starts : task'[m]["exit"] = task[m]["exit"]
      /\ \A m \in Starts : \A u \in Streams : task[m][u] \in {"closing", "done"} => task'[m][u] \in {"closing", "done"}
      /\ \A m \in Starts : \A u \in Tasks : task'[m][u] = "none" <=> task[m][u] = "none"
      /\ task' \in [Starts -> [Tasks -> {"none", "run", "notify", "ended", "closing", "done"}]]
  BY <1>1, <1>3 DEF TypeOK, Reading
<1>5. Attached'
  BY <1>1, <1>4 DEF Attached
<1>6. \A m \in Starts : (Exited(m)' <=> Exited(m)) /\ (Closed(m)' <=> Closed(m))
  BY <1>1 DEF Exited, Closed, Has
<1>7. (OwnEventsOnly /\ ExitRecorded /\ Finished)'
  BY <1>1, <1>4, <1>6 DEF OwnEventsOnly, ExitRecorded, Finished
<1>8. Timers'
  BY <1>1, <1>6, TimerTypes DEF Timers
<1>9. CASE Running(idOf[n])
  <2>1. table[idOf[n]] = n /\ ~down
    BY <1>1, <1>9, OwnEntry
  <2>2. open' = [open EXCEPT ![n] = IF @ > 0 THEN @ - 1 ELSE 0]
    BY <1>9, <2>1 DEF FinishStream
  <2>3. open[n] = Cardinality(Reading(n)) /\ IsFiniteSet(Reading(n))
    BY <1>2, <2>1, ReadingFinite DEF Counted
  <2>4. Cardinality(Reading(n)') = Cardinality(Reading(n)) - 1
    BY <1>1, <1>4, <2>3, FS_RemoveElement
  <2>5. open[n] \in Nat /\ open[n] # 0
    BY <1>1, <2>3, ReadingFinite
  <2>6. Counted'
    <3>1. open'[n] = open[n] - 1 /\ \A m \in Starts : m # n => open'[m] = open[m]
      BY <2>2, <2>5 DEF TypeOK
    <3>2. open'[n] = Cardinality(Reading(n)')
      BY <2>3, <2>4, <3>1
    <3>3. ASSUME NEW m \in Starts, m # n, pc[m] = "running"
          PROVE  open'[m] = Cardinality(Reading(m)')
      BY <1>4, <2>1, <3>1, <3>3 DEF Counted
    <3> QED
      BY <1>1, <3>2, <3>3 DEF Counted
  <2>7. TypeOK'
    <3>1. open' \in [Starts -> Nat]
      BY <2>2 DEF TypeOK
    <3> QED
      BY <1>1, <1>4, <3>1 DEF TypeOK
  <2>8. Idle'
    BY <1>1, <1>2, <1>4, <2>2 DEF TypeOK, Idle
  <2> QED
    BY <1>1, <1>5, <1>7, <1>8, <2>6, <2>7, <2>8, TableKept
<1>10. CASE ~Running(idOf[n])
  <2>1. open' = open
    BY <1>10 DEF FinishStream
  <2>2. down
    BY <1>1, <1>2, <1>10 DEF Attached, Running
  <2>3. TypeOK'
    BY <1>1, <1>4, <2>1 DEF TypeOK
  <2>4. Idle' /\ Counted'
    BY <1>1, <1>4, <2>1, <2>2 DEF Idle, Counted
  <2> QED
    BY <1>1, <1>5, <1>7, <1>8, <2>3, <2>4, TableKept
<1> QED
  BY <1>9, <1>10

(* watch_exit records the exit in its own process, once. *)
LEMMA ExitStep == ASSUME IInv, NEW n \in Starts, WatchExit(n) PROVE IInv'
<1> USE DEF IInv
<1>1. /\ "exit" \in Tasks /\ "exit" \notin Streams /\ Streams \subseteq Tasks
      /\ task[n]["exit"] = "run" /\ "exited" \in Events
      /\ UNCHANGED <<table, idOf, pc, child, open, cleanups, down>>
  BY DEF WatchExit, Tasks, Events, starts
<1>2. pc[n] = "running" /\ idOf[n] \in Ids
  BY <1>1, CommittedId DEF Idle
<1>3. PICK w \in {"closing", "notify"} : task' = [task EXCEPT ![n]["exit"] = w]
  BY DEF WatchExit, Go
<1>4. /\ \A m \in Starts : Reading(m)' = Reading(m)
      /\ \A m \in Starts : m # n => task'[m]["exit"] = task[m]["exit"]
      /\ task'[n]["exit"] \notin {"none", "run"}
      /\ \A m \in Starts : \A u \in Streams : task'[m][u] = task[m][u]
      /\ \A m \in Starts : \A u \in Tasks : task'[m][u] = "none" <=> task[m][u] = "none"
      /\ task' \in [Starts -> [Tasks -> {"none", "run", "notify", "ended", "closing", "done"}]]
  BY <1>1, <1>3 DEF TypeOK, Reading
<1>5. (Attached /\ Counted)'
  BY <1>1, <1>4 DEF Attached, Counted
<1>6. CASE Running(idOf[n])
  <2>1. table[idOf[n]] = n /\ ~down
    BY <1>1, <1>6, OwnEntry
  <2>2. log' = [log EXCEPT ![n] = Append(@, [by |-> n, event |-> "exited"])]
    BY <1>6, <2>1 DEF WatchExit, Publish
  <2>3. ~Exited(n) /\ ~Closed(n)
    BY <1>1 DEF ExitRecorded, Finished
  <2>4. TypeOK'
    BY <1>1, <1>4, <2>2, LogGrows DEF TypeOK
  <2>5. OwnEventsOnly' /\ Idle'
    BY <1>1, <1>2, <1>4, <2>2, LogGrows DEF OwnEventsOnly, Idle
  <2>6. Closed(n)' <=> Closed(n)
    BY <1>1, <2>2, LogGrows
  <2>7. \A m \in Starts : m # n => (Exited(m)' <=> Exited(m)) /\ (Closed(m)' <=> Closed(m))
    BY <1>1, <2>2, LogGrows
  <2>8. \A l \in Starts :
          /\ \A i, j \in 1..Len(log'[l]) :
               log'[l][i].event = "exited" /\ log'[l][j].event = "exited" => i = j
          /\ \A i \in 1..Len(log'[l]) : log'[l][i].event = "closed" => i = Len(log'[l])
    BY <1>1, <2>2, <2>3, LogShape
  <2>9. ExitRecorded'
    BY <1>4, <2>7, <2>8 DEF ExitRecorded
  <2>10. Finished'
    BY <1>4, <2>3, <2>6, <2>7, <2>8 DEF Finished
  <2>11. Timers'
    BY <1>1, <2>3, <2>7, TimerTypes DEF Timers
  <2> QED
    BY <1>1, <1>5, <2>4, <2>5, <2>9, <2>10, <2>11, TableKept
<1>7. CASE ~Running(idOf[n])
  <2>1. log' = log
    BY <1>7 DEF WatchExit
  <2>2. TypeOK'
    BY <1>1, <1>4, <2>1 DEF TypeOK
  <2>3. \A m \in Starts : (Exited(m)' <=> Exited(m)) /\ (Closed(m)' <=> Closed(m))
    BY <2>1 DEF Exited, Closed, Has
  <2>4. (OwnEventsOnly /\ Idle /\ ExitRecorded /\ Finished)'
    BY <1>1, <1>4, <2>1, <2>3, SMTT(20) DEF OwnEventsOnly, Idle, ExitRecorded, Finished
  <2>5. Timers'
    BY <1>1, <2>3, TimerTypes DEF Timers
  <2> QED
    BY <1>1, <1>5, <2>2, <2>4, <2>5, TableKept
<1> QED
  BY <1>6, <1>7

(* maybe_emit_closed closes when no task can publish any more. *)
LEMMA ClosedStep == ASSUME IInv, NEW n \in Starts, NEW t \in Tasks, MaybeEmitClosed(n, t) PROVE IInv'
<1> USE DEF IInv
<1>1. /\ "exit" \in Tasks /\ "exit" \notin Streams /\ Streams \subseteq Tasks
      /\ task[n][t] = "closing" /\ "closed" \in Events /\ "closed" # "exited"
      /\ task' = [task EXCEPT ![n][t] = "done"]
      /\ UNCHANGED <<table, idOf, pc, child, open, down>>
  BY DEF MaybeEmitClosed, Go, Tasks, Events, starts
<1>2. pc[n] = "running" /\ idOf[n] \in Ids
  BY <1>1, CommittedId DEF Idle
<1>3. /\ \A m \in Starts : Reading(m)' = Reading(m)
      /\ \A m \in Starts : task'[m]["exit"] \in {"none", "run"} => task'[m]["exit"] = task[m]["exit"]
      /\ \A m \in Starts : \A u \in Streams : task[m][u] \in {"closing", "done"} => task'[m][u] \in {"closing", "done"}
      /\ \A m \in Starts : \A u \in Tasks : task'[m][u] = "none" <=> task[m][u] = "none"
      /\ task' \in [Starts -> [Tasks -> {"none", "run", "notify", "ended", "closing", "done"}]]
  BY <1>1 DEF TypeOK, Reading
<1>4. (Attached /\ Counted)'
  BY <1>1, <1>3 DEF Attached, Counted
<1>5. CASE Running(idOf[n]) /\ CanClose(table[idOf[n]])
  <2>0. PICK m \in Starts : m = table[idOf[n]]
    BY <1>2, <1>5 DEF TypeOK, Running
  <2>1. pc[m] = "running" /\ idOf[m] = idOf[n] /\ ~down
    BY <1>2, <1>5, <2>0 DEF TypeOK, Running, HeldForAReason, Drained
  <2>2. open[m] = 0 /\ Exited(m) /\ ~Closed(m)
    BY <1>5, <2>0 DEF CanClose
  <2>3. log' = [log EXCEPT ![m] = Append(@, [by |-> n, event |-> "closed"])]
    BY <1>5, <2>0 DEF MaybeEmitClosed, Publish
  <2>4. cleanups' = cleanups \cup {[id |-> idOf[n], of |-> m]}
    BY <1>5, <2>0 DEF MaybeEmitClosed
  <2>5. \A u \in Streams : task'[m][u] \in {"closing", "done"}
    <3>1. Reading(m) = {}
      BY <2>1, <2>2, ReadingFinite DEF Counted
    <3>2. \A u \in Streams : task[m][u] # "none"
      BY <1>1, <2>1 DEF Idle
    <3>3. \A u \in Streams : task[m][u] \in {"none", "run", "notify", "ended", "closing", "done"}
      BY <1>1, <2>1 DEF TypeOK
    <3>4. \A u \in Streams : task[m][u] \in {"closing", "done"}
      BY <3>1, <3>2, <3>3 DEF Reading
    <3> QED
      BY <1>3, <2>1, <3>4
  <2>6. /\ Closed(m)' /\ (Exited(m)' <=> Exited(m))
        /\ \A l \in Starts : l # m => (Exited(l)' <=> Exited(l)) /\ (Closed(l)' <=> Closed(l))
    BY <1>1, <2>1, <2>3, LogGrows
  <2>7. \A l \in Starts :
          /\ \A i, j \in 1..Len(log'[l]) :
               log'[l][i].event = "exited" /\ log'[l][j].event = "exited" => i = j
          /\ \A i \in 1..Len(log'[l]) : log'[l][i].event = "closed" => i = Len(log'[l])
    BY <1>1, <2>1, <2>2, <2>3, LogShape
  <2>8. TypeOK'
    <3>1. log' \in [Starts -> Seq([by : Starts, event : Events])]
      BY <1>1, <2>1, <2>3, LogGrows
    <3>2. cleanups' \subseteq [id : Ids, of : Starts]
      BY <1>2, <2>1, <2>4 DEF TypeOK
    <3> QED
      BY <1>1, <1>3, <3>1, <3>2 DEF TypeOK
  <2>9. OwnEventsOnly' /\ Idle'
    BY <1>1, <1>3, <2>1, <2>3, LogGrows DEF OwnEventsOnly, Idle
  <2>10. ExitRecorded'
    <3>1. \A l \in Starts : Exited(l)' <=> Exited(l)
      BY <2>6
    <3> QED
      BY <1>3, <2>7, <3>1 DEF ExitRecorded
  <2>11. Finished'
    BY <1>3, <2>2, <2>5, <2>6, <2>7 DEF Finished
  <2>12. Timers'
    <3>1. \A k \in cleanups' : k \in cleanups \/ (k.id = idOf[n] /\ k.of = m)
      BY <2>4
    <3>2. \A k \in cleanups : pc[k.of] = "running" /\ idOf[k.of] = k.id /\ Closed(k.of)'
                              /\ (~down => table[k.id] = k.of)
      BY <2>6, TimerTypes DEF Timers
    <3>3. pc[m] = "running" /\ idOf[m] = idOf[n] /\ Closed(m)' /\ table[idOf[n]] = m
      BY <2>0, <2>1, <2>6
    <3> QED
      BY <1>1, <3>1, <3>2, <3>3 DEF Timers
  <2> QED
    BY <1>1, <1>4, <2>8, <2>9, <2>10, <2>11, <2>12, TableKept
<1>6. CASE ~(Running(idOf[n]) /\ CanClose(table[idOf[n]]))
  <2>1. log' = log /\ cleanups' = cleanups
    BY <1>6 DEF MaybeEmitClosed
  <2>2. TypeOK'
    BY <1>1, <1>3, <2>1 DEF TypeOK
  <2>3. \A m \in Starts : (Exited(m)' <=> Exited(m)) /\ (Closed(m)' <=> Closed(m))
    BY <2>1 DEF Exited, Closed, Has
  <2>4. (OwnEventsOnly /\ Idle /\ ExitRecorded /\ Finished)'
    BY <1>1, <1>3, <2>1, <2>3 DEF OwnEventsOnly, Idle, ExitRecorded, Finished
  <2>5. Timers'
    BY <1>1, <2>1, <2>3, TimerTypes DEF Timers
  <2> QED
    BY <1>1, <1>4, <2>2, <2>4, <2>5, TableKept
<1> QED
  BY <1>5, <1>6

(* A retention timer removes the closed entry it was made for. *)
LEMMA CleanupStep == ASSUME IInv, NEW k \in cleanups, Cleanup(k) PROVE IInv'
<1> USE DEF IInv
<1>1. /\ "exit" \in Tasks /\ Streams \subseteq Tasks
      /\ cleanups' = cleanups \ {k}
      /\ UNCHANGED <<idOf, pc, log, open, task, down>>
  BY DEF Cleanup, Tasks, starts
<1>2. /\ k.id \in Ids /\ k.of \in Starts /\ pc[k.of] = "running" /\ idOf[k.of] = k.id
      /\ Closed(k.of) /\ (~down => table[k.id] = k.of)
  BY TimerTypes DEF Timers
<1>3. \A m \in Starts : /\ Reading(m)' = Reading(m)
                        /\ Exited(m)' <=> Exited(m)
                        /\ Closed(m)' <=> Closed(m)
  BY <1>1 DEF Reading, Exited, Closed, Has
<1>4. (OwnEventsOnly /\ Idle /\ ExitRecorded /\ Finished /\ Counted)'
  BY <1>1, <1>3 DEF OwnEventsOnly, Idle, ExitRecorded, Finished, Counted
<1>5. CASE Running(k.id) /\ Closed(table[k.id])
  <2>1. table[k.id] = k.of /\ ~down
    BY <1>2, <1>5 DEF Running, Drained
  <2>2. /\ table' = [table EXCEPT ![k.id] = None]
        /\ child' = [m \in Starts |-> IF m = k.of THEN "killed" ELSE child[m]]
    BY <1>5, <2>1 DEF Cleanup, Kill
  <2>3. TypeOK'
    <3>1. child' \in [Starts -> {"none", "alive", "dead", "killed"}]
      BY <2>2 DEF TypeOK
    <3>2. \A m \in Starts : child'[m] # child[m] => child'[m] = "killed" /\ pc[m] = "running"
      BY <1>2, <2>2
    <3> QED
      BY <1>1, <1>2, <2>2, <3>1, <3>2 DEF TypeOK
  <2>4. HeldForAReason' /\ Drained'
    BY <1>1, <1>2, <2>1, <2>2 DEF TypeOK, HeldForAReason, Drained
  <2>5. NoOrphanChild'
    <3>1. \A m \in Starts : m # k.of /\ pc[m] = "running" /\ table[idOf[m]] = m => table'[idOf[m]] = m
      BY <1>2, <2>1, <2>2, CommittedId DEF TypeOK
    <3> QED
      BY <1>1, <2>2, <3>1 DEF NoOrphanChild
  <2>6. Reading(k.of) = {} /\ task[k.of]["exit"] # "run"
    BY <1>2 DEF Finished, ExitRecorded, Reading
  <2>7. Attached'
    BY <1>1, <1>2, <1>3, <2>1, <2>2, <2>6, CommittedId DEF TypeOK, Attached
  <2>8. Timers'
    <3>1. \A j \in cleanups : j.id \in Ids /\ j.of \in Starts /\ (j.id = k.id => j = k)
      <4>1. \A j \in cleanups : j \in [id : Ids, of : Starts]
        BY DEF TypeOK
      <4>2. \A j \in cleanups : j.id = k.id => j.of = k.of
        BY <2>1 DEF Timers
      <4> QED
        BY <4>1, <4>2
    <3>2. \A j \in cleanups' : j \in cleanups /\ j.id # k.id
      BY <1>1, <3>1
    <3>3. \A j \in cleanups' : table'[j.id] = table[j.id]
      BY <2>2, <3>1, <3>2 DEF TypeOK
    <3> QED
      BY <1>1, <1>3, <3>1, <3>2, <3>3 DEF Timers
  <2> QED
    BY <1>4, <2>3, <2>4, <2>5, <2>7, <2>8
<1>6. CASE ~(Running(k.id) /\ Closed(table[k.id]))
  <2>1. table' = table /\ child' = child
    BY <1>6 DEF Cleanup
  <2>2. TypeOK'
    BY <1>1, <2>1 DEF TypeOK
  <2>3. Attached' /\ Timers'
    BY <1>1, <1>3, <2>1, TimerTypes DEF Attached, Timers
  <2> QED
    BY <1>1, <1>4, <2>1, <2>2, <2>3, TableKept
<1> QED
  BY <1>5, <1>6

(* Every step, and stuttering, keeps the inductive invariant. *)
LEMMA NextIInv == IInv /\ [Next]_vars => IInv'
<1> SUFFICES ASSUME IInv, [Next]_vars PROVE IInv'
  OBVIOUS
<1>1. CASE UNCHANGED vars
  <2>1. UNCHANGED <<table, idOf, pc, child, log, open, task, cleanups, down>>
    BY <1>1 DEF vars, starts
  <2>2. TypeOK'
    BY <2>1 DEF IInv, TypeOK
  <2>3. (OwnEventsOnly /\ Idle /\ ExitRecorded /\ Finished)'
    BY <2>1 DEF IInv, OwnEventsOnly, Idle, ExitRecorded, Finished, Exited, Closed, Has
  <2>4. (Attached /\ Counted)'
    BY <2>1 DEF IInv, Attached, Counted, Reading
  <2>5. Timers'
    BY <2>1 DEF IInv, Timers, Closed, Has
  <2> QED
    BY <2>1, <2>2, <2>3, <2>4, <2>5, TableKept DEF IInv
<1>2. ASSUME NEW n \in Starts, Call(n) PROVE IInv'
  BY <1>2, CallStep, CommitStep DEF Call
<1>3. ASSUME NEW n \in Starts, Step(n) PROVE IInv'
  BY <1>3, CallStep, ExitStep, OutputStep, FinishStep, NotifiedStep, ClosedStep DEF Step
<1> QED
  BY <1>1, <1>2, <1>3, TerminateStep, CleanupStep, ShutdownStep DEF Next

(* The inductive invariant holds throughout. *)
LEMMA InvariantIInv == Spec => []IInv
BY InitIInv, NextIInv, PTL DEF Spec

(* What the invariant says of a closed log. *)
LEMMA ClosedLogs == IInv => ClosedIsLast
<1> SUFFICES ASSUME IInv, NEW n \in Starts, Closed(n)
             PROVE  /\ \A i \in 1..Len(log[n]) - 1 : log[n][i].event # "closed"
                    /\ log[n][Len(log[n])].event = "closed"
                    /\ \E i \in 1..Len(log[n]) :
                         /\ log[n][i].event = "exited"
                         /\ \A j \in 1..Len(log[n]) \ {i} : log[n][j].event # "exited"
                    /\ \A t \in Streams : task[n][t] \in {"closing", "done"}
  BY DEF ClosedIsLast
<1>1. Len(log[n]) \in Nat
  BY DEF IInv, TypeOK
<1>2. \A i \in 1..Len(log[n]) : log[n][i].event = "closed" => i = Len(log[n])
  BY DEF IInv, Finished
<1>3. PICK i \in 1..Len(log[n]) : log[n][i].event = "closed"
  BY DEF Closed, Has
<1>4. Exited(n) /\ \A t \in Streams : task[n][t] \in {"closing", "done"}
  BY DEF IInv, Finished
<1>5. PICK j \in 1..Len(log[n]) : log[n][j].event = "exited"
  BY <1>4 DEF Exited, Has
<1>6. \A l \in 1..Len(log[n]) \ {j} : log[n][l].event # "exited"
  BY <1>5 DEF IInv, ExitRecorded
<1> QED
  BY <1>1, <1>2, <1>3, <1>4, <1>5, <1>6

(* Every variable has its type. *)
THEOREM TableTypeCorrect == Spec => []TypeOK
BY InvariantIInv, PTL DEF IInv

(* Whatever terminates, cancels or drops a start, no child is left behind
   that neither a call nor the table owns. *)
THEOREM NoOrphans == Spec => []NoOrphanChild
BY InvariantIInv, PTL DEF IInv

(* A process id is never reused while a task of its old process could still
   publish: no process shows another one's output or exit. *)
THEOREM NoMixup == Spec => []OwnEventsOnly
BY InvariantIInv, PTL DEF IInv

(* closed is the last event, after the one exit and the end of the streams. *)
THEOREM CloseIsLast == Spec => []ClosedIsLast
BY InvariantIInv, ClosedLogs, PTL

(* Failed and cancelled starts leave no entry behind. *)
THEOREM NoStaleEntry == Spec => []HeldForAReason
BY InvariantIInv, PTL DEF IInv

(* A retention timer only ever removes its own process. *)
THEOREM RetentionTimers == Spec => []TimerHitsItsOwn
<1>1. IInv => TimerHitsItsOwn
  BY DEF IInv, Timers, TimerHitsItsOwn
<1> QED
  BY <1>1, InvariantIInv, PTL
=============================================================================
