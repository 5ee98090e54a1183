------------------------ MODULE EventDeliveryProofs ------------------------
(***************************************************************************)
(* Proofs about EventDelivery, for any set of connections, any number of   *)
(* streams and any amount of output.                                       *)
(***************************************************************************)
EXTENDS EventDelivery, TLAPS, FiniteSetTheorems

(* Streams that may still number output. *)
Active == {t \in Streams : pc[t] \in {"run", "notify", "send"}}

(* A partial function from sequence numbers to events that says of each
   number what the server's log says. *)
Agrees(p) == \A s \in DOMAIN p : s \in 1..Len(log) /\ p[s] = log[s]

(* Closed is the last event of the log: it is numbered when no stream is open
   and the exit is known, and then nothing is left to number another. *)
ClosedIsLast ==
  /\ entry => open = Cardinality(Active)
  /\ Exited(log) => pc["exit"] # "run"
  /\ Closed(log) => Exited(log) /\ Active = {}
  /\ \A i \in 1..Len(log) : log[i] = "closed" => i = Len(log)

TasksAgree ==
  \A t \in Tasks : pc[t] \in {"notify", "send", "notifyClosed", "sendClosed"} => cur[t] \in 1..Len(log)

NotesAgree ==
  \A c \in Conns : \A i \in 1..Len(notes[c]) :
    notes[c][i].seq \in 1..Len(log) /\ notes[c][i].event = log[notes[c][i].seq]

(* A read response is a snapshot of an earlier log. *)
RespAgrees ==
  resp.kind = "read" =>
    /\ resp.next \in 1..Len(log)+1
    /\ Agrees(resp.chunks)
    /\ resp.exited => \E i \in 1..resp.next-1 : log[i] = "exited"
    /\ resp.closed => resp.next # 1 /\ log[resp.next-1] = "closed"

IInv == /\ TypeOK /\ ClosedIsLast /\ TasksAgree /\ NotesAgree /\ RespAgrees
        /\ Agrees(pending) /\ PublishedIsPrefix
-----------------------------------------------------------------------------
(* Typed pending events. *)
EventMap(p) == DOMAIN p \subseteq Nat /\ p \in [DOMAIN p -> Events]

(* What publish_ready does: the published events stay typed and, when the map
   and the published events agree with the log, they still do. *)
LEMMA PublishReadyLemma ==
  ASSUME NEW p, published \in Seq(Events), EventMap(p), PublishReady(p)
  PROVE  /\ published' \in Seq(Events) /\ EventMap(pending)'
         /\ Agrees(p) /\ PublishedIsPrefix =>
              /\ Len(published') <= Len(log)
              /\ \A i \in 1..Len(published') : published'[i] = log[i]
              /\ \A s \in DOMAIN pending' : s \in 1..Len(log) /\ pending'[s] = log[s]
<1>1. PICK n \in DOMAIN p \cup {Len(published)} :
        /\ n >= Len(published)
        /\ Len(published)+1..n \subseteq DOMAIN p
        /\ n + 1 \notin DOMAIN p
        /\ published' = [i \in 1..n |-> IF i <= Len(published) THEN published[i] ELSE p[i]]
        /\ pending' = [s \in DOMAIN p \ 1..n |-> p[s]]
  BY DEF PublishReady
<1>2. n \in Nat /\ Len(published) \in Nat
  BY <1>1 DEF EventMap
<1>3. \A i \in 1..n : (IF i <= Len(published) THEN published[i] ELSE p[i]) \in Events
  BY <1>1, <1>2 DEF EventMap
<1>4. published' \in Seq(Events) /\ Len(published') = n
  BY <1>1, <1>2, <1>3
<1>5. EventMap(pending)'
  BY <1>1 DEF EventMap
<1>6. ASSUME Agrees(p), PublishedIsPrefix
      PROVE  /\ Len(published') <= Len(log)
             /\ \A i \in 1..Len(published') : published'[i] = log[i]
             /\ \A s \in DOMAIN pending' : s \in 1..Len(log) /\ pending'[s] = log[s]
  <2>1. \A s \in DOMAIN p : s \in 1..Len(log) /\ p[s] = log[s]
    BY <1>6 DEF Agrees
  <2>2. Len(published') <= Len(log)
    BY <1>1, <1>2, <1>4, <1>6, <2>1 DEF PublishedIsPrefix
  <2>3. \A i \in 1..Len(published') : published'[i] = log[i]
    BY <1>1, <1>2, <1>4, <1>6, <2>1 DEF PublishedIsPrefix
  <2>4. \A s \in DOMAIN pending' : s \in 1..Len(log) /\ pending'[s] = log[s]
    BY <1>1, <2>1
  <2> QED  BY <2>2, <2>3, <2>4
<1>. QED  BY <1>4, <1>5, <1>6

(* or_insert keeps types and agreement with the log. *)
LEMMA OrInsertLemma ==
  ASSUME NEW p, NEW q, EventMap(p), EventMap(q)
  PROVE  /\ EventMap(OrInsert(p, q))
         /\ DOMAIN OrInsert(p, q) = DOMAIN p \cup DOMAIN q
         /\ Agrees(p) /\ Agrees(q) => Agrees(OrInsert(p, q))
BY DEF EventMap, OrInsert, Agrees

(* One event as a map: typed, and agreeing with the log where it says the same. *)
LEMMA SingleLemma ==
  ASSUME NEW s \in Nat, NEW e \in Events
  PROVE  /\ EventMap(Single(s, e)) /\ DOMAIN Single(s, e) = {s}
         /\ s \in 1..Len(log) /\ e = log[s] => Agrees(Single(s, e))
BY DEF EventMap, Single, Agrees
-----------------------------------------------------------------------------
(* The initial states. *)
LEMMA InitIInv == Init => IInv
<1>. SUFFICES ASSUME Init PROVE IInv
  OBVIOUS
<1>1. ServerTypes
  BY StreamsAssumption, FS_CardinalityType DEF Init, ServerTypes, Tasks, Pcs, Events
<1>2. SessionTypes /\ LinkTypes
  <2>1. reader \in [Conns -> BOOLEAN]
    BY Zenon DEF Init
  <2>2. /\ srv \in [Conns -> {"unused", "up", "closed"}]
        /\ cli \in [Conns -> {"unused", "up", "closed"}]
        /\ notes \in [Conns -> Seq(Note)]
    BY DEF Init
  <2>. QED  BY <2>1, <2>2, ConnsAssumption DEF Init, SessionTypes, LinkTypes
<1>3. RecoveryTypes /\ RespAgrees
  BY ConnsAssumption DEF Init, RecoveryTypes, Phases, NoResp, RespAgrees
<1>4. OrderedTypes /\ Agrees(pending) /\ PublishedIsPrefix
  BY DEF Init, OrderedTypes, Agrees, PublishedIsPrefix
<1>5. Active = Streams
  BY DEF Init, Active, Tasks
<1>6. ClosedIsLast /\ TasksAgree /\ NotesAgree
  BY <1>5 DEF Init, ClosedIsLast, Exited, Closed, TasksAgree, NotesAgree
<1>. QED  BY <1>1, <1>2, <1>3, <1>4, <1>6 DEF IInv, TypeOK
-----------------------------------------------------------------------------
(* The server's tasks. *)

(* Numbering one more event changes nothing that agrees with the log. *)
LEMMA LogGrows ==
  ASSUME IInv, NEW e \in Events, log' = Append(log, e),
         UNCHANGED <<notes, resp, pending, published>>
  PROVE  /\ log' \in Seq(Events) /\ Len(log') = Len(log) + 1
         /\ log'[Len(log)+1] = e /\ \A i \in 1..Len(log) : log'[i] = log[i]
         /\ NotesAgree' /\ RespAgrees' /\ Agrees(pending)' /\ PublishedIsPrefix'
<1>1. log \in Seq(Events)
  BY DEF IInv, TypeOK, ServerTypes
<1>2. /\ log' \in Seq(Events) /\ Len(log') = Len(log) + 1 /\ Len(log) \in Nat
      /\ log'[Len(log)+1] = e /\ \A i \in 1..Len(log) : log'[i] = log[i]
  BY <1>1
<1>3. NotesAgree'
  BY <1>2 DEF IInv, NotesAgree
<1>4. RespAgrees'
  BY <1>2 DEF IInv, RespAgrees, Agrees
<1>5. Agrees(pending)'
  BY <1>2 DEF IInv, Agrees
<1>6. PublishedIsPrefix'
  BY <1>2 DEF IInv, PublishedIsPrefix, TypeOK, OrderedTypes
<1>. QED  BY <1>2, <1>3, <1>4, <1>5, <1>6

(* Steps of the server's tasks touch none of the client's state. *)
LEMMA ClientUntouched ==
  ASSUME IInv, UNCHANGED <<session, recovery, ordered>>
  PROVE  SessionTypes' /\ RecoveryTypes' /\ OrderedTypes'
<1>1. SessionTypes'
  BY DEF IInv, TypeOK, SessionTypes, session
<1>2. RecoveryTypes'
  BY DEF IInv, TypeOK, RecoveryTypes, recovery
<1>3. OrderedTypes'
  BY DEF IInv, TypeOK, OrderedTypes, ordered
<1>. QED  BY <1>1, <1>2, <1>3

(* A step that leaves the links alone keeps their types. *)
LEMMA LinksUntouched ==
  ASSUME IInv, UNCHANGED links
  PROVE  LinkTypes'
BY DEF IInv, TypeOK, LinkTypes, links

(* The streams that may still number output are finitely many. *)
LEMMA ActiveFinite == IsFiniteSet(Active) /\ Cardinality(Active) \in Nat
BY StreamsAssumption, FS_Subset, FS_CardinalityType DEF Active

(* One task moves to another place: the active streams after the step. *)
LEMMA ActiveStep ==
  ASSUME NEW t \in Tasks, NEW x, pc \in [Tasks -> Pcs], pc' = [pc EXCEPT ![t] = x]
  PROVE  /\ t \in Streams /\ x \in {"run", "notify", "send"} => Active' = Active \cup {t}
         /\ t \notin Streams => Active' = Active
         /\ x \notin {"run", "notify", "send"} => Active' = Active \ {t}
BY DEF Active, Tasks

(* stream_output keeps the invariant: the new number is the next one. *)
LEMMA OutputChunkStep ==
  ASSUME IInv, NEW t \in Streams, OutputChunk(t)
  PROVE  IInv'
<1>. USE DEF OutputChunk, Number
<1>1. t \in Tasks /\ t \in Events /\ t \notin {"exit", "exited", "closed"}
  BY StreamsAssumption DEF Tasks, Events
<1>2. /\ log' \in Seq(Events) /\ Len(log') = Len(log) + 1 /\ log'[Len(log)+1] = t
      /\ \A i \in 1..Len(log) : log'[i] = log[i]
      /\ NotesAgree' /\ RespAgrees' /\ Agrees(pending)' /\ PublishedIsPrefix'
  BY <1>1, LogGrows DEF links, recovery, ordered
<1>3. ServerTypes'
  BY <1>1, <1>2 DEF IInv, TypeOK, ServerTypes, Pcs
<1>4. SessionTypes' /\ LinkTypes' /\ RecoveryTypes' /\ OrderedTypes'
  BY ClientUntouched, LinksUntouched
<1>5. t \in Active /\ Active' = Active
  BY <1>1, ActiveStep DEF IInv, TypeOK, ServerTypes, Active
<1>6. ~Closed(log)
  BY <1>5 DEF IInv, ClosedIsLast
<1>7. ~Closed(log')
  BY <1>1, <1>2, <1>6 DEF Closed, IInv, TypeOK, ServerTypes
<1>8. Exited(log') => Exited(log)
  BY <1>1, <1>2 DEF Exited, IInv, TypeOK, ServerTypes
<1>9. pc'["exit"] = pc["exit"]
  BY <1>1 DEF IInv, TypeOK, ServerTypes, Tasks
<1>10. \A i \in 1..Len(log') : log'[i] # "closed"
  BY <1>7 DEF Closed
<1>11. ClosedIsLast'
  BY <1>5, <1>7, <1>8, <1>9, <1>10 DEF IInv, ClosedIsLast, Exited, Closed
<1>12. TasksAgree'
  BY <1>1, <1>2 DEF IInv, TasksAgree, TypeOK, ServerTypes
<1>. QED  BY <1>2, <1>3, <1>4, <1>11, <1>12 DEF IInv, TypeOK
(* finish_output_stream takes one stream off open_streams and off Active. *)
LEMMA FinishStreamStep ==
  ASSUME IInv, NEW t \in Streams, FinishStream(t)
  PROVE  IInv'
<1>. USE DEF FinishStream
<1>1. t \in Tasks /\ t # "exit"
  BY StreamsAssumption DEF Tasks
<1>2. ServerTypes'
  BY <1>1, SMTT(20) DEF IInv, TypeOK, ServerTypes, Pcs
<1>3. SessionTypes' /\ LinkTypes' /\ RecoveryTypes' /\ OrderedTypes'
  BY ClientUntouched, LinksUntouched
<1>4. t \in Active /\ Active' = Active \ {t}
  BY <1>1, ActiveStep DEF IInv, TypeOK, ServerTypes, Active
<1>5. Cardinality(Active') = Cardinality(Active) - 1
  BY <1>4, ActiveFinite, FS_RemoveElement
<1>6. pc'["exit"] = pc["exit"]
  BY <1>1 DEF IInv, TypeOK, ServerTypes, Tasks
<1>7. ClosedIsLast'
  BY <1>4, <1>5, <1>6 DEF IInv, ClosedIsLast
<1>8. TasksAgree'
  BY <1>1 DEF IInv, TasksAgree, TypeOK, ServerTypes
<1>9. NotesAgree' /\ RespAgrees' /\ Agrees(pending)' /\ PublishedIsPrefix'
  BY DEF IInv, NotesAgree, RespAgrees, Agrees, PublishedIsPrefix, links, recovery, ordered
<1>. QED  BY <1>2, <1>3, <1>7, <1>8, <1>9 DEF IInv, TypeOK

(* watch_exit numbers the one Exited event. *)
LEMMA ChildExitStep ==
  ASSUME IInv, ChildExit
  PROVE  IInv'
<1>1. "exit" \in Tasks /\ "exit" \notin Streams /\ "exited" \in Events
  BY StreamsAssumption DEF Tasks, Events
<1>2. SessionTypes' /\ LinkTypes' /\ RecoveryTypes' /\ OrderedTypes'
  BY ClientUntouched, LinksUntouched DEF ChildExit
<1>3. Active' = Active
  BY <1>1, ActiveStep DEF IInv, TypeOK, ServerTypes, ChildExit, Number
<1>4. pc["exit"] = "run" /\ pc'["exit"] # "run"
  BY <1>1 DEF IInv, TypeOK, ServerTypes, ChildExit, Number
<1>5. CASE entry
  <2>0. /\ log' = Append(log, "exited") /\ cur' = [cur EXCEPT !["exit"] = Len(log) + 1]
        /\ pc' = [pc EXCEPT !["exit"] = "notify"]
        /\ UNCHANGED <<floor, entry, open, tgt>> /\ UNCHANGED <<links, recovery, ordered>>
    BY <1>5 DEF ChildExit, Number
  <2>1. /\ log' \in Seq(Events) /\ Len(log') = Len(log) + 1 /\ log'[Len(log)+1] = "exited"
        /\ \A i \in 1..Len(log) : log'[i] = log[i]
        /\ NotesAgree' /\ RespAgrees' /\ Agrees(pending)' /\ PublishedIsPrefix'
    BY <1>1, <2>0, LogGrows DEF links, recovery, ordered
  <2>2. ServerTypes'
    BY <1>1, <2>0, <2>1 DEF IInv, TypeOK, ServerTypes, Pcs
  <2>3. ~Closed(log)
    BY <1>4 DEF IInv, ClosedIsLast
  <2>4. ~Closed(log')
    <3>. Len(log) \in Nat
      BY DEF IInv, TypeOK, ServerTypes
    <3>. QED  BY <2>1, <2>3 DEF Closed
  <2>5. \A i \in 1..Len(log') : log'[i] # "closed"
    BY <2>4 DEF Closed
  <2>6. ClosedIsLast'
    BY <1>3, <1>4, <2>0, <2>4, <2>5 DEF IInv, ClosedIsLast, Closed
  <2>7. TasksAgree'
    BY <1>1, <2>0, <2>1 DEF IInv, TasksAgree, TypeOK, ServerTypes
  <2>. QED  BY <1>2, <2>1, <2>2, <2>6, <2>7 DEF IInv, TypeOK
<1>6. CASE ~entry
  <2>0. /\ pc' = [pc EXCEPT !["exit"] = "done"]
        /\ UNCHANGED <<log, cur, floor, entry, open, tgt>> /\ UNCHANGED <<links, recovery, ordered>>
    BY <1>6 DEF ChildExit
  <2>1. ServerTypes'
    BY <1>1, <2>0 DEF IInv, TypeOK, ServerTypes, Pcs
  <2>2. ClosedIsLast'
    BY <1>3, <1>4, <2>0 DEF IInv, ClosedIsLast
  <2>3. TasksAgree'
    BY <1>1, <2>0 DEF IInv, TasksAgree, TypeOK, ServerTypes
  <2>4. NotesAgree' /\ RespAgrees' /\ Agrees(pending)' /\ PublishedIsPrefix'
    BY <2>0 DEF IInv, NotesAgree, RespAgrees, Agrees, PublishedIsPrefix, links, recovery, ordered
  <2>. QED  BY <1>2, <2>1, <2>2, <2>3, <2>4 DEF IInv, TypeOK
<1>. QED  BY <1>5, <1>6

(* maybe_emit_closed numbers Closed when nothing else can be numbered. *)
LEMMA MaybeEmitClosedStep ==
  ASSUME IInv, NEW t \in Tasks, MaybeEmitClosed(t)
  PROVE  IInv'
<1>. USE DEF MaybeEmitClosed, Number
<1>1. SessionTypes' /\ LinkTypes' /\ RecoveryTypes' /\ OrderedTypes'
  BY ClientUntouched, LinksUntouched
<1>2. Active' = Active
  BY ActiveStep, ZenonT(20) DEF IInv, TypeOK, ServerTypes, Active
<1>3. pc'["exit"] = "run" => pc["exit"] = "run"
  BY DEF IInv, TypeOK, ServerTypes, Tasks
<1>4. CASE entry /\ CanClose
  <2>0. Len(log) \in Nat
    BY DEF IInv, TypeOK, ServerTypes
  <2>1. "closed" \in Events /\ pc' = [pc EXCEPT ![t] = "notifyClosed"]
        /\ log' = Append(log, "closed") /\ cur' = [cur EXCEPT ![t] = Len(log) + 1]
    BY <1>4 DEF Events
  <2>2. /\ log' \in Seq(Events) /\ Len(log') = Len(log) + 1 /\ log'[Len(log)+1] = "closed"
        /\ \A i \in 1..Len(log) : log'[i] = log[i]
        /\ NotesAgree' /\ RespAgrees' /\ Agrees(pending)' /\ PublishedIsPrefix'
    BY <2>1, LogGrows DEF links, recovery, ordered
  <2>3. ServerTypes'
    BY <2>1, <2>2 DEF IInv, TypeOK, ServerTypes, Pcs
  <2>4. Active = {} /\ Exited(log) /\ ~Closed(log)
    BY <1>4, ActiveFinite, FS_EmptySet DEF CanClose, IInv, ClosedIsLast
  <2>5. Exited(log')
    BY <2>2, <2>4 DEF Exited, IInv, TypeOK, ServerTypes
  <2>6. \A i \in 1..Len(log') : log'[i] = "closed" => i = Len(log')
    <3>. HIDE DEF MaybeEmitClosed, Number
    <3>. QED  BY <2>0, <2>2, <2>4 DEF Closed
  <2>7. ClosedIsLast'
    BY <1>2, <1>3, <2>4, <2>5, <2>6 DEF IInv, ClosedIsLast
  <2>8. TasksAgree'
    BY <2>1, <2>2 DEF IInv, TasksAgree, TypeOK, ServerTypes
  <2>. QED  BY <1>1, <2>2, <2>3, <2>7, <2>8 DEF IInv, TypeOK
<1>5. CASE ~(entry /\ CanClose)
  <2>1. pc' = [pc EXCEPT ![t] = "done"] /\ UNCHANGED <<log, cur>>
    BY <1>5
  <2>2. ServerTypes'
    BY <2>1 DEF IInv, TypeOK, ServerTypes, Pcs
  <2>3. ClosedIsLast'
    BY <1>2, <1>3, <2>1 DEF IInv, ClosedIsLast
  <2>4. TasksAgree'
    BY <2>1 DEF IInv, TasksAgree, TypeOK, ServerTypes
  <2>5. NotesAgree' /\ RespAgrees' /\ Agrees(pending)' /\ PublishedIsPrefix'
    BY <2>1 DEF IInv, NotesAgree, RespAgrees, Agrees, PublishedIsPrefix, links, recovery, ordered
  <2>. QED  BY <1>1, <2>2, <2>3, <2>4, <2>5 DEF IInv, TypeOK
<1>. QED  BY <1>4, <1>5
(* A task goes on after its event without numbering another. *)
LEMMA TaskMoves ==
  ASSUME IInv, NEW t \in Tasks, pc[t] \in {"notify", "send", "notifyClosed", "sendClosed"},
         NEW x \in Pcs, pc' = [pc EXCEPT ![t] = x],
         pc[t] \in {"notify", "send"} => \/ x \in {"run", "notify", "send"}
                                         \/ t = "exit" /\ x = "closing",
         pc[t] \in {"notifyClosed", "sendClosed"} => x \in {"done", "sendClosed"},
         t = "exit" => x # "run",
         UNCHANGED <<log, entry, open>>
  PROVE  ClosedIsLast'
<1>1. Active' = Active
  BY ActiveStep, StreamsAssumption DEF IInv, TypeOK, ServerTypes, Active, Tasks
<1>2. pc'["exit"] = "run" => pc["exit"] = "run"
  BY DEF IInv, TypeOK, ServerTypes, Tasks
<1>. QED  BY <1>1, <1>2 DEF IInv, ClosedIsLast

(* Where AfterNotify leads. *)
LEMMA AfterNotifyLemma ==
  ASSUME NEW t \in Tasks, pc[t] \in {"notify", "send", "notifyClosed", "sendClosed"}
  PROVE  /\ AfterNotify(t) \in {"run", "closing", "done"}
         /\ pc[t] \in {"notifyClosed", "sendClosed"} => AfterNotify(t) = "done"
         /\ pc[t] \in {"notify", "send"} =>
              AfterNotify(t) = IF t = "exit" THEN "closing" ELSE "run"
BY DEF AfterNotify

(* Cloning the sender keeps the number the task is notifying. *)
LEMMA PickSenderStep ==
  ASSUME IInv, NEW t \in Tasks, PickSender(t)
  PROVE  IInv'
<1>1. SessionTypes' /\ LinkTypes' /\ RecoveryTypes' /\ OrderedTypes'
  BY ClientUntouched, LinksUntouched DEF PickSender
<1>2. NotesAgree' /\ RespAgrees' /\ Agrees(pending)' /\ PublishedIsPrefix'
  BY DEF PickSender, IInv, NotesAgree, RespAgrees, Agrees, PublishedIsPrefix, links, recovery, ordered
<1>3. pc[t] \in {"notify", "notifyClosed"} /\ UNCHANGED <<log, floor, entry, open>>
  BY DEF PickSender
<1>4. CASE sender = None
  <2>1. /\ pc' = [pc EXCEPT ![t] = AfterNotify(t)] /\ cur' = [cur EXCEPT ![t] = 0]
        /\ tgt' = [tgt EXCEPT ![t] = None]
    BY <1>4 DEF PickSender, Notified
  <2>2. AfterNotify(t) \in Pcs
    BY <1>3, AfterNotifyLemma DEF Pcs
  <2>3. ServerTypes'
    BY <1>3, <2>1, <2>2 DEF IInv, TypeOK, ServerTypes
  <2>4. ClosedIsLast'
    BY <1>3, <2>1, <2>2, AfterNotifyLemma, TaskMoves
  <2>5. TasksAgree'
    BY <1>3, <2>1, AfterNotifyLemma DEF IInv, TasksAgree, TypeOK, ServerTypes
  <2>. QED  BY <1>1, <1>2, <2>3, <2>4, <2>5 DEF IInv, TypeOK
<1>5. CASE sender # None
  <2>. DEFINE x == IF pc[t] = "notify" THEN "send" ELSE "sendClosed"
  <2>1. /\ pc' = [pc EXCEPT ![t] = x] /\ tgt' = [tgt EXCEPT ![t] = sender] /\ UNCHANGED cur
    BY <1>5 DEF PickSender, IInv, TypeOK, ServerTypes
  <2>2. x \in Pcs
    BY DEF Pcs
  <2>3. ServerTypes'
    BY <1>3, <2>1, <2>2 DEF IInv, TypeOK, ServerTypes, SessionTypes
  <2>4. ClosedIsLast'
    BY <1>3, <2>1, <2>2, TaskMoves
  <2>5. TasksAgree'
    BY <1>3, <2>1 DEF IInv, TasksAgree, TypeOK, ServerTypes
  <2>. QED  BY <1>1, <1>2, <2>3, <2>4, <2>5 DEF IInv, TypeOK
<1>. QED  BY <1>4, <1>5

(* A queued notification says of its number what the log says. *)
LEMMA SendNoteStep ==
  ASSUME IInv, NEW t \in Tasks, SendNote(t)
  PROVE  IInv'
<1>1. /\ pc[t] \in {"send", "sendClosed"} /\ UNCHANGED <<log, floor, entry, open>>
      /\ pc' = [pc EXCEPT ![t] = AfterNotify(t)] /\ cur' = [cur EXCEPT ![t] = 0]
      /\ tgt' = [tgt EXCEPT ![t] = None]
      /\ UNCHANGED <<session, srv, cli, reader, recovery, ordered>>
  BY DEF SendNote, Notified
<1>2. AfterNotify(t) \in Pcs
  BY <1>1, AfterNotifyLemma DEF Pcs
<1>3. ServerTypes'
  BY <1>1, <1>2 DEF IInv, TypeOK, ServerTypes
<1>4. ClosedIsLast'
  BY <1>1, <1>2, AfterNotifyLemma, TaskMoves
<1>5. TasksAgree'
  BY <1>1, AfterNotifyLemma DEF IInv, TasksAgree, TypeOK, ServerTypes
<1>6. SessionTypes' /\ RecoveryTypes' /\ OrderedTypes'
  BY <1>1, ClientUntouched
<1>7. cur[t] \in 1..Len(log) /\ log[cur[t]] \in Events /\ cur[t] \in Nat
  BY <1>1 DEF IInv, TasksAgree, TypeOK, ServerTypes
<1>. DEFINE n == [seq |-> cur[t], event |-> log[cur[t]]]
<1>8. n \in Note
  BY <1>7 DEF Note
<1>9. notes' = notes \/ notes' = [notes EXCEPT ![tgt[t]] = Append(@, n)]
  BY DEF SendNote
<1>10. notes' \in [Conns -> Seq(Note)] /\ NotesAgree'
  <2>1. notes \in [Conns -> Seq(Note)]
    BY DEF IInv, TypeOK, LinkTypes
  <2>2. CASE notes' = notes
    BY <1>1, <2>1, <2>2 DEF IInv, NotesAgree
  <2>3. CASE notes' = [notes EXCEPT ![tgt[t]] = Append(@, n)]
    <3>1. notes' \in [Conns -> Seq(Note)]
      <4>. HIDE DEF n
      <4>1. \A c \in Conns : Append(notes[c], n) \in Seq(Note)
        BY <1>8, <2>1
      <4>. QED  BY <2>1, <2>3, <4>1
    <3>2. ASSUME NEW c \in Conns, NEW i \in 1..Len(notes'[c])
          PROVE  notes'[c][i].seq \in 1..Len(log) /\ notes'[c][i].event = log[notes'[c][i].seq]
      <4>1. CASE c # tgt[t]
        BY <2>1, <2>3, <3>2, <4>1 DEF IInv, NotesAgree
      <4>2. CASE c = tgt[t]
        <5>1. notes[c] \in Seq(Note) /\ notes'[c] = Append(notes[c], n)
          BY <2>1, <2>3, <4>2
        <5>2. CASE i \in 1..Len(notes[c])
          BY <5>1, <5>2 DEF IInv, NotesAgree
        <5>3. CASE i \notin 1..Len(notes[c])
          <6>1. notes'[c][i] = n
            BY <1>8, <5>1, <5>3, <3>2
          <6>. QED  BY <6>1, <1>7
        <5>. QED  BY <5>2, <5>3
      <4>. QED  BY <4>1, <4>2
    <3>. QED  BY <1>1, <3>1, <3>2 DEF NotesAgree
  <2>. QED  BY <1>9, <2>2, <2>3
<1>11. LinkTypes'
  BY <1>1, <1>10 DEF IInv, TypeOK, LinkTypes
<1>12. RespAgrees' /\ Agrees(pending)' /\ PublishedIsPrefix'
  BY <1>1 DEF IInv, RespAgrees, Agrees, PublishedIsPrefix, recovery, ordered
<1>. QED  BY <1>3, <1>4, <1>5, <1>6, <1>10, <1>11, <1>12 DEF IInv, TypeOK

(* Removing the entry, by retention or expiry, numbers nothing. *)
LEMMA EntryGoneStep ==
  ASSUME IInv, RemoveClosedEntry \/ Expire
  PROVE  IInv'
<1>1. /\ entry' = FALSE /\ UNCHANGED <<log, floor, open, pc, cur, tgt, links, recovery, ordered>>
      /\ sender' = sender /\ hello' = hello /\ expired' \in {TRUE, expired}
  BY DEF RemoveClosedEntry, Expire, session
<1>2. ServerTypes' /\ SessionTypes'
  BY <1>1 DEF IInv, TypeOK, ServerTypes, SessionTypes
<1>3. LinkTypes' /\ NotesAgree'
  BY <1>1, LinksUntouched DEF IInv, NotesAgree, links
<1>4. RecoveryTypes' /\ RespAgrees'
  BY <1>1 DEF IInv, TypeOK, RecoveryTypes, RespAgrees, Agrees, recovery
<1>5. OrderedTypes' /\ Agrees(pending)' /\ PublishedIsPrefix'
  BY <1>1 DEF IInv, TypeOK, OrderedTypes, Agrees, PublishedIsPrefix, ordered
<1>6. Active' = Active
  BY <1>1 DEF Active
<1>7. ClosedIsLast' /\ TasksAgree'
  BY <1>1, <1>6 DEF IInv, ClosedIsLast, TasksAgree
<1>. QED  BY <1>2, <1>3, <1>4, <1>5, <1>7 DEF IInv, TypeOK

(* Every step of the process and of the expiry keeps the invariant. *)
LEMMA ProcessStep ==
  ASSUME IInv, Process
  PROVE  IInv'
BY OutputChunkStep, FinishStreamStep, ChildExitStep, EntryGoneStep, MaybeEmitClosedStep,
   PickSenderStep, SendNoteStep DEF Process, ServerTask
-----------------------------------------------------------------------------
(* Steps of connections and of the client leave the server's process alone. *)

(* A step that leaves the process alone keeps what is said of the log. *)
LEMMA ServerUntouched ==
  ASSUME IInv, UNCHANGED server
  PROVE  ServerTypes' /\ ClosedIsLast' /\ TasksAgree' /\ log' = log
<1>1. UNCHANGED <<log, floor, entry, open, pc, cur, tgt>>
  BY DEF server
<1>2. Active' = Active
  BY <1>1 DEF Active
<1>. QED  BY <1>1, <1>2 DEF IInv, TypeOK, ServerTypes, ClosedIsLast, TasksAgree

(* A step that leaves the publisher alone keeps what it agreed to. *)
LEMMA OrderedUntouched ==
  ASSUME IInv, log' = log, UNCHANGED ordered
  PROVE  OrderedTypes' /\ Agrees(pending)' /\ PublishedIsPrefix'
BY DEF IInv, TypeOK, OrderedTypes, Agrees, PublishedIsPrefix, ordered

(* A step that leaves the recovery alone keeps its response valid. *)
LEMMA RecoveryUntouched ==
  ASSUME IInv, log' = log, UNCHANGED recovery
  PROVE  RecoveryTypes' /\ RespAgrees'
BY DEF IInv, TypeOK, RecoveryTypes, RespAgrees, Agrees, recovery

(* A step that leaves the queues alone keeps them in agreement. *)
LEMMA NotesUntouched ==
  ASSUME IInv, log' = log, notes' = notes
  PROVE  NotesAgree' /\ notes' \in [Conns -> Seq(Note)]
BY DEF IInv, TypeOK, LinkTypes, NotesAgree

(* A queue that only loses notifications still agrees with the log. *)
LEMMA NotesShrink ==
  ASSUME IInv, log' = log, NEW c \in Conns, NEW q \in Seq(Note),
         notes' = [notes EXCEPT ![c] = q],
         NEW k \in Nat, Len(q) + k <= Len(notes[c]),
         \A i \in 1..Len(q) : q[i] = notes[c][i + k]
  PROVE  NotesAgree' /\ notes' \in [Conns -> Seq(Note)]
<1>1. notes \in [Conns -> Seq(Note)]
  BY DEF IInv, TypeOK, LinkTypes
<1>2. notes' \in [Conns -> Seq(Note)] /\ notes'[c] = q
  BY <1>1
<1>3. ASSUME NEW d \in Conns, NEW i \in 1..Len(notes'[d])
      PROVE  notes'[d][i].seq \in 1..Len(log) /\ notes'[d][i].event = log[notes'[d][i].seq]
  <2>1. CASE d # c
    BY <1>1, <1>3, <2>1 DEF IInv, NotesAgree
  <2>2. CASE d = c
    <3>1. i \in 1..Len(q) /\ notes'[d][i] = notes[c][i + k] /\ Len(q) \in Nat /\ Len(notes[c]) \in Nat
      BY <1>1, <1>2, <1>3, <2>2
    <3>2. i + k \in 1..Len(notes[c])
      BY <3>1
    <3>. QED  BY <3>1, <3>2 DEF IInv, NotesAgree
  <2>. QED  BY <2>1, <2>2
<1>. QED  BY <1>2, <1>3 DEF NotesAgree

(* A server end that closes only drops its sender. *)
LEMMA ServerCloseStep ==
  ASSUME IInv, NEW c \in Conns, ServerClose(c)
  PROVE  IInv'
<1>. USE DEF ServerClose
<1>1. ServerTypes' /\ ClosedIsLast' /\ TasksAgree' /\ log' = log
  BY ServerUntouched
<1>2. SessionTypes'
  BY DEF IInv, TypeOK, SessionTypes
<1>3. LinkTypes' /\ NotesAgree'
  BY <1>1, NotesUntouched DEF IInv, TypeOK, LinkTypes
<1>4. RecoveryTypes' /\ RespAgrees' /\ OrderedTypes' /\ Agrees(pending)' /\ PublishedIsPrefix'
  BY <1>1, RecoveryUntouched, OrderedUntouched
<1>. QED  BY <1>1, <1>2, <1>3, <1>4 DEF IInv, TypeOK

(* A resume that is accepted changes the sender and the phase. *)
LEMMA AttachStep ==
  ASSUME IInv, NEW c \in Conns, Attach(c)
  PROVE  IInv'
<1>. USE DEF Attach
<1>1. ServerTypes' /\ ClosedIsLast' /\ TasksAgree' /\ log' = log
  BY ServerUntouched
<1>2. SessionTypes' /\ LinkTypes'
  BY LinksUntouched DEF IInv, TypeOK, SessionTypes
<1>3. NotesAgree'
  BY <1>1, NotesUntouched DEF links
<1>4. RecoveryTypes' /\ RespAgrees'
  BY <1>1, ConnsAssumption DEF IInv, TypeOK, RecoveryTypes, RespAgrees, Agrees, Phases
<1>5. OrderedTypes' /\ Agrees(pending)' /\ PublishedIsPrefix'
  BY <1>1, OrderedUntouched
<1>. QED  BY <1>1, <1>2, <1>3, <1>4, <1>5 DEF IInv, TypeOK

(* What DropClient and FailStatus leave behind. *)
LEMMA DropClientLemma ==
  ASSUME IInv, DropClient, log' = log,
         \/ status = "recovering" /\ UNCHANGED <<status, conn>>
         \/ FailStatus
  PROVE  RecoveryTypes' /\ RespAgrees' /\ cli' \in [Conns -> {"unused", "up", "closed"}]
<1>1. cli' \in [Conns -> {"unused", "up", "closed"}]
  BY DEF IInv, TypeOK, LinkTypes, DropClient
<1>2. RecoveryTypes'
  BY DEF IInv, TypeOK, RecoveryTypes, DropClient, FailStatus, NoResp, Phases
<1>3. RespAgrees'
  BY DEF DropClient, NoResp, RespAgrees
<1>. QED  BY <1>1, <1>2, <1>3

(* A resume that is refused drops the candidate or fails the recovery. *)
LEMMA RefuseStep ==
  ASSUME IInv, NEW c \in Conns, Refuse(c)
  PROVE  IInv'
<1>. USE DEF Refuse
<1>1. ServerTypes' /\ ClosedIsLast' /\ TasksAgree' /\ log' = log
  BY ServerUntouched
<1>2. SessionTypes'
  BY DEF IInv, TypeOK, SessionTypes
<1>3. notes' \in [Conns -> Seq(Note)] /\ NotesAgree'
  BY <1>1, NotesUntouched
<1>4. RecoveryTypes' /\ RespAgrees' /\ cli' \in [Conns -> {"unused", "up", "closed"}]
  <2>1. CASE UNCHANGED <<recovery, cli>>
    BY <1>1, <2>1, RecoveryUntouched DEF IInv, TypeOK, LinkTypes
  <2>2. CASE cand = c /\ DropClient /\ UNCHANGED <<status, conn>>
    BY <1>1, <2>2, DropClientLemma, ConnsAssumption DEF IInv, TypeOK, RecoveryTypes
  <2>3. CASE DropClient /\ FailStatus
    BY <1>1, <2>3, DropClientLemma
  <2>. QED  BY <2>1, <2>2, <2>3
<1>5. LinkTypes'
  BY <1>3, <1>4 DEF IInv, TypeOK, LinkTypes
<1>6. OrderedTypes' /\ Agrees(pending)' /\ PublishedIsPrefix'
  BY <1>1, OrderedUntouched
<1>. QED  BY <1>1, <1>2, <1>3, <1>4, <1>5, <1>6 DEF IInv, TypeOK

(* One notification is published or kept. *)
LEMMA PublishOrderedLemma ==
  ASSUME IInv, log' = log, NEW s \in 1..Len(log), NEW e, e = log[s], PublishOrdered(s, e)
  PROVE  OrderedTypes' /\ Agrees(pending)' /\ PublishedIsPrefix'
<1>1. CASE Live /\ s > Len(published)
  <2>. DEFINE p == OrInsert(pending, Single(s, e))
  <2>1. EventMap(pending) /\ Agrees(pending) /\ PublishedIsPrefix /\ published \in Seq(Events)
    BY DEF IInv, TypeOK, OrderedTypes, EventMap
  <2>2. s \in Nat /\ e \in Events
    BY DEF IInv, TypeOK, ServerTypes
  <2>3. EventMap(Single(s, e)) /\ Agrees(Single(s, e))
    BY <2>2, SingleLemma
  <2>4. EventMap(p) /\ Agrees(p)
    BY <2>1, <2>3, OrInsertLemma
  <2>5. PublishReady(p) /\ failure' = failure
    BY <1>1 DEF PublishOrdered
  <2>. HIDE DEF p
  <2>6. /\ published' \in Seq(Events) /\ EventMap(pending)'
        /\ Len(published') <= Len(log)
        /\ \A i \in 1..Len(published') : published'[i] = log[i]
        /\ \A u \in DOMAIN pending' : u \in 1..Len(log) /\ pending'[u] = log[u]
    BY <2>1, <2>4, <2>5, PublishReadyLemma
  <2>7. OrderedTypes'
    BY <2>5, <2>6 DEF IInv, TypeOK, OrderedTypes, EventMap
  <2>. QED  BY <2>6, <2>7 DEF Agrees, PublishedIsPrefix
<1>2. CASE ~(Live /\ s > Len(published))
  BY <1>2, OrderedUntouched DEF PublishOrdered
<1>. QED  BY <1>1, <1>2

(* handle_server_notification publishes only what the log says. *)
LEMMA ReceiveStep ==
  ASSUME IInv, NEW c \in Conns, Receive(c)
  PROVE  IInv'
<1>1. ServerTypes' /\ ClosedIsLast' /\ TasksAgree' /\ log' = log
  BY ServerUntouched DEF Receive
<1>2. notes[c] \in Seq(Note) /\ notes[c] # <<>> /\ notes' = [notes EXCEPT ![c] = Tail(notes[c])]
  BY DEF Receive, IInv, TypeOK, LinkTypes
<1>3. /\ Tail(notes[c]) \in Seq(Note) /\ Len(Tail(notes[c])) + 1 <= Len(notes[c])
      /\ \A i \in 1..Len(Tail(notes[c])) : Tail(notes[c])[i] = notes[c][i + 1]
  BY <1>2
<1>4. NotesAgree' /\ notes' \in [Conns -> Seq(Note)]
  BY <1>1, <1>2, <1>3, NotesShrink
<1>5. 1 \in 1..Len(notes[c]) /\ Head(notes[c]) = notes[c][1]
  BY <1>2
<1>6. Head(notes[c]).seq \in 1..Len(log) /\ Head(notes[c]).event = log[Head(notes[c]).seq]
  BY <1>5 DEF IInv, NotesAgree
<1>7. OrderedTypes' /\ Agrees(pending)' /\ PublishedIsPrefix'
  BY <1>1, <1>6, PublishOrderedLemma DEF Receive
<1>8. SessionTypes' /\ LinkTypes'
  BY <1>4 DEF Receive, IInv, TypeOK, SessionTypes, LinkTypes, session
<1>9. RecoveryTypes' /\ RespAgrees'
  BY <1>1, RecoveryUntouched DEF Receive
<1>. QED  BY <1>1, <1>4, <1>7, <1>8, <1>9 DEF IInv, TypeOK
(* Closing a client end loses notifications and touches nothing else that
   the invariant speaks of. *)
LEMMA ClientCloseStep ==
  ASSUME IInv, NEW c \in Conns, ClientClose(c)
  PROVE  IInv'
<1>1. ServerTypes' /\ ClosedIsLast' /\ TasksAgree' /\ log' = log
  BY ServerUntouched DEF ClientClose
<1>2. PICK k \in 0..Len(notes[c]) : notes' = [notes EXCEPT ![c] = SubSeq(notes[c], 1, k)]
  BY DEF ClientClose, IInv, TypeOK, LinkTypes
<1>3. notes[c] \in Seq(Note)
  BY DEF IInv, TypeOK, LinkTypes
<1>4. /\ SubSeq(notes[c], 1, k) \in Seq(Note) /\ Len(SubSeq(notes[c], 1, k)) + 0 <= Len(notes[c])
      /\ \A i \in 1..Len(SubSeq(notes[c], 1, k)) : SubSeq(notes[c], 1, k)[i] = notes[c][i + 0]
  BY <1>3
<1>5. NotesAgree' /\ notes' \in [Conns -> Seq(Note)]
  BY <1>1, <1>2, <1>4, NotesShrink
<1>6. SessionTypes' /\ LinkTypes'
  BY <1>5 DEF ClientClose, IInv, TypeOK, SessionTypes, LinkTypes, session
<1>7. RecoveryTypes' /\ RespAgrees' /\ OrderedTypes' /\ Agrees(pending)' /\ PublishedIsPrefix'
  BY <1>1, RecoveryUntouched, OrderedUntouched DEF ClientClose
<1>. QED  BY <1>1, <1>5, <1>6, <1>7 DEF IInv, TypeOK

(* request_recovery leaves Connected without a candidate. *)
LEMMA RequestRecoveryLemma ==
  ASSUME IInv, log' = log, NEW c \in Conns, RequestRecovery(c), UNCHANGED <<cand, phase, asked, resp>>
  PROVE  RecoveryTypes' /\ RespAgrees'
BY DEF RequestRecovery, IInv, TypeOK, RecoveryTypes, RespAgrees, Agrees

(* Emptying a queue. *)
LEMMA NotesCleared ==
  ASSUME IInv, log' = log, NEW c \in Conns, notes' = [notes EXCEPT ![c] = <<>>]
  PROVE  NotesAgree' /\ notes' \in [Conns -> Seq(Note)]
<1>1. Len(notes[c]) \in Nat
  BY DEF IInv, TypeOK, LinkTypes
<1>2. <<>> \in Seq(Note) /\ Len(<<>>) + 0 <= Len(notes[c])
  BY <1>1
<1>3. \A i \in 1..Len(<<>>) : <<>>[i] = notes[c][i + 0]
  OBVIOUS
<1>. QED  BY <1>2, <1>3, NotesShrink

(* A reader that ends keeps the invariant. *)
LEMMA ReaderStep ==
  ASSUME IInv, NEW c \in Conns, Disconnected(c) \/ HandlerError(c) \/ ReaderGone(c)
  PROVE  IInv'
<1>1. UNCHANGED server /\ UNCHANGED session /\ UNCHANGED ordered /\ srv' = srv
  BY DEF Disconnected, HandlerError, ReaderGone
<1>2. ServerTypes' /\ ClosedIsLast' /\ TasksAgree' /\ log' = log
  BY <1>1, ServerUntouched
<1>3. NotesAgree' /\ notes' \in [Conns -> Seq(Note)]
  BY <1>2, NotesCleared, NotesUntouched DEF Disconnected, HandlerError, ReaderGone
<1>4. RecoveryTypes' /\ RespAgrees'
  BY <1>2, RequestRecoveryLemma, RecoveryUntouched DEF Disconnected, HandlerError, ReaderGone
<1>5. cli' \in [Conns -> {"unused", "up", "closed"}]
  BY DEF Disconnected, HandlerError, ReaderGone, IInv, TypeOK, LinkTypes
<1>6. reader' \in [Conns -> BOOLEAN]
  BY DEF Disconnected, HandlerError, ReaderGone, IInv, TypeOK, LinkTypes
<1>7. SessionTypes' /\ LinkTypes'
  BY <1>1, <1>3, <1>5, <1>6 DEF IInv, TypeOK, SessionTypes, LinkTypes, session
<1>8. OrderedTypes' /\ Agrees(pending)' /\ PublishedIsPrefix'
  BY <1>1, <1>2, OrderedUntouched
<1>. QED  BY <1>2, <1>3, <1>4, <1>7, <1>8 DEF IInv, TypeOK

(* A fresh candidate starts with nothing received. *)
LEMMA ConnectStep ==
  ASSUME IInv, NEW c \in Conns, Connect(c)
  PROVE  IInv'
<1>. USE DEF Connect
<1>1. ServerTypes' /\ ClosedIsLast' /\ TasksAgree' /\ log' = log
  BY ServerUntouched
<1>2. SessionTypes'
  BY DEF IInv, TypeOK, SessionTypes
<1>3. NotesAgree' /\ LinkTypes'
  BY <1>1, NotesUntouched DEF IInv, TypeOK, LinkTypes
<1>4. RecoveryTypes' /\ RespAgrees'
  BY <1>1, ConnsAssumption DEF IInv, TypeOK, RecoveryTypes, RespAgrees, Agrees, Phases
<1>5. OrderedTypes' /\ Agrees(pending)' /\ PublishedIsPrefix'
  BY <1>1, OrderedUntouched
<1>. QED  BY <1>1, <1>2, <1>3, <1>4, <1>5 DEF IInv, TypeOK

(* Every step of a connection keeps the invariant. *)
LEMMA LinkStep ==
  ASSUME IInv, NEW c \in Conns, Link(c)
  PROVE  IInv'
BY ServerCloseStep, AttachStep, RefuseStep, ReceiveStep, ClientCloseStep, ReaderStep, ConnectStep
   DEF Link

-----------------------------------------------------------------------------
(* Recovery. *)

(* The candidate is given up, alone or with the whole recovery. *)
LEMMA DropStep ==
  ASSUME IInv, RetryLater \/ RecoveryFails
  PROVE  IInv'
<1>1. UNCHANGED <<server, session, srv, notes, reader, ordered>> /\ DropClient
      /\ ((status = "recovering" /\ UNCHANGED <<status, conn>>) \/ FailStatus)
  BY DEF RetryLater, RecoveryFails
<1>2. ServerTypes' /\ ClosedIsLast' /\ TasksAgree' /\ log' = log
  BY <1>1, ServerUntouched
<1>3. RecoveryTypes' /\ RespAgrees' /\ cli' \in [Conns -> {"unused", "up", "closed"}]
  BY <1>1, <1>2, DropClientLemma
<1>4. NotesAgree' /\ LinkTypes' /\ SessionTypes'
  BY <1>1, <1>2, <1>3, NotesUntouched DEF IInv, TypeOK, LinkTypes, SessionTypes, session
<1>5. OrderedTypes' /\ Agrees(pending)' /\ PublishedIsPrefix'
  BY <1>1, <1>2, OrderedUntouched
<1>. QED  BY <1>2, <1>3, <1>4, <1>5 DEF IInv, TypeOK

(* Steps that change only the progress of the recovery. *)
LEMMA OnlyRecovery ==
  ASSUME IInv, UNCHANGED <<server, session, links, ordered>>, RecoveryTypes', RespAgrees'
  PROVE  IInv'
<1>1. ServerTypes' /\ ClosedIsLast' /\ TasksAgree' /\ log' = log
  BY ServerUntouched
<1>2. NotesAgree' /\ LinkTypes' /\ SessionTypes'
  BY <1>1, NotesUntouched, LinksUntouched DEF IInv, TypeOK, SessionTypes, session, links
<1>3. OrderedTypes' /\ Agrees(pending)' /\ PublishedIsPrefix'
  BY <1>1, OrderedUntouched
<1>. QED  BY <1>1, <1>2, <1>3 DEF IInv, TypeOK

(* recover_processes asks from the last published event. *)
LEMMA AskStep ==
  ASSUME IInv, AskMissing \/ ReadError \/ Install
  PROVE  IInv'
<1>1. UNCHANGED <<server, session, links, ordered>> /\ resp' = resp /\ log' = log
  BY DEF AskMissing, ReadError, Install, server
<1>2. RespAgrees'
  BY <1>1 DEF IInv, RespAgrees, Agrees
<1>3. Len(published) \in Nat
  BY DEF IInv, TypeOK, OrderedTypes
<1>4. RecoveryTypes'
  BY <1>1, <1>3 DEF AskMissing, ReadError, Install, IInv, TypeOK, RecoveryTypes, Phases
<1>. QED  BY <1>1, <1>2, <1>4, OnlyRecovery

(* exec_read answers with a snapshot of the log. *)
LEMMA AnswerReadStep ==
  ASSUME IInv, AnswerRead
  PROVE  IInv'
<1>1. UNCHANGED <<server, session, links, ordered>> /\ log' = log
  BY DEF AnswerRead, server
<1>2. RecoveryTypes'
  BY DEF AnswerRead, Snapshot, NoResp, IInv, TypeOK, RecoveryTypes, Phases
<1>3. RespAgrees'
  <2>1. CASE ~entry
    BY <2>1 DEF AnswerRead, NoResp, RespAgrees
  <2>2. CASE entry
    <3>1. resp' = Snapshot
      BY <2>2 DEF AnswerRead
    <3>2. log \in Seq(Events) /\ Len(log) \in Nat
      BY DEF IInv, TypeOK, ServerTypes
    <3>3. /\ Snapshot.next = Len(log) + 1 /\ Snapshot.next \in 1..Len(log)+1
          /\ Snapshot.exited <=> Exited(log)
          /\ Snapshot.closed <=> Closed(log)
      BY <3>2 DEF Snapshot
    <3>4. \A s \in DOMAIN Snapshot.chunks : s \in 1..Len(log) /\ Snapshot.chunks[s] = log[s]
      BY <3>2 DEF Snapshot
    <3>5. Closed(log) => Len(log) # 0 /\ log[Len(log)] = "closed"
      BY <3>2 DEF Closed, IInv, ClosedIsLast
    <3>. QED
      <4>. HIDE DEF Snapshot
      <4>. QED  BY <1>1, <3>1, <3>2, <3>3, <3>4, <3>5 DEF RespAgrees, Agrees, Exited
  <2>. QED  BY <2>1, <2>2
<1>. QED  BY <1>1, <1>2, <1>3, OnlyRecovery

(* Failing the session empties pending. *)
LEMMA SetFailureLemma ==
  ASSUME IInv, log' = log, NEW why \in {"gap", "conflict", "unknown", "transport"},
         SetFailure(why)
  PROVE  OrderedTypes' /\ Agrees(pending)' /\ PublishedIsPrefix'
<1>1. CASE Live
  BY <1>1 DEF SetFailure, IInv, TypeOK, OrderedTypes, Agrees, PublishedIsPrefix
<1>2. CASE ~Live
  BY <1>2, OrderedUntouched DEF SetFailure
<1>. QED  BY <1>1, <1>2
(* The maps recover_events builds from pending and the response agree with
   the log. *)
LEMMA RecoveredMaps ==
  ASSUME IInv, resp.kind = "read", Live, Target > Len(published)
  PROVE  /\ EventMap(WithChunks) /\ Agrees(WithChunks)
         /\ EventMap(WithClosed) /\ Agrees(WithClosed)
         /\ Target \in 1..Len(log)
<1>1. log \in Seq(Events) /\ Len(log) \in Nat /\ Len(published) \in Nat
  BY DEF IInv, TypeOK, ServerTypes, OrderedTypes
<1>2. /\ resp.next \in 1..Len(log)+1 /\ Agrees(resp.chunks)
      /\ resp.closed => log[resp.next-1] = "closed"
  BY DEF IInv, RespAgrees
<1>3. Target \in 1..Len(log) /\ (resp.closed => log[Target] = "closed")
  BY <1>1, <1>2 DEF Target
<1>4. EventMap(pending) /\ Agrees(pending)
  BY DEF IInv, TypeOK, OrderedTypes, EventMap
<1>. DEFINE q == [s \in {i \in DOMAIN resp.chunks : i > Len(published)} |-> resp.chunks[s]]
<1>5. EventMap(q) /\ Agrees(q)
  BY <1>1, <1>2 DEF EventMap, Agrees
<1>6. EventMap(WithChunks) /\ Agrees(WithChunks)
  <2>. HIDE DEF q
  <2>. QED  BY <1>4, <1>5, OrInsertLemma DEF WithChunks, q
<1>7. EventMap(WithClosed) /\ Agrees(WithClosed)
  <2>1. CASE resp.closed
    <3>1. EventMap(Single(Target, "closed")) /\ Agrees(Single(Target, "closed"))
      <4>1. Target \in Nat /\ "closed" \in Events
        BY <1>1, <1>3 DEF Events
      <4>2. Target \in 1..Len(log) /\ "closed" = log[Target]
        BY <1>3, <2>1
      <4>. HIDE DEF Target
      <4>. QED  BY <4>1, <4>2, SingleLemma
    <3>2. WithClosed = OrInsert(WithChunks, Single(Target, "closed"))
      BY <2>1 DEF WithClosed
    <3>. QED  BY <1>6, <3>1, <3>2, OrInsertLemma
  <2>2. CASE ~resp.closed
    BY <1>6, <2>2 DEF WithClosed
  <2>. QED  BY <2>1, <2>2
<1>. QED  BY <1>3, <1>6, <1>7

(* When the exit is to be inferred, its number is among the missing ones. *)
LEMMA ExitIsMissing ==
  ASSUME IInv, resp.kind = "read", Live, Target > Len(published), InferExit
  PROVE  \E i \in Missing : i \in 1..Len(log) /\ log[i] = "exited"
<1>1. Len(log) \in Nat /\ Len(published) \in Nat
  BY DEF IInv, TypeOK, ServerTypes, OrderedTypes
<1>2. Target \in 1..Len(log) /\ Agrees(WithClosed)
  BY RecoveredMaps
<1>3. PICK i \in 1..Target : log[i] = "exited"
  BY DEF IInv, RespAgrees, InferExit, Target
<1>4. i > Len(published)
  <2>1. SUFFICES ASSUME i <= Len(published) PROVE FALSE
    BY <1>1, <1>2, <1>3
  <2>2. i \in 1..Len(published)
    BY <1>1, <1>2, <1>3, <2>1
  <2>3. published[i] = "exited"
    BY <1>3, <2>2 DEF IInv, PublishedIsPrefix
  <2>. QED  BY <2>2, <2>3 DEF InferExit, ExitKnown, Exited
<1>5. i \notin DOMAIN WithClosed
  <2>. HIDE DEF WithClosed, Target
  <2>1. SUFFICES ASSUME i \in DOMAIN WithClosed PROVE FALSE
    OBVIOUS
  <2>2. WithClosed[i] = "exited" /\ i <= Target
    BY <1>2, <1>3, <2>1 DEF Agrees
  <2>. QED  BY <2>1, <2>2 DEF InferExit, ExitKnown
<1>6. i \in Missing
  BY <1>1, <1>2, <1>3, <1>4, <1>5 DEF Missing
<1>. QED  BY <1>1, <1>2, <1>3, <1>6

(* The number that is inferred to be the exit's is the exit's. *)
LEMMA InferredExit ==
  ASSUME IInv, resp.kind = "read", Live, Target > Len(published),
         InferExit, NEW s \in Missing, Missing = {s}
  PROVE  s \in 1..Len(log) /\ log[s] = "exited"
BY ExitIsMissing


(* Publishing a map that agrees with the log. *)
LEMMA PublishAgreeing ==
  ASSUME IInv, log' = log, failure' = failure, NEW p, EventMap(p), Agrees(p), PublishReady(p)
  PROVE  OrderedTypes' /\ Agrees(pending)' /\ PublishedIsPrefix'
<1>1. published \in Seq(Events) /\ PublishedIsPrefix
  BY DEF IInv, TypeOK, OrderedTypes
<1>2. /\ published' \in Seq(Events) /\ EventMap(pending)'
      /\ Len(published') <= Len(log)
      /\ \A i \in 1..Len(published') : published'[i] = log[i]
      /\ \A u \in DOMAIN pending' : u \in 1..Len(log) /\ pending'[u] = log[u]
  BY <1>1, PublishReadyLemma
<1>3. OrderedTypes'
  BY <1>2 DEF IInv, TypeOK, OrderedTypes, EventMap
<1>. QED  BY <1>2, <1>3 DEF Agrees, PublishedIsPrefix

(* recover_events publishes the prefix the response completes, or refuses it. *)
LEMMA RecoverEventsStep ==
  ASSUME IInv, RecoverEvents
  PROVE  IInv'
<1>1. /\ UNCHANGED <<server, session, links, status, conn, cand, asked>>
      /\ phase = "answered" /\ resp.kind = "read"
  BY DEF RecoverEvents
<1>2. ServerTypes' /\ ClosedIsLast' /\ TasksAgree' /\ log' = log
  BY <1>1, ServerUntouched
<1>3. NotesAgree' /\ LinkTypes' /\ SessionTypes'
  BY <1>1, <1>2, NotesUntouched, LinksUntouched DEF IInv, TypeOK, SessionTypes, session, links
<1>4. CASE resp' = NoResp /\ phase' = "applied" /\ UNCHANGED ordered
  <2>1. RecoveryTypes' /\ RespAgrees'
    BY <1>1, <1>4 DEF IInv, TypeOK, RecoveryTypes, RespAgrees, NoResp, Phases
  <2>. QED  BY <1>2, <1>3, <1>4, <2>1, OrderedUntouched DEF IInv, TypeOK
<1>5. CASE Live /\ Target > Len(published) /\ Recovered
  <2>1. RecoveryTypes' /\ RespAgrees' /\ failure' = failure
    BY <1>1, <1>5 DEF Recovered, IInv, TypeOK, RecoveryTypes, RespAgrees, NoResp, Phases
  <2>2. EventMap(WithClosed) /\ Agrees(WithClosed)
    BY <1>1, <1>5, RecoveredMaps
  <2>3. CASE PublishReady(WithClosed)
    BY <1>2, <1>3, <2>1, <2>2, <2>3, PublishAgreeing DEF IInv, TypeOK
  <2>4. CASE InferExit /\ \E s \in Missing :
               Missing = {s} /\ PublishReady(OrInsert(WithClosed, Single(s, "exited")))
    <3>1. PICK s \in Missing :
               Missing = {s} /\ PublishReady(OrInsert(WithClosed, Single(s, "exited")))
      BY <2>4
    <3>2. s \in 1..Len(log) /\ log[s] = "exited" /\ s \in Nat
      BY <1>1, <1>5, <2>4, <3>1, InferredExit DEF IInv, TypeOK, ServerTypes
    <3>3. EventMap(Single(s, "exited")) /\ Agrees(Single(s, "exited"))
      BY <3>2, SingleLemma DEF Events
    <3>4. EventMap(OrInsert(WithClosed, Single(s, "exited"))) /\ Agrees(OrInsert(WithClosed, Single(s, "exited")))
      BY <2>2, <3>3, OrInsertLemma
    <3>. QED  BY <1>2, <1>3, <2>1, <3>1, <3>4, PublishAgreeing DEF IInv, TypeOK
  <2>. QED  BY <1>5, <2>3, <2>4 DEF Recovered
<1>6. CASE Live /\ Target > Len(published) /\ \E why \in {"gap", "conflict"} : Refused(why)
  <2>1. PICK why \in {"gap", "conflict"} : Refused(why)
    BY <1>6
  <2>2. RecoveryTypes' /\ RespAgrees' /\ UNCHANGED <<published, failure>>
    BY <1>1, <2>1 DEF Refused, IInv, TypeOK, RecoveryTypes, RespAgrees, NoResp, Phases
  <2>3. EventMap(pending') /\ \A u \in DOMAIN pending' : u \in 1..Len(log) /\ pending'[u] = log[u]
    <3>1. pending' = WithChunks \/ pending' = WithClosed
      BY <2>1 DEF Refused
    <3>2. EventMap(WithChunks) /\ Agrees(WithChunks) /\ EventMap(WithClosed) /\ Agrees(WithClosed)
      BY <1>1, <1>6, RecoveredMaps
    <3>. QED  BY <3>1, <3>2 DEF Agrees
  <2>4. OrderedTypes' /\ Agrees(pending)' /\ PublishedIsPrefix'
    BY <1>2, <2>2, <2>3 DEF IInv, TypeOK, OrderedTypes, EventMap, Agrees, PublishedIsPrefix
  <2>. QED  BY <1>2, <1>3, <2>2, <2>4 DEF IInv, TypeOK
<1>. QED  BY <1>4, <1>5, <1>6 DEF RecoverEvents

(* Declaring the session failed publishes nothing. *)
LEMMA GiveUpStep ==
  ASSUME IInv, GiveUpProcess \/ FailSessions
  PROVE  IInv'
<1>1. UNCHANGED <<server, session, links>>
  BY DEF GiveUpProcess, FailSessions
<1>2. ServerTypes' /\ ClosedIsLast' /\ TasksAgree' /\ log' = log
  BY <1>1, ServerUntouched
<1>3. NotesAgree' /\ LinkTypes' /\ SessionTypes'
  BY <1>1, <1>2, NotesUntouched, LinksUntouched DEF IInv, TypeOK, SessionTypes, session, links
<1>4. \E why \in {"gap", "conflict", "unknown", "transport"} : SetFailure(why)
  BY DEF GiveUpProcess, FailSessions, IInv, TypeOK, RecoveryTypes
<1>5. OrderedTypes' /\ Agrees(pending)' /\ PublishedIsPrefix'
  BY <1>2, <1>4, SetFailureLemma
<1>6. CASE GiveUpProcess
  <2>1. RecoveryTypes' /\ RespAgrees'
    BY <1>6 DEF GiveUpProcess, IInv, TypeOK, RecoveryTypes, RespAgrees, NoResp, Phases
  <2>. QED  BY <1>2, <1>3, <1>5, <2>1 DEF IInv, TypeOK
<1>7. CASE FailSessions
  <2>1. RecoveryTypes' /\ RespAgrees'
    BY <1>2, <1>7, RecoveryUntouched DEF FailSessions
  <2>. QED  BY <1>2, <1>3, <1>5, <2>1 DEF IInv, TypeOK
<1>. QED  BY <1>6, <1>7

-----------------------------------------------------------------------------
(* Every step, and stuttering, keeps the inductive invariant. *)
LEMMA Inductive == IInv /\ [Next]_vars => IInv'
<1>. SUFFICES ASSUME IInv, [Next]_vars PROVE IInv'
  OBVIOUS
<1>1. ASSUME Recovery PROVE IInv'
  BY <1>1, DropStep, AskStep, AnswerReadStep, RecoverEventsStep, GiveUpStep DEF Recovery
<1>2. ASSUME UNCHANGED vars PROVE IInv'
  <2>1. UNCHANGED <<server, session, links, ordered>> /\ UNCHANGED recovery /\ log' = log
    BY <1>2 DEF vars, server
  <2>. QED  BY <2>1, RecoveryUntouched, OnlyRecovery
<1>. QED  BY <1>1, <1>2, ProcessStep, EntryGoneStep, LinkStep DEF Next

(* For any number of streams, chunks and connections, in every reachable
   state of the server and client code: every variable has its type. *)
THEOREM TypeCorrect == Spec => []TypeOK
<1>1. IInv => TypeOK
  BY DEF IInv
<1>. QED  BY <1>1, InitIInv, Inductive, PTL DEF Spec

(* ... and the subscriber has been shown a prefix of the server's log: no
   event lost, repeated, reordered or invented by the recovery. *)
THEOREM InOrderDelivery == Spec => []PublishedIsPrefix
<1>1. IInv => PublishedIsPrefix
  BY DEF IInv
<1>. QED  BY <1>1, InitIInv, Inductive, PTL DEF Spec
-----------------------------------------------------------------------------
(* What a step can do to the state EventStream speaks of. *)
Unseen  == UNCHANGED <<log, published, failure>>
Numbers == /\ ~Closed(log) /\ \E e \in Events : log' = Append(log, e)
           /\ UNCHANGED <<published, failure>>
Reveals == Live /\ Len(published') >= Len(published) /\ UNCHANGED <<log, failure>>
Fails   == Live /\ failure' # "none" /\ UNCHANGED <<log, published>>

(* publish_ready only extends what is published. *)
LEMMA PublishReadyGrows ==
  ASSUME NEW p, published \in Seq(Events), EventMap(p), PublishReady(p)
  PROVE  Len(published') >= Len(published)
BY DEF PublishReady, EventMap

(* How a step may change log, published and failure: the steps of EventStream. *)
LEMMA StepKinds ==
  ASSUME IInv, [Next]_vars
  PROVE  Unseen \/ Numbers \/ Reveals \/ Fails
<1>1. ASSUME NEW t \in Streams, OutputChunk(t) PROVE Numbers
  <2>1. t \in Active
    BY <1>1 DEF OutputChunk, Active
  <2>2. ~Closed(log)
    BY <2>1 DEF IInv, ClosedIsLast
  <2>. QED  BY <1>1, <2>2 DEF OutputChunk, Number, Numbers, Events, ordered
<1>2. ASSUME NEW t \in Streams, FinishStream(t) PROVE Unseen
  BY <1>2 DEF FinishStream, Unseen, ordered
<1>3. ASSUME ChildExit PROVE Unseen \/ Numbers
  <2>1. ~Closed(log)
    BY <1>3 DEF ChildExit, IInv, ClosedIsLast
  <2>. QED  BY <1>3, <2>1 DEF ChildExit, Number, Numbers, Unseen, Events, ordered
<1>4. ASSUME RemoveClosedEntry \/ Expire PROVE Unseen
  BY <1>4 DEF RemoveClosedEntry, Expire, Unseen, ordered
<1>5. ASSUME NEW t \in Tasks, MaybeEmitClosed(t) PROVE Unseen \/ Numbers
  BY <1>5 DEF MaybeEmitClosed, CanClose, Number, Numbers, Unseen, Events, ordered
<1>6. ASSUME NEW t \in Tasks, PickSender(t) \/ SendNote(t) PROVE Unseen
  BY <1>6 DEF PickSender, SendNote, Unseen, ordered
<1>7. ASSUME Process PROVE Unseen \/ Numbers
  BY <1>1, <1>2, <1>3, <1>4, <1>5, <1>6, <1>7 DEF Process, ServerTask
<1>8. published \in Seq(Events) /\ EventMap(pending) /\ Agrees(pending)
  BY DEF IInv, TypeOK, OrderedTypes, EventMap
<1>9. ASSUME NEW c \in Conns, Receive(c) PROVE Unseen \/ Reveals
  <2>. DEFINE s == Head(notes[c]).seq
              e == Head(notes[c]).event
  <2>1. log' = log /\ PublishOrdered(s, e)
    BY <1>9 DEF Receive, server
  <2>2. CASE Live /\ s > Len(published)
    <3>1. PublishReady(OrInsert(pending, Single(s, e))) /\ failure' = failure
      BY <2>1, <2>2 DEF PublishOrdered
    <3>2. Head(notes[c]) \in Note
      BY <1>9 DEF Receive, IInv, TypeOK, LinkTypes
    <3>3. s \in Nat /\ e \in Events
      BY <3>2 DEF Note
    <3>. HIDE DEF s, e
    <3>4. EventMap(Single(s, e))
      BY <3>3, SingleLemma
    <3>5. EventMap(OrInsert(pending, Single(s, e)))
      BY <1>8, <3>4, OrInsertLemma
    <3>. QED  BY <1>8, <2>1, <2>2, <3>1, <3>5, PublishReadyGrows DEF Reveals
  <2>3. CASE ~(Live /\ s > Len(published))
    BY <2>1, <2>3 DEF PublishOrdered, Unseen, ordered
  <2>. QED  BY <2>2, <2>3
<1>10. ASSUME NEW c \in Conns, Link(c) PROVE Unseen \/ Reveals
  BY <1>9, <1>10 DEF Link, Unseen, ordered, server, ServerClose, Attach, Refuse, ClientClose,
     Disconnected, HandlerError, ReaderGone, Connect
<1>11. ASSUME RecoverEvents PROVE Unseen \/ Reveals
  <2>1. log' = log /\ resp.kind = "read"
    BY <1>11 DEF RecoverEvents, server
  <2>2. CASE Live /\ Target > Len(published) /\ Recovered
    <3>1. EventMap(WithClosed) /\ failure' = failure
      BY <2>1, <2>2, RecoveredMaps DEF Recovered
    <3>2. CASE PublishReady(WithClosed)
      BY <1>8, <2>1, <2>2, <3>1, <3>2, PublishReadyGrows DEF Reveals
    <3>3. CASE \E s \in Missing : PublishReady(OrInsert(WithClosed, Single(s, "exited")))
      <4>1. PICK s \in Missing : PublishReady(OrInsert(WithClosed, Single(s, "exited")))
        BY <3>3
      <4>2. s \in Nat /\ "exited" \in Events
        BY <1>8, <2>1, <2>2, RecoveredMaps DEF Missing, Events, IInv, TypeOK, ServerTypes
      <4>3. EventMap(OrInsert(WithClosed, Single(s, "exited")))
        BY <3>1, <4>2, SingleLemma, OrInsertLemma
      <4>. QED  BY <1>8, <2>1, <2>2, <3>1, <4>1, <4>3, PublishReadyGrows DEF Reveals
    <3>. QED  BY <2>2, <3>2, <3>3 DEF Recovered
  <2>3. CASE ~(Live /\ Target > Len(published) /\ Recovered)
    BY <1>11, <2>1, <2>3 DEF RecoverEvents, Refused, Unseen, ordered
  <2>. QED  BY <2>2, <2>3
<1>12. ASSUME GiveUpProcess \/ FailSessions PROVE Unseen \/ Fails
  BY <1>12 DEF GiveUpProcess, FailSessions, SetFailure, IInv, TypeOK, RecoveryTypes,
     Unseen, Fails, ordered, server
<1>13. ASSUME Recovery PROVE Unseen \/ Reveals \/ Fails
  BY <1>11, <1>12, <1>13 DEF Recovery, RetryLater, AskMissing, AnswerRead, ReadError, Install,
     RecoveryFails, Unseen, ordered, server
<1>14. ASSUME UNCHANGED vars PROVE Unseen
  BY <1>14 DEF vars, Unseen, ordered, server
<1>. QED  BY <1>4, <1>7, <1>10, <1>13, <1>14 DEF Next

(* After Closed or a failure was shown, the subscriber is shown no more. *)
THEOREM EndIsFinal == Spec => NothingAfterTheEnd
<1>1. ASSUME IInv, [Next]_vars
      PROVE  failure # "none" \/ Closed(published) => published' = published /\ failure' = failure
  BY <1>1, StepKinds DEF Unseen, Numbers, Reveals, Fails, Live
<1>2. IInv /\ [Next]_vars => [failure # "none" \/ Closed(published)
                               => published' = published /\ failure' = failure]_vars
  BY <1>1
<1>. QED  BY <1>2, InitIInv, Inductive, PTL DEF Spec, NothingAfterTheEnd

(* The client and the server together implement EventStream: reconnects,
   reordering and recovery are invisible to the subscriber. *)
THEOREM Refinement == Spec => ImplementsEventStream
<1>1. Init => Abstract!Init
  BY DEF Init, Abstract!Init
<1>2. ASSUME IInv, IInv', [Next]_vars
      PROVE  [Abstract!Next]_(Abstract!vars)
  <2>. USE DEF Abstract!vars
  <2>1. CASE Unseen
    BY <2>1 DEF Unseen
  <2>2. CASE Numbers
    BY <2>2 DEF Numbers, Closed, Abstract!Next, Abstract!Emit
  <2>3. CASE Reveals
    <3>1. /\ published \in Seq(Events) /\ published' \in Seq(Events) /\ log \in Seq(Events)
          /\ Len(published') <= Len(log) /\ log' = log /\ failure' = failure /\ failure = "none"
          /\ \A i \in 1..Len(published) : published[i] = log[i]
          /\ \A i \in 1..Len(published') : published'[i] = log[i]
          /\ Len(published') >= Len(published)
      BY <1>2, <2>3 DEF IInv, TypeOK, OrderedTypes, ServerTypes, PublishedIsPrefix, Reveals, Live
    <3>2. CASE Len(published') = Len(published)
      <4>1. published' = published
        BY <3>1, <3>2
      <4>. QED  BY <3>1, <4>1
    <3>3. CASE Len(published') # Len(published)
      <4>1. Len(published') \in Len(published)+1..Len(log)
        BY <3>1, <3>3
      <4>2. published' = [i \in 1..Len(published') |-> log[i]]
        BY <3>1
      <4>. QED  BY <3>1, <4>1, <4>2 DEF Abstract!Next, Abstract!Reveal
    <3>. QED  BY <3>2, <3>3
  <2>4. CASE Fails
    BY <2>4 DEF Fails, Live, Closed, Abstract!Next, Abstract!Fail
  <2>. QED  BY <1>2, <2>1, <2>2, <2>3, <2>4, StepKinds
<1>. QED  BY <1>1, <1>2, InitIInv, Inductive, PTL DEF Spec, ImplementsEventStream, Abstract!Spec
-----------------------------------------------------------------------------
(* No lost disconnect. *)

(* The candidate's reader, too, is there while its transport is: the check of
   install_recovered_client is on the transport. *)
Readers ==
  /\ NoLostDisconnect
  /\ cand # None /\ cli[cand] = "up" => reader[cand]

(* A step of the process is none of the client's. *)
LEMMA ProcessIsServers ==
  ASSUME Process \/ Expire \/ UNCHANGED vars
  PROVE  UNCHANGED <<srv, cli, reader, recovery, ordered, sender, hello>>
BY DEF Process, Expire, vars, ServerTask, OutputChunk, FinishStream, ChildExit, RemoveClosedEntry,
       MaybeEmitClosed, PickSender, SendNote, links, session

(* The reader of a connection ends with its transport or its client. *)
LEMMA ReadersStep ==
  ASSUME IInv, Readers, [Next]_vars
  PROVE  Readers'
<1>0. /\ status = "connected" => conn \in Conns
      /\ cand # None => cand \in Conns /\ status # "connected"
      /\ conn \in Conns \cup {None} /\ (status = "connected" <=> conn # None) /\ None \notin Conns
      /\ cli \in [Conns -> {"unused", "up", "closed"}] /\ reader \in [Conns -> BOOLEAN]
  BY ConnsAssumption DEF IInv, TypeOK, RecoveryTypes, LinkTypes
<1>. USE <1>0 DEF Readers, NoLostDisconnect
<1>1. CASE Process \/ Expire \/ UNCHANGED vars
  <2>1. UNCHANGED <<cli, reader, status, conn, cand>>
    BY <1>1, ProcessIsServers DEF recovery
  <2>. QED  BY <2>1
<1>2. CASE RetryLater \/ RecoveryFails
  BY <1>2 DEF RetryLater, RecoveryFails, DropClient, FailStatus
<1>3. CASE AskMissing \/ AnswerRead \/ RecoverEvents \/ ReadError \/ GiveUpProcess \/ FailSessions
  <2>1. UNCHANGED <<cli, reader, status, conn, cand>>
    BY <1>3 DEF AskMissing, AnswerRead, RecoverEvents, ReadError, GiveUpProcess, FailSessions,
                links, recovery
  <2>. QED  BY <2>1
<1>4. CASE Install
  <2>1. cand # None
    BY <1>4 DEF Install, IInv, TypeOK, RecoveryTypes
  <2>. QED  BY <1>4, <2>1 DEF Install, links
<1>5. ASSUME NEW c \in Conns, Link(c) PROVE Readers'
  <2>1. CASE ServerClose(c) \/ Attach(c) \/ Receive(c)
    <3>1. UNCHANGED <<cli, reader, status, conn, cand>>
      BY <2>1 DEF ServerClose, Attach, Receive, links, recovery
    <3>. QED  BY <3>1
  <2>2. CASE Refuse(c)
    BY <2>2 DEF Refuse, DropClient, FailStatus, recovery
  <2>3. CASE ClientClose(c)
    BY <2>3 DEF ClientClose, recovery
  <2>4. CASE Disconnected(c)
    BY <2>4 DEF Disconnected, RequestRecovery
  <2>5. CASE HandlerError(c)
    BY <2>5 DEF HandlerError, RequestRecovery
  <2>6. CASE ReaderGone(c)
    BY <2>6 DEF ReaderGone, recovery
  <2>7. CASE Connect(c)
    BY <2>7 DEF Connect
  <2>. QED  BY <1>5, <2>1, <2>2, <2>3, <2>4, <2>5, <2>6, <2>7 DEF Link
<1>. QED  BY <1>1, <1>2, <1>3, <1>4, <1>5 DEF Next, Recovery

(* An installed connection has a reader, which will ask for recovery when it
   meets the disconnect: none is overlooked between the check of
   install_recovered_client and the change of status. *)
THEOREM DisconnectsAreNoticed == Spec => []NoLostDisconnect
<1>1. Init => Readers
  BY ConnsAssumption DEF Init, Readers, NoLostDisconnect
<1>2. Readers => NoLostDisconnect
  BY DEF Readers
<1>. QED  BY <1>1, <1>2, InitIInv, Inductive, ReadersStep, PTL DEF Spec
-----------------------------------------------------------------------------
(* Gaps come from eviction only. *)

(* The child exits once. *)
ExitOnce == \A i, j \in 1..Len(log) : log[i] = "exited" /\ log[j] = "exited" => i = j

(* The read asks from no later than the last published event ... *)
AskedLow == phase = "asked" => asked <= Len(published)

(* ... so that a response has all that is missing below its next number, but
   for what was evicted, and knows of the exit and the close. *)
RespComplete ==
  resp.kind = "read" =>
    /\ \A i \in 1..resp.next-1 :
         log[i] \in Streams /\ i > Len(published) => i \in DOMAIN resp.chunks \/ i < floor
    /\ (\E i \in 1..resp.next-1 : log[i] = "exited") => resp.exited
    /\ (\E i \in 1..resp.next-1 : log[i] = "closed") => resp.closed

Evicted == \E s \in 1..floor-1 : s <= Len(log) /\ log[s] \in Streams

GapInv == ExitOnce /\ AskedLow /\ RespComplete /\ GapOnlyAfterEviction

(* Which numbers recover_events has at hand. *)
LEMMA MergedDomains ==
  /\ DOMAIN WithChunks = DOMAIN pending \cup {i \in DOMAIN resp.chunks : i > Len(published)}
  /\ DOMAIN WithClosed = DOMAIN WithChunks \cup (IF resp.closed THEN {Target} ELSE {})
BY DEF WithChunks, WithClosed, OrInsert, Single

(* A response is refused for a gap in which output was evicted, and for
   nothing else. *)
LEMMA RefusedAfterEviction ==
  ASSUME IInv, ExitOnce, RespComplete, resp.kind = "read", Live, Target > Len(published),
         NEW why \in {"gap", "conflict"}, Refused(why)
  PROVE  why = "gap" /\ Evicted
<1>1. /\ Target \in 1..Len(log) /\ Target = resp.next - 1 /\ Agrees(WithClosed)
      /\ Len(log) \in Nat /\ Len(published) \in Nat /\ log \in Seq(Events)
      /\ resp.closed => log[Target] = "closed"
      /\ floor \in Nat
  BY RecoveredMaps DEF IInv, TypeOK, ServerTypes, OrderedTypes, Target, RespAgrees
<1>. DEFINE have == DOMAIN WithClosed
<1>2. /\ resp.closed => Target \in have
      /\ \A i \in DOMAIN resp.chunks : i > Len(published) => i \in have
  BY MergedDomains
<1>3. ~Conflict
  <2>1. SUFFICES ASSUME Conflict PROVE FALSE
    OBVIOUS
  <2>2. WithClosed[Target] = log[Target] /\ log[Target] = "closed"
    BY <1>1, <1>2, <2>1 DEF Conflict, Agrees
  <2>. QED  BY <2>1, <2>2 DEF Conflict
<1>4. /\ why = "gap"
      /\ IF InferExit THEN \A s \in Missing : Missing # {s} ELSE Missing # {}
  BY <1>3 DEF Refused
<1>. HIDE DEF have
<1>5. ASSUME NEW s \in Missing
      PROVE  /\ s \in 1..Target /\ s > Len(published) /\ s \notin have
             /\ log[s] \in Streams \/ log[s] = "exited"
  <2>1. s \in 1..Target /\ s > Len(published) /\ s \notin have
    BY <1>1 DEF Missing, have
  <2>2. log[s] \in Events
    BY <1>1, <2>1
  <2>3. log[s] # "closed"
    <3>1. SUFFICES ASSUME log[s] = "closed" PROVE FALSE
      OBVIOUS
    <3>2. s = Len(log) /\ s = Target
      BY <1>1, <2>1, <3>1 DEF IInv, ClosedIsLast
    <3>3. resp.closed
      BY <1>1, <2>1, <3>1 DEF RespComplete
    <3>. QED  BY <1>2, <2>1, <3>2, <3>3
  <2>. QED  BY <2>1, <2>2, <2>3 DEF Events
<1>6. \E s \in Missing : log[s] \in Streams
  <2>1. SUFFICES ASSUME \A s \in Missing : log[s] = "exited" PROVE FALSE
    BY <1>5
  <2>2. \A s, u \in Missing : s = u
    BY <1>1, <1>5, <2>1 DEF ExitOnce
  <2>3. CASE InferExit
    <3>1. PICK i \in Missing : TRUE
      BY <2>3, ExitIsMissing
    <3>2. Missing = {i}
      BY <2>2
    <3>. QED  BY <1>4, <2>3, <3>2
  <2>4. CASE ~InferExit
    <3>1. PICK i \in Missing : log[i] = "exited"
      BY <1>4, <2>1, <2>4
    <3>2. i \in 1..Target /\ i > Len(published) /\ i \notin have
      BY <1>5
    <3>3. resp.exited
      BY <1>1, <3>1, <3>2 DEF RespComplete
    <3>4. ExitKnown
      BY <2>4, <3>3 DEF InferExit
    <3>5. CASE Exited(published)
      <4>1. PICK j \in 1..Len(published) : published[j] = "exited"
        BY <3>5 DEF Exited
      <4>2. j \in 1..Len(log) /\ log[j] = "exited"
        BY <1>1, <4>1 DEF IInv, PublishedIsPrefix
      <4>3. i = j
        BY <1>1, <3>1, <3>2, <4>2 DEF ExitOnce
      <4>. QED  BY <1>1, <3>2, <4>1, <4>3
    <3>6. CASE \E u \in DOMAIN WithClosed : u <= Target /\ WithClosed[u] = "exited"
      <4>1. PICK u \in have : WithClosed[u] = "exited"
        BY <3>6 DEF have
      <4>2. u \in 1..Len(log) /\ log[u] = "exited"
        BY <1>1, <4>1 DEF Agrees, have
      <4>3. i = u
        BY <1>1, <3>1, <3>2, <4>2 DEF ExitOnce
      <4>. QED  BY <3>2, <4>3
    <3>. QED  BY <3>4, <3>5, <3>6 DEF ExitKnown
  <2>. QED  BY <2>3, <2>4
<1>7. PICK s \in Missing : log[s] \in Streams
  BY <1>6
<1>8. s \in 1..Target /\ s > Len(published) /\ s \notin have
  BY <1>5
<1>9. s < floor
  BY <1>1, <1>2, <1>7, <1>8 DEF RespComplete
<1>. QED  BY <1>1, <1>4, <1>7, <1>8, <1>9 DEF Evicted

(* What is published never shrinks. *)
LEMMA PublishedGrows ==
  ASSUME IInv, [Next]_vars
  PROVE  Len(published') \in Nat /\ Len(published') >= Len(published)
<1>1. published \in Seq(Events) /\ Len(published) \in Nat /\ published' \in Seq(Events)
  BY Inductive DEF IInv, TypeOK, OrderedTypes
<1>2. Len(published') \in Nat
  BY <1>1
<1>. QED  BY <1>1, <1>2, StepKinds DEF Unseen, Numbers, Reveals, Fails

(* Steps that neither ask nor answer nor refuse. *)
Calm ==
  /\ UNCHANGED <<log, floor>>
  /\ resp' \in {resp, NoResp}
  /\ phase' = "asked" => phase = "asked" /\ asked' = asked
  /\ failure' \in {failure, "transport", resp.kind}

LEMMA CalmStep ==
  ASSUME IInv, GapInv, Calm, Len(published') \in Nat, Len(published') >= Len(published)
  PROVE  GapInv'
<1>1. Len(published) \in Nat /\ resp.kind \in {"none", "read", "unknown", "gap", "conflict"}
      /\ asked \in Nat /\ NoResp.kind = "none"
  BY DEF IInv, TypeOK, OrderedTypes, RecoveryTypes, NoResp
<1>2. ExitOnce' /\ AskedLow'
  BY <1>1 DEF GapInv, Calm, ExitOnce, AskedLow
<1>3. RespComplete'
  <2>1. CASE resp' = NoResp
    BY <1>1, <2>1 DEF RespComplete
  <2>2. CASE resp' = resp
    <3>1. ASSUME resp.kind = "read", NEW i \in 1..resp.next-1, log[i] \in Streams, i > Len(published')
          PROVE  i \in DOMAIN resp.chunks \/ i < floor
      <4>1. resp.next \in Nat
        BY <3>1 DEF IInv, RespAgrees, TypeOK, ServerTypes
      <4>2. i > Len(published)
        BY <1>1, <3>1, <4>1
      <4>. QED  BY <3>1, <4>2 DEF GapInv, RespComplete
    <3>. QED  BY <2>2, <3>1 DEF Calm, GapInv, RespComplete
  <2>. QED  BY <2>1, <2>2 DEF Calm
<1>4. GapOnlyAfterEviction'
  BY <1>1 DEF GapInv, Calm, GapOnlyAfterEviction
<1>. QED  BY <1>2, <1>3, <1>4 DEF GapInv

(* The process numbers at most one event, and the exit only once; eviction
   only goes on. *)
LEMMA ProcessNumbers ==
  ASSUME IInv, Process \/ Expire \/ UNCHANGED vars
  PROVE  /\ floor' \in Nat /\ floor' >= floor
         /\ \/ log' = log
            \/ \E e \in Events : log' = Append(log, e) /\ (e = "exited" => ~Exited(log))
<1>1. floor \in Nat /\ Len(log) \in Nat
  BY DEF IInv, TypeOK, ServerTypes
<1>2. ASSUME NEW t \in Streams, OutputChunk(t)
      PROVE  /\ floor' \in Nat /\ floor' >= floor
             /\ \E e \in Events : log' = Append(log, e) /\ (e = "exited" => ~Exited(log))
  BY <1>1, <1>2, StreamsAssumption DEF OutputChunk, Number, Events
<1>3. CASE ChildExit
  <2>1. ~Exited(log)
    BY <1>3 DEF ChildExit, IInv, ClosedIsLast
  <2>. QED  BY <1>1, <1>3, <2>1 DEF ChildExit, Number, Events
<1>4. ASSUME NEW t \in Tasks, MaybeEmitClosed(t)
      PROVE  /\ floor' = floor
             /\ \/ log' = log
                \/ \E e \in Events : log' = Append(log, e) /\ (e = "exited" => ~Exited(log))
  BY <1>4 DEF MaybeEmitClosed, Number, Events
<1>5. CASE \/ \E t \in Streams : FinishStream(t)
           \/ RemoveClosedEntry \/ Expire \/ UNCHANGED vars
           \/ \E t \in Tasks : PickSender(t) \/ SendNote(t)
  <2>1. UNCHANGED <<log, floor>>
    BY <1>5 DEF FinishStream, RemoveClosedEntry, Expire, PickSender, SendNote, vars, server
  <2>. QED  BY <1>1, <2>1
<1>. QED  BY <1>1, <1>2, <1>3, <1>4, <1>5 DEF Process, ServerTask

(* A step of the process keeps GapInv. *)
LEMMA ProcessGap ==
  ASSUME IInv, GapInv, Process \/ Expire \/ UNCHANGED vars
  PROVE  GapInv'
<1>1. UNCHANGED <<phase, asked, resp, published, failure>>
  BY ProcessIsServers DEF recovery, ordered
<1>2. /\ floor' \in Nat /\ floor' >= floor /\ floor \in Nat /\ log \in Seq(Events)
      /\ Len(log) \in Nat
      /\ resp.kind = "read" => resp.next \in 1..Len(log) + 1
  BY ProcessNumbers DEF IInv, TypeOK, ServerTypes, RespAgrees
<1>3. /\ Len(log') \in Nat /\ Len(log') >= Len(log)
      /\ \A i \in 1..Len(log) : log'[i] = log[i]
      /\ ExitOnce'
  <2>1. CASE log' = log
    BY <1>2, <2>1 DEF GapInv, ExitOnce
  <2>2. ASSUME NEW e \in Events, log' = Append(log, e), e = "exited" => ~Exited(log)
        PROVE  /\ Len(log') \in Nat /\ Len(log') >= Len(log)
               /\ \A i \in 1..Len(log) : log'[i] = log[i]
               /\ ExitOnce'
    <3>1. /\ Len(log') = Len(log) + 1 /\ log'[Len(log) + 1] = e
          /\ \A i \in 1..Len(log) : log'[i] = log[i]
      BY <1>2, <2>2
    <3>2. ASSUME NEW i \in 1..Len(log'), NEW j \in 1..Len(log'),
                 log'[i] = "exited", log'[j] = "exited"
          PROVE  i = j
      BY <1>2, <2>2, <3>1, <3>2 DEF GapInv, ExitOnce, Exited
    <3>. QED  BY <1>2, <3>1, <3>2 DEF ExitOnce
  <2>. QED  BY <2>1, <2>2, ProcessNumbers
<1>4. AskedLow'
  BY <1>1 DEF GapInv, AskedLow
<1>5. RespComplete'
  <2>1. SUFFICES ASSUME resp.kind = "read" PROVE RespComplete'
    BY <1>1 DEF RespComplete
  <2>2. resp.next - 1 \in Nat /\ resp.next - 1 <= Len(log)
    BY <1>2, <2>1
  <2>3. \A i \in 1..resp.next-1 : log'[i] = log[i] /\ (i < floor => i < floor')
    BY <1>2, <1>3, <2>2
  <2>. QED  BY <1>1, <2>1, <2>3 DEF GapInv, RespComplete
<1>6. GapOnlyAfterEviction'
  <2>1. ASSUME Evicted PROVE Evicted'
    <3>1. PICK s \in 1..floor-1 : s <= Len(log) /\ log[s] \in Streams
      BY <2>1 DEF Evicted
    <3>2. s \in Nat /\ 1 <= s /\ s < floor /\ s \in 1..Len(log)
      BY <1>2, <3>1
    <3>3. log'[s] = log[s]
      BY <1>3, <3>2
    <3>4. s \in 1..floor'-1 /\ s <= Len(log')
      <4>1. PICK f \in Nat, g \in Nat, l \in Nat, m \in Nat :
              f = floor /\ g = floor' /\ l = Len(log) /\ m = Len(log')
        BY <1>2, <1>3
      <4>2. g >= f /\ m >= l /\ s \in Nat /\ 1 <= s /\ s < f /\ s <= l
        BY <1>2, <1>3, <3>2, <4>1
      <4>3. s \in 1..g-1 /\ s <= m
        BY <4>2
      <4>. QED  BY <4>1, <4>3
    <3>. QED  BY <3>1, <3>3, <3>4 DEF Evicted
  <2>. QED  BY <1>1, <2>1 DEF GapInv, GapOnlyAfterEviction, Evicted
<1>. QED  BY <1>3, <1>4, <1>5, <1>6 DEF GapInv

(* The recovery read. *)
LEMMA ReadGap ==
  ASSUME IInv, GapInv, AskMissing \/ AnswerRead
  PROVE  GapInv'
<1>1. UNCHANGED <<log, floor, published, failure>>
  BY DEF AskMissing, AnswerRead, server, ordered
<1>2. ExitOnce'
  BY <1>1 DEF GapInv, ExitOnce
<1>3. CASE AskMissing
  <2>1. resp' = resp /\ (phase' = "asked" => asked' = Len(published)) /\ Len(published) \in Nat
    BY <1>3 DEF AskMissing, IInv, TypeOK, OrderedTypes
  <2>2. AskedLow' /\ RespComplete' /\ GapOnlyAfterEviction'
    BY <1>1, <2>1 DEF GapInv, AskedLow, RespComplete, GapOnlyAfterEviction
  <2>. QED  BY <1>2, <2>2 DEF GapInv
<1>4. CASE AnswerRead
  <2>1. /\ phase = "asked" /\ phase' = "answered"
        /\ resp' = IF entry THEN Snapshot ELSE [NoResp EXCEPT !.kind = "unknown"]
    BY <1>4 DEF AnswerRead
  <2>2. AskedLow'
    BY <2>1 DEF AskedLow
  <2>3. resp'.kind \in {"read", "unknown"}
    BY <2>1 DEF Snapshot, NoResp
  <2>4. GapOnlyAfterEviction'
    BY <1>1, <2>3 DEF GapInv, GapOnlyAfterEviction
  <2>5. RespComplete'
    <3>1. CASE ~entry
      BY <2>1, <3>1 DEF NoResp, RespComplete
    <3>2. CASE entry
      <4>1. /\ Len(log) \in Nat /\ asked <= Len(published) /\ asked \in Nat
            /\ Len(published) \in Nat /\ floor \in Nat
        BY <2>1 DEF IInv, TypeOK, ServerTypes, OrderedTypes, RecoveryTypes, GapInv, AskedLow
      <4>2. /\ resp'.next = Len(log) + 1
            /\ resp'.exited <=> Exited(log)
            /\ resp'.closed <=> Closed(log)
            /\ DOMAIN resp'.chunks = {i \in 1..Len(log) : i > asked /\ i >= floor /\ log[i] \in Streams}
        BY <2>1, <3>2 DEF Snapshot
      <4>3. resp'.next - 1 = Len(log)
        BY <4>1, <4>2
      <4>4. \A i \in 1..Len(log) : log[i] \in Streams /\ i > Len(published) =>
              i \in DOMAIN resp'.chunks \/ i < floor
        BY <4>1, <4>2
      <4>. QED  BY <1>1, <4>2, <4>3, <4>4 DEF RespComplete, Exited, Closed
    <3>. QED  BY <3>1, <3>2
  <2>. QED  BY <1>2, <2>2, <2>4, <2>5 DEF GapInv
<1>. QED  BY <1>3, <1>4

(* recover_events refuses a response only where output was evicted. *)
LEMMA RecoverEventsGap ==
  ASSUME IInv, GapInv, RecoverEvents, Len(published') \in Nat, Len(published') >= Len(published)
  PROVE  GapInv'
<1>1. UNCHANGED <<log, floor>> /\ resp.kind = "read"
  BY DEF RecoverEvents, server
<1>2. CASE resp' = NoResp /\ phase' = "applied" /\ failure' = failure
  BY <1>1, <1>2, CalmStep DEF Calm
<1>3. CASE Live /\ Target > Len(published) /\ \E why \in {"gap", "conflict"} : Refused(why)
  <2>1. PICK why \in {"gap", "conflict"} : Refused(why)
    BY <1>3
  <2>2. why = "gap" /\ Evicted
    BY <1>1, <1>3, <2>1, RefusedAfterEviction DEF GapInv
  <2>3. resp'.kind = "gap" /\ phase' = "terminating" /\ failure' = failure
    BY <2>1, <2>2 DEF Refused, NoResp
  <2>4. ExitOnce' /\ AskedLow' /\ RespComplete'
    BY <1>1, <2>3 DEF GapInv, ExitOnce, AskedLow, RespComplete
  <2>5. GapOnlyAfterEviction'
    BY <1>1, <2>2, <2>3 DEF GapInv, GapOnlyAfterEviction, Evicted
  <2>. QED  BY <2>4, <2>5 DEF GapInv
<1>. QED  BY <1>2, <1>3 DEF RecoverEvents, Recovered, ordered

LEMMA GapStep ==
  ASSUME IInv, GapInv, [Next]_vars
  PROVE  GapInv'
<1>1. Len(published') \in Nat /\ Len(published') >= Len(published)
  BY PublishedGrows
<1>2. ASSUME NEW c \in Conns, Link(c) PROVE Calm
  <2>1. CASE Receive(c)
    BY <2>1 DEF Receive, PublishOrdered, Calm, server, recovery, ordered
  <2>2. CASE Refuse(c)
    BY <2>2 DEF Refuse, DropClient, Calm, server, recovery, ordered
  <2>3. CASE Attach(c) \/ Connect(c)
    BY <2>3 DEF Attach, Connect, Calm, server, ordered
  <2>4. CASE ServerClose(c) \/ ClientClose(c) \/ Disconnected(c) \/ HandlerError(c) \/ ReaderGone(c)
    BY <2>4 DEF ServerClose, ClientClose, Disconnected, HandlerError, ReaderGone, Calm, server,
                recovery, ordered
  <2>. QED  BY <1>2, <2>1, <2>2, <2>3, <2>4 DEF Link
<1>3. CASE RetryLater \/ ReadError \/ GiveUpProcess \/ Install \/ RecoveryFails \/ FailSessions
  <2>1. Calm
    BY <1>3 DEF RetryLater, ReadError, GiveUpProcess, Install, RecoveryFails, FailSessions,
                DropClient, SetFailure, Calm, server, recovery, ordered
  <2>. QED  BY <1>1, <2>1, CalmStep
<1>. QED  BY <1>1, <1>2, <1>3, CalmStep, ProcessGap, ReadGap, RecoverEventsGap DEF Next, Recovery

(* The client declares a session failed for a gap only if the server really
   evicted output, however notifications, reconnects and the read interleave;
   recovered output and a recovered close never contradict each other. *)
THEOREM GapsComeFromEviction == Spec => []GapOnlyAfterEviction
<1>1. Init => GapInv
  BY DEF Init, GapInv, ExitOnce, AskedLow, RespComplete, GapOnlyAfterEviction, NoResp
<1>2. GapInv => GapOnlyAfterEviction
  BY DEF GapInv
<1>. QED  BY <1>1, <1>2, InitIInv, Inductive, GapStep, PTL DEF Spec
-----------------------------------------------------------------------------
(* Nothing slips between the recovery read and the live notifications. *)

(* The initialize of the installed connection has been handled, and so has
   the candidate's unless it is still waiting for the answer. *)
Greeted == \A c \in hello : c # conn /\ (c = cand => phase = "init")

(* Of the numbers from here on, those not yet published are on their way to
   connection c, if the server sends there and somebody listens. *)
Caught(c, here) ==
  cli[c] = "up" /\ srv[c] = "up" /\ sender = c /\ Live =>
    \A s \in Len(published)+1..Len(log) : s >= here => Underway(s, c)

(* So it is for the installed connection and for a candidate whose recovery is
   done; while a response waits to be applied, for what came after it. *)
Complete ==
  \A c \in Conns, n \in Nat :
    /\ c = conn \/ (c = cand /\ phase = "applied") => Caught(c, 1)
    /\ c = cand /\ phase = "answered" /\ resp.kind = "read" /\ n = resp.next => Caught(c, n)

(* publish_ready drops nothing: what was at hand is published or pending, and
   what was at hand without a gap is published. *)
LEMMA PublishReadyKeeps ==
  ASSUME NEW p, published \in Seq(Events), EventMap(p), PublishReady(p)
  PROVE  /\ \A s \in DOMAIN p : s <= Len(published') \/ s \in DOMAIN pending'
         /\ \A m \in Nat : Len(published)+1..m \subseteq DOMAIN p => Len(published') >= m
<1>1. PICK n \in DOMAIN p \cup {Len(published)} :
        /\ n >= Len(published)
        /\ Len(published)+1..n \subseteq DOMAIN p
        /\ n + 1 \notin DOMAIN p
        /\ published' = [i \in 1..n |-> IF i <= Len(published) THEN published[i] ELSE p[i]]
        /\ pending' = [s \in DOMAIN p \ 1..n |-> p[s]]
  BY DEF PublishReady
<1>2. n \in Nat /\ Len(published) \in Nat /\ DOMAIN p \subseteq Nat
  BY <1>1 DEF EventMap
<1>3. \A i \in 1..n : (IF i <= Len(published) THEN published[i] ELSE p[i]) \in Events
  BY <1>1, <1>2 DEF EventMap
<1>4. Len(published') = n
  BY <1>1, <1>2, <1>3
<1>5. ASSUME NEW s \in DOMAIN p PROVE s <= n \/ s \in DOMAIN pending'
  BY <1>1, <1>2
<1>6. ASSUME NEW m \in Nat, Len(published)+1..m \subseteq DOMAIN p PROVE n >= m
  <2>1. SUFFICES ASSUME n < m PROVE FALSE
    BY <1>2
  <2>2. n + 1 \in Len(published)+1..m
    BY <1>1, <1>2, <2>1
  <2>. QED  BY <1>1, <1>6, <2>2
<1>. QED  BY <1>4, <1>5, <1>6

(* What a received notification adds. *)
LEMMA PublishOrderedKeeps ==
  ASSUME IInv, Live, NEW s \in 1..Len(log), PublishOrdered(s, log[s])
  PROVE  /\ \A u \in DOMAIN pending : u <= Len(published') \/ u \in DOMAIN pending'
         /\ s <= Len(published') \/ s \in DOMAIN pending'
<1>1. EventMap(pending) /\ published \in Seq(Events) /\ Len(published) \in Nat
      /\ s \in Nat /\ log[s] \in Events
  BY DEF IInv, TypeOK, OrderedTypes, ServerTypes, EventMap
<1>2. CASE s > Len(published)
  <2>1. EventMap(Single(s, log[s])) /\ DOMAIN Single(s, log[s]) = {s}
    BY <1>1, SingleLemma
  <2>2. PICK p : p = OrInsert(pending, Single(s, log[s]))
    OBVIOUS
  <2>3. EventMap(p) /\ DOMAIN p = DOMAIN pending \cup {s}
    BY <1>1, <2>1, <2>2, OrInsertLemma
  <2>4. PublishReady(p)
    BY <1>2, <2>2 DEF PublishOrdered
  <2>5. \A u \in DOMAIN p : u <= Len(published') \/ u \in DOMAIN pending'
    BY <1>1, <2>3, <2>4, PublishReadyKeeps
  <2>. QED  BY <2>3, <2>5
<1>3. CASE ~(s > Len(published))
  BY <1>1, <1>3 DEF PublishOrdered, ordered
<1>. QED  BY <1>2, <1>3

(* A response that is applied leaves nothing below its next number
   unpublished, and one that is refused drops no pending event. *)
LEMMA RecoverKeeps ==
  ASSUME IInv, RecoverEvents, Live
  PROVE  /\ \A u \in DOMAIN pending : u <= Len(published') \/ u \in DOMAIN pending'
         /\ phase' = "applied" => Len(published') >= Target
<1>1. resp.kind = "read" /\ published \in Seq(Events) /\ Len(published) \in Nat
  BY DEF RecoverEvents, IInv, TypeOK, OrderedTypes
<1>2. CASE Target <= Len(published) /\ UNCHANGED ordered
  BY <1>1, <1>2 DEF ordered
<1>3. CASE Target > Len(published) /\ \E why \in {"gap", "conflict"} : Refused(why)
  <2>1. pending' \in {WithChunks, WithClosed} /\ phase' = "terminating"
    BY <1>3 DEF Refused
  <2>. QED  BY <2>1, MergedDomains
<1>4. CASE Target > Len(published) /\ Recovered
  <2>1. EventMap(WithClosed) /\ Target \in Nat
    BY <1>1, <1>4, RecoveredMaps DEF IInv, TypeOK, ServerTypes
  <2>2. DOMAIN pending \subseteq DOMAIN WithClosed
    BY MergedDomains
  <2>3. CASE Missing = {} /\ PublishReady(WithClosed)
    <3>1. Len(published)+1..Target \subseteq DOMAIN WithClosed
      BY <2>3 DEF Missing
    <3>. QED  BY <1>1, <2>1, <2>2, <2>3, <3>1, PublishReadyKeeps
  <2>4. ASSUME NEW s \in Missing, InferExit, Missing = {s},
               PublishReady(OrInsert(WithClosed, Single(s, "exited")))
        PROVE  /\ \A u \in DOMAIN pending : u <= Len(published') \/ u \in DOMAIN pending'
               /\ Len(published') >= Target
    <3>1. s \in Nat /\ "exited" \in Events
      BY <1>1, <2>1, <2>4 DEF Missing, Events
    <3>2. PICK p : p = OrInsert(WithClosed, Single(s, "exited"))
      OBVIOUS
    <3>3. EventMap(p) /\ DOMAIN p = DOMAIN WithClosed \cup {s}
      <4>1. EventMap(Single(s, "exited")) /\ DOMAIN Single(s, "exited") = {s}
        BY <3>1, SingleLemma
      <4>. QED  BY <2>1, <3>2, <4>1, OrInsertLemma
    <3>4. Len(published)+1..Target \subseteq DOMAIN p
      BY <2>4, <3>3 DEF Missing
    <3>5. PublishReady(p)
      BY <2>4, <3>2
    <3>. QED  BY <1>1, <2>1, <2>2, <3>3, <3>4, <3>5, PublishReadyKeeps
  <2>. QED  BY <1>4, <2>3, <2>4 DEF Recovered
<1>. QED  BY <1>2, <1>3, <1>4 DEF RecoverEvents

(* While events are accepted, no step drops a pending one. *)
LEMMA PendingKept ==
  ASSUME IInv, [Next]_vars, Live, Live', NEW s \in DOMAIN pending
  PROVE  s <= Len(published') \/ s \in DOMAIN pending'
<1>1. CASE RecoverEvents
  BY <1>1, RecoverKeeps
<1>2. ASSUME NEW c \in Conns, Receive(c) PROVE s <= Len(published') \/ s \in DOMAIN pending'
  <2>1. notes[c] \in Seq(Note) /\ notes[c] # <<>>
    BY <1>2 DEF Receive, IInv, TypeOK, LinkTypes
  <2>2. 1 \in 1..Len(notes[c]) /\ Head(notes[c]) = notes[c][1]
    BY <2>1
  <2>3. Head(notes[c]).seq \in 1..Len(log) /\ Head(notes[c]).event = log[Head(notes[c]).seq]
    BY <2>2 DEF IInv, NotesAgree
  <2>4. PublishOrdered(Head(notes[c]).seq, log[Head(notes[c]).seq])
    BY <1>2, <2>3 DEF Receive
  <2>. QED  BY <2>3, <2>4, PublishOrderedKeeps
<1>3. ~GiveUpProcess /\ ~FailSessions
  BY DEF GiveUpProcess, FailSessions, SetFailure, Live, IInv, TypeOK, RecoveryTypes
<1>4. CASE Process \/ Expire \/ UNCHANGED vars
  BY <1>4, ProcessIsServers DEF ordered
<1>5. CASE RetryLater \/ AskMissing \/ AnswerRead \/ ReadError \/ Install \/ RecoveryFails
  BY <1>5 DEF RetryLater, AskMissing, AnswerRead, ReadError, Install, RecoveryFails, ordered
<1>6. ASSUME NEW c \in Conns, Link(c), ~Receive(c) PROVE s \in DOMAIN pending'
  BY <1>6 DEF Link, ServerClose, Attach, Refuse, ClientClose, Disconnected, HandlerError, ReaderGone,
              Connect, ordered
<1>. QED  BY <1>1, <1>2, <1>3, <1>4, <1>5, <1>6 DEF Next, Recovery

(* A queue of a connection in use is only read from its head, while its
   transport lasts. *)
LEMMA QueuedKept ==
  ASSUME IInv, [Next]_vars, Live, NEW c \in Conns, c = conn \/ c = cand, cli'[c] = "up",
         NEW i \in 1..Len(notes[c]), NEW s, notes[c][i].seq = s
  PROVE  \/ s <= Len(published') \/ s \in DOMAIN pending'
         \/ \E j \in 1..Len(notes'[c]) : notes'[c][j].seq = s
<1>1. notes \in [Conns -> Seq(Note)] /\ notes[c] \in Seq(Note) /\ Len(notes[c]) \in Nat
      /\ cli \in [Conns -> {"unused", "up", "closed"}]
  BY DEF IInv, TypeOK, LinkTypes
<1>2. CASE notes' = notes
  BY <1>2
<1>3. ASSUME NEW d \in Conns, NEW q, d # c, notes' = [notes EXCEPT ![d] = q]
      PROVE  \E j \in 1..Len(notes'[c]) : notes'[c][j].seq = s
  BY <1>1, <1>3
<1>4. ASSUME NEW t \in Tasks, SendNote(t)
      PROVE  \E j \in 1..Len(notes'[c]) : notes'[c][j].seq = s
  <2>1. PICK n \in Note : notes' = notes \/ notes' = [notes EXCEPT ![tgt[t]] = Append(@, n)]
    <3>1. cur[t] \in 1..Len(log) /\ log[cur[t]] \in Events /\ cur[t] \in Nat
      BY <1>4 DEF SendNote, IInv, TasksAgree, TypeOK, ServerTypes
    <3>2. [seq |-> cur[t], event |-> log[cur[t]]] \in Note
      BY <3>1 DEF Note
    <3>. QED  BY <1>4, <3>2 DEF SendNote
  <2>2. CASE notes' = [notes EXCEPT ![c] = Append(notes[c], n)]
    <3>1. notes'[c] = Append(notes[c], n)
      BY <1>1, <2>2
    <3>2. i \in 1..Len(notes'[c]) /\ notes'[c][i] = notes[c][i]
      BY <1>1, <3>1
    <3>. QED  BY <3>2
  <2>3. CASE notes'[c] = notes[c]
    BY <2>3
  <2>. QED  BY <1>1, <2>1, <2>2, <2>3
<1>5. CASE Receive(c)
  <2>1. notes[c] # <<>> /\ notes'[c] = Tail(notes[c])
    BY <1>1, <1>5 DEF Receive
  <2>2. CASE i = 1
    <3>1. Head(notes[c]) = notes[c][1]
      BY <1>1, <2>1
    <3>2. s \in 1..Len(log) /\ notes[c][1].event = log[s]
      BY <2>2 DEF IInv, NotesAgree
    <3>3. PublishOrdered(s, log[s])
      BY <1>5, <2>2, <3>1, <3>2 DEF Receive
    <3>. QED  BY <3>2, <3>3, PublishOrderedKeeps
  <2>3. CASE i # 1
    <3>1. i - 1 \in 1..Len(notes'[c]) /\ notes'[c][i - 1] = notes[c][i]
      BY <1>1, <2>1, <2>3
    <3>. QED  BY <3>1
  <2>. QED  BY <2>2, <2>3
<1>6. ASSUME NEW d \in Conns, Receive(d), d # c
      PROVE  \E j \in 1..Len(notes'[c]) : notes'[c][j].seq = s
  BY <1>3, <1>6 DEF Receive
<1>7. ASSUME NEW d \in Conns, ClientClose(d) \/ HandlerError(d) \/ ReaderGone(d)
      PROVE  \E j \in 1..Len(notes'[c]) : notes'[c][j].seq = s
  <2>1. d # c
    BY <1>1, <1>7 DEF ClientClose, HandlerError, ReaderGone
  <2>. QED  BY <1>3, <1>7, <2>1 DEF ClientClose, HandlerError, ReaderGone
<1>8. CASE Recovery \/ Expire \/ UNCHANGED vars
  <2>1. notes' = notes
    BY <1>8 DEF Recovery, Expire, vars, RetryLater, AskMissing, AnswerRead, RecoverEvents, ReadError,
                GiveUpProcess, Install, RecoveryFails, FailSessions, links
  <2>. QED  BY <1>2, <2>1
<1>9. ASSUME Process, \A t \in Tasks : ~SendNote(t) PROVE notes' = notes
  BY <1>9 DEF Process, ServerTask, OutputChunk, FinishStream, ChildExit, RemoveClosedEntry,
              MaybeEmitClosed, PickSender, links
<1>10. ASSUME NEW d \in Conns, ServerClose(d) \/ Attach(d) \/ Refuse(d) \/ Disconnected(d) \/ Connect(d)
       PROVE  notes' = notes
  BY <1>10 DEF ServerClose, Attach, Refuse, Disconnected, Connect, links
<1>. QED  BY <1>2, <1>4, <1>5, <1>6, <1>7, <1>8, <1>9, <1>10 DEF Next, Link

(* A task that is to send to the attached connection goes on to do so. *)
Carries(t, s, c) ==
  /\ cur[t] = s
  /\ \/ pc[t] \in {"notify", "notifyClosed"}
     \/ pc[t] \in {"send", "sendClosed"} /\ tgt[t] = c

LEMMA CarriedKept ==
  ASSUME IInv, [Next]_vars, NEW c \in Conns, cli[c] = "up", srv[c] = "up", sender = c,
         NEW t \in Tasks, NEW s, Carries(t, s, c)
  PROVE  Carries(t, s, c)' \/ \E j \in 1..Len(notes'[c]) : notes'[c][j].seq = s
<1>1. pc \in [Tasks -> Pcs] /\ cur \in [Tasks -> Nat] /\ tgt \in [Tasks -> Conns \cup {None}]
      /\ c # None /\ notes \in [Conns -> Seq(Note)]
  BY ConnsAssumption DEF IInv, TypeOK, ServerTypes, LinkTypes
<1>2. CASE UNCHANGED <<pc, cur, tgt>>
  BY <1>2 DEF Carries
<1>3. ASSUME NEW u \in Tasks, u # t, NEW x, NEW y, NEW z,
             pc' = [pc EXCEPT ![u] = x], cur' = [cur EXCEPT ![u] = y], tgt' = [tgt EXCEPT ![u] = z]
      PROVE  Carries(t, s, c)'
  BY <1>1, <1>3 DEF Carries
<1>4. ASSUME NEW u \in Tasks, pc[u] \in {"run", "closing"}, NEW x, pc' = [pc EXCEPT ![u] = x],
             cur' = cur \/ cur' = [cur EXCEPT ![u] = Len(log) + 1], tgt' = tgt
      PROVE  Carries(t, s, c)'
  <2>1. u # t
    BY <1>4 DEF Carries
  <2>. QED  BY <1>1, <1>4, <2>1 DEF Carries
<1>5. ASSUME NEW u \in Tasks, PickSender(u) PROVE Carries(t, s, c)'
  <2>1. tgt' = [tgt EXCEPT ![u] = c] /\ cur' = cur
        /\ pc' = [pc EXCEPT ![u] = IF pc[u] = "notify" THEN "send" ELSE "sendClosed"]
    BY <1>1, <1>5 DEF PickSender
  <2>. QED  BY <1>1, <1>5, <2>1 DEF Carries, PickSender
<1>6. ASSUME NEW u \in Tasks, SendNote(u), u # t PROVE Carries(t, s, c)'
  BY <1>3, <1>6 DEF SendNote, Notified
<1>7. CASE SendNote(t)
  <2>1. tgt[t] = c /\ cur[t] = s
    BY <1>7 DEF SendNote, Carries
  <2>2. PICK n : n = [seq |-> cur[t], event |-> log[cur[t]]]
    OBVIOUS
  <2>3. notes' = [notes EXCEPT ![c] = Append(notes[c], n)]
    BY <1>1, <1>7, <2>1, <2>2 DEF SendNote
  <2>4. n \in Note /\ n.seq = s
    <3>1. cur[t] \in 1..Len(log) /\ log[cur[t]] \in Events /\ cur[t] \in Nat
      BY <1>7 DEF SendNote, IInv, TasksAgree, TypeOK, ServerTypes
    <3>. QED  BY <2>1, <2>2, <3>1 DEF Note
  <2>5. notes'[c] = Append(notes[c], n) /\ notes[c] \in Seq(Note)
    BY <1>1, <2>3
  <2>6. Len(notes[c]) + 1 \in 1..Len(notes'[c]) /\ notes'[c][Len(notes[c]) + 1] = n
    BY <2>4, <2>5
  <2>. QED  BY <2>4, <2>6
<1>8. ASSUME NEW u \in Tasks, MaybeEmitClosed(u) PROVE Carries(t, s, c)'
  BY <1>4, <1>8 DEF MaybeEmitClosed, Number
<1>9. ASSUME NEW u \in Streams, OutputChunk(u) \/ FinishStream(u) PROVE Carries(t, s, c)'
  BY <1>4, <1>9 DEF OutputChunk, FinishStream, Number, Tasks
<1>10. CASE ChildExit
  BY <1>4, <1>10 DEF ChildExit, Number, Tasks
<1>11. CASE RemoveClosedEntry \/ Expire \/ UNCHANGED vars
  BY <1>2, <1>11 DEF RemoveClosedEntry, Expire, vars, server
<1>12. CASE Recovery
  <2>1. UNCHANGED server
    BY <1>12 DEF Recovery, RetryLater, AskMissing, AnswerRead, RecoverEvents, ReadError,
                 GiveUpProcess, Install, RecoveryFails, FailSessions
  <2>. QED  BY <1>2, <2>1 DEF server
<1>13. ASSUME NEW d \in Conns, Link(d) PROVE UNCHANGED server
  BY <1>13 DEF Link, ServerClose, Attach, Refuse, Receive, ClientClose, Disconnected, HandlerError,
               ReaderGone, Connect
<1>. QED  BY <1>2, <1>5, <1>6, <1>7, <1>8, <1>9, <1>10, <1>11, <1>12, <1>13
          DEF Next, Process, ServerTask, server

(* An event that is under way to the attached connection is published by the
   next step or still under way. *)
LEMMA UnderwayKept ==
  ASSUME IInv, [Next]_vars, NEW c \in Conns, c = conn \/ c = cand,
         cli[c] = "up", srv[c] = "up", sender = c, Live, cli'[c] = "up", Live',
         NEW s, Underway(s, c)
  PROVE  s <= Len(published') \/ Underway(s, c)'
<1>1. CASE s \in DOMAIN pending
  BY <1>1, PendingKept DEF Underway
<1>2. ASSUME NEW i \in 1..Len(notes[c]), notes[c][i].seq = s
      PROVE  s <= Len(published') \/ Underway(s, c)'
  BY <1>2, QueuedKept DEF Underway
<1>3. ASSUME NEW t \in Tasks, Carries(t, s, c) PROVE Underway(s, c)'
  BY <1>3, CarriedKept DEF Underway, Carries
<1>. QED  BY <1>1, <1>2, <1>3 DEF Underway, Carries

(* A newly numbered event is under way: its task is about to pick the sender. *)
LEMMA NewUnderway ==
  ASSUME IInv, [Next]_vars, NEW c, NEW s, s = Len(log) + 1
  PROVE  log' = log \/ (Len(log') = Len(log) + 1 /\ Underway(s, c)')
<1>1. log \in Seq(Events) /\ pc \in [Tasks -> Pcs] /\ cur \in [Tasks -> Nat]
  BY DEF IInv, TypeOK, ServerTypes
<1>2. ASSUME NEW t \in Tasks, NEW e \in Events, NEW next \in {"notify", "notifyClosed"},
             Number(t, e, next)
      PROVE  Len(log') = Len(log) + 1 /\ Underway(s, c)'
  <2>1. cur'[t] = Len(log) + 1 /\ pc'[t] = next /\ Len(log') = Len(log) + 1
    BY <1>1, <1>2 DEF Number
  <2>. QED  BY <2>1 DEF Underway
<1>3. ASSUME Process PROVE log' = log \/ (Len(log') = Len(log) + 1 /\ Underway(s, c)')
  <2>1. CASE \E t \in Streams : OutputChunk(t)
    BY <1>2, <2>1 DEF OutputChunk, Tasks, Events
  <2>2. CASE ChildExit
    BY <1>2, <2>2 DEF ChildExit, Tasks, Events
  <2>3. CASE \E t \in Tasks : MaybeEmitClosed(t)
    BY <1>2, <2>3 DEF MaybeEmitClosed, Events
  <2>4. CASE RemoveClosedEntry \/ (\E t \in Streams : FinishStream(t))
             \/ \E t \in Tasks : PickSender(t) \/ SendNote(t)
    BY <2>4 DEF RemoveClosedEntry, FinishStream, PickSender, SendNote
  <2>. QED  BY <1>3, <2>1, <2>2, <2>3, <2>4 DEF Process, ServerTask
<1>4. CASE Recovery \/ Expire \/ UNCHANGED vars
  BY <1>4 DEF Recovery, Expire, vars, RetryLater, AskMissing, AnswerRead, RecoverEvents, ReadError,
              GiveUpProcess, Install, RecoveryFails, FailSessions, server
<1>5. ASSUME NEW d \in Conns, Link(d) PROVE log' = log
  BY <1>5 DEF Link, ServerClose, Attach, Refuse, Receive, ClientClose, Disconnected, HandlerError,
              ReaderGone, Connect, server
<1>. QED  BY <1>3, <1>4, <1>5 DEF Next

(* What is under way to a connection in use stays so, and new events join it. *)
LEMMA CaughtKept ==
  ASSUME IInv, [Next]_vars, NEW c \in Conns, c = conn \/ c = cand, c \notin hello,
         NEW here \in Nat, Caught(c, here)
  PROVE  Caught(c, here)'
<1>1. SUFFICES ASSUME cli'[c] = "up", srv'[c] = "up", sender' = c, Live',
                      NEW s \in Len(published')+1..Len(log'), s >= here
               PROVE  Underway(s, c)'
  BY DEF Caught
<1>2. cli[c] = "up" /\ srv[c] = "up" /\ sender = c
  <2>1. c # None /\ (conn = None \/ cand = None) /\ cli \in [Conns -> {"unused", "up", "closed"}]
        /\ srv \in [Conns -> {"unused", "up", "closed"}]
        /\ (status = "recovering" => conn = None)
    BY ConnsAssumption DEF IInv, TypeOK, RecoveryTypes, LinkTypes
  <2>2. CASE Process \/ Expire \/ UNCHANGED vars
    BY <1>1, <2>2, ProcessIsServers
  <2>3. CASE Recovery
    BY <1>1, <2>1, <2>3 DEF Recovery, RetryLater, AskMissing, AnswerRead, RecoverEvents, ReadError,
        GiveUpProcess, Install, RecoveryFails, FailSessions, DropClient, links, session
  <2>4. ASSUME NEW d \in Conns, Link(d) PROVE cli[c] = "up" /\ srv[c] = "up" /\ sender = c
    <3>1. CASE ServerClose(d)
      BY <1>1, <2>1, <3>1 DEF ServerClose
    <3>2. CASE Attach(d)
      BY <1>1, <2>1, <3>2 DEF Attach, links
    <3>3. CASE Refuse(d)
      BY <1>1, <2>1, <3>3 DEF Refuse, DropClient
    <3>4. CASE Receive(d) \/ Disconnected(d) \/ ReaderGone(d)
      BY <1>1, <3>4 DEF Receive, Disconnected, ReaderGone, session
    <3>5. CASE ClientClose(d) \/ HandlerError(d)
      BY <1>1, <2>1, <3>5 DEF ClientClose, HandlerError, session
    <3>6. CASE Connect(d)
      BY <1>1, <2>1, <3>6 DEF Connect
    <3>. QED  BY <2>4, <3>1, <3>2, <3>3, <3>4, <3>5, <3>6 DEF Link
  <2>. QED  BY <2>2, <2>3, <2>4 DEF Next
<1>3. Live
  <2>1. SUFFICES ASSUME ~Live PROVE FALSE
    OBVIOUS
  <2>2. published' = published /\ failure' = failure
    BY <2>1, StepKinds DEF Unseen, Numbers, Reveals, Fails
  <2>. QED  BY <1>1, <2>1, <2>2 DEF Live, Closed
<1>4. Len(published') \in Nat /\ Len(published') >= Len(published) /\ Len(published) \in Nat
      /\ Len(log) \in Nat
  BY PublishedGrows DEF IInv, TypeOK, OrderedTypes, ServerTypes
<1>5. CASE s <= Len(log)
  <2>1. s \in Nat /\ s > Len(published')
    BY <1>1, <1>4, <1>5
  <2>2. s \in Len(published)+1..Len(log)
    BY <1>4, <1>5, <2>1
  <2>3. Underway(s, c)
    BY <1>1, <1>2, <1>3, <2>2 DEF Caught
  <2>4. s <= Len(published') \/ Underway(s, c)'
    BY <1>1, <1>2, <1>3, <2>3, UnderwayKept
  <2>. QED  BY <1>4, <2>1, <2>4
<1>6. CASE ~(s <= Len(log))
  <2>1. PICK l \in Nat : l = Len(log)
    BY <1>4
  <2>2. Len(log') = l \/ Len(log') = l + 1
    BY <2>1, NewUnderway
  <2>3. s = l + 1 /\ Len(log') = l + 1
    BY <1>1, <1>4, <1>6, <2>1, <2>2
  <2>4. log' # log
    BY <2>1, <2>3
  <2>. QED  BY <2>1, <2>3, <2>4, NewUnderway
<1>. QED  BY <1>5, <1>6

(* How a connection comes into use, and how a recovery reaches its end. *)
LEMMA RecoveryMoves ==
  ASSUME IInv, [Next]_vars
  PROVE  /\ conn' = conn \/ conn' = None \/ (Install /\ conn' = cand)
         /\ phase' = "applied" =>
              /\ cand' = cand
              /\ phase = "applied" \/ (AskMissing /\ ~Live) \/ GiveUpProcess \/ RecoverEvents
         /\ phase' = "answered" =>
              /\ cand' = cand
              /\ (phase = "answered" /\ resp' = resp) \/ AnswerRead
<1>1. CASE Process \/ Expire \/ UNCHANGED vars
  BY <1>1, ProcessIsServers DEF recovery
<1>2. CASE Recovery
  <2>1. CASE AskMissing \/ AnswerRead \/ ReadError \/ Install
    BY <2>1 DEF AskMissing, AnswerRead, ReadError, Install
  <2>2. CASE RecoverEvents
    BY <2>2 DEF RecoverEvents, Recovered, Refused
  <2>3. CASE GiveUpProcess \/ FailSessions
    BY <2>3 DEF GiveUpProcess, FailSessions, recovery
  <2>4. CASE RetryLater \/ RecoveryFails
    BY <2>4 DEF RetryLater, RecoveryFails, DropClient, FailStatus
  <2>. QED  BY <1>2, <2>1, <2>2, <2>3, <2>4 DEF Recovery
<1>3. ASSUME NEW d \in Conns, Link(d)
      PROVE  /\ conn' \in {conn, None}
             /\ phase' \in {phase, "idle", "init", "attached"}
             /\ phase' \notin {"idle", "init", "attached"} => cand' = cand /\ resp' = resp
  <2>1. CASE ServerClose(d) \/ Receive(d) \/ ClientClose(d) \/ ReaderGone(d)
    BY <2>1 DEF ServerClose, Receive, ClientClose, ReaderGone, recovery
  <2>2. CASE Attach(d) \/ Connect(d)
    BY <2>2 DEF Attach, Connect
  <2>3. CASE Disconnected(d) \/ HandlerError(d)
    BY <2>3 DEF Disconnected, HandlerError, RequestRecovery
  <2>4. CASE Refuse(d)
    BY <2>4 DEF Refuse, DropClient, FailStatus, recovery
  <2>. QED  BY <1>3, <2>1, <2>2, <2>3, <2>4 DEF Link
<1>. QED  BY <1>1, <1>2, <1>3 DEF Next

(* A connection is greeted before it is used. *)
LEMMA GreetedStep ==
  ASSUME IInv, Greeted, [Next]_vars
  PROVE  Greeted'
<1>1. /\ (status = "recovering" => conn = None) /\ None \notin Conns /\ hello \subseteq Conns
      /\ (phase = "idle" <=> cand = None)
  BY ConnsAssumption DEF IInv, TypeOK, RecoveryTypes, SessionTypes
<1>. USE <1>1 DEF Greeted
<1>2. CASE Process \/ Expire \/ UNCHANGED vars
  <2>1. UNCHANGED <<hello, conn, cand, phase>>
    BY <1>2, ProcessIsServers DEF recovery
  <2>. QED  BY <2>1
<1>3. CASE Recovery
  <2>1. CASE AskMissing \/ AnswerRead \/ ReadError \/ GiveUpProcess \/ Install
    BY <2>1 DEF AskMissing, AnswerRead, ReadError, GiveUpProcess, Install, session
  <2>2. CASE RecoverEvents \/ FailSessions
    BY <2>2 DEF RecoverEvents, FailSessions, session, recovery
  <2>3. CASE RetryLater \/ RecoveryFails
    BY <2>3 DEF RetryLater, RecoveryFails, DropClient, FailStatus, session
  <2>. QED  BY <1>3, <2>1, <2>2, <2>3 DEF Recovery
<1>4. ASSUME NEW d \in Conns, Link(d) PROVE Greeted'
  <2>1. CASE ServerClose(d) \/ Receive(d) \/ ClientClose(d) \/ ReaderGone(d)
    BY <2>1 DEF ServerClose, Receive, ClientClose, ReaderGone, recovery, session
  <2>2. CASE Attach(d) \/ Connect(d)
    BY <2>2 DEF Attach, Connect
  <2>3. CASE Disconnected(d) \/ HandlerError(d)
    BY <2>3 DEF Disconnected, HandlerError, RequestRecovery, session
  <2>4. CASE Refuse(d)
    BY <2>4 DEF Refuse, DropClient, FailStatus, recovery
  <2>. QED  BY <1>4, <2>1, <2>2, <2>3, <2>4 DEF Link
<1>. QED  BY <1>2, <1>3, <1>4 DEF Next

(* The read is answered with everything numbered so far, so that what comes
   after it is still with its task; applied, it closes the rest of the gap. *)
LEMMA CompleteStep ==
  ASSUME IInv, Greeted, Complete, [Next]_vars
  PROVE  Complete'
<1>1. SUFFICES ASSUME NEW c \in Conns, NEW n \in Nat
               PROVE  /\ c = conn' \/ (c = cand' /\ phase' = "applied") => Caught(c, 1)'
                      /\ c = cand' /\ phase' = "answered" /\ resp'.kind = "read" /\ n = resp'.next
                           => Caught(c, n)'
  BY DEF Complete
<1>2. None \notin Conns /\ Len(log) \in Nat /\ Len(published) \in Nat
  BY ConnsAssumption DEF IInv, TypeOK, ServerTypes, OrderedTypes
<1>3. ASSUME c = conn \/ (c = cand /\ phase = "applied") PROVE Caught(c, 1)'
  <2>1. c \notin hello
    BY <1>3 DEF Greeted
  <2>2. Caught(c, 1)
    BY <1>3 DEF Complete
  <2>. QED  BY <1>3, <2>1, <2>2, CaughtKept
<1>4. ASSUME ~Live, UNCHANGED ordered PROVE ~Live'
  BY <1>4 DEF ordered, Live, Closed
<1>5. ASSUME c = cand, AskMissing, ~Live PROVE Caught(c, 1)'
  BY <1>4, <1>5 DEF AskMissing, Caught
<1>6. ASSUME GiveUpProcess PROVE Caught(c, 1)'
  <2>1. ~Live'
    BY <1>4, <1>6 DEF GiveUpProcess, SetFailure, Live, IInv, TypeOK, RecoveryTypes
  <2>. QED  BY <2>1 DEF Caught
<1>7. ASSUME c = cand, RecoverEvents, phase' = "applied" PROVE Caught(c, 1)'
  <2>1. CASE ~Live
    <3>1. ~Live'
      BY <1>4, <1>7, <2>1 DEF RecoverEvents
    <3>. QED  BY <3>1 DEF Caught
  <2>2. CASE Live
    <3>1. phase = "answered" /\ resp.kind = "read" /\ log' = log
      BY <1>7 DEF RecoverEvents, server
    <3>2. PICK m \in Nat : m = resp.next
      BY <1>2, <3>1 DEF IInv, RespAgrees
    <3>3. Caught(c, m) /\ c \notin hello
      BY <1>7, <3>1, <3>2 DEF Complete, Greeted
    <3>4. Caught(c, m)'
      BY <1>7, <3>2, <3>3, CaughtKept
    <3>5. Len(published') >= m - 1 /\ Len(published') \in Nat
      BY <1>7, <2>2, <3>2, RecoverKeeps, PublishedGrows DEF Target
    <3>6. \A s \in Len(published')+1..Len(log') : s >= m
      BY <1>2, <3>1, <3>2, <3>5
    <3>. QED  BY <3>4, <3>6 DEF Caught
  <2>. QED  BY <2>1, <2>2
<1>8. ASSUME c = cand', phase' = "answered", resp'.kind = "read", n = resp'.next PROVE Caught(c, n)'
  <2>1. CASE phase = "answered" /\ resp' = resp /\ c = cand
    <3>1. Caught(c, n) /\ c \notin hello
      BY <1>8, <2>1 DEF Complete, Greeted
    <3>. QED  BY <2>1, <3>1, CaughtKept
  <2>2. CASE AnswerRead
    <3>1. log' = log /\ n = Len(log) + 1
      BY <1>8, <2>2 DEF AnswerRead, Snapshot, NoResp, server
    <3>2. Len(published') \in Nat
      BY PublishedGrows
    <3>3. \A s \in Len(published')+1..Len(log') : ~(s >= n)
      BY <1>2, <3>1, <3>2
    <3>. QED  BY <3>3 DEF Caught
  <2>. QED  BY <1>8, <2>1, <2>2, RecoveryMoves
<1>9. ASSUME c = conn' PROVE Caught(c, 1)'
  <2>1. CASE conn' = conn
    BY <1>3, <1>9, <2>1
  <2>2. CASE Install /\ conn' = cand
    BY <1>3, <1>9, <2>2 DEF Install
  <2>. QED  BY <1>2, <1>9, <2>1, <2>2, RecoveryMoves
<1>10. ASSUME c = cand', phase' = "applied" PROVE Caught(c, 1)'
  BY <1>3, <1>5, <1>6, <1>7, <1>10, RecoveryMoves
<1>. QED  BY <1>8, <1>9, <1>10

(* While a connection is installed and alive and the server is attached to it,
   every event not yet shown is pending, queued or with a task that is about
   to send it there: no interleaving of disconnects, the recovery read and the
   three notifying tasks loses an event silently. *)
THEOREM NothingSlipsBetween == Spec => []NoSilentLoss
<1>1. Init => Greeted /\ Complete
  <2>1. SUFFICES ASSUME Init PROVE Greeted /\ Complete
    OBVIOUS
  <2>2. Greeted
    BY <2>1 DEF Init, Greeted
  <2>3. \A c \in Conns, n \in Nat : Caught(c, n)
    BY <2>1 DEF Init, Caught
  <2>4. 1 \in Nat
    OBVIOUS
  <2>. QED  BY <2>2, <2>3, <2>4 DEF Complete
<1>2. IInv /\ Complete => NoSilentLoss
  <2>1. SUFFICES ASSUME IInv, Complete, status = "connected", cli[conn] = "up", srv[conn] = "up",
                        sender = conn, Live
                 PROVE  \A s \in Len(published)+1..Len(log) : Underway(s, conn)
    BY DEF NoSilentLoss
  <2>2. conn \in Conns /\ 1 \in Nat /\ Len(published) \in Nat /\ Len(log) \in Nat
    BY <2>1 DEF IInv, TypeOK, RecoveryTypes, OrderedTypes, ServerTypes
  <2>3. Caught(conn, 1)
    BY <2>1, <2>2 DEF Complete
  <2>4. \A s \in Len(published)+1..Len(log) : s >= 1
    BY <2>2
  <2>. QED  BY <2>1, <2>3, <2>4 DEF Caught
<1>3. IInv /\ Greeted /\ Complete /\ [Next]_vars => Greeted' /\ Complete'
  BY GreetedStep, CompleteStep
<1>. QED  BY <1>1, <1>2, <1>3, InitIInv, Inductive, PTL DEF Spec
=============================================================================
