--------------------------- MODULE SessionRegistry ---------------------------
(***************************************************************************)
(* The exec-server's session registry and the connection handlers that use *)
(* it (server/session_registry.rs, server/handler.rs, server/processor.rs).*)
(*                                                                         *)
(* A connection initializes once, creating a session or resuming one.      *)
(* When it ends, its session is detached and kept for a grace period; the  *)
(* timer spawned by the detach removes it afterwards and shuts its         *)
(* processes down.  A resume that meets an expired session does the same,  *)
(* in the handler's own future, which is dropped if the connection is lost *)
(* meanwhile.  A resume of an attached or unknown session is an error that *)
(* changes nothing, and is no action here.                                 *)
(***************************************************************************)
EXTENDS Naturals

CONSTANTS Conns,      \* connections
          Sessions,   \* session ids
          None,       \* no connection, no session
          TTL         \* DETACHED_SESSION_TTL, in ticks

ASSUME NoneAssumption == None \notin Conns /\ None \notin Sessions
ASSUME TTLAssumption == TTL \in Nat \ {0}

VARIABLES
  registry,   \* SessionRegistry.sessions: the ids it holds
  born,       \* ids ever created (uuids are not reused)
  current,    \* current_connection_id of each session
  detached,   \* detached_connection_id
  left,       \* ticks until detached_expires_at (0: it has passed)
  sender,     \* the connection LocalProcess notifies
  procs,      \* the session has managed processes
  down,       \* LocalProcess::shutdown has run
  timers,     \* expire_if_detached tasks: session, connection, ticks to sleep
  doomed,     \* sessions a timer has removed and will shut down
  phase,      \* of each connection's run_connection
  lost,       \* the transport has signalled the disconnect
  handle,     \* ExecServerHandler.session; while reaping, the entry shut down
  requested,  \* initialize_requested
  initialized \* the client's initialized notification was accepted

sessionVars == <<registry, born, current, detached, left, sender, procs, down>>
timerVars   == <<timers, doomed>>
handlerVars == <<phase, lost, handle, requested, initialized>>
vars == <<sessionVars, timerVars, handlerVars>>

Timer == [session : Sessions, conn : Conns, sleep : 0..TTL]

Init ==
  /\ registry = {} /\ born = {} /\ down = {} /\ procs = {}
  /\ current = [s \in Sessions |-> None]
  /\ detached = [s \in Sessions |-> None]
  /\ left = [s \in Sessions |-> TTL]
  /\ sender = [s \in Sessions |-> None]
  /\ timers = {} /\ doomed = {}
  /\ phase = [c \in Conns |-> "unused"]
  /\ lost = {} /\ requested = {} /\ initialized = {}
  /\ handle = [c \in Conns |-> None]

-----------------------------------------------------------------------------
(* A client connects: run_connection with a new ExecServerHandler. *)
Open(c) ==
  /\ phase[c] = "unused"
  /\ phase' = [phase EXCEPT ![c] = "open"]
  /\ UNCHANGED <<sessionVars, timerVars, lost, handle, requested, initialized>>

(* set_notification_sender and SessionEntry::attach (or new). *)
AttachTo(s, c) ==
  /\ current' = [current EXCEPT ![s] = c]
  /\ detached' = [detached EXCEPT ![s] = None]
  /\ sender' = [sender EXCEPT ![s] = c]

Ready(c) == phase[c] = "open" /\ c \notin requested

(* initialize: a new session. *)
CreateSession(c, s) ==
  /\ Ready(c) /\ s \notin born
  /\ born' = born \cup {s} /\ registry' = registry \cup {s}
  /\ AttachTo(s, c)
  /\ handle' = [handle EXCEPT ![c] = s] /\ requested' = requested \cup {c}
  /\ UNCHANGED <<left, procs, down, timerVars, phase, lost, initialized>>

Expired(s) == current[s] = None /\ left[s] = 0
Active(s)  == current[s] # None

(* Mutant: resumes a session another connection still holds. *)
ResumeTakingOver(c, s) ==
  /\ Ready(c) /\ s \in registry /\ ~Expired(s)
  /\ AttachTo(s, c)
  /\ handle' = [handle EXCEPT ![c] = s] /\ requested' = requested \cup {c}
  /\ UNCHANGED <<registry, born, left, procs, down, timerVars, phase, lost, initialized>>

(* initialize with resume_session_id: the session is detached and in time. *)
ResumeSession(c, s) ==
  /\ Ready(c) /\ s \in registry /\ ~Expired(s) /\ ~Active(s)
  /\ AttachTo(s, c)
  /\ handle' = [handle EXCEPT ![c] = s] /\ requested' = requested \cup {c}
  /\ UNCHANGED <<registry, born, left, procs, down, timerVars, phase, lost, initialized>>

(* ... or it is past its deadline: removed under the lock, then shut down in
   this handler (which waits for the process lock). *)
ResumeExpired(c, s) ==
  /\ Ready(c) /\ s \in registry /\ Expired(s)
  /\ registry' = registry \ {s}
  /\ phase' = [phase EXCEPT ![c] = "reaping"]
  /\ handle' = [handle EXCEPT ![c] = s] /\ requested' = requested \cup {c}
  /\ UNCHANGED <<born, current, detached, left, sender, procs, down, timerVars, lost,
                 initialized>>

Shutdown(s) == procs' = procs \ {s} /\ down' = down \cup {s}

(* Mutant: the error path of initialize leaves initialize_requested set. *)
FinishReapRequested(c) ==
  /\ phase[c] = "reaping"
  /\ Shutdown(handle[c])
  /\ phase' = [phase EXCEPT ![c] = "open"]
  /\ handle' = [handle EXCEPT ![c] = None]
  /\ UNCHANGED <<registry, born, current, detached, left, sender, timerVars, lost,
                 requested, initialized>>

(* The shutdown is done; initialize answers "unknown session id", and the
   client may initialize again. *)
FinishReap(c) ==
  /\ phase[c] = "reaping"
  /\ Shutdown(handle[c])
  /\ phase' = [phase EXCEPT ![c] = "open"]
  /\ handle' = [handle EXCEPT ![c] = None] /\ requested' = requested \ {c}
  /\ UNCHANGED <<registry, born, current, detached, left, sender, timerVars, lost,
                 initialized>>

(* The disconnect wins the select in run_connection: the future is dropped. *)
CancelReap(c) ==
  /\ phase[c] = "reaping" /\ c \in lost
  /\ phase' = [phase EXCEPT ![c] = "closing"]
  /\ handle' = [handle EXCEPT ![c] = None]
  /\ UNCHANGED <<sessionVars, timerVars, lost, requested, initialized>>

(* The initialized notification, on a connection that holds its session
   (require_session_attached). *)
Initialized(c) ==
  /\ phase[c] = "open" /\ c \in requested \ initialized
  /\ current[handle[c]] = c
  /\ initialized' = initialized \cup {c}
  /\ UNCHANGED <<sessionVars, timerVars, phase, lost, handle, requested>>

(* process/start on an initialized connection whose session is attached to it
   (require_initialized_for): the check, then the await of the process table. *)
Exec(c) ==
  /\ phase[c] = "open" /\ c \in requested \cap initialized
  /\ current[handle[c]] = c
  /\ phase' = [phase EXCEPT ![c] = "starting"]
  /\ UNCHANGED <<sessionVars, timerVars, lost, handle, requested, initialized>>

(* ... and the start, in the session that was checked before. *)
StartProcess(c) ==
  /\ phase[c] = "starting"
  /\ phase' = [phase EXCEPT ![c] = "open"]
  /\ procs' = procs \cup {handle[c]}
  /\ UNCHANGED <<registry, born, current, detached, left, sender, down, timerVars, lost,
                 handle, requested, initialized>>

(* The disconnect wins the select: the request is dropped at its await. *)
CancelExec(c) ==
  /\ phase[c] = "starting" /\ c \in lost
  /\ phase' = [phase EXCEPT ![c] = "closing"]
  /\ UNCHANGED <<sessionVars, timerVars, lost, handle, requested, initialized>>

(* The transport reports that the peer is gone. *)
Disconnect(c) ==
  /\ phase[c] \in {"open", "reaping", "starting"} /\ c \notin lost
  /\ lost' = lost \cup {c}
  /\ UNCHANGED <<sessionVars, timerVars, phase, handle, requested, initialized>>

(* The event loop breaks: the Disconnected event, or a message a client must
   not send (an unknown notification, initialized too early, a response). *)
LeaveLoop(c) ==
  /\ phase[c] = "open"
  /\ phase' = [phase EXCEPT ![c] = "closing"]
  /\ UNCHANGED <<sessionVars, timerVars, lost, handle, requested, initialized>>

(* Mutant: the processes keep the sender of the connection that is gone. *)
DetachKeepingSender(s, c) ==
  /\ current' = [current EXCEPT ![s] = None]
  /\ detached' = [detached EXCEPT ![s] = c]
  /\ left' = [left EXCEPT ![s] = TTL]
  /\ timers' = timers \cup {[session |-> s, conn |-> c, sleep |-> TTL]}
  /\ UNCHANGED sender

(* Mutant: no timer is spawned. *)
DetachForgotten(s, c) ==
  /\ current' = [current EXCEPT ![s] = None]
  /\ detached' = [detached EXCEPT ![s] = c]
  /\ left' = [left EXCEPT ![s] = TTL]
  /\ sender' = [sender EXCEPT ![s] = None]
  /\ UNCHANGED timers

(* SessionEntry::detach by its current connection, and the timer. *)
Detach(s, c) ==
  /\ current' = [current EXCEPT ![s] = None]
  /\ detached' = [detached EXCEPT ![s] = c]
  /\ left' = [left EXCEPT ![s] = TTL]
  /\ sender' = [sender EXCEPT ![s] = None]
  /\ timers' = timers \cup {[session |-> s, conn |-> c, sleep |-> TTL]}

(* The handler's session is attached to its own connection. *)
Holds(c) == handle[c] # None /\ current[handle[c]] = c

(* ExecServerHandler::shutdown, then the end of run_connection.  A handler
   without a session, or one that is attached elsewhere, detaches nothing. *)
CloseHandler(c) ==
  /\ phase[c] = "closing"
  /\ phase' = [phase EXCEPT ![c] = "closed"]
  /\ \/ Holds(c) /\ Detach(handle[c], c)
     \/ ~Holds(c) /\ UNCHANGED <<current, detached, left, sender, timers>>
  /\ UNCHANGED <<registry, born, procs, down, doomed, lost, handle, requested, initialized>>

-----------------------------------------------------------------------------
(* Time passes for every deadline and every sleeping timer. *)
Less(n) == IF n = 0 THEN 0 ELSE n - 1

Tick ==
  /\ \/ \E t \in timers : t.sleep > 0
     \/ \E s \in registry : current[s] = None /\ left[s] > 0
  /\ left' = [s \in Sessions |-> IF current[s] = None THEN Less(left[s]) ELSE left[s]]
  /\ timers' = {[t EXCEPT !.sleep = Less(@)] : t \in timers}
  /\ UNCHANGED <<registry, born, current, detached, sender, procs, down, doomed, handlerVars>>

(* Mutant: the timer looks only at whether somebody is attached. *)
StillDetachedBare(s, c) == current[s] = None

(* Mutant: the timer removes its session whatever happened since. *)
StillDetachedAlways(s, c) == TRUE

(* is_detached_connection_expired *)
StillDetached(s, c) == current[s] = None /\ detached[s] = c /\ left[s] = 0

(* expire_if_detached wakes: it removes the session, or finds that it is gone
   or was resumed since. *)
TimerFires(t) ==
  /\ t \in timers /\ t.sleep = 0
  /\ timers' = timers \ {t}
  /\ \/ /\ t.session \in registry /\ StillDetached(t.session, t.conn)
        /\ registry' = registry \ {t.session}
        /\ doomed' = doomed \cup {t.session}
     \/ /\ ~(t.session \in registry /\ StillDetached(t.session, t.conn))
        /\ UNCHANGED <<registry, doomed>>
  /\ UNCHANGED <<born, current, detached, left, sender, procs, down, handlerVars>>

(* ... and shuts its processes down, in a task nobody cancels. *)
TimerShutdown(s) ==
  /\ s \in doomed
  /\ doomed' = doomed \ {s}
  /\ Shutdown(s)
  /\ UNCHANGED <<registry, born, current, detached, left, sender, timers, handlerVars>>

-----------------------------------------------------------------------------
Handler(c) ==
  \/ Open(c) \/ Initialized(c) \/ Exec(c) \/ StartProcess(c) \/ CancelExec(c)
  \/ Disconnect(c) \/ LeaveLoop(c)
  \/ FinishReap(c) \/ CancelReap(c) \/ CloseHandler(c)
  \/ \E s \in Sessions : CreateSession(c, s) \/ ResumeSession(c, s) \/ ResumeExpired(c, s)

Next ==
  \/ \E c \in Conns : Handler(c)
  \/ Tick
  \/ \E t \in timers : TimerFires(t)
  \/ \E s \in Sessions : TimerShutdown(s)

(* Spawned tasks and timers run, time passes, a lost connection leaves its
   loop, and a closing handler finishes.  A handler at an await goes on, unless
   its connection is lost: then the select may take either branch. *)
Progress ==
  \/ Tick \/ \E t \in timers : TimerFires(t)
  \/ \E s \in Sessions : TimerShutdown(s)
  \/ \E c \in Conns : \/ CloseHandler(c) \/ FinishReap(c)
                      \/ c \in lost /\ LeaveLoop(c)

Spec == Init /\ [][Next]_vars
FairSpec == Spec /\ WF_vars(Progress) /\ \A c \in Conns : WF_vars(StartProcess(c))

-----------------------------------------------------------------------------
(* Every variable has its type; an open handler holds a session exactly when
   its initialize was accepted, and is initialized only then. *)
TypeOK ==
  /\ registry \subseteq born /\ born \subseteq Sessions
  /\ procs \subseteq Sessions /\ down \subseteq Sessions /\ doomed \subseteq Sessions
  /\ current \in [Sessions -> Conns \cup {None}]
  /\ detached \in [Sessions -> Conns \cup {None}]
  /\ left \in [Sessions -> 0..TTL]
  /\ sender \in [Sessions -> Conns \cup {None}]
  /\ timers \subseteq Timer
  /\ phase \in [Conns -> {"unused", "open", "reaping", "starting", "closing", "closed"}]
  /\ lost \subseteq Conns /\ requested \subseteq Conns /\ initialized \subseteq Conns
  /\ handle \in [Conns -> Sessions \cup {None}]
  /\ initialized \subseteq requested
  /\ \A c \in Conns :
       /\ phase[c] = "open" => (c \in requested <=> handle[c] # None)
       /\ phase[c] \in {"reaping", "starting"} => handle[c] # None
       /\ phase[c] = "starting" => c \in requested

(* The connection an initialized handler runs on. *)
Serving(c) == phase[c] \in {"open", "starting", "closing"} /\ handle[c] # None

(* While a connection is served, its session is in the registry, attached to
   it and to no other: no other resume, no timer and no reaper takes it away,
   and the eviction branches of run_connection and require_session_attached
   ("resumed by another connection") are never taken. *)
NeverEvicted ==
  \A c \in Conns : Serving(c) => handle[c] \in registry /\ current[handle[c]] = c

(* Processes of a registered session notify the connection that is attached,
   and nobody while it is detached. *)
SenderFollowsAttachment ==
  \A s \in registry : sender[s] = current[s]

(* A session that was shut down never gets a process again: no handler starts
   one there, although it checked its session before an await. *)
ShutdownIsFinal == procs \cap down = {}

(* A session leaves the registry only when nobody is attached and the grace
   period since its LAST detach has passed, whatever older timers wake up. *)
GraceHonoured ==
  [][\A s \in Sessions : s \in registry /\ s \notin registry'
       => current[s] = None /\ left[s] = 0]_vars

(* A detached session does not stay for ever: it is resumed, or removed. *)
DetachedSessionEnds ==
  \A s \in Sessions : (s \in registry /\ current[s] = None)
                        ~> (s \notin registry \/ current[s] # None)

(* README.md, "If the websocket connection closes, the server terminates any
   remaining managed processes for that client connection": once a session
   has left the registry for good, its processes are terminated. *)
RemovedSessionsTerminate ==
  \A s \in Sessions : (s \in born \ registry /\ s \in procs) ~> (s \notin procs)
=============================================================================
