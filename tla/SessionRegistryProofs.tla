------------------------ MODULE SessionRegistryProofs ------------------------
(***************************************************************************)
(* Proofs about the session registry, for any number of connections and    *)
(* sessions and any grace period.  NeverEvicted is not inductive by itself:*)
(* a connection keeps its session because no other handler holds it, so the*)
(* invariant also says that an attached session and its handler name each  *)
(* other (Owned), and that what was removed stays removed (Gone).          *)
(***************************************************************************)
EXTENDS SessionRegistry, TLAPS

(* A session's current connection is a live handler that holds this session. *)
Owned ==
  \A s \in Sessions : current[s] # None =>
    phase[current[s]] \in {"open", "starting", "closing"} /\ handle[current[s]] = s

(* A session that is being shut down, or was, is no longer registered. *)
Gone ==
  /\ doomed \subseteq born \ registry
  /\ down \subseteq born \ registry
  /\ \A c \in Conns : phase[c] = "reaping" => handle[c] \in born \ registry

(* A connection that was never opened has no state, and one that still waits
   for its initialize is not initialized. *)
Fresh ==
  \A c \in Conns : /\ phase[c] = "unused" => c \notin requested /\ handle[c] = None
                   /\ phase[c] = "reaping" => c \notin initialized

IInv ==
  /\ TypeOK /\ NeverEvicted /\ SenderFollowsAttachment /\ ShutdownIsFinal
  /\ Owned /\ Gone /\ Fresh

(* The initial states. *)
LEMMA InitIInv == Init => IInv
BY NoneAssumption, TTLAssumption
   DEF Init, IInv, TypeOK, NeverEvicted, SenderFollowsAttachment, ShutdownIsFinal,
       Owned, Gone, Fresh, Serving, Timer

(* A deadline or a sleep stays in range when time passes. *)
LEMMA LessType == ASSUME NEW n \in 0..TTL PROVE Less(n) \in 0..TTL
BY TTLAssumption DEF Less

(* Actions of one connection's handler. *)
LEMMA HandlerStep == ASSUME NEW c \in Conns, IInv, Handler(c) PROVE IInv'
<1> USE NoneAssumption, TTLAssumption
<1> USE DEF IInv, TypeOK, NeverEvicted, SenderFollowsAttachment, ShutdownIsFinal,
            Owned, Gone, Fresh, Serving, sessionVars, timerVars, handlerVars
<1>1. CASE Open(c)
  BY <1>1 DEF Open
<1>2. CASE Initialized(c)
  BY <1>2 DEF Initialized
<1>3. CASE Exec(c)
  BY <1>3 DEF Exec
<1>4. CASE Disconnect(c)
  BY <1>4 DEF Disconnect
<1>5. CASE LeaveLoop(c)
  BY <1>5 DEF LeaveLoop
<1>6. CASE FinishReap(c)
  BY <1>6 DEF FinishReap, Shutdown
<1>7. CASE CancelReap(c)
  BY <1>7 DEF CancelReap
<1>8. CASE CloseHandler(c)
  BY <1>8 DEF CloseHandler, Holds, Detach, Timer
<1>9. ASSUME NEW s \in Sessions, CreateSession(c, s) PROVE IInv'
  BY <1>9 DEF CreateSession, AttachTo, Ready
<1>10. ASSUME NEW s \in Sessions, ResumeSession(c, s) PROVE IInv'
  BY <1>10 DEF ResumeSession, AttachTo, Ready, Active
<1>11. ASSUME NEW s \in Sessions, ResumeExpired(c, s) PROVE IInv'
  BY <1>11 DEF ResumeExpired, Ready, Expired
<1>12. CASE StartProcess(c)
  BY <1>12 DEF StartProcess
<1>13. CASE CancelExec(c)
  BY <1>13 DEF CancelExec
<1> QED
  BY <1>1, <1>2, <1>3, <1>4, <1>5, <1>6, <1>7, <1>8, <1>9, <1>10, <1>11, <1>12, <1>13
     DEF Handler

(* Time passes: only deadlines and sleeps change. *)
LEMMA TickStep == IInv /\ Tick => IInv'
<1> SUFFICES ASSUME IInv, Tick PROVE IInv'
  OBVIOUS
<1>1. left' \in [Sessions -> 0..TTL]
  BY LessType DEF IInv, TypeOK, Tick
<1>2. timers' \subseteq Timer
  BY LessType DEF IInv, TypeOK, Tick, Timer
<1> QED
  BY <1>1, <1>2 DEF Tick, IInv, TypeOK, NeverEvicted, SenderFollowsAttachment,
     ShutdownIsFinal, Owned, Gone, Fresh, Serving, handlerVars

(* expire_if_detached removes only a session nobody holds. *)
LEMMA TimerStep == ASSUME IInv, NEW t \in timers, TimerFires(t) PROVE IInv'
BY NoneAssumption DEF TimerFires, StillDetached, Timer, IInv, TypeOK, NeverEvicted,
   SenderFollowsAttachment, ShutdownIsFinal, Owned, Gone, Fresh, Serving, handlerVars

(* The shutdown of a removed session concerns no registered one. *)
LEMMA ShutdownStep == ASSUME IInv, NEW s \in Sessions, TimerShutdown(s) PROVE IInv'
BY DEF TimerShutdown, Shutdown, IInv, TypeOK, NeverEvicted, SenderFollowsAttachment,
   ShutdownIsFinal, Owned, Gone, Fresh, Serving, handlerVars

(* Every step, and stuttering, keeps the inductive invariant. *)
LEMMA NextIInv == IInv /\ [Next]_vars => IInv'
<1> SUFFICES ASSUME IInv, [Next]_vars PROVE IInv'
  OBVIOUS
<1>1. CASE UNCHANGED vars
  BY <1>1 DEF vars, sessionVars, timerVars, handlerVars, IInv, TypeOK, NeverEvicted,
     SenderFollowsAttachment, ShutdownIsFinal, Owned, Gone, Fresh, Serving
<1>2. CASE Next
  BY <1>2, HandlerStep, TickStep, TimerStep, ShutdownStep DEF Next
<1> QED
  BY <1>1, <1>2

(* The inductive invariant holds throughout. *)
LEMMA InvariantIInv == Spec => []IInv
BY InitIInv, NextIInv, PTL DEF Spec

(* Every variable has its type, and a handler's flags agree with the session
   it holds. *)
THEOREM RegistryTypeCorrect == Spec => []TypeOK
BY InvariantIInv, PTL DEF IInv

(* No resume, timer or reaper ever takes a session from a connection that is
   served: whatever the interleaving, run_connection never meets a session
   that is attached elsewhere. *)
THEOREM NoEviction == Spec => []NeverEvicted
BY InvariantIInv, PTL DEF IInv

(* The processes of a registered session notify exactly the attached
   connection. *)
THEOREM NotificationsFollow == Spec => []SenderFollowsAttachment
BY InvariantIInv, PTL DEF IInv

(* No process is started in a session after its shutdown. *)
THEOREM NoStartAfterShutdown == Spec => []ShutdownIsFinal
BY InvariantIInv, PTL DEF IInv

(* A session is removed only after the grace period of its last detach. *)
THEOREM GracePeriod == Spec => GraceHonoured
<1> DEFINE Removal == \A s \in Sessions : s \in registry /\ s \notin registry'
                                            => current[s] = None /\ left[s] = 0
<1>1. ASSUME [Next]_vars PROVE [Removal]_vars
  <2>1. CASE \E c \in Conns : Handler(c)
    BY <2>1 DEF Handler, Open, Initialized, Exec, StartProcess, CancelExec, Disconnect,
       LeaveLoop, FinishReap,
       CancelReap, CloseHandler, CreateSession, ResumeSession, ResumeExpired, Expired, sessionVars
  <2>2. CASE \E t \in timers : TimerFires(t)
    BY <2>2 DEF TimerFires, StillDetached
  <2>3. CASE Tick \/ \E s \in Sessions : TimerShutdown(s)
    BY <2>3 DEF Tick, TimerShutdown
  <2> QED
    BY <1>1, <2>1, <2>2, <2>3 DEF Next
<1> QED
  BY <1>1, PTL DEF Spec, GraceHonoured
=============================================================================
