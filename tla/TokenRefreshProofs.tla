------------------------- MODULE TokenRefreshProofs -------------------------
(***************************************************************************)
(* Proofs about TokenRefresh, for any processes, calls, accounts and any   *)
(* number of tokens.                                                       *)
(***************************************************************************)
EXTENDS TokenRefresh, TLAPS

(* What a call knows when it uses it. *)
Known ==
  \A t \in Tasks :
    /\ at[t] = "request" => snap[t] \in Auths
    /\ at[t] \in {"persist", "truncate", "write"} => reply[t] \in Replies
    /\ at[t] \in {"truncate", "write"} => read[t] \in Auths

LEMMA InitTyped == Init => TypeOK /\ Known
<1> SUFFICES ASSUME Init PROVE TypeOK /\ Known
  OBVIOUS
<1>1. 1 \in Tokens
  BY NamesAssumption DEF Tokens
<1>2. store \in Auths /\ valid \in [Accounts -> SUBSET Tokens]
  BY <1>1 DEF Init, Auths
<1> QED
  BY <1>1, <1>2 DEF Init, TypeOK, Known, Labels

(* A call that ends, or fails, leaves every call typed. *)
LEMMA ReturnTyped ==
  ASSUME TypeOK, NEW t \in Tasks, Fails(t)
  PROVE  /\ at' \in [Tasks -> Labels] /\ lock' \in [Procs -> Tasks \cup {None}]
         /\ snap' \in [Tasks -> Auths \cup {None}] /\ read' \in [Tasks -> Auths \cup {None}]
         /\ reply' \in [Tasks -> Replies \cup {None}]
         /\ at'[t] \in {"done", "acquire"}
         /\ \A s \in Tasks \ {t} : /\ at'[s] = at[s] /\ snap'[s] = snap[s]
                                   /\ read'[s] = read[s] /\ reply'[s] = reply[s]
  BY CallsAssumption DEF TypeOK, Fails, Return, Leave, GoTo, Labels

LEMMA LoadedTyped == TypeOK => Loaded \in Auths \cup {None}
  BY DEF TypeOK, Loaded

LEMMA SetCachedTyped ==
  ASSUME TypeOK, NEW p \in Procs, NEW auth \in Auths \cup {None}, SetCached(p, auth)
  PROVE  cache' \in [Procs -> Auths \cup {None}] /\ failed' \in [Procs -> Auths \cup {None}]
  BY DEF TypeOK, SetCached

LEMMA StepTyped ==
  ASSUME TypeOK, Known, NEW t \in Tasks, Step(t)
  PROVE  TypeOK' /\ Known'
<1> USE CallsAssumption
<1>1. CASE StartRefresh(t)
  <2>1. CASE cache[Proc[t]] = None
    BY <1>1, <2>1, ReturnTyped DEF StartRefresh, Fails, TypeOK, Known, authority, file
  <2>2. CASE cache[Proc[t]] # None
    BY <1>1, <2>2 DEF StartRefresh, TypeOK, Known, GoTo, Labels, authority, file
  <2> QED BY <2>1, <2>2
<1>2. CASE StartRecovery(t)
  BY <1>2 DEF StartRecovery, TypeOK, Known, GoTo, Labels, authority, file, memory
<1>3. CASE LoadGuarded(t)
  BY <1>3, LoadedTyped DEF LoadGuarded, TypeOK, Known, GoTo, Labels, authority, file, memory
<1>4. CASE ReloadSkipped(t)
  BY <1>4, ReturnTyped DEF ReloadSkipped, Fails, TypeOK, Known, authority, file
<1>5. CASE Reloaded(t)
  <2>1. /\ cache' \in [Procs -> Auths \cup {None}] /\ failed' \in [Procs -> Auths \cup {None}]
        /\ UNCHANGED <<file, authority, spent>> /\ mishap' \in BOOLEAN
    BY <1>5, SetCachedTyped DEF Reloaded, TypeOK
  <2>2. CASE GoOn(t, "acquire") \/ GoOn(t, "ask")
    BY <2>1, <2>2 DEF TypeOK, Known, GoOn, GoTo, Labels, authority, file
  <2>3. CASE Fails(t)
    BY <2>1, <2>3, ReturnTyped DEF TypeOK, Known, authority, file
  <2> QED BY <1>5, <2>2, <2>3 DEF Reloaded, Fails
<1>6. CASE Acquire(t)
  <2>1. CASE cache[Proc[t]] = None
    BY <1>6, <2>1, ReturnTyped DEF Acquire, TypeOK, Known, authority, file
  <2>2. CASE cache[Proc[t]] # None
    BY <1>6, <2>2 DEF Acquire, TypeOK, Known, GoTo, Labels, authority, file
  <2> QED BY <2>1, <2>2
<1>7. CASE Ask(t)
  <2>1. CASE Fails(t)
    BY <1>7, <2>1, ReturnTyped DEF Ask, TypeOK, Known, authority, file
  <2>2. CASE ~ Fails(t)
    BY <1>7, <2>2 DEF Ask, TypeOK, Known, GoTo, Labels, authority, file, Fails
  <2> QED BY <2>1, <2>2
<1>8. CASE Granted(t)
  <2>1. /\ snap[t] \in Auths /\ issued' = issued + 1 /\ issued' \in Tokens
        /\ UNCHANGED <<file, cache, failed>>
    BY <1>8, NamesAssumption DEF Granted, Known, TypeOK, Tokens
  <2>2. PICK rotated \in BOOLEAN :
        /\ IF rotated
           THEN /\ valid' = [valid EXCEPT ![snap[t].owner] =
                               (@ \ {snap[t].refresh}) \cup {issued + 1}]
                /\ spent' = [spent EXCEPT ![Proc[t]] = @ \cup {snap[t].refresh}]
           ELSE UNCHANGED <<valid, spent>>
        /\ \/ /\ GoTo(t, "persist")
              /\ reply' = [reply EXCEPT ![t] =
                   [owner |-> snap[t].owner, access |-> issued + 1,
                    refresh |-> IF rotated THEN issued + 1 ELSE None]]
              /\ UNCHANGED <<lock, snap, read, mishap>>
           \/ Fails(t) /\ mishap' = TRUE
    BY <1>8 DEF Granted
  <2>3. snap[t].owner \in Accounts /\ snap[t].refresh \in Tokens
    BY <2>1 DEF Auths
  <2>4. valid' \in [Accounts -> SUBSET Tokens] /\ spent' \in [Procs -> SUBSET Tokens]
    BY <2>1, <2>2, <2>3 DEF TypeOK
  <2>5. CASE Fails(t) /\ mishap' = TRUE
    BY <2>1, <2>4, <2>5, ReturnTyped DEF TypeOK, Known, file
  <2>6. CASE /\ GoTo(t, "persist")
             /\ reply' = [reply EXCEPT ![t] =
                  [owner |-> snap[t].owner, access |-> issued + 1,
                   refresh |-> IF rotated THEN issued + 1 ELSE None]]
             /\ UNCHANGED <<lock, snap, read, mishap>>
    <3> DEFINE answer == [owner |-> snap[t].owner, access |-> issued + 1,
                          refresh |-> IF rotated THEN issued + 1 ELSE None]
    <3>1. answer \in Replies
      BY <2>1, <2>3 DEF Replies
    <3>2. reply' = [reply EXCEPT ![t] = answer]
      BY <2>6
    <3> HIDE DEF answer
    <3> QED
      BY <2>1, <2>4, <2>6, <3>1, <3>2 DEF TypeOK, Known, GoTo, Labels, file
  <2> QED BY <2>2, <2>5, <2>6
<1>9. CASE Unreachable(t)
  BY <1>9, ReturnTyped DEF Unreachable, TypeOK, Known, authority, file
<1>10. CASE Refused(t)
  <2>1. failed' \in [Procs -> Auths \cup {None}]
    BY <1>10 DEF Refused, SaveFails, TypeOK
  <2> QED
    BY <1>10, <2>1, ReturnTyped DEF Refused, SaveFails, TypeOK, Known, authority, file
<1>11. CASE Persist(t)
  <2>1. CASE Loaded = None
    BY <1>11, <2>1, ReturnTyped DEF Persist, TypeOK, Known, authority, file
  <2>2. CASE Loaded # None
    BY <1>11, <2>2, LoadedTyped DEF Persist, TypeOK, Known, GoTo, Labels, authority, file
  <2> QED BY <2>1, <2>2
<1>12. CASE Truncate(t)
  BY <1>12 DEF Truncate, TypeOK, Known, GoTo, Labels, authority, file, memory
<1>13. CASE Write(t)
  <2>1. reply[t] \in Replies /\ read[t] \in Auths
    BY <1>13 DEF Write, Known
  <2> DEFINE auth == [acct |-> read[t].acct, owner |-> reply[t].owner, access |-> reply[t].access,
                      refresh |-> IF reply[t].refresh = None THEN read[t].refresh
                                  ELSE reply[t].refresh]
  <2>2. auth \in Auths /\ Saved(t, auth)
    BY <1>13, <2>1 DEF Write, Auths, Replies
  <2> HIDE DEF auth
  <2>3. /\ store' \in Auths \cup {None, Torn} /\ linked' \subseteq Tasks
        /\ UNCHANGED <<cache, failed, authority, spent>> /\ mishap' \in BOOLEAN
    BY <1>13, <2>2 DEF Write, Saved, TypeOK
  <2>4. CASE Fails(t)
    BY <2>3, <2>4, ReturnTyped DEF TypeOK, Known, authority, file
  <2>5. CASE GoOn(t, "reload")
    BY <2>3, <2>5 DEF TypeOK, Known, GoOn, GoTo, Labels, authority, file
  <2> QED BY <1>13, <2>4, <2>5 DEF Write, Fails
<1>14. CASE Load(t)
  BY <1>14, LoadedTyped DEF Load, TypeOK, Known, GoTo, Labels, authority, file, memory
<1>15. CASE Install(t)
  <2>1. cache' \in [Procs -> Auths \cup {None}] /\ failed' \in [Procs -> Auths \cup {None}]
    BY <1>15, SetCachedTyped DEF Install, TypeOK
  <2> QED
    BY <1>15, <2>1, ReturnTyped DEF Install, Fails, TypeOK, Known, authority, file
<1>16. CASE Logout(t)
  BY <1>16 DEF Logout, TypeOK, Known, GoTo, Labels, authority, file, memory
<1>17. CASE Login(t)
  <2>1. issued + 1 \in Tokens
    BY <1>17, NamesAssumption DEF Login, TypeOK, Tokens
  <2>2. PICK a \in Accounts :
        /\ issued' = issued + 1 /\ valid' = [valid EXCEPT ![a] = @ \cup {issued + 1}]
        /\ read' = [read EXCEPT ![t] = [acct |-> a, owner |-> a, access |-> issued + 1,
                                        refresh |-> issued + 1]]
        /\ reply' = [reply EXCEPT ![t] = [owner |-> a, access |-> issued + 1,
                                          refresh |-> issued + 1]]
    BY <1>17 DEF Login
  <2> DEFINE saved == [acct |-> a, owner |-> a, access |-> issued + 1, refresh |-> issued + 1]
             answer == [owner |-> a, access |-> issued + 1, refresh |-> issued + 1]
  <2>3. saved \in Auths /\ answer \in Replies
    BY <2>1 DEF Auths, Replies
  <2>4. /\ read' = [read EXCEPT ![t] = saved] /\ reply' = [reply EXCEPT ![t] = answer]
        /\ issued' \in Tokens /\ valid' \in [Accounts -> SUBSET Tokens]
    BY <2>1, <2>2 DEF TypeOK
  <2> HIDE DEF saved, answer
  <2> QED
    BY <1>17, <2>3, <2>4 DEF Login, TypeOK, Known, GoTo, Labels, memory
<1>18. CASE SaveFails(t)
  <2>1. /\ store' \in Auths \cup {None, Torn} /\ linked' \subseteq Tasks
        /\ UNCHANGED <<cache, failed, authority, spent>> /\ mishap' \in BOOLEAN
    BY <1>18 DEF SaveFails, TypeOK
  <2> QED BY <1>18, <2>1, ReturnTyped DEF SaveFails, TypeOK, Known, authority
<1> QED
  BY <1>1, <1>2, <1>3, <1>4, <1>5, <1>6, <1>7, <1>8, <1>9, <1>10, <1>11, <1>12, <1>13,
     <1>14, <1>15, <1>16, <1>17, <1>18 DEF Step

(* OneRefreshAtATime turns on the places of a process's calls and the lock. *)
LEMMA ReturnGuarded ==
  ASSUME TypeOK, OneRefreshAtATime, NEW t \in Tasks, Fails(t)
  PROVE  OneRefreshAtATime'
<1>1. PICK label \in {"done", "acquire"} :
      /\ at' = [at EXCEPT ![t] = label] /\ at \in [Tasks -> Labels]
      /\ label = "acquire" => Call[t] = "recover"
      /\ lock' = [lock EXCEPT ![Proc[t]] = IF @ = t THEN None ELSE @]
      /\ lock \in [Procs -> Tasks \cup {None}]
  BY DEF Return, Leave, GoTo, TypeOK, Fails
<1>2. ASSUME NEW s \in Tasks PROVE HasGuard(s)' <=> lock'[Proc[s]] = s
  <2>1. CASE s = t
    <3>1. at'[s] = label
      BY <1>1, <2>1
    <3>2. lock'[Proc[s]] # s
      BY <1>1, <2>1, CallsAssumption, NamesAssumption
    <3> QED BY <1>1, <2>1, <3>1, <3>2 DEF HasGuard
  <2>2. CASE s # t
    <3>1. HasGuard(s)' <=> HasGuard(s)
      BY <1>1, <2>2 DEF HasGuard
    <3>2. lock'[Proc[s]] = s <=> lock[Proc[s]] = s
      BY <1>1, <2>2, CallsAssumption, NamesAssumption
    <3> QED BY <3>1, <3>2 DEF OneRefreshAtATime
  <2> QED BY <2>1, <2>2
<1> QED
  BY <1>2 DEF OneRefreshAtATime

(* A step within the guarded part, or outside of it, keeps the lock. *)
LEMMA MoveGuarded ==
  ASSUME TypeOK, OneRefreshAtATime, NEW t \in Tasks, NEW label, GoTo(t, label),
         lock' = lock, HasGuard(t)' <=> HasGuard(t)
  PROVE  OneRefreshAtATime'
<1>1. at' = [at EXCEPT ![t] = label] /\ at \in [Tasks -> Labels]
  BY DEF GoTo, TypeOK
<1>2. ASSUME NEW s \in Tasks PROVE HasGuard(s)' <=> HasGuard(s)
  BY <1>1 DEF HasGuard
<1> QED
  BY <1>2 DEF OneRefreshAtATime

LEMMA TakeGuarded ==
  ASSUME TypeOK, OneRefreshAtATime, NEW t \in Tasks, NEW label, GoTo(t, label),
         lock[Proc[t]] = None, lock' = [lock EXCEPT ![Proc[t]] = t], HasGuard(t)'
  PROVE  OneRefreshAtATime'
<1>1. /\ at' = [at EXCEPT ![t] = label] /\ at \in [Tasks -> Labels]
      /\ lock \in [Procs -> Tasks \cup {None}]
  BY DEF GoTo, TypeOK
<1>2. ASSUME NEW s \in Tasks, s # t PROVE HasGuard(s)' <=> lock'[Proc[s]] = s
  <2>1. HasGuard(s)' <=> HasGuard(s)
    BY <1>1, <1>2 DEF HasGuard
  <2>2. lock'[Proc[s]] = s <=> lock[Proc[s]] = s
    BY <1>1, <1>2, CallsAssumption, NamesAssumption
  <2> QED BY <2>1, <2>2 DEF OneRefreshAtATime
<1>3. lock'[Proc[t]] = t
  BY <1>1, CallsAssumption
<1> QED
  BY <1>2, <1>3 DEF OneRefreshAtATime

(* Which calls are where: only refreshes and recoveries ask the authority. *)
Placed ==
  \A t \in Tasks :
    /\ at[t] \in {"load", "compare"} => Call[t] \in {"refresh", "recover"}
    /\ at[t] = "acquire" => Call[t] = "recover"
    /\ at[t] \in {"ask", "request", "persist", "truncate"} => Call[t] \in {"refresh", "recover"}
    /\ at[t] = "write" => Call[t] \in {"refresh", "recover", "login"}
    /\ at[t] \in {"reload", "install"} => Call[t] \in {"refresh", "recover", "logout"}

LEMMA StepPlaced ==
  ASSUME TypeOK, Placed, NEW t \in Tasks, Step(t)
  PROVE  Placed'
<1>1. at \in [Tasks -> Labels]
  BY DEF TypeOK
<1>2. PICK label : at' = [at EXCEPT ![t] = label]
  BY DEF Step, StartRefresh, StartRecovery, LoadGuarded, ReloadSkipped, Reloaded, Acquire, Ask,
         Granted, Unreachable, Refused, Persist, Truncate, Write, SaveFails, Load, Install,
         Logout, Login, Fails, Return, Leave, GoOn, GoTo
<1>3. /\ at'[t] \in {"load", "compare"} => Call[t] \in {"refresh", "recover"}
      /\ at'[t] = "acquire" => Call[t] = "recover"
      /\ at'[t] \in {"ask", "request", "persist", "truncate"} => Call[t] \in {"refresh", "recover"}
      /\ at'[t] = "write" => Call[t] \in {"refresh", "recover", "login"}
      /\ at'[t] \in {"reload", "install"} => Call[t] \in {"refresh", "recover", "logout"}
  BY <1>1, CallsAssumption
     DEF Placed, Step, StartRefresh, StartRecovery, LoadGuarded, ReloadSkipped, Reloaded,
         Acquire, Ask, Granted, Unreachable, Refused, Persist, Truncate, Write, SaveFails, Load,
         Install, Logout, Login, Fails, Return, Leave, GoOn, GoTo
<1> QED
  BY <1>1, <1>2, <1>3 DEF Placed

LEMMA StepGuarded ==
  ASSUME TypeOK, Placed, OneRefreshAtATime, NEW t \in Tasks, Step(t)
  PROVE  OneRefreshAtATime'
<1> USE DEF TypeOK
<1>1. CASE Fails(t)
  BY <1>1, ReturnGuarded
<1>2. CASE (StartRefresh(t) \/ Acquire(t)) /\ ~ Fails(t)
  <2>1. lock[Proc[t]] = None /\ lock' = [lock EXCEPT ![Proc[t]] = t]
    BY <1>2 DEF StartRefresh, Acquire, Fails
  <2>2. CASE StartRefresh(t)
    BY <1>2, <2>1, <2>2, TakeGuarded DEF StartRefresh, HasGuard, GoTo, Fails
  <2>3. CASE Acquire(t)
    BY <1>2, <2>1, <2>3, TakeGuarded DEF Acquire, HasGuard, GoTo, Placed
  <2> QED BY <1>2, <2>2, <2>3
<1>3. CASE StartRecovery(t) \/ LoadGuarded(t) \/ Logout(t) \/ Load(t) \/ Truncate(t) \/ Login(t)
  <2>1. lock' = lock
    BY <1>3 DEF StartRecovery, LoadGuarded, Logout, Load, Truncate, Login, memory
  <2>2. HasGuard(t)' <=> HasGuard(t)
    BY <1>3 DEF StartRecovery, LoadGuarded, Logout, Load, Truncate, Login, HasGuard, GoTo
  <2> QED
    BY <1>3, <2>1, <2>2, MoveGuarded
       DEF StartRecovery, LoadGuarded, Logout, Load, Truncate, Login
<1>4. CASE (Reloaded(t) \/ Ask(t) \/ Granted(t) \/ Persist(t) \/ Write(t)) /\ ~ Fails(t)
  <2>1. lock' = lock
    BY <1>4 DEF Reloaded, Ask, Granted, Persist, Write, GoOn, Fails
  <2>2. PICK label : GoTo(t, label)
    BY <1>4 DEF Reloaded, Ask, Granted, Persist, Write, GoOn, Fails
  <2>3. HasGuard(t)' <=> HasGuard(t)
    BY <1>4, CallsAssumption
       DEF Reloaded, Ask, Granted, Persist, Write, GoOn, HasGuard, GoTo, Placed, Fails
  <2> QED
    BY <2>1, <2>2, <2>3, MoveGuarded
<1> QED
  BY <1>1, <1>2, <1>3, <1>4 DEF Step, ReloadSkipped, Unreachable, Refused, SaveFails, Install,
                                Fails

LEMMA StepFailure ==
  ASSUME TypeOK, FailureIsAboutTheCache, NEW t \in Tasks, Step(t)
  PROVE  FailureIsAboutTheCache'
<1>1. CASE Reloaded(t) \/ Install(t)
  <2>1. SetCached(Proc[t], read[t])
    BY <1>1 DEF Reloaded, Install
  <2> QED
    BY <2>1, CallsAssumption DEF SetCached, TypeOK, FailureIsAboutTheCache
<1>2. CASE Refused(t)
  BY <1>2, CallsAssumption DEF Refused, SaveFails, TypeOK, FailureIsAboutTheCache
<1>3. CASE UNCHANGED <<cache, failed>>
  BY <1>3 DEF FailureIsAboutTheCache
<1> QED
  BY <1>1, <1>2, <1>3
     DEF Step, StartRefresh, StartRecovery, LoadGuarded, ReloadSkipped, Acquire, Ask, Granted,
         Unreachable, Persist, Truncate, Write, SaveFails, Load, Logout, Login, memory

-----------------------------------------------------------------------------
IInv == TypeOK /\ Known /\ Placed /\ OneRefreshAtATime /\ FailureIsAboutTheCache

(* The inductive invariant: types, what each call knows at its place, who   *)
(* holds the refresh lock, and what a recorded failure is about.            *)
THEOREM Invariance == Spec => []IInv
<1>1. Init => IInv
  BY InitTyped, NamesAssumption, CallsAssumption
     DEF Init, IInv, Placed, OneRefreshAtATime, HasGuard, FailureIsAboutTheCache
<1>2. IInv /\ [Next]_vars => IInv'
  <2> SUFFICES ASSUME IInv, [Next]_vars PROVE IInv'
    OBVIOUS
  <2>1. CASE UNCHANGED vars
    BY <2>1 DEF IInv, vars, memory, authority, file, TypeOK, Known, Placed, OneRefreshAtATime,
                HasGuard, FailureIsAboutTheCache
  <2>2. ASSUME NEW t \in Tasks, Step(t) PROVE IInv'
    BY <2>2, StepTyped, StepPlaced, StepGuarded, StepFailure DEF IInv
  <2> QED BY <2>1, <2>2 DEF Next, Finished
<1> QED BY <1>1, <1>2, PTL DEF Spec

(* Every variable keeps its type; in particular the file never gets an    *)
(* answer's missing refresh token (persist_tokens).                       *)
THEOREM TypeCorrect == Spec => []TypeOK
  BY Invariance, PTL DEF IInv

(* The refreshes of a process exclude each other and the lock is never    *)
(* left behind, for any calls (refresh_lock).                             *)
THEOREM MutualExclusion == Spec => []OneRefreshAtATime
  BY Invariance, PTL DEF IInv

(* A recorded permanent failure is always about the cached credentials    *)
(* (record_permanent_refresh_failure_if_unchanged, set_cached_auth).      *)
THEOREM FailureScoped == Spec => []FailureIsAboutTheCache
  BY Invariance, PTL DEF IInv

-----------------------------------------------------------------------------
(* Refresh tokens that were rotated do not come back.                       *)

(* The answer of the call brought a new refresh token. *)
Rotated(t) == reply[t] \in Replies /\ reply[t].refresh # None
Unsaved(t) == at[t] \in {"persist", "truncate", "write"} /\ Rotated(t)

(* Tokens that some process, call or the file has or had.  What a login is  *)
(* about to save is not among them.                                         *)
Seen(n) ==
  \/ store \in Auths /\ store.refresh = n
  \/ \E p \in Procs : n \in spent[p] \/ (cache[p] \in Auths /\ cache[p].refresh = n)
  \/ \E t \in Tasks : \/ snap[t] \in Auths /\ snap[t].refresh = n
                      \/ Call[t] # "login" /\ read[t] \in Auths /\ read[t].refresh = n

(* A new refresh token is known to nobody until it is saved. *)
NewTokens ==
  /\ \A n \in Tokens : Seen(n) => n <= issued
  /\ \A t \in Tasks : Unsaved(t) => ~Seen(reply[t].refresh) /\ reply[t].refresh <= issued
  /\ \A s, t \in Tasks : Unsaved(s) /\ Unsaved(t) /\ s # t => reply[s].refresh # reply[t].refresh

(* Who has the file open is about to write it, and a login has its tokens. *)
Writers ==
  /\ \A t \in linked : at[t] = "write"
  /\ \A t \in Tasks : at[t] = "write" /\ Call[t] = "login" => Rotated(t)

(* A step of one call leaves the others where they are. *)
LEMMA OthersStay ==
  ASSUME TypeOK, NEW t \in Tasks, Step(t), NEW s \in Tasks, s # t
  PROVE  at'[s] = at[s] /\ snap'[s] = snap[s] /\ read'[s] = read[s] /\ reply'[s] = reply[s]
<1>1. CASE Fails(t)
  BY <1>1, ReturnTyped
<1>2. CASE ~ Fails(t)
  <2>1. CASE StartRefresh(t) \/ StartRecovery(t) \/ LoadGuarded(t) \/ Acquire(t) \/ Ask(t)
             \/ Truncate(t) \/ Load(t) \/ Logout(t)
    BY <1>2, <2>1 DEF TypeOK, GoTo, StartRefresh, StartRecovery, LoadGuarded, Acquire, Ask,
                      Truncate, Load, Logout, Fails
  <2>2. CASE Reloaded(t) \/ Persist(t) \/ Write(t)
    BY <1>2, <2>2 DEF TypeOK, GoTo, GoOn, Reloaded, Persist, Write, Fails
  <2>3. CASE Granted(t)
    BY <1>2, <2>3 DEF TypeOK, GoTo, Granted
  <2>4. CASE Login(t)
    BY <1>2, <2>4 DEF TypeOK, GoTo, Login
  <2> QED
    BY <1>2, <2>1, <2>2, <2>3, <2>4 DEF Step, ReloadSkipped, Unreachable, Refused, SaveFails,
                                        Install, Fails
<1> QED BY <1>1, <1>2

(* The credentials a save writes. *)
Merged(t) ==
  [acct |-> read[t].acct, owner |-> reply[t].owner, access |-> reply[t].access,
   refresh |-> IF reply[t].refresh = None THEN read[t].refresh ELSE reply[t].refresh]

LEMMA MergedToken ==
  ASSUME IInv, NEW t \in Tasks, Write(t)
  PROVE  /\ Saved(t, Merged(t)) /\ Merged(t) \in Auths
         /\ Rotated(t) => Merged(t).refresh = reply[t].refresh
         /\ ~Rotated(t) => Merged(t).refresh = read[t].refresh
<1>1. reply[t] \in Replies /\ read[t] \in Auths
  BY DEF Write, IInv, Known
<1>2. Merged(t) \in Auths
  BY <1>1 DEF Merged, Auths, Replies
<1> QED BY <1>1, <1>2 DEF Write, Merged, Rotated

(* A token becomes known by being saved, and in no other way. *)
LEMMA SeenStep ==
  ASSUME IInv, Writers, NEW t \in Tasks, Step(t), NEW n, Seen(n)'
  PROVE  Seen(n) \/ (Write(t) /\ Rotated(t) /\ n = reply[t].refresh)
<1> DEFINE Saves == Write(t) /\ Rotated(t) /\ n = reply[t].refresh
<1>1. ASSUME store' \in Auths, store'.refresh = n PROVE Seen(n) \/ Saves
  <2>1. CASE store' = store
    BY <1>1, <2>1 DEF Seen
  <2>2. CASE Truncate(t) \/ Logout(t) \/ Login(t)
    BY <1>1, <2>2, DistinctAssumption DEF Truncate, Logout, Login
  <2>4. CASE SaveFails(t)
    BY <1>1, <2>1, <2>4, DistinctAssumption DEF SaveFails
  <2>3. CASE Write(t)
    <3>1. store' \in {store, Torn, Merged(t)}
      BY <2>3, MergedToken DEF Saved
    <3>2. CASE store' = Merged(t) /\ ~Rotated(t)
      <4>1. Call[t] # "login" /\ read[t] \in Auths /\ read[t].refresh = n
        BY <1>1, <2>3, <3>2, MergedToken DEF Write, Writers, IInv, Known
      <4> QED BY <4>1 DEF Seen
    <3>3. CASE store' = Merged(t) /\ Rotated(t)
      BY <1>1, <2>3, <3>3, MergedToken
    <3> QED BY <1>1, <2>1, <3>1, <3>2, <3>3, DistinctAssumption
  <2> QED
    BY <2>1, <2>2, <2>3, <2>4
       DEF Step, StartRefresh, StartRecovery, LoadGuarded, ReloadSkipped, Reloaded, Acquire, Ask,
           Granted, Unreachable, Refused, Persist, Load, Install, file
<1>2. ASSUME NEW p \in Procs, cache'[p] \in Auths, cache'[p].refresh = n PROVE Seen(n)
  <2>1. CASE cache' = cache
    BY <1>2, <2>1 DEF Seen
  <2>2. CASE Reloaded(t) \/ Install(t)
    <3>1. Call[t] # "login" /\ (cache'[p] = cache[p] \/ cache'[p] = read[t])
      BY <2>2, CallsAssumption DEF Reloaded, Install, SetCached, IInv, TypeOK, Placed
    <3> QED BY <1>2, <3>1 DEF Seen
  <2> QED
    BY <2>1, <2>2
       DEF Step, StartRefresh, StartRecovery, LoadGuarded, ReloadSkipped, Acquire, Ask, Granted,
           Unreachable, Refused, Persist, Truncate, Write, SaveFails, Load, Logout, Login, memory
<1>3. ASSUME NEW p \in Procs, n \in spent'[p] PROVE Seen(n)
  <2>1. CASE spent' = spent
    BY <1>3, <2>1 DEF Seen
  <2>2. CASE Granted(t)
    <3>1. snap[t] \in Auths
      BY <2>2 DEF Granted, IInv, Known
    <3>2. spent' = spent \/ spent' = [spent EXCEPT ![Proc[t]] = @ \cup {snap[t].refresh}]
      BY <2>2 DEF Granted
    <3>3. n \in spent[p] \/ n = snap[t].refresh
      BY <1>3, <3>2 DEF IInv, TypeOK
    <3> QED BY <3>1, <3>3 DEF Seen
  <2> QED
    BY <2>1, <2>2
       DEF Step, StartRefresh, StartRecovery, LoadGuarded, ReloadSkipped, Reloaded, Acquire, Ask,
           Unreachable, Refused, Persist, Truncate, Write, SaveFails, Load, Install, Logout,
           Login
<1>4. ASSUME NEW s \in Tasks, snap'[s] \in Auths, snap'[s].refresh = n PROVE Seen(n)
  <2>1. CASE snap'[s] = snap[s]
    BY <1>4, <2>1 DEF Seen
  <2>2. CASE s = t /\ snap'[t] \in {None, cache[Proc[t]]}
    BY <1>4, <2>2, CallsAssumption, DistinctAssumption DEF Seen
  <2>3. s = t => snap'[t] \in {snap[t], None, cache[Proc[t]]}
    BY DEF Step, StartRefresh, StartRecovery, LoadGuarded, ReloadSkipped, Reloaded, Acquire, Ask,
           Granted, Unreachable, Refused, Persist, Truncate, Write, SaveFails, Load, Install,
           Logout, Login, Fails, Return, Leave, GoOn, IInv, TypeOK
  <2> QED BY <2>1, <2>2, <2>3, OthersStay DEF IInv
<1>5. ASSUME NEW s \in Tasks, Call[s] # "login", read'[s] \in Auths, read'[s].refresh = n
      PROVE  Seen(n)
  <2>1. CASE read'[s] = read[s]
    BY <1>5, <2>1 DEF Seen
  <2>2. CASE read'[s] \in {None, Loaded}
    BY <1>5, <2>2, DistinctAssumption DEF Seen, Loaded
  <2>3. s = t => read'[t] \in {read[t], None, Loaded}
    BY <1>5
       DEF Step, StartRefresh, StartRecovery, LoadGuarded, ReloadSkipped, Reloaded, Acquire, Ask,
           Granted, Unreachable, Refused, Persist, Truncate, Write, SaveFails, Load, Install,
           Logout, Login, Fails, Return, Leave, GoOn, IInv, TypeOK
  <2> QED BY <2>1, <2>2, <2>3, OthersStay DEF IInv
<1> QED BY <1>1, <1>2, <1>3, <1>4, <1>5 DEF Seen

(* A call has a new refresh token to save from its answer on, or its login. *)
LEMMA UnsavedStep ==
  ASSUME IInv, NEW t \in Tasks, Step(t)
  PROVE  /\ issued' = issued \/ issued' = issued + 1
         /\ Unsaved(t)' => \/ Unsaved(t) /\ ~Write(t) /\ reply'[t] = reply[t]
                           \/ issued' = issued + 1 /\ reply'[t].refresh = issued'
<1> USE DEF IInv, TypeOK
<1>1. CASE Fails(t)
  <2>1. at'[t] \in {"done", "acquire"}
    BY <1>1, ReturnTyped
  <2> QED
    BY <2>1 DEF Unsaved, Step, StartRefresh, StartRecovery, LoadGuarded, ReloadSkipped, Reloaded,
                Acquire, Ask, Granted, Unreachable, Refused, Persist, Truncate, Write, SaveFails,
                Load, Install, Logout, Login, authority
<1>2. CASE ~ Fails(t)
  <2>1. CASE StartRefresh(t) \/ StartRecovery(t) \/ LoadGuarded(t) \/ Acquire(t) \/ Ask(t)
             \/ Load(t) \/ Logout(t) \/ Reloaded(t) \/ Write(t)
    BY <1>2, <2>1 DEF Unsaved, GoTo, GoOn, StartRefresh, StartRecovery, LoadGuarded, Acquire,
                      Ask, Load, Logout, Reloaded, Write, authority, Fails
  <2>2. CASE Persist(t) \/ Truncate(t)
    BY <1>2, <2>2 DEF Unsaved, Rotated, GoTo, Persist, Truncate, Write, authority
  <2>3. CASE Granted(t)
    <3>1. PICK rotated \in BOOLEAN :
            reply' = [reply EXCEPT ![t] =
              [owner |-> snap[t].owner, access |-> issued + 1,
               refresh |-> IF rotated THEN issued + 1 ELSE None]]
      BY <1>2, <2>3 DEF Granted
    <3>2. reply'[t].refresh \in {issued + 1, None} /\ issued' = issued + 1
      BY <2>3, <3>1 DEF Granted
    <3> QED BY <3>2 DEF Unsaved, Rotated
  <2>4. CASE Login(t)
    BY <2>4 DEF Login
  <2> QED
    BY <1>2, <2>1, <2>2, <2>3, <2>4 DEF Step, ReloadSkipped, Unreachable, Refused, SaveFails,
                                        Install, Fails
<1> QED BY <1>1, <1>2

LEMMA NewTokensStep ==
  ASSUME IInv, Writers, NewTokens, NEW t \in Tasks, Step(t)
  PROVE  NewTokens'
<1>1. issued \in Nat /\ issued' \in Nat /\ issued' >= issued
  BY UnsavedStep, NamesAssumption DEF IInv, TypeOK, Tokens
<1>2. ASSUME NEW s \in Tasks, s # t PROVE (Unsaved(s)' <=> Unsaved(s)) /\ reply'[s] = reply[s]
  BY <1>2, OthersStay DEF IInv, Unsaved, Rotated
<1>3. ASSUME NEW s \in Tasks, Unsaved(s) PROVE reply[s].refresh \in Tokens
  BY <1>3 DEF Unsaved, Rotated, Replies
<1>4. ASSUME NEW n \in Tokens, Seen(n)' PROVE n <= issued
  <2>1. CASE Seen(n)
    BY <2>1 DEF NewTokens
  <2>2. CASE Write(t) /\ Rotated(t) /\ n = reply[t].refresh
    BY <2>2 DEF NewTokens, Unsaved, Write
  <2> QED BY <1>4, <2>1, <2>2, SeenStep
<1>5. ASSUME NEW n \in Tokens, n <= issued PROVE n <= issued'
  BY <1>1, <1>5 DEF Tokens
<1>6. ASSUME NEW n \in Tokens, Seen(n)' PROVE n <= issued'
  BY <1>4, <1>5, <1>6
<1>7. ASSUME NEW s \in Tasks, Unsaved(s)', Unsaved(s), reply'[s] = reply[s], ~(s = t /\ Write(t))
      PROVE  ~Seen(reply[s].refresh)' /\ reply[s].refresh <= issued'
  <2>1. PICK n \in Tokens : n = reply[s].refresh
    BY <1>3, <1>7
  <2>2. ~Seen(n) /\ n <= issued
    BY <1>7, <2>1 DEF NewTokens
  <2>3. ~Seen(n)'
    <3>1. SUFFICES ASSUME Seen(n)' PROVE FALSE
      OBVIOUS
    <3>2. Write(t) /\ Rotated(t) /\ n = reply[t].refresh
      BY <2>2, <3>1, SeenStep
    <3>3. Unsaved(t) /\ s # t
      BY <1>7, <3>2 DEF Unsaved, Write
    <3> QED BY <1>7, <2>1, <3>2, <3>3 DEF NewTokens
  <2> QED BY <1>5, <1>7, <2>1, <2>2, <2>3 DEF Seen
<1>8. ASSUME NEW s \in Tasks, Unsaved(s)'
      PROVE  ~Seen(reply[s].refresh)' /\ reply'[s].refresh <= issued'
  <2>1. CASE Unsaved(s) /\ reply'[s] = reply[s] /\ ~(s = t /\ Write(t))
    BY <1>7, <1>8, <2>1 DEF Seen
  <2>2. CASE issued' = issued + 1 /\ reply'[s].refresh = issued'
    <3>1. PICK n \in Tokens : n = reply'[s].refresh
      BY <2>2, StepTyped DEF IInv, TypeOK
    <3>2. ~Seen(n)'
      BY <1>1, <1>4, <2>2, <3>1
    <3> QED BY <1>1, <2>2, <3>1, <3>2 DEF Seen
  <2> QED BY <1>2, <1>8, <2>1, <2>2, UnsavedStep
<1>9. ASSUME NEW r \in Tasks, NEW s \in Tasks, Unsaved(r)', Unsaved(s)', r # s
      PROVE  reply'[r].refresh # reply'[s].refresh
  <2>1. ASSUME NEW u \in Tasks, u # t, Unsaved(u)', Unsaved(t)'
        PROVE  reply'[u].refresh # reply'[t].refresh
    <3>1. Unsaved(u) /\ reply'[u] = reply[u] /\ reply[u].refresh <= issued
      BY <1>2, <2>1 DEF NewTokens
    <3>2. reply[u].refresh # issued + 1
      BY <1>1, <3>1
    <3> QED BY <2>1, <3>1, <3>2, UnsavedStep DEF NewTokens
  <2>2. CASE r # t /\ s # t
    BY <1>2, <1>9, <2>2 DEF NewTokens
  <2> QED BY <1>9, <2>1, <2>2
<1>10. \A n \in Tokens : Seen(n)' => n <= issued'
  BY <1>6
<1> QED BY <1>8, <1>9, <1>10 DEF NewTokens

LEMMA WritersStep ==
  ASSUME IInv, Writers, NEW t \in Tasks, Step(t)
  PROVE  Writers'
<1> USE DEF IInv, TypeOK
<1>1. ASSUME NEW s \in linked' PROVE at'[s] = "write"
  <2>1. CASE s # t
    <3>1. s \in linked
      BY <1>1, <2>1
         DEF Step, StartRefresh, StartRecovery, LoadGuarded, ReloadSkipped, Reloaded, Acquire,
             Ask, Granted, Unreachable, Refused, Persist, Truncate, Write, Saved, SaveFails,
             Load, Install, Logout, Login, file
    <3> QED BY <2>1, <3>1, OthersStay DEF Writers
  <2>2. CASE s = t
    <3>1. CASE Truncate(t) \/ Login(t)
      BY <2>2, <3>1 DEF Truncate, Login, GoTo
    <3>2. CASE Write(t) \/ SaveFails(t) \/ Logout(t)
      BY <1>1, <2>2, <3>2 DEF Write, Saved, SaveFails, Logout
    <3>3. CASE linked' = linked /\ at[t] # "write"
      BY <1>1, <2>2, <3>3 DEF Writers
    <3> QED
      BY <3>1, <3>2, <3>3
         DEF Step, StartRefresh, StartRecovery, LoadGuarded, ReloadSkipped, Reloaded, Acquire,
             Ask, Granted, Unreachable, Refused, Persist, Load, Install, file
  <2> QED BY <2>1, <2>2
<1>2. ASSUME NEW s \in Tasks, at'[s] = "write", Call[s] = "login" PROVE Rotated(s)'
  <2>1. CASE s # t
    BY <1>2, <2>1, OthersStay DEF Writers, Rotated
  <2>2. CASE s = t
    <3>1. Login(t)
      BY <1>2, <2>2, ReturnTyped
         DEF Step, StartRefresh, StartRecovery, LoadGuarded, ReloadSkipped, Reloaded, Acquire,
             Ask, Granted, Unreachable, Refused, Persist, Truncate, Write, SaveFails, Load,
             Install, Logout, GoTo, GoOn, Placed, Fails
    <3>2. reply'[t].refresh = issued + 1 /\ issued' = issued + 1
      BY <3>1 DEF Login
    <3>3. issued' \in Tokens /\ reply'[t] \in Replies
      BY <1>2, <2>2, StepTyped DEF Known
    <3> QED BY <2>2, <3>2, <3>3, DistinctAssumption DEF Rotated
  <2> QED BY <2>1, <2>2
<1> QED BY <1>1, <1>2 DEF Writers

(* The process has had a refresh token rotated and has yet to put the new  *)
(* one into the file, or into its cache.                                    *)
Saving(p) ==
  \E t \in Tasks : Proc[t] = p /\ at[t] \in {"persist", "truncate"} /\ Rotated(t)
Renewing(p) ==
  \E t \in Tasks : /\ Proc[t] = p /\ Call[t] \in {"refresh", "recover"}
                   /\ at[t] \in {"persist", "truncate", "write", "reload", "install"}
                   /\ Rotated(t)

(* Without a mishap only such a process has rotated tokens within reach: in *)
(* the file, in a save that carries the old one over, in its cache.         *)
SpentInFile == store \in Auths => \A p \in Procs : store.refresh \in spent[p] => Saving(p)
SpentInSave ==
  \A t \in linked : \A p \in Procs : ~Rotated(t) /\ read[t].refresh \in spent[p] => Saving(p)
SpentInCache ==
  \A p \in Procs : cache[p] \in Auths /\ cache[p].refresh \in spent[p] => Renewing(p)
SpentInRequest ==
  \A t \in Tasks : at[t] = "request" => snap[t].refresh \notin spent[Proc[t]]

NoReuse == ~mishap => SpentInFile /\ SpentInSave /\ SpentInCache /\ SpentInRequest

(* Two calls of a process that both have the refresh lock are one. *)
LEMMA OneHolder ==
  ASSUME IInv, NEW s \in Tasks, NEW t \in Tasks, HasGuard(s), HasGuard(t), Proc[s] = Proc[t]
  PROVE  s = t
  BY DEF IInv, OneRefreshAtATime

LEMMA SavingRenews ==
  ASSUME IInv, NEW p, Saving(p)
  PROVE  Renewing(p)
  BY DEF IInv, Placed, Saving, Renewing

(* A mishap is never forgotten. *)
LEMMA MishapStays ==
  ASSUME NEW t \in Tasks, Step(t), mishap
  PROVE  mishap'
  BY DEF Step, StartRefresh, StartRecovery, LoadGuarded, ReloadSkipped, Reloaded, Acquire, Ask,
         Granted, Unreachable, Refused, Persist, Truncate, Write, Saved, SaveFails, Load,
         Install, Logout, Login

(* Unless the call is the one that truncates the file, a process that has   *)
(* to save still has to.                                                    *)
LEMMA SavingKept ==
  ASSUME IInv, NEW t \in Tasks, Step(t), ~mishap', NEW p, Saving(p), ~(Truncate(t) /\ Rotated(t))
  PROVE  Saving(p)'
<1>1. PICK s \in Tasks : Proc[s] = p /\ at[s] \in {"persist", "truncate"} /\ Rotated(s)
  BY DEF Saving
<1>2. CASE s # t
  BY <1>1, <1>2, OthersStay DEF IInv, Saving, Rotated
<1>3. CASE s = t
  <2>1. Persist(t)
    BY <1>1, <1>3 DEF Step, StartRefresh, StartRecovery, LoadGuarded, ReloadSkipped, Reloaded,
                      Acquire, Ask, Granted, Unreachable, Refused, Write, SaveFails, Load,
                      Install, Logout, Login
  <2>2. at'[t] = "truncate" /\ reply' = reply
    BY <2>1 DEF Persist, GoTo, IInv, TypeOK
  <2> QED BY <1>1, <1>3, <2>2 DEF Saving, Rotated
<1> QED BY <1>2, <1>3

LEMMA RenewingKept ==
  ASSUME IInv, NEW t \in Tasks, Step(t), ~mishap', NEW p, Renewing(p), ~(Install(t) /\ Proc[t] = p)
  PROVE  Renewing(p)'
<1>1. PICK s \in Tasks : /\ Proc[s] = p /\ Call[s] \in {"refresh", "recover"}
                         /\ at[s] \in {"persist", "truncate", "write", "reload", "install"}
                         /\ Rotated(s)
  BY DEF Renewing
<1>2. CASE s # t
  BY <1>1, <1>2, OthersStay DEF IInv, Renewing, Rotated
<1>3. CASE s = t
  <2>1. Persist(t) \/ Truncate(t) \/ Write(t) \/ Load(t)
    BY <1>1, <1>3 DEF Step, StartRefresh, StartRecovery, LoadGuarded, ReloadSkipped, Reloaded,
                      Acquire, Ask, Granted, Unreachable, Refused, SaveFails, Logout, Login
  <2>2. at'[t] \in {"truncate", "write", "reload", "install"} /\ reply' = reply
    BY <1>1, <1>3, <2>1 DEF Persist, Truncate, Write, Load, GoTo, GoOn, IInv, TypeOK
  <2> QED BY <1>1, <1>3, <2>2 DEF Renewing, Rotated
<1> QED BY <1>2, <1>3

(* What a grant adds to the rotated tokens. *)
LEMMA GrantedSpends ==
  ASSUME IInv, NEW t \in Tasks, Step(t), ~mishap', NEW p \in Procs, NEW n \in spent'[p]
  PROVE  n \in spent[p] \/ (Granted(t) /\ Proc[t] = p /\ Saving(p)')
<1>1. CASE spent' = spent
  BY <1>1
<1>2. CASE Granted(t)
  <2>1. PICK rotated \in BOOLEAN :
          /\ IF rotated THEN spent' = [spent EXCEPT ![Proc[t]] = @ \cup {snap[t].refresh}]
                        ELSE spent' = spent
          /\ GoTo(t, "persist")
          /\ reply' = [reply EXCEPT ![t] =
               [owner |-> snap[t].owner, access |-> issued + 1,
                refresh |-> IF rotated THEN issued + 1 ELSE None]]
    BY <1>2 DEF Granted
  <2>2. at'[t] = "persist" /\ reply'[t].refresh = IF rotated THEN issued + 1 ELSE None
    BY <2>1 DEF GoTo, IInv, TypeOK
  <2>3. issued' = issued + 1 /\ issued' \in Tokens /\ reply'[t] \in Replies
    BY <1>2, <2>2, StepTyped DEF Granted, IInv, Known, TypeOK
  <2>4. rotated => Rotated(t)'
    BY <2>2, <2>3, DistinctAssumption DEF Rotated
  <2>5. n \in spent[p] \/ (rotated /\ Proc[t] = p)
    BY <2>1 DEF IInv, TypeOK
  <2> QED BY <1>2, <2>2, <2>4, <2>5 DEF Saving
<1> QED
  BY <1>1, <1>2
     DEF Step, StartRefresh, StartRecovery, LoadGuarded, ReloadSkipped, Reloaded, Acquire, Ask,
         Unreachable, Refused, Persist, Truncate, Write, SaveFails, Load, Install, Logout, Login

(* A save that begins while nobody else saves finds the file as it read it. *)
LEMMA FileAndSaves ==
  ASSUME IInv, Writers, NewTokens, NoReuse, NEW t \in Tasks, Step(t), ~mishap'
  PROVE  SpentInFile' /\ SpentInSave'
<1>1. SpentInFile /\ SpentInSave
  BY MishapStays DEF NoReuse, IInv, TypeOK
<1>2. CASE Truncate(t)
  <2>1. /\ store = read[t] /\ linked = {} /\ store' = Torn /\ linked' = {t} /\ spent' = spent
        /\ read' = read /\ reply' = reply /\ read[t] \in Auths
    BY <1>2 DEF Truncate, IInv, Known
  <2>2. ASSUME NEW p \in Procs, ~Rotated(t), read[t].refresh \in spent[p] PROVE Saving(p)'
    BY <1>1, <1>2, <2>1, <2>2, SavingKept DEF SpentInFile
  <2>3. SpentInFile'
    BY <2>1, DistinctAssumption DEF SpentInFile
  <2> QED BY <2>1, <2>2, <2>3 DEF SpentInSave, Rotated
<1>3. CASE ~ Truncate(t)
  <2>1. ASSUME NEW p \in Procs, store' \in Auths, store'.refresh \in spent'[p] PROVE Saving(p)'
    <3>1. PICK n : n = store'.refresh
      OBVIOUS
    <3>2. CASE n \in spent[p]
      <4>1. CASE store' = store
        BY <1>1, <1>3, <2>1, <3>1, <3>2, <4>1, SavingKept DEF SpentInFile
      <4>2. CASE Write(t)
        <5>1. store' = Merged(t) /\ t \in linked
          BY <2>1, <4>2, MergedToken DEF Saved
        <5>2. ~Rotated(t)
          <6>1. SUFFICES ASSUME Rotated(t) PROVE FALSE
            OBVIOUS
          <6>2. Unsaved(t) /\ n = reply[t].refresh
            BY <3>1, <4>2, <5>1, <6>1, MergedToken DEF Unsaved, Write
          <6> QED BY <3>2, <6>2 DEF NewTokens, Seen
        <5>3. n = read[t].refresh
          BY <3>1, <4>2, <5>1, <5>2, MergedToken
        <5> QED BY <1>1, <1>3, <3>2, <5>1, <5>2, <5>3, SavingKept DEF SpentInSave
      <4>3. CASE Logout(t) \/ Login(t)
        BY <2>1, <4>3, DistinctAssumption DEF Logout, Login
      <4> QED
        BY <1>3, <4>1, <4>2, <4>3
           DEF Step, StartRefresh, StartRecovery, LoadGuarded, ReloadSkipped, Reloaded, Acquire,
               Ask, Granted, Unreachable, Refused, SaveFails, Persist, Load, Install, file
    <3> QED BY <2>1, <3>1, <3>2, GrantedSpends
  <2>2. ASSUME NEW p \in Procs, NEW s \in linked', ~Rotated(s)', read'[s].refresh \in spent'[p]
        PROVE  Saving(p)'
    <3>1. CASE s = t
      <4>1. at'[t] = "write"
        BY <2>2, <3>1, WritersStep DEF Writers
      <4>2. Login(t)
        BY <1>3, <4>1, ReturnTyped
           DEF Step, StartRefresh, StartRecovery, LoadGuarded, ReloadSkipped, Reloaded, Acquire,
               Ask, Granted, Unreachable, Refused, Persist, Write, SaveFails, Load, Install,
               Logout, GoTo, GoOn, IInv, TypeOK, Fails
      <4> QED BY <2>2, <3>1, <4>1, <4>2, WritersStep DEF Login, Writers
    <3>2. CASE s # t
      <4>1. s \in linked /\ s \in Tasks
        BY <2>2, <3>2
           DEF Step, StartRefresh, StartRecovery, LoadGuarded, ReloadSkipped, Reloaded, Acquire,
               Ask, Granted, Unreachable, Refused, Persist, Truncate, Write, Saved, SaveFails,
               Load, Install, Logout, Login, file, IInv, TypeOK
      <4>2. read'[s] = read[s] /\ ~Rotated(s)
        BY <2>2, <3>2, <4>1, OthersStay DEF IInv, Rotated
      <4>3. CASE read[s].refresh \in spent[p]
        BY <1>1, <1>3, <4>1, <4>2, <4>3, SavingKept DEF SpentInSave
      <4> QED BY <2>2, <4>2, <4>3, GrantedSpends
    <3> QED BY <3>1, <3>2
  <2> QED BY <2>1, <2>2 DEF SpentInFile, SpentInSave
<1> QED BY <1>2, <1>3

(* What is installed in the cache is what the file holds. *)
LEMMA CacheAndRequests ==
  ASSUME IInv, Writers, NewTokens, NoReuse, NEW t \in Tasks, Step(t), ~mishap'
  PROVE  SpentInCache' /\ SpentInRequest'
<1>1. SpentInFile /\ SpentInCache /\ SpentInRequest
  BY MishapStays DEF NoReuse, IInv, TypeOK
<1>2. IInv'
  BY StepTyped, StepPlaced, StepGuarded, StepFailure DEF IInv
<1>3. ASSUME NEW p \in Procs, cache'[p] \in Auths, cache'[p].refresh \in spent'[p]
      PROVE  Renewing(p)'
  <2>1. ASSUME Saving(p)' PROVE Renewing(p)'
    BY <1>2, <2>1 DEF IInv, Placed, Saving, Renewing
  <2>2. PICK n : n = cache'[p].refresh
    OBVIOUS
  <2>3. CASE n \in spent[p]
    <3>1. CASE (Reloaded(t) \/ Install(t)) /\ Proc[t] = p
      <4>1. cache'[p] = read[t] /\ read[t] = store
        BY <3>1, CallsAssumption DEF Reloaded, Install, SetCached, IInv, TypeOK
      <4>2. Saving(p)
        BY <1>1, <1>3, <2>2, <2>3, <4>1 DEF SpentInFile
      <4>3. ~Truncate(t)
        BY <3>1 DEF Reloaded, Install, Truncate
      <4> QED BY <2>1, <4>2, <4>3, SavingKept
    <3>2. CASE ~((Reloaded(t) \/ Install(t)) /\ Proc[t] = p)
      <4>1. cache'[p] = cache[p]
        BY <3>2
           DEF Step, StartRefresh, StartRecovery, LoadGuarded, ReloadSkipped, Reloaded, Acquire,
               Ask, Granted, Unreachable, Refused, Persist, Truncate, Write, SaveFails, Load,
               Install, Logout, Login, SetCached, memory, IInv, TypeOK
      <4>2. Renewing(p)
        BY <1>1, <1>3, <2>2, <2>3, <4>1 DEF SpentInCache
      <4> QED BY <3>2, <4>2, RenewingKept
    <3> QED BY <3>1, <3>2
  <2> QED BY <1>3, <2>1, <2>2, <2>3, GrantedSpends
<1>4. ASSUME NEW s \in Tasks, at'[s] = "request", snap'[s].refresh \in spent'[Proc[s]] PROVE FALSE
  <2>1. Proc[s] \in Procs /\ HasGuard(s)'
    BY <1>2, <1>4, CallsAssumption DEF IInv, Placed, HasGuard
  <2>2. PICK n : n = snap'[s].refresh
    OBVIOUS
  <2>3. n \in spent[Proc[s]]
    <3>1. SUFFICES ASSUME Granted(t), Proc[t] = Proc[s] PROVE FALSE
      BY <1>4, <2>1, <2>2, GrantedSpends
    <3>2. s # t
      BY <1>4, <3>1, ReturnTyped DEF Granted, GoTo, IInv, TypeOK
    <3>3. at[s] = "request" /\ at[t] = "request"
      BY <1>4, <3>1, <3>2, OthersStay DEF IInv, Granted
    <3>4. HasGuard(s) /\ HasGuard(t)
      BY <3>3 DEF IInv, Placed, HasGuard
    <3> QED BY <3>1, <3>2, <3>4, OneHolder
  <2>4. CASE s # t
    BY <1>1, <1>4, <2>2, <2>3, <2>4, OthersStay DEF SpentInRequest, IInv
  <2>5. CASE s = t
    <3>1. Ask(t) /\ ~ Fails(t)
      BY <1>4, <2>5, ReturnTyped
         DEF Step, StartRefresh, StartRecovery, LoadGuarded, ReloadSkipped, Reloaded, Acquire,
             Ask, Granted, Unreachable, Refused, Persist, Truncate, Write, SaveFails, Load,
             Install, Logout, Login, GoTo, GoOn, IInv, TypeOK, Fails
    <3>2. at[t] = "ask" /\ snap'[t] = cache[Proc[t]] /\ cache[Proc[t]] \in Auths
      BY <2>1, <2>5, <3>1 DEF Ask, IInv, TypeOK, Fails
    <3>3. Renewing(Proc[t])
      BY <1>1, <2>1, <2>2, <2>3, <2>5, <3>2 DEF SpentInCache
    <3>4. PICK u \in Tasks : /\ Proc[u] = Proc[t] /\ Call[u] \in {"refresh", "recover"}
                             /\ at[u] \in {"persist", "truncate", "write", "reload", "install"}
      BY <3>3 DEF Renewing
    <3>5. HasGuard(u) /\ HasGuard(t)
      BY <3>2, <3>4 DEF IInv, Placed, HasGuard
    <3> QED BY <3>2, <3>4, <3>5, OneHolder
  <2> QED BY <2>4, <2>5
<1> QED BY <1>3, <1>4 DEF SpentInCache, SpentInRequest

(* A process presents a refresh token it has already had rotated only after *)
(* a mishap, for any processes and calls: the file is read again under the  *)
(* lock before it is saved and before the cache is believed.                *)
THEOREM RotatedTokensStayGone == Spec => []ReuseOnlyAfterMishap
<1> DEFINE J == Writers /\ NewTokens /\ NoReuse
<1>1. Init => J
  <2>1. SUFFICES ASSUME Init PROVE J
    OBVIOUS
  <2>2. Writers
    BY <2>1 DEF Init, Writers
  <2>3. \A n : Seen(n) => n = 1
    BY <2>1, DistinctAssumption DEF Init, Seen
  <2>4. NewTokens
    BY <2>1, <2>3 DEF Init, NewTokens, Unsaved
  <2>5. NoReuse
    BY <2>1 DEF Init, NoReuse, SpentInFile, SpentInSave, SpentInCache, SpentInRequest
  <2> QED BY <2>2, <2>4, <2>5
<1>2. IInv /\ J /\ [Next]_vars => J'
  <2> SUFFICES ASSUME IInv, J, [Next]_vars PROVE J'
    OBVIOUS
  <2>1. CASE UNCHANGED vars
    <3>1. UNCHANGED <<store, linked, cache, at, snap, read, reply, issued, spent, mishap>>
      BY <2>1 DEF vars, file, memory, authority
    <3>2. Writers' /\ NewTokens'
      BY <3>1 DEF Writers, NewTokens, Unsaved, Rotated, Seen
    <3>3. NoReuse'
      BY <3>1 DEF NoReuse, SpentInFile, SpentInSave, SpentInCache, SpentInRequest, Saving,
                  Renewing, Rotated
    <3> QED BY <3>2, <3>3
  <2>2. ASSUME NEW t \in Tasks, Step(t) PROVE J'
    BY <2>2, WritersStep, NewTokensStep, FileAndSaves, CacheAndRequests DEF NoReuse
  <2> QED BY <2>1, <2>2 DEF Next, Finished
<1>3. IInv /\ J => ReuseOnlyAfterMishap
  BY DEF NoReuse, SpentInRequest, ReuseOnlyAfterMishap
<1> QED BY <1>1, <1>2, <1>3, Invariance, PTL DEF Spec

=============================================================================
