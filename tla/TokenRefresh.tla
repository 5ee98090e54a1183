---------------------------- MODULE TokenRefresh ----------------------------
(***************************************************************************)
(* Managed ChatGPT credentials: AuthManager, UnauthorizedRecovery and the  *)
(* auth.json that several processes share (login/src/auth/manager.rs).     *)
(*                                                                         *)
(* Each process caches what it read from auth.json.  refresh_token takes   *)
(* the process's refresh lock, reloads the file when the account is still  *)
(* the same, and asks the authority for new tokens only when nothing had   *)
(* changed; new tokens are merged into the file and the cache is reloaded. *)
(* UnauthorizedRecovery does the same in two steps, the reload without the *)
(* lock; logout deletes the file and reloads.  A refresh token is good for *)
(* one rotation.  Reading the file and installing what was read are two    *)
(* steps, and so are the two halves of a save, which truncates the file    *)
(* before it writes.  The authority is external.                           *)
(***************************************************************************)
EXTENDS Naturals, FiniteSets

CONSTANTS Procs,      \* processes with the same AGENTX_HOME
          Tasks,      \* calls they make, each once
          Proc,       \* the process of a call
          Call,       \* "refresh", "recover", "logout" or "login"
          Accounts,
          None,       \* no credentials; no file
          Torn,       \* a file that was truncated and not yet written
          MaxIssued   \* bound: tokens the authority issues

ASSUME CallsAssumption ==
  /\ Proc \in [Tasks -> Procs]
  /\ Call \in [Tasks -> {"refresh", "recover", "logout", "login"}]
ASSUME NamesAssumption == None # Torn /\ None \notin Tasks /\ MaxIssued \in Nat \ {0}

Tokens == 1..MaxIssued
(* AuthDotJson: account_id, and the account that its tokens were issued for. *)
Auths == [acct : Accounts, owner : Accounts, access : Tokens, refresh : Tokens]

ASSUME DistinctAssumption == {None, Torn} \cap (Auths \cup Tokens) = {}

Replies == [owner : Accounts, access : Tokens, refresh : Tokens \cup {None}]
Labels == {"idle", "load", "compare", "acquire", "ask", "request",
           "persist", "truncate", "write", "reload", "install", "done"}

VARIABLES
  store,   \* auth.json
  linked,  \* calls whose open file is still auth.json
  cache,   \* CachedAuth.auth
  failed,  \* permanent_refresh_failure: the credentials it is about
  lock,    \* refresh_lock
  at,      \* where a call is
  snap,    \* the credentials it started from
  read,    \* what it read from the file
  reply,   \* what the authority answered
  issued,  \* tokens issued so far
  valid,   \* refresh tokens the authority will accept, by account
  \* History.
  spent,   \* refresh tokens a process has had rotated
  mishap   \* something that excuses presenting one of them again

file == <<store, linked>>
memory == <<cache, failed, lock>>
authority == <<issued, valid>>
vars == <<file, memory, at, snap, read, reply, authority, spent, mishap>>

(* A first login, which every process has loaded. *)
Init ==
  /\ \E a \in Accounts :
       /\ store = [acct |-> a, owner |-> a, access |-> 1, refresh |-> 1]
       /\ valid = [x \in Accounts |-> IF x = a THEN {1} ELSE {}]
  /\ issued = 1 /\ linked = {}
  /\ cache = [p \in Procs |-> store] /\ failed = [p \in Procs |-> None]
  /\ lock = [p \in Procs |-> None]
  /\ at = [t \in Tasks |-> "idle"] /\ snap = [t \in Tasks |-> None]
  /\ read = [t \in Tasks |-> None] /\ reply = [t \in Tasks |-> None]
  /\ spent = [p \in Procs |-> {}] /\ mishap = FALSE

-----------------------------------------------------------------------------
GoTo(t, label) == at' = [at EXCEPT ![t] = label]

(* Mutant of Leave: the guard outlives the call. *)
LeaveHolding(t, label) ==
  /\ GoTo(t, label) /\ UNCHANGED lock
  /\ snap' = [snap EXCEPT ![t] = None] /\ read' = [read EXCEPT ![t] = None]
  /\ reply' = [reply EXCEPT ![t] = None]

(* A call ends: its locals go, and a refresh guard it holds is dropped. *)
Leave(t, label) ==
  /\ GoTo(t, label)
  /\ lock' = [lock EXCEPT ![Proc[t]] = IF @ = t THEN None ELSE @]
  /\ snap' = [snap EXCEPT ![t] = None] /\ read' = [read EXCEPT ![t] = None]
  /\ reply' = [reply EXCEPT ![t] = None]

Return(t) == Leave(t, "done")

(* A recovery whose second step failed stays at that step, and whoever keeps *)
(* it (the websocket loop does) may call next again.                         *)
Fails(t) == Return(t) \/ (Call[t] = "recover" /\ Leave(t, "acquire"))

(* The call goes on with what it knows. *)
GoOn(t, label) == GoTo(t, label) /\ UNCHANGED <<lock, snap, read, reply>>

(* The file part of load_auth; a file that cannot be parsed counts as none. *)
Loaded == IF store = Torn THEN None ELSE store

(* set_cached_auth: other credentials clear the recorded failure. *)
SetCached(p, auth) ==
  /\ cache' = [cache EXCEPT ![p] = auth]
  /\ failed' = IF cache[p] # auth THEN [failed EXCEPT ![p] = None] ELSE failed

(* refresh_token: the guard, then the account to expect. *)
StartRefresh(t) ==
  /\ at[t] = "idle" /\ Call[t] = "refresh" /\ lock[Proc[t]] = None
  /\ IF cache[Proc[t]] = None THEN Return(t)
     ELSE /\ GoTo(t, "load") /\ lock' = [lock EXCEPT ![Proc[t]] = t]
          /\ snap' = [snap EXCEPT ![t] = cache[Proc[t]]]
          /\ UNCHANGED <<read, reply>>
  /\ UNCHANGED <<file, cache, failed, authority, spent, mishap>>

(* UnauthorizedRecovery::new and the first next. *)
StartRecovery(t) ==
  /\ at[t] = "idle" /\ Call[t] = "recover" /\ cache[Proc[t]] # None
  /\ snap' = [snap EXCEPT ![t] = cache[Proc[t]]]
  /\ GoTo(t, "load")
  /\ UNCHANGED <<file, memory, read, reply, authority, spent, mishap>>

(* reload_if_account_id_matches: the file is read ... *)
LoadGuarded(t) ==
  /\ at[t] = "load"
  /\ read' = [read EXCEPT ![t] = Loaded] /\ GoTo(t, "compare")
  /\ UNCHANGED <<file, memory, snap, reply, authority, spent, mishap>>

(* ... and skipped when it is another account's ... *)
ReloadSkipped(t) ==
  /\ at[t] = "compare" /\ (read[t] # None => read[t].acct # snap[t].acct)
  /\ Return(t)
  /\ UNCHANGED <<file, cache, failed, authority, spent, mishap>>

(* ... or installed.  refresh_token is content when it was different. *)
Reloaded(t) ==
  /\ at[t] = "compare" /\ read[t] # None /\ read[t].acct = snap[t].acct
  /\ SetCached(Proc[t], read[t])
  /\ mishap' = (mishap \/ read[t] # store)
  /\ CASE Call[t] = "recover" -> GoOn(t, "acquire")
       [] Call[t] = "refresh" /\ cache[Proc[t]] # read[t] -> Return(t)
       [] OTHER -> GoOn(t, "ask")
  /\ UNCHANGED <<file, authority, spent>>

(* Mutant of Acquire: a refresh that does not wait for its turn. *)
AcquireAlways(t) ==
  /\ at[t] = "acquire"
  /\ IF cache[Proc[t]] = None THEN Fails(t)
     ELSE GoTo(t, "ask") /\ UNCHANGED <<lock, snap, read, reply>>
  /\ UNCHANGED <<file, cache, failed, authority, spent, mishap>>

(* The second next: refresh_token_from_authority, unless there is no auth any more. *)
Acquire(t) ==
  /\ at[t] = "acquire"
  /\ IF cache[Proc[t]] = None THEN Fails(t)
     ELSE /\ lock[Proc[t]] = None
          /\ GoTo(t, "ask") /\ lock' = [lock EXCEPT ![Proc[t]] = t]
          /\ UNCHANGED <<snap, read, reply>>
  /\ UNCHANGED <<file, cache, failed, authority, spent, mishap>>

(* refresh_token_from_authority_impl: nothing to do without credentials, and *)
(* credentials that failed for good fail again without a request.            *)
Ask(t) ==
  /\ at[t] = "ask"
  /\ LET auth == cache[Proc[t]] IN
     IF auth = None THEN Return(t)
     ELSE IF auth = failed[Proc[t]] THEN Fails(t)
     ELSE /\ GoTo(t, "request") /\ snap' = [snap EXCEPT ![t] = auth]
          /\ UNCHANGED <<lock, read, reply>>
  /\ UNCHANGED <<file, cache, failed, authority, spent, mishap>>

(* The authority issues new tokens, with a new refresh token or without. *)
Granted(t) ==
  /\ at[t] = "request" /\ issued < MaxIssued
  /\ LET auth == snap[t]
         n == issued + 1 IN
     /\ auth.refresh \in valid[auth.owner]
     /\ issued' = n
     /\ \E rotated \in BOOLEAN :
       /\ IF rotated
          THEN /\ valid' = [valid EXCEPT ![auth.owner] = (@ \ {auth.refresh}) \cup {n}]
               /\ spent' = [spent EXCEPT ![Proc[t]] = @ \cup {auth.refresh}]
          ELSE UNCHANGED <<valid, spent>>
       /\ \/ /\ GoTo(t, "persist")
             /\ reply' = [reply EXCEPT ![t] =
                  [owner |-> auth.owner, access |-> n, refresh |-> IF rotated THEN n ELSE None]]
             /\ UNCHANGED <<lock, snap, read, mishap>>
          \/ Fails(t) /\ mishap' = TRUE    \* the answer is lost: Transient
  /\ UNCHANGED <<file, cache, failed>>

(* The request fails without reaching the authority: Transient. *)
Unreachable(t) ==
  /\ at[t] = "request"
  /\ Fails(t)
  /\ UNCHANGED <<file, cache, failed, authority, spent, mishap>>

(* Mutant of Refused: recorded whatever is cached by now. *)
RefusedAnyway(t) ==
  /\ at[t] = "request"
  /\ failed' = [failed EXCEPT ![Proc[t]] = snap[t]]
  /\ Fails(t)
  /\ UNCHANGED <<file, cache, authority, spent, mishap>>

(* The authority may refuse any token, rotated, expired or revoked; then     *)
(* record_permanent_refresh_failure_if_unchanged.                            *)
Refused(t) ==
  /\ at[t] = "request"
  /\ failed' = IF cache[Proc[t]] = snap[t] THEN [failed EXCEPT ![Proc[t]] = snap[t]] ELSE failed
  /\ Fails(t)
  /\ UNCHANGED <<file, cache, authority, spent, mishap>>

(* persist_tokens: the file is read again, whoever's it is now ... *)
Persist(t) ==
  /\ at[t] = "persist"
  /\ IF Loaded = None THEN Fails(t) /\ mishap' = TRUE
     ELSE /\ GoTo(t, "truncate") /\ read' = [read EXCEPT ![t] = Loaded]
          /\ UNCHANGED <<lock, snap, reply, mishap>>
  /\ UNCHANGED <<file, cache, failed, authority, spent>>

(* ... and saved with the new tokens in it. *)
Truncate(t) ==
  /\ at[t] = "truncate"
  /\ store' = Torn /\ linked' = linked \cup {t} /\ GoTo(t, "write")
  /\ mishap' = (mishap \/ store # read[t] \/ linked # {})
  /\ UNCHANGED <<memory, snap, read, reply, authority, spent>>

(* A file that was deleted meanwhile gets the bytes; two that were open at *)
(* once leave the later save, or a mixture.                                *)
Saved(t, auth) ==
  /\ store' \in IF t \notin linked THEN {store} ELSE IF store = Torn THEN {auth} ELSE {auth, Torn}
  /\ linked' = linked \ {t}
  /\ mishap' = (mishap \/ t \notin linked \/ store # Torn)

(* Mutant of Write: the refresh token of an answer that has none. *)
WriteAnswer(t) ==
  /\ at[t] = "write"
  /\ Saved(t, [acct |-> read[t].acct, owner |-> reply[t].owner,
               access |-> reply[t].access, refresh |-> reply[t].refresh])
  /\ IF Call[t] = "login" THEN Return(t) ELSE GoOn(t, "reload")
  /\ UNCHANGED <<cache, failed, authority, spent>>

Write(t) ==
  /\ at[t] = "write"
  /\ Saved(t, [acct |-> read[t].acct, owner |-> reply[t].owner, access |-> reply[t].access,
               refresh |-> IF reply[t].refresh = None THEN read[t].refresh ELSE reply[t].refresh])
  /\ IF Call[t] = "login" THEN Return(t) ELSE GoOn(t, "reload")
  /\ UNCHANGED <<cache, failed, authority, spent>>

(* The file cannot be opened or written, or the process dies in between:   *)
(* what was truncated stays so, and bytes that got out may spoil another's *)
(* save.                                                                   *)
SaveFails(t) ==
  /\ at[t] \in {"truncate", "write"}
  /\ store' \in IF t \in linked THEN {store, Torn} ELSE {store}
  /\ linked' = linked \ {t} /\ mishap' = TRUE
  /\ Fails(t)
  /\ UNCHANGED <<cache, failed, authority, spent>>

(* reload: whatever the file holds. *)
Load(t) ==
  /\ at[t] = "reload"
  /\ read' = [read EXCEPT ![t] = Loaded] /\ GoTo(t, "install")
  /\ UNCHANGED <<file, memory, snap, reply, authority, spent, mishap>>

Install(t) ==
  /\ at[t] = "install"
  /\ SetCached(Proc[t], read[t])
  /\ mishap' = (mishap \/ read[t] # store)
  /\ Return(t)
  /\ UNCHANGED <<file, authority, spent>>

(* logout_all_stores; the reload follows. *)
Logout(t) ==
  /\ at[t] = "idle" /\ Call[t] = "logout"
  /\ store' = None /\ linked' = {} /\ GoTo(t, "reload")
  /\ UNCHANGED <<memory, snap, read, reply, authority, spent, mishap>>

(* save_auth after a login, in a process of its own. *)
Login(t) ==
  /\ at[t] = "idle" /\ Call[t] = "login" /\ issued < MaxIssued
  /\ LET n == issued + 1 IN
     \E a \in Accounts :
       /\ issued' = n /\ valid' = [valid EXCEPT ![a] = @ \cup {n}]
       /\ read' = [read EXCEPT ![t] = [acct |-> a, owner |-> a, access |-> n, refresh |-> n]]
       /\ reply' = [reply EXCEPT ![t] = [owner |-> a, access |-> n, refresh |-> n]]
  /\ store' = Torn /\ linked' = linked \cup {t} /\ GoTo(t, "write")
  /\ UNCHANGED <<memory, snap, spent, mishap>>

Step(t) ==
  \/ StartRefresh(t) \/ StartRecovery(t) \/ LoadGuarded(t) \/ ReloadSkipped(t) \/ Reloaded(t)
  \/ Acquire(t) \/ Ask(t) \/ Granted(t) \/ Unreachable(t) \/ Refused(t)
  \/ Persist(t) \/ Truncate(t) \/ Write(t) \/ SaveFails(t) \/ Load(t) \/ Install(t)
  \/ Logout(t) \/ Login(t)

(* Every call that could start has returned. *)
Finished == (\A t \in Tasks : at[t] \in {"idle", "done"}) /\ UNCHANGED vars

Next == (\E t \in Tasks : Step(t)) \/ Finished

Spec == Init /\ [][Next]_vars

-----------------------------------------------------------------------------
TypeOK ==
  /\ store \in Auths \cup {None, Torn} /\ linked \subseteq Tasks
  /\ cache \in [Procs -> Auths \cup {None}] /\ failed \in [Procs -> Auths \cup {None}]
  /\ lock \in [Procs -> Tasks \cup {None}] /\ at \in [Tasks -> Labels]
  /\ reply \in [Tasks -> Replies \cup {None}]
  /\ snap \in [Tasks -> Auths \cup {None}] /\ read \in [Tasks -> Auths \cup {None}]
  /\ issued \in Tokens /\ valid \in [Accounts -> SUBSET Tokens]
  /\ spent \in [Procs -> SUBSET Tokens] /\ mishap \in BOOLEAN

(* From its guard to its return a refresh has the lock to itself, and only *)
(* a call that is still running has it: the two requests of one process    *)
(* never overlap and a call that waits gets its turn (refresh_lock).       *)
HasGuard(t) ==
  \/ Call[t] = "refresh" /\ at[t] \notin {"idle", "done"}
  \/ Call[t] = "recover" /\ at[t] \notin {"idle", "load", "compare", "acquire", "done"}
OneRefreshAtATime == \A t \in Tasks : HasGuard(t) <=> lock[Proc[t]] = t

(* A recorded failure is about the credentials in the cache, so it never   *)
(* stops a refresh of other ones, whatever reloads, logouts and logins     *)
(* came while the request was out (CachedAuth.permanent_refresh_failure).  *)
FailureIsAboutTheCache == \A p \in Procs : failed[p] # None => failed[p] = cache[p]

(* A process presents a refresh token that it has already had rotated only *)
(* after a mishap: an answer or its tokens lost, a save failed, one of     *)
(* another process undone or begun while another was open, or credentials  *)
(* installed that the file no longer held.                                 *)
ReuseOnlyAfterMishap ==
  \A t \in Tasks : at[t] = "request" /\ snap[t].refresh \in spent[Proc[t]] => mishap

(* Auth is reloaded only when the account id matches the cached one: a     *)
(* refresh or a recovery never changes the account a process runs as.      *)
RefreshKeepsAccount ==
  [][\A p \in Procs : \A t \in Tasks :
       /\ Proc[t] = p /\ Call[t] \in {"refresh", "recover"} /\ at'[t] # at[t]
       /\ cache[p] # None /\ cache'[p] # None
       => cache'[p].acct = cache[p].acct]_vars

=============================================================================
