--------------------------- MODULE RemoteEnrollment ---------------------------
(***************************************************************************)
(* Remote control: whether it is wanted, and which server it runs as.      *)
(*                                                                         *)
(* The handle's calls (enable, disable, pairing: mod.rs, desired_state.rs) *)
(* and the websocket loop (websocket.rs) share the desired state and one   *)
(* selected enrollment.  Three locks are taken in this order: the rpc lock *)
(* by calls that change the desired state, the enrollment lease by whoever *)
(* selects, creates, refreshes or replaces the server, the persistence     *)
(* lock by whoever writes a preference.  The account may change at any     *)
(* await.  The loop's attempt to connect is dropped, with its locks, when  *)
(* it sees that remote control was disabled.                               *)
(*                                                                         *)
(* The state database of this build (stubs.rs) keeps nothing: it never has *)
(* a row, so it appears only as awaits that may fail.  The published status*)
(* and the shutdown are left out.  The backend is external.                *)
(***************************************************************************)
EXTENDS Naturals

CONSTANTS Calls,      \* the calls of the handle that can be under way at once
          ws,         \* the websocket loop
          Accounts,
          None,       \* no account, no enrollment, nobody
          MaxServers, \* bound: servers the backend enrolls
          MaxLogins   \* bound: changes of the account

Setters == {"enable", "disable", "disable_ephemeral", "resolve"}
Pairings == {"start_pairing", "pairing_status"}

Actors == Calls \cup {ws}

(* RemoteControlEnrollment: token is FALSE when remote_control_token is None. *)
Enrollments == [acct : Accounts, server : 1..MaxServers, token : BOOLEAN]

ASSUME CallsAssumption == ws \notin Calls
ASSUME NoneAssumption ==
  /\ None \notin Actors \cup Accounts \cup Setters \cup Pairings
  /\ None \notin Enrollments
ASSUME BoundsAssumption == MaxServers \in Nat /\ MaxLogins \in Nat

Labels == {"idle", "rpc", "auth", "lock", "select", "resolve", "enroll", "check", "persist", "adopt",
           "transition", "use", "refresh", "request",
           "start", "waiting", "dial", "replace", "clear", "failed", "up"}

VARIABLES
  account,  \* the account of the cached credentials
  desired,  \* RemoteControlDesiredState
  current,  \* current_enrollment
  rpc,      \* desired_state_rpc_lock
  lease,    \* the enrollment's lock
  persist,  \* desired_state_persistence_lock
  call,     \* which call it is
  at,       \* where a call or the loop is
  acct,     \* the account it goes by
  mine,     \* the enrollment it has in hand
  again,    \* it is trying for the second time, after recovering the credentials
  asked,    \* pairing requests that came back; for the loop, whether it replaces after dialling
  renewed,  \* its server has just replaced a missing one: the token is not looked at again
  live,     \* servers the backend still has
  made,     \* servers it ever enrolled
  logins

locks == <<rpc, lease, persist>>
locals == <<call, acct, mine, again, asked, renewed>>
actors == <<at, locals>>
backend == <<live, made>>
vars == <<account, desired, current, locks, actors, backend, logins>>

(* start_remote_control, in its three start-up modes. *)
Init ==
  /\ account \in Accounts \cup {None}
  /\ desired \in {"unknown", "disabled", "runtime"}
  /\ current = None
  /\ rpc = None /\ lease = None /\ persist = None
  /\ at = [a \in Actors |-> IF a = ws THEN "start" ELSE "idle"]
  /\ call = [a \in Actors |-> None] /\ acct = [a \in Actors |-> None] /\ mine = [a \in Actors |-> None]
  /\ again = [a \in Actors |-> FALSE] /\ asked = [a \in Actors |-> 0]
  /\ renewed = [a \in Actors |-> FALSE]
  /\ live = {} /\ made = 0 /\ logins = 0

-----------------------------------------------------------------------------
IsEnabled == desired \in {"durable", "runtime"}

(* same_remote_control_enrollment: a refresh changes only the token. *)
Same(e, f) == e # None /\ f # None /\ e.acct = f.acct /\ e.server = f.server

GoTo(a, label) == at' = [at EXCEPT ![a] = label]

(* The actor goes on and keeps its locks and what it knows. *)
GoOn(a, label) == GoTo(a, label) /\ UNCHANGED <<locks, locals>>

(* Mutant of Leave: an attempt that is given up keeps the lease. *)
LeaveHolding(a, label) ==
  /\ GoTo(a, label)
  /\ rpc' = IF rpc = a THEN None ELSE rpc
  /\ persist' = IF persist = a THEN None ELSE persist
  /\ call' = [call EXCEPT ![a] = None] /\ acct' = [acct EXCEPT ![a] = None]
  /\ mine' = [mine EXCEPT ![a] = None]
  /\ again' = [again EXCEPT ![a] = FALSE] /\ asked' = [asked EXCEPT ![a] = 0]
  /\ renewed' = [renewed EXCEPT ![a] = FALSE]
  /\ UNCHANGED lease

(* Its guards are dropped, in whatever order, and its locals with them. *)
Leave(a, label) ==
  /\ GoTo(a, label)
  /\ rpc' = IF rpc = a THEN None ELSE rpc
  /\ lease' = IF lease = a THEN None ELSE lease
  /\ persist' = IF persist = a THEN None ELSE persist
  /\ call' = [call EXCEPT ![a] = None] /\ acct' = [acct EXCEPT ![a] = None]
  /\ mine' = [mine EXCEPT ![a] = None]
  /\ again' = [again EXCEPT ![a] = FALSE] /\ asked' = [asked EXCEPT ![a] = 0]
  /\ renewed' = [renewed EXCEPT ![a] = FALSE]

(* A call returns; an attempt to connect has failed. *)
End(a) == Leave(a, IF a = ws THEN "failed" ELSE "idle")

-----------------------------------------------------------------------------
(* The calls of the handle. *)

(* enable_ephemeral takes no lock; it does not weaken a durable enable. *)
EnableEphemeral ==
  /\ desired' = IF desired = "durable" THEN desired ELSE "runtime"
  /\ UNCHANGED <<account, current, locks, actors, backend, logins>>

(* A call is made: pairing is refused unless remote control is enabled. *)
Begin(t, c) ==
  /\ at[t] = "idle" /\ t # ws /\ (c \in Pairings => IsEnabled)
  /\ call' = [call EXCEPT ![t] = c]
  /\ GoTo(t, IF c \in Pairings THEN "auth" ELSE "rpc")
  /\ UNCHANGED <<account, desired, current, locks, acct, mine, again, asked, renewed,
                 backend, logins>>

(* The calls that set the desired state go one at a time. *)
TakeRpc(t) ==
  /\ at[t] = "rpc" /\ rpc = None
  /\ rpc' = t /\ GoTo(t, IF call[t] \in {"enable", "resolve"} THEN "auth" ELSE "persist")
  /\ UNCHANGED <<account, desired, current, lease, persist, locals, backend, logins>>

(* load_remote_control_auth; a preference that is known already is not resolved. *)
LoadAuth(t) ==
  /\ at[t] = "auth"
  /\ IF account = None \/ (call[t] = "resolve" /\ desired # "unknown") THEN End(t)
     ELSE /\ acct' = [acct EXCEPT ![t] = account]
          /\ GoTo(t, IF call[t] = "resolve" THEN "resolve" ELSE "lock")
          /\ UNCHANGED <<locks, call, mine, again, asked, renewed>>
  /\ UNCHANGED <<account, desired, current, backend, logins>>

(* No row means disabled, unless somebody has decided meanwhile. *)
ResolvePreference(t) ==
  /\ at[t] = "resolve" /\ t # ws
  /\ desired' = IF desired = "unknown" THEN "disabled" ELSE desired
  /\ End(t)
  /\ UNCHANGED <<account, current, backend, logins>>

(* RemoteControlEnrollmentState::lock *)
LockEnrollment(a) ==
  /\ at[a] = "lock" /\ lease = None
  /\ lease' = a /\ GoTo(a, "select")
  /\ UNCHANGED <<account, desired, current, rpc, persist, locals, backend, logins>>

(* load_or_enroll_server: the selected server is used by its own account only. *)
SelectServer(t) ==
  /\ at[t] = "select" /\ t # ws
  /\ IF current # None /\ current.acct = acct[t]
     THEN /\ mine' = [mine EXCEPT ![t] = current]
          /\ GoTo(t, IF call[t] = "enable" THEN "check" ELSE "use")
          /\ UNCHANGED <<locks, call, acct, again, asked, renewed>>
     ELSE IF call[t] = "pairing_status" THEN End(t) ELSE GoOn(t, "enroll")
  /\ UNCHANGED <<account, desired, current, backend, logins>>

(* enable: the account must not have changed during enrollment. *)
CheckAccount(t) ==
  /\ at[t] = "check"
  /\ IF account # acct[t] THEN End(t) ELSE GoOn(t, "persist")
  /\ UNCHANGED <<account, desired, current, backend, logins>>

TakePersistence(t) ==
  /\ at[t] = "persist" /\ persist = None
  /\ persist' = t /\ GoTo(t, "transition")
  /\ UNCHANGED <<account, desired, current, rpc, lease, locals, backend, logins>>

(* The preference is written; the server is selected and remote control enabled. *)
TransitionEnabled(t) ==
  /\ at[t] = "transition" /\ call[t] = "enable"
  /\ current' = mine[t] /\ desired' = "durable"
  /\ End(t)
  /\ UNCHANGED <<account, backend, logins>>

(* disable writes the preference of the account; disable_ephemeral needs none. *)
TransitionDisabled(t) ==
  /\ at[t] = "transition" /\ call[t] \in {"disable", "disable_ephemeral"}
  /\ call[t] = "disable" => account # None
  /\ desired' = "disabled"
  /\ End(t)
  /\ UNCHANGED <<account, current, backend, logins>>

(* Any await of a call may fail: the credentials, the database, the backend. *)
CallFails(t) ==
  /\ t # ws
  /\ \/ at[t] \in {"enroll", "adopt", "refresh", "request", "resolve"}
     \/ at[t] = "transition" /\ call[t] # "disable_ephemeral"
  /\ End(t)
  /\ UNCHANGED <<account, desired, current, backend, logins>>

-----------------------------------------------------------------------------
(* Creating and refreshing a server: the calls and the loop alike. *)

(* enroll_remote_control_server; the loop asks only while enabled. *)
EnrollServer(a) ==
  /\ at[a] = "enroll" /\ made < MaxServers /\ (a = ws => IsEnabled)
  /\ made' = made + 1 /\ live' = live \cup {made + 1}
  /\ mine' = [mine EXCEPT ![a] = [acct |-> acct[a], server |-> made + 1, token |-> TRUE]]
  /\ again' = [again EXCEPT ![a] = FALSE]
  /\ GoTo(a, IF call[a] = "enable" THEN "check" ELSE "adopt")
  /\ UNCHANGED <<account, desired, current, locks, call, acct, asked, renewed, logins>>

(* enroll_pairing_server and refresh_pairing_enrollment: refused once, a   *)
(* call recovers the credentials and tries again, as whoever is logged in; *)
(* a refresh only as the enrollment's account.                             *)
Recover(t) ==
  /\ at[t] \in {"enroll", "refresh"} /\ t # ws /\ ~again[t]
  /\ IF account = None \/ (at[t] = "refresh" /\ account # mine[t].acct) THEN End(t)
     ELSE /\ acct' = [acct EXCEPT ![t] = account] /\ again' = [again EXCEPT ![t] = TRUE]
          /\ UNCHANGED <<at, locks, call, mine, asked, renewed>>
  /\ UNCHANGED <<account, desired, current, backend, logins>>

(* Mutant of Adopt: whether it is enabled is not asked again. *)
AdoptAnyway(a) ==
  /\ at[a] = "adopt" /\ persist = None
  /\ current' = mine[a]
  /\ IF IF a = ws THEN asked[a] = 0 ELSE call[a] = "start_pairing" /\ asked[a] < 2
     THEN GoOn(a, IF asked[a] = 0 THEN "use" ELSE "request") ELSE End(a)
  /\ UNCHANGED <<account, desired, backend, logins>>

(* The new server is persisted and selected, unless remote control has been *)
(* disabled meanwhile.  pairing_status, a second pairing request and a loop *)
(* that has already dialled fail all the same.  The persistence lock, held  *)
(* for the whole step, keeps a disable from coming in between.              *)
Adopt(a) ==
  /\ at[a] = "adopt" /\ persist = None
  /\ IF ~IsEnabled THEN End(a) /\ UNCHANGED current
     ELSE /\ current' = mine[a]
          /\ IF IF a = ws THEN asked[a] = 0 ELSE call[a] = "start_pairing" /\ asked[a] < 2
             THEN GoOn(a, IF asked[a] = 0 THEN "use" ELSE "request") ELSE End(a)
  /\ UNCHANGED <<account, desired, backend, logins>>

(* should_refresh_server_token: there is none, or it is about to expire. *)
NeedsRefresh(a) ==
  /\ at[a] = "use" /\ ~renewed[a]
  /\ GoOn(a, "refresh")
  /\ UNCHANGED <<account, desired, current, backend, logins>>

(* The token will do.  The loop dials without the lease. *)
UseToken(a) ==
  /\ at[a] = "use" /\ mine[a].token
  /\ GoTo(a, IF a = ws THEN "dial" ELSE "request")
  /\ lease' = IF a = ws THEN None ELSE lease
  /\ UNCHANGED <<account, desired, current, rpc, persist, locals, backend, logins>>

(* refresh_remote_control_server *)
Refreshed(a) ==
  /\ at[a] = "refresh" /\ mine[a].server \in live
  /\ LET e == [mine[a] EXCEPT !.token = TRUE] IN
     mine' = [mine EXCEPT ![a] = e] /\ current' = e
  /\ again' = [again EXCEPT ![a] = FALSE]
  /\ GoTo(a, IF a = ws THEN "dial" ELSE "request")
  /\ lease' = IF a = ws THEN None ELSE lease
  /\ UNCHANGED <<account, desired, rpc, persist, call, acct, asked, renewed, backend, logins>>

(* The backend no longer has the server: another one is enrolled, unless   *)
(* this was the refresh after a refused pairing request.                   *)
RefreshMissing(a) ==
  /\ at[a] = "refresh" /\ mine[a].server \notin live
  /\ IF asked[a] = 1 THEN End(a)
     ELSE /\ GoTo(a, "enroll") /\ again' = [again EXCEPT ![a] = FALSE]
          /\ renewed' = [renewed EXCEPT ![a] = TRUE]
          /\ UNCHANGED <<locks, call, acct, mine, asked>>
  /\ UNCHANGED <<account, desired, current, backend, logins>>

(* The pairing request: answered, ... *)
Answered(t) ==
  /\ at[t] = "request" /\ mine[t].server \in live
  /\ End(t)
  /\ UNCHANGED <<account, desired, current, backend, logins>>

(* ... refused: the token is cleared and refreshed once ... *)
RequestDenied(t) ==
  /\ at[t] = "request"
  /\ LET e == [mine[t] EXCEPT !.token = FALSE] IN
     /\ current' = e
     /\ IF asked[t] = 0
        THEN /\ mine' = [mine EXCEPT ![t] = e] /\ asked' = [asked EXCEPT ![t] = 1]
             /\ GoTo(t, "refresh") /\ UNCHANGED <<locks, call, acct, again, renewed>>
        ELSE End(t)
  /\ UNCHANGED <<account, desired, backend, logins>>

(* ... or start_pairing learns that the server is gone. *)
RequestMissing(t) ==
  /\ at[t] = "request" /\ call[t] = "start_pairing" /\ mine[t].server \notin live
  /\ asked' = [asked EXCEPT ![t] = @ + 1]
  /\ GoTo(t, "enroll")
  /\ UNCHANGED <<account, desired, current, locks, call, acct, mine, again, renewed, backend, logins>>

-----------------------------------------------------------------------------
(* The websocket loop. *)

(* resolve_unknown_desired_state: once there is an account, no row means disabled. *)
Resolve ==
  /\ at[ws] = "start"
  /\ IF desired = "unknown" THEN account # None /\ desired' = "disabled" ELSE UNCHANGED desired
  /\ GoOn(ws, "waiting")
  /\ UNCHANGED <<account, current, backend, logins>>

(* wait_until_enabled, then connect. *)
Wake ==
  /\ at[ws] = "waiting" /\ IsEnabled
  /\ GoOn(ws, "lock")
  /\ UNCHANGED <<account, desired, current, backend, logins>>

(* prepare_remote_control_enrollment: without credentials there is no server. *)
PrepareLoggedOut ==
  /\ at[ws] = "select" /\ account = None
  /\ current' = None /\ End(ws)
  /\ UNCHANGED <<account, desired, backend, logins>>

(* The account's own server, or none yet. *)
Prepare ==
  /\ at[ws] = "select" /\ account # None /\ (current # None => current.acct = account)
  /\ acct' = [acct EXCEPT ![ws] = account] /\ mine' = [mine EXCEPT ![ws] = current]
  /\ GoTo(ws, IF current = None THEN "enroll" ELSE "use")
  /\ UNCHANGED <<account, desired, current, locks, call, again, asked, renewed, backend, logins>>

(* Another account's: a durable enable was not this account's. *)
PrepareChanged ==
  /\ at[ws] = "select" /\ account # None /\ current # None /\ current.acct # account
  /\ acct' = [acct EXCEPT ![ws] = account]
  /\ GoTo(ws, IF desired = "durable" THEN "resolve" ELSE "enroll")
  /\ current' = IF desired = "durable" THEN current ELSE None
  /\ UNCHANGED <<account, desired, locks, call, mine, again, asked, renewed, backend, logins>>

(* resolve_desired_state_after_account_change, all of it with the persistence *)
(* lock held.                                                                 *)
ResolveChanged ==
  /\ at[ws] = "resolve" /\ persist = None
  /\ \/ /\ desired # "durable"
        /\ current' = None /\ GoOn(ws, "enroll") /\ UNCHANGED desired
     \/ /\ desired = "durable" /\ account # acct[ws]
        /\ End(ws) /\ UNCHANGED <<current, desired>>
     \/ /\ desired = "durable" /\ account = acct[ws]
        /\ desired' = "disabled" /\ current' = None /\ End(ws)
  /\ UNCHANGED <<account, backend, logins>>

(* connect_async: connected, ... *)
Dialled ==
  /\ at[ws] = "dial" /\ mine[ws].server \in live
  /\ Leave(ws, IF IsEnabled THEN "up" ELSE "waiting")
  /\ UNCHANGED <<account, desired, current, backend, logins>>

(* ... told that the server is gone, or that its token is no good. *)
DialRefused ==
  /\ at[ws] = "dial"
  /\ \/ mine[ws].server \notin live /\ GoOn(ws, "replace")
     \/ GoOn(ws, "clear")
  /\ UNCHANGED <<account, desired, current, backend, logins>>

(* Mutant of Replace: the server may have been replaced by somebody else. *)
ReplaceAny ==
  /\ at[ws] = "replace" /\ lease = None
  /\ IF current # None
     THEN /\ lease' = ws /\ asked' = [asked EXCEPT ![ws] = 1] /\ GoTo(ws, "enroll")
          /\ UNCHANGED <<rpc, persist, call, acct, mine, again, renewed>>
     ELSE End(ws)
  /\ UNCHANGED <<account, desired, current, backend, logins>>

(* replace_remote_control_enrollment_if_matches *)
Replace ==
  /\ at[ws] = "replace" /\ lease = None
  /\ IF Same(current, mine[ws])
     THEN /\ lease' = ws /\ asked' = [asked EXCEPT ![ws] = 1] /\ GoTo(ws, "enroll")
          /\ UNCHANGED <<rpc, persist, call, acct, mine, again, renewed>>
     ELSE End(ws)
  /\ UNCHANGED <<account, desired, current, backend, logins>>

(* clear_remote_control_server_token_if_matches *)
ClearToken ==
  /\ at[ws] = "clear" /\ lease = None
  /\ current' = IF Same(current, mine[ws]) THEN [current EXCEPT !.token = FALSE] ELSE current
  /\ End(ws)
  /\ UNCHANGED <<account, desired, backend, logins>>

(* An await of the loop fails, or is refused: the credentials have no account *)
(* id yet, the database or the backend reports an error.  The selected server *)
(* stays; the loop recovers the credentials before it tries again.            *)
AttemptFails ==
  /\ at[ws] \in {"select", "enroll", "adopt", "refresh", "dial", "resolve"}
  /\ End(ws)
  /\ UNCHANGED <<account, desired, current, backend, logins>>

(* Nothing is enrolled for a loop that is no longer wanted. *)
EnrollDisabled ==
  /\ at[ws] = "enroll" /\ ~IsEnabled
  /\ End(ws)
  /\ UNCHANGED <<account, desired, current, backend, logins>>

(* After a failure the loop tries again, or gives up when disabled. *)
Retry ==
  /\ at[ws] = "failed"
  /\ GoOn(ws, IF IsEnabled THEN "lock" ELSE "waiting")
  /\ UNCHANGED <<account, desired, current, backend, logins>>

(* The websocket is lost. *)
LinkLost ==
  /\ at[ws] = "up"
  /\ GoOn(ws, "waiting")
  /\ UNCHANGED <<account, desired, current, backend, logins>>

(* Mutant of SeenDisabled: an established websocket is not given up. *)
SeenWhileConnecting ==
  /\ at[ws] \notin {"start", "waiting", "up"} /\ ~IsEnabled
  /\ Leave(ws, "waiting")
  /\ UNCHANGED <<account, desired, current, backend, logins>>

(* The loop sees at an await that remote control is disabled: the attempt   *)
(* to connect is dropped where it is, or the websocket is given up.         *)
SeenDisabled ==
  /\ at[ws] \notin {"start", "waiting"} /\ ~IsEnabled
  /\ Leave(ws, "waiting")
  /\ UNCHANGED <<account, desired, current, backend, logins>>

-----------------------------------------------------------------------------
(* The credentials change: logins, logouts and reloads of other processes'. *)
ChangeAccount ==
  /\ logins < MaxLogins /\ logins' = logins + 1
  /\ account' \in (Accounts \cup {None}) \ {account}
  /\ UNCHANGED <<desired, current, locks, actors, backend>>

(* The backend forgets a server. *)
Forget ==
  /\ \E s \in live : live' = live \ {s}
  /\ UNCHANGED <<account, desired, current, locks, actors, made, logins>>

CallStep(t) ==
  \/ TakeRpc(t) \/ LoadAuth(t) \/ ResolvePreference(t)
  \/ SelectServer(t) \/ CheckAccount(t) \/ TakePersistence(t) \/ TransitionEnabled(t)
  \/ TransitionDisabled(t) \/ CallFails(t) \/ Recover(t)
  \/ Answered(t) \/ RequestDenied(t) \/ RequestMissing(t)

Shared(a) ==
  \/ LockEnrollment(a) \/ EnrollServer(a) \/ Adopt(a)
  \/ NeedsRefresh(a) \/ UseToken(a) \/ Refreshed(a) \/ RefreshMissing(a)

Loop ==
  \/ Resolve \/ Wake \/ PrepareLoggedOut \/ Prepare \/ PrepareChanged \/ ResolveChanged
  \/ Dialled \/ DialRefused \/ Replace \/ ClearToken \/ AttemptFails \/ EnrollDisabled
  \/ Retry \/ SeenDisabled

Next ==
  \/ EnableEphemeral \/ \E t \in Calls, c \in Setters \cup Pairings : Begin(t, c)
  \/ \E t \in Calls : CallStep(t)
  \/ \E a \in Actors : Shared(a)
  \/ Loop \/ LinkLost \/ ChangeAccount \/ Forget

Spec == Init /\ [][Next]_vars

(* The loop's task runs and its requests have timeouts; nothing makes it lose *)
(* a websocket or the calls go on.                                            *)
FairSpec == Spec /\ WF_vars(Loop \/ Shared(ws))

-----------------------------------------------------------------------------
TypeOK ==
  /\ account \in Accounts \cup {None}
  /\ desired \in {"unknown", "disabled", "durable", "runtime"}
  /\ current \in Enrollments \cup {None}
  /\ rpc \in Calls \cup {None} /\ lease \in Actors \cup {None} /\ persist \in Calls \cup {None}
  /\ call \in [Actors -> Setters \cup Pairings \cup {None}]
  /\ at \in [Actors -> Labels] /\ acct \in [Actors -> Accounts \cup {None}]
  /\ mine \in [Actors -> Enrollments \cup {None}]
  /\ again \in [Actors -> BOOLEAN] /\ asked \in [Actors -> 0..2]
  /\ renewed \in [Actors -> BOOLEAN]
  /\ made \in 0..MaxServers /\ live \subseteq 1..made
  /\ logins \in 0..MaxLogins

(* Nobody waits for everybody: whoever waits for a lock holds none that    *)
(* comes after it, whoever is not at work holds none at all, and the loop  *)
(* dials without any, whatever failed and wherever an attempt was dropped. *)
LocksInOrder ==
  \A a \in Actors :
    /\ at[a] \in {"idle", "rpc", "start", "waiting", "failed", "up", "dial", "replace", "clear"}
       => a \notin {rpc, lease, persist}
    /\ at[a] = "lock" => a \notin {lease, persist}
    /\ at[a] \in {"persist", "adopt"} \/ (a = ws /\ at[a] = "resolve") => a # persist

(* Pairing and the websocket share one selected server: none is enrolled    *)
(* for an account whose selected server the backend still has, whoever asks *)
(* and whoever replaced it meanwhile.  A call that has become another       *)
(* account's while it recovered its credentials is excepted.                *)
NoNeedlessEnrollment ==
  [][\A a \in Actors :
       made' # made /\ mine'[a] # mine[a] /\ ~again[a] /\ current # None
       => current.acct # acct[a] \/ current.server \notin live]_vars

(* A server that is enrolled while a disable comes in is not selected: a   *)
(* new server is selected only while remote control is enabled             *)
(* (desired_state_persistence_lock).                                       *)
AdoptedOnlyWhenEnabled ==
  [][current' # None /\ ~Same(current, current') => IsEnabled']_vars

(* Once remote control is disabled for good, the loop gives up whatever it *)
(* was doing and stays away from the backend (run_connection, connect).    *)
DisabledIsObeyed == <>[](desired = "disabled") => <>[](at[ws] = "waiting")

=============================================================================
