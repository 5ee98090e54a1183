------------------------ MODULE RemoteEnrollmentProofs ------------------------
(***************************************************************************)
(* What RemoteEnrollment promises, for every set of calls and accounts.    *)
(* The argument is mutual exclusion: Leased says where an actor holds the  *)
(* enrollment lease, so that what it has in hand stays the selected server *)
(* (InHand) and its reason to enroll another one stays good (Needed).      *)
(***************************************************************************)
EXTENDS RemoteEnrollment, TLAPS

(* Where a call, and the loop, can be, and which calls get there. *)
Places ==
  /\ call[ws] = None
  /\ at[ws] \notin {"idle", "rpc", "auth", "check", "persist", "transition", "request"}
  /\ \A t \in Calls :
       /\ at[t] \notin {"start", "waiting", "dial", "replace", "clear", "failed", "up"}
       /\ at[t] \in {"rpc", "persist", "transition", "resolve", "check"} => call[t] \in Setters
       /\ at[t] \in {"check", "persist", "transition"} => call[t] # "resolve"
       /\ at[t] = "resolve" => call[t] = "resolve"
       /\ at[t] = "check" => call[t] = "enable"
       /\ at[t] = "auth" => call[t] \in Pairings \cup {"enable", "resolve"}
       /\ at[t] \in {"lock", "select", "enroll"} => call[t] \in Pairings \cup {"enable"}
       /\ at[t] \in {"adopt", "use", "refresh", "request"} => call[t] \in Pairings

(* Where the enrollment lease is held. *)
Leased(a) ==
  \/ at[a] \in {"select", "enroll", "check", "adopt", "use", "refresh", "request"}
  \/ a = ws /\ at[a] = "resolve"
  \/ at[a] \in {"persist", "transition"} /\ call[a] = "enable"

(* Who holds which lock. *)
Held ==
  /\ rpc # ws /\ \A t \in Calls : rpc = t => at[t] \notin {"idle", "rpc"}
  /\ \A a \in Actors : lease = a <=> Leased(a)
  /\ persist # ws /\ \A t \in Calls : persist = t => at[t] = "transition"

(* A server in hand is known, and where it is used it is the selected one. *)
InHandOf(a) ==
  /\ at[a] \in {"check", "adopt", "use", "refresh", "request", "dial", "replace", "clear"}
     => mine[a] # None
  /\ mine[a] # None => mine[a].server <= made
  /\ at[a] \in {"use", "refresh", "request"} =>
       Same(current, mine[a]) /\ asked[a] < 2 /\ (a = ws => asked[a] = 0)
  /\ at[a] \in {"enroll", "adopt", "use", "refresh", "request", "dial", "replace"}
       \/ (a = ws /\ at[a] = "resolve") \/ (a # ws /\ at[a] \in {"lock", "select"})
     => acct[a] \in Accounts
  /\ at[a] \in {"idle", "rpc", "auth", "lock", "select", "start", "waiting", "failed", "up"}
     => asked[a] = 0

InHand == (current # None => current.server <= made) /\ \A a \in Actors : InHandOf(a)

(* Whoever enrolls a server has found none that would do. *)
Needed ==
  /\ \A a \in Actors :
       at[a] = "enroll" /\ ~again[a] /\ current # None
       => current.acct # acct[a] \/ current.server \notin live
  /\ at[ws] = "replace" => mine[ws].server \notin live

IInv == TypeOK /\ Places /\ Held /\ InHand /\ Needed

(* What an actor keeps to itself, and the locks. *)
LocalsOK ==
  /\ rpc \in Calls \cup {None} /\ lease \in Actors \cup {None} /\ persist \in Calls \cup {None}
  /\ call \in [Actors -> Setters \cup Pairings \cup {None}]
  /\ at \in [Actors -> Labels] /\ acct \in [Actors -> Accounts \cup {None}]
  /\ mine \in [Actors -> Enrollments \cup {None}]
  /\ again \in [Actors -> BOOLEAN] /\ asked \in [Actors -> 0..2]
  /\ renewed \in [Actors -> BOOLEAN]

(* Giving up keeps the types. *)
LEMMA EndType == ASSUME LocalsOK, NEW a \in Actors, End(a) PROVE LocalsOK'
BY DEF LocalsOK, End, Leave, GoTo, Labels

(* So does going on. *)
LEMMA GoOnType == ASSUME LocalsOK, NEW a \in Actors, NEW l \in Labels, GoOn(a, l) PROVE LocalsOK'
BY DEF LocalsOK, GoOn, GoTo, locks, locals

(* A token comes or goes with a refresh; it is the same server. *)
LEMMA TokenOnly ==
  ASSUME NEW e \in Enrollments, NEW b \in BOOLEAN
  PROVE  LET f == [e EXCEPT !.token = b] IN
         f \in Enrollments /\ f.acct = e.acct /\ f.server = e.server /\ f.token = b
BY DEF Enrollments

-----------------------------------------------------------------------------
(* Every action leaves its actor where the next one expects it. *)
LEMMA PlacesStep == IInv /\ Next => Places'
<1> SUFFICES ASSUME IInv, Next PROVE Places'
  OBVIOUS
<1> USE CallsAssumption, NoneAssumption, BoundsAssumption DEF IInv, TypeOK, Places, Actors,
   Setters, Pairings, Labels
<1>1. ASSUME NEW t \in Calls, NEW c \in Setters \cup Pairings, Begin(t, c) PROVE Places'
  BY <1>1 DEF Begin, GoTo, locks, backend, IsEnabled
<1>2. ASSUME NEW t \in Calls, TakeRpc(t) PROVE Places'
  BY <1>2 DEF TakeRpc, GoTo, locals, backend
<1>3. ASSUME NEW t \in Calls, LoadAuth(t) PROVE Places'
  BY <1>3 DEF LoadAuth, GoTo, End, locks, backend, Leave
<1>4. ASSUME NEW t \in Calls, ResolvePreference(t) PROVE Places'
  BY <1>4 DEF ResolvePreference, End, backend, Leave, GoTo
<1>5. ASSUME NEW t \in Calls, SelectServer(t) PROVE Places'
  BY <1>5 DEF SelectServer, GoOn, GoTo, End, locks, backend, locals, Leave
<1>6. ASSUME NEW t \in Calls, CheckAccount(t) PROVE Places'
  BY <1>6 DEF CheckAccount, GoOn, End, backend, GoTo, locks, locals, Leave
<1>7. ASSUME NEW t \in Calls, TakePersistence(t) PROVE Places'
  BY <1>7 DEF TakePersistence, GoTo, locals, backend
<1>8. ASSUME NEW t \in Calls, TransitionEnabled(t) PROVE Places'
  BY <1>8 DEF TransitionEnabled, End, backend, Leave, GoTo
<1>9. ASSUME NEW t \in Calls, TransitionDisabled(t) PROVE Places'
  BY <1>9 DEF TransitionDisabled, End, backend, Leave, GoTo
<1>10. ASSUME NEW t \in Calls, CallFails(t) PROVE Places'
  BY <1>10 DEF CallFails, End, backend, Leave, GoTo
<1>11. ASSUME NEW t \in Calls, Recover(t) PROVE Places'
  BY <1>11 DEF Recover, End, locks, backend, Leave, GoTo
<1>12. ASSUME NEW t \in Calls, Answered(t) PROVE Places'
  BY <1>12 DEF Answered, End, backend, Leave, GoTo
<1>13. ASSUME NEW t \in Calls, RequestDenied(t) PROVE Places'
  BY <1>13 DEF RequestDenied, GoTo, End, locks, backend, Leave
<1>14. ASSUME NEW t \in Calls, RequestMissing(t) PROVE Places'
  BY <1>14 DEF RequestMissing, GoTo, locks, backend
<1>15. ASSUME NEW a \in Actors, LockEnrollment(a) PROVE Places'
  BY <1>15 DEF LockEnrollment, GoTo, locals, backend
<1>16. ASSUME NEW a \in Actors, EnrollServer(a) PROVE Places'
  BY <1>16 DEF EnrollServer, GoTo, locks, IsEnabled
<1>17. ASSUME NEW a \in Actors, Adopt(a) PROVE Places'
  BY <1>17 DEF Adopt, GoOn, End, backend, IsEnabled, GoTo, locks, locals, Leave
<1>18. ASSUME NEW a \in Actors, NeedsRefresh(a) PROVE Places'
  BY <1>18 DEF NeedsRefresh, GoOn, backend, GoTo, locks, locals
<1>19. ASSUME NEW a \in Actors, UseToken(a) PROVE Places'
  BY <1>19 DEF UseToken, GoTo, locals, backend
<1>20. ASSUME NEW a \in Actors, Refreshed(a) PROVE Places'
  BY <1>20 DEF Refreshed, GoTo, backend
<1>21. ASSUME NEW a \in Actors, RefreshMissing(a) PROVE Places'
  BY <1>21 DEF RefreshMissing, GoTo, End, locks, backend, Leave
<1>22. ASSUME Resolve PROVE Places'
  BY <1>22 DEF Resolve, GoOn, backend, GoTo, locks, locals
<1>23. ASSUME Wake PROVE Places'
  BY <1>23 DEF Wake, GoOn, backend, IsEnabled, GoTo, locks, locals
<1>24. ASSUME PrepareLoggedOut PROVE Places'
  BY <1>24 DEF PrepareLoggedOut, End, backend, Leave, GoTo
<1>25. ASSUME Prepare PROVE Places'
  BY <1>25 DEF Prepare, GoTo, locks, backend
<1>26. ASSUME PrepareChanged PROVE Places'
  BY <1>26 DEF PrepareChanged, GoTo, locks, backend
<1>27. ASSUME ResolveChanged PROVE Places'
  BY <1>27 DEF ResolveChanged, GoOn, End, backend, GoTo, locks, locals, Leave
<1>28. ASSUME Dialled PROVE Places'
  BY <1>28 DEF Dialled, Leave, backend, IsEnabled, GoTo
<1>29. ASSUME DialRefused PROVE Places'
  BY <1>29 DEF DialRefused, GoOn, backend, GoTo, locks, locals
<1>30. ASSUME Replace PROVE Places'
  BY <1>30 DEF Replace, GoTo, End, backend, Same, Leave
<1>31. ASSUME ClearToken PROVE Places'
  BY <1>31 DEF ClearToken, End, backend, Same, Leave, GoTo
<1>32. ASSUME AttemptFails PROVE Places'
  BY <1>32 DEF AttemptFails, End, backend, Leave, GoTo
<1>33. ASSUME EnrollDisabled PROVE Places'
  BY <1>33 DEF EnrollDisabled, End, backend, IsEnabled, Leave, GoTo
<1>34. ASSUME Retry PROVE Places'
  BY <1>34 DEF Retry, GoOn, backend, IsEnabled, GoTo, locks, locals
<1>35. ASSUME LinkLost PROVE Places'
  BY <1>35 DEF LinkLost, GoOn, backend, GoTo, locks, locals
<1>36. ASSUME SeenDisabled PROVE Places'
  BY <1>36 DEF SeenDisabled, Leave, backend, IsEnabled, GoTo
<1>37. ASSUME EnableEphemeral PROVE Places'
  BY <1>37 DEF EnableEphemeral, locks, actors, backend, locals
<1>38. ASSUME ChangeAccount PROVE Places'
  BY <1>38 DEF ChangeAccount, locks, actors, backend, locals
<1>39. ASSUME Forget PROVE Places'
  BY <1>39 DEF Forget, locks, actors, locals
<1>40. QED
  BY ONLY Next, <1>1, <1>2, <1>3, <1>4, <1>5, <1>6, <1>7, <1>8, <1>9, <1>10, <1>11, <1>12, <1>13,
     <1>14, <1>15, <1>16, <1>17, <1>18, <1>19, <1>20, <1>21, <1>22, <1>23, <1>24, <1>25, <1>26,
     <1>27, <1>28, <1>29, <1>30, <1>31, <1>32, <1>33, <1>34, <1>35, <1>36, <1>37, <1>38, <1>39 DEF
     Next, CallStep, Shared, Loop

(* A lock is taken when it is free and given back on every way out. *)
LEMMA HeldStep == IInv /\ Next => Held'
<1> SUFFICES ASSUME IInv, Next PROVE Held'
  OBVIOUS
<1> USE CallsAssumption, NoneAssumption, BoundsAssumption DEF IInv, TypeOK, Places, Held, Leased,
   Actors, Setters, Pairings
<1>1. ASSUME NEW t \in Calls, NEW c \in Setters \cup Pairings, Begin(t, c) PROVE Held'
  BY <1>1 DEF Begin, GoTo, locks, backend, IsEnabled
<1>2. ASSUME NEW t \in Calls, TakeRpc(t) PROVE Held'
  BY <1>2 DEF TakeRpc, GoTo, locals, backend
<1>3. ASSUME NEW t \in Calls, LoadAuth(t) PROVE Held'
  BY <1>3 DEF LoadAuth, GoTo, End, locks, backend, Leave
<1>4. ASSUME NEW t \in Calls, ResolvePreference(t) PROVE Held'
  BY <1>4 DEF ResolvePreference, End, backend, Leave, GoTo
<1>5. ASSUME NEW t \in Calls, SelectServer(t) PROVE Held'
  BY <1>5 DEF SelectServer, GoOn, GoTo, End, locks, backend, locals, Leave
<1>6. ASSUME NEW t \in Calls, CheckAccount(t) PROVE Held'
  BY <1>6 DEF CheckAccount, GoOn, End, backend, GoTo, locks, locals, Leave
<1>7. ASSUME NEW t \in Calls, TakePersistence(t) PROVE Held'
  BY <1>7 DEF TakePersistence, GoTo, locals, backend
<1>8. ASSUME NEW t \in Calls, TransitionEnabled(t) PROVE Held'
  BY <1>8 DEF TransitionEnabled, End, backend, Leave, GoTo
<1>9. ASSUME NEW t \in Calls, TransitionDisabled(t) PROVE Held'
  BY <1>9 DEF TransitionDisabled, End, backend, Leave, GoTo
<1>10. ASSUME NEW t \in Calls, CallFails(t) PROVE Held'
  BY <1>10 DEF CallFails, End, backend, Leave, GoTo
<1>11. ASSUME NEW t \in Calls, Recover(t) PROVE Held'
  BY <1>11 DEF Recover, End, locks, backend, Leave, GoTo
<1>12. ASSUME NEW t \in Calls, Answered(t) PROVE Held'
  BY <1>12 DEF Answered, End, backend, Leave, GoTo
<1>13. ASSUME NEW t \in Calls, RequestDenied(t) PROVE Held'
  BY <1>13 DEF RequestDenied, GoTo, End, locks, backend, Leave
<1>14. ASSUME NEW t \in Calls, RequestMissing(t) PROVE Held'
  BY <1>14 DEF RequestMissing, GoTo, locks, backend
<1>15. ASSUME NEW a \in Actors, LockEnrollment(a) PROVE Held'
  BY <1>15 DEF LockEnrollment, GoTo, locals, backend
<1>16. ASSUME NEW a \in Actors, EnrollServer(a) PROVE Held'
  BY <1>16 DEF EnrollServer, GoTo, locks, IsEnabled
<1>17. ASSUME NEW a \in Actors, Adopt(a) PROVE Held'
  BY <1>17 DEF Adopt, GoOn, End, backend, IsEnabled, GoTo, locks, locals, Leave
<1>18. ASSUME NEW a \in Actors, NeedsRefresh(a) PROVE Held'
  BY <1>18 DEF NeedsRefresh, GoOn, backend, GoTo, locks, locals
<1>19. ASSUME NEW a \in Actors, UseToken(a) PROVE Held'
  BY <1>19 DEF UseToken, GoTo, locals, backend
<1>20. ASSUME NEW a \in Actors, Refreshed(a) PROVE Held'
  BY <1>20 DEF Refreshed, GoTo, backend
<1>21. ASSUME NEW a \in Actors, RefreshMissing(a) PROVE Held'
  BY <1>21 DEF RefreshMissing, GoTo, End, locks, backend, Leave
<1>22. ASSUME Resolve PROVE Held'
  BY <1>22 DEF Resolve, GoOn, backend, GoTo, locks, locals
<1>23. ASSUME Wake PROVE Held'
  BY <1>23 DEF Wake, GoOn, backend, IsEnabled, GoTo, locks, locals
<1>24. ASSUME PrepareLoggedOut PROVE Held'
  BY <1>24 DEF PrepareLoggedOut, End, backend, Leave, GoTo
<1>25. ASSUME Prepare PROVE Held'
  BY <1>25 DEF Prepare, GoTo, locks, backend
<1>26. ASSUME PrepareChanged PROVE Held'
  BY <1>26 DEF PrepareChanged, GoTo, locks, backend
<1>27. ASSUME ResolveChanged PROVE Held'
  BY <1>27 DEF ResolveChanged, GoOn, End, backend, GoTo, locks, locals, Leave
<1>28. ASSUME Dialled PROVE Held'
  BY <1>28 DEF Dialled, Leave, backend, IsEnabled, GoTo
<1>29. ASSUME DialRefused PROVE Held'
  BY <1>29 DEF DialRefused, GoOn, backend, GoTo, locks, locals
<1>30. ASSUME Replace PROVE Held'
  BY <1>30 DEF Replace, GoTo, End, backend, Same, Leave
<1>31. ASSUME ClearToken PROVE Held'
  BY <1>31 DEF ClearToken, End, backend, Same, Leave, GoTo
<1>32. ASSUME AttemptFails PROVE Held'
  BY <1>32 DEF AttemptFails, End, backend, Leave, GoTo
<1>33. ASSUME EnrollDisabled PROVE Held'
  BY <1>33 DEF EnrollDisabled, End, backend, IsEnabled, Leave, GoTo
<1>34. ASSUME Retry PROVE Held'
  BY <1>34 DEF Retry, GoOn, backend, IsEnabled, GoTo, locks, locals
<1>35. ASSUME LinkLost PROVE Held'
  BY <1>35 DEF LinkLost, GoOn, backend, GoTo, locks, locals
<1>36. ASSUME SeenDisabled PROVE Held'
  BY <1>36 DEF SeenDisabled, Leave, backend, IsEnabled, GoTo
<1>37. ASSUME EnableEphemeral PROVE Held'
  BY <1>37 DEF EnableEphemeral, locks, actors, backend, locals
<1>38. ASSUME ChangeAccount PROVE Held'
  BY <1>38 DEF ChangeAccount, locks, actors, backend, locals
<1>39. ASSUME Forget PROVE Held'
  BY <1>39 DEF Forget, locks, actors, locals
<1>40. QED
  BY ONLY Next, <1>1, <1>2, <1>3, <1>4, <1>5, <1>6, <1>7, <1>8, <1>9, <1>10, <1>11, <1>12, <1>13,
     <1>14, <1>15, <1>16, <1>17, <1>18, <1>19, <1>20, <1>21, <1>22, <1>23, <1>24, <1>25, <1>26,
     <1>27, <1>28, <1>29, <1>30, <1>31, <1>32, <1>33, <1>34, <1>35, <1>36, <1>37, <1>38, <1>39 DEF
     Next, CallStep, Shared, Loop

(* Every action keeps the types. *)
LEMMA TypeStep == IInv /\ Next => TypeOK'
<1> SUFFICES ASSUME IInv, Next PROVE TypeOK'
  OBVIOUS
<1> USE CallsAssumption, NoneAssumption, BoundsAssumption DEF IInv, TypeOK, Places, InHand,
   InHandOf, Actors, Setters, Pairings, Labels, Enrollments
<1>1. ASSUME NEW t \in Calls, NEW c \in Setters \cup Pairings, Begin(t, c) PROVE TypeOK'
  BY <1>1 DEF Begin, GoTo, locks, backend, IsEnabled
<1>2. ASSUME NEW t \in Calls, TakeRpc(t) PROVE TypeOK'
  BY <1>2 DEF TakeRpc, GoTo, locals, backend
<1>3. ASSUME NEW t \in Calls, LoadAuth(t) PROVE TypeOK'
  <2>1. CASE account = None \/ (call[t] = "resolve" /\ desired # "unknown")
    BY <1>3, <2>1, EndType DEF LoadAuth, LocalsOK, backend
  <2>2. CASE ~(account = None \/ (call[t] = "resolve" /\ desired # "unknown"))
    BY <1>3, <2>2 DEF LoadAuth, GoTo, End, locks, backend, Leave
  <2>3. QED
    BY <2>1, <2>2
<1>4. ASSUME NEW t \in Calls, ResolvePreference(t) PROVE TypeOK'
  BY <1>4 DEF ResolvePreference, End, backend, Leave, GoTo
<1>5. ASSUME NEW t \in Calls, SelectServer(t) PROVE TypeOK'
  <2>1. CASE current # None /\ current.acct = acct[t]
    BY <1>5, <2>1 DEF SelectServer, GoOn, GoTo, End, locks, backend, locals, Leave
  <2>2. CASE ~(current # None /\ current.acct = acct[t]) /\ call[t] = "pairing_status"
    BY <1>5, <2>2, EndType DEF SelectServer, LocalsOK, backend
  <2>3. CASE ~(current # None /\ current.acct = acct[t]) /\ call[t] # "pairing_status"
    BY <1>5, <2>3 DEF SelectServer, GoOn, GoTo, End, locks, backend, locals, Leave
  <2>4. QED
    BY <2>1, <2>2, <2>3
<1>6. ASSUME NEW t \in Calls, CheckAccount(t) PROVE TypeOK'
  <2>1. CASE account # acct[t]
    BY <1>6, <2>1, EndType DEF CheckAccount, LocalsOK, backend
  <2>2. CASE ~(account # acct[t])
    BY <1>6, <2>2 DEF CheckAccount, GoOn, End, backend, GoTo, locks, locals, Leave
  <2>3. QED
    BY <2>1, <2>2
<1>7. ASSUME NEW t \in Calls, TakePersistence(t) PROVE TypeOK'
  BY <1>7 DEF TakePersistence, GoTo, locals, backend
<1>8. ASSUME NEW t \in Calls, TransitionEnabled(t) PROVE TypeOK'
  BY <1>8 DEF TransitionEnabled, End, backend, Leave, GoTo
<1>9. ASSUME NEW t \in Calls, TransitionDisabled(t) PROVE TypeOK'
  BY <1>9 DEF TransitionDisabled, End, backend, Leave, GoTo
<1>10. ASSUME NEW t \in Calls, CallFails(t) PROVE TypeOK'
  BY <1>10 DEF CallFails, End, backend, Leave, GoTo
<1>11. ASSUME NEW t \in Calls, Recover(t) PROVE TypeOK'
  <2>1. CASE account = None \/ (at[t] = "refresh" /\ account # mine[t].acct)
    BY <1>11, <2>1, EndType DEF Recover, LocalsOK, backend
  <2>2. CASE ~(account = None \/ (at[t] = "refresh" /\ account # mine[t].acct))
    <3>1. acct' = [acct EXCEPT ![t] = account] /\ again' = [again EXCEPT ![t] = TRUE]
      BY <1>11, <2>2 DEF Recover
    <3>2. UNCHANGED <<at, locks, call, mine, asked, renewed, account, desired, current, backend,
       logins>>
      BY <1>11, <2>2 DEF Recover
    <3>3. QED
      BY <3>1, <3>2 DEF locks, backend
  <2>3. QED
    BY <2>1, <2>2
<1>12. ASSUME NEW t \in Calls, Answered(t) PROVE TypeOK'
  BY <1>12 DEF Answered, End, backend, Leave, GoTo
<1>13. ASSUME NEW t \in Calls, RequestDenied(t) PROVE TypeOK'
  <2> DEFINE e == [mine[t] EXCEPT !.token = FALSE]
  <2>1. mine[t] \in Enrollments
    BY <1>13 DEF RequestDenied
  <2>2. e \in Enrollments
    BY ONLY <2>1, TokenOnly
  <2> HIDE DEF e, Enrollments
  <2>3. CASE asked[t] = 0
    <3>1. mine' = [mine EXCEPT ![t] = e] /\ current' = e /\ asked' = [asked EXCEPT ![t] = 1]
      BY <1>13, <2>3 DEF RequestDenied, e
    <3>2. UNCHANGED <<locks, acct, call, again, renewed, account, desired, backend, logins>>
      BY <1>13, <2>3 DEF RequestDenied
    <3>3. at' = [at EXCEPT ![t] = "refresh"]
      BY <1>13, <2>3 DEF RequestDenied, GoTo
    <3>4. QED
      BY <2>2, <3>1, <3>2, <3>3 DEF locks, backend
  <2>4. CASE asked[t] # 0
    BY <1>13, <2>2, <2>4, EndType DEF RequestDenied, LocalsOK, backend, e
  <2>5. QED
    BY <2>3, <2>4
<1>14. ASSUME NEW t \in Calls, RequestMissing(t) PROVE TypeOK'
  BY <1>14 DEF RequestMissing, GoTo, locks, backend
<1>15. ASSUME NEW a \in Actors, LockEnrollment(a) PROVE TypeOK'
  BY <1>15 DEF LockEnrollment, GoTo, locals, backend
<1>16. ASSUME NEW a \in Actors, EnrollServer(a) PROVE TypeOK'
  BY <1>16 DEF EnrollServer, GoTo, locks, IsEnabled
<1>17. ASSUME NEW a \in Actors, Adopt(a) PROVE TypeOK'
  <2>1. CASE ~IsEnabled
    BY <1>17, <2>1, EndType DEF Adopt, LocalsOK, backend, IsEnabled
  <2>2. CASE IsEnabled /\ (IF a = ws THEN asked[a] = 0 ELSE call[a] = "start_pairing" /\ asked[a]
     < 2)
    BY <1>17, <2>2 DEF Adopt, GoOn, End, backend, IsEnabled, GoTo, locks, locals, Leave
  <2>3. CASE IsEnabled /\ ~(IF a = ws THEN asked[a] = 0 ELSE call[a] = "start_pairing" /\ asked[a]
     < 2)
    BY <1>17, <2>3, EndType DEF Adopt, LocalsOK, backend, IsEnabled
  <2>4. QED
    BY <2>1, <2>2, <2>3 DEF IsEnabled
<1>18. ASSUME NEW a \in Actors, NeedsRefresh(a) PROVE TypeOK'
  BY <1>18 DEF NeedsRefresh, GoOn, backend, GoTo, locks, locals
<1>19. ASSUME NEW a \in Actors, UseToken(a) PROVE TypeOK'
  BY <1>19 DEF UseToken, GoTo, locals, backend
<1>20. ASSUME NEW a \in Actors, Refreshed(a) PROVE TypeOK'
  BY <1>20, TokenOnly, ZenonT(20) DEF Refreshed, GoTo, locks, backend, Same
<1>21. ASSUME NEW a \in Actors, RefreshMissing(a) PROVE TypeOK'
  <2>1. CASE asked[a] = 1
    BY <1>21, <2>1, EndType DEF RefreshMissing, LocalsOK, backend
  <2>2. CASE asked[a] # 1
    <3>1. /\ again' = [again EXCEPT ![a] = FALSE] /\ renewed' = [renewed EXCEPT ![a] = TRUE]
          /\ at' = [at EXCEPT ![a] = "enroll"]
      BY <1>21, <2>2 DEF RefreshMissing, GoTo
    <3>2. UNCHANGED <<locks, call, acct, mine, asked, account, desired, current, backend, logins>>
      BY <1>21, <2>2 DEF RefreshMissing
    <3>3. QED
      BY <3>1, <3>2 DEF locks, backend
  <2>3. QED
    BY <2>1, <2>2
<1>22. ASSUME Resolve PROVE TypeOK'
  BY <1>22 DEF Resolve, GoOn, backend, GoTo, locks, locals
<1>23. ASSUME Wake PROVE TypeOK'
  BY <1>23 DEF Wake, GoOn, backend, IsEnabled, GoTo, locks, locals
<1>24. ASSUME PrepareLoggedOut PROVE TypeOK'
  BY <1>24 DEF PrepareLoggedOut, End, backend, Leave, GoTo
<1>25. ASSUME Prepare PROVE TypeOK'
  BY <1>25 DEF Prepare, GoTo, locks, backend
<1>26. ASSUME PrepareChanged PROVE TypeOK'
  BY <1>26 DEF PrepareChanged, GoTo, locks, backend
<1>27. ASSUME ResolveChanged PROVE TypeOK'
  <2>1. CASE desired # "durable"
    BY <1>27, <2>1 DEF ResolveChanged, GoOn, End, backend, GoTo, locks, locals, Leave
  <2>2. CASE desired = "durable" /\ account # acct[ws]
    BY <1>27, <2>2, EndType DEF ResolveChanged, LocalsOK, backend
  <2>3. CASE desired = "durable" /\ account = acct[ws]
    BY <1>27, <2>3, EndType DEF ResolveChanged, LocalsOK, backend
  <2>4. QED
    BY <2>1, <2>2, <2>3, <1>27 DEF ResolveChanged
<1>28. ASSUME Dialled PROVE TypeOK'
  BY <1>28 DEF Dialled, Leave, backend, IsEnabled, GoTo
<1>29. ASSUME DialRefused PROVE TypeOK'
  BY <1>29 DEF DialRefused, GoOn, backend, GoTo, locks, locals
<1>30. ASSUME Replace PROVE TypeOK'
  <2>1. CASE Same(current, mine[ws])
    BY <1>30, <2>1 DEF Replace, GoTo, End, backend, Same, Leave
  <2>2. CASE ~(Same(current, mine[ws]))
    BY <1>30, <2>2, EndType DEF Replace, LocalsOK, backend, Same
  <2>3. QED
    BY <2>1, <2>2
<1>31. ASSUME ClearToken PROVE TypeOK'
  <2>1. CASE Same(current, mine[ws])
    BY <1>31, <2>1, EndType, TokenOnly DEF ClearToken, LocalsOK, backend, Same
  <2>2. CASE ~(Same(current, mine[ws]))
    BY <1>31, <2>2 DEF ClearToken, End, backend, Same, Leave, GoTo
  <2>3. QED
    BY <2>1, <2>2
<1>32. ASSUME AttemptFails PROVE TypeOK'
  BY <1>32 DEF AttemptFails, End, backend, Leave, GoTo
<1>33. ASSUME EnrollDisabled PROVE TypeOK'
  BY <1>33 DEF EnrollDisabled, End, backend, IsEnabled, Leave, GoTo
<1>34. ASSUME Retry PROVE TypeOK'
  BY <1>34 DEF Retry, GoOn, backend, IsEnabled, GoTo, locks, locals
<1>35. ASSUME LinkLost PROVE TypeOK'
  BY <1>35 DEF LinkLost, GoOn, backend, GoTo, locks, locals
<1>36. ASSUME SeenDisabled PROVE TypeOK'
  BY <1>36 DEF SeenDisabled, Leave, backend, IsEnabled, GoTo
<1>37. ASSUME EnableEphemeral PROVE TypeOK'
  BY <1>37 DEF EnableEphemeral, locks, actors, backend, locals
<1>38. ASSUME ChangeAccount PROVE TypeOK'
  BY <1>38 DEF ChangeAccount, locks, actors, backend, locals
<1>39. ASSUME Forget PROVE TypeOK'
  BY <1>39 DEF Forget, locks, actors, locals
<1>40. QED
  BY ONLY Next, <1>1, <1>2, <1>3, <1>4, <1>5, <1>6, <1>7, <1>8, <1>9, <1>10, <1>11, <1>12, <1>13,
     <1>14, <1>15, <1>16, <1>17, <1>18, <1>19, <1>20, <1>21, <1>22, <1>23, <1>24, <1>25, <1>26,
     <1>27, <1>28, <1>29, <1>30, <1>31, <1>32, <1>33, <1>34, <1>35, <1>36, <1>37, <1>38, <1>39 DEF
     Next, CallStep, Shared, Loop

(* Whoever changes the selected server holds the lease, or finds it free. *)
LEMMA InHandStep == IInv /\ Next => InHand'
<1> SUFFICES ASSUME IInv, Next PROVE InHand'
  OBVIOUS
<1> USE CallsAssumption, NoneAssumption, BoundsAssumption DEF IInv, TypeOK, Places, Held, Leased,
   InHand, InHandOf, Actors, Setters, Pairings, Enrollments, Same
<1>1. ASSUME NEW t \in Calls, NEW c \in Setters \cup Pairings, Begin(t, c) PROVE InHand'
  BY <1>1 DEF Begin, GoTo, locks, backend, IsEnabled
<1>2. ASSUME NEW t \in Calls, TakeRpc(t) PROVE InHand'
  BY <1>2 DEF TakeRpc, GoTo, locals, backend
<1>3. ASSUME NEW t \in Calls, LoadAuth(t) PROVE InHand'
  <2>1. CASE account = None \/ (call[t] = "resolve" /\ desired # "unknown")
    BY <1>3, <2>1 DEF LoadAuth, GoTo, End, locks, backend, Leave
  <2>2. CASE ~(account = None \/ (call[t] = "resolve" /\ desired # "unknown"))
    BY <1>3, <2>2 DEF LoadAuth, GoTo, End, locks, backend, Leave
  <2>3. QED
    BY <2>1, <2>2
<1>4. ASSUME NEW t \in Calls, ResolvePreference(t) PROVE InHand'
  BY <1>4 DEF ResolvePreference, End, backend, Leave, GoTo
<1>5. ASSUME NEW t \in Calls, SelectServer(t) PROVE InHand'
  <2>1. CASE current # None /\ current.acct = acct[t]
    BY <1>5, <2>1 DEF SelectServer, GoOn, GoTo, End, locks, backend, locals, Leave
  <2>2. CASE ~(current # None /\ current.acct = acct[t]) /\ call[t] = "pairing_status"
    BY <1>5, <2>2 DEF SelectServer, GoOn, GoTo, End, locks, backend, locals, Leave
  <2>3. CASE ~(current # None /\ current.acct = acct[t]) /\ call[t] # "pairing_status"
    BY <1>5, <2>3 DEF SelectServer, GoOn, GoTo, End, locks, backend, locals, Leave
  <2>4. QED
    BY <2>1, <2>2, <2>3
<1>6. ASSUME NEW t \in Calls, CheckAccount(t) PROVE InHand'
  <2>1. CASE account # acct[t]
    BY <1>6, <2>1 DEF CheckAccount, GoOn, End, backend, GoTo, locks, locals, Leave
  <2>2. CASE ~(account # acct[t])
    BY <1>6, <2>2 DEF CheckAccount, GoOn, End, backend, GoTo, locks, locals, Leave
  <2>3. QED
    BY <2>1, <2>2
<1>7. ASSUME NEW t \in Calls, TakePersistence(t) PROVE InHand'
  BY <1>7 DEF TakePersistence, GoTo, locals, backend
<1>8. ASSUME NEW t \in Calls, TransitionEnabled(t) PROVE InHand'
  BY <1>8 DEF TransitionEnabled, End, backend, Leave, GoTo
<1>9. ASSUME NEW t \in Calls, TransitionDisabled(t) PROVE InHand'
  BY <1>9 DEF TransitionDisabled, End, backend, Leave, GoTo
<1>10. ASSUME NEW t \in Calls, CallFails(t) PROVE InHand'
  BY <1>10 DEF CallFails, End, backend, Leave, GoTo
<1>11. ASSUME NEW t \in Calls, Recover(t) PROVE InHand'
  <2>1. CASE account = None \/ (at[t] = "refresh" /\ account # mine[t].acct)
    BY <1>11, <2>1 DEF Recover, End, locks, backend, Leave, GoTo
  <2>2. CASE ~(account = None \/ (at[t] = "refresh" /\ account # mine[t].acct))
    BY <1>11, <2>2 DEF Recover, End, locks, backend, Leave, GoTo
  <2>3. QED
    BY <2>1, <2>2
<1>12. ASSUME NEW t \in Calls, Answered(t) PROVE InHand'
  BY <1>12 DEF Answered, End, backend, Leave, GoTo
<1>13. ASSUME NEW t \in Calls, RequestDenied(t) PROVE InHand'
  <2> DEFINE e == [mine[t] EXCEPT !.token = FALSE]
  <2>1. mine[t] # None /\ mine[t] \in Enrollments /\ mine[t].server <= made
    BY <1>13 DEF RequestDenied
  <2>2. e \in Enrollments /\ e # None /\ e.acct = mine[t].acct /\ e.server = mine[t].server
    BY ONLY <2>1, TokenOnly, NoneAssumption
  <2> HIDE DEF e
  <2>3. CASE asked[t] = 0
    <3>1. mine' = [mine EXCEPT ![t] = e] /\ current' = e /\ asked' = [asked EXCEPT ![t] = 1]
      BY <1>13, <2>3 DEF RequestDenied, e
    <3>2. made' = made /\ acct' = acct /\ at' = [at EXCEPT ![t] = "refresh"]
      BY <1>13, <2>3 DEF RequestDenied, GoTo, backend
    <3>3. ASSUME NEW b \in Actors, b # t PROVE InHandOf(b)'
      BY <1>13, <2>1, <2>2, <2>3, <3>1, <3>2, <3>3 DEF RequestDenied
    <3>4. InHandOf(t)'
      <4>1. mine'[t] = e /\ acct'[t] = acct[t] /\ asked'[t] = 1 /\ at'[t] = "refresh"
        BY <3>1, <3>2
      <4>2. acct[t] \in Accounts /\ t # ws
        BY <1>13 DEF RequestDenied
      <4>3. QED
        BY ONLY <2>1, <2>2, <3>1, <3>2, <4>1, <4>2 DEF InHandOf, Same
    <3>5. QED
      BY <2>1, <2>2, <3>1, <3>2, <3>3, <3>4
  <2>4. CASE asked[t] # 0
    BY <1>13, <2>1, <2>2, <2>4 DEF RequestDenied, GoTo, End, Leave, backend, e
  <2>5. QED
    BY <2>3, <2>4
<1>14. ASSUME NEW t \in Calls, RequestMissing(t) PROVE InHand'
  BY <1>14 DEF RequestMissing, GoTo, locks, backend
<1>15. ASSUME NEW a \in Actors, LockEnrollment(a) PROVE InHand'
  BY <1>15 DEF LockEnrollment, GoTo, locals, backend
<1>16. ASSUME NEW a \in Actors, EnrollServer(a) PROVE InHand'
  <2> DEFINE e == [acct |-> acct[a], server |-> made + 1, token |-> TRUE]
  <2>1. acct[a] \in Accounts /\ made + 1 \in 1..MaxServers
    BY <1>16 DEF EnrollServer
  <2>2. e \in Enrollments /\ e.server = made + 1
    BY ONLY <2>1 DEF Enrollments
  <2>3. e # None
    BY ONLY <2>2, NoneAssumption
  <2>4. mine' = [mine EXCEPT ![a] = e] /\ current' = current /\ made' = made + 1 /\ made \in Nat
    BY <1>16 DEF EnrollServer
  <2> HIDE DEF e
  <2>5. ASSUME NEW b \in Actors, b # a PROVE InHandOf(b)'
    BY <1>16, <2>1, <2>2, <2>3, <2>4, <2>5 DEF EnrollServer, GoTo, backend
  <2>6. InHandOf(a)'
    <3>1. mine'[a] = e /\ acct'[a] = acct[a] /\ asked'[a] = asked[a] /\ at'[a] \in {"check",
       "adopt"}
      BY <1>16, <2>4 DEF EnrollServer, GoTo
    <3>2. e.server <= made'
      BY <2>2, <2>4
    <3>3. QED
      BY ONLY <2>1, <2>3, <3>1, <3>2 DEF InHandOf
  <2>7. QED
    BY <2>1, <2>2, <2>3, <2>4, <2>5, <2>6 DEF EnrollServer
<1>17. ASSUME NEW a \in Actors, Adopt(a) PROVE InHand'
  <2>1. CASE ~IsEnabled
    BY <1>17, <2>1 DEF Adopt, GoOn, End, backend, IsEnabled, GoTo, locks, locals, Leave
  <2>2. CASE IsEnabled /\ (IF a = ws THEN asked[a] = 0 ELSE call[a] = "start_pairing" /\ asked[a]
     < 2)
    BY <1>17, <2>2 DEF Adopt, GoOn, End, backend, IsEnabled, GoTo, locks, locals, Leave
  <2>3. CASE IsEnabled /\ ~(IF a = ws THEN asked[a] = 0 ELSE call[a] = "start_pairing" /\ asked[a]
     < 2)
    BY <1>17, <2>3 DEF Adopt, GoOn, End, backend, IsEnabled, GoTo, locks, locals, Leave
  <2>4. QED
    BY <2>1, <2>2, <2>3 DEF IsEnabled
<1>18. ASSUME NEW a \in Actors, NeedsRefresh(a) PROVE InHand'
  BY <1>18 DEF NeedsRefresh, GoOn, backend, GoTo, locks, locals
<1>19. ASSUME NEW a \in Actors, UseToken(a) PROVE InHand'
  BY <1>19 DEF UseToken, GoTo, locals, backend
<1>20. ASSUME NEW a \in Actors, Refreshed(a) PROVE InHand'
  <2> DEFINE e == [mine[a] EXCEPT !.token = TRUE]
  <2>1. mine[a] # None /\ mine[a] \in Enrollments /\ mine[a].server <= made
    BY <1>20 DEF Refreshed
  <2>2. e \in Enrollments /\ e # None /\ e.acct = mine[a].acct /\ e.server = mine[a].server
    BY ONLY <2>1, TokenOnly, NoneAssumption
  <2>3. mine' = [mine EXCEPT ![a] = e] /\ current' = e /\ made' = made
    BY <1>20 DEF Refreshed, backend
  <2> HIDE DEF e
  <2>4. ASSUME NEW b \in Actors, b # a PROVE InHandOf(b)'
    BY <1>20, <2>1, <2>2, <2>3, <2>4 DEF Refreshed, GoTo, backend
  <2>5. InHandOf(a)'
    <3>1. /\ mine'[a] = e /\ acct'[a] = acct[a] /\ asked'[a] = asked[a]
          /\ at'[a] \in {"dial", "request"} /\ (a = ws => at'[a] = "dial")
      BY <1>20, <2>3 DEF Refreshed, GoTo
    <3>2. acct[a] \in Accounts /\ asked[a] < 2
      BY <1>20 DEF Refreshed
    <3>3. QED
      BY ONLY <2>1, <2>2, <2>3, <3>1, <3>2 DEF InHandOf, Same
  <2>6. QED
    BY <2>1, <2>2, <2>3, <2>4, <2>5 DEF Refreshed
<1>21. ASSUME NEW a \in Actors, RefreshMissing(a) PROVE InHand'
  <2>1. CASE asked[a] = 1
    BY <1>21, <2>1 DEF RefreshMissing, GoTo, End, locks, backend, Leave
  <2>2. CASE ~(asked[a] = 1)
    BY <1>21, <2>2 DEF RefreshMissing, GoTo, End, locks, backend, Leave
  <2>3. QED
    BY <2>1, <2>2
<1>22. ASSUME Resolve PROVE InHand'
  BY <1>22 DEF Resolve, GoOn, backend, GoTo, locks, locals
<1>23. ASSUME Wake PROVE InHand'
  BY <1>23 DEF Wake, GoOn, backend, IsEnabled, GoTo, locks, locals
<1>24. ASSUME PrepareLoggedOut PROVE InHand'
  BY <1>24 DEF PrepareLoggedOut, End, backend, Leave, GoTo
<1>25. ASSUME Prepare PROVE InHand'
  BY <1>25 DEF Prepare, GoTo, locks, backend
<1>26. ASSUME PrepareChanged PROVE InHand'
  BY <1>26 DEF PrepareChanged, GoTo, locks, backend
<1>27. ASSUME ResolveChanged PROVE InHand'
  <2>1. CASE desired # "durable"
    BY <1>27, <2>1 DEF ResolveChanged, GoOn, End, backend, GoTo, locks, locals, Leave
  <2>2. CASE desired = "durable" /\ account # acct[ws]
    BY <1>27, <2>2 DEF ResolveChanged, GoOn, End, backend, GoTo, locks, locals, Leave
  <2>3. CASE desired = "durable" /\ account = acct[ws]
    BY <1>27, <2>3 DEF ResolveChanged, GoOn, End, backend, GoTo, locks, locals, Leave
  <2>4. QED
    BY <2>1, <2>2, <2>3, <1>27 DEF ResolveChanged
<1>28. ASSUME Dialled PROVE InHand'
  BY <1>28 DEF Dialled, Leave, backend, IsEnabled, GoTo
<1>29. ASSUME DialRefused PROVE InHand'
  BY <1>29 DEF DialRefused, GoOn, backend, GoTo, locks, locals
<1>30. ASSUME Replace PROVE InHand'
  <2>1. CASE Same(current, mine[ws])
    BY <1>30, <2>1 DEF Replace, GoTo, End, backend, Same, Leave
  <2>2. CASE ~(Same(current, mine[ws]))
    BY <1>30, <2>2 DEF Replace, GoTo, End, backend, Same, Leave
  <2>3. QED
    BY <2>1, <2>2
<1>31. ASSUME ClearToken PROVE InHand'
  <2>1. CASE Same(current, mine[ws])
    BY <1>31, <2>1 DEF ClearToken, End, backend, Same, Leave, GoTo
  <2>2. CASE ~(Same(current, mine[ws]))
    BY <1>31, <2>2 DEF ClearToken, End, backend, Same, Leave, GoTo
  <2>3. QED
    BY <2>1, <2>2
<1>32. ASSUME AttemptFails PROVE InHand'
  BY <1>32 DEF AttemptFails, End, backend, Leave, GoTo
<1>33. ASSUME EnrollDisabled PROVE InHand'
  BY <1>33 DEF EnrollDisabled, End, backend, IsEnabled, Leave, GoTo
<1>34. ASSUME Retry PROVE InHand'
  BY <1>34 DEF Retry, GoOn, backend, IsEnabled, GoTo, locks, locals
<1>35. ASSUME LinkLost PROVE InHand'
  BY <1>35 DEF LinkLost, GoOn, backend, GoTo, locks, locals
<1>36. ASSUME SeenDisabled PROVE InHand'
  BY <1>36 DEF SeenDisabled, Leave, backend, IsEnabled, GoTo
<1>37. ASSUME EnableEphemeral PROVE InHand'
  BY <1>37 DEF EnableEphemeral, locks, actors, backend, locals
<1>38. ASSUME ChangeAccount PROVE InHand'
  BY <1>38 DEF ChangeAccount, locks, actors, backend, locals
<1>39. ASSUME Forget PROVE InHand'
  BY <1>39 DEF Forget, locks, actors, locals
<1>40. QED
  BY ONLY Next, <1>1, <1>2, <1>3, <1>4, <1>5, <1>6, <1>7, <1>8, <1>9, <1>10, <1>11, <1>12, <1>13,
     <1>14, <1>15, <1>16, <1>17, <1>18, <1>19, <1>20, <1>21, <1>22, <1>23, <1>24, <1>25, <1>26,
     <1>27, <1>28, <1>29, <1>30, <1>31, <1>32, <1>33, <1>34, <1>35, <1>36, <1>37, <1>38, <1>39 DEF
     Next, CallStep, Shared, Loop

(* A reason to enroll stays good while the lease is held. *)
LEMMA NeededStep == IInv /\ Next => Needed'
<1> SUFFICES ASSUME IInv, Next PROVE Needed'
  OBVIOUS
<1> USE CallsAssumption, NoneAssumption, BoundsAssumption DEF IInv, TypeOK, Places, Held, Leased,
   InHand, InHandOf, Needed, Actors, Setters, Pairings, Enrollments, Same
<1>1. ASSUME NEW t \in Calls, NEW c \in Setters \cup Pairings, Begin(t, c) PROVE Needed'
  BY <1>1 DEF Begin, GoTo, locks, backend, IsEnabled
<1>2. ASSUME NEW t \in Calls, TakeRpc(t) PROVE Needed'
  BY <1>2 DEF TakeRpc, GoTo, locals, backend
<1>3. ASSUME NEW t \in Calls, LoadAuth(t) PROVE Needed'
  BY <1>3 DEF LoadAuth, GoTo, End, locks, backend, Leave
<1>4. ASSUME NEW t \in Calls, ResolvePreference(t) PROVE Needed'
  BY <1>4 DEF ResolvePreference, End, backend, Leave, GoTo
<1>5. ASSUME NEW t \in Calls, SelectServer(t) PROVE Needed'
  BY <1>5 DEF SelectServer, GoOn, GoTo, End, locks, backend, locals, Leave
<1>6. ASSUME NEW t \in Calls, CheckAccount(t) PROVE Needed'
  BY <1>6 DEF CheckAccount, GoOn, End, backend, GoTo, locks, locals, Leave
<1>7. ASSUME NEW t \in Calls, TakePersistence(t) PROVE Needed'
  BY <1>7 DEF TakePersistence, GoTo, locals, backend
<1>8. ASSUME NEW t \in Calls, TransitionEnabled(t) PROVE Needed'
  BY <1>8 DEF TransitionEnabled, End, backend, Leave, GoTo
<1>9. ASSUME NEW t \in Calls, TransitionDisabled(t) PROVE Needed'
  BY <1>9 DEF TransitionDisabled, End, backend, Leave, GoTo
<1>10. ASSUME NEW t \in Calls, CallFails(t) PROVE Needed'
  BY <1>10 DEF CallFails, End, backend, Leave, GoTo
<1>11. ASSUME NEW t \in Calls, Recover(t) PROVE Needed'
  BY <1>11 DEF Recover, End, locks, backend, Leave, GoTo
<1>12. ASSUME NEW t \in Calls, Answered(t) PROVE Needed'
  BY <1>12 DEF Answered, End, backend, Leave, GoTo
<1>13. ASSUME NEW t \in Calls, RequestDenied(t) PROVE Needed'
  BY <1>13 DEF RequestDenied, GoTo, End, locks, backend, Leave
<1>14. ASSUME NEW t \in Calls, RequestMissing(t) PROVE Needed'
  BY <1>14 DEF RequestMissing, GoTo, locks, backend
<1>15. ASSUME NEW a \in Actors, LockEnrollment(a) PROVE Needed'
  BY <1>15 DEF LockEnrollment, GoTo, locals, backend
<1>16. ASSUME NEW a \in Actors, EnrollServer(a) PROVE Needed'
  BY <1>16 DEF EnrollServer, GoTo, locks, IsEnabled
<1>17. ASSUME NEW a \in Actors, Adopt(a) PROVE Needed'
  BY <1>17 DEF Adopt, GoOn, End, backend, IsEnabled, GoTo, locks, locals, Leave
<1>18. ASSUME NEW a \in Actors, NeedsRefresh(a) PROVE Needed'
  BY <1>18 DEF NeedsRefresh, GoOn, backend, GoTo, locks, locals
<1>19. ASSUME NEW a \in Actors, UseToken(a) PROVE Needed'
  BY <1>19 DEF UseToken, GoTo, locals, backend
<1>20. ASSUME NEW a \in Actors, Refreshed(a) PROVE Needed'
  BY <1>20 DEF Refreshed, GoTo, backend
<1>21. ASSUME NEW a \in Actors, RefreshMissing(a) PROVE Needed'
  BY <1>21 DEF RefreshMissing, GoTo, End, locks, backend, Leave
<1>22. ASSUME Resolve PROVE Needed'
  BY <1>22 DEF Resolve, GoOn, backend, GoTo, locks, locals
<1>23. ASSUME Wake PROVE Needed'
  BY <1>23 DEF Wake, GoOn, backend, IsEnabled, GoTo, locks, locals
<1>24. ASSUME PrepareLoggedOut PROVE Needed'
  BY <1>24 DEF PrepareLoggedOut, End, backend, Leave, GoTo
<1>25. ASSUME Prepare PROVE Needed'
  BY <1>25 DEF Prepare, GoTo, locks, backend
<1>26. ASSUME PrepareChanged PROVE Needed'
  BY <1>26 DEF PrepareChanged, GoTo, locks, backend
<1>27. ASSUME ResolveChanged PROVE Needed'
  BY <1>27 DEF ResolveChanged, GoOn, End, backend, GoTo, locks, locals, Leave
<1>28. ASSUME Dialled PROVE Needed'
  BY <1>28 DEF Dialled, Leave, backend, IsEnabled, GoTo
<1>29. ASSUME DialRefused PROVE Needed'
  BY <1>29 DEF DialRefused, GoOn, backend, GoTo, locks, locals
<1>30. ASSUME Replace PROVE Needed'
  BY <1>30 DEF Replace, GoTo, End, backend, Same, Leave
<1>31. ASSUME ClearToken PROVE Needed'
  BY <1>31 DEF ClearToken, End, backend, Same, Leave, GoTo
<1>32. ASSUME AttemptFails PROVE Needed'
  BY <1>32 DEF AttemptFails, End, backend, Leave, GoTo
<1>33. ASSUME EnrollDisabled PROVE Needed'
  BY <1>33 DEF EnrollDisabled, End, backend, IsEnabled, Leave, GoTo
<1>34. ASSUME Retry PROVE Needed'
  BY <1>34 DEF Retry, GoOn, backend, IsEnabled, GoTo, locks, locals
<1>35. ASSUME LinkLost PROVE Needed'
  BY <1>35 DEF LinkLost, GoOn, backend, GoTo, locks, locals
<1>36. ASSUME SeenDisabled PROVE Needed'
  BY <1>36 DEF SeenDisabled, Leave, backend, IsEnabled, GoTo
<1>37. ASSUME EnableEphemeral PROVE Needed'
  BY <1>37 DEF EnableEphemeral, locks, actors, backend, locals
<1>38. ASSUME ChangeAccount PROVE Needed'
  BY <1>38 DEF ChangeAccount, locks, actors, backend, locals
<1>39. ASSUME Forget PROVE Needed'
  BY <1>39 DEF Forget, locks, actors, locals
<1>40. QED
  BY ONLY Next, <1>1, <1>2, <1>3, <1>4, <1>5, <1>6, <1>7, <1>8, <1>9, <1>10, <1>11, <1>12, <1>13,
     <1>14, <1>15, <1>16, <1>17, <1>18, <1>19, <1>20, <1>21, <1>22, <1>23, <1>24, <1>25, <1>26,
     <1>27, <1>28, <1>29, <1>30, <1>31, <1>32, <1>33, <1>34, <1>35, <1>36, <1>37, <1>38, <1>39 DEF
     Next, CallStep, Shared, Loop

-----------------------------------------------------------------------------
(* Remote control starts with nothing held and nothing selected. *)
LEMMA InitIInv == Init => IInv
<1> SUFFICES ASSUME Init PROVE IInv
  OBVIOUS
<1> USE CallsAssumption, NoneAssumption, BoundsAssumption DEF Init, Actors, Setters, Pairings
<1>1. TypeOK
  BY DEF TypeOK, Labels
<1>2. Places /\ Held
  BY DEF Places, Held, Leased
<1>3. InHand /\ Needed
  BY DEF InHand, InHandOf, Needed
<1>4. QED
  BY <1>1, <1>2, <1>3 DEF IInv

(* A step that changes nothing. *)
LEMMA Stutter == IInv /\ UNCHANGED vars => IInv'
BY DEF vars, locks, actors, locals, backend, IInv, TypeOK, Places, Held, Leased, InHand, InHandOf,
       Needed, Same

(* The inductive invariant holds for ever. *)
THEOREM Invariance == Spec => []IInv
<1>1. IInv /\ [Next]_vars => IInv'
  BY TypeStep, PlacesStep, HeldStep, InHandStep, NeededStep, Stutter DEF IInv
<1>2. QED
  BY InitIInv, <1>1, PTL DEF Spec

(* The types, for every set of calls and accounts. *)
THEOREM TypeCorrect == Spec => []TypeOK
BY Invariance, PTL DEF IInv

(* No wait for a lock closes a circle and no lock is left behind, in the   *)
(* calls of the handle and in the websocket loop, whose attempt may be     *)
(* dropped at any await.                                                   *)
THEOREM LockOrder == Spec => []LocksInOrder
<1>1. IInv => LocksInOrder
  BY CallsAssumption, NoneAssumption
     DEF IInv, TypeOK, Places, Held, Leased, LocksInOrder, Actors, Setters, Pairings
<1>2. QED
  BY Invariance, <1>1, PTL

(* The lease makes the calls and the loop share one server: nobody enrolls *)
(* a second one beside a selected one that works.                          *)
THEOREM OneServer == Spec => NoNeedlessEnrollment
<1> DEFINE Step ==
      \A a \in Actors :
        made' # made /\ mine'[a] # mine[a] /\ ~again[a] /\ current # None
        => current.acct # acct[a] \/ current.server \notin live
<1>1. ASSUME IInv, Next, made' # made PROVE \E b \in Actors : EnrollServer(b)
  BY <1>1
     DEF Next, CallStep, Shared, Loop, TakeRpc, LoadAuth, ResolvePreference, SelectServer,
         CheckAccount, TakePersistence, TransitionEnabled, TransitionDisabled,
         CallFails, Recover, Answered, RequestDenied, RequestMissing,
         LockEnrollment, Adopt, NeedsRefresh, UseToken, Refreshed, RefreshMissing,
         Resolve, Wake, PrepareLoggedOut, Prepare, PrepareChanged, ResolveChanged,
         Dialled, DialRefused, Replace, ClearToken, AttemptFails, EnrollDisabled,
         Retry, LinkLost, SeenDisabled, EnableEphemeral, ChangeAccount, Forget,
         Begin, backend
<1>2. IInv /\ [Next]_vars => [Step]_vars
  <2>1. ASSUME IInv, Next, NEW a \in Actors, made' # made, mine'[a] # mine[a], ~again[a],
               current # None
        PROVE  current.acct # acct[a] \/ current.server \notin live
    <3>1. PICK b \in Actors : EnrollServer(b)
      BY <1>1, <2>1
    <3>2. b = a /\ at[a] = "enroll"
      BY <2>1, <3>1 DEF EnrollServer, IInv, TypeOK
    <3>3. QED
      BY <2>1, <3>2 DEF IInv, Needed
  <2>2. QED
    BY <2>1
<1>3. QED
  BY Invariance, <1>2, PTL DEF NoNeedlessEnrollment, Spec

(* A server enrolled while a disable came in is never selected: whoever    *)
(* selects a new one does so while remote control is enabled, or by        *)
(* enabling it.                                                            *)
THEOREM SelectedWhenEnabled == Spec => AdoptedOnlyWhenEnabled
<1> DEFINE Step == current' # None /\ ~Same(current, current') => IsEnabled'
<1>1. ASSUME IInv, Next PROVE Step
  <2> USE NoneAssumption
  <2>1. ASSUME NEW a \in Actors, Adopt(a) PROVE Step
    BY <2>1 DEF Adopt, IsEnabled, Same
  <2>2. ASSUME NEW t \in Calls, TransitionEnabled(t) PROVE Step
    BY <2>2 DEF TransitionEnabled, IsEnabled
  <2>3. ASSUME NEW a \in Actors, Refreshed(a) PROVE Step
    <3> DEFINE e == [mine[a] EXCEPT !.token = TRUE]
    <3>1. mine[a] \in Enrollments /\ mine[a] # None /\ Same(current, mine[a])
      BY <1>1, <2>3 DEF Refreshed, IInv, InHand, InHandOf, TypeOK, Actors
    <3>2. e # None /\ e.acct = mine[a].acct /\ e.server = mine[a].server /\ current' = e
      BY <3>1, <2>3, TokenOnly DEF Refreshed
    <3> HIDE DEF e
    <3>3. QED
      BY <3>1, <3>2 DEF Same
  <2>4. ASSUME NEW t \in Calls, RequestDenied(t) PROVE Step
    <3> DEFINE e == [mine[t] EXCEPT !.token = FALSE]
    <3>1. mine[t] \in Enrollments /\ mine[t] # None /\ Same(current, mine[t])
      BY <1>1, <2>4 DEF RequestDenied, IInv, InHand, InHandOf, TypeOK, Actors
    <3>2. e # None /\ e.acct = mine[t].acct /\ e.server = mine[t].server /\ current' = e
      BY <3>1, <2>4, TokenOnly DEF RequestDenied
    <3> HIDE DEF e
    <3>3. QED
      BY <3>1, <3>2 DEF Same
  <2>5. ASSUME ClearToken PROVE Step
    <3>1. CASE Same(current, mine[ws])
      <4>1. current \in Enrollments /\ current # None
        BY <1>1, <3>1 DEF Same, IInv, TypeOK
      <4>2. QED
        BY <3>1, <4>1, <2>5, TokenOnly DEF ClearToken, Same
    <3>2. CASE ~Same(current, mine[ws])
      BY <1>1, <2>5, <3>2 DEF ClearToken, Same
    <3>3. QED
      BY <3>1, <3>2
  <2>6. CASE current' = current
    BY <2>6 DEF Same
  <2>7. CASE current' = None
    BY <2>7
  <2>8. QED
    BY <1>1, <2>1, <2>2, <2>3, <2>4, <2>5, <2>6, <2>7
       DEF Next, CallStep, Shared, Loop, EnableEphemeral, Begin, TakeRpc, LoadAuth,
           ResolvePreference, SelectServer, CheckAccount, TakePersistence,
           TransitionDisabled, CallFails, Recover, Answered, RequestMissing,
           LockEnrollment, EnrollServer, NeedsRefresh, UseToken, RefreshMissing,
           Resolve, Wake, PrepareLoggedOut, Prepare, PrepareChanged,
           ResolveChanged, Dialled, DialRefused, Replace, AttemptFails,
           EnrollDisabled, Retry, LinkLost, SeenDisabled, ChangeAccount, Forget
<1> HIDE DEF Step
<1>2. IInv /\ [Next]_vars => [Step]_vars
  BY <1>1
<1>3. QED
  BY Invariance, <1>2, PTL DEF AdoptedOnlyWhenEnabled, Spec, Step
=============================================================================
