--------------------------- MODULE MCTokenRefresh ---------------------------
(* A refresh, a recovery and a logout in one process, a refresh in       *)
(* another, and a login.                                                 *)
EXTENDS TokenRefresh

CONSTANTS p, q, r1, u, o, x, l

ProcOf == [t \in Tasks |-> IF t \in {r1, u, o} THEN p ELSE q]
CallOf ==
  [t \in Tasks |-> CASE t \in {r1, x} -> "refresh" [] t = u -> "recover"
                     [] t = o -> "logout" [] t = l -> "login"]
=============================================================================
