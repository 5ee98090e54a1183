--------------------------- MODULE MCRemoteClients ---------------------------
(* Client c has a stream with a life of its own and one, initialized with    *)
(* an earlier server process, whose segments are bad, and sends envelopes    *)
(* without a stream id; client d's segments compete for the assembly.        *)
EXTENDS RemoteClients

CONSTANTS c, d, s, t

SendsDef ==
  [x \in Clients \X (Streams \cup {None}) |->
     CASE x = <<c, s>> -> {"init", "msg", "chunk0", "chunk1", "closed"}
       [] x = <<c, t>> -> {"chunk0", "bad"}
       [] x = <<c, None>> -> {"init", "msg", "ping", "closed"}
       [] x = <<d, s>> -> {"chunk0"}
       [] OTHER -> {}]
=============================================================================
