------------------------- MODULE RemoteClientsProofs -------------------------
(***************************************************************************)
(* Proofs about RemoteClients, for any clients, streams, envelopes and     *)
(* bounds: what becomes of every connection that the app server was told   *)
(* of, in which order it gets a client's messages, and that no message is  *)
(* passed over by the cursor from which the backend would send again.      *)
(***************************************************************************)
EXTENDS RemoteClients, FiniteSetTheorems, TLAPS

Envelopes == [client : Clients, stream : Streams \cup {None}, kind : Kinds, seq : Nat]
Events == [is : {"opened", "incoming", "closed"}, seq : Nat]
Made == [key : Keys, opener : Nat]
AnyStream == Streams \cup LegacyStreams

(* The types that the argument needs. *)
Typed ==
  /\ log \in Seq(Envelopes) /\ pos \in 1..Len(log) + 1 /\ cursor \in 0..Len(log)
  /\ legacy \in [Clients -> AnyStream \cup {None}]
  /\ conns \in Seq(Made) /\ Len(conns) <= MaxConns
  /\ clients \in [Keys -> 0..Len(conns)]
  /\ tasks \subseteq [key : Keys, conn : Nat, ended : BOOLEAN]
  /\ closers \subseteq 1..Len(conns)
  /\ events \in [Conns -> Seq(Events)]

(* What the reader has at hand where it waits. *)
AtHand ==
  /\ at \in {"reopen", "open", "init", "incoming", "record", "closing"} => pos > 1
  /\ at \in {"reopen", "open", "init", "incoming"} => key \in Keys
  /\ at = "reopen" => Len(conns) < MaxConns /\ clients[key] = 0
  /\ at = "open" => /\ Len(conns) > 0 /\ conns[Len(conns)].key = key
                    /\ clients[key] = 0 /\ events[Len(conns)] = <<>>
  /\ at \in {"init", "incoming"} => clients[key] # 0

Live(c) == events[c] # <<>> /\ ~ Told(c)

(* Who answers for a connection. *)
Owned ==
  /\ \A k \in Keys : \A c \in 1..Len(conns) :
       clients[k] = c => conns[c].key = k /\ c \notin closers /\ Live(c)
  /\ \A c \in closers : Live(c)
  /\ \A c \in 1..Len(conns) : events[c] # <<>> => InTable(c) \/ c \in closers \/ Told(c)
  /\ \A c \in Conns : c > Len(conns) => events[c] = <<>>

IInv == Typed /\ AtHand /\ Owned /\ OpenThenClosed

LEMMA OwnedSafe == Owned => NoLeakedConnection
  BY DEF Owned, NoLeakedConnection, InTable, Live

-----------------------------------------------------------------------------
(* What the clients may send is an envelope. *)
LEMMA NumbersCounted ==
  ASSUME Typed, NEW c, NEW s
  PROVE  Cardinality(Numbers(c, s)) \in Nat
<1> DEFINE P == OfStream(c, s)
           f == [i \in P |-> log[i].seq]
<1>1. Len(log) \in Nat
  BY DEF Typed
<1>2. IsFiniteSet(1..Len(log))
  BY <1>1, FS_Interval
<1>3. P \subseteq 1..Len(log)
  BY DEF OfStream
<1>4. IsFiniteSet(P)
  BY <1>2, <1>3, FS_Subset
<1>5. IsFiniteSet({ f[i] : i \in P })
  <2> DEFINE T == { f[i] : i \in P }
  <2>1. f \in Surjection(P, T)
    BY DEF Surjection
  <2>2. IsFiniteSet(T)
    <3> HIDE DEF P, f, T
    <3> QED BY <1>4, <2>1, FS_Surjection
  <2> QED BY <2>2
<1>6. Numbers(c, s) \subseteq { f[i] : i \in P }
  BY DEF Numbers
<1>7. IsFiniteSet(Numbers(c, s))
  BY <1>5, <1>6, FS_Subset
<1> QED
  BY <1>7, FS_CardinalityType

LEMMA IncomingTyped ==
  ASSUME Typed, NEW e \in Incoming
  PROVE  e \in Envelopes
<1>1. CASE pos <= Len(log)
  <2>1. e = log[pos] /\ pos \in 1..Len(log)
    BY <1>1 DEF Incoming, Typed
  <2> QED BY <2>1 DEF Typed
<1>2. CASE ~ pos <= Len(log)
  <2>1. PICK c \in Clients, s \in Streams \cup {None} : e \in Sendable(c, s)
    BY <1>2 DEF Incoming
  <2>2. Cardinality(Numbers(c, s)) \in Nat
    BY NumbersCounted
  <2> DEFINE next == 1 + Cardinality(Numbers(c, s))
             Number(kind) == IF kind \in {"ping", "closed"} THEN 0
                             ELSE IF kind \in {"chunk1", "bad"} THEN next - 1 ELSE next
  <2>3. Sends[<<c, s>>] \subseteq Kinds
    BY SendsAssumption
  <2>4. \A kind : Number(kind) \in Nat
    BY <2>2
  <2>5. PICK kind \in Sends[<<c, s>>] :
          e = [client |-> c, stream |-> s, kind |-> kind, seq |-> Number(kind)]
    BY <2>1 DEF Sendable
  <2> HIDE DEF Number
  <2> QED
    BY <2>3, <2>4, <2>5 DEF Envelopes
<1> QED BY <1>1, <1>2

-----------------------------------------------------------------------------
(* Steps that leave the connections and who answers for them alone. *)
ownership == <<conns, clients, closers, events>>

LEMMA OwnedUnchanged == ASSUME Owned, UNCHANGED ownership PROVE Owned'
  BY DEF Owned, ownership, InTable, Live, Told

LEMMA OrderUnchanged == ASSUME OpenThenClosed, UNCHANGED events PROVE OpenThenClosed'
  BY DEF OpenThenClosed

(* remove_client and the closing task: the task answers for the connection. *)
LEMMA CloseOwned ==
  ASSUME Typed, Owned, NEW k \in Keys, clients[k] # 0, CloseClient(k), UNCHANGED <<conns, events>>
  PROVE  /\ Owned'
         /\ clients' \in [Keys -> 0..Len(conns)] /\ closers' \subseteq 1..Len(conns)
         /\ legacy' \in [Clients -> AnyStream \cup {None}]
         /\ clients'[k] = 0
<1>1. /\ clients' = [clients EXCEPT ![k] = 0] /\ closers' = closers \cup { clients[k] }
      /\ clients[k] \in 1..Len(conns) /\ Len(conns) \in Nat
  BY DEF CloseClient, Typed
<1>2. /\ clients' \in [Keys -> 0..Len(conns)] /\ closers' \subseteq 1..Len(conns)
      /\ clients'[k] = 0
  <2>1. clients \in [Keys -> 0..Len(conns)] /\ closers \subseteq 1..Len(conns)
    BY DEF Typed
  <2>2. 0 \in 0..Len(conns)
    BY <1>1
  <2> QED BY <1>1, <2>1, <2>2
<1>3. legacy' \in [Clients -> AnyStream \cup {None}]
  BY DEF CloseClient, Typed, Keys, AnyStream
<1>4. ASSUME NEW j \in Keys, NEW c \in 1..Len(conns'), clients'[j] = c
      PROVE  conns'[c].key = j /\ c \notin closers' /\ Live(c)'
  <2>1. j # k /\ clients[j] = c
    BY <1>1, <1>2, <1>4 DEF Typed
  <2>2. conns[c].key = j /\ c \notin closers /\ Live(c)
    BY <2>1 DEF Owned
  <2>3. c # clients[k]
    BY <1>1, <2>1, <2>2 DEF Owned
  <2> QED BY <1>1, <2>2, <2>3 DEF Live, Told
<1>5. \A c \in closers' : Live(c)'
  BY <1>1 DEF Owned, Live, Told
<1>6. ASSUME NEW c \in 1..Len(conns'), events'[c] # <<>>
      PROVE  InTable(c)' \/ c \in closers' \/ Told(c)'
  <2>1. InTable(c) \/ c \in closers \/ Told(c)
    BY <1>6 DEF Owned
  <2>2. CASE InTable(c)
    <3>1. PICK j \in Keys : clients[j] = c
      BY <2>2 DEF InTable
    <3>2. CASE j = k
      BY <1>1, <3>1, <3>2
    <3>3. CASE j # k
      <4>1. clients'[j] = c
        BY <1>1, <3>1, <3>3 DEF Typed
      <4> QED BY <4>1 DEF InTable
    <3> QED BY <3>2, <3>3
  <2>3. CASE c \in closers \/ Told(c)
    BY <1>1, <2>3 DEF Told
  <2> QED BY <2>1, <2>2, <2>3
<1>7. \A c \in Conns : c > Len(conns') => events'[c] = <<>>
  BY DEF Owned
<1> QED
  <2>1. Owned'
    BY <1>4, <1>5, <1>6, <1>7 DEF Owned
  <2> QED BY <1>2, <1>3, <2>1

(* An event at the end of a connection's events. *)
LEMMA PutOrder ==
  ASSUME Typed, OpenThenClosed, NEW c \in Conns, NEW e \in Events, Put(c, e),
         \/ events[c] = <<>> /\ e.is = "opened"
         \/ Live(c) /\ e.is # "opened"
  PROVE  /\ OpenThenClosed'
         /\ events' \in [Conns -> Seq(Events)]
         /\ events'[c] # <<>> /\ (Told(c)' <=> e.is = "closed")
         /\ \A d \in Conns \ {c} : events'[d] = events[d]
<1>1. /\ events' = [events EXCEPT ![c] = Append(events[c], e)]
      /\ events \in [Conns -> Seq(Events)] /\ events[c] \in Seq(Events)
  BY DEF Put, Typed
<1> DEFINE new == Append(events[c], e)
           n == Len(events[c])
<1>2. /\ new \in Seq(Events) /\ Len(new) = n + 1 /\ new[n + 1] = e /\ n \in Nat
      /\ \A i \in 1..n : new[i] = events[c][i]
  BY <1>1
<1>3. events'[c] = new /\ \A d \in Conns \ {c} : events'[d] = events[d]
  BY <1>1
<1>4. events' \in [Conns -> Seq(Events)]
  BY <1>1, <1>2
<1>5. new # <<>>
  BY <1>2
<1>6. Told(c)' <=> e.is = "closed"
  BY <1>2, <1>3 DEF Told
<1>7. ASSUME NEW i \in 1..Len(new)
      PROVE  ((new[i].is = "opened") <=> (i = 1)) /\ (new[i].is = "closed" => i = Len(new))
  <2> HIDE DEF new
  <2>1. CASE i = n + 1
    <3>1. e.is = "opened" <=> n = 0
      BY <1>1 DEF Live
    <3> QED BY <1>2, <2>1, <3>1
  <2>2. CASE i # n + 1
    <3>1. i \in 1..n
      BY <1>2, <1>7, <2>2
    <3>2. events[c] # <<>> /\ Live(c)
      BY <1>1, <1>2, <3>1
    <3>3. ((events[c][i].is = "opened") <=> (i = 1)) /\ (events[c][i].is = "closed" => i = n)
      BY <3>1 DEF OpenThenClosed
    <3>4. events[c][i].is # "closed"
      BY <3>2, <3>3 DEF Live, Told
    <3> QED BY <1>2, <3>1, <3>3, <3>4
  <2> QED BY <2>1, <2>2
<1>8. OpenThenClosed'
  <2> SUFFICES ASSUME NEW d \in Conns, NEW i \in 1..Len(events'[d])
               PROVE  /\ (events'[d][i].is = "opened") <=> (i = 1)
                      /\ events'[d][i].is = "closed" => i = Len(events'[d])
    BY DEF OpenThenClosed, Conns
  <2> HIDE DEF new
  <2>1. CASE d = c
    BY <1>3, <1>7, <2>1
  <2>2. CASE d # c
    BY <1>3, <2>2 DEF OpenThenClosed
  <2> QED BY <2>1, <2>2
<1> QED
  BY <1>3, <1>4, <1>5, <1>6, <1>8

LEMMA ConnRange == Typed => 1..Len(conns) \subseteq Conns
  BY CapsAssumption DEF Typed, Conns

(* A message for a connection in the table. *)
LEMMA IncomingOwned ==
  ASSUME Typed, Owned, OpenThenClosed, NEW k \in Keys, clients[k] # 0, NEW n \in Nat,
         Put(clients[k], [is |-> "incoming", seq |-> n]), UNCHANGED <<conns, clients, closers>>
  PROVE  Owned' /\ OpenThenClosed' /\ events' \in [Conns -> Seq(Events)]
<1> DEFINE e == [is |-> "incoming", seq |-> n]
<1>0. PICK c : c = clients[k]
  OBVIOUS
<1>1. c \in 1..Len(conns) /\ c \in Conns /\ e \in Events /\ e.is = "incoming"
  BY <1>0, ConnRange DEF Typed, Events
<1>2. Live(c)
  BY <1>0, <1>1 DEF Owned
<1>3. Put(c, e)
  BY <1>0
<1> HIDE DEF e
<1>4. /\ OpenThenClosed' /\ events' \in [Conns -> Seq(Events)]
      /\ events'[c] # <<>> /\ ~ Told(c)'
      /\ \A d \in Conns \ {c} : events'[d] = events[d]
  BY <1>1, <1>2, <1>3, PutOrder
<1>5. \A d \in 1..Len(conns) :
        /\ Live(d)' <=> Live(d)
        /\ d # c => (Told(d)' <=> Told(d)) /\ events'[d] = events[d]
  BY <1>1, <1>2, <1>4, ConnRange DEF Live, Told
<1>6. ASSUME NEW d \in 1..Len(conns'), events'[d] # <<>>
      PROVE  InTable(d)' \/ d \in closers' \/ Told(d)'
  <2>1. CASE d = c
    BY <1>0, <2>1 DEF InTable
  <2>2. CASE d # c
    BY <1>5, <1>6, <2>2 DEF Owned, InTable
  <2> QED BY <2>1, <2>2
<1>7. \A j \in Keys : \A d \in 1..Len(conns') :
        clients'[j] = d => conns'[d].key = j /\ d \notin closers' /\ Live(d)'
  BY <1>5 DEF Owned
<1>8. \A d \in closers' : Live(d)'
  BY <1>5 DEF Owned, Typed
<1>9. \A d \in Conns : d > Len(conns') => events'[d] = <<>>
  BY <1>1, <1>4 DEF Owned, Typed
<1> QED
  BY <1>4, <1>6, <1>7, <1>8, <1>9 DEF Owned

(* The closing task has sent its event. *)
LEMMA ClosedOwned ==
  ASSUME Typed, Owned, OpenThenClosed, NEW c \in closers,
         Put(c, [is |-> "closed", seq |-> 0]), closers' = closers \ {c},
         UNCHANGED <<conns, clients>>
  PROVE  Owned' /\ OpenThenClosed' /\ events' \in [Conns -> Seq(Events)]
<1> DEFINE e == [is |-> "closed", seq |-> 0]
<1>1. c \in 1..Len(conns) /\ c \in Conns /\ e \in Events /\ e.is = "closed" /\ Live(c)
  BY ConnRange DEF Typed, Events, Owned
<1> HIDE DEF e
<1>2. Put(c, e)
  BY DEF e
<1>3. /\ OpenThenClosed' /\ events' \in [Conns -> Seq(Events)]
      /\ events'[c] # <<>> /\ Told(c)'
      /\ \A d \in Conns \ {c} : events'[d] = events[d]
  BY <1>1, <1>2, PutOrder
<1>4. \A d \in 1..Len(conns) : d # c =>
        (Live(d)' <=> Live(d)) /\ (Told(d)' <=> Told(d)) /\ events'[d] = events[d]
  BY <1>3, ConnRange DEF Live, Told
<1>5. \A d \in 1..Len(conns') : events'[d] # <<>> => InTable(d)' \/ d \in closers' \/ Told(d)'
  BY <1>3, <1>4 DEF Owned, InTable
<1>6. ASSUME NEW j \in Keys, NEW d \in 1..Len(conns'), clients'[j] = d
      PROVE  conns'[d].key = j /\ d \notin closers' /\ Live(d)'
  <2>1. conns[d].key = j /\ d \notin closers /\ Live(d)
    BY <1>6 DEF Owned
  <2> QED BY <1>4, <2>1
<1>7. \A d \in closers' : Live(d)'
  BY <1>4 DEF Owned, Typed
<1>8. \A d \in Conns : d > Len(conns') => events'[d] = <<>>
  BY <1>1, <1>3 DEF Owned, Typed
<1> QED
  BY <1>3, <1>5, <1>6, <1>7, <1>8 DEF Owned

(* next_connection_id: the app server does not know the connection yet. *)
LEMMA AppendOwned ==
  ASSUME Typed, Owned, NEW c \in Made, conns' = Append(conns, c), Len(conns) < MaxConns,
         UNCHANGED <<clients, closers, events>>
  PROVE  /\ Owned' /\ conns' \in Seq(Made) /\ Len(conns') = Len(conns) + 1
         /\ conns'[Len(conns')] = c /\ events'[Len(conns')] = <<>>
<1>1. /\ conns' \in Seq(Made) /\ Len(conns') = Len(conns) + 1 /\ Len(conns) \in Nat
      /\ conns'[Len(conns')] = c /\ \A d \in 1..Len(conns) : conns'[d] = conns[d]
  BY DEF Typed
<1>2. Len(conns') \in Conns /\ events'[Len(conns')] = <<>>
  BY <1>1, CapsAssumption DEF Owned, Conns
<1>3. ASSUME NEW j \in Keys, NEW d \in 1..Len(conns'), clients'[j] = d
      PROVE  conns'[d].key = j /\ d \notin closers' /\ Live(d)'
  <2>1. d \in 1..Len(conns)
    BY <1>1, <1>3 DEF Typed
  <2> QED BY <1>1, <1>3, <2>1 DEF Owned, Live, Told
<1>4. \A d \in closers' : Live(d)'
  BY DEF Owned, Live, Told
<1>5. ASSUME NEW d \in 1..Len(conns'), events'[d] # <<>>
      PROVE  InTable(d)' \/ d \in closers' \/ Told(d)'
  <2>1. d \in 1..Len(conns)
    BY <1>1, <1>2, <1>5
  <2> QED BY <1>5, <2>1 DEF Owned, InTable, Told
<1>6. \A d \in Conns : d > Len(conns') => events'[d] = <<>>
  BY <1>1 DEF Owned, Conns
<1> QED
  BY <1>1, <1>2, <1>3, <1>4, <1>5, <1>6 DEF Owned

(* ConnectionOpened is queued and the client's entry made in one go. *)
LEMMA OpenOwned ==
  ASSUME Typed, AtHand, Owned, OpenThenClosed, Open
  PROVE  /\ Owned' /\ OpenThenClosed' /\ events' \in [Conns -> Seq(Events)]
         /\ clients' \in [Keys -> 0..Len(conns)] /\ clients'[key] # 0
<1> DEFINE e == [is |-> "opened", seq |-> 0]
<1>0. PICK c : c = Len(conns)
  OBVIOUS
<1>1. /\ c \in 1..Len(conns) /\ c \in Conns /\ e \in Events /\ e.is = "opened"
      /\ key \in Keys /\ conns[c].key = key /\ clients[key] = 0 /\ events[c] = <<>>
  BY <1>0, ConnRange DEF Open, AtHand, Typed, Events
<1>2. Put(c, e) /\ clients' = [clients EXCEPT ![key] = c] /\ UNCHANGED <<conns, closers>>
  BY <1>0 DEF Open
<1> HIDE DEF e
<1>3. /\ OpenThenClosed' /\ events' \in [Conns -> Seq(Events)]
      /\ events'[c] # <<>> /\ ~ Told(c)'
      /\ \A d \in Conns \ {c} : events'[d] = events[d]
  BY <1>1, <1>2, PutOrder
<1>4. /\ clients' \in [Keys -> 0..Len(conns)] /\ clients'[key] = c /\ c # 0
      /\ \A k \in Keys \ {key} : clients'[k] = clients[k]
  BY <1>1, <1>2 DEF Typed
<1>5. c \notin closers /\ \A k \in Keys : clients[k] # c
  BY <1>1 DEF Owned, Live
<1>6. \A d \in 1..Len(conns) : d # c =>
        (Live(d)' <=> Live(d)) /\ (Told(d)' <=> Told(d)) /\ events'[d] = events[d]
  BY <1>3, ConnRange DEF Live, Told
<1>7. ASSUME NEW j \in Keys, NEW d \in 1..Len(conns'), clients'[j] = d
      PROVE  conns'[d].key = j /\ d \notin closers' /\ Live(d)'
  <2>1. CASE j = key
    BY <1>1, <1>2, <1>3, <1>4, <1>5, <1>7, <2>1 DEF Live
  <2>2. CASE j # key
    <3>1. clients[j] = d /\ d # c
      BY <1>4, <1>5, <1>7, <2>2
    <3>2. conns[d].key = j /\ d \notin closers /\ Live(d)
      BY <1>2, <3>1 DEF Owned
    <3> QED BY <1>2, <1>6, <3>1, <3>2
  <2> QED BY <2>1, <2>2
<1>8. \A d \in closers' : Live(d)'
  BY <1>2, <1>5, <1>6 DEF Owned, Typed
<1>9. ASSUME NEW d \in 1..Len(conns'), events'[d] # <<>>
      PROVE  InTable(d)' \/ d \in closers' \/ Told(d)'
  <2>1. CASE d = c
    BY <1>1, <1>4, <2>1 DEF InTable
  <2>2. CASE d # c
    <3>1. InTable(d) \/ d \in closers \/ Told(d)
      BY <1>2, <1>6, <1>9, <2>2 DEF Owned
    <3>2. InTable(d) => InTable(d)'
      BY <1>1, <1>4 DEF InTable
    <3> QED BY <1>2, <1>6, <2>2, <3>1, <3>2
  <2> QED BY <2>1, <2>2
<1>10. \A d \in Conns : d > Len(conns') => events'[d] = <<>>
  BY <1>1, <1>2, <1>3 DEF Owned, Typed
<1> QED
  BY <1>3, <1>4, <1>7, <1>8, <1>9, <1>10 DEF Owned

-----------------------------------------------------------------------------
(* The steps. *)
LEMMA StreamTyped ==
  ASSUME Typed, NEW e \in Envelopes, StreamOf(e) # None
  PROVE  <<e.client, StreamOf(e)>> \in Keys
  BY DEF Typed, StreamOf, Envelopes, Keys, AnyStream

LEMMA ReadSafe == IInv /\ Read => IInv'
<1> SUFFICES ASSUME IInv, Read PROVE IInv'
  OBVIOUS
<1> USE DEF IInv
<1>1. PICK e \in Incoming :
        /\ log' = IF pos <= Len(log) THEN log ELSE Append(log, e)
        /\ pos' = pos + 1
        /\ \/ ReadDropped(e) \/ ReadInit(e) \/ ReadMessage(e) \/ ReadPing(e) \/ ReadClosed(e)
  BY DEF Read
<1>2. e \in Envelopes
  BY IncomingTyped
<1>3. at = "select" /\ cursor' = cursor /\ events' = events
  BY DEF Read
<1>4. /\ log' \in Seq(Envelopes) /\ pos' \in 1..Len(log') + 1 /\ pos' > 1
      /\ cursor' \in 0..Len(log') /\ pos' - 1 \in Nat
  BY <1>1, <1>2, <1>3 DEF Typed
<1>5. OpenThenClosed'
  BY <1>3, OrderUnchanged
<1>6. CASE ReadDropped(e) \/ ReadPing(e) \/ ReadMessage(e)
  <2>1. UNCHANGED <<conns, clients, closers, legacy, tasks>>
    BY <1>6 DEF ReadDropped, ReadPing, ReadMessage, tracker
  <2>2. Typed'
    BY <1>3, <1>4, <2>1 DEF Typed
  <2>3. Owned'
    BY <1>3, <2>1, OwnedUnchanged DEF ownership
  <2>4. AtHand'
    <3>1. CASE at' \in {"select", "record"}
      BY <1>4, <3>1 DEF AtHand
    <3>2. CASE at' \notin {"select", "record"}
      <4>1. ReadMessage(e) /\ at' = "incoming"
        BY <1>3, <1>6, <3>2 DEF ReadDropped, ReadPing, ReadMessage
      <4>2. StreamOf(e) # None /\ key' = <<e.client, StreamOf(e)>> /\ clients[key'] # 0
        BY <4>1 DEF ReadMessage
      <4>3. key' \in Keys
        BY <1>2, <4>2, StreamTyped
      <4> QED BY <1>4, <2>1, <4>1, <4>2, <4>3 DEF AtHand
    <3> QED BY <3>1, <3>2
  <2> QED BY <1>5, <2>2, <2>3, <2>4
<1>7. CASE ReadInit(e)
  <2>1. Len(conns) < MaxConns
    BY <1>7 DEF ReadInit
  <2>2. PICK s \in InitStreams(e) :
        LET k == <<e.client, s>> IN
        IF clients[k] # 0
          THEN /\ CloseClient(k)
               /\ at' = "reopen" /\ key' = k /\ wait' = clients[k]
               /\ UNCHANGED <<tasks, conns>>
          ELSE /\ StartOpen(k)
               /\ legacy' = IF e.stream = None THEN [legacy EXCEPT ![e.client] = None] ELSE legacy
               /\ UNCHANGED <<wait, clients, last, tasks, closers>>
    BY <1>7 DEF ReadInit
  <2>3. PICK k : k = <<e.client, s>>
    OBVIOUS
  <2>4. k \in Keys
    BY <1>2, <2>3, StreamTyped DEF InitStreams, Envelopes, Keys
  <2>5. CASE clients[k] # 0
    <3>1. /\ CloseClient(k) /\ at' = "reopen" /\ key' = k
          /\ UNCHANGED <<tasks, conns>>
      BY <2>2, <2>3, <2>5
    <3>2. /\ Owned' /\ clients' \in [Keys -> 0..Len(conns)] /\ closers' \subseteq 1..Len(conns)
          /\ legacy' \in [Clients -> AnyStream \cup {None}] /\ clients'[k] = 0
      BY <1>3, <2>4, <2>5, <3>1, CloseOwned
    <3>3. Typed'
      BY <1>3, <1>4, <3>1, <3>2 DEF Typed
    <3>4. AtHand'
      BY <1>4, <2>1, <2>4, <3>1, <3>2 DEF AtHand
    <3> QED BY <1>5, <3>2, <3>3, <3>4
  <2>6. CASE clients[k] = 0
    <3>1. /\ StartOpen(k) /\ UNCHANGED <<clients, tasks, closers>>
          /\ legacy' = IF e.stream = None THEN [legacy EXCEPT ![e.client] = None] ELSE legacy
      BY <2>2, <2>3, <2>6
    <3> DEFINE c == [key |-> k, opener |-> pos' - 1]
    <3>2. conns' = Append(conns, c) /\ at' = "open" /\ key' = k
      BY <3>1 DEF StartOpen
    <3>3. c \in Made /\ c.key = k
      BY <1>4, <2>4 DEF Made
    <3> HIDE DEF c
    <3>4. /\ Owned' /\ conns' \in Seq(Made) /\ Len(conns') = Len(conns) + 1
          /\ conns'[Len(conns')] = c /\ events'[Len(conns')] = <<>>
      BY <1>3, <2>1, <3>1, <3>2, <3>3, AppendOwned
    <3>5. legacy' \in [Clients -> AnyStream \cup {None}]
      BY <3>1 DEF Typed
    <3>6. Typed'
      <4>1. Len(conns) \in Nat /\ Len(conns') <= MaxConns
        BY <2>1, <3>4, CapsAssumption DEF Typed
      <4>2. clients' \in [Keys -> 0..Len(conns')] /\ closers' \subseteq 1..Len(conns')
        BY <3>1, <3>4, <4>1 DEF Typed
      <4> QED BY <1>3, <1>4, <3>1, <3>4, <3>5, <4>1, <4>2 DEF Typed
    <3>7. AtHand'
      BY <1>4, <2>4, <2>6, <3>1, <3>2, <3>3, <3>4 DEF AtHand, Typed
    <3> QED BY <1>5, <3>4, <3>6, <3>7
  <2> QED BY <2>5, <2>6
<1>8. CASE ReadClosed(e)
  <2>1. PICK k : k = <<e.client, StreamOf(e)>>
    OBVIOUS
  <2>2. CASE StreamOf(e) # None /\ clients[k] # 0
    <3>1. k \in Keys
      BY <1>2, <2>1, <2>2, StreamTyped
    <3>2. CloseClient(k) /\ at' = "closing" /\ UNCHANGED <<tasks, conns>>
      BY <1>8, <2>1, <2>2 DEF ReadClosed
    <3>3. /\ Owned' /\ clients' \in [Keys -> 0..Len(conns)] /\ closers' \subseteq 1..Len(conns)
          /\ legacy' \in [Clients -> AnyStream \cup {None}]
      BY <1>3, <2>2, <3>1, <3>2, CloseOwned
    <3>4. Typed'
      BY <1>3, <1>4, <3>2, <3>3 DEF Typed
    <3>5. AtHand'
      BY <1>4, <3>2 DEF AtHand
    <3> QED BY <1>5, <3>3, <3>4, <3>5
  <2>3. CASE ~ (StreamOf(e) # None /\ clients[k] # 0)
    <3>1. at' = "record" /\ UNCHANGED <<conns, clients, closers, legacy, tasks>>
      BY <1>8, <2>1, <2>3 DEF ReadClosed, tracker
    <3>2. Typed'
      BY <1>3, <1>4, <3>1 DEF Typed
    <3>3. AtHand'
      BY <1>4, <3>1 DEF AtHand
    <3> QED BY <1>3, <1>5, <3>1, <3>2, <3>3, OwnedUnchanged DEF ownership
  <2> QED BY <2>2, <2>3
<1> QED BY <1>1, <1>6, <1>7, <1>8

(* Waiting sends: an envelope is at hand. *)
LEMMA CurrentTyped == Typed /\ pos > 1 => current.seq \in Nat
<1> SUFFICES ASSUME Typed, pos > 1 PROVE current.seq \in Nat
  OBVIOUS
<1>1. pos - 1 \in 1..Len(log)
  BY DEF Typed
<1>2. log[pos - 1] \in Envelopes
  BY <1>1 DEF Typed
<1> QED BY <1>2 DEF current, Envelopes

LEMMA ReopenSafe == IInv /\ Reopen => IInv'
<1> SUFFICES ASSUME IInv, Reopen PROVE IInv'
  OBVIOUS
<1> USE DEF IInv
<1>1. /\ UNCHANGED <<log, pos, cursor, clients, legacy, tasks, closers, events, key>>
      /\ at = "reopen" /\ at' = "open"
  BY DEF Reopen, backend, queue
<1>2. Len(conns) < MaxConns /\ key \in Keys /\ pos > 1 /\ clients[key] = 0 /\ pos - 1 \in Nat
  BY <1>1 DEF AtHand, Typed
<1>3. PICK c : c = [key |-> key, opener |-> pos - 1]
  OBVIOUS
<1>4. c \in Made /\ c.key = key /\ conns' = Append(conns, c)
  BY <1>2, <1>3 DEF Made, Reopen
<1>5. /\ Owned' /\ conns' \in Seq(Made) /\ Len(conns') = Len(conns) + 1
      /\ conns'[Len(conns')] = c /\ events'[Len(conns')] = <<>>
  BY <1>1, <1>2, <1>4, AppendOwned
<1>6. Typed'
  <2>1. Len(conns) \in Nat /\ Len(conns') <= MaxConns
    BY <1>2, <1>5, CapsAssumption DEF Typed
  <2>2. clients' \in [Keys -> 0..Len(conns')] /\ closers' \subseteq 1..Len(conns')
    BY <1>1, <1>5, <2>1 DEF Typed
  <2> QED BY <1>1, <1>5, <2>1, <2>2 DEF Typed
<1>7. AtHand'
  BY <1>1, <1>2, <1>4, <1>5 DEF AtHand, Typed
<1> QED BY <1>1, <1>5, <1>6, <1>7, OrderUnchanged

LEMMA OpenSafe == IInv /\ Open => IInv'
<1> SUFFICES ASSUME IInv, Open PROVE IInv'
  OBVIOUS
<1> USE DEF IInv
<1>1. /\ UNCHANGED <<log, pos, cursor, conns, closers, key>> /\ at = "open" /\ at' = "init"
  BY DEF Open, backend
<1>2. /\ Owned' /\ OpenThenClosed' /\ events' \in [Conns -> Seq(Events)]
      /\ clients' \in [Keys -> 0..Len(conns)] /\ clients'[key] # 0
  BY OpenOwned
<1>3. key \in Keys /\ pos > 1
  BY <1>1 DEF AtHand
<1>4. tasks' \subseteq [key : Keys, conn : Nat, ended : BOOLEAN]
  <2>1. tasks' = tasks \cup { [key |-> key, conn |-> Len(conns), ended |-> FALSE] }
    BY DEF Open
  <2>2. [key |-> key, conn |-> Len(conns), ended |-> FALSE] \in [key : Keys, conn : Nat, ended : BOOLEAN]
    BY <1>3 DEF Typed
  <2> QED BY <2>1, <2>2 DEF Typed
<1>5. legacy' \in [Clients -> AnyStream \cup {None}]
  BY <1>3 DEF Open, Typed, Keys, AnyStream
<1>6. Typed'
  BY <1>1, <1>2, <1>4, <1>5 DEF Typed
<1>7. AtHand'
  BY <1>1, <1>2, <1>3 DEF AtHand
<1> QED BY <1>2, <1>6, <1>7

LEMMA SendSafe == IInv /\ (SendInit \/ SendIncoming) => IInv'
<1> SUFFICES ASSUME IInv, SendInit \/ SendIncoming PROVE IInv'
  OBVIOUS
<1> USE DEF IInv
<1>1. /\ UNCHANGED <<log, pos, cursor, conns, clients, legacy, tasks, closers, key>>
      /\ at \in {"init", "incoming"} /\ at' = "record"
      /\ Put(clients[key], [is |-> "incoming", seq |-> current.seq])
  BY DEF SendInit, SendIncoming, backend
<1>2. key \in Keys /\ pos > 1 /\ clients[key] # 0 /\ current.seq \in Nat
  BY <1>1, CurrentTyped DEF AtHand
<1>3. PICK k, n : k = key /\ n = current.seq
  OBVIOUS
<1>4. Put(clients[k], [is |-> "incoming", seq |-> n]) /\ k \in Keys /\ n \in Nat /\ clients[k] # 0
  BY <1>1, <1>2, <1>3
<1>5. Owned' /\ OpenThenClosed' /\ events' \in [Conns -> Seq(Events)]
  BY <1>1, <1>4, IncomingOwned
<1>6. Typed'
  BY <1>1, <1>5 DEF Typed
<1>7. AtHand'
  BY <1>1, <1>2 DEF AtHand
<1> QED BY <1>5, <1>6, <1>7

(* A client is closed while the reader, or the shutdown, does nothing else. *)
LEMMA CloseSafe ==
  ASSUME IInv, NEW k \in Keys, clients[k] # 0, CloseClient(k),
         UNCHANGED <<log, cursor, conns, events>>, pos' \in 1..Len(log) + 1,
         tasks' \subseteq tasks, at' \in {"collect", "sweep", "shutdown", "off"}
  PROVE  IInv'
<1> USE DEF IInv
<1>1. /\ Owned' /\ clients' \in [Keys -> 0..Len(conns)] /\ closers' \subseteq 1..Len(conns)
      /\ legacy' \in [Clients -> AnyStream \cup {None}]
  BY CloseOwned
<1>2. Typed'
  BY <1>1 DEF Typed
<1>3. AtHand'
  BY DEF AtHand
<1> QED BY <1>1, <1>2, <1>3, OrderUnchanged

(* Everything else leaves the connections alone. *)
LEMMA QuietSafe ==
  ASSUME IInv, UNCHANGED <<conns, clients, closers, events, log>>,
         legacy' = legacy,
         tasks' \subseteq [key : Keys, conn : Nat, ended : BOOLEAN],
         pos' \in 1..Len(log) + 1, cursor' \in 0..Len(log),
         \/ at' \notin {"reopen", "open", "init", "incoming", "record", "closing"}
         \/ at' = at /\ key' = key /\ pos' = pos
         \/ at' = "record" /\ pos' > 1
  PROVE  IInv'
<1> USE DEF IInv
<1>1. Typed'
  BY DEF Typed
<1>2. AtHand'
  BY DEF AtHand
<1>3. Owned' /\ OpenThenClosed'
  BY OwnedUnchanged, OrderUnchanged DEF ownership
<1> QED BY <1>1, <1>2, <1>3

LEMMA TypedFacts ==
  ASSUME IInv
  PROVE  /\ pos \in 1..Len(log) + 1 /\ cursor \in 0..Len(log) /\ Len(log) \in Nat
         /\ cursor + 1 \in 1..Len(log) + 1
         /\ tasks \subseteq [key : Keys, conn : Nat, ended : BOOLEAN]
  BY DEF IInv, Typed

LEMMA NextSafe == IInv /\ [Next]_vars => IInv'
<1> SUFFICES ASSUME IInv, [Next]_vars PROVE IInv'
  OBVIOUS
<1> USE TypedFacts
<1>1. CASE Read
  BY <1>1, ReadSafe
<1>2. CASE Reader
  <2>1. CASE Reopen \/ Open \/ SendInit \/ SendIncoming
    BY <2>1, ReopenSafe, OpenSafe, SendSafe
  <2>2. CASE Closed
    <3>1. pos > 1
      BY <2>2 DEF Closed, IInv, AtHand
    <3> QED BY <2>2, <3>1, QuietSafe DEF Closed, backend, tracker, queue
  <2>3. CASE Record
    <3>1. pos > 1 /\ cursor' = pos - 1 /\ pos - 1 \in 0..Len(log)
      BY <2>3 DEF Record, IInv, AtHand
    <3> QED BY <2>3, <3>1, QuietSafe DEF Record, backend, tracker, queue
  <2>4. CASE Forget \/ Invalidate \/ InvalidateSegments \/ InvalidateCompleted
    BY <2>4, QuietSafe
       DEF Forget, Invalidate, InvalidateSegments, InvalidateCompleted, backend, tracker, queue
  <2> QED BY <1>2, <2>1, <2>2, <2>3, <2>4 DEF Reader
<1>3. CASE TimeOut
  <2>1. /\ UNCHANGED <<log, cursor, conns, events, tasks>> /\ pos' = cursor + 1 /\ at' = "off"
    BY <1>3 DEF TimeOut, ReaderEnds
  <2>2. CASE at = "init"
    <3>1. PICK k : k = key
      OBVIOUS
    <3>2. k \in Keys /\ clients[k] # 0 /\ CloseClient(k)
      BY <1>3, <2>2, <3>1 DEF TimeOut, IInv, AtHand
    <3> QED BY <2>1, <3>2, CloseSafe
  <2>3. CASE at # "init"
    BY <1>3, <2>1, <2>3, QuietSafe DEF TimeOut
  <2> QED BY <2>2, <2>3
<1>4. ASSUME NEW t \in tasks, Collect(t) PROVE IInv'
  <2>1. t.key \in Keys /\ tasks' \subseteq tasks /\ at' = "collect"
    BY <1>4 DEF Collect
  <2>2. UNCHANGED <<log, pos, cursor, conns, events>>
    BY <1>4 DEF Collect, backend
  <2>3. CASE clients[t.key] # 0
    <3>1. CloseClient(t.key)
      BY <1>4, <2>3 DEF Collect
    <3> QED BY <2>1, <2>2, <2>3, <3>1, CloseSafe
  <2>4. CASE clients[t.key] = 0
    BY <1>4, <2>1, <2>2, <2>4, QuietSafe DEF Collect
  <2> QED BY <2>3, <2>4
<1>5. ASSUME NEW k \in Keys, Sweep(k) \/ ShutdownClient(k) PROVE IInv'
  BY <1>5, CloseSafe DEF Sweep, ShutdownClient, backend
<1>6. CASE Connect \/ Break \/ Shutdown
  BY <1>6, QuietSafe DEF Connect, Break, Shutdown, tracker, queue
<1>7. CASE Stopped
  BY <1>7, QuietSafe DEF Stopped, ReaderEnds, tracker
<1>8. CASE ShutdownNext \/ ShutdownDone
  BY <1>8, QuietSafe DEF ShutdownNext, ShutdownDone, backend, tracker, queue
<1>9. ASSUME NEW t \in tasks, TaskCancelled(t) \/ AppDisconnect(t) PROVE IInv'
  <2>1. tasks' = (tasks \ {t}) \cup { [t EXCEPT !.ended = TRUE] }
    BY <1>9 DEF TaskCancelled, AppDisconnect
  <2>2. tasks' \subseteq [key : Keys, conn : Nat, ended : BOOLEAN]
    BY <2>1
  <2> QED
    BY <1>9, <2>2, QuietSafe DEF TaskCancelled, AppDisconnect, backend, queue
<1>10. ASSUME NEW c \in closers, ForwardClosed(c) PROVE IInv'
  <2>1. /\ Put(c, [is |-> "closed", seq |-> 0]) /\ closers' = closers \ {c}
        /\ UNCHANGED <<log, pos, cursor, clients, legacy, tasks, conns, at, key>>
    BY <1>10 DEF ForwardClosed, backend, tracker
  <2>2. Owned' /\ OpenThenClosed' /\ events' \in [Conns -> Seq(Events)]
    BY <2>1, ClosedOwned DEF IInv
  <2>3. Typed'
    BY <2>1, <2>2 DEF IInv, Typed
  <2>4. AtHand'
    <3>1. at = "open" => Len(conns) \notin closers
      BY DEF IInv, AtHand, Owned, Live
    <3>2. at = "open" => events'[Len(conns)] = events[Len(conns)]
      BY <2>1, <3>1 DEF Put, IInv, Typed
    <3> QED BY <2>1, <3>2 DEF IInv, AtHand
  <2> QED BY <2>2, <2>3, <2>4 DEF IInv
<1>11. CASE AppTake
  BY <1>11, QuietSafe DEF AppTake, backend, tracker
<1>12. CASE UNCHANGED vars
  BY <1>12, QuietSafe DEF vars, backend, tracker, queue
<1> QED
  BY <1>1, <1>2, <1>3, <1>4, <1>5, <1>6, <1>7, <1>8, <1>9, <1>10, <1>11, <1>12
     DEF Next, Stopping, Finished

LEMMA InitSafe == Init => IInv
<1> SUFFICES ASSUME Init PROVE IInv
  OBVIOUS
<1>1. /\ log \in Seq(Envelopes) /\ Len(log) = 0 /\ conns \in Seq(Made) /\ Len(conns) = 0
      /\ events \in [Conns -> Seq(Events)] /\ \A c \in Conns : Len(events[c]) = 0
  BY DEF Init
<1>2. Typed
  BY <1>1, CapsAssumption DEF Init, Typed
<1>3. Owned /\ OpenThenClosed
  BY <1>1 DEF Init, Owned, OpenThenClosed
<1> QED
  BY <1>2, <1>3 DEF IInv, Init, AtHand

(* The inductive invariant: the types, what the reader has at hand, who   *)
(* answers for each connection, and the order of its events.              *)
THEOREM Invariance == Spec => []IInv
  BY InitSafe, NextSafe, PTL DEF Spec

(* No connection is leaked or closed twice, whatever times out and wherever *)
(* the reader is aborted (ClientTracker::close_client,                      *)
(* send_connection_closed), for any clients, streams and queue capacity.    *)
THEOREM NoLeak == Spec => []NoLeakedConnection
<1>1. IInv => NoLeakedConnection
  BY OwnedSafe DEF IInv
<1> QED BY <1>1, Invariance, PTL

(* The app server sees each connection opened first and closed last. *)
THEOREM Lifecycle == Spec => []OpenThenClosed
<1>1. IInv => OpenThenClosed
  BY DEF IInv
<1> QED BY <1>1, Invariance, PTL

-----------------------------------------------------------------------------
(* The numbers on a stream: every message has the next one, which both     *)
(* segments of a segmented message bear, and nothing of the stream comes   *)
(* between the first segment and the second.                               *)
Positions == 1..Len(log)
Second == {"chunk1", "bad"}
Numbered(e) == e.kind \notin {"ping", "closed"}
SameStream(e, f) == e.client = f.client /\ e.stream = f.stream
Before(e, f) == e.seq < f.seq \/ (e.seq = f.seq /\ e.kind = "chunk0" /\ f.kind \in Second)

Bounded ==
  \A i \in Positions :
    /\ log[i].seq <= i
    /\ Numbered(log[i]) => log[i].seq > 0
    /\ log[i].stream = None => log[i].kind \notin Chunks

Counted ==
  \A c \in Clients, s \in Streams \cup {None} : \A i \in Positions :
    log[i].client = c /\ log[i].stream = s => log[i].seq <= Cardinality(Numbers(c, s))

StreamOrder ==
  \A i, j \in Positions :
    i < j /\ SameStream(log[i], log[j]) /\ Numbered(log[i]) /\ Numbered(log[j])
      => Before(log[i], log[j])

Paired ==
  \A i, j \in Positions :
    i < j /\ SameStream(log[i], log[j]) /\ log[i].kind = "chunk0" =>
      \E m \in i + 1..j :
        SameStream(log[i], log[m]) /\ log[m].kind \in Second /\ log[m].seq = log[i].seq

OpenMessage ==
  \A c \in Clients, s \in Streams \cup {None} : \A i \in Positions :
    /\ log[i].client = c /\ log[i].stream = s /\ log[i].kind = "chunk0"
    /\ \A j \in Positions : SameStream(log[i], log[j]) => j <= i
    => log[i].seq = Cardinality(Numbers(c, s))

LogInv == Bounded /\ Counted /\ StreamOrder /\ Paired /\ OpenMessage

(* The positions of a sequence are as many as it is long. *)
LEMMA IntervalCount ==
  ASSUME NEW n \in Nat
  PROVE  IsFiniteSet(1..n) /\ Cardinality(1..n) = n
<1>1. 1 \in Int /\ n \in Int /\ (IF 1 > n THEN 0 ELSE n - 1 + 1) = n
  OBVIOUS
<1>2. IsFiniteSet(1..n) /\ Cardinality(1..n) = IF 1 > n THEN 0 ELSE n - 1 + 1
  BY <1>1, FS_Interval, Zenon
<1> QED BY <1>1, <1>2

LEMMA NumbersBounded ==
  ASSUME Typed, NEW c, NEW s
  PROVE  /\ IsFiniteSet(Numbers(c, s)) /\ Cardinality(Numbers(c, s)) \in Nat
         /\ Cardinality(Numbers(c, s)) <= Len(log)
<1> DEFINE P == OfStream(c, s)
           f == [i \in P |-> log[i].seq]
           T == { f[i] : i \in P }
<1>1. Len(log) \in Nat
  BY DEF Typed
<1>2. IsFiniteSet(1..Len(log)) /\ Cardinality(1..Len(log)) = Len(log)
  BY <1>1, IntervalCount, Zenon
<1>3. P \subseteq 1..Len(log)
  BY DEF OfStream
<1>4. IsFiniteSet(P) /\ Cardinality(P) <= Len(log) /\ Cardinality(P) \in Nat
  BY <1>2, <1>3, FS_Subset, FS_CardinalityType
<1>5. f \in Surjection(P, T)
  BY DEF Surjection
<1>6. IsFiniteSet(T) /\ Cardinality(T) <= Cardinality(P) /\ Cardinality(T) \in Nat
  <2> HIDE DEF P, f, T
  <2> QED BY <1>4, <1>5, FS_Surjection, FS_CardinalityType
<1>7. Numbers(c, s) \subseteq T
  BY DEF Numbers
<1>8. /\ IsFiniteSet(Numbers(c, s)) /\ Cardinality(Numbers(c, s)) <= Cardinality(T)
      /\ Cardinality(Numbers(c, s)) \in Nat
  <2> HIDE DEF P, f, T
  <2> QED BY <1>6, <1>7, FS_Subset, FS_CardinalityType
<1> QED
  <2> HIDE DEF P, f, T
  <2> QED BY <1>1, <1>4, <1>6, <1>8

(* What a client may send next, by the messages it has numbered. *)
LEMMA SendableFacts ==
  ASSUME Typed, NEW c \in Clients, NEW s \in Streams \cup {None}, NEW e \in Sendable(c, s),
         NEW n \in Nat, n = Cardinality(Numbers(c, s))
  PROVE  /\ e.client = c /\ e.stream = s /\ e.kind \in Kinds
         /\ ~ Numbered(e) => e.seq = 0
         /\ e.kind \in Second => e.seq = n /\ InMessage(c, s)
         /\ Numbered(e) /\ e.kind \notin Second => e.seq = n + 1 /\ ~ InMessage(c, s)
         /\ s = None => e.kind \notin Chunks
<1> DEFINE next == 1 + Cardinality(Numbers(c, s))
           now == IF OfStream(c, s) = {} /\ "init" \in Sends[<<c, s>>] THEN {"init"}
                  ELSE IF InMessage(c, s) THEN {"chunk1", "bad"}
                  ELSE Kinds \ {"chunk1", "bad"}
           Number(kind) == IF kind \in {"ping", "closed"} THEN 0
                           ELSE IF kind \in {"chunk1", "bad"} THEN next - 1 ELSE next
<1>1. PICK kind \in now \cap Sends[<<c, s>>] :
        e = [client |-> c, stream |-> s, kind |-> kind, seq |-> Number(kind)]
  BY DEF Sendable
<1>2. Sends[<<c, s>>] \subseteq Kinds /\ (s = None => Sends[<<c, s>>] \cap Chunks = {})
  BY SendsAssumption
<1>3. kind \in {"chunk1", "bad"} => InMessage(c, s)
  OBVIOUS
<1>4. kind \notin {"chunk1", "bad", "ping", "closed"} => ~ InMessage(c, s)
  BY DEF InMessage
<1>5. e.client = c /\ e.stream = s /\ e.kind = kind /\ e.seq = Number(kind)
  BY <1>1
<1> QED
  BY <1>1, <1>2, <1>3, <1>4, <1>5 DEF Numbered, Second

(* The log with one more envelope. *)
LEMMA LogAppended ==
  ASSUME Typed, NEW e \in Envelopes, log' = Append(log, e)
  PROVE  /\ Len(log') = Len(log) + 1 /\ Len(log) \in Nat
         /\ Positions' = Positions \cup {Len(log) + 1} /\ Len(log) + 1 \notin Positions
         /\ log'[Len(log) + 1] = e
         /\ \A i \in Positions : log'[i] = log[i] /\ i < Len(log) + 1 /\ i \in Nat /\ log[i] \in Envelopes
         /\ log' \in Seq(Envelopes)
<1>1. log \in Seq(Envelopes)
  BY DEF Typed
<1> QED BY <1>1 DEF Positions

LEMMA NumbersAppended ==
  ASSUME Typed, NEW e \in Envelopes, log' = Append(log, e), NEW c, NEW s
  PROVE  /\ ~ (e.client = c /\ e.stream = s) => Numbers(c, s)' = Numbers(c, s)
         /\ e.client = c /\ e.stream = s => Numbers(c, s)' = Numbers(c, s) \cup ({e.seq} \ {0})
<1>1. PICK n : n = Len(log) + 1
  OBVIOUS
<1>2. /\ 1..Len(log') = 1..Len(log) \cup {n} /\ log'[n] = e /\ n \notin 1..Len(log)
      /\ \A i \in 1..Len(log) : log'[i] = log[i]
  BY <1>1, LogAppended DEF Positions
<1>3. CASE e.client = c /\ e.stream = s
  <2>1. OfStream(c, s)' = OfStream(c, s) \cup {n}
    BY <1>2, <1>3 DEF OfStream
  <2> QED BY <1>2, <1>3, <2>1 DEF Numbers, OfStream
<1>4. CASE ~ (e.client = c /\ e.stream = s)
  <2>1. OfStream(c, s)' = OfStream(c, s)
    BY <1>2, <1>4 DEF OfStream
  <2> QED BY <1>2, <1>4, <2>1 DEF Numbers, OfStream
<1> QED BY <1>3, <1>4

LEMMA CountGrows ==
  ASSUME Typed, NEW e \in Envelopes, log' = Append(log, e), NEW c, NEW s
  PROVE  /\ Cardinality(Numbers(c, s)) <= Cardinality(Numbers(c, s))'
         /\ Cardinality(Numbers(c, s))' \in Nat
<1>1. Numbers(c, s) \subseteq Numbers(c, s)'
  BY NumbersAppended
<1>2. IsFiniteSet(Numbers(c, s)')
  <2> DEFINE S == Numbers(c, s)
  <2>1. IsFiniteSet(S)
    BY NumbersBounded
  <2>2. S' = S \/ S' = S \cup ({e.seq} \ {0})
    BY NumbersAppended
  <2>3. IsFiniteSet(S \cup {e.seq})
    BY <2>1, FS_AddElement
  <2>4. S' \subseteq S \cup {e.seq}
    BY <2>2
  <2> HIDE DEF S
  <2>5. IsFiniteSet(S')
    BY <2>3, <2>4, FS_Subset
  <2> QED BY <2>5 DEF S
<1> QED
  BY <1>1, <1>2, FS_Subset, FS_CardinalityType

LEMMA NextNumber ==
  ASSUME Typed, Counted, NEW c \in Clients, NEW s \in Streams \cup {None},
         NEW n \in Nat, n = Cardinality(Numbers(c, s)),
         NEW e \in Envelopes, e.client = c, e.stream = s, log' = Append(log, e), e.seq = n + 1
  PROVE  Cardinality(Numbers(c, s))' = n + 1
<1> DEFINE S == Numbers(c, s)
<1>1. IsFiniteSet(S) /\ Cardinality(S) = n
  BY NumbersBounded
<1>2. S' = S \cup {n + 1}
  BY NumbersAppended
<1>3. n + 1 \notin S
  <2>1. \A q \in S : \E i \in Positions : log[i].client = c /\ log[i].stream = s /\ log[i].seq = q
    BY DEF Numbers, OfStream, Positions
  <2>2. \A q \in S : q <= n
    BY <2>1 DEF Counted
  <2> QED BY <2>2
<1> HIDE DEF S
<1>4. Cardinality(S \cup {n + 1}) = n + 1
  BY <1>1, <1>3, FS_AddElement
<1>5. Cardinality(S') = n + 1
  BY <1>2, <1>4
<1> QED BY <1>5 DEF S

LEMMA AppendStep ==
  ASSUME Typed, LogInv, NEW c \in Clients, NEW s \in Streams \cup {None},
         NEW e \in Sendable(c, s), e \in Envelopes, log' = Append(log, e)
  PROVE  LogInv'
<1> USE DEF LogInv
<1>0. PICK n, p : n = Cardinality(Numbers(c, s)) /\ p = Len(log) + 1
  OBVIOUS
<1>1. n \in Nat /\ n <= Len(log) /\ p \in Nat
  BY <1>0, NumbersBounded DEF Typed
<1>2. /\ e.client = c /\ e.stream = s /\ e.kind \in Kinds
      /\ ~ Numbered(e) => e.seq = 0
      /\ e.kind \in Second => e.seq = n /\ InMessage(c, s)
      /\ Numbered(e) /\ e.kind \notin Second => e.seq = n + 1 /\ ~ InMessage(c, s)
      /\ s = None => e.kind \notin Chunks
  BY <1>0, <1>1, SendableFacts
<1>3. /\ Positions' = Positions \cup {p} /\ p \notin Positions /\ log'[p] = e
      /\ \A i \in Positions : log'[i] = log[i] /\ i < p /\ i \in Nat /\ log[i] \in Envelopes
      /\ p = Len(log) + 1
  BY <1>0, LogAppended
<1>4. \A i \in Positions : SameStream(log[i], e) => log[i].seq <= n
  BY <1>0, <1>2 DEF Counted, SameStream
<1>5. InMessage(c, s) =>
        \E q \in Positions : /\ log[q].kind = "chunk0" /\ SameStream(log[q], e) /\ log[q].seq = n
                             /\ \A j \in Positions : SameStream(log[j], e) => j <= q
  <2> SUFFICES ASSUME InMessage(c, s)
               PROVE  \E q \in Positions :
                        /\ log[q].kind = "chunk0" /\ SameStream(log[q], e) /\ log[q].seq = n
                        /\ \A j \in Positions : SameStream(log[j], e) => j <= q
    OBVIOUS
  <2>1. PICK q \in OfStream(c, s) : log[q].kind = "chunk0" /\ \A j \in OfStream(c, s) : j <= q
    BY DEF InMessage
  <2>2. q \in Positions /\ SameStream(log[q], e) /\ log[q].client = c /\ log[q].stream = s
    BY <1>2, <2>1 DEF OfStream, Positions, SameStream
  <2>3. \A j \in Positions : SameStream(log[j], e) => j <= q
    BY <1>2, <2>1 DEF OfStream, Positions, SameStream
  <2>4. \A j \in Positions : SameStream(log[q], log[j]) => j <= q
    BY <2>2, <2>3 DEF SameStream
  <2>5. log[q].seq = n
    BY <1>0, <2>1, <2>2, <2>4 DEF OpenMessage
  <2> QED BY <2>1, <2>2, <2>3, <2>5
<1>6. Numbered(e) => e.seq > 0
  <2>1. CASE e.kind \in Second
    <3>1. PICK q \in Positions : log[q].kind = "chunk0" /\ log[q].seq = n
      BY <1>2, <1>5, <2>1
    <3>2. Numbered(log[q])
      BY <3>1 DEF Numbered
    <3> QED BY <1>2, <2>1, <3>1, <3>2 DEF Bounded
  <2> QED BY <1>1, <1>2, <2>1
<1>7. Bounded'
  <2>1. e.seq <= p /\ (Numbered(e) => e.seq > 0) /\ (e.stream = None => e.kind \notin Chunks)
    BY <1>1, <1>2, <1>3, <1>6 DEF Typed
  <2>2. \A i \in Positions' :
          /\ log'[i].seq <= i
          /\ Numbered(log'[i]) => log'[i].seq > 0
          /\ log'[i].stream = None => log'[i].kind \notin Chunks
    BY <1>3, <2>1 DEF Bounded
  <2> QED BY <2>2 DEF Bounded, Numbered
<1>8. Counted'
  <2>1. e.seq <= Cardinality(Numbers(c, s))'
    <3>1. CASE Numbered(e) /\ e.kind \notin Second
      BY <1>0, <1>1, <1>2, <3>1, NextNumber
    <3>2. CASE ~ (Numbered(e) /\ e.kind \notin Second)
      <4>1. e.seq <= n
        BY <1>1, <1>2, <3>2
      <4>2. n <= Cardinality(Numbers(c, s))' /\ Cardinality(Numbers(c, s))' \in Nat
        BY <1>0, CountGrows
      <4>3. e.seq \in Nat
        BY DEF Envelopes
      <4> QED BY <1>1, <4>1, <4>2, <4>3
    <3> QED BY <3>1, <3>2
  <2>2. ASSUME NEW x \in Clients, NEW y \in Streams \cup {None}, NEW i \in Positions',
               log'[i].client = x, log'[i].stream = y
        PROVE  log'[i].seq <= Cardinality(Numbers(x, y))'
    <3>1. CASE i = p
      BY <1>2, <1>3, <2>1, <2>2, <3>1
    <3>2. CASE i # p
      <4>1. PICK q : q = log[i].seq
        OBVIOUS
      <4>2. i \in Positions /\ log'[i] = log[i] /\ q \in Nat
        BY <1>3, <3>2, <4>1 DEF Envelopes
      <4>3. q <= Cardinality(Numbers(x, y))
        BY <2>2, <4>1, <4>2 DEF Counted
      <4>4. /\ Cardinality(Numbers(x, y)) <= Cardinality(Numbers(x, y))'
            /\ Cardinality(Numbers(x, y))' \in Nat /\ Cardinality(Numbers(x, y)) \in Nat
        BY CountGrows, NumbersBounded
      <4> QED BY <4>1, <4>2, <4>3, <4>4
    <3> QED BY <3>1, <3>2
  <2> QED BY <2>2 DEF Counted
<1>9. StreamOrder'
  <2>1. ASSUME NEW i \in Positions, SameStream(log[i], e), Numbered(log[i]), Numbered(e)
        PROVE  Before(log[i], e)
    <3>0. log[i].seq <= n /\ log[i].seq \in Nat
      BY <1>3, <1>4, <2>1 DEF Envelopes
    <3>1. CASE e.kind \notin Second
      BY <1>1, <1>2, <2>1, <3>0, <3>1 DEF Before
    <3>2. CASE e.kind \in Second
      <4>1. PICK q \in Positions :
              /\ log[q].kind = "chunk0" /\ SameStream(log[q], e) /\ log[q].seq = n
              /\ \A j \in Positions : SameStream(log[j], e) => j <= q
        BY <1>2, <1>5, <3>2
      <4>2. CASE i = q
        BY <1>2, <3>2, <4>1, <4>2 DEF Before
      <4>3. CASE i # q
        <5>1. i < q /\ SameStream(log[i], log[q]) /\ Numbered(log[q])
          BY <1>3, <2>1, <4>1, <4>3 DEF SameStream, Numbered
        <5>2. Before(log[i], log[q])
          BY <2>1, <5>1 DEF StreamOrder
        <5> QED BY <1>2, <3>2, <4>1, <5>2 DEF Before, Second
      <4> QED BY <4>2, <4>3
    <3> QED BY <3>1, <3>2
  <2>2. ASSUME NEW i \in Positions', NEW j \in Positions', i < j,
               SameStream(log'[i], log'[j]), Numbered(log'[i]), Numbered(log'[j])
        PROVE  Before(log'[i], log'[j])
    <3>1. CASE j = p
      <4>0. i # p
        BY <1>1, <2>2, <3>1
      <4>1. i \in Positions /\ log'[i] = log[i] /\ log'[j] = e
        BY <1>3, <3>1, <4>0
      <4> QED BY <2>1, <2>2, <4>1
    <3>2. CASE j # p
      <4>1. j \in Positions /\ i # p
        BY <1>1, <1>3, <2>2, <3>2
      <4>2. i \in Positions /\ log'[i] = log[i] /\ log'[j] = log[j]
        BY <1>3, <4>1
      <4> QED BY <2>2, <4>1, <4>2 DEF StreamOrder
    <3> QED BY <3>1, <3>2
  <2> QED BY <2>2 DEF StreamOrder, Before, SameStream, Numbered
<1>10. Paired'
  <2>2. ASSUME NEW i \in Positions', NEW j \in Positions', i < j,
               SameStream(log'[i], log'[j]), log'[i].kind = "chunk0"
        PROVE  \E m \in i + 1..j : /\ SameStream(log'[i], log'[m])
                                   /\ log'[m].kind \in Second /\ log'[m].seq = log'[i].seq
    <3>1. CASE j = p
      <4>0. i # p
        BY <1>1, <2>2, <3>1
      <4>1. i \in Positions /\ log'[i] = log[i] /\ log'[j] = e
        BY <1>3, <3>1, <4>0
      <4>2. CASE \E j2 \in Positions : i < j2 /\ SameStream(log[i], log[j2])
        <5>1. PICK j2 \in Positions : i < j2 /\ SameStream(log[i], log[j2])
          BY <4>2
        <5>2. PICK m \in i + 1..j2 :
                SameStream(log[i], log[m]) /\ log[m].kind \in Second /\ log[m].seq = log[i].seq
          BY <2>2, <4>1, <5>1 DEF Paired
        <5>3. m \in Positions /\ m \in i + 1..j
          BY <1>1, <1>3, <3>1, <4>1, <5>1, <5>2 DEF Positions
        <5> QED BY <1>3, <4>1, <5>2, <5>3
      <4>3. CASE \A j2 \in Positions : SameStream(log[i], log[j2]) => j2 <= i
        <5>1. SameStream(log[i], e)
          BY <2>2, <4>1
        <5>2. log[i].seq = n
          BY <1>0, <1>2, <2>2, <4>1, <4>3, <5>1 DEF OpenMessage, SameStream
        <5>3. i \in OfStream(c, s) /\ \A j2 \in OfStream(c, s) : j2 <= i
          BY <1>2, <4>1, <4>3, <5>1 DEF OfStream, Positions, SameStream
        <5>4. InMessage(c, s)
          BY <2>2, <4>1, <5>3 DEF InMessage
        <5>5. e.kind \in Second
          <6>1. OfStream(c, s) # {}
            BY <5>3
          <6>2. e.kind \in {"chunk1", "bad"}
            BY <5>4, <6>1 DEF Sendable
          <6> QED BY <6>2 DEF Second
        <5>6. i \in Nat /\ i < p
          BY <1>3, <4>1
        <5>7. j \in i + 1..j
          BY <1>1, <3>1, <5>6
        <5> QED BY <1>2, <2>2, <4>1, <5>2, <5>5, <5>7
      <4> QED BY <1>3, <4>1, <4>2, <4>3
    <3>2. CASE j # p
      <4>1. j \in Positions /\ i # p
        BY <1>1, <1>3, <2>2, <3>2
      <4>2. i \in Positions /\ log'[i] = log[i] /\ log'[j] = log[j]
        BY <1>3, <4>1
      <4>3. PICK m \in i + 1..j :
              SameStream(log[i], log[m]) /\ log[m].kind \in Second /\ log[m].seq = log[i].seq
        BY <2>2, <4>1, <4>2 DEF Paired
      <4>4. m \in Positions
        BY <1>3, <4>1, <4>2, <4>3 DEF Positions
      <4> QED BY <1>3, <4>2, <4>3, <4>4
    <3> QED BY <3>1, <3>2
  <2>3. \A i, j \in Positions' :
          i < j /\ SameStream(log'[i], log'[j]) /\ log'[i].kind = "chunk0" =>
          \E m \in i + 1..j : /\ SameStream(log'[i], log'[m])
                             /\ log'[m].kind \in Second /\ log'[m].seq = log'[i].seq
    BY <2>2
  <2>4. \A i, j : SameStream(log'[i], log'[j]) <=> SameStream(log[i], log[j])'
    BY DEF SameStream
  <2> QED BY <2>3, <2>4 DEF Paired, Second
<1>11. OpenMessage'
  <2>1. ASSUME NEW x \in Clients, NEW y \in Streams \cup {None}, NEW i \in Positions',
               log'[i].client = x, log'[i].stream = y, log'[i].kind = "chunk0",
               \A j \in Positions' : SameStream(log'[i], log'[j]) => j <= i
        PROVE  log'[i].seq = Cardinality(Numbers(x, y))'
    <3>1. CASE i = p
      <4>1. e.kind = "chunk0" /\ log'[i] = e /\ x = c /\ y = s
        BY <1>2, <1>3, <2>1, <3>1
      <4>2. e.seq = n + 1
        BY <1>2, <4>1 DEF Numbered, Second
      <4>3. Cardinality(Numbers(c, s))' = n + 1
        BY <1>0, <1>1, <1>2, <4>2, NextNumber
      <4> QED BY <4>1, <4>2, <4>3
    <3>2. CASE i # p
      <4>1. i \in Positions /\ log'[i] = log[i]
        BY <1>3, <3>2
      <4>2. ~ SameStream(log[i], e)
        BY <1>1, <1>3, <2>1, <4>1
      <4>3. \A j \in Positions : SameStream(log[i], log[j]) => j <= i
        BY <1>3, <2>1, <4>1
      <4>4. log[i].seq = Cardinality(Numbers(x, y))
        BY <2>1, <4>1, <4>3 DEF OpenMessage
      <4>5. Numbers(x, y)' = Numbers(x, y)
        BY <2>1, <4>1, <4>2, NumbersAppended DEF SameStream
      <4> QED BY <4>1, <4>4, <4>5
    <3> QED BY <3>1, <3>2
  <2> QED BY <2>1 DEF OpenMessage, SameStream
<1> QED
  BY <1>7, <1>8, <1>9, <1>10, <1>11

LEMMA LogUnchanged == ASSUME LogInv, log' = log PROVE LogInv'
<1>1. Positions' = Positions
  BY DEF Positions
<1>2. \A c, s : Numbers(c, s)' = Numbers(c, s)
  BY DEF Numbers, OfStream
<1>3. Bounded'
  BY <1>1 DEF LogInv, Bounded, Numbered
<1>4. Counted'
  BY <1>1, <1>2 DEF LogInv, Counted
<1>5. StreamOrder'
  BY <1>1 DEF LogInv, StreamOrder, Numbered, SameStream, Before, Second
<1>6. Paired'
  BY <1>1 DEF LogInv, Paired, SameStream, Second
<1>7. OpenMessage'
  BY <1>1, <1>2 DEF LogInv, OpenMessage, SameStream
<1> QED BY <1>3, <1>4, <1>5, <1>6, <1>7 DEF LogInv

-----------------------------------------------------------------------------
(* The steps, by what they do to the reader, the tracker and the events. *)
state == <<log, pos, cursor, completed, asm, clients, last, legacy, conns, at, key, events>>

(* The reader has taken an envelope. *)
Takes(e) ==
  /\ at = "select" /\ pos' = pos + 1 /\ asm' = AssembliesAfter(e)
  /\ UNCHANGED <<cursor, completed, events>>
  /\ log' = log \/ log' = Append(log, e)
  /\ e \in Envelopes /\ log' \in Seq(Envelopes) /\ Positions \subseteq Positions'
  /\ pos \in Positions' /\ log'[pos] = e /\ current' = e
  /\ \A i \in Positions : log'[i] = log[i]
  /\ \A i \in Positions' : i \notin Positions => i = pos /\ pos = Len(log) + 1 /\ Len(log') = pos
  /\ (pos \in Positions /\ log' = log) \/ (pos \notin Positions /\ log' = Append(log, e))
  /\ ReadDropped(e) \/ ReadInit(e) \/ ReadMessage(e) \/ ReadPing(e) \/ ReadClosed(e)

(* A client is closed by the reader or by the shutdown. *)
Closes(k) ==
  /\ clients[k] # 0 /\ CloseClient(k)
  /\ UNCHANGED <<log, pos, cursor, completed, asm, conns, events>>
  /\ \/ at = "select" /\ at' \in {"collect", "sweep"} /\ key' = k
     \/ at = "off" /\ at' = "shutdown" /\ key' = key

(* An outbound task is collected whose client is gone. *)
Collects ==
  /\ at = "select" /\ at' = "collect" /\ key' \in Keys /\ clients[key'] = 0
  /\ UNCHANGED <<log, pos, cursor, completed, asm, clients, last, legacy, conns, events>>

(* The reader has closed a client: its segments are forgotten. *)
Aside == {"collect", "collected", "sweep"}

Invalidates ==
  /\ at \in Aside /\ at' \in {"select", "collected"} /\ (at' = "collected" => key' = key)
  /\ wait' \in {0, wait} /\ UNCHANGED <<backend, cursor, tracker, queue>>
  /\ asm' = asm \/ asm' = Removed(asm, key[1], key[2])
  /\ completed' = completed \/ completed' = [completed EXCEPT ![key] = 0]

(* The websocket ends. *)
Ends ==
  /\ at' = "off" /\ pos' = cursor + 1
  /\ UNCHANGED <<log, cursor, completed, asm, conns, events>>
  /\ \/ UNCHANGED <<clients, last, legacy>>
     \/ key \in Keys /\ clients[key] # 0 /\ CloseClient(key)

(* Between two websockets. *)
Between ==
  /\ at \in {"off", "shutdown"} /\ at' \in {"off", "done", "select"}
  /\ UNCHANGED <<log, pos, cursor, completed, asm, clients, last, legacy, conns, key, events>>

LEMMA TakesSomething == ASSUME IInv, Read PROVE \E e \in Incoming : Takes(e)
<1>1. PICK e \in Incoming :
        /\ log' = IF pos <= Len(log) THEN log ELSE Append(log, e)
        /\ pos' = pos + 1
        /\ asm' = AssembliesAfter(e)
        /\ \/ ReadDropped(e) \/ ReadInit(e) \/ ReadMessage(e) \/ ReadPing(e) \/ ReadClosed(e)
  BY DEF Read
<1>2. at = "select" /\ UNCHANGED <<cursor, completed, events>>
  BY DEF Read
<1>3. e \in Envelopes
  BY IncomingTyped DEF IInv
<1>4. log \in Seq(Envelopes) /\ pos \in 1..Len(log) + 1 /\ Len(log) \in Nat
  BY DEF IInv, Typed
<1>5. /\ log' \in Seq(Envelopes) /\ Positions \subseteq Positions'
      /\ pos \in Positions' /\ log'[pos] = e
      /\ \A i \in Positions : log'[i] = log[i]
      /\ \A i \in Positions' : i \notin Positions => i = pos /\ pos = Len(log) + 1 /\ Len(log') = pos
      /\ (pos \in Positions /\ log' = log) \/ (pos \notin Positions /\ log' = Append(log, e))
  <2>1. CASE pos <= Len(log)
    <3>1. log' = log /\ e = log[pos]
      BY <1>1, <2>1 DEF Incoming
    <3> QED BY <1>4, <2>1, <3>1 DEF Positions
  <2>2. CASE ~ pos <= Len(log)
    <3>1. log' = Append(log, e) /\ pos = Len(log) + 1
      BY <1>1, <1>4, <2>2
    <3> QED BY <1>3, <1>4, <3>1 DEF Positions
  <2> QED BY <2>1, <2>2
<1>6. current' = e
  <2>1. pos' - 1 = pos
    BY <1>1, <1>4
  <2> QED BY <1>5, <2>1 DEF current
<1> QED
  BY <1>1, <1>2, <1>3, <1>5, <1>6 DEF Takes

LEMMA LogStep ==
  ASSUME IInv, LogInv, log' = log \/ \E e \in Incoming : Takes(e)
  PROVE  LogInv'
<1>1. CASE log' = log
  BY <1>1, LogUnchanged
<1>2. ASSUME NEW e \in Incoming, Takes(e), log' # log PROVE LogInv'
  <2>1. ~ pos <= Len(log) /\ log' = Append(log, e) /\ e \in Envelopes
    BY <1>2 DEF Takes, IInv, Typed, Positions
  <2>2. PICK c \in Clients, s \in Streams \cup {None} : e \in Sendable(c, s)
    BY <2>1 DEF Incoming
  <2> QED BY <2>1, <2>2, AppendStep DEF IInv
<1> QED BY <1>1, <1>2

LEMMA Steps ==
  ASSUME IInv, [Next]_vars
  PROVE  \/ \E e \in Incoming : Takes(e)
         \/ Reopen \/ Open \/ SendInit \/ SendIncoming \/ Closed \/ Record \/ Forget \/ Invalidates
         \/ (\E k \in Keys : Closes(k)) \/ Collects \/ Ends \/ Between
         \/ (\E c \in closers : ForwardClosed(c)) \/ UNCHANGED state
<1>1. CASE Read
  BY <1>1, TakesSomething
<1>2. CASE Reader
  BY <1>2 DEF Reader, Invalidates, Aside, Invalidate, InvalidateSegments, InvalidateCompleted
<1>3. CASE TimeOut
  <2>1. /\ UNCHANGED <<log, cursor, completed, asm, conns, events>> /\ pos' = cursor + 1 /\ at' = "off"
    BY <1>3 DEF TimeOut, ReaderEnds, segments
  <2>2. CASE at = "init"
    <3>1. key \in Keys /\ clients[key] # 0 /\ CloseClient(key)
      BY <1>3, <2>2 DEF TimeOut, IInv, AtHand
    <3> QED BY <2>1, <3>1 DEF Ends
  <2>3. CASE at # "init"
    BY <1>3, <2>1, <2>3 DEF TimeOut, Ends
  <2> QED BY <2>2, <2>3
<1>4. ASSUME NEW t \in tasks, Collect(t) PROVE Collects \/ \E k \in Keys : Closes(k)
  <2>1. t.key \in Keys
    BY DEF IInv, Typed
  <2>2. at = "select" /\ at' = "collect" /\ key' = t.key
        /\ UNCHANGED <<log, pos, cursor, completed, asm, conns, events>>
    BY <1>4 DEF Collect, backend, segments
  <2>3. CASE clients[t.key] # 0
    <3>1. CloseClient(t.key)
      BY <1>4, <2>3 DEF Collect
    <3> QED BY <2>1, <2>2, <2>3, <3>1 DEF Closes
  <2>4. CASE clients[t.key] = 0
    BY <1>4, <2>1, <2>2, <2>4 DEF Collect, Collects
  <2> QED BY <2>3, <2>4
<1>5. ASSUME NEW k \in Keys, Sweep(k) \/ ShutdownClient(k) PROVE Closes(k)
  BY <1>5 DEF Sweep, ShutdownClient, Closes, backend, segments
<1>6. CASE Connect \/ ShutdownNext \/ ShutdownDone
  BY <1>6 DEF Connect, ShutdownNext, ShutdownDone, Between, backend, tracker, segments, queue
<1>7. CASE Stopped
  BY <1>7 DEF Stopped, ReaderEnds, Ends, tracker, segments
<1>8. CASE Break \/ Shutdown \/ AppTake \/ UNCHANGED vars
  BY <1>8 DEF Break, Shutdown, AppTake, vars, state, backend, tracker, segments, queue
<1>9. ASSUME NEW t \in tasks, TaskCancelled(t) \/ AppDisconnect(t) PROVE UNCHANGED state
  BY <1>9 DEF TaskCancelled, AppDisconnect, state, backend, segments, queue
<1> QED
  BY <1>1, <1>2, <1>3, <1>4, <1>5, <1>6, <1>7, <1>8, <1>9 DEF Next, Stopping, Finished

-----------------------------------------------------------------------------
(* What the reader has passed without recording it are segments: everything *)
(* else is recorded before the next envelope is taken.                      *)
Reading == at \in {"reopen", "open", "init", "incoming", "record", "closing"}

Recorded ==
  /\ cursor < pos
  /\ Reading => cursor < pos - 1
  /\ at \in {"select"} \cup Aside =>
       \A i \in Positions : i = pos - 1 /\ cursor < i => log[i].kind \in Chunks
  /\ at \in {"forget", "off", "shutdown", "done"} => pos = cursor + 1
  /\ \A i \in Positions : cursor < i /\ i < Len(log) => log[i].kind \in Chunks

LEMMA RecordedStep == ASSUME IInv, Recorded, [Next]_vars PROVE Recorded'
<1>0. pos \in Nat /\ cursor \in Nat /\ Len(log) \in Nat /\ (Reading => pos > 1)
  BY DEF IInv, Typed, AtHand, Reading
<1>1. ASSUME NEW e \in Incoming, Takes(e) PROVE Recorded'
  <2>1. /\ at = "select" /\ pos' = pos + 1 /\ cursor' = cursor /\ log'[pos] = e
        /\ \A i \in Positions : log'[i] = log[i]
        /\ \A i \in Positions' : i \notin Positions => i = pos /\ pos = Len(log) + 1 /\ Len(log') = pos
        /\ (pos \in Positions /\ log' = log) \/ (pos \notin Positions /\ log' = Append(log, e))
    BY <1>1 DEF Takes
  <2>2. at' = "select" => e.kind \in Chunks
    BY <1>1 DEF Takes, ReadDropped, Forwarded, ReadInit, StartOpen, ReadMessage, ReadPing, ReadClosed
  <2>3. at' \in {"select", "reopen", "open", "incoming", "record", "closing"}
    BY <1>1, <2>1 DEF Takes, ReadDropped, ReadInit, StartOpen, ReadMessage, ReadPing, ReadClosed
  <2>4. ASSUME NEW i \in Positions', cursor < i, i < Len(log') PROVE log'[i].kind \in Chunks
    <3>1. i \in Nat /\ i \in Positions
      BY <1>0, <2>1, <2>4 DEF Positions
    <3>2. CASE i < Len(log)
      BY <2>1, <2>4, <3>1, <3>2 DEF Recorded
    <3>3. CASE ~ i < Len(log)
      <4>1. i = Len(log) /\ pos \notin Positions
        BY <1>0, <2>1, <2>4, <3>1, <3>3 DEF Positions
      <4>2. i = pos - 1
        BY <1>0, <4>1 DEF IInv, Typed, Positions
      <4> QED BY <2>1, <2>4, <3>1, <4>2 DEF Recorded
    <3> QED BY <3>2, <3>3
  <2> QED BY <1>0, <2>1, <2>2, <2>3, <2>4 DEF Recorded, Reading, Aside
<1>2. CASE Reopen \/ Open \/ SendInit \/ SendIncoming \/ Closed
  <2>1. UNCHANGED <<log, pos, cursor>> /\ Reading /\ Reading'
        /\ at' \notin {"select", "forget", "off", "shutdown", "done"} \cup Aside
    BY <1>2 DEF Reopen, Open, SendInit, SendIncoming, Closed, Reading, Aside, backend
  <2> QED BY <2>1 DEF Recorded, Positions
<1>3. CASE Record
  <2>1. UNCHANGED <<log, pos>> /\ cursor' = pos - 1 /\ at' \in {"select", "forget"} /\ Reading
    BY <1>3 DEF Record, backend, Reading
  <2> QED BY <1>0, <2>1 DEF Recorded, Reading, Aside, Positions
<1>4. CASE Invalidates \/ Collects \/ \E k \in Keys : Closes(k)
  <2>1. /\ UNCHANGED <<log, pos, cursor>>
        /\ \/ at \in {"select"} \cup Aside /\ at' \in {"select"} \cup Aside
           \/ at = "off" /\ at' = "shutdown"
    BY <1>4 DEF Invalidates, Collects, Closes, Aside, backend
  <2> QED BY <2>1 DEF Recorded, Reading, Aside, Positions
<1>5. CASE Ends
  <2>1. UNCHANGED <<log, cursor>> /\ pos' = cursor + 1 /\ at' = "off"
    BY <1>5 DEF Ends
  <2> QED BY <1>0, <2>1 DEF Recorded, Reading, Positions
<1>6. CASE Between
  <2>1. /\ UNCHANGED <<log, pos, cursor>>
        /\ at \in {"off", "shutdown"} /\ at' \in {"off", "done", "select"}
    BY <1>6 DEF Between
  <2> QED BY <1>0, <2>1 DEF Recorded, Reading, Positions
<1>7. CASE (\E c \in closers : ForwardClosed(c)) \/ UNCHANGED state
  <2>1. UNCHANGED <<log, pos, cursor, at>>
    BY <1>7 DEF ForwardClosed, state, backend
  <2> QED BY <2>1 DEF Recorded, Reading, Positions
<1>8. CASE Forget
  <2>1. UNCHANGED <<log, pos, cursor>> /\ at = "forget" /\ at' = "select"
    BY <1>8 DEF Forget, backend
  <2> QED BY <1>0, <2>1 DEF Recorded, Reading, Aside, Positions
<1> QED
  BY <1>1, <1>2, <1>3, <1>4, <1>5, <1>6, <1>7, <1>8, Steps

-----------------------------------------------------------------------------
(* The types of what the argument so far did not need. *)
RestTyped ==
  /\ Len(log) <= MaxLog
  /\ link \in {"up", "stopping", "down"} /\ stop \in BOOLEAN /\ breaks \in 0..MaxBreaks
  /\ load \in 0..QueueCap /\ wait \in 0..Len(conns)
  /\ \A t \in tasks : t.conn \in 1..Len(conns)

LEMMA PutLoad ==
  ASSUME load \in 0..QueueCap, NEW c, NEW e, Put(c, e)
  PROVE  load' \in 0..QueueCap
  BY CapsAssumption DEF Put

LEMMA ConnsAppended ==
  ASSUME IInv, NEW c, conns' = Append(conns, c)
  PROVE  Len(conns') = Len(conns) + 1 /\ Len(conns) \in Nat
  BY DEF IInv, Typed

LEMMA RestTypedStep == ASSUME IInv, RestTyped, [Next]_vars PROVE RestTyped'
<1>0. /\ Len(conns) \in Nat /\ clients \in [Keys -> 0..Len(conns)] /\ Len(log) \in Nat
      /\ tasks \subseteq [key : Keys, conn : Nat, ended : BOOLEAN]
      /\ MaxLog \in Nat /\ MaxBreaks \in Nat
  BY CapsAssumption DEF IInv, Typed
<1>1. CASE Read
  <2>1. PICK e \in Incoming : Takes(e)
    BY <1>1, TakesSomething
  <2>2. UNCHANGED <<link, breaks, stop, load>>
    BY <1>1 DEF Read
  <2>3. Len(log') <= MaxLog
    <3>1. PICK f \in Incoming : log' = IF pos <= Len(log) THEN log ELSE Append(log, f)
      BY <1>1 DEF Read
    <3>2. CASE pos <= Len(log)
      BY <3>1, <3>2 DEF RestTyped
    <3>3. CASE ~ pos <= Len(log)
      <4>1. Len(log) # MaxLog
        BY <3>3 DEF Incoming
      <4>2. Len(log') = Len(log) + 1
        BY <3>1, <3>3 DEF IInv, Typed
      <4> QED BY <1>0, <4>1, <4>2 DEF RestTyped
    <3> QED BY <3>2, <3>3
  <2>4. CASE ReadDropped(e) \/ ReadMessage(e) \/ ReadPing(e)
    <3>1. UNCHANGED <<wait, conns, tasks>>
      BY <2>4 DEF ReadDropped, ReadMessage, ReadPing, tracker
    <3> QED BY <2>2, <2>3, <3>1 DEF RestTyped
  <2>5. CASE ReadClosed(e)
    <3>1. UNCHANGED <<conns, tasks>>
      BY <2>5 DEF ReadClosed, tracker
    <3>2. wait' = wait \/ (StreamOf(e) # None /\ wait' = clients[<<e.client, StreamOf(e)>>])
      BY <2>5 DEF ReadClosed
    <3>3. wait' \in 0..Len(conns)
      BY <1>0, <2>1, <3>2, StreamTyped DEF Takes, IInv, RestTyped
    <3> QED BY <2>2, <2>3, <3>1, <3>3 DEF RestTyped
  <2>6. CASE ReadInit(e)
    <3>1. PICK s \in InitStreams(e) :
          LET k == <<e.client, s>> IN
          IF clients[k] # 0
            THEN wait' = clients[k] /\ UNCHANGED <<tasks, conns>>
            ELSE StartOpen(k) /\ UNCHANGED <<wait, tasks>>
      BY <2>6 DEF ReadInit
    <3>2. <<e.client, s>> \in Keys
      BY <2>1, StreamTyped DEF InitStreams, Envelopes, Keys, Takes, IInv
    <3>3. CASE clients[<<e.client, s>>] # 0
      BY <1>0, <2>2, <2>3, <3>1, <3>2, <3>3 DEF RestTyped
    <3>4. CASE clients[<<e.client, s>>] = 0
      <4>1. UNCHANGED <<wait, tasks>> /\ Len(conns') = Len(conns) + 1
        BY <3>1, <3>4, ConnsAppended DEF StartOpen
      <4> QED BY <1>0, <2>2, <2>3, <4>1 DEF RestTyped
    <3> QED BY <3>3, <3>4
  <2> QED BY <2>1, <2>4, <2>5, <2>6 DEF Takes
<1>2. CASE Reopen
  <2>1. UNCHANGED <<log, link, stop, breaks, load, tasks>> /\ wait' = 0 /\ Len(conns') = Len(conns) + 1
    BY <1>2, ConnsAppended DEF Reopen, backend, queue
  <2> QED BY <1>0, <2>1 DEF RestTyped
<1>3. CASE Open
  <2>1. UNCHANGED <<log, link, stop, breaks, wait, conns>> /\ load' \in 0..QueueCap
    BY <1>3, PutLoad DEF Open, backend, RestTyped
  <2>2. tasks' = tasks \cup { [key |-> key, conn |-> Len(conns), ended |-> FALSE] }
    BY <1>3 DEF Open
  <2>3. Len(conns) \in 1..Len(conns)
    BY <1>0, <1>3 DEF Open, IInv, AtHand
  <2> QED BY <1>0, <2>1, <2>2, <2>3 DEF RestTyped
<1>4. CASE SendInit \/ SendIncoming
  <2>1. UNCHANGED <<log, link, stop, breaks, wait, conns, tasks>> /\ load' \in 0..QueueCap
    BY <1>4, PutLoad DEF SendInit, SendIncoming, backend, RestTyped
  <2> QED BY <2>1 DEF RestTyped
<1>5. CASE \/ Closed \/ Record \/ Forget \/ Invalidate \/ InvalidateSegments
           \/ InvalidateCompleted \/ ShutdownNext \/ ShutdownDone
  <2>1. /\ UNCHANGED <<log, link, stop, breaks, load, conns>> /\ wait' \in {0, wait}
        /\ tasks' \subseteq tasks
    BY <1>5 DEF Closed, Record, Forget, Invalidate, InvalidateSegments, InvalidateCompleted,
                ShutdownNext, ShutdownDone, backend, tracker, queue
  <2> QED BY <1>0, <2>1 DEF RestTyped
<1>6. CASE TimeOut \/ Stopped
  <2>1. /\ UNCHANGED <<log, stop, breaks, load, conns, tasks>> /\ wait' = 0 /\ link' = "down"
    BY <1>6 DEF TimeOut, Stopped, ReaderEnds, tracker
  <2> QED BY <1>0, <2>1 DEF RestTyped
<1>7. ASSUME NEW t \in tasks, Collect(t) PROVE RestTyped'
  <2>1. /\ UNCHANGED <<log, link, stop, breaks, load, conns>> /\ tasks' \subseteq tasks
        /\ wait' \in {wait, clients[t.key]} /\ t.key \in Keys
    BY <1>0, <1>7 DEF Collect, backend
  <2> QED BY <1>0, <2>1 DEF RestTyped
<1>8. ASSUME NEW k \in Keys, Sweep(k) \/ ShutdownClient(k) PROVE RestTyped'
  <2>1. UNCHANGED <<log, link, stop, breaks, load, conns, tasks>> /\ wait' = clients[k]
    BY <1>8 DEF Sweep, ShutdownClient, backend
  <2> QED BY <1>0, <2>1 DEF RestTyped
<1>9. CASE Connect \/ Break \/ Shutdown
  <2>1. UNCHANGED <<log, load, wait, conns, tasks>> /\ link' \in {"up", "stopping", link}
    BY <1>9 DEF Connect, Break, Shutdown, tracker, queue
  <2>2. breaks' \in 0..MaxBreaks
    BY <1>0, <1>9 DEF Connect, Break, Shutdown, RestTyped
  <2>3. stop' = stop \/ stop' = TRUE
    BY <1>9 DEF Connect, Break, Shutdown
  <2> QED BY <2>1, <2>2, <2>3 DEF RestTyped
<1>10. ASSUME NEW t \in tasks, TaskCancelled(t) \/ AppDisconnect(t) PROVE RestTyped'
  <2>1. /\ UNCHANGED <<log, link, stop, breaks, load, wait, conns>>
        /\ tasks' = (tasks \ {t}) \cup { [t EXCEPT !.ended = TRUE] }
    BY <1>10 DEF TaskCancelled, AppDisconnect, backend, queue
  <2>2. [t EXCEPT !.ended = TRUE].conn = t.conn
    BY <1>0
  <2> QED BY <2>1, <2>2 DEF RestTyped
<1>11. ASSUME NEW c \in closers, ForwardClosed(c) PROVE RestTyped'
  <2>1. UNCHANGED <<log, link, stop, breaks, wait, conns, tasks>> /\ load' \in 0..QueueCap
    BY <1>11, PutLoad DEF ForwardClosed, backend, tracker, RestTyped
  <2> QED BY <2>1 DEF RestTyped
<1>12. CASE AppTake
  <2>1. UNCHANGED <<log, link, stop, breaks, wait, conns, tasks>> /\ load' \in 0..QueueCap
    BY <1>12, CapsAssumption DEF AppTake, backend, tracker, RestTyped
  <2> QED BY <2>1 DEF RestTyped
<1>13. CASE UNCHANGED vars
  BY <1>13 DEF vars, backend, tracker, queue, RestTyped
<1> QED
  BY <1>1, <1>2, <1>3, <1>4, <1>5, <1>6, <1>7, <1>8, <1>9, <1>10, <1>11, <1>12, <1>13
     DEF Next, Reader, Stopping, Finished

-----------------------------------------------------------------------------
(* What the tracker remembers, and the envelope the reader has at hand. *)
OfKey(e, k) ==
  e.client = k[1] /\ (e.stream = k[2] \/ (e.stream = None /\ k[2] \in LegacyStreams))

Marked ==
  /\ last \in [Keys -> 0..MaxLog]
  /\ legacy \in [Clients -> LegacyStreams \cup {None}]
  /\ \A c \in Clients, s \in LegacyStreams : clients[<<c, s>>] # 0 => legacy[c] = s

InHand ==
  /\ at \in {"reopen", "open", "init"} => current.kind = "init" /\ OfKey(current, key)
  /\ at \in {"reopen", "open"} /\ current.stream = None =>
       \A s \in LegacyStreams : clients[<<current.client, s>>] = 0
  /\ at = "open" => \A n \in Conns : n = Len(conns) => conns[n].opener = pos - 1
  /\ at = "init" => /\ last[key] = 0
                    /\ \A n \in Conns : clients[key] = n =>
                         conns[n].opener = pos - 1 /\ Len(events[n]) = 1
  /\ at = "incoming" =>
       current.kind \in {"msg", "chunk1"} /\ OfKey(current, key) /\ last[key] < current.seq
  /\ at = "record" /\ current.kind \in Chunks => current.kind = "chunk1"
  /\ at = "closing" => current.kind = "closed"
  /\ at \in Aside => key \in Keys /\ clients[key] = 0

Openers ==
  \A n \in 1..Len(conns) :
    /\ conns[n].opener \in Positions
    /\ log[conns[n].opener].kind = "init" /\ OfKey(log[conns[n].opener], conns[n].key)

TInv == Marked /\ InHand /\ Openers

LEMMA ChunkKinds == Chunks = {"chunk0", "chunk1", "bad"}
  BY DEF Chunks, Segments

LEMMA LastCompletes ==
  ASSUME NEW e, e.kind \in Chunks, Observe(e).complete
  PROVE  e.kind = "chunk1"
<1>1. e.kind # "bad"
  BY DEF Observe
<1>2. Segments[e.kind] # 0
  BY DEF Observe
<1>3. Segments["chunk0"] = 0
  BY DEF Segments
<1> QED BY <1>1, <1>2, <1>3, ChunkKinds

(* remove_client *)
LEMMA ClosedEntries ==
  ASSUME IInv, Marked, NEW k \in Keys, CloseClient(k)
  PROVE  /\ Marked' /\ clients'[k] = 0
         /\ \A j \in Keys : j # k => clients'[j] = clients[j] /\ last'[j] = last[j]
         /\ \A j \in Keys : clients'[j] # 0 => j # k
<1>1. /\ clients' = [clients EXCEPT ![k] = 0] /\ last' = [last EXCEPT ![k] = 0]
      /\ legacy' = IF legacy[k[1]] = k[2] THEN [legacy EXCEPT ![k[1]] = None] ELSE legacy
  BY DEF CloseClient
<1>2. DOMAIN clients = Keys /\ last \in [Keys -> 0..MaxLog] /\ 0 \in 0..MaxLog
  BY CapsAssumption DEF IInv, Typed, Marked
<1>3. /\ clients'[k] = 0 /\ last' \in [Keys -> 0..MaxLog]
      /\ \A j \in Keys : j # k => clients'[j] = clients[j] /\ last'[j] = last[j]
      /\ \A j \in Keys : clients'[j] # 0 => j # k
  BY <1>1, <1>2 DEF IInv, Typed
<1>4. legacy' \in [Clients -> LegacyStreams \cup {None}]
  BY <1>1 DEF Marked
<1>5. ASSUME NEW c \in Clients, NEW s \in LegacyStreams, clients'[<<c, s>>] # 0
      PROVE  legacy'[c] = s
  <2>1. <<c, s>> \in Keys
    BY DEF Keys
  <2>2. <<c, s>> # k
    BY <1>3, <1>5, <2>1
  <2>3. clients[<<c, s>>] # 0
    BY <1>3, <1>5, <2>1, <2>2
  <2>4. legacy[c] = s
    BY <2>3 DEF Marked
  <2>5. k = <<k[1], k[2]>> /\ k[1] \in Clients
    BY DEF Keys
  <2>6. ~ (legacy[k[1]] = k[2] /\ k[1] = c)
    BY <2>2, <2>4, <2>5
  <2> QED BY <1>1, <2>4, <2>5, <2>6 DEF Marked
<1> QED
  BY <1>3, <1>4, <1>5 DEF Marked

LEMMA StreamOfKey ==
  ASSUME Marked, NEW e \in Envelopes, StreamOf(e) # None
  PROVE  <<e.client, StreamOf(e)>> \in Keys /\ OfKey(e, <<e.client, StreamOf(e)>>)
  BY DEF Marked, StreamOf, Envelopes, Keys, OfKey

LEMMA InitKey ==
  ASSUME Marked, NEW e \in Envelopes, NEW s \in InitStreams(e)
  PROVE  <<e.client, s>> \in Keys /\ OfKey(e, <<e.client, s>>)
<1>1. CASE StreamOf(e) # None
  BY <1>1, StreamOfKey DEF InitStreams
<1>2. CASE StreamOf(e) = None
  BY <1>2 DEF InitStreams, StreamOf, Envelopes, Keys, OfKey
<1> QED BY <1>1, <1>2

LEMMA CurrentBounded ==
  ASSUME IInv, LogInv, RestTyped, Reading
  PROVE  /\ current \in Envelopes /\ current.seq \in 0..MaxLog
         /\ pos - 1 \in Positions /\ log[pos - 1] = current
<1>1. pos - 1 \in Positions /\ Len(log) <= MaxLog /\ Len(log) \in Nat
  BY DEF IInv, Typed, AtHand, Reading, RestTyped, Positions
<1>2. current \in Envelopes /\ log[pos - 1] = current
  BY <1>1 DEF current, IInv, Typed, Positions
<1>3. current.seq <= pos - 1 /\ current.seq \in Nat
  BY <1>1, <1>2 DEF LogInv, Bounded, Envelopes
<1> QED BY <1>1, <1>2, <1>3, CapsAssumption DEF Positions

LEMMA OpenersKept ==
  ASSUME Openers, UNCHANGED conns, Positions \subseteq Positions', \A i \in Positions : log'[i] = log[i]
  PROVE  Openers'
  BY DEF Openers, OfKey

LEMMA OpenersGrow ==
  ASSUME IInv, Openers, NEW k, NEW p, conns' = Append(conns, [key |-> k, opener |-> p]),
         k \in Keys, p \in Nat,
         Positions \subseteq Positions', \A i \in Positions : log'[i] = log[i],
         p \in Positions', log'[p].kind = "init", OfKey(log'[p], k)
  PROVE  Openers' /\ conns'[Len(conns')].opener = p
<1>1. /\ Len(conns') = Len(conns) + 1 /\ Len(conns) \in Nat
      /\ conns'[Len(conns) + 1] = [key |-> k, opener |-> p]
      /\ \A n \in 1..Len(conns) : conns'[n] = conns[n]
  BY DEF IInv, Typed, Made
<1>2. ASSUME NEW n \in 1..Len(conns')
      PROVE  /\ conns'[n].opener \in Positions'
             /\ log'[conns'[n].opener].kind = "init" /\ OfKey(log'[conns'[n].opener], conns'[n].key)
  <2>1. CASE n = Len(conns) + 1
    BY <1>1, <2>1
  <2>2. CASE n # Len(conns) + 1
    <3>1. n \in 1..Len(conns) /\ conns'[n] = conns[n]
      BY <1>1, <1>2, <2>2
    <3> QED BY <3>1 DEF Openers
  <2> QED BY <2>1, <2>2
<1> QED BY <1>1, <1>2 DEF Openers, OfKey

LEMMA TInvRead ==
  ASSUME IInv, RestTyped, TInv, NEW e \in Incoming, Takes(e)
  PROVE  TInv'
<1> USE DEF TInv
<1>1. /\ at = "select" /\ pos' = pos + 1 /\ e \in Envelopes /\ current' = e
      /\ Positions \subseteq Positions' /\ pos \in Positions' /\ log'[pos] = e
      /\ \A i \in Positions : log'[i] = log[i]
      /\ ReadDropped(e) \/ ReadInit(e) \/ ReadMessage(e) \/ ReadPing(e) \/ ReadClosed(e)
  BY DEF Takes
<1>2. pos \in Nat /\ pos' - 1 = pos
  BY <1>1 DEF IInv, Typed
<1>3. CASE ReadDropped(e) \/ ReadPing(e)
  <2>1. UNCHANGED <<conns, clients, last, legacy>> /\ at' \in {"select", "record"}
    BY <1>1, <1>3 DEF ReadDropped, ReadPing, tracker
  <2>2. at' = "record" => current'.kind = "ping"
    BY <1>1, <1>3 DEF ReadDropped, ReadPing
  <2>3. Marked' /\ Openers'
    BY <1>1, <2>1, OpenersKept DEF Marked
  <2> QED BY <2>1, <2>2, <2>3, ChunkKinds DEF InHand, Aside
<1>4. CASE ReadMessage(e)
  <2>1. UNCHANGED <<conns, clients, last, legacy>> /\ at' \in {"incoming", "record"}
    BY <1>4 DEF ReadMessage, tracker
  <2>2. current'.kind \in {"msg", "chunk1"}
    BY <1>1, <1>4, LastCompletes DEF ReadMessage, Forwarded
  <2>3. Marked' /\ Openers'
    BY <1>1, <2>1, OpenersKept DEF Marked
  <2>4. at' = "incoming" => OfKey(e, key') /\ last[key'] < e.seq
    BY <1>1, <1>4, StreamOfKey DEF ReadMessage
  <2> QED BY <1>1, <2>1, <2>2, <2>3, <2>4, ChunkKinds DEF InHand, Aside, OfKey
<1>5. CASE ReadClosed(e)
  <2>1. current'.kind = "closed" /\ conns' = conns /\ at' \in {"closing", "record"}
    BY <1>1, <1>5 DEF ReadClosed, tracker
  <2>2. Marked'
    <3>1. CASE StreamOf(e) # None /\ clients[<<e.client, StreamOf(e)>>] # 0
      <4>1. CloseClient(<<e.client, StreamOf(e)>>)
        BY <1>5, <3>1 DEF ReadClosed
      <4> QED BY <1>1, <3>1, <4>1, StreamOfKey, ClosedEntries
    <3>2. CASE ~ (StreamOf(e) # None /\ clients[<<e.client, StreamOf(e)>>] # 0)
      BY <1>5, <3>2 DEF ReadClosed, tracker, Marked
    <3> QED BY <3>1, <3>2
  <2>3. Openers'
    BY <1>1, <2>1, OpenersKept
  <2> QED BY <2>1, <2>2, <2>3, ChunkKinds DEF InHand, Aside
<1>6. CASE ReadInit(e)
  <2>1. PICK s \in InitStreams(e) :
          LET k == <<e.client, s>> IN
          IF clients[k] # 0
            THEN CloseClient(k) /\ at' = "reopen" /\ key' = k /\ UNCHANGED conns
            ELSE /\ StartOpen(k)
                 /\ legacy' = IF e.stream = None THEN [legacy EXCEPT ![e.client] = None] ELSE legacy
                 /\ UNCHANGED <<clients, last>>
    BY <1>6 DEF ReadInit
  <2>2. PICK k : k = <<e.client, s>>
    OBVIOUS
  <2>3. k \in Keys /\ OfKey(e, k) /\ e.kind = "init"
    BY <1>1, <1>6, <2>2, InitKey DEF ReadInit
  <2>4. CASE clients[k] # 0
    <3>1. CloseClient(k) /\ at' = "reopen" /\ key' = k /\ UNCHANGED conns
      BY <2>1, <2>2, <2>4
    <3>2. Marked' /\ Openers'
      BY <1>1, <2>3, <3>1, OpenersKept, ClosedEntries
    <3>3. ASSUME e.stream = None, NEW t \in LegacyStreams PROVE clients'[<<e.client, t>>] = 0
      <4>1. <<e.client, t>> \in Keys
        BY <1>1 DEF Keys, Envelopes
      <4>2. clients[<<e.client, t>>] # 0 => t = s
        <5> SUFFICES ASSUME clients[<<e.client, t>>] # 0 PROVE t = s
          OBVIOUS
        <5>1. legacy[e.client] = t /\ t # None
          BY <1>1, NamesAssumption DEF Marked, Envelopes
        <5>2. StreamOf(e) = t
          BY <3>3, <5>1 DEF StreamOf
        <5> QED BY <5>1, <5>2 DEF InitStreams
      <4> QED BY <2>2, <2>3, <3>1, <4>1, <4>2, ClosedEntries
    <3> QED BY <1>1, <2>3, <3>1, <3>2, <3>3 DEF InHand, Aside, OfKey
  <2>5. CASE clients[k] = 0
    <3>1. /\ conns' = Append(conns, [key |-> k, opener |-> pos]) /\ at' = "open" /\ key' = k
          /\ legacy' = IF e.stream = None THEN [legacy EXCEPT ![e.client] = None] ELSE legacy
          /\ UNCHANGED <<clients, last>>
      BY <1>2, <2>1, <2>2, <2>5 DEF StartOpen
    <3>2. Openers' /\ conns'[Len(conns')].opener = pos
      BY <1>1, <1>2, <2>3, <3>1, OpenersGrow
    <3>3. Marked'
      <4>1. legacy' \in [Clients -> LegacyStreams \cup {None}]
        BY <3>1 DEF Marked
      <4>2. ASSUME NEW c \in Clients, NEW t \in LegacyStreams, clients'[<<c, t>>] # 0
            PROVE  legacy'[c] = t
        <5>1. legacy[c] = t /\ clients[<<c, t>>] # 0
          BY <3>1, <4>2 DEF Marked
        <5>2. t # None
          BY NamesAssumption
        <5>3. ~ (e.stream = None /\ e.client = c)
          <6> SUFFICES ASSUME e.stream = None, e.client = c PROVE FALSE
            OBVIOUS
          <6>1. StreamOf(e) = t
            BY <5>1 DEF StreamOf
          <6>2. s = t
            BY <5>2, <6>1 DEF InitStreams
          <6> QED BY <2>2, <2>5, <5>1, <6>2
        <5> QED BY <3>1, <5>1, <5>3 DEF Marked
      <4> QED BY <3>1, <4>1, <4>2 DEF Marked
    <3>4. ASSUME e.stream = None, NEW t \in LegacyStreams PROVE clients'[<<e.client, t>>] = 0
      <4>1. e.client \in Clients /\ t # None
        BY <1>1, NamesAssumption DEF Envelopes
      <4>2. legacy'[e.client] = None
        BY <3>1, <3>4, <4>1 DEF Marked
      <4> QED BY <3>3, <4>1, <4>2 DEF Marked
    <3> QED BY <1>1, <1>2, <2>3, <3>1, <3>2, <3>3, <3>4 DEF InHand, Aside, OfKey
  <2> QED BY <2>4, <2>5
<1> QED BY <1>1, <1>3, <1>4, <1>5, <1>6

LEMMA TInvStep ==
  ASSUME IInv, LogInv, RestTyped, TInv, [Next]_vars
  PROVE  TInv'
<1> USE DEF TInv
<1>1. ASSUME NEW e \in Incoming, Takes(e) PROVE TInv'
  BY <1>1, TInvRead
<1>2. CASE Reopen
  <2>1. /\ UNCHANGED <<log, pos, clients, last, legacy, key>> /\ at = "reopen" /\ at' = "open"
        /\ conns' = Append(conns, [key |-> key, opener |-> pos - 1])
    BY <1>2 DEF Reopen, backend
  <2>2. /\ current' = current /\ Positions' = Positions
        /\ key \in Keys /\ pos - 1 \in Positions /\ pos - 1 \in Nat /\ log[pos - 1] = current
    BY <2>1, CurrentBounded DEF Reading, current, Positions, IInv, AtHand
  <2>3. Openers' /\ conns'[Len(conns')].opener = pos - 1
    BY <2>1, <2>2, OpenersGrow DEF InHand
  <2> QED BY <2>1, <2>2, <2>3 DEF InHand, Aside, Marked, OfKey
<1>3. CASE Open
  <2>1. /\ UNCHANGED <<log, pos, conns, key>> /\ at = "open" /\ at' = "init"
        /\ clients' = [clients EXCEPT ![key] = Len(conns)] /\ last' = [last EXCEPT ![key] = 0]
        /\ legacy' = IF current.stream = None THEN [legacy EXCEPT ![key[1]] = key[2]] ELSE legacy
        /\ Put(Len(conns), [is |-> "opened", seq |-> 0])
    BY <1>3 DEF Open, backend
  <2>2. /\ current' = current /\ Positions' = Positions /\ current \in Envelopes
        /\ key \in Keys /\ current.kind = "init" /\ OfKey(current, key)
        /\ Len(conns) \in Conns /\ events[Len(conns)] = <<>>
    BY <2>1, CurrentBounded, ConnRange DEF Reading, current, Positions, IInv, AtHand, InHand, Typed
  <2>3. key[1] \in Clients /\ key[2] \in Streams \cup LegacyStreams /\ key = <<key[1], key[2]>>
    BY <2>2 DEF Keys
  <2>4. current.stream = None => key[2] \in LegacyStreams
    BY <2>2, <2>3, NamesAssumption DEF OfKey
  <2>5. current.stream # None => key[2] \notin LegacyStreams
    BY <2>2, <2>3, NamesAssumption DEF OfKey, Envelopes
  <2>6. Marked'
    <3>1. last' \in [Keys -> 0..MaxLog]
      <4>1. 0 \in 0..MaxLog
        BY CapsAssumption
      <4> QED BY <2>1, <4>1 DEF Marked
    <3>2. legacy' \in [Clients -> LegacyStreams \cup {None}]
      BY <2>1, <2>4 DEF Marked
    <3>3. ASSUME NEW c \in Clients, NEW s \in LegacyStreams, clients'[<<c, s>>] # 0
          PROVE  legacy'[c] = s
      <4>1. <<c, s>> \in Keys
        BY DEF Keys
      <4>2. CASE <<c, s>> = key
        <5>1. key[1] = c /\ key[2] = s
          BY <4>2
        <5> QED BY <2>1, <2>3, <2>5, <5>1 DEF Marked
      <4>3. CASE <<c, s>> # key
        <5>1. clients[<<c, s>>] # 0
          BY <2>1, <3>3, <4>1, <4>3
        <5>2. legacy[c] = s
          BY <5>1 DEF Marked
        <5>3. ~ (current.stream = None /\ key[1] = c)
          BY <2>1, <2>2, <5>1 DEF InHand, OfKey
        <5> QED BY <2>1, <2>3, <5>2, <5>3 DEF Marked
      <4> QED BY <4>2, <4>3
    <3> QED BY <3>1, <3>2, <3>3 DEF Marked
  <2>7. Openers'
    BY <2>1, <2>2, OpenersKept
  <2>8. \A n \in Conns : clients'[key] = n => conns[n].opener = pos - 1 /\ Len(events'[n]) = 1
    <3>1. clients'[key] = Len(conns)
      BY <2>1, <2>2 DEF IInv, Typed
    <3>2. events'[Len(conns)] = Append(events[Len(conns)], [is |-> "opened", seq |-> 0])
      BY <2>1, <2>2 DEF Put, IInv, Typed
    <3>3. Len(events'[Len(conns)]) = 1
      BY <2>2, <3>2
    <3> QED BY <2>1, <2>2, <3>1, <3>3 DEF InHand
  <2>9. last'[key] = 0
    BY <2>1, <2>2 DEF Marked
  <2> QED BY <2>1, <2>2, <2>6, <2>7, <2>8, <2>9 DEF InHand, Aside, OfKey
<1>4. CASE SendInit \/ SendIncoming
  <2>1. /\ UNCHANGED <<log, pos, conns, clients, legacy, key>> /\ at \in {"init", "incoming"}
        /\ at' = "record" /\ last' \in {last, [last EXCEPT ![key] = current.seq]}
    BY <1>4 DEF SendInit, SendIncoming, backend
  <2>2. current' = current /\ Positions' = Positions /\ current.seq \in 0..MaxLog
    BY <2>1, CurrentBounded DEF Reading, current, Positions
  <2>3. current.kind \in {"init", "msg", "chunk1"}
    BY <2>1 DEF InHand
  <2>4. last' \in [Keys -> 0..MaxLog]
    BY <2>1, <2>2 DEF Marked
  <2>5. Marked' /\ Openers'
    BY <2>1, <2>2, <2>4, OpenersKept DEF Marked
  <2> QED BY <2>1, <2>2, <2>3, <2>5, ChunkKinds DEF InHand, Aside
<1>5. CASE Closed
  <2>1. /\ UNCHANGED <<log, pos, conns, clients, last, legacy, key>> /\ at = "closing" /\ at' = "record"
    BY <1>5 DEF Closed, backend, tracker
  <2>2. current' = current /\ Positions' = Positions
    BY <2>1 DEF current, Positions
  <2>3. Marked' /\ Openers'
    BY <2>1, <2>2, OpenersKept DEF Marked
  <2> QED BY <2>1, <2>2, <2>3, ChunkKinds DEF InHand, Aside
<1>6. CASE Record \/ Forget \/ Invalidates \/ Between
  <2>1. /\ UNCHANGED <<log, conns, clients, last, legacy>>
        /\ \/ at' \in {"select", "forget", "off", "done"}
           \/ at' = "collected" /\ at \in Aside /\ key' = key
    BY <1>6 DEF Record, Forget, Invalidates, Between, backend, tracker
  <2>2. Marked' /\ Openers'
    BY <2>1, OpenersKept DEF Marked, Positions
  <2> QED BY <2>1, <2>2 DEF InHand, Aside
<1>7. ASSUME NEW k \in Keys, Closes(k) PROVE TInv'
  <2>1. /\ UNCHANGED <<log, conns>> /\ CloseClient(k)
        /\ (at' \in {"collect", "sweep"} /\ key' = k) \/ at' = "shutdown"
    BY <1>7 DEF Closes
  <2>2. Marked' /\ Openers' /\ clients'[k] = 0
    BY <2>1, OpenersKept, ClosedEntries DEF Positions
  <2> QED BY <2>1, <2>2 DEF InHand, Aside
<1>8. CASE Collects
  <2>1. /\ UNCHANGED <<log, conns, clients, last, legacy>> /\ at' = "collect"
        /\ key' \in Keys /\ clients[key'] = 0
    BY <1>8 DEF Collects
  <2>2. Marked' /\ Openers'
    BY <2>1, OpenersKept DEF Marked, Positions
  <2> QED BY <2>1, <2>2 DEF InHand, Aside
<1>9. CASE Ends
  <2>1. UNCHANGED <<log, conns>> /\ at' = "off"
    BY <1>9 DEF Ends
  <2>2. Marked'
    BY <1>9, ClosedEntries DEF Ends, Marked
  <2>3. Openers'
    BY <2>1, OpenersKept DEF Positions
  <2> QED BY <2>1, <2>2, <2>3 DEF InHand, Aside
<1>10. ASSUME NEW c \in closers, ForwardClosed(c) PROVE TInv'
  <2>1. /\ UNCHANGED <<log, pos, conns, clients, last, legacy, at, key>>
        /\ Put(c, [is |-> "closed", seq |-> 0])
    BY <1>10 DEF ForwardClosed, backend, tracker
  <2>2. current' = current /\ Positions' = Positions
    BY <2>1 DEF current, Positions
  <2>3. Marked' /\ Openers'
    BY <2>1, <2>2, OpenersKept DEF Marked
  <2>4. at = "init" => \A n \in Conns : clients[key] = n => events'[n] = events[n]
    <3> SUFFICES ASSUME at = "init", NEW n \in Conns, clients[key] = n PROVE events'[n] = events[n]
      OBVIOUS
    <3>1. key \in Keys /\ clients[key] # 0
      BY DEF IInv, AtHand
    <3>2. n \in 1..Len(conns)
      BY <3>1 DEF IInv, Typed
    <3>3. n \notin closers
      BY <3>1, <3>2 DEF IInv, Owned
    <3> QED BY <2>1, <3>3 DEF Put, IInv, Typed
  <2> QED BY <2>1, <2>2, <2>3, <2>4 DEF InHand
<1>11. CASE UNCHANGED state
  <2>1. UNCHANGED <<log, pos, conns, clients, last, legacy, at, key, events>>
    BY <1>11 DEF state
  <2>2. current' = current /\ Positions' = Positions
    BY <2>1 DEF current, Positions
  <2>3. Marked' /\ Openers'
    BY <2>1, <2>2, OpenersKept DEF Marked
  <2> QED BY <2>1, <2>2, <2>3 DEF InHand
<1> QED
  BY <1>1, <1>2, <1>3, <1>4, <1>5, <1>6, <1>7, <1>8, <1>9, <1>10, <1>11, Steps

-----------------------------------------------------------------------------
(* The order of a connection's messages.  The last one it got is the one    *)
(* whose number the tracker remembers, or, for a client without stream ids, *)
(* the initialize, whose number it does not remember: what comes after it   *)
(* on such a stream has a larger number, and what came before was recorded. *)
LastSeq(n) == events[n][Len(events[n])].seq

Latest ==
  \A k \in Keys : \A n \in Conns : clients[k] = n /\ Len(events[n]) >= 2 =>
    \/ LastSeq(n) = last[k]
    \/ last[k] = 0 /\ k[2] \in LegacyStreams /\ LastSeq(n) = log[conns[n].opener].seq

Rising ==
  at = "incoming" =>
    \A n \in Conns : clients[key] = n /\ Len(events[n]) >= 2 => LastSeq(n) < current.seq

Increasing ==
  \A n \in Conns : \A i \in 3..Len(events[n]) :
    events[n][i].is = "incoming" => events[n][i - 1].seq < events[n][i].seq

OInv == Latest /\ Rising /\ Increasing

(* An entry of the table that a step leaves is as it was, unless the step *)
(* opens a connection or sends to one.                                    *)
Keeps ==
  /\ \A k \in Keys : clients'[k] # 0 => clients'[k] = clients[k] /\ last'[k] = last[k]
  /\ \A n \in 1..Len(conns) : conns'[n] = conns[n]

LEMMA TakesKeeps == ASSUME IInv, TInv, NEW e \in Incoming, Takes(e) PROVE Keeps
<1>1. e \in Envelopes /\ (ReadDropped(e) \/ ReadInit(e) \/ ReadMessage(e) \/ ReadPing(e) \/ ReadClosed(e))
  BY DEF Takes
<1>2. CASE ReadDropped(e) \/ ReadMessage(e) \/ ReadPing(e)
  BY <1>2 DEF ReadDropped, ReadMessage, ReadPing, tracker, Keeps
<1>3. CASE ReadClosed(e)
  <2>1. CASE StreamOf(e) # None /\ clients[<<e.client, StreamOf(e)>>] # 0
    <3>1. CloseClient(<<e.client, StreamOf(e)>>) /\ conns' = conns
      BY <1>3, <2>1 DEF ReadClosed
    <3>2. <<e.client, StreamOf(e)>> \in Keys
      BY <1>1, <2>1, StreamOfKey DEF TInv
    <3> QED BY <3>1, <3>2, ClosedEntries DEF Keeps, TInv
  <2>2. CASE ~ (StreamOf(e) # None /\ clients[<<e.client, StreamOf(e)>>] # 0)
    BY <1>3, <2>2 DEF ReadClosed, tracker, Keeps
  <2> QED BY <2>1, <2>2
<1>4. CASE ReadInit(e)
  <2>1. PICK s \in InitStreams(e) :
          LET k == <<e.client, s>> IN
          IF clients[k] # 0
            THEN CloseClient(k) /\ UNCHANGED conns
            ELSE StartOpen(k) /\ UNCHANGED <<clients, last>>
    BY <1>4 DEF ReadInit
  <2>2. <<e.client, s>> \in Keys
    BY <1>1, InitKey DEF TInv
  <2>3. CASE clients[<<e.client, s>>] # 0
    BY <2>1, <2>2, <2>3, ClosedEntries DEF Keeps, TInv
  <2>4. CASE clients[<<e.client, s>>] = 0
    <3>1. PICK c : conns' = Append(conns, c) /\ UNCHANGED <<clients, last>>
      BY <2>1, <2>4 DEF StartOpen
    <3> QED BY <3>1 DEF Keeps, IInv, Typed
  <2> QED BY <2>3, <2>4
<1> QED BY <1>1, <1>2, <1>3, <1>4

LEMMA QuietKeeps ==
  ASSUME IInv, TInv,
         \/ Reopen \/ Closed \/ Record \/ Forget \/ Invalidates
         \/ (\E k \in Keys : Closes(k)) \/ Collects \/ Ends \/ Between \/ UNCHANGED state
  PROVE  (Keeps /\ events' = events /\ at' # "incoming") \/ UNCHANGED state
<1>1. CASE Reopen
  <2>1. PICK c : conns' = Append(conns, c) /\ UNCHANGED <<clients, last, events>> /\ at' = "open"
    BY <1>1 DEF Reopen, queue
  <2> QED BY <2>1 DEF Keeps, IInv, Typed
<1>2. CASE Closed \/ Record \/ Forget \/ Invalidates \/ Collects \/ Between
  BY <1>2 DEF Closed, Record, Forget, Invalidates, Collects, Between, Keeps, tracker, queue
<1>3. ASSUME NEW k \in Keys, Closes(k) PROVE Keeps /\ events' = events /\ at' # "incoming"
  BY <1>3, ClosedEntries DEF Closes, Keeps, TInv
<1>4. CASE Ends
  BY <1>4, ClosedEntries DEF Ends, Keeps, TInv
<1> QED BY <1>1, <1>2, <1>3, <1>4

(* An event at the end of a connection's events. *)
LEMMA PutAtEnd ==
  ASSUME IInv, NEW c \in Conns, NEW e \in Events, Put(c, e)
  PROVE  /\ Len(events[c]) \in Nat /\ Len(events'[c]) = Len(events[c]) + 1
         /\ events'[c][Len(events'[c])] = e
         /\ \A i \in 1..Len(events[c]) : events'[c][i] = events[c][i]
         /\ \A d \in Conns : d # c => events'[d] = events[d]
<1>1. events' = [events EXCEPT ![c] = Append(events[c], e)] /\ events \in [Conns -> Seq(Events)]
  BY DEF Put, IInv, Typed
<1>2. events'[c] = Append(events[c], e) /\ events[c] \in Seq(Events)
  BY <1>1
<1> QED BY <1>1, <1>2

(* A connection has one entry in the table. *)
LEMMA OneEntry ==
  ASSUME IInv, NEW j \in Keys, NEW k \in Keys, clients[j] # 0, clients[j] = clients[k]
  PROVE  j = k
<1>1. clients[j] \in 1..Len(conns)
  BY DEF IInv, Typed
<1> QED BY <1>1 DEF IInv, Owned

LEMMA EntryConn ==
  ASSUME IInv, NEW k \in Keys, clients[k] # 0
  PROVE  /\ clients[k] \in 1..Len(conns) /\ clients[k] \in Conns /\ clients[k] \notin closers
         /\ conns[clients[k]].key = k
<1>1. clients[k] \in 1..Len(conns)
  BY DEF IInv, Typed
<1> QED BY <1>1, ConnRange DEF IInv, Owned

LEMMA IncreasingPut ==
  ASSUME IInv, Increasing, NEW c \in Conns, NEW e \in Events, Put(c, e),
         e.is = "incoming" /\ Len(events[c]) >= 2 => LastSeq(c) < e.seq
  PROVE  Increasing'
<1>1. /\ Len(events[c]) \in Nat /\ Len(events'[c]) = Len(events[c]) + 1
      /\ events'[c][Len(events'[c])] = e
      /\ \A i \in 1..Len(events[c]) : events'[c][i] = events[c][i]
      /\ \A d \in Conns : d # c => events'[d] = events[d]
  BY PutAtEnd
<1>2. ASSUME NEW d \in Conns, NEW i \in 3..Len(events'[d]), events'[d][i].is = "incoming"
      PROVE  events'[d][i - 1].seq < events'[d][i].seq
  <2>1. CASE d # c
    BY <1>1, <1>2, <2>1 DEF Increasing
  <2>2. CASE d = c /\ i = Len(events'[c])
    <3>1. i - 1 = Len(events[c]) /\ i - 1 \in 1..Len(events[c]) /\ Len(events[c]) >= 2
      BY <1>1, <1>2, <2>2
    <3>2. events'[c][i - 1].seq = LastSeq(c)
      BY <1>1, <3>1 DEF LastSeq
    <3> QED BY <1>1, <1>2, <2>2, <3>1, <3>2
  <2>3. CASE d = c /\ i # Len(events'[c])
    <3>1. i \in 3..Len(events[c]) /\ i - 1 \in 1..Len(events[c]) /\ i \in 1..Len(events[c])
      BY <1>1, <1>2, <2>3
    <3> QED BY <1>1, <1>2, <2>3, <3>1 DEF Increasing
  <2> QED BY <2>1, <2>2, <2>3
<1> QED BY <1>2 DEF Increasing

LEMMA LegacyLater ==
  ASSUME IInv, LogInv', Recorded, TInv, NEW e \in Incoming, Takes(e),
         e.kind \in {"msg"} \cup Chunks,
         NEW k \in Keys, OfKey(e, k), k[2] \in LegacyStreams,
         NEW n \in 1..Len(conns), conns[n].key = k
  PROVE  log[conns[n].opener].seq < e.seq
<1>0. PICK o : o = conns[n].opener
  OBVIOUS
<1>1. o \in Positions /\ log[o].kind = "init" /\ OfKey(log[o], k)
  BY <1>0 DEF TInv, Openers
<1>2. /\ Positions \subseteq Positions' /\ pos \in Positions' /\ log'[pos] = e /\ log'[o] = log[o]
      /\ e \in Envelopes /\ log[o] \in Envelopes /\ o \in 1..Len(log)
      /\ pos \in Nat /\ cursor \in Nat /\ Len(log) \in Nat /\ (pos \in Positions => log[pos] = e)
      /\ Len(log') \in Nat
  <2>1. /\ Positions \subseteq Positions' /\ pos \in Positions' /\ log'[pos] = e /\ e \in Envelopes
        /\ \A i \in Positions : log'[i] = log[i]
    BY DEF Takes
  <2>2. /\ o \in 1..Len(log) /\ log[o] \in Envelopes
        /\ pos \in Nat /\ cursor \in Nat /\ Len(log) \in Nat
    BY <1>1 DEF IInv, Typed, Positions
  <2>3. Len(log') \in Nat
    BY DEF Takes, IInv, Typed
  <2> QED BY <1>1, <2>1, <2>2, <2>3
<1>3. e.stream = None /\ log[o].stream = None /\ e.client = log[o].client
  BY <1>1, <1>2, NamesAssumption DEF OfKey, Envelopes
<1>4. e.kind \notin Chunks /\ e.kind = "msg"
  BY <1>2, <1>3 DEF LogInv, Bounded
<1>5. cursor < pos
  BY DEF Recorded
<1>6. ~ pos < o
  <2> SUFFICES ASSUME pos < o PROVE FALSE
    OBVIOUS
  <2>1. pos \in Positions /\ pos < Len(log)
    BY <1>2 DEF IInv, Typed, Positions
  <2>2. log[pos].kind \in Chunks
    BY <1>5, <2>1 DEF Recorded
  <2> QED BY <1>2, <1>4, <2>1, <2>2
<1>7. pos # o
  BY <1>1, <1>2, <1>4
<1>8. o < pos
  BY <1>2, <1>6, <1>7
<1>9. Before(log'[o], log'[pos])
  <2>1. o \in Positions' /\ SameStream(log'[o], log'[pos]) /\ Numbered(log'[o]) /\ Numbered(log'[pos])
    BY <1>1, <1>2, <1>3, <1>4 DEF SameStream, Numbered
  <2>2. \A i, j \in Positions' :
          i < j /\ SameStream(log'[i], log'[j]) /\ Numbered(log'[i]) /\ Numbered(log'[j])
            => Before(log'[i], log'[j])
    BY DEF LogInv, StreamOrder, SameStream, Numbered, Before, Second
  <2> QED BY <1>2, <1>8, <2>1, <2>2
<1> QED BY <1>0, <1>1, <1>2, <1>9 DEF Before

LEMMA OInvRead ==
  ASSUME IInv, LogInv', Recorded, TInv, OInv, NEW e \in Incoming, Takes(e)
  PROVE  OInv'
<1>1. Keeps /\ events' = events
  BY TakesKeeps DEF Takes
<1>2. ASSUME NEW k \in Keys, NEW n \in Conns, clients'[k] = n
      PROVE  /\ clients[k] = n /\ last'[k] = last[k] /\ n \in 1..Len(conns) /\ conns[n].key = k
             /\ conns'[n] = conns[n] /\ log'[conns[n].opener] = log[conns[n].opener]
  <2>1. n # 0 /\ clients[k] = n /\ last'[k] = last[k]
    BY <1>1, <1>2 DEF Keeps, Conns
  <2>2. n \in 1..Len(conns) /\ conns[n].key = k
    BY <2>1, EntryConn
  <2> QED BY <1>1, <2>1, <2>2 DEF Keeps, TInv, Openers, Takes
<1>3. Latest'
  BY <1>1, <1>2 DEF OInv, Latest, LastSeq
<1>4. Rising'
  <2> SUFFICES ASSUME at' = "incoming", NEW n \in Conns, clients'[key'] = n, Len(events[n]) >= 2
               PROVE  LastSeq(n) < e.seq
    BY <1>1 DEF Rising, LastSeq, Takes
  <2>1. ReadMessage(e)
    BY DEF Takes, ReadDropped, ReadInit, StartOpen, ReadPing, ReadClosed
  <2>2. StreamOf(e) # None /\ key' = <<e.client, StreamOf(e)>> /\ last[key'] < e.seq
        /\ e.kind \in {"msg"} \cup Chunks
    BY <2>1 DEF ReadMessage
  <2>3. PICK k : k = key'
    OBVIOUS
  <2>4. k \in Keys /\ OfKey(e, k) /\ last[k] < e.seq
    BY <2>2, <2>3, StreamOfKey DEF Takes, TInv
  <2>5. clients[k] = n /\ n \in 1..Len(conns) /\ conns[n].key = k
    BY <1>2, <2>3, <2>4
  <2>6. CASE LastSeq(n) = last[k]
    BY <2>4, <2>6
  <2>7. CASE k[2] \in LegacyStreams /\ LastSeq(n) = log[conns[n].opener].seq
    BY <2>2, <2>4, <2>5, <2>7, LegacyLater
  <2> QED BY <2>4, <2>5, <2>6, <2>7 DEF OInv, Latest
<1>5. Increasing'
  BY <1>1 DEF OInv, Increasing
<1> QED BY <1>3, <1>4, <1>5 DEF OInv

LEMMA OInvStep ==
  ASSUME IInv, LogInv, LogInv', Recorded, RestTyped, TInv, OInv, [Next]_vars
  PROVE  OInv'
<1>1. ASSUME NEW e \in Incoming, Takes(e) PROVE OInv'
  BY <1>1, OInvRead
<1>2. CASE Keeps /\ events' = events /\ at' # "incoming" /\ log' = log
  <2>1. ASSUME NEW k \in Keys, NEW n \in Conns, clients'[k] = n
        PROVE  clients[k] = n /\ last'[k] = last[k] /\ conns'[n] = conns[n]
    <3>1. n # 0 /\ clients[k] = n /\ last'[k] = last[k]
      BY <1>2, <2>1 DEF Keeps, Conns
    <3> QED BY <1>2, <3>1, EntryConn DEF Keeps
  <2> QED BY <1>2, <2>1 DEF OInv, Latest, Rising, Increasing, LastSeq
<1>3. CASE UNCHANGED state
  BY <1>3 DEF state, OInv, Latest, Rising, Increasing, LastSeq, current
<1>4. CASE Open
  <2>0. PICK c, ev : c = Len(conns) /\ ev = [is |-> "opened", seq |-> 0]
    OBVIOUS
  <2>1. /\ Put(c, ev) /\ UNCHANGED <<log, conns>> /\ at = "open" /\ at' = "init"
        /\ clients' = [clients EXCEPT ![key] = c] /\ last' = [last EXCEPT ![key] = 0]
    BY <1>4, <2>0 DEF Open, backend
  <2>2. c \in Conns /\ ev \in Events /\ ev.is = "opened" /\ key \in Keys /\ events[c] = <<>>
    BY <2>0, <2>1, ConnRange DEF IInv, AtHand, Typed, Events
  <2>3. Increasing'
    BY <2>1, <2>2, IncreasingPut DEF OInv
  <2>4. Len(events'[c]) = 1 /\ \A d \in Conns : d # c => events'[d] = events[d]
    <3>1. Len(events[c]) = 0
      BY <2>2
    <3>2. /\ Len(events'[c]) = Len(events[c]) + 1
          /\ \A d \in Conns : d # c => events'[d] = events[d]
      BY <2>1, <2>2, PutAtEnd
    <3> QED BY <3>1, <3>2
  <2>5. ASSUME NEW k \in Keys, NEW n \in Conns, clients'[k] = n, Len(events'[n]) >= 2
        PROVE  k # key /\ clients[k] = n /\ last'[k] = last[k] /\ n # c
    <3>1. DOMAIN clients = Keys /\ DOMAIN last = Keys
      BY DEF IInv, Typed, TInv, Marked
    <3>2. n # c
      <4> SUFFICES ASSUME n = c PROVE FALSE
        OBVIOUS
      <4>1. Len(events'[n]) = 1
        BY <2>4
      <4>2. 1 >= 2
        BY <2>5, <4>1
      <4> QED BY <4>2
    <3>3. clients'[key] = c
      BY <2>1, <2>2, <3>1
    <3> QED BY <2>1, <2>5, <3>1, <3>2, <3>3
  <2>6. Latest'
    BY <2>1, <2>4, <2>5 DEF OInv, Latest, LastSeq
  <2> QED BY <2>1, <2>3, <2>6 DEF OInv, Rising
<1>5. CASE SendInit \/ SendIncoming
  <2>0. PICK c, ev : c = clients[key] /\ ev = [is |-> "incoming", seq |-> current.seq]
    OBVIOUS
  <2>1. /\ Put(c, ev) /\ UNCHANGED <<log, conns, clients, key>> /\ at \in {"init", "incoming"}
        /\ at' = "record"
        /\ \/ at = "init" /\ last' = last /\ current.stream = None
           \/ last' = [last EXCEPT ![key] = current.seq]
    BY <1>5, <2>0 DEF SendInit, SendIncoming, backend
  <2>2. key \in Keys /\ clients[key] # 0
    BY <2>1 DEF IInv, AtHand
  <2>3. c \in Conns /\ ev \in Events /\ ev.is = "incoming" /\ ev.seq = current.seq
        /\ current \in Envelopes /\ log[pos - 1] = current
    BY <2>0, <2>1, <2>2, EntryConn, CurrentBounded DEF Reading, Events, Envelopes
  <2>4. Increasing'
    <3>1. Len(events[c]) >= 2 => LastSeq(c) < ev.seq
      <4>1. CASE at = "init"
        <5>1. Len(events[c]) = 1
          BY <2>0, <2>3, <4>1 DEF TInv, InHand
        <5> QED BY <5>1
      <4>2. CASE at = "incoming"
        BY <2>0, <2>3, <4>2 DEF OInv, Rising
      <4> QED BY <2>1, <4>1, <4>2
    <3> QED BY <2>1, <2>3, <3>1, IncreasingPut DEF OInv
  <2>5. /\ events'[c][Len(events'[c])] = ev /\ \A d \in Conns : d # c => events'[d] = events[d]
    BY <2>1, <2>3, PutAtEnd
  <2>6. ASSUME NEW k \in Keys, NEW n \in Conns, clients'[k] = n, Len(events'[n]) >= 2
        PROVE  \/ LastSeq(n)' = last'[k]
               \/ /\ last'[k] = 0 /\ k[2] \in LegacyStreams
                  /\ LastSeq(n)' = log'[conns'[n].opener].seq
    <3>1. CASE k = key
      <4>1. n = c /\ LastSeq(n)' = current.seq
        BY <2>0, <2>1, <2>3, <2>5, <2>6, <3>1 DEF LastSeq
      <4>2. CASE at = "init" /\ last' = last /\ current.stream = None
        <5>1. last[key] = 0 /\ conns[c].opener = pos - 1 /\ OfKey(current, key)
          BY <2>0, <2>3, <4>2 DEF TInv, InHand
        <5>2. key[2] \in LegacyStreams
          BY <2>2, <4>2, <5>1, NamesAssumption DEF OfKey, Keys
        <5> QED BY <2>1, <2>3, <3>1, <4>1, <4>2, <5>1, <5>2
      <4>3. CASE last' = [last EXCEPT ![key] = current.seq]
        BY <2>2, <3>1, <4>1, <4>3 DEF TInv, Marked
      <4> QED BY <2>1, <4>2, <4>3
    <3>2. CASE k # key
      <4>1. clients[k] = n /\ n # 0 /\ last'[k] = last[k]
        BY <2>1, <2>6, <3>2 DEF Conns, TInv, Marked
      <4>2. n # c
        BY <2>0, <2>2, <3>2, <4>1, OneEntry
      <4> QED BY <2>1, <2>5, <2>6, <4>1, <4>2 DEF OInv, Latest, LastSeq
    <3> QED BY <3>1, <3>2
  <2>7. Latest'
    BY <2>6 DEF Latest
  <2> QED BY <2>1, <2>4, <2>7 DEF OInv, Rising
<1>6. ASSUME NEW c \in closers, ForwardClosed(c) PROVE OInv'
  <2>0. PICK ev : ev = [is |-> "closed", seq |-> 0]
    OBVIOUS
  <2>1. Put(c, ev) /\ UNCHANGED <<log, pos, conns, clients, last, at, key>>
    BY <1>6, <2>0 DEF ForwardClosed, backend, tracker
  <2>2. c \in Conns /\ ev \in Events /\ ev.is = "closed"
    BY <2>0, ConnRange DEF Events, IInv, Typed
  <2>3. Increasing'
    BY <2>1, <2>2, IncreasingPut DEF OInv
  <2>4. \A d \in Conns : d # c => events'[d] = events[d]
    BY <2>1, <2>2, PutAtEnd
  <2>5. \A k \in Keys : clients[k] # c
    BY EntryConn, <2>2 DEF Conns
  <2>6. Latest'
    BY <2>1, <2>4, <2>5 DEF OInv, Latest, LastSeq
  <2>7. at = "incoming" => key \in Keys
    BY DEF IInv, AtHand
  <2>8. Rising'
    BY <2>1, <2>4, <2>5, <2>7 DEF OInv, Rising, LastSeq, current
  <2> QED BY <2>3, <2>6, <2>8 DEF OInv
<1>7. ASSUME \/ Reopen \/ Closed \/ Record \/ Forget \/ Invalidates
             \/ (\E k \in Keys : Closes(k)) \/ Collects \/ Ends \/ Between
      PROVE  OInv'
  <2>1. log' = log
    BY <1>7 DEF Reopen, Closed, Record, Forget, Invalidates, Closes, Collects, Ends, Between, backend
  <2> QED BY <1>2, <1>3, <1>7, <2>1, QuietKeeps
<1> QED
  BY <1>1, <1>3, <1>4, <1>5, <1>6, <1>7, Steps

JInv == IInv /\ LogInv /\ Recorded /\ RestTyped /\ TInv

LEMMA JInvInit == Init => JInv /\ OInv
<1> SUFFICES ASSUME Init PROVE JInv /\ OInv
  OBVIOUS
<1>1. IInv
  BY InitSafe
<1>2. Positions = {} /\ Len(log) = 0 /\ Len(conns) = 0 /\ \A c \in Conns : Len(events[c]) = 0
  BY DEF Init, Positions
<1>3. LogInv
  BY <1>2 DEF LogInv, Bounded, Counted, StreamOrder, Paired, OpenMessage
<1>4. Recorded
  BY <1>2 DEF Init, Recorded, Reading
<1>5. RestTyped
  <2>1. /\ breaks \in 0..MaxBreaks /\ load \in 0..QueueCap /\ wait \in 0..Len(conns)
        /\ Len(log) <= MaxLog
    BY <1>2, CapsAssumption DEF Init
  <2>2. stop \in BOOLEAN /\ link \in {"up", "stopping", "down"} /\ tasks = {}
    BY DEF Init
  <2> QED BY <2>1, <2>2 DEF RestTyped
<1>6. TInv
  BY <1>2, CapsAssumption DEF Init, TInv, Marked, InHand, Aside, Openers, Keys
<1>7. OInv
  BY <1>2 DEF Init, OInv, Latest, Rising, Increasing
<1> QED BY <1>1, <1>3, <1>4, <1>5, <1>6, <1>7 DEF JInv

LEMMA JInvStep == JInv /\ [Next]_vars => JInv'
<1> SUFFICES ASSUME JInv, [Next]_vars PROVE JInv'
  OBVIOUS
<1> USE DEF JInv
<1>1. log' = log \/ \E e \in Incoming : Takes(e)
  BY Steps DEF Reopen, Open, SendInit, SendIncoming, Closed, Record, Forget, Invalidates, Closes, Collects,
               Ends, Between, ForwardClosed, state, backend
<1>2. LogInv'
  BY <1>1, LogStep
<1> QED BY <1>2, NextSafe, RecordedStep, RestTypedStep, TInvStep

(* What the app server sees of a connection is ConnectionOpened, the        *)
(* client's messages, each once and in the order of their numbers, and at   *)
(* most one ConnectionClosed, whatever is delivered again                   *)
(* (ClientTracker::handle_message), for clients with and without stream     *)
(* ids and any number of envelopes, connections and lost websockets.        *)
THEOREM OrderOfConnections == Spec => []ConnectionOrder
<1>1. JInv /\ OInv /\ [Next]_vars => (JInv /\ OInv)'
  BY JInvStep, OInvStep DEF JInv
<1>2. JInv /\ OInv => ConnectionOrder
  BY DEF JInv, IInv, OInv, Increasing, ConnectionOrder
<1> QED BY <1>1, <1>2, JInvInit, PTL DEF Spec

-----------------------------------------------------------------------------
(* The reassembler's table. *)
Asms == [client : Clients, stream : Streams, seq : 0..MaxLog, next : Nat]
In(x, tb) == \E i \in 1..Len(tb) : tb[i] = x
OneEach(tb) == \A i, j \in 1..Len(tb) : tb[i].client = tb[j].client => i = j
Table(tb) == tb \in Seq(Asms) /\ OneEach(tb)

LEMMA FunctionIsSequence ==
  ASSUME NEW S, NEW n \in Nat, NEW r \in [1..n -> S]
  PROVE  r \in Seq(S) /\ Len(r) = n
OBVIOUS

LEMMA WithoutOne ==
  ASSUME NEW tb, Table(tb), NEW P \in SUBSET (1..Len(tb)), \A i, j \in P : i = j
  PROVE  /\ Table(Without(tb, P)) /\ Len(Without(tb, P)) <= Len(tb)
         /\ P # {} => Len(Without(tb, P)) = Len(tb) - 1
         /\ \A x : In(x, Without(tb, P)) <=> \E j \in 1..Len(tb) \ P : tb[j] = x
<1>a. OneEach(tb)
  BY DEF Table
<1>b. tb \in Seq(Asms)
  BY DEF Table
<1>0. tb \in Seq(Asms) /\ Len(tb) \in Nat
  BY <1>b
<1>1. CASE P = {}
  BY <1>0, <1>1 DEF Without, In
<1>2. CASE P # {}
  <2>1. PICK i \in P : P = {i}
    BY <1>2
  <2>2. i \in 1..Len(tb) /\ (CHOOSE j \in P : TRUE) = i
    BY <2>1
  <2> DEFINE r == [j \in 1..Len(tb) - 1 |-> tb[IF j < i THEN j ELSE j + 1]]
  <2>3. Without(tb, P) = r
    BY <1>2, <2>2 DEF Without
  <2>4. r \in Seq(Asms) /\ Len(r) = Len(tb) - 1
    <3>1. \A j \in 1..Len(tb) - 1 : tb[IF j < i THEN j ELSE j + 1] \in Asms
      BY <1>0, <2>2
    <3>2. r \in [1..Len(tb) - 1 -> Asms] /\ Len(tb) - 1 \in Nat
      BY <1>0, <2>2, <3>1
    <3> HIDE DEF r
    <3> QED BY <3>2, FunctionIsSequence
  <2>5. \A j \in 1..Len(r) : r[j] = tb[IF j < i THEN j ELSE j + 1]
    BY <2>4
  <2> HIDE DEF r
  <2>6. OneEach(r)
    <3> SUFFICES ASSUME NEW j1 \in 1..Len(r), NEW j2 \in 1..Len(r), r[j1].client = r[j2].client
                 PROVE  j1 = j2
      BY DEF OneEach
    <3>1. PICK m1 \in 1..Len(tb), m2 \in 1..Len(tb) :
            /\ m1 = IF j1 < i THEN j1 ELSE j1 + 1
            /\ m2 = IF j2 < i THEN j2 ELSE j2 + 1
      BY <1>0, <2>2, <2>4
    <3>2. tb[m1].client = tb[m2].client
      BY <2>5, <3>1
    <3>3. m1 = m2
      BY <1>a, <3>2 DEF OneEach
    <3> QED BY <1>0, <2>2, <2>4, <3>1, <3>3
  <2>7. ASSUME NEW x PROVE In(x, r) <=> \E j \in 1..Len(tb) \ P : tb[j] = x
    <3>1. ASSUME NEW j \in 1..Len(r), r[j] = x PROVE \E m \in 1..Len(tb) \ P : tb[m] = x
      <4>1. PICK m : m = IF j < i THEN j ELSE j + 1
        OBVIOUS
      <4>2. m \in 1..Len(tb) /\ m # i
        BY <1>0, <2>2, <2>4, <4>1
      <4> QED BY <2>1, <2>5, <3>1, <4>1, <4>2
    <3>2. ASSUME NEW m \in 1..Len(tb) \ P, tb[m] = x PROVE \E j \in 1..Len(r) : r[j] = x
      <4>1. PICK j : j = IF m < i THEN m ELSE m - 1
        OBVIOUS
      <4>2. j \in 1..Len(r) /\ m = IF j < i THEN j ELSE j + 1
        BY <1>0, <2>1, <2>2, <2>4, <4>1
      <4> QED BY <2>5, <3>2, <4>2
    <3> QED BY <3>1, <3>2 DEF In
  <2> QED BY <1>0, <2>3, <2>4, <2>6, <2>7 DEF Table
<1> QED BY <1>1, <1>2

LEMMA TableAppend ==
  ASSUME NEW tb, Table(tb), NEW x \in Asms, \A y : In(y, tb) => y.client # x.client
  PROVE  /\ Table(Append(tb, x)) /\ Len(Append(tb, x)) = Len(tb) + 1
         /\ \A y : In(y, Append(tb, x)) <=> In(y, tb) \/ y = x
<1>a. OneEach(tb)
  BY DEF Table
<1>b. tb \in Seq(Asms)
  BY DEF Table
<1>0. tb \in Seq(Asms) /\ Len(tb) \in Nat
  BY <1>b
<1>1. PICK r : r = Append(tb, x)
  OBVIOUS
<1>2. /\ r \in Seq(Asms) /\ Len(r) = Len(tb) + 1 /\ r[Len(tb) + 1] = x
      /\ \A i \in 1..Len(tb) : r[i] = tb[i]
  BY <1>0, <1>1
<1>3. \A i \in 1..Len(r) : i \in 1..Len(tb) \/ i = Len(tb) + 1
  BY <1>0, <1>2
<1>4. OneEach(r)
  <2> SUFFICES ASSUME NEW i \in 1..Len(r), NEW j \in 1..Len(r), r[i].client = r[j].client
               PROVE  i = j
    BY DEF OneEach
  <2> QED BY <1>a, <1>0, <1>2, <1>3 DEF OneEach, In
<1>5. \A y : In(y, r) <=> In(y, tb) \/ y = x
  <2>1. ASSUME NEW y, In(y, r) PROVE In(y, tb) \/ y = x
    BY <1>2, <1>3, <2>1 DEF In
  <2>2. ASSUME NEW y, In(y, tb) PROVE In(y, r)
    <3>1. 1..Len(tb) \subseteq 1..Len(r)
      BY <1>0, <1>2
    <3> QED BY <1>2, <2>2, <3>1 DEF In
  <2>3. In(x, r)
    <3>1. Len(tb) + 1 \in 1..Len(r)
      BY <1>0, <1>2
    <3> QED BY <1>2, <3>1 DEF In
  <2> QED BY <2>1, <2>2, <2>3
<1> QED BY <1>1, <1>2, <1>4, <1>5 DEF Table

LEMMA TableTail ==
  ASSUME NEW tb, Table(tb), Len(tb) > 0
  PROVE  /\ Table(Tail(tb)) /\ Len(Tail(tb)) = Len(tb) - 1
         /\ \A y : In(y, Tail(tb)) => In(y, tb)
<1>a. OneEach(tb)
  BY DEF Table
<1>b. tb \in Seq(Asms)
  BY DEF Table
<1>0. tb \in Seq(Asms) /\ Len(tb) \in Nat /\ tb # <<>>
  BY <1>b
<1>1. PICK r : r = Tail(tb)
  OBVIOUS
<1>2. /\ r \in Seq(Asms) /\ Len(r) = Len(tb) - 1
      /\ \A i \in 1..Len(r) : r[i] = tb[i + 1] /\ i + 1 \in 1..Len(tb)
  BY <1>0, <1>1
<1>3. OneEach(r)
  <2> SUFFICES ASSUME NEW i \in 1..Len(r), NEW j \in 1..Len(r), r[i].client = r[j].client
               PROVE  i = j
    BY DEF OneEach
  <2>1. i + 1 = j + 1
    BY <1>a, <1>0, <1>2 DEF OneEach
  <2> QED BY <1>0, <1>2, <2>1
<1>4. \A y : In(y, r) => In(y, tb)
  BY <1>2 DEF In
<1> QED BY <1>1, <1>2, <1>3, <1>4 DEF Table

LEMMA TableRemoved ==
  ASSUME NEW tb, Table(tb), NEW c, NEW s
  PROVE  /\ Table(Removed(tb, c, s)) /\ Len(Removed(tb, c, s)) <= Len(tb)
         /\ (\E y : In(y, tb) /\ y.client = c /\ y.stream = s) =>
              Len(Removed(tb, c, s)) = Len(tb) - 1
         /\ \A y : In(y, Removed(tb, c, s)) <=> In(y, tb) /\ ~ (y.client = c /\ y.stream = s)
<1> DEFINE P == StreamAssembly(tb, c, s)
<1>1. P \in SUBSET (1..Len(tb)) /\ \A i, j \in P : i = j
  BY DEF StreamAssembly, Assembly, Table, OneEach
<1>2. \A j \in 1..Len(tb) : j \in P <=> tb[j].client = c /\ tb[j].stream = s
  BY DEF StreamAssembly, Assembly
<1> HIDE DEF P
<1>3. /\ Table(Without(tb, P)) /\ Len(Without(tb, P)) <= Len(tb)
      /\ P # {} => Len(Without(tb, P)) = Len(tb) - 1
      /\ \A x : In(x, Without(tb, P)) <=> \E j \in 1..Len(tb) \ P : tb[j] = x
  BY <1>1, WithoutOne
<1>4. Removed(tb, c, s) = Without(tb, P)
  BY DEF Removed, P
<1>5. (\E y : In(y, tb) /\ y.client = c /\ y.stream = s) => P # {}
  BY <1>2 DEF In
<1>6. \A y : (\E j \in 1..Len(tb) \ P : tb[j] = y) <=> In(y, tb) /\ ~ (y.client = c /\ y.stream = s)
  BY <1>2 DEF In
<1> QED BY <1>3, <1>4, <1>5, <1>6

LEMMA TableClientRemoved ==
  ASSUME NEW tb, Table(tb), NEW c
  PROVE  /\ Table(Without(tb, Assembly(tb, c))) /\ Len(Without(tb, Assembly(tb, c))) <= Len(tb)
         /\ Assembly(tb, c) # {} => Len(Without(tb, Assembly(tb, c))) = Len(tb) - 1
         /\ \A y : In(y, Without(tb, Assembly(tb, c))) <=> In(y, tb) /\ y.client # c
<1> DEFINE P == Assembly(tb, c)
<1>1. P \in SUBSET (1..Len(tb)) /\ \A i, j \in P : i = j
  BY DEF Assembly, Table, OneEach
<1>2. \A j \in 1..Len(tb) : j \in P <=> tb[j].client = c
  BY DEF Assembly
<1> HIDE DEF P
<1>3. /\ Table(Without(tb, P)) /\ Len(Without(tb, P)) <= Len(tb)
      /\ P # {} => Len(Without(tb, P)) = Len(tb) - 1
      /\ \A x : In(x, Without(tb, P)) <=> \E j \in 1..Len(tb) \ P : tb[j] = x
  BY <1>1, WithoutOne
<1>4. \A y : (\E j \in 1..Len(tb) \ P : tb[j] = y) <=> In(y, tb) /\ y.client # c
  BY <1>2 DEF In
<1> QED BY <1>3, <1>4 DEF P

(* Whether a table has an assembly of the stream of e, and the one that a   *)
(* first segment leaves there.                                              *)
Mine(y, e) == y.client = e.client /\ y.stream = e.stream
Begun(e) == [client |-> e.client, stream |-> e.stream, seq |-> e.seq, next |-> 1]

LEMMA MinePlaces ==
  ASSUME NEW tb, NEW e
  PROVE  /\ StreamAssembly(tb, e.client, e.stream) # {} <=> \E y : In(y, tb) /\ Mine(y, e)
         /\ StreamAssembly(tb, e.client, e.stream) # {} => Assembly(tb, e.client) # {}
BY DEF StreamAssembly, Assembly, In, Mine

(* The table with an assembly for this stream. *)
LEMMA WithAssemblyTable ==
  ASSUME Table(asm), Len(asm) <= AssemblyCap, NEW e \in Envelopes,
         e.stream \in Streams, e.seq \in 0..MaxLog
  PROVE  /\ Table(WithAssembly(e)) /\ Len(WithAssembly(e)) <= AssemblyCap
         /\ (\E y : In(y, asm) /\ Mine(y, e)) => WithAssembly(e) = asm
         /\ ~ (\E y : In(y, asm) /\ Mine(y, e)) =>
              /\ In(NewAssembly(e), WithAssembly(e))
              /\ \A y : In(y, WithAssembly(e)) => In(y, asm) \/ y = NewAssembly(e)
<1>0. asm \in Seq(Asms)
  BY DEF Table
<1>1. Len(asm) \in Nat /\ AssemblyCap \in Nat /\ AssemblyCap > 0
  BY <1>0, CapsAssumption
<1>2. NewAssembly(e) \in Asms /\ NewAssembly(e).client = e.client
  BY DEF NewAssembly, Asms, Envelopes
<1>3. CASE \E y : In(y, asm) /\ Mine(y, e)
  <2>1. WithAssembly(e) = asm
    BY <1>3, MinePlaces DEF WithAssembly
  <2> QED BY <1>3, <2>1
<1>4. CASE ~ \E y : In(y, asm) /\ Mine(y, e)
  <2> DEFINE full == Assembly(asm, e.client) = {} /\ Len(asm) >= AssemblyCap
             kept == IF full THEN Tail(asm) ELSE Without(asm, Assembly(asm, e.client))
  <2>1. WithAssembly(e) = Append(kept, NewAssembly(e))
    BY <1>4, MinePlaces DEF WithAssembly
  <2>2. Table(kept) /\ Len(kept) + 1 <= AssemblyCap /\ (\A y : In(y, kept) => In(y, asm) /\ y.client # e.client)
    <3>1. CASE full
      <4>1. Table(Tail(asm)) /\ Len(Tail(asm)) = Len(asm) - 1 /\ \A y : In(y, Tail(asm)) => In(y, asm)
        BY <1>1, <3>1, TableTail
      <4>2. \A y : In(y, asm) => y.client # e.client
        BY <3>1 DEF Assembly, In
      <4>3. kept = Tail(asm)
        BY <3>1
      <4>4. Len(Tail(asm)) + 1 <= AssemblyCap
        BY <1>1, <4>1
      <4> QED BY <4>1, <4>2, <4>3, <4>4
    <3>2. CASE ~ full
      <4> DEFINE rest == Without(asm, Assembly(asm, e.client))
      <4>1. /\ Table(rest) /\ Len(rest) <= Len(asm)
            /\ Assembly(asm, e.client) # {} => Len(rest) = Len(asm) - 1
            /\ \A y : In(y, rest) => In(y, asm) /\ y.client # e.client
        BY TableClientRemoved
      <4>2. Len(rest) \in Nat
        BY <4>1 DEF Table
      <4>3. kept = rest
        BY <3>2
      <4> HIDE DEF rest
      <4>4. Len(rest) + 1 <= AssemblyCap
        BY <1>1, <3>2, <4>1, <4>2
      <4> QED BY <4>1, <4>3, <4>4
    <3> QED BY <3>1, <3>2
  <2> HIDE DEF kept
  <2>3. /\ Table(Append(kept, NewAssembly(e))) /\ Len(Append(kept, NewAssembly(e))) = Len(kept) + 1
        /\ \A y : In(y, Append(kept, NewAssembly(e))) <=> In(y, kept) \/ y = NewAssembly(e)
    BY <1>2, <2>2, TableAppend
  <2> QED BY <1>4, <2>1, <2>2, <2>3
<1> QED BY <1>3, <1>4

(* The assembly that a segment is held against. *)
LEMMA HeldAgainst ==
  ASSUME NEW tb, Table(tb), NEW e, NEW a, In(a, tb), a.client = e.client
  PROVE  tb[CHOOSE i \in Assembly(tb, e.client) : TRUE] = a
<1>1. PICK i \in 1..Len(tb) : tb[i] = a
  BY DEF In
<1>2. i \in Assembly(tb, e.client)
  BY <1>1 DEF Assembly
<1>3. \A j \in Assembly(tb, e.client) : j = i
  BY <1>1, <1>2 DEF Assembly, Table, OneEach
<1>4. (CHOOSE j \in Assembly(tb, e.client) : TRUE) = i
  BY <1>2, <1>3
<1> QED BY <1>1, <1>4

(* What a segment does to the table, when every assembly waits for its second one. *)
LEMMA Observed ==
  ASSUME Table(asm), Len(asm) <= AssemblyCap, \A y : In(y, asm) => y.next = 1,
         NEW e \in Envelopes, e.stream \in Streams, e.seq \in 0..MaxLog, e.kind \in Chunks
  PROVE  /\ Table(Observe(e).asm) /\ Len(Observe(e).asm) <= AssemblyCap
         /\ \A y : In(y, Observe(e).asm) => In(y, asm) \/ (e.kind = "chunk0" /\ y = Begun(e))
         /\ \A y : In(y, Observe(e).asm) /\ Mine(y, e) =>
              e.seq < y.seq \/ (e.seq = y.seq /\ e.kind = "chunk0")
         /\ e.kind = "chunk0" /\ (\A y : In(y, asm) /\ Mine(y, e) => y.seq = e.seq) =>
              In(Begun(e), Observe(e).asm)
         /\ e.kind = "chunk1" /\ (\E y : In(y, asm) /\ Mine(y, e) /\ y.seq = e.seq) =>
              Observe(e).complete
<1> USE DEF Mine
<1>0. asm \in Seq(Asms)
  BY DEF Table
<1>1. /\ Len(asm) \in Nat /\ AssemblyCap \in Nat /\ e.seq \in Nat
      /\ \A y : In(y, asm) => y \in Asms /\ y.seq \in Nat
  <2>1. \A y : In(y, asm) => y \in Asms
    BY <1>0 DEF In
  <2>2. \A y \in Asms : y.seq \in Nat
    BY CapsAssumption DEF Asms
  <2>3. Len(asm) \in Nat /\ AssemblyCap \in Nat /\ e.seq \in Nat
    BY <1>0, CapsAssumption
  <2> QED BY <2>1, <2>2, <2>3
<1>2. /\ e.kind \in {"chunk0", "chunk1", "bad"}
      /\ Segments["chunk0"] = 0 /\ Segments["chunk1"] = 1 /\ Segments["bad"] = 1
  BY ChunkKinds DEF Segments
<1>3. should_ignore_chunk(e) <=>
        \E y : In(y, asm) /\ Mine(y, e) /\ (e.seq < y.seq \/ (e.seq = y.seq /\ e.kind = "chunk0"))
  <2>1. ASSUME should_ignore_chunk(e)
        PROVE  \E y : In(y, asm) /\ Mine(y, e) /\ (e.seq < y.seq \/ (e.seq = y.seq /\ e.kind = "chunk0"))
    <3>1. PICK i \in StreamAssembly(asm, e.client, e.stream) :
            e.seq < asm[i].seq \/ (e.seq = asm[i].seq /\ Segments[e.kind] < asm[i].next)
      BY <2>1 DEF should_ignore_chunk
    <3>2. In(asm[i], asm) /\ Mine(asm[i], e)
      BY <3>1 DEF StreamAssembly, Assembly, In
    <3>3. asm[i].next = 1
      BY <3>2
    <3> QED BY <1>2, <3>1, <3>2, <3>3
  <2>2. ASSUME NEW y, In(y, asm), Mine(y, e), e.seq < y.seq \/ (e.seq = y.seq /\ e.kind = "chunk0")
        PROVE  should_ignore_chunk(e)
    <3>1. PICK i \in 1..Len(asm) : asm[i] = y
      BY <2>2 DEF In
    <3>2. i \in StreamAssembly(asm, e.client, e.stream)
      BY <2>2, <3>1 DEF StreamAssembly, Assembly
    <3> QED BY <1>2, <2>2, <3>1, <3>2 DEF should_ignore_chunk
  <2> QED BY <2>1, <2>2
<1> DEFINE with == WithAssembly(e)
           a == with[CHOOSE i \in Assembly(with, e.client) : TRUE]
           without == Removed(with, e.client, e.stream)
           extended == Append(without, [a EXCEPT !.next = @ + 1])
<1>4. Observe(e) =
        IF should_ignore_chunk(e) THEN [asm |-> asm, complete |-> FALSE]
        ELSE IF e.kind = "bad" THEN [asm |-> Removed(asm, e.client, e.stream), complete |-> FALSE]
        ELSE IF e.seq # a.seq \/ Segments[e.kind] # a.next THEN [asm |-> without, complete |-> FALSE]
        ELSE IF a.next = 0 THEN [asm |-> extended, complete |-> FALSE]
        ELSE [asm |-> without, complete |-> TRUE]
  BY DEF Observe
<1>5. /\ Table(with) /\ Len(with) <= AssemblyCap
      /\ (\E y : In(y, asm) /\ Mine(y, e)) => with = asm
      /\ ~ (\E y : In(y, asm) /\ Mine(y, e)) =>
           /\ In(NewAssembly(e), with)
           /\ \A y : In(y, with) => In(y, asm) \/ y = NewAssembly(e)
  BY WithAssemblyTable
<1> HIDE DEF with
<1>6. /\ Table(without) /\ Len(without) <= Len(with)
      /\ (\E y : In(y, with) /\ Mine(y, e)) => Len(without) = Len(with) - 1
      /\ \A y : In(y, without) <=> In(y, with) /\ ~ Mine(y, e)
  BY <1>5, TableRemoved
<1>7. Len(with) \in Nat /\ Len(without) \in Nat
  BY <1>5, <1>6 DEF Table
<1>8. NewAssembly(e) = [client |-> e.client, stream |-> e.stream, seq |-> e.seq, next |-> 0]
  BY DEF NewAssembly
<1>9. CASE should_ignore_chunk(e)
  <2>1. Observe(e).asm = asm
    BY <1>4, <1>9
  <2>2. PICK z : In(z, asm) /\ Mine(z, e) /\ (e.seq < z.seq \/ (e.seq = z.seq /\ e.kind = "chunk0"))
    BY <1>3, <1>9
  <2>3. \A y : In(y, asm) /\ Mine(y, e) => y = z
    BY <2>2 DEF In, Table, OneEach
  <2>4. z.seq = e.seq => z = Begun(e)
    BY <1>1, <2>2 DEF Begun, Asms
  <2>5. e.kind = "chunk1" => ~ \E y : In(y, asm) /\ Mine(y, e) /\ y.seq = e.seq
    BY <1>1, <2>2, <2>3
  <2> QED BY <2>1, <2>2, <2>3, <2>4, <2>5
<1>10. CASE ~ should_ignore_chunk(e) /\ e.kind = "bad"
  <2>1. Observe(e).asm = Removed(asm, e.client, e.stream)
    BY <1>4, <1>10
  <2>2. /\ Table(Observe(e).asm) /\ Len(Observe(e).asm) <= Len(asm)
        /\ \A y : In(y, Observe(e).asm) <=> In(y, asm) /\ ~ Mine(y, e)
    BY <2>1, TableRemoved
  <2>3. Len(Observe(e).asm) \in Nat
    BY <2>2 DEF Table
  <2>4. Len(Observe(e).asm) <= AssemblyCap
    BY <1>1, <2>2, <2>3
  <2> QED BY <1>10, <2>2, <2>4
<1>11. CASE ~ should_ignore_chunk(e) /\ e.kind # "bad" /\ \E y : In(y, asm) /\ Mine(y, e)
  <2>1. PICK z : In(z, asm) /\ Mine(z, e)
    BY <1>11
  <2>2. with = asm
    BY <1>5, <1>11
  <2>3. a = z
    BY <1>5, <2>1, <2>2, HeldAgainst
  <2>4. z.next = 1 /\ z.seq \in Nat /\ ~ (e.seq < z.seq) /\ ~ (e.seq = z.seq /\ e.kind = "chunk0")
    BY <1>1, <1>3, <1>11, <2>1
  <2>5. \A y : In(y, asm) /\ Mine(y, e) => y = z
    BY <2>1 DEF In, Table, OneEach
  <2> HIDE DEF a, without
  <2>6. a.next = 1 /\ a.seq = z.seq
    BY <2>3, <2>4
  <2>7. Observe(e).asm = without /\ (e.kind = "chunk1" /\ z.seq = e.seq => Observe(e).complete)
    BY <1>2, <1>4, <1>11, <2>6
  <2>8. Len(without) <= AssemblyCap
    BY <1>1, <1>6, <1>7, <2>2
  <2> QED BY <1>6, <2>1, <2>2, <2>4, <2>5, <2>7, <2>8
<1>12. CASE ~ should_ignore_chunk(e) /\ e.kind # "bad" /\ ~ \E y : In(y, asm) /\ Mine(y, e)
  <2> DEFINE new == NewAssembly(e)
  <2>1. In(new, with) /\ \A y : In(y, with) => In(y, asm) \/ y = new
    BY <1>5, <1>12
  <2>2. new.client = e.client /\ new.stream = e.stream /\ new.seq = e.seq /\ new.next = 0 /\ Mine(new, e)
    BY <1>8
  <2> HIDE DEF new
  <2>3. a = new
    BY <1>5, <2>1, <2>2, HeldAgainst
  <2>4. \A y : In(y, without) => In(y, asm) /\ y.client # e.client
    <3>1. \A y : In(y, with) /\ y.client = e.client => y = new
      BY <1>5, <2>1, <2>2 DEF In, Table, OneEach
    <3> QED BY <1>6, <2>1, <2>2, <3>1
  <2>5. Len(without) = Len(with) - 1
    BY <1>6, <2>1, <2>2
  <2>6. CASE e.kind = "chunk0"
    <3>1. [a EXCEPT !.next = @ + 1] = Begun(e)
      BY <1>8, <2>3 DEF Begun, new
    <3> HIDE DEF a, without
    <3>2. a.seq = e.seq /\ a.next = 0
      BY <2>2, <2>3
    <3>3. Observe(e).asm = Append(without, Begun(e))
      BY <1>2, <1>4, <1>12, <2>6, <3>1, <3>2
    <3>4. Begun(e) \in Asms /\ Begun(e).client = e.client /\ Begun(e).seq = e.seq
      BY DEF Begun, Asms, Envelopes
    <3>5. /\ Table(Append(without, Begun(e))) /\ Len(Append(without, Begun(e))) = Len(without) + 1
          /\ \A y : In(y, Append(without, Begun(e))) <=> In(y, without) \/ y = Begun(e)
      BY <1>6, <2>4, <3>4, TableAppend
    <3>6. Len(Observe(e).asm) <= AssemblyCap
      BY <1>1, <1>5, <1>7, <2>5, <3>3, <3>5
    <3> QED BY <2>4, <2>6, <3>3, <3>4, <3>5, <3>6
  <2>7. CASE e.kind = "chunk1"
    <3> HIDE DEF a, without
    <3>1. a.next = 0
      BY <2>2, <2>3
    <3>2. Observe(e).asm = without
      BY <1>2, <1>4, <1>12, <2>7, <3>1
    <3>3. Len(without) <= AssemblyCap
      BY <1>1, <1>5, <1>7, <2>5
    <3> QED BY <1>6, <1>12, <2>4, <2>7, <3>2, <3>3
  <2> QED BY <1>2, <1>12, <2>6, <2>7
<1> QED BY <1>2, <1>9, <1>10, <1>11, <1>12

-----------------------------------------------------------------------------
(* What is known of the segments that the reader has dealt with.  The last  *)
(* completed number of a stream is that of a message the cursor has passed, *)
(* which is never the first segment of one; every assembly has seen the     *)
(* first segment of a message whose second one is still to be read.         *)
FirstOf(p, y) ==
  /\ log[p].client = y.client /\ log[p].stream = y.stream
  /\ log[p].kind = "chunk0" /\ log[p].seq = y.seq
SecondOf(p, y) ==
  /\ log[p].client = y.client /\ log[p].stream = y.stream
  /\ log[p].kind \in Second /\ log[p].seq = y.seq

Delivered ==
  /\ completed \in [Keys -> 0..MaxLog]
  /\ \A k \in Keys : completed[k] # 0 =>
       \E j \in Positions : /\ j <= cursor /\ log[j].client = k[1] /\ log[j].stream = k[2]
                            /\ log[j].kind = "chunk1" /\ log[j].seq = completed[k]
  /\ \A j \in Positions : j = cursor => log[j].kind # "chunk0"

Assembling(y) == \E i \in 1..Len(asm) : asm[i] = y

Tabled ==
  /\ asm \in Seq(Asms) /\ Len(asm) <= AssemblyCap
  /\ \A i, j \in 1..Len(asm) : asm[i].client = asm[j].client => i = j

Assembled ==
  /\ Tabled
  /\ \A y \in Asms : Assembling(y) =>
       /\ y.next = 1
       /\ \E p \in Positions : FirstOf(p, y)
       /\ \A m \in Positions : SecondOf(m, y) => pos <= m

SInv == Delivered /\ Assembled

LEMMA LogGrows ==
  ASSUME IInv, [Next]_vars
  PROVE  Positions \subseteq Positions' /\ \A i \in Positions : log'[i] = log[i]
<1>1. CASE \E e \in Incoming : Takes(e)
  BY <1>1 DEF Takes
<1>2. CASE log' = log
  BY <1>2 DEF Positions
<1>3. \/ \E e \in Incoming : Takes(e)
      \/ log' = log
  BY Steps DEF Reopen, Open, SendInit, SendIncoming, Closed, Record, Forget, Invalidates, Closes, Collects,
               Ends, Between, ForwardClosed, state, backend
<1> QED BY <1>1, <1>2, <1>3

(* Only these touch what was completed, and only these the assemblies. *)
LEMMA SegmentSteps ==
  ASSUME IInv, Recorded, [Next]_vars
  PROVE  \/ \E e \in Incoming : Takes(e)
         \/ Record \/ Forget \/ Invalidates
         \/ UNCHANGED <<log, cursor, completed, asm>> /\ (pos' = pos \/ pos' = cursor + 1)
BY Steps DEF Reopen, Open, SendInit, SendIncoming, Closed, Closes, Collects,
             Ends, Between, ForwardClosed, state, backend, segments

LEMMA RecordDelivered == ASSUME JInv, Delivered, Record PROVE Delivered'
<1> DEFINE e == current
<1>0. IInv /\ LogInv /\ Recorded /\ RestTyped /\ TInv /\ Reading
  BY DEF JInv, Record, Reading
<1>1. PICK p : p = pos - 1
  OBVIOUS
<1>2. p \in Positions /\ log[p] = e /\ e \in Envelopes /\ e.seq \in 0..MaxLog
  BY <1>0, <1>1, CurrentBounded
<1>3. log' = log /\ cursor' = p /\ Positions' = Positions
  BY <1>1 DEF Record, backend, Positions
<1>4. cursor < p /\ cursor \in Nat /\ p \in Nat /\ Len(log) \in Nat
  BY <1>0, <1>1, TypedFacts DEF Recorded
<1>5. e.kind \in Chunks => e.kind = "chunk1"
  BY <1>0 DEF TInv, InHand, Record
<1>6. e.kind \in Chunks => e.stream # None
  BY <1>0, <1>2 DEF LogInv, Bounded
<1>7. completed \in [Keys -> 0..MaxLog]
  BY DEF Delivered
<1> DEFINE k == <<e.client, e.stream>>
           done == IF e.kind \in Chunks THEN [completed EXCEPT ![k] = e.seq] ELSE completed
<1>8. k[1] = e.client /\ k[2] = e.stream
  OBVIOUS
<1>9. done \in [Keys -> 0..MaxLog] /\ 0 \in 0..MaxLog
  <2>1. PICK q : q = e.seq
    OBVIOUS
  <2>2. q \in 0..MaxLog /\ 0 \in 0..MaxLog
    BY <1>2, <2>1, CapsAssumption
  <2>3. [completed EXCEPT ![k] = q] \in [Keys -> 0..MaxLog]
    BY <1>7, <2>2
  <2> QED BY <1>7, <2>1, <2>2, <2>3
<1>10. \A x \in Keys : done[x] = completed[x] \/ (x = k /\ e.kind = "chunk1" /\ done[x] = e.seq)
  BY <1>5, <1>7
<1>11. completed' = done
  BY DEF Record
<1> HIDE DEF done, e
<1>12. completed' \in [Keys -> 0..MaxLog]
  BY <1>9, <1>11
<1>13. \A x \in Keys : completed'[x] = done[x]
  BY <1>11
<1>14. ASSUME NEW x \in Keys, completed'[x] # 0
       PROVE  \E j \in Positions' : /\ j <= cursor' /\ log'[j].client = x[1] /\ log'[j].stream = x[2]
                                    /\ log'[j].kind = "chunk1" /\ log'[j].seq = completed'[x]
  <2>1. CASE completed'[x] = completed[x]
    <3>1. PICK j \in Positions : /\ j <= cursor /\ log[j].client = x[1] /\ log[j].stream = x[2]
                                 /\ log[j].kind = "chunk1" /\ log[j].seq = completed[x]
      BY <1>14, <2>1 DEF Delivered
    <3>2. j <= p
      BY <1>4, <3>1 DEF Positions
    <3> QED BY <1>3, <2>1, <3>1, <3>2
  <2>2. CASE x = k /\ e.kind = "chunk1" /\ completed'[x] = e.seq
    <3>1. p <= p
      BY <1>4
    <3> QED BY <1>2, <1>3, <1>8, <2>2, <3>1
  <2> QED BY <1>10, <1>13, <1>14, <2>1, <2>2
<1>15. ASSUME NEW j \in Positions', j = cursor' PROVE log'[j].kind # "chunk0"
  BY <1>2, <1>3, <1>5, <1>15, ChunkKinds
<1> QED BY <1>12, <1>14, <1>15 DEF Delivered

LEMMA DeliveredStep == ASSUME JInv, Delivered, [Next]_vars PROVE Delivered'
<1>0. IInv /\ Recorded
  BY DEF JInv
<1>1. Positions \subseteq Positions' /\ \A i \in Positions : log'[i] = log[i]
  BY <1>0, LogGrows
<1>2. ASSUME cursor' = cursor, completed' \in [Keys -> 0..MaxLog],
             \A k \in Keys : completed'[k] = 0 \/ completed'[k] = completed[k]
      PROVE  Delivered'
  <2>1. ASSUME NEW x \in Keys, completed'[x] # 0
        PROVE  \E j \in Positions' : /\ j <= cursor' /\ log'[j].client = x[1] /\ log'[j].stream = x[2]
                                     /\ log'[j].kind = "chunk1" /\ log'[j].seq = completed'[x]
    <3>1. PICK j \in Positions : /\ j <= cursor /\ log[j].client = x[1] /\ log[j].stream = x[2]
                                 /\ log[j].kind = "chunk1" /\ log[j].seq = completed[x]
      BY <1>2, <2>1 DEF Delivered
    <3> QED BY <1>1, <1>2, <2>1, <3>1
  <2>2. ASSUME NEW j \in Positions', j = cursor' PROVE log'[j].kind # "chunk0"
    <3>1. j \in Positions
      BY <1>0, <1>2, <2>2, TypedFacts DEF Positions
    <3> QED BY <1>1, <1>2, <2>2, <3>1 DEF Delivered
  <2> QED BY <1>2, <2>1, <2>2 DEF Delivered
<1>3. CASE Record
  BY <1>3, RecordDelivered
<1>4. CASE Forget \/ Invalidates
  <2>1. /\ cursor' = cursor
        /\ \/ completed' = completed \/ \E k : completed' = [completed EXCEPT ![k] = 0]
           \/ \E c : completed' = [x \in Keys |-> IF x[1] = c THEN 0 ELSE completed[x]]
    BY <1>4 DEF Forget, Invalidates
  <2>2. completed \in [Keys -> 0..MaxLog] /\ 0 \in 0..MaxLog
    BY CapsAssumption DEF Delivered
  <2>3. completed' \in [Keys -> 0..MaxLog] /\ \A k \in Keys : completed'[k] = 0 \/ completed'[k] = completed[k]
    BY <2>1, <2>2
  <2> QED BY <1>2, <2>1, <2>3
<1>5. CASE UNCHANGED <<cursor, completed>>
  BY <1>2, <1>5 DEF Delivered
<1> QED BY <1>0, <1>3, <1>4, <1>5, SegmentSteps DEF Takes

(* A segment that is read belongs to a message that was not delivered before. *)
LEMMA Fresh ==
  ASSUME JInv, JInv', Delivered, NEW e \in Incoming, Takes(e), e.kind \in Chunks
  PROVE  /\ <<e.client, e.stream>> \in Keys /\ e.stream \in Streams /\ e.client \in Clients
         /\ e.seq \in 0..MaxLog
         /\ completed[<<e.client, e.stream>>] < e.seq
         /\ asm' = Observe(e).asm /\ (Forwarded(e) <=> Observe(e).complete)
<1> DEFINE k == <<e.client, e.stream>>
<1>1. /\ IInv /\ LogInv' /\ Recorded /\ RestTyped'
      /\ pos \in Positions' /\ log'[pos] = e /\ e \in Envelopes
      /\ Positions \subseteq Positions' /\ \A i \in Positions : log'[i] = log[i]
  BY DEF JInv, Takes
<1>2. e.stream # None /\ e.seq <= pos /\ e.seq > 0 /\ e.seq \in Nat
  BY <1>1, ChunkKinds DEF LogInv, Bounded, Numbered, Envelopes
<1>3. e.stream \in Streams /\ e.client \in Clients
  BY <1>1, <1>2 DEF Envelopes
<1>4. k \in Keys /\ k[1] = e.client /\ k[2] = e.stream
  BY <1>3 DEF Keys
<1>5. pos <= Len(log') /\ Len(log') <= MaxLog /\ pos \in Nat /\ Len(log') \in Nat /\ MaxLog \in Nat
  <2>1. log' \in Seq(Envelopes)
    BY DEF Takes
  <2> QED BY <1>1, <2>1, CapsAssumption DEF Positions, RestTyped
<1>6. e.seq \in 0..MaxLog
  BY <1>2, <1>5
<1>7. completed[k] < e.seq
  <2>1. completed[k] \in Nat
    BY <1>4, CapsAssumption DEF Delivered
  <2>2. CASE completed[k] = 0
    BY <1>2, <2>2
  <2>3. CASE completed[k] # 0
    <3>1. PICK j \in Positions : /\ j <= cursor /\ log[j].client = k[1] /\ log[j].stream = k[2]
                                 /\ log[j].kind = "chunk1" /\ log[j].seq = completed[k]
      BY <1>4, <2>3 DEF Delivered
    <3>2. j < pos
      BY <1>1, <1>5, <3>1, TypedFacts DEF Recorded, Positions
    <3>3. SameStream(log'[j], log'[pos]) /\ Numbered(log'[j]) /\ Numbered(log'[pos])
      BY <1>1, <1>4, <3>1, ChunkKinds DEF SameStream, Numbered
    <3>4. Before(log'[j], log'[pos])
      BY <1>1, <3>1, <3>2, <3>3 DEF LogInv, StreamOrder
    <3>5. Before(log[j], e)
      BY <1>1, <3>1, <3>4
    <3> QED BY <3>1, <3>5 DEF Before
  <2> QED BY <2>2, <2>3
<1>8. asm' = AssembliesAfter(e)
  BY DEF Takes
<1>9. asm' = Observe(e).asm
  BY <1>7, <1>8 DEF AssembliesAfter
<1>10. Forwarded(e) <=> Observe(e).complete
  BY <1>7 DEF Forwarded
<1> QED BY <1>3, <1>4, <1>6, <1>7, <1>9, <1>10

(* An assembly fewer, or a reader further back, changes nothing. *)
LEMMA AssembledKept ==
  ASSUME Assembled, log' = log, pos' \in Nat, pos \in Nat, pos' <= pos,
         Table(asm'), Len(asm') <= AssemblyCap, \A y : In(y, asm') => In(y, asm)
  PROVE  Assembled'
<1>1. Tabled'
  BY DEF Tabled, Table, OneEach
<1>2. ASSUME NEW y \in Asms, Assembling(y)' PROVE Assembling(y)
  BY <1>2 DEF Assembling, In
<1>3. ASSUME NEW y \in Asms, Assembling(y)'
      PROVE  /\ y.next = 1
             /\ \E p \in Positions' : FirstOf(p, y)'
             /\ \A m \in Positions' : SecondOf(m, y)' => pos' <= m
  <2>1. /\ y.next = 1
        /\ \E p \in Positions : FirstOf(p, y)
        /\ \A m \in Positions : SecondOf(m, y) => pos <= m
    BY <1>2, <1>3 DEF Assembled
  <2>2. Positions' = Positions /\ \A p : (FirstOf(p, y)' <=> FirstOf(p, y)) /\ (SecondOf(p, y)' <=> SecondOf(p, y))
    BY DEF Positions, FirstOf, SecondOf
  <2>3. ASSUME NEW m \in Positions', SecondOf(m, y)' PROVE pos' <= m
    <3>1. pos <= m /\ m \in Int
      BY <2>1, <2>2, <2>3 DEF Positions
    <3> QED BY <3>1
  <2> QED BY <2>1, <2>2, <2>3
<1> QED BY <1>1, <1>3 DEF Assembled

LEMMA TableFacts ==
  ASSUME Assembled
  PROVE  /\ Table(asm) /\ Len(asm) <= AssemblyCap /\ Len(asm) \in Nat /\ AssemblyCap \in Nat
         /\ \A y : In(y, asm) <=> y \in Asms /\ Assembling(y)
         /\ \A y : In(y, asm) => y.next = 1
<1>1. asm \in Seq(Asms)
  BY DEF Assembled, Tabled
<1>2. Table(asm) /\ Len(asm) <= AssemblyCap
  BY DEF Assembled, Tabled, Table, OneEach
<1>3. \A y : In(y, asm) <=> y \in Asms /\ Assembling(y)
  BY <1>1 DEF In, Assembling
<1> QED BY <1>1, <1>2, <1>3, CapsAssumption DEF Assembled

(* What a Read makes of the table. *)
LEMMA TableRead ==
  ASSUME JInv, JInv', Delivered, Assembled, NEW e \in Incoming, Takes(e)
  PROVE  /\ Table(asm') /\ Len(asm') <= AssemblyCap
         /\ \A y : In(y, asm') => In(y, asm) \/ (e.kind = "chunk0" /\ y = Begun(e))
         /\ \A y : In(y, asm') /\ Mine(y, e) /\ e.kind \in Second => e.seq # y.seq
<1>a. e \in Envelopes
  BY DEF Takes
<1>b. Table(asm) /\ Len(asm) <= AssemblyCap /\ \A y : In(y, asm) => y \in Asms /\ Assembling(y) /\ y.next = 1
  BY TableFacts
<1>1. CASE e.kind \notin Chunks
  <2>1. asm' = asm
    BY <1>1 DEF Takes, AssembliesAfter
  <2>2. e.kind \notin Second
    BY <1>1, ChunkKinds DEF Second
  <2> QED BY <1>b, <2>1, <2>2
<1>2. CASE e.kind \in Chunks
  <2>1. asm' = Observe(e).asm /\ e.stream \in Streams /\ e.seq \in 0..MaxLog
    BY <1>2, Fresh
  <2>2. /\ Table(Observe(e).asm) /\ Len(Observe(e).asm) <= AssemblyCap
        /\ \A y : In(y, Observe(e).asm) => In(y, asm) \/ (e.kind = "chunk0" /\ y = Begun(e))
        /\ \A y : In(y, Observe(e).asm) /\ Mine(y, e) =>
             e.seq < y.seq \/ (e.seq = y.seq /\ e.kind = "chunk0")
    BY <1>a, <1>b, <1>2, <2>1, Observed
  <2>3. e.kind \in Second => e.kind # "chunk0"
    BY DEF Second
  <2>4. e.seq \in Nat /\ ~ (e.seq < e.seq)
    BY <1>a DEF Envelopes
  <2> QED BY <2>1, <2>2, <2>3, <2>4
<1> QED BY <1>1, <1>2

LEMMA AssembledRead ==
  ASSUME JInv, JInv', Delivered, Assembled, NEW e \in Incoming, Takes(e)
  PROVE  Assembled'
<1>1. /\ IInv /\ LogInv' /\ pos' = pos + 1
      /\ pos \in Positions' /\ log'[pos] = e /\ e \in Envelopes
      /\ Positions \subseteq Positions' /\ \A i \in Positions : log'[i] = log[i]
      /\ \A i \in Positions' : i \notin Positions => i = pos
  BY DEF JInv, Takes
<1>2. pos \in Nat /\ \A i \in Positions' : i \in Nat
  <2>1. log' \in Seq(Envelopes)
    BY DEF Takes
  <2> QED BY <1>1, <2>1, TypedFacts DEF Positions
<1>3. Table(asm) /\ Len(asm) <= AssemblyCap /\ \A y : In(y, asm) => y \in Asms /\ Assembling(y) /\ y.next = 1
  BY TableFacts
<1>4. /\ Table(asm') /\ Len(asm') <= AssemblyCap
      /\ \A y : In(y, asm') => In(y, asm) \/ (e.kind = "chunk0" /\ y = Begun(e))
      /\ \A y : In(y, asm') /\ Mine(y, e) /\ e.kind \in Second => e.seq # y.seq
  BY TableRead
<1>5. Tabled'
  BY <1>4 DEF Tabled, Table, OneEach
<1>6. ASSUME NEW y \in Asms, Assembling(y)'
      PROVE  /\ y.next = 1
             /\ \E p \in Positions' : FirstOf(p, y)'
             /\ \A m \in Positions' : SecondOf(m, y)' => pos' <= m
  <2>0. In(y, asm')
    BY <1>6 DEF Assembling, In
  <2>1. CASE In(y, asm)
    <3>1. /\ y.next = 1
          /\ \E p \in Positions : FirstOf(p, y)
          /\ \A m \in Positions : SecondOf(m, y) => pos <= m
      BY <1>3, <2>1 DEF Assembled
    <3>2. \A p \in Positions : (FirstOf(p, y)' <=> FirstOf(p, y)) /\ (SecondOf(p, y)' <=> SecondOf(p, y))
      BY <1>1 DEF FirstOf, SecondOf
    <3>3. ASSUME NEW m \in Positions', SecondOf(m, y)' PROVE pos' <= m
      <4>1. pos <= m
        <5>1. CASE m \in Positions
          BY <3>1, <3>2, <3>3, <5>1
        <5>2. CASE m \notin Positions
          <6>1. m = pos
            BY <1>1, <5>2
          <6> QED BY <1>2, <6>1
        <5> QED BY <5>1, <5>2
      <4>2. m # pos
        <5>1. SUFFICES ASSUME m = pos PROVE FALSE
          OBVIOUS
        <5>2. Mine(y, e) /\ e.kind \in Second /\ e.seq = y.seq
          BY <1>1, <3>3, <5>1 DEF Mine, SecondOf
        <5> QED BY <1>4, <2>0, <5>2
      <4>3. m \in Nat /\ pos \in Nat /\ pos' = pos + 1
        BY <1>1, <1>2
      <4> QED BY <4>1, <4>2, <4>3
    <3> QED BY <1>1, <3>1, <3>2, <3>3
  <2>2. CASE e.kind = "chunk0" /\ y = Begun(e)
    <3>1. y.next = 1 /\ y.client = e.client /\ y.stream = e.stream /\ y.seq = e.seq
      BY <2>2 DEF Begun
    <3>2. \E p \in Positions' : FirstOf(p, y)'
      <4>1. PICK p : p = pos
        OBVIOUS
      <4>2. FirstOf(p, y)'
        BY <1>1, <2>2, <3>1, <4>1 DEF FirstOf
      <4> QED BY <1>1, <4>1, <4>2
    <3>3. ASSUME NEW m \in Positions', SecondOf(m, y)' PROVE pos' <= m
      <4>1. /\ log'[m].client = e.client /\ log'[m].stream = e.stream
            /\ log'[m].kind \in Second /\ log'[m].seq = e.seq
        BY <3>1, <3>3 DEF SecondOf
      <4>2. m # pos
        BY <1>1, <2>2, <4>1 DEF Second
      <4>3. ~ (m < pos)
        <5>1. SUFFICES ASSUME m < pos PROVE FALSE
          OBVIOUS
        <5>2. SameStream(log'[m], log'[pos]) /\ Numbered(log'[m]) /\ Numbered(log'[pos])
          BY <1>1, <2>2, <4>1 DEF SameStream, Numbered, Second
        <5>3. Before(log'[m], log'[pos])
          BY <1>1, <5>1, <5>2 DEF LogInv, StreamOrder
        <5>4. e.seq \in Nat
          BY <1>1 DEF Envelopes
        <5> QED BY <1>1, <4>1, <5>3, <5>4 DEF Before, Second
      <4>4. m \in Nat /\ pos \in Nat /\ pos' = pos + 1
        BY <1>1, <1>2
      <4> QED BY <4>2, <4>3, <4>4
    <3> QED BY <1>1, <3>1, <3>2, <3>3
  <2> QED BY <1>4, <2>0, <2>1, <2>2
<1> QED BY <1>5, <1>6 DEF Assembled

LEMMA AssembledStep == ASSUME JInv, JInv', SInv, [Next]_vars PROVE Assembled'
<1>0. IInv /\ Recorded /\ Delivered /\ Assembled
  BY DEF JInv, SInv
<1>1. pos \in Nat /\ cursor \in Nat /\ cursor < pos
  BY <1>0, TypedFacts DEF Recorded
<1>2. Table(asm) /\ Len(asm) <= AssemblyCap /\ Len(asm) \in Nat /\ AssemblyCap \in Nat
  BY <1>0, TableFacts
<1>3. ASSUME NEW c, NEW s, asm' = Removed(asm, c, s), log' = log, pos' = pos PROVE Assembled'
  <2>1. /\ Table(asm') /\ Len(asm') <= Len(asm) /\ \A y : In(y, asm') => In(y, asm)
    BY <1>2, <1>3, TableRemoved
  <2>2. Len(asm') \in Nat
    BY <2>1 DEF Table
  <2>3. Len(asm') <= AssemblyCap
    BY <1>2, <2>1, <2>2
  <2> QED BY <1>0, <1>1, <1>3, <2>1, <2>3, AssembledKept
<1>4. CASE Record \/ Forget
  <2>1. /\ log' = log /\ pos' = pos
        /\ \/ asm' = asm \/ asm' = Removed(asm, current.client, current.stream)
           \/ asm' = Without(asm, Assembly(asm, current.client))
    BY <1>4 DEF Record, Forget, backend
  <2>2. CASE asm' = asm
    BY <1>0, <1>1, <1>2, <2>1, <2>2, AssembledKept
  <2>3. CASE asm' = Without(asm, Assembly(asm, current.client))
    <3>1. /\ Table(asm') /\ Len(asm') <= Len(asm) /\ \A y : In(y, asm') => In(y, asm)
      BY <1>2, <2>3, TableClientRemoved
    <3>2. Len(asm') \in Nat
      BY <3>1 DEF Table
    <3>3. Len(asm') <= AssemblyCap
      BY <1>2, <3>1, <3>2
    <3> QED BY <1>0, <1>1, <2>1, <3>1, <3>3, AssembledKept
  <2> QED BY <1>3, <2>1, <2>2, <2>3
<1>5. CASE Invalidates
  <2>1. log' = log /\ pos' = pos
    BY <1>5 DEF Invalidates, backend
  <2>2. CASE asm' = asm
    BY <1>0, <1>1, <1>2, <2>1, <2>2, AssembledKept
  <2>3. CASE asm' # asm
    BY <1>3, <1>5, <2>1, <2>3 DEF Invalidates
  <2> QED BY <2>2, <2>3
<1>6. CASE UNCHANGED <<log, cursor, completed, asm>> /\ (pos' = pos \/ pos' = cursor + 1)
  BY <1>0, <1>1, <1>2, <1>6, AssembledKept
<1>7. CASE \E e \in Incoming : Takes(e)
  BY <1>0, <1>7, AssembledRead
<1> QED BY <1>0, <1>4, <1>5, <1>6, <1>7, SegmentSteps

LEMMA SInvInit == Init => SInv
<1> SUFFICES ASSUME Init PROVE SInv
  OBVIOUS
<1>1. asm = <<>> /\ log = <<>> /\ cursor = 0 /\ completed = [k \in Keys |-> 0]
  BY DEF Init
<1>2. Len(asm) = 0 /\ Len(log) = 0 /\ asm \in Seq(Asms)
  BY <1>1
<1>3. 0 \in 0..MaxLog /\ 0 <= AssemblyCap /\ 1..0 = {}
  BY CapsAssumption
<1>4. Delivered
  BY <1>1, <1>2, <1>3 DEF Delivered, Positions
<1>5. Assembled
  BY <1>1, <1>2, <1>3 DEF Assembled, Tabled, Assembling
<1> QED BY <1>4, <1>5 DEF SInv

LEMMA SInvStep == JInv /\ SInv /\ [Next]_vars => JInv' /\ SInv'
<1> SUFFICES ASSUME JInv, SInv, [Next]_vars PROVE JInv' /\ SInv'
  OBVIOUS
<1>1. JInv'
  BY JInvStep
<1>2. Delivered' /\ Assembled'
  BY <1>1, DeliveredStep, AssembledStep DEF SInv
<1> QED BY <1>1, <1>2 DEF SInv

(* The types: the table of assemblies never outgrows its bound, whatever   *)
(* the clients interleave, every cursor and number is one of the log, and  *)
(* every entry, task and closer that of a connection made                  *)
(* (segment.rs, ClientSegmentReassembler; client_tracker.rs).              *)
THEOREM Types == Spec => []TypeOK
<1>1. JInv /\ SInv => TypeOK
  <2> SUFFICES ASSUME JInv, SInv PROVE TypeOK
    OBVIOUS
  <2>0. IInv /\ RestTyped /\ Marked /\ Delivered /\ Tabled
    BY DEF JInv, SInv, TInv, Assembled
  <2>1. pos \in 1..MaxLog + 1 /\ cursor \in 0..MaxLog /\ Len(log) <= MaxLog
    BY <2>0, TypedFacts, CapsAssumption DEF RestTyped
  <2>2. link \in {"up", "stopping", "down"} /\ stop \in BOOLEAN /\ breaks \in 0..MaxBreaks
    BY <2>0 DEF RestTyped
  <2>3. completed \in [Keys -> 0..MaxLog] /\ last \in [Keys -> 0..MaxLog] /\ Len(asm) <= AssemblyCap
    BY <2>0 DEF Delivered, Marked, Tabled
  <2>4. clients \in [Keys -> 0..Len(conns)] /\ legacy \in [Clients -> LegacyStreams \cup {None}]
    BY <2>0 DEF IInv, Typed, Marked
  <2>5. tasks \subseteq [key : Keys, conn : 1..Len(conns), ended : BOOLEAN]
    <3>1. \A t \in tasks : t \in [key : Keys, conn : Nat, ended : BOOLEAN] /\ t.conn \in 1..Len(conns)
      BY <2>0 DEF IInv, Typed, RestTyped
    <3> QED BY <3>1
  <2>6. closers \subseteq 1..Len(conns) /\ load \in 0..QueueCap /\ wait \in 0..Len(conns)
    BY <2>0 DEF IInv, Typed, RestTyped
  <2> QED BY <2>1, <2>2, <2>3, <2>4, <2>5, <2>6 DEF TypeOK
<1>2. Init => JInv /\ SInv
  BY JInvInit, SInvInit
<1> QED BY <1>1, <1>2, SInvStep, PTL DEF Spec

-----------------------------------------------------------------------------
(* What reached the connections.  n is the connection of the stream k since *)
(* before the cursor; such a connection gets the two segments of a message  *)
(* that the reader goes over without interruption.                          *)
Has(n, q) == \E j \in 1..Len(events[n]) : events[n][j] = [is |-> "incoming", seq |-> q]
Lasting(k, n) == clients[k] = n /\ conns[n].opener <= cursor
WholeOf(k, i) == Whole(i) /\ log[i].client = k[1] /\ log[i].stream = k[2]
Wanted(k, i) == OfKey(log[i], k) /\ (log[i].kind \in {"init", "msg"} \/ Whole(i))
AssemblingOf(k, q) == \E y \in Asms : Assembling(y) /\ y.client = k[1] /\ y.stream = k[2] /\ y.seq = q

(* The number recorded for a connection is that of an envelope sent to it. *)
LastSent ==
  \A k \in Keys : \A n \in Conns : clients[k] = n /\ last[k] # 0 =>
    /\ \A q \in Nat : q = last[k] => Has(n, q)
    /\ \E j \in Positions : OfKey(log[j], k) /\ Numbered(log[j]) /\ log[j].seq = last[k]

(* A message whose segments follow each other is not passed without being *)
(* handed over, and nothing after it was.                                 *)
Passed ==
  \A k \in Keys : \A n \in Conns : \A i \in Positions :
    Lasting(k, n) /\ cursor < i /\ WholeOf(k, i) =>
      /\ pos <= i \/ (pos = i + 1 /\ at \in {"incoming", "record"})
      /\ last[k] <= log[i].seq
      /\ \A q \in Nat : AssemblingOf(k, q) => q <= log[i].seq

(* A first segment just read is in the table, if its second one is next. *)
Kept ==
  at \in {"select"} \cup Aside =>
    \A k \in Keys : \A n \in Conns : \A p \in Positions :
      /\ Lasting(k, n) /\ cursor < p /\ pos = p + 1
      /\ log[p].kind = "chunk0" /\ log[p].client = k[1] /\ log[p].stream = k[2]
      => \/ \A q \in Nat : q = log[p].seq => AssemblingOf(k, q)
         \/ p + 1 \in Positions /\ ~ Whole(p + 1)

(* What is about to be recorded has reached its connection ... *)
Handed ==
  at = "record" =>
    \A k \in Keys : \A n \in Conns : \A p \in Positions :
      clients[k] = n /\ conns[n].opener <= p /\ pos = p + 1 /\ Wanted(k, p) =>
        \A q \in Nat : q = log[p].seq => Has(n, q)

(* ... and so has what was recorded. *)
Reached ==
  \A k \in Keys : \A n \in Conns : \A i \in Positions :
    clients[k] = n /\ conns[n].opener <= i /\ i <= cursor /\ Wanted(k, i) =>
      \A q \in Nat : q = log[i].seq => Has(n, q)

RInv == LastSent /\ Passed /\ Kept /\ Handed /\ Reached

LEMMA PutHas ==
  ASSUME IInv, NEW c \in Conns, NEW e \in Events, Put(c, e)
  PROVE  /\ \A n \in Conns : \A q \in Nat : Has(n, q) => Has(n, q)'
         /\ \A q \in Nat : e = [is |-> "incoming", seq |-> q] => Has(c, q)'
<1>1. /\ Len(events[c]) \in Nat /\ Len(events'[c]) = Len(events[c]) + 1
      /\ events'[c][Len(events'[c])] = e
      /\ \A i \in 1..Len(events[c]) : events'[c][i] = events[c][i]
      /\ \A d \in Conns : d # c => events'[d] = events[d]
  BY PutAtEnd
<1>2. 1..Len(events[c]) \subseteq 1..Len(events'[c]) /\ Len(events'[c]) \in 1..Len(events'[c])
  BY <1>1
<1>3. ASSUME NEW n \in Conns, NEW q \in Nat, Has(n, q) PROVE Has(n, q)'
  <2>1. CASE n = c
    BY <1>1, <1>2, <1>3, <2>1 DEF Has
  <2>2. CASE n # c
    BY <1>1, <1>3, <2>2 DEF Has
  <2> QED BY <2>1, <2>2
<1>4. ASSUME NEW q \in Nat, e = [is |-> "incoming", seq |-> q] PROVE Has(c, q)'
  BY <1>1, <1>2, <1>4 DEF Has
<1> QED BY <1>3, <1>4

LEMMA SendHas ==
  ASSUME IInv, SendInit \/ SendIncoming
  PROVE  /\ \A n \in Conns : \A q \in Nat : Has(n, q) => Has(n, q)'
         /\ \A n \in Conns : \A q \in Nat : clients[key] = n /\ q = current.seq => Has(n, q)'
<1>1. key \in Keys /\ clients[key] # 0 /\ pos > 1
  BY DEF IInv, AtHand, SendInit, SendIncoming
<1>2. clients[key] \in Conns /\ current.seq \in Nat
  BY <1>1, EntryConn, CurrentTyped DEF IInv
<1>3. PICK e : e = [is |-> "incoming", seq |-> current.seq]
  OBVIOUS
<1>4. e \in Events /\ Put(clients[key], e)
  BY <1>2, <1>3 DEF Events, SendInit, SendIncoming
<1>5. /\ \A n \in Conns : \A q \in Nat : Has(n, q) => Has(n, q)'
      /\ \A n \in Conns : n = clients[key] => \A q \in Nat : e = [is |-> "incoming", seq |-> q] => Has(n, q)'
  BY <1>2, <1>4, PutHas
<1> QED BY <1>3, <1>5

LEMMA HasGrows ==
  ASSUME IInv, [Next]_vars
  PROVE  \A n \in Conns : \A q \in Nat : Has(n, q) => Has(n, q)'
<1>1. CASE events' = events
  BY <1>1 DEF Has
<1>2. CASE SendInit \/ SendIncoming
  BY <1>2, SendHas
<1>3. CASE Open
  <2>1. Len(conns) \in Conns
    BY <1>3 DEF IInv, Typed, AtHand, Open, Conns
  <2>2. [is |-> "opened", seq |-> 0] \in Events /\ Put(Len(conns), [is |-> "opened", seq |-> 0])
    BY <1>3 DEF Open, Events
  <2> QED BY <2>1, <2>2, PutHas
<1>4. ASSUME NEW c \in closers, ForwardClosed(c)
      PROVE  \A n \in Conns : \A q \in Nat : Has(n, q) => Has(n, q)'
  <2>1. c \in Conns
    BY ConnRange DEF IInv, Typed
  <2>2. [is |-> "closed", seq |-> 0] \in Events /\ Put(c, [is |-> "closed", seq |-> 0])
    BY <1>4 DEF ForwardClosed, Events
  <2> QED BY <2>1, <2>2, PutHas
<1>5. \/ events' = events \/ SendInit \/ SendIncoming \/ Open \/ \E c \in closers : ForwardClosed(c)
  BY Steps DEF Takes, Reopen, Closed, Record, Forget, Invalidates, Closes, Collects, Ends, Between, state, queue
<1> QED BY <1>1, <1>2, <1>3, <1>4, <1>5

(* The log only grows, and with it what follows what. *)
LEMMA WholeKept ==
  ASSUME IInv, [Next]_vars
  PROVE  /\ \A i \in Positions : (Whole(i)' <=> Whole(i)) /\ i \in Positions' /\ log'[i] = log[i]
         /\ \A i \in Positions : \A k \in Keys :
              (Wanted(k, i)' <=> Wanted(k, i)) /\ (WholeOf(k, i)' <=> WholeOf(k, i))
<1>1. Positions \subseteq Positions' /\ \A i \in Positions : log'[i] = log[i]
  BY LogGrows
<1>2. ASSUME NEW i \in Positions PROVE Whole(i)' <=> Whole(i)
  <2>1. i > 1 => i - 1 \in Positions
    BY TypedFacts DEF Positions
  <2> QED BY <1>1, <2>1 DEF Whole
<1>3. ASSUME NEW i \in Positions, NEW k \in Keys
      PROVE  (Wanted(k, i)' <=> Wanted(k, i)) /\ (WholeOf(k, i)' <=> WholeOf(k, i))
  BY <1>1, <1>2 DEF Wanted, WholeOf
<1> QED BY <1>1, <1>2, <1>3

(* Where an entry of the table comes from. *)
LEMMA Entries ==
  ASSUME JInv, [Next]_vars, NEW k \in Keys, NEW n \in Conns, clients'[k] = n
  PROVE  \/ /\ clients[k] = n /\ conns'[n] = conns[n]
            /\ last'[k] = last[k] \/ ((SendInit \/ SendIncoming) /\ k = key /\ last'[k] = current.seq)
         \/ /\ Open /\ last'[k] = 0 /\ conns' = conns /\ conns[n].opener = pos - 1
<1>0. IInv /\ TInv /\ Marked /\ RestTyped
  BY DEF JInv, TInv
<1>1. n \in Nat /\ n # 0
  BY CapsAssumption DEF Conns
<1>2. CASE Open
  <2>1. /\ clients' = [clients EXCEPT ![key] = Len(conns)] /\ last' = [last EXCEPT ![key] = 0]
        /\ conns' = conns /\ at = "open"
    BY <1>2 DEF Open
  <2>2. clients \in [Keys -> 0..Len(conns)] /\ last \in [Keys -> 0..MaxLog]
    BY <1>0 DEF IInv, Typed, Marked
  <2>3. CASE k = key
    <3>1. n = Len(conns) /\ last'[k] = 0
      BY <2>1, <2>2, <2>3
    <3>2. conns[n].opener = pos - 1
      BY <1>0, <2>1, <3>1 DEF TInv, InHand
    <3> QED BY <1>2, <2>1, <3>1, <3>2
  <2>4. CASE k # key
    BY <2>1, <2>2, <2>4
  <2> QED BY <2>3, <2>4
<1>3. CASE SendInit \/ SendIncoming
  <2>1. /\ clients' = clients /\ conns' = conns
        /\ last' = last \/ last' = [last EXCEPT ![key] = current.seq]
    BY <1>3 DEF SendInit, SendIncoming
  <2>2. last \in [Keys -> 0..MaxLog]
    BY <1>0 DEF Marked
  <2> QED BY <1>3, <2>1, <2>2
<1>4. CASE Keeps
  <2>1. clients[k] = n /\ last'[k] = last[k]
    BY <1>1, <1>4 DEF Keeps
  <2>2. n \in 1..Len(conns)
    BY <1>0, <1>1, <2>1, EntryConn
  <2> QED BY <1>4, <2>1, <2>2 DEF Keeps
<1>5. CASE UNCHANGED state
  BY <1>5 DEF state
<1>6. CASE \E c \in closers : ForwardClosed(c)
  BY <1>6 DEF ForwardClosed, tracker
<1> QED BY <1>0, <1>2, <1>3, <1>4, <1>5, <1>6, Steps, TakesKeeps, QuietKeeps

LEMMA Lasted ==
  ASSUME JInv, [Next]_vars, cursor' = cursor, NEW k \in Keys, NEW n \in Conns, Lasting(k, n)'
  PROVE  /\ Lasting(k, n) /\ conns'[n] = conns[n]
         /\ last'[k] = last[k] \/ (SendIncoming /\ k = key /\ last'[k] = current.seq)
<1>0. IInv /\ TInv /\ Recorded
  BY DEF JInv
<1>1. clients'[k] = n /\ conns'[n].opener <= cursor
  BY DEF Lasting
<1>2. at \in {"open", "init"} => cursor < pos - 1 /\ cursor \in Nat /\ pos - 1 \in Int
  BY <1>0, TypedFacts DEF Recorded, Reading
<1>3. ~ (Open /\ conns' = conns /\ conns[n].opener = pos - 1)
  BY <1>1, <1>2 DEF Open
<1>4. ~ (SendInit /\ k = key /\ clients[k] = n /\ conns'[n] = conns[n])
  <2> SUFFICES ASSUME SendInit, k = key, clients[k] = n, conns'[n] = conns[n] PROVE FALSE
    OBVIOUS
  <2>1. conns[n].opener = pos - 1 /\ at = "init"
    BY <1>0 DEF TInv, InHand, SendInit
  <2> QED BY <1>1, <1>2, <2>1
<1> QED BY <1>1, <1>3, <1>4, Entries DEF Lasting

LEMMA LastSentStep == ASSUME JInv, LastSent, [Next]_vars PROVE LastSent'
<1>0. IInv /\ LogInv /\ RestTyped /\ TInv
  BY DEF JInv
<1>1. \A n \in Conns : \A q \in Nat : Has(n, q) => Has(n, q)'
  BY <1>0, HasGrows
<1>2. Positions \subseteq Positions' /\ \A i \in Positions : log'[i] = log[i]
  BY <1>0, LogGrows
<1> SUFFICES ASSUME NEW k \in Keys, NEW n \in Conns, clients'[k] = n, last'[k] # 0
             PROVE  /\ \A q \in Nat : q = last'[k] => Has(n, q)'
                    /\ \E j \in Positions' : OfKey(log'[j], k) /\ Numbered(log'[j]) /\ log'[j].seq = last'[k]
  BY DEF LastSent
<1>3. CASE clients[k] = n /\ last'[k] = last[k]
  <2>1. /\ \A q \in Nat : q = last[k] => Has(n, q)
        /\ \E j \in Positions : OfKey(log[j], k) /\ Numbered(log[j]) /\ log[j].seq = last[k]
    BY <1>3 DEF LastSent
  <2> QED BY <1>1, <1>2, <1>3, <2>1
<1>4. CASE clients[k] = n /\ (SendInit \/ SendIncoming) /\ k = key /\ last'[k] = current.seq
  <2>1. \A q \in Nat : q = last'[k] => Has(n, q)'
    BY <1>0, <1>4, SendHas
  <2>2. Reading /\ OfKey(current, key) /\ Numbered(current)
    BY <1>0, <1>4 DEF SendInit, SendIncoming, Reading, TInv, InHand, Numbered
  <2>3. PICK p \in Positions : log[p] = current
    BY <1>0, <2>2, CurrentBounded
  <2> QED BY <1>2, <1>4, <2>1, <2>2, <2>3
<1> QED BY <1>3, <1>4, Entries

(* The envelope that opened a connection, which is the newest one until it *)
(* is recorded.                                                            *)
LEMMA OpenerFacts ==
  ASSUME JInv, NEW k \in Keys, NEW n \in Conns, clients[k] = n
  PROVE  \E o \in Positions : /\ conns[n].opener = o /\ log[o].kind = "init" /\ OfKey(log[o], k)
                              /\ cursor < o => o = Len(log)
<1>0. IInv /\ Recorded /\ Openers /\ n # 0
  BY CapsAssumption DEF JInv, TInv, Conns
<1>1. n \in 1..Len(conns) /\ conns[n].key = k
  BY <1>0, EntryConn
<1>2. PICK o : o = conns[n].opener
  OBVIOUS
<1>3. o \in Positions /\ log[o].kind = "init" /\ OfKey(log[o], k)
  BY <1>0, <1>1, <1>2 DEF Openers
<1>4. log[o].kind \notin Chunks
  BY <1>3, ChunkKinds
<1>5. o <= Len(log) /\ o \in Nat /\ Len(log) \in Nat
  BY <1>0, <1>3, TypedFacts DEF Positions
<1>6. cursor < o => ~ (o < Len(log))
  BY <1>0, <1>3, <1>4 DEF Recorded
<1> QED BY <1>2, <1>3, <1>5, <1>6

(* All envelopes of a key are of one stream. *)
LEMMA OneStream ==
  ASSUME NEW k \in Keys, NEW e \in Envelopes, NEW f \in Envelopes, OfKey(e, k), OfKey(f, k)
  PROVE  SameStream(e, f) /\ (e.stream \in Streams => e.stream = k[2])
<1>1. e.stream \in Streams \cup {None} /\ f.stream \in Streams \cup {None}
  BY DEF Envelopes
<1>2. k[2] \in Streams \cup LegacyStreams
  BY DEF Keys
<1> QED BY <1>1, <1>2, NamesAssumption DEF OfKey, SameStream

(* An envelope belongs to one open stream at most. *)
LEMMA OneKey ==
  ASSUME IInv, Marked, NEW e \in Envelopes, NEW j \in Keys, NEW k \in Keys,
         OfKey(e, j), OfKey(e, k), clients[j] # 0, clients[k] # 0
  PROVE  j = k
<1>1. /\ j[1] \in Clients /\ j[2] \in Streams \cup LegacyStreams /\ j = <<j[1], j[2]>>
      /\ k[1] \in Clients /\ k[2] \in Streams \cup LegacyStreams /\ k = <<k[1], k[2]>>
  BY DEF Keys
<1>2. j[1] = k[1] /\ (j[2] = k[2] \/ (j[2] \in LegacyStreams /\ k[2] \in LegacyStreams))
  BY <1>1, NamesAssumption DEF OfKey
<1>3. j[2] \in LegacyStreams => legacy[j[1]] = j[2]
  BY <1>1 DEF Marked
<1>4. k[2] \in LegacyStreams => legacy[k[1]] = k[2]
  BY <1>1 DEF Marked
<1> QED BY <1>1, <1>2, <1>3, <1>4

LEMMA StreamOfOpen ==
  ASSUME Marked, NEW e \in Envelopes, NEW k \in Keys, OfKey(e, k), clients[k] # 0
  PROVE  StreamOf(e) = k[2] /\ StreamOf(e) # None /\ <<e.client, StreamOf(e)>> = k
<1>1. /\ k[1] \in Clients /\ k[2] \in Streams \cup LegacyStreams /\ k = <<k[1], k[2]>>
  BY DEF Keys
<1>2. k[2] \in LegacyStreams => legacy[k[1]] = k[2]
  BY <1>1 DEF Marked
<1> QED BY <1>1, <1>2, NamesAssumption DEF OfKey, StreamOf

(* What is in the log in this order was sent in this order. *)
LEMMA Sorted ==
  ASSUME LogInv, log \in Seq(Envelopes), NEW i \in Positions, NEW j \in Positions, i < j,
         SameStream(log[i], log[j]), Numbered(log[i]), Numbered(log[j])
  PROVE  log[i].seq <= log[j].seq /\ (log[j].kind \notin Second => log[i].seq < log[j].seq)
<1>1. Before(log[i], log[j])
  BY DEF LogInv, StreamOrder
<1>2. log[i] \in Envelopes /\ log[j] \in Envelopes
  BY DEF Positions
<1>3. log[i].seq \in Nat /\ log[j].seq \in Nat
  BY <1>2 DEF Envelopes
<1> QED BY <1>1, <1>3 DEF Before

LEMMA ReachedStep == ASSUME JInv, SInv, RInv, [Next]_vars PROVE Reached'
<1>0. IInv /\ LogInv /\ Recorded /\ RestTyped /\ TInv /\ Passed /\ Handed /\ Reached
  BY DEF JInv, RInv
<1>1. \A n \in Conns : \A q \in Nat : Has(n, q) => Has(n, q)'
  BY <1>0, HasGrows
<1>2. /\ cursor \in Nat /\ Len(log) \in Nat /\ cursor <= Len(log)
      /\ Positions = 1..Len(log) /\ pos \in Nat
  BY <1>0, TypedFacts DEF Positions
<1> SUFFICES ASSUME NEW k \in Keys, NEW n \in Conns, NEW i \in Positions', clients'[k] = n,
                    conns'[n].opener <= i, i <= cursor', Wanted(k, i)',
                    NEW q \in Nat, q = log'[i].seq
             PROVE  Has(n, q)'
  BY DEF Reached
<1>3. CASE cursor' = cursor
  <2>1. i \in Nat /\ i >= 1
    <3>1. i \in 1..Len(log')
      BY DEF Positions
    <3> QED BY <3>1
  <2>2. i \in Positions
    BY <1>2, <1>3, <2>1
  <2>3. CASE clients[k] = n /\ conns'[n] = conns[n]
    <3>1. Wanted(k, i) /\ log'[i] = log[i]
      BY <1>0, <2>2, WholeKept
    <3>2. Has(n, q)
      BY <1>0, <1>3, <2>2, <2>3, <3>1 DEF Reached
    <3> QED BY <1>1, <3>2
  <2>4. CASE Open /\ conns' = conns /\ conns[n].opener = pos - 1
    <3>1. cursor < pos - 1
      BY <1>0, <2>4 DEF Recorded, Reading, Open
    <3> QED BY <1>2, <1>3, <2>1, <2>4, <3>1
  <2> QED BY <2>3, <2>4, Entries
<1>4. CASE Record
  <2>1. /\ log' = log /\ cursor' = pos - 1 /\ Positions' = Positions
        /\ clients' = clients /\ conns' = conns /\ events' = events /\ at = "record"
    BY <1>4 DEF Record, backend, tracker, queue, Positions
  <2>2. Wanted(k, i) /\ log'[i] = log[i] /\ i \in Positions /\ i \in Nat
    BY <1>0, <1>2, <2>1, WholeKept
  <2>3. PICK o \in Positions : /\ conns[n].opener = o /\ log[o].kind = "init"
                               /\ cursor < o => o = Len(log)
    BY <2>1, OpenerFacts
  <2>4. o \in Nat /\ o <= i /\ i <= Len(log)
    BY <1>2, <2>1, <2>2, <2>3
  <2>5. CASE i <= cursor
    BY <1>0, <1>1, <2>1, <2>2, <2>5 DEF Reached
  <2>6. CASE i = pos - 1
    <3>1. pos = i + 1
      BY <1>2, <2>2, <2>6
    <3> QED BY <1>0, <1>1, <2>1, <2>2, <3>1 DEF Handed
  <2>7. CASE cursor < i /\ i < pos - 1
    <3>1. i < Len(log)
      BY <1>0, <1>2, <2>2, <2>7, TypedFacts
    <3>2. log[i].kind \in Chunks
      BY <1>0, <2>2, <2>7, <3>1 DEF Recorded
    <3>3. Whole(i) /\ OfKey(log[i], k)
      BY <2>2, <3>2, ChunkKinds DEF Wanted
    <3>4. log[i].stream # None
      BY <1>0, <2>2, <3>2 DEF LogInv, Bounded
    <3>5. WholeOf(k, i)
      BY <3>3, <3>4 DEF WholeOf, OfKey
    <3>6. o <= cursor
      BY <1>2, <2>2, <2>3, <2>4, <3>1
    <3>7. Lasting(k, n)
      BY <2>1, <2>3, <3>6 DEF Lasting
    <3>8. pos <= i \/ pos = i + 1
      BY <1>0, <2>2, <2>7, <3>5, <3>7 DEF Passed
    <3> QED BY <1>2, <2>2, <2>7, <3>8
  <2>8. i <= pos - 1
    BY <2>1
  <2> QED BY <1>2, <2>2, <2>5, <2>6, <2>7, <2>8
<1>5. CASE Forget \/ Invalidates
  BY <1>3, <1>5 DEF Forget, Invalidates
<1>6. CASE \E e \in Incoming : Takes(e)
  BY <1>3, <1>6 DEF Takes
<1> QED BY <1>0, <1>3, <1>4, <1>5, <1>6, SegmentSteps

(* A wanted envelope that comes next is not below what the connection has. *)
LEMMA NotBeyond ==
  ASSUME JInv, JInv', RInv, [Next]_vars, NEW e \in Incoming, Takes(e), NEW p \in Positions', p = pos,
         NEW k \in Keys, NEW n \in Conns, clients[k] = n, conns[n].opener <= p,
         OfKey(e, k), e.kind = "msg" \/ Whole(p)'
  PROVE  last[k] <= e.seq
<1>0. IInv /\ LogInv' /\ Recorded /\ LastSent /\ Passed /\ Marked
  BY DEF JInv, RInv, TInv
<1>1. /\ log' \in Seq(Envelopes) /\ log'[p] = e /\ e \in Envelopes
      /\ Positions \subseteq Positions' /\ \A i \in Positions : log'[i] = log[i]
      /\ p \notin Positions => p = Len(log) + 1
  BY DEF Takes
<1>2. /\ p \in Nat /\ Len(log) \in Nat /\ cursor \in Nat /\ Positions = 1..Len(log)
      /\ cursor < p /\ e.seq \in Nat /\ \A j \in Positions : log[j] \in Envelopes /\ j \in Nat
  <2>1. log \in Seq(Envelopes)
    BY <1>0 DEF IInv, Typed
  <2>2. /\ Len(log) \in Nat /\ Positions = 1..Len(log)
        /\ \A j \in Positions : log[j] \in Envelopes /\ j \in Nat
    BY <2>1 DEF Positions
  <2>3. cursor \in Nat /\ pos \in Nat /\ cursor < pos
    BY <1>0, TypedFacts DEF Recorded
  <2>4. e.seq \in Nat
    BY <1>1 DEF Envelopes
  <2> QED BY <2>2, <2>3, <2>4
<1>3. e.kind \in {"msg", "chunk1"} /\ Numbered(e)
  BY <1>1 DEF Whole, Numbered
<1>4. CASE last[k] = 0
  BY <1>2, <1>4
<1>5. ASSUME last[k] # 0, NEW j \in Positions, OfKey(log[j], k), Numbered(log[j]),
             log[j].seq = last[k], j <= p
      PROVE  last[k] <= e.seq
  <2>1. CASE j = p
    BY <1>1, <1>2, <1>5, <2>1
  <2>2. CASE j < p
    <3>1. SameStream(log[j], e)
      BY <1>1, <1>2, <1>5, OneStream
    <3>2. Before(log'[j], log'[p])
      BY <1>0, <1>1, <1>3, <1>5, <2>2, <3>1 DEF LogInv, StreamOrder
    <3>3. Before(log[j], e)
      BY <1>1, <1>5, <3>2
    <3>4. log[j].seq \in Nat
      BY <1>2, <1>5 DEF Envelopes
    <3> QED BY <1>2, <1>5, <3>3, <3>4 DEF Before
  <2> QED BY <1>2, <1>5, <2>1, <2>2
<1>6. CASE last[k] # 0
  <2>1. PICK j \in Positions : OfKey(log[j], k) /\ Numbered(log[j]) /\ log[j].seq = last[k]
    BY <1>0, <1>6 DEF LastSent
  <2>2. CASE p \notin Positions
    <3>1. j <= p
      BY <1>1, <1>2, <2>1, <2>2
    <3> QED BY <1>5, <1>6, <2>1, <3>1
  <2>3. CASE p \in Positions /\ e.kind = "msg"
    <3>1. log[p].kind \notin Chunks
      BY <1>1, <2>3, ChunkKinds
    <3>2. ~ (p < Len(log))
      BY <1>0, <1>2, <2>3, <3>1 DEF Recorded
    <3>3. j <= p
      BY <1>2, <2>1, <2>3, <3>2
    <3> QED BY <1>5, <1>6, <2>1, <3>3
  <2>4. CASE p \in Positions /\ Whole(p)'
    <3>1. Whole(p) /\ log[p] = e
      BY <1>0, <1>1, <2>4, WholeKept
    <3>2. e.stream # None
      BY <1>0, <1>1, <3>1, ChunkKinds DEF Whole, LogInv, Bounded
    <3>3. WholeOf(k, p)
      BY <3>1, <3>2 DEF WholeOf, OfKey
    <3>4. PICK o \in Positions : /\ conns[n].opener = o /\ log[o].kind = "init"
                                 /\ cursor < o => o = Len(log)
      BY OpenerFacts
    <3>5. o # p
      BY <3>1, <3>4 DEF Whole
    <3>6. o <= cursor
      BY <1>2, <2>4, <3>4, <3>5
    <3>7. Lasting(k, n)
      BY <3>4, <3>6 DEF Lasting
    <3> QED BY <1>0, <1>2, <2>4, <3>1, <3>3, <3>7 DEF Passed
  <2> QED BY <2>2, <2>3, <2>4
<1> QED BY <1>4, <1>6

LEMMA HandedRead ==
  ASSUME JInv, JInv', RInv, [Next]_vars, NEW e \in Incoming, Takes(e), at' = "record",
         NEW p \in Positions', p = pos, NEW k \in Keys, NEW n \in Conns,
         clients'[k] = n, conns'[n].opener <= p, Wanted(k, p)', NEW q \in Nat, q = log'[p].seq
  PROVE  Has(n, q)'
<1>0. IInv /\ LastSent /\ Marked /\ n # 0
  BY CapsAssumption DEF JInv, RInv, TInv, Conns
<1>1. log'[p] = e /\ e \in Envelopes /\ at = "select"
  BY DEF Takes
<1>2. OfKey(e, k) /\ (e.kind \in {"init", "msg"} \/ Whole(p)')
  BY <1>1 DEF Wanted
<1>3. e.kind \in {"init", "msg", "chunk1"}
  BY <1>1, <1>2 DEF Whole
<1>4. ReadMessage(e)
  <2>1. ~ ReadDropped(e)
    BY <1>1 DEF ReadDropped
  <2>2. ~ ReadInit(e)
    BY DEF ReadInit, StartOpen
  <2>3. ~ ReadPing(e) /\ ~ ReadClosed(e)
    BY <1>3 DEF ReadPing, ReadClosed
  <2> QED BY <2>1, <2>2, <2>3 DEF Takes
<1>5. e.kind # "init" /\ clients' = clients /\ conns' = conns
  BY <1>4, ChunkKinds DEF ReadMessage, tracker
<1>6. StreamOf(e) # None /\ <<e.client, StreamOf(e)>> = k
  BY <1>0, <1>1, <1>2, <1>5, StreamOfOpen
<1>7. ~ (last[k] < e.seq)
  BY <1>0, <1>4, <1>5, <1>6 DEF ReadMessage
<1>8. last[k] <= e.seq
  BY <1>2, <1>5, NotBeyond
<1>9. last[k] \in Nat /\ e.seq \in Nat /\ e.seq > 0
  <2>1. last[k] \in 0..MaxLog
    BY <1>0 DEF Marked
  <2>2. Bounded'
    BY DEF JInv, LogInv
  <2>3. Numbered(e)
    BY <1>3 DEF Numbered
  <2>4. e.seq > 0 /\ e.seq \in Nat
    BY <1>1, <2>2, <2>3 DEF Bounded, Envelopes
  <2> QED BY <2>1, <2>4, CapsAssumption
<1>10. last[k] = q /\ last[k] # 0
  BY <1>1, <1>7, <1>8, <1>9
<1>11. Has(n, q)
  BY <1>0, <1>5, <1>10 DEF LastSent
<1> QED BY <1>0, <1>11, HasGrows

LEMMA HandedStep == ASSUME JInv, JInv', RInv, [Next]_vars PROVE Handed'
<1>0. IInv /\ LogInv /\ RestTyped /\ TInv /\ Marked /\ InHand /\ Handed
  BY DEF JInv, RInv, TInv
<1>1. \A n \in Conns : \A q \in Nat : Has(n, q) => Has(n, q)'
  BY <1>0, HasGrows
<1> SUFFICES ASSUME at' = "record", NEW k \in Keys, NEW n \in Conns, NEW p \in Positions',
                    clients'[k] = n, conns'[n].opener <= p, pos' = p + 1, Wanted(k, p)',
                    NEW q \in Nat, q = log'[p].seq
             PROVE  Has(n, q)'
  BY DEF Handed
<1>2. p \in Nat /\ pos \in Nat /\ n # 0
  <2>1. p \in 1..Len(log')
    BY DEF Positions
  <2> QED BY <1>0, <2>1, TypedFacts, CapsAssumption DEF Conns
<1>3. CASE \E e \in Incoming : Takes(e)
  <2>1. PICK e \in Incoming : Takes(e)
    BY <1>3
  <2>2. p = pos
    BY <1>2, <2>1 DEF Takes
  <2> QED BY <2>1, <2>2, HandedRead
<1>4. CASE SendInit \/ SendIncoming
  <2>1. log' = log /\ pos' = pos /\ clients' = clients /\ Reading
    BY <1>4 DEF SendInit, SendIncoming, backend, Reading
  <2>2. p = pos - 1
    BY <1>2, <2>1
  <2>3. log[p] = current /\ current \in Envelopes
    BY <1>0, <2>1, <2>2, CurrentBounded
  <2>4. OfKey(current, k)
    BY <2>1, <2>3 DEF Wanted
  <2>5. OfKey(current, key) /\ key \in Keys /\ clients[key] # 0
    BY <1>0, <1>4 DEF InHand, IInv, AtHand, SendInit, SendIncoming
  <2>6. k = key
    BY <1>0, <1>2, <2>1, <2>3, <2>4, <2>5, OneKey
  <2> QED BY <1>0, <1>4, <2>1, <2>3, <2>6, SendHas
<1>5. CASE Closed
  <2>1. log' = log /\ pos' = pos /\ Reading /\ at = "closing"
    BY <1>5 DEF Closed, backend, Reading
  <2>2. p = pos - 1
    BY <1>2, <2>1
  <2>3. log[p] = current /\ current.kind = "closed"
    BY <1>0, <2>1, <2>2, CurrentBounded DEF InHand
  <2> QED BY <2>1, <2>3 DEF Wanted, Whole
<1>6. CASE (\E c \in closers : ForwardClosed(c)) \/ UNCHANGED state
  <2>1. log' = log /\ pos' = pos /\ clients' = clients /\ conns' = conns /\ at' = at /\ Positions' = Positions
    BY <1>6 DEF ForwardClosed, state, backend, tracker, Positions
  <2>2. Wanted(k, p)
    BY <1>0, <2>1, WholeKept
  <2>3. Has(n, q)
    BY <1>0, <2>1, <2>2 DEF Handed
  <2> QED BY <1>1, <2>3
<1>7. ~ (Reopen \/ Open \/ Record \/ Forget \/ Invalidates \/ (\E j \in Keys : Closes(j)) \/ Collects \/ Ends \/ Between)
  BY DEF Reopen, Open, Record, Forget, Invalidates, Closes, Collects, Ends, Between
<1> QED BY <1>0, <1>3, <1>4, <1>5, <1>6, <1>7, Steps

(* The first segment of a message is read. *)
LEMMA KeptRead ==
  ASSUME JInv, JInv', SInv, RInv, [Next]_vars, NEW e \in Incoming, Takes(e),
         NEW p \in Positions', p = pos, NEW k \in Keys, NEW n \in Conns, Lasting(k, n),
         e.kind = "chunk0", e.client = k[1], e.stream = k[2],
         NEW q \in Nat, q = e.seq
  PROVE  AssemblingOf(k, q)' \/ (p + 1 \in Positions' /\ ~ Whole(p + 1)')
<1>0. IInv /\ LogInv' /\ Recorded /\ Delivered /\ Assembled /\ Passed
  BY DEF JInv, SInv, RInv
<1>1. /\ log' \in Seq(Envelopes) /\ log'[p] = e /\ e \in Envelopes
      /\ Positions \subseteq Positions' /\ \A i \in Positions : log'[i] = log[i]
      /\ \A i \in Positions' : i \notin Positions => i = p
      /\ p \notin Positions => p = Len(log) + 1
      /\ p \in Positions => log' = log
  BY DEF Takes
<1>2. /\ p \in Nat /\ Len(log) \in Nat /\ cursor \in Nat /\ Positions = 1..Len(log)
      /\ cursor < p /\ Len(log') \in Nat /\ Positions' = 1..Len(log')
  BY <1>0, <1>1, TypedFacts DEF Recorded, Positions
<1>3. /\ asm' = Observe(e).asm /\ e.stream \in Streams /\ e.client \in Clients
      /\ e.seq \in 0..MaxLog /\ e.kind \in Chunks
  BY <1>0, ChunkKinds, Fresh
<1>4. /\ Table(asm) /\ Len(asm) <= AssemblyCap
      /\ \A y : In(y, asm) => y \in Asms /\ Assembling(y) /\ y.next = 1
  BY <1>0, TableFacts
<1>5. (\A y : In(y, asm) /\ Mine(y, e) => y.seq = e.seq) => In(Begun(e), asm')
  BY <1>1, <1>3, <1>4, Observed
<1>6. CASE \A y : In(y, asm) /\ Mine(y, e) => y.seq = e.seq
  <2>1. Begun(e) \in Asms /\ Begun(e).client = k[1] /\ Begun(e).stream = k[2] /\ Begun(e).seq = q
    BY <1>3 DEF Begun, Asms
  <2>2. PICK y \in Asms : y = Begun(e)
    BY <2>1
  <2>3. Assembling(y)'
    BY <1>5, <1>6, <2>2 DEF Assembling, In
  <2> QED BY <2>1, <2>2, <2>3 DEF AssemblingOf
<1>7. ASSUME NEW y, In(y, asm), Mine(y, e), y.seq # e.seq
      PROVE  p + 1 \in Positions' /\ ~ Whole(p + 1)'
  <2>1. y \in Asms /\ Assembling(y) /\ y.seq \in Nat /\ e.seq \in Nat
    BY <1>3, <1>4, <1>7, CapsAssumption DEF Asms
  <2>2. /\ \E a \in Positions : FirstOf(a, y)
        /\ \A m \in Positions : SecondOf(m, y) => p <= m
    BY <1>0, <2>1 DEF Assembled
  <2>3. PICK a \in Positions : FirstOf(a, y)
    BY <2>2
  <2>4. /\ log'[a].client = e.client /\ log'[a].stream = e.stream
        /\ log'[a].kind = "chunk0" /\ log'[a].seq = y.seq /\ a \in Positions' /\ a \in Nat
    BY <1>1, <1>2, <1>7, <2>3 DEF FirstOf, Mine
  <2>5. a # p
    BY <1>1, <1>7, <2>4
  <2>6. ~ (a < p)
    <3>1. SUFFICES ASSUME a < p PROVE FALSE
      OBVIOUS
    <3>2. SameStream(log'[a], log'[p])
      BY <1>1, <2>4 DEF SameStream
    <3>3. PICK m \in a + 1..p :
            SameStream(log'[a], log'[m]) /\ log'[m].kind \in Second /\ log'[m].seq = log'[a].seq
      BY <1>0, <2>4, <3>1, <3>2 DEF LogInv, Paired
    <3>4. m # p
      BY <1>1, <3>3 DEF Second
    <3>5. m \in Positions' /\ m < p /\ m \in Nat
      BY <1>2, <2>4, <3>3, <3>4
    <3>6. m \in Positions
      BY <1>1, <3>4, <3>5
    <3>7. SecondOf(m, y)
      BY <1>1, <1>7, <2>4, <3>3, <3>6 DEF SecondOf, SameStream, Mine
    <3> QED BY <1>2, <2>2, <3>5, <3>6, <3>7
  <2>7. p < a /\ a <= Len(log)
    BY <1>2, <2>3, <2>4, <2>5, <2>6
  <2>8. p \in Positions /\ p + 1 \in Positions /\ p + 1 \in Positions'
    BY <1>1, <1>2, <2>4, <2>7
  <2>9. log' = log /\ log[p] = e
    BY <1>1, <2>8
  <2>10. e.seq < y.seq
    <3>1. SameStream(log'[p], log'[a]) /\ Numbered(log'[p]) /\ Numbered(log'[a])
      BY <1>1, <2>4 DEF SameStream, Numbered
    <3>2. Before(log'[p], log'[a])
      BY <1>0, <2>4, <2>7, <3>1 DEF LogInv, StreamOrder
    <3>3. Before(e, log[a])
      BY <2>9, <3>2
    <3> QED BY <2>4, <2>9, <3>3 DEF Before, Second
  <2>11. ~ Whole(p + 1)
    <3>1. SUFFICES ASSUME Whole(p + 1) PROVE FALSE
      OBVIOUS
    <3>2. PICK i \in Positions : i = p + 1
      BY <2>8
    <3>3. i - 1 = p /\ cursor < i
      BY <1>2, <3>2
    <3>4. log[i] \in Envelopes
      BY <1>0 DEF IInv, Typed, Positions
    <3>5. Whole(i) /\ log[p] = [log[i] EXCEPT !.kind = "chunk0"]
      BY <3>1, <3>2, <3>3 DEF Whole
    <3>6. log[i].client = e.client /\ log[i].stream = e.stream /\ log[i].seq = e.seq
      BY <2>9, <3>4, <3>5 DEF Envelopes
    <3>7. WholeOf(k, i)
      BY <3>5, <3>6 DEF WholeOf
    <3>8. PICK r \in Nat : r = y.seq
      BY <2>1
    <3>9. AssemblingOf(k, r)
      BY <1>7, <2>1, <3>8 DEF AssemblingOf, Mine
    <3>10. r <= log[i].seq
      BY <1>0, <3>3, <3>7, <3>9 DEF Passed
    <3> QED BY <2>1, <2>10, <3>6, <3>8, <3>10
  <2>12. ~ Whole(p + 1)'
    BY <1>0, <2>8, <2>11, WholeKept
  <2> QED BY <2>8, <2>12
<1> QED BY <1>6, <1>7

(* What happens to the assemblies of an open stream outside a Read. *)
LEMMA AssembliesKept ==
  ASSUME JInv, SInv, [Next]_vars, ~ \E e \in Incoming : Takes(e),
         NEW k \in Keys, NEW q \in Nat
  PROVE  /\ AssemblingOf(k, q)' => AssemblingOf(k, q)
         /\ clients[k] # 0 /\ ~ Record /\ ~ Forget => (AssemblingOf(k, q) => AssemblingOf(k, q)')
<1>0. IInv /\ Recorded /\ Assembled /\ InHand
  BY DEF JInv, SInv, TInv
<1>1. Table(asm)
  BY <1>0, TableFacts
<1>2. \A y : (Assembling(y) <=> In(y, asm)) /\ (Assembling(y)' <=> In(y, asm'))
  BY DEF Assembling, In
<1>3. CASE asm' = asm
  BY <1>2, <1>3 DEF AssemblingOf
<1>4. CASE Record \/ Forget
  <2>1. \/ asm' = asm \/ asm' = Removed(asm, current.client, current.stream)
        \/ asm' = Without(asm, Assembly(asm, current.client))
    BY <1>4 DEF Record, Forget
  <2>2. \A y : In(y, asm') => In(y, asm)
    BY <1>1, <2>1, TableRemoved, TableClientRemoved
  <2> QED BY <1>2, <1>4, <2>2 DEF AssemblingOf
<1>5. CASE Invalidates /\ asm' # asm
  <2>1. asm' = Removed(asm, key[1], key[2]) /\ key \in Keys /\ clients[key] = 0
    BY <1>0, <1>5 DEF Invalidates, InHand
  <2>2. \A y : In(y, asm') <=> In(y, asm) /\ ~ (y.client = key[1] /\ y.stream = key[2])
    BY <1>1, <2>1, TableRemoved
  <2>3. clients[k] # 0 => ~ (k[1] = key[1] /\ k[2] = key[2])
    <3>1. k = <<k[1], k[2]>> /\ key = <<key[1], key[2]>>
      BY <2>1 DEF Keys
    <3> QED BY <2>1, <3>1
  <2> QED BY <1>2, <2>2, <2>3 DEF AssemblingOf
<1> QED BY <1>0, <1>3, <1>4, <1>5, SegmentSteps

LEMMA KeptStep == ASSUME JInv, JInv', SInv, RInv, [Next]_vars PROVE Kept'
<1>0. IInv /\ Recorded /\ TInv /\ Kept
  BY DEF JInv, RInv
<1> SUFFICES ASSUME at' \in {"select"} \cup Aside, NEW k \in Keys, NEW n \in Conns, NEW p \in Positions',
                    Lasting(k, n)', cursor' < p, pos' = p + 1,
                    log'[p].kind = "chunk0", log'[p].client = k[1], log'[p].stream = k[2],
                    NEW q \in Nat, q = log'[p].seq
             PROVE  AssemblingOf(k, q)' \/ (p + 1 \in Positions' /\ ~ Whole(p + 1)')
  BY DEF Kept
<1>1. p \in Nat /\ pos \in Nat /\ cursor \in Nat /\ n # 0
  <2>1. p \in 1..Len(log')
    BY DEF Positions
  <2> QED BY <1>0, <2>1, TypedFacts, CapsAssumption DEF Conns
<1>2. ~ Record /\ ~ Forget
  BY <1>0, <1>1 DEF Record, Forget, backend, Recorded
<1>3. cursor' = cursor
  BY <1>0, <1>2, SegmentSteps DEF Takes, Invalidates
<1>4. Lasting(k, n)
  BY <1>3, Lasted
<1>5. CASE \E e \in Incoming : Takes(e)
  <2>1. PICK e \in Incoming : Takes(e)
    BY <1>5
  <2>2. p = pos /\ log'[p] = e
    BY <1>1, <2>1 DEF Takes
  <2> QED BY <1>4, <2>1, <2>2, KeptRead
<1>6. CASE ~ (\E e \in Incoming : Takes(e)) /\ log' = log /\ pos' = pos /\ at \in {"select"} \cup Aside
  <2>1. Positions' = Positions
    BY <1>6 DEF Positions
  <2>2. AssemblingOf(k, q) \/ (p + 1 \in Positions /\ ~ Whole(p + 1))
    BY <1>0, <1>3, <1>4, <1>6, <2>1 DEF Kept
  <2>3. AssemblingOf(k, q) => AssemblingOf(k, q)'
    BY <1>1, <1>2, <1>4, <1>6, AssembliesKept DEF Lasting
  <2>4. p + 1 \in Positions => (Whole(p + 1)' <=> Whole(p + 1))
    BY <1>0, WholeKept
  <2> QED BY <2>1, <2>2, <2>3, <2>4
<1>7. CASE Between
  <2>1. pos' = pos /\ pos = cursor + 1
    BY <1>0, <1>7 DEF Between, Recorded
  <2> QED BY <1>1, <1>3, <2>1
<1>8. \/ \E e \in Incoming : Takes(e)
      \/ Between
      \/ log' = log /\ pos' = pos /\ at \in {"select"} \cup Aside
  BY <1>0, <1>2, Steps DEF Reopen, Open, SendInit, SendIncoming, Closed, Invalidates, Closes, Collects,
                           Ends, ForwardClosed, Aside, state, backend
<1> QED BY <1>5, <1>6, <1>7, <1>8

(* The second segment of a message is read right after the first: it completes it. *)
LEMMA WholeRead ==
  ASSUME JInv, JInv', SInv, RInv, [Next]_vars, NEW e \in Incoming, Takes(e),
         NEW i \in Positions', i = pos, NEW k \in Keys, NEW n \in Conns, Lasting(k, n), WholeOf(k, i)'
  PROVE  at' \in {"incoming", "record"}
<1>0. IInv /\ Recorded /\ Delivered /\ Assembled /\ Kept
  BY DEF JInv, SInv, RInv
<1>1. /\ log' \in Seq(Envelopes) /\ log'[i] = e /\ e \in Envelopes /\ at = "select"
      /\ \A j \in Positions : log'[j] = log[j]
      /\ \A j \in Positions' : j \notin Positions => j = i
  BY DEF Takes
<1>2. /\ i \in Nat /\ cursor \in Nat /\ cursor < i /\ Len(log') \in Nat /\ Positions' = 1..Len(log')
  BY <1>0, <1>1, TypedFacts DEF Recorded, Positions
<1>3. /\ e.kind = "chunk1" /\ i > 1 /\ log'[i - 1] = [e EXCEPT !.kind = "chunk0"]
      /\ e.client = k[1] /\ e.stream = k[2]
  BY <1>1 DEF WholeOf, Whole
<1>4. PICK p : p = i - 1
  OBVIOUS
<1>5. p \in Nat /\ i = p + 1 /\ p \in Positions' /\ p \in Positions
  BY <1>1, <1>2, <1>3, <1>4
<1>6. log[p].kind = "chunk0" /\ log[p].client = k[1] /\ log[p].stream = k[2] /\ log[p].seq = e.seq
  BY <1>1, <1>3, <1>4, <1>5 DEF Envelopes
<1>7. cursor < p
  <2>1. cursor # p
    BY <1>0, <1>5, <1>6 DEF Delivered
  <2> QED BY <1>2, <1>5, <2>1
<1>8. PICK q \in Nat : q = e.seq
  BY <1>1 DEF Envelopes
<1>9. p + 1 \in Positions => Whole(p + 1)
  BY <1>0, <1>5, WholeKept DEF WholeOf
<1>10. AssemblingOf(k, q)
  BY <1>0, <1>1, <1>5, <1>6, <1>7, <1>8, <1>9 DEF Kept
<1>11. PICK y \in Asms : Assembling(y) /\ y.client = k[1] /\ y.stream = k[2] /\ y.seq = e.seq
  BY <1>8, <1>10 DEF AssemblingOf
<1>12. /\ Table(asm) /\ Len(asm) <= AssemblyCap /\ \A z : In(z, asm) => z.next = 1
       /\ In(y, asm) /\ Mine(y, e)
  BY <1>0, <1>3, <1>11, TableFacts DEF Mine
<1>13. /\ e.stream \in Streams /\ e.seq \in 0..MaxLog /\ e.kind \in Chunks
       /\ Forwarded(e) <=> Observe(e).complete
  BY <1>0, <1>3, ChunkKinds, Fresh
<1>14. Observe(e).complete
  BY <1>1, <1>3, <1>11, <1>12, <1>13, Observed
<1>15. ReadMessage(e)
  <2>1. ~ ReadDropped(e)
    BY <1>13, <1>14 DEF ReadDropped
  <2>2. ~ ReadInit(e) /\ ~ ReadPing(e) /\ ~ ReadClosed(e)
    BY <1>3 DEF ReadInit, ReadPing, ReadClosed
  <2> QED BY <2>1, <2>2 DEF Takes
<1> QED BY <1>15 DEF ReadMessage

LEMMA PassedRead ==
  ASSUME JInv, JInv', SInv, RInv, [Next]_vars, NEW e \in Incoming, Takes(e),
         NEW k \in Keys, NEW n \in Conns, NEW i \in Positions',
         Lasting(k, n), last'[k] = last[k], cursor < i, WholeOf(k, i)'
  PROVE  /\ pos' <= i \/ (pos' = i + 1 /\ at' \in {"incoming", "record"})
         /\ last[k] <= log'[i].seq
         /\ \A q \in Nat : AssemblingOf(k, q)' => q <= log'[i].seq
<1>0. IInv /\ LogInv' /\ Recorded /\ Delivered /\ Assembled /\ Passed
  BY DEF JInv, SInv, RInv
<1>1. PICK p \in Positions' : p = pos
  BY DEF Takes
<1>2. /\ log' \in Seq(Envelopes) /\ log'[p] = e /\ e \in Envelopes /\ at = "select" /\ pos' = p + 1
      /\ Positions \subseteq Positions' /\ \A j \in Positions : log'[j] = log[j]
      /\ \A j \in Positions' : j \notin Positions => j = p
      /\ p \notin Positions => p = Len(log) + 1
  BY <1>1 DEF Takes
<1>3. /\ p \in Nat /\ i \in Nat /\ cursor \in Nat /\ cursor < p /\ Len(log) \in Nat /\ Positions = 1..Len(log)
      /\ Len(log') \in Nat /\ Positions' = 1..Len(log')
  BY <1>0, <1>1, <1>2, TypedFacts DEF Recorded, Positions
<1>4. /\ log'[i].kind = "chunk1" /\ log'[i].client = k[1] /\ log'[i].stream = k[2] /\ Whole(i)'
      /\ Numbered(log'[i]) /\ log'[i] \in Envelopes
  BY <1>2, <1>3 DEF WholeOf, Whole, Numbered
<1>5. log'[i].seq \in Nat /\ e.seq \in Nat
  BY <1>2, <1>4 DEF Envelopes
<1>6. ASSUME i \in Positions
      PROVE  /\ log'[i] = log[i] /\ p <= i /\ last[k] <= log[i].seq
             /\ \A q \in Nat : AssemblingOf(k, q) => q <= log[i].seq
  <2>1. log'[i] = log[i] /\ WholeOf(k, i)
    BY <1>0, <1>6, WholeKept
  <2> QED BY <1>0, <1>1, <1>2, <1>6, <2>1 DEF Passed
<1>7. ASSUME i \notin Positions PROVE i = p
  BY <1>2, <1>7
<1>8. pos' <= i \/ (pos' = i + 1 /\ at' \in {"incoming", "record"})
  <2>1. CASE i = p
    BY <1>1, <1>2, <2>1, WholeRead
  <2>2. CASE i # p
    <3>1. p <= i
      BY <1>6, <1>7, <2>2
    <3> QED BY <1>2, <1>3, <2>2, <3>1
  <2> QED BY <2>1, <2>2
<1>9. last[k] <= log'[i].seq
  <2>1. CASE i \in Positions
    BY <1>6, <2>1
  <2>2. CASE i \notin Positions
    <3>1. i = p /\ log'[i] = e /\ OfKey(e, k)
      BY <1>2, <1>4, <1>7, <2>2 DEF OfKey
    <3>2. clients[k] = n /\ conns[n].opener <= cursor
      BY DEF Lasting
    <3>3. PICK o \in Positions : conns[n].opener = o
      BY <3>2, OpenerFacts
    <3>4. conns[n].opener <= p
      BY <1>3, <3>2, <3>3
    <3> QED BY <1>1, <1>4, <3>1, <3>2, <3>4, NotBeyond
  <2> QED BY <2>1, <2>2
<1>10. ASSUME NEW q \in Nat, AssemblingOf(k, q)' PROVE q <= log'[i].seq
  <2>1. PICK y \in Asms : Assembling(y)' /\ y.client = k[1] /\ y.stream = k[2] /\ y.seq = q
    BY <1>10 DEF AssemblingOf
  <2>2. In(y, asm')
    BY <2>1 DEF Assembling, In
  <2>3. CASE In(y, asm)
    <3>1. Assembling(y)
      BY <2>3 DEF Assembling, In
    <3>2. CASE i \in Positions
      <4>1. AssemblingOf(k, q)
        BY <2>1, <3>1 DEF AssemblingOf
      <4> QED BY <1>6, <3>2, <4>1
    <3>3. CASE i \notin Positions
      <4>1. PICK a \in Positions : FirstOf(a, y)
        BY <1>0, <3>1 DEF Assembled
      <4>2. i = p /\ a < p /\ a \in Positions'
        BY <1>2, <1>3, <1>7, <3>3, <4>1
      <4>3. /\ log'[a].client = k[1] /\ log'[a].stream = k[2]
            /\ log'[a].kind = "chunk0" /\ log'[a].seq = q
        BY <1>2, <2>1, <4>1 DEF FirstOf
      <4>4. SameStream(log'[a], log'[i]) /\ Numbered(log'[a])
        BY <1>4, <4>3 DEF SameStream, Numbered
      <4>5. Before(log'[a], log'[i])
        BY <1>0, <1>4, <4>2, <4>4 DEF LogInv, StreamOrder
      <4> QED BY <1>5, <4>3, <4>5 DEF Before
    <3> QED BY <3>2, <3>3
  <2>4. CASE e.kind = "chunk0" /\ y = Begun(e)
    <3>1. e.client = k[1] /\ e.stream = k[2] /\ e.seq = q
      BY <2>1, <2>4 DEF Begun
    <3>2. i # p
      BY <1>2, <1>4, <2>4
    <3>3. p < i
      BY <1>3, <1>6, <1>7, <3>2
    <3>4. SameStream(log'[p], log'[i]) /\ Numbered(log'[p])
      BY <1>2, <1>4, <2>4, <3>1 DEF SameStream, Numbered
    <3>5. Before(log'[p], log'[i])
      BY <1>0, <1>4, <3>3, <3>4 DEF LogInv, StreamOrder
    <3> QED BY <1>2, <1>5, <3>1, <3>5 DEF Before
  <2> QED BY <1>0, <2>2, <2>3, <2>4, TableRead
<1> QED BY <1>8, <1>9, <1>10

LEMMA PassedStep == ASSUME JInv, JInv', SInv, RInv, [Next]_vars PROVE Passed'
<1>0. IInv /\ LogInv /\ Recorded /\ RestTyped /\ InHand /\ Passed
  BY DEF JInv, RInv, TInv
<1> SUFFICES ASSUME NEW k \in Keys, NEW n \in Conns, NEW i \in Positions',
                    Lasting(k, n)', cursor' < i, WholeOf(k, i)'
             PROVE  /\ pos' <= i \/ (pos' = i + 1 /\ at' \in {"incoming", "record"})
                    /\ last'[k] <= log'[i].seq
                    /\ \A q \in Nat : AssemblingOf(k, q)' => q <= log'[i].seq
  BY DEF Passed
<1>1. /\ pos \in Nat /\ cursor \in Nat /\ cursor < pos /\ Len(log) \in Nat /\ Positions = 1..Len(log)
      /\ log \in Seq(Envelopes)
  BY <1>0, TypedFacts DEF Recorded, Positions, IInv, Typed
<1>2. CASE Record
  <2>1. /\ log' = log /\ cursor' = pos - 1 /\ pos' = pos /\ Positions' = Positions /\ at = "record"
        /\ clients' = clients /\ conns' = conns /\ last' = last
    BY <1>2 DEF Record, backend, tracker, Positions
  <2>2. i \in Positions /\ i \in Nat /\ i <= Len(log) /\ pos <= i /\ cursor < i /\ log'[i] = log[i]
    BY <1>1, <2>1
  <2>3. clients[k] = n /\ conns[n].opener <= pos - 1
    BY <2>1 DEF Lasting
  <2>4. PICK o \in Positions : conns[n].opener = o /\ (cursor < o => o = Len(log))
    BY <2>3, OpenerFacts
  <2>5. o <= cursor
    BY <1>1, <2>2, <2>3, <2>4
  <2>6. Lasting(k, n) /\ WholeOf(k, i)
    BY <1>0, <2>2, <2>3, <2>4, <2>5, WholeKept DEF Lasting
  <2>7. last[k] <= log[i].seq /\ \A q \in Nat : AssemblingOf(k, q) => q <= log[i].seq
    BY <1>0, <2>2, <2>6 DEF Passed
  <2>8. ~ \E e \in Incoming : Takes(e)
    BY <2>1 DEF Takes
  <2> QED BY <2>1, <2>2, <2>7, <2>8, AssembliesKept
<1>3. CASE ~ Record
  <2>1. cursor' = cursor
    BY <1>0, <1>3, SegmentSteps DEF Takes, Forget, Invalidates
  <2>2. /\ Lasting(k, n) /\ cursor < i
        /\ last'[k] = last[k] \/ (SendIncoming /\ k = key /\ last'[k] = current.seq)
    BY <2>1, Lasted
  <2>3. CASE \E e \in Incoming : Takes(e)
    <3>1. PICK e \in Incoming : Takes(e)
      BY <2>3
    <3>2. last'[k] = last[k]
      BY <2>2, <3>1 DEF Takes, SendIncoming
    <3> QED BY <2>2, <3>1, <3>2, PassedRead
  <2>4. CASE ~ \E e \in Incoming : Takes(e)
    <3>1. log' = log /\ (pos' = pos \/ pos' = cursor + 1) /\ Positions' = Positions
      BY <1>0, <1>3, <2>4, SegmentSteps DEF Forget, Invalidates, backend, Positions
    <3>2. i \in Positions /\ i \in Nat /\ log'[i] = log[i] /\ WholeOf(k, i)
      BY <1>0, <1>1, <3>1, WholeKept
    <3>3. /\ pos <= i \/ (pos = i + 1 /\ at \in {"incoming", "record"})
          /\ last[k] <= log[i].seq
          /\ \A q \in Nat : AssemblingOf(k, q) => q <= log[i].seq
      BY <1>0, <2>2, <3>2 DEF Passed
    <3>4. \A q \in Nat : AssemblingOf(k, q)' => q <= log'[i].seq
      BY <2>4, <3>2, <3>3, AssembliesKept
    <3>5. pos' <= i \/ (pos' = i + 1 /\ at' \in {"incoming", "record"})
      <4>1. CASE pos' = cursor + 1
        BY <1>1, <2>2, <3>2, <4>1
      <4>2. CASE pos' = pos /\ at \in {"incoming", "record"} /\ at' \notin {"incoming", "record"}
        <5>1. Ends
          BY <1>0, <1>3, <2>4, <4>2, Steps
             DEF Reopen, Open, SendInit, SendIncoming, Closed, Forget, Invalidates, Closes,
                 Collects, Aside, Between, ForwardClosed, state
        <5> QED BY <4>1, <5>1 DEF Ends
      <4>3. CASE pos' = pos /\ ~ (at \in {"incoming", "record"} /\ at' \notin {"incoming", "record"})
        BY <3>3, <4>3
      <4> QED BY <3>1, <4>1, <4>2, <4>3
    <3>6. last'[k] <= log'[i].seq
      <4>1. CASE last'[k] = last[k]
        BY <3>2, <3>3, <4>1
      <4>2. CASE SendIncoming /\ k = key /\ last'[k] = current.seq
        <5>1. Reading /\ at = "incoming" /\ OfKey(current, k) /\ current.kind \in {"msg", "chunk1"}
          BY <1>0, <4>2 DEF SendIncoming, Reading, InHand
        <5>2. PICK p \in Positions : p = pos - 1 /\ log[p] = current /\ current \in Envelopes
          BY <1>0, <5>1, CurrentBounded
        <5>3. p \in Nat /\ p <= i
          BY <1>1, <3>2, <3>3, <5>2
        <5>4. log[i] \in Envelopes /\ log[i].kind = "chunk1" /\ OfKey(log[i], k)
          BY <1>1, <3>2 DEF WholeOf, Whole, OfKey
        <5>5. CASE p = i
          <6>1. log[i].seq \in Nat
            BY <5>4 DEF Envelopes
          <6> QED BY <3>2, <4>2, <5>2, <5>5, <6>1
        <5>6. CASE p < i
          <6>1. SameStream(log[p], log[i])
            BY <5>1, <5>2, <5>4, OneStream
          <6>2. Numbered(log[p]) /\ Numbered(log[i])
            BY <5>1, <5>2, <5>4 DEF Numbered
          <6>3. log[p].seq <= log[i].seq
            BY <1>0, <1>1, <3>2, <5>6, <6>1, <6>2, Sorted
          <6> QED BY <3>2, <4>2, <5>2, <6>3
        <5> QED BY <3>2, <5>3, <5>5, <5>6
      <4> QED BY <2>2, <4>1, <4>2
    <3> QED BY <3>4, <3>5, <3>6
  <2> QED BY <2>3, <2>4
<1> QED BY <1>2, <1>3

LEMMA RInvInit == Init => RInv
<1> SUFFICES ASSUME Init PROVE RInv
  OBVIOUS
<1>1. /\ log = <<>> /\ clients = [k \in Keys |-> 0] /\ at = "off"
  BY DEF Init
<1>2. Positions = {} /\ \A n \in Conns : n # 0
  BY <1>1, CapsAssumption DEF Positions, Conns
<1>3. \A k \in Keys : \A n \in Conns : clients[k] # n
  BY <1>1, <1>2
<1> QED BY <1>1, <1>2, <1>3 DEF RInv, LastSent, Passed, Kept, Handed, Reached

LEMMA RInvStep == JInv /\ SInv /\ RInv /\ [Next]_vars => RInv'
<1> SUFFICES ASSUME JInv, SInv, RInv, [Next]_vars PROVE RInv'
  OBVIOUS
<1>1. JInv'
  BY JInvStep
<1>2. LastSent'
  BY LastSentStep DEF RInv
<1>3. Passed' /\ Kept' /\ Handed' /\ Reached'
  BY <1>1, PassedStep, KeptStep, HandedStep, ReachedStep
<1> QED BY <1>2, <1>3 DEF RInv

(* Every message of an open connection's stream that the cursor has passed  *)
(* was put on its queue, one of two segments included when nothing came     *)
(* between them, whatever timed out, broke, was delivered again or was      *)
(* evicted from the reassembler in between (websocket.rs,                   *)
(* record_client_message_delivery comes after handle_message).              *)
THEOREM CursorLosesNothing == Spec => []NoLossUpToCursor
<1>1. JInv /\ RInv => NoLossUpToCursor
  <2> SUFFICES ASSUME JInv, RInv, NEW k \in Keys, clients[k] # 0,
                      NEW i \in conns[clients[k]].opener..cursor,
                      log[i].client = k[1], log[i].stream \in {k[2], None},
                      log[i].stream = None => k[2] \in LegacyStreams,
                      log[i].kind \in {"init", "msg"} \/ Whole(i)
               PROVE  \E j \in 1..Len(events[clients[k]]) :
                        events[clients[k]][j] = [is |-> "incoming", seq |-> log[i].seq]
    BY DEF NoLossUpToCursor
  <2>0. IInv /\ Reached
    BY DEF JInv, RInv
  <2>1. PICK n \in Conns : clients[k] = n
    BY <2>0, EntryConn
  <2>2. PICK o \in Positions : conns[n].opener = o
    BY <2>1, OpenerFacts
  <2>3. i \in Positions /\ o <= i /\ i <= cursor /\ i \in Nat
    BY <2>0, <2>1, <2>2, TypedFacts DEF Positions
  <2>4. log[i].seq \in Nat
    <3>1. log[i] \in Envelopes
      BY <2>0, <2>3 DEF IInv, Typed, Positions
    <3> QED BY <3>1 DEF Envelopes
  <2>5. Wanted(k, i)
    BY DEF Wanted, OfKey
  <2>6. Has(n, log[i].seq)
    BY <2>0, <2>1, <2>2, <2>3, <2>4, <2>5 DEF Reached
  <2> QED BY <2>1, <2>6 DEF Has
<1>2. Init => JInv /\ SInv /\ RInv
  BY JInvInit, SInvInit, RInvInit
<1> QED BY <1>1, <1>2, SInvStep, RInvStep, PTL DEF Spec

=============================================================================
