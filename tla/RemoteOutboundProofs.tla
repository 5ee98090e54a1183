------------------------ MODULE RemoteOutboundProofs ------------------------
(***************************************************************************)
(* The outbound half of remote control keeps its promise to the client for *)
(* any set of streams, any capacity and any number of lost websockets.     *)
(*                                                                         *)
(* Everything is compared by its position in numbered[k], the sequence of  *)
(* all envelopes ever numbered for a stream.  What the client accepted is  *)
(* a prefix of it; the buffer is a suffix that begins no later than where  *)
(* that prefix ends; and so are, together, the envelopes in flight and     *)
(* those yet to be sent.  Cursors increase with the position, which is why *)
(* the client's and the buffer's comparisons of cursors find positions.    *)
(***************************************************************************)
EXTENDS RemoteOutbound, FiniteSetTheorems, TLAPS

Envelope == [seq : Nat, seg : Nat]
Event == [key : Keys, segments : 0..MaxSegments]

TypeOK ==
  /\ events \in [Keys -> Nat] /\ queue \in Seq(Event)
  /\ nextSeq \in [Keys -> Nat] /\ used \in Int
  /\ buffer \in [Keys -> Seq(Envelope)] /\ numbered \in [Keys -> Seq(Envelope)]
  /\ writer \in {"off", "replay", "ready", "sending"} /\ breaks \in Nat
  /\ out \in [Keys -> Seq(Envelope)] /\ wire \in [Keys -> Seq(Envelope)]
  /\ accepted \in [Keys -> Seq(Envelope)]

(* The numbered envelopes of a stream are in the order of their cursors, *)
(* and the next number is beyond all of theirs.                          *)
Increasing(all, next) ==
  /\ \A i \in 1..Len(all) : all[i].seq < next
  /\ \A i, j \in 1..Len(all) : i < j => ~NotAfter(all[j], all[i])

(* part is what stands in all after the first n envelopes. *)
Follows(part, all, n) ==
  /\ Len(part) + n <= Len(all)
  /\ \A i \in 1..Len(part) : part[i] = all[n + i]

(* How many of a stream's envelopes have left the buffer, or had been sent *)
(* and received or lost before the ones now in flight.                     *)
Gone(k) == Len(numbered[k]) - Len(buffer[k])
Past(k) == Len(numbered[k]) - Len(wire[k]) - Len(out[k])

Prefix(k) == Follows(accepted[k], numbered[k], 0)

BufferSuffix(k) ==
  /\ Gone(k) \in 0..Len(accepted[k])
  /\ Follows(buffer[k], numbered[k], Gone(k))

SendingSuffix(k) ==
  writer # "off" =>
    /\ Past(k) \in 0..Len(accepted[k])
    /\ Follows(wire[k], numbered[k], Past(k))
    /\ Follows(out[k], numbered[k], Past(k) + Len(wire[k]))

Resting(k) ==
  /\ writer \in {"off", "ready"} => out[k] = <<>>
  /\ writer = "off" => wire[k] = <<>>

Slices(k) == 
  /\ Increasing(numbered[k], nextSeq[k]) /\ Prefix(k) /\ BufferSuffix(k)
  /\ SendingSuffix(k) /\ Resting(k)

Counted ==
  /\ IsFiniteSet(Buffered)
  /\ BufferAccounted

IInv == TypeOK /\ (\A k \in Keys : Slices(k)) /\ Counted

-----------------------------------------------------------------------------
(* Operators. *)

(* What was split off one message is in the order of its segments. *)
LEMMA SplitLemma ==
  ASSUME NEW event \in Event, NEW seq \in Nat
  PROVE  /\ Split(event, seq) \in Seq(Envelope)
         /\ Len(Split(event, seq)) = event.segments
         /\ Len(Split(event, seq)) \in 0..MaxSegments
         /\ \A i \in 1..Len(Split(event, seq)) :
              Split(event, seq)[i] = [seq |-> seq, seg |-> i - 1]
<1> DEFINE envelopes == Split(event, seq)
<1>1. event.segments \in 0..MaxSegments /\ event.segments \in Nat
  BY CapacityAssumption DEF Event
<1>2. envelopes = [i \in 1..event.segments |-> [seq |-> seq, seg |-> i - 1]]
  BY DEF Split
<1>3. \A i \in 1..event.segments : [seq |-> seq, seg |-> i - 1] \in Envelope
  BY <1>1 DEF Envelope
<1>4. envelopes \in [1..event.segments -> Envelope]
  BY <1>2, <1>3
<1>5. envelopes \in Seq(Envelope) /\ Len(envelopes) = event.segments
  BY <1>1, <1>4
<1> QED  BY <1>1, <1>2, <1>5

(* Numbering a message keeps the envelopes of its stream in order. *)
LEMMA IncreasingGrows ==
  ASSUME NEW all \in Seq(Envelope), NEW next \in Nat, NEW event \in Event,
         Increasing(all, next)
  PROVE  Increasing(all \o Split(event, next), next + 1)
<1> DEFINE more == Split(event, next)
           new == all \o more
<1>1. /\ more \in Seq(Envelope)
      /\ \A i \in 1..Len(more) : more[i] = [seq |-> next, seg |-> i - 1]
  BY SplitLemma
<1> HIDE DEF more
<1>2. /\ Len(new) \in Nat /\ Len(all) \in Nat
      /\ \A i \in 1..Len(new) : i <= Len(all) => new[i] = all[i]
      /\ \A i \in 1..Len(new) :
           i > Len(all) => new[i].seq = next /\ new[i].seg = i - Len(all) - 1
  <2>1. /\ Len(all) \in Nat /\ Len(more) \in Nat /\ Len(new) = Len(all) + Len(more)
        /\ \A i \in 1..Len(new) : i <= Len(all) => new[i] = all[i]
        /\ \A i \in 1..Len(new) : i > Len(all) => new[i] = more[i - Len(all)]
    BY <1>1
  <2>2. \A i \in 1..Len(new) : i > Len(all) => i - Len(all) \in 1..Len(more)
    BY <2>1
  <2> HIDE DEF new
  <2>3. ASSUME NEW i \in 1..Len(new), i > Len(all)
        PROVE  new[i].seq = next /\ new[i].seg = i - Len(all) - 1
    <3>1. new[i] = more[i - Len(all)] /\ i - Len(all) \in 1..Len(more)
      BY <2>1, <2>2, <2>3
    <3>2. more[i - Len(all)] = [seq |-> next, seg |-> (i - Len(all)) - 1]
      BY <1>1, <3>1
    <3> QED  BY <3>1, <3>2
  <2> QED  BY <2>1, <2>3
<1> HIDE DEF new
<1>a. \A i \in 1..Len(all) : all[i].seq \in Nat /\ all[i].seq < next
  <2>1. \A i \in 1..Len(all) : all[i] \in Envelope
    OBVIOUS
  <2> QED  BY <2>1 DEF Increasing, Envelope
<1>3. \A i \in 1..Len(new) : new[i].seq < next + 1
  BY <1>2, <1>a
<1>4. ASSUME NEW i \in 1..Len(new), NEW j \in 1..Len(new), i < j
      PROVE  ~NotAfter(new[j], new[i])
  <2>1. CASE j <= Len(all)
    BY <1>2, <1>4, <2>1 DEF Increasing
  <2>2. CASE j > Len(all) /\ i <= Len(all)
    <3>1. new[j].seq = next /\ new[i].seq \in Nat /\ new[i].seq < next
      BY <1>2, <1>a, <2>2
    <3> QED  BY <3>1 DEF NotAfter
  <2>3. CASE i > Len(all)
    BY <1>2, <1>4, <2>3 DEF NotAfter
  <2> QED  BY <1>2, <2>1, <2>2, <2>3
<1> QED  BY <1>3, <1>4 DEF Increasing, new, more

(* Among the positions of a stream, cursors compare as positions do. *)
LEMMA CursorsArePositions ==
  ASSUME NEW all \in Seq(Envelope), NEW next \in Nat, Increasing(all, next),
         NEW i \in 1..Len(all), NEW j \in 1..Len(all)
  PROVE  NotAfter(all[i], all[j]) <=> i <= j
<1>1. all[i] \in Envelope /\ all[j] \in Envelope
  OBVIOUS
<1>2. CASE i < j
  <2>1. ~NotAfter(all[j], all[i])
    BY <1>2 DEF Increasing
  <2> QED  BY <1>1, <1>2, <2>1 DEF NotAfter, Envelope
<1>3. CASE i = j
  BY <1>1, <1>3 DEF NotAfter, Envelope
<1>4. CASE j < i
  BY <1>4 DEF Increasing
<1> QED  BY <1>2, <1>3, <1>4

(* How many positions there are from one to another. *)
LEMMA IntervalSize ==
  ASSUME NEW a \in Nat, NEW b \in Nat, a <= b
  PROVE  IsFiniteSet(a + 1..b) /\ Cardinality(a + 1..b) = b - a
<1> DEFINE c == a + 1
<1>1. c \in Int /\ b \in Int
  OBVIOUS
<1> HIDE DEF c
<1>2. /\ IsFiniteSet(c..b)
      /\ Cardinality(c..b) = IF c > b THEN 0 ELSE b - c + 1
  BY <1>1, FS_Interval, Zenon
<1> QED  BY <1>2 DEF c

(* Retaining all positions after the first m drops the first m. *)
LEMMA RetainSuffix ==
  ASSUME NEW S, NEW seq \in Seq(S), NEW m \in 0..Len(seq)
  PROVE  /\ Cardinality(m + 1..Len(seq)) = Len(seq) - m
         /\ Retain(seq, m + 1..Len(seq)) \in Seq(S)
         /\ Len(Retain(seq, m + 1..Len(seq))) = Len(seq) - m
         /\ \A n \in 1..Len(seq) - m : Retain(seq, m + 1..Len(seq))[n] = seq[m + n]
<1> DEFINE keep == m + 1..Len(seq)
           at(n) == CHOOSE i \in keep : Cardinality({j \in keep : j <= i}) = n
<1>1. m \in Nat /\ Len(seq) \in Nat /\ m <= Len(seq)
  OBVIOUS
<1>2. Cardinality(keep) = Len(seq) - m
  BY <1>1, IntervalSize
<1>3. ASSUME NEW i \in keep
      PROVE  Cardinality({j \in keep : j <= i}) = i - m
  <2>1. {j \in keep : j <= i} = m + 1..i
    BY <1>1
  <2>2. Cardinality(m + 1..i) = i - m
    BY <1>1, IntervalSize
  <2> QED  BY <2>1, <2>2
<1>4. ASSUME NEW n \in 1..Len(seq) - m
      PROVE  at(n) = m + n
  <2>1. m + n \in keep /\ Cardinality({j \in keep : j <= m + n}) = n
    BY <1>1, <1>3
  <2>2. \A i \in keep : Cardinality({j \in keep : j <= i}) = n => i = m + n
    BY <1>1, <1>3
  <2> QED  BY <2>1, <2>2
<1> HIDE DEF at
<1>5. Retain(seq, keep) = [n \in 1..Len(seq) - m |-> seq[at(n)]]
  BY <1>2 DEF Retain, at
<1>6. Retain(seq, keep) = [n \in 1..Len(seq) - m |-> seq[m + n]]
  BY <1>4, <1>5
<1>7. \A n \in 1..Len(seq) - m : seq[m + n] \in S
  BY <1>1
<1>8. Retain(seq, keep) \in [1..Len(seq) - m -> S]
  BY <1>6, <1>7
<1>9. Retain(seq, keep) \in Seq(S) /\ Len(Retain(seq, keep)) = Len(seq) - m
  BY <1>1, <1>8
<1> QED  BY <1>2, <1>6, <1>9

(* A part of a sequence grows by what comes next there, or is rid of its head. *)
LEMMA FollowsAppend ==
  ASSUME NEW S, NEW part \in Seq(S), NEW all \in Seq(S), NEW n \in Nat,
         Follows(part, all, n), Len(part) + n < Len(all)
  PROVE  /\ Append(part, all[Len(part) + n + 1]) \in Seq(S)
         /\ Follows(Append(part, all[Len(part) + n + 1]), all, n)
<1> DEFINE e == all[Len(part) + n + 1]
           new == Append(part, e)
<1>1. /\ new \in Seq(S) /\ Len(part) \in Nat /\ Len(new) = Len(part) + 1
      /\ Len(all) \in Nat /\ new[Len(part) + 1] = all[n + (Len(part) + 1)]
      /\ \A i \in 1..Len(part) : new[i] = part[i]
  OBVIOUS
<1>2. Len(new) + n <= Len(all)
  BY <1>1
<1> HIDE DEF e, new
<1>3. ASSUME NEW i \in 1..Len(new) PROVE new[i] = all[n + i]
  <2>1. i = Len(part) + 1 \/ i \in 1..Len(part)
    BY <1>1
  <2>2. CASE i = Len(part) + 1
    BY <1>1, <2>2
  <2>3. CASE i \in 1..Len(part)
    BY <1>1, <2>3 DEF Follows
  <2> QED  BY <2>1, <2>2, <2>3
<1>4. new \in Seq(S) /\ Follows(new, all, n)
  BY <1>1, <1>2, <1>3 DEF Follows
<1> QED  BY <1>4 DEF new, e

LEMMA FollowsTail ==
  ASSUME NEW S, NEW part \in Seq(S), NEW all \in Seq(S), NEW n \in Nat,
         Follows(part, all, n), part # <<>>
  PROVE  /\ Tail(part) \in Seq(S) /\ Len(Tail(part)) = Len(part) - 1
         /\ n + 1 \in 1..Len(all) /\ Head(part) = all[n + 1]
         /\ Follows(Tail(part), all, n + 1)
<1> DEFINE new == Tail(part)
<1>1. /\ new \in Seq(S) /\ Len(part) \in Nat \ {0} /\ Len(new) = Len(part) - 1
      /\ Len(all) \in Nat /\ Head(part) = part[1]
      /\ \A i \in 1..Len(new) : new[i] = part[i + 1]
  OBVIOUS
<1>2. /\ Len(part) + n <= Len(all)
      /\ \A i \in 1..Len(part) : part[i] = all[n + i]
  BY DEF Follows
<1> HIDE DEF new
<1>3. ASSUME NEW i \in 1..Len(new) PROVE new[i] = all[n + 1 + i]
  <2>1. new[i] = part[i + 1] /\ i + 1 \in 1..Len(part)
    BY <1>1
  <2>2. part[i + 1] = all[n + (i + 1)]
    BY <1>2, <2>1
  <2>3. n + (i + 1) = n + 1 + i
    OBVIOUS
  <2> QED  BY <2>1, <2>2, <2>3
<1>4. Follows(new, all, n + 1)
  BY <1>1, <1>2, <1>3 DEF Follows
<1>5. n + 1 \in 1..Len(all) /\ Head(part) = all[n + 1]
  BY <1>1, <1>2
<1> QED  BY <1>1, <1>4, <1>5 DEF new

(* When a sequence grows, its parts stay parts, a suffix grown by the same *)
(* is a suffix, and the addition is one.                                   *)
LEMMA FollowsGrows ==
  ASSUME NEW S, NEW part \in Seq(S), NEW all \in Seq(S), NEW more \in Seq(S), NEW n \in Nat,
         Follows(part, all, n)
  PROVE  /\ all \o more \in Seq(S) /\ Len(all \o more) = Len(all) + Len(more)
         /\ part \o more \in Seq(S) /\ Len(part \o more) = Len(part) + Len(more)
         /\ Follows(part, all \o more, n)
         /\ Follows(more, all \o more, Len(all))
         /\ Len(part) + n = Len(all) => Follows(part \o more, all \o more, n)
<1> DEFINE new == all \o more
           long == part \o more
<1>1. /\ new \in Seq(S) /\ long \in Seq(S)
      /\ Len(all) \in Nat /\ Len(part) \in Nat /\ Len(more) \in Nat
      /\ Len(new) = Len(all) + Len(more) /\ Len(long) = Len(part) + Len(more)
      /\ \A i \in 1..Len(all) : new[i] = all[i]
      /\ \A i \in 1..Len(more) : new[Len(all) + i] = more[i]
      /\ \A i \in 1..Len(part) : long[i] = part[i]
      /\ \A i \in 1..Len(more) : long[Len(part) + i] = more[i]
  OBVIOUS
<1> HIDE DEF new, long
<1>2. /\ Len(part) + n <= Len(all)
      /\ \A i \in 1..Len(part) : part[i] = all[n + i] /\ n + i \in 1..Len(all)
  BY <1>1 DEF Follows
<1>3. Follows(part, new, n)
  BY <1>1, <1>2 DEF Follows
<1>4. Follows(more, new, Len(all))
  BY <1>1 DEF Follows
<1>5. ASSUME Len(part) + n = Len(all) PROVE Follows(long, new, n)
  <2>1. ASSUME NEW i \in 1..Len(long) PROVE long[i] = new[n + i]
    <3>1. CASE i <= Len(part)
      BY <1>1, <1>2, <3>1
    <3>2. CASE i > Len(part)
      <4>1. i - Len(part) \in 1..Len(more)
        BY <1>1, <3>2
      <4>2. long[Len(part) + (i - Len(part))] = new[Len(all) + (i - Len(part))]
        BY <1>1, <4>1
      <4>3. Len(part) + (i - Len(part)) = i /\ Len(all) + (i - Len(part)) = n + i
        <5>1. i \in Int /\ Len(part) \in Int /\ n \in Int /\ Len(all) = Len(part) + n
          BY <1>1, <1>5
        <5> QED  BY <5>1
      <4> QED  BY <4>2, <4>3
    <3> QED  BY <1>1, <3>1, <3>2
  <2> QED  BY <1>1, <1>5, <2>1 DEF Follows
<1> QED  BY <1>1, <1>3, <1>4, <1>5 DEF new, long

-----------------------------------------------------------------------------
(* The initial state, and what each action does to types and slices. *)

LEMMA InitIInv == Init => IInv
<1> SUFFICES ASSUME Init PROVE IInv
  OBVIOUS
<1>1. TypeOK
  BY DEF Init, TypeOK, Empty
<1>2. ASSUME NEW k \in Keys PROVE Slices(k)
  <2>1. /\ numbered[k] = <<>> /\ accepted[k] = <<>> /\ buffer[k] = <<>>
        /\ out[k] = <<>> /\ wire[k] = <<>> /\ writer = "off"
    BY DEF Init, Empty
  <2> QED  BY <2>1 DEF Slices, Increasing, Prefix, BufferSuffix, SendingSuffix, Resting,
                       Gone, Past, Follows
<1>3. Counted
  <2>1. Buffered = {}
    BY DEF Init, Empty, Buffered
  <2>2. IsFiniteSet({}) /\ Cardinality({}) = 0
    BY FS_EmptySet
  <2> QED  BY <2>1, <2>2, CapacityAssumption DEF Init, Counted, BufferAccounted
<1> QED  BY <1>1, <1>2, <1>3 DEF IInv

(* A stream none of whose sequences changes keeps its slices while the *)
(* writer stays as it is.                                              *)
LEMMA SlicesUntouched ==
  ASSUME NEW k \in Keys, Slices(k), writer' = writer, nextSeq'[k] = nextSeq[k],
         numbered'[k] = numbered[k], accepted'[k] = accepted[k], buffer'[k] = buffer[k],
         out'[k] = out[k], wire'[k] = wire[k]
  PROVE  Slices(k)'
<1>1. Increasing(numbered[k], nextSeq[k])' /\ Prefix(k)'
  BY DEF Slices, Increasing, Prefix, Follows, NotAfter
<1>2. BufferSuffix(k)'
  BY DEF Slices, BufferSuffix, Gone, Follows
<1>3. SendingSuffix(k)'
  BY DEF Slices, SendingSuffix, Past, Follows
<1>4. Resting(k)'
  BY DEF Slices, Resting
<1> QED  BY <1>1, <1>2, <1>3, <1>4 DEF Slices

(* What does not depend on the websocket. *)
LEMMA StreamUntouched ==
  ASSUME NEW k \in Keys, Slices(k), nextSeq'[k] = nextSeq[k], numbered'[k] = numbered[k],
         accepted'[k] = accepted[k], buffer'[k] = buffer[k]
  PROVE  /\ Increasing(numbered[k], nextSeq[k])' /\ Prefix(k)' /\ BufferSuffix(k)'
BY DEF Slices, Prefix, BufferSuffix, Gone

(* A step that leaves the buffer, and what counts it, alone. *)
LEMMA CountUntouched ==
  ASSUME Counted, UNCHANGED <<buffer, used>>
  PROVE  Counted'
BY DEF Counted, BufferAccounted, Buffered

LEMMA EnqueueStep ==
  ASSUME IInv, NEW k \in Keys, Enqueue(k)
  PROVE  IInv'
<1>1. TypeOK'
  <2>1. PICK n \in 0..MaxSegments : queue' = Append(queue, [key |-> k, segments |-> n])
    BY DEF Enqueue
  <2>2. [key |-> k, segments |-> n] \in Event
    BY DEF Event
  <2>3. queue' \in Seq(Event)
    BY <2>1, <2>2 DEF IInv, TypeOK
  <2> QED  BY <2>3, SMTT(20) DEF Enqueue, IInv, TypeOK, state
<1>2. \A x \in Keys : Slices(x)'
  BY SlicesUntouched DEF Enqueue, IInv, state
<1>3. Counted'
  BY CountUntouched DEF Enqueue, IInv, state
<1> QED  BY <1>1, <1>2, <1>3 DEF IInv

(* An event that is given up leaves the queue and nothing else. *)
LEMMA SplitFailsStep ==
  ASSUME IInv, SplitFails
  PROVE  IInv'
<1>1. TypeOK'
  <2>1. queue' \in Seq(Event)
    BY DEF SplitFails, IInv, TypeOK
  <2>2. UNCHANGED <<events, state, writer, out, wire, breaks, accepted>>
    BY DEF SplitFails
  <2> QED  BY <2>1, <2>2 DEF IInv, TypeOK, state
<1>2. \A x \in Keys : Slices(x)'
  BY SlicesUntouched DEF SplitFails, IInv, state
<1>3. Counted'
  BY CountUntouched DEF SplitFails, IInv, state
<1> QED  BY <1>1, <1>2, <1>3 DEF IInv

LEMMA SendStep ==
  ASSUME IInv, NEW k \in Keys, Send(k)
  PROVE  IInv'
<1>1. /\ out[k] \in Seq(Envelope) /\ out[k] # <<>> /\ wire[k] \in Seq(Envelope)
      /\ numbered[k] \in Seq(Envelope) /\ accepted[k] \in Seq(Envelope)
      /\ wire'[k] = Append(wire[k], Head(out[k])) /\ out'[k] = Tail(out[k])
      /\ writer \in {"replay", "sending"}
  BY DEF Send, IInv, TypeOK
<1>2. TypeOK'
  <2>1. Append(wire[k], Head(out[k])) \in Seq(Envelope) /\ Tail(out[k]) \in Seq(Envelope)
    BY <1>1
  <2> QED  BY <2>1 DEF Send, IInv, TypeOK, state
<1>3. Slices(k)'
  <2>1. SendingSuffix(k)'
    <3>1. /\ Past(k) \in 0..Len(accepted[k]) /\ Past(k) \in Nat
          /\ Follows(wire[k], numbered[k], Past(k))
          /\ Follows(out[k], numbered[k], Past(k) + Len(wire[k]))
          /\ Past(k) + Len(wire[k]) \in Nat
      BY <1>1 DEF IInv, Slices, SendingSuffix
    <3>2. /\ Len(wire'[k]) = Len(wire[k]) + 1 /\ Len(out'[k]) = Len(out[k]) - 1
          /\ Len(wire[k]) \in Nat /\ Len(out[k]) \in Nat \ {0} /\ Len(numbered[k]) \in Nat
      BY <1>1
    <3>3. UNCHANGED <<numbered, accepted>>
      BY DEF Send, state
    <3>4. Past(k)' = Past(k)
      BY <3>2, <3>3 DEF Past
    <3>5. /\ Head(out[k]) = numbered[k][Past(k) + Len(wire[k]) + 1]
          /\ Follows(out'[k], numbered[k], Past(k) + Len(wire[k]) + 1)
          /\ Past(k) + Len(wire[k]) + 1 <= Len(numbered[k])
      BY <1>1, <3>1, FollowsTail
    <3>6. Follows(wire'[k], numbered[k], Past(k))
      <4>1. Head(out[k]) = numbered[k][Len(wire[k]) + Past(k) + 1]
        BY <3>1, <3>2, <3>5
      <4>2. Len(wire[k]) + Past(k) < Len(numbered[k])
        BY <3>1, <3>2, <3>5
      <4> QED  BY <1>1, <3>1, <4>1, <4>2, FollowsAppend
    <3>7. Past(k) + Len(wire'[k]) = Past(k) + Len(wire[k]) + 1
      BY <3>1, <3>2
    <3> QED  BY <3>1, <3>3, <3>4, <3>5, <3>6, <3>7 DEF SendingSuffix
  <2>2. Resting(k)'
    BY <1>1 DEF Send, Resting
  <2> QED  BY <2>1, <2>2, StreamUntouched DEF Send, state, IInv, Slices
<1>4. \A x \in Keys : Slices(x)'
  <2>1. ASSUME NEW x \in Keys, x # k PROVE Slices(x)'
    <3>1. out'[x] = out[x] /\ wire'[x] = wire[x]
      BY <2>1 DEF Send, IInv, TypeOK
    <3> QED  BY <3>1, SlicesUntouched DEF Send, state, IInv
  <2> QED  BY <1>3, <2>1
<1>5. Counted'
  BY CountUntouched DEF Send, IInv, state
<1> QED  BY <1>2, <1>4, <1>5 DEF IInv

LEMMA SentStep ==
  ASSUME IInv, Sent
  PROVE  IInv'
<1>1. TypeOK'
  BY DEF Sent, IInv, TypeOK, state
<1>2. ASSUME NEW k \in Keys PROVE Slices(k)'
  <2>1. /\ UNCHANGED <<nextSeq, numbered, accepted, buffer, out, wire>>
        /\ writer # "off" /\ writer' = "ready" /\ out[k] = <<>> /\ Slices(k)
    BY DEF Sent, state, Empty, IInv
  <2>2. SendingSuffix(k)' /\ Resting(k)'
    BY <2>1 DEF Slices, SendingSuffix, Resting, Past
  <2> QED  BY <2>1, <2>2, StreamUntouched DEF Slices
<1>3. Counted'
  BY CountUntouched DEF Sent, IInv, state
<1> QED  BY <1>1, <1>2, <1>3 DEF IInv

(* The buffer, of which all that is yet to be sent is a copy, begins where *)
(* the client may go on.                                                   *)
LEMMA ConnectStep ==
  ASSUME IInv, Connect
  PROVE  IInv'
<1>1. TypeOK'
  BY DEF Connect, IInv, TypeOK, state
<1>2. ASSUME NEW k \in Keys PROVE Slices(k)'
  <2>1. /\ wire'[k] = <<>> /\ out'[k] = buffer[k] /\ writer' = "replay"
        /\ UNCHANGED <<nextSeq, numbered, accepted, buffer>>
        /\ numbered[k] \in Seq(Envelope) /\ buffer[k] \in Seq(Envelope)
        /\ accepted[k] \in Seq(Envelope)
    BY DEF Connect, state, IInv, Slices, Resting, TypeOK
  <2>2. Gone(k) \in 0..Len(accepted[k]) /\ Follows(buffer[k], numbered[k], Gone(k))
    BY DEF IInv, Slices, BufferSuffix
  <2>3. Len(wire'[k]) = 0 /\ Past(k)' = Gone(k) /\ Gone(k) + 0 = Gone(k)
    BY <2>1, <2>2 DEF Past, Gone
  <2>4. Follows(<<>>, numbered[k], Gone(k))
    BY <2>1, <2>2 DEF Follows
  <2>5. SendingSuffix(k)'
    BY <2>1, <2>2, <2>3, <2>4 DEF SendingSuffix
  <2>6. Resting(k)'
    BY <2>1 DEF Resting
  <2> QED  BY <2>1, <2>5, <2>6, StreamUntouched DEF IInv, Slices
<1>3. Counted'
  BY CountUntouched DEF Connect, IInv, state
<1> QED  BY <1>1, <1>2, <1>3 DEF IInv

LEMMA BreakStep ==
  ASSUME IInv, Break
  PROVE  IInv'
<1>1. TypeOK'
  BY DEF Break, IInv, TypeOK, state, Empty
<1>2. ASSUME NEW k \in Keys PROVE Slices(k)'
  <2>1. /\ UNCHANGED <<nextSeq, numbered, accepted, buffer>> /\ Slices(k)
        /\ writer' = "off" /\ out'[k] = <<>> /\ wire'[k] = <<>>
    BY DEF Break, state, Empty, IInv
  <2>2. SendingSuffix(k)' /\ Resting(k)'
    BY <2>1 DEF SendingSuffix, Resting
  <2> QED  BY <2>1, <2>2, StreamUntouched DEF Slices
<1>3. Counted'
  BY CountUntouched DEF Break, IInv, state
<1> QED  BY <1>1, <1>2, <1>3 DEF IInv

(* The client takes an envelope exactly when it is the next one. *)
LEMMA ReceiveNext ==
  ASSUME IInv, NEW k \in Keys, ClientReceive(k)
  PROVE  /\ writer # "off" /\ wire[k] # <<>> /\ wire'[k] = Tail(wire[k])
         /\ \/ accepted' = accepted /\ Past(k) < Len(accepted[k])
            \/ /\ Past(k) = Len(accepted[k]) /\ Len(accepted[k]) < Len(numbered[k])
               /\ accepted' = [accepted EXCEPT ![k] =
                                  Append(@, numbered[k][Len(accepted[k]) + 1])]
<1> DEFINE e == Head(wire[k])
           had == accepted[k]
           all == numbered[k]
<1>1. /\ wire[k] \in Seq(Envelope) /\ had \in Seq(Envelope) /\ all \in Seq(Envelope)
      /\ wire[k] # <<>> /\ wire'[k] = Tail(wire[k]) /\ nextSeq[k] \in Nat
  BY DEF ClientReceive, IInv, TypeOK
<1>2. writer # "off"
  BY <1>1 DEF IInv, Slices, Resting
<1>3. /\ Past(k) \in 0..Len(had) /\ Past(k) \in Nat /\ Follows(wire[k], all, Past(k))
      /\ Follows(had, all, 0) /\ Increasing(all, nextSeq[k])
  BY <1>1, <1>2 DEF IInv, Slices, SendingSuffix, Prefix
<1>4. e = all[Past(k) + 1] /\ Past(k) + 1 \in 1..Len(all)
  BY <1>1, <1>3, FollowsTail
<1>5. accepted' = IF had # <<>> /\ NotAfter(e, had[Len(had)]) THEN accepted
                  ELSE [accepted EXCEPT ![k] = Append(@, e)]
  BY DEF ClientReceive
<1>6. CASE had = <<>>
  <2>1. Past(k) = 0 /\ Len(had) = 0
    BY <1>3, <1>6
  <2>2. accepted' = [accepted EXCEPT ![k] = Append(had, all[Len(had) + 1])]
    BY <1>4, <1>5, <1>6, <2>1
  <2>3. Past(k) = Len(had) /\ Len(had) < Len(all)
    BY <1>1, <1>4, <2>1
  <2> QED  BY <1>1, <1>2, <2>2, <2>3
<1>7. CASE had # <<>>
  <2>1. Len(had) \in 1..Len(all) /\ had[Len(had)] = all[Len(had)]
    BY <1>1, <1>3, <1>7 DEF Follows
  <2>2. NotAfter(e, had[Len(had)]) <=> Past(k) + 1 <= Len(had)
    BY <1>1, <1>3, <1>4, <2>1, CursorsArePositions
  <2>3. CASE Past(k) + 1 <= Len(had)
    BY <1>1, <1>2, <1>3, <1>5, <1>7, <2>1, <2>2, <2>3
  <2>4. CASE ~(Past(k) + 1 <= Len(had))
    <3>1. Past(k) = Len(had)
      BY <1>3, <2>1, <2>4
    <3>2. accepted' = [accepted EXCEPT ![k] = Append(had, all[Len(had) + 1])]
      BY <1>4, <1>5, <2>2, <2>4, <3>1
    <3>3. Len(had) < Len(all)
      BY <1>1, <1>4, <3>1
    <3> QED  BY <1>1, <1>2, <3>1, <3>2, <3>3
  <2> QED  BY <2>3, <2>4
<1> QED  BY <1>6, <1>7

LEMMA ClientReceiveStep ==
  ASSUME IInv, NEW k \in Keys, ClientReceive(k)
  PROVE  IInv'
<1>1. /\ wire[k] \in Seq(Envelope) /\ out[k] \in Seq(Envelope)
      /\ accepted[k] \in Seq(Envelope) /\ numbered[k] \in Seq(Envelope)
      /\ UNCHANGED <<events, queue, nextSeq, buffer, used, numbered, writer, out, breaks>>
      /\ wire' = [wire EXCEPT ![k] = Tail(@)]
  BY DEF ClientReceive, IInv, TypeOK, state
<1>2. /\ writer # "off" /\ wire[k] # <<>> /\ wire'[k] = Tail(wire[k])
      /\ \/ accepted' = accepted /\ Past(k) < Len(accepted[k])
         \/ /\ Past(k) = Len(accepted[k]) /\ Len(accepted[k]) < Len(numbered[k])
            /\ accepted' = [accepted EXCEPT ![k] =
                               Append(@, numbered[k][Len(accepted[k]) + 1])]
  BY ReceiveNext
<1>3. /\ Past(k) \in 0..Len(accepted[k]) /\ Past(k) \in Nat
      /\ Follows(wire[k], numbered[k], Past(k))
      /\ Follows(out[k], numbered[k], Past(k) + Len(wire[k]))
      /\ Follows(accepted[k], numbered[k], 0)
  BY <1>1, <1>2 DEF IInv, Slices, SendingSuffix, Prefix
<1>4. /\ Tail(wire[k]) \in Seq(Envelope) /\ Len(Tail(wire[k])) = Len(wire[k]) - 1
      /\ Follows(Tail(wire[k]), numbered[k], Past(k) + 1)
      /\ Len(wire[k]) \in Nat /\ Len(out[k]) \in Nat /\ Len(numbered[k]) \in Nat
      /\ Len(accepted[k]) \in Nat
  BY <1>1, <1>2, <1>3, FollowsTail, SMTT(20)
<1>5. /\ accepted' \in [Keys -> Seq(Envelope)]
      /\ Follows(accepted'[k], numbered[k], 0)
      /\ Len(accepted'[k]) \in Nat /\ Len(accepted[k]) <= Len(accepted'[k])
      /\ Past(k) + 1 <= Len(accepted'[k])
      /\ \A x \in Keys : x # k => accepted'[x] = accepted[x]
  <2>0. accepted \in [Keys -> Seq(Envelope)]
    BY DEF IInv, TypeOK
  <2>1. CASE accepted' = accepted /\ Past(k) < Len(accepted[k])
    BY <1>3, <1>4, <2>0, <2>1
  <2>2. CASE /\ Past(k) = Len(accepted[k]) /\ Len(accepted[k]) < Len(numbered[k])
             /\ accepted' = [accepted EXCEPT ![k] =
                                Append(@, numbered[k][Len(accepted[k]) + 1])]
    <3>1. Len(accepted[k]) + 0 < Len(numbered[k])
          /\ Len(accepted[k]) + 0 + 1 = Len(accepted[k]) + 1 /\ 0 \in Nat
      BY <1>4, <2>2
    <3>2. /\ Append(accepted[k], numbered[k][Len(accepted[k]) + 1]) \in Seq(Envelope)
          /\ Follows(Append(accepted[k], numbered[k][Len(accepted[k]) + 1]), numbered[k], 0)
      BY <1>1, <1>3, <3>1, FollowsAppend
    <3>3. accepted'[k] = Append(accepted[k], numbered[k][Len(accepted[k]) + 1])
      BY <2>0, <2>2
    <3>4. Len(accepted'[k]) = Len(accepted[k]) + 1
      BY <1>1, <3>3
    <3> QED  BY <1>4, <2>0, <2>2, <3>2, <3>3, <3>4
  <2> QED  BY <1>2, <2>1, <2>2
<1>6. TypeOK'
  BY <1>1, <1>4, <1>5 DEF IInv, TypeOK
<1>7. Past(k)' = Past(k) + 1
  <2>1. Len(wire'[k]) = Len(wire[k]) - 1
    BY <1>2, <1>4
  <2>2. Past(k)' = Len(numbered[k]) - Len(wire'[k]) - Len(out[k])
    BY <1>1 DEF Past
  <2>3. Past(k) = Len(numbered[k]) - Len(wire[k]) - Len(out[k])
    BY DEF Past
  <2> QED  BY <1>4, <2>1, <2>2, <2>3
<1>8. Slices(k)'
  <2>1. SendingSuffix(k)'
    <3>1. Past(k)' \in 0..Len(accepted'[k])
      BY <1>3, <1>5, <1>7
    <3>2. Past(k)' + Len(wire'[k]) = Past(k) + Len(wire[k])
      BY <1>2, <1>3, <1>4, <1>7
    <3> QED  BY <1>1, <1>2, <1>3, <1>4, <1>7, <3>1, <3>2 DEF SendingSuffix
  <2>2. Prefix(k)'
    BY <1>1, <1>5 DEF Prefix
  <2>3. BufferSuffix(k)'
    <3>1. Gone(k)' = Gone(k) /\ Gone(k) \in 0..Len(accepted[k])
          /\ Follows(buffer[k], numbered[k], Gone(k))
      BY <1>1 DEF Gone, IInv, Slices, BufferSuffix
    <3>2. Gone(k)' \in 0..Len(accepted'[k])
      BY <1>4, <1>5, <3>1
    <3> QED  BY <1>1, <3>1, <3>2 DEF BufferSuffix
  <2>4. Increasing(numbered[k], nextSeq[k])' /\ Resting(k)'
    BY <1>1, <1>2 DEF IInv, Slices, Increasing, NotAfter, Resting
  <2> QED  BY <2>1, <2>2, <2>3, <2>4 DEF Slices
<1>9. ASSUME NEW x \in Keys, x # k PROVE Slices(x)'
  <2>1. wire'[x] = wire[x]
    BY <1>1, <1>9 DEF IInv, TypeOK
  <2> QED  BY <1>1, <1>5, <1>9, <2>1, SlicesUntouched DEF IInv
<1>10. Counted'
  BY <1>1, CountUntouched DEF IInv
<1> QED  BY <1>6, <1>8, <1>9, <1>10 DEF IInv

-----------------------------------------------------------------------------
(* Counting the buffer. *)

(* The positions of one stream are apart from those of all others. *)
Positions(b, streams) == UNION {{k} \X (1..Len(b[k])) : k \in streams}

LEMMA OneStream ==
  ASSUME NEW b, NEW k \in Keys, Len(b[k]) \in Nat, IsFiniteSet(Positions(b, Keys \ {k}))
  PROVE  /\ IsFiniteSet(Positions(b, Keys))
         /\ Cardinality(Positions(b, Keys))
              = Cardinality(Positions(b, Keys \ {k})) + Len(b[k])
<1> DEFINE own == {k} \X (1..Len(b[k]))
           rest == Positions(b, Keys \ {k})
<1>1. IsFiniteSet(own) /\ Cardinality(own) = Len(b[k])
  <2>1. IsFiniteSet({k}) /\ Cardinality({k}) = 1
    BY FS_Singleton
  <2>2. IsFiniteSet(1..Len(b[k])) /\ Cardinality(1..Len(b[k])) = Len(b[k])
    <3>1. IsFiniteSet(0 + 1..Len(b[k])) /\ Cardinality(0 + 1..Len(b[k])) = Len(b[k]) - 0
      BY IntervalSize
    <3>2. 0 + 1 = 1 /\ Len(b[k]) - 0 = Len(b[k])
      OBVIOUS
    <3> QED  BY <3>1, <3>2
  <2>3. IsFiniteSet(own) /\ Cardinality(own) = Cardinality({k}) * Cardinality(1..Len(b[k]))
    BY <2>1, <2>2, FS_Product
  <2> QED  BY <2>1, <2>2, <2>3
<1>2. Positions(b, Keys) = rest \cup own
  BY DEF Positions
<1>3. rest \cap own = {}
  <2>1. \A p \in own : p[1] = k
    OBVIOUS
  <2>2. \A p \in rest : p[1] # k
    BY DEF Positions
  <2> QED  BY <2>1, <2>2
<1> HIDE DEF own, rest
<1>4. IsFiniteSet(rest)
  BY DEF rest
<1>5. /\ IsFiniteSet(rest \cup own)
      /\ Cardinality(rest \cup own) =
           Cardinality(rest) + Cardinality(own) - Cardinality(rest \cap own)
  BY <1>1, <1>4, FS_Union
<1>6. Cardinality(rest \cap own) = 0 /\ Cardinality(rest) \in Nat
  BY <1>3, <1>4, FS_EmptySet, FS_CardinalityType
<1> QED  BY <1>1, <1>2, <1>5, <1>6 DEF rest

(* A change to one stream's buffer changes the count by as much as its length. *)
LEMMA CountChanges ==
  ASSUME Counted, NEW k \in Keys, Len(buffer[k]) \in Nat, Len(buffer'[k]) \in Nat,
         \A x \in Keys \ {k} : buffer'[x] = buffer[x]
  PROVE  /\ IsFiniteSet(Buffered') /\ used \in Nat
         /\ Cardinality(Buffered') = used + Len(buffer'[k]) - Len(buffer[k])
         /\ Cardinality(Buffered') \in Nat
<1> DEFINE rest == Positions(buffer, Keys \ {k})
<1>1. /\ IsFiniteSet(Buffered) /\ used = Cardinality(Buffered)
      /\ Buffered = Positions(buffer, Keys) /\ Buffered' = Positions(buffer', Keys)
  BY DEF Counted, BufferAccounted, Buffered, Positions
<1>2. IsFiniteSet(rest)
  <2>1. rest \subseteq Buffered
    BY <1>1 DEF Positions
  <2> QED  BY <1>1, <2>1, FS_Subset
<1>3. Positions(buffer', Keys \ {k}) = rest
  BY DEF Positions
<1>4. Cardinality(Buffered) = Cardinality(rest) + Len(buffer[k])
  BY <1>1, <1>2, OneStream
<1>5. IsFiniteSet(Buffered') /\ Cardinality(Buffered') = Cardinality(rest) + Len(buffer'[k])
  BY <1>1, <1>2, <1>3, OneStream
<1>6. Cardinality(rest) \in Nat
  BY <1>2, FS_CardinalityType
<1>7. PICK r \in Nat, n \in Nat, m \in Nat :
        r = Cardinality(rest) /\ n = Len(buffer[k]) /\ m = Len(buffer'[k])
  BY <1>6
<1> HIDE DEF rest
<1>8. used = r + n /\ Cardinality(Buffered') = r + m
  BY <1>1, <1>4, <1>5, <1>7
<1>9. used \in Nat /\ r + m \in Nat /\ r + m = used + m - n
  BY <1>8
<1> QED  BY <1>5, <1>7, <1>8, <1>9

-----------------------------------------------------------------------------
(* The two actions that change the buffer. *)

(* Taking an event puts the envelopes of one message at the end of a stream. *)
LEMMA TakeEventEffect ==
  ASSUME IInv, TakeEvent
  PROVE  \E k \in Keys, more \in Seq(Envelope) :
           /\ Len(more) \in 0..MaxSegments
           /\ nextSeq' = [nextSeq EXCEPT ![k] = @ + 1]
           /\ buffer' = [buffer EXCEPT ![k] = @ \o more]
           /\ numbered' = [numbered EXCEPT ![k] = @ \o more]
           /\ used' = used + Len(more) /\ out' = [out EXCEPT ![k] = more]
           /\ Increasing(numbered[k] \o more, nextSeq[k] + 1)
<1> DEFINE k == Head(queue).key
           more == Split(Head(queue), nextSeq[k])
<1>1. queue \in Seq(Event) /\ queue # <<>>
  BY DEF TakeEvent, IInv, TypeOK
<1>2. Head(queue) \in Event
  BY <1>1
<1>3. k \in Keys
  BY <1>2 DEF Event
<1>4. nextSeq[k] \in Nat
  BY <1>3 DEF IInv, TypeOK
<1>5. more \in Seq(Envelope) /\ Len(more) \in 0..MaxSegments
  BY <1>2, <1>4, SplitLemma
<1>6. /\ nextSeq' = [nextSeq EXCEPT ![k] = @ + 1]
      /\ buffer' = [buffer EXCEPT ![k] = @ \o more]
      /\ numbered' = [numbered EXCEPT ![k] = @ \o more]
      /\ used' = used + Len(more) /\ out' = [out EXCEPT ![k] = more]
  BY DEF TakeEvent
<1>7. Increasing(numbered[k] \o more, nextSeq[k] + 1)
  BY <1>2, <1>3, <1>4, IncreasingGrows DEF IInv, TypeOK, Slices
<1> HIDE DEF k, more
<1> QED  BY <1>3, <1>5, <1>6, <1>7

LEMMA TakeEventStep ==
  ASSUME IInv, TakeEvent
  PROVE  IInv'
<1>3. PICK k \in Keys, more \in Seq(Envelope) :
        /\ Len(more) \in 0..MaxSegments
        /\ nextSeq' = [nextSeq EXCEPT ![k] = @ + 1]
        /\ buffer' = [buffer EXCEPT ![k] = @ \o more]
        /\ numbered' = [numbered EXCEPT ![k] = @ \o more]
        /\ used' = used + Len(more) /\ out' = [out EXCEPT ![k] = more]
        /\ Increasing(numbered[k] \o more, nextSeq[k] + 1)
  BY TakeEventEffect
<1>2. Tail(queue) \in Seq(Event)
  BY DEF TakeEvent, IInv, TypeOK
<1>4. nextSeq[k] \in Nat
  BY DEF IInv, TypeOK
<1>5. more \in Seq(Envelope) /\ Len(more) \in 0..MaxSegments
  BY <1>3
<1>6. /\ nextSeq' = [nextSeq EXCEPT ![k] = @ + 1]
      /\ buffer' = [buffer EXCEPT ![k] = @ \o more]
      /\ numbered' = [numbered EXCEPT ![k] = @ \o more]
      /\ used' = used + Len(more) /\ out' = [out EXCEPT ![k] = more]
      /\ queue' = Tail(queue) /\ writer' = "sending" /\ writer = "ready" /\ used < Capacity
      /\ UNCHANGED <<events, wire, breaks, accepted>>
  BY <1>3 DEF TakeEvent
<1>7. Increasing(numbered[k] \o more, nextSeq[k] + 1)
  BY <1>3
<1>8. /\ numbered[k] \in Seq(Envelope) /\ buffer[k] \in Seq(Envelope)
      /\ wire[k] \in Seq(Envelope) /\ accepted[k] \in Seq(Envelope)
      /\ numbered'[k] = numbered[k] \o more /\ buffer'[k] = buffer[k] \o more
      /\ out'[k] = more /\ nextSeq'[k] = nextSeq[k] + 1 /\ out[k] = <<>>
      /\ Slices(k)
  BY <1>3, <1>4, <1>6 DEF IInv, TypeOK, Slices, Resting
<1>9. /\ Len(numbered[k]) \in Nat /\ Len(buffer[k]) \in Nat /\ Len(more) \in Nat
      /\ Len(wire[k]) \in Nat /\ Len(accepted[k]) \in Nat /\ Len(out[k]) = 0
  BY <1>5, <1>8
<1>10. /\ Gone(k) \in Nat /\ Gone(k) \in 0..Len(accepted[k])
       /\ Follows(buffer[k], numbered[k], Gone(k)) /\ Len(buffer[k]) + Gone(k) = Len(numbered[k])
       /\ Past(k) \in Nat /\ Past(k) \in 0..Len(accepted[k])
       /\ Follows(wire[k], numbered[k], Past(k)) /\ Len(wire[k]) + Past(k) = Len(numbered[k])
       /\ Follows(accepted[k], numbered[k], 0)
  <2>1. /\ Gone(k) \in 0..Len(accepted[k]) /\ Follows(buffer[k], numbered[k], Gone(k))
        /\ Past(k) \in 0..Len(accepted[k]) /\ Follows(wire[k], numbered[k], Past(k))
        /\ Follows(accepted[k], numbered[k], 0)
    BY <1>6, <1>8 DEF Slices, BufferSuffix, SendingSuffix, Prefix
  <2>2. Len(buffer[k]) + Gone(k) = Len(numbered[k]) /\ Len(wire[k]) + Past(k) = Len(numbered[k])
    BY <1>9 DEF Gone, Past
  <2> QED  BY <1>9, <2>1, <2>2
<1>11. /\ numbered'[k] \in Seq(Envelope) /\ Len(numbered'[k]) = Len(numbered[k]) + Len(more)
       /\ buffer'[k] \in Seq(Envelope) /\ Len(buffer'[k]) = Len(buffer[k]) + Len(more)
       /\ Follows(buffer'[k], numbered'[k], Gone(k))
       /\ Follows(more, numbered'[k], Len(numbered[k]))
  BY <1>5, <1>8, <1>10, FollowsGrows, SMTT(20)
<1>12. Follows(wire[k], numbered'[k], Past(k))
  BY <1>5, <1>8, <1>10, FollowsGrows
<1>13. Follows(accepted[k], numbered'[k], 0)
  BY <1>5, <1>8, <1>10, FollowsGrows
<1>14. Gone(k)' = Gone(k) /\ Past(k)' = Past(k)
  <2>1. Gone(k)' = Len(numbered'[k]) - Len(buffer'[k])
        /\ Past(k)' = Len(numbered'[k]) - Len(wire[k]) - Len(more)
    BY <1>6, <1>8 DEF Gone, Past
  <2>2. Gone(k) = Len(numbered[k]) - Len(buffer[k])
        /\ Past(k) = Len(numbered[k]) - Len(wire[k]) - Len(out[k])
    BY DEF Gone, Past
  <2> QED  BY <1>9, <1>11, <2>1, <2>2
<1>15. Slices(k)'
  <2>1. Increasing(numbered[k], nextSeq[k])'
    BY <1>7, <1>8
  <2>2. Prefix(k)'
    BY <1>6, <1>13 DEF Prefix
  <2>3. BufferSuffix(k)'
    BY <1>6, <1>10, <1>11, <1>14 DEF BufferSuffix
  <2>4. SendingSuffix(k)'
    <3>1. Past(k) + Len(wire[k]) = Len(numbered[k])
      BY <1>9, <1>10
    <3> QED  BY <1>6, <1>8, <1>10, <1>11, <1>12, <1>14, <3>1 DEF SendingSuffix
  <2>5. Resting(k)'
    BY <1>6 DEF Resting
  <2> QED  BY <2>1, <2>2, <2>3, <2>4, <2>5 DEF Slices
<1>16. ASSUME NEW x \in Keys, x # k PROVE Slices(x)'
  <2>1. /\ numbered'[x] = numbered[x] /\ buffer'[x] = buffer[x] /\ nextSeq'[x] = nextSeq[x]
        /\ out'[x] = out[x] /\ UNCHANGED <<wire, accepted>> /\ Slices(x)
    BY <1>6, <1>16 DEF IInv, TypeOK
  <2>2. SendingSuffix(x)'
    BY <1>6, <2>1 DEF Slices, SendingSuffix, Past
  <2>3. Resting(x)'
    BY <1>6 DEF Resting
  <2> QED  BY <2>1, <2>2, <2>3, StreamUntouched DEF Slices
<1>17. TypeOK'
  <2>1. nextSeq' \in [Keys -> Nat]
    BY <1>3, <1>4, <1>6, SMTT(20) DEF IInv, TypeOK
  <2>2. used' \in Int
    BY <1>6, <1>9 DEF IInv, TypeOK
  <2>3. buffer' \in [Keys -> Seq(Envelope)] /\ numbered' \in [Keys -> Seq(Envelope)]
    BY <1>3, <1>6, <1>8, <1>11 DEF IInv, TypeOK
  <2>4. out' \in [Keys -> Seq(Envelope)]
    BY <1>3, <1>5, <1>6 DEF IInv, TypeOK
  <2> QED  BY <1>2, <1>6, <2>1, <2>2, <2>3, <2>4 DEF IInv, TypeOK
<1>18. Counted'
  <2>1. \A x \in Keys \ {k} : buffer'[x] = buffer[x]
    BY <1>6 DEF IInv, TypeOK
  <2>2. /\ IsFiniteSet(Buffered') /\ used \in Nat
        /\ Cardinality(Buffered') = used + Len(buffer'[k]) - Len(buffer[k])
    BY <1>3, <1>9, <1>11, <2>1, CountChanges DEF IInv
  <2>3. used' = Cardinality(Buffered')
    BY <1>6, <1>9, <1>11, <2>2
  <2>4. used' < Capacity + MaxSegments
    BY <1>5, <1>6, <2>2, CapacityAssumption
  <2> QED  BY <2>2, <2>3, <2>4 DEF Counted, BufferAccounted
<1> QED  BY <1>15, <1>16, <1>17, <1>18 DEF IInv

(* An acknowledgement takes away the beginning of the buffer, up to the *)
(* envelope acknowledged.                                               *)
LEMMA AckEffect ==
  ASSUME IInv, NEW k \in Keys, NEW i \in 1..Len(accepted[k]), Ack(k, i)
  PROVE  \E m \in 0..Len(buffer[k]) :
           /\ Unacked(k, accepted[k][i]) = m + 1..Len(buffer[k])
           /\ Gone(k) + m \in 0..Len(accepted[k])
<1> DEFINE all == numbered[k]
           b == buffer[k]
           gone == Gone(k)
           m == IF i <= gone THEN 0 ELSE i - gone
<1>1. /\ all \in Seq(Envelope) /\ b \in Seq(Envelope) /\ accepted[k] \in Seq(Envelope)
      /\ nextSeq[k] \in Nat /\ Increasing(all, nextSeq[k])
      /\ Follows(accepted[k], all, 0) /\ Follows(b, all, gone) /\ gone \in 0..Len(accepted[k])
      /\ Len(b) \in Nat /\ Len(all) \in Nat /\ Len(accepted[k]) \in Nat
  BY DEF IInv, TypeOK, Slices, Prefix, BufferSuffix
<1>2. accepted[k][i] = all[i] /\ i \in 1..Len(all)
  BY <1>1 DEF Follows
<1>3. Len(all) = gone + Len(b) /\ gone \in Nat
  BY <1>1 DEF Gone
<1>4. \A j \in 1..Len(b) : b[j] = all[gone + j] /\ gone + j \in 1..Len(all)
  BY <1>1, <1>3 DEF Follows
<1> HIDE DEF gone, all, b
<1>5. ASSUME NEW j \in 1..Len(b)
      PROVE  ~NotAfter(b[j], accepted[k][i]) <=> gone + j > i
  <2>1. NotAfter(all[gone + j], all[i]) <=> gone + j <= i
    BY <1>1, <1>2, <1>4, CursorsArePositions
  <2> QED  BY <1>2, <1>3, <1>4, <2>1
<1>6. Unacked(k, accepted[k][i]) = {j \in 1..Len(b) : gone + j > i}
  BY <1>5 DEF Unacked, b
<1>7. {j \in 1..Len(b) : gone + j > i} = m + 1..Len(b)
  BY <1>1, <1>3
<1>8. m \in 0..Len(b) /\ gone + m \in 0..Len(accepted[k])
  BY <1>1, <1>2, <1>3
<1> HIDE DEF m
<1> QED  BY <1>6, <1>7, <1>8 DEF b, gone

LEMMA AckStep ==
  ASSUME IInv, NEW k \in Keys, NEW i \in 1..Len(accepted[k]), Ack(k, i)
  PROVE  IInv'
<1>1. PICK m \in 0..Len(buffer[k]) :
        /\ Unacked(k, accepted[k][i]) = m + 1..Len(buffer[k])
        /\ Gone(k) + m \in 0..Len(accepted[k])
  BY AckEffect
<1> DEFINE kept == Retain(buffer[k], m + 1..Len(buffer[k]))
<1>2. /\ buffer' = [buffer EXCEPT ![k] = kept]
      /\ used' = used - (Len(buffer[k]) - Cardinality(m + 1..Len(buffer[k])))
      /\ UNCHANGED <<events, queue, nextSeq, numbered, writer, out, wire, breaks, accepted>>
  BY <1>1 DEF Ack
<1>3. /\ buffer[k] \in Seq(Envelope) /\ numbered[k] \in Seq(Envelope)
      /\ Len(buffer[k]) \in Nat /\ Len(numbered[k]) \in Nat /\ m \in Nat
      /\ Slices(k) /\ buffer'[k] = kept
  BY <1>2 DEF IInv, TypeOK
<1>4. /\ Cardinality(m + 1..Len(buffer[k])) = Len(buffer[k]) - m
      /\ kept \in Seq(Envelope) /\ Len(kept) = Len(buffer[k]) - m
      /\ \A n \in 1..Len(buffer[k]) - m : kept[n] = buffer[k][m + n]
  BY <1>3, RetainSuffix
<1> HIDE DEF kept
<1>5. /\ Gone(k)' = Gone(k) + m /\ Gone(k) \in Nat
      /\ Len(buffer[k]) + Gone(k) = Len(numbered[k])
  <2>1. Gone(k)' = Len(numbered[k]) - Len(kept) /\ Gone(k) = Len(numbered[k]) - Len(buffer[k])
    BY <1>2, <1>3 DEF Gone
  <2>2. Gone(k) \in Nat
    BY <1>3 DEF Slices, BufferSuffix
  <2>3. Len(kept) = Len(buffer[k]) - m /\ m \in Nat /\ Len(buffer[k]) \in Nat
        /\ Len(numbered[k]) \in Nat
    BY <1>3, <1>4
  <2> QED  BY <2>1, <2>2, <2>3
<1>6. Follows(kept, numbered[k], Gone(k) + m)
  <2>1. \A n \in 1..Len(buffer[k]) : buffer[k][n] = numbered[k][Gone(k) + n]
    BY <1>3 DEF Slices, BufferSuffix, Follows
  <2>2. ASSUME NEW n \in 1..Len(kept)
        PROVE  kept[n] = numbered[k][Gone(k) + m + n]
    <3>1. kept[n] = buffer[k][m + n] /\ m + n \in 1..Len(buffer[k])
      BY <1>3, <1>4
    <3>2. buffer[k][m + n] = numbered[k][Gone(k) + (m + n)]
      BY <2>1, <3>1
    <3>3. Gone(k) + (m + n) = Gone(k) + m + n
      BY <1>3, <1>4, <1>5
    <3> QED  BY <3>1, <3>2, <3>3
  <2>3. Len(kept) + (Gone(k) + m) <= Len(numbered[k])
    BY <1>3, <1>4, <1>5
  <2> QED  BY <2>2, <2>3 DEF Follows
<1>7. Slices(k)'
  <2>1. BufferSuffix(k)'
    BY <1>1, <1>2, <1>3, <1>5, <1>6 DEF BufferSuffix
  <2>2. Increasing(numbered[k], nextSeq[k])' /\ Prefix(k)' /\ SendingSuffix(k)' /\ Resting(k)'
    BY <1>2, <1>3 DEF Slices, Prefix, SendingSuffix, Resting, Past
  <2> QED  BY <2>1, <2>2 DEF Slices
<1>8. ASSUME NEW x \in Keys, x # k PROVE Slices(x)'
  <2>1. buffer'[x] = buffer[x]
    BY <1>2, <1>8 DEF IInv, TypeOK
  <2> QED  BY <1>2, <2>1, SlicesUntouched DEF IInv
<1>9. used' = used - m /\ used \in Int
  BY <1>2, <1>3, <1>4 DEF IInv, TypeOK
<1>10. TypeOK'
  <2>1. buffer' \in [Keys -> Seq(Envelope)]
    BY <1>2, <1>4 DEF IInv, TypeOK
  <2>2. used' \in Int
    BY <1>3, <1>9
  <2> QED  BY <1>2, <2>1, <2>2 DEF IInv, TypeOK
<1>11. Counted'
  <2>1. \A x \in Keys \ {k} : buffer'[x] = buffer[x]
    BY <1>2 DEF IInv, TypeOK
  <2>2. Len(buffer'[k]) = Len(buffer[k]) - m /\ Len(buffer'[k]) \in Nat
    BY <1>3, <1>4
  <2>3. /\ IsFiniteSet(Buffered') /\ used \in Nat
        /\ Cardinality(Buffered') = used + Len(buffer'[k]) - Len(buffer[k])
    BY <1>3, <2>1, <2>2, CountChanges DEF IInv
  <2>4. Cardinality(Buffered') = used'
    BY <1>3, <1>9, <2>2, <2>3
  <2>5. used' < Capacity + MaxSegments
    BY <1>3, <1>9, <2>3, CapacityAssumption DEF IInv, Counted, BufferAccounted
  <2> QED  BY <2>3, <2>4, <2>5 DEF Counted, BufferAccounted
<1> QED  BY <1>7, <1>8, <1>10, <1>11 DEF IInv

-----------------------------------------------------------------------------
(* The theorems. *)

LEMMA Inductive == IInv /\ [Next]_vars => IInv'
<1> SUFFICES ASSUME IInv, [Next]_vars PROVE IInv'
  OBVIOUS
<1>1. CASE \E k \in Keys : Enqueue(k)
  BY <1>1, EnqueueStep
<1>2. CASE TakeEvent
  BY <1>2, TakeEventStep
<1>3. CASE \E k \in Keys : Send(k)
  BY <1>3, SendStep
<1>4. CASE Sent
  BY <1>4, SentStep
<1>5. CASE Connect
  BY <1>5, ConnectStep
<1>6. CASE Break
  BY <1>6, BreakStep
<1>7. CASE \E k \in Keys : ClientReceive(k)
  BY <1>7, ClientReceiveStep
<1>8. CASE \E k \in Keys : \E i \in 1..Len(accepted[k]) : Ack(k, i)
  BY <1>8, AckStep
<1>9. CASE UNCHANGED vars
  <2>1. /\ UNCHANGED <<events, queue, nextSeq, buffer, used, numbered, writer, out, wire, breaks,
                      accepted>>
    BY <1>9 DEF vars, state
  <2>2. TypeOK'
    BY <2>1 DEF IInv, TypeOK
  <2>3. \A k \in Keys : Slices(k)'
    BY <2>1, SlicesUntouched DEF IInv
  <2>4. Counted'
    BY <2>1, CountUntouched DEF IInv
  <2> QED  BY <2>2, <2>3, <2>4 DEF IInv
<1>10. CASE SplitFails
  BY <1>10, SplitFailsStep
<1> QED  BY <1>1, <1>2, <1>3, <1>4, <1>5, <1>6, <1>7, <1>8, <1>9, <1>10 DEF Next, Writer

LEMMA Always == Spec => []IInv
BY InitIInv, Inductive, PTL DEF Spec

(* The watch that gates the writer counts exactly the envelopes in the     *)
(* buffer, whatever is acknowledged in which order, and the buffer is      *)
(* overfull by the segments of one message at most.                        *)
THEOREM BufferIsAccounted == Spec => []BufferAccounted
<1>1. IInv => BufferAccounted
  BY DEF IInv, Counted
<1> QED  BY <1>1, Always, PTL

(* What an acknowledgement takes out of the buffer, the client has: what a *)
(* new websocket starts with leaves no gap after what the client accepted. *)
THEOREM NothingUnacceptedLeavesBuffer == Spec => [](\A k \in Keys : BufferSuffix(k))
<1>1. IInv => \A k \in Keys : BufferSuffix(k)
  BY DEF IInv, Slices
<1> QED  BY <1>1, Always, PTL

(* Each step does to a stream what ReliableStream lets it do, or nothing. *)
LEMMA StepRefines ==
  ASSUME IInv, [Next]_vars
  PROVE  [Stream!Next]_(Stream!vars)
<1>1. CASE TakeEvent
  <2>1. PICK k \in Keys, more \in Seq(Envelope) :
          numbered' = [numbered EXCEPT ![k] = @ \o more]
    BY <1>1, TakeEventEffect
  <2>2. UNCHANGED accepted /\ numbered \in [Keys -> Seq(Envelope)]
    BY <1>1 DEF TakeEvent, IInv, TypeOK
  <2>3. /\ numbered'[k] = numbered[k] \o more
        /\ \A x \in Keys \ {k} : numbered'[x] = numbered[x]
        /\ numbered[k] \in Seq(Envelope)
    BY <2>1, <2>2
  <2>4. CASE more = <<>>
    <3>1. numbered'[k] = numbered[k]
      BY <2>3, <2>4
    <3>2. numbered' = numbered
      BY <2>1, <2>2, <2>3, <3>1
    <3> QED  BY <2>2, <3>2 DEF Stream!vars
  <2>5. CASE more # <<>>
    <3>1. Len(numbered'[k]) > Len(numbered[k])
      BY <2>3, <2>5
    <3>2. SubSeq(numbered'[k], 1, Len(numbered[k])) = numbered[k]
      BY <2>3
    <3>3. Stream!Send(k)
      BY <2>2, <2>3, <3>1, <3>2 DEF Stream!Send
    <3> QED  BY <3>3 DEF Stream!Next
  <2> QED  BY <2>4, <2>5
<1>2. ASSUME NEW k \in Keys, ClientReceive(k)
      PROVE  [Stream!Next]_(Stream!vars)
  <2>1. UNCHANGED numbered
    BY <1>2 DEF ClientReceive, state
  <2>2. \/ accepted' = accepted
        \/ /\ Len(accepted[k]) < Len(numbered[k])
           /\ accepted' = [accepted EXCEPT ![k] =
                              Append(@, numbered[k][Len(accepted[k]) + 1])]
    BY <1>2, ReceiveNext
  <2>3. CASE accepted' = accepted
    BY <2>1, <2>3 DEF Stream!vars
  <2>4. CASE /\ Len(accepted[k]) < Len(numbered[k])
             /\ accepted' = [accepted EXCEPT ![k] =
                                Append(@, numbered[k][Len(accepted[k]) + 1])]
    BY <2>1, <2>4 DEF Stream!Next, Stream!Receive
  <2> QED  BY <2>2, <2>3, <2>4
<1>3. CASE \/ (\E k \in Keys : Enqueue(k) \/ Send(k)) \/ Sent \/ Connect \/ Break \/ SplitFails
           \/ (\E k \in Keys : \E i \in 1..Len(accepted[k]) : Ack(k, i))
           \/ UNCHANGED vars
  <2>1. UNCHANGED <<numbered, accepted>>
    BY <1>3 DEF Enqueue, Send, Sent, Connect, Break, SplitFails, Ack, state, vars
  <2> QED  BY <2>1 DEF Stream!vars
<1> QED  BY <1>1, <1>2, <1>3 DEF Next, Writer

(* Remote control is a reliable stream to each client: what the client      *)
(* accepts is what was numbered for it, in order, without gap or duplicate, *)
(* however many websockets break and whichever acknowledgements arrive.     *)
THEOREM OutboundImplementsReliableStream == Spec => ImplementsReliableStream
<1>1. Init => Stream!Init
  BY DEF Init, Stream!Init, Empty
<1>2. IInv /\ [Next]_vars => [Stream!Next]_(Stream!vars)
  BY StepRefines
<1> QED  BY <1>1, <1>2, Always, PTL DEF Spec, ImplementsReliableStream, Stream!Spec
=============================================================================
