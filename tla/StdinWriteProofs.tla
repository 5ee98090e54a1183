-------------------------- MODULE StdinWriteProofs --------------------------
(***************************************************************************)
(* Proofs about StdinWrite, for every set of writes, every cache size and  *)
(* every number of connections.                                            *)
(***************************************************************************)
EXTENDS StdinWrite, TLAPS

Later(n) == IF n <= Cap THEN n ELSE Cap

(* The cache holds the ids of the last writes, in their order: the reason why
   a write is repeated only when Cap others came in between. *)
CacheIsSuffix ==
  /\ Len(order) = Later(Len(written))
  /\ \A k \in 1..Len(order) : order[k] = written[Len(written) - Len(order) + k]

Delivered == {w \in Writes : Written(w)}

(* "accepted" is said, and held, only of a write that was sent. *)
AnswersAreTrue ==
  /\ \A w \in Writes : call[w] = "accepted" => w \in Delivered
  /\ \A i \in 1..Len(replies) :
       replies[i].of \in Writes /\ replies[i].is = "accepted" => replies[i].of \in Delivered

IInv == TypeOK /\ CacheIsSuffix /\ AnswersAreTrue /\ DuplicateOnlyBeyondCap

-----------------------------------------------------------------------------
(* A step that writes nothing keeps the cache and the order of the bytes. *)
LEMMA QuietStep ==
  ASSUME CacheIsSuffix, DuplicateOnlyBeyondCap, UNCHANGED <<order, written>>
  PROVE  CacheIsSuffix' /\ DuplicateOnlyBeyondCap'
  BY DEF CacheIsSuffix, DuplicateOnlyBeyondCap, Later

(* Init satisfies the inductive invariant. *)
LEMMA InitIInv == Init => IInv
  <1> SUFFICES ASSUME Init PROVE IInv
    OBVIOUS
  <1>1. TypeOK
    <2>1. replies \in Seq(Reply) /\ queue \in Seq(Calls)
      BY DEF Init
    <2>2. order \in Seq(Writes) /\ written \in Seq(Writes) /\ taken \in 0..Len(written)
      BY DEF Init
    <2>3. call \in [Calls -> {"idle", "retry", "ready", "sent"} \cup Outcomes]
      BY DEF Init
    <2>4. rpc \in [Calls -> Nat]
      BY DEF Init
    <2> QED
      BY <2>1, <2>2, <2>3, <2>4 DEF Init, TypeOK
  <1>2. CacheIsSuffix
    BY BoundsAssumption DEF Init, CacheIsSuffix, Later
  <1>3. AnswersAreTrue
    BY DEF Init, AnswersAreTrue, Calls
  <1>4. DuplicateOnlyBeyondCap
    BY DEF Init, DuplicateOnlyBeyondCap
  <1> QED
    BY <1>1, <1>2, <1>3, <1>4 DEF IInv

(* Appending a true answer keeps the answers true. *)
LEMMA AnswerStep ==
  ASSUME NEW what \in Outcomes, TypeOK, request \in Calls, AnswersAreTrue, Answer(what),
         UNCHANGED call,
         Delivered \subseteq Delivered',
         what = "accepted" /\ request \in Writes => request \in Delivered'
  PROVE  AnswersAreTrue' /\ replies' \in Seq(Reply)
  <1>1. CASE cli
    <2> DEFINE r == [of |-> request, is |-> what]
    <2>1. replies' = Append(replies, r) /\ r \in Reply
      BY <1>1 DEF Answer, Reply
    <2>2. replies \in Seq(Reply)
      BY DEF TypeOK
    <2>3. \A i \in 1..Len(replies') : (i \in 1..Len(replies) /\ replies'[i] = replies[i]) \/ replies'[i] = r
      BY <2>1, <2>2
    <2> HIDE DEF r
    <2>4. \A i \in 1..Len(replies') :
            replies'[i].of \in Writes /\ replies'[i].is = "accepted" => replies'[i].of \in Delivered'
      <3> SUFFICES ASSUME NEW i \in 1..Len(replies'), replies'[i].of \in Writes,
                          replies'[i].is = "accepted"
                   PROVE  replies'[i].of \in Delivered'
        OBVIOUS
      <3>1. CASE i \in 1..Len(replies) /\ replies'[i] = replies[i]
        BY <3>1 DEF AnswersAreTrue
      <3>2. CASE replies'[i] = r
        <4>1. r.of = request /\ r.is = what
          BY DEF r
        <4> QED
          BY <3>2, <4>1
      <3> QED
        BY <2>3, <3>1, <3>2
    <2>5. replies' \in Seq(Reply)
      BY <2>1, <2>2
    <2> QED
      BY <2>4, <2>5 DEF AnswersAreTrue
  <1>2. CASE ~cli
    <2>1. replies' = replies
      BY <1>2 DEF Answer
    <2> QED
      BY <2>1 DEF AnswersAreTrue, TypeOK
  <1> QED
    BY <1>1, <1>2 DEF TypeOK

(* Remember keeps the cache a suffix of what was written. *)
LEMMA RememberStep ==
  ASSUME TypeOK, CacheIsSuffix, NEW w \in Writes,
         written' = Append(written, w), Remember(w)
  PROVE  CacheIsSuffix' /\ order' \in Seq(Writes)
  <1> DEFINE n == Len(written)
             m == Len(order)
  <1>1. /\ n \in Nat /\ m \in Nat /\ Cap \in Nat \ {0}
        /\ order \in Seq(Writes) /\ written \in Seq(Writes)
        /\ m = Later(n)
    BY BoundsAssumption DEF TypeOK, CacheIsSuffix
  <1>2. Len(written') = n + 1 /\ written'[n + 1] = w /\ \A k \in 1..n : written'[k] = written[k]
    BY <1>1
  <1>3. CASE m >= Cap
    <2>1. order' = Append(Tail(order), w) /\ m = Cap /\ n >= Cap
      BY <1>1, <1>3 DEF Remember, Later
    <2>2. /\ Tail(order) \in Seq(Writes) /\ Len(Tail(order)) = m - 1
          /\ \A k \in 1..m - 1 : Tail(order)[k] = order[k + 1]
      BY <1>1, <2>1
    <2>3. Len(order') = m /\ order'[m] = w /\ \A k \in 1..m - 1 : order'[k] = order[k + 1]
      BY <1>1, <2>1, <2>2
    <2>4. \A k \in 1..m - 1 : order[k + 1] = written[n - m + (k + 1)]
      BY <1>1 DEF CacheIsSuffix
    <2>5. ASSUME NEW k \in 1..m PROVE order'[k] = written'[(n + 1) - m + k]
      <3>1. CASE k = m
        BY <1>1, <1>2, <2>3, <3>1
      <3>2. CASE k # m
        <4>1. k \in 1..m - 1 /\ n - m + (k + 1) \in 1..n /\ (n + 1) - m + k = n - m + (k + 1)
          BY <1>1, <2>1, <3>2
        <4> QED
          BY <1>2, <2>3, <2>4, <4>1
      <3> QED
        BY <3>1, <3>2
    <2>6. Later(n + 1) = m
      BY <1>1, <2>1 DEF Later
    <2>7. order' \in Seq(Writes)
      BY <1>1, <2>1, <2>2
    <2> QED
      BY <1>2, <2>3, <2>5, <2>6, <2>7 DEF CacheIsSuffix, Later
  <1>4. CASE ~(m >= Cap)
    <2>1. order' = Append(order, w) /\ m = n /\ n < Cap
      BY <1>1, <1>4 DEF Remember, Later
    <2>2. /\ Len(order') = m + 1 /\ order'[m + 1] = w /\ \A k \in 1..m : order'[k] = order[k]
          /\ order' \in Seq(Writes)
      BY <1>1, <2>1
    <2>3. \A k \in 1..m : order[k] = written[k]
      BY <1>1, <2>1 DEF CacheIsSuffix
    <2>4. ASSUME NEW k \in 1..m + 1 PROVE order'[k] = written'[k]
      BY <1>1, <1>2, <2>1, <2>2, <2>3
    <2>5. Later(n + 1) = m + 1
      BY <1>1, <2>1 DEF Later
    <2>6. \A k \in 1..m + 1 : (n + 1) - (m + 1) + k = k
      BY <1>1, <2>1
    <2> QED
      BY <1>2, <2>2, <2>4, <2>5, <2>6 DEF CacheIsSuffix, Later
  <1> QED
    BY <1>3, <1>4

(* A write that is not in the cache is repeated beyond the bound only. *)
LEMMA DuplicateStep ==
  ASSUME TypeOK, CacheIsSuffix, DuplicateOnlyBeyondCap, NEW w \in Writes, ~Accepted(w),
         written' = Append(written, w)
  PROVE  DuplicateOnlyBeyondCap'
  <1> DEFINE n == Len(written)
             m == Len(order)
  <1>1. /\ n \in Nat /\ m \in Nat /\ Cap \in Nat \ {0}
        /\ written \in Seq(Writes) /\ m = Later(n)
    BY BoundsAssumption DEF TypeOK, CacheIsSuffix
  <1>2. Len(written') = n + 1 /\ written'[n + 1] = w /\ \A k \in 1..n : written'[k] = written[k]
    BY <1>1
  <1>3. ASSUME NEW i \in 1..n, written[i] = w PROVE n + 1 - i > Cap
    <2>1. SUFFICES ASSUME n - i < Cap PROVE FALSE
      BY <1>1
    <2> DEFINE k == i - n + m
    <2>2. k \in 1..m /\ n - m + k = i
      <3>1. CASE n <= Cap
        <4>1. m = n
          BY <1>1, <3>1 DEF Later
        <4> QED
          BY <1>1, <4>1
      <3>2. CASE ~(n <= Cap)
        <4>1. m = Cap
          BY <1>1, <3>2 DEF Later
        <4> QED
          BY <1>1, <2>1, <3>2, <4>1
      <3> QED
        BY <3>1, <3>2
    <2>3. order[k] = written[n - m + k]
      BY <2>2 DEF CacheIsSuffix
    <2> QED
      BY <1>3, <2>2, <2>3 DEF Accepted
  <1> SUFFICES ASSUME NEW i \in 1..n + 1, NEW j \in 1..n + 1, i < j, written'[i] = written'[j]
               PROVE  j - i > Cap
    BY <1>2 DEF DuplicateOnlyBeyondCap
  <1>4. CASE j = n + 1
    <2>1. i \in 1..n /\ written[i] = w
      BY <1>1, <1>2, <1>4
    <2> QED
      BY <1>3, <1>4, <2>1
  <1>5. CASE j # n + 1
    <2>1. i \in 1..n /\ j \in 1..n /\ written[i] = written[j]
      BY <1>1, <1>2, <1>5
    <2> QED
      BY <2>1 DEF DuplicateOnlyBeyondCap
  <1> QED
    BY <1>4, <1>5

-----------------------------------------------------------------------------
(* The client's steps touch neither the cache nor the queue. *)
LEMMA ClientStep ==
  ASSUME IInv, Client
  PROVE  IInv'
  <1> USE DEF IInv
  <1>1. UNCHANGED <<process>>
    BY DEF Client, GetClient, Send, Receive, ClientClose, Drained, Reconnect, Fail, server
  <1>2. CacheIsSuffix' /\ DuplicateOnlyBeyondCap'
    BY <1>1, QuietStep DEF process
  <1>3. Delivered' = Delivered
    BY <1>1 DEF Delivered, Written, process
  <1>4. ASSUME NEW w \in Calls, GetClient(w) \/ Send(w) PROVE TypeOK' /\ AnswersAreTrue'
    <2>1. CASE GetClient(w)
      <3>1. TypeOK'
        BY <2>1 DEF GetClient, TypeOK, server, process, Outcomes
      <3>2. AnswersAreTrue'
        BY <1>3, <2>1 DEF GetClient, TypeOK, AnswersAreTrue, Calls
      <3> QED
        BY <3>1, <3>2
    <2>2. CASE Send(w)
      <3>1. TypeOK'
        <4>1. call' \in [Calls -> {"idle", "retry", "ready", "sent"} \cup Outcomes]
          BY <2>2 DEF Send, Afterwards, TypeOK, Outcomes
        <4>2. rpc' \in [Calls -> Nat] /\ queue' \in Seq(Calls)
          <5>1. rpc' = rpc \/ rpc' = [rpc EXCEPT ![w] = 0]
            BY <2>2 DEF Send
          <5>2. queue' = queue \/ queue' = Append(queue, w)
            BY <2>2 DEF Send
          <5>3. rpc \in [Calls -> Nat] /\ queue \in Seq(Calls)
            BY DEF TypeOK
          <5>4. rpc' \in [Calls -> Nat]
            BY <5>1, <5>3
          <5>5. queue' \in Seq(Calls)
            BY <5>2, <5>3
          <5> QED
            BY <5>4, <5>5
        <4>3. UNCHANGED <<cli, drained, failed, links, replies, srv, request, stage, process>>
          BY <2>2 DEF Send
        <4> QED
          BY <4>1, <4>2, <4>3 DEF TypeOK, process
      <3>2. AnswersAreTrue'
        BY <1>3, <2>2 DEF Send, Afterwards, TypeOK, AnswersAreTrue, Calls
      <3> QED
        BY <3>1, <3>2
    <2> QED
      BY <1>4, <2>1, <2>2
  <1>5. CASE Receive
    <2> DEFINE r == Head(replies)
    <2>1. /\ replies \in Seq(Reply) /\ replies # <<>>
          /\ r = replies[1] /\ 1 \in 1..Len(replies)
      BY <1>5 DEF Receive, TypeOK
    <2>2. r.of \in Calls /\ r.is \in Outcomes
      <3>1. r \in Reply
        BY <2>1
      <3> QED
        BY <3>1 DEF Reply
    <2>3. /\ replies' \in Seq(Reply)
          /\ \A i \in 1..Len(replies') : i + 1 \in 1..Len(replies) /\ replies'[i] = replies[i + 1]
      BY <1>5, <2>1 DEF Receive
    <2>4. call' = [call EXCEPT ![r.of] = r.is]
      BY <1>5 DEF Receive
    <2>5. TypeOK'
      BY <1>5, <2>2, <2>3, <2>4 DEF Receive, TypeOK, server, process
    <2>6. r.of \in Writes /\ r.is = "accepted" => r.of \in Delivered
      BY <2>1 DEF AnswersAreTrue
    <2>7. \A w \in Writes : call'[w] = "accepted" => w \in Delivered
      BY <2>4, <2>6 DEF AnswersAreTrue, TypeOK, Calls
    <2>8. \A i \in 1..Len(replies') :
            replies'[i].of \in Writes /\ replies'[i].is = "accepted" => replies'[i].of \in Delivered
      BY <2>3 DEF AnswersAreTrue
    <2> QED
      BY <1>2, <1>3, <2>5, <2>7, <2>8 DEF AnswersAreTrue
  <1>6. CASE ClientClose
    <2>1. PICK k \in 0..Len(replies) : replies' = SubSeq(replies, 1, k)
      BY <1>6 DEF ClientClose
    <2>2. /\ replies' \in Seq(Reply) /\ Len(replies') = k
          /\ \A i \in 1..k : i \in 1..Len(replies) /\ replies'[i] = replies[i]
      BY <2>1 DEF TypeOK
    <2>3. TypeOK'
      BY <1>6, <2>2 DEF ClientClose, TypeOK, server, process
    <2>4. AnswersAreTrue'
      BY <1>3, <1>6, <2>2 DEF ClientClose, AnswersAreTrue
    <2> QED
      BY <1>2, <2>3, <2>4
  <1>7. CASE Drained
    <2>1. call' \in [Calls -> {"idle", "retry", "ready", "sent"} \cup Outcomes]
      BY <1>7 DEF Drained, Afterwards, TypeOK, Outcomes
    <2>2. rpc' \in [Calls -> Nat]
      BY <1>7 DEF Drained, TypeOK
    <2>3. TypeOK'
      BY <1>7, <2>1, <2>2 DEF Drained, TypeOK, server, process
    <2>4. AnswersAreTrue'
      BY <1>3, <1>7 DEF Drained, Pending, Afterwards, AnswersAreTrue, Calls
    <2> QED
      BY <1>2, <2>3, <2>4
  <1>8. CASE Reconnect
    <2>1. TypeOK'
      <3>1. /\ links' = links + 1 /\ cli' = TRUE /\ srv' = TRUE /\ drained' = FALSE
            /\ UNCHANGED <<call, rpc, failed, replies, queue, request, stage, process>>
        BY <1>8 DEF Reconnect
      <3>2. links' \in Nat
        BY <3>1 DEF TypeOK
      <3> QED
        BY <3>1, <3>2 DEF TypeOK, process
    <2>2. AnswersAreTrue'
      BY <1>3, <1>8 DEF Reconnect, AnswersAreTrue
    <2> QED
      BY <1>2, <2>1, <2>2
  <1>9. CASE Fail
    <2>1. TypeOK'
      BY <1>9 DEF Fail, TypeOK, server, process, Outcomes
    <2>2. AnswersAreTrue'
      BY <1>3, <1>9 DEF Fail, AnswersAreTrue, Calls
    <2> QED
      BY <1>2, <2>1, <2>2
  <1> QED
    BY <1>2, <1>4, <1>5, <1>6, <1>7, <1>8, <1>9 DEF Client

(* The server's steps: only Commit writes, and it remembers what it wrote. *)
LEMMA ServerStep ==
  ASSUME IInv, Server
  PROVE  IInv'
  <1> USE DEF IInv
  <1>1. CASE Take
    <2>1. TypeOK'
      BY <1>1, CallsAssumption DEF Take, TypeOK, client, process, Calls
    <2>2. AnswersAreTrue'
      BY <1>1 DEF Take, AnswersAreTrue, client, process, Delivered, Written
    <2> QED
      BY <1>1, <2>1, <2>2, QuietStep DEF Take, process
  <1>2. CASE DoTerminate
    <2>1. UNCHANGED <<call, order, written>> /\ Delivered' = Delivered /\ Answer("done")
          /\ request \in Calls
      BY <1>2 DEF DoTerminate, Delivered, Written, Calls
    <2>2. AnswersAreTrue' /\ replies' \in Seq(Reply)
      BY <2>1, AnswerStep DEF Outcomes
    <2>3. TypeOK'
      BY <1>2, <2>2 DEF DoTerminate, TypeOK, Answer
    <2> QED
      BY <2>1, <2>2, <2>3, QuietStep
  <1>3. CASE CheckWrite
    <2>1. UNCHANGED <<call, order, written>> /\ Delivered' = Delivered /\ request \in Calls
      BY <1>3 DEF CheckWrite, process, Delivered, Written, Calls
    <2>2. Accepted(request) => request \in Delivered
      <3> SUFFICES ASSUME NEW k \in 1..Len(order), order[k] = request PROVE request \in Delivered
        BY DEF Accepted
      <3>1. Len(written) \in Nat /\ Len(order) \in Nat /\ Len(order) = Later(Len(written))
            /\ Cap \in Nat
        BY BoundsAssumption DEF TypeOK, CacheIsSuffix
      <3>2. Len(order) <= Len(written)
        BY <3>1 DEF Later
      <3>3. Len(written) - Len(order) + k \in 1..Len(written)
        BY <3>1, <3>2
      <3>4. order[k] = written[Len(written) - Len(order) + k]
        BY DEF CacheIsSuffix
      <3> QED
        BY <1>3, <3>3, <3>4 DEF Delivered, Written, CheckWrite
    <2>3. AnswersAreTrue' /\ replies' \in Seq(Reply)
      <3>1. CASE Answer("unknown") \/ Answer("stdinClosed")
        BY <2>1, <3>1, AnswerStep DEF Outcomes
      <3>2. CASE Accepted(request) /\ Answer("accepted")
        BY <2>1, <2>2, <3>2, AnswerStep DEF Outcomes
      <3>3. CASE UNCHANGED replies
        BY <2>1, <3>3 DEF AnswersAreTrue, TypeOK
      <3> QED
        BY <1>3, <3>1, <3>2, <3>3 DEF CheckWrite
    <2>4. TypeOK'
      BY <1>3, <2>3, CallsAssumption DEF CheckWrite, TypeOK, Answer, process, Calls
    <2> QED
      BY <2>1, <2>3, <2>4, QuietStep
  <1>4. CASE Reserve
    <2>1. UNCHANGED <<call, order, written>> /\ Delivered' = Delivered /\ request \in Calls
      BY <1>4 DEF Reserve, process, Delivered, Written, Calls, TypeOK
    <2>2. AnswersAreTrue' /\ replies' \in Seq(Reply)
      <3>1. CASE Answer("error")
        BY <2>1, <3>1, AnswerStep DEF Outcomes
      <3>2. CASE UNCHANGED replies
        BY <2>1, <3>2 DEF AnswersAreTrue, TypeOK
      <3> QED
        BY <1>4, <3>1, <3>2 DEF Reserve
    <2>3. TypeOK'
      BY <1>4, <2>2, CallsAssumption DEF Reserve, TypeOK, Answer, process, Calls
    <2> QED
      BY <2>1, <2>2, <2>3, QuietStep
  <1>5. CASE Commit
    <2>1. request \in Writes /\ request \in Calls /\ UNCHANGED call /\ Answer("accepted")
      BY <1>5 DEF Commit, TypeOK, Calls
    <2>2. CASE Accepted(request)
      <3>1. UNCHANGED <<order, written>> /\ Delivered' = Delivered
        BY <1>5, <2>2 DEF Commit, Delivered, Written
      <3>2. request \in Delivered
        <4> SUFFICES ASSUME NEW k \in 1..Len(order), order[k] = request PROVE request \in Delivered
          BY <2>2 DEF Accepted
        <4>1. Len(written) \in Nat /\ Len(order) \in Nat /\ Len(order) = Later(Len(written))
              /\ Cap \in Nat
          BY BoundsAssumption DEF TypeOK, CacheIsSuffix
        <4>2. Len(order) <= Len(written)
          BY <4>1 DEF Later
        <4>3. Len(written) - Len(order) + k \in 1..Len(written)
          BY <4>1, <4>2
        <4> QED
          BY <2>1, <4>3 DEF Delivered, Written, CacheIsSuffix
      <3>3. AnswersAreTrue' /\ replies' \in Seq(Reply)
        BY <2>1, <3>1, <3>2, AnswerStep DEF Outcomes
      <3>4. TypeOK'
        BY <1>5, <3>1, <3>3 DEF Commit, TypeOK, Answer
      <3> QED
        BY <3>1, <3>3, <3>4, QuietStep
    <2>3. CASE ~Accepted(request)
      <3>1. written' = Append(written, request) /\ Remember(request)
        BY <1>5, <2>3 DEF Commit
      <3>2. CacheIsSuffix' /\ order' \in Seq(Writes) /\ DuplicateOnlyBeyondCap'
        BY <2>1, <2>3, <3>1, RememberStep, DuplicateStep
      <3>3. /\ written \in Seq(Writes) /\ written' \in Seq(Writes)
            /\ Len(written') = Len(written) + 1 /\ written'[Len(written')] = request
            /\ \A i \in 1..Len(written) : written'[i] = written[i]
        BY <2>1, <3>1 DEF TypeOK
      <3>4. Delivered \subseteq Delivered' /\ request \in Delivered'
        BY <2>1, <3>3 DEF Delivered, Written
      <3>5. AnswersAreTrue' /\ replies' \in Seq(Reply)
        BY <2>1, <3>4, AnswerStep DEF Outcomes
      <3>6. TypeOK'
        BY <1>5, <3>2, <3>3, <3>5 DEF Commit, TypeOK, Answer
      <3> QED
        BY <3>2, <3>5, <3>6
    <2> QED
      BY <2>2, <2>3
  <1>6. CASE ServerClose
    <2>1. TypeOK'
      <3>1. queue' \in Seq(Calls) /\ srv' = FALSE /\ request' = None /\ stage' = "idle"
            /\ UNCHANGED <<client, process>>
        BY <1>6 DEF ServerClose
      <3> QED
        BY <3>1 DEF TypeOK, client, process
    <2>2. AnswersAreTrue'
      BY <1>6 DEF ServerClose, AnswersAreTrue, client, process, Delivered, Written
    <2> QED
      BY <1>6, <2>1, <2>2, QuietStep DEF ServerClose, process
  <1> QED
    BY <1>1, <1>2, <1>3, <1>4, <1>5, <1>6 DEF Server

(* Every step, and stuttering, keeps the inductive invariant. *)
LEMMA NextIInv == IInv /\ [Next]_vars => IInv'
  <1> SUFFICES ASSUME IInv, [Next]_vars PROVE IInv'
    OBVIOUS
  <1>1. CASE ChildReads \/ ChildExits \/ Forgotten \/ UNCHANGED vars
    <2>1. TypeOK'
      BY <1>1 DEF ChildReads, ChildExits, Forgotten, vars, client, server, process, IInv, TypeOK
    <2>2. AnswersAreTrue'
      BY <1>1 DEF ChildReads, ChildExits, Forgotten, vars, client, server, process, IInv, AnswersAreTrue,
                  Delivered, Written
    <2>3. UNCHANGED <<order, written>>
      BY <1>1 DEF ChildReads, ChildExits, Forgotten, vars, process
    <2> QED
      BY <2>1, <2>2, <2>3, QuietStep DEF IInv
  <1> QED
    BY <1>1, ClientStep, ServerStep DEF Next

(* The inductive invariant holds throughout. *)
LEMMA AlwaysIInv == Spec => []IInv
  BY InitIInv, NextIInv, PTL DEF Spec

(* Every variable has its type, and a handler that waits for room or holds a
   permit is handling a write. *)
THEOREM WriteTypeCorrect == Spec => []TypeOK
  <1>1. IInv => TypeOK
    BY DEF IInv
  <1> QED
    BY <1>1, AlwaysIInv, PTL

(* Whatever is lost, cancelled or retried, the child gets a write twice only
   when at least Cap others were accepted in between (exec_write). *)
THEOREM NearlyOnce == Spec => []DuplicateOnlyBeyondCap
  <1>1. IInv => DuplicateOnlyBeyondCap
    BY DEF IInv
  <1> QED
    BY <1>1, AlwaysIInv, PTL

(* A write reported as accepted was sent to the child's stdin queue. *)
THEOREM NoFalseAccept == Spec => []AcceptedMeansDelivered
  <1>1. IInv => AcceptedMeansDelivered
    BY DEF IInv, AnswersAreTrue, AcceptedMeansDelivered, Delivered
  <1> QED
    BY <1>1, AlwaysIInv, PTL

=============================================================================
