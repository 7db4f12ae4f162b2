------------------------- MODULE StreamSocketProofs -------------------------
(***************************************************************************)
(* Theorems about StreamSocket, for any limits and any frames: a generator *)
(* that waits has nothing to wait for but the remote server, a stream that *)
(* is aborted comes to an end, frames reach the client in the order in     *)
(* which they came and none is lost, and the counters of both buffers are  *)
(* those of what is in them.                                               *)
(***************************************************************************)
EXTENDS StreamSocket, FiniteSetTheorems, SequenceTheorems, TLAPS

\* Before its first wait a generator has neither a frame nor an end.
StreamInv ==
  /\ NoLostWakeup
  /\ gen \in {"fresh", "factory", "connected"} => queue = <<>> /\ ~closed

\* The steps of the socket, of the factory and of the generator.
LEMMA StreamStepKeeps ==
  ASSUME StreamInv, StreamStep
  PROVE  StreamInv'
<1> USE DEF StreamInv, NoLostWakeup
<1>1. CASE FactoryOpens \/ FactoryFails \/ FactoryCallback \/ Connected
  BY <1>1 DEF FactoryOpens, FactoryFails, FactoryCallback, Connected, Ended
<1>2. CASE Resume
  BY <1>2 DEF Resume, End, Yield
<1>3. ASSUME NEW size \in Sizes, NEW good \in BOOLEAN, Message(size, good)
      PROVE  StreamInv'
  BY <1>3 DEF Message, Listening, Push, Finish
<1>4. CASE RemoteCloses
  BY <1>4 DEF RemoteCloses, Listening, Finish
<1>5. CASE RemoteFails
  BY <1>5 DEF RemoteFails, Listening, Finish
<1>6. QED
  BY <1>1, <1>2, <1>3, <1>4, <1>5 DEF StreamStep

\* What the handler and the client do to the generator.
LEMMA LoopKeeps ==
  ASSUME StreamInv, Begin \/ Pull \/ End("done") \/ Abort
  PROVE  StreamInv'
<1> USE DEF StreamInv, NoLostWakeup
<1>1. CASE Begin
  BY <1>1 DEF Begin
<1>2. CASE Pull
  BY <1>2 DEF Pull, Loop, End, Yield
<1>3. CASE End("done")
  BY <1>3 DEF End
<1>4. CASE Abort
  BY <1>4 DEF Abort, Listening, Finish
<1>5. QED
  BY <1>1, <1>2, <1>3, <1>4

\* A step of the system is one of those or leaves the generator alone.
LEMMA NextKeeps ==
  ASSUME StreamInv, [Next]_vars
  PROVE  StreamInv'
<1>1. CASE UNCHANGED <<gen, queue, closed>>
  BY <1>1 DEF StreamInv, NoLostWakeup
<1>2. CASE StreamStep
  BY <1>2, StreamStepKeeps
<1>3. CASE Open \/ LeaveLoop \/ ClientCloses \/ UNCHANGED vars
  BY <1>1, <1>3 DEF Open, LeaveLoop, ClientCloses, vars, streamVars
<1>4. CASE Connect
  BY <1>4, LoopKeeps DEF Connect
<1>5. CASE Relay
  BY <1>5, LoopKeeps DEF Relay, Return
<1>6. ASSUME NEW p \in pending, NEW failed \in BOOLEAN, Complete(p, failed)
      PROVE  StreamInv'
  BY <1>1, <1>6, LoopKeeps DEF Complete, streamVars
<1>7. CASE OnClose \/ RequestAborts
  BY <1>7, LoopKeeps DEF OnClose, RequestAborts
<1>8. QED
  BY <1>2, <1>3, <1>4, <1>5, <1>6, <1>7 DEF Next

\* No wakeup is lost: while the generator waits, its queue is empty and the stream
\* has not ended (streamWebSocketMessages).
THEOREM WakeupsAreNotLost == Spec => []NoLostWakeup
<1>1. Init => StreamInv
  BY DEF Init, StreamInit, StreamInv, NoLostWakeup
<1>2. StreamInv /\ [Next]_vars => StreamInv'
  BY NextKeeps
<1>3. StreamInv => NoLostWakeup
  BY DEF StreamInv
<1>4. QED
  BY <1>1, <1>2, <1>3, PTL DEF Spec

\* An event that is sent after the abort is the last one: the loop of
\* createBoundedStreamSocket asks the signal after every event.
THEOREM AbortIsTheEnd == Spec => AbortEndsStream
<1>1. ASSUME [Next]_vars, aborted, sent' # sent
      PROVE  handler' = "finished"
  <2>1. CASE Relay
    BY <1>1, <2>1 DEF Relay, Leave, NotSent
  <2>2. CASE LeaveLoop
    BY <2>2 DEF LeaveLoop, Leave
  <2>3. CASE ~(Relay \/ LeaveLoop)
    <3>1. UNCHANGED sent
      BY <1>1, <2>3 DEF Next, Open, Connect, Complete, ClientCloses, OnClose,
                        RequestAborts, NotSent, socketVars, vars
    <3>2. QED
      BY <1>1, <3>1
  <2>4. QED
    BY <2>1, <2>2, <2>3
<1>2. [Next]_vars => [aborted /\ sent' # sent => handler' = "finished"]_vars
  BY <1>1
<1>3. QED
  BY <1>2, PTL DEF Spec, AbortEndsStream

-----------------------------------------------------------------------------
(* Adding up bytes: each is a pair of what it belongs to and a number *)

BytesOf(q, size) == {q} \X (1..size)

LEMMA BytesOfOne ==
  ASSUME NEW q, NEW size \in Nat
  PROVE  IsFiniteSet(BytesOf(q, size)) /\ Cardinality(BytesOf(q, size)) = size
<1>1. IsFiniteSet({q}) /\ Cardinality({q}) = 1
  BY FS_Singleton
<1>2. IsFiniteSet(1..size) /\ Cardinality(1..size) = size
  BY FS_Interval
<1>3. /\ IsFiniteSet({q} \X (1..size))
      /\ Cardinality({q} \X (1..size)) = Cardinality({q}) * Cardinality(1..size)
  BY <1>1, <1>2, FS_Product
<1> QED
  BY <1>1, <1>2, <1>3 DEF BytesOf

\* Bytes of something else are added.
LEMMA BytesAdded ==
  ASSUME NEW B, IsFiniteSet(B), NEW q, NEW size \in Nat, \A x \in B : x[1] # q
  PROVE  /\ IsFiniteSet(B \cup BytesOf(q, size))
         /\ Cardinality(B) \in Nat
         /\ Cardinality(B \cup BytesOf(q, size)) = Cardinality(B) + size
<1>1. B \cap BytesOf(q, size) = {}
  BY DEF BytesOf
<1>2. /\ IsFiniteSet(B \cup BytesOf(q, size))
      /\ Cardinality(B \cup BytesOf(q, size)) =
            Cardinality(B) + Cardinality(BytesOf(q, size)) - Cardinality(B \cap BytesOf(q, size))
  BY BytesOfOne, FS_Union
<1>3. Cardinality(B \cap BytesOf(q, size)) = 0
  BY <1>1, FS_EmptySet
<1>4. Cardinality(B) \in Nat
  BY FS_CardinalityType
<1> QED
  BY <1>2, <1>3, <1>4, BytesOfOne

PendingBytes(P) == UNION {{p} \X (1..p.size) : p \in P}

LEMMA PendingBytesAdded ==
  ASSUME NEW P, NEW q, q \notin P, q.size \in Nat, IsFiniteSet(PendingBytes(P))
  PROVE  /\ IsFiniteSet(PendingBytes(P \cup {q}))
         /\ Cardinality(PendingBytes(P)) \in Nat
         /\ Cardinality(PendingBytes(P \cup {q})) = Cardinality(PendingBytes(P)) + q.size
<1>1. PendingBytes(P \cup {q}) = PendingBytes(P) \cup BytesOf(q, q.size)
  BY DEF PendingBytes, BytesOf
<1>2. \A x \in PendingBytes(P) : x[1] # q
  BY DEF PendingBytes
<1> DEFINE B == PendingBytes(P)  size == q.size
<1>3. IsFiniteSet(B) /\ size \in Nat /\ \A x \in B : x[1] # q
  BY <1>2
<1> HIDE DEF B, size
<1>4. /\ IsFiniteSet(B \cup BytesOf(q, size))
      /\ Cardinality(B) \in Nat
      /\ Cardinality(B \cup BytesOf(q, size)) = Cardinality(B) + size
  BY <1>3, BytesAdded
<1> QED
  BY <1>1, <1>4 DEF B, size

LEMMA PendingBytesRemoved ==
  ASSUME NEW P, NEW q \in P, q.size \in Nat, IsFiniteSet(PendingBytes(P))
  PROVE  /\ IsFiniteSet(PendingBytes(P \ {q}))
         /\ Cardinality(PendingBytes(P \ {q})) \in Nat
         /\ Cardinality(PendingBytes(P \ {q})) = Cardinality(PendingBytes(P)) - q.size
<1>1. PendingBytes(P \ {q}) \in SUBSET PendingBytes(P)
  BY DEF PendingBytes
<1>2. IsFiniteSet(PendingBytes(P \ {q}))
  BY <1>1, FS_Subset
<1>3. P = (P \ {q}) \cup {q} /\ q \notin P \ {q}
  OBVIOUS
<1>4. /\ Cardinality(PendingBytes(P \ {q})) \in Nat
      /\ Cardinality(PendingBytes((P \ {q}) \cup {q})) = Cardinality(PendingBytes(P \ {q})) + q.size
  BY <1>2, <1>3, PendingBytesAdded
<1>5. Cardinality(PendingBytes(P)) = Cardinality(PendingBytes(P \ {q})) + q.size
  BY <1>3, <1>4
<1> QED
  BY <1>2, <1>4, <1>5

QueueBytes(frames) == UNION {{i} \X (1..frames[i].size) : i \in DOMAIN frames}

LEMMA FrameSizes ==
  ASSUME NEW f \in Frame
  PROVE  f.size \in Nat /\ f.n \in 1..MaxFrames /\ f.good \in BOOLEAN
BY StreamAssumption DEF Frame

LEMMA NoBytes == IsFiniteSet(QueueBytes(<<>>)) /\ Bytes(<<>>) = 0
<1>1. QueueBytes(<<>>) = {}
  BY DEF QueueBytes
<1> QED
  BY <1>1, FS_EmptySet DEF Bytes, QueueBytes

LEMMA BytesAppended ==
  ASSUME NEW frames \in Seq(Frame), NEW f \in Frame, IsFiniteSet(QueueBytes(frames))
  PROVE  /\ IsFiniteSet(QueueBytes(Append(frames, f)))
         /\ Bytes(frames) \in Nat
         /\ Bytes(Append(frames, f)) = Bytes(frames) + f.size
<1> DEFINE n == Len(frames)  longer == Append(frames, f)
<1>1. n \in Nat /\ DOMAIN frames = 1..n
  BY LenProperties
<1>2. /\ longer \in Seq(Frame) /\ Len(longer) = n + 1
      /\ \A i \in 1..n : longer[i] = frames[i]
      /\ longer[n + 1] = f
  BY AppendProperties
<1>3. DOMAIN longer = 1..(n + 1)
  BY <1>2, LenProperties
<1> HIDE DEF n, longer
<1>4. 1..(n + 1) = (1..n) \cup {n + 1} /\ n + 1 \notin 1..n
  BY <1>1
<1>5. QueueBytes(longer) = QueueBytes(frames) \cup BytesOf(n + 1, f.size)
  BY <1>1, <1>2, <1>3, <1>4 DEF QueueBytes, BytesOf
<1>6. \A x \in QueueBytes(frames) : x[1] # n + 1
  BY <1>1, <1>4 DEF QueueBytes
<1> DEFINE B == QueueBytes(frames)  size == f.size  last == n + 1
<1>7. IsFiniteSet(B) /\ size \in Nat /\ \A x \in B : x[1] # last
  BY <1>6, FrameSizes
<1> HIDE DEF B, size, last
<1>8. /\ IsFiniteSet(B \cup BytesOf(last, size)) /\ Cardinality(B) \in Nat
      /\ Cardinality(B \cup BytesOf(last, size)) = Cardinality(B) + size
  BY <1>7, BytesAdded
<1>9. /\ IsFiniteSet(QueueBytes(longer)) /\ Cardinality(QueueBytes(frames)) \in Nat
      /\ Cardinality(QueueBytes(longer)) = Cardinality(QueueBytes(frames)) + f.size
  BY <1>5, <1>8 DEF B, size, last
<1> QED
  BY <1>9 DEF longer, Bytes, QueueBytes

\* Without its first frame the places of a queue move up.
LEMMA BytesOfTail ==
  ASSUME NEW frames \in Seq(Frame), frames # <<>>, IsFiniteSet(QueueBytes(frames))
  PROVE  /\ IsFiniteSet(QueueBytes(Tail(frames)))
         /\ Bytes(Tail(frames)) \in Nat
         /\ Bytes(Tail(frames)) = Bytes(frames) - Head(frames).size
<1> DEFINE n == Len(frames)  rest == Tail(frames)  f == Head(frames)
           later == {x \in QueueBytes(frames) : x[1] # 1}
           up == [x \in later |-> <<x[1] - 1, x[2]>>]
<1>1. n \in Nat /\ n >= 1 /\ DOMAIN frames = 1..n
  BY LenProperties, EmptySeq
<1>2. /\ rest \in Seq(Frame) /\ Len(rest) = n - 1 /\ f \in Frame /\ f = frames[1]
      /\ \A i \in 1..(n - 1) : rest[i] = frames[i + 1]
  BY HeadTailProperties
<1>3. DOMAIN rest = 1..(n - 1)
  BY <1>2, LenProperties
<1> HIDE DEF n, rest, f
<1>4. IsFiniteSet(later)
  BY FS_Subset
<1>5. \A i, b : <<i, b>> \in QueueBytes(rest) <=> i \in 1..(n - 1) /\ b \in 1..rest[i].size
  BY <1>3 DEF QueueBytes
<1>6. \A i, b : <<i, b>> \in later <=> i \in 2..n /\ b \in 1..frames[i].size
  <2>1. \A i, b : <<i, b>> \in QueueBytes(frames) <=> i \in 1..n /\ b \in 1..frames[i].size
    BY <1>1 DEF QueueBytes
  <2>2. \A i \in 1..n : i # 1 <=> i \in 2..n
    BY <1>1
  <2>3. 2..n \subseteq 1..n
    BY <1>1
  <2> QED
    BY <2>1, <2>2, <2>3
<1>7. /\ \A x \in later : x = <<x[1], x[2]>>
      /\ \A x \in QueueBytes(rest) : x = <<x[1], x[2]>>
  BY DEF QueueBytes
<1> HIDE DEF later
<1>8. \A x \in later : up[x] \in QueueBytes(rest)
  <2> SUFFICES ASSUME NEW x \in later PROVE <<x[1] - 1, x[2]>> \in QueueBytes(rest)
    OBVIOUS
  <2>1. x[1] \in 2..n /\ x[2] \in 1..frames[x[1]].size
    BY <1>6, <1>7
  <2>2. x[1] - 1 \in 1..(n - 1) /\ (x[1] - 1) + 1 = x[1]
    BY <1>1, <2>1
  <2> QED
    BY <1>2, <1>5, <2>1, <2>2
<1>9. \A x, y \in later : up[x] = up[y] => x = y
  <2> SUFFICES ASSUME NEW x \in later, NEW y \in later, up[x] = up[y] PROVE x = y
    OBVIOUS
  <2>1. x[1] - 1 = y[1] - 1 /\ x[2] = y[2]
    OBVIOUS
  <2>2. x[1] \in Int /\ y[1] \in Int
    BY <1>1, <1>6, <1>7
  <2> QED
    BY <1>7, <2>1, <2>2
<1>10. \A y \in QueueBytes(rest) : \E x \in later : up[x] = y
  <2> SUFFICES ASSUME NEW y \in QueueBytes(rest) PROVE \E x \in later : up[x] = y
    OBVIOUS
  <2>1. y[1] \in 1..(n - 1) /\ y[2] \in 1..rest[y[1]].size
    BY <1>5, <1>7
  <2>2. y[1] + 1 \in 2..n /\ (y[1] + 1) - 1 = y[1] /\ rest[y[1]] = frames[y[1] + 1]
    BY <1>1, <1>2, <2>1
  <2>3. <<y[1] + 1, y[2]>> \in later
    BY <1>6, <2>1, <2>2
  <2>4. up[<<y[1] + 1, y[2]>>] = y
    BY <1>7, <2>2, <2>3
  <2> QED
    BY <2>3, <2>4
<1>11. up \in Bijection(later, QueueBytes(rest))
  BY <1>8, <1>9, <1>10 DEF Bijection, Injection, Surjection, IsInjective
<1> HIDE DEF up
<1>12. IsFiniteSet(QueueBytes(rest)) /\ Cardinality(QueueBytes(rest)) = Cardinality(later)
  BY <1>4, <1>11, FS_Bijection DEF ExistsBijection
<1> DEFINE size == f.size
<1>13. size \in Nat /\ \A x \in later : x[1] # 1
  BY <1>2, FrameSizes DEF later
<1>14. QueueBytes(frames) = later \cup BytesOf(1, size)
  <2>1. 1 \in DOMAIN frames
    BY <1>1
  <2>2. \A x \in QueueBytes(frames) : x[1] = 1 <=> x \in BytesOf(1, size)
    BY <1>2 DEF QueueBytes, BytesOf
  <2>3. BytesOf(1, size) \subseteq QueueBytes(frames)
    BY <1>2, <2>1 DEF QueueBytes, BytesOf
  <2> QED
    BY <2>2, <2>3 DEF later
<1> HIDE DEF size
<1>15. /\ Cardinality(later) \in Nat
       /\ Cardinality(later \cup BytesOf(1, size)) = Cardinality(later) + size
  BY <1>4, <1>13, BytesAdded
<1>16. Bytes(frames) = Cardinality(QueueBytes(frames)) /\ Bytes(rest) = Cardinality(QueueBytes(rest))
  BY DEF Bytes, QueueBytes
<1>17. Bytes(rest) \in Nat /\ Bytes(rest) = Bytes(frames) - size
  BY <1>12, <1>13, <1>14, <1>15, <1>16
<1> QED
  BY <1>12, <1>17 DEF rest, f, size

-----------------------------------------------------------------------------
(* The frames of a stream are numbered, so that their order is a matter of counting *)

Counts(s, k) == \A i \in 1..k : s[i] = i

\* What the generator still has to yield.
Awaiting == Len(handed) + Len(queue)

\* Where frames may be: handed over only to a generator that has been woken by one, none
\* before the first wait or without a socket.
Places ==
  /\ handed # <<>> => gen = "woken"
  /\ gen = "woken" /\ handed = <<>> => queue = <<>> /\ closed
  /\ gen = "waiting" => queue = <<>> /\ ~closed
  /\ gen \in {"fresh", "factory", "connected"} => ~closed /\ ~terminal
  /\ gen \in {"fresh", "factory", "connected"} \/ (Ended /\ ~closed) =>
       Len(received) = 0 /\ Len(delivered) = 0 /\ queue = <<>>

\* What has been received is in its place: delivered, handed over or in the queue, and all of
\* it while the stream is open or its end has yet to be reached.
Numbered ==
  /\ Counts(received, Len(received)) /\ Counts(delivered, Len(delivered))
  /\ Len(delivered) <= Len(received)
  /\ ~Ended =>
       /\ Len(delivered) + Awaiting <= Len(received)
       /\ handed # <<>> => handed[1].n = Len(delivered) + 1
       /\ \A i \in 1..Len(queue) : queue[i].n = Len(delivered) + Len(handed) + i
  /\ ~closed \/ (~Ended /\ ~terminal /\ ~aborted) => Len(received) = Len(delivered) + Awaiting

FramesInv ==
  /\ StreamTypeOK /\ QueueBalanced /\ IsFiniteSet(QueueBytes(queue))
  /\ Places /\ Numbered

\* What has been sent: each frame as soon as it is yielded, and in the end perhaps an error.
Relayed ==
  /\ handler \in {"idle", "connecting"} => gen = "fresh" /\ sent = <<>>
  /\ handler = "iterating" =>
       /\ gen # "fresh" /\ Counts(sent, Len(sent))
       /\ Len(delivered) = Len(sent) + (IF gen = "yielded" THEN 1 ELSE 0)
       /\ gen = "done" /\ ~aborted => Len(sent) = Len(received)
  /\ \E k \in 0..Len(delivered) :
       /\ Counts(sent, k)
       /\ Len(sent) = k \/ (Len(sent) = k + 1 /\ sent[k + 1] = 0)
  /\ handler # "finished" => \A p \in pending : p.n \in 1..Len(sent)

\* The sends under way and what is counted of them.
Accounts ==
  /\ pending \subseteq [n : 0..MaxFrames, size : OutSizes] /\ IsFiniteSet(pending)
  /\ IsFiniteSet(PendingBytes(pending))
  /\ pendingEvents \in 0..QueuedEvents /\ pendingBytes \in 0..BufferedBytes
  /\ PendingBalanced

SendsInv ==
  /\ handler \in {"idle", "connecting", "iterating", "finished"}
  /\ ws \in {"open", "closing", "closed"}
  /\ overloaded \in BOOLEAN /\ attached \in BOOLEAN /\ sent \in Seq(0..MaxFrames)
  /\ Accounts /\ Relayed

LEMMA Lengths ==
  ASSUME FramesInv
  PROVE  /\ Len(queue) \in Nat /\ Len(received) \in Nat /\ Len(delivered) \in Nat
         /\ queue = <<>> <=> Len(queue) = 0
         /\ \A i \in 1..Len(queue) : queue[i] \in Frame
         /\ handed = <<>> => Len(handed) = 0
         /\ handed # <<>> => /\ Len(handed) = 1 /\ handed = <<handed[1]>>
                             /\ handed[1] \in Frame
         /\ MaxEvents \in Nat /\ MaxBytes \in Nat /\ MaxFrames \in Nat /\ Sizes \subseteq Nat
<1>1. queue \in Seq(Frame) /\ received \in Seq(1..MaxFrames) /\ delivered \in Seq(1..MaxFrames)
  BY DEF FramesInv, StreamTypeOK
<1>2. /\ Len(queue) \in Nat /\ Len(received) \in Nat /\ Len(delivered) \in Nat
      /\ queue = <<>> <=> Len(queue) = 0
      /\ \A i \in 1..Len(queue) : queue[i] \in Frame
  BY <1>1, LenProperties, EmptySeq, ElementOfSeq
<1>3. handed \in {<<>>} \cup {<<f>> : f \in Frame}
  BY DEF FramesInv, StreamTypeOK
<1>4. handed # <<>> => /\ Len(handed) = 1 /\ handed = <<handed[1]>> /\ handed[1] \in Frame
  BY <1>3
<1> QED
  BY <1>2, <1>4, StreamAssumption

\* A step that moves no frame and does not end the stream.
LEMMA FramesStay ==
  ASSUME FramesInv,
         UNCHANGED <<queue, queuedBytes, handed, received, delivered, terminal>>,
         upstream' \in {"none", "opening", "open", "closing", "closed"},
         aborted' \in BOOLEAN, closed' \in BOOLEAN, aborted => aborted',
         gen' \in {"fresh", "factory", "connected", "waiting", "woken", "yielded", "done", "thrown"},
         Places', closed' = closed \/ Len(received) = 0, ~Ended' => ~Ended
  PROVE  FramesInv'
<1> USE DEF FramesInv
<1>1. StreamTypeOK'
  BY DEF StreamTypeOK
<1>2. QueueBalanced' /\ IsFiniteSet(QueueBytes(queue))'
  BY DEF QueueBalanced
<1>3. Numbered'
  BY Lengths DEF Numbered, Awaiting, Counts, Places, Ended
<1> QED
  BY <1>1, <1>2, <1>3

LEMMA CountsOn ==
  ASSUME NEW s, NEW t, NEW n \in Nat, Counts(s, n), \A i \in 1..n : t[i] = s[i], t[n + 1] = n + 1
  PROVE  Counts(t, n + 1)
BY DEF Counts

\* The first next() and the factory: no frame has come yet.
LEMMA FactoryKeepsFrames ==
  ASSUME FramesInv, Begin \/ FactoryOpens \/ FactoryFails \/ FactoryCallback \/ Connected
  PROVE  FramesInv'
<1>1. /\ UNCHANGED <<queue, queuedBytes, handed, received, delivered, terminal, aborted>>
      /\ upstream' \in {"none", "opening", "open", "closing", "closed"}
      /\ aborted' \in BOOLEAN
  BY DEF Begin, FactoryOpens, FactoryFails, FactoryCallback, Connected, CloseSocket, FramesInv,
         StreamTypeOK
<1>2. /\ gen' \in {"fresh", "factory", "connected", "waiting", "woken", "yielded", "done", "thrown"}
      /\ closed' \in BOOLEAN
  BY DEF Begin, FactoryOpens, FactoryFails, FactoryCallback, Connected, FramesInv, StreamTypeOK
<1>3. /\ Places' /\ (closed' = closed \/ Len(received) = 0) /\ (~Ended' => ~Ended)
  BY <1>1, Lengths DEF Begin, FactoryOpens, FactoryFails, FactoryCallback, Connected, FramesInv,
                       Places, Ended
<1> QED
  BY <1>1, <1>2, <1>3, FramesStay

\* The stream ends, by an error or an abort, or with its frames left to the consumer.
LEMMA FinishKeepsFrames ==
  ASSUME FramesInv, NEW error \in BOOLEAN, NEW discard \in BOOLEAN,
         Listening, Finish(error, discard), UNCHANGED <<received, delivered>>,
         upstream' \in {"none", "opening", "open", "closing", "closed"},
         aborted' \in BOOLEAN, aborted => aborted',
         error \/ ~discard \/ aborted'
  PROVE  FramesInv'
<1> USE DEF FramesInv
<1>1. /\ closed' = TRUE /\ ~closed /\ terminal' = error
      /\ queue' = (IF discard THEN <<>> ELSE queue)
      /\ queuedBytes' = (IF discard THEN 0 ELSE queuedBytes)
      /\ gen' = (IF gen = "waiting" THEN "woken" ELSE gen)
      /\ handed' = (IF gen = "waiting" THEN <<>> ELSE handed)
      /\ gen \in {"waiting", "woken", "yielded"}
  BY DEF Finish, Listening
<1>2. StreamTypeOK'
  BY <1>1, EmptySeq DEF StreamTypeOK
<1>3. QueueBalanced' /\ IsFiniteSet(QueueBytes(queue))'
  <2>1. CASE discard
    <3>1. queue' = <<>> /\ queuedBytes' = 0 /\ Len(<<>>) = 0
      BY <1>1, <2>1, EmptySeq
    <3> QED
      BY <3>1, NoBytes, Lengths DEF QueueBalanced
  <2>2. CASE ~discard
    BY <1>1, <2>2 DEF QueueBalanced
  <2> QED
    BY <2>1, <2>2
<1>4. Places'
  BY <1>1 DEF Places, Ended
<1>5. Numbered'
  <2>1. Len(<<>>) = 0
    OBVIOUS
  <2>2. gen = "waiting" => handed = <<>>
    BY DEF Places
  <2>3. discard => terminal' \/ aborted'
    BY <1>1
  <2>4. /\ ~Ended /\ ~Ended' /\ Len(handed') = Len(handed)
        /\ handed' = handed
    BY <1>1, <2>2 DEF Ended
  <2>5. CASE discard
    BY <1>1, <2>1, <2>3, <2>4, <2>5, Lengths DEF Numbered, Awaiting, Counts
  <2>6. CASE ~discard
    BY <1>1, <2>4, <2>6, Lengths DEF Numbered, Awaiting, Counts
  <2> QED
    BY <2>5, <2>6
<1> QED
  BY <1>2, <1>3, <1>4, <1>5

\* The generator ends.
LEMMA EndKeepsFrames ==
  ASSUME FramesInv, NEW how \in {"done", "thrown"}, End(how), UNCHANGED received,
         aborted' \in BOOLEAN
  PROVE  FramesInv'
<1> USE DEF FramesInv
<1>1. /\ gen' = how /\ closed' = TRUE /\ handed' = <<>> /\ delivered' = delivered
      /\ \/ UNCHANGED <<queue, queuedBytes, terminal>>
         \/ queue' = <<>> /\ queuedBytes' = 0 /\ terminal' = FALSE
  BY DEF End
<1>2. StreamTypeOK'
  <2>1. upstream' \in {"none", "opening", "open", "closing", "closed"}
    BY DEF StreamTypeOK, End, CloseSocket
  <2>2. /\ queue \in Seq(Frame) /\ queuedBytes \in Nat /\ terminal \in BOOLEAN
        /\ received' \in Seq(1..MaxFrames) /\ delivered' \in Seq(1..MaxFrames)
    BY <1>1 DEF StreamTypeOK
  <2>3. queue' \in Seq(Frame) /\ queuedBytes' \in Nat /\ terminal' \in BOOLEAN
    <3>1. CASE UNCHANGED <<queue, queuedBytes, terminal>>
      BY <2>2, <3>1
    <3>2. CASE queue' = <<>> /\ queuedBytes' = 0 /\ terminal' = FALSE
      <4>1. queue' \in Seq(Frame)
        BY <3>2, EmptySeq
      <4> QED
        BY <3>2, <4>1
    <3> QED
      BY <1>1, <3>1, <3>2
  <2> QED
    BY <1>1, <2>1, <2>2, <2>3 DEF StreamTypeOK
<1>3. QueueBalanced' /\ IsFiniteSet(QueueBytes(queue))'
  <2>1. CASE queue' = <<>> /\ queuedBytes' = 0
    <3>1. Len(<<>>) = 0
      OBVIOUS
    <3> QED
      BY <2>1, <3>1, NoBytes, Lengths DEF QueueBalanced
  <2>2. CASE UNCHANGED <<queue, queuedBytes>>
    BY <2>2 DEF QueueBalanced
  <2> QED
    BY <1>1, <2>1, <2>2
<1>4. Places'
  BY <1>1 DEF Places, Ended
<1>5. Numbered'
  BY <1>1 DEF Numbered, Counts, Ended
<1> QED
  BY <1>2, <1>3, <1>4, <1>5

\* A frame is yielded that the generator has been handed.
LEMMA YieldHandedKeepsFrames ==
  ASSUME FramesInv, handed # <<>>, ~terminal, Yield(handed[1]),
         UNCHANGED <<queue, queuedBytes, aborted, received>>
  PROVE  FramesInv'
<1> USE DEF FramesInv
<1>1. /\ gen' = "yielded" /\ handed' = <<>> /\ delivered' = Append(delivered, handed[1].n)
      /\ UNCHANGED <<closed, terminal, upstream>> /\ gen = "woken"
  BY DEF Yield, Places
<1>2. /\ handed[1] \in Frame /\ handed[1].n \in 1..MaxFrames /\ Len(handed) = 1 /\ Len(<<>>) = 0
  BY Lengths, FrameSizes
<1>3. /\ delivered' \in Seq(1..MaxFrames) /\ Len(delivered') = Len(delivered) + 1
      /\ \A i \in 1..Len(delivered) : delivered'[i] = delivered[i]
      /\ delivered'[Len(delivered) + 1] = handed[1].n
  BY <1>1, <1>2, AppendProperties DEF StreamTypeOK
<1>4. StreamTypeOK'
  BY <1>1, <1>3 DEF StreamTypeOK
<1>5. QueueBalanced' /\ IsFiniteSet(QueueBytes(queue))'
  BY DEF QueueBalanced
<1>6. Places'
  BY <1>1 DEF Places, Ended
<1>7. Numbered'
  <2>1. ~Ended /\ ~Ended'
    BY <1>1 DEF Ended
  <2>2. handed[1].n = Len(delivered) + 1 /\ Len(delivered) + 1 + Len(queue) <= Len(received)
    BY <1>2, <2>1 DEF Numbered, Awaiting
  <2>3. Counts(delivered, Len(delivered))'
    BY <1>3, <2>2, Lengths DEF Numbered, Counts
  <2>4. /\ Counts(received, Len(received))'
        /\ Len(delivered') <= Len(received')
        /\ \A i \in 1..Len(queue') : queue'[i].n = Len(delivered') + Len(handed') + i
    BY <1>1, <1>2, <1>3, <2>1, <2>2, Lengths DEF Numbered, Counts
  <2> QED
    BY <1>1, <1>2, <1>3, <2>1, <2>2, <2>3, <2>4, Lengths DEF Numbered, Awaiting
<1> QED
  BY <1>4, <1>5, <1>6, <1>7

\* A frame is yielded that has waited in the queue.
LEMMA YieldQueuedKeepsFrames ==
  ASSUME FramesInv, gen = "yielded", queue # <<>>, Yield(Head(queue)),
         queue' = Tail(queue), queuedBytes' = queuedBytes - Head(queue).size,
         UNCHANGED <<aborted, received>>
  PROVE  FramesInv'
<1> USE DEF FramesInv
<1>1. /\ gen' = "yielded" /\ handed' = <<>> /\ delivered' = Append(delivered, Head(queue).n)
      /\ UNCHANGED <<closed, terminal, upstream>> /\ handed = <<>> /\ Len(<<>>) = 0
  BY DEF Yield, Places
<1>2. queue \in Seq(Frame)
  BY DEF StreamTypeOK
<1>3. /\ Head(queue) \in Frame /\ Head(queue) = queue[1]
      /\ queue' \in Seq(Frame) /\ Len(queue') = Len(queue) - 1
      /\ \A i \in 1..Len(queue') : queue'[i] = queue[i + 1]
  BY <1>2, HeadTailProperties
<1>4. Head(queue).n \in 1..MaxFrames /\ Len(queue) \in Nat /\ Len(queue) >= 1
  BY <1>3, FrameSizes, Lengths
<1>5. /\ delivered' \in Seq(1..MaxFrames) /\ Len(delivered') = Len(delivered) + 1
      /\ \A i \in 1..Len(delivered) : delivered'[i] = delivered[i]
      /\ delivered'[Len(delivered) + 1] = queue[1].n
  BY <1>1, <1>3, <1>4, AppendProperties DEF StreamTypeOK
<1>6. QueueBalanced' /\ IsFiniteSet(QueueBytes(queue))' /\ queuedBytes' \in Nat
  <2>1. /\ IsFiniteSet(QueueBytes(queue')) /\ Bytes(queue') \in Nat
        /\ Bytes(queue') = Bytes(queue) - Head(queue).size
    BY <1>2, BytesOfTail
  <2>2. Head(queue).size \in Nat
    BY <1>3, FrameSizes
  <2>3. /\ queuedBytes \in Nat /\ queuedBytes = Bytes(queue) /\ queuedBytes <= MaxBytes
        /\ Len(queue) <= MaxEvents /\ MaxBytes \in Nat /\ MaxEvents \in Nat
    BY Lengths DEF QueueBalanced, StreamTypeOK
  <2>4. queuedBytes' = Bytes(queue') /\ queuedBytes' \in Nat
    BY <2>1, <2>3
  <2>5. queuedBytes' <= queuedBytes
    BY <2>2, <2>3
  <2>6. queuedBytes' <= MaxBytes
    BY <2>3, <2>4, <2>5
  <2>7. Len(queue') <= MaxEvents
    BY <1>3, <1>4, <2>3
  <2> QED
    BY <2>1, <2>4, <2>6, <2>7 DEF QueueBalanced
<1>7. StreamTypeOK'
  BY <1>1, <1>3, <1>5, <1>6 DEF StreamTypeOK
<1>8. Places'
  BY <1>1 DEF Places, Ended
<1>9. Numbered'
  <2>1. ~Ended /\ ~Ended'
    BY <1>1 DEF Ended
  <2>2. /\ queue[1].n = Len(delivered) + 1 /\ Len(delivered) + Len(queue) <= Len(received)
        /\ \A i \in 1..Len(queue) : queue[i].n = Len(delivered) + i
    BY <1>1, <1>4, <2>1, Lengths DEF Numbered, Awaiting
  <2>3. Counts(delivered, Len(delivered))'
    <3>1. Counts(delivered, Len(delivered)) /\ Len(delivered) \in Nat
      BY Lengths DEF Numbered
    <3>2. Counts(delivered', Len(delivered) + 1)
      BY <1>5, <2>2, <3>1, CountsOn
    <3> QED
      BY <1>5, <3>2
  <2>4. \A i \in 1..Len(queue') : queue'[i].n = Len(delivered') + i
    <3> SUFFICES ASSUME NEW i \in 1..Len(queue') PROVE queue'[i].n = Len(delivered') + i
      OBVIOUS
    <3>1. i + 1 \in 1..Len(queue)
      BY <1>3, <1>4
    <3> QED
      BY <1>3, <1>5, <2>2, <3>1, Lengths
  <2>5. /\ Counts(received, Len(received))'
        /\ Len(delivered') <= Len(received')
    BY <1>4, <1>5, <2>2, Lengths DEF Numbered, Counts
  <2>6. /\ Len(delivered') + Awaiting' = Len(delivered) + Awaiting
        /\ Awaiting' = Len(queue')
    BY <1>1, <1>3, <1>4, <1>5, Lengths DEF Awaiting
  <2>7. /\ Len(delivered) + Awaiting <= Len(received)
        /\ ~closed \/ (~terminal /\ ~aborted) => Len(received) = Len(delivered) + Awaiting
    BY <2>1 DEF Numbered
  <2>8. /\ Len(delivered') + Awaiting' <= Len(received')
        /\ ~closed' \/ (~terminal' /\ ~aborted') => Len(received') = Len(delivered') + Awaiting'
        /\ Len(handed') = 0
    BY <1>1, <2>6, <2>7
  <2>9. \A i \in 1..Len(queue') : queue'[i].n = Len(delivered') + Len(handed') + i
    BY <1>5, <2>4, <2>8, Lengths
  <2> QED
    BY <1>1, <2>3, <2>5, <2>8, <2>9 DEF Numbered
<1> QED
  BY <1>6, <1>7, <1>8, <1>9

\* A frame comes in and there is room for it.
LEMMA PushKeepsFrames ==
  ASSUME FramesInv, NEW size \in Sizes, NEW good \in BOOLEAN, Listening, Room(size),
         Len(received) < MaxFrames,
         Push([n |-> Len(received) + 1, size |-> size, good |-> good]),
         UNCHANGED <<aborted, delivered>>
  PROVE  FramesInv'
<1> DEFINE f == [n |-> Len(received) + 1, size |-> size, good |-> good]
<1> USE DEF FramesInv
<1>1. Len(received) + 1 \in 1..MaxFrames
  BY Lengths
<1>2. f \in Frame /\ f.n = Len(received) + 1 /\ f.size = size /\ size \in Nat
  BY <1>1, StreamAssumption DEF Frame
<1> HIDE DEF f
<1>3. /\ \/ /\ gen = "waiting" /\ gen' = "woken" /\ handed' = <<f>>
            /\ UNCHANGED <<queue, queuedBytes>>
         \/ /\ gen # "waiting" /\ queue' = Append(queue, f) /\ queuedBytes' = queuedBytes + size
            /\ UNCHANGED <<gen, handed>>
      /\ received' = Append(received, Len(received) + 1)
      /\ UNCHANGED <<closed, terminal, upstream, aborted, delivered>>
  BY <1>2 DEF Push, f
<1>4. gen \in {"waiting", "woken", "yielded"} /\ ~closed /\ ~Ended
  BY DEF Listening, Ended
<1>5. /\ received' \in Seq(1..MaxFrames) /\ Len(received') = Len(received) + 1
      /\ \A i \in 1..Len(received) : received'[i] = received[i]
      /\ received'[Len(received) + 1] = Len(received) + 1
  <2>1. received \in Seq(1..MaxFrames)
    BY DEF StreamTypeOK
  <2> QED
    BY <1>1, <1>3, <2>1, AppendProperties
<1>6. Counts(received', Len(received'))
  <2>1. Counts(received, Len(received)) /\ Len(received) \in Nat
    BY Lengths DEF Numbered
  <2>2. Counts(received', Len(received) + 1)
    BY <1>5, <2>1, CountsOn
  <2> QED
    BY <1>5, <2>2
<1>7. /\ Len(received) = Len(delivered) + Awaiting
      /\ Counts(delivered, Len(delivered))
      /\ Len(delivered) <= Len(received)
      /\ handed # <<>> => handed[1].n = Len(delivered) + 1
      /\ \A i \in 1..Len(queue) : queue[i].n = Len(delivered) + Len(handed) + i
  BY <1>4 DEF Numbered
<1>8. CASE gen = "waiting"
  <2>1. /\ gen' = "woken" /\ handed' = <<f>> /\ UNCHANGED <<queue, queuedBytes>>
        /\ queue = <<>> /\ handed = <<>>
    BY <1>3, <1>8 DEF Places
  <2>2. StreamTypeOK'
    BY <1>2, <1>3, <1>5, <2>1 DEF StreamTypeOK
  <2>3. QueueBalanced' /\ IsFiniteSet(QueueBytes(queue))'
    BY <2>1 DEF QueueBalanced
  <2>4. Places'
    BY <1>3, <1>4, <2>1 DEF Places, Ended
  <2>5. Numbered'
    <3>1. /\ Len(handed) = 0 /\ Len(handed') = 1 /\ handed'[1] = f /\ Len(queue) = 0
          /\ Len(queue') = 0
      BY <2>1
    <3>2. Len(received) = Len(delivered) /\ f.n = Len(delivered) + 1 /\ Awaiting' = 1
      BY <1>2, <1>7, <3>1, Lengths DEF Awaiting
    <3>3. /\ Len(received') = Len(delivered') + Awaiting'
          /\ handed'[1].n = Len(delivered') + 1
          /\ Len(delivered') <= Len(received')
          /\ Counts(delivered', Len(delivered'))
          /\ Len(received') \in Nat
      BY <1>3, <1>5, <1>7, <3>1, <3>2, Lengths
    <3> QED
      BY <1>6, <3>1, <3>3 DEF Numbered
  <2> QED
    BY <2>2, <2>3, <2>4, <2>5
<1>9. CASE gen # "waiting"
  <2>1. queue' = Append(queue, f) /\ queuedBytes' = queuedBytes + size /\ UNCHANGED <<gen, handed>>
    BY <1>3, <1>9
  <2>2. queue \in Seq(Frame) /\ queuedBytes \in Nat
    BY DEF StreamTypeOK
  <2>3. /\ queue' \in Seq(Frame) /\ Len(queue') = Len(queue) + 1
        /\ \A i \in 1..Len(queue) : queue'[i] = queue[i]
        /\ queue'[Len(queue) + 1] = f
    BY <1>2, <2>1, <2>2, AppendProperties
  <2>4. queuedBytes' \in Nat
    BY <1>2, <2>1, <2>2
  <2>5. StreamTypeOK'
    BY <1>3, <1>5, <2>1, <2>3, <2>4 DEF StreamTypeOK
  <2>6. QueueBalanced' /\ IsFiniteSet(QueueBytes(queue))'
    <3>1. /\ IsFiniteSet(QueueBytes(queue')) /\ Bytes(queue) \in Nat
          /\ Bytes(queue') = Bytes(queue) + f.size
      BY <1>2, <2>1, <2>2, BytesAppended
    <3>2. queuedBytes' = Bytes(queue')
      BY <1>2, <2>1, <3>1 DEF QueueBalanced
    <3>3. queuedBytes' <= MaxBytes /\ Len(queue') <= MaxEvents
      BY <1>2, <2>1, <2>2, <2>3, Lengths DEF Room
    <3> QED
      BY <3>1, <3>2, <3>3 DEF QueueBalanced
  <2>7. Places'
    BY <1>3, <1>4, <1>9, <2>1 DEF Places, Ended
  <2>8. Numbered'
    <3>1. Len(handed) \in Nat
      BY Lengths
    <3>2. Awaiting' = Awaiting + 1
      BY <2>1, <2>3, <3>1, Lengths DEF Awaiting
    <3>3. /\ Len(received') = Len(delivered') + Awaiting'
          /\ Len(delivered') <= Len(received')
          /\ Counts(delivered', Len(delivered'))
          /\ Len(received') \in Nat
      BY <1>3, <1>5, <1>7, <3>1, <3>2, Lengths DEF Awaiting
    <3>4. \A i \in 1..Len(queue') : queue'[i].n = Len(delivered') + Len(handed') + i
      <4>1. f.n = Len(delivered) + Len(handed) + (Len(queue) + 1)
        BY <1>2, <1>7, <3>1, Lengths DEF Awaiting
      <4>2. \A i \in 1..Len(queue') : i \in 1..Len(queue) \/ i = Len(queue) + 1
        BY <2>3, Lengths
      <4>3. Len(delivered') = Len(delivered) /\ Len(handed') = Len(handed)
        BY <1>3, <2>1
      <4> HIDE DEF FramesInv
      <4> QED
        BY <1>7, <2>3, <4>1, <4>2, <4>3
    <3> QED
      BY <1>3, <1>6, <1>7, <2>1, <3>3, <3>4 DEF Numbered
  <2> QED
    BY <2>5, <2>6, <2>7, <2>8
<1> QED
  BY <1>8, <1>9

\* The next event is asked for, or the generator returned.
LEMMA PullKeepsFrames ==
  ASSUME FramesInv, Pull
  PROVE  FramesInv'
<1>1. /\ gen = "yielded" /\ UNCHANGED <<aborted, received>> /\ aborted' \in BOOLEAN
  BY DEF Pull, Loop, FramesInv, StreamTypeOK
<1>2. CASE \E how \in {"done", "thrown"} : End(how)
  BY <1>1, <1>2, EndKeepsFrames
<1>3. CASE queue # <<>> /\ Yield(Head(queue))
           /\ queue' = Tail(queue) /\ queuedBytes' = queuedBytes - Head(queue).size
  BY <1>1, <1>3, YieldQueuedKeepsFrames
<1>4. CASE /\ queue = <<>> /\ ~closed /\ gen' = "waiting"
           /\ UNCHANGED <<queue, queuedBytes, closed, terminal, handed, upstream, delivered>>
  <2>1. /\ upstream' \in {"none", "opening", "open", "closing", "closed"}
        /\ closed' \in BOOLEAN
    BY <1>4 DEF FramesInv, StreamTypeOK
  <2>2. Places' /\ ~Ended
    BY <1>1, <1>4 DEF FramesInv, Places, Ended
  <2> QED
    BY <1>1, <1>4, <2>1, <2>2, FramesStay
<1> QED
  BY <1>2, <1>3, <1>4 DEF Pull, Loop

LEMMA ResumeKeepsFrames ==
  ASSUME FramesInv, Resume
  PROVE  FramesInv'
<1>1. UNCHANGED <<aborted, received>> /\ aborted' \in BOOLEAN
  BY DEF Resume, FramesInv, StreamTypeOK
<1>2. CASE \E how \in {"done", "thrown"} : End(how)
  BY <1>1, <1>2, EndKeepsFrames
<1>3. CASE handed # <<>> /\ ~terminal /\ Yield(handed[1]) /\ UNCHANGED <<queue, queuedBytes>>
  BY <1>1, <1>3, YieldHandedKeepsFrames
<1> QED
  BY <1>2, <1>3 DEF Resume

\* The socket and the signal.
LEMMA SocketKeepsFrames ==
  ASSUME FramesInv,
         RemoteCloses \/ RemoteFails \/ Abort
         \/ \E size \in Sizes, good \in BOOLEAN : Message(size, good)
  PROVE  FramesInv'
<1>1. /\ upstream' \in {"none", "opening", "open", "closing", "closed"}
      /\ aborted' \in BOOLEAN /\ (aborted => aborted')
  BY DEF RemoteCloses, RemoteFails, Abort, Message, CloseSocket, Push, FramesInv, StreamTypeOK
<1>2. CASE /\ UNCHANGED <<queue, queuedBytes, handed, received, delivered, terminal, closed>>
           /\ gen' = gen \/ (gen = "factory" /\ gen' = "done" /\ aborted')
  <2>1. Places' /\ (~Ended' => ~Ended)
    BY <1>2, Lengths DEF FramesInv, Places, Ended
  <2>2. /\ closed' \in BOOLEAN
        /\ gen' \in {"fresh", "factory", "connected", "waiting", "woken", "yielded", "done",
                     "thrown"}
    BY <1>2 DEF FramesInv, StreamTypeOK
  <2> QED
    BY <1>1, <1>2, <2>1, <2>2, FramesStay
<1>3. CASE RemoteCloses
  <2>1. CASE Listening
    BY <1>1, <1>3, <2>1, FinishKeepsFrames DEF RemoteCloses
  <2>2. CASE ~Listening
    BY <1>2, <1>3, <2>2 DEF RemoteCloses
  <2> QED
    BY <2>1, <2>2
<1>4. CASE RemoteFails
  BY <1>1, <1>4, FinishKeepsFrames DEF RemoteFails
<1>5. CASE Abort
  <2>1. CASE Listening /\ ~aborted
    BY <1>1, <1>5, <2>1, FinishKeepsFrames DEF Abort
  <2>2. CASE ~(Listening /\ ~aborted)
    BY <1>2, <1>5, <2>2 DEF Abort
  <2> QED
    BY <2>1, <2>2
<1>6. ASSUME NEW size \in Sizes, NEW good \in BOOLEAN, Message(size, good)
      PROVE  FramesInv'
  <2>1. CASE Room(size)
    BY <1>6, <2>1, PushKeepsFrames DEF Message
  <2>2. CASE ~Room(size)
    BY <1>1, <1>6, <2>2, FinishKeepsFrames DEF Message
  <2> QED
    BY <2>1, <2>2
<1> QED
  BY <1>3, <1>4, <1>5, <1>6

LEMMA FramesKept ==
  ASSUME FramesInv, [Next]_vars
  PROVE  FramesInv'
<1>1. CASE UNCHANGED streamVars
  BY <1>1 DEF FramesInv, StreamTypeOK, QueueBalanced, Bytes, QueueBytes, Places, Numbered, Ended,
              Awaiting, Counts, streamVars
<1>2. CASE StreamStep
  BY <1>2, FactoryKeepsFrames, ResumeKeepsFrames, SocketKeepsFrames DEF StreamStep
<1>3. CASE Abort
  BY <1>3, SocketKeepsFrames
<1>4. CASE Connect
  BY <1>4, FactoryKeepsFrames DEF Connect
<1>5. CASE Relay
  <2>1. aborted \in BOOLEAN
    BY DEF FramesInv, StreamTypeOK
  <2>2. CASE Pull
    BY <2>2, PullKeepsFrames
  <2>3. CASE End("done") /\ UNCHANGED received /\ aborted' \in BOOLEAN
    BY <2>3, EndKeepsFrames
  <2> QED
    BY <1>5, <2>1, <2>2, <2>3 DEF Relay, Return
<1>6. CASE LeaveLoop
  <2>1. UNCHANGED <<upstream, gen, queue, queuedBytes, closed, terminal, handed, received, delivered>>
    BY <1>6 DEF LeaveLoop
  <2>2. aborted' = aborted \/ aborted' = TRUE
    BY <1>6 DEF LeaveLoop
  <2>3. Places' /\ aborted' \in BOOLEAN /\ (~Ended' => ~Ended)
    BY <2>1, <2>2 DEF FramesInv, Places, Ended, StreamTypeOK
  <2>4. /\ upstream' \in {"none", "opening", "open", "closing", "closed"}
        /\ gen' \in {"fresh", "factory", "connected", "waiting", "woken", "yielded", "done", "thrown"}
        /\ closed' \in BOOLEAN
    BY <2>1 DEF FramesInv, StreamTypeOK
  <2> QED
    BY <2>1, <2>2, <2>3, <2>4, FramesStay
<1>7. ASSUME NEW p \in pending, NEW failed \in BOOLEAN, Complete(p, failed)
      PROVE  FramesInv'
  BY <1>1, <1>3, <1>7 DEF Complete
<1> QED
  BY <1>1, <1>2, <1>3, <1>4, <1>5, <1>6, <1>7
     DEF Next, Open, ClientCloses, OnClose, RequestAborts, vars

-----------------------------------------------------------------------------
(* What the handler sees of the generator *)

\* A step that is not the handler's may yield a frame when none is yielded.
LEMMA StreamGoesOn ==
  ASSUME FramesInv, StreamStep \/ Abort
  PROVE  /\ gen = "fresh" <=> gen' = "fresh"
         /\ \/ delivered' = delivered /\ (gen' = "yielded" <=> gen = "yielded")
            \/ gen # "yielded" /\ gen' = "yielded" /\ Len(delivered') = Len(delivered) + 1
         /\ gen' = "done" /\ ~aborted' =>
              \/ gen = "done" /\ received' = received /\ ~aborted
              \/ Len(received') = Len(delivered')
<1> USE DEF FramesInv
<1>1. CASE FactoryOpens \/ FactoryFails \/ FactoryCallback \/ Connected
  BY <1>1, Lengths DEF FactoryOpens, FactoryFails, FactoryCallback, Connected, Places, Ended
<1>2. CASE Resume
  <2>1. CASE \E how \in {"done", "thrown"} : End(how)
    <3>1. /\ gen = "woken" /\ gen' \in {"done", "thrown"}
          /\ UNCHANGED <<delivered, received, aborted>>
      BY <1>2, <2>1 DEF Resume, End
    <3>2. gen' = "done" => ~terminal /\ handed = <<>>
      BY <1>2 DEF Resume, End, Yield
    <3>3. gen' = "done" /\ ~aborted => Len(received) = Len(delivered)
      BY <3>1, <3>2, Lengths DEF Places, Numbered, Awaiting, Ended
    <3> QED
      BY <3>1, <3>3
  <2>2. CASE handed # <<>> /\ Yield(handed[1])
    <3>1. /\ gen = "woken" /\ gen' = "yielded" /\ delivered' = Append(delivered, handed[1].n)
          /\ UNCHANGED <<received, aborted>>
      BY <1>2, <2>2 DEF Resume, Yield
    <3>2. handed[1].n \in 1..MaxFrames /\ delivered \in Seq(1..MaxFrames)
      BY <2>2, Lengths, FrameSizes DEF StreamTypeOK
    <3>3. Len(delivered') = Len(delivered) + 1
      BY <3>1, <3>2, AppendProperties
    <3> QED
      BY <3>1, <3>3
  <2> QED
    BY <1>2, <2>1, <2>2 DEF Resume
<1>3. ASSUME NEW size \in Sizes, NEW good \in BOOLEAN, Message(size, good)
      PROVE  /\ delivered' = delivered /\ (gen' = gen \/ (gen = "waiting" /\ gen' = "woken"))
             /\ gen # "done"
  BY <1>3 DEF Message, Push, Finish, Listening
<1>4. CASE RemoteCloses \/ RemoteFails
  BY <1>4 DEF RemoteCloses, RemoteFails, Finish, Listening
<1>5. CASE Abort
  BY <1>5 DEF Abort, Finish, Listening
<1> QED
  BY <1>1, <1>2, <1>3, <1>4, <1>5 DEF StreamStep

\* The handler asks for the next event.
LEMMA PullGoesOn ==
  ASSUME FramesInv, Pull
  PROVE  /\ gen' # "fresh" /\ UNCHANGED <<received, aborted>>
         /\ \/ delivered' = delivered /\ gen' # "yielded"
            \/ gen' = "yielded" /\ Len(delivered') = Len(delivered) + 1
         /\ gen' = "done" /\ ~aborted' => Len(received') = Len(delivered')
<1> USE DEF FramesInv
<1>1. gen = "yielded" /\ UNCHANGED <<received, aborted>> /\ handed = <<>>
  BY DEF Pull, Loop, Places
<1>2. CASE \E how \in {"done", "thrown"} : End(how)
  <2>1. gen' \in {"done", "thrown"} /\ delivered' = delivered
    BY <1>2 DEF End
  <2>2. gen' = "done" => ~terminal /\ queue = <<>>
    BY DEF Pull, Loop, End, Yield
  <2>3. gen' = "done" /\ ~aborted => Len(received) = Len(delivered)
    BY <1>1, <2>1, <2>2, Lengths DEF Numbered, Awaiting, Ended
  <2> QED
    BY <1>1, <2>1, <2>3
<1>3. CASE queue # <<>> /\ Yield(Head(queue))
  <2>1. queue \in Seq(Frame) /\ delivered \in Seq(1..MaxFrames)
    BY DEF StreamTypeOK
  <2>2. Head(queue).n \in 1..MaxFrames
    BY <1>3, <2>1, HeadTailProperties, FrameSizes
  <2>3. Len(delivered') = Len(delivered) + 1 /\ gen' = "yielded"
    BY <1>3, <2>1, <2>2, AppendProperties DEF Yield
  <2> QED
    BY <1>1, <2>3
<1>4. CASE gen' = "waiting" /\ UNCHANGED delivered
  BY <1>1, <1>4
<1> QED
  BY <1>2, <1>3, <1>4 DEF Pull, Loop

-----------------------------------------------------------------------------
(* The sends *)

\* A send that is not under way already is added to the books.
LEMMA SentIsCounted ==
  ASSUME Accounts, sent \in Seq(0..MaxFrames), NEW size \in OutSizes, Fits(size),
         NEW n \in 0..MaxFrames, \A p \in pending : p.n # n, Sent(n, size)
  PROVE  /\ Accounts'
         /\ sent' \in Seq(0..MaxFrames) /\ Len(sent) \in Nat /\ Len(sent') = Len(sent) + 1
         /\ \A i \in 1..Len(sent) : sent'[i] = sent[i]
         /\ sent'[Len(sent) + 1] = n
         /\ pending' = pending \cup {[n |-> n, size |-> size]}
<1> DEFINE q == [n |-> n, size |-> size]
<1>1. /\ pending' = pending \cup {q} /\ q \in [n : 0..MaxFrames, size : OutSizes]
      /\ q.n = n /\ q.size = size /\ q \notin pending
      /\ pendingEvents' = pendingEvents + 1 /\ pendingBytes' = pendingBytes + size
      /\ sent' = Append(sent, n)
  BY DEF Sent
<1> HIDE DEF q
<1>2. size \in Nat /\ QueuedEvents \in Nat /\ BufferedBytes \in Nat
  BY SocketAssumption
<1>3. IsFiniteSet(pending') /\ Cardinality(pending') = Cardinality(pending) + 1
  BY <1>1, FS_AddElement DEF Accounts
<1>4. /\ IsFiniteSet(PendingBytes(pending'))
      /\ Cardinality(PendingBytes(pending')) = Cardinality(PendingBytes(pending)) + size
  <2>1. q.size \in Nat /\ IsFiniteSet(PendingBytes(pending))
    BY <1>1, <1>2 DEF Accounts
  <2> QED
    BY <1>1, <2>1, PendingBytesAdded
<1>5. PendingBalanced'
  BY <1>1, <1>3, <1>4 DEF Accounts, PendingBalanced, PendingBytes
<1>6. pendingEvents' \in 0..QueuedEvents /\ pendingBytes' \in 0..BufferedBytes
  BY <1>1, <1>2 DEF Accounts, Fits
<1>7. /\ sent' \in Seq(0..MaxFrames) /\ Len(sent) \in Nat /\ Len(sent') = Len(sent) + 1
      /\ \A i \in 1..Len(sent) : sent'[i] = sent[i]
      /\ sent'[Len(sent) + 1] = n
  BY <1>1, AppendProperties, LenProperties
<1>8. Accounts'
  BY <1>1, <1>3, <1>4, <1>5, <1>6 DEF Accounts
<1> QED
  BY <1>1, <1>7, <1>8 DEF q

\* A send is taken out of the books.
LEMMA CompletedIsCounted ==
  ASSUME Accounts, NEW p \in pending, NEW failed \in BOOLEAN, Complete(p, failed)
  PROVE  Accounts'
<1>1. /\ pending' = pending \ {p}
      /\ pendingEvents' = pendingEvents - 1 /\ pendingBytes' = pendingBytes - p.size
      /\ p.size \in Nat
  BY SocketAssumption DEF Complete, Accounts
<1>2. /\ IsFiniteSet(pending') /\ Cardinality(pending') = Cardinality(pending) - 1
      /\ Cardinality(pending') \in Nat
  BY <1>1, FS_RemoveElement, FS_CardinalityType DEF Accounts
<1>3. /\ IsFiniteSet(PendingBytes(pending')) /\ Cardinality(PendingBytes(pending')) \in Nat
      /\ Cardinality(PendingBytes(pending')) = Cardinality(PendingBytes(pending)) - p.size
  <2>1. IsFiniteSet(PendingBytes(pending))
    BY DEF Accounts
  <2> QED
    BY <1>1, <2>1, PendingBytesRemoved
<1>4. PendingBalanced'
  BY <1>1, <1>2, <1>3 DEF Accounts, PendingBalanced, PendingBytes
<1>5. pendingEvents' \in 0..QueuedEvents /\ pendingBytes' \in 0..BufferedBytes
  BY <1>1, <1>2, <1>3, <1>4, SocketAssumption DEF Accounts, PendingBalanced, PendingBytes
<1> QED
  BY <1>1, <1>2, <1>3, <1>4, <1>5 DEF Accounts

\* The handler stays where it is, and sends nothing.
LEMMA RelayedStays ==
  ASSUME FramesInv, SendsInv, UNCHANGED <<handler, sent>>, pending' \subseteq pending,
         UNCHANGED streamVars \/ StreamStep \/ Abort
  PROVE  Relayed'
<1>1. Len(sent) \in Nat /\ Len(delivered) \in Nat
  BY Lengths, LenProperties DEF SendsInv
<1>2. /\ gen = "fresh" <=> gen' = "fresh"
      /\ \/ delivered' = delivered /\ (gen' = "yielded" <=> gen = "yielded")
         \/ gen # "yielded" /\ gen' = "yielded" /\ Len(delivered') = Len(delivered) + 1
      /\ gen' = "done" /\ ~aborted' =>
           \/ gen = "done" /\ received' = received /\ ~aborted
           \/ Len(received') = Len(delivered')
  BY StreamGoesOn DEF streamVars
<1>3. 0..Len(delivered) \subseteq 0..Len(delivered')
  BY <1>1, <1>2
<1>4. CASE handler = "iterating"
  <2>1. /\ gen # "fresh" /\ Counts(sent, Len(sent))
        /\ Len(delivered) = Len(sent) + (IF gen = "yielded" THEN 1 ELSE 0)
        /\ gen = "done" /\ ~aborted => Len(sent) = Len(received)
    BY <1>4 DEF SendsInv, Relayed
  <2>2. Len(delivered') = Len(sent') + (IF gen' = "yielded" THEN 1 ELSE 0)
    BY <1>1, <1>2, <2>1
  <2>3. gen' = "done" /\ ~aborted' => Len(sent') = Len(received')
    BY <1>1, <1>2, <2>1, <2>2
  <2> QED
    BY <1>2, <1>3, <1>4, <2>1, <2>2, <2>3 DEF SendsInv, Relayed, Counts
<1>5. CASE handler # "iterating"
  BY <1>2, <1>3, <1>5 DEF SendsInv, Relayed, Counts
<1> QED
  BY <1>4, <1>5

\* The handler sends nothing and leaves, or goes from one state to the next.
LEMMA RelayedOnLeaving ==
  ASSUME Relayed, UNCHANGED <<delivered, sent>>, handler' = "finished"
  PROVE  Relayed'
BY DEF Relayed, Counts

LEMMA OpenAndConnectKeepSends ==
  ASSUME FramesInv, SendsInv, Open \/ Connect
  PROVE  SendsInv'
<1>1. /\ UNCHANGED <<pending, pendingEvents, pendingBytes, sent, overloaded, delivered>>
      /\ handler' \in {"connecting", "iterating", "finished"}
      /\ ws' \in {"open", "closing", "closed"} /\ attached' \in BOOLEAN
  BY DEF Open, Connect, Begin, Leave, NotSent, SendsInv, streamVars
<1>2. Accounts'
  BY <1>1 DEF SendsInv, Accounts, PendingBytes, PendingBalanced
<1>3. Relayed'
  <2>1. CASE handler' = "finished"
    BY <1>1, <2>1, RelayedOnLeaving DEF SendsInv
  <2>2. CASE handler' = "connecting"
    <3>1. handler = "idle" /\ UNCHANGED gen
      BY <2>2 DEF Open, Connect, Leave, streamVars
    <3> QED
      BY <1>1, <2>2, <3>1 DEF SendsInv, Relayed, Counts
  <2>3. CASE handler' = "iterating"
    <3>1. /\ handler = "connecting" /\ gen = "fresh" /\ gen' \notin {"fresh", "yielded"}
          /\ UNCHANGED received
      BY <2>3 DEF Open, Connect, Begin, Leave
    <3>2. Len(sent) = 0 /\ Len(delivered) = 0 /\ Len(received) = 0
      BY <3>1 DEF SendsInv, Relayed, FramesInv, Places
    <3> QED
      BY <1>1, <2>3, <3>1, <3>2 DEF SendsInv, Relayed, Counts
  <2> QED
    BY <1>1, <2>1, <2>2, <2>3
<1> QED
  BY <1>1, <1>2, <1>3 DEF SendsInv

LEMMA RelayKeepsSends ==
  ASSUME FramesInv, SendsInv, Relay
  PROVE  SendsInv'
<1>1. handler = "iterating" /\ gen = "yielded"
  BY DEF Relay
<1>2. /\ handler' \in {"iterating", "finished"} /\ ws' \in {"open", "closing", "closed"}
      /\ overloaded' \in BOOLEAN /\ attached' \in BOOLEAN
  BY <1>1 DEF Relay, Leave, CloseSlow, SendsInv
<1>3. /\ Len(sent) \in Nat /\ Len(delivered) = Len(sent) + 1 /\ Counts(sent, Len(sent))
      /\ \A p \in pending : p.n \in 1..Len(sent)
  BY <1>1, LenProperties DEF SendsInv, Relayed
<1>4. CASE /\ NotSent /\ handler' = "finished" /\ UNCHANGED delivered
  <2>1. Accounts' /\ sent' = sent
    BY <1>4 DEF NotSent, SendsInv, Accounts, PendingBytes, PendingBalanced
  <2>2. Relayed'
    BY <1>4, <2>1, RelayedOnLeaving DEF SendsInv
  <2> QED
    BY <1>2, <2>1, <2>2 DEF SendsInv
<1>5. ASSUME NEW size \in OutSizes, Fits(size), Sent(Last(delivered), size),
             \/ Pull /\ UNCHANGED handler
             \/ handler' = "finished" /\ UNCHANGED delivered
      PROVE  SendsInv'
  <2> DEFINE n == Len(sent)
  <2>1. Last(delivered) = n + 1 /\ n \in Nat /\ Last(delivered) \in 0..MaxFrames
    <3>1. delivered \in Seq(1..MaxFrames) /\ Len(delivered) \in 1..Len(delivered)
      BY <1>3 DEF FramesInv, StreamTypeOK
    <3>2. delivered[Len(delivered)] = Len(delivered)
      BY <3>1 DEF FramesInv, Numbered, Counts
    <3>3. delivered[Len(delivered)] \in 1..MaxFrames
      BY <3>1, ElementOfSeq
    <3> QED
      BY <1>3, <3>2, <3>3, StreamAssumption DEF Last
  <2>2. \A p \in pending : p.n # n + 1
    BY <1>3, <2>1
  <2>3. /\ Accounts' /\ sent' \in Seq(0..MaxFrames) /\ Len(sent') = n + 1
        /\ \A i \in 1..n : sent'[i] = sent[i]
        /\ sent'[n + 1] = n + 1
        /\ pending' = pending \cup {[n |-> n + 1, size |-> size]}
    BY <1>5, <2>1, <2>2, SentIsCounted DEF SendsInv
  <2> HIDE DEF n
  <2>4. Counts(sent', n + 1)
    <3>1. Counts(sent, n)
      BY <1>3 DEF n
    <3> QED
      BY <2>1, <2>3, <3>1, CountsOn
  <2>5. \A p \in pending' : p.n \in 1..(n + 1)
    <3>1. \A p \in pending : p.n \in 1..n
      BY <1>3 DEF n
    <3> QED
      BY <2>1, <2>3, <3>1
  <2>6. Len(delivered) = n + 1
    BY <1>3 DEF n
  <2>7. CASE handler' = "finished" /\ UNCHANGED delivered
    <3>1. n + 1 \in 0..Len(delivered')
      BY <2>1, <2>6, <2>7
    <3>2. Relayed'
      BY <2>3, <2>4, <2>7, <3>1 DEF Relayed
    <3> QED
      BY <1>2, <2>3, <3>2 DEF SendsInv
  <2>8. CASE Pull /\ UNCHANGED handler
    <3>1. /\ gen' # "fresh"
          /\ \/ delivered' = delivered /\ gen' # "yielded"
             \/ gen' = "yielded" /\ Len(delivered') = Len(delivered) + 1
          /\ gen' = "done" /\ ~aborted' => Len(received') = Len(delivered')
      BY <2>8, PullGoesOn
    <3>2. Len(delivered') = Len(sent') + (IF gen' = "yielded" THEN 1 ELSE 0)
      BY <2>1, <2>3, <2>6, <3>1
    <3>3. gen' = "done" /\ ~aborted' => Len(sent') = Len(received')
      BY <2>1, <2>3, <3>1, <3>2
    <3>4. n + 1 \in 0..Len(delivered')
      BY <2>1, <2>3, <3>2
    <3>5. Relayed'
      BY <1>1, <2>3, <2>4, <2>5, <2>8, <3>1, <3>2, <3>3, <3>4 DEF Relayed
    <3> QED
      BY <1>2, <2>3, <3>5 DEF SendsInv
  <2> QED
    BY <1>5, <2>7, <2>8
<1> QED
  BY <1>4, <1>5 DEF Relay, Return, End, Leave

LEMMA LeaveLoopKeepsSends ==
  ASSUME FramesInv, SendsInv, LeaveLoop
  PROVE  SendsInv'
<1>1. /\ handler' = "finished" /\ ws' \in {"open", "closing", "closed"} /\ UNCHANGED delivered
      /\ overloaded' \in BOOLEAN /\ attached' \in BOOLEAN
      /\ handler \in {"connecting", "iterating"}
  BY DEF LeaveLoop, Leave, CloseSlow, SendsInv
<1>2. CASE NotSent
  <2>1. Accounts' /\ sent' = sent
    BY <1>2 DEF NotSent, SendsInv, Accounts, PendingBytes, PendingBalanced
  <2>2. Relayed'
    BY <1>1, <2>1, RelayedOnLeaving DEF SendsInv
  <2> QED
    BY <1>1, <2>1, <2>2 DEF SendsInv
<1>3. ASSUME NEW size \in OutSizes, Fits(size), Sent(0, size)
      PROVE  SendsInv'
  <2> DEFINE n == Len(sent)
  <2>1. /\ n \in Nat /\ Len(delivered) \in Nat /\ 0 \in 0..MaxFrames
        /\ \A p \in pending : p.n # 0
    BY <1>1, LenProperties, Lengths DEF SendsInv, Relayed
  <2>2. Counts(sent, n) /\ n \in 0..Len(delivered)
    <3>1. CASE handler = "connecting"
      BY <2>1, <3>1 DEF SendsInv, Relayed, Counts
    <3>2. CASE handler = "iterating"
      BY <2>1, <3>2 DEF SendsInv, Relayed
    <3> QED
      BY <1>1, <3>1, <3>2
  <2>3. /\ Accounts' /\ sent' \in Seq(0..MaxFrames) /\ Len(sent') = n + 1
        /\ \A i \in 1..n : sent'[i] = sent[i]
        /\ sent'[n + 1] = 0
    BY <1>3, <2>1, SentIsCounted DEF SendsInv
  <2> HIDE DEF n
  <2>4. Counts(sent', n)
    BY <2>2, <2>3 DEF Counts
  <2>5. Relayed'
    BY <1>1, <2>2, <2>3, <2>4 DEF Relayed
  <2> QED
    BY <1>1, <2>3, <2>5 DEF SendsInv
<1> QED
  BY <1>2, <1>3 DEF LeaveLoop

LEMMA SendsKept ==
  ASSUME FramesInv, SendsInv, [Next]_vars
  PROVE  SendsInv'
<1>1. CASE /\ UNCHANGED <<handler, sent, pending, pendingEvents, pendingBytes, overloaded>>
           /\ ws' \in {"open", "closing", "closed"} /\ attached' \in BOOLEAN
           /\ UNCHANGED streamVars \/ StreamStep \/ Abort
  <2>1. Accounts'
    BY <1>1 DEF SendsInv, Accounts, PendingBytes, PendingBalanced
  <2>2. Relayed'
    BY <1>1, RelayedStays
  <2> QED
    BY <1>1, <2>1, <2>2 DEF SendsInv
<1>2. ASSUME NEW p \in pending, NEW failed \in BOOLEAN, Complete(p, failed)
      PROVE  SendsInv'
  <2>1. /\ UNCHANGED <<handler, attached, sent>> /\ pending' \subseteq pending
        /\ UNCHANGED streamVars \/ Abort
        /\ overloaded' \in BOOLEAN /\ ws' \in {"open", "closing", "closed"}
    BY <1>2 DEF Complete, CloseSlow, SendsInv
  <2>2. Accounts'
    BY <1>2, CompletedIsCounted DEF SendsInv
  <2>3. Relayed'
    BY <2>1, RelayedStays
  <2> QED
    BY <2>1, <2>2, <2>3 DEF SendsInv
<1>3. ws \in {"open", "closing", "closed"} /\ attached \in BOOLEAN
  BY DEF SendsInv
<1>4. CASE (StreamStep /\ UNCHANGED socketVars) \/ RequestAborts \/ UNCHANGED vars
  BY <1>1, <1>3, <1>4 DEF RequestAborts, socketVars, vars
<1>5. CASE ClientCloses \/ OnClose
  BY <1>1, <1>3, <1>5 DEF ClientCloses, OnClose
<1> QED
  BY <1>2, <1>4, <1>5, OpenAndConnectKeepSends, RelayKeepsSends, LeaveLoopKeepsSends DEF Next

-----------------------------------------------------------------------------
(* From counting to order *)

LEMMA CountsAreEqual ==
  ASSUME NEW s \in Seq(Nat), NEW t \in Seq(Nat), Len(s) = Len(t),
         Counts(s, Len(s)), Counts(t, Len(t))
  PROVE  s = t
BY SeqEqual DEF Counts

LEMMA CountsUpTo ==
  ASSUME NEW s \in Seq(Nat), NEW k \in Nat, k <= Len(s), Counts(s, k)
  PROVE  /\ SubSeq(s, 1, k) \in Seq(Nat) /\ Len(SubSeq(s, 1, k)) = k
         /\ Counts(SubSeq(s, 1, k), k)
<1>1. Len(s) \in Nat
  BY LenProperties
<1>2. \A i \in 1..k : i \in 1..Len(s) /\ s[i] \in Nat
  BY <1>1, ElementOfSeq
<1>3. /\ SubSeq(s, 1, k) \in Seq(Nat)
      /\ Len(SubSeq(s, 1, k)) = IF 1 <= k THEN k - 1 + 1 ELSE 0
      /\ \A i \in 1..k - 1 + 1 : SubSeq(s, 1, k)[i] = s[1 + i - 1]
  BY <1>2, SubSeqProperties
<1>4. k - 1 + 1 = k /\ \A i \in 1..k : 1 + i - 1 = i
  OBVIOUS
<1> QED
  BY <1>3, <1>4 DEF Counts

LEMMA NumbersOfFrames ==
  ASSUME NEW frames \in Seq(Frame)
  PROVE  /\ Numbers(frames) \in Seq(Nat) /\ Len(Numbers(frames)) = Len(frames)
         /\ \A i \in 1..Len(frames) : Numbers(frames)[i] = frames[i].n
<1>1. DOMAIN frames = 1..Len(frames) /\ Len(frames) \in Nat
  BY LenProperties
<1>2. \A i \in 1..Len(frames) : frames[i].n \in Nat
  BY <1>1, ElementOfSeq, FrameSizes, StreamAssumption
<1>3. Numbers(frames) = [i \in 1..Len(frames) |-> frames[i].n]
  BY <1>1 DEF Numbers
<1>4. Numbers(frames) \in [1..Len(frames) -> Nat]
  BY <1>2, <1>3
<1>5. Numbers(frames) \in Seq(Nat)
  BY <1>1, <1>4, SeqDef
<1>6. DOMAIN Numbers(frames) = 1..Len(frames)
  BY <1>3
<1>7. Len(Numbers(frames)) = Len(frames)
  BY <1>1, <1>5, <1>6, LenProperties
<1> QED
  BY <1>3, <1>5, <1>7

OneAfterAnother(d, h, q) == d \o h \o q

\* Three sequences that count on from each other make one that counts.
LEMMA CountsInThree ==
  ASSUME NEW r \in Seq(Nat), NEW d \in Seq(Nat), NEW h \in Seq(Nat), NEW q \in Seq(Nat),
         Len(r) = Len(d) + Len(h) + Len(q), Counts(r, Len(r)), Counts(d, Len(d)),
         \A i \in 1..Len(h) : h[i] = Len(d) + i,
         \A i \in 1..Len(q) : q[i] = Len(d) + Len(h) + i
  PROVE  r = OneAfterAnother(d, h, q)
<1>1. Len(d) \in Nat /\ Len(h) \in Nat /\ Len(q) \in Nat
  BY LenProperties
<1> DEFINE dh == d \o h  all == dh \o q
<1>2. /\ dh \in Seq(Nat) /\ Len(dh) = Len(d) + Len(h)
      /\ \A i \in 1..Len(d) + Len(h) : dh[i] = IF i <= Len(d) THEN d[i] ELSE h[i - Len(d)]
  BY ConcatProperties
<1>3. Counts(dh, Len(dh))
  <2> SUFFICES ASSUME NEW i \in 1..Len(d) + Len(h) PROVE dh[i] = i
    BY <1>2 DEF Counts
  <2>1. CASE i <= Len(d)
    <3>1. i \in 1..Len(d)
      BY <1>1, <2>1
    <3> QED
      BY <1>2, <2>1, <3>1 DEF Counts
  <2>2. CASE ~(i <= Len(d))
    <3>1. i - Len(d) \in 1..Len(h) /\ Len(d) + (i - Len(d)) = i
      BY <1>1, <2>2
    <3> QED
      BY <1>2, <2>2, <3>1
  <2> QED
    BY <2>1, <2>2
<1> HIDE DEF dh
<1>4. /\ all \in Seq(Nat) /\ Len(all) = Len(dh) + Len(q)
      /\ \A i \in 1..Len(dh) + Len(q) : all[i] = IF i <= Len(dh) THEN dh[i] ELSE q[i - Len(dh)]
  BY <1>2, ConcatProperties
<1> HIDE DEF all
<1>5. Counts(all, Len(all))
  <2> SUFFICES ASSUME NEW i \in 1..Len(dh) + Len(q) PROVE all[i] = i
    BY <1>4 DEF Counts
  <2>1. Len(dh) \in Nat
    BY <1>1, <1>2
  <2>2. CASE i <= Len(dh)
    <3>1. i \in 1..Len(dh)
      BY <1>1, <2>1, <2>2
    <3> QED
      BY <1>3, <1>4, <2>2, <3>1 DEF Counts
  <2>3. CASE ~(i <= Len(dh))
    <3>1. i - Len(dh) \in 1..Len(q) /\ Len(dh) + (i - Len(dh)) = i
      BY <1>1, <2>1, <2>3
    <3> QED
      BY <1>2, <1>4, <2>3, <3>1
  <2> QED
    BY <2>2, <2>3
<1>6. r = all
  BY <1>1, <1>2, <1>4, <1>5, CountsAreEqual
<1> QED
  BY <1>6 DEF all, dh, OneAfterAnother

LEMMA CountedIsInOrder ==
  ASSUME FramesInv, SendsInv
  PROVE  InOrder
<1>1. /\ received \in Seq(Nat) /\ delivered \in Seq(Nat) /\ sent \in Seq(Nat)
      /\ Len(received) \in Nat /\ Len(delivered) \in Nat /\ Len(sent) \in Nat
  <2>1. received \in Seq(1..MaxFrames) /\ delivered \in Seq(1..MaxFrames) /\ sent \in Seq(0..MaxFrames)
    BY DEF FramesInv, StreamTypeOK, SendsInv
  <2>2. 1..MaxFrames \subseteq Nat /\ 0..MaxFrames \subseteq Nat
    OBVIOUS
  <2> QED
    BY <2>1, <2>2, SeqMonotonic, LenProperties
<1>2. /\ Counts(received, Len(received)) /\ Counts(delivered, Len(delivered))
      /\ Len(delivered) <= Len(received)
  BY DEF FramesInv, Numbered
<1>3. EndIsComplete
  <2> SUFFICES ASSUME handler = "iterating", gen = "done", ~aborted PROVE sent = received
    BY DEF EndIsComplete
  <2>1. Counts(sent, Len(sent)) /\ Len(sent) = Len(received)
    BY DEF SendsInv, Relayed
  <2> QED
    BY <1>1, <1>2, <2>1, CountsAreEqual
<1>4. ~closed => received = delivered \o Numbers(handed) \o Numbers(queue)
  <2> SUFFICES ASSUME ~closed PROVE received = delivered \o Numbers(handed) \o Numbers(queue)
    OBVIOUS
  <2>1. handed \in Seq(Frame) /\ queue \in Seq(Frame)
    <3>1. handed = <<>> \/ \E f \in Frame : handed = <<f>>
      BY DEF FramesInv, StreamTypeOK
    <3>2. \A f \in Frame : <<f>> \in Seq(Frame)
      OBVIOUS
    <3>3. handed \in Seq(Frame)
      BY <3>1, <3>2, EmptySeq
    <3> QED
      BY <3>3 DEF FramesInv, StreamTypeOK
  <2>2. /\ Numbers(handed) \in Seq(Nat) /\ Len(Numbers(handed)) = Len(handed)
        /\ \A i \in 1..Len(handed) : Numbers(handed)[i] = handed[i].n
        /\ Numbers(queue) \in Seq(Nat) /\ Len(Numbers(queue)) = Len(queue)
        /\ \A i \in 1..Len(queue) : Numbers(queue)[i] = queue[i].n
    BY <2>1, NumbersOfFrames
  <2>3. /\ Len(received) = Len(delivered) + Len(handed) + Len(queue)
        /\ \A i \in 1..Len(handed) : handed[i].n = Len(delivered) + i
        /\ \A i \in 1..Len(queue) : queue[i].n = Len(delivered) + Len(handed) + i
    <3>1. CASE Ended
      <4>1. /\ Len(received) = 0 /\ Len(delivered) = 0 /\ Len(queue) = 0 /\ Len(handed) = 0
        BY <3>1, Lengths DEF FramesInv, Places, Ended
      <4> QED
        BY <4>1
    <3>2. CASE ~Ended
      <4>1. Len(received) = Len(delivered) + (Len(handed) + Len(queue))
        BY DEF FramesInv, Numbered, Awaiting
      <4>2. Len(handed) \in Nat /\ Len(queue) \in Nat
        BY <2>1, LenProperties
      <4>3. \A i \in 1..Len(handed) : handed[i].n = Len(delivered) + i
        BY <3>2, Lengths DEF FramesInv, Numbered
      <4>4. \A i \in 1..Len(queue) : queue[i].n = Len(delivered) + Len(handed) + i
        BY <3>2 DEF FramesInv, Numbered
      <4> QED
        BY <1>1, <4>1, <4>2, <4>3, <4>4
    <3> QED
      BY <3>1, <3>2
  <2> DEFINE h == Numbers(handed)  q == Numbers(queue)
  <2>4. /\ h \in Seq(Nat) /\ q \in Seq(Nat)
        /\ Len(received) = Len(delivered) + Len(h) + Len(q)
        /\ \A i \in 1..Len(h) : h[i] = Len(delivered) + i
        /\ \A i \in 1..Len(q) : q[i] = Len(delivered) + Len(h) + i
    BY <2>2, <2>3
  <2> HIDE DEF h, q
  <2>5. received = OneAfterAnother(delivered, h, q)
    <3> DEFINE r == received  d == delivered
    <3>1. /\ r \in Seq(Nat) /\ d \in Seq(Nat) /\ h \in Seq(Nat) /\ q \in Seq(Nat)
          /\ Len(r) = Len(d) + Len(h) + Len(q)
          /\ Counts(r, Len(r)) /\ Counts(d, Len(d))
          /\ \A i \in 1..Len(h) : h[i] = Len(d) + i
          /\ \A i \in 1..Len(q) : q[i] = Len(d) + Len(h) + i
      BY <1>1, <1>2, <2>4
    <3> HIDE DEF r, d
    <3>2. r = OneAfterAnother(d, h, q)
      BY <3>1, CountsInThree
    <3> QED
      BY <3>2 DEF r, d
  <2> QED
    BY <2>5 DEF h, q, OneAfterAnother
<1>5. IsPrefix(delivered, received)
  <2> DEFINE n == Len(delivered)
             s == SubSeq(delivered, 1, n)  t == SubSeq(received, 1, n)
  <2>1. Counts(received, n) /\ Counts(delivered, n)
    BY <1>1, <1>2 DEF Counts
  <2>2. /\ s \in Seq(Nat) /\ Len(s) = n /\ Counts(s, n)
        /\ t \in Seq(Nat) /\ Len(t) = n /\ Counts(t, n)
    BY <1>1, <1>2, <2>1, CountsUpTo
  <2> HIDE DEF s, t
  <2>3. s = t
    BY <2>2, CountsAreEqual
  <2> QED
    BY <1>2, <2>3 DEF IsPrefix, s, t
<1>6. \E k \in 0..Len(delivered) :
        LET first == SubSeq(delivered, 1, k) IN sent \in {first, Append(first, 0)}
  <2>1. PICK k \in 0..Len(delivered) :
               /\ Counts(sent, k)
               /\ Len(sent) = k \/ (Len(sent) = k + 1 /\ sent[k + 1] = 0)
    BY DEF SendsInv, Relayed
  <2> DEFINE s == SubSeq(delivered, 1, k)
  <2>2. k \in Nat /\ k <= Len(delivered) /\ Counts(delivered, k)
    BY <1>1, <1>2 DEF Counts
  <2>3. s \in Seq(Nat) /\ Len(s) = k /\ Counts(s, k)
    BY <1>1, <2>2, CountsUpTo
  <2> HIDE DEF s
  <2>4. CASE Len(sent) = k
    BY <1>1, <2>1, <2>3, <2>4, CountsAreEqual DEF s
  <2>5. CASE Len(sent) = k + 1 /\ sent[k + 1] = 0
    <3>1. /\ Append(s, 0) \in Seq(Nat) /\ Len(Append(s, 0)) = k + 1
          /\ \A i \in 1..k : Append(s, 0)[i] = s[i]
          /\ Append(s, 0)[k + 1] = 0
      BY <2>3, AppendProperties
    <3>2. \A i \in 1..(k + 1) : i \in 1..k \/ i = k + 1
      BY <2>2
    <3>3. \A i \in 1..(k + 1) : sent[i] = Append(s, 0)[i]
      BY <2>1, <2>3, <2>5, <3>1, <3>2 DEF Counts
    <3>4. sent = Append(s, 0)
      BY <1>1, <2>5, <3>1, <3>3, SeqEqual
    <3> QED
      BY <3>4 DEF s
  <2> QED
    BY <2>1, <2>4, <2>5
<1> QED
  BY <1>3, <1>4, <1>5, <1>6 DEF InOrder

-----------------------------------------------------------------------------

LEMMA StartIsCounted ==
  ASSUME Init
  PROVE  FramesInv /\ SendsInv
<1>1. /\ upstream = "none" /\ gen = "fresh" /\ queue = <<>> /\ queuedBytes = 0
      /\ closed = FALSE /\ terminal = FALSE /\ aborted = FALSE
      /\ handed = <<>> /\ received = <<>> /\ delivered = <<>>
      /\ handler = "idle" /\ ws = "open" /\ pending = {} /\ pendingEvents = 0 /\ pendingBytes = 0
      /\ overloaded = FALSE /\ attached = TRUE /\ sent = <<>>
  BY DEF Init, StreamInit
<1>2. Len(<<>>) = 0
  OBVIOUS
<1>3. StreamTypeOK
  <2>1. <<>> \in Seq(Frame) /\ <<>> \in Seq(1..MaxFrames)
    BY EmptySeq
  <2> QED
    BY <1>1, <2>1 DEF StreamTypeOK
<1>4. QueueBalanced /\ IsFiniteSet(QueueBytes(queue))
  BY <1>1, <1>2, NoBytes, StreamAssumption DEF QueueBalanced
<1>5. Places /\ Numbered
  BY <1>1, <1>2 DEF Places, Numbered, Counts, Awaiting, Ended
<1>6. Accounts
  <2>1. PendingBytes({}) = {}
    BY DEF PendingBytes
  <2>2. PendingBalanced /\ IsFiniteSet(pending) /\ IsFiniteSet(PendingBytes(pending))
    BY <1>1, <2>1, FS_EmptySet DEF PendingBalanced, PendingBytes
  <2>3. pendingEvents \in 0..QueuedEvents /\ pendingBytes \in 0..BufferedBytes
    BY <1>1, SocketAssumption
  <2> QED
    BY <1>1, <2>2, <2>3 DEF Accounts
<1>7. Relayed
  BY <1>1, <1>2 DEF Relayed, Counts
<1>8. sent \in Seq(0..MaxFrames)
  BY <1>1, EmptySeq
<1> QED
  BY <1>1, <1>3, <1>4, <1>5, <1>6, <1>7, <1>8 DEF FramesInv, SendsInv

\* What the theorems below are read off.
LEMMA Counted == Spec => [](FramesInv /\ SendsInv)
<1>1. Init => FramesInv /\ SendsInv
  BY StartIsCounted
<1>2. FramesInv /\ SendsInv /\ [Next]_vars => (FramesInv /\ SendsInv)'
  BY FramesKept, SendsKept
<1> QED
  BY <1>1, <1>2, PTL DEF Spec

\* Every variable of the stream and of the handler keeps its type; the counters of a
\* client's sends stay within its limits (createBoundedStreamSocket).
THEOREM TypeCorrect == Spec => []TypeOK
<1>1. FramesInv /\ SendsInv => TypeOK
  BY DEF FramesInv, SendsInv, Accounts, TypeOK
<1> QED
  BY <1>1, Counted, PTL

\* Frames come out of streamWebSocketMessages in the order in which they came in, none
\* twice and none lost while the stream is open; the client gets a prefix of them and
\* perhaps an error, and all of them when the remote server has ended the stream.
THEOREM FramesInOrder == Spec => []InOrder
<1>1. FramesInv /\ SendsInv => InOrder
  BY CountedIsInOrder
<1> QED
  BY <1>1, Counted, PTL

\* The byte and event counters of the queue and of the sends under way are those of what
\* is in them, on every path on which something comes in or goes out.
THEOREM BuffersBalance == Spec => []BuffersBalanced
<1>1. FramesInv /\ SendsInv => BuffersBalanced
  BY DEF FramesInv, SendsInv, Accounts, BuffersBalanced
<1> QED
  BY <1>1, Counted, PTL

=============================================================================
