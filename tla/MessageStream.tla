---------------------------- MODULE MessageStream ----------------------------
(***************************************************************************)
(* The inbound half of a stream: the socket to a remote server, opened by  *)
(* a factory that may answer late (resolveWebSocketFactoryResult), and the *)
(* generator that turns its messages into events for a consumer that may   *)
(* be slower than the remote server (streamWebSocketMessages).             *)
(*                                                                         *)
(* Events of the socket and of the abort signal are callbacks that run at  *)
(* any time; the generator itself goes on only in a microtask of its own   *)
(* after what it awaits has settled, and socket events may come between.   *)
(***************************************************************************)
EXTENDS Integers, Sequences, FiniteSets, SequencesExt

CONSTANTS
  MaxEvents,  \* MAX_STREAMING_QUEUED_EVENTS
  MaxBytes,   \* MAX_STREAMING_QUEUED_BYTES
  Sizes,      \* sizes of the frames the remote server sends
  MaxFrames   \* bound: how many it sends

ASSUME StreamAssumption ==
  /\ MaxEvents \in Nat /\ MaxBytes \in Nat /\ MaxFrames \in Nat
  /\ Sizes \subseteq Nat

VARIABLES
  upstream,     \* the socket: "none", "opening", "open", "closing", "closed"
  gen,          \* where the generator stands
  queue,        \* frames that wait for the consumer
  queuedBytes,
  closed,       \* finish() has run; the listeners are gone
  terminal,     \* terminalError is set
  handed,       \* what the waiter was resolved with: a frame, or <<>> for an end
  aborted,      \* the signal
  received,     \* history: numbers of the frames that were accepted
  delivered     \* history: numbers of the frames that were yielded

streamVars == <<upstream, gen, queue, queuedBytes, closed, terminal, handed, aborted,
                received, delivered>>

\* A frame: its number, its size, and whether it is valid JSON.
Frame == [n : 1..MaxFrames, size : Sizes, good : BOOLEAN]

StreamTypeOK ==
  /\ upstream \in {"none", "opening", "open", "closing", "closed"}
  /\ gen \in {"fresh", "factory", "connected", "waiting", "woken", "yielded", "done", "thrown"}
  /\ queue \in Seq(Frame)
  /\ queuedBytes \in Nat
  /\ closed \in BOOLEAN /\ terminal \in BOOLEAN /\ aborted \in BOOLEAN
  /\ handed \in {<<>>} \cup {<<f>> : f \in Frame}
  /\ received \in Seq(1..MaxFrames) /\ delivered \in Seq(1..MaxFrames)

StreamInit ==
  /\ upstream = "none" /\ gen = "fresh"
  /\ queue = <<>> /\ queuedBytes = 0
  /\ closed = FALSE /\ terminal = FALSE /\ aborted = FALSE
  /\ handed = <<>> /\ received = <<>> /\ delivered = <<>>

Ended == gen \in {"done", "thrown"}

\* The generator has registered its listeners.
Listening == gen \in {"waiting", "woken", "yielded"} /\ ~closed

-----------------------------------------------------------------------------
(* finish and closeSocket *)

CloseSocket == upstream' = IF upstream = "open" THEN "closing" ELSE upstream

\* The waiter is left waiting.
FinishSilently(error, discard) ==
  /\ closed' = TRUE
  /\ IF closed THEN UNCHANGED <<queue, queuedBytes, terminal>>
     ELSE /\ terminal' = error
          /\ IF discard THEN queue' = <<>> /\ queuedBytes' = 0
                        ELSE UNCHANGED <<queue, queuedBytes>>
  /\ UNCHANGED <<gen, handed>>

\* finish: once only; it resolves the waiter of a generator that awaits one.
Finish(error, discard) ==
  /\ closed' = TRUE
  /\ IF closed THEN UNCHANGED <<queue, queuedBytes, terminal>>
     ELSE /\ terminal' = error
          /\ IF discard THEN queue' = <<>> /\ queuedBytes' = 0
                        ELSE UNCHANGED <<queue, queuedBytes>>
  /\ IF gen = "waiting" /\ ~closed
     THEN gen' = "woken" /\ handed' = <<>>
     ELSE UNCHANGED <<gen, handed>>

\* The generator ends, and its finally block runs.
End(how) ==
  /\ gen' = how
  /\ closed' = TRUE
  /\ IF closed THEN UNCHANGED <<queue, queuedBytes, terminal>>
     ELSE queue' = <<>> /\ queuedBytes' = 0 /\ terminal' = FALSE
  /\ CloseSocket
  /\ handed' = <<>>
  /\ UNCHANGED delivered

-----------------------------------------------------------------------------
(* The loop of the generator *)

Yield(f) ==
  /\ gen' = "yielded"
  /\ handed' = <<>>
  /\ delivered' = Append(delivered, f.n)
  /\ UNCHANGED <<closed, terminal, upstream>>

\* From the head of the loop to the next await or yield.
Loop ==
  /\ IF terminal THEN End("thrown")
     ELSE IF queue # <<>>
     THEN LET f == Head(queue)
          IN  IF f.good
              THEN /\ Yield(f)
                   /\ queue' = Tail(queue) /\ queuedBytes' = queuedBytes - f.size
              ELSE End("thrown")
     ELSE IF closed THEN End("done")
     ELSE gen' = "waiting" /\ UNCHANGED <<queue, queuedBytes, closed, terminal, handed,
                                          upstream, delivered>>
  /\ UNCHANGED <<aborted, received>>

\* The rest of the loop, after the await.
Resume ==
  /\ gen = "woken"
  /\ IF terminal THEN End("thrown")
     ELSE IF handed = <<>> THEN End("done")
     ELSE IF handed[1].good THEN Yield(handed[1]) /\ UNCHANGED <<queue, queuedBytes>>
     ELSE End("thrown")
  /\ UNCHANGED <<aborted, received>>

-----------------------------------------------------------------------------
(* The consumer *)

\* The first next() asks the factory for a socket, unless the signal has been
\* aborted. The factory may answer at once, even with a closed socket, or later, or
\* throw.
Begin ==
  /\ gen = "fresh"
  /\ IF aborted THEN gen' = "done" /\ UNCHANGED <<upstream, closed>>
     ELSE \/ gen' = "factory" /\ upstream' = "opening" /\ UNCHANGED closed
          \/ gen' = "waiting" /\ upstream' = "open" /\ UNCHANGED closed
          \/ gen' = "done" /\ upstream' = "closed" /\ closed' = TRUE
          \/ gen' = "thrown" /\ UNCHANGED <<upstream, closed>>
  /\ UNCHANGED <<queue, queuedBytes, terminal, handed, aborted, received, delivered>>

Pull == gen = "yielded" /\ Loop

Return == gen = "yielded" /\ End("done") /\ UNCHANGED received

-----------------------------------------------------------------------------
(* An asynchronous factory *)

\* The handshake has succeeded; the callbacks of the promise are due.
FactoryOpens ==
  /\ upstream = "opening"
  /\ upstream' = "open"
  /\ UNCHANGED <<gen, queue, queuedBytes, closed, terminal, handed, aborted, received, delivered>>

\* A failure after the abort is of no interest any more.
FactoryFails ==
  /\ upstream = "opening"
  /\ upstream' = "none"
  /\ gen' = IF gen = "factory" THEN "thrown" ELSE gen
  /\ UNCHANGED <<queue, queuedBytes, closed, terminal, handed, aborted, received, delivered>>

\* A socket that comes too late is dropped and stays open.
FactoryCallbackInTime ==
  /\ gen = "factory" /\ upstream \in {"open", "closed"}
  /\ gen' = "connected"
  /\ UNCHANGED <<upstream, queue, queuedBytes, closed, terminal, handed, aborted, received,
                 delivered>>

\* raceWebSocketFactoryWithAbort: the abort that came first has settled the race and
\* ended the generator; a socket that comes too late is closed.
FactoryCallback ==
  /\ \/ gen = "factory" /\ upstream \in {"open", "closed"} /\ gen' = "connected"
        /\ UNCHANGED upstream
     \/ Ended /\ ~closed /\ upstream = "open" /\ upstream' = "closing" /\ UNCHANGED gen
  /\ UNCHANGED <<queue, queuedBytes, closed, terminal, handed, aborted, received, delivered>>

\* The generator goes on with its socket. The signal may have been aborted, and the
\* socket may have been closed, between the two microtasks.
Connected ==
  /\ gen = "connected"
  /\ IF aborted
     THEN gen' = "done" /\ closed' = TRUE /\ CloseSocket
     ELSE /\ closed' = (upstream = "closed")
          /\ IF closed' THEN gen' = "done" ELSE gen' = "waiting"
          /\ UNCHANGED upstream
  /\ UNCHANGED <<queue, queuedBytes, terminal, handed, aborted, received, delivered>>

-----------------------------------------------------------------------------
(* Events of the socket *)

RoomForOne(size) == size <= MaxBytes /\ Len(queue) < MaxEvents

Room(size) ==
  /\ size <= MaxBytes
  /\ Len(queue) < MaxEvents
  /\ queuedBytes <= MaxBytes - size

\* A frame that comes while the generator is being resumed replaces the one it has
\* been resumed with.
PushOver(f) ==
  /\ IF gen \in {"waiting", "woken"}
     THEN gen' = "woken" /\ handed' = <<f>> /\ UNCHANGED <<queue, queuedBytes>>
     ELSE queue' = Append(queue, f) /\ queuedBytes' = queuedBytes + f.size
          /\ UNCHANGED <<gen, handed>>
  /\ received' = Append(received, f.n)
  /\ UNCHANGED <<closed, terminal, upstream>>

\* push: a generator that waits gets the frame directly.
Push(f) ==
  /\ IF gen = "waiting"
     THEN gen' = "woken" /\ handed' = <<f>> /\ UNCHANGED <<queue, queuedBytes>>
     ELSE queue' = Append(queue, f) /\ queuedBytes' = queuedBytes + f.size
          /\ UNCHANGED <<gen, handed>>
  /\ received' = Append(received, f.n)
  /\ UNCHANGED <<closed, terminal, upstream>>

\* onMessage
Message(size, good) ==
  /\ upstream = "open" /\ Listening
  /\ Len(received) < MaxFrames
  /\ IF Room(size)
     THEN Push([n |-> Len(received) + 1, size |-> size, good |-> good])
     ELSE Finish(TRUE, TRUE) /\ CloseSocket /\ UNCHANGED received
  /\ UNCHANGED <<aborted, delivered>>

\* onClose, with the frames that wait thrown away.
RemoteClosesAtOnce ==
  /\ upstream \in {"open", "closing"}
  /\ upstream' = "closed"
  /\ IF Listening THEN Finish(FALSE, TRUE)
     ELSE UNCHANGED <<gen, queue, queuedBytes, closed, terminal, handed>>
  /\ UNCHANGED <<aborted, received, delivered>>

\* onClose: the consumer still gets the frames that wait.
RemoteCloses ==
  /\ upstream \in {"open", "closing"}
  /\ upstream' = "closed"
  /\ IF Listening THEN Finish(FALSE, FALSE)
     ELSE UNCHANGED <<gen, queue, queuedBytes, closed, terminal, handed>>
  /\ UNCHANGED <<aborted, received, delivered>>

\* onError
RemoteFails ==
  /\ upstream = "open" /\ Listening
  /\ Finish(TRUE, TRUE) /\ CloseSocket
  /\ UNCHANGED <<aborted, received, delivered>>

-----------------------------------------------------------------------------
(* The signal *)

\* The generator listens to nothing but its socket.
AbortUnheard ==
  /\ aborted' = TRUE
  /\ gen' = IF gen = "factory" /\ ~aborted THEN "done" ELSE gen
  /\ UNCHANGED <<upstream, queue, queuedBytes, closed, terminal, handed, received, delivered>>

\* onAbort, of the race and of the generator. What is yielded already, or handed
\* over to a generator that is about to yield it, is not taken back.
Abort ==
  /\ aborted' = TRUE
  /\ IF Listening /\ ~aborted
     THEN Finish(FALSE, TRUE) /\ CloseSocket
     ELSE /\ gen' = IF gen = "factory" /\ ~aborted THEN "done" ELSE gen
          /\ UNCHANGED <<upstream, queue, queuedBytes, closed, terminal, handed>>
  /\ UNCHANGED <<received, delivered>>

-----------------------------------------------------------------------------

\* What happens without the consumer.
StreamStep ==
  \/ FactoryOpens \/ FactoryFails \/ FactoryCallback \/ Connected \/ Resume
  \/ \E size \in Sizes, good \in BOOLEAN : Message(size, good)
  \/ RemoteCloses \/ RemoteFails

\* Microtasks run; the factory has a handshake timeout.
StreamFairness ==
  /\ WF_streamVars(FactoryOpens \/ FactoryFails)
  /\ WF_streamVars(FactoryCallback)
  /\ WF_streamVars(Connected)
  /\ WF_streamVars(Resume)

-----------------------------------------------------------------------------
(* Properties *)

\* The sizes added up: a byte is a place in the queue and a number.
Bytes(frames) == Cardinality(UNION {{i} \X (1..frames[i].size) : i \in DOMAIN frames})

Numbers(frames) == [i \in DOMAIN frames |-> frames[i].n]

\* The byte count is that of the frames that wait, on every path on which a frame
\* comes in or goes out, and neither limit is exceeded.
QueueBalanced ==
  /\ queuedBytes = Bytes(queue)
  /\ queuedBytes <= MaxBytes
  /\ Len(queue) <= MaxEvents

\* A generator that waits has nothing to do: no frame is left in the queue beside it,
\* and the stream has not ended.
NoLostWakeup == gen = "waiting" => queue = <<>> /\ ~closed

=============================================================================
