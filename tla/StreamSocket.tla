---------------------------- MODULE StreamSocket ----------------------------
(***************************************************************************)
(* The outbound half of a stream: createBoundedStreamSocket connects the   *)
(* generator of MessageStream to the WebSocket of a client, counts what    *)
(* the client has not taken yet, and gives up on a client that is slow.    *)
(*                                                                         *)
(* The client may go away and the request may be aborted at any time; what *)
(* must not happen is that the socket to the remote server stays open.     *)
(***************************************************************************)
EXTENDS MessageStream

CONSTANTS
  QueuedEvents,   \* limits.websocketQueuedEvents
  BufferedBytes,  \* limits.websocketBufferedBytes
  OutSizes        \* sizes of the serialized events

ASSUME SocketAssumption ==
  /\ QueuedEvents \in Nat /\ BufferedBytes \in Nat
  /\ OutSizes \subseteq Nat

VARIABLES
  handler,      \* where onOpen stands
  ws,           \* the WebSocket of the client: "open", "closing", "closed"
  pending,      \* sends that have not completed: [n, size]
  pendingEvents, pendingBytes,
  overloaded,
  attached,     \* the handler listens to the signal of the request
  sent          \* history: numbers of the events sent, 0 for an error

socketVars == <<handler, ws, pending, pendingEvents, pendingBytes, overloaded, attached, sent>>
vars       == <<streamVars, socketVars>>

\* Every variable has its type; the counters never exceed the limits.
TypeOK ==
  /\ StreamTypeOK
  /\ handler \in {"idle", "connecting", "iterating", "finished"}
  /\ ws \in {"open", "closing", "closed"}
  /\ pending \subseteq [n : 0..MaxFrames, size : OutSizes]
  /\ pendingEvents \in 0..QueuedEvents
  /\ pendingBytes \in 0..BufferedBytes
  /\ overloaded \in BOOLEAN /\ attached \in BOOLEAN
  /\ sent \in Seq(0..MaxFrames)

Init ==
  /\ StreamInit
  /\ handler = "idle" /\ ws = "open"
  /\ pending = {} /\ pendingEvents = 0 /\ pendingBytes = 0
  /\ overloaded = FALSE /\ attached = TRUE
  /\ sent = <<>>

-----------------------------------------------------------------------------
(* send *)

\* closeSlowConsumer, without its abort
CloseSlow ==
  /\ overloaded' = TRUE
  /\ ws' = IF ws = "open" THEN "closing" ELSE ws

\* finally of onOpen: detach, and close a socket that is still open.
Leave ==
  /\ handler' = "finished"
  /\ attached' = FALSE

Writable == ws = "open" /\ ~overloaded

\* The sizes of the sends under way are not added up.
FitsAlone(size) == pendingEvents < QueuedEvents /\ size <= BufferedBytes

Fits(size) ==
  /\ pendingEvents < QueuedEvents
  /\ size <= BufferedBytes - pendingBytes

\* The transport takes the event; its completion callback is to come.
Sent(n, size) ==
  /\ pending' = pending \cup {[n |-> n, size |-> size]}
  /\ pendingEvents' = pendingEvents + 1
  /\ pendingBytes' = pendingBytes + size
  /\ sent' = Append(sent, n)

NotSent == UNCHANGED <<pending, pendingEvents, pendingBytes, sent>>

-----------------------------------------------------------------------------
(* onOpen *)

Open ==
  /\ handler = "idle"
  /\ IF aborted
     THEN Leave /\ ws' = IF ws = "open" THEN "closing" ELSE ws
     ELSE handler' = "connecting" /\ UNCHANGED <<attached, ws>>
  /\ UNCHANGED <<streamVars, overloaded>> /\ NotSent

\* connect() resolves, and the loop asks for the first event.
Connect ==
  /\ handler = "connecting"
  /\ handler' = "iterating"
  /\ Begin
  /\ UNCHANGED <<ws, overloaded, attached>> /\ NotSent

\* The body of the loop. An event that is refused, because of the counters, the
\* buffer of the transport or a send that throws, aborts the stream; an event that
\* is sent after the abort is the last one. Leaving the loop returns the generator.
Relay ==
  /\ handler = "iterating" /\ gen = "yielded"
  /\ \E size \in OutSizes :
       \/ /\ Writable /\ Fits(size)
          /\ Sent(Last(delivered), size)
          /\ IF aborted
             THEN Return /\ Leave /\ ws' = "closing" /\ UNCHANGED aborted
             ELSE Pull /\ UNCHANGED <<handler, attached, ws>>
          /\ UNCHANGED overloaded
       \/ /\ Writable
          /\ NotSent /\ CloseSlow /\ Leave
          /\ End("done") /\ aborted' = TRUE /\ UNCHANGED received
       \/ /\ ~Writable
          /\ Return /\ Leave
          /\ NotSent /\ UNCHANGED <<ws, overloaded, aborted>>

\* connect() or the generator throws: the client is told, if it can be; then, and
\* where the stream has ended, the socket is closed.
LeaveLoop ==
  /\ \/ handler = "connecting" /\ gen = "fresh"
     \/ handler = "iterating" /\ Ended
  /\ Leave
  /\ IF gen = "done" \/ aborted \/ ~Writable
     THEN /\ NotSent /\ UNCHANGED <<overloaded, aborted>>
          /\ ws' = IF ~overloaded /\ ws = "open" THEN "closing" ELSE ws
     ELSE \/ /\ \E size \in OutSizes : Fits(size) /\ Sent(0, size)
             /\ ws' = "closing" /\ UNCHANGED <<overloaded, aborted>>
          \/ /\ NotSent /\ CloseSlow /\ aborted' = TRUE
  /\ UNCHANGED <<upstream, gen, queue, queuedBytes, closed, terminal, handed, received,
                 delivered>>

-----------------------------------------------------------------------------
(* Completions, the client, the request *)

\* A send that has failed stays in the books.
CompleteIfSent(p, failed) ==
  /\ p \in pending
  /\ pending' = pending \ {p}
  /\ pendingEvents' = IF failed THEN pendingEvents ELSE pendingEvents - 1
  /\ pendingBytes' = IF failed THEN pendingBytes ELSE pendingBytes - p.size
  /\ IF failed /\ ~overloaded THEN CloseSlow /\ Abort
                              ELSE UNCHANGED <<overloaded, ws, streamVars>>
  /\ UNCHANGED <<handler, attached, sent>>

\* complete: the transport has taken the event, or has failed to.
Complete(p, failed) ==
  /\ p \in pending
  /\ pending' = pending \ {p}
  /\ pendingEvents' = pendingEvents - 1
  /\ pendingBytes' = pendingBytes - p.size
  /\ IF failed /\ ~overloaded THEN CloseSlow /\ Abort
                              ELSE UNCHANGED <<overloaded, ws, streamVars>>
  /\ UNCHANGED <<handler, attached, sent>>

\* The client begins to close, which stops the sending ...
ClientCloses ==
  /\ ws = "open"
  /\ ws' = "closing"
  /\ UNCHANGED <<streamVars, handler, pending, pendingEvents, pendingBytes, overloaded,
                 attached, sent>>

\* ... and onClose follows when the socket is closed, by whichever side.
OnClose ==
  /\ ws = "closing"
  /\ ws' = "closed"
  /\ attached' = FALSE
  /\ Abort
  /\ UNCHANGED <<handler, pending, pendingEvents, pendingBytes, overloaded, sent>>

\* The signal of the request is aborted; the connection may stay.
RequestAborts ==
  /\ attached /\ ~aborted
  /\ Abort
  /\ UNCHANGED socketVars

-----------------------------------------------------------------------------

Next ==
  \/ StreamStep /\ UNCHANGED socketVars
  \/ Open \/ Connect \/ Relay \/ LeaveLoop
  \/ \E p \in pending, failed \in BOOLEAN : Complete(p, failed)
  \/ ClientCloses \/ OnClose \/ RequestAborts

\* Microtasks run, connect() settles, and a closing handshake ends. Nothing is
\* assumed of the remote server, of the client or of the completion of sends.
Fairness ==
  /\ StreamFairness
  /\ WF_vars(Open) /\ WF_vars(Connect \/ LeaveLoop) /\ WF_vars(Relay)
  /\ WF_vars(OnClose)

Spec == Init /\ [][Next]_vars /\ Fairness

-----------------------------------------------------------------------------
(* Properties *)

\* A stream that the remote server has closed ends only when the client has been
\* sent all that was received before.
EndIsComplete ==
  handler = "iterating" /\ gen = "done" /\ ~aborted => sent = received

\* Frames come out in the order in which they came in, none twice and, as long as
\* the stream is open, none lost between the queue, the generator and the loop; the
\* client gets a prefix of them, perhaps an error after that, and all of them when it is
\* the remote server that has ended the stream.
InOrder ==
  /\ EndIsComplete
  /\ ~closed => received = delivered \o Numbers(handed) \o Numbers(queue)
  /\ IsPrefix(delivered, received)
  /\ \E k \in 0..Len(delivered) :
       LET first == SubSeq(delivered, 1, k) IN sent \in {first, Append(first, 0)}

\* The counters are those of the sends under way, however a send ends.
PendingBalanced ==
  /\ pendingEvents = Cardinality(pending)
  /\ pendingBytes = Cardinality(UNION {{p} \X (1..p.size) : p \in pending})

\* The counters of both buffers of a stream, that of frames that wait for the generator and
\* that of sends the client has not taken, stay true to what is in them.
BuffersBalanced == QueueBalanced /\ PendingBalanced

\* After an abort the client gets at most the event that was already on its way.
AbortEndsStream ==
  [][aborted /\ sent' # sent => handler' = "finished"]_vars

\* A stream that is aborted, or whose handler has finished, does not keep its
\* connection to the remote server, not even one that is established only then.
UpstreamReleased ==
  (aborted \/ handler = "finished") ~> [](upstream \in {"none", "closing", "closed"})

\* A client that goes away ends the handler, wherever it waits.
HandlerFinishes == ws # "open" ~> handler = "finished"

=============================================================================
