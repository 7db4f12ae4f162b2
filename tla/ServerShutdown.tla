--------------------------- MODULE ServerShutdown ---------------------------
(***************************************************************************)
(* The server that createActivityPlugServer builds: the lifecycle of its   *)
(* stores, its browser boundary and its listeners, and the order in which  *)
(* close() takes them down.                                                *)
(***************************************************************************)
EXTENDS SecurityLifecycle, BrowserAdmission

VARIABLES
  connected,  \* requests that hold a connection of a listener
  server,     \* how far close() has come
  failing     \* close() has an error to throw at its end

vars == <<lifecycleVars, admissionVars, connected, server, failing>>

\* Every variable has its type; `reserved` never exceeds the limit of the budget.
TypeOK ==
  /\ LifecycleTypeOK
  /\ AdmissionTypeOK
  /\ connected \subseteq Requests
  /\ server \in {"open", "listeners", "browser", "lifecycle", "closed", "failed"}
  /\ failing \in BOOLEAN

\* The constructor starts the lifecycle.
Init ==
  /\ LifecycleInit
  /\ AdmissionInit
  /\ connected = {}
  /\ server = "open"
  /\ failing = FALSE

-----------------------------------------------------------------------------

Lifecycle ==
  /\ StartLifecycle \/ LifecycleStep
  /\ UNCHANGED <<admissionVars, connected, server, failing>>

\* A request waits for `ready`. It comes in through a listener, which refuses it
\* once close() has been called, or from code that calls the application itself.
Receive(r) ==
  /\ started = "ready"
  /\ Arrive(r)
  /\ connected' = connected \/ (server = "open" /\ connected' = connected \cup {r})
  /\ UNCHANGED <<lifecycleVars, server, failing>>

\* The connection of a request ends with its handler.
Handle(r) ==
  /\ Proceed(r)
  /\ connected' = IF at'[r] = "idle" THEN connected \ {r} ELSE connected
  /\ UNCHANGED <<lifecycleVars, server, failing>>

\* The client goes away; the handler runs on.
Disconnect(r) ==
  /\ r \in connected
  /\ connected' = connected \ {r}
  /\ UNCHANGED <<lifecycleVars, admissionVars, server, failing>>

Expire ==
  /\ \E i \in Ids : ExpireRecord(i) \/ ExpireReservation(i)
  /\ UNCHANGED <<lifecycleVars, connected, server, failing>>

-----------------------------------------------------------------------------
(* close *)

Close ==
  /\ server = "open"
  /\ server' = "listeners"
  /\ UNCHANGED <<lifecycleVars, admissionVars, connected, failing>>

\* A listener is closed when its last connection has ended; closing may fail. The
\* boundary is closed in either case ...
ListenersClosed ==
  /\ server = "listeners" /\ connected = {}
  /\ server' = "browser"
  /\ failing' \in BOOLEAN
  /\ CloseBoundary
  /\ UNCHANGED <<lifecycleVars, connected>>

\* ... and the lifecycle is, whatever the boundary said.
BrowserClosed ==
  /\ server = "browser" /\ boundary \in {"closed", "failed"}
  /\ server' = "lifecycle"
  /\ failing' = (failing \/ boundary = "failed")
  /\ CloseLifecycle
  /\ UNCHANGED <<admissionVars, connected>>

\* The lifecycle is told to close and not waited for.
ServerClosedEarly ==
  /\ server = "lifecycle"
  /\ server' = IF failing THEN "failed" ELSE "closed"
  /\ UNCHANGED <<lifecycleVars, admissionVars, connected, failing>>

ServerClosed ==
  /\ server = "lifecycle" /\ closed \in {"closed", "failed"}
  /\ server' = IF failing \/ closed = "failed" THEN "failed" ELSE "closed"
  /\ UNCHANGED <<lifecycleVars, admissionVars, connected, failing>>

Next ==
  \/ Lifecycle
  \/ \E r \in Requests : Receive(r) \/ Handle(r) \/ Disconnect(r)
  \/ Expire
  \/ Close \/ ListenersClosed \/ BrowserClosed \/ ServerClosed

\* Callbacks that are due run, and the stores answer.
Fairness ==
  /\ LifecycleFairness
  /\ AdmissionFairness
  /\ WF_vars(ListenersClosed) /\ WF_vars(BrowserClosed) /\ WF_vars(ServerClosed)

Spec == Init /\ [][Next]_vars /\ Fairness

-----------------------------------------------------------------------------
(* Properties *)

\* When close() has returned normally, what used the stores has come to rest: no
\* cleanup, no interval, no admission, no reservation; and a boundary that says it is
\* closed, whatever close() says in the end, has drained its admissions.
ClosedServerIsAtRest ==
  /\ ClosedIsDrained
  /\ server = "closed" =>
       /\ timers = {} /\ \A w \in Workers : running[w] = 0
       /\ Admitting = {} /\ reserved = 0

\* close() settles, whichever cleanups, admissions and connections it meets and
\* whichever of them fail.
CloseSettles == server = "listeners" ~> server \in {"closed", "failed"}

=============================================================================
