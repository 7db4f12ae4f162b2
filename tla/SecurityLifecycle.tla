------------------------- MODULE SecurityLifecycle -------------------------
(***************************************************************************)
(* SecurityStateLifecycle of the server package: one cleanup of every      *)
(* sweep-backed store before the server is ready, one per interval from    *)
(* then on, and a close that stops the intervals and waits for the         *)
(* cleanups under way.                                                     *)
(*                                                                         *)
(* JavaScript runs one callback at a time, so an action is a callback: it  *)
(* ends at an await or where it returns to the event loop.                 *)
(***************************************************************************)
EXTENDS Integers, FiniteSets

CONSTANT Workers   \* the descriptors with expiryMode "sweep"

VARIABLES
  timers,    \* workers with an interval
  inFlight,  \* worker -> the cleanup it waits for: "none", "startup", "periodic"
  running,   \* worker -> how many calls of its cleanup have not settled
  waiting,   \* what #start still waits for
  started,   \* the promise of start()
  awaited,   \* the startup and periodic cleanups close() still waits for
  closed     \* the promise of close(): not "open" is #closed

lifecycleVars == <<timers, inFlight, running, waiting, started, awaited, closed>>

LifecycleTypeOK ==
  /\ timers \subseteq Workers
  /\ inFlight \in [Workers -> {"none", "startup", "periodic"}]
  /\ running \in [Workers -> Nat]
  /\ waiting \subseteq Workers
  /\ started \in {"idle", "running", "ready", "failed"}
  /\ awaited \subseteq Workers
  /\ closed \in {"open", "closing", "closed", "failed"}

LifecycleInit ==
  /\ timers = {}
  /\ inFlight = [w \in Workers |-> "none"]
  /\ running = [w \in Workers |-> 0]
  /\ waiting = {}
  /\ started = "idle"
  /\ awaited = {}
  /\ closed = "open"

-----------------------------------------------------------------------------
(* start *)

\* start() runs every cleanup at once; it is rejected after close().
StartLifecycle ==
  /\ started = "idle" /\ closed = "open"
  /\ started' = "running"
  /\ waiting' = Workers
  /\ inFlight' = [w \in Workers |-> "startup"]
  /\ running' = [w \in Workers |-> running[w] + 1]
  /\ UNCHANGED <<timers, awaited, closed>>

\* A close() that came meanwhile goes unnoticed.
ScheduleAlways ==
  /\ started = "running" /\ waiting = {}
  /\ started' = "ready"
  /\ timers' = Workers
  /\ UNCHANGED <<inFlight, running, waiting, awaited, closed>>

\* The rest of #start, once all startup cleanups have succeeded. close() may have
\* been called meanwhile.
Schedule ==
  /\ started = "running" /\ waiting = {}
  /\ started' = "ready"
  /\ timers' = IF closed = "open" THEN Workers ELSE timers
  /\ UNCHANGED <<inFlight, running, waiting, awaited, closed>>

-----------------------------------------------------------------------------
(* #run *)

\* Nothing is asked about a cleanup that is still under way.
TimerFiresAlways(w) ==
  /\ w \in timers
  /\ closed = "open"
  /\ running[w] < 2
  /\ inFlight' = [inFlight EXCEPT ![w] = "periodic"]
  /\ running' = [running EXCEPT ![w] = @ + 1]
  /\ UNCHANGED <<timers, waiting, started, awaited, closed>>

\* An interval that elapses during a cleanup passes.
TimerFires(w) ==
  /\ w \in timers
  /\ closed = "open" /\ inFlight[w] = "none"
  /\ inFlight' = [inFlight EXCEPT ![w] = "periodic"]
  /\ running' = [running EXCEPT ![w] = @ + 1]
  /\ UNCHANGED <<timers, waiting, started, awaited, closed>>

\* A cleanup that fails leaves its worker engaged.
SettleUnlessFailed(w, ok) ==
  /\ inFlight[w] # "none" /\ running[w] > 0
  /\ LET fails == ~ok /\ inFlight[w] = "startup"
     IN  /\ started' = IF fails /\ started = "running" THEN "failed" ELSE started
         /\ closed' = IF fails /\ closed = "closing" /\ w \in awaited
                      THEN "failed" ELSE closed
         /\ waiting' = IF inFlight[w] = "startup" THEN waiting \ {w} ELSE waiting
         /\ awaited' = awaited \ {w}
  /\ inFlight' = IF ok THEN [inFlight EXCEPT ![w] = "none"] ELSE inFlight
  /\ running' = [running EXCEPT ![w] = @ - 1]
  /\ UNCHANGED timers

\* The cleanup settles and the worker is free again. Only the failure of a startup
\* cleanup is passed on, to start() and to a close() that waits for it: Promise.all
\* rejects with the first failure and waits for no more.
Settle(w, ok) ==
  /\ inFlight[w] # "none"
  /\ LET fails == ~ok /\ inFlight[w] = "startup"
     IN  /\ started' = IF fails /\ started = "running" THEN "failed" ELSE started
         /\ closed' = IF fails /\ closed = "closing" /\ w \in awaited
                      THEN "failed" ELSE closed
         /\ waiting' = IF inFlight[w] = "startup" THEN waiting \ {w} ELSE waiting
         /\ awaited' = awaited \ {w}
  /\ inFlight' = [inFlight EXCEPT ![w] = "none"]
  /\ running' = [running EXCEPT ![w] = @ - 1]
  /\ UNCHANGED timers

-----------------------------------------------------------------------------
(* close *)

\* Workers without an interval are passed over altogether.
CloseTimersOnly ==
  /\ closed = "open"
  /\ closed' = "closing"
  /\ timers' = {}
  /\ awaited' = {w \in timers : inFlight[w] # "none"}
  /\ UNCHANGED <<inFlight, running, waiting, started>>

\* close() runs up to its await; calling it again returns the same promise.
CloseLifecycle ==
  /\ closed = "open"
  /\ closed' = "closing"
  /\ timers' = {}
  /\ awaited' = {w \in Workers : inFlight[w] # "none"}
  /\ UNCHANGED <<inFlight, running, waiting, started>>

LifecycleCloses ==
  /\ closed = "closing" /\ awaited = {}
  /\ closed' = "closed"
  /\ UNCHANGED <<timers, inFlight, running, waiting, started, awaited>>

-----------------------------------------------------------------------------

\* Everything but the calls of the owner.
LifecycleStep ==
  \/ Schedule
  \/ \E w \in Workers : TimerFires(w) \/ \E ok \in BOOLEAN : Settle(w, ok)
  \/ LifecycleCloses

\* The event loop runs what is due; the cleanups of the stores settle.
LifecycleFairness ==
  /\ WF_lifecycleVars(Schedule)
  /\ WF_lifecycleVars(LifecycleCloses)
  /\ \A w \in Workers : WF_lifecycleVars(\E ok \in BOOLEAN : Settle(w, ok))
  /\ \A w \in Workers : WF_lifecycleVars(TimerFires(w))

-----------------------------------------------------------------------------
(* Properties *)

\* No cleanup of a store overlaps with another one of the same store.
NoOverlap == \A w \in Workers : running[w] = IF inFlight[w] = "none" THEN 0 ELSE 1

\* After close() no interval is left or comes back, not even when close() is called
\* while start() is under way.
ClosedHasNoTimers == closed # "open" => timers = {}

\* From close() on there is no interval, even where start() returns after it; and
\* once close() has returned normally no cleanup is under way and none can start.
ClosedIsQuiet ==
  /\ ClosedHasNoTimers
  /\ closed = "closed" => \A w \in Workers : running[w] = 0

\* What docs/en/session-storage.md says of close, that the "cleanup workers ...
\* drain" before it returns and the backing client may be closed: also when it
\* returns with an error.
SettledCloseIsQuiet ==
  closed \in {"closed", "failed"} => \A w \in Workers : running[w] = 0

\* A worker is swept again and again as long as the lifecycle is open, whatever
\* becomes of the single cleanup.
SweptForever ==
  \A w \in Workers :
    /\ started = "ready" /\ inFlight[w] = "none" ~>
         inFlight[w] = "periodic" \/ closed # "open"
    /\ inFlight[w] = "periodic" ~> inFlight[w] = "none"

=============================================================================
