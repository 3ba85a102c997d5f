------------------------------ MODULE Gateway ------------------------------
(***************************************************************************)
(* The process (cmd/gateway/main.go): its start, the signals that end it,  *)
(* and the shutdown that waits for the requests of RetryLoop.              *)
(*                                                                         *)
(* main starts the server in a goroutine, then asks for signals, waits for *)
(* one and calls Shutdown, which stops the listener and waits until no     *)
(* connection is active, or until its own timeout.  log.Fatal and the end  *)
(* of main end every goroutine.                                            *)
(***************************************************************************)
EXTENDS RetryLoop

CONSTANTS
  Grace,      \* the timeout of Shutdown, 30 s
  FreshLimit  \* net/http: how long Shutdown waits for the first request of a
              \* connection it has accepted before (5 s)

ASSUME GatewayAssumption == Grace \in Nat /\ FreshLimit \in Nat

VARIABLES
  main,      \* where the main goroutine is
  listener,  \* "none", "spawned", "open" or "closed"
  quit,      \* the channel of signals holds one
  signalled, \* history: a signal has come since Notify
  grace,     \* time to the timeout of Shutdown
  exit       \* how the process has ended, or "none"

vars == <<req, main, listener, quit, signalled, grace, exit>>

Init ==
  /\ RetryInit
  /\ main = "preparing"
  /\ listener = "none"
  /\ quit = FALSE
  /\ signalled = FALSE
  /\ grace = Grace
  /\ exit = "none"

Running == exit = "none"

\* The process ends, and every goroutine with it.
Stop(how) ==
  /\ exit' = how
  /\ req' = [r \in Requests |-> NewRequest]
  /\ UNCHANGED <<main, listener, quit, signalled, grace>>

MainGoes(from, to) == Running /\ main = from /\ main' = to

----------------------------------------------------------------------------
(* The main goroutine.                                                     *)

\* DATABASE_URL, the connection and the migrations are all there.
Prepare ==
  /\ MainGoes("preparing", "prepared")
  /\ UNCHANGED <<req, listener, quit, signalled, grace, exit>>

PrepareFails == Running /\ main = "preparing" /\ Stop("fatal")

SpawnServer ==
  /\ MainGoes("prepared", "spawned")
  /\ listener' = "spawned"
  /\ UNCHANGED <<req, quit, signalled, grace, exit>>

Notify ==
  /\ MainGoes("spawned", "notified")
  /\ UNCHANGED <<req, listener, quit, signalled, grace, exit>>

\* Mutant of BeginShutdown: the listener stays open.
BeginShutdownListening ==
  /\ MainGoes("notified", "draining")
  /\ quit
  /\ quit' = FALSE
  /\ UNCHANGED <<req, listener, signalled, grace, exit>>

\* Shutdown closes the listener first, or keeps it from being opened.
BeginShutdown ==
  /\ MainGoes("notified", "draining")
  /\ quit
  /\ quit' = FALSE
  /\ listener' = IF listener = "open" THEN "closed" ELSE "none"
  /\ UNCHANGED <<req, signalled, grace, exit>>

FinishShutdown ==
  /\ Running /\ main = "draining"
  /\ \A r \in Requests : ~ InProgress(r)
  /\ Stop("clean")

\* Mutant of ExpireShutdown: the context of Shutdown has no timeout.
ExpireShutdownNever == FALSE

\* Shutdown looks from time to time, so it may also miss that all are done.
ExpireShutdown == Running /\ main = "draining" /\ grace = 0 /\ Stop("forced")

MainStep ==
  \/ Prepare \/ PrepareFails \/ SpawnServer \/ Notify
  \/ BeginShutdown \/ FinishShutdown \/ ExpireShutdown

----------------------------------------------------------------------------
(* The server goroutine, the requests, the signals and the clock.          *)

Listen ==
  /\ Running /\ listener = "spawned"
  /\ listener' = "open"
  /\ UNCHANGED <<req, main, quit, signalled, grace, exit>>

\* The port is taken: log.Fatalf in the server goroutine.
ListenFails == Running /\ listener = "spawned" /\ Stop("fatal")

\* A request comes on a new connection, or on one accepted shortly before the
\* listener was closed.
Serve(r) ==
  /\ Running
  /\ listener = "open" \/ (listener = "closed" /\ Grace - grace <= FreshLimit)
  /\ Arrive(r)
  /\ UNCHANGED <<main, listener, quit, signalled, grace, exit>>

Requested(r, step) ==
  Running /\ step /\ UNCHANGED <<main, listener, quit, signalled, grace, exit>>

\* Before Notify a signal kills the process.
SignalKills ==
  Running /\ main \in {"preparing", "prepared", "spawned"} /\ Stop("killed")

\* The channel keeps one signal; nobody receives a second one.
Signal ==
  /\ Running /\ main = "notified"
  /\ signalled' = TRUE
  /\ quit' = TRUE
  /\ UNCHANGED <<req, main, listener, grace, exit>>

Tick ==
  /\ Running
  /\ RetryTick
  /\ IF main = "draining" THEN grace > 0 /\ grace' = grace - 1
                          ELSE UNCHANGED grace
  /\ UNCHANGED <<main, listener, quit, signalled, exit>>

Next ==
  \/ MainStep \/ Listen \/ ListenFails
  \/ \E r \in Requests :
       \/ Serve(r)
       \/ Requested(r, Proceed(r))
       \/ Requested(r, React(r))
  \/ SignalKills \/ Signal
  \/ Tick

Spec == Init /\ [][Next]_vars

\* Goroutines run and time passes.  Nobody has to send a signal, and nothing
\* obliges a slot to come free or a backend to answer.
FairSpec ==
  /\ Spec
  /\ WF_vars(MainStep) /\ WF_vars(Tick)
  /\ WF_vars(\E r \in Requests : Requested(r, Proceed(r)))

----------------------------------------------------------------------------
(* Properties.                                                             *)

TypeOK ==
  /\ RetryTypeOK
  /\ main \in {"preparing", "prepared", "spawned", "notified", "draining"}
  /\ listener \in {"none", "spawned", "open", "closed"}
  /\ quit \in BOOLEAN /\ signalled \in BOOLEAN
  /\ grace \in 0..Grace
  /\ exit \in {"none", "fatal", "killed", "clean", "forced"}

\* How main.go and the defaults choose the grace: 5 s, 3 attempts of 2 s + 5 s
\* and sleeps of 125 and 250 ms are less than 30 s, and WriteTimeout is 30 s.
GraceSuffices == FreshLimit + Longest < Grace /\ WriteTimeout <= Grace

(* "Give server 30 seconds to complete ongoing requests" (main.go:105): if *)
(* the grace suffices, a shutdown cuts off no request, whenever it came    *)
(* and whatever its attempts met, but for one that has waited in Release   *)
(* and one that has come since the shutdown began, on a connection that    *)
(* was accepted before, and has a slow client.                             *)
NoRequestCutOff ==
  [][Running /\ exit' \in {"clean", "forced"} =>
       \A r \in Requests : InProgress(r) =>
         At(r, "held") \/ (req[r].stalled /\ req[r].age <= Grace)]_vars

(* A signal that comes after Notify stops the process, even when it comes  *)
(* before main receives and whatever the requests do (main.go:99-113).     *)
SignalStops == signalled ~> ~ Running
=============================================================================
