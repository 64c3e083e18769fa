------------------------------- MODULE Daemon -------------------------------
(***************************************************************************)
(* The server's daemon (app/server/daemon.go): the accept loop, admission  *)
(* by total and per-source limits, one goroutine per connection, and the   *)
(* shutdown.  What a handler does with its connection is left open here;   *)
(* Server says it.                                                         *)
(***************************************************************************)
EXTENDS Naturals, FiniteSets

CONSTANTS
  Sources,              \* normalised source addresses
  MaxConnections,       \* daemon.max_connections
  MaxConnectionsPerIP,  \* daemon.max_connections_per_ip
  MaxArrivals           \* bound: connections that arrive

\* ServerDaemon's part of Server.Validate.
ASSUME LimitsAssumption ==
  /\ MaxConnections \in 1..4096
  /\ MaxConnectionsPerIP \in 1..MaxConnections
ASSUME MaxArrivalsAssumption == MaxArrivals \in Nat
ASSUME SourcesAssumption == Sources # {}

Conns == 1..MaxArrivals

VARIABLES
  ctx,        \* the context RunServer was given
  listener,   \* is the listening socket open
  daemon,     \* the accept loop: its step, and the error it returned
  admission,  \* connectionAdmission: total, and the count per source
  conn        \* per arrival: its goroutine's step, its source, its socket

daemonVars == <<ctx, listener, daemon, admission, conn>>

(***************************************************************************)
(* A connection is not yet there, turned away, or its goroutine runs the   *)
(* handler and then its deferred calls one by one: release the slot, close *)
(* the socket, connections.Done.                                           *)
(***************************************************************************)
ConnSteps ==
  {"none", "refused", "handling", "returned", "released", "closed", "done"}

DaemonTypeOK ==
  /\ ctx \in {"live", "cancelled"}
  /\ listener \in {"open", "closed"}
  /\ daemon \in [pc: {"accept", "backoff", "waiting", "returned"},
                 err: {"none", "accept", "timeout"}]
  /\ admission \in [total: Nat, perIP: [Sources -> Nat]]
  /\ conn \in [Conns -> [pc: ConnSteps, source: Sources,
                         sock: {"open", "closed"}]]

\* perIP has no entry for a source without connections: a count of 0.
DaemonInit ==
  /\ ctx = "live"
  /\ listener = "open"
  /\ daemon = [pc |-> "accept", err |-> "none"]
  /\ admission = [total |-> 0, perIP |-> [s \in Sources |-> 0]]
  /\ conn = [c \in Conns |-> [pc |-> "none", sock |-> "closed",
                               source |-> CHOOSE s \in Sources: TRUE]]

\* The connections are numbered as they arrive.
Arrives(c) ==
  conn[c].pc = "none" /\ \A d \in Conns: d < c => conn[d].pc # "none"

Admits(s) ==
  admission.total < MaxConnections /\ admission.perIP[s] < MaxConnectionsPerIP

acquire(s) ==
  admission' = [total |-> admission.total + 1,
                perIP |-> [admission.perIP EXCEPT ![s] = @ + 1]]

\* Mutant: the last connection of a source keeps its entry.
MutRelease(s) ==
  admission' =
    [total |-> IF admission.total > 0 THEN admission.total - 1
               ELSE admission.total,
     perIP |-> [admission.perIP EXCEPT ![s] = IF @ <= 1 THEN @ ELSE @ - 1]]

release(s) ==
  admission' =
    [total |-> IF admission.total > 0 THEN admission.total - 1
               ELSE admission.total,
     perIP |-> [admission.perIP EXCEPT ![s] = IF @ <= 1 THEN 0 ELSE @ - 1]]

-----------------------------------------------------------------------------
(***************************************************************************)
(* The accept loop.                                                        *)
(***************************************************************************)
Admit(c, s) ==
  /\ daemon.pc = "accept" /\ listener = "open"
  /\ Arrives(c) /\ Admits(s)
  /\ acquire(s)
  /\ conn' = [conn EXCEPT ![c] = [pc |-> "handling", source |-> s, sock |-> "open"]]
  /\ UNCHANGED <<ctx, listener, daemon>>

\* The connection is closed at once.
Refuse(c, s) ==
  /\ daemon.pc = "accept" /\ listener = "open"
  /\ Arrives(c) /\ ~Admits(s)
  /\ conn' = [conn EXCEPT ![c].pc = "refused"]
  /\ UNCHANGED <<ctx, listener, daemon, admission>>

\* Accept fails.  With the context ended the loop is left, whatever failed;
\* on a closed listener Accept is sure to fail.
AcceptStops(state) ==
  /\ daemon.pc = "accept" /\ ctx = "cancelled" /\ listener = state
  /\ daemon' = [daemon EXCEPT !.pc = "waiting"]
  /\ UNCHANGED <<ctx, listener, admission, conn>>

AcceptTemporary ==
  /\ daemon.pc = "accept" /\ listener = "open" /\ ctx = "live"
  /\ daemon' = [daemon EXCEPT !.pc = "backoff"]
  /\ UNCHANGED <<ctx, listener, admission, conn>>

\* The delay is over, or the context has ended.
BackoffEnds ==
  /\ daemon.pc = "backoff"
  /\ daemon' = [daemon EXCEPT !.pc = "accept"]
  /\ UNCHANGED <<ctx, listener, admission, conn>>

\* Any other error: the loop returns it and waits for nobody.
AcceptFails ==
  /\ daemon.pc = "accept" /\ listener = "open" /\ ctx = "live"
  /\ daemon' = [daemon EXCEPT !.pc = "returned", !.err = "accept"]
  /\ listener' = "closed"
  /\ UNCHANGED <<ctx, admission, conn>>

\* The context ends (a signal), and its AfterFunc closes the listener.
Cancel ==
  /\ ctx = "live"
  /\ ctx' = "cancelled"
  /\ UNCHANGED <<listener, daemon, admission, conn>>

CloseListener ==
  /\ ctx = "cancelled" /\ listener = "open"
  /\ listener' = "closed"
  /\ UNCHANGED <<ctx, daemon, admission, conn>>

AllDone == \A c \in Conns: conn[c].pc \in {"none", "refused", "done"}

ShutdownComplete ==
  /\ daemon.pc = "waiting" /\ AllDone
  /\ daemon' = [daemon EXCEPT !.pc = "returned"]
  /\ listener' = "closed"
  /\ UNCHANGED <<ctx, admission, conn>>

\* Mutant: the timer counts from the last connection that ended.
MutShutdownTimeout ==
  /\ daemon.pc = "waiting" /\ AllDone
  /\ daemon' = [daemon EXCEPT !.pc = "returned", !.err = "timeout"]
  /\ listener' = "closed"
  /\ UNCHANGED <<ctx, admission, conn>>

ShutdownTimeout ==
  /\ daemon.pc = "waiting"
  /\ daemon' = [daemon EXCEPT !.pc = "returned", !.err = "timeout"]
  /\ listener' = "closed"
  /\ UNCHANGED <<ctx, admission, conn>>

-----------------------------------------------------------------------------
(***************************************************************************)
(* A connection's goroutine.  Its handler returns, with an error or        *)
(* without, or panics: the deferred calls are the same.                    *)
(***************************************************************************)
HandlerReturns(c) ==
  /\ conn[c].pc = "handling"
  /\ conn' = [conn EXCEPT ![c].pc = "returned"]
  /\ UNCHANGED <<ctx, listener, daemon, admission>>

Release(c) ==
  /\ conn[c].pc = "returned"
  /\ release(conn[c].source)
  /\ conn' = [conn EXCEPT ![c].pc = "released"]
  /\ UNCHANGED <<ctx, listener, daemon>>

CloseConn(c) ==
  /\ conn[c].pc = "released"
  /\ conn' = [conn EXCEPT ![c].pc = "closed", ![c].sock = "closed"]
  /\ UNCHANGED <<ctx, listener, daemon, admission>>

ConnectionDone(c) ==
  /\ conn[c].pc = "closed"
  /\ conn' = [conn EXCEPT ![c].pc = "done"]
  /\ UNCHANGED <<ctx, listener, daemon, admission>>

DaemonNext ==
  \/ AcceptStops("open") \/ AcceptStops("closed") \/ AcceptTemporary \/ BackoffEnds \/ AcceptFails
  \/ Cancel \/ CloseListener \/ ShutdownComplete \/ ShutdownTimeout
  \/ \E c \in Conns:
       \/ \E s \in Sources: Admit(c, s) \/ Refuse(c, s)
       \/ HandlerReturns(c)
       \/ Release(c) \/ CloseConn(c) \/ ConnectionDone(c)

-----------------------------------------------------------------------------
(***************************************************************************)
(* The counters of the admission are what they count: the connections that *)
(* were admitted and have not given their slot back, in total and for      *)
(* every source, and neither limit is exceeded.  A slot lost on some way   *)
(* out of a connection, or given back twice, would break the equality.     *)
(* (connectionAdmission, the deferred calls of runDaemon's goroutine)      *)
(***************************************************************************)
Holders == {c \in Conns: conn[c].pc \in {"handling", "returned"}}
HoldersOf(s) == {c \in Holders: conn[c].source = s}

AdmissionAccounted ==
  /\ admission.total = Cardinality(Holders)
  /\ admission.total <= MaxConnections
  /\ \A s \in Sources:
       /\ admission.perIP[s] = Cardinality(HoldersOf(s))
       /\ admission.perIP[s] <= MaxConnectionsPerIP
=============================================================================
