----------------------------- MODULE Establish -----------------------------
(***************************************************************************)
(* Connection establishment: from an open socket to an active session.     *)
(*                                                                         *)
(* Two sides run against each other over one connection, the client in     *)
(* establish.Connect and the server in BeginAccept and PendingServer:      *)
(* Noise handshake, authentication, the application's decision, and the    *)
(* hand-over of the connection to a session.  On each side several threads *)
(* share the establishment runtime (runtime.go):                           *)
(*   "main"            the caller of Connect, BeginAccept, Accept, Reject  *)
(*   "watcher"         the goroutine that waits for the runtime's context  *)
(*   "handshakeTimer"  the callback of the handshake's phase timer         *)
(*   "authTimer"       on the client the callback of the authentication    *)
(*                     phase timer, on the server the AfterFunc of the     *)
(*                     authentication context                              *)
(* Each of them may cancel the context and close the runtime's current     *)
(* owner of the connection, at any moment.                                 *)
(*                                                                         *)
(* Cryptography is symbolic: a digest is the value it is taken of, and a   *)
(* signature verifies for exactly the key and the payload it was made      *)
(* with.  The runtime's phase and terminal fields are read by nothing but  *)
(* the log and are left out.                                               *)
(***************************************************************************)
EXTENDS Trust

CONSTANTS
  Deployments,      \* what may differ outside this code: see DeploymentType
  MaxSessionFrames  \* bound: frames each active session sends

(***************************************************************************)
(* A deployment: do both ends share one Noise session (or does something   *)
(* in between hold one with each), do they run the same Noise prologue and *)
(* the same authentication version, what does the client's known_hosts     *)
(* file say, does the client's proof verify, and do writes to a peer that  *)
(* has stopped reading block (or do the kernel's buffers take them).  The  *)
(* faults bound what may go wrong in a behaviour: the caller's context on  *)
(* a side ends, the host of a side stops responding, or a timer of a side  *)
(* fires although the peer is still responding.  Timers fire without a     *)
(* fault once the peer has gone silent.                                    *)
(***************************************************************************)
Faults ==
  {"cancel", "stop", "handshakeTimer", "authTimer"} \X {"client", "server"}

\* The server's host key is an Ed25519 key.
KnownHostType ==
  {l \in [kind: {"key", "text", "garbage"}, algorithm: {"ed25519", "other"},
          marker: {"", "revoked", "cert-authority"}, key: {"hostKey", "otherKey"},
          hosts: Seq([name: {"server", "elsewhere"}, plain: BOOLEAN])]:
     l.key = "hostKey" => l.algorithm = "ed25519"}

DeploymentType ==
  [oneSession: BOOLEAN, sameNoise: BOOLEAN, sameVersion: BOOLEAN,
   known: [path: Seq(ComponentType({"user", "other"})),
           lines: Seq(KnownHostType)],
   proof: BOOLEAN, clogs: BOOLEAN, faults: SUBSET Faults]

ASSUME DeploymentsAssumption == Deployments \subseteq DeploymentType
ASSUME MaxSessionFramesAssumption == MaxSessionFrames \in Nat

VARIABLES
  side,      \* per side: main's step, the runtime, the session, the socket
  thread,    \* per side and thread: how far its Fail has come
  hold,      \* per side and thread: the owner it has taken and will close
  deadline,  \* the server's authentication context
  pending,   \* PendingServer.state
  wire,      \* per sender: frames sent and not yet read
  stopped,   \* the sides whose host has stopped responding
  env        \* the deployment

vars == <<side, thread, hold, deadline, pending, wire, stopped, env>>

Sides == {"client", "server"}
Peer(p) == IF p = "client" THEN "server" ELSE "client"
Threads == {"main", "watcher", "handshakeTimer", "authTimer"}
Owners == {"none", "conn", "transport", "session"}

(***************************************************************************)
(* Main's steps.  A step is named for what it is about to do.              *)
(***************************************************************************)
HandshakeSteps == {"handshakeWrite", "handshakeRead"}
ClientAuthSteps ==
  {"sendHostAuthInit", "receiveServerAuth", "sendClientAuthRequest",
   "receiveClientAuthResponse"}
ServerAuthSteps ==
  {"beginServer", "receiveHostAuthInit", "sendAuthError", "sendServerAuth",
   "receiveClientAuthRequest", "rejectInvalidClient"}
CommitSteps == {"bind", "setSessionOwner", "activate", "lastCheck", "release"}
ServerCommitSteps ==
  {"policy", "accept", "stopAuth", "cancelAuth", "sendClientAuthOK"}
Steps ==
  {"begin", "startHandshake", "handshakeCheck", "handshakeStop", "setOwner",
   "startAuth", "authCheck", "authStop", "verifyFailed", "sendReject",
   "rejectDeadline", "failing", "failed", "refused", "returned"}
  \cup HandshakeSteps \cup ClientAuthSteps \cup ServerAuthSteps
  \cup CommitSteps \cup ServerCommitSteps

AuthStates ==
  {"noise-established", "host-auth-init-sent", "host-auth-init-received",
   "server-auth-sent", "server-auth-received", "client-auth-sent",
   "client-auth-received", "authenticated"}

SideType ==
  [pc: Steps, err: BOOLEAN, ctx: {"live", "cancelled"}, owner: Owners,
   session: {"none", "bound", "active", "down"},
   sock: {"open", "establish", "session"}, auth: AuthStates,
   sent: 0..MaxSessionFrames]
ThreadStates == {"idle", "armed", "stopped", "fired", "failing", "took", "done"}

Init ==
  /\ side = [p \in Sides |->
       [pc |-> "begin", err |-> FALSE, ctx |-> "live", owner |-> "none",
        session |-> "none", sock |-> "open", auth |-> "noise-established",
        sent |-> 0]]
  /\ thread = [p \in Sides |-> [k \in Threads |-> "idle"]]
  /\ hold = [p \in Sides |-> [k \in Threads |-> "none"]]
  /\ deadline = "none"
  /\ pending = "undecided"
  /\ wire = [p \in Sides |-> <<>>]
  /\ stopped = {}
  /\ env \in {d \in Deployments: loadKnownHosts(d.known, "user") # Fail}

-----------------------------------------------------------------------------
(***************************************************************************)
(* The messages and what they sign.                                        *)
(***************************************************************************)

\* Mutant: a binding that both ends derive without the Noise session.
MutChannelBinding(p) == "shared"

\* The Noise session a side is in, which exports the channel binding.
ChannelBinding(p) == IF env.oneSession THEN "shared" ELSE p

HostAuthInit ==
  [kind |-> "hostAuthInit",
   version |-> IF env.sameVersion THEN "v1" ELSE "other", nonce |-> "cn"]

ServerAuthToSign(binding, init, key, nonce) ==
  [context |-> "server", binding |-> binding, hostAuthInit |-> init,
   key |-> key, nonce |-> nonce]

\* The transcript hash of a server message leaves the signature out.
HashServerAuth(msg) == [key |-> msg.key, nonce |-> msg.nonce]

ServerAuth(init) ==
  [kind |-> "serverAuth", key |-> "hostKey", nonce |-> "sn",
   sig |-> [by |-> "hostKey",
            of |-> ServerAuthToSign(ChannelBinding("server"), init,
                                    "hostKey", "sn")]]

ClientAuthToSign(binding, init, serverAuthHash, user, key) ==
  [context |-> "client", binding |-> binding, hostAuthInit |-> init,
   serverAuth |-> serverAuthHash, user |-> user, key |-> key]

ClientAuthRequest(serverAuth) ==
  [kind |-> "clientAuthRequest", user |-> "user", key |-> "userKey",
   sig |-> [by |-> IF env.proof THEN "userKey" ELSE "otherKey",
            of |-> ClientAuthToSign(ChannelBinding("client"), HostAuthInit,
                                    HashServerAuth(serverAuth), "user",
                                    "userKey")]]

Verifies(key, payload, sig) == sig = [by |-> key, of |-> payload]

-----------------------------------------------------------------------------
(***************************************************************************)
(* The socket.  Closing it here fails this side's reads and writes; closed *)
(* by the peer, what was sent can still be read.                           *)
(***************************************************************************)
Alive(p) == p \notin stopped
At(p, step) == Alive(p) /\ side[p].pc = step
Cancelled(p) == side[p].ctx = "cancelled"
Incoming(p) == wire[Peer(p)]

CanRead(p) == side[p].sock = "open" /\ Incoming(p) # <<>>
CanWrite(p) ==
  side[p].sock = "open" /\ ~(env.clogs /\ Peer(p) \in stopped)
ReadFails(p) ==
  side[p].sock # "open"
    \/ (side[Peer(p)].sock # "open" /\ Incoming(p) = <<>>)
WriteFails(p) == side[p].sock # "open" \/ side[Peer(p)].sock # "open"

Sent(p, frame) == [wire EXCEPT ![p] = Append(@, frame)]
Received(p) == [wire EXCEPT ![Peer(p)] = Tail(@)]

(***************************************************************************)
(* Moving main on.                                                         *)
(***************************************************************************)
Moved(p, step) == [side EXCEPT ![p].pc = step]
Advanced(p, step, state) == [side EXCEPT ![p].pc = step, ![p].auth = state]

\* Main calls runtime.Fail (runtime.Close is Fail with context.Canceled).
StartsFailing(p, th) == [th EXCEPT ![p]["main"] = "fired"]

\* stopTimer: the phase timer, if it has not fired yet.  The server's
\* authentication deadline is not a phase timer.
PhaseTimers(p) ==
  {"handshakeTimer"} \cup (IF p = "client" THEN {"authTimer"} ELSE {})
StopPhaseTimer(p) ==
  [thread EXCEPT ![p] = [k \in Threads |->
    IF k \in PhaseTimers(p) /\ @[k] = "armed" THEN "stopped" ELSE @[k]]]

\* Where main goes when the read or write of a step fails.
AfterError(step) ==
  CASE step \in HandshakeSteps -> "handshakeCheck"
    [] step \in ClientAuthSteps -> "authCheck"
    [] step \in ServerAuthSteps -> "verifyFailed"
    [] step = "sendReject" -> "rejectDeadline"
    [] OTHER -> "failing"
Errored(p) ==
  [side EXCEPT ![p].pc = AfterError(@), ![p].err = TRUE]

Reads ==
  {"handshakeRead", "receiveServerAuth", "receiveClientAuthResponse",
   "receiveHostAuthInit", "receiveClientAuthRequest"}
Writes ==
  {"handshakeWrite", "sendHostAuthInit", "sendClientAuthRequest",
   "sendAuthError", "sendServerAuth", "rejectInvalidClient",
   "sendClientAuthOK", "sendReject"}

\* A read or a write of main returns an error.
IOFails(p) ==
  /\ Alive(p)
  /\ \/ side[p].pc \in Reads /\ ReadFails(p)
     \/ side[p].pc \in Writes /\ WriteFails(p)
  /\ side' = Errored(p)
  /\ thread' = IF AfterError(side[p].pc) = "failing"
               THEN StartsFailing(p, thread) ELSE thread
  /\ UNCHANGED <<hold, deadline, pending, wire, stopped, env>>

\* Main sends a frame, and advances its authentication state.
Sends(p, step, frame, next, state) ==
  /\ At(p, step)
  /\ CanWrite(p)
  /\ wire' = Sent(p, frame)
  /\ side' = Advanced(p, next, state)

-----------------------------------------------------------------------------
(***************************************************************************)
(* The runtime.                                                            *)
(***************************************************************************)

\* The entry check of Connect and BeginAccept: with a dead parent context
\* they return before there is a runtime.
Refuse(p) ==
  /\ At(p, "begin")
  /\ Cancelled(p)
  /\ side' = Moved(p, "refused")
  /\ UNCHANGED <<thread, hold, deadline, pending, wire, stopped, env>>

\* newRuntime: the socket has an owner and a watcher.
NewRuntime(p) ==
  /\ At(p, "begin")
  /\ ~Cancelled(p)
  /\ side' = [side EXCEPT ![p].pc = "startHandshake", ![p].owner = "conn"]
  /\ UNCHANGED <<thread, hold, deadline, pending, wire, stopped, env>>

\* Mutant: the phase runs without its timer.
MutRunWithTimeout(p, step, timer, first) ==
  /\ At(p, step)
  /\ side' = Moved(p, first)
  /\ UNCHANGED <<thread, hold, deadline, pending, wire, stopped, env>>

\* RunWithTimeout up to its function: the context's cause, then a timer, for
\* which there must still be an owner.
RunWithTimeout(p, step, timer, first) ==
  /\ At(p, step)
  /\ IF Cancelled(p) \/ side[p].owner = "none"
     THEN /\ side' = Moved(p, "failing")
          /\ thread' = StartsFailing(p, thread)
     ELSE /\ side' = Moved(p, first)
          /\ thread' = [thread EXCEPT ![p][timer] = "armed"]
  /\ UNCHANGED <<hold, deadline, pending, wire, stopped, env>>

StartHandshake(p) ==
  RunWithTimeout(p, "startHandshake", "handshakeTimer",
                 IF p = "client" THEN "handshakeWrite" ELSE "handshakeRead")
StartAuth(p) ==
  RunWithTimeout(p, "startAuth", "authTimer", "sendHostAuthInit")

\* RunWithTimeout after its function: a cancelled context is an error, then
\* the deferred stopTimer.
CheckPhase(p, step, next) ==
  /\ At(p, step)
  /\ side' = [side EXCEPT ![p].pc = next, ![p].err = @ \/ Cancelled(p)]
  /\ UNCHANGED <<thread, hold, deadline, pending, wire, stopped, env>>

StopPhase(p, step, next) ==
  /\ At(p, step)
  /\ IF side[p].err
     THEN /\ side' = Moved(p, "failing")
          /\ thread' = StartsFailing(p, StopPhaseTimer(p))
     ELSE /\ side' = Moved(p, next)
          /\ thread' = StopPhaseTimer(p)
  /\ UNCHANGED <<hold, deadline, pending, wire, stopped, env>>

\* The peer will not answer, and its socket stays open.
Silent(p) == p \in stopped \/ side[p].pc = "refused"
MayFire(p, k) == Alive(p) /\ (Silent(Peer(p)) \/ <<k, p>> \in env.faults)

\* A phase timer, or the server's authentication context, fires: its
\* callback is a goroutine of its own that will call Fail.
Fire(p, k) ==
  /\ MayFire(p, k)
  /\ k \in PhaseTimers(p)
  /\ thread[p][k] = "armed"
  /\ thread' = [thread EXCEPT ![p][k] = "fired"]
  /\ UNCHANGED <<side, hold, deadline, pending, wire, stopped, env>>

AuthExpires ==
  /\ MayFire("server", "authTimer")
  /\ deadline = "running"
  /\ deadline' = "expired"
  /\ thread' = IF thread["server"]["authTimer"] = "armed"
               THEN [thread EXCEPT !["server"]["authTimer"] = "fired"]
               ELSE thread
  /\ UNCHANGED <<side, hold, pending, wire, stopped, env>>

\* The authentication context also ends with its parent, the runtime's
\* context; cancelling that again changes nothing.
AuthContextEnds ==
  /\ Alive("server")
  /\ Cancelled("server")
  /\ thread["server"]["authTimer"] = "armed"
  /\ thread' = [thread EXCEPT !["server"]["authTimer"] = "failing"]
  /\ UNCHANGED <<side, hold, deadline, pending, wire, stopped, env>>

\* Fail, first half: the context is cancelled before anything is closed.
FailCancel(p, k) ==
  /\ Alive(p)
  /\ thread[p][k] = "fired"
  /\ side' = [side EXCEPT ![p].ctx = "cancelled"]
  /\ thread' = [thread EXCEPT ![p][k] = "failing"]
  /\ UNCHANGED <<hold, deadline, pending, wire, stopped, env>>

\* Mutant: whatever was taken is closed, nil too.
MutTakeOwner(p, k) ==
  /\ hold' = [hold EXCEPT ![p][k] = side[p].owner]
  /\ side' = [side EXCEPT ![p].owner = "none"]
  /\ thread' = [StopPhaseTimer(p) EXCEPT ![p][k] = "took"]
  /\ UNCHANGED <<deadline, pending, wire, stopped, env>>

\* closeCurrentOwner: the owner is taken under the lock ...  A thread that
\* finds none is done, and main returns its error.
TakeOwner(p, k) ==
  /\ hold' = [hold EXCEPT ![p][k] = side[p].owner]
  /\ side' = [side EXCEPT ![p].owner = "none",
       ![p].pc = IF k = "main" /\ side[p].owner = "none" THEN "failed" ELSE @]
  /\ thread' = [StopPhaseTimer(p) EXCEPT
       ![p][k] = IF side[p].owner = "none" THEN "done" ELSE "took"]
  /\ UNCHANGED <<deadline, pending, wire, stopped, env>>

FailTake(p, k) ==
  /\ Alive(p)
  /\ thread[p][k] = "failing"
  /\ TakeOwner(p, k)

\* The watcher wakes on the cancelled context and does the same.
Watch(p) ==
  /\ Alive(p)
  /\ Cancelled(p)
  /\ side[p].pc \notin {"begin", "refused"}
  /\ thread[p]["watcher"] = "idle"
  /\ TakeOwner(p, "watcher")

\* ... and closed outside it.  Closing a session is its shutdown.
CloseOwner(p, k) ==
  /\ Alive(p)
  /\ thread[p][k] = "took"
  /\ thread' = [thread EXCEPT ![p][k] = "done"]
  /\ hold' = [hold EXCEPT ![p][k] = "none"]
  /\ side' = [side EXCEPT
       ![p].pc = IF k = "main" THEN "failed" ELSE @,
       ![p].sock = IF hold[p][k] \in {"conn", "transport"} /\ @ = "open"
                   THEN "establish" ELSE @,
       ![p].session = IF hold[p][k] = "session" THEN "down" ELSE @]
  /\ UNCHANGED <<deadline, pending, wire, stopped, env>>

\* SetOwner, after the handshake and after Bind.  The server creates its
\* authentication context here.
SetOwner(p) ==
  /\ At(p, "setOwner")
  /\ side' = [side EXCEPT ![p].owner = "transport",
       ![p].pc = IF p = "client" THEN "startAuth" ELSE "beginServer"]
  /\ IF p = "client" THEN UNCHANGED <<thread, deadline>>
     ELSE /\ deadline' = "running"
          /\ thread' = [thread EXCEPT ![p]["authTimer"] = "armed"]
  /\ UNCHANGED <<hold, pending, wire, stopped, env>>

-----------------------------------------------------------------------------
(***************************************************************************)
(* The Noise handshake: one message each way.  The client finishes with    *)
(* the read of the second message, the first one that can fail to decrypt. *)
(***************************************************************************)
HandshakeWrite(p) ==
  /\ At(p, "handshakeWrite")
  /\ CanWrite(p)
  /\ wire' = Sent(p, [kind |-> "noise"])
  /\ side' = Moved(p, IF p = "client" THEN "handshakeRead"
                      ELSE "handshakeCheck")
  /\ UNCHANGED <<thread, hold, deadline, pending, stopped, env>>

HandshakeRead(p) ==
  /\ At(p, "handshakeRead")
  /\ CanRead(p)
  /\ wire' = Received(p)
  /\ side' = IF p = "server" THEN Moved(p, "handshakeWrite")
             ELSE IF env.sameNoise /\ Head(Incoming(p)).kind = "noise"
             THEN Moved(p, "handshakeCheck") ELSE Errored(p)
  /\ UNCHANGED <<thread, hold, deadline, pending, stopped, env>>

HandshakeCheck(p) == CheckPhase(p, "handshakeCheck", "handshakeStop")
HandshakeStop(p) == StopPhase(p, "handshakeStop", "setOwner")

-----------------------------------------------------------------------------
(***************************************************************************)
(* The client: auth.RunClient.                                             *)
(***************************************************************************)
SendHostAuthInit ==
  /\ Sends("client", "sendHostAuthInit", HostAuthInit, "receiveServerAuth",
           "host-auth-init-sent")
  /\ UNCHANGED <<thread, hold, deadline, pending, stopped, env>>

\* The server's proof must be over this connection's binding and this
\* client's opening message, and its key must be a trusted one.
AcceptsServerAuth(msg) ==
  /\ Verifies(msg.key,
       ServerAuthToSign(ChannelBinding("client"), HostAuthInit, msg.key,
                        msg.nonce), msg.sig)
  /\ \E entries \in loadKnownHosts(env.known, "user"):
       knownHostsVerifier(entries, "server", msg.key)

ReceiveServerAuth ==
  /\ At("client", "receiveServerAuth")
  /\ CanRead("client")
  /\ LET msg == Head(Incoming("client"))
     IN side' = IF msg.kind # "serverAuth" THEN Errored("client")
                ELSE IF AcceptsServerAuth(msg)
                THEN Advanced("client", "sendClientAuthRequest",
                              "server-auth-received")
                ELSE [Errored("client") EXCEPT
                        !["client"].auth = "server-auth-received"]
  /\ wire' = Received("client")
  /\ UNCHANGED <<thread, hold, deadline, pending, stopped, env>>

\* The key is used only after the host was verified.
SendClientAuthRequest ==
  /\ Sends("client", "sendClientAuthRequest",
           ClientAuthRequest([key |-> "hostKey", nonce |-> "sn"]),
           "receiveClientAuthResponse", "client-auth-sent")
  /\ UNCHANGED <<thread, hold, deadline, pending, stopped, env>>

ReceiveClientAuthResponse ==
  /\ At("client", "receiveClientAuthResponse")
  /\ CanRead("client")
  /\ side' = IF Head(Incoming("client")).kind = "ok"
             THEN Advanced("client", "authCheck", "authenticated")
             ELSE Errored("client")
  /\ wire' = Received("client")
  /\ UNCHANGED <<thread, hold, deadline, pending, stopped, env>>

AuthCheck == CheckPhase("client", "authCheck", "authStop")
AuthStop == StopPhase("client", "authStop", "bind")

-----------------------------------------------------------------------------
(***************************************************************************)
(* The server: auth.BeginServer, the application's policy, and the one     *)
(* decision of PendingServer.                                              *)
(***************************************************************************)
AuthDone == deadline = "expired" \/ Cancelled("server")

\* stopAuth: the AfterFunc, unless it has started.
StopAuth(th) ==
  [th EXCEPT !["server"]["authTimer"] = IF @ = "armed" THEN "stopped" ELSE @]
CancelAuth == IF deadline = "running" THEN "cancelled" ELSE deadline

BeginServer ==
  /\ At("server", "beginServer")
  /\ side' = Moved("server", IF AuthDone THEN "verifyFailed"
                             ELSE "receiveHostAuthInit")
  /\ UNCHANGED <<thread, hold, deadline, pending, wire, stopped, env>>

ReceiveHostAuthInit ==
  /\ At("server", "receiveHostAuthInit")
  /\ CanRead("server")
  /\ LET msg == Head(Incoming("server"))
     IN side' = IF msg.kind # "hostAuthInit" THEN Errored("server")
                ELSE Advanced("server",
                       IF msg.version = "v1" THEN "sendServerAuth"
                       ELSE "sendAuthError", "host-auth-init-received")
  /\ wire' = Received("server")
  /\ UNCHANGED <<thread, hold, deadline, pending, stopped, env>>

\* The version's refusal, whose own failure is ignored.
SendAuthError ==
  /\ Sends("server", "sendAuthError", [kind |-> "error"], "verifyFailed",
           "host-auth-init-received")
  /\ UNCHANGED <<thread, hold, deadline, pending, stopped, env>>

SendServerAuth ==
  /\ Sends("server", "sendServerAuth", ServerAuth(HostAuthInit),
           "receiveClientAuthRequest", "server-auth-sent")
  /\ UNCHANGED <<thread, hold, deadline, pending, stopped, env>>

\* The client's proof: a signature of the presented key over this
\* connection's binding and both messages before it.
AcceptsClientAuth(msg) ==
  Verifies(msg.key,
    ClientAuthToSign(ChannelBinding("server"), HostAuthInit,
                     HashServerAuth(ServerAuth(HostAuthInit)), msg.user,
                     msg.key), msg.sig)

ReceiveClientAuthRequest ==
  /\ At("server", "receiveClientAuthRequest")
  /\ CanRead("server")
  /\ LET msg == Head(Incoming("server"))
     IN side' = IF msg.kind # "clientAuthRequest" THEN Errored("server")
                ELSE Advanced("server",
                       IF AcceptsClientAuth(msg) THEN "policy"
                       ELSE "rejectInvalidClient", "client-auth-received")
  /\ wire' = Received("server")
  /\ UNCHANGED <<thread, hold, deadline, pending, stopped, env>>

RejectInvalidClient ==
  /\ Sends("server", "rejectInvalidClient", [kind |-> "reject"],
           "verifyFailed", "client-auth-received")
  /\ UNCHANGED <<thread, hold, deadline, pending, stopped, env>>

\* BeginAccept's error path stops the deadline before it fails.
VerifyFailed ==
  /\ At("server", "verifyFailed")
  /\ side' = Moved("server", "failing")
  /\ thread' = StartsFailing("server", StopAuth(thread))
  /\ deadline' = CancelAuth
  /\ UNCHANGED <<hold, pending, wire, stopped, env>>

\* The application decides, and claims the decision before it is sent.
Decide(verdict, next) ==
  /\ At("server", "policy")
  /\ pending = "undecided"
  /\ pending' = verdict
  /\ side' = Moved("server", next)
  /\ UNCHANGED <<thread, hold, deadline, wire, stopped, env>>
DecideAccept == Decide("accepted", "accept")
DecideReject == Decide("rejected", "sendReject")

\* PendingServer.Close before a decision: the application gives up without
\* one (its deferred call when the policy panics).  After a decision Close
\* repeats a failure that has already been made, or does nothing.
PendingClose == Decide("closed", "rejectDeadline")

SendReject ==
  /\ Sends("server", "sendReject", [kind |-> "reject"], "rejectDeadline",
           "client-auth-received")
  /\ UNCHANGED <<thread, hold, deadline, pending, stopped, env>>

RejectDeadline ==
  /\ At("server", "rejectDeadline")
  /\ side' = Moved("server", "failing")
  /\ thread' = StartsFailing("server", StopAuth(thread))
  /\ deadline' = CancelAuth
  /\ UNCHANGED <<hold, pending, wire, stopped, env>>

\* A check of a context that fails main.
FailsIf(p, dead, next) ==
  IF dead THEN /\ side' = Moved(p, "failing")
               /\ thread' = StartsFailing(p, thread)
          ELSE side' = Moved(p, next) /\ UNCHANGED thread

Accept ==
  /\ At("server", "accept")
  /\ FailsIf("server", AuthDone, "bind")
  /\ UNCHANGED <<hold, deadline, pending, wire, stopped, env>>

\* completeAuthDeadline: the callback is stopped, and only then is the
\* context asked whether it had ended, and cancelled.
CompleteAuthStop ==
  /\ At("server", "stopAuth")
  /\ side' = Moved("server", "cancelAuth")
  /\ thread' = StopAuth(thread)
  /\ UNCHANGED <<hold, deadline, pending, wire, stopped, env>>
CompleteAuthCancel ==
  /\ At("server", "cancelAuth")
  /\ FailsIf("server", AuthDone, "sendClientAuthOK")
  /\ deadline' = CancelAuth
  /\ UNCHANGED <<hold, pending, wire, stopped, env>>

SendClientAuthOK ==
  /\ Sends("server", "sendClientAuthOK", [kind |-> "ok"], "activate",
           "authenticated")
  /\ UNCHANGED <<thread, hold, deadline, pending, stopped, env>>

-----------------------------------------------------------------------------
(***************************************************************************)
(* The hand-over to the session.                                           *)
(***************************************************************************)
Bind(p) ==
  /\ At(p, "bind")
  /\ IF Cancelled(p)
     THEN /\ side' = Moved(p, "failing")
          /\ thread' = StartsFailing(p, thread)
     ELSE /\ side' = [side EXCEPT ![p].pc = "setSessionOwner",
                                  ![p].session = "bound"]
          /\ UNCHANGED thread
  /\ UNCHANGED <<hold, deadline, pending, wire, stopped, env>>

\* Mutant: the loops that Bind starts do not wait for the activation.
MutSetSessionOwner(p) ==
  /\ At(p, "setSessionOwner")
  /\ side' = [side EXCEPT ![p].owner = "session", ![p].session = "active",
       ![p].pc = IF p = "client" THEN "activate" ELSE "stopAuth"]
  /\ UNCHANGED <<thread, hold, deadline, pending, wire, stopped, env>>

SetSessionOwner(p) ==
  /\ At(p, "setSessionOwner")
  /\ side' = [side EXCEPT ![p].owner = "session",
       ![p].pc = IF p = "client" THEN "activate" ELSE "stopAuth"]
  /\ UNCHANGED <<thread, hold, deadline, pending, wire, stopped, env>>

Activate(p) ==
  /\ At(p, "activate")
  /\ side' = [side EXCEPT ![p].pc = "lastCheck",
       ![p].session = IF @ = "bound" THEN "active" ELSE @]
  /\ UNCHANGED <<thread, hold, deadline, pending, wire, stopped, env>>

\* Mutant: no look at the context between activation and release.
MutLastCheck(p) ==
  /\ At(p, "lastCheck")
  /\ FailsIf(p, FALSE, "release")
  /\ UNCHANGED <<hold, deadline, pending, wire, stopped, env>>

LastCheck(p) ==
  /\ At(p, "lastCheck")
  /\ FailsIf(p, Cancelled(p), "release")
  /\ UNCHANGED <<hold, deadline, pending, wire, stopped, env>>

Release(p) ==
  /\ At(p, "release")
  /\ side' = [side EXCEPT ![p].pc = "returned", ![p].owner = "none"]
  /\ thread' = StopPhaseTimer(p)
  /\ UNCHANGED <<hold, deadline, pending, wire, stopped, env>>

(***************************************************************************)
(* The session, as far as establishment sees it.  Its loops wait for the   *)
(* activation; its parent is the runtime's context.                        *)
(***************************************************************************)
SessionSend(p) ==
  /\ Alive(p)
  /\ side[p].session = "active"
  /\ side[p].sent < MaxSessionFrames
  /\ CanWrite(p)
  /\ side' = [side EXCEPT ![p].sent = @ + 1]
  /\ wire' = Sent(p, [kind |-> "session"])
  /\ UNCHANGED <<thread, hold, deadline, pending, stopped, env>>

\* Anything but a session frame ends the session.
SessionReceive(p) ==
  /\ Alive(p)
  /\ side[p].session = "active"
  /\ CanRead(p)
  /\ wire' = Received(p)
  /\ side' = [side EXCEPT ![p].session =
       IF Head(Incoming(p)).kind = "session" THEN @ ELSE "down"]
  /\ UNCHANGED <<thread, hold, deadline, pending, stopped, env>>

SessionDown(p) ==
  /\ side' = [side EXCEPT ![p].session = "down"]
  /\ UNCHANGED <<thread, hold, deadline, pending, wire, stopped, env>>

\* Mutant: the peer's end of the stream is not the end of the session.
MutSessionReadEnds(p) ==
  /\ Alive(p)
  /\ side[p].session = "active"
  /\ side[p].sock # "open"
  /\ SessionDown(p)

SessionReadEnds(p) ==
  /\ Alive(p)
  /\ side[p].session = "active"
  /\ ReadFails(p)
  /\ SessionDown(p)

SessionParentEnds(p) ==
  /\ Alive(p)
  /\ side[p].session \in {"bound", "active"}
  /\ Cancelled(p)
  /\ SessionDown(p)

\* The application closes the session it was given.
SessionClose(p) ==
  /\ At(p, "returned")
  /\ side[p].session = "active"
  /\ SessionDown(p)

SessionFinalize(p) ==
  /\ Alive(p)
  /\ side[p].session = "down"
  /\ side[p].sock = "open"
  /\ side' = [side EXCEPT ![p].sock = "session"]
  /\ UNCHANGED <<thread, hold, deadline, pending, wire, stopped, env>>

-----------------------------------------------------------------------------
(***************************************************************************)
(* Outside: the caller's context ends, or a host stops responding without  *)
(* closing its socket.                                                     *)
(***************************************************************************)
ParentCancel(p) ==
  /\ <<"cancel", p>> \in env.faults
  /\ Alive(p)
  /\ side[p].ctx = "live"
  /\ side' = [side EXCEPT ![p].ctx = "cancelled"]
  /\ UNCHANGED <<thread, hold, deadline, pending, wire, stopped, env>>

Stop(p) ==
  /\ <<"stop", p>> \in env.faults
  /\ stopped = {}
  /\ side[p].sock = "open"
  /\ stopped' = {p}
  /\ UNCHANGED <<side, thread, hold, deadline, pending, wire, env>>

Main(p) ==
  \/ IOFails(p)
  \/ Refuse(p) \/ NewRuntime(p)
  \/ StartHandshake(p) \/ HandshakeWrite(p) \/ HandshakeRead(p)
  \/ HandshakeCheck(p) \/ HandshakeStop(p) \/ SetOwner(p)
  \/ Bind(p) \/ SetSessionOwner(p) \/ Activate(p) \/ LastCheck(p)
  \/ Release(p)

ClientMain ==
  \/ StartAuth("client") \/ SendHostAuthInit \/ ReceiveServerAuth
  \/ SendClientAuthRequest \/ ReceiveClientAuthResponse
  \/ AuthCheck \/ AuthStop

ServerMain ==
  \/ BeginServer \/ ReceiveHostAuthInit \/ SendAuthError \/ SendServerAuth
  \/ ReceiveClientAuthRequest \/ RejectInvalidClient \/ VerifyFailed
  \/ DecideAccept \/ DecideReject \/ PendingClose \/ SendReject \/ RejectDeadline
  \/ Accept \/ CompleteAuthStop \/ CompleteAuthCancel \/ SendClientAuthOK

Closer(p, k) == FailCancel(p, k) \/ FailTake(p, k) \/ CloseOwner(p, k)

SessionEnds(p) ==
  SessionReadEnds(p) \/ SessionParentEnds(p) \/ SessionFinalize(p)

Next ==
  \/ \E p \in Sides:
       \/ Main(p)
       \/ Watch(p)
       \/ \E k \in Threads: Fire(p, k) \/ Closer(p, k)
       \/ SessionSend(p) \/ SessionReceive(p) \/ SessionEnds(p)
       \/ SessionClose(p)
       \/ ParentCancel(p) \/ Stop(p)
  \/ ClientMain \/ ServerMain
  \/ AuthExpires \/ AuthContextEnds

(***************************************************************************)
(* Threads are scheduled, timers fire, and the policy decides (its file    *)
(* reads are local).  Nothing says a peer answers, a context is cancelled  *)
(* or an application closes its session.                                   *)
(***************************************************************************)
Fairness ==
  /\ WF_vars(Main("client") \/ ClientMain \/ Closer("client", "main"))
  /\ WF_vars(Main("server") \/ ServerMain \/ Closer("server", "main"))
  /\ WF_vars(Fire("client", "authTimer") \/ Closer("client", "authTimer"))
  /\ WF_vars(AuthExpires \/ AuthContextEnds \/ Closer("server", "authTimer"))
  /\ \A p \in Sides:
       /\ WF_vars(Watch(p) \/ Closer(p, "watcher"))
       /\ WF_vars(Fire(p, "handshakeTimer") \/ Closer(p, "handshakeTimer"))
       /\ WF_vars(SessionReceive(p) \/ SessionEnds(p))

Spec == Init /\ [][Next]_vars
FairSpec == Spec /\ Fairness

-----------------------------------------------------------------------------
\* What the variables range over.
Types ==
  /\ side \in [Sides -> SideType]
  /\ thread \in [Sides -> [Threads -> ThreadStates]]
  /\ hold \in [Sides -> [Threads -> Owners]]
  /\ deadline \in {"none", "running", "expired", "cancelled"}
  /\ pending \in {"undecided", "accepted", "rejected", "closed"}
  /\ stopped \subseteq Sides
  /\ env \in Deployments

(***************************************************************************)
(* The variables have their types, and a thread between the two halves of  *)
(* closeCurrentOwner has an owner to close, never nil, and it alone:       *)
(* closing nil would panic, and an owner that is held by a thread that has *)
(* gone on would never be closed.                                          *)
(***************************************************************************)
TypeOK ==
  /\ Types
  /\ \A p \in Sides, k \in Threads: thread[p][k] = "took" <=> hold[p][k] # "none"

(***************************************************************************)
(* A client trusts a host key if some line of a well-formed known_hosts    *)
(* file that only its owner can change vouches for it, and none revokes.   *)
(***************************************************************************)
Trusted(host, key) ==
  LET vouchers(marker) ==
        {i \in DOMAIN env.known.lines:
           /\ env.known.lines[i].kind = "key"
           /\ env.known.lines[i].key = key
           /\ env.known.lines[i].marker = marker
           /\ \E h \in DOMAIN env.known.lines[i].hosts:
                env.known.lines[i].hosts[h].name = host}
  IN  /\ vouchers("") # {} /\ vouchers("revoked") = {}
      /\ \A i \in DOMAIN env.known.path:
           /\ env.known.path[i].kind # "missing"
           /\ ~env.known.path[i].othersWrite
           /\ env.known.path[i].owner \in {"root", "user"}

(***************************************************************************)
(* A client that believes it is authenticated talks, in one Noise session, *)
(* to the server whose host key it trusts, and that server has accepted    *)
(* it; it uses its own key only after it has verified the host.  A server  *)
(* that accepted was sent a valid proof, made for this very connection.    *)
(* (authenticateClient, verifyClient, PendingServer.Accept)                *)
(***************************************************************************)
MutualAuthentication ==
  /\ side["client"].auth \in {"client-auth-sent", "authenticated"} =>
       env.oneSession /\ Trusted("server", "hostKey")
  /\ side["client"].auth = "authenticated" =>
       side["server"].auth = "authenticated"
  /\ side["server"].auth = "authenticated" => pending = "accepted"
  /\ pending = "accepted" =>
       /\ env.oneSession /\ env.proof
       /\ side["client"].auth \in {"client-auth-sent", "authenticated"}

(***************************************************************************)
(* Both protocols share one stream of frames without a marker between      *)
(* them.  The authentication never has a session frame in front of it, and *)
(* an active session has no authentication frame left to read: the loops   *)
(* that Bind starts wait for the activation, which comes after the last    *)
(* authentication frame.                                                   *)
(***************************************************************************)
StreamsDoNotMix ==
  \A p \in Sides:
    /\ side[p].pc \in Reads /\ Incoming(p) # <<>> =>
         Head(Incoming(p)).kind # "session"
    /\ side[p].session = "active" =>
         \A i \in DOMAIN Incoming(p): Incoming(p)[i].kind = "session"

(***************************************************************************)
(* The close-owner baton: establishment, with its four closing threads,    *)
(* implements OwnerBaton.  In particular a timer or watcher that fires     *)
(* late never closes the connection of a session already handed over.      *)
(***************************************************************************)
Stage(p) ==
  CASE side[p].sock # "open" -> "Closed"
    [] side[p].sock = "open" /\ side[p].pc \in {"begin", "refused"} ->
         "AppSocket"
    [] side[p].sock = "open" /\ side[p].pc = "returned" -> "SessionActive"
    [] OTHER ->
         IF side[p].session # "none" THEN "SessionBound"
         ELSE IF \E k \in Threads: "conn" \in {side[p].owner, hold[p][k]}
         THEN "EstablishRaw" ELSE "EstablishNoise"

Baton ==
  INSTANCE OwnerBaton WITH
    stage <- [p \in Sides |-> Stage(p)],
    closer <- [p \in Sides |->
      IF side[p].sock = "open" THEN "nobody" ELSE side[p].sock]

ImplementsBaton == Baton!Spec

(***************************************************************************)
(* Connect, and BeginAccept with the decision that follows it, return: with *)
(* an active session, or with an error and a closed connection, however    *)
(* the peer behaves.  The only wait without a bound is the server's        *)
(* success frame, written after the deadline was stopped.                  *)
(***************************************************************************)
EstablishmentEnds ==
  \A p \in Sides:
    (side[p].pc = "startHandshake") ~>
      \/ side[p].pc = "returned"
      \/ side[p].pc = "failed" /\ side[p].sock # "open"
      \/ side[p].pc = "sendClientAuthOK" /\ ~CanWrite(p)
      \/ ~Alive(p)

(***************************************************************************)
(* When the server's last check fails after it has sent success, or the    *)
(* client fails after the server handed over, the side that believes in    *)
(* the connection finds out: its session ends.                             *)
(***************************************************************************)
HalfOpenEnds ==
  \A p \in Sides:
    (side[p].pc = "returned" /\ side[Peer(p)].pc = "failed") ~>
      (side[p].session = "down" \/ ~Alive(p))
=============================================================================
