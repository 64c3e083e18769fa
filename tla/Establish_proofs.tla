-------------------------- MODULE Establish_proofs --------------------------
(***************************************************************************)
(* Establishment is correct for every deployment: what authentication      *)
(* means to both sides, the boundary between the two protocols of the      *)
(* stream, and the baton of the connection's ownership, of which           *)
(* Establish is shown to be an implementation.                             *)
(*                                                                         *)
(* The inductive invariant has two parts. OwnerInv is about one side: who  *)
(* may hold what at which step. TalkInv is about both: how far each side   *)
(* is in the authentication, and the frames between them that follow.      *)
(***************************************************************************)
EXTENDS Establish, WellFoundedInduction, TLAPS

Client == side["client"]
Server == side["server"]

-----------------------------------------------------------------------------
(***************************************************************************)
(* The baton.  Up to SetOwner the owner can be the socket, up to Bind the  *)
(* Noise connection, then the session.                                     *)
(***************************************************************************)
RawSteps ==
  {"startHandshake", "handshakeWrite", "handshakeRead", "handshakeCheck",
   "handshakeStop", "setOwner", "failing", "failed"}
BoundSteps ==
  {"setSessionOwner", "activate", "stopAuth", "cancelAuth", "sendClientAuthOK",
   "lastCheck", "release", "returned"}

\* The steps before a timer is started; the other threads need a runtime.
BeforeTimer(k) ==
  IF k = "handshakeTimer" THEN {"begin", "refused", "startHandshake"}
  ELSE IF k = "authTimer"
  THEN {"begin", "refused", "startHandshake", "handshakeWrite", "handshakeRead",
        "handshakeCheck", "handshakeStop", "setOwner", "startAuth"}
  ELSE {"begin", "refused"}

\* The threads that took an owner hold one, no others, and by then the context is
\* cancelled.  Main closes on its way to its error, and nowhere else.
ThreadInv(p) ==
  /\ \A k \in Threads:
       /\ thread[p][k] = "took" <=> hold[p][k] # "none"
       /\ thread[p][k] \in {"failing", "took"} => side[p].ctx = "cancelled"
       /\ side[p].pc \in BeforeTimer(k) => thread[p][k] = "idle"
  /\ thread[p]["main"] \in {"fired", "failing", "took"} => side[p].pc = "failing"

OwnerAt(p) ==
  /\ side[p].pc \in {"begin", "refused"} =>
       /\ side[p].owner = "none" /\ side[p].session = "none"
       /\ \A k \in Threads: hold[p][k] = "none"
  /\ side[p].owner = "conn" => side[p].pc \in RawSteps
  /\ side[p].owner = "transport" =>
       side[p].pc \notin BoundSteps \ {"setSessionOwner"}
  /\ side[p].pc = "returned" => side[p].owner = "none"
  /\ side[p].owner = "session" => side[p].session # "none"
  /\ side[p].pc \in BoundSteps => side[p].session # "none"
  /\ \A k \in Threads:
       /\ hold[p][k] = "session" => side[p].session # "none"
       /\ hold[p][k] \in {"conn", "transport"} =>
            side[p].pc \notin {"release", "returned"}

OwnerInv == \A p \in Sides: ThreadInv(p) /\ OwnerAt(p)

-----------------------------------------------------------------------------
(***************************************************************************)
(* The conversation.                                                       *)
(***************************************************************************)
Noise == [kind |-> "noise"]
Request == ClientAuthRequest([key |-> "hostKey", nonce |-> "sn"])
Answer == ServerAuth(HostAuthInit)
Session == [kind |-> "session"]
OK == [kind |-> "ok"]
Reject == [kind |-> "reject"]
AuthError == [kind |-> "error"]

Frames == {Noise, HostAuthInit, Request, Answer, Session, OK, Reject, AuthError}

AllSession(q) == \A i \in DOMAIN q: q[i].kind = "session"

\* Steps of either main on the way to an error.
Lost(p) ==
  side[p].err \/ side[p].pc \in {"verifyFailed", "rejectDeadline", "failing", "failed"}

\* Where main is when it is lost.
LossSteps(p) ==
  {"handshakeCheck", "handshakeStop", "failing", "failed"} \cup
  (IF p = "client" THEN {"authCheck", "authStop"} ELSE {"verifyFailed", "rejectDeadline"})
LostAt == \A p \in Sides: side[p].err => side[p].pc \in LossSteps(p)

OpeningSteps == {"begin", "refused", "startHandshake"}
HandshakeEnd == {"handshakeCheck", "handshakeStop", "setOwner"}
FinalSteps == {"activate", "lastCheck", "release", "returned"}

\* The authentication state each step of the client stands for.
ClientAuthAt ==
  /\ Client.pc \notin ServerAuthSteps \cup ServerCommitSteps
                        \cup {"verifyFailed", "sendReject", "rejectDeadline"}
  /\ ~Lost("client") =>
       Client.auth =
         CASE Client.pc = "receiveServerAuth" -> "host-auth-init-sent"
           [] Client.pc = "sendClientAuthRequest" -> "server-auth-received"
           [] Client.pc = "receiveClientAuthResponse" -> "client-auth-sent"
           [] Client.pc \in {"authCheck", "authStop"} \cup CommitSteps \cup {"returned"}
                -> "authenticated"
           [] OTHER -> "noise-established"
  /\ Client.auth \in {"noise-established", "host-auth-init-sent",
       "server-auth-received", "client-auth-sent", "authenticated"}
  /\ Client.session # "none" => Client.auth = "authenticated"

\* The same for the server, and its decision.
ServerAuthAt ==
  /\ Server.pc \notin ClientAuthSteps \cup {"startAuth", "authCheck", "authStop"}
  /\ ~Lost("server") =>
       Server.auth =
         CASE Server.pc \in {"sendServerAuth", "sendAuthError"} ->
                "host-auth-init-received"
           [] Server.pc = "receiveClientAuthRequest" -> "server-auth-sent"
           [] Server.pc \in {"rejectInvalidClient", "sendReject", "bind", "setSessionOwner"}
                              \cup ServerCommitSteps -> "client-auth-received"
           [] Server.pc \in FinalSteps -> "authenticated"
           [] OTHER -> "noise-established"
  /\ Server.auth \in {"noise-established", "host-auth-init-received",
       "server-auth-sent", "client-auth-received", "authenticated"}
  /\ Server.pc \in (ServerCommitSteps \ {"policy"}) \cup CommitSteps \cup {"returned"} =>
       pending = "accepted"
  /\ Server.auth = "authenticated" => pending = "accepted"
  /\ Server.session # "none" => pending = "accepted"
  /\ Server.session = "active" => Server.auth = "authenticated"

\* What the state of one side says about the other.
InStep ==
  /\ Client.auth \in {"server-auth-received", "client-auth-sent", "authenticated"} =>
       Server.auth \in {"server-auth-sent", "client-auth-received", "authenticated"}
  /\ Client.auth = "authenticated" => Server.auth = "authenticated"
  /\ Server.auth # "noise-established" => Client.auth # "noise-established"
  /\ Server.auth \in {"client-auth-received", "authenticated"} =>
       Client.auth \in {"client-auth-sent", "authenticated"}

\* Both are who they say, once the one has checked the other.
Verified ==
  /\ \/ Client.auth \in {"client-auth-sent", "authenticated"}
     \/ Client.pc = "sendClientAuthRequest"
     => env.oneSession /\ Trusted("server", "hostKey")
  /\ Server.pc = "policy" \/ pending = "accepted" =>
       /\ env.oneSession /\ env.proof
       /\ Client.auth \in {"client-auth-sent", "authenticated"}

\* Frames to the server.
ToServer ==
  LET q == wire["client"]
  IN  /\ Client.pc \in OpeningSteps \cup {"handshakeWrite"} =>
           /\ q = <<>>
           /\ Lost("server") \/ Server.pc \in OpeningSteps \cup {"handshakeRead"}
      /\ Server.pc \in OpeningSteps \cup {"handshakeRead"} =>
           /\ q \in {<<>>, <<Noise>>}
           /\ Client.auth = "noise-established"
           /\ Lost("client") \/ Client.pc \in OpeningSteps \cup HandshakeSteps
      /\ /\ ~Lost("server")
         /\ Server.pc \in HandshakeEnd \cup
              {"handshakeWrite", "beginServer", "receiveHostAuthInit"}
         => q = IF Client.auth = "noise-established" THEN <<>> ELSE <<HostAuthInit>>
      /\ Server.pc \in {"sendServerAuth", "receiveClientAuthRequest"} =>
           q = IF Client.auth = "client-auth-sent" THEN <<Request>> ELSE <<>>
      /\ Server.pc = "policy" => q = <<>>
      /\ pending = "accepted" => AllSession(q)

\* Frames to the client.
ToClient ==
  LET q == wire["server"]
  IN  /\ Server.pc \in OpeningSteps \cup HandshakeSteps =>
           /\ q = <<>>
           /\ Lost("client") \/ Client.pc \in OpeningSteps \cup HandshakeSteps
      /\ Client.pc \in OpeningSteps \cup HandshakeSteps => q \in {<<>>, <<Noise>>}
      /\ ~Lost("client") /\ Client.pc \in HandshakeEnd \cup {"startAuth", "sendHostAuthInit"}
         => q = <<>>
      /\ Client.pc = "receiveServerAuth" =>
           \/ q = <<>> /\ Server.auth # "server-auth-sent"
           \/ q = <<AuthError>> /\ Lost("server") /\ Server.auth = "host-auth-init-received"
           \/ q = <<Answer>> /\ Server.auth = "server-auth-sent"
      /\ Client.pc \in {"sendClientAuthRequest", "receiveClientAuthResponse"} =>
           \/ q = <<>> /\ Server.auth # "authenticated"
           \/ q = <<Reject>> /\ Lost("server") /\ Server.auth = "client-auth-received"
           \/ /\ q # <<>> /\ Head(q) = OK /\ AllSession(Tail(q))
              /\ Server.auth = "authenticated"
      /\ Client.auth = "authenticated" => AllSession(q)

WireType == wire \in [Sides -> Seq(Frames)]

TalkInv ==
  /\ WireType /\ LostAt /\ ClientAuthAt /\ ServerAuthAt /\ InStep /\ Verified
  /\ ToServer /\ ToClient

IInv == Types /\ OwnerInv /\ TalkInv

-----------------------------------------------------------------------------
(***************************************************************************)
(* Types.                                                                  *)
(***************************************************************************)
LEMMA AfterErrorType == \A step \in Steps: AfterError(step) \in Steps
  BY DEF AfterError, Steps

LEMMA ErroredType ==
  ASSUME Types, NEW p \in Sides
  PROVE  Errored(p) \in [Sides -> SideType]
  <1>1. side[p].pc \in Steps
    BY DEF Types, SideType
  <1>2. AfterError(side[p].pc) \in Steps
    BY <1>1, AfterErrorType, Zenon
  <1>3. \A step \in Steps, b \in BOOLEAN:
          [side EXCEPT ![p].pc = step, ![p].err = b] \in [Sides -> SideType]
    BY DEF Types, SideType, Sides
  <1> QED
    BY <1>2, <1>3, Zenon DEF Errored

LEMMA CheckPhaseType ==
  ASSUME Types, NEW p \in Sides, NEW step \in Steps, NEW next \in Steps,
         CheckPhase(p, step, next)
  PROVE  Types'
  BY DEF CheckPhase, Types, SideType, Sides

LEMMA MainType ==
  ASSUME Types, NEW p \in Sides, Main(p)
  PROVE  Types'
  <1> USE DEF Types, SideType, Sides
  <1>1. CASE IOFails(p)
    <2>2. side' \in [Sides -> SideType]
      BY <1>1, ErroredType DEF IOFails
    <2>3. thread' \in [Sides -> [Threads -> ThreadStates]]
      BY <1>1 DEF IOFails, StartsFailing, Threads, ThreadStates
    <2> QED
      BY <1>1, <2>2, <2>3 DEF IOFails
  <1>2. CASE Refuse(p) \/ NewRuntime(p)
    BY <1>2 DEF Refuse, NewRuntime, Moved, Steps, Owners
  <1>3. CASE StartHandshake(p)
    BY <1>3 DEF StartHandshake, RunWithTimeout, Moved, StartsFailing, Threads, ThreadStates,
                Steps, HandshakeSteps
  <1>4. CASE HandshakeWrite(p) \/ HandshakeRead(p)
    BY <1>4, AfterErrorType DEF HandshakeWrite, HandshakeRead, Moved, Errored, Steps, HandshakeSteps
  <1>5. CASE HandshakeCheck(p)
    BY <1>5, CheckPhaseType DEF HandshakeCheck, Steps
  <1>6. CASE HandshakeStop(p)
    BY <1>6 DEF HandshakeStop, StopPhase, StopPhaseTimer, Moved, StartsFailing, Steps,
                Threads, ThreadStates
  <1>7. CASE SetOwner(p)
    BY <1>7 DEF SetOwner, Steps, ServerAuthSteps, Owners, Threads, ThreadStates
  <1>8. CASE Bind(p)
    BY <1>8 DEF Bind, Moved, StartsFailing, Threads, ThreadStates, Steps, CommitSteps
  <1>9. CASE SetSessionOwner(p) \/ Activate(p)
    BY <1>9 DEF SetSessionOwner, Activate, Steps, CommitSteps, ServerCommitSteps, Owners
  <1>10. CASE LastCheck(p)
    BY <1>10 DEF LastCheck, FailsIf, Moved, StartsFailing, Threads, ThreadStates, Steps,
                 CommitSteps
  <1>11. CASE Release(p)
    BY <1>11 DEF Release, StopPhaseTimer, Threads, ThreadStates, Steps, Owners
  <1> QED
    BY <1>1, <1>2, <1>3, <1>4, <1>5, <1>6, <1>7, <1>8, <1>9, <1>10, <1>11 DEF Main

LEMMA ClientType ==
  ASSUME Types, ClientMain
  PROVE  Types'
  <1> USE DEF Types, SideType, Sides
  <1>1. CASE StartAuth("client")
    BY <1>1 DEF StartAuth, RunWithTimeout, Moved, StartsFailing, Threads, ThreadStates,
                Steps, ClientAuthSteps
  <1>2. CASE SendHostAuthInit \/ SendClientAuthRequest
    BY <1>2 DEF SendHostAuthInit, SendClientAuthRequest, Sends, Advanced, Steps,
                ClientAuthSteps, AuthStates
  <1>3. CASE ReceiveServerAuth \/ ReceiveClientAuthResponse
    <2>0. side["client"].pc \in Steps
      OBVIOUS
    <2>1. AfterError(side["client"].pc) \in Steps
      BY <2>0, AfterErrorType, Zenon
    <2> QED
      BY <1>3, <2>1 DEF ReceiveServerAuth, ReceiveClientAuthResponse, Advanced, Errored,
                        Steps, ClientAuthSteps, AuthStates
  <1>4. CASE AuthCheck
    BY <1>4, CheckPhaseType DEF AuthCheck, Steps
  <1>5. CASE AuthStop
    BY <1>5 DEF AuthStop, StopPhase, StopPhaseTimer, Moved, StartsFailing, Steps,
                CommitSteps, Threads, ThreadStates
  <1> QED
    BY <1>1, <1>2, <1>3, <1>4, <1>5 DEF ClientMain

LEMMA ServerType ==
  ASSUME Types, ServerMain
  PROVE  Types'
  <1> USE DEF Types, SideType, Sides
  <1>1. CASE BeginServer
    BY <1>1 DEF BeginServer, Moved, Steps, ServerAuthSteps
  <1>2. CASE ReceiveHostAuthInit \/ ReceiveClientAuthRequest
    <2>0. side["server"].pc \in Steps
      OBVIOUS
    <2>1. AfterError(side["server"].pc) \in Steps
      BY <2>0, AfterErrorType, Zenon
    <2> QED
      BY <1>2, <2>1 DEF ReceiveHostAuthInit, ReceiveClientAuthRequest, Advanced, Errored,
                        Steps, ServerAuthSteps, ServerCommitSteps, AuthStates
  <1>3. CASE \/ SendAuthError \/ SendServerAuth \/ RejectInvalidClient \/ SendReject
             \/ SendClientAuthOK
    BY <1>3 DEF SendAuthError, SendServerAuth, RejectInvalidClient, SendReject,
                SendClientAuthOK, Sends, Advanced, Steps, ServerAuthSteps, CommitSteps,
                AuthStates
  <1>4. CASE VerifyFailed \/ RejectDeadline
    BY <1>4 DEF VerifyFailed, RejectDeadline, Moved, StartsFailing, StopAuth, CancelAuth,
                Steps, Threads, ThreadStates
  <1>5. CASE DecideAccept \/ DecideReject \/ PendingClose
    BY <1>5 DEF DecideAccept, DecideReject, PendingClose, Decide, Moved, Steps,
                ServerCommitSteps
  <1>6. CASE Accept \/ CompleteAuthCancel
    BY <1>6 DEF Accept, CompleteAuthCancel, FailsIf, Moved, StartsFailing, CancelAuth, Steps,
                CommitSteps, ServerCommitSteps, Threads, ThreadStates
  <1>7. CASE CompleteAuthStop
    BY <1>7 DEF CompleteAuthStop, Moved, StopAuth, Steps, ServerCommitSteps, Threads,
                ThreadStates
  <1> QED
    BY <1>1, <1>2, <1>3, <1>4, <1>5, <1>6, <1>7 DEF ServerMain

\* The threads that close, the timers, the session, and what comes from
\* outside.
OtherNext ==
  \/ \E p \in Sides:
       \/ Watch(p)
       \/ \E k \in Threads: Fire(p, k) \/ Closer(p, k)
       \/ SessionSend(p) \/ SessionReceive(p) \/ SessionEnds(p)
       \/ SessionClose(p)
       \/ ParentCancel(p) \/ Stop(p)
  \/ AuthExpires \/ AuthContextEnds

LEMMA TakeOwnerType ==
  ASSUME Types, NEW p \in Sides, NEW k \in Threads, TakeOwner(p, k)
  PROVE  Types'
  <1> USE DEF Types, SideType, Sides
  <1>1. side' \in [Sides -> SideType] /\ hold' \in [Sides -> [Threads -> Owners]]
    BY DEF TakeOwner, Steps, Owners
  <1>2. thread' \in [Sides -> [Threads -> ThreadStates]]
    BY DEF TakeOwner, StopPhaseTimer, ThreadStates
  <1> QED
    BY <1>1, <1>2 DEF TakeOwner

LEMMA OtherType ==
  ASSUME Types, OtherNext
  PROVE  Types'
  <1> USE DEF Types, SideType, Sides
  <1>1. ASSUME NEW p \in Sides, NEW k \in Threads,
               Watch(p) \/ Fire(p, k) \/ Closer(p, k)
        PROVE  Types'
    <2>1. CASE Watch(p) \/ FailTake(p, k)
      BY <2>1, TakeOwnerType DEF Watch, FailTake, Threads
    <2>2. CASE Fire(p, k) \/ FailCancel(p, k)
      BY <2>2 DEF Fire, FailCancel, ThreadStates
    <2>3. CASE CloseOwner(p, k)
      BY <2>3 DEF CloseOwner, ThreadStates, Owners, Steps
    <2> QED
      BY <1>1, <2>1, <2>2, <2>3 DEF Closer
  <1>2. ASSUME NEW p \in Sides, SessionSend(p) \/ SessionReceive(p)
        PROVE  Types'
    BY <1>2, MaxSessionFramesAssumption DEF SessionSend, SessionReceive
  <1>3. ASSUME NEW p \in Sides, SessionEnds(p) \/ SessionClose(p)
        PROVE  Types'
    BY <1>3 DEF SessionEnds, SessionReadEnds, SessionParentEnds, SessionFinalize,
                SessionClose, SessionDown
  <1>4. ASSUME NEW p \in Sides, ParentCancel(p) \/ Stop(p)
        PROVE  Types'
    BY <1>4 DEF ParentCancel, Stop
  <1>5. CASE AuthExpires \/ AuthContextEnds
    <2>1. thread' = thread \/ \E st \in ThreadStates:
                                thread' = [thread EXCEPT !["server"]["authTimer"] = st]
      BY <1>5 DEF AuthExpires, AuthContextEnds, ThreadStates
    <2>2. thread' \in [Sides -> [Threads -> ThreadStates]]
      BY <2>1 DEF Threads
    <2> QED
      BY <1>5, <2>2 DEF AuthExpires, AuthContextEnds
  <1> QED
    BY <1>1, <1>2, <1>3, <1>4, <1>5 DEF OtherNext, Threads

LEMMA TypeStep == Types /\ [Next]_vars => Types'
  <1> SUFFICES ASSUME Types, [Next]_vars PROVE Types'
    OBVIOUS
  <1>1. CASE UNCHANGED vars
    BY <1>1 DEF vars, Types
  <1>2. CASE \E p \in Sides: Main(p)
    BY <1>2, MainType
  <1>3. CASE ClientMain
    BY <1>3, ClientType
  <1>4. CASE ServerMain
    BY <1>4, ServerType
  <1>5. CASE OtherNext
    BY <1>5, OtherType
  <1> QED
    BY <1>1, <1>2, <1>3, <1>4, <1>5 DEF Next, OtherNext

-----------------------------------------------------------------------------
(***************************************************************************)
(* What the moves of main change, field by field.                          *)
(***************************************************************************)
Goes(p, step, err, auth) ==
  /\ side'[p].pc = step /\ side'[p].err = err /\ side'[p].auth = auth
  /\ side'[p].owner = side[p].owner /\ side'[p].ctx = side[p].ctx
  /\ side'[p].session = side[p].session /\ side'[p].sock = side[p].sock
  /\ \A q \in Sides \ {p}: side'[q] = side[q]

LEMMA MovedGoes ==
  ASSUME Types, NEW p \in Sides, NEW step, side' = Moved(p, step)
  PROVE  Goes(p, step, side[p].err, side[p].auth)
  BY DEF Types, SideType, Sides, Moved, Goes

LEMMA AdvancedGoes ==
  ASSUME Types, NEW p \in Sides, NEW step, NEW auth, side' = Advanced(p, step, auth)
  PROVE  Goes(p, step, side[p].err, auth)
  BY DEF Types, SideType, Sides, Advanced, Goes

LEMMA ErrorGoes ==
  ASSUME Types, NEW p \in Sides, NEW auth \in AuthStates,
         \/ side' = Errored(p) /\ auth = side[p].auth
         \/ side' = [Errored(p) EXCEPT ![p].auth = auth]
  PROVE  Goes(p, AfterError(side[p].pc), TRUE, auth)
  <1> DEFINE s == AfterError(side[p].pc)
             e(b) == [side EXCEPT ![p].pc = s, ![p].err = b]
  <1>1. side[p].pc \in Steps
    BY DEF Types, SideType
  <1>2. s \in Steps
    BY <1>1, AfterErrorType, Zenon
  <1>3. Errored(p) = e(TRUE)
    BY Zenon DEF Errored
  <1> HIDE DEF s
  <1>4. ASSUME NEW b \in BOOLEAN, side' = e(b), auth = side[p].auth
        PROVE  Goes(p, s, b, auth)
    BY <1>2, <1>4 DEF Types, SideType, Sides, Goes
  <1>5. ASSUME NEW b \in BOOLEAN, side' = [e(b) EXCEPT ![p].auth = auth]
        PROVE  Goes(p, s, b, auth)
    BY <1>2, <1>5 DEF Types, SideType, Sides, Goes
  <1> HIDE DEF e
  <1>6. Goes(p, s, TRUE, auth)
    BY <1>3, <1>4, <1>5, Zenon
  <1> QED
    BY <1>6 DEF s

\* What a frame read in the authentication makes of the client.
LEMMA ReceiveServerAuthGoes ==
  ASSUME Types, ReceiveServerAuth
  PROVE  \/ /\ Goes("client", "sendClientAuthRequest", side["client"].err, "server-auth-received")
            /\ Head(Incoming("client")).kind = "serverAuth"
            /\ AcceptsServerAuth(Head(Incoming("client")))
         \/ /\ Goes("client", "authCheck", TRUE, "server-auth-received")
            /\ Head(Incoming("client")).kind = "serverAuth"
         \/ Goes("client", "authCheck", TRUE, side["client"].auth)
  <1>1. side["client"].pc = "receiveServerAuth" /\ "client" \in Sides
    BY DEF ReceiveServerAuth, At, Sides
  <1>2. AfterError(side["client"].pc) = "authCheck"
    BY <1>1 DEF AfterError, HandshakeSteps, ClientAuthSteps, ServerAuthSteps
  <1>3. "server-auth-received" \in AuthStates /\ side["client"].auth \in AuthStates
    BY <1>1 DEF Types, SideType, AuthStates
  <1>4. CASE side' = Advanced("client", "sendClientAuthRequest", "server-auth-received")
             /\ Head(Incoming("client")).kind = "serverAuth"
             /\ AcceptsServerAuth(Head(Incoming("client")))
    BY <1>1, <1>4, AdvancedGoes
  <1>5. CASE side' = Errored("client")
    BY <1>1, <1>2, <1>3, <1>5, ErrorGoes
  <1>6. CASE side' = [Errored("client") EXCEPT !["client"].auth = "server-auth-received"]
             /\ Head(Incoming("client")).kind = "serverAuth"
    BY <1>1, <1>2, <1>3, <1>6, ErrorGoes
  <1> QED
    BY <1>4, <1>5, <1>6 DEF ReceiveServerAuth

LEMMA ReceiveClientAuthResponseGoes ==
  ASSUME Types, ReceiveClientAuthResponse
  PROVE  \/ /\ Goes("client", "authCheck", side["client"].err, "authenticated")
            /\ Head(Incoming("client")).kind = "ok"
         \/ Goes("client", "authCheck", TRUE, side["client"].auth)
  <1>1. side["client"].pc = "receiveClientAuthResponse" /\ "client" \in Sides
    BY DEF ReceiveClientAuthResponse, At, Sides
  <1>2. AfterError(side["client"].pc) = "authCheck"
    BY <1>1 DEF AfterError, HandshakeSteps, ClientAuthSteps, ServerAuthSteps
  <1>3. side["client"].auth \in AuthStates
    BY <1>1 DEF Types, SideType
  <1> QED
    BY <1>1, <1>2, <1>3, AdvancedGoes, ErrorGoes DEF ReceiveClientAuthResponse

\* ... and of the server.
LEMMA ReceiveHostAuthInitGoes ==
  ASSUME Types, ReceiveHostAuthInit
  PROVE  \/ /\ \/ Goes("server", "sendServerAuth", side["server"].err, "host-auth-init-received")
               \/ Goes("server", "sendAuthError", side["server"].err, "host-auth-init-received")
            /\ Head(Incoming("server")).kind = "hostAuthInit"
         \/ Goes("server", "verifyFailed", TRUE, side["server"].auth)
  <1>1. side["server"].pc = "receiveHostAuthInit" /\ "server" \in Sides
    BY DEF ReceiveHostAuthInit, At, Sides
  <1>2. AfterError(side["server"].pc) = "verifyFailed"
    BY <1>1 DEF AfterError, HandshakeSteps, ClientAuthSteps, ServerAuthSteps
  <1>3. side["server"].auth \in AuthStates
    BY <1>1 DEF Types, SideType
  <1> QED
    BY <1>1, <1>2, <1>3, AdvancedGoes, ErrorGoes DEF ReceiveHostAuthInit

LEMMA ReceiveClientAuthRequestGoes ==
  ASSUME Types, ReceiveClientAuthRequest
  PROVE  \/ /\ Goes("server", "policy", side["server"].err, "client-auth-received")
            /\ Head(Incoming("server")).kind = "clientAuthRequest"
            /\ AcceptsClientAuth(Head(Incoming("server")))
         \/ /\ Goes("server", "rejectInvalidClient", side["server"].err, "client-auth-received")
            /\ Head(Incoming("server")).kind = "clientAuthRequest"
         \/ Goes("server", "verifyFailed", TRUE, side["server"].auth)
  <1>1. side["server"].pc = "receiveClientAuthRequest" /\ "server" \in Sides
    BY DEF ReceiveClientAuthRequest, At, Sides
  <1>2. AfterError(side["server"].pc) = "verifyFailed"
    BY <1>1 DEF AfterError, HandshakeSteps, ClientAuthSteps, ServerAuthSteps
  <1>3. side["server"].auth \in AuthStates
    BY <1>1 DEF Types, SideType
  <1> QED
    BY <1>1, <1>2, <1>3, AdvancedGoes, ErrorGoes DEF ReceiveClientAuthRequest

-----------------------------------------------------------------------------
(***************************************************************************)
(* The baton's invariant.  A step of one side leaves the other alone; a    *)
(* step of main that is not about owners goes from a step to one with no   *)
(* more rights.                                                            *)
(***************************************************************************)
SideInv(p) == ThreadInv(p) /\ OwnerAt(p)

Untouched(q) ==
  side'[q] = side[q] /\ thread'[q] = thread[q] /\ hold'[q] = hold[q]

LEMMA UntouchedInv ==
  ASSUME NEW q \in Sides, SideInv(q), Untouched(q)
  PROVE  SideInv(q)'
  BY DEF SideInv, ThreadInv, OwnerAt, Untouched

NoNewRights(from, to) ==
  /\ from # "failing"
  /\ to \notin {"begin", "refused", "release", "returned"}
  /\ from \in RawSteps => to \in RawSteps
  /\ to \in BoundSteps => from \in BoundSteps /\ to # "setSessionOwner"
  /\ to \in BoundSteps => from # "setSessionOwner"
  /\ \A k \in Threads: to \in BeforeTimer(k) => from \in BeforeTimer(k)

\* A thread other than main is armed, stopped or fires.
TimersMove(p) ==
  \A k \in Threads \ {"main"}:
    \/ thread'[p][k] = thread[p][k]
    \/ /\ thread[p][k] \notin {"failing", "took"}
       /\ thread'[p][k] \notin {"failing", "took"}
       /\ thread[p][k] # "idle" \/ side'[p].pc \notin BeforeTimer(k)

LEMMA OwnerMove ==
  ASSUME Types, NEW p \in Sides, SideInv(p),
         side'[p].owner = side[p].owner, side'[p].ctx = side[p].ctx,
         side'[p].session = "none" <=> side[p].session = "none",
         hold'[p] = hold[p], TimersMove(p),
         \/ thread'[p]["main"] = thread[p]["main"]
         \/ thread'[p]["main"] = "fired" /\ side'[p].pc = "failing",
         NoNewRights(side[p].pc, side'[p].pc)
  PROVE  SideInv(p)'
  <1>1. ThreadInv(p)'
    BY DEF SideInv, ThreadInv, TimersMove, NoNewRights, Threads, BeforeTimer
  <1>2. OwnerAt(p)'
    BY DEF SideInv, OwnerAt, NoNewRights
  <1> QED
    BY <1>1, <1>2 DEF SideInv

\* The steps of main that every kind of phase uses.
LEMMA PhaseOwner ==
  ASSUME Types, NEW p \in Sides, SideInv(p), NEW step, NEW next, NEW timer,
         NoNewRights(step, "failing"), NoNewRights(step, next),
         \/ /\ RunWithTimeout(p, step, timer, next)
            /\ timer \in {"handshakeTimer", "authTimer"}
            /\ step \in BeforeTimer(timer) /\ next \notin BeforeTimer(timer)
         \/ CheckPhase(p, step, next)
         \/ StopPhase(p, step, next)
  PROVE  SideInv(p)'
  <1> USE DEF Types, SideType, Sides, At
  <1>1. CASE CheckPhase(p, step, next)
    <2>1. /\ side'[p].owner = side[p].owner /\ side'[p].ctx = side[p].ctx
          /\ side'[p].session = side[p].session
          /\ side[p].pc = step /\ side'[p].pc = next
          /\ hold' = hold /\ thread' = thread
      BY <1>1 DEF CheckPhase
    <2> QED
      BY <2>1, OwnerMove DEF TimersMove
  <1>2. CASE StopPhase(p, step, next)
    <2>1. /\ side'[p].owner = side[p].owner /\ side'[p].ctx = side[p].ctx
          /\ side'[p].session = side[p].session
          /\ side[p].pc = step /\ side'[p].pc \in {next, "failing"}
          /\ hold' = hold
      BY <1>2 DEF StopPhase, Moved
    <2>2. TimersMove(p)
      BY <1>2 DEF StopPhase, StartsFailing, StopPhaseTimer, PhaseTimers, TimersMove, Threads
    <2>3. \/ thread'[p]["main"] = thread[p]["main"]
          \/ thread'[p]["main"] = "fired" /\ side'[p].pc = "failing"
      BY <1>2 DEF StopPhase, Moved, StartsFailing, StopPhaseTimer, PhaseTimers, Threads
    <2> QED
      BY <2>1, <2>2, <2>3, OwnerMove
  <1>3. CASE /\ RunWithTimeout(p, step, timer, next)
             /\ timer \in {"handshakeTimer", "authTimer"}
             /\ step \in BeforeTimer(timer) /\ next \notin BeforeTimer(timer)
    <2>1. /\ side'[p].owner = side[p].owner /\ side'[p].ctx = side[p].ctx
          /\ side'[p].session = side[p].session
          /\ side[p].pc = step /\ side'[p].pc \in {next, "failing"}
          /\ hold' = hold
      BY <1>3 DEF RunWithTimeout, Moved
    <2>2. TimersMove(p)
      <3>1. timer \in Threads \ {"main"} /\ thread[p][timer] = "idle"
        BY <1>3, <2>1 DEF SideInv, ThreadInv, Threads
      <3>2. CASE side'[p].pc = "failing"
        BY <1>3, <3>1, <3>2 DEF RunWithTimeout, StartsFailing, TimersMove, Threads, BeforeTimer
      <3>3. CASE side'[p].pc = next
        BY <1>3, <3>1, <3>3 DEF RunWithTimeout, StartsFailing, TimersMove, Threads
      <3> QED
        BY <2>1, <3>2, <3>3
    <2>3. \/ thread'[p]["main"] = thread[p]["main"]
          \/ thread'[p]["main"] = "fired" /\ side'[p].pc = "failing"
      BY <1>3 DEF RunWithTimeout, Moved, StartsFailing, Threads
    <2> QED
      BY <2>1, <2>2, <2>3, OwnerMove
  <1> QED
    BY <1>1, <1>2, <1>3

\* A step of main that only moves on, with its threads left alone, or fails.
Walks(p) ==
  /\ side'[p].owner = side[p].owner /\ side'[p].ctx = side[p].ctx
  /\ side'[p].session = "none" <=> side[p].session = "none"
  /\ hold' = hold
  /\ NoNewRights(side[p].pc, side'[p].pc)
  /\ \/ thread' = thread
     \/ thread' = StartsFailing(p, thread) /\ side'[p].pc = "failing"

LEMMA WalksOwner ==
  ASSUME Types, NEW p \in Sides, SideInv(p), Walks(p)
  PROVE  SideInv(p)'
  <1>1. TimersMove(p)
    BY DEF Walks, TimersMove, StartsFailing, Types, Threads
  <1>2. \/ thread'[p]["main"] = thread[p]["main"]
        \/ thread'[p]["main"] = "fired" /\ side'[p].pc = "failing"
    BY DEF Walks, StartsFailing, Types, Threads
  <1> QED
    BY <1>1, <1>2, OwnerMove DEF Walks

LEMMA AfterErrorRights ==
  \A step \in Reads \cup Writes: NoNewRights(step, AfterError(step))
  BY DEF Reads, Writes, NoNewRights, AfterError, HandshakeSteps, ClientAuthSteps,
         ServerAuthSteps, RawSteps, BoundSteps, BeforeTimer

LEMMA IOFailsWalks ==
  ASSUME Types, NEW p \in Sides, IOFails(p)
  PROVE  Walks(p)
  <1>1. side[p].pc \in Reads \cup Writes
    BY DEF IOFails
  <1>2. NoNewRights(side[p].pc, AfterError(side[p].pc))
    BY <1>1, AfterErrorRights, Zenon
  <1>3. Goes(p, AfterError(side[p].pc), TRUE, side[p].auth)
    BY ErrorGoes DEF IOFails, Types, SideType
  <1>4. /\ hold' = hold
        /\ \/ thread' = thread
           \/ thread' = StartsFailing(p, thread) /\ AfterError(side[p].pc) = "failing"
    BY DEF IOFails
  <1> QED
    BY <1>2, <1>3, <1>4 DEF Walks, Goes

LEMMA MainOwner ==
  ASSUME Types, NEW p \in Sides, SideInv(p), Main(p)
  PROVE  SideInv(p)'
  <1> USE DEF Types, SideType, Sides, At
  <1>1. CASE IOFails(p)
    BY <1>1, IOFailsWalks, WalksOwner
  <1>2. CASE Refuse(p)
    BY <1>2 DEF Refuse, Moved, SideInv, ThreadInv, OwnerAt, RawSteps, BoundSteps, BeforeTimer
  <1>3. CASE NewRuntime(p)
    BY <1>3 DEF NewRuntime, SideInv, ThreadInv, OwnerAt, RawSteps, BoundSteps, BeforeTimer
  <1>4. CASE StartHandshake(p)
    <2>1. NoNewRights("startHandshake", "failing")
      BY DEF NoNewRights, RawSteps, BoundSteps, BeforeTimer
    <2>2. \A next \in HandshakeSteps: NoNewRights("startHandshake", next)
      BY DEF NoNewRights, RawSteps, BoundSteps, BeforeTimer, HandshakeSteps
    <2>3. PICK next \in HandshakeSteps:
            RunWithTimeout(p, "startHandshake", "handshakeTimer", next)
      BY <1>4 DEF StartHandshake, HandshakeSteps
    <2>4. "startHandshake" \in BeforeTimer("handshakeTimer") /\ next \notin BeforeTimer("handshakeTimer")
      BY DEF BeforeTimer, HandshakeSteps
    <2> QED
      BY <2>1, <2>2, <2>3, <2>4, PhaseOwner
  <1>5. CASE HandshakeWrite(p)
    <2>1. Walks(p)
      BY <1>5 DEF HandshakeWrite, Moved, Walks, NoNewRights, RawSteps, BoundSteps, BeforeTimer
    <2> QED
      BY <2>1, WalksOwner
  <1>6. CASE HandshakeRead(p)
    <2>1. CASE side' = Errored(p)
      <3>1. side[p].pc = "handshakeRead" /\ hold' = hold /\ thread' = thread
        BY <1>6 DEF HandshakeRead
      <3>2. side[p].pc \in Reads \cup Writes
        BY <3>1 DEF Reads
      <3>3. NoNewRights(side[p].pc, AfterError(side[p].pc))
        BY <3>2, AfterErrorRights, Zenon
      <3>4. Goes(p, AfterError(side[p].pc), TRUE, side[p].auth)
        BY <2>1, ErrorGoes
      <3>5. Walks(p)
        BY <3>1, <3>3, <3>4 DEF Walks, Goes
      <3> QED
        BY <3>5, WalksOwner
    <2>2. CASE side' # Errored(p)
      <3>1. Walks(p)
        BY <1>6, <2>2 DEF HandshakeRead, Moved, Walks, NoNewRights, RawSteps, BoundSteps, BeforeTimer
      <3> QED
        BY <3>1, WalksOwner
    <2> QED
      BY <2>1, <2>2
  <1>7. CASE HandshakeCheck(p) \/ HandshakeStop(p)
    <2>1. /\ NoNewRights("handshakeCheck", "failing")
          /\ NoNewRights("handshakeCheck", "handshakeStop")
          /\ NoNewRights("handshakeStop", "failing")
          /\ NoNewRights("handshakeStop", "setOwner")
      BY DEF NoNewRights, RawSteps, BoundSteps, BeforeTimer
    <2> QED
      BY <1>7, <2>1, PhaseOwner DEF HandshakeCheck, HandshakeStop
  <1>8. CASE SetOwner(p)
    BY <1>8 DEF SetOwner, SideInv, ThreadInv, OwnerAt, RawSteps, BoundSteps, BeforeTimer, Threads
  <1>9. CASE Bind(p)
    BY <1>9 DEF Bind, Cancelled, Moved, StartsFailing, SideInv, ThreadInv, OwnerAt, RawSteps,
                BoundSteps, BeforeTimer, Threads
  <1>10. CASE SetSessionOwner(p)
    BY <1>10 DEF SetSessionOwner, SideInv, ThreadInv, OwnerAt, RawSteps, BoundSteps, BeforeTimer
  <1>11. CASE Activate(p)
    <2>1. Walks(p)
      BY <1>11 DEF Activate, Walks, NoNewRights, RawSteps, BoundSteps, BeforeTimer
    <2> QED
      BY <2>1, WalksOwner
  <1>12. CASE LastCheck(p)
    BY <1>12 DEF LastCheck, FailsIf, Cancelled, Moved, StartsFailing, SideInv, ThreadInv,
                 OwnerAt, RawSteps, BoundSteps, BeforeTimer, Threads
  <1>13. CASE Release(p)
    BY <1>13 DEF Release, StopPhaseTimer, PhaseTimers, SideInv, ThreadInv, OwnerAt, RawSteps,
                 BoundSteps, BeforeTimer, Threads
  <1> QED
    BY <1>1, <1>2, <1>3, <1>4, <1>5, <1>6, <1>7, <1>8, <1>9, <1>10, <1>11, <1>12, <1>13
    DEF Main
LEMMA ClientOwner ==
  ASSUME Types, SideInv("client"), ClientMain
  PROVE  SideInv("client")'
  <1> USE DEF Types, SideType, Sides, At
  <1>1. CASE StartAuth("client")
    <2>1. NoNewRights("startAuth", "failing") /\ NoNewRights("startAuth", "sendHostAuthInit")
      BY DEF NoNewRights, RawSteps, BoundSteps, BeforeTimer
    <2>2. "startAuth" \in BeforeTimer("authTimer") /\ "sendHostAuthInit" \notin BeforeTimer("authTimer")
      BY DEF BeforeTimer
    <2> QED
      BY <1>1, <2>1, <2>2, PhaseOwner DEF StartAuth
  <1>2. CASE SendHostAuthInit \/ SendClientAuthRequest
    <2>1. Walks("client")
      BY <1>2 DEF SendHostAuthInit, SendClientAuthRequest, Sends, Advanced, Walks,
                  NoNewRights, RawSteps, BoundSteps, BeforeTimer
    <2> QED
      BY <2>1, WalksOwner
  <1>3. CASE ReceiveServerAuth \/ ReceiveClientAuthResponse
    <2>1. side["client"].pc \in {"receiveServerAuth", "receiveClientAuthResponse"}
      BY <1>3 DEF ReceiveServerAuth, ReceiveClientAuthResponse
    <2>2. /\ side'["client"].pc \in {"sendClientAuthRequest", "authCheck"}
          /\ side'["client"].owner = side["client"].owner
          /\ side'["client"].ctx = side["client"].ctx
          /\ side'["client"].session = side["client"].session
      BY <1>3, ReceiveServerAuthGoes, ReceiveClientAuthResponseGoes DEF Goes
    <2>3. \A s \in {"sendClientAuthRequest", "authCheck"}: NoNewRights(side["client"].pc, s)
      BY <2>1 DEF NoNewRights, RawSteps, BoundSteps, BeforeTimer
    <2>4. Walks("client")
      BY <1>3, <2>2, <2>3 DEF ReceiveServerAuth, ReceiveClientAuthResponse, Walks
    <2> QED
      BY <2>4, WalksOwner
  <1>4. CASE AuthCheck \/ AuthStop
    <2>1. /\ NoNewRights("authCheck", "failing") /\ NoNewRights("authCheck", "authStop")
          /\ NoNewRights("authStop", "failing") /\ NoNewRights("authStop", "bind")
      BY DEF NoNewRights, RawSteps, BoundSteps, BeforeTimer
    <2> QED
      BY <1>4, <2>1, PhaseOwner DEF AuthCheck, AuthStop
  <1> QED
    BY <1>1, <1>2, <1>3, <1>4 DEF ClientMain

LEMMA ServerOwner ==
  ASSUME Types, SideInv("server"), ServerMain
  PROVE  SideInv("server")'
  <1> USE DEF Types, SideType, Sides, At
  <1>1. CASE BeginServer
    <2>1. Walks("server")
      BY <1>1 DEF BeginServer, Moved, Walks, NoNewRights, RawSteps, BoundSteps, BeforeTimer
    <2> QED
      BY <2>1, WalksOwner
  <1>2. CASE ReceiveHostAuthInit \/ ReceiveClientAuthRequest
    <2>1. side["server"].pc \in {"receiveHostAuthInit", "receiveClientAuthRequest"}
      BY <1>2 DEF ReceiveHostAuthInit, ReceiveClientAuthRequest
    <2>2. /\ side'["server"].pc \in {"sendServerAuth", "sendAuthError", "policy",
                                     "rejectInvalidClient", "verifyFailed"}
          /\ side'["server"].owner = side["server"].owner
          /\ side'["server"].ctx = side["server"].ctx
          /\ side'["server"].session = side["server"].session
      BY <1>2, ReceiveHostAuthInitGoes, ReceiveClientAuthRequestGoes DEF Goes
    <2>3. NoNewRights(side["server"].pc, side'["server"].pc)
      BY <2>1, <2>2 DEF NoNewRights, RawSteps, BoundSteps, BeforeTimer
    <2>4. Walks("server")
      BY <1>2, <2>2, <2>3 DEF ReceiveHostAuthInit, ReceiveClientAuthRequest, Walks
    <2> QED
      BY <2>4, WalksOwner
  <1>3. CASE \/ SendAuthError \/ SendServerAuth \/ RejectInvalidClient \/ SendReject
             \/ SendClientAuthOK
    <2>1. Walks("server")
      BY <1>3 DEF SendAuthError, SendServerAuth, RejectInvalidClient, SendReject,
                  SendClientAuthOK, Sends, Advanced, Walks, NoNewRights, RawSteps, BoundSteps,
                  BeforeTimer
    <2> QED
      BY <2>1, WalksOwner
  <1>4. CASE VerifyFailed \/ RejectDeadline \/ CompleteAuthStop
    <2>1. /\ side["server"].pc \in {"verifyFailed", "rejectDeadline", "stopAuth"}
          /\ side'["server"].pc = IF side["server"].pc = "stopAuth" THEN "cancelAuth"
                                 ELSE "failing"
          /\ side'["server"].owner = side["server"].owner
          /\ side'["server"].ctx = side["server"].ctx
          /\ side'["server"].session = side["server"].session
          /\ hold' = hold
      BY <1>4 DEF VerifyFailed, RejectDeadline, CompleteAuthStop, Moved
    <2>2. NoNewRights(side["server"].pc, side'["server"].pc)
      BY <2>1 DEF NoNewRights, RawSteps, BoundSteps, BeforeTimer
    <2>3. TimersMove("server")
      BY <1>4 DEF VerifyFailed, RejectDeadline, CompleteAuthStop, StopAuth, StartsFailing,
                  TimersMove, Threads
    <2>4. \/ thread'["server"]["main"] = thread["server"]["main"]
          \/ thread'["server"]["main"] = "fired" /\ side'["server"].pc = "failing"
      BY <1>4, <2>1 DEF VerifyFailed, RejectDeadline, CompleteAuthStop, StopAuth,
                        StartsFailing, Threads
    <2> QED
      BY <2>1, <2>2, <2>3, <2>4, OwnerMove
  <1>5. CASE DecideAccept \/ DecideReject \/ PendingClose
    <2>1. Walks("server")
      BY <1>5 DEF DecideAccept, DecideReject, PendingClose, Decide, Moved, Walks, NoNewRights,
                  RawSteps, BoundSteps, BeforeTimer
    <2> QED
      BY <2>1, WalksOwner
  <1>6. CASE Accept \/ CompleteAuthCancel
    <2>1. Walks("server")
      BY <1>6 DEF Accept, CompleteAuthCancel, FailsIf, Moved, Walks, NoNewRights, RawSteps,
                  BoundSteps, BeforeTimer
    <2> QED
      BY <2>1, WalksOwner
  <1> QED
    BY <1>1, <1>2, <1>3, <1>4, <1>5, <1>6 DEF ServerMain

\* A thread takes the owner, main only on its way to its error.
Takes(p, k) ==
  /\ side[p].ctx = "cancelled" /\ side[p].pc \notin {"begin", "refused"} \cup BeforeTimer(k)
  /\ k = "main" => side[p].pc = "failing"
  /\ side'[p].pc = IF k = "main" /\ side[p].owner = "none" THEN "failed" ELSE side[p].pc
  /\ side'[p].owner = "none" /\ side'[p].ctx = side[p].ctx
  /\ side'[p].session = side[p].session /\ side'[p].sock = side[p].sock
  /\ hold[p][k] = "none" /\ hold'[p][k] = side[p].owner
  /\ \A i \in Threads \ {k}: hold'[p][i] = hold[p][i]
  /\ thread'[p][k] = IF side[p].owner = "none" THEN "done" ELSE "took"
  /\ \A i \in Threads \ {k}:
       \/ thread'[p][i] = thread[p][i]
       \/ thread[p][i] = "armed" /\ thread'[p][i] = "stopped"

LEMMA TakesOwner ==
  ASSUME Types, NEW p \in Sides, SideInv(p), NEW k \in Threads, Watch(p) \/ FailTake(p, k)
  PROVE  \E j \in Threads: Takes(p, j)
  <1> USE DEF Types, SideType, Sides
  <1>1. PICK j \in Threads:
          /\ TakeOwner(p, j)
          /\ \/ j = "watcher" /\ thread[p][j] = "idle" /\ side[p].ctx = "cancelled"
                /\ side[p].pc \notin {"begin", "refused"}
             \/ thread[p][j] = "failing"
    BY DEF Watch, FailTake, Cancelled, Threads
  <1>2. side[p].ctx = "cancelled" /\ hold[p][j] = "none"
    BY <1>1 DEF SideInv, ThreadInv
  <1>3. side[p].pc \notin {"begin", "refused"} \cup BeforeTimer(j)
    BY <1>1 DEF SideInv, ThreadInv, BeforeTimer
  <1>4. j = "main" => side[p].pc = "failing"
    BY <1>1 DEF SideInv, ThreadInv
  <1>5. /\ side'[p].pc = IF j = "main" /\ side[p].owner = "none" THEN "failed" ELSE side[p].pc
        /\ side'[p].owner = "none" /\ side'[p].ctx = side[p].ctx
        /\ side'[p].session = side[p].session /\ side'[p].sock = side[p].sock
    BY <1>1 DEF TakeOwner
  <1>6. /\ hold'[p][j] = side[p].owner
        /\ \A i \in Threads \ {j}: hold'[p][i] = hold[p][i]
    BY <1>1 DEF TakeOwner
  <1>7. /\ thread'[p][j] = IF side[p].owner = "none" THEN "done" ELSE "took"
        /\ \A i \in Threads \ {j}:
             \/ thread'[p][i] = thread[p][i]
             \/ thread[p][i] = "armed" /\ thread'[p][i] = "stopped"
    BY <1>1 DEF TakeOwner, StopPhaseTimer
  <1>8. Takes(p, j)
    BY <1>2, <1>3, <1>4, <1>5, <1>6, <1>7 DEF Takes
  <1> QED
    BY <1>8

\* ... and closes it.
Closes(p, k) ==
  /\ side[p].ctx = "cancelled" /\ side[p].pc \notin {"begin", "refused"} \cup BeforeTimer(k)
  /\ k = "main" => side[p].pc = "failing"
  /\ side'[p].pc = IF k = "main" THEN "failed" ELSE side[p].pc
  /\ side'[p].owner = side[p].owner /\ side'[p].ctx = side[p].ctx
  /\ side'[p].session = IF hold[p][k] = "session" THEN "down" ELSE side[p].session
  /\ side'[p].sock = IF hold[p][k] \in {"conn", "transport"} /\ side[p].sock = "open"
                     THEN "establish" ELSE side[p].sock
  /\ thread[p][k] = "took" /\ thread'[p][k] = "done" /\ hold'[p][k] = "none"
  /\ \A i \in Threads \ {k}: thread'[p][i] = thread[p][i] /\ hold'[p][i] = hold[p][i]

LEMMA ClosesOwner ==
  ASSUME Types, NEW p \in Sides, SideInv(p), NEW k \in Threads, CloseOwner(p, k)
  PROVE  Closes(p, k)
  <1> USE DEF Types, SideType, Sides
  <1>1. /\ side'[p].pc = IF k = "main" THEN "failed" ELSE side[p].pc
        /\ side'[p].owner = side[p].owner /\ side'[p].ctx = side[p].ctx
        /\ side'[p].session = IF hold[p][k] = "session" THEN "down" ELSE side[p].session
    BY DEF CloseOwner
  <1>2. side'[p].sock = IF hold[p][k] \in {"conn", "transport"} /\ side[p].sock = "open"
                        THEN "establish" ELSE side[p].sock
    BY DEF CloseOwner
  <1>3. /\ thread[p][k] = "took" /\ thread'[p][k] = "done" /\ hold'[p][k] = "none"
        /\ \A i \in Threads \ {k}: thread'[p][i] = thread[p][i] /\ hold'[p][i] = hold[p][i]
    BY DEF CloseOwner
  <1>4. /\ side[p].ctx = "cancelled" /\ side[p].pc \notin {"begin", "refused"} \cup BeforeTimer(k)
        /\ k = "main" => side[p].pc = "failing"
    BY <1>3 DEF SideInv, ThreadInv, BeforeTimer
  <1> QED
    BY <1>1, <1>2, <1>3, <1>4 DEF Closes

\* Closing threads, timers and the session.
LEMMA OtherOwner ==
  ASSUME Types, NEW p \in Sides, SideInv(p), NEW k \in Threads,
         \/ Watch(p) \/ Fire(p, k) \/ Closer(p, k)
         \/ SessionSend(p) \/ SessionReceive(p) \/ SessionEnds(p) \/ SessionClose(p)
         \/ ParentCancel(p) \/ Stop(p)
  PROVE  SideInv(p)'
  <1> USE DEF Types, SideType, Sides
  <1>1. CASE Fire(p, k)
    BY <1>1 DEF Fire, PhaseTimers, SideInv, ThreadInv, OwnerAt, BeforeTimer
  <1>2. CASE FailCancel(p, k)
    BY <1>2 DEF FailCancel, SideInv, ThreadInv, OwnerAt, BeforeTimer
  <1>3. CASE CloseOwner(p, k)
    <2>1. Closes(p, k)
      BY <1>3, ClosesOwner
    <2>2. ThreadInv(p)'
      BY <2>1 DEF Closes, SideInv, ThreadInv, BeforeTimer, Threads
    <2>3. OwnerAt(p)'
      BY <2>1 DEF Closes, SideInv, OwnerAt, RawSteps, BoundSteps
    <2> QED
      BY <2>2, <2>3 DEF SideInv
  <1>4. CASE Watch(p) \/ FailTake(p, k)
    <2>1. PICK j \in Threads: Takes(p, j)
      BY <1>4, TakesOwner
    <2>2. ThreadInv(p)'
      BY <2>1 DEF Takes, SideInv, ThreadInv, BeforeTimer, Threads
    <2>3. OwnerAt(p)'
      BY <2>1 DEF Takes, SideInv, OwnerAt, RawSteps, BoundSteps, Threads
    <2> QED
      BY <2>2, <2>3 DEF SideInv
  <1>5. CASE SessionSend(p) \/ SessionReceive(p)
    BY <1>5 DEF SessionSend, SessionReceive, SideInv, ThreadInv, OwnerAt
  <1>6. CASE SessionEnds(p) \/ SessionClose(p)
    BY <1>6 DEF SessionEnds, SessionReadEnds, SessionParentEnds, SessionFinalize, SessionClose,
                SessionDown, SideInv, ThreadInv, OwnerAt
  <1>7. CASE ParentCancel(p) \/ Stop(p)
    BY <1>7 DEF ParentCancel, Stop, SideInv, ThreadInv, OwnerAt
  <1> QED
    BY <1>1, <1>2, <1>3, <1>4, <1>5, <1>6, <1>7 DEF Closer

LEMMA AuthDeadlineOwner ==
  ASSUME Types, SideInv("server"), AuthExpires \/ AuthContextEnds
  PROVE  SideInv("server")'
  <1> USE DEF Types, SideType, Sides
  <1>1. /\ side' = side /\ hold' = hold
        /\ \A i \in Threads \ {"authTimer"}: thread'["server"][i] = thread["server"][i]
        /\ \/ thread'["server"]["authTimer"] = thread["server"]["authTimer"]
           \/ /\ thread["server"]["authTimer"] = "armed"
              /\ \/ thread'["server"]["authTimer"] = "fired"
                 \/ /\ thread'["server"]["authTimer"] = "failing"
                    /\ side["server"].ctx = "cancelled"
    BY DEF AuthExpires, AuthContextEnds, Cancelled, Threads
  <1> QED
    BY <1>1 DEF SideInv, ThreadInv, OwnerAt, Threads

(***************************************************************************)
(* A step is one of a side, and leaves the other side's runtime alone.     *)
(***************************************************************************)
AuthMain(p) == (p = "client" /\ ClientMain) \/ (p = "server" /\ ServerMain)

OtherStep(p, k) ==
  \/ Watch(p) \/ Fire(p, k) \/ Closer(p, k)
  \/ SessionSend(p) \/ SessionReceive(p) \/ SessionEnds(p) \/ SessionClose(p)
  \/ ParentCancel(p) \/ Stop(p)
  \/ p = "server" /\ (AuthExpires \/ AuthContextEnds)

StepOf(p) == Main(p) \/ AuthMain(p) \/ \E k \in Threads: OtherStep(p, k)

LEMMA NextIsOfOneSide == Next => \E p \in Sides: StepOf(p)
  <1>1. "client" \in Sides /\ "server" \in Sides /\ "main" \in Threads
    BY DEF Sides, Threads
  <1>2. ASSUME NEW p \in Sides, NEW k \in Threads,
               Main(p) \/ AuthMain(p) \/ OtherStep(p, k)
        PROVE  \E q \in Sides: StepOf(q)
    BY <1>2 DEF StepOf
  <1>3. ASSUME NEW p \in Sides,
               \/ Watch(p) \/ SessionSend(p) \/ SessionReceive(p) \/ SessionEnds(p)
               \/ SessionClose(p) \/ ParentCancel(p) \/ Stop(p)
        PROVE  OtherStep(p, "main")
    BY <1>3 DEF OtherStep
  <1>4. ASSUME NEW p \in Sides, NEW k \in Threads, Fire(p, k) \/ Closer(p, k)
        PROVE  OtherStep(p, k)
    BY <1>4 DEF OtherStep
  <1>5. AuthExpires \/ AuthContextEnds => OtherStep("server", "main")
    BY DEF OtherStep
  <1>6. (ClientMain => AuthMain("client")) /\ (ServerMain => AuthMain("server"))
    BY DEF AuthMain
  <1> SUFFICES ASSUME Next PROVE \E q \in Sides: StepOf(q)
    OBVIOUS
  <1>7. CASE ClientMain \/ ServerMain \/ AuthExpires \/ AuthContextEnds
    BY <1>1, <1>2, <1>5, <1>6, <1>7
  <1>8. ASSUME NEW p \in Sides,
               \/ Main(p) \/ Watch(p)
               \/ SessionSend(p) \/ SessionReceive(p) \/ SessionEnds(p) \/ SessionClose(p)
               \/ ParentCancel(p) \/ Stop(p)
               \/ \E k \in Threads: Fire(p, k) \/ Closer(p, k)
        PROVE  \E q \in Sides: StepOf(q)
    BY <1>1, <1>2, <1>3, <1>4, <1>8
  <1> QED
    BY <1>7, <1>8 DEF Next

LEMMA OtherSideUntouched ==
  ASSUME Types, NEW p \in Sides, StepOf(p), NEW q \in Sides, q # p
  PROVE  Untouched(q)
  <1> USE DEF Types, SideType, Sides, Untouched, Moved, StartsFailing, Errored
  <1>1. CASE IOFails(p)
    BY <1>1 DEF IOFails
  <1>2. CASE Refuse(p) \/ NewRuntime(p) \/ HandshakeWrite(p) \/ HandshakeRead(p) \/ SetOwner(p)
    BY <1>2 DEF Refuse, NewRuntime, HandshakeWrite, HandshakeRead, SetOwner
  <1>3. CASE StartHandshake(p) \/ HandshakeCheck(p) \/ HandshakeStop(p)
    BY <1>3 DEF StartHandshake, HandshakeCheck, HandshakeStop, RunWithTimeout, CheckPhase, StopPhase,
                StopPhaseTimer
  <1>4. CASE Bind(p) \/ SetSessionOwner(p) \/ Activate(p) \/ LastCheck(p) \/ Release(p)
    BY <1>4 DEF Bind, SetSessionOwner, Activate, LastCheck, FailsIf, Release, StopPhaseTimer
  <1>5. CASE p = "client" /\ (StartAuth("client") \/ AuthCheck \/ AuthStop)
    BY <1>5 DEF StartAuth, AuthCheck, AuthStop, RunWithTimeout, CheckPhase, StopPhase, StopPhaseTimer
  <1>6. CASE p = "client" /\ (SendHostAuthInit \/ SendClientAuthRequest)
    BY <1>6 DEF SendHostAuthInit, SendClientAuthRequest, Sends, Advanced
  <1>7. CASE p = "client" /\ (ReceiveServerAuth \/ ReceiveClientAuthResponse)
    BY <1>7 DEF ReceiveServerAuth, ReceiveClientAuthResponse, Advanced
  <1>8. CASE p = "server" /\ ServerMain
    BY <1>8 DEF ServerMain, BeginServer, ReceiveHostAuthInit, SendAuthError, SendServerAuth,
                ReceiveClientAuthRequest, RejectInvalidClient, VerifyFailed, DecideAccept,
                DecideReject, PendingClose, Decide, SendReject, RejectDeadline, Accept, FailsIf,
                CompleteAuthStop, CompleteAuthCancel, SendClientAuthOK, Sends, Advanced, StopAuth
  <1>9. CASE p = "server" /\ (AuthExpires \/ AuthContextEnds)
    BY <1>9 DEF AuthExpires, AuthContextEnds
  <1>10. CASE Watch(p) \/ \E k \in Threads: Fire(p, k) \/ Closer(p, k)
    BY <1>10 DEF Watch, Fire, Closer, FailCancel, FailTake, TakeOwner, CloseOwner, StopPhaseTimer
  <1>11. CASE \/ SessionSend(p) \/ SessionReceive(p) \/ SessionEnds(p) \/ SessionClose(p)
              \/ ParentCancel(p) \/ Stop(p)
    BY <1>11 DEF SessionSend, SessionReceive, SessionEnds, SessionReadEnds, SessionParentEnds,
                 SessionFinalize, SessionClose, SessionDown, ParentCancel, Stop
  <1> QED
    BY <1>1, <1>2, <1>3, <1>4, <1>5, <1>6, <1>7, <1>8, <1>9, <1>10, <1>11
    DEF StepOf, Main, AuthMain, ClientMain, OtherStep

LEMMA OwnerStep == Types /\ OwnerInv /\ [Next]_vars => OwnerInv'
  <1> SUFFICES ASSUME Types, OwnerInv, [Next]_vars PROVE OwnerInv'
    OBVIOUS
  <1>1. CASE UNCHANGED vars
    BY <1>1 DEF vars, OwnerInv, ThreadInv, OwnerAt
  <1>2. ASSUME NEW p \in Sides, StepOf(p) PROVE OwnerInv'
    <2>1. \A q \in Sides: SideInv(q)
      BY DEF OwnerInv, SideInv
    <2>2. SideInv(p)'
      BY <1>2, <2>1, MainOwner, ClientOwner, ServerOwner, OtherOwner, AuthDeadlineOwner
      DEF StepOf, AuthMain, OtherStep
    <2>3. \A q \in Sides \ {p}: SideInv(q)'
      BY <1>2, <2>1, OtherSideUntouched, UntouchedInv
    <2> QED
      BY <2>2, <2>3 DEF OwnerInv, SideInv
  <1> QED
    BY <1>1, <1>2, NextIsOfOneSide

-----------------------------------------------------------------------------
(***************************************************************************)
(* The refinement.  A step of a side moves that side's baton as OwnerBaton *)
(* allows, or not at all.                                                  *)
(***************************************************************************)
Raw(p) == \E k \in Threads: "conn" \in {side[p].owner, hold[p][k]}

StageMove(p) ==
  \/ Stage(p)' = Stage(p) /\ side'[p].sock = side[p].sock
  \/ /\ side[p].sock = "open" /\ side'[p].sock = "open"
     /\ \/ Stage(p) = "AppSocket" /\ Stage(p)' = "EstablishRaw"
        \/ Stage(p) = "EstablishRaw" /\ Stage(p)' = "EstablishNoise"
        \/ Stage(p) = "EstablishNoise" /\ Stage(p)' = "SessionBound"
        \/ Stage(p) = "SessionBound" /\ Stage(p)' = "SessionActive"
  \/ /\ side[p].sock = "open" /\ side'[p].sock = "establish"
     /\ Stage(p) \in {"EstablishRaw", "EstablishNoise", "SessionBound"}
  \/ /\ side[p].sock = "open" /\ side'[p].sock = "session"
     /\ Stage(p) \in {"SessionBound", "SessionActive"}

\* Steps that move neither the session, the owners nor main across a stage.
LEMMA SameStage ==
  ASSUME NEW p \in Sides,
         side'[p].sock = side[p].sock,
         side'[p].session = "none" <=> side[p].session = "none",
         \A step \in {"begin", "refused", "returned"}: side[p].pc = step <=> side'[p].pc = step,
         Raw(p)' <=> Raw(p)
  PROVE  StageMove(p)
  BY DEF StageMove, Stage, Raw

\* Main moves on, or something moves that no stage depends on.
Calm(p) ==
  /\ side'[p].sock = side[p].sock /\ side'[p].owner = side[p].owner /\ hold' = hold
  /\ side'[p].session = "none" <=> side[p].session = "none"
  /\ \/ side'[p].pc = side[p].pc
     \/ {side[p].pc, side'[p].pc} \cap {"begin", "refused", "returned"} = {}

LEMMA CalmStage ==
  ASSUME NEW p \in Sides, Calm(p)
  PROVE  StageMove(p)
  <1>1. Raw(p)' <=> Raw(p)
    BY DEF Calm, Raw
  <1> QED
    BY <1>1, SameStage DEF Calm

LEMMA MainStage ==
  ASSUME Types, NEW p \in Sides, SideInv(p), Main(p)
  PROVE  StageMove(p)
  <1> USE DEF Types, SideType, Sides, At
  <1>1. CASE IOFails(p)
    <2>1. Walks(p) /\ side'[p].sock = side[p].sock
      BY <1>1, IOFailsWalks, ErrorGoes DEF IOFails, Goes
    <2>2. side[p].pc \notin {"begin", "refused", "returned"}
      BY <1>1 DEF IOFails, Reads, Writes
    <2> QED
      BY <2>1, <2>2, CalmStage DEF Calm, Walks, NoNewRights
  <1>2. CASE Refuse(p)
    BY <1>2 DEF Refuse, Moved, StageMove, Stage
  <1>3. CASE NewRuntime(p)
    BY <1>3 DEF NewRuntime, StageMove, Stage, SideInv, OwnerAt, Threads
  <1>4. CASE StartHandshake(p)
    <2>1. Calm(p)
      BY <1>4 DEF StartHandshake, RunWithTimeout, Moved, Calm
    <2> QED
      BY <2>1, CalmStage
  <1>5. CASE HandshakeWrite(p)
    <2>1. Calm(p)
      BY <1>5 DEF HandshakeWrite, Moved, Calm
    <2> QED
      BY <2>1, CalmStage
  <1>6. CASE HandshakeRead(p)
    <2>1. AfterError("handshakeRead") = "handshakeCheck"
      BY DEF AfterError, HandshakeSteps, ClientAuthSteps, ServerAuthSteps
    <2>2. CASE side' = Errored(p)
      <3>1. Goes(p, "handshakeCheck", TRUE, side[p].auth)
        BY <1>6, <2>1, <2>2, ErrorGoes DEF HandshakeRead
      <3>2. Calm(p)
        BY <1>6, <3>1 DEF HandshakeRead, Goes, Calm
      <3> QED
        BY <3>2, CalmStage
    <2>3. CASE side' # Errored(p)
      <3>1. Calm(p)
        BY <1>6, <2>3 DEF HandshakeRead, Moved, Calm
      <3> QED
        BY <3>1, CalmStage
    <2> QED
      BY <2>2, <2>3
  <1>7. CASE HandshakeCheck(p) \/ HandshakeStop(p)
    <2>1. Calm(p)
      BY <1>7 DEF HandshakeCheck, HandshakeStop, CheckPhase, StopPhase, Moved, Calm
    <2> QED
      BY <2>1, CalmStage
  <1>8. CASE SetOwner(p)
    BY <1>8 DEF SetOwner, StageMove, Stage
  <1>9. CASE Bind(p)
    <2>1. CASE Cancelled(p)
      <3>1. Calm(p)
        BY <1>9, <2>1 DEF Bind, Moved, Calm
      <3> QED
        BY <3>1, CalmStage
    <2>2. CASE ~Cancelled(p)
      <3>1. \A k \in Threads: hold[p][k] = "none"
        BY <2>2 DEF Cancelled, SideInv, ThreadInv
      <3>2. side[p].owner # "conn"
        BY <1>9 DEF Bind, SideInv, OwnerAt, RawSteps
      <3> QED
        BY <1>9, <2>2, <3>1, <3>2 DEF Bind, StageMove, Stage
    <2> QED
      BY <2>1, <2>2
  <1>10. CASE SetSessionOwner(p)
    <2>1. side[p].session # "none"
      BY <1>10 DEF SetSessionOwner, SideInv, OwnerAt, BoundSteps
    <2> QED
      BY <1>10, <2>1 DEF SetSessionOwner, StageMove, Stage
  <1>11. CASE Activate(p) \/ LastCheck(p)
    <2>1. Calm(p)
      BY <1>11 DEF Activate, LastCheck, FailsIf, Moved, Calm
    <2> QED
      BY <2>1, CalmStage
  <1>12. CASE Release(p)
    <2>1. side[p].session # "none"
      BY <1>12 DEF Release, SideInv, OwnerAt, BoundSteps
    <2> QED
      BY <1>12, <2>1 DEF Release, StageMove, Stage
  <1> QED
    BY <1>1, <1>2, <1>3, <1>4, <1>5, <1>6, <1>7, <1>8, <1>9, <1>10, <1>11, <1>12 DEF Main

LEMMA AuthStage ==
  ASSUME Types, NEW p \in Sides, SideInv(p),
         AuthMain(p)
  PROVE  StageMove(p)
  <1> SUFFICES Calm(p)
    BY CalmStage
  <1> USE DEF Types, SideType, Sides, At, Calm
  <1>1. CASE p = "client" /\ (StartAuth("client") \/ AuthCheck \/ AuthStop)
    BY <1>1 DEF StartAuth, AuthCheck, AuthStop, RunWithTimeout, CheckPhase, StopPhase, Moved
  <1>2. CASE p = "client" /\ (SendHostAuthInit \/ SendClientAuthRequest)
    BY <1>2 DEF SendHostAuthInit, SendClientAuthRequest, Sends, Advanced
  <1>3. CASE p = "client" /\ (ReceiveServerAuth \/ ReceiveClientAuthResponse)
    <2>1. side["client"].pc \in {"receiveServerAuth", "receiveClientAuthResponse"} /\ hold' = hold
      BY <1>3 DEF ReceiveServerAuth, ReceiveClientAuthResponse
    <2> QED
      BY <1>3, <2>1, ReceiveServerAuthGoes, ReceiveClientAuthResponseGoes DEF Goes
  <1>4. CASE p = "server" /\ (ReceiveHostAuthInit \/ ReceiveClientAuthRequest)
    <2>1. side["server"].pc \in {"receiveHostAuthInit", "receiveClientAuthRequest"} /\ hold' = hold
      BY <1>4 DEF ReceiveHostAuthInit, ReceiveClientAuthRequest
    <2> QED
      BY <1>4, <2>1, ReceiveHostAuthInitGoes, ReceiveClientAuthRequestGoes DEF Goes
  <1>5. CASE p = "server" /\ (\/ SendAuthError \/ SendServerAuth \/ RejectInvalidClient
                              \/ SendReject \/ SendClientAuthOK)
    BY <1>5 DEF SendAuthError, SendServerAuth, RejectInvalidClient, SendReject,
                SendClientAuthOK, Sends, Advanced
  <1>6. CASE p = "server" /\ (\/ BeginServer \/ VerifyFailed \/ RejectDeadline
                              \/ DecideAccept \/ DecideReject \/ PendingClose
                              \/ Accept \/ CompleteAuthStop \/ CompleteAuthCancel)
    BY <1>6 DEF BeginServer, VerifyFailed, RejectDeadline, DecideAccept, DecideReject,
                PendingClose, Decide, Accept, CompleteAuthStop, CompleteAuthCancel, FailsIf, Moved
  <1> QED
    BY <1>1, <1>2, <1>3, <1>4, <1>5, <1>6 DEF AuthMain, ClientMain, ServerMain

LEMMA OtherStage ==
  ASSUME Types, NEW p \in Sides, SideInv(p), NEW k \in Threads, OtherStep(p, k)
  PROVE  StageMove(p)
  <1> USE DEF Types, SideType, Sides
  <1>1. CASE \/ Fire(p, k) \/ FailCancel(p, k) \/ SessionSend(p) \/ SessionReceive(p)
             \/ SessionReadEnds(p) \/ SessionParentEnds(p) \/ SessionClose(p)
             \/ ParentCancel(p) \/ Stop(p)
             \/ p = "server" /\ (AuthExpires \/ AuthContextEnds)
    <2>1. Calm(p)
      BY <1>1 DEF Fire, FailCancel, SessionSend, SessionReceive, SessionReadEnds,
                  SessionParentEnds, SessionClose, SessionDown, ParentCancel, Stop, AuthExpires,
                  AuthContextEnds, Calm
    <2> QED
      BY <2>1, CalmStage
  <1>2. CASE SessionFinalize(p)
    BY <1>2 DEF SessionFinalize, StageMove, Stage, SideInv, OwnerAt
  <1>3. CASE Watch(p) \/ FailTake(p, k)
    <2>1. PICK j \in Threads: Takes(p, j)
      BY <1>3, TakesOwner
    <2>2. Raw(p)' <=> Raw(p)
      BY <2>1 DEF Takes, Raw
    <2> QED
      BY <2>1, <2>2, SameStage DEF Takes
  <1>4. CASE CloseOwner(p, k)
    <2>1. Closes(p, k)
      BY <1>4, ClosesOwner
    <2>2. CASE hold[p][k] \in {"conn", "transport"} /\ side[p].sock = "open"
      BY <2>1, <2>2 DEF Closes, StageMove, Stage, SideInv, OwnerAt
    <2>3. CASE hold[p][k] \in {"conn", "transport"} /\ side[p].sock # "open"
      BY <2>1, <2>3 DEF Closes, StageMove, Stage
    <2>4. CASE hold[p][k] = "session"
      BY <2>1, <2>4 DEF Closes, StageMove, Stage, SideInv, OwnerAt
    <2>5. CASE hold[p][k] = "none"
      <3>1. Raw(p)' <=> Raw(p)
        BY <2>1, <2>5 DEF Closes, Raw
      <3> QED
        BY <2>1, <2>5, <3>1, SameStage DEF Closes
    <2> QED
      BY <2>2, <2>3, <2>4, <2>5 DEF Owners
  <1> QED
    BY <1>1, <1>2, <1>3, <1>4 DEF OtherStep, Closer, SessionEnds

LEMMA BatonStep ==
  ASSUME Types, OwnerInv, [Next]_vars
  PROVE  [Baton!Next]_(Baton!vars)
  <1> DEFINE open(p) == side[p].sock = "open"
             by(p) == IF side[p].sock = "open" THEN "nobody" ELSE side[p].sock
             stg == [p \in Sides |-> Stage(p)]
             cls == [p \in Sides |-> by(p)]
  <1>1. CASE UNCHANGED vars
    BY <1>1 DEF vars, Baton!vars, Stage
  <1>2. ASSUME NEW p \in Sides, StepOf(p) PROVE [Baton!Next]_(Baton!vars)
    <2>1. StageMove(p)
      <3>1. SideInv(p)
        BY DEF OwnerInv, SideInv
      <3> QED
        BY <1>2, <3>1, MainStage, AuthStage, OtherStage DEF StepOf
    <2>2. \A q \in Sides \ {p}: Stage(q)' = Stage(q) /\ by(q)' = by(q)
      BY <1>2, OtherSideUntouched DEF Untouched, Stage
    <2>3. CASE Stage(p)' = Stage(p) /\ side'[p].sock = side[p].sock
      <3>1. stg' = stg /\ cls' = cls
        BY <2>2, <2>3
      <3> QED
        BY <3>1 DEF Baton!vars
    <2>4. CASE Stage(p)' # Stage(p) \/ side'[p].sock # side[p].sock
      <3>1. /\ stg' = [stg EXCEPT ![p] = Stage(p)']
            /\ cls' = [cls EXCEPT ![p] = by(p)']
        BY <2>2
      <3>2. stg[p] = Stage(p) /\ (Stage(p)' = "Closed" <=> side'[p].sock # "open")
        BY DEF Stage
      <3> HIDE DEF stg, cls
      <3>3. CASE side'[p].sock = "open"
        <4>1. side[p].sock = "open" /\ cls' = cls
          BY <2>1, <2>2, <3>3 DEF StageMove, cls
        <4>2. \/ Stage(p) = "AppSocket" /\ Stage(p)' = "EstablishRaw"
              \/ Stage(p) = "EstablishRaw" /\ Stage(p)' = "EstablishNoise"
              \/ Stage(p) = "EstablishNoise" /\ Stage(p)' = "SessionBound"
              \/ Stage(p) = "SessionBound" /\ Stage(p)' = "SessionActive"
          BY <2>1, <2>4, <3>3 DEF StageMove
        <4>3. \/ Baton!Pass(p, "AppSocket", "EstablishRaw")
              \/ Baton!Pass(p, "EstablishRaw", "EstablishNoise")
              \/ Baton!Pass(p, "EstablishNoise", "SessionBound")
              \/ Baton!Pass(p, "SessionBound", "SessionActive")
          BY <3>1, <3>2, <4>1, <4>2 DEF Baton!Pass, stg, cls
        <4> QED
          BY <4>3 DEF Baton!Next
      <3>4. CASE side'[p].sock # "open"
        <4>1. /\ by(p)' = side'[p].sock /\ Stage(p)' = "Closed"
              /\ \/ /\ side'[p].sock = "establish"
                    /\ Stage(p) \in {"EstablishRaw", "EstablishNoise", "SessionBound"}
                 \/ /\ side'[p].sock = "session"
                    /\ Stage(p) \in {"SessionBound", "SessionActive"}
          BY <2>1, <2>4, <3>2, <3>4 DEF StageMove
        <4>2. Baton!CloseSetup(p) \/ Baton!CloseSession(p)
          BY <3>1, <3>2, <4>1 DEF Baton!CloseSetup, Baton!CloseSession, Baton!Close, stg, cls
        <4> QED
          BY <4>2 DEF Baton!Next
      <3> QED
        BY <3>3, <3>4
    <2> QED
      BY <2>3, <2>4
  <1> QED
    BY <1>1, <1>2, NextIsOfOneSide

-----------------------------------------------------------------------------
(***************************************************************************)
(* The conversation's invariant.  The deployment does not change, so       *)
(* neither do the frames that are made of it.                              *)
(***************************************************************************)
LEMMA EnvFixed ==
  ASSUME env' = env
  PROVE  /\ HostAuthInit' = HostAuthInit /\ Request' = Request /\ Answer' = Answer
         /\ Frames' = Frames
         /\ Trusted("server", "hostKey")' = Trusted("server", "hostKey")
  BY DEF HostAuthInit, Request, ClientAuthRequest, ClientAuthToSign, Answer, ServerAuth,
         ServerAuthToSign, HashServerAuth, ChannelBinding, Frames, Noise, Session, OK, Reject,
         AuthError, Trusted

\* A side gives up: nothing is asked of it any more.
LEMMA LostTalk ==
  ASSUME Types, TalkInv, NEW p \in Sides, Lost(p)', side'[p].pc \in LossSteps(p),
         side'[p].auth = side[p].auth,
         side'[p].session # side[p].session => side[p].session # "none" /\ side'[p].session = "down",
         \A q \in Sides \ {p}: side'[q] = side[q],
         wire' = wire, pending' = pending, env' = env
  PROVE  TalkInv'
  <1> USE EnvFixed DEF TalkInv, LossSteps, Sides, Client, Server
  <1>1. WireType' /\ LostAt' /\ InStep'
    BY DEF WireType, LostAt, InStep
  <1>2. ClientAuthAt'
    BY DEF ClientAuthAt, Lost, ServerAuthSteps, ServerCommitSteps, CommitSteps
  <1>3. ServerAuthAt'
    BY DEF ServerAuthAt, Lost, ClientAuthSteps, ServerCommitSteps, CommitSteps, FinalSteps
  <1>4. Verified'
    BY DEF Verified
  <1>5. ToServer'
    BY DEF ToServer, Lost, OpeningSteps, HandshakeSteps, HandshakeEnd
  <1>6. ToClient'
    BY DEF ToClient, Lost, OpeningSteps, HandshakeSteps, HandshakeEnd
  <1> QED
    BY <1>1, <1>2, <1>3, <1>4, <1>5, <1>6

\* The steps of main that send and read nothing.
Hops(p) ==
  {<<"begin", "refused">>, <<"begin", "startHandshake">>,
   <<"handshakeCheck", "handshakeStop">>, <<"handshakeStop", "setOwner">>,
   <<"bind", "setSessionOwner">>, <<"activate", "lastCheck">>, <<"lastCheck", "release">>,
   <<"release", "returned">>} \cup
  (IF p = "client"
   THEN {<<"startHandshake", "handshakeWrite">>, <<"setOwner", "startAuth">>,
         <<"startAuth", "sendHostAuthInit">>, <<"authCheck", "authStop">>,
         <<"authStop", "bind">>, <<"setSessionOwner", "activate">>}
   ELSE {<<"startHandshake", "handshakeRead">>, <<"setOwner", "beginServer">>,
         <<"beginServer", "receiveHostAuthInit">>, <<"accept", "bind">>,
         <<"setSessionOwner", "stopAuth">>, <<"stopAuth", "cancelAuth">>,
         <<"cancelAuth", "sendClientAuthOK">>})

LEMMA HopTalk ==
  ASSUME Types, TalkInv, NEW p \in Sides, ~Lost(p),
         <<side[p].pc, side'[p].pc>> \in Hops(p),
         side'[p].err = side[p].err, side'[p].auth = side[p].auth,
         \/ side'[p].session = side[p].session
         \/ side[p].pc = "bind" /\ side'[p].session = "bound"
         \/ side[p].pc = "activate" /\ side'[p].session = "active",
         \A q \in Sides \ {p}: side'[q] = side[q],
         wire' = wire, pending' = pending, env' = env
  PROVE  TalkInv'
  <1> USE EnvFixed DEF TalkInv, Hops, Sides, Client, Server
  <1>1. WireType' /\ LostAt' /\ InStep'
    BY DEF WireType, LostAt, InStep, Lost
  <1>2. ClientAuthAt'
    BY DEF ClientAuthAt, Lost, ServerAuthSteps, ServerCommitSteps, CommitSteps
  <1>3. ServerAuthAt'
    BY DEF ServerAuthAt, Lost, ClientAuthSteps, ServerCommitSteps, CommitSteps, FinalSteps
  <1>4. Verified'
    BY DEF Verified
  <1>5. ToServer'
    BY DEF ToServer, ClientAuthAt, ServerAuthAt, Lost, OpeningSteps, HandshakeSteps, HandshakeEnd
  <1>6. ToClient'
    BY DEF ToClient, ClientAuthAt, ServerAuthAt, Lost, OpeningSteps, HandshakeSteps, HandshakeEnd
  <1> QED
    BY <1>1, <1>2, <1>3, <1>4, <1>5, <1>6

\* Queues of frames.
LEMMA FrameKinds ==
  /\ Noise.kind = "noise" /\ HostAuthInit.kind = "hostAuthInit"
  /\ Request.kind = "clientAuthRequest" /\ Answer.kind = "serverAuth"
  /\ Session.kind = "session" /\ OK.kind = "ok" /\ Reject.kind = "reject"
  /\ AuthError.kind = "error"
  BY DEF Noise, HostAuthInit, Request, ClientAuthRequest, Answer, ServerAuth, Session, OK,
         Reject, AuthError

LEMMA Queues ==
  ASSUME NEW q \in Seq(Frames), NEW f \in Frames
  PROVE  /\ Append(q, f) \in Seq(Frames) /\ Append(<<>>, f) = <<f>>
         /\ Head(<<f>>) = f /\ Tail(<<f>>) = <<>> /\ <<f>> # <<>>
         /\ q # <<>> => Tail(q) \in Seq(Frames) /\ Head(q) \in Frames
         /\ AllSession(<<>>)
         /\ AllSession(q) /\ f = Session => AllSession(Append(q, f))
         /\ AllSession(q) /\ q # <<>> => AllSession(Tail(q)) /\ Head(q).kind = "session"
         /\ q # <<>> => /\ Head(Append(q, f)) = Head(q)
                        /\ Tail(Append(q, f)) = Append(Tail(q), f)
  <1>1. /\ Append(q, f) \in Seq(Frames) /\ Append(<<>>, f) = <<f>>
        /\ Head(<<f>>) = f /\ Tail(<<f>>) = <<>> /\ <<f>> # <<>>
        /\ q # <<>> => Tail(q) \in Seq(Frames) /\ Head(q) \in Frames
    OBVIOUS
  <1>2. AllSession(<<>>)
    BY DEF AllSession
  <1>3. AllSession(q) /\ f = Session => AllSession(Append(q, f))
    BY FrameKinds DEF AllSession
  <1>4. AllSession(q) /\ q # <<>> => AllSession(Tail(q)) /\ Head(q).kind = "session"
    BY DEF AllSession
  <1>5. q # <<>> => /\ Head(Append(q, f)) = Head(q)
                    /\ Tail(Append(q, f)) = Append(Tail(q), f)
    <2> SUFFICES ASSUME q # <<>> PROVE Head(Append(q, f)) = Head(q)
                                       /\ Tail(Append(q, f)) = Append(Tail(q), f)
      OBVIOUS
    <2>1. Len(Tail(Append(q, f))) = Len(Append(Tail(q), f))
      OBVIOUS
    <2>2. \A i \in 1..Len(q): Tail(Append(q, f))[i] = Append(Tail(q), f)[i]
      OBVIOUS
    <2> QED
      BY <2>1, <2>2
  <1> QED
    BY <1>1, <1>2, <1>3, <1>4, <1>5

LEMMA Single ==
  \A q, f: q = <<f>> => /\ q # <<>> /\ Head(q) = f /\ Tail(q) = <<>>
                        /\ AllSession(Tail(q))
  BY DEF AllSession

LEMMA Sending ==
  ASSUME Types, WireType, NEW p \in Sides, NEW f \in Frames, wire' = Sent(p, f)
  PROVE  /\ wire'[p] = Append(wire[p], f) /\ wire'[Peer(p)] = wire[Peer(p)]
         /\ wire' \in [Sides -> Seq(Frames)]
  BY Queues DEF WireType, Sent, Peer, Sides

LEMMA Receiving ==
  ASSUME Types, WireType, NEW p \in Sides, CanRead(p), wire' = Received(p)
  PROVE  /\ wire[Peer(p)] # <<>> /\ wire'[Peer(p)] = Tail(wire[Peer(p)])
         /\ wire'[p] = wire[p] /\ wire' \in [Sides -> Seq(Frames)]
  BY Queues DEF WireType, CanRead, Incoming, Received, Peer, Sides

LEMMA HandshakeWriteTalk ==
  ASSUME Types, TalkInv, NEW p \in Sides, HandshakeWrite(p)
  PROVE  TalkInv'
  <1>1. /\ side[p].pc = "handshakeWrite" /\ ~Lost(p)
        /\ Goes(p, IF p = "client" THEN "handshakeRead" ELSE "handshakeCheck",
                side[p].err, side[p].auth)
    BY MovedGoes DEF HandshakeWrite, At, TalkInv, LostAt, LossSteps, Lost
  <1>2. Noise \in Frames /\ wire' = Sent(p, Noise) /\ pending' = pending /\ env' = env
    BY DEF HandshakeWrite, Noise, Frames
  <1>3. /\ wire'[p] = Append(wire[p], Noise) /\ wire'[Peer(p)] = wire[Peer(p)]
        /\ wire' \in [Sides -> Seq(Frames)] /\ wire \in [Sides -> Seq(Frames)]
    BY <1>2, Sending DEF TalkInv, WireType
  <1> USE <1>1, <1>2, <1>3, EnvFixed DEF TalkInv, Goes, Sides, Peer, Client, Server
  <1>4. WireType' /\ LostAt' /\ InStep' /\ Verified'
    BY DEF WireType, LostAt, InStep, Verified, LossSteps
  <1>5. ClientAuthAt'
    BY DEF ClientAuthAt, Lost, ServerAuthSteps, ServerCommitSteps, CommitSteps
  <1>6. ServerAuthAt'
    BY DEF ServerAuthAt, Lost, ClientAuthSteps, ServerCommitSteps, CommitSteps, FinalSteps
  <1>7. CASE p = "client"
    <2>0. Client.auth = "noise-established"
      BY <1>7 DEF ClientAuthAt, CommitSteps
    <2>1. wire'["client"] = <<Noise>> /\ wire'["server"] = wire["server"]
      BY <1>7 DEF ToServer
    <2>2. ToServer'
      BY <1>7, <2>0, <2>1 DEF ToServer, Verified, LostAt, LossSteps, Lost, OpeningSteps,
                              HandshakeSteps, HandshakeEnd
    <2>3. ToClient'
      BY <1>7, <2>1 DEF ToClient, ClientAuthAt, Lost, OpeningSteps, HandshakeSteps, HandshakeEnd
    <2> QED
      BY <1>4, <1>5, <1>6, <2>2, <2>3
  <1>8. CASE p = "server"
    <2>0. Server.auth = "noise-established"
      BY <1>8 DEF ServerAuthAt, ServerCommitSteps, FinalSteps
    <2>1. wire'["server"] = <<Noise>> /\ wire'["client"] = wire["client"]
      BY <1>8 DEF ToClient, HandshakeSteps
    <2>2. ToServer'
      BY <1>8, <2>1 DEF ToServer, ServerAuthAt, Lost, OpeningSteps, HandshakeSteps, HandshakeEnd
    <2>3. ToClient'
      BY <1>8, <2>0, <2>1 DEF ToClient, InStep, LostAt, LossSteps, Lost, OpeningSteps,
                              HandshakeSteps, HandshakeEnd
    <2> QED
      BY <1>4, <1>5, <1>6, <2>2, <2>3
  <1> QED
    BY <1>7, <1>8

\* The authentication state at the steps that send or read.
LEMMA Places ==
  ASSUME TalkInv
  PROVE  /\ Client.pc \in OpeningSteps \cup HandshakeSteps \cup {"startAuth", "sendHostAuthInit"} =>
              Client.auth = "noise-established"
         /\ Client.pc = "receiveServerAuth" => Client.auth = "host-auth-init-sent"
         /\ Client.pc = "sendClientAuthRequest" => Client.auth = "server-auth-received"
         /\ Client.pc = "receiveClientAuthResponse" => Client.auth = "client-auth-sent"
         /\ Client.session # "none" => Client.auth = "authenticated"
         /\ Client.auth = "authenticated" => Server.auth = "authenticated"
         /\ Server.pc \in OpeningSteps \cup HandshakeSteps \cup {"beginServer", "receiveHostAuthInit"} =>
              Server.auth = "noise-established"
         /\ Server.pc \in {"sendServerAuth", "sendAuthError"} =>
              Server.auth = "host-auth-init-received"
         /\ Server.pc = "receiveClientAuthRequest" => Server.auth = "server-auth-sent"
         /\ Server.pc \in {"rejectInvalidClient", "sendReject", "policy", "sendClientAuthOK"} =>
              Server.auth = "client-auth-received"
         /\ Server.session = "active" => Server.auth = "authenticated"
         /\ Server.auth = "authenticated" => pending = "accepted"
         /\ \A p \in Sides: side[p].pc \in Reads \cup Writes => ~Lost(p)
         /\ \A p \in Sides: ~Lost(p) /\ side[p].pc \in HandshakeEnd =>
                             side[p].auth = "noise-established"
  <1> USE DEF TalkInv, LostAt, LossSteps, Lost, Sides, Client, Server
  <1>1. \A p \in Sides: side[p].pc \in Reads \cup Writes => ~Lost(p)
    BY DEF Reads, Writes
  <1>2. Client.pc \in OpeningSteps \cup HandshakeSteps \cup {"startAuth", "sendHostAuthInit"} =>
          Client.auth = "noise-established"
    BY DEF ClientAuthAt, OpeningSteps, HandshakeSteps, CommitSteps
  <1>3. Server.pc \in OpeningSteps \cup HandshakeSteps \cup {"beginServer", "receiveHostAuthInit"} =>
          Server.auth = "noise-established"
    BY DEF ServerAuthAt, OpeningSteps, HandshakeSteps, ServerCommitSteps, FinalSteps
  <1>4. /\ Client.pc = "receiveServerAuth" => Client.auth = "host-auth-init-sent"
        /\ Client.pc = "sendClientAuthRequest" => Client.auth = "server-auth-received"
        /\ Client.pc = "receiveClientAuthResponse" => Client.auth = "client-auth-sent"
        /\ Client.session # "none" => Client.auth = "authenticated"
    BY DEF ClientAuthAt, CommitSteps
  <1>5. /\ Server.pc \in {"sendServerAuth", "sendAuthError"} =>
              Server.auth = "host-auth-init-received"
        /\ Server.pc = "receiveClientAuthRequest" => Server.auth = "server-auth-sent"
        /\ Server.pc \in {"rejectInvalidClient", "sendReject", "policy", "sendClientAuthOK"} =>
             Server.auth = "client-auth-received"
        /\ Server.session = "active" => Server.auth = "authenticated"
        /\ Server.auth = "authenticated" => pending = "accepted"
    BY DEF ServerAuthAt, ServerCommitSteps, FinalSteps
  <1>6. \A p \in Sides: ~Lost(p) /\ side[p].pc \in HandshakeEnd =>
                         side[p].auth = "noise-established"
    BY DEF ClientAuthAt, ServerAuthAt, HandshakeEnd, CommitSteps, ServerCommitSteps, FinalSteps
  <1> QED
    BY <1>1, <1>2, <1>3, <1>4, <1>5, <1>6 DEF InStep

LEMMA HandshakeReadTalk ==
  ASSUME Types, TalkInv, NEW p \in Sides, HandshakeRead(p)
  PROVE  TalkInv'
  <1>1. /\ side[p].pc = "handshakeRead" /\ CanRead(p) /\ wire' = Received(p)
        /\ pending' = pending /\ env' = env
    BY DEF HandshakeRead, At
  <1>2. /\ wire[Peer(p)] # <<>> /\ wire'[Peer(p)] = Tail(wire[Peer(p)])
        /\ wire'[p] = wire[p] /\ wire' \in [Sides -> Seq(Frames)]
    BY <1>1, Receiving DEF TalkInv
  <1>3. /\ wire[Peer(p)] = <<Noise>> /\ wire'[Peer(p)] = <<>>
    <2>1. wire[Peer(p)] \in {<<>>, <<Noise>>}
      BY <1>1 DEF TalkInv, ToServer, ToClient, Peer, Client, Server, Sides, HandshakeSteps
    <2>2. Tail(<<Noise>>) = <<>>
      OBVIOUS
    <2> QED
      BY <1>2, <2>1, <2>2
  <1>4. \/ Goes(p, IF p = "client" THEN "handshakeCheck" ELSE "handshakeWrite", side[p].err, side[p].auth)
        \/ p = "client" /\ Goes(p, "handshakeCheck", TRUE, side[p].auth)
    <2>1. AfterError("handshakeRead") = "handshakeCheck"
      BY DEF AfterError, HandshakeSteps, ClientAuthSteps, ServerAuthSteps
    <2>2. side[p].auth \in AuthStates
      BY DEF Types, SideType
    <2>3. CASE side' = Moved(p, IF p = "client" THEN "handshakeCheck" ELSE "handshakeWrite")
      BY <2>3, MovedGoes
    <2>4. CASE p = "client" /\ side' = Errored(p)
      BY <1>1, <2>1, <2>2, <2>4, ErrorGoes
    <2> QED
      BY <2>3, <2>4 DEF HandshakeRead, Sides
  <1>5. ~Lost(p)
    BY <1>1, Places DEF Reads
  <1> USE <1>1, <1>2, <1>3, <1>4, <1>5, EnvFixed, Places
      DEF TalkInv, Goes, Sides, Peer, Client, Server
  <1>6. WireType' /\ LostAt' /\ InStep' /\ Verified'
    BY DEF WireType, LostAt, LossSteps, Lost, InStep, Verified
  <1>7. ClientAuthAt'
    BY DEF ClientAuthAt, Lost, ServerAuthSteps, ServerCommitSteps, CommitSteps
  <1>8. ServerAuthAt'
    BY DEF ServerAuthAt, Lost, ClientAuthSteps, ServerCommitSteps, CommitSteps, FinalSteps
  <1>9. ToServer'
    <2>1. AllSession(<<>>)
      BY DEF AllSession
    <2>2. CASE p = "client"
      <3>1. Server.pc \notin OpeningSteps \cup HandshakeSteps
        BY <2>2 DEF ToClient
      <3> QED
        BY <2>2, <3>1 DEF ToServer, Lost, OpeningSteps, HandshakeSteps, HandshakeEnd
    <2>3. CASE p = "server"
      BY <2>1, <2>3 DEF ToServer, Lost, OpeningSteps, HandshakeSteps, HandshakeEnd
    <2> QED
      BY <2>2, <2>3
  <1>10. ToClient'
    BY DEF ToServer, ToClient, InStep, Verified, LostAt, LossSteps, Lost, OpeningSteps, HandshakeSteps,
           HandshakeEnd
  <1> QED
    BY <1>6, <1>7, <1>8, <1>9, <1>10

\* Accepting the other side's proof.
LEMMA AcceptsServer ==
  ASSUME Types, AcceptsServerAuth(Answer)
  PROVE  env.oneSession /\ Trusted("server", "hostKey")
  <1> DEFINE path == env.known.path
             lines == env.known.lines
             policy == KnownHostsPolicy("user")
             verdict(i) == Open(path[i], ReadOptions(path, i, policy))
             stuck == {i \in DOMAIN path: verdict(i) # "open"}
  <1>1. env \in DeploymentType
    BY DeploymentsAssumption DEF Types
  <1>2. path \in Seq(ComponentType({"user", "other"})) /\ lines \in Seq(KnownHostType)
    BY <1>1 DEF DeploymentType
  <1>3. env.oneSession
    <2>1. /\ Answer.key = "hostKey" /\ Answer.nonce = "sn"
          /\ Answer.sig = [by |-> "hostKey",
                          of |-> ServerAuthToSign(ChannelBinding("server"), HostAuthInit,
                                                  "hostKey", "sn")]
      BY DEF Answer, ServerAuth
    <2>2. Answer.sig = [by |-> "hostKey",
                        of |-> ServerAuthToSign(ChannelBinding("client"), HostAuthInit,
                                                "hostKey", "sn")]
      BY <2>1 DEF AcceptsServerAuth, Verifies
    <2>3. ServerAuthToSign(ChannelBinding("server"), HostAuthInit, "hostKey", "sn")
            = ServerAuthToSign(ChannelBinding("client"), HostAuthInit, "hostKey", "sn")
      BY <2>1, <2>2
    <2>4. ChannelBinding("server") = ChannelBinding("client")
      BY <2>3 DEF ServerAuthToSign
    <2> QED
      BY <2>4 DEF ChannelBinding
  <1>4. /\ Read(path, policy) = "open"
        /\ knownHostsVerifier(Entries(lines), "server", "hostKey")
    BY DEF AcceptsServerAuth, loadKnownHosts, ParseKnownHosts, Fail, Answer, ServerAuth
  <1>5. stuck = {}
    <2> SUFFICES ASSUME stuck # {} PROVE FALSE
      OBVIOUS
    <2>1. stuck \subseteq Nat
      BY <1>2
    <2>2. \E x \in stuck: \A y \in stuck: x <= y
      <3>1. PICK x \in stuck: \A y \in stuck: ~(<<y, x>> \in OpToRel(<, Nat))
        BY <2>1, NatLessThanWellFounded, WFMin
      <3>2. \A y \in stuck: ~(y < x)
        BY <2>1, <3>1 DEF OpToRel
      <3> QED
        BY <2>1, <3>2
    <2>3. Min(stuck) \in stuck
      BY <2>2 DEF Min
    <2>4. verdict(Min(stuck)) # "open"
      BY <2>3
    <2> HIDE DEF stuck, verdict
    <2> QED
      BY <1>4, <2>4 DEF Read, verdict, stuck
  <1>6. \A i \in DOMAIN path: /\ path[i].kind # "missing" /\ ~path[i].othersWrite
                              /\ path[i].owner \in {"root", "user"}
    BY <1>5 DEF Open, CheckStat, ReadOptions, KnownHostsPolicy
  <1> DEFINE named(l) == \E h \in DOMAIN l.hosts: l.hosts[h].name = "server"
             vouchers(marker) == {i \in DOMAIN lines:
               lines[i].kind = "key" /\ lines[i].key = "hostKey" /\ lines[i].marker = marker
                 /\ named(lines[i])}
  <1>7. \E i \in DOMAIN Entries(lines): /\ named(Entries(lines)[i])
                                        /\ Entries(lines)[i].key = "hostKey"
                                        /\ Entries(lines)[i].marker = ""
    BY <1>4 DEF knownHostsVerifier, MatchHostKey, Names
  <1>8. \A i \in DOMAIN Entries(lines): /\ named(Entries(lines)[i])
                                        /\ Entries(lines)[i].key = "hostKey"
                                        => Entries(lines)[i].marker # "revoked"
    BY <1>4 DEF knownHostsVerifier, MatchHostKey, Names
  <1>9. vouchers("") # {}
    BY <1>7 DEF Entries, Ed25519
  <1>10. vouchers("revoked") = {}
    <2> SUFFICES ASSUME NEW i \in vouchers("revoked") PROVE FALSE
      OBVIOUS
    <2>1. lines[i] \in KnownHostType
      BY <1>2
    <2>2. Ed25519(lines[i])
      BY <2>1 DEF KnownHostType, Ed25519
    <2>3. i \in DOMAIN Entries(lines) /\ Entries(lines)[i] = lines[i]
      BY <2>2 DEF Entries
    <2> QED
      BY <1>8, <2>3
  <1> QED
    BY <1>3, <1>6, <1>9, <1>10 DEF Trusted

LEMMA AcceptsClient ==
  ASSUME Types, AcceptsClientAuth(Request)
  PROVE  env.oneSession /\ env.proof
  <1>1. /\ Request.key = "userKey" /\ Request.user = "user"
        /\ Request.sig.by = (IF env.proof THEN "userKey" ELSE "otherKey")
        /\ Request.sig.of.binding = ChannelBinding("client")
    BY DEF Request, ClientAuthRequest, ClientAuthToSign
  <1>2. Request.sig.by = "userKey" /\ Request.sig.of.binding = ChannelBinding("server")
    BY <1>1 DEF AcceptsClientAuth, Verifies, ClientAuthToSign
  <1> QED
    BY <1>1, <1>2 DEF ChannelBinding

(***************************************************************************)
(* One lemma for every message of the authentication.                      *)
(***************************************************************************)
LEMMA SendHostAuthInitTalk ==
  ASSUME Types, TalkInv, SendHostAuthInit
  PROVE  TalkInv'
  <1>1. /\ side["client"].pc = "sendHostAuthInit" /\ "client" \in Sides
        /\ wire' = Sent("client", HostAuthInit) /\ HostAuthInit \in Frames
        /\ pending' = pending /\ env' = env
        /\ side' = Advanced("client", "receiveServerAuth", "host-auth-init-sent")
    BY DEF SendHostAuthInit, Sends, At, Sides, Frames, HostAuthInit
  <1>2. Goes("client", "receiveServerAuth", side["client"].err, "host-auth-init-sent")
    BY <1>1, AdvancedGoes
  <1>3. ~Lost("client")
    BY <1>1, Places DEF Writes
  <1>4. /\ wire'["client"] = Append(wire["client"], HostAuthInit)
        /\ wire'["server"] = wire["server"]
        /\ wire' \in [Sides -> Seq(Frames)]
    BY <1>1, Sending DEF TalkInv, Peer
  <1>5. Append(<<>>, HostAuthInit) = <<HostAuthInit>>
    OBVIOUS
  <1> USE <1>1, <1>2, <1>3, <1>4, <1>5, EnvFixed, Places DEF TalkInv, Goes, Sides, Peer, Client, Server
  <1>6. WireType' /\ LostAt' /\ InStep' /\ Verified'
    BY DEF WireType, LostAt, LossSteps, Lost, InStep, Verified
  <1>7. ClientAuthAt'
    BY DEF ClientAuthAt, Lost, ServerAuthSteps, ServerCommitSteps, CommitSteps
  <1>8. ServerAuthAt'
    BY DEF ServerAuthAt, Lost, ClientAuthSteps, ServerCommitSteps, CommitSteps, FinalSteps
  <1>9. ToServer'
    BY DEF ToServer, InStep, Verified, Lost, OpeningSteps, HandshakeSteps, HandshakeEnd
  <1>10. ToClient'
    BY DEF ToClient, InStep, Verified, Lost, OpeningSteps, HandshakeSteps, HandshakeEnd
  <1> QED
    BY <1>6, <1>7, <1>8, <1>9, <1>10

LEMMA SendClientAuthRequestTalk ==
  ASSUME Types, TalkInv, SendClientAuthRequest
  PROVE  TalkInv'
  <1>1. /\ side["client"].pc = "sendClientAuthRequest" /\ "client" \in Sides
        /\ wire' = Sent("client", Request) /\ Request \in Frames
        /\ pending' = pending /\ env' = env
        /\ side' = Advanced("client", "receiveClientAuthResponse", "client-auth-sent")
    BY DEF SendClientAuthRequest, Sends, At, Sides, Frames, Request
  <1>2. Goes("client", "receiveClientAuthResponse", side["client"].err, "client-auth-sent")
    BY <1>1, AdvancedGoes
  <1>3. ~Lost("client")
    BY <1>1, Places DEF Writes
  <1>4. /\ wire'["client"] = Append(wire["client"], Request)
        /\ wire'["server"] = wire["server"]
        /\ wire' \in [Sides -> Seq(Frames)]
    BY <1>1, Sending DEF TalkInv, Peer
  <1>5. Append(<<>>, Request) = <<Request>>
    OBVIOUS
  <1> USE <1>1, <1>2, <1>3, <1>4, <1>5, EnvFixed, Places DEF TalkInv, Goes, Sides, Peer, Client, Server
  <1>6. WireType' /\ LostAt' /\ InStep' /\ Verified'
    BY DEF WireType, LostAt, LossSteps, Lost, InStep, Verified
  <1>7. ClientAuthAt'
    BY DEF ClientAuthAt, Lost, ServerAuthSteps, ServerCommitSteps, CommitSteps
  <1>8. ServerAuthAt'
    BY DEF ServerAuthAt, Lost, ClientAuthSteps, ServerCommitSteps, CommitSteps, FinalSteps
  <1>9. ToServer'
    BY DEF ToServer, InStep, Verified, Lost, OpeningSteps, HandshakeSteps, HandshakeEnd
  <1>10. ToClient'
    BY DEF ToClient, InStep, Verified, Lost, OpeningSteps, HandshakeSteps, HandshakeEnd
  <1> QED
    BY <1>6, <1>7, <1>8, <1>9, <1>10

LEMMA SendAuthErrorTalk ==
  ASSUME Types, TalkInv, SendAuthError
  PROVE  TalkInv'
  <1>1. /\ side["server"].pc = "sendAuthError" /\ "server" \in Sides
        /\ wire' = Sent("server", AuthError) /\ AuthError \in Frames
        /\ pending' = pending /\ env' = env
        /\ side' = Advanced("server", "verifyFailed", "host-auth-init-received")
    BY DEF SendAuthError, Sends, At, Sides, Frames, AuthError
  <1>2. Goes("server", "verifyFailed", side["server"].err, "host-auth-init-received")
    BY <1>1, AdvancedGoes
  <1>3. ~Lost("server")
    BY <1>1, Places DEF Writes
  <1>4. /\ wire'["server"] = Append(wire["server"], AuthError)
        /\ wire'["client"] = wire["client"]
        /\ wire' \in [Sides -> Seq(Frames)]
    BY <1>1, Sending DEF TalkInv, Peer
  <1>5. Append(<<>>, AuthError) = <<AuthError>>
    OBVIOUS
  <1> USE <1>1, <1>2, <1>3, <1>4, <1>5, EnvFixed, Places DEF TalkInv, Goes, Sides, Peer, Client, Server
  <1>6. WireType' /\ LostAt' /\ InStep' /\ Verified'
    BY DEF WireType, LostAt, LossSteps, Lost, InStep, Verified
  <1>7. ClientAuthAt'
    BY DEF ClientAuthAt, Lost, ServerAuthSteps, ServerCommitSteps, CommitSteps
  <1>8. ServerAuthAt'
    BY DEF ServerAuthAt, Lost, ClientAuthSteps, ServerCommitSteps, CommitSteps, FinalSteps
  <1>9. ToServer'
    BY DEF ToServer, InStep, Verified, Lost, OpeningSteps, HandshakeSteps, HandshakeEnd
  <1>10. ToClient'
    BY DEF ToClient, InStep, Verified, Lost, OpeningSteps, HandshakeSteps, HandshakeEnd
  <1> QED
    BY <1>6, <1>7, <1>8, <1>9, <1>10

LEMMA SendServerAuthTalk ==
  ASSUME Types, TalkInv, SendServerAuth
  PROVE  TalkInv'
  <1>1. /\ side["server"].pc = "sendServerAuth" /\ "server" \in Sides
        /\ wire' = Sent("server", Answer) /\ Answer \in Frames
        /\ pending' = pending /\ env' = env
        /\ side' = Advanced("server", "receiveClientAuthRequest", "server-auth-sent")
    BY DEF SendServerAuth, Sends, At, Sides, Frames, Answer
  <1>2. Goes("server", "receiveClientAuthRequest", side["server"].err, "server-auth-sent")
    BY <1>1, AdvancedGoes
  <1>3. ~Lost("server")
    BY <1>1, Places DEF Writes
  <1>4. /\ wire'["server"] = Append(wire["server"], Answer)
        /\ wire'["client"] = wire["client"]
        /\ wire' \in [Sides -> Seq(Frames)]
    BY <1>1, Sending DEF TalkInv, Peer
  <1>5. Append(<<>>, Answer) = <<Answer>>
    OBVIOUS
  <1> USE <1>1, <1>2, <1>3, <1>4, <1>5, EnvFixed, Places DEF TalkInv, Goes, Sides, Peer, Client, Server
  <1>6. WireType' /\ LostAt' /\ InStep' /\ Verified'
    BY DEF WireType, LostAt, LossSteps, Lost, InStep, Verified
  <1>7. ClientAuthAt'
    BY DEF ClientAuthAt, Lost, ServerAuthSteps, ServerCommitSteps, CommitSteps
  <1>8. ServerAuthAt'
    BY DEF ServerAuthAt, Lost, ClientAuthSteps, ServerCommitSteps, CommitSteps, FinalSteps
  <1>9. ToServer'
    BY DEF ToServer, InStep, Verified, Lost, OpeningSteps, HandshakeSteps, HandshakeEnd
  <1>10. ToClient'
    BY DEF ToClient, InStep, Verified, Lost, OpeningSteps, HandshakeSteps, HandshakeEnd
  <1> QED
    BY <1>6, <1>7, <1>8, <1>9, <1>10

LEMMA RejectInvalidClientTalk ==
  ASSUME Types, TalkInv, RejectInvalidClient
  PROVE  TalkInv'
  <1>1. /\ side["server"].pc = "rejectInvalidClient" /\ "server" \in Sides
        /\ wire' = Sent("server", Reject) /\ Reject \in Frames
        /\ pending' = pending /\ env' = env
        /\ side' = Advanced("server", "verifyFailed", "client-auth-received")
    BY DEF RejectInvalidClient, Sends, At, Sides, Frames, Reject
  <1>2. Goes("server", "verifyFailed", side["server"].err, "client-auth-received")
    BY <1>1, AdvancedGoes
  <1>3. ~Lost("server")
    BY <1>1, Places DEF Writes
  <1>4. /\ wire'["server"] = Append(wire["server"], Reject)
        /\ wire'["client"] = wire["client"]
        /\ wire' \in [Sides -> Seq(Frames)]
    BY <1>1, Sending DEF TalkInv, Peer
  <1>5. Append(<<>>, Reject) = <<Reject>>
    OBVIOUS
  <1> USE <1>1, <1>2, <1>3, <1>4, <1>5, EnvFixed, Places DEF TalkInv, Goes, Sides, Peer, Client, Server
  <1>6. WireType' /\ LostAt' /\ InStep' /\ Verified'
    BY DEF WireType, LostAt, LossSteps, Lost, InStep, Verified
  <1>7. ClientAuthAt'
    BY DEF ClientAuthAt, Lost, ServerAuthSteps, ServerCommitSteps, CommitSteps
  <1>8. ServerAuthAt'
    BY DEF ServerAuthAt, Lost, ClientAuthSteps, ServerCommitSteps, CommitSteps, FinalSteps
  <1>9. ToServer'
    BY DEF ToServer, InStep, Verified, Lost, OpeningSteps, HandshakeSteps, HandshakeEnd
  <1>10. ToClient'
    BY DEF ToClient, InStep, Verified, Lost, OpeningSteps, HandshakeSteps, HandshakeEnd
  <1> QED
    BY <1>6, <1>7, <1>8, <1>9, <1>10

LEMMA SendRejectTalk ==
  ASSUME Types, TalkInv, SendReject
  PROVE  TalkInv'
  <1>1. /\ side["server"].pc = "sendReject" /\ "server" \in Sides
        /\ wire' = Sent("server", Reject) /\ Reject \in Frames
        /\ pending' = pending /\ env' = env
        /\ side' = Advanced("server", "rejectDeadline", "client-auth-received")
    BY DEF SendReject, Sends, At, Sides, Frames, Reject
  <1>2. Goes("server", "rejectDeadline", side["server"].err, "client-auth-received")
    BY <1>1, AdvancedGoes
  <1>3. ~Lost("server")
    BY <1>1, Places DEF Writes
  <1>4. /\ wire'["server"] = Append(wire["server"], Reject)
        /\ wire'["client"] = wire["client"]
        /\ wire' \in [Sides -> Seq(Frames)]
    BY <1>1, Sending DEF TalkInv, Peer
  <1>5. Append(<<>>, Reject) = <<Reject>>
    OBVIOUS
  <1> USE <1>1, <1>2, <1>3, <1>4, <1>5, EnvFixed, Places DEF TalkInv, Goes, Sides, Peer, Client, Server
  <1>6. WireType' /\ LostAt' /\ InStep' /\ Verified'
    BY DEF WireType, LostAt, LossSteps, Lost, InStep, Verified
  <1>7. ClientAuthAt'
    BY DEF ClientAuthAt, Lost, ServerAuthSteps, ServerCommitSteps, CommitSteps
  <1>8. ServerAuthAt'
    BY DEF ServerAuthAt, Lost, ClientAuthSteps, ServerCommitSteps, CommitSteps, FinalSteps
  <1>9. ToServer'
    BY DEF ToServer, InStep, Verified, Lost, OpeningSteps, HandshakeSteps, HandshakeEnd
  <1>10. ToClient'
    BY DEF ToClient, InStep, Verified, Lost, OpeningSteps, HandshakeSteps, HandshakeEnd
  <1> QED
    BY <1>6, <1>7, <1>8, <1>9, <1>10

LEMMA SendClientAuthOKTalk ==
  ASSUME Types, TalkInv, SendClientAuthOK
  PROVE  TalkInv'
  <1>1. /\ side["server"].pc = "sendClientAuthOK" /\ "server" \in Sides
        /\ wire' = Sent("server", OK) /\ OK \in Frames
        /\ pending' = pending /\ env' = env
        /\ side' = Advanced("server", "activate", "authenticated")
    BY DEF SendClientAuthOK, Sends, At, Sides, Frames, OK
  <1>2. Goes("server", "activate", side["server"].err, "authenticated")
    BY <1>1, AdvancedGoes
  <1>3. ~Lost("server")
    BY <1>1, Places DEF Writes
  <1>4. /\ wire'["server"] = Append(wire["server"], OK)
        /\ wire'["client"] = wire["client"]
        /\ wire' \in [Sides -> Seq(Frames)]
    BY <1>1, Sending DEF TalkInv, Peer
  <1>5. wire["server"] = <<>> =>
          /\ wire'["server"] # <<>> /\ Head(wire'["server"]) = OK
          /\ AllSession(Tail(wire'["server"]))
    <2>1. Append(<<>>, OK) = <<OK>>
      OBVIOUS
    <2> QED
      BY <1>4, <2>1, Single, Zenon
  <1> USE <1>1, <1>2, <1>3, <1>4, <1>5, EnvFixed, Places DEF TalkInv, Goes, Sides, Peer, Client, Server
  <1>6. WireType' /\ LostAt' /\ InStep' /\ Verified'
    BY DEF WireType, LostAt, LossSteps, Lost, InStep, Verified
  <1>7. ClientAuthAt'
    BY DEF ClientAuthAt, Lost, ServerAuthSteps, ServerCommitSteps, CommitSteps
  <1>8. ServerAuthAt'
    BY DEF ServerAuthAt, Lost, ClientAuthSteps, ServerCommitSteps, CommitSteps, FinalSteps
  <1>9. ToServer'
    BY DEF ToServer, InStep, Verified, Lost, OpeningSteps, HandshakeSteps, HandshakeEnd
  <1>10. ToClient'
    <2>1. Client.auth = "client-auth-sent"
      BY DEF InStep
    <2>2. Client.pc = "receiveClientAuthResponse" => wire["server"] = <<>>
      BY DEF ToClient, Lost
    <2>3. Client'.pc = Client.pc /\ Client'.auth = Client.auth /\ Client'.err = Client.err
      OBVIOUS
    <2>4. Client.pc \in {"sendClientAuthRequest", "receiveClientAuthResponse"} =>
            /\ wire'["server"] # <<>> /\ Head(wire'["server"]) = OK
            /\ AllSession(Tail(wire'["server"])) /\ Server'.auth = "authenticated"
      BY <2>1, <2>2
    <2>5. /\ Client.pc \notin OpeningSteps \cup HandshakeSteps \cup {"receiveServerAuth"}
          /\ ~Lost("client") => Client.pc \notin HandshakeEnd \cup {"startAuth", "sendHostAuthInit"}
      BY <2>1
    <2>6. OK' = OK /\ \A q: AllSession(q)' = AllSession(q)
      BY DEF OK, AllSession
    <2> QED
      BY <2>1, <2>3, <2>4, <2>5, <2>6 DEF ToClient, Lost, OpeningSteps, HandshakeSteps
  <1> QED
    BY <1>6, <1>7, <1>8, <1>9, <1>10

LEMMA ReceiveServerAuthTalk ==
  ASSUME Types, TalkInv, ReceiveServerAuth
  PROVE  TalkInv'
  <1>1. /\ side["client"].pc = "receiveServerAuth" /\ "client" \in Sides
        /\ CanRead("client") /\ wire' = Received("client")
        /\ Incoming("client") = wire["server"]
        /\ pending' = pending /\ env' = env
    BY DEF ReceiveServerAuth, At, Sides, Incoming, Peer
  <1>2. ~Lost("client")
    BY <1>1, Places DEF Reads
  <1>3. /\ wire["server"] # <<>> /\ wire'["server"] = Tail(wire["server"])
        /\ wire'["client"] = wire["client"] /\ wire' \in [Sides -> Seq(Frames)]
    BY <1>1, Receiving DEF TalkInv, Peer
  <1>4. \/ wire["server"] = <<AuthError>>
        \/ wire["server"] = <<Answer>> /\ Server.auth = "server-auth-sent"
    BY <1>1, <1>3 DEF TalkInv, ToClient, Client, Server
  <1>5. /\ wire'["server"] = <<>>
        /\ \/ Head(Incoming("client")) = AuthError
           \/ Head(Incoming("client")) = Answer /\ Server.auth = "server-auth-sent"
    BY <1>1, <1>3, <1>4, Single, Zenon
  <1>6. \/ /\ Goes("client", "sendClientAuthRequest", side["client"].err, "server-auth-received")
           /\ Server.auth = "server-auth-sent"
           /\ env.oneSession /\ Trusted("server", "hostKey")
        \/ /\ Goes("client", "authCheck", TRUE, "server-auth-received")
           /\ Server.auth = "server-auth-sent"
        \/ Goes("client", "authCheck", TRUE, side["client"].auth)
    BY <1>5, FrameKinds, ReceiveServerAuthGoes, AcceptsServer
  <1> USE <1>1, <1>2, <1>3, <1>4, <1>5, <1>6, EnvFixed, Places DEF TalkInv, Goes, Sides, Peer, Client, Server
  <1>7. WireType' /\ LostAt' /\ InStep' /\ Verified'
    BY DEF WireType, LostAt, LossSteps, Lost, InStep, Verified
  <1>8. ClientAuthAt'
    BY DEF ClientAuthAt, Lost, ServerAuthSteps, ServerCommitSteps, CommitSteps
  <1>9. ServerAuthAt'
    BY DEF ServerAuthAt, Lost, ClientAuthSteps, ServerCommitSteps, CommitSteps, FinalSteps
  <1>10. ToServer'
    BY DEF ToServer, InStep, Verified, Lost, OpeningSteps, HandshakeSteps, HandshakeEnd
  <1>11. ToClient'
    BY DEF ToClient, InStep, Verified, Lost, OpeningSteps, HandshakeSteps, HandshakeEnd
  <1> QED
    BY <1>7, <1>8, <1>9, <1>10, <1>11

LEMMA ReceiveClientAuthResponseTalk ==
  ASSUME Types, TalkInv, ReceiveClientAuthResponse
  PROVE  TalkInv'
  <1>1. /\ side["client"].pc = "receiveClientAuthResponse" /\ "client" \in Sides
        /\ CanRead("client") /\ wire' = Received("client")
        /\ Incoming("client") = wire["server"]
        /\ pending' = pending /\ env' = env
    BY DEF ReceiveClientAuthResponse, At, Sides, Incoming, Peer
  <1>2. ~Lost("client")
    BY <1>1, Places DEF Reads
  <1>3. /\ wire["server"] # <<>> /\ wire'["server"] = Tail(wire["server"])
        /\ wire'["client"] = wire["client"] /\ wire' \in [Sides -> Seq(Frames)]
    BY <1>1, Receiving DEF TalkInv, Peer
  <1>4. \/ wire["server"] = <<Reject>>
        \/ Server.auth = "authenticated" /\ AllSession(wire'["server"])
    BY <1>1, <1>3 DEF TalkInv, ToClient, Client, Server
  <1>5. \/ Head(Incoming("client")) = Reject
        \/ Server.auth = "authenticated" /\ AllSession(wire'["server"])
    BY <1>1, <1>4, Single, Zenon
  <1>6. \/ /\ Goes("client", "authCheck", side["client"].err, "authenticated")
           /\ Server.auth = "authenticated" /\ AllSession(wire'["server"])
        \/ Goes("client", "authCheck", TRUE, side["client"].auth)
    BY <1>5, FrameKinds, ReceiveClientAuthResponseGoes
  <1> USE <1>1, <1>2, <1>3, <1>4, <1>5, <1>6, EnvFixed, Places DEF TalkInv, Goes, Sides, Peer, Client, Server
  <1>7. WireType' /\ LostAt' /\ InStep' /\ Verified'
    BY DEF WireType, LostAt, LossSteps, Lost, InStep, Verified
  <1>8. ClientAuthAt'
    BY DEF ClientAuthAt, Lost, ServerAuthSteps, ServerCommitSteps, CommitSteps
  <1>9. ServerAuthAt'
    BY DEF ServerAuthAt, Lost, ClientAuthSteps, ServerCommitSteps, CommitSteps, FinalSteps
  <1>10. ToServer'
    BY DEF ToServer, InStep, Verified, Lost, OpeningSteps, HandshakeSteps, HandshakeEnd
  <1>11. ToClient'
    BY DEF ToClient, InStep, Verified, Lost, OpeningSteps, HandshakeSteps, HandshakeEnd
  <1> QED
    BY <1>7, <1>8, <1>9, <1>10, <1>11

LEMMA ReceiveHostAuthInitTalk ==
  ASSUME Types, TalkInv, ReceiveHostAuthInit
  PROVE  TalkInv'
  <1>1. /\ side["server"].pc = "receiveHostAuthInit" /\ "server" \in Sides
        /\ CanRead("server") /\ wire' = Received("server")
        /\ Incoming("server") = wire["client"]
        /\ pending' = pending /\ env' = env
    BY DEF ReceiveHostAuthInit, At, Sides, Incoming, Peer
  <1>2. ~Lost("server")
    BY <1>1, Places DEF Reads
  <1>3. /\ wire["client"] # <<>> /\ wire'["client"] = Tail(wire["client"])
        /\ wire'["server"] = wire["server"] /\ wire' \in [Sides -> Seq(Frames)]
    BY <1>1, Receiving DEF TalkInv, Peer
  <1>4. Client.auth # "noise-established" /\ wire["client"] = <<HostAuthInit>>
    BY <1>1, <1>2, <1>3 DEF TalkInv, ToServer, Client, Server
  <1>5. wire'["client"] = <<>>
    BY <1>3, <1>4, Single, Zenon
  <1>6. \/ Goes("server", "sendServerAuth", side["server"].err, "host-auth-init-received")
        \/ Goes("server", "sendAuthError", side["server"].err, "host-auth-init-received")
        \/ Goes("server", "verifyFailed", TRUE, side["server"].auth)
    BY ReceiveHostAuthInitGoes
  <1>7. AllSession(<<>>)
    BY DEF AllSession
  <1> USE <1>1, <1>2, <1>3, <1>4, <1>5, <1>6, <1>7, EnvFixed, Places DEF TalkInv, Goes, Sides, Peer, Client, Server
  <1>8. WireType' /\ LostAt' /\ InStep' /\ Verified'
    BY DEF WireType, LostAt, LossSteps, Lost, InStep, Verified
  <1>9. ClientAuthAt'
    BY DEF ClientAuthAt, Lost, ServerAuthSteps, ServerCommitSteps, CommitSteps
  <1>10. ServerAuthAt'
    BY DEF ServerAuthAt, Lost, ClientAuthSteps, ServerCommitSteps, CommitSteps, FinalSteps
  <1>11. ToServer'
    BY DEF ToServer, InStep, Verified, Lost, OpeningSteps, HandshakeSteps, HandshakeEnd
  <1>12. ToClient'
    BY DEF ToClient, InStep, Verified, Lost, OpeningSteps, HandshakeSteps, HandshakeEnd
  <1> QED
    BY <1>8, <1>9, <1>10, <1>11, <1>12

LEMMA ReceiveClientAuthRequestTalk ==
  ASSUME Types, TalkInv, ReceiveClientAuthRequest
  PROVE  TalkInv'
  <1>1. /\ side["server"].pc = "receiveClientAuthRequest" /\ "server" \in Sides
        /\ CanRead("server") /\ wire' = Received("server")
        /\ Incoming("server") = wire["client"]
        /\ pending' = pending /\ env' = env
    BY DEF ReceiveClientAuthRequest, At, Sides, Incoming, Peer
  <1>2. ~Lost("server")
    BY <1>1, Places DEF Reads
  <1>3. /\ wire["client"] # <<>> /\ wire'["client"] = Tail(wire["client"])
        /\ wire'["server"] = wire["server"] /\ wire' \in [Sides -> Seq(Frames)]
    BY <1>1, Receiving DEF TalkInv, Peer
  <1>4. Client.auth = "client-auth-sent" /\ wire["client"] = <<Request>>
    BY <1>1, <1>3 DEF TalkInv, ToServer, Client, Server
  <1>5. wire'["client"] = <<>> /\ Head(Incoming("server")) = Request
    BY <1>1, <1>3, <1>4, Single, Zenon
  <1>6. \/ /\ Goes("server", "policy", side["server"].err, "client-auth-received")
           /\ env.oneSession /\ env.proof
        \/ Goes("server", "rejectInvalidClient", side["server"].err, "client-auth-received")
        \/ Goes("server", "verifyFailed", TRUE, side["server"].auth)
    BY <1>5, ReceiveClientAuthRequestGoes, AcceptsClient
  <1>7. AllSession(<<>>)
    BY DEF AllSession
  <1> USE <1>1, <1>2, <1>3, <1>4, <1>5, <1>6, <1>7, EnvFixed, Places DEF TalkInv, Goes, Sides, Peer, Client, Server
  <1>8. WireType' /\ LostAt' /\ InStep' /\ Verified'
    BY DEF WireType, LostAt, LossSteps, Lost, InStep, Verified
  <1>9. ClientAuthAt'
    BY DEF ClientAuthAt, Lost, ServerAuthSteps, ServerCommitSteps, CommitSteps
  <1>10. ServerAuthAt'
    BY DEF ServerAuthAt, Lost, ClientAuthSteps, ServerCommitSteps, CommitSteps, FinalSteps
  <1>11. ToServer'
    BY DEF ToServer, InStep, Verified, Lost, OpeningSteps, HandshakeSteps, HandshakeEnd
  <1>12. ToClient'
    BY DEF ToClient, InStep, Verified, Lost, OpeningSteps, HandshakeSteps, HandshakeEnd
  <1> QED
    BY <1>8, <1>9, <1>10, <1>11, <1>12

LEMMA DecideTalk ==
  ASSUME Types, TalkInv, DecideAccept \/ DecideReject \/ PendingClose
  PROVE  TalkInv'
  <1>1. /\ side["server"].pc = "policy" /\ pending = "undecided" /\ wire' = wire /\ env' = env
        /\ \/ pending' = "accepted" /\ side' = Moved("server", "accept")
           \/ pending' = "rejected" /\ side' = Moved("server", "sendReject")
           \/ pending' = "closed" /\ side' = Moved("server", "rejectDeadline")
    BY DEF DecideAccept, DecideReject, PendingClose, Decide, At
  <1>2. \/ /\ pending' = "accepted"
           /\ Goes("server", "accept", side["server"].err, side["server"].auth)
        \/ /\ pending' = "rejected"
           /\ Goes("server", "sendReject", side["server"].err, side["server"].auth)
        \/ /\ pending' = "closed"
           /\ Goes("server", "rejectDeadline", side["server"].err, side["server"].auth)
    BY <1>1, MovedGoes DEF Sides
  <1>3. ~Lost("server") /\ wire["client"] = <<>>
    BY <1>1 DEF TalkInv, LostAt, LossSteps, Lost, ToServer, Server, Sides
  <1>4. AllSession(<<>>)
    BY DEF AllSession
  <1> USE <1>1, <1>2, <1>3, <1>4, EnvFixed, Places DEF TalkInv, Goes, Sides, Peer, Client, Server
  <1>5. WireType' /\ LostAt' /\ InStep' /\ Verified'
    BY DEF WireType, LostAt, LossSteps, Lost, InStep, Verified
  <1>6. ClientAuthAt'
    BY DEF ClientAuthAt, Lost, ServerAuthSteps, ServerCommitSteps, CommitSteps
  <1>7. ServerAuthAt'
    BY DEF ServerAuthAt, Lost, ClientAuthSteps, ServerCommitSteps, CommitSteps, FinalSteps
  <1>8. ToServer'
    BY DEF ToServer, InStep, Verified, Lost, OpeningSteps, HandshakeSteps, HandshakeEnd
  <1>9. ToClient'
    BY DEF ToClient, InStep, Verified, Lost, OpeningSteps, HandshakeSteps, HandshakeEnd
  <1> QED
    BY <1>5, <1>6, <1>7, <1>8, <1>9

\* An active session: both have authenticated, and only session frames are
\* left on the way to this side.
LEMMA ActiveTalk ==
  ASSUME Types, TalkInv, NEW p \in Sides, side[p].session = "active"
  PROVE  /\ side[p].auth = "authenticated" /\ Server.auth = "authenticated"
         /\ Client.auth \in {"client-auth-sent", "authenticated"} /\ pending = "accepted"
         /\ p = "client" => AllSession(wire["server"])
         /\ AllSession(wire["client"])
  BY Places DEF TalkInv, Verified, ToServer, ToClient, Client, Server, Sides

LEMMA SessionSendTalk ==
  ASSUME Types, TalkInv, NEW p \in Sides, SessionSend(p)
  PROVE  TalkInv'
  <1>1. /\ side[p].session = "active" /\ wire' = Sent(p, Session) /\ Session \in Frames
        /\ pending' = pending /\ env' = env
        /\ side' = [side EXCEPT ![p].sent = @ + 1]
    BY DEF SessionSend, Session, Frames
  <1>2. Goes(p, side[p].pc, side[p].err, side[p].auth)
    BY <1>1 DEF Types, SideType, Sides, Goes
  <1>3. /\ wire'[p] = Append(wire[p], Session) /\ wire'[Peer(p)] = wire[Peer(p)]
        /\ wire' \in [Sides -> Seq(Frames)] /\ wire[p] \in Seq(Frames)
    BY <1>1, Sending DEF TalkInv, WireType
  <1>4. /\ Server.auth = "authenticated" /\ pending = "accepted"
        /\ Client.auth \in {"client-auth-sent", "authenticated"}
        /\ p = "client" => Client.auth = "authenticated"
        /\ AllSession(wire["client"])
    BY <1>1, ActiveTalk DEF Client
  <1>5. /\ AllSession(wire[p]) => AllSession(wire'[p])
        /\ wire[p] # <<>> => /\ wire'[p] # <<>> /\ Head(wire'[p]) = Head(wire[p])
                             /\ AllSession(Tail(wire[p])) => AllSession(Tail(wire'[p]))
    <2>1. AllSession(wire[p]) => AllSession(wire'[p])
      BY <1>1, <1>3, Queues
    <2>2. wire[p] # <<>> => /\ wire'[p] # <<>> /\ Head(wire'[p]) = Head(wire[p])
                            /\ Tail(wire'[p]) = Append(Tail(wire[p]), Session)
                            /\ Tail(wire[p]) \in Seq(Frames)
      BY <1>1, <1>3, Queues
    <2>3. Tail(wire[p]) \in Seq(Frames) /\ AllSession(Tail(wire[p])) =>
            AllSession(Append(Tail(wire[p]), Session))
      BY <1>1, Queues
    <2> QED
      BY <2>1, <2>2, <2>3
  <1> USE <1>1, <1>2, <1>3, <1>4, <1>5, EnvFixed, Places DEF TalkInv, Goes, Sides, Peer, Client, Server
  <1>6. WireType' /\ LostAt' /\ InStep' /\ Verified'
    BY DEF WireType, LostAt, LossSteps, Lost, InStep, Verified
  <1>7. ClientAuthAt'
    BY DEF ClientAuthAt, Lost, ServerAuthSteps, ServerCommitSteps, CommitSteps
  <1>8. ServerAuthAt'
    BY DEF ServerAuthAt, Lost, ClientAuthSteps, ServerCommitSteps, CommitSteps, FinalSteps
  <1>9. ToServer'
    <2>1. CASE p = "client"
      <3>1. /\ Client.pc \notin OpeningSteps \cup HandshakeSteps
            /\ Server.pc \notin OpeningSteps \cup HandshakeSteps
            /\ Server.pc \notin {"beginServer", "receiveHostAuthInit", "sendServerAuth",
                                "receiveClientAuthRequest", "policy"}
            /\ ~Lost("server") => Server.pc \notin HandshakeEnd
        BY <2>1
      <3>2. AllSession(wire'["client"])
        BY <2>1
      <3>3. Server' = Server /\ Client'.pc = Client.pc
        BY <2>1
      <3> QED
        BY <3>1, <3>2, <3>3 DEF ToServer, Lost, HandshakeSteps
    <2>2. CASE p = "server"
      BY <2>2 DEF ToServer, Lost
    <2> QED
      BY <2>1, <2>2
  <1>10. ToClient'
    <2>1. CASE p = "client"
      BY <2>1 DEF ToClient, Lost
    <2>2. CASE p = "server"
      BY <2>2 DEF ToClient, Lost, OpeningSteps, HandshakeSteps, HandshakeEnd
    <2> QED
      BY <2>1, <2>2
  <1> QED
    BY <1>6, <1>7, <1>8, <1>9, <1>10

LEMMA SessionReceiveTalk ==
  ASSUME Types, TalkInv, NEW p \in Sides, SessionReceive(p)
  PROVE  TalkInv'
  <1>1. /\ side[p].session = "active" /\ CanRead(p) /\ wire' = Received(p)
        /\ pending' = pending /\ env' = env
        /\ \E s \in {"active", "down"}: side' = [side EXCEPT ![p].session = s]
    BY DEF SessionReceive
  <1>2. /\ side'[p].pc = side[p].pc /\ side'[p].err = side[p].err /\ side'[p].auth = side[p].auth
        /\ side'[p].session \in {"active", "down"}
        /\ \A q \in Sides \ {p}: side'[q] = side[q]
    BY <1>1 DEF Types, SideType, Sides
  <1>3. /\ wire[Peer(p)] # <<>> /\ wire'[Peer(p)] = Tail(wire[Peer(p)])
        /\ wire'[p] = wire[p] /\ wire' \in [Sides -> Seq(Frames)]
        /\ wire[Peer(p)] \in Seq(Frames)
    BY <1>1, Receiving DEF TalkInv, WireType, Peer, Sides
  <1>4. /\ Server.auth = "authenticated" /\ pending = "accepted"
        /\ Client.auth \in {"client-auth-sent", "authenticated"}
        /\ p = "client" => Client.auth = "authenticated"
        /\ AllSession(wire[Peer(p)])
    BY <1>1, ActiveTalk DEF Client, Peer, Sides
  <1>5. AllSession(wire'[Peer(p)])
    <2>1. Session \in Frames
      BY DEF Frames
    <2> QED
      BY <1>3, <1>4, <2>1, Queues
  <1> USE <1>1, <1>2, <1>3, <1>4, <1>5, EnvFixed, Places DEF TalkInv, Goes, Sides, Peer, Client, Server
  <1>6. WireType' /\ LostAt' /\ InStep' /\ Verified'
    BY DEF WireType, LostAt, LossSteps, Lost, InStep, Verified
  <1>7. ClientAuthAt'
    BY DEF ClientAuthAt, Lost, ServerAuthSteps, ServerCommitSteps, CommitSteps
  <1>8. ServerAuthAt'
    BY DEF ServerAuthAt, Lost, ClientAuthSteps, ServerCommitSteps, CommitSteps, FinalSteps
  <1>9. ToServer'
    BY DEF ToServer, InStep, Verified, Lost, OpeningSteps, HandshakeSteps, HandshakeEnd
  <1>10. ToClient'
    BY DEF ToClient, InStep, Verified, Lost, OpeningSteps, HandshakeSteps, HandshakeEnd
  <1> QED
    BY <1>6, <1>7, <1>8, <1>9, <1>10

\* The other steps leave main and the stream alone, or main gives up.
LEMMA QuietTalk ==
  ASSUME Types, TalkInv, NEW p \in Sides,
         side'[p].pc = side[p].pc, side'[p].err = side[p].err, side'[p].auth = side[p].auth,
         side'[p].session # side[p].session => side[p].session # "none" /\ side'[p].session = "down",
         \A q \in Sides \ {p}: side'[q] = side[q],
         wire' = wire, pending' = pending, env' = env
  PROVE  TalkInv'
  <1> USE EnvFixed DEF TalkInv, Sides, Client, Server
  <1>1. WireType' /\ LostAt' /\ InStep' /\ Verified'
    BY DEF WireType, LostAt, InStep, Verified
  <1>2. ClientAuthAt' /\ ServerAuthAt'
    BY DEF ClientAuthAt, ServerAuthAt, Lost
  <1>3. ToServer' /\ ToClient'
    BY DEF ToServer, ToClient, Lost
  <1> QED
    BY <1>1, <1>2, <1>3

LEMMA MovedTalk ==
  ASSUME Types, TalkInv, NEW p \in Sides, NEW step, side' = Moved(p, step),
         \/ step \in LossSteps(p) \ {"handshakeCheck", "handshakeStop", "authCheck", "authStop"}
         \/ ~Lost(p) /\ <<side[p].pc, step>> \in Hops(p),
         wire' = wire, pending' = pending, env' = env
  PROVE  TalkInv'
  <1>1. Goes(p, step, side[p].err, side[p].auth)
    BY MovedGoes
  <1>2. CASE step \in LossSteps(p) \ {"handshakeCheck", "handshakeStop", "authCheck", "authStop"}
    <2>1. Lost(p)'
      BY <1>1, <1>2 DEF Goes, Lost, LossSteps
    <2> QED
      BY <1>1, <1>2, <2>1, LostTalk DEF Goes
  <1>3. CASE ~Lost(p) /\ <<side[p].pc, step>> \in Hops(p)
    BY <1>1, <1>3, HopTalk DEF Goes
  <1> QED
    BY <1>2, <1>3

LEMMA CheckPhaseTalk ==
  ASSUME Types, TalkInv, NEW p \in Sides, NEW step, NEW next,
         CheckPhase(p, step, next), next \in LossSteps(p), <<step, next>> \in Hops(p),
         step \notin {"verifyFailed", "rejectDeadline", "failing", "failed"}
  PROVE  TalkInv'
  <1>1. /\ side[p].pc = step /\ side'[p].pc = next
        /\ side'[p].err = (side[p].err \/ Cancelled(p)) /\ side'[p].err \in BOOLEAN
        /\ side'[p].auth = side[p].auth /\ side'[p].session = side[p].session
        /\ \A q \in Sides \ {p}: side'[q] = side[q]
        /\ wire' = wire /\ pending' = pending /\ env' = env
    BY DEF CheckPhase, At, Types, SideType, Sides
  <1>2. CASE side'[p].err
    <2>1. Lost(p)'
      BY <1>2 DEF Lost
    <2> QED
      BY <1>1, <2>1, LostTalk
  <1>3. CASE ~side'[p].err
    <2>1. side[p].err = side'[p].err /\ ~Lost(p)
      BY <1>1, <1>3 DEF Lost, Types, SideType
    <2> QED
      BY <1>1, <2>1, HopTalk
  <1> QED
    BY <1>2, <1>3

LEMMA StopPhaseTalk ==
  ASSUME Types, TalkInv, NEW p \in Sides, NEW step, NEW next,
         StopPhase(p, step, next), <<step, next>> \in Hops(p),
         step \notin {"verifyFailed", "rejectDeadline", "failing", "failed"}
  PROVE  TalkInv'
  <1>1. side[p].pc = step /\ wire' = wire /\ pending' = pending /\ env' = env
    BY DEF StopPhase, At
  <1>2. CASE side[p].err
    BY <1>1, <1>2, MovedTalk DEF StopPhase, LossSteps
  <1>3. CASE ~side[p].err
    <2>1. ~Lost(p)
      BY <1>1, <1>3 DEF Lost
    <2> QED
      BY <1>1, <1>3, <2>1, MovedTalk DEF StopPhase
  <1> QED
    BY <1>2, <1>3

LEMMA IOFailsTalk ==
  ASSUME Types, TalkInv, NEW p \in Sides, IOFails(p)
  PROVE  TalkInv'
  <1>1. side[p].pc \in Reads \cup Writes
    BY DEF IOFails
  <1>2. Goes(p, AfterError(side[p].pc), TRUE, side[p].auth)
    BY ErrorGoes DEF IOFails, Types, SideType
  <1>3. AfterError(side[p].pc) \in LossSteps(p)
    <2>1. CASE p = "client"
      BY <1>1, <2>1 DEF TalkInv, ClientAuthAt, Client, Reads, Writes, LossSteps, AfterError,
                        HandshakeSteps, ClientAuthSteps, ServerAuthSteps, ServerCommitSteps
    <2>2. CASE p = "server"
      BY <1>1, <2>2 DEF TalkInv, ServerAuthAt, Server, Reads, Writes, LossSteps, AfterError,
                        HandshakeSteps, ClientAuthSteps, ServerAuthSteps
    <2> QED
      BY <2>1, <2>2 DEF Sides
  <1>4. Lost(p)'
    BY <1>2 DEF Goes, Lost
  <1>5. wire' = wire /\ pending' = pending /\ env' = env
    BY DEF IOFails
  <1> QED
    BY <1>2, <1>3, <1>4, <1>5, LostTalk DEF Goes

LEMMA MainTalk ==
  ASSUME Types, TalkInv, NEW p \in Sides, Main(p)
  PROVE  TalkInv'
  <1>0. side[p].pc \in {"begin", "startHandshake", "setOwner", "bind", "setSessionOwner", "activate",
                        "lastCheck", "release"} => ~Lost(p)
    BY DEF TalkInv, LostAt, LossSteps, Lost
  <1> USE DEF At
  <1>1. CASE IOFails(p)
    BY <1>1, IOFailsTalk
  <1>2. CASE Refuse(p)
    BY <1>0, <1>2, MovedTalk DEF Refuse, Hops
  <1>3. CASE NewRuntime(p)
    <2>1. /\ <<side[p].pc, side'[p].pc>> \in Hops(p)
          /\ side'[p].err = side[p].err /\ side'[p].auth = side[p].auth
          /\ side'[p].session = side[p].session
          /\ \A q \in Sides \ {p}: side'[q] = side[q]
      BY <1>3 DEF NewRuntime, Hops, Types, SideType, Sides
    <2> QED
      BY <1>0, <1>3, <2>1, HopTalk DEF NewRuntime
  <1>4. CASE StartHandshake(p)
    <2>1. side[p].pc = "startHandshake" /\ wire' = wire /\ pending' = pending /\ env' = env
      BY <1>4 DEF StartHandshake, RunWithTimeout
    <2>2. CASE side' = Moved(p, "failing")
      BY <2>1, <2>2, MovedTalk DEF LossSteps
    <2>3. CASE side' = Moved(p, IF p = "client" THEN "handshakeWrite" ELSE "handshakeRead")
      <3>1. <<side[p].pc, IF p = "client" THEN "handshakeWrite" ELSE "handshakeRead">> \in Hops(p)
        BY <2>1 DEF Hops
      <3> QED
        BY <1>0, <2>1, <2>3, <3>1, MovedTalk
    <2> QED
      BY <1>4, <2>2, <2>3 DEF StartHandshake, RunWithTimeout
  <1>5. CASE HandshakeWrite(p) \/ HandshakeRead(p)
    BY <1>5, HandshakeWriteTalk, HandshakeReadTalk
  <1>6. CASE HandshakeCheck(p)
    BY <1>6, CheckPhaseTalk DEF HandshakeCheck, LossSteps, Hops
  <1>7. CASE HandshakeStop(p)
    BY <1>7, StopPhaseTalk DEF HandshakeStop, Hops
  <1>8. CASE SetOwner(p) \/ SetSessionOwner(p) \/ Release(p)
    <2>1. /\ side[p].pc \in {"setOwner", "setSessionOwner", "release"}
          /\ wire' = wire /\ pending' = pending /\ env' = env
      BY <1>8 DEF SetOwner, SetSessionOwner, Release
    <2>2. /\ <<side[p].pc, side'[p].pc>> \in Hops(p)
          /\ side'[p].err = side[p].err /\ side'[p].auth = side[p].auth
          /\ side'[p].session = side[p].session
          /\ \A q \in Sides \ {p}: side'[q] = side[q]
      BY <1>8 DEF SetOwner, SetSessionOwner, Release, Hops, Types, SideType, Sides
    <2> QED
      BY <1>0, <2>1, <2>2, HopTalk
  <1>9. CASE Bind(p)
    <2>1. side[p].pc = "bind" /\ wire' = wire /\ pending' = pending /\ env' = env
      BY <1>9 DEF Bind
    <2>2. CASE side' = Moved(p, "failing")
      BY <2>1, <2>2, MovedTalk DEF LossSteps
    <2>3. CASE side' = [side EXCEPT ![p].pc = "setSessionOwner", ![p].session = "bound"]
      <3>1. /\ <<side[p].pc, side'[p].pc>> \in Hops(p)
            /\ side'[p].err = side[p].err /\ side'[p].auth = side[p].auth
            /\ side'[p].session = "bound"
            /\ \A q \in Sides \ {p}: side'[q] = side[q]
        BY <2>1, <2>3 DEF Hops, Types, SideType, Sides
      <3> QED
        BY <1>0, <2>1, <3>1, HopTalk
    <2> QED
      BY <1>9, <2>2, <2>3 DEF Bind
  <1>10. CASE Activate(p)
    <2>1. side[p].pc = "activate" /\ wire' = wire /\ pending' = pending /\ env' = env
      BY <1>10 DEF Activate
    <2>2. /\ <<side[p].pc, side'[p].pc>> \in Hops(p)
          /\ side'[p].err = side[p].err /\ side'[p].auth = side[p].auth
          /\ side'[p].session = side[p].session \/ side'[p].session = "active"
          /\ \A q \in Sides \ {p}: side'[q] = side[q]
      BY <1>10 DEF Activate, Hops, Types, SideType, Sides
    <2> QED
      BY <1>0, <2>1, <2>2, HopTalk
  <1>11. CASE LastCheck(p)
    BY <1>0, <1>11, MovedTalk DEF LastCheck, FailsIf, LossSteps, Hops
  <1> QED
    BY <1>1, <1>2, <1>3, <1>4, <1>5, <1>6, <1>7, <1>8, <1>9, <1>10, <1>11 DEF Main

LEMMA ClientTalk ==
  ASSUME Types, TalkInv, ClientMain
  PROVE  TalkInv'
  <1> USE DEF At
  <1>1. CASE StartAuth("client")
    <2>1. /\ side["client"].pc = "startAuth" /\ "client" \in Sides
          /\ wire' = wire /\ pending' = pending /\ env' = env
      BY <1>1 DEF StartAuth, RunWithTimeout, Sides
    <2>2. ~Lost("client")
      BY <2>1 DEF TalkInv, LostAt, LossSteps, Lost
    <2> QED
      BY <1>1, <2>1, <2>2, MovedTalk DEF StartAuth, RunWithTimeout, LossSteps, Hops
  <1>2. CASE AuthCheck
    BY <1>2, CheckPhaseTalk DEF AuthCheck, LossSteps, Hops, Sides
  <1>3. CASE AuthStop
    BY <1>3, StopPhaseTalk DEF AuthStop, Hops, Sides
  <1> QED
    BY <1>1, <1>2, <1>3, SendHostAuthInitTalk, ReceiveServerAuthTalk, SendClientAuthRequestTalk,
       ReceiveClientAuthResponseTalk DEF ClientMain

LEMMA ServerTalk ==
  ASSUME Types, TalkInv, ServerMain
  PROVE  TalkInv'
  <1>0. "server" \in Sides
    BY DEF Sides
  <1>1. CASE BeginServer \/ Accept \/ CompleteAuthStop \/ CompleteAuthCancel
    <2>1. /\ side["server"].pc \in {"beginServer", "accept", "stopAuth", "cancelAuth"}
          /\ wire' = wire /\ pending' = pending /\ env' = env
      BY <1>1 DEF BeginServer, Accept, CompleteAuthStop, CompleteAuthCancel, At
    <2>2. ~Lost("server")
      BY <1>0, <2>1 DEF TalkInv, LostAt, LossSteps, Lost
    <2>3. \/ side' = Moved("server", "verifyFailed") \/ side' = Moved("server", "failing")
          \/ /\ side["server"].pc = "beginServer"
             /\ side' = Moved("server", "receiveHostAuthInit")
          \/ side["server"].pc = "accept" /\ side' = Moved("server", "bind")
          \/ side["server"].pc = "stopAuth" /\ side' = Moved("server", "cancelAuth")
          \/ side["server"].pc = "cancelAuth" /\ side' = Moved("server", "sendClientAuthOK")
      BY <1>1 DEF BeginServer, Accept, CompleteAuthStop, CompleteAuthCancel, FailsIf, At
    <2>4. CASE side' = Moved("server", "verifyFailed") \/ side' = Moved("server", "failing")
      BY <1>0, <2>1, <2>4, MovedTalk DEF LossSteps
    <2>5. CASE ~(side' = Moved("server", "verifyFailed") \/ side' = Moved("server", "failing"))
      BY <1>0, <2>1, <2>2, <2>3, <2>5, MovedTalk DEF Hops
    <2> QED
      BY <2>4, <2>5
  <1>2. CASE VerifyFailed \/ RejectDeadline
    BY <1>0, <1>2, MovedTalk DEF VerifyFailed, RejectDeadline, LossSteps
  <1> QED
    BY <1>1, <1>2, ReceiveHostAuthInitTalk, SendAuthErrorTalk, SendServerAuthTalk,
       ReceiveClientAuthRequestTalk, RejectInvalidClientTalk, DecideTalk, SendRejectTalk,
       SendClientAuthOKTalk DEF ServerMain

LEMMA OtherTalk ==
  ASSUME Types, OwnerInv, TalkInv, NEW p \in Sides, NEW k \in Threads, OtherStep(p, k)
  PROVE  TalkInv'
  <1>0. SideInv(p)
    BY DEF OwnerInv, SideInv
  <1>1. CASE SessionSend(p) \/ SessionReceive(p)
    BY <1>1, SessionSendTalk, SessionReceiveTalk
  <1>2. CASE \/ Fire(p, k) \/ FailCancel(p, k) \/ SessionEnds(p) \/ SessionClose(p)
             \/ ParentCancel(p) \/ Stop(p)
             \/ p = "server" /\ (AuthExpires \/ AuthContextEnds)
    <2>1. /\ side'[p].pc = side[p].pc /\ side'[p].err = side[p].err
          /\ side'[p].auth = side[p].auth
          /\ side'[p].session # side[p].session =>
               side[p].session # "none" /\ side'[p].session = "down"
          /\ \A q \in Sides \ {p}: side'[q] = side[q]
          /\ wire' = wire /\ pending' = pending /\ env' = env
      BY <1>2 DEF Fire, FailCancel, SessionEnds, SessionReadEnds, SessionParentEnds,
                  SessionFinalize, SessionClose, SessionDown, ParentCancel, Stop, AuthExpires,
                  AuthContextEnds, Types, SideType, Sides
    <2> QED
      BY <2>1, QuietTalk
  <1>3. CASE Watch(p) \/ FailTake(p, k) \/ CloseOwner(p, k)
    <2>1. /\ \/ side'[p].pc = side[p].pc
             \/ side'[p].pc = "failed"
          /\ side'[p].err = side[p].err /\ side'[p].auth = side[p].auth
          /\ \/ side'[p].session = side[p].session
             \/ hold[p][k] = "session" /\ side'[p].session = "down"
          /\ \A q \in Sides \ {p}: side'[q] = side[q]
          /\ wire' = wire /\ pending' = pending /\ env' = env
      BY <1>3 DEF Watch, FailTake, TakeOwner, CloseOwner, Types, SideType, Sides
    <2>2. hold[p][k] = "session" => side[p].session # "none"
      BY <1>0 DEF SideInv, OwnerAt
    <2>3. CASE side'[p].pc = side[p].pc
      BY <2>1, <2>2, <2>3, QuietTalk
    <2>4. CASE side'[p].pc = "failed"
      <3>1. Lost(p)'
        BY <2>4 DEF Lost
      <3> QED
        BY <2>1, <2>2, <2>4, <3>1, LostTalk DEF LossSteps
    <2> QED
      BY <2>1, <2>3, <2>4
  <1> QED
    BY <1>1, <1>2, <1>3 DEF OtherStep, Closer

LEMMA TalkStep == Types /\ OwnerInv /\ TalkInv /\ [Next]_vars => TalkInv'
  <1> SUFFICES ASSUME Types, OwnerInv, TalkInv, [Next]_vars PROVE TalkInv'
    OBVIOUS
  <1>1. CASE UNCHANGED vars
    <2>1. "client" \in Sides
      BY DEF Sides
    <2> QED
      BY <1>1, <2>1, QuietTalk DEF vars
  <1>2. ASSUME NEW p \in Sides, StepOf(p) PROVE TalkInv'
    BY <1>2, MainTalk, ClientTalk, ServerTalk, OtherTalk DEF StepOf, AuthMain
  <1> QED
    BY <1>1, <1>2, NextIsOfOneSide

-----------------------------------------------------------------------------
(***************************************************************************)
(* Initially.                                                              *)
(***************************************************************************)
LEMMA InitType == Init => Types
  BY MaxSessionFramesAssumption
  DEF Init, Types, SideType, Steps, Owners, AuthStates, Threads, ThreadStates, Sides

LEMMA InitOwner == Init => OwnerInv
  BY DEF Init, OwnerInv, ThreadInv, OwnerAt, RawSteps, BoundSteps, BeforeTimer, Threads, Sides

LEMMA InitTalk == Init => TalkInv
  <1> SUFFICES ASSUME Init PROVE TalkInv
    OBVIOUS
  <1> USE DEF Init, Sides, Client, Server
  <1>1. WireType /\ LostAt /\ InStep /\ Verified
    BY DEF WireType, LostAt, InStep, Verified
  <1>2. ClientAuthAt /\ ServerAuthAt
    BY DEF ClientAuthAt, ServerAuthAt, Lost, CommitSteps, ServerCommitSteps, ClientAuthSteps,
           ServerAuthSteps, FinalSteps
  <1>3. ToServer /\ ToClient
    BY DEF ToServer, ToClient, Lost, OpeningSteps, HandshakeSteps, HandshakeEnd
  <1> QED
    BY <1>1, <1>2, <1>3 DEF TalkInv

LEMMA InitBaton == Init => Baton!Init
  BY DEF Init, Baton!Init, Stage

\* The inductive invariant is invariant.
LEMMA Inductive == Spec => []IInv
  <1>1. Init => IInv
    BY InitType, InitOwner, InitTalk DEF IInv
  <1>2. IInv /\ [Next]_vars => IInv'
    BY TypeStep, OwnerStep, TalkStep DEF IInv
  <1> QED
    BY <1>1, <1>2, PTL DEF Spec

(***************************************************************************)
(* Every variable keeps its type, and whoever is between the two halves of *)
(* closeCurrentOwner has an owner to close.                                *)
(***************************************************************************)
THEOREM TypeCorrect == Spec => []TypeOK
  <1>1. IInv => TypeOK
    BY DEF IInv, OwnerInv, ThreadInv, TypeOK
  <1> QED
    BY <1>1, Inductive, PTL

(***************************************************************************)
(* A client that has sent its proof talks, in one Noise session, to the    *)
(* server whose host key its known_hosts file vouches for, a client that   *)
(* believes it is authenticated was accepted by that server, and a server  *)
(* accepts only a valid proof made for this very connection: for every     *)
(* deployment, also with something in between that holds a Noise session   *)
(* with each side (authenticateClient, verifyClient, PendingServer).       *)
(***************************************************************************)
THEOREM Authentication == Spec => []MutualAuthentication
  <1>1. IInv => MutualAuthentication
    BY DEF IInv, TalkInv, MutualAuthentication, InStep, Verified, ServerAuthAt, Client, Server
  <1> QED
    BY <1>1, Inductive, PTL

(***************************************************************************)
(* The authentication never has a session frame in front of it, and an     *)
(* active session has no authentication frame left to read, on a stream    *)
(* that does not mark where one protocol ends and the other begins (the    *)
(* gate between Bind and Activate).                                        *)
(***************************************************************************)
THEOREM StreamsSeparate == Spec => []StreamsDoNotMix
  <1>1. ASSUME IInv, NEW p \in Sides
        PROVE  /\ side[p].pc \in Reads /\ Incoming(p) # <<>> =>
                    Head(Incoming(p)).kind # "session"
               /\ side[p].session = "active" =>
                    \A i \in DOMAIN Incoming(p): Incoming(p)[i].kind = "session"
    <2>0. Types /\ TalkInv
      BY <1>1 DEF IInv
    <2>1. ASSUME side[p].pc \in Reads, Incoming(p) # <<>>
          PROVE  Head(Incoming(p)).kind # "session"
      <3>1. ~Lost(p)
        BY <2>0, <2>1, Places
      <3>2. \/ \E f \in {Noise, HostAuthInit, Request, Answer, AuthError, Reject}:
                 Incoming(p) = <<f>>
            \/ Head(Incoming(p)) = OK
        <4>1. CASE p = "client"
          <5>1. Incoming(p) = wire["server"] /\ ClientAuthAt
            BY <2>0, <4>1 DEF Incoming, Peer, TalkInv
          <5> QED
            BY <2>0, <2>1, <4>1, <5>1 DEF TalkInv, ToClient, ClientAuthAt, Client, Server, Reads,
               HandshakeSteps, ServerAuthSteps
        <4>2. CASE p = "server"
          <5>1. Incoming(p) = wire["client"]
            BY <4>2 DEF Incoming, Peer
          <5> QED
            BY <2>0, <2>1, <3>1, <4>2, <5>1 DEF TalkInv, ToServer, ServerAuthAt, Client, Server,
               Reads, ClientAuthSteps, HandshakeSteps
        <4> QED
          BY <4>1, <4>2 DEF Sides
      <3>3. \/ Head(Incoming(p)) \in {Noise, HostAuthInit, Request, Answer, AuthError, Reject}
            \/ Head(Incoming(p)) = OK
        BY <3>2, Single, Zenon
      <3> QED
        BY <3>3, FrameKinds
    <2>2. ASSUME side[p].session = "active"
          PROVE  AllSession(Incoming(p))
      BY <2>0, <2>2, ActiveTalk DEF Incoming, Peer, Sides
    <2> QED
      BY <2>1, <2>2 DEF AllSession
  <1>2. IInv => StreamsDoNotMix
    BY <1>1 DEF StreamsDoNotMix
  <1> QED
    BY <1>2, Inductive, PTL

(***************************************************************************)
(* On each side the connection passes from the application over setup to   *)
(* the session, is closed once, by a party that owned it, and after the    *)
(* hand-over by the session alone, whichever of the four closing threads   *)
(* wakes when (runtime.go closeCurrentOwner, SetOwner, Release).           *)
(***************************************************************************)
THEOREM BatonRefinement == Spec => ImplementsBaton
  <1>1. IInv /\ [Next]_vars => [Baton!Next]_(Baton!vars)
    BY BatonStep DEF IInv
  <1> QED
    BY <1>1, Inductive, InitBaton, PTL DEF Spec, ImplementsBaton, Baton!Spec
=============================================================================
