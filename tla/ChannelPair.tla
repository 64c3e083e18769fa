---------------------------- MODULE ChannelPair ----------------------------
(***************************************************************************)
(* The life of one channel between two endpoints that both run lib/session *)
(* and have just opened it: data, half-close (CloseWrite), close with its  *)
(* acknowledgement and timeout, and the session shutdown that a protocol   *)
(* violation causes.                                                       *)
(*                                                                         *)
(* Each endpoint has one goroutine that calls Send, one that calls Recv,   *)
(* and others that may call CloseWrite, Close and Session.Close at any     *)
(* moment; its session has a writer that drains a control queue before an  *)
(* outbound queue, and a receiver that handles the peer's envelopes in     *)
(* order. Calls change Channel.state under Channel.mu and queue their      *)
(* envelope after releasing it; the two halves are two steps here.         *)
(*                                                                         *)
(* A frame is its number in the order of Send; each takes one unit of      *)
(* credit. Sizes, limits and cancellation of writes are FlowControl's.     *)
(* Channel requests and session budgets are not in this module; that       *)
(* enqueueWrite may refuse for want of budget is (bounded by the use).     *)
(***************************************************************************)
EXTENDS Integers, Sequences

CONSTANTS
    Window,        \* Config.InitialWindow, in frames
    Threshold,     \* Config.WindowAdjustThreshold, in frames
    Uses           \* how the channel may be used: see UseType

End == {"a", "b"}

Peer(e) == IF e = "a" THEN "b" ELSE "a"

(***************************************************************************)
(* A use of the channel, one for each behaviour:                           *)
(*   confirmed  endpoints close as MayCloseWrite and MayClose say          *)
(*   timeouts   awaitCloseTimeout may fire before the answer comes         *)
(*   leavers    endpoints whose application may call Session.Close         *)
(*   frames     bound: frames each endpoint sends                          *)
(*   refusals   bound: writes refused for want of queue budget             *)
(***************************************************************************)
UseType == [confirmed: BOOLEAN, timeouts: BOOLEAN, leavers: SUBSET End,
            frames: [End -> Nat], refusals: Nat]

ASSUME PairAssumption ==
    /\ Window \in Nat \ {0} /\ Threshold \in 1..Window
    /\ Uses \subseteq UseType

VARIABLES
    state,         \* Channel.state
    inTable,       \* whether Session.channels holds the channel
    remoteWindow,  \* Channel.remoteWindow
    pending,       \* Channel.pendingWindowBytes
    frames,        \* Channel.frames
    sendPc,        \* the call of Send: "idle", "reserved" or "queued"
    adjusting,     \* the adjustment Recv is about to queue, or 0
    eofPc,         \* the call of CloseWrite: "idle" or the state it saw
    closePc,       \* the call of Close: "idle", "queue" or "timer"
    control,       \* Session.controlQueue
    outbound,      \* Session.outboundQueue
    polled,        \* writerLoop saw an empty control queue and waits on both
    wire,          \* envelopes written by an endpoint and not yet received
    session,       \* "up", or why Session.shutdown ran
    env,           \* the use, and the writes refused so far
    sent,          \* history: frames whose Send has returned
    promised,      \* history: sent when the endpoint ended its writing
    read,          \* history: frames that Recv returned
    gotEOF,        \* history: Recv returned io.EOF
    closedHere     \* history: the endpoint called Close itself

callVars == <<sendPc, adjusting, eofPc, closePc>>
queueVars == <<control, outbound, polled>>
historyVars == <<sent, promised, read, gotEOF, closedHere>>
windowVars == <<remoteWindow, pending>>
vars == <<state, inTable, windowVars, frames, callVars, queueVars, wire,
          session, env, historyVars>>

States == {"open", "localEOF", "remoteEOF", "bothEOF", "closing", "closed", "failed"}

allowsRequests == {"open", "localEOF", "remoteEOF", "bothEOF"}
canSendData == {"open", "remoteEOF"}
canReceiveData == {"open", "localEOF"}
readEOF == {"remoteEOF", "bothEOF", "closing", "closed"}

Kinds == {"data", "adjust", "eof", "close", "disconnect", "hangup"}

\* An envelope; n is the frame's number, or the credit of an adjustment.
Msg(kind, n) == [kind |-> kind, n |-> n]

Init ==
    /\ state = [e \in End |-> "open"]
    /\ inTable = [e \in End |-> TRUE]
    /\ remoteWindow = [e \in End |-> Window]
    /\ pending = [e \in End |-> 0]
    /\ frames = [e \in End |-> <<>>]
    /\ sendPc = [e \in End |-> "idle"]
    /\ adjusting = [e \in End |-> 0]
    /\ eofPc = [e \in End |-> "idle"]
    /\ closePc = [e \in End |-> "idle"]
    /\ control = [e \in End |-> <<>>]
    /\ outbound = [e \in End |-> <<>>]
    /\ polled = [e \in End |-> TRUE]
    /\ wire = [e \in End |-> <<>>]
    /\ session = [e \in End |-> "up"]
    /\ env \in {[use |-> u, refused |-> 0] : u \in Uses}
    /\ sent = [e \in End |-> 0]
    /\ promised = [e \in End |-> 0]
    /\ read = [e \in End |-> <<>>]
    /\ gotEOF = [e \in End |-> FALSE]
    /\ closedHere = [e \in End |-> FALSE]

Up(e) == session[e] = "up"

\* enqueueWrite, or a reservation of queue budget, refuses.
Refuses ==
    /\ env.refused < env.use.refusals
    /\ env' = [env EXCEPT !.refused = @ + 1]

\* f with its value at endpoint e replaced.
Set(f, e, v) == [f EXCEPT ![e] = v]

-----------------------------------------------------------------------------
(* Session.shutdown.                                                       *)

(***************************************************************************)
(* The session of e shuts down. A channel still in the table ends in the   *)
(* given state and loses what it had not delivered (Channel.shutdown); one *)
(* already removed keeps its frames for Recv. Blocked calls return. A      *)
(* protocol error puts a disconnect in the control queue, whose writes     *)
(* still go out before the connection closes; otherwise the connection     *)
(* closes at once.                                                         *)
(***************************************************************************)
Shutdown(e, cause, final) ==
    /\ session' = Set(session, e, cause)
    /\ state' = Set(state, e, IF inTable[e] THEN final ELSE state[e])
    /\ frames' = Set(frames, e, IF inTable[e] THEN <<>> ELSE frames[e])
    /\ inTable' = Set(inTable, e, FALSE)
    /\ sendPc' = Set(sendPc, e, "idle")
    /\ adjusting' = Set(adjusting, e, 0)
    /\ eofPc' = Set(eofPc, e, "idle")
    /\ closePc' = Set(closePc, e, "idle")
    /\ control' = Set(control, e, <<>>)
    /\ outbound' = Set(outbound, e, <<>>)
    /\ polled' = Set(polled, e, FALSE)

\* What the peer still receives of an endpoint that shuts down.
LastWords(e, cause) ==
    IF cause = "protocol" THEN Append(control[e], Msg("disconnect", 0))
                          ELSE <<Msg("hangup", 0)>>

\* Shutdown in the middle of another goroutine's step.
Abort(e, cause) ==
    /\ Shutdown(e, cause, "failed")
    /\ wire' = Set(wire, e, wire[e] \o LastWords(e, cause))

\* Session.Close.
SessionClose(e) ==
    /\ Up(e)
    /\ e \in env.use.leavers
    /\ Abort(e, "local")
    /\ UNCHANGED <<windowVars, env, historyVars>>

-----------------------------------------------------------------------------
(* Calls of the application.                                               *)

MayCloseWrite(e) == env.use.confirmed => /\ e = "a" \/ gotEOF[e]
                                 /\ sendPc[e] = "idle"

MayClose(e) == env.use.confirmed => e = "a" /\ gotEOF[e]

MutSend(e) ==
    /\ Up(e)
    /\ sendPc[e] = "idle"
    /\ sent[e] < env.use.frames[e]
    /\ state[e] \in canSendData
    /\ remoteWindow' = [remoteWindow EXCEPT ![e] = @ - 1]
    /\ sendPc' = Set(sendPc, e, "reserved")
    /\ UNCHANGED <<state, inTable, pending, frames, adjusting, eofPc, closePc, queueVars,
                   wire, session, env, historyVars>>

\* The locked part of Send, for a frame that has credit.
Send(e) ==
    /\ Up(e)
    /\ sendPc[e] = "idle"
    /\ sent[e] < env.use.frames[e]
    /\ state[e] \in canSendData
    /\ remoteWindow[e] > 0
    /\ remoteWindow' = [remoteWindow EXCEPT ![e] = @ - 1]
    /\ sendPc' = Set(sendPc, e, "reserved")
    /\ UNCHANGED <<state, inTable, pending, frames, adjusting, eofPc, closePc, queueVars,
                   wire, session, env, historyVars>>

\* enqueueWrite takes the frame, whatever the state is by now.
SendQueue(e) ==
    /\ Up(e)
    /\ sendPc[e] = "reserved"
    /\ outbound' = [outbound EXCEPT ![e] = Append(@, Msg("data", sent[e] + 1))]
    /\ sendPc' = Set(sendPc, e, "queued")
    /\ UNCHANGED <<state, inTable, windowVars, frames, adjusting, eofPc, closePc, control,
                   polled, wire, session, env, historyVars>>

\* enqueueWrite refuses the frame: Send returns the error and the credit.
SendRefused(e) ==
    /\ Up(e)
    /\ sendPc[e] = "reserved"
    /\ Refuses
    /\ remoteWindow' = [remoteWindow EXCEPT ![e] = @ + 1]
    /\ sendPc' = Set(sendPc, e, "idle")
    /\ UNCHANGED <<state, inTable, pending, frames, adjusting, eofPc, closePc, queueVars,
                   wire, session, historyVars>>

\* No call of Recv is under way: the last one's adjustment is on the wire.
RecvIdle(e) ==
    /\ adjusting[e] = 0
    /\ \A i \in DOMAIN outbound[e] : outbound[e][i].kind # "adjust"

\* The locked part of Recv, when a frame is there. Of a session that is
\* down only a channel removed before still has frames; no adjustment goes.
RecvFrame(e) ==
    LET credit == pending[e] + 1
        due == credit >= Threshold IN
    /\ RecvIdle(e)
    /\ frames[e] # <<>>
    /\ frames' = [frames EXCEPT ![e] = Tail(@)]
    /\ read' = [read EXCEPT ![e] = Append(@, Head(frames[e]))]
    /\ pending' = Set(pending, e, IF due THEN 0 ELSE credit)
    /\ adjusting' = Set(adjusting, e, IF due /\ Up(e) THEN credit ELSE 0)
    /\ UNCHANGED <<state, inTable, remoteWindow, sendPc, eofPc, closePc, queueVars, wire,
                   session, env, sent, promised, gotEOF, closedHere>>

\* Recv queues the adjustment and waits for its write; then it returns.
RecvAdjust(e) ==
    /\ Up(e)
    /\ adjusting[e] > 0
    /\ outbound' = [outbound EXCEPT ![e] = Append(@, Msg("adjust", adjusting[e]))]
    /\ adjusting' = Set(adjusting, e, 0)
    /\ UNCHANGED <<state, inTable, windowVars, frames, sendPc, eofPc, closePc, control,
                   polled, wire, session, env, historyVars>>

MutRecvEOF(e) ==
    /\ RecvIdle(e)
    /\ state[e] \in readEOF \/ session[e] = "peer closed"
    /\ ~gotEOF[e]
    /\ gotEOF' = Set(gotEOF, e, TRUE)
    /\ UNCHANGED <<state, inTable, windowVars, frames, callVars, queueVars, wire, session,
                   env, sent, promised, read, closedHere>>

\* Recv finds no frame and returns io.EOF: the state says so, or the session
\* ended because the peer hung up (sessionErr is errSessionClosed). Any other
\* end of the session makes it return that error.
RecvEOF(e) ==
    /\ RecvIdle(e)
    /\ frames[e] = <<>>
    /\ state[e] \in readEOF \/ session[e] = "peer closed"
    /\ ~gotEOF[e]
    /\ gotEOF' = Set(gotEOF, e, TRUE)
    /\ UNCHANGED <<state, inTable, windowVars, frames, callVars, queueVars, wire, session,
                   env, sent, promised, read, closedHere>>

\* The locked part of CloseWrite.
CloseWrite(e) ==
    /\ Up(e)
    /\ MayCloseWrite(e)
    /\ eofPc[e] = "idle"
    /\ state[e] \in canSendData
    /\ state' = Set(state, e, IF state[e] = "open" THEN "localEOF" ELSE "bothEOF")
    /\ eofPc' = Set(eofPc, e, state[e])
    /\ promised' = Set(promised, e, sent[e])
    /\ UNCHANGED <<inTable, windowVars, frames, sendPc, adjusting, closePc, queueVars, wire,
                   session, env, sent, read, gotEOF, closedHere>>

\* CloseWrite queues the EOF and waits for its write.
CloseWriteQueue(e) ==
    /\ Up(e)
    /\ eofPc[e] \in canSendData
    /\ outbound' = [outbound EXCEPT ![e] = Append(@, Msg("eof", 0))]
    /\ eofPc' = Set(eofPc, e, "idle")
    /\ UNCHANGED <<state, inTable, windowVars, frames, sendPc, adjusting, closePc, control,
                   polled, wire, session, env, historyVars>>

\* enqueueWrite refuses the EOF: CloseWrite puts back the state it saw.
CloseWriteRefused(e) ==
    /\ Up(e)
    /\ eofPc[e] \in canSendData
    /\ Refuses
    /\ state' = Set(state, e, IF state[e] \in {"localEOF", "bothEOF"} THEN eofPc[e] ELSE state[e])
    /\ eofPc' = Set(eofPc, e, "idle")
    /\ UNCHANGED <<inTable, windowVars, frames, sendPc, adjusting, closePc, queueVars, wire,
                   session, historyVars>>

\* The locked part of Close: unread frames are discarded.
Close(e) ==
    /\ Up(e)
    /\ MayClose(e)
    /\ state[e] \in allowsRequests
    /\ state' = Set(state, e, "closing")
    /\ frames' = Set(frames, e, <<>>)
    /\ closePc' = Set(closePc, e, "queue")
    /\ closedHere' = Set(closedHere, e, TRUE)
    /\ promised' = Set(promised, e, IF state[e] \in canSendData THEN sent[e] ELSE promised[e])
    /\ UNCHANGED <<inTable, windowVars, sendPc, adjusting, eofPc, queueVars, wire, session,
                   env, sent, read, gotEOF>>

\* Close queues its envelope ahead of data and starts awaitCloseTimeout.
CloseQueue(e) ==
    /\ Up(e)
    /\ closePc[e] = "queue"
    /\ control' = [control EXCEPT ![e] = Append(@, Msg("close", 0))]
    /\ closePc' = Set(closePc, e, "timer")
    /\ UNCHANGED <<state, inTable, windowVars, frames, sendPc, adjusting, eofPc, outbound,
                   polled, wire, session, env, historyVars>>

\* enqueueWrite refuses an adjustment or a close: the session is shut down.
QueueRefused(e) ==
    /\ Up(e)
    /\ adjusting[e] > 0 \/ closePc[e] = "queue"
    /\ Refuses
    /\ Abort(e, "budget")
    /\ UNCHANGED <<windowVars, historyVars>>

\* awaitCloseTimeout: no answer in time, the channel is removed.
CloseTimeout(e) ==
    /\ Up(e)
    /\ env.use.timeouts
    /\ closePc[e] = "timer"
    /\ closePc' = Set(closePc, e, "idle")
    /\ state[e] = "closing"
    /\ state' = Set(state, e, "closed")
    /\ inTable' = Set(inTable, e, FALSE)
    /\ UNCHANGED <<windowVars, frames, sendPc, adjusting, eofPc, queueVars, wire, session,
                   env, historyVars>>

-----------------------------------------------------------------------------
(* writerLoop. After each write it polls the control queue; if that is     *)
(* empty (polled) it waits on both queues and takes what comes, or either  *)
(* if both have become ready.                                              *)

WriteControl(e) ==
    /\ Up(e)
    /\ control[e] # <<>>
    /\ control' = [control EXCEPT ![e] = Tail(@)]
    /\ polled' = Set(polled, e, Len(control[e]) = 1)
    /\ wire' = [wire EXCEPT ![e] = Append(@, Head(control[e]))]
    /\ UNCHANGED <<state, inTable, windowVars, frames, callVars, outbound, session,
                   env, historyVars>>

\* The call that waits for the write returns.
WriteOutbound(e) ==
    LET m == Head(outbound[e]) IN
    /\ Up(e)
    /\ polled[e]
    /\ outbound[e] # <<>>
    /\ outbound' = [outbound EXCEPT ![e] = Tail(@)]
    /\ polled' = Set(polled, e, control[e] = <<>>)
    /\ wire' = [wire EXCEPT ![e] = Append(@, m)]
    /\ sendPc' = Set(sendPc, e, IF m.kind = "data" THEN "idle" ELSE sendPc[e])
    /\ sent' = Set(sent, e, IF m.kind = "data" THEN m.n ELSE sent[e])
    /\ UNCHANGED <<state, inTable, windowVars, frames, adjusting, eofPc, closePc, control,
                   session, env, promised, read, gotEOF, closedHere>>

-----------------------------------------------------------------------------
(* receiverLoop: routeEnvelope and the handlers.                           *)

Arrives(e, kind) ==
    /\ Up(e)
    /\ wire[Peer(e)] # <<>>
    /\ Head(wire[Peer(e)]).kind = kind

Arrived(e) == Head(wire[Peer(e)])

Consume(e) == wire' = [wire EXCEPT ![Peer(e)] = Tail(@)]

\* Whether e still has the channel in one of the given states.
Accepts(e, states) == inTable[e] /\ state[e] \in states

\* The envelope is a protocol error at e.
Reject(e, cause) ==
    /\ Shutdown(e, cause, "failed")
    /\ wire' = [wire EXCEPT ![Peer(e)] = Tail(@), ![e] = @ \o LastWords(e, cause)]
    /\ UNCHANGED <<windowVars, env, historyVars>>

HandleChannelData(e) ==
    /\ Arrives(e, "data")
    /\ Accepts(e, canReceiveData)
    /\ Consume(e)
    /\ frames' = [frames EXCEPT ![e] = Append(@, Arrived(e).n)]
    /\ UNCHANGED <<state, inTable, windowVars, callVars, queueVars, session, env,
                   historyVars>>

HandleChannelWindowAdjust(e) ==
    /\ Arrives(e, "adjust")
    /\ Accepts(e, allowsRequests)
    /\ Consume(e)
    /\ remoteWindow' = [remoteWindow EXCEPT ![e] = @ + Arrived(e).n]
    /\ UNCHANGED <<state, inTable, pending, frames, callVars, queueVars, session, env,
                   historyVars>>

EnqueueChannelEOF(e) ==
    /\ Arrives(e, "eof")
    /\ Accepts(e, canReceiveData)
    /\ Consume(e)
    /\ state' = Set(state, e, IF state[e] = "open" THEN "remoteEOF" ELSE "bothEOF")
    /\ UNCHANGED <<inTable, windowVars, frames, callVars, queueVars, session, env,
                   historyVars>>

\* handleChannelData or enqueueChannelEOF finds no room for the frame or the
\* event (reserveQueuedLocked): the session is shut down.
ReceiveRefused(e) ==
    /\ Arrives(e, "data") \/ Arrives(e, "eof")
    /\ Accepts(e, canReceiveData)
    /\ Refuses
    /\ Shutdown(e, "budget", "failed")
    /\ wire' = [wire EXCEPT ![Peer(e)] = Tail(@), ![e] = Append(@, Msg("hangup", 0))]
    /\ UNCHANGED <<windowVars, historyVars>>

MutEnqueueChannelClose(e) ==
    /\ Arrives(e, "close")
    /\ Accepts(e, allowsRequests)
    /\ Consume(e)
    /\ state' = Set(state, e, "closed")
    /\ frames' = Set(frames, e, <<>>)
    /\ control' = [control EXCEPT ![e] = Append(@, Msg("close", 0))]
    /\ inTable' = Set(inTable, e, FALSE)
    /\ UNCHANGED <<windowVars, callVars, outbound, polled, session, env, historyVars>>

MutNoAck(e) ==
    /\ Arrives(e, "close")
    /\ Accepts(e, allowsRequests)
    /\ Consume(e)
    /\ state' = Set(state, e, "closed")
    /\ inTable' = Set(inTable, e, FALSE)
    /\ UNCHANGED <<windowVars, frames, callVars, queueVars, session, env, historyVars>>

\* The peer closes: acknowledge, remove the channel, keep the unread frames.
EnqueueChannelClose(e) ==
    /\ Arrives(e, "close")
    /\ Accepts(e, allowsRequests)
    /\ Consume(e)
    /\ state' = Set(state, e, "closed")
    /\ control' = [control EXCEPT ![e] = Append(@, Msg("close", 0))]
    /\ inTable' = Set(inTable, e, FALSE)
    /\ UNCHANGED <<windowVars, frames, callVars, outbound, polled, session, env,
                   historyVars>>

\* The acknowledgement is refused: the session is shut down, and with it the
\* channel, which is closed and still in the table.
EnqueueChannelCloseRefused(e) ==
    /\ Arrives(e, "close")
    /\ Accepts(e, allowsRequests)
    /\ Refuses
    /\ Shutdown(e, "budget", "closed")
    /\ wire' = [wire EXCEPT ![Peer(e)] = Tail(@), ![e] = Append(@, Msg("hangup", 0))]
    /\ UNCHANGED <<windowVars, historyVars>>

\* The answer to our own close, or the peer's close crossing it.
EnqueueChannelCloseAck(e) ==
    /\ Arrives(e, "close")
    /\ Accepts(e, {"closing"})
    /\ Consume(e)
    /\ state' = Set(state, e, "closed")
    /\ inTable' = Set(inTable, e, FALSE)
    /\ UNCHANGED <<windowVars, frames, callVars, queueVars, session, env, historyVars>>

\* Anything the handlers above do not accept is a protocol error.
ProtocolError(e) ==
    /\ \/ Arrives(e, "data") /\ ~Accepts(e, canReceiveData)
       \/ Arrives(e, "adjust") /\ ~Accepts(e, allowsRequests)
       \/ Arrives(e, "eof") /\ ~Accepts(e, canReceiveData)
       \/ Arrives(e, "close") /\ ~Accepts(e, allowsRequests \cup {"closing"})
    /\ Reject(e, "protocol")

HandleDisconnect(e) ==
    /\ Arrives(e, "disconnect")
    /\ Reject(e, "disconnected")

\* receiverLoop reads io.EOF: the peer has closed the connection.
ReceiveHangup(e) ==
    /\ Arrives(e, "hangup")
    /\ Reject(e, "peer closed")

-----------------------------------------------------------------------------
Next == \E e \in End :
    \/ SessionClose(e)
    \/ Send(e)
    \/ SendQueue(e)
    \/ SendRefused(e)
    \/ RecvFrame(e)
    \/ RecvAdjust(e)
    \/ RecvEOF(e)
    \/ CloseWrite(e)
    \/ CloseWriteQueue(e)
    \/ CloseWriteRefused(e)
    \/ Close(e)
    \/ CloseQueue(e)
    \/ QueueRefused(e)
    \/ CloseTimeout(e)
    \/ WriteControl(e)
    \/ WriteOutbound(e)
    \/ HandleChannelData(e)
    \/ HandleChannelWindowAdjust(e)
    \/ EnqueueChannelEOF(e)
    \/ ReceiveRefused(e)
    \/ EnqueueChannelClose(e)
    \/ EnqueueChannelCloseRefused(e)
    \/ EnqueueChannelCloseAck(e)
    \/ ProtocolError(e)
    \/ HandleDisconnect(e)
    \/ ReceiveHangup(e)

Spec == Init /\ [][Next]_vars

(***************************************************************************)
(* Fairness: the goroutines of the sessions run, and calls that are under  *)
(* way go on. The application is not obliged to call anything, nor does    *)
(* the close timer have to fire.                                           *)
(***************************************************************************)
Fairness == \A e \in End :
    /\ WF_vars(SendQueue(e) \/ SendRefused(e))
    /\ WF_vars(RecvAdjust(e) \/ CloseQueue(e) \/ QueueRefused(e))
    /\ WF_vars(CloseWriteQueue(e) \/ CloseWriteRefused(e))
    /\ WF_vars(WriteControl(e) \/ WriteOutbound(e))
    /\ WF_vars(\/ HandleChannelData(e) \/ HandleChannelWindowAdjust(e)
               \/ EnqueueChannelEOF(e) \/ ReceiveRefused(e) \/ EnqueueChannelClose(e)
               \/ EnqueueChannelCloseAck(e) \/ EnqueueChannelCloseRefused(e)
               \/ ProtocolError(e) \/ HandleDisconnect(e) \/ ReceiveHangup(e))

FairSpec == Spec /\ Fairness

-----------------------------------------------------------------------------
(* Properties.                                                             *)

Causes == {"up", "protocol", "disconnected", "local", "peer closed", "budget"}

\* Types of the variables; Send never takes credit that is not there.
TypeOK == \A e \in End :
    /\ state[e] \in States
    /\ inTable[e] \in BOOLEAN
    /\ remoteWindow[e] \in 0..Window
    /\ pending[e] \in 0..(Threshold - 1)
    /\ adjusting[e] \in 0..Threshold
    /\ frames[e] \in Seq(1..env.use.frames[Peer(e)])
    /\ sendPc[e] \in {"idle", "reserved", "queued"}
    /\ eofPc[e] \in {"idle", "open", "remoteEOF"}
    /\ closePc[e] \in {"idle", "queue", "timer"}
    /\ \A q \in {control[e], outbound[e], wire[e]} : \A i \in DOMAIN q :
          q[i].kind \in Kinds /\ q[i].n \in 0..(env.use.frames[e] + Threshold)
    /\ polled[e] \in BOOLEAN
    /\ session[e] \in Causes
    /\ sent[e] \in 0..env.use.frames[e] /\ promised[e] \in 0..sent[e]
    /\ gotEOF[e] \in BOOLEAN /\ closedHere[e] \in BOOLEAN

\* The reader of e has the first n frames of its peer, in order.
HasRead(e, n) == Len(read[e]) >= n /\ \A i \in 1..Len(read[e]) : read[e][i] = i

(***************************************************************************)
(* Recv returns io.EOF only to a reader that has every frame whose Send    *)
(* had returned when the peer called CloseWrite or Close: the priority of  *)
(* close envelopes, the removal of the channel and the shutdown of either  *)
(* session do not lose them. A reader whose own side called Close, or      *)
(* whose session ended because the peer hung up or a budget was used up,   *)
(* is not covered.                                                         *)
(***************************************************************************)
EOFIsTruthful == \A e \in End :
    gotEOF[e] /\ ~closedHere[e] /\ session[e] \notin {"peer closed", "budget"}
       => HasRead(e, promised[Peer(e)])

(***************************************************************************)
(* Once the peer's EOF has been handled, the channel takes no more data:   *)
(* the state diagram of the channel has no way back from remote_eof or     *)
(* both_eof to a state that receives.                                      *)
(***************************************************************************)
RemoteEOFIsFinal == [][\A e \in End :
    state[e] \in {"remoteEOF", "bothEOF"} => state'[e] \notin canReceiveData]_vars

(***************************************************************************)
(* A local Channel.Close ends the channel and not the session: "session    *)
(* still owns connection".                                                 *)
(***************************************************************************)
SessionSurvivesClose == \A e \in End : session[e] = "up"

(***************************************************************************)
(* A close that was asked for comes to an end at both endpoints without    *)
(* the help of the timer: the channel leaves both tables.                  *)
(***************************************************************************)
CloseCompletes == \A e \in End :
    closedHere[e] ~> ~inTable["a"] /\ ~inTable["b"]

\* No timer fires early, nobody leaves and no write is refused.
Undisturbed ==
    /\ ~env.use.timeouts /\ env.use.leavers = {} /\ env.use.refusals = 0

(***************************************************************************)
(* With confirmed closes and nothing to disturb them the sessions survive, *)
(* and when a closes each endpoint has read every frame the other has      *)
(* sent.                                                                   *)
(***************************************************************************)
ConfirmedCloseLosesNothing ==
    env.use.confirmed /\ Undisturbed =>
       /\ \A e \in End : session[e] = "up"
       /\ closedHere["a"] =>
             /\ HasRead("a", sent["b"]) /\ HasRead("b", sent["a"])
             /\ \A e \in End : sendPc[e] = "idle"
=============================================================================
