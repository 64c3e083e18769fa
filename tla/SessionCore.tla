---------------------------- MODULE SessionCore ----------------------------
(***************************************************************************)
(* One activated session (lib/session) with one open channel: its writer,  *)
(* receiver and dispatcher, the channel's worker, callers of               *)
(* SendGlobalRequest, SendRequest, Recv, Channel.Close and Session.Close,  *)
(* the queue budget they share, and the way from the first terminal cause  *)
(* through shutdown and finalize to the end of Wait.                       *)
(*                                                                         *)
(* The peer is honest and runs the same code, abstracted to the frames it  *)
(* sends: requests, data, an EOF, a close, an answer to each request it    *)
(* was sent, a disconnect, a hang-up. It answers when it likes or never,   *)
(* and its frames come in any order that its two write queues allow.       *)
(*                                                                         *)
(* Request ids come from a counter and are unique: a request of ours is    *)
(* named by its caller, one of the peer's by its number. The window and    *)
(* its adjustments are FlowControl's and ChannelPair's, the other channels *)
(* are ChannelTable's; here the adjustment threshold is out of reach.      *)
(***************************************************************************)
EXTENDS Integers, Sequences, FiniteSets, ByteSum

CONSTANTS
    GlobalCallers,               \* callers of SendGlobalRequest
    ChannelCallers,              \* callers of SendRequest
    MaxPendingGlobalRequests,    \* Limits
    MaxQueuedFramesTotal,
    MaxQueuedBytesTotal,
    MaxQueuedFramesPerChannel,
    MaxQueuedBytesPerChannel,
    Size,                        \* size of an envelope or an event, by kind
    Uses,                        \* what the two applications may do: a behaviour has one
    MaxIn                        \* bound: frames the peer's application sends

RequestKinds == {"globalRequest", "channelRequest"}
ResultKinds == {"globalResult", "channelResult"}
EventKinds == {"channelRequest", "eof", "close"}
Kinds == RequestKinds \cup ResultKinds \cup {"data", "eof", "close", "disconnect"}

Callers == GlobalCallers \cup ChannelCallers

\* What may happen besides requests: Channel.Close, Session.Close, the end of
\* the parent context, the failure of the connection.
Acts == {"channelClose", "sessionClose", "parentCancel", "break"}

ASSUME CoreAssumption ==
    /\ GlobalCallers \cap ChannelCallers = {}
    /\ {"none", "dispatcher", "worker"} \cap Callers = {}
    /\ MaxPendingGlobalRequests \in Nat \ {0}
    /\ MaxQueuedFramesTotal \in Nat \ {0} /\ MaxQueuedBytesTotal \in Nat \ {0}
    /\ MaxQueuedFramesPerChannel \in Nat \ {0} /\ MaxQueuedBytesPerChannel \in Nat \ {0}
    /\ Size \in [Kinds -> Nat \ {0}]
    /\ Uses \subseteq [calls : SUBSET Callers,
                        peer : SUBSET ((Kinds \ ResultKinds) \cup {"hangup"}),
                        acts : SUBSET Acts]
    /\ MaxIn \in Nat

VARIABLES
    down,            \* Session.shutdown and finalize: how far they are
    cause,           \* what shutdown was called with first
    parentDone,      \* the parent context is canceled
    queued,          \* queuedFrames and queuedBytes
    control,         \* controlQueue
    outbound,        \* outboundQueue
    dispatchQueue,
    queuesClosed,
    writer,          \* where writerLoop is, and with which write
    receiver,        \* where receiverLoop is
    dispatcher,      \* where dispatchLoop is, and with which request
    worker,          \* where Channel.loop is, and with which event
    ch,              \* the channel: the fields of Channel, and if Session.channels has it
    closer,          \* the call of Channel.Close
    call,            \* where each caller of a request is
    pendingGlobal,   \* callers in Session.pendingGlobal
    incomingGlobal,  \* Session.incomingGlobalRequests
    conn,            \* the connection: "open", "broken" or "closed" by finalize
    wire,            \* frames of the peer on their way
    env,             \* the peer: frames sent, how it ended the channel, requests it
                     \* owes, if it is gone; and the use of this behaviour
    hist             \* history, for the properties only

budgetVars == <<queued, control, outbound, dispatchQueue, queuesClosed>>
lifeVars == <<down, cause, parentDone>>
loopVars == <<writer, receiver, dispatcher, worker>>
callVars == <<call, pendingGlobal>>
vars == <<lifeVars, budgetVars, loopVars, ch, closer, callVars, incomingGlobal, conn,
          wire, env, hist>>

Idle == [at |-> "idle", id |-> 0, reply |-> FALSE]
Stopped == [Idle EXCEPT !.at = "stopped"]
None == "none"

\* An envelope, an event or a task. "waits" names the goroutine that waits
\* for the write's result, if one does.
Msg(kind, id, reply) == [kind |-> kind, id |-> id, reply |-> reply]
Write(kind, id, reply, waits) ==
    [kind |-> kind, id |-> id, reply |-> reply, waits |-> waits, canceled |-> FALSE]
NoWrite == Write("disconnect", 0, FALSE, None)

Init ==
    /\ down = "no" /\ cause = None /\ parentDone = FALSE
    /\ queued = [frames |-> 0, bytes |-> 0]
    /\ control = <<>> /\ outbound = <<>> /\ dispatchQueue = <<>>
    /\ queuesClosed = FALSE
    /\ writer = [at |-> "idle", msg |-> NoWrite]
    /\ receiver = "idle"
    /\ dispatcher = Idle
    /\ worker = [at |-> "starting", ev |-> Msg("eof", 0, FALSE)]
    /\ ch = [state |-> "open", inTable |-> TRUE, canceled |-> FALSE, frames |-> <<>>,
             events |-> <<>>, queued |-> [frames |-> 0, bytes |-> 0],
             pending |-> {}, incoming |-> {}]
    /\ closer = "idle"
    /\ call = [c \in Callers |-> [at |-> "idle", reply |-> FALSE]]
    /\ pendingGlobal = {}
    /\ incomingGlobal = {}
    /\ conn = "open"
    /\ wire = <<>>
    /\ env \in [sent : {0}, ended : {{}}, owes : {{}}, gone : {FALSE}, use : Uses]
    /\ hist = [closedHere |-> FALSE, gaveUp |-> {}, recvEnded |-> FALSE,
               onClose |-> FALSE, overtaken |-> FALSE, disconnect |-> None, timedOut |-> FALSE,
               withdrawn |-> {}, written |-> {}, broke |-> FALSE]

allowsRequests == {"open", "remoteEOF"}
readEOF == {"remoteEOF", "closing", "closed"}

\* Session.Context().Done() and Channel.Context().Done().
CtxDone == parentDone \/ down \notin {"no", "detached"}
ChDone == CtxDone \/ ch.canceled

-----------------------------------------------------------------------------
(* The queue budget.                                                       *)

\* reserveQueueBudget takes one frame of n bytes.
HasBudget(n) ==
    /\ 1 <= MaxQueuedFramesTotal - queued.frames
    /\ n <= MaxQueuedBytesTotal - queued.bytes

Plus(b, n) == [frames |-> b.frames + 1, bytes |-> b.bytes + n]

\* releaseQueueBudget, which stops at zero.
Minus(b, frames, bytes) ==
    [frames |-> IF frames > b.frames THEN 0 ELSE b.frames - frames,
     bytes |-> IF bytes > b.bytes THEN 0 ELSE b.bytes - bytes]

\* reserveQueuedLocked: the channel's own limits come first.
ChannelHasBudget(n) ==
    /\ 1 <= MaxQueuedFramesPerChannel - ch.queued.frames
    /\ n <= MaxQueuedBytesPerChannel - ch.queued.bytes
    /\ HasBudget(n)

Least(m, n) == IF m < n THEN m ELSE n

\* Mutant: a release after a discard gives the budget back twice.
MutReleaseQueued(n) == Minus(queued, 1, n)

\* releaseQueuedLocked: no more than the channel holds goes back.
ReleaseQueued(n) ==
    Minus(queued, Least(1, ch.queued.frames), Least(n, ch.queued.bytes))

\* discardQueuedLocked; the events stay in the queue of the worker.
DiscardQueued == Minus(queued, ch.queued.frames, ch.queued.bytes)

Nothing == [frames |-> 0, bytes |-> 0]

\* Why enqueueWrite would refuse a write, or None.
Refusal(kind) ==
    CASE ~HasBudget(Size[kind]) -> "limit"
      [] queuesClosed -> "closed"
      [] OTHER -> None

\* enqueueWrite takes the write. That the Go channel has room is what
\* QueuesHaveRoom says.
EnqueueControl(w) ==
    /\ control' = Append(control, w)
    /\ queued' = Plus(queued, Size[w.kind])
    /\ UNCHANGED <<outbound, dispatchQueue, queuesClosed>>

EnqueueOutbound(w) ==
    /\ outbound' = Append(outbound, w)
    /\ queued' = Plus(queued, Size[w.kind])
    /\ UNCHANGED <<control, dispatchQueue, queuesClosed>>

-----------------------------------------------------------------------------
(* Session.shutdown and finalize.                                          *)

\* lookupChannel finds the channel.
InTable == ch.inTable /\ down = "no"

\* removeChannel, in the next value of ch.
StaysInTable == ch.inTable /\ down # "no"

\* Mutant: shutdown does not record its cause.
MutBegin(err) ==
    \/ /\ down = "no"
       /\ down' = "detached"
       /\ pendingGlobal' = {}
       /\ incomingGlobal' = {}
       /\ UNCHANGED <<cause, parentDone>>
    \/ down # "no" /\ UNCHANGED <<lifeVars, pendingGlobal, incomingGlobal>>

\* The part of shutdown under Session.mu, for whoever comes first. It empties
\* Session.channels; ch.inTable then says that shutdown has the channel on
\* its list.
Begin(err) ==
    \/ /\ down = "no"
       /\ cause' = err
       /\ down' = "detached"
       /\ pendingGlobal' = {}
       /\ incomingGlobal' = {}
       /\ UNCHANGED parentDone
    \/ down # "no" /\ UNCHANGED <<lifeVars, pendingGlobal, incomingGlobal>>

\* A protocol error queues a disconnect, if the queue takes it; then the
\* session's context is canceled.
ShutdownCancel ==
    LET tell == cause = "protocol" /\ Refusal("disconnect") = None IN
    /\ down = "detached"
    /\ down' = "canceled"
    /\ IF tell THEN EnqueueControl(NoWrite) ELSE UNCHANGED budgetVars
    /\ hist' = [hist EXCEPT !.disconnect = IF tell THEN "queued" ELSE None]
    /\ UNCHANGED <<cause, parentDone, loopVars, ch, closer, callVars, incomingGlobal,
                   conn, wire, env>>

\* Channel.shutdown, the failing of the waiters and the closing of the two
\* write queues; finalize starts. Waiters see the context end as well.
ShutdownFinish ==
    /\ down = "canceled"
    /\ down' = "final"
    /\ queuesClosed' = TRUE
    /\ IF ch.inTable
       THEN /\ ch' = [ch EXCEPT !.inTable = FALSE, !.canceled = TRUE, !.frames = <<>>,
                                !.state = IF @ = "closed" THEN @ ELSE "failed",
                                !.queued = Nothing, !.pending = {}]
            /\ queued' = DiscardQueued
       ELSE UNCHANGED <<ch, queued>>
    /\ UNCHANGED <<cause, parentDone, control, outbound, dispatchQueue, loopVars, closer,
                   callVars, incomingGlobal, conn, wire, env, hist>>

\* Mutant: the connection is closed without waiting for the writer.
MutFinalizeClose ==
    /\ down = "final"
    /\ down' = "connClosed"
    /\ conn' = "closed"
    /\ UNCHANGED <<cause, parentDone, budgetVars, loopVars, ch, closer, callVars,
                   incomingGlobal, wire, env, hist>>

\* finalize closes the connection: at once, or after a protocol error when
\* the writer is done.
FinalizeClose ==
    /\ down = "final"
    /\ cause = "protocol" => writer.at = "stopped"
    /\ down' = "connClosed"
    /\ conn' = "closed"
    /\ UNCHANGED <<cause, parentDone, budgetVars, loopVars, ch, closer, callVars,
                   incomingGlobal, wire, env, hist>>

\* Mutant: finalize waits for the writer without a timer.
MutDisconnectTimeout == FALSE

\* DisconnectTimeout: the writer is not done in time.
DisconnectTimeout ==
    /\ down = "final"
    /\ cause = "protocol" /\ writer.at # "stopped"
    /\ down' = "connClosed"
    /\ conn' = "closed"
    /\ hist' = [hist EXCEPT !.timedOut = TRUE]
    /\ UNCHANGED <<cause, parentDone, budgetVars, loopVars, ch, closer, callVars,
                   incomingGlobal, wire, env>>

LoopsStopped ==
    /\ writer.at = "stopped" /\ receiver = "stopped"
    /\ dispatcher.at = "stopped" /\ worker.at = "stopped"

\* Every goroutine of the wait group has returned; Wait returns.
FinalizeDone ==
    /\ down = "connClosed"
    /\ LoopsStopped
    /\ down' = "done"
    /\ UNCHANGED <<cause, parentDone, budgetVars, loopVars, ch, closer, callVars,
                   incomingGlobal, conn, wire, env, hist>>

\* Session.Close.
SessionClose ==
    /\ down = "no" /\ "sessionClose" \in env.use.acts
    /\ Begin("canceled")
    /\ UNCHANGED <<budgetVars, loopVars, ch, closer, call, conn, wire, env, hist>>

\* The parent context ends: the session's context ends with it, and an
\* AfterFunc will call shutdown.
ParentCancel ==
    /\ down = "no" /\ ~parentDone /\ "parentCancel" \in env.use.acts
    /\ parentDone' = TRUE
    /\ UNCHANGED <<down, cause, budgetVars, loopVars, ch, closer, callVars,
                   incomingGlobal, conn, wire, env, hist>>

ParentShutdown ==
    /\ parentDone /\ down = "no"
    /\ Begin("parent")
    /\ UNCHANGED <<budgetVars, loopVars, ch, closer, call, conn, wire, env, hist>>

\* closeCause: the recorded error, or that of the parent.
CloseCause == IF cause # None THEN cause ELSE "parent"

-----------------------------------------------------------------------------
(* The writer.                                                             *)

\* An empty control queue: the writer waits on both queues.
WriterPoll ==
    /\ writer.at = "idle"
    /\ control = <<>>
    /\ writer' = [writer EXCEPT !.at = "waiting"]
    /\ UNCHANGED <<lifeVars, budgetVars, receiver, dispatcher, worker, ch, closer,
                   callVars, incomingGlobal, conn, wire, env, hist>>

\* Mutant: the writer does not look at the state of the write.
MutClaim(w) ==
    /\ writer' = [at |-> "sending", msg |-> w]

\* The writer takes a write: it sends it, or skips one that was canceled.
Claim(w) ==
    /\ writer' = IF w.canceled THEN [at |-> "idle", msg |-> NoWrite]
                               ELSE [at |-> "sending", msg |-> w]

WriterTakeControl ==
    /\ writer.at \in {"idle", "waiting"}
    /\ control # <<>>
    /\ Claim(Head(control))
    /\ control' = Tail(control)
    /\ queued' = Minus(queued, 1, Size[Head(control).kind])
    /\ UNCHANGED <<lifeVars, outbound, dispatchQueue, queuesClosed, receiver, dispatcher,
                   worker, ch, closer, callVars, incomingGlobal, conn, wire, env, hist>>

WriterTakeOutbound ==
    /\ writer.at = "waiting"
    /\ outbound # <<>>
    /\ Claim(Head(outbound))
    /\ outbound' = Tail(outbound)
    /\ queued' = Minus(queued, 1, Size[Head(outbound).kind])
    /\ UNCHANGED <<lifeVars, control, dispatchQueue, queuesClosed, receiver, dispatcher,
                   worker, ch, closer, callVars, incomingGlobal, conn, wire, env, hist>>

CallAt(c, place) == [call[c] EXCEPT !.at = place]

\* Mutant: the after function of a reply does not free its request id.
MutWritten(w) ==
    /\ call' = [c \in Callers |->
                  IF w.waits # c THEN call[c]
                  ELSE IF c \in pendingGlobal \cup ch.pending THEN CallAt(c, "waiting")
                  ELSE CallAt(c, "done")]
    /\ dispatcher' = IF w.waits = "dispatcher" THEN Idle ELSE dispatcher
    /\ worker' = IF w.waits = "worker" THEN [worker EXCEPT !.at = "idle"] ELSE worker
    /\ UNCHANGED ch

(***************************************************************************)
(* SendProto is done, and so are the write's after function and its        *)
(* result: a caller goes on to wait for its answer, if it still has a      *)
(* place among the pending; a request of the peer is finished.             *)
(***************************************************************************)
Written(w) ==
    /\ call' = [c \in Callers |->
                  IF w.waits # c THEN call[c]
                  ELSE IF c \in pendingGlobal \cup ch.pending THEN CallAt(c, "waiting")
                  ELSE CallAt(c, "done")]
    /\ dispatcher' = IF w.waits = "dispatcher" THEN Idle ELSE dispatcher
    /\ worker' = IF w.waits = "worker" THEN [worker EXCEPT !.at = "idle"] ELSE worker
    /\ ch' = IF w.kind = "channelResult" THEN [ch EXCEPT !.incoming = @ \ {w.id}] ELSE ch

WriterSend ==
    LET w == writer.msg IN
    /\ writer.at = "sending" /\ conn = "open"
    /\ writer' = [at |-> "idle", msg |-> NoWrite]
    /\ Written(w)
    /\ incomingGlobal' = IF w.kind = "globalResult" THEN incomingGlobal \ {w.id}
                                                    ELSE incomingGlobal
    /\ env' = IF w.kind \in RequestKinds /\ w.reply
               THEN [env EXCEPT !.owes = @ \cup {w.id}] ELSE env
    /\ hist' = [hist EXCEPT !.disconnect = IF w.kind = "disconnect" THEN "written" ELSE @,
                            !.written = IF w.waits \in Callers THEN @ \cup {w.waits} ELSE @]
    /\ UNCHANGED <<lifeVars, budgetVars, receiver, closer, pendingGlobal, conn, wire>>

\* SendProto fails: the writer ends the session and returns. A caller gives
\* its place back, the dispatcher and the worker return the error.
WriterFail ==
    LET w == writer.msg IN
    /\ writer.at = "sending" /\ conn # "open"
    /\ writer' = [at |-> "stopped", msg |-> NoWrite]
    /\ call' = [c \in Callers |-> IF w.waits = c THEN CallAt(c, "done") ELSE call[c]]
    /\ dispatcher' = IF w.waits = "dispatcher" THEN Stopped ELSE dispatcher
    /\ worker' = IF w.waits = "worker" THEN [worker EXCEPT !.at = "stopped"] ELSE worker
    /\ ch' = [ch EXCEPT !.incoming = IF w.kind = "channelResult" THEN @ \ {w.id} ELSE @,
                        !.pending = @ \ {w.waits}]
    /\ \/ down = "no" /\ Begin("write")
       \/ /\ down # "no"
          /\ pendingGlobal' = pendingGlobal \ {w.waits}
          /\ incomingGlobal' = incomingGlobal \ (IF w.kind = "globalResult" THEN {w.id} ELSE {})
          /\ UNCHANGED lifeVars
    /\ UNCHANGED <<budgetVars, receiver, closer, conn, wire, env, hist>>

\* Both queues are closed and empty.
WriterStop ==
    /\ writer.at \in {"idle", "waiting"}
    /\ queuesClosed /\ control = <<>> /\ outbound = <<>>
    /\ writer' = [at |-> "stopped", msg |-> NoWrite]
    /\ UNCHANGED <<lifeVars, budgetVars, receiver, dispatcher, worker, ch, closer,
                   callVars, incomingGlobal, conn, wire, env, hist>>

\* The caller who waits for a queued write wins the compare and swap.
Withdraw(who) ==
    [i \in DOMAIN outbound |->
        [outbound[i] EXCEPT !.canceled = @ \/ outbound[i].waits = who]]

-----------------------------------------------------------------------------
(* SendGlobalRequest and SendRequest.                                      *)

\* Mutant: the caller does not enter its waiter before it sends.
MutGlobalCall(c, reply) ==
    /\ call[c].at = "idle" /\ c \in env.use.calls
    /\ ~CtxDone
    /\ reply => Cardinality(pendingGlobal) < MaxPendingGlobalRequests
    /\ call' = [call EXCEPT ![c] = [at |-> "sending", reply |-> reply]]
    /\ UNCHANGED <<lifeVars, budgetVars, loopVars, ch, closer, pendingGlobal, incomingGlobal,
                   conn, wire, env, hist>>

\* The locked part. A caller that wants a reply takes a place.
GlobalCall(c, reply) ==
    /\ call[c].at = "idle" /\ c \in env.use.calls
    /\ ~CtxDone
    /\ reply => Cardinality(pendingGlobal) < MaxPendingGlobalRequests
    /\ pendingGlobal' = IF reply THEN pendingGlobal \cup {c} ELSE pendingGlobal
    /\ call' = [call EXCEPT ![c] = [at |-> "sending", reply |-> reply]]
    /\ UNCHANGED <<lifeVars, budgetVars, loopVars, ch, closer, incomingGlobal, conn, wire,
                   env, hist>>

\* The limits of pending channel requests are ChannelTable's.
ChannelCall(c, reply) ==
    /\ call[c].at = "idle" /\ c \in env.use.calls
    /\ ~ChDone /\ ch.state \in allowsRequests
    /\ ch' = [ch EXCEPT !.pending = IF reply THEN @ \cup {c} ELSE @]
    /\ call' = [call EXCEPT ![c] = [at |-> "sending", reply |-> reply]]
    /\ UNCHANGED <<lifeVars, budgetVars, loopVars, closer, pendingGlobal, incomingGlobal,
                   conn, wire, env, hist>>

\* removeGlobalWaiter and removePendingRequest; the call returns.
Leave(c) ==
    /\ call' = [call EXCEPT ![c] = CallAt(c, "done")]
    /\ pendingGlobal' = pendingGlobal \ {c}
    /\ ch' = [ch EXCEPT !.pending = @ \ {c}]

RequestKind(c) == IF c \in GlobalCallers THEN "globalRequest" ELSE "channelRequest"

\* sendEnvelope queues the request.
CallQueue(c) ==
    /\ call[c].at = "sending"
    /\ ~CtxDone /\ Refusal(RequestKind(c)) = None
    /\ EnqueueOutbound(Write(RequestKind(c), c, call[c].reply, c))
    /\ call' = [call EXCEPT ![c] = CallAt(c, "queued")]
    /\ UNCHANGED <<lifeVars, loopVars, ch, closer, pendingGlobal, incomingGlobal, conn,
                   wire, env, hist>>

\* The session is over, or the queue refuses: the call returns the error.
CallRefused(c) ==
    /\ call[c].at = "sending"
    /\ CtxDone \/ Refusal(RequestKind(c)) # None
    /\ Leave(c)
    /\ UNCHANGED <<lifeVars, budgetVars, loopVars, closer, incomingGlobal, conn, wire,
                   env, hist>>

\* Mutant: the caller releases the budget of a write the writer will skip.
MutCallWithdraw(c) ==
    /\ call[c].at = "queued"
    /\ \E i \in DOMAIN outbound : outbound[i].waits = c
    /\ outbound' = Withdraw(c)
    /\ Leave(c)
    /\ queued' = Minus(queued, 1, Size[RequestKind(c)])
    /\ hist' = [hist EXCEPT !.withdrawn = @ \cup {c}]
    /\ UNCHANGED <<lifeVars, control, dispatchQueue, queuesClosed, loopVars, closer,
                   incomingGlobal, conn, wire, env>>

\* Mutant: the caller does not watch the context of the session.
MutCallWithdrawDeaf(c) ==
    /\ call[c].at = "queued" /\ ~CtxDone
    /\ \E i \in DOMAIN outbound : outbound[i].waits = c
    /\ outbound' = Withdraw(c)
    /\ Leave(c)
    /\ hist' = [hist EXCEPT !.withdrawn = @ \cup {c}]
    /\ UNCHANGED <<lifeVars, queued, control, dispatchQueue, queuesClosed, loopVars, closer,
                   incomingGlobal, conn, wire, env>>

\* The caller's context or the session's ends before the writer claims the
\* write.
CallWithdraw(c) ==
    /\ call[c].at = "queued"
    /\ \E i \in DOMAIN outbound : outbound[i].waits = c
    /\ outbound' = Withdraw(c)
    /\ Leave(c)
    /\ hist' = [hist EXCEPT !.withdrawn = @ \cup {c}]
    /\ UNCHANGED <<lifeVars, queued, control, dispatchQueue, queuesClosed, loopVars, closer,
                   incomingGlobal, conn, wire, env>>

\* The caller's context, the session's or the channel's ends before the answer.
CallGiveUp(c) ==
    /\ call[c].at = "waiting"
    /\ Leave(c)
    /\ hist' = [hist EXCEPT !.gaveUp = @ \cup {c}]
    /\ UNCHANGED <<lifeVars, budgetVars, loopVars, closer, incomingGlobal, conn, wire,
                   env>>

-----------------------------------------------------------------------------
(* Recv and Close of the channel.                                          *)

\* failPendingRequestsLocked, for the callers: one that waits returns.
FailPending ==
    /\ call' = [c \in Callers |-> IF c \in ch.pending /\ call[c].at = "waiting"
                                  THEN CallAt(c, "done") ELSE call[c]]

Recv ==
    /\ ch.frames # <<>>
    /\ queued' = ReleaseQueued(Head(ch.frames))
    /\ ch' = [ch EXCEPT !.frames = Tail(@),
                        !.queued = Minus(@, 1, Head(ch.frames))]
    /\ UNCHANGED <<lifeVars, control, outbound, dispatchQueue, queuesClosed, loopVars,
                   closer, callVars, incomingGlobal, conn, wire, env, hist>>

\* Recv has drained a channel that the peer closed: it reports EOF and cancels
\* the channel's context.
RecvEnd ==
    /\ ch.frames = <<>> /\ ch.state = "closed" /\ ~ch.canceled
    /\ ch' = [ch EXCEPT !.canceled = TRUE]
    /\ hist' = [hist EXCEPT !.recvEnded = TRUE]
    /\ UNCHANGED <<lifeVars, budgetVars, loopVars, closer, callVars, incomingGlobal, conn,
                   wire, env>>

\* Mutant: Close drops the frames and keeps their budget.
MutChannelClose ==
    /\ ch.state \in allowsRequests /\ "channelClose" \in env.use.acts
    /\ ch' = [ch EXCEPT !.state = "closing", !.canceled = TRUE, !.frames = <<>>,
                        !.pending = {}]
    /\ FailPending
    /\ closer' = "queue"
    /\ hist' = [hist EXCEPT !.closedHere = TRUE, !.gaveUp = @ \cup ch.pending]
    /\ UNCHANGED <<lifeVars, budgetVars, loopVars, pendingGlobal, incomingGlobal, conn,
                   wire, env>>

\* The locked part of Close.
ChannelClose ==
    /\ ch.state \in allowsRequests /\ "channelClose" \in env.use.acts
    /\ queued' = DiscardQueued
    /\ ch' = [ch EXCEPT !.state = "closing", !.canceled = TRUE, !.frames = <<>>,
                        !.queued = Nothing, !.pending = {}]
    /\ FailPending
    /\ closer' = "queue"
    /\ hist' = [hist EXCEPT !.closedHere = TRUE, !.gaveUp = @ \cup ch.pending]
    /\ UNCHANGED <<lifeVars, control, outbound, dispatchQueue, queuesClosed, loopVars,
                   pendingGlobal, incomingGlobal, conn, wire, env>>

\* Close queues its envelope ahead of other writes; a refusal ends the session.
CloseQueue ==
    /\ closer = "queue"
    /\ \/ /\ Refusal("close") = None
          /\ EnqueueControl(Write("close", 0, FALSE, None))
          /\ closer' = "timer"
          /\ UNCHANGED <<lifeVars, pendingGlobal, incomingGlobal>>
       \/ /\ Refusal("close") # None
          /\ Begin(Refusal("close"))
          /\ closer' = "done"
          /\ UNCHANGED budgetVars
    /\ UNCHANGED <<loopVars, ch, call, conn, wire, env, hist>>

\* awaitCloseTimeout.
CloseTimeout ==
    /\ closer = "timer"
    /\ closer' = "done"
    /\ ch' = IF ch.state = "closing"
             THEN [ch EXCEPT !.state = "closed", !.inTable = StaysInTable] ELSE ch
    /\ UNCHANGED <<lifeVars, budgetVars, loopVars, callVars, incomingGlobal, conn, wire,
                   env, hist>>

-----------------------------------------------------------------------------
(* The dispatcher: global requests of the peer. Incoming opens go through  *)
(* the same queue (ChannelTable).                                          *)

DispatchTake ==
    /\ dispatcher.at = "idle" /\ dispatchQueue # <<>>
    /\ dispatcher' = [at |-> "handling", id |-> Head(dispatchQueue).id,
                      reply |-> Head(dispatchQueue).reply]
    /\ dispatchQueue' = Tail(dispatchQueue)
    /\ queued' = Minus(queued, 1, Size["globalRequest"])
    /\ UNCHANGED <<lifeVars, control, outbound, queuesClosed, writer, receiver, worker, ch,
                   closer, callVars, incomingGlobal, conn, wire, env, hist>>

\* OnGlobalRequest returns and no reply is wanted.
DispatchNoReply ==
    /\ dispatcher.at = "handling" /\ ~dispatcher.reply
    /\ dispatcher' = Idle
    /\ UNCHANGED <<lifeVars, budgetVars, writer, receiver, worker, ch, closer, callVars,
                   incomingGlobal, conn, wire, env, hist>>

\* OnGlobalRequest returns and the reply is queued.
DispatchReply ==
    /\ dispatcher.at = "handling" /\ dispatcher.reply
    /\ ~CtxDone /\ Refusal("globalResult") = None
    /\ EnqueueOutbound(Write("globalResult", dispatcher.id, FALSE, "dispatcher"))
    /\ dispatcher' = [dispatcher EXCEPT !.at = "queued"]
    /\ UNCHANGED <<lifeVars, writer, receiver, worker, ch, closer, callVars, incomingGlobal,
                   conn, wire, env, hist>>

\* handleGlobalRequest fails: the request is finished, the session ends.
DispatchFail(err) ==
    /\ dispatcher' = Stopped
    /\ \/ down = "no" /\ Begin(err)
       \/ /\ down # "no"
          /\ incomingGlobal' = incomingGlobal \ {dispatcher.id}
          /\ UNCHANGED <<lifeVars, pendingGlobal>>

\* The reply is refused, or the session is over.
DispatchRefused ==
    /\ dispatcher.at = "handling" /\ dispatcher.reply
    /\ CtxDone \/ Refusal("globalResult") # None
    /\ DispatchFail(IF CtxDone THEN CloseCause ELSE Refusal("globalResult"))
    /\ UNCHANGED <<budgetVars, writer, receiver, worker, ch, closer, call, conn, wire,
                   env, hist>>

\* The session's context ends while the reply is queued.
DispatchWithdraw ==
    /\ dispatcher.at = "queued" /\ CtxDone
    /\ \E i \in DOMAIN outbound : outbound[i].waits = "dispatcher"
    /\ outbound' = Withdraw("dispatcher")
    /\ DispatchFail(CloseCause)
    /\ UNCHANGED <<queued, control, dispatchQueue, queuesClosed, writer, receiver, worker,
                   ch, closer, call, conn, wire, env, hist>>

DispatchStop ==
    /\ dispatcher.at = "idle" /\ CtxDone
    /\ dispatcher' = Stopped
    /\ UNCHANGED <<lifeVars, budgetVars, writer, receiver, worker, ch, closer, callVars,
                   incomingGlobal, conn, wire, env, hist>>

-----------------------------------------------------------------------------
(* The channel's worker.                                                   *)

WorkerAt(place) == [worker EXCEPT !.at = place]

\* OnOpen has returned; a channel that ended before the worker started gets
\* none.
WorkerStart ==
    /\ worker.at = "starting"
    /\ worker' = WorkerAt(IF ChDone THEN "stopped" ELSE "idle")
    /\ UNCHANGED <<lifeVars, budgetVars, writer, receiver, dispatcher, ch, closer, callVars,
                   incomingGlobal, conn, wire, env, hist>>

\* The worker takes an event, also after the channel's context has ended.
WorkerTake ==
    /\ worker.at = "idle" /\ ch.events # <<>>
    /\ worker' = [at |-> "handling", ev |-> Head(ch.events)]
    /\ queued' = ReleaseQueued(Size[Head(ch.events).kind])
    /\ ch' = [ch EXCEPT !.events = Tail(@),
                        !.queued = Minus(@, 1, Size[Head(ch.events).kind])]
    /\ UNCHANGED <<lifeVars, control, outbound, dispatchQueue, queuesClosed, writer,
                   receiver, dispatcher, closer, callVars, incomingGlobal, conn, wire, env,
                   hist>>

WorkerStop ==
    /\ worker.at = "idle" /\ ChDone
    /\ worker' = WorkerAt("stopped")
    /\ UNCHANGED <<lifeVars, budgetVars, writer, receiver, dispatcher, ch, closer, callVars,
                   incomingGlobal, conn, wire, env, hist>>

\* OnEOF returns, or OnRequest of a request that wants no reply.
WorkerHandled ==
    /\ worker.at = "handling"
    /\ worker.ev.kind = "eof" \/ (worker.ev.kind = "channelRequest" /\ ~worker.ev.reply)
    /\ worker' = WorkerAt("idle")
    /\ UNCHANGED <<lifeVars, budgetVars, writer, receiver, dispatcher, ch, closer, callVars,
                   incomingGlobal, conn, wire, env, hist>>

\* handleRemoteClose; unread frames leave the context to Recv.
WorkerClose ==
    /\ worker.at = "handling" /\ worker.ev.kind = "close"
    /\ worker' = WorkerAt("idle")
    /\ FailPending
    /\ ch' = [ch EXCEPT !.pending = {}, !.canceled = @ \/ ch.frames = <<>>]
    /\ hist' = [hist EXCEPT !.onClose = TRUE, !.gaveUp = @ \cup ch.pending]
    /\ UNCHANGED <<lifeVars, budgetVars, writer, receiver, dispatcher, closer, pendingGlobal,
                   incomingGlobal, conn, wire, env>>

\* OnRequest returns and the reply is queued.
WorkerReply ==
    /\ worker.at = "handling" /\ worker.ev.kind = "channelRequest" /\ worker.ev.reply
    /\ ~CtxDone /\ Refusal("channelResult") = None
    /\ EnqueueOutbound(Write("channelResult", worker.ev.id, FALSE, "worker"))
    /\ worker' = WorkerAt("queued")
    /\ UNCHANGED <<lifeVars, writer, receiver, dispatcher, ch, closer, callVars,
                   incomingGlobal, conn, wire, env, hist>>

\* handleRequest fails: the request is finished, the session ends.
WorkerFail(err) ==
    /\ worker' = WorkerAt("stopped")
    /\ ch' = [ch EXCEPT !.incoming = @ \ {worker.ev.id}]
    /\ Begin(err)

WorkerRefused ==
    /\ worker.at = "handling" /\ worker.ev.kind = "channelRequest" /\ worker.ev.reply
    /\ CtxDone \/ Refusal("channelResult") # None
    /\ WorkerFail(IF CtxDone THEN CloseCause ELSE Refusal("channelResult"))
    /\ UNCHANGED <<budgetVars, writer, receiver, dispatcher, closer, call, conn, wire, env,
                   hist>>

\* The channel's context ends while the reply is queued; a local Close does
\* that, and the error of the reply then ends the session.
WorkerWithdraw ==
    /\ worker.at = "queued" /\ ChDone
    /\ \E i \in DOMAIN outbound : outbound[i].waits = "worker"
    /\ outbound' = Withdraw("worker")
    /\ WorkerFail(IF CtxDone THEN CloseCause ELSE "reply")
    /\ UNCHANGED <<queued, control, dispatchQueue, queuesClosed, writer, receiver,
                   dispatcher, closer, call, conn, wire, env, hist>>

-----------------------------------------------------------------------------
(* The peer and the connection.                                            *)

\* A channel sends its EOF once and its close once.
MayPeerSend(kind) == kind \notin env.ended

(***************************************************************************)
(* The frame comes after one that the channel had meant to be later: a     *)
(* close goes through the control queue and is written before data, an     *)
(* EOF, requests and replies that were queued first; data whose Send had   *)
(* passed the check of the state is queued after the EOF of a CloseWrite.  *)
(***************************************************************************)
Overtaken(kind) ==
    \/ "close" \in env.ended /\ kind \in {"data", "eof", "channelRequest", "channelResult"}
    \/ "eof" \in env.ended /\ kind = "data"

PeerSend(kind, reply) ==
    /\ conn = "open" /\ ~env.gone
    /\ env.sent < MaxIn \/ kind = "close"
    /\ MayPeerSend(kind)
    /\ wire' = Append(wire, Msg(kind, env.sent + 1, reply /\ kind \in RequestKinds))
    /\ env' = [env EXCEPT !.sent = @ + 1,
                          !.ended = @ \cup ({kind} \cap {"eof", "close"}),
                          !.gone = kind \in {"disconnect", "hangup"}]
    /\ hist' = [hist EXCEPT !.overtaken = @ \/ Overtaken(kind)]
    /\ UNCHANGED <<lifeVars, budgetVars, loopVars, ch, closer, callVars, incomingGlobal,
                   conn>>

\* The answer to a request of ours, with success or with a rejection.
PeerAnswer(c) ==
    LET kind == IF c \in GlobalCallers THEN "globalResult" ELSE "channelResult" IN
    /\ conn = "open" /\ ~env.gone
    /\ c \in env.owes
    /\ wire' = Append(wire, Msg(kind, c, FALSE))
    /\ env' = [env EXCEPT !.owes = @ \ {c}]
    /\ hist' = [hist EXCEPT !.overtaken = @ \/ Overtaken(kind)]
    /\ UNCHANGED <<lifeVars, budgetVars, loopVars, ch, closer, callVars, incomingGlobal,
                   conn>>

\* The connection breaks: reads and writes fail from now on.
Break ==
    /\ conn = "open" /\ "break" \in env.use.acts
    /\ conn' = "broken"
    /\ hist' = [hist EXCEPT !.broke = TRUE]
    /\ UNCHANGED <<lifeVars, budgetVars, loopVars, ch, closer, callVars, incomingGlobal,
                   wire, env>>

-----------------------------------------------------------------------------
(* The receiver.                                                           *)

\* ReceiveProto returns the next frame.
Receives(kind) ==
    /\ receiver = "idle" /\ conn = "open"
    /\ wire # <<>> /\ Head(wire).kind = kind
    /\ wire' = Tail(wire)
    /\ UNCHANGED <<writer, dispatcher, worker, closer, conn, env>>

\* routeEnvelope fails: the session ends and the receiver returns.
RouteFails(err) ==
    /\ Begin(err)
    /\ receiver' = "stopped"
    /\ UNCHANGED call

RouteDone == UNCHANGED <<lifeVars, receiver>>

\* The request goes to the dispatcher; at the limit it is rejected through
\* the control queue; one that wants no reply then ends the session.
ReceiveGlobalRequest ==
    LET m == Head(wire)
        fits == HasBudget(Size["globalRequest"])
        rejects == m.reply /\ Refusal("globalResult") = None IN
    /\ Receives("globalRequest")
    /\ \/ /\ fits
          /\ dispatchQueue' = Append(dispatchQueue, m)
          /\ queued' = Plus(queued, Size["globalRequest"])
          /\ UNCHANGED <<control, outbound, queuesClosed>>
       \/ /\ ~fits /\ rejects
          /\ EnqueueControl(Write("globalResult", m.id, FALSE, None))
       \/ ~fits /\ ~rejects /\ UNCHANGED budgetVars
    /\ \/ /\ fits \/ rejects
          /\ incomingGlobal' = IF m.reply THEN incomingGlobal \cup {m.id} ELSE incomingGlobal
          /\ RouteDone /\ UNCHANGED callVars
       \/ ~fits /\ ~rejects /\ RouteFails("limit")
    /\ UNCHANGED <<ch, hist>>

\* The answer goes to its caller; without one it is a protocol error.
ReceiveGlobalResult ==
    LET c == Head(wire).id IN
    /\ Receives("globalResult")
    /\ \/ /\ c \in pendingGlobal
          /\ pendingGlobal' = pendingGlobal \ {c}
          /\ call' = [call EXCEPT ![c] = CallAt(c, "done")]
          /\ RouteDone /\ UNCHANGED incomingGlobal
       \/ c \notin pendingGlobal /\ RouteFails("protocol")
    /\ UNCHANGED <<budgetVars, ch, hist>>

ReceiveChannelResult ==
    LET c == Head(wire).id IN
    /\ Receives("channelResult")
    /\ \/ /\ InTable /\ c \in ch.pending
          /\ ch' = [ch EXCEPT !.pending = @ \ {c}]
          /\ call' = [call EXCEPT ![c] = CallAt(c, "done")]
          /\ RouteDone /\ UNCHANGED <<pendingGlobal, incomingGlobal>>
       \/ /\ ~InTable \/ c \notin ch.pending
          /\ RouteFails("protocol") /\ UNCHANGED ch
    /\ UNCHANGED <<budgetVars, hist>>

\* reserveQueuedLocked and the event queue, in the next value of ch.
TakesEvent(m, c) ==
    [c EXCEPT !.events = Append(@, m), !.queued = Plus(@, Size[m.kind])]

ReserveEvent(m) ==
    /\ queued' = Plus(queued, Size[m.kind])
    /\ UNCHANGED <<control, outbound, dispatchQueue, queuesClosed>>

\* The request goes to the worker, or is rejected as a global one is.
ReceiveChannelRequest ==
    LET m == Head(wire)
        legal == InTable /\ ch.state \in allowsRequests
        fits == ChannelHasBudget(Size["channelRequest"])
        rejects == m.reply /\ Refusal("channelResult") = None
        mine == IF m.reply THEN [ch EXCEPT !.incoming = @ \cup {m.id}] ELSE ch IN
    /\ Receives("channelRequest")
    /\ \/ /\ legal /\ fits
          /\ ch' = TakesEvent(m, mine)
          /\ ReserveEvent(m)
          /\ RouteDone /\ UNCHANGED <<callVars, incomingGlobal>>
       \/ /\ legal /\ ~fits /\ rejects
          /\ ch' = mine
          /\ EnqueueControl(Write("channelResult", m.id, FALSE, None))
          /\ RouteDone /\ UNCHANGED <<callVars, incomingGlobal>>
       \/ /\ ~legal \/ (~fits /\ ~rejects)
          /\ RouteFails(IF legal THEN "limit" ELSE "protocol")
          /\ UNCHANGED <<ch, budgetVars>>
    /\ UNCHANGED hist

ReceiveData ==
    LET legal == InTable /\ ch.state = "open"
        fits == ChannelHasBudget(Size["data"]) IN
    /\ Receives("data")
    /\ \/ /\ legal /\ fits
          /\ ch' = [ch EXCEPT !.frames = Append(@, Size["data"]),
                              !.queued = Plus(@, Size["data"])]
          /\ ReserveEvent(Head(wire))
          /\ RouteDone /\ UNCHANGED <<callVars, incomingGlobal>>
       \/ /\ ~legal \/ ~fits
          /\ RouteFails(IF legal THEN "limit" ELSE "protocol")
          /\ UNCHANGED <<ch, budgetVars>>
    /\ UNCHANGED hist

\* enqueueChannelEOF; the state has changed when the budget is asked.
ReceiveChannelEOF ==
    LET legal == InTable /\ ch.state = "open"
        fits == ChannelHasBudget(Size["eof"])
        ended == [ch EXCEPT !.state = "remoteEOF"] IN
    /\ Receives("eof")
    /\ \/ /\ legal /\ fits
          /\ ch' = TakesEvent(Head(wire), ended)
          /\ ReserveEvent(Head(wire))
          /\ RouteDone /\ UNCHANGED <<callVars, incomingGlobal>>
       \/ /\ ~legal \/ ~fits
          /\ RouteFails(IF legal THEN "limit" ELSE "protocol")
          /\ ch' = IF legal THEN ended ELSE ch
          /\ UNCHANGED budgetVars
    /\ UNCHANGED hist

\* The peer's close answers ours.
ReceiveCloseAnswer ==
    /\ Receives("close")
    /\ InTable /\ ch.state = "closing"
    /\ ch' = [ch EXCEPT !.state = "closed", !.inTable = FALSE]
    /\ RouteDone
    /\ UNCHANGED <<budgetVars, callVars, incomingGlobal, hist>>

\* The peer closes: the event is queued for the worker, the answer for the
\* writer, and the channel leaves the table.
ReceiveChannelClose ==
    LET legal == InTable /\ ch.state \in allowsRequests
        fits == ChannelHasBudget(Size["close"])
        closed == [ch EXCEPT !.state = "closed"]
        held == Plus(queued, Size["close"])
        answers == /\ ~queuesClosed
                   /\ held.frames < MaxQueuedFramesTotal
                   /\ Size["close"] <= MaxQueuedBytesTotal - held.bytes IN
    /\ Receives("close")
    /\ ~(InTable /\ ch.state = "closing")
    /\ \/ /\ legal /\ fits /\ answers
          /\ ch' = [TakesEvent(Head(wire), closed) EXCEPT !.inTable = FALSE]
          /\ control' = Append(control, Write("close", 0, FALSE, None))
          /\ queued' = Plus(held, Size["close"])
          /\ RouteDone /\ UNCHANGED <<outbound, dispatchQueue, queuesClosed, callVars, incomingGlobal>>
       \/ /\ legal /\ fits /\ ~answers
          /\ ch' = TakesEvent(Head(wire), closed)
          /\ ReserveEvent(Head(wire))
          /\ RouteFails("limit")
       \/ /\ ~legal \/ ~fits
          /\ ch' = IF legal THEN closed ELSE ch
          /\ RouteFails(IF legal THEN "limit" ELSE "protocol")
          /\ UNCHANGED budgetVars
    /\ UNCHANGED hist

\* handleDisconnect, and io.EOF.
ReceiveEnd ==
    /\ \/ Receives("disconnect") /\ RouteFails("remote")
       \/ Receives("hangup") /\ RouteFails("eof")
    /\ UNCHANGED <<budgetVars, ch, hist>>

\* ReceiveProto fails.
ReceiveFails ==
    /\ receiver = "idle" /\ conn # "open"
    /\ RouteFails(IF CtxDone THEN CloseCause ELSE "receive")
    /\ UNCHANGED <<budgetVars, writer, dispatcher, worker, ch, closer, conn, wire, env, hist>>

-----------------------------------------------------------------------------
ShutdownNext ==
    \/ ShutdownCancel \/ ShutdownFinish \/ FinalizeClose \/ DisconnectTimeout
    \/ FinalizeDone \/ SessionClose \/ ParentCancel \/ ParentShutdown

WriterNext ==
    \/ WriterPoll \/ WriterTakeControl \/ WriterTakeOutbound \/ WriterSend \/ WriterFail
    \/ WriterStop

CallNext ==
    \/ \E c \in GlobalCallers, reply \in BOOLEAN : GlobalCall(c, reply)
    \/ \E c \in ChannelCallers, reply \in BOOLEAN : ChannelCall(c, reply)
    \/ \E c \in Callers :
          CallQueue(c) \/ CallRefused(c) \/ CallWithdraw(c) \/ CallGiveUp(c)

ChannelNext == Recv \/ RecvEnd \/ ChannelClose \/ CloseQueue \/ CloseTimeout

DispatchNext ==
    \/ DispatchTake \/ DispatchNoReply \/ DispatchReply \/ DispatchRefused
    \/ DispatchWithdraw \/ DispatchStop

WorkerNext ==
    \/ WorkerStart \/ WorkerTake \/ WorkerStop \/ WorkerHandled \/ WorkerClose
    \/ WorkerReply \/ WorkerRefused \/ WorkerWithdraw

PeerNext ==
    \/ \E kind \in env.use.peer, reply \in BOOLEAN : PeerSend(kind, reply)
    \/ \E c \in Callers : PeerAnswer(c)
    \/ Break

ReceiverNext ==
    \/ ReceiveGlobalRequest \/ ReceiveGlobalResult \/ ReceiveChannelResult
    \/ ReceiveChannelRequest \/ ReceiveData \/ ReceiveChannelEOF \/ ReceiveCloseAnswer
    \/ ReceiveChannelClose \/ ReceiveEnd \/ ReceiveFails

Next ==
    \/ ShutdownNext \/ WriterNext \/ CallNext \/ ChannelNext \/ DispatchNext \/ WorkerNext
    \/ PeerNext \/ ReceiverNext

Spec == Init /\ [][Next]_vars

(***************************************************************************)
(* Goroutines that wait for nobody run; handlers return; the timer of      *)
(* finalize fires. A write that the peer does not read may block for ever: *)
(* only its failure, once the connection is closed, is certain.            *)
(***************************************************************************)
WriterRuns ==
    \/ WriterPoll \/ WriterTakeControl \/ WriterTakeOutbound \/ WriterFail \/ WriterStop

CallEnds(c) ==
    CallQueue(c) \/ CallRefused(c) \/ (CtxDone /\ (CallWithdraw(c) \/ CallGiveUp(c)))

Fairness ==
    /\ WF_vars(ShutdownCancel \/ ShutdownFinish \/ FinalizeClose \/ DisconnectTimeout
               \/ FinalizeDone \/ ParentShutdown)
    /\ WF_vars(WriterRuns)
    /\ WF_vars(DispatchNext)
    /\ WF_vars(WorkerNext)
    /\ WF_vars(ReceiveFails)
    /\ \A c \in Callers : WF_vars(CallEnds(c))

FairSpec == Spec /\ Fairness

-----------------------------------------------------------------------------
(* Properties.                                                             *)

Budgets == [frames : Nat, bytes : Nat]
Writes == [kind : Kinds, id : Callers \cup Nat, reply : BOOLEAN,
           waits : Callers \cup {None, "dispatcher", "worker"}, canceled : BOOLEAN]
Msgs == [kind : Kinds \cup {"hangup"}, id : Callers \cup Nat, reply : BOOLEAN]
Causes == {None, "canceled", "parent", "protocol", "limit", "closed", "reply", "write",
           "receive", "remote", "eof"}
CallPlaces == {"idle", "sending", "queued", "waiting", "done"}
LoopPlaces == {"starting", "idle", "waiting", "sending", "handling", "queued", "stopped"}

\* The fields of Session and Channel keep their types (lib/session).
TypeOK ==
    /\ down \in {"no", "detached", "canceled", "final", "connClosed", "done"}
    /\ cause \in Causes /\ (cause = None <=> down = "no")
    /\ parentDone \in BOOLEAN /\ queuesClosed \in BOOLEAN
    /\ queued \in Budgets
    /\ control \in Seq(Writes) /\ outbound \in Seq(Writes) /\ dispatchQueue \in Seq(Msgs)
    /\ writer \in [at : LoopPlaces, msg : Writes]
    /\ receiver \in {"idle", "stopped"}
    /\ dispatcher \in [at : LoopPlaces, id : Nat, reply : BOOLEAN]
    /\ worker \in [at : LoopPlaces, ev : Msgs]
    /\ ch \in [state : {"open", "remoteEOF", "closing", "closed", "failed"},
               inTable : BOOLEAN, canceled : BOOLEAN, frames : Seq(Nat),
               events : Seq(Msgs), queued : Budgets, pending : SUBSET ChannelCallers,
               incoming : SUBSET Nat]
    /\ closer \in {"idle", "queue", "timer", "done"}
    /\ call \in [Callers -> [at : CallPlaces, reply : BOOLEAN]]
    /\ pendingGlobal \subseteq GlobalCallers /\ incomingGlobal \subseteq Nat
    /\ conn \in {"open", "broken", "closed"}
    /\ wire \in Seq(Msgs)

\* The bytes of a sequence of writes, tasks or events.
BytesOf(q) == Total([i \in DOMAIN q |-> Size[q[i].kind]])

\* The channel holds what it has queued, or nothing once it was discarded.
ChannelHolds(frames, bytes) ==
    \/ ch.queued = [frames |-> frames, bytes |-> bytes]
    \/ ch.queued = Nothing /\ ch.canceled /\ ch.state \notin allowsRequests

(***************************************************************************)
(* The budget of the session is what its four queues and the channel hold, *)
(* no more and no less, through cancellation, discards and shutdown: a     *)
(* frame released twice would let the queues outgrow the limits, one never *)
(* released would shrink the session's budget for good (reserve- and       *)
(* releaseQueueBudget, whose stop at zero is then never needed).           *)
(***************************************************************************)
BudgetAccounted ==
    /\ queued.frames = Len(control) + Len(outbound) + Len(dispatchQueue) + ch.queued.frames
    /\ queued.bytes = BytesOf(control) + BytesOf(outbound) + BytesOf(dispatchQueue)
                      + ch.queued.bytes
    /\ queued.frames <= MaxQueuedFramesTotal /\ queued.bytes <= MaxQueuedBytesTotal
    /\ ChannelHolds(Len(ch.frames) + Len(ch.events),
                    Total(ch.frames) + BytesOf(ch.events))

(***************************************************************************)
(* A goroutine that got budget for a frame finds room in the Go channel it *)
(* puts the frame in: the "queue exhausted" branches of enqueueWrite,      *)
(* enqueueDispatch and the enqueueChannel functions, which end the session *)
(* or reject a request, are never taken.                                   *)
(***************************************************************************)
QueuesHaveRoom ==
    /\ queued.frames < MaxQueuedFramesTotal =>
          /\ Len(control) < MaxQueuedFramesTotal
          /\ Len(outbound) < MaxQueuedFramesTotal
          /\ Len(dispatchQueue) < MaxQueuedFramesTotal
    /\ ch.queued.frames < MaxQueuedFramesPerChannel /\ ch.state \in allowsRequests =>
          Len(ch.events) < MaxQueuedFramesPerChannel

(***************************************************************************)
(* Between honest peers the session is ended by protocol errors and failed *)
(* replies only for these reasons: a caller gave up a request whose answer *)
(* was still to come, the channel was closed here while the peer was using *)
(* it, the peer's own close or EOF overtook another of its frames on the   *)
(* channel, or Recv reported the peer's close while the worker was still   *)
(* replying to a request (handleGlobalResult, handleChannelResult,         *)
(* enqueueChannelData, enqueueChannelEOF, enqueueChannelRequest,           *)
(* handleRequest).                                                         *)
(***************************************************************************)
EndHasReason ==
    /\ cause = "protocol" => hist.gaveUp # {} \/ hist.closedHere \/ hist.overtaken
    /\ cause = "reply" => hist.closedHere \/ hist.recvEnded

(***************************************************************************)
(* When finalize has closed the connection after a protocol error, the     *)
(* disconnect that shutdown queued has been written, unless the writer was *)
(* too slow or the connection broke first: the peer learns why.            *)
(***************************************************************************)
DisconnectDelivered ==
    /\ cause = "protocol" /\ down \in {"connClosed", "done"}
    /\ ~hist.timedOut /\ writer.at = "stopped"
    /\ hist.disconnect # None
    => hist.disconnect = "written" \/ hist.broke

\* A request whose caller took it back from the queue is never written: the
\* peer does not act on what the caller was told was not sent.
WithdrawnNeverWritten == hist.withdrawn \cap hist.written = {}

(***************************************************************************)
(* In a live session the ids of the peer's requests are remembered exactly *)
(* while the request is queued, handled or its answer is unwritten: an id  *)
(* freed early would let two requests of one id in, one kept would refuse  *)
(* the id for good (finishIncomingGlobal, finishIncomingRequest).          *)
(***************************************************************************)
IdsOf(q, kind) == {q[i].id : i \in {j \in DOMAIN q : q[j].kind = kind}}
Asking(q) == {q[i].id : i \in {j \in DOMAIN q : q[j].kind \in RequestKinds /\ q[j].reply}}
Handled(busy, id) == IF busy THEN {id} ELSE {}
BeingWritten(kind) ==
    Handled(writer.at = "sending" /\ writer.msg.kind = kind, writer.msg.id)

IncomingAccounted ==
    down = "no" =>
       /\ incomingGlobal = Asking(dispatchQueue)
             \cup Handled(dispatcher.at \in {"handling", "queued"} /\ dispatcher.reply,
                          dispatcher.id)
             \cup IdsOf(control, "globalResult") \cup BeingWritten("globalResult")
       /\ ch.incoming = Asking(ch.events)
             \cup Handled(worker.at \in {"handling", "queued"} /\ worker.ev.reply,
                          worker.ev.id)
             \cup IdsOf(control, "channelResult") \cup BeingWritten("channelResult")

(***************************************************************************)
(* A channel that has left a live session, and whose worker has ended,     *)
(* holds budget only for frames that Recv has still to return, and OnClose *)
(* was called if the peer closed it. The exception is a Recv that reports  *)
(* the end before the worker has taken the close: it cancels the channel's *)
(* context, the worker may leave, and what its queue holds is never given  *)
(* back (Channel.loop, Recv).                                              *)
(***************************************************************************)
EndedChannelHoldsNothing ==
    down = "no" /\ ~parentDone /\ ~ch.inTable /\ worker.at = "stopped" =>
       \/ hist.recvEnded
       \/ /\ ch.queued.frames = Len(ch.frames)
          /\ hist.onClose \/ hist.closedHere

\* Whatever ends the session, shutdown and finalize come to an end and Wait
\* returns, even if the writer is blocked on a peer that does not read.
WaitReturns == (down # "no" \/ parentDone) ~> down = "done"

\* Nobody waits for an answer or a write past the end of the session.
CallsReturn ==
    \A c \in Callers : (call[c].at # "idle" /\ CtxDone) ~> call[c].at = "done"
=============================================================================
