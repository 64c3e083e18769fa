---------------------------- MODULE FlowControl ----------------------------
(***************************************************************************)
(* Credit-based flow control of one direction of one open channel          *)
(* (lib/session): callers of Channel.Send at the sending endpoint, the     *)
(* outbound queue its writer drains, the ordered wire, the receiver loop   *)
(* and the one caller of Channel.Recv at the receiving endpoint, and the   *)
(* window adjustments that travel back.                                    *)
(*                                                                         *)
(* Send takes credit under Channel.mu, releases the lock, and only then    *)
(* queues the frame; a caller whose context ends may still cancel a queued *)
(* write and give its credit back. Each of these is a step of its own.     *)
(* The channel stays open here (ChannelPair models EOF and close); frames  *)
(* are their sizes.                                                        *)
(***************************************************************************)
EXTENDS Integers, Sequences, ByteSum

CONSTANTS
    Senders,                    \* goroutines that call Channel.Send
    FrameSizes,                 \* frame sizes they use
    InitialWindow,              \* Config of the receiving endpoint, as
    MaxPacketSize,              \*   ChannelOpen or ChannelOpenAccept
    WindowAdjustThreshold,      \*   told it to the sender
    MaxQueuedFramesPerChannel,
    MaxQueuedBytesPerChannel,
    MaxUint32,                  \* 2^32 - 1 in the code
    MaxSends                    \* bound: number of Send calls of a behaviour

(***************************************************************************)
(* What Config.Validate accepts, as far as this module uses it.            *)
(***************************************************************************)
ASSUME ConfigAssumption ==
    /\ IsFiniteSet(Senders)
    /\ InitialWindow \in Nat \ {0}
    /\ MaxPacketSize \in 1..InitialWindow
    /\ WindowAdjustThreshold \in 1..InitialWindow
    /\ MaxQueuedFramesPerChannel \in Nat \ {0}
    /\ MaxQueuedBytesPerChannel \in Nat /\ MaxPacketSize <= MaxQueuedBytesPerChannel
    /\ MaxUint32 \in Nat /\ InitialWindow < MaxUint32
    /\ FrameSizes \subseteq 1..MaxPacketSize
    /\ MaxSends \in Nat

(***************************************************************************)
(* What Validate does not ask for, the defaults satisfy, and NoWedge       *)
(* needs: a full frame fits in the window when less than the threshold is  *)
(* withheld. Nothing is assumed of the queue limits: by default a channel  *)
(* grants 262144 bytes and queues 256 frames.                              *)
(***************************************************************************)
ASSUME SizingAssumption == MaxPacketSize + WindowAdjustThreshold - 1 <= InitialWindow

VARIABLES
    remoteWindow,        \* sender: Channel.remoteWindow
    pc,                  \* sender: where each Send call is
    size,                \* sender: the frame of each Send call
    outbound,            \* sender: Session.outboundQueue, data writes only
    started,             \* sender: Send calls so far (bounded by MaxSends)
    wire,                \* data frames written and not yet received
    frames,              \* receiver: Channel.frames
    localWindow,         \* receiver: Channel.localWindow
    pendingWindowBytes,  \* receiver: Channel.pendingWindowBytes
    adjusting,           \* receiver: the adjustment Recv is about to send, or 0
    adjustWire,          \* adjustments written and not yet received
    failure              \* why a session was shut down, or "none"

senderVars == <<remoteWindow, pc, size, outbound, started>>
receiverVars == <<frames, localWindow, pendingWindowBytes, adjusting>>
vars == <<senderVars, wire, receiverVars, adjustWire, failure>>

PCs == {"idle", "waiting", "retry", "reserved", "queued", "canceled"}

\* "packet", "window" and "overflow" are protocol errors; "limit" is a frame
\* beyond the channel's queue limits, "shared" one for which what else uses
\* the budget left no room, "adjust" an adjustment that could not be queued.
Failures == {"none", "packet", "window", "overflow", "limit", "shared", "adjust"}

\* outboundWrite.state while the write is in the queue.
WriteStates == {"queued", "canceled"}

Write == [sender : Senders, size : FrameSizes, state : WriteStates]

\* Unsigned 32-bit arithmetic of the window counters.
Uint32(n) == n % (MaxUint32 + 1)

Init ==
    /\ remoteWindow = InitialWindow
    /\ pc = [p \in Senders |-> "idle"]
    /\ size = [p \in Senders |-> 0]
    /\ outbound = <<>>
    /\ started = 0
    /\ wire = <<>>
    /\ frames = <<>>
    /\ localWindow = InitialWindow
    /\ pendingWindowBytes = 0
    /\ adjusting = 0
    /\ adjustWire = <<>>
    /\ failure = "none"

-----------------------------------------------------------------------------
(* Sending endpoint.                                                       *)

\* No session was shut down; a failure ends everything on the channel.
Up == failure = "none"

\* What the callers of Send and their writer leave alone.
farVars == <<receiverVars, adjustWire, failure>>

\* signalLocked: closing stateCh wakes every Send that waits for credit.
Wake(f) == [p \in Senders |-> IF f[p] = "waiting" THEN "retry" ELSE f[p]]

MutTakeWindow(p, n) ==
    /\ remoteWindow' = remoteWindow - n
    /\ pc' = [pc EXCEPT ![p] = "reserved"]

\* The locked part of Send: take credit for the frame, or wait on stateCh.
TakeWindow(p, n) ==
    \/ /\ n <= remoteWindow
       /\ remoteWindow' = remoteWindow - n
       /\ pc' = [pc EXCEPT ![p] = "reserved"]
    \/ /\ n > remoteWindow
       /\ pc' = [pc EXCEPT ![p] = "waiting"]
       /\ UNCHANGED remoteWindow

Send(p, n) ==
    /\ Up
    /\ pc[p] = "idle"
    /\ started < MaxSends
    /\ started' = started + 1
    /\ size' = [size EXCEPT ![p] = n]
    /\ TakeWindow(p, n)
    /\ UNCHANGED <<outbound, wire, farVars>>

Retry(p) ==
    /\ Up
    /\ pc[p] = "retry"
    /\ TakeWindow(p, size[p])
    /\ UNCHANGED <<size, outbound, started, wire, farVars>>

\* ctx.Done while waiting for credit: Send returns the context's error.
AbandonWait(p) ==
    /\ Up
    /\ pc[p] \in {"waiting", "retry"}
    /\ pc' = [pc EXCEPT ![p] = "idle"]
    /\ UNCHANGED <<remoteWindow, size, outbound, started, wire, farVars>>

\* enqueueWrite, after Channel.mu was released.
Enqueue(p) ==
    /\ Up
    /\ pc[p] = "reserved"
    /\ outbound' = Append(outbound, [sender |-> p, size |-> size[p], state |-> "queued"])
    /\ pc' = [pc EXCEPT ![p] = "queued"]
    /\ UNCHANGED <<remoteWindow, size, started, wire, farVars>>

\* enqueueWrite fails (the budget shared with other traffic is used up).
EnqueueRefused(p) ==
    /\ Up
    /\ pc[p] = "reserved"
    /\ pc' = [pc EXCEPT ![p] = "canceled"]
    /\ UNCHANGED <<remoteWindow, size, outbound, started, wire, farVars>>

\* ctx.Done while the write is queued: the caller wins the CAS from
\* writeQueued to writeCanceled. The write stays in the queue.
Cancel(p) ==
    /\ Up
    /\ pc[p] = "queued"
    /\ \E i \in DOMAIN outbound :
          /\ outbound[i].sender = p
          /\ outbound[i].state = "queued"
          /\ outbound' = [outbound EXCEPT ![i].state = "canceled"]
    /\ pc' = [pc EXCEPT ![p] = "canceled"]
    /\ UNCHANGED <<remoteWindow, size, started, wire, farVars>>

MutRefund(p) ==
    /\ Up
    /\ pc[p] = "canceled"
    /\ pc' = [pc EXCEPT ![p] = "idle"]
    /\ UNCHANGED <<remoteWindow, size, outbound, started, wire, farVars>>

\* The error path of Send gives the credit back and wakes the waiters.
Refund(p) ==
    /\ Up
    /\ pc[p] = "canceled"
    /\ \/ /\ MaxUint32 - remoteWindow >= size[p]
          /\ remoteWindow' = remoteWindow + size[p]
          /\ pc' = Wake([pc EXCEPT ![p] = "idle"])
       \/ /\ MaxUint32 - remoteWindow < size[p]
          /\ pc' = [pc EXCEPT ![p] = "idle"]
          /\ UNCHANGED remoteWindow
    /\ UNCHANGED <<size, outbound, started, wire, farVars>>

\* A session that is down ends its Send calls: one that waits sees the context
\* of the channel end, one whose write is queued takes it back (the CAS on
\* s.Context().Done), any other is refused.
SendFails(p) ==
    /\ ~Up
    /\ pc[p] # "idle"
    /\ pc' = [pc EXCEPT ![p] = "idle"]
    /\ outbound' = [i \in DOMAIN outbound |->
                      IF outbound[i].sender = p
                      THEN [outbound[i] EXCEPT !.state = "canceled"] ELSE outbound[i]]
    /\ UNCHANGED <<remoteWindow, size, started, wire, farVars>>

\* writerLoop: a canceled write is skipped; a live one is claimed (once
\* claimed it cannot be canceled), put on the wire, and its Send returns.
WriterStep ==
    /\ Up
    /\ outbound # <<>>
    /\ outbound' = Tail(outbound)
    /\ \/ /\ Head(outbound).state = "canceled"
          /\ UNCHANGED <<pc, wire>>
       \/ /\ Head(outbound).state = "queued"
          /\ wire' = Append(wire, Head(outbound).size)
          /\ pc' = [pc EXCEPT ![Head(outbound).sender] = "idle"]
    /\ UNCHANGED <<remoteWindow, size, started, farVars>>

MutHandleWindowAdjust ==
    /\ Up
    /\ adjustWire # <<>>
    /\ adjustWire' = Tail(adjustWire)
    /\ \/ /\ MaxUint32 - remoteWindow < Head(adjustWire)
          /\ failure' = "overflow"
          /\ UNCHANGED <<remoteWindow, pc>>
       \/ /\ MaxUint32 - remoteWindow >= Head(adjustWire)
          /\ remoteWindow' = remoteWindow + Head(adjustWire)
          /\ UNCHANGED <<pc, failure>>
    /\ UNCHANGED <<size, outbound, started, wire, receiverVars>>

HandleWindowAdjust ==
    /\ Up
    /\ adjustWire # <<>>
    /\ adjustWire' = Tail(adjustWire)
    /\ \/ /\ MaxUint32 - remoteWindow < Head(adjustWire)
          /\ failure' = "overflow"
          /\ UNCHANGED <<remoteWindow, pc>>
       \/ /\ MaxUint32 - remoteWindow >= Head(adjustWire)
          /\ remoteWindow' = remoteWindow + Head(adjustWire)
          /\ pc' = Wake(pc)
          /\ UNCHANGED failure
    /\ UNCHANGED <<size, outbound, started, wire, receiverVars>>

-----------------------------------------------------------------------------
(* Receiving endpoint.                                                     *)

\* What handleChannelData may make of a frame of n bytes, in its order. The
\* frames of this direction are not alone in the budget: events of the channel
\* count against its limits and all traffic of the session against the totals
\* (reserveQueueBudget), so a frame that fits may be refused all the same.
DataOutcomes(n) ==
    IF n > MaxPacketSize THEN {"packet"}
    ELSE IF n > localWindow THEN {"window"}
    ELSE IF \/ Len(frames) + 1 > MaxQueuedFramesPerChannel
            \/ Total(frames) + n > MaxQueuedBytesPerChannel THEN {"limit"}
    ELSE {"none", "shared"}

HandleChannelData ==
    /\ Up
    /\ wire # <<>>
    /\ wire' = Tail(wire)
    /\ failure' \in DataOutcomes(Head(wire))
    /\ \/ /\ failure' # "none"
          /\ UNCHANGED <<frames, localWindow>>
       \/ /\ failure' = "none"
          /\ frames' = Append(frames, Head(wire))
          /\ localWindow' = localWindow - Head(wire)
    /\ UNCHANGED <<senderVars, pendingWindowBytes, adjusting, adjustWire>>

MutNoReset(pending) ==
    /\ pendingWindowBytes' = pending
    /\ adjusting' = IF pending >= WindowAdjustThreshold THEN pending ELSE 0

MutStrictThreshold(pending) ==
    LET due == pending > WindowAdjustThreshold IN
    /\ pendingWindowBytes' = IF due THEN 0 ELSE pending
    /\ adjusting' = IF due THEN pending ELSE 0

\* Recv hands back the credit it has collected once it reaches the threshold.
CollectCredit(pending) ==
    LET due == pending >= WindowAdjustThreshold IN
    /\ pendingWindowBytes' = IF due THEN 0 ELSE pending
    /\ adjusting' = IF due THEN pending ELSE 0

\* The locked part of Recv; it then sends the adjustment, if one is due,
\* before it returns the frame.
Recv ==
    /\ Up
    /\ adjusting = 0
    /\ frames # <<>>
    /\ frames' = Tail(frames)
    /\ localWindow' = Uint32(localWindow + Head(frames))
    /\ CollectCredit(Uint32(pendingWindowBytes + Head(frames)))
    /\ UNCHANGED <<senderVars, wire, adjustWire, failure>>

\* The adjustment is sent, or it is refused (the shared budget is used up) and
\* Recv shuts the session down.
SendWindowAdjust ==
    /\ Up
    /\ adjusting > 0
    /\ adjusting' = 0
    /\ \/ /\ adjustWire' = Append(adjustWire, adjusting)
          /\ UNCHANGED failure
       \/ /\ failure' = "adjust"
          /\ UNCHANGED adjustWire
    /\ UNCHANGED <<senderVars, wire, frames, localWindow, pendingWindowBytes>>

-----------------------------------------------------------------------------
Next ==
    \/ \E p \in Senders, n \in FrameSizes : Send(p, n)
    \/ \E p \in Senders :
          \/ Retry(p)
          \/ AbandonWait(p)
          \/ Enqueue(p)
          \/ EnqueueRefused(p)
          \/ Cancel(p)
          \/ Refund(p)
          \/ SendFails(p)
    \/ WriterStep
    \/ HandleWindowAdjust
    \/ HandleChannelData
    \/ Recv
    \/ SendWindowAdjust

Spec == Init /\ [][Next]_vars

(***************************************************************************)
(* Fairness: the goroutines of both sessions run, a Send that is not       *)
(* blocked goes on, and the application keeps calling Recv, which the      *)
(* receive loops of lib/command and app/client/command do. No caller is    *)
(* obliged to Send or to cancel.                                           *)
(***************************************************************************)
Fairness ==
    /\ \A p \in Senders :
          /\ WF_vars(Retry(p))
          /\ WF_vars(Enqueue(p) \/ EnqueueRefused(p))
          /\ WF_vars(Refund(p))
          /\ WF_vars(SendFails(p))
    /\ WF_vars(WriterStep)
    /\ WF_vars(HandleWindowAdjust)
    /\ WF_vars(HandleChannelData)
    /\ WF_vars(Recv)
    /\ WF_vars(SendWindowAdjust)

FairSpec == Spec /\ Fairness

-----------------------------------------------------------------------------
(* Properties.                                                             *)

\* Types of the variables; the windows are within what the receiver granted.
TypeOK ==
    /\ remoteWindow \in 0..MaxUint32
    /\ pc \in [Senders -> PCs]
    /\ size \in [Senders -> 0..MaxPacketSize]
    /\ outbound \in Seq(Write)
    /\ started \in 0..MaxSends
    /\ wire \in Seq(FrameSizes)
    /\ frames \in Seq(FrameSizes)
    /\ localWindow \in 0..MaxUint32
    /\ pendingWindowBytes \in 0..MaxUint32
    /\ adjusting \in 0..MaxUint32
    /\ adjustWire \in Seq(1..MaxUint32)
    /\ failure \in Failures

\* The credit each Send call has taken and neither spent nor given back.
Held == [p \in Senders |-> IF pc[p] \in {"reserved", "queued", "canceled"}
                           THEN size[p] ELSE 0]

(***************************************************************************)
(* No byte of credit is lost or made up by concurrent Sends, cancellations *)
(* and batched adjustments: the window of Send, the credit Send calls      *)
(* hold, the bytes on the wire and in the receive queue, and the credit    *)
(* on its way back always add up to the window that was granted; and the   *)
(* receiver's own count is what it has not queued.                         *)
(***************************************************************************)
WindowConservation ==
    failure = "none" =>
       /\ remoteWindow + Total(Held) + Total(wire) + Total(frames)
             + pendingWindowBytes + adjusting + Total(adjustWire) = InitialWindow
       /\ localWindow + Total(frames) = InitialWindow

(***************************************************************************)
(* Two endpoints that run this code never accuse each other of a protocol  *)
(* error: whatever is canceled, refunded and adjusted, and whatever the    *)
(* queue limits, no frame exceeds the packet size or the window of its     *)
(* receiver (handleChannelData) and no adjustment overflows the sender's   *)
(* window (handleChannelWindowAdjust).                                     *)
(***************************************************************************)
NoProtocolError == failure \notin {"packet", "window", "overflow"}

(***************************************************************************)
(* A sender that keeps to the window it was granted is slowed down by a    *)
(* slow reader and not cut off: no frame within the window exceeds the     *)
(* queue limits of its channel. FLOW.md gives flow control and queue       *)
(* bounds to the session; handleChannelData ends it instead when the       *)
(* window admits more frames than the channel queues.                      *)
(***************************************************************************)
WindowFitsQueue == failure # "limit"

(***************************************************************************)
(* Flow control cannot wedge: when everything sent has been read and every *)
(* adjustment due has arrived, a frame of the largest size fits, although  *)
(* Recv withholds credit below the threshold.                              *)
(***************************************************************************)
Drained ==
    /\ \A p \in Senders : pc[p] \in {"idle", "waiting", "retry"}
    /\ wire = <<>> /\ frames = <<>> /\ adjusting = 0 /\ adjustWire = <<>>

NoWedge == failure = "none" /\ Drained => remoteWindow >= MaxPacketSize

(***************************************************************************)
(* Of finitely many Send calls each one returns, whatever the others do    *)
(* and cancel and whether or not a session ends meanwhile: Channel.Send    *)
(* has no other way out when its context never ends.                       *)
(***************************************************************************)
EverySendReturns == \A p \in Senders : pc[p] # "idle" ~> pc[p] = "idle"

-----------------------------------------------------------------------------
(* The inductive invariant of FlowControl_proofs.                          *)

\* A Send that is under way has a frame of a legal size.
SizesOK == \A p \in Senders : pc[p] # "idle" => size[p] \in FrameSizes

\* A live write in the queue is the one write of a Send call that waits for it.
QueueAgrees ==
    /\ \A i \in DOMAIN outbound : outbound[i].state = "queued" =>
          /\ pc[outbound[i].sender] = "queued"
          /\ size[outbound[i].sender] = outbound[i].size
    /\ \A i, j \in DOMAIN outbound :
          /\ outbound[i].state = "queued" /\ outbound[j].state = "queued"
          /\ outbound[i].sender = outbound[j].sender
          => i = j

\* Recv never keeps back a threshold of credit.
PendingBelowThreshold == pendingWindowBytes < WindowAdjustThreshold

IInv ==
    /\ TypeOK
    /\ SizesOK
    /\ QueueAgrees
    /\ PendingBelowThreshold
    /\ WindowConservation
=============================================================================
