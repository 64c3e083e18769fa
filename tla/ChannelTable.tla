---------------------------- MODULE ChannelTable ----------------------------
(***************************************************************************)
(* The channel table of one session (lib/session): the maps and counters   *)
(* that Session.mu guards, worked on by the receiver, the dispatcher, the  *)
(* callers of OpenChannel, Close and SendRequest, close timers, channel    *)
(* workers and Session.shutdown. Between two sections under a lock, of the *)
(* session or of a channel, anyone else may take a step: an operation with *)
(* several sections takes a step for each, nested ones counting as one.    *)
(* Channel.shutdown is left out where the channel is failed or closed, has *)
(* no waiter and no request: there it changes nothing kept here.           *)
(*                                                                         *)
(* The peer is any peer: it may name channel ids it was never told. What   *)
(* the code answers with a protocol error ends in Session.shutdown, which  *)
(* is possible in every state. The half-close states count as "open" here  *)
(* (ChannelPair tells them apart), and requests are counted, their ids     *)
(* being unique.                                                           *)
(***************************************************************************)
EXTENDS Integers, Sequences, FiniteSets, ByteSum

CONSTANTS
    PeerIds,                              \* channel ids of the peer
    MaxChannels,                          \* Limits
    MaxPendingOpens,
    MaxPendingChannelRequests,
    MaxPendingChannelRequestsPerChannel,
    MaxIds                                \* bound: local ids ever reserved

ASSUME LimitsAssumption ==
    /\ MaxChannels \in Nat \ {0}
    /\ MaxPendingOpens \in Nat \ {0}
    /\ MaxPendingChannelRequests \in Nat \ {0}
    /\ MaxPendingChannelRequestsPerChannel \in Nat \ {0}
    /\ MaxIds \in Nat

Ids == 0..(MaxIds - 1)
NoId == -1

VARIABLES
    nextLocalChannelID,
    channels,                \* ids in Session.channels
    slot,                    \* Channel.slot
    state,                   \* Channel.state
    openWait,                \* Channel.openWait is set
    opener,                  \* the call of OpenChannel that made the channel
    peerChannelIDs,          \* Session.peerChannelIDs, NoId where it has no entry
    pendingOpens,
    activeChannels,
    pendingRequests,         \* Len(Channel.pendingRequests)
    releasing,               \* waiters removed and releasePendingChannelRequest to come
    pendingChannelRequests,
    dispatchQueue,           \* incoming opens, by peer id
    dispatcher,              \* where dispatchLoop is, and with which channel
    receiver,                \* where receiverLoop is, and with which channel
    removing,                \* ended channels whose caller or timer is to remove them
    down,                    \* Session.shutdown: "no", "detached" or "canceled"
    toFail,                  \* channels Session.shutdown is to shut down
    told,                    \* ids the peer has been told
    excused,                 \* an id was guessed, or closed and timed out while pending
    internalError            \* an operation found the table in a state it must not be in

tableVars == <<channels, slot, peerChannelIDs, pendingOpens, activeChannels>>
requestVars == <<pendingRequests, releasing, pendingChannelRequests>>
dispatchVars == <<dispatchQueue, dispatcher>>
downVars == <<down, toFail>>
peerVars == <<told, excused>>
vars == <<nextLocalChannelID, tableVars, state, openWait, opener, requestVars,
          dispatchVars, receiver, removing, downVars, peerVars, internalError>>

Slots == {"none", "pending", "active"}
States == {"none", "opening", "open", "closing", "closed", "failed"}
Openers == {"none", "checked", "sending", "failing", "waiting", "answered", "done"}
ReceiverPlaces == {"idle", "found", "activate", "answer", "rejected", "closed", "refused",
                   "dropped", "stopped"}
DispatcherPlaces == {"idle", "handler", "activate", "send", "rejecting", "failing", "stopped"}

Idle == [at |-> "idle", ch |-> NoId]
Stopped == [at |-> "stopped", ch |-> NoId]
At(place, i) == [at |-> place, ch |-> i]

Init ==
    /\ nextLocalChannelID = 0
    /\ channels = {}
    /\ slot = [i \in Ids |-> "none"]
    /\ state = [i \in Ids |-> "none"]
    /\ openWait = [i \in Ids |-> FALSE]
    /\ opener = [i \in Ids |-> "none"]
    /\ peerChannelIDs = [p \in PeerIds |-> NoId]
    /\ pendingOpens = 0
    /\ activeChannels = 0
    /\ pendingRequests = [i \in Ids |-> 0]
    /\ releasing = 0
    /\ pendingChannelRequests = 0
    /\ dispatchQueue = <<>>
    /\ dispatcher = Idle
    /\ receiver = Idle
    /\ removing = {}
    /\ down = "no"
    /\ toFail = {}
    /\ told = {}
    /\ excused = FALSE
    /\ internalError = FALSE

-----------------------------------------------------------------------------
(* Operations under Session.mu.                                            *)

AtLimit ==
    \/ pendingOpens >= MaxPendingOpens
    \/ activeChannels + pendingOpens >= MaxChannels

\* addPendingChannel, once it has let the channel in.
AddPending(i) ==
    /\ channels' = channels \cup {i}
    /\ slot' = [slot EXCEPT ![i] = "pending"]
    /\ pendingOpens' = pendingOpens + 1
    /\ UNCHANGED activeChannels

MutLess(n) == n - 1

\* A counter that does not go below zero.
Less(n) == IF n > 0 THEN n - 1 ELSE 0

MutRemove(i) ==
    /\ channels' = channels \ {i}
    /\ slot' = [slot EXCEPT ![i] = "none"]
    /\ peerChannelIDs' = [p \in PeerIds |-> IF peerChannelIDs[p] = i THEN NoId
                                            ELSE peerChannelIDs[p]]
    /\ pendingOpens' = IF slot[i] = "active" THEN pendingOpens ELSE Less(pendingOpens)
    /\ activeChannels' = IF slot[i] = "active" THEN Less(activeChannels) ELSE activeChannels

MutRemoveKeepsPeer(i) ==
    \/ /\ i \in channels
       /\ channels' = channels \ {i}
       /\ slot' = [slot EXCEPT ![i] = "none"]
       /\ pendingOpens' = IF slot[i] = "pending" THEN Less(pendingOpens) ELSE pendingOpens
       /\ activeChannels' = IF slot[i] = "active" THEN Less(activeChannels)
                            ELSE activeChannels
       /\ UNCHANGED peerChannelIDs
    \/ i \notin channels /\ UNCHANGED tableVars

\* removeChannel; it does nothing to a channel that is not in the table.
Remove(i) ==
    \/ /\ i \in channels
       /\ channels' = channels \ {i}
       /\ slot' = [slot EXCEPT ![i] = "none"]
       /\ peerChannelIDs' = [p \in PeerIds |-> IF peerChannelIDs[p] = i THEN NoId
                                               ELSE peerChannelIDs[p]]
       /\ pendingOpens' = IF slot[i] = "pending" THEN Less(pendingOpens) ELSE pendingOpens
       /\ activeChannels' = IF slot[i] = "active" THEN Less(activeChannels)
                            ELSE activeChannels
    \/ i \notin channels /\ UNCHANGED tableVars

\* activateChannel, when it succeeds.
CanActivate(i) == slot[i] = "pending" /\ pendingOpens > 0

Activate(i) ==
    /\ CanActivate(i)
    /\ slot' = [slot EXCEPT ![i] = "active"]
    /\ pendingOpens' = pendingOpens - 1
    /\ activeChannels' = activeChannels + 1

\* An error no peer is to blame for, unless Session.shutdown is to.
InternalError == internalError' = (internalError \/ down = "no")

-----------------------------------------------------------------------------
(* Operations under Channel.mu.                                            *)

MutFailRequests(i) ==
    /\ pendingRequests' = [pendingRequests EXCEPT ![i] = 0]
    /\ UNCHANGED <<releasing, pendingChannelRequests>>

\* failPendingRequestsLocked: every waiter is told; the releases follow.
FailRequests(i) ==
    /\ releasing' = releasing + pendingRequests[i]
    /\ pendingRequests' = [pendingRequests EXCEPT ![i] = 0]
    /\ UNCHANGED pendingChannelRequests

\* Channel.shutdown.
ShutdownChannel(i) ==
    /\ state' = [state EXCEPT ![i] = IF @ = "closed" THEN @ ELSE "failed"]
    /\ FailRequests(i)
    /\ openWait' = [openWait EXCEPT ![i] = FALSE]

\* The application has the channel: OpenChannel returned it, or its worker runs.
Held(i) == i \in told /\ receiver # At("activate", i)

-----------------------------------------------------------------------------
(* OpenChannel.                                                            *)

\* ensureActive and reserveLocalChannelID.
OpenChannel(i) ==
    /\ i = nextLocalChannelID
    /\ down # "canceled"
    /\ nextLocalChannelID' = i + 1
    /\ opener' = [opener EXCEPT ![i] = "checked"]
    /\ UNCHANGED <<tableVars, state, openWait, requestVars, dispatchVars, receiver,
                   removing, downVars, peerVars, internalError>>

\* addPendingChannel. The session may have been shut down since ensureActive.
OpenAdd(i) ==
    /\ opener[i] = "checked"
    /\ \/ /\ ~AtLimit
          /\ AddPending(i)
          /\ state' = [state EXCEPT ![i] = "opening"]
          /\ openWait' = [openWait EXCEPT ![i] = TRUE]
          /\ opener' = [opener EXCEPT ![i] = "sending"]
       \/ /\ AtLimit
          /\ opener' = [opener EXCEPT ![i] = "done"]
          /\ UNCHANGED <<channels, slot, pendingOpens, activeChannels, state, openWait>>
    /\ UNCHANGED <<nextLocalChannelID, peerChannelIDs, requestVars, dispatchVars, receiver,
                   removing, downVars, peerVars, internalError>>

\* The writer has written the open.
OpenSent(i) ==
    /\ opener[i] = "sending"
    /\ opener' = [opener EXCEPT ![i] = "waiting"]
    /\ told' = told \cup {i}
    /\ UNCHANGED <<nextLocalChannelID, tableVars, state, openWait, requestVars,
                   dispatchVars, receiver, removing, downVars, excused, internalError>>

\* The context ends, the queue budget is used up or the session is down.
OpenSendFails(i) ==
    /\ opener[i] = "sending"
    /\ opener' = [opener EXCEPT ![i] = "failing"]
    /\ Remove(i)
    /\ UNCHANGED <<nextLocalChannelID, state, openWait, requestVars, dispatchVars, receiver,
                   removing, downVars, peerVars, internalError>>

\* The Channel.shutdown that follows. Until then the receiver, which may have
\* looked the channel up before it left the table, finds it opening.
OpenFailed(i) ==
    /\ opener[i] = "failing"
    /\ opener' = [opener EXCEPT ![i] = "done"]
    /\ ShutdownChannel(i)
    /\ UNCHANGED <<nextLocalChannelID, tableVars, dispatchVars, receiver, removing, downVars,
                   peerVars, internalError>>

\* waitCh has the answer of the peer, or that of Channel.shutdown.
OpenReturns(i) ==
    /\ opener[i] = "answered"
    /\ opener' = [opener EXCEPT ![i] = "done"]
    /\ UNCHANGED <<nextLocalChannelID, tableVars, state, openWait, requestVars,
                   dispatchVars, receiver, removing, downVars, peerVars, internalError>>

MutOpenAbandoned(i) ==
    /\ down = "no"
    /\ opener[i] \in {"waiting", "answered"}
    /\ opener' = [opener EXCEPT ![i] = "done"]
    /\ state[i] = "opening"
    /\ state' = [state EXCEPT ![i] = "failed"]
    /\ openWait' = [openWait EXCEPT ![i] = FALSE]
    /\ removing' = removing \cup {i}
    /\ UNCHANGED <<nextLocalChannelID, tableVars, requestVars, dispatchVars, receiver,
                   downVars, peerVars, internalError>>

\* abandonOpen: the context of the caller or of the session has ended.
OpenAbandoned(i) ==
    /\ opener[i] \in {"waiting", "answered"}
    /\ opener' = [opener EXCEPT ![i] = "done"]
    /\ \/ /\ state[i] = "opening"
          /\ state' = [state EXCEPT ![i] = "failed"]
          /\ openWait' = [openWait EXCEPT ![i] = FALSE]
          /\ removing' = removing \cup {i}
          /\ UNCHANGED requestVars
       \/ /\ state[i] = "open"
          /\ state' = [state EXCEPT ![i] = "closing"]
          /\ FailRequests(i)
          /\ UNCHANGED <<openWait, removing>>
       \/ /\ state[i] \notin {"opening", "open"}
          /\ UNCHANGED <<state, requestVars, openWait, removing>>
    /\ UNCHANGED <<nextLocalChannelID, tableVars, dispatchVars, receiver, downVars, peerVars,
                   internalError>>

-----------------------------------------------------------------------------
(* Close, its timer, and the removal both end with.                        *)

\* Channel.Close.
Close(i) ==
    /\ Held(i)
    /\ state[i] = "open"
    /\ state' = [state EXCEPT ![i] = "closing"]
    /\ FailRequests(i)
    /\ UNCHANGED <<nextLocalChannelID, tableVars, openWait, opener, dispatchVars, receiver,
                   removing, downVars, peerVars, internalError>>

MutCloseTimeout(i) ==
    /\ down # "canceled"
    /\ state[i] = "closing"
    /\ state' = [state EXCEPT ![i] = "closed"]
    /\ UNCHANGED <<nextLocalChannelID, tableVars, openWait, opener, requestVars,
                   dispatchVars, receiver, removing, downVars, peerVars, internalError>>

\* awaitCloseTimeout. The receiver may not have activated the channel yet.
CloseTimeout(i) ==
    /\ down # "canceled"
    /\ state[i] = "closing"
    /\ state' = [state EXCEPT ![i] = "closed"]
    /\ removing' = removing \cup {i}
    /\ excused' = (excused \/ slot[i] = "pending")
    /\ UNCHANGED <<nextLocalChannelID, tableVars, openWait, opener, requestVars,
                   dispatchVars, receiver, downVars, told, internalError>>

\* removeChannel, called by the timer or by abandonOpen.
RemoveChannel(i) ==
    /\ i \in removing
    /\ removing' = removing \ {i}
    /\ Remove(i)
    /\ UNCHANGED <<nextLocalChannelID, state, openWait, opener, requestVars, dispatchVars,
                   receiver, downVars, peerVars, internalError>>

-----------------------------------------------------------------------------
(* Requests.                                                               *)

\* SendRequest that wants a reply, below the limits.
SendRequest(i) ==
    /\ Held(i)
    /\ state[i] = "open"
    /\ down # "canceled"
    /\ pendingRequests[i] < MaxPendingChannelRequestsPerChannel
    /\ pendingChannelRequests < MaxPendingChannelRequests
    /\ pendingRequests' = [pendingRequests EXCEPT ![i] = @ + 1]
    /\ pendingChannelRequests' = pendingChannelRequests + 1
    /\ UNCHANGED <<nextLocalChannelID, tableVars, state, openWait, opener, releasing,
                   dispatchVars, receiver, removing, downVars, peerVars, internalError>>

\* handleChannelResult, or removePendingRequest when the caller gives up.
RequestDone(i) ==
    /\ pendingRequests[i] > 0
    /\ pendingRequests' = [pendingRequests EXCEPT ![i] = @ - 1]
    /\ releasing' = releasing + 1
    /\ UNCHANGED <<nextLocalChannelID, tableVars, state, openWait, opener,
                   pendingChannelRequests, dispatchVars, receiver, removing, downVars,
                   peerVars, internalError>>

\* handleRemoteClose, in the worker of a channel the peer has closed.
RemoteCloseEvent(i) ==
    /\ state[i] = "closed"
    /\ pendingRequests[i] > 0
    /\ FailRequests(i)
    /\ UNCHANGED <<nextLocalChannelID, tableVars, state, openWait, opener, dispatchVars,
                   receiver, removing, downVars, peerVars, internalError>>

\* releasePendingChannelRequest.
ReleaseRequest ==
    /\ releasing > 0
    /\ releasing' = releasing - 1
    /\ pendingChannelRequests' = Less(pendingChannelRequests)
    /\ UNCHANGED <<nextLocalChannelID, tableVars, state, openWait, opener, pendingRequests,
                   dispatchVars, receiver, removing, downVars, peerVars, internalError>>

-----------------------------------------------------------------------------
(* The receiver.                                                           *)

\* The id is reserved before the limits are looked at.
Receives(i) == receiver = Idle /\ i = nextLocalChannelID /\ nextLocalChannelID' = i + 1

\* The channel of an incoming open enters the table.
AdmitIncoming(i, p) ==
    /\ Receives(i)
    /\ ~AtLimit
    /\ peerChannelIDs[p] = NoId
    /\ peerChannelIDs' = [peerChannelIDs EXCEPT ![p] = i]
    /\ AddPending(i)
    /\ state' = [state EXCEPT ![i] = "opening"]
    /\ UNCHANGED <<openWait, opener, requestVars, dispatcher, removing, downVars, peerVars,
                   internalError>>

\* enqueueIncomingOpen, when the dispatch queue has room. A task that is queued
\* at once may wait there, so the step stands for both parts.
EnqueueIncomingOpen(i, p) ==
    /\ AdmitIncoming(i, p)
    /\ dispatchQueue' = Append(dispatchQueue, p)
    /\ UNCHANGED receiver

\* The dispatch queue refuses the task: the channel is removed again.
IncomingOpenDropped(i, p) ==
    /\ AdmitIncoming(i, p)
    /\ receiver' = At("refused", i)
    /\ UNCHANGED dispatchQueue

\* enqueueIncomingOpen at a limit: the peer is sent a rejection.
IncomingOpenRefused(i) ==
    /\ Receives(i)
    /\ AtLimit
    /\ UNCHANGED <<tableVars, state, openWait, opener, requestVars, dispatchVars, receiver,
                   removing, downVars, peerVars, internalError>>

\* lookupChannel, for a message that names a channel: the peer was told the id,
\* or has guessed it. The channel may leave the table before Channel.mu is taken.
Lookup(i) ==
    /\ receiver = Idle
    /\ i \in channels
    /\ receiver' = At("found", i)
    /\ excused' = (excused \/ i \notin told)
    /\ UNCHANGED <<nextLocalChannelID, tableVars, state, openWait, opener, requestVars,
                   dispatchVars, removing, downVars, told, internalError>>

\* A message that changes nothing here, or is answered with a protocol error.
OtherMessage(i) ==
    /\ receiver = At("found", i)
    /\ receiver' \in {Idle, Stopped}
    /\ UNCHANGED <<nextLocalChannelID, tableVars, state, openWait, opener, requestVars,
                   dispatchVars, removing, downVars, peerVars, internalError>>

\* handleChannelOpenResult, success, up to the release of Channel.mu. A result
\* that is too long or invalid, or an id of the peer that is taken, is a
\* protocol error, and the caller is not answered.
OpenAccepted(i, p) ==
    /\ receiver = At("found", i)
    /\ state[i] = "opening" /\ openWait[i]
    /\ openWait' = [openWait EXCEPT ![i] = FALSE]
    /\ \/ /\ peerChannelIDs[p] = NoId
          /\ peerChannelIDs' = [peerChannelIDs EXCEPT ![p] = i]
          /\ state' = [state EXCEPT ![i] = "open"]
          /\ receiver' = At("activate", i)
       \/ /\ receiver' = Stopped
          /\ UNCHANGED <<peerChannelIDs, state>>
    /\ UNCHANGED <<nextLocalChannelID, channels, slot, pendingOpens, activeChannels, opener,
                   requestVars, dispatchVars, removing, downVars, peerVars, internalError>>

\* The activateChannel of handleChannelOpenResult.
ReceiverActivate(i) ==
    /\ receiver = At("activate", i)
    /\ \/ /\ Activate(i)
          /\ receiver' = At("answer", i)
          /\ UNCHANGED internalError
       \/ /\ ~CanActivate(i)
          /\ receiver' = Stopped
          /\ InternalError
          /\ UNCHANGED <<slot, pendingOpens, activeChannels>>
    /\ UNCHANGED <<nextLocalChannelID, channels, peerChannelIDs, state, openWait, opener,
                   requestVars, dispatchVars, removing, downVars, peerVars>>

\* handleChannelOpenResult, rejection.
OpenRejected(i) ==
    /\ receiver = At("found", i)
    /\ state[i] = "opening" /\ openWait[i]
    /\ openWait' = [openWait EXCEPT ![i] = FALSE]
    /\ state' = [state EXCEPT ![i] = "failed"]
    /\ receiver' = At("rejected", i)
    /\ UNCHANGED <<nextLocalChannelID, tableVars, opener, requestVars, dispatchVars, removing,
                   downVars, peerVars, internalError>>

\* openWait <- result: the caller may have gone.
ReceiverAnswer(i) ==
    /\ receiver = At("answer", i)
    /\ receiver' = Idle
    /\ opener' = [opener EXCEPT ![i] = IF @ = "waiting" THEN "answered" ELSE @]
    /\ UNCHANGED <<nextLocalChannelID, tableVars, state, openWait, requestVars, dispatchVars,
                   removing, downVars, peerVars, internalError>>

\* enqueueChannelClose: the peer closes the channel, or acknowledges our close.
\* The close event or the acknowledgement may find its queue full.
EnqueueChannelClose(i) ==
    /\ receiver = At("found", i)
    /\ state[i] \in {"open", "closing"}
    /\ state' = [state EXCEPT ![i] = "closed"]
    /\ \/ receiver' = At("closed", i)
       \/ state[i] = "open" /\ receiver' = Stopped
    /\ UNCHANGED <<nextLocalChannelID, tableVars, openWait, opener, requestVars, dispatchVars,
                   removing, downVars, peerVars, internalError>>

\* The removeChannel of the last two, and of an open the dispatch queue refused.
ReceiverRemove(i) ==
    /\ \/ receiver = At("rejected", i) /\ receiver' = At("answer", i)
       \/ receiver = At("closed", i) /\ receiver' = Idle
       \/ receiver = At("refused", i) /\ receiver' = At("dropped", i)
    /\ Remove(i)
    /\ UNCHANGED <<nextLocalChannelID, state, openWait, opener, requestVars, dispatchVars,
                   removing, downVars, peerVars, internalError>>

\* The refused open is shut down and the peer sent a rejection, which may fail.
ReceiverDrop(i) ==
    /\ receiver = At("dropped", i)
    /\ receiver' \in {Idle, Stopped}
    /\ ShutdownChannel(i)
    /\ UNCHANGED <<nextLocalChannelID, tableVars, opener, dispatchVars, removing, downVars,
                   peerVars, internalError>>

-----------------------------------------------------------------------------
(* The dispatcher: handleChannelOpen.                                      *)

\* lookupChannelByPeer.
DispatchOpen ==
    /\ dispatcher = Idle
    /\ dispatchQueue # <<>>
    /\ dispatchQueue' = Tail(dispatchQueue)
    /\ LET i == peerChannelIDs[Head(dispatchQueue)] IN
       \/ /\ i \in channels
          /\ dispatcher' = At("handler", i)
          /\ UNCHANGED internalError
       \/ /\ i \notin channels
          /\ dispatcher' = Stopped
          /\ InternalError
    /\ UNCHANGED <<nextLocalChannelID, tableVars, state, openWait, opener, requestVars,
                   receiver, removing, downVars, peerVars>>

\* OnChannelOpen says no, or its decision is not a valid one.
DispatchReject(i) ==
    /\ dispatcher = At("handler", i)
    /\ dispatcher' \in {At("rejecting", i), At("failing", i)}
    /\ Remove(i)
    /\ UNCHANGED <<nextLocalChannelID, state, openWait, opener, requestVars, dispatchQueue,
                   receiver, removing, downVars, peerVars, internalError>>

MutDispatchAccept(i) ==
    /\ dispatcher = At("handler", i)
    /\ state[i] = "opening"
    /\ state' = [state EXCEPT ![i] = "open"]
    /\ told' = told \cup {i}
    /\ dispatcher' = At("activate", i)
    /\ UNCHANGED <<nextLocalChannelID, tableVars, openWait, opener, requestVars,
                   dispatchQueue, receiver, removing, downVars, excused, internalError>>

\* OnChannelOpen says yes.
DispatchAccept(i) ==
    /\ dispatcher = At("handler", i)
    /\ \/ /\ state[i] = "opening"
          /\ state' = [state EXCEPT ![i] = "open"]
          /\ dispatcher' = At("activate", i)
          /\ UNCHANGED internalError
       \/ /\ state[i] # "opening"
          /\ dispatcher' = Stopped
          /\ InternalError
          /\ UNCHANGED state
    /\ UNCHANGED <<nextLocalChannelID, tableVars, openWait, opener, requestVars,
                   dispatchQueue, receiver, removing, downVars, peerVars>>

DispatchActivate(i) ==
    /\ dispatcher = At("activate", i)
    /\ \/ /\ Activate(i)
          /\ dispatcher' = At("send", i)
          /\ UNCHANGED internalError
       \/ /\ ~CanActivate(i)
          /\ dispatcher' = Stopped
          /\ InternalError
          /\ UNCHANGED <<slot, pendingOpens, activeChannels>>
    /\ UNCHANGED <<nextLocalChannelID, channels, peerChannelIDs, state, openWait, opener,
                   requestVars, dispatchQueue, receiver, removing, downVars, peerVars>>

\* The writer has written the result; the worker of the channel starts.
DispatchSent(i) ==
    /\ dispatcher = At("send", i)
    /\ dispatcher' = Idle
    /\ told' = told \cup {i}
    /\ UNCHANGED <<nextLocalChannelID, tableVars, state, openWait, opener, requestVars,
                   dispatchQueue, receiver, removing, downVars, excused, internalError>>

DispatchSendFails(i) ==
    /\ dispatcher = At("send", i)
    /\ dispatcher' = At("failing", i)
    /\ Remove(i)
    /\ UNCHANGED <<nextLocalChannelID, state, openWait, opener, requestVars, dispatchQueue,
                   receiver, removing, downVars, peerVars, internalError>>

\* The Channel.shutdown those two end with; the rejection may fail to be sent.
DispatchFail(i) ==
    /\ \/ dispatcher = At("rejecting", i) /\ dispatcher' \in {Idle, Stopped}
       \/ dispatcher = At("failing", i) /\ dispatcher' = Stopped
    /\ ShutdownChannel(i)
    /\ UNCHANGED <<nextLocalChannelID, tableVars, opener, dispatchQueue, receiver, removing,
                   downVars, peerVars, internalError>>

-----------------------------------------------------------------------------
(* Session.shutdown.                                                       *)

\* The table is taken away and the counters start again from zero.
ShutdownDetach ==
    /\ down = "no"
    /\ down' = "detached"
    /\ toFail' = channels
    /\ channels' = {}
    /\ peerChannelIDs' = [p \in PeerIds |-> NoId]
    /\ pendingOpens' = 0
    /\ activeChannels' = 0
    /\ pendingChannelRequests' = 0
    /\ UNCHANGED <<nextLocalChannelID, slot, state, openWait, opener, pendingRequests,
                   releasing, dispatchVars, receiver, removing, peerVars, internalError>>

ShutdownCancel ==
    /\ down = "detached"
    /\ down' = "canceled"
    /\ UNCHANGED <<nextLocalChannelID, tableVars, state, openWait, opener, requestVars,
                   dispatchVars, receiver, removing, toFail, peerVars, internalError>>

\* A caller still at sendEnvelope learns of it from the session's context.
ShutdownFail(i) ==
    /\ down = "canceled"
    /\ i \in toFail
    /\ toFail' = toFail \ {i}
    /\ ShutdownChannel(i)
    /\ opener' = [opener EXCEPT ![i] = IF openWait[i] /\ @ = "waiting" THEN "answered" ELSE @]
    /\ UNCHANGED <<nextLocalChannelID, tableVars, dispatchVars, receiver, removing, down,
                   peerVars, internalError>>

-----------------------------------------------------------------------------
Opening(i) ==
    \/ OpenChannel(i) \/ OpenAdd(i) \/ OpenSent(i) \/ OpenSendFails(i) \/ OpenFailed(i)
    \/ OpenReturns(i) \/ OpenAbandoned(i)

Closing(i) == Close(i) \/ CloseTimeout(i) \/ RemoveChannel(i)

Requesting(i) == SendRequest(i) \/ RequestDone(i) \/ RemoteCloseEvent(i)

Receiving(i) ==
    \/ \E p \in PeerIds :
          EnqueueIncomingOpen(i, p) \/ IncomingOpenDropped(i, p) \/ OpenAccepted(i, p)
    \/ IncomingOpenRefused(i) \/ Lookup(i) \/ OtherMessage(i) \/ OpenRejected(i)
    \/ EnqueueChannelClose(i) \/ ReceiverActivate(i) \/ ReceiverAnswer(i)
    \/ ReceiverRemove(i) \/ ReceiverDrop(i)

Dispatching(i) ==
    \/ DispatchReject(i) \/ DispatchAccept(i) \/ DispatchActivate(i) \/ DispatchSent(i)
    \/ DispatchSendFails(i) \/ DispatchFail(i)

Next ==
    \/ \E i \in Ids :
          \/ Opening(i) \/ Closing(i) \/ Requesting(i) \/ Receiving(i) \/ Dispatching(i)
          \/ ShutdownFail(i)
    \/ ReleaseRequest
    \/ DispatchOpen
    \/ ShutdownDetach
    \/ ShutdownCancel

Spec == Init /\ [][Next]_vars

(***************************************************************************)
(* Timers fire, and a goroutine that need not wait for anyone goes on. The *)
(* caller of OpenChannel waits for the peer for ever if it may, but not    *)
(* past the end of the session.                                            *)
(***************************************************************************)
Fairness ==
    /\ \A i \in Ids :
          /\ WF_vars(down = "canceled" /\ Opening(i))
          /\ WF_vars(CloseTimeout(i))
          /\ WF_vars(RemoveChannel(i))
          /\ WF_vars(ReceiverRemove(i))
    /\ WF_vars(ShutdownCancel)

FairSpec == Spec /\ Fairness

-----------------------------------------------------------------------------
(* Properties.                                                             *)

(***************************************************************************)
(* Every variable stays in its range; no counter goes below zero, though   *)
(* Session.shutdown resets the counters while releases are still to come.  *)
(***************************************************************************)
TypeOK ==
    /\ nextLocalChannelID \in 0..MaxIds
    /\ channels \subseteq Ids
    /\ slot \in [Ids -> Slots]
    /\ state \in [Ids -> States]
    /\ openWait \in [Ids -> BOOLEAN]
    /\ opener \in [Ids -> Openers]
    /\ peerChannelIDs \in [PeerIds -> Ids \cup {NoId}]
    /\ pendingOpens \in Nat
    /\ activeChannels \in Nat
    /\ pendingRequests \in [Ids -> Nat]
    /\ releasing \in Nat
    /\ pendingChannelRequests \in Nat
    /\ dispatchQueue \in Seq(PeerIds)
    /\ dispatcher \in [at : DispatcherPlaces, ch : Ids \cup {NoId}]
    /\ receiver \in [at : ReceiverPlaces, ch : Ids \cup {NoId}]
    /\ removing \subseteq Ids
    /\ down \in {"no", "detached", "canceled"}
    /\ toFail \subseteq Ids
    /\ told \subseteq Ids
    /\ excused \in BOOLEAN
    /\ internalError \in BOOLEAN

With(kind) == {i \in channels : slot[i] = kind}

(***************************************************************************)
(* Until the session is shut down, pendingOpens and activeChannels count   *)
(* the channels in the table that hold such a slot, a channel outside the  *)
(* table holds none, and the configured limits are kept: however opens,    *)
(* answers, abandoned opens, closes, timers and removals interleave, no    *)
(* slot is leaked and none is returned twice.                              *)
(***************************************************************************)
SlotAccounting ==
    down = "no" =>
        /\ pendingOpens = Cardinality(With("pending"))
        /\ activeChannels = Cardinality(With("active"))
        /\ \A i \in Ids : slot[i] = "none" <=> i \notin channels
        /\ pendingOpens <= MaxPendingOpens
        /\ activeChannels + pendingOpens <= MaxChannels

(***************************************************************************)
(* Until the session is shut down, pendingChannelRequests counts the       *)
(* requests in flight over all channels and the releases still to come,    *)
(* and stays within its limit: a waiter that is answered, gives up or is   *)
(* failed by Close or by the peer's close gives its place back once.       *)
(***************************************************************************)
RequestAccounting ==
    down = "no" =>
        /\ pendingChannelRequests = Total(pendingRequests) + releasing
        /\ pendingChannelRequests <= MaxPendingChannelRequests

\* The receiver, misled by a guessed id, is with a removed channel or has stopped.
Misled(i) == excused /\ receiver \in {At("activate", i), Stopped}

(***************************************************************************)
(* Until the session is shut down, peerChannelIDs leads to channels of the *)
(* table only, and no two ids of the peer lead to the same channel: a peer *)
(* that reuses an id reaches the new channel, never the old one. The one   *)
(* exception: the peer answers an open whose id it has guessed, and the    *)
(* open's send fails after the receiver has looked the channel up. The id  *)
(* the receiver then enters leads nowhere, but the activation it goes on   *)
(* to fails and ends the session before another frame is handled.          *)
(***************************************************************************)
PeerIDsAgree ==
    down = "no" =>
        \A p \in PeerIds : peerChannelIDs[p] # NoId =>
            /\ peerChannelIDs[p] \in channels \/ Misled(peerChannelIDs[p])
            /\ \A q \in PeerIds \ {p} : peerChannelIDs[q] # peerChannelIDs[p]

(***************************************************************************)
(* handleChannelOpen and handleChannelOpenResult never fail to find or to  *)
(* activate their channel before the session is shut down, as long as the  *)
(* peer names only ids it was told and no close timer expires before the   *)
(* receiver has activated the channel: the slot is active before the peer  *)
(* learns the id.                                                          *)
(***************************************************************************)
NoInternalError == internalError => excused

(***************************************************************************)
(* A channel that is closing, closed or failed leaves the table, whatever  *)
(* becomes of the peer's acknowledgement, unless the session ends or the   *)
(* receiver or the dispatcher is about to end it.                          *)
(***************************************************************************)
EndedChannelsLeave ==
    \A i \in Ids :
        (i \in channels /\ state[i] \in {"closing", "closed", "failed"})
            ~> (i \notin channels \/ down # "no" \/ receiver = Stopped \/ dispatcher = Stopped)

(***************************************************************************)
(* Once the session is being shut down every call of OpenChannel returns,  *)
(* one that enters its channel in the table after shutdown has taken the   *)
(* channels away included.                                                 *)
(***************************************************************************)
OpenersReturn ==
    down # "no" ~> \A i \in Ids : opener[i] \in {"none", "done"}
=============================================================================
