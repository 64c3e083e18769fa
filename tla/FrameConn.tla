----------------------------- MODULE FrameConn -----------------------------
(***************************************************************************)
(* The frame connection of a command (lib/command FrameConn), which        *)
(* app/commandchannel makes of a session channel: frames in order each     *)
(* way, a close, and the end of the session. What ChannelPair shows of the *)
(* channel is condensed: frames written and not returned by ReceiveFrame   *)
(* are one queue, of which at most Window have credit.                     *)
(***************************************************************************)
EXTENDS Naturals, Sequences

CONSTANTS
    Window,    \* frames an endpoint may send ahead of its peer's reading
    Hangups    \* TRUE: the session may end under the command at any moment, by
               \* a break of the connection or an error of another channel

ASSUME ConnAssumption == Window \in Nat \ {0} /\ Hangups \in BOOLEAN

End == {"client", "server"}
Peer(e) == IF e = "client" THEN "server" ELSE "client"

VARIABLES
    inbox,      \* frames sent to an endpoint that it has not received
    channel,    \* state of the channel at an endpoint
    canceled,   \* Channel.Context() is done, at the server (the client does not look)
    up          \* the session is up

connVars == <<inbox, channel, canceled, up>>

\* "closing": Close was called. "remote": the peer's close was handled, and
\* "closed" once the server's channel worker has seen its event too.
ChannelStates == {"open", "closing", "remote", "closed"}

ConnInit ==
    /\ inbox = [e \in End |-> <<>>]
    /\ channel = [e \in End |-> "open"]
    /\ canceled = FALSE
    /\ up = TRUE

CanSend(e) == up /\ channel[e] = "open"

MutSendFrame(e, f) ==
    /\ CanSend(e)
    /\ inbox' = [inbox EXCEPT ![Peer(e)] = Append(@, f)]
    /\ UNCHANGED <<channel, canceled, up>>

SendFrame(e, f) ==
    /\ CanSend(e)
    /\ Len(inbox[Peer(e)]) < Window
    /\ inbox' = [inbox EXCEPT ![Peer(e)] = Append(@, f)]
    /\ UNCHANGED <<channel, canceled, up>>

Receivable(e) == inbox[e] # <<>> /\ channel[e] # "closing"

\* Recv returns a frame, of a channel the peer has closed too.
ReceiveFrame(e, f) ==
    /\ Receivable(e)
    /\ f = Head(inbox[e])
    /\ inbox' = [inbox EXCEPT ![e] = Tail(@)]
    /\ UNCHANGED <<channel, canceled, up>>

\* Recv returns io.EOF or an error; of a channel the peer closed it cancels
\* the context.
ReceiveEnds(e) ==
    /\ ~Receivable(e)
    /\ channel[e] # "open" \/ ~up
    /\ canceled' = (canceled \/ e = "server")
    /\ UNCHANGED <<inbox, channel, up>>

Close(e) ==
    /\ channel' = [channel EXCEPT ![e] = IF @ = "open" /\ up THEN "closing" ELSE @]
    /\ canceled' = (canceled \/ e = "server")
    /\ UNCHANGED <<inbox, up>>

-----------------------------------------------------------------------------
(* Steps of the session.                                                   *)

\* enqueueChannelClose at the endpoint whose peer has closed.
HandleClose(e) ==
    /\ CanSend(e)
    /\ channel[Peer(e)] = "closing"
    /\ channel' = [channel EXCEPT ![e] = "remote"]
    /\ UNCHANGED <<inbox, canceled, up>>

\* handleRemoteClose: the context ends now if no frame is left to read,
\* otherwise when Recv comes to the end.
RemoteCloseEvent ==
    /\ up
    /\ channel["server"] = "remote"
    /\ channel' = [channel EXCEPT !["server"] = "closed"]
    /\ canceled' = (canceled \/ inbox["server"] = <<>>)
    /\ UNCHANGED <<inbox, up>>

\* Session.shutdown at both ends: the connection breaks, or a frame reaches
\* an endpoint that is closing. A channel no longer in the table keeps its
\* frames.
SessionEnds ==
    /\ up
    /\ Hangups \/ \E e \in End : channel[e] = "closing" /\ inbox[e] # <<>>
    /\ up' = FALSE
    /\ canceled' = TRUE
    /\ inbox' = [e \in End |-> IF channel[e] \in {"remote", "closed"} THEN inbox[e] ELSE <<>>]
    /\ UNCHANGED channel

ConnNext ==
    \/ \E e \in End : HandleClose(e)
    \/ RemoteCloseEvent
    \/ SessionEnds

\* The goroutines of the sessions run; no connection has to break.
ConnFairness ==
    /\ \A e \in End : WF_connVars(HandleClose(e))
    /\ WF_connVars(RemoteCloseEvent)
=============================================================================
