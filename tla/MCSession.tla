----------------------------- MODULE MCSession -----------------------------
(***************************************************************************)
(* The session under three uses of it: global requests in both directions, *)
(* channel requests in both directions with a close from either side, and  *)
(* data and events that fill the channel's queues. Each meets some of the  *)
(* ways a session can end.                                                 *)
(***************************************************************************)
EXTENDS SessionCore

MCSize == [k \in Kinds |-> IF k \in RequestKinds THEN 2 ELSE 1]

Use(calls, frames, acts) == [calls |-> calls, peer |-> frames, acts |-> acts]

MCUses ==
    {Use(GlobalCallers, {"globalRequest", "disconnect"}, {"parentCancel"}),
     Use(ChannelCallers, {"close", "hangup"}, {"channelClose"}),
     Use({}, {"channelRequest", "data", "eof", "close"}, {"channelClose"}),
     Use({}, {"globalRequest", "hangup"}, {"sessionClose", "break"})}
=============================================================================
