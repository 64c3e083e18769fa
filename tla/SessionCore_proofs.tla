------------------------ MODULE SessionCore_proofs ------------------------
(***************************************************************************)
(* Proofs about one activated session (SessionCore): the budget of its     *)
(* queues is exact, what a caller takes back is never written, the         *)
(* disconnect of a protocol error reaches the connection, a channel that   *)
(* has ended holds nothing, a session of honest peers that ends with a     *)
(* protocol error or a failed reply has had a reason to, and the ids of    *)
(* the peer's requests are remembered exactly until they are answered.     *)
(***************************************************************************)
EXTENDS SessionIds, ByteSum_proofs, TLAPS

-----------------------------------------------------------------------------
(* The types of the queues, finer than TypeOK.                             *)

\* The control queue holds answers nobody waits for, and is never withdrawn
\* from.
ControlWrites ==
    {w \in Writes : /\ w.kind \in ResultKinds \cup {"close", "disconnect"}
                    /\ w.id \in Nat /\ w.waits = None /\ ~w.canceled}

\* The outbound queue holds requests their callers wait for, and the replies
\* of the dispatcher and the worker.
OutWrites ==
    {w \in Writes :
        \/ w.waits \in Callers /\ w.id = w.waits /\ w.kind = RequestKind(w.waits)
        \/ w.waits = "dispatcher" /\ w.kind = "globalResult" /\ w.id \in Nat
        \/ w.waits = "worker" /\ w.kind = "channelResult" /\ w.id \in Nat}

Tasks == {m \in Msgs : m.kind = "globalRequest" /\ m.id \in Nat}
Events == {m \in Msgs : m.kind \in EventKinds /\ m.id \in Nat}

\* An answer carries the name of our caller, a frame of the peer's own its
\* number.
PeerFrames ==
    {m \in Msgs : /\ m.kind = "globalResult" => m.id \in GlobalCallers
                  /\ m.kind = "channelResult" => m.id \in ChannelCallers
                  /\ m.kind \notin ResultKinds => m.id \in Nat}

Downs == {"no", "detached", "canceled", "final", "connClosed", "done"}
States == {"open", "remoteEOF", "closing", "closed", "failed"}

ChannelType ==
    [state : States, inTable : BOOLEAN, canceled : BOOLEAN, frames : Seq(Nat),
     events : Seq(Events), queued : Budgets, pending : SUBSET ChannelCallers,
     incoming : SUBSET Nat]

LifeInv ==
    /\ down \in Downs /\ cause \in Causes /\ (cause = None <=> down = "no")
    /\ parentDone \in BOOLEAN
    /\ queuesClosed \in BOOLEAN
    /\ queuesClosed <=> down \in {"final", "connClosed", "done"}
    /\ conn \in {"open", "broken", "closed"}
    /\ conn = "closed" <=> down \in {"connClosed", "done"}
    /\ receiver \in {"idle", "stopped"}
    /\ closer \in {"idle", "queue", "timer", "done"}

QueueType ==
    /\ queued \in Budgets
    /\ control \in Seq(ControlWrites) /\ outbound \in Seq(OutWrites)
    /\ dispatchQueue \in Seq(Tasks)

WriterType ==
    [at : {"idle", "waiting", "sending", "stopped"}, msg : ControlWrites \cup OutWrites]
DispatcherType ==
    [at : {"idle", "handling", "queued", "stopped"}, id : Nat, reply : BOOLEAN]
WorkerType == [at : {"starting", "idle", "handling", "queued", "stopped"}, ev : Events]

LoopType ==
    /\ writer \in WriterType
    /\ writer.at # "sending" => writer.msg = NoWrite
    /\ dispatcher \in DispatcherType
    /\ worker \in WorkerType

CallType ==
    /\ call \in [Callers -> [at : CallPlaces, reply : BOOLEAN]]
    /\ pendingGlobal \subseteq GlobalCallers /\ incomingGlobal \subseteq Nat

HistType ==
    [closedHere : BOOLEAN, gaveUp : SUBSET Callers, recvEnded : BOOLEAN, onClose : BOOLEAN,
     overtaken : BOOLEAN, disconnect : {None, "queued", "written"}, timedOut : BOOLEAN,
     withdrawn : SUBSET Callers, written : SUBSET Callers, broke : BOOLEAN]

EnvType ==
    [sent : Nat, ended : SUBSET {"eof", "close"}, owes : SUBSET Callers,
     gone : BOOLEAN, use : Uses]

PeerType == wire \in Seq(PeerFrames) /\ env \in EnvType /\ hist \in HistType

Types == LifeInv /\ QueueType /\ LoopType /\ ch \in ChannelType /\ CallType /\ PeerType

-----------------------------------------------------------------------------
(* Where a request of ours is.                                             *)

\* A caller c at a place, when D took their requests back, those of W were
\* written, the writer sends for "busy" and q is the outbound queue.
Placed(c, at, D, W, busy, q) ==
    /\ c \in D => at = "done" /\ c \notin W
    /\ c \in W => at \in {"waiting", "done"}
    /\ at = "waiting" => c \in W
    /\ busy = c => at = "queued"
    /\ \A i \in DOMAIN q : q[i].waits = c =>
          \/ at = "queued" /\ ~q[i].canceled /\ busy # c
          \/ at = "done" /\ q[i].canceled
    /\ \A i, j \in DOMAIN q : q[i].waits = c /\ q[j].waits = c => i = j

CallInv(c) ==
    Placed(c, call[c].at, hist.withdrawn, hist.written, writer.msg.waits, outbound)

\* An answer on its way is to a request that was written.
AnswersInv ==
    /\ env.owes \subseteq hist.written
    /\ \A i \in DOMAIN wire : wire[i].kind \in ResultKinds => wire[i].id \in hist.written

-----------------------------------------------------------------------------
(* The disconnect.                                                         *)

InControl == \E i \in DOMAIN control : control[i].kind = "disconnect"

DisconnectInv ==
    /\ conn = "broken" => hist.broke
    /\ down \in {"connClosed", "done"} /\ cause = "protocol" =>
          hist.timedOut \/ writer.at = "stopped"
    /\ writer.at = "stopped" =>
          \/ hist.broke \/ hist.timedOut
          \/ queuesClosed /\ control = <<>> /\ outbound = <<>>
          \/ conn = "closed" /\ cause # "protocol"
    /\ hist.disconnect = "queued" =>
          /\ cause = "protocol"
          /\ \/ InControl
             \/ writer.at = "sending" /\ writer.msg.kind = "disconnect"
             \/ writer.at = "stopped" /\ (hist.broke \/ hist.timedOut)

BudgetIs(b, frames, bytes) == b.frames = frames /\ b.bytes = bytes

\* The two cases of ChannelHolds.
Holds(r) == BudgetIs(r.queued, Len(r.frames) + Len(r.events),
                     Total(r.frames) + BytesOf(r.events))
Discarded(r) == r.queued = Nothing /\ r.canceled /\ r.state \notin allowsRequests

-----------------------------------------------------------------------------
(* The end of the channel.                                                 *)

\* A close is the last event of q, and the channel takes no more.
CloseLast(q, state) ==
    \A i \in DOMAIN q : q[i].kind = "close" => i = Len(q) /\ state \notin allowsRequests

\* A channel that was closed here holds nothing and is not used again; the
\* peer's close is the last event, and OnClose is the worker's last call.
EndShape ==
    /\ hist.closedHere =>
          ch.queued = Nothing /\ ch.frames = <<>> /\ ch.state \notin allowsRequests
    /\ ch.state = "closing" => hist.closedHere
    /\ closer # "idle" => hist.closedHere
    /\ CloseLast(ch.events, ch.state)
    /\ worker.at = "handling" /\ worker.ev.kind = "close" =>
          ch.events = <<>> /\ ch.state \notin allowsRequests
    /\ hist.onClose =>
          /\ ch.events = <<>> /\ ch.state \notin allowsRequests
          /\ worker.at \in {"idle", "stopped"}

\* While the session lives: who ends the worker and the channel's context.
EndLive ==
    down = "no" =>
       /\ worker.at = "stopped" => parentDone \/ ch.canceled
       /\ ch.canceled => hist.recvEnded \/ hist.closedHere \/ hist.onClose
       /\ ~hist.closedHere => Holds(ch)

EndInv == EndShape /\ EndLive

-----------------------------------------------------------------------------
(* The order of the peer's frames.                                         *)

\* No frame before the i-th of q is of one of the kinds.
NoneBefore(q, i, kinds) == \A j \in DOMAIN q : j < i => q[j].kind \notin kinds

\* What may still come on the wire q, when the channel here is in a state and
\* the peer has sent the frames of "ended" that end its side.
Ordered(q, state, ended) ==
    /\ \A i \in DOMAIN q :
          /\ q[i].kind \in {"data", "eof"} =>
                state = "open" /\ NoneBefore(q, i, {"eof", "close"})
          /\ q[i].kind \in {"channelRequest", "channelResult", "close"} =>
                state \in allowsRequests /\ NoneBefore(q, i, {"close"})
    /\ ended = {} => state = "open" /\ \A i \in DOMAIN q : q[i].kind \notin {"eof", "close"}
    /\ "close" \notin ended =>
          state \in allowsRequests /\ \A i \in DOMAIN q : q[i].kind \notin {"close"}

OrderInv ==
    down = "no" /\ ~hist.closedHere =>
       /\ ch.state \in {"open", "remoteEOF", "closed"}
       /\ ch.inTable <=> ch.state \in allowsRequests
       /\ ~hist.overtaken => Ordered(wire, ch.state, env.ended)

-----------------------------------------------------------------------------
(* The answers to come have a caller.                                      *)

Pending == pendingGlobal \cup ch.pending

\* A request of c that wants an answer is in the queue q, an answer to c is
\* on the wire q.
Asked(c, q) == \E i \in DOMAIN q : q[i].waits = c /\ q[i].reply /\ ~q[i].canceled
Answer(c, m) == m.kind \in ResultKinds /\ m.id = c
OnWire(c, q) == \E i \in DOMAIN q : Answer(c, q[i])

\* The peer owes c an answer or has sent one, not both, and not twice.
AnswersOnce(c, owes, q) ==
    /\ c \in owes => ~OnWire(c, q)
    /\ \A i, j \in DOMAIN q : Answer(c, q[i]) /\ Answer(c, q[j]) => i = j

\* A caller that wants an answer has its request or its answer under way.
Asks(c) ==
    \/ call[c].at = "sending" /\ call[c].reply
    \/ writer.msg.waits = c /\ writer.msg.reply
    \/ Asked(c, outbound)

Expects(c) == Asks(c) \/ c \in env.owes \/ OnWire(c, wire)

PendingInv ==
    /\ \A c \in Callers : AnswersOnce(c, env.owes, wire)
    /\ down = "no" /\ hist.gaveUp = {} /\ ~hist.closedHere =>
          \A c \in Callers : Expects(c) => c \in Pending

-----------------------------------------------------------------------------
(* What the actions do to the fields of the channel.                       *)

IsChannel(r, state, inTable, canceled, frames, events, held, pending, incoming) ==
    /\ r \in ChannelType
    /\ r.state = state /\ r.inTable = inTable /\ r.canceled = canceled
    /\ r.frames = frames /\ r.events = events /\ r.queued = held
    /\ r.pending = pending /\ r.incoming = incoming

LEMMA ChannelValues ==
  ASSUME NEW r \in ChannelType, NEW t \in BOOLEAN, NEW k \in BOOLEAN, NEW s \in States,
         NEW f \in Seq(Nat), NEW q \in Budgets,
         NEW p \in SUBSET ChannelCallers
  PROVE  /\ IsChannel([r EXCEPT !.inTable = t, !.canceled = k, !.frames = f, !.state = s,
                                !.queued = q, !.pending = p],
                      s, t, k, f, r.events, q, p, r.incoming)
         /\ IsChannel([r EXCEPT !.state = s, !.canceled = k, !.frames = f, !.queued = q,
                                !.pending = p],
                      s, r.inTable, k, f, r.events, q, p, r.incoming)
         /\ IsChannel([r EXCEPT !.canceled = k],
                      r.state, r.inTable, k, r.frames, r.events, r.queued, r.pending, r.incoming)
         /\ IsChannel([r EXCEPT !.inTable = t],
                      r.state, t, r.canceled, r.frames, r.events, r.queued, r.pending, r.incoming)
         /\ IsChannel([r EXCEPT !.state = s, !.inTable = t],
                      s, t, r.canceled, r.frames, r.events, r.queued, r.pending, r.incoming)
         /\ IsChannel([r EXCEPT !.pending = p, !.canceled = k],
                      r.state, r.inTable, k, r.frames, r.events, r.queued, p, r.incoming)
BY DEF ChannelType, IsChannel

LEMMA ChannelFrames ==
  ASSUME NEW r \in ChannelType, NEW f \in Seq(Nat), NEW q \in Budgets
  PROVE  IsChannel([r EXCEPT !.frames = f, !.queued = q],
                   r.state, r.inTable, r.canceled, f, r.events, q, r.pending, r.incoming)
BY DEF ChannelType, IsChannel

LEMMA ChannelEvents ==
  ASSUME NEW r \in ChannelType, NEW e \in Seq(Events), NEW q \in Budgets
  PROVE  IsChannel([r EXCEPT !.events = e, !.queued = q],
                   r.state, r.inTable, r.canceled, r.frames, e, q, r.pending, r.incoming)
BY DEF ChannelType, IsChannel

LEMMA Constants ==
  /\ <<>> \in Seq(Nat) /\ Nothing \in Budgets /\ {} \in SUBSET ChannelCallers
  /\ TRUE \in BOOLEAN /\ FALSE \in BOOLEAN
  /\ Nothing.frames = 0 /\ Nothing.bytes = 0
  /\ {"open", "remoteEOF", "closing", "closed", "failed"} \subseteq States
BY DEF Nothing, Budgets, States

LEMMA ShutdownFinishChannel ==
  ASSUME ch \in ChannelType, ShutdownFinish, ch.inTable
  PROVE  IsChannel(ch', IF ch.state = "closed" THEN ch.state ELSE "failed", FALSE, TRUE,
                        <<>>, ch.events, Nothing, {}, ch.incoming)
<1> DEFINE s == IF ch.state = "closed" THEN ch.state ELSE "failed"
<1>1. s \in States
  BY DEF States, ChannelType
<1>2. ch' = [ch EXCEPT !.inTable = FALSE, !.canceled = TRUE, !.frames = <<>>,
                       !.state = s, !.queued = Nothing, !.pending = {}]
  BY DEF ShutdownFinish
<1> HIDE DEF s
<1>3. IsChannel(ch', s, FALSE, TRUE, <<>>, ch.events, Nothing, {}, ch.incoming)
  BY <1>1, <1>2, ChannelValues, Constants, Zenon
<1>4. QED
  BY <1>3, Zenon DEF s

LEMMA RecvEndChannel ==
  ASSUME ch \in ChannelType, RecvEnd
  PROVE  IsChannel(ch', ch.state, ch.inTable, TRUE, ch.frames, ch.events, ch.queued,
                        ch.pending, ch.incoming)
<1>1. ch' = [ch EXCEPT !.canceled = TRUE]
  BY DEF RecvEnd
<1>2. QED
  BY <1>1, ChannelValues, Constants, Zenon

LEMMA ChannelCloseChannel ==
  ASSUME ch \in ChannelType, ChannelClose
  PROVE  IsChannel(ch', "closing", ch.inTable, TRUE, <<>>, ch.events, Nothing, {},
                        ch.incoming)
<1>1. ch' = [ch EXCEPT !.state = "closing", !.canceled = TRUE, !.frames = <<>>,
                       !.queued = Nothing, !.pending = {}]
  BY DEF ChannelClose
<1>2. "closing" \in States
  BY Constants
<1>3. QED
  BY <1>1, <1>2, ChannelValues, Constants, Zenon

LEMMA CloseTimeoutChannel ==
  ASSUME ch \in ChannelType, CloseTimeout, ch.state = "closing"
  PROVE  IsChannel(ch', "closed", StaysInTable, ch.canceled, ch.frames, ch.events,
                        ch.queued, ch.pending, ch.incoming)
<1>1. ch' = [ch EXCEPT !.state = "closed", !.inTable = StaysInTable]
  BY DEF CloseTimeout
<1>2. "closed" \in States /\ StaysInTable \in BOOLEAN
  BY Constants DEF StaysInTable
<1>3. QED
  BY <1>1, <1>2, ChannelValues, Constants, Zenon

LEMMA WorkerCloseChannel ==
  ASSUME ch \in ChannelType, WorkerClose
  PROVE  IsChannel(ch', ch.state, ch.inTable, ch.canceled \/ ch.frames = <<>>, ch.frames,
                        ch.events, ch.queued, {}, ch.incoming)
<1>1. ch' = [ch EXCEPT !.pending = {}, !.canceled = ch.canceled \/ ch.frames = <<>>]
  BY DEF WorkerClose
<1>2. (ch.canceled \/ ch.frames = <<>>) \in BOOLEAN
  OBVIOUS
<1>3. QED
  BY <1>1, <1>2, ChannelValues, Constants, Zenon

LEMMA ReceiveCloseAnswerChannel ==
  ASSUME ch \in ChannelType, ReceiveCloseAnswer
  PROVE  IsChannel(ch', "closed", FALSE, ch.canceled, ch.frames, ch.events, ch.queued,
                        ch.pending, ch.incoming)
<1>1. ch' = [ch EXCEPT !.state = "closed", !.inTable = FALSE]
  BY DEF ReceiveCloseAnswer
<1>2. "closed" \in States
  BY Constants
<1>3. QED
  BY <1>1, <1>2, ChannelValues, Constants, Zenon

LEMMA WriterSendChannel ==
  ASSUME ch \in ChannelType, Written(writer.msg)
  PROVE  IsChannel(ch', ch.state, ch.inTable, ch.canceled, ch.frames, ch.events,
                        ch.queued, ch.pending,
                        IF writer.msg.kind = "channelResult"
                        THEN ch.incoming \ {writer.msg.id} ELSE ch.incoming)
BY DEF Written, ChannelType, IsChannel

LEMMA WriterFailChannel ==
  ASSUME ch \in ChannelType, WriterFail
  PROVE  IsChannel(ch', ch.state, ch.inTable, ch.canceled, ch.frames, ch.events,
                        ch.queued, ch.pending \ {writer.msg.waits},
                        IF writer.msg.kind = "channelResult"
                        THEN ch.incoming \ {writer.msg.id} ELSE ch.incoming)
BY DEF WriterFail, ChannelType, IsChannel

LEMMA ChannelCallChannel ==
  ASSUME ch \in ChannelType, NEW c \in ChannelCallers, NEW reply \in BOOLEAN,
         ChannelCall(c, reply)
  PROVE  IsChannel(ch', ch.state, ch.inTable, ch.canceled, ch.frames, ch.events, ch.queued,
                        IF reply THEN ch.pending \cup {c} ELSE ch.pending, ch.incoming)
BY DEF ChannelCall, ChannelType, IsChannel

LEMMA LeaveChannel ==
  ASSUME ch \in ChannelType, NEW c \in Callers, Leave(c)
  PROVE  IsChannel(ch', ch.state, ch.inTable, ch.canceled, ch.frames, ch.events, ch.queued,
                        ch.pending \ {c}, ch.incoming)
BY DEF Leave, ChannelType, IsChannel

LEMMA MinusType ==
  ASSUME NEW b \in Budgets, NEW m \in Nat, NEW n \in Nat
  PROVE  /\ Minus(b, m, n) \in Budgets
         /\ Minus(b, m, n).frames = IF m > b.frames THEN 0 ELSE b.frames - m
         /\ Minus(b, m, n).bytes = IF n > b.bytes THEN 0 ELSE b.bytes - n
BY DEF Minus, Budgets

LEMMA PlusType ==
  ASSUME NEW b \in Budgets, NEW n \in Nat
  PROVE  /\ Plus(b, n) \in Budgets
         /\ Plus(b, n).frames = b.frames + 1
         /\ Plus(b, n).bytes = b.bytes + n
BY DEF Plus, Budgets

LEMMA RecvChannel ==
  ASSUME ch \in ChannelType, Recv
  PROVE  IsChannel(ch', ch.state, ch.inTable, ch.canceled, Tail(ch.frames), ch.events,
                        Minus(ch.queued, 1, Head(ch.frames)), ch.pending, ch.incoming)
<1>1. ch.frames \in Seq(Nat) /\ ch.frames # <<>> /\ ch.queued \in Budgets
  BY DEF ChannelType, Recv
<1>2. Head(ch.frames) \in Nat /\ Tail(ch.frames) \in Seq(Nat) /\ 1 \in Nat
  BY <1>1
<1>3. Minus(ch.queued, 1, Head(ch.frames)) \in Budgets
  BY <1>1, <1>2, MinusType
<1>4. ch' = [ch EXCEPT !.frames = Tail(ch.frames),
                       !.queued = Minus(ch.queued, 1, Head(ch.frames))]
  BY Zenon DEF Recv
<1>5. QED
  BY <1>2, <1>3, <1>4, ChannelFrames, Zenon

LEMMA SizeType == \A k \in Kinds : Size[k] \in Nat /\ Size[k] > 0
BY CoreAssumption

LEMMA WorkerTakeChannel ==
  ASSUME ch \in ChannelType, WorkerTake
  PROVE  IsChannel(ch', ch.state, ch.inTable, ch.canceled, ch.frames, Tail(ch.events),
                        Minus(ch.queued, 1, Size[Head(ch.events).kind]), ch.pending,
                        ch.incoming)
<1>1. ch.events \in Seq(Events) /\ ch.events # <<>> /\ ch.queued \in Budgets
  BY DEF WorkerTake, ChannelType
<1>5. Head(ch.events) \in Events /\ Tail(ch.events) \in Seq(Events)
  BY <1>1
<1>2. Size[Head(ch.events).kind] \in Nat
  BY <1>5, SizeType DEF Events, EventKinds, Kinds, RequestKinds
<1>3. Minus(ch.queued, 1, Size[Head(ch.events).kind]) \in Budgets
  BY <1>1, <1>2, MinusType
<1>4. ch' = [ch EXCEPT !.events = Tail(ch.events),
                       !.queued = Minus(ch.queued, 1, Size[Head(ch.events).kind])]
  BY Zenon DEF WorkerTake
<1>6. QED
  BY <1>3, <1>4, <1>5, ChannelEvents, Zenon

LEMMA WorkerFailChannel ==
  ASSUME ch \in ChannelType, NEW err, WorkerFail(err)
  PROVE  IsChannel(ch', ch.state, ch.inTable, ch.canceled, ch.frames, ch.events, ch.queued,
                        ch.pending, ch.incoming \ {worker.ev.id})
BY DEF WorkerFail, ChannelType, IsChannel

-----------------------------------------------------------------------------
(* The bytes of a queue.                                                   *)

Sizes(q) == [i \in DOMAIN q |-> Size[q[i].kind]]

LEMMA SizesType ==
  ASSUME NEW S, \A x \in S : x.kind \in Kinds, NEW q \in Seq(S)
  PROVE  /\ Sizes(q) \in Seq(Nat) /\ Len(Sizes(q)) = Len(q)
         /\ BytesOf(q) = Total(Sizes(q)) /\ BytesOf(q) \in Nat
<1>1. Sizes(q) \in [1..Len(q) -> Nat]
  BY SizeType DEF Sizes
<1>2. Sizes(q) \in Seq(Nat) /\ Len(Sizes(q)) = Len(q)
  BY <1>1
<1>3. QED
  BY <1>2, TotalSeqNat DEF BytesOf, Sizes

LEMMA BytesAppend ==
  ASSUME NEW S, \A x \in S : x.kind \in Kinds, NEW q \in Seq(S), NEW w \in S
  PROVE  /\ Append(q, w) \in Seq(S) /\ Len(Append(q, w)) = Len(q) + 1
         /\ BytesOf(Append(q, w)) = BytesOf(q) + Size[w.kind]
<1>1. Append(q, w) \in Seq(S) /\ Len(Append(q, w)) = Len(q) + 1
  OBVIOUS
<1>2. Size[w.kind] \in Nat
  BY SizeType
<1>3. Sizes(q) \in Seq(Nat) /\ Sizes(Append(q, w)) \in Seq(Nat)
      /\ Len(Sizes(q)) = Len(q) /\ Len(Sizes(Append(q, w))) = Len(q) + 1
  BY <1>1, SizesType
<1>4. Sizes(Append(q, w)) = Append(Sizes(q), Size[w.kind])
  <2>1. Append(Sizes(q), Size[w.kind]) \in Seq(Nat)
        /\ Len(Append(Sizes(q), Size[w.kind])) = Len(q) + 1
    BY <1>2, <1>3
  <2>2. ASSUME NEW i \in 1..Len(q) + 1
        PROVE  Sizes(Append(q, w))[i] = Append(Sizes(q), Size[w.kind])[i]
    <3>1. Sizes(Append(q, w))[i] = Size[Append(q, w)[i].kind]
      BY <1>1 DEF Sizes
    <3>2. CASE i = Len(q) + 1
      BY <3>1, <3>2, <1>3, <1>2
    <3>3. CASE i \in 1..Len(q)
      <4>1. Append(q, w)[i] = q[i] /\ Append(Sizes(q), Size[w.kind])[i] = Sizes(q)[i]
        BY <3>3, <1>3, <1>2
      <4>2. Sizes(q)[i] = Size[q[i].kind]
        BY <3>3 DEF Sizes
      <4>3. QED
        BY <4>1, <4>2, <3>1
    <3>4. i = Len(q) + 1 \/ i \in 1..Len(q)
      OBVIOUS
    <3>5. QED
      BY <3>2, <3>3, <3>4, Zenon
  <2>3. QED
    BY <2>1, <2>2, <1>3, SeqEqual
<1>5. QED
  BY <1>1, <1>2, <1>3, <1>4, SizesType, TotalAppend

LEMMA BytesTail ==
  ASSUME NEW S, \A x \in S : x.kind \in Kinds, NEW q \in Seq(S), q # <<>>
  PROVE  /\ Head(q) \in S /\ Tail(q) \in Seq(S) /\ Len(Tail(q)) = Len(q) - 1 /\ Len(q) > 0
         /\ BytesOf(Tail(q)) = BytesOf(q) - Size[Head(q).kind]
         /\ Size[Head(q).kind] <= BytesOf(q)
<1>1. Head(q) \in S /\ Tail(q) \in Seq(S) /\ Len(Tail(q)) = Len(q) - 1 /\ Len(q) > 0
  OBVIOUS
<1>3. Sizes(q) \in Seq(Nat) /\ Sizes(Tail(q)) \in Seq(Nat)
      /\ Len(Sizes(q)) = Len(q) /\ Len(Sizes(Tail(q))) = Len(q) - 1
  BY <1>1, SizesType
<1>4. Head(Sizes(q)) = Size[Head(q).kind] /\ Sizes(q) # <<>>
  BY <1>1, <1>3 DEF Sizes
<1>5. Sizes(Tail(q)) = Tail(Sizes(q))
  <2>1. Tail(Sizes(q)) \in Seq(Nat) /\ Len(Tail(Sizes(q))) = Len(q) - 1
    BY <1>1, <1>3, <1>4
  <2>2. ASSUME NEW i \in 1..Len(q) - 1
        PROVE  Sizes(Tail(q))[i] = Tail(Sizes(q))[i]
    <3>1. Sizes(Tail(q))[i] = Size[Tail(q)[i].kind]
      BY <1>1 DEF Sizes
    <3>2. Tail(q)[i] = q[i + 1] /\ Tail(Sizes(q))[i] = Sizes(q)[i + 1]
      BY <1>1, <1>3, <1>4
    <3>3. Sizes(q)[i + 1] = Size[q[i + 1].kind]
      BY <1>1 DEF Sizes
    <3>4. QED
      BY <3>1, <3>2, <3>3
  <2>3. QED
    BY <2>1, <2>2, <1>3, SeqEqual
<1>6. QED
  BY <1>1, <1>3, <1>4, <1>5, SizesType, TotalTail

LEMMA BytesEmpty == BytesOf(<<>>) = 0
<1>1. Sizes(<<>>) = <<>>
  BY DEF Sizes
<1>2. QED
  BY <1>1, TotalEmpty DEF BytesOf, Sizes

LEMMA BytesSame ==
  ASSUME NEW p, NEW q, DOMAIN p = DOMAIN q, \A i \in DOMAIN q : p[i].kind = q[i].kind
  PROVE  BytesOf(p) = BytesOf(q)
BY DEF BytesOf

-----------------------------------------------------------------------------
(* What an action may do to the budget: one lemma for each way.            *)

BudgetInv == QueueType /\ ch \in ChannelType /\ BudgetAccounted

LEMMA KindsOfQueues ==
  /\ \A w \in ControlWrites : w.kind \in Kinds
  /\ \A w \in OutWrites : w.kind \in Kinds
  /\ \A m \in Tasks : m.kind \in Kinds
  /\ \A m \in Events : m.kind \in Kinds
BY DEF ControlWrites, OutWrites, Tasks, Events, Writes, EventKinds, Kinds, RequestKinds,
       ResultKinds

LEMMA BudgetFields == \A b \in Budgets : b.frames \in Nat /\ b.bytes \in Nat
BY DEF Budgets

LEMMA ChannelFields ==
  ASSUME NEW r \in ChannelType
  PROVE  /\ r.frames \in Seq(Nat) /\ r.events \in Seq(Events) /\ r.queued \in Budgets
         /\ r.queued.frames \in Nat /\ r.queued.bytes \in Nat
         /\ Len(r.frames) \in Nat /\ Len(r.events) \in Nat
         /\ Total(r.frames) \in Nat /\ BytesOf(r.events) \in Nat
         /\ r.state \in States
         /\ Len(r.frames) + Len(r.events) \in Nat
         /\ Total(r.frames) + BytesOf(r.events) \in Nat
<1>1. r.frames \in Seq(Nat) /\ r.events \in Seq(Events) /\ r.queued \in Budgets
      /\ r.state \in States
  BY DEF ChannelType
<1>2. Len(r.frames) \in Nat /\ Len(r.events) \in Nat
  BY <1>1
<1>3. Total(r.frames) \in Nat /\ BytesOf(r.events) \in Nat
  BY <1>1, TotalSeqNat, SizesType, KindsOfQueues, Zenon
<1>4. \A a, b \in Nat : a + b \in Nat
  OBVIOUS
<1>5. QED
  BY <1>1, <1>2, <1>3, <1>4, BudgetFields, Zenon

LEMMA QueueFields ==
  ASSUME NEW S, \A x \in S : x.kind \in Kinds, NEW q \in Seq(S)
  PROVE  Len(q) \in Nat /\ BytesOf(q) \in Nat
BY SizesType

LEMMA HoldsForm ==
  ASSUME NEW r \in ChannelType
  PROVE  r.queued = [frames |-> Len(r.frames) + Len(r.events),
                     bytes |-> Total(r.frames) + BytesOf(r.events)] <=> Holds(r)
<1>1. \A b \in Budgets, m, n \in Nat : b = [frames |-> m, bytes |-> n] <=> BudgetIs(b, m, n)
  BY DEF Budgets, BudgetIs
<1>2. QED
  BY <1>1, ChannelFields, Zenon DEF Holds

\* The invariant of the budget, of any values: the queues have their types
\* and BudgetAccounted holds.
BudgetOf(b, ctl, out, dsp, r) ==
    /\ b \in Budgets /\ ctl \in Seq(ControlWrites) /\ out \in Seq(OutWrites)
    /\ dsp \in Seq(Tasks) /\ r \in ChannelType
    /\ BudgetIs(b, Len(ctl) + Len(out) + Len(dsp) + r.queued.frames,
                BytesOf(ctl) + BytesOf(out) + BytesOf(dsp) + r.queued.bytes)
    /\ b.frames <= MaxQueuedFramesTotal /\ b.bytes <= MaxQueuedBytesTotal
    /\ Holds(r) \/ Discarded(r)

LEMMA BudgetNow == BudgetInv <=> BudgetOf(queued, control, outbound, dispatchQueue, ch)
BY HoldsForm, Zenon
   DEF BudgetInv, QueueType, BudgetAccounted, ChannelHolds, BudgetOf, BudgetIs, Discarded

LEMMA BudgetThen ==
  BudgetInv' <=> BudgetOf(queued', control', outbound', dispatchQueue', ch')
BY HoldsForm, Zenon
   DEF BudgetInv, QueueType, BudgetAccounted, ChannelHolds, BudgetOf, BudgetIs, Discarded

LEMMA BudgetNumbers ==
  ASSUME NEW b, NEW ctl, NEW out, NEW dsp, NEW r, BudgetOf(b, ctl, out, dsp, r)
  PROVE  /\ Len(ctl) \in Nat /\ Len(out) \in Nat /\ Len(dsp) \in Nat
         /\ BytesOf(ctl) \in Nat /\ BytesOf(out) \in Nat /\ BytesOf(dsp) \in Nat
         /\ r.queued.frames \in Nat /\ r.queued.bytes \in Nat
BY QueueFields, ChannelFields, KindsOfQueues, Zenon DEF BudgetOf

LEMMA LimitFields ==
  /\ MaxQueuedFramesTotal \in Nat /\ MaxQueuedBytesTotal \in Nat
  /\ MaxQueuedFramesPerChannel \in Nat /\ MaxQueuedBytesPerChannel \in Nat
BY CoreAssumption

LEMMA PlusBounds ==
  ASSUME NEW b \in Budgets, NEW n \in Nat,
         1 <= MaxQueuedFramesTotal - b.frames, n <= MaxQueuedBytesTotal - b.bytes
  PROVE  /\ Plus(b, n) \in Budgets
         /\ Plus(b, n).frames <= MaxQueuedFramesTotal
         /\ Plus(b, n).bytes <= MaxQueuedBytesTotal
<1>1. b.frames \in Nat /\ b.bytes \in Nat
  BY BudgetFields
<1>2. /\ Plus(b, n) \in Budgets /\ Plus(b, n).frames = b.frames + 1
      /\ Plus(b, n).bytes = b.bytes + n
  BY PlusType, Zenon
<1>3. QED
  BY <1>1, <1>2, LimitFields

LEMMA MinusBounds ==
  ASSUME NEW b \in Budgets, NEW m \in Nat, NEW n \in Nat,
         b.frames <= MaxQueuedFramesTotal, b.bytes <= MaxQueuedBytesTotal
  PROVE  /\ Minus(b, m, n) \in Budgets
         /\ Minus(b, m, n).frames <= MaxQueuedFramesTotal
         /\ Minus(b, m, n).bytes <= MaxQueuedBytesTotal
<1>1. b.frames \in Nat /\ b.bytes \in Nat
  BY BudgetFields
<1>2. /\ Minus(b, m, n) \in Budgets
      /\ Minus(b, m, n).frames = IF m > b.frames THEN 0 ELSE b.frames - m
      /\ Minus(b, m, n).bytes = IF n > b.bytes THEN 0 ELSE b.bytes - n
  BY MinusType, Zenon
<1>3. QED
  BY <1>1, <1>2, LimitFields

\* A frame more in one of the four places that hold budget.
LEMMA SumMore ==
  ASSUME NEW b \in Budgets, NEW n \in Nat,
         NEW l1 \in Nat, NEW l2 \in Nat, NEW l3 \in Nat, NEW l4 \in Nat,
         NEW y1 \in Nat, NEW y2 \in Nat, NEW y3 \in Nat, NEW y4 \in Nat,
         BudgetIs(b, l1 + l2 + l3 + l4, y1 + y2 + y3 + y4),
         1 <= MaxQueuedFramesTotal - b.frames, n <= MaxQueuedBytesTotal - b.bytes
  PROVE  /\ Plus(b, n) \in Budgets
         /\ Plus(b, n).frames <= MaxQueuedFramesTotal
         /\ Plus(b, n).bytes <= MaxQueuedBytesTotal
         /\ BudgetIs(Plus(b, n), (l1 + 1) + l2 + l3 + l4, (y1 + n) + y2 + y3 + y4)
         /\ BudgetIs(Plus(b, n), l1 + (l2 + 1) + l3 + l4, y1 + (y2 + n) + y3 + y4)
         /\ BudgetIs(Plus(b, n), l1 + l2 + (l3 + 1) + l4, y1 + y2 + (y3 + n) + y4)
         /\ BudgetIs(Plus(b, n), l1 + l2 + l3 + (l4 + 1), y1 + y2 + y3 + (y4 + n))
<1>1. b.frames = l1 + l2 + l3 + l4 /\ b.bytes = y1 + y2 + y3 + y4
  BY DEF BudgetIs
<1>2. /\ Plus(b, n) \in Budgets /\ Plus(b, n).frames = b.frames + 1
      /\ Plus(b, n).bytes = b.bytes + n
  BY PlusType
<1>3. Plus(b, n).frames <= MaxQueuedFramesTotal /\ Plus(b, n).bytes <= MaxQueuedBytesTotal
  BY <1>1, <1>2, LimitFields
<1>4. QED
  BY <1>1, <1>2, <1>3 DEF BudgetIs

LEMMA SumBound ==
  ASSUME NEW b \in Budgets,
         NEW l1 \in Nat, NEW l2 \in Nat, NEW l3 \in Nat, NEW l4 \in Nat,
         NEW y1 \in Nat, NEW y2 \in Nat, NEW y3 \in Nat, NEW y4 \in Nat,
         BudgetIs(b, l1 + l2 + l3 + l4, y1 + y2 + y3 + y4)
  PROVE  /\ l1 <= b.frames /\ l2 <= b.frames /\ l3 <= b.frames /\ l4 <= b.frames
         /\ y1 <= b.bytes /\ y2 <= b.bytes /\ y3 <= b.bytes /\ y4 <= b.bytes
<1>1. b.frames = l1 + l2 + l3 + l4 /\ b.bytes = y1 + y2 + y3 + y4
  BY DEF BudgetIs
<1>2. QED
  BY <1>1

\* m frames of n bytes less in one of the four places.
LEMMA SumLess ==
  ASSUME NEW b \in Budgets, NEW m \in Nat, NEW n \in Nat,
         NEW l1 \in Nat, NEW l2 \in Nat, NEW l3 \in Nat, NEW l4 \in Nat,
         NEW y1 \in Nat, NEW y2 \in Nat, NEW y3 \in Nat, NEW y4 \in Nat,
         BudgetIs(b, l1 + l2 + l3 + l4, y1 + y2 + y3 + y4),
         b.frames <= MaxQueuedFramesTotal, b.bytes <= MaxQueuedBytesTotal,
         m <= b.frames, n <= b.bytes
  PROVE  /\ Minus(b, m, n) \in Budgets
         /\ Minus(b, m, n).frames <= MaxQueuedFramesTotal
         /\ Minus(b, m, n).bytes <= MaxQueuedBytesTotal
         /\ BudgetIs(Minus(b, m, n), (l1 - m) + l2 + l3 + l4, (y1 - n) + y2 + y3 + y4)
         /\ BudgetIs(Minus(b, m, n), l1 + (l2 - m) + l3 + l4, y1 + (y2 - n) + y3 + y4)
         /\ BudgetIs(Minus(b, m, n), l1 + l2 + (l3 - m) + l4, y1 + y2 + (y3 - n) + y4)
         /\ BudgetIs(Minus(b, m, n), l1 + l2 + l3 + (l4 - m), y1 + y2 + y3 + (y4 - n))
<1>1. b.frames = l1 + l2 + l3 + l4 /\ b.bytes = y1 + y2 + y3 + y4
  BY DEF BudgetIs
<1>2. /\ Minus(b, m, n) \in Budgets
      /\ Minus(b, m, n).frames = IF m > b.frames THEN 0 ELSE b.frames - m
      /\ Minus(b, m, n).bytes = IF n > b.bytes THEN 0 ELSE b.bytes - n
  BY MinusType
<1>4. /\ Minus(b, m, n).frames = b.frames - m /\ Minus(b, m, n).bytes = b.bytes - n
  BY <1>1, <1>2
<1>5. Minus(b, m, n).frames <= MaxQueuedFramesTotal
      /\ Minus(b, m, n).bytes <= MaxQueuedBytesTotal
  BY <1>1, <1>4, LimitFields
<1>6. QED
  BY <1>1, <1>2, <1>4, <1>5 DEF BudgetIs

\* b has room for a frame of n bytes.
HasRoom(b, n) ==
    1 <= MaxQueuedFramesTotal - b.frames /\ n <= MaxQueuedBytesTotal - b.bytes

LEMMA MoreControl ==
  ASSUME NEW b, NEW ctl, NEW out, NEW dsp, NEW r, BudgetOf(b, ctl, out, dsp, r),
         NEW w \in ControlWrites, HasRoom(b, Size[w.kind])
  PROVE  BudgetOf(Plus(b, Size[w.kind]), Append(ctl, w), out, dsp, r)
<1> DEFINE n == Size[w.kind]
<1>1. n \in Nat /\ b \in Budgets /\ HasRoom(b, n)
  BY KindsOfQueues, SizeType DEF BudgetOf
<1>2. BudgetIs(b, Len(ctl) + Len(out) + Len(dsp) + r.queued.frames,
               BytesOf(ctl) + BytesOf(out) + BytesOf(dsp) + r.queued.bytes)
  BY Zenon DEF BudgetOf
<1>3. /\ Append(ctl, w) \in Seq(ControlWrites) /\ Len(Append(ctl, w)) = Len(ctl) + 1
      /\ BytesOf(Append(ctl, w)) = BytesOf(ctl) + n
  BY BytesAppend, KindsOfQueues, Zenon DEF BudgetOf
<1> HIDE DEF n
<1>4. /\ Plus(b, n) \in Budgets
      /\ Plus(b, n).frames <= MaxQueuedFramesTotal /\ Plus(b, n).bytes <= MaxQueuedBytesTotal
      /\ BudgetIs(Plus(b, n), (Len(ctl) + 1) + Len(out) + Len(dsp) + r.queued.frames,
                  (BytesOf(ctl) + n) + BytesOf(out) + BytesOf(dsp) + r.queued.bytes)
  <2>1. 1 <= MaxQueuedFramesTotal - b.frames /\ n <= MaxQueuedBytesTotal - b.bytes
    BY <1>1, Zenon DEF HasRoom
  <2>2. /\ Len(ctl) \in Nat /\ Len(out) \in Nat /\ Len(dsp) \in Nat
        /\ BytesOf(ctl) \in Nat /\ BytesOf(out) \in Nat /\ BytesOf(dsp) \in Nat
        /\ r.queued.frames \in Nat /\ r.queued.bytes \in Nat
    BY BudgetNumbers, Zenon
  <2>3. QED
    BY <2>1, <2>2, <1>1, <1>2, SumMore, ZenonT(60)
<1>5. QED
  BY <1>3, <1>4, Zenon DEF BudgetOf, n

LEMMA MoreOutbound ==
  ASSUME NEW b, NEW ctl, NEW out, NEW dsp, NEW r, BudgetOf(b, ctl, out, dsp, r),
         NEW w \in OutWrites, HasRoom(b, Size[w.kind])
  PROVE  BudgetOf(Plus(b, Size[w.kind]), ctl, Append(out, w), dsp, r)
<1> DEFINE n == Size[w.kind]
<1>1. n \in Nat /\ b \in Budgets /\ HasRoom(b, n)
  BY KindsOfQueues, SizeType DEF BudgetOf
<1>2. BudgetIs(b, Len(ctl) + Len(out) + Len(dsp) + r.queued.frames,
               BytesOf(ctl) + BytesOf(out) + BytesOf(dsp) + r.queued.bytes)
  BY Zenon DEF BudgetOf
<1>3. /\ Append(out, w) \in Seq(OutWrites) /\ Len(Append(out, w)) = Len(out) + 1
      /\ BytesOf(Append(out, w)) = BytesOf(out) + n
  BY BytesAppend, KindsOfQueues, Zenon DEF BudgetOf
<1> HIDE DEF n
<1>4. /\ Plus(b, n) \in Budgets
      /\ Plus(b, n).frames <= MaxQueuedFramesTotal /\ Plus(b, n).bytes <= MaxQueuedBytesTotal
      /\ BudgetIs(Plus(b, n), Len(ctl) + (Len(out) + 1) + Len(dsp) + r.queued.frames,
                  BytesOf(ctl) + (BytesOf(out) + n) + BytesOf(dsp) + r.queued.bytes)
  <2>1. 1 <= MaxQueuedFramesTotal - b.frames /\ n <= MaxQueuedBytesTotal - b.bytes
    BY <1>1, Zenon DEF HasRoom
  <2>2. /\ Len(ctl) \in Nat /\ Len(out) \in Nat /\ Len(dsp) \in Nat
        /\ BytesOf(ctl) \in Nat /\ BytesOf(out) \in Nat /\ BytesOf(dsp) \in Nat
        /\ r.queued.frames \in Nat /\ r.queued.bytes \in Nat
    BY BudgetNumbers, Zenon
  <2>3. QED
    BY <2>1, <2>2, <1>1, <1>2, SumMore, ZenonT(60)
<1>5. QED
  BY <1>3, <1>4, Zenon DEF BudgetOf, n

LEMMA MoreTasks ==
  ASSUME NEW b, NEW ctl, NEW out, NEW dsp, NEW r, BudgetOf(b, ctl, out, dsp, r),
         NEW m \in Tasks, HasRoom(b, Size[m.kind])
  PROVE  BudgetOf(Plus(b, Size[m.kind]), ctl, out, Append(dsp, m), r)
<1> DEFINE n == Size[m.kind]
<1>1. n \in Nat /\ b \in Budgets /\ HasRoom(b, n)
  BY KindsOfQueues, SizeType DEF BudgetOf
<1>2. BudgetIs(b, Len(ctl) + Len(out) + Len(dsp) + r.queued.frames,
               BytesOf(ctl) + BytesOf(out) + BytesOf(dsp) + r.queued.bytes)
  BY Zenon DEF BudgetOf
<1>3. /\ Append(dsp, m) \in Seq(Tasks) /\ Len(Append(dsp, m)) = Len(dsp) + 1
      /\ BytesOf(Append(dsp, m)) = BytesOf(dsp) + n
  BY BytesAppend, KindsOfQueues, Zenon DEF BudgetOf
<1> HIDE DEF n
<1>4. /\ Plus(b, n) \in Budgets
      /\ Plus(b, n).frames <= MaxQueuedFramesTotal /\ Plus(b, n).bytes <= MaxQueuedBytesTotal
      /\ BudgetIs(Plus(b, n), Len(ctl) + Len(out) + (Len(dsp) + 1) + r.queued.frames,
                  BytesOf(ctl) + BytesOf(out) + (BytesOf(dsp) + n) + r.queued.bytes)
  <2>1. 1 <= MaxQueuedFramesTotal - b.frames /\ n <= MaxQueuedBytesTotal - b.bytes
    BY <1>1, Zenon DEF HasRoom
  <2>2. /\ Len(ctl) \in Nat /\ Len(out) \in Nat /\ Len(dsp) \in Nat
        /\ BytesOf(ctl) \in Nat /\ BytesOf(out) \in Nat /\ BytesOf(dsp) \in Nat
        /\ r.queued.frames \in Nat /\ r.queued.bytes \in Nat
    BY BudgetNumbers, Zenon
  <2>3. QED
    BY <2>1, <2>2, <1>1, <1>2, SumMore, ZenonT(60)
<1>5. QED
  BY <1>3, <1>4, Zenon DEF BudgetOf, n

LEMMA LessControl ==
  ASSUME NEW b, NEW ctl, NEW out, NEW dsp, NEW r, BudgetOf(b, ctl, out, dsp, r), ctl # <<>>
  PROVE  BudgetOf(Minus(b, 1, Size[Head(ctl).kind]), Tail(ctl), out, dsp, r)
<1> DEFINE n == Size[Head(ctl).kind]
<1>1. /\ Head(ctl) \in ControlWrites /\ Tail(ctl) \in Seq(ControlWrites) /\ Len(Tail(ctl)) = Len(ctl) - 1
      /\ Len(ctl) > 0 /\ BytesOf(Tail(ctl)) = BytesOf(ctl) - n /\ n <= BytesOf(ctl)
  BY BytesTail, KindsOfQueues, Zenon DEF BudgetOf
<1>2. n \in Nat
  BY <1>1, KindsOfQueues, SizeType
<1>3. /\ b \in Budgets /\ b.frames <= MaxQueuedFramesTotal /\ b.bytes <= MaxQueuedBytesTotal
      /\ BudgetIs(b, Len(ctl) + Len(out) + Len(dsp) + r.queued.frames,
                  BytesOf(ctl) + BytesOf(out) + BytesOf(dsp) + r.queued.bytes)
  BY Zenon DEF BudgetOf
<1> HIDE DEF n
<1>7. Len(ctl) <= b.frames /\ BytesOf(ctl) <= b.bytes
  BY <1>3, BudgetNumbers, SumBound, ZenonT(60)
<1>4. 1 \in Nat /\ 1 <= b.frames /\ n <= b.bytes
  <2>1. Len(ctl) \in Nat /\ BytesOf(ctl) \in Nat /\ b.frames \in Nat /\ b.bytes \in Nat
    BY <1>3, BudgetNumbers, BudgetFields, Zenon
  <2>2. QED
    BY <2>1, <1>1, <1>2, <1>7
<1>8. /\ Len(ctl) \in Nat /\ Len(out) \in Nat /\ Len(dsp) \in Nat
      /\ BytesOf(ctl) \in Nat /\ BytesOf(out) \in Nat /\ BytesOf(dsp) \in Nat
      /\ r.queued.frames \in Nat /\ r.queued.bytes \in Nat
  BY BudgetNumbers, Zenon
<1>5. /\ Minus(b, 1, n) \in Budgets
      /\ Minus(b, 1, n).frames <= MaxQueuedFramesTotal
      /\ Minus(b, 1, n).bytes <= MaxQueuedBytesTotal
  BY <1>2, <1>3, <1>4, MinusBounds, Zenon
<1>9. BudgetIs(Minus(b, 1, n), (Len(ctl) - 1) + Len(out) + Len(dsp) + r.queued.frames,
                (BytesOf(ctl) - n) + BytesOf(out) + BytesOf(dsp) + r.queued.bytes)
  BY <1>2, <1>3, <1>4, <1>8, SumLess, ZenonT(60)
<1>6. QED
  BY <1>1, <1>5, <1>9, Zenon DEF BudgetOf, n

LEMMA LessOutbound ==
  ASSUME NEW b, NEW ctl, NEW out, NEW dsp, NEW r, BudgetOf(b, ctl, out, dsp, r), out # <<>>
  PROVE  BudgetOf(Minus(b, 1, Size[Head(out).kind]), ctl, Tail(out), dsp, r)
<1> DEFINE n == Size[Head(out).kind]
<1>1. /\ Head(out) \in OutWrites /\ Tail(out) \in Seq(OutWrites) /\ Len(Tail(out)) = Len(out) - 1
      /\ Len(out) > 0 /\ BytesOf(Tail(out)) = BytesOf(out) - n /\ n <= BytesOf(out)
  BY BytesTail, KindsOfQueues, Zenon DEF BudgetOf
<1>2. n \in Nat
  BY <1>1, KindsOfQueues, SizeType
<1>3. /\ b \in Budgets /\ b.frames <= MaxQueuedFramesTotal /\ b.bytes <= MaxQueuedBytesTotal
      /\ BudgetIs(b, Len(ctl) + Len(out) + Len(dsp) + r.queued.frames,
                  BytesOf(ctl) + BytesOf(out) + BytesOf(dsp) + r.queued.bytes)
  BY Zenon DEF BudgetOf
<1> HIDE DEF n
<1>7. Len(out) <= b.frames /\ BytesOf(out) <= b.bytes
  BY <1>3, BudgetNumbers, SumBound, ZenonT(60)
<1>4. 1 \in Nat /\ 1 <= b.frames /\ n <= b.bytes
  <2>1. Len(out) \in Nat /\ BytesOf(out) \in Nat /\ b.frames \in Nat /\ b.bytes \in Nat
    BY <1>3, BudgetNumbers, BudgetFields, Zenon
  <2>2. QED
    BY <2>1, <1>1, <1>2, <1>7
<1>8. /\ Len(ctl) \in Nat /\ Len(out) \in Nat /\ Len(dsp) \in Nat
      /\ BytesOf(ctl) \in Nat /\ BytesOf(out) \in Nat /\ BytesOf(dsp) \in Nat
      /\ r.queued.frames \in Nat /\ r.queued.bytes \in Nat
  BY BudgetNumbers, Zenon
<1>5. /\ Minus(b, 1, n) \in Budgets
      /\ Minus(b, 1, n).frames <= MaxQueuedFramesTotal
      /\ Minus(b, 1, n).bytes <= MaxQueuedBytesTotal
  BY <1>2, <1>3, <1>4, MinusBounds, Zenon
<1>9. BudgetIs(Minus(b, 1, n), Len(ctl) + (Len(out) - 1) + Len(dsp) + r.queued.frames,
                BytesOf(ctl) + (BytesOf(out) - n) + BytesOf(dsp) + r.queued.bytes)
  BY <1>2, <1>3, <1>4, <1>8, SumLess, ZenonT(60)
<1>6. QED
  BY <1>1, <1>5, <1>9, Zenon DEF BudgetOf, n

LEMMA LessTasks ==
  ASSUME NEW b, NEW ctl, NEW out, NEW dsp, NEW r, BudgetOf(b, ctl, out, dsp, r), dsp # <<>>
  PROVE  BudgetOf(Minus(b, 1, Size[Head(dsp).kind]), ctl, out, Tail(dsp), r)
<1> DEFINE n == Size[Head(dsp).kind]
<1>1. /\ Head(dsp) \in Tasks /\ Tail(dsp) \in Seq(Tasks) /\ Len(Tail(dsp)) = Len(dsp) - 1
      /\ Len(dsp) > 0 /\ BytesOf(Tail(dsp)) = BytesOf(dsp) - n /\ n <= BytesOf(dsp)
  BY BytesTail, KindsOfQueues, Zenon DEF BudgetOf
<1>2. n \in Nat
  BY <1>1, KindsOfQueues, SizeType
<1>3. /\ b \in Budgets /\ b.frames <= MaxQueuedFramesTotal /\ b.bytes <= MaxQueuedBytesTotal
      /\ BudgetIs(b, Len(ctl) + Len(out) + Len(dsp) + r.queued.frames,
                  BytesOf(ctl) + BytesOf(out) + BytesOf(dsp) + r.queued.bytes)
  BY Zenon DEF BudgetOf
<1> HIDE DEF n
<1>7. Len(dsp) <= b.frames /\ BytesOf(dsp) <= b.bytes
  BY <1>3, BudgetNumbers, SumBound, ZenonT(60)
<1>4. 1 \in Nat /\ 1 <= b.frames /\ n <= b.bytes
  <2>1. Len(dsp) \in Nat /\ BytesOf(dsp) \in Nat /\ b.frames \in Nat /\ b.bytes \in Nat
    BY <1>3, BudgetNumbers, BudgetFields, Zenon
  <2>2. QED
    BY <2>1, <1>1, <1>2, <1>7
<1>8. /\ Len(ctl) \in Nat /\ Len(out) \in Nat /\ Len(dsp) \in Nat
      /\ BytesOf(ctl) \in Nat /\ BytesOf(out) \in Nat /\ BytesOf(dsp) \in Nat
      /\ r.queued.frames \in Nat /\ r.queued.bytes \in Nat
  BY BudgetNumbers, Zenon
<1>5. /\ Minus(b, 1, n) \in Budgets
      /\ Minus(b, 1, n).frames <= MaxQueuedFramesTotal
      /\ Minus(b, 1, n).bytes <= MaxQueuedBytesTotal
  BY <1>2, <1>3, <1>4, MinusBounds, Zenon
<1>9. BudgetIs(Minus(b, 1, n), Len(ctl) + Len(out) + (Len(dsp) - 1) + r.queued.frames,
                BytesOf(ctl) + BytesOf(out) + (BytesOf(dsp) - n) + r.queued.bytes)
  BY <1>2, <1>3, <1>4, <1>8, SumLess, ZenonT(60)
<1>6. QED
  BY <1>1, <1>5, <1>9, Zenon DEF BudgetOf, n

\* A frame more in the channel.
LEMMA MoreInChannel ==
  ASSUME NEW b, NEW ctl, NEW out, NEW dsp, NEW r, BudgetOf(b, ctl, out, dsp, r),
         NEW c \in ChannelType, NEW n \in Nat, HasRoom(b, n),
         c.queued = Plus(r.queued, n), Holds(c)
  PROVE  BudgetOf(Plus(b, n), ctl, out, dsp, c)
<1>1. /\ b \in Budgets /\ r.queued \in Budgets
      /\ 1 <= MaxQueuedFramesTotal - b.frames /\ n <= MaxQueuedBytesTotal - b.bytes
  BY ChannelFields, Zenon DEF BudgetOf, HasRoom
<1>2. BudgetIs(b, Len(ctl) + Len(out) + Len(dsp) + r.queued.frames,
               BytesOf(ctl) + BytesOf(out) + BytesOf(dsp) + r.queued.bytes)
  BY Zenon DEF BudgetOf
<1>3. c.queued.frames = r.queued.frames + 1 /\ c.queued.bytes = r.queued.bytes + n
  BY <1>1, PlusType
<1>4. /\ Plus(b, n) \in Budgets
      /\ Plus(b, n).frames <= MaxQueuedFramesTotal /\ Plus(b, n).bytes <= MaxQueuedBytesTotal
  BY <1>1, PlusBounds, Zenon
<1>5. /\ Len(ctl) \in Nat /\ Len(out) \in Nat /\ Len(dsp) \in Nat
      /\ BytesOf(ctl) \in Nat /\ BytesOf(out) \in Nat /\ BytesOf(dsp) \in Nat
      /\ r.queued.frames \in Nat /\ r.queued.bytes \in Nat
  BY BudgetNumbers, Zenon
<1>6. BudgetIs(Plus(b, n), Len(ctl) + Len(out) + Len(dsp) + (r.queued.frames + 1),
               BytesOf(ctl) + BytesOf(out) + BytesOf(dsp) + (r.queued.bytes + n))
  BY <1>1, <1>2, <1>5, SumMore, ZenonT(60)
<1>7. QED
  BY <1>3, <1>4, <1>6, Zenon DEF BudgetOf

\* Frames less in the channel.
LEMMA LessInChannel ==
  ASSUME NEW b, NEW ctl, NEW out, NEW dsp, NEW r, BudgetOf(b, ctl, out, dsp, r),
         NEW c \in ChannelType, NEW m \in Nat, NEW n \in Nat,
         m <= r.queued.frames, n <= r.queued.bytes,
         c.queued.frames = r.queued.frames - m, c.queued.bytes = r.queued.bytes - n,
         Holds(c) \/ Discarded(c)
  PROVE  BudgetOf(Minus(b, m, n), ctl, out, dsp, c)
<1>1. /\ b \in Budgets /\ b.frames <= MaxQueuedFramesTotal /\ b.bytes <= MaxQueuedBytesTotal
      /\ BudgetIs(b, Len(ctl) + Len(out) + Len(dsp) + r.queued.frames,
                  BytesOf(ctl) + BytesOf(out) + BytesOf(dsp) + r.queued.bytes)
  BY Zenon DEF BudgetOf
<1>2. /\ Len(ctl) \in Nat /\ Len(out) \in Nat /\ Len(dsp) \in Nat
      /\ BytesOf(ctl) \in Nat /\ BytesOf(out) \in Nat /\ BytesOf(dsp) \in Nat
      /\ r.queued.frames \in Nat /\ r.queued.bytes \in Nat
  BY BudgetNumbers, Zenon
<1>3. r.queued.frames <= b.frames /\ r.queued.bytes <= b.bytes
  BY <1>1, <1>2, SumBound, ZenonT(60)
<1>4. m <= b.frames /\ n <= b.bytes
  <2>1. r.queued.frames \in Nat /\ r.queued.bytes \in Nat /\ b.frames \in Nat /\ b.bytes \in Nat
    BY <1>1, <1>2, BudgetFields, Zenon
  <2>2. QED
    BY <1>3, <2>1
<1>5. /\ Minus(b, m, n) \in Budgets
      /\ Minus(b, m, n).frames <= MaxQueuedFramesTotal
      /\ Minus(b, m, n).bytes <= MaxQueuedBytesTotal
  BY <1>1, MinusBounds, Zenon
<1>6. BudgetIs(Minus(b, m, n), Len(ctl) + Len(out) + Len(dsp) + (r.queued.frames - m),
               BytesOf(ctl) + BytesOf(out) + BytesOf(dsp) + (r.queued.bytes - n))
  BY <1>1, <1>4, <1>2, SumLess, ZenonT(60)
<1>7. QED
  BY <1>5, <1>6, Zenon DEF BudgetOf

LEMMA EventHeld ==
  ASSUME NEW r \in ChannelType, NEW c \in ChannelType, NEW e \in Events, Holds(r),
         c.frames = r.frames, c.events = Append(r.events, e),
         c.queued = Plus(r.queued, Size[e.kind])
  PROVE  Holds(c) /\ Size[e.kind] \in Nat
<1> DEFINE n == Size[e.kind]
<1>1. n \in Nat
  BY KindsOfQueues, SizeType
<1>2. r.events \in Seq(Events) /\ r.queued \in Budgets
  BY ChannelFields, Zenon
<1>3. Len(c.events) = Len(r.events) + 1 /\ BytesOf(c.events) = BytesOf(r.events) + n
  <2>1. /\ Len(Append(r.events, e)) = Len(r.events) + 1
        /\ BytesOf(Append(r.events, e)) = BytesOf(r.events) + n
    BY <1>2, BytesAppend, KindsOfQueues, Zenon
  <2>2. QED
    BY <2>1
<1> HIDE DEF n
<1>4. c.queued.frames = r.queued.frames + 1 /\ c.queued.bytes = r.queued.bytes + n
  <2>1. c.queued = Plus(r.queued, n)
    BY DEF n
  <2>2. /\ Plus(r.queued, n).frames = r.queued.frames + 1
        /\ Plus(r.queued, n).bytes = r.queued.bytes + n
    BY <1>1, <1>2, PlusType, Zenon
  <2>3. QED
    BY <2>1, <2>2
<1>5. /\ r.queued.frames = Len(r.frames) + Len(r.events)
      /\ r.queued.bytes = Total(r.frames) + BytesOf(r.events)
  BY Zenon DEF Holds, BudgetIs
<1>6. /\ Len(r.frames) \in Nat /\ Len(r.events) \in Nat /\ 1 \in Nat
      /\ Total(r.frames) \in Nat /\ BytesOf(r.events) \in Nat
  BY ChannelFields, Zenon
<1>7. \A l, y, k \in Nat : (l + y) + k = l + (y + k)
  OBVIOUS
<1>8. (Len(r.frames) + Len(r.events)) + 1 = Len(r.frames) + (Len(r.events) + 1)
  BY <1>6, <1>7, Zenon
<1>9. (Total(r.frames) + BytesOf(r.events)) + n = Total(r.frames) + (BytesOf(r.events) + n)
  BY <1>1, <1>6, <1>7, Zenon
<1>10. Holds(c)
  BY <1>3, <1>4, <1>5, <1>8, <1>9, Zenon DEF Holds, BudgetIs
<1>11. QED
  BY <1>1, <1>10 DEF n

LEMMA DataHeld ==
  ASSUME NEW r \in ChannelType, NEW c \in ChannelType, NEW n \in Nat, Holds(r),
         c.frames = Append(r.frames, n), c.events = r.events, c.queued = Plus(r.queued, n)
  PROVE  Holds(c)
<1>1. r.frames \in Seq(Nat) /\ r.queued \in Budgets
  BY ChannelFields, Zenon
<1>2. Total(c.frames) = Total(r.frames) + n
  BY <1>1, TotalAppend, Zenon
<1>3. Len(c.frames) = Len(r.frames) + 1
  BY <1>1
<1>4. c.queued.frames = r.queued.frames + 1 /\ c.queued.bytes = r.queued.bytes + n
  <2>1. /\ Plus(r.queued, n).frames = r.queued.frames + 1
        /\ Plus(r.queued, n).bytes = r.queued.bytes + n
    BY <1>1, PlusType, Zenon
  <2>2. QED
    BY <2>1
<1>5. /\ r.queued.frames = Len(r.frames) + Len(r.events)
      /\ r.queued.bytes = Total(r.frames) + BytesOf(r.events)
  BY Zenon DEF Holds, BudgetIs
<1>6. /\ Len(r.frames) \in Nat /\ Len(r.events) \in Nat /\ 1 \in Nat
      /\ Total(r.frames) \in Nat /\ BytesOf(r.events) \in Nat
  BY ChannelFields, Zenon
<1>7. \A l, y, k \in Nat : (l + y) + k = (l + k) + y
  OBVIOUS
<1>8. (Len(r.frames) + Len(r.events)) + 1 = (Len(r.frames) + 1) + Len(r.events)
  BY <1>6, <1>7, Zenon
<1>9. (Total(r.frames) + BytesOf(r.events)) + n = (Total(r.frames) + n) + BytesOf(r.events)
  BY <1>6, <1>7, Zenon
<1>10. QED
  BY <1>2, <1>3, <1>4, <1>5, <1>8, <1>9, Zenon DEF Holds, BudgetIs

\* Something of n bytes leaves a queue of the channel: what it holds goes
\* back, nothing after a discard (releaseQueuedLocked).
LEMMA Release ==
  ASSUME NEW b, NEW ctl, NEW out, NEW dsp, NEW r, BudgetOf(b, ctl, out, dsp, r),
         NEW c \in ChannelType, NEW n \in Nat, c.queued = Minus(r.queued, 1, n),
         c.state = r.state, c.canceled = r.canceled,
         Holds(r) => /\ 1 <= r.queued.frames /\ n <= r.queued.bytes
                     /\ Len(c.frames) + Len(c.events) = r.queued.frames - 1
                     /\ Total(c.frames) + BytesOf(c.events) = r.queued.bytes - n
  PROVE  BudgetOf(Minus(b, Least(1, r.queued.frames), Least(n, r.queued.bytes)),
                  ctl, out, dsp, c)
<1>1. /\ r.queued \in Budgets /\ r.queued.frames \in Nat /\ r.queued.bytes \in Nat
      /\ 1 \in Nat
  BY ChannelFields DEF BudgetOf
<1>2. /\ c.queued \in Budgets
      /\ c.queued.frames = IF 1 > r.queued.frames THEN 0 ELSE r.queued.frames - 1
      /\ c.queued.bytes = IF n > r.queued.bytes THEN 0 ELSE r.queued.bytes - n
  <2> DEFINE v == Minus(r.queued, 1, n)
  <2>1. /\ v \in Budgets
        /\ v.frames = IF 1 > r.queued.frames THEN 0 ELSE r.queued.frames - 1
        /\ v.bytes = IF n > r.queued.bytes THEN 0 ELSE r.queued.bytes - n
    BY <1>1, MinusType, Zenon
  <2>2. c.queued = v
    OBVIOUS
  <2> HIDE DEF v
  <2>3. QED
    BY <2>1, <2>2
<1>3. CASE Holds(r)
  <2>1. /\ c.queued.frames = r.queued.frames - 1 /\ c.queued.bytes = r.queued.bytes - n
        /\ Least(1, r.queued.frames) = 1 /\ Least(n, r.queued.bytes) = n
    BY <1>1, <1>2, <1>3 DEF Least
  <2>2. Holds(c)
    BY <1>3, <2>1, Zenon DEF Holds, BudgetIs
  <2>3. BudgetOf(Minus(b, 1, n), ctl, out, dsp, c)
    BY <1>1, <1>3, <2>1, <2>2, LessInChannel, Zenon
  <2>4. QED
    BY <2>1, <2>3, Zenon
<1>4. CASE Discarded(r)
  <2>1. r.queued.frames = 0 /\ r.queued.bytes = 0
    BY <1>4, Constants DEF Discarded
  <2>2. /\ c.queued.frames = 0 /\ c.queued.bytes = 0
        /\ Least(1, r.queued.frames) = 0 /\ Least(n, r.queued.bytes) = 0
        /\ 0 \in Nat /\ 0 - 0 = 0 /\ 0 <= 0
    BY <1>2, <2>1 DEF Least
  <2>3. c.queued = Nothing
    BY <1>2, <2>2 DEF Budgets, Nothing
  <2>4. Discarded(c)
    BY <2>3, <1>4, Zenon DEF Discarded
  <2>5. BudgetOf(Minus(b, 0, 0), ctl, out, dsp, c)
    BY <2>1, <2>2, <2>4, LessInChannel, Zenon
  <2>6. QED
    BY <2>2, <2>5, Zenon
<1>5. QED
  BY <1>3, <1>4, Zenon DEF BudgetOf

LEMMA Discard ==
  ASSUME NEW b, NEW ctl, NEW out, NEW dsp, NEW r, BudgetOf(b, ctl, out, dsp, r),
         NEW c \in ChannelType, c.queued = Nothing, c.canceled, c.state \notin allowsRequests
  PROVE  BudgetOf(Minus(b, r.queued.frames, r.queued.bytes), ctl, out, dsp, c)
<1> DEFINE m == r.queued.frames
           n == r.queued.bytes
<1>1. m \in Nat /\ n \in Nat
  BY BudgetNumbers
<1>2. c.queued.frames = 0 /\ c.queued.bytes = 0
  BY Constants
<1>3. m <= m /\ n <= n /\ c.queued.frames = m - m /\ c.queued.bytes = n - n
  BY <1>1, <1>2
<1>4. QED
  BY <1>1, <1>3, LessInChannel, Zenon DEF Discarded

\* The channel's queues and budget are as they were.
Quiet(r, n) ==
    /\ n.frames = r.frames /\ n.events = r.events /\ n.queued = r.queued
    /\ r.canceled => n.canceled
    /\ n.state \in allowsRequests => r.state \in allowsRequests

LEMMA Keeps ==
  ASSUME NEW b, NEW ctl, NEW out, NEW dsp, NEW r, BudgetOf(b, ctl, out, dsp, r),
         NEW c \in ChannelType, Quiet(r, c)
  PROVE  BudgetOf(b, ctl, out, dsp, c)
BY Zenon DEF BudgetOf, Quiet, Holds, Discarded

LEMMA WithdrawType ==
  ASSUME outbound \in Seq(OutWrites), NEW who
  PROVE  /\ Withdraw(who) \in Seq(OutWrites) /\ Len(Withdraw(who)) = Len(outbound)
         /\ DOMAIN Withdraw(who) = DOMAIN outbound
         /\ \A i \in DOMAIN outbound :
               /\ Withdraw(who)[i].kind = outbound[i].kind
               /\ Withdraw(who)[i].waits = outbound[i].waits
               /\ Withdraw(who)[i].id = outbound[i].id
               /\ Withdraw(who)[i].reply = outbound[i].reply
               /\ Withdraw(who)[i].canceled <=> (outbound[i].canceled \/ outbound[i].waits = who)
<1> DEFINE q == Withdraw(who)
<1>1. ASSUME NEW w \in OutWrites, NEW b \in BOOLEAN
      PROVE  LET v == [w EXCEPT !.canceled = b]
             IN  /\ v \in OutWrites /\ v.kind = w.kind /\ v.waits = w.waits /\ v.id = w.id
                 /\ v.reply = w.reply /\ v.canceled = b
  BY DEF OutWrites, Writes
<1>2. DOMAIN q = 1..Len(outbound) /\ DOMAIN outbound = 1..Len(outbound)
  BY DEF Withdraw
<1>3. ASSUME NEW i \in DOMAIN outbound
      PROVE  /\ q[i] \in OutWrites /\ q[i].kind = outbound[i].kind
             /\ q[i].waits = outbound[i].waits /\ q[i].id = outbound[i].id
             /\ q[i].reply = outbound[i].reply
             /\ q[i].canceled <=> (outbound[i].canceled \/ outbound[i].waits = who)
  <2>1. outbound[i] \in OutWrites
    OBVIOUS
  <2>2. q[i] = [outbound[i] EXCEPT !.canceled = outbound[i].canceled \/ outbound[i].waits = who]
    BY DEF Withdraw
  <2>3. (outbound[i].canceled \/ outbound[i].waits = who) \in BOOLEAN
    OBVIOUS
  <2>4. QED
    BY <1>1, <2>1, <2>2, <2>3, Zenon
<1>4. q \in [1..Len(outbound) -> OutWrites]
  BY <1>2, <1>3 DEF Withdraw
<1>5. q \in Seq(OutWrites) /\ Len(q) = Len(outbound)
  BY <1>4
<1>6. QED
  BY <1>2, <1>3, <1>5, Zenon

LEMMA WithdrawKeeps ==
  ASSUME NEW who, BudgetOf(queued, control, outbound, dispatchQueue, ch)
  PROVE  BudgetOf(queued, control, Withdraw(who), dispatchQueue, ch)
<1>1. outbound \in Seq(OutWrites)
  BY DEF BudgetOf
<1>2. /\ Withdraw(who) \in Seq(OutWrites) /\ Len(Withdraw(who)) = Len(outbound)
      /\ BytesOf(Withdraw(who)) = BytesOf(outbound)
  BY <1>1, WithdrawType, BytesSame, Zenon
<1>3. QED
  BY <1>2, Zenon DEF BudgetOf

-----------------------------------------------------------------------------
(* The writes and events the actions put in the queues have their types.   *)

LEMMA WriteFields ==
  ASSUME NEW k \in Kinds, NEW id \in Callers \cup Nat, NEW b \in BOOLEAN,
         NEW x \in Callers \cup {None, "dispatcher", "worker"}, NEW f \in BOOLEAN
  PROVE  LET w == [kind |-> k, id |-> id, reply |-> b, waits |-> x, canceled |-> f]
         IN  /\ w \in Writes /\ w.kind = k /\ w.id = id /\ w.reply = b /\ w.waits = x
             /\ w.canceled = f
BY DEF Writes

IsWrite(w, k, id, b, x) ==
    w \in Writes /\ w.kind = k /\ w.id = id /\ w.reply = b /\ w.waits = x /\ ~w.canceled

LEMMA AnyWrite ==
  ASSUME NEW k \in Kinds, NEW id \in Callers \cup Nat, NEW b \in BOOLEAN,
         NEW x \in Callers \cup {None, "dispatcher", "worker"}
  PROVE  IsWrite(Write(k, id, b, x), k, id, b, x)
<1>1. FALSE \in BOOLEAN
  OBVIOUS
<1>2. QED
  BY <1>1, WriteFields, Zenon DEF Write, IsWrite

LEMMA ControlWriteType ==
  ASSUME NEW k \in ResultKinds \cup {"close", "disconnect"}, NEW id \in Nat
  PROVE  LET w == Write(k, id, FALSE, None)
         IN  w \in ControlWrites /\ w.kind = k /\ w.id = id
<1>1. k \in Kinds /\ id \in Callers \cup Nat /\ FALSE \in BOOLEAN
      /\ None \in Callers \cup {None, "dispatcher", "worker"}
  BY DEF Kinds, ResultKinds
<1> DEFINE w == Write(k, id, FALSE, None)
<1>2. IsWrite(w, k, id, FALSE, None)
  BY <1>1, AnyWrite, Zenon
<1> HIDE DEF w
<1>3. w \in ControlWrites /\ w.kind = k /\ w.id = id
  BY <1>2, Zenon DEF ControlWrites, IsWrite
<1>4. QED
  BY <1>3, Zenon DEF w

LEMMA NoWriteType ==
  NoWrite \in ControlWrites /\ NoWrite.kind = "disconnect" /\ NoWrite.waits = None
  /\ NoWrite.id = 0
<1>1. "disconnect" \in ResultKinds \cup {"close", "disconnect"} /\ 0 \in Nat
  OBVIOUS
<1>2. NoWrite \in ControlWrites /\ NoWrite.kind = "disconnect" /\ NoWrite.id = 0
  BY <1>1, ControlWriteType, Zenon DEF NoWrite
<1>3. QED
  BY <1>2 DEF ControlWrites

LEMMA CallWriteType ==
  ASSUME NEW c \in Callers, NEW b \in BOOLEAN
  PROVE  LET w == Write(RequestKind(c), c, b, c)
         IN  /\ w \in OutWrites /\ w.kind = RequestKind(c) /\ w.waits = c /\ w.reply = b
             /\ ~w.canceled
<1>1. RequestKind(c) \in Kinds /\ c \in Callers \cup Nat
      /\ c \in Callers \cup {None, "dispatcher", "worker"}
  BY DEF RequestKind, Kinds, RequestKinds
<1> DEFINE w == Write(RequestKind(c), c, b, c)
<1>2. IsWrite(w, RequestKind(c), c, b, c)
  BY <1>1, AnyWrite, Zenon
<1> HIDE DEF w
<1>3. w \in OutWrites
  BY <1>2, Zenon DEF OutWrites, IsWrite
<1>4. QED
  BY <1>2, <1>3, Zenon DEF w, IsWrite

LEMMA ReplyWriteType ==
  ASSUME NEW id \in Nat
  PROVE  LET w == Write("globalResult", id, FALSE, "dispatcher")
             v == Write("channelResult", id, FALSE, "worker")
         IN  /\ w \in OutWrites /\ w.kind = "globalResult" /\ w.waits = "dispatcher"
             /\ w.id = id /\ ~w.canceled
             /\ v \in OutWrites /\ v.kind = "channelResult" /\ v.waits = "worker"
             /\ v.id = id /\ ~v.canceled
<1>1. /\ "globalResult" \in Kinds /\ "channelResult" \in Kinds /\ id \in Callers \cup Nat
      /\ FALSE \in BOOLEAN
      /\ "dispatcher" \in Callers \cup {None, "dispatcher", "worker"}
      /\ "worker" \in Callers \cup {None, "dispatcher", "worker"}
  BY DEF Kinds, ResultKinds
<1> DEFINE w == Write("globalResult", id, FALSE, "dispatcher")
           v == Write("channelResult", id, FALSE, "worker")
<1>2. IsWrite(w, "globalResult", id, FALSE, "dispatcher")
  BY <1>1, AnyWrite, Zenon
<1>3. IsWrite(v, "channelResult", id, FALSE, "worker")
  BY <1>1, AnyWrite, Zenon
<1> HIDE DEF w, v
<1>4. w \in OutWrites /\ v \in OutWrites
  BY <1>2, <1>3, Zenon DEF OutWrites, IsWrite
<1>5. QED
  BY <1>2, <1>3, <1>4, Zenon DEF w, v, IsWrite

\* The frame the receiver takes.
LEMMA HeadOfWire ==
  ASSUME PeerType, NEW kind, Receives(kind)
  PROVE  /\ Head(wire) \in PeerFrames /\ Head(wire).kind = kind /\ wire # <<>>
         /\ wire' = Tail(wire) /\ wire' \in Seq(PeerFrames)
<1>1. wire \in Seq(PeerFrames) /\ wire # <<>> /\ wire' = Tail(wire) /\ Head(wire).kind = kind
  BY Zenon DEF PeerType, Receives
<1>2. Head(wire) \in PeerFrames /\ Tail(wire) \in Seq(PeerFrames)
  BY <1>1
<1>3. QED
  BY <1>1, <1>2, Zenon

LEMMA FramesToQueues ==
  /\ \A m \in PeerFrames : m.kind = "globalRequest" => m \in Tasks
  /\ \A m \in PeerFrames : m.kind \in EventKinds => m \in Events
  /\ \A m \in PeerFrames : m.kind \notin ResultKinds => m.id \in Nat
  /\ \A m \in PeerFrames : m.reply \in BOOLEAN
  /\ \A m \in PeerFrames : m.kind \in ResultKinds => m.id \in Callers
BY DEF PeerFrames, Tasks, Events, Msgs, EventKinds, ResultKinds, Callers

LEMMA TakesEventChannel ==
  ASSUME NEW c \in ChannelType, NEW m \in Events
  PROVE  IsChannel(TakesEvent(m, c), c.state, c.inTable, c.canceled, c.frames,
                   Append(c.events, m), Plus(c.queued, Size[m.kind]), c.pending, c.incoming)
<1>1. Size[m.kind] \in Nat
  BY KindsOfQueues, SizeType
<1>2. c.events \in Seq(Events) /\ c.queued \in Budgets
  BY ChannelFields, Zenon
<1>3. Append(c.events, m) \in Seq(Events)
  BY <1>2
<1>4. Plus(c.queued, Size[m.kind]) \in Budgets
  BY <1>1, <1>2, PlusType, Zenon
<1>5. TakesEvent(m, c) = [c EXCEPT !.events = Append(c.events, m),
                                   !.queued = Plus(c.queued, Size[m.kind])]
  BY Zenon DEF TakesEvent
<1>6. QED
  BY <1>3, <1>4, <1>5, ChannelEvents, Zenon

LEMMA ReceiveChannelResultChannel ==
  ASSUME ch \in ChannelType, ReceiveChannelResult
  PROVE  IsChannel(ch', ch.state, ch.inTable, ch.canceled, ch.frames, ch.events, ch.queued,
                   IF InTable THEN ch.pending \ {Head(wire).id} ELSE ch.pending,
                   ch.incoming)
<1>1. IsChannel([ch EXCEPT !.pending = ch.pending \ {Head(wire).id}],
                ch.state, ch.inTable, ch.canceled, ch.frames, ch.events, ch.queued,
                ch.pending \ {Head(wire).id}, ch.incoming)
  BY DEF IsChannel, ChannelType
<1>2. IsChannel(ch, ch.state, ch.inTable, ch.canceled, ch.frames, ch.events, ch.queued,
                ch.pending, ch.incoming)
  BY DEF IsChannel
<1>3. CASE InTable /\ Head(wire).id \in ch.pending
  <2>1. ch' = [ch EXCEPT !.pending = ch.pending \ {Head(wire).id}]
    BY <1>3 DEF ReceiveChannelResult
  <2>2. QED
    BY <1>1, <1>3, <2>1, Zenon
<1>4. CASE ~(InTable /\ Head(wire).id \in ch.pending)
  <2>1. ch' = ch
    BY <1>4, Zenon DEF ReceiveChannelResult
  <2>2. InTable => ch.pending \ {Head(wire).id} = ch.pending
    BY <1>4
  <2>3. QED
    BY <1>2, <2>1, <2>2, Zenon
<1>5. QED
  BY <1>3, <1>4, Zenon

\* The channel with a request of the peer's remembered.
Mine(m) == IF m.reply THEN [ch EXCEPT !.incoming = @ \cup {m.id}] ELSE ch

LEMMA MineChannel ==
  ASSUME ch \in ChannelType, NEW m \in PeerFrames, m.kind = "channelRequest"
  PROVE  IsChannel(Mine(m), ch.state, ch.inTable, ch.canceled, ch.frames, ch.events,
                   ch.queued, ch.pending,
                   IF m.reply THEN ch.incoming \cup {m.id} ELSE ch.incoming)
<1>1. m.id \in Nat
  BY FramesToQueues DEF ResultKinds
<1>2. QED
  BY <1>1 DEF Mine, IsChannel, ChannelType

LEMMA StateChannel ==
  ASSUME ch \in ChannelType, NEW s \in States
  PROVE  IsChannel([ch EXCEPT !.state = s], s, ch.inTable, ch.canceled, ch.frames,
                   ch.events, ch.queued, ch.pending, ch.incoming)
BY DEF IsChannel, ChannelType

LEMMA RemovedChannel ==
  ASSUME NEW r \in ChannelType
  PROVE  IsChannel([r EXCEPT !.inTable = FALSE], r.state, FALSE, r.canceled, r.frames,
                   r.events, r.queued, r.pending, r.incoming)
<1>1. ASSUME NEW t \in BOOLEAN
      PROVE  IsChannel([r EXCEPT !.inTable = t], r.state, t, r.canceled, r.frames,
                       r.events, r.queued, r.pending, r.incoming)
  BY DEF IsChannel, ChannelType
<1>2. QED
  BY <1>1, Zenon

-----------------------------------------------------------------------------
(* Every step keeps the budget.                                            *)

Budgeted == BudgetOf(queued, control, outbound, dispatchQueue, ch)

LEMMA BudgetSame ==
  ASSUME Budgeted, UNCHANGED <<queued, control, outbound, dispatchQueue>>,
         ch' = ch \/ (ch' \in ChannelType /\ Quiet(ch, ch'))
  PROVE  Budgeted'
<1>1. BudgetOf(queued, control, outbound, dispatchQueue, ch')
  <2>1. CASE ch' = ch
    BY <2>1, Zenon DEF Budgeted
  <2>2. CASE ch' \in ChannelType /\ Quiet(ch, ch')
    BY <2>2, Keeps, Zenon DEF Budgeted
  <2>3. QED
    BY <2>1, <2>2
<1>2. QED
  BY <1>1, Zenon DEF Budgeted

LEMMA RefusalNone ==
  ASSUME NEW kind, Refusal(kind) = None
  PROVE  HasRoom(queued, Size[kind]) /\ ~queuesClosed
BY DEF Refusal, HasBudget, HasRoom, None

LEMMA BudgetControl ==
  ASSUME Budgeted, NEW w \in ControlWrites, HasRoom(queued, Size[w.kind]),
         EnqueueControl(w), ch' = ch \/ (ch' \in ChannelType /\ Quiet(ch, ch'))
  PROVE  Budgeted'
<1>1. BudgetOf(Plus(queued, Size[w.kind]), Append(control, w), outbound, dispatchQueue, ch)
  BY MoreControl, Zenon DEF Budgeted
<1>2. BudgetOf(Plus(queued, Size[w.kind]), Append(control, w), outbound, dispatchQueue, ch')
  BY <1>1, Keeps, Zenon
<1>3. QED
  BY <1>2, Zenon DEF Budgeted, EnqueueControl

LEMMA BudgetOutbound ==
  ASSUME Budgeted, NEW w \in OutWrites, HasRoom(queued, Size[w.kind]),
         EnqueueOutbound(w), ch' = ch
  PROVE  Budgeted'
<1>1. BudgetOf(Plus(queued, Size[w.kind]), control, Append(outbound, w), dispatchQueue, ch)
  BY MoreOutbound, Zenon DEF Budgeted
<1>2. QED
  BY <1>1, Zenon DEF Budgeted, EnqueueOutbound

LEMMA BudgetWithdraw ==
  ASSUME Budgeted, NEW who, outbound' = Withdraw(who),
         UNCHANGED <<queued, control, dispatchQueue>>,
         ch' = ch \/ (ch' \in ChannelType /\ Quiet(ch, ch'))
  PROVE  Budgeted'
<1>1. BudgetOf(queued, control, Withdraw(who), dispatchQueue, ch)
  BY WithdrawKeeps, Zenon DEF Budgeted
<1>2. BudgetOf(queued, control, Withdraw(who), dispatchQueue, ch')
  BY <1>1, Keeps, Zenon
<1>3. QED
  BY <1>2, Zenon DEF Budgeted

LEMMA BudgetShutdown ==
  ASSUME Types, Budgeted, ShutdownNext
  PROVE  Budgeted'
<1>1. CASE ShutdownCancel
  <2>1. CASE cause = "protocol" /\ Refusal("disconnect") = None
    <3>1. EnqueueControl(NoWrite) /\ ch' = ch
      BY <1>1, <2>1, Zenon DEF ShutdownCancel
    <3>2. HasRoom(queued, Size[NoWrite.kind])
      BY <2>1, RefusalNone, NoWriteType, Zenon
    <3>3. QED
      BY <3>1, <3>2, NoWriteType, BudgetControl, Zenon
  <2>2. CASE ~(cause = "protocol" /\ Refusal("disconnect") = None)
    <3>1. UNCHANGED <<queued, control, outbound, dispatchQueue>> /\ ch' = ch
      BY <1>1, <2>2, Zenon DEF ShutdownCancel, budgetVars
    <3>2. QED
      BY <3>1, BudgetSame, Zenon
  <2>3. QED
    BY <2>1, <2>2
<1>2. CASE ShutdownFinish
  <2>1. CASE ch.inTable
    <3>1. IsChannel(ch', IF ch.state = "closed" THEN ch.state ELSE "failed", FALSE, TRUE,
                    <<>>, ch.events, Nothing, {}, ch.incoming)
      BY <1>2, <2>1, ShutdownFinishChannel, Zenon DEF Types
    <3>2. /\ ch' \in ChannelType /\ ch'.queued = Nothing /\ ch'.canceled
          /\ ch'.state = IF ch.state = "closed" THEN ch.state ELSE "failed"
      BY <3>1, Zenon DEF IsChannel
    <3>3. ch'.state \notin allowsRequests
      BY <3>2 DEF allowsRequests
    <3>4. BudgetOf(DiscardQueued, control, outbound, dispatchQueue, ch')
      BY <3>2, <3>3, Discard, Zenon DEF DiscardQueued, Budgeted
    <3>5. QED
      BY <1>2, <2>1, <3>4, Zenon DEF ShutdownFinish, Budgeted
  <2>2. CASE ~ch.inTable
    <3>1. UNCHANGED <<queued, control, outbound, dispatchQueue>> /\ ch' = ch
      BY <1>2, <2>2, Zenon DEF ShutdownFinish
    <3>2. QED
      BY <3>1, BudgetSame, Zenon
  <2>3. QED
    BY <2>1, <2>2
<1>3. CASE FinalizeClose \/ DisconnectTimeout \/ FinalizeDone \/ SessionClose
           \/ ParentCancel \/ ParentShutdown
  <2>1. UNCHANGED <<queued, control, outbound, dispatchQueue>> /\ ch' = ch
    BY <1>3, Zenon DEF FinalizeClose, DisconnectTimeout, FinalizeDone, SessionClose,
                       ParentCancel, ParentShutdown, budgetVars
  <2>2. QED
    BY <2>1, BudgetSame, Zenon
<1>4. QED
  BY <1>1, <1>2, <1>3, Zenon DEF ShutdownNext

\* An IsChannel with the same queues, budget, and state is quiet.
LEMMA IsQuiet ==
  ASSUME NEW r, NEW n, NEW t, NEW p, NEW i,
         IsChannel(n, r.state, t, r.canceled, r.frames, r.events, r.queued, p, i)
  PROVE  n \in ChannelType /\ Quiet(r, n)
BY Zenon DEF IsChannel, Quiet

LEMMA BudgetWriter ==
  ASSUME Types, Budgeted, WriterNext
  PROVE  Budgeted'
<1>1. CASE WriterPoll \/ WriterStop
  <2>1. UNCHANGED <<queued, control, outbound, dispatchQueue>> /\ ch' = ch
    BY <1>1, Zenon DEF WriterPoll, WriterStop, budgetVars
  <2>2. QED
    BY <2>1, BudgetSame, Zenon
<1>2. CASE WriterTakeControl
  <2>1. BudgetOf(Minus(queued, 1, Size[Head(control).kind]), Tail(control), outbound,
                 dispatchQueue, ch)
    BY <1>2, LessControl, Zenon DEF Budgeted, WriterTakeControl
  <2>2. QED
    BY <1>2, <2>1, Zenon DEF Budgeted, WriterTakeControl
<1>3. CASE WriterTakeOutbound
  <2>1. BudgetOf(Minus(queued, 1, Size[Head(outbound).kind]), control, Tail(outbound),
                 dispatchQueue, ch)
    BY <1>3, LessOutbound, Zenon DEF Budgeted, WriterTakeOutbound
  <2>2. QED
    BY <1>3, <2>1, Zenon DEF Budgeted, WriterTakeOutbound
<1>4. CASE WriterSend
  <2>1. UNCHANGED <<queued, control, outbound, dispatchQueue>> /\ Written(writer.msg)
    BY <1>4, Zenon DEF WriterSend, budgetVars
  <2>2. ch' \in ChannelType /\ Quiet(ch, ch')
    BY <2>1, WriterSendChannel, IsQuiet, Zenon DEF Types
  <2>3. QED
    BY <2>1, <2>2, BudgetSame, Zenon
<1>5. CASE WriterFail
  <2>1. UNCHANGED <<queued, control, outbound, dispatchQueue>>
    BY <1>5, Zenon DEF WriterFail, budgetVars
  <2>2. ch' \in ChannelType /\ Quiet(ch, ch')
    BY <1>5, WriterFailChannel, IsQuiet, Zenon DEF Types
  <2>3. QED
    BY <2>1, <2>2, BudgetSame, Zenon
<1>6. QED
  BY <1>1, <1>2, <1>3, <1>4, <1>5, Zenon DEF WriterNext

LEMMA BudgetCall ==
  ASSUME Types, Budgeted, CallNext
  PROVE  Budgeted'
<1>1. ASSUME NEW c \in GlobalCallers, NEW reply \in BOOLEAN, GlobalCall(c, reply)
      PROVE  Budgeted'
  <2>1. UNCHANGED <<queued, control, outbound, dispatchQueue>> /\ ch' = ch
    BY <1>1, Zenon DEF GlobalCall, budgetVars
  <2>2. QED
    BY <2>1, BudgetSame, Zenon
<1>2. ASSUME NEW c \in ChannelCallers, NEW reply \in BOOLEAN, ChannelCall(c, reply)
      PROVE  Budgeted'
  <2>1. UNCHANGED <<queued, control, outbound, dispatchQueue>>
    BY <1>2, Zenon DEF ChannelCall, budgetVars
  <2>2. ch' \in ChannelType /\ Quiet(ch, ch')
    BY <1>2, ChannelCallChannel, IsQuiet, Zenon DEF Types
  <2>3. QED
    BY <2>1, <2>2, BudgetSame, Zenon
<1>3. ASSUME NEW c \in Callers, CallQueue(c)
      PROVE  Budgeted'
  <2> DEFINE w == Write(RequestKind(c), c, call[c].reply, c)
  <2>1. call[c].reply \in BOOLEAN
    BY DEF Types, CallType
  <2>2. w \in OutWrites /\ w.kind = RequestKind(c)
    BY <2>1, CallWriteType, Zenon
  <2>3. EnqueueOutbound(w) /\ Refusal(RequestKind(c)) = None /\ ch' = ch
    BY <1>3, Zenon DEF CallQueue
  <2> HIDE DEF w
  <2>4. HasRoom(queued, Size[w.kind])
    BY <2>2, <2>3, RefusalNone, Zenon
  <2>5. QED
    BY <2>2, <2>3, <2>4, BudgetOutbound, Zenon
<1>4. ASSUME NEW c \in Callers, CallRefused(c) \/ CallGiveUp(c)
      PROVE  Budgeted'
  <2>1. UNCHANGED <<queued, control, outbound, dispatchQueue>> /\ Leave(c)
    BY <1>4, Zenon DEF CallRefused, CallGiveUp, budgetVars
  <2>2. ch' \in ChannelType /\ Quiet(ch, ch')
    BY <2>1, LeaveChannel, IsQuiet, Zenon DEF Types
  <2>3. QED
    BY <2>1, <2>2, BudgetSame, Zenon
<1>5. ASSUME NEW c \in Callers, CallWithdraw(c)
      PROVE  Budgeted'
  <2>1. outbound' = Withdraw(c) /\ UNCHANGED <<queued, control, dispatchQueue>> /\ Leave(c)
    BY <1>5, Zenon DEF CallWithdraw
  <2>2. ch' \in ChannelType /\ Quiet(ch, ch')
    BY <2>1, LeaveChannel, IsQuiet, Zenon DEF Types
  <2>3. QED
    BY <2>1, <2>2, BudgetWithdraw, Zenon
<1>6. QED
  BY <1>1, <1>2, <1>3, <1>4, <1>5, Zenon DEF CallNext

\* A frame leaves the queue of Recv, or an event that of the worker.
LEMMA FrameReleased ==
  ASSUME NEW r \in ChannelType, r.frames # <<>>, Holds(r)
  PROVE  /\ 1 <= r.queued.frames /\ Head(r.frames) <= r.queued.bytes
         /\ Len(Tail(r.frames)) + Len(r.events) = r.queued.frames - 1
         /\ Total(Tail(r.frames)) + BytesOf(r.events) = r.queued.bytes - Head(r.frames)
<1>1. /\ r.frames \in Seq(Nat) /\ Len(r.frames) \in Nat /\ Len(r.events) \in Nat
      /\ Total(r.frames) \in Nat /\ BytesOf(r.events) \in Nat
  BY ChannelFields, Zenon
<1>2. /\ r.queued.frames = Len(r.frames) + Len(r.events)
      /\ r.queued.bytes = Total(r.frames) + BytesOf(r.events)
  BY Zenon DEF Holds, BudgetIs
<1>3. /\ Total(Tail(r.frames)) = Total(r.frames) - Head(r.frames)
      /\ Head(r.frames) <= Total(r.frames)
  BY <1>1, TotalTail, Zenon
<1>4. Len(Tail(r.frames)) = Len(r.frames) - 1 /\ 1 <= Len(r.frames) /\ Head(r.frames) \in Nat
      /\ 1 \in Nat
  BY <1>1
<1> DEFINE lf == Len(r.frames)
           lt == Len(Tail(r.frames))
           le == Len(r.events)
           yf == Total(r.frames)
           yt == Total(Tail(r.frames))
           ye == BytesOf(r.events)
           h == Head(r.frames)
<1>5. /\ lf \in Nat /\ le \in Nat /\ yf \in Nat /\ ye \in Nat /\ h \in Nat
      /\ r.queued.frames = lf + le /\ r.queued.bytes = yf + ye
      /\ lt = lf - 1 /\ 1 <= lf /\ yt = yf - h /\ h <= yf
  BY <1>1, <1>2, <1>3, <1>4, Zenon
<1> HIDE DEF lf, lt, le, yf, yt, ye, h
<1>6. /\ 1 <= r.queued.frames /\ h <= r.queued.bytes
      /\ lt + le = r.queued.frames - 1 /\ yt + ye = r.queued.bytes - h
  BY <1>5
<1>7. QED
  BY <1>6, Zenon DEF lf, lt, le, yf, yt, ye, h

LEMMA EventReleased ==
  ASSUME NEW r \in ChannelType, r.events # <<>>, Holds(r)
  PROVE  LET n == Size[Head(r.events).kind]
         IN  /\ 1 <= r.queued.frames /\ n <= r.queued.bytes
             /\ Len(r.frames) + Len(Tail(r.events)) = r.queued.frames - 1
             /\ Total(r.frames) + BytesOf(Tail(r.events)) = r.queued.bytes - n
<1> DEFINE n == Size[Head(r.events).kind]
<1>1. /\ r.events \in Seq(Events) /\ Len(r.frames) \in Nat /\ Len(r.events) \in Nat
      /\ Total(r.frames) \in Nat /\ BytesOf(r.events) \in Nat
  BY ChannelFields, Zenon
<1>2. /\ r.queued.frames = Len(r.frames) + Len(r.events)
      /\ r.queued.bytes = Total(r.frames) + BytesOf(r.events)
  BY Zenon DEF Holds, BudgetIs
<1>3. /\ Head(r.events) \in Events
      /\ BytesOf(Tail(r.events)) = BytesOf(r.events) - n /\ n <= BytesOf(r.events)
  BY <1>1, BytesTail, KindsOfQueues, Zenon
<1>4. n \in Nat
  BY <1>3, KindsOfQueues, SizeType
<1> HIDE DEF n
<1>5. Len(Tail(r.events)) = Len(r.events) - 1 /\ 1 <= Len(r.events) /\ 1 \in Nat
  BY <1>1
<1> DEFINE lf == Len(r.frames)
           lt == Len(Tail(r.events))
           le == Len(r.events)
           yf == Total(r.frames)
           yt == BytesOf(Tail(r.events))
           ye == BytesOf(r.events)
<1>6. /\ lf \in Nat /\ le \in Nat /\ yf \in Nat /\ ye \in Nat /\ n \in Nat
      /\ r.queued.frames = lf + le /\ r.queued.bytes = yf + ye
      /\ lt = le - 1 /\ 1 <= le /\ yt = ye - n /\ n <= ye
  BY <1>1, <1>2, <1>3, <1>4, <1>5, Zenon
<1> HIDE DEF lf, lt, le, yf, yt, ye
<1>7. /\ 1 <= r.queued.frames /\ n <= r.queued.bytes
      /\ lf + lt = r.queued.frames - 1 /\ yf + yt = r.queued.bytes - n
  BY <1>6
<1>8. QED
  BY <1>7, Zenon DEF lf, lt, le, yf, yt, ye, n

LEMMA BudgetChannel ==
  ASSUME Types, Budgeted, ChannelNext
  PROVE  Budgeted'
<1>0. ch \in ChannelType
  BY DEF Types
<1>1. CASE Recv
  <2>1. IsChannel(ch', ch.state, ch.inTable, ch.canceled, Tail(ch.frames), ch.events,
                  Minus(ch.queued, 1, Head(ch.frames)), ch.pending, ch.incoming)
    BY <1>0, <1>1, RecvChannel, Zenon
  <2>2. /\ ch' \in ChannelType /\ ch'.queued = Minus(ch.queued, 1, Head(ch.frames))
        /\ ch'.state = ch.state /\ ch'.canceled = ch.canceled
        /\ ch'.frames = Tail(ch.frames) /\ ch'.events = ch.events
    BY <2>1, Zenon DEF IsChannel
  <2>3. ch.frames \in Seq(Nat) /\ ch.frames # <<>>
    BY <1>0, <1>1, ChannelFields, Zenon DEF Recv
  <2>4. Head(ch.frames) \in Nat
    BY <2>3
  <2>5. Holds(ch) => /\ 1 <= ch.queued.frames /\ Head(ch.frames) <= ch.queued.bytes
                     /\ Len(ch'.frames) + Len(ch'.events) = ch.queued.frames - 1
                     /\ Total(ch'.frames) + BytesOf(ch'.events)
                           = ch.queued.bytes - Head(ch.frames)
    BY <1>0, <2>2, <2>3, FrameReleased, Zenon
  <2>6. BudgetOf(ReleaseQueued(Head(ch.frames)), control, outbound, dispatchQueue, ch')
    BY <2>2, <2>4, <2>5, Release, Zenon DEF Budgeted, ReleaseQueued
  <2>7. QED
    BY <1>1, <2>6, Zenon DEF Recv, Budgeted
<1>2. CASE RecvEnd
  <2>1. UNCHANGED <<queued, control, outbound, dispatchQueue>>
    BY <1>2, Zenon DEF RecvEnd, budgetVars
  <2>2. ch' \in ChannelType /\ Quiet(ch, ch')
    BY <1>0, <1>2, RecvEndChannel, Zenon DEF IsChannel, Quiet
  <2>3. QED
    BY <2>1, <2>2, BudgetSame, Zenon
<1>3. CASE ChannelClose
  <2>1. /\ ch' \in ChannelType /\ ch'.queued = Nothing /\ ch'.canceled
        /\ ch'.state = "closing"
    BY <1>0, <1>3, ChannelCloseChannel, Zenon DEF IsChannel
  <2>2. ch'.state \notin allowsRequests
    BY <2>1 DEF allowsRequests
  <2>3. BudgetOf(DiscardQueued, control, outbound, dispatchQueue, ch')
    BY <2>1, <2>2, Discard, Zenon DEF DiscardQueued, Budgeted
  <2>4. QED
    BY <1>3, <2>3, Zenon DEF ChannelClose, Budgeted
<1>4. CASE CloseQueue
  <2> DEFINE w == Write("close", 0, FALSE, None)
  <2>1. CASE Refusal("close") = None
    <3>1. "close" \in ResultKinds \cup {"close", "disconnect"} /\ 0 \in Nat
      OBVIOUS
    <3>2. w \in ControlWrites /\ w.kind = "close"
      BY <3>1, ControlWriteType, Zenon
    <3>3. EnqueueControl(w) /\ ch' = ch
      BY <1>4, <2>1, Zenon DEF CloseQueue
    <3> HIDE DEF w
    <3>4. HasRoom(queued, Size[w.kind])
      BY <2>1, <3>2, RefusalNone, Zenon
    <3>5. QED
      BY <3>2, <3>3, <3>4, BudgetControl, Zenon
  <2>2. CASE Refusal("close") # None
    <3>1. UNCHANGED <<queued, control, outbound, dispatchQueue>> /\ ch' = ch
      BY <1>4, <2>2, Zenon DEF CloseQueue, budgetVars
    <3>2. QED
      BY <3>1, BudgetSame, Zenon
  <2>3. QED
    BY <2>1, <2>2
<1>5. CASE CloseTimeout
  <2>1. UNCHANGED <<queued, control, outbound, dispatchQueue>>
    BY <1>5, Zenon DEF CloseTimeout, budgetVars
  <2>2. CASE ch.state = "closing"
    <3>1. IsChannel(ch', "closed", StaysInTable, ch.canceled, ch.frames, ch.events,
                    ch.queued, ch.pending, ch.incoming)
      BY <1>0, <1>5, <2>2, CloseTimeoutChannel, Zenon
    <3>2. "closed" \notin allowsRequests
      BY DEF allowsRequests
    <3>3. ch' \in ChannelType /\ Quiet(ch, ch')
      BY <3>1, <3>2, Zenon DEF IsChannel, Quiet
    <3>4. QED
      BY <2>1, <3>3, BudgetSame, Zenon
  <2>3. CASE ch.state # "closing"
    <3>1. ch' = ch
      BY <1>5, <2>3, Zenon DEF CloseTimeout
    <3>2. QED
      BY <2>1, <3>1, BudgetSame, Zenon
  <2>4. QED
    BY <2>2, <2>3
<1>6. QED
  BY <1>1, <1>2, <1>3, <1>4, <1>5, Zenon DEF ChannelNext

LEMMA BudgetDispatch ==
  ASSUME Types, Budgeted, DispatchNext
  PROVE  Budgeted'
<1>1. CASE DispatchTake
  <2>1. dispatchQueue \in Seq(Tasks) /\ dispatchQueue # <<>>
    BY <1>1, Zenon DEF Types, QueueType, DispatchTake
  <2>2. Head(dispatchQueue) \in Tasks
    BY <2>1
  <2>3. Head(dispatchQueue).kind = "globalRequest"
    BY <2>2, Zenon DEF Tasks
  <2>4. BudgetOf(Minus(queued, 1, Size["globalRequest"]), control, outbound,
                 Tail(dispatchQueue), ch)
    BY <2>1, <2>3, LessTasks, Zenon DEF Budgeted
  <2>5. QED
    BY <1>1, <2>4, Zenon DEF Budgeted, DispatchTake
<1>2. CASE DispatchNoReply \/ DispatchRefused \/ DispatchStop
  <2>1. UNCHANGED <<queued, control, outbound, dispatchQueue>> /\ ch' = ch
    BY <1>2, Zenon DEF DispatchNoReply, DispatchRefused, DispatchStop, budgetVars
  <2>2. QED
    BY <2>1, BudgetSame, Zenon
<1>3. CASE DispatchReply
  <2> DEFINE w == Write("globalResult", dispatcher.id, FALSE, "dispatcher")
  <2>1. dispatcher.id \in Nat
    BY DEF Types, LoopType, DispatcherType
  <2>2. w \in OutWrites /\ w.kind = "globalResult"
    BY <2>1, ReplyWriteType, Zenon
  <2>3. EnqueueOutbound(w) /\ Refusal("globalResult") = None /\ ch' = ch
    BY <1>3, Zenon DEF DispatchReply
  <2> HIDE DEF w
  <2>4. HasRoom(queued, Size[w.kind])
    BY <2>2, <2>3, RefusalNone, Zenon
  <2>5. QED
    BY <2>2, <2>3, <2>4, BudgetOutbound, Zenon
<1>4. CASE DispatchWithdraw
  <2>1. outbound' = Withdraw("dispatcher") /\ UNCHANGED <<queued, control, dispatchQueue>>
        /\ ch' = ch
    BY <1>4, Zenon DEF DispatchWithdraw
  <2>2. QED
    BY <2>1, BudgetWithdraw, Zenon
<1>5. QED
  BY <1>1, <1>2, <1>3, <1>4, Zenon DEF DispatchNext

LEMMA BudgetWorker ==
  ASSUME Types, Budgeted, WorkerNext
  PROVE  Budgeted'
<1>0. ch \in ChannelType
  BY DEF Types
<1>1. CASE WorkerStart \/ WorkerStop \/ WorkerHandled
  <2>1. UNCHANGED <<queued, control, outbound, dispatchQueue>> /\ ch' = ch
    BY <1>1, Zenon DEF WorkerStart, WorkerStop, WorkerHandled, budgetVars
  <2>2. QED
    BY <2>1, BudgetSame, Zenon
<1>2. CASE WorkerTake
  <2> DEFINE n == Size[Head(ch.events).kind]
  <2>1. IsChannel(ch', ch.state, ch.inTable, ch.canceled, ch.frames, Tail(ch.events),
                  Minus(ch.queued, 1, n), ch.pending, ch.incoming)
    BY <1>0, <1>2, WorkerTakeChannel, Zenon
  <2>2. /\ ch' \in ChannelType /\ ch'.queued = Minus(ch.queued, 1, n)
        /\ ch'.state = ch.state /\ ch'.canceled = ch.canceled
        /\ ch'.frames = ch.frames /\ ch'.events = Tail(ch.events)
    BY <2>1, Zenon DEF IsChannel
  <2>3. ch.events \in Seq(Events) /\ ch.events # <<>>
    BY <1>0, <1>2, ChannelFields, Zenon DEF WorkerTake
  <2>4. Head(ch.events) \in Events
    BY <2>3
  <2>5. n \in Nat
    BY <2>4, KindsOfQueues, SizeType
  <2>6. Holds(ch) => /\ 1 <= ch.queued.frames /\ n <= ch.queued.bytes
                     /\ Len(ch'.frames) + Len(ch'.events) = ch.queued.frames - 1
                     /\ Total(ch'.frames) + BytesOf(ch'.events) = ch.queued.bytes - n
    BY <1>0, <2>2, <2>3, EventReleased, Zenon
  <2> HIDE DEF n
  <2>7. BudgetOf(ReleaseQueued(n), control, outbound, dispatchQueue, ch')
    BY <2>2, <2>5, <2>6, Release, Zenon DEF Budgeted, ReleaseQueued
  <2>8. QED
    BY <1>2, <2>7, Zenon DEF WorkerTake, Budgeted, n
<1>3. CASE WorkerClose
  <2>1. UNCHANGED <<queued, control, outbound, dispatchQueue>>
    BY <1>3, Zenon DEF WorkerClose, budgetVars
  <2>2. ch' \in ChannelType /\ Quiet(ch, ch')
    BY <1>0, <1>3, WorkerCloseChannel, Zenon DEF IsChannel, Quiet
  <2>3. QED
    BY <2>1, <2>2, BudgetSame, Zenon
<1>4. CASE WorkerReply
  <2> DEFINE w == Write("channelResult", worker.ev.id, FALSE, "worker")
  <2>1. worker.ev.id \in Nat
    BY DEF Types, LoopType, WorkerType, Events
  <2>2. w \in OutWrites /\ w.kind = "channelResult"
    BY <2>1, ReplyWriteType, Zenon
  <2>3. EnqueueOutbound(w) /\ Refusal("channelResult") = None /\ ch' = ch
    BY <1>4, Zenon DEF WorkerReply
  <2> HIDE DEF w
  <2>4. HasRoom(queued, Size[w.kind])
    BY <2>2, <2>3, RefusalNone, Zenon
  <2>5. QED
    BY <2>2, <2>3, <2>4, BudgetOutbound, Zenon
<1>5. CASE WorkerRefused
  <2>1. UNCHANGED <<queued, control, outbound, dispatchQueue>>
    BY <1>5, Zenon DEF WorkerRefused, budgetVars
  <2>2. \E err : WorkerFail(err)
    BY <1>5, Zenon DEF WorkerRefused
  <2>3. ch' \in ChannelType /\ Quiet(ch, ch')
    BY <1>0, <2>2, WorkerFailChannel, IsQuiet, Zenon
  <2>4. QED
    BY <2>1, <2>3, BudgetSame, Zenon
<1>6. CASE WorkerWithdraw
  <2>1. outbound' = Withdraw("worker") /\ UNCHANGED <<queued, control, dispatchQueue>>
    BY <1>6, Zenon DEF WorkerWithdraw
  <2>2. \E err : WorkerFail(err)
    BY <1>6, Zenon DEF WorkerWithdraw
  <2>3. ch' \in ChannelType /\ Quiet(ch, ch')
    BY <1>0, <2>2, WorkerFailChannel, IsQuiet, Zenon
  <2>4. QED
    BY <2>1, <2>3, BudgetWithdraw, Zenon
<1>7. QED
  BY <1>1, <1>2, <1>3, <1>4, <1>5, <1>6, Zenon DEF WorkerNext

LEMMA BudgetPeer ==
  ASSUME Budgeted, PeerNext
  PROVE  Budgeted'
<1>1. UNCHANGED <<queued, control, outbound, dispatchQueue>> /\ ch' = ch
  BY Zenon DEF PeerNext, PeerSend, PeerAnswer, Break, budgetVars
<1>2. QED
  BY <1>1, BudgetSame, Zenon

\* An event of the peer's is taken: c is the channel with its new state.
LEMMA BudgetEvent ==
  ASSUME Types, Budgeted, NEW m \in Events, NEW c \in ChannelType,
         ch.state \in allowsRequests, HasRoom(queued, Size[m.kind]),
         c.frames = ch.frames, c.events = ch.events, c.queued = ch.queued
  PROVE  BudgetOf(Plus(queued, Size[m.kind]), control, outbound, dispatchQueue,
                  TakesEvent(m, c))
<1> DEFINE n == TakesEvent(m, c)
<1>1. IsChannel(n, c.state, c.inTable, c.canceled, c.frames, Append(c.events, m),
                Plus(c.queued, Size[m.kind]), c.pending, c.incoming)
  BY TakesEventChannel, Zenon
<1> HIDE DEF n
<1>2. /\ n \in ChannelType /\ n.frames = ch.frames /\ n.events = Append(ch.events, m)
      /\ n.queued = Plus(ch.queued, Size[m.kind])
  BY <1>1, Zenon DEF IsChannel
<1>3. Holds(ch)
  BY Zenon DEF Budgeted, BudgetOf, Discarded
<1>4. Holds(n) /\ Size[m.kind] \in Nat
  BY <1>2, <1>3, EventHeld, Zenon DEF Types
<1>5. QED
  BY <1>2, <1>4, MoreInChannel, Zenon DEF Budgeted, n

LEMMA RoomInSession ==
  ASSUME NEW n
  PROVE  /\ HasBudget(n) <=> HasRoom(queued, n)
         /\ ChannelHasBudget(n) => HasRoom(queued, n)
BY Zenon DEF HasBudget, HasRoom, ChannelHasBudget

LEMMA BudgetGlobalRequest ==
  ASSUME Types, Budgeted, ReceiveGlobalRequest
  PROVE  Budgeted'
<1> DEFINE m == Head(wire)
<1>1. Receives("globalRequest") /\ ch' = ch
  BY Zenon DEF ReceiveGlobalRequest
<1>2. m \in Tasks /\ m.kind = "globalRequest" /\ m.id \in Nat
  <2>1. m \in PeerFrames /\ m.kind = "globalRequest"
    BY <1>1, HeadOfWire, Zenon DEF Types
  <2>2. QED
    BY <2>1, FramesToQueues, Zenon DEF Tasks
<1>3. CASE HasBudget(Size["globalRequest"])
  <2>1. /\ dispatchQueue' = Append(dispatchQueue, m)
        /\ queued' = Plus(queued, Size["globalRequest"])
        /\ UNCHANGED <<control, outbound>>
    BY <1>3, Zenon DEF ReceiveGlobalRequest
  <2> HIDE DEF m
  <2>2. HasRoom(queued, Size[m.kind])
    BY <1>2, <1>3, RoomInSession, Zenon
  <2>3. BudgetOf(Plus(queued, Size[m.kind]), control, outbound, Append(dispatchQueue, m), ch)
    BY <1>2, <2>2, MoreTasks, Zenon DEF Budgeted
  <2>4. QED
    BY <1>1, <1>2, <2>1, <2>3, Zenon DEF Budgeted
<1>4. CASE ~HasBudget(Size["globalRequest"]) /\ m.reply /\ Refusal("globalResult") = None
  <2> DEFINE w == Write("globalResult", m.id, FALSE, None)
  <2>1. EnqueueControl(w)
    BY <1>4, Zenon DEF ReceiveGlobalRequest
  <2>2. "globalResult" \in ResultKinds \cup {"close", "disconnect"}
    BY DEF ResultKinds
  <2> HIDE DEF m
  <2>3. w \in ControlWrites /\ w.kind = "globalResult"
    BY <1>2, <2>2, ControlWriteType, Zenon
  <2> HIDE DEF w
  <2>4. HasRoom(queued, Size[w.kind])
    BY <1>4, <2>3, RefusalNone, Zenon
  <2>5. QED
    BY <1>1, <2>1, <2>3, <2>4, BudgetControl, Zenon
<1>5. CASE ~HasBudget(Size["globalRequest"]) /\ ~(m.reply /\ Refusal("globalResult") = None)
  <2>1. UNCHANGED <<queued, control, outbound, dispatchQueue>>
    BY <1>5, Zenon DEF ReceiveGlobalRequest, budgetVars
  <2>2. QED
    BY <1>1, <2>1, BudgetSame, Zenon
<1>6. QED
  BY <1>3, <1>4, <1>5, Zenon

LEMMA BudgetChannelRequest ==
  ASSUME Types, Budgeted, ReceiveChannelRequest
  PROVE  Budgeted'
<1> DEFINE m == Head(wire)
           legal == InTable /\ ch.state \in allowsRequests
           fits == ChannelHasBudget(Size["channelRequest"])
           rejects == m.reply /\ Refusal("channelResult") = None
<1>1. m \in PeerFrames /\ m.kind = "channelRequest" /\ m.id \in Nat
  <2>1. Receives("channelRequest")
    BY Zenon DEF ReceiveChannelRequest
  <2>2. m \in PeerFrames /\ m.kind = "channelRequest"
    BY <2>1, HeadOfWire, Zenon DEF Types
  <2>3. "channelRequest" \notin ResultKinds
    BY DEF ResultKinds
  <2>4. QED
    BY <2>2, <2>3, FramesToQueues, Zenon
<1>2. m \in Events
  <2>1. "channelRequest" \in EventKinds
    BY DEF EventKinds
  <2>2. QED
    BY <1>1, <2>1, FramesToQueues, Zenon
<1>3. IsChannel(Mine(m), ch.state, ch.inTable, ch.canceled, ch.frames, ch.events, ch.queued,
                ch.pending, IF m.reply THEN ch.incoming \cup {m.id} ELSE ch.incoming)
  BY <1>1, MineChannel, Zenon DEF Types
<1>4. /\ Mine(m) \in ChannelType /\ Mine(m).frames = ch.frames
      /\ Mine(m).events = ch.events /\ Mine(m).queued = ch.queued
  BY <1>3, Zenon DEF IsChannel
<1>5. CASE legal /\ fits
  <2>1. ch' = TakesEvent(m, Mine(m)) /\ ReserveEvent(m)
    BY <1>5, Zenon DEF ReceiveChannelRequest, Mine
  <2> HIDE DEF m
  <2>2. HasRoom(queued, Size[m.kind])
    BY <1>1, <1>5, RoomInSession, Zenon
  <2>3. BudgetOf(Plus(queued, Size[m.kind]), control, outbound, dispatchQueue,
                 TakesEvent(m, Mine(m)))
    BY <1>2, <1>4, <1>5, <2>2, BudgetEvent, Zenon
  <2>4. QED
    BY <2>1, <2>3, Zenon DEF Budgeted, ReserveEvent
<1>6. CASE legal /\ ~fits /\ rejects
  <2> DEFINE w == Write("channelResult", m.id, FALSE, None)
  <2>1. ch' = Mine(m) /\ EnqueueControl(w)
    BY <1>6, Zenon DEF ReceiveChannelRequest, Mine
  <2>2. "channelResult" \in ResultKinds \cup {"close", "disconnect"}
    BY DEF ResultKinds
  <2> HIDE DEF m
  <2>3. w \in ControlWrites /\ w.kind = "channelResult"
    BY <1>1, <2>2, ControlWriteType, Zenon
  <2> HIDE DEF w
  <2>4. HasRoom(queued, Size[w.kind])
    BY <1>6, <2>3, RefusalNone, Zenon
  <2>5. ch' \in ChannelType /\ Quiet(ch, ch')
    BY <1>3, <2>1, IsQuiet, Zenon
  <2>6. QED
    BY <2>1, <2>3, <2>4, <2>5, BudgetControl, Zenon
<1>7. CASE ~legal \/ (~fits /\ ~rejects)
  <2>1. UNCHANGED <<queued, control, outbound, dispatchQueue>> /\ ch' = ch
    BY <1>7, Zenon DEF ReceiveChannelRequest, budgetVars
  <2>2. QED
    BY <2>1, BudgetSame, Zenon
<1>8. QED
  BY <1>5, <1>6, <1>7, Zenon

LEMMA BudgetData ==
  ASSUME Types, Budgeted, ReceiveData
  PROVE  Budgeted'
<1> DEFINE n == Size["data"]
           legal == InTable /\ ch.state = "open"
           fits == ChannelHasBudget(n)
<1>1. n \in Nat
  BY SizeType DEF Kinds
<1>2. Head(wire).kind = "data"
  BY HeadOfWire, Zenon DEF Types, ReceiveData
<1>3. CASE legal /\ fits
  <2>1. ch' = [ch EXCEPT !.frames = Append(ch.frames, n), !.queued = Plus(ch.queued, n)]
        /\ ReserveEvent(Head(wire))
    BY <1>3, Zenon DEF ReceiveData
  <2> HIDE DEF n
  <2>2. ch \in ChannelType /\ ch.frames \in Seq(Nat) /\ ch.queued \in Budgets
    BY ChannelFields, Zenon DEF Types
  <2>3. Append(ch.frames, n) \in Seq(Nat)
    BY <1>1, <2>2
  <2>4. Plus(ch.queued, n) \in Budgets
    BY <1>1, <2>2, PlusType, Zenon
  <2>5. IsChannel(ch', ch.state, ch.inTable, ch.canceled, Append(ch.frames, n), ch.events,
                  Plus(ch.queued, n), ch.pending, ch.incoming)
    BY <2>1, <2>2, <2>3, <2>4, ChannelFrames, Zenon
  <2>6. /\ ch' \in ChannelType /\ ch'.frames = Append(ch.frames, n)
        /\ ch'.events = ch.events /\ ch'.queued = Plus(ch.queued, n)
    BY <2>5, Zenon DEF IsChannel
  <2>7. ch.state \in allowsRequests
    BY <1>3 DEF allowsRequests
  <2>8. Holds(ch)
    BY <2>7, Zenon DEF Budgeted, BudgetOf, Discarded
  <2>9. Holds(ch')
    BY <1>1, <2>2, <2>6, <2>8, DataHeld, Zenon
  <2>10. HasRoom(queued, n)
    BY <1>3, RoomInSession, Zenon
  <2>11. BudgetOf(Plus(queued, n), control, outbound, dispatchQueue, ch')
    BY <1>1, <2>6, <2>9, <2>10, MoreInChannel, Zenon DEF Budgeted
  <2>12. QED
    BY <1>2, <2>1, <2>11, Zenon DEF Budgeted, ReserveEvent, n
<1>4. CASE ~(legal /\ fits)
  <2>1. UNCHANGED <<queued, control, outbound, dispatchQueue>> /\ ch' = ch
    BY <1>4, Zenon DEF ReceiveData, budgetVars
  <2>2. QED
    BY <2>1, BudgetSame, Zenon
<1>5. QED
  BY <1>3, <1>4, Zenon

LEMMA BudgetEOF ==
  ASSUME Types, Budgeted, ReceiveChannelEOF
  PROVE  Budgeted'
<1> DEFINE m == Head(wire)
           legal == InTable /\ ch.state = "open"
           fits == ChannelHasBudget(Size["eof"])
           c == [ch EXCEPT !.state = "remoteEOF"]
<1>1. m \in Events /\ m.kind = "eof"
  <2>1. m \in PeerFrames /\ m.kind = "eof" /\ "eof" \in EventKinds
    BY HeadOfWire, Zenon DEF Types, ReceiveChannelEOF, EventKinds
  <2>2. QED
    BY <2>1, FramesToQueues, Zenon
<1>2. IsChannel(c, "remoteEOF", ch.inTable, ch.canceled, ch.frames, ch.events, ch.queued,
                ch.pending, ch.incoming)
  <2>1. "remoteEOF" \in States /\ ch \in ChannelType
    BY DEF States, Types
  <2>2. QED
    BY <2>1, StateChannel, Zenon
<1>3. CASE legal /\ fits
  <2>1. ch' = TakesEvent(m, c) /\ ReserveEvent(m)
    BY <1>3, Zenon DEF ReceiveChannelEOF
  <2> HIDE DEF m, c
  <2>2. HasRoom(queued, Size[m.kind])
    BY <1>1, <1>3, RoomInSession, Zenon
  <2>3. ch.state \in allowsRequests
    BY <1>3 DEF allowsRequests
  <2>4. c \in ChannelType /\ c.frames = ch.frames /\ c.events = ch.events /\ c.queued = ch.queued
    BY <1>2, Zenon DEF IsChannel
  <2>5. BudgetOf(Plus(queued, Size[m.kind]), control, outbound, dispatchQueue, TakesEvent(m, c))
    BY <1>1, <2>2, <2>3, <2>4, BudgetEvent, Zenon
  <2>6. QED
    BY <2>1, <2>5, Zenon DEF Budgeted, ReserveEvent
<1>4. CASE legal /\ ~fits
  <2>1. UNCHANGED <<queued, control, outbound, dispatchQueue>> /\ ch' = c
    BY <1>4, Zenon DEF ReceiveChannelEOF, budgetVars
  <2> HIDE DEF c
  <2>2. ch.state \in allowsRequests
    BY <1>4 DEF allowsRequests
  <2>3. ch' \in ChannelType /\ Quiet(ch, ch')
    BY <1>2, <2>1, <2>2, Zenon DEF IsChannel, Quiet
  <2>4. QED
    BY <2>1, <2>3, BudgetSame, Zenon
<1>5. CASE ~legal
  <2>1. UNCHANGED <<queued, control, outbound, dispatchQueue>> /\ ch' = ch
    BY <1>5, Zenon DEF ReceiveChannelEOF, budgetVars
  <2>2. QED
    BY <2>1, BudgetSame, Zenon
<1>6. QED
  BY <1>3, <1>4, <1>5, Zenon

LEMMA BudgetChannelClose ==
  ASSUME Types, Budgeted, ReceiveChannelClose
  PROVE  Budgeted'
<1> DEFINE m == Head(wire)
           legal == InTable /\ ch.state \in allowsRequests
           fits == ChannelHasBudget(Size["close"])
           c == [ch EXCEPT !.state = "closed"]
           held == Plus(queued, Size["close"])
           answers == /\ ~queuesClosed
                      /\ held.frames < MaxQueuedFramesTotal
                      /\ Size["close"] <= MaxQueuedBytesTotal - held.bytes
           w == Write("close", 0, FALSE, None)
<1>1. m \in Events /\ m.kind = "close"
  <2>1. m \in PeerFrames /\ m.kind = "close" /\ "close" \in EventKinds
    BY HeadOfWire, Zenon DEF Types, ReceiveChannelClose, EventKinds
  <2>2. QED
    BY <2>1, FramesToQueues, Zenon
<1>2. IsChannel(c, "closed", ch.inTable, ch.canceled, ch.frames, ch.events, ch.queued,
                ch.pending, ch.incoming)
  <2>1. "closed" \in States /\ ch \in ChannelType
    BY DEF States, Types
  <2>2. QED
    BY <2>1, StateChannel, Zenon
<1>3. c \in ChannelType /\ c.frames = ch.frames /\ c.events = ch.events /\ c.queued = ch.queued
  BY <1>2, Zenon DEF IsChannel
<1>4. legal /\ fits => BudgetOf(held, control, outbound, dispatchQueue, TakesEvent(m, c))
  <2>1. SUFFICES ASSUME legal, fits
                 PROVE  BudgetOf(Plus(queued, Size[m.kind]), control, outbound,
                                 dispatchQueue, TakesEvent(m, c))
    BY <1>1, Zenon
  <2> HIDE DEF m, c
  <2>2. HasRoom(queued, Size[m.kind])
    BY <1>1, <2>1, RoomInSession, Zenon
  <2>3. QED
    BY <1>1, <1>3, <2>1, <2>2, BudgetEvent, Zenon
<1>5. CASE legal /\ fits /\ answers
  <2>1. /\ ch' = [TakesEvent(m, c) EXCEPT !.inTable = FALSE]
        /\ control' = Append(control, w) /\ queued' = Plus(held, Size["close"])
        /\ UNCHANGED <<outbound, dispatchQueue>>
    BY <1>5, Zenon DEF ReceiveChannelClose
  <2>2. w \in ControlWrites /\ w.kind = "close"
    <3>1. "close" \in ResultKinds \cup {"close", "disconnect"} /\ 0 \in Nat
      OBVIOUS
    <3>2. QED
      BY <3>1, ControlWriteType, Zenon
  <2>3. HasRoom(held, Size[w.kind])
    <3>1. held.frames \in Nat
      BY <1>4, <1>5, BudgetFields, Zenon DEF BudgetOf
    <3>2. 1 <= MaxQueuedFramesTotal - held.frames
      <4>1. held.frames < MaxQueuedFramesTotal
        BY <1>5
      <4> HIDE DEF held
      <4>2. QED
        BY <3>1, <4>1, LimitFields
    <3>3. Size["close"] <= MaxQueuedBytesTotal - held.bytes
      BY <1>5, Zenon
    <3>4. QED
      BY <2>2, <3>2, <3>3, Zenon DEF HasRoom
  <2> DEFINE n == TakesEvent(m, c)
  <2>4. n \in ChannelType
    BY <1>4, <1>5, Zenon DEF BudgetOf
  <2> HIDE DEF m, c, w, held, n
  <2>5. BudgetOf(Plus(held, Size[w.kind]), Append(control, w), outbound, dispatchQueue, n)
    BY <1>4, <1>5, <2>2, <2>3, MoreControl, Zenon DEF n
  <2>6. IsChannel(ch', n.state, FALSE, n.canceled, n.frames, n.events, n.queued, n.pending,
                  n.incoming)
    BY <2>1, <2>4, RemovedChannel, Zenon DEF n
  <2>7. ch' \in ChannelType /\ Quiet(n, ch')
    BY <2>6, IsQuiet, Zenon
  <2>8. BudgetOf(Plus(held, Size[w.kind]), Append(control, w), outbound, dispatchQueue, ch')
    BY <2>5, <2>7, Keeps, Zenon
  <2>9. QED
    BY <2>1, <2>2, <2>8, Zenon DEF Budgeted
<1>6. CASE legal /\ fits /\ ~answers
  <2>1. ch' = TakesEvent(m, c) /\ ReserveEvent(m)
    BY <1>6, Zenon DEF ReceiveChannelClose
  <2>2. QED
    BY <1>1, <1>4, <1>6, <2>1, Zenon DEF Budgeted, ReserveEvent
<1>7. CASE legal /\ ~fits
  <2>1. UNCHANGED <<queued, control, outbound, dispatchQueue>> /\ ch' = c
    BY <1>7, Zenon DEF ReceiveChannelClose, budgetVars
  <2> HIDE DEF c
  <2>2. ch' \in ChannelType /\ Quiet(ch, ch')
    BY <1>2, <1>7, <2>1, Zenon DEF IsChannel, Quiet
  <2>3. QED
    BY <2>1, <2>2, BudgetSame, Zenon
<1>8. CASE ~legal
  <2>1. UNCHANGED <<queued, control, outbound, dispatchQueue>> /\ ch' = ch
    BY <1>8, Zenon DEF ReceiveChannelClose, budgetVars
  <2>2. QED
    BY <2>1, BudgetSame, Zenon
<1>9. QED
  BY <1>5, <1>6, <1>7, <1>8, Zenon

LEMMA BudgetReceiver ==
  ASSUME Types, Budgeted, ReceiverNext
  PROVE  Budgeted'
<1>0. ch \in ChannelType
  BY DEF Types
<1>1. CASE ReceiveGlobalResult \/ ReceiveEnd \/ ReceiveFails
  <2>1. UNCHANGED <<queued, control, outbound, dispatchQueue>> /\ ch' = ch
    BY <1>1, Zenon DEF ReceiveGlobalResult, ReceiveEnd, ReceiveFails, budgetVars
  <2>2. QED
    BY <2>1, BudgetSame, Zenon
<1>2. CASE ReceiveChannelResult
  <2>1. UNCHANGED <<queued, control, outbound, dispatchQueue>>
    BY <1>2, Zenon DEF ReceiveChannelResult, budgetVars
  <2>2. ch' \in ChannelType /\ Quiet(ch, ch')
    BY <1>0, <1>2, ReceiveChannelResultChannel, IsQuiet, Zenon
  <2>3. QED
    BY <2>1, <2>2, BudgetSame, Zenon
<1>3. CASE ReceiveCloseAnswer
  <2>1. UNCHANGED <<queued, control, outbound, dispatchQueue>>
    BY <1>3, Zenon DEF ReceiveCloseAnswer, budgetVars
  <2>2. "closed" \notin allowsRequests
    BY DEF allowsRequests
  <2>3. ch' \in ChannelType /\ Quiet(ch, ch')
    BY <1>0, <1>3, <2>2, ReceiveCloseAnswerChannel, Zenon DEF IsChannel, Quiet
  <2>4. QED
    BY <2>1, <2>3, BudgetSame, Zenon
<1>4. QED
  BY <1>1, <1>2, <1>3, BudgetGlobalRequest, BudgetChannelRequest, BudgetData, BudgetEOF,
     BudgetChannelClose, Zenon DEF ReceiverNext

-----------------------------------------------------------------------------
(* The life of the session.                                                *)

LEMMA LifeBegin ==
  ASSUME LifeInv, UNCHANGED lifeVars \/ \E err \in Causes \ {None} : Begin(err),
         queuesClosed' = queuesClosed, conn' = conn,
         receiver' \in {"idle", "stopped"}, closer' \in {"idle", "queue", "timer", "done"}
  PROVE  LifeInv'
<1>1. CASE UNCHANGED lifeVars
  BY <1>1 DEF lifeVars, LifeInv
<1>2. CASE \E err \in Causes \ {None} : Begin(err)
  BY <1>2 DEF Begin, lifeVars, LifeInv, Downs
<1>3. QED
  BY <1>1, <1>2

LEMMA CauseTypes ==
  ASSUME LifeInv
  PROVE  /\ CloseCause \in Causes \ {None}
         /\ \A kind : Refusal(kind) \in {"limit", "closed", None}
         /\ {"canceled", "parent", "protocol", "limit", "closed", "reply", "write",
             "receive", "remote", "eof"} \subseteq Causes \ {None}
<1>1. CloseCause \in Causes \ {None}
  BY DEF CloseCause, LifeInv, Causes, None
<1>2. \A kind : Refusal(kind) \in {"limit", "closed", None}
  BY DEF Refusal
<1>3. QED
  BY <1>1, <1>2 DEF Causes, None

LEMMA LifeShutdown ==
  ASSUME LifeInv, ShutdownNext
  PROVE  LifeInv'
<1>1. CASE ShutdownCancel
  BY <1>1 DEF ShutdownCancel, LifeInv, Downs, EnqueueControl, budgetVars, loopVars
<1>2. CASE ShutdownFinish
  BY <1>2 DEF ShutdownFinish, LifeInv, Downs, loopVars
<1>3. CASE FinalizeClose \/ DisconnectTimeout
  BY <1>3 DEF FinalizeClose, DisconnectTimeout, LifeInv, Downs, loopVars, budgetVars
<1>4. CASE FinalizeDone
  BY <1>4 DEF FinalizeDone, LifeInv, Downs, loopVars, budgetVars
<1>5. CASE SessionClose
  BY <1>5, LifeBegin, CauseTypes DEF SessionClose, loopVars, budgetVars, LifeInv
<1>6. CASE ParentCancel
  BY <1>6 DEF ParentCancel, loopVars, budgetVars, LifeInv
<1>7. CASE ParentShutdown
  BY <1>7, LifeBegin, CauseTypes DEF ParentShutdown, loopVars, budgetVars, LifeInv
<1>8. QED
  BY <1>1, <1>2, <1>3, <1>4, <1>5, <1>6, <1>7, Zenon DEF ShutdownNext

LEMMA LifeWriter ==
  ASSUME LifeInv, WriterNext
  PROVE  LifeInv'
<1>1. UNCHANGED lifeVars \/ Begin("write")
  BY Zenon DEF WriterNext, WriterPoll, WriterTakeControl, WriterTakeOutbound, WriterSend,
               WriterFail, WriterStop
<1>2. queuesClosed' = queuesClosed /\ conn' = conn /\ receiver' = receiver /\ closer' = closer
  BY Zenon DEF WriterNext, WriterPoll, WriterTakeControl, WriterTakeOutbound, WriterSend,
               WriterFail, WriterStop, budgetVars
<1>3. QED
  BY <1>1, <1>2, LifeBegin, CauseTypes DEF LifeInv

LEMMA LifeCall ==
  ASSUME LifeInv, CallNext
  PROVE  LifeInv'
<1>1. UNCHANGED lifeVars
  BY Zenon DEF CallNext, GlobalCall, ChannelCall, CallQueue, CallRefused, CallWithdraw,
               CallGiveUp
<1>2. queuesClosed' = queuesClosed /\ conn' = conn /\ receiver' = receiver /\ closer' = closer
  BY Zenon DEF CallNext, GlobalCall, ChannelCall, CallQueue, CallRefused, CallWithdraw,
               CallGiveUp, EnqueueOutbound, budgetVars, loopVars
<1>3. QED
  BY <1>1, <1>2, LifeBegin DEF LifeInv

LEMMA LifeChannel ==
  ASSUME LifeInv, ChannelNext
  PROVE  LifeInv'
<1>1. UNCHANGED lifeVars \/ (Refusal("close") # None /\ Begin(Refusal("close")))
  BY Zenon DEF ChannelNext, Recv, RecvEnd, ChannelClose, CloseQueue, CloseTimeout
<1>2. queuesClosed' = queuesClosed /\ conn' = conn /\ receiver' = receiver
  BY Zenon DEF ChannelNext, Recv, RecvEnd, ChannelClose, CloseQueue, CloseTimeout,
               EnqueueControl, budgetVars, loopVars
<1>3. closer' \in {closer, "queue", "timer", "done"}
  BY Zenon DEF ChannelNext, Recv, RecvEnd, ChannelClose, CloseQueue, CloseTimeout
<1>4. Refusal("close") # None => Refusal("close") \in Causes \ {None}
  BY CauseTypes
<1>5. QED
  BY <1>1, <1>2, <1>3, <1>4, LifeBegin DEF LifeInv

LEMMA LifeDispatch ==
  ASSUME LifeInv, DispatchNext
  PROVE  LifeInv'
<1>1. \/ UNCHANGED lifeVars \/ Begin(CloseCause)
      \/ Refusal("globalResult") # None /\ Begin(Refusal("globalResult"))
  BY Zenon DEF DispatchNext, DispatchTake, DispatchNoReply, DispatchReply, DispatchRefused,
               DispatchWithdraw, DispatchStop, DispatchFail
<1>2. queuesClosed' = queuesClosed /\ conn' = conn /\ receiver' = receiver /\ closer' = closer
  BY Zenon DEF DispatchNext, DispatchTake, DispatchNoReply, DispatchReply, DispatchRefused,
               DispatchWithdraw, DispatchStop, EnqueueOutbound, budgetVars
<1>3. CloseCause \in Causes \ {None}
      /\ (Refusal("globalResult") # None => Refusal("globalResult") \in Causes \ {None})
  BY CauseTypes
<1>4. QED
  BY <1>1, <1>2, <1>3, LifeBegin DEF LifeInv

LEMMA LifeWorker ==
  ASSUME LifeInv, WorkerNext
  PROVE  LifeInv'
<1>1. \/ UNCHANGED lifeVars \/ Begin(CloseCause) \/ Begin("reply")
      \/ Refusal("channelResult") # None /\ Begin(Refusal("channelResult"))
  BY Zenon DEF WorkerNext, WorkerStart, WorkerTake, WorkerStop, WorkerHandled, WorkerClose,
               WorkerReply, WorkerRefused, WorkerWithdraw, WorkerFail
<1>2. queuesClosed' = queuesClosed /\ conn' = conn /\ receiver' = receiver /\ closer' = closer
  BY Zenon DEF WorkerNext, WorkerStart, WorkerTake, WorkerStop, WorkerHandled, WorkerClose,
               WorkerReply, WorkerRefused, WorkerWithdraw, EnqueueOutbound, budgetVars
<1>3. CloseCause \in Causes \ {None} /\ "reply" \in Causes \ {None}
      /\ (Refusal("channelResult") # None => Refusal("channelResult") \in Causes \ {None})
  BY CauseTypes
<1>4. QED
  BY <1>1, <1>2, <1>3, LifeBegin DEF LifeInv

LEMMA LifePeer ==
  ASSUME LifeInv, PeerNext
  PROVE  LifeInv'
<1>1. /\ UNCHANGED <<lifeVars, queuesClosed, receiver, closer>>
      /\ conn' = conn \/ (conn = "open" /\ conn' = "broken")
  BY Zenon DEF PeerNext, PeerSend, PeerAnswer, Break, budgetVars, loopVars
<1>2. QED
  BY <1>1 DEF LifeInv, lifeVars

LEMMA LifeReceiver ==
  ASSUME LifeInv, ReceiverNext
  PROVE  LifeInv'
<1>0. \A k : Receives(k) => UNCHANGED <<conn, closer>>
  BY Zenon DEF Receives
<1>1. UNCHANGED <<conn, closer>>
  BY <1>0, Zenon DEF ReceiverNext, ReceiveGlobalRequest, ReceiveGlobalResult,
       ReceiveChannelResult, ReceiveChannelRequest, ReceiveData, ReceiveChannelEOF,
       ReceiveCloseAnswer, ReceiveChannelClose, ReceiveEnd, ReceiveFails
<1>2. queuesClosed' = queuesClosed
  BY Zenon DEF ReceiverNext, ReceiveGlobalRequest, ReceiveGlobalResult,
       ReceiveChannelResult, ReceiveChannelRequest, ReceiveData, ReceiveChannelEOF,
       ReceiveCloseAnswer, ReceiveChannelClose, ReceiveEnd, ReceiveFails, EnqueueControl,
       ReserveEvent, budgetVars
<1>3. RouteDone \/ \E err \in Causes \ {None} : RouteFails(err)
  <2>1. CASE ReceiveGlobalRequest \/ ReceiveGlobalResult \/ ReceiveCloseAnswer \/ ReceiveEnd
    BY <2>1, CauseTypes DEF ReceiveGlobalRequest, ReceiveGlobalResult, ReceiveCloseAnswer,
       ReceiveEnd
  <2>2. CASE ReceiveChannelResult \/ ReceiveData \/ ReceiveChannelEOF
    BY <2>2, CauseTypes DEF ReceiveChannelResult, ReceiveData, ReceiveChannelEOF
  <2>3. CASE ReceiveChannelRequest \/ ReceiveChannelClose
    BY <2>3, CauseTypes DEF ReceiveChannelRequest, ReceiveChannelClose
  <2>4. CASE ReceiveFails
    BY <2>4, CauseTypes DEF ReceiveFails
  <2>5. QED
    BY <2>1, <2>2, <2>3, <2>4, Zenon DEF ReceiverNext
<1>4. receiver' \in {receiver, "stopped"}
  BY <1>3 DEF RouteDone, RouteFails
<1>5. UNCHANGED lifeVars \/ \E err \in Causes \ {None} : Begin(err)
  BY <1>3, Zenon DEF RouteDone, RouteFails
<1>6. QED
  BY <1>1, <1>2, <1>4, <1>5, LifeBegin DEF LifeInv

LEMMA LifeStep ==
  ASSUME LifeInv, Next
  PROVE  LifeInv'
BY LifeShutdown, LifeWriter, LifeCall, LifeChannel, LifeDispatch, LifeWorker, LifePeer,
   LifeReceiver, Zenon DEF Next

-----------------------------------------------------------------------------
(* The loops.                                                              *)

LEMMA LoopValues ==
  /\ \A m \in ControlWrites \cup OutWrites :
        [at |-> "sending", msg |-> m] \in WriterType
        /\ [at |-> "sending", msg |-> m].at = "sending"
        /\ [at |-> "sending", msg |-> m].msg = m
  /\ \A a \in {"idle", "stopped"} :
        [at |-> a, msg |-> NoWrite] \in WriterType
        /\ [at |-> a, msg |-> NoWrite].at = a /\ [at |-> a, msg |-> NoWrite].msg = NoWrite
  /\ \A n \in Nat, b \in BOOLEAN, a \in {"idle", "handling", "queued", "stopped"} :
        [at |-> a, id |-> n, reply |-> b] \in DispatcherType
  /\ Idle \in DispatcherType /\ Idle.at = "idle" /\ ~Idle.reply
  /\ Stopped \in DispatcherType /\ Stopped.at = "stopped"
<1>1. \A m \in ControlWrites \cup OutWrites :
        [at |-> "sending", msg |-> m] \in WriterType
        /\ [at |-> "sending", msg |-> m].at = "sending"
        /\ [at |-> "sending", msg |-> m].msg = m
  BY DEF WriterType
<1>2. \A a \in {"idle", "stopped"} :
        [at |-> a, msg |-> NoWrite] \in WriterType
        /\ [at |-> a, msg |-> NoWrite].at = a /\ [at |-> a, msg |-> NoWrite].msg = NoWrite
  BY NoWriteType DEF WriterType
<1>3. ASSUME NEW n \in Nat, NEW b \in BOOLEAN,
             NEW a \in {"idle", "handling", "queued", "stopped"}
      PROVE  [at |-> a, id |-> n, reply |-> b] \in DispatcherType
  BY DEF DispatcherType
<1>4. 0 \in Nat /\ FALSE \in BOOLEAN /\ "idle" \in {"idle", "handling", "queued", "stopped"}
      /\ "stopped" \in {"idle", "handling", "queued", "stopped"}
  OBVIOUS
<1>5. Idle \in DispatcherType
  BY <1>3, <1>4, Zenon DEF Idle
<1>6. Idle.at = "idle" /\ ~Idle.reply
  BY DEF Idle
<1>7. Stopped \in DispatcherType /\ Stopped.at = "stopped"
  BY <1>5 DEF Stopped, DispatcherType
<1>8. QED
  BY <1>1, <1>2, <1>3, <1>5, <1>6, <1>7, Zenon

LEMMA DispatcherMoves ==
  ASSUME NEW d \in DispatcherType, NEW a \in {"idle", "handling", "queued", "stopped"}
  PROVE  LET n == [d EXCEPT !.at = a]
         IN  n \in DispatcherType /\ n.at = a /\ n.id = d.id /\ n.reply = d.reply
BY DEF DispatcherType

LEMMA WorkerMoves ==
  ASSUME worker \in WorkerType,
         NEW a \in {"starting", "idle", "handling", "queued", "stopped"}
  PROVE  WorkerAt(a) \in WorkerType /\ WorkerAt(a).at = a /\ WorkerAt(a).ev = worker.ev
BY DEF WorkerType, WorkerAt

LEMMA QueueHeads ==
  ASSUME QueueType
  PROVE  /\ control # <<>> => Head(control) \in ControlWrites
         /\ outbound # <<>> => Head(outbound) \in OutWrites
         /\ dispatchQueue # <<>> => Head(dispatchQueue) \in Tasks
BY DEF QueueType

LEMMA LoopWriter ==
  ASSUME Types, WriterNext
  PROVE  LoopType'
<1>0. writer \in WriterType /\ dispatcher \in DispatcherType /\ worker \in WorkerType
      /\ QueueType /\ (writer.at # "sending" => writer.msg = NoWrite)
  BY Zenon DEF Types, LoopType
<1>1. CASE WriterPoll
  <2>1. [writer EXCEPT !.at = "waiting"] \in WriterType
        /\ [writer EXCEPT !.at = "waiting"].msg = writer.msg
    BY <1>0 DEF WriterType
  <2>2. writer.msg = NoWrite
    BY <1>0, <1>1 DEF WriterPoll
  <2>3. QED
    BY <1>0, <1>1, <2>1, <2>2, Zenon DEF WriterPoll, LoopType
<1>2. ASSUME NEW w \in ControlWrites \cup OutWrites, Claim(w)
      PROVE  writer' \in WriterType /\ (writer'.at # "sending" => writer'.msg = NoWrite)
  <2>1. "idle" \in {"idle", "stopped"}
    OBVIOUS
  <2>2. CASE w.canceled
    <3>1. writer' = [at |-> "idle", msg |-> NoWrite]
      BY <1>2, <2>2, Zenon DEF Claim
    <3>2. QED
      BY <2>1, <3>1, LoopValues, Zenon
  <2>3. CASE ~w.canceled
    <3>1. writer' = [at |-> "sending", msg |-> w]
      BY <1>2, <2>3, Zenon DEF Claim
    <3>2. QED
      BY <3>1, LoopValues, Zenon
  <2>4. QED
    BY <2>2, <2>3
<1>3. CASE WriterTakeControl
  <2>1. Head(control) \in ControlWrites \cup OutWrites /\ Claim(Head(control))
        /\ UNCHANGED <<dispatcher, worker>>
    BY <1>0, <1>3, QueueHeads, Zenon DEF WriterTakeControl
  <2>2. QED
    BY <1>0, <1>2, <2>1, Zenon DEF LoopType
<1>4. CASE WriterTakeOutbound
  <2>1. Head(outbound) \in ControlWrites \cup OutWrites /\ Claim(Head(outbound))
        /\ UNCHANGED <<dispatcher, worker>>
    BY <1>0, <1>4, QueueHeads, Zenon DEF WriterTakeOutbound
  <2>2. QED
    BY <1>0, <1>2, <2>1, Zenon DEF LoopType
<1>5. WorkerAt("idle") \in WorkerType /\ WorkerAt("stopped") \in WorkerType
  BY <1>0, WorkerMoves
<1>6. CASE WriterSend
  <2>1. /\ writer' = [at |-> "idle", msg |-> NoWrite]
        /\ dispatcher' \in {dispatcher, Idle} /\ worker' \in {worker, WorkerAt("idle")}
    BY <1>6, Zenon DEF WriterSend, Written, WorkerAt
  <2>2. "idle" \in {"idle", "stopped"}
    OBVIOUS
  <2>3. writer' \in WriterType /\ writer'.msg = NoWrite
    BY <2>1, <2>2, LoopValues, Zenon
  <2>4. QED
    BY <1>0, <1>5, <2>1, <2>3, LoopValues, Zenon DEF LoopType
<1>7. CASE WriterFail
  <2>1. /\ writer' = [at |-> "stopped", msg |-> NoWrite]
        /\ dispatcher' \in {dispatcher, Stopped} /\ worker' \in {worker, WorkerAt("stopped")}
    BY <1>7, Zenon DEF WriterFail, WorkerAt
  <2>2. "stopped" \in {"idle", "stopped"}
    OBVIOUS
  <2>3. writer' \in WriterType /\ writer'.msg = NoWrite
    BY <2>1, <2>2, LoopValues, Zenon
  <2>4. QED
    BY <1>0, <1>5, <2>1, <2>3, LoopValues, Zenon DEF LoopType
<1>8. CASE WriterStop
  <2>1. writer' = [at |-> "stopped", msg |-> NoWrite] /\ UNCHANGED <<dispatcher, worker>>
    BY <1>8, Zenon DEF WriterStop
  <2>2. "stopped" \in {"idle", "stopped"}
    OBVIOUS
  <2>3. writer' \in WriterType /\ writer'.msg = NoWrite
    BY <2>1, <2>2, LoopValues, Zenon
  <2>4. QED
    BY <1>0, <2>1, <2>3, Zenon DEF LoopType
<1>9. QED
  BY <1>1, <1>3, <1>4, <1>6, <1>7, <1>8, Zenon DEF WriterNext

LEMMA LoopDispatch ==
  ASSUME Types, DispatchNext
  PROVE  LoopType'
<1>0. dispatcher \in DispatcherType /\ QueueType
  BY Zenon DEF Types, LoopType
<1>1. UNCHANGED <<writer, worker>>
  BY Zenon DEF DispatchNext, DispatchTake, DispatchNoReply, DispatchReply, DispatchRefused,
               DispatchWithdraw, DispatchStop
<1>2. dispatcher' \in DispatcherType
  <2>1. CASE DispatchTake
    <3> DEFINE m == Head(dispatchQueue)
    <3>1. m \in Tasks
      BY <1>0, <2>1, QueueHeads, Zenon DEF DispatchTake
    <3>2. m.id \in Nat /\ m.reply \in BOOLEAN
      BY <3>1 DEF Tasks, Msgs
    <3>3. dispatcher' = [at |-> "handling", id |-> m.id, reply |-> m.reply]
      BY <2>1, Zenon DEF DispatchTake
    <3>4. "handling" \in {"idle", "handling", "queued", "stopped"}
      OBVIOUS
    <3> HIDE DEF m
    <3>5. QED
      BY <3>2, <3>3, <3>4, LoopValues, Zenon
  <2>2. CASE DispatchReply
    <3>1. dispatcher' = [dispatcher EXCEPT !.at = "queued"]
      BY <2>2, Zenon DEF DispatchReply
    <3>2. QED
      BY <1>0, <3>1 DEF DispatcherType
  <2>3. CASE DispatchNoReply \/ DispatchRefused \/ DispatchWithdraw \/ DispatchStop
    <3>1. dispatcher' \in {Idle, Stopped}
      BY <2>3, Zenon DEF DispatchNoReply, DispatchRefused, DispatchWithdraw, DispatchStop,
                         DispatchFail
    <3>2. QED
      BY <3>1, LoopValues, Zenon
  <2>4. QED
    BY <2>1, <2>2, <2>3, Zenon DEF DispatchNext
<1>3. QED
  BY <1>1, <1>2, Zenon DEF Types, LoopType

LEMMA LoopWorker ==
  ASSUME Types, WorkerNext
  PROVE  LoopType'
<1>0. worker \in WorkerType /\ ch \in ChannelType
  BY Zenon DEF Types, LoopType
<1>1. UNCHANGED <<writer, dispatcher>>
  BY Zenon DEF WorkerNext, WorkerStart, WorkerTake, WorkerStop, WorkerHandled, WorkerClose,
               WorkerReply, WorkerRefused, WorkerWithdraw
<1>2. worker' \in WorkerType
  <2>1. CASE WorkerTake
    <3>1. ch.events \in Seq(Events) /\ ch.events # <<>>
      BY <1>0, <2>1, ChannelFields, Zenon DEF WorkerTake
    <3>2. Head(ch.events) \in Events
      BY <3>1
    <3>3. worker' = [at |-> "handling", ev |-> Head(ch.events)]
      BY <2>1, Zenon DEF WorkerTake
    <3>4. QED
      BY <3>2, <3>3 DEF WorkerType
  <2>2. CASE ~WorkerTake
    <3>1. worker' \in {WorkerAt("idle"), WorkerAt("stopped"), WorkerAt("queued")}
      BY <2>2, Zenon DEF WorkerNext, WorkerStart, WorkerStop, WorkerHandled, WorkerClose,
                     WorkerReply, WorkerRefused, WorkerWithdraw, WorkerFail
    <3>2. QED
      BY <1>0, <3>1, WorkerMoves
  <2>3. QED
    BY <2>1, <2>2
<1>3. QED
  BY <1>1, <1>2, Zenon DEF Types, LoopType

LEMMA LoopStep ==
  ASSUME Types, Next
  PROVE  LoopType'
<1>1. CASE ShutdownNext
  <2>1. UNCHANGED loopVars
    BY <1>1, Zenon DEF ShutdownNext, ShutdownCancel, ShutdownFinish, FinalizeClose,
       DisconnectTimeout, FinalizeDone, SessionClose, ParentCancel, ParentShutdown
  <2>2. QED
    BY <2>1, Zenon DEF loopVars, Types, LoopType
<1>2. CASE CallNext \/ ChannelNext
  <2>1. UNCHANGED loopVars
    BY <1>2, Zenon DEF CallNext, GlobalCall, ChannelCall, CallQueue, CallRefused,
       CallWithdraw, CallGiveUp, ChannelNext, Recv, RecvEnd, ChannelClose, CloseQueue,
       CloseTimeout
  <2>2. QED
    BY <2>1, Zenon DEF loopVars, Types, LoopType
<1>3. CASE PeerNext
  <2>1. UNCHANGED loopVars
    BY <1>3, Zenon DEF PeerNext, PeerSend, PeerAnswer, Break
  <2>2. QED
    BY <2>1, Zenon DEF loopVars, Types, LoopType
<1>4. CASE ReceiverNext
  <2>1. \A k : Receives(k) => UNCHANGED <<writer, dispatcher, worker>>
    BY Zenon DEF Receives
  <2>2. UNCHANGED <<writer, dispatcher, worker>>
    BY <1>4, <2>1, Zenon DEF ReceiverNext, ReceiveGlobalRequest, ReceiveGlobalResult,
       ReceiveChannelResult, ReceiveChannelRequest, ReceiveData, ReceiveChannelEOF,
       ReceiveCloseAnswer, ReceiveChannelClose, ReceiveEnd, ReceiveFails
  <2>3. QED
    BY <2>2, Zenon DEF Types, LoopType
<1>5. QED
  BY <1>1, <1>2, <1>3, <1>4, LoopWriter, LoopDispatch, LoopWorker, Zenon DEF Next

-----------------------------------------------------------------------------
(* The callers.                                                            *)

CallRec == [at : CallPlaces, reply : BOOLEAN]

LEMMA CallPlacesAre ==
  "idle" \in CallPlaces /\ "sending" \in CallPlaces /\ "queued" \in CallPlaces
  /\ "waiting" \in CallPlaces /\ "done" \in CallPlaces
BY DEF CallPlaces

\* A caller moves from one place to another.
LEMMA CallAtType ==
  ASSUME call \in [Callers -> CallRec], NEW c \in Callers, NEW p \in CallPlaces
  PROVE  CallAt(c, p) \in CallRec /\ CallAt(c, p).at = p /\ CallAt(c, p).reply = call[c].reply
BY DEF CallAt, CallRec

LEMMA CallSet ==
  ASSUME call \in [Callers -> CallRec], NEW c \in Callers, NEW r \in CallRec
  PROVE  LET f == [call EXCEPT ![c] = r]
         IN  /\ f \in [Callers -> CallRec] /\ f[c] = r
             /\ \A d \in Callers : d # c => f[d] = call[d]
OBVIOUS

\* One caller moves, the others stay.
OneMoves(c, p) ==
    /\ call' \in [Callers -> CallRec]
    /\ call'[c].at = p
    /\ \A d \in Callers : d # c => call'[d] = call[d]

LEMMA CallMove ==
  ASSUME call \in [Callers -> CallRec], NEW c \in Callers, NEW p \in CallPlaces,
         call' = [call EXCEPT ![c] = CallAt(c, p)]
  PROVE  OneMoves(c, p)
BY CallAtType, CallSet, Zenon DEF OneMoves

LEMMA CallEnters ==
  ASSUME call \in [Callers -> CallRec], NEW c \in Callers, NEW b \in BOOLEAN,
         call' = [call EXCEPT ![c] = [at |-> "sending", reply |-> b]]
  PROVE  OneMoves(c, "sending")
<1>1. [at |-> "sending", reply |-> b] \in CallRec /\ [at |-> "sending", reply |-> b].at = "sending"
  BY DEF CallRec, CallPlaces
<1>2. QED
  BY <1>1, CallSet, Zenon DEF OneMoves

\* Callers that wait for an answer may be told that there will be none.
SomeFail ==
    /\ call' \in [Callers -> CallRec]
    /\ \A c \in Callers : \/ call'[c] = call[c]
                          \/ call[c].at = "waiting" /\ call'[c].at = "done"

LEMMA CallFails ==
  ASSUME call \in [Callers -> CallRec], FailPending
  PROVE  SomeFail
<1>1. \A c \in Callers : CallAt(c, "done") \in CallRec /\ CallAt(c, "done").at = "done"
  BY CallAtType, CallPlacesAre
<1>2. call' \in [Callers -> CallRec]
  BY <1>1 DEF FailPending
<1>3. ASSUME NEW c \in Callers
      PROVE  call'[c] = call[c] \/ (call[c].at = "waiting" /\ call'[c].at = "done")
  <2>1. call'[c] = IF c \in ch.pending /\ call[c].at = "waiting"
                   THEN CallAt(c, "done") ELSE call[c]
    BY DEF FailPending
  <2>2. QED
    BY <1>1, <2>1, Zenon
<1>4. QED
  BY <1>2, <1>3, Zenon DEF SomeFail

\* The caller of a write goes on, or gives up.
LEMMA CallWritten ==
  ASSUME call \in [Callers -> CallRec], NEW w, Written(w)
  PROVE  /\ call' \in [Callers -> CallRec]
         /\ \A c \in Callers : w.waits # c => call'[c] = call[c]
         /\ \A c \in Callers : w.waits = c => call'[c].at \in {"waiting", "done"}
<1>1. \A c \in Callers : /\ CallAt(c, "done") \in CallRec /\ CallAt(c, "done").at = "done"
                         /\ CallAt(c, "waiting") \in CallRec
                         /\ CallAt(c, "waiting").at = "waiting"
  BY CallAtType, CallPlacesAre
<1>2. call' = [c \in Callers |->
                  IF w.waits # c THEN call[c]
                  ELSE IF c \in pendingGlobal \cup ch.pending THEN CallAt(c, "waiting")
                  ELSE CallAt(c, "done")]
  BY Zenon DEF Written
<1>3. QED
  BY <1>1, <1>2

LEMMA CallUnwritten ==
  ASSUME call \in [Callers -> CallRec], WriterFail
  PROVE  /\ call' \in [Callers -> CallRec]
         /\ \A c \in Callers : writer.msg.waits # c => call'[c] = call[c]
         /\ \A c \in Callers : writer.msg.waits = c => call'[c].at = "done"
<1>1. \A c \in Callers : CallAt(c, "done") \in CallRec /\ CallAt(c, "done").at = "done"
  BY CallAtType, CallPlacesAre
<1>2. call' = [c \in Callers |-> IF writer.msg.waits = c THEN CallAt(c, "done") ELSE call[c]]
  BY Zenon DEF WriterFail
<1>3. QED
  BY <1>1, <1>2

\* Where the receiver leaves the callers, and what it remembers of the peer's
\* requests.
LEMMA CallReceiver ==
  ASSUME Types, ReceiverNext
  PROVE  /\ \/ UNCHANGED call
            \/ \E c \in Callers : /\ wire # <<>> /\ Head(wire).kind \in ResultKinds
                                  /\ Head(wire).id = c /\ OneMoves(c, "done")
         /\ pendingGlobal' \subseteq pendingGlobal
         /\ incomingGlobal' \subseteq Nat
<1>0. PeerType /\ call \in [Callers -> CallRec] /\ incomingGlobal \subseteq Nat
  BY Zenon DEF Types, CallType, CallRec
<1>1. ASSUME NEW err, RouteFails(err)
      PROVE  /\ UNCHANGED call /\ pendingGlobal' \subseteq pendingGlobal
             /\ incomingGlobal' \subseteq incomingGlobal
  BY <1>1 DEF RouteFails, Begin, lifeVars
<1>2. CASE ReceiveGlobalRequest
  <2>1. Receives("globalRequest")
    BY <1>2, Zenon DEF ReceiveGlobalRequest
  <2>2. Head(wire).id \in Nat
    BY <1>0, <2>1, HeadOfWire, FramesToQueues DEF ResultKinds
  <2>3. \/ UNCHANGED callVars /\ incomingGlobal' \in {incomingGlobal, incomingGlobal \cup {Head(wire).id}}
        \/ RouteFails("limit")
    BY <1>2, Zenon DEF ReceiveGlobalRequest
  <2>4. CASE UNCHANGED callVars /\ incomingGlobal' \in {incomingGlobal, incomingGlobal \cup {Head(wire).id}}
    BY <1>0, <2>2, <2>4 DEF callVars
  <2>5. CASE RouteFails("limit")
    BY <1>0, <1>1, <2>5
  <2>6. QED
    BY <2>3, <2>4, <2>5
<1>3. ASSUME NEW kind \in ResultKinds, Receives(kind)
      PROVE  Head(wire).id \in Callers /\ Head(wire).kind \in ResultKinds /\ wire # <<>>
  BY <1>0, <1>3, HeadOfWire, FramesToQueues, Zenon
<1>4. CASE ReceiveGlobalResult \/ ReceiveChannelResult
  <2> DEFINE c == Head(wire).id
  <2>1. \/ /\ call' = [call EXCEPT ![c] = CallAt(c, "done")]
           /\ pendingGlobal' \in {pendingGlobal, pendingGlobal \ {c}} /\ UNCHANGED incomingGlobal
        \/ RouteFails("protocol")
    BY <1>4, Zenon DEF ReceiveGlobalResult, ReceiveChannelResult
  <2>2. c \in Callers /\ Head(wire).kind \in ResultKinds /\ wire # <<>>
    BY <1>3, <1>4, Zenon DEF ReceiveGlobalResult, ReceiveChannelResult, ResultKinds
  <2> HIDE DEF c
  <2>3. CASE call' = [call EXCEPT ![c] = CallAt(c, "done")]
             /\ pendingGlobal' \in {pendingGlobal, pendingGlobal \ {c}} /\ UNCHANGED incomingGlobal
    <3>1. OneMoves(c, "done")
      BY <1>0, <2>2, <2>3, CallMove, CallPlacesAre, Zenon
    <3>2. QED
      BY <1>0, <2>2, <2>3, <3>1, Zenon DEF c
  <2>4. CASE RouteFails("protocol")
    BY <1>0, <1>1, <2>4
  <2>5. QED
    BY <2>1, <2>3, <2>4
<1>5. CASE ReceiveChannelRequest \/ ReceiveData \/ ReceiveChannelEOF \/ ReceiveCloseAnswer
           \/ ReceiveChannelClose \/ ReceiveEnd \/ ReceiveFails
  <2>1. UNCHANGED <<callVars, incomingGlobal>> \/ \E err : RouteFails(err)
    BY <1>5, Zenon DEF ReceiveChannelRequest, ReceiveData, ReceiveChannelEOF,
       ReceiveCloseAnswer, ReceiveChannelClose, ReceiveEnd, ReceiveFails
  <2>2. CASE UNCHANGED <<callVars, incomingGlobal>>
    BY <1>0, <2>2 DEF callVars
  <2>3. CASE \E err : RouteFails(err)
    BY <1>0, <1>1, <2>3
  <2>4. QED
    BY <2>1, <2>2, <2>3
<1>6. QED
  BY <1>2, <1>4, <1>5, Zenon DEF ReceiverNext

LEMMA CallTypeStep ==
  ASSUME Types, Next
  PROVE  CallType'
<1>0. /\ call \in [Callers -> CallRec] /\ pendingGlobal \subseteq GlobalCallers
      /\ incomingGlobal \subseteq Nat
  BY Zenon DEF Types, CallType, CallRec
<1>1. SUFFICES /\ call' \in [Callers -> CallRec] /\ pendingGlobal' \subseteq GlobalCallers
               /\ incomingGlobal' \subseteq Nat
  BY Zenon DEF CallType, CallRec
<1>2. ASSUME NEW err, Begin(err)
      PROVE  pendingGlobal' \subseteq pendingGlobal /\ incomingGlobal' \subseteq incomingGlobal
  BY <1>2 DEF Begin
<1>3. CASE ShutdownNext
  <2>1. UNCHANGED call /\ (UNCHANGED <<pendingGlobal, incomingGlobal>> \/ \E err : Begin(err))
    BY <1>3, Zenon DEF ShutdownNext, ShutdownCancel, ShutdownFinish, FinalizeClose, callVars,
       DisconnectTimeout, FinalizeDone, SessionClose, ParentCancel, ParentShutdown
  <2>2. QED
    BY <1>0, <1>2, <2>1
<1>4. CASE WriterNext
  <2>1. CASE WriterSend
    <3>1. call' \in [Callers -> CallRec]
      BY <1>0, <2>1, CallWritten, Zenon DEF WriterSend
    <3>2. pendingGlobal' = pendingGlobal
          /\ incomingGlobal' \in {incomingGlobal, incomingGlobal \ {writer.msg.id}}
      BY <2>1, Zenon DEF WriterSend
    <3>3. QED
      BY <1>0, <3>1, <3>2
  <2>2. CASE WriterFail
    <3>1. call' \in [Callers -> CallRec]
      BY <1>0, <2>2, CallUnwritten, Zenon
    <3>2. \/ Begin("write")
          \/ \E w, v : pendingGlobal' = pendingGlobal \ w /\ incomingGlobal' = incomingGlobal \ v
      BY <2>2, Zenon DEF WriterFail
    <3>3. QED
      BY <1>0, <1>2, <3>1, <3>2
  <2>3. CASE ~WriterSend /\ ~WriterFail
    <3>1. UNCHANGED <<call, pendingGlobal, incomingGlobal>>
      BY <1>4, <2>3, Zenon DEF WriterNext, WriterPoll, WriterTakeControl, WriterTakeOutbound,
                          WriterStop, callVars
    <3>2. QED
      BY <1>0, <3>1
  <2>4. QED
    BY <2>1, <2>2, <2>3
<1>5. CASE CallNext
  <2>1. ASSUME NEW c \in GlobalCallers, NEW b \in BOOLEAN, GlobalCall(c, b)
        PROVE  /\ call' \in [Callers -> CallRec] /\ pendingGlobal' \subseteq GlobalCallers
               /\ incomingGlobal' \subseteq Nat
    <3>1. c \in Callers /\ call' = [call EXCEPT ![c] = [at |-> "sending", reply |-> b]]
          /\ pendingGlobal' \in {pendingGlobal \cup {c}, pendingGlobal}
          /\ incomingGlobal' = incomingGlobal
      BY <2>1, Zenon DEF GlobalCall, Callers
    <3>2. OneMoves(c, "sending")
      BY <1>0, <3>1, CallEnters, Zenon
    <3>3. QED
      BY <1>0, <3>1, <3>2 DEF OneMoves
  <2>2. ASSUME NEW c \in ChannelCallers, NEW b \in BOOLEAN, ChannelCall(c, b)
        PROVE  /\ call' \in [Callers -> CallRec] /\ pendingGlobal' \subseteq GlobalCallers
               /\ incomingGlobal' \subseteq Nat
    <3>1. c \in Callers /\ call' = [call EXCEPT ![c] = [at |-> "sending", reply |-> b]]
          /\ UNCHANGED <<pendingGlobal, incomingGlobal>>
      BY <2>2, Zenon DEF ChannelCall, Callers
    <3>2. OneMoves(c, "sending")
      BY <1>0, <3>1, CallEnters, Zenon
    <3>3. QED
      BY <1>0, <3>1, <3>2 DEF OneMoves
  <2>3. ASSUME NEW c \in Callers,
               CallQueue(c) \/ CallRefused(c) \/ CallWithdraw(c) \/ CallGiveUp(c)
        PROVE  /\ call' \in [Callers -> CallRec] /\ pendingGlobal' \subseteq GlobalCallers
               /\ incomingGlobal' \subseteq Nat
    <3>1. /\ \E p \in {"queued", "done"} : call' = [call EXCEPT ![c] = CallAt(c, p)]
          /\ pendingGlobal' \in {pendingGlobal, pendingGlobal \ {c}}
          /\ incomingGlobal' = incomingGlobal
      BY <2>3, Zenon DEF CallQueue, CallRefused, CallWithdraw, CallGiveUp, Leave
    <3>2. PICK p \in {"queued", "done"} : call' = [call EXCEPT ![c] = CallAt(c, p)]
      BY <3>1
    <3>3. p \in CallPlaces
      BY DEF CallPlaces
    <3>4. OneMoves(c, p)
      BY <1>0, <3>2, <3>3, CallMove, Zenon
    <3>5. QED
      BY <1>0, <3>1, <3>4 DEF OneMoves
  <2>4. QED
    BY <1>5, <2>1, <2>2, <2>3, Zenon DEF CallNext
<1>6. CASE ChannelNext
  <2>1. \/ UNCHANGED <<call, pendingGlobal, incomingGlobal>>
        \/ FailPending /\ UNCHANGED <<pendingGlobal, incomingGlobal>>
        \/ UNCHANGED call /\ \E err : Begin(err)
    BY <1>6, Zenon DEF ChannelNext, Recv, RecvEnd, ChannelClose, CloseQueue, CloseTimeout,
       callVars
  <2>2. QED
    BY <1>0, <1>2, <2>1, CallFails DEF SomeFail
<1>7. CASE DispatchNext
  <2>1. \/ UNCHANGED <<call, pendingGlobal, incomingGlobal>>
        \/ /\ UNCHANGED <<call, pendingGlobal>>
           /\ incomingGlobal' = incomingGlobal \ {dispatcher.id}
        \/ UNCHANGED call /\ \E err : Begin(err)
    BY <1>7, Zenon DEF DispatchNext, DispatchTake, DispatchNoReply, DispatchReply,
       DispatchRefused, DispatchWithdraw, DispatchStop, DispatchFail, callVars
  <2>2. QED
    BY <1>0, <1>2, <2>1
<1>8. CASE WorkerNext
  <2>1. \/ UNCHANGED <<call, pendingGlobal, incomingGlobal>>
        \/ FailPending /\ UNCHANGED <<pendingGlobal, incomingGlobal>>
        \/ UNCHANGED call /\ \E err : Begin(err)
    BY <1>8, Zenon DEF WorkerNext, WorkerStart, WorkerTake, WorkerStop, WorkerHandled,
       WorkerClose, WorkerReply, WorkerRefused, WorkerWithdraw, WorkerFail, callVars
  <2>2. QED
    BY <1>0, <1>2, <2>1, CallFails DEF SomeFail
<1>9. CASE PeerNext
  <2>1. UNCHANGED <<call, pendingGlobal, incomingGlobal>>
    BY <1>9, Zenon DEF PeerNext, PeerSend, PeerAnswer, Break, callVars
  <2>2. QED
    BY <1>0, <2>1
<1>10. CASE ReceiverNext
  BY <1>0, <1>10, CallReceiver DEF OneMoves
<1>11. QED
  BY <1>3, <1>4, <1>5, <1>6, <1>7, <1>8, <1>9, <1>10, Zenon DEF Next

-----------------------------------------------------------------------------
(* The peer, and the history.                                              *)

IsHist(h, closedHere, gaveUp, recvEnded, onClose, overtaken, disconnect, timedOut, withdrawn,
       written, broke) ==
    /\ h \in HistType
    /\ h.closedHere = closedHere /\ h.gaveUp = gaveUp /\ h.recvEnded = recvEnded
    /\ h.onClose = onClose /\ h.overtaken = overtaken /\ h.disconnect = disconnect
    /\ h.timedOut = timedOut /\ h.withdrawn = withdrawn /\ h.written = written
    /\ h.broke = broke

LEMMA HistValues ==
  ASSUME NEW h \in HistType, NEW b \in BOOLEAN, NEW s \in SUBSET Callers,
         NEW d \in {None, "queued", "written"}
  PROVE  /\ IsHist([h EXCEPT !.disconnect = d], h.closedHere, h.gaveUp, h.recvEnded,
                   h.onClose, h.overtaken, d, h.timedOut, h.withdrawn, h.written, h.broke)
         /\ IsHist([h EXCEPT !.timedOut = b], h.closedHere, h.gaveUp, h.recvEnded,
                   h.onClose, h.overtaken, h.disconnect, b, h.withdrawn, h.written, h.broke)
         /\ IsHist([h EXCEPT !.disconnect = d, !.written = s], h.closedHere, h.gaveUp,
                   h.recvEnded, h.onClose, h.overtaken, d, h.timedOut, h.withdrawn, s,
                   h.broke)
         /\ IsHist([h EXCEPT !.withdrawn = s], h.closedHere, h.gaveUp, h.recvEnded,
                   h.onClose, h.overtaken, h.disconnect, h.timedOut, s, h.written, h.broke)
         /\ IsHist([h EXCEPT !.gaveUp = s], h.closedHere, s, h.recvEnded, h.onClose,
                   h.overtaken, h.disconnect, h.timedOut, h.withdrawn, h.written, h.broke)
         /\ IsHist([h EXCEPT !.recvEnded = b], h.closedHere, h.gaveUp, b, h.onClose,
                   h.overtaken, h.disconnect, h.timedOut, h.withdrawn, h.written, h.broke)
         /\ IsHist([h EXCEPT !.closedHere = b, !.gaveUp = s], b, s, h.recvEnded, h.onClose,
                   h.overtaken, h.disconnect, h.timedOut, h.withdrawn, h.written, h.broke)
         /\ IsHist([h EXCEPT !.onClose = b, !.gaveUp = s], h.closedHere, s, h.recvEnded, b,
                   h.overtaken, h.disconnect, h.timedOut, h.withdrawn, h.written, h.broke)
         /\ IsHist([h EXCEPT !.overtaken = b], h.closedHere, h.gaveUp, h.recvEnded,
                   h.onClose, b, h.disconnect, h.timedOut, h.withdrawn, h.written, h.broke)
         /\ IsHist([h EXCEPT !.broke = b], h.closedHere, h.gaveUp, h.recvEnded, h.onClose,
                   h.overtaken, h.disconnect, h.timedOut, h.withdrawn, h.written, b)
BY DEF HistType, IsHist

LEMMA HistFields ==
  ASSUME hist \in HistType
  PROVE  /\ hist.closedHere \in BOOLEAN /\ hist.gaveUp \in SUBSET Callers
         /\ hist.recvEnded \in BOOLEAN /\ hist.onClose \in BOOLEAN
         /\ hist.overtaken \in BOOLEAN /\ hist.disconnect \in {None, "queued", "written"}
         /\ hist.timedOut \in BOOLEAN /\ hist.withdrawn \in SUBSET Callers
         /\ hist.written \in SUBSET Callers /\ hist.broke \in BOOLEAN
BY DEF HistType

\* The history, with the field an action changes named by the action.
HistIs(closedHere, gaveUp, recvEnded, onClose, overtaken, disconnect, timedOut, withdrawn,
       written, broke) ==
    IsHist(hist', closedHere, gaveUp, recvEnded, onClose, overtaken, disconnect, timedOut,
           withdrawn, written, broke)

LEMMA HistCancel ==
  ASSUME hist \in HistType, ShutdownCancel
  PROVE  LET tell == cause = "protocol" /\ Refusal("disconnect") = None
         IN  HistIs(hist.closedHere, hist.gaveUp, hist.recvEnded, hist.onClose,
                    hist.overtaken, IF tell THEN "queued" ELSE None, hist.timedOut,
                    hist.withdrawn, hist.written, hist.broke)
<1> DEFINE tell == cause = "protocol" /\ Refusal("disconnect") = None
           d == IF tell THEN "queued" ELSE None
<1>1. hist' = [hist EXCEPT !.disconnect = d]
  BY Zenon DEF ShutdownCancel
<1>2. d \in {None, "queued", "written"}
  OBVIOUS
<1> HIDE DEF d
<1>3. HistIs(hist.closedHere, hist.gaveUp, hist.recvEnded, hist.onClose, hist.overtaken,
             d, hist.timedOut, hist.withdrawn, hist.written, hist.broke)
  BY <1>1, <1>2, HistValues, Zenon DEF HistIs
<1>4. QED
  BY <1>3, Zenon DEF d

LEMMA HistTimeout ==
  ASSUME hist \in HistType, DisconnectTimeout
  PROVE  HistIs(hist.closedHere, hist.gaveUp, hist.recvEnded, hist.onClose,
                hist.overtaken, hist.disconnect, TRUE, hist.withdrawn, hist.written, hist.broke)
<1>1. hist' = [hist EXCEPT !.timedOut = TRUE] /\ TRUE \in BOOLEAN
  BY Zenon DEF DisconnectTimeout
<1>2. QED
  BY <1>1, HistValues, Zenon DEF HistIs

LEMMA HistSend ==
  ASSUME hist \in HistType, WriterSend
  PROVE  HistIs(hist.closedHere, hist.gaveUp, hist.recvEnded, hist.onClose, hist.overtaken,
                IF writer.msg.kind = "disconnect" THEN "written" ELSE hist.disconnect,
                hist.timedOut, hist.withdrawn,
                IF writer.msg.waits \in Callers THEN hist.written \cup {writer.msg.waits}
                                                ELSE hist.written, hist.broke)
<1> DEFINE d == IF writer.msg.kind = "disconnect" THEN "written" ELSE hist.disconnect
           s == IF writer.msg.waits \in Callers THEN hist.written \cup {writer.msg.waits}
                                                ELSE hist.written
<1>1. hist' = [hist EXCEPT !.disconnect = d, !.written = s]
  BY Zenon DEF WriterSend
<1>2. d \in {None, "queued", "written"} /\ s \in SUBSET Callers
  BY HistFields
<1> HIDE DEF d, s
<1>3. HistIs(hist.closedHere, hist.gaveUp, hist.recvEnded, hist.onClose, hist.overtaken,
             d, hist.timedOut, hist.withdrawn, s, hist.broke)
  BY <1>1, <1>2, HistValues, Zenon DEF HistIs
<1>4. QED
  BY <1>3, Zenon DEF d, s

LEMMA HistCall ==
  ASSUME hist \in HistType, NEW c \in Callers
  PROVE  /\ CallWithdraw(c) =>
               HistIs(hist.closedHere, hist.gaveUp, hist.recvEnded, hist.onClose,
                      hist.overtaken, hist.disconnect, hist.timedOut,
                      hist.withdrawn \cup {c}, hist.written, hist.broke)
         /\ CallGiveUp(c) =>
               HistIs(hist.closedHere, hist.gaveUp \cup {c}, hist.recvEnded, hist.onClose,
                      hist.overtaken, hist.disconnect, hist.timedOut, hist.withdrawn,
                      hist.written, hist.broke)
<1>1. hist.withdrawn \cup {c} \in SUBSET Callers /\ hist.gaveUp \cup {c} \in SUBSET Callers
  BY HistFields
<1>2. CallWithdraw(c) => hist' = [hist EXCEPT !.withdrawn = hist.withdrawn \cup {c}]
  BY Zenon DEF CallWithdraw
<1>3. CallGiveUp(c) => hist' = [hist EXCEPT !.gaveUp = hist.gaveUp \cup {c}]
  BY Zenon DEF CallGiveUp
<1>4. QED
  BY <1>1, <1>2, <1>3, HistValues, Zenon DEF HistIs

LEMMA HistChannel ==
  ASSUME hist \in HistType, ch \in ChannelType
  PROVE  /\ RecvEnd =>
               HistIs(hist.closedHere, hist.gaveUp, TRUE, hist.onClose, hist.overtaken,
                      hist.disconnect, hist.timedOut, hist.withdrawn, hist.written,
                      hist.broke)
         /\ ChannelClose =>
               HistIs(TRUE, hist.gaveUp \cup ch.pending, hist.recvEnded, hist.onClose,
                      hist.overtaken, hist.disconnect, hist.timedOut, hist.withdrawn,
                      hist.written, hist.broke)
         /\ WorkerClose =>
               HistIs(hist.closedHere, hist.gaveUp \cup ch.pending, hist.recvEnded, TRUE,
                      hist.overtaken, hist.disconnect, hist.timedOut, hist.withdrawn,
                      hist.written, hist.broke)
<1>1. ch.pending \in SUBSET ChannelCallers
  BY DEF ChannelType
<1>2. hist.gaveUp \cup ch.pending \in SUBSET Callers
  BY <1>1, HistFields DEF Callers
<1>7. TRUE \in BOOLEAN
  OBVIOUS
<1>3. RecvEnd => hist' = [hist EXCEPT !.recvEnded = TRUE]
  BY Zenon DEF RecvEnd
<1>4. ChannelClose => hist' = [hist EXCEPT !.closedHere = TRUE, !.gaveUp = hist.gaveUp \cup ch.pending]
  BY Zenon DEF ChannelClose
<1>5. WorkerClose => hist' = [hist EXCEPT !.onClose = TRUE, !.gaveUp = hist.gaveUp \cup ch.pending]
  BY Zenon DEF WorkerClose
<1>6. QED
  BY <1>2, <1>3, <1>4, <1>5, <1>7, HistValues, Zenon DEF HistIs

\* A frame of the peer's is on the wire.
Overtakes(k) == hist' = [hist EXCEPT !.overtaken = hist.overtaken \/ Overtaken(k)]

LEMMA HistPeer ==
  ASSUME hist \in HistType
  PROVE  /\ \A k : Overtakes(k) =>
               HistIs(hist.closedHere, hist.gaveUp, hist.recvEnded, hist.onClose,
                      hist.overtaken \/ Overtaken(k), hist.disconnect, hist.timedOut,
                      hist.withdrawn, hist.written, hist.broke)
         /\ Break =>
               HistIs(hist.closedHere, hist.gaveUp, hist.recvEnded, hist.onClose,
                      hist.overtaken, hist.disconnect, hist.timedOut, hist.withdrawn,
                      hist.written, TRUE)
<1>1. ASSUME NEW k, Overtakes(k)
      PROVE  HistIs(hist.closedHere, hist.gaveUp, hist.recvEnded, hist.onClose,
                    hist.overtaken \/ Overtaken(k), hist.disconnect, hist.timedOut,
                    hist.withdrawn, hist.written, hist.broke)
  <2> DEFINE b == hist.overtaken \/ Overtaken(k)
  <2>1. hist' = [hist EXCEPT !.overtaken = b]
    BY <1>1, Zenon DEF Overtakes
  <2>2. b \in BOOLEAN
    BY HistFields
  <2> HIDE DEF b
  <2>3. HistIs(hist.closedHere, hist.gaveUp, hist.recvEnded, hist.onClose, b,
               hist.disconnect, hist.timedOut, hist.withdrawn, hist.written, hist.broke)
    BY <2>1, <2>2, HistValues, Zenon DEF HistIs
  <2>4. QED
    BY <2>3, Zenon DEF b
<1>2. Break => hist' = [hist EXCEPT !.broke = TRUE]
  BY Zenon DEF Break
<1>3. TRUE \in BOOLEAN
  OBVIOUS
<1>4. Break => HistIs(hist.closedHere, hist.gaveUp, hist.recvEnded, hist.onClose,
                      hist.overtaken, hist.disconnect, hist.timedOut, hist.withdrawn,
                      hist.written, TRUE)
  BY <1>2, <1>3, HistValues, Zenon DEF HistIs
<1>5. QED
  BY <1>1, <1>4, Zenon

IsEnv(e, sent, ended, owes, gone, use) ==
    /\ e \in EnvType /\ e.sent = sent /\ e.ended = ended /\ e.owes = owes
    /\ e.gone = gone /\ e.use = use

LEMMA EnvValues ==
  ASSUME NEW e \in EnvType, NEW n \in Nat, NEW k \in SUBSET {"eof", "close"},
         NEW s \in SUBSET Callers, NEW b \in BOOLEAN
  PROVE  /\ IsEnv([e EXCEPT !.owes = s], e.sent, e.ended, s, e.gone, e.use)
         /\ IsEnv([e EXCEPT !.sent = n, !.ended = k, !.gone = b], n, k, e.owes, b, e.use)
BY DEF EnvType, IsEnv

LEMMA EnvFields ==
  ASSUME env \in EnvType
  PROVE  /\ env.sent \in Nat /\ env.ended \subseteq {"eof", "close"}
         /\ env.owes \subseteq Callers /\ env.gone \in BOOLEAN /\ env.use \in Uses
         /\ env.use.peer \subseteq (Kinds \ ResultKinds) \cup {"hangup"}
<1>1. /\ env.sent \in Nat /\ env.ended \subseteq {"eof", "close"}
      /\ env.owes \subseteq Callers /\ env.gone \in BOOLEAN /\ env.use \in Uses
  BY DEF EnvType
<1>2. env.use \in [calls : SUBSET Callers, peer : SUBSET ((Kinds \ ResultKinds) \cup {"hangup"}),
                   acts : SUBSET Acts]
  BY <1>1, CoreAssumption, Zenon
<1>3. env.use.peer \subseteq (Kinds \ ResultKinds) \cup {"hangup"}
  BY <1>2
<1>4. QED
  BY <1>1, <1>3, Zenon

IsMsg(m, k, id, b) == m \in Msgs /\ m.kind = k /\ m.id = id /\ m.reply = b

LEMMA AnyMsg ==
  ASSUME NEW k \in Kinds \cup {"hangup"}, NEW id \in Callers \cup Nat, NEW b \in BOOLEAN
  PROVE  IsMsg(Msg(k, id, b), k, id, b)
BY DEF Msg, Msgs, IsMsg

\* What the peer sends of its own.
Ended(kind) == env.ended \cup ({kind} \cap {"eof", "close"})

LEMMA PeerSends ==
  ASSUME PeerType, NEW kind \in env.use.peer, NEW reply \in BOOLEAN, PeerSend(kind, reply)
  PROVE  LET m == Msg(kind, env.sent + 1, reply /\ kind \in RequestKinds)
         IN  /\ IsMsg(m, kind, env.sent + 1, reply /\ kind \in RequestKinds)
             /\ m \in PeerFrames /\ wire' = Append(wire, m) /\ wire' \in Seq(PeerFrames)
             /\ env' \in EnvType /\ env'.sent = env.sent + 1 /\ env'.owes = env.owes
             /\ env'.ended = Ended(kind)
             /\ env'.gone = (kind \in {"disconnect", "hangup"})
             /\ kind \in (Kinds \ ResultKinds) \cup {"hangup"} /\ Overtakes(kind)
<1> DEFINE b == reply /\ kind \in RequestKinds
           n == env.sent + 1
           k == Ended(kind)
           g == kind \in {"disconnect", "hangup"}
           m == Msg(kind, n, b)
<1>0. env \in EnvType /\ wire \in Seq(PeerFrames)
  BY DEF PeerType
<1>1. kind \in (Kinds \ ResultKinds) \cup {"hangup"}
  BY <1>0, EnvFields
<1>2. n \in Nat /\ b \in BOOLEAN /\ g \in BOOLEAN /\ k \in SUBSET {"eof", "close"}
  BY <1>0, EnvFields DEF Ended
<1>3. env' = [env EXCEPT !.sent = n, !.ended = k, !.gone = g]
  BY Zenon DEF PeerSend, Ended
<1>4. wire' = Append(wire, m)
  BY Zenon DEF PeerSend
<1> HIDE DEF b, n, k, g
<1>5. IsMsg(m, kind, n, b)
  <2>1. kind \in Kinds \cup {"hangup"} /\ n \in Callers \cup Nat /\ b \in BOOLEAN
    BY <1>1, <1>2
  <2>2. QED
    BY <2>1, AnyMsg, Zenon
<1> HIDE DEF m
<1>6. m \in PeerFrames
  BY <1>1, <1>2, <1>5 DEF PeerFrames, IsMsg, ResultKinds
<1>7. wire' \in Seq(PeerFrames)
  BY <1>0, <1>4, <1>6
<1>11. Overtakes(kind)
  BY Zenon DEF PeerSend, Overtakes
<1>10. env.owes \in SUBSET Callers
  BY <1>0, EnvFields
<1>8. /\ env' \in EnvType /\ env'.sent = n /\ env'.owes = env.owes /\ env'.ended = k
      /\ env'.gone = g
  <2>1. IsEnv(env', n, k, env.owes, g, env.use)
    BY <1>0, <1>2, <1>3, <1>10, EnvValues, Zenon
  <2>2. QED
    BY <2>1, Zenon DEF IsEnv
<1>9. QED
  BY <1>1, <1>4, <1>5, <1>6, <1>7, <1>8, <1>11, Zenon DEF b, n, k, g, m

AnswerKind(c) == IF c \in GlobalCallers THEN "globalResult" ELSE "channelResult"

LEMMA PeerAnswers ==
  ASSUME PeerType, NEW c \in Callers, PeerAnswer(c)
  PROVE  LET m == Msg(AnswerKind(c), c, FALSE)
         IN  /\ IsMsg(m, AnswerKind(c), c, FALSE)
             /\ m \in PeerFrames /\ wire' = Append(wire, m) /\ wire' \in Seq(PeerFrames)
             /\ env' \in EnvType /\ env'.sent = env.sent /\ env'.owes = env.owes \ {c}
             /\ env'.ended = env.ended /\ env'.gone = env.gone /\ Overtakes(AnswerKind(c))
<1> DEFINE m == Msg(AnswerKind(c), c, FALSE)
<1>0. env \in EnvType /\ wire \in Seq(PeerFrames)
  BY DEF PeerType
<1>1. AnswerKind(c) \in Kinds \cup {"hangup"} /\ c \in Callers \cup Nat
  BY DEF AnswerKind, Kinds, ResultKinds
<1>2. wire' = Append(wire, m) /\ env' = [env EXCEPT !.owes = env.owes \ {c}]
  BY Zenon DEF PeerAnswer, AnswerKind
<1>11. Overtakes(AnswerKind(c))
  BY Zenon DEF PeerAnswer, AnswerKind, Overtakes
<1>3. FALSE \in BOOLEAN
  OBVIOUS
<1>4. IsMsg(m, AnswerKind(c), c, FALSE)
  BY <1>1, <1>3, AnyMsg, Zenon
<1> HIDE DEF m
<1>5. m \in PeerFrames
  BY <1>4 DEF PeerFrames, IsMsg, ResultKinds, AnswerKind, Callers
<1>6. wire' \in Seq(PeerFrames)
  BY <1>0, <1>2, <1>5
<1>7. env.owes \ {c} \in SUBSET Callers
  BY <1>0, EnvFields
<1>10. 0 \in Nat /\ {} \in SUBSET {"eof", "close"}
  OBVIOUS
<1>8. /\ env' \in EnvType /\ env'.sent = env.sent /\ env'.owes = env.owes \ {c}
      /\ env'.ended = env.ended /\ env'.gone = env.gone
  <2>1. IsEnv(env', env.sent, env.ended, env.owes \ {c}, env.gone, env.use)
    BY <1>0, <1>2, <1>3, <1>7, <1>10, EnvValues, Zenon
  <2>2. QED
    BY <2>1, Zenon DEF IsEnv
<1>9. QED
  BY <1>2, <1>4, <1>5, <1>6, <1>8, <1>11, Zenon DEF m

\* What the writer sends to the peer.
LEMMA WriterSendsEnv ==
  ASSUME Types, WriterSend
  PROVE  /\ env' \in EnvType /\ env'.sent = env.sent
         /\ env'.ended = env.ended /\ env'.gone = env.gone
         /\ env'.owes = IF writer.msg.kind \in RequestKinds /\ writer.msg.reply
                        THEN env.owes \cup {writer.msg.id} ELSE env.owes
<1> DEFINE w == writer.msg
<1>1. env \in EnvType /\ w \in ControlWrites \cup OutWrites
  BY DEF Types, PeerType, LoopType, WriterType
<1>2. CASE w.kind \in RequestKinds /\ w.reply
  <2>1. w.id \in Callers
    BY <1>1, <1>2 DEF ControlWrites, OutWrites, RequestKinds, ResultKinds
  <2>2. env.owes \cup {w.id} \in SUBSET Callers
    BY <1>1, <2>1, EnvFields
  <2>3. env' = [env EXCEPT !.owes = env.owes \cup {w.id}]
    BY <1>2, Zenon DEF WriterSend
  <2>6. 0 \in Nat /\ {} \in SUBSET {"eof", "close"} /\ FALSE \in BOOLEAN
    OBVIOUS
  <2> HIDE DEF w
  <2>4. /\ env' \in EnvType /\ env'.sent = env.sent /\ env'.ended = env.ended
        /\ env'.gone = env.gone /\ env'.owes = env.owes \cup {w.id}
    <3>1. IsEnv(env', env.sent, env.ended, env.owes \cup {w.id}, env.gone, env.use)
      BY <1>1, <2>2, <2>3, <2>6, EnvValues, Zenon
    <3>2. QED
      BY <3>1, Zenon DEF IsEnv
  <2>5. QED
    BY <1>2, <2>4, Zenon DEF w
<1>3. CASE ~(w.kind \in RequestKinds /\ w.reply)
  BY <1>1, <1>3, Zenon DEF WriterSend
<1>4. QED
  BY <1>2, <1>3

\* The receiver takes the head of the wire, or nothing.
LEMMA WireReceiver ==
  ASSUME PeerType, ReceiverNext
  PROVE  /\ UNCHANGED <<env, hist>>
         /\ \/ UNCHANGED wire
            \/ wire # <<>> /\ wire' = Tail(wire) /\ wire' \in Seq(PeerFrames)
<1>1. \A k : Receives(k) => UNCHANGED env /\ wire # <<>> /\ wire' = Tail(wire)
  BY Zenon DEF Receives
<1>2. UNCHANGED hist
  BY Zenon DEF ReceiverNext, ReceiveGlobalRequest, ReceiveGlobalResult,
       ReceiveChannelResult, ReceiveChannelRequest, ReceiveData, ReceiveChannelEOF,
       ReceiveCloseAnswer, ReceiveChannelClose, ReceiveEnd, ReceiveFails
<1>3. UNCHANGED env /\ (UNCHANGED wire \/ (wire # <<>> /\ wire' = Tail(wire)))
  BY <1>1, Zenon DEF ReceiverNext, ReceiveGlobalRequest, ReceiveGlobalResult,
       ReceiveChannelResult, ReceiveChannelRequest, ReceiveData, ReceiveChannelEOF,
       ReceiveCloseAnswer, ReceiveChannelClose, ReceiveEnd, ReceiveFails
<1>4. QED
  BY <1>2, <1>3 DEF PeerType

LEMMA PeerTypeStep ==
  ASSUME Types, Next
  PROVE  PeerType'
<1>0. /\ PeerType /\ wire \in Seq(PeerFrames) /\ env \in EnvType /\ hist \in HistType
      /\ ch \in ChannelType
  BY Zenon DEF Types, PeerType
<1>1. CASE ShutdownNext
  <2>1. UNCHANGED <<wire, env>> /\ (UNCHANGED hist \/ ShutdownCancel \/ DisconnectTimeout)
    BY <1>1, Zenon DEF ShutdownNext, ShutdownCancel, ShutdownFinish, FinalizeClose,
       DisconnectTimeout, FinalizeDone, SessionClose, ParentCancel, ParentShutdown
  <2>2. hist' \in HistType
    BY <1>0, <2>1, HistCancel, HistTimeout, Zenon DEF HistIs, IsHist
  <2>3. QED
    BY <1>0, <2>1, <2>2, Zenon DEF PeerType
<1>2. CASE WriterNext
  <2>1. UNCHANGED wire /\ (UNCHANGED <<env, hist>> \/ WriterSend)
    BY <1>2, Zenon DEF WriterNext, WriterPoll, WriterTakeControl, WriterTakeOutbound,
       WriterSend, WriterFail, WriterStop
  <2>2. hist' \in HistType /\ env' \in EnvType
    BY <1>0, <2>1, HistSend, WriterSendsEnv, Zenon DEF HistIs, IsHist
  <2>3. QED
    BY <1>0, <2>1, <2>2, Zenon DEF PeerType
<1>3. CASE CallNext
  <2>1. UNCHANGED <<wire, env>>
        /\ (UNCHANGED hist \/ \E c \in Callers : CallWithdraw(c) \/ CallGiveUp(c))
    BY <1>3, Zenon DEF CallNext, GlobalCall, ChannelCall, CallQueue, CallRefused,
       CallWithdraw, CallGiveUp
  <2>2. hist' \in HistType
    BY <1>0, <2>1, HistCall, Zenon DEF HistIs, IsHist
  <2>3. QED
    BY <1>0, <2>1, <2>2, Zenon DEF PeerType
<1>4. CASE ChannelNext
  <2>1. UNCHANGED <<wire, env>> /\ (UNCHANGED hist \/ RecvEnd \/ ChannelClose)
    BY <1>4, Zenon DEF ChannelNext, Recv, RecvEnd, ChannelClose, CloseQueue, CloseTimeout
  <2>2. hist' \in HistType
    BY <1>0, <2>1, HistChannel, Zenon DEF HistIs, IsHist
  <2>3. QED
    BY <1>0, <2>1, <2>2, Zenon DEF PeerType
<1>5. CASE DispatchNext
  <2>1. UNCHANGED <<wire, env, hist>>
    BY <1>5, Zenon DEF DispatchNext, DispatchTake, DispatchNoReply, DispatchReply,
       DispatchRefused, DispatchWithdraw, DispatchStop
  <2>2. QED
    BY <1>0, <2>1, Zenon DEF PeerType
<1>6. CASE WorkerNext
  <2>1. UNCHANGED <<wire, env>> /\ (UNCHANGED hist \/ WorkerClose)
    BY <1>6, Zenon DEF WorkerNext, WorkerStart, WorkerTake, WorkerStop, WorkerHandled,
       WorkerClose, WorkerReply, WorkerRefused, WorkerWithdraw
  <2>2. hist' \in HistType
    BY <1>0, <2>1, HistChannel, Zenon DEF HistIs, IsHist
  <2>3. QED
    BY <1>0, <2>1, <2>2, Zenon DEF PeerType
<1>7. CASE PeerNext
  <2>1. ASSUME NEW kind \in env.use.peer, NEW reply \in BOOLEAN, PeerSend(kind, reply)
        PROVE  PeerType'
    <3>1. hist' \in HistType
      BY <1>0, <2>1, PeerSends, HistPeer, Zenon DEF HistIs, IsHist
    <3>2. QED
      BY <1>0, <2>1, <3>1, PeerSends, ZenonT(60) DEF PeerType
  <2>2. ASSUME NEW c \in Callers, PeerAnswer(c)
        PROVE  PeerType'
    <3>1. hist' \in HistType
      BY <1>0, <2>2, PeerAnswers, HistPeer, Zenon DEF HistIs, IsHist
    <3>2. QED
      BY <1>0, <2>2, <3>1, PeerAnswers, Zenon DEF PeerType
  <2>3. CASE Break
    <3>1. hist' \in HistType /\ UNCHANGED <<wire, env>>
      BY <1>0, <2>3, HistPeer, Zenon DEF HistIs, IsHist, Break
    <3>2. QED
      BY <1>0, <3>1, Zenon DEF PeerType
  <2>4. QED
    BY <1>7, <2>1, <2>2, <2>3, Zenon DEF PeerNext
<1>8. CASE ReceiverNext
  BY <1>0, <1>8, WireReceiver, Zenon DEF PeerType
<1>9. QED
  BY <1>1, <1>2, <1>3, <1>4, <1>5, <1>6, <1>7, <1>8, Zenon DEF Next

-----------------------------------------------------------------------------
(* The types and the budget together.                                      *)

TypedBudget == Types /\ Budgeted

LEMMA TypedInit ==
  ASSUME Init
  PROVE  TypedBudget
<1>1. LifeInv
  BY DEF Init, LifeInv, Downs, Causes, None
<1>2. queued \in Budgets /\ queued.frames = 0 /\ queued.bytes = 0
  BY DEF Init, Budgets
<1>3. /\ control = <<>> /\ outbound = <<>> /\ dispatchQueue = <<>>
      /\ control \in Seq(ControlWrites) /\ outbound \in Seq(OutWrites)
      /\ dispatchQueue \in Seq(Tasks)
  BY DEF Init
<1>4. QueueType
  BY <1>2, <1>3 DEF QueueType
<1>5. ASSUME NEW t \in BOOLEAN, NEW f \in BOOLEAN, NEW q \in Budgets
      PROVE  IsChannel([state |-> "open", inTable |-> t, canceled |-> f, frames |-> <<>>,
                        events |-> <<>>, queued |-> q, pending |-> {}, incoming |-> {}],
                       "open", t, f, <<>>, <<>>, q, {}, {})
  BY DEF IsChannel, ChannelType, States
<1>6. IsChannel(ch, "open", TRUE, FALSE, <<>>, <<>>, Nothing, {}, {})
  BY <1>5, Constants, Zenon DEF Init, Nothing
<1>7. /\ ch \in ChannelType /\ ch.frames = <<>> /\ ch.events = <<>> /\ ch.queued = Nothing
      /\ ch.queued.frames = 0 /\ ch.queued.bytes = 0
  BY <1>6, Constants, Zenon DEF IsChannel
<1>8. LoopType
  <2>1. "idle" \in {"idle", "stopped"}
    OBVIOUS
  <2>2. writer \in WriterType /\ writer.msg = NoWrite
    BY <2>1, LoopValues, Zenon DEF Init
  <2>3. ASSUME NEW b \in BOOLEAN
        PROVE  [at |-> "starting", ev |-> Msg("eof", 0, b)] \in WorkerType
    <3>1. "eof" \in Kinds \cup {"hangup"} /\ 0 \in Callers \cup Nat
      BY DEF Kinds
    <3>2. IsMsg(Msg("eof", 0, b), "eof", 0, b)
      BY <3>1, AnyMsg
    <3>3. Msg("eof", 0, b) \in Events
      BY <3>2 DEF IsMsg, Events, EventKinds
    <3>4. QED
      BY <3>3 DEF WorkerType
  <2>4. FALSE \in BOOLEAN
    OBVIOUS
  <2>5. worker \in WorkerType
    BY <2>3, <2>4, Zenon DEF Init
  <2>6. dispatcher \in DispatcherType
    BY LoopValues, Zenon DEF Init
  <2>7. QED
    BY <2>2, <2>5, <2>6, Zenon DEF LoopType
<1>9. CallType
  <2>1. \A b \in BOOLEAN : [at |-> "idle", reply |-> b] \in CallRec
    BY DEF CallRec, CallPlaces
  <2>2. [at |-> "idle", reply |-> FALSE] \in CallRec
    BY <2>1
  <2>3. call \in [Callers -> CallRec]
    BY <2>2 DEF Init
  <2>4. QED
    BY <2>3 DEF Init, CallType, CallRec
<1>10. PeerType
  <2>1. env \in EnvType
    <3>1. env \in [sent : {0}, ended : {{}}, owes : {{}}, gone : {FALSE}, use : Uses]
      BY Zenon DEF Init
    <3>2. {FALSE} \subseteq BOOLEAN
      OBVIOUS
    <3>3. ASSUME NEW G \in SUBSET BOOLEAN,
                 NEW e \in [sent : {0}, ended : {{}}, owes : {{}}, gone : G, use : Uses]
          PROVE  e \in EnvType
      BY DEF EnvType
    <3>4. QED
      BY <3>1, <3>2, <3>3, Zenon
  <2>2. ASSUME NEW b \in BOOLEAN
        PROVE  [closedHere |-> b, gaveUp |-> {}, recvEnded |-> b, onClose |-> b,
                overtaken |-> b, disconnect |-> None, timedOut |-> b, withdrawn |-> {},
                written |-> {}, broke |-> b] \in HistType
    BY DEF HistType
  <2>3. FALSE \in BOOLEAN
    OBVIOUS
  <2>4. hist \in HistType
    BY <2>2, <2>3, Zenon DEF Init
  <2>5. wire \in Seq(PeerFrames)
    BY DEF Init
  <2>6. QED
    BY <2>1, <2>4, <2>5, Zenon DEF PeerType
<1>11. Budgeted
  <2>1. Len(<<>>) = 0 /\ 0 + 0 + 0 + 0 = 0 /\ 0 + 0 = 0
    OBVIOUS
  <2>2. BytesOf(<<>>) = 0 /\ Total(<<>>) = 0
    BY BytesEmpty, TotalEmpty
  <2>3. 0 <= MaxQueuedFramesTotal /\ 0 <= MaxQueuedBytesTotal
    BY LimitFields
  <2>4. Holds(ch)
    BY <1>7, <2>1, <2>2, Zenon DEF Holds, BudgetIs
  <2>5. BudgetIs(queued, Len(control) + Len(outbound) + Len(dispatchQueue) + ch.queued.frames,
                 BytesOf(control) + BytesOf(outbound) + BytesOf(dispatchQueue) + ch.queued.bytes)
    BY <1>2, <1>3, <1>7, <2>1, <2>2, Zenon DEF BudgetIs
  <2>6. QED
    BY <1>2, <1>3, <1>7, <2>3, <2>4, <2>5, Zenon DEF Budgeted, BudgetOf
<1>12. QED
  BY <1>1, <1>4, <1>7, <1>8, <1>9, <1>10, <1>11, Zenon DEF TypedBudget, Types

LEMMA TypedNext ==
  ASSUME TypedBudget, Next
  PROVE  TypedBudget'
<1>1. Types /\ Budgeted
  BY Zenon DEF TypedBudget
<1>2. Budgeted'
  BY <1>1, BudgetShutdown, BudgetWriter, BudgetCall, BudgetChannel, BudgetDispatch,
     BudgetWorker, BudgetPeer, BudgetReceiver, Zenon DEF Next
<1>3. QueueType' /\ ch' \in ChannelType
  BY <1>2, Zenon DEF Budgeted, BudgetOf, QueueType
<1>4. LifeInv' /\ LoopType' /\ CallType' /\ PeerType'
  BY <1>1, LifeStep, LoopStep, CallTypeStep, PeerTypeStep, Zenon DEF Types
<1>5. QED
  BY <1>2, <1>3, <1>4, Zenon DEF TypedBudget, Types

LEMMA TypedStep ==
  ASSUME TypedBudget, [Next]_vars
  PROVE  TypedBudget'
<1>1. CASE UNCHANGED vars
  <2>1. UNCHANGED <<lifeVars, queued, control, outbound, dispatchQueue, queuesClosed, writer,
                    receiver, dispatcher, worker, ch, closer, call, pendingGlobal,
                    incomingGlobal, conn, wire, env, hist>>
    BY <1>1, Zenon DEF vars, budgetVars, loopVars, callVars
  <2>2. UNCHANGED <<down, cause, parentDone>>
    BY <2>1, Zenon DEF lifeVars
  <2>3. Budgeted'
    BY <2>1, Zenon DEF TypedBudget, Budgeted
  <2>4. Types'
    BY <2>1, <2>2, Zenon DEF TypedBudget, Types, LifeInv, QueueType, LoopType, CallType, PeerType
  <2>5. QED
    BY <2>3, <2>4, Zenon DEF TypedBudget
<1>2. QED
  BY <1>1, TypedNext, Zenon

LEMMA Typed == Spec => []TypedBudget
BY TypedInit, TypedStep, PTL DEF Spec

LEMMA TypesAreTypes ==
  ASSUME Types
  PROVE  TypeOK
<1>1. ControlWrites \subseteq Writes /\ OutWrites \subseteq Writes /\ Tasks \subseteq Msgs
      /\ Events \subseteq Msgs /\ PeerFrames \subseteq Msgs
  BY DEF ControlWrites, OutWrites, Tasks, Events, PeerFrames
<1>2. ASSUME NEW S, NEW T, S \subseteq T, NEW q \in Seq(S)
      PROVE  q \in Seq(T)
  BY <1>2
<1>3. /\ queued \in Budgets
      /\ control \in Seq(Writes) /\ outbound \in Seq(Writes) /\ dispatchQueue \in Seq(Msgs)
      /\ wire \in Seq(Msgs)
  BY <1>1, <1>2, Zenon DEF Types, QueueType, PeerType
<1>4. writer \in [at : LoopPlaces, msg : Writes]
  BY <1>1 DEF Types, LoopType, WriterType, LoopPlaces
<1>5. dispatcher \in [at : LoopPlaces, id : Nat, reply : BOOLEAN]
  BY DEF Types, LoopType, DispatcherType, LoopPlaces
<1>6. worker \in [at : LoopPlaces, ev : Msgs]
  BY <1>1 DEF Types, LoopType, WorkerType, LoopPlaces
<1>7. ch.events \in Seq(Msgs)
  BY <1>1, <1>2, ChannelFields, Zenon DEF Types
<1>8. ch \in [state : {"open", "remoteEOF", "closing", "closed", "failed"},
               inTable : BOOLEAN, canceled : BOOLEAN, frames : Seq(Nat),
               events : Seq(Msgs), queued : Budgets, pending : SUBSET ChannelCallers,
               incoming : SUBSET Nat]
  BY <1>7 DEF Types, ChannelType, States
<1>9. QED
  BY <1>3, <1>4, <1>5, <1>6, <1>8, Zenon DEF TypeOK, Types, LifeInv, Downs, CallType

LEMMA BudgetRoom ==
  ASSUME TypedBudget
  PROVE  BudgetAccounted /\ QueuesHaveRoom
<1>1. BudgetAccounted
  BY BudgetNow, Zenon DEF TypedBudget, Budgeted, BudgetInv
<1>2. QueuesHaveRoom
  <2> DEFINE c == Len(control)
             o == Len(outbound)
             d == Len(dispatchQueue)
             h == ch.queued.frames
             f == Len(ch.frames)
             e == Len(ch.events)
  <2>1. c \in Nat /\ o \in Nat /\ d \in Nat /\ h \in Nat
    BY BudgetNumbers, Zenon DEF TypedBudget, Budgeted
  <2>2. queued.frames = c + o + d + h
    BY <1>1, Zenon DEF BudgetAccounted
  <2>3. f \in Nat /\ e \in Nat
    BY ChannelFields, Zenon DEF TypedBudget, Types
  <2>4. ch.state \in allowsRequests => h = f + e
    BY Zenon DEF TypedBudget, Budgeted, BudgetOf, Holds, BudgetIs, Discarded
  <2>5. MaxQueuedFramesTotal \in Nat /\ MaxQueuedFramesPerChannel \in Nat
    BY CoreAssumption
  <2> HIDE DEF c, o, d, h, f, e
  <2>6. queued.frames < MaxQueuedFramesTotal =>
          c < MaxQueuedFramesTotal /\ o < MaxQueuedFramesTotal /\ d < MaxQueuedFramesTotal
    BY <2>1, <2>2, <2>5
  <2>7. h < MaxQueuedFramesPerChannel /\ ch.state \in allowsRequests =>
          e < MaxQueuedFramesPerChannel
    BY <2>1, <2>3, <2>4, <2>5
  <2>8. QED
    BY <2>6, <2>7, Zenon DEF QueuesHaveRoom, c, o, d, h, e
<1>3. QED
  BY <1>1, <1>2

\* The fields of Session and Channel keep their types: TypeOK, for any limits,
\* callers and uses.
THEOREM TypeCorrect == Spec => []TypeOK
<1>1. TypedBudget => TypeOK
  BY TypesAreTypes, Zenon DEF TypedBudget
<1>2. QED
  BY <1>1, Typed, PTL

(***************************************************************************)
(* The queue budget is exact: the frames and bytes that reserveQueueBudget *)
(* took and releaseQueueBudget has not given back are those in the         *)
(* session's queues and the channel, whoever cancels, discards or shuts    *)
(* down in between, and never more than the limits.                        *)
(***************************************************************************)
THEOREM BudgetExact == Spec => []BudgetAccounted
<1>1. TypedBudget => BudgetAccounted
  BY BudgetRoom
<1>2. QED
  BY <1>1, Typed, PTL

\* Whoever got budget finds room in the Go channel it sends to: the queue
\* exhausted branches of enqueueWrite, enqueueDispatch and the enqueueChannel
\* functions are never taken.
THEOREM RoomInQueues == Spec => []QueuesHaveRoom
<1>1. TypedBudget => QueuesHaveRoom
  BY BudgetRoom
<1>2. QED
  BY <1>1, Typed, PTL

-----------------------------------------------------------------------------
(* A request is written, or taken back.                                    *)

CallsInv == (\A c \in Callers : CallInv(c)) /\ AnswersInv

LEMMA PlacedMoves ==
  ASSUME NEW c, NEW at, NEW D, NEW W, NEW busy, NEW q, Placed(c, at, D, W, busy, q),
         NEW to,
         \/ to = at
         \/ at \in {"idle", "sending"} /\ to \in {"sending", "done"}
         \/ at = "waiting" /\ to = "done"
         \/ c \in W /\ to = "done"
  PROVE  Placed(c, to, D, W, busy, q)
BY Zenon DEF Placed

LEMMA PlacedElsewhere ==
  ASSUME NEW c, NEW at, NEW D, NEW W, NEW busy, NEW q, Placed(c, at, D, W, busy, q),
         NEW E, NEW V, NEW b, c \in E <=> c \in D, c \in V <=> c \in W, busy # c, b # c
  PROVE  Placed(c, at, E, V, b, q)
BY Zenon DEF Placed

LEMMA PlacedSent ==
  ASSUME NEW c, NEW at, NEW D, NEW W, NEW q, Placed(c, at, D, W, c, q),
         NEW b, b # c, NEW V, NEW to,
         (to \in {"waiting", "done"} /\ c \in V) \/ (to = "done" /\ c \notin V)
  PROVE  Placed(c, to, D, V, b, q)
BY DEF Placed

LEMMA PlacedAppend ==
  ASSUME NEW c, NEW at, NEW D, NEW W, NEW busy, NEW q \in Seq(OutWrites), NEW w \in OutWrites,
         Placed(c, at, D, W, busy, q)
  PROVE  /\ w.waits # c => Placed(c, at, D, W, busy, Append(q, w))
         /\ w.waits = c /\ ~w.canceled /\ at = "sending" =>
               Placed(c, "queued", D, W, busy, Append(q, w))
<1> DEFINE r == Append(q, w)
<1>1. /\ DOMAIN r = 1..(Len(q) + 1) /\ DOMAIN q = 1..Len(q) /\ Len(q) \in Nat
      /\ \A i \in DOMAIN q : r[i] = q[i]
      /\ r[Len(q) + 1] = w
  OBVIOUS
<1>2. \A i \in DOMAIN r : i \in DOMAIN q \/ i = Len(q) + 1
  BY <1>1
<1> HIDE DEF r
<1>3. CASE w.waits # c
  BY <1>1, <1>2, <1>3 DEF Placed, r
<1>4. CASE w.waits = c /\ ~w.canceled /\ at = "sending"
  BY <1>1, <1>2, <1>4 DEF Placed, r
<1>5. QED
  BY <1>3, <1>4

LEMMA PlacedTake ==
  ASSUME NEW c, NEW at, NEW D, NEW W, NEW busy, NEW q \in Seq(OutWrites), q # <<>>,
         Placed(c, at, D, W, busy, q), busy # c, NEW b,
         b = c => Head(q).waits = c /\ ~Head(q).canceled
  PROVE  Placed(c, at, D, W, b, Tail(q))
<1> DEFINE r == Tail(q)
<1>1. /\ DOMAIN r = 1..(Len(q) - 1) /\ DOMAIN q = 1..Len(q) /\ Len(q) \in Nat /\ Len(q) > 0
      /\ \A i \in DOMAIN r : i + 1 \in DOMAIN q /\ r[i] = q[i + 1] /\ i + 1 # 1
      /\ Head(q) = q[1] /\ 1 \in DOMAIN q
  OBVIOUS
<1>2. \A i, j \in DOMAIN r : i + 1 = j + 1 => i = j
  BY <1>1
<1> HIDE DEF r
<1>3. \A i \in DOMAIN r : r[i].waits = c =>
          \/ at = "queued" /\ ~r[i].canceled /\ b # c
          \/ at = "done" /\ r[i].canceled
  BY <1>1 DEF Placed
<1>4. \A i, j \in DOMAIN r : r[i].waits = c /\ r[j].waits = c => i = j
  BY <1>1, <1>2 DEF Placed
<1>5. b = c => at = "queued"
  BY <1>1 DEF Placed
<1>6. QED
  BY <1>3, <1>4, <1>5, Zenon DEF Placed, r

LEMMA PlacedWithdraw ==
  ASSUME NEW c, NEW at, NEW D, NEW W, NEW busy, outbound \in Seq(OutWrites),
         Placed(c, at, D, W, busy, outbound), NEW who
  PROVE  /\ who # c => Placed(c, at, D, W, busy, Withdraw(who))
         /\ who = c /\ at = "queued" /\ (\E i \in DOMAIN outbound : outbound[i].waits = c) =>
               Placed(c, "done", D \cup {c}, W, busy, Withdraw(who))
<1> DEFINE r == Withdraw(who)
<1>1. /\ DOMAIN r = DOMAIN outbound
      /\ \A i \in DOMAIN outbound :
            /\ r[i].waits = outbound[i].waits
            /\ r[i].canceled <=> (outbound[i].canceled \/ outbound[i].waits = who)
  BY WithdrawType, Zenon
<1> HIDE DEF r
<1>2. CASE who # c
  BY <1>1, <1>2, Zenon DEF Placed, r
<1>3. CASE who = c /\ at = "queued" /\ (\E i \in DOMAIN outbound : outbound[i].waits = c)
  BY <1>1, <1>3 DEF Placed, r
<1>4. QED
  BY <1>2, <1>3

LEMMA NotCallers ==
  \A c \in Callers : c # None /\ c # "dispatcher" /\ c # "worker" /\ NoWrite.waits # c
BY CoreAssumption, NoWriteType DEF None

\* Steps that touch neither the queue, the writer nor the history of requests.
LEMMA PlacedQuiet ==
  ASSUME Types, \A c \in Callers : CallInv(c),
         UNCHANGED outbound, writer'.msg = writer.msg,
         hist'.withdrawn = hist.withdrawn, hist'.written = hist.written,
         \A c \in Callers :
            \/ call'[c].at = call[c].at
            \/ call[c].at \in {"idle", "sending"} /\ call'[c].at \in {"sending", "done"}
            \/ call[c].at = "waiting" /\ call'[c].at = "done"
            \/ c \in hist.written /\ call'[c].at = "done"
  PROVE  \A c \in Callers : CallInv(c)'
<1> TAKE c \in Callers
<1>1. Placed(c, call[c].at, hist.withdrawn, hist.written, writer.msg.waits, outbound)
  BY Zenon DEF CallInv
<1>2. Placed(c, call'[c].at, hist.withdrawn, hist.written, writer.msg.waits, outbound)
  BY <1>1, PlacedMoves, Zenon
<1>3. QED
  BY <1>2, Zenon DEF CallInv

LEMMA PlacedWriter ==
  ASSUME Types, \A c \in Callers : CallInv(c), WriterNext
  PROVE  \A c \in Callers : CallInv(c)'
<1>0. /\ writer \in WriterType /\ (writer.at # "sending" => writer.msg = NoWrite)
      /\ QueueType /\ call \in [Callers -> CallRec] /\ hist \in HistType
  BY Zenon DEF Types, LoopType, CallType, CallRec, PeerType
<1>1. CASE WriterPoll \/ WriterStop
  <2>1. UNCHANGED <<outbound, call, hist>>
    BY <1>1, Zenon DEF WriterPoll, WriterStop, budgetVars, callVars
  <2>2. writer.msg = NoWrite
    BY <1>0, <1>1 DEF WriterPoll, WriterStop
  <2>3. writer'.msg = writer.msg
    <3>1. writer' = [writer EXCEPT !.at = "waiting"] \/ writer' = [at |-> "stopped", msg |-> NoWrite]
      BY <1>1, Zenon DEF WriterPoll, WriterStop
    <3>2. QED
      BY <1>0, <2>2, <3>1 DEF WriterType
  <2>4. QED
    BY <2>1, <2>3, PlacedQuiet, Zenon
<1>2. ASSUME NEW w \in ControlWrites \cup OutWrites, Claim(w)
      PROVE  \/ w.canceled /\ writer'.msg = NoWrite
             \/ ~w.canceled /\ writer'.msg = w
  <2>1. writer' = IF w.canceled THEN [at |-> "idle", msg |-> NoWrite]
                                ELSE [at |-> "sending", msg |-> w]
    BY <1>2, Zenon DEF Claim
  <2>2. QED
    BY <2>1
<1>3. CASE WriterTakeControl
  <2>1. UNCHANGED <<outbound, call, hist>> /\ Claim(Head(control))
        /\ Head(control) \in ControlWrites
    BY <1>0, <1>3, QueueHeads, Zenon DEF WriterTakeControl, callVars
  <2>2. writer.msg = NoWrite
    BY <1>0, <1>3 DEF WriterTakeControl
  <2>3. writer'.msg.waits = None
    BY <1>2, <2>1, NoWriteType DEF ControlWrites
  <2>4. ASSUME NEW c \in Callers
        PROVE  CallInv(c)'
    <3>1. Placed(c, call[c].at, hist.withdrawn, hist.written, writer.msg.waits, outbound)
      BY Zenon DEF CallInv
    <3>2. writer.msg.waits # c /\ writer'.msg.waits # c
      BY <2>2, <2>3, NotCallers, Zenon
    <3>3. Placed(c, call[c].at, hist.withdrawn, hist.written, writer'.msg.waits, outbound)
      BY <3>1, <3>2, PlacedElsewhere
    <3>4. QED
      BY <2>1, <3>3, Zenon DEF CallInv
  <2>5. QED
    BY <2>4
<1>4. CASE WriterTakeOutbound
  <2> DEFINE w == Head(outbound)
  <2>1. /\ UNCHANGED <<call, hist>> /\ Claim(w) /\ outbound' = Tail(outbound)
        /\ w \in OutWrites /\ outbound # <<>> /\ outbound \in Seq(OutWrites)
    BY <1>0, <1>4, QueueHeads, Zenon DEF WriterTakeOutbound, callVars, QueueType
  <2>2. writer.msg = NoWrite
    BY <1>0, <1>4 DEF WriterTakeOutbound
  <2>3. \/ w.canceled /\ writer'.msg = NoWrite
        \/ ~w.canceled /\ writer'.msg = w
    BY <1>2, <2>1, Zenon
  <2>4. ASSUME NEW c \in Callers
        PROVE  CallInv(c)'
    <3>1. writer'.msg.waits = c => w.waits = c /\ ~w.canceled
      BY <2>3, NotCallers, Zenon
    <3>2. Placed(c, call[c].at, hist.withdrawn, hist.written, writer.msg.waits, outbound)
      BY Zenon DEF CallInv
    <3>3. writer.msg.waits # c
      BY <2>2, NotCallers, Zenon
    <3>4. Placed(c, call[c].at, hist.withdrawn, hist.written, writer'.msg.waits, Tail(outbound))
      BY <2>1, <3>1, <3>2, <3>3, PlacedTake, Zenon
    <3>5. QED
      BY <2>1, <3>4, Zenon DEF CallInv
  <2>5. QED
    BY <2>4
<1>5. CASE WriterSend
  <2>1. outbound' = outbound /\ writer' = [at |-> "idle", msg |-> NoWrite]
        /\ Written(writer.msg)
    BY <1>5, Zenon DEF WriterSend, budgetVars
  <2>2. writer'.msg = NoWrite
    BY <2>1
  <2>3. /\ hist'.withdrawn = hist.withdrawn
        /\ hist'.written = IF writer.msg.waits \in Callers
                           THEN hist.written \cup {writer.msg.waits} ELSE hist.written
    BY <1>0, <1>5, HistSend, Zenon DEF HistIs, IsHist
  <2>4. ASSUME NEW c \in Callers
        PROVE  CallInv(c)'
    <3>1. Placed(c, call[c].at, hist.withdrawn, hist.written, writer.msg.waits, outbound)
      BY Zenon DEF CallInv
    <3>2. writer'.msg.waits # c
      BY <2>2, NotCallers, Zenon
    <3>3. CASE writer.msg.waits = c
      <4>1. call'[c].at \in {"waiting", "done"}
        BY <1>0, <2>1, <3>3, CallWritten, Zenon
      <4>2. c \in hist'.written
        BY <2>3, <3>3
      <4>3. Placed(c, call'[c].at, hist.withdrawn, hist'.written, writer'.msg.waits, outbound)
        BY <3>1, <3>2, <3>3, <4>1, <4>2, PlacedSent, Zenon
      <4>4. QED
        BY <2>1, <2>3, <4>3, Zenon DEF CallInv
    <3>4. CASE writer.msg.waits # c
      <4>1. call'[c] = call[c]
        BY <1>0, <2>1, <3>4, CallWritten, Zenon
      <4>2. c \in hist'.written <=> c \in hist.written
        BY <2>3, <3>4
      <4>3. Placed(c, call[c].at, hist'.withdrawn, hist'.written, writer'.msg.waits, outbound)
        BY <2>3, <3>1, <3>2, <3>4, <4>2, PlacedElsewhere
      <4>4. QED
        BY <2>1, <4>1, <4>3, Zenon DEF CallInv
    <3>5. QED
      BY <3>3, <3>4
  <2>5. QED
    BY <2>4
<1>6. CASE WriterFail
  <2>1. UNCHANGED <<outbound, hist>> /\ writer' = [at |-> "stopped", msg |-> NoWrite]
    BY <1>6, Zenon DEF WriterFail, budgetVars
  <2>2. writer'.msg = NoWrite
    BY <2>1
  <2>4. ASSUME NEW c \in Callers
        PROVE  CallInv(c)'
    <3>1. Placed(c, call[c].at, hist.withdrawn, hist.written, writer.msg.waits, outbound)
      BY Zenon DEF CallInv
    <3>2. writer'.msg.waits # c
      BY <2>2, NotCallers, Zenon
    <3>3. CASE writer.msg.waits = c
      <4>1. call'[c].at = "done"
        BY <1>0, <1>6, <3>3, CallUnwritten, Zenon
      <4>2. c \notin hist.written
        BY <3>1, <3>3 DEF Placed
      <4>3. Placed(c, call'[c].at, hist.withdrawn, hist.written, writer'.msg.waits, outbound)
        BY <3>1, <3>2, <3>3, <4>1, <4>2, PlacedSent, Zenon
      <4>4. QED
        BY <2>1, <4>3, Zenon DEF CallInv
    <3>4. CASE writer.msg.waits # c
      <4>1. call'[c] = call[c]
        BY <1>0, <1>6, <3>4, CallUnwritten, Zenon
      <4>3. Placed(c, call[c].at, hist.withdrawn, hist.written, writer'.msg.waits, outbound)
        BY <3>1, <3>2, <3>4, PlacedElsewhere
      <4>4. QED
        BY <2>1, <4>1, <4>3, Zenon DEF CallInv
    <3>5. QED
      BY <3>3, <3>4
  <2>5. QED
    BY <2>4
<1>7. QED
  BY <1>1, <1>3, <1>4, <1>5, <1>6, Zenon DEF WriterNext

\* A reply of the dispatcher or the worker is queued, or taken back.
LEMMA PlacedReply ==
  ASSUME Types, \A c \in Callers : CallInv(c), UNCHANGED <<call, writer, hist>>,
         \/ \E w \in OutWrites : w.waits \notin Callers /\ outbound' = Append(outbound, w)
         \/ \E who : who \notin Callers /\ outbound' = Withdraw(who)
  PROVE  \A c \in Callers : CallInv(c)'
<1>0. outbound \in Seq(OutWrites)
  BY DEF Types, QueueType
<1> TAKE c \in Callers
<1>1. Placed(c, call[c].at, hist.withdrawn, hist.written, writer.msg.waits, outbound)
  BY Zenon DEF CallInv
<1>2. Placed(c, call[c].at, hist.withdrawn, hist.written, writer.msg.waits, outbound')
  BY <1>0, <1>1, PlacedAppend, PlacedWithdraw, Zenon
<1>3. QED
  BY <1>2, Zenon DEF CallInv

LEMMA PlacedCall ==
  ASSUME Types, \A c \in Callers : CallInv(c), CallNext
  PROVE  \A c \in Callers : CallInv(c)'
<1>0. call \in [Callers -> CallRec] /\ hist \in HistType /\ outbound \in Seq(OutWrites)
  BY Zenon DEF Types, CallType, CallRec, PeerType, QueueType
<1>1. ASSUME NEW c \in Callers, NEW b \in BOOLEAN, call[c].at = "idle",
             call' = [call EXCEPT ![c] = [at |-> "sending", reply |-> b]],
             UNCHANGED <<outbound, writer, hist>>
      PROVE  \A d \in Callers : CallInv(d)'
  <2>1. OneMoves(c, "sending")
    BY <1>0, <1>1, CallEnters, Zenon
  <2>2. \A d \in Callers : call'[d].at = call[d].at
                           \/ (call[d].at = "idle" /\ call'[d].at = "sending")
    BY <1>1, <2>1, Zenon DEF OneMoves
  <2>3. QED
    BY <1>1, <2>2, PlacedQuiet
<1>2. ASSUME NEW c \in GlobalCallers, NEW b \in BOOLEAN, GlobalCall(c, b)
      PROVE  \A d \in Callers : CallInv(d)'
  <2>1. /\ c \in Callers /\ call[c].at = "idle"
        /\ call' = [call EXCEPT ![c] = [at |-> "sending", reply |-> b]]
        /\ UNCHANGED <<outbound, writer, hist>>
    BY <1>2, Zenon DEF GlobalCall, Callers, budgetVars, loopVars
  <2>2. QED
    BY <1>1, <2>1, Zenon
<1>3. ASSUME NEW c \in ChannelCallers, NEW b \in BOOLEAN, ChannelCall(c, b)
      PROVE  \A d \in Callers : CallInv(d)'
  <2>1. /\ c \in Callers /\ call[c].at = "idle"
        /\ call' = [call EXCEPT ![c] = [at |-> "sending", reply |-> b]]
        /\ UNCHANGED <<outbound, writer, hist>>
    BY <1>3, Zenon DEF ChannelCall, Callers, budgetVars, loopVars
  <2>2. QED
    BY <1>1, <2>1, Zenon
<1>4. ASSUME NEW c \in Callers, CallQueue(c)
      PROVE  \A d \in Callers : CallInv(d)'
  <2> DEFINE w == Write(RequestKind(c), c, call[c].reply, c)
  <2>1. /\ call[c].at = "sending" /\ outbound' = Append(outbound, w)
        /\ call' = [call EXCEPT ![c] = CallAt(c, "queued")]
        /\ UNCHANGED <<writer, hist>>
    BY <1>4, Zenon DEF CallQueue, EnqueueOutbound, loopVars
  <2>2. OneMoves(c, "queued")
    BY <1>0, <2>1, CallMove, CallPlacesAre, Zenon
  <2>3. call[c].reply \in BOOLEAN
    BY <1>0 DEF CallRec
  <2>4. w \in OutWrites /\ w.waits = c /\ ~w.canceled
    BY <2>3, CallWriteType, Zenon
  <2> HIDE DEF w
  <2>5. ASSUME NEW d \in Callers
        PROVE  CallInv(d)'
    <3>1. Placed(d, call[d].at, hist.withdrawn, hist.written, writer.msg.waits, outbound)
      BY Zenon DEF CallInv
    <3>2. Placed(d, call'[d].at, hist.withdrawn, hist.written, writer.msg.waits,
                 Append(outbound, w))
      <4>1. CASE d = c
        <5>1. Placed(d, "queued", hist.withdrawn, hist.written, writer.msg.waits,
                     Append(outbound, w))
          BY <1>0, <2>1, <2>4, <3>1, <4>1, PlacedAppend, Zenon
        <5>2. QED
          BY <2>2, <4>1, <5>1, Zenon DEF OneMoves
      <4>2. CASE d # c
        <5>1. Placed(d, call[d].at, hist.withdrawn, hist.written, writer.msg.waits,
                     Append(outbound, w))
          BY <1>0, <2>4, <3>1, <4>2, PlacedAppend, Zenon
        <5>2. QED
          BY <2>2, <4>2, <5>1, Zenon DEF OneMoves
      <4>3. QED
        BY <4>1, <4>2
    <3>3. QED
      BY <2>1, <3>2, Zenon DEF CallInv
  <2>6. QED
    BY <2>5
<1>5. ASSUME NEW c \in Callers, CallRefused(c) \/ CallGiveUp(c)
      PROVE  \A d \in Callers : CallInv(d)'
  <2>1. /\ call[c].at \in {"sending", "waiting"}
        /\ call' = [call EXCEPT ![c] = CallAt(c, "done")]
        /\ UNCHANGED <<writer, outbound>>
    BY <1>5, Zenon DEF CallRefused, CallGiveUp, Leave, loopVars, budgetVars
  <2>2. hist'.withdrawn = hist.withdrawn /\ hist'.written = hist.written
    <3>1. hist' = hist \/ CallGiveUp(c)
      BY <1>5, Zenon DEF CallRefused
    <3>2. QED
      BY <1>0, <3>1, HistCall, Zenon DEF HistIs, IsHist
  <2>3. OneMoves(c, "done")
    BY <1>0, <2>1, CallMove, CallPlacesAre, Zenon
  <2>4. \A d \in Callers :
          \/ call'[d].at = call[d].at
          \/ call[d].at \in {"idle", "sending"} /\ call'[d].at \in {"sending", "done"}
          \/ call[d].at = "waiting" /\ call'[d].at = "done"
    BY <2>1, <2>3, Zenon DEF OneMoves
  <2>5. QED
    BY <2>1, <2>2, <2>4, PlacedQuiet
<1>6. ASSUME NEW c \in Callers, CallWithdraw(c)
      PROVE  \A d \in Callers : CallInv(d)'
  <2>1. /\ call[c].at = "queued" /\ \E i \in DOMAIN outbound : outbound[i].waits = c
        /\ outbound' = Withdraw(c) /\ call' = [call EXCEPT ![c] = CallAt(c, "done")]
        /\ UNCHANGED writer
    BY <1>6, Zenon DEF CallWithdraw, Leave, loopVars
  <2>2. hist'.withdrawn = hist.withdrawn \cup {c} /\ hist'.written = hist.written
    BY <1>0, <1>6, HistCall, Zenon DEF HistIs, IsHist
  <2>3. OneMoves(c, "done")
    BY <1>0, <2>1, CallMove, CallPlacesAre, Zenon
  <2>4. ASSUME NEW d \in Callers
        PROVE  CallInv(d)'
    <3>1. Placed(d, call[d].at, hist.withdrawn, hist.written, writer.msg.waits, outbound)
      BY Zenon DEF CallInv
    <3>2. CASE d = c
      <4>1. Placed(d, "done", hist.withdrawn \cup {d}, hist.written, writer.msg.waits, Withdraw(c))
        BY <1>0, <2>1, <3>1, <3>2, PlacedWithdraw, Zenon
      <4>2. QED
        BY <2>1, <2>2, <2>3, <3>2, <4>1, Zenon DEF CallInv, OneMoves
    <3>3. CASE d # c
      <4>1. Placed(d, call[d].at, hist.withdrawn, hist.written, writer.msg.waits, Withdraw(c))
        BY <1>0, <3>1, <3>3, PlacedWithdraw, Zenon
      <4>2. d \in hist.withdrawn \cup {c} <=> d \in hist.withdrawn
        BY <3>3
      <4>3. Placed(d, call[d].at, hist.withdrawn \cup {c}, hist.written, writer.msg.waits,
                   Withdraw(c))
        BY <4>1, <4>2, Zenon DEF Placed
      <4>4. QED
        BY <2>1, <2>2, <2>3, <3>3, <4>3, Zenon DEF CallInv, OneMoves
    <3>4. QED
      BY <3>2, <3>3
  <2>5. QED
    BY <2>4
<1>7. QED
  BY <1>2, <1>3, <1>4, <1>5, <1>6, Zenon DEF CallNext

LEMMA PlacedStep ==
  ASSUME Types, CallsInv, Next
  PROVE  \A c \in Callers : CallInv(c)'
<1>0. /\ \A c \in Callers : CallInv(c)
      /\ AnswersInv /\ call \in [Callers -> CallRec] /\ hist \in HistType /\ PeerType
      /\ ch \in ChannelType /\ dispatcher \in DispatcherType /\ worker \in WorkerType
  BY Zenon DEF CallsInv, Types, CallType, CallRec, PeerType, LoopType
<1>1. CASE ShutdownNext
  <2>1. UNCHANGED <<call, outbound, writer>>
        /\ (UNCHANGED hist \/ ShutdownCancel \/ DisconnectTimeout)
    BY <1>1, Zenon DEF ShutdownNext, ShutdownCancel, ShutdownFinish, FinalizeClose,
       DisconnectTimeout, FinalizeDone, SessionClose, ParentCancel, ParentShutdown,
       EnqueueControl, budgetVars, loopVars, callVars
  <2>2. hist'.withdrawn = hist.withdrawn /\ hist'.written = hist.written
    BY <1>0, <2>1, HistCancel, HistTimeout, Zenon DEF HistIs, IsHist
  <2>3. QED
    BY <1>0, <2>1, <2>2, PlacedQuiet, Zenon
<1>2. CASE ChannelNext \/ WorkerClose
  <2>1. UNCHANGED <<outbound, writer>> /\ (UNCHANGED call \/ FailPending)
        /\ (UNCHANGED hist \/ RecvEnd \/ ChannelClose \/ WorkerClose)
    BY <1>2, Zenon DEF ChannelNext, Recv, RecvEnd, ChannelClose, CloseQueue, CloseTimeout,
       WorkerClose, EnqueueControl, budgetVars, loopVars, callVars
  <2>2. hist'.withdrawn = hist.withdrawn /\ hist'.written = hist.written
    BY <1>0, <2>1, HistChannel, Zenon DEF HistIs, IsHist
  <2>3. \A c \in Callers : call'[c].at = call[c].at
                           \/ (call[c].at = "waiting" /\ call'[c].at = "done")
    BY <1>0, <2>1, CallFails, Zenon DEF SomeFail
  <2>4. QED
    BY <1>0, <2>1, <2>2, <2>3, PlacedQuiet, Zenon
<1>3. CASE DispatchNext
  <2>1. UNCHANGED <<call, writer, hist>>
    BY <1>3, Zenon DEF DispatchNext, DispatchTake, DispatchNoReply, DispatchReply,
       DispatchRefused, DispatchWithdraw, DispatchStop, DispatchFail, callVars
  <2>2. \/ UNCHANGED outbound
        \/ outbound' = Append(outbound, Write("globalResult", dispatcher.id, FALSE, "dispatcher"))
        \/ outbound' = Withdraw("dispatcher")
    BY <1>3, Zenon DEF DispatchNext, DispatchTake, DispatchNoReply, DispatchReply,
       DispatchRefused, DispatchWithdraw, DispatchStop, EnqueueOutbound, budgetVars
  <2>3. dispatcher.id \in Nat
    BY <1>0 DEF DispatcherType
  <2> DEFINE w == Write("globalResult", dispatcher.id, FALSE, "dispatcher")
  <2>4. w \in OutWrites /\ w.waits = "dispatcher"
    BY <2>3, ReplyWriteType, Zenon
  <2>5. "dispatcher" \notin Callers
    BY NotCallers
  <2> HIDE DEF w
  <2>6. CASE UNCHANGED outbound
    BY <1>0, <2>1, <2>6, PlacedQuiet, Zenon
  <2>7. CASE outbound' = Append(outbound, w) \/ outbound' = Withdraw("dispatcher")
    BY <1>0, <2>1, <2>4, <2>5, <2>7, PlacedReply, Zenon
  <2>8. QED
    BY <2>2, <2>6, <2>7, Zenon DEF w
<1>4. CASE WorkerNext /\ ~WorkerClose
  <2>1. UNCHANGED <<call, writer, hist>>
    BY <1>4, Zenon DEF WorkerNext, WorkerStart, WorkerTake, WorkerStop, WorkerHandled,
       WorkerReply, WorkerRefused, WorkerWithdraw, callVars
  <2>2. \/ UNCHANGED outbound
        \/ outbound' = Append(outbound, Write("channelResult", worker.ev.id, FALSE, "worker"))
        \/ outbound' = Withdraw("worker")
    BY <1>4, Zenon DEF WorkerNext, WorkerStart, WorkerTake, WorkerStop, WorkerHandled,
       WorkerReply, WorkerRefused, WorkerWithdraw, EnqueueOutbound, budgetVars
  <2>3. worker.ev.id \in Nat
    BY <1>0 DEF WorkerType, Events
  <2> DEFINE w == Write("channelResult", worker.ev.id, FALSE, "worker")
  <2>4. w \in OutWrites /\ w.waits = "worker"
    BY <2>3, ReplyWriteType, Zenon
  <2>5. "worker" \notin Callers
    BY NotCallers
  <2> HIDE DEF w
  <2>6. CASE UNCHANGED outbound
    BY <1>0, <2>1, <2>6, PlacedQuiet, Zenon
  <2>7. CASE outbound' = Append(outbound, w) \/ outbound' = Withdraw("worker")
    BY <1>0, <2>1, <2>4, <2>5, <2>7, PlacedReply, Zenon
  <2>8. QED
    BY <2>2, <2>6, <2>7, Zenon DEF w
<1>5. CASE PeerNext
  <2>1. UNCHANGED <<call, writer, outbound>>
        /\ ((\E k : Overtakes(k)) \/ Break)
    BY <1>5, Zenon DEF PeerNext, PeerSend, PeerAnswer, Break, callVars, loopVars, budgetVars,
       Overtakes
  <2>2. hist'.withdrawn = hist.withdrawn /\ hist'.written = hist.written
    BY <1>0, <2>1, HistPeer, Zenon DEF HistIs, IsHist
  <2>3. QED
    BY <1>0, <2>1, <2>2, PlacedQuiet, Zenon
<1>6. CASE ReceiverNext
  <2>1. UNCHANGED hist
    BY <1>0, <1>6, WireReceiver, Zenon
  <2>2. UNCHANGED writer
    <3>1. \A k : Receives(k) => UNCHANGED writer
      BY Zenon DEF Receives
    <3>2. QED
      BY <1>6, <3>1, Zenon DEF ReceiverNext, ReceiveGlobalRequest, ReceiveGlobalResult,
         ReceiveChannelResult, ReceiveChannelRequest, ReceiveData, ReceiveChannelEOF,
         ReceiveCloseAnswer, ReceiveChannelClose, ReceiveEnd, ReceiveFails
  <2>3. UNCHANGED outbound
    BY <1>6, Zenon DEF ReceiverNext, ReceiveGlobalRequest, ReceiveGlobalResult,
       ReceiveChannelResult, ReceiveChannelRequest, ReceiveData, ReceiveChannelEOF,
       ReceiveCloseAnswer, ReceiveChannelClose, ReceiveEnd, ReceiveFails, EnqueueControl,
       ReserveEvent, budgetVars
  <2>4. \A c \in Callers : call'[c].at = call[c].at
                           \/ (c \in hist.written /\ call'[c].at = "done")
    <3>1. CASE UNCHANGED call
      BY <3>1
    <3>2. ASSUME NEW d \in Callers, wire # <<>>, Head(wire).kind \in ResultKinds,
                 Head(wire).id = d, OneMoves(d, "done")
          PROVE  \A c \in Callers : call'[c].at = call[c].at
                                    \/ (c \in hist.written /\ call'[c].at = "done")
      <4>1. d \in hist.written
        <5>1. wire \in Seq(PeerFrames)
          BY <1>0, Zenon DEF PeerType
        <5>2. 1 \in DOMAIN wire /\ Head(wire) = wire[1]
          BY <3>2, <5>1
        <5>3. QED
          BY <1>0, <3>2, <5>2, Zenon DEF AnswersInv
      <4>2. QED
        BY <3>2, <4>1, Zenon DEF OneMoves
    <3>3. QED
      BY <1>6, <3>1, <3>2, CallReceiver, Zenon
  <2>5. QED
    BY <1>0, <2>1, <2>2, <2>3, <2>4, PlacedQuiet, Zenon
<1>7. QED
  BY <1>0, <1>1, <1>2, <1>3, <1>4, <1>5, <1>6, PlacedWriter, PlacedCall, Zenon DEF Next, WorkerNext

LEMMA AnswersStep ==
  ASSUME Types, CallsInv, Next
  PROVE  AnswersInv'
<1>0. /\ AnswersInv /\ PeerType /\ hist \in HistType /\ ch \in ChannelType
      /\ wire \in Seq(PeerFrames) /\ env \in EnvType
      /\ writer \in WriterType
  BY Zenon DEF CallsInv, Types, PeerType, LoopType
<1>1. CASE UNCHANGED <<wire, env>> /\ hist'.written = hist.written
  BY <1>0, <1>1, Zenon DEF AnswersInv
<1>2. CASE WriterSend
  <2>1. UNCHANGED wire
    BY <1>2, Zenon DEF WriterSend
  <2>2. hist'.written = IF writer.msg.waits \in Callers
                        THEN hist.written \cup {writer.msg.waits} ELSE hist.written
    BY <1>0, <1>2, HistSend, Zenon DEF HistIs, IsHist
  <2>3. env'.owes = IF writer.msg.kind \in RequestKinds /\ writer.msg.reply
                    THEN env.owes \cup {writer.msg.id} ELSE env.owes
    BY <1>2, WriterSendsEnv, Zenon
  <2>4. writer.msg.kind \in RequestKinds =>
          writer.msg.waits \in Callers /\ writer.msg.id = writer.msg.waits
    BY <1>0 DEF WriterType, ControlWrites, OutWrites, RequestKinds, ResultKinds
  <2>5. hist.written \subseteq hist'.written
    BY <2>2
  <2>6. env'.owes \subseteq hist'.written
    BY <1>0, <2>2, <2>3, <2>4, <2>5 DEF AnswersInv
  <2>7. QED
    BY <1>0, <2>1, <2>5, <2>6 DEF AnswersInv
<1>3. ASSUME NEW kind \in env.use.peer, NEW reply \in BOOLEAN, PeerSend(kind, reply)
      PROVE  AnswersInv'
  <2> DEFINE m == Msg(kind, env.sent + 1, reply /\ kind \in RequestKinds)
  <2>1. hist'.written = hist.written
    BY <1>0, <1>3, PeerSends, HistPeer, Zenon DEF HistIs, IsHist
  <2>2. wire' = Append(wire, m) /\ env'.owes = env.owes /\ m.kind = kind
        /\ kind \in (Kinds \ ResultKinds) \cup {"hangup"}
    BY <1>0, <1>3, PeerSends, ZenonT(60) DEF IsMsg
  <2> HIDE DEF m
  <2>3. m.kind \notin ResultKinds
    BY <2>2 DEF ResultKinds
  <2>4. DOMAIN wire' = 1..(Len(wire) + 1) /\ wire'[Len(wire) + 1] = m
        /\ \A i \in 1..Len(wire) : wire'[i] = wire[i] /\ i \in DOMAIN wire
    BY <1>0, <2>2
  <2>5. \A i \in DOMAIN wire' : i = Len(wire) + 1 \/ i \in 1..Len(wire)
    BY <1>0, <2>4
  <2>6. QED
    BY <1>0, <2>1, <2>2, <2>3, <2>4, <2>5, Zenon DEF AnswersInv
<1>4. ASSUME NEW c \in Callers, PeerAnswer(c)
      PROVE  AnswersInv'
  <2> DEFINE m == Msg(AnswerKind(c), c, FALSE)
  <2>1. hist'.written = hist.written
    BY <1>0, <1>4, PeerAnswers, HistPeer, Zenon DEF HistIs, IsHist
  <2>2. wire' = Append(wire, m) /\ env'.owes = env.owes \ {c} /\ m.id = c
    BY <1>0, <1>4, PeerAnswers, Zenon DEF IsMsg
  <2>3. c \in env.owes
    BY <1>4, Zenon DEF PeerAnswer
  <2> HIDE DEF m
  <2>4. DOMAIN wire' = 1..(Len(wire) + 1) /\ wire'[Len(wire) + 1] = m
        /\ \A i \in 1..Len(wire) : wire'[i] = wire[i] /\ i \in DOMAIN wire
    BY <1>0, <2>2
  <2>5. \A i \in DOMAIN wire' : i = Len(wire) + 1 \/ i \in 1..Len(wire)
    BY <1>0, <2>4
  <2>6. env'.owes \subseteq hist'.written /\ c \in hist.written
    BY <1>0, <2>1, <2>2, <2>3 DEF AnswersInv
  <2>7. QED
    BY <1>0, <2>1, <2>2, <2>4, <2>5, <2>6, Zenon DEF AnswersInv
<1>5. CASE ReceiverNext
  <2>1. /\ UNCHANGED <<env, hist>>
        /\ UNCHANGED wire \/ (wire # <<>> /\ wire' = Tail(wire))
    BY <1>0, <1>5, WireReceiver, Zenon
  <2>2. CASE wire # <<>> /\ wire' = Tail(wire)
    <3>1. \A i \in DOMAIN wire' : i + 1 \in DOMAIN wire /\ wire'[i] = wire[i + 1]
      BY <1>0, <2>2
    <3>2. QED
      BY <1>0, <2>1, <3>1, Zenon DEF AnswersInv
  <2>3. QED
    BY <1>1, <2>1, <2>2
<1>6. CASE WriterNext /\ ~WriterSend
  <2>1. UNCHANGED <<wire, env, hist>>
    BY <1>6, Zenon DEF WriterNext, WriterPoll, WriterTakeControl, WriterTakeOutbound,
       WriterFail, WriterStop
  <2>2. QED
    BY <1>1, <2>1
<1>7. CASE ShutdownNext
  <2>1. UNCHANGED <<wire, env>> /\ (UNCHANGED hist \/ ShutdownCancel \/ DisconnectTimeout)
    BY <1>7, Zenon DEF ShutdownNext, ShutdownCancel, ShutdownFinish, FinalizeClose,
       DisconnectTimeout, FinalizeDone, SessionClose, ParentCancel, ParentShutdown
  <2>2. hist'.written = hist.written
    BY <1>0, <2>1, HistCancel, HistTimeout, Zenon DEF HistIs, IsHist
  <2>3. QED
    BY <1>1, <2>1, <2>2
<1>8. CASE CallNext
  <2>1. UNCHANGED <<wire, env>>
        /\ (UNCHANGED hist \/ \E c \in Callers : CallWithdraw(c) \/ CallGiveUp(c))
    BY <1>8, Zenon DEF CallNext, GlobalCall, ChannelCall, CallQueue, CallRefused,
       CallWithdraw, CallGiveUp
  <2>2. hist'.written = hist.written
    BY <1>0, <2>1, HistCall, Zenon DEF HistIs, IsHist
  <2>3. QED
    BY <1>1, <2>1, <2>2
<1>9. CASE ChannelNext \/ DispatchNext \/ WorkerNext
  <2>1. UNCHANGED <<wire, env>> /\ (UNCHANGED hist \/ RecvEnd \/ ChannelClose \/ WorkerClose)
    <3>1. CASE ChannelNext
      BY <3>1, Zenon DEF ChannelNext, Recv, RecvEnd, ChannelClose, CloseQueue, CloseTimeout
    <3>2. CASE DispatchNext
      BY <3>2, Zenon DEF DispatchNext, DispatchTake, DispatchNoReply, DispatchReply,
         DispatchRefused, DispatchWithdraw, DispatchStop
    <3>3. CASE WorkerNext
      BY <3>3, Zenon DEF WorkerNext, WorkerStart, WorkerTake, WorkerStop, WorkerHandled,
         WorkerClose, WorkerReply, WorkerRefused, WorkerWithdraw
    <3>4. QED
      BY <1>9, <3>1, <3>2, <3>3
  <2>2. hist'.written = hist.written
    BY <1>0, <2>1, HistChannel, Zenon DEF HistIs, IsHist
  <2>3. QED
    BY <1>1, <2>1, <2>2
<1>10. CASE Break
  <2>1. UNCHANGED <<wire, env>>
    BY <1>10, Zenon DEF Break
  <2>2. hist'.written = hist.written
    BY <1>0, <1>10, HistPeer, Zenon DEF HistIs, IsHist
  <2>3. QED
    BY <1>1, <2>1, <2>2
<1>11. QED
  BY <1>2, <1>3, <1>4, <1>5, <1>6, <1>7, <1>8, <1>9, <1>10, Zenon DEF Next, PeerNext

LEMMA CallsInit ==
  ASSUME Init
  PROVE  CallsInv
<1>1. /\ outbound = <<>> /\ hist.withdrawn = {} /\ hist.written = {} /\ wire = <<>>
      /\ env.owes = {}
  BY DEF Init
<1>2. writer.msg = NoWrite
  BY DEF Init
<1>3. \A c \in Callers : call[c].at = "idle"
  BY DEF Init
<1>4. ASSUME NEW c \in Callers
      PROVE  CallInv(c)
  BY <1>1, <1>2, <1>3, NotCallers DEF CallInv, Placed
<1>5. AnswersInv
  BY <1>1 DEF AnswersInv
<1>6. QED
  BY <1>4, <1>5 DEF CallsInv

LEMMA CallsStep ==
  ASSUME Types, CallsInv, [Next]_vars
  PROVE  CallsInv'
<1>1. CASE UNCHANGED vars
  <2>1. UNCHANGED <<outbound, writer, call, wire, env, hist>>
    BY <1>1, Zenon DEF vars, budgetVars, loopVars, callVars
  <2>2. QED
    BY <2>1, Zenon DEF CallsInv, CallInv, AnswersInv
<1>2. CASE Next
  BY <1>2, PlacedStep, AnswersStep, Zenon DEF CallsInv
<1>3. QED
  BY <1>1, <1>2

(***************************************************************************)
(* A request that its caller took back from the queue is never written:    *)
(* the compare and swap of the caller and the writer's claim exclude each  *)
(* other, so an error that says "not sent" is true.                        *)
(***************************************************************************)
THEOREM WithdrawnStaysUnsent == Spec => []WithdrawnNeverWritten
<1>1. TypedBudget /\ CallsInv => WithdrawnNeverWritten
  <2> SUFFICES ASSUME TypedBudget, CallsInv
               PROVE  WithdrawnNeverWritten
    OBVIOUS
  <2>1. hist.withdrawn \subseteq Callers
    BY DEF TypedBudget, Types, PeerType, HistType
  <2>2. \A c \in Callers : c \in hist.withdrawn => c \notin hist.written
    BY Zenon DEF CallsInv, CallInv, Placed
  <2>3. QED
    BY <2>1, <2>2 DEF WithdrawnNeverWritten
<1>2. TypedBudget /\ CallsInv /\ [Next]_vars => CallsInv'
  BY CallsStep, Zenon DEF TypedBudget
<1>3. QED
  BY <1>1, <1>2, CallsInit, Typed, PTL DEF Spec

-----------------------------------------------------------------------------
(* The disconnect of a protocol error.                                     *)

\* Queues only grow while they are open; a stopped writer takes nothing.
QueuesGrow ==
    /\ control' = control \/ (~queuesClosed /\ \E w : control' = Append(control, w))
    /\ outbound = <<>> => outbound' = <<>> \/ ~queuesClosed

LEMMA GrowsInControl ==
  ASSUME QueueType, QueuesGrow, InControl
  PROVE  InControl'
<1>1. control \in Seq(ControlWrites)
  BY DEF QueueType
<1>2. CASE control' = control
  BY <1>2, Zenon DEF InControl
<1>3. ASSUME NEW w, control' = Append(control, w)
      PROVE  InControl'
  <2>1. PICK i \in DOMAIN control : control[i].kind = "disconnect"
    BY DEF InControl
  <2>2. i \in DOMAIN control' /\ control'[i] = control[i]
    BY <1>1, <1>3, <2>1
  <2>3. QED
    BY <2>1, <2>2 DEF InControl
<1>4. QED
  BY <1>2, <1>3, Zenon DEF QueuesGrow

LEMMA DisconnectQuiet ==
  ASSUME Types, LifeInv', DisconnectInv, UNCHANGED writer, QueuesGrow,
         queuesClosed => queuesClosed',
         hist'.disconnect = hist.disconnect,
         hist.broke => hist'.broke, hist.timedOut => hist'.timedOut,
         conn' = conn \/ conn' = "closed",
         down # "no" => cause' = cause,
         down' \in {"connClosed", "done"} /\ cause' = "protocol" =>
            hist'.timedOut \/ writer.at = "stopped"
  PROVE  DisconnectInv'
<1>0. LifeInv /\ QueueType
  BY Zenon DEF Types
<1>1. conn' = "broken" => hist'.broke
  BY DEF DisconnectInv
<1>2. writer'.at = "stopped" =>
          \/ hist'.broke \/ hist'.timedOut
          \/ queuesClosed' /\ control' = <<>> /\ outbound' = <<>>
          \/ conn' = "closed" /\ cause' # "protocol"
  <2> SUFFICES ASSUME writer.at = "stopped"
               PROVE  \/ hist'.broke \/ hist'.timedOut
                      \/ queuesClosed' /\ control' = <<>> /\ outbound' = <<>>
                      \/ conn' = "closed" /\ cause' # "protocol"
    OBVIOUS
  <2>1. CASE hist.broke \/ hist.timedOut
    BY <2>1
  <2>2. CASE queuesClosed /\ control = <<>> /\ outbound = <<>>
    BY <2>2, Zenon DEF QueuesGrow
  <2>3. CASE conn = "closed" /\ cause # "protocol"
    BY <1>0, <2>3 DEF LifeInv
  <2>4. QED
    BY <2>1, <2>2, <2>3 DEF DisconnectInv
<1>3. ASSUME hist'.disconnect = "queued"
      PROVE  /\ cause' = "protocol"
             /\ \/ InControl'
                \/ writer'.at = "sending" /\ writer'.msg.kind = "disconnect"
                \/ writer'.at = "stopped" /\ (hist'.broke \/ hist'.timedOut)
  <2>1. cause = "protocol" /\ down # "no"
    BY <1>0, <1>3 DEF DisconnectInv, LifeInv, None
  <2>2. \/ InControl
        \/ writer.at = "sending" /\ writer.msg.kind = "disconnect"
        \/ writer.at = "stopped" /\ (hist.broke \/ hist.timedOut)
    BY <1>3, Zenon DEF DisconnectInv
  <2>3. QED
    BY <1>0, <2>1, <2>2, GrowsInControl, Zenon
<1>4. QED
  BY <1>1, <1>2, <1>3, Zenon DEF DisconnectInv

LEMMA OpenQueue == \A kind : Refusal(kind) = None => ~queuesClosed
BY RefusalNone, Zenon

\* Nobody but the writer takes from the write queues.
LEMMA OthersGrow ==
  ASSUME Types, Next, ~WriterNext
  PROVE  QueuesGrow
<1>1. CASE ShutdownNext
  BY <1>1, OpenQueue, Zenon DEF ShutdownNext, ShutdownCancel, ShutdownFinish, FinalizeClose,
       DisconnectTimeout, FinalizeDone, SessionClose, ParentCancel, ParentShutdown,
       EnqueueControl, budgetVars, QueuesGrow
<1>2. ASSUME NEW who
      PROVE  outbound = <<>> => Withdraw(who) = <<>>
  BY DEF Withdraw
<1>3. CASE CallNext
  BY <1>2, <1>3, OpenQueue, Zenon DEF CallNext, GlobalCall, ChannelCall, CallQueue, CallRefused,
       CallWithdraw, CallGiveUp, EnqueueOutbound, budgetVars, QueuesGrow
<1>4. CASE ChannelNext
  BY <1>4, OpenQueue, Zenon DEF ChannelNext, Recv, RecvEnd, ChannelClose, CloseQueue, CloseTimeout,
       EnqueueControl, budgetVars, QueuesGrow
<1>5. CASE DispatchNext
  BY <1>2, <1>5, OpenQueue, Zenon DEF DispatchNext, DispatchTake, DispatchNoReply,
       DispatchReply, DispatchRefused, DispatchWithdraw, DispatchStop, EnqueueOutbound,
       budgetVars, QueuesGrow
<1>6. CASE WorkerNext
  BY <1>2, <1>6, OpenQueue, Zenon DEF WorkerNext, WorkerStart, WorkerTake, WorkerStop,
       WorkerHandled, WorkerClose, WorkerReply, WorkerRefused, WorkerWithdraw,
       EnqueueOutbound, budgetVars, QueuesGrow
<1>7. CASE PeerNext
  BY <1>7, Zenon DEF PeerNext, PeerSend, PeerAnswer, Break, budgetVars, QueuesGrow
<1>8. CASE ReceiverNext
  <2>1. UNCHANGED outbound
    BY <1>8, Zenon DEF ReceiverNext, ReceiveGlobalRequest, ReceiveGlobalResult,
       ReceiveChannelResult, ReceiveChannelRequest, ReceiveData, ReceiveChannelEOF,
       ReceiveCloseAnswer, ReceiveChannelClose, ReceiveEnd, ReceiveFails, EnqueueControl,
       ReserveEvent, budgetVars
  <2>2. control' = control \/ (~queuesClosed /\ \E w : control' = Append(control, w))
    BY <1>8, OpenQueue, Zenon DEF ReceiverNext, ReceiveGlobalRequest, ReceiveGlobalResult,
       ReceiveChannelResult, ReceiveChannelRequest, ReceiveData, ReceiveChannelEOF,
       ReceiveCloseAnswer, ReceiveChannelClose, ReceiveEnd, ReceiveFails, EnqueueControl,
       ReserveEvent, budgetVars
  <2>3. QED
    BY <2>1, <2>2, Zenon DEF QueuesGrow
<1>9. QED
  BY <1>1, <1>3, <1>4, <1>5, <1>6, <1>7, <1>8, Zenon DEF Next

\* Who is not part of shutdown touches its variables only to begin it.
LEMMA LifeMoves ==
  ASSUME Next, ~ShutdownNext
  PROVE  UNCHANGED lifeVars \/ \E err : Begin(err)
<1>1. CASE WriterNext
  BY <1>1, Zenon DEF WriterNext, WriterPoll, WriterTakeControl, WriterTakeOutbound,
     WriterSend, WriterFail, WriterStop
<1>2. CASE CallNext
  BY <1>2, Zenon DEF CallNext, GlobalCall, ChannelCall, CallQueue, CallRefused,
     CallWithdraw, CallGiveUp
<1>3. CASE ChannelNext
  BY <1>3, Zenon DEF ChannelNext, Recv, RecvEnd, ChannelClose, CloseQueue, CloseTimeout
<1>4. CASE DispatchNext
  BY <1>4, Zenon DEF DispatchNext, DispatchTake, DispatchNoReply, DispatchReply,
     DispatchRefused, DispatchWithdraw, DispatchStop, DispatchFail
<1>5. CASE WorkerNext
  BY <1>5, Zenon DEF WorkerNext, WorkerStart, WorkerTake, WorkerStop, WorkerHandled,
     WorkerClose, WorkerReply, WorkerRefused, WorkerWithdraw, WorkerFail
<1>6. CASE PeerNext
  BY <1>6, Zenon DEF PeerNext, PeerSend, PeerAnswer, Break
<1>7. CASE ReceiverNext
  BY <1>7, Zenon DEF ReceiverNext, ReceiveGlobalRequest, ReceiveGlobalResult,
     ReceiveChannelResult, ReceiveChannelRequest, ReceiveData, ReceiveChannelEOF,
     ReceiveCloseAnswer, ReceiveChannelClose, ReceiveEnd, ReceiveFails, RouteDone,
     RouteFails
<1>8. QED
  BY <1>1, <1>2, <1>3, <1>4, <1>5, <1>6, <1>7, Zenon DEF Next

\* The cause is recorded once, and only finalize closes the connection.
LEMMA CauseStays ==
  ASSUME Types, Next
  PROVE  /\ down # "no" => cause' = cause
         /\ ~FinalizeClose /\ ~DisconnectTimeout =>
               (down' \in {"connClosed", "done"} => down \in {"connClosed", "done"})
<1>1. ASSUME NEW err, Begin(err)
      PROVE  /\ down # "no" => UNCHANGED <<down, cause>>
             /\ down' \in {"connClosed", "done"} => down \in {"connClosed", "done"}
  BY <1>1 DEF Begin, lifeVars
<1>2. CASE ShutdownNext
  <2>1. CASE ShutdownCancel \/ ShutdownFinish \/ FinalizeClose \/ DisconnectTimeout
             \/ FinalizeDone \/ ParentCancel
    BY <2>1 DEF ShutdownCancel, ShutdownFinish, FinalizeClose, DisconnectTimeout,
       FinalizeDone, ParentCancel
  <2>2. CASE SessionClose \/ ParentShutdown
    BY <1>1, <2>2, Zenon DEF SessionClose, ParentShutdown
  <2>3. QED
    BY <1>2, <2>1, <2>2, Zenon DEF ShutdownNext
<1>3. CASE ~ShutdownNext
  <2>1. UNCHANGED lifeVars \/ \E err : Begin(err)
    BY <1>3, LifeMoves, Zenon
  <2>2. QED
    BY <1>1, <2>1, Zenon DEF lifeVars
<1>4. QED
  BY <1>2, <1>3

\* Who writes the history.
LEMMA HistMoves ==
  ASSUME Types, Next
  PROVE  \/ UNCHANGED hist \/ ShutdownCancel \/ DisconnectTimeout \/ WriterSend
         \/ (\E c \in Callers : CallWithdraw(c) \/ CallGiveUp(c))
         \/ RecvEnd \/ ChannelClose \/ WorkerClose \/ Break
         \/ PeerNext /\ \E k : Overtakes(k)
<1>1. CASE ShutdownNext
  BY <1>1, Zenon DEF ShutdownNext, ShutdownFinish, FinalizeClose, FinalizeDone,
     SessionClose, ParentCancel, ParentShutdown
<1>2. CASE WriterNext
  BY <1>2, Zenon DEF WriterNext, WriterPoll, WriterTakeControl, WriterTakeOutbound,
     WriterFail, WriterStop
<1>3. CASE CallNext
  BY <1>3, Zenon DEF CallNext, GlobalCall, ChannelCall, CallQueue, CallRefused
<1>4. CASE ChannelNext
  BY <1>4, Zenon DEF ChannelNext, Recv, CloseQueue, CloseTimeout
<1>5. CASE DispatchNext
  BY <1>5, Zenon DEF DispatchNext, DispatchTake, DispatchNoReply, DispatchReply,
     DispatchRefused, DispatchWithdraw, DispatchStop
<1>6. CASE WorkerNext
  BY <1>6, Zenon DEF WorkerNext, WorkerStart, WorkerTake, WorkerStop, WorkerHandled,
     WorkerReply, WorkerRefused, WorkerWithdraw
<1>7. CASE PeerNext
  BY <1>7, PeerSends, PeerAnswers, Zenon DEF PeerNext, Types
<1>8. CASE ReceiverNext
  BY <1>8, WireReceiver, Zenon DEF Types
<1>9. QED
  BY <1>1, <1>2, <1>3, <1>4, <1>5, <1>6, <1>7, <1>8, Zenon DEF Next

LEMMA HistStays ==
  ASSUME Types, Next
  PROVE  /\ ~ShutdownCancel /\ ~WriterSend => hist'.disconnect = hist.disconnect
         /\ hist.broke => hist'.broke
         /\ hist.timedOut => hist'.timedOut
         /\ ~ChannelClose => hist'.closedHere = hist.closedHere
         /\ ~WorkerClose => hist'.onClose = hist.onClose
         /\ ~RecvEnd => hist'.recvEnded = hist.recvEnded
         /\ hist.gaveUp \subseteq hist'.gaveUp
         /\ hist.overtaken => hist'.overtaken
         /\ ~PeerNext => hist'.overtaken = hist.overtaken
<1>0. hist \in HistType /\ ch \in ChannelType
  BY Zenon DEF Types, PeerType
<1>1. \/ UNCHANGED hist \/ ShutdownCancel \/ DisconnectTimeout \/ WriterSend
      \/ (\E c \in Callers : CallWithdraw(c) \/ CallGiveUp(c))
      \/ RecvEnd \/ ChannelClose \/ WorkerClose \/ Break
      \/ PeerNext /\ \E k : Overtakes(k)
  BY HistMoves, Zenon
<1>2. CASE UNCHANGED hist
  BY <1>2
<1>3. CASE ShutdownCancel
  BY <1>0, <1>3, HistCancel, Zenon DEF HistIs, IsHist
<1>4. CASE DisconnectTimeout
  BY <1>0, <1>4, HistTimeout, Zenon DEF HistIs, IsHist
<1>5. CASE WriterSend
  BY <1>0, <1>5, HistSend, Zenon DEF HistIs, IsHist
<1>6. CASE \E c \in Callers : CallWithdraw(c) \/ CallGiveUp(c)
  BY <1>0, <1>6, HistCall, Zenon DEF HistIs, IsHist
<1>10. CASE PeerNext /\ \E k : Overtakes(k)
  BY <1>0, <1>10, HistPeer, Zenon DEF HistIs, IsHist
<1>7. CASE RecvEnd \/ ChannelClose \/ WorkerClose
  BY <1>0, <1>7, HistChannel, Zenon DEF HistIs, IsHist
<1>8. CASE Break
  BY <1>0, <1>8, HistPeer, Zenon DEF HistIs, IsHist, PeerNext
<1>9. QED
  BY <1>1, <1>2, <1>3, <1>4, <1>5, <1>6, <1>7, <1>8, <1>10, Zenon

LEMMA DisconnectWriter ==
  ASSUME Types, DisconnectInv, WriterNext
  PROVE  DisconnectInv'
<1>0. /\ writer \in WriterType /\ QueueType /\ LifeInv /\ hist \in HistType
  BY Zenon DEF Types, LoopType, PeerType
<1>1. CASE WriterPoll
  <2>1. /\ writer.at = "idle" /\ writer' = [writer EXCEPT !.at = "waiting"] /\ control = <<>>
        /\ UNCHANGED <<down, cause, conn, hist, control, outbound, queuesClosed>>
    BY <1>1, Zenon DEF WriterPoll, budgetVars, lifeVars
  <2>2. writer'.at = "waiting"
    BY <1>0, <2>1 DEF WriterType
  <2>3. InControl' <=> InControl
    BY <2>1, Zenon DEF InControl
  <2>4. QED
    BY <2>1, <2>2, <2>3 DEF DisconnectInv
<1>2. ASSUME NEW w \in ControlWrites \cup OutWrites, Claim(w)
      PROVE  /\ writer'.at \in {"idle", "sending"}
             /\ ~w.canceled => writer'.at = "sending" /\ writer'.msg = w
  <2>1. writer' = IF w.canceled THEN [at |-> "idle", msg |-> NoWrite]
                                ELSE [at |-> "sending", msg |-> w]
    BY <1>2, Zenon DEF Claim
  <2>2. QED
    BY <2>1
<1>3. CASE WriterTakeControl
  <2>1. /\ writer.at \in {"idle", "waiting"} /\ control # <<>> /\ control' = Tail(control)
        /\ UNCHANGED <<down, cause, conn, hist, outbound, queuesClosed>>
        /\ Claim(Head(control)) /\ Head(control) \in ControlWrites
    BY <1>0, <1>3, QueueHeads, Zenon DEF WriterTakeControl, lifeVars
  <2>2. ~Head(control).canceled
    BY <2>1 DEF ControlWrites
  <2>3. writer'.at = "sending" /\ writer'.msg = Head(control)
    BY <1>2, <2>1, <2>2, Zenon
  <2>4. InControl => InControl' \/ Head(control).kind = "disconnect"
    <3>1. control \in Seq(ControlWrites)
      BY <1>0 DEF QueueType
    <3>2. \A i \in DOMAIN control : i = 1 \/ (i - 1 \in DOMAIN Tail(control)
                                             /\ Tail(control)[i - 1] = control[i])
      BY <2>1, <3>1
    <3>3. Head(control) = control[1]
      BY <2>1, <3>1
    <3>4. QED
      BY <2>1, <3>2, <3>3, Zenon DEF InControl
  <2>5. QED
    BY <2>1, <2>3, <2>4 DEF DisconnectInv
<1>4. CASE WriterTakeOutbound
  <2>1. /\ writer.at = "waiting" /\ control' = control
        /\ UNCHANGED <<down, cause, conn, hist, queuesClosed>>
        /\ Claim(Head(outbound)) /\ Head(outbound) \in OutWrites
    BY <1>0, <1>4, QueueHeads, Zenon DEF WriterTakeOutbound, lifeVars
  <2>2. writer'.at \in {"idle", "sending"}
    BY <1>2, <2>1, Zenon
  <2>3. InControl' <=> InControl
    BY <2>1, Zenon DEF InControl
  <2>4. QED
    BY <2>1, <2>2, <2>3 DEF DisconnectInv
<1>5. CASE WriterSend
  <2>1. /\ writer.at = "sending" /\ writer' = [at |-> "idle", msg |-> NoWrite]
        /\ UNCHANGED <<down, cause, conn, control, outbound, queuesClosed>> /\ conn = "open"
    BY <1>5, Zenon DEF WriterSend, budgetVars, lifeVars
  <2>2. writer'.at = "idle"
    BY <2>1
  <2>3. /\ hist'.disconnect = IF writer.msg.kind = "disconnect" THEN "written"
                                                                ELSE hist.disconnect
        /\ hist'.broke = hist.broke /\ hist'.timedOut = hist.timedOut
    BY <1>0, <1>5, HistSend, Zenon DEF HistIs, IsHist
  <2>4. InControl' <=> InControl
    BY <2>1, Zenon DEF InControl
  <2>5. down \notin {"connClosed", "done"}
    BY <1>0, <2>1 DEF LifeInv
  <2>6. QED
    BY <2>1, <2>2, <2>3, <2>4, <2>5 DEF DisconnectInv
<1>6. CASE WriterFail
  <2>1. /\ writer.at = "sending" /\ writer' = [at |-> "stopped", msg |-> NoWrite]
        /\ UNCHANGED <<conn, control, outbound, queuesClosed, hist>> /\ conn # "open"
        /\ (down = "no" /\ Begin("write")) \/ (down # "no" /\ UNCHANGED lifeVars)
    BY <1>6, Zenon DEF WriterFail, budgetVars
  <2>2. writer'.at = "stopped"
    BY <2>1
  <2>3. InControl' <=> InControl
    BY <2>1, Zenon DEF InControl
  <2>4. down # "no" => UNCHANGED <<down, cause>>
    BY <2>1, Zenon DEF lifeVars
  <2>5. hist.broke \/ hist.timedOut \/ (conn = "closed" /\ cause # "protocol")
    BY <1>0, <2>1 DEF LifeInv, DisconnectInv
  <2>6. conn = "closed" => down # "no"
    BY <1>0 DEF LifeInv
  <2>7. hist.disconnect = "queued" => down # "no"
    BY <1>0 DEF LifeInv, DisconnectInv, None
  <2>8. QED
    BY <2>1, <2>2, <2>3, <2>4, <2>5, <2>6, <2>7 DEF DisconnectInv
<1>7. CASE WriterStop
  <2>1. /\ writer.at \in {"idle", "waiting"} /\ writer' = [at |-> "stopped", msg |-> NoWrite]
        /\ queuesClosed /\ control = <<>> /\ outbound = <<>>
        /\ UNCHANGED <<down, cause, conn, hist, control, outbound, queuesClosed>>
    BY <1>7, Zenon DEF WriterStop, budgetVars, lifeVars
  <2>2. writer'.at = "stopped"
    BY <2>1
  <2>3. ~InControl
    BY <2>1 DEF InControl
  <2>4. QED
    BY <2>1, <2>2, <2>3 DEF DisconnectInv
<1>8. QED
  BY <1>1, <1>3, <1>4, <1>5, <1>6, <1>7, Zenon DEF WriterNext

LEMMA DisconnectStep ==
  ASSUME Types, LifeInv', DisconnectInv, Next
  PROVE  DisconnectInv'
<1>0. LifeInv /\ QueueType /\ hist \in HistType
  BY Zenon DEF Types, PeerType
<1>1. CASE ShutdownCancel
  <2>1. /\ down = "detached" /\ down' = "canceled"
        /\ UNCHANGED <<cause, writer, conn>>
    BY <1>1, Zenon DEF ShutdownCancel, loopVars
  <2>2. /\ hist'.broke = hist.broke /\ hist'.timedOut = hist.timedOut
        /\ hist'.disconnect = "queued" => cause = "protocol" /\ Refusal("disconnect") = None
    BY <1>0, <1>1, HistCancel DEF HistIs, IsHist, None
  <2>3. UNCHANGED <<outbound, queuesClosed>>
    BY <1>1, Zenon DEF ShutdownCancel, EnqueueControl, budgetVars
  <2>4. ~queuesClosed /\ conn # "closed"
    BY <1>0, <2>1 DEF LifeInv
  <2>5. hist'.disconnect = "queued" => InControl'
    <3>1. SUFFICES ASSUME hist'.disconnect = "queued"
                   PROVE  InControl'
      OBVIOUS
    <3>2. control' = Append(control, NoWrite)
      BY <1>1, <2>2, <3>1, Zenon DEF ShutdownCancel, EnqueueControl
    <3>3. control \in Seq(ControlWrites)
      BY <1>0 DEF QueueType
    <3>4. Len(control) + 1 \in DOMAIN control' /\ control'[Len(control) + 1] = NoWrite
      BY <3>2, <3>3
    <3>5. QED
      BY <3>4, NoWriteType, Zenon DEF InControl
  <2>6. QED
    BY <2>1, <2>2, <2>3, <2>4, <2>5 DEF DisconnectInv
<1>2. CASE Break
  <2>1. /\ conn = "open" /\ conn' = "broken" /\ hist'.broke
        /\ hist'.disconnect = hist.disconnect /\ hist'.timedOut = hist.timedOut
        /\ UNCHANGED <<down, cause, writer, control, outbound, queuesClosed>>
    BY <1>0, <1>2, HistPeer, Zenon DEF Break, HistIs, IsHist, lifeVars, loopVars, budgetVars
  <2>2. InControl' <=> InControl
    BY <2>1, Zenon DEF InControl
  <2>3. QED
    BY <2>1, <2>2 DEF DisconnectInv
<1>3. CASE ~ShutdownCancel /\ ~Break /\ ~WriterNext
  <2>1. QueuesGrow
    BY <1>3, OthersGrow
  <2>2. /\ hist'.disconnect = hist.disconnect
        /\ hist.broke => hist'.broke
        /\ hist.timedOut => hist'.timedOut
    BY <1>3, HistStays, Zenon DEF WriterNext
  <2>3. UNCHANGED writer
    <3>1. \A k : Receives(k) => UNCHANGED writer
      BY Zenon DEF Receives
    <3>2. CASE ReceiverNext
      BY <3>1, <3>2, Zenon DEF ReceiverNext, ReceiveGlobalRequest, ReceiveGlobalResult,
         ReceiveChannelResult, ReceiveChannelRequest, ReceiveData, ReceiveChannelEOF,
         ReceiveCloseAnswer, ReceiveChannelClose, ReceiveEnd, ReceiveFails
    <3>3. CASE ShutdownNext \/ PeerNext
      BY <3>3, Zenon DEF ShutdownNext, ShutdownCancel, ShutdownFinish, FinalizeClose,
         DisconnectTimeout, FinalizeDone, SessionClose, ParentCancel, ParentShutdown,
         PeerNext, PeerSend, PeerAnswer, Break, loopVars
    <3>4. CASE CallNext \/ ChannelNext
      BY <3>4, Zenon DEF CallNext, GlobalCall, ChannelCall, CallQueue, CallRefused,
         CallWithdraw, CallGiveUp, ChannelNext, Recv, RecvEnd, ChannelClose, CloseQueue,
         CloseTimeout, loopVars
    <3>5. CASE DispatchNext
      BY <3>5, Zenon DEF DispatchNext, DispatchTake, DispatchNoReply, DispatchReply,
         DispatchRefused, DispatchWithdraw, DispatchStop
    <3>6. CASE WorkerNext
      BY <3>6, Zenon DEF WorkerNext, WorkerStart, WorkerTake, WorkerStop, WorkerHandled,
         WorkerClose, WorkerReply, WorkerRefused, WorkerWithdraw
    <3>7. QED
      BY <1>3, <3>2, <3>3, <3>4, <3>5, <3>6, Zenon DEF Next
  <2>4. conn' = conn \/ conn' = "closed"
    <3>1. \A k : Receives(k) => UNCHANGED conn
      BY Zenon DEF Receives
    <3>2. CASE ReceiverNext
      BY <3>1, <3>2, Zenon DEF ReceiverNext, ReceiveGlobalRequest, ReceiveGlobalResult,
         ReceiveChannelResult, ReceiveChannelRequest, ReceiveData, ReceiveChannelEOF,
         ReceiveCloseAnswer, ReceiveChannelClose, ReceiveEnd, ReceiveFails
    <3>3. CASE ShutdownNext \/ PeerNext
      BY <1>3, <3>3, Zenon DEF ShutdownNext, ShutdownCancel, ShutdownFinish, FinalizeClose,
         DisconnectTimeout, FinalizeDone, SessionClose, ParentCancel, ParentShutdown,
         PeerNext, PeerSend, PeerAnswer
    <3>4. CASE CallNext \/ ChannelNext
      BY <3>4, Zenon DEF CallNext, GlobalCall, ChannelCall, CallQueue, CallRefused,
         CallWithdraw, CallGiveUp, ChannelNext, Recv, RecvEnd, ChannelClose, CloseQueue,
         CloseTimeout
    <3>5. CASE DispatchNext
      BY <3>5, Zenon DEF DispatchNext, DispatchTake, DispatchNoReply, DispatchReply,
         DispatchRefused, DispatchWithdraw, DispatchStop
    <3>6. CASE WorkerNext
      BY <3>6, Zenon DEF WorkerNext, WorkerStart, WorkerTake, WorkerStop, WorkerHandled,
         WorkerClose, WorkerReply, WorkerRefused, WorkerWithdraw
    <3>7. QED
      BY <1>3, <3>2, <3>3, <3>4, <3>5, <3>6, Zenon DEF Next
  <2>5. down # "no" => cause' = cause
    BY CauseStays
  <2>6. down' \in {"connClosed", "done"} /\ cause' = "protocol" =>
            hist'.timedOut \/ writer.at = "stopped"
    <3>1. CASE FinalizeClose
      <4>1. cause' = "protocol" => writer.at = "stopped"
        BY <3>1, Zenon DEF FinalizeClose
      <4>2. QED
        BY <4>1
    <3>2. CASE DisconnectTimeout
      BY <1>0, <3>2, HistTimeout, Zenon DEF HistIs, IsHist
    <3>3. CASE ~FinalizeClose /\ ~DisconnectTimeout
      <4>1. down' \in {"connClosed", "done"} => down \in {"connClosed", "done"}
        BY <3>3, CauseStays, Zenon
      <4>2. down \in {"connClosed", "done"} => down # "no"
        OBVIOUS
      <4>3. QED
        BY <2>2, <2>5, <4>1, <4>2, Zenon DEF DisconnectInv
    <3>4. QED
      BY <3>1, <3>2, <3>3
  <2>7. queuesClosed => queuesClosed'
    <3>1. CASE ShutdownFinish
      BY <3>1, Zenon DEF ShutdownFinish
    <3>2. CASE ~ShutdownFinish
      <4>1. CASE ReceiverNext
        BY <4>1, Zenon DEF ReceiverNext, ReceiveGlobalRequest, ReceiveGlobalResult,
           ReceiveChannelResult, ReceiveChannelRequest, ReceiveData, ReceiveChannelEOF,
           ReceiveCloseAnswer, ReceiveChannelClose, ReceiveEnd, ReceiveFails, EnqueueControl,
           ReserveEvent, budgetVars
      <4>2. CASE ShutdownNext \/ PeerNext
        BY <1>3, <3>2, <4>2, Zenon DEF ShutdownNext, ShutdownFinish, FinalizeClose,
           DisconnectTimeout, FinalizeDone, SessionClose, ParentCancel, ParentShutdown,
           PeerNext, PeerSend, PeerAnswer, budgetVars
      <4>3. CASE CallNext \/ ChannelNext
        BY <4>3, Zenon DEF CallNext, GlobalCall, ChannelCall, CallQueue, CallRefused,
           CallWithdraw, CallGiveUp, ChannelNext, Recv, RecvEnd, ChannelClose, CloseQueue,
           CloseTimeout, EnqueueControl, EnqueueOutbound, budgetVars
      <4>4. CASE DispatchNext
        BY <4>4, Zenon DEF DispatchNext, DispatchTake, DispatchNoReply, DispatchReply,
           DispatchRefused, DispatchWithdraw, DispatchStop, EnqueueOutbound, budgetVars
      <4>5. CASE WorkerNext
        BY <4>5, Zenon DEF WorkerNext, WorkerStart, WorkerTake, WorkerStop, WorkerHandled,
           WorkerClose, WorkerReply, WorkerRefused, WorkerWithdraw, EnqueueOutbound, budgetVars
      <4>6. QED
        BY <1>3, <4>1, <4>2, <4>3, <4>4, <4>5, Zenon DEF Next
    <3>3. QED
      BY <3>1, <3>2
  <2>8. QED
    BY <2>1, <2>2, <2>3, <2>4, <2>5, <2>6, <2>7, DisconnectQuiet
<1>4. QED
  BY <1>1, <1>2, <1>3, DisconnectWriter

(***************************************************************************)
(* After a protocol error, when finalize has closed the connection and the *)
(* writer was neither too slow nor cut off, the disconnect that shutdown   *)
(* queued has been written: shutdown closes the queues only after it, and  *)
(* finalize waits for a writer that drains them.                           *)
(***************************************************************************)
THEOREM DisconnectReachesPeer == Spec => []DisconnectDelivered
<1>1. Init => DisconnectInv
  <2> SUFFICES ASSUME Init
               PROVE  DisconnectInv
    OBVIOUS
  <2>1. down = "no" /\ conn = "open" /\ writer.at = "idle" /\ hist.disconnect = None
    BY DEF Init
  <2>2. QED
    BY <2>1 DEF DisconnectInv, None
<1>2. TypedBudget /\ TypedBudget' /\ DisconnectInv /\ [Next]_vars => DisconnectInv'
  <2> SUFFICES ASSUME TypedBudget, TypedBudget', DisconnectInv, [Next]_vars
               PROVE  DisconnectInv'
    OBVIOUS
  <2>1. CASE UNCHANGED vars
    <3>1. UNCHANGED <<down, cause, conn, hist, writer, control, outbound, queuesClosed>>
      BY <2>1, Zenon DEF vars, lifeVars, budgetVars, loopVars
    <3>2. QED
      BY <3>1, Zenon DEF DisconnectInv, InControl
  <2>2. CASE Next
    BY <2>2, DisconnectStep, Zenon DEF TypedBudget, Types
  <2>3. QED
    BY <2>1, <2>2
<1>3. TypedBudget /\ DisconnectInv => DisconnectDelivered
  <2> SUFFICES ASSUME TypedBudget, DisconnectInv, cause = "protocol", ~hist.timedOut,
                      writer.at = "stopped", hist.disconnect # None
               PROVE  hist.disconnect = "written" \/ hist.broke
    BY Zenon DEF DisconnectDelivered
  <2>1. hist.disconnect \in {"queued", "written"}
    BY DEF TypedBudget, Types, PeerType, HistType
  <2>2. InControl => control # <<>>
    BY DEF InControl
  <2>3. QED
    BY <2>1, <2>2 DEF DisconnectInv
<1>4. QED
  BY <1>1, <1>2, <1>3, Typed, PTL DEF Spec

-----------------------------------------------------------------------------
(* The end of the channel.                                                 *)

\* The channel's place, state, queues and budget are as they were.
Stands(r, n) ==
    /\ n.state = r.state /\ n.inTable = r.inTable /\ n.canceled = r.canceled
    /\ n.frames = r.frames /\ n.events = r.events /\ n.queued = r.queued

LEMMA IsStands ==
  ASSUME NEW r, NEW n, NEW p, NEW i,
         IsChannel(n, r.state, r.inTable, r.canceled, r.frames, r.events, r.queued, p, i)
  PROVE  n \in ChannelType /\ Stands(r, n)
BY Zenon DEF IsChannel, Stands

\* A session that is alive after a step was alive before it.
LEMMA AliveBefore ==
  ASSUME Types, Next
  PROVE  /\ down' = "no" => down = "no" /\ cause' = cause
         /\ parentDone => parentDone'
<1>1. ASSUME NEW err, Begin(err)
      PROVE  (down' = "no" => down = "no" /\ cause' = cause) /\ (parentDone => parentDone')
  BY <1>1 DEF Begin, lifeVars
<1>2. CASE ShutdownNext
  <2>1. CASE ShutdownCancel \/ ShutdownFinish \/ FinalizeClose \/ DisconnectTimeout
             \/ FinalizeDone \/ ParentCancel
    BY <2>1 DEF ShutdownCancel, ShutdownFinish, FinalizeClose, DisconnectTimeout,
       FinalizeDone, ParentCancel
  <2>2. CASE SessionClose \/ ParentShutdown
    BY <1>1, <2>2, Zenon DEF SessionClose, ParentShutdown
  <2>3. QED
    BY <1>2, <2>1, <2>2, Zenon DEF ShutdownNext
<1>3. CASE ~ShutdownNext
  <2>1. UNCHANGED lifeVars \/ \E err : Begin(err)
    BY <1>3, LifeMoves, Zenon
  <2>2. UNCHANGED lifeVars => UNCHANGED <<down, cause, parentDone>>
    BY Zenon DEF lifeVars
  <2>3. QED
    BY <1>1, <2>1, <2>2
<1>4. QED
  BY <1>2, <1>3

\* A step that leaves the channel as it is, but may move its worker.
LEMMA EndKeeps ==
  ASSUME Types, Next, EndInv, Stands(ch, ch'),
         hist'.closedHere = hist.closedHere, hist'.onClose = hist.onClose,
         hist'.recvEnded = hist.recvEnded,
         closer' # "idle" => closer # "idle",
         worker'.at = "handling" => worker' = worker,
         hist.onClose => worker'.at \in {"idle", "stopped"},
         down' = "no" /\ worker'.at = "stopped" =>
            worker.at = "stopped" \/ parentDone \/ ch.canceled
  PROVE  EndInv'
<1>2. (down' = "no" => down = "no") /\ (parentDone => parentDone')
  BY AliveBefore, Zenon
<1>3. /\ ch'.state = ch.state /\ ch'.canceled = ch.canceled
      /\ ch'.frames = ch.frames /\ ch'.events = ch.events /\ ch'.queued = ch.queued
  BY Zenon DEF Stands
<1>4. Holds(ch) => Holds(ch')
  BY <1>3, Zenon DEF Holds
<1>5. EndShape'
  BY <1>3 DEF EndInv, EndShape
<1>6. EndLive'
  BY <1>2, <1>3, <1>4, Zenon DEF EndInv, EndLive
<1>7. QED
  BY <1>5, <1>6, Zenon DEF EndInv

\* The steps that touch the channel or its worker.
TouchesChannel ==
    \/ WorkerNext \/ ChannelNext \/ ShutdownFinish \/ WriterSend \/ WriterFail
    \/ ReceiveChannelRequest \/ ReceiveData \/ ReceiveChannelEOF \/ ReceiveCloseAnswer
    \/ ReceiveChannelClose

LEMMA OthersStand ==
  ASSUME Types, Next, ~TouchesChannel
  PROVE  Stands(ch, ch') /\ UNCHANGED <<worker, closer>>
<1>0. ch \in ChannelType
  BY DEF Types
<1>1. ch' = ch => Stands(ch, ch')
  BY Zenon DEF Stands
<1>2. CASE ShutdownNext
  <2>1. ch' = ch /\ UNCHANGED <<worker, closer>>
    BY <1>2, Zenon DEF TouchesChannel, ShutdownNext, ShutdownCancel, FinalizeClose,
       DisconnectTimeout, FinalizeDone, SessionClose, ParentCancel, ParentShutdown, loopVars
  <2>2. QED
    BY <1>1, <2>1, Zenon
<1>3. CASE WriterNext
  <2>1. ch' = ch /\ UNCHANGED <<worker, closer>>
    BY <1>3, Zenon DEF TouchesChannel, WriterNext, WriterPoll, WriterTakeControl,
       WriterTakeOutbound, WriterStop
  <2>2. QED
    BY <1>1, <2>1, Zenon
<1>4. CASE CallNext
  <2>1. UNCHANGED <<worker, closer>>
    BY <1>4, Zenon DEF CallNext, GlobalCall, ChannelCall, CallQueue, CallRefused,
       CallWithdraw, CallGiveUp, loopVars
  <2>2. \/ ch' = ch
        \/ \E c \in ChannelCallers, reply \in BOOLEAN : ChannelCall(c, reply)
        \/ \E c \in Callers : Leave(c)
    BY <1>4, Zenon DEF CallNext, GlobalCall, CallQueue, CallRefused, CallWithdraw, CallGiveUp
  <2>3. Stands(ch, ch')
    BY <1>0, <1>1, <2>2, ChannelCallChannel, LeaveChannel, IsStands, Zenon
  <2>4. QED
    BY <2>1, <2>3
<1>5. CASE DispatchNext \/ PeerNext
  <2>1. ch' = ch /\ UNCHANGED <<worker, closer>>
    BY <1>5, Zenon DEF DispatchNext, DispatchTake, DispatchNoReply, DispatchReply,
       DispatchRefused, DispatchWithdraw, DispatchStop, PeerNext, PeerSend, PeerAnswer, Break,
       loopVars
  <2>2. QED
    BY <1>1, <2>1, Zenon
<1>6. CASE ReceiverNext
  <2>1. CASE ReceiveChannelResult
    <3>1. UNCHANGED <<worker, closer>>
      BY <2>1, Zenon DEF ReceiveChannelResult, Receives
    <3>2. QED
      BY <1>0, <2>1, <3>1, ReceiveChannelResultChannel, IsStands, Zenon
  <2>2. CASE ReceiveGlobalRequest \/ ReceiveGlobalResult \/ ReceiveEnd \/ ReceiveFails
    <3>1. ch' = ch
      BY <2>2, Zenon DEF ReceiveGlobalRequest, ReceiveGlobalResult, ReceiveEnd, ReceiveFails
    <3>2. UNCHANGED <<worker, closer>>
      BY <2>2, Zenon DEF ReceiveGlobalRequest, ReceiveGlobalResult, ReceiveEnd, ReceiveFails,
         Receives
    <3>3. QED
      BY <1>1, <3>1, <3>2, Zenon
  <2>3. QED
    BY <1>6, <2>1, <2>2, Zenon DEF ReceiverNext, TouchesChannel
<1>7. QED
  BY <1>2, <1>3, <1>4, <1>5, <1>6, Zenon DEF Next, TouchesChannel

LEMMA CloseLastTail ==
  ASSUME NEW q \in Seq(Events), q # <<>>, NEW s, CloseLast(q, s)
  PROVE  /\ CloseLast(Tail(q), s)
         /\ Head(q).kind = "close" => Tail(q) = <<>> /\ s \notin allowsRequests
<1>1. /\ Len(q) \in Nat /\ Len(q) > 0 /\ Len(Tail(q)) = Len(q) - 1
      /\ DOMAIN q = 1..Len(q) /\ DOMAIN Tail(q) = 1..Len(Tail(q)) /\ Head(q) = q[1]
  OBVIOUS
<1>2. \A i \in DOMAIN Tail(q) : i + 1 \in DOMAIN q /\ Tail(q)[i] = q[i + 1]
  BY <1>1
<1>3. CloseLast(Tail(q), s)
  BY <1>1, <1>2 DEF CloseLast
<1>4. Head(q).kind = "close" => Len(q) = 1 /\ s \notin allowsRequests
  BY <1>1 DEF CloseLast
<1>5. Len(q) = 1 => Tail(q) = <<>>
  <2>1. Tail(q) \in Seq(Events) /\ (Len(q) = 1 => Len(Tail(q)) = 0)
    BY <1>1
  <2>2. \A t \in Seq(Events) : Len(t) = 0 => t = <<>>
    OBVIOUS
  <2>3. QED
    BY <2>1, <2>2, Zenon
<1>6. QED
  BY <1>3, <1>4, <1>5

LEMMA CloseLastAppend ==
  ASSUME NEW q \in Seq(Events), NEW e \in Events, NEW s, NEW t, CloseLast(q, s),
         s \in allowsRequests, e.kind = "close" => t \notin allowsRequests
  PROVE  CloseLast(Append(q, e), t)
<1>1. \A i \in DOMAIN q : q[i].kind # "close"
  BY Zenon DEF CloseLast
<1>2. /\ DOMAIN Append(q, e) = DOMAIN q \cup {Len(q) + 1} /\ Len(Append(q, e)) = Len(q) + 1
      /\ \A i \in DOMAIN q : Append(q, e)[i] = q[i]
      /\ Append(q, e)[Len(q) + 1] = e
  <2>1. Append(q, e) \in Seq(Events) /\ Len(q) \in Nat /\ DOMAIN q = 1..Len(q)
    OBVIOUS
  <2>2. QED
    BY <2>1
<1>3. QED
  BY <1>1, <1>2, Zenon DEF CloseLast

\* What is left of a release still matches the queues.
LEMMA ReleaseHeld ==
  ASSUME NEW r \in ChannelType, NEW c \in ChannelType, NEW n \in Nat,
         c.queued = Minus(r.queued, 1, n), Holds(r),
         1 <= r.queued.frames, n <= r.queued.bytes,
         Len(c.frames) + Len(c.events) = r.queued.frames - 1,
         Total(c.frames) + BytesOf(c.events) = r.queued.bytes - n
  PROVE  Holds(c)
<1>1. r.queued \in Budgets /\ r.queued.frames \in Nat /\ r.queued.bytes \in Nat /\ 1 \in Nat
  BY ChannelFields
<1> DEFINE v == Minus(r.queued, 1, n)
<1>2. /\ v.frames = IF 1 > r.queued.frames THEN 0 ELSE r.queued.frames - 1
      /\ v.bytes = IF n > r.queued.bytes THEN 0 ELSE r.queued.bytes - n
  BY <1>1, MinusType, Zenon
<1>3. c.queued = v
  OBVIOUS
<1> HIDE DEF v
<1>4. c.queued.frames = r.queued.frames - 1 /\ c.queued.bytes = r.queued.bytes - n
  BY <1>1, <1>2, <1>3
<1>5. QED
  BY <1>4, Zenon DEF Holds, BudgetIs

\* A channel that holds nothing releases nothing.
LEMMA NothingLeft ==
  ASSUME NEW n \in Nat
  PROVE  Minus(Nothing, 1, n) = Nothing
<1>1. Nothing.frames = 0 /\ Nothing.bytes = 0
  BY DEF Nothing
<1>2. QED
  BY <1>1 DEF Minus, Nothing

LEMMA EndWorkerTake ==
  ASSUME Types, Next, EndInv, WorkerTake
  PROVE  EndInv'
<1>0. /\ ch \in ChannelType /\ worker.at = "idle" /\ ch.events # <<>>
      /\ worker' = [at |-> "handling", ev |-> Head(ch.events)] /\ UNCHANGED <<closer, hist>>
      /\ down' = down
  BY Zenon DEF Types, WorkerTake, lifeVars
<1> DEFINE n == Size[Head(ch.events).kind]
<1>1. ch.events \in Seq(Events)
  BY <1>0, ChannelFields, Zenon
<1>2. Head(ch.events) \in Events
  BY <1>0, <1>1
<1>3. n \in Nat
  BY <1>2, KindsOfQueues, SizeType
<1>4. IsChannel(ch', ch.state, ch.inTable, ch.canceled, ch.frames, Tail(ch.events),
                Minus(ch.queued, 1, n), ch.pending, ch.incoming)
  BY <1>0, WorkerTakeChannel, Zenon
<1>5. Holds(ch) => Holds(ch')
  <2>1. SUFFICES ASSUME Holds(ch)
                 PROVE  Holds(ch')
    OBVIOUS
  <2>2. /\ 1 <= ch.queued.frames /\ n <= ch.queued.bytes
        /\ Len(ch.frames) + Len(Tail(ch.events)) = ch.queued.frames - 1
        /\ Total(ch.frames) + BytesOf(Tail(ch.events)) = ch.queued.bytes - n
    BY <1>0, <2>1, EventReleased, Zenon
  <2> HIDE DEF n
  <2>3. /\ ch' \in ChannelType /\ ch'.queued = Minus(ch.queued, 1, n)
        /\ ch'.frames = ch.frames /\ ch'.events = Tail(ch.events)
    BY <1>4, Zenon DEF IsChannel
  <2>4. QED
    BY <1>0, <1>3, <2>1, <2>2, <2>3, ReleaseHeld, Zenon
<1> HIDE DEF n
<1>6. /\ ch'.state = ch.state /\ ch'.canceled = ch.canceled /\ ch'.frames = ch.frames
      /\ ch'.events = Tail(ch.events) /\ ch'.queued = Minus(ch.queued, 1, n)
  BY <1>4, Zenon DEF IsChannel
<1>7. worker'.at = "handling" /\ worker'.ev = Head(ch.events)
  BY <1>0
<1>8. /\ CloseLast(Tail(ch.events), ch.state)
      /\ Head(ch.events).kind = "close" =>
            Tail(ch.events) = <<>> /\ ch.state \notin allowsRequests
  BY <1>0, <1>1, CloseLastTail, Zenon DEF EndInv, EndShape
<1>9. ch.queued = Nothing => ch'.queued = Nothing
  BY <1>3, <1>6, NothingLeft, Zenon
<1>10. ~hist.onClose
  BY <1>0, Zenon DEF EndInv, EndShape
<1>11. EndShape'
  BY <1>0, <1>6, <1>7, <1>8, <1>9, <1>10, Zenon DEF EndInv, EndShape
<1>12. EndLive'
  <2>1. worker'.at # "stopped"
    BY <1>7
  <2>2. QED
    BY <1>0, <1>5, <1>6, <2>1, Zenon DEF EndInv, EndLive
<1>13. QED
  BY <1>11, <1>12, Zenon DEF EndInv

LEMMA EndWorkerClose ==
  ASSUME Types, Next, EndInv, WorkerClose
  PROVE  EndInv'
<1>0. /\ ch \in ChannelType /\ hist \in HistType /\ worker \in WorkerType
      /\ worker.at = "handling" /\ worker.ev.kind = "close" /\ worker' = WorkerAt("idle")
      /\ UNCHANGED <<closer, down>>
  BY Zenon DEF Types, PeerType, LoopType, WorkerClose, lifeVars
<1>1. worker'.at = "idle"
  BY <1>0, WorkerMoves
<1>2. /\ ch'.state = ch.state /\ ch'.frames = ch.frames /\ ch'.events = ch.events
      /\ ch'.queued = ch.queued
  BY <1>0, WorkerCloseChannel, Zenon DEF IsChannel
<1>3. /\ hist'.closedHere = hist.closedHere /\ hist'.onClose
      /\ hist'.recvEnded = hist.recvEnded
  BY <1>0, HistChannel, Zenon DEF HistIs, IsHist
<1>4. Holds(ch) => Holds(ch')
  BY <1>2, Zenon DEF Holds
<1>5. EndShape'
  BY <1>0, <1>1, <1>2, <1>3 DEF EndInv, EndShape
<1>6. EndLive'
  BY <1>0, <1>1, <1>3, <1>4 DEF EndInv, EndLive
<1>7. QED
  BY <1>5, <1>6, Zenon DEF EndInv

\* What the writer tells the worker, and the worker's steps that leave the
\* queue alone.
LEMMA WorkerSteps ==
  ASSUME Types, EndInv,
         \/ WriterSend \/ WriterFail \/ (WorkerNext /\ ~WorkerTake /\ ~WorkerClose)
  PROVE  /\ worker'.at = "handling" => worker' = worker
         /\ hist.onClose => worker'.at \in {"idle", "stopped"}
         /\ down' = "no" /\ worker'.at = "stopped" =>
               worker.at = "stopped" \/ parentDone \/ ch.canceled
<1>0. worker \in WorkerType
  BY Zenon DEF Types, LoopType
<1>1. hist.onClose => worker.at \in {"idle", "stopped"}
  BY Zenon DEF EndInv, EndShape
<1>2. ASSUME NEW err, Begin(err)
      PROVE  down' # "no"
  BY <1>2 DEF Begin, lifeVars
<1>3. \A a \in {"idle", "queued", "stopped"} : WorkerAt(a).at = a
  BY <1>0, WorkerMoves
<1>4. CASE WriterSend
  <2>1. worker' = worker \/ worker' = WorkerAt("idle")
    BY <1>4, Zenon DEF WriterSend, Written, WorkerAt
  <2>2. QED
    BY <1>1, <1>3, <2>1
<1>5. CASE WriterFail
  <2>1. worker' = worker \/ (worker' = WorkerAt("stopped"))
    BY <1>5, Zenon DEF WriterFail, WorkerAt
  <2>2. down' # "no"
    BY <1>2, <1>5, Zenon DEF WriterFail, lifeVars
  <2>3. QED
    BY <1>1, <1>3, <2>1, <2>2
<1>6. CASE WorkerStart \/ WorkerStop
  <2>1. /\ worker.at \in {"starting", "idle"} /\ down' = down
        /\ worker' = WorkerAt("idle") \/ (worker' = WorkerAt("stopped") /\ ChDone)
    BY <1>6, Zenon DEF WorkerStart, WorkerStop, lifeVars
  <2>2. ChDone /\ down = "no" => parentDone \/ ch.canceled
    BY DEF ChDone, CtxDone
  <2>3. QED
    BY <1>1, <1>3, <2>1, <2>2
<1>7. CASE WorkerHandled \/ WorkerReply
  <2>1. worker.at = "handling" /\ (worker' = WorkerAt("idle") \/ worker' = WorkerAt("queued"))
    BY <1>7, Zenon DEF WorkerHandled, WorkerReply
  <2>2. QED
    BY <1>1, <1>3, <2>1
<1>8. CASE WorkerRefused \/ WorkerWithdraw
  <2>1. worker' = WorkerAt("stopped") /\ \E err : Begin(err)
    BY <1>8, Zenon DEF WorkerRefused, WorkerWithdraw, WorkerFail
  <2>2. QED
    BY <1>2, <1>3, <2>1
<1>9. QED
  BY <1>4, <1>5, <1>6, <1>7, <1>8, Zenon DEF WorkerNext

LEMMA EndWorker ==
  ASSUME Types, Next, EndInv, WorkerNext \/ WriterSend \/ WriterFail
  PROVE  EndInv'
<1>0. ch \in ChannelType /\ hist \in HistType
  BY Zenon DEF Types, PeerType
<1>1. CASE WriterSend \/ WriterFail \/ (WorkerNext /\ ~WorkerTake /\ ~WorkerClose)
  <2>1. closer' = closer
    BY <1>1, Zenon DEF WriterSend, WriterFail, WorkerNext, WorkerStart, WorkerStop,
       WorkerHandled, WorkerReply, WorkerRefused, WorkerWithdraw
  <2>2. /\ hist'.closedHere = hist.closedHere /\ hist'.onClose = hist.onClose
        /\ hist'.recvEnded = hist.recvEnded
    <3>1. CASE WriterSend
      BY <1>0, <3>1, HistSend, Zenon DEF HistIs, IsHist
    <3>2. CASE ~WriterSend
      BY <1>1, <3>2, Zenon DEF WriterFail, WorkerNext, WorkerStart, WorkerStop,
         WorkerHandled, WorkerReply, WorkerRefused, WorkerWithdraw
    <3>3. QED
      BY <3>1, <3>2
  <2>3. Stands(ch, ch')
    <3>1. CASE WriterSend
      BY <1>0, <3>1, WriterSendChannel, IsStands, Zenon DEF WriterSend
    <3>2. CASE WriterFail
      BY <1>0, <3>2, WriterFailChannel, IsStands, Zenon
    <3>3. CASE WorkerStart \/ WorkerStop \/ WorkerHandled \/ WorkerReply
      BY <3>3, Zenon DEF WorkerStart, WorkerStop, WorkerHandled, WorkerReply, Stands
    <3>4. CASE WorkerRefused \/ WorkerWithdraw
      <4>1. \E err : WorkerFail(err)
        BY <3>4, Zenon DEF WorkerRefused, WorkerWithdraw
      <4>2. QED
        BY <1>0, <4>1, WorkerFailChannel, IsStands, Zenon
    <3>5. QED
      BY <1>1, <3>1, <3>2, <3>3, <3>4, Zenon DEF WorkerNext
  <2>4. /\ worker'.at = "handling" => worker' = worker
        /\ hist.onClose => worker'.at \in {"idle", "stopped"}
        /\ down' = "no" /\ worker'.at = "stopped" =>
              worker.at = "stopped" \/ parentDone \/ ch.canceled
    BY <1>1, WorkerSteps, Zenon
  <2>5. QED
    BY <2>1, <2>2, <2>3, <2>4, EndKeeps, Zenon
<1>2. QED
  BY <1>1, EndWorkerTake, EndWorkerClose, Zenon

LEMMA EndRecv ==
  ASSUME Types, Next, EndInv, Recv
  PROVE  EndInv'
<1>0. ch \in ChannelType /\ ch.frames # <<>> /\ UNCHANGED <<closer, hist, worker, down, parentDone>>
  BY Zenon DEF Types, Recv, lifeVars, loopVars
<1> DEFINE n == Head(ch.frames)
<1>1. ch.frames \in Seq(Nat)
  BY <1>0, ChannelFields, Zenon
<1>2. n \in Nat
  BY <1>0, <1>1
<1>3. IsChannel(ch', ch.state, ch.inTable, ch.canceled, Tail(ch.frames), ch.events,
                Minus(ch.queued, 1, n), ch.pending, ch.incoming)
  BY <1>0, RecvChannel, Zenon
<1>4. Holds(ch) => Holds(ch')
  <2>1. SUFFICES ASSUME Holds(ch)
                 PROVE  Holds(ch')
    OBVIOUS
  <2>2. /\ 1 <= ch.queued.frames /\ n <= ch.queued.bytes
        /\ Len(Tail(ch.frames)) + Len(ch.events) = ch.queued.frames - 1
        /\ Total(Tail(ch.frames)) + BytesOf(ch.events) = ch.queued.bytes - n
    BY <1>0, <2>1, FrameReleased, Zenon
  <2> HIDE DEF n
  <2>3. /\ ch' \in ChannelType /\ ch'.queued = Minus(ch.queued, 1, n)
        /\ ch'.frames = Tail(ch.frames) /\ ch'.events = ch.events
    BY <1>3, Zenon DEF IsChannel
  <2>4. QED
    BY <1>0, <1>2, <2>1, <2>2, <2>3, ReleaseHeld, Zenon
<1>5. ~hist.closedHere
  BY <1>0, Zenon DEF EndInv, EndShape
<1>6. ch'.state = ch.state /\ ch'.canceled = ch.canceled /\ ch'.events = ch.events
  BY <1>3, Zenon DEF IsChannel
<1>7. EndShape'
  BY <1>0, <1>5, <1>6, Zenon DEF EndInv, EndShape
<1>8. EndLive'
  BY <1>0, <1>4, <1>6, Zenon DEF EndInv, EndLive
<1>9. QED
  BY <1>7, <1>8, Zenon DEF EndInv

\* Recv, Close and shutdown.
LEMMA EndChannel ==
  ASSUME Types, Next, EndInv, ChannelNext \/ ShutdownFinish
  PROVE  EndInv'
<1>0. ch \in ChannelType /\ hist \in HistType
  BY Zenon DEF Types, PeerType
<1>1. (down' = "no" => down = "no") /\ (parentDone => parentDone')
  BY AliveBefore, Zenon
<1>2. /\ "closing" \notin allowsRequests /\ "closed" \notin allowsRequests
      /\ "failed" \notin allowsRequests
  BY DEF allowsRequests
<1>3. ASSUME NEW q, NEW s, NEW t, CloseLast(q, s), t \in allowsRequests => s \in allowsRequests
      PROVE  CloseLast(q, t)
  BY <1>3, Zenon DEF CloseLast
<1>4. CASE RecvEnd
  <2>1. UNCHANGED <<closer, worker>>
    BY <1>4, Zenon DEF RecvEnd, loopVars
  <2>2. /\ ch'.state = ch.state /\ ch'.canceled /\ ch'.frames = ch.frames
        /\ ch'.events = ch.events /\ ch'.queued = ch.queued
    BY <1>0, <1>4, RecvEndChannel, Zenon DEF IsChannel
  <2>3. /\ hist'.closedHere = hist.closedHere /\ hist'.onClose = hist.onClose
        /\ hist'.recvEnded
    BY <1>0, <1>4, HistChannel, Zenon DEF HistIs, IsHist
  <2>4. Holds(ch) => Holds(ch')
    BY <2>2, Zenon DEF Holds
  <2>5. EndShape'
    BY <2>1, <2>2, <2>3, Zenon DEF EndInv, EndShape
  <2>6. EndLive'
    BY <1>1, <2>1, <2>2, <2>3, <2>4, Zenon DEF EndInv, EndLive
  <2>7. QED
    BY <2>5, <2>6, Zenon DEF EndInv
<1>5. CASE ChannelClose
  <2>1. ch.state \in allowsRequests /\ UNCHANGED worker
    BY <1>5, Zenon DEF ChannelClose, loopVars
  <2>2. /\ ch'.state = "closing" /\ ch'.canceled /\ ch'.frames = <<>>
        /\ ch'.events = ch.events /\ ch'.queued = Nothing
    BY <1>0, <1>5, ChannelCloseChannel, Zenon DEF IsChannel
  <2>3. hist'.closedHere /\ hist'.onClose = hist.onClose /\ hist'.recvEnded = hist.recvEnded
    BY <1>0, <1>5, HistChannel, Zenon DEF HistIs, IsHist
  <2>4. CloseLast(ch.events, "closing")
    BY <1>2, <1>3, Zenon DEF EndInv, EndShape
  <2>5. EndShape'
    BY <1>2, <2>1, <2>2, <2>3, <2>4, Zenon DEF EndInv, EndShape
  <2>6. EndLive'
    BY <1>1, <2>1, <2>2, <2>3, Zenon DEF EndInv, EndLive
  <2>7. QED
    BY <2>5, <2>6, Zenon DEF EndInv
<1>6. CASE CloseQueue
  <2>1. closer = "queue" /\ UNCHANGED <<ch, worker, hist>>
    BY <1>6, Zenon DEF CloseQueue, loopVars
  <2>2. closer # "idle" /\ Stands(ch, ch')
    BY <2>1 DEF Stands
  <2>3. hist.onClose => worker.at \in {"idle", "stopped"}
    BY Zenon DEF EndInv, EndShape
  <2>4. QED
    BY <2>1, <2>2, <2>3, EndKeeps, Zenon
<1>7. CASE CloseTimeout
  <2>1. closer = "timer" /\ UNCHANGED <<worker, hist>>
    BY <1>7, Zenon DEF CloseTimeout, loopVars
  <2>2. hist.closedHere
    BY <2>1 DEF EndInv, EndShape
  <2>3. /\ ch'.state = ch.state \/ ch'.state = "closed"
        /\ ch'.canceled = ch.canceled /\ ch'.frames = ch.frames
        /\ ch'.events = ch.events /\ ch'.queued = ch.queued
    <3>1. CASE ch.state = "closing"
      BY <1>0, <1>7, <3>1, CloseTimeoutChannel, Zenon DEF IsChannel
    <3>2. CASE ch.state # "closing"
      BY <1>7, <3>2, Zenon DEF CloseTimeout
    <3>3. QED
      BY <3>1, <3>2
  <2>4. CloseLast(ch.events, ch'.state)
    BY <1>2, <1>3, <2>3, Zenon DEF EndInv, EndShape
  <2>5. EndShape'
    BY <1>2, <2>1, <2>2, <2>3, <2>4, Zenon DEF EndInv, EndShape
  <2>6. EndLive'
    BY <1>1, <2>1, <2>2, <2>3, Zenon DEF EndInv, EndLive
  <2>7. QED
    BY <2>5, <2>6, Zenon DEF EndInv
<1>8. CASE ShutdownFinish
  <2>1. down' = "final" /\ UNCHANGED <<closer, worker, hist>>
    BY <1>8, Zenon DEF ShutdownFinish, loopVars
  <2>2. \/ ch' = ch
        \/ /\ ch'.state \in {"closed", "failed"} /\ ch'.frames = <<>>
           /\ ch'.events = ch.events /\ ch'.queued = Nothing
    <3>1. CASE ch.inTable
      BY <1>0, <1>8, <3>1, ShutdownFinishChannel DEF IsChannel
    <3>2. CASE ~ch.inTable
      BY <1>8, <3>2, Zenon DEF ShutdownFinish
    <3>3. QED
      BY <3>1, <3>2
  <2>3. CASE ch' = ch
    BY <2>1, <2>3 DEF EndInv, EndShape, EndLive
  <2>4. CASE /\ ch'.state \in {"closed", "failed"} /\ ch'.frames = <<>>
             /\ ch'.events = ch.events /\ ch'.queued = Nothing
    <3>1. CloseLast(ch.events, ch'.state) /\ ch'.state # "closing" /\ ch'.state \notin allowsRequests
      BY <1>2, <1>3, <2>4 DEF EndInv, EndShape
    <3>2. EndShape'
      BY <2>1, <2>4, <3>1, Zenon DEF EndInv, EndShape
    <3>3. EndLive'
      BY <2>1 DEF EndLive
    <3>4. QED
      BY <3>2, <3>3, Zenon DEF EndInv
  <2>5. QED
    BY <2>2, <2>3, <2>4
<1>9. QED
  BY <1>4, <1>5, <1>6, <1>7, <1>8, EndRecv, Zenon DEF ChannelNext

\* The channel changes its state only, or takes an event as well.
Turns(s) ==
    /\ ch' \in ChannelType /\ ch'.state = s /\ ch'.inTable = ch.inTable
    /\ ch'.canceled = ch.canceled /\ ch'.frames = ch.frames /\ ch'.events = ch.events
    /\ ch'.queued = ch.queued

Takes(e, s, t) ==
    /\ ch' \in ChannelType /\ ch'.state = s /\ ch'.inTable = t
    /\ ch'.canceled = ch.canceled /\ ch'.frames = ch.frames
    /\ ch'.events = Append(ch.events, e) /\ ch'.queued = Plus(ch.queued, Size[e.kind])

LEMMA TakesIs ==
  ASSUME NEW c \in ChannelType, NEW m \in Events, ch' = TakesEvent(m, c),
         c.frames = ch.frames, c.events = ch.events, c.queued = ch.queued,
         c.canceled = ch.canceled
  PROVE  Takes(m, c.state, c.inTable)
<1>1. IsChannel(TakesEvent(m, c), c.state, c.inTable, c.canceled, c.frames,
                Append(c.events, m), Plus(c.queued, Size[m.kind]), c.pending, c.incoming)
  BY TakesEventChannel, Zenon
<1>2. IsChannel(ch', c.state, c.inTable, c.canceled, c.frames,
                Append(c.events, m), Plus(c.queued, Size[m.kind]), c.pending, c.incoming)
  BY <1>1, Zenon
<1>3. QED
  BY <1>2, Zenon DEF IsChannel, Takes

LEMMA RouteFailed ==
  ASSUME NEW err, RouteFails(err)
  PROVE  down' # "no"
BY DEF RouteFails, Begin, lifeVars

\* What a request of the peer does to the channel.
LEMMA ReceivedRequest ==
  ASSUME Types, ReceiveChannelRequest
  PROVE  /\ UNCHANGED <<worker, closer, hist>> /\ Head(wire) \in Events
         /\ Head(wire).kind = "channelRequest"
         /\ \/ Turns(ch.state)
            \/ ch.state \in allowsRequests /\ Takes(Head(wire), ch.state, ch.inTable)
<1> DEFINE m == Head(wire)
           legal == InTable /\ ch.state \in allowsRequests
           fits == ChannelHasBudget(Size["channelRequest"])
           rejects == m.reply /\ Refusal("channelResult") = None
<1>0. ch \in ChannelType
  BY DEF Types
<1>1. Receives("channelRequest") /\ UNCHANGED hist
  BY Zenon DEF ReceiveChannelRequest
<1>2. m \in PeerFrames /\ m.kind = "channelRequest" /\ "channelRequest" \in EventKinds
  BY <1>1, HeadOfWire, Zenon DEF Types, EventKinds
<1>3. m \in Events
  BY <1>2, FramesToQueues, Zenon
<1>4. IsChannel(Mine(m), ch.state, ch.inTable, ch.canceled, ch.frames, ch.events, ch.queued,
                ch.pending, IF m.reply THEN ch.incoming \cup {m.id} ELSE ch.incoming)
  BY <1>0, <1>2, MineChannel, Zenon
<1>5. /\ Mine(m) \in ChannelType /\ Mine(m).state = ch.state /\ Mine(m).inTable = ch.inTable
      /\ Mine(m).canceled = ch.canceled /\ Mine(m).frames = ch.frames
      /\ Mine(m).events = ch.events /\ Mine(m).queued = ch.queued
  BY <1>4, Zenon DEF IsChannel
<1>6. CASE legal /\ fits
  <2>1. ch' = TakesEvent(m, Mine(m))
    BY <1>6, Zenon DEF ReceiveChannelRequest, Mine
  <2> HIDE DEF m
  <2>2. Takes(m, ch.state, ch.inTable)
    BY <1>3, <1>5, <2>1, TakesIs, Zenon
  <2>3. QED
    BY <1>1, <1>2, <1>3, <1>6, <2>2, Zenon DEF m, Receives
<1>7. CASE ~(legal /\ fits)
  <2>1. ch' = ch \/ ch' = Mine(m)
    BY <1>7, Zenon DEF ReceiveChannelRequest, Mine
  <2>2. Turns(ch.state)
    BY <1>0, <1>5, <2>1, Zenon DEF Turns
  <2>3. QED
    BY <1>1, <1>2, <1>3, <2>2, Zenon DEF Receives
<1>8. QED
  BY <1>6, <1>7, Zenon

LEMMA ReceivedData ==
  ASSUME Types, ReceiveData
  PROVE  /\ UNCHANGED <<worker, closer, hist>>
         /\ \/ Turns(ch.state)
            \/ /\ ch.state = "open" /\ ch' \in ChannelType /\ ch'.state = ch.state
               /\ ch'.inTable = ch.inTable /\ ch'.canceled = ch.canceled
               /\ ch'.frames = Append(ch.frames, Size["data"]) /\ ch'.events = ch.events
               /\ ch'.queued = Plus(ch.queued, Size["data"])
<1> DEFINE n == Size["data"]
           legal == InTable /\ ch.state = "open"
           fits == ChannelHasBudget(n)
<1>0. ch \in ChannelType /\ ch.frames \in Seq(Nat) /\ ch.queued \in Budgets
  BY ChannelFields, Zenon DEF Types
<1>1. Receives("data") /\ UNCHANGED hist
  BY Zenon DEF ReceiveData
<1>2. UNCHANGED <<worker, closer, hist>>
  BY <1>1, Zenon DEF Receives
<1>3. n \in Nat
  BY SizeType DEF Kinds
<1>4. CASE legal /\ fits
  <2>1. ch' = [ch EXCEPT !.frames = Append(ch.frames, n), !.queued = Plus(ch.queued, n)]
    BY <1>4, Zenon DEF ReceiveData
  <2> HIDE DEF n
  <2>2. Append(ch.frames, n) \in Seq(Nat)
    BY <1>0, <1>3
  <2>3. Plus(ch.queued, n) \in Budgets
    BY <1>0, <1>3, PlusType, Zenon
  <2>4. IsChannel(ch', ch.state, ch.inTable, ch.canceled, Append(ch.frames, n), ch.events,
                  Plus(ch.queued, n), ch.pending, ch.incoming)
    BY <1>0, <2>1, <2>2, <2>3, ChannelFrames, Zenon
  <2>5. QED
    BY <1>2, <1>4, <2>4, Zenon DEF IsChannel, n
<1>5. CASE ~(legal /\ fits)
  <2>1. ch' = ch
    BY <1>5, Zenon DEF ReceiveData
  <2>2. Turns(ch.state)
    BY <1>0, <2>1, Zenon DEF Turns
  <2>3. QED
    BY <1>2, <2>2, Zenon
<1>6. QED
  BY <1>4, <1>5, Zenon

LEMMA ReceivedEOF ==
  ASSUME Types, ReceiveChannelEOF
  PROVE  /\ UNCHANGED <<worker, closer, hist>> /\ Head(wire) \in Events
         /\ Head(wire).kind = "eof"
         /\ \/ down' # "no" /\ Turns(ch.state)
            \/ down' # "no" /\ ch.state = "open" /\ Turns("remoteEOF")
            \/ ch.state = "open" /\ Takes(Head(wire), "remoteEOF", ch.inTable)
<1> DEFINE m == Head(wire)
           legal == InTable /\ ch.state = "open"
           fits == ChannelHasBudget(Size["eof"])
           c == [ch EXCEPT !.state = "remoteEOF"]
<1>0. ch \in ChannelType
  BY DEF Types
<1>1. Receives("eof") /\ UNCHANGED hist
  BY Zenon DEF ReceiveChannelEOF
<1>2. m \in Events /\ m.kind = "eof" /\ UNCHANGED <<worker, closer, hist>>
  <2>1. m \in PeerFrames /\ m.kind = "eof" /\ "eof" \in EventKinds
    BY <1>1, HeadOfWire, Zenon DEF Types, EventKinds
  <2>2. QED
    BY <1>1, <2>1, FramesToQueues, Zenon DEF Receives
<1>3. IsChannel(c, "remoteEOF", ch.inTable, ch.canceled, ch.frames, ch.events, ch.queued,
                ch.pending, ch.incoming)
  <2>1. "remoteEOF" \in States
    BY DEF States
  <2>2. QED
    BY <1>0, <2>1, StateChannel, Zenon
<1>4. /\ c \in ChannelType /\ c.state = "remoteEOF" /\ c.inTable = ch.inTable
      /\ c.canceled = ch.canceled /\ c.frames = ch.frames /\ c.events = ch.events
      /\ c.queued = ch.queued
  BY <1>3, Zenon DEF IsChannel
<1>5. CASE legal /\ fits
  <2>1. ch' = TakesEvent(m, c)
    BY <1>5, Zenon DEF ReceiveChannelEOF
  <2> HIDE DEF m, c
  <2>2. Takes(m, "remoteEOF", ch.inTable)
    BY <1>2, <1>4, <2>1, TakesIs, Zenon
  <2>3. QED
    BY <1>2, <1>5, <2>2, Zenon DEF m
<1>6. CASE ~(legal /\ fits)
  <2>1. (legal => ch' = c) /\ (~legal => ch' = ch) /\ \E err : RouteFails(err)
    BY <1>6, Zenon DEF ReceiveChannelEOF
  <2> HIDE DEF c
  <2>2. legal => Turns("remoteEOF")
    BY <1>4, <2>1, Zenon DEF Turns
  <2>3. ~legal => Turns(ch.state)
    BY <1>0, <2>1, Zenon DEF Turns
  <2>4. down' # "no"
    BY <2>1, RouteFailed, Zenon
  <2>5. QED
    BY <1>2, <2>2, <2>3, <2>4, Zenon
<1>7. QED
  BY <1>5, <1>6, Zenon

LEMMA ReceivedClose ==
  ASSUME Types, ReceiveChannelClose
  PROVE  /\ UNCHANGED <<worker, closer, hist>> /\ Head(wire) \in Events
         /\ Head(wire).kind = "close"
         /\ \/ down' # "no" /\ Turns(ch.state)
            \/ down' # "no" /\ ch.state \in allowsRequests /\ Turns("closed")
            \/ down' # "no" /\ ch.state \in allowsRequests
               /\ Takes(Head(wire), "closed", ch.inTable)
            \/ ch.state \in allowsRequests /\ Takes(Head(wire), "closed", FALSE)
<1> DEFINE m == Head(wire)
           legal == InTable /\ ch.state \in allowsRequests
           fits == ChannelHasBudget(Size["close"])
           c == [ch EXCEPT !.state = "closed"]
           n == TakesEvent(m, c)
<1>0. ch \in ChannelType
  BY DEF Types
<1>1. Receives("close") /\ UNCHANGED hist
  BY Zenon DEF ReceiveChannelClose
<1>2. m \in Events /\ m.kind = "close" /\ UNCHANGED <<worker, closer, hist>>
  <2>1. m \in PeerFrames /\ m.kind = "close" /\ "close" \in EventKinds
    BY <1>1, HeadOfWire, Zenon DEF Types, EventKinds
  <2>2. QED
    BY <1>1, <2>1, FramesToQueues, Zenon DEF Receives
<1>3. IsChannel(c, "closed", ch.inTable, ch.canceled, ch.frames, ch.events, ch.queued,
                ch.pending, ch.incoming)
  <2>1. "closed" \in States
    BY DEF States
  <2>2. QED
    BY <1>0, <2>1, StateChannel, Zenon
<1>4. /\ c \in ChannelType /\ c.state = "closed" /\ c.inTable = ch.inTable
      /\ c.canceled = ch.canceled /\ c.frames = ch.frames /\ c.events = ch.events
      /\ c.queued = ch.queued
  BY <1>3, Zenon DEF IsChannel
<1>5. CASE legal /\ fits
  <2>1. \/ ch' = [n EXCEPT !.inTable = FALSE]
        \/ ch' = n /\ \E err : RouteFails(err)
    BY <1>5, Zenon DEF ReceiveChannelClose
  <2>2. CASE ch' = [n EXCEPT !.inTable = FALSE]
    <3> HIDE DEF m, c
    <3>1. IsChannel(n, c.state, c.inTable, c.canceled, c.frames,
                    Append(c.events, m), Plus(c.queued, Size[m.kind]), c.pending, c.incoming)
      BY <1>2, <1>4, TakesEventChannel, Zenon
    <3> HIDE DEF n
    <3>2. IsChannel(ch', n.state, FALSE, n.canceled, n.frames, n.events, n.queued, n.pending,
                    n.incoming)
      BY <2>2, <3>1, RemovedChannel, Zenon DEF IsChannel
    <3>3. Takes(m, "closed", FALSE)
      BY <1>4, <3>1, <3>2, Zenon DEF IsChannel, Takes
    <3>4. QED
      BY <1>2, <1>5, <3>3, Zenon DEF m
  <2>3. CASE ch' = n /\ \E err : RouteFails(err)
    <3>1. down' # "no"
      BY <2>3, RouteFailed, Zenon
    <3> HIDE DEF m, c
    <3>2. Takes(m, "closed", ch.inTable)
      BY <1>2, <1>4, <2>3, TakesIs, Zenon
    <3>3. QED
      BY <1>2, <1>5, <3>1, <3>2, Zenon DEF m
  <2>4. QED
    BY <2>1, <2>2, <2>3, Zenon
<1>6. CASE ~(legal /\ fits)
  <2>1. (legal => ch' = c) /\ (~legal => ch' = ch) /\ \E err : RouteFails(err)
    BY <1>6, Zenon DEF ReceiveChannelClose
  <2> HIDE DEF c
  <2>2. legal => Turns("closed")
    BY <1>4, <2>1, Zenon DEF Turns
  <2>3. ~legal => Turns(ch.state)
    BY <1>0, <2>1, Zenon DEF Turns
  <2>4. down' # "no"
    BY <2>1, RouteFailed, Zenon
  <2>5. QED
    BY <1>2, <2>2, <2>3, <2>4, Zenon
<1>7. QED
  BY <1>5, <1>6, Zenon

\* A step that changes the state of the channel only.
LEMMA EndTurns ==
  ASSUME Types, Next, EndInv, NEW s, Turns(s), UNCHANGED <<worker, closer, hist>>,
         s \in allowsRequests => ch.state \in allowsRequests,
         s = "closing" => ch.state = "closing"
  PROVE  EndInv'
<1>1. (down' = "no" => down = "no") /\ (parentDone => parentDone')
  BY AliveBefore, Zenon
<1>2. /\ ch'.state = s /\ ch'.canceled = ch.canceled
      /\ ch'.frames = ch.frames /\ ch'.events = ch.events /\ ch'.queued = ch.queued
  BY Zenon DEF Turns
<1>3. Holds(ch) => Holds(ch')
  BY <1>2, Zenon DEF Holds
<1>4. CloseLast(ch.events, s)
  BY Zenon DEF EndInv, EndShape, CloseLast
<1>5. EndShape'
  BY <1>2, <1>4, Zenon DEF EndInv, EndShape
<1>6. EndLive'
  BY <1>1, <1>2, <1>3, Zenon DEF EndInv, EndLive
<1>7. QED
  BY <1>5, <1>6, Zenon DEF EndInv

LEMMA EndTakes ==
  ASSUME Types, Next, EndInv, NEW e \in Events, NEW s, NEW t, Takes(e, s, t),
         UNCHANGED <<worker, closer, hist>>, ch.state \in allowsRequests, s # "closing",
         e.kind = "close" => s \notin allowsRequests
  PROVE  EndInv'
<1>0. ch \in ChannelType /\ ch.events \in Seq(Events)
  BY ChannelFields, Zenon DEF Types
<1>1. (down' = "no" => down = "no") /\ (parentDone => parentDone')
  BY AliveBefore, Zenon
<1>2. /\ ch' \in ChannelType /\ ch'.state = s /\ ch'.canceled = ch.canceled
      /\ ch'.frames = ch.frames /\ ch'.events = Append(ch.events, e)
      /\ ch'.queued = Plus(ch.queued, Size[e.kind])
  BY Zenon DEF Takes
<1>3. Holds(ch) => Holds(ch')
  BY <1>0, <1>2, EventHeld, Zenon
<1>4. CloseLast(Append(ch.events, e), s)
  BY <1>0, CloseLastAppend, Zenon DEF EndInv, EndShape
<1>5. /\ ~hist.closedHere /\ ~hist.onClose
      /\ ~(worker.at = "handling" /\ worker.ev.kind = "close")
  BY Zenon DEF EndInv, EndShape
<1>6. EndShape'
  BY <1>2, <1>4, <1>5, Zenon DEF EndInv, EndShape
<1>7. EndLive'
  BY <1>1, <1>2, <1>3, Zenon DEF EndInv, EndLive
<1>8. QED
  BY <1>6, <1>7, Zenon DEF EndInv

LEMMA EndReceiver ==
  ASSUME Types, Next, EndInv,
         \/ ReceiveChannelRequest \/ ReceiveData \/ ReceiveChannelEOF \/ ReceiveCloseAnswer
         \/ ReceiveChannelClose
  PROVE  EndInv'
<1>0. ch \in ChannelType
  BY DEF Types
<1>1. /\ "closed" \notin allowsRequests /\ "closed" # "closing" /\ "remoteEOF" # "closing"
      /\ "open" \in allowsRequests /\ "eof" # "close" /\ "channelRequest" # "close"
      /\ "closing" \notin allowsRequests
  BY DEF allowsRequests
<1>2. CASE ReceiveChannelRequest
  BY <1>1, <1>2, ReceivedRequest, EndTurns, EndTakes, Zenon
<1>3. CASE ReceiveChannelEOF
  BY <1>1, <1>3, ReceivedEOF, EndTurns, EndTakes, Zenon
<1>4. CASE ReceiveChannelClose
  BY <1>1, <1>4, ReceivedClose, EndTurns, EndTakes, Zenon
<1>5. CASE ReceiveCloseAnswer
  <2>1. UNCHANGED <<worker, closer, hist>> /\ ch.state = "closing"
    BY <1>5, Zenon DEF ReceiveCloseAnswer, Receives
  <2>2. /\ ch'.state = "closed" /\ ch'.canceled = ch.canceled
        /\ ch'.frames = ch.frames /\ ch'.events = ch.events /\ ch'.queued = ch.queued
    BY <1>0, <1>5, ReceiveCloseAnswerChannel, Zenon DEF IsChannel
  <2>3. (down' = "no" => down = "no") /\ (parentDone => parentDone')
    BY AliveBefore, Zenon
  <2>4. Holds(ch) => Holds(ch')
    BY <2>2, Zenon DEF Holds
  <2>5. CloseLast(ch.events, "closed")
    BY <1>1, Zenon DEF EndInv, EndShape, CloseLast
  <2>6. EndShape'
    BY <1>1, <2>1, <2>2, <2>5, Zenon DEF EndInv, EndShape
  <2>7. EndLive'
    BY <2>1, <2>2, <2>3, <2>4, Zenon DEF EndInv, EndLive
  <2>8. QED
    BY <2>6, <2>7, Zenon DEF EndInv
<1>6. CASE ReceiveData
  <2>1. CASE Turns(ch.state)
    BY <1>6, <2>1, ReceivedData, EndTurns, Zenon
  <2>2. CASE ~Turns(ch.state)
    <3>1. /\ UNCHANGED <<worker, closer, hist>>
          /\ ch.state = "open" /\ ch' \in ChannelType /\ ch'.state = ch.state
          /\ ch'.canceled = ch.canceled
          /\ ch'.frames = Append(ch.frames, Size["data"]) /\ ch'.events = ch.events
          /\ ch'.queued = Plus(ch.queued, Size["data"])
      BY <1>6, <2>2, ReceivedData, Zenon
    <3>2. (down' = "no" => down = "no") /\ (parentDone => parentDone')
      BY AliveBefore, Zenon
    <3>3. Size["data"] \in Nat
      BY SizeType DEF Kinds
    <3>4. Holds(ch) => Holds(ch')
      BY <1>0, <3>1, <3>3, DataHeld, Zenon
    <3>5. ~hist.closedHere
      BY <1>1, <3>1, Zenon DEF EndInv, EndShape
    <3>6. EndShape'
      BY <3>1, <3>5, Zenon DEF EndInv, EndShape
    <3>7. EndLive'
      BY <3>1, <3>2, <3>4, Zenon DEF EndInv, EndLive
    <3>8. QED
      BY <3>6, <3>7, Zenon DEF EndInv
  <2>3. QED
    BY <2>1, <2>2
<1>7. QED
  BY <1>2, <1>3, <1>4, <1>5, <1>6

LEMMA EndStep ==
  ASSUME Types, EndInv, Next
  PROVE  EndInv'
<1>1. CASE ~TouchesChannel
  <2>1. Stands(ch, ch') /\ UNCHANGED <<worker, closer>>
    BY <1>1, OthersStand, Zenon
  <2>2. /\ hist'.closedHere = hist.closedHere /\ hist'.onClose = hist.onClose
        /\ hist'.recvEnded = hist.recvEnded
    BY <1>1, HistStays, Zenon DEF TouchesChannel, WorkerNext, ChannelNext
  <2>3. hist.onClose => worker.at \in {"idle", "stopped"}
    BY Zenon DEF EndInv, EndShape
  <2>4. QED
    BY <2>1, <2>2, <2>3, EndKeeps, Zenon
<1>2. CASE TouchesChannel
  BY <1>2, EndWorker, EndChannel, EndReceiver, Zenon DEF TouchesChannel
<1>3. QED
  BY <1>1, <1>2

LEMMA EndInit ==
  ASSUME Init
  PROVE  EndInv
<1>1. /\ ch.events = <<>> /\ ch.frames = <<>> /\ ch.queued = Nothing /\ ~ch.canceled
      /\ ch.state = "open" /\ worker.at = "starting" /\ closer = "idle"
      /\ ~hist.closedHere /\ ~hist.onClose
  BY DEF Init, Nothing
<1>2. CloseLast(ch.events, ch.state)
  BY <1>1 DEF CloseLast
<1>3. Holds(ch)
  <2>1. Total(<<>>) = 0 /\ BytesOf(<<>>) = 0 /\ Len(<<>>) = 0
    BY TotalEmpty, BytesEmpty
  <2>2. QED
    BY <1>1, <2>1, Constants DEF Holds, BudgetIs
<1>4. EndShape
  BY <1>1, <1>2 DEF EndShape
<1>5. EndLive
  BY <1>1, <1>3 DEF EndLive
<1>6. QED
  BY <1>4, <1>5 DEF EndInv

LEMMA Ends == Spec => []EndInv
<1>1. TypedBudget /\ EndInv /\ [Next]_vars => EndInv'
  <2> SUFFICES ASSUME TypedBudget, EndInv, [Next]_vars
               PROVE  EndInv'
    OBVIOUS
  <2>1. CASE UNCHANGED vars
    <3>1. UNCHANGED <<down, parentDone, ch, closer, worker, hist>>
      BY <2>1, Zenon DEF vars, lifeVars, loopVars
    <3>2. EndShape'
      BY <3>1, Zenon DEF EndInv, EndShape
    <3>3. EndLive'
      BY <3>1, Zenon DEF EndInv, EndLive
    <3>4. QED
      BY <3>2, <3>3, Zenon DEF EndInv
  <2>2. CASE Next
    BY <2>2, EndStep, Zenon DEF TypedBudget
  <2>3. QED
    BY <2>1, <2>2
<1>2. Init => EndInv
  BY EndInit
<1>3. QED
  BY <1>1, <1>2, Typed, PTL DEF Spec

(***************************************************************************)
(* A channel that left a live session and whose worker has ended holds     *)
(* budget for the frames Recv has still to return and for nothing else,    *)
(* and OnClose was called if the peer closed it, unless Recv reported the  *)
(* end before the worker had taken the close.                              *)
(***************************************************************************)
THEOREM EndedChannelReleases == Spec => []EndedChannelHoldsNothing
<1>1. TypedBudget /\ EndInv => EndedChannelHoldsNothing
  <2> SUFFICES ASSUME TypedBudget, EndInv, down = "no", ~parentDone, worker.at = "stopped",
                      ~hist.recvEnded
               PROVE  /\ ch.queued.frames = Len(ch.frames)
                      /\ hist.onClose \/ hist.closedHere
    BY Zenon DEF EndedChannelHoldsNothing
  <2>1. hist.onClose \/ hist.closedHere
    BY Zenon DEF EndInv, EndLive
  <2>2. CASE hist.closedHere
    <3>1. ch.queued = Nothing /\ ch.frames = <<>>
      BY <2>2, Zenon DEF EndInv, EndShape
    <3>2. QED
      BY <2>1, <3>1, Constants
  <2>3. CASE ~hist.closedHere
    <3>1. ch.events = <<>> /\ Holds(ch)
      BY <2>1, <2>3, Zenon DEF EndInv, EndShape, EndLive
    <3>2. ch.queued.frames = Len(ch.frames) + Len(ch.events)
      BY <3>1, Zenon DEF Holds, BudgetIs
    <3>3. Len(ch.events) = 0
      BY <3>1
    <3>4. Len(ch.frames) \in Nat
      BY ChannelFields, Zenon DEF TypedBudget, Types
    <3>5. QED
      BY <2>1, <3>2, <3>3, <3>4
  <2>4. QED
    BY <2>2, <2>3
<1>2. QED
  BY <1>1, Typed, Ends, PTL

-----------------------------------------------------------------------------
(* The order of the peer's frames.                                         *)

LEMMA TailIs ==
  ASSUME NEW q \in Seq(PeerFrames), q # <<>>
  PROVE  /\ 1 \in DOMAIN q /\ Head(q) = q[1] /\ Tail(q) \in Seq(PeerFrames)
         /\ \A i \in DOMAIN q : i \in Nat /\ i >= 1
         /\ \A i \in DOMAIN Tail(q) :
               i \in Nat /\ i >= 1 /\ i + 1 \in DOMAIN q /\ Tail(q)[i] = q[i + 1]
<1>1. /\ Len(q) \in Nat /\ Len(q) > 0 /\ Len(Tail(q)) = Len(q) - 1
      /\ DOMAIN q = 1..Len(q) /\ DOMAIN Tail(q) = 1..Len(Tail(q)) /\ Head(q) = q[1]
      /\ Tail(q) \in Seq(PeerFrames)
  OBVIOUS
<1>2. \A i \in DOMAIN Tail(q) : i + 1 \in DOMAIN q /\ Tail(q)[i] = q[i + 1]
  BY <1>1
<1>3. QED
  BY <1>1, <1>2

LEMMA AppendIs ==
  ASSUME NEW q \in Seq(PeerFrames), NEW m \in PeerFrames
  PROVE  LET n == Len(q) + 1
         IN  /\ DOMAIN Append(q, m) = DOMAIN q \cup {n} /\ n \notin DOMAIN q
             /\ Append(q, m)[n] = m
             /\ \A i \in DOMAIN q : i < n /\ ~(n < i) /\ Append(q, m)[i] = q[i]
             /\ ~(n < n)
<1>1. Append(q, m) \in Seq(PeerFrames) /\ Len(q) \in Nat /\ DOMAIN q = 1..Len(q)
      /\ Len(Append(q, m)) = Len(q) + 1
  OBVIOUS
<1>2. QED
  BY <1>1

\* A frame leaves the wire.
LEMMA OrderedTail ==
  ASSUME NEW q \in Seq(PeerFrames), q # <<>>, NEW s, NEW sent,
         Ordered(q, s, sent)
  PROVE  /\ Ordered(Tail(q), s, sent)
         /\ Head(q).kind = "eof" => Ordered(Tail(q), "remoteEOF", sent)
         /\ Head(q).kind = "close" => Ordered(Tail(q), "closed", sent)
<1>1. /\ 1 \in DOMAIN q /\ Head(q) = q[1] /\ Tail(q) \in Seq(PeerFrames)
      /\ \A i \in DOMAIN Tail(q) :
            i \in Nat /\ i >= 1 /\ i + 1 \in DOMAIN q /\ Tail(q)[i] = q[i + 1]
  BY TailIs, Zenon
<1>2. ASSUME NEW i \in DOMAIN Tail(q), NEW kinds, NoneBefore(q, i + 1, kinds)
      PROVE  NoneBefore(Tail(q), i, kinds) /\ Head(q).kind \notin kinds
  <2>1. Head(q).kind \notin kinds
    <3>1. 1 < i + 1
      BY <1>1
    <3>2. QED
      BY <1>1, <1>2, <3>1, Zenon DEF NoneBefore
  <2>2. ASSUME NEW j \in DOMAIN Tail(q), j < i
        PROVE  Tail(q)[j].kind \notin kinds
    <3>1. j + 1 < i + 1 /\ j + 1 \in DOMAIN q /\ Tail(q)[j] = q[j + 1]
      BY <1>1, <2>2
    <3>2. QED
      BY <1>2, <3>1 DEF NoneBefore
  <2>3. QED
    BY <2>1, <2>2, Zenon DEF NoneBefore
<1>3. ASSUME NEW i \in DOMAIN Tail(q)
      PROVE  LET k == Tail(q)[i].kind
                 h == Head(q).kind
             IN  /\ k \in {"data", "eof"} =>
                       /\ s = "open" /\ NoneBefore(Tail(q), i, {"eof", "close"})
                       /\ h \notin {"eof", "close"}
                 /\ k \in {"channelRequest", "channelResult", "close"} =>
                       /\ s \in allowsRequests /\ NoneBefore(Tail(q), i, {"close"})
                       /\ h \notin {"close"}
  <2>1. i + 1 \in DOMAIN q /\ Tail(q)[i] = q[i + 1]
    BY <1>1
  <2>2. QED
    BY <1>2, <2>1, Zenon DEF Ordered
<1>4. /\ sent = {} => /\ s = "open" /\ Head(q).kind \notin {"eof", "close"}
                      /\ \A i \in DOMAIN Tail(q) : Tail(q)[i].kind \notin {"eof", "close"}
      /\ "close" \notin sent => /\ s \in allowsRequests /\ Head(q).kind \notin {"close"}
                               /\ \A i \in DOMAIN Tail(q) : Tail(q)[i].kind \notin {"close"}
  BY <1>1, Zenon DEF Ordered
<1>5. Ordered(Tail(q), s, sent)
  BY <1>3, <1>4, Zenon DEF Ordered
<1>6. ASSUME Head(q).kind = "eof"
      PROVE  Ordered(Tail(q), "remoteEOF", sent)
  <2>1. "remoteEOF" \in allowsRequests /\ Head(q).kind \in {"eof", "close"}
    BY <1>6 DEF allowsRequests
  <2>2. QED
    BY <1>3, <1>4, <2>1, Zenon DEF Ordered
<1>7. ASSUME Head(q).kind = "close"
      PROVE  Ordered(Tail(q), "closed", sent)
  <2>1. Head(q).kind \in {"eof", "close"} /\ Head(q).kind \in {"close"}
    BY <1>7
  <2>2. QED
    BY <1>3, <1>4, <1>7, <2>1, Zenon DEF Ordered
<1>8. QED
  BY <1>5, <1>6, <1>7

\* A frame enters it: one of the peer's own, or an answer.
LEMMA OrderedAppend ==
  ASSUME NEW q \in Seq(PeerFrames), NEW m \in PeerFrames, NEW s,
         NEW sent \in SUBSET {"eof", "close"}, NEW next,
         Ordered(q, s, sent),
         m.kind \in {"data", "eof"} => sent = {},
         m.kind \in {"channelRequest", "channelResult", "close"} => "close" \notin sent,
         next = sent \cup ({m.kind} \cap {"eof", "close"})
  PROVE  Ordered(Append(q, m), s, next)
<1> DEFINE a == Append(q, m)
           n == Len(q) + 1
<1>1. /\ DOMAIN a = DOMAIN q \cup {n} /\ a[n] = m
      /\ \A i \in DOMAIN q : i < n /\ ~(n < i) /\ a[i] = q[i]
      /\ ~(n < n)
  BY AppendIs, Zenon
<1> HIDE DEF a, n
<1>2. ASSUME NEW i \in DOMAIN q, NEW kinds, NoneBefore(q, i, kinds)
      PROVE  NoneBefore(a, i, kinds)
  BY <1>1, <1>2, Zenon DEF NoneBefore
<1>3. ASSUME NEW kinds, \A i \in DOMAIN q : q[i].kind \notin kinds
      PROVE  NoneBefore(a, n, kinds)
  BY <1>1, <1>3, Zenon DEF NoneBefore
<1>4. "open" \in allowsRequests
  BY DEF allowsRequests
<1>5. /\ sent = {} => s = "open" /\ \A i \in DOMAIN q : q[i].kind \notin {"eof", "close"}
      /\ "close" \notin sent =>
            s \in allowsRequests /\ \A i \in DOMAIN q : q[i].kind \notin {"close"}
  BY <1>4, Zenon DEF Ordered
<1>6. ASSUME NEW i \in DOMAIN a
      PROVE  /\ a[i].kind \in {"data", "eof"} =>
                   s = "open" /\ NoneBefore(a, i, {"eof", "close"})
             /\ a[i].kind \in {"channelRequest", "channelResult", "close"} =>
                   s \in allowsRequests /\ NoneBefore(a, i, {"close"})
  <2>1. CASE i \in DOMAIN q
    <3>1. a[i] = q[i]
      BY <1>1, <2>1
    <3>2. QED
      BY <1>2, <2>1, <3>1, Zenon DEF Ordered
  <2>2. CASE i = n
    <3>1. a[i] = m
      BY <1>1, <2>2
    <3>2. QED
      BY <1>3, <1>5, <2>2, <3>1, Zenon
  <2>3. QED
    BY <1>1, <2>1, <2>2
<1>7. /\ next = {} => s = "open" /\ \A i \in DOMAIN a : a[i].kind \notin {"eof", "close"}
      /\ "close" \notin next =>
            s \in allowsRequests /\ \A i \in DOMAIN a : a[i].kind \notin {"close"}
  BY <1>1, <1>4, <1>5
<1>8. QED
  BY <1>6, <1>7, Zenon DEF Ordered, a

\* A session that lives and whose channel was not closed here was so before.
LEMMA LivedBefore ==
  ASSUME Types, Next, down' = "no", ~hist'.closedHere
  PROVE  down = "no" /\ ~hist.closedHere /\ ~ChannelClose /\ ~ShutdownFinish
<1>1. down = "no"
  BY AliveBefore, Zenon
<1>2. ~ShutdownFinish
  BY <1>1, Zenon DEF ShutdownFinish
<1>3. ~ChannelClose
  BY HistChannel, Zenon DEF HistIs, IsHist, Types, PeerType
<1>4. ~hist.closedHere
  BY <1>3, HistStays, Zenon
<1>5. QED
  BY <1>1, <1>2, <1>3, <1>4

\* Then only the receiver takes the channel out of the table.
LEMMA PlaceStays ==
  ASSUME Types, EndInv, Next, down' = "no", ~hist'.closedHere, ~ReceiverNext
  PROVE  ch'.state = ch.state /\ ch'.inTable = ch.inTable
<1>0. ch \in ChannelType
  BY DEF Types
<1>1. ~hist.closedHere /\ ~ChannelClose /\ ~ShutdownFinish
  BY LivedBefore, Zenon
<1>2. CASE ~TouchesChannel
  BY <1>2, OthersStand, Zenon DEF Stands
<1>3. CASE WorkerNext
  <2>1. CASE WorkerTake
    BY <1>0, <2>1, WorkerTakeChannel, Zenon DEF IsChannel
  <2>2. CASE WorkerClose
    BY <1>0, <2>2, WorkerCloseChannel, Zenon DEF IsChannel
  <2>3. CASE WorkerStart \/ WorkerStop \/ WorkerHandled \/ WorkerReply
    BY <2>3, Zenon DEF WorkerStart, WorkerStop, WorkerHandled, WorkerReply
  <2>4. CASE WorkerRefused \/ WorkerWithdraw
    <3>1. \E err : WorkerFail(err)
      BY <2>4, Zenon DEF WorkerRefused, WorkerWithdraw
    <3>2. QED
      BY <1>0, <3>1, WorkerFailChannel, Zenon DEF IsChannel
  <2>5. QED
    BY <1>3, <2>1, <2>2, <2>3, <2>4, Zenon DEF WorkerNext
<1>4. CASE ChannelNext
  <2>1. CASE Recv
    BY <1>0, <2>1, RecvChannel, Zenon DEF IsChannel
  <2>2. CASE RecvEnd
    BY <1>0, <2>2, RecvEndChannel, Zenon DEF IsChannel
  <2>3. CASE CloseQueue
    BY <2>3, Zenon DEF CloseQueue
  <2>4. CASE CloseTimeout
    <3>1. closer # "idle"
      BY <2>4 DEF CloseTimeout
    <3>2. QED
      BY <1>1, <3>1, Zenon DEF EndInv, EndShape
  <2>5. QED
    BY <1>1, <1>4, <2>1, <2>2, <2>3, <2>4, Zenon DEF ChannelNext
<1>5. CASE WriterSend
  BY <1>0, <1>5, WriterSendChannel, Zenon DEF IsChannel, WriterSend
<1>6. CASE WriterFail
  BY <1>0, <1>6, WriterFailChannel, Zenon DEF IsChannel
<1>7. QED
  BY <1>1, <1>2, <1>3, <1>4, <1>5, <1>6, Zenon DEF TouchesChannel, ReceiverNext

\* Who touches the wire.
LEMMA WireStays ==
  ASSUME Types, Next, ~PeerNext, ~ReceiverNext
  PROVE  /\ wire' = wire /\ env'.ended = env.ended
         /\ ~WriterSend => env' = env
<1>1. CASE WriterSend
  BY <1>1, WriterSendsEnv, Zenon DEF WriterSend
<1>2. CASE ~WriterSend
  <2>1. UNCHANGED <<wire, env>>
    <3>1. CASE ShutdownNext
      BY <3>1, Zenon DEF ShutdownNext, ShutdownCancel, ShutdownFinish, FinalizeClose,
         DisconnectTimeout, FinalizeDone, SessionClose, ParentCancel, ParentShutdown
    <3>2. CASE WriterNext
      BY <1>2, <3>2, Zenon DEF WriterNext, WriterPoll, WriterTakeControl, WriterTakeOutbound,
         WriterFail, WriterStop
    <3>3. CASE CallNext \/ ChannelNext
      BY <3>3, Zenon DEF CallNext, GlobalCall, ChannelCall, CallQueue, CallRefused,
         CallWithdraw, CallGiveUp, ChannelNext, Recv, RecvEnd, ChannelClose, CloseQueue,
         CloseTimeout
    <3>4. CASE DispatchNext
      BY <3>4, Zenon DEF DispatchNext, DispatchTake, DispatchNoReply, DispatchReply,
         DispatchRefused, DispatchWithdraw, DispatchStop
    <3>5. CASE WorkerNext
      BY <3>5, Zenon DEF WorkerNext, WorkerStart, WorkerTake, WorkerStop, WorkerHandled,
         WorkerClose, WorkerReply, WorkerRefused, WorkerWithdraw
    <3>6. QED
      BY <3>1, <3>2, <3>3, <3>4, <3>5, Zenon DEF Next
  <2>2. QED
    BY <2>1
<1>3. QED
  BY <1>1, <1>2

LEMMA OrderPeer ==
  ASSUME Types, EndInv, OrderInv, Next, PeerNext, down' = "no", ~hist'.closedHere,
         ~hist'.overtaken
  PROVE  Ordered(wire', ch.state, env'.ended)
<1>0. /\ PeerType /\ wire \in Seq(PeerFrames) /\ env \in EnvType /\ hist \in HistType
      /\ env.ended \in SUBSET {"eof", "close"}
  BY EnvFields, Zenon DEF Types, PeerType
<1>1. Ordered(wire, ch.state, env.ended)
  BY LivedBefore, HistStays, Zenon DEF OrderInv
<1>2. ASSUME NEW m \in PeerFrames, wire' = Append(wire, m), m.kind \notin env.ended,
             Overtakes(m.kind), env'.ended = Ended(m.kind)
      PROVE  Ordered(wire', ch.state, env'.ended)
  <2>1. ~Overtaken(m.kind)
    BY <1>0, <1>2, HistPeer, Zenon DEF HistIs, IsHist
  <2>2. /\ m.kind \in {"data", "eof"} => env.ended = {}
        /\ m.kind \in {"channelRequest", "channelResult", "close"} => "close" \notin env.ended
    BY <1>0, <1>2, <2>1 DEF Overtaken
  <2>3. QED
    BY <1>0, <1>1, <1>2, <2>2, OrderedAppend, Zenon DEF Ended
<1>3. ASSUME NEW kind \in env.use.peer, NEW reply \in BOOLEAN, PeerSend(kind, reply)
      PROVE  Ordered(wire', ch.state, env'.ended)
  <2> DEFINE m == Msg(kind, env.sent + 1, reply /\ kind \in RequestKinds)
  <2>1. kind \notin env.ended
    BY <1>3, Zenon DEF PeerSend, MayPeerSend
  <2>2. /\ m.kind = kind /\ m \in PeerFrames /\ wire' = Append(wire, m)
        /\ Overtakes(kind) /\ env'.ended = Ended(kind)
    BY <1>0, <1>3, PeerSends, ZenonT(60) DEF IsMsg
  <2> HIDE DEF m
  <2>3. QED
    BY <1>2, <2>1, <2>2, Zenon
<1>4. ASSUME NEW c \in Callers, PeerAnswer(c)
      PROVE  Ordered(wire', ch.state, env'.ended)
  <2>1. AnswerKind(c) \notin env.ended /\ Ended(AnswerKind(c)) = env.ended
    BY <1>0 DEF AnswerKind, Ended
  <2> DEFINE m == Msg(AnswerKind(c), c, FALSE)
  <2>2. /\ m.kind = AnswerKind(c) /\ m \in PeerFrames /\ wire' = Append(wire, m)
        /\ Overtakes(AnswerKind(c)) /\ env'.ended = env.ended
    BY <1>0, <1>4, PeerAnswers, Zenon DEF IsMsg
  <2> HIDE DEF m
  <2>3. QED
    BY <1>2, <2>1, <2>2, Zenon
<1>5. CASE Break
  BY <1>1, <1>5, Zenon DEF Break
<1>6. QED
  BY <1>3, <1>4, <1>5, Zenon DEF PeerNext

\* The channel, when the receiver takes the head of the wire.
LEMMA PlaceReceiver ==
  ASSUME Types, EndInv, ReceiverNext, Next, down' = "no", ~hist'.closedHere
  PROVE  /\ wire # <<>> /\ wire' = Tail(wire)
         /\ \/ ch'.state = ch.state /\ ch'.inTable = ch.inTable
            \/ /\ Head(wire).kind = "eof" /\ ch.state = "open"
               /\ ch'.state = "remoteEOF" /\ ch'.inTable = ch.inTable
            \/ Head(wire).kind = "close" /\ ch'.state = "closed" /\ ch'.inTable = FALSE
<1>0. ch \in ChannelType
  BY DEF Types
<1>1. ~hist.closedHere
  BY LivedBefore, Zenon
<1>2. \A k : Receives(k) => wire # <<>> /\ wire' = Tail(wire)
  BY Zenon DEF Receives
<1>3. CASE ReceiveEnd \/ ReceiveFails
  BY <1>3, RouteFailed, Zenon DEF ReceiveEnd, ReceiveFails
<1>4. CASE ReceiveGlobalRequest \/ ReceiveGlobalResult
  BY <1>2, <1>4, Zenon DEF ReceiveGlobalRequest, ReceiveGlobalResult
<1>5. CASE ReceiveChannelResult
  <2>1. wire # <<>> /\ wire' = Tail(wire)
    BY <1>2, <1>5, Zenon DEF ReceiveChannelResult
  <2>2. QED
    BY <1>0, <1>5, <2>1, ReceiveChannelResultChannel, Zenon DEF IsChannel
<1>6. CASE ReceiveChannelRequest
  <2>1. wire # <<>> /\ wire' = Tail(wire)
    BY <1>2, <1>6, Zenon DEF ReceiveChannelRequest
  <2>2. QED
    BY <1>6, <2>1, ReceivedRequest, Zenon DEF Turns, Takes
<1>7. CASE ReceiveData
  <2>1. wire # <<>> /\ wire' = Tail(wire)
    BY <1>2, <1>7, Zenon DEF ReceiveData
  <2>2. QED
    BY <1>7, <2>1, ReceivedData, Zenon DEF Turns
<1>8. CASE ReceiveChannelEOF
  <2>1. wire # <<>> /\ wire' = Tail(wire)
    BY <1>2, <1>8, Zenon DEF ReceiveChannelEOF
  <2>2. QED
    BY <1>8, <2>1, ReceivedEOF, Zenon DEF Takes
<1>9. CASE ReceiveChannelClose
  <2>1. wire # <<>> /\ wire' = Tail(wire)
    BY <1>2, <1>9, Zenon DEF ReceiveChannelClose
  <2>2. QED
    BY <1>9, <2>1, ReceivedClose, Zenon DEF Takes
<1>10. CASE ReceiveCloseAnswer
  <2>1. ch.state = "closing"
    BY <1>10, Zenon DEF ReceiveCloseAnswer
  <2>2. QED
    BY <1>1, <2>1, Zenon DEF EndInv, EndShape
<1>11. QED
  BY <1>3, <1>4, <1>5, <1>6, <1>7, <1>8, <1>9, <1>10, Zenon DEF ReceiverNext

LEMMA OrderStep ==
  ASSUME Types, EndInv, OrderInv, Next
  PROVE  OrderInv'
<1>1. SUFFICES ASSUME down' = "no", ~hist'.closedHere
               PROVE  /\ ch'.state \in {"open", "remoteEOF", "closed"}
                      /\ ch'.inTable <=> ch'.state \in allowsRequests
                      /\ ~hist'.overtaken => Ordered(wire', ch'.state, env'.ended)
  BY Zenon DEF OrderInv
<1>2. /\ ch.state \in {"open", "remoteEOF", "closed"}
      /\ ch.inTable <=> ch.state \in allowsRequests
      /\ ~hist.overtaken => Ordered(wire, ch.state, env.ended)
  BY <1>1, LivedBefore, Zenon DEF OrderInv
<1>3. CASE PeerNext
  <2>1. ~hist'.overtaken => Ordered(wire', ch.state, env'.ended)
    BY <1>1, <1>3, OrderPeer, Zenon
  <2>2. ch' = ch
    BY <1>3, Zenon DEF PeerNext, PeerSend, PeerAnswer, Break
  <2>3. QED
    BY <1>2, <2>1, <2>2, Zenon
<1>4. CASE ReceiverNext
  <2>1. /\ wire # <<>> /\ wire' = Tail(wire)
        /\ \/ ch'.state = ch.state /\ ch'.inTable = ch.inTable
           \/ /\ Head(wire).kind = "eof" /\ ch.state = "open"
              /\ ch'.state = "remoteEOF" /\ ch'.inTable = ch.inTable
           \/ Head(wire).kind = "close" /\ ch'.state = "closed" /\ ch'.inTable = FALSE
    BY <1>1, <1>4, PlaceReceiver, Zenon
  <2>2. env' = env /\ hist' = hist /\ wire \in Seq(PeerFrames)
    BY <1>4, WireReceiver, Zenon DEF Types, PeerType
  <2>3. ~hist.overtaken =>
        /\ Ordered(Tail(wire), ch.state, env.ended)
        /\ Head(wire).kind = "eof" =>
              Ordered(Tail(wire), "remoteEOF", env.ended)
        /\ Head(wire).kind = "close" =>
              Ordered(Tail(wire), "closed", env.ended)
    BY <1>2, <2>1, <2>2, OrderedTail, Zenon
  <2>4. ~hist.overtaken => Ordered(wire', ch'.state, env'.ended)
    BY <2>1, <2>2, <2>3, Zenon
  <2>5. /\ ch'.state \in {"open", "remoteEOF", "closed"}
        /\ ch'.inTable <=> ch'.state \in allowsRequests
    BY <1>2, <2>1 DEF allowsRequests
  <2>6. QED
    BY <2>2, <2>4, <2>5
<1>5. CASE ~PeerNext /\ ~ReceiverNext
  <2>1. ch'.state = ch.state /\ ch'.inTable = ch.inTable
    BY <1>1, <1>5, PlaceStays, Zenon
  <2>2. wire' = wire /\ env'.ended = env.ended
    BY <1>5, WireStays, Zenon
  <2>3. hist'.overtaken = hist.overtaken
    BY <1>5, HistStays, Zenon DEF PeerNext
  <2>4. QED
    BY <1>2, <2>1, <2>2, <2>3, Zenon
<1>6. QED
  BY <1>3, <1>4, <1>5

LEMMA OrderInit ==
  ASSUME Init
  PROVE  OrderInv
<1>1. /\ ch.state = "open" /\ ch.inTable /\ wire = <<>> /\ env.ended = {}
  BY DEF Init
<1>2. QED
  BY <1>1 DEF OrderInv, Ordered, allowsRequests

-----------------------------------------------------------------------------
(* Answers and the callers they are for.                                   *)

LEMMA AskedMoves ==
  ASSUME NEW c, NEW q \in Seq(OutWrites), NEW w \in OutWrites
  PROVE  /\ Asked(c, Append(q, w)) => Asked(c, q) \/ (w.waits = c /\ w.reply)
         /\ q # <<>> /\ Asked(c, Tail(q)) => Asked(c, q)
         /\ q # <<>> /\ Head(q).waits = c /\ Head(q).reply /\ ~Head(q).canceled => Asked(c, q)
<1>1. Asked(c, Append(q, w)) => Asked(c, q) \/ (w.waits = c /\ w.reply)
  <2> DEFINE r == Append(q, w)
  <2>1. \A i \in DOMAIN r : (i \in DOMAIN q /\ r[i] = q[i]) \/ r[i] = w
    OBVIOUS
  <2> HIDE DEF r
  <2>2. Asked(c, r) => Asked(c, q) \/ (w.waits = c /\ w.reply)
    BY <2>1, Zenon DEF Asked
  <2>3. QED
    BY <2>2, Zenon DEF r
<1>2. ASSUME q # <<>>
      PROVE  /\ Asked(c, Tail(q)) => Asked(c, q)
             /\ Head(q).waits = c /\ Head(q).reply /\ ~Head(q).canceled => Asked(c, q)
  <2>1. \A i \in DOMAIN Tail(q) : i + 1 \in DOMAIN q /\ Tail(q)[i] = q[i + 1]
    BY <1>2
  <2>2. 1 \in DOMAIN q /\ Head(q) = q[1]
    BY <1>2
  <2>3. QED
    BY <2>1, <2>2, Zenon DEF Asked
<1>3. QED
  BY <1>1, <1>2

LEMMA AskedWithdraw ==
  ASSUME outbound \in Seq(OutWrites), NEW c, NEW who, Asked(c, Withdraw(who))
  PROVE  Asked(c, outbound) /\ c # who
BY WithdrawType, Zenon DEF Asked

LEMMA OnWireMoves ==
  ASSUME NEW c, NEW q \in Seq(PeerFrames), NEW m \in PeerFrames
  PROVE  /\ OnWire(c, Append(q, m)) => OnWire(c, q) \/ Answer(c, m)
         /\ q # <<>> /\ OnWire(c, Tail(q)) => OnWire(c, q)
<1>1. OnWire(c, Append(q, m)) => OnWire(c, q) \/ Answer(c, m)
  <2> DEFINE r == Append(q, m)
  <2>1. \A i \in DOMAIN r : (i \in DOMAIN q /\ r[i] = q[i]) \/ r[i] = m
    OBVIOUS
  <2> HIDE DEF r
  <2>2. OnWire(c, r) => OnWire(c, q) \/ Answer(c, m)
    BY <2>1, Zenon DEF OnWire
  <2>3. QED
    BY <2>2, Zenon DEF r
<1>2. ASSUME q # <<>>
      PROVE  OnWire(c, Tail(q)) => OnWire(c, q)
  BY <1>2, TailIs, Zenon DEF OnWire
<1>3. QED
  BY <1>1, <1>2

LEMMA OnceMoves ==
  ASSUME NEW c, NEW q \in Seq(PeerFrames), NEW m \in PeerFrames, NEW owes,
         AnswersOnce(c, owes, q)
  PROVE  /\ ~Answer(c, m) => AnswersOnce(c, owes, Append(q, m))
         /\ c \in owes => AnswersOnce(c, owes \ {c}, Append(q, m))
         /\ q # <<>> => AnswersOnce(c, owes, Tail(q))
         /\ q # <<>> /\ Answer(c, Head(q)) => c \notin owes /\ ~OnWire(c, Tail(q))
<1> DEFINE r == Append(q, m)
           t == Tail(q)
<1>1. /\ DOMAIN r = DOMAIN q \cup {Len(q) + 1} /\ r[Len(q) + 1] = m
      /\ \A i \in DOMAIN q : r[i] = q[i]
  BY AppendIs
<1>2. q # <<>> => /\ \A i \in DOMAIN t : i \in Nat /\ i >= 1 /\ i + 1 \in DOMAIN q /\ t[i] = q[i + 1]
                  /\ 1 \in DOMAIN q /\ Head(q) = q[1]
  BY TailIs, Zenon
<1>3. q # <<>> => \A i, j \in DOMAIN t : (i + 1 = j + 1 => i = j) /\ i + 1 # 1
  BY <1>2
<1>4. c \notin owes \ {c}
  OBVIOUS
<1> HIDE DEF r, t
<1>5. ~Answer(c, m) => AnswersOnce(c, owes, r)
  BY <1>1 DEF AnswersOnce, OnWire
<1>6. c \in owes => AnswersOnce(c, owes \ {c}, r)
  BY <1>1, <1>4 DEF AnswersOnce, OnWire
<1>7. q # <<>> => AnswersOnce(c, owes, t)
  BY <1>2, <1>3, Zenon DEF AnswersOnce, OnWire
<1>8. q # <<>> /\ Answer(c, Head(q)) => c \notin owes /\ ~OnWire(c, t)
  BY <1>2, <1>3, Zenon DEF AnswersOnce, OnWire
<1>9. QED
  BY <1>5, <1>6, <1>7, <1>8, Zenon DEF r, t

\* Who touches the requests on their way to the peer, besides their callers
\* and the writer.
LEMMA QueueMoves ==
  ASSUME Types, Next, ~CallNext, ~WriterNext
  PROVE  /\ UNCHANGED writer
         /\ \A c \in Callers : call'[c] = call[c] \/ call'[c].at = "done"
         /\ \/ UNCHANGED outbound
            \/ \E w \in OutWrites : w.waits \notin Callers /\ outbound' = Append(outbound, w)
            \/ \E who : outbound' = Withdraw(who)
<1>0. /\ call \in [Callers -> CallRec] /\ dispatcher \in DispatcherType
      /\ worker \in WorkerType
  BY Zenon DEF Types, CallType, CallRec, LoopType
<1>1. FailPending => \A c \in Callers : call'[c] = call[c] \/ call'[c].at = "done"
  BY <1>0, CallFails, Zenon DEF SomeFail
<1>2. CASE ShutdownNext
  BY <1>2, Zenon DEF ShutdownNext, ShutdownCancel, ShutdownFinish, FinalizeClose,
     DisconnectTimeout, FinalizeDone, SessionClose, ParentCancel, ParentShutdown,
     EnqueueControl, budgetVars, loopVars, callVars
<1>3. CASE ChannelNext
  <2>1. UNCHANGED <<outbound, writer>> /\ (UNCHANGED call \/ FailPending)
    BY <1>3, Zenon DEF ChannelNext, Recv, RecvEnd, ChannelClose, CloseQueue, CloseTimeout,
       EnqueueControl, budgetVars, loopVars, callVars
  <2>2. QED
    BY <1>1, <2>1, Zenon
<1>4. CASE DispatchNext
  <2> DEFINE w == Write("globalResult", dispatcher.id, FALSE, "dispatcher")
  <2>1. UNCHANGED <<call, writer>>
    BY <1>4, Zenon DEF DispatchNext, DispatchTake, DispatchNoReply, DispatchReply,
       DispatchRefused, DispatchWithdraw, DispatchStop, callVars
  <2>2. \/ UNCHANGED outbound \/ outbound' = Append(outbound, w)
        \/ outbound' = Withdraw("dispatcher")
    BY <1>4, Zenon DEF DispatchNext, DispatchTake, DispatchNoReply, DispatchReply,
       DispatchRefused, DispatchWithdraw, DispatchStop, EnqueueOutbound, budgetVars
  <2>3. dispatcher.id \in Nat
    BY <1>0 DEF DispatcherType
  <2>4. w \in OutWrites /\ w.waits \notin Callers
    BY <2>3, ReplyWriteType, NotCallers, Zenon
  <2> HIDE DEF w
  <2>5. QED
    BY <2>1, <2>2, <2>4, Zenon
<1>5. CASE WorkerNext
  <2> DEFINE w == Write("channelResult", worker.ev.id, FALSE, "worker")
  <2>1. UNCHANGED writer /\ (UNCHANGED call \/ FailPending)
    BY <1>5, Zenon DEF WorkerNext, WorkerStart, WorkerTake, WorkerStop, WorkerHandled,
       WorkerClose, WorkerReply, WorkerRefused, WorkerWithdraw, callVars
  <2>2. \/ UNCHANGED outbound \/ outbound' = Append(outbound, w)
        \/ outbound' = Withdraw("worker")
    BY <1>5, Zenon DEF WorkerNext, WorkerStart, WorkerTake, WorkerStop, WorkerHandled,
       WorkerClose, WorkerReply, WorkerRefused, WorkerWithdraw, EnqueueOutbound, budgetVars
  <2>3. worker.ev.id \in Nat
    BY <1>0 DEF WorkerType, Events
  <2>4. w \in OutWrites /\ w.waits \notin Callers
    BY <2>3, ReplyWriteType, NotCallers, Zenon
  <2> HIDE DEF w
  <2>5. QED
    BY <1>1, <2>1, <2>2, <2>4, Zenon
<1>6. CASE PeerNext
  BY <1>6, Zenon DEF PeerNext, PeerSend, PeerAnswer, Break, callVars, loopVars, budgetVars
<1>7. CASE ReceiverNext
  <2>1. UNCHANGED writer
    <3>1. \A k : Receives(k) => UNCHANGED writer
      BY Zenon DEF Receives
    <3>2. QED
      BY <1>7, <3>1, Zenon DEF ReceiverNext, ReceiveGlobalRequest, ReceiveGlobalResult,
         ReceiveChannelResult, ReceiveChannelRequest, ReceiveData, ReceiveChannelEOF,
         ReceiveCloseAnswer, ReceiveChannelClose, ReceiveEnd, ReceiveFails
  <2>2. UNCHANGED outbound
    BY <1>7, Zenon DEF ReceiverNext, ReceiveGlobalRequest, ReceiveGlobalResult,
       ReceiveChannelResult, ReceiveChannelRequest, ReceiveData, ReceiveChannelEOF,
       ReceiveCloseAnswer, ReceiveChannelClose, ReceiveEnd, ReceiveFails, EnqueueControl,
       ReserveEvent, budgetVars
  <2>3. \A c \in Callers : call'[c] = call[c] \/ call'[c].at = "done"
    BY <1>7, CallReceiver, Zenon DEF OneMoves
  <2>4. QED
    BY <2>1, <2>2, <2>3
<1>8. QED
  BY <1>2, <1>3, <1>4, <1>5, <1>6, <1>7, Zenon DEF Next

\* A caller asks only after it has entered its place among the pending.
LEMMA AsksBefore ==
  ASSUME Types, Next, NEW c \in Callers, Asks(c)'
  PROVE  Asks(c) \/ c \in Pending'
<1>0. /\ call \in [Callers -> CallRec] /\ outbound \in Seq(OutWrites) /\ QueueType
      /\ writer \in WriterType /\ (writer.at # "sending" => writer.msg = NoWrite)
      /\ ch \in ChannelType /\ NoWrite.waits # c
  BY NotCallers, Zenon DEF Types, CallType, CallRec, QueueType, LoopType
<1>1. \/ call'[c].at = "sending" /\ call'[c].reply
      \/ writer'.msg.waits = c /\ writer'.msg.reply
      \/ Asked(c, outbound')
  BY Zenon DEF Asks
<1>2. CASE ~CallNext /\ ~WriterNext
  <2>1. /\ UNCHANGED writer
        /\ call'[c] = call[c] \/ call'[c].at = "done"
        /\ \/ UNCHANGED outbound
           \/ \E w \in OutWrites : w.waits \notin Callers /\ outbound' = Append(outbound, w)
           \/ \E who : outbound' = Withdraw(who)
    BY <1>2, QueueMoves, Zenon
  <2>2. Asked(c, outbound') => Asked(c, outbound)
    <3>1. ASSUME NEW w \in OutWrites, w.waits \notin Callers, outbound' = Append(outbound, w)
          PROVE  Asked(c, outbound') => Asked(c, outbound)
      <4>1. Asked(c, Append(outbound, w)) => Asked(c, outbound) \/ (w.waits = c /\ w.reply)
        BY <1>0, AskedMoves, Zenon
      <4>2. QED
        BY <3>1, <4>1, Zenon
    <3>2. ASSUME NEW who, outbound' = Withdraw(who)
          PROVE  Asked(c, outbound') => Asked(c, outbound)
      BY <1>0, <3>2, AskedWithdraw, Zenon
    <3>3. QED
      BY <2>1, <3>1, <3>2, Zenon
  <2>3. call'[c].at = "sending" => call'[c] = call[c]
    BY <2>1
  <2>4. QED
    BY <1>1, <2>1, <2>2, <2>3, Zenon DEF Asks
<1>3. CASE WriterNext
  <2>1. ASSUME NEW w \in ControlWrites \cup OutWrites, Claim(w)
        PROVE  writer'.msg = NoWrite \/ (~w.canceled /\ writer'.msg = w)
    <3>1. writer' = IF w.canceled THEN [at |-> "idle", msg |-> NoWrite]
                                  ELSE [at |-> "sending", msg |-> w]
      BY <2>1, Zenon DEF Claim
    <3>2. QED
      BY <3>1
  <2>2. CASE WriterTakeOutbound
    <3> DEFINE w == Head(outbound)
    <3>1. /\ UNCHANGED call /\ Claim(w) /\ outbound' = Tail(outbound)
          /\ w \in OutWrites /\ outbound # <<>>
      BY <1>0, <2>2, QueueHeads, Zenon DEF WriterTakeOutbound, callVars
    <3>2. writer'.msg = NoWrite \/ (~w.canceled /\ writer'.msg = w)
      BY <2>1, <3>1, Zenon
    <3>3. w.waits = c /\ w.reply /\ ~w.canceled => Asked(c, outbound)
      BY <1>0, <3>1, AskedMoves, Zenon
    <3>4. Asked(c, outbound') => Asked(c, outbound)
      BY <1>0, <3>1, AskedMoves, Zenon
    <3> HIDE DEF w
    <3>5. QED
      BY <1>0, <1>1, <3>1, <3>2, <3>3, <3>4, Zenon DEF Asks
  <2>3. CASE WriterTakeControl
    <3>1. UNCHANGED <<call, outbound>> /\ Claim(Head(control)) /\ Head(control) \in ControlWrites
      BY <1>0, <2>3, QueueHeads, Zenon DEF WriterTakeControl, callVars
    <3>2. Head(control).waits = None
      BY <3>1 DEF ControlWrites
    <3>3. writer'.msg.waits # c
      BY <1>0, <2>1, <3>1, <3>2, NotCallers, Zenon
    <3>4. QED
      BY <1>1, <3>1, <3>3, Zenon DEF Asks
  <2>4. CASE WriterPoll \/ WriterStop
    <3>1. UNCHANGED <<call, outbound>>
      BY <2>4, Zenon DEF WriterPoll, WriterStop, callVars, budgetVars
    <3>2. writer'.msg = writer.msg
      <4>1. writer.msg = NoWrite
        BY <1>0, <2>4 DEF WriterPoll, WriterStop
      <4>2. writer' = [writer EXCEPT !.at = "waiting"] \/ writer' = [at |-> "stopped", msg |-> NoWrite]
        BY <2>4, Zenon DEF WriterPoll, WriterStop
      <4>3. QED
        BY <1>0, <4>1, <4>2 DEF WriterType
    <3>3. QED
      BY <1>1, <3>1, <3>2, Zenon DEF Asks
  <2>5. CASE WriterSend \/ WriterFail
    <3>1. outbound' = outbound
      BY <2>5, Zenon DEF WriterSend, WriterFail, budgetVars
    <3>2. writer'.msg = NoWrite
      <4>1. writer' = [at |-> "idle", msg |-> NoWrite] \/ writer' = [at |-> "stopped", msg |-> NoWrite]
        BY <2>5, Zenon DEF WriterSend, WriterFail
      <4>2. QED
        BY <4>1
    <3>3. call'[c] = call[c] \/ call'[c].at \in {"waiting", "done"}
      BY <1>0, <2>5, CallWritten, CallUnwritten DEF WriterSend
    <3>4. QED
      BY <1>0, <1>1, <3>1, <3>2, <3>3 DEF Asks
  <2>6. QED
    BY <1>3, <2>2, <2>3, <2>4, <2>5, Zenon DEF WriterNext
<1>4. CASE CallNext
  <2>1. UNCHANGED writer
    BY <1>4, Zenon DEF CallNext, GlobalCall, ChannelCall, CallQueue, CallRefused,
       CallWithdraw, CallGiveUp, loopVars
  <2>2. ASSUME NEW d \in Callers, NEW b \in BOOLEAN, UNCHANGED outbound,
               call' = [call EXCEPT ![d] = [at |-> "sending", reply |-> b]],
               b => d \in Pending'
        PROVE  Asks(c) \/ c \in Pending'
    <3>1. CASE c = d
      <4>1. call'[c].reply = b
        BY <1>0, <2>2, <3>1
      <4>2. QED
        BY <1>1, <2>1, <2>2, <3>1, <4>1, Zenon DEF Asks
    <3>2. CASE c # d
      <4>1. call'[c] = call[c]
        BY <1>0, <2>2, <3>2
      <4>2. QED
        BY <1>1, <2>1, <2>2, <4>1, Zenon DEF Asks
    <3>3. QED
      BY <3>1, <3>2
  <2>3. ASSUME NEW d \in GlobalCallers, NEW b \in BOOLEAN, GlobalCall(d, b)
        PROVE  Asks(c) \/ c \in Pending'
    <3>1. /\ d \in Callers /\ UNCHANGED outbound
          /\ call' = [call EXCEPT ![d] = [at |-> "sending", reply |-> b]]
          /\ pendingGlobal' = IF b THEN pendingGlobal \cup {d} ELSE pendingGlobal
      BY <2>3, Zenon DEF GlobalCall, Callers, budgetVars
    <3>2. b => d \in Pending'
      BY <3>1 DEF Pending
    <3>3. QED
      BY <2>2, <3>1, <3>2, Zenon
  <2>4. ASSUME NEW d \in ChannelCallers, NEW b \in BOOLEAN, ChannelCall(d, b)
        PROVE  Asks(c) \/ c \in Pending'
    <3>1. /\ d \in Callers /\ UNCHANGED outbound
          /\ call' = [call EXCEPT ![d] = [at |-> "sending", reply |-> b]]
      BY <2>4, Zenon DEF ChannelCall, Callers, budgetVars
    <3>2. ch'.pending = IF b THEN ch.pending \cup {d} ELSE ch.pending
      BY <1>0, <2>4, ChannelCallChannel, Zenon DEF IsChannel
    <3>3. b => d \in Pending'
      BY <3>2 DEF Pending
    <3>4. QED
      BY <2>2, <3>1, <3>3, Zenon
  <2>5. ASSUME NEW d \in Callers, CallQueue(d)
        PROVE  Asks(c)
    <3> DEFINE w == Write(RequestKind(d), d, call[d].reply, d)
    <3>1. /\ call[d].at = "sending" /\ outbound' = Append(outbound, w)
          /\ call' = [call EXCEPT ![d] = CallAt(d, "queued")]
      BY <2>5, Zenon DEF CallQueue, EnqueueOutbound
    <3>2. OneMoves(d, "queued")
      BY <1>0, <3>1, CallMove, CallPlacesAre, Zenon
    <3>3. call[d].reply \in BOOLEAN
      BY <1>0 DEF CallRec
    <3>4. w \in OutWrites /\ w.waits = d /\ w.reply = call[d].reply
      BY <3>3, CallWriteType, Zenon
    <3> HIDE DEF w
    <3>5. Asked(c, outbound') => Asked(c, outbound) \/ (w.waits = c /\ w.reply)
      BY <1>0, <3>1, <3>4, AskedMoves, Zenon
    <3>6. call'[c] = call[c] \/ call'[c].at = "queued"
      BY <3>2, Zenon DEF OneMoves
    <3>7. QED
      BY <1>1, <2>1, <3>1, <3>4, <3>5, <3>6 DEF Asks
  <2>6. ASSUME NEW d \in Callers, CallRefused(d) \/ CallWithdraw(d) \/ CallGiveUp(d)
        PROVE  Asks(c)
    <3>1. /\ call' = [call EXCEPT ![d] = CallAt(d, "done")]
          /\ outbound' = outbound \/ outbound' = Withdraw(d)
      BY <2>6, Zenon DEF CallRefused, CallWithdraw, CallGiveUp, Leave, budgetVars
    <3>2. OneMoves(d, "done")
      BY <1>0, <3>1, CallMove, CallPlacesAre, Zenon
    <3>3. Asked(c, outbound') => Asked(c, outbound)
      BY <1>0, <3>1, AskedWithdraw, Zenon
    <3>4. call'[c] = call[c] \/ call'[c].at = "done"
      BY <3>2, Zenon DEF OneMoves
    <3>5. QED
      BY <1>1, <2>1, <3>3, <3>4 DEF Asks
  <2>7. QED
    BY <1>4, <2>3, <2>4, <2>5, <2>6, Zenon DEF CallNext
<1>5. QED
  BY <1>2, <1>3, <1>4

\* What the receiver takes from the wire, besides answers, leaves the pending.
LEMMA PendingReceived ==
  ASSUME Types, ReceiverNext, ~ReceiveGlobalResult, ~ReceiveChannelResult
  PROVE  ch'.pending = ch.pending
<1>0. ch \in ChannelType /\ PeerType
  BY Zenon DEF Types
<1> DEFINE m == Head(wire)
<1>1. ASSUME NEW r \in ChannelType, m \in Events, r.pending = ch.pending
      PROVE  /\ TakesEvent(m, r).pending = ch.pending /\ TakesEvent(m, r) \in ChannelType
  BY <1>1, TakesEventChannel, Zenon DEF IsChannel
<1>2. \A k : Receives(k) => m \in PeerFrames /\ m.kind = k
  BY <1>0, HeadOfWire, Zenon
<1>3. ASSUME NEW s \in States
      PROVE  [ch EXCEPT !.state = s] \in ChannelType /\ [ch EXCEPT !.state = s].pending = ch.pending
  BY <1>0 DEF ChannelType
<1>4. CASE ReceiveGlobalRequest \/ ReceiveEnd \/ ReceiveFails
  BY <1>4, Zenon DEF ReceiveGlobalRequest, ReceiveEnd, ReceiveFails
<1>5. CASE ReceiveChannelRequest
  <2>1. m \in PeerFrames /\ m.kind = "channelRequest"
    BY <1>2, <1>5, Zenon DEF ReceiveChannelRequest
  <2>2. m \in Events
    BY <2>1, FramesToQueues DEF EventKinds
  <2>3. Mine(m) \in ChannelType /\ Mine(m).pending = ch.pending
    BY <1>0, <2>1, MineChannel, Zenon DEF IsChannel
  <2>4. ch' = TakesEvent(m, Mine(m)) \/ ch' = Mine(m) \/ ch' = ch
    BY <1>5, Zenon DEF ReceiveChannelRequest, Mine
  <2> HIDE DEF m
  <2>5. TakesEvent(m, Mine(m)).pending = ch.pending
    BY <1>1, <2>2, <2>3, Zenon
  <2>6. QED
    BY <2>3, <2>4, <2>5, Zenon
<1>6. CASE ReceiveData
  <2>1. ch' = [ch EXCEPT !.frames = Append(ch.frames, Size["data"]),
                         !.queued = Plus(ch.queued, Size["data"])] \/ ch' = ch
    BY <1>6, Zenon DEF ReceiveData
  <2>2. QED
    BY <1>0, <2>1 DEF ChannelType
<1>7. CASE ReceiveChannelEOF
  <2>1. m \in PeerFrames /\ m.kind = "eof"
    BY <1>2, <1>7, Zenon DEF ReceiveChannelEOF
  <2>2. m \in Events /\ "remoteEOF" \in States
    BY <2>1, FramesToQueues DEF EventKinds, States
  <2>3. \/ ch' = TakesEvent(m, [ch EXCEPT !.state = "remoteEOF"])
        \/ ch' = [ch EXCEPT !.state = "remoteEOF"] \/ ch' = ch
    BY <1>7, Zenon DEF ReceiveChannelEOF
  <2>4. [ch EXCEPT !.state = "remoteEOF"] \in ChannelType
        /\ [ch EXCEPT !.state = "remoteEOF"].pending = ch.pending
    BY <1>3, <2>2, Zenon
  <2> HIDE DEF m
  <2>5. TakesEvent(m, [ch EXCEPT !.state = "remoteEOF"]).pending = ch.pending
    BY <1>1, <2>2, <2>4, Zenon
  <2>6. QED
    BY <2>3, <2>4, <2>5, Zenon
<1>8. CASE ReceiveChannelClose
  <2>1. m \in PeerFrames /\ m.kind = "close"
    BY <1>2, <1>8, Zenon DEF ReceiveChannelClose
  <2>2. m \in Events /\ "closed" \in States
    BY <2>1, FramesToQueues DEF EventKinds, States
  <2> DEFINE closed == [ch EXCEPT !.state = "closed"]
             t == TakesEvent(m, closed)
  <2>3. \/ ch' = [t EXCEPT !.inTable = FALSE] \/ ch' = t \/ ch' = closed \/ ch' = ch
    BY <1>8, Zenon DEF ReceiveChannelClose
  <2>4. closed.pending = ch.pending /\ t.pending = ch.pending /\ t \in ChannelType
    BY <1>1, <1>3, <2>2, Zenon
  <2> HIDE DEF m, closed, t
  <2>5. [t EXCEPT !.inTable = FALSE].pending = t.pending
    BY <2>4 DEF ChannelType
  <2>6. QED
    BY <2>3, <2>4, <2>5, Zenon
<1>9. CASE ReceiveCloseAnswer
  BY <1>0, <1>9, ReceiveCloseAnswerChannel, Zenon DEF IsChannel
<1>10. QED
  BY <1>4, <1>5, <1>6, <1>7, <1>8, <1>9, Zenon DEF ReceiverNext

\* While no caller gives up, one leaves the pending only when its request is
\* not sent or its answer is here.
LEMMA PendingMoves ==
  ASSUME Types, Next, down' = "no", ~hist'.closedHere, hist'.gaveUp = {}
  PROVE  \/ Pending \subseteq Pending'
         \/ \E c \in Callers :
               /\ Pending \ {c} \subseteq Pending'
               /\ \/ CallRefused(c) \/ CallWithdraw(c)
                  \/ /\ ReceiverNext /\ wire # <<>> /\ Answer(c, Head(wire))
                     /\ wire' = Tail(wire) /\ call'[c].at = "done"
<1>0. ch \in ChannelType /\ hist \in HistType /\ PeerType /\ call \in [Callers -> CallRec]
  BY Zenon DEF Types, PeerType, CallType, CallRec
<1>1. ~ChannelClose /\ ~ShutdownFinish /\ down = "no"
  BY LivedBefore, Zenon
<1>2. \A err : ~Begin(err)
  BY <1>1 DEF Begin
<1>3. UNCHANGED <<pendingGlobal, ch>> => Pending \subseteq Pending'
  BY DEF Pending
<1>4. pendingGlobal' = pendingGlobal /\ ch'.pending = ch.pending => Pending \subseteq Pending'
  BY DEF Pending
<1>5. CASE ShutdownNext
  <2>1. UNCHANGED <<pendingGlobal, ch>>
    BY <1>1, <1>2, <1>5, Zenon DEF ShutdownNext, ShutdownCancel, FinalizeClose,
       DisconnectTimeout, FinalizeDone, SessionClose, ParentCancel, ParentShutdown, callVars
  <2>2. QED
    BY <1>3, <2>1
<1>6. CASE WriterNext
  <2>1. CASE WriterSend
    BY <1>0, <1>4, <2>1, WriterSendChannel, Zenon DEF WriterSend, IsChannel
  <2>2. CASE WriterFail
    BY <1>1, <1>2, <2>2, Zenon DEF WriterFail
  <2>3. CASE ~WriterSend /\ ~WriterFail
    <3>1. UNCHANGED <<pendingGlobal, ch>>
      BY <1>6, <2>3, Zenon DEF WriterNext, WriterPoll, WriterTakeControl, WriterTakeOutbound,
         WriterStop, callVars
    <3>2. QED
      BY <1>3, <3>1
  <2>4. QED
    BY <2>1, <2>2, <2>3
<1>7. CASE CallNext
  <2>1. ASSUME NEW c \in GlobalCallers, NEW b \in BOOLEAN, GlobalCall(c, b)
        PROVE  Pending \subseteq Pending'
    <3>1. pendingGlobal \subseteq pendingGlobal' /\ ch' = ch
      BY <2>1 DEF GlobalCall
    <3>2. QED
      BY <3>1 DEF Pending
  <2>2. ASSUME NEW c \in ChannelCallers, NEW b \in BOOLEAN, ChannelCall(c, b)
        PROVE  Pending \subseteq Pending'
    <3>1. ch'.pending = IF b THEN ch.pending \cup {c} ELSE ch.pending
      BY <1>0, <2>2, ChannelCallChannel, Zenon DEF IsChannel
    <3>2. pendingGlobal' = pendingGlobal
      BY <2>2, Zenon DEF ChannelCall
    <3>3. QED
      BY <3>1, <3>2 DEF Pending
  <2>3. ASSUME NEW c \in Callers, CallQueue(c)
        PROVE  Pending \subseteq Pending'
    BY <1>3, <2>3, Zenon DEF CallQueue
  <2>4. ASSUME NEW c \in Callers, CallRefused(c) \/ CallWithdraw(c)
        PROVE  Pending \ {c} \subseteq Pending'
    <3>1. Leave(c) /\ pendingGlobal' = pendingGlobal \ {c}
      BY <2>4, Zenon DEF CallRefused, CallWithdraw, Leave
    <3>2. ch'.pending = ch.pending \ {c}
      BY <1>0, <3>1, LeaveChannel, Zenon DEF IsChannel
    <3>3. QED
      BY <3>1, <3>2 DEF Pending
  <2>5. ASSUME NEW c \in Callers, CallGiveUp(c)
        PROVE  FALSE
    <3>1. hist'.gaveUp = hist.gaveUp \cup {c}
      BY <1>0, <2>5, HistCall, Zenon DEF HistIs, IsHist
    <3>2. QED
      BY <3>1
  <2>6. QED
    BY <1>7, <2>1, <2>2, <2>3, <2>4, <2>5, Zenon DEF CallNext
<1>8. CASE ChannelNext
  <2>1. CASE Recv
    BY <1>0, <1>4, <2>1, RecvChannel, Zenon DEF Recv, IsChannel, callVars
  <2>2. CASE RecvEnd
    BY <1>0, <1>4, <2>2, RecvEndChannel, Zenon DEF RecvEnd, IsChannel, callVars
  <2>3. CASE CloseQueue
    BY <1>2, <1>3, <2>3, Zenon DEF CloseQueue
  <2>4. CASE CloseTimeout
    <3>1. pendingGlobal' = pendingGlobal
      BY <2>4, Zenon DEF CloseTimeout, callVars
    <3>2. ch'.pending = ch.pending
      <4>1. CASE ch.state = "closing"
        BY <1>0, <2>4, <4>1, CloseTimeoutChannel, Zenon DEF IsChannel
      <4>2. CASE ch.state # "closing"
        BY <2>4, <4>2, Zenon DEF CloseTimeout
      <4>3. QED
        BY <4>1, <4>2
    <3>3. QED
      BY <1>4, <3>1, <3>2
  <2>5. QED
    BY <1>1, <1>8, <2>1, <2>2, <2>3, <2>4, Zenon DEF ChannelNext
<1>9. CASE DispatchNext
  <2>1. UNCHANGED <<pendingGlobal, ch>>
    BY <1>2, <1>9, Zenon DEF DispatchNext, DispatchTake, DispatchNoReply, DispatchReply,
       DispatchRefused, DispatchWithdraw, DispatchStop, DispatchFail, callVars
  <2>2. QED
    BY <1>3, <2>1
<1>10. CASE WorkerNext
  <2>1. CASE WorkerTake
    BY <1>0, <1>4, <2>1, WorkerTakeChannel, Zenon DEF WorkerTake, IsChannel, callVars
  <2>2. CASE WorkerClose
    <3>1. pendingGlobal' = pendingGlobal
      BY <2>2, Zenon DEF WorkerClose
    <3>2. hist'.gaveUp = hist.gaveUp \cup ch.pending
      BY <1>0, <2>2, HistChannel, Zenon DEF HistIs, IsHist
    <3>3. ch.pending = {}
      BY <3>2
    <3>4. QED
      BY <3>1, <3>3 DEF Pending
  <2>3. CASE WorkerStart \/ WorkerStop \/ WorkerHandled \/ WorkerReply
    BY <1>3, <2>3, Zenon DEF WorkerStart, WorkerStop, WorkerHandled, WorkerReply, callVars
  <2>4. CASE WorkerRefused \/ WorkerWithdraw
    BY <1>2, <2>4, Zenon DEF WorkerRefused, WorkerWithdraw, WorkerFail
  <2>5. QED
    BY <1>10, <2>1, <2>2, <2>3, <2>4, Zenon DEF WorkerNext
<1>11. CASE PeerNext
  <2>1. UNCHANGED <<pendingGlobal, ch>>
    BY <1>11, Zenon DEF PeerNext, PeerSend, PeerAnswer, Break, callVars
  <2>2. QED
    BY <1>3, <2>1
<1>12. CASE ReceiverNext
  <2>0. \A err : ~RouteFails(err)
    BY RouteFailed, Zenon
  <2>1. CASE ReceiveGlobalResult \/ ReceiveChannelResult
    <3> DEFINE c == Head(wire).id
    <3>1. /\ wire # <<>> /\ wire' = Tail(wire) /\ Head(wire).kind \in ResultKinds
          /\ Head(wire) \in PeerFrames
      BY <1>0, <2>1, HeadOfWire, Zenon DEF ReceiveGlobalResult, ReceiveChannelResult, ResultKinds
    <3>2. c \in Callers /\ Answer(c, Head(wire))
      BY <3>1, FramesToQueues, Zenon DEF Answer
    <3>3. call' = [call EXCEPT ![c] = CallAt(c, "done")]
      BY <2>0, <2>1, Zenon DEF ReceiveGlobalResult, ReceiveChannelResult
    <3>4. call'[c].at = "done"
      BY <1>0, <3>2, <3>3, CallMove, CallPlacesAre, Zenon DEF OneMoves
    <3>5. /\ pendingGlobal \ {c} \subseteq pendingGlobal'
          /\ ch.pending \ {c} \subseteq ch'.pending
      <4>1. CASE ReceiveGlobalResult
        <5>1. pendingGlobal' = pendingGlobal \ {c} /\ ch' = ch
          BY <2>0, <4>1, Zenon DEF ReceiveGlobalResult
        <5>2. QED
          BY <5>1
      <4>2. CASE ReceiveChannelResult
        <5>1. pendingGlobal' = pendingGlobal
          BY <2>0, <4>2, Zenon DEF ReceiveChannelResult
        <5>2. ch'.pending = IF InTable THEN ch.pending \ {c} ELSE ch.pending
          BY <1>0, <4>2, ReceiveChannelResultChannel, Zenon DEF IsChannel
        <5>3. QED
          BY <5>1, <5>2
      <4>3. QED
        BY <2>1, <4>1, <4>2
    <3>6. Pending \ {c} \subseteq Pending'
      BY <3>5 DEF Pending
    <3> HIDE DEF c
    <3>7. QED
      BY <1>12, <3>1, <3>2, <3>4, <3>6, Zenon
  <2>2. CASE ~ReceiveGlobalResult /\ ~ReceiveChannelResult
    <3>1. pendingGlobal' = pendingGlobal
      BY <1>12, <2>0, <2>2, Zenon DEF ReceiverNext, ReceiveGlobalRequest,
         ReceiveChannelRequest, ReceiveData, ReceiveChannelEOF, ReceiveCloseAnswer,
         ReceiveChannelClose, ReceiveEnd, ReceiveFails, callVars
    <3>2. ch'.pending = ch.pending
      BY <1>12, <2>2, PendingReceived, Zenon
    <3>3. QED
      BY <1>4, <3>1, <3>2
  <2>3. QED
    BY <2>1, <2>2
<1>13. QED
  BY <1>5, <1>6, <1>7, <1>8, <1>9, <1>10, <1>11, <1>12, Zenon DEF Next

\* The writer sends a request of c: nothing of it is with the peer yet.
LEMMA FirstSent ==
  ASSUME Types, CallsInv, NEW c \in Callers, writer.msg.waits = c \/ call[c].at \in {"sending", "queued"}
  PROVE  c \notin env.owes /\ ~OnWire(c, wire)
<1>1. Placed(c, call[c].at, hist.withdrawn, hist.written, writer.msg.waits, outbound)
  BY Zenon DEF CallsInv, CallInv
<1>2. c \notin hist.written
  BY <1>1 DEF Placed
<1>3. AnswersInv
  BY Zenon DEF CallsInv
<1>4. c \notin env.owes
  BY <1>2, <1>3 DEF AnswersInv
<1>5. ~OnWire(c, wire)
  BY <1>2, <1>3, Zenon DEF AnswersInv, OnWire, Answer
<1>6. QED
  BY <1>4, <1>5

\* What is with the peer after a step was there before, or is being sent.
LEMMA OwedBefore ==
  ASSUME Types, Next, NEW c \in Callers, c \in env'.owes \/ OnWire(c, wire')
  PROVE  c \in env.owes \/ OnWire(c, wire) \/ (writer.msg.waits = c /\ writer.msg.reply)
<1>0. PeerType /\ wire \in Seq(PeerFrames) /\ writer \in WriterType
  BY Zenon DEF Types, PeerType, LoopType
<1>1. CASE WriterSend
  <2>1. wire' = wire
    BY <1>1, Zenon DEF WriterSend
  <2>2. env'.owes = IF writer.msg.kind \in RequestKinds /\ writer.msg.reply
                    THEN env.owes \cup {writer.msg.id} ELSE env.owes
    BY <1>1, WriterSendsEnv, Zenon
  <2>3. writer.msg.kind \in RequestKinds => writer.msg.id = writer.msg.waits
    BY <1>0 DEF WriterType, ControlWrites, OutWrites, RequestKinds, ResultKinds
  <2>4. QED
    BY <2>1, <2>2, <2>3
<1>2. ASSUME NEW kind \in env.use.peer, NEW reply \in BOOLEAN, PeerSend(kind, reply)
      PROVE  c \in env.owes \/ OnWire(c, wire)
  <2> DEFINE m == Msg(kind, env.sent + 1, reply /\ kind \in RequestKinds)
  <2>1. /\ m \in PeerFrames /\ wire' = Append(wire, m) /\ env'.owes = env.owes /\ m.kind = kind
        /\ kind \in (Kinds \ ResultKinds) \cup {"hangup"}
    BY <1>0, <1>2, PeerSends, ZenonT(60) DEF IsMsg
  <2> HIDE DEF m
  <2>2. ~Answer(c, m)
    BY <2>1 DEF Answer, ResultKinds
  <2>3. OnWire(c, Append(wire, m)) => OnWire(c, wire) \/ Answer(c, m)
    BY <1>0, <2>1, OnWireMoves, Zenon
  <2>4. QED
    BY <2>1, <2>2, <2>3, Zenon
<1>3. ASSUME NEW d \in Callers, PeerAnswer(d)
      PROVE  c \in env.owes \/ OnWire(c, wire)
  <2> DEFINE m == Msg(AnswerKind(d), d, FALSE)
  <2>1. m \in PeerFrames /\ wire' = Append(wire, m) /\ env'.owes = env.owes \ {d} /\ m.id = d
    BY <1>0, <1>3, PeerAnswers, Zenon DEF IsMsg
  <2>2. d \in env.owes
    BY <1>3, Zenon DEF PeerAnswer
  <2> HIDE DEF m
  <2>3. OnWire(c, Append(wire, m)) => OnWire(c, wire) \/ Answer(c, m)
    BY <1>0, <2>1, OnWireMoves, Zenon
  <2>4. QED
    BY <2>1, <2>2, <2>3 DEF Answer
<1>4. CASE ReceiverNext
  <2>1. env' = env /\ (wire' = wire \/ (wire # <<>> /\ wire' = Tail(wire)))
    BY <1>0, <1>4, WireReceiver, Zenon
  <2>2. wire # <<>> => Head(wire) \in PeerFrames
    BY <1>0
  <2>3. wire # <<>> => (OnWire(c, Tail(wire)) => OnWire(c, wire))
    BY <1>0, <2>2, OnWireMoves, Zenon
  <2>4. QED
    BY <2>1, <2>3, Zenon
<1>5. CASE Break
  BY <1>5, Zenon DEF Break
<1>6. CASE ~WriterSend /\ ~PeerNext /\ ~ReceiverNext
  BY <1>6, WireStays, Zenon
<1>7. QED
  BY <1>1, <1>2, <1>3, <1>4, <1>5, <1>6, Zenon DEF PeerNext

LEMMA OnceStep ==
  ASSUME Types, CallsInv, Next, NEW c \in Callers, AnswersOnce(c, env.owes, wire)
  PROVE  AnswersOnce(c, env'.owes, wire')
<1>0. PeerType /\ wire \in Seq(PeerFrames) /\ writer \in WriterType
  BY Zenon DEF Types, PeerType, LoopType
<1>1. CASE WriterSend
  <2>1. wire' = wire
    BY <1>1, Zenon DEF WriterSend
  <2>2. env'.owes = IF writer.msg.kind \in RequestKinds /\ writer.msg.reply
                    THEN env.owes \cup {writer.msg.id} ELSE env.owes
    BY <1>1, WriterSendsEnv, Zenon
  <2>3. writer.msg.kind \in RequestKinds => writer.msg.id = writer.msg.waits
    BY <1>0 DEF WriterType, ControlWrites, OutWrites, RequestKinds, ResultKinds
  <2>4. writer.msg.waits = c => ~OnWire(c, wire)
    BY FirstSent, Zenon
  <2>5. c \in env'.owes => ~OnWire(c, wire)
    BY <2>2, <2>3, <2>4 DEF AnswersOnce
  <2>6. QED
    BY <2>1, <2>5, Zenon DEF AnswersOnce
<1>2. ASSUME NEW kind \in env.use.peer, NEW reply \in BOOLEAN, PeerSend(kind, reply)
      PROVE  AnswersOnce(c, env'.owes, wire')
  <2> DEFINE m == Msg(kind, env.sent + 1, reply /\ kind \in RequestKinds)
  <2>1. /\ m \in PeerFrames /\ wire' = Append(wire, m) /\ env'.owes = env.owes /\ m.kind = kind
        /\ kind \in (Kinds \ ResultKinds) \cup {"hangup"}
    BY <1>0, <1>2, PeerSends, ZenonT(60) DEF IsMsg
  <2> HIDE DEF m
  <2>2. ~Answer(c, m)
    BY <2>1 DEF Answer, ResultKinds
  <2>3. AnswersOnce(c, env.owes, Append(wire, m))
    BY <1>0, <2>1, <2>2, OnceMoves, Zenon
  <2>4. QED
    BY <2>1, <2>3, Zenon
<1>3. ASSUME NEW d \in Callers, PeerAnswer(d)
      PROVE  AnswersOnce(c, env'.owes, wire')
  <2> DEFINE m == Msg(AnswerKind(d), d, FALSE)
  <2>1. m \in PeerFrames /\ wire' = Append(wire, m) /\ env'.owes = env.owes \ {d} /\ m.id = d
    BY <1>0, <1>3, PeerAnswers, Zenon DEF IsMsg
  <2>2. d \in env.owes
    BY <1>3, Zenon DEF PeerAnswer
  <2> HIDE DEF m
  <2>3. CASE c = d
    <3>1. AnswersOnce(c, env.owes \ {c}, Append(wire, m))
      BY <1>0, <2>1, <2>2, <2>3, OnceMoves, Zenon
    <3>2. QED
      BY <2>1, <2>3, <3>1, Zenon
  <2>4. CASE c # d
    <3>1. ~Answer(c, m)
      BY <2>1, <2>4, Zenon DEF Answer
    <3>2. AnswersOnce(c, env.owes, Append(wire, m))
      BY <1>0, <2>1, <3>1, OnceMoves, Zenon
    <3>3. c \in env'.owes <=> c \in env.owes
      BY <2>1, <2>4
    <3>4. QED
      BY <2>1, <3>2, <3>3, Zenon DEF AnswersOnce
  <2>5. QED
    BY <2>3, <2>4
<1>4. CASE ReceiverNext
  <2>1. env' = env /\ (wire' = wire \/ (wire # <<>> /\ wire' = Tail(wire)))
    BY <1>0, <1>4, WireReceiver, Zenon
  <2>2. wire # <<>> => Head(wire) \in PeerFrames
    BY <1>0
  <2>3. wire # <<>> => AnswersOnce(c, env.owes, Tail(wire))
    BY <1>0, <2>2, OnceMoves, Zenon
  <2>4. QED
    BY <2>1, <2>3, Zenon
<1>5. CASE Break
  BY <1>5, Zenon DEF Break
<1>6. CASE ~WriterSend /\ ~PeerNext /\ ~ReceiverNext
  BY <1>6, WireStays, Zenon
<1>7. QED
  BY <1>1, <1>2, <1>3, <1>4, <1>5, <1>6, Zenon DEF PeerNext

\* A caller that leaves the pending expects nothing any more.
LEMMA NothingExpected ==
  ASSUME Types, CallsInv, Next, NEW c \in Callers, AnswersOnce(c, env.owes, wire),
         \/ CallRefused(c) \/ CallWithdraw(c)
         \/ /\ ReceiverNext /\ wire # <<>> /\ Answer(c, Head(wire))
            /\ wire' = Tail(wire) /\ call'[c].at = "done"
  PROVE  ~Expects(c)'
<1>0. /\ call \in [Callers -> CallRec] /\ outbound \in Seq(OutWrites) /\ PeerType
      /\ wire \in Seq(PeerFrames)
  BY Zenon DEF Types, CallType, CallRec, QueueType, PeerType
<1>1. Placed(c, call[c].at, hist.withdrawn, hist.written, writer.msg.waits, outbound)
  BY Zenon DEF CallsInv, CallInv
<1>2. SUFFICES /\ call'[c].at = "done" /\ writer'.msg.waits # c /\ ~Asked(c, outbound')
               /\ c \notin env'.owes /\ ~OnWire(c, wire')
  BY DEF Expects, Asks
<1>3. CASE CallRefused(c) \/ CallWithdraw(c)
  <2>1. /\ call' = [call EXCEPT ![c] = CallAt(c, "done")] /\ UNCHANGED <<writer, env, wire>>
        /\ call[c].at \in {"sending", "queued"}
    BY <1>3, Zenon DEF CallRefused, CallWithdraw, Leave, loopVars
  <2>2. call'[c].at = "done"
    BY <1>0, <2>1, CallMove, CallPlacesAre, Zenon DEF OneMoves
  <2>3. c \notin env.owes /\ ~OnWire(c, wire)
    BY <2>1, FirstSent, Zenon
  <2>4. writer.msg.waits # c /\ ~Asked(c, outbound')
    <3>1. CASE CallRefused(c)
      <4>1. call[c].at = "sending" /\ outbound' = outbound
        BY <3>1, Zenon DEF CallRefused, budgetVars
      <4>2. QED
        BY <1>1, <4>1 DEF Placed, Asked
    <3>2. CASE CallWithdraw(c)
      <4>1. call[c].at = "queued" /\ outbound' = Withdraw(c)
            /\ \E i \in DOMAIN outbound : outbound[i].waits = c
        BY <3>2, Zenon DEF CallWithdraw
      <4>2. writer.msg.waits # c
        BY <1>1, <4>1 DEF Placed
      <4>3. ~Asked(c, outbound')
        BY <1>0, <4>1, AskedWithdraw, Zenon
      <4>4. QED
        BY <4>2, <4>3
    <3>3. QED
      BY <1>3, <3>1, <3>2
  <2>5. QED
    BY <2>1, <2>2, <2>3, <2>4, Zenon
<1>4. CASE ReceiverNext /\ wire # <<>> /\ Answer(c, Head(wire)) /\ wire' = Tail(wire)
           /\ call'[c].at = "done"
  <2>1. Head(wire) \in PeerFrames /\ 1 \in DOMAIN wire /\ Head(wire) = wire[1]
    BY <1>0, <1>4
  <2>2. c \notin env.owes /\ ~OnWire(c, Tail(wire))
    BY <1>0, <1>4, <2>1, OnceMoves, Zenon
  <2>3. c \in hist.written
    BY <1>4, <2>1, Zenon DEF CallsInv, AnswersInv, Answer
  <2>4. env' = env
    BY <1>0, <1>4, WireReceiver, Zenon
  <2>5. writer' = writer /\ outbound' = outbound
    <3>1. \A k : Receives(k) => UNCHANGED writer
      BY Zenon DEF Receives
    <3>2. writer' = writer
      BY <1>4, <3>1, Zenon DEF ReceiverNext, ReceiveGlobalRequest, ReceiveGlobalResult,
         ReceiveChannelResult, ReceiveChannelRequest, ReceiveData, ReceiveChannelEOF,
         ReceiveCloseAnswer, ReceiveChannelClose, ReceiveEnd, ReceiveFails
    <3>3. outbound' = outbound
      BY <1>4, Zenon DEF ReceiverNext, ReceiveGlobalRequest, ReceiveGlobalResult,
         ReceiveChannelResult, ReceiveChannelRequest, ReceiveData, ReceiveChannelEOF,
         ReceiveCloseAnswer, ReceiveChannelClose, ReceiveEnd, ReceiveFails, EnqueueControl,
         ReserveEvent, budgetVars
    <3>4. QED
      BY <3>2, <3>3
  <2>6. writer.msg.waits # c /\ ~Asked(c, outbound)
    BY <1>1, <2>3 DEF Placed, Asked
  <2>7. QED
    BY <1>4, <2>2, <2>4, <2>5, <2>6, Zenon
<1>5. QED
  BY <1>3, <1>4

LEMMA PendingStep ==
  ASSUME Types, CallsInv, PendingInv, Next
  PROVE  PendingInv'
<1>1. \A c \in Callers : AnswersOnce(c, env'.owes, wire')
  BY OnceStep, Zenon DEF PendingInv
<1>2. SUFFICES ASSUME down' = "no", hist'.gaveUp = {}, ~hist'.closedHere,
                      NEW c \in Callers, Expects(c)'
               PROVE  c \in Pending'
  BY <1>1, Zenon DEF PendingInv
<1>3. down = "no" /\ ~hist.closedHere
  BY <1>2, LivedBefore, Zenon
<1>4. hist.gaveUp = {}
  BY <1>2, HistStays
<1>5. Expects(c) \/ c \in Pending'
  BY <1>2, AsksBefore, OwedBefore, Zenon DEF Expects, Asks
<1>6. Expects(c) => c \in Pending
  BY <1>3, <1>4, Zenon DEF PendingInv
<1>7. CASE Pending \subseteq Pending'
  BY <1>5, <1>6, <1>7
<1>8. ASSUME NEW d \in Callers, Pending \ {d} \subseteq Pending',
             \/ CallRefused(d) \/ CallWithdraw(d)
             \/ /\ ReceiverNext /\ wire # <<>> /\ Answer(d, Head(wire))
                /\ wire' = Tail(wire) /\ call'[d].at = "done"
      PROVE  c \in Pending'
  <2>1. AnswersOnce(d, env.owes, wire)
    BY Zenon DEF PendingInv
  <2>2. ~Expects(d)'
    BY <1>8, <2>1, NothingExpected, Zenon
  <2>3. c # d
    BY <1>2, <2>2
  <2>4. QED
    BY <1>5, <1>6, <1>8, <2>3
<1>9. QED
  BY <1>2, <1>7, <1>8, PendingMoves, Zenon

LEMMA PendingInit ==
  ASSUME Init
  PROVE  PendingInv
<1>1. wire = <<>> /\ env.owes = {} /\ outbound = <<>> /\ writer.msg = NoWrite
  BY DEF Init
<1>2. \A c \in Callers : call[c].at = "idle"
  BY DEF Init
<1>3. ASSUME NEW c \in Callers
      PROVE  AnswersOnce(c, env.owes, wire) /\ ~Expects(c)
  BY <1>1, <1>2, NotCallers DEF AnswersOnce, Expects, Asks, Asked, OnWire
<1>4. QED
  BY <1>3, Zenon DEF PendingInv

-----------------------------------------------------------------------------
(* Why the session ends.                                                   *)

\* What ends a live session is neither a protocol error nor a failed reply,
\* but for frames the receiver cannot route and a reply that is withdrawn.
LEMMA OtherCauses ==
  ASSUME Types, Next, cause' # cause
  PROVE  /\ down = "no"
         /\ cause' \in {"protocol", "reply"} =>
               \/ cause' = "reply" /\ WorkerWithdraw /\ ~CtxDone
               \/ cause' = "protocol" /\ RouteFails("protocol") /\ ReceiverNext
<1>0. down = "no" /\ cause = None
  BY CauseStays DEF Types, LifeInv
<1>1. ASSUME NEW err, Begin(err)
      PROVE  cause' = err
  BY <1>0, <1>1 DEF Begin
<1>2. CloseCause = "parent"
  BY <1>0 DEF CloseCause
<1>3. \A k : Refusal(k) \notin {"protocol", "reply"}
  BY DEF Refusal, None
<1>4. UNCHANGED lifeVars => cause' = cause
  BY Zenon DEF lifeVars
<1>5. CASE ShutdownNext
  <2>1. Begin("canceled") \/ Begin("parent")
    BY <1>5, Zenon DEF ShutdownNext, ShutdownCancel, ShutdownFinish, FinalizeClose,
       DisconnectTimeout, FinalizeDone, SessionClose, ParentCancel, ParentShutdown
  <2>2. cause' = "canceled" \/ cause' = "parent"
    BY <1>1, <2>1, Zenon
  <2>3. QED
    BY <1>0, <2>2
<1>6. CASE WriterNext
  <2>1. Begin("write")
    BY <1>4, <1>6, Zenon DEF WriterNext, WriterPoll, WriterTakeControl, WriterTakeOutbound,
       WriterSend, WriterFail, WriterStop
  <2>2. cause' = "write"
    BY <1>1, <2>1, Zenon
  <2>3. QED
    BY <1>0, <2>2
<1>7. CASE CallNext \/ PeerNext
  BY <1>4, <1>7, Zenon DEF CallNext, GlobalCall, ChannelCall, CallQueue, CallRefused,
     CallWithdraw, CallGiveUp, PeerNext, PeerSend, PeerAnswer, Break
<1>8. CASE ChannelNext
  <2>1. \E k : Begin(Refusal(k))
    BY <1>4, <1>8, Zenon DEF ChannelNext, Recv, RecvEnd, ChannelClose, CloseQueue, CloseTimeout
  <2>2. \E k : cause' = Refusal(k)
    BY <1>1, <2>1, Zenon
  <2>3. QED
    BY <1>0, <1>3, <2>2, Zenon
<1>9. CASE DispatchNext
  <2>1. Begin(CloseCause) \/ \E k : Begin(Refusal(k))
    BY <1>4, <1>9, Zenon DEF DispatchNext, DispatchTake, DispatchNoReply, DispatchReply,
       DispatchRefused, DispatchWithdraw, DispatchStop, DispatchFail
  <2>2. cause' = "parent" \/ \E k : cause' = Refusal(k)
    BY <1>1, <1>2, <2>1, Zenon
  <2>3. QED
    BY <1>0, <1>3, <2>2, Zenon
<1>10. CASE WorkerNext
  <2>1. \/ Begin(CloseCause) \/ (\E k : Begin(Refusal(k)))
        \/ WorkerWithdraw /\ ~CtxDone /\ Begin("reply")
    BY <1>4, <1>10, Zenon DEF WorkerNext, WorkerStart, WorkerTake, WorkerStop, WorkerHandled,
       WorkerClose, WorkerReply, WorkerRefused, WorkerWithdraw, WorkerFail
  <2>2. \/ cause' = "parent" \/ (\E k : cause' = Refusal(k))
        \/ WorkerWithdraw /\ ~CtxDone /\ cause' = "reply"
    BY <1>1, <1>2, <2>1, Zenon
  <2>3. QED
    BY <1>0, <1>3, <2>2, Zenon
<1>11. CASE ReceiverNext
  <2>1. \/ RouteFails("protocol") \/ RouteFails("limit") \/ RouteFails("remote")
        \/ RouteFails("eof") \/ RouteFails("receive") \/ RouteFails(CloseCause)
    BY <1>4, <1>11, Zenon DEF ReceiverNext, ReceiveGlobalRequest, ReceiveGlobalResult,
       ReceiveChannelResult, ReceiveChannelRequest, ReceiveData, ReceiveChannelEOF,
       ReceiveCloseAnswer, ReceiveChannelClose, ReceiveEnd, ReceiveFails, RouteDone
  <2>2. \/ RouteFails("protocol") /\ cause' = "protocol"
        \/ cause' \in {"limit", "remote", "eof", "receive", "parent"}
    BY <1>1, <1>2, <2>1, Zenon DEF RouteFails
  <2>3. QED
    BY <1>0, <1>11, <2>2
<1>12. QED
  BY <1>5, <1>6, <1>7, <1>8, <1>9, <1>10, <1>11, Zenon DEF Next

\* A reply fails in a live session only when the channel was closed here, or
\* Recv reported its end.
LEMMA ReplyReason ==
  ASSUME Types, EndInv, down = "no", WorkerWithdraw, ~CtxDone
  PROVE  hist.closedHere \/ hist.recvEnded
<1>1. ch.canceled /\ worker.at = "queued"
  BY Zenon DEF WorkerWithdraw, ChDone
<1>2. ~hist.onClose
  BY <1>1 DEF EndInv, EndShape
<1>3. QED
  BY <1>1, <1>2, Zenon DEF EndInv, EndLive

\* A frame the receiver cannot route, when nobody gave up and the channel was
\* not closed here, was overtaken by the peer's close or EOF.
LEMMA ProtocolReason ==
  ASSUME Types, EndInv, OrderInv, PendingInv, ReceiverNext, RouteFails("protocol"),
         down = "no", cause' = "protocol", cause' # cause
  PROVE  hist.gaveUp # {} \/ hist.closedHere \/ hist.overtaken
<1> SUFFICES ASSUME hist.gaveUp = {}, ~hist.closedHere, ~hist.overtaken
             PROVE  FALSE
  BY Zenon
<1>0. /\ PeerType /\ wire \in Seq(PeerFrames) /\ pendingGlobal \subseteq GlobalCallers
      /\ ch \in ChannelType
  BY Zenon DEF Types, PeerType, CallType
<1>1. /\ ch.state \in {"open", "remoteEOF", "closed"}
      /\ ch.inTable <=> ch.state \in allowsRequests
      /\ Ordered(wire, ch.state, env.ended)
  BY Zenon DEF OrderInv
<1>2. ASSUME NEW err, RouteFails(err)
      PROVE  err = "protocol"
  BY <1>2 DEF RouteFails, Begin
<1>3. ~RouteDone
  BY Zenon DEF RouteDone, lifeVars
<1>4. ASSUME NEW kind, Receives(kind)
      PROVE  /\ Head(wire) \in PeerFrames /\ Head(wire).kind = kind
             /\ 1 \in DOMAIN wire /\ Head(wire) = wire[1]
  BY <1>0, <1>4, HeadOfWire, TailIs, Zenon
<1>5. ASSUME NEW kind, Receives(kind)
      PROVE  /\ kind \in {"data", "eof"} => ch.state = "open"
             /\ kind \in {"channelRequest", "close", "channelResult"} =>
                   ch.state \in allowsRequests
  BY <1>1, <1>4, <1>5 DEF Ordered
<1>6. ch.state \in allowsRequests => InTable
  BY <1>1, Zenon DEF InTable
<1>7. "open" \in allowsRequests /\ "closing" \notin allowsRequests
  BY DEF allowsRequests
<1>8. ASSUME NEW kind \in ResultKinds, Receives(kind)
      PROVE  Head(wire).id \in Pending
  <2>1. Head(wire).id \in Callers
    BY <1>4, <1>8, FramesToQueues, Zenon
  <2>2. Answer(Head(wire).id, wire[1])
    BY <1>4, <1>8, Zenon DEF Answer
  <2>3. OnWire(Head(wire).id, wire)
    BY <1>4, <1>8, <2>2, Zenon DEF OnWire
  <2>4. QED
    BY <2>1, <2>3, Zenon DEF PendingInv, Expects
<1>9. "globalResult" \in ResultKinds /\ "channelResult" \in ResultKinds
  BY DEF ResultKinds
<1>10. CASE ReceiveGlobalResult
  <2>1. Receives("globalResult") /\ Head(wire).id \notin pendingGlobal
    BY <1>3, <1>10, Zenon DEF ReceiveGlobalResult
  <2>2. Head(wire).id \in GlobalCallers
    BY <1>4, <2>1 DEF PeerFrames
  <2>3. Head(wire).id \in pendingGlobal \cup ch.pending
    BY <1>8, <1>9, <2>1, Zenon DEF Pending
  <2>4. ch.pending \subseteq ChannelCallers
    BY <1>0 DEF ChannelType
  <2>5. QED
    BY <2>1, <2>2, <2>3, <2>4, CoreAssumption
<1>11. CASE ReceiveChannelResult
  <2>1. Receives("channelResult") /\ (~InTable \/ Head(wire).id \notin ch.pending)
    BY <1>3, <1>11, Zenon DEF ReceiveChannelResult
  <2>2. Head(wire).id \in ChannelCallers
    BY <1>4, <2>1 DEF PeerFrames
  <2>3. Head(wire).id \in pendingGlobal \cup ch.pending
    BY <1>8, <1>9, <2>1, Zenon DEF Pending
  <2>4. InTable
    BY <1>5, <1>6, <2>1
  <2>5. QED
    BY <1>0, <2>1, <2>2, <2>3, <2>4, CoreAssumption
<1>12. CASE ReceiveChannelRequest
  <2>1. Receives("channelRequest")
    BY <1>12, Zenon DEF ReceiveChannelRequest
  <2>2. InTable /\ ch.state \in allowsRequests
    BY <1>5, <1>6, <2>1
  <2>3. RouteFails("limit")
    BY <1>3, <1>12, <2>2, Zenon DEF ReceiveChannelRequest
  <2>4. QED
    BY <1>2, <2>3
<1>13. CASE ReceiveData
  <2>1. Receives("data")
    BY <1>13, Zenon DEF ReceiveData
  <2>2. InTable /\ ch.state = "open"
    BY <1>5, <1>6, <1>7, <2>1
  <2>3. RouteFails("limit")
    BY <1>3, <1>13, <2>2, Zenon DEF ReceiveData
  <2>4. QED
    BY <1>2, <2>3
<1>14. CASE ReceiveChannelEOF
  <2>1. Receives("eof")
    BY <1>14, Zenon DEF ReceiveChannelEOF
  <2>2. InTable /\ ch.state = "open"
    BY <1>5, <1>6, <1>7, <2>1
  <2>3. RouteFails("limit")
    BY <1>3, <1>14, <2>2, Zenon DEF ReceiveChannelEOF
  <2>4. QED
    BY <1>2, <2>3
<1>15. CASE ReceiveChannelClose
  <2>1. Receives("close")
    BY <1>15, Zenon DEF ReceiveChannelClose
  <2>2. InTable /\ ch.state \in allowsRequests
    BY <1>5, <1>6, <2>1
  <2>3. RouteFails("limit")
    BY <1>3, <1>15, <2>2, Zenon DEF ReceiveChannelClose
  <2>4. QED
    BY <1>2, <2>3
<1>16. CASE ReceiveCloseAnswer
  BY <1>3, <1>16, Zenon DEF ReceiveCloseAnswer
<1>17. CASE ReceiveGlobalRequest
  <2>1. RouteFails("limit")
    BY <1>3, <1>17, Zenon DEF ReceiveGlobalRequest
  <2>2. QED
    BY <1>2, <2>1
<1>18. CASE ReceiveEnd
  <2>1. RouteFails("remote") \/ RouteFails("eof")
    BY <1>18, Zenon DEF ReceiveEnd
  <2>2. QED
    BY <1>2, <2>1
<1>19. CASE ReceiveFails
  <2>1. RouteFails(IF CtxDone THEN CloseCause ELSE "receive")
    BY <1>19, Zenon DEF ReceiveFails
  <2>2. CloseCause = "parent"
    BY DEF CloseCause, Types, LifeInv
  <2>3. RouteFails("parent") \/ RouteFails("receive")
    BY <2>1, <2>2, Zenon
  <2>4. QED
    BY <1>2, <2>3
<1>20. QED
  BY <1>10, <1>11, <1>12, <1>13, <1>14, <1>15, <1>16, <1>17, <1>18, <1>19, Zenon DEF ReceiverNext

LEMMA ReasonStep ==
  ASSUME Types, EndInv, OrderInv, PendingInv, EndHasReason, Next
  PROVE  EndHasReason'
<1>1. /\ hist.gaveUp # {} => hist'.gaveUp # {}
      /\ hist.overtaken => hist'.overtaken
  BY HistStays
<1>2. hist.closedHere => hist'.closedHere
  <2>1. hist \in HistType /\ ch \in ChannelType
    BY Zenon DEF Types, PeerType
  <2>2. CASE ChannelClose
    BY <2>1, <2>2, HistChannel, Zenon DEF HistIs, IsHist
  <2>3. CASE ~ChannelClose
    BY <2>3, HistStays, Zenon
  <2>4. QED
    BY <2>2, <2>3
<1>3. hist.recvEnded => hist'.recvEnded
  <2>1. hist \in HistType /\ ch \in ChannelType
    BY Zenon DEF Types, PeerType
  <2>2. CASE RecvEnd
    BY <2>1, <2>2, HistChannel, Zenon DEF HistIs, IsHist
  <2>3. CASE ~RecvEnd
    BY <2>3, HistStays, Zenon
  <2>4. QED
    BY <2>2, <2>3
<1>4. CASE cause' = cause
  BY <1>1, <1>2, <1>3, <1>4, Zenon DEF EndHasReason
<1>5. CASE cause' # cause
  <2>1. /\ down = "no"
        /\ cause' \in {"protocol", "reply"} =>
              \/ cause' = "reply" /\ WorkerWithdraw /\ ~CtxDone
              \/ cause' = "protocol" /\ RouteFails("protocol") /\ ReceiverNext
    BY <1>5, OtherCauses, Zenon
  <2>2. cause' = "protocol" => hist.gaveUp # {} \/ hist.closedHere \/ hist.overtaken
    BY <1>5, <2>1, ProtocolReason
  <2>3. cause' = "reply" => hist.closedHere \/ hist.recvEnded
    BY <2>1, ReplyReason
  <2>4. QED
    BY <1>1, <1>2, <1>3, <2>2, <2>3, Zenon DEF EndHasReason
<1>6. QED
  BY <1>4, <1>5

\* What the reasons need to know of the frames and answers to come.
RouteInv == CallsInv /\ OrderInv /\ PendingInv /\ EndHasReason

LEMMA RouteStep ==
  ASSUME Types, EndInv, RouteInv, [Next]_vars
  PROVE  RouteInv'
<1>0. CallsInv /\ OrderInv /\ PendingInv /\ EndHasReason
  BY Zenon DEF RouteInv
<1>1. CallsInv'
  BY <1>0, CallsStep, Zenon
<1>2. CASE Next
  BY <1>0, <1>1, <1>2, OrderStep, PendingStep, ReasonStep, Zenon DEF RouteInv
<1>3. CASE UNCHANGED vars
  <2>1. UNCHANGED <<down, cause, ch, wire, env, hist, call, writer, outbound, pendingGlobal>>
    BY <1>3, Zenon DEF vars, lifeVars, budgetVars, loopVars, callVars
  <2>2. OrderInv'
    BY <1>0, <2>1, Zenon DEF OrderInv
  <2>3. PendingInv'
    BY <1>0, <2>1 DEF PendingInv, Expects, Asks, Pending
  <2>4. EndHasReason'
    BY <1>0, <2>1, Zenon DEF EndHasReason
  <2>5. QED
    BY <1>1, <2>2, <2>3, <2>4, Zenon DEF RouteInv
<1>4. QED
  BY <1>2, <1>3

(***************************************************************************)
(* Between honest peers a protocol error ends the session only after a     *)
(* caller gave up an answer that was to come, after the channel was closed *)
(* here, or when the peer's close has overtaken an answer; and a failed    *)
(* reply only after the channel was closed here or Recv reported its end   *)
(* (handleGlobalResult, handleChannelResult, handleRequest).               *)
(***************************************************************************)
THEOREM SessionEndsWithReason == Spec => []EndHasReason
<1>1. Init => RouteInv
  <2> SUFFICES ASSUME Init PROVE RouteInv
    OBVIOUS
  <2>1. cause = None
    BY DEF Init
  <2>2. EndHasReason
    BY <2>1 DEF EndHasReason, None
  <2>3. QED
    BY <2>2, CallsInit, OrderInit, PendingInit, Zenon DEF RouteInv
<1>2. TypedBudget /\ EndInv /\ RouteInv /\ [Next]_vars => RouteInv'
  BY RouteStep, Zenon DEF TypedBudget
<1>3. RouteInv => EndHasReason
  BY Zenon DEF RouteInv
<1>4. QED
  BY <1>1, <1>2, <1>3, Typed, Ends, PTL DEF Spec

-----------------------------------------------------------------------------
(* The ids of the peer's requests: SessionIds!IncomingInv is inductive.    *)

\* The ids Z, and that of one more such frame.
More(Z, m, kind, asks) == Z \cup Handled(Marks(m, kind, asks), m.id)

LEMMA SeqTail ==
  ASSUME NEW T, NEW q \in Seq(T), q # <<>>
  PROVE  /\ 1 \in DOMAIN q /\ Head(q) = q[1] /\ Tail(q) \in Seq(T)
         /\ \A i \in DOMAIN Tail(q) : i + 1 \in DOMAIN q /\ i + 1 # 1 /\ Tail(q)[i] = q[i + 1]
         /\ \A i \in DOMAIN q : i = 1 \/ (i - 1 \in DOMAIN Tail(q) /\ Tail(q)[i - 1] = q[i])
         /\ \A i, j \in DOMAIN Tail(q) : i + 1 = j + 1 => i = j
OBVIOUS

LEMMA IdsAppend ==
  ASSUME NEW T, NEW q \in Seq(T), NEW m \in T, NEW kind, NEW asks
  PROVE  Ids(Append(q, m), kind, asks)
            = More(Ids(q, kind, asks), m, kind, asks)
<1> DEFINE n == Len(q) + 1
           r == Append(q, m)
<1>1. /\ DOMAIN r = DOMAIN q \cup {n} /\ n \notin DOMAIN q /\ r[n] = m
      /\ \A i \in DOMAIN q : r[i] = q[i]
  OBVIOUS
<1> HIDE DEF n, r
<1>2. Ids(r, kind, asks) = More(Ids(q, kind, asks), m, kind, asks)
  BY <1>1 DEF Ids, More, Handled
<1>3. QED
  BY <1>2, Zenon DEF r

LEMMA OnceAppend ==
  ASSUME NEW T, NEW q \in Seq(T), NEW m \in T, NEW kind, NEW asks, Once(q, kind, asks),
         Marks(m, kind, asks) => m.id \notin Ids(q, kind, asks)
  PROVE  Once(Append(q, m), kind, asks)
<1> DEFINE n == Len(q) + 1
           r == Append(q, m)
<1>1. /\ DOMAIN r = DOMAIN q \cup {n} /\ n \notin DOMAIN q /\ r[n] = m
      /\ \A i \in DOMAIN q : r[i] = q[i]
  OBVIOUS
<1> HIDE DEF n, r
<1>2. Once(r, kind, asks)
  BY <1>1 DEF Ids, Once
<1>3. QED
  BY <1>2, Zenon DEF r

LEMMA IdsTail ==
  ASSUME NEW T, NEW q \in Seq(T), q # <<>>, NEW kind, NEW asks
  PROVE  /\ Ids(q, kind, asks)
               = More(Ids(Tail(q), kind, asks), Head(q), kind, asks)
         /\ Once(q, kind, asks) =>
               /\ Once(Tail(q), kind, asks)
               /\ Marks(Head(q), kind, asks) => Head(q).id \notin Ids(Tail(q), kind, asks)
<1> DEFINE r == Tail(q)
           m == Head(q)
<1>1. /\ 1 \in DOMAIN q /\ m = q[1]
      /\ \A i \in DOMAIN r : i + 1 \in DOMAIN q /\ i + 1 # 1 /\ r[i] = q[i + 1]
      /\ \A i \in DOMAIN q : i = 1 \/ (i - 1 \in DOMAIN r /\ r[i - 1] = q[i])
      /\ \A i, j \in DOMAIN r : i + 1 = j + 1 => i = j
  BY SeqTail, Zenon
<1> HIDE DEF m, r
<1>2. Ids(q, kind, asks) = More(Ids(r, kind, asks), m, kind, asks)
  BY <1>1 DEF Ids, More, Handled
<1>3. ASSUME Once(q, kind, asks)
      PROVE  /\ Once(r, kind, asks)
             /\ Marks(m, kind, asks) => m.id \notin Ids(r, kind, asks)
  BY <1>1, <1>3 DEF Ids, Once
<1>4. QED
  BY <1>2, <1>3, Zenon DEF r, m

\* The first request on the wire is queued, or rejected.
LEMMA AccountReceived ==
  ASSUME NEW S, NEW T, NEW Q \in Seq(T), NEW H, NEW at, NEW C \in Seq(ControlWrites), NEW w,
         NEW O, NEW R \in Seq(PeerFrames), NEW n, NEW ask, NEW res, NEW who,
         Account(S, Q, H, at, C, w, O, R, n, ask, res, who),
         R # <<>>, Head(R) \in T, NEW x \in ControlWrites
  PROVE  Head(R).kind = ask /\ x.kind = res /\ x.id = Head(R).id =>
         /\ Account(IF Head(R).reply THEN S \cup {Head(R).id} ELSE S, Append(Q, Head(R)), H,
                    at, C, w, O, Tail(R), n, ask, res, who)
         /\ Head(R).reply =>
               Account(S \cup {Head(R).id}, Q, H, at, Append(C, x), w, O, Tail(R), n,
                       ask, res, who)
<1> DEFINE m == Head(R)
           A == Ids(Q, ask, TRUE)
           B == Ids(C, res, FALSE)
           V == Rejected(res, who, w)
           P == Ids(R, ask, TRUE)
           P2 == Ids(Tail(R), ask, TRUE)
<1>0. /\ Once(R, ask, TRUE) /\ Once(Q, ask, TRUE) /\ Once(C, res, FALSE)
      /\ OneReply(who, H, at, w, O) /\ Apart(S, A, H, B, V, P, n)
  BY Zenon DEF Account
<1>1. P = More(P2, m, ask, TRUE) /\ Once(Tail(R), ask, TRUE)
      /\ (Marks(m, ask, TRUE) => m.id \notin P2)
  BY <1>0, IdsTail, Zenon
<1>2. /\ Ids(Append(Q, m), ask, TRUE) = More(A, m, ask, TRUE)
      /\ (Marks(m, ask, TRUE) => m.id \notin A) => Once(Append(Q, m), ask, TRUE)
  <2>1. Ids(Append(Q, m), ask, TRUE) = More(A, m, ask, TRUE)
    BY IdsAppend, Zenon
  <2>2. ASSUME Marks(m, ask, TRUE) => m.id \notin A
        PROVE  Once(Append(Q, m), ask, TRUE)
    BY <1>0, <2>2, OnceAppend, Zenon
  <2>3. QED
    BY <2>1, <2>2, Zenon
<1>3. /\ Ids(Append(C, x), res, FALSE) = More(B, x, res, FALSE)
      /\ (Marks(x, res, FALSE) => x.id \notin B) => Once(Append(C, x), res, FALSE)
  <2>1. Ids(Append(C, x), res, FALSE) = More(B, x, res, FALSE)
    BY IdsAppend, Zenon
  <2>2. ASSUME Marks(x, res, FALSE) => x.id \notin B
        PROVE  Once(Append(C, x), res, FALSE)
    BY <1>0, <2>2, OnceAppend, Zenon
  <2>3. QED
    BY <2>1, <2>2, Zenon
<1> SUFFICES ASSUME m.kind = ask, x.kind = res, x.id = m.id
             PROVE  /\ Account(IF m.reply THEN S \cup {m.id} ELSE S, Append(Q, m), H, at, C, w,
                               O, Tail(R), n, ask, res, who)
                    /\ m.reply => Account(S \cup {m.id}, Q, H, at, Append(C, x), w, O,
                                          Tail(R), n, ask, res, who)
  BY Zenon
<1>4. Marks(x, res, FALSE) /\ (Marks(m, ask, TRUE) <=> m.reply)
  BY Zenon DEF Marks
<1> HIDE DEF m, A, B, V, P, P2
<1>5. CASE m.reply
  <2>1. P = P2 \cup {m.id} /\ m.id \notin P2
    BY <1>1, <1>4, <1>5, Zenon DEF More, Handled
  <2>2. Apart(S \cup {m.id}, A \cup {m.id}, H, B, V, P2, n)
        /\ Apart(S \cup {m.id}, A, H, B \cup {m.id}, V, P2, n)
        /\ m.id \notin A /\ m.id \notin B
    BY <1>0, <2>1 DEF Apart
  <2>3. Account(S \cup {m.id}, Append(Q, m), H, at, C, w, O, Tail(R), n, ask, res, who)
    <3>1. Ids(Append(Q, m), ask, TRUE) = A \cup {m.id} /\ Once(Append(Q, m), ask, TRUE)
      BY <1>2, <1>4, <1>5, <2>2, Zenon DEF More, Handled
    <3>2. QED
      BY <1>0, <1>1, <2>2, <3>1, Zenon DEF Account, A, B, V, P2
  <2>4. Account(S \cup {m.id}, Q, H, at, Append(C, x), w, O, Tail(R), n, ask, res, who)
    <3>1. Ids(Append(C, x), res, FALSE) = B \cup {m.id} /\ Once(Append(C, x), res, FALSE)
      BY <1>3, <1>4, <1>5, <2>2, Zenon DEF More, Handled, m
    <3>2. QED
      BY <1>0, <1>1, <2>2, <3>1, Zenon DEF Account, A, B, V, P2
  <2>5. QED
    BY <1>5, <2>3, <2>4, Zenon DEF m
<1>6. CASE ~m.reply
  <2>1. P = P2 /\ Ids(Append(Q, m), ask, TRUE) = A
    BY <1>1, <1>2, <1>4, <1>6 DEF More, Handled
  <2>2. Once(Append(Q, m), ask, TRUE)
    BY <1>2, <1>4, <1>6, Zenon
  <2>3. Account(S, Append(Q, m), H, at, C, w, O, Tail(R), n, ask, res, who)
    BY <1>0, <1>1, <2>1, <2>2, Zenon DEF Account, A, B, V, P2
  <2>4. QED
    BY <1>6, <2>3, Zenon DEF m
<1>7. QED
  BY <1>5, <1>6

\* Frames, events and writes that are no concern of these requests.
LEMMA AccountOthers ==
  ASSUME NEW S, NEW T, NEW Q \in Seq(T), NEW H, NEW at, NEW C \in Seq(ControlWrites), NEW w,
         NEW O, NEW R \in Seq(PeerFrames), NEW n, NEW ask, NEW res, NEW who,
         Account(S, Q, H, at, C, w, O, R, n, ask, res, who)
  PROVE  /\ R # <<>> /\ Head(R).kind # ask =>
               Account(S, Q, H, at, C, w, O, Tail(R), n, ask, res, who)
         /\ \A m \in T : m.kind # ask =>
               Account(S, Append(Q, m), H, at, C, w, O, R, n, ask, res, who)
         /\ \A x \in ControlWrites : x.kind # res =>
               Account(S, Q, H, at, Append(C, x), w, O, R, n, ask, res, who)
         /\ \A m \in PeerFrames : m.kind # ask =>
               Account(S, Q, H, at, C, w, O, Append(R, m), n, ask, res, who)
<1>0. /\ Once(R, ask, TRUE) /\ Once(Q, ask, TRUE) /\ Once(C, res, FALSE)
      /\ OneReply(who, H, at, w, O)
      /\ Apart(S, Ids(Q, ask, TRUE), H, Ids(C, res, FALSE), Rejected(res, who, w),
               Ids(R, ask, TRUE), n)
  BY Zenon DEF Account
<1>1. \A Z, m : m.kind # ask => More(Z, m, ask, TRUE) = Z
  BY DEF Marks, More, Handled
<1>2. \A Z, m : m.kind # res => More(Z, m, res, FALSE) = Z
  BY DEF Marks, More, Handled
<1>3. ASSUME R # <<>>, Head(R).kind # ask
      PROVE  Account(S, Q, H, at, C, w, O, Tail(R), n, ask, res, who)
  <2>1. Ids(R, ask, TRUE)
           = More(Ids(Tail(R), ask, TRUE), Head(R), ask, TRUE)
        /\ Once(Tail(R), ask, TRUE)
    BY <1>0, <1>3, IdsTail, Zenon
  <2>2. Ids(R, ask, TRUE) = Ids(Tail(R), ask, TRUE)
    BY <1>1, <1>3, <2>1, Zenon
  <2>3. QED
    BY <1>0, <2>1, <2>2, Zenon DEF Account
<1>4. ASSUME NEW m \in T, m.kind # ask
      PROVE  Account(S, Append(Q, m), H, at, C, w, O, R, n, ask, res, who)
  <2>0. ~Marks(m, ask, TRUE)
    BY <1>4 DEF Marks
  <2>1. Ids(Append(Q, m), ask, TRUE)
           = More(Ids(Q, ask, TRUE), m, ask, TRUE)
        /\ Once(Append(Q, m), ask, TRUE)
    BY <1>0, <2>0, IdsAppend, OnceAppend, Zenon
  <2>2. Ids(Append(Q, m), ask, TRUE) = Ids(Q, ask, TRUE)
    BY <1>1, <1>4, <2>1, Zenon
  <2>3. QED
    BY <1>0, <2>1, <2>2, Zenon DEF Account
<1>5. ASSUME NEW x \in ControlWrites, x.kind # res
      PROVE  Account(S, Q, H, at, Append(C, x), w, O, R, n, ask, res, who)
  <2>0. ~Marks(x, res, FALSE)
    BY <1>5 DEF Marks
  <2>1. Ids(Append(C, x), res, FALSE)
           = More(Ids(C, res, FALSE), x, res, FALSE)
        /\ Once(Append(C, x), res, FALSE)
    BY <1>0, <2>0, IdsAppend, OnceAppend, Zenon
  <2>2. Ids(Append(C, x), res, FALSE) = Ids(C, res, FALSE)
    BY <1>2, <1>5, <2>1, Zenon
  <2>3. QED
    BY <1>0, <2>1, <2>2, Zenon DEF Account
<1>6. ASSUME NEW m \in PeerFrames, m.kind # ask
      PROVE  Account(S, Q, H, at, C, w, O, Append(R, m), n, ask, res, who)
  <2>0. ~Marks(m, ask, TRUE)
    BY <1>6 DEF Marks
  <2>1. Ids(Append(R, m), ask, TRUE)
           = More(Ids(R, ask, TRUE), m, ask, TRUE)
        /\ Once(Append(R, m), ask, TRUE)
    BY <1>0, <2>0, IdsAppend, OnceAppend, Zenon
  <2>2. Ids(Append(R, m), ask, TRUE) = Ids(R, ask, TRUE)
    BY <1>1, <1>6, <2>1, Zenon
  <2>3. QED
    BY <1>0, <2>1, <2>2, Zenon DEF Account
<1>7. QED
  BY <1>3, <1>4, <1>5, <1>6, Zenon

\* The peer counts on, and sends a request with its new number.
LEMMA AccountSent ==
  ASSUME NEW S, NEW Q, NEW H, NEW at, NEW C, NEW w, NEW O, NEW R \in Seq(PeerFrames),
         NEW n \in Nat, NEW ask, NEW res, NEW who,
         Account(S, Q, H, at, C, w, O, R, n, ask, res, who),
         NEW m \in PeerFrames, m.kind = ask => m.id = n + 1
  PROVE  Account(S, Q, H, at, C, w, O, Append(R, m), n + 1, ask, res, who)
<1> DEFINE A == Ids(Q, ask, TRUE)
           B == Ids(C, res, FALSE)
           V == Rejected(res, who, w)
           P == Ids(R, ask, TRUE)
<1>0. /\ Once(R, ask, TRUE) /\ Once(Q, ask, TRUE) /\ Once(C, res, FALSE)
      /\ OneReply(who, H, at, w, O) /\ Apart(S, A, H, B, V, P, n)
  BY Zenon DEF Account
<1>1. /\ Ids(Append(R, m), ask, TRUE) = More(P, m, ask, TRUE)
      /\ (Marks(m, ask, TRUE) => m.id \notin P) => Once(Append(R, m), ask, TRUE)
  BY <1>0, IdsAppend, OnceAppend, Zenon
<1>2. Marks(m, ask, TRUE) => m.id = n + 1
  BY Zenon DEF Marks
<1> HIDE DEF A, B, V, P
<1>3. n + 1 \notin P /\ Apart(S, A, H, B, V, P, n + 1)
      /\ Apart(S, A, H, B, V, P \cup {n + 1}, n + 1)
  BY <1>0 DEF Apart
<1>4. Apart(S, A, H, B, V, Ids(Append(R, m), ask, TRUE), n + 1)
  BY <1>1, <1>2, <1>3 DEF More, Handled
<1>5. Once(Append(R, m), ask, TRUE)
  BY <1>1, <1>2, <1>3, Zenon
<1>6. QED
  BY <1>0, <1>4, <1>5, Zenon DEF Account, A, B, V, P

\* A goroutine that is free takes the first of its queue.
LEMMA AccountTaken ==
  ASSUME NEW S, NEW T, NEW Q \in Seq(T), NEW at, NEW C, NEW w, NEW O, NEW R, NEW n,
         NEW ask, NEW res, NEW who, Account(S, Q, {}, at, C, w, O, R, n, ask, res, who),
         Q # <<>>, NEW to
  PROVE  (Head(Q).reply => Head(Q).kind = ask) =>
         Account(S, Tail(Q), Handled(Head(Q).reply, Head(Q).id), to, C, w, O, R, n,
                 ask, res, who)
<1> DEFINE m == Head(Q)
           A == Ids(Q, ask, TRUE)
           A2 == Ids(Tail(Q), ask, TRUE)
           B == Ids(C, res, FALSE)
           V == Rejected(res, who, w)
           P == Ids(R, ask, TRUE)
<1>0. /\ Once(R, ask, TRUE) /\ Once(Q, ask, TRUE) /\ Once(C, res, FALSE)
      /\ OneReply(who, {}, at, w, O) /\ Apart(S, A, {}, B, V, P, n)
  BY Zenon DEF Account
<1>1. A = More(A2, m, ask, TRUE) /\ Once(Tail(Q), ask, TRUE)
      /\ (Marks(m, ask, TRUE) => m.id \notin A2)
  BY <1>0, IdsTail, Zenon
<1> SUFFICES ASSUME m.reply => m.kind = ask
             PROVE  Account(S, Tail(Q), Handled(m.reply, m.id), to, C, w, O, R, n,
                            ask, res, who)
  BY Zenon
<1>2. Marks(m, ask, TRUE) <=> m.reply
  BY Zenon DEF Marks
<1> HIDE DEF m, A, A2, B, V, P
<1>3. OneReply(who, Handled(m.reply, m.id), to, w, O)
  <2>1. \A x : {} # {x}
    OBVIOUS
  <2>2. QED
    BY <1>0, <2>1, Zenon DEF OneReply
<1>4. Apart(S, A2, Handled(m.reply, m.id), B, V, P, n)
  BY <1>0, <1>1, <1>2 DEF Apart, More, Handled
<1>5. QED
  BY <1>0, <1>1, <1>3, <1>4, Zenon DEF Account, A2, B, V, P

\* It moves between places in which no reply of its is queued.
LEMMA AccountMoved ==
  ASSUME NEW S, NEW Q, NEW H, NEW at, NEW C, NEW w, NEW O, NEW R, NEW n,
         NEW ask, NEW res, NEW who, Account(S, Q, H, at, C, w, O, R, n, ask, res, who),
         at # "queued", NEW to
  PROVE  Account(S, Q, H, to, C, w, O, R, n, ask, res, who)
BY Zenon DEF Account, OneReply

\* It queues its reply.
LEMMA AccountReplied ==
  ASSUME NEW S, NEW Q, NEW H, NEW at, NEW C, NEW w, NEW O \in Seq(OutWrites), NEW R, NEW n,
         NEW ask, NEW res, NEW who, Account(S, Q, H, at, C, w, O, R, n, ask, res, who),
         at # "queued", NEW x \in OutWrites, H = {x.id}, ~x.canceled
  PROVE  Account(S, Q, H, "queued", C, w, Append(O, x), R, n, ask, res, who)
<1> DEFINE r == Append(O, x)
           l == Len(O) + 1
<1>1. /\ DOMAIN r = DOMAIN O \cup {l} /\ l \notin DOMAIN O /\ r[l] = x
      /\ \A i \in DOMAIN O : r[i] = O[i]
  OBVIOUS
<1> HIDE DEF r, l
<1>2. OneReply(who, H, at, w, O)
  BY Zenon DEF Account
<1>3. w.waits # who /\ (\A i \in DOMAIN O : O[i].waits # who)
  BY <1>2, Zenon DEF OneReply
<1>4. \A i \in DOMAIN r : r[i].waits = who => i = l /\ r[i] = x
  <2> SUFFICES ASSUME NEW i \in DOMAIN r, r[i].waits = who, i # l PROVE FALSE
    BY <1>1, Zenon
  <2>1. i \in DOMAIN O /\ r[i] = O[i]
    BY <1>1, Zenon
  <2>2. QED
    BY <1>3, <2>1, Zenon
<1>6. OneReply(who, H, "queued", w, r)
  BY <1>3, <1>4, Zenon DEF OneReply
<1>7. QED
  BY <1>6, Zenon DEF Account, r

\* Others queue their writes, or take them back.
LEMMA AccountQueued ==
  ASSUME NEW S, NEW Q, NEW H, NEW at, NEW C, NEW w, NEW O \in Seq(OutWrites), NEW R, NEW n,
         NEW ask, NEW res, NEW who, Account(S, Q, H, at, C, w, O, R, n, ask, res, who),
         NEW x \in OutWrites, x.waits # who
  PROVE  Account(S, Q, H, at, C, w, Append(O, x), R, n, ask, res, who)
<1> DEFINE r == Append(O, x)
           l == Len(O) + 1
<1>1. /\ DOMAIN r = DOMAIN O \cup {l} /\ l \notin DOMAIN O /\ r[l] = x
      /\ \A i \in DOMAIN O : r[i] = O[i]
  OBVIOUS
<1> HIDE DEF r, l
<1>2. OneReply(who, H, at, w, O)
  BY Zenon DEF Account
<1>4. OneReply(who, H, at, w, r)
  BY <1>1, <1>2, Zenon DEF OneReply
<1>5. QED
  BY <1>4, Zenon DEF Account, r

LEMMA AccountWithdrawn ==
  ASSUME NEW S, NEW Q, NEW H, NEW at, NEW C, NEW w, outbound \in Seq(OutWrites), NEW R, NEW n,
         NEW ask, NEW res, NEW who, NEW c, c # who,
         Account(S, Q, H, at, C, w, outbound, R, n, ask, res, who)
  PROVE  Account(S, Q, H, at, C, w, Withdraw(c), R, n, ask, res, who)
<1> DEFINE r == Withdraw(c)
<1>1. /\ DOMAIN r = DOMAIN outbound
      /\ \A i \in DOMAIN outbound :
            /\ r[i].waits = outbound[i].waits /\ r[i].id = outbound[i].id
            /\ r[i].canceled <=> (outbound[i].canceled \/ outbound[i].waits = c)
  BY WithdrawType, Zenon
<1> HIDE DEF r
<1>2. OneReply(who, H, at, w, outbound)
  BY Zenon DEF Account
<1>3. /\ \A i \in DOMAIN r : r[i].waits = who =>
            at = "queued" /\ H = {r[i].id} /\ ~r[i].canceled /\ w.waits # who
      /\ \A i, j \in DOMAIN r : r[i].waits = who /\ r[j].waits = who => i = j
  BY <1>1, <1>2 DEF OneReply
<1>4. OneReply(who, H, at, w, r)
  BY <1>2, <1>3, Zenon DEF OneReply
<1>5. QED
  BY <1>4, Zenon DEF Account, r

\* The writer takes a rejection, or anything else of the control queue.
LEMMA AccountControl ==
  ASSUME NEW S, NEW Q, NEW H, NEW at, NEW C \in Seq(ControlWrites), NEW O, NEW R, NEW n,
         NEW ask, NEW res, NEW who,
         Account(S, Q, H, at, C, NoWrite, O, R, n, ask, res, who),
         C # <<>>, who # None, res # "disconnect"
  PROVE  Account(S, Q, H, at, Tail(C), Head(C), O, R, n, ask, res, who)
<1> DEFINE x == Head(C)
           A == Ids(Q, ask, TRUE)
           B == Ids(C, res, FALSE)
           B2 == Ids(Tail(C), res, FALSE)
           P == Ids(R, ask, TRUE)
<1>0. /\ Once(R, ask, TRUE) /\ Once(Q, ask, TRUE) /\ Once(C, res, FALSE)
      /\ OneReply(who, H, at, NoWrite, O)
      /\ Apart(S, A, H, B, Rejected(res, who, NoWrite), P, n)
  BY Zenon DEF Account
<1>1. B = More(B2, x, res, FALSE) /\ Once(Tail(C), res, FALSE)
      /\ (Marks(x, res, FALSE) => x.id \notin B2)
  BY <1>0, IdsTail, Zenon
<1>2. x \in ControlWrites
  OBVIOUS
<1>3. x.waits = None /\ NoWrite.waits = None /\ NoWrite.kind = "disconnect"
  BY <1>2, NoWriteType, Zenon DEF ControlWrites
<1> HIDE DEF x, A, B, B2, P
<1>4. OneReply(who, H, at, x, O)
  BY <1>0, <1>3, Zenon DEF OneReply
<1>5. Rejected(res, who, NoWrite) = {}
      /\ Rejected(res, who, x) = Handled(Marks(x, res, FALSE), x.id)
  BY <1>3 DEF Rejected, Handled, Marks
<1>6. Apart(S, A, H, B2, Rejected(res, who, x), P, n)
  BY <1>0, <1>1, <1>5 DEF Apart, More, Handled
<1>7. QED
  BY <1>0, <1>1, <1>4, <1>6, Zenon DEF Account, A, B2, P, x

\* The writer takes a reply, or a request of ours, or skips one.
LEMMA AccountOutbound ==
  ASSUME NEW S, NEW Q, NEW H, NEW at, NEW C, NEW O \in Seq(OutWrites), NEW R, NEW n,
         NEW ask, NEW res, NEW who,
         Account(S, Q, H, at, C, NoWrite, O, R, n, ask, res, who),
         O # <<>>, who # None, Head(O).kind = res => Head(O).waits = who,
         res # "disconnect"
  PROVE  /\ Account(S, Q, H, at, C, NoWrite, Tail(O), R, n, ask, res, who)
         /\ ~Head(O).canceled => Account(S, Q, H, at, C, Head(O), Tail(O), R, n, ask, res, who)
<1> DEFINE x == Head(O)
           r == Tail(O)
<1>1. /\ 1 \in DOMAIN O /\ x = O[1]
      /\ \A i \in DOMAIN r : i + 1 \in DOMAIN O /\ i + 1 # 1 /\ r[i] = O[i + 1]
      /\ \A i, j \in DOMAIN r : i + 1 = j + 1 => i = j
  BY SeqTail, Zenon
<1>2. NoWrite.waits = None /\ NoWrite.kind = "disconnect"
  BY NoWriteType, Zenon
<1>3. OneReply(who, H, at, NoWrite, O)
  BY Zenon DEF Account
<1> HIDE DEF x, r
<1>4. OneReply(who, H, at, NoWrite, r) /\ OneReply(who, H, at, x, r)
  BY <1>1, <1>2, <1>3, Zenon DEF OneReply
<1>5. Rejected(res, who, x) = {} /\ Rejected(res, who, NoWrite) = {}
  BY <1>2 DEF Rejected, Handled, x
<1>6. QED
  BY <1>4, <1>5, Zenon DEF Account, x, r

\* The write is done: the id of the answer is free again.
LEMMA AccountWritten ==
  ASSUME NEW S, NEW Q, NEW H, NEW at, NEW C, NEW w, NEW O, NEW R, NEW n,
         NEW ask, NEW res, NEW who, who # None, res # "disconnect",
         Account(S, Q, H, at, C, w, O, R, n, ask, res, who)
  PROVE  /\ w.kind = res /\ w.waits = who =>
               \A to : Account(S \ {w.id}, Q, {}, to, C, NoWrite, O, R, n, ask, res, who)
         /\ w.kind = res /\ w.waits # who =>
               Account(S \ {w.id}, Q, H, at, C, NoWrite, O, R, n, ask, res, who)
         /\ w.kind # res /\ w.waits # who =>
               Account(S, Q, H, at, C, NoWrite, O, R, n, ask, res, who)
<1> DEFINE A == Ids(Q, ask, TRUE)
           B == Ids(C, res, FALSE)
           V == Rejected(res, who, w)
           P == Ids(R, ask, TRUE)
<1>0. /\ Once(R, ask, TRUE) /\ Once(Q, ask, TRUE) /\ Once(C, res, FALSE)
      /\ OneReply(who, H, at, w, O) /\ Apart(S, A, H, B, V, P, n)
  BY Zenon DEF Account
<1>1. NoWrite.waits # who /\ Rejected(res, who, NoWrite) = {}
  BY NoWriteType DEF Rejected, Handled
<1> HIDE DEF A, B, V, P
<1>2. ASSUME w.kind = res, w.waits = who, NEW to
      PROVE  Account(S \ {w.id}, Q, {}, to, C, NoWrite, O, R, n, ask, res, who)
  <2>1. H = {w.id} /\ (\A i \in DOMAIN O : O[i].waits # who)
    BY <1>0, <1>2, Zenon DEF OneReply
  <2>2. OneReply(who, {}, to, NoWrite, O)
    BY <1>1, <2>1, Zenon DEF OneReply
  <2>3. V = {}
    BY <1>2 DEF V, Rejected, Handled
  <2>4. Apart(S \ {w.id}, A, {}, B, {}, P, n)
    BY <1>0, <2>1, <2>3 DEF Apart
  <2>5. QED
    BY <1>0, <1>1, <2>2, <2>4, Zenon DEF Account, A, B, P
<1>3. ASSUME w.waits # who
      PROVE  OneReply(who, H, at, NoWrite, O)
  BY <1>0, <1>1, <1>3, Zenon DEF OneReply
<1>4. ASSUME w.kind = res, w.waits # who
      PROVE  Account(S \ {w.id}, Q, H, at, C, NoWrite, O, R, n, ask, res, who)
  <2>1. V = {w.id}
    BY <1>4 DEF V, Rejected, Handled
  <2>2. Apart(S \ {w.id}, A, H, B, {}, P, n)
    BY <1>0, <2>1 DEF Apart
  <2>3. QED
    BY <1>0, <1>1, <1>3, <1>4, <2>2, Zenon DEF Account, A, B, P
<1>5. ASSUME w.kind # res, w.waits # who
      PROVE  Account(S, Q, H, at, C, NoWrite, O, R, n, ask, res, who)
  <2>1. V = {}
    BY <1>5 DEF V, Rejected, Handled
  <2>2. QED
    BY <1>0, <1>1, <1>3, <1>5, <2>1, Zenon DEF Account, A, B, P
<1>6. QED
  BY <1>2, <1>4, <1>5, Zenon

Accounts == GlobalAccount /\ ChannelAccount

LEMMA HandledIs == \A b, x : (b => Handled(b, x) = {x}) /\ (~b => Handled(b, x) = {})
BY DEF Handled

LEMMA FlowNames ==
  /\ "dispatcher" # None /\ "worker" # None /\ "globalResult" # "disconnect"
  /\ "channelResult" # "disconnect"
BY DEF None

LEMMA GlobalSame ==
  ASSUME GlobalAccount, UNCHANGED <<incomingGlobal, dispatchQueue, control, outbound, wire>>,
         writer'.msg = writer.msg, env'.sent = env.sent, GlobalHandled' = GlobalHandled,
         dispatcher'.at = dispatcher.at \/ dispatcher.at # "queued"
  PROVE  GlobalAccount'
<1>1. Account(incomingGlobal, dispatchQueue, GlobalHandled, dispatcher'.at, control,
              writer.msg, outbound, wire, env.sent, "globalRequest", "globalResult",
              "dispatcher")
  <2>1. CASE dispatcher'.at = dispatcher.at
    BY <2>1, Zenon DEF GlobalAccount
  <2>2. CASE dispatcher.at # "queued"
    BY <2>2, AccountMoved, Zenon DEF GlobalAccount
  <2>3. QED
    BY <2>1, <2>2
<1>2. QED
  BY <1>1, Zenon DEF GlobalAccount

LEMMA ChannelSame ==
  ASSUME ChannelAccount, UNCHANGED <<control, outbound, wire>>, ch'.incoming = ch.incoming,
         ch'.events = ch.events, writer'.msg = writer.msg, env'.sent = env.sent,
         ChannelHandled' = ChannelHandled,
         worker'.at = worker.at \/ worker.at # "queued"
  PROVE  ChannelAccount'
<1>1. Account(ch.incoming, ch.events, ChannelHandled, worker'.at, control, writer.msg,
              outbound, wire, env.sent, "channelRequest", "channelResult", "worker")
  <2>1. CASE worker'.at = worker.at
    BY <2>1, Zenon DEF ChannelAccount
  <2>2. CASE worker.at # "queued"
    BY <2>2, AccountMoved, Zenon DEF ChannelAccount
  <2>3. QED
    BY <2>1, <2>2
<1>2. QED
  BY <1>1, Zenon DEF ChannelAccount

LEMMA AccountsSame ==
  ASSUME Accounts, UNCHANGED <<incomingGlobal, dispatchQueue, dispatcher, worker, control,
                               outbound, wire, env>>,
         writer'.msg = writer.msg, ch'.incoming = ch.incoming, ch'.events = ch.events
  PROVE  Accounts'
<1>1. GlobalHandled' = GlobalHandled /\ ChannelHandled' = ChannelHandled
  BY Zenon DEF GlobalHandled, ChannelHandled
<1>2. QED
  BY <1>1, GlobalSame, ChannelSame, Zenon DEF Accounts

LEMMA BeginEnds ==
  ASSUME NEW err, Begin(err)
  PROVE  down' # "no"
BY DEF Begin, lifeVars

LEMMA AccountsShutdown ==
  ASSUME Types, Accounts, ShutdownNext, down' = "no"
  PROVE  Accounts'
<1>1. ParentCancel
  BY BeginEnds DEF ShutdownNext, ShutdownCancel, ShutdownFinish, FinalizeClose,
     DisconnectTimeout, FinalizeDone, SessionClose, ParentShutdown
<1>2. UNCHANGED <<incomingGlobal, dispatchQueue, dispatcher, worker, control,
                  outbound, wire, env, writer, ch>>
  BY <1>1, Zenon DEF ParentCancel, budgetVars, loopVars
<1>3. QED
  BY <1>2, AccountsSame, Zenon

LEMMA AccountsCall ==
  ASSUME Types, Accounts, CallNext
  PROVE  Accounts'
<1>0. ch \in ChannelType /\ outbound \in Seq(OutWrites)
  BY Zenon DEF Types, QueueType
<1>1. \A c \in Callers : c # "dispatcher" /\ c # "worker"
  BY CoreAssumption
<1>2. ASSUME NEW c \in GlobalCallers, NEW reply \in BOOLEAN, GlobalCall(c, reply)
      PROVE  Accounts'
  <2>1. UNCHANGED <<incomingGlobal, dispatchQueue, dispatcher, worker, control,
                    outbound, wire, env, writer, ch>>
    BY <1>2, Zenon DEF GlobalCall, budgetVars, loopVars
  <2>2. QED
    BY <2>1, AccountsSame, Zenon
<1>3. ASSUME NEW c \in ChannelCallers, NEW reply \in BOOLEAN, ChannelCall(c, reply)
      PROVE  Accounts'
  <2>1. UNCHANGED <<incomingGlobal, dispatchQueue, dispatcher, worker, control,
                    outbound, wire, env, writer>>
    BY <1>3, Zenon DEF ChannelCall, budgetVars, loopVars
  <2>2. ch'.incoming = ch.incoming /\ ch'.events = ch.events
    BY <1>0, <1>3, ChannelCallChannel, Zenon DEF IsChannel
  <2>3. QED
    BY <2>1, <2>2, AccountsSame, Zenon
<1>4. ASSUME NEW c \in Callers, CallRefused(c) \/ CallGiveUp(c)
      PROVE  Accounts'
  <2>1. /\ UNCHANGED <<incomingGlobal, dispatchQueue, dispatcher, worker, control,
                       outbound, wire, env, writer>>
        /\ Leave(c)
    BY <1>4, Zenon DEF CallRefused, CallGiveUp, budgetVars, loopVars
  <2>2. ch'.incoming = ch.incoming /\ ch'.events = ch.events
    BY <1>0, <2>1, LeaveChannel, Zenon DEF IsChannel
  <2>3. QED
    BY <2>1, <2>2, AccountsSame, Zenon
<1>5. ASSUME NEW c \in Callers, CallWithdraw(c)
      PROVE  Accounts'
  <2>1. /\ UNCHANGED <<incomingGlobal, dispatchQueue, dispatcher, worker, control,
                       wire, env, writer>>
        /\ outbound' = Withdraw(c) /\ Leave(c)
    BY <1>5, Zenon DEF CallWithdraw, loopVars
  <2>2. ch'.incoming = ch.incoming /\ ch'.events = ch.events
    BY <1>0, <2>1, LeaveChannel, Zenon DEF IsChannel
  <2>3. GlobalHandled' = GlobalHandled /\ ChannelHandled' = ChannelHandled
    BY <2>1, Zenon DEF GlobalHandled, ChannelHandled
  <2>4. GlobalAccount'
    BY <1>0, <1>1, <2>1, <2>3, AccountWithdrawn, Zenon DEF Accounts, GlobalAccount
  <2>5. ChannelAccount => ChannelAccount'
    BY <1>0, <1>1, <2>1, <2>2, <2>3, AccountWithdrawn, Zenon DEF ChannelAccount
  <2>6. QED
    BY <2>1, <2>4, <2>5, Zenon DEF Accounts
<1>6. ASSUME NEW c \in Callers, CallQueue(c)
      PROVE  Accounts'
  <2> DEFINE x == Write(RequestKind(c), c, call[c].reply, c)
  <2>1. /\ UNCHANGED <<incomingGlobal, dispatchQueue, dispatcher, worker, control,
                       wire, env, writer, ch>>
        /\ outbound' = Append(outbound, x)
    BY <1>6, Zenon DEF CallQueue, EnqueueOutbound, loopVars
  <2>2. call[c].reply \in BOOLEAN
    BY DEF Types, CallType
  <2>3. x \in OutWrites /\ x.waits = c
    BY <2>2, CallWriteType, Zenon
  <2> HIDE DEF x
  <2>4. GlobalHandled' = GlobalHandled /\ ChannelHandled' = ChannelHandled
    BY <2>1, Zenon DEF GlobalHandled, ChannelHandled
  <2>5. x.waits # "dispatcher" /\ x.waits # "worker"
    BY <1>1, <2>3, Zenon
  <2>6. GlobalAccount'
    BY <1>0, <2>1, <2>3, <2>4, <2>5, AccountQueued, Zenon DEF Accounts, GlobalAccount
  <2>7. ChannelAccount => ChannelAccount'
    BY <1>0, <2>1, <2>3, <2>4, <2>5, AccountQueued, Zenon DEF ChannelAccount
  <2>8. QED
    BY <2>1, <2>6, <2>7, Zenon DEF Accounts
<1>7. QED
  BY <1>2, <1>3, <1>4, <1>5, <1>6, Zenon DEF CallNext

LEMMA AccountsChannel ==
  ASSUME Types, Accounts, ChannelNext, down' = "no"
  PROVE  Accounts'
<1>0. ch \in ChannelType /\ control \in Seq(ControlWrites)
      /\ dispatchQueue \in Seq(Tasks) /\ wire \in Seq(PeerFrames)
  BY Zenon DEF Types, QueueType, PeerType
<1>1. CASE Recv \/ RecvEnd \/ ChannelClose \/ CloseTimeout
  <2>1. UNCHANGED <<incomingGlobal, dispatchQueue, dispatcher, worker, control,
                    outbound, wire, env, writer>>
    BY <1>1, Zenon DEF Recv, RecvEnd, ChannelClose, CloseTimeout, budgetVars, loopVars
  <2>2. ch'.incoming = ch.incoming /\ ch'.events = ch.events
    <3>1. CASE Recv \/ RecvEnd \/ ChannelClose
      BY <1>0, <3>1, RecvChannel, RecvEndChannel, ChannelCloseChannel, Zenon DEF IsChannel
    <3>2. CASE CloseTimeout /\ ch.state = "closing"
      BY <1>0, <3>2, CloseTimeoutChannel, Zenon DEF IsChannel
    <3>3. CASE CloseTimeout /\ ch.state # "closing"
      BY <3>3, Zenon DEF CloseTimeout
    <3>4. QED
      BY <1>1, <3>1, <3>2, <3>3
  <2>3. QED
    BY <2>1, <2>2, AccountsSame, Zenon
<1>2. CASE CloseQueue
  <2> DEFINE x == Write("close", 0, FALSE, None)
  <2>1. /\ UNCHANGED <<incomingGlobal, dispatchQueue, dispatcher, worker,
                       outbound, wire, env, writer, ch>>
        /\ control' = Append(control, x)
    <3>1. ~Begin(Refusal("close"))
      BY BeginEnds, Zenon
    <3>2. QED
      BY <1>2, <3>1, Zenon DEF CloseQueue, EnqueueControl, loopVars
  <2>2. "close" \in ResultKinds \cup {"close", "disconnect"} /\ 0 \in Nat
    OBVIOUS
  <2>3. x \in ControlWrites /\ x.kind = "close"
    BY <2>2, ControlWriteType, Zenon
  <2> HIDE DEF x
  <2>4. x.kind # "globalResult" /\ x.kind # "channelResult"
    BY <2>3
  <2>5. GlobalHandled' = GlobalHandled /\ ChannelHandled' = ChannelHandled
    BY <2>1, Zenon DEF GlobalHandled, ChannelHandled
  <2>6. GlobalAccount'
    BY <1>0, <2>1, <2>3, <2>4, <2>5, AccountOthers, Zenon DEF Accounts, GlobalAccount
  <2>7. ch.events \in Seq(Events)
    BY <1>0, ChannelFields, Zenon
  <2>8. ChannelAccount => ChannelAccount'
    BY <1>0, <2>1, <2>3, <2>4, <2>5, <2>7, AccountOthers, Zenon DEF ChannelAccount
  <2>9. QED
    BY <2>1, <2>6, <2>8, Zenon DEF Accounts
<1>3. QED
  BY <1>1, <1>2, Zenon DEF ChannelNext

LEMMA AccountsDispatch ==
  ASSUME Types, Accounts, DispatchNext, down' = "no"
  PROVE  Accounts'
<1>0. /\ dispatcher \in DispatcherType /\ outbound \in Seq(OutWrites)
      /\ dispatchQueue \in Seq(Tasks) /\ GlobalAccount
  BY Zenon DEF Types, LoopType, QueueType, Accounts
<1>1. UNCHANGED <<control, wire, env, writer, worker, ch>> /\ ChannelHandled' = ChannelHandled
  BY Zenon DEF DispatchNext, DispatchTake, DispatchNoReply, DispatchReply, DispatchRefused,
     DispatchWithdraw, DispatchStop, EnqueueOutbound, budgetVars, ChannelHandled
<1>2. CASE DispatchNoReply \/ DispatchStop
  <2>1. UNCHANGED <<incomingGlobal, dispatchQueue, outbound>> /\ dispatcher' \in {Idle, Stopped}
    BY <1>2, Zenon DEF DispatchNoReply, DispatchStop, budgetVars
  <2>2. dispatcher.at # "queued"
        /\ ~(dispatcher.at \in {"handling", "queued"} /\ dispatcher.reply)
    BY <1>2 DEF DispatchNoReply, DispatchStop
  <2>3. ~(dispatcher'.at \in {"handling", "queued"} /\ dispatcher'.reply)
    BY <2>1, LoopValues
  <2>4. GlobalHandled' = GlobalHandled
    BY <2>2, <2>3, HandledIs, Zenon DEF GlobalHandled
  <2>5. GlobalAccount'
    BY <1>0, <1>1, <2>1, <2>2, <2>4, GlobalSame, Zenon
  <2>6. ChannelAccount => ChannelAccount'
    BY <1>1, <2>1, ChannelSame, Zenon
  <2>7. QED
    BY <1>1, <2>5, <2>6, Zenon DEF Accounts
<1>3. CASE DispatchTake
  <2> DEFINE m == Head(dispatchQueue)
  <2>1. /\ dispatcher.at = "idle" /\ dispatchQueue # <<>>
        /\ dispatcher' = [at |-> "handling", id |-> m.id, reply |-> m.reply]
        /\ dispatchQueue' = Tail(dispatchQueue) /\ UNCHANGED <<incomingGlobal, outbound>>
    BY <1>3, Zenon DEF DispatchTake
  <2>2. m \in Tasks
    BY <1>0, <2>1
  <2>3. m.kind = "globalRequest" /\ m.reply \in BOOLEAN
    BY <2>2 DEF Tasks, Msgs
  <2>4. GlobalHandled = {}
    BY <2>1, HandledIs DEF GlobalHandled
  <2> HIDE DEF m
  <2>5. dispatcher'.at = "handling" /\ dispatcher'.id = m.id /\ dispatcher'.reply = m.reply
    BY <2>1
  <2>6. GlobalHandled' = Handled(m.reply, m.id)
    <3>1. (dispatcher'.at \in {"handling", "queued"} /\ dispatcher'.reply) <=> m.reply
      BY <2>3, <2>5
    <3>2. QED
      BY <2>5, <3>1, HandledIs, Zenon DEF GlobalHandled
  <2>7. Account(incomingGlobal, dispatchQueue, {}, dispatcher.at, control,
                writer.msg, outbound, wire, env.sent, "globalRequest", "globalResult",
                "dispatcher")
    BY <1>0, <2>4, Zenon DEF GlobalAccount
  <2>8. Account(incomingGlobal, Tail(dispatchQueue), Handled(m.reply, m.id), "handling",
                control, writer.msg, outbound, wire, env.sent, "globalRequest",
                "globalResult", "dispatcher")
    BY <1>0, <2>1, <2>3, <2>7, AccountTaken, Zenon DEF m
  <2>9. GlobalAccount'
    BY <1>1, <2>1, <2>5, <2>6, <2>8, Zenon DEF GlobalAccount
  <2>10. ChannelAccount => ChannelAccount'
    BY <1>1, <2>1, ChannelSame, Zenon
  <2>11. QED
    BY <1>1, <2>9, <2>10, Zenon DEF Accounts
<1>4. CASE DispatchReply
  <2> DEFINE x == Write("globalResult", dispatcher.id, FALSE, "dispatcher")
  <2>1. /\ dispatcher.at = "handling" /\ dispatcher.reply
        /\ dispatcher' = [dispatcher EXCEPT !.at = "queued"]
        /\ outbound' = Append(outbound, x) /\ UNCHANGED <<incomingGlobal, dispatchQueue>>
    BY <1>4, Zenon DEF DispatchReply, EnqueueOutbound
  <2>2. dispatcher.id \in Nat
    BY <1>0 DEF DispatcherType
  <2>3. x \in OutWrites /\ x.waits = "dispatcher" /\ x.id = dispatcher.id /\ ~x.canceled
    BY <2>2, ReplyWriteType, Zenon
  <2> HIDE DEF x
  <2>4. dispatcher'.at = "queued" /\ dispatcher'.id = dispatcher.id
        /\ dispatcher'.reply = dispatcher.reply
    BY <1>0, <2>1 DEF DispatcherType
  <2>5. GlobalHandled = {x.id} /\ GlobalHandled' = GlobalHandled
    BY <2>1, <2>3, <2>4, HandledIs DEF GlobalHandled
  <2>6. dispatcher.at # "queued" /\ x.waits # "worker"
    BY <2>1, <2>3
  <2>7. GlobalAccount'
    <3>1. Account(incomingGlobal, dispatchQueue, GlobalHandled, "queued", control,
                  writer.msg, Append(outbound, x), wire, env.sent, "globalRequest",
                  "globalResult", "dispatcher")
      BY <1>0, <2>3, <2>5, <2>6, AccountReplied, Zenon DEF GlobalAccount
    <3>2. QED
      BY <1>1, <2>1, <2>4, <2>5, <3>1, Zenon DEF GlobalAccount
  <2>8. ChannelAccount => ChannelAccount'
    BY <1>0, <1>1, <2>1, <2>3, <2>6, AccountQueued, Zenon DEF ChannelAccount
  <2>9. QED
    BY <1>1, <2>7, <2>8, Zenon DEF Accounts
<1>5. ~DispatchRefused /\ ~DispatchWithdraw
  <2>1. \A err : DispatchFail(err) => down' # "no"
    BY BeginEnds, Zenon DEF DispatchFail, lifeVars
  <2>2. QED
    BY <2>1, Zenon DEF DispatchRefused, DispatchWithdraw
<1>6. QED
  BY <1>2, <1>3, <1>4, <1>5, Zenon DEF DispatchNext

LEMMA AccountsWorker ==
  ASSUME Types, OnlyRequestsAsk, Accounts, WorkerNext, down' = "no"
  PROVE  Accounts'
<1>0. /\ worker \in WorkerType /\ outbound \in Seq(OutWrites) /\ ch \in ChannelType
      /\ ch.events \in Seq(Events) /\ GlobalAccount
  BY ChannelFields, Zenon DEF Types, LoopType, QueueType, Accounts
<1>1. ~WorkerRefused /\ ~WorkerWithdraw
  BY BeginEnds, Zenon DEF WorkerRefused, WorkerWithdraw, WorkerFail
<1>2. UNCHANGED <<control, wire, env, writer, dispatcher, dispatchQueue, incomingGlobal>>
      /\ GlobalHandled' = GlobalHandled
  BY <1>1, Zenon DEF WorkerNext, WorkerStart, WorkerTake, WorkerStop, WorkerHandled,
     WorkerClose, WorkerReply, EnqueueOutbound, budgetVars, GlobalHandled
<1>3. CASE WorkerStart \/ WorkerStop \/ WorkerHandled \/ WorkerClose
  <2>1. UNCHANGED outbound
        /\ (worker' = WorkerAt("idle") \/ worker' = WorkerAt("stopped"))
    BY <1>3, Zenon DEF WorkerStart, WorkerStop, WorkerHandled, WorkerClose, budgetVars
  <2>2. worker'.at \in {"idle", "stopped"}
    BY <1>0, <2>1, WorkerMoves
  <2>3. ~(worker.at \in {"handling", "queued"} /\ worker.ev.reply) /\ worker.at # "queued"
    BY <1>3 DEF WorkerStart, WorkerStop, WorkerHandled, WorkerClose, OnlyRequestsAsk,
                WellAsked, RequestKinds
  <2>4. ch'.incoming = ch.incoming /\ ch'.events = ch.events
    <3>1. CASE WorkerClose
      BY <1>0, <3>1, WorkerCloseChannel, Zenon DEF IsChannel
    <3>2. CASE ~WorkerClose
      BY <1>3, <3>2, Zenon DEF WorkerStart, WorkerStop, WorkerHandled
    <3>3. QED
      BY <3>1, <3>2
  <2>5. ~(worker'.at \in {"handling", "queued"} /\ worker'.ev.reply)
    BY <2>2
  <2>6. ChannelHandled' = ChannelHandled
    BY <2>3, <2>5, HandledIs, Zenon DEF ChannelHandled
  <2>7. GlobalAccount'
    BY <1>0, <1>2, <2>1, GlobalSame, Zenon
  <2>8. ChannelAccount'
    BY <1>2, <2>1, <2>3, <2>4, <2>6, ChannelSame, Zenon DEF Accounts
  <2>9. QED
    BY <2>7, <2>8, Zenon DEF Accounts
<1>4. CASE WorkerTake
  <2> DEFINE m == Head(ch.events)
  <2>1. /\ worker.at = "idle" /\ ch.events # <<>> /\ UNCHANGED outbound
        /\ worker' = [at |-> "handling", ev |-> m]
    BY <1>4, Zenon DEF WorkerTake
  <2>2. m \in Events /\ 1 \in DOMAIN ch.events /\ m = ch.events[1]
    BY <1>0, <2>1
  <2>3. m.reply \in BOOLEAN /\ (m.reply => m.kind = "channelRequest")
    <3>1. WellAsked(m)
      BY <2>2, Zenon DEF OnlyRequestsAsk
    <3>2. QED
      BY <2>2, <3>1 DEF Events, Msgs, WellAsked, RequestKinds, EventKinds
  <2>4. ChannelHandled = {}
    BY <2>1, HandledIs DEF ChannelHandled
  <2>5. ch'.incoming = ch.incoming /\ ch'.events = Tail(ch.events)
    BY <1>0, <1>4, WorkerTakeChannel, Zenon DEF IsChannel
  <2> HIDE DEF m
  <2>6. worker'.at = "handling" /\ worker'.ev = m
    BY <2>1
  <2>7. ChannelHandled' = Handled(m.reply, m.id)
    <3>1. (worker'.at \in {"handling", "queued"} /\ worker'.ev.reply) <=> m.reply
      BY <2>3, <2>6
    <3>2. QED
      BY <2>6, <3>1, HandledIs, Zenon DEF ChannelHandled
  <2>8. Account(ch.incoming, ch.events, {}, worker.at, control, writer.msg,
                outbound, wire, env.sent, "channelRequest", "channelResult", "worker")
    BY <2>4, Zenon DEF Accounts, ChannelAccount
  <2>9. Account(ch.incoming, Tail(ch.events), Handled(m.reply, m.id), "handling", control,
                writer.msg, outbound, wire, env.sent, "channelRequest", "channelResult",
                "worker")
    BY <1>0, <2>1, <2>3, <2>8, AccountTaken, Zenon DEF m
  <2>10. ChannelAccount'
    BY <1>2, <2>1, <2>5, <2>6, <2>7, <2>9, Zenon DEF ChannelAccount
  <2>11. GlobalAccount'
    BY <1>0, <1>2, <2>1, GlobalSame, Zenon
  <2>12. QED
    BY <2>10, <2>11, Zenon DEF Accounts
<1>5. CASE WorkerReply
  <2> DEFINE x == Write("channelResult", worker.ev.id, FALSE, "worker")
  <2>1. /\ worker.at = "handling" /\ worker.ev.reply /\ worker' = WorkerAt("queued")
        /\ outbound' = Append(outbound, x) /\ UNCHANGED ch
    BY <1>5, Zenon DEF WorkerReply, EnqueueOutbound
  <2>2. worker.ev.id \in Nat
    BY <1>0 DEF WorkerType, Events
  <2>3. x \in OutWrites /\ x.waits = "worker" /\ x.id = worker.ev.id /\ ~x.canceled
    BY <2>2, ReplyWriteType, Zenon
  <2> HIDE DEF x
  <2>4. worker'.at = "queued" /\ worker'.ev = worker.ev
    BY <1>0, <2>1, WorkerMoves
  <2>5. ChannelHandled = {x.id} /\ ChannelHandled' = ChannelHandled
    BY <2>1, <2>3, <2>4, HandledIs DEF ChannelHandled
  <2>6. worker.at # "queued" /\ x.waits # "dispatcher"
    BY <2>1, <2>3
  <2>7. GlobalAccount'
    BY <1>0, <1>2, <2>1, <2>3, <2>6, AccountQueued, Zenon DEF GlobalAccount
  <2>8. ChannelAccount
    BY Zenon DEF Accounts
  <2>9. ChannelAccount'
    <3>1. Account(ch.incoming, ch.events, ChannelHandled, "queued", control, writer.msg,
                  Append(outbound, x), wire, env.sent, "channelRequest", "channelResult",
                  "worker")
      BY <1>0, <2>3, <2>5, <2>6, <2>8, AccountReplied, Zenon DEF ChannelAccount
    <3>2. QED
      BY <1>2, <2>1, <2>4, <2>5, <3>1, Zenon DEF ChannelAccount
  <2>10. QED
    BY <2>7, <2>9, Zenon DEF Accounts
<1>6. QED
  BY <1>1, <1>3, <1>4, <1>5, Zenon DEF WorkerNext

LEMMA AccountsPeer ==
  ASSUME Types, Accounts, PeerNext
  PROVE  Accounts'
<1>0. /\ wire \in Seq(PeerFrames) /\ PeerType /\ dispatchQueue \in Seq(Tasks)
      /\ ch \in ChannelType /\ control \in Seq(ControlWrites)
  BY Zenon DEF Types, PeerType, QueueType
<1>1. UNCHANGED <<incomingGlobal, dispatchQueue, dispatcher, worker, control, outbound,
                  writer, ch>>
  BY Zenon DEF PeerNext, PeerSend, PeerAnswer, Break, budgetVars, loopVars
<1>2. GlobalHandled' = GlobalHandled /\ ChannelHandled' = ChannelHandled
  BY <1>1, Zenon DEF GlobalHandled, ChannelHandled
<1>3. ASSUME NEW kind \in env.use.peer, NEW reply \in BOOLEAN, PeerSend(kind, reply)
      PROVE  Accounts'
  <2> DEFINE m == Msg(kind, env.sent + 1, reply /\ kind \in RequestKinds)
  <2>1. /\ m \in PeerFrames /\ wire' = Append(wire, m) /\ env'.sent = env.sent + 1
        /\ m.id = env.sent + 1
    BY <1>0, <1>3, PeerSends, ZenonT(60) DEF IsMsg
  <2>2. env.sent \in Nat
    BY <1>0 DEF PeerType, EnvType
  <2> HIDE DEF m
  <2>3. GlobalAccount'
    BY <1>0, <1>1, <1>2, <2>1, <2>2, AccountSent, Zenon DEF Accounts, GlobalAccount
  <2>4. ChannelAccount => ChannelAccount'
    BY <1>0, <1>1, <1>2, <2>1, <2>2, AccountSent, Zenon DEF ChannelAccount
  <2>5. QED
    BY <1>1, <2>3, <2>4, Zenon DEF Accounts
<1>4. ASSUME NEW c \in Callers, PeerAnswer(c)
      PROVE  Accounts'
  <2> DEFINE m == Msg(AnswerKind(c), c, FALSE)
  <2>1. /\ m \in PeerFrames /\ wire' = Append(wire, m) /\ env'.sent = env.sent
        /\ m.kind = AnswerKind(c)
    BY <1>0, <1>4, PeerAnswers, Zenon DEF IsMsg
  <2> HIDE DEF m
  <2>2. m.kind # "globalRequest" /\ m.kind # "channelRequest"
    BY <2>1 DEF AnswerKind
  <2>3. ch.events \in Seq(Events)
    BY <1>0, ChannelFields, Zenon
  <2>4. GlobalAccount'
    BY <1>0, <1>1, <1>2, <2>1, <2>2, AccountOthers, Zenon DEF Accounts, GlobalAccount
  <2>5. ChannelAccount => ChannelAccount'
    BY <1>0, <1>1, <1>2, <2>1, <2>2, <2>3, AccountOthers, Zenon DEF ChannelAccount
  <2>6. QED
    BY <1>1, <2>4, <2>5, Zenon DEF Accounts
<1>5. CASE Break
  <2>1. UNCHANGED <<wire, env>>
    BY <1>5, Zenon DEF Break
  <2>2. QED
    BY <1>1, <2>1, AccountsSame, Zenon
<1>6. QED
  BY <1>3, <1>4, <1>5, Zenon DEF PeerNext

LEMMA WriteKinds ==
  /\ \A x \in OutWrites : /\ x.kind = "globalResult" <=> x.waits = "dispatcher"
                          /\ x.kind = "channelResult" <=> x.waits = "worker"
                          /\ x.canceled \in BOOLEAN
  /\ \A x \in ControlWrites : x.waits = None /\ ~x.canceled
  /\ \A x \in ControlWrites : x.waits # "dispatcher" /\ x.waits # "worker"
<1>1. {"none", "dispatcher", "worker"} \cap Callers = {}
  BY CoreAssumption
<1>2. \A x \in OutWrites : x.canceled \in BOOLEAN
  BY DEF OutWrites, Writes
<1>3. \A x \in OutWrites : /\ x.kind = "globalResult" <=> x.waits = "dispatcher"
                           /\ x.kind = "channelResult" <=> x.waits = "worker"
  BY <1>1 DEF OutWrites, RequestKind
<1>4. \A x \in ControlWrites : x.waits = None /\ ~x.canceled
  BY Zenon DEF ControlWrites
<1>5. QED
  BY <1>2, <1>3, <1>4, FlowNames, Zenon

LEMMA AccountsTaken ==
  ASSUME Types, Accounts, WriterTakeControl \/ WriterTakeOutbound
  PROVE  Accounts'
<1>0. /\ control \in Seq(ControlWrites) /\ outbound \in Seq(OutWrites)
      /\ writer.at # "sending" => writer.msg = NoWrite
  BY Zenon DEF Types, QueueType, LoopType
<1>1. UNCHANGED <<incomingGlobal, dispatchQueue, dispatcher, worker, wire, env, ch>>
      /\ writer.at # "sending"
  BY DEF WriterTakeControl, WriterTakeOutbound
<1>2. GlobalHandled' = GlobalHandled /\ ChannelHandled' = ChannelHandled
  BY <1>1, Zenon DEF GlobalHandled, ChannelHandled
<1>3. /\ Account(incomingGlobal, dispatchQueue, GlobalHandled, dispatcher.at, control,
                 NoWrite, outbound, wire, env.sent, "globalRequest", "globalResult",
                 "dispatcher")
      /\ ChannelAccount =>
            Account(ch.incoming, ch.events, ChannelHandled, worker.at, control, NoWrite,
                    outbound, wire, env.sent, "channelRequest", "channelResult", "worker")
  BY <1>0, <1>1, Zenon DEF Accounts, GlobalAccount, ChannelAccount
<1>4. CASE WriterTakeControl
  <2> DEFINE x == Head(control)
  <2>1. control # <<>> /\ control' = Tail(control) /\ UNCHANGED outbound /\ Claim(x)
    BY <1>4, Zenon DEF WriterTakeControl
  <2>2. x \in ControlWrites
    BY <1>0, <2>1
  <2>3. writer'.msg = x
    <3>1. writer' = [at |-> "sending", msg |-> x]
      BY <2>1, <2>2, WriteKinds, Zenon DEF Claim
    <3>2. QED
      BY <3>1
  <2>4. Account(incomingGlobal, dispatchQueue, GlobalHandled, dispatcher.at, Tail(control),
                x, outbound, wire, env.sent, "globalRequest", "globalResult", "dispatcher")
    BY <1>0, <1>3, <2>1, AccountControl, FlowNames, Zenon
  <2>5. ChannelAccount =>
           Account(ch.incoming, ch.events, ChannelHandled, worker.at, Tail(control), x,
                   outbound, wire, env.sent, "channelRequest", "channelResult", "worker")
    BY <1>0, <1>3, <2>1, AccountControl, FlowNames, Zenon
  <2> HIDE DEF x
  <2>6. GlobalAccount' /\ (ChannelAccount => ChannelAccount')
    BY <1>1, <1>2, <2>1, <2>3, <2>4, <2>5, Zenon DEF GlobalAccount, ChannelAccount
  <2>7. QED
    BY <1>1, <2>6, Zenon DEF Accounts
<1>5. CASE WriterTakeOutbound
  <2> DEFINE x == Head(outbound)
  <2>1. outbound # <<>> /\ outbound' = Tail(outbound) /\ UNCHANGED control /\ Claim(x)
    BY <1>5, Zenon DEF WriterTakeOutbound
  <2>2. x \in OutWrites
    BY <1>0, <2>1
  <2>3. writer'.msg = (IF x.canceled THEN NoWrite ELSE x)
    BY <2>1 DEF Claim
  <2>4. (x.kind = "globalResult" => x.waits = "dispatcher")
        /\ (x.kind = "channelResult" => x.waits = "worker") /\ x.canceled \in BOOLEAN
    BY <2>2, WriteKinds, Zenon
  <2>5. /\ Account(incomingGlobal, dispatchQueue, GlobalHandled, dispatcher.at, control,
                   NoWrite, Tail(outbound), wire, env.sent, "globalRequest",
                   "globalResult", "dispatcher")
        /\ ~x.canceled =>
           Account(incomingGlobal, dispatchQueue, GlobalHandled, dispatcher.at, control, x,
                   Tail(outbound), wire, env.sent, "globalRequest", "globalResult",
                   "dispatcher")
    BY <1>0, <1>3, <2>1, <2>4, AccountOutbound, FlowNames, Zenon
  <2>6. ASSUME ChannelAccount
        PROVE  /\ Account(ch.incoming, ch.events, ChannelHandled, worker.at, control,
                          NoWrite, Tail(outbound), wire, env.sent, "channelRequest",
                          "channelResult", "worker")
               /\ ~x.canceled =>
                     Account(ch.incoming, ch.events, ChannelHandled, worker.at, control, x,
                             Tail(outbound), wire, env.sent, "channelRequest",
                             "channelResult", "worker")
    BY <1>0, <1>3, <2>1, <2>4, <2>6, AccountOutbound, FlowNames, Zenon
  <2> HIDE DEF x
  <2>7. CASE x.canceled
    <3>1. writer'.msg = NoWrite
      BY <2>3, <2>7, Zenon
    <3>2. GlobalAccount' /\ (ChannelAccount => ChannelAccount')
      BY <1>1, <1>2, <2>1, <2>5, <2>6, <3>1, Zenon DEF GlobalAccount, ChannelAccount
    <3>3. QED
      BY <1>1, <3>2, Zenon DEF Accounts
  <2>8. CASE ~x.canceled
    <3>1. writer'.msg = x
      BY <2>3, <2>8, Zenon
    <3>2. GlobalAccount' /\ (ChannelAccount => ChannelAccount')
      BY <1>1, <1>2, <2>1, <2>5, <2>6, <2>8, <3>1, Zenon DEF GlobalAccount, ChannelAccount
    <3>3. QED
      BY <1>1, <3>2, Zenon DEF Accounts
  <2>9. QED
    BY <2>7, <2>8
<1>6. QED
  BY <1>4, <1>5

LEMMA AccountsWritten ==
  ASSUME Types, Accounts, WriterSend
  PROVE  Accounts'
<1> DEFINE w == writer.msg
<1>0. /\ w \in ControlWrites \cup OutWrites /\ worker \in WorkerType /\ ch \in ChannelType
      /\ env \in EnvType
  BY DEF Types, LoopType, WriterType, PeerType
<1>1. /\ UNCHANGED <<dispatchQueue, control, outbound, wire>> /\ Written(w)
      /\ writer' = [at |-> "idle", msg |-> NoWrite]
      /\ incomingGlobal' = (IF w.kind = "globalResult" THEN incomingGlobal \ {w.id}
                                                       ELSE incomingGlobal)
      /\ env' = (IF w.kind \in RequestKinds /\ w.reply
                 THEN [env EXCEPT !.owes = @ \cup {w.id}] ELSE env)
  BY Zenon DEF WriterSend, budgetVars
<1>2. env'.sent = env.sent
  BY <1>0, <1>1 DEF EnvType
<1>3. writer'.msg = NoWrite
  BY <1>1
<1>4. /\ ch'.events = ch.events
      /\ ch'.incoming = (IF w.kind = "channelResult" THEN ch.incoming \ {w.id}
                                                     ELSE ch.incoming)
  BY <1>0, <1>1, WriterSendChannel, Zenon DEF IsChannel
<1>5. /\ dispatcher' = (IF w.waits = "dispatcher" THEN Idle ELSE dispatcher)
      /\ worker' = (IF w.waits = "worker" THEN WorkerAt("idle") ELSE worker)
  BY <1>1, Zenon DEF Written, WorkerAt
<1>6. /\ w.waits = "dispatcher" => w.kind = "globalResult"
      /\ w.waits = "worker" => w.kind = "channelResult"
  BY <1>0, WriteKinds, Zenon
<1> HIDE DEF w
<1>7. GlobalAccount'
  <2>1. Account(incomingGlobal, dispatchQueue, GlobalHandled, dispatcher.at, control, w,
                outbound, wire, env.sent, "globalRequest", "globalResult", "dispatcher")
    BY Zenon DEF Accounts, GlobalAccount, w
  <2>2. CASE w.waits = "dispatcher"
    <3>1. dispatcher' = Idle /\ incomingGlobal' = incomingGlobal \ {w.id}
      BY <1>1, <1>5, <1>6, <2>2, Zenon
    <3>2. dispatcher'.at = "idle" /\ GlobalHandled' = {}
      BY <3>1, LoopValues, HandledIs DEF GlobalHandled
    <3>3. Account(incomingGlobal \ {w.id}, dispatchQueue, {}, "idle", control, NoWrite,
                  outbound, wire, env.sent, "globalRequest", "globalResult", "dispatcher")
      BY <1>6, <2>1, <2>2, AccountWritten, FlowNames, Zenon
    <3>4. QED
      BY <1>1, <1>2, <1>3, <3>1, <3>2, <3>3, Zenon DEF GlobalAccount
  <2>3. CASE w.waits # "dispatcher"
    <3>1. dispatcher' = dispatcher
      BY <1>5, <2>3, Zenon
    <3>2. GlobalHandled' = GlobalHandled
      BY <3>1, Zenon DEF GlobalHandled
    <3>3. Account(incomingGlobal', dispatchQueue, GlobalHandled, dispatcher.at, control,
                  NoWrite, outbound, wire, env.sent, "globalRequest", "globalResult",
                  "dispatcher")
      BY <1>1, <2>1, <2>3, AccountWritten, FlowNames, Zenon
    <3>4. QED
      BY <1>1, <1>2, <1>3, <3>1, <3>2, <3>3, Zenon DEF GlobalAccount
  <2>4. QED
    BY <2>2, <2>3
<1>8. ChannelAccount'
  <2>1. Account(ch.incoming, ch.events, ChannelHandled, worker.at, control, w, outbound,
                wire, env.sent, "channelRequest", "channelResult", "worker")
    BY Zenon DEF Accounts, ChannelAccount, w
  <2>2. CASE w.waits = "worker"
    <3>1. worker' = WorkerAt("idle") /\ ch'.incoming = ch.incoming \ {w.id}
      BY <1>4, <1>5, <1>6, <2>2, Zenon
    <3>2. worker'.at = "idle"
      BY <1>0, <3>1, WorkerMoves
    <3>3. ChannelHandled' = {}
      BY <3>2, HandledIs DEF ChannelHandled
    <3>4. Account(ch.incoming \ {w.id}, ch.events, {}, "idle", control, NoWrite,
                  outbound, wire, env.sent, "channelRequest", "channelResult", "worker")
      BY <1>6, <2>1, <2>2, AccountWritten, FlowNames, Zenon
    <3>5. QED
      BY <1>1, <1>2, <1>3, <1>4, <3>1, <3>2, <3>3, <3>4, Zenon DEF ChannelAccount
  <2>3. CASE w.waits # "worker"
    <3>1. worker' = worker
      BY <1>5, <2>3, Zenon
    <3>2. ChannelHandled' = ChannelHandled
      BY <3>1, Zenon DEF ChannelHandled
    <3>3. Account(ch'.incoming, ch.events, ChannelHandled, worker.at, control,
                  NoWrite, outbound, wire, env.sent, "channelRequest", "channelResult",
                  "worker")
      <4>1. CASE w.kind = "channelResult"
        <5>1. ch'.incoming = ch.incoming \ {w.id}
          BY <1>4, <4>1, Zenon
        <5>2. Account(ch.incoming \ {w.id}, ch.events, ChannelHandled, worker.at, control,
                      NoWrite, outbound, wire, env.sent, "channelRequest",
                      "channelResult", "worker")
          BY <2>1, <2>3, <4>1, AccountWritten, FlowNames, Zenon
        <5>3. QED
          BY <5>1, <5>2, Zenon
      <4>2. CASE w.kind # "channelResult"
        <5>1. ch'.incoming = ch.incoming
          BY <1>4, <4>2, Zenon
        <5>2. QED
          BY <2>1, <2>3, <4>2, <5>1, AccountWritten, FlowNames, Zenon
      <4>3. QED
        BY <4>1, <4>2
    <3>4. QED
      BY <1>1, <1>2, <1>3, <1>4, <3>1, <3>2, <3>3, Zenon DEF ChannelAccount
  <2>4. QED
    BY <2>2, <2>3
<1>9. QED
  BY <1>7, <1>8, Zenon DEF Accounts

LEMMA AccountsWriter ==
  ASSUME Types, Accounts, WriterNext, down' = "no"
  PROVE  Accounts'
<1>1. CASE WriterPoll
  <2>1. UNCHANGED <<incomingGlobal, dispatchQueue, dispatcher, worker, control,
                    outbound, wire, env, ch>> /\ writer' = [writer EXCEPT !.at = "waiting"]
    BY <1>1, Zenon DEF WriterPoll, budgetVars
  <2>2. writer'.msg = writer.msg
    BY <2>1 DEF Types, LoopType, WriterType
  <2>3. QED
    BY <2>1, <2>2, AccountsSame, Zenon
<1>2. ~WriterFail /\ ~WriterStop
  <2>1. ~WriterFail
    BY BeginEnds, Zenon DEF WriterFail, lifeVars
  <2>2. ~WriterStop
    <3>1. WriterStop => queuesClosed /\ UNCHANGED down
      BY Zenon DEF WriterStop, lifeVars
    <3>2. queuesClosed => down # "no"
      BY DEF Types, LifeInv
    <3>3. QED
      BY <3>1, <3>2, Zenon
  <2>3. QED
    BY <2>1, <2>2
<1>3. QED
  BY <1>1, <1>2, AccountsTaken, AccountsWritten, Zenon DEF WriterNext

\* The receiver takes a frame that is no concern of these requests.
LEMMA GlobalSkips ==
  ASSUME Types, GlobalAccount, wire # <<>>, wire' = Tail(wire),
         Head(wire).kind # "globalRequest",
         UNCHANGED <<incomingGlobal, dispatchQueue, dispatcher, outbound, writer, env>>,
         \/ UNCHANGED control
         \/ \E x \in ControlWrites : x.kind # "globalResult" /\ control' = Append(control, x)
  PROVE  GlobalAccount'
<1>0. /\ wire \in Seq(PeerFrames) /\ wire' \in Seq(PeerFrames)
      /\ dispatchQueue \in Seq(Tasks) /\ control \in Seq(ControlWrites)
  BY DEF Types, QueueType, PeerType
<1>1. Account(incomingGlobal, dispatchQueue, GlobalHandled, dispatcher.at, control,
              writer.msg, outbound, wire', env.sent, "globalRequest", "globalResult",
              "dispatcher")
  BY <1>0, AccountOthers, Zenon DEF GlobalAccount
<1>2. Account(incomingGlobal, dispatchQueue, GlobalHandled, dispatcher.at, control',
              writer.msg, outbound, wire', env.sent, "globalRequest", "globalResult",
              "dispatcher")
  <2>1. CASE UNCHANGED control
    BY <1>1, <2>1, Zenon
  <2>2. ASSUME NEW x \in ControlWrites, x.kind # "globalResult",
               control' = Append(control, x)
        PROVE  Account(incomingGlobal, dispatchQueue, GlobalHandled, dispatcher.at, control',
                       writer.msg, outbound, wire', env.sent, "globalRequest",
                       "globalResult", "dispatcher")
    <3>1. Account(incomingGlobal, dispatchQueue, GlobalHandled, dispatcher.at,
                  Append(control, x), writer.msg, outbound, wire', env.sent,
                  "globalRequest", "globalResult", "dispatcher")
      BY <1>0, <1>1, <2>2, AccountOthers, Zenon
    <3>2. QED
      BY <2>2, <3>1, Zenon
  <2>3. QED
    BY <2>1, <2>2
<1>3. GlobalHandled' = GlobalHandled
  BY Zenon DEF GlobalHandled
<1>4. QED
  BY <1>2, <1>3, Zenon DEF GlobalAccount

LEMMA ChannelSkips ==
  ASSUME Types, ChannelAccount, wire # <<>>, wire' = Tail(wire),
         Head(wire).kind # "channelRequest",
         UNCHANGED <<worker, outbound, writer, env>>, ch'.incoming = ch.incoming,
         \/ ch'.events = ch.events
         \/ Head(wire) \in Events /\ ch'.events = Append(ch.events, Head(wire)),
         \/ UNCHANGED control
         \/ \E x \in ControlWrites : x.kind # "channelResult" /\ control' = Append(control, x)
  PROVE  ChannelAccount'
<1>0. /\ wire \in Seq(PeerFrames) /\ wire' \in Seq(PeerFrames)
      /\ control \in Seq(ControlWrites) /\ ch \in ChannelType
  BY DEF Types, QueueType, PeerType
<1>1. ch.events \in Seq(Events)
  BY <1>0, ChannelFields, Zenon
<1>2. Account(ch.incoming, ch.events, ChannelHandled, worker.at, control, writer.msg,
              outbound, wire', env.sent, "channelRequest", "channelResult", "worker")
  BY <1>0, <1>1, AccountOthers, Zenon DEF ChannelAccount
<1>3. Account(ch.incoming, ch.events, ChannelHandled, worker.at, control', writer.msg,
              outbound, wire', env.sent, "channelRequest", "channelResult", "worker")
  <2>1. CASE UNCHANGED control
    BY <1>2, <2>1, Zenon
  <2>2. ASSUME NEW x \in ControlWrites, x.kind # "channelResult",
               control' = Append(control, x)
        PROVE  Account(ch.incoming, ch.events, ChannelHandled, worker.at, control',
                       writer.msg, outbound, wire', env.sent, "channelRequest",
                       "channelResult", "worker")
    <3>1. Account(ch.incoming, ch.events, ChannelHandled, worker.at, Append(control, x),
                  writer.msg, outbound, wire', env.sent, "channelRequest",
                  "channelResult", "worker")
      BY <1>0, <1>1, <1>2, <2>2, AccountOthers, Zenon
    <3>2. QED
      BY <2>2, <3>1, Zenon
  <2>3. QED
    BY <2>1, <2>2
<1>4. Account(ch.incoming, ch'.events, ChannelHandled, worker.at, control', writer.msg,
              outbound, wire', env.sent, "channelRequest", "channelResult", "worker")
  <2>1. CASE ch'.events = ch.events
    BY <1>3, <2>1, Zenon
  <2>2. CASE Head(wire) \in Events /\ ch'.events = Append(ch.events, Head(wire))
    <3>1. control' \in Seq(ControlWrites)
      BY <1>0
    <3>2. Account(ch.incoming, Append(ch.events, Head(wire)), ChannelHandled, worker.at,
                  control', writer.msg, outbound, wire', env.sent, "channelRequest",
                  "channelResult", "worker")
      BY <1>0, <1>1, <1>3, <2>2, <3>1, AccountOthers, Zenon
    <3>3. QED
      BY <2>2, <3>2, Zenon
  <2>3. QED
    BY <2>1, <2>2
<1>5. ChannelHandled' = ChannelHandled
  BY Zenon DEF ChannelHandled
<1>6. QED
  BY <1>4, <1>5, Zenon DEF ChannelAccount

LEMMA TakesEventFields ==
  ASSUME NEW c \in ChannelType, NEW m \in Events
  PROVE  /\ TakesEvent(m, c) \in ChannelType /\ TakesEvent(m, c).incoming = c.incoming
         /\ TakesEvent(m, c).events = Append(c.events, m)
<1>1. IsChannel(TakesEvent(m, c), c.state, c.inTable, c.canceled, c.frames,
                Append(c.events, m), Plus(c.queued, Size[m.kind]), c.pending, c.incoming)
  BY TakesEventChannel, Zenon
<1>2. QED
  BY <1>1, Zenon DEF IsChannel

LEMMA AccountsGlobalRequest ==
  ASSUME Types, Accounts, ReceiveGlobalRequest, down' = "no"
  PROVE  Accounts'
<1> DEFINE m == Head(wire)
           x == Write("globalResult", m.id, FALSE, None)
<1>0. /\ PeerType /\ wire \in Seq(PeerFrames) /\ dispatchQueue \in Seq(Tasks)
      /\ control \in Seq(ControlWrites) /\ Receives("globalRequest")
  BY Zenon DEF Types, QueueType, PeerType, ReceiveGlobalRequest
<1>1. m \in PeerFrames /\ m.kind = "globalRequest" /\ wire # <<>> /\ wire' = Tail(wire)
  BY <1>0, HeadOfWire, Zenon
<1>2. m \in Tasks /\ m.id \in Nat
  BY <1>1, FramesToQueues DEF ResultKinds
<1>3. x \in ControlWrites /\ x.kind = "globalResult" /\ x.id = m.id
  <2>1. "globalResult" \in ResultKinds \cup {"close", "disconnect"}
    BY DEF ResultKinds
  <2>2. QED
    BY <1>2, <2>1, ControlWriteType, Zenon
<1>4. UNCHANGED <<ch, writer, dispatcher, worker, env>>
  BY <1>0, Zenon DEF ReceiveGlobalRequest, Receives
<1>5. UNCHANGED outbound
      /\ \/ /\ dispatchQueue' = Append(dispatchQueue, m) /\ UNCHANGED control
            /\ incomingGlobal' = IF m.reply THEN incomingGlobal \cup {m.id} ELSE incomingGlobal
         \/ /\ control' = Append(control, x) /\ UNCHANGED dispatchQueue
            /\ m.reply /\ incomingGlobal' = incomingGlobal \cup {m.id}
  <2>1. ~RouteFails("limit")
    BY RouteFailed, Zenon
  <2>2. QED
    BY <2>1, Zenon DEF ReceiveGlobalRequest, EnqueueControl
<1> HIDE DEF m, x
<1>6. GlobalHandled' = GlobalHandled
  BY <1>4, Zenon DEF GlobalHandled
<1>7. /\ Account(IF m.reply THEN incomingGlobal \cup {m.id} ELSE incomingGlobal,
                 Append(dispatchQueue, m), GlobalHandled, dispatcher.at, control,
                 writer.msg, outbound, Tail(wire), env.sent, "globalRequest",
                 "globalResult", "dispatcher")
      /\ m.reply =>
            Account(incomingGlobal \cup {m.id}, dispatchQueue, GlobalHandled, dispatcher.at,
                    Append(control, x), writer.msg, outbound, Tail(wire), env.sent,
                    "globalRequest", "globalResult", "dispatcher")
  BY <1>0, <1>1, <1>2, <1>3, AccountReceived, Zenon DEF Accounts, GlobalAccount, m
<1>8. GlobalAccount'
  <2>1. CASE dispatchQueue' = Append(dispatchQueue, m) /\ UNCHANGED control
             /\ incomingGlobal' = IF m.reply THEN incomingGlobal \cup {m.id} ELSE incomingGlobal
    BY <1>1, <1>4, <1>5, <1>6, <1>7, <2>1, Zenon DEF GlobalAccount
  <2>2. CASE control' = Append(control, x) /\ UNCHANGED dispatchQueue
             /\ m.reply /\ incomingGlobal' = incomingGlobal \cup {m.id}
    BY <1>1, <1>4, <1>5, <1>6, <1>7, <2>2, Zenon DEF GlobalAccount
  <2>3. QED
    BY <1>5, <2>1, <2>2, Zenon
<1>9. ChannelAccount'
  <2>1. Head(wire).kind # "channelRequest"
    BY <1>1 DEF m
  <2>2. UNCHANGED control
        \/ \E y \in ControlWrites : y.kind # "channelResult" /\ control' = Append(control, y)
    <3>1. x.kind # "channelResult"
      BY <1>3
    <3>2. QED
      BY <1>3, <1>5, <3>1, Zenon
  <2>3. QED
    BY <1>1, <1>4, <1>5, <2>1, <2>2, ChannelSkips, Zenon DEF Accounts
<1>10. QED
  BY <1>8, <1>9, Zenon DEF Accounts

LEMMA AccountsChannelRequest ==
  ASSUME Types, Accounts, ReceiveChannelRequest, down' = "no"
  PROVE  Accounts'
<1> DEFINE m == Head(wire)
           x == Write("channelResult", m.id, FALSE, None)
<1>0. /\ PeerType /\ wire \in Seq(PeerFrames) /\ ch \in ChannelType
      /\ control \in Seq(ControlWrites) /\ Receives("channelRequest")
      /\ ch.events \in Seq(Events)
  BY ChannelFields, Zenon DEF Types, QueueType, PeerType, ReceiveChannelRequest
<1>1. m \in PeerFrames /\ m.kind = "channelRequest" /\ wire # <<>> /\ wire' = Tail(wire)
  BY <1>0, HeadOfWire, Zenon
<1>2. m \in Events /\ m.id \in Nat
  BY <1>1, FramesToQueues DEF ResultKinds, EventKinds
<1>3. x \in ControlWrites /\ x.kind = "channelResult" /\ x.id = m.id
  <2>1. "channelResult" \in ResultKinds \cup {"close", "disconnect"}
    BY DEF ResultKinds
  <2>2. QED
    BY <1>2, <2>1, ControlWriteType, Zenon
<1>4. UNCHANGED <<writer, dispatcher, worker, env>>
  BY <1>0, Zenon DEF Receives
<1>5. UNCHANGED <<outbound, dispatchQueue, incomingGlobal>>
      /\ \/ ch' = TakesEvent(m, Mine(m)) /\ UNCHANGED control
         \/ ch' = Mine(m) /\ control' = Append(control, x) /\ m.reply
  <2>1. \A err : ~RouteFails(err)
    BY RouteFailed, Zenon
  <2>2. QED
    BY <2>1, Zenon DEF ReceiveChannelRequest, EnqueueControl, ReserveEvent, Mine
<1> HIDE DEF m, x
<1>6. /\ Mine(m) \in ChannelType /\ Mine(m).events = ch.events
      /\ Mine(m).incoming = IF m.reply THEN ch.incoming \cup {m.id} ELSE ch.incoming
  BY <1>0, <1>1, MineChannel, Zenon DEF IsChannel
<1>7. /\ TakesEvent(m, Mine(m)).events = Append(ch.events, m)
      /\ TakesEvent(m, Mine(m)).incoming = Mine(m).incoming
  BY <1>2, <1>6, TakesEventFields, Zenon
<1>8. ChannelHandled' = ChannelHandled
  BY <1>4, Zenon DEF ChannelHandled
<1>9. /\ Account(IF m.reply THEN ch.incoming \cup {m.id} ELSE ch.incoming,
                 Append(ch.events, m), ChannelHandled, worker.at, control, writer.msg,
                 outbound, Tail(wire), env.sent, "channelRequest", "channelResult",
                 "worker")
      /\ m.reply =>
            Account(ch.incoming \cup {m.id}, ch.events, ChannelHandled, worker.at,
                    Append(control, x), writer.msg, outbound, Tail(wire), env.sent,
                    "channelRequest", "channelResult", "worker")
  BY <1>0, <1>1, <1>2, <1>3, AccountReceived, Zenon DEF Accounts, ChannelAccount, m
<1>10. ChannelAccount'
  <2>1. CASE ch' = TakesEvent(m, Mine(m)) /\ UNCHANGED control
    <3>1. /\ ch'.events = Append(ch.events, m)
          /\ ch'.incoming = IF m.reply THEN ch.incoming \cup {m.id} ELSE ch.incoming
      BY <1>6, <1>7, <2>1, Zenon
    <3>2. QED
      BY <1>1, <1>4, <1>5, <1>8, <1>9, <2>1, <3>1, Zenon DEF ChannelAccount
  <2>2. CASE ch' = Mine(m) /\ control' = Append(control, x) /\ m.reply
    <3>1. ch'.events = ch.events /\ ch'.incoming = ch.incoming \cup {m.id}
      BY <1>6, <2>2, Zenon
    <3>2. QED
      BY <1>1, <1>4, <1>5, <1>8, <1>9, <2>2, <3>1, Zenon DEF ChannelAccount
  <2>3. QED
    BY <1>5, <2>1, <2>2, Zenon
<1>11. GlobalAccount'
  <2>1. Head(wire).kind # "globalRequest"
    BY <1>1 DEF m
  <2>2. UNCHANGED control
        \/ \E y \in ControlWrites : y.kind # "globalResult" /\ control' = Append(control, y)
    <3>1. x.kind # "globalResult"
      BY <1>3
    <3>2. QED
      BY <1>3, <1>5, <3>1, Zenon
  <2>3. QED
    BY <1>1, <1>4, <1>5, <2>1, <2>2, GlobalSkips, Zenon DEF Accounts
<1>12. QED
  BY <1>10, <1>11, Zenon DEF Accounts

LEMMA AccountsReceiver ==
  ASSUME Types, Accounts, ReceiverNext, down' = "no"
  PROVE  Accounts'
<1>0. PeerType /\ ch \in ChannelType
  BY Zenon DEF Types
<1>1. \A err : ~RouteFails(err)
  BY RouteFailed, Zenon
<1>2. ~ReceiveEnd /\ ~ReceiveFails
  BY <1>1, Zenon DEF ReceiveEnd, ReceiveFails
<1>3. ASSUME NEW kind, Receives(kind), kind \notin RequestKinds,
             UNCHANGED <<outbound, dispatchQueue, incomingGlobal>>,
             ch'.incoming = ch.incoming,
             \/ ch'.events = ch.events
             \/ Head(wire) \in Events /\ ch'.events = Append(ch.events, Head(wire)),
             \/ UNCHANGED control
             \/ \E x \in ControlWrites : x.kind = "close" /\ control' = Append(control, x)
      PROVE  Accounts'
  <2>1. wire # <<>> /\ wire' = Tail(wire) /\ Head(wire).kind = kind
        /\ UNCHANGED <<writer, dispatcher, worker, env>>
    BY <1>3, Zenon DEF Receives
  <2>2. Head(wire).kind # "globalRequest" /\ Head(wire).kind # "channelRequest"
    BY <1>3, <2>1 DEF RequestKinds
  <2>3. /\ UNCHANGED control
           \/ \E x \in ControlWrites : x.kind # "globalResult" /\ control' = Append(control, x)
        /\ UNCHANGED control
           \/ \E x \in ControlWrites : x.kind # "channelResult" /\ control' = Append(control, x)
    <3>1. "close" # "globalResult" /\ "close" # "channelResult"
      OBVIOUS
    <3>2. QED
      BY <1>3, <3>1, Zenon
  <2>4. GlobalAccount'
    BY <1>3, <2>1, <2>2, <2>3, GlobalSkips, Zenon DEF Accounts
  <2>5. ChannelAccount'
    BY <1>3, <2>1, <2>2, <2>3, ChannelSkips, Zenon DEF Accounts
  <2>6. QED
    BY <2>4, <2>5, Zenon DEF Accounts
<1>4. {"globalResult", "channelResult", "data", "eof", "close"} \cap RequestKinds = {}
  BY DEF RequestKinds
<1>5. CASE ReceiveGlobalResult
  <2>1. Receives("globalResult")
        /\ UNCHANGED <<outbound, dispatchQueue, incomingGlobal, control, ch>>
    BY <1>1, <1>5, Zenon DEF ReceiveGlobalResult, budgetVars
  <2>2. "globalResult" \notin RequestKinds
    BY <1>4
  <2>3. QED
    BY <1>3, <2>1, <2>2, Zenon
<1>6. CASE ReceiveChannelResult
  <2>1. Receives("channelResult")
        /\ UNCHANGED <<outbound, dispatchQueue, incomingGlobal, control>>
    BY <1>1, <1>6, Zenon DEF ReceiveChannelResult, budgetVars
  <2>2. ch'.incoming = ch.incoming /\ ch'.events = ch.events
    BY <1>0, <1>6, ReceiveChannelResultChannel, Zenon DEF IsChannel
  <2>3. "channelResult" \notin RequestKinds
    BY <1>4
  <2>4. QED
    BY <1>3, <2>1, <2>2, <2>3, Zenon
<1>7. CASE ReceiveData
  <2>1. Receives("data") /\ UNCHANGED <<outbound, dispatchQueue, incomingGlobal, control>>
        /\ ch' = [ch EXCEPT !.frames = Append(ch.frames, Size["data"]),
                            !.queued = Plus(ch.queued, Size["data"])]
    BY <1>1, <1>7, Zenon DEF ReceiveData, ReserveEvent
  <2>2. ch'.incoming = ch.incoming /\ ch'.events = ch.events
    BY <1>0, <2>1 DEF ChannelType
  <2>3. "data" \notin RequestKinds
    BY <1>4
  <2>4. QED
    BY <1>3, <2>1, <2>2, <2>3, Zenon
<1>8. ASSUME NEW s \in States
      PROVE  LET c == [ch EXCEPT !.state = s]
             IN  c \in ChannelType /\ c.incoming = ch.incoming /\ c.events = ch.events
  BY <1>0, StateChannel, Zenon DEF IsChannel
<1>9. ASSUME NEW c \in ChannelType, c.incoming = ch.incoming, c.events = ch.events,
             NEW m \in Events
      PROVE  /\ TakesEvent(m, c) \in ChannelType
             /\ TakesEvent(m, c).incoming = ch.incoming
             /\ TakesEvent(m, c).events = Append(ch.events, m)
  BY <1>9, TakesEventFields, Zenon
<1>10. CASE ReceiveChannelEOF
  <2> DEFINE c == [ch EXCEPT !.state = "remoteEOF"]
  <2>1. Receives("eof") /\ UNCHANGED <<outbound, dispatchQueue, incomingGlobal, control>>
        /\ ch' = TakesEvent(Head(wire), c)
    BY <1>1, <1>10, Zenon DEF ReceiveChannelEOF, ReserveEvent
  <2>2. Head(wire) \in Events
    <3>1. "eof" \in EventKinds
      BY DEF EventKinds
    <3>2. QED
      BY <1>0, <2>1, <3>1, HeadOfWire, FramesToQueues, Zenon
  <2>3. c \in ChannelType /\ c.incoming = ch.incoming /\ c.events = ch.events
    BY <1>8, Constants
  <2> HIDE DEF c
  <2>4. ch'.incoming = ch.incoming /\ ch'.events = Append(ch.events, Head(wire))
    BY <1>9, <2>1, <2>2, <2>3, Zenon
  <2>5. "eof" \notin RequestKinds
    BY <1>4
  <2>6. QED
    BY <1>3, <2>1, <2>2, <2>4, <2>5, Zenon
<1>11. CASE ReceiveCloseAnswer
  <2>1. Receives("close") /\ UNCHANGED <<outbound, dispatchQueue, incomingGlobal, control>>
    BY <1>11, Zenon DEF ReceiveCloseAnswer, budgetVars
  <2>2. ch'.incoming = ch.incoming /\ ch'.events = ch.events
    BY <1>0, <1>11, ReceiveCloseAnswerChannel, Zenon DEF IsChannel
  <2>3. "close" \notin RequestKinds
    BY <1>4
  <2>4. QED
    BY <1>3, <2>1, <2>2, <2>3, Zenon
<1>12. CASE ReceiveChannelClose
  <2> DEFINE c == [ch EXCEPT !.state = "closed"]
             d == TakesEvent(Head(wire), c)
             x == Write("close", 0, FALSE, None)
  <2>1. Receives("close") /\ UNCHANGED <<outbound, dispatchQueue, incomingGlobal>>
        /\ control' = Append(control, x) /\ ch' = [d EXCEPT !.inTable = FALSE]
    BY <1>1, <1>12, Zenon DEF ReceiveChannelClose
  <2>2. Head(wire) \in Events
    <3>1. "close" \in EventKinds
      BY DEF EventKinds
    <3>2. QED
      BY <1>0, <2>1, <3>1, HeadOfWire, FramesToQueues, Zenon
  <2>3. c \in ChannelType /\ c.incoming = ch.incoming /\ c.events = ch.events
    BY <1>8, Constants
  <2>4. x \in ControlWrites /\ x.kind = "close"
    <3>1. "close" \in ResultKinds \cup {"close", "disconnect"} /\ 0 \in Nat
      OBVIOUS
    <3>2. QED
      BY <3>1, ControlWriteType, Zenon
  <2> HIDE DEF c, x
  <2>5. d \in ChannelType /\ d.incoming = ch.incoming
        /\ d.events = Append(ch.events, Head(wire))
    BY <1>9, <2>2, <2>3, Zenon
  <2> HIDE DEF d
  <2>6. ch'.incoming = ch.incoming /\ ch'.events = Append(ch.events, Head(wire))
    BY <2>1, <2>5, RemovedChannel, Zenon DEF IsChannel
  <2>7. "close" \notin RequestKinds
    BY <1>4
  <2>8. QED
    BY <1>3, <2>1, <2>2, <2>4, <2>6, <2>7, Zenon
<1>13. QED
  BY <1>2, <1>5, <1>6, <1>7, <1>10, <1>11, <1>12, AccountsGlobalRequest,
     AccountsChannelRequest, Zenon DEF ReceiverNext

LEMMA AccountsStep ==
  ASSUME Types, OnlyRequestsAsk, Accounts, Next, down' = "no"
  PROVE  Accounts'
BY AccountsShutdown, AccountsWriter, AccountsCall, AccountsChannel, AccountsDispatch,
   AccountsWorker, AccountsPeer, AccountsReceiver, Zenon DEF Next

\* What becomes of the channel's events, and of the one the worker handles.
LEMMA EventsMove ==
  ASSUME Types, Next
  PROVE  /\ \/ ch'.events = ch.events
            \/ ch.events # <<>> /\ ch'.events = Tail(ch.events)
            \/ wire # <<>> /\ Head(wire) \in Events /\ ch'.events = Append(ch.events, Head(wire))
         /\ worker'.ev = worker.ev \/ (ch.events # <<>> /\ worker'.ev = Head(ch.events))
<1>0. ch \in ChannelType /\ worker \in WorkerType
  BY Zenon DEF Types, LoopType
<1>1. \A a \in {"idle", "queued", "stopped"} : WorkerAt(a).ev = worker.ev
  BY <1>0, WorkerMoves
<1>2. CASE ~TouchesChannel
  BY <1>2, OthersStand, Zenon DEF Stands
<1>3. CASE WorkerTake
  <2>1. ch.events # <<>> /\ worker' = [at |-> "handling", ev |-> Head(ch.events)]
    BY <1>3, Zenon DEF WorkerTake
  <2>2. worker'.ev = Head(ch.events)
    BY <2>1
  <2>3. ch'.events = Tail(ch.events)
    BY <1>0, <1>3, WorkerTakeChannel, Zenon DEF IsChannel
  <2>4. QED
    BY <2>1, <2>2, <2>3
<1>4. CASE WorkerNext /\ ~WorkerTake
  <2>1. worker' \in {WorkerAt("idle"), WorkerAt("queued"), WorkerAt("stopped")}
    BY <1>4, Zenon DEF WorkerNext, WorkerStart, WorkerStop, WorkerHandled, WorkerClose,
       WorkerReply, WorkerRefused, WorkerWithdraw, WorkerFail
  <2>2. worker'.ev = worker.ev
    BY <1>1, <2>1
  <2>3. ch'.events = ch.events
    <3>1. CASE WorkerClose
      BY <1>0, <3>1, WorkerCloseChannel, Zenon DEF IsChannel
    <3>2. CASE WorkerRefused \/ WorkerWithdraw
      <4>1. \E err : WorkerFail(err)
        BY <3>2, Zenon DEF WorkerRefused, WorkerWithdraw
      <4>2. QED
        BY <1>0, <4>1, WorkerFailChannel, Zenon DEF IsChannel
    <3>3. CASE WorkerStart \/ WorkerStop \/ WorkerHandled \/ WorkerReply
      BY <3>3, Zenon DEF WorkerStart, WorkerStop, WorkerHandled, WorkerReply
    <3>4. QED
      BY <1>4, <3>1, <3>2, <3>3, Zenon DEF WorkerNext
  <2>4. QED
    BY <2>2, <2>3
<1>5. CASE ChannelNext
  <2>1. UNCHANGED worker
    BY <1>5, Zenon DEF ChannelNext, Recv, RecvEnd, ChannelClose, CloseQueue, CloseTimeout,
       loopVars
  <2>2. ch'.events = ch.events
    <3>1. CASE Recv \/ RecvEnd \/ ChannelClose
      BY <1>0, <3>1, RecvChannel, RecvEndChannel, ChannelCloseChannel, Zenon DEF IsChannel
    <3>2. CASE CloseTimeout /\ ch.state = "closing"
      BY <1>0, <3>2, CloseTimeoutChannel, Zenon DEF IsChannel
    <3>3. CASE (CloseTimeout /\ ch.state # "closing") \/ CloseQueue
      BY <3>3, Zenon DEF CloseTimeout, CloseQueue
    <3>4. QED
      BY <1>5, <3>1, <3>2, <3>3, Zenon DEF ChannelNext
  <2>3. QED
    BY <2>1, <2>2
<1>6. CASE ShutdownFinish
  <2>1. UNCHANGED worker /\ (~ch.inTable => ch' = ch)
    BY <1>6, Zenon DEF ShutdownFinish, loopVars
  <2>2. ch.inTable => ch'.events = ch.events
    BY <1>0, <1>6, ShutdownFinishChannel, Zenon DEF IsChannel
  <2>3. QED
    BY <2>1, <2>2, Zenon
<1>7. CASE WriterSend \/ WriterFail
  <2>1. worker' = worker \/ worker' = WorkerAt("idle") \/ worker' = WorkerAt("stopped")
    BY <1>7, Zenon DEF WriterSend, Written, WriterFail, WorkerAt
  <2>2. worker'.ev = worker.ev
    BY <1>1, <2>1
  <2>3. ch'.events = ch.events
    <3>1. CASE WriterSend
      <4>1. Written(writer.msg)
        BY <3>1, Zenon DEF WriterSend
      <4>2. QED
        BY <1>0, <4>1, WriterSendChannel, Zenon DEF IsChannel
    <3>2. CASE WriterFail
      BY <1>0, <3>2, WriterFailChannel, Zenon DEF IsChannel
    <3>3. QED
      BY <1>7, <3>1, <3>2
  <2>4. QED
    BY <2>2, <2>3
<1>8. CASE ReceiveChannelRequest \/ ReceiveChannelEOF \/ ReceiveChannelClose
  <2>1. wire # <<>>
    BY <1>8, Zenon DEF ReceiveChannelRequest, ReceiveChannelEOF, ReceiveChannelClose, Receives
  <2>2. QED
    BY <1>8, <2>1, ReceivedRequest, ReceivedEOF, ReceivedClose, Zenon DEF Turns, Takes
<1>9. CASE ReceiveData
  BY <1>9, ReceivedData, Zenon DEF Turns
<1>10. CASE ReceiveCloseAnswer
  <2>1. UNCHANGED worker
    BY <1>10, Zenon DEF ReceiveCloseAnswer, Receives
  <2>2. ch'.events = ch.events
    BY <1>0, <1>10, ReceiveCloseAnswerChannel, Zenon DEF IsChannel
  <2>3. QED
    BY <2>1, <2>2
<1>11. QED
  BY <1>2, <1>3, <1>4, <1>5, <1>6, <1>7, <1>8, <1>9, <1>10, Zenon DEF TouchesChannel

AllWellAsked(q) == \A i \in DOMAIN q : WellAsked(q[i])

LEMMA WellAskedMoves ==
  ASSUME NEW T, NEW q \in Seq(T), AllWellAsked(q)
  PROVE  /\ q # <<>> => WellAsked(Head(q)) /\ AllWellAsked(Tail(q))
         /\ \A m \in T : WellAsked(m) => AllWellAsked(Append(q, m))
<1>1. ASSUME q # <<>>
      PROVE  WellAsked(Head(q)) /\ AllWellAsked(Tail(q))
  <2>1. /\ Head(q) = q[1] /\ 1 \in DOMAIN q
        /\ \A i \in DOMAIN Tail(q) : i + 1 \in DOMAIN q /\ Tail(q)[i] = q[i + 1]
    BY <1>1
  <2>2. QED
    BY <2>1, Zenon DEF AllWellAsked
<1>2. ASSUME NEW m \in T, WellAsked(m)
      PROVE  AllWellAsked(Append(q, m))
  BY <1>2 DEF AllWellAsked
<1>3. QED
  BY <1>1, <1>2

LEMMA AskedStep ==
  ASSUME Types, OnlyRequestsAsk, Next
  PROVE  OnlyRequestsAsk'
<1>0. /\ PeerType /\ wire \in Seq(PeerFrames) /\ ch \in ChannelType
      /\ ch.events \in Seq(Events)
  BY ChannelFields, Zenon DEF Types, PeerType
<1>1. AllWellAsked(wire) /\ AllWellAsked(ch.events) /\ WellAsked(worker.ev)
  BY Zenon DEF OnlyRequestsAsk, AllWellAsked
<1>2. AllWellAsked(wire')
  <2>1. CASE ReceiverNext
    BY <1>0, <1>1, <2>1, WireReceiver, WellAskedMoves, Zenon
  <2>2. CASE ~PeerNext /\ ~ReceiverNext
    BY <1>1, <2>2, WireStays, Zenon
  <2>3. ASSUME NEW kind \in env.use.peer, NEW reply \in BOOLEAN, PeerSend(kind, reply)
        PROVE  AllWellAsked(wire')
    <3> DEFINE m == Msg(kind, env.sent + 1, reply /\ kind \in RequestKinds)
    <3>1. /\ m \in PeerFrames /\ wire' = Append(wire, m) /\ m.kind = kind
          /\ m.reply = (reply /\ kind \in RequestKinds)
      BY <1>0, <2>3, PeerSends, ZenonT(60) DEF IsMsg
    <3> HIDE DEF m
    <3>2. WellAsked(m)
      BY <3>1, Zenon DEF WellAsked
    <3>3. QED
      BY <1>0, <1>1, <3>1, <3>2, WellAskedMoves, Zenon
  <2>4. ASSUME NEW c \in Callers, PeerAnswer(c)
        PROVE  AllWellAsked(wire')
    <3> DEFINE m == Msg(AnswerKind(c), c, FALSE)
    <3>1. m \in PeerFrames /\ wire' = Append(wire, m) /\ m.reply = FALSE
      BY <1>0, <2>4, PeerAnswers, Zenon DEF IsMsg
    <3> HIDE DEF m
    <3>2. WellAsked(m)
      BY <3>1, Zenon DEF WellAsked
    <3>3. QED
      BY <1>0, <1>1, <3>1, <3>2, WellAskedMoves, Zenon
  <2>5. CASE Break
    BY <1>1, <2>5, Zenon DEF Break
  <2>6. QED
    BY <2>1, <2>2, <2>3, <2>4, <2>5, Zenon DEF PeerNext
<1>3. wire # <<>> => WellAsked(Head(wire))
  BY <1>0, <1>1, WellAskedMoves, Zenon
<1>4. ch.events # <<>> => WellAsked(Head(ch.events)) /\ AllWellAsked(Tail(ch.events))
  BY <1>0, <1>1, WellAskedMoves, Zenon
<1>5. AllWellAsked(ch'.events)
  BY <1>0, <1>1, <1>3, <1>4, EventsMove, WellAskedMoves, Zenon
<1>6. WellAsked(worker'.ev)
  BY <1>1, <1>4, EventsMove, Zenon
<1>7. QED
  BY <1>2, <1>5, <1>6, Zenon DEF OnlyRequestsAsk, AllWellAsked

LEMMA IncomingStep ==
  ASSUME Types, IncomingInv, [Next]_vars
  PROVE  IncomingInv'
<1>1. CASE Next
  <2>1. OnlyRequestsAsk'
    BY <1>1, AskedStep, Zenon DEF IncomingInv
  <2>2. ASSUME down' = "no"
        PROVE  Accounts'
    <3>1. down = "no"
      BY <1>1, <2>2, AliveBefore, Zenon
    <3>2. QED
      BY <1>1, <2>2, <3>1, AccountsStep, Zenon DEF IncomingInv, Accounts
  <2>3. QED
    BY <2>1, <2>2, Zenon DEF IncomingInv, Accounts
<1>2. CASE UNCHANGED vars
  <2>1. UNCHANGED <<down, incomingGlobal, dispatchQueue, dispatcher, worker, control,
                    outbound, wire, env, writer, ch>>
    BY <1>2, Zenon DEF vars, lifeVars, budgetVars, loopVars
  <2>2. Accounts => Accounts'
    BY <2>1, AccountsSame, Zenon
  <2>3. OnlyRequestsAsk'
    BY <2>1, Zenon DEF IncomingInv, OnlyRequestsAsk
  <2>4. QED
    BY <2>1, <2>2, <2>3, Zenon DEF IncomingInv, Accounts
<1>3. QED
  BY <1>1, <1>2

LEMMA IncomingInit ==
  ASSUME Init
  PROVE  IncomingInv
<1>1. /\ control = <<>> /\ outbound = <<>> /\ dispatchQueue = <<>> /\ wire = <<>>
      /\ ch.events = <<>> /\ ch.incoming = {} /\ incomingGlobal = {} /\ env.sent = 0
      /\ worker.at = "starting" /\ worker.ev = Msg("eof", 0, FALSE)
      /\ writer.msg = NoWrite /\ dispatcher.at = "idle"
  BY DEF Init, Idle
<1>2. \A kind, asks : Once(<<>>, kind, asks) /\ Ids(<<>>, kind, asks) = {}
  BY DEF Once, Ids
<1>3. GlobalHandled = {} /\ ChannelHandled = {}
  BY <1>1, HandledIs DEF GlobalHandled, ChannelHandled
<1>4. /\ Rejected("globalResult", "dispatcher", NoWrite) = {}
      /\ Rejected("channelResult", "worker", NoWrite) = {}
      /\ NoWrite.waits # "dispatcher" /\ NoWrite.waits # "worker"
  BY NoWriteType, FlowNames DEF Rejected, Handled
<1>5. Apart({}, {}, {}, {}, {}, {}, 0)
  BY DEF Apart
<1>6. /\ OneReply("dispatcher", {}, "idle", NoWrite, <<>>)
      /\ OneReply("worker", {}, "starting", NoWrite, <<>>)
  BY <1>4 DEF OneReply
<1>7. GlobalAccount /\ ChannelAccount
  BY <1>1, <1>2, <1>3, <1>4, <1>5, <1>6, Zenon DEF GlobalAccount, ChannelAccount, Account
<1>8. OnlyRequestsAsk
  BY <1>1 DEF OnlyRequestsAsk, WellAsked, Msg
<1>9. QED
  BY <1>7, <1>8, Zenon DEF IncomingInv

\* The sets of IncomingAccounted are those of the accounts.
LEMMA SameIds ==
  ASSUME Types
  PROVE  /\ Asking(dispatchQueue) = Ids(dispatchQueue, "globalRequest", TRUE)
         /\ Asking(ch.events) = Ids(ch.events, "channelRequest", TRUE)
         /\ \A kind : IdsOf(control, kind) = Ids(control, kind, FALSE)
<1>1. dispatchQueue \in Seq(Tasks) /\ ch.events \in Seq(Events)
  BY ChannelFields, Zenon DEF Types, QueueType
<1>2. \A i \in DOMAIN dispatchQueue : dispatchQueue[i].kind = "globalRequest"
  <2>1. \A i \in DOMAIN dispatchQueue : dispatchQueue[i] \in Tasks
    BY <1>1
  <2>2. QED
    BY <2>1, Zenon DEF Tasks
<1>3. \A i \in DOMAIN ch.events :
         ch.events[i].kind \in RequestKinds <=> ch.events[i].kind = "channelRequest"
  <2>1. \A i \in DOMAIN ch.events : ch.events[i] \in Events
    BY <1>1
  <2>2. \A m \in Events : m.kind \in RequestKinds <=> m.kind = "channelRequest"
    BY DEF Events, EventKinds, RequestKinds
  <2>3. QED
    BY <2>1, <2>2, Zenon
<1>4. Asking(dispatchQueue) = Ids(dispatchQueue, "globalRequest", TRUE)
  BY <1>2 DEF Asking, Ids, Marks, RequestKinds
<1>5. Asking(ch.events) = Ids(ch.events, "channelRequest", TRUE)
  BY <1>3 DEF Asking, Ids, Marks
<1>6. \A kind : IdsOf(control, kind) = Ids(control, kind, FALSE)
  BY DEF IdsOf, Ids, Marks
<1>7. QED
  BY <1>4, <1>5, <1>6

LEMMA SameWritten ==
  ASSUME Types, NEW H, NEW at, NEW res, NEW who, OneReply(who, H, at, writer.msg, outbound),
         res # "disconnect"
  PROVE  H \cup BeingWritten(res) = H \cup Rejected(res, who, writer.msg)
<1>1. writer.at # "sending" => writer.msg.kind = "disconnect"
  BY NoWriteType, Zenon DEF Types, LoopType
<1>2. writer.msg.waits = who => H = {writer.msg.id}
  BY Zenon DEF OneReply
<1>3. QED
  BY <1>1, <1>2 DEF BeingWritten, Rejected, Handled

(***************************************************************************)
(* In a live session the ids that Session and Channel remember of the      *)
(* peer's requests are exactly those of the requests that are queued or    *)
(* handled and of the answers that are unwritten, whatever is rejected at  *)
(* a limit, replied to or written in between, for any limits and any       *)
(* number of requests (finishIncomingGlobal, finishIncomingRequest).       *)
(***************************************************************************)
THEOREM IncomingIdsExact == Spec => []IncomingAccounted
<1>1. Init => IncomingInv
  BY IncomingInit
<1>2. TypedBudget /\ IncomingInv /\ [Next]_vars => IncomingInv'
  BY IncomingStep, Zenon DEF TypedBudget
<1>3. TypedBudget /\ IncomingInv => IncomingAccounted
  <2> SUFFICES ASSUME Types, GlobalAccount, ChannelAccount
               PROVE  /\ incomingGlobal = Asking(dispatchQueue) \cup GlobalHandled
                            \cup IdsOf(control, "globalResult") \cup BeingWritten("globalResult")
                      /\ ch.incoming = Asking(ch.events) \cup ChannelHandled
                            \cup IdsOf(control, "channelResult")
                            \cup BeingWritten("channelResult")
    BY Zenon DEF TypedBudget, IncomingInv, IncomingAccounted, GlobalHandled, ChannelHandled
  <2>1. /\ GlobalHandled \cup BeingWritten("globalResult")
              = GlobalHandled \cup Rejected("globalResult", "dispatcher", writer.msg)
        /\ ChannelHandled \cup BeingWritten("channelResult")
              = ChannelHandled \cup Rejected("channelResult", "worker", writer.msg)
    BY SameWritten, FlowNames, Zenon DEF GlobalAccount, ChannelAccount, Account
  <2>2. /\ incomingGlobal = Asking(dispatchQueue) \cup GlobalHandled
              \cup IdsOf(control, "globalResult")
              \cup Rejected("globalResult", "dispatcher", writer.msg)
        /\ ch.incoming = Asking(ch.events) \cup ChannelHandled
              \cup IdsOf(control, "channelResult")
              \cup Rejected("channelResult", "worker", writer.msg)
    BY SameIds, Zenon DEF GlobalAccount, ChannelAccount, Account, Apart
  <2>3. QED
    BY <2>1, <2>2
<1>4. QED
  BY <1>1, <1>2, <1>3, Typed, PTL DEF Spec

=============================================================================
