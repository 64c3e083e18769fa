------------------------ MODULE ChannelTable_proofs ------------------------
(***************************************************************************)
(* Proofs about ChannelTable, for any ids of the peer and any limits: the  *)
(* types, and that the slot counters, the request counter and the map of   *)
(* the peer's ids agree with the table until the session is shut down, and *)
(* that an open finds and activates its channel.                           *)
(***************************************************************************)
EXTENDS ChannelTable, ByteSum_proofs, FiniteSetTheorems, TLAPS

-----------------------------------------------------------------------------
(* Type correctness, by groups of actions.                                 *)

\* removeChannel, and a counter that stops at zero, keep the table's types.
LEMMA RemoveType ==
  ASSUME TypeOK, NEW i \in Ids, Remove(i)
  PROVE  /\ channels' \subseteq Ids
         /\ slot' \in [Ids -> Slots]
         /\ peerChannelIDs' \in [PeerIds -> Ids \cup {NoId}]
         /\ pendingOpens' \in Nat
         /\ activeChannels' \in Nat
<1>1. CASE i \notin channels /\ UNCHANGED tableVars
  BY <1>1 DEF TypeOK, tableVars
<1>2. CASE ~(i \notin channels /\ UNCHANGED tableVars)
  <2>1. channels' = channels \ {i} /\ slot' = [slot EXCEPT ![i] = "none"]
    BY <1>2 DEF Remove
  <2>2. peerChannelIDs' = [p \in PeerIds |-> IF peerChannelIDs[p] = i THEN NoId
                                             ELSE peerChannelIDs[p]]
    BY <1>2 DEF Remove
  <2>3. pendingOpens' \in Nat /\ activeChannels' \in Nat
    BY <1>2 DEF Remove, Less, TypeOK
  <2>4. slot' \in [Ids -> Slots] /\ channels' \subseteq Ids
    BY <2>1 DEF TypeOK, Slots
  <2>5. peerChannelIDs' \in [PeerIds -> Ids \cup {NoId}]
    BY <2>2 DEF TypeOK
  <2>6. QED
    BY <2>3, <2>4, <2>5
<1>3. QED
  BY <1>1, <1>2

\* activateChannel keeps the table's types.
LEMMA ActivateType ==
  ASSUME TypeOK, NEW i \in Ids,
         Activate(i) \/ UNCHANGED <<slot, pendingOpens, activeChannels>>
  PROVE  slot' \in [Ids -> Slots] /\ pendingOpens' \in Nat /\ activeChannels' \in Nat
<1>1. CASE Activate(i)
  <2>1. slot' = [slot EXCEPT ![i] = "active"] /\ slot \in [Ids -> Slots]
    BY <1>1 DEF Activate, TypeOK
  <2>2. slot' \in [Ids -> Slots]
    BY <2>1 DEF Slots
  <2>3. pendingOpens' \in Nat /\ activeChannels' \in Nat
    BY <1>1 DEF Activate, CanActivate, TypeOK
  <2>4. QED
    BY <2>2, <2>3
<1>2. CASE UNCHANGED <<slot, pendingOpens, activeChannels>>
  BY <1>2 DEF TypeOK
<1>3. QED
  BY <1>1, <1>2

\* Channel.shutdown keeps the channel's types.
LEMMA ShutdownChannelType ==
  ASSUME TypeOK, NEW i \in Ids, ShutdownChannel(i)
  PROVE  /\ state' \in [Ids -> States]
         /\ openWait' \in [Ids -> BOOLEAN]
         /\ pendingRequests' \in [Ids -> Nat]
         /\ releasing' \in Nat
         /\ pendingChannelRequests' \in Nat
BY DEF TypeOK, ShutdownChannel, FailRequests, States

\* The steps of OpenChannel keep the types.
LEMMA OpeningType ==
  ASSUME TypeOK, NEW i \in Ids, Opening(i)
  PROVE  TypeOK'
<1> USE LimitsAssumption
<1>1. CASE OpenChannel(i)
  BY <1>1 DEF TypeOK, OpenChannel, Ids, Openers, tableVars, requestVars, dispatchVars,
              downVars, peerVars
<1>2. CASE OpenAdd(i)
  <2>1. channels' \subseteq Ids /\ pendingOpens' \in Nat /\ activeChannels' \in Nat
    BY <1>2 DEF TypeOK, OpenAdd, AddPending
  <2>2. slot' \in [Ids -> Slots] /\ state' \in [Ids -> States]
    BY <1>2 DEF TypeOK, OpenAdd, AddPending, Slots, States
  <2>3. openWait' \in [Ids -> BOOLEAN] /\ opener' \in [Ids -> Openers]
    BY <1>2 DEF TypeOK, OpenAdd, Openers
  <2>4. QED
    BY <1>2, <2>1, <2>2, <2>3
       DEF TypeOK, OpenAdd, requestVars, dispatchVars, downVars, peerVars
<1>3. CASE OpenSent(i)
  BY <1>3 DEF TypeOK, OpenSent, Openers, tableVars, requestVars, dispatchVars, downVars
<1>4. CASE OpenSendFails(i)
  <2>1. Remove(i) /\ opener' \in [Ids -> Openers]
    BY <1>4 DEF OpenSendFails, TypeOK, Openers
  <2>2. QED
    BY <1>4, <2>1, RemoveType
       DEF TypeOK, OpenSendFails, requestVars, dispatchVars, downVars, peerVars
<1>a. CASE OpenFailed(i)
  <2>1. ShutdownChannel(i) /\ opener' \in [Ids -> Openers]
    BY <1>a DEF OpenFailed, TypeOK, Openers
  <2>2. QED
    BY <1>a, <2>1, ShutdownChannelType
       DEF TypeOK, OpenFailed, tableVars, dispatchVars, downVars, peerVars
<1>5. CASE OpenReturns(i)
  BY <1>5 DEF TypeOK, OpenReturns, Openers, tableVars, requestVars, dispatchVars, downVars,
              peerVars
<1>6. CASE OpenAbandoned(i)
  <2>1. state' \in [Ids -> States] /\ opener' \in [Ids -> Openers]
    BY <1>6 DEF TypeOK, OpenAbandoned, States, Openers
  <2>2. openWait' \in [Ids -> BOOLEAN] /\ removing' \subseteq Ids
    BY <1>6 DEF TypeOK, OpenAbandoned
  <2>3. /\ pendingRequests' \in [Ids -> Nat]
        /\ releasing' \in Nat
        /\ pendingChannelRequests' \in Nat
    <3>1. FailRequests(i) \/ UNCHANGED requestVars
      BY <1>6 DEF OpenAbandoned
    <3>2. QED
      BY <3>1 DEF TypeOK, FailRequests, requestVars
  <2>4. QED
    BY <1>6, <2>1, <2>2, <2>3
       DEF TypeOK, OpenAbandoned, tableVars, dispatchVars, downVars, peerVars
<1>7. QED
  BY <1>1, <1>2, <1>3, <1>4, <1>5, <1>6, <1>a DEF Opening

\* Close, its timer and the removals keep the types.
LEMMA ClosingType ==
  ASSUME TypeOK, NEW i \in Ids, Closing(i)
  PROVE  TypeOK'
<1>1. CASE Close(i)
  BY <1>1 DEF TypeOK, Close, FailRequests, States, tableVars, dispatchVars, downVars,
              peerVars
<1>2. CASE CloseTimeout(i)
  BY <1>2 DEF TypeOK, CloseTimeout, States, tableVars, requestVars, dispatchVars, downVars
<1>3. CASE RemoveChannel(i)
  <2>1. Remove(i)
    BY <1>3 DEF RemoveChannel
  <2>2. QED
    BY <1>3, <2>1, RemoveType
       DEF TypeOK, RemoveChannel, requestVars, dispatchVars, downVars, peerVars
<1>4. QED
  BY <1>1, <1>2, <1>3 DEF Closing

\* The steps of requests keep the types.
LEMMA RequestingType ==
  ASSUME TypeOK, NEW i \in Ids, Requesting(i) \/ ReleaseRequest
  PROVE  TypeOK'
<1>1. CASE SendRequest(i)
  BY <1>1 DEF TypeOK, SendRequest, tableVars, dispatchVars, downVars, peerVars
<1>2. CASE RequestDone(i)
  BY <1>2 DEF TypeOK, RequestDone, tableVars, dispatchVars, downVars, peerVars
<1>3. CASE RemoteCloseEvent(i)
  BY <1>3 DEF TypeOK, RemoteCloseEvent, FailRequests, tableVars, dispatchVars, downVars,
              peerVars
<1>4. CASE ReleaseRequest
  BY <1>4 DEF TypeOK, ReleaseRequest, Less, tableVars, dispatchVars, downVars, peerVars
<1>5. QED
  BY <1>1, <1>2, <1>3, <1>4 DEF Requesting

\* The steps of the receiver keep the types.
LEMMA ReceivingType ==
  ASSUME TypeOK, NEW i \in Ids, Receiving(i)
  PROVE  TypeOK'
<1> USE LimitsAssumption
<1>0. /\ \A place \in ReceiverPlaces : At(place, i) \in [at : ReceiverPlaces, ch : Ids \cup {NoId}]
      /\ Idle \in [at : ReceiverPlaces, ch : Ids \cup {NoId}]
      /\ Stopped \in [at : ReceiverPlaces, ch : Ids \cup {NoId}]
  BY DEF At, Idle, Stopped, ReceiverPlaces
<1>a. /\ {"found", "activate", "answer", "rejected", "closed", "refused", "dropped"}
            \subseteq ReceiverPlaces
  BY DEF ReceiverPlaces
<1>1. ASSUME NEW p \in PeerIds, EnqueueIncomingOpen(i, p) \/ IncomingOpenDropped(i, p)
      PROVE  TypeOK'
  <2>0. AdmitIncoming(i, p)
    BY <1>1 DEF EnqueueIncomingOpen, IncomingOpenDropped
  <2>1. /\ nextLocalChannelID' \in 0..MaxIds
        /\ channels' \subseteq Ids /\ pendingOpens' \in Nat /\ activeChannels' \in Nat
    BY <2>0 DEF TypeOK, AdmitIncoming, Receives, AddPending, Ids
  <2>2. slot' \in [Ids -> Slots] /\ state' \in [Ids -> States]
    BY <2>0 DEF TypeOK, AdmitIncoming, AddPending, Slots, States
  <2>3. peerChannelIDs' \in [PeerIds -> Ids \cup {NoId}]
    BY <2>0 DEF TypeOK, AdmitIncoming
  <2>4. dispatchQueue' \in Seq(PeerIds)
    <3>1. dispatchQueue' = Append(dispatchQueue, p) \/ dispatchQueue' = dispatchQueue
      BY <1>1 DEF EnqueueIncomingOpen, IncomingOpenDropped
    <3>2. dispatchQueue \in Seq(PeerIds) /\ Append(dispatchQueue, p) \in Seq(PeerIds)
      BY DEF TypeOK
    <3>3. QED
      BY <3>1, <3>2
  <2>5. receiver' \in [at : ReceiverPlaces, ch : Ids \cup {NoId}]
    BY <1>0, <1>a, <1>1 DEF TypeOK, EnqueueIncomingOpen, IncomingOpenDropped
  <2>6. QED
    BY <2>0, <2>1, <2>2, <2>3, <2>4, <2>5
       DEF TypeOK, AdmitIncoming, requestVars, downVars, peerVars
<1>b. CASE Lookup(i) \/ OtherMessage(i)
  <2>1. excused' \in BOOLEAN /\ told' = told
    BY <1>b DEF TypeOK, Lookup, OtherMessage, peerVars
  <2>2. receiver' \in [at : ReceiverPlaces, ch : Ids \cup {NoId}]
    BY <1>0, <1>a, <1>b DEF Lookup, OtherMessage
  <2>3. QED
    BY <1>b, <2>1, <2>2
       DEF TypeOK, Lookup, OtherMessage, tableVars, requestVars, dispatchVars, downVars
<1>2. ASSUME NEW p \in PeerIds, OpenAccepted(i, p)
      PROVE  TypeOK'
  <2>0. /\ state' = [state EXCEPT ![i] = "open"] \/ state' = state
        /\ peerChannelIDs' = [peerChannelIDs EXCEPT ![p] = i] \/ peerChannelIDs' = peerChannelIDs
        /\ openWait' = [openWait EXCEPT ![i] = FALSE]
    BY <1>2 DEF OpenAccepted
  <2>1. state' \in [Ids -> States] /\ openWait' \in [Ids -> BOOLEAN]
    BY <2>0 DEF TypeOK, States
  <2>2. peerChannelIDs' \in [PeerIds -> Ids \cup {NoId}]
    BY <2>0 DEF TypeOK
  <2>3. receiver' \in {At("activate", i), Stopped}
    BY <1>2 DEF OpenAccepted
  <2>4. QED
    BY <1>0, <1>a, <1>2, <2>1, <2>2, <2>3
       DEF TypeOK, OpenAccepted, requestVars, dispatchVars, downVars, peerVars
<1>3. CASE IncomingOpenRefused(i)
  BY <1>3 DEF TypeOK, IncomingOpenRefused, Receives, Ids, tableVars, requestVars,
              dispatchVars, downVars, peerVars
<1>4. CASE OpenRejected(i)
  <2>1. state' \in [Ids -> States] /\ openWait' \in [Ids -> BOOLEAN]
    BY <1>4 DEF TypeOK, OpenRejected, States
  <2>2. QED
    BY <1>0, <1>a, <1>4, <2>1
       DEF TypeOK, OpenRejected, tableVars, requestVars, dispatchVars, downVars, peerVars
<1>5. CASE EnqueueChannelClose(i)
  <2>1. state' \in [Ids -> States] /\ receiver' \in {At("closed", i), Stopped}
    BY <1>5 DEF TypeOK, EnqueueChannelClose, States
  <2>2. QED
    BY <1>0, <1>a, <1>5, <2>1
       DEF TypeOK, EnqueueChannelClose, tableVars, requestVars, dispatchVars, downVars, peerVars
<1>6. CASE ReceiverActivate(i)
  <2>1. slot' \in [Ids -> Slots] /\ pendingOpens' \in Nat /\ activeChannels' \in Nat
    BY <1>6, ActivateType DEF ReceiverActivate
  <2>2. internalError' \in BOOLEAN /\ receiver' \in {At("answer", i), Stopped}
    BY <1>6 DEF TypeOK, ReceiverActivate, InternalError
  <2>3. QED
    BY <1>0, <1>a, <1>6, <2>1, <2>2
       DEF TypeOK, ReceiverActivate, requestVars, dispatchVars, downVars, peerVars
<1>7. CASE ReceiverAnswer(i)
  BY <1>0, <1>7 DEF TypeOK, ReceiverAnswer, Openers, tableVars, requestVars, dispatchVars,
                    downVars, peerVars
<1>8. CASE ReceiverRemove(i)
  <2>1. Remove(i) /\ receiver' \in {At("answer", i), Idle, At("dropped", i)}
    BY <1>8 DEF ReceiverRemove
  <2>2. QED
    BY <1>0, <1>a, <1>8, <2>1, RemoveType
       DEF TypeOK, ReceiverRemove, requestVars, dispatchVars, downVars, peerVars
<1>9. CASE ReceiverDrop(i)
  <2>1. ShutdownChannel(i) /\ receiver' \in {Idle, Stopped}
    BY <1>9 DEF ReceiverDrop
  <2>2. QED
    BY <1>0, <1>9, <2>1, ShutdownChannelType
       DEF TypeOK, ReceiverDrop, tableVars, dispatchVars, downVars, peerVars
<1>10. QED
  BY <1>1, <1>2, <1>3, <1>4, <1>5, <1>6, <1>7, <1>8, <1>9, <1>b DEF Receiving

\* The steps of the dispatcher keep the types.
LEMMA DispatchingType ==
  ASSUME TypeOK, NEW i \in Ids, Dispatching(i)
  PROVE  TypeOK'
<1>0. /\ \A place \in DispatcherPlaces :
            At(place, i) \in [at : DispatcherPlaces, ch : Ids \cup {NoId}]
      /\ Idle \in [at : DispatcherPlaces, ch : Ids \cup {NoId}]
      /\ Stopped \in [at : DispatcherPlaces, ch : Ids \cup {NoId}]
      /\ {"activate", "send", "rejecting", "failing"} \subseteq DispatcherPlaces
  BY DEF At, Idle, Stopped, DispatcherPlaces
<1>1. CASE DispatchReject(i) \/ DispatchSendFails(i)
  <2>1. Remove(i) /\ dispatcher' \in {At("rejecting", i), At("failing", i)}
    BY <1>1 DEF DispatchReject, DispatchSendFails
  <2>2. QED
    BY <1>0, <1>1, <2>1, RemoveType
       DEF TypeOK, DispatchReject, DispatchSendFails, requestVars, downVars, peerVars
<1>2. CASE DispatchAccept(i)
  <2>1. state' \in [Ids -> States]
    BY <1>2 DEF TypeOK, DispatchAccept, States
  <2>2. internalError' \in BOOLEAN /\ dispatcher' \in {At("activate", i), Stopped}
    BY <1>2 DEF TypeOK, DispatchAccept, InternalError
  <2>3. QED
    BY <1>0, <1>2, <2>1, <2>2
       DEF TypeOK, DispatchAccept, tableVars, requestVars, downVars, peerVars
<1>3. CASE DispatchActivate(i)
  <2>1. slot' \in [Ids -> Slots] /\ pendingOpens' \in Nat /\ activeChannels' \in Nat
    BY <1>3, ActivateType DEF DispatchActivate
  <2>2. internalError' \in BOOLEAN /\ dispatcher' \in {At("send", i), Stopped}
    BY <1>3 DEF TypeOK, DispatchActivate, InternalError
  <2>3. QED
    BY <1>0, <1>3, <2>1, <2>2
       DEF TypeOK, DispatchActivate, requestVars, downVars, peerVars
<1>4. CASE DispatchSent(i)
  BY <1>0, <1>4 DEF TypeOK, DispatchSent, tableVars, requestVars, downVars
<1>5. CASE DispatchFail(i)
  <2>1. ShutdownChannel(i) /\ dispatcher' \in {Idle, Stopped}
    BY <1>5 DEF DispatchFail
  <2>2. QED
    BY <1>0, <1>5, <2>1, ShutdownChannelType
       DEF TypeOK, DispatchFail, tableVars, downVars, peerVars
<1>6. QED
  BY <1>1, <1>2, <1>3, <1>4, <1>5 DEF Dispatching

\* Every step keeps the types.
LEMMA TypeStep == TypeOK /\ [Next]_vars => TypeOK'
<1> SUFFICES ASSUME TypeOK, [Next]_vars
             PROVE  TypeOK'
  OBVIOUS
<1>1. ASSUME NEW i \in Ids, ShutdownFail(i)
      PROVE  TypeOK'
  <2>1. ShutdownChannel(i) /\ opener' \in [Ids -> Openers] /\ toFail' \subseteq Ids
    BY <1>1 DEF ShutdownFail, TypeOK, Openers
  <2>2. QED
    BY <1>1, <2>1, ShutdownChannelType
       DEF TypeOK, ShutdownFail, tableVars, dispatchVars, peerVars
<1>2. CASE DispatchOpen
  <2>0. dispatchQueue' \in Seq(PeerIds)
    BY <1>2 DEF TypeOK, DispatchOpen
  <2>1. internalError' \in BOOLEAN
    BY <1>2 DEF TypeOK, DispatchOpen, InternalError
  <2>2. dispatcher' \in [at : DispatcherPlaces, ch : Ids \cup {NoId}]
    BY <1>2 DEF TypeOK, DispatchOpen, At, Stopped, DispatcherPlaces
  <2>3. QED
    BY <1>2, <2>0, <2>1, <2>2
       DEF TypeOK, DispatchOpen, tableVars, requestVars, downVars, peerVars
<1>3. CASE ShutdownDetach
  BY <1>3 DEF TypeOK, ShutdownDetach, dispatchVars, peerVars
<1>4. CASE ShutdownCancel
  BY <1>4 DEF TypeOK, ShutdownCancel, tableVars, requestVars, dispatchVars, peerVars
<1>5. CASE ReleaseRequest
  BY <1>5 DEF TypeOK, ReleaseRequest, Less, tableVars, dispatchVars, downVars, peerVars
<1>6. CASE UNCHANGED vars
  BY <1>6 DEF TypeOK, vars, tableVars, requestVars, dispatchVars, downVars, peerVars
<1>7. QED
  BY <1>1, <1>2, <1>3, <1>4, <1>5, <1>6, OpeningType, ClosingType, RequestingType,
     ReceivingType, DispatchingType DEF Next

-----------------------------------------------------------------------------
(* The slots.                                                              *)

\* An id that is not reserved, or whose OpenChannel has not entered it yet.
Fresh(i) == i >= nextLocalChannelID \/ opener[i] = "checked"

\* No one knows of such an id.
FreshIds ==
    \A i \in Ids :
        /\ i >= nextLocalChannelID => opener[i] = "none"
        /\ Fresh(i) =>
              /\ i \notin channels /\ i \notin removing /\ i \notin toFail
              /\ state[i] = "none" /\ ~openWait[i]
              /\ dispatcher.ch # i /\ receiver.ch # i
              /\ \A p \in PeerIds : peerChannelIDs[p] # i

\* What a step does to the table: it enters a new channel below the limits,
\* removes or activates one, takes the table away, or leaves it alone.
TableStep ==
    \/ \E i \in Ids : i \notin channels /\ ~AtLimit /\ AddPending(i) /\ down' = down
    \/ \E i \in Ids : Remove(i) /\ down' = down
    \/ \E i \in Ids : Activate(i) /\ channels' = channels /\ down' = down
    \/ down' # "no"
    \/ UNCHANGED <<channels, slot, pendingOpens, activeChannels, down>>

\* Every step does one of these to the table.
LEMMA StepOfTable == TypeOK /\ FreshIds /\ [Next]_vars => TableStep
<1> SUFFICES ASSUME TypeOK, FreshIds, [Next]_vars
             PROVE  TableStep
  OBVIOUS
<1>1. ASSUME NEW i \in Ids, Opening(i)
      PROVE  TableStep
  BY <1>1 DEF Opening, OpenChannel, OpenAdd, OpenSent, OpenSendFails, OpenFailed, OpenReturns,
              OpenAbandoned, TableStep, FreshIds, Fresh, tableVars, downVars
<1>2. ASSUME NEW i \in Ids, Closing(i)
      PROVE  TableStep
  BY <1>2 DEF Closing, Close, CloseTimeout, RemoveChannel, TableStep, tableVars, downVars
<1>3. ASSUME NEW i \in Ids, Requesting(i)
      PROVE  TableStep
  BY <1>3 DEF Requesting, SendRequest, RequestDone, RemoteCloseEvent, TableStep, tableVars,
              downVars
<1>4. ASSUME NEW i \in Ids, Receiving(i)
      PROVE  TableStep
  <2>1. ASSUME NEW p \in PeerIds, EnqueueIncomingOpen(i, p) \/ IncomingOpenDropped(i, p)
        PROVE  TableStep
    <3>1. AdmitIncoming(i, p)
      BY <2>1 DEF EnqueueIncomingOpen, IncomingOpenDropped
    <3>2. i \notin channels
      BY <3>1 DEF AdmitIncoming, Receives, FreshIds, Fresh, TypeOK, Ids
    <3>3. QED
      BY <3>1, <3>2 DEF AdmitIncoming, TableStep, downVars
  <2>2. ASSUME NEW p \in PeerIds, OpenAccepted(i, p)
        PROVE  TableStep
    BY <2>2 DEF OpenAccepted, TableStep, downVars
  <2>3. ASSUME ~\E p \in PeerIds :
                  EnqueueIncomingOpen(i, p) \/ IncomingOpenDropped(i, p) \/ OpenAccepted(i, p)
        PROVE  TableStep
    BY <1>4, <2>3 DEF Receiving, IncomingOpenRefused, Lookup, OtherMessage, OpenRejected,
                 EnqueueChannelClose, ReceiverActivate, ReceiverAnswer, ReceiverRemove,
                 ReceiverDrop, TableStep, tableVars, downVars
  <2>4. QED
    BY <2>1, <2>2, <2>3
<1>5. ASSUME NEW i \in Ids, Dispatching(i)
      PROVE  TableStep
  BY <1>5 DEF Dispatching, DispatchReject, DispatchAccept, DispatchActivate, DispatchSent,
              DispatchSendFails, DispatchFail, TableStep, tableVars, downVars
<1>6. ASSUME NEW i \in Ids, ShutdownFail(i)
      PROVE  TableStep
  BY <1>6 DEF ShutdownFail, TableStep, tableVars
<1>7. CASE ReleaseRequest \/ DispatchOpen
  BY <1>7 DEF ReleaseRequest, DispatchOpen, TableStep, tableVars, downVars
<1>8. CASE ShutdownDetach \/ ShutdownCancel
  BY <1>8 DEF ShutdownDetach, ShutdownCancel, TableStep
<1>9. CASE UNCHANGED vars
  BY <1>9 DEF vars, tableVars, downVars, TableStep
<1>10. QED
  BY <1>1, <1>2, <1>3, <1>4, <1>5, <1>6, <1>7, <1>8, <1>9 DEF Next

\* The channels with a slot of a kind are finitely many.
LEMMA WithFinite ==
  ASSUME TypeOK, NEW kind
  PROVE  IsFiniteSet(With(kind)) /\ Cardinality(With(kind)) \in Nat
<1>1. IsFiniteSet(Ids)
  BY FS_Interval, LimitsAssumption DEF Ids
<1>2. With(kind) \subseteq Ids
  BY DEF With, TypeOK
<1>3. QED
  BY <1>1, <1>2, FS_Subset, FS_CardinalityType

\* Less counts a set after the removal of a member.
LEMMA LessCount ==
  ASSUME NEW S, IsFiniteSet(S), NEW i
  PROVE  /\ i \in S => Cardinality(S \ {i}) = Less(Cardinality(S))
         /\ i \notin S => Cardinality(S \ {i}) = Cardinality(S)
         /\ Cardinality(S \ {i}) \in Nat /\ Cardinality(S \ {i}) <= Cardinality(S)
<1>1. Cardinality(S) \in Nat
  BY FS_CardinalityType
<1>2. CASE i \in S
  <2>1. Cardinality(S \ {i}) = Cardinality(S) - 1
    BY <1>2, FS_RemoveElement
  <2>2. IsFiniteSet(S \ {i})
    BY FS_RemoveElement
  <2>3. Cardinality(S \ {i}) \in Nat
    BY <2>2, FS_CardinalityType
  <2>4. Less(Cardinality(S)) = Cardinality(S) - 1
    BY <1>1, <2>1, <2>3 DEF Less
  <2>5. QED
    BY <1>1, <1>2, <2>1, <2>3, <2>4
<1>3. CASE i \notin S
  <2>1. S \ {i} = S
    BY <1>3
  <2>2. QED
    BY <1>1, <1>3, <2>1
<1>4. QED
  BY <1>2, <1>3

\* A step of the table keeps the counters in agreement with it.
LEMMA SlotStep == TypeOK /\ SlotAccounting /\ TableStep => SlotAccounting'
<1> SUFFICES ASSUME TypeOK, SlotAccounting, TableStep, down' = "no"
             PROVE  SlotAccounting'
  BY DEF SlotAccounting
<1> USE LimitsAssumption
<1>0. /\ IsFiniteSet(With("pending")) /\ Cardinality(With("pending")) \in Nat
      /\ IsFiniteSet(With("active")) /\ Cardinality(With("active")) \in Nat
  BY WithFinite
<1>1. ASSUME NEW i \in Ids, i \notin channels, ~AtLimit, AddPending(i), down' = down
      PROVE  SlotAccounting'
  <2>1. With("pending")' = With("pending") \cup {i} /\ i \notin With("pending")
    BY <1>1 DEF With, AddPending, TypeOK
  <2>2. With("active")' = With("active")
    BY <1>1 DEF With, AddPending, TypeOK
  <2>3. Cardinality(With("pending")') = Cardinality(With("pending")) + 1
    BY <1>0, <2>1, FS_AddElement
  <2>4. \A j \in Ids : slot'[j] = "none" <=> j \notin channels'
    BY <1>1 DEF AddPending, TypeOK, SlotAccounting
  <2>5. /\ pendingOpens' = pendingOpens + 1 /\ activeChannels' = activeChannels
        /\ pendingOpens < MaxPendingOpens /\ activeChannels + pendingOpens < MaxChannels
        /\ pendingOpens \in Nat /\ activeChannels \in Nat
    BY <1>1 DEF AddPending, AtLimit, TypeOK
  <2>6. /\ pendingOpens = Cardinality(With("pending"))
        /\ activeChannels = Cardinality(With("active"))
    BY <1>1 DEF SlotAccounting
  <2>7. QED
    BY <2>2, <2>3, <2>4, <2>5, <2>6 DEF SlotAccounting
<1>2. ASSUME NEW i \in Ids, Remove(i), down' = down
      PROVE  SlotAccounting'
  <2>0. /\ pendingOpens = Cardinality(With("pending"))
        /\ activeChannels = Cardinality(With("active"))
        /\ \A j \in Ids : slot[j] = "none" <=> j \notin channels
        /\ pendingOpens <= MaxPendingOpens
        /\ activeChannels + pendingOpens <= MaxChannels
        /\ pendingOpens \in Nat /\ activeChannels \in Nat
    BY <1>2 DEF SlotAccounting, TypeOK
  <2>1. CASE i \notin channels
    <3>1. UNCHANGED <<channels, slot, pendingOpens, activeChannels>>
      BY <1>2, <2>1 DEF Remove, tableVars
    <3>2. QED
      BY <1>2, <3>1 DEF SlotAccounting, With
  <2>2. CASE i \in channels
    <3>1. /\ channels' = channels \ {i} /\ slot' = [slot EXCEPT ![i] = "none"]
          /\ pendingOpens' = IF slot[i] = "pending" THEN Less(pendingOpens) ELSE pendingOpens
          /\ activeChannels' = IF slot[i] = "active" THEN Less(activeChannels)
                               ELSE activeChannels
      BY <1>2, <2>2 DEF Remove
    <3>2. /\ With("pending")' = With("pending") \ {i}
          /\ With("active")' = With("active") \ {i}
      BY <3>1 DEF With, TypeOK
    <3>3. /\ slot[i] = "pending" <=> i \in With("pending")
          /\ slot[i] = "active" <=> i \in With("active")
      BY <2>2 DEF With
    <3>4. \A j \in Ids : slot'[j] = "none" <=> j \notin channels'
      BY <2>0, <3>1 DEF TypeOK
    <3>5. /\ pendingOpens' = Cardinality(With("pending")')
          /\ pendingOpens' <= pendingOpens /\ pendingOpens' \in Nat
      <4>1. pendingOpens' = Cardinality(With("pending") \ {i})
        BY <1>0, <2>0, <3>1, <3>3, LessCount
      <4>2. QED
        BY <1>0, <2>0, <3>2, <4>1, LessCount
    <3>6. /\ activeChannels' = Cardinality(With("active")')
          /\ activeChannels' <= activeChannels /\ activeChannels' \in Nat
      <4>1. activeChannels' = Cardinality(With("active") \ {i})
        BY <1>0, <2>0, <3>1, <3>3, LessCount
      <4>2. QED
        BY <1>0, <2>0, <3>2, <4>1, LessCount
    <3>7. QED
      BY <2>0, <3>4, <3>5, <3>6 DEF SlotAccounting
  <2>3. QED
    BY <2>1, <2>2
<1>3. ASSUME NEW i \in Ids, Activate(i), channels' = channels, down' = down
      PROVE  SlotAccounting'
  <2>0. /\ pendingOpens = Cardinality(With("pending"))
        /\ activeChannels = Cardinality(With("active"))
        /\ \A j \in Ids : slot[j] = "none" <=> j \notin channels
        /\ pendingOpens <= MaxPendingOpens
        /\ activeChannels + pendingOpens <= MaxChannels
        /\ pendingOpens \in Nat /\ activeChannels \in Nat
    BY <1>3 DEF SlotAccounting, TypeOK
  <2>1. /\ slot[i] = "pending" /\ slot' = [slot EXCEPT ![i] = "active"]
        /\ pendingOpens' = pendingOpens - 1 /\ activeChannels' = activeChannels + 1
        /\ pendingOpens > 0
    BY <1>3 DEF Activate, CanActivate
  <2>2. i \in channels
    BY <2>0, <2>1
  <2>3. /\ With("pending")' = With("pending") \ {i} /\ i \in With("pending")
        /\ With("active")' = With("active") \cup {i} /\ i \notin With("active")
    BY <1>3, <2>1, <2>2 DEF With, TypeOK
  <2>4. Cardinality(With("pending")') = Cardinality(With("pending")) - 1
    BY <1>0, <2>3, FS_RemoveElement
  <2>5. Cardinality(With("active")') = Cardinality(With("active")) + 1
    BY <1>0, <2>3, FS_AddElement
  <2>6. \A j \in Ids : slot'[j] = "none" <=> j \notin channels'
    BY <1>3, <2>0, <2>1, <2>2 DEF TypeOK
  <2>7. QED
    BY <2>0, <2>1, <2>4, <2>5, <2>6 DEF SlotAccounting
<1>4. CASE UNCHANGED <<channels, slot, pendingOpens, activeChannels, down>>
  BY <1>4 DEF SlotAccounting, With
<1>5. QED
  BY <1>1, <1>2, <1>3, <1>4 DEF TableStep

\* What a step of channel i leaves alone, in the ids that are new.
Touches(i) ==
    /\ \A j \in Ids \ {i} :
          /\ j \in channels' => j \in channels
          /\ j \in removing' => j \in removing
          /\ j \in toFail' => j \in toFail
          /\ state'[j] = state[j] /\ (openWait'[j] => openWait[j]) /\ opener'[j] = opener[j]
    /\ dispatcher'.ch \in {dispatcher.ch, i, NoId}
    /\ receiver'.ch \in {receiver.ch, i, NoId}
    /\ \A p \in PeerIds : peerChannelIDs'[p] \in {peerChannelIDs[p], i, NoId}

\* A step of a channel that is not new, or no longer so, leaves the new ids alone.
LEMMA TouchesFresh ==
  ASSUME TypeOK, FreshIds, NEW i \in Ids, Touches(i), ~Fresh(i)',
         \/ nextLocalChannelID' = nextLocalChannelID
         \/ nextLocalChannelID' = i + 1 /\ i = nextLocalChannelID
  PROVE  FreshIds'
<1>0. /\ nextLocalChannelID \in Nat /\ (\A j \in Ids : j \in Nat) /\ NoId \notin Ids
  BY LimitsAssumption DEF TypeOK, Ids, NoId
<1>1. \A j \in Ids \ {i} : j >= nextLocalChannelID' => j >= nextLocalChannelID
  BY <1>0
<1>2. i < nextLocalChannelID' /\ opener'[i] # "checked"
  <2>1. nextLocalChannelID' \in Nat
    BY <1>0
  <2>2. QED
    BY <1>0, <2>1 DEF Fresh
<1>3. ASSUME NEW j \in Ids
      PROVE  j >= nextLocalChannelID' => opener'[j] = "none"
  BY <1>0, <1>1, <1>2 DEF FreshIds, Touches
<1>4. ASSUME NEW j \in Ids, Fresh(j)'
      PROVE  j # i /\ Fresh(j)
  BY <1>0, <1>1, <1>2, <1>4 DEF Fresh, Touches
<1>5. QED
  BY <1>0, <1>3, <1>4 DEF FreshIds, Touches

\* New ids stay new until they are reserved, and entered once.
LEMMA FreshStep == TypeOK /\ FreshIds /\ [Next]_vars => FreshIds'
<1> SUFFICES ASSUME TypeOK, FreshIds, [Next]_vars
             PROVE  FreshIds'
  OBVIOUS
<1>0. nextLocalChannelID \in Nat /\ (\A i \in Ids : i \in Nat) /\ NoId \notin Ids
  BY LimitsAssumption DEF TypeOK, Ids, NoId
<1>a. ASSUME NEW i \in Ids, ~Fresh(i), nextLocalChannelID' = nextLocalChannelID,
             opener'[i] # "checked", Touches(i)
      PROVE  FreshIds'
  <2>1. ~Fresh(i)'
    BY <1>a DEF Fresh
  <2>2. \/ nextLocalChannelID' = nextLocalChannelID
        \/ nextLocalChannelID' = i + 1 /\ i = nextLocalChannelID
    BY <1>a
  <2>3. Touches(i)
    BY <1>a
  <2>4. QED
    BY <2>1, <2>2, <2>3, TouchesFresh
<1>1. ASSUME NEW i \in Ids, Opening(i)
      PROVE  FreshIds'
  <2>1. CASE OpenChannel(i)
    <3>1. /\ nextLocalChannelID' = i + 1 /\ i = nextLocalChannelID
          /\ opener' = [opener EXCEPT ![i] = "checked"]
          /\ UNCHANGED <<channels, removing, toFail, state, openWait, dispatcher, receiver,
                         peerChannelIDs>>
      BY <2>1 DEF OpenChannel, tableVars, dispatchVars, downVars
    <3>2. \A j \in Ids : j >= nextLocalChannelID' => j >= nextLocalChannelID /\ j # i
      BY <1>0, <3>1
    <3>3. \A j \in Ids : Fresh(j)' => Fresh(j)
      BY <1>0, <3>1, <3>2 DEF Fresh, TypeOK
    <3>4. QED
      BY <1>0, <3>1, <3>2, <3>3 DEF FreshIds, TypeOK
  <2>2. CASE OpenAdd(i)
    <3>1. Touches(i) /\ nextLocalChannelID' = nextLocalChannelID
      BY <2>2 DEF OpenAdd, AddPending, Touches, TypeOK, dispatchVars, downVars
    <3>2. opener[i] = "checked" /\ opener'[i] # "checked"
      BY <2>2 DEF OpenAdd, TypeOK
    <3>3. ~(i >= nextLocalChannelID)
      BY <3>2 DEF FreshIds
    <3>4. ~Fresh(i)'
      BY <3>1, <3>2, <3>3 DEF Fresh
    <3>5. \/ nextLocalChannelID' = nextLocalChannelID
          \/ nextLocalChannelID' = i + 1 /\ i = nextLocalChannelID
      BY <3>1
    <3>6. Touches(i)
      BY <3>1
    <3>7. QED
      BY <3>4, <3>5, <3>6, TouchesFresh
  <2>3. CASE ~OpenChannel(i) /\ ~OpenAdd(i)
    <3>1. opener[i] \notin {"none", "checked"} /\ nextLocalChannelID' = nextLocalChannelID
      BY <1>1, <2>3 DEF Opening, OpenSent, OpenSendFails, OpenFailed, OpenReturns, OpenAbandoned
    <3>2. ~Fresh(i)
      BY <3>1 DEF FreshIds, Fresh
    <3>3. opener'[i] # "checked"
      BY <1>1, <2>3 DEF Opening, OpenSent, OpenSendFails, OpenFailed, OpenReturns,
                        OpenAbandoned, TypeOK
    <3>4. CASE OpenSent(i) \/ OpenReturns(i)
      BY <1>a, <3>1, <3>2, <3>3, <3>4 DEF OpenSent, OpenReturns, Touches, TypeOK, tableVars,
                                          dispatchVars, downVars
    <3>5. CASE OpenSendFails(i)
      <4>1. Touches(i)
        BY <3>5 DEF OpenSendFails, Remove, Touches, TypeOK, tableVars, dispatchVars, downVars
      <4>2. QED
        BY <1>a, <3>1, <3>2, <3>3, <4>1
    <3>6. CASE OpenFailed(i)
      <4>1. Touches(i)
        BY <3>6 DEF OpenFailed, ShutdownChannel, Touches, TypeOK, tableVars, dispatchVars,
                    downVars
      <4>2. QED
        BY <1>a, <3>1, <3>2, <3>3, <4>1
    <3>7. CASE OpenAbandoned(i)
      <4>1. Touches(i)
        BY <3>7 DEF OpenAbandoned, Touches, TypeOK, tableVars, dispatchVars, downVars
      <4>2. QED
        BY <1>a, <3>1, <3>2, <3>3, <4>1
    <3>8. QED
      BY <1>1, <2>3, <3>4, <3>5, <3>6, <3>7 DEF Opening
  <2>4. QED
    BY <2>1, <2>2, <2>3
<1>2. ASSUME NEW i \in Ids, Closing(i)
      PROVE  FreshIds'
  <2>1. state[i] # "none" \/ i \in removing
    BY <1>2 DEF Closing, Close, CloseTimeout, RemoveChannel
  <2>2. ~Fresh(i)
    BY <2>1 DEF FreshIds
  <2>3. opener' = opener /\ nextLocalChannelID' = nextLocalChannelID
    BY <1>2 DEF Closing, Close, CloseTimeout, RemoveChannel
  <2>4. Touches(i)
    BY <1>2 DEF Closing, Close, CloseTimeout, RemoveChannel, Remove, Touches, TypeOK, tableVars,
                dispatchVars, downVars
  <2>5. QED
    BY <1>a, <2>2, <2>3, <2>4 DEF Fresh
<1>3. ASSUME NEW i \in Ids, Requesting(i) \/ ReleaseRequest
      PROVE  FreshIds'
  BY <1>3 DEF Requesting, SendRequest, RequestDone, RemoteCloseEvent, ReleaseRequest,
              FreshIds, Fresh, tableVars, dispatchVars, downVars
<1>4. ASSUME NEW i \in Ids, Receiving(i)
      PROVE  FreshIds'
  <2>1. ASSUME NEW p \in PeerIds, EnqueueIncomingOpen(i, p) \/ IncomingOpenDropped(i, p)
        PROVE  FreshIds'
    <3>0. AdmitIncoming(i, p) /\ receiver'.ch \in {receiver.ch, i}
      BY <2>1 DEF EnqueueIncomingOpen, IncomingOpenDropped, At
    <3>1. Touches(i)
      BY <3>0 DEF AdmitIncoming, AddPending, Touches, TypeOK, downVars
    <3>2. /\ i = nextLocalChannelID /\ nextLocalChannelID' = i + 1
          /\ opener' = opener /\ opener[i] = "none"
      BY <1>0, <3>0 DEF AdmitIncoming, Receives, FreshIds
    <3>3. ~Fresh(i)'
      BY <1>0, <3>2 DEF Fresh
    <3>4. QED
      BY <3>1, <3>2, <3>3, TouchesFresh
  <2>2. CASE IncomingOpenRefused(i)
    <3>1. Touches(i)
      BY <2>2 DEF IncomingOpenRefused, Touches, tableVars, dispatchVars, downVars
    <3>2. /\ i = nextLocalChannelID /\ nextLocalChannelID' = i + 1
          /\ opener' = opener /\ opener[i] = "none"
      BY <1>0, <2>2 DEF IncomingOpenRefused, Receives, FreshIds
    <3>3. ~Fresh(i)'
      BY <1>0, <3>2 DEF Fresh
    <3>4. QED
      BY <3>1, <3>2, <3>3, TouchesFresh
  <2>3. CASE Lookup(i)
    <3>1. ~Fresh(i) /\ Touches(i) /\ nextLocalChannelID' = nextLocalChannelID /\ opener' = opener
      BY <2>3 DEF Lookup, FreshIds, Touches, At, tableVars, dispatchVars, downVars
    <3>2. QED
      BY <1>a, <3>1 DEF Fresh
  <2>4. ASSUME receiver.ch = i, nextLocalChannelID' = nextLocalChannelID, Touches(i),
               opener'[i] \in {opener[i], "answered"}
        PROVE  FreshIds'
    <3>1. ~Fresh(i)
      BY <2>4 DEF FreshIds
    <3>2. QED
      BY <1>a, <2>4, <3>1 DEF Fresh
  <2>5. ASSUME NEW p \in PeerIds, OpenAccepted(i, p)
        PROVE  FreshIds'
    <3>1. Touches(i) /\ receiver.ch = i
      BY <2>5 DEF OpenAccepted, Touches, At, Stopped, TypeOK, dispatchVars, downVars
    <3>2. QED
      BY <2>4, <2>5, <3>1 DEF OpenAccepted
  <2>6. CASE OtherMessage(i) \/ OpenRejected(i) \/ EnqueueChannelClose(i)
    <3>1. Touches(i) /\ receiver.ch = i
      BY <2>6 DEF OtherMessage, OpenRejected, EnqueueChannelClose, Touches, At, Idle, Stopped,
                  TypeOK, tableVars, dispatchVars, downVars
    <3>2. QED
      BY <2>4, <2>6, <3>1 DEF OtherMessage, OpenRejected, EnqueueChannelClose
  <2>7. CASE ReceiverActivate(i) \/ ReceiverAnswer(i)
    <3>1. Touches(i) /\ receiver.ch = i
      BY <2>7 DEF ReceiverActivate, ReceiverAnswer, Touches, At, Idle, Stopped, TypeOK,
                  tableVars, dispatchVars, downVars
    <3>2. opener'[i] \in {opener[i], "answered"} /\ nextLocalChannelID' = nextLocalChannelID
      BY <2>7 DEF ReceiverActivate, ReceiverAnswer, TypeOK
    <3>3. QED
      BY <2>4, <3>1, <3>2
  <2>8. CASE ReceiverRemove(i)
    <3>1. Touches(i) /\ receiver.ch = i
      BY <2>8 DEF ReceiverRemove, Remove, Touches, At, Idle, TypeOK, tableVars, dispatchVars,
                  downVars
    <3>2. QED
      BY <2>4, <2>8, <3>1 DEF ReceiverRemove
  <2>9. CASE ReceiverDrop(i)
    <3>1. Touches(i) /\ receiver.ch = i
      BY <2>9 DEF ReceiverDrop, ShutdownChannel, Touches, At, Idle, Stopped, TypeOK, tableVars,
                  dispatchVars, downVars
    <3>2. QED
      BY <2>4, <2>9, <3>1 DEF ReceiverDrop
  <2>10. QED
    BY <1>4, <2>1, <2>2, <2>3, <2>5, <2>6, <2>7, <2>8, <2>9 DEF Receiving
<1>5. ASSUME NEW i \in Ids, Dispatching(i)
      PROVE  FreshIds'
  <2>1. dispatcher.ch = i /\ opener' = opener /\ nextLocalChannelID' = nextLocalChannelID
    BY <1>5 DEF Dispatching, DispatchReject, DispatchAccept, DispatchActivate, DispatchSent,
                DispatchSendFails, DispatchFail, At
  <2>2. ~Fresh(i)
    BY <2>1 DEF FreshIds
  <2>3. CASE DispatchReject(i) \/ DispatchSendFails(i)
    <3>1. Touches(i)
      BY <2>3 DEF DispatchReject, DispatchSendFails, Remove, Touches, At, TypeOK, tableVars,
                  downVars
    <3>2. QED
      BY <1>a, <2>1, <2>2, <3>1 DEF Fresh
  <2>4. CASE DispatchAccept(i) \/ DispatchActivate(i) \/ DispatchSent(i)
    <3>1. Touches(i)
      BY <2>4 DEF DispatchAccept, DispatchActivate, DispatchSent, Touches, At, Idle, Stopped,
                  TypeOK, tableVars, downVars
    <3>2. QED
      BY <1>a, <2>1, <2>2, <3>1 DEF Fresh
  <2>5. CASE DispatchFail(i)
    <3>1. Touches(i)
      BY <2>5 DEF DispatchFail, ShutdownChannel, Touches, Idle, Stopped, TypeOK, tableVars,
                  downVars
    <3>2. QED
      BY <1>a, <2>1, <2>2, <3>1 DEF Fresh
  <2>6. QED
    BY <1>5, <2>3, <2>4, <2>5 DEF Dispatching
<1>6. ASSUME NEW i \in Ids, ShutdownFail(i)
      PROVE  FreshIds'
  <2>1. ~Fresh(i)
    BY <1>6 DEF ShutdownFail, FreshIds
  <2>2. Touches(i) /\ nextLocalChannelID' = nextLocalChannelID
    BY <1>6 DEF ShutdownFail, ShutdownChannel, Touches, TypeOK, tableVars, dispatchVars
  <2>3. opener'[i] \in {opener[i], "answered"}
    BY <1>6 DEF ShutdownFail, TypeOK
  <2>4. QED
    BY <1>a, <2>1, <2>2, <2>3 DEF Fresh
<1>7. CASE DispatchOpen
  <2> DEFINE p == Head(dispatchQueue)
  <2>1. p \in PeerIds
    BY <1>7 DEF DispatchOpen, TypeOK
  <2>2. /\ dispatcher'.ch \in {peerChannelIDs[p], NoId}
        /\ UNCHANGED <<nextLocalChannelID, opener, channels, removing, toFail, state, openWait,
                       receiver, peerChannelIDs>>
    BY <1>7 DEF DispatchOpen, At, Stopped, tableVars, downVars
  <2>3. QED
    BY <1>0, <2>1, <2>2 DEF FreshIds, Fresh
<1>8. CASE ShutdownDetach \/ ShutdownCancel
  <2>1. /\ UNCHANGED <<nextLocalChannelID, opener, removing, state, openWait, receiver,
                       dispatcher>>
        /\ channels' \subseteq channels /\ toFail' \in {channels, toFail}
        /\ \A p \in PeerIds : peerChannelIDs'[p] \in {peerChannelIDs[p], NoId}
    BY <1>8 DEF ShutdownDetach, ShutdownCancel, tableVars, dispatchVars
  <2>2. QED
    BY <1>0, <2>1 DEF FreshIds, Fresh
<1>9. CASE UNCHANGED vars
  BY <1>9 DEF vars, tableVars, dispatchVars, downVars, FreshIds, Fresh
<1>b. CASE ReleaseRequest
  BY <1>b DEF ReleaseRequest, FreshIds, Fresh, tableVars, dispatchVars, downVars
<1>10. QED
  BY <1>1, <1>2, <1>3, <1>4, <1>5, <1>6, <1>7, <1>8, <1>9, <1>b DEF Next

-----------------------------------------------------------------------------
(* The requests.                                                           *)

\* What a step does to the requests: it adds one below the limit, moves
\* some of a channel's to the releases, releases one, resets the counter
\* with the table, or leaves them alone.
RequestStep ==
    \/ \E i \in Ids :
          /\ pendingChannelRequests < MaxPendingChannelRequests
          /\ pendingRequests' = [pendingRequests EXCEPT ![i] = @ + 1]
          /\ pendingChannelRequests' = pendingChannelRequests + 1
          /\ releasing' = releasing
    \/ \E i \in Ids : \E n \in 0..pendingRequests[i] :
          /\ pendingRequests' = [pendingRequests EXCEPT ![i] = @ - n]
          /\ releasing' = releasing + n
          /\ UNCHANGED pendingChannelRequests
    \/ /\ releasing > 0 /\ releasing' = releasing - 1
       /\ pendingChannelRequests' = Less(pendingChannelRequests)
       /\ UNCHANGED pendingRequests
    \/ down' # "no"
    \/ UNCHANGED requestVars

\* Failing a channel's requests moves them all.
LEMMA FailRequestsStep ==
  ASSUME TypeOK, NEW i \in Ids, FailRequests(i)
  PROVE  RequestStep
<1>1. PICK n \in Nat : n = pendingRequests[i]
  BY DEF TypeOK
<1>2. n \in 0..pendingRequests[i] /\ pendingRequests[i] - n = 0
  BY <1>1
<1>3. /\ pendingRequests' = [pendingRequests EXCEPT ![i] = pendingRequests[i] - n]
      /\ releasing' = releasing + n /\ UNCHANGED pendingChannelRequests
  BY <1>1, <1>2 DEF FailRequests
<1>4. QED
  BY <1>2, <1>3 DEF RequestStep

\* Every step does one of these to the requests.
LEMMA StepOfRequests == TypeOK /\ [Next]_vars => RequestStep
<1> SUFFICES ASSUME TypeOK, [Next]_vars
             PROVE  RequestStep
  OBVIOUS
<1>1. ASSUME NEW i \in Ids, Opening(i)
      PROVE  RequestStep
  <2>1. FailRequests(i) \/ UNCHANGED requestVars
    BY <1>1 DEF Opening, OpenChannel, OpenAdd, OpenSent, OpenSendFails, OpenFailed,
                OpenReturns, OpenAbandoned, ShutdownChannel
  <2>2. QED
    BY <2>1, FailRequestsStep DEF RequestStep
<1>2. ASSUME NEW i \in Ids, Closing(i)
      PROVE  RequestStep
  <2>1. FailRequests(i) \/ UNCHANGED requestVars
    BY <1>2 DEF Closing, Close, CloseTimeout, RemoveChannel
  <2>2. QED
    BY <2>1, FailRequestsStep DEF RequestStep
<1>3. ASSUME NEW i \in Ids, Requesting(i)
      PROVE  RequestStep
  <2>1. CASE SendRequest(i)
    BY <2>1 DEF SendRequest, RequestStep
  <2>2. CASE RequestDone(i)
    <3>1. 1 \in 0..pendingRequests[i]
      BY <2>2 DEF RequestDone, TypeOK
    <3>2. QED
      BY <2>2, <3>1 DEF RequestDone, RequestStep
  <2>3. CASE RemoteCloseEvent(i)
    BY <2>3, FailRequestsStep DEF RemoteCloseEvent
  <2>4. QED
    BY <1>3, <2>1, <2>2, <2>3 DEF Requesting
<1>4. ASSUME NEW i \in Ids, Receiving(i)
      PROVE  RequestStep
  <2>1. FailRequests(i) \/ UNCHANGED requestVars
    BY <1>4 DEF Receiving, EnqueueIncomingOpen, IncomingOpenDropped, AdmitIncoming,
                OpenAccepted, IncomingOpenRefused, Lookup, OtherMessage, OpenRejected,
                EnqueueChannelClose, ReceiverActivate, ReceiverAnswer, ReceiverRemove,
                ReceiverDrop, ShutdownChannel
  <2>2. QED
    BY <2>1, FailRequestsStep DEF RequestStep
<1>5. ASSUME NEW i \in Ids, Dispatching(i)
      PROVE  RequestStep
  <2>1. FailRequests(i) \/ UNCHANGED requestVars
    BY <1>5 DEF Dispatching, DispatchReject, DispatchAccept, DispatchActivate, DispatchSent,
                DispatchSendFails, DispatchFail, ShutdownChannel
  <2>2. QED
    BY <2>1, FailRequestsStep DEF RequestStep
<1>6. ASSUME NEW i \in Ids, ShutdownFail(i)
      PROVE  RequestStep
  BY <1>6, FailRequestsStep DEF ShutdownFail, ShutdownChannel
<1>7. CASE ReleaseRequest \/ DispatchOpen
  BY <1>7 DEF ReleaseRequest, DispatchOpen, RequestStep
<1>8. CASE ShutdownDetach \/ ShutdownCancel
  BY <1>8 DEF ShutdownDetach, ShutdownCancel, RequestStep
<1>9. CASE UNCHANGED vars
  BY <1>9 DEF vars, RequestStep
<1>10. QED
  BY <1>1, <1>2, <1>3, <1>4, <1>5, <1>6, <1>7, <1>8, <1>9 DEF Next

\* The session is not brought back.
LEMMA DownStep == [Next]_vars /\ down' = "no" => down = "no"
BY DEF Next, vars, Opening, Closing, Requesting, Receiving, Dispatching, OpenChannel, OpenAdd,
       OpenSent, OpenSendFails, OpenFailed, OpenReturns, OpenAbandoned, Close, CloseTimeout,
       RemoveChannel, SendRequest, RequestDone, RemoteCloseEvent, EnqueueIncomingOpen,
       IncomingOpenDropped, AdmitIncoming, OpenAccepted, IncomingOpenRefused, Lookup,
       OtherMessage, OpenRejected, EnqueueChannelClose, ReceiverActivate, ReceiverAnswer,
       ReceiverRemove, ReceiverDrop, DispatchReject, DispatchAccept, DispatchActivate,
       DispatchSent, DispatchSendFails, DispatchFail, ShutdownFail, ReleaseRequest,
       DispatchOpen, ShutdownDetach, ShutdownCancel, downVars

\* Once excused, always excused.
LEMMA ExcusedStays == TypeOK /\ [Next]_vars /\ ~excused' => ~excused
BY DEF TypeOK, Next, vars, Opening, Closing, Requesting, Receiving, Dispatching, OpenChannel, OpenAdd,
       OpenSent, OpenSendFails, OpenFailed, OpenReturns, OpenAbandoned, Close, CloseTimeout,
       RemoveChannel, SendRequest, RequestDone, RemoteCloseEvent, EnqueueIncomingOpen,
       IncomingOpenDropped, AdmitIncoming, OpenAccepted, IncomingOpenRefused, Lookup,
       OtherMessage, OpenRejected, EnqueueChannelClose, ReceiverActivate, ReceiverAnswer,
       ReceiverRemove, ReceiverDrop, DispatchReject, DispatchAccept, DispatchActivate,
       DispatchSent, DispatchSendFails, DispatchFail, ShutdownFail, ReleaseRequest,
       DispatchOpen, ShutdownDetach, ShutdownCancel, peerVars

\* A step of the requests keeps the counter in agreement with them.
LEMMA RequestCountStep ==
  ASSUME TypeOK, TypeOK', RequestAccounting, RequestStep, down = "no", down' = "no"
  PROVE  RequestAccounting'
<1> USE LimitsAssumption
<1>0. /\ pendingChannelRequests = Total(pendingRequests) + releasing
      /\ pendingChannelRequests <= MaxPendingChannelRequests
  BY DEF RequestAccounting
<1>1. /\ pendingRequests \in [Ids -> Nat] /\ pendingRequests' \in [Ids -> Nat]
      /\ releasing \in Nat /\ releasing' \in Nat
      /\ pendingChannelRequests \in Nat /\ pendingChannelRequests' \in Nat
  BY DEF TypeOK
<1>2. IsFiniteSet(Ids)
  BY FS_Interval DEF Ids
<1>3. Total(pendingRequests) \in Nat
  BY <1>1, <1>2, ByteSetFinite
<1>4. ASSUME NEW i \in Ids
      PROVE  (\A j \in Ids \ {i} : pendingRequests'[j] = pendingRequests[j]) =>
                Total(pendingRequests') = Total(pendingRequests) - pendingRequests[i]
                                          + pendingRequests'[i]
  BY <1>1, <1>2, TotalUpdate
<1>5. ASSUME NEW i \in Ids,
             pendingChannelRequests < MaxPendingChannelRequests,
             pendingRequests' = [pendingRequests EXCEPT ![i] = @ + 1],
             pendingChannelRequests' = pendingChannelRequests + 1,
             releasing' = releasing
      PROVE  RequestAccounting'
  <2>1. /\ pendingRequests'[i] = pendingRequests[i] + 1
        /\ \A j \in Ids \ {i} : pendingRequests'[j] = pendingRequests[j]
    BY <1>1, <1>5
  <2>2. Total(pendingRequests') = Total(pendingRequests) + 1
    <3>1. pendingRequests[i] \in Nat
      BY <1>1
    <3>2. QED
      BY <1>3, <1>4, <2>1, <3>1
  <2>3. QED
    BY <1>0, <1>1, <1>3, <1>5, <2>2 DEF RequestAccounting
<1>6. ASSUME NEW i \in Ids, NEW n \in 0..pendingRequests[i],
             pendingRequests' = [pendingRequests EXCEPT ![i] = @ - n],
             releasing' = releasing + n,
             UNCHANGED pendingChannelRequests
      PROVE  RequestAccounting'
  <2>1. /\ pendingRequests'[i] = pendingRequests[i] - n
        /\ \A j \in Ids \ {i} : pendingRequests'[j] = pendingRequests[j]
    BY <1>1, <1>6
  <2>2. Total(pendingRequests') = Total(pendingRequests) - n
    <3>1. pendingRequests[i] \in Nat /\ n \in Nat
      BY <1>1
    <3>2. QED
      BY <1>3, <1>4, <2>1, <3>1
  <2>3. QED
    BY <1>0, <1>1, <1>3, <1>6, <2>2 DEF RequestAccounting
<1>7. CASE /\ releasing > 0 /\ releasing' = releasing - 1
           /\ pendingChannelRequests' = Less(pendingChannelRequests)
           /\ UNCHANGED pendingRequests
  BY <1>0, <1>1, <1>3, <1>7 DEF RequestAccounting, Less
<1>8. CASE UNCHANGED requestVars
  BY <1>8 DEF RequestAccounting, requestVars
<1>9. QED
  BY <1>5, <1>6, <1>7, <1>8 DEF RequestStep

-----------------------------------------------------------------------------
(* The ids of the peer.                                                    *)

\* A channel that waits for the answer to its open has no id of the peer yet.
WaitersUnmapped ==
    down = "no" => \A i \in Ids : openWait[i] => \A p \in PeerIds : peerChannelIDs[p] # i

\* Nor is anyone but the receiver about to answer or remove it. It is in the
\* table, unless its open could not be sent.
WaitersHeld ==
    down = "no" =>
        \A i \in Ids : openWait[i] =>
            /\ i \in channels \/ opener[i] = "failing"
            /\ state[i] = "opening"
            /\ i \notin removing
            /\ dispatcher.ch # i
            /\ receiver.ch = i => receiver.at = "found"

\* No id of the peer leads to channel i.
Unmapped(i) == \A p \in PeerIds : peerChannelIDs[p] # i

\* The receiver cannot have found a channel whose open could not be sent, unless
\* the peer has guessed its id.
FoundSent ==
    down = "no" /\ ~excused =>
        \A i \in Ids : receiver = At("found", i) => opener[i] # "failing"

\* What a step does to the ids of the peer.
PeerStep ==
    \/ \E i \in Ids : \E p \in PeerIds :
          /\ ~openWait[i] /\ Unmapped(i)
          /\ peerChannelIDs' = [peerChannelIDs EXCEPT ![p] = i]
          /\ channels' = channels \cup {i} /\ openWait' = openWait
    \/ \E i \in Ids : \E p \in PeerIds :
          /\ openWait[i] /\ (i \in channels \/ Misled(i)')
          /\ peerChannelIDs' = [peerChannelIDs EXCEPT ![p] = i]
          /\ channels' = channels /\ openWait' = [openWait EXCEPT ![i] = FALSE]
    \/ \E i \in Ids :
          /\ Unmapped(i) /\ channels' = channels \cup {i}
          /\ openWait' = [openWait EXCEPT ![i] = TRUE] /\ UNCHANGED peerChannelIDs
    \/ \E i \in Ids : Remove(i) /\ \A j \in Ids : openWait'[j] => openWait[j]
    \/ down' # "no"
    \/ UNCHANGED <<peerChannelIDs, channels>> /\ \A j \in Ids : openWait'[j] => openWait[j]

\* Every step does one of these to the ids of the peer.
LEMMA StepOfPeerIDs ==
  TypeOK /\ FreshIds /\ WaitersHeld /\ FoundSent /\ [Next]_vars => PeerStep
<1> SUFFICES ASSUME TypeOK, FreshIds, WaitersHeld, FoundSent, [Next]_vars
             PROVE  PeerStep
  OBVIOUS
<1>1. ASSUME NEW i \in Ids, Opening(i)
      PROVE  PeerStep
  <2>1. CASE OpenAdd(i)
    BY <2>1 DEF OpenAdd, AddPending, FreshIds, Fresh, Unmapped, PeerStep
  <2>2. CASE OpenSendFails(i)
    BY <2>2 DEF OpenSendFails, PeerStep
  <2>a. CASE OpenFailed(i)
    BY <2>a DEF OpenFailed, ShutdownChannel, TypeOK, PeerStep, tableVars
  <2>3. CASE OpenAbandoned(i)
    BY <2>3 DEF OpenAbandoned, TypeOK, PeerStep, tableVars
  <2>4. CASE OpenChannel(i) \/ OpenSent(i) \/ OpenReturns(i)
    BY <2>4 DEF OpenChannel, OpenSent, OpenReturns, PeerStep, tableVars
  <2>5. QED
    BY <1>1, <2>1, <2>2, <2>3, <2>4, <2>a DEF Opening
<1>2. ASSUME NEW i \in Ids, Closing(i)
      PROVE  PeerStep
  BY <1>2 DEF Closing, Close, CloseTimeout, RemoveChannel, PeerStep, tableVars
<1>3. ASSUME NEW i \in Ids, Requesting(i)
      PROVE  PeerStep
  BY <1>3 DEF Requesting, SendRequest, RequestDone, RemoteCloseEvent, PeerStep, tableVars
<1>4. ASSUME NEW i \in Ids, Receiving(i)
      PROVE  PeerStep
  <2>1. ASSUME NEW p \in PeerIds, EnqueueIncomingOpen(i, p) \/ IncomingOpenDropped(i, p)
        PROVE  PeerStep
    <3>1. AdmitIncoming(i, p)
      BY <2>1 DEF EnqueueIncomingOpen, IncomingOpenDropped
    <3>2. Fresh(i)
      BY <3>1 DEF AdmitIncoming, Receives, Fresh, TypeOK, Ids
    <3>3. QED
      BY <3>1, <3>2 DEF AdmitIncoming, AddPending, FreshIds, Unmapped, PeerStep
  <2>2. ASSUME NEW p \in PeerIds, OpenAccepted(i, p)
        PROVE  PeerStep
    <3>0. /\ openWait[i] /\ receiver = At("found", i) /\ down' = down /\ excused' = excused
          /\ channels' = channels /\ openWait' = [openWait EXCEPT ![i] = FALSE]
          /\ \/ UNCHANGED peerChannelIDs
             \/ /\ peerChannelIDs' = [peerChannelIDs EXCEPT ![p] = i]
                /\ receiver' = At("activate", i)
      BY <2>2 DEF OpenAccepted, downVars, peerVars
    <3>1. CASE down = "no"
      <4>1. i \in channels \/ excused
        BY <3>0, <3>1 DEF WaitersHeld, FoundSent
      <4>2. CASE receiver' = At("activate", i)
        <5>1. i \in channels \/ Misled(i)'
          BY <3>0, <4>1, <4>2 DEF Misled
        <5>2. QED
          BY <3>0, <5>1 DEF TypeOK, PeerStep
      <4>3. QED
        BY <3>0, <4>2 DEF TypeOK, PeerStep
    <3>2. QED
      BY <3>0, <3>1 DEF PeerStep
  <2>3. CASE OpenRejected(i)
    BY <2>3 DEF OpenRejected, TypeOK, PeerStep, tableVars
  <2>4. CASE IncomingOpenRefused(i) \/ EnqueueChannelClose(i) \/ ReceiverActivate(i)
             \/ ReceiverAnswer(i) \/ Lookup(i) \/ OtherMessage(i)
    BY <2>4 DEF IncomingOpenRefused, EnqueueChannelClose, ReceiverActivate, ReceiverAnswer,
                Lookup, OtherMessage, PeerStep, tableVars
  <2>a. CASE ReceiverDrop(i)
    BY <2>a DEF ReceiverDrop, ShutdownChannel, TypeOK, PeerStep, tableVars
  <2>5. CASE ReceiverRemove(i)
    BY <2>5 DEF ReceiverRemove, PeerStep
  <2>6. QED
    BY <1>4, <2>1, <2>2, <2>3, <2>4, <2>5, <2>a DEF Receiving
<1>5. ASSUME NEW i \in Ids, Dispatching(i)
      PROVE  PeerStep
  <2>1. CASE DispatchReject(i) \/ DispatchSendFails(i)
    BY <2>1 DEF DispatchReject, DispatchSendFails, PeerStep
  <2>a. CASE DispatchFail(i)
    BY <2>a DEF DispatchFail, ShutdownChannel, TypeOK, PeerStep, tableVars
  <2>2. CASE DispatchAccept(i) \/ DispatchActivate(i) \/ DispatchSent(i)
    BY <2>2 DEF DispatchAccept, DispatchActivate, DispatchSent, PeerStep, tableVars
  <2>3. QED
    BY <1>5, <2>1, <2>2, <2>a DEF Dispatching
<1>6. ASSUME NEW i \in Ids, ShutdownFail(i)
      PROVE  PeerStep
  BY <1>6 DEF ShutdownFail, ShutdownChannel, TypeOK, PeerStep, tableVars
<1>7. CASE ReleaseRequest \/ DispatchOpen
  BY <1>7 DEF ReleaseRequest, DispatchOpen, PeerStep, tableVars
<1>8. CASE ShutdownDetach \/ ShutdownCancel
  BY <1>8 DEF ShutdownDetach, ShutdownCancel, PeerStep
<1>9. CASE UNCHANGED vars
  BY <1>9 DEF vars, tableVars, PeerStep
<1>10. QED
  BY <1>1, <1>2, <1>3, <1>4, <1>5, <1>6, <1>7, <1>8, <1>9 DEF Next

\* Once misled, the receiver cannot activate the channel, and has stopped then.
LEMMA MisledStays ==
  ASSUME TypeOK, SlotAccounting, [Next]_vars, down = "no",
         NEW i \in Ids, i \notin channels, Misled(i)
  PROVE  Misled(i)'
<1>1. excused'
  BY ExcusedStays DEF Misled
<1>2. ~CanActivate(i)
  BY DEF SlotAccounting, CanActivate
<1>3. receiver \in {At("activate", i), Stopped}
  BY DEF Misled
<1>4. receiver' = receiver \/ \E j \in Ids : Receiving(j)
  BY DEF Next, vars, Opening, Closing, Requesting, Dispatching, OpenChannel, OpenAdd,
         OpenSent, OpenSendFails, OpenFailed, OpenReturns, OpenAbandoned, Close, CloseTimeout,
         RemoveChannel, SendRequest, RequestDone, RemoteCloseEvent, DispatchReject,
         DispatchAccept, DispatchActivate, DispatchSent, DispatchSendFails, DispatchFail,
         ShutdownFail, ReleaseRequest, DispatchOpen, ShutdownDetach, ShutdownCancel
<1>5. ASSUME NEW j \in Ids, Receiving(j)
      PROVE  receiver' \in {receiver, Stopped}
  <2>1. \/ receiver \in {Idle, At("found", j), At("answer", j), At("rejected", j),
                          At("closed", j), At("refused", j), At("dropped", j)}
        \/ ReceiverActivate(j)
    BY <1>5 DEF Receiving, EnqueueIncomingOpen, IncomingOpenDropped, AdmitIncoming, Receives,
                OpenAccepted, IncomingOpenRefused, Lookup, OtherMessage, OpenRejected,
                EnqueueChannelClose, ReceiverAnswer, ReceiverRemove, ReceiverDrop
  <2>2. ReceiverActivate(j)
    BY <1>3, <2>1 DEF At, Idle, Stopped
  <2>3. j = i
    BY <1>3, <2>2 DEF ReceiverActivate, At, Stopped
  <2>4. QED
    BY <1>2, <2>2, <2>3 DEF ReceiverActivate, Activate
<1>6. QED
  BY <1>1, <1>3, <1>4, <1>5 DEF Misled

\* A step of the ids of the peer keeps them in agreement with the table.
LEMMA PeerIDsStep ==
  ASSUME TypeOK, PeerIDsAgree, WaitersUnmapped, PeerStep, down = "no", down' = "no",
         \A i \in Ids \ channels : Misled(i) => Misled(i)'
  PROVE  PeerIDsAgree' /\ WaitersUnmapped'
<1>0. /\ peerChannelIDs \in [PeerIds -> Ids \cup {NoId}]
      /\ openWait \in [Ids -> BOOLEAN]
      /\ NoId \notin Ids
  BY LimitsAssumption DEF TypeOK, Ids, NoId
<1>a. PICK s : s = channels \cup {i \in Ids : Misled(i)}
  OBVIOUS
<1>b. PICK t : t = channels' \cup {i \in Ids : Misled(i)'}
  OBVIOUS
<1>c. s \ channels \subseteq t /\ channels' \subseteq t
  BY <1>a, <1>b
<1>1. /\ \A p \in PeerIds : peerChannelIDs[p] # NoId =>
            /\ peerChannelIDs[p] \in s
            /\ \A q \in PeerIds \ {p} : peerChannelIDs[q] # peerChannelIDs[p]
      /\ \A i \in Ids : openWait[i] => \A p \in PeerIds : peerChannelIDs[p] # i
  BY <1>0, <1>a DEF PeerIDsAgree, WaitersUnmapped
<1> DEFINE Mapped == \A p \in PeerIds : peerChannelIDs'[p] # NoId =>
                        /\ peerChannelIDs'[p] \in t
                        /\ \A q \in PeerIds \ {p} : peerChannelIDs'[q] # peerChannelIDs'[p]
           Waiting == \A i \in Ids : openWait'[i] => \A p \in PeerIds : peerChannelIDs'[p] # i
<1>d. SUFFICES Mapped /\ Waiting
  <2>1. \A p \in PeerIds : peerChannelIDs'[p] \in t =>
           peerChannelIDs'[p] \in channels' \/ Misled(peerChannelIDs[p])'
    BY <1>b DEF Misled
  <2>2. QED
    BY <2>1 DEF PeerIDsAgree, WaitersUnmapped
<1>2. ASSUME NEW i \in Ids, NEW p \in PeerIds,
             ~openWait[i], Unmapped(i),
             peerChannelIDs' = [peerChannelIDs EXCEPT ![p] = i],
             channels' = channels \cup {i}, openWait' = openWait
      PROVE  Mapped /\ Waiting
  <2>1. \A q \in PeerIds : peerChannelIDs[q] # i
    BY <1>2 DEF Unmapped
  <2>2. s \subseteq t /\ i \in t
    BY <1>a, <1>c, <1>2
  <2>3. Mapped
    BY <1>0, <1>1, <1>2, <2>1, <2>2
  <2>4. Waiting
    BY <1>0, <1>1, <1>2
  <2>5. QED
    BY <2>3, <2>4
<1>3. ASSUME NEW i \in Ids, NEW p \in PeerIds,
             openWait[i], i \in channels \/ Misled(i)',
             peerChannelIDs' = [peerChannelIDs EXCEPT ![p] = i],
             channels' = channels, openWait' = [openWait EXCEPT ![i] = FALSE]
      PROVE  Mapped /\ Waiting
  <2>1. \A q \in PeerIds : peerChannelIDs[q] # i
    BY <1>1, <1>3
  <2>2. s \subseteq t /\ i \in t
    BY <1>a, <1>b, <1>c, <1>3
  <2>3. Mapped
    BY <1>0, <1>1, <1>3, <2>1, <2>2
  <2>4. Waiting
    BY <1>0, <1>1, <1>3
  <2>5. QED
    BY <2>3, <2>4
<1>4. ASSUME NEW i \in Ids, Unmapped(i), channels' = channels \cup {i},
             openWait' = [openWait EXCEPT ![i] = TRUE], UNCHANGED peerChannelIDs
      PROVE  Mapped /\ Waiting
  <2>1. \A q \in PeerIds : peerChannelIDs[q] # i
    BY <1>4 DEF Unmapped
  <2>2. s \subseteq t
    BY <1>a, <1>c, <1>4
  <2>3. Mapped
    BY <1>1, <1>4, <2>2
  <2>4. Waiting
    BY <1>0, <1>1, <1>4, <2>1
  <2>5. QED
    BY <2>3, <2>4
<1>5. ASSUME NEW i \in Ids, Remove(i), \A j \in Ids : openWait'[j] => openWait[j]
      PROVE  Mapped /\ Waiting
  <2>1. CASE i \notin channels
    <3>1. UNCHANGED <<peerChannelIDs, channels>>
      BY <1>5, <2>1 DEF Remove, tableVars
    <3>2. s \subseteq t
      BY <1>a, <1>c, <3>1
    <3>3. QED
      BY <1>1, <1>5, <3>1, <3>2
  <2>2. CASE i \in channels
    <3>1. /\ channels' = channels \ {i}
          /\ peerChannelIDs' = [p \in PeerIds |-> IF peerChannelIDs[p] = i THEN NoId
                                                  ELSE peerChannelIDs[p]]
      BY <1>5, <2>2 DEF Remove
    <3>2. s \ {i} \subseteq t
      BY <1>a, <1>c, <3>1
    <3>3. Mapped
      BY <1>0, <1>1, <3>1, <3>2
    <3>4. Waiting
      BY <1>0, <1>1, <1>5, <3>1
    <3>5. QED
      BY <3>3, <3>4
  <2>3. QED
    BY <2>1, <2>2
<1>6. CASE UNCHANGED <<peerChannelIDs, channels>> /\ \A j \in Ids : openWait'[j] => openWait[j]
  <2>1. s \subseteq t
    BY <1>a, <1>c, <1>6
  <2>2. QED
    BY <1>1, <1>6, <2>1
<1>7. QED
  BY <1>2, <1>3, <1>4, <1>5, <1>6 DEF PeerStep

\* Nobody but the caller and the receiver works on a channel that waits.
LEMMA WaitersHeldStep ==
  ASSUME TypeOK, FreshIds, WaitersUnmapped, WaitersHeld, [Next]_vars, down = "no", down' = "no"
  PROVE  WaitersHeld'
<1>0. /\ openWait \in [Ids -> BOOLEAN] /\ NoId \notin Ids
      /\ \A i \in Ids : openWait[i] =>
            /\ ~Fresh(i)
            /\ i \in channels \/ opener[i] = "failing"
            /\ state[i] = "opening"
            /\ i \notin removing
            /\ dispatcher.ch # i
            /\ receiver.ch = i => receiver.at = "found"
  BY LimitsAssumption DEF TypeOK, Ids, NoId, WaitersHeld, FreshIds
<1>1. ASSUME NEW i \in Ids, Opening(i)
      PROVE  WaitersHeld'
  <2>1. CASE OpenAdd(i)
    <3>1. Fresh(i)
      BY <2>1 DEF OpenAdd, Fresh
    <3>2. i \notin removing /\ dispatcher.ch # i /\ receiver.ch # i /\ ~openWait[i]
      BY <3>1 DEF FreshIds
    <3>3. QED
      BY <1>0, <2>1, <3>2 DEF OpenAdd, AddPending, WaitersHeld, TypeOK, dispatchVars
  <2>2. CASE OpenChannel(i)
    <3>1. opener[i] = "none"
      BY <2>2 DEF OpenChannel, FreshIds, TypeOK, Ids
    <3>2. QED
      BY <1>0, <2>2, <3>1 DEF OpenChannel, WaitersHeld, TypeOK, tableVars, dispatchVars
  <2>3. CASE OpenSent(i) \/ OpenReturns(i)
    BY <1>0, <2>3 DEF OpenSent, OpenReturns, WaitersHeld, TypeOK, tableVars, dispatchVars
  <2>4. CASE OpenSendFails(i)
    BY <1>0, <2>4 DEF OpenSendFails, Remove, WaitersHeld, TypeOK, tableVars, dispatchVars
  <2>5. CASE OpenFailed(i)
    BY <1>0, <2>5 DEF OpenFailed, ShutdownChannel, WaitersHeld, TypeOK, tableVars, dispatchVars
  <2>6. CASE OpenAbandoned(i)
    BY <1>0, <2>6 DEF OpenAbandoned, WaitersHeld, TypeOK, tableVars, dispatchVars
  <2>7. QED
    BY <1>1, <2>1, <2>2, <2>3, <2>4, <2>5, <2>6 DEF Opening
<1>2. ASSUME NEW i \in Ids, Closing(i)
      PROVE  WaitersHeld'
  BY <1>0, <1>2 DEF Closing, Close, CloseTimeout, RemoveChannel, Remove, WaitersHeld, TypeOK,
                    tableVars, dispatchVars
<1>3. ASSUME NEW i \in Ids, Requesting(i)
      PROVE  WaitersHeld'
  BY <1>0, <1>3 DEF Requesting, SendRequest, RequestDone, RemoteCloseEvent, WaitersHeld,
                    tableVars, dispatchVars
<1>4. ASSUME NEW i \in Ids, Receiving(i)
      PROVE  WaitersHeld'
  <2>1. ASSUME NEW p \in PeerIds, EnqueueIncomingOpen(i, p) \/ IncomingOpenDropped(i, p)
        PROVE  WaitersHeld'
    <3>1. AdmitIncoming(i, p) /\ receiver' \in {receiver, At("refused", i)}
      BY <2>1 DEF EnqueueIncomingOpen, IncomingOpenDropped
    <3>2. Fresh(i)
      BY <3>1 DEF AdmitIncoming, Receives, Fresh, TypeOK, Ids
    <3>3. ~openWait[i]
      BY <1>0, <3>2
    <3>4. /\ channels' = channels \cup {i} /\ state' = [state EXCEPT ![i] = "opening"]
          /\ UNCHANGED <<openWait, opener, dispatcher, removing>>
      BY <3>1 DEF AdmitIncoming, AddPending
    <3>5. QED
      BY <1>0, <3>1, <3>3, <3>4 DEF WaitersHeld, TypeOK, At
  <2>2. CASE IncomingOpenRefused(i) \/ Lookup(i)
    BY <1>0, <2>2 DEF IncomingOpenRefused, Lookup, WaitersHeld, At, tableVars, dispatchVars
  <2>3. CASE OtherMessage(i)
    BY <1>0, <2>3 DEF OtherMessage, WaitersHeld, Idle, Stopped, tableVars, dispatchVars
  <2>4. ASSUME NEW p \in PeerIds, OpenAccepted(i, p)
        PROVE  WaitersHeld'
    BY <1>0, <2>4 DEF OpenAccepted, WaitersHeld, At, Stopped, TypeOK, dispatchVars
  <2>5. CASE OpenRejected(i)
    BY <1>0, <2>5 DEF OpenRejected, WaitersHeld, At, TypeOK, tableVars, dispatchVars
  <2>6. CASE EnqueueChannelClose(i)
    BY <1>0, <2>6 DEF EnqueueChannelClose, WaitersHeld, At, Stopped, TypeOK, tableVars,
                      dispatchVars
  <2>7. CASE ReceiverActivate(i)
    BY <1>0, <2>7 DEF ReceiverActivate, WaitersHeld, At, Stopped, TypeOK, dispatchVars
  <2>8. CASE ReceiverAnswer(i)
    BY <1>0, <2>8 DEF ReceiverAnswer, WaitersHeld, At, Idle, TypeOK, tableVars, dispatchVars
  <2>9. CASE ReceiverRemove(i)
    <3>1. ~openWait[i]
      BY <1>0, <2>9 DEF ReceiverRemove, At
    <3>2. QED
      BY <1>0, <2>9, <3>1 DEF ReceiverRemove, Remove, WaitersHeld, At, Idle, TypeOK, tableVars,
                              dispatchVars
  <2>a. CASE ReceiverDrop(i)
    BY <1>0, <2>a DEF ReceiverDrop, ShutdownChannel, WaitersHeld, Idle, Stopped, TypeOK,
                      tableVars, dispatchVars
  <2>b. QED
    BY <1>4, <2>1, <2>2, <2>3, <2>4, <2>5, <2>6, <2>7, <2>8, <2>9, <2>a DEF Receiving
<1>5. ASSUME NEW i \in Ids, Dispatching(i)
      PROVE  WaitersHeld'
  <2>1. ~openWait[i]
    BY <1>0, <1>5 DEF Dispatching, DispatchReject, DispatchAccept, DispatchActivate,
                      DispatchSent, DispatchSendFails, DispatchFail, At
  <2>2. CASE DispatchReject(i) \/ DispatchSendFails(i)
    BY <1>0, <2>1, <2>2 DEF DispatchReject, DispatchSendFails, Remove, WaitersHeld, At, TypeOK,
                            tableVars
  <2>3. CASE DispatchAccept(i) \/ DispatchActivate(i) \/ DispatchSent(i)
    BY <1>0, <2>1, <2>3 DEF DispatchAccept, DispatchActivate, DispatchSent, WaitersHeld, At,
                            Idle, Stopped, TypeOK, tableVars
  <2>4. CASE DispatchFail(i)
    BY <1>0, <2>1, <2>4 DEF DispatchFail, ShutdownChannel, WaitersHeld, Idle, Stopped, TypeOK,
                            tableVars
  <2>5. QED
    BY <1>5, <2>2, <2>3, <2>4 DEF Dispatching
<1>6. CASE DispatchOpen
  <2>1. Head(dispatchQueue) \in PeerIds
    BY <1>6 DEF DispatchOpen, TypeOK
  <2>2. \A i \in Ids : openWait[i] => dispatcher'.ch # i
    BY <1>0, <1>6, <2>1 DEF DispatchOpen, WaitersUnmapped, At, Stopped
  <2>3. QED
    BY <1>0, <1>6, <2>2 DEF DispatchOpen, WaitersHeld, tableVars
<1>7. CASE ReleaseRequest
  BY <1>0, <1>7 DEF ReleaseRequest, WaitersHeld, tableVars, dispatchVars
<1>8. CASE ShutdownDetach \/ ShutdownCancel \/ \E i \in Ids : ShutdownFail(i)
  BY <1>8 DEF ShutdownDetach, ShutdownCancel, ShutdownFail
<1>9. CASE UNCHANGED vars
  BY <1>0, <1>9 DEF vars, WaitersHeld, tableVars, dispatchVars
<1>10. QED
  BY <1>1, <1>2, <1>3, <1>4, <1>5, <1>6, <1>7, <1>8, <1>9 DEF Next

-----------------------------------------------------------------------------
(* No internal error.                                                      *)

\* The session is up, and the peer has named only ids it was told.
Clean == down = "no" /\ ~excused

\* A channel the peer opens, between enqueueIncomingOpen and activateChannel.
Incoming(i) ==
    /\ i \in channels /\ slot[i] = "pending" /\ i \notin told /\ opener[i] = "none"
    /\ receiver # At("refused", i)

\* A channel handleChannelOpen has activated, or one that has ended since.
Activated(i) ==
    i \in Ids /\ i < nextLocalChannelID /\ slot[i] # "pending" /\ opener[i] = "none"

\* What has happened to an id before it is removed or told.
UseOfIds ==
    \A i \in Ids :
        /\ i \in removing => state[i] \in {"closed", "failed"}
        /\ i \in told =>
              i < nextLocalChannelID /\ opener[i] \notin {"checked", "sending", "failing"}
        /\ state[i] = "opening" => slot[i] # "active"

\* The opens in the dispatch queue lead to different channels, none of them the
\* dispatcher's, and no one else has touched a channel it is to activate.
QueueOrder ==
    /\ \A k, l \in DOMAIN dispatchQueue : k # l => dispatchQueue[k] # dispatchQueue[l]
    /\ \A k \in DOMAIN dispatchQueue :
          /\ Incoming(peerChannelIDs[dispatchQueue[k]])
          /\ state[peerChannelIDs[dispatchQueue[k]]] = "opening"
          /\ peerChannelIDs[dispatchQueue[k]] # dispatcher.ch

DispatcherOrder ==
    /\ dispatcher.at = "handler" => Incoming(dispatcher.ch) /\ state[dispatcher.ch] = "opening"
    /\ dispatcher.at = "activate" => Incoming(dispatcher.ch) /\ state[dispatcher.ch] = "open"
    /\ dispatcher.at \in {"send", "rejecting", "failing"} => Activated(dispatcher.ch)
    /\ dispatcher.at \in {"idle", "stopped"} => dispatcher.ch = NoId

DispatchOrder == QueueOrder /\ DispatcherOrder

\* The receiver works on a channel the peer was told of, or drops one it has just
\* entered. One it is to activate has its slot still, though its opener may have
\* begun to close it.
ReceiverOrder ==
    /\ receiver.at \notin {"refused", "dropped"} => receiver.ch \in told \cup {NoId}
    /\ receiver.at \in {"refused", "dropped"} =>
          /\ receiver.ch \in Ids /\ receiver.ch < nextLocalChannelID
          /\ opener[receiver.ch] = "none"
    /\ receiver.at = "dropped" => receiver.ch \notin channels
    /\ receiver.at = "activate" =>
          /\ receiver.ch \in told
          /\ slot[receiver.ch] = "pending"
          /\ state[receiver.ch] \in {"open", "closing"}

OrderInv == Clean => UseOfIds /\ DispatchOrder /\ ReceiverOrder

\* What no one but the dispatcher does to the channels it works on.
LeavesDispatched ==
    /\ \A i \in Ids : Incoming(i) /\ state[i] \in {"opening", "open"} =>
          Incoming(i)' /\ state'[i] = state[i]
    /\ \A i \in Ids : Activated(i) => Activated(i)'
    /\ \A p \in PeerIds :
          peerChannelIDs[p] \in Ids /\ Incoming(peerChannelIDs[p])
              /\ state[peerChannelIDs[p]] = "opening"
            => peerChannelIDs'[p] = peerChannelIDs[p]

\* A step that leaves them alone, the queue and the dispatcher, keeps the order.
LEMMA DispatchKept ==
  ASSUME TypeOK, DispatchOrder, LeavesDispatched, UNCHANGED dispatchVars
  PROVE  DispatchOrder'
<1>0. /\ dispatchQueue' = dispatchQueue /\ dispatcher' = dispatcher
      /\ \A i : Incoming(i) => i \in Ids
      /\ \A k \in DOMAIN dispatchQueue : dispatchQueue[k] \in PeerIds
  BY DEF dispatchVars, Incoming, TypeOK
<1>1. ASSUME NEW k \in DOMAIN dispatchQueue
      PROVE  /\ Incoming(peerChannelIDs[dispatchQueue[k]])'
             /\ state'[peerChannelIDs'[dispatchQueue[k]]] = "opening"
             /\ peerChannelIDs'[dispatchQueue[k]] # dispatcher.ch
  <2>1. /\ dispatchQueue[k] \in PeerIds
        /\ Incoming(peerChannelIDs[dispatchQueue[k]])
        /\ state[peerChannelIDs[dispatchQueue[k]]] = "opening"
        /\ peerChannelIDs[dispatchQueue[k]] # dispatcher.ch
    BY <1>0, <1>1 DEF DispatchOrder, QueueOrder, DispatcherOrder
  <2>2. peerChannelIDs[dispatchQueue[k]] \in Ids
    BY <1>0, <2>1
  <2>3. peerChannelIDs'[dispatchQueue[k]] = peerChannelIDs[dispatchQueue[k]]
    BY <2>1, <2>2 DEF LeavesDispatched
  <2>4. /\ Incoming(peerChannelIDs[dispatchQueue[k]])'
        /\ state'[peerChannelIDs[dispatchQueue[k]]] = "opening"
    BY <1>0, <2>1, <2>2, <2>3 DEF LeavesDispatched, Incoming
  <2>5. QED
    BY <2>1, <2>3, <2>4
<1>2. /\ dispatcher.at = "handler" => Incoming(dispatcher.ch)' /\ state'[dispatcher.ch] = "opening"
      /\ dispatcher.at = "activate" => Incoming(dispatcher.ch)' /\ state'[dispatcher.ch] = "open"
      /\ dispatcher.at \in {"send", "rejecting", "failing"} => Activated(dispatcher.ch)'
  BY <1>0 DEF DispatchOrder, QueueOrder, DispatcherOrder, LeavesDispatched, Incoming, Activated
<1>3. QED
  BY <1>0, <1>1, <1>2 DEF DispatchOrder, QueueOrder, DispatcherOrder, Incoming

\* A step that removes a channel the dispatcher does not work on, or none.
LEMMA RemoveLeaves ==
  ASSUME TypeOK, NEW i \in Ids, Remove(i),
         ~(Incoming(i) /\ state[i] \in {"opening", "open"}),
         nextLocalChannelID' = nextLocalChannelID, told' = told,
         \A j \in Ids \ {i} : state'[j] = state[j],
         state'[i] = state[i] \/ opener[i] # "none",
         \A j \in Ids : opener[j] = "none" <=> opener'[j] = "none",
         \A j \in Ids : receiver' = At("refused", j) => receiver = At("refused", j)
  PROVE  LeavesDispatched
<1>1. NoId \notin Ids
  BY LimitsAssumption DEF Ids, NoId
<1>2. QED
  BY <1>1 DEF TypeOK, Remove, tableVars, LeavesDispatched, Incoming, Activated, Slots

\* OpenChannel and what follows it, before the session is shut down.
LEMMA OrderOpening ==
  ASSUME TypeOK, FreshIds, OrderInv, Clean, NEW i \in Ids, Opening(i)
  PROVE  UseOfIds' /\ LeavesDispatched /\ ReceiverOrder'
<1>0. /\ UseOfIds /\ DispatchOrder /\ ReceiverOrder
      /\ nextLocalChannelID \in Nat /\ \A j \in Ids : j \in Nat
  BY LimitsAssumption DEF OrderInv, TypeOK, Ids
<1>1. CASE OpenChannel(i)
  <2>1. UseOfIds'
    BY <1>0, <1>1 DEF OpenChannel, UseOfIds, FreshIds, TypeOK, peerVars, tableVars
  <2>2. LeavesDispatched
    BY <1>0, <1>1 DEF OpenChannel, LeavesDispatched, Incoming, Activated, FreshIds, Fresh, TypeOK,
                      tableVars, peerVars
  <2>3. ReceiverOrder'
    <3>1. /\ receiver' = receiver /\ told' = told /\ channels' = channels /\ slot' = slot
          /\ state' = state /\ i = nextLocalChannelID /\ nextLocalChannelID' = i + 1
          /\ opener' = [opener EXCEPT ![i] = "checked"]
      BY <1>1 DEF OpenChannel, tableVars, peerVars
    <3>2. receiver.ch # i
      BY <1>0, <3>1 DEF FreshIds, Fresh
    <3>3. receiver.at \in {"refused", "dropped"} =>
             receiver.ch < i + 1 /\ opener'[receiver.ch] = opener[receiver.ch]
      BY <1>0, <3>1, <3>2, LimitsAssumption DEF ReceiverOrder, TypeOK, Ids, NoId
    <3>4. QED
      BY <1>0, <3>1, <3>3 DEF ReceiverOrder
  <2>4. QED
    BY <2>1, <2>2, <2>3
<1>2. CASE OpenAdd(i)
  <2>1. UseOfIds'
    BY <1>0, <1>2 DEF OpenAdd, UseOfIds, FreshIds, Fresh, TypeOK, peerVars, AddPending
  <2>2. LeavesDispatched
    BY <1>0, <1>2 DEF OpenAdd, AddPending, LeavesDispatched, Incoming, Activated, FreshIds,
                      Fresh, TypeOK, peerVars
  <2>3. ReceiverOrder'
    <3>1. /\ opener[i] = "checked" /\ receiver' = receiver /\ told' = told
          /\ nextLocalChannelID' = nextLocalChannelID
          /\ \A j : j # i => (j \in channels' <=> j \in channels)
      BY <1>2 DEF OpenAdd, AddPending, peerVars
    <3>2. receiver.ch # i
      BY <3>1 DEF FreshIds, Fresh
    <3>3. \A j \in Ids \ {i} :
             opener'[j] = opener[j] /\ slot'[j] = slot[j] /\ state'[j] = state[j]
      BY <1>2 DEF OpenAdd, AddPending, TypeOK
    <3>4. receiver.at \in {"refused", "dropped", "activate"} => receiver.ch \in Ids \ {i}
      BY <1>0, <3>2 DEF ReceiverOrder, TypeOK
    <3>5. QED
      BY <1>0, <3>1, <3>2, <3>3, <3>4 DEF ReceiverOrder
  <2>4. QED
    BY <2>1, <2>2, <2>3
<1>3. CASE OpenSent(i)
  <2>1. UseOfIds'
    BY <1>0, <1>3 DEF OpenSent, UseOfIds, FreshIds, TypeOK, tableVars
  <2>2. LeavesDispatched
    BY <1>0, <1>3 DEF OpenSent, LeavesDispatched, Incoming, Activated, TypeOK, tableVars
  <2>3. ReceiverOrder'
    BY <1>0, <1>3 DEF OpenSent, ReceiverOrder, tableVars
  <2>4. QED
    BY <2>1, <2>2, <2>3
<1>4. CASE OpenSendFails(i)
  <2>0. i \notin told /\ opener[i] = "sending" /\ i < nextLocalChannelID
    BY <1>0, <1>4 DEF OpenSendFails, UseOfIds, FreshIds
  <2>1. UseOfIds'
    BY <1>0, <1>4, <2>0 DEF OpenSendFails, UseOfIds, TypeOK, peerVars, Remove, tableVars
  <2>2. LeavesDispatched
    BY <1>4, <2>0, RemoveLeaves DEF OpenSendFails, Incoming, TypeOK, peerVars
  <2>3. ReceiverOrder'
    BY <1>0, <1>4, <2>0 DEF OpenSendFails, Remove, ReceiverOrder, TypeOK, tableVars, peerVars
  <2>4. QED
    BY <2>1, <2>2, <2>3
<1>a. CASE OpenFailed(i)
  <2>0. i \notin told /\ opener[i] = "failing" /\ i < nextLocalChannelID
    BY <1>0, <1>a DEF OpenFailed, UseOfIds, FreshIds
  <2>1. UseOfIds'
    BY <1>0, <1>a, <2>0 DEF OpenFailed, ShutdownChannel, UseOfIds, TypeOK, peerVars, tableVars
  <2>2. LeavesDispatched
    BY <1>0, <1>a, <2>0 DEF OpenFailed, ShutdownChannel, LeavesDispatched, Incoming, Activated,
                            TypeOK, tableVars, peerVars
  <2>3. ReceiverOrder'
    BY <1>0, <1>a, <2>0 DEF OpenFailed, ShutdownChannel, ReceiverOrder, TypeOK, tableVars,
                            peerVars
  <2>4. QED
    BY <2>1, <2>2, <2>3
<1>5. CASE OpenReturns(i)
  <2>1. UseOfIds'
    BY <1>0, <1>5 DEF OpenReturns, UseOfIds, TypeOK, peerVars, tableVars
  <2>2. LeavesDispatched
    BY <1>0, <1>5 DEF OpenReturns, LeavesDispatched, Incoming, Activated, TypeOK, tableVars,
                      peerVars
  <2>3. ReceiverOrder'
    BY <1>0, <1>5 DEF OpenReturns, ReceiverOrder, tableVars, peerVars
  <2>4. QED
    BY <2>1, <2>2, <2>3
<1>6. CASE OpenAbandoned(i)
  <2>0. /\ i < nextLocalChannelID /\ opener[i] \in {"waiting", "answered"}
        /\ opener' = [opener EXCEPT ![i] = "done"]
        /\ UNCHANGED <<nextLocalChannelID, slot, told>>
        /\ \/ UNCHANGED <<state, removing>>
           \/ removing' = removing /\ state[i] = "open" /\ state' = [state EXCEPT ![i] = "closing"]
           \/ removing' = removing \cup {i} /\ state' = [state EXCEPT ![i] = "failed"]
    BY <1>0, <1>6 DEF OpenAbandoned, FreshIds, tableVars, peerVars
  <2>1. UseOfIds'
    BY <1>0, <2>0 DEF UseOfIds, TypeOK
  <2>2. LeavesDispatched
    BY <1>0, <1>6 DEF OpenAbandoned, LeavesDispatched, Incoming, Activated, TypeOK, tableVars,
                      peerVars
  <2>3. ReceiverOrder'
    BY <1>0, <1>6 DEF OpenAbandoned, ReceiverOrder, TypeOK, tableVars, peerVars
  <2>4. QED
    BY <2>1, <2>2, <2>3
<1>7. QED
  BY <1>1, <1>2, <1>3, <1>4, <1>5, <1>6, <1>a DEF Opening

\* Close, its timer and the removal, and the requests.
LEMMA OrderClosing ==
  ASSUME TypeOK, FreshIds, OrderInv, Clean, ~excused', NEW i \in Ids,
         Closing(i) \/ Requesting(i)
  PROVE  UseOfIds' /\ LeavesDispatched /\ ReceiverOrder'
<1>0. /\ UseOfIds /\ DispatchOrder /\ ReceiverOrder
      /\ nextLocalChannelID \in Nat /\ \A j \in Ids : j \in Nat
  BY LimitsAssumption DEF OrderInv, TypeOK, Ids
<1>1. CASE Close(i)
  <2>1. UseOfIds'
    BY <1>0, <1>1 DEF Close, UseOfIds, TypeOK, peerVars, tableVars
  <2>2. LeavesDispatched
    BY <1>0, <1>1 DEF Close, Held, LeavesDispatched, Incoming, Activated, TypeOK, tableVars,
                      peerVars
  <2>3. ReceiverOrder'
    BY <1>0, <1>1 DEF Close, ReceiverOrder, TypeOK, tableVars, peerVars
  <2>4. QED
    BY <2>1, <2>2, <2>3
<1>2. CASE CloseTimeout(i)
  <2>0. slot[i] # "pending"
    BY <1>2 DEF CloseTimeout
  <2>1. UseOfIds'
    BY <1>0, <1>2 DEF CloseTimeout, UseOfIds, TypeOK, tableVars
  <2>2. LeavesDispatched
    BY <1>0, <1>2, <2>0 DEF CloseTimeout, LeavesDispatched, Incoming, Activated, TypeOK,
                            tableVars
  <2>3. ReceiverOrder'
    BY <1>0, <1>2, <2>0 DEF CloseTimeout, ReceiverOrder, TypeOK, tableVars
  <2>4. QED
    BY <2>1, <2>2, <2>3
<1>3. CASE RemoveChannel(i)
  <2>0. state[i] \in {"closed", "failed"}
    BY <1>0, <1>3 DEF RemoveChannel, UseOfIds
  <2>1. UseOfIds'
    BY <1>0, <1>3 DEF RemoveChannel, UseOfIds, peerVars, Remove, tableVars, TypeOK
  <2>2. LeavesDispatched
    BY <1>3, <2>0, RemoveLeaves DEF RemoveChannel, Incoming, peerVars
  <2>3. ReceiverOrder'
    BY <1>0, <1>3, <2>0 DEF RemoveChannel, Remove, ReceiverOrder, TypeOK, tableVars, peerVars
  <2>4. QED
    BY <2>1, <2>2, <2>3
<1>4. CASE Requesting(i)
  <2>1. UNCHANGED <<nextLocalChannelID, tableVars, state, opener, receiver, removing, told>>
    BY <1>4 DEF Requesting, SendRequest, RequestDone, RemoteCloseEvent, peerVars
  <2>2. QED
    BY <1>0, <2>1 DEF UseOfIds, LeavesDispatched, Incoming, Activated, ReceiverOrder, tableVars
<1>5. QED
  BY <1>1, <1>2, <1>3, <1>4 DEF Closing

\* The receiver.
LEMMA OrderReceiving ==
  ASSUME TypeOK, FreshIds, OrderInv, Clean, ~excused', SlotAccounting, WaitersHeld,
         NEW i \in Ids, Receiving(i),
         ~\E p \in PeerIds : EnqueueIncomingOpen(i, p)
  PROVE  UseOfIds' /\ LeavesDispatched /\ ReceiverOrder'
<1>0. /\ UseOfIds /\ DispatchOrder /\ ReceiverOrder
      /\ nextLocalChannelID \in Nat /\ (\A j \in Ids : j \in Nat) /\ NoId \notin Ids
  BY LimitsAssumption DEF OrderInv, TypeOK, Ids, NoId
<1>1. CASE IncomingOpenRefused(i)
  <2>1. UseOfIds'
    BY <1>0, <1>1 DEF IncomingOpenRefused, Receives, UseOfIds, peerVars, tableVars, TypeOK
  <2>2. LeavesDispatched
    BY <1>0, <1>1 DEF IncomingOpenRefused, Receives, LeavesDispatched, Incoming, Activated,
                      tableVars, peerVars
  <2>3. ReceiverOrder'
    BY <1>0, <1>1 DEF IncomingOpenRefused, Receives, Idle, ReceiverOrder, tableVars, peerVars
  <2>4. QED
    BY <2>1, <2>2, <2>3
<1>a. ASSUME NEW p \in PeerIds, IncomingOpenDropped(i, p)
      PROVE  UseOfIds' /\ LeavesDispatched /\ ReceiverOrder'
  <2>0. /\ i = nextLocalChannelID /\ opener[i] = "none" /\ i \notin channels /\ i \notin told
        /\ i \notin removing
        /\ peerChannelIDs[p] = NoId
        /\ nextLocalChannelID' = i + 1
        /\ peerChannelIDs' = [peerChannelIDs EXCEPT ![p] = i]
        /\ channels' = channels \cup {i}
        /\ slot' = [slot EXCEPT ![i] = "pending"]
        /\ state' = [state EXCEPT ![i] = "opening"]
        /\ receiver' = At("refused", i)
        /\ UNCHANGED <<opener, removing, told>>
    BY <1>0, <1>a DEF IncomingOpenDropped, AdmitIncoming, Receives, AddPending, FreshIds, Fresh,
                UseOfIds, peerVars
  <2>1. UseOfIds'
    BY <1>0, <2>0 DEF UseOfIds, TypeOK
  <2>2. LeavesDispatched
    BY <1>0, <2>0 DEF LeavesDispatched, Incoming, Activated, TypeOK, At
  <2>3. ReceiverOrder'
    BY <1>0, <2>0 DEF ReceiverOrder, At
  <2>4. QED
    BY <2>1, <2>2, <2>3
<1>b. CASE Lookup(i) \/ OtherMessage(i)
  <2>0. /\ UNCHANGED <<nextLocalChannelID, tableVars, state, opener, removing, told>>
        /\ \/ receiver' \in {Idle, Stopped}
           \/ receiver' = At("found", i) /\ i \in told
    <3>1. CASE Lookup(i)
      <4>1. i \in told
        <5>1. excused' = (excused \/ i \notin told)
          BY <3>1 DEF Lookup
        <5>2. QED
          BY <5>1, Zenon
      <4>2. QED
        BY <3>1, <4>1 DEF Lookup
    <3>2. CASE OtherMessage(i)
      BY <3>2 DEF OtherMessage, peerVars
    <3>3. QED
      BY <1>b, <3>1, <3>2
  <2>1. UseOfIds'
    BY <1>0, <2>0 DEF UseOfIds, tableVars
  <2>2. LeavesDispatched
    BY <1>0, <2>0 DEF LeavesDispatched, Incoming, Activated, At, Idle, Stopped, tableVars
  <2>3. ReceiverOrder'
    BY <2>0 DEF ReceiverOrder, At, Idle, Stopped
  <2>4. QED
    BY <2>1, <2>2, <2>3
<1>c. ASSUME receiver = At("found", i)
      PROVE  i \in told /\ i < nextLocalChannelID
  BY <1>0, <1>c DEF ReceiverOrder, At, UseOfIds
<1>2. ASSUME NEW p \in PeerIds, OpenAccepted(i, p)
      PROVE  UseOfIds' /\ LeavesDispatched /\ ReceiverOrder'
  <2>0. i \in told /\ told' = told /\ i \in channels
    <3>1. i \in told /\ told' = told /\ openWait[i]
      BY <1>c, <1>2 DEF OpenAccepted, peerVars
    <3>2. QED
      BY <1>0, <3>1 DEF WaitersHeld, Clean, UseOfIds
  <2>1. UseOfIds'
    BY <1>0, <1>2, <2>0 DEF OpenAccepted, UseOfIds, TypeOK
  <2>2. LeavesDispatched
    BY <1>0, <1>2, <2>0 DEF OpenAccepted, LeavesDispatched, Incoming, Activated, TypeOK, At,
                            Stopped
  <2>3. ReceiverOrder'
    <3>1. CASE receiver' = Stopped
      BY <2>0, <3>1 DEF ReceiverOrder, Stopped
    <3>2. CASE receiver' # Stopped
      <4>1. receiver' = At("activate", i) /\ state' = [state EXCEPT ![i] = "open"]
        BY <1>2, <3>2 DEF OpenAccepted
      <4>2. slot' = slot /\ slot[i] = "pending"
        BY <1>0, <1>2, <2>0 DEF OpenAccepted, TypeOK, Slots, SlotAccounting, Clean, UseOfIds
      <4>3. QED
        BY <2>0, <4>1, <4>2 DEF ReceiverOrder, At, TypeOK
    <3>3. QED
      BY <3>1, <3>2
  <2>4. QED
    BY <2>1, <2>2, <2>3
<1>3. CASE OpenRejected(i)
  <2>0. i \in told /\ told' = told
    BY <1>c, <1>3 DEF OpenRejected, peerVars
  <2>1. UseOfIds'
    BY <1>0, <1>3, <2>0 DEF OpenRejected, UseOfIds, TypeOK, tableVars
  <2>2. LeavesDispatched
    BY <1>0, <1>3, <2>0 DEF OpenRejected, LeavesDispatched, Incoming, Activated, TypeOK,
                            tableVars, At
  <2>3. ReceiverOrder'
    BY <1>0, <1>3, <2>0 DEF OpenRejected, At, ReceiverOrder, tableVars
  <2>4. QED
    BY <2>1, <2>2, <2>3
<1>4. CASE EnqueueChannelClose(i)
  <2>0. i \in told /\ told' = told
    BY <1>c, <1>4 DEF EnqueueChannelClose, peerVars
  <2>1. UseOfIds'
    BY <1>0, <1>4, <2>0 DEF EnqueueChannelClose, UseOfIds, TypeOK, tableVars
  <2>2. LeavesDispatched
    BY <1>0, <1>4, <2>0 DEF EnqueueChannelClose, LeavesDispatched, Incoming, Activated, TypeOK,
                            tableVars, At, Stopped
  <2>3. ReceiverOrder'
    BY <1>0, <1>4, <2>0 DEF EnqueueChannelClose, At, Stopped, ReceiverOrder, tableVars
  <2>4. QED
    BY <2>1, <2>2, <2>3
<1>5. CASE ReceiverActivate(i)
  <2>0. i \in told /\ told' = told
    BY <1>0, <1>5 DEF ReceiverActivate, At, ReceiverOrder, peerVars
  <2>1. UseOfIds'
    BY <1>0, <1>5, <2>0 DEF ReceiverActivate, UseOfIds, Activate, At, ReceiverOrder, TypeOK
  <2>2. LeavesDispatched
    BY <1>0, <1>5, <2>0 DEF ReceiverActivate, Activate, LeavesDispatched, Incoming, Activated,
                            TypeOK, At, Stopped
  <2>3. ReceiverOrder'
    BY <1>0, <1>5, <2>0 DEF ReceiverActivate, At, Stopped, ReceiverOrder
  <2>4. QED
    BY <2>1, <2>2, <2>3
<1>6. CASE ReceiverAnswer(i)
  <2>0. told' = told
    BY <1>6 DEF ReceiverAnswer, peerVars
  <2>1. UseOfIds'
    BY <1>0, <1>6, <2>0 DEF ReceiverAnswer, UseOfIds, TypeOK, tableVars
  <2>2. LeavesDispatched
    BY <1>0, <1>6, <2>0 DEF ReceiverAnswer, LeavesDispatched, Incoming, Activated, TypeOK,
                            tableVars, At, Idle
  <2>3. ReceiverOrder'
    BY <1>0, <1>6, <2>0 DEF ReceiverAnswer, Idle, ReceiverOrder
  <2>4. QED
    BY <2>1, <2>2, <2>3
<1>7. CASE ReceiverRemove(i)
  <2>0. /\ told' = told /\ ~Incoming(i)
        /\ UNCHANGED <<nextLocalChannelID, state, opener, removing>>
        /\ \/ receiver'.at \in {"answer", "idle"} /\ receiver'.ch \in told \cup {NoId}
           \/ /\ receiver' = At("dropped", i)
              /\ i < nextLocalChannelID /\ opener[i] = "none"
    BY <1>0, <1>7 DEF ReceiverRemove, At, Idle, ReceiverOrder, Incoming, peerVars
  <2>1. UseOfIds'
    BY <1>0, <1>7, <2>0 DEF ReceiverRemove, UseOfIds, Remove, tableVars, TypeOK
  <2>2. LeavesDispatched
    <3>1. \A j \in Ids : receiver' # At("refused", j)
      BY <2>0 DEF At
    <3>2. Remove(i)
      BY <1>7 DEF ReceiverRemove
    <3>3. QED
      BY <2>0, <3>1, <3>2, RemoveLeaves
  <2>3. ReceiverOrder'
    <3>1. i \notin channels'
      BY <1>7 DEF ReceiverRemove, Remove, tableVars
    <3>2. QED
      BY <2>0, <3>1 DEF At, ReceiverOrder
  <2>4. QED
    BY <2>1, <2>2, <2>3
<1>8. CASE ReceiverDrop(i)
  <2>0. /\ i \notin channels /\ i < nextLocalChannelID /\ opener[i] = "none"
        /\ receiver' \in {Idle, Stopped}
        /\ state' = [state EXCEPT ![i] = IF @ = "closed" THEN @ ELSE "failed"]
        /\ UNCHANGED <<nextLocalChannelID, tableVars, opener, removing, told>>
    BY <1>0, <1>8 DEF ReceiverDrop, ShutdownChannel, ReceiverOrder, At, peerVars
  <2>1. UseOfIds'
    BY <1>0, <2>0 DEF UseOfIds, TypeOK, tableVars
  <2>2. LeavesDispatched
    BY <1>0, <2>0 DEF LeavesDispatched, Incoming, Activated, TypeOK, tableVars, At, Idle, Stopped
  <2>3. ReceiverOrder'
    BY <2>0 DEF ReceiverOrder, Idle, Stopped
  <2>4. QED
    BY <2>1, <2>2, <2>3
<1>9. QED
  BY <1>1, <1>2, <1>3, <1>4, <1>5, <1>6, <1>7, <1>8, <1>a, <1>b DEF Receiving

\* A step of the dispatcher keeps the order of the opens behind the one it
\* handles.
LEMMA QueueKept ==
  ASSUME TypeOK, PeerIDsAgree, Clean, QueueOrder, NEW i \in Ids, dispatcher.ch = i,
         dispatchQueue' = dispatchQueue, dispatcher'.ch \in {i, NoId},
         \A j \in Ids \ {i} : Incoming(j) => Incoming(j)' /\ state'[j] = state[j],
         \A p \in PeerIds : peerChannelIDs[p] # i => peerChannelIDs'[p] = peerChannelIDs[p]
  PROVE  QueueOrder'
<1>0. /\ \A j : Incoming(j) => j \in Ids
      /\ \A k \in DOMAIN dispatchQueue : dispatchQueue[k] \in PeerIds
  BY DEF Incoming, TypeOK
<1>a. NoId \notin Ids
  BY LimitsAssumption DEF Ids, NoId
<1>1. ASSUME NEW k \in DOMAIN dispatchQueue
      PROVE  /\ Incoming(peerChannelIDs[dispatchQueue[k]])'
             /\ state'[peerChannelIDs'[dispatchQueue[k]]] = "opening"
             /\ peerChannelIDs'[dispatchQueue[k]] # dispatcher'.ch
  <2>1. /\ dispatchQueue[k] \in PeerIds
        /\ Incoming(peerChannelIDs[dispatchQueue[k]])
        /\ state[peerChannelIDs[dispatchQueue[k]]] = "opening"
        /\ peerChannelIDs[dispatchQueue[k]] # i
    BY <1>0, <1>1 DEF QueueOrder
  <2>2. peerChannelIDs[dispatchQueue[k]] \in Ids \ {i}
    BY <1>0, <2>1
  <2>3. peerChannelIDs'[dispatchQueue[k]] = peerChannelIDs[dispatchQueue[k]]
    BY <2>1
  <2>4. /\ Incoming(peerChannelIDs[dispatchQueue[k]])'
        /\ state'[peerChannelIDs[dispatchQueue[k]]] = "opening"
    BY <2>1, <2>2, <2>3 DEF Incoming
  <2>5. QED
    BY <1>a, <2>2, <2>3, <2>4
<1>2. QED
  BY <1>0, <1>1 DEF QueueOrder, Incoming

\* removeChannel of the dispatcher's channel.
LEMMA OrderDropped ==
  ASSUME TypeOK, FreshIds, PeerIDsAgree, OrderInv, Clean, NEW i \in Ids,
         DispatchReject(i) \/ DispatchSendFails(i)
  PROVE  UseOfIds' /\ DispatchOrder' /\ ReceiverOrder'
<1>0. /\ UseOfIds /\ QueueOrder /\ DispatcherOrder /\ ReceiverOrder
      /\ nextLocalChannelID \in Nat /\ (\A j \in Ids : j \in Nat) /\ NoId \notin Ids
  BY LimitsAssumption DEF OrderInv, DispatchOrder, TypeOK, Ids, NoId
<1>1. /\ i < nextLocalChannelID /\ opener[i] = "none"
      /\ dispatcher.ch = i
      /\ receiver.at = "activate" => receiver.ch # i
      /\ i \notin channels => slot[i] # "pending"
  BY <1>0 DEF DispatchReject, DispatchSendFails, At, DispatcherOrder, Incoming, Activated,
              FreshIds, Fresh, ReceiverOrder
<1>2. /\ Remove(i) /\ dispatcher' \in {At("rejecting", i), At("failing", i)}
      /\ UNCHANGED <<nextLocalChannelID, state, opener, dispatchQueue, receiver, removing, told>>
  BY DEF DispatchReject, DispatchSendFails, peerVars
<1>3. /\ \/ slot' = slot /\ i \notin channels
         \/ slot' = [slot EXCEPT ![i] = "none"]
      /\ channels' = channels \/ channels' = channels \ {i}
      /\ \A p \in PeerIds : peerChannelIDs[p] # i => peerChannelIDs'[p] = peerChannelIDs[p]
  BY <1>2 DEF Remove, tableVars
<1>4. UseOfIds'
  BY <1>0, <1>1, <1>2, <1>3 DEF UseOfIds, TypeOK
<1>5. QueueOrder'
  <2>1. \A j \in Ids \ {i} : Incoming(j) => Incoming(j)' /\ state'[j] = state[j]
    BY <1>2, <1>3 DEF Incoming, TypeOK
  <2>2. dispatcher'.ch \in {i, NoId}
    BY <1>2 DEF At
  <2>3. QED
    BY <1>0, <1>1, <1>2, <1>3, <2>1, <2>2, QueueKept
<1>6. DispatcherOrder'
  <2>1. slot'[i] # "pending"
    BY <1>1, <1>3 DEF TypeOK
  <2>2. Activated(i)'
    BY <1>1, <1>2, <2>1 DEF Activated
  <2>3. dispatcher'.at \in {"rejecting", "failing"} /\ dispatcher'.ch = i
    BY <1>2 DEF At
  <2>4. QED
    BY <1>0, <2>2, <2>3 DEF DispatcherOrder, Activated
<1>7. ReceiverOrder'
  BY <1>0, <1>1, <1>2, <1>3 DEF ReceiverOrder, TypeOK
<1>8. QED
  BY <1>4, <1>5, <1>6, <1>7 DEF DispatchOrder

\* Channel.shutdown of the dispatcher's channel.
LEMMA OrderFailed ==
  ASSUME TypeOK, FreshIds, PeerIDsAgree, OrderInv, Clean, NEW i \in Ids, DispatchFail(i)
  PROVE  UseOfIds' /\ DispatchOrder' /\ ReceiverOrder'
<1>0. /\ UseOfIds /\ QueueOrder /\ DispatcherOrder /\ ReceiverOrder
      /\ nextLocalChannelID \in Nat /\ (\A j \in Ids : j \in Nat) /\ NoId \notin Ids
  BY LimitsAssumption DEF OrderInv, DispatchOrder, TypeOK, Ids, NoId
<1>1. Activated(i) /\ dispatcher.ch = i
  BY <1>0 DEF DispatchFail, At, DispatcherOrder
<1>2. /\ dispatcher' \in {Idle, Stopped}
      /\ state' = [state EXCEPT ![i] = IF @ = "closed" THEN @ ELSE "failed"]
      /\ UNCHANGED <<nextLocalChannelID, tableVars, opener, dispatchQueue, receiver, removing,
                     told>>
  BY DEF DispatchFail, ShutdownChannel, peerVars
<1>3. UseOfIds'
  BY <1>0, <1>2 DEF UseOfIds, TypeOK, tableVars
<1>4. QueueOrder'
  <2>1. \A j \in Ids \ {i} : Incoming(j) => Incoming(j)' /\ state'[j] = state[j]
    BY <1>2 DEF Incoming, TypeOK, tableVars
  <2>2. dispatcher'.ch \in {i, NoId}
    BY <1>2 DEF Idle, Stopped
  <2>3. QED
    BY <1>0, <1>1, <1>2, <2>1, <2>2, QueueKept DEF tableVars
<1>5. DispatcherOrder'
  BY <1>2 DEF DispatcherOrder, Idle, Stopped
<1>6. ReceiverOrder'
  BY <1>0, <1>1, <1>2 DEF ReceiverOrder, Activated, TypeOK, tableVars
<1>7. QED
  BY <1>3, <1>4, <1>5, <1>6 DEF DispatchOrder

\* The accepting steps of the dispatcher.
LEMMA OrderAccepted ==
  ASSUME TypeOK, FreshIds, PeerIDsAgree, OrderInv, Clean, NEW i \in Ids,
         DispatchAccept(i) \/ DispatchActivate(i) \/ DispatchSent(i)
  PROVE  UseOfIds' /\ DispatchOrder' /\ ReceiverOrder'
<1>0. /\ UseOfIds /\ QueueOrder /\ DispatcherOrder /\ ReceiverOrder
      /\ nextLocalChannelID \in Nat /\ (\A j \in Ids : j \in Nat) /\ NoId \notin Ids
  BY LimitsAssumption DEF OrderInv, DispatchOrder, TypeOK, Ids, NoId
<1>1. /\ i < nextLocalChannelID /\ opener[i] = "none" /\ dispatcher.ch = i
      /\ receiver.at = "activate" => receiver.ch # i
  BY <1>0 DEF DispatchAccept, DispatchActivate, DispatchSent, At, DispatcherOrder, Incoming,
              Activated, FreshIds, Fresh, ReceiverOrder
<1>2. /\ UNCHANGED <<nextLocalChannelID, channels, peerChannelIDs, opener, dispatchQueue,
                     receiver, removing>>
      /\ dispatcher'.ch \in {i, NoId}
  BY DEF DispatchAccept, DispatchActivate, DispatchSent, tableVars, At, Idle, Stopped
<1>3. CASE DispatchAccept(i)
  <2>1. /\ Incoming(i) /\ state[i] = "opening"
        /\ state' = [state EXCEPT ![i] = "open"] /\ dispatcher' = At("activate", i)
        /\ UNCHANGED <<slot, told>>
    BY <1>0, <1>3 DEF DispatchAccept, DispatcherOrder, At, tableVars, peerVars
  <2>2. UseOfIds'
    BY <1>0, <1>1, <1>2, <2>1 DEF UseOfIds, TypeOK
  <2>3. \A j \in Ids \ {i} : Incoming(j) => Incoming(j)' /\ state'[j] = state[j]
    BY <1>2, <2>1 DEF Incoming, TypeOK
  <2>4. QueueOrder'
    BY <1>0, <1>1, <1>2, <2>3, QueueKept
  <2>5. DispatcherOrder'
    BY <1>2, <2>1 DEF DispatcherOrder, At, Incoming, TypeOK
  <2>6. ReceiverOrder'
    BY <1>0, <1>1, <1>2, <2>1 DEF ReceiverOrder, TypeOK
  <2>7. QED
    BY <2>2, <2>4, <2>5, <2>6 DEF DispatchOrder
<1>4. CASE DispatchActivate(i)
  <2>1. /\ Incoming(i) /\ state[i] = "open"
        /\ UNCHANGED <<state, told>>
        /\ \/ slot' = [slot EXCEPT ![i] = "active"] /\ dispatcher' = At("send", i)
           \/ slot' = slot /\ dispatcher' = Stopped
    BY <1>0, <1>4 DEF DispatchActivate, Activate, DispatcherOrder, At, peerVars
  <2>2. UseOfIds'
    BY <1>0, <1>1, <1>2, <2>1 DEF UseOfIds, TypeOK
  <2>3. \A j \in Ids \ {i} : Incoming(j) => Incoming(j)' /\ state'[j] = state[j]
    BY <1>2, <2>1 DEF Incoming, TypeOK
  <2>4. QueueOrder'
    BY <1>0, <1>1, <1>2, <2>3, QueueKept
  <2>5. DispatcherOrder'
    BY <1>1, <1>2, <2>1 DEF DispatcherOrder, At, Stopped, Activated, TypeOK
  <2>6. ReceiverOrder'
    BY <1>0, <1>1, <1>2, <2>1 DEF ReceiverOrder, TypeOK
  <2>7. QED
    BY <2>2, <2>4, <2>5, <2>6 DEF DispatchOrder
<1>5. CASE DispatchSent(i)
  <2>1. /\ Activated(i) /\ dispatcher' = Idle /\ told' = told \cup {i}
        /\ UNCHANGED <<state, slot>>
    BY <1>0, <1>5 DEF DispatchSent, DispatcherOrder, At, tableVars
  <2>2. UseOfIds'
    BY <1>0, <1>1, <1>2, <2>1 DEF UseOfIds, TypeOK
  <2>3. \A j \in Ids \ {i} : Incoming(j) => Incoming(j)' /\ state'[j] = state[j]
    BY <1>2, <2>1 DEF Incoming, TypeOK
  <2>4. QueueOrder'
    BY <1>0, <1>1, <1>2, <2>3, QueueKept
  <2>5. DispatcherOrder'
    BY <2>1 DEF DispatcherOrder, Idle
  <2>6. ReceiverOrder'
    BY <1>0, <1>1, <1>2, <2>1 DEF ReceiverOrder
  <2>7. QED
    BY <2>2, <2>4, <2>5, <2>6 DEF DispatchOrder
<1>6. QED
  BY <1>3, <1>4, <1>5

\* enqueueIncomingOpen: the new channel goes to the end of the queue.
LEMMA OrderEnqueued ==
  ASSUME TypeOK, FreshIds, PeerIDsAgree, OrderInv, Clean, NEW i \in Ids, NEW p \in PeerIds,
         EnqueueIncomingOpen(i, p)
  PROVE  UseOfIds' /\ DispatchOrder' /\ ReceiverOrder'
<1>0. /\ UseOfIds /\ QueueOrder /\ DispatcherOrder /\ ReceiverOrder
      /\ nextLocalChannelID \in Nat /\ (\A j \in Ids : j \in Nat) /\ NoId \notin Ids
  BY LimitsAssumption DEF OrderInv, DispatchOrder, TypeOK, Ids, NoId
<1>1. /\ i = nextLocalChannelID /\ opener[i] = "none" /\ i \notin channels /\ i \notin told
      /\ i \notin removing
      /\ peerChannelIDs[p] = NoId
      /\ nextLocalChannelID' = i + 1
      /\ peerChannelIDs' = [peerChannelIDs EXCEPT ![p] = i]
      /\ channels' = channels \cup {i}
      /\ slot' = [slot EXCEPT ![i] = "pending"]
      /\ state' = [state EXCEPT ![i] = "opening"]
      /\ dispatchQueue' = Append(dispatchQueue, p)
      /\ UNCHANGED <<opener, dispatcher, receiver, removing, told>>
      /\ receiver = Idle
  BY <1>0 DEF EnqueueIncomingOpen, AdmitIncoming, Receives, AddPending, FreshIds, Fresh,
              UseOfIds, peerVars
<1>2. UseOfIds'
  BY <1>0, <1>1 DEF UseOfIds, TypeOK
<1>3. ReceiverOrder'
  BY <1>0, <1>1 DEF ReceiverOrder, Idle
<1>4. dispatcher.ch # i /\ DispatcherOrder'
  <2>1. \A j \in Ids : Incoming(j) => j # i /\ Incoming(j)' /\ state'[j] = state[j]
    BY <1>1 DEF Incoming, TypeOK
  <2>2. \A j \in Ids : Activated(j) => j # i /\ Activated(j)'
    BY <1>0, <1>1 DEF Activated, TypeOK
  <2>3. \A j : (Incoming(j) \/ Activated(j)) => j \in Ids
    BY DEF Incoming, Activated, TypeOK
  <2>4. dispatcher.at \in {"idle", "stopped"} => dispatcher.ch # i
    BY <1>0 DEF DispatcherOrder
  <2>5. QED
    <3>1. dispatcher' = dispatcher /\ dispatcher.at \in DispatcherPlaces
      BY <1>1 DEF TypeOK
    <3>2. dispatcher.ch # i
      BY <1>0, <2>1, <2>2, <2>3, <2>4, <3>1 DEF DispatcherOrder, DispatcherPlaces
    <3>3. DispatcherOrder'
      BY <1>0, <2>1, <2>2, <2>3, <3>1 DEF DispatcherOrder
    <3>4. QED
      BY <3>2, <3>3
<1>5. QueueOrder'
  <2>1. /\ dispatchQueue \in Seq(PeerIds) /\ DOMAIN dispatchQueue = 1..Len(dispatchQueue)
        /\ DOMAIN dispatchQueue' = 1..(Len(dispatchQueue) + 1)
        /\ dispatchQueue'[Len(dispatchQueue) + 1] = p
        /\ \A k \in DOMAIN dispatchQueue : dispatchQueue'[k] = dispatchQueue[k]
        /\ Len(dispatchQueue) \in Nat
    BY <1>1 DEF TypeOK
  <2>2. \A k \in DOMAIN dispatchQueue : dispatchQueue[k] \in PeerIds /\ dispatchQueue[k] # p
    <3>1. \A k \in DOMAIN dispatchQueue : dispatchQueue[k] \in PeerIds
      BY <2>1
    <3>2. channels \subseteq Ids
      BY DEF TypeOK
    <3>3. \A k \in DOMAIN dispatchQueue : peerChannelIDs[dispatchQueue[k]] \in channels
      BY <1>0 DEF QueueOrder, Incoming
    <3>4. QED
      BY <1>0, <1>1, <3>1, <3>2, <3>3
  <2>3. ASSUME NEW k \in DOMAIN dispatchQueue
        PROVE  /\ Incoming(peerChannelIDs[dispatchQueue[k]])'
               /\ state'[peerChannelIDs'[dispatchQueue[k]]] = "opening"
               /\ peerChannelIDs'[dispatchQueue[k]] # dispatcher.ch
    <3>1. peerChannelIDs'[dispatchQueue'[k]] = peerChannelIDs[dispatchQueue[k]]
      BY <1>1, <2>1, <2>2, <2>3 DEF TypeOK
    <3>2. QED
      BY <1>0, <1>1, <2>1, <2>3, <3>1 DEF QueueOrder, Incoming, TypeOK
  <2>4. /\ peerChannelIDs'[p] = i /\ state'[i] = "opening" /\ Incoming(i)'
        /\ i # dispatcher.ch
    BY <1>1, <1>4 DEF Incoming, TypeOK, Idle, At
  <2>5. \A k \in DOMAIN dispatchQueue' : k \in DOMAIN dispatchQueue \/ k = Len(dispatchQueue) + 1
    BY <2>1
  <2>6. \A k, l \in DOMAIN dispatchQueue' : k # l => dispatchQueue'[k] # dispatchQueue'[l]
    BY <1>0, <2>1, <2>2, <2>5 DEF QueueOrder
  <2>7. \A k \in DOMAIN dispatchQueue' :
           /\ Incoming(peerChannelIDs[dispatchQueue[k]])'
           /\ state'[peerChannelIDs'[dispatchQueue'[k]]] = "opening"
           /\ peerChannelIDs'[dispatchQueue'[k]] # dispatcher'.ch
    BY <1>1, <2>1, <2>3, <2>4, <2>5 DEF Incoming
  <2>8. QED
    BY <2>6, <2>7 DEF QueueOrder
<1>6. QED
  BY <1>2, <1>3, <1>4, <1>5 DEF DispatchOrder

\* lookupChannelByPeer finds the channel of the open at the head of the queue.
LEMMA HeadFound ==
  ASSUME TypeOK, QueueOrder, dispatchQueue # <<>>
  PROVE  /\ Head(dispatchQueue) \in PeerIds
         /\ Incoming(peerChannelIDs[Head(dispatchQueue)])
         /\ state[peerChannelIDs[Head(dispatchQueue)]] = "opening"
<1>1. 1 \in DOMAIN dispatchQueue /\ Head(dispatchQueue) = dispatchQueue[1]
      /\ dispatchQueue[1] \in PeerIds
  BY DEF TypeOK
<1>2. QED
  BY <1>1 DEF QueueOrder

\* The dispatcher takes the next open.
LEMMA OrderTaken ==
  ASSUME TypeOK, PeerIDsAgree, OrderInv, Clean, DispatchOpen
  PROVE  UseOfIds' /\ DispatchOrder' /\ ReceiverOrder'
<1>0. /\ UseOfIds /\ QueueOrder /\ DispatcherOrder /\ ReceiverOrder
      /\ dispatchQueue # <<>>
  BY DEF OrderInv, DispatchOrder, DispatchOpen
<1> DEFINE i == peerChannelIDs[Head(dispatchQueue)]
<1>1. /\ Head(dispatchQueue) \in PeerIds /\ Incoming(i) /\ state[i] = "opening"
      /\ i \in Ids /\ i # NoId
  <2>1. Incoming(i) => i \in Ids
    BY DEF Incoming, TypeOK
  <2>2. NoId \notin Ids
    BY LimitsAssumption DEF Ids, NoId
  <2>3. QED
    BY <1>0, <2>1, <2>2, HeadFound
<1>2. /\ dispatcher' = At("handler", i) /\ dispatchQueue' = Tail(dispatchQueue)
      /\ UNCHANGED <<nextLocalChannelID, tableVars, state, opener, receiver, removing, told>>
  BY <1>1 DEF DispatchOpen, Incoming, peerVars
<1>3. UseOfIds' /\ ReceiverOrder'
  BY <1>0, <1>2 DEF UseOfIds, ReceiverOrder, tableVars
<1>4. DispatcherOrder'
  BY <1>1, <1>2 DEF DispatcherOrder, At, Incoming, tableVars
<1>5. QueueOrder'
  <2>1. /\ Len(dispatchQueue) \in Nat /\ DOMAIN dispatchQueue = 1..Len(dispatchQueue)
        /\ Head(dispatchQueue) = dispatchQueue[1] /\ 1 \in DOMAIN dispatchQueue
        /\ DOMAIN dispatchQueue' = 1..(Len(dispatchQueue) - 1)
        /\ \A k \in DOMAIN dispatchQueue' : dispatchQueue'[k] = dispatchQueue[k + 1]
    BY <1>0, <1>2 DEF TypeOK
  <2>2. \A k \in DOMAIN dispatchQueue' : k + 1 \in DOMAIN dispatchQueue /\ k + 1 # 1
    BY <2>1
  <2>3. \A k, l \in DOMAIN dispatchQueue' : k # l => k + 1 # l + 1
    BY <2>1
  <2>4. \A k, l \in DOMAIN dispatchQueue' : k # l => dispatchQueue'[k] # dispatchQueue'[l]
    BY <1>0, <2>1, <2>2, <2>3 DEF QueueOrder
  <2>5. ASSUME NEW k \in DOMAIN dispatchQueue'
        PROVE  /\ Incoming(peerChannelIDs[dispatchQueue[k]])'
               /\ state'[peerChannelIDs'[dispatchQueue'[k]]] = "opening"
               /\ peerChannelIDs'[dispatchQueue'[k]] # dispatcher'.ch
    <3>1. /\ Incoming(peerChannelIDs[dispatchQueue[k + 1]])
          /\ state[peerChannelIDs[dispatchQueue[k + 1]]] = "opening"
          /\ dispatchQueue[k + 1] # Head(dispatchQueue)
      BY <1>0, <2>1, <2>2, <2>5 DEF QueueOrder
    <3>2. dispatchQueue[k + 1] \in PeerIds
      BY <2>2, <2>5 DEF TypeOK
    <3>3. peerChannelIDs[dispatchQueue[k + 1]] # i
      BY <1>1, <3>1, <3>2 DEF PeerIDsAgree, Clean
    <3>4. dispatcher'.ch = i
      BY <1>2 DEF At
    <3>5. QED
      BY <1>2, <2>1, <2>5, <3>1, <3>3, <3>4 DEF Incoming, tableVars
  <2>6. QED
    BY <2>4, <2>5 DEF QueueOrder
<1>6. QED
  BY <1>3, <1>4, <1>5 DEF DispatchOrder

\* Every step keeps the order in which a channel is entered, activated and told.
LEMMA OrderStep ==
  TypeOK /\ FreshIds /\ SlotAccounting /\ PeerIDsAgree /\ WaitersHeld /\ OrderInv
    /\ [Next]_vars => OrderInv'
<1> SUFFICES ASSUME TypeOK, FreshIds, SlotAccounting, PeerIDsAgree, WaitersHeld, OrderInv,
                    [Next]_vars, Clean'
             PROVE  UseOfIds' /\ DispatchOrder' /\ ReceiverOrder'
  BY DEF OrderInv
<1>0. Clean /\ ~excused' /\ down' = "no" /\ DispatchOrder
  BY DownStep, ExcusedStays DEF Clean, OrderInv
<1>1. ASSUME NEW i \in Ids, Opening(i)
      PROVE  UseOfIds' /\ DispatchOrder' /\ ReceiverOrder'
  <2>1. UNCHANGED dispatchVars
    BY <1>1 DEF Opening, OpenChannel, OpenAdd, OpenSent, OpenSendFails, OpenFailed,
                OpenReturns, OpenAbandoned
  <2>2. QED
    BY <1>0, <1>1, <2>1, OrderOpening, DispatchKept
<1>2. ASSUME NEW i \in Ids, Closing(i) \/ Requesting(i)
      PROVE  UseOfIds' /\ DispatchOrder' /\ ReceiverOrder'
  <2>1. UNCHANGED dispatchVars
    BY <1>2 DEF Closing, Close, CloseTimeout, RemoveChannel, Requesting, SendRequest,
                RequestDone, RemoteCloseEvent
  <2>2. QED
    BY <1>0, <1>2, <2>1, OrderClosing, DispatchKept
<1>3. ASSUME NEW i \in Ids, Receiving(i)
      PROVE  UseOfIds' /\ DispatchOrder' /\ ReceiverOrder'
  <2>1. CASE \E p \in PeerIds : EnqueueIncomingOpen(i, p)
    BY <1>0, <2>1, OrderEnqueued
  <2>2. CASE ~\E p \in PeerIds : EnqueueIncomingOpen(i, p)
    <3>1. UNCHANGED dispatchVars
      BY <1>3, <2>2 DEF Receiving, IncomingOpenDropped, AdmitIncoming, OpenAccepted,
                        IncomingOpenRefused, Lookup, OtherMessage, OpenRejected,
                        EnqueueChannelClose, ReceiverActivate, ReceiverAnswer, ReceiverRemove,
                        ReceiverDrop, dispatchVars
    <3>2. QED
      BY <1>0, <1>3, <2>2, <3>1, OrderReceiving, DispatchKept
  <2>3. QED
    BY <2>1, <2>2
<1>4. ASSUME NEW i \in Ids, Dispatching(i)
      PROVE  UseOfIds' /\ DispatchOrder' /\ ReceiverOrder'
  BY <1>0, <1>4, OrderDropped, OrderFailed, OrderAccepted DEF Dispatching
<1>5. CASE DispatchOpen
  BY <1>0, <1>5, OrderTaken
<1>6. CASE ShutdownDetach \/ ShutdownCancel \/ \E i \in Ids : ShutdownFail(i)
  BY <1>0, <1>6 DEF ShutdownDetach, ShutdownCancel, ShutdownFail, Clean
<1>7. CASE UNCHANGED vars
  BY <1>0, <1>7 DEF vars, tableVars, dispatchVars, peerVars, OrderInv, UseOfIds, DispatchOrder,
              QueueOrder, DispatcherOrder, ReceiverOrder, Incoming, Activated
<1>8. CASE ReleaseRequest
  <2>1. UNCHANGED <<nextLocalChannelID, tableVars, state, opener, receiver, removing, told,
                    dispatchVars>>
    BY <1>8 DEF ReleaseRequest, peerVars
  <2>2. QED
    BY <1>0, <2>1 DEF tableVars, dispatchVars, OrderInv, UseOfIds, DispatchOrder, QueueOrder,
                DispatcherOrder, ReceiverOrder, Incoming, Activated
<1>9. QED
  BY <1>1, <1>2, <1>3, <1>4, <1>5, <1>6, <1>7, <1>8 DEF Next

\* A channel with a pending slot can be activated: its slot is counted.
LEMMA PendingCounted ==
  ASSUME TypeOK, SlotAccounting, down = "no", NEW i \in Ids, slot[i] = "pending"
  PROVE  CanActivate(i)
<1>1. i \in With("pending")
  BY DEF SlotAccounting, With
<1>2. pendingOpens = Cardinality(With("pending")) /\ pendingOpens \in Nat
  BY DEF SlotAccounting, TypeOK
<1>3. pendingOpens # 0
  BY <1>1, <1>2, WithFinite, FS_EmptySet
<1>4. QED
  BY <1>2, <1>3 DEF CanActivate

\* The steps that look for the channel they work on find it in order.
LEMMA ErrorStep ==
  TypeOK /\ SlotAccounting /\ OrderInv /\ NoInternalError /\ [Next]_vars => NoInternalError'
<1> SUFFICES ASSUME TypeOK, SlotAccounting, OrderInv, NoInternalError, [Next]_vars, ~excused'
             PROVE  ~internalError'
  BY DEF NoInternalError
<1>0. ~excused /\ ~internalError
  BY ExcusedStays DEF NoInternalError
<1>1. CASE UNCHANGED internalError
  BY <1>0, <1>1
<1>2. CASE InternalError /\ down # "no"
  BY <1>0, <1>2 DEF InternalError
<1>3. ASSUME Clean, NEW i \in Ids, ReceiverActivate(i)
      PROVE  UNCHANGED internalError
  <2>1. slot[i] = "pending"
    BY <1>3 DEF OrderInv, ReceiverOrder, ReceiverActivate, At
  <2>2. CanActivate(i)
    BY <1>3, <2>1, PendingCounted DEF Clean
  <2>3. QED
    BY <1>3, <2>2 DEF ReceiverActivate
<1>4. ASSUME Clean, NEW i \in Ids, DispatchAccept(i)
      PROVE  UNCHANGED internalError
  BY <1>4 DEF OrderInv, DispatchOrder, DispatcherOrder, DispatchAccept, At
<1>5. ASSUME Clean, NEW i \in Ids, DispatchActivate(i)
      PROVE  UNCHANGED internalError
  <2>1. slot[i] = "pending"
    BY <1>5 DEF OrderInv, DispatchOrder, DispatcherOrder, Incoming, DispatchActivate, At
  <2>2. CanActivate(i)
    BY <1>5, <2>1, PendingCounted DEF Clean
  <2>3. QED
    BY <1>5, <2>2 DEF DispatchActivate
<1>6. ASSUME Clean, DispatchOpen
      PROVE  UNCHANGED internalError
  <2>1. peerChannelIDs[Head(dispatchQueue)] \in channels
    BY <1>6, HeadFound DEF OrderInv, DispatchOrder, DispatchOpen, Incoming
  <2>2. QED
    BY <1>6, <2>1 DEF DispatchOpen
<1>7. \/ UNCHANGED internalError
      \/ InternalError /\ \/ \E i \in Ids : ReceiverActivate(i) \/ DispatchAccept(i)
                                            \/ DispatchActivate(i)
                          \/ DispatchOpen
  BY DEF Next, vars, Opening, Closing, Requesting, Receiving, Dispatching, OpenChannel, OpenAdd,
         OpenSent, OpenSendFails, OpenFailed, OpenReturns, OpenAbandoned, Close, CloseTimeout,
         RemoveChannel, SendRequest, RequestDone, RemoteCloseEvent, EnqueueIncomingOpen,
         IncomingOpenDropped, AdmitIncoming, OpenAccepted, IncomingOpenRefused, Lookup,
         OtherMessage, OpenRejected, EnqueueChannelClose, ReceiverActivate, ReceiverAnswer,
         ReceiverRemove, ReceiverDrop, DispatchReject, DispatchAccept, DispatchActivate,
         DispatchSent, DispatchSendFails, DispatchFail, ShutdownFail, ReleaseRequest,
         DispatchOpen, ShutdownDetach, ShutdownCancel
<1>8. QED
  BY <1>0, <1>1, <1>2, <1>3, <1>4, <1>5, <1>6, <1>7 DEF Clean

-----------------------------------------------------------------------------
(* The theorems.                                                           *)

(***************************************************************************)
(* The inductive invariant. SlotAccounting alone is not: that a new        *)
(* channel adds one to a counter needs that its id is not in the table     *)
(* yet. Nor is PeerIDsAgree: that an answer to an open maps a second id of *)
(* the peer to no channel needs that a waiting channel has none, and that  *)
(* it is in the table unless its open could not be sent.                   *)
(* NoInternalError needs the order in which a channel is entered, given to *)
(* the dispatcher or the receiver, activated and told to the peer.         *)
(***************************************************************************)
IInv ==
    /\ TypeOK
    /\ FreshIds
    /\ SlotAccounting
    /\ RequestAccounting
    /\ PeerIDsAgree
    /\ WaitersUnmapped
    /\ WaitersHeld
    /\ OrderInv
    /\ NoInternalError

\* The invariant holds of the empty table of a new session.
LEMMA InitInv == Init => IInv
<1> SUFFICES ASSUME Init
             PROVE  IInv
  OBVIOUS
<1> USE LimitsAssumption
<1>1. TypeOK
  <2>1. /\ slot \in [Ids -> Slots] /\ state \in [Ids -> States]
        /\ opener \in [Ids -> Openers] /\ openWait \in [Ids -> BOOLEAN]
        /\ pendingRequests \in [Ids -> Nat]
    BY DEF Init, Slots, States, Openers
  <2>2. /\ peerChannelIDs \in [PeerIds -> Ids \cup {NoId}]
        /\ dispatchQueue \in Seq(PeerIds)
    BY DEF Init
  <2>3. /\ dispatcher \in [at : DispatcherPlaces, ch : Ids \cup {NoId}]
        /\ receiver \in [at : ReceiverPlaces, ch : Ids \cup {NoId}]
    BY DEF Init, Idle, ReceiverPlaces, DispatcherPlaces
  <2>4. nextLocalChannelID \in 0..MaxIds
    BY DEF Init
  <2>5. QED
    BY <2>1, <2>2, <2>3, <2>4 DEF Init, TypeOK
<1>2. FreshIds
  <2>1. NoId \notin Ids
    BY DEF Ids, NoId
  <2>2. QED
    BY <2>1 DEF Init, FreshIds, Idle
<1>3. SlotAccounting
  <2>1. With("pending") = {} /\ With("active") = {}
    BY DEF Init, With
  <2>2. Cardinality({}) = 0
    BY FS_EmptySet
  <2>3. QED
    <3>1. /\ pendingOpens = 0 /\ activeChannels = 0
          /\ \A i \in Ids : slot[i] = "none" /\ i \notin channels
      BY DEF Init
    <3>2. 0 <= MaxPendingOpens /\ 0 + 0 <= MaxChannels
      OBVIOUS
    <3>3. QED
      BY <2>1, <2>2, <3>1, <3>2 DEF SlotAccounting
<1>4. RequestAccounting
  <2>1. /\ pendingRequests \in [Ids -> Nat]
        /\ \A i \in Ids : pendingRequests[i] = 0
    BY DEF Init
  <2>2. Total(pendingRequests) = 0
    BY <2>1, TotalZero
  <2>3. QED
    BY <2>2 DEF Init, RequestAccounting
<1>5. PeerIDsAgree /\ WaitersUnmapped /\ WaitersHeld
  BY DEF Init, PeerIDsAgree, WaitersUnmapped, WaitersHeld
<1>6. OrderInv /\ NoInternalError
  BY DEF Init, OrderInv, UseOfIds, DispatchOrder, QueueOrder, DispatcherOrder, ReceiverOrder,
         Idle, NoInternalError
<1>7. QED
  BY <1>1, <1>2, <1>3, <1>4, <1>5, <1>6 DEF IInv

\* The invariant is inductive: it holds however the steps of the receiver,
\* the dispatcher, callers, timers, workers and shutdown interleave.
THEOREM TableInductive == Spec => []IInv
<1>1. IInv /\ [Next]_vars => IInv'
  <2> SUFFICES ASSUME IInv, [Next]_vars
               PROVE  IInv'
    OBVIOUS
  <2>1. TypeOK'
    BY TypeStep DEF IInv
  <2>2. FreshIds'
    BY FreshStep DEF IInv
  <2>3. SlotAccounting'
    BY StepOfTable, SlotStep DEF IInv
  <2>a. OrderInv' /\ NoInternalError'
    BY OrderStep, ErrorStep DEF IInv
  <2>4. CASE down' = "no"
    <3>1. down = "no"
      BY <2>4, DownStep
    <3>2. RequestAccounting'
      BY <2>1, <2>4, <3>1, StepOfRequests, RequestCountStep DEF IInv
    <3>3. FoundSent
      BY DEF IInv, OrderInv, Clean, FoundSent, ReceiverOrder, UseOfIds, At, Ids, NoId
    <3>4. PeerIDsAgree' /\ WaitersUnmapped'
      BY <2>4, <3>1, <3>3, StepOfPeerIDs, PeerIDsStep, MisledStays DEF IInv
    <3>5. WaitersHeld'
      BY <2>4, <3>1, WaitersHeldStep DEF IInv
    <3>6. QED
      BY <2>1, <2>2, <2>3, <2>a, <3>2, <3>4, <3>5 DEF IInv
  <2>5. CASE down' # "no"
    BY <2>1, <2>2, <2>3, <2>a, <2>5 DEF IInv, RequestAccounting, PeerIDsAgree, WaitersUnmapped,
                                        WaitersHeld
  <2>6. QED
    BY <2>4, <2>5
<1>2. QED
  BY <1>1, InitInv, PTL DEF Spec

\* The types, for any limits: no counter goes below zero, although shutdown
\* resets counters that late releases and removals still decrement.
THEOREM TableTypeCorrect == Spec => []TypeOK
<1>1. IInv => TypeOK
  BY DEF IInv
<1>2. QED
  BY <1>1, TableInductive, PTL

\* addPendingChannel, activateChannel and removeChannel keep the slot counters
\* equal to the slots the table holds, within any configured limits.
THEOREM SlotsAccounted == Spec => []SlotAccounting
<1>1. IInv => SlotAccounting
  BY DEF IInv
<1>2. QED
  BY <1>1, TableInductive, PTL

\* Every request that takes a place of MaxPendingChannelRequests gives it back
\* exactly once, whoever ends it.
THEOREM RequestsAccounted == Spec => []RequestAccounting
<1>1. IInv => RequestAccounting
  BY DEF IInv
<1>2. QED
  BY <1>1, TableInductive, PTL

\* peerChannelIDs is one-to-one into the channels of the table, whatever ids the
\* peer uses or guesses, but for the entry a misled receiver makes as it ends the
\* session.
THEOREM PeerIDsConsistent == Spec => []PeerIDsAgree
<1>1. IInv => PeerIDsAgree
  BY DEF IInv
<1>2. QED
  BY <1>1, TableInductive, PTL

\* handleChannelOpen and handleChannelOpenResult find and activate their
\* channel, whoever else works on the table and for any limits, as long as the
\* peer names only ids it was told and no close timer expires before activation.
THEOREM OpensActivate == Spec => []NoInternalError
<1>1. IInv => NoInternalError
  BY DEF IInv
<1>2. QED
  BY <1>1, TableInductive, PTL
=============================================================================
