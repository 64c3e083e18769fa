------------------------- MODULE FlowControl_proofs -------------------------
(* Flow control conserves credit, for every number of senders, every frame *)
(* size and every configuration that Config.Validate accepts, and so no    *)
(* endpoint finds a protocol error; with SizingAssumption it never wedges. *)
EXTENDS FlowControl, ByteSum_proofs

\* A frame has at least one byte and at most a packet.
LEMMA FrameSizesNat ==
  /\ FrameSizes \subseteq Nat \ {0}
  /\ MaxPacketSize \in Nat
  /\ \A n \in FrameSizes : n <= MaxPacketSize
BY ConfigAssumption

\* The queues hold naturals, so the lemmas about totals apply to them.
LEMMA QueuesOfNat ==
  ASSUME TypeOK
  PROVE  /\ wire \in Seq(Nat) /\ frames \in Seq(Nat) /\ adjustWire \in Seq(Nat)
         /\ Total(wire) \in Nat /\ Total(frames) \in Nat /\ Total(adjustWire) \in Nat
<1>1. FrameSizes \subseteq Nat /\ 1..MaxUint32 \subseteq Nat
  BY ConfigAssumption
<1>2. wire \in Seq(Nat) /\ frames \in Seq(Nat) /\ adjustWire \in Seq(Nat)
  BY <1>1, SeqMonotonic DEF TypeOK
<1>3. QED
  BY <1>2, TotalSeqNat

\* The credit held by Send calls is a function of naturals.
LEMMA HeldOfNat ==
  ASSUME TypeOK
  PROVE  /\ Held \in [Senders -> Nat]
         /\ Total(Held) \in Nat
         /\ \A p \in Senders : Held[p] <= Total(Held)
<1>1. Held \in [Senders -> Nat]
  BY ConfigAssumption DEF TypeOK, Held
<1>2. IsFiniteSet(Senders)
  BY ConfigAssumption
<1>3. QED
  BY <1>1, <1>2, ByteSetFinite, TotalBound

\* A step that changes what only the call p holds moves the total by as much.
LEMMA HeldUpdate ==
  ASSUME TypeOK, TypeOK', NEW p \in Senders,
         \A q \in Senders \ {p} : Held'[q] = Held[q]
  PROVE  Total(Held)' = Total(Held) - Held[p] + Held'[p]
<1>1. Held \in [Senders -> Nat]
  BY HeldOfNat
<1>2. Held' \in [Senders -> Nat]
  BY ConfigAssumption DEF TypeOK, Held
<1>3. IsFiniteSet(Senders)
  BY ConfigAssumption
<1>4. Total(Held') = Total(Held) - Held[p] + Held'[p]
  <2> HIDE DEF Held
  <2> QED BY <1>1, <1>2, <1>3, TotalUpdate
<1>5. Total(Held)' = Total(Held')
  BY DEF Total, ByteSet, BytesAt
<1>6. QED
  BY <1>4, <1>5

\* A queued write belongs to a Send call that waits for it.
LEMMA QueuedWrites ==
  ASSUME TypeOK, QueueAgrees
  PROVE  \A i \in DOMAIN outbound : outbound[i].state = "queued" =>
            /\ outbound[i].sender \in Senders /\ outbound[i].size \in FrameSizes
            /\ pc[outbound[i].sender] = "queued"
<1>1. \A i \in DOMAIN outbound : outbound[i] \in Write
  BY DEF TypeOK
<1>2. QED
  BY <1>1 DEF QueueAgrees, Write

\* Initially the whole window is with the sender.
LEMMA InitIInv == Init => IInv
<1> SUFFICES ASSUME Init PROVE IInv
  OBVIOUS
<1>1. TypeOK
  BY ConfigAssumption DEF Init, TypeOK, PCs, Failures
<1>2. Total(Held) = 0
  <2>1. \A p \in Senders : Held[p] = 0
    BY DEF Init, Held
  <2>2. QED
    BY <1>1, <2>1, HeldOfNat, TotalZero
<1>3. Total(wire) = 0 /\ Total(frames) = 0 /\ Total(adjustWire) = 0
  BY TotalEmpty DEF Init
<1>4. WindowConservation
  BY <1>2, <1>3, ConfigAssumption DEF Init, WindowConservation
<1>5. SizesOK /\ QueueAgrees /\ PendingBelowThreshold
  BY ConfigAssumption DEF Init, SizesOK, QueueAgrees, PendingBelowThreshold
<1>6. QED
  BY <1>1, <1>4, <1>5 DEF IInv

\* Taking credit or waiting for it (the locked part of Send).
LEMMA TakeWindowStep ==
  ASSUME IInv, NEW p \in Senders, NEW n \in FrameSizes,
         Up, pc[p] \in {"idle", "retry"}, TakeWindow(p, n),
         size' = [size EXCEPT ![p] = n], started' \in 0..MaxSends,
         UNCHANGED <<outbound, wire, farVars>>
  PROVE  IInv'
<1> USE DEF farVars, receiverVars
<1>n. n \in Nat /\ n <= MaxPacketSize /\ MaxPacketSize \in Nat
  BY ConfigAssumption
<1>t. pc \in [Senders -> PCs] /\ size \in [Senders -> 0..MaxPacketSize] /\ remoteWindow \in 0..MaxUint32
  BY DEF IInv, TypeOK
<1>p. PICK l \in {"reserved", "waiting"} : pc' = [pc EXCEPT ![p] = l]
  BY DEF TakeWindow
<1>q. /\ pc'[p] = l /\ size'[p] = n
      /\ \A q \in Senders \ {p} : pc'[q] = pc[q] /\ size'[q] = size[q]
  BY <1>t, <1>p
<1>r. remoteWindow' \in 0..MaxUint32
  BY <1>n, <1>t, ConfigAssumption DEF TakeWindow
<1>s. pc' \in [Senders -> PCs] /\ size' \in [Senders -> 0..MaxPacketSize]
  BY <1>n, <1>t, <1>p DEF PCs
<1>1. TypeOK'
  BY <1>r, <1>s DEF IInv, TypeOK
<1>2. SizesOK'
  BY <1>q DEF IInv, SizesOK
<1>3. QueueAgrees'
  <2>1. \A i \in DOMAIN outbound : outbound[i].state = "queued" =>
            outbound[i].sender \in Senders \ {p}
    BY QueuedWrites DEF IInv
  <2>2. QED
    BY <1>q, <2>1 DEF IInv, QueueAgrees
<1>4. WindowConservation'
  <2>1. \A q \in Senders \ {p} : Held'[q] = Held[q]
    BY <1>q DEF Held
  <2>2. Total(Held)' = Total(Held) - Held[p] + Held'[p]
    BY <1>1, <2>1, HeldUpdate DEF IInv
  <2>3. Held[p] = 0
    BY DEF Held
  <2>4. remoteWindow' + Held'[p] = remoteWindow
    BY <1>n, <1>t, <1>q, ConfigAssumption DEF TakeWindow, Held
  <2>5. Held'[p] \in Nat
    BY <1>n, <1>q DEF Held
  <2>6. Total(Held) \in Nat /\ remoteWindow \in Nat /\ remoteWindow' \in Nat
    BY <1>r, HeldOfNat, ConfigAssumption DEF IInv, TypeOK
  <2>7. Total(wire) \in Nat /\ Total(frames) \in Nat /\ Total(adjustWire) \in Nat
        /\ pendingWindowBytes \in Nat /\ adjusting \in Nat /\ InitialWindow \in Nat
    BY QueuesOfNat, ConfigAssumption DEF IInv, TypeOK
  <2>8. QED
    BY <2>2, <2>3, <2>4, <2>5, <2>6, <2>7 DEF IInv, WindowConservation, Up
<1>5. QED
  BY <1>1, <1>2, <1>3, <1>4 DEF IInv, PendingBelowThreshold

\* A new call of Send takes credit or waits.
LEMMA SendStep ==
  ASSUME IInv, NEW p \in Senders, NEW n \in FrameSizes, Send(p, n)
  PROVE  IInv'
<1>1. started' \in 0..MaxSends
  BY ConfigAssumption DEF IInv, TypeOK, Send
<1>2. QED
  BY <1>1, TakeWindowStep DEF Send

\* A call of Send that was woken looks at the window again.
LEMMA RetryStep ==
  ASSUME IInv, NEW p \in Senders, Retry(p)
  PROVE  IInv'
<1>1. size[p] \in FrameSizes /\ size' = [size EXCEPT ![p] = size[p]]
  BY DEF IInv, TypeOK, SizesOK, Retry
<1>2. started' \in 0..MaxSends
  BY DEF IInv, TypeOK, Retry
<1>3. QED
  BY <1>1, <1>2, TakeWindowStep DEF Retry

\* A call that moves between two places without credit, or between two places
\* with it, and leaves the windows and the queue alone.
LEMMA QuietCallStep ==
  ASSUME IInv, NEW p \in Senders, NEW l \in PCs,
         \/ pc[p] \in {"waiting", "retry"} /\ l = "idle"
         \/ pc[p] = "reserved" /\ l = "canceled",
         pc' = [pc EXCEPT ![p] = l],
         UNCHANGED <<remoteWindow, size, outbound, started, wire, farVars>>
  PROVE  IInv'
<1> USE DEF farVars, receiverVars
<1>1. TypeOK'
  BY DEF IInv, TypeOK
<1>2. SizesOK'
  BY DEF IInv, TypeOK, SizesOK
<1>3. QueueAgrees'
  <2>1. \A i \in DOMAIN outbound : outbound[i].state = "queued" =>
            outbound[i].sender \in Senders \ {p}
    BY QueuedWrites DEF IInv
  <2>2. \A q \in Senders \ {p} : pc'[q] = pc[q]
    BY DEF IInv, TypeOK
  <2>3. QED
    BY <2>1, <2>2 DEF IInv, QueueAgrees
<1>4. Held' = Held
  BY DEF IInv, TypeOK, Held
<1>5. WindowConservation'
  BY <1>4 DEF IInv, WindowConservation
<1>6. QED
  BY <1>1, <1>2, <1>3, <1>5 DEF IInv, PendingBelowThreshold

\* A call whose context ends while it waits holds nothing.
LEMMA AbandonWaitStep ==
  ASSUME IInv, NEW p \in Senders, AbandonWait(p)
  PROVE  IInv'
BY QuietCallStep DEF AbandonWait, PCs

\* A refused write leaves its credit with the call.
LEMMA EnqueueRefusedStep ==
  ASSUME IInv, NEW p \in Senders, EnqueueRefused(p)
  PROVE  IInv'
BY QuietCallStep DEF EnqueueRefused, PCs

\* A queued write belongs to the call that queued it.
LEMMA EnqueueStep ==
  ASSUME IInv, NEW p \in Senders, Enqueue(p)
  PROVE  IInv'
<1> USE DEF farVars, receiverVars
<1>w. PICK w : w = [sender |-> p, size |-> size[p], state |-> "queued"]
  OBVIOUS
<1>1. w \in Write
  BY <1>w DEF IInv, SizesOK, Enqueue, Write, WriteStates
<1>2. /\ outbound' \in Seq(Write) /\ Len(outbound') = Len(outbound) + 1
      /\ DOMAIN outbound' = 1..Len(outbound')
      /\ DOMAIN outbound = 1..Len(outbound)
      /\ \A i \in 1..Len(outbound) : outbound'[i] = outbound[i]
      /\ outbound'[Len(outbound) + 1] = w
  <2> SUFFICES outbound' = Append(outbound, w) /\ outbound \in Seq(Write)
    BY <1>1
  <2>1. QED
    BY <1>w DEF IInv, TypeOK, Enqueue
<1>3. TypeOK'
  BY <1>2 DEF IInv, TypeOK, Enqueue, PCs
<1>4. SizesOK'
  BY DEF IInv, TypeOK, SizesOK, Enqueue
<1>5. QueueAgrees'
  <2>1. \A i \in 1..Len(outbound) : outbound[i].state = "queued" =>
            outbound[i].sender \in Senders \ {p}
    BY <1>2, QueuedWrites DEF IInv, Enqueue
  <2>2. \A q \in Senders : pc'[q] = IF q = p THEN "queued" ELSE pc[q]
    BY DEF IInv, TypeOK, Enqueue
  <2>3. w.sender = p /\ w.size = size[p] /\ w.state = "queued"
    BY <1>w
  <2>4. size' = size
    BY DEF Enqueue
  <2>5. \A i \in DOMAIN outbound' :
            \/ i \in 1..Len(outbound) /\ outbound'[i] = outbound[i]
            \/ i = Len(outbound) + 1 /\ outbound'[i] = w
    <3>1. Len(outbound) \in Nat
      BY DEF IInv, TypeOK
    <3>2. DOMAIN outbound' = 1..(Len(outbound) + 1)
      BY <1>2
    <3>3. \A k \in Nat : \A i \in 1..(k + 1) : i \in 1..k \/ i = k + 1
      OBVIOUS
    <3>4. ASSUME NEW i \in DOMAIN outbound'
          PROVE  i \in 1..Len(outbound) \/ i = Len(outbound) + 1
      BY <3>1, <3>2, <3>3, <3>4
    <3>5. SUFFICES ASSUME NEW i \in DOMAIN outbound'
                   PROVE  \/ i \in 1..Len(outbound) /\ outbound'[i] = outbound[i]
                          \/ i = Len(outbound) + 1 /\ outbound'[i] = w
      OBVIOUS
    <3>6. CASE i \in 1..Len(outbound)
      BY <1>2, <3>6
    <3>7. CASE i = Len(outbound) + 1
      BY <1>2, <3>7
    <3>8. QED
      BY <3>4, <3>6, <3>7
  <2>6. \A i \in DOMAIN outbound' : outbound'[i].state = "queued" =>
          /\ pc'[outbound'[i].sender] = "queued"
          /\ size'[outbound'[i].sender] = outbound'[i].size
    BY <1>2, <2>1, <2>2, <2>3, <2>4, <2>5 DEF IInv, QueueAgrees
  <2>7. \A i, j \in DOMAIN outbound' :
          /\ outbound'[i].state = "queued" /\ outbound'[j].state = "queued"
          /\ outbound'[i].sender = outbound'[j].sender
          => i = j
    BY <1>2, <2>1, <2>3, <2>5 DEF IInv, QueueAgrees
  <2>8. QED
    BY <2>6, <2>7 DEF QueueAgrees
<1>6. Held' = Held
  BY DEF IInv, TypeOK, Held, Enqueue
<1>7. WindowConservation'
  BY <1>6 DEF IInv, WindowConservation, Enqueue
<1>8. QED
  BY <1>3, <1>4, <1>5, <1>7 DEF IInv, PendingBelowThreshold, Enqueue

\* A canceled write leaves its credit with the call that canceled it.
LEMMA CancelStep ==
  ASSUME IInv, NEW p \in Senders, Cancel(p)
  PROVE  IInv'
<1> USE DEF farVars, receiverVars
<1>1. PICK i \in DOMAIN outbound : /\ outbound[i].sender = p
                                  /\ outbound[i].state = "queued"
                                  /\ outbound' = [outbound EXCEPT ![i].state = "canceled"]
  BY DEF Cancel
<1>2. /\ outbound \in Seq(Write) /\ i \in 1..Len(outbound)
      /\ DOMAIN outbound = 1..Len(outbound) /\ outbound[i] \in Write
  BY <1>1 DEF IInv, TypeOK
<1> DEFINE w == [outbound[i] EXCEPT !.state = "canceled"]
<1>3. w \in Write /\ w.state = "canceled" /\ outbound' = [outbound EXCEPT ![i] = w]
  BY <1>1, <1>2 DEF Write, WriteStates
<1> HIDE DEF w
<1>4. /\ outbound' \in Seq(Write) /\ DOMAIN outbound' = DOMAIN outbound
      /\ \A j \in DOMAIN outbound : outbound'[j] = IF j = i THEN w ELSE outbound[j]
  BY <1>2, <1>3, ExceptSeq
<1>5. TypeOK'
  BY <1>4 DEF IInv, TypeOK, Cancel, PCs
<1>6. SizesOK'
  BY DEF IInv, TypeOK, SizesOK, Cancel
<1>7. QueueAgrees'
  <2>1. \A j \in DOMAIN outbound : j # i /\ outbound[j].state = "queued" =>
            outbound[j].sender \in Senders \ {p}
    BY <1>1, <1>2, QueuedWrites DEF IInv, QueueAgrees
  <2>2. \A q \in Senders \ {p} : pc'[q] = pc[q]
    BY DEF IInv, TypeOK, Cancel
  <2>3. size' = size
    BY DEF Cancel
  <2>4. QED
    BY <1>3, <1>4, <2>1, <2>2, <2>3 DEF IInv, QueueAgrees
<1>8. Held' = Held
  BY DEF IInv, TypeOK, Held, Cancel
<1>9. WindowConservation'
  BY <1>8 DEF IInv, WindowConservation, Cancel
<1>10. QED
  BY <1>5, <1>6, <1>7, <1>9 DEF IInv, PendingBelowThreshold, Cancel

\* A call that a dead session ends takes its write back with it.
LEMMA SendFailsStep ==
  ASSUME IInv, NEW p \in Senders, SendFails(p)
  PROVE  IInv'
<1> USE DEF farVars, receiverVars
<1>1. /\ outbound \in Seq(Write) /\ DOMAIN outbound = 1..Len(outbound)
      /\ Len(outbound) \in Nat /\ \A i \in 1..Len(outbound) : outbound[i] \in Write
  BY DEF IInv, TypeOK
<1>2. \A w \in Write : /\ [w EXCEPT !.state = "canceled"] \in Write
                       /\ [w EXCEPT !.state = "canceled"].state = "canceled"
  BY DEF Write, WriteStates
<1>3. outbound' = [i \in 1..Len(outbound) |->
                     IF outbound[i].sender = p
                     THEN [outbound[i] EXCEPT !.state = "canceled"] ELSE outbound[i]]
  BY <1>1 DEF SendFails
<1>o. PICK o : o = outbound'
  OBVIOUS
<1>4. /\ o = [i \in 1..Len(outbound) |-> o[i]] /\ DOMAIN o = DOMAIN outbound
      /\ \A i \in DOMAIN outbound :
            /\ o[i] \in Write
            /\ o[i].state = "queued" => o[i] = outbound[i] /\ outbound[i].sender # p
  BY <1>1, <1>2, <1>3, <1>o
<1>5. o \in Seq(Write) /\ outbound' \in Seq(Write)
  BY <1>1, <1>4, <1>o, IsASeq
<1>6. TypeOK'
  BY <1>5 DEF IInv, TypeOK, SendFails, PCs
<1>7. SizesOK'
  BY DEF IInv, TypeOK, SizesOK, SendFails
<1>8. QueueAgrees'
  <2>1. \A q \in Senders \ {p} : pc'[q] = pc[q]
    BY DEF IInv, TypeOK, SendFails
  <2>2. size' = size
    BY DEF SendFails
  <2>3. \A i \in DOMAIN outbound : outbound[i].sender \in Senders
    BY <1>1 DEF Write
  <2>4. \A i \in DOMAIN o : o[i].state = "queued" =>
          /\ pc'[o[i].sender] = "queued" /\ size'[o[i].sender] = o[i].size
    BY <1>4, <2>1, <2>2, <2>3 DEF IInv, QueueAgrees
  <2>5. \A i, j \in DOMAIN o :
          /\ o[i].state = "queued" /\ o[j].state = "queued" /\ o[i].sender = o[j].sender
          => i = j
    BY <1>4 DEF IInv, QueueAgrees
  <2>6. QED
    BY <1>o, <2>4, <2>5 DEF QueueAgrees
<1>9. WindowConservation'
  BY DEF WindowConservation, SendFails, Up
<1>10. QED
  BY <1>6, <1>7, <1>8, <1>9 DEF IInv, PendingBelowThreshold, SendFails

\* Giving credit back moves it from the call to the window; waiters wake up.
LEMMA RefundStep ==
  ASSUME IInv, NEW p \in Senders, Refund(p)
  PROVE  IInv'
<1> USE DEF farVars, receiverVars
<1>t. /\ pc \in [Senders -> PCs] /\ size \in [Senders -> 0..MaxPacketSize]
      /\ remoteWindow \in 0..MaxUint32 /\ MaxUint32 \in Nat /\ pc[p] = "canceled"
      /\ size[p] \in Nat /\ size' = size /\ outbound' = outbound
  BY ConfigAssumption DEF IInv, TypeOK, Refund
<1>h. Held[p] = size[p] /\ Held[p] <= Total(Held) /\ Total(Held) \in Nat
  BY <1>t, HeldOfNat DEF IInv, Held
<1>c. /\ Total(wire) \in Nat /\ Total(frames) \in Nat /\ Total(adjustWire) \in Nat
      /\ pendingWindowBytes \in Nat /\ adjusting \in Nat /\ InitialWindow \in Nat
      /\ InitialWindow < MaxUint32
  BY QueuesOfNat, ConfigAssumption DEF IInv, TypeOK
<1>f. failure = "none"
  BY DEF Refund, Up
<1>r. MaxUint32 - remoteWindow >= size[p]
  BY <1>t, <1>h, <1>c, <1>f DEF IInv, WindowConservation
<1>w. remoteWindow' = remoteWindow + size[p] /\ pc' = Wake([pc EXCEPT ![p] = "idle"])
  BY <1>t, <1>r DEF Refund
<1>q. /\ pc' \in [Senders -> PCs] /\ pc'[p] = "idle"
      /\ \A q \in Senders \ {p} :
            \/ pc'[q] = pc[q]
            \/ pc[q] = "waiting" /\ pc'[q] = "retry"
  BY <1>t, <1>w DEF Wake, PCs
<1>v. remoteWindow' \in 0..MaxUint32
  BY <1>t, <1>r, <1>w
<1>1. TypeOK'
  BY <1>q, <1>v DEF IInv, TypeOK, Refund
<1>2. SizesOK'
  BY <1>t, <1>q DEF IInv, SizesOK
<1>3. QueueAgrees'
  <2>1. \A i \in DOMAIN outbound : outbound[i].state = "queued" =>
            outbound[i].sender \in Senders \ {p} /\ pc[outbound[i].sender] = "queued"
    BY <1>t, QueuedWrites DEF IInv
  <2>2. QED
    BY <1>t, <1>q, <2>1 DEF IInv, QueueAgrees
<1>4. WindowConservation'
  <2>1. \A q \in Senders \ {p} : Held'[q] = Held[q]
    BY <1>t, <1>q DEF Held
  <2>2. Total(Held)' = Total(Held) - Held[p] + Held'[p]
    BY <1>1, <2>1, HeldUpdate DEF IInv
  <2>3. Held'[p] = 0
    BY <1>q DEF Held
  <2>4. QED
    BY <1>t, <1>h, <1>c, <1>w, <2>2, <2>3 DEF IInv, WindowConservation, Refund
<1>5. QED
  BY <1>1, <1>2, <1>3, <1>4 DEF IInv, PendingBelowThreshold, Refund

\* What the tail of the outbound queue holds.
LEMMA TailOfQueue ==
  ASSUME IInv, outbound # <<>>, outbound' = Tail(outbound)
  PROVE  /\ outbound' \in Seq(Write) /\ Head(outbound) \in Write
         /\ Head(outbound) = outbound[1] /\ 1 \in DOMAIN outbound
         /\ \A i \in DOMAIN outbound' :
               i \in Nat /\ i + 1 \in DOMAIN outbound /\ i + 1 # 1 /\ outbound'[i] = outbound[i + 1]
<1>1. outbound \in Seq(Write)
  BY DEF IInv, TypeOK
<1>2. QED
  BY <1>1

\* Writing a frame moves its bytes from the call that waits for it to the wire.
LEMMA WriterStepStep ==
  ASSUME IInv, WriterStep
  PROVE  IInv'
<1> USE DEF farVars, receiverVars
<1> DEFINE w == Head(outbound)
<1>t. /\ outbound' \in Seq(Write) /\ w \in Write
      /\ w = outbound[1] /\ 1 \in DOMAIN outbound
      /\ \A i \in DOMAIN outbound' :
            i \in Nat /\ i + 1 \in DOMAIN outbound /\ i + 1 # 1 /\ outbound'[i] = outbound[i + 1]
  BY TailOfQueue DEF WriterStep
<1>u. /\ pc \in [Senders -> PCs] /\ wire \in Seq(FrameSizes) /\ size' = size
      /\ w.sender \in Senders /\ w.size \in FrameSizes
      /\ \A i, j \in DOMAIN outbound' : i + 1 = j + 1 => i = j
  BY <1>t DEF IInv, TypeOK, WriterStep, Write
<1>1. CASE w.state = "canceled"
  <2>1. pc' = pc /\ wire' = wire
    BY <1>1 DEF WriterStep
  <2>2. TypeOK'
    BY <1>t, <2>1 DEF IInv, TypeOK, WriterStep
  <2>3. SizesOK'
    BY <1>u, <2>1 DEF IInv, SizesOK
  <2>4. QueueAgrees'
    BY <1>t, <1>u, <2>1 DEF IInv, QueueAgrees
  <2>5. Held' = Held
    BY <1>u, <2>1 DEF Held
  <2>6. WindowConservation'
    BY <2>1, <2>5 DEF IInv, WindowConservation, WriterStep
  <2>7. QED
    BY <2>2, <2>3, <2>4, <2>6 DEF IInv, PendingBelowThreshold, WriterStep
<1>2. CASE w.state = "queued"
  <2>1. pc' = [pc EXCEPT ![w.sender] = "idle"] /\ wire' = Append(wire, w.size)
    BY <1>2 DEF WriterStep
  <2> HIDE DEF w
  <2>2. TypeOK'
    BY <1>t, <1>u, <2>1 DEF IInv, TypeOK, WriterStep, PCs
  <2>3. pc'[w.sender] = "idle" /\ \A q \in Senders \ {w.sender} : pc'[q] = pc[q]
    BY <1>u, <2>1
  <2>4. SizesOK'
    BY <1>u, <2>3 DEF IInv, SizesOK
  <2>5. pc[w.sender] = "queued" /\ size[w.sender] = w.size
    BY <1>2, <1>t DEF IInv, QueueAgrees
  <2>6. \A i \in DOMAIN outbound' : outbound'[i].state = "queued" =>
            outbound'[i].sender \in Senders \ {w.sender}
    <3>1. \A i \in DOMAIN outbound : i # 1 /\ outbound[i].state = "queued" =>
              outbound[i].sender \in Senders \ {w.sender}
      BY <1>2, <1>t, QueuedWrites DEF IInv, QueueAgrees
    <3>2. QED
      BY <1>t, <3>1
  <2>7. QueueAgrees'
    BY <1>t, <1>u, <2>3, <2>6 DEF IInv, QueueAgrees
  <2>8. WindowConservation'
    <3>1. \A q \in Senders \ {w.sender} : Held'[q] = Held[q]
      BY <1>u, <2>3 DEF Held
    <3>2. Total(Held)' = Total(Held) - Held[w.sender] + Held'[w.sender]
      BY <1>u, <2>2, <3>1, HeldUpdate DEF IInv
    <3>3. Held'[w.sender] = 0 /\ Held[w.sender] = w.size
      BY <1>u, <2>3, <2>5 DEF Held
    <3>4. w.size \in Nat
      BY <1>u, FrameSizesNat
    <3>5. Total(wire)' = Total(wire) + w.size
      BY <2>1, <3>4, QueuesOfNat, TotalAppend DEF IInv
    <3>6. /\ Total(Held) \in Nat /\ Total(wire) \in Nat /\ Total(frames) \in Nat
          /\ Total(adjustWire) \in Nat /\ remoteWindow \in Nat
          /\ pendingWindowBytes \in Nat /\ adjusting \in Nat /\ InitialWindow \in Nat
      BY HeldOfNat, QueuesOfNat, ConfigAssumption DEF IInv, TypeOK
    <3>7. Total(Held)' + Total(wire)' = Total(Held) + Total(wire)
      BY <3>2, <3>3, <3>4, <3>5, <3>6
    <3>8. /\ UNCHANGED <<remoteWindow, frames, localWindow, pendingWindowBytes, adjusting,
                        adjustWire, failure>>
          /\ WindowConservation
      BY DEF IInv, WriterStep, farVars, receiverVars
    <3>9. Total(Held)' \in Int /\ Total(wire)' \in Int
      BY <3>2, <3>3, <3>4, <3>5, <3>6
    <3>10. QED
      BY <3>6, <3>7, <3>8, <3>9 DEF WindowConservation
  <2>9. QED
    BY <2>2, <2>4, <2>7, <2>8 DEF IInv, PendingBelowThreshold, WriterStep
<1>3. QED
  BY <1>1, <1>2 DEF WriterStep

\* The variables of a sum are naturals, and the window fits in 32 bits.
LEMMA SumOfNats ==
  ASSUME IInv
  PROVE  /\ Total(Held) \in Nat /\ Total(wire) \in Nat /\ Total(frames) \in Nat
         /\ Total(adjustWire) \in Nat /\ remoteWindow \in Nat /\ localWindow \in Nat
         /\ pendingWindowBytes \in Nat /\ adjusting \in Nat /\ InitialWindow \in Nat
         /\ MaxUint32 \in Nat /\ InitialWindow < MaxUint32
BY HeldOfNat, QueuesOfNat, ConfigAssumption DEF IInv, TypeOK

\* The two sums, where no session has failed.
LEMMA Sums ==
  ASSUME IInv, failure = "none"
  PROVE  /\ remoteWindow + Total(Held) + Total(wire) + Total(frames)
               + pendingWindowBytes + adjusting + Total(adjustWire) = InitialWindow
         /\ localWindow + Total(frames) = InitialWindow
BY DEF IInv, WindowConservation

\* An adjustment that arrives moves its bytes to the window and wakes waiters.
LEMMA HandleWindowAdjustStep ==
  ASSUME IInv, HandleWindowAdjust
  PROVE  IInv'
<1> USE DEF receiverVars
<1>n. PICK n : n = Head(adjustWire)
  OBVIOUS
<1>t. /\ adjustWire \in Seq(1..MaxUint32) /\ adjustWire # <<>>
      /\ adjustWire' = Tail(adjustWire) /\ failure = "none"
      /\ pc \in [Senders -> PCs] /\ size' = size /\ outbound' = outbound
      /\ remoteWindow \in 0..MaxUint32
  BY DEF IInv, TypeOK, HandleWindowAdjust, Up
<1>u. /\ adjustWire' \in Seq(1..MaxUint32)
      /\ n \in 1..MaxUint32
  BY <1>n, <1>t, HeadTailProperties
<1>s. /\ Total(adjustWire)' = Total(adjustWire) - n /\ n <= Total(adjustWire) /\ n \in Nat
  <2>1. Total(Tail(adjustWire)) = Total(adjustWire) - n /\ n <= Total(adjustWire)
    BY <1>n, <1>t, QueuesOfNat, TotalTail DEF IInv
  <2>2. QED
    BY <1>t, <1>u, <2>1, ConfigAssumption
<1>r. MaxUint32 - remoteWindow >= n
  <2>1. failure = "none"
    BY <1>t
  <2>2. n <= Total(adjustWire) /\ n \in Nat
    BY <1>s
  <2>3. QED
    BY <2>1, <2>2, SumOfNats, Sums
<1>w. remoteWindow' = remoteWindow + n /\ pc' = Wake(pc) /\ failure' = failure
  BY <1>n, <1>r, <1>t, <1>u, ConfigAssumption DEF HandleWindowAdjust
<1>q. /\ pc' \in [Senders -> PCs]
      /\ \A q \in Senders :
            \/ pc'[q] = pc[q]
            \/ pc[q] = "waiting" /\ pc'[q] = "retry"
  BY <1>t, <1>w DEF Wake, PCs
<1>v. remoteWindow' \in 0..MaxUint32
  BY <1>t, <1>r, <1>s, <1>w, ConfigAssumption
<1>1. TypeOK'
  BY <1>q, <1>v, <1>u, <1>w DEF IInv, TypeOK, HandleWindowAdjust
<1>2. SizesOK'
  BY <1>t, <1>q DEF IInv, SizesOK
<1>3. QueueAgrees'
  <2>1. \A i \in DOMAIN outbound : outbound[i].state = "queued" =>
            outbound[i].sender \in Senders /\ pc[outbound[i].sender] = "queued"
    BY QueuedWrites DEF IInv
  <2>2. QED
    BY <1>t, <1>q, <2>1 DEF IInv, QueueAgrees
<1>4. WindowConservation'
  <2>1. Held' = Held
    BY <1>t, <1>q DEF Held
  <2>2. QED
    <3>1. failure = "none" /\ Total(Held)' = Total(Held)
      BY <1>t, <2>1
    <3>2. /\ wire' = wire /\ frames' = frames /\ localWindow' = localWindow
          /\ pendingWindowBytes' = pendingWindowBytes /\ adjusting' = adjusting
      BY DEF HandleWindowAdjust
    <3>3. QED
      BY <1>s, <1>w, <3>1, <3>2, SumOfNats, Sums DEF WindowConservation
<1>5. QED
  BY <1>1, <1>2, <1>3, <1>4 DEF IInv, PendingBelowThreshold, HandleWindowAdjust

\* The steps of the receiver leave what the senders know alone.
LEMMA SenderUnchanged ==
  ASSUME IInv, UNCHANGED senderVars
  PROVE  SizesOK' /\ QueueAgrees' /\ Held' = Held
BY DEF IInv, senderVars, SizesOK, QueueAgrees, Held

\* The bytes of an arriving frame: it came from the wire, within the credit.
LEMMA ArrivingFrame ==
  ASSUME IInv, Up, wire # <<>>
  PROVE  /\ Head(wire) \in FrameSizes /\ Head(wire) \in Nat
         /\ Tail(wire) \in Seq(FrameSizes)
         /\ Total(Tail(wire)) = Total(wire) - Head(wire) /\ Head(wire) <= Total(wire)
         /\ Total(frames) + Head(wire) <= InitialWindow
         /\ Head(wire) <= localWindow
<1>1. Head(wire) \in FrameSizes /\ Tail(wire) \in Seq(FrameSizes)
  BY DEF IInv, TypeOK
<1>2. Head(wire) \in Nat
  BY <1>1, FrameSizesNat
<1>3. Total(Tail(wire)) = Total(wire) - Head(wire) /\ Head(wire) <= Total(wire)
  BY QueuesOfNat, TotalTail DEF IInv
<1> DEFINE n == Head(wire)
<1>4. n \in Nat /\ n <= Total(wire)
  BY <1>2, <1>3
<1> HIDE DEF n
<1>5. Total(frames) + n <= InitialWindow /\ n <= localWindow
  BY <1>4, SumOfNats, Sums DEF WindowConservation, Up
<1>6. QED
  BY <1>1, <1>2, <1>3, <1>5 DEF n

\* A frame that arrives is queued and charged to the receiver's window.
LEMMA HandleChannelDataStep ==
  ASSUME IInv, HandleChannelData
  PROVE  IInv'
<1>n. PICK n : n = Head(wire)
  OBVIOUS
<1>t. /\ n \in FrameSizes /\ n \in Nat /\ wire' \in Seq(FrameSizes)
      /\ Total(wire)' = Total(wire) - n /\ n <= Total(wire) /\ n <= localWindow
  BY <1>n, ArrivingFrame DEF HandleChannelData
<1>u. /\ failure' \in DataOutcomes(n)
      /\ \/ failure' # "none" /\ UNCHANGED <<frames, localWindow>>
         \/ failure' = "none" /\ frames' = Append(frames, n) /\ localWindow' = localWindow - n
  BY <1>n DEF HandleChannelData
<1>f. failure' \in Failures
  BY <1>u DEF DataOutcomes, Failures
<1>v. frames' \in Seq(FrameSizes) /\ localWindow' \in 0..MaxUint32
  <2>1. frames \in Seq(FrameSizes) /\ localWindow \in 0..MaxUint32
    BY DEF IInv, TypeOK
  <2>2. Append(frames, n) \in Seq(FrameSizes)
    BY <1>t, <2>1
  <2>3. localWindow - n \in 0..MaxUint32
    BY <1>t, <2>1, SumOfNats
  <2>4. QED
    BY <1>u, <2>1, <2>2, <2>3
<1>1. TypeOK'
  BY <1>t, <1>f, <1>v DEF IInv, TypeOK, HandleChannelData, senderVars
<1>2. SizesOK' /\ QueueAgrees' /\ Held' = Held
  BY SenderUnchanged DEF HandleChannelData
<1>3. WindowConservation'
  <2>1. SUFFICES ASSUME failure' = "none" PROVE WindowConservation'
    BY DEF WindowConservation
  <2>2. Total(frames)' = Total(frames) + n /\ localWindow' = localWindow - n
    BY <1>t, <1>u, <2>1, QueuesOfNat, TotalAppend DEF IInv
  <2>3. QED
    <3>1. failure = "none" /\ Total(Held)' = Total(Held)
      BY <1>2 DEF HandleChannelData, Up
    <3>2. /\ remoteWindow' = remoteWindow /\ adjustWire' = adjustWire
          /\ pendingWindowBytes' = pendingWindowBytes /\ adjusting' = adjusting
      BY DEF HandleChannelData, senderVars
    <3>3. Total(wire)' = Total(wire) - n /\ n \in Nat /\ Total(adjustWire)' = Total(adjustWire)
      BY <1>t, <3>2
    <3>4. QED
      BY <2>2, <3>1, <3>2, <3>3, SumOfNats, Sums DEF WindowConservation
<1>4. QED
  BY <1>1, <1>2, <1>3 DEF IInv, PendingBelowThreshold, HandleChannelData

\* Reading a frame moves its bytes to the credit that is to go back.
LEMMA RecvStep ==
  ASSUME IInv, Recv
  PROVE  IInv'
<1>n. PICK n, pending : n = Head(frames) /\ pending = pendingWindowBytes + n
  OBVIOUS
<1>1. /\ frames \in Seq(FrameSizes) /\ frames # <<>> /\ frames' = Tail(frames)
      /\ failure = "none" /\ adjusting = 0
  BY DEF IInv, TypeOK, Recv, Up
<1>2. frames' \in Seq(FrameSizes) /\ n \in Nat
  BY <1>n, <1>1, FrameSizesNat, HeadTailProperties
<1>3. Total(frames)' = Total(frames) - n /\ n <= Total(frames)
  BY <1>n, <1>1, QueuesOfNat, TotalTail DEF IInv
<1>4. /\ localWindow' = Uint32(localWindow + n)
      /\ CollectCredit(Uint32(pending))
  BY <1>n DEF Recv
<1>5. localWindow + n <= MaxUint32 /\ pending <= MaxUint32 /\ pending \in Nat
  <2>1. failure = "none" /\ n \in Nat /\ n <= Total(frames) /\ pending = pendingWindowBytes + n
    BY <1>n, <1>1, <1>2, <1>3
  <2>2. QED
    BY <2>1, SumOfNats, Sums
<1>6. Uint32(localWindow + n) = localWindow + n /\ Uint32(pending) = pending
  <2>1. \A a, m \in Nat : a <= m => a % (m + 1) = a
    OBVIOUS
  <2>2. localWindow + n \in Nat /\ MaxUint32 \in Nat
    BY <1>2, SumOfNats
  <2>3. QED
    BY <1>5, <2>1, <2>2 DEF Uint32
<1>7. /\ pendingWindowBytes' \in 0..MaxUint32 /\ adjusting' \in 0..MaxUint32
      /\ pendingWindowBytes' + adjusting' = pending
      /\ pendingWindowBytes' < WindowAdjustThreshold
  BY <1>4, <1>5, <1>6, SumOfNats, ConfigAssumption DEF CollectCredit
<1>8. TypeOK'
  <2>1. localWindow' \in 0..MaxUint32
    BY <1>2, <1>4, <1>5, <1>6, SumOfNats
  <2>2. QED
    BY <1>2, <1>7, <2>1 DEF IInv, TypeOK, Recv, senderVars
<1>9. SizesOK' /\ QueueAgrees' /\ Held' = Held
  BY SenderUnchanged DEF Recv
<1>10. WindowConservation'
  <2>1. /\ Total(Held)' = Total(Held) /\ Total(wire)' = Total(wire)
        /\ Total(adjustWire)' = Total(adjustWire) /\ remoteWindow' = remoteWindow
    BY <1>9 DEF Recv, senderVars
  <2>2. pendingWindowBytes' \in Nat /\ adjusting' \in Nat
    BY <1>7, SumOfNats
  <2>3. pendingWindowBytes' + adjusting' = pendingWindowBytes + adjusting + n
    BY <1>n, <1>1, <1>2, <1>7, <2>2, SumOfNats
  <2>4. QED
    <3>1. failure = "none" /\ n \in Nat /\ localWindow' = localWindow + n
      BY <1>1, <1>2, <1>4, <1>6
    <3>2. QED
      BY <1>3, <2>1, <2>2, <2>3, <3>1, SumOfNats, Sums DEF WindowConservation
<1>11. QED
  BY <1>7, <1>8, <1>9, <1>10 DEF IInv, PendingBelowThreshold

\* Sending an adjustment moves its bytes to the way back; a refused one ends
\* the session.
LEMMA SendWindowAdjustStep ==
  ASSUME IInv, SendWindowAdjust
  PROVE  IInv'
<1>1. /\ adjusting \in 1..MaxUint32 /\ adjusting' = 0
      /\ adjustWire \in Seq(1..MaxUint32)
      /\ \/ adjustWire' = Append(adjustWire, adjusting) /\ failure' = failure
         \/ adjustWire' = adjustWire /\ failure' = "adjust"
  <2>1. adjusting \in 1..MaxUint32 /\ adjustWire \in Seq(1..MaxUint32)
    BY SumOfNats DEF IInv, TypeOK, SendWindowAdjust
  <2>2. QED
    BY <2>1 DEF SendWindowAdjust
<1>2. adjustWire' \in Seq(1..MaxUint32)
  <2>1. Append(adjustWire, adjusting) \in Seq(1..MaxUint32)
    BY <1>1
  <2>2. QED
    BY <1>1, <2>1
<1>3. failure' = "none" => /\ failure = "none"
                           /\ Total(adjustWire)' = Total(adjustWire) + adjusting
  <2>1. Total(Append(adjustWire, adjusting)) = Total(adjustWire) + adjusting
    BY <1>1, QueuesOfNat, SumOfNats, TotalAppend DEF IInv
  <2>2. SUFFICES ASSUME failure' = "none"
                 PROVE  failure = "none" /\ Total(adjustWire)' = Total(adjustWire) + adjusting
    OBVIOUS
  <2>3. adjustWire' = Append(adjustWire, adjusting) /\ failure = "none"
    BY <1>1, <2>2
  <2>4. QED
    BY <2>1, <2>3
<1>4. TypeOK'
  <2>1. failure' \in Failures
    BY <1>1 DEF IInv, TypeOK, Failures
  <2>2. QED
    BY <1>1, <1>2, <2>1, SumOfNats DEF IInv, TypeOK, SendWindowAdjust, senderVars
<1>5. SizesOK' /\ QueueAgrees' /\ Held' = Held
  BY SenderUnchanged DEF SendWindowAdjust
<1>6. WindowConservation'
  BY <1>1, <1>3, <1>5, SumOfNats, Sums DEF WindowConservation, SendWindowAdjust, senderVars
<1>7. QED
  BY <1>4, <1>5, <1>6 DEF IInv, PendingBelowThreshold, SendWindowAdjust

\* Every step preserves the inductive invariant: one case per action of Next.
LEMMA NextIInv == IInv /\ [Next]_vars => IInv'
<1> SUFFICES ASSUME IInv, [Next]_vars PROVE IInv'
  OBVIOUS
<1>1. ASSUME NEW p \in Senders, NEW n \in FrameSizes, Send(p, n) PROVE IInv'
  BY <1>1, SendStep
<1>2. ASSUME NEW p \in Senders, Retry(p) PROVE IInv'
  BY <1>2, RetryStep
<1>3. ASSUME NEW p \in Senders, AbandonWait(p) PROVE IInv'
  BY <1>3, AbandonWaitStep
<1>4. ASSUME NEW p \in Senders, Enqueue(p) PROVE IInv'
  BY <1>4, EnqueueStep
<1>5. ASSUME NEW p \in Senders, EnqueueRefused(p) PROVE IInv'
  BY <1>5, EnqueueRefusedStep
<1>6. ASSUME NEW p \in Senders, Cancel(p) PROVE IInv'
  BY <1>6, CancelStep
<1>7. ASSUME NEW p \in Senders, Refund(p) PROVE IInv'
  BY <1>7, RefundStep
<1>8. CASE WriterStep
  BY <1>8, WriterStepStep
<1>9. CASE HandleWindowAdjust
  BY <1>9, HandleWindowAdjustStep
<1>10. CASE HandleChannelData
  BY <1>10, HandleChannelDataStep
<1>11. CASE Recv
  BY <1>11, RecvStep
<1>12. CASE SendWindowAdjust
  BY <1>12, SendWindowAdjustStep
<1>13. CASE UNCHANGED vars
  <2>1. UNCHANGED senderVars
    BY <1>13 DEF vars
  <2>2. SizesOK' /\ QueueAgrees' /\ Held' = Held
    BY <2>1, SenderUnchanged
  <2>3. TypeOK' /\ PendingBelowThreshold'
    BY <1>13 DEF IInv, TypeOK, PendingBelowThreshold, vars, senderVars, receiverVars
  <2>4. WindowConservation'
    BY <1>13, <2>2 DEF IInv, WindowConservation, vars, senderVars, receiverVars
  <2>5. QED
    BY <2>2, <2>3, <2>4 DEF IInv
<1>14. ASSUME NEW p \in Senders, SendFails(p) PROVE IInv'
  BY <1>14, SendFailsStep
<1>15. QED
  BY <1>1, <1>2, <1>3, <1>4, <1>5, <1>6, <1>7, <1>8, <1>9, <1>10, <1>11, <1>12, <1>13, <1>14
     DEF Next

\* The inductive invariant holds throughout.
THEOREM InductiveInvariant == Spec => []IInv
<1>1. Init => IInv
  BY InitIInv
<1>2. IInv /\ [Next]_vars => IInv'
  BY NextIInv
<1>3. QED
  BY <1>1, <1>2, PTL DEF Spec

(* Type correctness: the window counters of Channel.Send, Recv and the     *)
(* handlers of data and adjustments stay within uint32 and every queue     *)
(* holds legal frames, for every configuration Config.Validate accepts.    *)
THEOREM TypeCorrect == Spec => []TypeOK
<1>1. IInv => TypeOK
  BY DEF IInv
<1>2. QED
  BY <1>1, InductiveInvariant, PTL

(* Concurrent Sends, cancellations, refunds and batched adjustments never  *)
(* lose or create a byte of the window Channel.Send works with.            *)
THEOREM Conservation == Spec => []WindowConservation
<1>1. IInv => WindowConservation
  BY DEF IInv
<1>2. QED
  BY <1>1, InductiveInvariant, PTL

\* A queue holds no more frames than bytes, since no frame is empty.
LEMMA FramesWithinBytes ==
  ASSUME NEW s \in Seq(Nat \ {0})
  PROVE  Len(s) <= Total(s)
<1> DEFINE first == [i \in 1..Len(s) |-> <<i, 1>>]
<1>1. s \in Seq(Nat) /\ DOMAIN s = 1..Len(s) /\ \A i \in 1..Len(s) : s[i] \in Nat \ {0}
  <2>1. s \in Seq(Nat)
    BY SeqMonotonic
  <2>2. QED
    BY <2>1
<1>2. IsFiniteSet(ByteSet(s))
  BY <1>1, TotalSeqNat
<1>3. \A i \in 1..Len(s) : <<i, 1>> \in ByteSet(s)
  BY <1>1 DEF ByteSet, BytesAt
<1>4. first \in Injection(1..Len(s), ByteSet(s))
  BY <1>3 DEF Injection, IsInjective
<1>5. IsFiniteSet(1..Len(s)) /\ Cardinality(1..Len(s)) = Len(s)
  <2>1. \A k \in Nat : IsFiniteSet(1..k) /\ Cardinality(1..k) = k
    BY FS_Interval
  <2>2. Len(s) \in Nat
    OBVIOUS
  <2>3. QED
    BY <2>1, <2>2
<1>6. Cardinality(1..Len(s)) <= Cardinality(ByteSet(s))
  BY <1>2, <1>4, FS_Injection
<1>7. QED
  BY <1>5, <1>6 DEF Total

(* Two endpoints that run this code never accuse each other: for any queue *)
(* limits, the defaults included, handleChannelData finds every frame      *)
(* within the packet size and the window, and handleChannelWindowAdjust    *)
(* can add every adjustment.                                               *)
THEOREM NoAccusation == Spec => []NoProtocolError
<1>1. Init => NoProtocolError
  BY DEF Init, NoProtocolError
<1>2. IInv /\ NoProtocolError /\ [Next]_vars => NoProtocolError'
  <2> SUFFICES ASSUME IInv, NoProtocolError, [Next]_vars PROVE NoProtocolError'
    OBVIOUS
  <2>1. CASE HandleChannelData
    <3>n. PICK n : n = Head(wire)
      OBVIOUS
    <3>1. n \in Nat /\ n \in FrameSizes /\ n <= localWindow
      BY <2>1, <3>n, ArrivingFrame DEF HandleChannelData
    <3>2. ~ n > MaxPacketSize /\ ~ n > localWindow
      BY <3>1, SumOfNats, FrameSizesNat
    <3>3. DataOutcomes(n) \subseteq {"limit", "none", "shared"}
      BY <3>2 DEF DataOutcomes
    <3>4. QED
      BY <2>1, <3>n, <3>3 DEF HandleChannelData, NoProtocolError
  <2>2. CASE HandleWindowAdjust
    <3>n. PICK n : n = Head(adjustWire)
      OBVIOUS
    <3>1. n <= Total(adjustWire) /\ n \in Nat
      <4>1. adjustWire \in Seq(Nat) /\ adjustWire # <<>>
        BY <2>2, QueuesOfNat DEF IInv, HandleWindowAdjust
      <4>2. QED
        BY <3>n, <4>1, TotalTail, HeadTailProperties
    <3>2. failure = "none"
      BY <2>2 DEF HandleWindowAdjust, Up
    <3>3. ~ MaxUint32 - remoteWindow < n
      BY <3>1, <3>2, SumOfNats, Sums
    <3>4. QED
      BY <2>2, <3>n, <3>3 DEF HandleWindowAdjust, NoProtocolError
  <2>3. CASE SendWindowAdjust
    BY <2>3 DEF SendWindowAdjust, NoProtocolError
  <2>4. CASE UNCHANGED vars
    BY <2>4 DEF vars, NoProtocolError
  <2>5. QED
    BY <2>1, <2>2, <2>3, <2>4 DEF Next, Send, Retry, AbandonWait, Enqueue, EnqueueRefused, Cancel,
       Refund, SendFails, WriterStep, Recv, farVars, NoProtocolError
<1>3. QED
  BY <1>1, <1>2, InductiveInvariant, PTL DEF Spec

(* What the configuration would have to satisfy for the window alone to    *)
(* protect the queue of Channel.frames: as many frames and bytes as the    *)
(* window has bytes. Then handleChannelData never meets the limits of the  *)
(* channel with frames of its own; the defaults do not satisfy it.         *)
THEOREM LargeQueueHoldsWindow ==
  ASSUME InitialWindow <= MaxQueuedFramesPerChannel,
         InitialWindow <= MaxQueuedBytesPerChannel
  PROVE  Spec => []WindowFitsQueue
<1>1. Init => WindowFitsQueue
  BY DEF Init, WindowFitsQueue
<1>2. IInv /\ WindowFitsQueue /\ [Next]_vars => WindowFitsQueue'
  <2> SUFFICES ASSUME IInv, WindowFitsQueue, [Next]_vars PROVE WindowFitsQueue'
    OBVIOUS
  <2>1. CASE HandleChannelData
    <3>n. PICK n : n = Head(wire)
      OBVIOUS
    <3>1. /\ n \in Nat /\ n \in FrameSizes /\ n <= localWindow
          /\ Total(frames) + n <= InitialWindow
      BY <2>1, <3>n, ArrivingFrame DEF HandleChannelData
    <3>2. n >= 1
      BY <3>1, FrameSizesNat
    <3>3. Len(frames) <= Total(frames) /\ Len(frames) \in Nat
      <4>1. frames \in Seq(FrameSizes)
        BY DEF IInv, TypeOK
      <4>2. frames \in Seq(Nat \ {0})
        BY <4>1, FrameSizesNat, SeqMonotonic
      <4>3. QED
        BY <4>1, <4>2, FramesWithinBytes
    <3>4. ~ Len(frames) + 1 > MaxQueuedFramesPerChannel
      BY <3>1, <3>2, <3>3, SumOfNats, ConfigAssumption
    <3>5. ~ Total(frames) + n > MaxQueuedBytesPerChannel
      BY <3>1, SumOfNats, ConfigAssumption
    <3>6. "limit" \notin DataOutcomes(n)
      BY <3>4, <3>5 DEF DataOutcomes
    <3>7. QED
      BY <2>1, <3>n, <3>6 DEF HandleChannelData, WindowFitsQueue
  <2>2. CASE HandleWindowAdjust
    BY <2>2 DEF HandleWindowAdjust, WindowFitsQueue
  <2>3. CASE SendWindowAdjust
    BY <2>3 DEF SendWindowAdjust, WindowFitsQueue
  <2>4. CASE UNCHANGED vars
    BY <2>4 DEF vars, WindowFitsQueue
  <2>5. QED
    BY <2>1, <2>2, <2>3, <2>4 DEF Next, Send, Retry, AbandonWait, Enqueue, EnqueueRefused, Cancel,
       Refund, SendFails, WriterStep, Recv, farVars, WindowFitsQueue
<1>3. QED
  BY <1>1, <1>2, InductiveInvariant, PTL DEF Spec

(* Flow control cannot wedge: once everything sent is read and every       *)
(* adjustment due has arrived, a full frame fits in the window again.      *)
THEOREM WindowReopens == Spec => []NoWedge
<1>1. IInv => NoWedge
  <2> SUFFICES ASSUME IInv, failure = "none", Drained PROVE remoteWindow >= MaxPacketSize
    BY DEF NoWedge
  <2>1. Total(Held) = 0
    <3>1. \A p \in Senders : Held[p] = 0
      BY DEF Drained, Held
    <3>2. QED
      BY <3>1, HeldOfNat, TotalZero DEF IInv
  <2>2. Total(wire) = 0 /\ Total(frames) = 0 /\ Total(adjustWire) = 0 /\ adjusting = 0
    BY TotalEmpty DEF Drained
  <2>3. pendingWindowBytes < WindowAdjustThreshold
    BY DEF IInv, PendingBelowThreshold
  <2>4. /\ MaxPacketSize \in Nat /\ WindowAdjustThreshold \in Nat
        /\ MaxPacketSize + WindowAdjustThreshold - 1 <= InitialWindow
    BY ConfigAssumption, SizingAssumption
  <2>5. QED
    BY <2>1, <2>2, <2>3, <2>4, SumOfNats, Sums
<1>2. QED
  BY <1>1, InductiveInvariant, PTL
=============================================================================
