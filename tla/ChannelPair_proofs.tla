------------------------- MODULE ChannelPair_proofs -------------------------
(***************************************************************************)
(* One channel between two endpoints, for any windows, thresholds, uses    *)
(* and numbers of frames: types and credit, EOFIsTruthful, and             *)
(* ConfirmedCloseLosesNothing.                                             *)
(*                                                                         *)
(* The frames of one direction are an interval of numbers: those read,     *)
(* those queued for Recv, and, in order, those on the wire (ReadInv,       *)
(* DataInv).  What follows an EOF or a close on the wire was not promised  *)
(* (LateInv), and an endpoint that has sent one promises no more           *)
(* (SealInv); so what is promised has been delivered when it arrives       *)
(* (TruthInv).  With confirmed closes each EOF is where nothing is behind  *)
(* it that the peer would refuse (OrderlyInv).                             *)
(***************************************************************************)
EXTENDS ChannelPair, ByteSum_proofs, SequenceTheorems, TLAPS

-----------------------------------------------------------------------------
(* Envelopes in a queue.                                                   *)

Envelopes == [kind: Kinds, n: Nat]

Has(q, k) == \E i \in DOMAIN q : q[i].kind = k

\* No envelope of kind l is behind one of kind k.
NoneBehind(q, k, l) ==
    \A i, j \in DOMAIN q : i < j /\ q[i].kind = k => q[j].kind # l

\* The data of q are the frames lo + 1 .. hi, in order.
Carried(q, lo, hi) ==
    /\ \A i \in DOMAIN q : q[i].kind = "data" => lo < q[i].n /\ q[i].n <= hi
    /\ \A i, j \in DOMAIN q :
          i < j /\ q[i].kind = "data" /\ q[j].kind = "data" => q[i].n < q[j].n
    /\ \A n \in (lo + 1)..hi : \E i \in DOMAIN q : q[i].kind = "data" /\ q[i].n = n

\* What is behind an EOF or a close in q comes after frame n.
Fin == {"eof", "close"}
Late(q, n) ==
    \A i, j \in DOMAIN q : i < j /\ q[i].kind \in Fin /\ q[j].kind = "data" => n < q[j].n

\* The credit that the adjustments of q carry.
Grants(q) == [i \in DOMAIN q |-> IF q[i].kind = "adjust" THEN q[i].n ELSE 0]
Credits(q) == Total(Grants(q))

Bounded(q, n) == \A i \in DOMAIN q : q[i].n <= n

-----------------------------------------------------------------------------
(* The inductive invariant.                                                *)

Types ==
    /\ state \in [End -> States] /\ inTable \in [End -> BOOLEAN]
    /\ remoteWindow \in [End -> Nat] /\ pending \in [End -> 0..(Threshold - 1)]
    /\ adjusting \in [End -> 0..Threshold]
    /\ frames \in [End -> Seq(Nat)] /\ read \in [End -> Seq(Nat)]
    /\ sendPc \in [End -> {"idle", "reserved", "queued"}]
    /\ eofPc \in [End -> {"idle", "open", "remoteEOF"}]
    /\ closePc \in [End -> {"idle", "queue", "timer"}]
    /\ control \in [End -> Seq(Envelopes)] /\ outbound \in [End -> Seq(Envelopes)]
    /\ wire \in [End -> Seq(Envelopes)]
    /\ polled \in [End -> BOOLEAN] /\ session \in [End -> Causes]
    /\ env \in [use: Uses, refused: Nat]
    /\ sent \in [End -> Nat] /\ promised \in [End -> Nat]
    /\ gotEOF \in [End -> BOOLEAN] /\ closedHere \in [End -> BOOLEAN]

Over == {"closing", "closed", "failed"}

\* A call that is under way left its mark on the state.
CallInv(e) ==
    /\ eofPc[e] # "idle" => state[e] \notin canSendData
    /\ eofPc[e] = "remoteEOF" => state[e] # "localEOF"
    /\ closePc[e] # "idle" => closedHere[e]
    /\ closedHere[e] => state[e] \in Over
    /\ state[e] = "closing" => closedHere[e]

\* What the queues hold. The frame in the outbound queue is that of the Send
\* under way.
ControlOK(q) == \A i \in DOMAIN q : q[i].kind = "close"
OutboundOK(q, pc, n) ==
    /\ \A i \in DOMAIN q :
          /\ q[i].kind \in {"data", "adjust", "eof"}
          /\ q[i].kind = "data" => pc = "queued" /\ q[i].n = n + 1
    /\ NoneBehind(q, "data", "data")
QueueInv(e) ==
    /\ ControlOK(control[e]) /\ OutboundOK(outbound[e], sendPc[e], sent[e])
    /\ \A q \in {control[e], outbound[e], wire[e]} :
          Bounded(q, env.use.frames[e] + Threshold)

\* What was sent and what was promised.
SentInv(e) ==
    /\ sendPc[e] # "idle" => sent[e] < env.use.frames[e]
    /\ promised[e] <= sent[e] /\ sent[e] <= env.use.frames[e]

\* The frames that were read, then those queued for Recv.
Delivered(e) == Len(read[e]) + Len(frames[e])
Numbered(r, f, n) ==
    /\ \A i \in 1..Len(r) : r[i] = i
    /\ \A i \in 1..Len(f) : f[i] = Len(r) + i
    /\ Len(r) + Len(f) <= n
ReadInv(e) == Numbered(read[e], frames[e], sent[Peer(e)])

\* The frames on the wire to an endpoint that has not dropped any.
DataInv(e) ==
    Up(e) /\ ~closedHere[e] => Carried(wire[Peer(e)], Delivered(e), sent[Peer(e)])

\* No credit is made up: what the sender has, what its frames took that were
\* not read, and what the reader has still to give back.
Busy(pc) == IF pc = "idle" THEN 0 ELSE 1
Own(e) == remoteWindow[e] + Busy(sendPc[e])
Got(e) == Len(read[e])
Owed(e) == pending[e] + adjusting[e] + Credits(outbound[e]) + Credits(wire[e])
WindowInv(e) == Own(e) + (sent[e] - Got(Peer(e))) + Owed(Peer(e)) <= Window

\* An endpoint whose EOF or close is under way promises nothing more.
Sealed(e) ==
    \/ state[e] \in Over
    \/ state[e] \in {"localEOF", "bothEOF"} /\ eofPc[e] = "idle"
Ending(e) ==
    \/ Has(control[e], "close") \/ Has(outbound[e], "eof")
    \/ Has(wire[e], "eof") \/ Has(wire[e], "close")
SealInv(e) == Ending(e) => Sealed(e)

LateInv(e) == Late(wire[e], promised[e])

\* An end that Recv may report, or has reported, comes after what was promised.
TruthInv(e) ==
    ~closedHere[e] =>
       /\ state[e] \in {"remoteEOF", "bothEOF", "closed"} /\ session[e] # "budget" =>
             Sealed(Peer(e)) /\ promised[Peer(e)] <= Delivered(e)
       /\ gotEOF[e] /\ session[e] \notin {"peer closed", "budget"} =>
             Sealed(Peer(e)) /\ promised[Peer(e)] <= Len(read[e])

-----------------------------------------------------------------------------
(* The invariant of a use with confirmed closes.                           *)

Heard(e) == state[e] \in {"remoteEOF", "bothEOF", "closing", "closed"}

\* Nothing is behind a close.
Last(q) == \A k \in Kinds : NoneBehind(q, "close", k)

\* The writing of e: its EOF is in one place and nothing that is refused
\* follows it.
StreamInv(e) ==
    /\ Up(e)
    /\ inTable[e] <=> state[e] # "closed"
    /\ state[e] \notin canSendData => sendPc[e] = "idle"
    /\ Has(outbound[e], "eof") => eofPc[e] = "idle"
    /\ NoneBehind(outbound[e], "eof", "eof")
    /\ Has(wire[e], "eof") => eofPc[e] = "idle" /\ ~Has(outbound[e], "eof")
    /\ NoneBehind(wire[e], "eof", "data") /\ NoneBehind(wire[e], "eof", "eof")
    /\ ~Has(wire[e], "disconnect") /\ ~Has(wire[e], "hangup")
    /\ Heard(Peer(e)) =>
          /\ state[e] \notin canSendData /\ eofPc[e] = "idle"
          /\ ~Has(outbound[e], "eof") /\ ~Has(wire[e], "eof") /\ ~Has(wire[e], "data")
    /\ gotEOF[e] =>
          /\ Heard(e) /\ frames[e] = <<>> /\ adjusting[e] = 0
          /\ ~Has(outbound[e], "adjust")
          /\ sent[Peer(e)] <= Got(e)
    /\ NoneBehind(control[e], "close", "close") /\ Last(wire[e])

\* Who closes, and where its close is.
CloseInv ==
    /\ state["a"] \in {"open", "localEOF", "bothEOF", "closing", "closed"}
    /\ state["b"] \in {"open", "remoteEOF", "bothEOF", "closed"}
    /\ ~closedHere["b"]
    /\ closedHere["a"] <=> state["a"] \in {"closing", "closed"}
    /\ closedHere["a"] => gotEOF["a"]
    /\ state["b"] \notin canSendData => gotEOF["b"]
    /\ Heard("a") => ~Has(wire["b"], "adjust")
    /\ NoneBehind(wire["b"], "eof", "adjust")
    /\ closePc["a"] = "queue" =>
          /\ state["a"] = "closing" /\ state["b"] # "closed"
          /\ ~Has(control["a"], "close") /\ ~Has(wire["a"], "close")
    /\ Has(control["a"], "close") =>
          state["a"] = "closing" /\ state["b"] # "closed" /\ ~Has(wire["a"], "close")
    /\ Has(wire["a"], "close") => state["a"] = "closing" /\ state["b"] # "closed"
    /\ state["b"] = "closed" => state["a"] \in {"closing", "closed"} /\ wire["a"] = <<>>
    /\ Has(control["b"], "close") =>
          state["b"] = "closed" /\ state["a"] = "closing" /\ ~Has(wire["b"], "close")
    /\ Has(wire["b"], "close") => state["b"] = "closed" /\ state["a"] = "closing"

Calm == env.use.confirmed /\ Undisturbed
Orderly == CloseInv /\ \A e \in End : StreamInv(e)
OrderlyInv == Calm => Orderly

Local(e) ==
    /\ CallInv(e) /\ QueueInv(e) /\ SentInv(e) /\ ReadInv(e) /\ DataInv(e)
    /\ WindowInv(e) /\ SealInv(e) /\ LateInv(e) /\ TruthInv(e)

IInv == Types /\ (\A e \in End : Local(e)) /\ OrderlyInv

-----------------------------------------------------------------------------
(* Queues of envelopes.                                                    *)

LEMMA SeqFacts ==
  ASSUME NEW S, NEW q \in Seq(S)
  PROVE  /\ Len(q) \in Nat /\ DOMAIN q = 1..Len(q)
         /\ \A i \in DOMAIN q : q[i] \in S
OBVIOUS

LEMMA AppendFacts ==
  ASSUME NEW S, NEW q \in Seq(S), NEW m \in S
  PROVE  /\ Append(q, m) \in Seq(S) /\ Len(Append(q, m)) = Len(q) + 1
         /\ DOMAIN Append(q, m) = 1..(Len(q) + 1)
         /\ \A i \in DOMAIN q : i \in DOMAIN Append(q, m) /\ Append(q, m)[i] = q[i]
         /\ Append(q, m)[Len(q) + 1] = m
         /\ \A i \in DOMAIN Append(q, m) : i \in DOMAIN q \/ i = Len(q) + 1
OBVIOUS

LEMMA TailFacts ==
  ASSUME NEW S, NEW q \in Seq(S), q # <<>>
  PROVE  /\ Tail(q) \in Seq(S) /\ Len(Tail(q)) = Len(q) - 1 /\ Len(q) \in Nat \ {0}
         /\ Head(q) = q[1] /\ 1 \in DOMAIN q /\ Head(q) \in S
         /\ DOMAIN Tail(q) = 1..(Len(q) - 1)
         /\ \A i \in DOMAIN Tail(q) : i + 1 \in DOMAIN q /\ Tail(q)[i] = q[i + 1]
         /\ \A i \in DOMAIN q : i = 1 \/ (i - 1 \in DOMAIN Tail(q) /\ Tail(q)[i - 1] = q[i])
OBVIOUS

LEMMA ConcatFacts ==
  ASSUME NEW S, NEW q \in Seq(S), NEW t \in Seq(S)
  PROVE  /\ q \o t \in Seq(S)
         /\ \A i \in DOMAIN q : i \in DOMAIN (q \o t) /\ (q \o t)[i] = q[i]
         /\ \A i \in DOMAIN (q \o t) :
               i \in DOMAIN q \/ (/\ i > Len(q) /\ i - Len(q) \in DOMAIN t
                                  /\ (q \o t)[i] = t[i - Len(q)])
         /\ \A i \in DOMAIN t : /\ i + Len(q) \in DOMAIN (q \o t)
                                /\ (q \o t)[i + Len(q)] = t[i]
<1>1. /\ Len(q) \in Nat /\ Len(t) \in Nat /\ DOMAIN q = 1..Len(q) /\ DOMAIN t = 1..Len(t)
  OBVIOUS
<1>2. /\ q \o t \in Seq(S) /\ Len(q \o t) = Len(q) + Len(t)
      /\ \A i \in 1..(Len(q) + Len(t)) :
            (q \o t)[i] = IF i <= Len(q) THEN q[i] ELSE t[i - Len(q)]
  BY ConcatProperties
<1>3. DOMAIN (q \o t) = 1..(Len(q) + Len(t))
  BY <1>2
<1> QED
  BY <1>1, <1>2, <1>3

LEMMA EnvelopeFacts ==
  ASSUME NEW q \in Seq(Envelopes)
  PROVE  \A i \in DOMAIN q : q[i] \in Envelopes /\ q[i].n \in Nat /\ q[i].kind \in Kinds
<1>1. \A m \in Envelopes : m.n \in Nat /\ m.kind \in Kinds
  BY DEF Envelopes
<1>2. \A i \in DOMAIN q : q[i] \in Envelopes
  BY SeqFacts, Zenon
<1> QED
  BY <1>1, <1>2, Zenon

LEMMA HasEmpty == \A k : ~Has(<<>>, k)
BY DEF Has

LEMMA HasAppend ==
  ASSUME NEW q \in Seq(Envelopes), NEW m \in Envelopes
  PROVE  \A k : Has(Append(q, m), k) <=> Has(q, k) \/ m.kind = k
<1>1. /\ \A i \in DOMAIN q : i \in DOMAIN Append(q, m) /\ Append(q, m)[i] = q[i]
      /\ Append(q, m)[Len(q) + 1] = m /\ Len(q) + 1 \in DOMAIN Append(q, m)
      /\ \A i \in DOMAIN Append(q, m) : i \in DOMAIN q \/ i = Len(q) + 1
  BY AppendFacts, SeqFacts
<1> QED
  BY <1>1, Zenon DEF Has

LEMMA HasTail ==
  ASSUME NEW q \in Seq(Envelopes), q # <<>>
  PROVE  \A k : Has(q, k) <=> Has(Tail(q), k) \/ Head(q).kind = k
<1>1. /\ Head(q) = q[1] /\ 1 \in DOMAIN q
      /\ \A i \in DOMAIN Tail(q) : i + 1 \in DOMAIN q /\ Tail(q)[i] = q[i + 1]
      /\ \A i \in DOMAIN q : i = 1 \/ (i - 1 \in DOMAIN Tail(q) /\ Tail(q)[i - 1] = q[i])
  BY TailFacts, Zenon
<1> QED
  BY <1>1, Zenon DEF Has

LEMMA HasConcat ==
  ASSUME NEW q \in Seq(Envelopes), NEW t \in Seq(Envelopes)
  PROVE  \A k : Has(q \o t, k) <=> Has(q, k) \/ Has(t, k)
<1>1. /\ \A i \in DOMAIN q : i \in DOMAIN (q \o t) /\ (q \o t)[i] = q[i]
      /\ \A i \in DOMAIN (q \o t) :
            i \in DOMAIN q \/ (i - Len(q) \in DOMAIN t /\ (q \o t)[i] = t[i - Len(q)])
      /\ \A i \in DOMAIN t : i + Len(q) \in DOMAIN (q \o t) /\ (q \o t)[i + Len(q)] = t[i]
  BY ConcatFacts
<1> QED
  BY <1>1, Zenon DEF Has

LEMMA HasNone ==
  ASSUME NEW q \in Seq(Envelopes), \A k \in Kinds : ~Has(q, k)
  PROVE  q = <<>>
<1> SUFFICES ASSUME q # <<>> PROVE FALSE
  OBVIOUS
<1>1. 1 \in DOMAIN q /\ q[1] \in Envelopes
  BY TailFacts, Zenon
<1> QED
  BY <1>1 DEF Has, Envelopes

LEMMA NoneBehindAppend ==
  ASSUME NEW q \in Seq(Envelopes), NEW m \in Envelopes, NEW k, NEW l,
         NoneBehind(q, k, l), m.kind = l => ~Has(q, k)
  PROVE  NoneBehind(Append(q, m), k, l)
<1>1. /\ \A i \in DOMAIN q : Append(q, m)[i] = q[i] /\ i <= Len(q) /\ i \in Nat
      /\ Append(q, m)[Len(q) + 1] = m /\ Len(q) \in Nat
      /\ \A i \in DOMAIN Append(q, m) : i \in DOMAIN q \/ i = Len(q) + 1
  BY AppendFacts, SeqFacts
<1> SUFFICES ASSUME NEW i \in DOMAIN Append(q, m), NEW j \in DOMAIN Append(q, m), i < j,
                    Append(q, m)[i].kind = k
             PROVE  Append(q, m)[j].kind # l
  BY DEF NoneBehind
<1>2. i \in DOMAIN q
  BY <1>1
<1>3. CASE j \in DOMAIN q
  BY <1>1, <1>2, <1>3 DEF NoneBehind
<1>4. CASE j = Len(q) + 1
  BY <1>1, <1>2, <1>4 DEF Has
<1> QED
  BY <1>1, <1>3, <1>4

LEMMA NoneBehindTail ==
  ASSUME NEW q \in Seq(Envelopes), q # <<>>, NEW k, NEW l, NoneBehind(q, k, l)
  PROVE  /\ NoneBehind(Tail(q), k, l)
         /\ Head(q).kind = k => ~Has(Tail(q), l)
<1>1. /\ Head(q) = q[1] /\ 1 \in DOMAIN q
      /\ \A i \in DOMAIN Tail(q) : /\ i + 1 \in DOMAIN q /\ Tail(q)[i] = q[i + 1]
                                   /\ i \in Nat /\ i > 0
  BY TailFacts
<1>2. \A i, j \in DOMAIN Tail(q) : i < j => i + 1 < j + 1
  BY <1>1
<1>3. \A i \in DOMAIN Tail(q) : 1 < i + 1
  BY <1>1
<1> QED
  BY <1>1, <1>2, <1>3, Zenon DEF NoneBehind, Has

LEMMA NoneBehindEmpty == \A k, l : NoneBehind(<<>>, k, l)
BY DEF NoneBehind

-----------------------------------------------------------------------------
(* The frames a queue carries.                                             *)

LEMMA CarriedAppend ==
  ASSUME NEW q \in Seq(Envelopes), NEW m \in Envelopes, NEW lo \in Nat, NEW hi \in Nat,
         Carried(q, lo, hi), lo <= hi
  PROVE  /\ m.kind # "data" => Carried(Append(q, m), lo, hi)
         /\ m.kind = "data" /\ m.n = hi + 1 => Carried(Append(q, m), lo, hi + 1)
<1> DEFINE r == Append(q, m)
<1>1. /\ \A i \in DOMAIN q : i \in DOMAIN r /\ r[i] = q[i] /\ i <= Len(q) /\ i \in Nat
      /\ r[Len(q) + 1] = m /\ Len(q) \in Nat /\ Len(q) + 1 \in DOMAIN r
      /\ \A i \in DOMAIN r : i \in DOMAIN q \/ i = Len(q) + 1
  BY AppendFacts, SeqFacts
<1>2. \A i \in DOMAIN q : q[i].n \in Nat
  BY EnvelopeFacts
<1> HIDE DEF r
<1>3. ASSUME m.kind # "data" PROVE Carried(r, lo, hi)
  <2>1. \A i \in DOMAIN r : r[i].kind = "data" => i \in DOMAIN q /\ r[i] = q[i]
    BY <1>1, <1>3
  <2>2. ASSUME NEW n \in (lo + 1)..hi PROVE \E i \in DOMAIN r : r[i].kind = "data" /\ r[i].n = n
    <3>1. PICK i \in DOMAIN q : q[i].kind = "data" /\ q[i].n = n
      BY DEF Carried
    <3> QED
      BY <1>1, <3>1
  <2>3. \A i \in DOMAIN r : r[i].kind = "data" => lo < r[i].n /\ r[i].n <= hi
    BY <2>1, Zenon DEF Carried
  <2>4. \A i, j \in DOMAIN r :
          i < j /\ r[i].kind = "data" /\ r[j].kind = "data" => r[i].n < r[j].n
    BY <2>1, Zenon DEF Carried
  <2> QED
    BY <2>2, <2>3, <2>4 DEF Carried
<1>4. ASSUME m.kind = "data", m.n = hi + 1 PROVE Carried(r, lo, hi + 1)
  <2>1. ASSUME NEW n \in (lo + 1)..(hi + 1)
        PROVE  \E i \in DOMAIN r : r[i].kind = "data" /\ r[i].n = n
    <3>1. CASE n = hi + 1
      BY <1>1, <1>4, <3>1
    <3>2. CASE n \in (lo + 1)..hi
      <4>1. PICK i \in DOMAIN q : q[i].kind = "data" /\ q[i].n = n
        BY <3>2 DEF Carried
      <4> QED
        BY <1>1, <4>1
    <3> QED
      BY <3>1, <3>2
  <2>2. ASSUME NEW i \in DOMAIN r, r[i].kind = "data" PROVE lo < r[i].n /\ r[i].n <= hi + 1
    <3>1. CASE i \in DOMAIN q
      <4>1. lo < q[i].n /\ q[i].n <= hi
        BY <1>1, <2>2, <3>1 DEF Carried
      <4> QED
        BY <1>1, <1>2, <3>1, <4>1
    <3>2. CASE i = Len(q) + 1
      BY <1>1, <1>4, <3>2
    <3> QED
      BY <1>1, <3>1, <3>2
  <2>3. ASSUME NEW i \in DOMAIN r, NEW j \in DOMAIN r, i < j, r[i].kind = "data", r[j].kind = "data"
        PROVE  r[i].n < r[j].n
    <3>1. i \in DOMAIN q
      BY <1>1, <2>3
    <3>2. CASE j \in DOMAIN q
      BY <1>1, <2>3, <3>1, <3>2 DEF Carried
    <3>3. CASE j = Len(q) + 1
      <4>1. q[i].n <= hi /\ r[i] = q[i] /\ q[i].n \in Nat
        BY <1>1, <1>2, <2>3, <3>1 DEF Carried
      <4> QED
        BY <1>1, <1>4, <3>3, <4>1
    <3> QED
      BY <1>1, <3>2, <3>3
  <2> QED
    BY <2>1, <2>2, <2>3 DEF Carried
<1> QED
  BY <1>3, <1>4 DEF r

LEMMA CarriedTail ==
  ASSUME NEW q \in Seq(Envelopes), q # <<>>, NEW lo \in Nat, NEW hi \in Nat,
         Carried(q, lo, hi)
  PROVE  /\ Head(q).kind # "data" => Carried(Tail(q), lo, hi)
         /\ Head(q).kind = "data" =>
               lo < hi /\ Head(q).n = lo + 1 /\ Carried(Tail(q), lo + 1, hi)
<1> DEFINE r == Tail(q)
<1>1. /\ Head(q) = q[1] /\ 1 \in DOMAIN q
      /\ \A i \in DOMAIN r : i + 1 \in DOMAIN q /\ r[i] = q[i + 1] /\ i \in Nat /\ i > 0
      /\ \A i \in DOMAIN q : i = 1 \/ (i - 1 \in DOMAIN r /\ r[i - 1] = q[i])
      /\ \A i \in DOMAIN q : i \in Nat /\ i >= 1
  BY TailFacts, SeqFacts
<1>2. \A i \in DOMAIN q : q[i].n \in Nat
  BY EnvelopeFacts
<1> HIDE DEF r
<1>3. \A i, j \in DOMAIN r :
          i < j /\ r[i].kind = "data" /\ r[j].kind = "data" => r[i].n < r[j].n
  <2> SUFFICES ASSUME NEW i \in DOMAIN r, NEW j \in DOMAIN r, i < j,
                      r[i].kind = "data", r[j].kind = "data"
               PROVE  r[i].n < r[j].n
    OBVIOUS
  <2>1. /\ i + 1 \in DOMAIN q /\ j + 1 \in DOMAIN q /\ i + 1 < j + 1
        /\ r[i] = q[i + 1] /\ r[j] = q[j + 1]
    BY <1>1
  <2> QED
    BY <2>1 DEF Carried
<1>4. ASSUME NEW i \in DOMAIN r, r[i].kind = "data" PROVE lo < r[i].n /\ r[i].n <= hi
  <2>1. i + 1 \in DOMAIN q /\ r[i] = q[i + 1]
    BY <1>1
  <2> QED
    BY <1>4, <2>1 DEF Carried
<1>5. ASSUME Head(q).kind # "data" PROVE Carried(r, lo, hi)
  <2>1. ASSUME NEW n \in (lo + 1)..hi PROVE \E i \in DOMAIN r : r[i].kind = "data" /\ r[i].n = n
    <3>1. PICK i \in DOMAIN q : q[i].kind = "data" /\ q[i].n = n
      BY DEF Carried
    <3>2. i # 1
      BY <1>1, <1>5, <3>1
    <3> QED
      BY <1>1, <3>1, <3>2
  <2> QED
    BY <1>3, <1>4, <2>1 DEF Carried
<1>6. ASSUME Head(q).kind = "data"
      PROVE  lo < hi /\ Head(q).n = lo + 1 /\ Carried(r, lo + 1, hi)
  <2>1. lo < q[1].n /\ q[1].n <= hi /\ q[1].n \in Nat
    BY <1>1, <1>2, <1>6 DEF Carried
  <2>2. \A i \in DOMAIN q : i # 1 /\ q[i].kind = "data" => q[1].n < q[i].n
    <3>1. \A i \in DOMAIN q : i # 1 => 1 < i
      BY <1>1
    <3> QED
      BY <1>1, <1>6, <3>1, Zenon DEF Carried
  <2>3. q[1].n = lo + 1
    <3>1. lo + 1 \in (lo + 1)..hi
      BY <2>1
    <3>2. PICK i \in DOMAIN q : q[i].kind = "data" /\ q[i].n = lo + 1
      BY <3>1 DEF Carried
    <3>3. i # 1 => q[1].n < lo + 1
      BY <2>2, <3>2
    <3> QED
      BY <2>1, <3>2, <3>3
  <2>4. ASSUME NEW n \in (lo + 1 + 1)..hi
        PROVE  \E i \in DOMAIN r : r[i].kind = "data" /\ r[i].n = n
    <3>1. n \in (lo + 1)..hi /\ n # lo + 1
      OBVIOUS
    <3>2. PICK i \in DOMAIN q : q[i].kind = "data" /\ q[i].n = n
      BY <3>1 DEF Carried
    <3>3. i # 1
      BY <2>3, <3>1, <3>2
    <3> QED
      BY <1>1, <3>2, <3>3
  <2>5. ASSUME NEW i \in DOMAIN r, r[i].kind = "data" PROVE lo + 1 < r[i].n /\ r[i].n <= hi
    <3>1. i + 1 \in DOMAIN q /\ i + 1 # 1 /\ r[i] = q[i + 1]
      BY <1>1
    <3>2. q[1].n < q[i + 1].n
      BY <2>2, <2>5, <3>1
    <3> QED
      BY <1>4, <2>3, <2>5, <3>1, <3>2
  <2> QED
    BY <1>1, <1>3, <2>1, <2>3, <2>4, <2>5 DEF Carried
<1> QED
  BY <1>5, <1>6 DEF r

LEMMA CarriedConcat ==
  ASSUME NEW q \in Seq(Envelopes), NEW t \in Seq(Envelopes), NEW lo, NEW hi,
         Carried(q, lo, hi), ~Has(t, "data")
  PROVE  Carried(q \o t, lo, hi)
<1>1. \A i \in DOMAIN q : i \in DOMAIN (q \o t) /\ (q \o t)[i] = q[i]
  BY ConcatFacts
<1>2. \A i \in DOMAIN (q \o t) :
         (q \o t)[i].kind = "data" => i \in DOMAIN q /\ (q \o t)[i] = q[i]
  BY ConcatFacts DEF Has
<1>3. \A n \in (lo + 1)..hi :
         \E i \in DOMAIN (q \o t) : (q \o t)[i].kind = "data" /\ (q \o t)[i].n = n
  BY <1>1, Zenon DEF Carried
<1> QED
  BY <1>2, <1>3, Zenon DEF Carried

LEMMA CarriedNone ==
  ASSUME NEW q, NEW lo \in Nat, NEW hi \in Nat, Carried(q, lo, hi), ~Has(q, "data")
  PROVE  hi <= lo
<1> SUFFICES ASSUME lo < hi PROVE FALSE
  OBVIOUS
<1>1. hi \in (lo + 1)..hi
  OBVIOUS
<1> QED
  BY <1>1 DEF Carried, Has

-----------------------------------------------------------------------------
(* What follows an EOF or a close.                                         *)

LEMMA LateAppend ==
  ASSUME NEW q \in Seq(Envelopes), NEW m \in Envelopes, NEW n, Late(q, n),
         m.kind = "data" => n < m.n \/ (~Has(q, "eof") /\ ~Has(q, "close"))
  PROVE  Late(Append(q, m), n)
<1> DEFINE r == Append(q, m)
<1>1. /\ \A i \in DOMAIN q : r[i] = q[i] /\ i <= Len(q) /\ i \in Nat
      /\ r[Len(q) + 1] = m /\ Len(q) \in Nat
      /\ \A i \in DOMAIN r : i \in DOMAIN q \/ i = Len(q) + 1
  BY AppendFacts, SeqFacts
<1> HIDE DEF r
<1>2. ASSUME NEW i \in DOMAIN r, NEW j \in DOMAIN r, i < j, r[i].kind \in Fin, r[j].kind = "data"
      PROVE  n < r[j].n
  <2>1. i \in DOMAIN q
    BY <1>1, <1>2
  <2>2. CASE j \in DOMAIN q
    BY <1>1, <1>2, <2>1, <2>2 DEF Late
  <2>3. CASE j = Len(q) + 1
    <3>1. Has(q, "eof") \/ Has(q, "close")
      BY <1>1, <1>2, <2>1 DEF Has, Fin
    <3> QED
      BY <1>1, <1>2, <2>3, <3>1
  <2> QED
    BY <1>1, <2>2, <2>3
<1> QED
  BY <1>2 DEF Late, r

LEMMA LateTail ==
  ASSUME NEW q \in Seq(Envelopes), q # <<>>, NEW n, Late(q, n)
  PROVE  Late(Tail(q), n)
<1>1. \A i \in DOMAIN Tail(q) : i + 1 \in DOMAIN q /\ Tail(q)[i] = q[i + 1] /\ i \in Nat
  BY TailFacts
<1>2. \A i, j \in DOMAIN Tail(q) : i < j => i + 1 < j + 1
  BY <1>1
<1> QED
  BY <1>1, <1>2, Zenon DEF Late

LEMMA LateConcat ==
  ASSUME NEW q \in Seq(Envelopes), NEW t \in Seq(Envelopes), NEW n, Late(q, n), ~Has(t, "data")
  PROVE  Late(q \o t, n)
<1>1. \A i \in DOMAIN (q \o t) :
         \/ i \in DOMAIN q /\ (q \o t)[i] = q[i]
         \/ i > Len(q) /\ (q \o t)[i].kind # "data"
  BY ConcatFacts DEF Has
<1>2. \A i \in DOMAIN q : i <= Len(q) /\ i \in Nat /\ Len(q) \in Nat
  BY SeqFacts
<1>3. \A i \in DOMAIN (q \o t) : i \in Nat
  BY ConcatFacts, SeqFacts
<1> QED
  <2> SUFFICES ASSUME NEW i \in DOMAIN (q \o t), NEW j \in DOMAIN (q \o t), i < j,
                      (q \o t)[i].kind \in Fin, (q \o t)[j].kind = "data"
               PROVE  n < (q \o t)[j].n
    BY DEF Late
  <2>1. j \in DOMAIN q /\ (q \o t)[j] = q[j]
    BY <1>1
  <2>2. i \in DOMAIN q /\ (q \o t)[i] = q[i]
    BY <1>1, <1>2, <1>3, <2>1
  <2> QED
    BY <2>1, <2>2 DEF Late

\* An EOF or a close that arrives: what was promised has been delivered.
LEMMA LateHead ==
  ASSUME NEW q \in Seq(Envelopes), q # <<>>, NEW lo \in Nat, NEW hi \in Nat, NEW n \in Nat,
         Late(q, n), Carried(q, lo, hi), n <= hi, Head(q).kind \in Fin
  PROVE  n <= lo
<1> SUFFICES ASSUME lo < n PROVE FALSE
  OBVIOUS
<1>1. n \in (lo + 1)..hi
  OBVIOUS
<1>2. PICK i \in DOMAIN q : q[i].kind = "data" /\ q[i].n = n
  BY <1>1 DEF Carried
<1>3. /\ Head(q) = q[1] /\ 1 \in DOMAIN q /\ i \in Nat /\ i >= 1
  BY TailFacts, SeqFacts
<1>4. i # 1
  BY <1>2, <1>3 DEF Fin
<1>5. n < q[i].n
  BY <1>2, <1>3, <1>4 DEF Late
<1> QED
  BY <1>2, <1>5

-----------------------------------------------------------------------------
(* The credit under way.                                                   *)

LEMMA GrantsType ==
  ASSUME NEW q \in Seq(Envelopes)
  PROVE  /\ Grants(q) \in Seq(Nat) /\ Len(Grants(q)) = Len(q)
         /\ \A i \in DOMAIN q : Grants(q)[i] = IF q[i].kind = "adjust" THEN q[i].n ELSE 0
<1>1. DOMAIN q = 1..Len(q) /\ Len(q) \in Nat
  OBVIOUS
<1>2. \A i \in DOMAIN q : q[i].n \in Nat
  BY EnvelopeFacts
<1>3. Grants(q) \in [1..Len(q) -> Nat]
  BY <1>1, <1>2 DEF Grants
<1> QED
  BY <1>1, <1>3 DEF Grants

LEMMA CreditsEmpty == Credits(<<>>) = 0
<1>1. Grants(<<>>) = <<>>
  BY DEF Grants
<1> QED
  BY <1>1, TotalEmpty DEF Credits

LEMMA CreditsNat ==
  ASSUME NEW q \in Seq(Envelopes)
  PROVE  Credits(q) \in Nat
BY GrantsType, TotalSeqNat DEF Credits

LEMMA CreditsAppend ==
  ASSUME NEW q \in Seq(Envelopes), NEW m \in Envelopes
  PROVE  Credits(Append(q, m)) = Credits(q) + IF m.kind = "adjust" THEN m.n ELSE 0
<1> DEFINE n == IF m.kind = "adjust" THEN m.n ELSE 0
           r == Append(q, m)
<1>0. n \in Nat
  BY DEF Envelopes
<1>1. /\ r \in Seq(Envelopes) /\ Len(r) = Len(q) + 1 /\ Len(q) \in Nat
      /\ DOMAIN q = 1..Len(q) /\ DOMAIN r = 1..(Len(q) + 1)
      /\ \A i \in 1..Len(q) : r[i] = q[i]
      /\ r[Len(q) + 1] = m
  OBVIOUS
<1>2. /\ Grants(q) \in Seq(Nat) /\ Len(Grants(q)) = Len(q)
      /\ Grants(r) \in Seq(Nat) /\ Len(Grants(r)) = Len(q) + 1
  BY <1>1, GrantsType
<1>3. ASSUME NEW i \in 1..(Len(q) + 1)
      PROVE  Grants(r)[i] = Append(Grants(q), n)[i]
  <2>1. Grants(r)[i] = IF r[i].kind = "adjust" THEN r[i].n ELSE 0
    BY <1>1, GrantsType
  <2>2. CASE i = Len(q) + 1
    BY <2>1, <2>2, <1>1, <1>2
  <2>3. CASE i \in 1..Len(q)
    <3>1. r[i] = q[i] /\ Append(Grants(q), n)[i] = Grants(q)[i]
      BY <2>3, <1>0, <1>1, <1>2
    <3>2. Grants(q)[i] = IF q[i].kind = "adjust" THEN q[i].n ELSE 0
      BY <2>3, <1>1, GrantsType
    <3> QED
      BY <3>1, <3>2, <2>1
  <2>4. i = Len(q) + 1 \/ i \in 1..Len(q)
    BY <1>1
  <2> QED
    BY <2>2, <2>3, <2>4, Zenon
<1>4. Append(Grants(q), n) \in Seq(Nat) /\ Len(Append(Grants(q), n)) = Len(q) + 1
  BY <1>0, <1>1, <1>2
<1>5. Grants(r) = Append(Grants(q), n)
  BY <1>2, <1>3, <1>4, SeqEqual
<1> QED
  BY <1>0, <1>2, <1>5, TotalAppend DEF Credits

LEMMA CreditsTail ==
  ASSUME NEW q \in Seq(Envelopes), q # <<>>
  PROVE  Credits(q) = Credits(Tail(q)) + IF Head(q).kind = "adjust" THEN Head(q).n ELSE 0
<1> DEFINE r == Tail(q)
<1>1. /\ r \in Seq(Envelopes) /\ Len(r) = Len(q) - 1 /\ Len(q) \in Nat \ {0}
      /\ DOMAIN q = 1..Len(q) /\ DOMAIN r = 1..(Len(q) - 1) /\ q[1] = Head(q)
      /\ \A i \in 1..(Len(q) - 1) : r[i] = q[i + 1]
  OBVIOUS
<1>2. /\ Grants(q) \in Seq(Nat) /\ Len(Grants(q)) = Len(q)
      /\ Grants(r) \in Seq(Nat) /\ Len(Grants(r)) = Len(q) - 1
  BY <1>1, GrantsType
<1>3. Grants(q) # <<>> /\ Head(Grants(q)) = IF Head(q).kind = "adjust" THEN Head(q).n ELSE 0
  <2>1. Grants(q)[1] = IF q[1].kind = "adjust" THEN q[1].n ELSE 0
    BY <1>1, GrantsType
  <2> QED
    BY <2>1, <1>1, <1>2
<1>4. Tail(Grants(q)) \in Seq(Nat) /\ Len(Tail(Grants(q))) = Len(q) - 1
  BY <1>1, <1>2, <1>3
<1>5. ASSUME NEW i \in 1..(Len(q) - 1)
      PROVE  Grants(r)[i] = Tail(Grants(q))[i]
  <2>1. Grants(r)[i] = IF r[i].kind = "adjust" THEN r[i].n ELSE 0
    BY <1>1, GrantsType
  <2>2. r[i] = q[i + 1] /\ Tail(Grants(q))[i] = Grants(q)[i + 1]
    BY <1>1, <1>2, <1>3
  <2>3. Grants(q)[i + 1] = IF q[i + 1].kind = "adjust" THEN q[i + 1].n ELSE 0
    BY <1>1, GrantsType
  <2> QED
    BY <2>1, <2>2, <2>3
<1>6. Grants(r) = Tail(Grants(q))
  BY <1>2, <1>4, <1>5, SeqEqual
<1>7. /\ Total(Grants(r)) = Total(Grants(q)) - Head(Grants(q))
      /\ Total(Grants(r)) \in Nat /\ Total(Grants(q)) \in Nat
  BY <1>2, <1>3, <1>6, TotalTail, TotalSeqNat
<1>8. Head(Grants(q)) \in Nat
  BY <1>2, <1>3
<1> QED
  BY <1>3, <1>7, <1>8 DEF Credits

\* Envelopes that carry no credit add none.
LEMMA CreditsConcat ==
  ASSUME NEW q \in Seq(Envelopes), NEW t \in Seq(Envelopes), ~Has(t, "adjust")
  PROVE  Credits(q \o t) = Credits(q)
<1> DEFINE r == q \o t
<1>1. /\ r \in Seq(Envelopes)
      /\ \A i \in DOMAIN q : i \in DOMAIN r /\ r[i] = q[i]
      /\ \A i \in DOMAIN r : i \in DOMAIN q \/ r[i].kind # "adjust"
  BY ConcatFacts DEF Has
<1> HIDE DEF r
<1>2. /\ Grants(q) \in [DOMAIN q -> Nat] /\ Grants(r) \in [DOMAIN r -> Nat]
      /\ \A i \in DOMAIN q : Grants(r)[i] = Grants(q)[i]
      /\ \A i \in DOMAIN r : i \in DOMAIN q \/ Grants(r)[i] = 0
  <2>1. \A i \in DOMAIN q : q[i].n \in Nat
    BY EnvelopeFacts
  <2>2. \A i \in DOMAIN r : r[i].n \in Nat
    BY <1>1, EnvelopeFacts
  <2> QED
    BY <1>1, <2>1, <2>2 DEF Grants
<1>3. ASSUME NEW z PROVE z \in ByteSet(Grants(r)) <=> z \in ByteSet(Grants(q))
  <2>1. \A i \in DOMAIN q : BytesAt(Grants(r), i) = BytesAt(Grants(q), i)
    BY <1>2 DEF BytesAt
  <2>2. \A i \in DOMAIN r : i \in DOMAIN q \/ BytesAt(Grants(r), i) = {}
    BY <1>2 DEF BytesAt
  <2>3. z \in ByteSet(Grants(r)) <=> \E i \in DOMAIN r : z \in BytesAt(Grants(r), i)
    BY <1>2, ByteSetMember
  <2>4. z \in ByteSet(Grants(q)) <=> \E i \in DOMAIN q : z \in BytesAt(Grants(q), i)
    BY <1>2, ByteSetMember
  <2> QED
    BY <1>1, <2>1, <2>2, <2>3, <2>4, Zenon
<1>4. ByteSet(Grants(r)) = ByteSet(Grants(q))
  BY <1>3
<1> QED
  BY <1>4 DEF Credits, Total, r

-----------------------------------------------------------------------------
(* The steps of one endpoint.                                              *)

\* Steps in which the session of e goes down.
Ends(e) ==
    \/ SessionClose(e) \/ QueueRefused(e) \/ ReceiveRefused(e)
    \/ EnqueueChannelCloseRefused(e) \/ ProtocolError(e)
    \/ HandleDisconnect(e) \/ ReceiveHangup(e)

\* Calls of the application and their writes.
Calls(e) ==
    \/ Send(e) \/ SendQueue(e) \/ SendRefused(e)
    \/ RecvFrame(e) \/ RecvAdjust(e) \/ RecvEOF(e)
    \/ CloseWrite(e) \/ CloseWriteQueue(e) \/ CloseWriteRefused(e)
    \/ Close(e) \/ CloseQueue(e) \/ CloseTimeout(e)
    \/ WriteControl(e) \/ WriteOutbound(e)

\* Envelopes that are accepted.
Handles(e) ==
    \/ HandleChannelData(e) \/ HandleChannelWindowAdjust(e) \/ EnqueueChannelEOF(e)
    \/ EnqueueChannelClose(e) \/ EnqueueChannelCloseAck(e)

Acts(e) == Ends(e) \/ Calls(e) \/ Handles(e)

LEMMA NextActs == ASSUME Next PROVE \E e \in End : Acts(e)
BY Zenon DEF Next, Acts, Ends, Calls, Handles

LEMMA PeerFacts ==
  ASSUME NEW e \in End
  PROVE  Peer(e) \in End /\ Peer(e) # e /\ Peer(Peer(e)) = e /\ \A x \in End : x = e \/ x = Peer(e)
BY DEF End, Peer

LEMMA MsgFacts ==
  ASSUME NEW k, NEW n
  PROVE  /\ Msg(k, n).kind = k /\ Msg(k, n).n = n
         /\ k \in Kinds /\ n \in Nat => Msg(k, n) \in Envelopes
BY DEF Msg, Envelopes

\* What a step of its peer leaves of an endpoint: all but the wire.
SameAt(x) ==
    /\ state'[x] = state[x] /\ inTable'[x] = inTable[x] /\ remoteWindow'[x] = remoteWindow[x]
    /\ pending'[x] = pending[x] /\ frames'[x] = frames[x] /\ sendPc'[x] = sendPc[x]
    /\ adjusting'[x] = adjusting[x] /\ eofPc'[x] = eofPc[x] /\ closePc'[x] = closePc[x]
    /\ control'[x] = control[x] /\ outbound'[x] = outbound[x] /\ session'[x] = session[x]
    /\ sent'[x] = sent[x] /\ promised'[x] = promised[x] /\ read'[x] = read[x]
    /\ gotEOF'[x] = gotEOF[x] /\ closedHere'[x] = closedHere[x]

\* What the step does to the wire its peer writes.
Taken(e) == Up(e) /\ wire[Peer(e)] # <<>> /\ wire'[Peer(e)] = Tail(wire[Peer(e)])

\* e goes down; w is what it still sends.
Falls(e, cause, final, w) ==
    /\ Up(e)
    /\ cause \in Causes \ {"up"}
    /\ final = "failed" \/ (final = "closed" /\ cause = "budget")
    /\ session'[e] = cause
    /\ state'[e] = IF inTable[e] THEN final ELSE state[e]
    /\ frames'[e] = IF inTable[e] THEN <<>> ELSE frames[e]
    /\ inTable'[e] = FALSE /\ sendPc'[e] = "idle" /\ adjusting'[e] = 0
    /\ eofPc'[e] = "idle" /\ closePc'[e] = "idle"
    /\ control'[e] = <<>> /\ outbound'[e] = <<>>
    /\ wire'[e] = wire[e] \o w
    /\ remoteWindow'[e] = remoteWindow[e] /\ pending'[e] = pending[e]
    /\ sent'[e] = sent[e] /\ promised'[e] = promised[e] /\ read'[e] = read[e]
    /\ gotEOF'[e] = gotEOF[e] /\ closedHere'[e] = closedHere[e]

\* What an endpoint that goes down may still send.
LastInv(e, w) ==
    /\ w \in Seq(Envelopes) /\ Bounded(w, env.use.frames[e] + Threshold)
    /\ \A k : Has(w, k) => k \in {"disconnect", "hangup"} \/ (k = "close" /\ Has(control[e], "close"))

LEMMA UseFacts ==
  ASSUME Types, NEW e \in End
  PROVE  /\ env.use \in UseType /\ env.use.frames[e] \in Nat
         /\ Threshold \in Nat /\ Threshold > 0 /\ Window \in Nat /\ Threshold <= Window
<1>1. env.use \in UseType
  BY PairAssumption DEF Types
<1> QED
  BY <1>1, PairAssumption DEF UseType

LEMMA LastWordsOK ==
  ASSUME Types, NEW e \in End, QueueInv(e)
  PROVE  /\ \A cause \in Causes : LastInv(e, LastWords(e, cause))
         /\ LastInv(e, <<Msg("hangup", 0)>>)
<1>0. control[e] \in Seq(Envelopes) /\ env.use.frames[e] + Threshold \in Nat
  <2>1. env.use.frames[e] \in Nat /\ Threshold \in Nat
    BY UseFacts, Zenon
  <2>2. control[e] \in Seq(Envelopes)
    BY Zenon DEF Types
  <2> QED
    BY <2>1, <2>2
<1>1. /\ Msg("hangup", 0) \in Envelopes /\ Msg("hangup", 0).n = 0 /\ Msg("hangup", 0).kind = "hangup"
      /\ Msg("disconnect", 0) \in Envelopes /\ Msg("disconnect", 0).n = 0
      /\ Msg("disconnect", 0).kind = "disconnect"
  BY MsgFacts DEF Kinds
<1>2. LastInv(e, <<Msg("hangup", 0)>>)
  <2> DEFINE w == <<Msg("hangup", 0)>>
  <2>1. w \in Seq(Envelopes) /\ DOMAIN w = {1} /\ w[1] = Msg("hangup", 0)
    BY <1>1
  <2> QED
    BY <1>0, <1>1, <2>1 DEF LastInv, Bounded, Has
<1>3. LastInv(e, Append(control[e], Msg("disconnect", 0)))
  <2> DEFINE w == Append(control[e], Msg("disconnect", 0))
  <2>1. w \in Seq(Envelopes)
    BY <1>0, <1>1
  <2>2. \A k : Has(w, k) <=> Has(control[e], k) \/ k = "disconnect"
    BY <1>0, <1>1, HasAppend
  <2>3. \A k : Has(control[e], k) => k = "close"
    BY DEF Has, QueueInv, ControlOK
  <2>4. \A i \in DOMAIN w :
           (i \in DOMAIN control[e] /\ w[i] = control[e][i]) \/ w[i] = Msg("disconnect", 0)
    BY <1>0, <1>1, AppendFacts
  <2>5. Bounded(control[e], env.use.frames[e] + Threshold)
    BY DEF QueueInv
  <2>6. Bounded(w, env.use.frames[e] + Threshold)
    BY <1>0, <1>1, <2>4, <2>5 DEF Bounded
  <2> QED
    BY <2>1, <2>2, <2>3, <2>6, Zenon DEF LastInv
<1> QED
  BY <1>2, <1>3 DEF LastWords

LEMMA ShutdownAt ==
  ASSUME Types, NEW e \in End, NEW cause, NEW final, Shutdown(e, cause, final)
  PROVE  /\ session'[e] = cause
         /\ state'[e] = IF inTable[e] THEN final ELSE state[e]
         /\ frames'[e] = IF inTable[e] THEN <<>> ELSE frames[e]
         /\ inTable'[e] = FALSE /\ sendPc'[e] = "idle" /\ adjusting'[e] = 0
         /\ eofPc'[e] = "idle" /\ closePc'[e] = "idle"
         /\ control'[e] = <<>> /\ outbound'[e] = <<>>
         /\ \A x \in End \ {e} :
               /\ session'[x] = session[x] /\ state'[x] = state[x] /\ frames'[x] = frames[x]
               /\ inTable'[x] = inTable[x] /\ sendPc'[x] = sendPc[x]
               /\ adjusting'[x] = adjusting[x] /\ eofPc'[x] = eofPc[x]
               /\ closePc'[x] = closePc[x] /\ control'[x] = control[x]
               /\ outbound'[x] = outbound[x]
BY DEF Types, Shutdown, Set

LEMMA EndsFalls ==
  ASSUME Types, NEW e \in End, QueueInv(e), Ends(e)
  PROVE  /\ \E cause, final, w : Falls(e, cause, final, w) /\ LastInv(e, w)
         /\ SameAt(Peer(e)) /\ (wire'[Peer(e)] = wire[Peer(e)] \/ Taken(e))
         /\ env'.use = env.use
<1> DEFINE p == Peer(e)
           Goal == /\ \E cause, final, w : Falls(e, cause, final, w) /\ LastInv(e, w)
                   /\ SameAt(p) /\ (wire'[p] = wire[p] \/ Taken(e))
                   /\ env'.use = env.use
<1>0. p \in End /\ p # e /\ wire \in [End -> Seq(Envelopes)]
  BY PeerFacts DEF Types
<1>1. ASSUME NEW cause \in Causes \ {"up"}, NEW final, NEW w, Up(e), LastInv(e, w),
             Shutdown(e, cause, final), final = "failed" \/ (final = "closed" /\ cause = "budget"),
             wire'[e] = wire[e] \o w, wire'[p] = wire[p] \/ Taken(e),
             UNCHANGED <<windowVars, historyVars>>, env'.use = env.use
      PROVE  Goal
  <2>1. UNCHANGED <<remoteWindow, pending, sent, promised, read, gotEOF, closedHere>>
    BY <1>1 DEF windowVars, historyVars
  <2>2. Falls(e, cause, final, w)
    BY <1>1, <2>1, ShutdownAt, Zenon DEF Falls
  <2>3. SameAt(p)
    <3> HIDE DEF p
    <3>1. p \in End \ {e}
      BY <1>0
    <3>2. /\ session'[p] = session[p] /\ state'[p] = state[p] /\ frames'[p] = frames[p]
          /\ inTable'[p] = inTable[p] /\ sendPc'[p] = sendPc[p]
          /\ adjusting'[p] = adjusting[p] /\ eofPc'[p] = eofPc[p]
          /\ closePc'[p] = closePc[p] /\ control'[p] = control[p]
          /\ outbound'[p] = outbound[p]
      BY <1>1, <3>1, ShutdownAt, Zenon
    <3> QED
      BY <2>1, <3>2, Zenon DEF SameAt
  <2> QED
    BY <1>1, <2>2, <2>3, Zenon
<1>2. env \in [use: Uses, refused: Nat]
  BY DEF Types
<1>3. Refuses => env'.use = env.use
  BY <1>2 DEF Refuses
<1>4. ASSUME NEW cause \in Causes \ {"up"}, Abort(e, cause)
      PROVE  /\ Shutdown(e, cause, "failed") /\ wire'[p] = wire[p]
             /\ wire'[e] = wire[e] \o LastWords(e, cause)
  BY <1>0, <1>4 DEF Abort, Set
<1>5. ASSUME NEW cause \in Causes \ {"up"}, Reject(e, cause), Up(e), wire[p] # <<>>
      PROVE  /\ Shutdown(e, cause, "failed") /\ Taken(e)
             /\ wire'[e] = wire[e] \o LastWords(e, cause)
             /\ UNCHANGED <<windowVars, historyVars>> /\ env' = env
  BY <1>0, <1>5 DEF Reject, Taken
<1>6. CASE SessionClose(e)
  <2>1. Up(e) /\ Abort(e, "local") /\ UNCHANGED <<windowVars, historyVars>> /\ env' = env
    BY <1>6 DEF SessionClose
  <2> QED
    BY <1>1, <1>4, <2>1, LastWordsOK DEF Causes
<1>7. CASE QueueRefused(e)
  <2>1. Up(e) /\ Abort(e, "budget") /\ UNCHANGED <<windowVars, historyVars>> /\ Refuses
    BY <1>7 DEF QueueRefused
  <2> QED
    BY <1>1, <1>3, <1>4, <2>1, LastWordsOK DEF Causes
<1>8. CASE ReceiveRefused(e) \/ EnqueueChannelCloseRefused(e)
  <2>1. /\ Up(e) /\ wire[p] # <<>> /\ Refuses /\ UNCHANGED <<windowVars, historyVars>>
        /\ Shutdown(e, "budget", "failed") \/ Shutdown(e, "budget", "closed")
        /\ wire' = [wire EXCEPT ![p] = Tail(@), ![e] = Append(@, Msg("hangup", 0))]
    BY <1>8 DEF ReceiveRefused, EnqueueChannelCloseRefused, Arrives
  <2>2. wire'[p] = Tail(wire[p]) /\ wire'[e] = Append(wire[e], Msg("hangup", 0))
    BY <1>0, <2>1
  <2>3. Append(wire[e], Msg("hangup", 0)) = wire[e] \o <<Msg("hangup", 0)>>
    BY <1>0, MsgFacts DEF Kinds
  <2>4. Taken(e) /\ LastInv(e, <<Msg("hangup", 0)>>)
    BY <2>1, <2>2, LastWordsOK DEF Taken
  <2> QED
    BY <1>1, <1>3, <2>1, <2>2, <2>3, <2>4 DEF Causes
<1>9. ASSUME NEW cause \in Causes \ {"up"}, Reject(e, cause), Up(e), wire[p] # <<>>
      PROVE  Goal
  <2>1. /\ Shutdown(e, cause, "failed") /\ Taken(e)
        /\ wire'[e] = wire[e] \o LastWords(e, cause)
        /\ UNCHANGED <<windowVars, historyVars>> /\ env' = env
    BY <1>5, <1>9
  <2>2. LastInv(e, LastWords(e, cause))
    BY LastWordsOK
  <2> QED
    BY <1>1, <1>9, <2>1, <2>2
<1>10. {"protocol", "disconnected", "peer closed"} \subseteq Causes \ {"up"}
  BY DEF Causes
<1>11. CASE ProtocolError(e)
  <2>1. Up(e) /\ wire[p] # <<>> /\ Reject(e, "protocol")
    BY <1>11 DEF ProtocolError, Arrives
  <2> QED
    BY <1>9, <1>10, <2>1
<1>12. CASE HandleDisconnect(e)
  <2>1. Up(e) /\ wire[p] # <<>> /\ Reject(e, "disconnected")
    BY <1>12 DEF HandleDisconnect, Arrives
  <2> QED
    BY <1>9, <1>10, <2>1
<1>13. CASE ReceiveHangup(e)
  <2>1. Up(e) /\ wire[p] # <<>> /\ Reject(e, "peer closed")
    BY <1>13 DEF ReceiveHangup, Arrives
  <2> QED
    BY <1>9, <1>10, <2>1
<1> QED
  BY <1>6, <1>7, <1>8, <1>11, <1>12, <1>13 DEF Ends

\* A call or a write of an endpoint leaves its peer alone.
LEMMA CallsKeep ==
  ASSUME Types, NEW e \in End, Calls(e)
  PROVE  SameAt(Peer(e)) /\ wire'[Peer(e)] = wire[Peer(e)] /\ env'.use = env.use
<1> DEFINE p == Peer(e)
<1>0. p \in End /\ p # e
  BY PeerFacts
<1> HIDE DEF p
<1> USE <1>0 DEF Types, SameAt, windowVars, callVars, queueVars, historyVars, Set
<1>1. Send(e) => SameAt(p) /\ wire'[p] = wire[p] /\ env'.use = env.use
  BY DEF Send
<1>2. SendQueue(e) => SameAt(p) /\ wire'[p] = wire[p] /\ env'.use = env.use
  BY DEF SendQueue
<1>3. SendRefused(e) => SameAt(p) /\ wire'[p] = wire[p] /\ env'.use = env.use
  BY DEF SendRefused, Refuses
<1>4. RecvFrame(e) => SameAt(p) /\ wire'[p] = wire[p] /\ env'.use = env.use
  BY DEF RecvFrame
<1>5. RecvAdjust(e) => SameAt(p) /\ wire'[p] = wire[p] /\ env'.use = env.use
  BY DEF RecvAdjust
<1>6. RecvEOF(e) => SameAt(p) /\ wire'[p] = wire[p] /\ env'.use = env.use
  BY DEF RecvEOF
<1>7. CloseWrite(e) => SameAt(p) /\ wire'[p] = wire[p] /\ env'.use = env.use
  BY DEF CloseWrite
<1>8. CloseWriteQueue(e) => SameAt(p) /\ wire'[p] = wire[p] /\ env'.use = env.use
  BY DEF CloseWriteQueue
<1>9. CloseWriteRefused(e) => SameAt(p) /\ wire'[p] = wire[p] /\ env'.use = env.use
  BY DEF CloseWriteRefused, Refuses
<1>10. Close(e) => SameAt(p) /\ wire'[p] = wire[p] /\ env'.use = env.use
  BY DEF Close
<1>11. CloseQueue(e) => SameAt(p) /\ wire'[p] = wire[p] /\ env'.use = env.use
  BY DEF CloseQueue
<1>12. CloseTimeout(e) => SameAt(p) /\ wire'[p] = wire[p] /\ env'.use = env.use
  BY DEF CloseTimeout
<1>13. WriteControl(e) => SameAt(p) /\ wire'[p] = wire[p] /\ env'.use = env.use
  BY DEF WriteControl
<1>14. WriteOutbound(e) => SameAt(p) /\ wire'[p] = wire[p] /\ env'.use = env.use
  BY DEF WriteOutbound
<1> QED
  BY <1>1, <1>2, <1>3, <1>4, <1>5, <1>6, <1>7, <1>8, <1>9, <1>10, <1>11, <1>12, <1>13, <1>14,
     Zenon DEF Calls, p

\* Handling an envelope takes it off the wire and leaves the peer alone.
LEMMA HandlesKeep ==
  ASSUME Types, NEW e \in End, Handles(e)
  PROVE  SameAt(Peer(e)) /\ Taken(e) /\ wire'[e] = wire[e] /\ env'.use = env.use
<1> DEFINE p == Peer(e)
<1>0. p \in End /\ p # e
  BY PeerFacts
<1>1. Up(e) /\ wire[p] # <<>> /\ Consume(e)
  BY Zenon DEF Handles, Arrives, HandleChannelData, HandleChannelWindowAdjust,
     EnqueueChannelEOF, EnqueueChannelClose, EnqueueChannelCloseAck
<1>2. wire'[p] = Tail(wire[p]) /\ wire'[e] = wire[e]
  BY <1>0, <1>1 DEF Consume, Types
<1>3. Taken(e)
  BY <1>1, <1>2 DEF Taken
<1> HIDE DEF p
<1> USE <1>0 DEF Types, SameAt, windowVars, callVars, queueVars, historyVars, Set
<1>4. HandleChannelData(e) => SameAt(p) /\ env'.use = env.use
  BY DEF HandleChannelData
<1>5. HandleChannelWindowAdjust(e) => SameAt(p) /\ env'.use = env.use
  BY DEF HandleChannelWindowAdjust
<1>6. EnqueueChannelEOF(e) => SameAt(p) /\ env'.use = env.use
  BY DEF EnqueueChannelEOF
<1>7. EnqueueChannelClose(e) => SameAt(p) /\ env'.use = env.use
  BY DEF EnqueueChannelClose
<1>8. EnqueueChannelCloseAck(e) => SameAt(p) /\ env'.use = env.use
  BY DEF EnqueueChannelCloseAck
<1> QED
  BY <1>2, <1>3, <1>4, <1>5, <1>6, <1>7, <1>8, Zenon DEF Handles, p

-----------------------------------------------------------------------------
(* Types.                                                                  *)

LEMMA AtTypes ==
  ASSUME Types, NEW e \in End
  PROVE  /\ state[e] \in States /\ inTable[e] \in BOOLEAN
         /\ remoteWindow[e] \in Nat /\ pending[e] \in 0..(Threshold - 1)
         /\ adjusting[e] \in 0..Threshold
         /\ frames[e] \in Seq(Nat) /\ read[e] \in Seq(Nat)
         /\ sendPc[e] \in {"idle", "reserved", "queued"}
         /\ eofPc[e] \in {"idle", "open", "remoteEOF"}
         /\ closePc[e] \in {"idle", "queue", "timer"}
         /\ control[e] \in Seq(Envelopes) /\ outbound[e] \in Seq(Envelopes)
         /\ wire[e] \in Seq(Envelopes)
         /\ polled[e] \in BOOLEAN /\ session[e] \in Causes
         /\ sent[e] \in Nat /\ promised[e] \in Nat
         /\ gotEOF[e] \in BOOLEAN /\ closedHere[e] \in BOOLEAN
BY Zenon DEF Types

LEMMA TypesEnds ==
  ASSUME Types, NEW e \in End, QueueInv(e), Ends(e)
  PROVE  Types'
<1> DEFINE p == Peer(e)
<1>0. p \in End /\ p # e /\ wire \in [End -> Seq(Envelopes)] /\ DOMAIN wire = End
  BY PeerFacts DEF Types
<1>1. \E cause, final, w : Falls(e, cause, final, w) /\ LastInv(e, w)
  BY EndsFalls, Zenon
<1>2. wire'[p] = wire[p] \/ Taken(e)
  BY EndsFalls, Zenon
<1>3. wire'[e] \in Seq(Envelopes)
  <2>1. PICK w \in Seq(Envelopes) : wire'[e] = wire[e] \o w
    BY <1>1, Zenon DEF Falls, LastInv
  <2>2. wire[e] \in Seq(Envelopes)
    BY <1>0
  <2> QED
    BY <2>1, <2>2, ConcatFacts
<1>4. wire'[p] \in Seq(Envelopes)
  <2>1. wire[p] \in Seq(Envelopes)
    BY <1>0
  <2> QED
    BY <1>2, <2>1, TailFacts, Zenon DEF Taken
<1>5. \E cause \in Causes, final \in {"failed", "closed"} : Shutdown(e, cause, final)
  BY DEF Ends, SessionClose, QueueRefused, ReceiveRefused, EnqueueChannelCloseRefused,
     ProtocolError, HandleDisconnect, ReceiveHangup, Abort, Reject, Causes
<1>6. UNCHANGED <<windowVars, historyVars>> /\ (Refuses \/ env' = env)
  BY Zenon DEF Ends, SessionClose, QueueRefused, ReceiveRefused, EnqueueChannelCloseRefused,
     ProtocolError, HandleDisconnect, ReceiveHangup, Reject
<1>7. \E v, z : wire' = [wire EXCEPT ![e] = v] \/ wire' = [wire EXCEPT ![p] = z, ![e] = v]
  BY Zenon DEF Ends, SessionClose, QueueRefused, ReceiveRefused, EnqueueChannelCloseRefused,
     ProtocolError, HandleDisconnect, ReceiveHangup, Abort, Reject, Set
<1>8. wire' \in [End -> Seq(Envelopes)]
  <2>1. DOMAIN wire' = End /\ wire' = [x \in End |-> wire'[x]]
    BY <1>0, <1>7
  <2> QED
    BY <1>3, <1>4, <2>1, PeerFacts
<1>9. env' \in [use: Uses, refused: Nat]
  <2>1. env \in [use: Uses, refused: Nat]
    BY DEF Types
  <2> QED
    BY <1>6, <2>1 DEF Refuses
<1>10. PICK cause \in Causes, final \in {"failed", "closed"} : Shutdown(e, cause, final)
  BY <1>5
<1>11. final \in States /\ 0 \in 0..Threshold
  BY PairAssumption DEF States
<1>12. /\ session' \in [End -> Causes] /\ state' \in [End -> States]
       /\ frames' \in [End -> Seq(Nat)]
       /\ inTable' \in [End -> BOOLEAN] /\ sendPc' \in [End -> {"idle", "reserved", "queued"}]
       /\ adjusting' \in [End -> 0..Threshold] /\ eofPc' \in [End -> {"idle", "open", "remoteEOF"}]
       /\ closePc' \in [End -> {"idle", "queue", "timer"}]
       /\ control' \in [End -> Seq(Envelopes)] /\ outbound' \in [End -> Seq(Envelopes)]
       /\ polled' \in [End -> BOOLEAN]
  BY <1>10, <1>11 DEF Shutdown, Set, Types
<1> QED
  BY <1>6, <1>8, <1>9, <1>12 DEF Types, windowVars, historyVars

LEMMA SetType ==
  ASSUME NEW S, NEW f \in [End -> S], NEW e \in End, NEW v \in S
  PROVE  [f EXCEPT ![e] = v] \in [End -> S] /\ Set(f, e, v) \in [End -> S]
BY DEF Set

LEMMA RefusesType ==
  ASSUME Types, Refuses
  PROVE  env' \in [use: Uses, refused: Nat]
<1>1. env \in [use: Uses, refused: Nat]
  BY DEF Types
<1> QED
  BY <1>1 DEF Refuses

LEMMA TypesActs ==
  ASSUME Types, NEW e \in End, QueueInv(e), Calls(e) \/ Handles(e)
  PROVE  Types'
<1> DEFINE p == Peer(e)
<1>0. /\ p \in End /\ Threshold \in Nat \ {0}
      /\ \A k \in Kinds, n \in Nat : Msg(k, n) \in Envelopes
  BY PeerFacts, MsgFacts, PairAssumption
<1>1. Handles(e) => wire' \in [End -> Seq(Envelopes)]
  <2>1. Handles(e) => wire[p] # <<>> /\ wire' = [wire EXCEPT ![p] = Tail(wire[p])]
    BY Zenon DEF Handles, Arrives, HandleChannelData, HandleChannelWindowAdjust,
       EnqueueChannelEOF, EnqueueChannelClose, EnqueueChannelCloseAck, Consume
  <2>2. wire \in [End -> Seq(Envelopes)] /\ wire[p] \in Seq(Envelopes)
    BY <1>0 DEF Types
  <2>3. wire[p] # <<>> => Tail(wire[p]) \in Seq(Envelopes)
    BY <2>2, TailFacts, Zenon
  <2> QED
    BY <1>0, <2>1, <2>2, <2>3, SetType, Zenon
<1>2. /\ wire[p] \in Seq(Envelopes) /\ (wire[p] # <<>> => Arrived(e) \in Envelopes)
      /\ control[e] # <<>> => Head(control[e]) \in Envelopes
      /\ outbound[e] # <<>> => Head(outbound[e]) \in Envelopes
  BY <1>0, AtTypes DEF Arrived
<1>3. \A m \in Envelopes : m.n \in Nat
  BY DEF Envelopes
<1>4. {"data", "adjust", "eof", "close"} \subseteq Kinds
  BY DEF Kinds
<1>5. ASSUME Send(e) PROVE Types'
  <2>1. /\ remoteWindow[e] - 1 \in Nat
        /\ "reserved" \in {"idle", "reserved", "queued"}
    BY <1>0, <1>2, <1>3, <1>4, <1>5, AtTypes DEF Send
  <2>2. /\ remoteWindow' = [remoteWindow EXCEPT ![e] = remoteWindow[e] - 1]
        /\ sendPc' = [sendPc EXCEPT ![e] = "reserved"]
    BY <1>5, Zenon DEF Send, Set
  <2>3. /\ remoteWindow' \in [End -> Nat]
        /\ sendPc' \in [End -> {"idle", "reserved", "queued"}]
    BY <2>1, <2>2, SetType, Zenon DEF Types
  <2>4. UNCHANGED <<state, inTable, pending, frames, adjusting, eofPc, closePc, control,
                    outbound, polled, wire, session, env, sent, promised, read, gotEOF,
                    closedHere>>
    BY <1>5 DEF Send, windowVars, callVars, queueVars, historyVars
  <2> QED
    BY <2>3, <2>4, Zenon DEF Types
<1>6. ASSUME SendQueue(e) PROVE Types'
  <2>1. /\ Append(outbound[e], Msg("data", sent[e] + 1)) \in Seq(Envelopes)
        /\ "queued" \in {"idle", "reserved", "queued"}
    BY <1>0, <1>2, <1>3, <1>4, <1>6, AtTypes
  <2>2. /\ outbound' = [outbound EXCEPT ![e] = Append(outbound[e], Msg("data", sent[e] + 1))]
        /\ sendPc' = [sendPc EXCEPT ![e] = "queued"]
    BY <1>6, Zenon DEF SendQueue, Set
  <2>3. /\ outbound' \in [End -> Seq(Envelopes)]
        /\ sendPc' \in [End -> {"idle", "reserved", "queued"}]
    BY <2>1, <2>2, SetType, Zenon DEF Types
  <2>4. UNCHANGED <<state, inTable, remoteWindow, pending, frames, adjusting, eofPc, closePc,
                    control, polled, wire, session, env, sent, promised, read, gotEOF,
                    closedHere>>
    BY <1>6 DEF SendQueue, windowVars, callVars, queueVars, historyVars
  <2> QED
    BY <2>3, <2>4, Zenon DEF Types
<1>7. ASSUME SendRefused(e) PROVE Types'
  <2>1. /\ remoteWindow[e] + 1 \in Nat
        /\ "idle" \in {"idle", "reserved", "queued"}
    BY <1>0, <1>2, <1>3, <1>4, <1>7, AtTypes
  <2>2. /\ remoteWindow' = [remoteWindow EXCEPT ![e] = remoteWindow[e] + 1]
        /\ sendPc' = [sendPc EXCEPT ![e] = "idle"]
    BY <1>7, Zenon DEF SendRefused, Set
  <2>3. /\ remoteWindow' \in [End -> Nat]
        /\ sendPc' \in [End -> {"idle", "reserved", "queued"}]
    BY <2>1, <2>2, SetType, Zenon DEF Types
  <2>4. UNCHANGED <<state, inTable, pending, frames, adjusting, eofPc, closePc, control,
                    outbound, polled, wire, session, sent, promised, read, gotEOF,
                    closedHere>>
    BY <1>7 DEF SendRefused, windowVars, callVars, queueVars, historyVars
  <2>5. env' \in [use: Uses, refused: Nat]
    BY <1>7, RefusesType, Zenon DEF SendRefused
  <2> QED
    BY <2>3, <2>4, <2>5, Zenon DEF Types
<1>8. ASSUME RecvFrame(e) PROVE Types'
  <2>1. /\ Tail(frames[e]) \in Seq(Nat)
        /\ Append(read[e], Head(frames[e])) \in Seq(Nat)
        /\ (IF pending[e] + 1 >= Threshold THEN 0 ELSE pending[e] + 1) \in 0..(Threshold - 1)
        /\ (IF pending[e] + 1 >= Threshold /\ Up(e) THEN pending[e] + 1 ELSE 0) \in 0..Threshold
    <3>1. /\ frames[e] \in Seq(Nat) /\ frames[e] # <<>> /\ read[e] \in Seq(Nat)
          /\ pending[e] \in 0..(Threshold - 1) /\ Threshold \in Nat \ {0}
      BY <1>0, <1>8, AtTypes, Zenon DEF RecvFrame
    <3>2. Head(frames[e]) \in Nat
      BY <3>1
    <3> QED
      BY <3>1, <3>2
  <2>2. /\ frames' = [frames EXCEPT ![e] = Tail(frames[e])]
        /\ read' = [read EXCEPT ![e] = Append(read[e], Head(frames[e]))]
        /\ pending' = [pending EXCEPT ![e] = IF pending[e] + 1 >= Threshold THEN 0 ELSE pending[e] + 1]
        /\ adjusting' = [adjusting EXCEPT ![e] = IF pending[e] + 1 >= Threshold /\ Up(e) THEN pending[e] + 1 ELSE 0]
    BY <1>8, Zenon DEF RecvFrame, Set
  <2>3. /\ frames' \in [End -> Seq(Nat)]
        /\ read' \in [End -> Seq(Nat)]
        /\ pending' \in [End -> 0..(Threshold - 1)]
        /\ adjusting' \in [End -> 0..Threshold]
    BY <2>1, <2>2, SetType, Zenon DEF Types
  <2>4. UNCHANGED <<state, inTable, remoteWindow, sendPc, eofPc, closePc, control, outbound,
                    polled, wire, session, env, sent, promised, gotEOF, closedHere>>
    BY <1>8 DEF RecvFrame, windowVars, callVars, queueVars, historyVars
  <2> QED
    BY <2>3, <2>4, Zenon DEF Types
<1>9. ASSUME RecvAdjust(e) PROVE Types'
  <2>1. /\ Append(outbound[e], Msg("adjust", adjusting[e])) \in Seq(Envelopes)
        /\ 0 \in 0..Threshold
    BY <1>0, <1>2, <1>3, <1>4, <1>9, AtTypes
  <2>2. /\ outbound' = [outbound EXCEPT ![e] = Append(outbound[e], Msg("adjust", adjusting[e]))]
        /\ adjusting' = [adjusting EXCEPT ![e] = 0]
    BY <1>9, Zenon DEF RecvAdjust, Set
  <2>3. /\ outbound' \in [End -> Seq(Envelopes)]
        /\ adjusting' \in [End -> 0..Threshold]
    BY <2>1, <2>2, SetType, Zenon DEF Types
  <2>4. UNCHANGED <<state, inTable, remoteWindow, pending, frames, sendPc, eofPc, closePc,
                    control, polled, wire, session, env, sent, promised, read, gotEOF,
                    closedHere>>
    BY <1>9 DEF RecvAdjust, windowVars, callVars, queueVars, historyVars
  <2> QED
    BY <2>3, <2>4, Zenon DEF Types
<1>10. ASSUME RecvEOF(e) PROVE Types'
  <2>1. /\ TRUE \in BOOLEAN
    BY <1>0, <1>2, <1>3, <1>4, <1>10, AtTypes
  <2>2. /\ gotEOF' = [gotEOF EXCEPT ![e] = TRUE]
    BY <1>10, Zenon DEF RecvEOF, Set
  <2>3. /\ gotEOF' \in [End -> BOOLEAN]
    BY <2>1, <2>2, SetType, Zenon DEF Types
  <2>4. UNCHANGED <<state, inTable, remoteWindow, pending, frames, sendPc, adjusting, eofPc,
                    closePc, control, outbound, polled, wire, session, env, sent, promised,
                    read, closedHere>>
    BY <1>10 DEF RecvEOF, windowVars, callVars, queueVars, historyVars
  <2> QED
    BY <2>3, <2>4, Zenon DEF Types
<1>11. ASSUME CloseWrite(e) PROVE Types'
  <2>1. /\ (IF state[e] = "open" THEN "localEOF" ELSE "bothEOF") \in States
        /\ state[e] \in {"idle", "open", "remoteEOF"}
        /\ sent[e] \in Nat
    BY <1>0, <1>2, <1>3, <1>4, <1>11, AtTypes DEF CloseWrite, States, canSendData
  <2>2. /\ state' = [state EXCEPT ![e] = IF state[e] = "open" THEN "localEOF" ELSE "bothEOF"]
        /\ eofPc' = [eofPc EXCEPT ![e] = state[e]]
        /\ promised' = [promised EXCEPT ![e] = sent[e]]
    BY <1>11, Zenon DEF CloseWrite, Set
  <2>3. /\ state' \in [End -> States]
        /\ eofPc' \in [End -> {"idle", "open", "remoteEOF"}]
        /\ promised' \in [End -> Nat]
    BY <2>1, <2>2, SetType, Zenon DEF Types
  <2>4. UNCHANGED <<inTable, remoteWindow, pending, frames, sendPc, adjusting, closePc,
                    control, outbound, polled, wire, session, env, sent, read, gotEOF,
                    closedHere>>
    BY <1>11 DEF CloseWrite, windowVars, callVars, queueVars, historyVars
  <2> QED
    BY <2>3, <2>4, Zenon DEF Types
<1>12. ASSUME CloseWriteQueue(e) PROVE Types'
  <2>1. /\ Append(outbound[e], Msg("eof", 0)) \in Seq(Envelopes)
        /\ "idle" \in {"idle", "open", "remoteEOF"}
    BY <1>0, <1>2, <1>3, <1>4, <1>12, AtTypes
  <2>2. /\ outbound' = [outbound EXCEPT ![e] = Append(outbound[e], Msg("eof", 0))]
        /\ eofPc' = [eofPc EXCEPT ![e] = "idle"]
    BY <1>12, Zenon DEF CloseWriteQueue, Set
  <2>3. /\ outbound' \in [End -> Seq(Envelopes)]
        /\ eofPc' \in [End -> {"idle", "open", "remoteEOF"}]
    BY <2>1, <2>2, SetType, Zenon DEF Types
  <2>4. UNCHANGED <<state, inTable, remoteWindow, pending, frames, sendPc, adjusting,
                    closePc, control, polled, wire, session, env, sent, promised, read,
                    gotEOF, closedHere>>
    BY <1>12 DEF CloseWriteQueue, windowVars, callVars, queueVars, historyVars
  <2> QED
    BY <2>3, <2>4, Zenon DEF Types
<1>13. ASSUME CloseWriteRefused(e) PROVE Types'
  <2>1. /\ (IF state[e] \in {"localEOF", "bothEOF"} THEN eofPc[e] ELSE state[e]) \in States
        /\ "idle" \in {"idle", "open", "remoteEOF"}
    BY <1>0, <1>2, <1>3, <1>4, <1>13, AtTypes DEF CloseWriteRefused, States, canSendData
  <2>2. /\ state' = [state EXCEPT ![e] = IF state[e] \in {"localEOF", "bothEOF"} THEN eofPc[e] ELSE state[e]]
        /\ eofPc' = [eofPc EXCEPT ![e] = "idle"]
    BY <1>13, Zenon DEF CloseWriteRefused, Set
  <2>3. /\ state' \in [End -> States]
        /\ eofPc' \in [End -> {"idle", "open", "remoteEOF"}]
    BY <2>1, <2>2, SetType, Zenon DEF Types
  <2>4. UNCHANGED <<inTable, remoteWindow, pending, frames, sendPc, adjusting, closePc,
                    control, outbound, polled, wire, session, sent, promised, read, gotEOF,
                    closedHere>>
    BY <1>13 DEF CloseWriteRefused, windowVars, callVars, queueVars, historyVars
  <2>5. env' \in [use: Uses, refused: Nat]
    BY <1>13, RefusesType, Zenon DEF CloseWriteRefused
  <2> QED
    BY <2>3, <2>4, <2>5, Zenon DEF Types
<1>14. ASSUME Close(e) PROVE Types'
  <2>1. /\ "closing" \in States
        /\ <<>> \in Seq(Nat)
        /\ "queue" \in {"idle", "queue", "timer"}
        /\ TRUE \in BOOLEAN
        /\ (IF state[e] \in canSendData THEN sent[e] ELSE promised[e]) \in Nat
    BY <1>0, <1>2, <1>3, <1>4, <1>14, AtTypes DEF States
  <2>2. /\ state' = [state EXCEPT ![e] = "closing"]
        /\ frames' = [frames EXCEPT ![e] = <<>>]
        /\ closePc' = [closePc EXCEPT ![e] = "queue"]
        /\ closedHere' = [closedHere EXCEPT ![e] = TRUE]
        /\ promised' = [promised EXCEPT ![e] = IF state[e] \in canSendData THEN sent[e] ELSE promised[e]]
    BY <1>14, Zenon DEF Close, Set
  <2>3. /\ state' \in [End -> States]
        /\ frames' \in [End -> Seq(Nat)]
        /\ closePc' \in [End -> {"idle", "queue", "timer"}]
        /\ closedHere' \in [End -> BOOLEAN]
        /\ promised' \in [End -> Nat]
    BY <2>1, <2>2, SetType, Zenon DEF Types
  <2>4. UNCHANGED <<inTable, remoteWindow, pending, sendPc, adjusting, eofPc, control,
                    outbound, polled, wire, session, env, sent, read, gotEOF>>
    BY <1>14 DEF Close, windowVars, callVars, queueVars, historyVars
  <2> QED
    BY <2>3, <2>4, Zenon DEF Types
<1>15. ASSUME CloseQueue(e) PROVE Types'
  <2>1. /\ Append(control[e], Msg("close", 0)) \in Seq(Envelopes)
        /\ "timer" \in {"idle", "queue", "timer"}
    BY <1>0, <1>2, <1>3, <1>4, <1>15, AtTypes
  <2>2. /\ control' = [control EXCEPT ![e] = Append(control[e], Msg("close", 0))]
        /\ closePc' = [closePc EXCEPT ![e] = "timer"]
    BY <1>15, Zenon DEF CloseQueue, Set
  <2>3. /\ control' \in [End -> Seq(Envelopes)]
        /\ closePc' \in [End -> {"idle", "queue", "timer"}]
    BY <2>1, <2>2, SetType, Zenon DEF Types
  <2>4. UNCHANGED <<state, inTable, remoteWindow, pending, frames, sendPc, adjusting, eofPc,
                    outbound, polled, wire, session, env, sent, promised, read, gotEOF,
                    closedHere>>
    BY <1>15 DEF CloseQueue, windowVars, callVars, queueVars, historyVars
  <2> QED
    BY <2>3, <2>4, Zenon DEF Types
<1>16. ASSUME CloseTimeout(e) PROVE Types'
  <2>1. /\ "idle" \in {"idle", "queue", "timer"}
        /\ "closed" \in States
        /\ FALSE \in BOOLEAN
    BY <1>0, <1>2, <1>3, <1>4, <1>16, AtTypes DEF States
  <2>2. /\ closePc' = [closePc EXCEPT ![e] = "idle"]
        /\ state' = [state EXCEPT ![e] = "closed"]
        /\ inTable' = [inTable EXCEPT ![e] = FALSE]
    BY <1>16, Zenon DEF CloseTimeout, Set
  <2>3. /\ closePc' \in [End -> {"idle", "queue", "timer"}]
        /\ state' \in [End -> States]
        /\ inTable' \in [End -> BOOLEAN]
    BY <2>1, <2>2, SetType, Zenon DEF Types
  <2>4. UNCHANGED <<remoteWindow, pending, frames, sendPc, adjusting, eofPc, control,
                    outbound, polled, wire, session, env, sent, promised, read, gotEOF,
                    closedHere>>
    BY <1>16 DEF CloseTimeout, windowVars, callVars, queueVars, historyVars
  <2> QED
    BY <2>3, <2>4, Zenon DEF Types
<1>17. ASSUME WriteControl(e) PROVE Types'
  <2>1. /\ Tail(control[e]) \in Seq(Envelopes)
        /\ (Len(control[e]) = 1) \in BOOLEAN
        /\ Append(wire[e], Head(control[e])) \in Seq(Envelopes)
    BY <1>0, <1>2, <1>3, <1>4, <1>17, AtTypes DEF WriteControl
  <2>2. /\ control' = [control EXCEPT ![e] = Tail(control[e])]
        /\ polled' = [polled EXCEPT ![e] = Len(control[e]) = 1]
        /\ wire' = [wire EXCEPT ![e] = Append(wire[e], Head(control[e]))]
    BY <1>17, Zenon DEF WriteControl, Set
  <2>3. /\ control' \in [End -> Seq(Envelopes)]
        /\ polled' \in [End -> BOOLEAN]
        /\ wire' \in [End -> Seq(Envelopes)]
    BY <2>1, <2>2, SetType, Zenon DEF Types
  <2>4. UNCHANGED <<state, inTable, remoteWindow, pending, frames, sendPc, adjusting, eofPc,
                    closePc, outbound, session, env, sent, promised, read, gotEOF,
                    closedHere>>
    BY <1>17 DEF WriteControl, windowVars, callVars, queueVars, historyVars
  <2> QED
    BY <2>3, <2>4, Zenon DEF Types
<1>18. ASSUME WriteOutbound(e) PROVE Types'
  <2>1. /\ Tail(outbound[e]) \in Seq(Envelopes)
        /\ (control[e] = <<>>) \in BOOLEAN
        /\ Append(wire[e], Head(outbound[e])) \in Seq(Envelopes)
        /\ (IF Head(outbound[e]).kind = "data" THEN "idle" ELSE sendPc[e]) \in {"idle", "reserved", "queued"}
        /\ (IF Head(outbound[e]).kind = "data" THEN Head(outbound[e]).n ELSE sent[e]) \in Nat
    BY <1>0, <1>2, <1>3, <1>4, <1>18, AtTypes DEF WriteOutbound
  <2>2. /\ outbound' = [outbound EXCEPT ![e] = Tail(outbound[e])]
        /\ polled' = [polled EXCEPT ![e] = control[e] = <<>>]
        /\ wire' = [wire EXCEPT ![e] = Append(wire[e], Head(outbound[e]))]
        /\ sendPc' = [sendPc EXCEPT ![e] = IF Head(outbound[e]).kind = "data" THEN "idle" ELSE sendPc[e]]
        /\ sent' = [sent EXCEPT ![e] = IF Head(outbound[e]).kind = "data" THEN Head(outbound[e]).n ELSE sent[e]]
    BY <1>18, Zenon DEF WriteOutbound, Set
  <2>3. /\ outbound' \in [End -> Seq(Envelopes)]
        /\ polled' \in [End -> BOOLEAN]
        /\ wire' \in [End -> Seq(Envelopes)]
        /\ sendPc' \in [End -> {"idle", "reserved", "queued"}]
        /\ sent' \in [End -> Nat]
    BY <2>1, <2>2, SetType, Zenon DEF Types
  <2>4. UNCHANGED <<state, inTable, remoteWindow, pending, frames, adjusting, eofPc, closePc,
                    control, session, env, promised, read, gotEOF, closedHere>>
    BY <1>18 DEF WriteOutbound, windowVars, callVars, queueVars, historyVars
  <2> QED
    BY <2>3, <2>4, Zenon DEF Types
<1>19. ASSUME HandleChannelData(e) PROVE Types'
  <2>1. /\ Append(frames[e], Arrived(e).n) \in Seq(Nat)
    BY <1>0, <1>2, <1>3, <1>4, <1>19, AtTypes DEF HandleChannelData, Arrives
  <2>2. /\ frames' = [frames EXCEPT ![e] = Append(frames[e], Arrived(e).n)]
    BY <1>19, Zenon DEF HandleChannelData, Set
  <2>3. /\ frames' \in [End -> Seq(Nat)]
    BY <2>1, <2>2, SetType, Zenon DEF Types
  <2>4. UNCHANGED <<state, inTable, remoteWindow, pending, sendPc, adjusting, eofPc, closePc,
                    control, outbound, polled, session, env, sent, promised, read, gotEOF,
                    closedHere>>
    BY <1>19 DEF HandleChannelData, windowVars, callVars, queueVars, historyVars
  <2>5. wire' \in [End -> Seq(Envelopes)]
    BY <1>1, <1>19, Zenon DEF Handles
  <2> QED
    BY <2>3, <2>4, <2>5, Zenon DEF Types
<1>20. ASSUME HandleChannelWindowAdjust(e) PROVE Types'
  <2>1. /\ remoteWindow[e] + Arrived(e).n \in Nat
    BY <1>0, <1>2, <1>3, <1>4, <1>20, AtTypes DEF HandleChannelWindowAdjust, Arrives
  <2>2. /\ remoteWindow' = [remoteWindow EXCEPT ![e] = remoteWindow[e] + Arrived(e).n]
    BY <1>20, Zenon DEF HandleChannelWindowAdjust, Set
  <2>3. /\ remoteWindow' \in [End -> Nat]
    BY <2>1, <2>2, SetType, Zenon DEF Types
  <2>4. UNCHANGED <<state, inTable, pending, frames, sendPc, adjusting, eofPc, closePc,
                    control, outbound, polled, session, env, sent, promised, read, gotEOF,
                    closedHere>>
    BY <1>20 DEF HandleChannelWindowAdjust, windowVars, callVars, queueVars, historyVars
  <2>5. wire' \in [End -> Seq(Envelopes)]
    BY <1>1, <1>20, Zenon DEF Handles
  <2> QED
    BY <2>3, <2>4, <2>5, Zenon DEF Types
<1>21. ASSUME EnqueueChannelEOF(e) PROVE Types'
  <2>1. /\ (IF state[e] = "open" THEN "remoteEOF" ELSE "bothEOF") \in States
    BY <1>0, <1>2, <1>3, <1>4, <1>21, AtTypes DEF States
  <2>2. /\ state' = [state EXCEPT ![e] = IF state[e] = "open" THEN "remoteEOF" ELSE "bothEOF"]
    BY <1>21, Zenon DEF EnqueueChannelEOF, Set
  <2>3. /\ state' \in [End -> States]
    BY <2>1, <2>2, SetType, Zenon DEF Types
  <2>4. UNCHANGED <<inTable, remoteWindow, pending, frames, sendPc, adjusting, eofPc,
                    closePc, control, outbound, polled, session, env, sent, promised, read,
                    gotEOF, closedHere>>
    BY <1>21 DEF EnqueueChannelEOF, windowVars, callVars, queueVars, historyVars
  <2>5. wire' \in [End -> Seq(Envelopes)]
    BY <1>1, <1>21, Zenon DEF Handles
  <2> QED
    BY <2>3, <2>4, <2>5, Zenon DEF Types
<1>22. ASSUME EnqueueChannelClose(e) PROVE Types'
  <2>1. /\ "closed" \in States
        /\ Append(control[e], Msg("close", 0)) \in Seq(Envelopes)
        /\ FALSE \in BOOLEAN
    BY <1>0, <1>2, <1>3, <1>4, <1>22, AtTypes DEF States
  <2>2. /\ state' = [state EXCEPT ![e] = "closed"]
        /\ control' = [control EXCEPT ![e] = Append(control[e], Msg("close", 0))]
        /\ inTable' = [inTable EXCEPT ![e] = FALSE]
    BY <1>22, Zenon DEF EnqueueChannelClose, Set
  <2>3. /\ state' \in [End -> States]
        /\ control' \in [End -> Seq(Envelopes)]
        /\ inTable' \in [End -> BOOLEAN]
    BY <2>1, <2>2, SetType, Zenon DEF Types
  <2>4. UNCHANGED <<remoteWindow, pending, frames, sendPc, adjusting, eofPc, closePc,
                    outbound, polled, session, env, sent, promised, read, gotEOF, closedHere>>
    BY <1>22 DEF EnqueueChannelClose, windowVars, callVars, queueVars, historyVars
  <2>5. wire' \in [End -> Seq(Envelopes)]
    BY <1>1, <1>22, Zenon DEF Handles
  <2> QED
    BY <2>3, <2>4, <2>5, Zenon DEF Types
<1>23. ASSUME EnqueueChannelCloseAck(e) PROVE Types'
  <2>1. /\ "closed" \in States
        /\ FALSE \in BOOLEAN
    BY <1>0, <1>2, <1>3, <1>4, <1>23, AtTypes DEF States
  <2>2. /\ state' = [state EXCEPT ![e] = "closed"]
        /\ inTable' = [inTable EXCEPT ![e] = FALSE]
    BY <1>23, Zenon DEF EnqueueChannelCloseAck, Set
  <2>3. /\ state' \in [End -> States]
        /\ inTable' \in [End -> BOOLEAN]
    BY <2>1, <2>2, SetType, Zenon DEF Types
  <2>4. UNCHANGED <<remoteWindow, pending, frames, sendPc, adjusting, eofPc, closePc,
                    control, outbound, polled, session, env, sent, promised, read, gotEOF,
                    closedHere>>
    BY <1>23 DEF EnqueueChannelCloseAck, windowVars, callVars, queueVars, historyVars
  <2>5. wire' \in [End -> Seq(Envelopes)]
    BY <1>1, <1>23, Zenon DEF Handles
  <2> QED
    BY <2>3, <2>4, <2>5, Zenon DEF Types
<1> QED
  BY <1>5, <1>6, <1>7, <1>8, <1>9, <1>10, <1>11, <1>12, <1>13, <1>14, <1>15, <1>16, <1>17,
     <1>18, <1>19, <1>20, <1>21, <1>22, <1>23, Zenon DEF Calls, Handles

LEMMA TypesKept ==
  ASSUME Types, NEW e \in End, QueueInv(e), Acts(e)
  PROVE  Types'
BY TypesEnds, TypesActs, Zenon DEF Acts

-----------------------------------------------------------------------------
(* Calls under way, and what was promised.                                 *)

LEMMA ActsCases ==
  ASSUME Types, NEW e \in End, QueueInv(e), Acts(e)
  PROVE  /\ SameAt(Peer(e)) /\ (wire'[Peer(e)] = wire[Peer(e)] \/ Taken(e))
         /\ env'.use = env.use
         /\ \/ \E cause, final, w : Falls(e, cause, final, w) /\ LastInv(e, w)
            \/ Calls(e) /\ wire'[Peer(e)] = wire[Peer(e)]
            \/ Handles(e) /\ wire'[e] = wire[e] /\ Taken(e)
BY EndsFalls, CallsKeep, HandlesKeep, Zenon DEF Acts

LEMMA CallInvKept ==
  ASSUME Types, NEW e \in End, Acts(e), QueueInv(e), \A x \in End : CallInv(x)
  PROVE  \A x \in End : CallInv(x)'
<1>1. CallInv(Peer(e))'
  <2>1. SameAt(Peer(e)) /\ CallInv(Peer(e))
    BY ActsCases, PeerFacts, Zenon
  <2> QED
    BY <2>1 DEF SameAt, CallInv
<1>2. CallInv(e)'
  <2>0. CallInv(e)
    OBVIOUS
  <2> USE DEF Types, Set, CallInv, canSendData, Over, windowVars, callVars, queueVars, historyVars
  <2>1. ASSUME NEW cause, NEW final, NEW w, Falls(e, cause, final, w) PROVE CallInv(e)'
    BY <2>0, <2>1 DEF Falls
  <2>2. ASSUME Calls(e) \/ Handles(e), UNCHANGED <<state, eofPc, closePc, closedHere>>
        PROVE  CallInv(e)'
    BY <2>0, <2>2
  <2>3. \/ Send(e) \/ SendQueue(e) \/ SendRefused(e) \/ RecvFrame(e) \/ RecvAdjust(e)
        \/ RecvEOF(e) \/ WriteControl(e) \/ WriteOutbound(e)
        \/ HandleChannelData(e) \/ HandleChannelWindowAdjust(e)
        => UNCHANGED <<state, eofPc, closePc, closedHere>>
    BY DEF Send, SendQueue, SendRefused, RecvFrame, RecvAdjust, RecvEOF, WriteControl,
       WriteOutbound, HandleChannelData, HandleChannelWindowAdjust
  <2>4. CloseWrite(e) => CallInv(e)'
    BY <2>0 DEF CloseWrite
  <2>5. CloseWriteQueue(e) \/ CloseWriteRefused(e) => CallInv(e)'
    BY <2>0 DEF CloseWriteQueue, CloseWriteRefused
  <2>6. Close(e) \/ CloseQueue(e) \/ CloseTimeout(e) => CallInv(e)'
    BY <2>0 DEF Close, CloseQueue, CloseTimeout
  <2>7. EnqueueChannelEOF(e) => CallInv(e)'
    BY <2>0 DEF EnqueueChannelEOF, Accepts, canReceiveData
  <2>8. EnqueueChannelClose(e) \/ EnqueueChannelCloseAck(e) => CallInv(e)'
    BY <2>0 DEF EnqueueChannelClose, EnqueueChannelCloseAck, Accepts, allowsRequests
  <2>9. CASE Calls(e) \/ Handles(e)
    BY <2>2, <2>3, <2>4, <2>5, <2>6, <2>7, <2>8, <2>9, Zenon DEF Calls, Handles
  <2> QED
    BY <2>1, <2>9, ActsCases, Zenon
<1> QED
  BY <1>1, <1>2, PeerFacts, Zenon

\* An endpoint that has ended its writing does not take it back.
LEMMA SealedStable ==
  ASSUME Types, NEW e \in End, Acts(e), QueueInv(e), CallInv(e), NEW x \in End, Sealed(x)
  PROVE  Sealed(x)' /\ promised'[x] = promised[x]
<1>1. CASE x = Peer(e)
  <2>1. SameAt(x)
    BY <1>1, ActsCases, Zenon
  <2> QED
    BY <2>1 DEF SameAt, Sealed
<1>2. CASE x = e
  <2> USE <1>2 DEF Types, Set, CallInv, Sealed, canSendData, Over,
         windowVars, callVars, queueVars, historyVars
  <2>1. ASSUME NEW cause, NEW final, NEW w, Falls(e, cause, final, w)
        PROVE  Sealed(x)' /\ promised'[x] = promised[x]
    BY <2>1 DEF Falls
  <2>2. ASSUME UNCHANGED <<state, eofPc, promised>>
        PROVE  Sealed(x)' /\ promised'[x] = promised[x]
    BY <2>2
  <2>3. \/ Send(e) \/ SendQueue(e) \/ SendRefused(e) \/ RecvFrame(e) \/ RecvAdjust(e)
        \/ RecvEOF(e) \/ WriteControl(e) \/ WriteOutbound(e) \/ CloseQueue(e)
        \/ HandleChannelData(e) \/ HandleChannelWindowAdjust(e)
        => UNCHANGED <<state, eofPc, promised>>
    BY DEF Send, SendQueue, SendRefused, RecvFrame, RecvAdjust, RecvEOF, WriteControl,
       WriteOutbound, CloseQueue, HandleChannelData, HandleChannelWindowAdjust
  <2>4. CloseWrite(e) => Sealed(x)' /\ promised'[x] = promised[x]
    BY DEF CloseWrite
  <2>5. CloseWriteQueue(e) \/ CloseWriteRefused(e) => Sealed(x)' /\ promised'[x] = promised[x]
    BY DEF CloseWriteQueue, CloseWriteRefused
  <2>6. Close(e) \/ CloseTimeout(e) => Sealed(x)' /\ promised'[x] = promised[x]
    BY DEF Close, CloseTimeout, allowsRequests
  <2>7. EnqueueChannelEOF(e) => Sealed(x)' /\ promised'[x] = promised[x]
    BY DEF EnqueueChannelEOF, Accepts, canReceiveData
  <2>8. EnqueueChannelClose(e) \/ EnqueueChannelCloseAck(e)
        => Sealed(x)' /\ promised'[x] = promised[x]
    BY DEF EnqueueChannelClose, EnqueueChannelCloseAck
  <2>9. ASSUME Calls(e) \/ Handles(e) PROVE Sealed(x)' /\ promised'[x] = promised[x]
    <3> HIDE DEF Sealed
    <3> QED
      BY <2>2, <2>3, <2>4, <2>5, <2>6, <2>7, <2>8, <2>9, Zenon DEF Calls, Handles
  <2> HIDE DEF Sealed
  <2> QED
    BY <2>1, <2>9, ActsCases, Zenon
<1> QED
  BY <1>1, <1>2, PeerFacts, Zenon

LEMMA OutboundHead ==
  ASSUME Types, NEW e \in End, QueueInv(e), outbound[e] # <<>>
  PROVE  /\ Head(outbound[e]) \in Envelopes /\ Head(outbound[e]).n \in Nat
         /\ Head(outbound[e]).kind \in {"data", "adjust", "eof"}
         /\ Head(outbound[e]).kind = "data" =>
               /\ sendPc[e] = "queued" /\ Head(outbound[e]).n = sent[e] + 1
               /\ ~Has(Tail(outbound[e]), "data")
         /\ Head(outbound[e]).n <= env.use.frames[e] + Threshold
<1>1. outbound[e] \in Seq(Envelopes)
  BY AtTypes
<1>2. Head(outbound[e]) = outbound[e][1] /\ 1 \in DOMAIN outbound[e]
  BY <1>1, TailFacts, Zenon
<1>3. outbound[e][1] \in Envelopes /\ outbound[e][1].n \in Nat
  BY <1>1, <1>2, EnvelopeFacts, Zenon
<1>4. /\ outbound[e][1].kind \in {"data", "adjust", "eof"}
      /\ outbound[e][1].kind = "data" => sendPc[e] = "queued" /\ outbound[e][1].n = sent[e] + 1
      /\ outbound[e][1].n <= env.use.frames[e] + Threshold
  BY <1>2, Zenon DEF QueueInv, OutboundOK, Bounded
<1>5. Head(outbound[e]).kind = "data" => ~Has(Tail(outbound[e]), "data")
  BY <1>1, NoneBehindTail, Zenon DEF QueueInv, OutboundOK
<1> QED
  BY <1>2, <1>3, <1>4, <1>5

LEMMA ControlHead ==
  ASSUME Types, NEW e \in End, QueueInv(e), control[e] # <<>>
  PROVE  /\ Head(control[e]) \in Envelopes /\ Head(control[e]).n \in Nat
         /\ Head(control[e]).kind = "close"
         /\ Head(control[e]).n <= env.use.frames[e] + Threshold
<1>1. control[e] \in Seq(Envelopes)
  BY AtTypes
<1>2. Head(control[e]) = control[e][1] /\ 1 \in DOMAIN control[e]
  BY <1>1, TailFacts, Zenon
<1>3. control[e][1] \in Envelopes /\ control[e][1].n \in Nat
  BY <1>1, <1>2, EnvelopeFacts, Zenon
<1>4. control[e][1].kind = "close" /\ control[e][1].n <= env.use.frames[e] + Threshold
  BY <1>2, Zenon DEF QueueInv, ControlOK, Bounded
<1> QED
  BY <1>2, <1>3, <1>4

LEMMA SentInvKept ==
  ASSUME Types, NEW e \in End, Acts(e), \A x \in End : QueueInv(x) /\ SentInv(x)
  PROVE  \A x \in End : SentInv(x)'
<1>0. QueueInv(e) /\ env'.use = env.use /\ Peer(e) \in End
  BY ActsCases, PeerFacts, Zenon
<1>1. SentInv(Peer(e))'
  <2>1. SameAt(Peer(e)) /\ SentInv(Peer(e))
    BY <1>0, ActsCases, Zenon
  <2> QED
    BY <1>0, <2>1 DEF SameAt, SentInv
<1>2. SentInv(e)'
  <2>0. /\ SentInv(e) /\ env.use.frames[e] \in Nat /\ sent[e] \in Nat /\ promised[e] \in Nat
        /\ sent \in [End -> Nat] /\ promised \in [End -> Nat]
        /\ sendPc \in [End -> {"idle", "reserved", "queued"}]
    BY UseFacts, AtTypes DEF Types
  <2> USE DEF Set, windowVars, callVars, queueVars, historyVars
  <2>1. ASSUME NEW cause, NEW final, NEW w, Falls(e, cause, final, w) PROVE SentInv(e)'
    BY <1>0, <2>0, <2>1 DEF Falls, SentInv
  <2>2. ASSUME UNCHANGED <<sendPc, sent, promised>> PROVE SentInv(e)'
    BY <1>0, <2>0, <2>2 DEF SentInv
  <2>3. \/ RecvFrame(e) \/ RecvAdjust(e) \/ RecvEOF(e) \/ CloseWriteQueue(e)
        \/ CloseWriteRefused(e) \/ CloseQueue(e) \/ CloseTimeout(e) \/ WriteControl(e)
        \/ Handles(e)
        => UNCHANGED <<sendPc, sent, promised>>
    BY DEF RecvFrame, RecvAdjust, RecvEOF, CloseWriteQueue, CloseWriteRefused, CloseQueue,
       CloseTimeout, WriteControl, Handles, HandleChannelData, HandleChannelWindowAdjust,
       EnqueueChannelEOF, EnqueueChannelClose, EnqueueChannelCloseAck
  <2>4. Send(e) => SentInv(e)'
    BY <1>0, <2>0 DEF Send, SentInv
  <2>5. SendQueue(e) \/ SendRefused(e) => SentInv(e)'
    BY <1>0, <2>0 DEF SendQueue, SendRefused, SentInv
  <2>6. CloseWrite(e) \/ Close(e) => SentInv(e)'
    BY <1>0, <2>0 DEF CloseWrite, Close, SentInv
  <2>7. WriteOutbound(e) => SentInv(e)'
    <3> SUFFICES ASSUME WriteOutbound(e) PROVE SentInv(e)'
      OBVIOUS
    <3> DEFINE m == Head(outbound[e])
    <3>2. m.kind = "data" => sendPc[e] = "queued" /\ m.n = sent[e] + 1
      BY <1>0, OutboundHead, Zenon DEF WriteOutbound
    <3>3. /\ sendPc'[e] = IF m.kind = "data" THEN "idle" ELSE sendPc[e]
          /\ sent'[e] = IF m.kind = "data" THEN m.n ELSE sent[e]
          /\ promised' = promised
      BY <2>0 DEF WriteOutbound
    <3> HIDE DEF m
    <3> QED
      BY <1>0, <2>0, <3>2, <3>3 DEF SentInv
  <2>8. CASE Calls(e) \/ Handles(e)
    BY <2>2, <2>3, <2>4, <2>5, <2>6, <2>7, <2>8, Zenon DEF Calls
  <2> QED
    BY <1>0, <2>1, <2>8, ActsCases, Zenon
<1> QED
  BY <1>1, <1>2, PeerFacts, Zenon

-----------------------------------------------------------------------------
(* The queues.                                                             *)

LEMMA BoundedAppend ==
  ASSUME NEW q \in Seq(Envelopes), NEW m \in Envelopes, NEW n, Bounded(q, n), m.n <= n
  PROVE  Bounded(Append(q, m), n)
<1>1. /\ \A i \in DOMAIN q : Append(q, m)[i] = q[i]
      /\ Append(q, m)[Len(q) + 1] = m
      /\ \A i \in DOMAIN Append(q, m) : i \in DOMAIN q \/ i = Len(q) + 1
  BY AppendFacts
<1> QED
  BY <1>1, Zenon DEF Bounded

LEMMA BoundedTail ==
  ASSUME NEW q \in Seq(Envelopes), q # <<>>, NEW n, Bounded(q, n)
  PROVE  Bounded(Tail(q), n)
<1>1. \A i \in DOMAIN Tail(q) : i + 1 \in DOMAIN q /\ Tail(q)[i] = q[i + 1]
  BY TailFacts, Zenon
<1> QED
  BY <1>1, Zenon DEF Bounded

LEMMA BoundedConcat ==
  ASSUME NEW q \in Seq(Envelopes), NEW t \in Seq(Envelopes), NEW n, Bounded(q, n), Bounded(t, n)
  PROVE  Bounded(q \o t, n)
<1>1. /\ \A i \in DOMAIN q : (q \o t)[i] = q[i]
      /\ \A i \in DOMAIN (q \o t) :
            i \in DOMAIN q \/ (i - Len(q) \in DOMAIN t /\ (q \o t)[i] = t[i - Len(q)])
  BY ConcatFacts
<1> QED
  BY <1>1, Zenon DEF Bounded

LEMMA ControlAppend ==
  ASSUME NEW q \in Seq(Envelopes), ControlOK(q)
  PROVE  ControlOK(Append(q, Msg("close", 0)))
<1>1. Msg("close", 0) \in Envelopes /\ Msg("close", 0).kind = "close"
  BY MsgFacts DEF Kinds
<1>2. /\ \A i \in DOMAIN q : Append(q, Msg("close", 0))[i] = q[i]
      /\ Append(q, Msg("close", 0))[Len(q) + 1] = Msg("close", 0)
      /\ \A i \in DOMAIN Append(q, Msg("close", 0)) : i \in DOMAIN q \/ i = Len(q) + 1
  BY <1>1, AppendFacts
<1> QED
  BY <1>1, <1>2, Zenon DEF ControlOK

LEMMA ControlTail ==
  ASSUME NEW q \in Seq(Envelopes), q # <<>>, ControlOK(q)
  PROVE  ControlOK(Tail(q))
<1>1. \A i \in DOMAIN Tail(q) : i + 1 \in DOMAIN q /\ Tail(q)[i] = q[i + 1]
  BY TailFacts, Zenon
<1> QED
  BY <1>1, Zenon DEF ControlOK

\* Without a Send under way that is queued there is no frame in the queue.
LEMMA OutboundNoData ==
  ASSUME NEW q, NEW pc, NEW n, OutboundOK(q, pc, n), pc # "queued" \/ ~Has(q, "data")
  PROVE  /\ ~Has(q, "data")
         /\ \A c, k : OutboundOK(q, c, k)
BY Zenon DEF OutboundOK, Has

LEMMA OutboundAppend ==
  ASSUME NEW q \in Seq(Envelopes), NEW m \in Envelopes, NEW pc, NEW n, OutboundOK(q, pc, n),
         m.kind \in {"data", "adjust", "eof"},
         m.kind = "data" => pc = "queued" /\ m.n = n + 1 /\ ~Has(q, "data")
  PROVE  OutboundOK(Append(q, m), pc, n)
<1> DEFINE r == Append(q, m)
<1>1. /\ \A i \in DOMAIN q : r[i] = q[i]
      /\ r[Len(q) + 1] = m
      /\ \A i \in DOMAIN r : i \in DOMAIN q \/ i = Len(q) + 1
  BY AppendFacts
<1>2. NoneBehind(r, "data", "data")
  BY NoneBehindAppend, Zenon DEF OutboundOK
<1> HIDE DEF r
<1>3. ASSUME NEW i \in DOMAIN r
      PROVE  /\ r[i].kind \in {"data", "adjust", "eof"}
             /\ r[i].kind = "data" => pc = "queued" /\ r[i].n = n + 1
  <2>1. CASE i \in DOMAIN q
    BY <1>1, <2>1, Zenon DEF OutboundOK
  <2>2. CASE i = Len(q) + 1
    BY <1>1, <2>2
  <2> QED
    BY <1>1, <2>1, <2>2
<1> QED
  BY <1>2, <1>3, Zenon DEF OutboundOK, r

LEMMA OutboundTail ==
  ASSUME NEW q \in Seq(Envelopes), q # <<>>, NEW pc, NEW n, OutboundOK(q, pc, n)
  PROVE  /\ OutboundOK(Tail(q), pc, n)
         /\ Head(q).kind = "data" => \A c, k : OutboundOK(Tail(q), c, k)
<1>1. \A i \in DOMAIN Tail(q) : i + 1 \in DOMAIN q /\ Tail(q)[i] = q[i + 1]
  BY TailFacts, Zenon
<1>2. NoneBehind(Tail(q), "data", "data") /\ (Head(q).kind = "data" => ~Has(Tail(q), "data"))
  BY NoneBehindTail, Zenon DEF OutboundOK
<1>3. OutboundOK(Tail(q), pc, n)
  BY <1>1, <1>2, Zenon DEF OutboundOK
<1> QED
  BY <1>2, <1>3, OutboundNoData, Zenon

LEMMA QueueInvKept ==
  ASSUME Types, NEW e \in End, Acts(e), \A x \in End : QueueInv(x) /\ SentInv(x)
  PROVE  \A x \in End : QueueInv(x)'
<1> DEFINE p == Peer(e)
           b(x) == env.use.frames[x] + Threshold
<1>0. QueueInv(e) /\ env'.use = env.use /\ p \in End
  BY ActsCases, PeerFacts, Zenon
<1>1. QueueInv(p)'
  <2>1. /\ SameAt(p) /\ QueueInv(p) /\ wire[p] \in Seq(Envelopes)
        /\ wire'[p] = wire[p] \/ (wire[p] # <<>> /\ wire'[p] = Tail(wire[p]))
    BY <1>0, ActsCases, AtTypes, Zenon DEF Taken
  <2>2. Bounded(wire[p], b(p))
    BY <2>1 DEF QueueInv
  <2>3. Bounded(wire'[p], b(p))
    BY <2>1, <2>2, BoundedTail
  <2>4. /\ ControlOK(control'[p]) /\ OutboundOK(outbound'[p], sendPc'[p], sent'[p])
        /\ Bounded(control'[p], b(p)) /\ Bounded(outbound'[p], b(p))
    BY <2>1 DEF SameAt, QueueInv
  <2> QED
    BY <1>0, <2>3, <2>4 DEF QueueInv
<1>2. QueueInv(e)'
  <2>0. /\ ControlOK(control[e]) /\ OutboundOK(outbound[e], sendPc[e], sent[e])
        /\ Bounded(control[e], b(e)) /\ Bounded(outbound[e], b(e)) /\ Bounded(wire[e], b(e))
    BY <1>0 DEF QueueInv
  <2>1. /\ control[e] \in Seq(Envelopes) /\ outbound[e] \in Seq(Envelopes)
        /\ wire[e] \in Seq(Envelopes) /\ sent[e] \in Nat /\ adjusting[e] \in 0..Threshold
        /\ sendPc[e] \in {"idle", "reserved", "queued"}
    BY AtTypes, Zenon
  <2>2. env.use.frames[e] \in Nat /\ Threshold \in Nat /\ b(e) \in Nat /\ 0 <= b(e)
    <3>1. env.use.frames[e] \in Nat /\ Threshold \in Nat
      BY UseFacts, Zenon
    <3> QED
      BY <3>1
  <2>3. ASSUME ControlOK(control'[e]), OutboundOK(outbound'[e], sendPc'[e], sent'[e]),
               Bounded(control'[e], b(e)), Bounded(outbound'[e], b(e)), Bounded(wire'[e], b(e))
        PROVE  QueueInv(e)'
    BY <1>0, <2>3 DEF QueueInv
  <2> HIDE DEF b
  <2>4. ASSUME NEW cause, NEW final, NEW w, Falls(e, cause, final, w), LastInv(e, w)
        PROVE  QueueInv(e)'
    <3>1. control'[e] = <<>> /\ outbound'[e] = <<>> /\ wire'[e] = wire[e] \o w
      BY <2>4, Zenon DEF Falls
    <3>2. Bounded(wire'[e], b(e))
      BY <2>0, <2>1, <2>4, <3>1, BoundedConcat, Zenon DEF LastInv, b
    <3>3. ControlOK(<<>>) /\ OutboundOK(<<>>, sendPc'[e], sent'[e]) /\ Bounded(<<>>, b(e))
      BY DEF ControlOK, OutboundOK, NoneBehind, Bounded
    <3> QED
      BY <2>3, <3>1, <3>2, <3>3
  <2>5. ASSUME UNCHANGED <<control, outbound, wire, sendPc, sent>>
        PROVE  QueueInv(e)'
    BY <2>0, <2>3, <2>5
  <2>6. \/ RecvFrame(e) \/ RecvEOF(e) \/ CloseWrite(e) \/ CloseWriteRefused(e) \/ Close(e)
        \/ CloseTimeout(e)
        => UNCHANGED <<control, outbound, wire, sendPc, sent>>
    BY DEF RecvFrame, RecvEOF, CloseWrite, CloseWriteRefused, Close, CloseTimeout,
       callVars, queueVars, historyVars
  <2>7. Send(e) \/ SendRefused(e) => QueueInv(e)'
    <3> SUFFICES ASSUME Send(e) \/ SendRefused(e) PROVE QueueInv(e)'
      OBVIOUS
    <3>1. sendPc[e] # "queued" /\ UNCHANGED <<control, outbound, wire>>
      BY DEF Send, SendRefused, queueVars
    <3>2. OutboundOK(outbound'[e], sendPc'[e], sent'[e])
      BY <2>0, <3>1, OutboundNoData, Zenon
    <3> QED
      BY <2>0, <2>3, <3>1, <3>2
  <2>8. SendQueue(e) => QueueInv(e)'
    <3> DEFINE m == Msg("data", sent[e] + 1)
    <3> SUFFICES ASSUME SendQueue(e) PROVE QueueInv(e)'
      OBVIOUS
    <3>1. /\ sendPc[e] = "reserved" /\ sendPc'[e] = "queued" /\ UNCHANGED <<control, wire,
                                                                            sent>>
          /\ outbound'[e] = Append(outbound[e], m)
      BY DEF SendQueue, Types, Set, queueVars, historyVars
    <3>2. m \in Envelopes /\ m.kind = "data" /\ m.n = sent[e] + 1
      BY <2>1, MsgFacts DEF Kinds
    <3>3. m.n <= b(e)
      <4>1. SentInv(e)
        OBVIOUS
      <4> QED
        BY <2>1, <2>2, <3>1, <3>2, <4>1 DEF SentInv, b
    <3> HIDE DEF m
    <3>4. ~Has(outbound[e], "data") /\ OutboundOK(outbound[e], "queued", sent[e])
      BY <2>0, <3>1, OutboundNoData
    <3>5. OutboundOK(outbound'[e], sendPc'[e], sent'[e]) /\ Bounded(outbound'[e], b(e))
      BY <2>0, <2>1, <3>1, <3>2, <3>3, <3>4, OutboundAppend, BoundedAppend
    <3> QED
      BY <2>0, <2>3, <3>1, <3>5
  <2>9. RecvAdjust(e) \/ CloseWriteQueue(e) => QueueInv(e)'
    <3> SUFFICES ASSUME RecvAdjust(e) \/ CloseWriteQueue(e) PROVE QueueInv(e)'
      OBVIOUS
    <3>1. UNCHANGED <<control, wire, sent, sendPc>>
      BY DEF RecvAdjust, CloseWriteQueue, queueVars, historyVars
    <3>2. PICK k \in {"adjust", "eof"}, n \in 0..Threshold :
             outbound'[e] = Append(outbound[e], Msg(k, n))
      <4>1. RecvAdjust(e) => outbound'[e] = Append(outbound[e], Msg("adjust", adjusting[e]))
        BY DEF RecvAdjust, Types
      <4>2. CloseWriteQueue(e) => outbound'[e] = Append(outbound[e], Msg("eof", 0))
        BY DEF CloseWriteQueue, Types
      <4> QED
        BY <2>1, <2>2, <4>1, <4>2
    <3> DEFINE m == Msg(k, n)
    <3>3. m \in Envelopes /\ m.kind = k /\ m.n = n
      BY <2>2, <3>2, MsgFacts DEF Kinds
    <3>4. m.n <= b(e)
      BY <2>2, <3>2, <3>3 DEF b
    <3> HIDE DEF m
    <3>5. OutboundOK(outbound'[e], sendPc'[e], sent'[e]) /\ Bounded(outbound'[e], b(e))
      <4>1. m.kind \in {"data", "adjust", "eof"} /\ m.kind # "data"
        BY <3>2, <3>3
      <4>2. outbound'[e] = Append(outbound[e], m)
        BY <3>2 DEF m
      <4> QED
        BY <2>0, <2>1, <3>1, <3>3, <3>4, <4>1, <4>2, OutboundAppend, BoundedAppend
    <3> QED
      BY <2>0, <2>3, <3>1, <3>5
  <2>10. ASSUME control'[e] = Append(control[e], Msg("close", 0)), outbound'[e] = outbound[e],
                wire'[e] = wire[e], sendPc'[e] = sendPc[e], sent'[e] = sent[e]
         PROVE  QueueInv(e)'
    <3>1. Msg("close", 0) \in Envelopes /\ Msg("close", 0).n <= b(e)
      BY <2>2, MsgFacts DEF Kinds
    <3>2. ControlOK(control'[e]) /\ Bounded(control'[e], b(e))
      BY <2>0, <2>1, <2>10, <3>1, ControlAppend, BoundedAppend
    <3> QED
      BY <2>0, <2>3, <2>10, <3>2
  <2>11. CloseQueue(e) => QueueInv(e)'
    <3>1. CloseQueue(e) => /\ control'[e] = Append(control[e], Msg("close", 0))
                           /\ UNCHANGED <<outbound, wire, sendPc, sent>>
      BY DEF CloseQueue, Types, historyVars
    <3> QED
      BY <2>10, <3>1
  <2>12. WriteControl(e) => QueueInv(e)'
    <3> SUFFICES ASSUME WriteControl(e) PROVE QueueInv(e)'
      OBVIOUS
    <3>1. /\ control[e] # <<>> /\ control'[e] = Tail(control[e])
          /\ wire'[e] = Append(wire[e], Head(control[e])) /\ UNCHANGED <<outbound, sendPc,
                                                                         sent>>
      BY DEF WriteControl, Types, callVars, historyVars
    <3>2. Head(control[e]) \in Envelopes /\ Head(control[e]).n <= b(e)
      BY <1>0, <3>1, ControlHead, Zenon DEF b
    <3>3. /\ ControlOK(control'[e]) /\ Bounded(control'[e], b(e)) /\ Bounded(wire'[e], b(e))
      BY <2>0, <2>1, <3>1, <3>2, ControlTail, BoundedTail, BoundedAppend
    <3> QED
      BY <2>0, <2>3, <3>1, <3>3
  <2>13. WriteOutbound(e) => QueueInv(e)'
    <3> DEFINE m == Head(outbound[e])
    <3> SUFFICES ASSUME WriteOutbound(e) PROVE QueueInv(e)'
      OBVIOUS
    <3>1. /\ outbound[e] # <<>> /\ outbound'[e] = Tail(outbound[e])
          /\ wire'[e] = Append(wire[e], m) /\ UNCHANGED control
          /\ m.kind # "data" => sendPc'[e] = sendPc[e] /\ sent'[e] = sent[e]
      BY DEF WriteOutbound, Types, Set
    <3>2. m \in Envelopes /\ m.n <= b(e)
      BY <1>0, <3>1, OutboundHead, Zenon DEF b
    <3>3. Bounded(outbound'[e], b(e)) /\ Bounded(wire'[e], b(e))
      BY <2>0, <2>1, <3>1, <3>2, BoundedTail, BoundedAppend
    <3>4. OutboundOK(outbound'[e], sendPc'[e], sent'[e])
      BY <2>0, <2>1, <3>1, OutboundTail
    <3> QED
      BY <2>0, <2>3, <3>1, <3>3, <3>4
  <2>14. EnqueueChannelClose(e) => QueueInv(e)'
    <3>1. EnqueueChannelClose(e) => /\ control'[e] = Append(control[e], Msg("close", 0))
                                    /\ UNCHANGED <<outbound, sendPc, sent>>
      BY DEF EnqueueChannelClose, Types, callVars, historyVars
    <3>2. EnqueueChannelClose(e) => wire'[e] = wire[e]
      BY HandlesKeep, Zenon DEF Handles
    <3> QED
      BY <2>10, <3>1, <3>2
  <2>15. Handles(e) /\ ~EnqueueChannelClose(e) => QueueInv(e)'
    <3>1. Handles(e) /\ ~EnqueueChannelClose(e) => UNCHANGED <<control, outbound, sendPc, sent>>
      BY DEF Handles, HandleChannelData, HandleChannelWindowAdjust, EnqueueChannelEOF,
         EnqueueChannelCloseAck, callVars, queueVars, historyVars
    <3>2. Handles(e) => wire'[e] = wire[e]
      BY HandlesKeep, Zenon
    <3> QED
      BY <2>0, <2>3, <3>1, <3>2
  <2>16. CASE Calls(e)
    BY <2>5, <2>6, <2>7, <2>8, <2>9, <2>11, <2>12, <2>13, <2>16, Zenon DEF Calls
  <2> QED
    BY <1>0, <2>4, <2>14, <2>15, <2>16, ActsCases, Zenon
<1> QED
  BY <1>1, <1>2, PeerFacts, Zenon

-----------------------------------------------------------------------------
(* The frames of each direction.                                           *)

\* What a step of e adds to its wire.
Writes(e, m) ==
    /\ m \in Envelopes /\ wire'[e] = Append(wire[e], m)
    /\ m.kind \in {"data", "adjust", "eof", "close"}
    /\ IF m.kind = "data" THEN m.n = sent[e] + 1 /\ sent'[e] = sent[e] + 1
                          ELSE sent'[e] = sent[e]

LEMMA WireCases ==
  ASSUME Types, NEW e \in End, Acts(e), QueueInv(e)
  PROVE  \/ wire'[e] = wire[e] /\ sent'[e] = sent[e]
         \/ \E m : Writes(e, m)
         \/ \E w : LastInv(e, w) /\ wire'[e] = wire[e] \o w /\ sent'[e] = sent[e]
<1>1. ASSUME NEW cause, NEW final, NEW w, Falls(e, cause, final, w)
      PROVE  wire'[e] = wire[e] \o w /\ sent'[e] = sent[e]
  BY <1>1, Zenon DEF Falls
<1>2. \/ Send(e) \/ SendQueue(e) \/ SendRefused(e) \/ RecvFrame(e) \/ RecvAdjust(e) \/ RecvEOF(e)
      \/ CloseWrite(e) \/ CloseWriteQueue(e) \/ CloseWriteRefused(e)
      \/ Close(e) \/ CloseQueue(e) \/ CloseTimeout(e)
      => UNCHANGED <<wire, sent>>
  BY DEF Send, SendQueue, SendRefused, RecvFrame, RecvAdjust, RecvEOF, CloseWrite,
     CloseWriteQueue, CloseWriteRefused, Close, CloseQueue, CloseTimeout, historyVars
<1>3. WriteControl(e) => Writes(e, Head(control[e]))
  <2> SUFFICES ASSUME WriteControl(e) PROVE Writes(e, Head(control[e]))
    OBVIOUS
  <2>1. control[e] # <<>> /\ wire'[e] = Append(wire[e], Head(control[e])) /\ UNCHANGED sent
    BY DEF WriteControl, Types, historyVars
  <2>2. Head(control[e]) \in Envelopes /\ Head(control[e]).kind = "close"
    BY <2>1, ControlHead, Zenon
  <2> QED
    BY <2>1, <2>2 DEF Writes
<1>4. WriteOutbound(e) => Writes(e, Head(outbound[e]))
  <2> SUFFICES ASSUME WriteOutbound(e) PROVE Writes(e, Head(outbound[e]))
    OBVIOUS
  <2>1. /\ outbound[e] # <<>> /\ wire'[e] = Append(wire[e], Head(outbound[e]))
        /\ sent'[e] = IF Head(outbound[e]).kind = "data" THEN Head(outbound[e]).n ELSE sent[e]
    BY DEF WriteOutbound, Types, Set
  <2>2. /\ Head(outbound[e]) \in Envelopes
        /\ Head(outbound[e]).kind \in {"data", "adjust", "eof"}
        /\ Head(outbound[e]).kind = "data" => Head(outbound[e]).n = sent[e] + 1
    BY <2>1, OutboundHead, Zenon
  <2> QED
    BY <2>1, <2>2 DEF Writes
<1>5. Handles(e) => UNCHANGED sent
  BY DEF Handles, HandleChannelData, HandleChannelWindowAdjust, EnqueueChannelEOF,
     EnqueueChannelClose, EnqueueChannelCloseAck, historyVars
<1>6. CASE Calls(e)
  BY <1>2, <1>3, <1>4, <1>6, Zenon DEF Calls
<1>7. CASE Handles(e)
  BY <1>5, <1>7, HandlesKeep, Zenon
<1> QED
  BY <1>1, <1>6, <1>7, ActsCases, Zenon

LEMMA SentGrows ==
  ASSUME Types, NEW e \in End, Acts(e), QueueInv(e)
  PROVE  sent[e] <= sent'[e]
<1>1. sent[e] \in Nat
  BY AtTypes
<1>2. sent'[e] = sent[e] \/ sent'[e] = sent[e] + 1
  BY WireCases, Zenon DEF Writes
<1> QED
  BY <1>1, <1>2

LEMMA SumFacts ==
  ASSUME NEW x \in Nat, NEW y \in Nat
  PROVE  x + y \in Nat /\ (x + 1) + (y - 1) = x + y /\ x + (y + 1) = (x + y) + 1
OBVIOUS

LEMMA DeliveredNat ==
  ASSUME Types, NEW e \in End
  PROVE  /\ Len(read[e]) \in Nat /\ Len(frames[e]) \in Nat /\ Delivered(e) \in Nat
<1>1. read[e] \in Seq(Nat) /\ frames[e] \in Seq(Nat)
  BY AtTypes, Zenon
<1>2. Len(read[e]) \in Nat /\ Len(frames[e]) \in Nat
  BY <1>1
<1> QED
  BY <1>2, SumFacts, Zenon DEF Delivered

\* The next frame moves from the queue to the reader.
LEMMA NumberedNext ==
  ASSUME NEW r \in Seq(Nat), NEW f \in Seq(Nat), NEW n \in Nat, Numbered(r, f, n), f # <<>>
  PROVE  /\ Numbered(Append(r, Head(f)), Tail(f), n)
         /\ Len(Append(r, Head(f))) = Len(r) + 1 /\ Len(Tail(f)) = Len(f) - 1
<1>1. Head(f) = Len(r) + 1 /\ Head(f) \in Nat /\ Len(f) > 0
  BY DEF Numbered
<1> DEFINE h == Head(f)
<1> HIDE DEF h
<1>2. h = Len(r) + 1 /\ h \in Nat
  BY <1>1 DEF h
<1>3. Len(Append(r, h)) = Len(r) + 1 /\ \A i \in 1..(Len(r) + 1) : Append(r, h)[i] = i
  BY <1>2 DEF Numbered
<1>4. Len(Tail(f)) = Len(f) - 1 /\ \A i \in 1..(Len(f) - 1) : Tail(f)[i] = Len(r) + 1 + i
  BY <1>1 DEF Numbered
<1> QED
  BY <1>1, <1>3, <1>4 DEF Numbered, h

LEMMA NumberedAppend ==
  ASSUME NEW r \in Seq(Nat), NEW f \in Seq(Nat), NEW n \in Nat, Numbered(r, f, n),
         Len(r) + Len(f) < n, NEW k, k = Len(r) + Len(f) + 1
  PROVE  Numbered(r, Append(f, k), n) /\ Len(Append(f, k)) = Len(f) + 1
<1>1. k \in Nat
  OBVIOUS
<1>2. Len(Append(f, k)) = Len(f) + 1 /\ \A i \in 1..(Len(f) + 1) : Append(f, k)[i] = Len(r) + i
  BY <1>1 DEF Numbered
<1> QED
  BY <1>2 DEF Numbered

LEMMA NumberedLess ==
  ASSUME NEW r \in Seq(Nat), NEW f \in Seq(Nat), NEW n \in Nat, NEW k \in Nat, n <= k,
         Numbered(r, f, n)
  PROVE  Numbered(r, f, k) /\ Numbered(r, <<>>, k)
BY DEF Numbered

\* A frame that arrives is the next one.
LEMMA DataArrives ==
  ASSUME Types, NEW e \in End, HandleChannelData(e), CallInv(e), DataInv(e)
  PROVE  /\ Arrived(e).n = Delivered(e) + 1 /\ Delivered(e) < sent[Peer(e)]
         /\ Carried(Tail(wire[Peer(e)]), Delivered(e) + 1, sent[Peer(e)])
<1>1. Up(e) /\ ~closedHere[e]
  BY AtTypes DEF HandleChannelData, Arrives, Accepts, canReceiveData, CallInv, Over
<1>2. Carried(wire[Peer(e)], Delivered(e), sent[Peer(e)])
  BY <1>1 DEF DataInv
<1>3. /\ wire[Peer(e)] \in Seq(Envelopes) /\ sent[Peer(e)] \in Nat
      /\ Delivered(e) \in Nat
  BY PeerFacts, AtTypes, DeliveredNat, Zenon
<1>4. wire[Peer(e)] # <<>> /\ Head(wire[Peer(e)]).kind = "data"
  BY Zenon DEF HandleChannelData, Arrives
<1> QED
  BY <1>2, <1>3, <1>4, CarriedTail, Zenon DEF Arrived

LEMMA ReadInvKept ==
  ASSUME Types, NEW e \in End, Acts(e),
         \A x \in End : QueueInv(x) /\ CallInv(x) /\ ReadInv(x) /\ DataInv(x)
  PROVE  \A x \in End : ReadInv(x)'
<1> DEFINE p == Peer(e)
<1>0. /\ QueueInv(e) /\ ReadInv(e) /\ p \in End /\ ReadInv(p) /\ Peer(p) = e /\ SameAt(p)
      /\ CallInv(e) /\ DataInv(e)
  BY ActsCases, PeerFacts, Zenon
<1>1. /\ frames[e] \in Seq(Nat) /\ read[e] \in Seq(Nat) /\ sent[p] \in Nat /\ sent[e] \in Nat
      /\ frames[p] \in Seq(Nat) /\ read[p] \in Seq(Nat)
  BY <1>0, AtTypes, Zenon
<1>2. ReadInv(p)'
  <2>1. sent[e] <= sent'[e] /\ sent'[e] \in Nat
    BY <1>0, SentGrows, TypesKept DEF Types
  <2>2. read'[p] = read[p] /\ frames'[p] = frames[p]
    BY <1>0, Zenon DEF SameAt
  <2>3. Numbered(read[p], frames[p], sent[e])
    BY <1>0 DEF ReadInv
  <2>4. Numbered(read[p], frames[p], sent'[e])
    BY <1>1, <2>1, <2>3, NumberedLess
  <2> QED
    BY <1>0, <2>2, <2>4 DEF ReadInv
<1>3. ReadInv(e)'
  <2>0. sent'[p] = sent[p] /\ Numbered(read[e], frames[e], sent[p])
    BY <1>0, Zenon DEF SameAt, ReadInv
  <2>1. ASSUME read'[e] = read[e], frames'[e] = frames[e] \/ frames'[e] = <<>>
        PROVE  ReadInv(e)'
    <3>1. Numbered(read[e], <<>>, sent[p])
      BY <1>1, <2>0, NumberedLess
    <3> QED
      BY <2>0, <2>1, <3>1 DEF ReadInv
  <2>2. ASSUME NEW cause, NEW final, NEW w, Falls(e, cause, final, w) PROVE ReadInv(e)'
    BY <2>1, <2>2, Zenon DEF Falls
  <2>3. RecvFrame(e) => ReadInv(e)'
    <3> SUFFICES ASSUME RecvFrame(e) PROVE ReadInv(e)'
      OBVIOUS
    <3>1. /\ frames[e] # <<>> /\ frames'[e] = Tail(frames[e])
          /\ read'[e] = Append(read[e], Head(frames[e]))
      BY DEF RecvFrame, Types
    <3> QED
      BY <1>1, <2>0, <3>1, NumberedNext DEF ReadInv
  <2>4. HandleChannelData(e) => ReadInv(e)'
    <3> SUFFICES ASSUME HandleChannelData(e) PROVE ReadInv(e)'
      OBVIOUS
    <3>1. /\ frames'[e] = Append(frames[e], Arrived(e).n) /\ read'[e] = read[e]
      BY DEF HandleChannelData, Types, historyVars
    <3>2. Arrived(e).n = Delivered(e) + 1 /\ Delivered(e) < sent[p]
      BY <1>0, DataArrives, Zenon
    <3>3. Numbered(read[e], Append(frames[e], Arrived(e).n), sent[p])
      BY <1>1, <2>0, <3>2, NumberedAppend DEF Delivered
    <3> QED
      BY <2>0, <3>1, <3>3 DEF ReadInv
  <2>5. Close(e) => ReadInv(e)'
    <3>1. Close(e) => frames'[e] = <<>> /\ read'[e] = read[e]
      BY DEF Close, Types, Set
    <3> QED
      BY <2>1, <3>1
  <2>6. \/ Send(e) \/ SendQueue(e) \/ SendRefused(e) \/ RecvAdjust(e) \/ RecvEOF(e)
        \/ CloseWrite(e) \/ CloseWriteQueue(e) \/ CloseWriteRefused(e)
        \/ CloseQueue(e) \/ CloseTimeout(e) \/ WriteControl(e) \/ WriteOutbound(e)
        \/ HandleChannelWindowAdjust(e) \/ EnqueueChannelEOF(e)
        \/ EnqueueChannelClose(e) \/ EnqueueChannelCloseAck(e)
        => UNCHANGED <<read, frames>>
    BY DEF Send, SendQueue, SendRefused, RecvAdjust, RecvEOF, CloseWrite, CloseWriteQueue,
       CloseWriteRefused, CloseQueue, CloseTimeout, WriteControl, WriteOutbound,
       HandleChannelWindowAdjust, EnqueueChannelEOF, EnqueueChannelClose,
       EnqueueChannelCloseAck, historyVars
  <2>7. ASSUME UNCHANGED <<read, frames>> PROVE ReadInv(e)'
    BY <2>1, <2>7
  <2>8. CASE Calls(e) \/ Handles(e)
    BY <2>3, <2>4, <2>5, <2>6, <2>7, <2>8, Zenon DEF Calls, Handles
  <2> QED
    BY <1>0, <2>2, <2>8, ActsCases, Zenon
<1> QED
  BY <1>2, <1>3, PeerFacts, Zenon

LEMMA DataInvKept ==
  ASSUME Types, NEW e \in End, Acts(e),
         \A x \in End : QueueInv(x) /\ CallInv(x) /\ ReadInv(x) /\ DataInv(x)
  PROVE  \A x \in End : DataInv(x)'
<1> DEFINE p == Peer(e)
<1>0. /\ QueueInv(e) /\ p \in End /\ ReadInv(p) /\ Peer(p) = e /\ SameAt(p)
      /\ CallInv(e) /\ DataInv(e) /\ DataInv(p)
  BY ActsCases, PeerFacts, Zenon
<1>1. /\ sent[p] \in Nat /\ sent[e] \in Nat /\ Delivered(e) \in Nat /\ Delivered(p) \in Nat
      /\ wire[e] \in Seq(Envelopes) /\ wire[p] \in Seq(Envelopes)
  BY <1>0, AtTypes, DeliveredNat, Zenon
<1>2. DataInv(p)'
  <2>1. /\ Up(p)' = Up(p) /\ closedHere'[p] = closedHere[p] /\ Delivered(p)' = Delivered(p)
    BY <1>0 DEF SameAt, Up, Delivered
  <2> SUFFICES ASSUME Up(p), ~closedHere[p] PROVE Carried(wire'[e], Delivered(p), sent'[e])
    BY <1>0, <2>1 DEF DataInv
  <2>2. Carried(wire[e], Delivered(p), sent[e]) /\ Delivered(p) <= sent[e]
    BY <1>0 DEF DataInv, ReadInv, Numbered, Delivered
  <2>3. ASSUME NEW m, Writes(e, m) PROVE Carried(wire'[e], Delivered(p), sent'[e])
    <3>1. m \in Envelopes
      BY <2>3, Zenon DEF Writes
    <3>2. /\ m.kind # "data" => Carried(Append(wire[e], m), Delivered(p), sent[e])
          /\ m.kind = "data" /\ m.n = sent[e] + 1
             => Carried(Append(wire[e], m), Delivered(p), sent[e] + 1)
      BY <1>1, <2>2, <3>1, CarriedAppend
    <3> QED
      BY <2>3, <3>2 DEF Writes
  <2>4. ASSUME NEW w, LastInv(e, w), wire'[e] = wire[e] \o w, sent'[e] = sent[e]
        PROVE  Carried(wire'[e], Delivered(p), sent'[e])
    <3>1. w \in Seq(Envelopes) /\ ~Has(w, "data")
      BY <2>4 DEF LastInv
    <3> QED
      BY <1>1, <2>2, <2>4, <3>1, CarriedConcat
  <2> QED
    BY <1>0, <2>2, <2>3, <2>4, WireCases
<1>3. DataInv(e)'
  <2>0. sent'[p] = sent[p]
    BY <1>0, Zenon DEF SameAt
  <2> SUFFICES ASSUME Up(e)', ~closedHere'[e] PROVE Carried(wire'[p], Delivered(e)', sent[p])
    BY <1>0, <2>0 DEF DataInv
  <2>1. ASSUME NEW cause, NEW final, NEW w PROVE ~Falls(e, cause, final, w)
    BY DEF Falls, Up
  <2>2. Calls(e) => UNCHANGED session
    BY DEF Calls, Send, SendQueue, SendRefused, RecvFrame, RecvAdjust, RecvEOF, CloseWrite,
       CloseWriteQueue, CloseWriteRefused, Close, CloseQueue, CloseTimeout, WriteControl,
       WriteOutbound
  <2>3. Up(e)
    BY <1>0, <2>1, <2>2, ActsCases, Zenon DEF Taken, Up
  <2>4. ~closedHere[e] => Carried(wire[p], Delivered(e), sent[p])
    BY <1>0, <2>3 DEF DataInv
  <2>5. RecvFrame(e) => Delivered(e)' = Delivered(e) /\ closedHere'[e] = closedHere[e]
    <3> SUFFICES ASSUME RecvFrame(e)
                 PROVE  Delivered(e)' = Delivered(e) /\ closedHere'[e] = closedHere[e]
      OBVIOUS
    <3>1. /\ frames[e] # <<>> /\ frames'[e] = Tail(frames[e])
          /\ read'[e] = Append(read[e], Head(frames[e])) /\ UNCHANGED closedHere
      BY DEF RecvFrame, Types
    <3>2. read[e] \in Seq(Nat) /\ frames[e] \in Seq(Nat)
      BY AtTypes, Zenon
    <3>3. Head(frames[e]) \in Nat
      BY <3>1, <3>2
    <3>4. Len(read'[e]) = Len(read[e]) + 1 /\ Len(frames'[e]) = Len(frames[e]) - 1
      BY <3>1, <3>2, <3>3
    <3>5. Len(read[e]) \in Nat /\ Len(frames[e]) \in Nat
      BY <3>2, SeqFacts, Zenon
    <3>6. (Len(read[e]) + 1) + (Len(frames[e]) - 1) = Len(read[e]) + Len(frames[e])
      BY <3>5, SumFacts, Zenon
    <3>7. Len(read'[e]) + Len(frames'[e]) = Len(read[e]) + Len(frames[e])
      BY <3>4, <3>6, Zenon
    <3> QED
      BY <3>1, <3>7, Zenon DEF Delivered
  <2>6. Close(e) => closedHere'[e]
    BY DEF Close, Types, Set
  <2>7. \/ Send(e) \/ SendQueue(e) \/ SendRefused(e) \/ RecvAdjust(e) \/ RecvEOF(e)
        \/ CloseWrite(e) \/ CloseWriteQueue(e) \/ CloseWriteRefused(e)
        \/ CloseQueue(e) \/ CloseTimeout(e) \/ WriteControl(e) \/ WriteOutbound(e)
        \/ HandleChannelWindowAdjust(e) \/ EnqueueChannelEOF(e)
        \/ EnqueueChannelClose(e) \/ EnqueueChannelCloseAck(e)
        => UNCHANGED <<read, frames, closedHere>>
    BY DEF Send, SendQueue, SendRefused, RecvAdjust, RecvEOF, CloseWrite, CloseWriteQueue,
       CloseWriteRefused, CloseQueue, CloseTimeout, WriteControl, WriteOutbound,
       HandleChannelWindowAdjust, EnqueueChannelEOF, EnqueueChannelClose,
       EnqueueChannelCloseAck, historyVars
  <2>8. ASSUME UNCHANGED <<read, frames, closedHere>>
        PROVE  Delivered(e)' = Delivered(e) /\ closedHere'[e] = closedHere[e]
    BY <2>8 DEF Delivered
  <2>9. CASE Calls(e)
    <3>1. Delivered(e)' = Delivered(e) /\ closedHere'[e] = closedHere[e]
      BY <2>5, <2>6, <2>7, <2>8, <2>9, Zenon DEF Calls
    <3>2. wire'[p] = wire[p]
      BY <2>9, CallsKeep, Zenon
    <3> QED
      BY <2>4, <3>1, <3>2
  <2>10. CASE HandleChannelData(e)
    <3>1. /\ frames'[e] = Append(frames[e], Arrived(e).n) /\ UNCHANGED <<read, closedHere>>
      BY <2>10 DEF HandleChannelData, Types, historyVars
    <3>2. wire'[p] = Tail(wire[p])
      BY <2>10, HandlesKeep, Zenon DEF Handles, Taken
    <3>3. /\ Carried(Tail(wire[p]), Delivered(e) + 1, sent[p])
      BY <1>0, <2>10, DataArrives, Zenon
    <3>4. Delivered(e)' = Delivered(e) + 1
      <4>0. frames[e] \in Seq(Nat) /\ read[e] \in Seq(Nat)
        BY AtTypes, Zenon
      <4>1. Len(read[e]) \in Nat /\ Len(frames[e]) \in Nat
        BY DeliveredNat, Zenon
      <4>2. Arrived(e).n = Delivered(e) + 1
        BY <1>0, <2>10, DataArrives, Zenon
      <4>3. Arrived(e).n \in Nat
        BY <1>1, <4>2
      <4>4. Len(frames'[e]) = Len(frames[e]) + 1
        BY <3>1, <4>0, <4>3
      <4>5. Len(read[e]) + (Len(frames[e]) + 1) = (Len(read[e]) + Len(frames[e])) + 1
        BY <4>1, SumFacts, Zenon
      <4>6. Len(read'[e]) + Len(frames'[e]) = (Len(read[e]) + Len(frames[e])) + 1
        BY <3>1, <4>4, <4>5, Zenon
      <4> QED
        BY <4>6, Zenon DEF Delivered
    <3> QED
      BY <3>2, <3>3, <3>4
  <2>11. CASE Handles(e) /\ ~HandleChannelData(e)
    <3>1. Delivered(e)' = Delivered(e) /\ closedHere'[e] = closedHere[e]
      BY <2>7, <2>8, <2>11, Zenon DEF Handles
    <3>2. wire'[p] = Tail(wire[p]) /\ wire[p] # <<>>
      BY <2>11, HandlesKeep, Zenon DEF Taken
    <3>3. Head(wire[p]).kind # "data"
      BY <2>11 DEF Handles, HandleChannelWindowAdjust, EnqueueChannelEOF,
         EnqueueChannelClose, EnqueueChannelCloseAck, Arrives
    <3>4. Carried(wire[p], Delivered(e), sent[p])
      BY <2>4, <3>1
    <3> QED
      BY <1>1, <3>1, <3>2, <3>3, <3>4, CarriedTail
  <2> QED
    BY <1>0, <2>1, <2>9, <2>10, <2>11, ActsCases, Zenon
<1> QED
  BY <1>2, <1>3, PeerFacts, Zenon

-----------------------------------------------------------------------------
(* Credit.                                                                 *)

LEMMA CreditTypes ==
  ASSUME Types, NEW e \in End
  PROVE  /\ remoteWindow[e] \in Nat /\ Busy(sendPc[e]) \in 0..1 /\ sent[e] \in Nat
         /\ Own(e) \in Nat /\ Got(e) \in Nat /\ Owed(e) \in Nat
         /\ pending[e] \in Nat /\ adjusting[e] \in Nat
         /\ Credits(outbound[e]) \in Nat /\ Credits(wire[e]) \in Nat
<1>1. /\ remoteWindow[e] \in Nat /\ sent[e] \in Nat /\ pending[e] \in 0..(Threshold - 1)
      /\ adjusting[e] \in 0..Threshold
      /\ outbound[e] \in Seq(Envelopes) /\ wire[e] \in Seq(Envelopes)
  BY AtTypes, Zenon
<1>2. Credits(outbound[e]) \in Nat /\ Credits(wire[e]) \in Nat
  BY <1>1, CreditsNat, Zenon
<1>3. pending[e] \in Nat /\ adjusting[e] \in Nat
  BY <1>1, PairAssumption
<1>4. Busy(sendPc[e]) \in 0..1
  BY DEF Busy
<1>5. Got(e) \in Nat
  BY DeliveredNat, Zenon DEF Got
<1>6. Own(e) \in Nat
  BY <1>1, <1>4 DEF Own
<1>7. Owed(e) \in Nat
  BY <1>2, <1>3 DEF Owed
<1> QED
  BY <1>1, <1>2, <1>3, <1>4, <1>5, <1>6, <1>7, Zenon

\* The sender's side: a step never has more than it had.
InFlight(e) == Credits(wire[Peer(e)])
Bill(e) == Own(e) + sent[e] + InFlight(e)

LEMMA OwnSide ==
  ASSUME Types, Types', NEW e \in End, Acts(e), QueueInv(e)
  PROVE  Bill(e)' <= Bill(e)
<1> DEFINE p == Peer(e)
<1>0. /\ p \in End /\ wire[p] \in Seq(Envelopes)
  BY PeerFacts, AtTypes, Zenon
<1>1. /\ remoteWindow[e] \in Nat /\ remoteWindow'[e] \in Nat /\ sent[e] \in Nat /\ sent'[e] \in Nat
      /\ InFlight(e) \in Nat /\ InFlight(e)' \in Nat
      /\ remoteWindow \in [End -> Nat] /\ sent \in [End -> Nat]
      /\ sendPc \in [End -> {"idle", "reserved", "queued"}]
      /\ wire'[p] \in Seq(Envelopes)
  <2>1. Credits(wire[p]) \in Nat
    BY <1>0, CreditsNat, Zenon
  <2>2. wire'[p] \in Seq(Envelopes)
    BY <1>0, Zenon DEF Types
  <2>3. Credits(wire'[p]) \in Nat
    BY <2>2, CreditsNat, Zenon
  <2> QED
    BY <2>1, <2>2, <2>3 DEF Types, InFlight
<1>2. wire[p] # <<>> => Credits(wire[p])
                           = Credits(Tail(wire[p])) + IF Head(wire[p]).kind = "adjust" THEN Head(wire[p]).n ELSE 0
  BY <1>0, CreditsTail, Zenon
<1>3. wire[p] # <<>> => Credits(Tail(wire[p])) \in Nat /\ Head(wire[p]).n \in Nat
  <2> SUFFICES ASSUME wire[p] # <<>>
               PROVE  Credits(Tail(wire[p])) \in Nat /\ Head(wire[p]).n \in Nat
    OBVIOUS
  <2>1. Tail(wire[p]) \in Seq(Envelopes) /\ Head(wire[p]) \in Envelopes
    BY <1>0, TailFacts, Zenon
  <2>2. Head(wire[p]).n \in Nat
    BY <2>1 DEF Envelopes
  <2> QED
    BY <2>1, <2>2, CreditsNat, Zenon
<1>4. Taken(e) =>
         /\ InFlight(e)' <= InFlight(e)
         /\ Head(wire[p]).kind = "adjust" => InFlight(e) = InFlight(e)' + Head(wire[p]).n
  <2> SUFFICES ASSUME Taken(e)
               PROVE  /\ InFlight(e)' <= InFlight(e)
                      /\ Head(wire[p]).kind = "adjust" =>
                            InFlight(e) = InFlight(e)' + Head(wire[p]).n
    OBVIOUS
  <2>1. wire[p] # <<>> /\ wire'[p] = Tail(wire[p])
    BY Zenon DEF Taken
  <2>2. InFlight(e)' = Credits(Tail(wire[p]))
    BY <2>1 DEF InFlight
  <2> QED
    BY <1>1, <1>2, <1>3, <2>1, <2>2 DEF InFlight
<1>5. wire'[p] = wire[p] => InFlight(e)' = InFlight(e)
  BY DEF InFlight
<1>6. ASSUME InFlight(e)' <= InFlight(e), remoteWindow'[e] = remoteWindow[e], sent'[e] = sent[e],
             sendPc'[e] = sendPc[e] \/ sendPc'[e] = "idle"
      PROVE  Bill(e)' <= Bill(e)
  BY <1>1, <1>6 DEF Bill, Own, Busy
<1>7. ASSUME NEW cause, NEW final, NEW w, Falls(e, cause, final, w)
      PROVE  Bill(e)' <= Bill(e)
  <2>1. InFlight(e)' <= InFlight(e)
    <3>1. Acts(e) => wire'[p] = wire[p] \/ Taken(e)
      BY ActsCases, Zenon
    <3> QED
      BY <1>1, <1>4, <1>5, <3>1
  <2> QED
    BY <1>6, <1>7, <2>1, Zenon DEF Falls
<1>8. Calls(e) => InFlight(e)' = InFlight(e)
  BY <1>5, CallsKeep, Zenon
<1>9. Handles(e) => InFlight(e)' <= InFlight(e) /\ Taken(e)
  BY <1>4, HandlesKeep, Zenon
<1>10. \/ RecvFrame(e) \/ RecvAdjust(e) \/ RecvEOF(e) \/ CloseWrite(e) \/ CloseWriteQueue(e)
       \/ CloseWriteRefused(e) \/ Close(e) \/ CloseQueue(e) \/ CloseTimeout(e) \/ WriteControl(e)
       \/ HandleChannelData(e) \/ EnqueueChannelEOF(e) \/ EnqueueChannelClose(e)
       \/ EnqueueChannelCloseAck(e)
       => UNCHANGED <<remoteWindow, sendPc, sent>>
  BY DEF RecvFrame, RecvAdjust, RecvEOF, CloseWrite, CloseWriteQueue, CloseWriteRefused,
     Close, CloseQueue, CloseTimeout, WriteControl, HandleChannelData, EnqueueChannelEOF,
     EnqueueChannelClose, EnqueueChannelCloseAck, windowVars, callVars, historyVars
<1>11. ASSUME UNCHANGED <<remoteWindow, sendPc, sent>>, Calls(e) \/ Handles(e)
       PROVE  Bill(e)' <= Bill(e)
  <2>1. InFlight(e)' <= InFlight(e)
    BY <1>1, <1>8, <1>9, <1>11
  <2> QED
    BY <1>6, <1>11, <2>1
<1>12. ASSUME Send(e) \/ SendQueue(e) \/ SendRefused(e)
       PROVE  Bill(e)' <= Bill(e)
  <2>1. InFlight(e)' = InFlight(e)
    BY <1>8, <1>12, Zenon DEF Calls
  <2>2. /\ sent'[e] = sent[e]
        /\ \/ remoteWindow'[e] = remoteWindow[e] - 1 /\ sendPc[e] = "idle" /\ sendPc'[e] = "reserved"
           \/ remoteWindow'[e] = remoteWindow[e] /\ sendPc[e] = "reserved" /\ sendPc'[e] = "queued"
           \/ remoteWindow'[e] = remoteWindow[e] + 1 /\ sendPc[e] = "reserved" /\ sendPc'[e] = "idle"
    BY <1>1, <1>12 DEF Send, SendQueue, SendRefused, Set, windowVars, historyVars
  <2> QED
    BY <1>1, <2>1, <2>2 DEF Bill, Own, Busy
<1>13. ASSUME WriteOutbound(e)
       PROVE  Bill(e)' <= Bill(e)
  <2>1. InFlight(e)' = InFlight(e)
    BY <1>8, <1>13, Zenon DEF Calls
  <2>2. /\ outbound[e] # <<>> /\ remoteWindow'[e] = remoteWindow[e]
        /\ sendPc'[e] = IF Head(outbound[e]).kind = "data" THEN "idle" ELSE sendPc[e]
        /\ sent'[e] = IF Head(outbound[e]).kind = "data" THEN Head(outbound[e]).n ELSE sent[e]
    BY <1>1, <1>13 DEF WriteOutbound, Set, windowVars
  <2>3. Head(outbound[e]).kind = "data" => sendPc[e] = "queued" /\ Head(outbound[e]).n = sent[e] + 1
    BY <2>2, OutboundHead, Zenon
  <2> QED
    BY <1>1, <2>1, <2>2, <2>3 DEF Bill, Own, Busy
<1>14. ASSUME HandleChannelWindowAdjust(e)
       PROVE  Bill(e)' <= Bill(e)
  <2>1. Taken(e) /\ Head(wire[p]).kind = "adjust" /\ wire[p] # <<>>
    BY <1>9, <1>14, Zenon DEF Handles, HandleChannelWindowAdjust, Arrives
  <2>2. /\ remoteWindow'[e] = remoteWindow[e] + Head(wire[p]).n
        /\ sendPc'[e] = sendPc[e] /\ sent'[e] = sent[e]
    BY <1>1, <1>14 DEF HandleChannelWindowAdjust, Arrived, callVars, historyVars
  <2>3. InFlight(e) = InFlight(e)' + Head(wire[p]).n /\ Head(wire[p]).n \in Nat
    BY <1>3, <1>4, <2>1
  <2>4. PICK n \in Nat : /\ remoteWindow'[e] = remoteWindow[e] + n
                         /\ InFlight(e) = InFlight(e)' + n
    BY <2>2, <2>3, Zenon
  <2> QED
    BY <1>1, <2>2, <2>4 DEF Bill, Own, Busy
<1>15. CASE Calls(e) \/ Handles(e)
  BY <1>10, <1>11, <1>12, <1>13, <1>14, <1>15, Zenon DEF Calls, Handles
<1> QED
  BY <1>7, <1>15, ActsCases, Zenon

\* The reader's side: a step never owes more than it has read.
LEMMA OwedSide ==
  ASSUME Types, Types', NEW e \in End, Acts(e), QueueInv(e)
  PROVE  Owed(e)' + Got(e) <= Owed(e) + Got(e)'
<1> DEFINE co == Credits(outbound[e])
           cw == Credits(wire[e])
<1>0. /\ outbound[e] \in Seq(Envelopes) /\ wire[e] \in Seq(Envelopes)
      /\ outbound'[e] \in Seq(Envelopes) /\ wire'[e] \in Seq(Envelopes)
      /\ outbound \in [End -> Seq(Envelopes)] /\ wire \in [End -> Seq(Envelopes)]
  BY Zenon DEF Types
<1>1. /\ pending[e] \in Nat /\ adjusting[e] \in Nat /\ Got(e) \in Nat /\ co \in Nat /\ cw \in Nat
      /\ pending'[e] \in Nat /\ adjusting'[e] \in Nat
      /\ pending \in [End -> 0..(Threshold - 1)] /\ adjusting \in [End -> 0..Threshold]
  <2>1. pending'[e] \in 0..(Threshold - 1) /\ adjusting'[e] \in 0..Threshold
    BY Zenon DEF Types
  <2>2. pending'[e] \in Nat /\ adjusting'[e] \in Nat
    BY <2>1, PairAssumption
  <2>3. pending \in [End -> 0..(Threshold - 1)] /\ adjusting \in [End -> 0..Threshold]
    BY Zenon DEF Types
  <2> QED
    BY <2>2, <2>3, CreditTypes, Zenon
<1>2. Credits(outbound'[e]) \in Nat /\ Credits(wire'[e]) \in Nat
  BY <1>0, CreditsNat, Zenon
<1> HIDE DEF co, cw
\* A step is described by the credit it moves.
<1>3. ASSUME NEW po \in Nat, NEW pw \in Nat, Credits(outbound'[e]) = po, Credits(wire'[e]) = pw,
             Got(e)' = Got(e),
             pending'[e] + adjusting'[e] + po + pw <= pending[e] + adjusting[e] + co + cw
      PROVE  Owed(e)' + Got(e) <= Owed(e) + Got(e)'
  <2>1. Owed(e)' = pending'[e] + adjusting'[e] + po + pw
    BY <1>3 DEF Owed
  <2>2. Owed(e) = pending[e] + adjusting[e] + co + cw
    BY DEF Owed, co, cw
  <2> QED
    BY <1>1, <1>3, <2>1, <2>2
<1>4. ASSUME NEW cause, NEW final, NEW w, Falls(e, cause, final, w), LastInv(e, w)
      PROVE  Owed(e)' + Got(e) <= Owed(e) + Got(e)'
  <2>1. /\ pending'[e] = pending[e] /\ adjusting'[e] = 0 /\ outbound'[e] = <<>>
        /\ wire'[e] = wire[e] \o w /\ read'[e] = read[e]
    BY <1>4, Zenon DEF Falls
  <2>2. w \in Seq(Envelopes) /\ ~Has(w, "adjust")
    BY <1>4 DEF LastInv
  <2>3. Credits(wire'[e]) = cw
    BY <1>0, <2>1, <2>2, CreditsConcat DEF cw
  <2>4. Credits(outbound'[e]) = 0
    BY <2>1, CreditsEmpty
  <2>5. Got(e)' = Got(e)
    BY <2>1 DEF Got
  <2>6. pending'[e] + adjusting'[e] + 0 + cw <= pending[e] + adjusting[e] + co + cw
    BY <1>1, <2>1
  <2>7. 0 \in Nat
    OBVIOUS
  <2> QED
    BY <1>1, <1>3, <2>3, <2>4, <2>5, <2>6, <2>7, Zenon
<1>5. ASSUME UNCHANGED <<pending, adjusting, read>>, outbound'[e] = outbound[e],
                         wire'[e] = wire[e]
      PROVE  Owed(e)' + Got(e) <= Owed(e) + Got(e)'
  <2>1. Credits(outbound'[e]) = co /\ Credits(wire'[e]) = cw /\ Got(e)' = Got(e)
    BY <1>5 DEF co, cw, Got
  <2>2. pending'[e] + adjusting'[e] + co + cw <= pending[e] + adjusting[e] + co + cw
    BY <1>1, <1>5
  <2> QED
    BY <1>1, <1>3, <2>1, <2>2, Zenon
<1>6. \/ Send(e) \/ SendRefused(e) \/ RecvEOF(e) \/ CloseWrite(e) \/ CloseWriteRefused(e)
      \/ Close(e) \/ CloseQueue(e) \/ CloseTimeout(e)
      => UNCHANGED <<pending, adjusting, read, outbound, wire>>
  BY DEF Send, SendRefused, RecvEOF, CloseWrite, CloseWriteRefused, Close, CloseQueue,
     CloseTimeout, windowVars, callVars, queueVars, historyVars
<1>7. Handles(e) => UNCHANGED <<pending, adjusting, read, outbound>> /\ wire'[e] = wire[e]
  <2>1. Handles(e) => UNCHANGED <<pending, adjusting, read, outbound>>
    BY DEF Handles, HandleChannelData, HandleChannelWindowAdjust, EnqueueChannelEOF,
       EnqueueChannelClose, EnqueueChannelCloseAck, windowVars, callVars, queueVars, historyVars
  <2> QED
    BY <2>1, HandlesKeep, Zenon
<1>8. RecvFrame(e) => Owed(e)' + Got(e) <= Owed(e) + Got(e)'
  <2> SUFFICES ASSUME RecvFrame(e) PROVE Owed(e)' + Got(e) <= Owed(e) + Got(e)'
    OBVIOUS
  <2>1. /\ adjusting[e] = 0 /\ UNCHANGED <<outbound, wire>>
        /\ pending'[e] = IF pending[e] + 1 >= Threshold THEN 0 ELSE pending[e] + 1
        /\ adjusting'[e] = IF pending[e] + 1 >= Threshold /\ Up(e) THEN pending[e] + 1 ELSE 0
        /\ frames[e] # <<>> /\ read'[e] = Append(read[e], Head(frames[e]))
    BY DEF RecvFrame, RecvIdle, Set, Types, queueVars
  <2>2. pending'[e] + adjusting'[e] <= pending[e] + adjusting[e] + 1
    BY <1>1, <2>1, PairAssumption
  <2>3. Got(e)' = Got(e) + 1
    <3>1. read[e] \in Seq(Nat) /\ frames[e] \in Seq(Nat)
      BY AtTypes, Zenon
    <3>2. Head(frames[e]) \in Nat
      BY <2>1, <3>1
    <3>3. Len(read'[e]) = Len(read[e]) + 1
      BY <2>1, <3>1, <3>2
    <3> QED
      BY <3>3, Zenon DEF Got
  <2>4. Owed(e)' = pending'[e] + adjusting'[e] + co + cw
    BY <2>1 DEF Owed, co, cw
  <2>5. Owed(e) = pending[e] + adjusting[e] + co + cw
    BY DEF Owed, co, cw
  <2> QED
    BY <1>1, <2>2, <2>3, <2>4, <2>5
\* An envelope in the outbound queue.
<1>9. ASSUME NEW k \in Kinds, NEW n \in Nat, outbound'[e] = Append(outbound[e], Msg(k, n))
      PROVE  Credits(outbound'[e]) = co + IF k = "adjust" THEN n ELSE 0
  <2>1. Msg(k, n) \in Envelopes /\ Msg(k, n).kind = k /\ Msg(k, n).n = n
    BY MsgFacts, Zenon
  <2> QED
    BY <1>0, <1>9, <2>1, CreditsAppend DEF co
<1>10. SendQueue(e) \/ CloseWriteQueue(e) => Owed(e)' + Got(e) <= Owed(e) + Got(e)'
  <2> SUFFICES ASSUME SendQueue(e) \/ CloseWriteQueue(e)
               PROVE  Owed(e)' + Got(e) <= Owed(e) + Got(e)'
    OBVIOUS
  <2>1. UNCHANGED <<pending, adjusting, read, wire>>
    BY DEF SendQueue, CloseWriteQueue, windowVars, historyVars
  <2>2. \/ outbound'[e] = Append(outbound[e], Msg("data", sent[e] + 1))
        \/ outbound'[e] = Append(outbound[e], Msg("eof", 0))
    BY <1>0 DEF SendQueue, CloseWriteQueue
  <2>3. Credits(outbound'[e]) = co
    <3>1. "data" \in Kinds /\ "eof" \in Kinds /\ 0 \in Nat /\ sent[e] + 1 \in Nat
      <4>1. sent[e] \in Nat
        BY AtTypes, Zenon
      <4> QED
        BY <4>1 DEF Kinds
    <3>2. CASE outbound'[e] = Append(outbound[e], Msg("data", sent[e] + 1))
      BY <1>1, <1>9, <3>1, <3>2
    <3>3. CASE outbound'[e] = Append(outbound[e], Msg("eof", 0))
      BY <1>1, <1>9, <3>1, <3>3
    <3> QED
      BY <2>2, <3>2, <3>3
  <2>4. Credits(wire'[e]) = cw /\ Got(e)' = Got(e)
    BY <2>1 DEF cw, Got
  <2>5. pending'[e] + adjusting'[e] + co + cw <= pending[e] + adjusting[e] + co + cw
    BY <1>1, <2>1
  <2> QED
    BY <1>1, <1>3, <2>3, <2>4, <2>5, Zenon
<1>11. RecvAdjust(e) => Owed(e)' + Got(e) <= Owed(e) + Got(e)'
  <2> SUFFICES ASSUME RecvAdjust(e) PROVE Owed(e)' + Got(e) <= Owed(e) + Got(e)'
    OBVIOUS
  <2>1. /\ UNCHANGED <<pending, read, wire>> /\ adjusting'[e] = 0
        /\ outbound'[e] = Append(outbound[e], Msg("adjust", adjusting[e]))
    BY <1>0, <1>1 DEF RecvAdjust, Set, windowVars, historyVars
  <2>2. Credits(outbound'[e]) = co + adjusting[e]
    BY <1>1, <1>9, <2>1 DEF Kinds
  <2>3. Credits(wire'[e]) = cw /\ Got(e)' = Got(e)
    BY <2>1 DEF cw, Got
  <2>4. /\ pending'[e] + adjusting'[e] + (co + adjusting[e]) + cw <= pending[e] + adjusting[e] + co + cw
        /\ co + adjusting[e] \in Nat
    BY <1>1, <2>1
  <2> QED
    BY <1>1, <1>3, <2>2, <2>3, <2>4, Zenon
<1>12. WriteControl(e) => Owed(e)' + Got(e) <= Owed(e) + Got(e)'
  <2> SUFFICES ASSUME WriteControl(e) PROVE Owed(e)' + Got(e) <= Owed(e) + Got(e)'
    OBVIOUS
  <2>1. /\ UNCHANGED <<pending, adjusting, read, outbound>> /\ control[e] # <<>>
        /\ wire'[e] = Append(wire[e], Head(control[e]))
    BY <1>0 DEF WriteControl, windowVars, callVars, historyVars
  <2>2. Head(control[e]) \in Envelopes /\ Head(control[e]).kind = "close"
    BY <2>1, ControlHead, Zenon
  <2>3. Credits(wire'[e]) = cw
    <3>1. Credits(wire'[e])
            = Credits(wire[e]) + IF Head(control[e]).kind = "adjust" THEN Head(control[e]).n ELSE 0
      BY <1>0, <2>1, <2>2, CreditsAppend, Zenon
    <3> QED
      BY <1>1, <2>2, <3>1 DEF cw
  <2>4. Credits(outbound'[e]) = co /\ Got(e)' = Got(e)
    BY <2>1 DEF co, Got
  <2>5. pending'[e] + adjusting'[e] + co + cw <= pending[e] + adjusting[e] + co + cw
    BY <1>1, <2>1
  <2> QED
    BY <1>1, <1>3, <2>3, <2>4, <2>5, Zenon
<1>13. WriteOutbound(e) => Owed(e)' + Got(e) <= Owed(e) + Got(e)'
  <2> SUFFICES ASSUME WriteOutbound(e) PROVE Owed(e)' + Got(e) <= Owed(e) + Got(e)'
    OBVIOUS
  <2> DEFINE m == Head(outbound[e])
             g == IF m.kind = "adjust" THEN m.n ELSE 0
  <2>1. /\ UNCHANGED <<pending, adjusting, read>> /\ outbound[e] # <<>>
        /\ outbound'[e] = Tail(outbound[e]) /\ wire'[e] = Append(wire[e], m)
    BY <1>0 DEF WriteOutbound, windowVars
  <2>2. m \in Envelopes /\ m.n \in Nat
    BY <2>1, OutboundHead, Zenon
  <2>3. g \in Nat
    BY <2>2
  <2>4. Credits(wire'[e]) = Credits(wire[e]) + g
    BY <1>0, <2>1, <2>2, CreditsAppend, Zenon
  <2>5. Credits(outbound[e]) = Credits(outbound'[e]) + g
    BY <1>0, <2>1, CreditsTail, Zenon
  <2> HIDE DEF g, m
  <2>6. Credits(wire'[e]) = cw + g /\ co = Credits(outbound'[e]) + g /\ Got(e)' = Got(e)
    BY <2>1, <2>4, <2>5 DEF cw, co, Got
  <2>7. PICK po \in Nat : Credits(outbound'[e]) = po
    BY <1>2
  <2>8. /\ pending'[e] + adjusting'[e] + po + (cw + g) <= pending[e] + adjusting[e] + co + cw
        /\ cw + g \in Nat
    BY <1>1, <2>1, <2>3, <2>6, <2>7
  <2> QED
    BY <1>3, <2>6, <2>7, <2>8, Zenon
<1>14. CASE Calls(e) \/ Handles(e)
  <2>1. ASSUME UNCHANGED <<pending, adjusting, read, outbound, wire>>
        PROVE  Owed(e)' + Got(e) <= Owed(e) + Got(e)'
    BY <1>5, <2>1
  <2>2. Handles(e) => Owed(e)' + Got(e) <= Owed(e) + Got(e)'
    BY <1>5, <1>7
  <2> QED
    BY <1>6, <1>8, <1>10, <1>11, <1>12, <1>13, <1>14, <2>1, <2>2, Zenon DEF Calls
<1> QED
  BY <1>4, <1>14, ActsCases, Zenon

LEMMA WindowInvKept ==
  ASSUME Types, Types', NEW e \in End, Acts(e), \A x \in End : QueueInv(x) /\ WindowInv(x)
  PROVE  \A x \in End : WindowInv(x)'
<1> DEFINE p == Peer(e)
<1>0. /\ QueueInv(e) /\ p \in End /\ Peer(p) = e /\ SameAt(p) /\ WindowInv(e) /\ WindowInv(p)
  BY ActsCases, PeerFacts, Zenon
<1>1. /\ sent[e] \in Nat /\ sent[p] \in Nat /\ sent'[e] \in Nat /\ Window \in Nat
      /\ Own(e) \in Nat /\ Own(p) \in Nat /\ Got(e) \in Nat /\ Got(p) \in Nat
      /\ Owed(e) \in Nat /\ Owed(p) \in Nat /\ pending[p] \in Nat /\ adjusting[p] \in Nat
      /\ Credits(outbound[p]) \in Nat /\ InFlight(e) \in Nat
  <2>1. Window \in Nat /\ sent'[e] \in Nat
    BY PairAssumption DEF Types
  <2> QED
    BY <1>0, <2>1, CreditTypes, Zenon DEF InFlight
<1>2. /\ Own(e)' \in Nat /\ Got(e)' \in Nat /\ Owed(e)' \in Nat /\ InFlight(e)' \in Nat
  <2>1. Own(e)' \in Nat
    <3>1. remoteWindow'[e] \in Nat
      BY Zenon DEF Types
    <3> QED
      BY <3>1 DEF Own, Busy
  <2>2. Got(e)' \in Nat
    <3>1. read'[e] \in Seq(Nat)
      BY Zenon DEF Types
    <3>2. Len(read'[e]) \in Nat
      BY <3>1
    <3> QED
      BY <3>2, Zenon DEF Got
  <2>3. /\ outbound'[e] \in Seq(Envelopes) /\ wire'[e] \in Seq(Envelopes)
        /\ wire'[p] \in Seq(Envelopes)
    BY <1>0, Zenon DEF Types
  <2>4. Credits(outbound'[e]) \in Nat /\ Credits(wire'[e]) \in Nat /\ Credits(wire'[p]) \in Nat
    BY <2>3, CreditsNat, Zenon
  <2>5. pending'[e] \in 0..(Threshold - 1) /\ adjusting'[e] \in 0..Threshold
    BY Zenon DEF Types
  <2>6. Owed(e)' \in Nat
    BY <2>4, <2>5, PairAssumption DEF Owed
  <2> QED
    BY <2>1, <2>2, <2>4, <2>6, Zenon DEF InFlight
<1>3. WindowInv(p)'
  <2>1. Own(p)' = Own(p) /\ sent'[p] = sent[p]
    BY <1>0 DEF SameAt, Own
  <2>2. Owed(e)' + Got(e) <= Owed(e) + Got(e)'
    BY <1>0, OwedSide
  <2>3. Own(p) + (sent[p] - Got(e)) + Owed(e) <= Window
    BY <1>0 DEF WindowInv
  <2>4. Own(p) + (sent[p] - Got(e)') + Owed(e)' <= Window
    BY <1>1, <1>2, <2>2, <2>3
  <2> QED
    BY <1>0, <2>1, <2>4 DEF WindowInv
<1>4. WindowInv(e)'
  <2>1. Bill(e)' <= Bill(e)
    BY <1>0, OwnSide
  <2>2. Own(e)' + sent'[e] + InFlight(e)' <= Own(e) + sent[e] + InFlight(e)
    BY <2>1 DEF Bill
  <2>3. /\ Owed(p) = pending[p] + adjusting[p] + Credits(outbound[p]) + InFlight(e)
        /\ Owed(p)' = pending[p] + adjusting[p] + Credits(outbound[p]) + InFlight(e)'
    BY <1>0 DEF Owed, InFlight, SameAt
  <2>4. Got(p)' = Got(p)
    BY <1>0 DEF Got, SameAt
  <2>5. Own(e) + (sent[e] - Got(p)) + Owed(p) <= Window
    BY <1>0 DEF WindowInv
  <2>6. Own(e)' + (sent'[e] - Got(p)) + Owed(p)' <= Window
    BY <1>1, <1>2, <2>2, <2>3, <2>5
  <2> QED
    BY <2>4, <2>6 DEF WindowInv
<1> QED
  BY <1>3, <1>4, PeerFacts, Zenon

-----------------------------------------------------------------------------
(* The end of a direction.                                                 *)

\* Only an endpoint that has ended its writing, or ends it in this step, has an
\* EOF or a close under way.
LEMMA EndingStarts ==
  ASSUME Types, NEW e \in End, Acts(e), QueueInv(e), CallInv(e), ~Ending(e), Ending(e)'
  PROVE  Sealed(e)'
<1> DEFINE p == Peer(e)
<1>0. /\ ~Has(control[e], "close") /\ ~Has(outbound[e], "eof")
      /\ ~Has(wire[e], "eof") /\ ~Has(wire[e], "close")
      /\ \/ Has(control'[e], "close") \/ Has(outbound'[e], "eof")
         \/ Has(wire'[e], "eof") \/ Has(wire'[e], "close")
  BY Zenon DEF Ending
<1>1. /\ state \in [End -> States] /\ eofPc \in [End -> {"idle", "open", "remoteEOF"}]
      /\ control[e] \in Seq(Envelopes) /\ outbound[e] \in Seq(Envelopes)
      /\ wire[e] \in Seq(Envelopes)
      /\ control \in [End -> Seq(Envelopes)] /\ outbound \in [End -> Seq(Envelopes)]
      /\ wire \in [End -> Seq(Envelopes)] /\ closePc \in [End -> {"idle", "queue", "timer"}]
  BY Zenon DEF Types
<1>2. ASSUME NEW cause, NEW final, NEW w, Falls(e, cause, final, w), LastInv(e, w)
      PROVE  FALSE
  <2>1. control'[e] = <<>> /\ outbound'[e] = <<>> /\ wire'[e] = wire[e] \o w
    BY <1>2, Zenon DEF Falls
  <2>2. w \in Seq(Envelopes) /\ ~Has(w, "eof") /\ ~Has(w, "close")
    BY <1>0, <1>2 DEF LastInv
  <2>3. ~Has(wire'[e], "eof") /\ ~Has(wire'[e], "close")
    <3>1. \A k : Has(wire[e] \o w, k) <=> Has(wire[e], k) \/ Has(w, k)
      BY <1>1, <2>2, HasConcat, Zenon
    <3> QED
      BY <1>0, <2>1, <2>2, <3>1
  <2> QED
    BY <1>0, <2>1, <2>3, HasEmpty, Zenon
<1>3. ASSUME control'[e] = control[e], outbound'[e] = outbound[e], wire'[e] = wire[e]
      PROVE  FALSE
  BY <1>0, <1>3
<1>4. \/ Send(e) \/ SendRefused(e) \/ RecvFrame(e) \/ RecvEOF(e) \/ CloseWrite(e)
      \/ CloseWriteRefused(e) \/ Close(e) \/ CloseTimeout(e)
      => UNCHANGED <<control, outbound, wire>>
  BY DEF Send, SendRefused, RecvFrame, RecvEOF, CloseWrite, CloseWriteRefused, Close,
     CloseTimeout, queueVars
<1>5. Handles(e) /\ ~EnqueueChannelClose(e) => FALSE
  <2>1. Handles(e) /\ ~EnqueueChannelClose(e) => UNCHANGED <<control, outbound>>
    BY DEF Handles, HandleChannelData, HandleChannelWindowAdjust, EnqueueChannelEOF,
       EnqueueChannelCloseAck, queueVars
  <2>2. Handles(e) => wire'[e] = wire[e]
    BY HandlesKeep, Zenon
  <2> QED
    BY <1>3, <2>1, <2>2
<1>6. EnqueueChannelClose(e) => Sealed(e)'
  BY <1>1 DEF EnqueueChannelClose, Set, Sealed, Over
<1>7. CloseWriteQueue(e) => Sealed(e)'
  BY <1>1 DEF CloseWriteQueue, Set, Sealed, Over, CallInv, canSendData, States
<1>8. CloseQueue(e) => Sealed(e)'
  BY <1>1 DEF CloseQueue, Set, Sealed, Over, CallInv
<1>9. ASSUME SendQueue(e) \/ RecvAdjust(e) PROVE FALSE
  <2>1. UNCHANGED <<control, wire>>
    BY <1>9 DEF SendQueue, RecvAdjust
  <2>2. PICK k \in {"data", "adjust"}, n \in Nat : outbound'[e] = Append(outbound[e], Msg(k, n))
    <3>1. sent[e] + 1 \in Nat /\ adjusting[e] \in Nat
      <4>1. sent[e] \in Nat /\ adjusting[e] \in 0..Threshold /\ Threshold \in Nat
        BY AtTypes, UseFacts, Zenon
      <4> QED
        BY <4>1
    <3>2. \/ outbound'[e] = Append(outbound[e], Msg("data", sent[e] + 1))
          \/ outbound'[e] = Append(outbound[e], Msg("adjust", adjusting[e]))
      BY <1>1, <1>9 DEF SendQueue, RecvAdjust
    <3> QED
      BY <3>1, <3>2
  <2>3. Msg(k, n) \in Envelopes /\ Msg(k, n).kind # "eof"
    BY <2>2, MsgFacts DEF Kinds
  <2>4. ~Has(outbound'[e], "eof")
    BY <1>0, <1>1, <2>2, <2>3, HasAppend, Zenon
  <2> QED
    BY <1>0, <2>1, <2>4
<1>10. ASSUME WriteControl(e) PROVE FALSE
  <2>1. control[e] # <<>>
    BY <1>10 DEF WriteControl
  <2>2. Has(control[e], "close")
    BY <1>1, <2>1, ControlHead, HasTail, Zenon
  <2> QED
    BY <1>0, <2>2
<1>11. ASSUME WriteOutbound(e) PROVE FALSE
  <2>1. /\ outbound[e] # <<>> /\ outbound'[e] = Tail(outbound[e]) /\ UNCHANGED control
        /\ wire'[e] = Append(wire[e], Head(outbound[e]))
    BY <1>1, <1>11 DEF WriteOutbound
  <2>2. /\ Head(outbound[e]) \in Envelopes
        /\ Head(outbound[e]).kind \in {"data", "adjust", "eof"}
    BY <2>1, OutboundHead, Zenon
  <2>3. Head(outbound[e]).kind # "eof" /\ ~Has(outbound'[e], "eof")
    <3>1. \A k : Has(outbound[e], k) <=> Has(Tail(outbound[e]), k) \/ Head(outbound[e]).kind = k
      BY <1>1, <2>1, HasTail, Zenon
    <3> QED
      BY <1>0, <2>1, <3>1
  <2>4. Head(outbound[e]).kind # "close"
    BY <2>2
  <2>5. ~Has(wire'[e], "eof") /\ ~Has(wire'[e], "close")
    <3>1. \A k : Has(Append(wire[e], Head(outbound[e])), k)
                   <=> Has(wire[e], k) \/ Head(outbound[e]).kind = k
      BY <1>1, <2>2, HasAppend, Zenon
    <3> QED
      BY <1>0, <2>1, <2>3, <2>4, <3>1
  <2> QED
    BY <1>0, <2>1, <2>3, <2>5
<1>12. CASE Calls(e)
  <2>1. ASSUME UNCHANGED <<control, outbound, wire>> PROVE FALSE
    BY <1>3, <2>1
  <2> QED
    BY <1>4, <1>7, <1>8, <1>9, <1>10, <1>11, <1>12, <2>1, Zenon DEF Calls
<1> QED
  BY <1>2, <1>5, <1>6, <1>12, ActsCases, Zenon

LEMMA SealInvKept ==
  ASSUME Types, NEW e \in End, Acts(e), \A x \in End : QueueInv(x) /\ CallInv(x) /\ SealInv(x)
  PROVE  \A x \in End : SealInv(x)'
<1> DEFINE p == Peer(e)
<1>0. /\ QueueInv(e) /\ CallInv(e) /\ SealInv(e) /\ SealInv(p) /\ p \in End /\ SameAt(p)
      /\ wire'[p] = wire[p] \/ Taken(e)
  BY ActsCases, PeerFacts, Zenon
<1>1. SealInv(e)'
  <2>1. Ending(e)' => Sealed(e)'
    BY <1>0, EndingStarts, SealedStable, Zenon DEF SealInv
  <2> QED
    BY <2>1, Zenon DEF SealInv
<1>2. SealInv(p)'
  <2>1. wire[p] # <<>> => \A k : Has(wire[p], k) <=> Has(Tail(wire[p]), k) \/ Head(wire[p]).kind = k
    <3>1. wire[p] \in Seq(Envelopes)
      BY <1>0, AtTypes, Zenon
    <3> QED
      BY <3>1, HasTail, Zenon
  <2>2. \A k : Has(wire'[p], k) => Has(wire[p], k)
    BY <1>0, <2>1 DEF Taken
  <2>3. control'[p] = control[p] /\ outbound'[p] = outbound[p]
    BY <1>0, Zenon DEF SameAt
  <2>4. Ending(p)' => Ending(p)
    BY <2>2, <2>3 DEF Ending
  <2>5. Sealed(p) => Sealed(p)'
    BY <1>0, SealedStable, Zenon
  <2> QED
    BY <1>0, <2>4, <2>5, Zenon DEF SealInv
<1> QED
  BY <1>1, <1>2, PeerFacts, Zenon

LEMMA LateInvKept ==
  ASSUME Types, NEW e \in End, Acts(e),
         \A x \in End : QueueInv(x) /\ CallInv(x) /\ SealInv(x) /\ SentInv(x) /\ LateInv(x)
  PROVE  \A x \in End : LateInv(x)'
<1> DEFINE p == Peer(e)
<1>0. /\ QueueInv(e) /\ CallInv(e) /\ SealInv(e) /\ SentInv(e) /\ LateInv(e) /\ LateInv(p)
      /\ p \in End /\ SameAt(p) /\ (wire'[p] = wire[p] \/ Taken(e))
  BY ActsCases, PeerFacts, Zenon
<1>1. /\ wire[e] \in Seq(Envelopes) /\ wire[p] \in Seq(Envelopes) /\ promised[e] \in Nat
      /\ sent[e] \in Nat
  BY <1>0, AtTypes, Zenon
<1>2. LateInv(p)'
  <2>1. promised'[p] = promised[p] /\ Late(wire[p], promised[p])
    BY <1>0, Zenon DEF SameAt, LateInv
  <2>2. Late(wire'[p], promised[p])
    BY <1>0, <1>1, <2>1, LateTail DEF Taken
  <2> QED
    BY <2>1, <2>2 DEF LateInv
<1>3. LateInv(e)'
  <2>0. Late(wire[e], promised[e])
    BY <1>0 DEF LateInv
  <2>1. CASE promised'[e] = promised[e]
    <3>1. ASSUME NEW m, Writes(e, m) PROVE Late(wire'[e], promised[e])
      <4>1. m \in Envelopes /\ wire'[e] = Append(wire[e], m)
        BY <3>1, Zenon DEF Writes
      <4>2. m.kind = "data" => promised[e] < m.n
        BY <1>0, <1>1, <3>1 DEF Writes, SentInv
      <4> QED
        BY <1>1, <2>0, <4>1, <4>2, LateAppend, Zenon
    <3>2. ASSUME NEW w, LastInv(e, w), wire'[e] = wire[e] \o w PROVE Late(wire'[e], promised[e])
      <4>1. w \in Seq(Envelopes) /\ ~Has(w, "data")
        BY <3>2 DEF LastInv
      <4> QED
        BY <1>1, <2>0, <3>2, <4>1, LateConcat, Zenon
    <3>3. Late(wire'[e], promised[e])
      BY <1>0, <2>0, <3>1, <3>2, WireCases
    <3> QED
      BY <2>1, <3>3 DEF LateInv
  <2>2. CASE promised'[e] # promised[e]
    <3>1. ~Sealed(e)
      BY <1>0, <2>2, SealedStable, Zenon
    <3>2. ~Has(wire[e], "eof") /\ ~Has(wire[e], "close")
      BY <1>0, <3>1, Zenon DEF SealInv, Ending
    <3>3. wire'[e] = wire[e]
      <4>1. ASSUME NEW cause, NEW final, NEW w PROVE ~Falls(e, cause, final, w)
        BY <2>2, Zenon DEF Falls
      <4>2. WriteControl(e) \/ WriteOutbound(e) => UNCHANGED promised
        BY DEF WriteControl, WriteOutbound, historyVars
      <4>3. \/ Send(e) \/ SendQueue(e) \/ SendRefused(e) \/ RecvFrame(e) \/ RecvAdjust(e)
            \/ RecvEOF(e) \/ CloseWrite(e) \/ CloseWriteQueue(e) \/ CloseWriteRefused(e)
            \/ Close(e) \/ CloseQueue(e) \/ CloseTimeout(e)
            => UNCHANGED wire
        BY DEF Send, SendQueue, SendRefused, RecvFrame, RecvAdjust, RecvEOF, CloseWrite,
           CloseWriteQueue, CloseWriteRefused, Close, CloseQueue, CloseTimeout
      <4>4. Calls(e) => UNCHANGED wire
        BY <2>2, <4>2, <4>3, Zenon DEF Calls
      <4> QED
        BY <1>0, <4>1, <4>4, ActsCases, Zenon
    <3>4. Late(wire[e], promised'[e])
      BY <3>2, Zenon DEF Late, Has, Fin
    <3> QED
      BY <3>3, <3>4 DEF LateInv
  <2> QED
    BY <2>1, <2>2
<1> QED
  BY <1>2, <1>3, PeerFacts, Zenon

\* An EOF or a close that arrives comes after what was promised.
LEMMA EndArrives ==
  ASSUME Types, NEW e \in End, Up(e), ~closedHere[e], wire[Peer(e)] # <<>>,
         Head(wire[Peer(e)]).kind \in Fin,
         \A x \in End : DataInv(x) /\ SealInv(x) /\ SentInv(x) /\ LateInv(x)
  PROVE  Sealed(Peer(e)) /\ promised[Peer(e)] <= Delivered(e)
<1> DEFINE p == Peer(e)
<1>0. p \in End /\ DataInv(e) /\ SealInv(p) /\ SentInv(p) /\ LateInv(p)
  BY PeerFacts, Zenon
<1>1. /\ wire[p] \in Seq(Envelopes) /\ promised[p] \in Nat /\ sent[p] \in Nat
      /\ Delivered(e) \in Nat
  BY <1>0, AtTypes, DeliveredNat, Zenon
<1>2. Head(wire[p]).kind = "eof" \/ Head(wire[p]).kind = "close"
  BY DEF Fin
<1>3. \A k : Head(wire[p]).kind = k => Has(wire[p], k)
  BY <1>1, HasTail, Zenon
<1>4. Sealed(p)
  BY <1>0, <1>2, <1>3 DEF SealInv, Ending
<1>5. /\ Carried(wire[p], Delivered(e), sent[p]) /\ Late(wire[p], promised[p])
      /\ promised[p] <= sent[p]
  BY <1>0, Zenon DEF DataInv, LateInv, SentInv
<1>6. promised[p] <= Delivered(e)
  BY <1>1, <1>5, LateHead
<1> QED
  BY <1>4, <1>6

LEMMA TruthInvKept ==
  ASSUME Types, Types', NEW e \in End, Acts(e),
         \A x \in End : /\ QueueInv(x) /\ CallInv(x) /\ SentInv(x) /\ DataInv(x)
                        /\ SealInv(x) /\ LateInv(x) /\ TruthInv(x)
  PROVE  \A x \in End : TruthInv(x)'
<1> DEFINE p == Peer(e)
<1>0. /\ QueueInv(e) /\ CallInv(e) /\ TruthInv(e) /\ TruthInv(p) /\ p \in End /\ Peer(p) = e
      /\ SameAt(p)
  BY ActsCases, PeerFacts, Zenon
<1>1. TruthInv(p)'
  <2>1. Sealed(e) => Sealed(e)' /\ promised'[e] = promised[e]
    BY <1>0, SealedStable, Zenon
  <2>2. /\ state'[p] = state[p] /\ session'[p] = session[p] /\ gotEOF'[p] = gotEOF[p]
        /\ closedHere'[p] = closedHere[p] /\ read'[p] = read[p]
    BY <1>0, Zenon DEF SameAt
  <2>3. Delivered(p)' = Delivered(p)
    BY <1>0 DEF Delivered, SameAt
  <2> QED
    BY <1>0, <2>1, <2>2, <2>3 DEF TruthInv
<1>2. TruthInv(e)'
  <2>0. Sealed(p)' = Sealed(p) /\ promised'[p] = promised[p]
    BY <1>0 DEF Sealed, SameAt
  <2>1. /\ promised[p] \in Nat /\ Delivered(e) \in Nat /\ Got(e) \in Nat
        /\ state \in [End -> States] /\ eofPc \in [End -> {"idle", "open", "remoteEOF"}]
        /\ closedHere \in [End -> BOOLEAN] /\ gotEOF \in [End -> BOOLEAN]
        /\ inTable[e] \in BOOLEAN
    BY <1>0, AtTypes, DeliveredNat, CreditTypes, Zenon DEF Types
  <2>2. /\ ~closedHere[e] /\ state[e] \in {"remoteEOF", "bothEOF", "closed"} /\ session[e] # "budget" =>
              Sealed(p) /\ promised[p] <= Delivered(e)
        /\ ~closedHere[e] /\ gotEOF[e] /\ session[e] \notin {"peer closed", "budget"} =>
              Sealed(p) /\ promised[p] <= Got(e)
    BY <1>0 DEF TruthInv, Got
  <2>3. ASSUME ~closedHere'[e] /\ state'[e] \in {"remoteEOF", "bothEOF", "closed"}
                  /\ session'[e] # "budget" =>
                  Sealed(p) /\ promised[p] <= Delivered(e)',
               ~closedHere'[e] /\ gotEOF'[e] /\ session'[e] \notin {"peer closed", "budget"} =>
                  Sealed(p) /\ promised[p] <= Got(e)'
        PROVE  TruthInv(e)'
    BY <2>0, <2>3 DEF TruthInv, Got
  <2>4. ASSUME NEW cause, NEW final, NEW w, Falls(e, cause, final, w) PROVE TruthInv(e)'
    <3>1. /\ Up(e) /\ session'[e] = cause /\ gotEOF'[e] = gotEOF[e] /\ closedHere'[e] = closedHere[e]
          /\ final = "failed" \/ (final = "closed" /\ cause = "budget")
          /\ read'[e] = read[e]
          /\ state'[e] = IF inTable[e] THEN final ELSE state[e]
          /\ ~inTable[e] => frames'[e] = frames[e]
      BY <2>4 DEF Falls
    <3>2. Got(e)' = Got(e)
      BY <3>1 DEF Got
    <3>3. ~inTable[e] => Delivered(e)' = Delivered(e)
      BY <3>1 DEF Delivered
    <3> QED
      BY <2>2, <2>3, <3>1, <3>2, <3>3 DEF Up
  <2>5. ASSUME UNCHANGED <<state, session, frames, read, gotEOF, closedHere>> PROVE TruthInv(e)'
    <3>1. Got(e)' = Got(e) /\ Delivered(e)' = Delivered(e)
      BY <2>5 DEF Got, Delivered
    <3> QED
      BY <2>2, <2>3, <2>5, <3>1
  <2>6. \/ Send(e) \/ SendQueue(e) \/ SendRefused(e) \/ RecvAdjust(e) \/ CloseWriteQueue(e)
        \/ CloseQueue(e) \/ WriteControl(e) \/ WriteOutbound(e) \/ HandleChannelWindowAdjust(e)
        => UNCHANGED <<state, session, frames, read, gotEOF, closedHere>>
    BY DEF Send, SendQueue, SendRefused, RecvAdjust, CloseWriteQueue, CloseQueue, WriteControl,
       WriteOutbound, HandleChannelWindowAdjust, historyVars
  \* Steps that leave what was read and queued.
  <2>7. ASSUME UNCHANGED <<session, frames, read, gotEOF, closedHere>>,
               ~closedHere[e] /\ state'[e] \in {"remoteEOF", "bothEOF", "closed"}
                  /\ session[e] # "budget" =>
                  Sealed(p) /\ promised[p] <= Delivered(e)
        PROVE  TruthInv(e)'
    <3>1. Got(e)' = Got(e) /\ Delivered(e)' = Delivered(e)
      BY <2>7 DEF Got, Delivered
    <3> QED
      BY <2>2, <2>3, <2>7, <3>1
  <2>8. CloseWrite(e) \/ CloseWriteRefused(e) => TruthInv(e)'
    <3> SUFFICES ASSUME CloseWrite(e) \/ CloseWriteRefused(e) PROVE TruthInv(e)'
      OBVIOUS
    <3>1. /\ UNCHANGED <<session, frames, read, gotEOF, closedHere>>
      BY DEF CloseWrite, CloseWriteRefused, historyVars
    <3>2. state'[e] \in {"remoteEOF", "bothEOF", "closed"} =>
             state[e] \in {"remoteEOF", "bothEOF", "closed"}
      BY <1>0, <2>1 DEF CloseWrite, CloseWriteRefused, Set, CallInv, canSendData
    <3> QED
      BY <2>2, <2>7, <3>1, <3>2
  <2>9. CloseTimeout(e) \/ EnqueueChannelCloseAck(e) => TruthInv(e)'
    <3> SUFFICES ASSUME CloseTimeout(e) \/ EnqueueChannelCloseAck(e) PROVE TruthInv(e)'
      OBVIOUS
    <3>1. /\ UNCHANGED <<session, frames, read, gotEOF, closedHere>> /\ state[e] = "closing"
      BY DEF CloseTimeout, EnqueueChannelCloseAck, Accepts, historyVars
    <3>2. closedHere[e]
      BY <1>0, <3>1 DEF CallInv
    <3> QED
      BY <2>7, <3>1, <3>2
  <2>10. Close(e) => TruthInv(e)'
    <3>1. Close(e) => closedHere'[e]
      BY <2>1 DEF Close, Set
    <3> QED
      BY <2>3, <3>1
  <2>11. EnqueueChannelEOF(e) \/ EnqueueChannelClose(e) => TruthInv(e)'
    <3> SUFFICES ASSUME EnqueueChannelEOF(e) \/ EnqueueChannelClose(e) PROVE TruthInv(e)'
      OBVIOUS
    <3>1. UNCHANGED <<session, frames, read, gotEOF, closedHere>>
      BY DEF EnqueueChannelEOF, EnqueueChannelClose, historyVars
    <3>2. Up(e) /\ wire[p] # <<>> /\ Head(wire[p]).kind \in Fin
      BY DEF EnqueueChannelEOF, EnqueueChannelClose, Arrives, Fin
    <3>3. ~closedHere[e] => Sealed(p) /\ promised[p] <= Delivered(e)
      BY <3>2, EndArrives, Zenon
    <3> QED
      BY <2>7, <3>1, <3>3
  <2>12. HandleChannelData(e) => TruthInv(e)'
    <3> SUFFICES ASSUME HandleChannelData(e) PROVE TruthInv(e)'
      OBVIOUS
    <3>1. UNCHANGED <<state, session, read, gotEOF, closedHere>> /\ state[e] \in canReceiveData
      BY DEF HandleChannelData, Accepts, historyVars
    <3>2. Got(e)' = Got(e)
      BY <3>1 DEF Got
    <3> QED
      BY <2>2, <2>3, <3>1, <3>2 DEF canReceiveData
  <2>13. RecvFrame(e) => TruthInv(e)'
    <3> SUFFICES ASSUME RecvFrame(e) PROVE TruthInv(e)'
      OBVIOUS
    <3>1. /\ UNCHANGED <<state, session, gotEOF, closedHere>> /\ frames[e] # <<>>
          /\ frames'[e] = Tail(frames[e]) /\ read'[e] = Append(read[e], Head(frames[e]))
      BY DEF RecvFrame, Types
    <3>2. read[e] \in Seq(Nat) /\ frames[e] \in Seq(Nat)
      BY AtTypes, Zenon
    <3>3. Head(frames[e]) \in Nat
      BY <3>1, <3>2
    <3>4. Len(read'[e]) = Len(read[e]) + 1 /\ Len(frames'[e]) = Len(frames[e]) - 1
      BY <3>1, <3>2, <3>3
    <3>5. Len(read[e]) \in Nat /\ Len(frames[e]) \in Nat
      BY DeliveredNat, Zenon
    <3>6. (Len(read[e]) + 1) + (Len(frames[e]) - 1) = Len(read[e]) + Len(frames[e])
      BY <3>5, SumFacts, Zenon
    <3>7. Len(read'[e]) + Len(frames'[e]) = Len(read[e]) + Len(frames[e])
      BY <3>4, <3>6, Zenon
    <3>8. Delivered(e)' = Delivered(e)
      BY <3>7, Zenon DEF Delivered
    <3>9. Got(e)' = Got(e) + 1
      BY <3>4, Zenon DEF Got
    <3>10. promised[p] <= Got(e) => promised[p] <= Got(e)'
      BY <2>1, <3>9
    <3>11. state'[e] = state[e] /\ session'[e] = session[e] /\ gotEOF'[e] = gotEOF[e]
           /\ closedHere'[e] = closedHere[e]
      BY <3>1
    <3> QED
      BY <2>2, <2>3, <3>8, <3>10, <3>11, Zenon
  <2>14. RecvEOF(e) => TruthInv(e)'
    <3> SUFFICES ASSUME RecvEOF(e) PROVE TruthInv(e)'
      OBVIOUS
    <3>1. /\ UNCHANGED <<state, session, frames, read, closedHere>> /\ frames[e] = <<>>
          /\ state[e] \in readEOF \/ session[e] = "peer closed"
      BY DEF RecvEOF
    <3>2. Got(e)' = Got(e) /\ Delivered(e)' = Delivered(e)
      BY <3>1 DEF Got, Delivered
    <3>3. Delivered(e) = Got(e)
      <4>1. Len(frames[e]) = 0 /\ Len(read[e]) \in Nat
        BY <3>1, DeliveredNat, EmptySeq
      <4>2. \A x \in Nat : \A y : y = 0 => x + y = x
        OBVIOUS
      <4> QED
        BY <4>1, <4>2, Zenon DEF Delivered, Got
    <3>4. ~closedHere[e] => state[e] # "closing"
      BY <1>0 DEF CallInv
    <3> QED
      BY <2>2, <2>3, <3>1, <3>2, <3>3, <3>4 DEF readEOF
  <2>15. CASE Calls(e) \/ Handles(e)
    BY <2>5, <2>6, <2>8, <2>9, <2>10, <2>11, <2>12, <2>13, <2>14, <2>15, Zenon DEF Calls,
       Handles
  <2> QED
    BY <1>0, <2>4, <2>15, ActsCases, Zenon
<1> QED
  BY <1>1, <1>2, PeerFacts, Zenon
-----------------------------------------------------------------------------
(* Confirmed closes.                                                       *)

LEMMA LastAppend ==
  ASSUME NEW q \in Seq(Envelopes), NEW m \in Envelopes, Last(q), ~Has(q, "close")
  PROVE  Last(Append(q, m))
<1> SUFFICES ASSUME NEW k \in Kinds PROVE NoneBehind(Append(q, m), "close", k)
  BY Zenon DEF Last
<1>1. NoneBehind(q, "close", k)
  BY Zenon DEF Last
<1> QED
  BY <1>1, NoneBehindAppend, Zenon

LEMMA LastTail ==
  ASSUME NEW q \in Seq(Envelopes), q # <<>>, Last(q)
  PROVE  /\ Last(Tail(q))
         /\ Head(q).kind = "close" => Tail(q) = <<>>
<1>1. \A k \in Kinds : NoneBehind(Tail(q), "close", k) /\ (Head(q).kind = "close" => ~Has(Tail(q), k))
  BY NoneBehindTail, Zenon DEF Last
<1>2. Tail(q) \in Seq(Envelopes)
  BY TailFacts, Zenon
<1> QED
  BY <1>1, <1>2, HasNone, Zenon DEF Last

LEMMA Ab == End = {"a", "b"} /\ "a" \in End /\ "b" \in End /\ Peer("a") = "b" /\ Peer("b") = "a"
BY DEF End, Peer

LEMMA TailKinds ==
  ASSUME NEW q \in Seq(Envelopes), q # <<>>
  PROVE  \A k \in Kinds : Has(q, k) <=> Has(Tail(q), k) \/ Head(q).kind = k
BY HasTail, Zenon

\* What an endpoint may still write.
LEMMA StreamFacts ==
  ASSUME Types, \A x \in End : Local(x), \A x \in End : StreamInv(x), NEW e \in End
  PROVE  /\ Has(outbound[e], "eof") \/ Has(wire[e], "eof") => state[e] \notin canSendData
         /\ Has(outbound[e], "data") => state[e] \in canSendData
         /\ Heard(Peer(e)) => state[e] \notin canSendData
         /\ gotEOF[e] /\ Heard(Peer(e)) => outbound[e] = <<>>
<1>1. Local(e) /\ StreamInv(e)
  OBVIOUS
<1>2. QueueInv(e) /\ SealInv(e)
  BY <1>1, Zenon DEF Local
<1>3. Has(outbound[e], "eof") \/ Has(wire[e], "eof") => state[e] \notin canSendData
  <2>1. Sealed(e) => state[e] \notin canSendData
    BY DEF Sealed, Over, canSendData
  <2> QED
    BY <1>2, <2>1, Zenon DEF SealInv, Ending
<1>4. /\ \A k : Has(outbound[e], k) => k \in {"data", "adjust", "eof"}
      /\ Has(outbound[e], "data") => sendPc[e] = "queued"
  BY <1>2, Zenon DEF QueueInv, OutboundOK, Has
<1>5. Has(outbound[e], "data") => state[e] \in canSendData
  BY <1>1, <1>4 DEF StreamInv
<1>6. Heard(Peer(e)) => state[e] \notin canSendData /\ ~Has(outbound[e], "eof")
  BY <1>1, Zenon DEF StreamInv
<1>7. ASSUME gotEOF[e], Heard(Peer(e)) PROVE outbound[e] = <<>>
  <2>1. ~Has(outbound[e], "adjust") /\ ~Has(outbound[e], "eof") /\ ~Has(outbound[e], "data")
    BY <1>1, <1>5, <1>6, <1>7, Zenon DEF StreamInv
  <2>2. \A k : ~Has(outbound[e], k)
    BY <1>4, <2>1
  <2>3. outbound[e] \in Seq(Envelopes)
    BY AtTypes, Zenon
  <2> QED
    BY <2>2, <2>3, HasNone, Zenon
<1> QED
  BY <1>3, <1>5, <1>6, <1>7, Zenon

\* How far the two endpoints are apart.
LEMMA CloseFacts ==
  ASSUME Types, \A x \in End : Local(x), Orderly
  PROVE  /\ Heard("a") => /\ gotEOF["b"] /\ Heard("b") /\ outbound["b"] = <<>>
                          /\ state["a"] \notin canSendData /\ state["b"] \notin canSendData
         /\ state["a"] \in {"closing", "closed"} => outbound["a"] = <<>> /\ Heard("a")
         /\ Has(wire["b"], "eof") => state["a"] \notin canSendData /\ ~Has(outbound["b"], "adjust")
<1>1. CloseInv /\ StreamInv("a") /\ StreamInv("b") /\ \A x \in End : StreamInv(x)
  BY Ab, Zenon DEF Orderly
<1>2. \A e \in End :
         /\ Has(outbound[e], "eof") \/ Has(wire[e], "eof") => state[e] \notin canSendData
         /\ Heard(Peer(e)) => state[e] \notin canSendData
         /\ gotEOF[e] /\ Heard(Peer(e)) => outbound[e] = <<>>
  BY <1>1, StreamFacts, Zenon
<1>3. /\ Has(wire["b"], "eof") => state["b"] \notin canSendData
      /\ Heard("a") => state["b"] \notin canSendData
      /\ Heard("b") => state["a"] \notin canSendData
      /\ gotEOF["a"] /\ Heard("b") => outbound["a"] = <<>>
      /\ gotEOF["b"] /\ Heard("a") => outbound["b"] = <<>>
  BY <1>2, Ab, Zenon
<1>4. /\ state["b"] \notin canSendData => gotEOF["b"]
      /\ gotEOF["b"] => Heard("b") /\ ~Has(outbound["b"], "adjust")
      /\ gotEOF["a"] => Heard("a")
      /\ state["a"] \in {"closing", "closed"} => gotEOF["a"]
  BY <1>1, Zenon DEF CloseInv, StreamInv
<1> QED
  BY <1>3, <1>4, Zenon

\* A wire that shortens, or not, keeps what its stream needs.
LEMMA StreamPeer ==
  ASSUME Types, NEW e \in End, QueueInv(e), Acts(e), StreamInv(Peer(e)),
         Heard(e)' => \/ Heard(e)
                      \/ /\ state[Peer(e)] \notin canSendData /\ eofPc[Peer(e)] = "idle"
                         /\ ~Has(outbound[Peer(e)], "eof") /\ ~Has(wire'[Peer(e)], "eof")
                         /\ ~Has(wire'[Peer(e)], "data"),
         gotEOF[Peer(e)] => sent'[e] = sent[e]
  PROVE  StreamInv(Peer(e))'
<1> DEFINE p == Peer(e)
<1>0. p \in End /\ Peer(p) = e /\ SameAt(p) /\ (wire'[p] = wire[p] \/ Taken(e))
  BY ActsCases, PeerFacts, Zenon
<1>1. wire[p] \in Seq(Envelopes)
  BY <1>0, AtTypes, Zenon
<1>2. \A k : Has(wire'[p], k) => Has(wire[p], k)
  BY <1>0, <1>1, HasTail, Zenon DEF Taken
<1>3. \A k, l : NoneBehind(wire[p], k, l) => NoneBehind(wire'[p], k, l)
  BY <1>0, <1>1, NoneBehindTail, Zenon DEF Taken
<1>4. Last(wire[p]) => Last(wire'[p])
  BY <1>3, Zenon DEF Last
<1>5. Got(p)' = Got(p)
  BY <1>0, Zenon DEF Got, SameAt
<1>6. Heard(p)' <=> Heard(p)
  BY <1>0, Zenon DEF Heard, SameAt
<1> QED
  BY <1>0, <1>2, <1>3, <1>4, <1>5, <1>6 DEF StreamInv, SameAt, Up

\* With confirmed closes and nothing to disturb them no session ends.
LEMMA NoEnds ==
  ASSUME Types, \A x \in End : Local(x), Orderly, Calm, NEW e \in End
  PROVE  /\ ~Ends(e) /\ ~SendRefused(e) /\ ~CloseWriteRefused(e) /\ ~CloseTimeout(e)
<1> DEFINE p == Peer(e)
<1>0. p \in End /\ Peer(p) = e
  BY PeerFacts
<1>1. ~Refuses /\ ~env.use.timeouts /\ e \notin env.use.leavers
  BY DEF Calm, Undisturbed, Refuses, Types
<1>2. ~SessionClose(e) /\ ~CloseTimeout(e)
  BY <1>1, Zenon DEF SessionClose, CloseTimeout
<1>3. /\ ~QueueRefused(e) /\ ~ReceiveRefused(e) /\ ~EnqueueChannelCloseRefused(e)
      /\ ~SendRefused(e) /\ ~CloseWriteRefused(e)
  BY <1>1, Zenon DEF QueueRefused, ReceiveRefused, EnqueueChannelCloseRefused, SendRefused,
     CloseWriteRefused
<1>4. StreamInv(e) /\ StreamInv(p) /\ CloseInv
  BY <1>0, Zenon DEF Orderly
<1>5. \A k : Arrives(e, k) => Has(wire[p], k) /\ wire[p] # <<>>
  <2>1. wire[p] \in Seq(Envelopes)
    BY <1>0, AtTypes, Zenon
  <2> QED
    BY <2>1, HasTail, Zenon DEF Arrives
<1>6. ~HandleDisconnect(e) /\ ~ReceiveHangup(e)
  BY <1>4, <1>5, Zenon DEF HandleDisconnect, ReceiveHangup, StreamInv
<1>7. state[e] \in States \ {"failed"} /\ (inTable[e] <=> state[e] # "closed")
  <2>1. inTable[e] <=> state[e] # "closed"
    BY <1>4, Zenon DEF StreamInv
  <2>2. state["a"] \in States \ {"failed"} /\ state["b"] \in States \ {"failed"}
    BY <1>4 DEF CloseInv, States
  <2> QED
    BY <2>1, <2>2 DEF End
<1>8. Heard(e) => ~Has(wire[p], "eof") /\ ~Has(wire[p], "data")
  BY <1>0, <1>4, Zenon DEF StreamInv
<1>9. ~(Arrives(e, "data") /\ ~Accepts(e, canReceiveData))
  BY <1>5, <1>7, <1>8 DEF Accepts, canReceiveData, States, Heard
<1>10. ~(Arrives(e, "eof") /\ ~Accepts(e, canReceiveData))
  BY <1>5, <1>7, <1>8 DEF Accepts, canReceiveData, States, Heard
<1>11. /\ state["a"] \in {"closing", "closed"} => Heard("a")
       /\ Heard("a") => ~Has(wire["b"], "adjust")
       /\ Has(wire["b"], "close") => state["a"] = "closing"
       /\ state["b"] = "closed" => wire["a"] = <<>>
       /\ state["b"] # "closing"
  BY <1>4 DEF CloseInv, Heard
<1>12. ~(Arrives(e, "adjust") /\ ~Accepts(e, allowsRequests))
  <2>1. CASE e = "a"
    BY <1>5, <1>7, <1>11, <2>1, Ab DEF Accepts, allowsRequests, States
  <2>2. CASE e = "b"
    BY <1>5, <1>7, <1>11, <2>2, Ab DEF Accepts, allowsRequests, States
  <2> QED
    BY <2>1, <2>2 DEF End
<1>13. ~(Arrives(e, "close") /\ ~Accepts(e, allowsRequests \cup {"closing"}))
  <2>1. CASE e = "a"
    BY <1>5, <1>7, <1>11, <2>1, Ab DEF Accepts, allowsRequests, States
  <2>2. CASE e = "b"
    BY <1>5, <1>7, <1>11, <2>2, Ab DEF Accepts, allowsRequests, States
  <2> QED
    BY <2>1, <2>2 DEF End
<1>14. ~ProtocolError(e)
  BY <1>9, <1>10, <1>12, <1>13, Zenon DEF ProtocolError
<1> QED
  BY <1>2, <1>3, <1>6, <1>14, Zenon DEF Ends

\* Steps that leave the states, the close and its queue alone.
LEMMA CloseSame ==
  ASSUME Types, \A x \in End : Local(x), Orderly, NEW e \in End, Acts(e),
         UNCHANGED <<state, closePc, control, closedHere>>,
         wire'[e] = wire[e], \A x \in End : gotEOF[x] => gotEOF'[x]
  PROVE  CloseInv'
<1> DEFINE p == Peer(e)
<1>0. p \in End /\ QueueInv(e)
  BY PeerFacts, Zenon DEF Local
<1>1. wire'[p] = wire[p] \/ (wire[p] # <<>> /\ wire'[p] = Tail(wire[p]))
  BY <1>0, ActsCases, Zenon DEF Taken
<1>2. ASSUME NEW x \in End
      PROVE  /\ \A k : Has(wire'[x], k) => Has(wire[x], k)
             /\ \A k, l : NoneBehind(wire[x], k, l) => NoneBehind(wire'[x], k, l)
             /\ wire[x] = <<>> => wire'[x] = <<>>
  <2>1. wire[x] \in Seq(Envelopes)
    BY AtTypes, Zenon
  <2>2. wire'[x] = wire[x] \/ (wire[x] # <<>> /\ wire'[x] = Tail(wire[x]))
    BY <1>1, PeerFacts, Zenon
  <2>3. CASE wire'[x] = wire[x]
    BY <2>3
  <2>4. CASE wire[x] # <<>> /\ wire'[x] = Tail(wire[x])
    <3>1. \A k : Has(wire'[x], k) => Has(wire[x], k)
      BY <2>1, <2>4, HasTail, Zenon
    <3>2. \A k, l : NoneBehind(wire[x], k, l) => NoneBehind(wire'[x], k, l)
      BY <2>1, <2>4, NoneBehindTail, Zenon
    <3> QED
      BY <2>4, <3>1, <3>2, Zenon
  <2> QED
    BY <2>2, <2>3, <2>4, Zenon
<1>3. /\ \A k : Has(wire'["a"], k) => Has(wire["a"], k)
      /\ \A k : Has(wire'["b"], k) => Has(wire["b"], k)
      /\ NoneBehind(wire["b"], "eof", "adjust") => NoneBehind(wire'["b"], "eof", "adjust")
      /\ wire["a"] = <<>> => wire'["a"] = <<>>
      /\ gotEOF["a"] => gotEOF'["a"]
      /\ gotEOF["b"] => gotEOF'["b"]
  BY <1>2, Ab, Zenon
<1>4. CloseInv
  BY DEF Orderly
<1>5. Heard("a")' <=> Heard("a")
  BY DEF Heard
<1> QED
  BY <1>3, <1>4, <1>5 DEF CloseInv

\* A queue that grows by one envelope.
LEMMA Grows ==
  ASSUME NEW q \in Seq(Envelopes), NEW k \in Kinds, NEW n \in Nat
  PROVE  /\ \A l : Has(Append(q, Msg(k, n)), l) <=> Has(q, l) \/ k = l
         /\ NoneBehind(q, "eof", "eof") /\ (k = "eof" => ~Has(q, "eof"))
               => NoneBehind(Append(q, Msg(k, n)), "eof", "eof")
         /\ NoneBehind(q, "close", "close") /\ ~Has(q, "close")
               => NoneBehind(Append(q, Msg(k, n)), "close", "close")
<1>1. Msg(k, n) \in Envelopes /\ Msg(k, n).kind = k
  BY MsgFacts, Zenon
<1>2. \A l : Has(Append(q, Msg(k, n)), l) <=> Has(q, l) \/ Msg(k, n).kind = l
  BY <1>1, HasAppend, Zenon
<1>3. ASSUME NEW l, NoneBehind(q, l, l), k = l => ~Has(q, l)
      PROVE  NoneBehind(Append(q, Msg(k, n)), l, l)
  BY <1>1, <1>3, NoneBehindAppend, Zenon
<1> QED
  BY <1>1, <1>2, <1>3

\* The stream of an endpoint after its own steps that write nothing.
LEMMA StreamCalls ==
  ASSUME Types, \A x \in End : Local(x), Orderly, Calm, NEW e \in End,
         \/ Send(e) \/ SendQueue(e) \/ RecvFrame(e) \/ RecvAdjust(e) \/ RecvEOF(e)
         \/ CloseWrite(e) \/ CloseWriteQueue(e) \/ Close(e) \/ CloseQueue(e)
  PROVE  StreamInv(e)'
<1> DEFINE p == Peer(e)
<1>0. p \in End /\ p # e /\ Peer(p) = e /\ StreamInv(e) /\ StreamInv(p) /\ CloseInv
  BY PeerFacts, Zenon DEF Orderly
<1>1. /\ state \in [End -> States] /\ inTable \in [End -> BOOLEAN]
      /\ frames \in [End -> Seq(Nat)] /\ read \in [End -> Seq(Nat)]
      /\ sendPc \in [End -> {"idle", "reserved", "queued"}]
      /\ eofPc \in [End -> {"idle", "open", "remoteEOF"}]
      /\ closePc \in [End -> {"idle", "queue", "timer"}]
      /\ adjusting \in [End -> 0..Threshold] /\ gotEOF \in [End -> BOOLEAN]
      /\ control \in [End -> Seq(Envelopes)] /\ outbound \in [End -> Seq(Envelopes)]
      /\ wire \in [End -> Seq(Envelopes)] /\ sent \in [End -> Nat]
      /\ control[e] \in Seq(Envelopes) /\ outbound[e] \in Seq(Envelopes)
  BY AtTypes, Zenon DEF Types
<1>2. /\ SameAt(p) /\ wire'[p] = wire[p]
  <2>1. Calls(e)
    BY Zenon DEF Calls
  <2> QED
    BY <2>1, CallsKeep, Zenon
<1>3. /\ CallInv(e) /\ QueueInv(e) /\ DataInv(e)
      /\ Has(outbound[e], "eof") \/ Has(wire[e], "eof") => state[e] \notin canSendData
      /\ Has(outbound[e], "data") => state[e] \in canSendData
  <2>1. \A x \in End : StreamInv(x)
    BY Zenon DEF Orderly
  <2> QED
    BY <2>1, StreamFacts, Zenon DEF Local
<1> HIDE DEF p
<1>5. sent'[p] = sent[p] /\ (Heard(p)' <=> Heard(p)) /\ Peer(e) = p
  BY <1>2, Zenon DEF SameAt, Heard, p
<1> USE DEF Set, windowVars, callVars, queueVars, historyVars
<1>6. CASE Send(e)
  <2>1. /\ state' = state /\ inTable' = inTable /\ frames' = frames /\ eofPc' = eofPc
        /\ adjusting' = adjusting /\ outbound' = outbound /\ wire' = wire /\ session' = session
        /\ gotEOF' = gotEOF /\ control' = control /\ Got(e)' = Got(e)
        /\ state[e] \in canSendData
    BY <1>6 DEF Send, Got
  <2> QED
    BY <1>0, <1>5, <2>1 DEF StreamInv, Up, Heard
<1>7. CASE SendQueue(e)
  <2>1. /\ state' = state /\ inTable' = inTable /\ frames' = frames /\ eofPc' = eofPc
        /\ adjusting' = adjusting /\ wire' = wire /\ session' = session
        /\ gotEOF' = gotEOF /\ control' = control /\ Got(e)' = Got(e)
        /\ sendPc[e] # "idle"
        /\ outbound'[e] = Append(outbound[e], Msg("data", sent[e] + 1))
    BY <1>1, <1>7 DEF SendQueue, Got
  <2>2. PICK n \in Nat : n = sent[e] + 1
    BY <1>1
  <2>3. /\ \A l : Has(outbound'[e], l) <=> Has(outbound[e], l) \/ l = "data"
        /\ NoneBehind(outbound[e], "eof", "eof") => NoneBehind(outbound'[e], "eof", "eof")
    <3>1. /\ \A l : Has(Append(outbound[e], Msg("data", n)), l)
                   <=> Has(outbound[e], l) \/ "data" = l
          /\ NoneBehind(outbound[e], "eof", "eof") /\ ("data" = "eof" => ~Has(outbound[e], "eof"))
                => NoneBehind(Append(outbound[e], Msg("data", n)), "eof", "eof")
      <4>1. "data" \in Kinds
        BY DEF Kinds
      <4> QED
        BY <1>1, <4>1, Grows, Zenon
    <3> QED
      BY <2>1, <2>2, <3>1
  <2> QED
    BY <1>0, <1>5, <2>1, <2>3 DEF StreamInv, Up, Heard
<1>8. CASE RecvFrame(e)
  <2>1. /\ state' = state /\ inTable' = inTable /\ eofPc' = eofPc /\ sendPc' = sendPc
        /\ outbound' = outbound /\ wire' = wire /\ session' = session
        /\ gotEOF' = gotEOF /\ control' = control /\ frames[e] # <<>>
    BY <1>8 DEF RecvFrame
  <2> QED
    BY <1>0, <1>5, <2>1 DEF StreamInv, Up, Heard
<1>9. CASE RecvAdjust(e)
  <2>1. /\ state' = state /\ inTable' = inTable /\ frames' = frames /\ eofPc' = eofPc
        /\ sendPc' = sendPc /\ wire' = wire /\ session' = session
        /\ gotEOF' = gotEOF /\ control' = control
        /\ adjusting[e] > 0
        /\ outbound'[e] = Append(outbound[e], Msg("adjust", adjusting[e]))
    BY <1>1, <1>9 DEF RecvAdjust
  <2>2. adjusting[e] \in Nat /\ "adjust" \in Kinds
    BY <1>1, PairAssumption DEF Kinds
  <2>3. /\ \A l : Has(outbound'[e], l) <=> Has(outbound[e], l) \/ l = "adjust"
        /\ NoneBehind(outbound[e], "eof", "eof") => NoneBehind(outbound'[e], "eof", "eof")
    <3>1. /\ \A l : Has(Append(outbound[e], Msg("adjust", adjusting[e])), l)
                   <=> Has(outbound[e], l) \/ "adjust" = l
          /\ NoneBehind(outbound[e], "eof", "eof") /\ ("adjust" = "eof" => ~Has(outbound[e], "eof"))
                => NoneBehind(Append(outbound[e], Msg("adjust", adjusting[e])), "eof", "eof")
      BY <1>1, <2>2, Grows, Zenon
    <3> QED
      BY <2>1, <3>1
  <2>4. ~gotEOF[e]
    BY <1>0, <2>1, <2>2 DEF StreamInv
  <2> QED
    BY <1>0, <1>5, <2>1, <2>3, <2>4 DEF StreamInv, Up, Heard
<1>10. CASE RecvEOF(e)
  <2>1. /\ state' = state /\ inTable' = inTable /\ frames' = frames /\ eofPc' = eofPc
        /\ sendPc' = sendPc /\ adjusting' = adjusting /\ outbound' = outbound /\ wire' = wire
        /\ session' = session /\ control' = control /\ read' = read
        /\ RecvIdle(e) /\ frames[e] = <<>> /\ ~gotEOF[e]
        /\ state[e] \in readEOF \/ session[e] = "peer closed"
    BY <1>10 DEF RecvEOF
  <2>2. adjusting[e] = 0 /\ ~Has(outbound[e], "adjust")
    BY <2>1, Zenon DEF RecvIdle, Has
  <2>3. Up(e) /\ Heard(e) /\ ~closedHere[e]
    BY <1>0, <2>1 DEF StreamInv, CloseInv, Up, Heard, readEOF, End
  <2>4. ~Has(wire[p], "data")
    BY <1>0, <2>3, Zenon DEF StreamInv
  <2>5. Carried(wire[p], Delivered(e), sent[p]) /\ Delivered(e) \in Nat /\ sent[p] \in Nat
    BY <1>0, <1>3, <1>5, <2>3, DeliveredNat, AtTypes, Zenon DEF DataInv
  <2>6. sent[p] <= Delivered(e)
    BY <2>4, <2>5, CarriedNone, Zenon
  <2>7. Delivered(e) = Got(e)
    <3>1. Len(frames[e]) = 0 /\ Len(read[e]) \in Nat
      BY <2>1, DeliveredNat, EmptySeq
    <3>2. \A x \in Nat : \A y : y = 0 => x + y = x
      OBVIOUS
    <3> QED
      BY <3>1, <3>2, Zenon DEF Delivered, Got
  <2>8. Got(e)' = Got(e)
    BY <2>1 DEF Got
  <2> QED
    BY <1>0, <1>5, <2>1, <2>2, <2>3, <2>6, <2>7, <2>8 DEF StreamInv, Up, Heard
<1>11. CASE CloseWrite(e)
  <2>1. /\ inTable' = inTable /\ frames' = frames
        /\ sendPc' = sendPc /\ adjusting' = adjusting /\ outbound' = outbound /\ wire' = wire
        /\ session' = session /\ control' = control /\ Got(e)' = Got(e) /\ gotEOF' = gotEOF
        /\ state[e] \in canSendData
        /\ state'[e] = IF state[e] = "open" THEN "localEOF" ELSE "bothEOF"
        /\ MayCloseWrite(e)
    BY <1>1, <1>11 DEF CloseWrite, Got
  <2>2. sendPc[e] = "idle"
    BY <2>1 DEF MayCloseWrite, Calm
  <2> QED
    BY <1>0, <1>3, <1>5, <2>1, <2>2 DEF StreamInv, Up, Heard, canSendData
<1>12. CASE CloseWriteQueue(e)
  <2>1. /\ state' = state /\ inTable' = inTable /\ frames' = frames /\ eofPc'[e] = "idle"
        /\ sendPc' = sendPc /\ adjusting' = adjusting /\ wire' = wire /\ session' = session
        /\ gotEOF' = gotEOF /\ control' = control /\ Got(e)' = Got(e)
        /\ eofPc[e] # "idle"
        /\ outbound'[e] = Append(outbound[e], Msg("eof", 0))
    BY <1>1, <1>12 DEF CloseWriteQueue, Got, canSendData
  <2>2. ~Has(outbound[e], "eof") /\ ~Has(wire[e], "eof") /\ ~Heard(p)
    BY <1>0, <1>5, <2>1, Zenon DEF StreamInv
  <2>3. /\ \A l : Has(outbound'[e], l) <=> Has(outbound[e], l) \/ l = "eof"
        /\ NoneBehind(outbound[e], "eof", "eof") => NoneBehind(outbound'[e], "eof", "eof")
    <3>1. "eof" \in Kinds /\ 0 \in Nat
      BY DEF Kinds
    <3>2. /\ \A l : Has(Append(outbound[e], Msg("eof", 0)), l) <=> Has(outbound[e], l) \/ "eof" = l
          /\ NoneBehind(outbound[e], "eof", "eof") /\ ~Has(outbound[e], "eof")
                => NoneBehind(Append(outbound[e], Msg("eof", 0)), "eof", "eof")
      BY <1>1, <3>1, Grows, Zenon
    <3> QED
      BY <2>1, <2>2, <3>2
  <2> QED
    BY <1>0, <1>5, <2>1, <2>2, <2>3 DEF StreamInv, Up, Heard
<1>13. CASE Close(e)
  <2>1. /\ inTable' = inTable /\ frames'[e] = <<>> /\ eofPc' = eofPc
        /\ sendPc' = sendPc /\ adjusting' = adjusting /\ outbound' = outbound /\ wire' = wire
        /\ session' = session /\ control' = control /\ Got(e)' = Got(e) /\ gotEOF' = gotEOF
        /\ state[e] \in allowsRequests /\ state'[e] = "closing" /\ MayClose(e)
    BY <1>1, <1>13 DEF Close, Got
  <2>2. e = "a" /\ gotEOF[e]
    BY <2>1 DEF MayClose, Calm
  <2>3. Heard(e)
    BY <1>0, <2>2, Zenon DEF StreamInv
  <2>4. state[e] \notin canSendData
    BY <2>2, <2>3, CloseFacts, Zenon
  <2> QED
    BY <1>0, <1>5, <2>1, <2>4 DEF StreamInv, Up, Heard, canSendData, allowsRequests
<1>14. CASE CloseQueue(e)
  <2>1. /\ state' = state /\ inTable' = inTable /\ frames' = frames /\ eofPc' = eofPc
        /\ sendPc' = sendPc /\ adjusting' = adjusting /\ wire' = wire /\ session' = session
        /\ gotEOF' = gotEOF /\ outbound' = outbound /\ Got(e)' = Got(e)
        /\ closePc[e] = "queue"
        /\ control'[e] = Append(control[e], Msg("close", 0))
    BY <1>1, <1>14 DEF CloseQueue, Got
  <2>2. ~Has(control[e], "close")
    BY <1>0, <1>3, <2>1 DEF CallInv, CloseInv, End
  <2>3. NoneBehind(control[e], "close", "close") => NoneBehind(control'[e], "close", "close")
    <3>1. "close" \in Kinds /\ 0 \in Nat
      BY DEF Kinds
    <3>2. NoneBehind(control[e], "close", "close") /\ ~Has(control[e], "close")
             => NoneBehind(Append(control[e], Msg("close", 0)), "close", "close")
      BY <1>1, <3>1, Grows, Zenon
    <3> QED
      BY <2>1, <2>2, <3>2
  <2> QED
    BY <1>0, <1>5, <2>1, <2>3 DEF StreamInv, Up, Heard
<1> QED
  BY <1>6, <1>7, <1>8, <1>9, <1>10, <1>11, <1>12, <1>13, <1>14

\* The stream of an endpoint after a write.
LEMMA StreamWrites ==
  ASSUME Types, \A x \in End : Local(x), Orderly, Calm, NEW e \in End,
         WriteControl(e) \/ WriteOutbound(e)
  PROVE  StreamInv(e)'
<1> DEFINE p == Peer(e)
<1>0. p \in End /\ p # e /\ Peer(p) = e /\ StreamInv(e) /\ StreamInv(p) /\ CloseInv
  BY PeerFacts, Zenon DEF Orderly
<1>1. /\ control \in [End -> Seq(Envelopes)] /\ outbound \in [End -> Seq(Envelopes)]
      /\ wire \in [End -> Seq(Envelopes)] /\ sent \in [End -> Nat]
      /\ sendPc \in [End -> {"idle", "reserved", "queued"}]
      /\ control[e] \in Seq(Envelopes) /\ outbound[e] \in Seq(Envelopes)
      /\ wire[e] \in Seq(Envelopes)
  BY AtTypes, Zenon DEF Types
<1>2. SameAt(p)
  <2>1. Calls(e)
    BY Zenon DEF Calls
  <2> QED
    BY <2>1, CallsKeep, Zenon
<1>3. /\ QueueInv(e)
      /\ Has(outbound[e], "eof") \/ Has(wire[e], "eof") => state[e] \notin canSendData
      /\ Has(outbound[e], "data") => state[e] \in canSendData
  <2>1. \A x \in End : StreamInv(x)
    BY Zenon DEF Orderly
  <2> QED
    BY <2>1, StreamFacts, Zenon DEF Local
<1> HIDE DEF p
<1>4. sent'[p] = sent[p] /\ (Heard(p)' <=> Heard(p)) /\ Peer(e) = p
  BY <1>2, Zenon DEF SameAt, Heard, p
<1> USE DEF Set, windowVars, callVars, queueVars, historyVars
<1>5. CASE WriteControl(e)
  <2>1. /\ state' = state /\ inTable' = inTable /\ frames' = frames /\ eofPc' = eofPc
        /\ sendPc' = sendPc /\ adjusting' = adjusting /\ session' = session
        /\ gotEOF' = gotEOF /\ outbound' = outbound /\ Got(e)' = Got(e)
        /\ control[e] # <<>> /\ control'[e] = Tail(control[e])
        /\ wire'[e] = Append(wire[e], Head(control[e]))
    BY <1>1, <1>5 DEF WriteControl, Got
  <2>2. Head(control[e]) \in Envelopes /\ Head(control[e]).kind = "close"
    BY <1>3, <2>1, ControlHead, Zenon
  <2>3. Has(control[e], "close")
    BY <1>1, <2>1, <2>2, HasTail, Zenon
  <2>4. ~Has(wire[e], "close")
    BY <1>0, <2>3 DEF CloseInv, End
  <2>5. NoneBehind(control[e], "close", "close") => NoneBehind(Tail(control[e]), "close", "close")
    BY <1>1, <2>1, NoneBehindTail, Zenon
  <2>6. \A k : Has(Append(wire[e], Head(control[e])), k)
              <=> Has(wire[e], k) \/ Head(control[e]).kind = k
    BY <1>1, <2>2, HasAppend, Zenon
  <2>7. /\ NoneBehind(wire[e], "eof", "data")
              => NoneBehind(Append(wire[e], Head(control[e])), "eof", "data")
        /\ NoneBehind(wire[e], "eof", "eof")
              => NoneBehind(Append(wire[e], Head(control[e])), "eof", "eof")
    BY <1>1, <2>2, NoneBehindAppend
  <2>8. Last(wire[e]) => Last(Append(wire[e], Head(control[e])))
    BY <1>1, <2>2, <2>4, LastAppend, Zenon
  <2> QED
    BY <1>0, <1>4, <2>1, <2>2, <2>5, <2>6, <2>7, <2>8 DEF StreamInv, Up, Heard
<1>6. CASE WriteOutbound(e)
  <2> DEFINE m == Head(outbound[e])
  <2>1. /\ state' = state /\ inTable' = inTable /\ frames' = frames /\ eofPc' = eofPc
        /\ adjusting' = adjusting /\ session' = session /\ control' = control
        /\ gotEOF' = gotEOF /\ Got(e)' = Got(e)
        /\ outbound[e] # <<>> /\ outbound'[e] = Tail(outbound[e])
        /\ wire'[e] = Append(wire[e], m)
        /\ sendPc'[e] = IF m.kind = "data" THEN "idle" ELSE sendPc[e]
    BY <1>1, <1>6 DEF WriteOutbound, Got
  <2>2. m \in Envelopes /\ m.kind \in {"data", "adjust", "eof"}
    BY <1>3, <2>1, OutboundHead, Zenon
  <2>3. \A k : Has(outbound[e], k) <=> Has(Tail(outbound[e]), k) \/ m.kind = k
    BY <1>1, <2>1, HasTail, Zenon
  <2>4. ~Has(wire[e], "close")
    <3>1. state["a"] = "closing" => outbound["a"] = <<>> /\ outbound["b"] = <<>>
      BY CloseFacts
    <3>2. Has(wire[e], "close") => state["a"] = "closing"
      BY <1>0 DEF CloseInv, End
    <3> QED
      BY <2>1, <3>1, <3>2 DEF End
  <2>5. NoneBehind(outbound[e], "eof", "eof")
    BY <1>0, Zenon DEF StreamInv
  <2>6. /\ NoneBehind(Tail(outbound[e]), "eof", "eof")
        /\ m.kind = "eof" => ~Has(Tail(outbound[e]), "eof")
    BY <1>1, <2>1, <2>5, NoneBehindTail, Zenon
  <2>7. /\ m.kind = "data" => state[e] \in canSendData /\ ~Has(wire[e], "eof")
        /\ m.kind = "eof" => ~Has(wire[e], "eof") /\ eofPc[e] = "idle"
    BY <1>0, <1>3, <2>3, Zenon DEF StreamInv
  <2>8. \A k : Has(Append(wire[e], m), k) <=> Has(wire[e], k) \/ m.kind = k
    BY <1>1, <2>2, HasAppend, Zenon
  <2>9. /\ NoneBehind(wire[e], "eof", "data") => NoneBehind(Append(wire[e], m), "eof", "data")
        /\ NoneBehind(wire[e], "eof", "eof") => NoneBehind(Append(wire[e], m), "eof", "eof")
    BY <1>1, <2>2, <2>7, NoneBehindAppend, Zenon
  <2>10. Last(wire[e]) => Last(Append(wire[e], m))
    BY <1>1, <2>2, <2>4, LastAppend, Zenon
  <2> HIDE DEF m
  <2> QED
    BY <1>0, <1>4, <2>1, <2>2, <2>3, <2>6, <2>7, <2>8, <2>9, <2>10 DEF StreamInv, Up, Heard
<1> QED
  BY <1>5, <1>6

\* The stream of an endpoint after an envelope of its peer.
LEMMA StreamHandles ==
  ASSUME Types, \A x \in End : Local(x), Orderly, Calm, NEW e \in End, Handles(e)
  PROVE  StreamInv(e)'
<1> DEFINE p == Peer(e)
<1>0. p \in End /\ p # e /\ Peer(p) = e /\ StreamInv(e) /\ StreamInv(p) /\ CloseInv
  BY PeerFacts, Zenon DEF Orderly
<1>1. /\ control \in [End -> Seq(Envelopes)] /\ frames \in [End -> Seq(Nat)]
      /\ state \in [End -> States] /\ inTable \in [End -> BOOLEAN]
      /\ control[e] \in Seq(Envelopes) /\ wire[p] \in Seq(Envelopes)
  BY <1>0, AtTypes, Zenon DEF Types
<1>2. SameAt(p) /\ wire'[e] = wire[e]
  BY HandlesKeep, Zenon
<1>3. \A k : Arrives(e, k) => Has(wire[p], k)
  BY <1>1, HasTail, Zenon DEF Arrives
<1> HIDE DEF p
<1>4. sent'[p] = sent[p] /\ (Heard(p)' <=> Heard(p)) /\ Peer(e) = p
  BY <1>2, Zenon DEF SameAt, Heard, p
<1> USE DEF Set, windowVars, callVars, queueVars, historyVars
<1>5. CASE HandleChannelData(e)
  <2>1. /\ state' = state /\ inTable' = inTable /\ eofPc' = eofPc
        /\ sendPc' = sendPc /\ session' = session /\ control' = control
        /\ gotEOF' = gotEOF /\ outbound' = outbound /\ Arrives(e, "data")
    BY <1>5 DEF HandleChannelData
  <2>2. ~gotEOF[e]
    BY <1>0, <1>3, <2>1, Zenon DEF StreamInv
  <2> QED
    BY <1>0, <1>2, <1>4, <2>1, <2>2 DEF StreamInv, Up, Heard
<1>6. CASE HandleChannelWindowAdjust(e)
  <2>1. /\ state' = state /\ inTable' = inTable /\ eofPc' = eofPc /\ frames' = frames
        /\ sendPc' = sendPc /\ session' = session /\ control' = control
        /\ adjusting' = adjusting /\ gotEOF' = gotEOF /\ outbound' = outbound /\ Got(e)' = Got(e)
    BY <1>6 DEF HandleChannelWindowAdjust, Got
  <2> QED
    BY <1>0, <1>2, <1>4, <2>1 DEF StreamInv, Up, Heard
<1>7. CASE EnqueueChannelEOF(e)
  <2>1. /\ inTable' = inTable /\ eofPc' = eofPc /\ frames' = frames
        /\ sendPc' = sendPc /\ session' = session /\ control' = control
        /\ adjusting' = adjusting /\ gotEOF' = gotEOF /\ outbound' = outbound /\ Got(e)' = Got(e)
        /\ state[e] \in canReceiveData
        /\ state'[e] = IF state[e] = "open" THEN "remoteEOF" ELSE "bothEOF"
    BY <1>1, <1>7 DEF EnqueueChannelEOF, Got, Accepts
  <2> QED
    BY <1>0, <1>2, <1>4, <2>1 DEF StreamInv, Up, Heard, canReceiveData, canSendData
<1>8. CASE EnqueueChannelClose(e)
  <2>1. /\ eofPc' = eofPc /\ frames' = frames
        /\ sendPc' = sendPc /\ session' = session
        /\ adjusting' = adjusting /\ gotEOF' = gotEOF /\ outbound' = outbound /\ Got(e)' = Got(e)
        /\ state[e] \in allowsRequests /\ state'[e] = "closed" /\ inTable'[e] = FALSE
        /\ control'[e] = Append(control[e], Msg("close", 0)) /\ Arrives(e, "close")
    BY <1>1, <1>8 DEF EnqueueChannelClose, Got, Accepts
  <2>2. e = "b" /\ p = "a" /\ state["a"] = "closing"
    <3>1. Has(wire["b"], "close") \/ Has(wire["a"], "close") => state["a"] = "closing"
      BY <1>0 DEF CloseInv
    <3> QED
      BY <1>3, <1>4, <2>1, <3>1, Ab DEF allowsRequests
  <2>3. state[e] \notin canSendData /\ ~Has(control[e], "close")
    <3>1. state["b"] \notin canSendData
      BY <2>2, CloseFacts
    <3> QED
      BY <1>0, <2>1, <2>2, <3>1 DEF CloseInv, allowsRequests
  <2>4. NoneBehind(control[e], "close", "close") => NoneBehind(control'[e], "close", "close")
    <3>1. "close" \in Kinds /\ 0 \in Nat
      BY DEF Kinds
    <3>2. NoneBehind(control[e], "close", "close") /\ ~Has(control[e], "close")
             => NoneBehind(Append(control[e], Msg("close", 0)), "close", "close")
      BY <1>1, <3>1, Grows, Zenon
    <3> QED
      BY <2>1, <2>3, <3>2
  <2> QED
    BY <1>0, <1>2, <1>4, <2>1, <2>3, <2>4 DEF StreamInv, Up, Heard, canSendData
<1>9. CASE EnqueueChannelCloseAck(e)
  <2>1. /\ eofPc' = eofPc /\ frames' = frames
        /\ sendPc' = sendPc /\ session' = session /\ control' = control
        /\ adjusting' = adjusting /\ gotEOF' = gotEOF /\ outbound' = outbound /\ Got(e)' = Got(e)
        /\ state[e] = "closing" /\ state'[e] = "closed" /\ inTable'[e] = FALSE
    BY <1>1, <1>9 DEF EnqueueChannelCloseAck, Got, Accepts
  <2> QED
    BY <1>0, <1>2, <1>4, <2>1 DEF StreamInv, Up, Heard, canSendData
<1> QED
  BY <1>5, <1>6, <1>7, <1>8, <1>9 DEF Handles

\* An EOF that arrives is the last of its stream.
LEMMA EOFArrives ==
  ASSUME Types, \A x \in End : Local(x), Orderly, NEW e \in End, EnqueueChannelEOF(e)
  PROVE  /\ Has(wire[Peer(e)], "eof") /\ state[Peer(e)] \notin canSendData
         /\ eofPc[Peer(e)] = "idle" /\ ~Has(outbound[Peer(e)], "eof")
         /\ \A k \in {"eof", "data"} : ~Has(wire'[Peer(e)], k)
<1> DEFINE p == Peer(e)
<1>0. p \in End /\ StreamInv(p) /\ \A x \in End : StreamInv(x)
  BY PeerFacts, Zenon DEF Orderly
<1>1. wire[p] \in Seq(Envelopes) /\ wire[p] # <<>> /\ Head(wire[p]).kind = "eof"
  BY <1>0, AtTypes, Zenon DEF EnqueueChannelEOF, Arrives
<1>2. wire'[p] = Tail(wire[p])
  BY HandlesKeep, Zenon DEF Handles, Taken
<1>3. Has(wire[p], "eof")
  BY <1>1, HasTail, Zenon
<1>4. /\ NoneBehind(wire[p], "eof", "data") /\ NoneBehind(wire[p], "eof", "eof")
      /\ eofPc[p] = "idle" /\ ~Has(outbound[p], "eof")
  BY <1>0, <1>3, Zenon DEF StreamInv
<1>5. ~Has(Tail(wire[p]), "eof") /\ ~Has(Tail(wire[p]), "data")
  BY <1>1, <1>4, NoneBehindTail, Zenon
<1>6. state[p] \notin canSendData
  BY <1>0, <1>3, StreamFacts, Zenon
<1> QED
  BY <1>2, <1>3, <1>4, <1>5, <1>6

LEMMA StreamKept ==
  ASSUME Types, \A x \in End : Local(x), Orderly, Calm, NEW e \in End, Acts(e)
  PROVE  \A x \in End : StreamInv(x)'
<1> DEFINE p == Peer(e)
<1>0. /\ p \in End /\ StreamInv(e) /\ StreamInv(p) /\ CloseInv /\ Peer(p) = e
      /\ QueueInv(e) /\ \A x \in End : StreamInv(x)
  BY PeerFacts, Zenon DEF Orderly, Local
<1>1. ~Ends(e) /\ ~SendRefused(e) /\ ~CloseWriteRefused(e) /\ ~CloseTimeout(e)
  BY NoEnds, Zenon
<1>2. StreamInv(e)'
  <2>1. CASE Calls(e)
    BY <1>1, <2>1, StreamCalls, StreamWrites, Zenon DEF Calls
  <2>2. CASE Handles(e)
    BY <2>2, StreamHandles, Zenon
  <2> QED
    BY <1>1, <2>1, <2>2, Zenon DEF Acts
<1>3. Heard(e)' => \/ Heard(e)
                   \/ /\ state[p] \notin canSendData /\ eofPc[p] = "idle"
                      /\ ~Has(outbound[p], "eof") /\ ~Has(wire'[p], "eof") /\ ~Has(wire'[p], "data")
  <2>0. state \in [End -> States]
    BY DEF Types
  <2>1. ASSUME UNCHANGED state PROVE Heard(e)' => Heard(e)
    BY <2>1 DEF Heard
  <2>2. \/ Send(e) \/ SendQueue(e) \/ RecvFrame(e) \/ RecvAdjust(e) \/ RecvEOF(e)
        \/ CloseWriteQueue(e) \/ CloseQueue(e) \/ WriteControl(e) \/ WriteOutbound(e)
        \/ HandleChannelData(e) \/ HandleChannelWindowAdjust(e)
        => UNCHANGED state
    BY DEF Send, SendQueue, RecvFrame, RecvAdjust, RecvEOF, CloseWriteQueue, CloseQueue,
       WriteControl, WriteOutbound, HandleChannelData, HandleChannelWindowAdjust
  <2>3. CloseWrite(e) => (Heard(e)' => Heard(e))
    BY <2>0 DEF CloseWrite, Set, Heard, canSendData
  <2>4. Close(e) => Heard(e)
    BY <1>0 DEF Close, MayClose, Calm, StreamInv
  <2>5. EnqueueChannelEOF(e) =>
           /\ state[p] \notin canSendData /\ eofPc[p] = "idle"
           /\ ~Has(outbound[p], "eof") /\ ~Has(wire'[p], "eof") /\ ~Has(wire'[p], "data")
    BY EOFArrives
  <2>6. EnqueueChannelClose(e) => Heard(e)
    <3> SUFFICES ASSUME EnqueueChannelClose(e) PROVE Heard(e)
      OBVIOUS
    <3>1. Has(wire[p], "close") /\ state[e] \in allowsRequests
      <4>1. wire[p] \in Seq(Envelopes)
        BY <1>0, AtTypes, Zenon
      <4> QED
        BY <4>1, HasTail, Zenon DEF EnqueueChannelClose, Arrives, Accepts
    <3>2. state["a"] = "closing"
      BY <1>0, <3>1, Ab DEF CloseInv
    <3>3. Heard("a") /\ Heard("b")
      BY <3>2, CloseFacts
    <3> QED
      BY <3>3 DEF End
  <2>7. EnqueueChannelCloseAck(e) => Heard(e)
    BY DEF EnqueueChannelCloseAck, Accepts, Heard
  <2>8. CASE Calls(e)
    <3>1. state' = state \/ CloseWrite(e) \/ Close(e)
      BY <1>1, <2>2, <2>8 DEF Calls
    <3> QED
      BY <2>1, <2>3, <2>4, <3>1
  <2>9. CASE Handles(e)
    <3>1. \/ state' = state \/ EnqueueChannelEOF(e) \/ EnqueueChannelClose(e)
          \/ EnqueueChannelCloseAck(e)
      BY <2>2, <2>9 DEF Handles
    <3> QED
      BY <2>1, <2>5, <2>6, <2>7, <3>1
  <2> QED
    BY <1>1, <2>8, <2>9, Zenon DEF Acts
<1>4. gotEOF[p] => sent'[e] = sent[e]
  <2> SUFFICES ASSUME gotEOF[p] PROVE sent'[e] = sent[e]
    OBVIOUS
  <2>1. ~Has(outbound[e], "data")
    <3>1. Heard(p) /\ (Heard(p) => state[e] \notin canSendData)
      BY <1>0, Zenon DEF StreamInv
    <3> QED
      BY <1>0, <3>1, StreamFacts, Zenon
  <2>2. WriteOutbound(e) => sent'[e] = sent[e]
    <3> SUFFICES ASSUME WriteOutbound(e) PROVE sent'[e] = sent[e]
      OBVIOUS
    <3>1. /\ outbound[e] # <<>>
          /\ sent'[e] = IF Head(outbound[e]).kind = "data" THEN Head(outbound[e]).n ELSE sent[e]
      BY DEF WriteOutbound, Set, Types
    <3>2. outbound[e] \in Seq(Envelopes)
      BY AtTypes, Zenon
    <3>3. Head(outbound[e]).kind # "data"
      BY <2>1, <3>1, <3>2, HasTail, Zenon
    <3> QED
      BY <3>1, <3>3
  <2>3. Calls(e) /\ ~WriteOutbound(e) => UNCHANGED sent
    BY DEF Calls, Send, SendQueue, SendRefused, RecvFrame, RecvAdjust, RecvEOF, CloseWrite,
       CloseWriteQueue, CloseWriteRefused, Close, CloseQueue, CloseTimeout, WriteControl, historyVars
  <2>4. Handles(e) => UNCHANGED sent
    BY DEF Handles, HandleChannelData, HandleChannelWindowAdjust, EnqueueChannelEOF,
       EnqueueChannelClose, EnqueueChannelCloseAck, historyVars
  <2> QED
    BY <1>1, <2>2, <2>3, <2>4, Zenon DEF Acts
<1>5. StreamInv(p)'
  BY <1>0, <1>3, <1>4, StreamPeer, Zenon
<1> QED
  BY <1>2, <1>5, PeerFacts, Zenon

\* Who closes, after the calls that end the writing or the channel.
LEMMA CloseCalls ==
  ASSUME Types, \A x \in End : Local(x), Orderly, Calm, NEW e \in End,
         CloseWrite(e) \/ Close(e) \/ CloseQueue(e)
  PROVE  CloseInv'
<1>0. CloseInv /\ StreamInv("a") /\ StreamInv("b") /\ StreamInv(e)
  BY Ab, Zenon DEF Orderly
<1>1. /\ state \in [End -> States] /\ closePc \in [End -> {"idle", "queue", "timer"}]
      /\ closedHere \in [End -> BOOLEAN] /\ control \in [End -> Seq(Envelopes)]
      /\ control["a"] \in Seq(Envelopes) /\ "a" \in End /\ "b" \in End /\ CallInv(e)
      /\ DOMAIN state = End
  BY AtTypes, Ab, Zenon DEF Types, Local
<1>2. /\ Heard("a") => gotEOF["b"] /\ Heard("b")
      /\ gotEOF["a"] => Heard("a")
      /\ gotEOF["b"] => Heard("b")
  BY <1>0, CloseFacts DEF StreamInv
<1> USE DEF Set, windowVars, callVars, queueVars, historyVars
<1>3. CASE CloseWrite(e)
  <2>1. /\ closePc' = closePc /\ closedHere' = closedHere /\ control' = control /\ wire' = wire
        /\ gotEOF' = gotEOF /\ state[e] \in canSendData /\ MayCloseWrite(e)
        /\ state'[e] = IF state[e] = "open" THEN "localEOF" ELSE "bothEOF"
        /\ \A x \in End : x # e => state'[x] = state[x]
    BY <1>1, <1>3 DEF CloseWrite
  <2>2. CASE e = "a"
    BY <1>0, <1>1, <2>1, <2>2 DEF CloseInv, Heard, canSendData
  <2>3. CASE e = "b"
    <3>1. gotEOF["b"]
      BY <2>1, <2>3 DEF MayCloseWrite, Calm
    <3> QED
      BY <1>0, <1>1, <1>2, <2>1, <2>3, <3>1 DEF CloseInv, Heard, canSendData
  <2> QED
    BY <2>2, <2>3 DEF End
<1>4. CASE Close(e)
  <2>0. e = "a" /\ gotEOF["a"]
    BY <1>4 DEF Close, MayClose, Calm
  <2>1. /\ control' = control /\ wire' = wire /\ gotEOF' = gotEOF
        /\ state["a"] \in allowsRequests /\ state'["a"] = "closing" /\ state'["b"] = state["b"]
        /\ closedHere'["a"] = TRUE /\ closedHere'["b"] = closedHere["b"] /\ closePc'["a"] = "queue"
    BY <1>1, <1>4, <2>0 DEF Close
  <2> QED
    BY <1>0, <1>2, <2>0, <2>1 DEF CloseInv, Heard, allowsRequests
<1>5. CASE CloseQueue(e)
  <2>0. e = "a" /\ closePc["a"] = "queue"
    BY <1>0, <1>1, <1>5 DEF CloseQueue, CallInv, CloseInv, End
  <2>1. /\ state' = state /\ closedHere' = closedHere /\ wire' = wire /\ gotEOF' = gotEOF
        /\ closePc'["a"] = "timer" /\ control'["b"] = control["b"]
    BY <1>1, <1>5, <2>0 DEF CloseQueue
  <2> QED
    BY <1>0, <2>0, <2>1 DEF CloseInv, Heard
<1> QED
  BY <1>3, <1>4, <1>5

\* Where the close is, after a write.
LEMMA CloseWrites ==
  ASSUME Types, \A x \in End : Local(x), Orderly, Calm, NEW e \in End,
         WriteControl(e) \/ WriteOutbound(e)
  PROVE  CloseInv'
<1>0. CloseInv /\ StreamInv("a") /\ StreamInv("b") /\ StreamInv(e) /\ QueueInv(e)
  BY Ab, Zenon DEF Orderly, Local
<1>1. /\ control \in [End -> Seq(Envelopes)] /\ outbound \in [End -> Seq(Envelopes)]
      /\ wire \in [End -> Seq(Envelopes)] /\ "a" \in End /\ "b" \in End
      /\ control[e] \in Seq(Envelopes) /\ outbound[e] \in Seq(Envelopes)
      /\ wire[e] \in Seq(Envelopes)
  BY AtTypes, Ab, Zenon DEF Types
<1> USE DEF Set, windowVars, callVars, queueVars, historyVars
<1>2. CASE WriteControl(e)
  <2> DEFINE m == Head(control[e])
  <2>1. /\ state' = state /\ closePc' = closePc /\ closedHere' = closedHere /\ gotEOF' = gotEOF
        /\ control[e] # <<>> /\ control'[e] = Tail(control[e]) /\ wire'[e] = Append(wire[e], m)
        /\ \A x \in End : x # e => control'[x] = control[x] /\ wire'[x] = wire[x]
    BY <1>1, <1>2 DEF WriteControl
  <2>2. m \in Envelopes /\ m.kind = "close"
    BY <1>0, <2>1, ControlHead, Zenon
  <2>3. Has(control[e], "close")
    BY <1>1, <2>1, <2>2, HasTail, Zenon
  <2>4. ~Has(Tail(control[e]), "close")
    <3>1. NoneBehind(control[e], "close", "close")
      BY <1>0, Zenon DEF StreamInv
    <3> QED
      BY <1>1, <2>1, <2>2, <3>1, NoneBehindTail, Zenon
  <2>5. \A k : Has(Append(wire[e], m), k) <=> Has(wire[e], k) \/ m.kind = k
    BY <1>1, <2>2, HasAppend, Zenon
  <2>6. NoneBehind(wire[e], "eof", "adjust") => NoneBehind(Append(wire[e], m), "eof", "adjust")
    BY <1>1, <2>2, NoneBehindAppend
  <2> HIDE DEF m
  <2>7. CASE e = "a"
    BY <1>0, <1>1, <2>1, <2>2, <2>3, <2>4, <2>5, <2>7 DEF CloseInv, Heard
  <2>8. CASE e = "b"
    BY <1>0, <1>1, <2>1, <2>2, <2>3, <2>4, <2>5, <2>6, <2>8 DEF CloseInv, Heard
  <2> QED
    BY <2>7, <2>8 DEF End
<1>3. CASE WriteOutbound(e)
  <2> DEFINE m == Head(outbound[e])
  <2>1. /\ state' = state /\ closePc' = closePc /\ closedHere' = closedHere /\ gotEOF' = gotEOF
        /\ outbound[e] # <<>> /\ control' = control /\ wire'[e] = Append(wire[e], m)
        /\ \A x \in End : x # e => wire'[x] = wire[x]
    BY <1>1, <1>3 DEF WriteOutbound
  <2>2. m \in Envelopes /\ m.kind \in {"data", "adjust", "eof"}
    BY <1>0, <2>1, OutboundHead, Zenon
  <2>3. \A k : Has(Append(wire[e], m), k) <=> Has(wire[e], k) \/ m.kind = k
    BY <1>1, <2>2, HasAppend, Zenon
  <2>4. m.kind = "adjust" => Has(outbound[e], "adjust")
    BY <1>1, <2>1, HasTail, Zenon
  <2>5. /\ Heard("a") => outbound["b"] = <<>>
        /\ state["a"] \in {"closing", "closed"} => outbound["a"] = <<>>
        /\ Has(wire["b"], "eof") => ~Has(outbound["b"], "adjust")
    BY CloseFacts
  <2>6. (m.kind = "adjust" => ~Has(wire[e], "eof")) /\ NoneBehind(wire[e], "eof", "adjust")
          => NoneBehind(Append(wire[e], m), "eof", "adjust")
    BY <1>1, <2>2, NoneBehindAppend, Zenon
  <2> HIDE DEF m
  <2>7. CASE e = "a"
    BY <1>0, <1>1, <2>1, <2>2, <2>3, <2>5, <2>7 DEF CloseInv, Heard
  <2>8. CASE e = "b"
    BY <1>0, <1>1, <2>1, <2>2, <2>3, <2>4, <2>5, <2>6, <2>8 DEF CloseInv, Heard
  <2> QED
    BY <2>7, <2>8 DEF End
<1> QED
  BY <1>2, <1>3

\* Where the close is, after an EOF or a close has arrived.
LEMMA CloseHandles ==
  ASSUME Types, \A x \in End : Local(x), Orderly, Calm, NEW e \in End,
         EnqueueChannelEOF(e) \/ EnqueueChannelClose(e) \/ EnqueueChannelCloseAck(e)
  PROVE  CloseInv'
<1> DEFINE p == Peer(e)
<1>0. /\ CloseInv /\ StreamInv("a") /\ StreamInv("b") /\ StreamInv(e) /\ StreamInv(p)
      /\ p \in End /\ p # e
  BY Ab, PeerFacts, Zenon DEF Orderly
<1>1. /\ state \in [End -> States] /\ control \in [End -> Seq(Envelopes)]
      /\ wire[p] \in Seq(Envelopes) /\ "a" \in End /\ "b" \in End
  BY <1>0, AtTypes, Ab, Zenon DEF Types
<1>2. /\ wire[p] # <<>> /\ wire'[p] = Tail(wire[p]) /\ wire'[e] = wire[e]
      /\ \A x \in End : x = e \/ x = p
  BY HandlesKeep, PeerFacts, Zenon DEF Handles, Taken
<1>3. \A k : Has(wire[p], k) <=> Has(Tail(wire[p]), k) \/ Head(wire[p]).kind = k
  BY <1>1, <1>2, HasTail, Zenon
<1>4. /\ NoneBehind(wire[p], "eof", "adjust") =>
            /\ NoneBehind(Tail(wire[p]), "eof", "adjust")
            /\ Head(wire[p]).kind = "eof" => ~Has(Tail(wire[p]), "adjust")
      /\ Head(wire[p]).kind = "close" => Tail(wire[p]) = <<>>
  <2>1. Last(wire[p])
    BY <1>0, Zenon DEF StreamInv
  <2> QED
    BY <1>1, <1>2, <2>1, LastTail, NoneBehindTail, Zenon
<1>5. (e = "a" /\ p = "b") \/ (e = "b" /\ p = "a")
  BY Ab
<1>6. /\ Has(wire["b"], "eof") => state["a"] \notin canSendData
      /\ state["a"] = "closing" => Heard("b") /\ gotEOF["b"]
  BY CloseFacts
<1> HIDE DEF p
<1> USE DEF Set, windowVars, callVars, queueVars, historyVars
<1>7. CASE EnqueueChannelEOF(e)
  <2>1. /\ closePc' = closePc /\ closedHere' = closedHere /\ gotEOF' = gotEOF /\ control' = control
        /\ state[e] \in canReceiveData
        /\ state'[e] = IF state[e] = "open" THEN "remoteEOF" ELSE "bothEOF"
        /\ state'[p] = state[p] /\ Head(wire[p]).kind = "eof"
    BY <1>0, <1>1, <1>7 DEF EnqueueChannelEOF, Accepts, Arrives, p
  <2>2. CASE e = "a"
    BY <1>0, <1>2, <1>3, <1>4, <1>5, <1>6, <2>1, <2>2 DEF CloseInv, Heard, canReceiveData,
       canSendData
  <2>3. CASE e = "b"
    BY <1>0, <1>2, <1>3, <1>5, <1>6, <2>1, <2>3 DEF CloseInv, Heard, canReceiveData, canSendData
  <2> QED
    BY <1>5, <2>2, <2>3
<1>8. CASE EnqueueChannelClose(e)
  <2>1. /\ closePc' = closePc /\ closedHere' = closedHere /\ gotEOF' = gotEOF
        /\ control'[p] = control[p]
        /\ state[e] \in allowsRequests /\ state'[e] = "closed"
        /\ state'[p] = state[p] /\ Head(wire[p]).kind = "close"
    BY <1>0, <1>1, <1>8 DEF EnqueueChannelClose, Accepts, Arrives, p
  <2>2. e = "b" /\ p = "a" /\ state["a"] = "closing"
    BY <1>0, <1>3, <1>5, <2>1 DEF CloseInv, allowsRequests
  <2>3. ~Has(wire'["a"], "close")
    BY <1>2, <1>4, <2>1, <2>2, HasEmpty
  <2> QED
    BY <1>0, <1>2, <1>3, <1>4, <1>6, <2>1, <2>2, <2>3 DEF CloseInv, Heard, allowsRequests
<1>9. CASE EnqueueChannelCloseAck(e)
  <2>1. /\ closePc' = closePc /\ closedHere' = closedHere /\ gotEOF' = gotEOF
        /\ control' = control /\ state[e] = "closing" /\ state'[e] = "closed"
        /\ state'[p] = state[p] /\ Head(wire[p]).kind = "close"
    BY <1>0, <1>1, <1>9 DEF EnqueueChannelCloseAck, Accepts, Arrives, p
  <2>2. e = "a" /\ p = "b" /\ state["b"] = "closed"
    BY <1>0, <1>3, <1>5, <2>1 DEF CloseInv
  <2>3. /\ wire'["b"] = <<>> /\ \A k : ~Has(wire'["b"], k)
    BY <1>2, <1>4, <2>1, <2>2, HasEmpty
  <2>4. NoneBehind(wire'["b"], "eof", "adjust")
    BY <2>3, NoneBehindEmpty
  <2> QED
    BY <1>0, <1>2, <1>3, <2>1, <2>2, <2>3, <2>4 DEF CloseInv, Heard
<1> QED
  BY <1>7, <1>8, <1>9

LEMMA OrderlyKept ==
  ASSUME Types, \A x \in End : Local(x), OrderlyInv, NEW e \in End, Acts(e)
  PROVE  OrderlyInv'
<1>0. env'.use = env.use
  BY ActsCases, Zenon DEF Local
<1>1. Calm' <=> Calm
  BY <1>0 DEF Calm, Undisturbed
<1> SUFFICES ASSUME Calm PROVE Orderly'
  BY <1>1, Zenon DEF OrderlyInv
<1>2. Orderly
  BY Zenon DEF OrderlyInv
<1>3. \A x \in End : StreamInv(x)'
  BY <1>2, StreamKept, Zenon
<1>4. ~Ends(e) /\ ~SendRefused(e) /\ ~CloseWriteRefused(e) /\ ~CloseTimeout(e)
  BY <1>2, NoEnds, Zenon
<1>5. CloseInv'
  <2>1. ASSUME \/ Send(e) \/ SendQueue(e) \/ RecvFrame(e) \/ RecvAdjust(e) \/ CloseWriteQueue(e)
               \/ HandleChannelData(e) \/ HandleChannelWindowAdjust(e) \/ RecvEOF(e)
        PROVE  CloseInv'
    <3>1. UNCHANGED <<state, closePc, control, closedHere>>
      BY <2>1 DEF Send, SendQueue, RecvFrame, RecvAdjust, CloseWriteQueue, HandleChannelData,
         HandleChannelWindowAdjust, RecvEOF, callVars, queueVars, historyVars
    <3>2. \A x \in End : gotEOF[x] => gotEOF'[x]
      <4>1. RecvEOF(e) => \A x \in End : gotEOF[x] => gotEOF'[x]
        BY DEF RecvEOF, Set, Types
      <4>2. RecvEOF(e) \/ gotEOF' = gotEOF
        BY <2>1 DEF Send, SendQueue, RecvFrame, RecvAdjust, CloseWriteQueue, HandleChannelData,
           HandleChannelWindowAdjust, historyVars
      <4> QED
        BY <4>1, <4>2
    <3>3. wire'[e] = wire[e]
      <4>1. Handles(e) => wire'[e] = wire[e]
        BY HandlesKeep, Zenon
      <4>2. Handles(e) \/ wire' = wire
        BY <2>1 DEF Send, SendQueue, RecvFrame, RecvAdjust, CloseWriteQueue, RecvEOF, Handles
      <4> QED
        BY <4>1, <4>2
    <3> QED
      BY <1>2, <3>1, <3>2, <3>3, CloseSame, Zenon
  <2>2. CASE Calls(e)
    BY <1>2, <1>4, <2>1, <2>2, CloseCalls, CloseWrites, Zenon DEF Calls
  <2>3. CASE Handles(e)
    BY <1>2, <2>1, <2>3, CloseHandles, Zenon DEF Handles
  <2> QED
    BY <1>4, <2>2, <2>3, Zenon DEF Acts
<1> QED
  BY <1>3, <1>5, Zenon DEF Orderly

-----------------------------------------------------------------------------
(* The theorems.                                                           *)

LEMMA InitTypes == ASSUME Init PROVE Types
<1>1. Threshold \in Nat /\ Threshold > 0 /\ Window \in Nat
  BY PairAssumption
<1>2. 0 \in 0..(Threshold - 1) /\ 0 \in 0..Threshold
  BY <1>1
<1>3. PICK u \in Uses : env = [use |-> u, refused |-> 0]
  BY DEF Init
<1> QED
  BY <1>1, <1>2, <1>3 DEF Init, Types, States, Causes

LEMMA InitLocal == ASSUME Init, NEW e \in End PROVE Local(e)
<1> DEFINE p == Peer(e)
<1>0. Types /\ p \in End
  BY InitTypes, PeerFacts, Zenon
<1> HIDE DEF p
<1>1. /\ state[e] = "open" /\ remoteWindow[e] = Window /\ pending[e] = 0
      /\ frames[e] = <<>> /\ sendPc[e] = "idle" /\ adjusting[e] = 0 /\ eofPc[e] = "idle"
      /\ closePc[e] = "idle" /\ control[e] = <<>> /\ outbound[e] = <<>> /\ wire[e] = <<>>
      /\ session[e] = "up" /\ sent[e] = 0 /\ promised[e] = 0 /\ read[e] = <<>>
      /\ ~gotEOF[e] /\ ~closedHere[e]
  BY DEF Init
<1>2. /\ sent[p] = 0 /\ read[p] = <<>> /\ pending[p] = 0 /\ adjusting[p] = 0
      /\ outbound[p] = <<>> /\ wire[p] = <<>>
  BY <1>0 DEF Init
<1>3. env.use.frames[e] \in Nat /\ Window \in Nat /\ Threshold \in Nat
  BY <1>0, UseFacts, Zenon
<1>4. CallInv(e)
  BY <1>1, Zenon DEF CallInv
<1>5. QueueInv(e)
  BY <1>1 DEF QueueInv, ControlOK, OutboundOK, NoneBehind, Bounded
<1>6. SentInv(e)
  BY <1>1, <1>3 DEF SentInv
<1>7. ReadInv(e)
  <2>1. Numbered(<<>>, <<>>, 0)
    BY DEF Numbered
  <2> QED
    BY <1>1, <1>2, <2>1 DEF ReadInv, p
<1>8. DataInv(e)
  <2>1. Delivered(e) = 0
    BY <1>1 DEF Delivered
  <2>2. Carried(<<>>, 0, 0)
    BY DEF Carried
  <2> QED
    BY <1>2, <2>1, <2>2 DEF DataInv, p
<1>9. WindowInv(e)
  <2>1. Own(e) = Window
    BY <1>1, <1>3 DEF Own, Busy
  <2>2. Got(p) = 0
    BY <1>2 DEF Got
  <2>3. Owed(p) = 0
    BY <1>2, CreditsEmpty DEF Owed
  <2> QED
    BY <1>1, <1>3, <2>1, <2>2, <2>3 DEF WindowInv, p
<1>10. SealInv(e)
  BY <1>1, HasEmpty DEF SealInv, Ending
<1>11. LateInv(e)
  BY <1>1 DEF LateInv, Late
<1>12. TruthInv(e)
  BY <1>1, Zenon DEF TruthInv
<1> QED
  BY <1>4, <1>5, <1>6, <1>7, <1>8, <1>9, <1>10, <1>11, <1>12, Zenon DEF Local

LEMMA InitOK == ASSUME Init PROVE IInv
<1>1. Types /\ \A e \in End : Local(e)
  BY InitTypes, InitLocal, Zenon
<1>2. Orderly
  <2>1. ASSUME NEW x \in End
        PROVE  /\ state[x] = "open" /\ inTable[x] = TRUE /\ closePc[x] = "idle"
               /\ sendPc[x] = "idle" /\ control[x] = <<>> /\ outbound[x] = <<>> /\ wire[x] = <<>>
               /\ session[x] = "up" /\ gotEOF[x] = FALSE /\ closedHere[x] = FALSE
    BY DEF Init
  <2>2. CloseInv
    BY <2>1, Ab, HasEmpty, NoneBehindEmpty DEF CloseInv, Heard, canSendData
  <2>3. ASSUME NEW e \in End PROVE StreamInv(e)
    <3>1. state[e] = "open" /\ state[Peer(e)] = "open"
      BY <2>1, PeerFacts, Zenon
    <3>2. /\ \A k : ~Has(outbound[e], k) /\ ~Has(wire[e], k)
          /\ \A k, l : NoneBehind(outbound[e], k, l) /\ NoneBehind(wire[e], k, l)
          /\ \A k, l : NoneBehind(control[e], k, l)
      BY <2>1, HasEmpty, NoneBehindEmpty
    <3>3. Last(wire[e])
      BY <3>2, Zenon DEF Last
    <3> QED
      BY <2>1, <3>1, <3>2, <3>3 DEF StreamInv, Heard, canSendData, Up
  <2> QED
    BY <2>2, <2>3, Zenon DEF Orderly
<1> QED
  BY <1>1, <1>2, Zenon DEF IInv, OrderlyInv

LEMMA ActsOK == ASSUME IInv, NEW e \in End, Acts(e) PROVE IInv'
<1>1. /\ Types /\ OrderlyInv
      /\ \A x \in End : Local(x)
      /\ \A x \in End : /\ CallInv(x) /\ QueueInv(x) /\ SentInv(x) /\ ReadInv(x) /\ DataInv(x)
                        /\ WindowInv(x) /\ SealInv(x) /\ LateInv(x) /\ TruthInv(x)
  BY Zenon DEF IInv, Local
<1>2. Types'
  BY <1>1, TypesKept, Zenon
<1>3. \A x \in End : CallInv(x)'
  BY <1>1, CallInvKept, Zenon
<1>4. \A x \in End : QueueInv(x)'
  BY <1>1, QueueInvKept, Zenon
<1>5. \A x \in End : SentInv(x)'
  BY <1>1, SentInvKept, Zenon
<1>6. \A x \in End : ReadInv(x)'
  BY <1>1, ReadInvKept, Zenon
<1>7. \A x \in End : DataInv(x)'
  BY <1>1, DataInvKept, Zenon
<1>8. \A x \in End : WindowInv(x)'
  BY <1>1, <1>2, WindowInvKept, Zenon
<1>9. \A x \in End : SealInv(x)'
  BY <1>1, SealInvKept, Zenon
<1>10. \A x \in End : LateInv(x)'
  BY <1>1, LateInvKept, Zenon
<1>11. \A x \in End : TruthInv(x)'
  BY <1>1, <1>2, TruthInvKept, Zenon
<1>12. OrderlyInv'
  BY <1>1, OrderlyKept, Zenon
<1> QED
  BY <1>2, <1>3, <1>4, <1>5, <1>6, <1>7, <1>8, <1>9, <1>10, <1>11, <1>12, Zenon DEF IInv, Local

LEMMA StepOK == ASSUME IInv, [Next]_vars PROVE IInv'
<1>1. CASE Next
  BY <1>1, NextActs, ActsOK, Zenon
<1>2. CASE UNCHANGED vars
  <2> USE <1>2 DEF vars, windowVars, callVars, queueVars, historyVars
  <2>1. Types'
    BY DEF IInv, Types
  <2>2. ASSUME NEW x \in End PROVE Local(x)'
    <3>0. Local(x)
      BY Zenon DEF IInv
    <3>1. Delivered(x)' = Delivered(x) /\ Own(x)' = Own(x)
      BY DEF Delivered, Own
    <3>2. Got(Peer(x))' = Got(Peer(x)) /\ Owed(Peer(x))' = Owed(Peer(x))
      BY DEF Got, Owed
    <3>3. (Sealed(x)' <=> Sealed(x)) /\ (Sealed(Peer(x))' <=> Sealed(Peer(x)))
      BY DEF Sealed
    <3>4. Ending(x)' <=> Ending(x)
      BY DEF Ending
    <3>5. CallInv(x)' /\ SentInv(x)' /\ ReadInv(x)' /\ LateInv(x)' /\ QueueInv(x)'
      BY <3>0 DEF Local, CallInv, SentInv, ReadInv, LateInv, QueueInv
    <3>6. DataInv(x)' /\ SealInv(x)' /\ WindowInv(x)' /\ TruthInv(x)'
      BY <3>0, <3>1, <3>2, <3>3, <3>4 DEF Local, DataInv, Up, SealInv, WindowInv, TruthInv
    <3> QED
      BY <3>5, <3>6, Zenon DEF Local
  <2>3. OrderlyInv'
    <3>1. Calm' <=> Calm
      BY DEF Calm, Undisturbed
    <3>2. CloseInv => CloseInv'
      BY DEF CloseInv, Heard
    <3>3. ASSUME NEW x \in End PROVE StreamInv(x) => StreamInv(x)'
      BY DEF StreamInv, Heard, Up, Got
    <3> QED
      BY <3>1, <3>2, <3>3, Zenon DEF IInv, OrderlyInv, Orderly
  <2> QED
    BY <2>1, <2>2, <2>3, Zenon DEF IInv
<1> QED
  BY <1>1, <1>2

(***************************************************************************)
(* What the two endpoints of a channel keep, whatever the windows and the  *)
(* use: the frames of each direction are an interval of numbers, read in   *)
(* order; no credit is made up; an endpoint that has put an EOF or a close *)
(* under way in enqueueWrite promises nothing more; and with confirmed     *)
(* closes nothing follows an EOF that routeEnvelope would refuse.          *)
(***************************************************************************)
THEOREM PairInductive == Spec => []IInv
<1>1. Init => IInv
  BY InitOK
<1>2. IInv /\ [Next]_vars => IInv'
  BY StepOK
<1> QED
  BY <1>1, <1>2, PTL DEF Spec

LEMMA FunctionIsSeq ==
  ASSUME NEW S, NEW n \in Nat, NEW f \in [1..n -> S]
  PROVE  f \in Seq(S)
<1>1. f \in UNION {[1..i -> S] : i \in Nat}
  OBVIOUS
<1> QED
  BY <1>1, SeqDef, Zenon

LEMMA IInvTypes == ASSUME IInv PROVE TypeOK
<1> SUFFICES ASSUME NEW e \in End
             PROVE  /\ state[e] \in States
                    /\ inTable[e] \in BOOLEAN
                    /\ remoteWindow[e] \in 0..Window
                    /\ pending[e] \in 0..(Threshold - 1)
                    /\ adjusting[e] \in 0..Threshold
                    /\ frames[e] \in Seq(1..env.use.frames[Peer(e)])
                    /\ sendPc[e] \in {"idle", "reserved", "queued"}
                    /\ eofPc[e] \in {"idle", "open", "remoteEOF"}
                    /\ closePc[e] \in {"idle", "queue", "timer"}
                    /\ \A q \in {control[e], outbound[e], wire[e]} : \A i \in DOMAIN q :
                          q[i].kind \in Kinds /\ q[i].n \in 0..(env.use.frames[e] + Threshold)
                    /\ polled[e] \in BOOLEAN
                    /\ session[e] \in Causes
                    /\ sent[e] \in 0..env.use.frames[e] /\ promised[e] \in 0..sent[e]
                    /\ gotEOF[e] \in BOOLEAN /\ closedHere[e] \in BOOLEAN
  BY Zenon DEF TypeOK
<1> DEFINE p == Peer(e)
<1>0. p \in End /\ Peer(p) = e /\ Types /\ Local(e) /\ Local(p)
  BY PeerFacts, Zenon DEF IInv
<1>1. /\ QueueInv(e) /\ SentInv(e) /\ SentInv(p) /\ ReadInv(e) /\ ReadInv(p) /\ WindowInv(e)
  BY <1>0, Zenon DEF Local
<1> HIDE DEF p
<1>2. /\ env.use.frames[e] \in Nat /\ env.use.frames[p] \in Nat /\ Threshold \in Nat
      /\ Window \in Nat
  BY <1>0, UseFacts, Zenon
<1>3. sent[e] \in Nat /\ sent[p] \in Nat /\ promised[e] \in Nat
  BY <1>0, AtTypes, Zenon
<1>4. remoteWindow[e] \in 0..Window
  <2>1. /\ remoteWindow[e] \in Nat /\ Busy(sendPc[e]) \in 0..1
        /\ Got(p) \in Nat /\ Owed(p) \in Nat
    BY <1>0, CreditTypes, Zenon
  <2>2. Got(p) <= sent[e]
    <3>1. Len(read[p]) + Len(frames[p]) <= sent[e]
      BY <1>0, <1>1, Zenon DEF ReadInv, Numbered
    <3>2. Len(read[p]) \in Nat /\ Len(frames[p]) \in Nat
      BY <1>0, DeliveredNat, Zenon
    <3> HIDE DEF p
    <3>3. \A x, y, z \in Nat : x + y <= z => x <= z
      OBVIOUS
    <3> QED
      BY <1>3, <3>1, <3>2, <3>3, Zenon DEF Got
  <2>3. (remoteWindow[e] + Busy(sendPc[e])) + (sent[e] - Got(p)) + Owed(p) <= Window
    BY <1>1, Zenon DEF WindowInv, Own, p
  <2> QED
    BY <1>2, <1>3, <2>1, <2>2, <2>3
<1>5. frames[e] \in Seq(1..env.use.frames[p])
  <2>1. frames[e] \in Seq(Nat) /\ Len(read[e]) \in Nat /\ Len(frames[e]) \in Nat
    BY <1>0, AtTypes, DeliveredNat, Zenon
  <2>2. /\ \A i \in 1..Len(frames[e]) : frames[e][i] = Len(read[e]) + i
        /\ Len(read[e]) + Len(frames[e]) <= sent[p]
    BY <1>1, Zenon DEF ReadInv, Numbered, p
  <2>3. sent[p] <= env.use.frames[p]
    BY <1>1, Zenon DEF SentInv
  <2>4. \A r, n, s, f \in Nat : \A i \in 1..n : r + n <= s /\ s <= f => r + i \in 1..f
    OBVIOUS
  <2>5. \A i \in 1..Len(frames[e]) : frames[e][i] \in 1..env.use.frames[p]
    <3> SUFFICES ASSUME NEW i \in 1..Len(frames[e])
                 PROVE  frames[e][i] \in 1..env.use.frames[p]
      OBVIOUS
    <3>1. Len(read[e]) + i \in 1..env.use.frames[p]
      BY <1>2, <1>3, <2>1, <2>2, <2>3, <2>4, Zenon
    <3> QED
      BY <2>2, <3>1, Zenon
  <2>6. /\ DOMAIN frames[e] = 1..Len(frames[e])
        /\ frames[e] = [i \in DOMAIN frames[e] |-> frames[e][i]]
    BY <2>1
  <2>7. frames[e] \in [1..Len(frames[e]) -> 1..env.use.frames[p]]
    BY <2>5, <2>6
  <2> QED
    BY <2>1, <2>7, FunctionIsSeq, Zenon
<1>6. ASSUME NEW q \in {control[e], outbound[e], wire[e]}, NEW i \in DOMAIN q
      PROVE  q[i].kind \in Kinds /\ q[i].n \in 0..(env.use.frames[e] + Threshold)
  <2>1. q \in Seq(Envelopes) /\ Bounded(q, env.use.frames[e] + Threshold)
    BY <1>0, <1>1, AtTypes DEF QueueInv
  <2>2. q[i].n \in Nat /\ q[i].kind \in Kinds /\ q[i].n <= env.use.frames[e] + Threshold
    BY <2>1, EnvelopeFacts, Zenon DEF Bounded
  <2> QED
    BY <1>2, <2>2
<1>7. sent[e] \in 0..env.use.frames[e] /\ promised[e] \in 0..sent[e]
  BY <1>1, <1>2, <1>3 DEF SentInv
<1> QED
  BY <1>0, <1>4, <1>5, <1>6, <1>7, AtTypes, Zenon DEF p

(***************************************************************************)
(* Send never takes credit that is not there and no adjustment gives back  *)
(* more than was used: Channel.remoteWindow stays within the initial       *)
(* window, the frames queued for Recv are the peer's, and every other      *)
(* variable has its type.                                                  *)
(***************************************************************************)
THEOREM PairTypes == Spec => []TypeOK
<1>1. IInv => TypeOK
  BY IInvTypes
<1> QED
  BY <1>1, PairInductive, PTL

(***************************************************************************)
(* Recv returns io.EOF only to a reader that has every frame whose Send    *)
(* had returned when the peer ended its writing, in order, unless its own  *)
(* side closed, the peer hung up or a budget was used up.                  *)
(***************************************************************************)
THEOREM EOFTruthful == Spec => []EOFIsTruthful
<1>1. ASSUME IInv PROVE EOFIsTruthful
  <2> SUFFICES ASSUME NEW e \in End, gotEOF[e], ~closedHere[e],
                      session[e] \notin {"peer closed", "budget"}
               PROVE  HasRead(e, promised[Peer(e)])
    BY Zenon DEF EOFIsTruthful
  <2>1. Types /\ TruthInv(e) /\ ReadInv(e) /\ Peer(e) \in End
    BY <1>1, PeerFacts, Zenon DEF IInv, Local
  <2>2. promised[Peer(e)] <= Len(read[e])
    BY <2>1, Zenon DEF TruthInv
  <2>3. promised[Peer(e)] \in Nat /\ Len(read[e]) \in Nat
    BY <2>1, AtTypes, DeliveredNat, Zenon
  <2>4. Len(read[e]) >= promised[Peer(e)]
    BY <2>2, <2>3
  <2>5. \A i \in 1..Len(read[e]) : read[e][i] = i
    BY <2>1, Zenon DEF ReadInv, Numbered
  <2> QED
    BY <2>4, <2>5, Zenon DEF HasRead
<1> QED
  BY <1>1, PairInductive, PTL

(***************************************************************************)
(* When b closes its writing only after Recv told it that a has, and a     *)
(* calls Close only after Recv told it that b has, and no timer fires      *)
(* early, nobody leaves and no write is refused: no handler ever finds a   *)
(* protocol error, the sessions stay up, and at a's Close each side has    *)
(* read every frame that the other has sent.                               *)
(***************************************************************************)
THEOREM ConfirmedClose == Spec => []ConfirmedCloseLosesNothing
<1>1. ASSUME IInv PROVE ConfirmedCloseLosesNothing
  <2> SUFFICES ASSUME Calm
               PROVE  /\ \A e \in End : session[e] = "up"
                      /\ closedHere["a"] =>
                            /\ HasRead("a", sent["b"]) /\ HasRead("b", sent["a"])
                            /\ \A e \in End : sendPc[e] = "idle"
    BY Zenon DEF ConfirmedCloseLosesNothing, Calm
  <2>1. /\ Types /\ Orderly /\ CloseInv /\ StreamInv("a") /\ StreamInv("b")
        /\ \A x \in End : Local(x) /\ StreamInv(x)
    BY <1>1, Ab, Zenon DEF IInv, OrderlyInv, Orderly
  <2>2. \A e \in End : session[e] = "up"
    BY <2>1, Zenon DEF StreamInv, Up
  <2>3. ASSUME closedHere["a"]
        PROVE  /\ HasRead("a", sent["b"]) /\ HasRead("b", sent["a"])
               /\ \A e \in End : sendPc[e] = "idle"
    <3>1. state["a"] \in {"closing", "closed"} /\ gotEOF["a"]
      BY <2>1, <2>3, Zenon DEF CloseInv
    <3>2. Heard("a")
      BY <3>1 DEF Heard
    <3>3. gotEOF["b"] /\ state["a"] \notin canSendData /\ state["b"] \notin canSendData
      BY <2>1, <3>2, CloseFacts, Zenon
    <3>4. sendPc["a"] = "idle" /\ sendPc["b"] = "idle"
      BY <2>1, <3>3, Zenon DEF StreamInv
    <3>5. ASSUME NEW e \in End, gotEOF[e] PROVE HasRead(e, sent[Peer(e)])
      <4>1. sent[Peer(e)] <= Len(read[e])
        BY <2>1, <3>5, Zenon DEF StreamInv, Got
      <4>2. sent[Peer(e)] \in Nat /\ Len(read[e]) \in Nat
        BY <2>1, AtTypes, DeliveredNat, PeerFacts, Zenon
      <4>3. Len(read[e]) >= sent[Peer(e)]
        BY <4>1, <4>2
      <4>4. \A i \in 1..Len(read[e]) : read[e][i] = i
        BY <2>1, Zenon DEF Local, ReadInv, Numbered
      <4> QED
        BY <4>3, <4>4, Zenon DEF HasRead
    <3>6. HasRead("a", sent["b"]) /\ HasRead("b", sent["a"])
      <4>1. HasRead("a", sent[Peer("a")]) /\ HasRead("b", sent[Peer("b")])
        BY <3>1, <3>3, <3>5, Ab, Zenon
      <4> QED
        BY <4>1, Ab
    <3> QED
      BY <3>4, <3>6 DEF End
  <2> QED
    BY <2>2, <2>3
<1> QED
  BY <1>1, PairInductive, PTL
=============================================================================
