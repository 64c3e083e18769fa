------------------------- MODULE CommandRun_proofs -------------------------
(***************************************************************************)
(* A command, composed, for any number of processes, streams, chunks and   *)
(* any window: it is an owner of the process as RunnerSpec allows one, so  *)
(* that done means gone; and an exit that the client reports is the        *)
(* leader's, after all of the output (ExitIsFaithful).                     *)
(*                                                                         *)
(* The second is an account of the output: while an exit may still reach   *)
(* the client, what copyOutput has taken from a pipe was shown, is under   *)
(* way or is in the copier's hand (OutputInv), and a copier that has       *)
(* joined without a failure has read its pipe to the end (CopyInv).        *)
(***************************************************************************)
EXTENDS CommandRun, ByteSum_proofs, SequenceTheorems, TLAPS

-----------------------------------------------------------------------------
(* The process runner alone: RunnerIInv is an inductive invariant for any  *)
(* set of forked processes, and DoneMeansGone follows from it.             *)

\* Everything of the invariant but the types.
Shape ==
    /\ LeaderReaped
    /\ NothingBeforeStart
    /\ GroupEnded
    /\ CompletedByRun
    /\ ReapedBeforeEnd
    /\ WaitRunLast
    /\ MembersForked

\* Before the start the invariant holds.
LEMMA RunnerInitOK == RunnerInit => RunnerIInv
  <1> SUFFICES ASSUME RunnerInit PROVE RunnerIInv
    OBVIOUS
  <1>1. RunnerTypeOK
    <2>1. 0 \in 0..MaxOutput
      BY RunnerAssumption
    <2>2. written \in [Streams -> 0..MaxOutput]
      BY <2>1 DEF RunnerInit
    <2>3. procs \in [Procs -> ProcStates]
      BY DEF RunnerInit, ProcStates
    <2>4. terminate \in [Runs -> {"off", "signal", "poll", "await", "end"}]
      BY DEF RunnerInit
    <2>5. inGroup \subseteq Procs /\ pipes \subseteq Procs
      BY DEF RunnerInit, Procs
    <2> QED  BY <2>2, <2>3, <2>4, <2>5 DEF RunnerInit, RunnerTypeOK
  <1>2. LeaderReaped /\ NothingBeforeStart
    BY DEF RunnerInit, LeaderReaped, NothingBeforeStart, Procs
  <1>3. \A r \in Runs : terminate[r] = "off"
    BY DEF RunnerInit
  <1>4. GroupEnded /\ CompletedByRun /\ ReapedBeforeEnd /\ WaitRunLast /\ MembersForked
    BY <1>3 DEF RunnerInit, GroupEnded, CompletedByRun, ReapedBeforeEnd, WaitRunLast,
       MembersForked, Runs
  <1> QED  BY <1>1, <1>2, <1>4 DEF RunnerIInv

\* Every step of the runner, of the operating system and of the owner keeps
\* the types.
LEMMA TypesKept ==
  ASSUME RunnerTypeOK, RunnerNext \/ OwnerNext
  PROVE  RunnerTypeOK'
  <1> USE RunnerAssumption DEF RunnerTypeOK, Procs, ProcStates, Runs
  <1>1. CASE OSNext
    <2>1. ASSUME NEW p \in Procs, NEW s \in Streams, Write(p, s) PROVE RunnerTypeOK'
      <3>1. written[s] + 1 \in 0..MaxOutput
        BY <2>1 DEF Write
      <3> QED  BY <2>1, <3>1 DEF Write, termVars
    <2>2. ASSUME NEW p \in Procs, NEW q \in Children, Fork(p, q) PROVE RunnerTypeOK'
      BY <2>2 DEF Fork, termVars
    <2>3. ASSUME NEW q \in Children, LeaveGroup(q) PROVE RunnerTypeOK'
      BY <2>3 DEF LeaveGroup, termVars
    <2>4. ASSUME NEW p \in Procs, NEW r \in Results, Die(p, r) PROVE RunnerTypeOK'
      BY <2>4 DEF Die, termVars
    <2>5. ASSUME NEW p \in Procs, ClosePipes(p) PROVE RunnerTypeOK'
      BY <2>5 DEF ClosePipes, termVars
    <2> QED  BY <1>1, <2>1, <2>2, <2>3, <2>4, <2>5 DEF OSNext
  <1>2. CASE WaitReap
    BY <1>2 DEF WaitReap, osVars, termVars
  <1>3. CASE WaitStore
    BY <1>3 DEF WaitStore, osVars, termVars
  <1>4. CASE WaitCleanup
    BY <1>4 DEF WaitCleanup, osVars
  <1>5. ASSUME NEW r \in Runs, Signal(r) PROVE RunnerTypeOK'
    BY <1>5 DEF Signal, osVars
  <1>6. ASSUME NEW r \in Runs, PollGone(r) PROVE RunnerTypeOK'
    BY <1>6 DEF PollGone, osVars
  <1>7. ASSUME NEW r \in Runs, GraceExpires(r) PROVE RunnerTypeOK'
    BY <1>7 DEF GraceExpires
  <1>8. ASSUME NEW r \in Runs, Complete(r) PROVE RunnerTypeOK'
    BY <1>8 DEF Complete, osVars
  <1>9. CASE OwnerNext
    BY <1>9 DEF OwnerNext, Start, Terminate, osVars, termVars
  <1> QED  BY <1>1, <1>2, <1>3, <1>4, <1>5, <1>6, <1>7, <1>8, <1>9 DEF RunnerNext

\* A step of the operating system forks nothing into a group that a run of
\* terminate() has ended, and does not raise the leader.
LEMMA OSKeepsShape ==
  ASSUME RunnerTypeOK, Shape, OSNext
  PROVE  Shape'
  <1> USE RunnerAssumption DEF RunnerTypeOK, Procs, ProcStates, Runs, Shape, LeaderReaped,
      NothingBeforeStart, GroupEnded, CompletedByRun, ReapedBeforeEnd, WaitRunLast,
      MembersForked
  <1>1. ASSUME NEW p \in Procs, NEW s \in Streams, Write(p, s) PROVE Shape'
    BY <1>1 DEF Write, termVars
  <1>2. ASSUME NEW p \in Procs, NEW q \in Children, Fork(p, q) PROVE Shape'
    <2>1. (\E r \in Runs : terminate[r] \in {"await", "end"}) => p \notin inGroup
      BY <1>2 DEF Fork
    <2>2. waiter # "off"
      BY <1>2 DEF Fork
    <2>3. LeaderReaped'
      BY <1>2, <2>2 DEF Fork
    <2>4. GroupEnded'
      <3>1. CASE p \in inGroup
        <4>1. ~ \E r \in Runs : terminate'[r] \in {"await", "end"}
          BY <1>2, <2>1, <3>1 DEF Fork, termVars
        <4> QED  BY <4>1
      <3>2. CASE p \notin inGroup
        <4>1. q \notin inGroup
          BY <1>2 DEF Fork
        <4>2. terminate' = terminate /\ inGroup' = inGroup
          BY <1>2, <3>2 DEF Fork, termVars
        <4>3. \A x \in inGroup : x # q => procs'[x] = procs[x]
          BY <1>2 DEF Fork
        <4> QED  BY <4>1, <4>2, <4>3
      <3> QED  BY <3>1, <3>2
    <2> QED  BY <1>2, <2>2, <2>3, <2>4 DEF Fork, termVars
  <1>3. ASSUME NEW q \in Children, LeaveGroup(q) PROVE Shape'
    BY <1>3 DEF LeaveGroup, termVars
  <1>4. ASSUME NEW p \in Procs, NEW r \in Results, Die(p, r) PROVE Shape'
    BY <1>4 DEF Die, Alive, termVars
  <1>5. ASSUME NEW p \in Procs, ClosePipes(p) PROVE Shape'
    BY <1>5 DEF ClosePipes, termVars
  <1> QED  BY <1>1, <1>2, <1>3, <1>4, <1>5 DEF OSNext

\* wait(): the leader is dead when it is reaped, and the run that wait()
\* starts has still to signal the group.
LEMMA WaitKeepsShape ==
  ASSUME RunnerTypeOK, Shape, WaitReap \/ WaitStore \/ WaitCleanup
  PROVE  Shape'
  <1> USE RunnerAssumption DEF RunnerTypeOK, Procs, ProcStates, Runs, Shape, LeaderReaped,
      NothingBeforeStart, GroupEnded, CompletedByRun, ReapedBeforeEnd, WaitRunLast,
      MembersForked
  <1>1. CASE WaitReap
    BY <1>1 DEF WaitReap, osVars, termVars
  <1>2. CASE WaitStore
    BY <1>2 DEF WaitStore, osVars, termVars
  <1>3. CASE WaitCleanup
    BY <1>3 DEF WaitCleanup, osVars
  <1> QED  BY <1>1, <1>2, <1>3

\* terminate(): a run goes on only when the group is gone or killed, and
\* completes only when the result is stored.
LEMMA TerminateKeepsShape ==
  ASSUME RunnerTypeOK, Shape, NEW r \in Runs,
         Signal(r) \/ PollGone(r) \/ GraceExpires(r) \/ Complete(r)
  PROVE  Shape'
  <1> USE RunnerAssumption DEF RunnerTypeOK, Procs, ProcStates, Runs, Shape, LeaderReaped,
      NothingBeforeStart, GroupEnded, CompletedByRun, ReapedBeforeEnd, WaitRunLast,
      MembersForked
  <1>1. CASE Signal(r)
    BY <1>1 DEF Signal, osVars
  <1>2. CASE PollGone(r)
    BY <1>2 DEF PollGone, GroupGone, osVars
  <1>3. CASE GraceExpires(r)
    BY <1>3 DEF GraceExpires
  <1>4. CASE Complete(r)
    BY <1>4 DEF Complete, osVars
  <1> QED  BY <1>1, <1>2, <1>3, <1>4

\* Start, Terminate and CloseStdin, whenever the owner calls them.
LEMMA OwnerKeepsShape ==
  ASSUME RunnerTypeOK, Shape, OwnerNext
  PROVE  Shape'
  <1> USE RunnerAssumption DEF RunnerTypeOK, Procs, ProcStates, Runs, Shape, LeaderReaped,
      NothingBeforeStart, GroupEnded, CompletedByRun, ReapedBeforeEnd, WaitRunLast,
      MembersForked
  <1>1. CASE waiter = "off" /\ Start
    BY <1>1 DEF Start, termVars
  <1>2. CASE waiter # "off" /\ Terminate /\ UNCHANGED <<osVars, waiter, completed, stdinClosed>>
    BY <1>2 DEF Terminate, osVars
  <1>3. CASE UNCHANGED <<osVars, waiter, termVars, completed>>
    BY <1>3 DEF osVars, termVars
  <1> QED  BY <1>1, <1>2, <1>3 DEF OwnerNext

\* Every step keeps the invariant.
LEMMA RunnerStep ==
  ASSUME RunnerIInv, [RunnerNext \/ OwnerNext]_procVars
  PROVE  RunnerIInv'
  <1>1. RunnerTypeOK /\ Shape
    BY DEF RunnerIInv, Shape
  <1>2. CASE RunnerNext \/ OwnerNext
    <2>1. RunnerTypeOK'
      BY <1>1, <1>2, TypesKept
    <2>2. Shape'
      BY <1>1, <1>2, OSKeepsShape, WaitKeepsShape, TerminateKeepsShape, OwnerKeepsShape
         DEF RunnerNext
    <2> QED  BY <2>1, <2>2 DEF RunnerIInv, Shape
  <1>3. CASE UNCHANGED procVars
    BY <1>3 DEF procVars, osVars, termVars, RunnerIInv, RunnerTypeOK, LeaderReaped,
       NothingBeforeStart, GroupEnded, CompletedByRun, ReapedBeforeEnd, WaitRunLast,
       MembersForked
  <1> QED  BY <1>2, <1>3

\* RunnerIInv holds in every state of the runner, for any set of processes
\* that may be forked and any number of calls of Terminate.
THEOREM RunnerInductive == RunnerSpec => []RunnerIInv
  <1>1. RunnerIInv /\ [RunnerNext \/ OwnerNext]_procVars => RunnerIInv'
    BY RunnerStep
  <1> QED  BY RunnerInitOK, <1>1, PTL DEF RunnerSpec

\* DoneMeansGone holds in every state of the runner: done is closed only when
\* the result is stored and no member of the group is left that could fork.
THEOREM ProcessGone == RunnerSpec => []DoneMeansGone
  <1>1. RunnerIInv => DoneMeansGone
    BY DEF RunnerIInv, DoneMeansGone, GroupEnded, CompletedByRun, ReapedBeforeEnd
  <1> QED  BY RunnerInductive, <1>1, PTL

-----------------------------------------------------------------------------
(* The frames under way.                                                   *)

ServerFrames ==
    {StartResult(ok) : ok \in BOOLEAN} \cup {OutputFrame(s) : s \in Streams}
    \cup {ExitFrame(r) : r \in Exits \cup {"none"}}
ClientFrames == {[kind |-> k] : k \in {"start", "stdin", "eof"}}
Frames == ServerFrames \cup ClientFrames

ConnType ==
    /\ inbox \in [End -> Seq(Frames)]
    /\ \A e \in End : Len(inbox[e]) <= Window
    /\ channel \in [End -> ChannelStates]
    /\ canceled \in BOOLEAN /\ up \in BOOLEAN

\* How often x is in q.
Marks(q, x) == [i \in DOMAIN q |-> IF q[i] = x THEN 1 ELSE 0]
Count(q, x) == Total(Marks(q, x))

\* The chunks of stream s in q.
Carries(q, s) == Count(q, OutputFrame(s))

-----------------------------------------------------------------------------
(* The inductive invariant.                                                *)

\* What serve() knows at each of its steps.  A server whose context has ended
\* cannot send, and a drain that was cut short is a failure.
ServeInv ==
    /\ serve = "receive" => waiter = "off"
    /\ serve \in {"accept", "reap", "loop", "drain", "exit"} => waiter # "off"
    /\ serve \in {"receive", "reject", "accept", "reap"} =>
          \A s \in Streams : copier[s] = "off"
    /\ serve \in {"drain", "exit"} => completed
    /\ drainCut => failure
    /\ canceled => ~CanSend("server")
    /\ serve = "exit" /\ ~failure => \A s \in Streams : copier[s] = "joined"

\* A copier that has ended without a failure has read everything, and nobody
\* is left to write more.
AtEnd(s) == pipes = {} /\ taken[s] = written[s]

CopyInv ==
    \A s \in Streams :
        /\ taken[s] <= written[s]
        /\ CanSend("server") /\ ~failure =>
              /\ copier[s] # "failed"
              /\ copier[s] \in {"done", "joined"} => AtEnd(s)

\* The client has dropped no frame, and has had no exit.
Expecting == receiving \in {"frames", "accept"} /\ clientState # "exited"

\* Of the chunks t taken from each pipe, sh were shown, q carries some, and a
\* copier may have one in its hand.
Accounts(q, t, sh, c) ==
    \A s \in Streams : t[s] = sh[s] + Carries(q, s) + IF c[s] = "send" THEN 1 ELSE 0

OutputInv ==
    CanSend("server") /\ ~failure /\ Expecting =>
        Accounts(inbox["client"], taken, shown, copier)

\* The server sends nothing more.
Quiet == serve \in {"close", "end"} /\ \A s \in Streams : copier[s] = "joined"

Faithful(r) == waiter \in {"stored", "end"} /\ status = r /\ pipes = {}

\* An exit under way is the last frame, the server sends no more, and what
\* is in front of it completes the output.
IsExit(f) == f.kind = "exit" /\ f.result \in Results
Completes(q, sh, w) == \A s \in Streams : sh[s] + Carries(q, s) = w[s]

ExitInv ==
    \A i \in DOMAIN inbox["client"] :
        IsExit(inbox["client"][i]) =>
            /\ i = Len(inbox["client"])
            /\ Quiet /\ Faithful(inbox["client"][i].result)
            /\ Expecting => Completes(inbox["client"], shown, written)

\* What the receive loop knows at each of its steps: an exit that it has yet to
\* store is the command's.
Final(r) == r \in Results => Faithful(r) /\ \A s \in Streams : shown[s] = written[s]

ClientInv ==
    /\ receiving = "accept" => clientState # "exited"
    /\ receiving = "stored" => clientState = "exited"
    /\ receiving = "exit" => result \in Exits
    /\ result \in Exits \cup {"none"}
    /\ shown \in [Streams -> Nat]

StoreInv == receiving = "exit" => Final(result)

IInv ==
    /\ TypeOK /\ ConnType /\ RunnerIInv
    /\ ServeInv /\ CopyInv /\ OutputInv /\ ExitInv /\ ClientInv
    /\ ExitIsFaithful /\ StoreInv

-----------------------------------------------------------------------------
(* Counting frames.                                                        *)

LEMMA MarksType ==
  ASSUME NEW S, NEW q \in Seq(S), NEW x
  PROVE  Marks(q, x) \in Seq(Nat) /\ Len(Marks(q, x)) = Len(q)
<1>1. DOMAIN q = 1..Len(q) /\ Len(q) \in Nat
  OBVIOUS
<1>2. Marks(q, x) \in [1..Len(q) -> Nat]
  BY <1>1 DEF Marks
<1> QED
  BY <1>1, <1>2

LEMMA CountEmpty == \A x : Count(<<>>, x) = 0
<1>1. \A x : Marks(<<>>, x) = <<>>
  BY DEF Marks
<1> QED
  BY <1>1, TotalEmpty DEF Count

LEMMA CountAppend ==
  ASSUME NEW S, NEW q \in Seq(S), NEW f \in S, NEW x
  PROVE  /\ Count(q, x) \in Nat
         /\ Count(Append(q, f), x) = Count(q, x) + IF f = x THEN 1 ELSE 0
<1> DEFINE n == IF f = x THEN 1 ELSE 0
           r == Append(q, f)
<1>1. /\ r \in Seq(S) /\ Len(r) = Len(q) + 1 /\ Len(q) \in Nat /\ n \in Nat
      /\ DOMAIN q = 1..Len(q) /\ DOMAIN r = 1..Len(q) + 1
  OBVIOUS
<1>2. /\ Marks(q, x) \in Seq(Nat) /\ Len(Marks(q, x)) = Len(q)
      /\ Marks(r, x) \in Seq(Nat) /\ Len(Marks(r, x)) = Len(q) + 1
  BY <1>1, MarksType
<1>3. ASSUME NEW i \in 1..Len(q) + 1
      PROVE  Marks(r, x)[i] = Append(Marks(q, x), n)[i]
  <2>1. Marks(r, x)[i] = IF r[i] = x THEN 1 ELSE 0
    BY <1>1 DEF Marks
  <2>2. CASE i = Len(q) + 1
    BY <2>1, <2>2, <1>1, <1>2
  <2>3. CASE i \in 1..Len(q)
    <3>1. r[i] = q[i] /\ Append(Marks(q, x), n)[i] = Marks(q, x)[i]
      BY <2>3, <1>1, <1>2
    <3>2. Marks(q, x)[i] = IF q[i] = x THEN 1 ELSE 0
      BY <2>3, <1>1 DEF Marks
    <3> QED
      BY <3>1, <3>2, <2>1
  <2>4. i = Len(q) + 1 \/ i \in 1..Len(q)
    BY <1>1
  <2> QED
    BY <2>2, <2>3, <2>4, Zenon
<1>4. Append(Marks(q, x), n) \in Seq(Nat) /\ Len(Append(Marks(q, x), n)) = Len(q) + 1
  BY <1>1, <1>2
<1>5. Marks(r, x) = Append(Marks(q, x), n)
  BY <1>2, <1>3, <1>4, SeqEqual
<1> QED
  BY <1>1, <1>2, <1>5, TotalAppend, TotalSeqNat DEF Count

LEMMA CountTail ==
  ASSUME NEW S, NEW q \in Seq(S), q # <<>>, NEW x
  PROVE  Count(q, x) = Count(Tail(q), x) + IF Head(q) = x THEN 1 ELSE 0
<1> DEFINE r == Tail(q)
<1>1. /\ r \in Seq(S) /\ Len(r) = Len(q) - 1 /\ Len(q) \in Nat \ {0}
      /\ DOMAIN q = 1..Len(q) /\ DOMAIN r = 1..Len(q) - 1 /\ q[1] = Head(q)
  OBVIOUS
<1>2. /\ Marks(q, x) \in Seq(Nat) /\ Len(Marks(q, x)) = Len(q)
      /\ Marks(r, x) \in Seq(Nat) /\ Len(Marks(r, x)) = Len(q) - 1
  BY <1>1, MarksType
<1>3. Marks(q, x) # <<>> /\ Head(Marks(q, x)) = IF Head(q) = x THEN 1 ELSE 0
  <2>1. Marks(q, x)[1] = IF q[1] = x THEN 1 ELSE 0
    BY <1>1 DEF Marks
  <2> QED
    BY <2>1, <1>1, <1>2
<1>4. Tail(Marks(q, x)) \in Seq(Nat) /\ Len(Tail(Marks(q, x))) = Len(q) - 1
  BY <1>1, <1>2, <1>3
<1>5. ASSUME NEW i \in 1..Len(q) - 1
      PROVE  Marks(r, x)[i] = Tail(Marks(q, x))[i]
  <2>1. Marks(r, x)[i] = IF r[i] = x THEN 1 ELSE 0
    BY <1>1 DEF Marks
  <2>2. r[i] = q[i + 1] /\ Tail(Marks(q, x))[i] = Marks(q, x)[i + 1]
    BY <1>1, <1>2, <1>3
  <2>3. Marks(q, x)[i + 1] = IF q[i + 1] = x THEN 1 ELSE 0
    BY <1>1 DEF Marks
  <2> QED
    BY <2>1, <2>2, <2>3
<1>6. Marks(r, x) = Tail(Marks(q, x))
  BY <1>2, <1>4, <1>5, SeqEqual
<1>7. /\ Total(Marks(r, x)) = Total(Marks(q, x)) - Head(Marks(q, x))
      /\ Total(Marks(r, x)) \in Nat /\ Total(Marks(q, x)) \in Nat
  BY <1>2, <1>3, <1>6, TotalTail, TotalSeqNat
<1> QED
  BY <1>3, <1>7 DEF Count
-----------------------------------------------------------------------------
(* What the steps do to the connection and to the process.                 *)

\* Seen from the server, a connection only gets worse.
ConnKept ==
    /\ CanSend("server")' => CanSend("server")
    /\ (canceled => ~CanSend("server")) => (canceled' => ~CanSend("server")')
    /\ channel' \in [End -> ChannelStates]
    /\ canceled' \in BOOLEAN /\ up' \in BOOLEAN

ConnAct ==
    \/ \E e \in End : \E f : ReceiveFrame(e, f) \/ SendFrame(e, f)
    \/ \E e \in End : ReceiveEnds(e) \/ Close(e)
    \/ ConnNext
    \/ UNCHANGED connVars

LEMMA ConnActKeeps ==
  ASSUME ConnType, ConnAct
  PROVE  ConnKept
<1>0. /\ channel \in [End -> ChannelStates] /\ canceled \in BOOLEAN /\ up \in BOOLEAN
      /\ "server" \in End
  BY DEF ConnType, End
<1>1. CASE UNCHANGED <<channel, canceled, up>>
  BY <1>0, <1>1 DEF ConnKept, CanSend
<1>2. ASSUME NEW e \in End, ReceiveEnds(e) PROVE ConnKept
  <2>1. canceled' => canceled \/ ~CanSend("server")
    BY <1>2 DEF ReceiveEnds, CanSend
  <2>2. UNCHANGED <<channel, up>> /\ canceled' \in BOOLEAN
    BY <1>0, <1>2 DEF ReceiveEnds
  <2> QED
    BY <1>0, <2>1, <2>2 DEF ConnKept, CanSend
<1>3. ASSUME NEW e \in End, Close(e) PROVE ConnKept
  <2>1. /\ up' = up /\ canceled' = (canceled \/ e = "server")
        /\ channel' = [channel EXCEPT ![e] = IF @ = "open" /\ up THEN "closing" ELSE @]
    BY <1>3 DEF Close
  <2>2. channel' \in [End -> ChannelStates]
    BY <1>0, <2>1 DEF ChannelStates
  <2>3. CanSend("server")' => CanSend("server") /\ e # "server"
    BY <1>0, <2>1 DEF CanSend
  <2> QED
    BY <1>0, <2>1, <2>2, <2>3 DEF ConnKept
<1>4. ASSUME NEW e \in End, HandleClose(e) PROVE ConnKept
  BY <1>0, <1>4 DEF HandleClose, CanSend, ConnKept, ChannelStates
<1>5. CASE RemoteCloseEvent
  BY <1>0, <1>5 DEF RemoteCloseEvent, CanSend, ConnKept, ChannelStates
<1>6. CASE SessionEnds
  BY <1>0, <1>6 DEF SessionEnds, CanSend, ConnKept
<1> QED
  <2>1. \A e \in End : \A f : ReceiveFrame(e, f) \/ SendFrame(e, f)
                            => UNCHANGED <<channel, canceled, up>>
    BY Zenon DEF ReceiveFrame, SendFrame
  <2>2. UNCHANGED connVars => UNCHANGED <<channel, canceled, up>>
    BY DEF connVars
  <2> QED
    BY <1>1, <1>2, <1>3, <1>4, <1>5, <1>6, <2>1, <2>2, Zenon DEF ConnAct, ConnNext

\* What a started process does not go back on.
ProcKept ==
    /\ pipes = {} => pipes' = {} /\ written' = written
    /\ \A s \in Streams : written[s] <= written'[s]
    /\ waiter = "off" <=> waiter' = "off"
    /\ waiter \in {"stored", "end"} => waiter' \in {"stored", "end"} /\ status' = status
    /\ completed => completed'

OwnerAct ==
    \/ Terminate /\ waiter # "off" /\ UNCHANGED restVars
    \/ stdinClosed' = TRUE /\ UNCHANGED <<osVars, waiter, termVars, completed>>
    \/ UNCHANGED procVars

LEMMA OwnerKeeps ==
  ASSUME RunnerTypeOK, OwnerAct
  PROVE  ProcKept
<1>1. UNCHANGED <<osVars, waiter, completed>>
  BY Zenon DEF OwnerAct, restVars, procVars
<1>2. \A s \in Streams : written[s] \in Nat
  BY RunnerAssumption DEF RunnerTypeOK
<1> QED
  BY <1>1, <1>2 DEF ProcKept, osVars

LEMMA RunnerKeeps ==
  ASSUME RunnerIInv, RunnerNext
  PROVE  ProcKept
<1>0. \A s \in Streams : written[s] \in Nat
  BY RunnerAssumption DEF RunnerIInv, RunnerTypeOK
<1>1. CASE UNCHANGED osVars /\ UNCHANGED waiter /\ (completed => completed')
  BY <1>0, <1>1 DEF ProcKept, osVars
<1>2. ASSUME NEW p \in Procs, NEW s \in Streams, Write(p, s) PROVE ProcKept
  <2>1. /\ pipes # {} /\ pipes' = pipes /\ status' = status /\ waiter' = waiter
        /\ completed' = completed
    BY <1>2 DEF Write
  <2>2. \A t \in Streams : written[t] <= written'[t]
    BY <1>0, <1>2 DEF Write, RunnerIInv, RunnerTypeOK
  <2> QED
    BY <2>1, <2>2 DEF ProcKept
<1>3. ASSUME NEW p \in Procs, NEW q \in Children, Fork(p, q) PROVE ProcKept
  BY <1>0, <1>3 DEF Fork, ProcKept
<1>4. ASSUME NEW q \in Children, LeaveGroup(q) PROVE ProcKept
  BY <1>0, <1>4 DEF LeaveGroup, ProcKept
<1>5. ASSUME NEW p \in Procs, ClosePipes(p) PROVE ProcKept
  BY <1>0, <1>5 DEF ClosePipes, ProcKept
<1>6. ASSUME NEW p \in Procs, NEW r \in Results, Die(p, r) PROVE ProcKept
  <2>1. waiter \in {"stored", "end"} => p # Leader
    BY <1>6 DEF Die, Alive, RunnerIInv, LeaderReaped
  <2> QED
    BY <1>0, <1>6, <2>1 DEF Die, ProcKept
<1>7. CASE WaitReap \/ WaitStore \/ WaitCleanup
  BY <1>0, <1>7 DEF WaitReap, WaitStore, WaitCleanup, ProcKept, osVars
<1>8. ASSUME NEW r \in Runs, GraceExpires(r) PROVE ProcKept
  BY <1>0, <1>8 DEF GraceExpires, ProcKept
<1>9. ASSUME NEW r \in Runs, Signal(r) \/ PollGone(r) \/ Complete(r) PROVE ProcKept
  BY <1>1, <1>9 DEF Signal, PollGone, Complete
<1> QED
  BY <1>2, <1>3, <1>4, <1>5, <1>6, <1>7, <1>8, <1>9, Zenon DEF RunnerNext, OSNext

LEMMA FailOwns ==
  ASSUME waiter # "off", Fail \/ NoFail
  PROVE  OwnerAct
<1>1. UNCHANGED termVars /\ UNCHANGED restVars => UNCHANGED procVars
  BY Zenon DEF restVars, procVars
<1> QED
  BY <1>1, Zenon DEF Fail, NoFail, OwnerAct

\* A step of the server acts on the connection, and on the process as its
\* owner.
LEMMA ServerActs ==
  ASSUME ServeInv, ServerNext
  PROVE  ConnAct /\ (OwnerAct \/ StartProcess)
<1> USE DEF ConnAct
<1>0. "server" \in End
  BY DEF End
<1>1. CASE StartRefused
  BY <1>0, <1>1, Zenon DEF StartRefused, OwnerAct
<1>2. CASE StartProcess
  BY <1>0, <1>2, Zenon DEF StartProcess
<1>3. CASE StartNotReceived
  BY <1>0, <1>3, Zenon DEF StartNotReceived, OwnerAct
<1>4. CASE SendReject
  BY <1>0, <1>4, Zenon DEF SendReject, OwnerAct
<1>5. CASE SendAccept
  BY <1>0, <1>5, Zenon DEF SendAccept, OwnerAct
<1>6. CASE SendAcceptFails
  BY <1>6 DEF SendAcceptFails, OwnerAct, ServeInv
<1>7. CASE ReapUnserved
  BY <1>7, Zenon DEF ReapUnserved, OwnerAct
<1>8. CASE TakeInput
  <2>1. waiter # "off"
    BY <1>8 DEF TakeInput, ServeInv
  <2> QED
    BY <1>8, <2>1, FailOwns, Zenon DEF TakeInput
<1>9. CASE TakeExit
  BY <1>9, Zenon DEF TakeExit, OwnerAct
<1>10. CASE TakeCanceled
  <2>1. waiter # "off"
    BY <1>10 DEF TakeCanceled, ServeInv
  <2> QED
    BY <1>10, <2>1, FailOwns, Zenon DEF TakeCanceled
<1>11. CASE Drained
  BY <1>11, Zenon DEF Drained, OwnerAct
<1>12. CASE DrainCut
  <2>1. waiter # "off"
    BY <1>12 DEF DrainCut, ServeInv
  <2> QED
    BY <1>12, <2>1, FailOwns, Zenon DEF DrainCut
<1>13. CASE SendExit
  BY <1>0, <1>13, Zenon DEF SendExit, OwnerAct
<1>14. CASE SendExitFails
  BY <1>14, Zenon DEF SendExitFails, OwnerAct
<1>15. CASE ServeCloses
  BY <1>0, <1>15, Zenon DEF ServeCloses, OwnerAct
<1>16. ASSUME NEW s \in Streams, TakeOutput(s) PROVE ConnAct /\ OwnerAct
  <2>1. waiter # "off"
    BY <1>16 DEF TakeOutput, ServeInv
  <2> QED
    BY <1>16, <2>1, FailOwns, Zenon DEF TakeOutput
<1>17. ASSUME NEW s \in Streams, Copying(s) PROVE ConnAct /\ OwnerAct
  BY <1>0, <1>17, Zenon DEF Copying, CopyRead, CopyEOF, CopySend, CopyFails, OwnerAct
<1>18. CASE Inputting \/ InputRefused
  BY <1>0, <1>18, Zenon DEF Inputting, InputFrame, InputWritten, InputWriteFails, InputEOF,
     InputEnds, InputCanceled, InputRefused, OwnerAct
<1>19. CASE WatchContext
  BY <1>19, Zenon DEF WatchContext, OwnerAct
<1> QED
  BY <1>1, <1>2, <1>3, <1>4, <1>5, <1>6, <1>7, <1>8, <1>9, <1>10, <1>11, <1>12, <1>13,
     <1>14, <1>15, <1>16, <1>17, <1>18, <1>19, Zenon DEF ServerNext, Serving

\* So does a step of the client, and it leaves the server alone.
LEMMA ClientActs ==
  ASSUME ClientNext(Exits)
  PROVE  ConnAct
<1>0. "client" \in End
  BY DEF End
<1>1. ASSUME NEW err, Finish(err) PROVE ConnAct
  BY <1>0, <1>1, Zenon DEF Finish, ConnAct
<1>2. CASE Forwarding
  BY <1>0, <1>1, <1>2, Zenon DEF Forwarding, SendStart, SendStartFails, InputTooLate, ReadInput,
     ReadEOF, SendInput, SendInputFails, SendEOFFails, CancelCommand, ConnAct
<1>3. CASE Receiving(Exits)
  BY <1>0, <1>1, <1>3, Zenon DEF Receiving, StartAccepted, StartRuns, StartRejected, StartTold,
     OutOfOrder, ReceiveFails, ExitStored, ExitFinish, FailFinish, Output, ExitReceived, ConnAct
<1>4. CASE Interrupt
  BY <1>1, <1>4, Zenon DEF Interrupt
<1> QED
  BY <1>2, <1>3, <1>4, Zenon DEF ClientNext

\* A step of the command is a step of the process or of its owner.
LEMMA StepOfRunner ==
  ASSUME ServeInv, [Next]_vars
  PROVE  [RunnerNext \/ OwnerNext]_procVars
<1>1. CASE RunnerNext
  BY <1>1
<1>2. CASE UNCHANGED procVars
  BY <1>2
<1>3. CASE ServerNext
  <2>1. StartProcess => waiter = "off" /\ Start
    BY DEF StartProcess, ServeInv
  <2>2. OwnerAct => OwnerNext \/ UNCHANGED procVars
    BY Zenon DEF OwnerAct, OwnerNext, restVars
  <2> QED
    BY <1>3, <2>1, <2>2, ServerActs, Zenon DEF OwnerNext
<1> QED
  BY <1>1, <1>2, <1>3, Zenon DEF Next, vars
-----------------------------------------------------------------------------
(* The server.                                                             *)

\* Steps of others leave what serve() knows.
LEMMA ServeKept ==
  ASSUME ServeInv, ConnKept, ProcKept, UNCHANGED serverVars
  PROVE  ServeInv'
<1>1. UNCHANGED <<serve, copier, input, failure, drainCut, taken, exitSent>>
  BY DEF serverVars
<1> QED
  BY <1>1 DEF ServeInv, ConnKept, ProcKept

\* So does every step that moves no copier.
LEMMA CopyKept ==
  ASSUME RunnerTypeOK, RunnerTypeOK', ServerTypeOK, CopyInv, ConnKept, ProcKept,
         UNCHANGED <<copier, taken>>, failure => failure'
  PROVE  CopyInv'
<1>1. \A s \in Streams : written[s] \in Nat /\ written'[s] \in Nat /\ taken[s] \in Nat
  BY RunnerAssumption DEF RunnerTypeOK, ServerTypeOK
<1>2. ASSUME NEW s \in Streams PROVE taken'[s] <= written'[s]
  BY <1>1 DEF CopyInv, ProcKept
<1>3. ASSUME NEW s \in Streams, AtEnd(s) PROVE AtEnd(s)'
  BY <1>3 DEF AtEnd, ProcKept
<1> QED
  BY <1>2, <1>3 DEF CopyInv, ConnKept

LEMMA FailSets == ASSUME Fail \/ NoFail, failure \in BOOLEAN PROVE failure => failure'
BY Zenon DEF Fail, NoFail

LEMMA ServerServes ==
  ASSUME ServerTypeOK, ServeInv, ConnKept, ServerNext, ProcKept \/ StartProcess
  PROVE  ServeInv'
<1> USE DEF ServerTypeOK
<1>0. \A s \in Streams : copier \in [Streams -> CopierStates]
  OBVIOUS
<1>1. CASE StartProcess
  <2>1. /\ serve' = "accept" /\ waiter' = "cmd.Wait"
        /\ UNCHANGED <<copier, failure, drainCut, completed>>
    BY <1>1 DEF StartProcess, Start
  <2>2. \A s \in Streams : copier[s] = "off"
    BY <1>1 DEF StartProcess, ServeInv
  <2> QED
    BY <2>1, <2>2 DEF ServeInv, ConnKept
<1> SUFFICES ASSUME ProcKept PROVE ServeInv'
  BY <1>1
<1>2. CASE StartRefused \/ StartNotReceived \/ SendReject \/ SendAcceptFails \/ ReapUnserved
  <2>1. UNCHANGED <<copier, failure, drainCut>>
    BY <1>2 DEF StartRefused, StartNotReceived, SendReject, SendAcceptFails, ReapUnserved
  <2>2. \/ serve = "receive" /\ serve' = "reject"
        \/ serve = "accept" /\ serve' = "reap"
        \/ serve' = "close"
    BY <1>2 DEF StartRefused, StartNotReceived, SendReject, SendAcceptFails, ReapUnserved
  <2> QED
    BY <2>1, <2>2 DEF ServeInv, ConnKept, ProcKept
<1>3. CASE SendAccept
  BY <1>3 DEF SendAccept, ServeInv, ConnKept, ProcKept
<1>4. CASE TakeInput \/ TakeCanceled
  <2>1. /\ UNCHANGED <<serve, copier, drainCut>> /\ serve = "loop"
        /\ Fail \/ NoFail
    BY <1>4, Zenon DEF TakeInput, TakeCanceled
  <2> QED
    BY <2>1, FailSets DEF ServeInv, ConnKept, ProcKept
<1>5. CASE TakeExit
  BY <1>5 DEF TakeExit, ServeInv, ConnKept, ProcKept
<1>6. CASE Drained
  BY <1>6 DEF Drained, ServeInv, ConnKept, ProcKept
<1>7. CASE DrainCut
  <2>1. serve = "drain" /\ serve' = "exit" /\ copier' = copier /\ failure' = TRUE
    BY <1>7, Zenon DEF DrainCut, Fail
  <2> QED
    BY <2>1 DEF ServeInv, ConnKept, ProcKept
<1>8. CASE SendExit \/ SendExitFails \/ ServeCloses
  <2>1. UNCHANGED <<copier, failure, drainCut>> /\ serve' \in {"close", "end"}
    BY <1>8 DEF SendExit, SendExitFails, ServeCloses
  <2> QED
    BY <2>1 DEF ServeInv, ConnKept, ProcKept
<1>9. ASSUME NEW s \in Streams, TakeOutput(s) PROVE ServeInv'
  <2>1. /\ UNCHANGED <<serve, drainCut>> /\ serve \in {"loop", "drain"}
        /\ Fail \/ NoFail
    BY <1>9, Zenon DEF TakeOutput
  <2> QED
    BY <2>1, FailSets DEF ServeInv, ConnKept, ProcKept
<1>10. ASSUME NEW s \in Streams, Copying(s) PROVE ServeInv'
  <2>1. /\ UNCHANGED <<serve, failure, drainCut>>
        /\ copier[s] \notin {"off", "joined"}
    BY <1>10 DEF Copying, CopyRead, CopyEOF, CopySend, CopyFails
  <2> QED
    BY <2>1 DEF ServeInv, ConnKept, ProcKept
<1>11. CASE Inputting \/ InputRefused \/ WatchContext
  <2>1. UNCHANGED <<serve, copier, failure, drainCut>>
    BY <1>11 DEF Inputting, InputFrame, InputWritten, InputWriteFails, InputEOF,
       InputEnds, InputCanceled, InputRefused, WatchContext, serverVars
  <2> QED
    BY <2>1 DEF ServeInv, ConnKept, ProcKept
<1> QED
  BY <1>1, <1>2, <1>3, <1>4, <1>5, <1>6, <1>7, <1>8, <1>9, <1>10, <1>11, Zenon
     DEF ServerNext, Serving

\* The copiers.
LEMMA ServerCopies ==
  ASSUME RunnerTypeOK, RunnerTypeOK', ServerTypeOK, ServeInv, CopyInv, ConnKept, ServerNext,
         ProcKept \/ StartProcess
  PROVE  CopyInv'
<1>0. \A s \in Streams : /\ written[s] \in Nat /\ written'[s] \in Nat /\ taken[s] \in Nat
                         /\ copier[s] \in CopierStates
  BY RunnerAssumption DEF RunnerTypeOK, ServerTypeOK
<1>00. failure \in BOOLEAN /\ copier = [s \in Streams |-> copier[s]]
       /\ taken = [s \in Streams |-> taken[s]]
  BY DEF ServerTypeOK
<1>1. CASE StartProcess
  <2>1. UNCHANGED <<copier, taken, failure, written>>
    BY <1>1 DEF StartProcess, Start
  <2>2. \A s \in Streams : copier[s] = "off"
    BY <1>1 DEF StartProcess, ServeInv
  <2> QED
    BY <2>1, <2>2 DEF CopyInv
<1> SUFFICES ASSUME ProcKept PROVE CopyInv'
  BY <1>1
<1>2. CASE UNCHANGED <<copier, taken>> /\ (failure => failure')
  BY <1>2, CopyKept
<1>3. CASE SendAccept
  <2>1. copier' = [s \in Streams |-> "read"] /\ UNCHANGED <<taken, failure>>
    BY <1>3 DEF SendAccept
  <2> QED
    BY <1>0, <2>1 DEF CopyInv, ProcKept
<1>4. ASSUME NEW s \in Streams, TakeOutput(s) PROVE CopyInv'
  <2>1. /\ copier' = [copier EXCEPT ![s] = "joined"] /\ taken' = taken
        /\ copier[s] \in {"done", "failed"}
        /\ copier[s] = "failed" => canceled \/ failure' = TRUE
    BY <1>4, Zenon DEF TakeOutput, Fail
  <2>2. failure => failure'
    BY <1>4, <1>00, FailSets, Zenon DEF TakeOutput
  <2>3. ASSUME NEW t \in Streams, AtEnd(t) PROVE AtEnd(t)'
    BY <2>1, <2>3 DEF AtEnd, ProcKept
  <2>4. CanSend("server")' /\ ~failure' => copier[s] = "done"
    BY <2>1 DEF ServeInv, ConnKept
  <2>5. \A t \in Streams : taken'[t] <= written'[t]
    BY <1>0, <2>1 DEF CopyInv, ProcKept
  <2>6. \A t \in Streams : t # s => copier'[t] = copier[t]
    BY <2>1, <1>00
  <2>7. copier'[s] = "joined"
    BY <2>1, <1>00
  <2> QED
    BY <2>2, <2>3, <2>4, <2>5, <2>6, <2>7 DEF CopyInv, ConnKept
<1>5. ASSUME NEW s \in Streams, Copying(s) PROVE CopyInv'
  <2>1. UNCHANGED <<failure, pipes, written>>
    BY <1>5, Zenon DEF Copying, CopyRead, CopyEOF, CopySend, CopyFails, procVars, osVars
  <2>2. \A t \in Streams : t # s => copier'[t] = copier[t] /\ taken'[t] = taken[t]
    BY <1>5, <1>00 DEF Copying, CopyRead, CopyEOF, CopySend, CopyFails
  <2>3. \A t \in Streams : t # s /\ AtEnd(t) => AtEnd(t)'
    BY <2>1, <2>2 DEF AtEnd
  <2>4. CASE CopyRead(s)
    <3>1. taken'[s] = taken[s] + 1 /\ copier'[s] = "send" /\ taken[s] < written[s]
      BY <2>4, <1>00 DEF CopyRead, Unread
    <3> QED
      BY <3>1, <2>1, <2>2, <2>3, <1>0 DEF CopyInv, ConnKept
  <2>5. CASE CopyEOF(s)
    <3>1. /\ taken'[s] = taken[s] /\ copier'[s] = "done" /\ ~(taken[s] < written[s])
          /\ pipes = {}
      BY <2>5, <1>00 DEF CopyEOF, Unread
    <3>2. AtEnd(s)'
      BY <3>1, <2>1, <1>0 DEF AtEnd, CopyInv
    <3> QED
      BY <3>1, <3>2, <2>1, <2>2, <2>3, <1>0 DEF CopyInv, ConnKept
  <2>6. CASE CopySend(s)
    <3>1. taken'[s] = taken[s] /\ copier'[s] = "read"
      BY <2>6, <1>00 DEF CopySend
    <3> QED
      BY <3>1, <2>1, <2>2, <2>3, <1>0 DEF CopyInv, ConnKept
  <2>7. CASE CopyFails(s)
    <3>1. taken'[s] = taken[s] /\ (~CanSend("server") \/ drainCut)
      BY <2>7, <1>00 DEF CopyFails
    <3>2. ~CanSend("server")' \/ failure'
      BY <3>1, <2>1 DEF ServeInv, ConnKept
    <3> QED
      BY <3>1, <3>2, <2>1, <2>2, <1>0 DEF CopyInv
  <2> QED
    BY <1>5, <2>4, <2>5, <2>6, <2>7, Zenon DEF Copying
<1>6. CASE TakeInput \/ TakeCanceled \/ DrainCut
  <2>1. UNCHANGED <<copier, taken>> /\ (Fail \/ NoFail)
    BY <1>6, Zenon DEF TakeInput, TakeCanceled, DrainCut
  <2> QED
    BY <1>00, <1>2, <2>1, FailSets, Zenon
<1>7. CASE \/ StartRefused \/ StartNotReceived \/ SendReject \/ SendAcceptFails \/ ReapUnserved
           \/ TakeExit \/ Drained \/ SendExit \/ SendExitFails \/ ServeCloses
  <2>1. UNCHANGED <<copier, taken, failure>>
    BY <1>7 DEF StartRefused, StartNotReceived, SendReject, SendAcceptFails, ReapUnserved,
       TakeExit, Drained, SendExit, SendExitFails, ServeCloses
  <2> QED
    BY <1>2, <2>1
<1>8. CASE Inputting \/ InputRefused \/ WatchContext
  <2>1. UNCHANGED <<copier, taken, failure>>
    BY <1>8 DEF Inputting, InputFrame, InputWritten, InputWriteFails, InputEOF,
       InputEnds, InputCanceled, InputRefused, WatchContext, serverVars
  <2> QED
    BY <1>2, <2>1
<1> QED
  BY <1>1, <1>3, <1>4, <1>5, <1>6, <1>7, <1>8, Zenon DEF ServerNext, Serving
-----------------------------------------------------------------------------
(* The frames an endpoint has to receive.                                  *)

Box == inbox["client"]

LEMMA InboxSend ==
  ASSUME ConnType, NEW e \in End, NEW f \in Frames, SendFrame(e, f)
  PROVE  /\ inbox' \in [End -> Seq(Frames)]
         /\ \A x \in End : Len(inbox'[x]) <= Window
         /\ inbox'[Peer(e)] = Append(inbox[Peer(e)], f) /\ inbox'[e] = inbox[e]
<1>1. /\ inbox \in [End -> Seq(Frames)] /\ Peer(e) \in End /\ Peer(e) # e
      /\ \A x \in End : Len(inbox[x]) <= Window
  BY DEF ConnType, End, Peer
<1>2. /\ inbox' = [inbox EXCEPT ![Peer(e)] = Append(@, f)]
      /\ Len(inbox[Peer(e)]) < Window
  BY DEF SendFrame
<1>3. inbox[Peer(e)] \in Seq(Frames) /\ Window \in Nat
  BY <1>1, ConnAssumption
<1>4. /\ Append(inbox[Peer(e)], f) \in Seq(Frames)
      /\ Len(Append(inbox[Peer(e)], f)) <= Window
  BY <1>2, <1>3
<1>5. /\ inbox'[Peer(e)] = Append(inbox[Peer(e)], f)
      /\ \A x \in End : x # Peer(e) => inbox'[x] = inbox[x]
  BY <1>1, <1>2
<1>6. inbox' \in [End -> Seq(Frames)]
  BY <1>1, <1>2, <1>4
<1> QED
  BY <1>1, <1>4, <1>5, <1>6

LEMMA InboxReceive ==
  ASSUME ConnType, NEW e \in End, NEW f, ReceiveFrame(e, f)
  PROVE  /\ inbox' \in [End -> Seq(Frames)]
         /\ \A x \in End : Len(inbox'[x]) <= Window
         /\ inbox[e] # <<>> /\ f = Head(inbox[e])
         /\ inbox'[e] = Tail(inbox[e]) /\ inbox'[Peer(e)] = inbox[Peer(e)]
<1>1. /\ inbox \in [End -> Seq(Frames)] /\ Peer(e) \in End /\ Peer(e) # e
      /\ \A x \in End : Len(inbox[x]) <= Window
  BY DEF ConnType, End, Peer
<1>2. /\ inbox' = [inbox EXCEPT ![e] = Tail(@)]
      /\ inbox[e] # <<>> /\ f = Head(inbox[e])
  BY DEF ReceiveFrame, Receivable
<1>3. inbox[e] \in Seq(Frames) /\ Window \in Nat /\ Len(inbox[e]) <= Window
  BY <1>1, ConnAssumption
<1>4. Tail(inbox[e]) \in Seq(Frames) /\ Len(Tail(inbox[e])) <= Window
  BY <1>2, <1>3
<1>5. inbox'[e] = Tail(inbox[e]) /\ \A x \in End : x # e => inbox'[x] = inbox[x]
  BY <1>1, <1>2
<1>6. inbox' \in [End -> Seq(Frames)]
  BY <1>1, <1>2, <1>4
<1> QED
  BY <1>1, <1>2, <1>4, <1>5, <1>6

LEMMA InboxSame ==
  ASSUME ConnType, ConnKept, inbox' = inbox
  PROVE  ConnType'
BY DEF ConnType, ConnKept

LEMMA ConnTypeNew ==
  ASSUME ConnKept, inbox' \in [End -> Seq(Frames)], \A x \in End : Len(inbox'[x]) <= Window
  PROVE  ConnType'
BY DEF ConnType, ConnKept

LEMMA InboxEnds ==
  ASSUME ConnType, ConnNext
  PROVE  /\ inbox' \in [End -> Seq(Frames)]
         /\ \A x \in End : Len(inbox'[x]) <= Window
         /\ Box' = Box \/ (Box' = <<>> /\ ~up')
<1>0. "client" \in End
  BY DEF End
<1>1. CASE inbox' = inbox
  BY <1>1 DEF ConnType, Box
<1>2. CASE SessionEnds
  <2>1. /\ inbox' = [e \in End |-> IF channel[e] \in {"remote", "closed"}
                                   THEN inbox[e] ELSE <<>>]
        /\ up' = FALSE
    BY <1>2 DEF SessionEnds
  <2>2. /\ inbox \in [End -> Seq(Frames)] /\ \A x \in End : Len(inbox[x]) <= Window
        /\ <<>> \in Seq(Frames) /\ Len(<<>>) <= Window
    BY ConnAssumption DEF ConnType
  <2>3. \A x \in End : inbox'[x] = inbox[x] \/ inbox'[x] = <<>>
    BY <2>1
  <2> HIDE DEF Frames
  <2>4. inbox' \in [End -> Seq(Frames)]
    BY <2>1, <2>2
  <2> QED
    BY <1>0, <2>1, <2>2, <2>3, <2>4 DEF Box
<1> QED
  BY <1>1, <1>2, Zenon DEF ConnNext, HandleClose, RemoteCloseEvent

\* What a step of the server puts in the client's inbox is one of its frames,
\* and it puts nothing there but by SendAccept, SendReject, CopySend, SendExit.
ServerSends ==
    \/ SendReject /\ SendFrame("server", StartResult(FALSE))
    \/ SendAccept
    \/ \E s \in Streams : CopySend(s)
    \/ SendExit

LEMMA ServerFrameTypes ==
  ASSUME RunnerTypeOK
  PROVE  /\ \A ok \in BOOLEAN : StartResult(ok) \in Frames
         /\ \A s \in Streams : OutputFrame(s) \in Frames
         /\ Exit \in Frames /\ Exit.kind = "exit"
         /\ Exit.result = IF failure THEN RuntimeFailure ELSE status
<1>1. /\ \A ok \in BOOLEAN : StartResult(ok) \in Frames
      /\ \A s \in Streams : OutputFrame(s) \in Frames
      /\ \A r \in Exits \cup {"none"} : ExitFrame(r) \in Frames
  BY Zenon DEF Frames, ServerFrames
<1>2. (IF failure THEN RuntimeFailure ELSE status) \in Exits \cup {"none"}
  BY DEF RunnerTypeOK, Exits
<1>3. Exit = ExitFrame(IF failure THEN RuntimeFailure ELSE status)
  BY DEF Exit
<1>4. \A r : ExitFrame(r).kind = "exit" /\ ExitFrame(r).result = r
  BY DEF ExitFrame
<1> QED
  BY <1>1, <1>2, <1>3, <1>4, Zenon

LEMMA PeerOfServer == Peer("server") = "client" /\ Peer("client") = "server"
                      /\ "server" \in End /\ "client" \in End
BY DEF Peer, End

LEMMA ServerBox ==
  ASSUME ConnType, ConnKept, RunnerTypeOK, ServerNext
  PROVE  ConnType' /\ (ServerSends \/ Box' = Box)
<1>0. "server" \in End /\ Peer("server") = "client"
  BY PeerOfServer
<1>1. ASSUME NEW f, ReceiveFrame("server", f) PROVE ConnType' /\ Box' = Box
  BY <1>0, <1>1, InboxReceive, ConnTypeNew DEF Box
<1>2. ASSUME inbox' = inbox PROVE ConnType' /\ Box' = Box
  BY <1>2, InboxSame DEF Box
<1>3. ASSUME NEW f \in Frames, SendFrame("server", f) PROVE ConnType'
  BY <1>0, <1>3, InboxSend, ConnTypeNew
<1>4. ASSUME UNCHANGED connVars PROVE ConnType' /\ Box' = Box
  BY <1>2, <1>4 DEF connVars
<1>5. ASSUME ReceiveEnds("server") \/ Close("server") PROVE ConnType' /\ Box' = Box
  BY <1>2, <1>5, Zenon DEF ReceiveEnds, Close
<1>6. CASE ServerSends
  BY <1>3, <1>6, ServerFrameTypes, Zenon DEF ServerSends, SendAccept, CopySend, SendExit
<1>7. CASE StartRefused \/ StartProcess \/ StartNotReceived \/ SendReject
  <2>1. CASE SendReject
    BY <1>4, <1>6, <2>1, Zenon DEF SendReject, ServerSends
  <2> QED
    BY <1>1, <1>5, <1>7, <2>1, Zenon DEF StartRefused, StartProcess, StartNotReceived
<1>8. CASE \/ SendAcceptFails \/ ReapUnserved \/ TakeInput \/ TakeExit \/ TakeCanceled
           \/ Drained \/ DrainCut \/ SendExitFails \/ ServeCloses \/ WatchContext
  BY <1>4, <1>5, <1>8, Zenon DEF SendAcceptFails, ReapUnserved, TakeInput, TakeExit, TakeCanceled,
     Drained, DrainCut, SendExitFails, ServeCloses, WatchContext
<1>9. CASE Inputting \/ InputRefused
  BY <1>1, <1>4, <1>5, <1>9, Zenon DEF Inputting, InputFrame, InputWritten, InputWriteFails,
     InputEOF, InputEnds, InputCanceled, InputRefused
<1>10. ASSUME NEW s \in Streams, TakeOutput(s) \/ CopyRead(s) \/ CopyEOF(s) \/ CopyFails(s)
       PROVE  ConnType' /\ Box' = Box
  BY <1>4, <1>10, Zenon DEF TakeOutput, CopyRead, CopyEOF, CopyFails
<1>11. CASE SendAccept \/ SendExit \/ \E s \in Streams : CopySend(s)
  BY <1>6, <1>11, Zenon DEF ServerSends
<1> QED
  BY <1>7, <1>8, <1>9, <1>10, <1>11, Zenon DEF ServerNext, Serving, Copying

\* A step of the client takes a frame out of its inbox, or leaves it alone.
ClientTakes ==
    \/ StartAccepted \/ StartRejected \/ OutOfOrder
    \/ \E s \in Outputs : Output(s)
    \/ \E r \in Exits : ExitReceived(r)

LEMMA ClientBox ==
  ASSUME ConnType, ConnKept, ClientTypeOK, ClientNext(Exits)
  PROVE  /\ ConnType'
         /\ ClientTakes \/ Box' = Box
         /\ ClientTakes => Box # <<>> /\ Box' = Tail(Box)
<1>0. "client" \in End /\ Peer("client") = "server"
  BY PeerOfServer
<1>1. ASSUME NEW f, ReceiveFrame("client", f) PROVE ConnType' /\ Box # <<>> /\ Box' = Tail(Box)
  BY <1>0, <1>1, InboxReceive, ConnTypeNew DEF Box
<1>2. ASSUME inbox' = inbox PROVE ConnType' /\ Box' = Box
  BY <1>2, InboxSame DEF Box
<1>3. ASSUME NEW f \in Frames, SendFrame("client", f) PROVE ConnType' /\ Box' = Box
  BY <1>0, <1>3, InboxSend, ConnTypeNew DEF Box
<1>4. ASSUME UNCHANGED connVars PROVE ConnType' /\ Box' = Box
  BY <1>2, <1>4 DEF connVars
<1>5. ASSUME NEW err, Finish(err) PROVE ConnType' /\ Box' = Box
  BY <1>2, <1>4, <1>5, Zenon DEF Finish, Close
<1>6. \A k \in {"start", "stdin", "eof"} : [kind |-> k] \in Frames
  BY Zenon DEF Frames, ClientFrames
<1>7. CASE ClientTakes
  BY <1>1, <1>7, Zenon DEF ClientTakes, StartAccepted, StartRejected, OutOfOrder, Output, ExitReceived
<1>8. CASE Forwarding
  <2>1. forward \in {"stdin", "eof"} => [kind |-> forward] \in Frames
    BY <1>6
  <2>2. [kind |-> "start"] \in Frames
    BY <1>6
  <2> QED
    BY <1>3, <1>4, <1>5, <1>7, <1>8, <2>1, <2>2, Zenon DEF Forwarding, SendStart, SendStartFails,
       InputTooLate, ReadInput, ReadEOF, SendInput, SendInputFails, SendEOFFails,
       CancelCommand
<1>9. CASE ReceiveFails
  BY <1>2, <1>7, <1>9, Zenon DEF ReceiveFails, ReceiveEnds
<1>10. CASE ExitFinish \/ FailFinish \/ Interrupt
  BY <1>5, <1>7, <1>10, Zenon DEF ExitFinish, FailFinish, Interrupt
<1>11. CASE StartRuns \/ StartTold \/ ExitStored
  BY <1>4, <1>7, <1>11, Zenon DEF StartRuns, StartTold, ExitStored
<1> QED
  BY <1>7, <1>8, <1>9, <1>10, <1>11, Zenon DEF ClientNext, Receiving, ClientTakes
-----------------------------------------------------------------------------
(* Types.                                                                  *)

LEMMA ServerTypes ==
  ASSUME ServerTypeOK, RunnerTypeOK, CopyInv', RunnerTypeOK', ServerNext
  PROVE  ServerTypeOK'
<1>0. /\ copier \in [Streams -> CopierStates] /\ taken \in [Streams -> 0..MaxOutput]
      /\ failure \in BOOLEAN /\ drainCut \in BOOLEAN /\ input \in InputStates
      /\ serve \in ServeStates /\ exitSent \in Results \cup {"none", RuntimeFailure}
  BY DEF ServerTypeOK
<1>1. Fail \/ NoFail => failure' \in BOOLEAN
  BY <1>0, Zenon DEF Fail, NoFail
<1>2. Exit.result \in Results \cup {"none", RuntimeFailure}
  BY ServerFrameTypes DEF RunnerTypeOK
<1>3. /\ serve' \in ServeStates /\ input' \in InputStates
      /\ failure' \in BOOLEAN /\ drainCut' \in BOOLEAN
      /\ exitSent' \in Results \cup {"none", RuntimeFailure}
      /\ \/ copier' = copier
         \/ copier' = [s \in Streams |-> "read"]
         \/ \E s \in Streams, c \in {"joined", "send", "done", "read", "failed"} :
               copier' = [copier EXCEPT ![s] = c]
      /\ \/ taken' = taken
         \/ \E s \in Streams : taken' = [taken EXCEPT ![s] = @ + 1]
  <2> USE DEF ServerNext, Serving, StartRefused, StartProcess, StartNotReceived, SendReject,
      SendAccept, SendAcceptFails, ReapUnserved, TakeInput, TakeExit, TakeCanceled, Drained,
      DrainCut, SendExit, SendExitFails, ServeCloses, TakeOutput, Copying, CopyRead, CopyEOF,
      CopySend, CopyFails, Inputting, InputFrame, InputWritten, InputWriteFails, InputEOF,
      InputEnds, InputCanceled, InputRefused, WatchContext, serverVars
  <2>1. serve' \in ServeStates
    BY <1>0 DEF ServeStates
  <2>2. input' \in InputStates
    BY <1>0 DEF InputStates
  <2>3. failure' \in BOOLEAN
    BY <1>0, <1>1, Zenon
  <2>4. drainCut' \in BOOLEAN
    BY <1>0, Zenon
  <2>5. exitSent' \in Results \cup {"none", RuntimeFailure}
    BY <1>0, <1>2, Zenon
  <2>6. \/ copier' = copier
        \/ copier' = [s \in Streams |-> "read"]
        \/ \E s \in Streams, c \in {"joined", "send", "done", "read", "failed"} :
              copier' = [copier EXCEPT ![s] = c]
    BY Zenon
  <2>7. \/ taken' = taken
        \/ \E s \in Streams : taken' = [taken EXCEPT ![s] = @ + 1]
    BY Zenon
  <2> QED
    BY <2>1, <2>2, <2>3, <2>4, <2>5, <2>6, <2>7, Zenon
<1>4. copier' \in [Streams -> CopierStates]
  BY <1>0, <1>3 DEF CopierStates
<1>5. taken' \in [Streams -> 0..MaxOutput]
  <2>1. taken' \in [Streams -> Nat]
    BY <1>0, <1>3, RunnerAssumption
  <2>2. \A s \in Streams : taken'[s] <= written'[s] /\ written'[s] \in 0..MaxOutput
    BY DEF CopyInv, RunnerTypeOK
  <2>3. \A s \in Streams : taken'[s] \in 0..MaxOutput
    BY <2>1, <2>2, RunnerAssumption
  <2> QED
    BY <2>1, <2>3
<1> QED
  BY <1>3, <1>4, <1>5 DEF ServerTypeOK

\* What finish does to the client.
Finished(err) ==
    /\ finished' = TRUE
    /\ \/ finished /\ UNCHANGED <<waitErr, clientState>>
       \/ /\ ~finished
          /\ waitErr' = IF waitErr = "nil" THEN err ELSE waitErr
          /\ clientState' = IF clientState = "exited" THEN "exited" ELSE "closed"

\* The types of the client, and what it does to its result and its state.
ClientDoes ==
    \/ UNCHANGED <<waitErr, clientState, finished>>
    \/ Finished("error") /\ UNCHANGED shown
    \/ ExitFinish /\ Finished(waitErr) /\ UNCHANGED shown
    \/ StartRuns
    \/ ExitStored

LEMMA ClientKinds ==
  ASSUME ClientTypeOK, ClientNext(Exits)
  PROVE  ClientDoes
<1>0. finished \in BOOLEAN
  BY DEF ClientTypeOK
<1>1. ASSUME Finish("error"), UNCHANGED shown PROVE ClientDoes
  BY <1>0, <1>1, Zenon DEF Finish, Finished, ClientDoes
<1>2. CASE Forwarding
  BY <1>1, <1>2, Zenon DEF Forwarding, SendStart, SendStartFails, InputTooLate, ReadInput,
     ReadEOF, SendInput, SendInputFails, SendEOFFails, CancelCommand, ClientDoes
<1>3. CASE Interrupt
  BY <1>1, <1>3, Zenon DEF Interrupt
<1>4. CASE Receiving(Exits)
  <2>1. CASE ExitFinish
    BY <1>0, <2>1, Zenon DEF ExitFinish, Finish, Finished, ClientDoes
  <2>2. CASE FailFinish
    BY <1>1, <2>2, Zenon DEF FailFinish
  <2> QED
    BY <1>4, <2>1, <2>2, Zenon DEF Receiving, StartAccepted, StartRejected, StartTold,
       OutOfOrder, ReceiveFails, Output, ExitReceived, ClientDoes
<1> QED
  BY <1>2, <1>3, <1>4, Zenon DEF ClientNext

LEMMA ClientTypes ==
  ASSUME ClientTypeOK, waitErr \in Exits \cup {"nil", "error"}, ClientInv, ClientNext(Exits)
  PROVE  ClientTypeOK' /\ waitErr' \in Exits \cup {"nil", "error"} /\ ClientInv'
<1> DEFINE Loop == {"frames", "accept", "reject", "stuck", "exit", "stored", "failed", "end"}
           Calls == {"start", "wait", "read", "stdin", "eof", "cancel", "end"}
           States == {"starting", "running", "exited", "closed"}
<1>0. /\ clientState \in States
      /\ finished \in BOOLEAN /\ receiving \in Loop
      /\ forward \in Calls
      /\ sentInput \in 0..MaxInput /\ shown \in [Streams -> Nat]
  BY DEF ClientTypeOK, ClientInv
<1>1. ClientDoes
  BY ClientKinds
<1>2. /\ clientState' \in States /\ finished' \in BOOLEAN
      /\ waitErr' \in Exits \cup {"nil", "error"}
      /\ clientState = "exited" => clientState' = "exited"
      /\ clientState' = "exited" => clientState = "exited" \/ ExitStored
  <2>1. CASE UNCHANGED <<waitErr, clientState, finished>>
    BY <1>0, <2>1
  <2>2. ASSUME NEW err \in {"error", waitErr}, Finished(err)
        PROVE  /\ clientState' \in States /\ finished' \in BOOLEAN
               /\ waitErr' \in Exits \cup {"nil", "error"}
               /\ clientState = "exited" <=> clientState' = "exited"
    BY <1>0, <2>2 DEF Finished
  <2>3. CASE StartRuns
    BY <1>0, <2>3 DEF StartRuns, ClientInv
  <2>4. CASE ExitStored
    BY <1>0, <2>4 DEF ExitStored, ClientInv
  <2> QED
    BY <1>1, <2>1, <2>2, <2>3, <2>4 DEF ClientDoes
<1>3. /\ receiving' \in Loop
      /\ forward' \in Calls
      /\ result' \in Exits \cup {"none"}
      /\ receiving' = "exit" => result' \in Exits
      /\ receiving' = "accept" => receiving = "accept" \/ clientState' = "starting"
      /\ receiving' = "stored" => receiving = "stored" \/ ExitStored
      /\ ExitStored => receiving' = "stored" /\ clientState' = "exited"
      /\ \/ sentInput' = sentInput
         \/ sentInput < MaxInput /\ sentInput' = sentInput + 1
      /\ \/ shown' = shown
         \/ \E s \in Outputs : shown' = [shown EXCEPT ![s] = @ + 1]
  <2> USE DEF ClientNext, Forwarding, SendStart, SendStartFails, InputTooLate, ReadInput,
      ReadEOF, SendInput, SendInputFails, SendEOFFails, CancelCommand, Interrupt, Receiving,
      StartAccepted, StartRuns, StartRejected, StartTold, OutOfOrder, ReceiveFails, ExitStored,
      ExitFinish, FailFinish, Output, ExitReceived
  <2>1. receiving' \in Loop
    BY <1>0 DEF ToldStart
  <2>2. forward' \in Calls
    BY <1>0
  <2>3. \/ sentInput' = sentInput
        \/ sentInput < MaxInput /\ sentInput' = sentInput + 1
    BY Zenon
  <2>4. \/ shown' = shown
        \/ \E s \in Outputs : shown' = [shown EXCEPT ![s] = @ + 1]
    BY Zenon
  <2>5. /\ result' \in Exits \cup {"none"}
        /\ receiving' = "exit" => result' \in Exits
    BY DEF ClientInv, ToldStart
  <2>6. /\ receiving' = "accept" => receiving = "accept" \/ clientState' = "starting"
        /\ receiving' = "stored" => receiving = "stored" \/ ExitStored
        /\ ExitStored => receiving' = "stored" /\ clientState' = "exited"
    BY DEF ToldStart
  <2> QED
    BY <2>1, <2>2, <2>3, <2>4, <2>5, <2>6, Zenon
<1>4. sentInput' \in 0..MaxInput
  BY <1>0, <1>3, ClientAssumption
<1>5. shown' \in [Streams -> Nat]
  BY <1>0, <1>3, RunAssumption
<1> QED
  BY <1>2, <1>3, <1>4, <1>5 DEF ClientTypeOK, ClientInv
-----------------------------------------------------------------------------
(* The account of the output and the exit.                                 *)

LEMMA CarriesType ==
  ASSUME ConnType, NEW s
  PROVE  /\ Box \in Seq(Frames) /\ Carries(Box, s) \in Nat
         /\ \A f \in Frames : Carries(Append(Box, f), s)
              = Carries(Box, s) + IF f = OutputFrame(s) THEN 1 ELSE 0
<1>1. Box \in Seq(Frames) /\ StartResult(TRUE) \in Frames
  BY DEF Box, ConnType, End, Frames, ServerFrames
<1> HIDE DEF Frames, Box
<1>2. \A f \in Frames : /\ Count(Box, OutputFrame(s)) \in Nat
                        /\ Count(Append(Box, f), OutputFrame(s))
                             = Count(Box, OutputFrame(s)) + IF f = OutputFrame(s) THEN 1 ELSE 0
  BY <1>1, CountAppend, Zenon
<1> QED
  BY <1>1, <1>2, Zenon DEF Carries

LEMMA CarriesTail ==
  ASSUME ConnType, Box # <<>>, NEW s
  PROVE  Carries(Box, s) = Carries(Tail(Box), s) + IF Head(Box) = OutputFrame(s) THEN 1 ELSE 0
<1>1. Box \in Seq(Frames)
  BY CarriesType
<1> QED
  BY <1>1, CountTail, Zenon DEF Carries

\* Faithful stays so.
LEMMA FaithfulKept ==
  ASSUME ProcKept, NEW r, Faithful(r)
  PROVE  Faithful(r)' /\ written' = written
BY DEF ProcKept, Faithful

\* A step that leaves the client's inbox, what is shown and the copiers.
LEMMA OutputKept ==
  ASSUME OutputInv, ConnKept, failure => failure', Expecting' => Expecting, Box' = Box,
         UNCHANGED <<taken, shown, copier>>
  PROVE  OutputInv'
<1>1. Accounts(Box, taken, shown, copier)
         => Accounts(Box', taken', shown', copier')
  BY Zenon
<1> QED
  BY <1>1, Zenon DEF OutputInv, ConnKept, Box

\* A step that leaves the client's inbox and what is shown, after which a
\* server that was quiet still is.
LEMMA ExitKept ==
  ASSUME ExitInv, ProcKept, Quiet => Quiet', Expecting' => Expecting, Box' = Box,
         UNCHANGED shown
  PROVE  ExitInv'
<1> SUFFICES ASSUME NEW i \in DOMAIN Box, IsExit(Box[i])
             PROVE  /\ i = Len(Box) /\ Quiet' /\ Faithful(Box[i].result)'
                    /\ Expecting' => Completes(Box, shown, written')
  BY Zenon DEF ExitInv, Box
<1>1. /\ i = Len(Box) /\ Quiet /\ Faithful(Box[i].result)
      /\ Expecting => Completes(Box, shown, written)
  BY Zenon DEF ExitInv, Box
<1>2. \A x : Faithful(x) => Faithful(x)' /\ written' = written
  BY FaithfulKept
<1> QED
  BY <1>1, <1>2, Zenon
LEMMA FramesDiffer ==
  /\ \A ok, s : StartResult(ok) # OutputFrame(s) /\ StartResult(ok).kind # "exit"
  /\ \A f, s : f.kind = "exit" => f # OutputFrame(s)
  /\ \A s : OutputFrame(s).kind # "exit"
  /\ \A s, t : OutputFrame(s) = OutputFrame(t) <=> s = t
<1>1. \A ok : StartResult(ok).kind = "start result"
  BY DEF StartResult
<1>2. \A s : OutputFrame(s).kind = "output" /\ OutputFrame(s).stream = s
  BY DEF OutputFrame
<1>3. "start result" # "exit" /\ "start result" # "output" /\ "output" # "exit"
  OBVIOUS
<1>4. \A f, s : f = OutputFrame(s) => f.kind = "output"
  BY <1>2
<1>5. \A s, t : OutputFrame(s) = OutputFrame(t) => s = t
  BY <1>2
<1>6. \A ok, s : StartResult(ok) # OutputFrame(s)
  BY <1>1, <1>3, <1>4
<1> QED
  BY <1>1, <1>2, <1>3, <1>4, <1>5, <1>6, Zenon

\* After the exit the server is quiet.
LEMMA ServerQuiet ==
  ASSUME ServerNext, Quiet
  PROVE  Quiet' /\ ~ServerSends /\ ~StartProcess
<1>1. ~ServerSends /\ ~StartProcess
  BY DEF Quiet, ServerSends, SendReject, SendAccept, CopySend, SendExit, StartProcess
<1>2. \A s \in Streams : ~Copying(s) /\ ~TakeOutput(s)
  BY DEF Quiet, Copying, CopyRead, CopyEOF, CopySend, CopyFails, TakeOutput
<1>3. ServeCloses \/ Inputting \/ InputRefused \/ WatchContext
  BY <1>2 DEF Quiet, ServerNext, Serving, StartRefused, StartProcess, StartNotReceived, SendReject,
     SendAccept, SendAcceptFails, ReapUnserved, TakeInput, TakeExit, TakeCanceled, Drained,
     DrainCut, SendExit, SendExitFails
<1>4. copier' = copier /\ (serve' = serve \/ serve' = "end")
  BY <1>3 DEF ServeCloses, Inputting, InputFrame, InputWritten, InputWriteFails, InputEOF,
     InputEnds, InputCanceled, InputRefused, WatchContext, serverVars
<1> QED
  BY <1>1, <1>4 DEF Quiet

\* What a sending step appends.
LEMMA ServerAppends ==
  ASSUME ConnType, RunnerTypeOK, ServerSends
  PROVE  \/ /\ UNCHANGED <<taken, failure>> /\ (UNCHANGED copier \/ SendAccept)
            /\ \E ok \in BOOLEAN : Box' = Append(Box, StartResult(ok))
         \/ \E s \in Streams : CopySend(s) /\ Box' = Append(Box, OutputFrame(s))
         \/ SendExit /\ Box' = Append(Box, Exit)
<1>0. "server" \in End /\ Peer("server") = "client"
  BY PeerOfServer
<1>1. ASSUME NEW f \in Frames, SendFrame("server", f) PROVE Box' = Append(Box, f)
  BY <1>0, <1>1, InboxSend DEF Box
<1>2. TRUE \in BOOLEAN /\ FALSE \in BOOLEAN
  OBVIOUS
<1> QED
  BY <1>1, <1>2, ServerFrameTypes, Zenon DEF ServerSends, SendReject, SendAccept, CopySend, SendExit

LEMMA ServerOutput ==
  ASSUME ConnType, RunnerTypeOK, ServerTypeOK, ServeInv, OutputInv, ConnKept,
         ClientInv, ServerNext, UNCHANGED clientVars, ServerSends \/ Box' = Box
  PROVE  OutputInv'
<1>0. /\ Expecting' <=> Expecting
      /\ shown' = shown
  BY DEF clientVars, Expecting
<1>1. /\ copier = [s \in Streams |-> copier[s]] /\ taken = [s \in Streams |-> taken[s]]
      /\ \A s \in Streams : taken[s] \in Nat /\ shown[s] \in Nat /\ Carries(Box, s) \in Nat
      /\ failure \in BOOLEAN
  BY CarriesType, RunnerAssumption DEF ServerTypeOK, ClientInv
<1>2. CASE Box' = Box /\ UNCHANGED <<taken, copier>> /\ (failure => failure')
  BY <1>0, <1>2, OutputKept, Zenon
<1>3. ASSUME ~CanSend("server")' \/ failure' PROVE OutputInv'
  BY <1>3, Zenon DEF OutputInv
<1> SUFFICES ASSUME CanSend("server"), CanSend("server")', ~failure', Expecting
             PROVE  OutputInv'
  BY <1>0, Zenon DEF OutputInv, ConnKept
<1>4. failure => failure'
  BY <1>1, FailSets, Zenon DEF ServerNext, Serving, StartRefused, StartProcess, StartNotReceived, SendReject,
     SendAccept, SendAcceptFails, ReapUnserved, TakeInput, TakeExit, TakeCanceled, Drained,
     DrainCut, SendExit, SendExitFails, ServeCloses, TakeOutput, Copying, CopyRead, CopyEOF,
     CopySend, CopyFails, Inputting, InputFrame, InputWritten, InputWriteFails, InputEOF,
     InputEnds, InputCanceled, InputRefused, WatchContext, serverVars
<1>5. \A s \in Streams : taken[s] = shown[s] + Carries(Box, s) + IF copier[s] = "send" THEN 1 ELSE 0
  BY <1>4, Zenon DEF OutputInv, Accounts, Box
<1>6. SUFFICES ASSUME NEW t \in Streams
               PROVE  taken'[t] = shown[t] + Carries(Box', t)
                                    + IF copier'[t] = "send" THEN 1 ELSE 0
  BY <1>0, Zenon DEF OutputInv, Accounts, Box
<1> DEFINE n == Carries(Box, t)
<1>7. n \in Nat /\ taken[t] \in Nat /\ shown[t] \in Nat
      /\ taken[t] = shown[t] + n + IF copier[t] = "send" THEN 1 ELSE 0
  BY <1>1, <1>5
<1>8. \A f \in Frames : Carries(Append(Box, f), t) = n + IF f = OutputFrame(t) THEN 1 ELSE 0
  BY CarriesType
<1> HIDE DEF n
<1>9. CASE ServerSends
  <2>1. CASE /\ UNCHANGED <<taken, failure>> /\ (UNCHANGED copier \/ SendAccept)
             /\ \E ok \in BOOLEAN : Box' = Append(Box, StartResult(ok))
    <3>1. Carries(Box', t) = n
      BY <1>7, <1>8, <2>1, FramesDiffer, ServerFrameTypes
    <3>2. SendAccept => copier[t] = "off" /\ copier'[t] = "read"
      BY DEF SendAccept, ServeInv
    <3> QED
      BY <1>7, <2>1, <3>1, <3>2
  <2>2. ASSUME NEW s \in Streams, CopySend(s), Box' = Append(Box, OutputFrame(s))
        PROVE  taken'[t] = shown[t] + Carries(Box', t) + IF copier'[t] = "send" THEN 1 ELSE 0
    <3>1. Carries(Box', t) = n + IF s = t THEN 1 ELSE 0
      BY <1>8, <2>2, FramesDiffer, ServerFrameTypes, Zenon
    <3>2. /\ taken' = taken /\ copier[s] = "send" /\ copier'[s] = "read"
          /\ t # s => copier'[t] = copier[t]
      BY <1>1, <2>2 DEF CopySend
    <3> QED
      BY <1>7, <3>1, <3>2
  <2>3. CASE SendExit /\ Box' = Append(Box, Exit)
    <3>1. Carries(Box', t) = n
      BY <1>7, <1>8, <2>3, FramesDiffer, ServerFrameTypes
    <3>2. UNCHANGED <<taken, copier>>
      BY <2>3 DEF SendExit
    <3> QED
      BY <1>7, <3>1, <3>2
  <2> QED
    BY <1>9, <2>1, <2>2, <2>3, ServerAppends, Zenon
<1>10. CASE Box' = Box
  <2>0. Carries(Box', t) = n
    BY <1>10 DEF n
  <2>1. CASE UNCHANGED <<taken, copier>>
    BY <1>7, <2>0, <2>1
  <2>2. CASE SendAccept
    <3>1. copier[t] = "off" /\ copier'[t] = "read" /\ taken' = taken
      BY <2>2 DEF SendAccept, ServeInv
    <3> QED
      BY <1>7, <2>0, <3>1
  <2>3. ASSUME NEW s \in Streams, TakeOutput(s) \/ CopyEOF(s) \/ CopyFails(s)
        PROVE  taken'[t] = shown[t] + Carries(Box', t) + IF copier'[t] = "send" THEN 1 ELSE 0
    <3>1. taken' = taken /\ copier'[s] # "send" /\ (t # s => copier'[t] = copier[t])
      BY <1>1, <2>3 DEF TakeOutput, CopyEOF, CopyFails
    <3>2. copier[s] # "send"
      BY <1>4, <2>3 DEF TakeOutput, CopyEOF, CopyFails, ServeInv
    <3> QED
      BY <1>7, <2>0, <3>1, <3>2
  <2>4. ASSUME NEW s \in Streams, CopyRead(s)
        PROVE  taken'[t] = shown[t] + Carries(Box', t) + IF copier'[t] = "send" THEN 1 ELSE 0
    <3>1. /\ copier[s] = "read" /\ copier'[s] = "send" /\ taken'[s] = taken[s] + 1
          /\ t # s => copier'[t] = copier[t] /\ taken'[t] = taken[t]
      BY <1>1, <2>4 DEF CopyRead
    <3> QED
      BY <1>7, <2>0, <3>1
  <2>5. ASSUME NEW s \in Streams, CopySend(s) PROVE FALSE
    <3>1. ServerSends
      BY <2>5, Zenon DEF ServerSends
    <3>2. Box' = Append(Box, OutputFrame(s))
      BY <2>5, InboxSend, PeerOfServer, ServerFrameTypes DEF CopySend, Box
    <3>3. Box \in Seq(Frames)
      BY CarriesType
    <3> QED
      BY <1>10, <3>2, <3>3
  <2> QED
    BY <2>1, <2>2, <2>3, <2>4, <2>5, Zenon DEF ServerNext, Serving, StartRefused, StartProcess,
       StartNotReceived, SendReject, SendAcceptFails, ReapUnserved, TakeInput, TakeExit,
       TakeCanceled, Drained, DrainCut, SendExit, SendExitFails, ServeCloses, Copying,
       Inputting, InputFrame, InputWritten, InputWriteFails, InputEOF, InputEnds,
       InputCanceled, InputRefused, WatchContext, serverVars
<1> QED
  BY <1>9, <1>10
LEMMA ServerExit ==
  ASSUME ConnType, RunnerIInv, ServeInv, CopyInv, OutputInv, ExitInv, ServerTypeOK, ClientInv,
         ServerNext, UNCHANGED clientVars, ServerSends \/ Box' = Box,
         ProcKept \/ StartProcess
  PROVE  ExitInv'
<1>0. /\ Expecting' <=> Expecting
      /\ shown' = shown /\ RunnerTypeOK
  BY DEF clientVars, Expecting, RunnerIInv
<1>1. CASE Quiet
  <2>1. Quiet' /\ Box' = Box /\ ProcKept
    BY <1>1, ServerQuiet, Zenon
  <2> QED
    BY <1>0, <2>1, ExitKept, Zenon
<1>2. CASE ~Quiet
  <2>1. \A i \in DOMAIN Box : ~IsExit(Box[i])
    BY <1>2, Zenon DEF ExitInv, Box
  <2>2. CASE Box' = Box
    BY <2>1, <2>2, Zenon DEF ExitInv, Box
  <2>3. Box \in Seq(Frames)
    BY CarriesType
  <2>4. ASSUME NEW f \in Frames, f.kind # "exit", Box' = Append(Box, f) PROVE ExitInv'
    <3>1. \A i \in DOMAIN Append(Box, f) :
             \/ i \in DOMAIN Box /\ Append(Box, f)[i] = Box[i]
             \/ Append(Box, f)[i] = f
      BY <2>3
    <3>2. \A i \in DOMAIN Append(Box, f) : ~IsExit(Append(Box, f)[i])
      BY <2>1, <2>4, <3>1, Zenon DEF IsExit
    <3> QED
      BY <2>4, <3>2, Zenon DEF ExitInv, Box
  <2>5. CASE SendExit /\ Box' = Append(Box, Exit)
    <3>1. /\ Exit \in Frames /\ Exit.kind = "exit"
          /\ Exit.result = IF failure THEN RuntimeFailure ELSE status
      BY <1>0, ServerFrameTypes
    <3>2. /\ DOMAIN Append(Box, Exit) = 1..Len(Box) + 1 /\ Len(Append(Box, Exit)) = Len(Box) + 1
          /\ Append(Box, Exit)[Len(Box) + 1] = Exit
          /\ \A i \in 1..Len(Box) : i \in DOMAIN Box /\ Append(Box, Exit)[i] = Box[i]
      BY <2>3, <3>1
    <3>3. ASSUME NEW i \in DOMAIN Append(Box, Exit), IsExit(Append(Box, Exit)[i])
          PROVE  i = Len(Append(Box, Exit)) /\ Append(Box, Exit)[i] = Exit /\ IsExit(Exit)
      <4>1. i \in 1..Len(Box) \/ i = Len(Box) + 1
        BY <2>3, <3>2
      <4> QED
        BY <2>1, <3>2, <3>3, <4>1
    <3>4. ASSUME IsExit(Exit)
          PROVE  /\ Quiet'
                 /\ waiter' \in {"stored", "end"} /\ status' = Exit.result /\ pipes' = {}
                 /\ Expecting => Completes(Append(Box, Exit), shown, written)
      <4>1. ~failure /\ Exit.result = status
        BY <3>1, <3>4, RunAssumption DEF IsExit
      <4>2. serve = "exit" /\ CanSend("server")
        BY <2>5 DEF SendExit, SendFrame
      <4>3. \A s \in Streams : copier[s] = "joined"
        BY <4>1, <4>2 DEF ServeInv
      <4>4. pipes = {} /\ \A s \in Streams : taken[s] = written[s]
        BY <4>1, <4>2, <4>3, RunAssumption DEF CopyInv, AtEnd
      <4>5. waiter \in {"stored", "end"}
        BY <4>2 DEF ServeInv, RunnerIInv, ReapedBeforeEnd, CompletedByRun
      <4>6. /\ serve' = "close"
            /\ UNCHANGED <<copier, failure, pipes, waiter, status, written>>
        BY <2>5 DEF SendExit, procVars, osVars
      <4>7. Quiet'
        BY <4>3, <4>6 DEF Quiet
      <4>8. ASSUME Expecting, NEW s \in Streams
             PROVE  shown[s] + Carries(Append(Box, Exit), s) = written[s]
        <5>1. taken[s] = shown[s] + Carries(Box, s) + IF copier[s] = "send" THEN 1 ELSE 0
          BY <4>1, <4>2, <4>8, Zenon DEF OutputInv, Accounts, Box
        <5>2. /\ Carries(Box, s) \in Nat /\ shown[s] \in Nat
              /\ Carries(Append(Box, Exit), s)
                   = Carries(Box, s) + IF Exit = OutputFrame(s) THEN 1 ELSE 0
          BY <3>1, CarriesType DEF ClientInv
        <5>3. Exit # OutputFrame(s)
          BY <3>1, FramesDiffer
        <5> QED
          BY <4>3, <4>4, <5>1, <5>2, <5>3
      <4> QED
        BY <4>1, <4>4, <4>5, <4>6, <4>7, <4>8, Zenon DEF Completes
    <3>5. written' = written
      BY <2>5 DEF SendExit, procVars, osVars
    <3>6. SUFFICES ASSUME NEW i \in DOMAIN Box', IsExit(Box'[i])
                   PROVE  /\ i = Len(Box') /\ Quiet'
                          /\ waiter' \in {"stored", "end"} /\ status' = Box'[i].result
                          /\ pipes' = {}
                          /\ Expecting' => Completes(Box', shown', written')
      BY Zenon DEF ExitInv, Box, Faithful
    <3>7. i \in DOMAIN Append(Box, Exit) /\ IsExit(Append(Box, Exit)[i])
      BY <2>5, <3>6, Zenon
    <3>8. i = Len(Append(Box, Exit)) /\ Append(Box, Exit)[i] = Exit /\ IsExit(Exit)
      BY <3>3, <3>7, Zenon
    <3> QED
      BY <1>0, <2>5, <3>4, <3>5, <3>8, Zenon
  <2>6. CASE ServerSends
    <3>1. \A ok \in BOOLEAN : StartResult(ok) \in Frames /\ StartResult(ok).kind # "exit"
      BY <1>0, ServerFrameTypes, FramesDiffer
    <3>2. \A s \in Streams : OutputFrame(s) \in Frames /\ OutputFrame(s).kind # "exit"
      BY <1>0, ServerFrameTypes, FramesDiffer
    <3> QED
      BY <1>0, <2>4, <2>5, <2>6, <3>1, <3>2, ServerAppends, Zenon
  <2> QED
    BY <2>2, <2>6
<1> QED
  BY <1>1, <1>2
\* What the client's steps do to the account.
LEMMA ClientStill ==
  ASSUME ClientTypeOK, ClientInv, ClientNext(Exits), ~ClientTakes
  PROVE  shown' = shown /\ (Expecting' => Expecting)
<1>1. shown' = shown
  BY Zenon DEF ClientTakes, ClientNext, Forwarding, SendStart, SendStartFails, InputTooLate, ReadInput,
     ReadEOF, SendInput, SendInputFails, SendEOFFails, CancelCommand, Interrupt, Receiving,
     StartRuns, StartTold, ReceiveFails, ExitStored, ExitFinish, FailFinish
<1>2. \/ receiving' = receiving \/ receiving' = "failed" \/ receiving' = "end"
      \/ StartTold /\ receiving' \in ToldStart("failed")
      \/ ExitFinish \/ ExitStored \/ StartRuns
  BY Zenon DEF ClientTakes, ClientNext, Forwarding, SendStart, SendStartFails, InputTooLate, ReadInput,
     ReadEOF, SendInput, SendInputFails, SendEOFFails, CancelCommand, Interrupt, Receiving,
     StartTold, ReceiveFails, FailFinish
<1>3. ClientDoes
  BY ClientKinds
<1>4. clientState = "exited" => clientState' = "exited" \/ StartRuns
  <2>1. ASSUME NEW err, Finished(err) PROVE clientState = "exited" => clientState' = "exited"
    BY <2>1 DEF Finished
  <2>2. ExitStored => clientState' = "exited"
    BY DEF ExitStored
  <2> QED
    BY <1>3, <2>1, <2>2, Zenon DEF ClientDoes
<1>5. CASE StartRuns
  BY <1>1, <1>5 DEF StartRuns, Expecting, ClientInv
<1>6. CASE ExitFinish
  <2>1. clientState = "exited"
    BY <1>6 DEF ExitFinish, ClientInv
  <2> QED
    BY <1>1, <1>4, <1>5, <2>1 DEF Expecting
<1>7. CASE ExitStored
  BY <1>1, <1>7 DEF ExitStored, Expecting
<1>8. CASE receiving' \in ToldStart("failed") \cup {"failed", "end"}
  BY <1>1, <1>8 DEF ToldStart, Expecting
<1>9. CASE receiving' = receiving
  BY <1>1, <1>4, <1>5, <1>9 DEF Expecting
<1> QED
  BY <1>2, <1>5, <1>6, <1>7, <1>8, <1>9, Zenon

\* What taking a frame does: the client no longer expects an exit, or it took
\* what it expected.
LEMMA ClientTook ==
  ASSUME ConnType, ClientTypeOK, ClientTakes
  PROVE  \/ ~Expecting' /\ shown' = shown
         \/ StartAccepted /\ Expecting /\ shown' = shown
            /\ \A s : Head(Box) # OutputFrame(s)
         \/ \E s \in Streams : /\ Expecting /\ Head(Box) = OutputFrame(s)
                               /\ shown' = [shown EXCEPT ![s] = @ + 1]
<1>1. \A f : ReceiveFrame("client", f) => f = Head(Box)
  BY InboxReceive, PeerOfServer DEF Box
<1>2. CASE StartRejected \/ OutOfOrder
  BY <1>2 DEF StartRejected, OutOfOrder, Expecting
<1>3. ASSUME NEW r \in Exits, ExitReceived(r) PROVE ~Expecting' /\ shown' = shown
  BY <1>3 DEF ExitReceived, Expecting
<1>4. CASE StartAccepted
  <2>1. Head(Box) = StartResult(TRUE)
    BY <1>1, <1>4, Zenon DEF StartAccepted, StartResult
  <2>2. \A s : Head(Box) # OutputFrame(s)
    BY <2>1, FramesDiffer, Zenon
  <2> QED
    BY <1>4, <2>2 DEF StartAccepted, Expecting
<1>5. ASSUME NEW s \in Outputs, Output(s)
      PROVE  \/ ~Expecting' /\ shown' = shown
             \/ /\ Expecting /\ Head(Box) = OutputFrame(s)
                /\ shown' = [shown EXCEPT ![s] = @ + 1]
  <2>1. Head(Box) = OutputFrame(s)
    BY <1>1, <1>5, Zenon DEF Output, OutputFrame
  <2> QED
    BY <1>5, <2>1 DEF Output, Expecting
<1> QED
  BY <1>2, <1>3, <1>4, <1>5, RunAssumption, Zenon DEF ClientTakes

\* What is shown and what is under way stay the same together.
LEMMA TookSame ==
  ASSUME ConnType, ClientTypeOK, ClientInv, ClientTakes, Box # <<>>, Expecting',
         NEW s \in Streams
  PROVE  /\ Expecting /\ shown[s] \in Nat /\ shown'[s] \in Nat
         /\ Carries(Box, s) \in Nat /\ Carries(Tail(Box), s) \in Nat
         /\ shown'[s] + Carries(Tail(Box), s) = shown[s] + Carries(Box, s)
<1>1. /\ Carries(Box, s) = Carries(Tail(Box), s) + IF Head(Box) = OutputFrame(s) THEN 1 ELSE 0
      /\ Carries(Box, s) \in Nat /\ Box \in Seq(Frames)
  BY CarriesTail, CarriesType
<1>2. Carries(Tail(Box), s) \in Nat
  <2>1. Tail(Box) \in Seq(Frames) /\ Head(Box) \in Frames
    BY <1>1
  <2> QED
    BY <2>1, CountAppend, Zenon DEF Carries
<1>3. shown \in [Streams -> Nat]
  BY DEF ClientInv
<1>4. CASE Expecting /\ shown' = shown /\ Head(Box) # OutputFrame(s)
  BY <1>1, <1>2, <1>3, <1>4
<1>5. ASSUME NEW t \in Streams, Expecting, Head(Box) = OutputFrame(t),
             shown' = [shown EXCEPT ![t] = @ + 1]
      PROVE  /\ Expecting /\ shown[s] \in Nat /\ shown'[s] \in Nat
             /\ shown'[s] + Carries(Tail(Box), s) = shown[s] + Carries(Box, s)
  <2>1. Head(Box) = OutputFrame(s) <=> s = t
    BY <1>5, FramesDiffer, Zenon
  <2>2. shown'[s] = IF s = t THEN shown[s] + 1 ELSE shown[s]
    BY <1>3, <1>5
  <2> QED
    BY <1>1, <1>2, <1>3, <1>5, <2>1, <2>2
<1> QED
  BY <1>1, <1>2, <1>4, <1>5, ClientTook, Zenon

LEMMA ClientAccount ==
  ASSUME ConnType, ClientTypeOK, ClientInv, ServerTypeOK, OutputInv, ExitInv,
         ConnKept, ProcKept, ClientNext(Exits), UNCHANGED <<procVars, serverVars>>
  PROVE  OutputInv' /\ ExitInv'
<1>0. UNCHANGED <<taken, copier, failure, serve, pipes, status, written, waiter>>
  BY DEF serverVars, procVars, osVars
<1>1. CASE ~ClientTakes
  <2>1. /\ Box' = Box /\ shown' = shown /\ (Expecting' => Expecting)
        /\ UNCHANGED <<taken, shown, copier>>
    BY <1>0, <1>1, ClientBox, ClientStill, Zenon
  <2>2. OutputInv'
    BY <1>0, <2>1, OutputKept, Zenon
  <2>3. Quiet => Quiet'
    BY <1>0 DEF Quiet
  <2> QED
    BY <2>1, <2>2, <2>3, ExitKept, Zenon
<1>2. CASE ClientTakes
  <2>1. Box # <<>> /\ Box' = Tail(Box) /\ Box \in Seq(Frames)
    BY <1>2, ClientBox, CarriesType, Zenon
  <2>2. ASSUME Expecting', NEW s \in Streams
        PROVE  /\ Expecting /\ shown[s] \in Nat /\ shown'[s] \in Nat
               /\ Carries(Box, s) \in Nat /\ Carries(Tail(Box), s) \in Nat
               /\ shown'[s] + Carries(Tail(Box), s) = shown[s] + Carries(Box, s)
    BY <1>2, <2>1, <2>2, TookSame
  <2>3. OutputInv'
    <3>1. SUFFICES ASSUME CanSend("server")', ~failure', Expecting', NEW s \in Streams
                   PROVE  taken[s] = shown'[s] + Carries(Tail(Box), s)
                                       + IF copier[s] = "send" THEN 1 ELSE 0
      BY <1>0, <2>1, Zenon DEF OutputInv, Accounts, Box
    <3>2. Expecting /\ CanSend("server") /\ ~failure
      BY <1>0, <2>2, <3>1 DEF ConnKept
    <3>3. taken[s] = shown[s] + Carries(Box, s) + IF copier[s] = "send" THEN 1 ELSE 0
      BY <3>2, Zenon DEF OutputInv, Accounts, Box
    <3> QED
      BY <2>2, <3>1, <3>3
  <2>4. ExitInv'
    <3>1. SUFFICES ASSUME NEW i \in DOMAIN Tail(Box), IsExit(Tail(Box)[i])
                   PROVE  /\ i = Len(Tail(Box)) /\ Quiet'
                          /\ waiter \in {"stored", "end"} /\ status = Tail(Box)[i].result
                          /\ pipes = {}
                          /\ Expecting' => Completes(Tail(Box), shown', written)
      BY <1>0, <2>1, Zenon DEF ExitInv, Box, Faithful
    <3>2. /\ i + 1 \in DOMAIN Box /\ Tail(Box)[i] = Box[i + 1]
          /\ i + 1 = Len(Box) => i = Len(Tail(Box))
      BY <2>1
    <3>3. /\ i + 1 = Len(Box) /\ Quiet /\ Faithful(Box[i + 1].result)
          /\ Expecting => Completes(Box, shown, written)
      BY <3>1, <3>2, Zenon DEF ExitInv, Box
    <3>4. Quiet'
      BY <1>0, <3>3 DEF Quiet
    <3>5. ASSUME Expecting', NEW s \in Streams
          PROVE  shown'[s] + Carries(Tail(Box), s) = written[s]
      BY <2>2, <3>3, <3>5, Zenon DEF Completes
    <3>6. Expecting' => Completes(Tail(Box), shown', written)
      BY <3>5, Zenon DEF Completes
    <3> QED
      BY <3>2, <3>3, <3>4, <3>6, Zenon DEF Faithful
  <2> QED
    BY <2>3, <2>4
<1> QED
  BY <1>1, <1>2

-----------------------------------------------------------------------------
(* What the client reports.                                                *)

LEMMA FaithfulUnlessClient ==
  ASSUME ExitIsFaithful, StoreInv, ProcKept, UNCHANGED clientVars
  PROVE  ExitIsFaithful' /\ StoreInv'
<1>1. UNCHANGED <<clientState, waitErr, shown, receiving, result>>
  BY DEF clientVars
<1>2. ExitIsFaithful'
  BY <1>1 DEF ExitIsFaithful, Reported, ProcKept
<1>3. StoreInv'
  BY <1>1 DEF StoreInv, Final, Faithful, ProcKept
<1> QED
  BY <1>2, <1>3

LEMMA TailOfOne ==
  ASSUME NEW q \in Seq(Frames), 1 = Len(q)
  PROVE  Tail(q) = <<>>
<1>1. q # <<>>
  BY EmptySeq
<1>2. Len(Tail(q)) = 0 /\ Tail(q) \in Seq(Frames)
  BY <1>1, HeadTailProperties
<1> QED
  BY <1>2, EmptySeq

\* An exit the loop takes out of the inbox is the command's.
LEMMA ExitTaken ==
  ASSUME ConnType, ClientTypeOK, ClientInv, ExitInv, NEW r \in Results, ExitReceived(r)
  PROVE  Faithful(r) /\ \A s \in Streams : shown[s] = written[s]
<1>1. Expecting /\ ReceiveFrame("client", ExitFrame(r))
  BY DEF ExitReceived, Expecting, ExitFrame
<1>2. Box # <<>> /\ Head(Box) = ExitFrame(r) /\ Box \in Seq(Frames)
  BY <1>1, InboxReceive, PeerOfServer, CarriesType DEF Box
<1>3. 1 \in DOMAIN Box /\ Box[1] = ExitFrame(r)
  BY <1>2
<1>4. IsExit(Box[1]) /\ Box[1].result = r /\ Box[1].kind = "exit"
  BY <1>3 DEF IsExit, ExitFrame
<1>5. 1 = Len(Box) /\ Faithful(Box[1].result) /\ Completes(Box, shown, written)
  BY <1>1, <1>3, <1>4, Zenon DEF ExitInv, Box
<1>6. Tail(Box) = <<>>
  BY <1>2, <1>5, TailOfOne, Zenon
<1>7. ASSUME NEW s \in Streams PROVE shown[s] = written[s]
  <2>1. Carries(Box, s) = Carries(Tail(Box), s) + IF Head(Box) = OutputFrame(s) THEN 1 ELSE 0
    BY <1>2, CarriesTail
  <2>2. Carries(Tail(Box), s) = 0
    BY <1>6, CountEmpty DEF Carries
  <2>3. Head(Box) # OutputFrame(s)
    <3>1. Head(Box) = Box[1]
      BY <1>2, <1>3, Zenon
    <3>2. \A f : f.kind = "exit" => f # OutputFrame(s)
      BY FramesDiffer, Zenon
    <3> QED
      BY <1>4, <3>1, <3>2, Zenon
  <2>4. shown[s] + Carries(Box, s) = written[s] /\ shown[s] \in Nat
    BY <1>5 DEF Completes, ClientInv
  <2> QED
    BY <2>1, <2>2, <2>3, <2>4
<1> QED
  BY <1>4, <1>5, <1>7

LEMMA ClientFaithful ==
  ASSUME ConnType, ClientTypeOK, ClientInv, ExitInv, ExitIsFaithful, StoreInv,
         waitErr \in Exits \cup {"nil", "error"},
         ClientNext(Exits), UNCHANGED <<procVars, serverVars>>
  PROVE  ExitIsFaithful' /\ StoreInv'
<1>0. UNCHANGED <<pipes, status, written, waiter>>
  BY DEF procVars, osVars
<1>1. /\ ExitOK \in Results /\ "nil" \notin Results /\ "error" \notin Results
      /\ RuntimeFailure \notin Results /\ RuntimeFailure # "nil"
  BY RunAssumption DEF RuntimeFailure
<1>a. StoreInv'
  <2>1. ASSUME NEW r \in Exits, ExitReceived(r) PROVE StoreInv'
    <3>1. result' = r /\ shown' = shown
      BY <2>1 DEF ExitReceived
    <3>2. r \in Results => Faithful(r) /\ \A s \in Streams : shown[s] = written[s]
      BY <2>1, ExitTaken
    <3> QED
      BY <1>0, <3>1, <3>2 DEF StoreInv, Final, Faithful
  <2>2. CASE receiving' # "exit"
    BY <2>2 DEF StoreInv
  <2>3. CASE receiving' = "exit" /\ ~\E r \in Exits : ExitReceived(r)
    <3>1. UNCHANGED <<receiving, result, shown>>
      BY <2>3, Zenon DEF ClientNext, Forwarding, SendStart, SendStartFails, InputTooLate, ReadInput,
         ReadEOF, SendInput, SendInputFails, SendEOFFails, CancelCommand, Interrupt, Receiving,
         StartAccepted, StartRejected, OutOfOrder, ReceiveFails, ExitFinish, FailFinish,
         StartRuns, StartTold, ExitStored, Output, ToldStart
    <3> QED
      BY <1>0, <3>1 DEF StoreInv, Final, Faithful
  <2> QED
    BY <2>1, <2>2, <2>3
<1> SUFFICES ExitIsFaithful'
  BY <1>a
<1>2. ASSUME clientState' = "exited", clientState = "exited", shown' = shown,
             \/ waitErr' = waitErr
             \/ waitErr = "nil" /\ waitErr' = "error"
      PROVE  ExitIsFaithful'
  BY <1>0, <1>1, <1>2 DEF ExitIsFaithful, Reported
<1>3. ASSUME clientState' # "exited" PROVE ExitIsFaithful'
  BY <1>3 DEF ExitIsFaithful
<1>4. CASE ExitStored
  <2>1. /\ result \in Exits /\ shown' = shown /\ Final(result)
        /\ waitErr' = IF result = ExitOK THEN "nil" ELSE result
    BY <1>4 DEF ExitStored, ClientInv, StoreInv
  <2>2. Reported' = result
    BY <1>1, <2>1 DEF Reported, Exits
  <2> QED
    BY <1>0, <2>1, <2>2 DEF ExitIsFaithful, Final, Faithful
<1>5. CASE StartRuns
  BY <1>3, <1>5 DEF StartRuns
<1>6. CASE Finished("error") /\ UNCHANGED shown
  BY <1>2, <1>3, <1>6 DEF Finished
<1>7. CASE Finished(waitErr) /\ UNCHANGED shown
  BY <1>2, <1>3, <1>7 DEF Finished
<1>8. CASE UNCHANGED <<waitErr, clientState, finished>>
  <2>1. CASE clientState = "exited"
    <3>1. shown' = shown
      BY <2>1, Zenon DEF ClientNext, Forwarding, SendStart, SendStartFails, InputTooLate, ReadInput,
         ReadEOF, SendInput, SendInputFails, SendEOFFails, CancelCommand, Interrupt, Receiving,
         StartAccepted, StartRejected, OutOfOrder, ReceiveFails, ExitFinish, FailFinish,
         StartRuns, StartTold, ExitStored, Output, ExitReceived
    <3> QED
      BY <1>2, <1>8, <2>1, <3>1
  <2> QED
    BY <1>3, <1>8, <2>1
<1> QED
  BY <1>4, <1>5, <1>6, <1>7, <1>8, ClientKinds, Zenon DEF ClientDoes
-----------------------------------------------------------------------------
(* The invariant is inductive.                                             *)

LEMMA InitOK == Init => IInv
<1> SUFFICES ASSUME Init PROVE IInv
  OBVIOUS
<1>0. ConnInit /\ RunnerInit /\ ServerInit /\ ClientInit
  BY DEF Init
<1>1. RunnerIInv /\ RunnerTypeOK
  BY <1>0, RunnerInitOK DEF RunnerIInv
<1>2. inbox = [e \in End |-> <<>>] /\ Box = <<>>
  BY <1>0, PeerOfServer DEF ConnInit, Box
<1>3. ConnType
  <2>1. <<>> \in Seq(Frames) /\ Len(<<>>) = 0
    OBVIOUS
  <2>2. inbox \in [End -> Seq(Frames)] /\ \A e \in End : inbox[e] = <<>>
    BY <1>2, <2>1
  <2>3. Window \in Nat
    BY ConnAssumption
  <2>4. \A e \in End : Len(inbox[e]) <= Window
    BY <2>1, <2>2, <2>3
  <2>5. channel \in [End -> ChannelStates] /\ canceled \in BOOLEAN /\ up \in BOOLEAN
    BY <1>0 DEF ConnInit, ChannelStates
  <2> QED
    BY <2>2, <2>4, <2>5 DEF ConnType
<1>4. ServerTypeOK /\ ClientTypeOK
  <2>1. 0 \in 0..MaxOutput /\ 0 \in 0..MaxInput
    BY RunnerAssumption, ClientAssumption
  <2> QED
    BY <1>0, <2>1 DEF ServerInit, ServerTypeOK, ServeStates, CopierStates, InputStates,
       ClientInit, ClientTypeOK
<1>5. TypeOK
  <2>1. \A e \in End : Len(inbox[e]) <= Window /\ channel[e] \in ChannelStates
    BY <1>3 DEF ConnType
  <2>2. canceled \in BOOLEAN /\ up \in BOOLEAN /\ waitErr = "nil" /\ result = "none"
    BY <1>0 DEF ConnInit, ClientInit
  <2> QED
    BY <1>1, <1>4, <2>1, <2>2, Zenon DEF TypeOK
<1>6. ServeInv
  BY <1>0 DEF RunnerInit, ServerInit, ConnInit, ServeInv
<1>7. CopyInv
  BY <1>0 DEF RunnerInit, ServerInit, CopyInv
<1>8. ClientInv
  BY <1>0, RunAssumption DEF ClientInit, ClientInv
<1>9. OutputInv
  <2>1. ASSUME NEW s \in Streams
        PROVE  taken[s] = shown[s] + Carries(Box, s) + IF copier[s] = "send" THEN 1 ELSE 0
    <3>1. Carries(Box, s) = 0
      BY <1>2, CountEmpty, Zenon DEF Carries
    <3>2. taken[s] = 0 /\ shown[s] = 0 /\ copier[s] = "off"
      BY <1>0, RunAssumption DEF ServerInit, ClientInit
    <3> QED
      BY <3>1, <3>2
  <2> QED
    BY <2>1 DEF OutputInv, Accounts, Box
<1>10. ExitInv
  <2>1. DOMAIN Box = {}
    BY <1>2
  <2> QED
    BY <2>1, Zenon DEF ExitInv, Box
<1>11. ExitIsFaithful /\ StoreInv
  BY <1>0 DEF ClientInit, ExitIsFaithful, StoreInv
<1> QED
  BY <1>1, <1>3, <1>5, <1>6, <1>7, <1>8, <1>9, <1>10, <1>11 DEF IInv

\* What is left of the invariant to show of a step once the process, the types
\* of the connection and the two sides are known to be kept.
Account == OutputInv /\ ExitInv /\ ExitIsFaithful /\ StoreInv
Sides ==
    /\ ServerTypeOK /\ ClientTypeOK /\ waitErr \in Exits \cup {"nil", "error"}
    /\ ServeInv /\ CopyInv /\ ClientInv

LEMMA ConnStep ==
  ASSUME IInv, RunnerTypeOK', ConnNext, UNCHANGED <<procVars, serverVars, clientVars>>
  PROVE  ConnType' /\ Sides' /\ Account'
<1>0. /\ UNCHANGED <<serve, copier, input, failure, drainCut, taken, exitSent>>
      /\ UNCHANGED <<clientState, waitErr, finished, receiving, result, forward, sentInput, shown>>
      /\ UNCHANGED <<pipes, status, written, waiter, completed>>
  BY DEF serverVars, clientVars, procVars, osVars
<1>1. ConnAct
  BY DEF ConnAct
<1>2. ConnKept
  BY <1>1, ConnActKeeps DEF IInv
<1>3. OwnerAct
  BY DEF OwnerAct
<1>4. ProcKept
  BY <1>3, OwnerKeeps DEF IInv, RunnerIInv
<1>5. ConnType' /\ (Box' = Box \/ (Box' = <<>> /\ ~up'))
  BY <1>2, InboxEnds, ConnTypeNew DEF IInv
<1>6. ServeInv' /\ CopyInv'
  BY <1>0, <1>2, <1>4, ServeKept, CopyKept DEF IInv, TypeOK
<1>7. ServerTypeOK' /\ ClientTypeOK' /\ ClientInv' /\ waitErr' \in Exits \cup {"nil", "error"}
  BY <1>0 DEF IInv, TypeOK, ServerTypeOK, ClientTypeOK, ClientInv
<1>8. ExitIsFaithful' /\ StoreInv'
  BY <1>4, FaithfulUnlessClient DEF IInv
<1>9. (Quiet <=> Quiet') /\ (Expecting <=> Expecting')
  BY <1>0 DEF Quiet, Expecting
<1>10. CASE Box' = Box
  <2>1. OutputInv' /\ ExitInv'
    BY <1>0, <1>2, <1>4, <1>9, <1>10, OutputKept, ExitKept DEF IInv
  <2> QED
    BY <2>1, <1>5, <1>6, <1>7, <1>8 DEF Sides, Account
<1>11. CASE Box' = <<>> /\ ~up'
  <2>1. OutputInv'
    BY <1>11 DEF OutputInv, CanSend
  <2>2. ExitInv'
    <3>1. DOMAIN Box' = {}
      BY <1>11
    <3> QED
      BY <3>1, Zenon DEF ExitInv, Box
  <2> QED
    BY <2>1, <2>2, <1>5, <1>6, <1>7, <1>8 DEF Sides, Account
<1> QED
  BY <1>5, <1>10, <1>11

LEMMA ProcStep ==
  ASSUME IInv, RunnerTypeOK', RunnerNext, UNCHANGED <<connVars, serverVars, clientVars>>
  PROVE  ConnType' /\ Sides' /\ Account'
<1>0. /\ UNCHANGED <<serve, copier, input, failure, drainCut, taken, exitSent>>
      /\ UNCHANGED <<clientState, waitErr, finished, receiving, result, forward, sentInput, shown>>
      /\ UNCHANGED <<inbox, channel, canceled, up>>
  BY DEF serverVars, clientVars, connVars
<1>1. ConnAct
  BY DEF ConnAct
<1>2. ConnKept
  BY <1>1, ConnActKeeps DEF IInv
<1>4. ProcKept
  BY RunnerKeeps DEF IInv
<1>5. ConnType' /\ Box' = Box
  BY <1>0, <1>2, InboxSame DEF IInv, Box
<1>6. ServeInv' /\ CopyInv'
  BY <1>0, <1>2, <1>4, ServeKept, CopyKept DEF IInv, TypeOK
<1>7. ServerTypeOK' /\ ClientTypeOK' /\ ClientInv' /\ waitErr' \in Exits \cup {"nil", "error"}
  BY <1>0 DEF IInv, TypeOK, ServerTypeOK, ClientTypeOK, ClientInv
<1>8. ExitIsFaithful' /\ StoreInv'
  BY <1>4, FaithfulUnlessClient DEF IInv
<1>9. (Quiet <=> Quiet') /\ (Expecting <=> Expecting')
  BY <1>0 DEF Quiet, Expecting
<1>10. OutputInv' /\ ExitInv'
  BY <1>0, <1>2, <1>4, <1>5, <1>9, OutputKept, ExitKept DEF IInv
<1> QED
  BY <1>5, <1>6, <1>7, <1>8, <1>10 DEF Sides, Account

LEMMA ServerStep ==
  ASSUME IInv, RunnerTypeOK', ServerNext, UNCHANGED clientVars
  PROVE  ConnType' /\ Sides' /\ Account'
<1>0. /\ UNCHANGED <<clientState, waitErr, finished, receiving, result, forward, sentInput, shown>>
      /\ RunnerTypeOK /\ ServerTypeOK
  BY DEF clientVars, IInv, TypeOK
<1>1. ConnAct /\ (OwnerAct \/ StartProcess)
  BY ServerActs DEF IInv
<1>2. ConnKept
  BY <1>1, ConnActKeeps DEF IInv
<1>3. ProcKept \/ StartProcess
  BY <1>0, <1>1, OwnerKeeps
<1>4. ConnType' /\ (ServerSends \/ Box' = Box)
  BY <1>0, <1>2, ServerBox DEF IInv
<1>5. ServeInv' /\ CopyInv'
  BY <1>0, <1>2, <1>3, ServerServes, ServerCopies DEF IInv
<1>6. ServerTypeOK'
  BY <1>0, <1>5, ServerTypes
<1>7. ClientTypeOK' /\ ClientInv' /\ waitErr' \in Exits \cup {"nil", "error"}
  BY <1>0 DEF IInv, TypeOK, ClientTypeOK, ClientInv
<1>8. OutputInv' /\ ExitInv'
  BY <1>0, <1>2, <1>3, <1>4, ServerOutput, ServerExit DEF IInv
<1>9. ExitIsFaithful' /\ StoreInv'
  <2>1. CASE StartProcess
    <3>1. waiter = "off"
      BY <2>1 DEF StartProcess, IInv, ServeInv
    <3>2. ~(clientState = "exited" /\ Reported \in Results)
      BY <3>1 DEF IInv, ExitIsFaithful
    <3>3. receiving = "exit" => result \notin Results
      BY <3>1 DEF IInv, StoreInv, Final, Faithful
    <3>4. ExitIsFaithful'
      BY <1>0, <3>2 DEF ExitIsFaithful, Reported
    <3>5. StoreInv'
      BY <1>0, <3>3 DEF StoreInv, Final
    <3> QED
      BY <3>4, <3>5
  <2>2. CASE ProcKept
    BY <2>2, FaithfulUnlessClient DEF IInv
  <2> QED
    BY <1>3, <2>1, <2>2
<1> QED
  BY <1>4, <1>5, <1>6, <1>7, <1>8, <1>9 DEF Sides, Account

LEMMA ClientStep ==
  ASSUME IInv, RunnerTypeOK', ClientNext(Exits), UNCHANGED <<procVars, serverVars>>
  PROVE  ConnType' /\ Sides' /\ Account'
<1>0. /\ UNCHANGED <<serve, copier, input, failure, drainCut, taken, exitSent>>
      /\ ClientTypeOK /\ ServerTypeOK /\ waitErr \in Exits \cup {"nil", "error"}
  BY DEF serverVars, IInv, TypeOK
<1>1. ConnKept
  BY ClientActs, ConnActKeeps DEF IInv
<1>2. OwnerAct
  BY DEF OwnerAct
<1>3. ProcKept
  BY <1>2, OwnerKeeps DEF IInv, RunnerIInv
<1>4. ConnType'
  BY <1>0, <1>1, ClientBox DEF IInv
<1>5. ServeInv' /\ CopyInv'
  BY <1>0, <1>1, <1>3, ServeKept, CopyKept DEF IInv, RunnerIInv
<1>6. ServerTypeOK'
  BY <1>0 DEF ServerTypeOK
<1>7. ClientTypeOK' /\ ClientInv' /\ waitErr' \in Exits \cup {"nil", "error"}
  BY <1>0, ClientTypes DEF IInv
<1>8. OutputInv' /\ ExitInv'
  BY <1>0, <1>1, <1>3, ClientAccount DEF IInv
<1>9. ExitIsFaithful' /\ StoreInv'
  BY <1>0, ClientFaithful DEF IInv
<1> QED
  BY <1>4, <1>5, <1>6, <1>7, <1>8, <1>9 DEF Sides, Account

LEMMA Step == IInv /\ [Next]_vars => IInv'
<1> SUFFICES ASSUME IInv, [Next]_vars PROVE IInv'
  OBVIOUS
<1>1. RunnerIInv' /\ RunnerTypeOK'
  <2>1. RunnerIInv /\ ServeInv
    BY DEF IInv
  <2> QED
    BY <2>1, StepOfRunner, RunnerStep DEF RunnerIInv
<1>2. ASSUME ConnType', Sides', Account' PROVE IInv'
  <2>1. TypeOK'
    BY <1>1, <1>2 DEF Sides, TypeOK, ConnType, ClientInv
  <2> QED
    BY <1>1, <1>2, <2>1 DEF IInv, Sides, Account
<1>3. CASE ConnNext /\ UNCHANGED <<procVars, serverVars, clientVars>>
  BY <1>1, <1>2, <1>3, ConnStep
<1>4. CASE RunnerNext /\ UNCHANGED <<connVars, serverVars, clientVars>>
  BY <1>1, <1>2, <1>4, ProcStep
<1>5. CASE ServerNext /\ UNCHANGED clientVars
  BY <1>1, <1>2, <1>5, ServerStep
<1>6. CASE ClientNext(Exits) /\ UNCHANGED <<procVars, serverVars>>
  BY <1>1, <1>2, <1>6, ClientStep
<1>7. CASE UNCHANGED vars
  <2>1. UNCHANGED connVars /\ UNCHANGED procVars /\ UNCHANGED serverVars /\ UNCHANGED clientVars
    BY <1>7 DEF vars
  <2>2. ConnAct /\ OwnerAct /\ ConnKept /\ ProcKept
    BY <2>1, ConnActKeeps, OwnerKeeps DEF ConnAct, OwnerAct, IInv, RunnerIInv
  <2>3. /\ UNCHANGED <<serve, copier, input, failure, drainCut, taken, exitSent, inbox>>
        /\ UNCHANGED <<clientState, waitErr, finished, receiving, result, forward, sentInput, shown>>
    BY <2>1 DEF connVars, serverVars, clientVars
  <2>4. (Quiet <=> Quiet') /\ (Expecting <=> Expecting') /\ Box' = Box
    BY <2>3 DEF Quiet, Expecting, Box
  <2>5. ConnType'
    BY <2>2, <2>3, InboxSame DEF IInv
  <2>6. Sides'
    <3>1. ServeInv' /\ CopyInv'
      BY <1>1, <2>1, <2>2, <2>3, ServeKept, CopyKept DEF IInv, TypeOK
    <3>2. ServerTypeOK' /\ ClientTypeOK' /\ ClientInv'
          /\ waitErr' \in Exits \cup {"nil", "error"}
      BY <2>3 DEF IInv, TypeOK, ServerTypeOK, ClientTypeOK, ClientInv
    <3> QED
      BY <3>1, <3>2 DEF Sides
  <2>7. Account'
    BY <2>1, <2>2, <2>3, <2>4, OutputKept, ExitKept, FaithfulUnlessClient DEF IInv, Account
  <2> QED
    BY <1>2, <2>5, <2>6, <2>7
<1> QED
  BY <1>3, <1>4, <1>5, <1>6, <1>7, Zenon DEF Next

\* The invariant of this module holds in every state of a command.
THEOREM CommandInductive == Spec => []IInv
<1> QED
  BY InitOK, Step, PTL DEF Spec

-----------------------------------------------------------------------------
(* What is proved of a command.                                            *)

\* A command uses the process only as RunnerSpec lets an owner use it: whatever
\* the client, the connection and serve() do, the process is started once, and
\* signalled and waited for by terminate() and wait() alone, so that all that
\* is proved of RunnerSpec holds of the process of a command.
THEOREM RunnerImplemented == Spec => RunnerSpec
<1>1. Init => RunnerInit
  BY DEF Init
<1>2. IInv /\ [Next]_vars => [RunnerNext \/ OwnerNext]_procVars
  <2> SUFFICES ASSUME IInv, [Next]_vars PROVE [RunnerNext \/ OwnerNext]_procVars
    OBVIOUS
  <2>1. ServeInv
    BY DEF IInv
  <2> QED
    BY <2>1, StepOfRunner
<1> QED
  BY CommandInductive, <1>1, <1>2, PTL DEF Spec, RunnerSpec

\* DoneMeansGone of the process of a command: serve() sees done closed only
\* when the result is stored and no member of the group is left that could
\* fork, though input, output and cancellation terminate the process too.
THEOREM CommandGone == Spec => []DoneMeansGone
<1> QED
  BY RunnerImplemented, ProcessGone, PTL

\* The variables of the connection, the process, the server and the client keep
\* their types, and no inbox holds more than the window.
THEOREM CommandTypes == Spec => []TypeOK
<1>1. IInv => TypeOK
  BY DEF IInv
<1> QED
  BY CommandInductive, <1>1, PTL

\* ExitIsFaithful: an exit that wait() returns to the client is the one the
\* leader was reaped with, after every process that could write has gone and
\* all of their output has been shown, for any processes, streams and window.
THEOREM ExitFaithful == Spec => []ExitIsFaithful
<1>1. IInv => ExitIsFaithful
  BY DEF IInv
<1> QED
  BY CommandInductive, <1>1, PTL
=============================================================================
