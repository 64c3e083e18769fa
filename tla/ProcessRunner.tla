--------------------------- MODULE ProcessRunner ---------------------------
(***************************************************************************)
(* One command's process (app/server/process): the leader of a process     *)
(* group, the processes it forks, the goroutine that waits for it, and the *)
(* termination of the group by SIGTERM, a grace period and SIGKILL, which  *)
(* Terminate and the end of the leader each may start.                     *)
(*                                                                         *)
(* The operating system is modelled as the code relies on it: a group is   *)
(* gone once its leader was reaped and its other members are dead, SIGTERM *)
(* may be ignored (so it needs no state), SIGKILL reaches every member of  *)
(* the group at that moment, and a process it has reached forks no more. A *)
(* forked process may leave the group (setsid) and keep the pipes open; a  *)
(* process may also close them while it runs.                              *)
(***************************************************************************)
EXTENDS Naturals

CONSTANTS
    Leader,        \* the process Runner.Start starts
    Children,      \* the processes that may be forked
    Streams,       \* the output pipes: stdout, and stderr without a PTY
    Results,       \* what the leader may exit with
    Signaled,      \* the result of a leader that a signal ended
    MaxOutput      \* bound: chunks written to each pipe

Procs == Children \cup {Leader}

ASSUME RunnerAssumption ==
    /\ Leader \notin Children
    /\ Signaled \in Results
    /\ MaxOutput \in Nat

VARIABLES
    procs,         \* each process; "killed" has a SIGKILL pending
    inGroup,       \* members of the process group, dead ones included
    pipes,         \* processes that have the output pipes open
    status,        \* what the leader exited with
    written,       \* chunks written to each pipe
    waiter,        \* where wait() is
    terminate,     \* where each run of terminate() is
    terminating,   \* runningProcess.terminating
    once,          \* terminateOnce has run
    completed,     \* complete() has run: done is closed
    stdinClosed    \* runningProcess.stdinClosed

osVars == <<procs, inGroup, pipes, status, written>>
termVars == <<terminate, terminating, once>>
procVars == <<osVars, waiter, termVars, completed, stdinClosed>>

ProcStates == {"unborn", "alive", "killed", "dead"}

\* terminate() runs at most once for wait() and once for Terminate().
Runs == {"wait", "Terminate"}

RunnerInit ==
    /\ procs = [p \in Procs |-> "unborn"]
    /\ inGroup = {Leader}
    /\ pipes = {}
    /\ status = "none"
    /\ written = [s \in Streams |-> 0]
    /\ waiter = "off"
    /\ terminate = [r \in Runs |-> "off"]
    /\ terminating = FALSE
    /\ once = FALSE
    /\ completed = FALSE
    /\ stdinClosed = FALSE

-----------------------------------------------------------------------------
(* The operating system.                                                   *)

Alive == {p \in Procs : procs[p] \in {"alive", "killed"}}

Write(p, s) ==
    /\ procs[p] = "alive"
    /\ p \in pipes
    /\ written[s] < MaxOutput
    /\ written' = [written EXCEPT ![s] = @ + 1]
    /\ UNCHANGED <<procs, inGroup, pipes, status, waiter, termVars, completed, stdinClosed>>

Fork(p, q) ==
    /\ procs[p] = "alive"
    /\ procs[q] = "unborn"
    /\ procs' = [procs EXCEPT ![q] = "alive"]
    /\ inGroup' = IF p \in inGroup THEN inGroup \cup {q} ELSE inGroup
    /\ pipes' = IF p \in pipes THEN pipes \cup {q} ELSE pipes
    /\ UNCHANGED <<status, written, waiter, termVars, completed, stdinClosed>>

ClosePipes(p) ==
    /\ procs[p] = "alive"
    /\ p \in pipes
    /\ pipes' = pipes \ {p}
    /\ UNCHANGED <<procs, inGroup, status, written, waiter, termVars, completed, stdinClosed>>

LeaveGroup(q) ==
    /\ q # Leader
    /\ procs[q] = "alive"
    /\ q \in inGroup
    /\ inGroup' = inGroup \ {q}
    /\ UNCHANGED <<procs, pipes, status, written, waiter, termVars, completed, stdinClosed>>

\* A process ends by itself or by a signal.
Die(p, r) ==
    /\ p \in Alive
    /\ procs[p] = "killed" => r = Signaled
    /\ procs' = [procs EXCEPT ![p] = "dead"]
    /\ pipes' = pipes \ {p}
    /\ status' = IF p = Leader THEN r ELSE status
    /\ UNCHANGED <<inGroup, written, waiter, termVars, completed, stdinClosed>>

\* kill(-pid, 0) fails with ESRCH.
GroupGone ==
    /\ waiter \notin {"off", "cmd.Wait"}
    /\ \A p \in inGroup : procs[p] = "dead"

-----------------------------------------------------------------------------
(* Runner.Start and the goroutines of runningProcess.                      *)

Start ==
    /\ procs' = [procs EXCEPT ![Leader] = "alive"]
    /\ pipes' = {Leader}
    /\ waiter' = "cmd.Wait"
    /\ UNCHANGED <<inGroup, status, written, termVars, completed, stdinClosed>>

\* Terminate: once, and not after complete().
Terminate ==
    /\ once' = TRUE
    /\ \/ /\ ~once /\ ~completed
          /\ terminating' = TRUE
          /\ terminate' = [terminate EXCEPT !["Terminate"] = "signal"]
       \/ /\ once \/ completed
          /\ UNCHANGED <<terminating, terminate>>

\* cmd.Wait returns: the leader is reaped.
WaitReap ==
    /\ waiter = "cmd.Wait"
    /\ procs[Leader] = "dead"
    /\ waiter' = "reaped"
    /\ UNCHANGED <<osVars, termVars, completed, stdinClosed>>

\* The result is stored and processWaitDone closed.
WaitStore ==
    /\ waiter = "reaped"
    /\ waiter' = "stored"
    /\ UNCHANGED <<osVars, termVars, completed, stdinClosed>>

\* wait() cleans up the group unless Terminate does.
WaitCleanup ==
    /\ waiter = "stored"
    /\ waiter' = "end"
    /\ terminating' = TRUE
    /\ terminate' = IF terminating THEN terminate
                    ELSE [terminate EXCEPT !["wait"] = "signal"]
    /\ UNCHANGED <<osVars, once, completed, stdinClosed>>

\* CloseStdin and SIGTERM.
Signal(r) ==
    /\ terminate[r] = "signal"
    /\ terminate' = [terminate EXCEPT ![r] = "poll"]
    /\ stdinClosed' = TRUE
    /\ UNCHANGED <<osVars, waiter, terminating, once, completed>>

\* The ticker's poll finds the group gone.
PollGone(r) ==
    /\ terminate[r] = "poll"
    /\ GroupGone
    /\ terminate' = [terminate EXCEPT ![r] = "await"]
    /\ UNCHANGED <<osVars, waiter, terminating, once, completed, stdinClosed>>

MutGraceExpires(r) ==
    /\ terminate[r] = "poll"
    /\ terminate' = [terminate EXCEPT ![r] = "await"]
    /\ procs' = [procs EXCEPT ![Leader] = IF @ = "alive" THEN "killed" ELSE @]
    /\ UNCHANGED <<inGroup, pipes, status, written, waiter, terminating, once, completed, stdinClosed>>

\* The grace period ends: SIGKILL.
GraceExpires(r) ==
    /\ terminate[r] = "poll"
    /\ terminate' = [terminate EXCEPT ![r] = "await"]
    /\ procs' = [p \in Procs |-> IF p \in inGroup /\ procs[p] = "alive" THEN "killed"
                                 ELSE procs[p]]
    /\ UNCHANGED <<inGroup, pipes, status, written, waiter, terminating, once, completed, stdinClosed>>

MutComplete(r) ==
    /\ terminate[r] = "await"
    /\ terminate' = [terminate EXCEPT ![r] = "end"]
    /\ completed' = TRUE
    /\ UNCHANGED <<osVars, waiter, terminating, once, stdinClosed>>

\* processWaitDone is closed: complete().
Complete(r) ==
    /\ terminate[r] = "await"
    /\ waiter \in {"stored", "end"}
    /\ terminate' = [terminate EXCEPT ![r] = "end"]
    /\ completed' = TRUE
    /\ UNCHANGED <<osVars, waiter, terminating, once, stdinClosed>>

-----------------------------------------------------------------------------
OSNext ==
    \/ \E p \in Procs, s \in Streams : Write(p, s)
    \/ \E p \in Procs, q \in Children : Fork(p, q)
    \/ \E q \in Children : LeaveGroup(q)
    \/ \E p \in Procs : ClosePipes(p)
    \/ \E p \in Procs, r \in Results : Die(p, r)

RunnerNext ==
    \/ OSNext
    \/ WaitReap
    \/ WaitStore
    \/ WaitCleanup
    \/ \E r \in Runs : Signal(r) \/ PollGone(r) \/ GraceExpires(r) \/ Complete(r)

\* What the owner of the process may do to it, at any moment.
OwnerNext ==
    \/ waiter = "off" /\ Start
    \/ /\ waiter # "off" /\ Terminate
       /\ UNCHANGED <<osVars, waiter, completed, stdinClosed>>
    \/ stdinClosed' = TRUE /\ UNCHANGED <<osVars, waiter, termVars, completed>>

RunnerSpec == RunnerInit /\ [][RunnerNext \/ OwnerNext]_procVars

(***************************************************************************)
(* The runner's goroutines run, the grace timer fires, and SIGKILL kills.  *)
(***************************************************************************)
RunnerFairness ==
    /\ WF_procVars(WaitReap \/ WaitStore \/ WaitCleanup)
    /\ \A r \in Runs : WF_procVars(Signal(r) \/ PollGone(r) \/ GraceExpires(r) \/ Complete(r))
    /\ \A p \in Procs : WF_procVars(procs[p] = "killed" /\ Die(p, Signaled))

-----------------------------------------------------------------------------
(* Properties.                                                             *)

\* Types of the runner's variables.
RunnerTypeOK ==
    /\ procs \in [Procs -> ProcStates]
    /\ inGroup \subseteq Procs
    /\ pipes \subseteq Procs
    /\ status \in Results \cup {"none"}
    /\ written \in [Streams -> 0..MaxOutput]
    /\ waiter \in {"off", "cmd.Wait", "reaped", "stored", "end"}
    /\ terminate \in [Runs -> {"off", "signal", "poll", "await", "end"}]
    /\ terminating \in BOOLEAN
    /\ once \in BOOLEAN
    /\ completed \in BOOLEAN
    /\ stdinClosed \in BOOLEAN

(***************************************************************************)
(* "runningProcess.done closes only after group termination and leader     *)
(* reap": when done is closed the result that Wait returns is stored, and  *)
(* no member of the group lives that SIGKILL has not reached, whichever of *)
(* the two runs of terminate() came first and whatever was forked between  *)
(* their steps.                                                            *)
(***************************************************************************)
DoneMeansGone ==
    completed =>
        /\ waiter \in {"stored", "end"}
        /\ \A p \in inGroup : procs[p] # "alive"

-----------------------------------------------------------------------------
(* The inductive invariant, proved in CommandRun_proofs.                   *)

\* The leader is in its group and was dead before it was reaped.
LeaderReaped ==
    /\ Leader \in inGroup
    /\ waiter = "off" => procs[Leader] = "unborn"
    /\ waiter # "off" => procs[Leader] # "unborn"
    /\ waiter \notin {"off", "cmd.Wait"} => procs[Leader] = "dead"

\* Nothing exists, and nobody terminates anything, before the start.
NothingBeforeStart ==
    waiter = "off" =>
        /\ \A p \in Procs : procs[p] = "unborn"
        /\ \A r \in Runs : terminate[r] = "off"

\* A process is in the group only once it was forked.
MembersForked == \A p \in inGroup \ {Leader} : procs[p] # "unborn"

\* No member that could still fork is left once a run has polled the group
\* away or killed it.
GroupEnded ==
    (\E r \in Runs : terminate[r] \in {"await", "end"}) =>
        \A p \in inGroup : procs[p] # "alive"

\* done is closed by a run that has seen processWaitDone closed.
CompletedByRun ==
    completed <=> \E r \in Runs : terminate[r] = "end"

ReapedBeforeEnd ==
    (\E r \in Runs : terminate[r] = "end") => waiter \in {"stored", "end"}

\* wait() starts a run only as its last step.
WaitRunLast ==
    waiter # "end" => terminate["wait"] = "off"

RunnerIInv ==
    /\ RunnerTypeOK
    /\ LeaderReaped
    /\ NothingBeforeStart
    /\ GroupEnded
    /\ CompletedByRun
    /\ ReapedBeforeEnd
    /\ WaitRunLast
    /\ MembersForked
=============================================================================
