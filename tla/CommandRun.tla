----------------------------- MODULE CommandRun -----------------------------
(***************************************************************************)
(* One command from its start frame to its exit: CommandClient and         *)
(* CommandServer over one FrameConn, and the process of ProcessRunner.     *)
(***************************************************************************)
EXTENDS CommandServer, CommandClient

ASSUME RunAssumption ==
    /\ Outputs = Streams /\ Streams # {}
    /\ ExitOK \in Results
    /\ Results \cap {RuntimeFailure, "none", "nil", "error"} = {}

vars == <<connVars, procVars, serverVars, clientVars>>

Init == ConnInit /\ RunnerInit /\ ServerInit /\ ClientInit

Exits == Results \cup {RuntimeFailure}

Next ==
    \/ ConnNext /\ UNCHANGED <<procVars, serverVars, clientVars>>
    \/ RunnerNext /\ UNCHANGED <<connVars, serverVars, clientVars>>
    \/ ServerNext /\ UNCHANGED clientVars
    \/ ClientNext(Exits) /\ UNCHANGED <<procVars, serverVars>>

Spec == Init /\ [][Next]_vars

(***************************************************************************)
(* Fairness: goroutines run and timers fire. The process need not end, nor *)
(* read or close its input; the local input need not come; the connection  *)
(* need not break.                                                         *)
(***************************************************************************)
Fairness ==
    /\ ConnFairness
    /\ RunnerFairness
    /\ WF_vars(Serving /\ UNCHANGED clientVars)
    /\ \A s \in Streams : WF_vars(Copying(s) /\ UNCHANGED clientVars)
    /\ WF_vars((Inputting /\ input' # "receive") /\ UNCHANGED clientVars)
    /\ WF_vars(WatchContext /\ UNCHANGED clientVars)
    /\ WF_vars(Receiving(Exits) /\ UNCHANGED <<procVars, serverVars>>)
    /\ WF_vars((SendStart \/ SendStartFails) /\ UNCHANGED <<procVars, serverVars>>)
    /\ WF_vars((SendInputFails \/ CancelCommand) /\ UNCHANGED <<procVars, serverVars>>)

FairSpec == Spec /\ Fairness

-----------------------------------------------------------------------------
(* Properties.                                                             *)

\* Types of the variables of all parts.
TypeOK ==
    /\ RunnerTypeOK
    /\ ServerTypeOK
    /\ ClientTypeOK
    /\ \A e \in End : Len(inbox[e]) <= Window /\ channel[e] \in ChannelStates
    /\ canceled \in BOOLEAN
    /\ up \in BOOLEAN
    /\ waitErr \in Exits \cup {"nil", "error"}
    /\ result \in Exits \cup {"none"}

\* What the caller of wait learns.
Reported == IF waitErr = "nil" THEN ExitOK ELSE waitErr

(***************************************************************************)
(* When the client reports the exit of the command, the leader was reaped  *)
(* with that result, no process is left that could still write, and all    *)
(* output of all of them has been written to the client's sinks: no output *)
(* is lost without the client being told of a failure, whatever timeouts,  *)
(* cancellations, forked processes and breaks of the connection there are. *)
(***************************************************************************)
ExitIsFaithful ==
    clientState = "exited" /\ Reported \in Results =>
        /\ waiter \in {"stored", "end"}
        /\ status = Reported
        /\ pipes = {}
        /\ \A s \in Streams : shown[s] = written[s]

(***************************************************************************)
(* Once the session has ended, no process of the group stays behind and    *)
(* command.Serve returns, though the process may ignore SIGTERM and its    *)
(* input, and a process that left the group may keep the pipes open.       *)
(***************************************************************************)
NoOrphans ==
    ~up ~> /\ serve = "end"
           /\ \A p \in inGroup : procs[p] \in {"unborn", "dead"}
           /\ waiter \in {"off", "stored", "end"}

(***************************************************************************)
(* When the server is done with a command the client returns, whether or   *)
(* not the exit reached it.                                                *)
(***************************************************************************)
ClientReturns == serve = "end" ~> finished

(***************************************************************************)
(* "Normal remote command exit ... remote status/signal translated         *)
(* locally": of a command that exited by itself, whose exit frame was sent *)
(* and whose session is up, the client reports that exit.                  *)
(***************************************************************************)
ExitReported ==
    up /\ finished /\ exitSent \in Results => Reported = exitSent
=============================================================================
