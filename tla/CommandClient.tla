--------------------------- MODULE CommandClient ---------------------------
(***************************************************************************)
(* The client side of one command (app/client/command): Run with its       *)
(* forwarder of local input, the receive loop, and finish, which the first *)
(* of them to fail or to end calls and which decides what wait returns.    *)
(*                                                                         *)
(* Frames are those of CommandServer, which this module does not extend.   *)
(***************************************************************************)
EXTENDS FrameConn

CONSTANTS
    Outputs,       \* the output streams the client has sinks for
    ExitOK,        \* the exit result that wait reports as no error
    MaxInput,      \* bound: chunks of local input; 0: no input and no end of it
    Interrupts     \* TRUE: Run's context may end, and its sinks may fail

ASSUME ClientAssumption == MaxInput \in Nat /\ Interrupts \in BOOLEAN

VARIABLES
    clientState,   \* client.state
    waitErr,       \* client.waitErr; "nil", "error" or the exit result
    finished,      \* finish has run: done is closed
    receiving,     \* where receiveLoop is
    result,        \* the exit it is about to store
    forward,       \* where start, and then forwardInput, is
    sentInput,     \* chunks of input read so far (bounded by MaxInput)
    shown          \* chunks written to each sink

clientVars == <<clientState, waitErr, finished, receiving, result, forward, sentInput,
                shown>>

ClientInit ==
    /\ clientState = "starting"
    /\ waitErr = "nil"
    /\ finished = FALSE
    /\ receiving = "frames"
    /\ result = "none"
    /\ forward = "start"
    /\ sentInput = 0
    /\ shown = [s \in Outputs |-> 0]

-----------------------------------------------------------------------------
(* finish.                                                                 *)

\* Once: keep the first error, close the channel. A start that waits gets the
\* error, and does no more than call finish again.
Finish(err) ==
    \/ /\ ~finished
       /\ finished' = TRUE
       /\ waitErr' = IF waitErr = "nil" THEN err ELSE waitErr
       /\ clientState' = IF clientState = "exited" THEN "exited" ELSE "closed"
       /\ Close("client")
    \/ /\ finished
       /\ UNCHANGED <<finished, waitErr, clientState, connVars>>

-----------------------------------------------------------------------------
(* start and forwardInput.                                                 *)

\* The start is sent, and start waits for its result.
SendStart ==
    /\ forward = "start"
    /\ SendFrame("client", [kind |-> "start"])
    /\ forward' = "wait"
    /\ UNCHANGED <<clientState, waitErr, finished, receiving, result, sentInput, shown>>

SendStartFails ==
    /\ forward = "start"
    /\ ~CanSend("client")
    /\ forward' = "end"
    /\ Finish("error")
    /\ UNCHANGED <<receiving, result, sentInput, shown>>

\* writeStdin or closeStdin finds the command no longer running and returns
\* an error, which cancels commandCtx.
InputTooLate ==
    /\ forward = "read"
    /\ MaxInput > 0
    /\ clientState \in {"exited", "closed"}
    /\ forward' = "cancel"
    /\ UNCHANGED <<clientState, waitErr, finished, receiving, result, sentInput,
                   shown, connVars>>

\* A chunk of input was read, and the client is running.
ReadInput ==
    /\ forward = "read"
    /\ clientState = "running"
    /\ sentInput < MaxInput
    /\ sentInput' = sentInput + 1
    /\ forward' = "stdin"
    /\ UNCHANGED <<clientState, waitErr, finished, receiving, result, shown, connVars>>

\* End of local input: closeStdin.
ReadEOF ==
    /\ forward = "read"
    /\ clientState = "running"
    /\ MaxInput > 0
    /\ forward' = "eof"
    /\ UNCHANGED <<clientState, waitErr, finished, receiving, result, sentInput,
                   shown, connVars>>

SendInput ==
    /\ forward \in {"stdin", "eof"}
    /\ SendFrame("client", [kind |-> forward])
    /\ forward' = IF forward = "stdin" THEN "read" ELSE "end"
    /\ UNCHANGED <<clientState, waitErr, finished, receiving, result, sentInput, shown>>

\* writeStdin itself calls finish.
SendInputFails ==
    /\ forward = "stdin"
    /\ ~CanSend("client")
    /\ forward' = "end"
    /\ Finish("error")
    /\ UNCHANGED <<receiving, result, sentInput, shown>>

SendEOFFails ==
    /\ forward = "eof"
    /\ ~CanSend("client")
    /\ forward' = "cancel"
    /\ UNCHANGED <<clientState, waitErr, finished, receiving, result, sentInput,
                   shown, connVars>>

\* The end of commandCtx, by way of context.AfterFunc: closeClient.
CancelCommand ==
    /\ forward = "cancel"
    /\ forward' = "end"
    /\ Finish("error")
    /\ UNCHANGED <<receiving, result, sentInput, shown>>

\* The context of Run ends: closeClient.
Interrupt ==
    /\ Interrupts
    /\ ~finished
    /\ Finish("error")
    /\ UNCHANGED <<receiving, result, forward, sentInput, shown>>

-----------------------------------------------------------------------------
(* receiveLoop and handleServerEvent.                                      *)

\* An event is checked against the state first, and takes effect later: finish
\* may come between the two.
StartAccepted ==
    /\ receiving = "frames"
    /\ clientState = "starting"
    /\ ReceiveFrame("client", [kind |-> "start result", ok |-> TRUE])
    /\ receiving' = "accept"
    /\ UNCHANGED <<clientState, waitErr, finished, result, forward, sentInput, shown>>

\* The send to started, which has room for one, blocks for ever if finish was
\* first and start returned without taking the error finish had put there.
ToldStart(next) == {next} \cup IF finished THEN {"stuck"} ELSE {}

\* start returns, with no error if this is the first it hears.
StartRuns ==
    /\ receiving = "accept"
    /\ clientState' = "running"
    /\ receiving' \in ToldStart("frames")
    /\ forward' = IF finished THEN forward ELSE "read"
    /\ UNCHANGED <<waitErr, finished, result, sentInput, shown, connVars>>

StartRejected ==
    /\ receiving = "frames"
    /\ clientState = "starting"
    /\ ReceiveFrame("client", [kind |-> "start result", ok |-> FALSE])
    /\ receiving' = "reject"
    /\ UNCHANGED <<clientState, waitErr, finished, result, forward, sentInput, shown>>

StartTold ==
    /\ receiving = "reject"
    /\ receiving' \in ToldStart("failed")
    /\ UNCHANGED <<clientState, waitErr, finished, result, forward, sentInput, shown, connVars>>

Output(s) ==
    /\ receiving = "frames"
    /\ clientState = "running"
    /\ ReceiveFrame("client", [kind |-> "output", stream |-> s])
    /\ \/ /\ shown' = [shown EXCEPT ![s] = @ + 1]
          /\ UNCHANGED receiving
       \/ /\ Interrupts
          /\ receiving' = "failed"
          /\ UNCHANGED shown
    /\ UNCHANGED <<clientState, waitErr, finished, result, forward, sentInput>>

ExitReceived(r) ==
    /\ receiving = "frames"
    /\ clientState = "running"
    /\ ReceiveFrame("client", [kind |-> "exit", result |-> r])
    /\ receiving' = "exit"
    /\ result' = r
    /\ UNCHANGED <<clientState, waitErr, finished, forward, sentInput, shown>>

\* The locked part of the exit; finish follows.
ExitStored ==
    /\ receiving = "exit"
    /\ clientState' = "exited"
    /\ waitErr' = IF result = ExitOK THEN "nil" ELSE result
    /\ receiving' = "stored"
    /\ result' = "none"
    /\ UNCHANGED <<finished, forward, sentInput, shown, connVars>>

\* A frame that the state does not allow is a protocol error.
OutOfOrder ==
    /\ receiving = "frames"
    /\ Receivable("client")
    /\ clientState # (IF Head(inbox["client"]).kind = "start result" THEN "starting"
                      ELSE "running")
    /\ ReceiveFrame("client", Head(inbox["client"]))
    /\ receiving' = "failed"
    /\ UNCHANGED <<clientState, waitErr, finished, result, forward, sentInput, shown>>

ReceiveFails ==
    /\ receiving = "frames"
    /\ ReceiveEnds("client")
    /\ receiving' = "failed"
    /\ UNCHANGED <<clientState, waitErr, finished, result, forward, sentInput, shown>>

\* finish with the exit's result; the loop goes on and finds the channel closed.
ExitFinish ==
    /\ receiving = "stored"
    /\ receiving' = "frames"
    /\ Finish(waitErr)
    /\ UNCHANGED <<result, forward, sentInput, shown>>

FailFinish ==
    /\ receiving = "failed"
    /\ receiving' = "end"
    /\ Finish("error")
    /\ UNCHANGED <<result, forward, sentInput, shown>>

-----------------------------------------------------------------------------
Forwarding ==
    \/ SendStart \/ SendStartFails \/ InputTooLate
    \/ ReadInput \/ ReadEOF \/ SendInput \/ SendInputFails \/ SendEOFFails \/ CancelCommand

Receiving(exits) ==
    \/ StartAccepted \/ StartRuns \/ StartRejected \/ StartTold \/ OutOfOrder
    \/ ReceiveFails \/ ExitStored \/ ExitFinish \/ FailFinish
    \/ \E s \in Outputs : Output(s)
    \/ \E r \in exits : ExitReceived(r)

ClientNext(exits) == Forwarding \/ Receiving(exits) \/ Interrupt

ClientTypeOK ==
    /\ clientState \in {"starting", "running", "exited", "closed"}
    /\ finished \in BOOLEAN
    /\ receiving \in {"frames", "accept", "reject", "stuck", "exit", "stored", "failed", "end"}
    /\ forward \in {"start", "wait", "read", "stdin", "eof", "cancel", "end"}
    /\ sentInput \in 0..MaxInput
=============================================================================
