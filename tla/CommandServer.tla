--------------------------- MODULE CommandServer ---------------------------
(***************************************************************************)
(* The server side of one command (lib/command Serve, app/server/command): *)
(* the orchestration loop, one copier per output stream, the receiver of   *)
(* the command's input, and the process they serve.                        *)
(***************************************************************************)
EXTENDS FrameConn, ProcessRunner

VARIABLES
    serve,        \* where serve() is
    copier,       \* where copyOutput is, for each stream
    input,        \* where receiveInput is
    failure,      \* protocolFailure is set
    drainCut,     \* outputCtx was canceled and the output closed
    taken,        \* chunks copyOutput has read from each stream
    exitSent      \* history: the result in the exit frame that was sent

serverVars == <<serve, copier, input, failure, drainCut, taken, exitSent>>

ServeStates == {"receive", "reject", "accept", "reap", "loop", "drain", "exit", "close", "end"}
CopierStates == {"off", "read", "send", "done", "failed", "joined"}
InputStates == {"off", "receive", "write", "done", "joined"}

StartFrame == [kind |-> "start"]
StdinFrame == [kind |-> "stdin"]
StdinEOFFrame == [kind |-> "eof"]
StartResult(ok) == [kind |-> "start result", ok |-> ok]
OutputFrame(s) == [kind |-> "output", stream |-> s]
ExitFrame(r) == [kind |-> "exit", result |-> r]

\* ExitResult.RuntimeFailure.
RuntimeFailure == "runtime failure"

ServerInit ==
    /\ serve = "receive"
    /\ copier = [s \in Streams |-> "off"]
    /\ input = "off"
    /\ failure = FALSE
    /\ drainCut = FALSE
    /\ taken = [s \in Streams |-> 0]
    /\ exitSent = "none"

\* What an owner's call of Terminate leaves alone of the process.
restVars == <<osVars, waiter, completed, stdinClosed>>

-----------------------------------------------------------------------------
(* Starting.                                                               *)

\* The start is received, and refused by the authorizer or the runner.
StartRefused ==
    /\ serve = "receive"
    /\ ReceiveFrame("server", StartFrame)
    /\ serve' = "reject"
    /\ UNCHANGED <<copier, input, failure, drainCut, taken, exitSent, procVars>>

StartProcess ==
    /\ serve = "receive"
    /\ ReceiveFrame("server", StartFrame)
    /\ ~canceled
    /\ Start
    /\ serve' = "accept"
    /\ UNCHANGED <<copier, input, failure, drainCut, taken, exitSent>>

StartNotReceived ==
    /\ serve = "receive"
    /\ ReceiveEnds("server")
    /\ serve' = "close"
    /\ UNCHANGED <<copier, input, failure, drainCut, taken, exitSent, procVars>>

SendReject ==
    /\ serve = "reject"
    /\ serve' = "close"
    /\ \/ SendFrame("server", StartResult(FALSE))
       \/ ~CanSend("server") /\ UNCHANGED connVars
    /\ UNCHANGED <<copier, input, failure, drainCut, taken, exitSent, procVars>>

SendAccept ==
    /\ serve = "accept"
    /\ SendFrame("server", StartResult(TRUE))
    /\ serve' = "loop"
    /\ copier' = [s \in Streams |-> "read"]
    /\ input' = "receive"
    /\ UNCHANGED <<failure, drainCut, taken, exitSent, procVars>>

SendAcceptFails ==
    /\ serve = "accept"
    /\ ~CanSend("server")
    /\ serve' = "reap"
    /\ Terminate
    /\ UNCHANGED <<copier, input, failure, drainCut, taken, exitSent, connVars, restVars>>

ReapUnserved ==
    /\ serve = "reap"
    /\ completed
    /\ serve' = "close"
    /\ UNCHANGED <<copier, input, failure, drainCut, taken, exitSent, connVars, procVars>>

-----------------------------------------------------------------------------
(* The orchestration loop and the drain after it.                          *)

\* fail: the first failure is kept and terminates the process.
Fail ==
    /\ failure' = TRUE
    /\ \/ ~failure /\ Terminate
       \/ failure /\ UNCHANGED termVars
    /\ UNCHANGED restVars

NoFail == UNCHANGED <<failure, procVars>>

TakeInput ==
    /\ serve = "loop"
    /\ input = "done"
    /\ input' = "joined"
    /\ \/ ~canceled /\ Fail
       \/ canceled /\ NoFail
    /\ UNCHANGED <<serve, copier, drainCut, taken, exitSent, connVars>>

TakeOutput(s) ==
    /\ serve \in {"loop", "drain"}
    /\ copier[s] \in {"done", "failed"}
    /\ copier' = [copier EXCEPT ![s] = "joined"]
    /\ \/ copier[s] = "failed" /\ ~canceled /\ Fail
       \/ (copier[s] = "done" \/ canceled) /\ NoFail
    /\ UNCHANGED <<serve, input, drainCut, taken, exitSent, connVars>>

\* process.Wait has returned.
TakeExit ==
    /\ serve = "loop"
    /\ completed
    /\ serve' = "drain"
    /\ UNCHANGED <<copier, input, failure, drainCut, taken, exitSent, connVars, procVars>>

TakeCanceled ==
    /\ serve = "loop"
    /\ canceled
    /\ ~failure
    /\ Fail
    /\ UNCHANGED <<serve, copier, input, drainCut, taken, exitSent, connVars>>

Drained ==
    /\ serve = "drain"
    /\ \A s \in Streams : copier[s] = "joined"
    /\ serve' = "exit"
    /\ UNCHANGED <<copier, input, failure, drainCut, taken, exitSent, connVars, procVars>>

MutDrainCut ==
    /\ serve = "drain"
    /\ \E s \in Streams : copier[s] # "joined"
    /\ drainCut' = TRUE
    /\ serve' = "exit"
    /\ NoFail
    /\ UNCHANGED <<copier, input, taken, exitSent, connVars>>

\* The drain timer, or the end of the channel: the copiers are left alone.
DrainCut ==
    /\ serve = "drain"
    /\ \E s \in Streams : copier[s] # "joined"
    /\ drainCut' = TRUE
    /\ serve' = "exit"
    /\ Fail
    /\ UNCHANGED <<copier, input, taken, exitSent, connVars>>

Exit == ExitFrame(IF failure THEN RuntimeFailure ELSE status)

SendExit ==
    /\ serve = "exit"
    /\ SendFrame("server", Exit)
    /\ exitSent' = Exit.result
    /\ serve' = "close"
    /\ UNCHANGED <<copier, input, failure, drainCut, taken, procVars>>

\* The channel is closed, or terminalSendTimeout ends the wait for credit or for
\* the writer, which may stall with the frame in its queue.
SendExitFails ==
    /\ serve = "exit"
    /\ serve' = "close"
    /\ UNCHANGED <<copier, input, failure, drainCut, taken, exitSent, connVars, procVars>>

MutServeCloses ==
    /\ serve = "close"
    /\ serve' = "end"
    /\ UNCHANGED <<copier, input, failure, drainCut, taken, exitSent, connVars, procVars>>

ServeCloses ==
    /\ serve = "close"
    /\ Close("server")
    /\ serve' = "end"
    /\ UNCHANGED <<copier, input, failure, drainCut, taken, exitSent, procVars>>

-----------------------------------------------------------------------------
(* copyOutput.                                                             *)

Unread(s) == taken[s] < written[s]

CopyRead(s) ==
    /\ copier[s] = "read"
    /\ ~drainCut
    /\ Unread(s)
    /\ taken' = [taken EXCEPT ![s] = @ + 1]
    /\ copier' = [copier EXCEPT ![s] = "send"]
    /\ UNCHANGED <<serve, input, failure, drainCut, exitSent, connVars, procVars>>

\* Nobody has the pipe open for writing.
CopyEOF(s) ==
    /\ copier[s] = "read"
    /\ ~drainCut
    /\ ~Unread(s)
    /\ pipes = {}
    /\ copier' = [copier EXCEPT ![s] = "done"]
    /\ UNCHANGED <<serve, input, failure, drainCut, taken, exitSent, connVars, procVars>>

CopySend(s) ==
    /\ copier[s] = "send"
    /\ SendFrame("server", OutputFrame(s))
    /\ copier' = [copier EXCEPT ![s] = "read"]
    /\ UNCHANGED <<serve, input, failure, drainCut, taken, exitSent, procVars>>

\* The pipe was closed by CloseOutput, the channel has ended, or outputCtx has.
CopyFails(s) ==
    /\ \/ copier[s] = "read" /\ drainCut
       \/ copier[s] = "send" /\ (~CanSend("server") \/ drainCut)
    /\ copier' = [copier EXCEPT ![s] = "failed"]
    /\ UNCHANGED <<serve, input, failure, drainCut, taken, exitSent, connVars, procVars>>

-----------------------------------------------------------------------------
(* receiveInput.                                                           *)

InputFrame ==
    /\ input = "receive"
    /\ ReceiveFrame("server", StdinFrame)
    /\ input' = "write"
    /\ UNCHANGED <<serve, copier, failure, drainCut, taken, exitSent, procVars>>

\* The process reads its input, which it need never do.
InputWritten ==
    /\ input = "write"
    /\ ~stdinClosed /\ Alive # {}
    /\ input' = "receive"
    /\ UNCHANGED <<serve, copier, failure, drainCut, taken, exitSent, connVars, procVars>>

InputWriteFails ==
    /\ input = "write"
    /\ stdinClosed \/ Alive = {}
    /\ input' = "done"
    /\ UNCHANGED <<serve, copier, failure, drainCut, taken, exitSent, connVars, procVars>>

\* The process has closed its input, or inputCtx ended before the write.
InputRefused ==
    /\ input = "write"
    /\ input' = "done"
    /\ UNCHANGED <<serve, copier, failure, drainCut, taken, exitSent, connVars, procVars>>

InputEOF ==
    /\ input = "receive"
    /\ ReceiveFrame("server", StdinEOFFrame)
    /\ stdinClosed' = TRUE
    /\ UNCHANGED <<serverVars, osVars, waiter, termVars, completed>>

InputEnds ==
    /\ input = "receive"
    /\ ReceiveEnds("server")
    /\ input' = "done"
    /\ UNCHANGED <<serve, copier, failure, drainCut, taken, exitSent, procVars>>

\* inputCtx ends with the loop.
InputCanceled ==
    /\ input = "receive"
    /\ ~Receivable("server")
    /\ serve \in {"drain", "exit", "close", "end"}
    /\ input' = "done"
    /\ UNCHANGED <<serve, copier, failure, drainCut, taken, exitSent, connVars, procVars>>

\* The context watcher of Runner.Start.
WatchContext ==
    /\ waiter # "off"
    /\ canceled
    /\ ~completed
    /\ ~once
    /\ Terminate
    /\ UNCHANGED <<serverVars, connVars, restVars>>

-----------------------------------------------------------------------------
Serving ==
    \/ StartRefused \/ StartProcess \/ StartNotReceived \/ SendReject \/ SendAccept
    \/ SendAcceptFails \/ ReapUnserved \/ TakeInput \/ TakeExit \/ TakeCanceled
    \/ Drained \/ DrainCut \/ SendExit \/ SendExitFails \/ ServeCloses
    \/ \E s \in Streams : TakeOutput(s)

Copying(s) == CopyRead(s) \/ CopyEOF(s) \/ CopySend(s) \/ CopyFails(s)

Inputting == InputFrame \/ InputWritten \/ InputWriteFails \/ InputEOF \/ InputEnds
             \/ InputCanceled

ServerNext ==
    \/ Serving
    \/ \E s \in Streams : Copying(s)
    \/ Inputting
    \/ InputRefused
    \/ WatchContext

ServerTypeOK ==
    /\ serve \in ServeStates
    /\ copier \in [Streams -> CopierStates]
    /\ input \in InputStates
    /\ failure \in BOOLEAN
    /\ drainCut \in BOOLEAN
    /\ taken \in [Streams -> 0..MaxOutput]
    /\ exitSent \in Results \cup {"none", RuntimeFailure}
=============================================================================
