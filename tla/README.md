# TLA+ model of mygosh

mygosh is an SSH-like remote command system in Go: a client and a server daemon
hold one encrypted connection, authenticate over it, and multiplex channels on
it; a channel carries one command with its input, output and exit status. This
directory holds TLA+ modules of the parts whose correctness depends on the
order of concurrent steps, the TLC configurations that check them on small
instances, and TLAPS proofs of the central invariants for every instance. The
sequential policy that decides what a client may run is modelled with them,
because it works on files and accounts that change while it runs.

Paths below are relative to the repository root (`src/` in `PROJECT.json`).

## 1. The system

| component | state | operations | interacts with |
|---|---|---|---|
| Session (`lib/session/session.go`) | write queues, channel table, ids, counters, budgets, terminal cause | Bind, Wait, Close, OpenChannel, SendGlobalRequest; loops: receiver, writer, dispatcher; shutdown, finalize | its own channels, the peer's session through the transport, the application's handler |
| Channel (`lib/session/channel.go`) | state, windows, receive queue, pending requests, event queue | Send, Recv, SendRequest, CloseWrite, Close; worker loop; close timer | its session (writer, receiver, table), the application |
| Establishment (`lib/establish`) | phase, current owner of the connection, timer, terminal error | handshake, authenticate, accept or reject, hand over | transport, auth, session |
| Authentication (`lib/auth`) | transcript, pending server decision | client and server exchange | transport, authorization |
| Transport, framing (`lib/transport`, `lib/wire`) | Noise cipher states, frame buffers | send, receive, close | the connection |
| Daemon (`app/server/daemon.go`) | admission counters, wait group | accept, admit, serve, shut down | establishment, session |
| Command service (`lib/command`, `app/server/command`, `app/commandchannel`) | input, output and exit goroutines of one command | start, pump, drain, send the exit | channel, process runner |
| Process runner (`app/server/process`) | process, completion, termination flags | start, wait, terminate, kill | operating system |
| Command client (`app/client/command`) | input and signal pumps, exit result | run, forward, collect | channel, terminal |
| Authorization (`app/server/authz`) | credentials of a connection | authorize the connection, a channel, a launch | key files, accounts, configuration, command service |
| Trust and key files (`lib/trust`, `lib/strictfiles`, `app/securefiles`) | none | open and check a path, parse and match authorized_keys and known_hosts | authorization, establishment |
| Accounts, tty, configuration, logging | files and process-wide settings | sequential reads and checks | the applications |

### What is hard

* **Locks released half-way.** `Channel.Send`, `CloseWrite`, `Close` and `Recv`
  change the channel under `Channel.mu`, release it, and only then queue an
  envelope under `Session.mu`; `OpenChannel` checks the session and enters the
  table later. Anything may happen in between.
* **Two queues.** The writer prefers the control queue, so a close overtakes
  the data, the EOF and the adjustments the same caller queued before.
* **Cancellation.** A caller whose context ends takes back a queued write,
  unless the writer has just claimed it, and must return its credit once.
* **Timeouts racing answers.** The close timer, an abandoned `OpenChannel` and
  an abandoned request against the peer's late answer.
* **Many ends.** Read errors, write errors, protocol errors, budgets,
  cancellation and `Close` all end in one `shutdown` that resets counters other
  goroutines are about to decrement.
* **Limits.** Windows, packet sizes, frame counts, queue budgets, channel and
  request limits, all of which turn a small miscount into a refused service or
  a killed session.
* **One socket, many closers.** During establishment the main goroutine, a
  watcher and two timers may each close whatever owns the connection at that
  moment, while the owner changes from socket to transport to session.
* **Files that change.** Key files are read one after the other, some of them
  may be missing or unsafe, and their owner may edit them before the launch.
* **Processes.** Terminating and reaping a process group whose members fork and
  leave, and the order of output and exit of a command.

`PROJECT.json` lists these one by one under `hazards`, at the line where each
one bites, with the property that covers it or the reason why none does.

### What makes each component correct

* Flow control: credit is conserved, honest endpoints never accuse each other of
  a protocol error, the window cannot wedge, every `Send` returns.
* Channel life: `Recv` reports EOF only to a reader that has everything, a
  remote EOF is final, a close completes at both ends, a close does not take
  the session along.
* Channel table: slots, peer ids and request places are returned exactly once,
  the limits are kept, no operation finds the table in an impossible state,
  ended channels leave, nobody waits past the end of the session.
* Session life: the first cause decides, the disconnect goes out unless the
  timer cuts it short, every loop and every call ends.
* Requests and budget: what the queues hold is what is accounted, a withdrawn
  request is never written, the ids being served are the ones not yet answered,
  and honest peers end a session only for the reasons stated.
* Establishment: one owner of the connection at every moment, no close of what
  the session already owns; both sides authenticated each other; no frame of one
  protocol is read by the other; both sides finish.
* Daemon: as many slots taken as connections served; shutdown waits or says so.
* Authorization: every process runs what the account, the first matching key
  line and the configuration permit, and nothing else.
* Command: an exit that is reported is the leader's, after all output; done
  means that the group is gone and the leader reaped; nothing outlives the
  session; client and server both return.

## 2. Modules

| module | models | extends |
|---|---|---|
| `ByteSum` | the total of a sequence or a function of sizes | |
| `FlowControl` | one direction of one open channel | `ByteSum` |
| `ChannelPair` | the life of one channel between two endpoints | |
| `ChannelTable` | the table of one session against any peer | `ByteSum` |
| `SessionCore` | one session with one channel: loops, requests, budget, shutdown | `ByteSum` |
| `OwnerBaton` | abstract: who owns and who closes the connection | |
| `Trust` | path checks, authorized_keys, known_hosts (operators) | |
| `Establish` | Connect against BeginAccept and Accept, to the active session | `Trust`, instance of `OwnerBaton` |
| `Authorization` | accounts, permissions, credentials, channel and launch (operators) | `Trust` |
| `Daemon` | accept loop, admission, connection goroutines, shutdown | |
| `Server` | the daemon with its handlers, key files and launched processes | `Daemon`, `Authorization` |
| `ProcessRunner` | one command's process group and the goroutines that end and reap it | |
| `FrameConn` | the channel as a command sees it | |
| `CommandServer` | `command.Serve` for one command | `FrameConn`, `ProcessRunner` |
| `CommandClient` | `command.Run` and the client under it | `FrameConn` |
| `CommandRun` | one command, composed | `CommandServer`, `CommandClient` |
| `MCFlowControl`, `MCChannelPair`, `MCChannelTable`, `MCSession`, `MCEstablish`, `MCServer`, `MCCommandRun` | instances for TLC | the module they are named after |
| `SessionIds` | the inductive invariant on the ids of the peer's requests | `SessionCore` |
| `ByteSum_proofs`, `FlowControl_proofs`, `ChannelPair_proofs`, `ChannelTable_proofs`, `SessionCore_proofs`, `Establish_proofs`, `CommandRun_proofs` (with those of `ProcessRunner`), `Server_proofs` | theorems | the module they are named after, `TLAPS` |

### FlowControl

Variables are the fields of `Channel` at the two ends (`remoteWindow`,
`localWindow`, `pendingWindowBytes`, `frames`), the outbound queue with the
state of each write (queued or canceled), and the wire in both directions. One
caller of `Send` is a goroutine with a program counter: `TakeWindow` is the part
of `Send` under `Channel.mu`, `Enqueue` is `enqueueWrite`, `Cancel` and `Refund`
are the path of a context that ends, and `WriterStep` is the writer's compare
and swap on the write's state. `HandleChannelData` and
`HandleChannelWindowAdjust` are the receiver's handlers with all of their
checks; each check that fails names itself in `failure`, and the session then
ends. The events of the channel share its queue budget with the data, and all
traffic of the session shares the session's; neither is part of this module, so a
frame that fits what is modelled may still be refused (`"shared"` in
`DataOutcomes`). So may the adjustment `Recv` sends (`SendWindowAdjust`), which
ends the session as well. Once it has ended, calls return (`SendFails`). Window
arithmetic is that of `uint32` (`Uint32`, with `MaxUint32` a constant). Frames
are their sizes.

### ChannelPair

Two endpoints, each with the channel's state, its session's two queues and the
writer's `polled` flag (the writer polls control first and otherwise waits on
both queues), one goroutine in `Send`, one in `Recv`, and any number in
`CloseWrite`, `Close` and `Session.Close`. Each call is split where the code
releases `Channel.mu`. The handlers of the receiver are complete for the
envelopes modelled: what they do not accept is `ProtocolError`, which shuts the
session down as the code does. After a protocol error the control queue and the
disconnect still reach the peer; after any other local end the peer sees the
connection close. That a protocol-error shutdown flushes its control writes
is the code's normal outcome; the timeout of `finalize` that cuts it short is
`SessionCore`'s.

A behaviour has one *use* (`env`): what the applications do with the channel and
which disturbances may meet it. `confirmed` is not a switch of the code: it
restricts the *application* to the discipline that end a closes only after it has
read EOF, and end b ends its writing only after it has read EOF. Nothing in the
repository follows it: the command client and server end their channel with
`Close` alone, so they are in the disturbed use of run `channel`, and in that of
`channel_close` when one of them still sends. `ConfirmedCloseLosesNothing` says
what discipline would be enough when nothing disturbs it (`Undisturbed`: no timer
fires early, nobody leaves the session, no write is refused). Histories (`sent`, `promised`, `read`,
`gotEOF`, `closedHere`) serve the properties only.

### ChannelTable

The maps and counters under `Session.mu`, and every goroutine that works on
them: callers of `OpenChannel`, the receiver, the dispatcher, close timers,
channel workers, callers of `SendRequest`, and `shutdown`. The peer is arbitrary:
it may answer, reject, close and reuse ids in any order, and name ids it was
never told. There is one step per lock section: the receiver first looks a
channel up under `Session.mu` (`Lookup`), and what it then does with it under
`Channel.mu` is a step of its own, with anything in between; a refused
`OpenChannel` leaves the table (`OpenSendFails`) before its channel is shut down
(`OpenFailed`). A section taken while another lock is held is part of that
section. `excused` records the two situations in which `NoInternalError` asks
nothing: the peer guessed an id, or the close timer ended a channel before the
receiver had activated it. `Misled` is the state the first of them can reach in
the code: an accepted open that was looked up, left the table, and is then given
the peer's id. `PeerIDsAgree` excepts that id, and only that. Protocol errors end
in `shutdown`, which is possible at any moment, so that they need no action of
their own.

### SessionCore

One activated session with one open channel. Every goroutine has its place:
`writer`, `receiver`, `dispatcher`, `worker`, one call per caller of
`SendGlobalRequest` and `SendRequest`, the caller of `Channel.Close` and its
timer. The four queues (`control`, `outbound`, `dispatchQueue` and the channel's
frames and events) are sequences; `queued` is the budget of the session and
`ch.queued` that of the channel, kept beside them as in the code, so that their
agreement is a property and not a definition. `down` is how far shutdown has
come: `Begin` is its part under `Session.mu`, `ShutdownCancel` cancels and
queues the disconnect, `ShutdownFinish` ends the channels and closes the queues,
`FinalizeClose`, `DisconnectTimeout` and `FinalizeDone` are the goroutine of
`finalize`. A handler of the receiver is one action per envelope kind, with its
rejections and protocol errors. A write is withdrawn (`CallWithdraw`) by the
compare and swap on its state, and `Claim` is the writer's side of it.

The peer runs the same code. It has two queues as well, so its frames may come
in any order they allow: its close, and the EOF of a `CloseWrite` concurrent with
other calls, may be ahead of data, requests and answers. `MayPeerSend` only keeps
it from ending the channel twice, `env.ended` is what it has ended, and
`Overtaken` tells a frame that one of these has passed.

`hist` records what the properties need to know of the past: who gave up, whether
the channel was closed here, whether `Recv` reported the end, whether the peer's
close or EOF overtook another frame. The branches of `enqueueWrite`, `enqueueDispatch` and
the event queues that find a Go channel full are not actions: `QueuesHaveRoom`
shows that they cannot be taken, because the frame budget is no larger than the
capacity of each channel and is held while a frame is in it.

### Establish and OwnerBaton

Both sides of a connection with all of their threads: main, the watcher of the
runtime's context, the callback of the handshake timer and that of the
authentication timer (on the server: the `AfterFunc` of the authentication
context). `Runtime.Fail` takes three steps in whichever thread runs it, as in the
code: cancel (`FailCancel`), take the owner under the lock (`TakeOwner`), close
what was taken (`CloseOwner`). Between any two of them main may set another
owner or release the runtime. The authentication messages are records, what a
side signs is the record it signs, and a signature verifies for exactly the key
and payload it was made with; `HashServerAuth` leaves out the signature, as the
transcript does. The client's trust is computed by `Trust` from a `known_hosts`
file with its path.

A *deployment* fixes what lies outside this code: one Noise session or one with
each side (something in between), the versions, the key files, whether the
client's proof is good, and the faults that may happen. A side may stop
answering for good (`Stop`): its process is gone or its host is cut off.

`OwnerBaton` is the close-owner diagram of FLOW.md 2.1 as a specification:
ownership moves forward through AppSocket, EstablishRaw, EstablishNoise,
SessionBound, SessionActive; a connection is closed once, by the setup before
the hand-over or by the session from its binding on. `Establish` implements it
under `Stage`, which reads the owner off main's place, the runtime's owner and
what a closing thread has taken; run `establish` checks this refinement.

### Trust, Authorization, Daemon, Server

`Trust` and `Authorization` are operators: each is a function of the source, from
its inputs to its result or to `Fail`. A path is a sequence of components with
their owner, kind and permissions; a key file is a path and a sequence of lines;
commands are texts that may be padded with blanks, since `TrimSpace` decides
some of the checks. `requestedEnvironment`, `buildStartRequest`, `encodeStart`
and `decodeStart` take a client's command line to the request the server
decodes. Where one of them may fail or map iteration may choose, it is a set.

`Daemon` has the accept loop with its back-off, `connectionAdmission`, one
goroutine per connection with its deferred calls in their order (slot, socket,
wait group), and the shutdown with its timer. `Server` fills in the handler:
establishment (as its outcomes), the account, the key files one at a time,
reject or accept, the channel, the launch; `EditKeys` lets the owner of the files
change them between any two of these steps. A *world* is a configuration,
accounts, files before and after the edit, clients and requests.

### ProcessRunner

The operating system is part of the model and marked external: processes fork
(into the group of their parent), leave the group, close the output pipes, write
and die; SIGTERM may be ignored, SIGKILL leaves a process `killed` until it
dies. A group is gone once the leader has been reaped and the other members are
dead. `waiter` is where `wait()` is; `terminate` is where each of the two
possible runs of `terminate()` is, the one `wait()` starts and the one
`Terminate` starts. `Signal`, `PollGone`, `GraceExpires` and `Complete` are the
steps of a run; that `terminateOnce`, `terminating` and `completed` are read and
written under different locks is why both runs can exist.

### FrameConn, CommandServer, CommandClient, CommandRun

`FrameConn` condenses the channel to what `lib/command` sees: frames in order,
at most `Window` of them unread, a close that either end may make and that the
other still reads its frames after, the context of the server's channel, and the
end of the session. A frame that meets a closing channel ends the session, as
finding 1 says.

`CommandServer` is `serve` with a program counter, one `copyOutput` per stream,
`receiveInput`, and the context watcher of `Runner.Start`. An action is one case
of a `select`, with all that `fail` does in it. `exitSent` is a history.
`CommandClient` is `start`, `forwardInput`, `receiveLoop` and `finish`; `finish`
runs in whichever of them comes first. The exit takes three steps, as in the
code: the check of the state (`ExitReceived`), state and result under the lock
(`ExitStored`), then `finish` (`ExitFinish`). The answer to the start takes two:
it is checked (`StartAccepted`, `StartRejected`), then applied (`StartRuns`,
`StartTold`), and a `finish` in between is kept. A start result the buffer of
one has no room for leaves the receive loop `stuck` (`ToldStart`). The server's
send timeout for the exit may fire with credit left: the writer may be the one
that stalls (`SendExitFails`).
`CommandRun` composes them; the only state they share is the connection. A
command's frames are their kinds; the client is the repository's own, so the
server's checks against malformed or misplaced client frames never fire and are
left out, and so is the window change, which has no state but the terminal's.

## 3. Runs

| run | question | instance | result |
|---|---|---|---|
| `flow_control` | conservation, no protocol error, no wedge, every Send returns | 2 senders, sizes 1 and 3, window 5, queue of 3 frames, threshold 3, `MaxUint32` 7, 4 calls; fair | holds, 26 thousand states |
| `channel` | EOF is truthful under any use, timeouts, refusals and a leaving side; a confirmed close loses nothing; a close completes without the timer | window 1, 1 frame one way with every disturbance, 2 frames each way with confirmed closes; fair | holds, 0.35 million states |
| `channel_table` | slots, requests, peer ids, no internal error, ended channels, openers, across shutdown | 2 local ids, 2 peer ids, limits 2, 1, 1; fair | holds, 0.76 million states |
| `session` | budget, room in the queues, reasons of an end, disconnect, withdrawn writes, ids served, Wait and calls return | 1 caller of each kind, 2 frames and 3 bytes of budget, 2 frames of the peer, 4 uses; fair | holds, 0.37 million states |
| `establish` | mutual authentication, streams do not mix, the baton, both sides end | 18 deployments: each fault alone, each departure alone; fair | holds, 0.15 million states |
| `server` | admission, every launch authorized, the server stops | 3 sources, 3 arrivals for 2 slots, 1 per source; 84 pairs of files and configuration, 8 command lines and a blank command; fair | holds, 0.12 million states |
| `command_any` | a reported exit is faithful under every failure | 1 process, 1 stream, 1 chunk each way, window 1, breaks, interrupts | holds, 3.2 million states |
| `command_ends` | done means gone, no orphans, the client returns | 1 forked process, no input, breaks, fair | holds, 0.4 million states |
| `flow_small_frames` | a sender that keeps to its window is not cut off (FLOW.md) | as `flow_control` | **violated** |
| `channel_close` | a local close leaves the session alone (FLOW.md) | window 1, 1 frame | **violated** |
| `channel_rollback` | a remote EOF is final (FLOW.md) | 1 refusal | **violated** |
| `command_exit` | a normal exit is reported as such (FLOW.md) | no breaks, no interrupts, 1 chunk of input | **violated** |

Why the bounds are enough. In `flow_control` the sizing is tight (one unit less
of window breaks `SizingAssumption`), so waiting, withholding, overflow checks
and limits are all met with two concurrent senders, and four calls let one
caller go round twice while the other is canceled. The queue takes 3 frames and
the window admits 5 of the smallest, as the defaults do on their scale (256
against 262144). In the channel runs a window
of one makes every second frame wait for credit; the races are between at most
two calls at each end and the receiver, and one frame in flight is enough to be
overtaken. In `channel_table` opens from both sides compete for two slots and one
place each for pending opens and requests, so a refused open, a reused peer id
and an open beside an ending channel all occur. In `session` a budget of two
frames is full with one request and one answer, so refusals, rejections at the
limit and a disconnect that finds no room all occur; requests are two bytes, so
that the byte limit bites before the frame limit as well; two frames of the peer
are enough for a request whose rejection is queued behind its predecessor's
answer. The four uses divide what one run could not hold: global requests,
channel requests, data and events, and the ends of a session. In `establish` one
session frame is enough to be read by the wrong protocol, and one fault per
deployment already races with every step of both sides. In `server` three
arrivals from three sources exceed the total, two from one source the limit per
source; the authorization worlds have one connection, because connections share
no credentials. In the command runs one chunk of output is enough to be lost, one
forked process to outlive the leader, to leave the group or to hold the pipes, and
a window of one makes every send wait for the reader. `command_any` has input and
no fork, `command_ends` a fork and no input: together they are too many states
for one run.

Deadlock is not checked: a channel whose applications have finished, a session
that has been shut down, a command that has ended, an establishment that has
returned and a server that has stopped may rest.

### Fairness

Weak fairness only, and only for goroutines that do not wait for anyone: the
writer and receiver loops (Go schedules every runnable goroutine), a call that
is past its lock, timers, and an opener after the session's context has ended.
`FlowControl` also assumes that the application keeps calling `Recv`, which the
receive loops of the command client and server do. No one is obliged to start
a call, to cancel, or to close, and `CloseCompletes` does not rely on the close
timer, which may fire but need not.
In `session` the loops and the timer of `finalize` run and the application's
handlers return (those of this repository start a goroutine or refuse); a write
may block for ever on a peer that does not read, and only fails for certain once
the connection is closed. The peer owes no answer. In `establish` every thread
runs, armed timers fire once a peer has gone silent, and the policy decides; no
peer has to answer. In `server` the daemon's own steps and deferred calls run,
but a handler may be stuck in an account lookup or a file for ever.
In `command_ends` the goroutines of both sides run, the grace, drain and send
timers fire, and a process that SIGKILL has reached dies. Processes need not end,
read or write, and the connection need not break.

## 4. Findings

Four statements of `FLOW.md` do not hold of the code; each has a run that ends
in a counterexample, and `PROJECT.json` quotes the lines.

1. *A local close ends only the channel.* After `Channel.Close` the state is
   closing; data, an adjustment or an EOF that the peer sent before it saw the
   close is refused as a protocol error, and that shuts the session down.
2. *A remote EOF is final.* `CloseWrite` that is refused by the queue restores
   the state it saw before it released the lock. If the peer's EOF was
   handled in between, the channel is receiving again.
3. *A normal exit is translated locally.* `finish` takes a nil `waitErr` for "no
   result yet", but nil is also exit status 0. Input that arrives between the
   two steps of the exit cancels the command, and `wait` returns that. Input
   whose send is refused, because the server has closed the channel behind an
   exit frame that is still unread, has the same effect for any status.
4. *A sender waits for the window.* The window counts bytes, the receiver's queue
   frames as well: by default 262144 bytes are granted and 256 frames are queued
   (at most 4096), and `Validate` relates neither to the other. A slow reader's
   257th unread one-byte frame ends the session, although its sender had credit.

### Observations

What the models show of the code beside its documentation, without a run of its
own because no statement of the repository is contradicted:

* A peer's close travels in its control queue and overtakes the data, the EOF,
  the requests and the answers it queued before: the late frame names a channel
  that is gone or closing, a protocol error between honest ends. Data queued
  after the EOF of a concurrent `CloseWrite` is one too (`hist.overtaken` in
  `EndHasReason`).
* When the peer calls `CloseWrite` and then `Session.Close`, the shutdown after the
  hang-up discards frames that `Recv` had not returned, and `Recv` reports
  `io.EOF`: a truncated stream reads like a complete one. FLOW.md 722-723 ("It
  returns EOF only after those frames drain") most naturally speaks of a channel
  close; session shutdown is treated apart (706-709, 1251), without a word on the
  frames. `EOFIsTruthful` names this case as its exception.
* `Recv` that reports the peer's close cancels the channel's context. If the
  worker is then waiting for its reply to be written, the reply fails and ends
  the session; if the worker is idle it may leave before it has taken the queued
  events: `OnClose` is not called and their budget is not given back
  (`hist.recvEnded` in `EndHasReason` and `EndedChannelHoldsNothing`).
* With the session's frame budget exhausted, a global request that wants a reply
  cannot even be rejected, and the session ends.
* A phase timer that fires between `RunWithTimeout`'s last look at the context
  and `stopTimer`, and runs on after `Release`, cancels the parent of the session
  that was handed over. The session ends itself then; the baton is kept.
* `Connect` and `BeginAccept` with a dead context return without closing the
  socket they are given. The daemon's deferred close covers the server; the
  client's process ends.
* The server's success frame is written after the authentication deadline was
  stopped: a client that does not read can hold it there. FLOW.md says so, and
  `EstablishmentEnds` names it as its exception.
* `credentialIdentity` is a struct without fields, and Go does not promise that
  pointers to two of them differ, so the comparison of `identityToken` in `AuthorizeLaunch`
  (launch.go:159) decides nothing. The program never mixes credentials, so no
  property depends on it and the model leaves it out.
* The slot of a connection is given back before its socket is closed, and the
  daemon does not wait for the goroutines of commands.
* A non-temporary error of `Accept` returns from the daemon without the wait for
  connections.
* The last line of an authorized_keys file decides whether trailing text is an
  error: the parser skips text only in front of a key (external, `NextKeyExists`),
  so a trailing comment makes the file, and with it the connection, fail closed.

## 5. Theorems

All are proved by TLAPS with no assumption but the named ones of the modules.

`ByteSum_proofs`: how `Total` changes when one element of a sequence or one
value of a function changes. Every conservation argument rests on these.

`FlowControl_proofs`, from `ConfigAssumption` (what `Config.Validate` accepts):
`InductiveInvariant`, `TypeCorrect` and `Conservation`. `WindowConservation`
alone is not inductive: a `WriterStep` needs to know that a live write is the
one write of a `Send` that still holds its credit and has the same size
(`QueueAgrees`), and a `Send` under way must have a legal size (`SizesOK`). With
`SizingAssumption` (a packet and a threshold less one fit the window), which
`Validate` does *not* ask for and the defaults satisfy, `WindowReopens`: no
wedge. `NoAccusation` is `NoProtocolError`: two endpoints that run this code never
accuse each other of overrunning a window, a packet size or a counter, whatever
the sizes of the queues. A queue that is full is another matter (finding 4);
`LargeQueueHoldsWindow` is conditional: a queue with as many frames and bytes as
the window has bytes is never the channel's own reason to end the session. The
defaults do not meet that condition.

`ChannelPair_proofs`, from `PairAssumption`: `PairInductive`, `PairTypes`,
`EOFTruthful` and `ConfirmedClose`, for any window, threshold, number of frames
and use. None of the three properties is inductive; the invariant `IInv` is:

* the frames of a direction are an interval of numbers: those read, those queued
  for `Recv` (`ReadInv`), and, while the reader has dropped none, those on the
  wire in order (`DataInv`); the frame in the outbound queue is that of the
  `Send` under way (`QueueInv`, `SentInv`);
* credit is conserved from above (`WindowInv`): the sender's window, what its
  frames took that were not read, and what the reader has still to give back
  (pending, about to be queued, queued, on the wire) are at most the initial
  window. The types follow from these three;
* an endpoint whose EOF or close is in a queue or on the wire promises nothing
  more (`SealInv`, stable by `SealedStable`: a `CloseWrite` whose write is
  refused puts the state back, but then nothing was queued), and what is behind
  an EOF or a close on the wire was not promised (`LateInv`). So what was
  promised has been delivered when the end arrives, and read when `Recv` reports
  it (`TruthInv`); close envelopes that overtake data in the control queue are
  why `LateInv` speaks of what was promised and not of all frames;
* with confirmed closes and no disturbance (`OrderlyInv`): a stream has one EOF,
  with no data behind it, and an endpoint that has reported the end has no
  adjustment under way (`StreamInv`); b ends its writing only after it has
  reported a's end, a closes only after it has reported b's, so both outbound
  queues are empty when the close is written and the answer is the last envelope
  of b (`CloseInv`). Hence no handler can refuse an envelope (`NoEnds`), and
  both sides have read everything at the close.

`ChannelTable_proofs`, from `LimitsAssumption`: `TableInductive`,
`TableTypeCorrect`, `SlotsAccounted`, `RequestsAccounted`, `PeerIDsConsistent`
and `OpensActivate`, against an arbitrary peer and for any number of ids and any
limits. Needed beside the accounting properties: reserved ids are fresh until
they are used (`FreshIds`), and a channel waiting for its open result has no peer
id yet (`WaitersUnmapped`), without which an accepted open could steal the id of
another channel. `PeerIDsConsistent` excepts the id of an open that was answered
before it was sent (`Misled`). `OpensActivate` is `NoInternalError`: nobody finds
the table in a state the code takes for impossible, unless the peer guessed an id
or a close timer fired before the activation (`excused`). It needs `OrderInv`, which says of a
session that is not ending that an id belongs to one incoming open from the
receiver through the dispatch queue to the dispatcher (`UseOfIds`), that the
queued and the current open are still opening under the peer's id
(`DispatchOrder`), and that the receiver's own channel has not moved
(`ReceiverOrder`). The counter underflow it also excludes follows from the
slots being accounted.

`SessionCore_proofs`, from `CoreAssumption`: `TypeCorrect`, `BudgetExact`,
`RoomInQueues`, `WithdrawnStaysUnsent`, `DisconnectReachesPeer`,
`EndedChannelReleases`, `SessionEndsWithReason` and `IncomingIdsExact`, for any
callers, limits, sizes and number of frames of the peer. `CoreAssumption` also keeps the callers'
names apart from those of the dispatcher and the worker, which the model uses to
say whose write an envelope is. The arguments, each on top of the one before:

* the budget with the types is inductive (`BudgetInv`): every queue operation
  moves one frame, and `ByteSum_proofs` says what that does to the totals.
  `QueuesHaveRoom` is arithmetic on it;
* `CallInv` places every request: queued, being written, waiting or done, in at
  most one place, and canceled in the queue exactly when it was withdrawn. From
  it no withdrawn request is written;
* `DisconnectInv` follows the disconnect from the control queue through the
  writer, and says why a writer can have stopped;
* `EndInv` is the end of the channel: the peer's close is the last event,
  `OnClose` the last call, and who canceled the channel's context;
* `RouteInv` is why an honest peer's frame is never a surprise: unless one of its
  frames was overtaken, nothing follows its EOF or its close but what may
  (`OrderInv`); an answer on the wire or still
  owed belongs to a request that was written, once (`AnswersInv`,
  `PendingInv`), and its caller is still registered unless it gave up. With it
  `EndHasReason` is inductive;
* `IncomingInv` (`SessionIds`), on the types alone, gives every id that is
  remembered one place:
  its request is queued or handled, or its rejection is queued or being written.
  The places are disjoint, the requests still on the wire have other ids and the
  peer's counter is past all of them, and the reply a handler waits for is queued
  or being written once and never taken back (`Account`). `IncomingAccounted`
  alone is not inductive: the id an answer frees could be that of a second
  request. Once for the session's requests and once for the channel's.

`Establish_proofs`, from the assumption on the deployments: `TypeCorrect`,
`Authentication`, `StreamsSeparate` and `BatonRefinement`. The invariant is
`Types /\ OwnerInv /\ TalkInv`. `OwnerInv` says for each step of main what the
runtime's owner is and what a closing thread may have taken, so that at most one
of them can close the connection; `TalkInv` says for each pair of steps of the
two mains which frames are in flight in each direction and what has been
verified. `BatonRefinement` maps each step to a step of `OwnerBaton` or a stutter
under the refinement mapping `Stage`.

`CommandRun_proofs`, first of the process runner alone, from `RunnerAssumption`:
`RunnerInductive` and `ProcessGone`, for any set of processes that may be forked
and an owner that calls `Terminate` and `CloseStdin` at any moment.
`DoneMeansGone` alone is not
inductive: it needs that no member of the group can fork from the moment a run
has polled the group away or killed it (`GroupEnded`), and so that nobody joins a
group but by a fork of a member (`MembersForked`), that the leader was dead
before it was reaped (`LeaderReaped`), and that the run `wait()` starts is new
(`WaitRunLast`). `RunnerSpec` is the runner under any owner.

`CommandRun_proofs`, then of the command, from the assumptions of the parts and
`RunAssumption` (there is an output stream, the client shows the streams the server copies, and an exit
result is neither the runtime failure nor one of the client's own errors, which
are other types in the code): `RunnerImplemented`, `CommandGone`, `CommandTypes`
and `ExitFaithful`, for any processes, streams, window, amount of input and
output, and any break of the connection. `RunnerImplemented` is the refinement:
every step of the composition is a step of the process or one `RunnerSpec` allows
its owner, because `serve()` starts the process once, before anything else, and
terminates it only while it is there (`ServeInv`); so `DoneMeansGone` holds of
the process of every command. `ExitIsFaithful` is not inductive, and the
strengthening is an account of the output. As long as an exit may still be sent
and accepted, each chunk taken from a pipe has been shown, is in the client's
inbox, or is in the hand of its copier (`OutputInv`); a copier that was joined
without a failure has read its pipe to the end, with nobody left to write
(`CopyInv`); and an exit in the inbox is its last frame, the server sends nothing
after it, and the frames before it complete the output (`ExitInv`). The client
takes an exit in three steps, so what it holds between them is part of the
account: an exit taken from the inbox and not yet stored is the command's
(`StoreInv`), and the client's threads and its state agree (`ClientInv`). The one path
on which the account is broken and no failure recorded is a copier that fails
after the context was canceled, and a server whose context has ended cannot send
(`ServeInv`), so no exit goes out. Frames in an inbox are counted as a sum of
zeros and ones (`CountAppend`, `CountTail`), with the lemmas of `ByteSum_proofs`.

`Server_proofs`, from `LimitsAssumption`, `SourcesAssumption` and
`MaxArrivalsAssumption`: `AdmissionCorrect`. For any sources, limits, number of
arrivals and worlds, the admission counters are the connections that hold a slot,
in total and per source, and stay within the limits. With the types of the
daemon's variables the invariant is inductive: `Admit` and `Release` move one
connection into or out of `Holders` and of `HoldersOf` its source (`AdmitOK`,
`ReleaseOK`, with the cardinality theorems for finite sets), every other step
moves none (`Unmoved`), and every step of the server is a step of the daemon or
leaves it alone (`ServerStepIsDaemonStep`).
`LaunchesPermitted`, from `WorldsAssumption`, is `LaunchesAuthorized` for every
world. The assumption gives the types of what is read from files and
configuration, and that every account has as many `authorized_keys` files as the
configuration lists, at least one (`ServerConfig.Validate`, `authz.New`), before
and after an edit. What each operator of `Trust` and `Authorization` returns is
a lemma of its own (`ReadFacts`, `FirstLine`, `MatchFacts`, `GrantFacts`,
`StartFacts`, ...). The first matching line is a least index; it exists by
well-foundedness of the naturals (`MinIn`), which takes no induction over data.
`LaunchInv` is the invariant over the steps: the files a handler has read so far
are versions of the account's files, its credentials are what the first matching
line of those versions grants, and a process, started or about to start, was
permitted by the credentials of its own connection, whatever is edited later.

Only model-checked: liveness (`EverySendReturns`, `CloseCompletes`,
`EndedChannelsLeave`, `OpenersReturn`, `WaitReturns`, `CallsReturn`,
`EstablishmentEnds`, `HalfOpenEnds`, `ServerStops`, `NoOrphans`,
`ClientReturns`), which is beyond this prover. Every invariant and every other
property of a passing run is proved.

## 6. Not modelled

Cryptography: Noise is a session two ends share or do not, signatures and hashes
are ideal. Generated protocol buffers, chunking and framing bytes, private key
decoding, the C calls behind account lookups, terminal modes, reading of
configuration files, logging and the command line: sequential or pure input and
output, with nothing for an interleaving to break. The transport is taken to be
an ordered reliable stream of frames that may end, which is what TCP with
authenticated framing gives.

Abstracted in the modules above: payloads (frames are sizes or numbers), reasons
and messages; the queue budget in `ChannelPair` (a refusal that may happen) and
requests in `ChannelTable` (counted), both of which are `SessionCore`'s; several
channels in `SessionCore`, which are `ChannelTable`'s; system calls that race a
change of the path they check (`openat` without following links makes them one
step here); of a command, window changes, the terminal, the choice between a PTY
and pipes (a set of streams), process numbers and their reuse.

## 7. Plan

What is left, in this order:

1. `ByteStream`, an abstract first-in first-out stream with end of file, and
   `ChannelPair` under confirmed closes shown to implement it.
2. The window change of a command, and the pure `chunkedFrames` against a
   reference definition.
