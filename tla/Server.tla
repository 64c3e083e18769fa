------------------------------- MODULE Server -------------------------------
(***************************************************************************)
(* The server as a whole (app/server/server.go): the daemon's connections, *)
(* each handled by serveConnection - establishment, authorization against  *)
(* files that may change meanwhile, a session with its channel service -   *)
(* and the processes that are launched over them.  Establishment, session  *)
(* and command are reduced to their outcome here: Establish, SessionCore   *)
(* and CommandRun model them.                                              *)
(***************************************************************************)
EXTENDS Daemon, Authorization

CONSTANTS
  Worlds  \* configurations, accounts, files, clients and their requests

(***************************************************************************)
(* A world: the configuration; the passwd entries; the authorized_keys     *)
(* files of each user id, and what an administrator may replace them with; *)
(* the verified clients (user name and key) that connect; the channels and *)
(* commands they ask for; how many connections arrive, and which faults    *)
(* may happen: the server is told to stop, Accept fails, a handler panics, *)
(* an authentication deadline passes, an establishment fails.              *)
(***************************************************************************)
Faults == {"stop", "accept", "panic", "deadline", "establish"}

VARIABLES
  world,
  files,     \* user id -> the authorized_keys files, in the configured order
  handler,   \* per connection: serveConnection
  processes  \* what the runner was asked to start

vars == <<ctx, listener, daemon, admission, conn, world, files, handler,
          processes>>

(***************************************************************************)
(* What a world is made of.  An account has as many authorized_keys files  *)
(* as the configuration lists, at least one, before and after an edit.     *)
(***************************************************************************)
WorldFields ==
  {"cfg", "passwd", "files", "after", "clients", "channels", "requests",
   "hostKey", "arrivals", "faults"}
CommandType == [text: STRING, padded: BOOLEAN]
ConfigType ==
  [allowShell: BOOLEAN, allowExec: BOOLEAN, allowPTY: BOOLEAN,
   forcedCommand: CommandType, environment: SUBSET STRING]
OptionType == [name: STRING, hasValue: BOOLEAN, value: CommandType]
LineType ==
  [kind: {"key", "text"}, algorithm: {"ed25519", "other"}, key: STRING,
   options: Seq(OptionType)]
FileType == [path: Seq(ComponentType(STRING)), lines: Seq(LineType)]

ASSUME WorldsAssumption ==
  \A w \in Worlds:
    /\ DOMAIN w = WorldFields
    /\ w.cfg \in ConfigType
    /\ \A pwd \in w.passwd:
         /\ w.files[pwd.uid] \in Seq(FileType)
         /\ w.after[pwd.uid] \in Seq(FileType)
         /\ Len(w.after[pwd.uid]) = Len(w.files[pwd.uid])
         /\ Len(w.files[pwd.uid]) > 0
    /\ \A r \in w.requests: DOMAIN r = {"kind", "command", "pty", "environment"}
    /\ w.faults \subseteq Faults

NoAccount == [username |-> ""]
NoCredentials == [account |-> NoAccount]

\* RunServer starts with a valid configuration and a readable host key.
RunServer(w) ==
  /\ ServerPermissionsValid(w.cfg)
  /\ loadHostKey(w.hostKey, "server") # Fail

Init ==
  /\ DaemonInit
  /\ world \in {[w EXCEPT !.cfg = LoadServer(@)]:
                  w \in {v \in Worlds: RunServer([v EXCEPT !.cfg = LoadServer(@)])}}
  /\ files = world.files
  /\ handler = [c \in Conns |->
       [pc |-> "establish", ctx |-> "live", client |-> [user |-> "", key |-> ""],
        account |-> NoAccount, read |-> <<>>, credentials |-> NoCredentials,
        channel |-> FALSE, starting |-> {}]]
  /\ processes = {}

At(c, step) == conn[c].pc = "handling" /\ handler[c].pc = step

\* The context of a connection's establishment, a child of the server's.
Alive(c) == ctx = "live" /\ handler[c].ctx = "live"

Goes(c, step) == handler' = [handler EXCEPT ![c].pc = step]

-----------------------------------------------------------------------------
(***************************************************************************)
(* serveConnection.                                                        *)
(***************************************************************************)

\* BeginAccept fails, or returns with a verified client.
BeginAcceptFails(c) ==
  /\ At(c, "establish") /\ ("establish" \in world.faults \/ ~Alive(c))
  /\ Goes(c, "return")
  /\ UNCHANGED <<daemonVars, world, files, processes>>

BeginAccept(c) ==
  /\ At(c, "establish") /\ Alive(c)
  /\ \E client \in world.clients:
       handler' = [handler EXCEPT ![c].pc = "resolve", ![c].client = client]
  /\ UNCHANGED <<daemonVars, world, files, processes>>

\* The authentication deadline runs until the decision is taken.
AuthTimeout(c) ==
  /\ conn[c].pc = "handling"
  /\ handler[c].pc \in {"resolve", "readKeys", "accept"} /\ Alive(c)
  /\ "deadline" \in world.faults
  /\ handler' = [handler EXCEPT ![c].ctx = "ended"]
  /\ UNCHANGED <<daemonVars, world, files, processes>>

ResolveAccount(c) ==
  /\ At(c, "resolve")
  /\ LET found == {a \in Resolve(world.passwd, handler[c].client.user):
                     Alive(c) /\ validateAccount(a)}
     IN  \/ \E account \in found:
              handler' = [handler EXCEPT ![c].pc = "readKeys",
                                         ![c].account = account]
         \/ found = {} /\ Goes(c, "reject")
  /\ UNCHANGED <<daemonVars, world, files, processes>>

\* One round of matchAuthorizedKey's loop.  After the last one the rest of
\* AuthorizeConnection follows without touching anything shared.
ReadKeys(c) ==
  LET h == handler[c]
      mine == files[h.account.uid]
      read == Append(h.read, mine[Len(h.read) + 1])
      granted == AuthorizeConnection(world.cfg, h.account, read, h.client.key)
  IN  /\ At(c, "readKeys")
      /\ \/ ~Alive(c) /\ Goes(c, "reject")
         \/ /\ Alive(c) /\ ~MatchEnds(Len(mine), read, h.account, h.client.key)
            /\ handler' = [handler EXCEPT ![c].read = read]
         \/ /\ Alive(c) /\ MatchEnds(Len(mine), read, h.account, h.client.key)
            /\ IF granted = Fail
               THEN handler' = [handler EXCEPT ![c].pc = "reject", ![c].read = read]
               ELSE \E credentials \in granted:
                      handler' = [handler EXCEPT ![c].pc = "accept",
                                    ![c].read = read,
                                    ![c].credentials = credentials]
      /\ UNCHANGED <<daemonVars, world, files, processes>>

Reject(c) ==
  /\ At(c, "reject")
  /\ Goes(c, "return")
  /\ UNCHANGED <<daemonVars, world, files, processes>>

\* Accept fails once the context has ended, or when its message cannot be
\* written; after it the deadline is no longer in force.
Accept(c) ==
  /\ At(c, "accept")
  /\ \/ Alive(c) /\ Goes(c, "session")
     \/ (~Alive(c) \/ "establish" \in world.faults) /\ Goes(c, "return")
  /\ UNCHANGED <<daemonVars, world, files, processes>>

\* The session ends (disconnect, error, the server's context): Wait returns.
SessionEnds(c) ==
  /\ At(c, "session")
  /\ Goes(c, "return")
  /\ UNCHANGED <<daemonVars, world, files, processes>>

Return(c) ==
  /\ handler[c].pc = "return"
  /\ HandlerReturns(c)
  /\ UNCHANGED <<world, files, handler, processes>>

\* A handler that panics is caught by the daemon.
Panic(c) ==
  /\ handler[c].pc \in {"resolve", "readKeys"} /\ "panic" \in world.faults
  /\ HandlerReturns(c)
  /\ UNCHANGED <<world, files, handler, processes>>

-----------------------------------------------------------------------------
(***************************************************************************)
(* The session's channel service, and the goroutine of a command: it       *)
(* starts its process after the check of the channel's context, and nobody *)
(* waits for it when the session ends.                                     *)
(***************************************************************************)
OpenChannel(c) ==
  /\ At(c, "session") /\ ctx = "live" /\ ~handler[c].channel
  /\ \E request \in world.channels:
       /\ OnChannelOpen(handler[c].credentials, request)
       /\ handler' = [handler EXCEPT ![c].channel = TRUE]
  /\ UNCHANGED <<daemonVars, world, files, processes>>

StartCommand(c) ==
  /\ At(c, "session") /\ ctx = "live" /\ handler[c].channel
  /\ handler[c].starting = {}
  /\ \E request \in world.requests:
       \E spec \in Start(handler[c].credentials, request):
         handler' = [handler EXCEPT ![c].starting =
                       {[conn |-> c, request |-> request, spec |-> spec]}]
  /\ UNCHANGED <<daemonVars, world, files, processes>>

RunnerStart(c) ==
  /\ handler[c].starting \ processes # {}
  /\ processes' = processes \cup handler[c].starting
  /\ UNCHANGED <<daemonVars, world, files, handler>>

\* An administrator replaces the authorized_keys files.
EditKeys ==
  /\ files = world.files /\ files # world.after
  /\ files' = world.after
  /\ UNCHANGED <<daemonVars, world, handler, processes>>

-----------------------------------------------------------------------------
Unserved == <<world, files, handler, processes>>

AdmitConn(c) ==
  /\ c <= world.arrivals
  /\ \E s \in Sources: Admit(c, s)
  /\ UNCHANGED Unserved
RefuseConn(c) ==
  /\ c <= world.arrivals
  /\ \E s \in Sources: Refuse(c, s)
  /\ UNCHANGED Unserved

DaemonStops ==
  /\ \/ AcceptStops("closed")
     \/ CloseListener
     \/ ShutdownComplete
     \/ ShutdownTimeout
     \/ BackoffEnds
  /\ UNCHANGED Unserved

ConnectionEnds(c) ==
  /\ \/ Release(c)
     \/ CloseConn(c)
     \/ ConnectionDone(c)
  /\ UNCHANGED Unserved

AcceptError ==
  /\ "accept" \in world.faults
  /\ \/ AcceptStops("open")
     \/ AcceptTemporary
     \/ AcceptFails
  /\ UNCHANGED Unserved
Interrupt == "stop" \in world.faults /\ Cancel /\ UNCHANGED Unserved

Next ==
  \/ DaemonStops
  \/ AcceptError
  \/ Interrupt
  \/ EditKeys
  \/ \E c \in Conns:
       \/ AdmitConn(c)
       \/ RefuseConn(c)
       \/ BeginAcceptFails(c)
       \/ BeginAccept(c)
       \/ AuthTimeout(c)
       \/ ResolveAccount(c)
       \/ ReadKeys(c)
       \/ Reject(c)
       \/ Accept(c)
       \/ SessionEnds(c)
       \/ Return(c)
       \/ Panic(c)
       \/ OpenChannel(c)
       \/ StartCommand(c)
       \/ RunnerStart(c)
       \/ ConnectionEnds(c)

Spec == Init /\ [][Next]_vars

(***************************************************************************)
(* The daemon's own steps and the deferred calls of a connection run on    *)
(* their own.  Looking up an account and reading its files is left to the  *)
(* system, which may never answer, so a handler may never return; that is  *)
(* what the shutdown timeout is for.                                       *)
(***************************************************************************)
FairSpec ==
  /\ Spec
  /\ WF_vars(AcceptStops("closed") /\ UNCHANGED Unserved)
  /\ WF_vars(CloseListener /\ UNCHANGED Unserved)
  /\ WF_vars(BackoffEnds /\ UNCHANGED Unserved)
  /\ WF_vars((ShutdownComplete \/ ShutdownTimeout) /\ UNCHANGED Unserved)
  /\ \A c \in Conns: WF_vars(ConnectionEnds(c)) /\ WF_vars(Return(c))

-----------------------------------------------------------------------------
(***************************************************************************)
(* Every process was launched as the files, the accounts and the           *)
(* configuration permit, whatever was edited meanwhile.  The client's key  *)
(* is in an authorized_keys file of the account it asked for, that nobody  *)
(* but the account and root could change; no file before it had the key or *)
(* was unusable; the first line with the key decides.  A command forced by *)
(* that line or by the configuration is what runs.  A shell, a command, a  *)
(* PTY only where they are allowed, by line and configuration.  The        *)
(* process has the identity of the account, the trusted variables with     *)
(* their trusted values, and no other variable than the listed ones.       *)
(* (AuthorizeConnection, OnChannelOpen, authorizedStarter.Start)           *)
(***************************************************************************)
Runs(p, command) == p.spec.argv = <<"shell", "-c", command.text>>

HasKey(file, key) ==
  \E n \in DOMAIN file.lines:
    Ed25519(file.lines[n]) /\ file.lines[n].key = key

OwnFile(file, uid) ==
  \A i \in DOMAIN file.path:
    /\ file.path[i].kind # "missing"
    /\ file.path[i].owner \in {"root", uid}
    /\ ~file.path[i].othersWrite
    /\ file.path[i].link => i = 1

LinePermits(line, p) ==
  /\ "command" \in OptionNames(line) => Runs(p, ForcedBy(line))
  /\ p.spec.pty # NoPTY => {"no-pty", "restrict"} \cap OptionNames(line) = {}
  /\ OptionNames(line) \subseteq {"command", "no-pty", "restrict"}

KeyPermits(p, pwd) ==
  \E i \in DOMAIN handler[p.conn].read:
    LET file == handler[p.conn].read[i]
        key == handler[p.conn].client.key
    IN  /\ OwnFile(file, pwd.uid)
        /\ \A j \in 1..(i - 1):
             LET earlier == handler[p.conn].read[j]
             IN  \/ \E k \in DOMAIN earlier.path: earlier.path[k].kind = "missing"
                 \/ OwnFile(earlier, pwd.uid) /\ ~HasKey(earlier, key)
        /\ \E n \in DOMAIN file.lines:
             /\ Ed25519(file.lines[n]) /\ file.lines[n].key = key
             /\ \A m \in 1..(n - 1):
                  ~(Ed25519(file.lines[m]) /\ file.lines[m].key = key)
             /\ LinePermits(file.lines[n], p)

ConfigPermits(p, cfg) ==
  /\ cfg.forcedCommand # NoCommand => Runs(p, cfg.forcedCommand)
  /\ p.spec.argv = <<"-shell">> \/ Len(p.spec.argv) = 3
  /\ p.request.kind = "shell" => cfg.allowShell
  /\ p.request.kind = "exec" => cfg.allowExec
  /\ p.spec.pty # NoPTY => cfg.allowPTY /\ p.spec.pty = p.request.pty

AccountOf(p, pwd) ==
  /\ p.spec.uid = pwd.uid /\ p.spec.gid = pwd.gid
  /\ \A g \in p.spec.groups: \E i \in DOMAIN pwd.groups: g = pwd.groups[i]
  /\ \A i \in DOMAIN pwd.groups: pwd.groups[i] \in p.spec.groups \cup {pwd.gid}
  /\ p.spec.executable = pwd.shell /\ p.spec.directory = pwd.home

EnvironmentPermitted(p, pwd, cfg) ==
  \A n \in DOMAIN Environment(p.spec):
    CASE n = "HOME" -> Environment(p.spec)[n] = pwd.home.text
      [] n = "SHELL" -> Environment(p.spec)[n] = pwd.shell.text
      [] n \in {"USER", "LOGNAME"} -> Environment(p.spec)[n] = pwd.name
      [] n = "PATH" -> Environment(p.spec)[n] = "trustedPath"
      [] OTHER -> n \in cfg.environment

LaunchesAuthorized ==
  \A p \in processes:
    \E pwd \in world.passwd:
      /\ pwd.name = handler[p.conn].client.user
      /\ KeyPermits(p, pwd)
      /\ ConfigPermits(p, world.cfg)
      /\ AccountOf(p, pwd)
      /\ EnvironmentPermitted(p, pwd, world.cfg)

(***************************************************************************)
(* A server that is told to stop returns, even when handlers are stuck;    *)
(* and when it returns without an error, every connection it had admitted  *)
(* is closed and has given its slot back.                                  *)
(* (runDaemon: the AfterFunc on the listener, the wait and its timer)      *)
(***************************************************************************)
ServerStops ==
  ctx = "cancelled" ~>
    /\ daemon.pc = "returned"
    /\ daemon.err = "none" =>
         /\ admission.total = 0
         /\ \A c \in Conns: conn[c].sock = "closed"
=============================================================================
