--------------------------- MODULE Authorization ---------------------------
(***************************************************************************)
(* The server's policy (app/server/authz, services, command): which        *)
(* verified client gets a connection, which channel it may open and which  *)
(* process it may launch; and what a client asks for.  Every operator is a *)
(* function of its arguments; one that may fail is a set of results (see   *)
(* Trust), empty on an error.  The context checks at the head of the       *)
(* functions are guards of the actions that call them (Server).            *)
(***************************************************************************)
EXTENDS Trust

-----------------------------------------------------------------------------
(***************************************************************************)
(* Accounts.  A passwd entry has a list of groups that may repeat itself   *)
(* and the primary group.                                                  *)
(***************************************************************************)
Abs(path) == path.abs

lookupSupplementaryGroups(groups, primary) ==
  {groups[i]: i \in DOMAIN groups} \ {primary}

Resolve(passwd, username) ==
  {[username |-> pwd.name, uid |-> pwd.uid, gid |-> pwd.gid,
    groups |-> lookupSupplementaryGroups(pwd.groups, pwd.gid),
    home |-> pwd.home, shell |-> pwd.shell]:
     pwd \in {p \in passwd: p.name = username}}

validateAccount(account) == account.home.text # ""

-----------------------------------------------------------------------------
(***************************************************************************)
(* Permissions: the server's configuration narrowed by the matched key.    *)
(***************************************************************************)
ServerPermissionsValid(cfg) ==
  /\ cfg.allowPTY => cfg.allowShell \/ cfg.allowExec
  /\ cfg.forcedCommand # NoCommand => cfg.allowShell \/ cfg.allowExec

\* The configuration is loaded with its forced command trimmed.
LoadServer(cfg) == [cfg EXCEPT !.forcedCommand = TrimSpace(@)]

PermissionDecision(cfg) ==
  [allowCommand |-> cfg.allowShell \/ cfg.allowExec,
   allowShell |-> cfg.allowShell, allowExec |-> cfg.allowExec,
   allowPTY |-> cfg.allowPTY, forcedCommand |-> cfg.forcedCommand,
   environment |-> cfg.environment]

ConstraintsValid(constraints) == constraints.restricted => constraints.noPTY

\* Mutant: the configured command wins over the one of the key.
MutApplyMatchedKeyConstraints(decision, constraints) ==
  {[decision EXCEPT
      !.allowPTY = @ /\ ~constraints.noPTY,
      !.forcedCommand = IF @ = NoCommand THEN constraints.forcedCommand ELSE @]}

applyMatchedKeyConstraints(decision, constraints) ==
  IF \/ ~ConstraintsValid(constraints)
     \/ /\ constraints.forcedCommand # NoCommand
        /\ decision.forcedCommand \notin {NoCommand, constraints.forcedCommand}
  THEN Fail
  ELSE {[decision EXCEPT
           !.allowPTY = @ /\ ~constraints.noPTY,
           !.forcedCommand = IF constraints.forcedCommand = NoCommand
                             THEN @ ELSE constraints.forcedCommand]}

newConnectionPermissions(decision) ==
  LET d == [decision EXCEPT !.forcedCommand = TrimSpace(@)]
      launches == d.allowShell \/ d.allowExec
  IN  IF /\ launches \/ d.allowPTY \/ d.forcedCommand # NoCommand
              => d.allowCommand
         /\ d.forcedCommand # NoCommand \/ d.allowPTY => launches
      THEN {d} ELSE Fail

-----------------------------------------------------------------------------
(***************************************************************************)
(* AuthorizeConnection.  Its steps come one after the other: the files are *)
(* read one at a time, and each may have changed since the last.  "read"   *)
(* is the files read so far, as they were when they were read.             *)
(***************************************************************************)

\* The outcome of one file: passed over, an error to remember, the entry of
\* the key, or other keys only.
KeysRead(file, account, key) ==
  LET outcome == Read(file.path, AuthorizedKeysPolicy(account.uid))
      parsed == ParseAuthorizedKeys(file.lines)
  IN  CASE outcome = "missing" -> "skip"
        [] outcome = "refused" \/ (outcome = "open" /\ parsed = Fail) -> "error"
        [] OTHER -> IF \E entries \in parsed: MatchKey(entries, key) # Fail
                    THEN "match" ELSE "other"

\* The loop ends with the first file that has the key, or with the last.
MatchEnds(count, read, account, key) ==
  \/ Len(read) = count
  \/ read # <<>> /\ KeysRead(read[Len(read)], account, key) = "match"

\* An error in an earlier file is remembered, and withholds the match.
matchAuthorizedKey(read, account, key) ==
  IF \/ \E i \in DOMAIN read: KeysRead(read[i], account, key) = "error"
     \/ read = <<>>
     \/ KeysRead(read[Len(read)], account, key) # "match"
  THEN Fail
  ELSE UNION {parseAuthorizedKeyConstraints(entry):
         entry \in UNION {MatchKey(entries, key):
           entries \in ParseAuthorizedKeys(read[Len(read)].lines)}}

CredentialsValid(account, permissions) ==
  /\ validateAccount(account)
  /\ Abs(account.home)
  /\ permissions.allowShell \/ permissions.allowExec => Abs(account.shell)

\* The credentials the connection keeps: a snapshot.
AuthorizeConnection(cfg, account, read, key) ==
  {[account |-> account, permissions |-> p]:
     p \in {q \in UNION {newConnectionPermissions(d):
              d \in UNION {applyMatchedKeyConstraints(PermissionDecision(cfg), c):
                c \in matchAuthorizedKey(read, account, key)}}:
              CredentialsValid(account, q)}}

-----------------------------------------------------------------------------
(***************************************************************************)
(* What a client asks for.  The arguments of "connect": a command or none, *)
(* the environment options (a name, and a value given or looked up), -t    *)
(* and -T, and the terminal the client runs in, if any.                    *)
(***************************************************************************)

\* NoPTY stands for the absence of a PTY request.
NoPTY == [terminal |-> "", rows |-> 0, columns |-> 0]

requestedEnvironment(options) ==
  LET names == {options[i].name: i \in DOMAIN options}
  IN  IF Cardinality(names) < Len(options) \/ \E o \in DOMAIN options: ~options[o].set
      THEN Fail
      ELSE {[n \in names |->
               options[CHOOSE i \in DOMAIN options: options[i].name = n].value]}

buildStartRequest(args) ==
  LET kind == IF args.command = NoCommand THEN "shell" ELSE "exec"
      usePTY == \/ args.forcePTY
                \/ ~args.disablePTY /\ kind = "shell" /\ args.terminal.present
      pty == [terminal |-> IF args.terminal.name = "" THEN "xterm-256color"
                           ELSE args.terminal.name,
              rows |-> IF args.terminal.present /\ args.terminal.rows > 0
                       THEN args.terminal.rows ELSE 24,
              columns |-> 80]
  IN  IF args.forcePTY /\ args.disablePTY THEN Fail
      ELSE {[kind |-> kind, command |-> args.command, environment |-> e,
             pty |-> IF usePTY THEN pty ELSE NoPTY]:
              e \in requestedEnvironment(args.options)}

\* The start frame has a command for "exec" only.
encodeStart(request) ==
  IF (request.kind = "shell") = Blank(request.command) THEN {request} ELSE Fail
decodeStart(request) ==
  [request EXCEPT !.command = IF request.kind = "shell" THEN NoCommand ELSE @]

-----------------------------------------------------------------------------
(***************************************************************************)
(* Channels and launches.  The token that ties a channel grant to its      *)
(* credentials is a pointer to a zero-size value: every token is equal, so *)
(* the comparison decides nothing and is left out.                         *)
(***************************************************************************)
AuthorizeChannel(credentials, request) ==
  request.type = "command" /\ credentials.permissions.allowCommand

\* Registry.OnChannelOpen with the command service as the only one.
OnChannelOpen(credentials, request) ==
  /\ request.type = "command"
  /\ AuthorizeChannel(credentials, request)
  /\ request.payload = "empty"

ProtectedEnvironment == {"HOME", "USER", "LOGNAME", "SHELL", "PATH"}
TrustedEnvironment(account) ==
  [HOME |-> account.home.text, USER |-> account.username,
   LOGNAME |-> account.username, SHELL |-> account.shell.text,
   PATH |-> "trustedPath"]

\* The terminal of a PTY becomes the TERM of the environment.
toLaunchRequest(request) ==
  LET term == request.pty.terminal
  IN  IF request.pty = NoPTY \/ term = "" THEN {request}
      ELSE IF /\ "TERM" \in DOMAIN request.environment
              /\ request.environment["TERM"] # term
      THEN Fail
      ELSE {[request EXCEPT !.environment =
               [n \in DOMAIN @ \cup {"TERM"} |-> IF n = "TERM" THEN term ELSE @[n]]]}

authorizeEnvironment(requested, allowed) == DOMAIN requested \subseteq allowed

KindPermitted(permissions, request) ==
  \/ request.kind = "shell" /\ permissions.allowShell /\ Blank(request.command)
  \/ /\ request.kind = "exec" /\ permissions.allowExec
     /\ ~Blank(request.command) \/ permissions.forcedCommand # NoCommand

PTYPermitted(permissions, pty) ==
  pty # NoPTY => permissions.allowPTY /\ pty.rows > 0 /\ pty.columns > 0

AuthorizeLaunch(credentials, request) ==
  LET permissions == credentials.permissions
      account == credentials.account
      forced == permissions.forcedCommand
  IN  IF /\ CredentialsValid(account, permissions)
         /\ KindPermitted(permissions, request)
         /\ PTYPermitted(permissions, request.pty)
         /\ authorizeEnvironment(request.environment, permissions.environment)
         /\ Abs(account.home) /\ Abs(account.shell)
      THEN {[kind |-> IF forced = NoCommand THEN request.kind ELSE "exec",
             command |-> IF forced = NoCommand
                         THEN TrimSpace(request.command) ELSE forced,
             pty |-> request.pty, environment |-> request.environment,
             account |-> account]}
      ELSE Fail

\* A shell is a login shell without arguments, a command runs with "-c".
toProcessSpec(launch) ==
  [executable |-> launch.account.shell,
   argv |-> IF launch.kind = "shell" THEN <<"-shell">>
            ELSE <<"shell", "-c", launch.command.text>>,
   directory |-> launch.account.home,
   trusted |-> TrustedEnvironment(launch.account),
   requested |-> launch.environment, uid |-> launch.account.uid,
   gid |-> launch.account.gid, groups |-> launch.account.groups,
   pty |-> launch.pty]

MaxPTYDimension == 65535

\* What the runner still refuses: the rest of Spec.validate repeats checks
\* that an authorized launch has passed.
SpecValid(spec) ==
  /\ Abs(spec.executable) /\ Abs(spec.directory)
  /\ DOMAIN spec.requested \cap ProtectedEnvironment = {}
  /\ spec.gid \notin spec.groups
  /\ spec.pty # NoPTY => /\ spec.pty.rows \in 1..MaxPTYDimension
                         /\ spec.pty.columns \in 1..MaxPTYDimension

\* The variables a process is started with.
Environment(spec) ==
  [n \in DOMAIN spec.trusted \cup DOMAIN spec.requested |->
     IF n \in DOMAIN spec.requested THEN spec.requested[n] ELSE spec.trusted[n]]

\* authorizedStarter.Start, up to the runner's own start of the process.
Start(credentials, request) ==
  UNION {{s \in {toProcessSpec(l): l \in AuthorizeLaunch(credentials, r)}:
            SpecValid(s)}: r \in toLaunchRequest(request)}
=============================================================================
