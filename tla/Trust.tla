------------------------------- MODULE Trust -------------------------------
(***************************************************************************)
(* The files that say whom to trust: how they are opened (lib/strictfiles, *)
(* app/securefiles), authorized_keys and known_hosts (lib/trust).          *)
(*                                                                         *)
(* A function of the code that may fail is the set of the values it may    *)
(* return: the empty set is an error, and a call sequence is a set         *)
(* comprehension.  A file is a sequence of lines, a line a record; text is *)
(* abstracted to what the code tells apart.                                *)
(***************************************************************************)
EXTENDS Naturals, Sequences, FiniteSetsExt

Fail == {}

-----------------------------------------------------------------------------
(***************************************************************************)
(* Opening.  A path is its components from the anchor directory to the     *)
(* file.  A component is what the name leads to: its kind, its owner, the  *)
(* permissions of others, its size; "link" when the name is a symbolic     *)
(* link to it.                                                             *)
(***************************************************************************)
ComponentType(Owners) ==
  [kind: {"file", "dir", "missing"}, link: BOOLEAN, owner: Owners \cup {"root"},
   othersRead: BOOLEAN, othersWrite: BOOLEAN, size: Nat]

CheckStat(st, opt) ==
  /\ st.kind = (IF opt.wantDir THEN "dir" ELSE "file")
  /\ st.owner \in {"root", opt.owner}
  /\ ~st.othersWrite
  /\ ~opt.allowGlobalRead => ~st.othersRead
  /\ opt.maxSize # 0 => st.size <= opt.maxSize

\* What opening one component comes to.  The checks are made on the open
\* descriptor, so they are about what is read afterwards.
Open(component, opt) ==
  IF component.kind = "missing" THEN "missing"
  ELSE IF (component.link => opt.allowSymlinks) /\ CheckStat(component, opt)
       THEN "open" ELSE "refused"

\* The anchor may be reached through symbolic links, what is below it may
\* not; only the file itself must be of bounded size and, for a private key,
\* unreadable for others.
ReadOptions(path, i, policy) ==
  [wantDir |-> i < Len(path), owner |-> policy.owner, allowSymlinks |-> i = 1,
   allowGlobalRead |-> i < Len(path) \/ policy.allowGlobalRead,
   maxSize |-> IF i < Len(path) THEN 0 ELSE policy.maxSize]

\* securefiles.Read: the first component that does not open decides.
Read(path, policy) ==
  LET verdict(i) == Open(path[i], ReadOptions(path, i, policy))
      stuck == {i \in DOMAIN path: verdict(i) # "open"}
  IN  IF Len(path) < 2 THEN "refused"
      ELSE IF stuck = {} THEN "open" ELSE verdict(Min(stuck))

AuthorizedKeysMaxSize == 8388608
KnownHostsMaxSize == 1048576
PrivateKeyMaxSize == 16384

\* The policies of the kinds of files the program reads.
AuthorizedKeysPolicy(owner) ==
  [owner |-> owner, maxSize |-> AuthorizedKeysMaxSize, allowGlobalRead |-> TRUE]
KnownHostsPolicy(user) ==
  [owner |-> user, maxSize |-> KnownHostsMaxSize, allowGlobalRead |-> TRUE]
PrivateKeyPolicy(user) ==
  [owner |-> user, maxSize |-> PrivateKeyMaxSize, allowGlobalRead |-> FALSE]

-----------------------------------------------------------------------------
(***************************************************************************)
(* authorized_keys.  A line is "text" (a comment, or not a key) or a key   *)
(* with options.  An option is a name, and a value where it has one: the   *)
(* value of "command" is a command, of which the code tells whether it is  *)
(* blank and what is left when the blanks around it are trimmed.           *)
(***************************************************************************)
NoCommand == [text |-> "", padded |-> FALSE]
TrimSpace(command) == [command EXCEPT !.padded = FALSE]
Blank(command) == TrimSpace(command) = NoCommand

OptionNames(line) == {line.options[i].name: i \in DOMAIN line.options}

\* The value of the command option, NoCommand without one.
ForcedBy(line) ==
  IF "command" \in OptionNames(line)
  THEN (CHOOSE o \in {line.options[i]: i \in DOMAIN line.options}:
          o.name = "command").value
  ELSE NoCommand

\* An option twice, an option without the value it needs or with one it does
\* not take, an empty command and an unknown option are errors.
OptionsValid(line) ==
  /\ Cardinality(OptionNames(line)) = Len(line.options)
  /\ \A i \in DOMAIN line.options:
       LET o == line.options[i]
       IN  \/ o.name = "command" /\ o.hasValue /\ ~Blank(o.value)
           \/ o.name \in {"no-pty", "restrict"} /\ ~o.hasValue

parseAuthorizedKeyConstraints(line) ==
  IF ~OptionsValid(line) THEN Fail
  ELSE {[forcedCommand |-> ForcedBy(line),
         noPTY |-> OptionNames(line) \cap {"no-pty", "restrict"} # {},
         restricted |-> "restrict" \in OptionNames(line)]}

\* ssh.ParseAuthorizedKey returns the next key line, skipping text, and
\* fails when there is none: text after the last key fails the whole file.
NextKeyExists(lines) == lines = <<>> \/ lines[Len(lines)].kind = "key"

Ed25519(line) == line.kind = "key" /\ line.algorithm = "ed25519"

\* What a parser returns: the entries in the order of their lines, each under
\* the number of its line.
Entries(lines) == [i \in {j \in DOMAIN lines: Ed25519(lines[j])} |-> lines[i]]

\* Lines of other algorithms are passed over before their options are looked
\* at; one bad option on any other line fails the file.
ParseAuthorizedKeys(lines) ==
  IF /\ NextKeyExists(lines)
     /\ \A i \in DOMAIN lines: Ed25519(lines[i]) => OptionsValid(lines[i])
  THEN {Entries(lines)}
  ELSE Fail

\* The first entry of the key decides what its holder may do.
MatchKey(entries, key) ==
  LET at == {i \in DOMAIN entries: entries[i].key = key}
  IN  IF at = {} THEN Fail ELSE {entries[Min(at)]}

-----------------------------------------------------------------------------
(***************************************************************************)
(* known_hosts.  A line is a comment ("text"), unreadable ("garbage") or   *)
(* has a marker, host identities and a key; an identity is a plain name or *)
(* one of the forms that are not supported.                                *)
(***************************************************************************)
HostsValid(hosts) == hosts # <<>> /\ \A i \in DOMAIN hosts: hosts[i].plain

\* Unlike the options of authorized_keys, marker and identities are checked
\* before lines of other algorithms are passed over.
ParseKnownHosts(lines) ==
  IF \A i \in DOMAIN lines:
       \/ lines[i].kind = "text"
       \/ /\ lines[i].kind = "key"
          /\ lines[i].marker \in {"", "revoked"}
          /\ HostsValid(lines[i].hosts)
  THEN {Entries(lines)}
  ELSE Fail

Names(entry, host) ==
  \E i \in DOMAIN entry.hosts: entry.hosts[i].name = host

MatchHostKey(entries, host, key) ==
  LET named == {i \in DOMAIN entries: Names(entries[i], host)}
      same == {i \in named: entries[i].key = key}
  IN  IF \E i \in same: entries[i].marker = "revoked" THEN "revoked"
      ELSE IF \E i \in same: entries[i].marker = "" THEN "accepted"
      ELSE IF named # {} THEN "mismatch" ELSE "noHost"

knownHostsVerifier(entries, host, key) ==
  MatchHostKey(entries, host, key) = "accepted"

\* What the client loads before it connects, the server before it listens.
loadKnownHosts(file, user) ==
  IF Read(file.path, KnownHostsPolicy(user)) = "open"
  THEN ParseKnownHosts(file.lines) ELSE Fail
loadHostKey(file, user) ==
  IF Read(file.path, PrivateKeyPolicy(user)) = "open" THEN {file.key} ELSE Fail
=============================================================================
