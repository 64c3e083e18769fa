------------------------------ MODULE MCServer ------------------------------
(***************************************************************************)
(* Worlds for TLC: one connection against many authorized_keys files,      *)
(* configurations and requests, one with every fault, and three            *)
(* connections of unknown users that compete for two slots.                *)
(***************************************************************************)
EXTENDS Server

Command(text) == [text |-> text, padded |-> FALSE]
Padded(text) == [text |-> text, padded |-> TRUE]

Dir == [kind |-> "dir", link |-> FALSE, owner |-> "alice", othersRead |-> TRUE,
        othersWrite |-> FALSE, size |-> 0]
File == [Dir EXCEPT !.kind = "file", !.size = AuthorizedKeysMaxSize]
Home == <<[Dir EXCEPT !.link = TRUE], [Dir EXCEPT !.owner = "root"], File>>

Option(name) == [name |-> name, hasValue |-> FALSE, value |-> NoCommand]
Forces(command) == [name |-> "command", hasValue |-> TRUE, value |-> command]
Key(key, options) ==
  [kind |-> "key", algorithm |-> "ed25519", key |-> key, options |-> options]
Text == [Key("", <<>>) EXCEPT !.kind = "text"]
Other(key, options) == [Key(key, options) EXCEPT !.algorithm = "other"]

Keys(lines) == [path |-> Home, lines |-> lines]
Missing == [path |-> <<Dir, [Dir EXCEPT !.kind = "missing"], File>>,
            lines |-> <<Key("k1", <<>>)>>]
Unsafe(path) == [path |-> path, lines |-> <<Key("k1", <<>>)>>]

Plain == Keys(<<Key("k1", <<>>)>>)
Restricted == Keys(<<Key("k2", <<>>), Key("k1", <<Option("restrict")>>)>>)
Forced == Keys(<<Key("k1", <<Forces(Padded("backup")), Option("no-pty")>>)>>)

\* The two configured files of an account: most differ in the first, the
\* second would grant more.
FileLists ==
  {<<f, Plain>>: f \in
     {Restricted, Forced, Missing,
      Keys(<<>>),
      Keys(<<Text, Key("k1", <<Option("no-pty")>>), Key("k1", <<>>)>>),
      Keys(<<Key("k2", <<>>), Text>>),
      Keys(<<Other("k1", <<Option("from")>>)>>),
      Keys(<<Key("k2", <<Option("from")>>)>>),
      Keys(<<Key("k1", <<Option("no-pty"), Option("no-pty")>>)>>),
      Keys(<<Key("k1", <<Forces(Padded(""))>>)>>),
      Unsafe([Home EXCEPT ![2].othersWrite = TRUE]),
      Unsafe([Home EXCEPT ![2].link = TRUE]),
      Unsafe([Home EXCEPT ![3].owner = "bob"]),
      Unsafe([Home EXCEPT ![3].size = AuthorizedKeysMaxSize + 1])}}

Cfg(shell, exec, pty, forced, environment) ==
  [allowShell |-> shell, allowExec |-> exec, allowPTY |-> pty,
   forcedCommand |-> forced, environment |-> environment]
Open4All == Cfg(TRUE, TRUE, TRUE, NoCommand, {"TERM", "LANG"})
Configs ==
  {Open4All,
   Cfg(TRUE, FALSE, TRUE, NoCommand, {"PATH"}),
   Cfg(TRUE, FALSE, TRUE, Padded("backup"), {"TERM"}),
   Cfg(FALSE, TRUE, FALSE, Command("report"), {}),
   Cfg(FALSE, FALSE, TRUE, NoCommand, {}),
   Cfg(FALSE, FALSE, FALSE, NoCommand, {})}

Account(name, gid, groups, shell) ==
  [name |-> name, uid |-> name, gid |-> gid, groups |-> groups,
   home |-> [text |-> name, abs |-> TRUE], shell |-> [text |-> shell, abs |-> shell # ""]]

Env(name, value) == [name |-> name, value |-> value, set |-> TRUE]
Args(command, options, force, disable, terminal) ==
  [command |-> command, options |-> options, forcePTY |-> force,
   disablePTY |-> disable, terminal |-> terminal]
Pipe == [present |-> FALSE, name |-> "", rows |-> 0]
Xterm == [present |-> TRUE, name |-> "xterm", rows |-> 50]

\* Command lines of the client.
CommandLines ==
  {Args(NoCommand, <<>>, FALSE, TRUE, Xterm),
   Args(NoCommand, <<>>, FALSE, FALSE, Xterm),
   Args(NoCommand, <<Env("PATH", "mine")>>, FALSE, FALSE, Pipe),
   Args(NoCommand, <<Env("LANG", "C"), Env("LANG", "de")>>, FALSE, FALSE, Pipe),
   Args(Padded("ls"), <<Env("LANG", "C")>>, FALSE, FALSE, Xterm),
   Args(Command("ls"), <<Env("TERM", "xterm")>>, TRUE, FALSE, Xterm),
   Args(Command("ls"), <<Env("TERM", "vt100")>>, TRUE, FALSE, Pipe),
   Args(Command("ls"), <<>>, TRUE, TRUE, Xterm)}

\* Another client may leave the command blank.
Requests ==
  {decodeStart(r):
     r \in UNION {encodeStart(q): q \in UNION {buildStartRequest(a):
       a \in CommandLines}}}
  \cup {[kind |-> "exec", command |-> Padded(""), pty |-> NoPTY,
         environment |-> [n \in {} |-> ""]]}

World ==
  [cfg |-> Open4All,
   passwd |-> {Account("alice", 100, <<100, 7, 7>>, "sh"),
               Account("carol", 101, <<>>, "")},
   files |-> [u \in {"alice", "carol"} |-> <<Missing, Restricted>>],
   after |-> [u \in {"alice", "carol"} |-> <<Plain, Forced>>],
   clients |-> {[user |-> "alice", key |-> "k1"]},
   channels |-> {[type |-> t, payload |-> p]:
                   t \in {"command", "other"}, p \in {"empty", "some"}},
   requests |-> Requests,
   hostKey |-> [path |-> [Home EXCEPT ![3].othersRead = FALSE, ![3].size = 400,
                                      ![3].owner = "root",
                                      ![1].owner = "root"], key |-> "host"],
   arrivals |-> 1, faults |-> {}]

MCWorlds ==
  {[World EXCEPT !.cfg = cfg, !.files = [u \in {"alice", "carol"} |-> fs],
                 !.after = [u \in {"alice", "carol"} |-> fs]]:
     cfg \in Configs, fs \in FileLists}
  \cup {[World EXCEPT !.faults = Faults],
        [World EXCEPT !.hostKey.path[3].othersRead = TRUE],
        [World EXCEPT !.clients = {[user |-> u, key |-> k]:
                        u \in {"alice", "carol", "nobody"}, k \in {"k1", "k2"}}],
        [World EXCEPT !.arrivals = 3, !.faults = {"stop"},
                      !.clients = {[user |-> "nobody", key |-> "k1"]},
                      !.after = World.files]}
=============================================================================
