--------------------------- MODULE Server_proofs ---------------------------
(***************************************************************************)
(* Two results about the server, for any limits and any number of          *)
(* arrivals.                                                               *)
(*                                                                         *)
(* The daemon's admission counters are right: the type invariant and       *)
(* AdmissionAccounted together are inductive for the daemon's steps, and   *)
(* every step of the server is a step of the daemon or leaves it alone.    *)
(*                                                                         *)
(* Every process is authorized, in every world: LaunchInv ties a handler's *)
(* credentials to the files as it read them and a process to the           *)
(* credentials of its connection; what that permits follows from what the  *)
(* operators of Trust and Authorization return, one lemma for each.        *)
(***************************************************************************)
EXTENDS Server, FiniteSetTheorems, WellFoundedInduction, TLAPS

DaemonIInv == DaemonTypeOK /\ AdmissionAccounted

\* There are finitely many connections.
LEMMA HoldersFinite ==
  /\ IsFiniteSet(Holders)
  /\ \A s: IsFiniteSet(HoldersOf(s))
  <1>1. IsFiniteSet(Conns)
    BY FS_Interval, MaxArrivalsAssumption DEF Conns
  <1>2. Holders \in SUBSET Conns /\ \A s: HoldersOf(s) \in SUBSET Conns
    BY DEF Holders, HoldersOf
  <1> QED
    BY <1>1, <1>2, FS_Subset

\* A daemon that starts has no connections.
LEMMA DaemonInitOK == DaemonInit => DaemonIInv
  <1> SUFFICES ASSUME DaemonInit PROVE DaemonIInv
    OBVIOUS
  <1>1. (CHOOSE s \in Sources: TRUE) \in Sources
    BY SourcesAssumption
  <1>2. DaemonTypeOK
    BY <1>1 DEF DaemonInit, DaemonTypeOK, ConnSteps
  <1>3. Holders = {} /\ \A s \in Sources: HoldersOf(s) = {}
    BY DEF DaemonInit, Holders, HoldersOf
  <1>4. AdmissionAccounted
    <2>1. Cardinality(Holders) = 0 /\ \A s \in Sources: Cardinality(HoldersOf(s)) = 0
      BY <1>3, FS_EmptySet, Zenon
    <2> QED
      BY <2>1, <1>3, LimitsAssumption DEF DaemonInit, AdmissionAccounted
  <1> QED
    BY <1>2, <1>4 DEF DaemonIInv

\* A step that moves no connection into or out of the holders, and leaves the
\* counters and the sources alone, keeps the account.
LEMMA Unmoved ==
  ASSUME AdmissionAccounted, admission' = admission,
         \A c \in Conns: conn'[c].source = conn[c].source,
         \A c \in Conns: conn'[c].pc \in {"handling", "returned"} <=>
                           conn[c].pc \in {"handling", "returned"}
  PROVE  AdmissionAccounted'
  <1>1. Holders' = Holders
    BY DEF Holders
  <1>2. \A s: HoldersOf(s)' = HoldersOf(s)
    BY <1>1 DEF HoldersOf, Holders
  <1> QED
    BY <1>1, <1>2 DEF AdmissionAccounted

\* Admitting a connection counts it, once, for its source.
LEMMA AdmitOK ==
  ASSUME DaemonIInv, NEW c \in Conns, NEW s \in Sources, Admit(c, s)
  PROVE  DaemonIInv'
  <1> USE DEF DaemonIInv
  <1>1. DaemonTypeOK'
    BY DEF DaemonTypeOK, Admit, acquire, ConnSteps
  <1>2. /\ conn' = [conn EXCEPT ![c] =
                      [pc |-> "handling", source |-> s, sock |-> "open"]]
        /\ conn[c].pc = "none"
    BY DEF Admit, Arrives
  <1>3. Holders' = Holders \cup {c} /\ c \notin Holders
    BY <1>2 DEF Holders, DaemonTypeOK
  <1>4. /\ HoldersOf(s)' = HoldersOf(s) \cup {c} /\ c \notin HoldersOf(s)
        /\ \A t \in Sources \ {s}: HoldersOf(t)' = HoldersOf(t)
    BY <1>2, <1>3 DEF Holders, HoldersOf, DaemonTypeOK
  <1>5. /\ Cardinality(Holders') = Cardinality(Holders) + 1
        /\ Cardinality(HoldersOf(s)') = Cardinality(HoldersOf(s)) + 1
    BY <1>3, <1>4, HoldersFinite, FS_AddElement
  <1>6. /\ admission'.total = admission.total + 1
        /\ admission'.perIP[s] = admission.perIP[s] + 1
        /\ \A t \in Sources \ {s}: admission'.perIP[t] = admission.perIP[t]
    BY DEF Admit, acquire, DaemonTypeOK
  <1>7. admission.total < MaxConnections /\ admission.perIP[s] < MaxConnectionsPerIP
    BY DEF Admit, Admits
  <1>8. admission'.total = Cardinality(Holders') /\ admission'.total <= MaxConnections
    <2>1. admission.total = Cardinality(Holders) /\ admission.total \in Nat
      BY DEF AdmissionAccounted, DaemonTypeOK
    <2>2. MaxConnections \in Nat
      BY LimitsAssumption
    <2> QED
      BY <2>1, <2>2, <1>5, <1>6, <1>7
  <1>9. ASSUME NEW t \in Sources
        PROVE  /\ admission'.perIP[t] = Cardinality(HoldersOf(t)')
               /\ admission'.perIP[t] <= MaxConnectionsPerIP
    <2>1. CASE t = s
      BY <2>1, <1>5, <1>6, <1>7, LimitsAssumption
      DEF AdmissionAccounted, DaemonTypeOK
    <2>2. CASE t # s
      BY <2>2, <1>4, <1>6 DEF AdmissionAccounted
    <2> QED
      BY <2>1, <2>2
  <1> QED
    BY <1>1, <1>8, <1>9 DEF AdmissionAccounted

\* A connection that gives its slot back is counted no more; the tests for
\* zero in release never apply.
LEMMA ReleaseOK ==
  ASSUME DaemonIInv, NEW c \in Conns, Release(c)
  PROVE  DaemonIInv'
  <1> USE DEF DaemonIInv
  <1>0. PICK s \in Sources: s = conn[c].source
    BY DEF DaemonTypeOK
  <1>1. conn' = [conn EXCEPT ![c].pc = "released"] /\ conn[c].pc = "returned"
    BY DEF Release
  <1>2. c \in Holders /\ Holders' = Holders \ {c}
    BY <1>1 DEF Holders, DaemonTypeOK
  <1>3. /\ c \in HoldersOf(s) /\ HoldersOf(s)' = HoldersOf(s) \ {c}
        /\ \A t \in Sources \ {s}: HoldersOf(t)' = HoldersOf(t)
    BY <1>0, <1>1, <1>2 DEF Holders, HoldersOf, DaemonTypeOK
  <1>4. /\ Cardinality(Holders') = Cardinality(Holders) - 1
        /\ Cardinality(HoldersOf(s)') = Cardinality(HoldersOf(s)) - 1
    BY <1>2, <1>3, HoldersFinite, FS_RemoveElement
  <1>5. Cardinality(Holders') \in Nat /\ Cardinality(HoldersOf(s)') \in Nat
    <2>1. IsFiniteSet(Holders \ {c}) /\ IsFiniteSet(HoldersOf(s) \ {c})
      BY HoldersFinite, FS_RemoveElement
    <2> QED
      BY <2>1, <1>2, <1>3, FS_CardinalityType
  <1>6. /\ admission.total = Cardinality(Holders)
        /\ admission.perIP[s] = Cardinality(HoldersOf(s))
        /\ admission.total \in Nat /\ admission.perIP[s] \in Nat
        /\ admission.perIP[s] <= MaxConnectionsPerIP /\ MaxConnectionsPerIP \in Nat
    BY LimitsAssumption DEF AdmissionAccounted, DaemonTypeOK
  <1>7. admission.total >= 1 /\ admission.perIP[s] >= 1
    BY <1>4, <1>5, <1>6
  <1>8. /\ admission'.total = admission.total - 1
        /\ admission'.perIP = [admission.perIP EXCEPT ![s] = IF @ <= 1 THEN 0 ELSE @ - 1]
    BY <1>0, <1>6, <1>7 DEF Release, release
  <1>9. /\ admission'.perIP[s] = admission.perIP[s] - 1
        /\ \A t \in Sources \ {s}: admission'.perIP[t] = admission.perIP[t]
    BY <1>6, <1>7, <1>8 DEF DaemonTypeOK
  <1>10. DaemonTypeOK'
    <2>1. admission' = [total |-> admission'.total, perIP |-> admission'.perIP]
      BY DEF Release, release
    <2>2. admission'.total \in Nat
      BY <1>6, <1>7, <1>8
    <2>3. admission'.perIP \in [Sources -> Nat]
      BY <1>8, <1>6, <1>7 DEF DaemonTypeOK
    <2>4. conn' \in [Conns -> [pc: ConnSteps, source: Sources,
                               sock: {"open", "closed"}]]
      BY <1>1 DEF DaemonTypeOK, ConnSteps
    <2> QED
      BY <2>1, <2>2, <2>3, <2>4 DEF DaemonTypeOK, Release
  <1>11. admission'.total = Cardinality(Holders') /\ admission'.total <= MaxConnections
    BY <1>4, <1>6, <1>8, LimitsAssumption DEF AdmissionAccounted
  <1>12. ASSUME NEW t \in Sources
         PROVE  /\ admission'.perIP[t] = Cardinality(HoldersOf(t)')
                /\ admission'.perIP[t] <= MaxConnectionsPerIP
    <2>1. CASE t = s
      BY <2>1, <1>4, <1>6, <1>9
    <2>2. CASE t # s
      BY <2>2, <1>3, <1>9 DEF AdmissionAccounted
    <2> QED
      BY <2>1, <2>2
  <1> QED
    BY <1>10, <1>11, <1>12 DEF AdmissionAccounted

\* The steps that move a connection on without touching its slot.
LEMMA ConnStepOK ==
  ASSUME DaemonIInv, NEW c \in Conns,
         \/ \E s \in Sources: Refuse(c, s)
         \/ HandlerReturns(c) \/ CloseConn(c) \/ ConnectionDone(c)
  PROVE  DaemonIInv'
  <1> USE DEF DaemonIInv
  <1>1. DaemonTypeOK'
    BY DEF DaemonTypeOK, ConnSteps, Refuse, HandlerReturns, CloseConn,
           ConnectionDone
  <1>2. /\ admission' = admission
        /\ \A d \in Conns: conn'[d].source = conn[d].source
        /\ \A d \in Conns: conn'[d].pc \in {"handling", "returned"} <=>
                             conn[d].pc \in {"handling", "returned"}
    BY DEF DaemonTypeOK, Refuse, Arrives, HandlerReturns, CloseConn,
           ConnectionDone
  <1>3. AdmissionAccounted'
    BY <1>2, Unmoved
  <1> QED
    BY <1>1, <1>3

\* The steps of the accept loop and of the shutdown.
LEMMA LoopStepOK ==
  ASSUME DaemonIInv,
         \/ AcceptStops("open") \/ AcceptStops("closed") \/ AcceptTemporary
         \/ BackoffEnds \/ AcceptFails \/ Cancel \/ CloseListener
         \/ ShutdownComplete \/ ShutdownTimeout \/ UNCHANGED daemonVars
  PROVE  DaemonIInv'
  <1> USE DEF DaemonIInv
  <1>1. admission' = admission /\ conn' = conn
    BY DEF AcceptStops, AcceptTemporary, BackoffEnds, AcceptFails, Cancel,
           CloseListener, ShutdownComplete, ShutdownTimeout, daemonVars
  <1>2. DaemonTypeOK'
    BY DEF DaemonTypeOK, AcceptStops, AcceptTemporary, BackoffEnds, AcceptFails,
           Cancel, CloseListener, ShutdownComplete, ShutdownTimeout, daemonVars
  <1>3. AdmissionAccounted'
    BY <1>1, Unmoved
  <1> QED
    BY <1>2, <1>3

LEMMA DaemonStepOK == DaemonIInv /\ [DaemonNext]_daemonVars => DaemonIInv'
  <1> SUFFICES ASSUME DaemonIInv, [DaemonNext]_daemonVars PROVE DaemonIInv'
    OBVIOUS
  <1>1. CASE \E c \in Conns:
               \/ \E s \in Sources: Admit(c, s) \/ Refuse(c, s)
               \/ HandlerReturns(c)
               \/ Release(c) \/ CloseConn(c) \/ ConnectionDone(c)
    <2>1. PICK c \in Conns:
               \/ \E s \in Sources: Admit(c, s) \/ Refuse(c, s)
               \/ HandlerReturns(c)
               \/ Release(c) \/ CloseConn(c) \/ ConnectionDone(c)
      BY <1>1
    <2>2. CASE \E s \in Sources: Admit(c, s)
      BY <2>2, AdmitOK
    <2>3. CASE Release(c)
      BY <2>3, ReleaseOK
    <2>4. CASE \/ \E s \in Sources: Refuse(c, s)
               \/ HandlerReturns(c) \/ CloseConn(c) \/ ConnectionDone(c)
      BY <2>4, ConnStepOK
    <2> QED
      BY <2>1, <2>2, <2>3, <2>4
  <1>2. CASE \/ AcceptStops("open") \/ AcceptStops("closed") \/ AcceptTemporary
             \/ BackoffEnds \/ AcceptFails \/ Cancel \/ CloseListener
             \/ ShutdownComplete \/ ShutdownTimeout \/ UNCHANGED daemonVars
    BY <1>2, LoopStepOK
  <1> QED
    BY <1>1, <1>2 DEF DaemonNext

\* A handler's own steps do not touch the daemon.
LEMMA ServerStepIsDaemonStep == [Next]_vars => [DaemonNext]_daemonVars
  <1> SUFFICES ASSUME [Next]_vars PROVE [DaemonNext]_daemonVars
    OBVIOUS
  <1>1. CASE DaemonStops \/ AcceptError \/ Interrupt
    BY <1>1 DEF DaemonStops, AcceptError, Interrupt, DaemonNext
  <1>2. CASE EditKeys
    BY <1>2 DEF EditKeys
  <1>3. ASSUME NEW c \in Conns,
               \/ AdmitConn(c) \/ RefuseConn(c) \/ Return(c) \/ Panic(c)
               \/ ConnectionEnds(c)
        PROVE  DaemonNext
    BY <1>3 DEF AdmitConn, RefuseConn, Return, Panic, ConnectionEnds, DaemonNext
  <1>4. ASSUME NEW c \in Conns,
               \/ BeginAcceptFails(c) \/ BeginAccept(c) \/ AuthTimeout(c)
               \/ ResolveAccount(c) \/ ReadKeys(c) \/ Reject(c) \/ Accept(c)
               \/ SessionEnds(c) \/ OpenChannel(c) \/ StartCommand(c)
               \/ RunnerStart(c)
        PROVE  UNCHANGED daemonVars
    BY <1>4 DEF BeginAcceptFails, BeginAccept, AuthTimeout, ResolveAccount,
                ReadKeys, Reject, Accept, SessionEnds, OpenChannel,
                StartCommand, RunnerStart
  <1>5. CASE UNCHANGED vars
    BY <1>5 DEF vars, daemonVars
  <1> QED
    BY <1>1, <1>2, <1>3, <1>4, <1>5 DEF Next

(***************************************************************************)
(* Whatever the limits, the sources, the number of arrivals and the worlds *)
(* are, the admission's counters are the connections that hold a slot, in  *)
(* total and per source, and stay within the limits: no way out of a       *)
(* connection loses a slot or gives it back twice.                         *)
(* (connectionAdmission, the deferred calls of runDaemon's goroutine)      *)
(***************************************************************************)
THEOREM AdmissionCorrect == Spec => [](DaemonTypeOK /\ AdmissionAccounted)
  <1>1. Init => DaemonIInv
    BY DaemonInitOK DEF Init
  <1>2. DaemonIInv /\ [Next]_vars => DaemonIInv'
    BY DaemonStepOK, ServerStepIsDaemonStep
  <1> QED
    BY <1>1, <1>2, PTL DEF Spec, DaemonIInv

-----------------------------------------------------------------------------
(***************************************************************************)
(* What the operators of the authorization give.                           *)
(***************************************************************************)

\* A set of naturals that is not empty has a least member.
LEMMA MinIn ==
  ASSUME NEW S, S \subseteq Nat, S # {}
  PROVE  Min(S) \in S /\ \A y \in S: Min(S) <= y
  <1>1. \E x \in S: \A y \in S: x <= y
    <2>1. PICK x \in S: \A y \in S: ~(<<y, x>> \in OpToRel(<, Nat))
      BY NatLessThanWellFounded, WFMin
    <2>2. \A y \in S: ~(y < x)
      BY <2>1 DEF OpToRel
    <2> QED
      BY <2>2
  <1> QED
    BY <1>1 DEF Min

\* A file that opens is the account's own, one that is missing misses a part
\* of its path.
LEMMA ReadFacts ==
  ASSUME NEW file \in FileType, NEW uid
  PROVE  /\ Read(file.path, AuthorizedKeysPolicy(uid)) \in {"open", "missing", "refused"}
         /\ Read(file.path, AuthorizedKeysPolicy(uid)) = "open" => OwnFile(file, uid)
         /\ Read(file.path, AuthorizedKeysPolicy(uid)) = "missing" =>
              \E k \in DOMAIN file.path: file.path[k].kind = "missing"
  <1> DEFINE path == file.path
             policy == AuthorizedKeysPolicy(uid)
             verdict(i) == Open(path[i], ReadOptions(path, i, policy))
             stuck == {i \in DOMAIN path: verdict(i) # "open"}
  <1>1. path \in Seq(ComponentType(STRING))
    BY DEF FileType
  <1>2. stuck \subseteq Nat
    BY <1>1
  <1>3. \A i: verdict(i) \in {"open", "missing", "refused"}
    BY DEF Open
  <1>4. stuck # {} => Min(stuck) \in stuck
    BY <1>2, MinIn
  <1>5. Read(path, policy) = IF Len(path) < 2 THEN "refused"
                             ELSE IF stuck = {} THEN "open" ELSE verdict(Min(stuck))
    BY DEF Read
  <1>6. stuck # {} => Min(stuck) \in DOMAIN path /\ verdict(Min(stuck)) # "open"
    BY <1>4
  <1>7. \A i \in DOMAIN path: verdict(i) = "missing" => path[i].kind = "missing"
    BY DEF Open
  <1>8. stuck = {} => OwnFile(file, uid)
    BY DEF Open, CheckStat, ReadOptions, AuthorizedKeysPolicy, OwnFile
  <1> HIDE DEF stuck, verdict, path, policy
  <1>9. /\ Read(path, policy) \in {"open", "missing", "refused"}
        /\ Read(path, policy) = "open" => stuck = {}
        /\ Read(path, policy) = "missing" => stuck # {} /\ verdict(Min(stuck)) = "missing"
    BY <1>3, <1>5, <1>6
  <1> QED
    BY <1>6, <1>7, <1>8, <1>9 DEF path, policy

\* A file is passed over, a mistake, or the account's own and well-formed,
\* with the key or without.
LEMMA KeysReadFacts ==
  ASSUME NEW file \in FileType, NEW account, NEW key
  PROVE  /\ KeysRead(file, account, key) \in {"skip", "error", "match", "other"}
         /\ KeysRead(file, account, key) = "skip" =>
              \E k \in DOMAIN file.path: file.path[k].kind = "missing"
         /\ KeysRead(file, account, key) \in {"match", "other"} =>
              /\ OwnFile(file, account.uid)
              /\ ParseAuthorizedKeys(file.lines) = {Entries(file.lines)}
              /\ \A n \in DOMAIN file.lines:
                   Ed25519(file.lines[n]) => OptionsValid(file.lines[n])
         /\ KeysRead(file, account, key) = "match" =>
              MatchKey(Entries(file.lines), key) # Fail
         /\ KeysRead(file, account, key) = "other" =>
              MatchKey(Entries(file.lines), key) = Fail
  <1> DEFINE outcome == Read(file.path, AuthorizedKeysPolicy(account.uid))
             parsed == ParseAuthorizedKeys(file.lines)
             matches == \E entries \in parsed: MatchKey(entries, key) # Fail
  <1>1. KeysRead(file, account, key) =
          CASE outcome = "missing" -> "skip"
            [] outcome = "refused" \/ (outcome = "open" /\ parsed = Fail) -> "error"
            [] OTHER -> IF matches THEN "match" ELSE "other"
    BY DEF KeysRead
  <1>2. /\ outcome \in {"open", "missing", "refused"}
        /\ outcome = "open" => OwnFile(file, account.uid)
        /\ outcome = "missing" => \E k \in DOMAIN file.path: file.path[k].kind = "missing"
    BY ReadFacts
  <1>3. parsed # Fail =>
          /\ parsed = {Entries(file.lines)}
          /\ \A n \in DOMAIN file.lines:
               Ed25519(file.lines[n]) => OptionsValid(file.lines[n])
    BY DEF ParseAuthorizedKeys
  <1>4. parsed = {Entries(file.lines)} =>
          (matches <=> MatchKey(Entries(file.lines), key) # Fail)
    OBVIOUS
  <1> HIDE DEF outcome, parsed, matches
  <1>5. /\ outcome = "missing" => KeysRead(file, account, key) = "skip"
        /\ outcome = "refused" => KeysRead(file, account, key) = "error"
        /\ outcome = "open" /\ parsed = Fail => KeysRead(file, account, key) = "error"
        /\ outcome = "open" /\ parsed # Fail =>
             KeysRead(file, account, key) = IF matches THEN "match" ELSE "other"
    BY <1>1
  <1>6. CASE outcome = "open" /\ parsed # Fail
    BY <1>2, <1>3, <1>4, <1>5, <1>6 DEF parsed
  <1>7. CASE ~(outcome = "open" /\ parsed # Fail)
    BY <1>2, <1>5, <1>7
  <1> QED
    BY <1>6, <1>7

\* The key of a file is matched at its first line.
LEMMA FirstLine ==
  ASSUME NEW lines \in Seq(LineType), NEW key
  PROVE  /\ MatchKey(Entries(lines), key) = Fail =>
              ~\E n \in DOMAIN lines: Ed25519(lines[n]) /\ lines[n].key = key
         /\ \A entry \in MatchKey(Entries(lines), key):
              \E n \in DOMAIN lines:
                /\ entry = lines[n] /\ Ed25519(lines[n]) /\ lines[n].key = key
                /\ \A m \in 1..(n - 1): ~(Ed25519(lines[m]) /\ lines[m].key = key)
  <1> DEFINE at == {i \in DOMAIN Entries(lines): Entries(lines)[i].key = key}
  <1>1. MatchKey(Entries(lines), key) =
          IF at = {} THEN Fail ELSE {Entries(lines)[Min(at)]}
    BY DEF MatchKey
  <1>2. at = {n \in DOMAIN lines: Ed25519(lines[n]) /\ lines[n].key = key}
    BY DEF Entries
  <1>3. at \subseteq Nat /\ DOMAIN lines = 1..Len(lines) /\ Len(lines) \in Nat
    BY <1>2
  <1>4. at # {} => Min(at) \in at /\ \A y \in at: Min(at) <= y
    BY <1>3, MinIn
  <1>5. \A n \in at: Entries(lines)[n] = lines[n]
    BY DEF Entries
  <1> HIDE DEF at
  <1>6. ASSUME at # {}
        PROVE  /\ Min(at) \in DOMAIN lines
               /\ Ed25519(lines[Min(at)]) /\ lines[Min(at)].key = key
               /\ \A m \in 1..(Min(at) - 1): ~(Ed25519(lines[m]) /\ lines[m].key = key)
    <2> DEFINE n == Min(at)
    <2>1. n \in at /\ \A y \in at: n <= y
      BY <1>4, <1>6
    <2>2. n \in DOMAIN lines /\ Ed25519(lines[n]) /\ lines[n].key = key /\ n \in 1..Len(lines)
      BY <1>2, <1>3, <2>1
    <2> HIDE DEF n
    <2>3. \A m \in 1..(n - 1): m \in DOMAIN lines /\ m \notin at
      BY <1>3, <2>1, <2>2
    <2>4. \A m \in 1..(n - 1): ~(Ed25519(lines[m]) /\ lines[m].key = key)
      BY <1>2, <2>3
    <2> QED
      BY <2>2, <2>4 DEF n
  <1>7. CASE at = {}
    BY <1>1, <1>2, <1>7 DEF Fail
  <1>8. CASE at # {}
    <2>1. MatchKey(Entries(lines), key) = {Entries(lines)[Min(at)]}
          /\ Entries(lines)[Min(at)] = lines[Min(at)]
      BY <1>1, <1>4, <1>5, <1>8
    <2> QED
      BY <1>6, <1>8, <2>1 DEF Fail
  <1> QED
    BY <1>7, <1>8

\* The options of a line are known ones, and a command among them is not blank.
LEMMA LineOptions ==
  ASSUME NEW line \in LineType, OptionsValid(line)
  PROVE  /\ OptionNames(line) \subseteq {"command", "no-pty", "restrict"}
         /\ "command" \in OptionNames(line) =>
              ForcedBy(line) \in CommandType /\ ~Blank(ForcedBy(line))
  <1> DEFINE options == {line.options[i]: i \in DOMAIN line.options}
  <1>1. line.options \in Seq(OptionType)
    BY DEF LineType
  <1>2. \A o \in options:
          /\ o \in OptionType
          /\ \/ o.name = "command" /\ ~Blank(o.value)
             \/ o.name \in {"no-pty", "restrict"}
    BY <1>1 DEF OptionsValid
  <1>3. OptionNames(line) = {o.name: o \in options}
    BY DEF OptionNames
  <1>4. ASSUME "command" \in OptionNames(line)
        PROVE  ForcedBy(line) \in CommandType /\ ~Blank(ForcedBy(line))
    <2> DEFINE o == CHOOSE x \in options: x.name = "command"
    <2>1. o \in options /\ o.name = "command"
      BY <1>3, <1>4
    <2>2. ForcedBy(line) = o.value
      BY <1>4 DEF ForcedBy
    <2> HIDE DEF o, options
    <2>3. o \in OptionType /\ ~Blank(o.value)
      BY <1>2, <2>1
    <2> QED
      BY <2>2, <2>3 DEF OptionType
  <1> QED
    BY <1>2, <1>3, <1>4

\* A matched key: the last file read is the account's own, its first line with
\* the key gives the constraints, and no earlier file was unusable.
LEMMA MatchFacts ==
  ASSUME NEW read \in Seq(FileType), NEW account, NEW key,
         NEW constraints \in matchAuthorizedKey(read, account, key)
  PROVE  /\ read # <<>>
         /\ OwnFile(read[Len(read)], account.uid)
         /\ \A j \in 1..Len(read): KeysRead(read[j], account, key) # "error"
         /\ \E n \in DOMAIN read[Len(read)].lines:
              /\ Ed25519(read[Len(read)].lines[n])
              /\ read[Len(read)].lines[n].key = key
              /\ \A m \in 1..(n - 1): ~(/\ Ed25519(read[Len(read)].lines[m])
                                        /\ read[Len(read)].lines[m].key = key)
              /\ OptionsValid(read[Len(read)].lines[n])
              /\ read[Len(read)].lines[n] \in LineType
              /\ constraints \in parseAuthorizedKeyConstraints(read[Len(read)].lines[n])
  <1> DEFINE file == read[Len(read)]
             lines == file.lines
  <1>1. /\ ~(\/ \E i \in DOMAIN read: KeysRead(read[i], account, key) = "error"
             \/ read = <<>>
             \/ KeysRead(file, account, key) # "match")
        /\ constraints \in
             UNION {parseAuthorizedKeyConstraints(entry):
               entry \in UNION {MatchKey(entries, key):
                 entries \in ParseAuthorizedKeys(lines)}}
    BY DEF matchAuthorizedKey, Fail
  <1>2. DOMAIN read = 1..Len(read) /\ file \in FileType
    BY <1>1
  <1> HIDE DEF file
  <1>3. /\ OwnFile(file, account.uid) /\ ParseAuthorizedKeys(lines) = {Entries(lines)}
        /\ \A n \in DOMAIN lines: Ed25519(lines[n]) => OptionsValid(lines[n])
    BY <1>1, <1>2, KeysReadFacts
  <1>4. PICK entry \in MatchKey(Entries(lines), key):
          constraints \in parseAuthorizedKeyConstraints(entry)
    BY <1>1, <1>3
  <1>5. lines \in Seq(LineType)
    BY <1>2 DEF FileType
  <1> HIDE DEF lines
  <1>6. PICK n \in DOMAIN lines:
          /\ entry = lines[n] /\ Ed25519(lines[n]) /\ lines[n].key = key
          /\ \A m \in 1..(n - 1): ~(Ed25519(lines[m]) /\ lines[m].key = key)
    BY <1>4, <1>5, FirstLine
  <1>7. lines[n] \in LineType /\ OptionsValid(lines[n])
    BY <1>3, <1>5, <1>6
  <1>8. \E k \in DOMAIN lines:
          /\ Ed25519(lines[k]) /\ lines[k].key = key
          /\ \A m \in 1..(k - 1): ~(Ed25519(lines[m]) /\ lines[m].key = key)
          /\ OptionsValid(lines[k]) /\ lines[k] \in LineType
          /\ constraints \in parseAuthorizedKeyConstraints(lines[k])
    BY <1>4, <1>6, <1>7
  <1> QED
    BY <1>1, <1>2, <1>3, <1>8 DEF lines, file

\* Trimming keeps the text, and trimming twice is trimming once.
LEMMA TrimFacts ==
  ASSUME NEW command \in CommandType
  PROVE  /\ TrimSpace(command) \in CommandType
         /\ TrimSpace(command).text = command.text
         /\ TrimSpace(TrimSpace(command)) = TrimSpace(command)
  BY DEF TrimSpace, CommandType

\* The permissions of a connection are those of the configuration, narrowed
\* by the constraints of the matched key.
LEMMA GrantFacts ==
  ASSUME NEW cfg \in ConfigType, cfg.forcedCommand = TrimSpace(cfg.forcedCommand),
         NEW account, NEW read, NEW key,
         NEW credentials \in AuthorizeConnection(cfg, account, read, key)
  PROVE  \E constraints \in matchAuthorizedKey(read, account, key):
           LET p == credentials.permissions
           IN  /\ credentials.account = account
               /\ p.allowShell = cfg.allowShell /\ p.allowExec = cfg.allowExec
               /\ p.environment = cfg.environment
               /\ p.allowPTY => cfg.allowPTY /\ ~constraints.noPTY
               /\ cfg.forcedCommand # NoCommand => p.forcedCommand = cfg.forcedCommand
               /\ constraints.forcedCommand # NoCommand =>
                    p.forcedCommand = TrimSpace(constraints.forcedCommand)
  <1> DEFINE decision == PermissionDecision(cfg)
  <1>1. PICK q \in UNION {newConnectionPermissions(d):
                     d \in UNION {applyMatchedKeyConstraints(decision, c):
                       c \in matchAuthorizedKey(read, account, key)}}:
          credentials = [account |-> account, permissions |-> q]
    BY DEF AuthorizeConnection
  <1>2. PICK k \in matchAuthorizedKey(read, account, key):
          \E d \in applyMatchedKeyConstraints(decision, k): q \in newConnectionPermissions(d)
    BY <1>1
  <1>3. PICK d \in applyMatchedKeyConstraints(decision, k): q \in newConnectionPermissions(d)
    BY <1>2
  <1>4. q = [d EXCEPT !.forcedCommand = TrimSpace(@)]
    BY <1>3 DEF newConnectionPermissions, Fail
  <1>5. /\ k.forcedCommand # NoCommand =>
             decision.forcedCommand \in {NoCommand, k.forcedCommand}
        /\ d = [decision EXCEPT
                  !.allowPTY = @ /\ ~k.noPTY,
                  !.forcedCommand = IF k.forcedCommand = NoCommand
                                    THEN @ ELSE k.forcedCommand]
    BY <1>3 DEF applyMatchedKeyConstraints, Fail
  <1>6. /\ decision.allowShell = cfg.allowShell /\ decision.allowExec = cfg.allowExec
        /\ decision.environment = cfg.environment /\ decision.allowPTY = cfg.allowPTY
        /\ decision.forcedCommand = cfg.forcedCommand
        /\ DOMAIN decision = {"allowCommand", "allowShell", "allowExec", "allowPTY",
                              "forcedCommand", "environment"}
    BY DEF PermissionDecision
  <1> HIDE DEF decision
  <1>7. /\ d.allowShell = cfg.allowShell /\ d.allowExec = cfg.allowExec
        /\ d.environment = cfg.environment /\ d.allowPTY = (cfg.allowPTY /\ ~k.noPTY)
        /\ d.forcedCommand = IF k.forcedCommand = NoCommand THEN cfg.forcedCommand
                             ELSE k.forcedCommand
        /\ DOMAIN d = DOMAIN decision
    BY <1>5, <1>6
  <1>8. /\ q.allowShell = cfg.allowShell /\ q.allowExec = cfg.allowExec
        /\ q.environment = cfg.environment /\ q.allowPTY = (cfg.allowPTY /\ ~k.noPTY)
        /\ q.forcedCommand = TrimSpace(d.forcedCommand)
    BY <1>4, <1>6, <1>7
  <1>9. cfg.forcedCommand # NoCommand => q.forcedCommand = cfg.forcedCommand
    <2>1. CASE k.forcedCommand = NoCommand
      BY <1>7, <1>8, <2>1
    <2>2. CASE k.forcedCommand # NoCommand /\ cfg.forcedCommand # NoCommand
      <3>1. k.forcedCommand = cfg.forcedCommand /\ q.forcedCommand = TrimSpace(cfg.forcedCommand)
        BY <1>5, <1>6, <1>7, <1>8, <2>2
      <3> QED
        BY <2>2, <3>1
    <2> QED
      BY <2>1, <2>2
  <1>10. k.forcedCommand # NoCommand => q.forcedCommand = TrimSpace(k.forcedCommand)
    BY <1>7, <1>8
  <1> QED
    BY <1>1, <1>8, <1>9, <1>10

\* What Start makes of credentials and a request.
StartsAs(credentials, request, spec) ==
  LET p == credentials.permissions
      account == credentials.account
  IN  /\ spec.uid = account.uid /\ spec.gid = account.gid
      /\ spec.groups = account.groups
      /\ spec.executable = account.shell /\ spec.directory = account.home
      /\ spec.trusted = TrustedEnvironment(account)
      /\ DOMAIN spec.requested \subseteq p.environment \ ProtectedEnvironment
      /\ spec.pty = request.pty /\ (spec.pty # NoPTY => p.allowPTY)
      /\ request.kind = "shell" => p.allowShell
      /\ request.kind = "exec" => p.allowExec
      /\ p.forcedCommand # NoCommand =>
           spec.argv = <<"shell", "-c", p.forcedCommand.text>>
      /\ \/ spec.argv = <<"-shell">>
         \/ \E text: spec.argv = <<"shell", "-c", text>>

\* A process is what the permissions of the connection allow, for the account
\* of its credentials.
LEMMA StartFacts ==
  ASSUME NEW credentials, NEW request,
         DOMAIN request = {"kind", "command", "pty", "environment"},
         NEW spec \in Start(credentials, request)
  PROVE  StartsAs(credentials, request, spec)
  <1> DEFINE p == credentials.permissions
             account == credentials.account
  <1>1. PICK r \in toLaunchRequest(request):
          spec \in {s \in {toProcessSpec(l): l \in AuthorizeLaunch(credentials, r)}: SpecValid(s)}
    BY DEF Start
  <1>2. PICK l \in AuthorizeLaunch(credentials, r): spec = toProcessSpec(l)
    BY <1>1
  <1>3. SpecValid(spec)
    BY <1>1
  <1>4. r.kind = request.kind /\ r.pty = request.pty
    BY <1>1 DEF toLaunchRequest, Fail
  <1>5. /\ KindPermitted(p, r) /\ PTYPermitted(p, r.pty)
        /\ DOMAIN r.environment \subseteq p.environment
        /\ l = [kind |-> IF p.forcedCommand = NoCommand THEN r.kind ELSE "exec",
                command |-> IF p.forcedCommand = NoCommand
                            THEN TrimSpace(r.command) ELSE p.forcedCommand,
                pty |-> r.pty, environment |-> r.environment, account |-> account]
    BY <1>2 DEF AuthorizeLaunch, authorizeEnvironment, Fail
  <1> HIDE DEF p, account
  <1>6. /\ l.kind = (IF p.forcedCommand = NoCommand THEN r.kind ELSE "exec")
        /\ p.forcedCommand # NoCommand => l.command = p.forcedCommand
        /\ l.pty = r.pty /\ l.environment = r.environment /\ l.account = account
    BY <1>5
  <1>7. /\ spec.executable = l.account.shell /\ spec.directory = l.account.home
        /\ spec.argv = (IF l.kind = "shell" THEN <<"-shell">>
                        ELSE <<"shell", "-c", l.command.text>>)
        /\ spec.trusted = TrustedEnvironment(l.account) /\ spec.requested = l.environment
        /\ spec.uid = l.account.uid /\ spec.gid = l.account.gid
        /\ spec.groups = l.account.groups /\ spec.pty = l.pty
    BY <1>2 DEF toProcessSpec
  <1>8. DOMAIN spec.requested \cap ProtectedEnvironment = {}
    BY <1>3 DEF SpecValid
  <1>9. DOMAIN spec.requested \subseteq p.environment \ ProtectedEnvironment
    BY <1>5, <1>6, <1>7, <1>8
  <1>10. /\ request.kind = "shell" => p.allowShell
         /\ request.kind = "exec" => p.allowExec
         /\ spec.pty # NoPTY => p.allowPTY
    BY <1>4, <1>5, <1>6, <1>7 DEF KindPermitted, PTYPermitted
  <1>11. p.forcedCommand # NoCommand => spec.argv = <<"shell", "-c", p.forcedCommand.text>>
    BY <1>6, <1>7
  <1>12. spec.argv = <<"-shell">> \/ \E text: spec.argv = <<"shell", "-c", text>>
    BY <1>7
  <1> QED
    BY <1>4, <1>6, <1>7, <1>9, <1>10, <1>11, <1>12 DEF p, account, StartsAs

-----------------------------------------------------------------------------
(***************************************************************************)
(* The handlers.  A connection's credentials stay what AuthorizeConnection *)
(* gave for the files as they were read, and a process stays tied to them, *)
(* however long after it is started and whatever has been edited since.    *)
(***************************************************************************)
HandlerFields ==
  {"pc", "ctx", "client", "account", "read", "credentials", "channel", "starting"}

Resolved(w, h) == h.account \in Resolve(w.passwd, h.client.user)

\* None of the first n files that were read has the key.
Unmatched(h, n) ==
  \A i \in 1..n: KeysRead(h.read[i], h.account, h.client.key) # "match"

Reading(w, h) ==
  /\ Resolved(w, h)
  /\ h.read \in Seq(FileType) /\ Len(h.read) < Len(w.files[h.account.uid])
  /\ Unmatched(h, Len(h.read))

Granted(w, h) ==
  /\ Resolved(w, h)
  /\ h.read \in Seq(FileType) /\ Unmatched(h, Len(h.read) - 1)
  /\ h.credentials \in AuthorizeConnection(w.cfg, h.account, h.read, h.client.key)

Launched(w, h, p) ==
  /\ h.pc \in {"session", "return"}
  /\ Granted(w, h)
  /\ p.request \in w.requests /\ p.spec \in Start(h.credentials, p.request)

HandlerInv(w, h) ==
  /\ DOMAIN h = HandlerFields
  /\ h.pc \in {"establish", "resolve"} => h.read = <<>>
  /\ h.pc = "readKeys" => Reading(w, h)
  /\ h.pc \in {"accept", "session"} => Granted(w, h)
  /\ \A p \in h.starting: Launched(w, h, p)

\* What the world is, and stays.
WorldInv ==
  /\ \E w \in Worlds: world = [w EXCEPT !.cfg = LoadServer(@)]
  /\ files \in {world.files, world.after}

LaunchInv ==
  /\ WorldInv
  /\ handler = [c \in Conns |-> handler[c]]
  /\ \A c \in Conns: HandlerInv(world, handler[c])
  /\ \A c \in Conns: \A p \in handler[c].starting: p.conn = c
  /\ \A p \in processes: p.conn \in Conns /\ Launched(world, handler[p.conn], p)

\* A world, loaded.
LEMMA WorldFacts ==
  ASSUME WorldInv
  PROVE  /\ world.cfg \in ConfigType
         /\ world.cfg.forcedCommand = TrimSpace(world.cfg.forcedCommand)
         /\ \A pwd \in world.passwd:
              /\ world.files[pwd.uid] \in Seq(FileType)
              /\ world.after[pwd.uid] \in Seq(FileType)
              /\ Len(world.after[pwd.uid]) = Len(world.files[pwd.uid])
              /\ Len(world.files[pwd.uid]) > 0
         /\ \A r \in world.requests: DOMAIN r = {"kind", "command", "pty", "environment"}
  <1>1. PICK w \in Worlds: world = [w EXCEPT !.cfg = LoadServer(@)]
    BY DEF WorldInv
  <1>2. /\ world.cfg = LoadServer(w.cfg) /\ world.passwd = w.passwd
        /\ world.files = w.files /\ world.after = w.after /\ world.requests = w.requests
    BY <1>1, WorldsAssumption DEF WorldFields
  <1>3. w.cfg \in ConfigType
    BY WorldsAssumption
  <1>4. w.cfg.forcedCommand \in CommandType
    BY <1>3 DEF ConfigType
  <1>5. /\ LoadServer(w.cfg).forcedCommand = TrimSpace(w.cfg.forcedCommand)
        /\ LoadServer(w.cfg) \in ConfigType
    BY <1>3, <1>4, TrimFacts DEF LoadServer, ConfigType
  <1>6. TrimSpace(TrimSpace(w.cfg.forcedCommand)) = TrimSpace(w.cfg.forcedCommand)
    BY <1>4, TrimFacts
  <1> QED
    BY <1>2, <1>5, <1>6, WorldsAssumption

\* A process that is tied to the credentials of its connection is permitted.
LEMMA LaunchedIsAuthorized ==
  ASSUME WorldInv, NEW p, Launched(world, handler[p.conn], p)
  PROVE  \E pwd \in world.passwd:
           /\ pwd.name = handler[p.conn].client.user
           /\ KeyPermits(p, pwd)
           /\ ConfigPermits(p, world.cfg)
           /\ AccountOf(p, pwd)
           /\ EnvironmentPermitted(p, pwd, world.cfg)
  <1> DEFINE h == handler[p.conn]
             key == h.client.key
             cfg == world.cfg
             perms == h.credentials.permissions
             last == h.read[Len(h.read)]
  <1>1. /\ Resolved(world, h) /\ h.read \in Seq(FileType) /\ Unmatched(h, Len(h.read) - 1)
        /\ h.credentials \in AuthorizeConnection(cfg, h.account, h.read, key)
        /\ p.request \in world.requests /\ p.spec \in Start(h.credentials, p.request)
    BY DEF Launched, Granted
  <1>2. /\ cfg \in ConfigType /\ cfg.forcedCommand = TrimSpace(cfg.forcedCommand)
        /\ DOMAIN p.request = {"kind", "command", "pty", "environment"}
    BY <1>1, WorldFacts
  <1>3. PICK pwd \in world.passwd:
          /\ pwd.name = h.client.user
          /\ h.account = [username |-> pwd.name, uid |-> pwd.uid, gid |-> pwd.gid,
                          groups |-> lookupSupplementaryGroups(pwd.groups, pwd.gid),
                          home |-> pwd.home, shell |-> pwd.shell]
    BY <1>1 DEF Resolved, Resolve
  <1> HIDE DEF h, cfg
  <1>4. PICK k \in matchAuthorizedKey(h.read, h.account, key):
          /\ h.credentials.account = h.account
          /\ perms.allowShell = cfg.allowShell /\ perms.allowExec = cfg.allowExec
          /\ perms.environment = cfg.environment
          /\ perms.allowPTY => cfg.allowPTY /\ ~k.noPTY
          /\ cfg.forcedCommand # NoCommand => perms.forcedCommand = cfg.forcedCommand
          /\ k.forcedCommand # NoCommand =>
               perms.forcedCommand = TrimSpace(k.forcedCommand)
    BY <1>1, <1>2, GrantFacts
  <1>5. /\ p.spec.uid = h.account.uid /\ p.spec.gid = h.account.gid
        /\ p.spec.groups = h.account.groups
        /\ p.spec.executable = h.account.shell /\ p.spec.directory = h.account.home
        /\ p.spec.trusted = TrustedEnvironment(h.account)
        /\ DOMAIN p.spec.requested \subseteq perms.environment \ ProtectedEnvironment
        /\ p.spec.pty = p.request.pty /\ (p.spec.pty # NoPTY => perms.allowPTY)
        /\ p.request.kind = "shell" => perms.allowShell
        /\ p.request.kind = "exec" => perms.allowExec
        /\ perms.forcedCommand # NoCommand =>
             p.spec.argv = <<"shell", "-c", perms.forcedCommand.text>>
        /\ \/ p.spec.argv = <<"-shell">>
           \/ \E text: p.spec.argv = <<"shell", "-c", text>>
    <2> DEFINE account == h.credentials.account
    <2>1. /\ p.spec.uid = account.uid /\ p.spec.gid = account.gid
          /\ p.spec.groups = account.groups
          /\ p.spec.executable = account.shell /\ p.spec.directory = account.home
          /\ p.spec.trusted = TrustedEnvironment(account)
          /\ DOMAIN p.spec.requested \subseteq perms.environment \ ProtectedEnvironment
          /\ p.spec.pty = p.request.pty /\ (p.spec.pty # NoPTY => perms.allowPTY)
          /\ p.request.kind = "shell" => perms.allowShell
          /\ p.request.kind = "exec" => perms.allowExec
          /\ perms.forcedCommand # NoCommand =>
               p.spec.argv = <<"shell", "-c", perms.forcedCommand.text>>
          /\ \/ p.spec.argv = <<"-shell">>
             \/ \E text: p.spec.argv = <<"shell", "-c", text>>
      <3>1. StartsAs(h.credentials, p.request, p.spec)
        BY <1>1, <1>2, StartFacts
      <3> QED
        BY <3>1, Zenon DEF StartsAs
    <2>2. account = h.account
      BY <1>4
    <2> HIDE DEF account, perms
    <2> QED
      BY <2>1, <2>2, Zenon
  <1>6. /\ h.account.uid = pwd.uid /\ h.account.gid = pwd.gid
        /\ h.account.groups = lookupSupplementaryGroups(pwd.groups, pwd.gid)
        /\ h.account.home = pwd.home /\ h.account.shell = pwd.shell
        /\ h.account.username = pwd.name
    BY <1>3
  <1>7. AccountOf(p, pwd)
    BY <1>5, <1>6 DEF AccountOf, lookupSupplementaryGroups
  <1>8. ConfigPermits(p, cfg)
    <2>1. cfg.forcedCommand # NoCommand => Runs(p, cfg.forcedCommand)
      BY <1>4, <1>5 DEF Runs
    <2>2. \A text: Len(<<"shell", "-c", text>>) = 3
      OBVIOUS
    <2>3. p.spec.argv = <<"-shell">> \/ Len(p.spec.argv) = 3
      BY <1>5, <2>2, Zenon
    <2> QED
      BY <1>4, <1>5, <2>1, <2>3 DEF ConfigPermits
  <1>9. EnvironmentPermitted(p, pwd, cfg)
    <2>1. /\ p.spec.trusted["HOME"] = pwd.home.text /\ p.spec.trusted["SHELL"] = pwd.shell.text
          /\ p.spec.trusted["USER"] = pwd.name /\ p.spec.trusted["LOGNAME"] = pwd.name
          /\ p.spec.trusted["PATH"] = "trustedPath"
          /\ DOMAIN p.spec.trusted = {"HOME", "USER", "LOGNAME", "SHELL", "PATH"}
      BY <1>5, <1>6 DEF TrustedEnvironment
    <2>2. /\ DOMAIN Environment(p.spec) = DOMAIN p.spec.trusted \cup DOMAIN p.spec.requested
          /\ \A n \in DOMAIN p.spec.trusted \ DOMAIN p.spec.requested:
               Environment(p.spec)[n] = p.spec.trusted[n]
      BY DEF Environment
    <2>3. \A n \in DOMAIN p.spec.requested:
            n \in cfg.environment /\ n \notin {"HOME", "USER", "LOGNAME", "SHELL", "PATH"}
      BY <1>4, <1>5 DEF ProtectedEnvironment
    <2> QED
      BY <2>1, <2>2, <2>3 DEF EnvironmentPermitted
  <1>10. /\ h.read # <<>> /\ OwnFile(last, pwd.uid)
         /\ \A j \in 1..Len(h.read): KeysRead(h.read[j], h.account, key) # "error"
         /\ \E n \in DOMAIN last.lines:
              /\ Ed25519(last.lines[n]) /\ last.lines[n].key = key
              /\ \A m \in 1..(n - 1): ~(Ed25519(last.lines[m]) /\ last.lines[m].key = key)
              /\ OptionsValid(last.lines[n]) /\ last.lines[n] \in LineType
              /\ k \in parseAuthorizedKeyConstraints(last.lines[n])
    BY <1>1, <1>4, <1>6, MatchFacts
  <1>11. PICK n \in DOMAIN last.lines:
           /\ Ed25519(last.lines[n]) /\ last.lines[n].key = key
           /\ \A m \in 1..(n - 1): ~(Ed25519(last.lines[m]) /\ last.lines[m].key = key)
           /\ OptionsValid(last.lines[n]) /\ last.lines[n] \in LineType
           /\ k \in parseAuthorizedKeyConstraints(last.lines[n])
    BY <1>10
  <1>12. LinePermits(last.lines[n], p)
    <2> DEFINE line == last.lines[n]
    <2> HIDE DEF line, last
    <2>1. /\ OptionNames(line) \subseteq {"command", "no-pty", "restrict"}
          /\ "command" \in OptionNames(line) =>
               ForcedBy(line) \in CommandType /\ ~Blank(ForcedBy(line))
      BY <1>11, LineOptions DEF line
    <2>2. /\ k.forcedCommand = ForcedBy(line)
          /\ k.noPTY = (OptionNames(line) \cap {"no-pty", "restrict"} # {})
      BY <1>11 DEF parseAuthorizedKeyConstraints, Fail, line
    <2>3. ASSUME "command" \in OptionNames(line) PROVE Runs(p, ForcedBy(line))
      <3>1. ForcedBy(line) \in CommandType /\ ~Blank(ForcedBy(line))
        BY <2>1, <2>3
      <3>2. ForcedBy(line) # NoCommand
        <4> DEFINE command == ForcedBy(line)
        <4> HIDE DEF command
        <4> SUFFICES ASSUME command = NoCommand PROVE Blank(command)
          BY <3>1 DEF command
        <4>1. command \in CommandType
          BY <3>1 DEF command
        <4>2. NoCommand.padded = FALSE
          BY DEF NoCommand
        <4>3. command \in CommandType /\ command.padded = FALSE
          BY <4>1, <4>2, Zenon
        <4>4. TrimSpace(command) = command
          BY <4>3 DEF TrimSpace, CommandType
        <4> QED
          BY <4>4 DEF Blank
      <3>3. /\ perms.forcedCommand = TrimSpace(ForcedBy(line))
            /\ TrimSpace(ForcedBy(line)) # NoCommand
        BY <1>4, <2>2, <3>1, <3>2 DEF Blank
      <3>4. TrimSpace(ForcedBy(line)).text = ForcedBy(line).text
        BY <3>1, TrimFacts
      <3> QED
        BY <1>5, <3>3, <3>4 DEF Runs
    <2>4. p.spec.pty # NoPTY => {"no-pty", "restrict"} \cap OptionNames(line) = {}
      BY <1>4, <1>5, <2>2
    <2> QED
      BY <2>1, <2>3, <2>4 DEF LinePermits, line
  <1>13. ASSUME NEW j \in 1..(Len(h.read) - 1)
         PROVE  \/ \E m \in DOMAIN h.read[j].path: h.read[j].path[m].kind = "missing"
                \/ OwnFile(h.read[j], pwd.uid) /\ ~HasKey(h.read[j], key)
    <2> DEFINE file == h.read[j]
    <2>1. file \in FileType /\ j \in 1..Len(h.read)
      BY <1>1
    <2>2. KeysRead(file, h.account, key) \notin {"match", "error"}
      BY <1>1, <1>10, <2>1 DEF Unmatched
    <2> HIDE DEF file
    <2>3. CASE KeysRead(file, h.account, key) = "skip"
      BY <2>1, <2>3, KeysReadFacts DEF file
    <2>4. CASE KeysRead(file, h.account, key) = "other"
      <3>1. OwnFile(file, h.account.uid) /\ MatchKey(Entries(file.lines), key) = Fail
        BY <2>1, <2>4, KeysReadFacts
      <3>2. file.lines \in Seq(LineType)
        BY <2>1 DEF FileType
      <3>3. ~HasKey(file, key)
        BY <3>1, <3>2, FirstLine DEF HasKey
      <3> QED
        BY <1>6, <3>1, <3>3 DEF file
    <2> QED
      BY <2>1, <2>2, <2>3, <2>4, KeysReadFacts
  <1>14. Len(h.read) \in DOMAIN h.read
    BY <1>1, <1>10
  <1>15. KeyPermits(p, pwd)
    BY <1>10, <1>11, <1>12, <1>13, <1>14 DEF KeyPermits, h
  <1> QED
    BY <1>3, <1>7, <1>8, <1>9, <1>15 DEF h, cfg

\* What a step may do to a handler whose processes are to stay as they are.
Follows(h, g) ==
  h.pc \in {"session", "return"} =>
    /\ g.pc \in {"session", "return"}
    /\ g.client = h.client /\ g.account = h.account /\ g.read = h.read
    /\ g.credentials = h.credentials

\* A process stays tied to its connection's credentials.
LEMMA LaunchedStays ==
  ASSUME NEW w, NEW h, NEW g, NEW p, Follows(h, g), Launched(w, h, p)
  PROVE  Launched(w, g, p)
  BY DEF Follows, Launched, Granted, Resolved, Unmatched

\* A step of one handler keeps the invariant.
LEMMA OneHandler ==
  ASSUME LaunchInv, NEW c \in Conns, NEW g,
         handler' = [handler EXCEPT ![c] = g], HandlerInv(world, g), Follows(handler[c], g),
         \A p \in g.starting: p.conn = c,
         UNCHANGED <<world, files, processes>>
  PROVE  LaunchInv'
  <1>1. /\ handler = [d \in Conns |-> handler[d]]
        /\ \A d \in Conns: HandlerInv(world, handler[d])
        /\ \A d \in Conns: \A p \in handler[d].starting: p.conn = d
        /\ \A p \in processes: p.conn \in Conns /\ Launched(world, handler[p.conn], p)
        /\ WorldInv
    BY DEF LaunchInv
  <1>2. /\ handler' = [d \in Conns |-> handler'[d]] /\ handler'[c] = g
        /\ \A d \in Conns \ {c}: handler'[d] = handler[d]
    BY <1>1
  <1>3. WorldInv'
    BY <1>1 DEF WorldInv
  <1>4. ASSUME NEW d \in Conns PROVE HandlerInv(world', handler'[d])
    <2>1. CASE d = c
      BY <1>2, <2>1
    <2>2. CASE d # c
      BY <1>1, <1>2, <2>2
    <2> QED
      BY <2>1, <2>2
  <1>5. \A d \in Conns: \A p \in handler'[d].starting: p.conn = d
    BY <1>1, <1>2
  <1>6. ASSUME NEW p \in processes
        PROVE  p.conn \in Conns /\ Launched(world', handler'[p.conn], p)
    <2>1. p.conn \in Conns /\ Launched(world, handler[p.conn], p)
      BY <1>1
    <2>2. CASE p.conn = c
      BY <1>2, <2>1, <2>2, LaunchedStays
    <2>3. CASE p.conn # c
      BY <1>2, <2>1, <2>3
    <2> QED
      BY <2>1, <2>2, <2>3
  <1> QED
    BY <1>2, <1>3, <1>4, <1>5, <1>6 DEF LaunchInv

\* A step that only moves a handler on, to a step that asks for no more.
LEMMA GoesOn ==
  ASSUME LaunchInv, NEW c \in Conns, NEW step, Goes(c, step),
         \/ step = "return"
         \/ step = "reject" /\ handler[c].pc \in {"resolve", "readKeys"}
         \/ step = "session" /\ handler[c].pc = "accept",
         UNCHANGED <<world, files, processes>>
  PROVE  LaunchInv'
  <1> DEFINE h == handler[c]
             g == [h EXCEPT !.pc = step]
  <1>1. HandlerInv(world, h) /\ \A p \in h.starting: p.conn = c
    BY DEF LaunchInv
  <1>2. handler' = [handler EXCEPT ![c] = g]
    BY DEF Goes
  <1>3. /\ DOMAIN g = HandlerFields /\ g.pc = step
        /\ g.client = h.client /\ g.account = h.account /\ g.read = h.read
        /\ g.credentials = h.credentials /\ g.starting = h.starting
    BY <1>1 DEF HandlerInv, HandlerFields
  <1> HIDE DEF h, g
  <1>4. Follows(h, g)
    BY <1>3 DEF Follows, h
  <1>5. \A p \in g.starting: Launched(world, g, p)
    BY <1>1, <1>3, <1>4, LaunchedStays DEF HandlerInv
  <1>6. step = "session" => Granted(world, g)
    BY <1>1, <1>3 DEF HandlerInv, Granted, Resolved, Unmatched, h
  <1>7. HandlerInv(world, g)
    BY <1>3, <1>5, <1>6 DEF HandlerInv
  <1> QED
    BY <1>1, <1>2, <1>3, <1>4, <1>7, OneHandler DEF h

\* The facts a handler's step starts from.
LEMMA HandlerFacts ==
  ASSUME LaunchInv, NEW c \in Conns
  PROVE  /\ HandlerInv(world, handler[c]) /\ DOMAIN handler[c] = HandlerFields
         /\ \A p \in handler[c].starting: p.conn = c
         /\ handler[c].pc \notin {"session", "return"} => handler[c].starting = {}
         /\ WorldInv
  BY DEF LaunchInv, HandlerInv, Launched

\* BeginAccept: a new client, of which nothing has been read.
LEMMA BeginAcceptOK ==
  ASSUME LaunchInv, NEW c \in Conns, BeginAccept(c)
  PROVE  LaunchInv'
  <1> DEFINE h == handler[c]
  <1>1. PICK client \in world.clients:
          handler' = [handler EXCEPT ![c].pc = "resolve", ![c].client = client]
    BY DEF BeginAccept
  <1> DEFINE g == [h EXCEPT !.pc = "resolve", !.client = client]
  <1>2. h.pc = "establish" /\ UNCHANGED <<world, files, processes>>
    BY DEF BeginAccept, At
  <1>3. h.starting = {} /\ h.read = <<>> /\ DOMAIN h = HandlerFields
    BY <1>2, HandlerFacts DEF HandlerInv
  <1>4. /\ DOMAIN g = HandlerFields /\ g.pc = "resolve" /\ g.read = <<>> /\ g.starting = {}
    BY <1>3 DEF HandlerFields
  <1>5. handler' = [handler EXCEPT ![c] = g]
    BY <1>1
  <1> HIDE DEF h, g
  <1>6. HandlerInv(world, g) /\ Follows(h, g)
    BY <1>2, <1>4 DEF HandlerInv, Follows
  <1> QED
    BY <1>2, <1>4, <1>5, <1>6, OneHandler DEF h

\* The deadline ends the context, and OpenChannel notes the channel.
LEMMA NotesOK ==
  ASSUME LaunchInv, NEW c \in Conns, AuthTimeout(c) \/ OpenChannel(c)
  PROVE  LaunchInv'
  <1> DEFINE h == handler[c]
  <1>1. UNCHANGED <<world, files, processes>>
    BY DEF AuthTimeout, OpenChannel
  <1>2. PICK g: /\ handler' = [handler EXCEPT ![c] = g]
                /\ g = [h EXCEPT !.ctx = "ended"] \/ g = [h EXCEPT !.channel = TRUE]
    BY DEF AuthTimeout, OpenChannel
  <1>3. HandlerInv(world, h) /\ DOMAIN h = HandlerFields /\ \A p \in h.starting: p.conn = c
    BY HandlerFacts
  <1>4. /\ DOMAIN g = HandlerFields /\ g.pc = h.pc
        /\ g.client = h.client /\ g.account = h.account /\ g.read = h.read
        /\ g.credentials = h.credentials /\ g.starting = h.starting
    BY <1>2, <1>3 DEF HandlerFields
  <1> HIDE DEF h
  <1>5. Follows(h, g)
    BY <1>4 DEF Follows
  <1>6. HandlerInv(world, g)
    <2>1. \A p \in g.starting: Launched(world, g, p)
      BY <1>3, <1>4, <1>5, LaunchedStays DEF HandlerInv
    <2> QED
      BY <1>3, <1>4, <2>1 DEF HandlerInv, Reading, Granted, Resolved, Unmatched
  <1> QED
    BY <1>1, <1>2, <1>3, <1>4, <1>5, <1>6, OneHandler DEF h

\* An account is looked up: a passwd entry of the client's name, or none.
LEMMA ResolveAccountOK ==
  ASSUME LaunchInv, NEW c \in Conns, ResolveAccount(c)
  PROVE  LaunchInv'
  <1> DEFINE h == handler[c]
             found == {a \in Resolve(world.passwd, h.client.user):
                         Alive(c) /\ validateAccount(a)}
  <1>1. /\ h.pc = "resolve" /\ UNCHANGED <<world, files, processes>>
        /\ \/ \E account \in found:
                handler' = [handler EXCEPT ![c].pc = "readKeys", ![c].account = account]
           \/ Goes(c, "reject")
    BY DEF ResolveAccount, At
  <1>2. CASE Goes(c, "reject")
    BY <1>1, <1>2, GoesOn
  <1>3. ASSUME NEW account \in found,
               handler' = [handler EXCEPT ![c].pc = "readKeys", ![c].account = account]
        PROVE  LaunchInv'
    <2> DEFINE g == [h EXCEPT !.pc = "readKeys", !.account = account]
    <2>1. h.starting = {} /\ h.read = <<>> /\ DOMAIN h = HandlerFields /\ WorldInv
      BY <1>1, HandlerFacts DEF HandlerInv
    <2>2. /\ DOMAIN g = HandlerFields /\ g.pc = "readKeys" /\ g.read = <<>>
          /\ g.starting = {} /\ g.account = account /\ g.client = h.client
      BY <2>1 DEF HandlerFields
    <2>3. handler' = [handler EXCEPT ![c] = g]
      BY <1>3
    <2>4. account \in Resolve(world.passwd, h.client.user)
      BY <1>3
    <2>5. \E pwd \in world.passwd: account.uid = pwd.uid
      BY <2>4 DEF Resolve
    <2>6. Len(world.files[account.uid]) > 0
      BY <2>1, <2>5, WorldFacts
    <2> HIDE DEF h, g
    <2>7. Reading(world, g)
      <3>1. Len(<<>>) = 0 /\ <<>> \in Seq(FileType)
        OBVIOUS
      <3> QED
        BY <2>2, <2>4, <2>6, <3>1 DEF Reading, Resolved, Unmatched
    <2>8. HandlerInv(world, g) /\ Follows(h, g)
      BY <1>1, <2>2, <2>7 DEF HandlerInv, Follows, h
    <2> QED
      BY <1>1, <2>2, <2>3, <2>8, OneHandler DEF h
  <1> QED
    BY <1>1, <1>2, <1>3

\* One more file is read, as it is now.
LEMMA ReadKeysOK ==
  ASSUME LaunchInv, NEW c \in Conns, ReadKeys(c)
  PROVE  LaunchInv'
  <1> DEFINE h == handler[c]
             mine == files[h.account.uid]
             read == Append(h.read, mine[Len(h.read) + 1])
             ends == MatchEnds(Len(mine), read, h.account, h.client.key)
             granted == AuthorizeConnection(world.cfg, h.account, read, h.client.key)
  <1>1. /\ h.pc = "readKeys" /\ UNCHANGED <<world, files, processes>>
        /\ \/ Goes(c, "reject")
           \/ ~ends /\ handler' = [handler EXCEPT ![c].read = read]
           \/ handler' = [handler EXCEPT ![c].pc = "reject", ![c].read = read]
           \/ \E credentials \in granted:
                handler' = [handler EXCEPT ![c].pc = "accept", ![c].read = read,
                                           ![c].credentials = credentials]
    BY DEF ReadKeys, At
  <1>2. /\ h.starting = {} /\ DOMAIN h = HandlerFields /\ WorldInv /\ Reading(world, h)
    BY <1>1, HandlerFacts DEF HandlerInv
  <1>3. \E pwd \in world.passwd: h.account.uid = pwd.uid
    BY <1>2 DEF Reading, Resolved, Resolve
  <1>4. mine \in Seq(FileType) /\ Len(mine) = Len(world.files[h.account.uid])
    BY <1>2, <1>3, WorldFacts DEF WorldInv
  <1> HIDE DEF mine
  <1>5. /\ h.read \in Seq(FileType) /\ Len(h.read) < Len(mine)
        /\ \A i \in 1..Len(h.read): KeysRead(h.read[i], h.account, h.client.key) # "match"
    BY <1>2, <1>4 DEF Reading, Unmatched
  <1>6. mine[Len(h.read) + 1] \in FileType
    BY <1>4, <1>5
  <1>7. /\ read \in Seq(FileType) /\ Len(read) = Len(h.read) + 1 /\ read # <<>>
        /\ \A i \in 1..Len(h.read): read[i] = h.read[i]
    BY <1>5, <1>6
  <1>8. Resolved(world, h)
    BY <1>2 DEF Reading
  <1>9. Len(h.read) \in Nat /\ Len(mine) \in Nat
    BY <1>4, <1>5
  <1> HIDE DEF read
  <1>10. CASE Goes(c, "reject")
    BY <1>1, <1>10, GoesOn
  <1>11. CASE ~ends /\ handler' = [handler EXCEPT ![c].read = read]
    <2> DEFINE g == [h EXCEPT !.read = read]
    <2>1. /\ DOMAIN g = HandlerFields /\ g.pc = "readKeys" /\ g.read = read
          /\ g.starting = {} /\ g.account = h.account /\ g.client = h.client
      BY <1>1, <1>2 DEF HandlerFields
    <2>2. handler' = [handler EXCEPT ![c] = g]
      BY <1>11
    <2> HIDE DEF h, g
    <2>3. Len(read) # Len(mine) /\ KeysRead(read[Len(read)], h.account, h.client.key) # "match"
      BY <1>7, <1>11 DEF MatchEnds
    <2>4. Len(read) < Len(mine)
      BY <1>5, <1>7, <1>9, <2>3
    <2>5. \A i \in 1..Len(read): i \in 1..Len(h.read) \/ i = Len(read)
      BY <1>7, <1>9
    <2>6. Unmatched(g, Len(read))
      BY <1>5, <1>7, <2>1, <2>3, <2>5 DEF Unmatched
    <2>7. Reading(world, g)
      BY <1>4, <1>7, <1>8, <2>1, <2>4, <2>6 DEF Reading, Resolved
    <2>8. HandlerInv(world, g) /\ Follows(h, g)
      BY <1>1, <2>1, <2>7 DEF HandlerInv, Follows
    <2> QED
      BY <1>1, <2>1, <2>2, <2>8, OneHandler DEF h
  <1>12. CASE handler' = [handler EXCEPT ![c].pc = "reject", ![c].read = read]
    <2> DEFINE g == [h EXCEPT !.pc = "reject", !.read = read]
    <2>1. DOMAIN g = HandlerFields /\ g.pc = "reject" /\ g.starting = {}
      BY <1>2 DEF HandlerFields
    <2>2. handler' = [handler EXCEPT ![c] = g]
      BY <1>12
    <2> HIDE DEF h, g
    <2>3. HandlerInv(world, g) /\ Follows(h, g)
      BY <1>1, <2>1 DEF HandlerInv, Follows
    <2> QED
      BY <1>1, <2>1, <2>2, <2>3, OneHandler DEF h
  <1>13. ASSUME NEW credentials \in granted,
                handler' = [handler EXCEPT ![c].pc = "accept", ![c].read = read,
                                           ![c].credentials = credentials]
         PROVE  LaunchInv'
    <2> DEFINE g == [h EXCEPT !.pc = "accept", !.read = read, !.credentials = credentials]
    <2>1. /\ DOMAIN g = HandlerFields /\ g.pc = "accept" /\ g.read = read
          /\ g.starting = {} /\ g.account = h.account /\ g.client = h.client
          /\ g.credentials = credentials
      BY <1>2 DEF HandlerFields
    <2>2. handler' = [handler EXCEPT ![c] = g]
      BY <1>13
    <2>3. credentials \in AuthorizeConnection(world.cfg, h.account, read, h.client.key)
      BY <1>13
    <2> HIDE DEF h, g
    <2>4. Len(read) - 1 = Len(h.read)
      BY <1>7, <1>9
    <2>5. Unmatched(g, Len(read) - 1)
      BY <1>5, <1>7, <2>1, <2>4 DEF Unmatched
    <2>6. Granted(world, g)
      BY <1>7, <1>8, <2>1, <2>3, <2>5 DEF Granted, Resolved
    <2>7. HandlerInv(world, g) /\ Follows(h, g)
      BY <1>1, <2>1, <2>6 DEF HandlerInv, Follows
    <2> QED
      BY <1>1, <2>1, <2>2, <2>7, OneHandler DEF h
  <1> QED
    BY <1>1, <1>10, <1>11, <1>12, <1>13

\* A command is to be started with the credentials of its connection.
LEMMA StartCommandOK ==
  ASSUME LaunchInv, NEW c \in Conns, StartCommand(c)
  PROVE  LaunchInv'
  <1> DEFINE h == handler[c]
  <1>1. PICK request \in world.requests: \E spec \in Start(h.credentials, request):
          handler' = [handler EXCEPT ![c].starting =
                        {[conn |-> c, request |-> request, spec |-> spec]}]
    BY DEF StartCommand
  <1>2. PICK spec \in Start(h.credentials, request):
          handler' = [handler EXCEPT ![c].starting =
                        {[conn |-> c, request |-> request, spec |-> spec]}]
    BY <1>1
  <1> DEFINE p == [conn |-> c, request |-> request, spec |-> spec]
             g == [h EXCEPT !.starting = {p}]
  <1>3. h.pc = "session" /\ UNCHANGED <<world, files, processes>>
    BY DEF StartCommand, At
  <1>4. HandlerInv(world, h) /\ DOMAIN h = HandlerFields /\ Granted(world, h)
    BY <1>3, HandlerFacts DEF HandlerInv
  <1>5. /\ DOMAIN g = HandlerFields /\ g.pc = "session"
        /\ g.client = h.client /\ g.account = h.account /\ g.read = h.read
        /\ g.credentials = h.credentials /\ g.starting = {p}
    BY <1>3, <1>4 DEF HandlerFields
  <1>6. handler' = [handler EXCEPT ![c] = g]
    BY <1>2
  <1>7. p.conn = c /\ p.request = request /\ p.spec = spec
    OBVIOUS
  <1>8. spec \in Start(h.credentials, request)
    BY <1>2
  <1> HIDE DEF h, g, p
  <1>9. Follows(h, g)
    BY <1>5 DEF Follows
  <1>10. Granted(world, g)
    BY <1>4, <1>5 DEF Granted, Resolved, Unmatched
  <1>11. Launched(world, g, p)
    BY <1>5, <1>7, <1>8, <1>10 DEF Launched
  <1>12. HandlerInv(world, g)
    BY <1>5, <1>10, <1>11 DEF HandlerInv
  <1> QED
    BY <1>3, <1>5, <1>6, <1>7, <1>9, <1>12, OneHandler DEF h

\* The runner starts what it was asked for, at any later time.
LEMMA RunnerStartOK ==
  ASSUME LaunchInv, NEW c \in Conns, RunnerStart(c)
  PROVE  LaunchInv'
  <1>1. processes' = processes \cup handler[c].starting /\ UNCHANGED <<world, files, handler>>
    BY DEF RunnerStart
  <1>2. \A p \in handler[c].starting: p.conn = c /\ Launched(world, handler[c], p)
    BY HandlerFacts DEF HandlerInv
  <1>3. \A p \in processes': p.conn \in Conns /\ Launched(world, handler[p.conn], p)
    BY <1>1, <1>2 DEF LaunchInv
  <1> QED
    BY <1>1, <1>3 DEF LaunchInv, WorldInv

\* Editing the files changes nothing of what was read.
LEMMA OtherOK ==
  ASSUME LaunchInv, EditKeys \/ UNCHANGED Unserved
  PROVE  LaunchInv'
  <1>1. UNCHANGED <<world, handler, processes>> /\ files' \in {files, world.after}
    BY DEF EditKeys, Unserved
  <1>2. WorldInv'
    BY <1>1 DEF LaunchInv, WorldInv
  <1> QED
    BY <1>1, <1>2 DEF LaunchInv

\* Every step of the server keeps the processes tied to what was granted.
LEMMA LaunchStep == LaunchInv /\ [Next]_vars => LaunchInv'
  <1> SUFFICES ASSUME LaunchInv, [Next]_vars PROVE LaunchInv'
    OBVIOUS
  <1>1. CASE UNCHANGED vars
    BY <1>1, OtherOK DEF vars, Unserved
  <1>2. CASE DaemonStops \/ AcceptError \/ Interrupt \/ EditKeys
    BY <1>2, OtherOK DEF DaemonStops, AcceptError, Interrupt
  <1>3. ASSUME NEW c \in Conns,
               \/ AdmitConn(c) \/ RefuseConn(c) \/ Return(c) \/ Panic(c) \/ ConnectionEnds(c)
        PROVE  LaunchInv'
    <2>1. UNCHANGED Unserved
      BY <1>3 DEF AdmitConn, RefuseConn, Return, Panic, ConnectionEnds, Unserved
    <2> QED
      BY <2>1, OtherOK
  <1>4. ASSUME NEW c \in Conns,
               BeginAcceptFails(c) \/ Reject(c) \/ Accept(c) \/ SessionEnds(c)
        PROVE  LaunchInv'
    <2>1. /\ UNCHANGED <<world, files, processes>>
          /\ \/ Goes(c, "return")
             \/ Goes(c, "session") /\ handler[c].pc = "accept"
      BY <1>4 DEF BeginAcceptFails, Reject, Accept, SessionEnds, At
    <2> QED
      BY <2>1, GoesOn
  <1>5. ASSUME NEW c \in Conns,
               \/ BeginAccept(c) \/ AuthTimeout(c) \/ ResolveAccount(c) \/ ReadKeys(c)
               \/ OpenChannel(c) \/ StartCommand(c) \/ RunnerStart(c)
        PROVE  LaunchInv'
    BY <1>5, BeginAcceptOK, NotesOK, ResolveAccountOK, ReadKeysOK, StartCommandOK, RunnerStartOK
  <1> QED
    BY <1>1, <1>2, <1>3, <1>4, <1>5 DEF Next

\* Nothing is granted when the server starts.
LEMMA LaunchInit == Init => LaunchInv
  <1> SUFFICES ASSUME Init PROVE LaunchInv
    OBVIOUS
  <1> DEFINE h == [pc |-> "establish", ctx |-> "live", client |-> [user |-> "", key |-> ""],
                   account |-> NoAccount, read |-> <<>>, credentials |-> NoCredentials,
                   channel |-> FALSE, starting |-> {}]
  <1>1. handler = [c \in Conns |-> h] /\ processes = {} /\ files = world.files
    BY DEF Init
  <1>2. \E w \in Worlds: world = [w EXCEPT !.cfg = LoadServer(@)]
    BY DEF Init
  <1>3. DOMAIN h = HandlerFields /\ h.pc = "establish" /\ h.read = <<>> /\ h.starting = {}
    BY DEF HandlerFields
  <1> HIDE DEF h
  <1>4. HandlerInv(world, h)
    BY <1>3 DEF HandlerInv
  <1>5. \A c \in Conns: handler[c] = h
    BY <1>1
  <1> QED
    BY <1>1, <1>2, <1>3, <1>4, <1>5 DEF LaunchInv, WorldInv

(***************************************************************************)
(* Every process the server ever starts is one that the account's own      *)
(* authorized_keys files, as they were read, the first line with the       *)
(* client's key and the configuration permit: for any files and any edit   *)
(* of them, any accounts, configurations, requests and number of           *)
(* connections, and however late the process is started.                   *)
(***************************************************************************)
THEOREM LaunchesPermitted == Spec => []LaunchesAuthorized
  <1>1. LaunchInv => LaunchesAuthorized
    BY LaunchedIsAuthorized DEF LaunchInv, LaunchesAuthorized
  <1> QED
    BY <1>1, LaunchInit, LaunchStep, PTL DEF Spec
=============================================================================
