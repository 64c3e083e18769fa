---------------------------- MODULE MCEstablish ----------------------------
(***************************************************************************)
(* Deployments for TLC: everything in order with one fault at a time, and  *)
(* one departure at a time without faults.                                 *)
(***************************************************************************)
EXTENDS Establish

Dir == [kind |-> "dir", link |-> FALSE, owner |-> "user", othersRead |-> TRUE,
        othersWrite |-> FALSE, size |-> 0]
File == [Dir EXCEPT !.kind = "file", !.size = KnownHostsMaxSize]

Line(marker, host, key) ==
  [kind |-> "key", algorithm |-> "ed25519", marker |-> marker, key |-> key,
   hosts |-> <<[name |-> host, plain |-> TRUE]>>]
Known(lines) ==
  [path |-> <<[Dir EXCEPT !.link = TRUE], Dir, File>>, lines |-> lines]
Vouched == Known(<<Line("", "elsewhere", "otherKey"),
                   Line("", "server", "hostKey")>>)

InOrder ==
  [oneSession |-> TRUE, sameNoise |-> TRUE, sameVersion |-> TRUE,
   known |-> Vouched, proof |-> TRUE, clogs |-> FALSE, faults |-> {}]

MCDeployments ==
  {[InOrder EXCEPT !.faults = {f}]: f \in Faults}
  \cup {[InOrder EXCEPT !.clogs = TRUE, !.faults = {<<"stop", p>>}]:
          p \in Sides}
  \cup {[InOrder EXCEPT !.oneSession = FALSE],
        [InOrder EXCEPT !.sameNoise = FALSE],
        [InOrder EXCEPT !.sameVersion = FALSE],
        [InOrder EXCEPT !.known.lines =
           Append(@, Line("revoked", "server", "hostKey"))],
        [InOrder EXCEPT !.known.lines = <<Line("", "server", "otherKey"),
           Line("", "elsewhere", "hostKey")>>],
        [InOrder EXCEPT !.known.path[2].othersWrite = TRUE],
        [InOrder EXCEPT !.known.lines[1].hosts[1].plain = FALSE],
        [InOrder EXCEPT !.proof = FALSE]}
=============================================================================
