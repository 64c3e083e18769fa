----------------------------- MODULE OwnerBaton -----------------------------
(***************************************************************************)
(* What connection establishment promises about the network connection:    *)
(* on each side exactly one party owns it, ownership only moves forward,   *)
(* the connection is closed once, by a party that owned it when it acted,  *)
(* and a session that has been handed over is closed by nobody but itself. *)
(* It is the close-owner diagram of FLOW.md, section 2.1.                  *)
(***************************************************************************)
CONSTANT Sides

VARIABLES
  stage,  \* per side: who owns the connection
  closer  \* per side: who closed it

vars == <<stage, closer>>

Init ==
  /\ stage = [p \in Sides |-> "AppSocket"]
  /\ closer = [p \in Sides |-> "nobody"]

Pass(p, from, to) ==
  /\ stage[p] = from
  /\ stage' = [stage EXCEPT ![p] = to]
  /\ UNCHANGED closer

Close(p, by) ==
  /\ stage' = [stage EXCEPT ![p] = "Closed"]
  /\ closer' = [closer EXCEPT ![p] = by]

\* Setup may close the connection up to the hand-over, a session from the
\* moment it is bound.
CloseSetup(p) ==
  /\ stage[p] \in {"EstablishRaw", "EstablishNoise", "SessionBound"}
  /\ Close(p, "establish")
CloseSession(p) ==
  /\ stage[p] \in {"SessionBound", "SessionActive"}
  /\ Close(p, "session")

Next ==
  \E p \in Sides:
    \/ Pass(p, "AppSocket", "EstablishRaw")
    \/ Pass(p, "EstablishRaw", "EstablishNoise")
    \/ Pass(p, "EstablishNoise", "SessionBound")
    \/ Pass(p, "SessionBound", "SessionActive")
    \/ CloseSetup(p)
    \/ CloseSession(p)

Spec == Init /\ [][Next]_vars
=============================================================================
