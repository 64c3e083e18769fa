----------------------------- MODULE SessionIds -----------------------------
(***************************************************************************)
(* Where a session keeps the ids of the peer's requests: IncomingInv, the  *)
(* inductive invariant behind SessionCore's IncomingAccounted. It gives    *)
(* every id one place, so that the step that frees an id leaves no second  *)
(* request or answer of that id behind.                                    *)
(***************************************************************************)
EXTENDS SessionCore

\* A frame of a kind; of the requests, one that asks for an answer.
Marks(m, kind, asks) == m.kind = kind /\ (asks => m.reply)

\* The ids of these frames in a queue.
Ids(q, kind, asks) == {q[i].id : i \in {j \in DOMAIN q : Marks(q[j], kind, asks)}}

\* No two of them have the same id.
Once(q, kind, asks) ==
    \A i, j \in DOMAIN q :
       Marks(q[i], kind, asks) /\ Marks(q[j], kind, asks) /\ q[i].id = q[j].id => i = j

(***************************************************************************)
(* Every id of S has one place: its request is queued (A) or handled (H),  *)
(* its rejection is queued (B) or being written (V). The requests still on *)
(* the wire have other ids (P), and no id is past the counter n.           *)
(***************************************************************************)
Apart(S, A, H, B, V, P, n) ==
    /\ S = A \cup H \cup B \cup V
    /\ A \cap H = {} /\ A \cap B = {} /\ A \cap V = {}
    /\ H \cap B = {} /\ H \cap V = {} /\ B \cap V = {}
    /\ P \cap S = {}
    /\ S \subseteq Nat /\ P \subseteq Nat
    /\ \A i \in S \cup P : i <= n

(***************************************************************************)
(* The reply that "who" waits for at "queued": it is in the queue q or it  *)
(* is the write w, only once, answers the request that is handled, and was *)
(* not taken back.                                                         *)
(***************************************************************************)
OneReply(who, H, at, w, q) ==
    /\ w.waits = who => at = "queued" /\ H = {w.id}
    /\ \A i \in DOMAIN q : q[i].waits = who =>
          at = "queued" /\ H = {q[i].id} /\ ~q[i].canceled /\ w.waits # who
    /\ \A i, j \in DOMAIN q : q[i].waits = who /\ q[j].waits = who => i = j

\* The id of a rejection that the writer is sending.
Rejected(res, who, w) == Handled(w.kind = res /\ w.waits # who, w.id)

(***************************************************************************)
(* The ids S of the requests of kind "ask", with the queue Q of requests,  *)
(* the request H that "who" handles at a place, the queues C and O of the  *)
(* writer and its write w, the wire R and the counter n.                   *)
(***************************************************************************)
Account(S, Q, H, at, C, w, O, R, n, ask, res, who) ==
    /\ Once(R, ask, TRUE) /\ Once(Q, ask, TRUE) /\ Once(C, res, FALSE)
    /\ OneReply(who, H, at, w, O)
    /\ Apart(S, Ids(Q, ask, TRUE), H, Ids(C, res, FALSE), Rejected(res, who, w),
             Ids(R, ask, TRUE), n)

GlobalHandled ==
    Handled(dispatcher.at \in {"handling", "queued"} /\ dispatcher.reply, dispatcher.id)
ChannelHandled ==
    Handled(worker.at \in {"handling", "queued"} /\ worker.ev.reply, worker.ev.id)

GlobalAccount ==
    Account(incomingGlobal, dispatchQueue, GlobalHandled, dispatcher.at, control,
            writer.msg, outbound, wire, env.sent, "globalRequest", "globalResult",
            "dispatcher")

ChannelAccount ==
    Account(ch.incoming, ch.events, ChannelHandled, worker.at, control, writer.msg,
            outbound, wire, env.sent, "channelRequest", "channelResult", "worker")

\* Only a request asks for an answer.
WellAsked(m) == m.reply => m.kind \in RequestKinds
OnlyRequestsAsk ==
    /\ \A i \in DOMAIN wire : WellAsked(wire[i])
    /\ \A i \in DOMAIN ch.events : WellAsked(ch.events[i])
    /\ WellAsked(worker.ev)

IncomingInv ==
    /\ OnlyRequestsAsk
    /\ down = "no" => GlobalAccount /\ ChannelAccount

=============================================================================
