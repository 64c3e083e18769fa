------------------------------ MODULE ByteSum ------------------------------
(***************************************************************************)
(* The total of a function of naturals: the bytes a queue of frames holds, *)
(* the bytes a set of callers has reserved. The bytes are counted one by   *)
(* one, as the pairs <<x, b>> with b \in 1..f[x], so that what an update   *)
(* of the function does to its total follows from the theorems about the   *)
(* cardinality of finite sets (ByteSum_proofs) with no induction.          *)
(***************************************************************************)
EXTENDS Naturals, FiniteSets

BytesAt(f, x) == {x} \X (1..f[x])

ByteSet(f) == UNION {BytesAt(f, x) : x \in DOMAIN f}

Total(f) == Cardinality(ByteSet(f))
=============================================================================
