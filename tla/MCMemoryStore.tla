------------------------------ MODULE MCMemoryStore ------------------------------
(***************************************************************************)
(* Contents a, b and c are pairwise near, a and b with one signature; d    *)
(* and e have the same embedding (the words in another order) and nothing  *)
(* in common with the others.                                              *)
(***************************************************************************)
EXTENDS MemoryStore

Contents == {"a", "b", "c", "d", "e"}
Family(x) == IF x \in {"a", "b", "c"} THEN 1 ELSE 2

Signature == [x \in Contents |-> IF x \in {"a", "b"} THEN "ab" ELSE x]

Similarity ==
    [p \in Contents \X Contents |->
        IF p[1] = p[2] \/ {p[1], p[2]} = {"d", "e"} THEN 2
        ELSE IF Family(p[1]) = Family(p[2]) THEN 1 ELSE 0]
=============================================================================
