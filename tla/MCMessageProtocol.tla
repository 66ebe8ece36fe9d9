----------------------------- MODULE MCMessageProtocol -----------------------------
(***************************************************************************)
(* All long values begin alike and have one length: they share a summary.  *)
(* A short value and the later part of one long value read like statements *)
(* about a status; the other long value and the summary do not.            *)
(***************************************************************************)
EXTENDS MessageProtocol, TLC

CONSTANTS Digest, Talkative

SameSummary == [v \in Long |-> Digest]

SomeTalk ==
    [v \in Short \cup Long \cup {Digest} |->
        CASE v \in Short -> "timeout" [] v = Talkative -> "error" [] OTHER -> None]
\* The exchanges differ in nothing but their names.
Symmetry == Permutations(Exchange)
=============================================================================
