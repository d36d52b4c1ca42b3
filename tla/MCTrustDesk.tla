----------------------------- MODULE MCTrustDesk -----------------------------
(* Two peers, one of them also spelled in capitals, and no peer at all. *)
EXTENDS TrustDesk, TLC

CONSTANTS r1, r2, tui, cli

MCFingerprint == {"ab", "AB", "cd", ""}
MCCanonical == [f \in MCFingerprint |-> IF f = "AB" THEN "ab" ELSE f]
MCRequest == {r1, r2}
MCOperator == {tui, cli}
Symmetry == Permutations(MCRequest)
MCOffered == {"AB", "cd", ""}
MCNamed == {"ab", ""}
MCInline == {}
MCFileContents == {{}, {"AB"}, Unreadable}
=============================================================================
