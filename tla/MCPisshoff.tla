----------------------------- MODULE MCPisshoff -----------------------------
(* Model-checking instances of Pisshoff: two connections and two         *)
(* passwords, or three connections racing on one password.               *)
EXTENDS Pisshoff, TLC

CONSTANTS c1, c2, c3, p1, p2

MCConn == {c1, c2}
MCPassword == {p1, p2}

MCConn3 == {c1, c2, c3}
MCPassword1 == {p1}

\* Connections and passwords are interchangeable in every definition.
MCSymmetry == Permutations(MCConn) \cup Permutations(MCPassword)

MCSymmetry3 == Permutations(MCConn3)

=============================================================================
