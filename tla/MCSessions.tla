----------------------------- MODULE MCSessions -----------------------------
(* Two requests at a time, of devices that share a limit of one.           *)
EXTENDS Sessions, TLC

CONSTANTS d1, d2, j1, j2

MCDevice == {d1, d2}
MCJob == {j1, j2}
MCOneDevice == {d1}
MCOneJob == {j1}
Symmetry == {p @@ q : p \in Permutations(MCDevice), q \in Permutations(MCJob)}
=============================================================================
