----------------------------- MODULE MCQrtrNode -----------------------------
(* QrtrNode on small instances: see the cfg files.  The two endpoints are  *)
(* in clusters far enough apart for packets to be forwarded between them.  *)
EXTENDS QrtrNode, TLC

CONSTANTS e1, e2, u1, u2, o1, o2

FarApart == [e \in Eps |-> IF e = e1 THEN 1 ELSE 3]
Symmetry == Permutations({o1, o2})
=============================================================================
