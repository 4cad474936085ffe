----------------------------- MODULE MCQrtrFlow -----------------------------
(* QrtrFlow on small instances: see the cfg files. *)
EXTENDS QrtrFlow

CONSTANTS s1, s2
=============================================================================
