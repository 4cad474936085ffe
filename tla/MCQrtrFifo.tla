----------------------------- MODULE MCQrtrFifo -----------------------------
(* QrtrFifo on small rings: see the cfg files. *)
EXTENDS QrtrFifo
=============================================================================
