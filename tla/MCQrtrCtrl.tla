----------------------------- MODULE MCQrtrCtrl -----------------------------
(* QrtrCtrl with one neighbour and one local sender: see the cfg file. *)
EXTENDS QrtrCtrl

CONSTANTS n1, l1
=============================================================================
