---------------------------- MODULE MCQrtrDuplex ----------------------------
(* QrtrDuplex with one socket on either side: see the cfg file. *)
EXTENDS QrtrDuplex

CONSTANTS s1, r
=============================================================================
