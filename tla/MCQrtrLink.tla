------------------------------ MODULE MCQrtrLink ----------------------------
(* QrtrLink with each of the links, and a ring of two packets. *)
EXTENDS QrtrLink
=============================================================================
