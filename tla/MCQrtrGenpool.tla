---------------------------- MODULE MCQrtrGenpool ---------------------------
(* QrtrGenpool with packets that fit the ring and ones that are longer     *)
(* than the length field of their header.                                  *)
EXTENDS QrtrGenpool

Once(b) == IF b THEN 1 ELSE 0

(* Bound: a behaviour is followed until the third irregularity, a reboot   *)
(* and a removal among them.                                               *)
TwoIrregularities ==
    lone + wrapped + torn + failed + crashed + Once(bpc # "idle") + Once(mpc # "idle") <= 2
=============================================================================
