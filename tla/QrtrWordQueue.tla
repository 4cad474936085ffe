---------------------------- MODULE QrtrWordQueue ---------------------------
(***************************************************************************)
(* What a shared-memory ring of QRTR promises its two sides, with no       *)
(* indices, wrap-around or reserve: a bounded queue of words, each a pair  *)
(* <<packet, index in it>>.  The sender appends, the receiver takes from   *)
(* the front, a restart empties it, and nothing else ever happens to a     *)
(* word between being written and read.                                    *)
(***************************************************************************)
EXTENDS Integers, Sequences

CONSTANT Cap      \* how many words the queue holds

VARIABLE q

Init == q = <<>>

(* n words of one packet, one after the other, from w on. *)
Run(w, n) == [j \in 1..n |-> <<w[1], w[2] + j - 1>>]

(* A run of words is appended behind those that are there. *)
Put ==
    /\ Len(q) < Len(q') /\ Len(q') <= Cap
    /\ q' = q \o Run(q'[Len(q) + 1], Len(q') - Len(q))

(* The first n words are taken. *)
Get == \E n \in 1..Len(q) : q' = SubSeq(q, n + 1, Len(q))

(* Everything is dropped. *)
Reset == q' = <<>>

Next == Put \/ Get \/ Reset

Spec == Init /\ [][Next]_q
=============================================================================
