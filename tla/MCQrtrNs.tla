------------------------------ MODULE MCQrtrNs ------------------------------
(* QrtrNs on two nodes: a provider of two services on node 1, which share  *)
(* its port, and an observer of one of them on node 2.                     *)
EXTENDS QrtrNs

OneProvider == {<<1, 1>>}
OneObserver == {<<2, 2>>}
TwoServices == {<<5, 1>>, <<6, 1>>}
SomeQueries == {<<5, 0>>}

Underway ==
    Len(ctrlq[1]) + Len(ctrlq[2]) + Len(chan[1][2]) + Len(chan[2][1])
        + Len(backlog[1][2]) + Len(backlog[2][1])

Irregularities == failed + dropped + missed + raced + replaced

(* Bound: a behaviour is followed up to the second kind of irregularity,   *)
(* and while at most four messages are under way, one less with the        *)
(* observer open, one less after a race and two less after a failure.      *)
Bounded ==
    /\ Irregularities <= 1
    /\ Underway + Cardinality(open \cap Observers)
           + raced + 2 * (failed + dropped + missed + replaced) <= 4
=============================================================================
