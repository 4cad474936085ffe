----------------------------- MODULE QrtrDuplex -----------------------------
(***************************************************************************)
(* Two sockets that send to each other: the flow of QrtrFlow from Senders  *)
(* to a remote socket, composed with the flow in the opposite direction,   *)
(* whose only sender is that remote socket and whose receiver is one of    *)
(* the Senders, Local.  The link is one.                                   *)
(*                                                                         *)
(* What couples the two is lock_sock(): qrtr_sendmsg() holds it from its   *)
(* start to its end, the sleep in qrtr_tx_wait() included, and             *)
(* qrtr_recvmsg() takes it before it confirms a message.  So a socket does *)
(* not answer confirm_rx as long as one of its threads sleeps in sendmsg().*)
(* Readers take what they read: peeking is left to QrtrFlow.               *)
(***************************************************************************)
EXTENDS QrtrFlow

CONSTANTS
    Local,      \* the socket of Senders that the remote socket sends to
    Remote      \* the remote socket

ASSUME DuplexAssumption == Local \in Senders /\ Remote \notin Senders

VARIABLES flowB, pendingB, txFailedB, waitersB, pcB, inboxB, wireB, rxqB, rsockB,
          resumesB, straysB, lostB     \* as in QrtrFlow, of the way back

Back == INSTANCE QrtrFlow WITH
    Senders <- {Remote}, Timed <- {},
    flow <- flowB, pending <- pendingB, txFailed <- txFailedB, waiters <- waitersB,
    pc <- pcB, inbox <- inboxB, wire <- wireB, rxq <- rxqB, rsock <- rsockB,
    resumes <- resumesB, strays <- straysB, lost <- lostB

backVars == <<flowB, pendingB, txFailedB, waitersB, pcB, inboxB, wireB, rxqB, rsockB,
              resumesB, straysB, lostB>>
forthVars == <<flow, pending, txFailed, waiters, pc, inbox, wire, rxq, rsock, resumes,
               strays, lost>>
duplexVars == <<vars, backVars>>

DuplexInit == Init /\ Back!Init

-----------------------------------------------------------------------------
(* qrtr_sendmsg() of a socket on its own flow, the other one untouched. *)
Sends(s) ==
    /\ \/ \E dontwait \in BOOLEAN : SendMsg(s, dontwait)
       \/ SenderStep(s) \/ ReadNotice(s)
    /\ UNCHANGED backVars

SendsBack ==
    /\ \/ \E dontwait \in BOOLEAN : Back!SendMsg(Remote, dontwait)
       \/ Back!SenderStep(Remote) \/ Back!ReadNotice(Remote)
    /\ UNCHANGED forthVars

(* Mutant: a wait that ran out of time is started again. *)
TimesOut_Again(s) ==
    /\ pc[s] = "sleep" /\ s \in Timed
    /\ pc' = [pc EXCEPT ![s] = "wait"]
    /\ UNCHANGED <<flowVars, remoteVars, ep, inbox, strays, lost, backVars>>

(* SO_SNDTIMEO of a local sender runs out. *)
TimesOut(s) == Timeout(s) /\ UNCHANGED backVars

(* Transport and kworkers, in both directions. *)
Moves     == (EndpointPost \/ TxResume) /\ UNCHANGED backVars
MovesBack == (Back!EndpointPost \/ Back!TxResume) /\ UNCHANGED forthVars

(* Mutant: the -EAGAIN of a full flow returns with the socket locked. *)
RemoteUnlocked_Leak == pcB[Remote] = "idle" /\ Remote \notin waitersB

(* lock_sock() of the two receivers: is it free? *)
RemoteUnlocked == pcB[Remote] = "idle"

LocalUnlocked == pc[Local] = "idle"

(* qrtr_recvmsg() of the remote socket and of the local one. *)
Reads     == RemoteUnlocked /\ RecvMsg /\ UNCHANGED backVars
ReadsBack == LocalUnlocked /\ Back!RecvMsg /\ UNCHANGED forthVars

(* The endpoints of the link are unregistered on both sides. *)
Unregisters     == Unregister /\ UNCHANGED backVars
UnregistersWake == UnregisterWake /\ Back!UnregisterWake

DuplexNext ==
    \/ \E s \in Senders : Sends(s) \/ TimesOut(s)
    \/ SendsBack
    \/ Moves \/ MovesBack
    \/ Reads \/ ReadsBack
    \/ Unregisters \/ UnregistersWake

(* As in QrtrFlow.  lock_sock() serves its waiters in turn, so a reader    *)
(* that waits for it again and again gets it.                              *)
DuplexSpec ==
    /\ DuplexInit /\ [][DuplexNext]_duplexVars
    /\ \A s \in Senders : WF_duplexVars(SenderStep(s) /\ UNCHANGED backVars)
    /\ WF_duplexVars(Back!SenderStep(Remote) /\ UNCHANGED forthVars)
    /\ WF_duplexVars(Moves) /\ WF_duplexVars(MovesBack)
    /\ SF_duplexVars(Reads) /\ SF_duplexVars(ReadsBack)
    /\ WF_duplexVars(UnregistersWake)

-----------------------------------------------------------------------------
Asleep     == pc[Local] = "sleep"
AsleepBack == pcB[Remote] = "sleep"

(* StandoffMutual: a sender sleeps for ever only if the socket it sends to *)
(* does so too: traffic in one direction, however the other one comes and  *)
(* goes, never stops on the socket lock alone (qrtr_sendmsg, qrtr_recvmsg).*)
StandoffMutual ==
    /\ <>[]Asleep => <>[]AsleepBack
    /\ <>[]AsleepBack => <>[]Asleep

(* TimerBreaksStandoff: SO_SNDTIMEO on one of two sockets that fill each   *)
(* other's flow is enough to release both: the timed sender gives up, its  *)
(* socket lock becomes free, it reads, and its RESUME_TX wakes the peer.   *)
TimerBreaksStandoff ==
    WF_duplexVars(TimesOut(Local)) =>
        (Asleep ~> ~Asleep) /\ (AsleepBack ~> ~AsleepBack)
=============================================================================
