--------------------------- MODULE QrtrFlow_proofs ---------------------------
(***************************************************************************)
(* Proofs about QrtrFlow, for every set of sockets, every pair of          *)
(* watermarks and every combination of failures.                           *)
(***************************************************************************)
EXTENDS QrtrFlow, FiniteSetTheorems, TLAPS

(* What a queue of flags looks like after Append and Tail. *)
LEMMA ConfirmAppend ==
    ASSUME NEW q \in Seq(Flags), NEW x \in Flags
    PROVE  /\ ConfirmIn(Append(q, x)) <=> (ConfirmIn(q) \/ x = "confirm")
           /\ OneConfirm(q) /\ ~(ConfirmIn(q) /\ x = "confirm") => OneConfirm(Append(q, x))
  <1> DEFINE r == Append(q, x)
  <1>1. /\ DOMAIN q = 1..Len(q) /\ DOMAIN r = 1..(Len(q) + 1) /\ Len(q) \in Nat
        /\ \A i \in 1..Len(q) : r[i] = q[i]
        /\ r[Len(q) + 1] = x
    OBVIOUS
  <1>2. ConfirmIn(r) <=> (ConfirmIn(q) \/ x = "confirm")
    BY <1>1 DEF ConfirmIn
  <1>3. ASSUME OneConfirm(q), ~(ConfirmIn(q) /\ x = "confirm")
        PROVE  OneConfirm(r)
    BY <1>1, <1>3 DEF ConfirmIn, OneConfirm
  <1> QED BY <1>2, <1>3

(* What a queue of flags looks like after its head is removed. *)
LEMMA ConfirmTail ==
    ASSUME NEW q \in Seq(Flags), q # <<>>
    PROVE  /\ Head(q) \in Flags /\ Tail(q) \in Seq(Flags)
           /\ ConfirmIn(q) <=> (Head(q) = "confirm" \/ ConfirmIn(Tail(q)))
           /\ OneConfirm(q) => OneConfirm(Tail(q))
           /\ OneConfirm(q) /\ Head(q) = "confirm" => ~ConfirmIn(Tail(q))
  <1> DEFINE r == Tail(q)
  <1>1. /\ Len(q) \in Nat /\ Len(q) > 0 /\ DOMAIN q = 1..Len(q)
        /\ DOMAIN r = 1..(Len(q) - 1)
        /\ \A i \in 1..(Len(q) - 1) : r[i] = q[i + 1]
        /\ Head(q) = q[1] /\ Head(q) \in Flags /\ r \in Seq(Flags)
    OBVIOUS
  <1>2. ConfirmIn(q) => Head(q) = "confirm" \/ ConfirmIn(r)
    <2> SUFFICES ASSUME NEW i \in 1..Len(q), q[i] = "confirm", i # 1
                 PROVE  ConfirmIn(r)
      BY <1>1 DEF ConfirmIn
    <2>1. i - 1 \in DOMAIN r /\ r[i - 1] = "confirm"
      BY <1>1
    <2> QED BY <2>1 DEF ConfirmIn
  <1>3. ConfirmIn(r) => ConfirmIn(q)
    <2> SUFFICES ASSUME NEW i \in 1..(Len(q) - 1), r[i] = "confirm"
                 PROVE  ConfirmIn(q)
      BY <1>1 DEF ConfirmIn
    <2>1. i + 1 \in DOMAIN q /\ q[i + 1] = "confirm"
      BY <1>1
    <2> QED BY <2>1 DEF ConfirmIn
  <1>4. Head(q) = "confirm" => ConfirmIn(q)
    BY <1>1 DEF ConfirmIn
  <1>5. ASSUME OneConfirm(q) PROVE OneConfirm(r)
    <2> SUFFICES ASSUME NEW i \in 1..(Len(q) - 1), NEW j \in 1..(Len(q) - 1),
                        r[i] = "confirm", r[j] = "confirm"
                 PROVE  i = j
      BY <1>1 DEF OneConfirm
    <2>1. i + 1 \in DOMAIN q /\ j + 1 \in DOMAIN q
          /\ q[i + 1] = "confirm" /\ q[j + 1] = "confirm"
      BY <1>1
    <2>2. i + 1 = j + 1
      BY <2>1, <1>5 DEF OneConfirm
    <2> QED BY <2>2
  <1>6. ASSUME OneConfirm(q), Head(q) = "confirm" PROVE ~ConfirmIn(r)
    <2> SUFFICES ASSUME NEW i \in 1..(Len(q) - 1), r[i] = "confirm"
                 PROVE  FALSE
      BY <1>1 DEF ConfirmIn
    <2>1. i + 1 \in DOMAIN q /\ 1 \in DOMAIN q
          /\ q[i + 1] = "confirm" /\ q[1] = "confirm"
      BY <1>1, <1>6
    <2>2. i + 1 = 1
      BY <2>1, <1>6 DEF OneConfirm
    <2> QED BY <2>2
  <1> QED BY <1>1, <1>2, <1>3, <1>4, <1>5, <1>6

-----------------------------------------------------------------------------
(* Type correctness of the flow-control state, in particular: the counter  *)
(* never exceeds QRTR_TX_FLOW_HIGH, although a woken sender, a barging one *)
(* and a retry after tx_failed all pass through qrtr_tx_wait().            *)
THEOREM TypeCorrect == Spec => []TypeOK
  <1> USE WatermarkAssumption, SenderAssumption DEF Flags, PCs
  <1>1. Init => TypeOK
    BY DEF Init, TypeOK
  <1>2. TypeOK /\ [Next]_vars => TypeOK'
    <2> SUFFICES ASSUME TypeOK, [Next]_vars PROVE TypeOK'
      OBVIOUS
    <2> USE DEF TypeOK
    <2>1. ASSUME NEW s \in Senders, NEW d \in BOOLEAN, SendMsg(s, d) PROVE TypeOK'
      BY <2>1 DEF SendMsg
    <2>2. ASSUME NEW s \in Senders, Block(s) PROVE TypeOK'
      BY <2>2 DEF Block, flowVars, remoteVars
    <2>3. ASSUME NEW s \in Senders, Admit(s) PROVE TypeOK'
      BY <2>3 DEF Admit, MayProceed, remoteVars
    <2>4. ASSUME NEW s \in Senders, Refuse(s) PROVE TypeOK'
      BY <2>4 DEF Refuse, remoteVars
    <2>5. ASSUME NEW s \in Senders, Timeout(s) \/ Signal(s) PROVE TypeOK'
      BY <2>5 DEF Timeout, Signal, flowVars, remoteVars
    <2>6. ASSUME NEW s \in Senders, XmitOk(s) PROVE TypeOK'
      BY <2>6 DEF XmitOk, flowVars
    <2>7. ASSUME NEW s \in Senders, XmitFail(s) PROVE TypeOK'
      BY <2>7 DEF XmitFail, flowVars, remoteVars
    <2>8. ASSUME NEW s \in Senders, TxFlowFailed(s) PROVE TypeOK'
      BY <2>8 DEF TxFlowFailed, remoteVars
    <2>9. ASSUME NEW s \in Senders, ReadNotice(s) PROVE TypeOK'
      BY <2>9 DEF ReadNotice, flowVars, remoteVars
    <2>10. CASE EndpointPost
      <3> SUFFICES ASSUME EndpointPost PROVE TypeOK'
        BY <2>10
      <3>1. Head(wire) \in Flags /\ Tail(wire) \in Seq(Flags)
        BY ConfirmTail DEF EndpointPost
      <3>2. wire' \in Seq(Flags) /\ lost' \in {0, 1}
        BY <3>1 DEF EndpointPost
      <3>3. rxq' = rxq \/ rxq' = Append(rxq, Head(wire))
        BY DEF EndpointPost
      <3>4. rxq' \in Seq(Flags)
        BY <3>1, <3>3
      <3> QED BY <3>2, <3>4 DEF EndpointPost, flowVars
    <2>11. CASE RecvMsg \/ PeekMsg
      <3>1. CASE RecvMsg
        BY <3>1, ConfirmTail DEF RecvMsg, flowVars
      <3>2. CASE PeekMsg
        BY <3>2 DEF PeekMsg, flowVars
      <3> QED BY <2>11, <3>1, <3>2
    <2>12. CASE RemoteRelease
      <3>1. lost' \in {0, 1}
        BY <2>12 DEF RemoteRelease
      <3>2. rxq' \in Seq(Flags)
        BY <2>12 DEF RemoteRelease
      <3> QED BY <2>12, <3>1, <3>2 DEF RemoteRelease, flowVars
    <2>16. CASE RemoteBind
      BY <2>16 DEF RemoteBind, flowVars
    <2>13. CASE TxResume
      BY <2>13 DEF TxResume
    <2>14. CASE Unregister \/ UnregisterWake
      BY <2>14 DEF Unregister, UnregisterWake, flowVars, remoteVars
    <2>15. CASE UNCHANGED vars
      BY <2>15 DEF vars
    <2> QED
      BY <2>1, <2>2, <2>3, <2>4, <2>5, <2>6, <2>7, <2>8, <2>9, <2>10, <2>11,
         <2>12, <2>13, <2>14, <2>15, <2>16 DEF Next
  <1> QED BY <1>1, <1>2, PTL DEF Spec

-----------------------------------------------------------------------------
(* A send is waiting only on a flow that exists, and only an existing flow *)
(* has counted messages.                                                   *)
FlowInv ==
    /\ flow = "none" => pending = 0
    /\ \A s \in Senders : pc[s] \in {"wait", "try", "sleep"} => flow = "present"

(* FlowInv is inductive relative to the type invariant. *)
LEMMA FlowInvInvariant == Spec => []FlowInv
  <1>1. Init => FlowInv
    BY DEF Init, FlowInv
  <1>2. TypeOK /\ FlowInv /\ [Next]_vars => FlowInv'
    <2> SUFFICES ASSUME TypeOK, FlowInv, [Next]_vars PROVE FlowInv'
      OBVIOUS
    <2> USE DEF TypeOK, PCs, FlowInv
    <2>1. ASSUME NEW s \in Senders, NEW d \in BOOLEAN, SendMsg(s, d) PROVE FlowInv'
      BY <2>1 DEF SendMsg
    <2>2. ASSUME NEW s \in Senders, Block(s) \/ Timeout(s) \/ Signal(s) PROVE FlowInv'
      BY <2>2 DEF Block, Timeout, Signal, flowVars
    <2>3. ASSUME NEW s \in Senders, Admit(s) PROVE FlowInv'
      BY <2>3 DEF Admit
    <2>4. ASSUME NEW s \in Senders, Refuse(s) \/ TxFlowFailed(s) PROVE FlowInv'
      BY <2>4 DEF Refuse, TxFlowFailed
    <2>5. ASSUME NEW s \in Senders, XmitOk(s) \/ XmitFail(s) \/ ReadNotice(s) PROVE FlowInv'
      BY <2>5 DEF XmitOk, XmitFail, ReadNotice, flowVars
    <2>6. CASE EndpointPost \/ RecvMsg \/ PeekMsg \/ RemoteRelease \/ RemoteBind
      BY <2>6 DEF EndpointPost, RecvMsg, PeekMsg, RemoteRelease, RemoteBind, flowVars
    <2>7. CASE TxResume
      BY <2>7 DEF TxResume
    <2>8. CASE Unregister \/ UnregisterWake
      BY <2>8 DEF Unregister, UnregisterWake, flowVars
    <2>9. CASE UNCHANGED vars
      BY <2>9 DEF vars
    <2> QED
      BY <2>1, <2>2, <2>3, <2>4, <2>5, <2>6, <2>7, <2>8, <2>9 DEF Next
  <1> QED BY <1>1, <1>2, TypeCorrect, PTL DEF Spec

(* Nobody sleeps without reason: a sleeping sender and a listed waiter     *)
(* imply a full flow, and no sleeper outlives the wake-ups of              *)
(* qrtr_endpoint_unregister().                                             *)
THEOREM SleepSafety == Spec => []SleepJustified
  <1>1. Init => SleepJustified
    BY DEF Init, SleepJustified
  <1>2. TypeOK /\ SleepJustified /\ [Next]_vars => SleepJustified'
    <2> SUFFICES ASSUME TypeOK, SleepJustified, [Next]_vars PROVE SleepJustified'
      OBVIOUS
    <2> USE WatermarkAssumption DEF TypeOK, PCs, SleepJustified
    <2>1. ASSUME NEW s \in Senders, NEW d \in BOOLEAN, SendMsg(s, d) PROVE SleepJustified'
      BY <2>1 DEF SendMsg
    <2>2. ASSUME NEW s \in Senders, Block(s) PROVE SleepJustified'
      BY <2>2 DEF Block, MayProceed, flowVars
    <2>3. ASSUME NEW s \in Senders, Admit(s) PROVE SleepJustified'
      BY <2>3 DEF Admit, MayProceed
    <2>4. ASSUME NEW s \in Senders, Refuse(s) PROVE SleepJustified'
      BY <2>4 DEF Refuse, MayProceed
    <2>5. ASSUME NEW s \in Senders, Timeout(s) \/ Signal(s) \/ ReadNotice(s)
          PROVE  SleepJustified'
      BY <2>5 DEF Timeout, Signal, ReadNotice, flowVars
    <2>6. ASSUME NEW s \in Senders, XmitOk(s) \/ XmitFail(s) \/ TxFlowFailed(s)
          PROVE  SleepJustified'
      BY <2>6 DEF XmitOk, XmitFail, TxFlowFailed, flowVars
    <2>7. CASE EndpointPost \/ RecvMsg \/ PeekMsg \/ RemoteRelease \/ RemoteBind
      BY <2>7 DEF EndpointPost, RecvMsg, PeekMsg, RemoteRelease, RemoteBind, flowVars
    <2>8. CASE TxResume
      <3>1. CASE flow = "none"
        BY <2>8, <3>1 DEF TxResume
      <3>2. CASE flow = "present"
        BY <2>8, <3>2 DEF TxResume
      <3> QED BY <3>1, <3>2
    <2>9. CASE Unregister \/ UnregisterWake
      BY <2>9 DEF Unregister, UnregisterWake, flowVars
    <2>10. CASE UNCHANGED vars
      BY <2>10 DEF vars
    <2> QED
      BY <2>1, <2>2, <2>3, <2>4, <2>5, <2>6, <2>7, <2>8, <2>9, <2>10 DEF Next
  <1> QED BY <1>1, <1>2, TypeCorrect, PTL DEF Spec

-----------------------------------------------------------------------------
(* The steps that move no confirmation. *)
LEMMA QuietStep ==
    ASSUME pending' = pending, txFailed' = txFailed, wire' = wire, rxq' = rxq,
           resumes' = resumes, strays' = strays, lost' = lost,
           \A s \in Senders : Confirming(s)' <=> Confirming(s)
    PROVE  /\ ResumeOwed => ResumeOwed'
           /\ SingleConfirm => SingleConfirm'
  <1>1. AtSender' <=> AtSender
    BY DEF AtSender
  <1>2. ConfirmIn(wire)' <=> ConfirmIn(wire)
    BY DEF ConfirmIn
  <1>3. ConfirmIn(rxq)' <=> ConfirmIn(rxq)
    BY DEF ConfirmIn
  <1>4. (OneConfirm(wire)' <=> OneConfirm(wire)) /\ (OneConfirm(rxq)' <=> OneConfirm(rxq))
    BY DEF OneConfirm
  <1>5. Confirmation' <=> Confirmation
    BY <1>1, <1>2, <1>3 DEF Confirmation
  <1> QED
    BY <1>1, <1>2, <1>3, <1>4, <1>5 DEF ResumeOwed, SingleConfirm

(* Block, Refuse, Timeout, Signal and the like are quiet. *)
LEMMA QuietActions ==
    ASSUME TypeOK,
           \/ \E s \in Senders : Block(s) \/ Refuse(s) \/ Timeout(s) \/ Signal(s) \/ ReadNotice(s)
           \/ RemoteBind \/ Unregister \/ UnregisterWake \/ UNCHANGED vars
    PROVE  /\ pending' = pending /\ txFailed' = txFailed /\ wire' = wire /\ rxq' = rxq
           /\ resumes' = resumes /\ strays' = strays /\ lost' = lost
           /\ \A s \in Senders : Confirming(s)' <=> Confirming(s)
  <1> USE DEF TypeOK, PCs, Confirming
  <1>1. ASSUME NEW s \in Senders, Block(s) \/ Refuse(s) \/ Timeout(s) \/ Signal(s) \/ ReadNotice(s)
        PROVE  /\ pending' = pending /\ txFailed' = txFailed /\ wire' = wire /\ rxq' = rxq
               /\ resumes' = resumes /\ strays' = strays /\ lost' = lost
               /\ \A t \in Senders : Confirming(t)' <=> Confirming(t)
    BY <1>1 DEF Block, Refuse, Timeout, Signal, ReadNotice, flowVars, remoteVars
  <1>2. CASE RemoteBind
    BY <1>2 DEF RemoteBind, flowVars
  <1>3. CASE Unregister
    BY <1>3 DEF Unregister, flowVars, remoteVars
  <1>4. CASE UnregisterWake
    BY <1>4 DEF UnregisterWake, flowVars, remoteVars
  <1>5. CASE UNCHANGED vars
    BY <1>5 DEF vars
  <1> QED BY <1>1, <1>2, <1>3, <1>4, <1>5

(* The RESUME_TX of a flow past its low watermark is never forgotten: the  *)
(* flow cannot stay full with nothing under way to reset it, unless a      *)
(* confirmation was dropped where qrtr_tx_flow_failed() does not see it.   *)
THEOREM ResumeOwedSafety == Spec => []ResumeOwed
  <1>1. Init => ResumeOwed
    BY WatermarkAssumption DEF Init, ResumeOwed
  <1>2. TypeOK /\ FlowInv /\ ResumeOwed /\ [Next]_vars => ResumeOwed'
    <2> SUFFICES ASSUME TypeOK, FlowInv, ResumeOwed, [Next]_vars PROVE ResumeOwed'
      OBVIOUS
    <2> USE WatermarkAssumption DEF TypeOK, PCs
    <2>1. ASSUME NEW s \in Senders, NEW d \in BOOLEAN, SendMsg(s, d) PROVE ResumeOwed'
      <3>1. AtSender => AtSender'
        BY <2>1 DEF SendMsg, AtSender, Confirming
      <3> QED BY <2>1, <3>1 DEF SendMsg, ResumeOwed, Confirmation, ConfirmIn
    <2>2. ASSUME NEW s \in Senders, Admit(s) PROVE ResumeOwed'
      <3>1. AtSender => AtSender'
        BY <2>2 DEF Admit, AtSender, Confirming
      <3>2. txFailed = 1 => txFailed' = 1 \/ AtSender'
        BY <2>2 DEF Admit, AtSender, Confirming
      <3>3. pending' >= LOW => pending >= LOW \/ AtSender'
        BY <2>2 DEF Admit, AtSender, Confirming
      <3> QED BY <2>2, <3>1, <3>2, <3>3
              DEF Admit, remoteVars, ResumeOwed, Confirmation, ConfirmIn
    <2>3. ASSUME NEW s \in Senders, XmitOk(s) PROVE ResumeOwed'
      <3>1. ConfirmIn(wire) => ConfirmIn(wire')
        BY <2>3, ConfirmAppend DEF XmitOk, Flags
      <3>2. Confirming(s) => ConfirmIn(wire')
        BY <2>3, ConfirmAppend DEF XmitOk, Flags, Confirming
      <3>3. AtSender => AtSender' \/ ConfirmIn(wire')
        BY <2>3, <3>2 DEF XmitOk, AtSender, Confirming
      <3> QED BY <2>3, <3>1, <3>3 DEF XmitOk, flowVars, ResumeOwed, Confirmation, ConfirmIn
    <2>4. ASSUME NEW s \in Senders, XmitFail(s) PROVE ResumeOwed'
      <3>1. AtSender => AtSender'
        BY <2>4 DEF XmitFail, AtSender, Confirming
      <3> QED BY <2>4, <3>1
              DEF XmitFail, flowVars, remoteVars, ResumeOwed, Confirmation, ConfirmIn
    <2>5. ASSUME NEW s \in Senders, TxFlowFailed(s) PROVE ResumeOwed'
      <3>1. CASE flow = "none"
        BY <2>5, <3>1 DEF TxFlowFailed, FlowInv, ResumeOwed
      <3>2. CASE flow = "present"
        BY <2>5, <3>2 DEF TxFlowFailed, ResumeOwed, Confirmation
      <3> QED BY <3>1, <3>2
    <2>6. CASE EndpointPost
      <3>1. ConfirmIn(wire) => ConfirmIn(wire') \/ Head(wire) = "confirm"
        BY <2>6, ConfirmTail DEF EndpointPost
      <3>2. lost' = 0 => lost = 0 /\ (ConfirmIn(wire) \/ ConfirmIn(rxq)
                                        => ConfirmIn(wire') \/ ConfirmIn(rxq'))
        <4>1. CASE rxq' = Append(rxq, Head(wire)) /\ lost' = lost
          BY <2>6, <3>1, <4>1, ConfirmAppend, ConfirmTail DEF EndpointPost
        <4>2. CASE rxq' = rxq /\ lost' = IF Head(wire) = "confirm" THEN 1 ELSE lost
          BY <3>1, <4>2
        <4> QED BY <2>6, <4>1, <4>2 DEF EndpointPost
      <3>3. AtSender' <=> AtSender
        BY <2>6 DEF EndpointPost, AtSender, Confirming
      <3> QED BY <2>6, <3>2, <3>3 DEF EndpointPost, flowVars, ResumeOwed, Confirmation, ConfirmIn
    <2>7. CASE RecvMsg
      <3>1. ConfirmIn(rxq) => ConfirmIn(rxq') \/ Head(rxq) = "confirm"
        BY <2>7, ConfirmTail DEF RecvMsg
      <3>2. lost' = 0 => lost = 0 /\ (ConfirmIn(rxq) \/ resumes > 0
                                        => ConfirmIn(rxq') \/ resumes' > 0)
        BY <2>7, <3>1 DEF RecvMsg
      <3>3. AtSender' <=> AtSender
        BY <2>7 DEF RecvMsg, AtSender, Confirming
      <3> QED BY <2>7, <3>2, <3>3 DEF RecvMsg, flowVars, ResumeOwed, Confirmation, ConfirmIn
    <2>p. CASE PeekMsg
      <3>1. AtSender' <=> AtSender
        BY <2>p DEF PeekMsg, AtSender, Confirming
      <3> QED BY <2>p, <3>1 DEF PeekMsg, flowVars, ResumeOwed, Confirmation, ConfirmIn
    <2>8. CASE RemoteRelease
      <3>1. lost' = 0 => lost = 0 /\ ~ConfirmIn(rxq)
        BY <2>8 DEF RemoteRelease
      <3>2. AtSender' <=> AtSender
        BY <2>8 DEF RemoteRelease, AtSender, Confirming
      <3> QED BY <2>8, <3>1, <3>2 DEF RemoteRelease, flowVars, ResumeOwed, Confirmation, ConfirmIn
    <2>9. CASE TxResume
      BY <2>9 DEF TxResume, FlowInv, ResumeOwed
    <2>10. CASE \/ \E s \in Senders : Block(s) \/ Refuse(s) \/ Timeout(s) \/ Signal(s) \/ ReadNotice(s)
                \/ RemoteBind \/ Unregister \/ UnregisterWake \/ UNCHANGED vars
      BY <2>10, QuietActions, QuietStep
    <2> QED
      BY <2>p, <2>1, <2>2, <2>3, <2>4, <2>5, <2>6, <2>7, <2>8, <2>9, <2>10 DEF Next
  <1> QED BY <1>1, <1>2, TypeCorrect, FlowInvInvariant, PTL DEF Spec

-----------------------------------------------------------------------------
(* At most one confirmation of an accounted flow exists at any time: every *)
(* handler hands it on, and none but a peek duplicates it, so a RESUME_TX  *)
(* only ever resets the window that asked for it.                          *)
THEOREM SingleConfirmSafety == Spec => []SingleConfirm
  <1>1. Init => SingleConfirm
    BY WatermarkAssumption
       DEF Init, SingleConfirm, Confirmation, AtSender, Confirming, ConfirmIn, OneConfirm
  <1>2. TypeOK /\ FlowInv /\ SingleConfirm /\ [Next]_vars => SingleConfirm'
    <2> SUFFICES ASSUME TypeOK, FlowInv, SingleConfirm, [Next]_vars, strays' = 0
                 PROVE  SingleConfirm'
      BY DEF SingleConfirm
    <2> USE WatermarkAssumption DEF TypeOK, PCs
    <2>p. ~PeekMsg
      BY DEF PeekMsg
    <2>0. strays = 0
      BY <2>p DEF Next, vars, SendMsg, Block, Admit, Refuse, Timeout, Signal, XmitOk, XmitFail,
             TxFlowFailed, ReadNotice, EndpointPost, RecvMsg, RemoteRelease, RemoteBind,
             TxResume, Unregister, UnregisterWake
    <2>1. ASSUME NEW s \in Senders, NEW d \in BOOLEAN, SendMsg(s, d) PROVE SingleConfirm'
      <3>1. \A t \in Senders : Confirming(t)' <=> Confirming(t)
        BY <2>0, <2>1 DEF SendMsg, Confirming
      <3> QED BY <2>0, <2>1, <3>1, QuietStep DEF SendMsg
    <2>2. ASSUME NEW s \in Senders, Admit(s) PROVE SingleConfirm'
      <3>1. CASE ep # "up"
        <4>1. \A t \in Senders : Confirming(t)' <=> Confirming(t)
          BY <2>2, <3>1 DEF Admit, Confirming
        <4> QED BY <2>2, <3>1, <4>1, QuietStep DEF Admit, remoteVars
      <3>2. CASE ep = "up" /\ txFailed = 1
        <4>1. /\ ~AtSender /\ ~ConfirmIn(wire) /\ ~ConfirmIn(rxq) /\ resumes = 0
              /\ pending >= LOW
          BY <2>0, <3>2 DEF SingleConfirm, Confirmation
        <4>2. \A t \in Senders : Confirming(t)' <=> t = s
          BY <2>2, <3>2, <4>1 DEF Admit, AtSender, Confirming
        <4>3. /\ wire' = wire /\ rxq' = rxq /\ resumes' = 0 /\ pending' >= LOW
              /\ txFailed' = 0
          BY <2>2, <3>2, <4>1 DEF Admit, remoteVars
        <4> QED BY <2>0, <4>1, <4>2, <4>3 DEF SingleConfirm, ConfirmIn, OneConfirm
      <3>3. CASE ep = "up" /\ txFailed = 0 /\ pending + 1 = LOW
        <4>1. ~Confirmation
          BY <2>0, <3>3 DEF SingleConfirm
        <4>2. \A t \in Senders : Confirming(t)' <=> t = s
          BY <2>2, <3>3, <4>1 DEF Admit, Confirmation, AtSender, Confirming
        <4>3. /\ wire' = wire /\ rxq' = rxq /\ resumes' = resumes /\ pending' >= LOW
              /\ txFailed' = 0
          BY <2>2, <3>3 DEF Admit, remoteVars
        <4>4. resumes' = 0
          BY <4>1, <4>3 DEF Confirmation
        <4> QED BY <2>0, <4>1, <4>2, <4>3, <4>4
                DEF SingleConfirm, Confirmation, ConfirmIn, OneConfirm
      <3>4. CASE ep = "up" /\ txFailed = 0 /\ pending + 1 # LOW
        <4>1. \A t \in Senders : Confirming(t)' <=> Confirming(t)
          BY <2>2, <3>4 DEF Admit, Confirming
        <4>2. /\ wire' = wire /\ rxq' = rxq /\ resumes' = resumes
              /\ pending' = pending + 1 /\ txFailed' = txFailed
          BY <2>2, <3>4 DEF Admit, remoteVars
        <4>3. (AtSender' <=> AtSender) /\ (Confirmation' <=> Confirmation)
          BY <4>1, <4>2 DEF AtSender, Confirmation, ConfirmIn
        <4> QED BY <2>0, <4>1, <4>2, <4>3 DEF SingleConfirm, ConfirmIn, OneConfirm
      <3> QED BY <3>1, <3>2, <3>3, <3>4
    <2>3. ASSUME NEW s \in Senders, XmitOk(s) PROVE SingleConfirm'
      <3>1. /\ rxq' = rxq /\ resumes' = resumes /\ pending' = pending /\ txFailed' = txFailed
        BY <2>3 DEF XmitOk, flowVars
      <3>2. CASE pc[s] = "xmitc"
        <4>1. Confirming(s) /\ AtSender
          BY <3>2 DEF Confirming, AtSender
        <4>2. /\ ~ConfirmIn(wire) /\ ~ConfirmIn(rxq) /\ resumes = 0 /\ txFailed = 0
              /\ pending >= LOW /\ OneConfirm(wire) /\ OneConfirm(rxq)
              /\ \A t \in Senders : Confirming(t) => t = s
          BY <2>0, <4>1 DEF SingleConfirm, Confirmation
        <4>3. ~AtSender'
          BY <2>3, <3>2, <4>2 DEF XmitOk, AtSender, Confirming
        <4>4. ConfirmIn(wire') /\ OneConfirm(wire')
          BY <2>3, <3>2, <4>2, ConfirmAppend DEF XmitOk, Flags
        <4> QED BY <3>1, <4>2, <4>3, <4>4
                DEF SingleConfirm, AtSender, ConfirmIn, OneConfirm
      <3>3. CASE pc[s] = "xmit"
        <4>1. \A t \in Senders : Confirming(t)' <=> Confirming(t)
          BY <2>3, <3>3 DEF XmitOk, Confirming
        <4>2. /\ ConfirmIn(wire') <=> ConfirmIn(wire)
              /\ OneConfirm(wire) => OneConfirm(wire')
          BY <2>3, <3>3, ConfirmAppend DEF XmitOk, Flags
        <4>3. (AtSender' <=> AtSender) /\ (Confirmation' <=> Confirmation)
          BY <3>1, <4>1, <4>2 DEF AtSender, Confirmation, ConfirmIn
        <4> QED BY <2>0, <3>1, <4>1, <4>2, <4>3 DEF SingleConfirm, ConfirmIn, OneConfirm
      <3> QED BY <2>3, <3>2, <3>3 DEF XmitOk
    <2>4. ASSUME NEW s \in Senders, XmitFail(s) PROVE SingleConfirm'
      <3>1. \A t \in Senders : Confirming(t)' <=> Confirming(t)
        BY <2>4 DEF XmitFail, Confirming
      <3> QED BY <2>4, <3>1, QuietStep DEF XmitFail, flowVars, remoteVars
    <2>5. ASSUME NEW s \in Senders, TxFlowFailed(s) PROVE SingleConfirm'
      <3>1. Confirming(s) /\ AtSender
        BY <2>5 DEF TxFlowFailed, Confirming, AtSender
      <3>2. /\ ~ConfirmIn(wire) /\ ~ConfirmIn(rxq) /\ resumes = 0 /\ pending >= LOW
            /\ OneConfirm(wire) /\ OneConfirm(rxq)
            /\ \A t \in Senders : Confirming(t) => t = s
        BY <2>0, <3>1 DEF SingleConfirm, Confirmation
      <3>3. ~AtSender'
        BY <2>5, <3>2 DEF TxFlowFailed, AtSender, Confirming
      <3>4. wire' = wire /\ rxq' = rxq /\ resumes' = resumes /\ pending' = pending
        BY <2>5 DEF TxFlowFailed, remoteVars
      <3> QED BY <3>2, <3>3, <3>4 DEF SingleConfirm, AtSender, ConfirmIn, OneConfirm
    <2>6. CASE EndpointPost
      <3>1. /\ resumes' = resumes /\ pending' = pending /\ txFailed' = txFailed /\ pc' = pc
        BY <2>6 DEF EndpointPost, flowVars
      <3>2. /\ Head(wire) \in Flags /\ wire' = Tail(wire)
            /\ ConfirmIn(wire) <=> (Head(wire) = "confirm" \/ ConfirmIn(wire'))
            /\ OneConfirm(wire) => OneConfirm(wire')
            /\ OneConfirm(wire) /\ Head(wire) = "confirm" => ~ConfirmIn(wire')
        BY <2>6, ConfirmTail DEF EndpointPost
      <3>3. /\ ConfirmIn(rxq') => ConfirmIn(rxq) \/ Head(wire) = "confirm"
            /\ OneConfirm(rxq) /\ ~(ConfirmIn(rxq) /\ Head(wire) = "confirm") => OneConfirm(rxq')
        <4>1. CASE rxq' = rxq
          BY <4>1
        <4>2. CASE rxq' = Append(rxq, Head(wire))
          BY <3>2, <4>2, ConfirmAppend
        <4> QED BY <2>6, <4>1, <4>2 DEF EndpointPost
      <3>4. /\ OneConfirm(wire) /\ OneConfirm(rxq)
            /\ ConfirmIn(wire) => ~ConfirmIn(rxq)
        BY <2>0 DEF SingleConfirm
      <3>5. /\ OneConfirm(wire') /\ OneConfirm(rxq')
            /\ ConfirmIn(wire') => ConfirmIn(wire) /\ ~ConfirmIn(rxq')
            /\ ConfirmIn(rxq') => ConfirmIn(wire) \/ ConfirmIn(rxq)
        BY <3>2, <3>3, <3>4
      <3>6. (AtSender' <=> AtSender) /\ (\A t \in Senders : Confirming(t)' <=> Confirming(t))
        BY <3>1 DEF AtSender, Confirming
      <3>7. Confirmation' => Confirmation
        BY <3>1, <3>5, <3>6 DEF Confirmation, ConfirmIn
      <3> QED BY <2>0, <3>1, <3>5, <3>6, <3>7 DEF SingleConfirm, ConfirmIn, OneConfirm
    <2>7. CASE RecvMsg
      <3>1. /\ wire' = wire /\ pending' = pending /\ txFailed' = txFailed /\ pc' = pc
        BY <2>7 DEF RecvMsg, flowVars
      <3>2. /\ Head(rxq) \in Flags /\ rxq' = Tail(rxq)
            /\ ConfirmIn(rxq) <=> (Head(rxq) = "confirm" \/ ConfirmIn(rxq'))
            /\ OneConfirm(rxq) => OneConfirm(rxq')
            /\ OneConfirm(rxq) /\ Head(rxq) = "confirm" => ~ConfirmIn(rxq')
        BY <2>7, ConfirmTail DEF RecvMsg
      <3>3. \/ resumes' = resumes
            \/ Head(rxq) = "confirm" /\ resumes' = resumes + 1
        BY <2>7 DEF RecvMsg
      <3>4. OneConfirm(rxq) /\ (ConfirmIn(rxq) => resumes = 0 /\ txFailed = 0) /\ resumes <= 1
        BY <2>0 DEF SingleConfirm
      <3>5. /\ OneConfirm(rxq') /\ resumes' <= 1
            /\ ConfirmIn(rxq') => ConfirmIn(rxq) /\ resumes' = 0
            /\ resumes' > 0 => resumes > 0 \/ ConfirmIn(rxq)
        BY <3>2, <3>3, <3>4
      <3>6. (AtSender' <=> AtSender) /\ (\A t \in Senders : Confirming(t)' <=> Confirming(t))
        BY <3>1 DEF AtSender, Confirming
      <3>7. Confirmation' => Confirmation
        BY <3>1, <3>5, <3>6 DEF Confirmation, ConfirmIn
      <3>8. /\ AtSender => ~ConfirmIn(rxq') /\ resumes' = 0
            /\ ConfirmIn(wire) => ~ConfirmIn(rxq') /\ resumes' = 0
            /\ resumes' = 1 => txFailed = 0
        BY <2>0, <3>3, <3>5, <3>2 DEF SingleConfirm
      <3> QED BY <2>0, <3>1, <3>5, <3>6, <3>7, <3>8 DEF SingleConfirm, ConfirmIn, OneConfirm
    <2>8. CASE RemoteRelease
      <3>1. /\ wire' = wire /\ pending' = pending /\ txFailed' = txFailed /\ pc' = pc
            /\ resumes' = resumes /\ rxq' = <<>>
        BY <2>8 DEF RemoteRelease, flowVars
      <3>2. ~ConfirmIn(rxq') /\ OneConfirm(rxq')
        BY <3>1 DEF ConfirmIn, OneConfirm
      <3>3. (AtSender' <=> AtSender) /\ (\A t \in Senders : Confirming(t)' <=> Confirming(t))
        BY <3>1 DEF AtSender, Confirming
      <3>4. Confirmation' => Confirmation
        BY <3>1, <3>2, <3>3 DEF Confirmation, ConfirmIn
      <3> QED BY <2>0, <3>1, <3>2, <3>3, <3>4 DEF SingleConfirm, ConfirmIn, OneConfirm
    <2>9. CASE TxResume
      <3>1. /\ resumes = 1 /\ pending >= LOW /\ txFailed = 0 /\ ~AtSender
            /\ ~ConfirmIn(wire) /\ ~ConfirmIn(rxq) /\ OneConfirm(wire) /\ OneConfirm(rxq)
        BY <2>0, <2>9 DEF TxResume, SingleConfirm, Confirmation
      <3>2. wire' = wire /\ rxq' = rxq /\ resumes' = 0 /\ txFailed' = 0
        BY <2>9, <3>1 DEF TxResume
      <3>3. \A t \in Senders : ~Confirming(t)'
        BY <2>9, <3>1 DEF TxResume, AtSender, Confirming
      <3>4. ~AtSender' /\ ~Confirmation'
        BY <3>1, <3>2, <3>3 DEF AtSender, Confirmation, ConfirmIn
      <3> QED BY <3>1, <3>2, <3>3, <3>4 DEF SingleConfirm, ConfirmIn, OneConfirm
    <2>10. CASE \/ \E s \in Senders : Block(s) \/ Refuse(s) \/ Timeout(s) \/ Signal(s) \/ ReadNotice(s)
                \/ RemoteBind \/ Unregister \/ UnregisterWake \/ UNCHANGED vars
      BY <2>10, QuietActions, QuietStep
    <2> QED
      BY <2>p, <2>1, <2>2, <2>3, <2>4, <2>5, <2>6, <2>7, <2>8, <2>9, <2>10 DEF Next
  <1> QED BY <1>1, <1>2, TypeCorrect, FlowInvInvariant, PTL DEF Spec
-----------------------------------------------------------------------------
(* How many messages the remote can have to hold.                          *)

(* Sockets with a message that is accepted and neither handed over nor     *)
(* given up; how far others can get ahead of the one with confirm_rx.      *)
Sending == {s \in Senders : pc[s] \in {"xmit", "xmitc", "failed"}}
Slack   == Cardinality(Senders) - 1

(* Every message is in the present window or was behind the confirmation   *)
(* of the last one: of those, HIGH - LOW were counted after it and others  *)
(* are of the sockets it overtook.  So a window's RESUME_TX comes when at  *)
(* most that many are left, wherever its confirmation is on the way.       *)
WindowInv ==
    strays = 0 =>
        /\ Len(wire) + Len(rxq) + Cardinality(Sending) + txFailed <= pending + (HIGH - LOW) + Slack
        /\ \A i \in 1..Len(wire) : wire[i] = "confirm" =>
              (Len(wire) - i) + Cardinality(Sending) <= (pending - LOW) + Slack
        /\ \A i \in 1..Len(rxq) : rxq[i] = "confirm" =>
              Len(wire) + (Len(rxq) - i) + Cardinality(Sending) <= (pending - LOW) + Slack
        /\ resumes > 0 => Len(wire) + Len(rxq) + Cardinality(Sending) <= (pending - LOW) + Slack

(* The members of Sending can be counted. *)
LEMMA SendingCount ==
    ASSUME IsFiniteSet(Senders)
    PROVE  /\ IsFiniteSet(Sending) /\ Cardinality(Sending) \in Nat
           /\ Cardinality(Senders) \in Nat /\ Slack \in Int
           /\ Cardinality(Sending) <= Slack + 1
  <1>1. Sending \subseteq Senders
    BY DEF Sending
  <1>2. IsFiniteSet(Sending) /\ Cardinality(Sending) <= Cardinality(Senders)
    BY <1>1, FS_Subset
  <1>3. Cardinality(Senders) \in Nat /\ Cardinality(Sending) \in Nat
    BY <1>2, FS_CardinalityType
  <1> QED
    BY <1>2, <1>3 DEF Slack

(* A send is accepted ... *)
LEMMA SendingEnter ==
    ASSUME IsFiniteSet(Senders), NEW s \in Senders, s \notin Sending, Sending' = Sending \cup {s}
    PROVE  Cardinality(Sending') = Cardinality(Sending) + 1
  BY SendingCount, FS_AddElement

(* ... and is over: the others are at most the ones that can be overtaken. *)
LEMMA SendingLeave ==
    ASSUME IsFiniteSet(Senders), NEW s \in Senders, s \in Sending, Sending' = Sending \ {s}
    PROVE  /\ Cardinality(Sending') = Cardinality(Sending) - 1
           /\ Cardinality(Sending') <= Slack
  <1>1. Cardinality(Sending \ {s}) = Cardinality(Sending) - 1
    BY SendingCount, FS_RemoveElement
  <1> QED
    BY <1>1, SendingCount

(* Queues after Append and Tail, index by index. *)
LEMMA QueueAppend ==
    ASSUME NEW q \in Seq(Flags), NEW x \in Flags
    PROVE  /\ Len(q) \in Nat /\ Len(Append(q, x)) = Len(q) + 1
           /\ \A i \in 1..Len(q) : Append(q, x)[i] = q[i]
           /\ Append(q, x)[Len(q) + 1] = x
  OBVIOUS

LEMMA QueueTail ==
    ASSUME NEW q \in Seq(Flags), q # <<>>
    PROVE  /\ Len(q) \in Nat /\ Len(q) > 0 /\ Len(Tail(q)) = Len(q) - 1
           /\ \A i \in 1..(Len(q) - 1) : Tail(q)[i] = q[i + 1]
           /\ Head(q) = q[1]
  OBVIOUS

(* A step that adds no message, and neither counts nor resets. *)
LEMMA WindowSame ==
    ASSUME IsFiniteSet(Senders), TypeOK, WindowInv, Sending' \subseteq Sending,
           UNCHANGED <<pending, txFailed, wire, rxq, resumes, strays>>
    PROVE  WindowInv'
  <1>1. Cardinality(Sending') <= Cardinality(Sending) /\ Cardinality(Sending') \in Nat
    <2>1. IsFiniteSet(Sending)
      BY SendingCount
    <2>2. IsFiniteSet(Sending') /\ Cardinality(Sending') <= Cardinality(Sending)
      BY <2>1, FS_Subset
    <2> QED
      BY <2>2, FS_CardinalityType
  <1>2. Slack' = Slack /\ Slack \in Int /\ Cardinality(Sending) \in Nat
    BY SendingCount DEF Slack
  <1>3. Len(wire) \in Nat /\ Len(rxq) \in Nat /\ pending \in Nat /\ txFailed \in Nat
    BY WatermarkAssumption DEF TypeOK
  <1> QED
    BY <1>1, <1>2, <1>3, WatermarkAssumption, SMTT(30) DEF WindowInv

(* qrtr_tx_wait() accepts a message. *)
LEMMA WindowAdmit ==
    ASSUME IsFiniteSet(Senders), TypeOK, SingleConfirm, WindowInv, strays = 0,
           NEW s \in Senders, Admit(s)
    PROVE  WindowInv'
  <1>1. /\ UNCHANGED <<wire, rxq, resumes, strays>> /\ pc[s] \in {"wait", "try"} /\ Slack' = Slack
        /\ pc \in [Senders -> PCs]
    BY DEF Admit, remoteVars, Slack, TypeOK
  <1>2. CASE ep # "up"
    <2>1. Sending' \subseteq Sending /\ UNCHANGED <<pending, txFailed>>
      BY <1>1, <1>2 DEF Admit, Sending
    <2> QED
      BY <1>1, <2>1, WindowSame
  <1>3. CASE ep = "up"
    <2>1. Sending' = Sending \cup {s} /\ s \notin Sending
      BY <1>1, <1>3 DEF Admit, Sending
    <2>2. Cardinality(Sending') = Cardinality(Sending) + 1
      BY <2>1, SendingEnter
    <2>3. /\ Slack \in Int /\ Cardinality(Sending) \in Nat
          /\ Len(wire) \in Nat /\ Len(rxq) \in Nat /\ pending \in Nat /\ txFailed \in {0, 1}
          /\ resumes \in Nat
      BY SendingCount, WatermarkAssumption DEF TypeOK
    <2>4. CASE txFailed = 1
      <3>1. txFailed' = 0 /\ pending' = pending
        BY <1>3, <2>4 DEF Admit
      <3>2. ~ConfirmIn(wire) /\ ~ConfirmIn(rxq) /\ resumes = 0
        BY <2>3, <2>4 DEF SingleConfirm
      <3>3. /\ \A i \in 1..Len(wire) : wire[i] # "confirm"
            /\ \A i \in 1..Len(rxq) : rxq[i] # "confirm"
        BY <3>2 DEF ConfirmIn, TypeOK
      <3> QED
        BY <1>1, <2>2, <2>3, <2>4, <3>1, <3>2, <3>3, WatermarkAssumption, SMTT(30) DEF WindowInv
    <2>5. CASE txFailed = 0
      <3>1. txFailed' = 0 /\ pending' = pending + 1
        BY <1>3, <2>5 DEF Admit
      <3> QED
        BY <1>1, <2>2, <2>3, <2>5, <3>1, WatermarkAssumption, SMTT(30) DEF WindowInv
    <2> QED
      BY <2>3, <2>4, <2>5
  <1> QED
    BY <1>2, <1>3

(* The transport takes a message: one with confirm_rx is the last on the   *)
(* wire, and the others still to come are the ones it overtook.            *)
LEMMA WindowXmit ==
    ASSUME IsFiniteSet(Senders), TypeOK, SingleConfirm, WindowInv, strays = 0,
           NEW s \in Senders, XmitOk(s)
    PROVE  WindowInv'
  <1> DEFINE x == IF pc[s] = "xmitc" THEN "confirm" ELSE "plain"
  <1>1. /\ UNCHANGED <<pending, txFailed, rxq, resumes, strays>> /\ pc[s] \in {"xmit", "xmitc"}
        /\ wire' = Append(wire, x) /\ Slack' = Slack /\ x \in Flags
    BY DEF XmitOk, flowVars, Slack, Flags
  <1>2. Sending' = Sending \ {s} /\ s \in Sending
    BY <1>1 DEF XmitOk, Sending, TypeOK
  <1>3. Cardinality(Sending') = Cardinality(Sending) - 1 /\ Cardinality(Sending') <= Slack
    BY <1>2, SendingLeave
  <1>4. /\ Slack \in Int /\ Cardinality(Sending) \in Nat /\ wire \in Seq(Flags)
        /\ Len(rxq) \in Nat /\ pending \in Nat /\ txFailed \in {0, 1} /\ resumes \in Nat
    BY SendingCount, WatermarkAssumption DEF TypeOK
  <1>5. x = "confirm" => pending >= LOW
    BY DEF SingleConfirm, Confirmation, AtSender, Confirming
  <1> HIDE DEF x
  <1>6. /\ Len(wire) \in Nat /\ Len(wire') = Len(wire) + 1
        /\ \A i \in 1..Len(wire) : wire'[i] = wire[i]
        /\ wire'[Len(wire) + 1] = x
    BY <1>1, <1>4, QueueAppend
  <1>7. ASSUME NEW i \in 1..Len(wire'), wire'[i] = "confirm"
        PROVE  (Len(wire') - i) + Cardinality(Sending') <= (pending - LOW) + Slack
    <2>1. CASE i = Len(wire) + 1
      BY <1>3, <1>4, <1>5, <1>6, <1>7, <2>1, WatermarkAssumption
    <2>2. CASE i # Len(wire) + 1
      <3>1. i \in 1..Len(wire) /\ wire[i] = "confirm"
        BY <1>6, <1>7, <2>2
      <3>2. (Len(wire) - i) + Cardinality(Sending) <= (pending - LOW) + Slack
        BY <3>1 DEF WindowInv
      <3> QED
        BY <1>3, <1>4, <1>6, <3>1, <3>2, WatermarkAssumption
    <2> QED
      BY <2>1, <2>2
  <1>8. Len(wire') + Cardinality(Sending') = Len(wire) + Cardinality(Sending)
        /\ Len(wire') \in Nat /\ Cardinality(Sending') \in Int
    BY <1>3, <1>4, <1>6
  <1>9. Len(rxq) \in Nat
    BY DEF TypeOK
  <1>10. Len(wire') + Len(rxq) + Cardinality(Sending') + txFailed <= pending + (HIGH - LOW) + Slack
    BY <1>4, <1>6, <1>8, <1>9, WatermarkAssumption, SMTT(30) DEF WindowInv
  <1>11. ASSUME NEW i \in 1..Len(rxq), rxq[i] = "confirm"
         PROVE  Len(wire') + (Len(rxq) - i) + Cardinality(Sending') <= (pending - LOW) + Slack
    <2>1. Len(wire) + (Len(rxq) - i) + Cardinality(Sending) <= (pending - LOW) + Slack
      BY <1>11 DEF WindowInv
    <2> QED
      BY <1>4, <1>6, <1>8, <1>9, <2>1, WatermarkAssumption, SMTT(30)
  <1>12. resumes > 0 => Len(wire') + Len(rxq) + Cardinality(Sending') <= (pending - LOW) + Slack
    BY <1>4, <1>6, <1>8, <1>9, WatermarkAssumption, SMTT(30) DEF WindowInv
  <1> QED
    BY <1>1, <1>7, <1>10, <1>11, <1>12 DEF WindowInv

(* qrtr_tx_flow_failed(): the flag takes the place of the lost message. *)
LEMMA WindowFailed ==
    ASSUME IsFiniteSet(Senders), TypeOK, SingleConfirm, WindowInv, strays = 0,
           NEW s \in Senders, TxFlowFailed(s)
    PROVE  WindowInv'
  <1>1. /\ UNCHANGED <<pending, wire, rxq, resumes, strays>> /\ pc[s] = "failed"
        /\ txFailed' \in {txFailed, 1} /\ Slack' = Slack
    BY DEF TxFlowFailed, remoteVars, Slack
  <1>2. Sending' = Sending \ {s} /\ s \in Sending
    BY <1>1 DEF TxFlowFailed, Sending, TypeOK
  <1>3. Cardinality(Sending') = Cardinality(Sending) - 1
    BY <1>2, SendingLeave
  <1>4. txFailed = 0
    BY <1>1 DEF SingleConfirm, AtSender, Confirming
  <1>5. /\ Slack \in Int /\ Cardinality(Sending) \in Nat
        /\ Len(wire) \in Nat /\ Len(rxq) \in Nat /\ pending \in Nat
    BY SendingCount, WatermarkAssumption DEF TypeOK
  <1> QED
    BY <1>1, <1>3, <1>4, <1>5, WatermarkAssumption, SMTT(30) DEF WindowInv

(* qrtr_endpoint_post(): a message moves to the end of the other queue, or *)
(* is dropped.                                                             *)
LEMMA WindowPost ==
    ASSUME IsFiniteSet(Senders), TypeOK, WindowInv, strays = 0, EndpointPost
    PROVE  WindowInv'
  <1>1. /\ UNCHANGED <<pending, txFailed, resumes, strays, pc>> /\ Slack' = Slack
        /\ wire # <<>> /\ wire' = Tail(wire) /\ rxq' \in {rxq, Append(rxq, Head(wire))}
    BY DEF EndpointPost, flowVars, Slack
  <1>2. Sending' = Sending
    BY <1>1 DEF Sending
  <1>3. /\ Slack \in Int /\ Cardinality(Sending) \in Nat /\ wire \in Seq(Flags) /\ rxq \in Seq(Flags)
        /\ pending \in Nat /\ txFailed \in {0, 1} /\ resumes \in Nat
    BY SendingCount, WatermarkAssumption DEF TypeOK
  <1>4. /\ Len(wire) \in Nat /\ Len(wire) > 0 /\ Len(wire') = Len(wire) - 1
        /\ \A i \in 1..(Len(wire) - 1) : wire'[i] = wire[i + 1]
        /\ Head(wire) = wire[1] /\ Head(wire) \in Flags
    BY <1>1, <1>3, QueueTail, ConfirmTail
  <1>5. ASSUME NEW i \in 1..Len(wire'), wire'[i] = "confirm"
        PROVE  (Len(wire') - i) + Cardinality(Sending) <= (pending - LOW) + Slack
    <2>1. i + 1 \in 1..Len(wire) /\ wire[i + 1] = "confirm"
      BY <1>4, <1>5
    <2>2. (Len(wire) - (i + 1)) + Cardinality(Sending) <= (pending - LOW) + Slack
      BY <2>1 DEF WindowInv
    <2> QED
      BY <1>3, <1>4, <2>2
  <1>6. CASE rxq' = rxq
    <2>1. Len(rxq) \in Nat
      BY <1>3
    <2> QED
      BY <1>1, <1>2, <1>3, <1>4, <1>5, <1>6, <2>1, WatermarkAssumption, SMTT(30) DEF WindowInv
  <1>7. CASE rxq' = Append(rxq, Head(wire))
    <2>1. /\ Len(rxq) \in Nat /\ Len(rxq') = Len(rxq) + 1
          /\ \A i \in 1..Len(rxq) : rxq'[i] = rxq[i]
          /\ rxq'[Len(rxq) + 1] = wire[1]
      BY <1>3, <1>4, <1>7, QueueAppend
    <2>2. ASSUME NEW i \in 1..Len(rxq'), rxq'[i] = "confirm"
          PROVE  Len(wire') + (Len(rxq') - i) + Cardinality(Sending) <= (pending - LOW) + Slack
      <3>1. CASE i = Len(rxq) + 1
        <4>1. (Len(wire) - 1) + Cardinality(Sending) <= (pending - LOW) + Slack
          BY <1>4, <2>1, <2>2, <3>1 DEF WindowInv
        <4> QED
          BY <1>3, <1>4, <2>1, <3>1, <4>1
      <3>2. CASE i # Len(rxq) + 1
        <4>1. i \in 1..Len(rxq) /\ rxq[i] = "confirm"
          BY <2>1, <2>2, <3>2
        <4>2. Len(wire) + (Len(rxq) - i) + Cardinality(Sending) <= (pending - LOW) + Slack
          BY <4>1 DEF WindowInv
        <4> QED
          BY <1>3, <1>4, <2>1, <4>2
      <3> QED
        BY <3>1, <3>2
    <2> QED
      BY <1>1, <1>2, <1>3, <1>4, <1>5, <2>1, <2>2, WatermarkAssumption, SMTT(30) DEF WindowInv
  <1> QED
    BY <1>1, <1>6, <1>7

(* qrtr_recvmsg(): what was before the confirmation has been read. *)
LEMMA WindowRecv ==
    ASSUME IsFiniteSet(Senders), TypeOK, WindowInv, strays = 0, RecvMsg
    PROVE  WindowInv'
  <1>1. /\ UNCHANGED <<pending, txFailed, wire, strays, pc>> /\ Slack' = Slack
        /\ rxq # <<>> /\ rxq' = Tail(rxq)
        /\ resumes' = resumes \/ Head(rxq) = "confirm"
    BY DEF RecvMsg, flowVars, Slack
  <1>2. Sending' = Sending
    BY <1>1 DEF Sending
  <1>3. /\ Slack \in Int /\ Cardinality(Sending) \in Nat /\ Len(wire) \in Nat /\ rxq \in Seq(Flags)
        /\ pending \in Nat /\ txFailed \in {0, 1} /\ resumes \in Nat
    BY SendingCount, WatermarkAssumption DEF TypeOK
  <1>4. /\ Len(rxq) \in Nat /\ Len(rxq) > 0 /\ Len(rxq') = Len(rxq) - 1
        /\ \A i \in 1..(Len(rxq) - 1) : rxq'[i] = rxq[i + 1]
        /\ Head(rxq) = rxq[1]
    BY <1>1, <1>3, QueueTail
  <1>5. ASSUME NEW i \in 1..Len(rxq'), rxq'[i] = "confirm"
        PROVE  Len(wire) + (Len(rxq') - i) + Cardinality(Sending) <= (pending - LOW) + Slack
    <2>1. i + 1 \in 1..Len(rxq) /\ rxq[i + 1] = "confirm"
      BY <1>4, <1>5
    <2>2. Len(wire) + (Len(rxq) - (i + 1)) + Cardinality(Sending) <= (pending - LOW) + Slack
      BY <2>1 DEF WindowInv
    <2> QED
      BY <1>3, <1>4, <2>2
  <1>6. ASSUME resumes' > 0
        PROVE  Len(wire) + Len(rxq') + Cardinality(Sending) <= (pending - LOW) + Slack
    <2>1. CASE Head(rxq) = "confirm"
      <3>1. Len(wire) + (Len(rxq) - 1) + Cardinality(Sending) <= (pending - LOW) + Slack
        BY <1>4, <2>1 DEF WindowInv
      <3> QED
        BY <1>3, <1>4, <3>1
    <2>2. CASE resumes' = resumes
      <3>1. Len(wire) + Len(rxq) + Cardinality(Sending) <= (pending - LOW) + Slack
        BY <1>6, <2>2 DEF WindowInv
      <3> QED
        BY <1>3, <1>4, <3>1, WatermarkAssumption
    <2> QED
      BY <1>1, <2>1, <2>2
  <1> QED
    BY <1>1, <1>2, <1>3, <1>4, <1>5, <1>6, WatermarkAssumption, SMTT(30) DEF WindowInv

(* qrtr_release() of the remote socket. *)
LEMMA WindowRelease ==
    ASSUME IsFiniteSet(Senders), TypeOK, WindowInv, strays = 0, RemoteRelease
    PROVE  WindowInv'
  <1>1. /\ UNCHANGED <<pending, txFailed, wire, resumes, strays, pc>> /\ Slack' = Slack
        /\ rxq' = <<>> /\ Len(rxq') = 0
    BY DEF RemoteRelease, flowVars, Slack
  <1>2. Sending' = Sending
    BY <1>1 DEF Sending
  <1>3. /\ Slack \in Int /\ Cardinality(Sending) \in Nat /\ Len(wire) \in Nat /\ Len(rxq) \in Nat
        /\ pending \in Nat /\ txFailed \in {0, 1}
    BY SendingCount, WatermarkAssumption DEF TypeOK
  <1> QED
    BY <1>1, <1>2, <1>3, WatermarkAssumption, SMTT(30) DEF WindowInv

(* qrtr_tx_resume(): a new window, on top of what is left of the last. *)
LEMMA WindowResume ==
    ASSUME IsFiniteSet(Senders), TypeOK, SingleConfirm, WindowInv, strays = 0, TxResume
    PROVE  WindowInv'
  <1>1. /\ resumes = 1 /\ txFailed = 0 /\ ~ConfirmIn(wire) /\ ~ConfirmIn(rxq)
    BY DEF TxResume, SingleConfirm, TypeOK
  <1>2. /\ UNCHANGED <<txFailed, wire, rxq, strays>> /\ Slack' = Slack /\ resumes' = 0
        /\ pending' \in {pending, 0}
    BY <1>1 DEF TxResume, Slack
  <1>3. Sending' = Sending
    BY DEF TxResume, Sending, TypeOK
  <1>4. /\ Slack \in Int /\ Cardinality(Sending) \in Nat /\ Len(wire) \in Nat /\ Len(rxq) \in Nat
        /\ pending \in 0..HIGH
    BY SendingCount DEF TypeOK
  <1>5. /\ \A i \in 1..Len(wire) : wire[i] # "confirm"
        /\ \A i \in 1..Len(rxq) : rxq[i] # "confirm"
    BY <1>1 DEF ConfirmIn, TypeOK
  <1>6. Len(wire) + Len(rxq) + Cardinality(Sending) <= (pending - LOW) + Slack
    BY <1>1 DEF WindowInv
  <1> QED
    BY <1>1, <1>2, <1>3, <1>4, <1>5, <1>6, WatermarkAssumption, SMTT(30) DEF WindowInv

(* However senders, failures, drops and the remote interleave, the         *)
(* messages of an accounted flow under way to the remote and unread there  *)
(* stay within ReceiveBound, for every number of sending sockets: the size *)
(* of sk_rcvbuf that qrtr_tx_wait()'s watermarks rely on.                  *)
THEOREM ReceiveSafety ==
    ASSUME IsFiniteSet(Senders)
    PROVE  Spec => []ReceiveBound
  <1>1. Init => WindowInv
    <2> SUFFICES ASSUME Init PROVE WindowInv
      OBVIOUS
    <2>1. Len(wire) = 0 /\ Len(rxq) = 0 /\ txFailed = 0 /\ pending = 0 /\ resumes = 0
      BY DEF Init
    <2>2. Sending = {}
      BY DEF Init, Sending
    <2>3. Cardinality(Sending) = 0 /\ Slack \in Int /\ Slack >= -1
      BY <2>2, SendingCount, FS_EmptySet
    <2> QED
      BY <2>1, <2>3, WatermarkAssumption, SMTT(30) DEF WindowInv
  <1>2. TypeOK /\ SingleConfirm /\ WindowInv /\ [Next]_vars => WindowInv'
    <2> SUFFICES ASSUME TypeOK, SingleConfirm, WindowInv, [Next]_vars, strays' = 0
                 PROVE  WindowInv'
      BY DEF WindowInv
    <2>p. ~PeekMsg
      BY DEF PeekMsg, TypeOK
    <2>1. strays = 0
      BY <2>p DEF TypeOK, Next, SendMsg, Block, Admit, Refuse, Timeout, Signal, XmitOk, XmitFail,
             TxFlowFailed, ReadNotice, EndpointPost, RecvMsg, RemoteRelease, RemoteBind,
             TxResume, Unregister, UnregisterWake, vars
    <2>2. CASE \E s \in Senders : Admit(s)
      BY <2>1, <2>2, WindowAdmit
    <2>3. CASE \E s \in Senders : XmitOk(s)
      BY <2>1, <2>3, WindowXmit
    <2>4. CASE \E s \in Senders : TxFlowFailed(s)
      BY <2>1, <2>4, WindowFailed
    <2>5. CASE EndpointPost
      BY <2>1, <2>5, WindowPost
    <2>6. CASE RecvMsg
      BY <2>1, <2>6, WindowRecv
    <2>7. CASE RemoteRelease
      BY <2>1, <2>7, WindowRelease
    <2>8. CASE TxResume
      BY <2>1, <2>8, WindowResume
    <2>9. CASE \E s \in Senders : \/ \E dontwait \in BOOLEAN : SendMsg(s, dontwait)
                                  \/ XmitFail(s)
      <3>1. PICK s \in Senders : \/ \E dontwait \in BOOLEAN : SendMsg(s, dontwait)
                                 \/ XmitFail(s)
        BY <2>9
      <3>2. /\ UNCHANGED <<pending, txFailed, wire, rxq, resumes, strays>>
            /\ \E v \in PCs : /\ pc' = [pc EXCEPT ![s] = v]
                              /\ v \in {"xmit", "xmitc", "failed"} => s \in Sending
        BY <2>1, <3>1 DEF SendMsg, XmitFail, TypeOK, PCs, Sending, flowVars, remoteVars
      <3>3. Sending' \subseteq Sending
        BY <3>2 DEF Sending, TypeOK
      <3> QED
        BY <3>2, <3>3, WindowSame
    <2>10. CASE \/ \E s \in Senders : Block(s) \/ Refuse(s) \/ Timeout(s) \/ Signal(s) \/ ReadNotice(s)
                \/ RemoteBind \/ Unregister \/ UnregisterWake \/ UNCHANGED vars
      <3>1. UNCHANGED <<pending, txFailed, wire, rxq, resumes, strays>>
        BY <2>10, QuietActions
      <3>2. Sending' \subseteq Sending
        BY <2>10 DEF Sending, TypeOK, Block, Refuse, Timeout, Signal, ReadNotice, RemoteBind,
                     Unregister, UnregisterWake, vars
      <3> QED
        BY <3>1, <3>2, WindowSame
    <2> QED
      BY <2>p, <2>2, <2>3, <2>4, <2>5, <2>6, <2>7, <2>8, <2>9, <2>10 DEF Next
  <1>3. TypeOK /\ WindowInv => ReceiveBound
    <2> SUFFICES ASSUME TypeOK, WindowInv, strays = 0
                 PROVE  Len(wire) + Len(rxq) <= 2 * HIGH - LOW + Cardinality(Senders) - 1
      BY DEF ReceiveBound
    <2>1. Len(wire) + Len(rxq) + Cardinality(Sending) + txFailed <= pending + (HIGH - LOW) + Slack
      BY DEF WindowInv
    <2>2. /\ Cardinality(Sending) \in Nat /\ Cardinality(Senders) \in Nat
          /\ Slack = Cardinality(Senders) - 1
      BY SendingCount DEF Slack
    <2>3. Len(wire) \in Nat /\ Len(rxq) \in Nat /\ pending \in 0..HIGH /\ txFailed \in {0, 1}
      BY DEF TypeOK
    <2> QED
      BY <2>1, <2>2, <2>3, WatermarkAssumption
  <1> QED
    BY <1>1, <1>2, <1>3, TypeCorrect, SingleConfirmSafety, PTL DEF Spec
=============================================================================
