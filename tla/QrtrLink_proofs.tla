--------------------------- MODULE QrtrLink_proofs --------------------------
(***************************************************************************)
(* Proofs about the MHI, SMD and tun endpoints, for rings of every size    *)
(* and any number of packets: an MHI endpoint's references to sockets are  *)
(* exact, a sender that waits will be woken, packets are only posted to    *)
(* and sent through an endpoint that is there, a packet is refused by a    *)
(* full ring at most twice, and a removal leaves nothing behind.           *)
(***************************************************************************)
EXTENDS QrtrLink, TLAPS

(* Where the drivers keep their hands off: what the kind of the link rules *)
(* out.                                                                    *)
KindInv ==
    /\ kind = "mhi" => wpc # "xmit" /\ ppc # "purge"
    /\ kind # "mhi" =>
          /\ ppc \notin {"prepare", "suspend", "drain", "stop", "flush", "nap", "asleep"}
          /\ wpc \in {"idle", "xmit"} /\ ucb = "no" /\ chan = "off"
    /\ kind = "smd" => Queued = 0 /\ ppc # "purge"
    /\ kind = "tun" => ppc # "clear"

(* What is there at each step of the probe and of the removal. *)
StageInv ==
    /\ wpc # "idle" => ep
    /\ ppc = "register" => ~ep /\ ~node /\ Queued = 0
    /\ ppc = "data" /\ kind # "smd" => ~ep /\ ~node /\ Queued = 0
    /\ ppc = "data" /\ kind = "smd" => node
    /\ ppc \in {"prepare", "up", "suspend", "drain", "unreg", "nap", "asleep"} => node
    /\ ppc \in {"release", "stop", "flush", "clear", "purge", "gone"} => ~ep
    /\ ppc \in {"stop", "flush", "clear", "purge", "gone"} => ~node
    /\ ppc \in {"clear", "gone"} => Queued = 0 /\ ucb = "no" /\ chan = "off"

(* The channel is there from prepared on, until the last step but one. *)
ChanInv ==
    /\ ~prepared => chan = "off" /\ wpc \in {"idle", "hold", "xmit"}
    /\ prepared /\ chan = "off" /\ slept = 0 => ppc \in {"clear", "gone"}
    /\ ppc \in {"nap", "asleep"} => slept = 1
    /\ ppc \in {"data", "register", "prepare"} => ~prepared
    /\ kind = "mhi" /\ ppc \in {"up", "suspend", "drain", "nap", "asleep"} => prepared

(* A receive callback runs only where an endpoint is. *)
RecvInv ==
    /\ kind = "mhi" /\ ppc \in {"unreg", "release", "stop", "flush", "clear", "gone"}
          => rpc = "idle" /\ chan # "on"
    /\ kind = "mhi" /\ ~prepared => rpc = "idle"
    /\ ppc = "drain" => chan # "on"
    /\ kind = "mhi" /\ rpc # "idle" => node
    /\ kind = "smd" /\ data => node \/ ppc \in {"clear", "gone"}
    /\ kind = "tun" /\ rpc # "idle" => ppc = "up"

LinkInv ==
    TypeOK /\ KindInv /\ StageInv /\ ChanInv /\ RecvInv /\ RefExact /\ WaitCovered /\ PostSafe

-----------------------------------------------------------------------------
(* The initial states satisfy the invariant. *)
LEMMA LinkInit == Init => LinkInv
  <1> SUFFICES ASSUME Init
               PROVE  LinkInv
    OBVIOUS
  <1>1. kind = "mhi" \/ kind = "smd" \/ kind = "tun"
    BY LinkAssumption DEF Init, AllKinds
  <1>2. \/ ppc = "data" /\ kind # "smd"
        \/ ppc = "register" /\ kind = "smd"
    <2>1. kind = "mhi" => Path[kind].probe = "data"
      BY DEF Path
    <2>2. kind = "tun" => Path[kind].probe = "data"
      BY DEF Path
    <2>3. kind = "smd" => Path[kind].probe = "register"
      BY DEF Path
    <2>4. QED
      BY <1>1, <2>1, <2>2, <2>3 DEF Init
  <1>3. /\ data \in BOOLEAN /\ ep \in BOOLEAN /\ node \in BOOLEAN
        /\ prepared \in BOOLEAN /\ ringfull \in BOOLEAN /\ err \in BOOLEAN
    BY Zenon DEF Init
  <1>4. TypeOK
    BY LinkAssumption, <1>2, <1>3 DEF Init, TypeOK, Owners, SendPCs, Places
  <1>5. KindInv /\ StageInv /\ ChanInv /\ RecvInv
    BY <1>1, <1>2 DEF Init, KindInv, StageInv, ChanInv, RecvInv, Queued, Owners
  <1>6. RefExact /\ WaitCovered /\ PostSafe
    BY DEF Init, RefExact, WaitCovered, PostSafe, InFlight, Owners
  <1>7. QED
    BY <1>4, <1>5, <1>6 DEF LinkInv

(* Every step preserves it. *)
LEMMA LinkStep == LinkInv /\ [Next]_vars => LinkInv'
  <1> SUFFICES ASSUME LinkInv, [Next]_vars
               PROVE  LinkInv'
    OBVIOUS
  <1> USE DEF LinkInv, TypeOK, Owners, Places, SendPCs, Queued, Ref
  <1>k. kind = "mhi" \/ kind = "smd" \/ kind = "tun"
    BY LinkAssumption DEF AllKinds
  <1>f. ASSUME Fail, kind = "mhi", wpc # "idle" PROVE LinkInv'
    <2> USE <1>f DEF Fail, lifeVars, busVars, sendVars, histVars
    <2>1. RefExact'
      <3>1. skb = "sock" => InFlight' = InFlight - 1
        BY DEF InFlight
      <3>2. skb # "sock" => InFlight' = InFlight
        BY DEF InFlight
      <3>3. InFlight \in Int
        BY DEF InFlight
      <3>4. QED
        BY <3>1, <3>2, <3>3 DEF RefExact
    <2>2. TypeOK'
      <3>1. skb = "sock" => holds >= 1
        BY DEF RefExact, InFlight
      <3>2. QED
        BY <3>1
    <2>3. KindInv' /\ StageInv' /\ ChanInv' /\ RecvInv'
      BY DEF KindInv, StageInv, ChanInv, RecvInv
    <2>4. WaitCovered' /\ PostSafe'
      BY DEF WaitCovered, PostSafe
    <2>5. QED
      BY <2>1, <2>2, <2>3, <2>4
  <1>1. ASSUME SetData PROVE LinkInv'
    <2> USE <1>k, <1>1 DEF SetData, After, Goto, Path, lifeVars, busVars, sendVars, histVars
    <2>1. TypeOK'
      <3>1. ppc' \in Places
        BY DEF KindInv
      <3>2. QED
        BY <3>1
    <2>2. KindInv' /\ StageInv' /\ ChanInv' /\ RecvInv'
      BY DEF KindInv, StageInv, ChanInv, RecvInv
    <2>3. RefExact'
      BY DEF RefExact, InFlight, KindInv, StageInv
    <2>4. WaitCovered' /\ PostSafe'
      BY DEF WaitCovered, PostSafe, KindInv, StageInv, RecvInv
    <2>5. QED
      BY <2>1, <2>2, <2>3, <2>4
  <1>2. ASSUME Register PROVE LinkInv'
    <2> USE <1>k, <1>2 DEF Register, After, Goto, Path, lifeVars, busVars, sendVars, histVars
    <2>1. TypeOK'
      <3>1. ppc' \in Places
        BY DEF KindInv
      <3>2. ep' \in BOOLEAN /\ node' \in BOOLEAN
        BY Zenon
      <3>3. QED
        BY <3>1, <3>2
    <2>2. KindInv' /\ StageInv' /\ ChanInv' /\ RecvInv'
      BY DEF KindInv, StageInv, ChanInv, RecvInv
    <2>3. RefExact'
      BY DEF RefExact, InFlight, KindInv, StageInv
    <2>4. WaitCovered' /\ PostSafe'
      BY DEF WaitCovered, PostSafe, KindInv, StageInv, RecvInv
    <2>5. QED
      BY <2>1, <2>2, <2>3, <2>4
  <1>3. ASSUME Prepare PROVE LinkInv'
    <2> USE <1>k, <1>3 DEF Prepare, After, Goto, Path, lifeVars, busVars, sendVars, histVars
    <2>1. TypeOK'
      <3>1. ppc' \in Places
        BY DEF KindInv
      <3>2. prepared' \in BOOLEAN
        BY Zenon
      <3>3. QED
        BY <3>1, <3>2
    <2>2. KindInv' /\ StageInv' /\ ChanInv' /\ RecvInv'
      BY DEF KindInv, StageInv, ChanInv, RecvInv
    <2>3. RefExact'
      BY DEF RefExact, InFlight, KindInv, StageInv
    <2>4. WaitCovered' /\ PostSafe'
      BY DEF WaitCovered, PostSafe, KindInv, StageInv, RecvInv
    <2>5. QED
      BY <2>1, <2>2, <2>3, <2>4
  <1>4. ASSUME Remove PROVE LinkInv'
    <2> USE <1>k, <1>4 DEF Remove, After, Goto, Path, lifeVars, busVars, sendVars, histVars
    <2>1. TypeOK'
      <3>1. ppc' \in Places
        BY DEF KindInv
      <3>2. QED
        BY <3>1
    <2>2. KindInv' /\ StageInv' /\ ChanInv' /\ RecvInv'
      BY DEF KindInv, StageInv, ChanInv, RecvInv
    <2>3. RefExact'
      BY DEF RefExact, InFlight, KindInv, StageInv
    <2>4. WaitCovered' /\ PostSafe'
      BY DEF WaitCovered, PostSafe, KindInv, StageInv, RecvInv
    <2>5. QED
      BY <2>1, <2>2, <2>3, <2>4
  <1>5. ASSUME Hold PROVE LinkInv'
    <2> USE <1>k, <1>5 DEF Hold, After, Goto, Path, lifeVars, busVars, sendVars, histVars
    <2>1. TypeOK'
      <3>1. ppc' \in Places
        BY DEF KindInv
      <3>2. QED
        BY <3>1
    <2>2. KindInv' /\ StageInv' /\ ChanInv' /\ RecvInv'
      BY DEF KindInv, StageInv, ChanInv, RecvInv
    <2>3. RefExact'
      BY DEF RefExact, InFlight, KindInv, StageInv
    <2>4. WaitCovered' /\ PostSafe'
      BY DEF WaitCovered, PostSafe, KindInv, StageInv, RecvInv
    <2>5. QED
      BY <2>1, <2>2, <2>3, <2>4
  <1>6. ASSUME NEW o \in Owners, Drain(o) PROVE LinkInv'
    <2> USE <1>k, <1>6 DEF Drain, lifeVars, busVars, sendVars, histVars
    <2>1. TypeOK'
      BY DEF KindInv, RefExact, InFlight
    <2>2. KindInv' /\ StageInv' /\ ChanInv' /\ RecvInv'
      BY DEF KindInv, StageInv, ChanInv, RecvInv
    <2>3. RefExact'
      BY DEF RefExact, InFlight, KindInv, StageInv
    <2>4. WaitCovered' /\ PostSafe'
      BY DEF WaitCovered, PostSafe, KindInv, StageInv, RecvInv
    <2>5. QED
      BY <2>1, <2>2, <2>3, <2>4
  <1>7. ASSUME Drained PROVE LinkInv'
    <2> USE <1>k, <1>7 DEF Drained, After, Goto, Path, lifeVars, busVars, sendVars, histVars
    <2>1. TypeOK'
      <3>1. ppc' \in Places
        BY DEF KindInv
      <3>2. QED
        BY <3>1
    <2>2. KindInv' /\ StageInv' /\ ChanInv' /\ RecvInv'
      BY DEF KindInv, StageInv, ChanInv, RecvInv, Quiet
    <2>3. RefExact'
      BY DEF RefExact, InFlight, KindInv, StageInv
    <2>4. WaitCovered' /\ PostSafe'
      BY DEF WaitCovered, PostSafe, KindInv, StageInv, RecvInv
    <2>5. QED
      BY <2>1, <2>2, <2>3, <2>4
  <1>8. ASSUME Flushed PROVE LinkInv'
    <2> USE <1>k, <1>8 DEF Flushed, After, Goto, Path, lifeVars, busVars, sendVars, histVars
    <2>1. TypeOK'
      <3>1. ppc' \in Places
        BY DEF KindInv
      <3>2. QED
        BY <3>1
    <2>2. KindInv' /\ StageInv' /\ ChanInv' /\ RecvInv'
      BY DEF KindInv, StageInv, ChanInv, RecvInv, Quiet
    <2>3. RefExact'
      BY DEF RefExact, InFlight, KindInv, StageInv
    <2>4. WaitCovered' /\ PostSafe'
      BY DEF WaitCovered, PostSafe, KindInv, StageInv, RecvInv
    <2>5. QED
      BY <2>1, <2>2, <2>3, <2>4
  <1>9. ASSUME Unregister PROVE LinkInv'
    <2> USE <1>k, <1>9 DEF Unregister, After, Goto, Path, lifeVars, busVars, sendVars, histVars
    <2>1. TypeOK'
      <3>1. ppc' \in Places
        BY DEF KindInv
      <3>2. ep' \in BOOLEAN
        BY Zenon
      <3>3. QED
        BY <3>1, <3>2
    <2>2. KindInv' /\ StageInv' /\ ChanInv' /\ RecvInv'
      BY DEF KindInv, StageInv, ChanInv, RecvInv
    <2>3. RefExact'
      BY DEF RefExact, InFlight, KindInv, StageInv
    <2>4. WaitCovered' /\ PostSafe'
      BY DEF WaitCovered, PostSafe, KindInv, StageInv, RecvInv
    <2>5. QED
      BY <2>1, <2>2, <2>3, <2>4
  <1>10. ASSUME Release PROVE LinkInv'
    <2> USE <1>k, <1>10 DEF Release, After, Goto, Path, lifeVars, busVars, sendVars, histVars
    <2>1. TypeOK'
      <3>1. ppc' \in Places
        BY DEF KindInv
      <3>2. node' \in BOOLEAN
        BY Zenon
      <3>3. QED
        BY <3>1, <3>2
    <2>2. KindInv' /\ StageInv' /\ ChanInv' /\ RecvInv'
      BY DEF KindInv, StageInv, ChanInv, RecvInv
    <2>3. RefExact'
      BY DEF RefExact, InFlight, KindInv, StageInv
    <2>4. WaitCovered' /\ PostSafe'
      BY DEF WaitCovered, PostSafe, KindInv, StageInv, RecvInv
    <2>5. QED
      BY <2>1, <2>2, <2>3, <2>4
  <1>11. ASSUME Clear PROVE LinkInv'
    <2> USE <1>k, <1>11 DEF Clear, After, Goto, Path, lifeVars, busVars, sendVars, histVars
    <2>1. TypeOK'
      <3>1. ppc' \in Places
        BY DEF KindInv
      <3>2. data' \in BOOLEAN
        BY Zenon
      <3>3. QED
        BY <3>1, <3>2
    <2>2. KindInv' /\ StageInv' /\ ChanInv' /\ RecvInv'
      BY DEF KindInv, StageInv, ChanInv, RecvInv
    <2>3. RefExact'
      BY DEF RefExact, InFlight, KindInv, StageInv
    <2>4. WaitCovered' /\ PostSafe'
      BY DEF WaitCovered, PostSafe, KindInv, StageInv, RecvInv
    <2>5. QED
      BY <2>1, <2>2, <2>3, <2>4
  <1>12. ASSUME Purge PROVE LinkInv'
    <2> USE <1>k, <1>12 DEF Purge, After, Goto, Path, lifeVars, busVars, sendVars, histVars
    <2>1. TypeOK'
      <3>1. ppc' \in Places
        BY DEF KindInv
      <3>2. QED
        BY <3>1
    <2>2. KindInv' /\ StageInv' /\ ChanInv' /\ RecvInv'
      BY DEF KindInv, StageInv, ChanInv, RecvInv
    <2>3. RefExact'
      BY DEF RefExact, InFlight, KindInv, StageInv
    <2>4. WaitCovered' /\ PostSafe'
      BY DEF WaitCovered, PostSafe, KindInv, StageInv, RecvInv
    <2>5. QED
      BY <2>1, <2>2, <2>3, <2>4
  <1>13. ASSUME Suspend PROVE LinkInv'
    <2> USE <1>k, <1>13 DEF Suspend, Goto, lifeVars, busVars, sendVars, histVars
    <2>1. TypeOK'
      BY DEF KindInv, RefExact, InFlight
    <2>2. KindInv' /\ StageInv' /\ ChanInv' /\ RecvInv'
      BY DEF KindInv, StageInv, ChanInv, RecvInv
    <2>3. RefExact'
      BY DEF RefExact, InFlight, KindInv, StageInv
    <2>4. WaitCovered' /\ PostSafe'
      BY DEF WaitCovered, PostSafe, KindInv, StageInv, RecvInv
    <2>5. QED
      BY <2>1, <2>2, <2>3, <2>4
  <1>14. ASSUME Suspended PROVE LinkInv'
    <2> USE <1>k, <1>14 DEF Suspended, Goto, lifeVars, busVars, sendVars, histVars
    <2>1. TypeOK'
      BY DEF KindInv, RefExact, InFlight
    <2>2. KindInv' /\ StageInv' /\ ChanInv' /\ RecvInv'
      BY DEF KindInv, StageInv, ChanInv, RecvInv, Quiet
    <2>3. RefExact'
      BY DEF RefExact, InFlight, KindInv, StageInv
    <2>4. WaitCovered' /\ PostSafe'
      BY DEF WaitCovered, PostSafe, KindInv, StageInv, RecvInv
    <2>5. QED
      BY <2>1, <2>2, <2>3, <2>4
  <1>15. ASSUME Resume PROVE LinkInv'
    <2> USE <1>k, <1>15 DEF Resume, Goto, lifeVars, busVars, sendVars, histVars
    <2>1. TypeOK'
      BY DEF KindInv, RefExact, InFlight
    <2>2. KindInv' /\ StageInv' /\ ChanInv' /\ RecvInv'
      BY DEF KindInv, StageInv, ChanInv, RecvInv
    <2>3. RefExact'
      BY DEF RefExact, InFlight, KindInv, StageInv
    <2>4. WaitCovered' /\ PostSafe'
      BY DEF WaitCovered, PostSafe, KindInv, StageInv, RecvInv
    <2>5. QED
      BY <2>1, <2>2, <2>3, <2>4
  <1>16. ASSUME Crash PROVE LinkInv'
    <2> USE <1>k, <1>16 DEF Crash, lifeVars, busVars, sendVars, histVars
    <2>1. TypeOK'
      BY DEF KindInv, RefExact, InFlight
    <2>2. KindInv' /\ StageInv' /\ ChanInv' /\ RecvInv'
      BY DEF KindInv, StageInv, ChanInv, RecvInv
    <2>3. RefExact'
      BY DEF RefExact, InFlight, KindInv, StageInv
    <2>4. WaitCovered' /\ PostSafe'
      BY DEF WaitCovered, PostSafe, KindInv, StageInv, RecvInv
    <2>5. QED
      BY <2>1, <2>2, <2>3, <2>4
  <1>17. ASSUME NEW o \in Owners, Send(o) PROVE LinkInv'
    <2> USE <1>k, <1>17 DEF Send, Held, lifeVars, busVars, sendVars, histVars
    <2>1. TypeOK'
      BY LinkAssumption
    <2>2. KindInv' /\ StageInv' /\ ChanInv' /\ RecvInv'
      BY DEF KindInv, StageInv, ChanInv, RecvInv
    <2>3. RefExact'
      BY DEF RefExact, InFlight, KindInv, StageInv
    <2>4. WaitCovered' /\ PostSafe'
      BY DEF WaitCovered, PostSafe, KindInv, StageInv, RecvInv
    <2>5. QED
      BY <2>1, <2>2, <2>3, <2>4
  <1>18. ASSUME WaitPrepared PROVE LinkInv'
    <2>1. kind = "mhi" /\ wpc # "idle"
      BY <1>k, <1>18 DEF WaitPrepared, KindInv
    <2>2. CASE Fail
      BY <1>f, <2>1, <2>2
    <2>3. CASE ~Fail
      <3> USE <1>18, <2>1, <2>3 DEF WaitPrepared, lifeVars, busVars, sendVars, histVars
      <3>1. TypeOK'
        OBVIOUS
      <3>2. KindInv' /\ StageInv' /\ ChanInv' /\ RecvInv'
        BY DEF KindInv, StageInv, ChanInv, RecvInv
      <3>3. RefExact'
        BY DEF RefExact, InFlight
      <3>4. WaitCovered' /\ PostSafe'
        BY DEF WaitCovered, PostSafe
      <3>5. QED
        BY <3>1, <3>2, <3>3, <3>4
    <2>4. QED
      BY <2>2, <2>3
  <1>19. ASSUME QueueTest PROVE LinkInv'
    <2>1. kind = "mhi" /\ wpc # "idle"
      BY <1>k, <1>19 DEF QueueTest, KindInv
    <2>2. CASE Fail
      BY <1>f, <2>1, <2>2
    <2>3. CASE ~Fail
      <3> USE <1>19, <2>1, <2>3 DEF QueueTest, lifeVars, busVars, sendVars, histVars
      <3>1. TypeOK'
        OBVIOUS
      <3>2. KindInv' /\ StageInv' /\ ChanInv' /\ RecvInv'
        BY DEF KindInv, StageInv, ChanInv, RecvInv
      <3>3. RefExact'
        BY DEF RefExact, InFlight
      <3>4. WaitCovered' /\ PostSafe'
        BY DEF WaitCovered, PostSafe
      <3>5. QED
        BY <3>1, <3>2, <3>3, <3>4
    <2>4. QED
      BY <2>2, <2>3
  <1>20. ASSUME QueueAdd PROVE LinkInv'
    <2>1. kind = "mhi" /\ wpc # "idle"
      BY <1>k, <1>20 DEF QueueAdd, KindInv
    <2>2. CASE Fail
      BY <1>f, <2>1, <2>2
    <2>3. CASE ~Fail
      <3> USE <1>20, <2>1, <2>3 DEF QueueAdd, lifeVars, busVars, sendVars, histVars
      <3>1. TypeOK'
        OBVIOUS
      <3>2. KindInv' /\ StageInv' /\ ChanInv' /\ RecvInv'
        BY DEF KindInv, StageInv, ChanInv, RecvInv
      <3>3. RefExact'
        BY DEF RefExact, InFlight
      <3>4. WaitCovered' /\ PostSafe'
        BY DEF WaitCovered, PostSafe
      <3>5. QED
        BY <3>1, <3>2, <3>3, <3>4
    <2>4. QED
      BY <2>2, <2>3
  <1>21. ASSUME Again PROVE LinkInv'
    <2> USE <1>k, <1>21 DEF Again, Reinit, lifeVars, busVars, sendVars, histVars
    <2>1. TypeOK'
      <3>1. ringfull' \in BOOLEAN
        BY Zenon
      <3>2. QED
        BY <3>1
    <2>2. KindInv' /\ StageInv' /\ ChanInv' /\ RecvInv'
      BY DEF KindInv, StageInv, ChanInv, RecvInv
    <2>3. RefExact'
      BY DEF RefExact, InFlight, KindInv, StageInv
    <2>4. WaitCovered' /\ PostSafe'
      BY DEF WaitCovered, PostSafe, KindInv, StageInv, RecvInv
    <2>5. QED
      BY <2>1, <2>2, <2>3, <2>4
  <1>22. ASSUME Wake PROVE LinkInv'
    <2> USE <1>k, <1>22 DEF Wake, lifeVars, busVars, sendVars, histVars
    <2>1. TypeOK'
      BY DEF KindInv, RefExact, InFlight
    <2>2. KindInv' /\ StageInv' /\ ChanInv' /\ RecvInv'
      BY DEF KindInv, StageInv, ChanInv, RecvInv
    <2>3. RefExact'
      BY DEF RefExact, InFlight, KindInv, StageInv
    <2>4. WaitCovered' /\ PostSafe'
      BY DEF WaitCovered, PostSafe, KindInv, StageInv, RecvInv
    <2>5. QED
      BY <2>1, <2>2, <2>3, <2>4
  <1>23. ASSUME Xmit PROVE LinkInv'
    <2> USE <1>k, <1>23 DEF Xmit, lifeVars, busVars, sendVars, histVars
    <2>1. TypeOK'
      BY DEF KindInv, RefExact, InFlight
    <2>2. KindInv' /\ StageInv' /\ ChanInv' /\ RecvInv'
      BY DEF KindInv, StageInv, ChanInv, RecvInv
    <2>3. RefExact'
      BY DEF RefExact, InFlight, KindInv, StageInv
    <2>4. WaitCovered' /\ PostSafe'
      BY DEF WaitCovered, PostSafe, KindInv, StageInv, RecvInv
    <2>5. QED
      BY <2>1, <2>2, <2>3, <2>4
  <1>24. ASSUME NEW o \in Owners, TunRead(o) PROVE LinkInv'
    <2> USE <1>k, <1>24 DEF TunRead, lifeVars, busVars, sendVars, histVars
    <2>1. TypeOK'
      BY DEF KindInv, RefExact, InFlight
    <2>2. KindInv' /\ StageInv' /\ ChanInv' /\ RecvInv'
      BY DEF KindInv, StageInv, ChanInv, RecvInv
    <2>3. RefExact'
      BY DEF RefExact, InFlight, KindInv, StageInv
    <2>4. WaitCovered' /\ PostSafe'
      BY DEF WaitCovered, PostSafe, KindInv, StageInv, RecvInv
    <2>5. QED
      BY <2>1, <2>2, <2>3, <2>4
  <1>25. ASSUME NEW o \in Owners, UlEvent(o) PROVE LinkInv'
    <2> USE <1>k, <1>25 DEF UlEvent, lifeVars, busVars, sendVars, histVars
    <2>1. TypeOK'
      BY DEF KindInv, RefExact, InFlight
    <2>2. KindInv' /\ StageInv' /\ ChanInv' /\ RecvInv'
      BY DEF KindInv, StageInv, ChanInv, RecvInv
    <2>3. RefExact'
      BY DEF RefExact, InFlight, KindInv, StageInv
    <2>4. WaitCovered' /\ PostSafe'
      BY DEF WaitCovered, PostSafe, KindInv, StageInv, RecvInv
    <2>5. QED
      BY <2>1, <2>2, <2>3, <2>4
  <1>26. ASSUME UlCallback PROVE LinkInv'
    <2> USE <1>k, <1>26 DEF UlCallback, Put, Complete, lifeVars, busVars, sendVars, histVars
    <2>1. TypeOK'
      BY DEF KindInv, RefExact, InFlight
    <2>2. KindInv' /\ StageInv' /\ ChanInv' /\ RecvInv'
      BY DEF KindInv, StageInv, ChanInv, RecvInv
    <2>3. RefExact'
      BY DEF RefExact, InFlight, KindInv, StageInv
    <2>4. WaitCovered' /\ PostSafe'
      BY DEF WaitCovered, PostSafe, KindInv, StageInv, RecvInv
    <2>5. QED
      BY <2>1, <2>2, <2>3, <2>4
  <1>27. ASSUME RxEvent PROVE LinkInv'
    <2> USE <1>k, <1>27 DEF RxEvent, lifeVars, busVars, sendVars, histVars
    <2>1. TypeOK'
      BY DEF KindInv, RefExact, InFlight
    <2>2. KindInv' /\ StageInv' /\ ChanInv' /\ RecvInv'
      <3>1. KindInv' /\ StageInv' /\ ChanInv'
        BY DEF KindInv, StageInv, ChanInv
      <3>2. kind = "mhi" => RecvInv'
        <4>1. kind = "mhi" => chan = "on"
          OBVIOUS
        <4>2. kind = "mhi" => prepared /\ node
          BY <4>1 DEF ChanInv, StageInv, RecvInv, KindInv
        <4>3. QED
          BY <4>1, <4>2 DEF RecvInv
      <3>3. kind # "mhi" => RecvInv'
        BY DEF RecvInv
      <3>4. QED
        BY <3>1, <3>2, <3>3
    <2>3. RefExact'
      BY DEF RefExact, InFlight, KindInv, StageInv
    <2>4. WaitCovered' /\ PostSafe'
      BY DEF WaitCovered, PostSafe, KindInv, StageInv, RecvInv
    <2>5. QED
      BY <2>1, <2>2, <2>3, <2>4
  <1>28. ASSUME RxCallback PROVE LinkInv'
    <2> USE <1>k, <1>28 DEF RxCallback, lifeVars, busVars, sendVars, histVars
    <2>1. TypeOK'
      BY DEF KindInv, RefExact, InFlight
    <2>2. KindInv' /\ StageInv' /\ ChanInv' /\ RecvInv'
      BY DEF KindInv, StageInv, ChanInv, RecvInv
    <2>3. RefExact'
      BY DEF RefExact, InFlight, KindInv, StageInv
    <2>4. WaitCovered' /\ PostSafe'
      BY DEF WaitCovered, PostSafe, KindInv, StageInv, RecvInv
    <2>5. QED
      BY <2>1, <2>2, <2>3, <2>4
  <1>29. ASSUME Posted PROVE LinkInv'
    <2> USE <1>k, <1>29 DEF Posted, lifeVars, busVars, sendVars, histVars
    <2>1. TypeOK'
      BY DEF KindInv, RefExact, InFlight
    <2>2. KindInv' /\ StageInv' /\ ChanInv' /\ RecvInv'
      BY DEF KindInv, StageInv, ChanInv, RecvInv
    <2>3. RefExact'
      BY DEF RefExact, InFlight, KindInv, StageInv
    <2>4. WaitCovered' /\ PostSafe'
      BY DEF WaitCovered, PostSafe, KindInv, StageInv, RecvInv
    <2>5. QED
      BY <2>1, <2>2, <2>3, <2>4
  <1>30. CASE UNCHANGED vars
    BY <1>30 DEF vars, lifeVars, busVars, sendVars, histVars, KindInv, StageInv, ChanInv, RecvInv,
              RefExact, InFlight, WaitCovered, PostSafe
  <1>31. QED
    BY <1>1, <1>2, <1>3, <1>4, <1>5, <1>6, <1>7, <1>8, <1>9, <1>10, <1>11, <1>12, <1>13, <1>14, <1>15, <1>16, <1>17, <1>18, <1>19, <1>20, <1>21, <1>22, <1>23, <1>24, <1>25, <1>26, <1>27, <1>28, <1>29, <1>30
    DEF Next, Lifecycle, Sender, Events, Device

(* The invariant holds of every reachable state. *)
LEMMA LinkInvariant == Spec => []LinkInv
  BY LinkInit, LinkStep, PTL DEF Spec

-----------------------------------------------------------------------------
(* LinkTypes: the type invariant of the three links, in which the number   *)
(* of references an MHI endpoint holds never becomes negative.             *)
THEOREM LinkTypes == Spec => []TypeOK
  BY LinkInvariant, PTL DEF LinkInv

(* LinkRefs: an MHI endpoint holds exactly one reference to the socket of  *)
(* each packet it has, plus those its retries leaked                       *)
(* (__qcom_mhi_qrtr_send, qcom_mhi_qrtr_ul_callback).                      *)
THEOREM LinkRefs == Spec => []RefExact
  BY LinkInvariant, PTL DEF LinkInv

(* LinkWaits: a sender that waits for a full ring to drain will be woken,  *)
(* unless the last completion came before it asked (qcom_mhi_qrtr_send).   *)
THEOREM LinkWaits == Spec => []WaitCovered
  BY LinkInvariant, PTL DEF LinkInv

(* LinkPosts: a received packet is posted only to an endpoint with a node, *)
(* except by SMD during its removal (qrtr_endpoint_post).                  *)
THEOREM LinkPosts == Spec => []PostSafe
  BY LinkInvariant, PTL DEF LinkInv

(* LinkRings: no packet is added to a ring that is not there, unless the   *)
(* system was suspended (mhi_gen_tre).                                     *)
THEOREM LinkRings == Spec => []RingThere
  <1>1. LinkInv => RingThere
    BY DEF LinkInv, RingThere, StageInv, ChanInv
  <1>2. QED
    BY <1>1, LinkInvariant, PTL

(* LinkRemoved: a removed link leaves neither packets nor a node nor a     *)
(* caller of xmit behind (qcom_mhi_qrtr_remove, qcom_smd_qrtr_remove,      *)
(* qrtr_tun_release).                                                      *)
THEOREM LinkRemoved == Spec => []RemovedClean
  <1>1. LinkInv => RemovedClean
    BY DEF LinkInv, RemovedClean, StageInv
  <1>2. QED
    BY <1>1, LinkInvariant, PTL

-----------------------------------------------------------------------------
(* How often a packet is refused.  The sender has ep_lock, so nobody else  *)
(* adds to the ring.                                                       *)

(* What wakes a sender was in the ring, or had just left it. *)
Drawn == Queued < Cap \/ ucb = "no"

RetryInv ==
    /\ kind # "mhi" => tries = 0
    /\ kind = "mhi" =>
        /\ Queued <= Cap /\ tries <= 2
        /\ chan = "off" => Queued = 0
        /\ ppc = "asleep" => chan = "off"
        /\ wpc = "gen" => Queued < Cap
        /\ wpc = "again" => tries <= 1
        /\ wpc \in {"hold", "queue", "again"} /\ tries = 1 => Drawn
        /\ wpc \in {"hold", "queue"} /\ tries = 2 => Queued < Cap
        /\ wpc = "wait" => tries > 0
        /\ wpc = "wait" /\ tries = 1 /\ ringfull => Drawn
        /\ wpc = "wait" /\ tries = 2 => Drawn /\ (ringfull => Queued < Cap)

LEMMA RetryInit == Init => RetryInv
  BY LinkAssumption DEF Init, RetryInv, Drawn, Queued, Owners

(* Every step preserves it; those not named leave the sender, the ring and *)
(* the callback alone.                                                     *)
LEMMA RetryStep == LinkInv /\ RetryInv /\ [Next]_vars => RetryInv'
  <1> SUFFICES ASSUME LinkInv, RetryInv, [Next]_vars
               PROVE  RetryInv'
    OBVIOUS
  <1> USE LinkAssumption
      DEF LinkInv, TypeOK, RetryInv, Drawn, Queued, Owners, SendPCs, KindInv,
          lifeVars, busVars, sendVars, histVars
  <1>k. kind = "mhi" \/ kind = "smd" \/ kind = "tun"
    BY DEF AllKinds
  <1>1. ASSUME UNCHANGED <<kind, wpc, tries, ring, ucb, ringfull>>,
               chan' = "off" => chan = "off" \/ Queued = 0,
               ppc' = "asleep" => chan' = "off"
        PROVE  RetryInv'
    BY <1>1
  <1>2. CASE \/ SetData \/ Register \/ Prepare \/ Remove \/ Hold \/ Drained \/ Flushed
             \/ Unregister \/ Release \/ Clear
    <2>1. /\ UNCHANGED <<kind, wpc, tries, ring, ucb, ringfull>>
          /\ chan' = "off" => chan = "off" \/ Queued = 0
      BY <1>2 DEF SetData, Register, Prepare, Remove, Hold, Drained, Flushed, Quiet, Unregister,
         Release, Clear
    <2>2. ppc' # "asleep"
      BY <1>2, <1>k DEF SetData, Register, Prepare, Remove, Hold, Drained, Flushed, Unregister,
         Release, Clear, After, Goto, Path
    <2>3. QED
      BY <1>1, <2>1, <2>2
  <1>3. CASE Suspend \/ Suspended \/ Resume
    <2>1. /\ UNCHANGED <<kind, wpc, tries, ring, ucb, ringfull>>
          /\ chan' = "off" => chan = "off" \/ Queued = 0
          /\ ppc' = "asleep" => chan' = "off"
      BY <1>k, <1>3 DEF Suspend, Suspended, Resume, Quiet, Goto
    <2>2. QED
      BY <1>1, <2>1
  <1>3a. CASE Crash \/ RxEvent \/ RxCallback \/ Posted
    <2>1. UNCHANGED <<kind, ppc, chan, wpc, tries, ring, ucb, ringfull>>
      BY <1>3a DEF Crash, RxEvent, RxCallback, Posted
    <2>2. QED
      BY <2>1
  <1>4. CASE \E o \in Owners : Drain(o) \/ UlEvent(o)
    BY <1>4 DEF Drain, UlEvent
  <1>5. CASE Purge \/ Xmit \/ \E o \in Owners : TunRead(o)
    BY <1>5 DEF Purge, Xmit, TunRead
  <1>6. CASE \E o \in Owners : Send(o)
    BY <1>6 DEF Send
  <1>7. CASE WaitPrepared
    BY <1>7 DEF WaitPrepared, Fail
  <1>8. CASE QueueTest
    BY <1>8 DEF QueueTest, Fail
  <1>9. CASE QueueAdd
    BY <1>9 DEF QueueAdd, Fail
  <1>10. CASE Again
    BY <1>10 DEF Again, Reinit
  <1>11. CASE Wake
    BY <1>11 DEF Wake
  <1>12. CASE UlCallback
    BY <1>12 DEF UlCallback, Complete
  <1>13. CASE UNCHANGED vars
    BY <1>13 DEF vars
  <1>14. QED
    BY <1>2, <1>3, <1>4, <1>5, <1>6, <1>7, <1>8, <1>9, <1>10, <1>11, <1>12, <1>13, <1>3a
    DEF Next, Lifecycle, Sender, Events, Device

(* LinkRetries: however large the ring, a packet is refused at most twice  *)
(* (qcom_mhi_qrtr_send): the second time only for a completion that was on *)
(* its way before the first refusal.                                       *)
THEOREM LinkRetries == Spec => []RetryBound
  <1>1. LinkInv /\ RetryInv => RetryBound
    BY LinkAssumption DEF LinkInv, TypeOK, RetryInv, RetryBound
  <1>2. QED
    BY <1>1, LinkInvariant, RetryInit, RetryStep, PTL DEF Spec
=============================================================================
