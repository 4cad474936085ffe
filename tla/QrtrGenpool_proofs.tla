------------------------- MODULE QrtrGenpool_proofs -------------------------
(***************************************************************************)
(* Proofs about the genpool transport, for rings and packets of every size *)
(* and any number of failed setups and crashes: the shared memory is there *)
(* for whoever uses it, a connected link hears its interrupts, the state   *)
(* is never written through a null pointer, and the reader takes packets   *)
(* where they begin.                                                       *)
(***************************************************************************)
EXTENDS QrtrGenpool, TLAPS

(* The variables the argument needs; the contents of the rings are none.   *)
LifeTypes ==
    /\ state \in States
    /\ base \in {"null", "mapped"} /\ buf \in {"there", "freed"}
    /\ up \in BOOLEAN
    /\ lock \in {"none", "setup", "reboot"}
    /\ depth \in Nat /\ failed \in Nat
    /\ spc \in SetupPCs /\ bpc \in RebootPCs /\ mpc \in RemovePCs
    /\ wpc \in SendPCs /\ rpc \in ReadPCs
    /\ early \in {0, 1} /\ nullw \in {0, 1}

(* Between disable_irq() and enable_irq(), and after the first for good. *)
SetupMasks  == spc \in {"sync", "unreg", "build", "enable"}
RebootMasks == bpc \in {"sync", "unreg", "free", "done"}

(* setup_lock: the setup has it from the test of the state to its end, the *)
(* reboot notifier but for the wait.                                       *)
LockInv ==
    /\ lock = "setup" <=> spc \in {"mask", "sync", "unreg", "build", "enable", "publish"}
    /\ lock = "reboot" <=> bpc \in {"cancel", "state", "mask", "sync", "unreg", "free"}

(* The nesting of disable_irq(): each failed setup leaves one. *)
DepthInv ==
    depth = failed + (IF SetupMasks THEN 1 ELSE 0) + (IF RebootMasks THEN 1 ELSE 0)

(* No handler runs once disable_irq() has returned. *)
QuietInv ==
    /\ spc \in {"unreg", "build", "enable"} => rpc = "idle"
    /\ bpc \in {"unreg", "free"} => rpc = "idle"

(* What is there at each step, and in each state. *)
MemoryInv ==
    /\ up => base = "mapped"
    /\ wpc # "idle" => up
    /\ spc = "build" => ~up
    /\ spc \in {"enable", "publish"} => base = "mapped"
    /\ bpc = "free" => ~up
    /\ buf = "freed" => bpc = "done" \/ mpc \in {"freed", "gone"}
    /\ state \in {"INIT", "START", "PREPARE_REBOOT"} /\ failed = 0 => base = "mapped"
    /\ rpc # "idle" => base = "mapped"

(* What the reboot notifier has announced, and to whom it leaves the rest. *)
RebootInv ==
    /\ bpc = "wait" =>
          /\ state \in {"PREPARE_REBOOT", "REBOOT"}
          /\ failed = 0 => base = "mapped"
    /\ bpc \in {"idle", "lock", "cancel", "state"} => state \in {"DEFAULT", "INIT", "START"}
    /\ bpc \in {"relock", "mask", "sync", "unreg", "free", "done"} => state = "REBOOT"
    /\ bpc \in {"state", "wait", "relock", "mask", "sync", "unreg", "free", "done"}
          => spc \in {"idle", "lock"}
    /\ rpc # "idle" => bpc # "done"

GenpoolInv ==
    /\ LifeTypes /\ LockInv /\ DepthInv /\ QuietInv /\ MemoryInv /\ RebootInv
    /\ StateShared

-----------------------------------------------------------------------------
(* The initial states satisfy the invariant. *)
LEMMA GenpoolInit == Init => GenpoolInv
  <1> SUFFICES ASSUME Init
               PROVE  GenpoolInv
    OBVIOUS
  <1> USE DEF Init
  <1>1. up \in BOOLEAN
    BY Zenon
  <1>2. LifeTypes
    BY <1>1 DEF LifeTypes, States, SetupPCs, RebootPCs, RemovePCs, SendPCs, ReadPCs
  <1>3. LockInv /\ QuietInv /\ MemoryInv /\ RebootInv
    BY DEF LockInv, QuietInv, MemoryInv, RebootInv
  <1>4. DepthInv /\ StateShared
    BY DEF DepthInv, SetupMasks, RebootMasks, StateShared
  <1>5. QED
    BY <1>2, <1>3, <1>4 DEF GenpoolInv

(* The sender, the body of the interrupt handler and the remote, which     *)
(* only move words, keep what the invariant speaks of, but for wpc and rpc.*)
Moving ==
    \/ \E n \in Sizes : Send(n) \/ PeerHeader(n)
    \/ \E n \in 1..pleft : PeerChunk(n)
    \/ Sender \/ ReadHeader \/ ReadBody \/ ReadFrag \/ ReadDone
    \/ PeerBoot \/ PeerAsk \/ PeerCrash \/ PeerReboot \/ PeerRead

(* What a moving step keeps, and when it can make a thread busy. *)
LEMMA MovingKeeps ==
  ASSUME GenpoolInv, Moving
  PROVE  /\ UNCHANGED <<state, base, buf, up, lock, depth, spc, bpc, mpc, failed, early, nullw>>
         /\ wpc' \in SendPCs /\ (wpc' # "idle" => wpc # "idle" \/ up)
         /\ rpc' \in ReadPCs /\ (rpc' # "idle" => rpc # "idle")
  <1> USE DEF GenpoolInv, LifeTypes, SendPCs, ReadPCs, lifeVars, sendVars, readVars, peerVars, histVars
  <1>1. CASE \E n \in Sizes : Send(n)
    BY <1>1 DEF Send
  <1>2. CASE \E n \in Sizes : PeerHeader(n)
    BY <1>2 DEF PeerHeader
  <1>3. CASE \E n \in 1..pleft : PeerChunk(n)
    BY <1>3 DEF PeerChunk
  <1>4. CASE SendHeader
    BY <1>4 DEF SendHeader
  <1>5. CASE SendChunk
    BY <1>5 DEF SendChunk
  <1>6. CASE ReadHeader
    BY <1>6 DEF ReadHeader
  <1>7. CASE ReadBody
    BY <1>7 DEF ReadBody, Collect
  <1>8. CASE ReadFrag
    BY <1>8 DEF ReadFrag, Collect
  <1>9. CASE ReadDone
    BY <1>9 DEF ReadDone
  <1>10. CASE PeerBoot \/ PeerAsk
    BY <1>10 DEF PeerBoot, PeerAsk, SetupIntr
  <1>11. CASE PeerCrash \/ PeerReboot \/ PeerRead
    BY <1>11 DEF PeerCrash, PeerReboot, PeerRead, SetupIntr
  <1>12. QED
    BY <1>1, <1>2, <1>3, <1>4, <1>5, <1>6, <1>7, <1>8, <1>9, <1>10, <1>11 DEF Moving, Sender

(* Every step preserves the invariant. *)
LEMMA GenpoolStep == GenpoolInv /\ [Next]_vars => GenpoolInv'
  <1> SUFFICES ASSUME GenpoolInv, [Next]_vars
               PROVE  GenpoolInv'
    OBVIOUS
  <1> USE DEF GenpoolInv, LifeTypes
  <1>1. ASSUME SetupStart PROVE GenpoolInv'
    <2> USE <1>1 DEF SetupStart, sendVars, readVars, peerVars, histVars
    <2>1. LifeTypes'
      BY DEF States, SetupPCs, RebootPCs, RemovePCs, SendPCs, ReadPCs, DepthInv, SetupMasks, RebootMasks
    <2>2. LockInv' /\ QuietInv'
      BY DEF LockInv, QuietInv, DepthInv, SetupMasks, RebootMasks, RebootInv
    <2>3. DepthInv'
      BY DEF DepthInv, SetupMasks, RebootMasks
    <2>4. MemoryInv'
      BY DEF MemoryInv, LockInv, QuietInv, RebootInv, DepthInv
    <2>5. RebootInv'
      BY DEF RebootInv, MemoryInv, LockInv, QuietInv, States
    <2>6. StateShared'
      BY DEF StateShared, MemoryInv, RebootInv
    <2>7. QED
      BY <2>1, <2>2, <2>3, <2>4, <2>5, <2>6
  <1>2. ASSUME SetupEnter PROVE GenpoolInv'
    <2> USE <1>2 DEF SetupEnter, SetState, sendVars, readVars, peerVars, histVars
    <2>1. LifeTypes'
      BY DEF States, SetupPCs, RebootPCs, RemovePCs, SendPCs, ReadPCs, DepthInv, SetupMasks, RebootMasks
    <2>2. LockInv' /\ QuietInv'
      BY DEF LockInv, QuietInv, DepthInv, SetupMasks, RebootMasks, RebootInv
    <2>3. DepthInv'
      BY DEF DepthInv, SetupMasks, RebootMasks
    <2>4. MemoryInv'
      BY DEF MemoryInv, LockInv, QuietInv, RebootInv, DepthInv
    <2>5. RebootInv'
      BY DEF RebootInv, MemoryInv, LockInv, QuietInv, States
    <2>6. StateShared'
      BY DEF StateShared, MemoryInv, RebootInv
    <2>7. QED
      BY <2>1, <2>2, <2>3, <2>4, <2>5, <2>6
  <1>3. ASSUME SetupMask PROVE GenpoolInv'
    <2> USE <1>3 DEF SetupMask, sendVars, readVars, peerVars, histVars
    <2>1. LifeTypes'
      BY DEF States, SetupPCs, RebootPCs, RemovePCs, SendPCs, ReadPCs, DepthInv, SetupMasks, RebootMasks
    <2>2. LockInv' /\ QuietInv'
      BY DEF LockInv, QuietInv, DepthInv, SetupMasks, RebootMasks, RebootInv
    <2>3. DepthInv'
      BY DEF DepthInv, SetupMasks, RebootMasks
    <2>4. MemoryInv'
      BY DEF MemoryInv, LockInv, QuietInv, RebootInv, DepthInv
    <2>5. RebootInv'
      BY DEF RebootInv, MemoryInv, LockInv, QuietInv, States
    <2>6. StateShared'
      BY DEF StateShared, MemoryInv, RebootInv
    <2>7. QED
      BY <2>1, <2>2, <2>3, <2>4, <2>5, <2>6
  <1>4. ASSUME SetupSync PROVE GenpoolInv'
    <2> USE <1>4 DEF SetupSync, sendVars, readVars, peerVars, histVars
    <2>1. LifeTypes'
      BY DEF States, SetupPCs, RebootPCs, RemovePCs, SendPCs, ReadPCs, DepthInv, SetupMasks, RebootMasks
    <2>2. LockInv' /\ QuietInv'
      BY DEF LockInv, QuietInv, DepthInv, SetupMasks, RebootMasks, RebootInv
    <2>3. DepthInv'
      BY DEF DepthInv, SetupMasks, RebootMasks
    <2>4. MemoryInv'
      BY DEF MemoryInv, LockInv, QuietInv, RebootInv, DepthInv
    <2>5. RebootInv'
      BY DEF RebootInv, MemoryInv, LockInv, QuietInv, States
    <2>6. StateShared'
      BY DEF StateShared, MemoryInv, RebootInv
    <2>7. QED
      BY <2>1, <2>2, <2>3, <2>4, <2>5, <2>6
  <1>5. ASSUME SetupUnregister PROVE GenpoolInv'
    <2> USE <1>5 DEF SetupUnregister, sendVars, readVars, peerVars, histVars
    <2>1. LifeTypes'
      <3>1. up' \in BOOLEAN
        BY Zenon
      <3>2. QED
        BY <3>1 DEF States, SetupPCs, RebootPCs, RemovePCs, SendPCs, ReadPCs, DepthInv, SetupMasks, RebootMasks
    <2>2. LockInv' /\ QuietInv'
      BY DEF LockInv, QuietInv, DepthInv, SetupMasks, RebootMasks, RebootInv
    <2>3. DepthInv'
      BY DEF DepthInv, SetupMasks, RebootMasks
    <2>4. MemoryInv'
      BY DEF MemoryInv, LockInv, QuietInv, RebootInv, DepthInv
    <2>5. RebootInv'
      BY DEF RebootInv, MemoryInv, LockInv, QuietInv, States
    <2>6. StateShared'
      BY DEF StateShared, MemoryInv, RebootInv
    <2>7. QED
      BY <2>1, <2>2, <2>3, <2>4, <2>5, <2>6
  <1>6. ASSUME SetupBuild PROVE GenpoolInv'
    <2> USE <1>6 DEF SetupBuild, sendVars, readVars, peerVars, histVars
    <2>1. LifeTypes'
      <3>1. up' \in BOOLEAN
        BY Zenon
      <3>2. QED
        BY <3>1 DEF States, SetupPCs, RebootPCs, RemovePCs, SendPCs, ReadPCs, DepthInv, SetupMasks, RebootMasks
    <2>2. LockInv' /\ QuietInv'
      BY DEF LockInv, QuietInv, DepthInv, SetupMasks, RebootMasks, RebootInv
    <2>3. DepthInv'
      BY DEF DepthInv, SetupMasks, RebootMasks
    <2>4. MemoryInv'
      BY DEF MemoryInv, LockInv, QuietInv, RebootInv, DepthInv
    <2>5. RebootInv'
      BY DEF RebootInv, MemoryInv, LockInv, QuietInv, States
    <2>6. StateShared'
      BY DEF StateShared, MemoryInv, RebootInv
    <2>7. QED
      BY <2>1, <2>2, <2>3, <2>4, <2>5, <2>6
  <1>7. ASSUME SetupEnable PROVE GenpoolInv'
    <2> USE <1>7 DEF SetupEnable, sendVars, readVars, peerVars, histVars
    <2>1. LifeTypes'
      BY DEF States, SetupPCs, RebootPCs, RemovePCs, SendPCs, ReadPCs, DepthInv, SetupMasks, RebootMasks
    <2>2. LockInv' /\ QuietInv'
      BY DEF LockInv, QuietInv, DepthInv, SetupMasks, RebootMasks, RebootInv
    <2>3. DepthInv'
      BY DEF DepthInv, SetupMasks, RebootMasks
    <2>4. MemoryInv'
      BY DEF MemoryInv, LockInv, QuietInv, RebootInv, DepthInv
    <2>5. RebootInv'
      BY DEF RebootInv, MemoryInv, LockInv, QuietInv, States
    <2>6. StateShared'
      BY DEF StateShared, MemoryInv, RebootInv
    <2>7. QED
      BY <2>1, <2>2, <2>3, <2>4, <2>5, <2>6
  <1>8. ASSUME SetupPublish PROVE GenpoolInv'
    <2> USE <1>8 DEF SetupPublish, SetState, sendVars, readVars, peerVars, histVars
    <2>1. LifeTypes'
      BY DEF States, SetupPCs, RebootPCs, RemovePCs, SendPCs, ReadPCs, DepthInv, SetupMasks, RebootMasks
    <2>2. LockInv' /\ QuietInv'
      BY DEF LockInv, QuietInv, DepthInv, SetupMasks, RebootMasks, RebootInv
    <2>3. DepthInv'
      BY DEF DepthInv, SetupMasks, RebootMasks
    <2>4. MemoryInv'
      BY DEF MemoryInv, LockInv, QuietInv, RebootInv, DepthInv
    <2>5. RebootInv'
      BY DEF RebootInv, MemoryInv, LockInv, QuietInv, States
    <2>6. StateShared'
      BY DEF StateShared, MemoryInv, RebootInv
    <2>7. QED
      BY <2>1, <2>2, <2>3, <2>4, <2>5, <2>6
  <1>9. ASSUME RebootCb PROVE GenpoolInv'
    <2> USE <1>9 DEF RebootCb, sendVars, readVars, peerVars, histVars
    <2>1. LifeTypes'
      BY DEF States, SetupPCs, RebootPCs, RemovePCs, SendPCs, ReadPCs, DepthInv, SetupMasks, RebootMasks
    <2>2. LockInv' /\ QuietInv'
      BY DEF LockInv, QuietInv, DepthInv, SetupMasks, RebootMasks, RebootInv
    <2>3. DepthInv'
      BY DEF DepthInv, SetupMasks, RebootMasks
    <2>4. MemoryInv'
      BY DEF MemoryInv, LockInv, QuietInv, RebootInv, DepthInv
    <2>5. RebootInv'
      BY DEF RebootInv, MemoryInv, LockInv, QuietInv, States
    <2>6. StateShared'
      BY DEF StateShared, MemoryInv, RebootInv
    <2>7. QED
      BY <2>1, <2>2, <2>3, <2>4, <2>5, <2>6
  <1>10. ASSUME RebootLock PROVE GenpoolInv'
    <2> USE <1>10 DEF RebootLock, sendVars, readVars, peerVars, histVars
    <2>1. LifeTypes'
      BY DEF States, SetupPCs, RebootPCs, RemovePCs, SendPCs, ReadPCs, DepthInv, SetupMasks, RebootMasks
    <2>2. LockInv' /\ QuietInv'
      BY DEF LockInv, QuietInv, DepthInv, SetupMasks, RebootMasks, RebootInv
    <2>3. DepthInv'
      BY DEF DepthInv, SetupMasks, RebootMasks
    <2>4. MemoryInv'
      BY DEF MemoryInv, LockInv, QuietInv, RebootInv, DepthInv
    <2>5. RebootInv'
      BY DEF RebootInv, MemoryInv, LockInv, QuietInv, States
    <2>6. StateShared'
      BY DEF StateShared, MemoryInv, RebootInv
    <2>7. QED
      BY <2>1, <2>2, <2>3, <2>4, <2>5, <2>6
  <1>11. ASSUME RebootCancel PROVE GenpoolInv'
    <2> USE <1>11 DEF RebootCancel, sendVars, readVars, peerVars, histVars
    <2>1. LifeTypes'
      BY DEF States, SetupPCs, RebootPCs, RemovePCs, SendPCs, ReadPCs, DepthInv, SetupMasks, RebootMasks
    <2>2. LockInv' /\ QuietInv'
      BY DEF LockInv, QuietInv, DepthInv, SetupMasks, RebootMasks, RebootInv
    <2>3. DepthInv'
      BY DEF DepthInv, SetupMasks, RebootMasks
    <2>4. MemoryInv'
      BY DEF MemoryInv, LockInv, QuietInv, RebootInv, DepthInv
    <2>5. RebootInv'
      BY DEF RebootInv, MemoryInv, LockInv, QuietInv, States
    <2>6. StateShared'
      BY DEF StateShared, MemoryInv, RebootInv
    <2>7. QED
      BY <2>1, <2>2, <2>3, <2>4, <2>5, <2>6
  <1>12. ASSUME RebootState PROVE GenpoolInv'
    <2> USE <1>12 DEF RebootState, SetState, sendVars, readVars, peerVars, histVars
    <2>1. LifeTypes'
      BY DEF States, SetupPCs, RebootPCs, RemovePCs, SendPCs, ReadPCs, DepthInv, SetupMasks, RebootMasks
    <2>2. LockInv' /\ QuietInv'
      BY DEF LockInv, QuietInv, DepthInv, SetupMasks, RebootMasks, RebootInv
    <2>3. DepthInv'
      BY DEF DepthInv, SetupMasks, RebootMasks
    <2>4. MemoryInv'
      BY DEF MemoryInv, LockInv, QuietInv, RebootInv, DepthInv
    <2>5. RebootInv'
      BY DEF RebootInv, MemoryInv, LockInv, QuietInv, States
    <2>6. StateShared'
      BY DEF StateShared, MemoryInv, RebootInv
    <2>7. QED
      BY <2>1, <2>2, <2>3, <2>4, <2>5, <2>6
  <1>13. ASSUME RebootWait PROVE GenpoolInv'
    <2> USE <1>13 DEF RebootWait, SetState, sendVars, readVars, peerVars, histVars
    <2>1. LifeTypes'
      BY DEF States, SetupPCs, RebootPCs, RemovePCs, SendPCs, ReadPCs, DepthInv, SetupMasks, RebootMasks
    <2>2. LockInv' /\ QuietInv'
      BY DEF LockInv, QuietInv, DepthInv, SetupMasks, RebootMasks, RebootInv
    <2>3. DepthInv'
      BY DEF DepthInv, SetupMasks, RebootMasks
    <2>4. MemoryInv'
      BY DEF MemoryInv, LockInv, QuietInv, RebootInv, DepthInv
    <2>5. RebootInv'
      BY DEF RebootInv, MemoryInv, LockInv, QuietInv, States
    <2>6. StateShared'
      BY DEF StateShared, MemoryInv, RebootInv
    <2>7. QED
      BY <2>1, <2>2, <2>3, <2>4, <2>5, <2>6
  <1>14. ASSUME RebootMask PROVE GenpoolInv'
    <2> USE <1>14 DEF RebootMask, sendVars, readVars, peerVars, histVars
    <2>1. LifeTypes'
      BY DEF States, SetupPCs, RebootPCs, RemovePCs, SendPCs, ReadPCs, DepthInv, SetupMasks, RebootMasks
    <2>2. LockInv' /\ QuietInv'
      BY DEF LockInv, QuietInv, DepthInv, SetupMasks, RebootMasks, RebootInv
    <2>3. DepthInv'
      BY DEF DepthInv, SetupMasks, RebootMasks
    <2>4. MemoryInv'
      BY DEF MemoryInv, LockInv, QuietInv, RebootInv, DepthInv
    <2>5. RebootInv'
      BY DEF RebootInv, MemoryInv, LockInv, QuietInv, States
    <2>6. StateShared'
      BY DEF StateShared, MemoryInv, RebootInv
    <2>7. QED
      BY <2>1, <2>2, <2>3, <2>4, <2>5, <2>6
  <1>15. ASSUME RebootSync PROVE GenpoolInv'
    <2> USE <1>15 DEF RebootSync, sendVars, readVars, peerVars, histVars
    <2>1. LifeTypes'
      BY DEF States, SetupPCs, RebootPCs, RemovePCs, SendPCs, ReadPCs, DepthInv, SetupMasks, RebootMasks
    <2>2. LockInv' /\ QuietInv'
      BY DEF LockInv, QuietInv, DepthInv, SetupMasks, RebootMasks, RebootInv
    <2>3. DepthInv'
      BY DEF DepthInv, SetupMasks, RebootMasks
    <2>4. MemoryInv'
      BY DEF MemoryInv, LockInv, QuietInv, RebootInv, DepthInv
    <2>5. RebootInv'
      BY DEF RebootInv, MemoryInv, LockInv, QuietInv, States
    <2>6. StateShared'
      BY DEF StateShared, MemoryInv, RebootInv
    <2>7. QED
      BY <2>1, <2>2, <2>3, <2>4, <2>5, <2>6
  <1>16. ASSUME RebootUnregister PROVE GenpoolInv'
    <2> USE <1>16 DEF RebootUnregister, sendVars, readVars, peerVars, histVars
    <2>1. LifeTypes'
      <3>1. up' \in BOOLEAN
        BY Zenon
      <3>2. QED
        BY <3>1 DEF States, SetupPCs, RebootPCs, RemovePCs, SendPCs, ReadPCs, DepthInv, SetupMasks, RebootMasks
    <2>2. LockInv' /\ QuietInv'
      BY DEF LockInv, QuietInv, DepthInv, SetupMasks, RebootMasks, RebootInv
    <2>3. DepthInv'
      BY DEF DepthInv, SetupMasks, RebootMasks
    <2>4. MemoryInv'
      BY DEF MemoryInv, LockInv, QuietInv, RebootInv, DepthInv
    <2>5. RebootInv'
      BY DEF RebootInv, MemoryInv, LockInv, QuietInv, States
    <2>6. StateShared'
      BY DEF StateShared, MemoryInv, RebootInv
    <2>7. QED
      BY <2>1, <2>2, <2>3, <2>4, <2>5, <2>6
  <1>17. ASSUME RebootFree PROVE GenpoolInv'
    <2> USE <1>17 DEF RebootFree, sendVars, readVars, peerVars, histVars
    <2>1. LifeTypes'
      BY DEF States, SetupPCs, RebootPCs, RemovePCs, SendPCs, ReadPCs, DepthInv, SetupMasks, RebootMasks
    <2>2. LockInv' /\ QuietInv'
      BY DEF LockInv, QuietInv, DepthInv, SetupMasks, RebootMasks, RebootInv
    <2>3. DepthInv'
      BY DEF DepthInv, SetupMasks, RebootMasks
    <2>4. MemoryInv'
      BY DEF MemoryInv, LockInv, QuietInv, RebootInv, DepthInv
    <2>5. RebootInv'
      BY DEF RebootInv, MemoryInv, LockInv, QuietInv, States
    <2>6. StateShared'
      BY DEF StateShared, MemoryInv, RebootInv
    <2>7. QED
      BY <2>1, <2>2, <2>3, <2>4, <2>5, <2>6
  <1>18. ASSUME Remove PROVE GenpoolInv'
    <2> USE <1>18 DEF Remove, sendVars, readVars, peerVars, histVars
    <2>1. LifeTypes'
      BY DEF States, SetupPCs, RebootPCs, RemovePCs, SendPCs, ReadPCs, DepthInv, SetupMasks, RebootMasks
    <2>2. LockInv' /\ QuietInv'
      BY DEF LockInv, QuietInv, DepthInv, SetupMasks, RebootMasks, RebootInv
    <2>3. DepthInv'
      BY DEF DepthInv, SetupMasks, RebootMasks
    <2>4. MemoryInv'
      BY DEF MemoryInv, LockInv, QuietInv, RebootInv, DepthInv
    <2>5. RebootInv'
      BY DEF RebootInv, MemoryInv, LockInv, QuietInv, States
    <2>6. StateShared'
      BY DEF StateShared, MemoryInv, RebootInv
    <2>7. QED
      BY <2>1, <2>2, <2>3, <2>4, <2>5, <2>6
  <1>19. ASSUME RemoveCancel PROVE GenpoolInv'
    <2> USE <1>19 DEF RemoveCancel, sendVars, readVars, peerVars, histVars
    <2>1. LifeTypes'
      BY DEF States, SetupPCs, RebootPCs, RemovePCs, SendPCs, ReadPCs, DepthInv, SetupMasks, RebootMasks
    <2>2. LockInv' /\ QuietInv'
      BY DEF LockInv, QuietInv, DepthInv, SetupMasks, RebootMasks, RebootInv
    <2>3. DepthInv'
      BY DEF DepthInv, SetupMasks, RebootMasks
    <2>4. MemoryInv'
      BY DEF MemoryInv, LockInv, QuietInv, RebootInv, DepthInv
    <2>5. RebootInv'
      BY DEF RebootInv, MemoryInv, LockInv, QuietInv, States
    <2>6. StateShared'
      BY DEF StateShared, MemoryInv, RebootInv
    <2>7. QED
      BY <2>1, <2>2, <2>3, <2>4, <2>5, <2>6
  <1>20. ASSUME RemoveUnregister PROVE GenpoolInv'
    <2> USE <1>20 DEF RemoveUnregister, sendVars, readVars, peerVars, histVars
    <2>1. LifeTypes'
      <3>1. up' \in BOOLEAN
        BY Zenon
      <3>2. QED
        BY <3>1 DEF States, SetupPCs, RebootPCs, RemovePCs, SendPCs, ReadPCs, DepthInv, SetupMasks, RebootMasks
    <2>2. LockInv' /\ QuietInv'
      BY DEF LockInv, QuietInv, DepthInv, SetupMasks, RebootMasks, RebootInv
    <2>3. DepthInv'
      BY DEF DepthInv, SetupMasks, RebootMasks
    <2>4. MemoryInv'
      BY DEF MemoryInv, LockInv, QuietInv, RebootInv, DepthInv
    <2>5. RebootInv'
      BY DEF RebootInv, MemoryInv, LockInv, QuietInv, States
    <2>6. StateShared'
      BY DEF StateShared, MemoryInv, RebootInv
    <2>7. QED
      BY <2>1, <2>2, <2>3, <2>4, <2>5, <2>6
  <1>21. ASSUME RemoveFree PROVE GenpoolInv'
    <2> USE <1>21 DEF RemoveFree, sendVars, readVars, peerVars, histVars
    <2>1. LifeTypes'
      BY DEF States, SetupPCs, RebootPCs, RemovePCs, SendPCs, ReadPCs, DepthInv, SetupMasks, RebootMasks
    <2>2. LockInv' /\ QuietInv'
      BY DEF LockInv, QuietInv, DepthInv, SetupMasks, RebootMasks, RebootInv
    <2>3. DepthInv'
      BY DEF DepthInv, SetupMasks, RebootMasks
    <2>4. MemoryInv'
      BY DEF MemoryInv, LockInv, QuietInv, RebootInv, DepthInv
    <2>5. RebootInv'
      BY DEF RebootInv, MemoryInv, LockInv, QuietInv, States
    <2>6. StateShared'
      BY DEF StateShared, MemoryInv, RebootInv
    <2>7. QED
      BY <2>1, <2>2, <2>3, <2>4, <2>5, <2>6
  <1>22. ASSUME RemoveDone PROVE GenpoolInv'
    <2> USE <1>22 DEF RemoveDone, sendVars, readVars, peerVars, histVars
    <2>1. LifeTypes'
      BY DEF States, SetupPCs, RebootPCs, RemovePCs, SendPCs, ReadPCs, DepthInv, SetupMasks, RebootMasks
    <2>2. LockInv' /\ QuietInv'
      BY DEF LockInv, QuietInv, DepthInv, SetupMasks, RebootMasks, RebootInv
    <2>3. DepthInv'
      BY DEF DepthInv, SetupMasks, RebootMasks
    <2>4. MemoryInv'
      BY DEF MemoryInv, LockInv, QuietInv, RebootInv, DepthInv
    <2>5. RebootInv'
      BY DEF RebootInv, MemoryInv, LockInv, QuietInv, States
    <2>6. StateShared'
      BY DEF StateShared, MemoryInv, RebootInv
    <2>7. QED
      BY <2>1, <2>2, <2>3, <2>4, <2>5, <2>6
  <1>23. ASSUME XferIntr PROVE GenpoolInv'
    <2> USE <1>23 DEF XferIntr, sendVars, readVars, peerVars, histVars, lifeVars
    <2>1. LifeTypes'
      BY DEF States, SetupPCs, RebootPCs, RemovePCs, SendPCs, ReadPCs, DepthInv, SetupMasks, RebootMasks
    <2>2. LockInv' /\ QuietInv'
      BY DEF LockInv, QuietInv, DepthInv, SetupMasks, RebootMasks, RebootInv
    <2>3. DepthInv'
      BY DEF DepthInv, SetupMasks, RebootMasks
    <2>4. MemoryInv'
      BY DEF MemoryInv, LockInv, QuietInv, RebootInv, DepthInv
    <2>5. RebootInv'
      BY DEF RebootInv, MemoryInv, LockInv, QuietInv, States
    <2>6. StateShared'
      BY DEF StateShared, MemoryInv, RebootInv
    <2>7. QED
      BY <2>1, <2>2, <2>3, <2>4, <2>5, <2>6
  <1>24. CASE Moving
    <2> USE <1>24, MovingKeeps
    <2>1. LifeTypes'
      OBVIOUS
    <2>2. LockInv' /\ DepthInv'
      BY DEF LockInv, DepthInv, SetupMasks, RebootMasks
    <2>3. QuietInv' /\ MemoryInv' /\ RebootInv' /\ StateShared'
      BY DEF QuietInv, MemoryInv, RebootInv, StateShared
    <2>4. QED
      BY <2>1, <2>2, <2>3
  <1>25. CASE UNCHANGED vars
    BY <1>25 DEF vars, lifeVars, sendVars, readVars, histVars, LockInv, DepthInv, SetupMasks,
       RebootMasks, QuietInv, MemoryInv, RebootInv, StateShared
  <1>26. QED
    BY <1>1, <1>2, <1>3, <1>4, <1>5, <1>6, <1>7, <1>8, <1>9, <1>10, <1>11, <1>12,
       <1>13, <1>14, <1>15, <1>16, <1>17, <1>18, <1>19, <1>20, <1>21, <1>22, <1>23, <1>24, <1>25
       DEF Next, Moving, Setup, Reboot, Removal, Reader

(* Hence it holds throughout. *)
LEMMA GenpoolInductive == Spec => []GenpoolInv
  BY GenpoolInit, GenpoolStep, PTL DEF Spec

-----------------------------------------------------------------------------
(* The transfer interrupt and a sender only ever use shared memory and a   *)
(* reassembly buffer that are there, as long as the device is not removed, *)
(* however setups, their failures, a reboot and the remote interleave.     *)
THEOREM MemorySafety == Spec => []SafeAccess
  <1>1. GenpoolInv => SafeAccess
    BY DEF GenpoolInv, LifeTypes, MemoryInv, RebootInv, SafeAccess
  <1>2. QED
    BY <1>1, GenpoolInductive, PTL

(* As long as no setup failed, irq_xfer is enabled in the state START      *)
(* outside the setup: each disable_irq() of qrtr_genpool_setup_work() and  *)
(* qrtr_genpool_reboot_cb() is undone, or the state is left for good.      *)
THEOREM IrqSafety == Spec => []IrqBalanced
  <1>1. GenpoolInv => IrqBalanced
    BY DEF GenpoolInv, LifeTypes, DepthInv, SetupMasks, RebootMasks, RebootInv, IrqBalanced
  <1>2. QED
    BY <1>1, GenpoolInductive, PTL

(* qrtr_genpool_set_state() finds the memory mapped, unless a setup failed *)
(* before or the machine reboots before the first one.                     *)
THEOREM StateSafety == Spec => []StateShared
  <1>1. GenpoolInv => StateShared
    BY DEF GenpoolInv
  <1>2. QED
    BY <1>1, GenpoolInductive, PTL

-----------------------------------------------------------------------------
(* The stream of packets in the ring from the remote.                      *)

(* What a ring holds. *)
Words == Nat \cup {Payload}

(* A packet whose header is at position i of s and whose last word is at b *)
(* (beyond the end of s while p words of it are still to come): payload up *)
(* to b, and then the next header.                                         *)
Packet(s, i, b, p) ==
    /\ \A j \in 1..Len(s) : i < j /\ j <= b => s[j] = Payload
    /\ b < Len(s) => s[b + 1] > 0
    /\ b >= Len(s) => p = b - Len(s)

(* The words s begin with the rest, need words, of the packet being read.  *)
Frames(s, need, p) ==
    /\ Packet(s, 0, need, p)
    /\ \A i \in 1..Len(s) : s[i] > 0 => Packet(s, i, i + s[i], p)

(* The words the reader lacks of the packet at hand. *)
Need == IF rpc = "body" \/ ring.offset > 0 THEN ring.len - ring.offset ELSE 0

StreamTypes ==
    /\ rx \in Seq(Words) /\ pleft \in Nat
    /\ ring \in [offset : Nat, len : Nat]
    /\ ring.offset > 0 => ring.offset < ring.len
    /\ rpc = "body" => ring.offset = 0
    /\ lone \in {0, 1} /\ torn \in {0, 1} /\ wrapped \in {0, 1}

(* What the framing does not survive. *)
Odd == lone = 1 \/ torn = 1 \/ wrapped = 1

StreamInv ==
    /\ StreamTypes
    /\ \/ Odd
       \/ /\ misread # 1 /\ Frames(rx, Need, pleft)
          /\ rpc = "body" => ring.len > 0

(* Headers and payload. *)
LEMMA WordFacts ==
  /\ Payload \in Words /\ ~(Payload > 0)
  /\ \A n \in Nat : n \in Words
  /\ \A w \in Words : w > 0 => w \in Nat
  BY DEF Words, Payload

(* A ring that was cleared. *)
LEMMA FramesNothing == Frames(<<>>, 0, 0)
  <1> DEFINE s == <<>>
  <1>1. Len(s) = 0
    OBVIOUS
  <1> HIDE DEF s
  <1>2. Packet(s, 0, 0, 0)
    BY <1>1 DEF Packet
  <1>3. 1..Len(s) = {}
    BY <1>1
  <1>4. Frames(s, 0, 0)
    BY <1>2, <1>3 DEF Frames
  <1>5. QED
    BY <1>4 DEF s

(* The remote writes a header: the next packet begins where the last ends. *)
LEMMA FramesHeader ==
  ASSUME NEW s \in Seq(Words), NEW need \in Nat, NEW n \in Nat \ {0}, Frames(s, need, 0)
  PROVE  Append(s, n) \in Seq(Words) /\ Frames(Append(s, n), need, n)
  <1> DEFINE t == Append(s, n)
  <1>1. t \in Seq(Words) /\ Len(t) = Len(s) + 1 /\ Len(s) \in Nat
    <2>1. n \in Words
      BY WordFacts
    <2>2. QED
      BY <2>1
  <1>2. (\A i \in 1..Len(s) : t[i] = s[i] /\ s[i] \in Words) /\ t[Len(s) + 1] = n
    OBVIOUS
  <1> HIDE DEF t
  <1>3. ASSUME NEW i \in 0..Len(s), NEW b \in Nat, Packet(s, i, b, 0)
        PROVE  Packet(t, i, b, n)
    <2>1. b <= Len(s)
      BY <1>1, <1>3 DEF Packet
    <2>2. ASSUME NEW j \in 1..Len(t), i < j, j <= b PROVE t[j] = Payload
      <3>1. j \in 1..Len(s)
        BY <1>1, <2>1, <2>2
      <3>2. QED
        BY <1>2, <1>3, <2>2, <3>1 DEF Packet
    <2>3. t[b + 1] > 0
      <3>1. CASE b = Len(s)
        BY <1>2, <3>1
      <3>2. CASE b < Len(s)
        <4>1. b + 1 \in 1..Len(s) /\ s[b + 1] > 0
          BY <1>1, <1>3, <3>2 DEF Packet
        <4>2. QED
          BY <1>2, <4>1
      <3>3. QED
        BY <1>1, <2>1, <3>1, <3>2
    <2>4. QED
      BY <1>1, <2>1, <2>2, <2>3 DEF Packet
  <1>4. Packet(t, Len(s) + 1, Len(s) + 1 + n, n)
    BY <1>1 DEF Packet
  <1>5. Packet(t, 0, need, n)
    BY <1>1, <1>3 DEF Frames
  <1>6. ASSUME NEW i \in 1..Len(t), t[i] > 0 PROVE Packet(t, i, i + t[i], n)
    <2>1. CASE i \in 1..Len(s)
      <3>1. t[i] = s[i] /\ t[i] \in Nat /\ Packet(s, i, i + t[i], 0)
        BY <1>2, <1>6, <2>1, WordFacts DEF Frames
      <3>2. i \in 0..Len(s) /\ i + t[i] \in Nat
        BY <1>1, <2>1, <3>1
      <3>3. QED
        BY <1>3, <3>1, <3>2
    <2>2. QED
      BY <1>1, <1>2, <1>4, <2>1, SMTT(30)
  <1>7. QED
    BY <1>1, <1>5, <1>6 DEF Frames, t

(* It writes n of the words that are left of the last packet. *)
LEMMA FramesChunk ==
  ASSUME NEW s \in Seq(Words), NEW need \in Nat, NEW p \in Nat, NEW n \in 1..p,
         Frames(s, need, p)
  PROVE  /\ s \o [i \in 1..n |-> Payload] \in Seq(Words)
         /\ Frames(s \o [i \in 1..n |-> Payload], need, p - n)
  <1> DEFINE z == [i \in 1..n |-> Payload]
             t == s \o z
  <1>1. z \in Seq(Words) /\ Len(z) = n /\ \A i \in 1..n : z[i] = Payload
    BY WordFacts
  <1> HIDE DEF z
  <1>2. t \in Seq(Words) /\ Len(t) = Len(s) + n /\ Len(s) \in Nat
    BY <1>1
  <1>3. \A i \in 1..Len(s) : t[i] = s[i] /\ s[i] \in Words
    BY <1>1
  <1>4. \A i \in 1..Len(t) : i > Len(s) => t[i] = Payload
    BY <1>1
  <1> HIDE DEF t
  <1>5. ASSUME NEW i \in 0..Len(s), NEW b \in Nat, Packet(s, i, b, p)
        PROVE  Packet(t, i, b, p - n)
    <2>1. ASSUME NEW j \in 1..Len(t), i < j, j <= b PROVE t[j] = Payload
      <3>1. CASE j \in 1..Len(s)
        BY <1>3, <1>5, <2>1, <3>1 DEF Packet
      <3>2. QED
        BY <1>2, <1>4, <3>1
    <2>2. ASSUME b < Len(t) PROVE t[b + 1] > 0
      <3>1. b < Len(s)
        BY <1>2, <1>5, <2>2 DEF Packet
      <3>2. b + 1 \in 1..Len(s) /\ s[b + 1] > 0
        BY <1>2, <1>5, <3>1 DEF Packet
      <3>3. QED
        BY <1>3, <3>2
    <2>3. b >= Len(t) => p - n = b - Len(t)
      BY <1>2, <1>5 DEF Packet
    <2>4. QED
      BY <2>1, <2>2, <2>3 DEF Packet
  <1>6. Packet(t, 0, need, p - n)
    BY <1>2, <1>5 DEF Frames
  <1>7. ASSUME NEW i \in 1..Len(t), t[i] > 0 PROVE Packet(t, i, i + t[i], p - n)
    <2>1. ~(i > Len(s))
      BY <1>4, <1>7, WordFacts
    <2>2. i \in 1..Len(s)
      BY <1>2, <2>1
    <2>3. t[i] = s[i] /\ s[i] \in Words
      BY <1>3, <2>2
    <2>4. i \in 0..Len(s) /\ i + t[i] \in Nat
      BY <1>2, <1>7, <2>2, <2>3, WordFacts
    <2>5. Packet(s, i, i + t[i], p)
      BY <1>7, <2>2, <2>3 DEF Frames
    <2>6. QED
      BY <1>5, <2>4, <2>5
  <1>8. QED
    BY <1>2, <1>6, <1>7 DEF Frames, t, z

(* The reader takes k of the words it lacks, all of them payload. *)
LEMMA FramesTake ==
  ASSUME NEW s \in Seq(Words), NEW need \in Nat, NEW p \in Nat, NEW k \in 0..need, k <= Len(s),
         Frames(s, need, p)
  PROVE  /\ \A i \in 1..k : s[i] = Payload
         /\ Frames(SubSeq(s, k + 1, Len(s)), need - k, p)
  <1> DEFINE t == SubSeq(s, k + 1, Len(s))
  <1>1. t \in Seq(Words) /\ Len(t) = Len(s) - k /\ Len(s) \in Nat
    OBVIOUS
  <1>2. \A i \in 1..Len(t) : t[i] = s[i + k] /\ s[i + k] \in Words
    BY <1>1
  <1> HIDE DEF t
  <1>3. \A i \in 1..k : s[i] = Payload
    BY <1>1 DEF Frames, Packet
  <1>4. ASSUME NEW h \in Nat, NEW i \in Nat, NEW b \in Nat, h <= i + k, Packet(s, h, b + k, p)
        PROVE  Packet(t, i, b, p)
    <2>1. ASSUME NEW j \in 1..Len(t), i < j, j <= b PROVE t[j] = Payload
      <3>1. j + k \in 1..Len(s) /\ h < j + k /\ j + k <= b + k
        BY <1>1, <1>4, <2>1
      <3>2. s[j + k] = Payload
        BY <1>4, <3>1 DEF Packet
      <3>3. QED
        BY <1>2, <3>2
    <2>2. ASSUME b < Len(t) PROVE t[b + 1] > 0
      <3>1. b + 1 \in 1..Len(t) /\ b + k < Len(s) /\ b + 1 + k = b + k + 1
        BY <1>1, <2>2
      <3>2. s[b + k + 1] > 0
        BY <1>4, <3>1 DEF Packet
      <3>3. QED
        BY <1>2, <3>1, <3>2
    <2>3. b >= Len(t) => p = b - Len(t)
      BY <1>1, <1>4 DEF Packet
    <2>4. QED
      BY <2>1, <2>2, <2>3 DEF Packet
  <1>5. Packet(t, 0, need - k, p)
    <2>1. Packet(s, 0, need - k + k, p) /\ need - k \in Nat
      BY DEF Frames
    <2>2. QED
      BY <1>4, <2>1
  <1>6. ASSUME NEW i \in 1..Len(t), t[i] > 0 PROVE Packet(t, i, i + t[i], p)
    <2>1. i + k \in 1..Len(s) /\ s[i + k] = t[i] /\ t[i] \in Nat
      BY <1>1, <1>2, <1>6, WordFacts, SMTT(30)
    <2>2. Packet(s, i + k, i + k + t[i], p)
      BY <1>6, <2>1 DEF Frames
    <2> DEFINE b == i + t[i]
               h == i + k
    <2>i. i \in Nat /\ t[i] \in Nat
      BY <1>1, <2>1
    <2>3. i + k + t[i] = b + k /\ b \in Nat /\ i \in Nat /\ h \in Nat /\ h <= i + k
      BY <2>i
    <2>4. Packet(s, h, b + k, p)
      BY <2>2, <2>3
    <2> HIDE DEF b, h
    <2>5. Packet(t, i, b, p)
      BY <1>4, <2>3, <2>4
    <2>6. QED
      BY <2>5 DEF b
  <1>7. QED
    BY <1>3, <1>5, <1>6 DEF Frames, t

(* Between packets the reader finds a header. *)
LEMMA FramesOpen ==
  ASSUME NEW s \in Seq(Words), s # <<>>, NEW p \in Nat, Frames(s, 0, p)
  PROVE  Head(s) > 0 /\ Frames(Tail(s), Head(s), p)
  <1> DEFINE t == Tail(s)
  <1>1. t \in Seq(Words) /\ Len(t) = Len(s) - 1 /\ Len(s) \in Nat /\ Head(s) = s[1] /\ s[1] \in Words
    OBVIOUS
  <1>2. \A i \in 1..Len(t) : t[i] = s[i + 1] /\ s[i + 1] \in Words
    BY <1>1
  <1>3. Len(s) > 0
    BY <1>1
  <1> HIDE DEF t
  <1>4. s[1] > 0
    BY <1>1, <1>3 DEF Frames, Packet
  <1>5. ASSUME NEW i \in Nat, NEW b \in Nat, Packet(s, i + 1, b + 1, p)
        PROVE  Packet(t, i, b, p)
    <2>1. ASSUME NEW j \in 1..Len(t), i < j, j <= b PROVE t[j] = Payload
      <3>1. j + 1 \in 1..Len(s) /\ i + 1 < j + 1 /\ j + 1 <= b + 1
        BY <1>1, <2>1
      <3>2. s[j + 1] = Payload
        BY <1>5, <3>1 DEF Packet
      <3>3. QED
        BY <1>2, <3>2
    <2>2. ASSUME b < Len(t) PROVE t[b + 1] > 0
      <3>1. b + 1 \in 1..Len(t) /\ b + 1 < Len(s)
        BY <1>1, <2>2
      <3>2. s[b + 1 + 1] > 0
        BY <1>5, <3>1 DEF Packet
      <3>3. QED
        BY <1>2, <3>1, <3>2
    <2>3. b >= Len(t) => p = b - Len(t)
      BY <1>1, <1>5 DEF Packet
    <2>4. QED
      BY <2>1, <2>2, <2>3 DEF Packet
  <1>6. Packet(t, 0, s[1], p)
    <2>n. s[1] \in Nat
      BY <1>1, <1>4, WordFacts
    <2>1. 1 \in 1..Len(s) /\ 1 + s[1] = s[1] + 1 /\ 0 + 1 = 1
      BY <1>1, <1>3, <2>n
    <2>2. Packet(s, 1, 1 + s[1], p)
      BY <1>4, <2>1 DEF Frames
    <2>3. Packet(s, 0 + 1, s[1] + 1, p)
      BY <2>1, <2>2
    <2>4. QED
      BY <1>5, <2>n, <2>3
  <1>7. ASSUME NEW i \in 1..Len(t), t[i] > 0 PROVE Packet(t, i, i + t[i], p)
    <2>1. i + 1 \in 1..Len(s) /\ s[i + 1] = t[i] /\ t[i] \in Nat
      BY <1>1, <1>2, <1>7, WordFacts, SMTT(30)
    <2>2. Packet(s, i + 1, i + 1 + t[i], p)
      BY <1>7, <2>1 DEF Frames
    <2> DEFINE b == i + t[i]
    <2>i. i \in Nat /\ t[i] \in Nat
      BY <1>1, <2>1
    <2>3. i + 1 + t[i] = b + 1 /\ b \in Nat /\ i \in Nat
      BY <2>i
    <2> HIDE DEF b
    <2>4. Packet(s, i + 1, b + 1, p)
      BY <2>2, <2>3
    <2>5. Packet(t, i, b, p)
      BY <1>5, <2>3, <2>4
    <2>6. QED
      BY <2>5 DEF b
  <1>8. QED
    BY <1>1, <1>4, <1>6, <1>7 DEF Frames, t

-----------------------------------------------------------------------------
LEMMA StreamInit == Init => StreamInv
  <1> SUFFICES ASSUME Init PROVE StreamInv
    OBVIOUS
  <1>1. StreamTypes
    BY DEF Init, StreamTypes
  <1>2. Frames(rx, Need, pleft)
    BY FramesNothing DEF Init, Need
  <1>3. QED
    BY <1>1, <1>2 DEF Init, StreamInv

(* What a step must keep for the stream to go on. *)
LEMMA StreamSame ==
  ASSUME StreamInv, UNCHANGED <<rx, pleft, ring, lone, wrapped, torn, misread>>,
         rpc' = "body" <=> rpc = "body"
  PROVE  StreamInv'
  <1>1. Need' = Need
    BY DEF Need
  <1>2. StreamTypes'
    BY DEF StreamInv, StreamTypes
  <1>3. QED
    BY <1>1, <1>2 DEF StreamInv, Odd

(* Taking as much of the payload of the packet at hand as there is. *)
LEMMA CollectStep ==
  ASSUME StreamInv, Collect(Room), UNCHANGED <<pleft, wrapped, torn>>,
         rpc = "body" \/ ring.offset > 0,
         lone' = IF rx = <<>> /\ ring.len > 0 THEN 1 ELSE lone
  PROVE  StreamInv'
  <1> USE DEF StreamInv, StreamTypes, Odd
  <1> DEFINE k == Room
  <1>1. /\ Need = ring.len - ring.offset /\ Need \in Nat /\ Len(rx) \in Nat
        /\ k \in 0..Need /\ k <= Len(rx) /\ (k = Need \/ k = Len(rx))
    BY DEF Need, Room
  <1>2. rx' = SubSeq(rx, k + 1, Len(rx)) /\ rpc' = "loop"
    BY DEF Collect
  <1>3. rx' \in Seq(Words)
    BY <1>1, <1>2, SMTT(30)
  <1>4. CASE k = Need
    <2>1. ring' = [offset |-> 0, len |-> 0]
      BY <1>1, <1>4 DEF Collect
    <2>2. StreamTypes' /\ Need' = 0
      BY <1>2, <1>3, <2>1 DEF Need
    <2>3. CASE ~Odd
      <3>1. (\A i \in 1..k : rx[i] = Payload) /\ Frames(rx', Need - k, pleft)
        BY <1>1, <1>2, <2>3, FramesTake
      <3>2. misread' # 1
        BY <2>3, <3>1 DEF Collect
      <3>3. rpc' # "body" /\ Frames(rx', Need', pleft')
        BY <1>1, <1>2, <1>4, <2>2, <3>1
      <3>4. QED
        BY <2>2, <3>2, <3>3
    <2>4. QED
      BY <2>2, <2>3
  <1>5. CASE k # Need
    <2>1. /\ ring' = [ring EXCEPT !.offset = @ + k]
          /\ ring.offset + k < ring.len
      BY <1>1, <1>5 DEF Collect
    <2>r. /\ ring' \in [offset : Nat, len : Nat]
          /\ ring'.offset = ring.offset + k /\ ring'.len = ring.len
      BY <1>1, <2>1
    <2>2. StreamTypes' /\ (k > 0 => Need' = Need - k)
      <3>1. StreamTypes'
        BY <1>2, <1>3, <2>1, <2>r
      <3>2. k > 0 => Need' = ring'.len - ring'.offset
        BY <1>1, <2>r DEF Need
      <3>3. QED
        BY <1>1, <2>r, <3>1, <3>2
    <2>3. CASE ~Odd'
      <3>1. k > 0 /\ ~Odd
        BY <1>1, <1>5, <2>3
      <3>2. (\A i \in 1..k : rx[i] = Payload) /\ Frames(rx', Need - k, pleft)
        BY <1>1, <1>2, <2>3, <3>1, FramesTake
      <3>3. misread' # 1
        BY <3>1, <3>2 DEF Collect
      <3>4. rpc' # "body" /\ Frames(rx', Need', pleft')
        BY <1>2, <2>2, <3>1, <3>2
      <3>5. QED
        BY <2>2, <3>3, <3>4
    <2>4. QED
      BY <2>2, <2>3
  <1>6. QED
    BY <1>4, <1>5

(* Every step preserves the framing. *)
LEMMA StreamStep == GenpoolInv /\ StreamInv /\ [Next]_vars => StreamInv'
  <1> SUFFICES ASSUME GenpoolInv, StreamInv, [Next]_vars PROVE StreamInv'
    OBVIOUS
  <1> USE DEF lifeVars, sendVars, readVars, peerVars, histVars
  <1>1. CASE \E n \in Sizes : PeerHeader(n)
    <2>1. PICK n \in Sizes : PeerHeader(n)
      BY <1>1
    <2>2. n \in Nat \ {0}
      BY GenpoolAssumption
    <2>3. pleft = 0 /\ rx' = Append(rx, HdrLen(n)) /\ pleft' = n
          /\ wrapped' = (IF HdrLen(n) = n THEN wrapped ELSE 1)
          /\ UNCHANGED <<rpc, ring, lone, torn, misread>>
      BY <2>1 DEF PeerHeader
    <2>4. Need' = Need /\ Need \in Nat
      BY <2>3 DEF Need, StreamInv, StreamTypes
    <2>h. HdrLen(n) \in Words
      BY <2>2, GenpoolAssumption DEF HdrLen, Words
    <2>5. StreamTypes'
      BY <2>2, <2>3, <2>h DEF StreamInv, StreamTypes
    <2>6. HdrLen(n) = n /\ Frames(rx, Need, pleft) => Frames(rx', Need, pleft')
      BY <2>2, <2>3, <2>4, FramesHeader DEF StreamInv, StreamTypes
    <2>7. Odd' \/ (~Odd /\ HdrLen(n) = n)
      BY <2>3 DEF Odd
    <2>8. QED
      BY <2>3, <2>4, <2>5, <2>6, <2>7 DEF StreamInv
  <1>2. CASE \E n \in 1..pleft : PeerChunk(n)
    <2>1. PICK n \in 1..pleft : PeerChunk(n)
      BY <1>2
    <2>2. rx' = rx \o [i \in 1..n |-> Payload] /\ pleft' = pleft - n
          /\ UNCHANGED <<rpc, ring, lone, wrapped, torn, misread>>
      BY <2>1 DEF PeerChunk
    <2>3. Need' = Need /\ Need \in Nat
      BY <2>2 DEF Need, StreamInv, StreamTypes
    <2>4. rx' \in Seq(Words) /\ pleft' \in Nat
      <3>1. [i \in 1..n |-> Payload] \in Seq(Words)
        BY DEF StreamInv, StreamTypes, Words
      <3>2. QED
        BY <2>2, <3>1 DEF StreamInv, StreamTypes
    <2>5. StreamTypes'
      BY <2>2, <2>4 DEF StreamInv, StreamTypes
    <2>6. Frames(rx, Need, pleft) => Frames(rx', Need, pleft')
      BY <2>2, <2>3, FramesChunk DEF StreamInv, StreamTypes
    <2>7. QED
      BY <2>2, <2>3, <2>5, <2>6 DEF StreamInv, Odd
  <1>3. CASE ReadHeader
    <2> USE DEF StreamInv, StreamTypes
    <2>1. /\ rpc = "loop" /\ rx # <<>> /\ ring.offset = 0 /\ UNCHANGED <<pleft, lone, wrapped, torn>>
          /\ rx' = Tail(rx) /\ rpc' = "body"
          /\ Need = 0 /\ Head(rx) \in Words /\ Tail(rx) \in Seq(Words)
      BY <1>3 DEF ReadHeader, Need
    <2>2. PICK n \in Nat : ring' = [ring EXCEPT !.len = n]
      <3>1. Head(rx) # Payload => Head(rx) \in Nat
        BY <2>1 DEF Words
      <3>2. QED
        BY <1>3, <3>1, GenpoolAssumption DEF ReadHeader
    <2>3. ring' \in [offset : Nat, len : Nat] /\ ring'.offset = 0 /\ ring'.len = n
      BY <2>1, <2>2
    <2>4. StreamTypes'
      BY <2>1, <2>3
    <2>5. CASE Odd
      BY <2>1, <2>4, <2>5 DEF Odd
    <2>6. CASE ~Odd
      <3>1. Head(rx) > 0 /\ Frames(Tail(rx), Head(rx), pleft)
        BY <2>1, <2>6, FramesOpen
      <3>2. ring' = [ring EXCEPT !.len = Head(rx)] /\ UNCHANGED misread
        BY <1>3, <2>1, <3>1 DEF ReadHeader, Payload
      <3>3. Need' = Head(rx) /\ ring'.len = Head(rx)
        BY <2>1, <2>3, <3>2 DEF Need
      <3>4. QED
        BY <2>1, <2>4, <2>6, <3>1, <3>2, <3>3
    <2>7. QED
      BY <2>5, <2>6
  <1>4. CASE ReadBody \/ ReadFrag
    <2>1. /\ rpc = "body" \/ ring.offset > 0
          /\ Collect(Room) /\ UNCHANGED <<pleft, wrapped, torn>>
          /\ lone' = IF rx = <<>> /\ ring.len > 0 THEN 1 ELSE lone
      BY <1>4 DEF ReadBody, ReadFrag
    <2>2. QED
      BY <2>1, CollectStep
  <1>5. CASE SetupBuild
    <2>1. /\ rx' = <<>> /\ pleft' = 0 /\ UNCHANGED <<rpc, ring, lone, wrapped, misread>>
          /\ torn' = IF ring.offset > 0 THEN 1 ELSE torn
      BY <1>5 DEF SetupBuild
    <2>2. rpc = "idle"
      BY <1>5 DEF SetupBuild, GenpoolInv, QuietInv
    <2>3. StreamTypes'
      BY <2>1 DEF StreamInv, StreamTypes
    <2>4. CASE ring.offset > 0
      BY <2>1, <2>3, <2>4 DEF StreamInv, Odd
    <2>5. CASE ~(ring.offset > 0)
      <3>1. Need' = 0
        BY <2>1, <2>2, <2>5 DEF Need
      <3>2. Frames(rx', Need', pleft')
        BY <2>1, <3>1, FramesNothing
      <3>3. QED
        BY <2>1, <2>2, <2>3, <2>5, <3>2 DEF StreamInv, Odd
    <2>6. QED
      BY <2>4, <2>5
  <1>6. CASE \/ SetupStart \/ SetupEnter \/ SetupMask \/ SetupSync \/ SetupUnregister
             \/ SetupEnable \/ SetupPublish
    <2>1. UNCHANGED <<rx, pleft, ring, lone, wrapped, torn, misread, rpc>>
      BY <1>6 DEF SetupStart, SetupEnter, SetupMask, SetupSync, SetupUnregister, SetupEnable, SetupPublish
    <2>2. QED
      BY <2>1, StreamSame
  <1>7. CASE RebootCb \/ Reboot
    <2>1. UNCHANGED <<rx, pleft, ring, lone, wrapped, torn, misread, rpc>>
      BY <1>7 DEF RebootCb, Reboot, RebootLock, RebootCancel, RebootState, RebootWait, RebootMask,
         RebootSync, RebootUnregister, RebootFree
    <2>2. QED
      BY <2>1, StreamSame
  <1>8. CASE Remove \/ Removal
    <2>1. UNCHANGED <<rx, pleft, ring, lone, wrapped, torn, misread, rpc>>
      BY <1>8 DEF Remove, Removal, RemoveCancel, RemoveUnregister, RemoveFree, RemoveDone
    <2>2. QED
      BY <2>1, StreamSame
  <1>9. CASE Sender \/ \E n \in Sizes : Send(n)
    <2>1. UNCHANGED <<rx, pleft, ring, lone, wrapped, torn, misread, rpc>>
      BY <1>9 DEF Sender, SendHeader, SendChunk, Send
    <2>2. QED
      BY <2>1, StreamSame
  <1>10. CASE XferIntr \/ ReadDone
    <2>1. UNCHANGED <<rx, pleft, ring, lone, wrapped, torn, misread>> /\ rpc # "body" /\ rpc' # "body"
      BY <1>10 DEF XferIntr, ReadDone
    <2>2. QED
      BY <2>1, StreamSame
  <1>11. CASE PeerBoot \/ PeerAsk \/ PeerCrash \/ PeerReboot \/ PeerRead
    <2>1. UNCHANGED <<rx, pleft, ring, lone, wrapped, torn, misread, rpc>>
      BY <1>11 DEF PeerBoot, PeerAsk, PeerCrash, PeerReboot, PeerRead
    <2>2. QED
      BY <2>1, StreamSame
  <1>12. CASE UNCHANGED vars
    <2>1. UNCHANGED <<rx, pleft, ring, lone, wrapped, torn, misread, rpc>>
      BY <1>12 DEF vars
    <2>2. QED
      BY <2>1, StreamSame
  <1>13. QED
    BY <1>1, <1>2, <1>3, <1>4, <1>5, <1>6, <1>7, <1>8, <1>9, <1>10, <1>11, <1>12
       DEF Next, Setup, Reader

(* For rings and packets of any size, and however the remote's writes are  *)
(* cut into pieces, the reader takes no payload for a header and no header *)
(* for payload, unless a header was read alone, the rings were replaced    *)
(* inside a packet, or a packet was longer than the 16 bits of hdr.len can *)
(* say (qrtr_genpool_read_new, qrtr_genpool_read_frag, qrtr_genpool_send). *)
THEOREM FramingSafety == Spec => []Framed
  <1>1. StreamInv => Framed
    BY DEF StreamInv, Framed, Odd
  <1>2. QED
    BY <1>1, GenpoolInductive, StreamInit, StreamStep, PTL DEF Spec
=============================================================================
