---------------------------- MODULE QrtrGenpool -----------------------------
(***************************************************************************)
(* The QRTR genpool transport (net/qrtr/genpool.c): two rings in memory    *)
(* that is shared with a remote processor, given up and set up again each  *)
(* time the remote starts, by the setup work, the reboot notifier and the  *)
(* removal of the device, while the transfer interrupt reads from it and a *)
(* sender writes to it.                                                    *)
(*                                                                         *)
(* A ring is a bounded queue of words, which is what QrtrFifo's ring, with *)
(* the same index arithmetic, is shown to implement.  A word of the ring   *)
(* from the remote is a header, as the length it announces, or a word of a *)
(* payload; of the ring to it only the words in use are counted.  A        *)
(* waiting writer looks again every 10 s, whether or not it is notified.   *)
(***************************************************************************)
EXTENDS Integers, Sequences

CONSTANTS
    Cap,       \* words a ring takes
    Sizes,     \* lengths of payloads, in words
    LenMod,    \* one more than the length a header can hold: hdr.len is __le16
    MaxFails,  \* bound: setups that fail
    MaxCrashes \* bound: crashes of the remote

ASSUME GenpoolAssumption ==
    /\ Cap \in Nat \ {0} /\ LenMod \in Nat \ {0} /\ MaxFails \in Nat /\ MaxCrashes \in Nat
    /\ Sizes \subseteq Nat \ {0}

VARIABLES
    state,    \* qdev->state
    base,     \* qdev->base: "null" or "mapped"
    buf,      \* qdev->ring.buf: "there" or "freed"
    up,       \* the endpoint is registered
    lock,     \* holder of setup_lock: "none", "setup" or "reboot"
    depth,    \* how often irq_xfer is disabled
    work,     \* setup_work is queued
    spc,      \* where qrtr_genpool_setup_work() is
    bpc,      \* where qrtr_genpool_reboot_cb() is
    mpc,      \* where qrtr_genpool_remove() is
    wpc,      \* where qrtr_genpool_send() is; it holds node->ep_lock
    left,     \* left_size
    used,     \* words in the ring to the remote
    irq,      \* irq_xfer is pending
    rpc,      \* where qrtr_genpool_xfer_intr() is
    rx,       \* words in the ring from the remote
    ring,     \* qdev->ring: words collected, and the length of the packet
    peer,     \* the remote: "off", "wait" for a setup, or "on"
    pleft,    \* words it still has to write of a packet
    lone,     \* history: 1 once a header was read before its payload arrived
    wrapped,  \* history: 1 once a packet was longer than its header can say
    torn,     \* history: 1 once the rings were replaced inside a packet
    misread,  \* history: 1 once a payload was read as a header, or the reverse
    failed,   \* history: setups that failed
    crashed,  \* history: crashes of the remote
    early,    \* history: 1 once a reboot came before the first setup
    nullw     \* history: 1 once the state was written through a null base

lifeVars  == <<state, base, buf, up, lock, depth, work, spc, bpc, mpc>>
sendVars  == <<wpc, left, used>>
readVars  == <<irq, rpc, rx, ring>>
peerVars  == <<peer, pleft>>
histVars  == <<lone, wrapped, torn, misread, failed, crashed, early, nullw>>
vars == <<lifeVars, sendVars, readVars, peerVars, histVars>>

States == {"DEFAULT", "INIT", "START", "PREPARE_REBOOT", "REBOOT"}

(* lock: waits for setup_lock; mask, sync: in disable_irq(); unreg: waits  *)
(* for ep_lock; build: replaces the memory; enable; publish: sets state.   *)
SetupPCs == {"idle", "lock", "mask", "sync", "unreg", "build", "enable", "publish"}

(* cancel: in cancel_work_sync(); state: at the switch; wait: for the      *)
(* remote; relock: takes setup_lock again; the others as above.            *)
RebootPCs == {"idle", "lock", "cancel", "state", "wait", "relock", "mask", "sync",
              "unreg", "free", "done"}

RemovePCs == {"idle", "cancel", "unreg", "free", "freed", "gone"}
SendPCs   == {"idle", "header", "payload"}

(* loop: at the test of the loop; body: the header was taken. *)
ReadPCs == {"idle", "loop", "body"}

Payload == -1

(* After qrtr_genpool_probe(), which schedules the first setup. *)
Init ==
    /\ state = "DEFAULT" /\ base = "null" /\ buf = "there" /\ up = FALSE
    /\ lock = "none" /\ depth = 0 /\ work = TRUE
    /\ spc = "idle" /\ bpc = "idle" /\ mpc = "idle"
    /\ wpc = "idle" /\ left = 0 /\ used = 0
    /\ irq = FALSE /\ rpc = "idle" /\ rx = <<>> /\ ring = [offset |-> 0, len |-> 0]
    /\ peer = "off" /\ pleft = 0
    /\ lone = 0 /\ wrapped = 0 /\ torn = 0 /\ misread = 0 /\ failed = 0 /\ crashed = 0
    /\ early = 0 /\ nullw = 0

-----------------------------------------------------------------------------
(* qrtr_genpool_set_state(), which writes the state to the memory, too. *)
SetState(s) ==
    /\ state' = s
    /\ nullw' = IF base = "null" THEN 1 ELSE nullw

(* qrtr_genpool_setup_intr() and the workqueue: work that is queued while  *)
(* it runs is run once more.                                               *)
SetupIntr == work' = TRUE

SetupStart ==
    /\ work /\ spc = "idle"
    /\ work' = FALSE
    /\ spc' = "lock"
    /\ UNCHANGED <<state, base, buf, up, lock, depth, bpc, mpc, sendVars, readVars, peerVars, histVars>>


(* Mutant: a setup after the reboot sets the state once more. *)
SetupEnter_Again ==
    /\ spc = "lock" /\ lock = "none"
    /\ \/ /\ state \in {"DEFAULT", "INIT", "START"}
          /\ lock' = "setup"
          /\ spc' = "mask"
          /\ UNCHANGED <<state, nullw>>
       \/ /\ state \in {"PREPARE_REBOOT", "REBOOT"}
          /\ SetState("REBOOT")
          /\ spc' = "idle"
          /\ UNCHANGED lock
    /\ UNCHANGED <<base, buf, up, depth, work, bpc, mpc, sendVars, readVars, peerVars,
                   lone, wrapped, torn, misread, failed, crashed, early>>

(* qrtr_genpool_setup_work() with setup_lock: what the state calls for. *)
SetupEnter ==
    /\ spc = "lock" /\ lock = "none"
    /\ \/ /\ state \in {"DEFAULT", "INIT", "START"}
          /\ lock' = "setup"
          /\ spc' = "mask"
          /\ UNCHANGED <<state, nullw>>
       \/ /\ state = "PREPARE_REBOOT"
          /\ SetState("REBOOT")
          /\ spc' = "idle"
          /\ UNCHANGED lock
       \/ /\ state = "REBOOT"
          /\ spc' = "idle"
          /\ UNCHANGED <<state, nullw, lock>>
    /\ UNCHANGED <<base, buf, up, depth, work, bpc, mpc, sendVars, readVars, peerVars,
                   lone, wrapped, torn, misread, failed, crashed, early>>

(* disable_irq(): from now on no handler starts ...                        *)
SetupMask ==
    /\ spc = "mask"
    /\ depth' = depth + 1
    /\ spc' = "sync"
    /\ UNCHANGED <<state, base, buf, up, lock, work, bpc, mpc, sendVars, readVars, peerVars, histVars>>

(* Mutant: disable_irq_nosync(). *)
SetupSync_NoWait ==
    /\ spc = "sync"
    /\ spc' = "unreg"
    /\ UNCHANGED <<state, base, buf, up, lock, depth, work, bpc, mpc, sendVars, readVars,
                   peerVars, histVars>>

(* ... and it waits for the one that runs. *)
SetupSync ==
    /\ spc = "sync" /\ rpc = "idle"
    /\ spc' = "unreg"
    /\ UNCHANGED <<state, base, buf, up, lock, depth, work, bpc, mpc, sendVars, readVars,
                   peerVars, histVars>>

(* qrtr_endpoint_unregister(), if registered: needs ep_lock. *)
SetupUnregister ==
    /\ spc = "unreg" /\ (up => wpc = "idle")
    /\ up' = FALSE
    /\ spc' = "build"
    /\ UNCHANGED <<state, base, buf, lock, depth, work, bpc, mpc, sendVars, readVars, peerVars, histVars>>

(* Free the memory, allocate it, clear the rings and register the          *)
(* endpoint.  A setup that fails leaves irq_xfer disabled.                 *)
SetupBuild ==
    /\ spc = "build"
    /\ \/ /\ base' = "mapped" /\ up' = TRUE
          /\ spc' = "enable"
          /\ UNCHANGED <<lock, failed>>
       \/ /\ failed < MaxFails
          /\ base' \in {"null", "mapped"}
          /\ spc' = "idle" /\ lock' = "none" /\ failed' = failed + 1
          /\ UNCHANGED up
    /\ used' = 0 /\ rx' = <<>> /\ pleft' = 0
    /\ torn' = IF ring.offset > 0 THEN 1 ELSE torn
    /\ UNCHANGED <<state, buf, depth, work, bpc, mpc, wpc, left, irq, rpc, ring, peer,
                   lone, wrapped, misread, crashed, early, nullw>>

(* Mutant: the interrupt is enabled when the endpoint is registered for    *)
(* the first time only.                                                    *)
SetupEnable_Once ==
    /\ spc = "enable"
    /\ depth' = IF state = "DEFAULT" THEN depth - 1 ELSE depth
    /\ spc' = "publish"
    /\ UNCHANGED <<state, base, buf, up, lock, work, bpc, mpc, sendVars, readVars, peerVars, histVars>>

SetupEnable ==
    /\ spc = "enable"
    /\ depth' = depth - 1
    /\ spc' = "publish"
    /\ UNCHANGED <<state, base, buf, up, lock, work, bpc, mpc, sendVars, readVars, peerVars, histVars>>

(* Set the state that was chosen on entry, and signal the remote, which    *)
(* uses the rings once the state is START.                                 *)
SetupPublish ==
    /\ spc = "publish"
    /\ SetState(IF state = "DEFAULT" THEN "INIT" ELSE "START")
    /\ spc' = "idle" /\ lock' = "none"
    /\ peer' = IF peer = "wait" /\ state # "DEFAULT" THEN "on" ELSE peer
    /\ UNCHANGED <<base, buf, up, depth, work, bpc, mpc, sendVars, readVars, pleft,
                   lone, wrapped, torn, misread, failed, crashed, early>>

-----------------------------------------------------------------------------
(* qrtr_genpool_reboot_cb() *)
RebootCb ==
    /\ bpc = "idle" /\ mpc # "gone"
    /\ bpc' = "lock"
    /\ UNCHANGED <<state, base, buf, up, lock, depth, work, spc, mpc, sendVars, readVars,
                   peerVars, histVars>>

RebootLock ==
    /\ bpc \in {"lock", "relock"} /\ lock = "none"
    /\ lock' = "reboot"
    /\ bpc' = IF bpc = "lock" THEN "cancel" ELSE "mask"
    /\ UNCHANGED <<state, base, buf, up, depth, work, spc, mpc, sendVars, readVars, peerVars, histVars>>

(* cancel_work_sync(): dequeue the work, and wait for it if it runs. *)
RebootCancel ==
    /\ bpc = "cancel" /\ spc = "idle"
    /\ work' = FALSE
    /\ bpc' = "state"
    /\ UNCHANGED <<state, base, buf, up, lock, depth, spc, mpc, sendVars, readVars, peerVars, histVars>>

(* Announce the reboot to a remote that is connected. *)
RebootState ==
    /\ bpc = "state"
    /\ \/ /\ state = "START"
          /\ SetState("PREPARE_REBOOT")
          /\ lock' = "none" /\ bpc' = "wait"
          /\ UNCHANGED early
       \/ /\ state \in {"DEFAULT", "INIT"}
          /\ SetState("REBOOT")
          /\ early' = IF state = "DEFAULT" THEN 1 ELSE early
          /\ bpc' = "mask"
          /\ UNCHANGED lock
    /\ UNCHANGED <<base, buf, up, depth, work, spc, mpc, sendVars, readVars, peerVars,
                   lone, wrapped, torn, misread, failed, crashed>>

(* The remote answered, or the time is up. *)
RebootWait ==
    /\ bpc = "wait"
    /\ SetState("REBOOT")
    /\ bpc' = "relock"
    /\ UNCHANGED <<base, buf, up, lock, depth, work, spc, mpc, sendVars, readVars, peerVars,
                   lone, wrapped, torn, misread, failed, crashed, early>>

RebootMask ==
    /\ bpc = "mask"
    /\ depth' = depth + 1
    /\ bpc' = "sync"
    /\ UNCHANGED <<state, base, buf, up, lock, work, spc, mpc, sendVars, readVars, peerVars, histVars>>

RebootSync ==
    /\ bpc = "sync" /\ rpc = "idle"
    /\ bpc' = "unreg"
    /\ UNCHANGED <<state, base, buf, up, lock, depth, work, spc, mpc, sendVars, readVars,
                   peerVars, histVars>>

RebootUnregister ==
    /\ bpc = "unreg" /\ (up => wpc = "idle")
    /\ up' = FALSE
    /\ bpc' = "free"
    /\ UNCHANGED <<state, base, buf, lock, depth, work, spc, mpc, sendVars, readVars, peerVars, histVars>>

RebootFree ==
    /\ bpc = "free"
    /\ base' = "null" /\ buf' = "freed"
    /\ lock' = "none" /\ bpc' = "done"
    /\ UNCHANGED <<state, up, depth, work, spc, mpc, sendVars, readVars, peerVars, histVars>>

-----------------------------------------------------------------------------
(* qrtr_genpool_remove(), which takes no lock: the reboot notifier may run *)
(* beside it.  The interrupts are freed when it has returned.              *)
Remove ==
    /\ mpc = "idle"
    /\ mpc' = "cancel"
    /\ UNCHANGED <<state, base, buf, up, lock, depth, work, spc, bpc, sendVars, readVars,
                   peerVars, histVars>>

RemoveCancel ==
    /\ mpc = "cancel" /\ spc = "idle"
    /\ work' = FALSE
    /\ mpc' = "unreg"
    /\ UNCHANGED <<state, base, buf, up, lock, depth, spc, bpc, sendVars, readVars, peerVars, histVars>>

RemoveUnregister ==
    /\ mpc = "unreg" /\ (up => wpc = "idle")
    /\ up' = FALSE
    /\ mpc' = "free"
    /\ UNCHANGED <<state, base, buf, lock, depth, work, spc, bpc, sendVars, readVars, peerVars, histVars>>

RemoveFree ==
    /\ mpc = "free"
    /\ buf' = "freed"
    /\ mpc' = "freed"
    /\ UNCHANGED <<state, base, up, lock, depth, work, spc, bpc, sendVars, readVars, peerVars, histVars>>

RemoveDone ==
    /\ mpc = "freed" /\ rpc = "idle"
    /\ mpc' = "gone"
    /\ UNCHANGED <<state, base, buf, up, lock, depth, work, spc, bpc, sendVars, readVars,
                   peerVars, histVars>>
-----------------------------------------------------------------------------
(* The length in the header: cpu_to_le16(skb->len). *)
HdrLen(n) == n % LenMod

(* qrtr_genpool_send(), called with ep_lock held.  It writes all n words,  *)
(* whatever the header holds, and that is all this ring keeps; what a      *)
(* header that says less does to its reader is seen in the other ring.     *)
Send(n) ==
    /\ wpc = "idle" /\ up
    /\ wpc' = "header" /\ left' = n
    /\ UNCHANGED <<lifeVars, used, readVars, peerVars, histVars>>

(* qrtr_genpool_generate_hdr() waits for space and writes the header; its  *)
(* loop and the next one have no other end than space.                     *)
SendHeader ==
    /\ wpc = "header" /\ used < Cap
    /\ used' = used + 1
    /\ wpc' = "payload"
    /\ UNCHANGED <<lifeVars, left, readVars, peerVars, histVars>>

Chunk == IF Cap - used < left THEN Cap - used ELSE left

SendChunk ==
    /\ wpc = "payload" /\ used < Cap
    /\ used' = used + Chunk
    /\ left' = left - Chunk
    /\ wpc' = IF left = Chunk THEN "idle" ELSE "payload"
    /\ UNCHANGED <<lifeVars, readVars, peerVars, histVars>>

-----------------------------------------------------------------------------
(* qrtr_genpool_xfer_intr(): nothing before START; the interrupts are gone *)
(* with the device.                                                        *)
XferIntr ==
    /\ irq /\ depth = 0 /\ rpc = "idle" /\ mpc # "gone"
    /\ irq' = FALSE
    /\ rpc' = IF state = "START" THEN "loop" ELSE "idle"
    /\ UNCHANGED <<lifeVars, sendVars, rx, ring, peerVars, histVars>>

(* qrtr_genpool_read_new(): take the header.  A word that is none may hold *)
(* any length.  The test against MAX_PKT_SZ, 2^16, is never true.          *)
ReadHeader ==
    /\ rpc = "loop" /\ rx # <<>> /\ ring.offset = 0
    /\ \/ /\ Head(rx) # Payload
          /\ ring' = [ring EXCEPT !.len = Head(rx)]
          /\ UNCHANGED misread
       \/ /\ Head(rx) = Payload
          /\ \E n \in 0..(LenMod - 1) : ring' = [ring EXCEPT !.len = n]
          /\ misread' = 1
    /\ rx' = Tail(rx) /\ rpc' = "body"
    /\ UNCHANGED <<lifeVars, sendVars, irq, peerVars, lone, wrapped, torn, failed, crashed, early, nullw>>

(* n words of the payload are taken; a packet that is complete is          *)
(* delivered, otherwise the number of words collected is remembered.       *)
Collect(n) ==
    /\ rx' = SubSeq(rx, n + 1, Len(rx))
    /\ ring' = IF ring.offset + n = ring.len
               THEN [offset |-> 0, len |-> 0] ELSE [ring EXCEPT !.offset = @ + n]
    /\ misread' = IF \E i \in 1..n : rx[i] # Payload THEN 1 ELSE misread
    /\ rpc' = "loop"

(* Mutant: the rest of the ring is taken for the packet. *)
Room_All == Len(rx)

(* How many words of the packet at hand there are to read. *)
Room == IF Len(rx) < ring.len - ring.offset THEN Len(rx) ELSE ring.len - ring.offset

(* The rest of qrtr_genpool_read_new(). *)
ReadBody ==
    /\ rpc = "body"
    /\ Collect(Room)
    /\ lone' = IF rx = <<>> /\ ring.len > 0 THEN 1 ELSE lone
    /\ UNCHANGED <<lifeVars, sendVars, irq, peerVars, wrapped, torn, failed, crashed, early, nullw>>

(* qrtr_genpool_read_frag() *)
ReadFrag ==
    /\ rpc = "loop" /\ rx # <<>> /\ ring.offset > 0
    /\ Collect(Room)
    /\ UNCHANGED <<lifeVars, sendVars, irq, peerVars, lone, wrapped, torn, failed, crashed, early, nullw>>

ReadDone ==
    /\ rpc = "loop" /\ rx = <<>>
    /\ rpc' = "idle"
    /\ UNCHANGED <<lifeVars, sendVars, irq, rx, ring, peerVars, histVars>>

-----------------------------------------------------------------------------
(* The remote, which runs the counterpart of this driver.  It starts and   *)
(* asks for a setup, as often as it takes to see the state START ...       *)
PeerBoot ==
    /\ peer = "off" /\ mpc # "gone"
    /\ peer' = "wait"
    /\ SetupIntr
    /\ UNCHANGED <<state, base, buf, up, lock, depth, spc, bpc, mpc, sendVars, readVars, pleft,
                   lone, wrapped, torn, misread, failed, crashed, early, nullw>>

PeerAsk ==
    /\ peer = "wait" /\ ~work /\ spc = "idle" /\ mpc # "gone"
    /\ SetupIntr
    /\ UNCHANGED <<state, base, buf, up, lock, depth, spc, bpc, mpc, sendVars, readVars, peerVars,
                   lone, wrapped, torn, misread, failed, crashed, early, nullw>>

PeerCrash ==
    /\ peer = "on" /\ crashed < MaxCrashes
    /\ peer' = "off"
    /\ crashed' = crashed + 1
    /\ UNCHANGED <<lifeVars, sendVars, readVars, pleft, lone, wrapped, torn, misread, failed, early, nullw>>

(* ... answers a reboot ...                                                *)
PeerReboot ==
    /\ peer = "on" /\ state = "PREPARE_REBOOT" /\ ~work
    /\ peer' = "off"
    /\ SetupIntr
    /\ UNCHANGED <<state, base, buf, up, lock, depth, spc, bpc, mpc, sendVars, readVars, pleft,
                   lone, wrapped, torn, misread, failed, crashed, early, nullw>>

(* ... reads what was sent ...                                             *)
PeerRead ==
    /\ peer = "on" /\ used > 0
    /\ used' = 0
    /\ UNCHANGED <<lifeVars, wpc, left, readVars, peerVars, histVars>>

(* ... and writes packets, header and payload separately, with an          *)
(* interrupt after each part of the payload.                               *)
PeerHeader(n) ==
    /\ peer = "on" /\ pleft = 0 /\ Len(rx) < Cap /\ state = "START" /\ base = "mapped"
    /\ rx' = Append(rx, HdrLen(n))
    /\ pleft' = n
    /\ wrapped' = IF HdrLen(n) = n THEN wrapped ELSE 1
    /\ UNCHANGED <<lifeVars, sendVars, irq, rpc, ring, peer, lone, torn, misread, failed, crashed,
                   early, nullw>>

PeerChunk(n) ==
    /\ peer = "on" /\ Len(rx) + n <= Cap /\ state = "START" /\ base = "mapped"
    /\ rx' = rx \o [i \in 1..n |-> Payload]
    /\ pleft' = pleft - n
    /\ irq' = TRUE
    /\ UNCHANGED <<lifeVars, sendVars, rpc, ring, peer, histVars>>

-----------------------------------------------------------------------------
Setup ==
    \/ SetupStart \/ SetupEnter \/ SetupMask \/ SetupSync \/ SetupUnregister
    \/ SetupBuild \/ SetupEnable \/ SetupPublish
Reboot ==
    \/ RebootLock \/ RebootCancel \/ RebootState \/ RebootWait \/ RebootMask
    \/ RebootSync \/ RebootUnregister \/ RebootFree
Removal == RemoveCancel \/ RemoveUnregister \/ RemoveFree \/ RemoveDone
Sender  == SendHeader \/ SendChunk
Reader  == XferIntr \/ ReadHeader \/ ReadBody \/ ReadFrag \/ ReadDone

Next ==
    \/ Setup \/ RebootCb \/ Reboot \/ Remove \/ Removal
    \/ \E n \in Sizes : Send(n) \/ PeerHeader(n)
    \/ \E n \in 1..pleft : PeerChunk(n)
    \/ Sender \/ Reader
    \/ PeerBoot \/ PeerAsk \/ PeerCrash \/ PeerReboot \/ PeerRead

Spec == Init /\ [][Next]_vars

(* Threads, interrupts and the remote, while it is there, run on; mutexes  *)
(* serve their waiters in turn.                                            *)
Fairness ==
    /\ WF_vars(Setup) /\ SF_vars(SetupEnter) /\ SF_vars(Reboot) /\ WF_vars(Removal)
    /\ WF_vars(Sender) /\ WF_vars(Reader) /\ WF_vars(PeerRead) /\ WF_vars(PeerAsk)

FairSpec == Spec /\ Fairness

-----------------------------------------------------------------------------
(* SafeAccess: the interrupt reads, and a sender writes, only while the    *)
(* shared memory and the reassembly buffer are there, whichever of setup,  *)
(* reboot and restarts of the remote overlap with them; the device is not  *)
(* being removed (qrtr_genpool_xfer_intr and qrtr_genpool_send against     *)
(* qrtr_genpool_memory_free and vfree).                                    *)
SafeAccess ==
    mpc = "idle" =>
        /\ rpc # "idle" => base = "mapped" /\ buf = "there"
        /\ wpc # "idle" => base = "mapped" /\ up

(* IrqBalanced: a connected link hears its interrupts: in the state START, *)
(* and outside a setup, irq_xfer is enabled, unless a setup had failed     *)
(* (disable_irq and enable_irq in qrtr_genpool_setup_work).                *)
IrqBalanced ==
    state = "START" /\ spc \in {"idle", "lock", "mask"} /\ failed = 0 => depth = 0

(* StateShared: the state is never written through a null base, unless a   *)
(* setup failed before or the machine reboots before the first one         *)
(* (qrtr_genpool_set_state).                                               *)
StateShared == failed = 0 /\ early = 0 => nullw = 0

(* Framed: headers and payloads are never taken for each other, although   *)
(* the ring shows them in any pieces, unless a header was read alone, the  *)
(* rings were replaced inside a packet, or a packet was longer than the 16 *)
(* bits of its header can say (qrtr_genpool_read).                         *)
Framed == misread = 1 => lone = 1 \/ torn = 1 \/ wrapped = 1

(* The ways in which a setup never ends: a sender waits for space in the   *)
(* ring of a remote that is gone, holding the ep_lock the setup needs; the *)
(* reboot notifier, holding setup_lock, waits for work that needs it.      *)
Wedged  == wpc # "idle" /\ used = Cap /\ peer # "on"
Crossed == bpc = "cancel" /\ spc = "lock"

=============================================================================
