------------------------------- MODULE SkwTx -------------------------------
(***************************************************************************)
(* Frames on their way down: skw_ndo_xmit (skw_core.c) sorts them into one *)
(* queue per access category; the tx worker (skw_tx.c) takes as many as    *)
(* the firmware has given credit for, to the USB at once or, for SDIO,     *)
(* into a ring that the dy worker empties.  Credit comes back with events  *)
(* and is set to nought when the last interface leaves its network.  One   *)
(* station interface; commands are in SkwCommand.                          *)
(***************************************************************************)
EXTENDS Integers, Sequences

CONSTANTS Grant,         \* frames the firmware has room for
          RingSize,      \* SKW_TX_VRING_SIZE
          PktLimit,      \* hw.pkt_limit, less one for the end block
          HighMark,      \* SKW_TXQ_HIGH_THRESHOLD
          LowMark,       \* SKW_TXQ_LOW_THRESHOLD
          Acm,           \* wmm.acm, the categories that need admission
          MaxSent,       \* bound: frames handed to skw_ndo_xmit
          MaxJoins,      \* bound: networks joined
          MaxTxFaults    \* bound: bus errors, thermal trips

ASSUME TxAssumption ==
    /\ {Grant, RingSize, PktLimit, HighMark, LowMark, MaxSent, MaxJoins, MaxTxFaults} \subseteq Nat
    /\ LowMark <= HighMark /\ RingSize > 1

VARIABLES txd,           \* the queues, the ring and the credit
          txw,           \* the tx worker
          dyw,           \* the dy worker
          txm            \* the network, and the firmware at the other end
txVars == <<txd, txw, dyw, txm>>

(* SKW_WMM_AC_VO comes first; the last one is never downgraded. *)
Acs == <<"vo", "be">>
AcNames == {"vo", "be"}
Worker0 == [pc |-> "idle", ac |-> 1, list |-> 0, cred |-> 0, pending |-> 0]
Dy0 == [pc |-> "idle", limit |-> 0]

(* txd.q are iface->txq with the queue of pure acks, txd.cache tx_cache, as *)
(* numbers of frames.                                                       *)
(* txm.room is what the firmware has free, txm.lost the ring's refusals,    *)
(* txm.torn that credit was reset while a worker was about to use it.       *)
QueuesOK ==
    /\ DOMAIN txd = {"bus", "q", "cache", "ring", "stopped", "credit", "woken", "dyq", "n"}
    /\ txd.bus \in {"sdio", "usb"} /\ txd.q \in [AcNames \union {"ack"} -> Nat] /\ txd.cache \in [AcNames -> Nat]
    /\ txd.ring \in 0..(RingSize - 1) /\ txd.stopped \subseteq AcNames /\ txd.credit \in Int /\ txd.n \in Nat
WorkersOK ==
    /\ DOMAIN txw = {"pc", "ac", "list", "cred", "pending"}
    /\ txw.pc \in {"idle", "check", "pick", "xmit", "sub", "exit"} /\ txw.ac \in 1..(Len(Acs) + 1)
    /\ txw.list \in Nat /\ txw.cred \in Int /\ txw.pending \in Nat
    /\ DOMAIN dyw = {"pc", "limit"} /\ dyw.pc \in {"idle", "read", "write", "sub"} /\ dyw.limit \in Int
NetworkOK ==
    /\ DOMAIN txm = {"st", "deauth", "thermal", "room", "granted", "lost", "torn", "joins", "faults"}
    /\ txm.st \in {"none", "joined", "done", "deauthed"} /\ txm.room \in Int
    /\ txm.lost \in Nat /\ txm.joins \in Nat /\ txm.faults \in Nat
TxTypeOK == QueuesOK /\ WorkersOK /\ NetworkOK

TxInit ==
    /\ \E bus \in {"sdio", "usb"} :
          txd = [bus |-> bus, q |-> [a \in AcNames \union {"ack"} |-> 0],
                 cache |-> [a \in AcNames |-> 0], ring |-> 0, stopped |-> {}, credit |-> 0,
                 woken |-> FALSE, dyq |-> FALSE, n |-> 0]
    /\ txw = Worker0 /\ dyw = Dy0
    /\ txm = [st |-> "none", deauth |-> FALSE, thermal |-> FALSE, room |-> 0, granted |-> FALSE,
              lost |-> 0, torn |-> FALSE, joins |-> 0, faults |-> 0]

Least(a, b) == IF a <= b THEN a ELSE b
Fault == txm.faults < MaxTxFaults
skw_wakeup_tx(d) == [d EXCEPT !.woken = TRUE]
skw_tx_allowed == ~txm.thermal

-----------------------------------------------------------------------------
(* skw_ndo_xmit.                                                           *)

(* EAPOL, ARP, DHCP and the like travel as commands. *)
FrameKinds == {"runt", "data", "ack", "eap", "arp"}
IsTxFilter(kind) == kind \in {"eap", "arp"}

skw_downgrade_ac(ac) == IF ac = "vo" /\ "vo" \in Acm THEN "be" ELSE ac

(* Dropped: too short; nobody to send to; to a group before the link is     *)
(* complete; anything but EAPOL before the peer's port is open (rx_filter). *)
Dropped(kind, group) ==
    \/ kind = "runt" \/ txm.st = "none"
    \/ group /\ txm.st # "done"
    \/ txm.st = "joined" /\ kind # "eap"

(* Neither these nor the command frames are queued: skw_msg_try_send takes  *)
(* the latter, or they go back to the stack, or after three times to a work.*)
XmitElsewhere ==
    \E kind \in FrameKinds, group \in BOOLEAN :
        (Dropped(kind, group) \/ IsTxFilter(kind)) /\ UNCHANGED txVars

(* Queued.  The worker is not woken without credit: the event that brings   *)
(* some will.  The device queue is stopped when queue and cache are full.   *)
Backlog(d, ac) == d.q[ac] + IF ac = "ack" THEN 0 ELSE d.cache[ac]

Queued(d, ac, prio) ==
    LET e == [d EXCEPT !.q[ac] = @ + 1, !.n = @ + 1,
                       !.woken = @ \/ d.credit # 0]
    IN  IF Backlog(e, ac) >= HighMark /\ ac # "ack" THEN [e EXCEPT !.stopped = @ \union {prio}] ELSE e

skw_ndo_xmit ==
    \E kind \in {"data", "ack"}, prio \in AcNames, group \in BOOLEAN :
        /\ txd.n < MaxSent /\ prio \notin txd.stopped /\ ~Dropped(kind, group)
        /\ LET ac == skw_downgrade_ac(prio)
           IN  txd' = Queued(txd, IF kind = "ack" THEN "ack" ELSE ac, ac)
        /\ UNCHANGED <<txw, dyw, txm>>

-----------------------------------------------------------------------------
(* The tx worker.                                                          *)

WorkerRuns ==
    /\ txw.pc = "idle" /\ txd.woken
    /\ txd' = [txd EXCEPT !.woken = FALSE] /\ txw' = [txw EXCEPT !.pc = "check"]
    /\ UNCHANGED <<dyw, txm>>

(* Without credit an SDIO worker looks again, tx_wait_time times, and then  *)
(* leaves like the others.                                                  *)
skw_tx_running_check ==
    /\ txw.pc = "check"
    /\ \/ skw_tx_allowed /\ txd.credit # 0 /\ txw' = [Worker0 EXCEPT !.pc = "pick", !.pending = txw.pending]
       \/ (~skw_tx_allowed \/ txd.credit = 0) /\ txw' = Worker0
    /\ UNCHANGED <<txd, dyw, txm>>

(* Pure acks join the cache of "be"; of those of one stream the last one    *)
(* stays and the ones without options go: at least one is left.             *)
skw_merge_pure_ack(acks) == IF acks = 0 THEN {0} ELSE 1..acks

(* Queue and acks are moved to the cache, which is flushed while the        *)
(* station is leaving; a queue that was stopped is started again.           *)
skw_txq_prepare(d, ac, acks) ==
    LET all == d.cache[ac] + d.q[ac] + IF ac = "be" THEN acks ELSE 0
        kept == IF txm.deauth THEN 0 ELSE all
    IN  [d EXCEPT !.q[ac] = 0, !.q["ack"] = IF ac = "be" THEN 0 ELSE @, !.cache[ac] = kept,
                  !.stopped = IF kept < LowMark THEN @ \ {ac} ELSE @]

skw_vring_available_count(d) == RingSize - d.ring
skw_vring_check(d, n) == d.bus = "sdio" /\ n + 1 >= skw_vring_available_count(d)

(* How many of the cache go: while there is credit, room in the ring, and   *)
(* the limit of one transfer; all of them if the credit is negative.        *)
Picked(d, ac) ==
    CHOOSE n \in 0..d.cache[ac] :
        /\ n <= PktLimit /\ (d.credit >= 0 => n <= d.credit) /\ (n > 0 => ~skw_vring_check(d, n - 1))
        /\ \/ n = d.cache[ac] \/ n = PktLimit \/ n = d.credit \/ skw_vring_check(d, n)

(* One access category.  Frames whose peer was deauthenticated are freed on *)
(* the way, but count as waiting; the rest wait in the cache.               *)
skw_tx_worker ==
    /\ txw.pc = "pick" /\ UNCHANGED <<dyw, txm>>
    /\ \E acks \in skw_merge_pure_ack(txd.q["ack"]) :
        LET ac == Acs[txw.ac]
            p == skw_txq_prepare(txd, ac, acks)
            d == IF txm.st = "deauthed" /\ ~skw_vring_check(p, 0) THEN [p EXCEPT !.cache[ac] = 0] ELSE p
            n == Picked(d, ac)
        IN  \/ /\ p.cache[ac] = 0 /\ txd' = p
               /\ txw' = [txw EXCEPT !.ac = @ + 1, !.pc = IF txw.ac = Len(Acs) THEN "exit" ELSE "pick"]
            \/ /\ p.cache[ac] # 0 /\ p.credit = 0 /\ txd' = p
               /\ txw' = [txw EXCEPT !.pc = "exit"]
            \/ /\ p.cache[ac] # 0 /\ p.credit # 0
               /\ txd' = [d EXCEPT !.cache[ac] = @ - n]
               /\ txw' = [txw EXCEPT !.pc = "xmit", !.list = n, !.cred = d.credit - n,
                                     !.pending = p.cache[ac] - n]

(* On to the next category, or to the end when all credit is used. *)
Onward(w) == [w EXCEPT !.list = 0, !.cred = 0, !.ac = @ + 1,
                       !.pc = IF w.cred = 0 \/ w.ac = Len(Acs) THEN "exit" ELSE "pick"]

(* skw_vring_set drops what the ring refuses, skw_sdio_xmit does not look. *)
skw_vring_set(d, s) ==
    LET k == Least(RingSize - 1 - d.ring, s)
    IN  [ring |-> d.ring + k, refused |-> s - k]

skw_sdio_xmit ==
    /\ txw.pc = "xmit" /\ txd.bus = "sdio"
    /\ LET r == skw_vring_set(txd, txw.list)
       IN  /\ txd' = [txd EXCEPT !.ring = r.ring, !.dyq = @ \/ txw.list > 0]
           /\ txm' = [txm EXCEPT !.lost = @ + r.refused]
    /\ txw' = Onward(txw) /\ UNCHANGED dyw

(* The frames of a transfer that fails are freed and cost nothing. *)
skw_usb_xmit ==
    \E ok \in BOOLEAN :
        /\ txw.pc = "xmit" /\ txd.bus = "usb" /\ (ok \/ (Fault /\ txw.list > 0))
        /\ txm' = IF ok THEN [txm EXCEPT !.room = @ - txw.list] ELSE [txm EXCEPT !.faults = @ + 1]
        /\ txw' = IF ok THEN [txw EXCEPT !.pc = "sub"] ELSE Onward(txw)
        /\ UNCHANGED <<txd, dyw>>

skw_async_adma_tx ==
    /\ txw.pc = "sub"
    /\ txd' = [txd EXCEPT !.credit = @ - txw.list]
    /\ txw' = Onward(txw) /\ UNCHANGED <<dyw, txm>>

(* Round again while something that could go was left when a category was   *)
(* last served, else the device queues are started and the worker ends.     *)
skw_tx_exit_check ==
    /\ txw.pc = "exit" /\ UNCHANGED <<dyw, txm>>
    /\ IF txw.pending > 0 /\ txm.st # "none" /\ (IF txd.bus = "usb" THEN txd.credit > 0 ELSE skw_vring_available_count(txd) > 1)
       THEN txw' = [txw EXCEPT !.pc = "check"] /\ UNCHANGED txd
       ELSE txw' = Worker0 /\ txd' = [txd EXCEPT !.stopped = {}]

-----------------------------------------------------------------------------
(* The dy worker.                                                          *)

DyRuns ==
    /\ dyw.pc = "idle" /\ txd.dyq
    /\ txd' = [txd EXCEPT !.dyq = FALSE] /\ dyw' = [dyw EXCEPT !.pc = "read"] /\ UNCHANGED <<txw, txm>>

skw_dy_worker ==
    /\ dyw.pc = "read" /\ UNCHANGED <<txd, txw, txm>>
    /\ dyw' = IF txd.credit = 0 \/ txd.ring = 0 THEN Dy0
              ELSE [pc |-> "write", limit |-> Least(Least(txd.ring, txd.credit), PktLimit)]

(* The limit is taken for unsigned here: a negative one does not limit.     *)
(* The ring forgets the frames whether they were written or not.            *)
Written == IF dyw.limit < 0 THEN txd.ring ELSE dyw.limit
FailedWriteCosts ==
    \E ok \in BOOLEAN :
        /\ dyw.pc = "write" /\ (ok \/ Fault) /\ UNCHANGED txw
        /\ txd' = [txd EXCEPT !.ring = @ - Written]
        /\ txm' = IF ok THEN [txm EXCEPT !.room = @ - Written] ELSE [txm EXCEPT !.faults = @ + 1]
        /\ dyw' = [dyw EXCEPT !.pc = "sub"]

skw_sdio_write ==
    \E ok \in BOOLEAN :
        /\ dyw.pc = "write" /\ (ok \/ Fault) /\ UNCHANGED txw
        /\ txd' = [txd EXCEPT !.ring = @ - Written]
        /\ txm' = IF ok THEN [txm EXCEPT !.room = @ - Written] ELSE [txm EXCEPT !.faults = @ + 1]
        /\ dyw' = [dyw EXCEPT !.pc = IF ok THEN "sub" ELSE "read"]

skw_sub_credit ==
    /\ dyw.pc = "sub" /\ UNCHANGED <<txw, txm>>
    /\ txd' = [txd EXCEPT !.credit = @ - dyw.limit] /\ dyw' = [dyw EXCEPT !.pc = "read"]

-----------------------------------------------------------------------------
(* The network and the firmware.                                           *)

Crossing == dyw.pc \in {"write", "sub"} \/ txw.pc \in {"xmit", "sub"}

TxJoin ==
    /\ txm.st = "none" /\ txm.joins < MaxJoins
    /\ txm' = [txm EXCEPT !.st = "joined", !.deauth = FALSE, !.joins = @ + 1] /\ UNCHANGED <<txd, txw, dyw>>
TxCompleted ==
    /\ txm.st = "joined" /\ txm' = [txm EXCEPT !.st = "done"] /\ UNCHANGED <<txd, txw, dyw>>
TxDeauthed ==
    /\ txm.st \in {"joined", "done"} /\ txm' = [txm EXCEPT !.st = "deauthed"] /\ UNCHANGED <<txd, txw, dyw>>
TxLeave ==
    /\ txm.st # "none" /\ ~txm.deauth /\ txm' = [txm EXCEPT !.deauth = TRUE] /\ UNCHANGED <<txd, txw, dyw>>

(* UNJOIN was answered: the credit is gone with the last interface. *)
skw_lmac_unbind_iface ==
    /\ txm.st # "none" /\ txm.deauth
    /\ txm' = [txm EXCEPT !.st = "none", !.granted = FALSE, !.room = 0, !.torn = Crossing]
    /\ txd' = [txd EXCEPT !.credit = 0] /\ UNCHANGED <<txw, dyw>>
UnjoinRefused ==
    /\ txm.st # "none" /\ txm.deauth /\ txm' = [txm EXCEPT !.deauth = FALSE] /\ UNCHANGED <<txd, txw, dyw>>

AddCreditSilent(n) ==
    /\ txd' = [txd EXCEPT !.credit = @ + n, !.dyq = @ \/ txd.bus = "sdio"]
    /\ txm' = [txm EXCEPT !.room = @ + n, !.granted = TRUE] /\ UNCHANGED <<txw, dyw>>

(* Credit: the first grant, and what the firmware has done with. *)
skw_add_credit(n) ==
    /\ txd' = [skw_wakeup_tx(txd) EXCEPT !.credit = @ + n, !.dyq = @ \/ txd.bus = "sdio"]
    /\ txm' = [txm EXCEPT !.room = @ + n, !.granted = TRUE] /\ UNCHANGED <<txw, dyw>>
FwGrants == txm.st # "none" /\ ~txm.granted /\ skw_add_credit(Grant)
FwReturns == txm.granted /\ txm.room < Grant /\ skw_add_credit(1)

(* Too hot: the device queues stand still.  When it has cooled down they    *)
(* are started, but neither the stack nor the worker is told.               *)
skw_event_thermal_warn ==
    \/ /\ ~txm.thermal /\ Fault
       /\ txm' = [txm EXCEPT !.thermal = TRUE, !.faults = @ + 1]
       /\ txd' = [txd EXCEPT !.stopped = AcNames] /\ UNCHANGED <<txw, dyw>>
    \/ /\ txm.thermal
       /\ txm' = [txm EXCEPT !.thermal = FALSE]
       /\ txd' = [txd EXCEPT !.stopped = {}] /\ UNCHANGED <<txw, dyw>>

TxRest ==
    /\ txd.n = MaxSent /\ txm.joins = MaxJoins /\ txm.st = "none" /\ UNCHANGED txVars

TxNext == \/ XmitElsewhere \/ skw_ndo_xmit
          \/ WorkerRuns \/ skw_tx_running_check \/ skw_tx_worker \/ skw_sdio_xmit \/ skw_usb_xmit
          \/ skw_async_adma_tx \/ skw_tx_exit_check
          \/ DyRuns \/ skw_dy_worker \/ skw_sdio_write \/ skw_sub_credit
          \/ TxJoin \/ TxCompleted \/ TxDeauthed \/ TxLeave \/ skw_lmac_unbind_iface \/ UnjoinRefused
          \/ FwGrants \/ FwReturns \/ skw_event_thermal_warn \/ TxRest

(* The workers run when queued, the bus answers, and a firmware that holds  *)
(* frames gives their credit back.                                          *)
TxFairness ==
    /\ WF_txVars(WorkerRuns \/ skw_tx_running_check \/ skw_tx_worker \/ skw_sdio_xmit \/ skw_usb_xmit
                 \/ skw_async_adma_tx \/ skw_tx_exit_check)
    /\ WF_txVars(DyRuns \/ skw_dy_worker \/ skw_sdio_write \/ skw_sub_credit)
    /\ WF_txVars(FwGrants \/ FwReturns)
TxSpec == TxInit /\ [][TxNext]_txVars /\ TxFairness

-----------------------------------------------------------------------------
(* The driver's credit is the firmware's room: what has been handed over    *)
(* and not yet been accounted for makes the difference, and the room is     *)
(* never overdrawn, whatever fails on the bus.  The exception: the credit   *)
(* was reset under a worker that had already counted with it.               *)
Owed == (IF dyw.pc = "sub" THEN dyw.limit ELSE 0) + (IF txw.pc = "sub" THEN txw.list ELSE 0)
CreditIsRoom == ~txm.torn => /\ txd.credit - Owed = txm.room
                             /\ txm.room >= 0 /\ txd.credit >= 0

(* skw_sdio_xmit does not look whether the ring took a frame, so the worker *)
(* must not pick more than the ring can take: no frame is lost there.       *)
RingTakesAll == txm.lost = 0

(* Frames that were accepted leave, if the bus does not fail, the firmware  *)
(* stays cool and in the network.                                           *)
Waiting == \E a \in AcNames : txd.q[a] > 0 \/ txd.cache[a] > 0
FramesLeave == (Waiting \/ txd.q["ack"] > 0) ~>
                   (~(Waiting \/ txd.q["ack"] > 0) \/ txm.thermal \/ txm.faults > 0 \/ txm.torn
                    \/ txm.st = "none" \/ txm.deauth)
=============================================================================
