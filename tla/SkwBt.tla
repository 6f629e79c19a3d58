------------------------------- MODULE SkwBt -------------------------------
(***************************************************************************)
(* The Bluetooth driver (swtbt4l/skw_btdriver.c): the HCI device is opened *)
(* (ports, service, NV download with one command at a time), frames are    *)
(* queued for a worker, the platform tells of the firmware's death and of  *)
(* its return, the device is closed and removed.  The HCI core calls open  *)
(* and close one at a time, and flush before close.  A failed NV command   *)
(* is told from a good one only by the time it takes.                      *)
(***************************************************************************)
EXTENDS Naturals, Sequences

CONSTANTS NvPages,       \* NV commands that the file makes
          MaxBtOps,      \* bound: opens, closes, frames
          MaxBtFaults,   \* bound: deaths, failures, answers that are lost
          MaxRemoves     \* bound: removals of the device

ASSUME BtAssumption == {NvPages, MaxBtOps, MaxBtFaults, MaxRemoves} \subseteq Nat /\ NvPages > 0

HciPorts == {"cmd", "data", "audio"}

VARIABLES bt,            \* struct btseekwave_data and the statics
          ba,            \* the actors
          bf             \* the firmware, counts, history
btVars == <<bt, ba, bf>>

(* bt.reg is skw_data # NULL, bt.sync atomic_close_sync.  A frame is the    *)
(* generation of the firmware it was queued for.  ba.hci is the HCI core's  *)
(* call, ba.step the NV command it waits for: 0 is the version, NvPages + 1 *)
(* the address.  bf.ans are answers of the chip on their way.               *)
BtTypeOK ==
    /\ {bt.reg, bt.reject, bt.init, bt.evt, bt.notif, bt.isopen, bt.service} \subseteq BOOLEAN
    /\ bt.sync \in {"default", "close", "remove"} /\ bt.ports \subseteq HciPorts /\ bt.q \in Seq(Nat)
    /\ ba.hci \in {"none", "down", "owait", "ports", "nv", "await", "up", "closing"}
    /\ ba.step \in 0..NvPages + 1 /\ ba.remove \in {"none", "wait", "unreg"}
    /\ ba.note \in {"idle", "assert", "ready", "flush"} /\ bf.alive \in BOOLEAN

BtInit ==
    /\ bt = [reg |-> FALSE, reject |-> FALSE, init |-> FALSE, evt |-> FALSE, notif |-> FALSE, isopen |-> FALSE,
             service |-> FALSE, sync |-> "default", ports |-> {}, q |-> <<>>]
    /\ ba = [hci |-> "none", step |-> 0, remove |-> "none", note |-> "idle", pend |-> FALSE, run |-> FALSE]
    /\ bf = [alive |-> TRUE, gen |-> 1, ans |-> 0, ops |-> 0, faults |-> 0, removes |-> 0, stale |-> FALSE, ahead |-> FALSE, odd |-> {}]

BtFault == bf.faults < MaxBtFaults
Odder(f, what) == [f EXCEPT !.odd = @ \union {what}]
BtFaulty(f, what) == [Odder(f, what) EXCEPT !.faults = @ + 1]

-----------------------------------------------------------------------------
(* Probe, open.                                                             *)

btseekwave_probe ==
    /\ ba.hci = "none" /\ ba' = [ba EXCEPT !.hci = "down"]
    /\ bt' = [bt EXCEPT !.reg = TRUE, !.reject = FALSE, !.sync = "default", !.notif = FALSE,
                        !.isopen = FALSE, !.q = <<>>] /\ UNCHANGED bf

(* With the firmware away it waits two seconds for it, then returns the 0   *)
(* of the timeout: the HCI core takes the device for open.                  *)
btseekwave_open ==
    /\ ba.hci = "down" /\ ba.remove = "none" /\ bf.ops < MaxBtOps /\ bf' = [bf EXCEPT !.ops = @ + 1]
    /\ ba' = [ba EXCEPT !.hci = IF bt.reject THEN "owait" ELSE "ports"] /\ UNCHANGED bt
OpenWaits ==
    /\ ba.hci = "owait" /\ UNCHANGED bt
    /\ IF bt.reject THEN ba' = [ba EXCEPT !.hci = "up"] /\ bf' = Odder(bf, "hollow")
       ELSE ba' = [ba EXCEPT !.hci = "ports"] /\ UNCHANGED bf

(* A port that is opened is empty.  What fails here leaves open what had    *)
(* been opened.                                                             *)
OpenPorts ==
    /\ ba.hci = "ports"
    /\ \/ /\ ba' = [ba EXCEPT !.hci = "nv", !.step = 0] /\ bf' = [bf EXCEPT !.ans = 0]
          /\ bt' = [bt EXCEPT !.ports = HciPorts, !.service = TRUE, !.init = TRUE]
       \/ /\ BtFault /\ \E got \in {{}, {"cmd"}, {"cmd", "data"}, HciPorts} :
                bt' = [bt EXCEPT !.ports = @ \union got]
          /\ bf' = BtFaulty(bf, "leak") /\ ba' = [ba EXCEPT !.hci = "down"]

(* The answer to an earlier command must not count: evt_recv is reset.      *)
btseekwave_send_hci_command ==
    /\ ba.hci = "nv" /\ ba' = [ba EXCEPT !.hci = "await", !.pend = TRUE]
    /\ bt' = [bt EXCEPT !.evt = FALSE, !.q = Append(@, bf.gen)] /\ UNCHANGED bf

(* bt_is_open first, then the notifier (its callbacks have returned), then  *)
(* the service and the ports.                                               *)
PortClosed(b) == [b EXCEPT !.isopen = FALSE, !.notif = FALSE, !.service = FALSE, !.ports = {}]

OpenDone(b) == [b EXCEPT !.isopen = TRUE, !.notif = TRUE, !.init = FALSE, !.sync = "default"]
btseekwave_download_nv ==
    /\ ba.hci = "await" /\ bt.evt /\ bf' = [bf EXCEPT !.ahead = @ \/ bt.q # <<>>]
    /\ IF ba.step <= NvPages THEN ba' = [ba EXCEPT !.hci = "nv", !.step = @ + 1] /\ UNCHANGED bt
       ELSE ba' = [ba EXCEPT !.hci = "up"] /\ bt' = OpenDone(bt)

(* No answer in a second.  Of the version: the firmware is made to assert,  *)
(* the open fails.  Of a page: that of an old chip goes on with the         *)
(* address, as if the file had ended.  Of the address: nothing.             *)
NvTimeout ==
    /\ ba.hci = "await" /\ ~bt.evt /\ BtFault
    /\ \/ /\ ba.step = 0 /\ ba' = [ba EXCEPT !.hci = "down"]
          /\ bf' = [BtFaulty(Odder(bf, "givenup"), "unheard") EXCEPT !.alive = FALSE]
          /\ bt' = [PortClosed(bt) EXCEPT !.sync = "default"]
       \/ /\ ba.step \in 1..NvPages /\ bf' = BtFaulty(bf, "givenup") /\ ba' = [ba EXCEPT !.hci = "down"]
          /\ bt' = [PortClosed(bt) EXCEPT !.sync = "default", !.init = FALSE]
       \/ /\ ba.step \in 1..NvPages /\ bf' = BtFaulty(bf, "givenup")
          /\ ba' = [ba EXCEPT !.hci = "nv", !.step = NvPages + 1] /\ UNCHANGED bt
       \/ /\ ba.step > NvPages /\ bf' = BtFaulty(bf, "givenup")
          /\ ba' = [ba EXCEPT !.hci = "up"] /\ bt' = OpenDone(bt)

(* request_firmware fails, once the version is known. *)
NvFileMissing ==
    /\ ba.hci = "nv" /\ ba.step = 1 /\ BtFault /\ bf' = BtFaulty(bf, "nofile")
    /\ ba' = [ba EXCEPT !.hci = "down"] /\ bt' = [PortClosed(bt) EXCEPT !.sync = "default"]

-----------------------------------------------------------------------------
(* Frames.                                                                  *)

btseekwave_send_frame ==
    /\ ba.hci = "up" /\ bf.ops < MaxBtOps /\ bf' = [bf EXCEPT !.ops = @ + 1]
    /\ bt' = [bt EXCEPT !.q = Append(@, bf.gen)] /\ ba' = [ba EXCEPT !.pend = TRUE]

btseekwave_work ==
    /\ ba.pend /\ ~ba.run /\ ba' = [ba EXCEPT !.pend = FALSE, !.run = ~bt.reject] /\ UNCHANGED <<bt, bf>>

(* A frame that cannot be sent stays at the head until the next is queued.  *)
btseekwave_tx_packet ==
    /\ ba.run
    /\ IF bt.q = <<>> THEN ba' = [ba EXCEPT !.run = FALSE] /\ UNCHANGED <<bt, bf>>
       ELSE \/ /\ bt.ports = HciPorts /\ bt' = [bt EXCEPT !.q = Tail(@)] /\ UNCHANGED ba
               /\ bf' = [bf EXCEPT !.ans = IF bf.alive /\ bf.gen = Head(bt.q) THEN @ + 1 ELSE @,
                                   !.stale = @ \/ (/\ bf.alive /\ bf.gen # Head(bt.q) /\ ba.remove = "none"
                                                   /\ ba.note \notin {"ready", "flush"})]
            \/ /\ (bt.ports # HciPorts \/ ~bf.alive)
               /\ ba' = [ba EXCEPT !.run = FALSE] /\ UNCHANGED <<bt, bf>>

(* In init mode whatever comes is the answer. *)
btseekwave_rx_complete ==
    /\ bf.ans > 0 /\ bt.ports = HciPorts /\ bf' = [bf EXCEPT !.ans = @ - 1]
    /\ bt' = IF bt.init THEN [bt EXCEPT !.evt = TRUE] ELSE bt
    /\ UNCHANGED ba

-----------------------------------------------------------------------------
(* The platform's notifications: DEVICE_ASSERT_EVENT and BSPREADY_EVENT.    *)

BtFwDies == /\ bf.alive /\ BtFault /\ ba.note = "idle"
            /\ bf' = [(IF bt.notif THEN bf ELSE Odder(bf, "unheard")) EXCEPT !.alive = FALSE, !.faults = @ + 1, !.ans = 0]
            /\ ba' = [ba EXCEPT !.note = IF bt.notif THEN "assert" ELSE @] /\ UNCHANGED bt
BtFwReturns == /\ ~bf.alive /\ ba.note = "idle" 
               /\ bf' = [(IF bt.notif THEN bf ELSE Odder(bf, "unheard")) EXCEPT !.alive = TRUE, !.gen = @ + 1, !.ans = 0]
               /\ ba' = [ba EXCEPT !.note = IF bt.notif THEN "ready" ELSE @] /\ UNCHANGED bt

NotifyAssert == /\ ba.note = "assert" /\ ba' = [ba EXCEPT !.note = "idle"]
                /\ bt' = IF bt.reg THEN [bt EXCEPT !.reject = TRUE, !.service = FALSE] ELSE bt
                /\ UNCHANGED bf
NotifyReady ==
    /\ ba.note = "ready" /\ bt' = IF bt.reg THEN [bt EXCEPT !.reject = FALSE] ELSE bt
    /\ ba' = [ba EXCEPT !.note = IF bt.reg /\ bt.reject THEN "flush" ELSE "idle"] /\ UNCHANGED bf

(* A worker that is pending is cancelled, one that runs is not waited for;  *)
(* the host is told of a hardware error.  A frame queued since the worker   *)
(* was let go takes the old ones before it along.                           *)
btseekwave_flush ==
    /\ ba.note = "flush" /\ ba' = [ba EXCEPT !.note = "idle", !.pend = FALSE]
    /\ bt' = [bt EXCEPT !.q = <<>>] /\ UNCHANGED bf

-----------------------------------------------------------------------------
(* Close, remove.                                                           *)

Closing(a) == [a EXCEPT !.hci = "closing", !.pend = FALSE]
CloseStart == /\ ba.hci = "up" /\ ba.remove = "none" /\ bf.ops < MaxBtOps /\ bf' = [bf EXCEPT !.ops = @ + 1]
              /\ ba' = Closing(ba) /\ bt' = [bt EXCEPT !.q = <<>>]

(* It waits two seconds for the firmware to return.  If it did not, nobody  *)
(* is left to hear that it does, and cmd_reject stays.                      *)
btseekwave_close ==
    /\ ba.hci = "closing" /\ (bt.notif => ba.note = "idle")
    /\ bt' = [PortClosed(bt) EXCEPT !.sync = "close"]
    /\ bf' = IF bt.reject THEN Odder(bf, "abandoned") ELSE bf
    /\ ba' = [ba EXCEPT !.hci = "down"]

(* It waits half a second for a close, if there was none since the open.    *)
btseekwave_remove ==
    /\ ba.hci # "none" /\ ba.remove = "none" /\ bf.removes < MaxRemoves
    /\ bf' = [bf EXCEPT !.removes = @ + 1]
    /\ bt' = [bt EXCEPT !.reject = FALSE, !.sync = IF @ = "default" THEN "remove" ELSE @]
    /\ ba' = [ba EXCEPT !.remove = "wait"]
RemoveWaited ==
    /\ ba.remove = "wait" /\ (bt.notif => ba.note = "idle")
    /\ bt' = [bt EXCEPT !.sync = "default", !.reg = FALSE, !.isopen = FALSE, !.notif = FALSE, !.q = <<>>]
    /\ ba' = [ba EXCEPT !.remove = "unreg", !.pend = FALSE] /\ UNCHANGED bf
(* hci_unregister_dev closes the device if it is open. *)
Unregister ==
    /\ ba.remove = "unreg" /\ ba.hci \in {"up", "down"} /\ UNCHANGED bf
    /\ IF ba.hci = "up" THEN ba' = Closing(ba) /\ bt' = [bt EXCEPT !.q = <<>>]
       ELSE ba' = [ba EXCEPT !.hci = "none", !.remove = "none", !.run = FALSE] /\ UNCHANGED bt

BtNext ==
    \/ btseekwave_probe \/ btseekwave_open \/ OpenWaits \/ OpenPorts
    \/ btseekwave_send_hci_command \/ btseekwave_download_nv \/ NvTimeout \/ NvFileMissing
    \/ btseekwave_send_frame \/ btseekwave_work \/ btseekwave_tx_packet \/ btseekwave_rx_complete
    \/ BtFwDies \/ BtFwReturns \/ NotifyAssert \/ NotifyReady \/ btseekwave_flush
    \/ CloseStart \/ btseekwave_close \/ btseekwave_remove \/ RemoveWaited \/ Unregister
BtSpec == BtInit /\ [][BtNext]_btVars

-----------------------------------------------------------------------------

(* A device that the HCI core takes for open has its ports open and hears   *)
(* of the firmware's death; one that is closed holds neither port nor       *)
(* service nor notifier; commands are rejected only while somebody is       *)
(* registered to end that.  (Not after an open that gave up waiting, one    *)
(* that failed half-way, or a close that did not see the firmware return.)  *)
BtOpenMeansOpen ==
    /\ ba.hci = "up" /\ ba.remove # "unreg" /\ "hollow" \notin bf.odd => bt.ports = HciPorts /\ bt.notif
    /\ ba.hci = "down" /\ bf.odd \intersect {"leak", "hollow"} = {} => bt.ports = {} /\ ~bt.notif /\ ~bt.service
    /\ bt.reject /\ bt.reg => bt.notif \/ "abandoned" \in bf.odd

(* A frame that was queued for a firmware that died is not sent to the one  *)
(* that follows: the worker rejects until the queues are flushed.  (But not *)
(* one that was running already, and it is let go before the flush; nor is  *)
(* anything flushed when the driver was not registered as it died or        *)
(* returned.)                                                               *)
NoStaleFrame == bf.stale => "unheard" \in bf.odd

(* While the NV data is sent, a command counts as answered only when it has *)
(* left the queue: an earlier answer is not taken for its own.  (It is when *)
(* a command was given up before, itself in the queue or its answer on the  *)
(* way, or the firmware died unheard.)                                      *)
AnswerIsOwn == bf.ahead => bf.odd \intersect {"givenup", "unheard"} # {}
=============================================================================
