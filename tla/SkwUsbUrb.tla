----------------------------- MODULE SkwUsbUrb -----------------------------
(***************************************************************************)
(* The Wi-Fi data port of the USB driver (skw_usb_io.c): a pool of read    *)
(* requests (urbs) that the tasklet sends out again when they have brought *)
(* data, a pool of write requests, and what suspend, resume and disconnect *)
(* do with them.  A read request is free (rx_urb_list), in the air, done   *)
(* (rx_done_urb_list) or put by (suspend_urb_list); the counter            *)
(* bulk_async_read is kept apart from the lists.                           *)
(***************************************************************************)
EXTENDS Integers, Sequences

CONSTANTS RxUrbs,        \* read requests, 3 in the code
          TxUrbs,        \* write requests, 10 in the code
          MaxUsbPm,      \* bound: suspends
          MaxUsbFaults,  \* bound: transfers and submissions that fail, kicks
          MaxUsbSends    \* bound: writes

ASSUME UrbAssumption == /\ {RxUrbs, TxUrbs, MaxUsbPm, MaxUsbFaults, MaxUsbSends} \subseteq Nat
                        /\ RxUrbs > 0 /\ TxUrbs > 0

VARIABLES ub,            \* struct usb_port_struct: its lists and flags
          ua             \* where its actors stand, counts, history
urbVars == <<ub, ua>>

(* ub.bulk is bulk_async_read, ub.by suspend_urb_list: a request has its    *)
(* context or is bare.  ua.lost are requests that no list holds any more.   *)
UrbTypeOK ==
    /\ ub.state \in BOOLEAN /\ ub.suspend \in BOOLEAN /\ {ub.free, ub.air} \subseteq 0..RxUrbs
    /\ ub.done \in Seq({"ok", "err"}) /\ ub.by \in Seq({"ctx", "bare"})
    /\ ub.txfree \in 0..TxUrbs /\ ub.tx_urb_count \in 0..TxUrbs
    /\ ua.thread \in {"start", "wait", "killed", "gone"} /\ ua.task \in {"idle", "sched", "read"}
    /\ ua.pm \in {"on", "flag", "off", "resume", "empty"} /\ ua.send \in {"idle", "wait", "take"}

UrbInit ==
    /\ ub = [state |-> TRUE, suspend |-> FALSE, free |-> 0, air |-> 0, done |-> <<>>, by |-> <<>>,
             bulk |-> 0, txfree |-> 0, tx_urb_count |-> 0]
    /\ \E spent \in 0..1 :                    \* of the faults, or of the suspends
          ua = [thread |-> "start", task |-> "idle", pm |-> "on", kick |-> FALSE, send |-> "idle",
                disc |-> FALSE, lost |-> 0, pms |-> 0, cap |-> MaxUsbPm - 1 + spent, faults |-> spent, sends |-> 0, odd |-> {}]

UrbFault == ua.faults < MaxUsbFaults
Note(a, what) == [a EXCEPT !.faults = @ + 1, !.odd = @ \union {what}]

-----------------------------------------------------------------------------
(* The read requests.                                                       *)

(* While the port is suspended a request is put by.  So is one that cannot  *)
(* be submitted: it is bare, and only a resume looks at it again.  From an  *)
(* empty list the head of the list itself is taken for a request.           *)
bulkin_read_async(a, ok) ==
    IF ub.free = 0 THEN UNCHANGED ub /\ ua' = [a EXCEPT !.odd = @ \union {"torn"}]
    ELSE IF ub.suspend
    THEN /\ ub' = [ub EXCEPT !.free = @ - 1, !.by = Append(@, "ctx")]
         /\ ua' = [a EXCEPT !.odd = IF ua.pm = "empty" THEN @ \union {"crossed"} ELSE @]
    ELSE IF ok THEN ub' = [ub EXCEPT !.free = @ - 1, !.air = @ + 1, !.bulk = @ + 1] /\ ua' = a
    ELSE /\ UrbFault /\ ua' = Note(a, "refused")
         /\ ub' = [ub EXCEPT !.free = @ - 1, !.by = Append(@, "bare")]

(* The requests are made, all free; one is sent out. *)
AllUrbs == [ub EXCEPT !.free = RxUrbs, !.txfree = TxUrbs]
usb_port_async_entry ==
    /\ ua.thread = "start" /\ ub.state
    /\ ua' = [ua EXCEPT !.thread = "wait", !.odd = IF ua.pm = "empty" THEN @ \union {"crossed"} ELSE @]
    /\ ub' = IF ub.suspend THEN [AllUrbs EXCEPT !.free = @ - 1, !.by = <<"ctx">>]
             ELSE [AllUrbs EXCEPT !.free = @ - 1, !.air = 1, !.bulk = 1]

(* n requests complete, one after the other.                                *)
bulkin_async_complete(b, n, status) ==
    LET r == [b EXCEPT !.air = @ - n, !.bulk = @ - n]
    IN  IF status = "killed" /\ b.suspend THEN [r EXCEPT !.by = @ \o [i \in 1..n |-> "ctx"]]
        ELSE IF b.state
        THEN [r EXCEPT !.done = @ \o [i \in 1..n |-> IF status = "killed" THEN "err" ELSE status]]
        ELSE [r EXCEPT !.free = @ + n]

(* A resume that goes on sending out what the tasklet goes on putting by    *)
(* drives the counter down: bounded here.                                   *)
LeastBulk == -2 * RxUrbs
UrbCompletes(status) ==
    /\ ub.air > 0 /\ ub.bulk > LeastBulk /\ ua.thread = "wait" /\ (status = "err" => UrbFault)
    /\ ub' = bulkin_async_complete(ub, 1, status)
    /\ ua' = [(IF status = "err" THEN Note(ua, "failed") ELSE ua) EXCEPT
                !.task = IF ub.state /\ @ = "idle" THEN "sched" ELSE @]

(* The tasklet hands over what has come, until one is in error, and sends   *)
(* out all that are free.  It may be scheduled anew while it runs.          *)
usb_handle ==
    /\ ua.task = "sched"
    /\ LET bad == {i \in 1..Len(ub.done) : ub.done[i] = "err"}
           k == IF ~ub.state THEN 0
                ELSE IF bad = {} THEN Len(ub.done) ELSE CHOOSE i \in bad : \A j \in bad : i <= j
       IN  /\ ub' = [ub EXCEPT !.done = SubSeq(@, k + 1, Len(@)), !.free = @ + k]
           /\ ua' = [ua EXCEPT !.task = IF ub.state /\ bad # {} THEN "idle" ELSE "read"]
HandleReads ==
    /\ ua.task = "read"
    /\ IF ub.free > 0 /\ ub.state THEN \E ok \in BOOLEAN : bulkin_read_async(ua, ok)
       ELSE /\ ua' = [ua EXCEPT !.task = IF ub.done # <<>> /\ ub.state THEN "sched" ELSE "idle"]
            /\ UNCHANGED ub

(* A command that has timed out: if nothing is in the air, by the counter,  *)
(* one request is sent out.  The list is looked at before it is locked.     *)
usb_kick_rx ==
    /\ ~ua.kick /\ UrbFault /\ ua.thread = "wait" /\ ub.state /\ ub.bulk = 0 /\ ub.free > 0
    /\ ua' = [ua EXCEPT !.kick = TRUE, !.faults = @ + 1] /\ UNCHANGED ub
KickReads == ua.kick /\ \E ok \in BOOLEAN : bulkin_read_async([ua EXCEPT !.kick = FALSE], ok)

-----------------------------------------------------------------------------
(* The write requests: one sender, the tx worker of the Wi-Fi driver.       *)

wifi_send_cmd_async ==
    /\ ua.send = "idle" /\ ua.thread = "wait" /\ ub.state /\ ~ub.suspend /\ ua.sends < MaxUsbSends
    /\ ua' = [ua EXCEPT !.send = IF ub.txfree = 0 THEN "wait" ELSE "take", !.sends = @ + 1]
    /\ UNCHANGED ub
SendWaited == /\ ua.send = "wait" /\ ub.txfree > 0
              /\ ua' = [ua EXCEPT !.send = "take"] /\ UNCHANGED ub
bulkout_write_sg_async ==
    /\ ua.send = "take"
    /\ \/ ~ub.state /\ ua' = [ua EXCEPT !.send = "idle"] /\ UNCHANGED ub
       \/ /\ ub.state /\ ua' = [ua EXCEPT !.send = "idle"]
          /\ ub' = [ub EXCEPT !.txfree = @ - 1, !.tx_urb_count = @ + 1]
       \/ ub.state /\ UrbFault /\ ua' = [Note(ua, "unsent") EXCEPT !.send = "idle"] /\ UNCHANGED ub
bulkout_async_complete ==
    /\ ub.tx_urb_count > 0 /\ ua.thread = "wait"
    /\ ub' = [ub EXCEPT !.txfree = @ + 1, !.tx_urb_count = @ - 1] /\ UNCHANGED ua

-----------------------------------------------------------------------------
(* Suspend and resume of the port, and its end.                             *)

skw_usb_io_suspend ==
    /\ ua.pm = "on" /\ ub.state /\ ua.pms < ua.cap
    /\ ua' = [ua EXCEPT !.pm = "flag", !.pms = @ + 1]
    /\ ub' = [ub EXCEPT !.suspend = TRUE, !.txfree = @ + ub.tx_urb_count, !.tx_urb_count = 0]

(* usb_kill_anchored_urbs calls their completions. *)
KillReads(b) == bulkin_async_complete(b, b.air, "killed")
SuspendKills == /\ ua.pm = "flag" /\ ub.state /\ ua' = [ua EXCEPT !.pm = "off"] /\ ub' = KillReads(ub)

(* Requests are sent out, without being counted, until none is put by; one  *)
(* that fails is lost and leaves the port suspended.                        *)
skw_usb_io_resume ==
    /\ ua.pm \in {"off", "resume"} /\ ub.state
    /\ IF ub.by = <<>> THEN ua' = [ua EXCEPT !.pm = "empty"] /\ UNCHANGED ub
       ELSE \/ /\ ub' = [ub EXCEPT !.by = Tail(@), !.air = @ + 1] /\ ua' = [ua EXCEPT !.pm = "resume"]
            \/ /\ UrbFault /\ ub' = [ub EXCEPT !.by = Tail(@)]
               /\ ua' = [Note(ua, "stopped") EXCEPT !.pm = "on", !.lost = @ + 1]
ResumeEnds == /\ ua.pm = "empty" /\ ub.state /\ ua' = [ua EXCEPT !.pm = "on"]
              /\ ub' = [ub EXCEPT !.suspend = FALSE]

skw_usb_io_disconnect ==
    /\ ub.state /\ ua.pm \in {"on", "off"} /\ ua.thread = "wait"
    /\ ub' = [ub EXCEPT !.state = FALSE] /\ UNCHANGED ua

(* The last request that was put by is completed, the others are free.  The *)
(* completion of a bare one returns at once.                                *)
skw_usb_io_free_suspend_urbs ==
    /\ ~ub.state /\ ~ua.disc
    /\ LET bare == ub.by # <<>> /\ ub.by[Len(ub.by)] = "bare"
       IN  /\ ua' = [ua EXCEPT !.disc = TRUE, !.lost = IF bare THEN @ + 1 ELSE @]
           /\ ub' = [ub EXCEPT !.suspend = FALSE, !.by = <<>>,
                               !.free = @ + Len(ub.by) - (IF bare THEN 1 ELSE 0),
                               !.bulk = IF ub.by # <<>> /\ ~bare THEN @ - 1 ELSE @]

(* The thread has slept 50 ms: the tasklet and a sender are out of the way. *)
EntryEnds ==
    /\ ~ub.state /\ ua.disc /\ ua.thread = "wait" /\ ua.task = "idle" /\ ~ua.kick
    /\ ua' = [ua EXCEPT !.thread = "killed"]
    /\ ub' = [KillReads(ub) EXCEPT !.free = 0, !.txfree = @ + ub.tx_urb_count, !.tx_urb_count = 0]
DisconnectEnds ==
    /\ ua.thread = "killed" /\ ua.send # "wait" /\ ua' = [ua EXCEPT !.thread = "gone"]
    /\ ub' = [ub EXCEPT !.done = <<>>]

UrbNext ==
    \/ usb_port_async_entry \/ (\E s \in {"ok", "err"} : UrbCompletes(s))
    \/ usb_handle \/ HandleReads \/ usb_kick_rx \/ KickReads
    \/ wifi_send_cmd_async \/ SendWaited \/ bulkout_write_sg_async \/ bulkout_async_complete
    \/ skw_usb_io_suspend \/ SuspendKills \/ skw_usb_io_resume \/ ResumeEnds
    \/ skw_usb_io_disconnect \/ skw_usb_io_free_suspend_urbs \/ EntryEnds \/ DisconnectEnds
UrbSpec == UrbInit /\ [][UrbNext]_urbVars

-----------------------------------------------------------------------------

(* A port that is up goes on receiving: a request is in the air, or the     *)
(* tasklet, the resume or the first submission is about to send one out.    *)
(* (Not after a transfer or a submission failed, nor after a request was    *)
(* put by when the resume had found none left, nor when the head of the     *)
(* empty list was taken for one.)                                           *)
ReadsArmed ==
    ub.state /\ ~ub.suspend /\ ua.thread = "wait" /\ ua.odd \intersect {"failed", "refused", "crossed", "stopped", "torn"} = {}
        => ub.air > 0 \/ ua.task # "idle" \/ ua.kick

(* No request is lost or in two places, whatever suspends, failures and     *)
(* kicks cross, and a port that is gone has given all of them back (but     *)
(* those that a resume could not submit or that end their days bare).       *)
UrbsKept ==
    /\ ua.thread = "wait" /\ "torn" \notin ua.odd =>
          /\ ub.free + ub.air + Len(ub.done) + Len(ub.by) + ua.lost = RxUrbs
          /\ ub.txfree + ub.tx_urb_count = TxUrbs
    /\ ua.lost > 0 => ua.odd \intersect {"refused", "stopped"} # {}
    /\ ua.thread = "gone" => ub.air = 0 /\ ub.tx_urb_count = 0 /\ ("refused" \in ua.odd \/ ub.by = <<>>)

(* Without a suspend the counter that the kick relies on is the number of   *)
(* requests in the air.  (A resume does not count the ones it sends out.)   *)
CounterTrue == ua.pms = 0 /\ ub.state /\ "torn" \notin ua.odd => ub.bulk = ub.air
=============================================================================
