----------------------------- MODULE SkwUsbCp ------------------------------
(***************************************************************************)
(* The life of the chip on a USB bus (skw_usb_io.c, usb_boot.c): its boot  *)
(* ROM takes the firmware, the firmware enumerates anew and talks to the   *)
(* loop check thread, services are started and stopped, it dies or is made *)
(* to die and comes back by its own watchdog; skw_recovery_mode does       *)
(* nothing here.  Whoever has registered is told of a death by an          *)
(* assertion, by the exception work or by the disconnect.  The transfers   *)
(* of the Wi-Fi data port are in SkwUsbUrb.                                *)
(***************************************************************************)
EXTENDS Integers, Sequences, FiniteSets

CONSTANTS Block,         \* bytes of a USB packet, 512 in the code
          HeaderSize,    \* PACKET_HEADER_SIZE, 12 in the code
          DlMps,         \* dl_mps, payload of a download packet
          ImageSize,     \* bytes of the DRAM image, and of the IRAM image
          MaxUsbOps,     \* bound: services started or stopped
          MaxUsbDeaths   \* bound: deaths, failed downloads, suspends

ASSUME UsbAssumption == /\ {Block, HeaderSize, DlMps, ImageSize, MaxUsbOps, MaxUsbDeaths} \subseteq Nat
                        /\ 1 < HeaderSize /\ HeaderSize < Block /\ DlMps > 0

UsbServices == {"WIFI", "BT"}

VARIABLES uc,            \* the statics of skw_usb_io.c
          ul,            \* the actors
          uf,            \* the firmware, what it has said
          uh             \* history
usbVars == <<uc, ul, uf, uh>>

(* uc.status is modem_status, uc.wifi is wifi_data_pdev, uc.exc means that  *)
(* skw_except_work is queued.  uh.ready are the services that this firmware *)
(* has reported, uh.late the ones whose start did not wait long enough.     *)
UsbTypeOK ==
    /\ uc.status \in {"off", "on", "halt", "failed"} /\ uc.cp_state \in {"ok", "assert", "blocked"}
    /\ uc.map \subseteq UsbServices /\ uc.port \in {"none", "boot", "io"}
    /\ uc.wifi \in {"none", "alloc", "added"} /\ {uc.exc, uc.done} \subseteq BOOLEAN
    /\ ul.loop \in {"none", "read", "assert", "dump"} /\ ul.exc \in {"idle", "work", "told"}
    /\ ul.start \in [UsbServices -> {"idle", "wait"}] /\ ul.assert \in {"idle", "queued", "sent"}
    /\ uf.fw \in {"rom", "loaded", "up", "dead"}

UsbInit ==
    /\ uc = [status |-> "off", cp_state |-> "ok", map |-> {}, port |-> "none", wifi |-> "none",
             exc |-> FALSE, done |-> FALSE]
    /\ ul = [loop |-> "none", exc |-> "idle", start |-> [s \in UsbServices |-> "idle"], assert |-> "idle",
             img |-> 0, offset |-> 0, size |-> 0]
    /\ uf \in {[fw |-> "rom", msgs |-> <<>>, ops |-> n, deaths |-> 1 - n] : n \in 0..1}   \* of one there is one less
    /\ uh = [reports |-> 0, ready |-> {}, late |-> {}, trunk |-> FALSE, odd |-> {}]

Odd(what) == [uh EXCEPT !.odd = @ \union {what}]
Tell(h) == [h EXCEPT !.reports = @ + 1]
Dies == uf.deaths < MaxUsbDeaths

-----------------------------------------------------------------------------
(* The boot ROM: dloader_work sends the DRAM image and the IRAM image and   *)
(* executes.                                                                *)

ProbeBoot ==
    /\ uc.port = "none" /\ uf.fw = "rom"
    /\ uc' = [uc EXCEPT !.port = "boot", !.status = "on"]
    /\ ul' = [ul EXCEPT !.img = 2, !.offset = 0, !.size = 0] /\ UNCHANGED <<uf, uh>>

(* No packet ends with a full USB packet unless it is of the agreed size:   *)
(* a short one of that kind is cut in half.                                 *)
ChunkSize(left) ==
    LET n == IF DlMps < left THEN DlMps ELSE left
    IN  IF (n + HeaderSize) % Block = 0 /\ n < DlMps THEN n \div 2 ELSE n
usb_download_image ==
    /\ uc.port = "boot" /\ ul.img > 0 /\ UNCHANGED <<uc, uf, uh>>
    /\ IF ul.offset = ImageSize THEN ul' = [ul EXCEPT !.img = @ - 1, !.offset = 0]
       ELSE LET n == ChunkSize(ImageSize - ul.offset) IN ul' = [ul EXCEPT !.offset = @ + n, !.size = n]

(* A failure ends it; with a chip enable pin the chip is switched off, and  *)
(* on again when it has gone.                                               *)
DownloadFails ==
    /\ uc.port = "boot" /\ ul.img > 0 /\ Dies /\ uf' = [uf EXCEPT !.deaths = @ + 1]
    /\ ul' = [ul EXCEPT !.img = 0, !.size = 0] /\ uc' = [uc EXCEPT !.status = "failed"] /\ UNCHANGED uh
dloader_execute_image ==
    /\ uc.port = "boot" /\ ul.img = 0 /\ ul.size > 0 /\ uf.fw = "rom"
    /\ uf' = [uf EXCEPT !.fw = "loaded"] /\ UNCHANGED <<uc, ul, uh>>
BootGone ==
    /\ uc.port = "boot" /\ (uf.fw = "loaded" \/ (ul.img = 0 /\ ul.size = 0))
    /\ uc' = [uc EXCEPT !.port = "none", !.status = IF @ = "failed" THEN "halt" ELSE @]
    /\ UNCHANGED <<ul, uf, uh>>

-----------------------------------------------------------------------------
(* The firmware's interfaces.                                               *)

(* The device of an earlier firmware is kept, if it was ever added, and     *)
(* modem_status with it.                                                    *)
ProbeWifi(c) == IF c.wifi # "added" THEN [c EXCEPT !.wifi = "alloc", !.status = "on"] ELSE c

(* The loop check thread starts with 6 s for the firmware to report; the    *)
(* second that the message of modem_assert_work may take is over by now.    *)
skw_usb_io_probe ==
    /\ uc.port = "none" /\ uf.fw = "loaded" /\ ul.loop = "none" /\ ul.assert # "sent"
    /\ uf' = [uf EXCEPT !.fw = "up", !.msgs = <<"trunk_W">>]
    /\ uc' = [ProbeWifi(uc) EXCEPT !.port = "io", !.exc = TRUE]
    /\ ul' = [ul EXCEPT !.loop = "read"]
    /\ uh' = [uh EXCEPT !.reports = 0, !.ready = {}, !.trunk = FALSE, !.odd = IF @ \intersect {"vanished", "slept", "early"} = {} THEN {} ELSE {"vanished"}]

(* The thread is waited for; a death that was not reported is, here.  The   *)
(* Wi-Fi device stays for the firmware that comes next.                     *)
UsbDisconnect ==
    /\ uc.port = "io" /\ uf.fw = "dead" /\ ul.loop \in {"none", "read"}
    /\ uc' = [uc EXCEPT !.port = "none"]
    /\ ul' = [ul EXCEPT !.loop = "none"] /\ uf' = [uf EXCEPT !.fw = "rom", !.msgs = <<>>]
    /\ LET h == IF uc.cp_state = "ok" \/ uh.reports = 0 \/ ul.exc = "told" THEN Odd("vanished") ELSE uh
       IN  uh' = IF uc.cp_state = "ok" THEN Tell(h) ELSE h

(* A suspend of the first port forgets that the firmware had died. *)
SuspendForgets ==
    /\ uc.port = "io" /\ uc.cp_state # "ok" /\ ul.exc = "idle" /\ Dies
    /\ uf' = [uf EXCEPT !.deaths = @ + 1] /\ UNCHANGED ul
    /\ uc' = [uc EXCEPT !.cp_state = "ok", !.exc = FALSE] /\ uh' = Odd("slept")

-----------------------------------------------------------------------------
(* usb_loopcheck_entry.                                                     *)

LoopHears(m, to) ==
    /\ ul.loop = "read" /\ uf.msgs # <<>> /\ Head(uf.msgs) = m /\ uf' = [uf EXCEPT !.msgs = Tail(@)]
    /\ ul' = [ul EXCEPT !.loop = to]

(* The work is cancelled, or waited for. *)
HearTrunkW ==
    /\ LoopHears("trunk_W", "read") /\ ul.exc = "idle"
    /\ uc' = [uc EXCEPT !.exc = FALSE, !.cp_state = "ok", !.status = "on"]
    /\ uh' = [uh EXCEPT !.trunk = TRUE, !.odd = IF uh.reports > 0 THEN @ \union {"early"} ELSE @]

add_devices_work == /\ uc.port = "io" /\ uh.trunk /\ uc.wifi = "alloc"
                    /\ uc' = [uc EXCEPT !.wifi = "added"] /\ UNCHANGED <<ul, uf, uh>>

HearServiceReady(s) ==
    /\ LoopHears(s, "read") /\ uc' = [uc EXCEPT !.map = @ \union {s}, !.done = TRUE]
    /\ uh' = [uh EXCEPT !.ready = @ \union {s}, !.late = IF uc.cp_state = "ok" THEN @ \ {s} ELSE @ \union {s},
                        !.odd = IF \E t \in UsbServices \ {s} : ul.start[t] = "wait" THEN @ \union {"crossed"} ELSE @]
HearExit ==
    /\ LoopHears("BTEXIT", "read") /\ uc' = [uc EXCEPT !.done = TRUE]
    /\ uh' = IF \E t \in UsbServices : ul.start[t] = "wait" THEN Odd("crossed") ELSE uh

(* "BSPASSERT": if the host asked for it, the work is cancelled first.      *)
HearBspAssert ==
    /\ LoopHears("BSPASSERT", "assert") /\ UNCHANGED uh
    /\ IF uc.cp_state = "assert" THEN ul.exc = "idle" /\ uc' = [uc EXCEPT !.exc = FALSE] ELSE UNCHANGED uc

LoopAsserts ==
    /\ ul.loop = "assert" /\ UNCHANGED uf
    /\ IF uc.cp_state = "blocked" THEN ul' = [ul EXCEPT !.loop = "none"] /\ UNCHANGED <<uc, uh>>
       ELSE /\ ul' = [ul EXCEPT !.loop = "dump"]
            /\ uc' = [uc EXCEPT !.cp_state = "assert", !.status = "halt"]
            /\ uh' = [Tell(uh) EXCEPT !.odd = IF uc.exc THEN @ \union {"early"} ELSE @]

LoopDumps == /\ ul.loop = "dump" /\ ul' = [ul EXCEPT !.loop = "none"]
             /\ uc' = [uc EXCEPT !.map = {}] /\ UNCHANGED <<uf, uh>>

skw_usb_exception_work ==
    /\ uc.exc /\ ul.exc = "idle" /\ uc' = [uc EXCEPT !.exc = FALSE]
    /\ ul' = [ul EXCEPT !.exc = "work"] /\ UNCHANGED <<uf, uh>>
ExceptionTells ==
    /\ ul.exc = "work" /\ UNCHANGED uf
    /\ IF uc.cp_state # "assert" THEN ul' = [ul EXCEPT !.exc = "idle"] /\ UNCHANGED <<uc, uh>>
       ELSE ul' = [ul EXCEPT !.exc = "told"] /\ uc' = [uc EXCEPT !.cp_state = "blocked"] /\ uh' = Tell(uh)
ExceptionEnds == /\ ul.exc = "told" /\ ul' = [ul EXCEPT !.exc = "idle"]
                 /\ uc' = [uc EXCEPT !.map = {}] /\ UNCHANGED <<uf, uh>>

-----------------------------------------------------------------------------
(* Deaths.                                                                  *)

modem_assert == /\ uc.port = "io" /\ ul.assert = "idle" /\ Dies
                /\ uf' = [uf EXCEPT !.deaths = @ + 1]
                /\ ul' = [ul EXCEPT !.assert = "queued"] /\ UNCHANGED <<uc, uh>>
modem_assert_work ==
    /\ ul.assert = "queued" /\ uh' = IF uh.trunk THEN uh ELSE Odd("early")
    /\ IF uc.status = "halt" \/ uc.port # "io" THEN ul' = [ul EXCEPT !.assert = "idle"] /\ UNCHANGED <<uc, uf>>
       ELSE /\ ul' = [ul EXCEPT !.assert = "sent"] /\ uc' = [uc EXCEPT !.cp_state = "assert"]
            /\ uf' = IF uf.fw = "up" THEN [uf EXCEPT !.fw = "dead", !.msgs = Append(@, "BSPASSERT")] ELSE uf
(* The work is queued after the firmware has had its chance to answer. *)
AssertQueues ==
    /\ ul.assert = "sent" /\ ul' = [ul EXCEPT !.assert = "idle"] /\ UNCHANGED uf
    /\ uc' = [uc EXCEPT !.status = "halt", !.exc = TRUE]
    /\ uh' = IF ul.loop # "read" \/ uc.port # "io" \/ uf.msgs = <<>> THEN Odd("early") ELSE uh

UsbFwDies == /\ uf.fw = "up" /\ Dies
             /\ \E said \in {<<>>, <<"BSPASSERT">>} :
                   uf' = [uf EXCEPT !.fw = "dead", !.deaths = @ + 1, !.msgs = @ \o said]
             /\ UNCHANGED <<uc, ul, uh>>

-----------------------------------------------------------------------------
(* The services.                                                            *)

StartAsked(s) == s \notin uc.map /\ (s = "BT" => uc.wifi = "added")

(* send_modem_service_command: not to a firmware that is dead, as far as is *)
(* known; with a port, a control message.                                   *)
ServiceStart(s) ==
    /\ ul.start[s] = "idle" /\ uf.ops < MaxUsbOps /\ StartAsked(s) /\ uc.cp_state = "ok"
    /\ uc' = [uc EXCEPT !.done = IF uc.port = "io" THEN FALSE ELSE @]
    /\ uf' = [uf EXCEPT !.ops = @ + 1,
                        !.msgs = IF uc.port = "io" /\ uf.fw = "up" THEN Append(@, s) ELSE @]
    /\ ul' = [ul EXCEPT !.start[s] = "wait"] /\ UNCHANGED uh

(* The service counts as started when the time is up, too. *)
StartWaited(s) ==
    /\ ul.start[s] = "wait" /\ ul' = [ul EXCEPT !.start[s] = "idle"] /\ UNCHANGED uf
    /\ uc' = [uc EXCEPT !.map = @ \union {s}, !.done = FALSE]
    /\ uh' = IF uc.done /\ uc.port = "io" /\ s \in uh.ready /\ uc.cp_state = "ok" THEN uh ELSE [uh EXCEPT !.late = @ \union {s}]

(* A dead firmware is not asked; Bluetooth says when it has stopped. *)
ServiceStop(s) ==
    /\ ul.start[s] = "idle" /\ uf.ops < MaxUsbOps /\ s \in uc.map
    /\ (s = "BT" \/ uc.status # "halt") => uc.cp_state = "ok"
    /\ uc' = [uc EXCEPT !.map = @ \ {s}, !.done = IF uc.port = "io" THEN FALSE ELSE @]
    /\ uf' = [uf EXCEPT !.ops = @ + 1, !.msgs =
                IF s = "BT" /\ uc.port = "io" /\ uf.fw = "up" THEN Append(@, "BTEXIT") ELSE @]
    /\ uh' = [uh EXCEPT !.late = @ \ {s}] /\ UNCHANGED ul

(* The Wi-Fi driver registers and leaves; the boot driver passes on what    *)
(* the user and Bluetooth ask for.                                          *)
register_rx_callback == uc.port = "io" /\ (ServiceStart("WIFI") \/ ServiceStop("WIFI"))
skw_usb_boot_loader == ServiceStart("BT") \/ ServiceStop("BT") \/ ServiceStop("WIFI")

UsbNext ==
    \/ ProbeBoot \/ usb_download_image \/ DownloadFails \/ dloader_execute_image \/ BootGone
    \/ skw_usb_io_probe \/ UsbDisconnect \/ SuspendForgets
    \/ HearTrunkW \/ add_devices_work \/ HearExit \/ HearBspAssert \/ LoopAsserts \/ LoopDumps
    \/ skw_usb_exception_work \/ ExceptionTells \/ ExceptionEnds
    \/ modem_assert \/ modem_assert_work \/ AssertQueues \/ UsbFwDies
    \/ (\E s \in UsbServices : HearServiceReady(s) \/ StartWaited(s)) \/ register_rx_callback \/ skw_usb_boot_loader
UsbSpec == UsbInit /\ [][UsbNext]_usbVars

-----------------------------------------------------------------------------

(* The death of a firmware is told once: the assertion, the exception work  *)
(* and the disconnect do not report the same one again.  (They do when the  *)
(* firmware answers an assertion before the work behind it is queued, when  *)
(* it dies before it has reported, and when a suspend makes the driver      *)
(* forget.)                                                                 *)
ToldOnce == uh.reports <= 1 \/ uh.odd \intersect {"early", "slept"} # {}

(* A service that counts as running has said so, to this firmware: what an  *)
(* earlier one had started is forgotten when it has died.  (Not when a      *)
(* start gave up waiting, or ended when the firmware had died, took the     *)
(* answer of the other service for its own, or when the firmware vanished   *)
(* without a word.)                                                         *)
RunningIsReady ==
    uc.port = "io" => \/ uc.map \subseteq uh.ready \union uh.late
                      \/ uh.odd \intersect {"crossed", "slept", "early", "vanished"} # {}

(* Both images are sent whole, in packets of which none ends a short        *)
(* transfer on a packet boundary of the bus.                                *)
PacketsEnd == /\ ul.offset <= ImageSize
              /\ ul.size > 0 /\ ul.size < DlMps => (ul.size + HeaderSize) % Block # 0
=============================================================================
