----------------------------- MODULE SkwBootDev -----------------------------
(***************************************************************************)
(* The boot device of the platform driver (skwutil/skw_boot.c): its probe  *)
(* fetches the two firmware images and the chip's settings (NV), finds its *)
(* way in them and boots the chip for the first time; services are started *)
(* and stopped through it, under boot_mutex, by the bus driver and through *)
(* the BTBOOT device; its removal frees everything.  What a failed probe   *)
(* leaves to nobody, and who still holds a pointer, is in the model.       *)
(***************************************************************************)
EXTENDS Naturals, FiniteSets

CONSTANTS MaxBootProbes,   \* bound: probes
          MaxBootCalls     \* bound: services started and stopped

ASSUME BootAssumption == MaxBootProbes \in Nat /\ MaxBootCalls \in Nat

VARIABLES bo,   \* boot_data, its buffers, the probe
          bc    \* the calls of the two services
bootVars == <<bo, bc>>

Callers == {"WIFI", "BT"}
Images == {"dram", "iram"}
BootTypeOK ==
    /\ bo.pc \in {"off", "bus", "request", "again", "analyse", "first", "bind", "bound"} /\ bo.bus \in {"SDIO", "USB"}
    /\ bo.data \in {"null", "live", "freed"} /\ bo.busdata \in {"null", "live", "freed"} /\ bo.mutex \in Callers \union {"free"}
    /\ bo.bufs \subseteq Images \union {"nv"} /\ bo.whole \subseteq Images \union {"nv"} /\ bo.nv \in {"none", "old", "new"}
    /\ {bo.fits, bo.patched, bo.slp_disable, bo.host, bo.chip, bo.btboot, bo.booted, bo.exc} \subseteq BOOLEAN
    /\ bc \in [Callers -> {"away", "wait", "load", "stale"}]

BootDevInit ==
    /\ \E bus \in {"SDIO", "USB"} :
          bo = [pc |-> "off", bus |-> bus, host |-> FALSE, chip |-> FALSE, data |-> "null", busdata |-> "null", bufs |-> {}, whole |-> {},
                nv |-> "none", fits |-> FALSE, patched |-> FALSE, slp_disable |-> FALSE, btboot |-> FALSE, booted |-> FALSE,
                exc |-> FALSE, mutex |-> "free", leaked |-> {}, probes |-> 0, calls |-> 0, odd |-> {}]
    /\ bc = [c \in Callers |-> "away"]

-----------------------------------------------------------------------------
(* A probe that fails: boot_data goes with the device, the pointers to it   *)
(* stay, and nobody frees the buffers.                                      *)
ProbeFails(b) ==
    [b EXCEPT !.pc = "off", !.data = "freed", !.busdata = IF @ = "live" THEN "freed" ELSE @, !.leaked = @ \union b.bufs,
              !.bufs = {}, !.whole = {}, !.nv = "none", !.patched = FALSE, !.booted = FALSE,
              !.odd = IF b.bufs # {} \/ b.busdata = "live" THEN @ \union {"failed"} ELSE @]

(* seekwave_boot_parse_dt: the wake lines there are, of which test_debug    *)
(* may take both or the host's away, or swap them (which needs the host's); *)
(* without both the chip must not sleep, and other values keep it awake.    *)
DebugModes == {"none", "nolines", "nohost", "swap", "awake"}
seekwave_boot_parse_dt(b, host, chip, mode) ==
    LET h == host /\ mode \notin {"nolines", "nohost"}
        c == chip /\ mode # "nolines"
        swapped == mode = "swap" /\ h
    IN [b EXCEPT !.host = IF swapped THEN c ELSE h, !.chip = IF swapped THEN h ELSE c, !.slp_disable = ~(h /\ c) \/ mode = "awake"]

(* seekwave_boot_probe.  A boot_mutex that a caller holds is made anew.     *)
seekwave_boot_probe ==
    /\ bo.pc = "off" /\ bo.probes < MaxBootProbes /\ UNCHANGED bc
    /\ \/ bo' = [bo EXCEPT !.data = "null", !.probes = @ + 1]                               \* no memory
       \/ \E host, chip \in BOOLEAN, mode \in DebugModes :
             bo' = seekwave_boot_parse_dt([bo EXCEPT !.pc = "bus", !.data = "live", !.probes = @ + 1, !.mutex = "free"], host, chip, mode)
skw_get_bus_dev ==
    /\ bo.pc = "bus" /\ UNCHANGED bc
    /\ bo' = [bo EXCEPT !.pc = "request"] \/ bo' = ProbeFails(bo)

(* skw_request_firmwares: each image into a buffer that is allocated if     *)
(* there is none; a request or an allocation may fail.  The settings are    *)
(* optional: without memory for them, or without a second name to look for  *)
(* them under, the chip boots without.                                      *)
Fetched(b) == [b EXCEPT !.bufs = @ \union Images, !.whole = @ \union Images]
ImageFails ==
    /\ bo.pc \in {"request", "again"} /\ UNCHANGED bc
    /\ \/ bo' = ProbeFails(bo)                                                                   \* no DRAM image
       \/ bo' = ProbeFails([bo EXCEPT !.bufs = @ \union {"dram"}])                               \* no IRAM image
       \/ bo.bufs = {} /\ bo' = ProbeFails([bo EXCEPT !.bufs = {}])                              \* no memory for it, DRAM freed
skw_request_firmwares ==
    /\ bo.pc \in {"request", "again"} /\ UNCHANGED bc
    /\ \/ \E kind \in {"old", "new"}, fits \in BOOLEAN :
             bo' = [Fetched(bo) EXCEPT !.pc = "analyse", !.nv = kind, !.fits = fits, !.bufs = @ \union {"nv"}, !.whole = @ \union {"nv"}]
       \/ bo' = [Fetched(bo) EXCEPT !.pc = "analyse"]                                        \* no name, no memory
       \/ bo' = [Fetched(bo) EXCEPT !.pc = IF @ = "request" THEN "again" ELSE "analyse"]     \* ENOENT

(* skw_boot_init: the settings go into the IRAM image where it has a place  *)
(* for them, if they fit; those of the old kind are freed then.             *)
skw_boot_init ==
    /\ bo.pc = "analyse" /\ UNCHANGED bc
    /\ \/ bo' = [bo EXCEPT !.pc = "first", !.patched = bo.nv # "none" /\ bo.fits,
                           !.bufs = IF bo.nv = "old" /\ bo.fits THEN @ \ {"nv"} ELSE @]
       \/ bo' = ProbeFails(bo)                                                                   \* no end of the header

(* skw_first_boot, skw_boot_loader: from here on the bus driver has the     *)
(* pointer, and through it the services.                                    *)
skw_first_boot ==
    /\ bo.pc = "first" /\ UNCHANGED bc
    /\ \/ bo' = [bo EXCEPT !.pc = "bind", !.busdata = "live", !.booted = TRUE]
       \/ bo' = ProbeFails([bo EXCEPT !.busdata = "live"])
skw_bind_boot_driver ==
    /\ bo.pc = "bind" /\ UNCHANGED bc
    /\ \E made \in BOOLEAN : bo' = [bo EXCEPT !.pc = "bound", !.btboot = @ \/ (bo.bus # "USB" /\ made)]

(* seekwave_boot_remove frees without boot_mutex, and the bus driver keeps  *)
(* its pointer: services that run or come later find it.  Settings of the   *)
(* old kind that did not fit are not freed.                                 *)
seekwave_boot_remove ==
    /\ bo.pc = "bound" /\ UNCHANGED bc
    /\ LET kept == IF bo.nv = "old" THEN bo.bufs \intersect {"nv"} ELSE {}
       IN bo' = [bo EXCEPT !.pc = "off", !.data = "null", !.busdata = "freed", !.btboot = FALSE, !.bufs = {}, !.whole = {}, !.nv = "none",
                           !.patched = FALSE, !.booted = FALSE, !.leaked = @ \union kept,
                           !.odd = @ \union {"removed"} \union (IF kept # {} THEN {"oldnv"} ELSE {})]

-----------------------------------------------------------------------------
(* bt_start_service and bt_stop_service (BTBOOT) do nothing while the       *)
(* firmware is down; the bus driver's wifi_service_start and its sisters    *)
(* only look whether there is a pointer.                                    *)
ServiceBegins(c) ==
    /\ bc[c] = "away" /\ bo.calls < MaxBootCalls
    /\ bo.busdata # "null" \/ (c = "BT" /\ bo.btboot /\ ~bo.exc)
    /\ bc' = [bc EXCEPT ![c] = IF bo.busdata = "freed" THEN "stale" ELSE "wait"] /\ bo' = [bo EXCEPT !.calls = @ + 1]
ServiceLoads(c) ==
    /\ bc[c] = "wait" /\ bo.mutex = "free"
    /\ bc' = [bc EXCEPT ![c] = IF bo.data = "live" THEN "load" ELSE "stale"]
    /\ bo' = IF bo.data = "live" THEN [bo EXCEPT !.mutex = c] ELSE bo
ServiceDone(c) ==
    /\ bc[c] = "load" /\ bc' = [bc EXCEPT ![c] = "away"] /\ bo' = [bo EXCEPT !.mutex = IF @ = c THEN "free" ELSE @]
FirmwareDown == bo' = [bo EXCEPT !.exc = ~@] /\ UNCHANGED bc

BootDevNext ==
    \/ seekwave_boot_probe \/ skw_get_bus_dev \/ ImageFails \/ skw_request_firmwares \/ skw_boot_init
    \/ skw_first_boot \/ skw_bind_boot_driver \/ seekwave_boot_remove \/ FirmwareDown
    \/ \E c \in Callers : ServiceBegins(c) \/ ServiceLoads(c) \/ ServiceDone(c)
BootDevSpec == BootDevInit /\ [][BootDevNext]_bootVars

(* The chip is booted from both images, whole, with settings in them only   *)
(* if those fit; a chip that may sleep can be woken and can wake the host;  *)
(* buffers are freed once and all; services work on live data, one at a     *)
(* time.  Exceptions, each a sequence of calls: a probe that failed after a *)
(* buffer was filled, old settings that did not fit, a removal before or    *)
(* under a service.                                                         *)
BootDataHeld ==
    /\ bo.booted => Images \subseteq bo.whole /\ Images \subseteq bo.bufs /\ bo.data = "live"
    /\ bo.patched => bo.fits /\ "iram" \in bo.bufs
    /\ bo.booted /\ ~bo.slp_disable => bo.host /\ bo.chip
    /\ bo.pc = "off" => bo.bufs = {}
    /\ bo.leaked # {} => bo.odd \intersect {"failed", "oldnv"} # {}
    /\ bo.btboot => bo.data = "live" /\ bo.bus = "SDIO"
    /\ (\E c \in Callers : bc[c] = "stale" \/ (bc[c] = "load" /\ bo.data # "live")) => bo.odd # {}
    /\ bc["WIFI"] = "load" /\ bc["BT"] = "load" => bo.odd # {}
=============================================================================
