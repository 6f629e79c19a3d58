----------------------------- MODULE SkwSdioCp -----------------------------
(***************************************************************************)
(* The life of the chip's processor (CP) as the SDIO driver sees it:       *)
(* services are started and stopped (skw_boot.c, skw_sdio_main.c), the CP  *)
(* asserts or is made to assert, its memory is dumped, and it is reset and *)
(* booted again (skw_recovery_mode).  The rx thread handles what the CP    *)
(* says on the loop check port, the exception work is the timer behind an  *)
(* assertion, the users of the two services are serialised by boot_mutex,  *)
(* and except_mutex is shared by all of them.  A recovery may be run by    *)
(* the exception work, by the rx thread and by a user of a service.        *)
(***************************************************************************)
EXTENDS Integers, FiniteSets, Sequences

CONSTANTS MaxOps,        \* bound: services started or stopped
          MaxAsserts     \* bound: crashes of the CP, asserts by the host, suspends

ASSUME CpAssumption == MaxOps \in Nat /\ MaxAsserts \in Nat

Services == {"WIFI", "BT"}

VARIABLES cp_state,            \* skw_sdio->cp_state by name, "ok" for 0
          service_state_map,
          download_done,       \* completion, shared by boot and both services
          power_off,
          exceptWork,          \* skw_except_work: queued
          except_mutex, boot_mutex,
          cpPc,                \* where each actor stands
          cpOp,                \* what the users are doing, their answer
          irqDepth,            \* how often the gpio interrupt is disabled
          fw,                  \* the firmware
          loopMsgs,            \* what it has said and the rx thread not heard
          cpCount,             \* operations and asserts so far
          cpHist               \* history: crossed, ready, failed, userRecovery

cpVars == <<cp_state, service_state_map, download_done, power_off, exceptWork, except_mutex,
            boot_mutex, cpPc, cpOp, irqDepth, fw, loopMsgs, cpCount, cpHist>>

Actors == Services \union {"exc", "rx"}
CpPcs == {"idle", "boot", "ops", "lock", "service", "ready", "unlock", "work", "ports",
          "reset", "reload", "booted", "assert", "dump", "cancel"}
CpMsgs == {"trunk_W", "BSPASSERT", "DUMPDONE"} \union Services   \* Services: the READYs

CpTypeOK ==
    /\ cp_state \in {"ok", "assert", "dumpdone", "blocked"} /\ service_state_map \subseteq Services
    /\ download_done \in BOOLEAN /\ power_off \in BOOLEAN /\ exceptWork \in BOOLEAN
    /\ except_mutex \in Actors \union {"none"} /\ boot_mutex \in Services \union {"none"}
    /\ cpPc \in [Actors -> CpPcs] /\ irqDepth \in Nat
    /\ cpOp \in [Services -> [op : {"start", "stop"}, ret : {"none", "ok", "err", "etime"},
                              nested : BOOLEAN]]
    /\ fw \in {"off", "loaded", "up", "dead"} /\ loopMsgs \in Seq(CpMsgs)

(* The CP has been booted for the first time and no service runs. *)
CpInit ==
    /\ cp_state = "ok" /\ service_state_map = {} /\ download_done = FALSE /\ power_off = FALSE
    /\ exceptWork = FALSE /\ except_mutex = "none" /\ boot_mutex = "none"
    /\ cpPc = [a \in Actors |-> "idle"]
    /\ cpOp = [s \in Services |-> [op |-> "stop", ret |-> "none", nested |-> FALSE]]
    /\ irqDepth = 0 /\ fw = "up" /\ loopMsgs = <<>>
    /\ cpCount \in {[ops |-> 0, asserts |-> 1], [ops |-> 1, asserts |-> 0]}   \* of one there is one less
    /\ cpHist = [crossed |-> FALSE, ready |-> FALSE, failed |-> FALSE, user |-> FALSE]

Go(a, from, to) == cpPc[a] = from /\ cpPc' = [cpPc EXCEPT ![a] = to]
Recovering(a) == cpPc[a] \in {"reset", "reload", "booted"}

-----------------------------------------------------------------------------
(* skw_recovery_mode, by any of the actors.  Where an actor goes after it.  *)
Return(a) == IF a \notin Services THEN "idle" ELSE IF cpOp[a].nested THEN "service" ELSE "ops"

(* power_off and a disabled interrupt, then the card is reset. *)
skw_recovery_mode(a) ==
    /\ power_off' = TRUE /\ irqDepth' = irqDepth + 1
    /\ fw' = "off" /\ loopMsgs' = <<>>
    /\ cpHist' = [cpHist EXCEPT !.user = @ \/ a \in Services]

(* The reset may fail, and the CP stays as it is, powered off. *)
skw_sdio_cp_reset(a, ok) ==
    /\ Go(a, "reset", IF ok THEN "reload" ELSE Return(a))
    /\ power_off' = ~ok /\ cpHist' = [cpHist EXCEPT !.failed = @ \/ ~ok]
    /\ UNCHANGED <<cp_state, service_state_map, download_done, exceptWork, except_mutex,
                   boot_mutex, cpOp, irqDepth, fw, loopMsgs, cpCount>>

(* skw_sdio_boot_cp(RECOVERY_BOOT): the image is written, the interrupt is  *)
(* enabled if cp_state says so, the CP is started; and waited for, if       *)
(* cp_state says so.                                                        *)
skw_sdio_boot_cp(a) ==
    /\ cpPc[a] = "reload" /\ fw' = "loaded"
    /\ irqDepth' = IF cp_state # "ok" THEN irqDepth - 1 ELSE irqDepth
    /\ cpPc' = [cpPc EXCEPT ![a] = IF cp_state = "ok" THEN "booted" ELSE Return(a)]
    /\ UNCHANGED <<cp_state, service_state_map, download_done, power_off, exceptWork,
                   except_mutex, boot_mutex, cpOp, loopMsgs, cpCount, cpHist>>

(* skw_check_cp_ready after a boot: 2 s. *)
BootReady(a) ==
    /\ Go(a, "booted", Return(a))
    /\ download_done' = FALSE
    /\ UNCHANGED <<cp_state, service_state_map, power_off, exceptWork, except_mutex, boot_mutex,
                   cpOp, irqDepth, fw, loopMsgs, cpCount, cpHist>>

-----------------------------------------------------------------------------
(* The users of the services.                                               *)

(* wifi_service_start, bt_service_start: nothing to do if the service runs. *)
(* wifi_service_stop, bt_service_stop.                                      *)
ServiceCall(s, op) ==
    /\ Go(s, "idle", "boot") /\ cpCount.ops < MaxOps
    /\ op = "start" => s \notin service_state_map
    /\ cpCount' = [cpCount EXCEPT !.ops = @ + 1]
    /\ cpOp' = [cpOp EXCEPT ![s] = [op |-> op, ret |-> "none", nested |-> FALSE]]
    /\ UNCHANGED <<cp_state, service_state_map, download_done, power_off, exceptWork,
                   except_mutex, boot_mutex, irqDepth, fw, loopMsgs, cpHist>>

(* skw_start_wifi_service and its three sisters run under boot_mutex. *)
skw_start_wifi_service(s) == boot_mutex = "none" /\ boot_mutex' = s

(* A CP that is powered off is recovered first, whoever powered it off. *)
skw_boot_loader(s) ==
    /\ cpPc[s] = "boot" /\ skw_start_wifi_service(s)
    /\ cpPc' = [cpPc EXCEPT ![s] = IF power_off THEN "reset" ELSE "ops"]
    /\ IF power_off THEN skw_recovery_mode(s)
       ELSE UNCHANGED <<power_off, irqDepth, fw, loopMsgs, cpHist>>
    /\ UNCHANGED <<cp_state, service_state_map, download_done, exceptWork, except_mutex, cpOp,
                   cpCount>>

(* skw_sdio_cp_service_ops: a start waits 2 s for cp_state, and goes on. *)
skw_sdio_cp_service_ops(s) ==
    /\ Go(s, "ops", IF cpOp[s].op = "start" /\ s \in service_state_map THEN "unlock" ELSE "lock")
    /\ cpOp' = [cpOp EXCEPT ![s].ret = "ok"]
    /\ cpHist' = [cpHist EXCEPT !.ready = s \in service_state_map]
    /\ UNCHANGED <<cp_state, service_state_map, download_done, power_off, exceptWork,
                   except_mutex, boot_mutex, irqDepth, fw, loopMsgs, cpCount>>

ServiceLock(s) ==
    /\ cpPc[s] = "lock" /\ except_mutex = "none" /\ except_mutex' = s
    /\ IF cpOp[s].op = "start" /\ service_state_map = {} /\ power_off
       THEN /\ cpPc' = [cpPc EXCEPT ![s] = "reset"]
            /\ cpOp' = [cpOp EXCEPT ![s].nested = TRUE]
            /\ download_done' = FALSE /\ skw_recovery_mode(s)
       ELSE /\ cpPc' = [cpPc EXCEPT ![s] = "service"]
            /\ UNCHANGED <<cpOp, download_done, power_off, irqDepth, fw, loopMsgs, cpHist>>
    /\ UNCHANGED <<cp_state, service_state_map, exceptWork, boot_mutex, cpCount>>

(* The command is a bit of a register: refused when the CP is not well.     *)
send_modem_service_command(s) ==
    IF fw = "up" /\ cp_state = "ok" /\ cpOp[s].op = "start" THEN loopMsgs' = Append(loopMsgs, s)
    ELSE UNCHANGED loopMsgs

(* skw_WIFI_service_start; skw_BT_service_start is the same. *)
skw_WIFI_service_start(s) ==
    /\ cpPc[s] = "service" /\ cpOp[s].op = "start"
    /\ download_done' = FALSE /\ send_modem_service_command(s)
    /\ IF cp_state = "ok" THEN cpPc' = [cpPc EXCEPT ![s] = "ready"] /\ UNCHANGED cpOp
       ELSE cpPc' = [cpPc EXCEPT ![s] = "unlock"] /\ cpOp' = [cpOp EXCEPT ![s].ret = "err"]
    /\ cpHist' = [cpHist EXCEPT !.ready = FALSE, !.crossed = FALSE]
    /\ UNCHANGED <<cp_state, service_state_map, power_off, exceptWork, except_mutex, boot_mutex,
                   irqDepth, fw, cpCount>>

(* skw_check_cp_ready: 2 s for the service to be ready. *)
ServiceReady(s, timeout) ==
    /\ Go(s, "ready", "unlock") /\ timeout # download_done /\ download_done' = FALSE
    /\ cpOp' = [cpOp EXCEPT ![s].ret = IF timeout THEN "etime" ELSE "ok"]
    /\ UNCHANGED <<cp_state, service_state_map, power_off, exceptWork, except_mutex, boot_mutex,
                   irqDepth, fw, loopMsgs, cpCount, cpHist>>

(* The bit of the service is cleared even if the command is refused; that   *)
(* of BT is then left alone, and its reader is sent away in any case.       *)
skw_WIFI_service_stop ==
    /\ Go("WIFI", "service", "unlock") /\ cpOp["WIFI"].op = "stop"
    /\ service_state_map' = service_state_map \ {"WIFI"}
    /\ cpOp' = [cpOp EXCEPT !["WIFI"].ret =
                  IF "WIFI" \in service_state_map /\ cp_state # "ok" THEN "err" ELSE "ok"]
    /\ UNCHANGED <<cp_state, download_done, power_off, exceptWork, except_mutex, boot_mutex,
                   irqDepth, fw, loopMsgs, cpCount, cpHist>>

skw_BT_service_stop ==
    /\ Go("BT", "service", "unlock") /\ cpOp["BT"].op = "stop"
    /\ IF "BT" \in service_state_map /\ cp_state = "ok"
       THEN service_state_map' = service_state_map \ {"BT"} /\ download_done' = FALSE
       ELSE UNCHANGED <<service_state_map, download_done>>
    /\ cpOp' = [cpOp EXCEPT !["BT"].ret = "ok"]
    /\ UNCHANGED <<cp_state, power_off, exceptWork, except_mutex, boot_mutex, irqDepth, fw,
                   loopMsgs, cpCount, cpHist>>

ServiceUnlock(s) ==
    /\ Go(s, "unlock", "idle") /\ boot_mutex' = "none"
    /\ except_mutex' = IF except_mutex = s THEN "none" ELSE except_mutex
    /\ cpOp' = [cpOp EXCEPT ![s].nested = FALSE]
    /\ UNCHANGED <<cp_state, service_state_map, download_done, power_off, exceptWork, irqDepth,
                   fw, loopMsgs, cpCount, cpHist>>

(* A suspend without services only says that the CP is off, ...             *)
SuspendPowersOff ==
    /\ cp_state = "ok" /\ service_state_map = {} /\ ~power_off /\ cpCount.asserts < MaxAsserts
    /\ cpCount' = [cpCount EXCEPT !.asserts = @ + 1] /\ power_off' = TRUE
    /\ UNCHANGED <<cp_state, service_state_map, download_done, exceptWork, except_mutex,
                   boot_mutex, cpPc, cpOp, irqDepth, fw, loopMsgs, cpHist>>

-----------------------------------------------------------------------------
(* Assertions.                                                              *)

(* send_modem_assert_command and skw_sdio_abort: no mutex is taken. *)
send_modem_assert_command ==
    /\ cp_state = "ok" /\ cpCount.asserts < MaxAsserts /\ fw \in {"up", "dead"}
    /\ cp_state' = "assert" /\ exceptWork' = TRUE
    /\ fw' = "dead" /\ cpCount' = [cpCount EXCEPT !.asserts = @ + 1]
    /\ loopMsgs' = IF fw = "up" THEN loopMsgs \o <<"BSPASSERT", "DUMPDONE">> ELSE loopMsgs
    /\ UNCHANGED <<service_state_map, download_done, power_off, except_mutex, boot_mutex, cpPc,
                   cpOp, irqDepth, cpHist>>

skw_sdio_abort ==
    /\ cp_state = "ok" /\ cpCount.asserts < MaxAsserts
    /\ cp_state' = "assert" /\ exceptWork' = TRUE
    /\ cpCount' = [cpCount EXCEPT !.asserts = @ + 1]
    /\ UNCHANGED <<service_state_map, download_done, power_off, except_mutex, boot_mutex, cpPc,
                   cpOp, irqDepth, fw, loopMsgs, cpHist>>

skw_sdio_exception_work ==
    /\ Go("exc", "idle", "work") /\ exceptWork /\ exceptWork' = FALSE
    /\ UNCHANGED <<cp_state, service_state_map, download_done, power_off, except_mutex,
                   boot_mutex, cpOp, irqDepth, fw, loopMsgs, cpCount, cpHist>>

ExceptTest ==
    /\ except_mutex = "none" /\ Go("exc", "work", IF cp_state = "assert" THEN "ports" ELSE "idle")
    /\ cp_state' = IF cp_state = "assert" THEN "blocked" ELSE cp_state
    /\ UNCHANGED <<service_state_map, download_done, power_off, exceptWork, except_mutex,
                   boot_mutex, cpOp, irqDepth, fw, loopMsgs, cpCount, cpHist>>

ExceptRecover ==
    /\ Go("exc", "ports", "reset") /\ service_state_map' = {} /\ skw_recovery_mode("exc")
    /\ UNCHANGED <<cp_state, download_done, exceptWork, except_mutex, boot_mutex, cpOp, cpCount>>

-----------------------------------------------------------------------------
(* The firmware: external.                                                  *)

FwBoots == /\ fw = "loaded" /\ fw' = "up" /\ loopMsgs' = Append(loopMsgs, "trunk_W")
           /\ UNCHANGED <<cp_state, service_state_map, download_done, power_off, exceptWork,
                          except_mutex, boot_mutex, cpPc, cpOp, irqDepth, cpCount, cpHist>>

FwDies == /\ fw = "up" /\ fw' = "dead" /\ cpCount.asserts < MaxAsserts
          /\ cpCount' = [cpCount EXCEPT !.asserts = @ + 1]
          /\ loopMsgs' = loopMsgs \o <<"BSPASSERT", "DUMPDONE">>
          /\ UNCHANGED <<cp_state, service_state_map, download_done, power_off, exceptWork,
                         except_mutex, boot_mutex, cpPc, cpOp, irqDepth, cpHist>>

-----------------------------------------------------------------------------
(* The rx thread on the loop check port.  It hears what the CP says in      *)
(* order; nothing of what it had said before a reset.                       *)

Hear(m, to) == /\ loopMsgs # <<>> /\ Head(loopMsgs) = m /\ Go("rx", "idle", to)
               /\ loopMsgs' = Tail(loopMsgs)
               /\ UNCHANGED <<power_off, boot_mutex, except_mutex, cpOp, irqDepth, fw, cpCount>>

Waits(s) == cpPc[s] = "ready"

(* "WIFIREADY" and "BTREADY". *)
HearReady(s) ==
    /\ Hear(s, "idle") /\ service_state_map' = service_state_map \union {s}
    /\ download_done' = TRUE
    /\ cpHist' = [cpHist EXCEPT !.ready = @ \/ Waits(s),
                                !.crossed = @ \/ \E t \in Services \ {s} : Waits(t)]
    /\ UNCHANGED <<cp_state, exceptWork>>

(* "trunk_W": a CP that has come back is waited for only if it was well.    *)
HearTrunk ==
    /\ Hear("trunk_W", "idle") /\ download_done' = (download_done \/ cp_state = "ok")
    /\ cp_state' = "ok"
    /\ cpHist' = [cpHist EXCEPT !.crossed = @ \/ \E t \in Services : Waits(t)]
    /\ UNCHANGED <<service_state_map, exceptWork>>

(* "BSPASSERT": the work is queued before the mutex is taken. *)
HearAssert ==
    /\ Hear("BSPASSERT", "assert") /\ exceptWork' = (exceptWork \/ cp_state = "ok")
    /\ UNCHANGED <<cp_state, service_state_map, download_done, cpHist>>

RxAssert ==
    /\ except_mutex = "none" /\ Go("rx", "assert", "idle")
    /\ cp_state' = IF cp_state = "blocked" THEN cp_state ELSE "assert"
    /\ service_state_map' = IF cp_state = "blocked" THEN service_state_map ELSE {}
    /\ UNCHANGED <<download_done, power_off, exceptWork, except_mutex, boot_mutex, cpOp,
                   irqDepth, fw, loopMsgs, cpCount, cpHist>>

(* "DUMPDONE": ends the wait that the exception work is, and recovers.      *)
HearDump ==
    /\ Hear("DUMPDONE", "dump")
    /\ UNCHANGED <<cp_state, service_state_map, download_done, exceptWork, cpHist>>

RxDump ==
    /\ except_mutex = "none" /\ Go("rx", "dump", IF cp_state = "blocked" THEN "idle" ELSE "cancel")
    /\ cp_state' = IF cp_state = "blocked" THEN cp_state ELSE "dumpdone"
    /\ UNCHANGED <<service_state_map, download_done, power_off, exceptWork, except_mutex,
                   boot_mutex, cpOp, irqDepth, fw, loopMsgs, cpCount, cpHist>>

(* cancel_delayed_work_sync waits for a work that runs.                     *)
(* Mutant: it does not.                                                     *)
CancelAsync ==
    /\ Go("rx", "cancel", "reset") /\ exceptWork' = FALSE /\ skw_recovery_mode("rx")
    /\ UNCHANGED <<cp_state, service_state_map, download_done, except_mutex, boot_mutex, cpOp,
                   cpCount>>

RxCancel ==
    /\ Go("rx", "cancel", "reset") /\ cpPc["exc"] = "idle" /\ exceptWork' = FALSE
    /\ skw_recovery_mode("rx")
    /\ UNCHANGED <<cp_state, service_state_map, download_done, except_mutex, boot_mutex, cpOp,
                   cpCount>>

CpRest == /\ cpCount.ops = MaxOps /\ \A a \in Actors : cpPc[a] = "idle" /\ UNCHANGED cpVars

Recover(a) == \/ \E ok \in BOOLEAN : skw_sdio_cp_reset(a, ok)
              \/ skw_sdio_boot_cp(a) \/ BootReady(a)
User(s) == \/ skw_boot_loader(s) \/ skw_sdio_cp_service_ops(s) \/ ServiceLock(s)
           \/ skw_WIFI_service_start(s) \/ ServiceUnlock(s)
           \/ \E timeout \in BOOLEAN : ServiceReady(s, timeout)
Except == skw_sdio_exception_work \/ ExceptTest \/ ExceptRecover
RxThread == (\E s \in Services : HearReady(s)) \/ HearTrunk \/ HearAssert \/ RxAssert
            \/ HearDump \/ RxDump \/ RxCancel

CpNext == \/ \E s \in Services : User(s) \/ \E op \in {"start", "stop"} : ServiceCall(s, op)
          \/ \E a \in Actors : Recover(a)
          \/ skw_WIFI_service_stop \/ skw_BT_service_stop \/ SuspendPowersOff \/ send_modem_assert_command \/ skw_sdio_abort
          \/ Except \/ FwBoots \/ FwDies \/ RxThread \/ CpRest

CpSpec == CpInit /\ [][CpNext]_cpVars

-----------------------------------------------------------------------------
(* A service whose start has succeeded said that it was ready, to this      *)
(* start: download_done is shared by the boot and by both services, and     *)
(* only an answer that comes so late that another start waits already may   *)
(* be taken for the wrong one.                                              *)
StartedIsReady ==
    \A s \in Services : cpPc[s] = "unlock" /\ cpOp[s].op = "start" /\ cpOp[s].ret = "ok" =>
        s \in service_state_map \/ cpHist.ready \/ cpHist.crossed

(* The exception work and the rx thread never recover the CP both at the    *)
(* same time, and between recoveries the gpio interrupt is enabled: neither *)
(* a dump that ends late nor a crash during the recovery upsets that.  (A   *)
(* service that is started while the CP is powered off may.)                *)
OneRecovery ==
    /\ ~(Recovering("exc") /\ Recovering("rx"))
    /\ (~cpHist.user /\ ~cpHist.failed /\ \A a \in Actors : ~Recovering(a)) => irqDepth = 0
=============================================================================
