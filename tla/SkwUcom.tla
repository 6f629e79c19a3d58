------------------------------ MODULE SkwUcom -------------------------------
(***************************************************************************)
(* The character devices of the platform driver (skwutil/skw_user_com.c):  *)
(* a port of the chip behind a device that two files may hold, read and    *)
(* written while the platform device is removed under them, and the one    *)
(* behind which opening starts Bluetooth (BTBOOT).                         *)
(***************************************************************************)
EXTENDS Naturals, FiniteSets

CONSTANTS Files,         \* files of user space
          MaxProbes,     \* bound: times the device is probed
          MaxUcomOps,    \* bound: opens
          MaxUcomAsserts \* bound: assertions of the firmware

ASSUME UcomAssumption == {MaxProbes, MaxUcomOps, MaxUcomAsserts} \subseteq Nat /\ IsFiniteSet(Files)

VARIABLES um,   \* struct ucom_dev, its place in ucoms[], the port
          ux    \* what each file is doing
ucomVars == <<um, ux>>

Kinds == {"BTCMD", "ATC", "BTBOOT"}      \* the log device: SkwLogFile
UcomTypeOK ==
    /\ um.kind \in Kinds /\ {um.present, um.alive, um.bufs, um.port, um.rx, um.tx, um.exc} \subseteq BOOLEAN
    /\ um.open \in 0..Cardinality(Files) /\ um.rm \in {"no", "wait"} /\ um.probes \in 0..MaxProbes
    /\ ux \in [Files -> {"away", "found", "counted", "held", "read", "write"}]

UcomInit ==
    /\ \E kind \in Kinds :
          um = [kind |-> kind, present |-> FALSE, alive |-> FALSE, bufs |-> FALSE, open |-> 0, port |-> FALSE, rx |-> FALSE,
                tx |-> FALSE, exc |-> FALSE, rm |-> "no", probes |-> 0, ops |-> 0, asserts |-> 0, odd |-> {}]
    /\ ux = [f \in Files |-> "away"]

Busy(f) == ux[f] \in {"read", "write"}
Holds(f) == ux[f] \in {"held", "read", "write"}
UcomOdd(u, cond, what) == IF cond THEN [u EXCEPT !.odd = @ \union {what}] ELSE u

-----------------------------------------------------------------------------
(* A device that was held when it went is never freed, and nobody sees it  *)
(* again: the next one is new.  It comes when the last file is away.       *)
skw_ucom_probe ==
    /\ ~um.present /\ um.probes < MaxProbes /\ \A f \in Files : ux[f] = "away"
    /\ um' = [um EXCEPT !.present = TRUE, !.alive = TRUE, !.bufs = um.kind # "BTBOOT", !.open = 0, !.rx = FALSE, !.tx = FALSE,
                        !.port = FALSE, !.probes = @ + 1, !.odd = {}]
    /\ UNCHANGED ux

(* The device is looked up and two holders are the limit, without a lock;   *)
(* the firmware must run.                                                   *)
ucom_open ==
    /\ um.present /\ um.kind # "BTBOOT" /\ ~um.exc /\ um.open <= 1 /\ um.ops < MaxUcomOps
    /\ \E f \in Files : ux[f] = "away" /\ ux' = [ux EXCEPT ![f] = "found"]
    /\ um' = [um EXCEPT !.ops = @ + 1]
OpenCounted ==
    /\ \E f \in Files : ux[f] = "found" /\ ux' = [ux EXCEPT ![f] = "counted"]
    /\ um.kind # "BTBOOT" /\ um' = [UcomOdd(um, ~um.alive \/ ~um.present, "openraced") EXCEPT !.open = @ + 1]
(* The holder that finds itself the only one opens the port: of two that    *)
(* counted themselves together none does.                                   *)
OpenFirst ==
    /\ \E f \in Files : /\ ux[f] = "counted" /\ ux' = [ux EXCEPT ![f] = "held"]
                        /\ um' = IF um.open = 1 THEN [um EXCEPT !.rx = FALSE, !.tx = FALSE, !.port = TRUE]
                                 ELSE UcomOdd(um, ~um.port, "together")

(* BTBOOT: the port is opened, which starts Bluetooth, then counted. *)
user_boot_open ==
    /\ um.present /\ um.kind = "BTBOOT" /\ ~um.exc /\ um.open = 0 /\ um.ops < MaxUcomOps
    /\ \E f \in Files : ux[f] = "away" /\ ux' = [ux EXCEPT ![f] = "found"]
    /\ um' = [um EXCEPT !.ops = @ + 1]
BootStarted ==
    /\ um.kind = "BTBOOT" /\ \E f \in Files :
          /\ ux[f] = "found"
          /\ \/ /\ ux' = [ux EXCEPT ![f] = "held"]
                /\ um' = [UcomOdd(UcomOdd(um, um.open > 0, "twice"), ~um.alive \/ ~um.present, "openraced")
                             EXCEPT !.port = TRUE, !.open = @ + 1]
             \/ um' = um /\ ux' = [ux EXCEPT ![f] = "away"]
user_boot_release ==
    /\ um.kind = "BTBOOT" /\ \E f \in Files :
          /\ ux[f] = "held" /\ ux' = [ux EXCEPT ![f] = "away"]
          /\ um' = [UcomOdd(um, um.open > 1, "closed") EXCEPT !.port = @ /\ um.exc, !.open = IF @ > 0 THEN @ - 1 ELSE 0]

(* The port is closed although another file holds it; that of the AT        *)
(* commands stays open.                                                     *)
Released(u, others) ==
    LET closes == u.kind = "BTCMD"
    IN [UcomOdd(u, closes /\ others, "closed") EXCEPT !.port = @ /\ ~closes, !.open = @ - 1]
ucom_release ==
    /\ um.kind # "BTBOOT" /\ \E f \in Files :
          /\ ux[f] = "held" /\ ux' = [ux EXCEPT ![f] = "away"]
          /\ um' = IF um.present /\ um.open > 0
                   THEN Released(um, \E g \in Files \ {f} : Holds(g) \/ ux[g] = "counted") ELSE um

(* One reader and one writer at a time; the transfer is outside the lock.   *)
ucom_read ==
    /\ um.kind # "BTBOOT" /\ um.open > 0 /\ ~um.exc /\ ~um.rx
    /\ \E f \in Files : ux[f] = "held" /\ ux' = [ux EXCEPT ![f] = "read"]
    /\ um' = [um EXCEPT !.rx = TRUE]
ReadReturns ==
    /\ \E f \in Files : ux[f] = "read" /\ ux' = [ux EXCEPT ![f] = "held"]
    /\ um' = [um EXCEPT !.rx = FALSE]
ucom_write ==
    /\ um.kind # "BTBOOT" /\ um.open > 0 /\ ~um.exc /\ ~um.tx
    /\ \E f \in Files : ux[f] = "held" /\ ux' = [ux EXCEPT ![f] = "write"]
    /\ um' = [um EXCEPT !.tx = TRUE]
WriteReturns ==
    /\ \E f \in Files : ux[f] = "write" /\ ux' = [ux EXCEPT ![f] = "held"]
    /\ um' = [um EXCEPT !.tx = FALSE]
(* Any request makes a reader return, by closing the port. *)
ucom_ioctl ==
    /\ um.kind # "BTBOOT" /\ um.present /\ um.open > 0 /\ um.rx /\ um.port
    /\ \E f \in Files : ux[f] = "held"
    /\ um' = UcomOdd([um EXCEPT !.port = FALSE], TRUE, "closed") /\ UNCHANGED ux

ModemAsserts == /\ um.asserts < MaxUcomAsserts /\ ~um.exc /\ um' = [um EXCEPT !.exc = TRUE, !.asserts = @ + 1] /\ UNCHANGED ux
ModemReturns == um.exc /\ um' = [um EXCEPT !.exc = FALSE] /\ UNCHANGED ux

(* A reader of BTCMD is sent home; a second is waited for the holders.      *)
skw_ucom_remove ==
    /\ um.present /\ um.rm = "no" /\ UNCHANGED ux
    /\ um' = [um EXCEPT !.rm = "wait", !.port = @ /\ ~(um.kind = "BTCMD" /\ um.rx),
                        !.odd = @ \union {"removing"}]
RemoveEnds ==
    /\ um.rm = "wait" /\ UNCHANGED ux
    /\ um' = [UcomOdd(um, um.open > 0, "impatient") EXCEPT
                 !.present = FALSE, !.bufs = FALSE, !.rm = "no", !.alive = um.open > 0, !.open = 0]
UcomNext ==
    \/ skw_ucom_probe \/ ucom_open \/ OpenCounted \/ OpenFirst \/ user_boot_open \/ BootStarted
    \/ ucom_release \/ user_boot_release \/ ucom_read \/ ReadReturns \/ ucom_write \/ WriteReturns \/ ucom_ioctl
    \/ ModemAsserts \/ ModemReturns \/ skw_ucom_remove \/ RemoveEnds
UcomSpec == UcomInit /\ [][UcomNext]_ucomVars

(* A device that is held stays: its count is the number of its holders, a   *)
(* transfer has its buffer, one reads and one writes, and what is held is   *)
(* open.  Exceptions, each a sequence of calls: a removal that *)
(* gives up waiting, an open that crosses it, two first opens at once, and  *)
(* a release or a request that closes the port under another holder.        *)
UcomHeld ==
    LET torn == um.odd \intersect {"impatient", "openraced"} # {} IN
    /\ um.present /\ ~torn => um.open = Cardinality({f \in Files : Holds(f) \/ ux[f] = "counted"})
    /\ \A f \in Files : (Busy(f) /\ ~torn => um.bufs) /\ (Holds(f) /\ ~torn => um.alive)
    /\ Cardinality({f \in Files : ux[f] = "read"}) <= 1 \/ um.odd \ {"removing"} # {}
    /\ ((\E f \in Files : Holds(f)) /\ um.odd = {} => um.port)
=============================================================================
