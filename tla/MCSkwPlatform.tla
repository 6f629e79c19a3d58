---------------------------- MODULE MCSkwPlatform ----------------------------
(* The platform driver under the Wi-Fi driver, one part at a time: a port   *)
(* of the SDIO bus, the chip's boot, services and recovery over SDIO, the   *)
(* devices that are made for its ports, the SDIO link with its interrupt,   *)
(* the requests of a USB port, boot, services and recovery over USB, the    *)
(* Bluetooth driver; and what it shows to user space and keeps for it: the  *)
(* character devices and the log of those of Bluetooth, the firmware's log  *)
(* in files, its memory after a death, and the boot device.                 *)
EXTENDS SkwSdioPort, SkwSdioCp, SkwSdioBind, SkwSdioLink, SkwUsbUrb, SkwUsbCp, SkwBt,
        SkwBtLog, SkwUcom, SkwLogFile, SkwDumpMem, SkwBootDev

MCLogSettings == {<<600, 7>>, <<200, 41>>}   \* beyond the limits, beyond an int

VARIABLE part       \* the part that runs
deviceVars == <<blVars, ucomVars, logVars, dumpVars, bootVars>>
busVars == <<portVars, cpVars, bindVars, linkVars, urbVars, usbVars, btVars>>
vars == <<part, busVars, deviceVars>>
PlatformParts == {"port", "cp", "bind", "link", "urb", "usb", "bt", "btlog", "ucom", "log", "dump", "boot"}

(* A part that does not run is left in one of its initial states.  Of those *)
(* of the others, some add nothing, as the order of the readers.  A port    *)
(* of a service is read on the first generation; port 0 is written on the   *)
(* second one, the others on the first; a fault of the link is looked for   *)
(* with the interrupt in band and ADMA, and with neither.                   *)
Init ==
    /\ part \in PlatformParts
    /\ PortInit /\ CpInit /\ BindInit /\ LinkInit /\ UrbInit /\ UsbInit /\ BtInit
    /\ BtLogInit /\ UcomInit /\ LogInit /\ DumpInit /\ BootDevInit
    /\ IF part = "port" THEN IF portCount.bytes > 0 THEN skw_cp_ver = "V10" /\ portKind = "data"
                             ELSE skw_cp_ver = "V20" <=> portKind = "at"
       ELSE skw_cp_ver = "V10" /\ portKind = "at" /\ portCount.bytes = 0
    /\ IF part = "link" THEN (lk.irq = "inband" <=> lrx.adma) \/ lcp.faults > 0 ELSE lk.irq = "inband" /\ lrx.adma /\ lcp.faults = 0
    /\ IF part = "dump" THEN dr[1].dev = "LOG" \/ dr[2].dev = "SKWDUMP"
       ELSE dm.bus = "SDIO" /\ \A f \in DumpReaders : dr[f].dev = "LOG"
    /\ (lf.bus = "SDIO" <=> lf.set = <<600, 7>>) /\ (lf.bus = "SDIO" <=> lf.ops = 0) /\ (part # "log" => lf.bus = "SDIO")
    /\ (part # "cp" => cpCount.ops = 0) /\ (part # "bind" => sb.ver = "V10" /\ sb.bt) /\ (part # "urb" => ua.faults = 0)
    /\ (part # "usb" => uf.ops = 0) /\ (part # "ucom" => um.kind = "BTCMD") /\ (part # "boot" => bo.bus = "SDIO")

PortSteps == /\ part = "port" /\ PortNext
             /\ UNCHANGED <<part, cpVars, bindVars, linkVars, urbVars, usbVars, btVars, deviceVars>>
CpSteps == /\ part = "cp" /\ CpNext
           /\ UNCHANGED <<part, portVars, bindVars, linkVars, urbVars, usbVars, btVars, deviceVars>>
BindSteps == /\ part = "bind" /\ BindNext
             /\ UNCHANGED <<part, portVars, cpVars, linkVars, urbVars, usbVars, btVars, deviceVars>>
LinkSteps == /\ part = "link" /\ LinkNext
             /\ UNCHANGED <<part, portVars, cpVars, bindVars, urbVars, usbVars, btVars, deviceVars>>
UrbSteps == /\ part = "urb" /\ UrbNext
            /\ UNCHANGED <<part, portVars, cpVars, bindVars, linkVars, usbVars, btVars, deviceVars>>
UsbSteps == /\ part = "usb" /\ UsbNext
            /\ UNCHANGED <<part, portVars, cpVars, bindVars, linkVars, urbVars, btVars, deviceVars>>
BtSteps == /\ part = "bt" /\ BtNext
           /\ UNCHANGED <<part, portVars, cpVars, bindVars, linkVars, urbVars, usbVars, deviceVars>>
BtLogSteps == /\ part = "btlog" /\ BtLogNext
              /\ UNCHANGED <<part, busVars, ucomVars, logVars, dumpVars, bootVars>>
UcomSteps == /\ part = "ucom" /\ UcomNext
             /\ UNCHANGED <<part, busVars, blVars, logVars, dumpVars, bootVars>>
LogSteps == /\ part = "log" /\ LogNext
            /\ UNCHANGED <<part, busVars, blVars, ucomVars, dumpVars, bootVars>>
DumpSteps == /\ part = "dump" /\ DumpNext
             /\ UNCHANGED <<part, busVars, blVars, ucomVars, logVars, bootVars>>
BootDevSteps == /\ part = "boot" /\ BootDevNext
                /\ UNCHANGED <<part, busVars, blVars, ucomVars, logVars, dumpVars>>
Next == \/ PortSteps \/ CpSteps \/ BindSteps \/ LinkSteps \/ UrbSteps \/ UsbSteps \/ BtSteps
        \/ BtLogSteps \/ UcomSteps \/ LogSteps \/ DumpSteps \/ BootDevSteps

Spec == Init /\ [][Next]_vars

(* The state of the parts that do not run never changes, so that of the one *)
(* that runs tells the states apart.  What a torn ring holds decides        *)
(* nothing: no guard looks at the bytes, and no property promises any.      *)
PortSeen ==
    IF ~portHist.torn THEN portVars
    ELSE <<chipVars, port, portHandler, portReader, portTake, portSender,
           [i \in 1..Len(portWire) |-> <<Len(portWire[i].data), portWire[i].ok>>], portReg, portCp, portCount,
           portHist.late, portHist.acked, portHist.asserted, portHist.ruled>>
RunningPart ==
    CASE part = "port" -> <<part, portHist.torn, PortSeen>> [] part = "cp" -> <<part, cpVars>> [] part = "bind" -> <<part, bindVars>>
      [] part = "link" -> <<part, linkVars>> [] part = "urb" -> <<part, urbVars>> [] part = "usb" -> <<part, usbVars>>
      [] part = "bt" -> <<part, btVars>> [] part = "btlog" -> <<part, blVars>> [] part = "ucom" -> <<part, ucomVars>>
      [] part = "log" -> <<part, logVars>> [] part = "dump" -> <<part, dumpVars>> [] part = "boot" -> <<part, bootVars>>

(* Who waits for data gets it: no wakeup of a port's reader is lost and the *)
(* chip is not kept quiet without a reader who will lift that               *)
(* (NoLostWakeup, StoppedHasData), the receive interrupt is armed and every *)
(* packet heard of (RxArmed, PacketsHeard), a USB port has a request in the *)
(* air and loses none (ReadsArmed, UrbsKept, CounterTrue).                  *)
ReceiversServed ==
    /\ (part = "port" => NoLostWakeup /\ StoppedHasData)
    /\ (part = "link" => RxArmed /\ PacketsHeard)
    /\ (part = "urb" => ReadsArmed /\ UrbsKept /\ CounterTrue)

(* What the drivers take the firmware for is what it is.  Boot, services    *)
(* and recovery, over SDIO and over USB: one recovery at a time             *)
(* (OneRecovery), its death told once (ToldOnce), a service counts as       *)
(* started only when the running firmware has said so (StartedIsReady,      *)
(* RunningIsReady), the images are sent whole (PacketsEnd).  Bluetooth:     *)
(* open means open, a firmware never gets a frame that was meant for the    *)
(* one before it, an answer is that of the command (BtOpenMeansOpen,        *)
(* NoStaleFrame, AnswerIsOwn).                                              *)
FirmwareAgrees == /\ (part = "cp" => OneRecovery /\ StartedIsReady)
                  /\ (part = "usb" => ToldOnce /\ RunningIsReady /\ PacketsEnd)
                  /\ (part = "bt" => BtOpenMeansOpen /\ NoStaleFrame /\ AnswerIsOwn)

(* What is handed out is accounted for: a send that reports success was     *)
(* acknowledged (SuccessIsAcked), devices are registered once and all given *)
(* back (DevicesMatch).  Every part's state has its type.                   *)
PlatformSound ==
    CASE part = "port" -> PortTypeOK /\ SuccessIsAcked [] part = "cp" -> CpTypeOK
      [] part = "bind" -> BindTypeOK /\ DevicesMatch [] part = "link" -> LinkTypeOK [] part = "urb" -> UrbTypeOK
      [] part = "usb" -> UsbTypeOK [] part = "bt" -> BtTypeOK
      [] OTHER -> TRUE

(* What user space reads is what there is, and what is held stays until it  *)
(* is given back.  A reader of the Bluetooth log that sleeps has nothing to *)
(* read, and what it reads is whole and in order (LogReaderServed,          *)
(* LogIsWhole); the dump one reads is of one death (DumpIsOne).  A          *)
(* character device stays while a file has it (UcomHeld), a recording goes  *)
(* from its start to its stop and its work item before its device           *)
(* (LogRecorded); so do the images the chip is booted from and the data its *)
(* services use (BootDataHeld).  Every part's state has its type.           *)
DevicesSound ==
    CASE part = "btlog" -> BtLogTypeOK /\ LogReaderServed /\ LogIsWhole
      [] part = "ucom" -> UcomTypeOK /\ UcomHeld
      [] part = "log" -> LogTypeOK /\ LogRecorded
      [] part = "dump" -> DumpTypeOK /\ DumpIsOne
      [] part = "boot" -> BootTypeOK /\ BootDataHeld
      [] OTHER -> TRUE
=============================================================================
