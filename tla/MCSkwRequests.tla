--------------------------- MODULE MCSkwRequests ----------------------------
(* The requests of the Wi-Fi driver that must come to an end: commands,     *)
(* scans, frames to send.  Each part is checked on its own, under the       *)
(* fairness of the threads and work queues that serve it.  Two callers and  *)
(* the transmit path share the command lock; two scans, the second while    *)
(* the first is ending; two frames for room for one.                        *)
EXTENDS SkwCommand, SkwScan, SkwTx

VARIABLE part       \* the part that runs
vars == <<part, cmdVars, scanVars, txVars>>
RequestParts == {"command", "scan", "tx"}

Init == /\ part \in RequestParts /\ CmdInit /\ ScanInit /\ TxInit
        /\ (part # "tx" => txd.bus = "sdio")

CommandSteps == part = "command" /\ CmdNext /\ UNCHANGED <<part, scanVars, txVars>>
ScanSteps == part = "scan" /\ ScanNext /\ UNCHANGED <<part, cmdVars, txVars>>
TxSteps == part = "tx" /\ TxNext /\ UNCHANGED <<part, cmdVars, scanVars>>
Next == CommandSteps \/ ScanSteps \/ TxSteps

Spec == Init /\ [][Next]_vars /\ CmdFairness /\ ScanFairness /\ TxFairness

(* One command at a time is under way and what its caller is told is what   *)
(* became of it (skw_msg_xmit_timeout, skw_msg_try_send), as long as no     *)
(* command has timed out and the firmware lives: ExclusiveUntilFault and    *)
(* ResultIsOwn say it in full.  The tx ring takes every frame the worker     *)
(* picks (RingTakesAll), and the state has its type.                        *)
RequestsSound == /\ (part = "command" => CmdTypeOK /\ ExclusiveUntilFault /\ ResultIsOwn)
                 /\ (part = "scan" => ScanTypeOK) /\ (part = "tx" => TxTypeOK /\ RingTakesAll)
=============================================================================
