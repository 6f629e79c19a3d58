---------------------------- MODULE SkwSdioPort ----------------------------
(***************************************************************************)
(* One port of the SDIO link between the host and the chip's processor     *)
(* (CP): struct sdio_port of skw_sdio_rx.c.  The rx thread puts packets    *)
(* into the port's ring (skw_sdio_handle_packet, skw_sdio2_handle_packet), *)
(* a process reads them out (recv_data), another one sends and waits for   *)
(* the CP's acknowledgement (send_data), a third opens and closes the      *)
(* port, and a CP that died has its ports asserted.  The rx thread and the *)
(* reader share port->rx_mutex; open and close do not take it, and open    *)
(* initialises it again, with the completions, whoever holds or awaits     *)
(* them.                                                                   *)
(*                                                                         *)
(* Bytes are numbers in the order in which the CP sent them.  A packet's   *)
(* sequence number is reduced to whether it is the one port->next_seqno    *)
(* expects.                                                                *)
(***************************************************************************)
EXTENDS Naturals, Integers, Sequences, FiniteSets

CONSTANTS PortLength,   \* port->length, bytes of the ring
          MaxPacket,    \* bound: bytes of a packet
          MaxBytes,     \* bound: bytes the CP sends
          MaxSends,     \* bound: calls of send_data
          MaxOpens,     \* bound: calls of open_sdio_port and of asserts
          MaxRegFaults  \* bound: accesses of the flow control register that go wrong

ASSUME PortAssumption == /\ PortLength \in Nat /\ PortLength > 3 /\ MaxPacket \in 1..PortLength
                         /\ MaxBytes \in Nat /\ MaxSends \in Nat /\ MaxOpens \in Nat
                         /\ MaxRegFaults \in Nat

VARIABLES skw_cp_ver,    \* "V10" or "V20": the generation of the chip
          portKind,      \* port 0 ("at"), the log port, or one with data of a service
          port,          \* struct sdio_port
          portRing,      \* port->read_buffer
          portHandler,   \* the rx thread within a packet: what it does next
          portReader,    \* where the reader of the port stands
          portTake,      \* what it has copied: from where, how many bytes
          portSender,    \* where the sender stands, its try, its answer
          portWire,      \* packets of the CP that the rx thread has not seen
          portReg,       \* the flow control register: the CP is to be quiet
          portCp,        \* skw_sdio->cp_state # 0
          portCount,     \* bytes, sends, opens and faults so far
          portHist       \* history: torn, late, acked, reopened, asserted, ruled, unlifted

chipVars == <<skw_cp_ver, portKind>>
portVars == <<chipVars, port, portRing, portHandler, portReader, portTake, portSender, portWire,
              portReg, portCp, portCount, portHist>>

Slots == 0..PortLength - 1
InRing == port.rx_wp \in Slots /\ port.rx_rp \in Slots
Used == (PortLength + port.rx_wp - port.rx_rp) % PortLength
BufSize == PortLength - 1 - Used
Contents == [i \in 1..Used |-> portRing[(port.rx_rp + i - 1) % PortLength]]

PortTypeOK ==
    /\ skw_cp_ver \in {"V10", "V20"} /\ portKind \in {"at", "log", "data"}
    /\ port \in [state : {"IDLE", "OPEN", "CLSE", "ASST"}, rx_wp : Int, rx_rp : Int,
                 rx_flow_ctrl : BOOLEAN, tx_flow_ctrl : Int, rx_done : BOOLEAN, tx_done : BOOLEAN]
    /\ portHist.torn \/ InRing
    /\ portRing \in [Slots -> 0..MaxBytes]
    /\ portReader \in {"idle", "read", "again", "wait", "stranded", "woken", "locked", "copied"}
    /\ portSender.pc \in {"idle", "loop", "wait"} /\ portSender.i \in 0..2
    /\ portSender.ret \in {"none", "size", "zero", "eio"}

(* A behaviour exercises the reading or the sending: the counts of the      *)
(* other one are spent.                                                     *)
PortInit ==
    /\ skw_cp_ver \in {"V10", "V20"} /\ portKind \in {"at", "log", "data"}
    /\ port = [state |-> "IDLE", rx_wp |-> 0, rx_rp |-> 0, rx_flow_ctrl |-> FALSE,
               tx_flow_ctrl |-> 0, rx_done |-> FALSE, tx_done |-> FALSE]
    /\ portRing = [i \in Slots |-> 0]
    /\ portHandler = <<>> /\ portReader = "idle" /\ portTake = [rp |-> 0, n |-> 0]
    /\ portSender = [pc |-> "idle", i |-> 0, ret |-> "none"]
    /\ portWire = <<>> /\ portReg = FALSE /\ portCp = FALSE
    /\ portCount \in {[bytes |-> 0, sends |-> MaxSends, opens |-> 0, faults |-> 0],
                     [bytes |-> MaxBytes, sends |-> 0, opens |-> 0, faults |-> 0]}
    /\ portHist = [torn |-> FALSE, late |-> FALSE, acked |-> FALSE, reopened |-> FALSE,
                   asserted |-> FALSE, ruled |-> FALSE, unlifted |-> FALSE]

-----------------------------------------------------------------------------
(* Opening and closing.  Neither waits for the rx thread or for the reader. *)

(* One of the two is between taking rx_mutex and giving it back. *)
Publishing == portHandler # <<>> /\ portHandler[1] = "publish"
InSection == Publishing \/ portReader \in {"locked", "copied"}

(* The flow control of the CP is forgotten, not lifted, and a reader that   *)
(* sleeps is left to its timeout or a signal.  Only a port of a service has *)
(* its ring emptied.                                                        *)
open_sdio_port ==
    /\ port.state # "OPEN" /\ portCount.opens < MaxOpens
    /\ port' = [port EXCEPT !.state = "OPEN", !.rx_wp = IF portKind = "data" THEN 0 ELSE @,
                            !.rx_rp = IF portKind = "data" THEN 0 ELSE @, !.rx_flow_ctrl = FALSE,
                            !.tx_flow_ctrl = 0, !.rx_done = FALSE, !.tx_done = FALSE]
    /\ portReader' = IF portReader = "wait" THEN "stranded" ELSE portReader
    /\ portCount' = [portCount EXCEPT !.opens = @ + 1]
    /\ portHist' = [portHist EXCEPT !.torn = @ \/ InSection,
                                    !.late = @ \/ portSender.pc # "idle",
                                    !.reopened = @ \/ portReg]
    /\ UNCHANGED <<chipVars, portRing, portHandler, portTake, portSender, portWire, portReg,
                   portCp>>

close_sdio_port ==
    /\ port.state # "IDLE" /\ port' = [port EXCEPT !.state = "CLSE", !.rx_done = TRUE]
    /\ UNCHANGED <<chipVars, portRing, portHandler, portReader, portTake, portSender, portWire,
                   portReg, portCp, portCount, portHist>>

(* A CP that died: whoever waits at one of the first five ports is woken.   *)
(* The log port of the second chip is not one of them.                      *)
PortAssert ==
    /\ ~portCp /\ portCount.opens < MaxOpens /\ portCp' = TRUE
    /\ portCount' = [portCount EXCEPT !.opens = @ + 1]
    /\ \E reached \in BOOLEAN :
         /\ portKind = "at" => reached
         /\ portKind = "log" => (reached <=> skw_cp_ver = "V10")
         /\ port' = IF ~reached \/ port.state \in {"IDLE", "CLSE"} THEN port
                    ELSE [port EXCEPT !.state = "ASST", !.rx_done = TRUE,
                                      !.tx_done = @ \/ portKind # "log"]
    /\ portHist' = [portHist EXCEPT !.asserted = TRUE]
    /\ UNCHANGED <<chipVars, portRing, portHandler, portReader, portTake, portSender, portWire,
                   portReg>>

(* It is back ("trunk_W").  Only port 0 is opened again by itself. *)
PortReady ==
    /\ portCp /\ portCp' = FALSE
    /\ port' = IF portKind = "at" /\ port.state = "ASST" THEN [port EXCEPT !.state = "OPEN"]
               ELSE port
    /\ UNCHANGED <<chipVars, portRing, portHandler, portReader, portTake, portSender, portWire,
                   portReg, portCount, portHist>>

-----------------------------------------------------------------------------
(* The CP, which keeps quiet on a port whose flow control bit is set.       *)

CpSend(n, ok) ==
    /\ skw_cp_ver = "V20" => ok
    /\ ~portReg /\ ~portCp /\ portCount.bytes + n <= MaxBytes /\ Len(portWire) < 2
    /\ portCount' = [portCount EXCEPT !.bytes = @ + n]
    /\ portWire' = Append(portWire, [data |-> [i \in 1..n |-> portCount.bytes + i], ok |-> ok])
    /\ UNCHANGED <<chipVars, port, portRing, portHandler, portReader, portTake, portSender,
                   portReg, portCp, portHist>>

-----------------------------------------------------------------------------
(* The rx thread.                                                           *)

(* The bit of the port in the flow control register.  An access that fails  *)
(* leaves the bit as it was, and nobody looks at the result ...             *)
skw_sdio_rx_port_follow_ctl(on, ok) ==
    /\ portReg' = IF ok THEN on ELSE portReg
    /\ ok \/ portCount.faults < MaxRegFaults
    /\ portCount' = [portCount EXCEPT !.faults = IF ok THEN @ ELSE @ + 1]
    /\ portHist' = [portHist EXCEPT !.unlifted = portReg' /\ ~on, !.ruled = @ \/ ok]

(* ... and eight ports share the register without a lock: another port's    *)
(* read, change and write of it puts back what the bit was before.          *)
OtherPortWrites ==
    /\ portHist.ruled /\ portCount.faults < MaxRegFaults
    /\ portReg' = ~portReg
    /\ portCount' = [portCount EXCEPT !.faults = @ + 1]
    /\ portHist' = [portHist EXCEPT !.unlifted = portReg']
    /\ UNCHANGED <<chipVars, port, portRing, portHandler, portReader, portTake, portSender,
                   portWire, portCp>>

(* An acknowledgement is a packet without data; the model notes the try it  *)
(* answers, the code does not.                                              *)
ThisTry == <<portCount.sends, portSender.i>>

PacketAck(p) ==
    /\ port' = [port EXCEPT !.tx_flow_ctrl = @ - 1, !.tx_done = TRUE]
    /\ portHist' = [portHist EXCEPT !.acked = TRUE,
                                    !.late = @ \/ portSender.pc # "wait" \/ p.ok # ThisTry]
    /\ UNCHANGED <<portRing, portHandler>>

(* Where rx_wp goes when n bytes are copied to where it was.  It is read    *)
(* again after that, and an open may have changed it.                       *)
Advance(at, n) == {b + n - (IF PortLength - at > n THEN 0 ELSE PortLength) : b \in {at, port.rx_wp}}

(* The bytes are copied; rx_wp follows in a step of its own.                *)
CopiedIn(d) ==
    /\ portRing' = [b \in Slots |-> IF \E i \in 1..Len(d) : b = (port.rx_wp + i - 1) % PortLength
                                   THEN d[CHOOSE i \in 1..Len(d) : b = (port.rx_wp + i - 1) % PortLength]
                                   ELSE portRing[b]]
    /\ portHandler' = <<"publish", Len(d), BufSize, port.rx_wp>>
    /\ UNCHANGED <<port, portHist>>

(* Mutant: the space is compared with what is used, not with what is free.  *)
PacketDataUsed(d) ==
    IF port.state = "IDLE" \/ Used + 1 > PortLength
    THEN UNCHANGED <<port, portRing, portHandler, portHist>>
    ELSE CopiedIn(d)

PacketData(d) ==
    IF port.state = "IDLE" \/ BufSize < Len(d)
    THEN UNCHANGED <<port, portRing, portHandler, portHist>>
    ELSE CopiedIn(d)

(* The first chip's driver drops a packet that is out of sequence, except   *)
(* on the log port ...                                                      *)
skw_sdio_handle_packet(p) ==
    /\ skw_cp_ver = "V10"
    /\ IF p.data = <<>> THEN PacketAck(p)
       ELSE IF p.ok \/ portKind = "log" THEN PacketData(p.data)
       ELSE UNCHANGED <<port, portRing, portHandler, portHist>>

(* ... the second one follows its number. *)
skw_sdio2_handle_packet(p) ==
    /\ skw_cp_ver = "V20"
    /\ IF p.data = <<>> THEN PacketAck(p) ELSE PacketData(p.data)

PortPacket ==
    /\ portHandler = <<>> /\ portWire # <<>> /\ portWire' = Tail(portWire)
    /\ portReader \notin {"locked", "copied"} \/ portHist.torn
    /\ skw_sdio_handle_packet(Head(portWire)) \/ skw_sdio2_handle_packet(Head(portWire))
    /\ UNCHANGED <<chipVars, portReader, portTake, portSender, portReg, portCp, portCount>>

PortPublish(ok) ==
    /\ Publishing
    /\ LET n == portHandler[2]
           stop == ~port.rx_flow_ctrl /\ portHandler[3] - n < PortLength \div 3 IN
       /\ \E wp \in Advance(portHandler[4], n) :
            port' = [port EXCEPT !.rx_wp = wp, !.rx_flow_ctrl = @ \/ stop]
       /\ IF stop THEN skw_sdio_rx_port_follow_ctl(TRUE, ok)
          ELSE ok /\ UNCHANGED <<portReg, portCount, portHist>>
    /\ portHandler' = <<"complete">>
    /\ UNCHANGED <<chipVars, portRing, portReader, portTake, portSender, portWire, portCp>>

(* The mutex is released before the reader is woken. *)
PortComplete ==
    /\ portHandler = <<"complete">> /\ portHandler' = <<>>
    /\ port' = [port EXCEPT !.rx_done = TRUE]
    /\ UNCHANGED <<chipVars, portRing, portReader, portTake, portSender, portWire, portReg,
                   portCp, portCount, portHist>>

-----------------------------------------------------------------------------
(* The reader: recv_data and sdio_read.                                     *)

ReaderStep(from, to) == /\ portReader \in from /\ portReader' = to
                        /\ UNCHANGED <<chipVars, portRing, portHandler, portSender, portWire,
                                       portCp>>

(* Until it has rx_mutex the reader changes nothing but the port itself;    *)
(* the rx thread does not hold the mutex that it gets.                      *)
ReaderStands(from, to) == /\ ReaderStep(from, to)
                          /\ to = "locked" => ~Publishing \/ portHist.torn
                          /\ UNCHANGED <<portTake, portReg, portCount, portHist>>

Dead == port.state = "ASST" /\ portCp

(* A port that is found dead is an error; the log port is open again. *)
FoundDead == IF Dead /\ portKind = "log" THEN [port EXCEPT !.state = "OPEN"] ELSE port

recv_data ==
    /\ port.state # "IDLE"
    /\ ReaderStands({"idle"}, IF port.state = "CLSE" THEN "idle" ELSE "read")
    /\ port' = IF port.state = "CLSE" THEN [port EXCEPT !.state = "IDLE"] ELSE port

ReadAsserted ==
    /\ ReaderStands({"read"}, IF Dead THEN "idle" ELSE "again")
    /\ port' = FoundDead

(* rx_done is cleared before rx_wp is looked at.  A read of a closed port   *)
(* that is empty, or of one whose service is down, is an error.             *)
ReadAgain(down) ==
    /\ down => portKind = "data"
    /\ ReaderStands({"again"}, IF port.rx_wp # port.rx_rp THEN "locked"
                               ELSE IF down \/ port.state = "CLSE" THEN "idle" ELSE "wait")
    /\ port' = [port EXCEPT !.rx_done = FALSE]

(* Mutant: rx_done is cleared when the reader goes to sleep, after the look *)
(* at rx_wp.                                                                *)
WaitClears ==
    /\ \E to \in {"woken", "wait"} : ReaderStands({"wait", "stranded"}, to)
    /\ port.rx_done /\ port' = [port EXCEPT !.rx_done = FALSE]

ReadWait ==
    /\ ReaderStands({"wait", "stranded"}, "woken") /\ port.rx_done
    /\ port' = [port EXCEPT !.rx_done = FALSE]

(* Its time is up, or a signal comes: the read ends, or (recv_data_timeout  *)
(* takes a signal for data) goes on.                                        *)
ReadInterrupted ==
    /\ \E to \in {"idle", "woken"} : ReaderStands({"wait", "stranded"}, to)
    /\ port' = [port EXCEPT !.rx_done = FALSE]

ReadWoken ==
    /\ ReaderStands({"woken"}, IF port.state = "CLSE" \/ Dead THEN "idle" ELSE "locked")
    /\ port' = IF port.state = "CLSE" THEN [port EXCEPT !.state = "IDLE"] ELSE FoundDead

(* The section under rx_mutex: up to size bytes are copied from the ring ... *)
sdio_read(size) ==
    /\ ReaderStep({"locked"}, IF Used = 0 THEN "again" ELSE "copied")
    /\ portTake' = IF Used = 0 THEN portTake
                   ELSE [rp |-> port.rx_rp, n |-> IF size > Used THEN Used ELSE size]
    /\ UNCHANGED <<port, portReg, portCount, portHist>>

(* ... and leave it: rx_rp follows. *)
Taken(at, n) == IF n > PortLength - at THEN {n - (PortLength - at)}
                ELSE {IF b + n = PortLength THEN 0 ELSE b + n : b \in {at, port.rx_rp}}

ReadTaken(ok) ==
    /\ ReaderStep({"copied"}, "idle") /\ portTake' = [rp |-> 0, n |-> 0]
    /\ \E rp \in Taken(portTake.rp, portTake.n) :
         LET empty == rp = port.rx_wp
             used == IF empty THEN 0 ELSE (PortLength + port.rx_wp - rp) % PortLength
             go == port.rx_flow_ctrl /\ PortLength - 1 - used > (PortLength * 2) \div 3 IN
         /\ port' = [port EXCEPT !.rx_rp = IF empty THEN 0 ELSE rp, !.rx_wp = IF empty THEN 0 ELSE @,
                                 !.rx_flow_ctrl = @ /\ ~go]
         /\ IF go THEN skw_sdio_rx_port_follow_ctl(FALSE, ok)
            ELSE ok /\ UNCHANGED <<portReg, portCount, portHist>>

-----------------------------------------------------------------------------
(* The sender: send_data.  The packet is sent up to twice.                  *)

SenderStep(from) == /\ portSender.pc = from
                    /\ UNCHANGED <<chipVars, portRing, portHandler, portReader, portTake,
                                   portReg, portCp>>

send_data ==
    /\ SenderStep("idle") /\ portCount.sends < MaxSends
    /\ portCount' = [portCount EXCEPT !.sends = @ + 1]
    /\ IF portCp \/ port.state \in {"IDLE", "CLSE"}
       THEN /\ portSender' = [portSender EXCEPT !.ret = "eio"]
            /\ port' = IF ~portCp /\ port.state = "CLSE" THEN [port EXCEPT !.state = "IDLE"]
                       ELSE port
            /\ UNCHANGED portHist
       ELSE /\ portSender' = [pc |-> "loop", i |-> 0, ret |-> "none"]
            /\ port' = [port EXCEPT !.tx_done = FALSE]
            /\ portHist' = [portHist EXCEPT !.acked = FALSE]
    /\ UNCHANGED portWire

(* The write succeeds and the CP will answer, now, late or never; or it     *)
(* fails, which a second try may mend.                                      *)
SendTry(answer, fails) ==
    /\ SenderStep("loop")
    /\ CASE portCp -> /\ portSender' = [portSender EXCEPT !.pc = "idle", !.ret = "eio"]
                      /\ UNCHANGED <<port, portWire>>
         [] ~portCp /\ portSender.i = 2 ->
                      /\ portSender' = [portSender EXCEPT !.pc = "idle", !.ret = "zero"]
                      /\ UNCHANGED <<port, portWire>>
         [] ~portCp /\ portSender.i < 2 /\ fails ->
                      /\ portSender' = [portSender EXCEPT !.i = @ + 1]
                      /\ UNCHANGED <<port, portWire>>
         [] OTHER ->  /\ port' = [port EXCEPT !.tx_flow_ctrl = @ + 1]
                      /\ portWire' = IF answer /\ Len(portWire) < 3
                                     THEN Append(portWire, [data |-> <<>>, ok |-> ThisTry])
                                     ELSE portWire
                      /\ portSender' = IF port.state = "ASST"
                                       THEN [portSender EXCEPT !.pc = "idle", !.ret = "size"]
                                       ELSE [portSender EXCEPT !.pc = "wait"]
    /\ UNCHANGED <<portCount, portHist>>

SendAcked == /\ SenderStep("wait") /\ port.tx_done
             /\ portSender' = [portSender EXCEPT !.pc = "idle", !.ret = "size"]
             /\ port' = [port EXCEPT !.tx_done = FALSE]
             /\ UNCHANGED <<portWire, portCount, portHist>>

(* After 100 ms the packet is sent again, unless the count says that there  *)
(* is nothing to wait for.                                                  *)
SendTimeout == /\ SenderStep("wait") /\ ~port.tx_done
               /\ IF port.tx_flow_ctrl # 0
                  THEN /\ port' = [port EXCEPT !.tx_flow_ctrl = @ - 1]
                       /\ portSender' = [portSender EXCEPT !.pc = "loop", !.i = @ + 1]
                  ELSE /\ portSender' = [portSender EXCEPT !.pc = "idle", !.ret = "size"]
                       /\ UNCHANGED port
               /\ UNCHANGED <<portWire, portCount, portHist>>

PortNext ==
    /\ InRing
    /\ \/ open_sdio_port \/ close_sdio_port \/ PortAssert \/ PortReady \/ OtherPortWrites
       \/ \E n \in 1..MaxPacket, ok \in BOOLEAN : CpSend(n, ok)
       \/ PortPacket \/ PortComplete
       \/ recv_data \/ ReadAsserted \/ ReadWait \/ ReadInterrupted \/ ReadWoken
       \/ \E ok \in BOOLEAN : PortPublish(ok) \/ ReadTaken(ok) \/ ReadAgain(ok)
       \/ \E size \in {1, PortLength} : sdio_read(size)
       \/ send_data \/ SendAcked \/ SendTimeout
       \/ \E answer, fails \in BOOLEAN : SendTry(answer, fails)

PortSpec == PortInit /\ [][PortNext]_portVars

-----------------------------------------------------------------------------
(* The ring of the port is a channel of bytes, whatever the readers, the rx *)
(* thread and the opening of the port do, until open_sdio_port runs into a  *)
(* packet being copied in or into a reader that empties the ring: it zeroes *)
(* the indices and the mutex under them.                                    *)
Channel == INSTANCE SdioChannel WITH Bytes <- 1..MaxBytes, Capacity <- PortLength - 1,
                                     queue <- Contents, torn <- portHist.torn

RingIsChannel == Channel!ChannelSpec

(* No wakeup is lost: a reader that sleeps while there are bytes in the     *)
(* ring has its rx_done, or the rx thread is about to complete it.  (A      *)
(* reader that sleeps while the port is opened is stranded: the completion  *)
(* has forgotten it, and its timeout or a signal has to end its sleep.)     *)
NoLostWakeup ==
    portReader = "wait" /\ port.rx_wp # port.rx_rp => port.rx_done \/ portHandler = <<"complete">>

(* A CP that has been told to be quiet on the port finds a reader who will  *)
(* lift that: there is data in the ring, enough to have stopped it.  (The   *)
(* exceptions: a port opened again while the CP was quiet has forgotten     *)
(* about it; the register access that lifts it failed, or the access for    *)
(* another port undid it.)                                                  *)
StoppedHasData ==
    portReg /\ ~portHist.reopened /\ ~portHist.torn /\ ~portHist.unlifted =>
        port.rx_flow_ctrl /\ Used >= PortLength - 1 - (PortLength * 2) \div 3

(* A send that reports success was acknowledged by the CP, as long as no    *)
(* acknowledgement has come after its 100 ms and the CP has not died.       *)
SuccessIsAcked ==
    portSender.ret = "size" /\ ~portHist.late /\ ~portHist.asserted => portHist.acked
=============================================================================
