------------------------------ MODULE SkwBtLog ------------------------------
(***************************************************************************)
(* The log of the Bluetooth devices of the platform driver                 *)
(* (skwutil/skw_btlog.c): what passes through the character devices BTCMD, *)
(* BTDATA, BTAUDIO and BTISOC is queued for the reader of SKWBT_LOG, up to *)
(* a limit; a reader sleeps on rx_recv, an event count that it resets      *)
(* itself.  skw_user_com.c makes and removes the device with BTBOOT, gives *)
(* it the data of BTCMD, and says when BTBOOT is opened and closed.  It is *)
(* built where CONFIG_BT_SEEKWAVE is not; the copy in swtbt4l has the same *)
(* text, but there nobody calls skwbt_log_port_set_bt_open.                *)
(***************************************************************************)
EXTENDS Naturals, Sequences

CONSTANTS LogLimit,      \* packets that are queued at most, 41 in the code
          PacketSize,    \* bytes of a packet with its header
          MaxLogPackets, \* bound: packets
          MaxLogOpens    \* bound: opens

ASSUME BtLogAssumption == /\ {LogLimit, PacketSize, MaxLogPackets, MaxLogOpens} \subseteq Nat
                          /\ LogLimit > 0 /\ PacketSize > 0

VARIABLES bl             \* skwbt_log_port_info and _pdata, its file, reader and writer
blVars == <<bl>>

(* A packet is [s, n, left]: its session, number and the bytes still to be  *)
(* read.  bl.rd: the reader is away, has found the queue empty, sleeps or   *)
(* is about to read; bl.wr: the session in which a writer has seen the      *)
(* device open; bl.fds: the descriptors of the open file (bound: one copy); *)
(* bl.rel: a release is between its two halves.  bl.cp is what the chip was *)
(* last told about its own log, or why that is not what it should have been *)
(* told.  bl.cut, history: the packets of which a part was dropped in this  *)
(* session or read before it.                                               *)
BtLogTypeOK ==
    /\ {bl.info, bl.pdata, bl.is_open, bl.bt_open, bl.rel} \subseteq BOOLEAN
    /\ bl.rd \in {"away", "empty", "sleep", "read"} /\ Len(bl.q) <= LogLimit + 1
    /\ bl.fds \in 0..2 /\ bl.wr \in 0..bl.opens /\ bl.cp \in {"on", "off", "nopdata", "crossed"}

BtLogInit == bl = [info |-> FALSE, pdata |-> FALSE, is_open |-> FALSE, bt_open |-> FALSE, q |-> <<>>, rd |-> "away",
                   wr |-> 0, cp |-> "off", got |-> <<>>, packets |-> 0, opens |-> 0, fds |-> 0, rel |-> FALSE,
                   cut |-> {}, odd |-> {}]

(* The half read packet, if there is one. *)
Half == IF bl.q = <<>> THEN {} ELSE IF Head(bl.q).left = PacketSize THEN {} ELSE {Head(bl.q).n}
(* Nobody tells the chip where there is no bluetooth_log_disable to call. *)
skwbt_log_open(b, on) == [b EXCEPT !.cp = IF ~b.pdata THEN "nopdata" ELSE IF on THEN "on" ELSE "off"]

(* BTCMD is probed or removed; BTBOOT is probed. *)
skwbt_log_port_set_pdata == \E on \in BOOLEAN : on # bl.pdata /\ bl' = [bl EXCEPT !.pdata = on]
skwbt_log_port_init == ~bl.info /\ bl' = [bl EXCEPT !.info = TRUE, !.bt_open = FALSE]

(* BTBOOT is removed: the record is freed.  Whoever still has the device    *)
(* open or is at work in it uses freed memory or a record that is not there *)
(* (the release does not look); what follows is not modelled.               *)
skwbt_log_port_exit ==
    /\ bl.info
    /\ bl' = IF bl.is_open \/ bl.wr # 0 \/ bl.rel THEN [bl EXCEPT !.info = FALSE, !.odd = @ \union {"freed"}]
             ELSE [bl EXCEPT !.info = FALSE, !.pdata = FALSE, !.q = <<>>]

(* BTBOOT is opened or closed: the chip's log follows if it is read. *)
skwbt_log_port_set_bt_open ==
    /\ bl.info /\ \E on \in BOOLEAN :
           bl' = IF bl.is_open THEN skwbt_log_open([bl EXCEPT !.bt_open = on], on) ELSE [bl EXCEPT !.bt_open = on]

skwbt_log_port_open ==
    /\ bl.info /\ ~bl.is_open /\ bl.opens < MaxLogOpens
    /\ LET b == [bl EXCEPT !.is_open = TRUE, !.opens = @ + 1, !.fds = 1, !.cut = Half,
                           !.odd = @ \union (IF bl.rel THEN {"crossed"} ELSE {})]
       IN bl' = IF bl.bt_open THEN skwbt_log_open(b, TRUE) ELSE b
DescriptorCopied == bl.fds = 1 /\ bl' = [bl EXCEPT !.fds = 2]

(* Whether the device is open and has room is seen before the packet is     *)
(* made.  (One writer at a time: more shift the order in which packets are  *)
(* logged, and pass the limit by their number.)                             *)
skwbt_log_port_data_write ==
    /\ bl.is_open /\ bl.wr = 0 /\ bl.packets < MaxLogPackets /\ Len(bl.q) <= LogLimit - 1
    /\ bl' = [bl EXCEPT !.wr = bl.opens, !.packets = @ + 1]
DataQueued ==
    /\ bl.wr # 0
    /\ bl' = [bl EXCEPT !.wr = 0, !.rd = IF @ = "sleep" THEN "read" ELSE @,
                        !.q = Append(@, [s |-> bl.wr, n |-> bl.packets, left |-> PacketSize]),
                        !.odd = @ \union (IF ~bl.is_open \/ bl.wr # bl.opens THEN {"late"} ELSE {})
                                  \union (IF bl.rd = "empty" THEN {"missed"} ELSE {})]

(* A reader with room for less than a packet gets part of it, the rest at   *)
(* the next call.                                                           *)
skwbt_log_port_data_dequeue(b, len) ==
    IF b.q = <<>> THEN b
    ELSE LET p == Head(b.q) IN
         IF len >= p.left THEN [b EXCEPT !.q = Tail(@), !.got = Append(@, [s |-> p.s, n |-> p.n, k |-> p.left])]
         ELSE [b EXCEPT !.q[1].left = @ - len, !.got = Append(@, [s |-> p.s, n |-> p.n, k |-> len])]

ReadLengths == {PacketSize, PacketSize - 1} \ {0}
skwbt_log_port_read ==
    /\ bl.is_open /\ bl.fds > 0 /\ bl.rd = "away"
    /\ IF bl.q # <<>> THEN \E len \in ReadLengths : bl' = skwbt_log_port_data_dequeue(bl, len)
       ELSE bl' = [bl EXCEPT !.rd = "empty"]
(* What has come since the queue was looked at is not noticed. *)
ReadSleeps == bl.rd = "empty" /\ bl' = [bl EXCEPT !.rd = "sleep"]
LogReadWoken == /\ bl.rd \in {"sleep", "read"} /\ \E len \in ReadLengths :
                   bl' = [skwbt_log_port_data_dequeue(bl, len) EXCEPT !.rd = "away"]

(* Every close of a descriptor empties the queue; a reader that sleeps on   *)
(* another one is not woken.                                                *)
skwbt_log_port_flush == bl.fds > 0 /\ bl' = [bl EXCEPT !.fds = @ - 1, !.q = <<>>, !.cut = @ \union Half]

(* When the last descriptor is closed and no read uses the file: the device *)
(* may be opened again from here on, before ...                             *)
skwbt_log_port_release ==
    /\ bl.is_open /\ bl.fds = 0 /\ bl.rd = "away" /\ ~bl.rel
    /\ bl' = [bl EXCEPT !.is_open = FALSE, !.rel = TRUE, !.got = <<>>, !.cut = Half]
(* ... the queue is emptied and the chip told.                              *)
ReleaseEnds ==
    /\ bl.rel
    /\ LET b == skwbt_log_open([bl EXCEPT !.rel = FALSE, !.q = <<>>, !.cut = @ \union Half], FALSE)
       IN bl' = IF bl.is_open THEN [b EXCEPT !.cp = "crossed"] ELSE b

BtLogNext ==
    /\ "freed" \notin bl.odd
    /\ \/ skwbt_log_port_set_pdata \/ skwbt_log_port_init \/ skwbt_log_port_exit
       \/ skwbt_log_port_set_bt_open \/ skwbt_log_port_open \/ DescriptorCopied
       \/ skwbt_log_port_data_write \/ DataQueued
       \/ skwbt_log_port_read \/ ReadSleeps \/ LogReadWoken
       \/ skwbt_log_port_flush \/ skwbt_log_port_release \/ ReleaseEnds
BtLogSpec == BtLogInit /\ [][BtLogNext]_blVars

(* A reader that sleeps has nothing to read, and where the device is open   *)
(* and BTBOOT as well the chip has been told to log.  Exceptions: a packet  *)
(* that comes between the look at the queue and the reset of rx_recv is     *)
(* noticed with the next one only; nobody was there to tell the chip, BTCMD *)
(* being away; an open crossed the release before it.                       *)
LogReaderServed == /\ (bl.rd = "sleep" /\ "missed" \notin bl.odd => bl.q = <<>>)
                   /\ (bl.is_open /\ bl.bt_open => bl.cp # "off")

(* What a session reads is what was logged in it, in order, without a gap   *)
(* in a packet, but for one that was half read when a copy of the           *)
(* descriptor was closed or a release ended.  (A writer that saw the device *)
(* open before it was closed leaves its packet to the next session, and so  *)
(* does a release that an open crosses.)                                    *)
LogIsWhole ==
    /\ \A i, j \in 1..Len(bl.got) : i < j => bl.got[i].n <= bl.got[j].n
    /\ \A i \in 1..Len(bl.got) - 1 :
          bl.got[i].n # bl.got[i + 1].n /\ bl.got[i].k < PacketSize /\ bl.got[i].n \notin bl.cut =>
             i > 1 /\ bl.got[i - 1].n = bl.got[i].n /\ bl.got[i - 1].k + bl.got[i].k = PacketSize
    /\ bl.odd \intersect {"late", "crossed"} = {} => \A i \in 1..Len(bl.got) : bl.got[i].s = bl.opens
=============================================================================
