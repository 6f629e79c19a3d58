---------------------------- MODULE SkwBusProofs ----------------------------
\* The two buses, for every value of the constants.  A port of the SDIO
\* driver is a channel of bytes (module SdioChannel) for a ring of any
\* length, packets of any size and any interleaving of the rx thread, the
\* reader, the sender and whoever opens the port; none of its wakeups is
\* lost, a chip that was told to be quiet will be told otherwise, and a
\* send that reports success was acknowledged.  On the link no packet goes
\* unheard, whatever interrupts, suspends and senders cross.  A USB port
\* keeps a read request in the air and loses none.  The chip is booted,
\* its services are started and it is recovered from its deaths one
\* recovery at a time over SDIO, and each death is told once over USB.
\* Each part has an inductive invariant; module SkwPlatformProofs puts
\* them together.
EXTENDS MCSkwPlatform, TLAPS, SequenceTheorems, FiniteSetTheorems, WellFoundedInduction

-----------------------------------------------------------------------------
\* The ring: the index of its i-th byte, and how many bytes there are,
\* without a remainder.

Wrapped(x) == IF x < PortLength THEN x ELSE x - PortLength
Filled(w, r) == IF w >= r THEN w - r ELSE w - r + PortLength

\* An index below twice the length is reduced by subtraction.
LEMMA Wrap ==
    ASSUME NEW x \in 0..(2 * PortLength - 1)
    PROVE  x % PortLength = Wrapped(x) /\ Wrapped(x) \in Slots
<1>1. PortLength \in Nat /\ PortLength > 3 BY PortAssumption
<1>2. CASE x < PortLength
  <2>1. x \in 0..(PortLength - 1) BY <1>1, <1>2
  <2>2. x % PortLength = x BY <1>1, <2>1, SMT
  <2> QED BY <1>2, <2>1, <2>2 DEF Wrapped, Slots
<1>3. CASE ~(x < PortLength)
  <2>1. x \in PortLength..(2 * PortLength - 1) BY <1>1, <1>3
  <2>2. x % PortLength = x - PortLength BY <1>1, <2>1, SMT
  <2> QED BY <1>1, <2>1, <2>2, <1>3 DEF Wrapped, Slots
<1> QED BY <1>2, <1>3

\* The bytes between two pointers.
LEMMA Fill ==
    ASSUME NEW w \in Slots, NEW r \in Slots
    PROVE  /\ (PortLength + w - r) % PortLength = Filled(w, r) /\ Filled(w, r) \in Slots
           /\ Filled(w, r) = 0 <=> w = r
<1>1. PortLength + w - r \in 0..(2 * PortLength - 1) BY PortAssumption DEF Slots
<1>2. Wrapped(PortLength + w - r) = Filled(w, r) BY PortAssumption DEF Wrapped, Filled, Slots
<1> QED BY <1>1, <1>2, Wrap, PortAssumption DEF Filled, Slots

\* Bytes that are copied in behind the others: skw_sdio_rx.c moves rx_wp.
LEMMA FillMore ==
    ASSUME NEW w \in Slots, NEW r \in Slots, NEW n \in 1..(PortLength - 1 - Filled(w, r)),
           NEW v, v = IF PortLength - w > n THEN w + n ELSE n - PortLength + w
    PROVE  /\ v \in Slots /\ Filled(v, r) = Filled(w, r) + n
           /\ \A i \in 1..n : Wrapped(r + (Filled(w, r) + i) - 1) = Wrapped(w + i - 1)
  BY PortAssumption DEF Slots, Filled, Wrapped

\* They are put where none of the others is.
LEMMA Apart ==
    ASSUME NEW w \in Slots, NEW r \in Slots, NEW i \in 1..Filled(w, r),
           NEW j \in 1..(PortLength - 1 - Filled(w, r))
    PROVE  Wrapped(r + i - 1) # Wrapped(w + j - 1)
  BY PortAssumption DEF Slots, Filled, Wrapped

\* Bytes that are read out in front of the others: rx_rp moves.
LEMMA FillLess ==
    ASSUME NEW w \in Slots, NEW r \in Slots, NEW n \in 1..Filled(w, r), NEW q, q = Wrapped(r + n)
    PROVE  /\ q \in Slots /\ Filled(w, q) = Filled(w, r) - n /\ (q = w <=> n = Filled(w, r))
           /\ \A i \in 1..(Filled(w, r) - n) : Wrapped(q + i - 1) = Wrapped(r + (n + i) - 1)
  BY PortAssumption DEF Slots, Filled, Wrapped

-----------------------------------------------------------------------------
\* The inductive invariant.  A packet that is being copied in waits to be
\* published where it was put, against the free space it was measured with;
\* a reader that has copied bytes out waits to take them from where it did.
\* While the channel is whole, only one of the two is in the section that
\* rx_mutex guards, that space is still free with the packet's bytes in it,
\* and the bytes that were copied are still there.

Data == 1..MaxBytes
Packets == [data : Seq(Data), ok : BOOLEAN \union (Nat \X (0..2))]
Within == {"locked", "copied"}

PointersOK ==
    /\ DOMAIN port = {"state", "rx_wp", "rx_rp", "rx_flow_ctrl", "tx_flow_ctrl", "rx_done", "tx_done"}
    /\ port.rx_wp \in Int /\ port.rx_rp \in Int /\ (portHist.torn \/ InRing)
HistoryOK == /\ DOMAIN portHist = {"torn", "late", "acked", "reopened", "asserted", "ruled", "unlifted"}
             /\ portHist.torn \in BOOLEAN
RingOK == DOMAIN portRing = Slots
WireOK == /\ portWire \in Seq(Packets) /\ portSender.i \in 0..2 /\ (portSender.pc = "wait" => portSender.i < 2)
          /\ DOMAIN portSender = {"pc", "i", "ret"} /\ DOMAIN portCount = {"bytes", "sends", "opens", "faults"}
          /\ portCount.bytes \in Nat /\ portCount.sends \in Nat /\ portCount.opens \in Nat
HandlerOK ==
    Publishing => /\ portHandler = <<"publish", portHandler[2], portHandler[3], portHandler[4]>>
                  /\ portHandler[2] \in 1..(PortLength - 1) /\ portHandler[3] \in Nat /\ portHandler[4] \in Slots
CopyOK ==
    Publishing /\ ~portHist.torn =>
        /\ portReader \notin Within /\ portHandler[4] = port.rx_wp
        /\ portHandler[3] = BufSize /\ portHandler[2] <= BufSize
        /\ \A i \in 1..portHandler[2] : portRing[Wrapped(port.rx_wp + i - 1)] \in Data
TakeOK == /\ portTake.rp \in Slots /\ portTake.n \in Slots
          /\ portReader = "copied" /\ ~portHist.torn => portTake.rp = port.rx_rp /\ portTake.n \in 1..Used
ContentsOK == ~portHist.torn => \A i \in 1..Used : portRing[Wrapped(port.rx_rp + i - 1)] \in Data
PortInv == /\ PointersOK /\ HistoryOK /\ RingOK /\ WireOK /\ HandlerOK /\ CopyOK /\ TakeOK /\ ContentsOK
           /\ NoLostWakeup /\ StoppedHasData

-----------------------------------------------------------------------------
\* The bytes of the ring between two pointers, as a sequence.
Segment(ring, r, n) == [i \in 1..n |-> ring[(r + i - 1) % PortLength]]

\* A segment of the ring is a sequence of what is in the ring.
LEMMA SegmentSeq ==
    ASSUME NEW ring, NEW r \in Slots, NEW n \in Slots, \A i \in 1..n : ring[Wrapped(r + i - 1)] \in Data
    PROVE  /\ Segment(ring, r, n) \in Seq(Data) /\ Len(Segment(ring, r, n)) = n
           /\ \A i \in 1..n : Segment(ring, r, n)[i] = ring[Wrapped(r + i - 1)]
<1>1. \A i \in 1..n : (r + i - 1) % PortLength = Wrapped(r + i - 1)
  <2>1. \A i \in 1..n : r + i - 1 \in 0..(2 * PortLength - 1) BY PortAssumption DEF Slots
  <2> QED BY <2>1, Wrap
<1>2. Segment(ring, r, n) \in [1..n -> Data] /\ n \in Nat
  <2>1. \A i \in 1..n : ring[(r + i - 1) % PortLength] \in Data BY <1>1
  <2>2. n \in Nat BY PortAssumption DEF Slots
  <2> QED BY <2>1, <2>2 DEF Segment
<1>3. Segment(ring, r, n) \in Seq(Data) BY <1>2, SeqDef
<1>4. Len(Segment(ring, r, n)) = n
  <2>1. DOMAIN Segment(ring, r, n) = 1..n BY DEF Segment
  <2> QED BY <1>2, <1>3, <2>1, LenProperties
<1> QED BY <1>1, <1>3, <1>4 DEF Segment

\* What is there stays in front when bytes are added behind.
LEMMA SegmentPut ==
    ASSUME NEW ring, NEW r \in Slots, NEW u \in Slots, NEW v \in Slots, u < v,
           \A i \in 1..v : ring[Wrapped(r + i - 1)] \in Data
    PROVE  /\ Len(Segment(ring, r, u)) = u /\ Len(Segment(ring, r, v)) = v
           /\ SubSeq(Segment(ring, r, v), 1, u) = Segment(ring, r, u)
           /\ \A i \in 1..v : Segment(ring, r, v)[i] \in Data
<1> DEFINE old == Segment(ring, r, u)
           new == Segment(ring, r, v)
<1>1. u \in Nat /\ v \in Nat /\ \A i \in 1..u : i \in 1..v BY PortAssumption DEF Slots
<1>2. old \in Seq(Data) /\ Len(old) = u /\ \A i \in 1..u : old[i] = ring[Wrapped(r + i - 1)]
  BY <1>1, SegmentSeq
<1>3. new \in Seq(Data) /\ Len(new) = v /\ \A i \in 1..v : new[i] = ring[Wrapped(r + i - 1)]
  BY SegmentSeq
<1> HIDE DEF old, new
<1>4. \A i \in 1..v : new[i] \in Data BY <1>3
<1>5. /\ SubSeq(new, 1, u) \in Seq(Data) /\ Len(SubSeq(new, 1, u)) = u
      /\ \A i \in 1..u : SubSeq(new, 1, u)[i] = new[i]
  <2>1. \A i \in 1..u : new[i] \in Data BY <1>1, <1>4
  <2>2. /\ SubSeq(new, 1, u) \in Seq(Data) /\ Len(SubSeq(new, 1, u)) = IF 1 <= u THEN u - 1 + 1 ELSE 0
        /\ \A i \in 1..(u - 1 + 1) : SubSeq(new, 1, u)[i] = new[1 + i - 1]
    BY <1>1, <2>1, SubSeqProperties
  <2> QED BY <1>1, <2>2
<1>6. SubSeq(new, 1, u) = old
  <2>1. \A i \in 1..u : SubSeq(new, 1, u)[i] = old[i] BY <1>1, <1>2, <1>3, <1>5
  <2> QED BY <1>2, <1>5, <2>1, SeqEqual
<1> QED BY <1>2, <1>3, <1>4, <1>6 DEF old, new

\* What is left moves to the front when n bytes are taken there.
LEMMA SegmentGet ==
    ASSUME NEW ring, NEW r \in Slots, NEW q \in Slots, NEW u \in Slots, NEW v \in Slots, v < u,
           \A i \in 1..u : ring[Wrapped(r + i - 1)] \in Data,
           \A i \in 1..v : Wrapped(q + i - 1) = Wrapped(r + (u - v + i) - 1)
    PROVE  /\ Len(Segment(ring, r, u)) = u /\ Len(Segment(ring, q, v)) = v
           /\ SubSeq(Segment(ring, r, u), u - v + 1, u) = Segment(ring, q, v)
           /\ \A i \in 1..v : ring[Wrapped(q + i - 1)] \in Data
<1> DEFINE old == Segment(ring, r, u)
           new == Segment(ring, q, v)
           n == u - v
<1>1. u \in Nat /\ v \in Nat /\ n \in Nat /\ u - v + 1 = n + 1 /\ \A i \in 1..v : n + i \in 1..u
  BY PortAssumption DEF Slots
<1>2. old \in Seq(Data) /\ Len(old) = u /\ \A i \in 1..u : old[i] = ring[Wrapped(r + i - 1)]
  BY SegmentSeq
<1>3. \A i \in 1..v : ring[Wrapped(q + i - 1)] \in Data BY <1>1
<1>4. new \in Seq(Data) /\ Len(new) = v /\ \A i \in 1..v : new[i] = ring[Wrapped(q + i - 1)]
  BY <1>3, SegmentSeq
<1>5. \A i \in 1..v : Wrapped(q + i - 1) = Wrapped(r + (n + i) - 1) OBVIOUS
<1> HIDE DEF old, new, n
<1>6. /\ SubSeq(old, n + 1, u) \in Seq(Data) /\ Len(SubSeq(old, n + 1, u)) = v
      /\ \A i \in 1..v : SubSeq(old, n + 1, u)[i] = old[n + i]
  <2>1. \A i \in (n + 1)..u : old[i] \in Data
    <3>1. \A i \in (n + 1)..u : i \in 1..u BY <1>1
    <3> QED BY <1>2, <3>1
  <2>2. /\ SubSeq(old, n + 1, u) \in Seq(Data)
        /\ Len(SubSeq(old, n + 1, u)) = IF n + 1 <= u THEN u - (n + 1) + 1 ELSE 0
        /\ \A i \in 1..(u - (n + 1) + 1) : SubSeq(old, n + 1, u)[i] = old[(n + 1) + i - 1]
    BY <1>1, <2>1, SubSeqProperties
  <2>3. v = u - (n + 1) + 1 /\ (~(n + 1 <= u) => v = 0) /\ \A i \in 1..v : (n + 1) + i - 1 = n + i
    BY <1>1
  <2> QED BY <2>2, <2>3
<1>7. SubSeq(old, n + 1, u) = new
  <2>1. ASSUME NEW i \in 1..v PROVE SubSeq(old, n + 1, u)[i] = new[i]
    <3>1. SubSeq(old, n + 1, u)[i] = old[n + i] /\ n + i \in 1..u BY <1>1, <1>6
    <3>2. old[n + i] = ring[Wrapped(r + (n + i) - 1)] BY <1>2, <3>1
    <3>3. new[i] = ring[Wrapped(q + i - 1)] BY <1>4
    <3> QED BY <1>5, <3>1, <3>2, <3>3
  <2> QED BY <1>4, <1>6, <2>1, SeqEqual
<1> QED BY <1>1, <1>2, <1>3, <1>4, <1>7 DEF old, new

\* What the remainders in Used and Contents are.
LEMMA UsedIs ==
    ASSUME InRing
    PROVE  Used = Filled(port.rx_wp, port.rx_rp) /\ Used \in Slots /\ (Used = 0 <=> port.rx_wp = port.rx_rp)
  BY Fill DEF InRing, Used

\* A step that leaves the ring, its pointers, the handler and what was copied alone.
LEMMA Still ==
    ASSUME PortInv, DOMAIN port' = DOMAIN port, port'.rx_wp = port.rx_wp, port'.rx_rp = port.rx_rp,
           UNCHANGED <<portRing, portHandler, portTake>>, HistoryOK', portHist'.torn = portHist.torn,
           portReader' \in Within => portReader' = portReader \/ (portReader' = "locked" /\ (~Publishing \/ portHist.torn))
    PROVE  /\ PointersOK' /\ HistoryOK' /\ RingOK' /\ HandlerOK' /\ CopyOK' /\ TakeOK' /\ ContentsOK'
           /\ Used' = Used /\ Contents' = Contents
<1>1. Used' = Used /\ Contents' = Contents /\ BufSize' = BufSize BY DEF Used, Contents, BufSize
<1>2. PointersOK' /\ RingOK' BY DEF PortInv, PointersOK, RingOK, InRing
<1>3. HandlerOK' BY DEF PortInv, HandlerOK, Publishing
<1>4. CopyOK' /\ ContentsOK' BY <1>1 DEF PortInv, CopyOK, ContentsOK, Publishing
<1>5. TakeOK' BY <1>1 DEF PortInv, TakeOK, Within
<1> QED BY <1>1, <1>2, <1>3, <1>4, <1>5

\* With the wire, the wakeups and the flow control, that is a step of the channel.
LEMMA StillStep ==
    ASSUME PortInv, DOMAIN port' = DOMAIN port, port'.rx_wp = port.rx_wp, port'.rx_rp = port.rx_rp,
           UNCHANGED <<portRing, portHandler, portTake>>, HistoryOK', portHist'.torn = portHist.torn,
           portReader' \in Within => portReader' = portReader \/ (portReader' = "locked" /\ (~Publishing \/ portHist.torn)),
           WireOK', NoLostWakeup',
           portReg' /\ ~portHist'.unlifted => portReg /\ ~portHist.unlifted,
           portReg' /\ ~portHist'.unlifted => port'.rx_flow_ctrl = port.rx_flow_ctrl,
           portHist.reopened => portHist'.reopened
    PROVE  PortInv' /\ [Channel!ChannelNext]_<<Contents, portHist.torn>>
<1>1. /\ PointersOK' /\ HistoryOK' /\ RingOK' /\ HandlerOK' /\ CopyOK' /\ TakeOK' /\ ContentsOK'
      /\ Used' = Used /\ Contents' = Contents
  BY Still
<1>2. StoppedHasData' BY <1>1 DEF PortInv, StoppedHasData
<1> QED BY <1>1, <1>2 DEF PortInv

-----------------------------------------------------------------------------

\* Opening empties the ring of a service's port, leaves that of another, or tears the channel.
LEMMA OpenStep ==
    ASSUME PortInv, InRing, open_sdio_port
    PROVE  PortInv' /\ [Channel!ChannelNext]_<<Contents, portHist.torn>>
<1> DEFINE z == portKind = "data"
<1>1. /\ DOMAIN port' = DOMAIN port /\ port'.rx_wp = (IF z THEN 0 ELSE port.rx_wp)
      /\ port'.rx_rp = (IF z THEN 0 ELSE port.rx_rp) /\ port'.rx_flow_ctrl = FALSE
      /\ UNCHANGED <<portRing, portHandler, portTake, portSender, portWire, portReg>>
      /\ portCount' = [portCount EXCEPT !.opens = @ + 1] /\ portReader' # "wait"
      /\ portReader' \in Within => portReader \in Within
  BY DEF open_sdio_port, PortInv, PointersOK, Within
<1>2. HistoryOK' /\ (portHist'.torn <=> portHist.torn \/ Publishing \/ portReader \in Within)
      /\ (portHist'.reopened <=> portHist.reopened \/ portReg)
  BY DEF open_sdio_port, PortInv, HistoryOK, InSection, Within
<1> HIDE DEF z
<1>3. PointersOK' /\ RingOK' /\ HandlerOK'
  BY <1>1, PortAssumption DEF PortInv, PointersOK, RingOK, HandlerOK, Publishing, InRing, Slots
<1>4. ~z => Used' = Used /\ Contents' = Contents BY <1>1 DEF Used, Contents
<1>5. z => Used' = 0
  <2> SUFFICES ASSUME z PROVE Used' = 0 OBVIOUS
  <2>1. Used' = (PortLength + 0 - 0) % PortLength BY <1>1 DEF Used
  <2>2. 0 \in Slots BY PortAssumption DEF Slots
  <2> QED BY <2>1, <2>2, Fill
<1>6. WireOK' BY <1>1 DEF PortInv, WireOK
<1>7. CopyOK' /\ TakeOK'
  BY <1>1, <1>2 DEF PortInv, CopyOK, TakeOK, Publishing, Within
<1>8. ContentsOK'
  <2>1. CASE z BY <1>5, <2>1 DEF ContentsOK
  <2>2. CASE ~z BY <1>1, <1>2, <1>4, <2>2 DEF PortInv, ContentsOK
  <2> QED BY <2>1, <2>2
<1>9. NoLostWakeup' /\ StoppedHasData' BY <1>1, <1>2 DEF NoLostWakeup, StoppedHasData
<1>10. z => Contents' = <<>> BY <1>5 DEF Contents
<1>11. [Channel!ChannelNext]_<<Contents, portHist.torn>>
  <2>1. CASE portHist'.torn BY <2>1 DEF Channel!ChannelNext
  <2>2. CASE ~portHist'.torn /\ z BY <1>10, <2>2 DEF Channel!ChannelNext, Channel!Clear
  <2>3. CASE ~portHist'.torn /\ ~z
    <3>1. portHist'.torn = portHist.torn
      BY <2>3 DEF open_sdio_port, PortInv, HistoryOK
    <3> QED BY <1>4, <2>3, <3>1
  <2> QED BY <2>1, <2>2, <2>3
<1> QED BY <1>2, <1>3, <1>6, <1>7, <1>8, <1>9, <1>11 DEF PortInv

\* A packet that is copied in is not yet part of what is in the ring.
LEMMA DataStep ==
    ASSUME PortInv, InRing, NEW d \in Seq(Data), d # <<>>, PacketData(d), portHandler = <<>>,
           portReader \notin Within \/ portHist.torn,
           UNCHANGED <<portReader, portTake, portSender, portReg, portCount>>, WireOK'
    PROVE  PortInv' /\ [Channel!ChannelNext]_<<Contents, portHist.torn>>
<1>0. /\ PointersOK /\ Used = Filled(port.rx_wp, port.rx_rp) /\ Used \in Slots
      /\ BufSize = PortLength - 1 - Used /\ BufSize \in 0..(PortLength - 1)
      /\ port.rx_wp \in Slots /\ port.rx_rp \in Slots
  BY UsedIs, PortAssumption DEF PortInv, BufSize, Slots, InRing
<1>1. CASE UNCHANGED <<port, portRing, portHandler, portHist>>
  <2>1. NoLostWakeup' /\ HistoryOK' BY <1>1 DEF PortInv, NoLostWakeup, HistoryOK
  <2> QED BY <1>1, <2>1, StillStep
<1>2. CASE ~UNCHANGED <<port, portRing, portHandler, portHist>>
  <2>1. /\ BufSize >= Len(d) /\ UNCHANGED <<port, portHist>>
        /\ portRing' = [b \in Slots |->
                         IF \E i \in 1..Len(d) : b = (port.rx_wp + i - 1) % PortLength
                         THEN d[CHOOSE i \in 1..Len(d) : b = (port.rx_wp + i - 1) % PortLength]
                         ELSE portRing[b]]
        /\ portHandler' = <<"publish", Len(d), BufSize, port.rx_wp>>
    <3>1. ~(port.state = "IDLE" \/ BufSize < Len(d)) /\ CopiedIn(d) BY <1>2 DEF PacketData
    <3>2. BufSize >= Len(d) BY <1>0, <3>1, LenProperties
    <3> QED BY <3>1, <3>2 DEF CopiedIn
  <2>2. Len(d) \in 1..BufSize BY <1>0, <2>1, EmptySeq
  <2>3. \A i \in 1..Len(d) : /\ (port.rx_wp + i - 1) % PortLength = Wrapped(port.rx_wp + i - 1)
                             /\ Wrapped(port.rx_wp + i - 1) \in Slots
    <3>1. \A i \in 1..Len(d) : port.rx_wp + i - 1 \in 0..(2 * PortLength - 1)
      BY <1>0, <2>2, PortAssumption DEF Slots
    <3> QED BY <3>1, Wrap
  <2>4. \A i \in 1..Len(d) : portRing'[Wrapped(port.rx_wp + i - 1)] \in Data
    <3> SUFFICES ASSUME NEW i \in 1..Len(d) PROVE portRing'[Wrapped(port.rx_wp + i - 1)] \in Data
      OBVIOUS
    <3> DEFINE b == Wrapped(port.rx_wp + i - 1)
               k == CHOOSE j \in 1..Len(d) : b = (port.rx_wp + j - 1) % PortLength
    <3>1. \E j \in 1..Len(d) : b = (port.rx_wp + j - 1) % PortLength BY <2>3
    <3>2. k \in 1..Len(d) BY <3>1
    <3>3. portRing'[b] = d[k] BY <2>1, <2>3, <3>1
    <3> QED BY <3>2, <3>3, ElementOfSeq
  <2>5. \A i \in 1..Used : portRing'[Wrapped(port.rx_rp + i - 1)] = portRing[Wrapped(port.rx_rp + i - 1)]
    <3> SUFFICES ASSUME NEW i \in 1..Used
                 PROVE  portRing'[Wrapped(port.rx_rp + i - 1)] = portRing[Wrapped(port.rx_rp + i - 1)]
      OBVIOUS
    <3>1. \A j \in 1..Len(d) : Wrapped(port.rx_rp + i - 1) # Wrapped(port.rx_wp + j - 1)
      BY <1>0, <2>2, Apart
    <3>2. Wrapped(port.rx_rp + i - 1) \in Slots
      <4>1. port.rx_rp + i - 1 \in 0..(2 * PortLength - 1)
        BY <1>0, PortAssumption DEF Slots
      <4> QED BY <4>1, Wrap
    <3>3. \A j \in 1..Len(d) : Wrapped(port.rx_rp + i - 1) # (port.rx_wp + j - 1) % PortLength
      BY <2>3, <3>1
    <3> HIDE <3>1
    <3> QED BY <2>1, <3>2, <3>3
  <2>6. Used' = Used /\ BufSize' = BufSize BY <2>1 DEF Used, BufSize
  <2>7. Contents' = Contents
    <3>1. \A i \in 1..Used : (port.rx_rp + i - 1) % PortLength = Wrapped(port.rx_rp + i - 1)
      <4>1. \A i \in 1..Used : port.rx_rp + i - 1 \in 0..(2 * PortLength - 1)
        BY <1>0, PortAssumption DEF Slots
      <4> QED BY <4>1, Wrap
    <3> QED BY <2>1, <2>5, <2>6, <3>1 DEF Contents
  <2>8. PointersOK' /\ HistoryOK' /\ RingOK'
    BY <2>1 DEF PortInv, PointersOK, HistoryOK, RingOK, InRing
  <2>9. HandlerOK' /\ TakeOK'
    <3>1. Len(d) \in 1..(PortLength - 1) /\ BufSize \in Nat BY <1>0, <2>2, PortAssumption
    <3>2. portHandler'[2] = Len(d) /\ portHandler'[3] = BufSize /\ portHandler'[4] = port.rx_wp
          /\ portHandler' = <<"publish", Len(d), BufSize, port.rx_wp>>
      BY <2>1
    <3>3. HandlerOK' BY <1>0, <3>1, <3>2 DEF HandlerOK
    <3> QED BY <2>1, <2>6, <3>3 DEF PortInv, TakeOK
  <2>10. CopyOK' BY <1>0, <2>1, <2>2, <2>4, <2>6 DEF CopyOK
  <2>11. ContentsOK' BY <2>1, <2>5, <2>6 DEF PortInv, ContentsOK
  <2>12. NoLostWakeup' /\ StoppedHasData' BY <2>1, <2>6, <1>0 DEF PortInv, NoLostWakeup, StoppedHasData
  <2> QED BY <2>1, <2>7, <2>8, <2>9, <2>10, <2>11, <2>12 DEF PortInv
<1> QED BY <1>1, <1>2

\* rx_wp follows: the packet's bytes join those in the ring, all at once.
LEMMA PublishStep ==
    ASSUME PortInv, InRing, NEW ok, PortPublish(ok)
    PROVE  PortInv' /\ [Channel!ChannelNext]_<<Contents, portHist.torn>>
<1> DEFINE n == portHandler[2]
           stop == ~port.rx_flow_ctrl /\ portHandler[3] - n < PortLength \div 3
           v == IF PortLength - port.rx_wp > n THEN port.rx_wp + n ELSE n - PortLength + port.rx_wp
<1>0. /\ PointersOK /\ Used = Filled(port.rx_wp, port.rx_rp) /\ Used \in Slots
      /\ BufSize = PortLength - 1 - Used /\ PortLength \in Nat /\ PortLength > 3
      /\ port.rx_wp \in Slots /\ port.rx_rp \in Slots
  BY UsedIs, PortAssumption DEF PortInv, BufSize, InRing
<1>1. /\ Publishing /\ n \in 1..(PortLength - 1) /\ portHandler[3] \in Nat /\ portHandler[4] \in Slots
      /\ portHandler' = <<"complete">>
      /\ UNCHANGED <<portRing, portReader, portTake, portSender, portWire>>
  BY DEF PortPublish, PortInv, HandlerOK
<1>h. ~Publishing' BY <1>1 DEF Publishing
<1>2. PICK wp \in Advance(portHandler[4], n) : port' = [port EXCEPT !.rx_wp = wp, !.rx_flow_ctrl = @ \/ stop]
  BY DEF PortPublish
<1>3. wp \in Int /\ (portHandler[4] = port.rx_wp => wp = v)
  <2>1. PICK b \in {portHandler[4], port.rx_wp} :
          wp = b + n - (IF PortLength - portHandler[4] > n THEN 0 ELSE PortLength)
    BY <1>2 DEF Advance
  <2>2. b \in Int /\ n \in Int /\ portHandler[4] \in Int BY <1>0, <1>1, <2>1 DEF Slots
  <2> HIDE DEF n
  <2>3. wp \in Int BY <2>1, <2>2, PortAssumption
  <2>4. ASSUME portHandler[4] = port.rx_wp PROVE wp = v
    <3>1. b = port.rx_wp /\ portHandler[4] = port.rx_wp BY <2>1, <2>4
    <3>2. wp = port.rx_wp + n - (IF PortLength - port.rx_wp > n THEN 0 ELSE PortLength) BY <2>1, <3>1
    <3>3. port.rx_wp \in Int /\ PortLength \in Int BY <2>2, <2>4, PortAssumption
    <3> QED BY <2>2, <3>2, <3>3
  <2> QED BY <2>3, <2>4
<1>4. /\ DOMAIN port' = DOMAIN port /\ port'.rx_wp = wp /\ port'.rx_rp = port.rx_rp
      /\ port'.rx_flow_ctrl = (port.rx_flow_ctrl \/ stop)
  BY <1>0, <1>2 DEF PointersOK
<1>5. /\ HistoryOK' /\ portHist'.torn = portHist.torn /\ portHist'.reopened = portHist.reopened
      /\ ~stop => portReg' = portReg /\ portHist'.unlifted = portHist.unlifted
      /\ DOMAIN portCount' = DOMAIN portCount /\ portCount'.bytes = portCount.bytes
      /\ portCount'.sends = portCount.sends /\ portCount'.opens = portCount.opens
  <2>1. /\ \/ portHist' = portHist
           \/ \E u, r : portHist' = [portHist EXCEPT !.unlifted = u, !.ruled = r]
        /\ portCount' = portCount \/ \E f : portCount' = [portCount EXCEPT !.faults = f]
        /\ ~stop => portReg' = portReg /\ portHist' = portHist
    <3>1. IF stop THEN skw_sdio_rx_port_follow_ctl(TRUE, ok) ELSE UNCHANGED <<portReg, portCount, portHist>>
      BY DEF PortPublish
    <3> HIDE DEF stop
    <3>2. CASE ~stop BY <3>1, <3>2
    <3>3. CASE stop BY <3>1, <3>3 DEF skw_sdio_rx_port_follow_ctl
    <3> QED BY <3>2, <3>3
  <2> HIDE DEF stop
  <2>2. HistoryOK' /\ portHist'.torn = portHist.torn /\ portHist'.reopened = portHist.reopened
    BY <2>1 DEF PortInv, HistoryOK
  <2>3. DOMAIN portCount' = DOMAIN portCount /\ portCount'.bytes = portCount.bytes
        /\ portCount'.sends = portCount.sends /\ portCount'.opens = portCount.opens
    BY <2>1 DEF PortInv, WireOK
  <2> QED BY <2>1, <2>2, <2>3
<1>6. RingOK' /\ HandlerOK' /\ CopyOK' /\ WireOK'
  BY <1>1, <1>h, <1>5 DEF PortInv, RingOK, HandlerOK, CopyOK, WireOK
<1>7. NoLostWakeup' BY <1>1 DEF NoLostWakeup
<1>8. CASE portHist.torn
  <2>1. PointersOK' /\ TakeOK' BY <1>0, <1>1, <1>3, <1>4, <1>5, <1>8 DEF PortInv, PointersOK, TakeOK
  <2> QED BY <1>5, <1>6, <1>7, <1>8, <2>1 DEF PortInv, ContentsOK, StoppedHasData, Channel!ChannelNext
<1>9. CASE ~portHist.torn
  <2>0. wp = v /\ portReader \notin Within BY <1>1, <1>3, <1>9 DEF PortInv, CopyOK
  <2>1. /\ n \in 1..(PortLength - 1 - Used) /\ portHandler[3] = PortLength - 1 - Used
        /\ \A i \in 1..n : portRing[Wrapped(port.rx_wp + i - 1)] \in Data
        /\ \A i \in 1..Used : portRing[Wrapped(port.rx_rp + i - 1)] \in Data
    BY <1>0, <1>1, <1>9 DEF PortInv, CopyOK, ContentsOK
  <2>2. /\ Filled(v, port.rx_rp) = Used + n /\ v \in Slots
        /\ \A i \in 1..n : Wrapped(port.rx_rp + (Used + i) - 1) = Wrapped(port.rx_wp + i - 1)
    BY <1>0, <2>1, FillMore
  <2>3. Used' = Used + n /\ Used' \in Slots
    <3>1. Used' = (PortLength + v - port.rx_rp) % PortLength BY <1>4, <2>0 DEF Used
    <3> QED BY <1>0, <2>2, <3>1, Fill
  <2>4. \A i \in 1..Used' : portRing[Wrapped(port.rx_rp + i - 1)] \in Data
    <3> SUFFICES ASSUME NEW i \in 1..Used', ~(i \in 1..Used)
                 PROVE  portRing[Wrapped(port.rx_rp + i - 1)] \in Data
      BY <2>1
    <3>1. i - Used \in 1..n /\ Used + (i - Used) = i BY <1>0, <2>1, <2>3 DEF Slots
    <3> QED BY <2>1, <2>2, <3>1
  <2>5. ContentsOK' /\ PointersOK' /\ TakeOK'
    BY <1>0, <1>1, <1>4, <1>5, <2>0, <2>2, <2>4 DEF ContentsOK, PortInv, PointersOK, TakeOK, InRing, Within, Slots
  <2>6. StoppedHasData'
    <3>1. CASE stop
      <4>1. Used' >= PortLength - 1 - (PortLength * 2) \div 3
        BY <1>0, <1>1, <2>1, <2>3, <3>1 DEF Slots
      <4> HIDE DEF stop
      <4> QED BY <1>4, <3>1, <4>1 DEF StoppedHasData
    <3>2. CASE ~stop
      <4>1. Used' >= Used /\ Used \in Int /\ Used' \in Int BY <1>0, <1>1, <2>3 DEF Slots
      <4>2. (PortLength * 2) \div 3 \in Int BY <1>0
      <4> HIDE DEF stop, n, v
      <4>3. portHist'.reopened = portHist.reopened /\ portHist'.torn = portHist.torn
            /\ portReg' = portReg /\ portHist'.unlifted = portHist.unlifted
        BY <1>5, <3>2
      <4>4. port.rx_flow_ctrl => port'.rx_flow_ctrl BY <1>4
      <4>5. (portReg /\ ~portHist.reopened /\ ~portHist.torn /\ ~portHist.unlifted)' =>
               port.rx_flow_ctrl /\ Used >= PortLength - 1 - (PortLength * 2) \div 3
        BY <4>3 DEF PortInv, StoppedHasData
      <4> QED BY <1>0, <4>1, <4>2, <4>4, <4>5 DEF StoppedHasData
    <3> QED BY <3>1, <3>2
  <2>7. Channel!Put
    <3>1. Contents = Segment(portRing, port.rx_rp, Used) /\ Contents' = Segment(portRing, port.rx_rp, Used')
      BY <1>1, <1>4 DEF Contents, Segment
    <3>2. Used < Used' /\ Used' <= PortLength - 1 /\ port.rx_rp \in Slots
      BY <1>0, <1>1, <2>1, <2>3 DEF Slots
    <3>3. /\ Len(Contents) = Used /\ Len(Contents') = Used' /\ SubSeq(Contents', 1, Used) = Contents
          /\ \A i \in 1..Used' : Contents'[i] \in Data
      <4> DEFINE u == Used
                 v2 == Used'
                 r == port.rx_rp
                 ring == portRing
      <4>1. /\ r \in Slots /\ u \in Slots /\ v2 \in Slots /\ u < v2
            /\ \A i \in 1..v2 : ring[Wrapped(r + i - 1)] \in Data
        BY <1>0, <2>3, <2>4, <3>2
      <4>2. Contents = Segment(ring, r, u) /\ Contents' = Segment(ring, r, v2) BY <3>1
      <4> HIDE DEF u, v2, r, ring
      <4>3. /\ Len(Segment(ring, r, u)) = u /\ Len(Segment(ring, r, v2)) = v2
            /\ SubSeq(Segment(ring, r, v2), 1, u) = Segment(ring, r, u)
            /\ \A i \in 1..v2 : Segment(ring, r, v2)[i] \in Data
        BY <4>1, SegmentPut
      <4>4. /\ Len(Contents) = u /\ Len(Contents') = v2 /\ SubSeq(Contents', 1, u) = Contents
            /\ \A i \in 1..v2 : Contents'[i] \in Data
        BY <4>2, <4>3
      <4> QED BY <4>4 DEF u, v2
    <3> QED BY <1>5, <1>9, <3>2, <3>3 DEF Channel!Put, Data
  <2> QED BY <1>5, <1>6, <1>7, <2>5, <2>6, <2>7 DEF PortInv, Channel!ChannelNext
<1> QED BY <1>8, <1>9

\* The reader copies the first bytes ...
LEMMA ReadStep ==
    ASSUME PortInv, InRing, NEW size \in {1, PortLength}, sdio_read(size)
    PROVE  PortInv' /\ [Channel!ChannelNext]_<<Contents, portHist.torn>>
<1>1. /\ portReader = "locked" /\ portReader' = (IF Used = 0 THEN "again" ELSE "copied")
      /\ UNCHANGED <<port, portRing, portHandler, portSender, portWire, portReg, portCount, portHist>>
      /\ portTake' = IF Used = 0 THEN portTake
                     ELSE [rp |-> port.rx_rp, n |-> IF size > Used THEN Used ELSE size]
  BY DEF sdio_read, ReaderStep
<1>2. WireOK' /\ NoLostWakeup' /\ HistoryOK' BY <1>1 DEF PortInv, WireOK, NoLostWakeup, HistoryOK
<1>3. CASE Used = 0 BY <1>1, <1>2, <1>3, StillStep DEF Within
<1>4. CASE Used # 0
  <2>1. Used \in Slots /\ port.rx_rp \in Slots BY UsedIs DEF InRing
  <2>2. portTake'.rp = port.rx_rp /\ portTake'.n \in 1..Used /\ portTake'.n \in Slots
    BY <1>1, <1>4, <2>1, PortAssumption DEF Slots
  <2>3. Used' = Used /\ Contents' = Contents /\ BufSize' = BufSize BY <1>1 DEF Used, Contents, BufSize
  <2>4. PointersOK' /\ RingOK' /\ HandlerOK' /\ ContentsOK' /\ StoppedHasData'
    BY <1>1, <2>3 DEF PortInv, PointersOK, RingOK, HandlerOK, ContentsOK, StoppedHasData, Publishing, InRing
  <2>5. TakeOK' BY <1>1, <2>1, <2>2, <2>3 DEF TakeOK
  <2>6. CopyOK' BY <1>1 DEF PortInv, CopyOK, Publishing, Within
  <2> QED BY <1>2, <2>3, <2>4, <2>5, <2>6, <1>1 DEF PortInv
<1> QED BY <1>3, <1>4

\* ... and takes them; an empty ring starts at its beginning.
LEMMA TakenStep ==
    ASSUME PortInv, InRing, NEW ok, ReadTaken(ok)
    PROVE  PortInv' /\ [Channel!ChannelNext]_<<Contents, portHist.torn>>
<1> DEFINE n == portTake.n
           q == Wrapped(port.rx_rp + n)
<1>0. /\ PointersOK /\ Used = Filled(port.rx_wp, port.rx_rp) /\ Used \in Slots
      /\ PortLength \in Nat /\ PortLength > 3 /\ port.rx_wp \in Slots /\ port.rx_rp \in Slots
  BY UsedIs, PortAssumption DEF PortInv, InRing
<1>1. /\ portReader = "copied" /\ portReader' = "idle" /\ portTake.rp \in Slots /\ portTake.n \in Slots
      /\ portTake' = [rp |-> 0, n |-> 0]
      /\ UNCHANGED <<portRing, portHandler, portSender, portWire>>
  BY DEF ReadTaken, ReaderStep, PortInv, TakeOK
<1>2. PICK rp \in Taken(portTake.rp, n) :
        LET empty == rp = port.rx_wp
            used == IF empty THEN 0 ELSE (PortLength + port.rx_wp - rp) % PortLength
            go == port.rx_flow_ctrl /\ PortLength - 1 - used > (PortLength * 2) \div 3 IN
        /\ port' = [port EXCEPT !.rx_rp = IF empty THEN 0 ELSE rp, !.rx_wp = IF empty THEN 0 ELSE @,
                                !.rx_flow_ctrl = @ /\ ~go]
        /\ IF go THEN skw_sdio_rx_port_follow_ctl(FALSE, ok)
           ELSE ok /\ UNCHANGED <<portReg, portCount, portHist>>
  BY DEF ReadTaken
<1> DEFINE empty == rp = port.rx_wp
           used == IF empty THEN 0 ELSE (PortLength + port.rx_wp - rp) % PortLength
           go == port.rx_flow_ctrl /\ PortLength - 1 - used > (PortLength * 2) \div 3
<1>3. /\ port' = [port EXCEPT !.rx_rp = IF empty THEN 0 ELSE rp, !.rx_wp = IF empty THEN 0 ELSE @,
                              !.rx_flow_ctrl = @ /\ ~go]
      /\ IF go THEN skw_sdio_rx_port_follow_ctl(FALSE, ok) ELSE UNCHANGED <<portReg, portCount, portHist>>
  BY <1>2
<1>4. rp \in Int /\ (portTake.rp = port.rx_rp => rp = q)
  <2>1. n \in Int /\ n >= 0 /\ n < PortLength /\ portTake.rp \in Int BY <1>0, <1>1 DEF Slots
  <2> HIDE DEF n
  <2>2. CASE n > PortLength - portTake.rp
    <3>1. rp = n - (PortLength - portTake.rp) BY <1>2, <2>2 DEF Taken
    <3> QED BY <1>0, <2>1, <2>2, <3>1 DEF Wrapped, Slots
  <2>3. CASE ~(n > PortLength - portTake.rp)
    <3>1. PICK b \in {portTake.rp, port.rx_rp} : rp = IF b + n = PortLength THEN 0 ELSE b + n
      BY <1>2, <2>3 DEF Taken
    <3> QED BY <1>0, <2>1, <2>3, <3>1 DEF Wrapped, Slots
  <2> QED BY <2>2, <2>3
<1> HIDE DEF empty, used, go, n, q
<1>5. /\ DOMAIN port' = DOMAIN port /\ port'.rx_rp = (IF empty THEN 0 ELSE rp)
      /\ port'.rx_wp = (IF empty THEN 0 ELSE port.rx_wp) /\ port'.rx_flow_ctrl = (port.rx_flow_ctrl /\ ~go)
  BY <1>0, <1>3 DEF PointersOK
<1>6. /\ HistoryOK' /\ portHist'.torn = portHist.torn /\ portHist'.reopened = portHist.reopened
      /\ portReg' /\ ~portHist'.unlifted => ~go /\ portReg /\ ~portHist.unlifted
      /\ DOMAIN portCount' = DOMAIN portCount /\ portCount'.bytes = portCount.bytes
      /\ portCount'.sends = portCount.sends /\ portCount'.opens = portCount.opens
  <2>1. CASE ~go BY <1>3, <2>1 DEF PortInv, HistoryOK, WireOK
  <2>2. CASE go
    <3>1. /\ \E r : portHist' = [portHist EXCEPT !.unlifted = portReg' /\ ~FALSE, !.ruled = r]
          /\ \E f : portCount' = [portCount EXCEPT !.faults = f]
      BY <1>3, <2>2 DEF skw_sdio_rx_port_follow_ctl
    <3>2. HistoryOK' /\ portHist'.torn = portHist.torn /\ portHist'.reopened = portHist.reopened
      BY <3>1 DEF PortInv, HistoryOK
    <3>3. portHist'.unlifted = (portReg' /\ ~FALSE) BY <3>1 DEF PortInv, HistoryOK
    <3>4. DOMAIN portCount' = DOMAIN portCount /\ portCount'.bytes = portCount.bytes
          /\ portCount'.sends = portCount.sends /\ portCount'.opens = portCount.opens
      BY <3>1 DEF PortInv, WireOK
    <3> QED BY <3>2, <3>3, <3>4
  <2> QED BY <2>1, <2>2
<1>7. RingOK' /\ WireOK' /\ HandlerOK' /\ NoLostWakeup'
  BY <1>1, <1>6 DEF PortInv, RingOK, WireOK, HandlerOK, NoLostWakeup, Publishing
<1>8. TakeOK' BY <1>1, PortAssumption DEF TakeOK, Slots
<1>9. CASE portHist.torn
  <2>1. PointersOK' /\ CopyOK' BY <1>0, <1>4, <1>5, <1>6, <1>9 DEF PointersOK, CopyOK
  <2> QED BY <1>6, <1>7, <1>8, <1>9, <2>1 DEF PortInv, ContentsOK, StoppedHasData, Channel!ChannelNext
<1>10. CASE ~portHist.torn
  <2>1. n \in 1..Used /\ rp = q /\ ~Publishing /\ n \in Nat
    BY <1>0, <1>1, <1>4, <1>10 DEF PortInv, TakeOK, CopyOK, Within, n, Slots
  <2>3. /\ q \in Slots /\ Filled(port.rx_wp, q) = Used - n /\ (q = port.rx_wp <=> n = Used)
        /\ \A i \in 1..(Used - n) : Wrapped(q + i - 1) = Wrapped(port.rx_rp + (n + i) - 1)
    BY <1>0, <2>1, FillLess DEF q
  <2>4. used = Used - n
    <3>1. q # port.rx_wp => (PortLength + port.rx_wp - q) % PortLength = Filled(port.rx_wp, q) BY <1>0, <2>3, Fill
    <3>2. CASE q = port.rx_wp BY <1>0, <2>1, <2>3, <3>2 DEF used, empty, Slots
    <3>3. CASE q # port.rx_wp BY <2>1, <2>3, <3>1, <3>3 DEF used, empty
    <3> QED BY <3>2, <3>3
  <2>5. /\ port'.rx_rp = (IF q = port.rx_wp THEN 0 ELSE q)
        /\ port'.rx_wp = (IF q = port.rx_wp THEN 0 ELSE port.rx_wp)
    BY <1>5, <2>1 DEF empty
  <2>7. PointersOK' /\ InRing' /\ CopyOK'
    BY <1>0, <1>1, <1>5, <2>1, <2>3, <2>5 DEF PointersOK, CopyOK, Publishing, InRing, Slots
  <2>8. Used' = Used - n /\ Used' \in Slots
    <3>1. Used' = (PortLength + port'.rx_wp - port'.rx_rp) % PortLength BY DEF Used
    <3>2. Used' = Filled(port'.rx_wp, port'.rx_rp) /\ Used' \in Slots
      BY <2>7, <3>1, Fill DEF InRing
    <3>3. CASE q = port.rx_wp BY <1>0, <2>1, <2>3, <2>5, <3>2, <3>3 DEF Filled, Slots
    <3>4. CASE q # port.rx_wp BY <2>3, <2>5, <3>2, <3>4
    <3> QED BY <3>3, <3>4
  <2>9. Used \in Nat /\ Used' \in Nat /\ n \in Nat /\ Used' < Used /\ n = Used - Used' /\ Used <= PortLength - 1
    BY <1>0, <2>1, <2>8 DEF Slots
  <2>10. \A i \in 1..Used' : Wrapped(port'.rx_rp + i - 1) = Wrapped(port.rx_rp + (n + i) - 1)
    <3>1. CASE q = port.rx_wp
      <4>1. Used' = 0 BY <1>0, <2>1, <2>3, <2>8, <3>1 DEF Slots
      <4> QED BY <4>1
    <3>2. CASE q # port.rx_wp BY <2>3, <2>5, <2>8, <3>2
    <3> QED BY <3>1, <3>2
  <2>11. StoppedHasData'
    <3> DEFINE most == (PortLength * 2) \div 3
    <3>1. most \in Int BY <1>0
    <3> HIDE DEF most
    <3>3. port.rx_flow_ctrl /\ ~go => Used' >= PortLength - 1 - most
      BY <1>0, <2>4, <2>8, <2>9, <3>1 DEF go, most
    <3> QED BY <1>5, <1>6, <3>3 DEF PortInv, StoppedHasData, most
  <2>12. PortInv' /\ [Channel!ChannelNext]_<<Contents, portHist.torn>>
    <3>1. \A i \in 1..Used : portRing[Wrapped(port.rx_rp + i - 1)] \in Data
      BY <1>10 DEF PortInv, ContentsOK
    <3>2. Contents = Segment(portRing, port.rx_rp, Used) /\ Contents' = Segment(portRing, port'.rx_rp, Used')
      BY <1>1 DEF Contents, Segment
    <3>3. port.rx_rp \in Slots /\ port'.rx_rp \in Slots BY <1>0, <2>7 DEF InRing
    <3>4. /\ Len(Contents) = Used /\ Len(Contents') = Used'
          /\ SubSeq(Contents, Used - Used' + 1, Used) = Contents'
          /\ \A i \in 1..Used' : portRing[Wrapped(port'.rx_rp + i - 1)] \in Data
      <4>1. PICK r \in Slots, f \in Slots, u \in Slots, v \in Slots :
              r = port.rx_rp /\ f = port'.rx_rp /\ u = Used /\ v = Used'
        BY <1>0, <2>8, <3>3
      <4>2. v < u /\ n = u - v BY <2>9, <4>1
      <4>3. \A i \in 1..v : Wrapped(f + i - 1) = Wrapped(r + (u - v + i) - 1) BY <2>10, <4>1, <4>2
      <4>4. \A i \in 1..u : portRing[Wrapped(r + i - 1)] \in Data BY <3>1, <4>1
      <4>5. /\ Len(Segment(portRing, r, u)) = u /\ Len(Segment(portRing, f, v)) = v
            /\ SubSeq(Segment(portRing, r, u), u - v + 1, u) = Segment(portRing, f, v)
            /\ \A i \in 1..v : portRing[Wrapped(f + i - 1)] \in Data
        BY <4>2, <4>3, <4>4, SegmentGet
      <4> QED BY <3>2, <4>1, <4>5
    <3>5. ContentsOK' BY <1>1, <3>4 DEF ContentsOK
    <3>6. Channel!Get BY <1>6, <1>10, <2>9, <3>4 DEF Channel!Get
    <3> QED BY <1>6, <1>7, <1>8, <2>7, <2>11, <3>5, <3>6 DEF PortInv, Channel!ChannelNext
  <2> QED BY <2>12
<1> QED BY <1>9, <1>10

-----------------------------------------------------------------------------

\* Every step keeps the invariant and is a step of the channel.
LEMMA PortStep == PortInv /\ [PortNext]_portVars => PortInv' /\ [Channel!ChannelNext]_<<Contents, portHist.torn>>
<1> SUFFICES ASSUME PortInv, [PortNext]_portVars
             PROVE  PortInv' /\ [Channel!ChannelNext]_<<Contents, portHist.torn>>
  OBVIOUS
<1>0. PointersOK /\ HistoryOK /\ WireOK /\ NoLostWakeup BY DEF PortInv
<1>r. ~UNCHANGED portVars => InRing BY DEF PortNext
<1>1. CASE InRing /\ open_sdio_port BY <1>1, OpenStep
<1>2. CASE close_sdio_port
  <2>1. /\ DOMAIN port' = DOMAIN port /\ port'.rx_wp = port.rx_wp /\ port'.rx_rp = port.rx_rp
        /\ port'.rx_flow_ctrl = port.rx_flow_ctrl /\ port'.rx_done
        /\ UNCHANGED <<portRing, portHandler, portReader, portTake, portSender, portWire, portReg, portCount, portHist>>
    BY <1>0, <1>2 DEF close_sdio_port, PointersOK
  <2>2. WireOK' /\ NoLostWakeup' /\ HistoryOK' BY <1>0, <2>1 DEF WireOK, NoLostWakeup, HistoryOK
  <2> QED BY <2>1, <2>2, StillStep
<1>3. CASE PortAssert
  <2>1. /\ DOMAIN port' = DOMAIN port /\ port'.rx_wp = port.rx_wp /\ port'.rx_rp = port.rx_rp
        /\ port'.rx_flow_ctrl = port.rx_flow_ctrl /\ (port'.rx_done = port.rx_done \/ port'.rx_done = TRUE)
    <3>1. CASE port' = port BY <3>1
    <3>2. CASE \E t : port' = [port EXCEPT !.state = "ASST", !.rx_done = TRUE, !.tx_done = t]
      BY <1>0, <3>2 DEF PointersOK
    <3> QED BY <1>3, <3>1, <3>2 DEF PortAssert
  <2>2. /\ UNCHANGED <<portRing, portHandler, portReader, portTake, portSender, portWire, portReg>>
        /\ portCount' = [portCount EXCEPT !.opens = @ + 1] /\ portHist' = [portHist EXCEPT !.asserted = TRUE]
    BY <1>3 DEF PortAssert
  <2>3. HistoryOK' /\ portHist'.torn = portHist.torn /\ portHist'.reopened = portHist.reopened
        /\ portHist'.unlifted = portHist.unlifted
    BY <1>0, <2>2 DEF HistoryOK
  <2>4. WireOK' BY <1>0, <2>2 DEF WireOK
  <2>5. NoLostWakeup' BY <1>0, <2>1, <2>2 DEF NoLostWakeup
  <2> QED BY <2>1, <2>2, <2>3, <2>4, <2>5, StillStep
<1>4. CASE PortReady \/ OtherPortWrites
  <2>1. /\ DOMAIN port' = DOMAIN port /\ port'.rx_wp = port.rx_wp /\ port'.rx_rp = port.rx_rp
        /\ port'.rx_flow_ctrl = port.rx_flow_ctrl /\ port'.rx_done = port.rx_done
        /\ UNCHANGED <<portRing, portHandler, portReader, portTake, portSender, portWire>>
    BY <1>0, <1>4 DEF PortReady, OtherPortWrites, PointersOK
  <2>2. /\ HistoryOK' /\ portHist'.torn = portHist.torn /\ portHist'.reopened = portHist.reopened
        /\ portReg' /\ ~portHist'.unlifted => portReg /\ ~portHist.unlifted
    BY <1>0, <1>4 DEF PortReady, OtherPortWrites, HistoryOK
  <2>3. WireOK'
    <3>1. portCount' = portCount \/ portCount' = [portCount EXCEPT !.faults = @ + 1]
      BY <1>4 DEF PortReady, OtherPortWrites
    <3> QED BY <1>0, <2>1, <3>1 DEF WireOK
  <2>4. NoLostWakeup' BY <1>0, <2>1 DEF NoLostWakeup
  <2> QED BY <2>1, <2>2, <2>3, <2>4, StillStep
<1>5. CASE \E n \in 1..MaxPacket, ok \in BOOLEAN : CpSend(n, ok)
  <2>1. PICK n \in 1..MaxPacket, ok \in BOOLEAN : CpSend(n, ok) BY <1>5
  <2>2. /\ UNCHANGED <<port, portRing, portHandler, portReader, portTake, portSender, portReg, portHist>>
        /\ portCount.bytes + n <= MaxBytes /\ portCount' = [portCount EXCEPT !.bytes = @ + n]
        /\ portWire' = Append(portWire, [data |-> [i \in 1..n |-> portCount.bytes + i], ok |-> ok])
    BY <2>1 DEF CpSend
  <2> DEFINE d == [i \in 1..n |-> portCount.bytes + i]
  <2>3. d \in Seq(Data)
    <3>1. n \in Nat /\ \A i \in 1..n : portCount.bytes + i \in 1..MaxBytes
      BY SMTT(20), <1>0, <2>2, PortAssumption DEF WireOK
    <3>2. d \in [1..n -> Data] BY <3>1 DEF Data
    <3> QED BY <3>1, <3>2, SeqDef
  <2> HIDE DEF d
  <2>4. [data |-> d, ok |-> ok] \in Packets BY <2>3 DEF Packets
  <2>5. WireOK' BY <1>0, <2>2, <2>4, PortAssumption DEF WireOK, d
  <2>6. NoLostWakeup' /\ HistoryOK' BY <1>0, <2>2 DEF NoLostWakeup, HistoryOK
  <2> QED BY <2>2, <2>5, <2>6, StillStep
<1>6. CASE InRing /\ PortPacket
  <2> DEFINE p == Head(portWire)
  <2>1. /\ portHandler = <<>> /\ portWire # <<>> /\ portWire' = Tail(portWire)
        /\ portReader \notin Within \/ portHist.torn
        /\ \/ p.data = <<>> /\ PacketAck(p)
           \/ p.data # <<>> /\ PacketData(p.data)
           \/ UNCHANGED <<port, portRing, portHandler, portHist>>
        /\ UNCHANGED <<portReader, portTake, portSender, portReg, portCount>>
    BY <1>6 DEF Within, PortPacket, skw_sdio_handle_packet, skw_sdio2_handle_packet
  <2>2. p \in Packets /\ portWire' \in Seq(Packets) BY <1>0, <2>1, HeadTailProperties DEF WireOK
  <2>3. p.data \in Seq(Data) /\ WireOK' BY <1>0, <2>1, <2>2 DEF WireOK, Packets
  <2> HIDE DEF p
  <2>4. CASE PacketAck(p)
    <3>1. /\ DOMAIN port' = DOMAIN port /\ port'.rx_wp = port.rx_wp /\ port'.rx_rp = port.rx_rp
          /\ port'.rx_flow_ctrl = port.rx_flow_ctrl /\ port'.rx_done = port.rx_done
          /\ UNCHANGED <<portRing, portHandler>>
      BY <1>0, <2>4 DEF PacketAck, PointersOK
    <3>2. HistoryOK' /\ portHist'.torn = portHist.torn /\ portHist'.reopened = portHist.reopened
          /\ portHist'.unlifted = portHist.unlifted
      <4>1. \E late : portHist' = [portHist EXCEPT !.acked = TRUE, !.late = late]
        BY <2>4 DEF PacketAck
      <4> QED BY <1>0, <4>1 DEF HistoryOK
    <3>3. NoLostWakeup' BY <1>0, <2>1, <3>1 DEF NoLostWakeup
    <3> QED BY <2>1, <2>3, <3>1, <3>2, <3>3, StillStep
  <2>5. CASE p.data # <<>> /\ PacketData(p.data) BY <1>6, <2>1, <2>3, <2>5, DataStep
  <2>6. CASE UNCHANGED <<port, portRing, portHandler, portHist>>
    <3>1. NoLostWakeup' /\ HistoryOK' BY <1>0, <2>1, <2>6 DEF NoLostWakeup, HistoryOK
    <3> QED BY <2>1, <2>3, <2>6, <3>1, StillStep
  <2> QED BY <2>1, <2>4, <2>5, <2>6
<1>7. CASE InRing /\ \E ok \in BOOLEAN : PortPublish(ok) BY <1>7, PublishStep
<1>8. CASE PortComplete
  <2>1. /\ DOMAIN port' = DOMAIN port /\ port'.rx_wp = port.rx_wp /\ port'.rx_rp = port.rx_rp
        /\ port'.rx_flow_ctrl = port.rx_flow_ctrl /\ port'.rx_done
        /\ ~Publishing /\ ~Publishing'
        /\ UNCHANGED <<portRing, portReader, portTake, portSender, portWire, portReg, portCount, portHist>>
    BY <1>0, <1>8 DEF PortComplete, PointersOK, Publishing
  <2>2. Used' = Used /\ Contents' = Contents BY <2>1 DEF Used, Contents
  <2>3. PointersOK' /\ HistoryOK' /\ RingOK' /\ HandlerOK' /\ CopyOK' /\ TakeOK' /\ WireOK'
    BY <2>1, <2>2 DEF PortInv, PointersOK, HistoryOK, RingOK, HandlerOK, CopyOK, TakeOK, WireOK, InRing
  <2>4. ContentsOK' /\ NoLostWakeup' /\ StoppedHasData'
    BY <2>1, <2>2 DEF PortInv, ContentsOK, NoLostWakeup, StoppedHasData
  <2> QED BY <2>1, <2>2, <2>3, <2>4 DEF PortInv
<1>9. CASE recv_data \/ ReadAsserted \/ (\E ok \in BOOLEAN : ReadAgain(ok)) \/ ReadWait \/ ReadInterrupted \/ ReadWoken
  <2>1. /\ DOMAIN port' = DOMAIN port /\ port'.rx_wp = port.rx_wp /\ port'.rx_rp = port.rx_rp
        /\ port'.rx_flow_ctrl = port.rx_flow_ctrl
    <3>1. CASE port' = port BY <3>1
    <3>2. CASE port' = [port EXCEPT !.rx_done = FALSE] \/ \E t : port' = [port EXCEPT !.state = t]
      BY <1>0, <3>2 DEF PointersOK
    <3> QED
      BY <1>9, <3>1, <3>2 DEF recv_data, ReadAsserted, ReadAgain, ReadWait, ReadInterrupted, ReadWoken, FoundDead
  <2>2. /\ UNCHANGED <<portRing, portHandler, portTake, portSender, portWire, portReg, portCount, portHist>>
        /\ portReader' \in Within => portReader' = "locked" /\ (~Publishing \/ portHist.torn)
        /\ portReader' = "wait" => port.rx_wp = port.rx_rp
    BY <1>9 DEF recv_data, ReadAsserted, ReadAgain, ReadWait, ReadInterrupted, ReadWoken, ReaderStands, ReaderStep,
       Within
  <2>3. NoLostWakeup' BY <2>1, <2>2 DEF NoLostWakeup
  <2>4. WireOK' /\ HistoryOK' BY <1>0, <2>2 DEF WireOK, HistoryOK
  <2> QED BY <2>1, <2>2, <2>3, <2>4, StillStep
<1>10. CASE InRing /\ \E size \in {1, PortLength} : sdio_read(size) BY <1>10, ReadStep
<1>13. CASE InRing /\ \E ok \in BOOLEAN : ReadTaken(ok) BY <1>13, TakenStep
<1>11. CASE send_data \/ SendAcked \/ SendTimeout \/ \E answer, fails \in BOOLEAN : SendTry(answer, fails)
  <2>1. /\ DOMAIN port' = DOMAIN port /\ port'.rx_wp = port.rx_wp /\ port'.rx_rp = port.rx_rp
        /\ port'.rx_flow_ctrl = port.rx_flow_ctrl /\ port'.rx_done = port.rx_done
    <3>1. CASE port' = port BY <3>1
    <3>2. CASE port' = [port EXCEPT !.tx_done = FALSE] \/ port' = [port EXCEPT !.state = "IDLE"]
      BY <1>0, <3>2 DEF PointersOK
    <3>3. CASE port' = [port EXCEPT !.tx_flow_ctrl = @ + 1] \/ port' = [port EXCEPT !.tx_flow_ctrl = @ - 1]
      BY <1>0, <3>3 DEF PointersOK
    <3> QED BY <1>11, <3>1, <3>2, <3>3 DEF send_data, SendAcked, SendTimeout, SendTry
  <2>2. UNCHANGED <<portRing, portHandler, portReader, portTake, portReg>>
    BY <1>11 DEF send_data, SendAcked, SendTimeout, SendTry, SenderStep
  <2>3. portHist' = portHist \/ portHist' = [portHist EXCEPT !.acked = FALSE]
    BY <1>11 DEF send_data, SendAcked, SendTimeout, SendTry
  <2>4. HistoryOK' /\ portHist'.torn = portHist.torn /\ portHist'.reopened = portHist.reopened
        /\ portHist'.unlifted = portHist.unlifted
    BY <1>0, <2>3 DEF HistoryOK
  <2>5. portWire' = portWire \/ portWire' = Append(portWire, [data |-> <<>>, ok |-> ThisTry])
    BY <1>11 DEF send_data, SendAcked, SendTimeout, SendTry
  <2>6. portWire' \in Seq(Packets)
    <3>1. ThisTry \in Nat \X (0..2) /\ <<>> \in Seq(Data) BY <1>0 DEF WireOK, ThisTry
    <3>2. [data |-> <<>>, ok |-> ThisTry] \in Packets BY <3>1 DEF Packets
    <3> QED BY <1>0, <2>5, <3>2 DEF WireOK
  <2>7. portCount' = portCount \/ portCount' = [portCount EXCEPT !.sends = @ + 1]
    BY <1>11 DEF send_data, SendAcked, SendTimeout, SendTry
  <2>8. portSender'.i \in 0..2 /\ (portSender'.pc = "wait" => portSender'.i < 2) /\ DOMAIN portSender' = DOMAIN portSender
    <3> DEFINE S == portSender
    <3>0. S.i \in 0..2 /\ DOMAIN S = {"pc", "i", "ret"} /\ (S.pc = "wait" => S.i < 2)
      BY <1>0 DEF WireOK
    <3>1. \/ portSender' = [pc |-> "loop", i |-> 0, ret |-> "none"]
          \/ \E ret \in {"eio", "zero", "size"} : portSender' = [S EXCEPT !.pc = "idle", !.ret = ret]
          \/ S.pc = "idle" /\ portSender' = [S EXCEPT !.ret = "eio"]
          \/ S.i < 2 /\ S.pc = "loop" /\ portSender' = [S EXCEPT !.i = @ + 1]
          \/ S.i < 2 /\ portSender' = [S EXCEPT !.pc = "wait"]
          \/ S.pc = "wait" /\ portSender' = [S EXCEPT !.pc = "loop", !.i = @ + 1]
      <4>1. CASE send_data BY <4>1 DEF send_data, SenderStep
      <4>2. CASE SendAcked BY <4>2 DEF SendAcked, SenderStep
      <4>3. CASE SendTimeout BY <4>3 DEF SendTimeout, SenderStep
      <4>4. CASE \E answer, fails \in BOOLEAN : SendTry(answer, fails)
        <5>1. PICK answer \in BOOLEAN, fails \in BOOLEAN : SendTry(answer, fails) BY <4>4
        <5>2. CASE S.i = 2 \/ portCp BY <5>1, <5>2 DEF SendTry, SenderStep
        <5>3. CASE S.i < 2 /\ ~portCp BY <5>1, <5>3 DEF SendTry, SenderStep
        <5> QED BY <3>0, <5>2, <5>3
      <4> QED BY <1>11, <4>1, <4>2, <4>3, <4>4
    <3>2. /\ S.i + 1 \in Int /\ (S.i < 2 => S.i + 1 \in 0..2) BY <3>0
    <3>3. CASE portSender' = [pc |-> "loop", i |-> 0, ret |-> "none"] BY <3>0, <3>3
    <3>4. CASE \E ret \in {"eio", "zero", "size"} : portSender' = [S EXCEPT !.pc = "idle", !.ret = ret]
      BY <3>0, <3>4
    <3>5. CASE S.pc = "idle" /\ portSender' = [S EXCEPT !.ret = "eio"] BY <3>0, <3>5
    <3>6. CASE S.i < 2 /\ S.pc = "loop" /\ portSender' = [S EXCEPT !.i = @ + 1] BY <3>0, <3>2, <3>6
    <3>7. CASE S.i < 2 /\ portSender' = [S EXCEPT !.pc = "wait"] BY <3>0, <3>7
    <3>8. CASE S.pc = "wait" /\ portSender' = [S EXCEPT !.pc = "loop", !.i = @ + 1]
      BY <3>0, <3>2, <3>8
    <3> QED BY <3>1, <3>3, <3>4, <3>5, <3>6, <3>7, <3>8
  <2>9. WireOK' BY <1>0, <2>6, <2>7, <2>8 DEF WireOK
  <2>10. NoLostWakeup' BY <1>0, <2>1, <2>2 DEF NoLostWakeup
  <2> QED BY <2>1, <2>2, <2>4, <2>9, <2>10, StillStep
<1>12. CASE UNCHANGED portVars
  <2>1. WireOK' /\ HistoryOK' /\ NoLostWakeup'
    BY <1>0, <1>12 DEF portVars, WireOK, HistoryOK, NoLostWakeup
  <2> QED BY <1>12, <2>1, StillStep DEF portVars
<1> QED BY <1>r, <1>1, <1>2, <1>3, <1>4, <1>5, <1>6, <1>7, <1>8, <1>9, <1>10, <1>11, <1>12, <1>13 DEF PortNext

\* The initial state satisfies the invariant, with an empty channel.
LEMMA PortBegin == PortInit => PortInv /\ Channel!ChannelInit
<1> SUFFICES ASSUME PortInit PROVE PortInv /\ Channel!ChannelInit OBVIOUS
<1>1. /\ DOMAIN port = {"state", "rx_wp", "rx_rp", "rx_flow_ctrl", "tx_flow_ctrl", "rx_done", "tx_done"}
      /\ port.rx_wp = 0 /\ port.rx_rp = 0
  BY DEF PortInit
<1>2. PointersOK /\ Used = 0
  <2>1. InRing BY <1>1, PortAssumption DEF InRing, Slots
  <2> QED BY <1>1, <2>1, UsedIs DEF PointersOK
<1>3. HistoryOK /\ RingOK /\ ~portHist.torn BY DEF PortInit, HistoryOK, RingOK
<1>4. WireOK /\ TakeOK BY PortAssumption DEF PortInit, WireOK, TakeOK, Slots
<1>5. HandlerOK /\ CopyOK /\ ContentsOK /\ NoLostWakeup /\ StoppedHasData
  BY <1>1, <1>2 DEF PortInit, HandlerOK, CopyOK, ContentsOK, NoLostWakeup, StoppedHasData, Publishing
<1>6. Contents = <<>> /\ portHist.torn = FALSE BY <1>2 DEF PortInit, Contents
<1> QED BY <1>2, <1>3, <1>4, <1>5, <1>6 DEF PortInv, Channel!ChannelInit

\* skw_sdio_rx.c: whatever the rx thread, the reader and the sender do, the
\* ring of a port is a channel of bytes.  They arrive whole, leave in order
\* and none is invented, as long as the port is not opened in the middle of
\* a packet.
THEOREM PortIsChannel == PortSpec => RingIsChannel
  BY PortBegin, PortStep, PTL DEF PortSpec, RingIsChannel, Channel!ChannelSpec

\* A reader of a port does not sleep on bytes: rx_done is cleared before
\* rx_wp is looked at and set after it was moved.
THEOREM ReaderWakes == PortSpec => []NoLostWakeup
  BY PortBegin, PortStep, PTL DEF PortSpec, PortInv

\* A chip that was told to be quiet on a port has filled its ring so far
\* that the reader will take the flow control back.
THEOREM QuietHasData == PortSpec => []StoppedHasData
  BY PortBegin, PortStep, PTL DEF PortSpec, PortInv

-----------------------------------------------------------------------------
\* What a send of an SDIO port is told of its acknowledgement.

\* A send is answered: the types of the port's fields, the answers on the
\* wire, each to a try that was made, and to the present one at most one;
\* and what tx_flow_ctrl counts, which is whether that answer is due.
PortShape ==
    /\ skw_cp_ver \in {"V10", "V20"} /\ portKind \in {"at", "log", "data"}
    /\ port.state \in {"IDLE", "OPEN", "CLSE", "ASST"}
    /\ port.rx_flow_ctrl \in BOOLEAN /\ port.rx_done \in BOOLEAN /\ port.tx_done \in BOOLEAN
    /\ port.tx_flow_ctrl \in Int /\ portCp \in BOOLEAN
    /\ portReader \in {"idle", "read", "again", "wait", "stranded", "woken", "locked", "copied"}
    /\ portSender.pc \in {"idle", "loop", "wait"} /\ portSender.ret \in {"none", "size", "zero", "eio"}
    /\ portHist.late \in BOOLEAN /\ portHist.acked \in BOOLEAN /\ portHist.asserted \in BOOLEAN
PortRecord == port = [f \in DOMAIN port |-> port[f]]
RingTyped == portRing \in [Slots -> 0..MaxBytes]
Answers(p, t) == p.data = <<>> /\ p.ok = t
Earlier(p, n, i) == p.data = <<>> => p.ok \in Nat \X (0..2) /\ (p.ok[1] < n \/ (p.ok[1] = n /\ p.ok[2] <= i))
Known(w, n, i) == \A k \in 1..Len(w) : Earlier(w[k], n, i)
NoAnswer(w, t) == \A k \in 1..Len(w) : ~Answers(w[k], t)
OneAnswer(w, t) == \A k, l \in 1..Len(w) : Answers(w[k], t) /\ Answers(w[l], t) => k = l
AnswersOK == /\ Known(portWire, portCount.sends, portSender.i)
             /\ portSender.pc = "loop" => NoAnswer(portWire, ThisTry)
             /\ portSender.pc = "wait" => OneAnswer(portWire, ThisTry)
InTime == ~portHist.late /\ ~portHist.asserted
AnswerDue ==
    /\ port.state = "ASST" => portHist.asserted
    /\ InTime /\ port.tx_done => portHist.acked
    /\ InTime /\ portSender.pc = "loop" => ~port.tx_done
    /\ InTime /\ portSender.pc # "wait" => port.tx_flow_ctrl = 0
    /\ InTime /\ portSender.pc = "wait" =>
          IF port.tx_done THEN port.tx_flow_ctrl = 0 /\ NoAnswer(portWire, ThisTry)
          ELSE port.tx_flow_ctrl = 1
AckInv == PortShape /\ RingTyped /\ AnswersOK /\ AnswerDue /\ SuccessIsAcked

\* The wire when a packet is taken from it, when one is put on it, and for a later try.
LEMMA WireTail ==
    ASSUME NEW w \in Seq(Packets), w # <<>>
    PROVE  /\ Tail(w) \in Seq(Packets) /\ Head(w) \in Packets
           /\ \A n, i : Known(w, n, i) => Known(Tail(w), n, i)
           /\ \A t : NoAnswer(w, t) => NoAnswer(Tail(w), t) /\ ~Answers(Head(w), t)
           /\ \A t : OneAnswer(w, t) => OneAnswer(Tail(w), t)
           /\ \A t : OneAnswer(w, t) /\ Answers(Head(w), t) => NoAnswer(Tail(w), t)
<1>1. /\ Tail(w) \in Seq(Packets) /\ Len(Tail(w)) = Len(w) - 1 /\ Len(w) \in Nat /\ Len(w) > 0
      /\ Head(w) = w[1] /\ Head(w) \in Packets /\ \A k \in 1..Len(Tail(w)) : Tail(w)[k] = w[k + 1]
  OBVIOUS
<1>2. 1 \in 1..Len(w) /\ \A k \in 1..Len(Tail(w)) : k + 1 \in 1..Len(w) /\ k + 1 # 1 BY <1>1
<1>3. \A n, i : Known(w, n, i) => Known(Tail(w), n, i) BY <1>1, <1>2 DEF Known
<1>4. \A t : NoAnswer(w, t) => NoAnswer(Tail(w), t) /\ ~Answers(Head(w), t) BY <1>1, <1>2 DEF NoAnswer
<1>5. ASSUME NEW t, OneAnswer(w, t)
      PROVE  OneAnswer(Tail(w), t) /\ (Answers(Head(w), t) => NoAnswer(Tail(w), t))
  <2>1. ASSUME NEW k \in 1..Len(Tail(w)), NEW l \in 1..Len(Tail(w)), Answers(Tail(w)[k], t), Answers(Tail(w)[l], t) PROVE k = l
    <3>1. k + 1 = l + 1 BY <1>1, <1>2, <1>5, <2>1 DEF OneAnswer
    <3> QED BY <3>1
  <2>2. Answers(Head(w), t) => NoAnswer(Tail(w), t) BY <1>1, <1>2, <1>5 DEF OneAnswer, NoAnswer
  <2> QED BY <2>1, <2>2 DEF OneAnswer
<1> QED BY <1>1, <1>3, <1>4, <1>5

\* What is sent after it disturbs no answer on the wire, and adds the next.
LEMMA WireMore ==
    ASSUME NEW w \in Seq(Packets), NEW v
    PROVE  /\ \A n, i : Known(w, n, i) /\ Earlier(v, n, i) => Known(Append(w, v), n, i)
           /\ \A t : NoAnswer(w, t) /\ ~Answers(v, t) => NoAnswer(Append(w, v), t)
           /\ \A t : OneAnswer(w, t) /\ ~Answers(v, t) => OneAnswer(Append(w, v), t)
           /\ \A t : NoAnswer(w, t) => OneAnswer(Append(w, v), t)
<1> DEFINE a == Append(w, v)
<1>1. /\ Len(a) = Len(w) + 1 /\ Len(w) \in Nat /\ a[Len(w) + 1] = v
      /\ \A k \in 1..Len(a) : (k \in 1..Len(w) /\ a[k] = w[k]) \/ k = Len(w) + 1
  OBVIOUS
<1> HIDE DEF a
<1>2. \A n, i : Known(w, n, i) /\ Earlier(v, n, i) => Known(a, n, i) BY <1>1 DEF Known
<1>3. \A t : NoAnswer(w, t) /\ ~Answers(v, t) => NoAnswer(a, t) BY <1>1 DEF NoAnswer
<1>4. \A t : OneAnswer(w, t) /\ ~Answers(v, t) => OneAnswer(a, t) BY <1>1 DEF OneAnswer
<1>5. \A t : NoAnswer(w, t) => OneAnswer(a, t) BY <1>1 DEF OneAnswer, NoAnswer
<1> QED BY <1>2, <1>3, <1>4, <1>5 DEF a

\* A later number of the port or of a packet is not yet answered.
LEMMA WireLater ==
    ASSUME NEW w, NEW n \in Nat, NEW i \in Nat, Known(w, n, i), NEW j \in Nat
    PROVE  /\ Known(w, n + 1, j) /\ NoAnswer(w, <<n + 1, j>>)
           /\ Known(w, n, i + 1) /\ NoAnswer(w, <<n, i + 1>>)
<1>1. ASSUME NEW p, Earlier(p, n, i)
      PROVE  Earlier(p, n + 1, j) /\ ~Answers(p, <<n + 1, j>>) /\ Earlier(p, n, i + 1) /\ ~Answers(p, <<n, i + 1>>)
  <2>1. CASE p.data # <<>> BY <2>1 DEF Earlier, Answers
  <2>2. CASE p.data = <<>>
    <3> DEFINE x == p.ok[1]
               y == p.ok[2]
    <3>1. x \in Nat /\ y \in Nat /\ p.ok \in Nat \X (0..2) /\ (x < n \/ (x = n /\ y <= i))
      BY <1>1, <2>2 DEF Earlier
    <3>2. p.ok = <<n + 1, j>> => x = n + 1 OBVIOUS
    <3>3. p.ok = <<n, i + 1>> => x = n /\ y = i + 1 OBVIOUS
    <3>4. (x < n + 1 \/ (x = n + 1 /\ y <= j)) /\ (x < n \/ (x = n /\ y <= i + 1)) /\ x # n + 1 /\ ~(x = n /\ y = i + 1)
      BY <3>1
    <3> QED BY <3>1, <3>2, <3>3, <3>4 DEF Earlier, Answers
  <2> QED BY <2>1, <2>2
<1> QED BY <1>1 DEF Known, NoAnswer

\* ... for the try the sender is at.
LEMMA ThisTryLater ==
    ASSUME WireOK, AnswersOK
    PROVE  /\ portCount.sends \in Nat /\ portSender.i \in Nat
           /\ \A j \in Nat : Known(portWire, portCount.sends + 1, j) /\ NoAnswer(portWire, <<portCount.sends + 1, j>>)
           /\ Known(portWire, portCount.sends, portSender.i + 1) /\ NoAnswer(portWire, <<portCount.sends, portSender.i + 1>>)
<1> DEFINE w == portWire
           s == portCount.sends
           t == portSender.i
<1>1. s \in Nat /\ t \in Nat /\ Known(w, s, t) BY DEF WireOK, AnswersOK
<1> HIDE DEF w, s, t
<1>2. \A j \in Nat : Known(w, s + 1, j) /\ NoAnswer(w, <<s + 1, j>>) BY <1>1, WireLater
<1>3. Known(w, s, t + 1) /\ NoAnswer(w, <<s, t + 1>>) BY <1>1, WireLater
<1> QED BY <1>1, <1>2, <1>3 DEF w, s, t

\* Steps that neither send nor answer: the answers on the wire and what is due stay.
Quiet ==
    /\ UNCHANGED <<chipVars, portRing, portSender, portWire>> /\ portCount'.sends = portCount.sends
    /\ port'.state \in {"IDLE", "OPEN", "CLSE", "ASST"} /\ (port'.state = "ASST" => port.state = "ASST")
    /\ port'.rx_flow_ctrl \in BOOLEAN /\ port'.rx_done \in BOOLEAN
    /\ port'.tx_done = port.tx_done /\ port'.tx_flow_ctrl = port.tx_flow_ctrl /\ portCp' \in BOOLEAN
    /\ portReader' \in {"idle", "read", "again", "wait", "stranded", "woken", "locked", "copied"}
    /\ portHist'.late = portHist.late /\ portHist'.acked = portHist.acked /\ portHist'.asserted = portHist.asserted

\* They keep the invariant.
LEMMA QuietKeeps ==
    ASSUME AckInv, Quiet
    PROVE  AckInv'
<1>1. PortShape' BY DEF AckInv, Quiet, PortShape, chipVars
<1>2. RingTyped' BY DEF AckInv, Quiet, RingTyped
<1>3. AnswersOK' BY DEF AckInv, Quiet, AnswersOK, ThisTry
<1>4. AnswerDue' BY DEF AckInv, Quiet, AnswerDue, InTime, ThisTry
<1>5. SuccessIsAcked' BY DEF AckInv, Quiet, SuccessIsAcked
<1> QED BY <1>1, <1>2, <1>3, <1>4, <1>5 DEF AckInv

\* A write of the flow control register is such a step for what it changes.
LEMMA RegisterQuiet ==
    ASSUME HistoryOK, WireOK, NEW on, NEW ok, skw_sdio_rx_port_follow_ctl(on, ok)
    PROVE  /\ portCount'.sends = portCount.sends /\ portHist'.late = portHist.late
           /\ portHist'.acked = portHist.acked /\ portHist'.asserted = portHist.asserted
<1>1. /\ \E u, r : portHist' = [portHist EXCEPT !.unlifted = u, !.ruled = r]
      /\ \E f : portCount' = [portCount EXCEPT !.faults = f]
  BY DEF skw_sdio_rx_port_follow_ctl
<1> QED BY <1>1 DEF HistoryOK, WireOK

\* The rx thread, the reader and the register.
LEMMA QuietStep ==
    ASSUME PortInv, PortShape,
           \/ close_sdio_port \/ PortReady \/ OtherPortWrites \/ PortComplete
           \/ recv_data \/ ReadAsserted \/ ReadWait \/ ReadInterrupted \/ ReadWoken
           \/ \E ok \in BOOLEAN : PortPublish(ok) \/ ReadTaken(ok) \/ ReadAgain(ok)
           \/ \E size \in {1, PortLength} : sdio_read(size)
    PROVE  Quiet
<1>p. PointersOK /\ HistoryOK /\ WireOK BY DEF PortInv
<1> USE DEF PortShape, PointersOK, Quiet
<1>1. CASE close_sdio_port BY <1>p, <1>1 DEF close_sdio_port
<1>2. CASE PortReady BY <1>p, <1>2 DEF PortReady
<1>3. CASE OtherPortWrites
  <2>1. portCount'.sends = portCount.sends /\ portHist'.late = portHist.late
        /\ portHist'.acked = portHist.acked /\ portHist'.asserted = portHist.asserted
    BY <1>p, <1>3 DEF OtherPortWrites, HistoryOK, WireOK
  <2> QED BY <1>3, <2>1 DEF OtherPortWrites
<1>4. CASE PortComplete BY <1>p, <1>4 DEF PortComplete
<1>5. CASE recv_data \/ ReadAsserted \/ ReadWait \/ ReadInterrupted \/ ReadWoken \/ \E ok \in BOOLEAN : ReadAgain(ok)
  <2>1. /\ UNCHANGED <<chipVars, portRing, portSender, portWire, portCp, portCount, portHist>>
        /\ portReader' \in {"idle", "read", "again", "wait", "woken", "locked"}
        /\ port' \in {port, [port EXCEPT !.state = "IDLE"], [port EXCEPT !.state = "OPEN"], [port EXCEPT !.rx_done = FALSE]}
    BY <1>5 DEF recv_data, ReadAsserted, ReadWait, ReadInterrupted, ReadWoken, ReadAgain, ReaderStands, ReaderStep,
       FoundDead
  <2> QED BY <1>p, <2>1
<1>6. ASSUME NEW ok \in BOOLEAN, PortPublish(ok) PROVE Quiet
  <2> DEFINE stop == ~port.rx_flow_ctrl /\ portHandler[3] - portHandler[2] < PortLength \div 3
  <2>1. /\ \E w : port' = [port EXCEPT !.rx_wp = w, !.rx_flow_ctrl = @ \/ stop]
        /\ IF stop THEN skw_sdio_rx_port_follow_ctl(TRUE, ok) ELSE UNCHANGED <<portReg, portCount, portHist>>
        /\ UNCHANGED <<chipVars, portRing, portReader, portSender, portWire, portCp>>
    BY <1>6 DEF PortPublish
  <2> HIDE DEF stop
  <2>2. port'.rx_flow_ctrl \in BOOLEAN /\ port'.state = port.state /\ port'.rx_done = port.rx_done
        /\ port'.tx_done = port.tx_done /\ port'.tx_flow_ctrl = port.tx_flow_ctrl
    BY <1>p, <2>1
  <2>3. portCount'.sends = portCount.sends /\ portHist'.late = portHist.late
        /\ portHist'.acked = portHist.acked /\ portHist'.asserted = portHist.asserted
    BY <1>p, <2>1, RegisterQuiet
  <2> QED BY <2>1, <2>2, <2>3
<1>7. ASSUME NEW ok \in BOOLEAN, ReadTaken(ok) PROVE Quiet
  <2>0. PICK r \in Taken(portTake.rp, portTake.n) :
          LET empty == r = port.rx_wp
              used == IF empty THEN 0 ELSE (PortLength + port.rx_wp - r) % PortLength
              go == port.rx_flow_ctrl /\ PortLength - 1 - used > (PortLength * 2) \div 3 IN
          /\ port' = [port EXCEPT !.rx_rp = IF empty THEN 0 ELSE r, !.rx_wp = IF empty THEN 0 ELSE @,
                                  !.rx_flow_ctrl = @ /\ ~go]
          /\ IF go THEN skw_sdio_rx_port_follow_ctl(FALSE, ok)
             ELSE ok /\ UNCHANGED <<portReg, portCount, portHist>>
    BY <1>7 DEF ReadTaken
  <2> DEFINE used == IF r = port.rx_wp THEN 0 ELSE (PortLength + port.rx_wp - r) % PortLength
             go == port.rx_flow_ctrl /\ PortLength - 1 - used > (PortLength * 2) \div 3
             rp == IF r = port.rx_wp THEN 0 ELSE r
             wp == IF r = port.rx_wp THEN 0 ELSE port.rx_wp
  <2>1. /\ port' = [port EXCEPT !.rx_rp = rp, !.rx_wp = wp, !.rx_flow_ctrl = @ /\ ~go]
        /\ IF go THEN skw_sdio_rx_port_follow_ctl(FALSE, ok) ELSE UNCHANGED <<portReg, portCount, portHist>>
    BY <2>0
  <2> HIDE DEF go, rp, wp
  <2>2. UNCHANGED <<chipVars, portRing, portSender, portWire, portCp>> /\ portReader' = "idle"
    BY <1>7 DEF ReadTaken, ReaderStep
  <2>3. port'.rx_flow_ctrl \in BOOLEAN /\ port'.state = port.state /\ port'.rx_done = port.rx_done
        /\ port'.tx_done = port.tx_done /\ port'.tx_flow_ctrl = port.tx_flow_ctrl
    BY <1>p, <2>1
  <2>4. portCount'.sends = portCount.sends /\ portHist'.late = portHist.late
        /\ portHist'.acked = portHist.acked /\ portHist'.asserted = portHist.asserted
    BY <1>p, <2>1, RegisterQuiet
  <2> QED BY <2>2, <2>3, <2>4
<1>8. CASE \E size \in {1, PortLength} : sdio_read(size) BY <1>8 DEF sdio_read, ReaderStep
<1> QED BY <1>1, <1>2, <1>3, <1>4, <1>5, <1>6, <1>7, <1>8

\* Every step of a port keeps it.
LEMMA AckStep ==
    ASSUME PortInv, AckInv, [PortNext]_portVars
    PROVE  AckInv'
<1> USE DEF WireOK, PortShape, chipVars
<1>0. PortShape /\ RingTyped /\ AnswersOK /\ AnswerDue /\ SuccessIsAcked BY DEF AckInv
<1>p. PointersOK /\ HistoryOK /\ RingOK /\ WireOK /\ HandlerOK BY DEF PortInv
<1>1. CASE open_sdio_port
  <2>1. /\ port'.state = "OPEN" /\ {port'.rx_flow_ctrl, port'.rx_done, port'.tx_done} \subseteq BOOLEAN /\ port'.tx_flow_ctrl = 0 /\ ~port'.tx_done
        /\ UNCHANGED <<chipVars, portRing, portSender, portWire, portCp>> /\ portCount'.sends = portCount.sends
        /\ portReader' = "stranded" \/ portReader' = portReader
    BY <1>p, <1>1 DEF open_sdio_port, PointersOK
  <2>2. portHist'.late \in BOOLEAN /\ (~portHist'.late => ~portHist.late /\ portSender.pc = "idle") /\ portHist'.acked = portHist.acked /\ portHist'.asserted = portHist.asserted
    <3> DEFINE r == portHist.late \/ portSender.pc # "idle"
               q == portHist.torn \/ InSection
               o == portHist.reopened \/ portReg
    <3>1. portHist' = [portHist EXCEPT !.torn = q, !.late = r, !.reopened = o] /\ r \in BOOLEAN /\ (~r => ~portHist.late /\ portSender.pc = "idle")
      BY <1>1 DEF open_sdio_port
    <3> HIDE DEF r, q, o
    <3>2. portHist'.late = r /\ portHist'.acked = portHist.acked /\ portHist'.asserted = portHist.asserted
      BY <1>p, <3>1 DEF HistoryOK
    <3> QED BY <3>1, <3>2
  <2>3. PortShape' BY <1>0, <2>1, <2>2, <1>p DEF PointersOK, HistoryOK
  <2>4. RingTyped' BY <1>0, <2>1, <2>2, <1>p DEF RingTyped
  <2>5. AnswersOK' BY <1>0, <2>1, <2>2, <1>p DEF AnswersOK, ThisTry
  <2>6. AnswerDue'
    BY <1>0, <2>1, <2>2, <1>p DEF AnswerDue, InTime, PointersOK, HistoryOK, AnswersOK, ThisTry
  <2>7. SuccessIsAcked'
    BY <1>0, <2>1, <2>2, <1>p DEF SuccessIsAcked, AnswerDue, InTime, PointersOK, HistoryOK
  <2> QED BY <2>3, <2>4, <2>5, <2>6, <2>7 DEF AckInv
<1>3. CASE PortAssert
  <2>1. CASE port' = port
    <3>1. /\ UNCHANGED <<chipVars, port, portRing, portReader, portSender, portWire>> /\ portCp' = TRUE
          /\ portCount'.sends = portCount.sends /\ portHist'.asserted
          /\ portHist'.late = portHist.late /\ portHist'.acked = portHist.acked /\ portHist'.asserted \in BOOLEAN
      BY <1>p, <1>3, <2>1 DEF PortAssert, HistoryOK
    <3> QED BY <1>0, <3>1 DEF AckInv, RingTyped, AnswersOK, ThisTry, AnswerDue, InTime, SuccessIsAcked, chipVars
  <2>2. CASE port' # port
    <3>1. PICK t \in BOOLEAN : port' = [port EXCEPT !.state = "ASST", !.rx_done = TRUE, !.tx_done = t]
      <4>1. port' = [port EXCEPT !.state = "ASST", !.rx_done = TRUE, !.tx_done = port.tx_done \/ portKind # "log"]
        BY <1>3, <2>2 DEF PortAssert
      <4>2. (port.tx_done \/ portKind # "log") \in BOOLEAN OBVIOUS
      <4> QED BY <4>1, <4>2
    <3>2. /\ UNCHANGED <<chipVars, portRing, portReader, portSender, portWire>> /\ portCp' = TRUE
          /\ portCount'.sends = portCount.sends /\ portHist'.asserted
          /\ portHist'.late = portHist.late /\ portHist'.acked = portHist.acked /\ portHist'.asserted \in BOOLEAN
      BY <1>p, <1>3 DEF PortAssert, HistoryOK
    <3>3. /\ port'.state = "ASST" /\ port'.rx_done \in BOOLEAN /\ port'.tx_done \in BOOLEAN
          /\ port'.rx_flow_ctrl = port.rx_flow_ctrl /\ port'.tx_flow_ctrl = port.tx_flow_ctrl
      BY <1>p, <3>1 DEF PointersOK
    <3> QED BY <1>0, <3>2, <3>3 DEF AckInv, RingTyped, AnswersOK, ThisTry, AnswerDue, InTime, SuccessIsAcked, chipVars
  <2> QED BY <2>1, <2>2
<1>5. ASSUME NEW n \in 1..MaxPacket, NEW ok \in BOOLEAN, CpSend(n, ok) PROVE AckInv'
  <2>1. /\ \A c, i : Known(portWire, c, i) => Known(portWire', c, i)
        /\ \A t : NoAnswer(portWire, t) => NoAnswer(portWire', t)
        /\ \A t : OneAnswer(portWire, t) => OneAnswer(portWire', t)
    <3> DEFINE w == portWire
               v == [data |-> [i \in 1..n |-> portCount.bytes + i], ok |-> ok]
    <3>1. w \in Seq(Packets) /\ (portWire' = Append(w, v)) BY <1>p, <1>5 DEF CpSend
    <3> HIDE DEF w, v
    <3>2. /\ \A c, j : Known(w, c, j) /\ Earlier(v, c, j) => Known(Append(w, v), c, j)
          /\ \A t : NoAnswer(w, t) /\ ~Answers(v, t) => NoAnswer(Append(w, v), t)
          /\ \A t : OneAnswer(w, t) /\ ~Answers(v, t) => OneAnswer(Append(w, v), t)
          /\ \A t : NoAnswer(w, t) => OneAnswer(Append(w, v), t)
      BY <3>1, WireMore
    <3>3. v.data # <<>>
      <4>1. n \in Nat /\ n > 0 BY PortAssumption
      <4>2. [i \in 1..n |-> portCount.bytes + i] # <<>> BY <4>1
      <4> QED BY <4>2 DEF v
    <3>4. \A c, i, t : Earlier(v, c, i) /\ ~Answers(v, t) BY <3>3 DEF Earlier, Answers
    <3> QED BY <3>1, <3>2, <3>4 DEF w
  <2>2. UNCHANGED <<chipVars, port, portRing, portReader, portSender, portHist, portCp>> /\ portCount'.sends = portCount.sends
    BY <1>p, <1>5 DEF CpSend
  <2>3. PortShape' BY <1>0, <2>1, <2>2, <1>p DEF PointersOK, HistoryOK
  <2>4. RingTyped' BY <1>0, <2>1, <2>2, <1>p DEF RingTyped
  <2>5. AnswersOK' BY <1>0, <2>1, <2>2, <1>p DEF AnswersOK, ThisTry
  <2>6. AnswerDue'
    BY <1>0, <2>1, <2>2, <1>p DEF AnswerDue, InTime, PointersOK, HistoryOK, AnswersOK, ThisTry
  <2>7. SuccessIsAcked'
    BY <1>0, <2>1, <2>2, <1>p DEF SuccessIsAcked, AnswerDue, InTime, PointersOK, HistoryOK
  <2> QED BY <2>3, <2>4, <2>5, <2>6, <2>7 DEF AckInv
<1>6. CASE PortPacket
  <2>1. CASE PacketAck(Head(portWire)) /\ Head(portWire).data = <<>>
    <3>1. /\ portWire # <<>> /\ Head(portWire) \in Packets /\ \A c, i : Known(portWire, c, i) => Known(portWire', c, i)
          /\ \A t : NoAnswer(portWire, t) => NoAnswer(portWire', t) /\ ~Answers(Head(portWire), t)
          /\ \A t : OneAnswer(portWire, t) => OneAnswer(portWire', t)
          /\ \A t : OneAnswer(portWire, t) /\ Answers(Head(portWire), t) => NoAnswer(portWire', t)
      <4>1. portWire \in Seq(Packets) /\ portWire # <<>> /\ portWire' = Tail(portWire)
        BY <1>p, <1>6 DEF PortPacket
      <4> QED BY <4>1, WireTail
    <3>2. UNCHANGED <<chipVars, portReader, portSender, portCount, portCp>> /\ portRing' = portRing
      BY <1>6, <2>1 DEF PortPacket, PacketAck
    <3>3. port'.tx_flow_ctrl = port.tx_flow_ctrl - 1 /\ port'.tx_done \in BOOLEAN /\ port'.tx_done /\ port'.state = port.state /\ port'.rx_flow_ctrl = port.rx_flow_ctrl /\ port'.rx_done = port.rx_done
      BY <1>p, <2>1 DEF PacketAck, PointersOK
    <3>4. /\ portHist'.late \in BOOLEAN /\ portHist'.acked \in BOOLEAN /\ portHist'.acked /\ portHist'.asserted = portHist.asserted
          /\ ~portHist'.late => ~portHist.late /\ portSender.pc = "wait" /\ Answers(Head(portWire), ThisTry)
      <4> DEFINE r == portHist.late \/ portSender.pc # "wait" \/ Head(portWire).ok # ThisTry
      <4>1. portHist' = [portHist EXCEPT !.acked = TRUE, !.late = r] /\ r \in BOOLEAN
        BY <2>1 DEF PacketAck
      <4>2. ~r => ~portHist.late /\ portSender.pc = "wait" /\ Head(portWire).ok = ThisTry OBVIOUS
      <4> HIDE DEF r
      <4>3. portHist'.late = r /\ portHist'.acked \in BOOLEAN /\ portHist'.acked /\ portHist'.asserted = portHist.asserted
        BY <1>p, <4>1 DEF HistoryOK
      <4> QED BY <4>1, <4>2, <4>3, <2>1 DEF Answers
    <3>5. PortShape' BY <1>0, <2>1, <3>1, <3>2, <3>3, <3>4, <1>p DEF PointersOK, HistoryOK
    <3>6. RingTyped' BY <1>0, <2>1, <3>1, <3>2, <3>3, <3>4, <1>p DEF RingTyped
    <3>7. AnswersOK' BY <1>0, <2>1, <3>1, <3>2, <3>3, <3>4, <1>p DEF AnswersOK, ThisTry
    <3>8. AnswerDue'
      BY <1>0, <2>1, <3>1, <3>2, <3>3, <3>4, <1>p DEF AnswerDue, InTime, PointersOK, HistoryOK, AnswersOK, ThisTry
    <3>9. SuccessIsAcked'
      BY <1>0, <2>1, <3>1, <3>2, <3>3, <3>4, <1>p DEF SuccessIsAcked, AnswerDue, InTime, PointersOK, HistoryOK
    <3> QED BY <3>5, <3>6, <3>7, <3>8, <3>9 DEF AckInv
  <2>2. CASE PacketData(Head(portWire).data) /\ portRing' # portRing
    <3>1. /\ portWire # <<>> /\ Head(portWire) \in Packets /\ \A c, i : Known(portWire, c, i) => Known(portWire', c, i)
          /\ \A t : NoAnswer(portWire, t) => NoAnswer(portWire', t) /\ ~Answers(Head(portWire), t)
          /\ \A t : OneAnswer(portWire, t) => OneAnswer(portWire', t)
          /\ \A t : OneAnswer(portWire, t) /\ Answers(Head(portWire), t) => NoAnswer(portWire', t)
      <4>1. portWire \in Seq(Packets) /\ portWire # <<>> /\ portWire' = Tail(portWire)
        BY <1>p, <1>6 DEF PortPacket
      <4> QED BY <4>1, WireTail
    <3>2. UNCHANGED <<chipVars, portReader, portSender, portCount, portCp>> /\ port' = port /\ portHist' = portHist
      BY <1>6, <2>2 DEF PortPacket, PacketData, CopiedIn
    <3>3. PortShape' BY <1>0, <2>2, <3>1, <3>2, <1>p DEF PointersOK, HistoryOK
    <3>4. RingTyped'
      <4> DEFINE d == Head(portWire).data
      <4>1. d \in Seq(Data) BY <3>1 DEF Packets
      <4> HIDE DEF d
      <4>2. \A i \in 1..Len(d) : d[i] \in 0..MaxBytes
        <5>1. \A i \in 1..Len(d) : d[i] \in Data BY <4>1
        <5>2. \A i \in 1..Len(d) : d[i] \in 1..MaxBytes BY <5>1 DEF Data
        <5> QED BY <5>2, PortAssumption
      <4>3. portRing' = [b \in Slots |-> IF \E i \in 1..Len(d) : b = (port.rx_wp + i - 1) % PortLength
                           THEN d[CHOOSE i \in 1..Len(d) : b = (port.rx_wp + i - 1) % PortLength] ELSE portRing[b]]
        BY <2>2 DEF PacketData, CopiedIn, d
      <4>4. portRing \in [Slots -> 0..MaxBytes] BY <1>0 DEF RingTyped
      <4>5. ASSUME NEW b \in Slots
            PROVE  (IF \E i \in 1..Len(d) : b = (port.rx_wp + i - 1) % PortLength
                    THEN d[CHOOSE i \in 1..Len(d) : b = (port.rx_wp + i - 1) % PortLength] ELSE portRing[b]) \in 0..MaxBytes
        BY <4>2, <4>4
      <4> QED BY <4>3, <4>5 DEF RingTyped, Slots
    <3>5. AnswersOK' BY <1>0, <2>2, <3>1, <3>2, <1>p DEF AnswersOK, ThisTry
    <3>6. AnswerDue'
      BY <1>0, <2>2, <3>1, <3>2, <1>p DEF AnswerDue, InTime, PointersOK, HistoryOK, AnswersOK, ThisTry
    <3>7. SuccessIsAcked'
      BY <1>0, <2>2, <3>1, <3>2, <1>p DEF SuccessIsAcked, AnswerDue, InTime, PointersOK, HistoryOK
    <3> QED BY <3>3, <3>4, <3>5, <3>6, <3>7 DEF AckInv
  <2>3. CASE port' = port /\ portRing' = portRing /\ portHist' = portHist
    <3>1. /\ portWire # <<>> /\ Head(portWire) \in Packets /\ \A c, i : Known(portWire, c, i) => Known(portWire', c, i)
          /\ \A t : NoAnswer(portWire, t) => NoAnswer(portWire', t) /\ ~Answers(Head(portWire), t)
          /\ \A t : OneAnswer(portWire, t) => OneAnswer(portWire', t)
          /\ \A t : OneAnswer(portWire, t) /\ Answers(Head(portWire), t) => NoAnswer(portWire', t)
      <4>1. portWire \in Seq(Packets) /\ portWire # <<>> /\ portWire' = Tail(portWire)
        BY <1>p, <1>6 DEF PortPacket
      <4> QED BY <4>1, WireTail
    <3>2. UNCHANGED <<chipVars, portReader, portSender, portCount, portCp>> BY <1>6 DEF PortPacket
    <3>3. PortShape' BY <1>0, <2>3, <3>1, <3>2, <1>p DEF PointersOK, HistoryOK
    <3>4. RingTyped' BY <1>0, <2>3, <3>1, <3>2, <1>p DEF RingTyped
    <3>5. AnswersOK' BY <1>0, <2>3, <3>1, <3>2, <1>p DEF AnswersOK, ThisTry
    <3>6. AnswerDue'
      BY <1>0, <2>3, <3>1, <3>2, <1>p DEF AnswerDue, InTime, PointersOK, HistoryOK, AnswersOK, ThisTry
    <3>7. SuccessIsAcked'
      BY <1>0, <2>3, <3>1, <3>2, <1>p DEF SuccessIsAcked, AnswerDue, InTime, PointersOK, HistoryOK
    <3> QED BY <3>3, <3>4, <3>5, <3>6, <3>7 DEF AckInv
  <2>4. CASE PacketData(Head(portWire).data)
    <3>1. UNCHANGED <<port, portHist>> BY <2>4 DEF PacketData, CopiedIn
    <3> QED BY <2>2, <2>3, <2>4, <3>1
  <2>5. \/ PacketAck(Head(portWire)) /\ Head(portWire).data = <<>>
        \/ PacketData(Head(portWire).data)
        \/ port' = port /\ portRing' = portRing /\ portHist' = portHist
    BY <1>6 DEF PortPacket, skw_sdio_handle_packet, skw_sdio2_handle_packet
  <2> QED BY <2>1, <2>3, <2>4, <2>5
<1>7. CASE \/ close_sdio_port \/ PortReady \/ OtherPortWrites \/ PortComplete
          \/ recv_data \/ ReadAsserted \/ ReadWait \/ ReadInterrupted \/ ReadWoken
          \/ \E ok \in BOOLEAN : PortPublish(ok) \/ ReadTaken(ok) \/ ReadAgain(ok)
          \/ \E size \in {1, PortLength} : sdio_read(size)
  BY <1>0, <1>7, QuietStep, QuietKeeps
<1>15. CASE send_data
  <2>1. CASE portCp \/ port.state \in {"IDLE", "CLSE"}
    <3>1. portCount'.sends = portCount.sends + 1 /\ portSender'.i = portSender.i /\ portWire' = portWire
      BY <1>p, <1>15, <2>1 DEF send_data
    <3>2. Known(portWire, portCount.sends + 1, portSender.i) BY <1>0, <1>p, ThisTryLater
    <3>3. PortShape'
      BY <1>0, <1>15, <2>1, <3>1, <3>2, <1>p DEF send_data, SenderStep, PointersOK, HistoryOK
    <3>4. RingTyped' BY <1>0, <1>15, <2>1, <3>1, <3>2, <1>p DEF send_data, SenderStep, RingTyped
    <3>5. AnswersOK'
      BY <1>0, <1>15, <2>1, <3>1, <3>2, <1>p DEF send_data, SenderStep, AnswersOK, ThisTry
    <3>6. AnswerDue'
      BY <1>0, <1>15, <2>1, <3>1, <3>2, <1>p DEF send_data, SenderStep, AnswerDue, InTime, PointersOK, HistoryOK,
         AnswersOK, ThisTry
    <3>7. SuccessIsAcked'
      BY <1>0, <1>15, <2>1, <3>1, <3>2, <1>p DEF send_data, SenderStep, SuccessIsAcked, AnswerDue, InTime,
         PointersOK, HistoryOK
    <3> QED BY <3>3, <3>4, <3>5, <3>6, <3>7 DEF AckInv
  <2>2. CASE ~(portCp \/ port.state \in {"IDLE", "CLSE"})
    <3>1. /\ UNCHANGED <<chipVars, portRing, portReader, portCp, portWire>> /\ portSender.pc = "idle"
          /\ portSender' = [pc |-> "loop", i |-> 0, ret |-> "none"]
          /\ portCount' = [portCount EXCEPT !.sends = @ + 1]
          /\ port' = [port EXCEPT !.tx_done = FALSE] /\ portHist' = [portHist EXCEPT !.acked = FALSE]
      BY <1>15, <2>2 DEF send_data, SenderStep
    <3>2. portSender'.pc = "loop" /\ portSender'.i = 0 /\ portSender'.ret = "none" /\ portCount'.sends = portCount.sends + 1
      BY <1>p, <3>1
    <3>3. Known(portWire, portCount.sends + 1, 0) /\ NoAnswer(portWire, <<portCount.sends + 1, 0>>)
      BY <1>0, <1>p, ThisTryLater
    <3>4. PortShape' BY <1>0, <2>2, <3>1, <3>2, <3>3, <1>p DEF SenderStep, PointersOK, HistoryOK
    <3>5. RingTyped' BY <1>0, <2>2, <3>1, <3>2, <3>3, <1>p DEF SenderStep, RingTyped
    <3>6. AnswersOK' BY <1>0, <2>2, <3>1, <3>2, <3>3, <1>p DEF SenderStep, AnswersOK, ThisTry
    <3>7. AnswerDue'
      BY <1>0, <2>2, <3>1, <3>2, <3>3, <1>p DEF SenderStep, AnswerDue, InTime, PointersOK, HistoryOK, AnswersOK,
         ThisTry
    <3>8. SuccessIsAcked'
      BY <1>0, <2>2, <3>1, <3>2, <3>3, <1>p DEF SenderStep, SuccessIsAcked, AnswerDue, InTime, PointersOK,
         HistoryOK
    <3> QED BY <3>4, <3>5, <3>6, <3>7, <3>8 DEF AckInv
  <2> QED BY <2>1, <2>2
<1>16. CASE SendAcked
  <2>1. PortShape' BY <1>0, <1>16, <1>p DEF SendAcked, SenderStep, PointersOK, HistoryOK
  <2>2. RingTyped' BY <1>0, <1>16, <1>p DEF SendAcked, SenderStep, RingTyped
  <2>3. AnswersOK' BY <1>0, <1>16, <1>p DEF SendAcked, SenderStep, AnswersOK, ThisTry
  <2>4. AnswerDue'
    BY <1>0, <1>16, <1>p DEF SendAcked, SenderStep, AnswerDue, InTime, PointersOK, HistoryOK, AnswersOK, ThisTry
  <2>5. SuccessIsAcked'
    BY <1>0, <1>16, <1>p DEF SendAcked, SenderStep, SuccessIsAcked, AnswerDue, InTime, PointersOK, HistoryOK
  <2> QED BY <2>1, <2>2, <2>3, <2>4, <2>5 DEF AckInv
<1>17. CASE SendTimeout
  <2>1. CASE port.tx_flow_ctrl # 0
    <3>1. /\ UNCHANGED <<chipVars, portRing, portReader, portCp, portWire, portCount, portHist>> /\ portSender.pc = "wait" /\ ~port.tx_done
          /\ portSender' = [portSender EXCEPT !.pc = "loop", !.i = @ + 1] /\ port' = [port EXCEPT !.tx_flow_ctrl = @ - 1]
      BY <1>17, <2>1 DEF SendTimeout, SenderStep
    <3>2. ThisTry' = <<portCount.sends, portSender.i + 1>> /\ portSender'.i = portSender.i + 1
      BY <1>p, <1>17, <2>1 DEF ThisTry, SendTimeout, SenderStep
    <3>3. Known(portWire, portCount.sends, portSender.i + 1) /\ NoAnswer(portWire, <<portCount.sends, portSender.i + 1>>)
      BY <1>0, <1>p, ThisTryLater
    <3>4. PortShape' BY <1>0, <2>1, <3>1, <3>2, <3>3, <1>p DEF SenderStep, PointersOK, HistoryOK
    <3>5. RingTyped' BY <1>0, <2>1, <3>1, <3>2, <3>3, <1>p DEF SenderStep, RingTyped
    <3>6. AnswersOK' BY <1>0, <2>1, <3>1, <3>2, <3>3, <1>p DEF SenderStep, AnswersOK, ThisTry
    <3>7. AnswerDue'
      BY <1>0, <2>1, <3>1, <3>2, <3>3, <1>p DEF SenderStep, AnswerDue, InTime, PointersOK, HistoryOK, AnswersOK,
         ThisTry
    <3>8. SuccessIsAcked'
      BY <1>0, <2>1, <3>1, <3>2, <3>3, <1>p DEF SenderStep, SuccessIsAcked, AnswerDue, InTime, PointersOK,
         HistoryOK
    <3> QED BY <3>4, <3>5, <3>6, <3>7, <3>8 DEF AckInv
  <2>2. CASE ~(port.tx_flow_ctrl # 0)
    <3>1. PortShape' BY <1>0, <1>17, <2>2, <1>p DEF SendTimeout, SenderStep, PointersOK, HistoryOK
    <3>2. RingTyped' BY <1>0, <1>17, <2>2, <1>p DEF SendTimeout, SenderStep, RingTyped
    <3>3. AnswersOK' BY <1>0, <1>17, <2>2, <1>p DEF SendTimeout, SenderStep, AnswersOK, ThisTry
    <3>4. AnswerDue'
      BY <1>0, <1>17, <2>2, <1>p DEF SendTimeout, SenderStep, AnswerDue, InTime, PointersOK, HistoryOK, AnswersOK,
         ThisTry
    <3>5. SuccessIsAcked'
      BY <1>0, <1>17, <2>2, <1>p DEF SendTimeout, SenderStep, SuccessIsAcked, AnswerDue, InTime, PointersOK,
         HistoryOK
    <3> QED BY <3>1, <3>2, <3>3, <3>4, <3>5 DEF AckInv
  <2> QED BY <2>1, <2>2
<1>18. ASSUME NEW answer \in BOOLEAN, NEW fails \in BOOLEAN, SendTry(answer, fails) PROVE AckInv'
  <2>1. CASE portCp
    <3>1. PortShape' BY <1>0, <1>18, <2>1, <1>p DEF SendTry, SenderStep, PointersOK, HistoryOK
    <3>2. RingTyped' BY <1>0, <1>18, <2>1, <1>p DEF SendTry, SenderStep, RingTyped
    <3>3. AnswersOK' BY <1>0, <1>18, <2>1, <1>p DEF SendTry, SenderStep, AnswersOK, ThisTry
    <3>4. AnswerDue'
      BY <1>0, <1>18, <2>1, <1>p DEF SendTry, SenderStep, AnswerDue, InTime, PointersOK, HistoryOK, AnswersOK,
         ThisTry
    <3>5. SuccessIsAcked'
      BY <1>0, <1>18, <2>1, <1>p DEF SendTry, SenderStep, SuccessIsAcked, AnswerDue, InTime, PointersOK, HistoryOK
    <3> QED BY <3>1, <3>2, <3>3, <3>4, <3>5 DEF AckInv
  <2>2. CASE ~portCp /\ portSender.i = 2
    <3>1. /\ UNCHANGED <<chipVars, portRing, portReader, portCp, portWire, portCount, portHist, port>> /\ portSender.pc = "loop"
          /\ portSender' = [portSender EXCEPT !.pc = "idle", !.ret = "zero"]
      BY <1>0, <1>18, <2>2 DEF SendTry, SenderStep
    <3>2. portSender'.pc = "idle" /\ portSender'.i = portSender.i /\ portSender'.ret = "zero"
      BY <1>p, <3>1
    <3>3. PortShape' BY <1>0, <2>2, <3>1, <3>2, <1>p DEF SenderStep, PointersOK, HistoryOK
    <3>4. RingTyped' BY <1>0, <2>2, <3>1, <3>2, <1>p DEF SenderStep, RingTyped
    <3>5. AnswersOK' BY <1>0, <2>2, <3>1, <3>2, <1>p DEF SenderStep, AnswersOK, ThisTry
    <3>6. AnswerDue'
      BY <1>0, <2>2, <3>1, <3>2, <1>p DEF SenderStep, AnswerDue, InTime, PointersOK, HistoryOK, AnswersOK, ThisTry
    <3>7. SuccessIsAcked'
      BY <1>0, <2>2, <3>1, <3>2, <1>p DEF SenderStep, SuccessIsAcked, AnswerDue, InTime, PointersOK, HistoryOK
    <3> QED BY <3>3, <3>4, <3>5, <3>6, <3>7 DEF AckInv
  <2>3. CASE ~portCp /\ portSender.i < 2 /\ fails
    <3>1. /\ UNCHANGED <<chipVars, portRing, portReader, portCp, portWire, portCount, portHist, port>> /\ portSender.pc = "loop"
          /\ portSender' = [portSender EXCEPT !.i = @ + 1]
      BY <1>0, <1>18, <2>3 DEF SendTry, SenderStep
    <3>2. ThisTry' = <<portCount.sends, portSender.i + 1>> /\ portSender'.i = portSender.i + 1
      BY <1>p, <1>18, <2>3 DEF ThisTry, SendTry, SenderStep
    <3>3. Known(portWire, portCount.sends, portSender.i + 1) /\ NoAnswer(portWire, <<portCount.sends, portSender.i + 1>>)
      BY <1>0, <1>p, ThisTryLater
    <3>4. PortShape' BY <1>0, <2>3, <3>1, <3>2, <3>3, <1>p DEF SenderStep, PointersOK, HistoryOK
    <3>5. RingTyped' BY <1>0, <2>3, <3>1, <3>2, <3>3, <1>p DEF SenderStep, RingTyped
    <3>6. AnswersOK' BY <1>0, <2>3, <3>1, <3>2, <3>3, <1>p DEF SenderStep, AnswersOK, ThisTry
    <3>7. AnswerDue'
      BY <1>0, <2>3, <3>1, <3>2, <3>3, <1>p DEF SenderStep, AnswerDue, InTime, PointersOK, HistoryOK, AnswersOK,
         ThisTry
    <3>8. SuccessIsAcked'
      BY <1>0, <2>3, <3>1, <3>2, <3>3, <1>p DEF SenderStep, SuccessIsAcked, AnswerDue, InTime, PointersOK,
         HistoryOK
    <3> QED BY <3>4, <3>5, <3>6, <3>7, <3>8 DEF AckInv
  <2>4. CASE ~portCp /\ ~(portSender.i = 2) /\ ~(portSender.i < 2 /\ fails)
    <3>1. /\ UNCHANGED <<chipVars, portRing, portReader, portCount, portHist, portCp>> /\ portSender.pc = "loop" /\ portSender'.i = portSender.i
          /\ IF port.state = "ASST" THEN portSender'.pc = "idle" /\ portSender'.ret = "size"
             ELSE portSender'.pc = "wait" /\ portSender'.ret = portSender.ret
      BY <1>p, <1>18, <2>4 DEF SendTry, SenderStep
    <3>2. port'.tx_flow_ctrl = port.tx_flow_ctrl + 1 /\ port'.tx_done = port.tx_done /\ port'.state = port.state /\ port'.rx_flow_ctrl = port.rx_flow_ctrl /\ port'.rx_done = port.rx_done
      BY <1>p, <1>18, <2>4 DEF SendTry, PointersOK
    <3>3. ThisTry' = ThisTry /\ ThisTry[1] = portCount.sends /\ ThisTry[2] = portSender.i /\ ThisTry \in Nat \X (0..2)
      BY <1>p, <3>1 DEF ThisTry
    <3>4. Known(portWire', portCount.sends, portSender.i) /\ OneAnswer(portWire', ThisTry)
      <4> DEFINE w == portWire
                 v == [data |-> <<>>, ok |-> ThisTry]
      <4>1. w \in Seq(Packets) /\ (portWire' = w \/ portWire' = Append(w, v))
        BY <1>p, <1>18, <2>4 DEF SendTry
      <4> HIDE DEF w, v
      <4>2. /\ \A c, j : Known(w, c, j) /\ Earlier(v, c, j) => Known(Append(w, v), c, j)
            /\ \A t : NoAnswer(w, t) /\ ~Answers(v, t) => NoAnswer(Append(w, v), t)
            /\ \A t : OneAnswer(w, t) /\ ~Answers(v, t) => OneAnswer(Append(w, v), t)
            /\ \A t : NoAnswer(w, t) => OneAnswer(Append(w, v), t)
        BY <4>1, WireMore
      <4>3. Earlier(v, portCount.sends, portSender.i) BY <1>p, <3>3 DEF Earlier, v
      <4>4. Known(w, portCount.sends, portSender.i) /\ NoAnswer(w, ThisTry)
        BY <1>0, <3>1 DEF AnswersOK, w
      <4>5. OneAnswer(w, ThisTry) BY <4>4 DEF NoAnswer, OneAnswer
      <4> QED BY <4>1, <4>2, <4>3, <4>4, <4>5
    <3>5. PortShape' BY <1>0, <2>4, <3>1, <3>2, <3>3, <3>4, <1>p DEF SenderStep, PointersOK, HistoryOK
    <3>6. RingTyped' BY <1>0, <2>4, <3>1, <3>2, <3>3, <3>4, <1>p DEF SenderStep, RingTyped
    <3>7. AnswersOK' BY <1>0, <2>4, <3>1, <3>2, <3>3, <3>4, <1>p DEF SenderStep, AnswersOK, ThisTry
    <3>8. AnswerDue'
      BY <1>0, <2>4, <3>1, <3>2, <3>3, <3>4, <1>p DEF SenderStep, AnswerDue, InTime, PointersOK, HistoryOK,
         AnswersOK, ThisTry
    <3>9. SuccessIsAcked'
      BY <1>0, <2>4, <3>1, <3>2, <3>3, <3>4, <1>p DEF SenderStep, SuccessIsAcked, AnswerDue, InTime, PointersOK,
         HistoryOK
    <3> QED BY <3>5, <3>6, <3>7, <3>8, <3>9 DEF AckInv
  <2> QED BY <2>1, <2>2, <2>3, <2>4
<1>19. CASE UNCHANGED portVars
  BY <1>0, <1>p, <1>19 DEF AckInv, portVars, RingTyped, AnswersOK, ThisTry, AnswerDue, InTime, SuccessIsAcked
<1> QED BY <1>1, <1>3, <1>5, <1>6, <1>7, <1>15, <1>16, <1>17, <1>18, <1>19 DEF PortNext

\* The fields of a port are assigned, the port remains a record.
LEMMA RecordStep ==
    ASSUME PortRecord, [PortNext]_portVars
    PROVE  PortRecord'
<1>1. CASE open_sdio_port BY <1>1 DEF open_sdio_port, PortRecord
<1>2. CASE close_sdio_port BY <1>2 DEF close_sdio_port, PortRecord
<1>3. CASE PortAssert BY <1>3 DEF PortAssert, PortRecord
<1>4. CASE PortReady BY <1>4 DEF PortReady, PortRecord
<1>5. ASSUME NEW n \in 1..MaxPacket, NEW ok \in BOOLEAN, CpSend(n, ok) PROVE PortRecord'
  BY <1>5 DEF CpSend, PortRecord
<1>6. CASE PortPacket
  BY <1>6 DEF PortPacket, PortRecord, PacketAck, PacketData, CopiedIn, skw_sdio_handle_packet, skw_sdio2_handle_packet
<1>7. ASSUME NEW ok \in BOOLEAN, PortPublish(ok) PROVE PortRecord'
  BY <1>7 DEF PortPublish, PortRecord
<1>8. CASE PortComplete \/ OtherPortWrites BY <1>8 DEF PortComplete, OtherPortWrites, PortRecord
<1>9. CASE recv_data BY <1>9 DEF recv_data, PortRecord
<1>10. CASE ReadAsserted BY <1>10 DEF ReadAsserted, FoundDead, PortRecord
<1>11. ASSUME NEW ok \in BOOLEAN, ReadAgain(ok) PROVE PortRecord' BY <1>11 DEF ReadAgain, PortRecord
<1>12. CASE ReadWait \/ ReadInterrupted BY <1>12 DEF ReadWait, ReadInterrupted, PortRecord
<1>13. CASE ReadWoken BY <1>13 DEF ReadWoken, FoundDead, PortRecord
<1>14. ASSUME NEW size \in {1, PortLength}, sdio_read(size) PROVE PortRecord'
  BY <1>14 DEF sdio_read, PortRecord
<1>20. ASSUME NEW ok \in BOOLEAN, ReadTaken(ok) PROVE PortRecord' BY <1>20 DEF ReadTaken, PortRecord
<1>15. CASE send_data BY <1>15 DEF send_data, PortRecord
<1>16. CASE SendAcked BY <1>16 DEF SendAcked, PortRecord
<1>17. CASE SendTimeout BY <1>17 DEF SendTimeout, PortRecord
<1>18. ASSUME NEW answer \in BOOLEAN, NEW fails \in BOOLEAN, SendTry(answer, fails) PROVE PortRecord'
  BY <1>18 DEF SendTry, PortRecord
<1>19. CASE UNCHANGED portVars BY <1>19 DEF portVars, PortRecord
<1> QED BY <1>1, <1>2, <1>3, <1>4, <1>5, <1>6, <1>7, <1>8, <1>9, <1>10, <1>11, <1>12, <1>13, <1>14,
     <1>15, <1>16, <1>17, <1>18, <1>19, <1>20 DEF PortNext

\* The initial state has it.
LEMMA AckBegin ==
    ASSUME PortInit
    PROVE  AckInv /\ PortRecord
<1>1. /\ DOMAIN port = {"state", "rx_wp", "rx_rp", "rx_flow_ctrl", "tx_flow_ctrl", "rx_done", "tx_done"} /\ PortRecord
      /\ port.state = "IDLE" /\ ~port.rx_flow_ctrl /\ port.tx_flow_ctrl = 0 /\ ~port.rx_done /\ ~port.tx_done
      /\ {port.rx_flow_ctrl, port.rx_done, port.tx_done} \subseteq BOOLEAN
      /\ portSender.pc = "idle" /\ portSender.ret = "none"
      /\ {portHist.late, portHist.acked, portHist.asserted} \subseteq BOOLEAN /\ ~portHist.asserted
      /\ portCp \in BOOLEAN /\ skw_cp_ver \in {"V10", "V20"} /\ portKind \in {"at", "log", "data"} /\ portReader = "idle"
  BY DEF PortInit, PortRecord
<1>4. PortShape /\ AnswerDue /\ SuccessIsAcked
  BY <1>1 DEF PortShape, AnswerDue, SuccessIsAcked, InTime
<1>2. RingTyped BY PortAssumption DEF PortInit, RingTyped, Slots
<1>3. AnswersOK BY DEF PortInit, AnswersOK, Known
<1> QED BY <1>1, <1>2, <1>3, <1>4 DEF AckInv

\* It implies the types of module SkwSdioPort and the answered success.
LEMMA AckHolds ==
    ASSUME PortInv, AckInv, PortRecord
    PROVE  PortTypeOK /\ SuccessIsAcked
<1>1. port \in [state : {"IDLE", "OPEN", "CLSE", "ASST"}, rx_wp : Int, rx_rp : Int, rx_flow_ctrl : BOOLEAN,
                tx_flow_ctrl : Int, rx_done : BOOLEAN, tx_done : BOOLEAN]
  <2>0. PointersOK /\ PortShape BY DEF PortInv, AckInv
  <2> QED BY <2>0 DEF PointersOK, PortShape, PortRecord
<1> QED BY <1>1 DEF PortInv, PointersOK, AckInv, PortShape, RingTyped, WireOK, PortTypeOK

\* A send that reports success was acknowledged by the chip, whatever
\* acknowledgements are late or never come, unless one has come after its
\* 100 ms or the chip has died (send_data, skw_sdio_rx.c).
THEOREM SuccessWasAcked == PortSpec => []SuccessIsAcked
<1>1. PortInit => PortInv /\ AckInv BY PortBegin, AckBegin
<1>2. PortInv /\ AckInv /\ [PortNext]_portVars => (PortInv /\ AckInv)' BY PortStep, AckStep
<1> QED BY <1>1, <1>2, PTL DEF PortSpec, AckInv

-----------------------------------------------------------------------------
\* The SDIO link: its interrupt, the rx thread, the senders, suspend.

LkOK(k) ==
    /\ DOMAIN k = {"irq", "in", "handler", "depth", "up", "com", "flag", "req", "claimed", "off", "kick", "pm"}
    /\ k.irq \in {"inband", "external"} /\ k.depth \in Int /\ k.req \subseteq Senders
    /\ k.pm \in {"on", "indicate", "quiet", "release", "off", "claim"}
    /\ k.in \in BOOLEAN /\ k.handler \in BOOLEAN /\ k.up \in BOOLEAN /\ k.com \in BOOLEAN
    /\ k.flag \in BOOLEAN /\ k.claimed \in BOOLEAN /\ k.off \in BOOLEAN /\ k.kick \in BOOLEAN
RxOK(r) ==
    /\ DOMAIN r = {"adma", "pc", "remain", "nsize", "seen"} /\ r.adma \in BOOLEAN
    /\ r.pc \in {"down", "check", "read", "submit"} /\ r.remain \in 1..MaxSg /\ r.nsize \in Nat /\ r.seen \in Nat
SndRec(r) == /\ DOMAIN r = {"pc", "i", "held"} /\ r.pc \in {"idle", "wake", "wait", "write"} /\ r.i \in 0..1
             /\ r.held \in BOOLEAN
SndOK(f) == DOMAIN f = Senders /\ \A s \in Senders : SndRec(f[s])
LcpOK(c) ==
    /\ DOMAIN c = {"left", "fifo", "pend", "n", "sent", "suspends", "faults", "failed"}
    /\ c.left \in 0..MaxPackets /\ c.fifo \in Nat /\ c.n \in Nat
    /\ c.sent \in Int /\ c.suspends \in Int /\ c.faults \in Int
    /\ c.pend \in BOOLEAN /\ c.failed \in BOOLEAN
LinkShape == LkOK(lk) /\ RxOK(lrx) /\ SndOK(lsnd) /\ LcpOK(lcp)

\* Only the sender of the wake-up command and the suspend indication hold
\* the GPIO interrupt off, each once.
HeldOff == IF lsnd["wow"].held THEN 1 ELSE 0
DepthOK ==
    /\ \A s \in Senders : lsnd[s].held => s = "wow" /\ lk.irq = "external" /\ lsnd[s].pc # "idle"
    /\ lk.irq = "inband" => lk.depth = 0
    /\ IF lk.pm = "quiet" THEN lk.depth \in {HeldOff, HeldOff + 1} ELSE lk.depth = HeldOff
\* An in band interrupt without a handler is one of a suspend, or was refused.
HandlerArmed == lk.irq = "inband" /\ ~lk.handler /\ lk.claimed => lk.pm \in {"off", "claim"}

\* What the CP has not handed over came after the number of its fifo was
\* read, but for what the thread is going to read; and the interrupt of
\* what came after the last transfer is still on its way.
FifoTrue ==
    /\ lrx.seen <= lcp.fifo /\ lcp.left <= lcp.n
    /\ lcp.left > 0 => lk.in
    /\ lk.off => lcp.failed
    /\ ~lcp.failed /\ lrx.pc \in {"down", "check"} => lcp.left <= lcp.fifo - lrx.seen
    /\ ~lcp.failed /\ lrx.pc = "submit" => lcp.left <= lrx.nsize + (lcp.fifo - lrx.seen)
Announced ==
    ~lcp.failed => /\ lrx.pc = "down" /\ lcp.left > 0 => lcp.pend \/ lk.up
                   /\ lrx.pc = "submit" /\ lcp.left > lrx.nsize => lcp.pend \/ lk.up
LinkInv == LinkShape /\ DepthOK /\ HandlerArmed /\ FifoTrue /\ Announced

\* Who holds the interrupt off, counted.
LEMMA HeldCount ==
    ASSUME LinkShape, DepthOK
    PROVE  Cardinality({s \in Senders : lsnd[s].held}) = HeldOff
<1>1. CASE lsnd["wow"].held
  <2>1. {s \in Senders : lsnd[s].held} = {"wow"} BY <1>1 DEF DepthOK, Senders
  <2> QED BY <1>1, <2>1, FS_Singleton DEF HeldOff
<1>2. CASE ~lsnd["wow"].held
  <2>1. {s \in Senders : lsnd[s].held} = {} BY <1>2 DEF DepthOK, Senders
  <2> QED BY <1>2, <2>1, FS_EmptySet DEF HeldOff
<1> QED BY <1>1, <1>2

\* A transfer that fails is noted, and nothing else.
LEMMA FailedKeeps ==
    ASSUME LinkShape
    PROVE  /\ LcpOK(Failed(lcp)) /\ Failed(lcp).failed = TRUE
           /\ Failed(lcp).left = lcp.left /\ Failed(lcp).fifo = lcp.fifo /\ Failed(lcp).n = lcp.n
           /\ Failed(lcp).pend = lcp.pend
  BY DEF LinkShape, LcpOK, Failed

\* A sender that moves on leaves the others alone.
LEMMA SndSet ==
    ASSUME NEW f, SndOK(f), NEW s \in Senders, NEW r, SndRec(r)
    PROVE  SndOK([f EXCEPT ![s] = r])
  BY DEF SndOK

\* Every step keeps the invariant.
LEMMA LinkStep == LinkInv /\ [LinkNext]_linkVars => LinkInv'
<1> USE DEF LinkShape
<1> SUFFICES ASSUME LinkInv, [LinkNext]_linkVars PROVE LinkInv' OBVIOUS
<1>0. LinkShape /\ DepthOK /\ HandlerArmed /\ FifoTrue /\ Announced BY DEF LinkInv
<1>1. CASE CpHasPacket
  <2>1. LkOK(lk)' BY <1>0, <1>1, LinkAssumption, FailedKeeps DEF CpHasPacket, LkOK, Senders
  <2>2. RxOK(lrx)' BY <1>0, <1>1, LinkAssumption, FailedKeeps DEF CpHasPacket, RxOK, LcpOK
  <2>3. SndOK(lsnd)'
    BY <1>0, <1>1, LinkAssumption, FailedKeeps DEF CpHasPacket, SndOK, SndRec, Senders
  <2>4. LcpOK(lcp)' BY <1>0, <1>1, LinkAssumption, FailedKeeps DEF CpHasPacket, LcpOK, FifoTrue
  <2>5. DepthOK'
    BY <1>0, <1>1, LinkAssumption, FailedKeeps DEF CpHasPacket, LkOK, SndOK, SndRec, DepthOK, HeldOff, Senders
  <2>6. HandlerArmed' BY <1>0, <1>1, LinkAssumption, FailedKeeps DEF CpHasPacket, LkOK, HandlerArmed
  <2>7. FifoTrue'
    BY <1>0, <1>1, LinkAssumption, FailedKeeps DEF CpHasPacket, LkOK, RxOK, LcpOK, FifoTrue
  <2>8. Announced'
    BY <1>0, <1>1, LinkAssumption, FailedKeeps DEF CpHasPacket, LkOK, RxOK, LcpOK, FifoTrue, Announced
  <2> QED BY <2>1, <2>2, <2>3, <2>4, <2>5, <2>6, <2>7, <2>8 DEF LinkInv
<1>2. CASE CpWakes
  <2>1. LkOK(lk)' BY <1>0, <1>2, LinkAssumption, FailedKeeps DEF CpWakes, LkOK, Senders
  <2>2. RxOK(lrx)' BY <1>0, <1>2, LinkAssumption, FailedKeeps DEF CpWakes, RxOK, LcpOK
  <2>3. SndOK(lsnd)' BY <1>0, <1>2, LinkAssumption, FailedKeeps DEF CpWakes, SndOK, SndRec, Senders
  <2>4. LcpOK(lcp)' BY <1>0, <1>2, LinkAssumption, FailedKeeps DEF CpWakes, LcpOK, FifoTrue
  <2>5. DepthOK'
    BY <1>0, <1>2, LinkAssumption, FailedKeeps DEF CpWakes, LkOK, SndOK, SndRec, DepthOK, HeldOff, Senders
  <2>6. HandlerArmed' BY <1>0, <1>2, LinkAssumption, FailedKeeps DEF CpWakes, LkOK, HandlerArmed
  <2>7. FifoTrue' BY <1>0, <1>2, LinkAssumption, FailedKeeps DEF CpWakes, LkOK, RxOK, LcpOK, FifoTrue
  <2>8. Announced'
    BY <1>0, <1>2, LinkAssumption, FailedKeeps DEF CpWakes, LkOK, RxOK, LcpOK, FifoTrue, Announced
  <2> QED BY <2>1, <2>2, <2>3, <2>4, <2>5, <2>6, <2>7, <2>8 DEF LinkInv
<1>3. CASE CpSleeps
  <2>1. LkOK(lk)' BY <1>0, <1>3, LinkAssumption, FailedKeeps DEF CpSleeps, LkOK, Senders
  <2>2. RxOK(lrx)' BY <1>0, <1>3, LinkAssumption, FailedKeeps DEF CpSleeps, RxOK, LcpOK
  <2>3. SndOK(lsnd)' BY <1>0, <1>3, LinkAssumption, FailedKeeps DEF CpSleeps, SndOK, SndRec, Senders
  <2>4. LcpOK(lcp)' BY <1>0, <1>3, LinkAssumption, FailedKeeps DEF CpSleeps, LcpOK, FifoTrue
  <2>5. DepthOK'
    BY <1>0, <1>3, LinkAssumption, FailedKeeps DEF CpSleeps, LkOK, SndOK, SndRec, DepthOK, HeldOff, Senders
  <2>6. HandlerArmed' BY <1>0, <1>3, LinkAssumption, FailedKeeps DEF CpSleeps, LkOK, HandlerArmed
  <2>7. FifoTrue' BY <1>0, <1>3, LinkAssumption, FailedKeeps DEF CpSleeps, LkOK, RxOK, LcpOK, FifoTrue
  <2>8. Announced'
    BY <1>0, <1>3, LinkAssumption, FailedKeeps DEF CpSleeps, LkOK, RxOK, LcpOK, FifoTrue, Announced
  <2> QED BY <2>1, <2>2, <2>3, <2>4, <2>5, <2>6, <2>7, <2>8 DEF LinkInv
<1>4. CASE skw_sdio_inband_irq_handler
  <2>1. CASE /\ lk.in
             /\ lk' = [lk EXCEPT !.req = lk.req, !.up = TRUE]
             /\ lrx' = lrx
             /\ lsnd' = lsnd
             /\ lcp' = [lcp EXCEPT !.pend = FALSE]
    <3>1. LkOK(lk)' BY <1>0, <2>1, LinkAssumption, FailedKeeps DEF LkOK, Senders
    <3>2. RxOK(lrx)' BY <1>0, <2>1, LinkAssumption, FailedKeeps DEF RxOK, LcpOK
    <3>3. SndOK(lsnd)' BY <1>0, <2>1, LinkAssumption, FailedKeeps DEF SndOK, SndRec, Senders
    <3>4. LcpOK(lcp)' BY <1>0, <2>1, LinkAssumption, FailedKeeps DEF LcpOK, FifoTrue
    <3>5. DepthOK'
      BY <1>0, <2>1, LinkAssumption, FailedKeeps DEF LkOK, SndOK, SndRec, DepthOK, HeldOff, Senders
    <3>6. HandlerArmed' BY <1>0, <2>1, LinkAssumption, FailedKeeps DEF LkOK, HandlerArmed
    <3>7. FifoTrue' BY <1>0, <2>1, LinkAssumption, FailedKeeps DEF LkOK, RxOK, LcpOK, FifoTrue
    <3>8. Announced'
      BY <1>0, <2>1, LinkAssumption, FailedKeeps DEF LkOK, RxOK, LcpOK, FifoTrue, Announced
    <3> QED BY <3>1, <3>2, <3>3, <3>4, <3>5, <3>6, <3>7, <3>8 DEF LinkInv
  <2>2. CASE /\ ~lk.in
             /\ lk' = [lk EXCEPT !.req = lk.req \union {"reg"}, !.up = TRUE]
             /\ lrx' = lrx
             /\ lsnd' = lsnd
             /\ lcp' = [lcp EXCEPT !.pend = FALSE]
    <3>1. LkOK(lk)' BY <1>0, <2>2, LinkAssumption, FailedKeeps DEF LkOK, Senders
    <3>2. RxOK(lrx)' BY <1>0, <2>2, LinkAssumption, FailedKeeps DEF RxOK, LcpOK
    <3>3. SndOK(lsnd)' BY <1>0, <2>2, LinkAssumption, FailedKeeps DEF SndOK, SndRec, Senders
    <3>4. LcpOK(lcp)' BY <1>0, <2>2, LinkAssumption, FailedKeeps DEF LcpOK, FifoTrue
    <3>5. DepthOK'
      BY <1>0, <2>2, LinkAssumption, FailedKeeps DEF LkOK, SndOK, SndRec, DepthOK, HeldOff, Senders
    <3>6. HandlerArmed' BY <1>0, <2>2, LinkAssumption, FailedKeeps DEF LkOK, HandlerArmed
    <3>7. FifoTrue' BY <1>0, <2>2, LinkAssumption, FailedKeeps DEF LkOK, RxOK, LcpOK, FifoTrue
    <3>8. Announced'
      BY <1>0, <2>2, LinkAssumption, FailedKeeps DEF LkOK, RxOK, LcpOK, FifoTrue, Announced
    <3> QED BY <3>1, <3>2, <3>3, <3>4, <3>5, <3>6, <3>7, <3>8 DEF LinkInv
  <2> QED BY <1>0, <1>4, <2>1, <2>2 DEF skw_sdio_inband_irq_handler, skw_sdio_rx_up
<1>5. CASE skw_gpio_irq_handler
  <2>1. ASSUME NEW c \in BOOLEAN, lk.in, lk' = [lk EXCEPT !.up = TRUE, !.com = c], lrx' = lrx, lsnd' = lsnd, lcp' = [lcp EXCEPT !.pend = FALSE] PROVE LinkInv'
    <3>1. LkOK(lk)' BY <1>0, <2>1, LinkAssumption, FailedKeeps DEF LkOK, Senders
    <3>2. RxOK(lrx)' BY <1>0, <2>1, LinkAssumption, FailedKeeps DEF RxOK, LcpOK
    <3>3. SndOK(lsnd)' BY <1>0, <2>1, LinkAssumption, FailedKeeps DEF SndOK, SndRec, Senders
    <3>4. LcpOK(lcp)' BY <1>0, <2>1, LinkAssumption, FailedKeeps DEF LcpOK, FifoTrue
    <3>5. DepthOK'
      BY <1>0, <2>1, LinkAssumption, FailedKeeps DEF LkOK, SndOK, SndRec, DepthOK, HeldOff, Senders
    <3>6. HandlerArmed' BY <1>0, <2>1, LinkAssumption, FailedKeeps DEF LkOK, HandlerArmed
    <3>7. FifoTrue' BY <1>0, <2>1, LinkAssumption, FailedKeeps DEF LkOK, RxOK, LcpOK, FifoTrue
    <3>8. Announced'
      BY <1>0, <2>1, LinkAssumption, FailedKeeps DEF LkOK, RxOK, LcpOK, FifoTrue, Announced
    <3> QED BY <3>1, <3>2, <3>3, <3>4, <3>5, <3>6, <3>7, <3>8 DEF LinkInv
  <2>2. ASSUME NEW c \in BOOLEAN, ~lk.in, lk' = [lk EXCEPT !.com = c], lrx' = lrx, lsnd' = lsnd, lcp' = [lcp EXCEPT !.pend = FALSE] PROVE LinkInv'
    <3>1. LkOK(lk)' BY <1>0, <2>2, LinkAssumption, FailedKeeps DEF LkOK, Senders
    <3>2. RxOK(lrx)' BY <1>0, <2>2, LinkAssumption, FailedKeeps DEF RxOK, LcpOK
    <3>3. SndOK(lsnd)' BY <1>0, <2>2, LinkAssumption, FailedKeeps DEF SndOK, SndRec, Senders
    <3>4. LcpOK(lcp)' BY <1>0, <2>2, LinkAssumption, FailedKeeps DEF LcpOK, FifoTrue
    <3>5. DepthOK'
      BY <1>0, <2>2, LinkAssumption, FailedKeeps DEF LkOK, SndOK, SndRec, DepthOK, HeldOff, Senders
    <3>6. HandlerArmed' BY <1>0, <2>2, LinkAssumption, FailedKeeps DEF LkOK, HandlerArmed
    <3>7. FifoTrue' BY <1>0, <2>2, LinkAssumption, FailedKeeps DEF LkOK, RxOK, LcpOK, FifoTrue
    <3>8. Announced'
      BY <1>0, <2>2, LinkAssumption, FailedKeeps DEF LkOK, RxOK, LcpOK, FifoTrue, Announced
    <3> QED BY <3>1, <3>2, <3>3, <3>4, <3>5, <3>6, <3>7, <3>8 DEF LinkInv
  <2> QED
    <3>1. (lk.com \/ lk.in) \in BOOLEAN OBVIOUS
    <3>2. CASE lk.in
      BY <1>0, <1>5, <2>1, <3>1, <3>2 DEF skw_gpio_irq_handler, skw_sdio_rx_up, host_gpio_in_routine, LkOK
    <3>3. CASE ~lk.in
      BY <1>0, <1>5, <2>2, <3>1, <3>3 DEF skw_gpio_irq_handler, skw_sdio_rx_up, host_gpio_in_routine, LkOK
    <3> QED BY <3>2, <3>3
<1>6. CASE kick_rx_thread
  <2>1. LkOK(lk)'
    BY <1>0, <1>6, LinkAssumption, FailedKeeps DEF kick_rx_thread, skw_sdio_rx_up, LkOK, Senders
  <2>2. RxOK(lrx)'
    BY <1>0, <1>6, LinkAssumption, FailedKeeps DEF kick_rx_thread, skw_sdio_rx_up, RxOK, LcpOK
  <2>3. SndOK(lsnd)'
    BY <1>0, <1>6, LinkAssumption, FailedKeeps DEF kick_rx_thread, skw_sdio_rx_up, SndOK, SndRec, Senders
  <2>4. LcpOK(lcp)'
    BY <1>0, <1>6, LinkAssumption, FailedKeeps DEF kick_rx_thread, skw_sdio_rx_up, LcpOK, FifoTrue
  <2>5. DepthOK'
    BY <1>0, <1>6, LinkAssumption, FailedKeeps DEF kick_rx_thread, skw_sdio_rx_up, LkOK, SndOK, SndRec, DepthOK,
       HeldOff, Senders
  <2>6. HandlerArmed'
    BY <1>0, <1>6, LinkAssumption, FailedKeeps DEF kick_rx_thread, skw_sdio_rx_up, LkOK, HandlerArmed
  <2>7. FifoTrue'
    BY <1>0, <1>6, LinkAssumption, FailedKeeps DEF kick_rx_thread, skw_sdio_rx_up, LkOK, RxOK, LcpOK, FifoTrue
  <2>8. Announced'
    BY <1>0, <1>6, LinkAssumption, FailedKeeps DEF kick_rx_thread, skw_sdio_rx_up, LkOK, RxOK, LcpOK, FifoTrue,
       Announced
  <2> QED BY <2>1, <2>2, <2>3, <2>4, <2>5, <2>6, <2>7, <2>8 DEF LinkInv
<1>7. CASE skw_sdio_rx_down
  <2>1. LkOK(lk)' BY <1>0, <1>7, LinkAssumption, FailedKeeps DEF skw_sdio_rx_down, LkOK, Senders
  <2>2. RxOK(lrx)' BY <1>0, <1>7, LinkAssumption, FailedKeeps DEF skw_sdio_rx_down, RxOK, LcpOK
  <2>3. SndOK(lsnd)'
    BY <1>0, <1>7, LinkAssumption, FailedKeeps DEF skw_sdio_rx_down, SndOK, SndRec, Senders
  <2>4. LcpOK(lcp)' BY <1>0, <1>7, LinkAssumption, FailedKeeps DEF skw_sdio_rx_down, LcpOK, FifoTrue
  <2>5. DepthOK'
    BY <1>0, <1>7, LinkAssumption, FailedKeeps DEF skw_sdio_rx_down, LkOK, SndOK, SndRec, DepthOK, HeldOff,
       Senders
  <2>6. HandlerArmed'
    BY <1>0, <1>7, LinkAssumption, FailedKeeps DEF skw_sdio_rx_down, LkOK, HandlerArmed
  <2>7. FifoTrue'
    BY <1>0, <1>7, LinkAssumption, FailedKeeps DEF skw_sdio_rx_down, LkOK, RxOK, LcpOK, FifoTrue
  <2>8. Announced'
    BY <1>0, <1>7, LinkAssumption, FailedKeeps DEF skw_sdio_rx_down, LkOK, RxOK, LcpOK, FifoTrue, Announced
  <2> QED BY <2>1, <2>2, <2>3, <2>4, <2>5, <2>6, <2>7, <2>8 DEF LinkInv
<1>8. CASE RxCheck
  <2>1. CASE /\ lk.irq = "external" /\ (lk.in => lcp.fifo = lrx.seen) /\ lrx.pc = "check"
             /\ lk' = lk
             /\ lrx' = [lrx EXCEPT !.pc = "down"]
             /\ lsnd' = lsnd
             /\ lcp' = lcp
    <3>1. LkOK(lk)' BY <1>0, <2>1, LinkAssumption, FailedKeeps DEF LkOK, Senders
    <3>2. RxOK(lrx)' BY <1>0, <2>1, LinkAssumption, FailedKeeps DEF RxOK, LcpOK
    <3>3. SndOK(lsnd)' BY <1>0, <2>1, LinkAssumption, FailedKeeps DEF SndOK, SndRec, Senders
    <3>4. LcpOK(lcp)' BY <1>0, <2>1, LinkAssumption, FailedKeeps DEF LcpOK, FifoTrue
    <3>5. DepthOK'
      BY <1>0, <2>1, LinkAssumption, FailedKeeps DEF LkOK, SndOK, SndRec, DepthOK, HeldOff, Senders
    <3>6. HandlerArmed' BY <1>0, <2>1, LinkAssumption, FailedKeeps DEF LkOK, HandlerArmed
    <3>7. FifoTrue' BY <1>0, <2>1, LinkAssumption, FailedKeeps DEF LkOK, RxOK, LcpOK, FifoTrue
    <3>8. Announced'
      BY <1>0, <2>1, LinkAssumption, FailedKeeps DEF LkOK, RxOK, LcpOK, FifoTrue, Announced
    <3> QED BY <3>1, <3>2, <3>3, <3>4, <3>5, <3>6, <3>7, <3>8 DEF LinkInv
  <2>2. CASE /\ lrx.pc = "check"
             /\ lk' = lk
             /\ lrx' = [lrx EXCEPT !.pc = "down"]
             /\ lsnd' = lsnd
             /\ lcp' = Failed(lcp)
    <3>1. LkOK(lk)' BY <1>0, <2>2, LinkAssumption, FailedKeeps DEF LkOK, Senders
    <3>2. RxOK(lrx)' BY <1>0, <2>2, LinkAssumption, FailedKeeps DEF RxOK, LcpOK
    <3>3. SndOK(lsnd)' BY <1>0, <2>2, LinkAssumption, FailedKeeps DEF SndOK, SndRec, Senders
    <3>4. LcpOK(lcp)' BY <1>0, <2>2, LinkAssumption, FailedKeeps DEF LcpOK, FifoTrue
    <3>5. DepthOK'
      BY <1>0, <2>2, LinkAssumption, FailedKeeps DEF LkOK, SndOK, SndRec, DepthOK, HeldOff, Senders
    <3>6. HandlerArmed' BY <1>0, <2>2, LinkAssumption, FailedKeeps DEF LkOK, HandlerArmed
    <3>7. FifoTrue' BY <1>0, <2>2, LinkAssumption, FailedKeeps DEF LkOK, RxOK, LcpOK, FifoTrue
    <3>8. Announced'
      BY <1>0, <2>2, LinkAssumption, FailedKeeps DEF LkOK, RxOK, LcpOK, FifoTrue, Announced
    <3> QED BY <3>1, <3>2, <3>3, <3>4, <3>5, <3>6, <3>7, <3>8 DEF LinkInv
  <2>3. CASE /\ lrx.pc = "check"
             /\ lk' = [lk EXCEPT !.kick = FALSE]
             /\ lrx' = [lrx EXCEPT !.pc = "read", !.seen = lcp.fifo]
             /\ lsnd' = lsnd
             /\ lcp' = lcp
    <3>1. LkOK(lk)' BY <1>0, <2>3, LinkAssumption, FailedKeeps DEF LkOK, Senders
    <3>2. RxOK(lrx)' BY <1>0, <2>3, LinkAssumption, FailedKeeps DEF RxOK, LcpOK
    <3>3. SndOK(lsnd)' BY <1>0, <2>3, LinkAssumption, FailedKeeps DEF SndOK, SndRec, Senders
    <3>4. LcpOK(lcp)' BY <1>0, <2>3, LinkAssumption, FailedKeeps DEF LcpOK, FifoTrue
    <3>5. DepthOK'
      BY <1>0, <2>3, LinkAssumption, FailedKeeps DEF LkOK, SndOK, SndRec, DepthOK, HeldOff, Senders
    <3>6. HandlerArmed' BY <1>0, <2>3, LinkAssumption, FailedKeeps DEF LkOK, HandlerArmed
    <3>7. FifoTrue' BY <1>0, <2>3, LinkAssumption, FailedKeeps DEF LkOK, RxOK, LcpOK, FifoTrue
    <3>8. Announced'
      BY <1>0, <2>3, LinkAssumption, FailedKeeps DEF LkOK, RxOK, LcpOK, FifoTrue, Announced
    <3> QED BY <3>1, <3>2, <3>3, <3>4, <3>5, <3>6, <3>7, <3>8 DEF LinkInv
  <2> QED BY <1>0, <1>8, <2>1, <2>2, <2>3 DEF RxCheck
<1>9. CASE RxRead
  <2>1. ASSUME NEW g \in 0..lcp.left, ~lk.off, lrx.pc = "read", lk' = lk, lrx' = [lrx EXCEPT !.pc = "submit", !.nsize = lcp.left - g], lsnd' = lsnd, lcp' = [lcp EXCEPT !.left = lcp.left - g] PROVE LinkInv'
    <3>1. LkOK(lk)' BY <1>0, <2>1, LinkAssumption, FailedKeeps DEF LkOK, Senders
    <3>2. RxOK(lrx)' BY <1>0, <2>1, LinkAssumption, FailedKeeps DEF RxOK, LcpOK
    <3>3. SndOK(lsnd)' BY <1>0, <2>1, LinkAssumption, FailedKeeps DEF SndOK, SndRec, Senders
    <3>4. LcpOK(lcp)' BY <1>0, <2>1, LinkAssumption, FailedKeeps DEF LcpOK, FifoTrue
    <3>5. DepthOK'
      BY <1>0, <2>1, LinkAssumption, FailedKeeps DEF LkOK, SndOK, SndRec, DepthOK, HeldOff, Senders
    <3>6. HandlerArmed' BY <1>0, <2>1, LinkAssumption, FailedKeeps DEF LkOK, HandlerArmed
    <3>7. FifoTrue' BY <1>0, <2>1, LinkAssumption, FailedKeeps DEF LkOK, RxOK, LcpOK, FifoTrue
    <3>8. Announced'
      BY <1>0, <2>1, LinkAssumption, FailedKeeps DEF LkOK, RxOK, LcpOK, FifoTrue, Announced
    <3> QED BY <3>1, <3>2, <3>3, <3>4, <3>5, <3>6, <3>7, <3>8 DEF LinkInv
  <2>2. CASE /\ lk.off /\ lrx.pc = "read"
             /\ lk' = lk
             /\ lrx' = [lrx EXCEPT !.pc = "submit", !.nsize = 0]
             /\ lsnd' = lsnd
             /\ lcp' = lcp
    <3>1. LkOK(lk)' BY ZenonT(40), <1>0, <2>2, LinkAssumption, FailedKeeps DEF LkOK, Senders
    <3>2. RxOK(lrx)' BY <1>0, <2>2, LinkAssumption, FailedKeeps DEF RxOK, LcpOK
    <3>3. SndOK(lsnd)' BY <1>0, <2>2, LinkAssumption, FailedKeeps DEF SndOK, SndRec, Senders
    <3>4. LcpOK(lcp)' BY <1>0, <2>2, LinkAssumption, FailedKeeps DEF LcpOK, FifoTrue
    <3>5. DepthOK'
      BY <1>0, <2>2, LinkAssumption, FailedKeeps DEF LkOK, SndOK, SndRec, DepthOK, HeldOff, Senders
    <3>6. HandlerArmed' BY <1>0, <2>2, LinkAssumption, FailedKeeps DEF LkOK, HandlerArmed
    <3>7. FifoTrue' BY <1>0, <2>2, LinkAssumption, FailedKeeps DEF LkOK, RxOK, LcpOK, FifoTrue
    <3>8. Announced'
      BY <1>0, <2>2, LinkAssumption, FailedKeeps DEF LkOK, RxOK, LcpOK, FifoTrue, Announced
    <3> QED BY <3>1, <3>2, <3>3, <3>4, <3>5, <3>6, <3>7, <3>8 DEF LinkInv
  <2>3. ASSUME NEW n \in Nat, lrx.pc = "read", lk' = lk, lrx' = [lrx EXCEPT !.pc = "submit", !.nsize = n], lsnd' = lsnd, lcp' = Failed(lcp) PROVE LinkInv'
    <3>1. LkOK(lk)' BY <1>0, <2>3, LinkAssumption, FailedKeeps DEF LkOK, Senders
    <3>2. RxOK(lrx)' BY <1>0, <2>3, LinkAssumption, FailedKeeps DEF RxOK, LcpOK
    <3>3. SndOK(lsnd)' BY <1>0, <2>3, LinkAssumption, FailedKeeps DEF SndOK, SndRec, Senders
    <3>4. LcpOK(lcp)' BY <1>0, <2>3, LinkAssumption, FailedKeeps DEF LcpOK, FifoTrue
    <3>5. DepthOK'
      BY <1>0, <2>3, LinkAssumption, FailedKeeps DEF LkOK, SndOK, SndRec, DepthOK, HeldOff, Senders
    <3>6. HandlerArmed' BY <1>0, <2>3, LinkAssumption, FailedKeeps DEF LkOK, HandlerArmed
    <3>7. FifoTrue' BY <1>0, <2>3, LinkAssumption, FailedKeeps DEF LkOK, RxOK, LcpOK, FifoTrue
    <3>8. Announced'
      BY <1>0, <2>3, LinkAssumption, FailedKeeps DEF LkOK, RxOK, LcpOK, FifoTrue, Announced
    <3> QED BY <3>1, <3>2, <3>3, <3>4, <3>5, <3>6, <3>7, <3>8 DEF LinkInv
  <2> QED
    <3> DEFINE g == Fewer(BatchSize, lcp.left)
    <3>1. g \in 0..lcp.left BY <1>0, LinkAssumption DEF RxOK, LcpOK, BatchSize, Fewer
    <3>2. lrx.nsize \in Nat BY <1>0 DEF RxOK
    <3> HIDE DEF g
    <3>3. CASE ReadBatch /\ ~lk.off BY <1>9, <2>1, <3>1, <3>3 DEF RxRead, ReadBatch, g
    <3> QED BY <1>9, <2>2, <2>3, <3>2, <3>3 DEF RxRead
<1>10. CASE RxSubmit
  <2>1. LkOK(lk)'
    BY <1>0, <1>10, LinkAssumption, FailedKeeps DEF RxSubmit, skw_sdio_adma_set_packet_num, Fewer, LkOK, Senders
  <2>2. RxOK(lrx)'
    BY <1>0, <1>10, LinkAssumption, FailedKeeps DEF RxSubmit, skw_sdio_adma_set_packet_num, Fewer, RxOK, LcpOK
  <2>3. SndOK(lsnd)'
    BY <1>0, <1>10, LinkAssumption, FailedKeeps DEF RxSubmit, skw_sdio_adma_set_packet_num, Fewer, SndOK, SndRec,
       Senders
  <2>4. LcpOK(lcp)'
    BY <1>0, <1>10, LinkAssumption, FailedKeeps DEF RxSubmit, skw_sdio_adma_set_packet_num, Fewer, LcpOK, FifoTrue
  <2>5. DepthOK'
    BY <1>0, <1>10, LinkAssumption, FailedKeeps DEF RxSubmit, skw_sdio_adma_set_packet_num, Fewer, LkOK, SndOK,
       SndRec, DepthOK, HeldOff, Senders
  <2>6. HandlerArmed'
    BY <1>0, <1>10, LinkAssumption, FailedKeeps DEF RxSubmit, skw_sdio_adma_set_packet_num, Fewer, LkOK,
       HandlerArmed
  <2>7. FifoTrue'
    BY <1>0, <1>10, LinkAssumption, FailedKeeps DEF RxSubmit, skw_sdio_adma_set_packet_num, Fewer, LkOK, RxOK,
       LcpOK, FifoTrue
  <2>8. Announced'
    BY <1>0, <1>10, LinkAssumption, FailedKeeps DEF RxSubmit, skw_sdio_adma_set_packet_num, Fewer, LkOK, RxOK,
       LcpOK, FifoTrue, Announced
  <2> QED BY <2>1, <2>2, <2>3, <2>4, <2>5, <2>6, <2>7, <2>8 DEF LinkInv
<1>11. CASE skw_sdio_suspend
  <2>1. LkOK(lk)' BY <1>0, <1>11, LinkAssumption, FailedKeeps DEF skw_sdio_suspend, Pm, LkOK, Senders
  <2>2. RxOK(lrx)' BY <1>0, <1>11, LinkAssumption, FailedKeeps DEF skw_sdio_suspend, Pm, RxOK, LcpOK
  <2>3. SndOK(lsnd)'
    BY <1>0, <1>11, LinkAssumption, FailedKeeps DEF skw_sdio_suspend, Pm, SndOK, SndRec, Senders
  <2>4. LcpOK(lcp)'
    BY <1>0, <1>11, LinkAssumption, FailedKeeps DEF skw_sdio_suspend, Pm, LcpOK, FifoTrue
  <2>5. DepthOK'
    BY <1>0, <1>11, LinkAssumption, FailedKeeps DEF skw_sdio_suspend, Pm, LkOK, SndOK, SndRec, DepthOK, HeldOff,
       Senders
  <2>6. HandlerArmed'
    BY <1>0, <1>11, LinkAssumption, FailedKeeps DEF skw_sdio_suspend, Pm, LkOK, HandlerArmed
  <2>7. FifoTrue'
    BY <1>0, <1>11, LinkAssumption, FailedKeeps DEF skw_sdio_suspend, Pm, LkOK, RxOK, LcpOK, FifoTrue
  <2>8. Announced'
    BY <1>0, <1>11, LinkAssumption, FailedKeeps DEF skw_sdio_suspend, Pm, LkOK, RxOK, LcpOK, FifoTrue, Announced
  <2> QED BY <2>1, <2>2, <2>3, <2>4, <2>5, <2>6, <2>7, <2>8 DEF LinkInv
<1>12. CASE send_host_suspend_indication
  <2>1. CASE /\ lk.pm = "indicate"
             /\ lk' = [lk EXCEPT !.pm = "release"]
             /\ lrx' = lrx
             /\ lsnd' = lsnd
             /\ lcp' = lcp
    <3>1. LkOK(lk)' BY <1>0, <2>1, LinkAssumption, FailedKeeps DEF LkOK, Senders
    <3>2. RxOK(lrx)' BY <1>0, <2>1, LinkAssumption, FailedKeeps DEF RxOK, LcpOK
    <3>3. SndOK(lsnd)' BY <1>0, <2>1, LinkAssumption, FailedKeeps DEF SndOK, SndRec, Senders
    <3>4. LcpOK(lcp)' BY <1>0, <2>1, LinkAssumption, FailedKeeps DEF LcpOK, FifoTrue
    <3>5. DepthOK'
      BY <1>0, <2>1, LinkAssumption, FailedKeeps DEF LkOK, SndOK, SndRec, DepthOK, HeldOff, Senders
    <3>6. HandlerArmed' BY <1>0, <2>1, LinkAssumption, FailedKeeps DEF LkOK, HandlerArmed
    <3>7. FifoTrue' BY <1>0, <2>1, LinkAssumption, FailedKeeps DEF LkOK, RxOK, LcpOK, FifoTrue
    <3>8. Announced'
      BY <1>0, <2>1, LinkAssumption, FailedKeeps DEF LkOK, RxOK, LcpOK, FifoTrue, Announced
    <3> QED BY <3>1, <3>2, <3>3, <3>4, <3>5, <3>6, <3>7, <3>8 DEF LinkInv
  <2>2. CASE /\ lk.pm = "indicate"
             /\ lk' = [lk EXCEPT !.pm = "quiet", !.depth = lk.depth]
             /\ lrx' = lrx
             /\ lsnd' = lsnd
             /\ lcp' = lcp
    <3>1. LkOK(lk)' BY <1>0, <2>2, LinkAssumption, FailedKeeps DEF LkOK, Senders
    <3>2. RxOK(lrx)' BY <1>0, <2>2, LinkAssumption, FailedKeeps DEF RxOK, LcpOK
    <3>3. SndOK(lsnd)' BY <1>0, <2>2, LinkAssumption, FailedKeeps DEF SndOK, SndRec, Senders
    <3>4. LcpOK(lcp)' BY <1>0, <2>2, LinkAssumption, FailedKeeps DEF LcpOK, FifoTrue
    <3>5. DepthOK'
      BY <1>0, <2>2, LinkAssumption, FailedKeeps DEF LkOK, SndOK, SndRec, DepthOK, HeldOff, Senders
    <3>6. HandlerArmed' BY <1>0, <2>2, LinkAssumption, FailedKeeps DEF LkOK, HandlerArmed
    <3>7. FifoTrue' BY <1>0, <2>2, LinkAssumption, FailedKeeps DEF LkOK, RxOK, LcpOK, FifoTrue
    <3>8. Announced'
      BY <1>0, <2>2, LinkAssumption, FailedKeeps DEF LkOK, RxOK, LcpOK, FifoTrue, Announced
    <3> QED BY <3>1, <3>2, <3>3, <3>4, <3>5, <3>6, <3>7, <3>8 DEF LinkInv
  <2>3. CASE /\ lk.irq = "external" /\ lk.pm = "indicate"
             /\ lk' = [lk EXCEPT !.pm = "quiet", !.depth = lk.depth + 1]
             /\ lrx' = lrx
             /\ lsnd' = lsnd
             /\ lcp' = lcp
    <3>1. LkOK(lk)' BY <1>0, <2>3, LinkAssumption, FailedKeeps DEF LkOK, Senders
    <3>2. RxOK(lrx)' BY <1>0, <2>3, LinkAssumption, FailedKeeps DEF RxOK, LcpOK
    <3>3. SndOK(lsnd)' BY <1>0, <2>3, LinkAssumption, FailedKeeps DEF SndOK, SndRec, Senders
    <3>4. LcpOK(lcp)' BY <1>0, <2>3, LinkAssumption, FailedKeeps DEF LcpOK, FifoTrue
    <3>5. DepthOK'
      BY <1>0, <2>3, LinkAssumption, FailedKeeps DEF LkOK, SndOK, SndRec, DepthOK, HeldOff, Senders
    <3>6. HandlerArmed' BY <1>0, <2>3, LinkAssumption, FailedKeeps DEF LkOK, HandlerArmed
    <3>7. FifoTrue' BY <1>0, <2>3, LinkAssumption, FailedKeeps DEF LkOK, RxOK, LcpOK, FifoTrue
    <3>8. Announced'
      BY <1>0, <2>3, LinkAssumption, FailedKeeps DEF LkOK, RxOK, LcpOK, FifoTrue, Announced
    <3> QED BY <3>1, <3>2, <3>3, <3>4, <3>5, <3>6, <3>7, <3>8 DEF LinkInv
  <2> QED BY <1>0, <1>12, <2>1, <2>2, <2>3 DEF send_host_suspend_indication, Pm, LkOK
<1>13. CASE QuietEnds
  <2>1. CASE /\ lk.pm = "quiet" /\ lk.depth = HeldOff + 1
             /\ lk' = [lk EXCEPT !.pm = "release", !.depth = lk.depth - 1]
             /\ lrx' = lrx
             /\ lsnd' = lsnd
             /\ lcp' = lcp
    <3>1. LkOK(lk)' BY <1>0, <2>1, LinkAssumption, FailedKeeps DEF LkOK, Senders
    <3>2. RxOK(lrx)' BY <1>0, <2>1, LinkAssumption, FailedKeeps DEF RxOK, LcpOK
    <3>3. SndOK(lsnd)' BY <1>0, <2>1, LinkAssumption, FailedKeeps DEF SndOK, SndRec, Senders
    <3>4. LcpOK(lcp)' BY <1>0, <2>1, LinkAssumption, FailedKeeps DEF LcpOK, FifoTrue
    <3>5. DepthOK'
      BY <1>0, <2>1, LinkAssumption, FailedKeeps DEF LkOK, SndOK, SndRec, DepthOK, HeldOff, Senders
    <3>6. HandlerArmed' BY <1>0, <2>1, LinkAssumption, FailedKeeps DEF LkOK, HandlerArmed
    <3>7. FifoTrue' BY <1>0, <2>1, LinkAssumption, FailedKeeps DEF LkOK, RxOK, LcpOK, FifoTrue
    <3>8. Announced'
      BY <1>0, <2>1, LinkAssumption, FailedKeeps DEF LkOK, RxOK, LcpOK, FifoTrue, Announced
    <3> QED BY <3>1, <3>2, <3>3, <3>4, <3>5, <3>6, <3>7, <3>8 DEF LinkInv
  <2>2. CASE /\ lk.pm = "quiet" /\ lk.depth = HeldOff
             /\ lk' = [lk EXCEPT !.pm = "release", !.depth = lk.depth]
             /\ lrx' = lrx
             /\ lsnd' = lsnd
             /\ lcp' = lcp
    <3>1. LkOK(lk)' BY <1>0, <2>2, LinkAssumption, FailedKeeps DEF LkOK, Senders
    <3>2. RxOK(lrx)' BY <1>0, <2>2, LinkAssumption, FailedKeeps DEF RxOK, LcpOK
    <3>3. SndOK(lsnd)' BY <1>0, <2>2, LinkAssumption, FailedKeeps DEF SndOK, SndRec, Senders
    <3>4. LcpOK(lcp)' BY <1>0, <2>2, LinkAssumption, FailedKeeps DEF LcpOK, FifoTrue
    <3>5. DepthOK'
      BY <1>0, <2>2, LinkAssumption, FailedKeeps DEF LkOK, SndOK, SndRec, DepthOK, HeldOff, Senders
    <3>6. HandlerArmed' BY <1>0, <2>2, LinkAssumption, FailedKeeps DEF LkOK, HandlerArmed
    <3>7. FifoTrue' BY <1>0, <2>2, LinkAssumption, FailedKeeps DEF LkOK, RxOK, LcpOK, FifoTrue
    <3>8. Announced'
      BY <1>0, <2>2, LinkAssumption, FailedKeeps DEF LkOK, RxOK, LcpOK, FifoTrue, Announced
    <3> QED BY <3>1, <3>2, <3>3, <3>4, <3>5, <3>6, <3>7, <3>8 DEF LinkInv
  <2> QED
    <3>1. PICK held \in BOOLEAN : /\ held = (lk.depth > HeldOff)
                               /\ Pm("quiet", [lk EXCEPT !.pm = "release", !.depth = IF held THEN @ - 1 ELSE @])
      BY <1>0, <1>13, HeldCount DEF QuietEnds
    <3>2. lk.depth = HeldOff \/ lk.depth = HeldOff + 1 BY <1>0, <3>1 DEF DepthOK, Pm
    <3>3. HeldOff \in Int BY DEF HeldOff
    <3>4. lcp' = lcp BY <1>13 DEF QuietEnds
    <3>5. CASE held
      <4>1. (lk.depth > HeldOff) BY <3>1, <3>5
      <4>2. lk.depth = HeldOff + 1 BY <3>2, <3>3, <4>1
      <4>3. lk.pm = "quiet" /\ lk' = [lk EXCEPT !.pm = "release", !.depth = lk.depth - 1] /\ lrx' = lrx /\ lsnd' = lsnd
        BY <3>1, <3>5 DEF Pm
      <4> QED BY <2>1, <3>4, <4>2, <4>3
    <3>6. CASE ~held
      <4>1. ~(lk.depth > HeldOff) BY <3>1, <3>6
      <4>2. lk.depth = HeldOff BY <3>2, <3>3, <4>1
      <4>3. lk.pm = "quiet" /\ lk' = [lk EXCEPT !.pm = "release", !.depth = lk.depth] /\ lrx' = lrx /\ lsnd' = lsnd
        BY <3>1, <3>6 DEF Pm
      <4> QED BY <2>2, <3>4, <4>2, <4>3
    <3> QED BY <3>5, <3>6
<1>14. CASE SuspendReleases
  <2>1. CASE /\ lk.pm = "release"
             /\ lk' = [lk EXCEPT !.pm = "off", !.com = FALSE, !.handler = FALSE]
             /\ lrx' = lrx
             /\ lsnd' = lsnd
             /\ lcp' = lcp
    <3>1. LkOK(lk)' BY <1>0, <2>1, LinkAssumption, FailedKeeps DEF LkOK, Senders
    <3>2. RxOK(lrx)' BY <1>0, <2>1, LinkAssumption, FailedKeeps DEF RxOK, LcpOK
    <3>3. SndOK(lsnd)' BY <1>0, <2>1, LinkAssumption, FailedKeeps DEF SndOK, SndRec, Senders
    <3>4. LcpOK(lcp)' BY <1>0, <2>1, LinkAssumption, FailedKeeps DEF LcpOK, FifoTrue
    <3>5. DepthOK'
      BY <1>0, <2>1, LinkAssumption, FailedKeeps DEF LkOK, SndOK, SndRec, DepthOK, HeldOff, Senders
    <3>6. HandlerArmed' BY <1>0, <2>1, LinkAssumption, FailedKeeps DEF LkOK, HandlerArmed
    <3>7. FifoTrue' BY <1>0, <2>1, LinkAssumption, FailedKeeps DEF LkOK, RxOK, LcpOK, FifoTrue
    <3>8. Announced'
      BY <1>0, <2>1, LinkAssumption, FailedKeeps DEF LkOK, RxOK, LcpOK, FifoTrue, Announced
    <3> QED BY <3>1, <3>2, <3>3, <3>4, <3>5, <3>6, <3>7, <3>8 DEF LinkInv
  <2>2. CASE /\ lk.pm = "release"
             /\ lk' = [lk EXCEPT !.pm = "off", !.com = FALSE, !.handler = lk.handler]
             /\ lrx' = lrx
             /\ lsnd' = lsnd
             /\ lcp' = lcp
    <3>1. LkOK(lk)' BY <1>0, <2>2, LinkAssumption, FailedKeeps DEF LkOK, Senders
    <3>2. RxOK(lrx)' BY <1>0, <2>2, LinkAssumption, FailedKeeps DEF RxOK, LcpOK
    <3>3. SndOK(lsnd)' BY <1>0, <2>2, LinkAssumption, FailedKeeps DEF SndOK, SndRec, Senders
    <3>4. LcpOK(lcp)' BY <1>0, <2>2, LinkAssumption, FailedKeeps DEF LcpOK, FifoTrue
    <3>5. DepthOK'
      BY <1>0, <2>2, LinkAssumption, FailedKeeps DEF LkOK, SndOK, SndRec, DepthOK, HeldOff, Senders
    <3>6. HandlerArmed' BY <1>0, <2>2, LinkAssumption, FailedKeeps DEF LkOK, HandlerArmed
    <3>7. FifoTrue' BY <1>0, <2>2, LinkAssumption, FailedKeeps DEF LkOK, RxOK, LcpOK, FifoTrue
    <3>8. Announced'
      BY <1>0, <2>2, LinkAssumption, FailedKeeps DEF LkOK, RxOK, LcpOK, FifoTrue, Announced
    <3> QED BY <3>1, <3>2, <3>3, <3>4, <3>5, <3>6, <3>7, <3>8 DEF LinkInv
  <2> QED BY <1>0, <1>14, <2>1, <2>2 DEF SuspendReleases, Pm
<1>15. CASE skw_sdio_resume
  <2>1. LkOK(lk)' BY <1>0, <1>15, LinkAssumption, FailedKeeps DEF skw_sdio_resume, Pm, LkOK, Senders
  <2>2. RxOK(lrx)' BY <1>0, <1>15, LinkAssumption, FailedKeeps DEF skw_sdio_resume, Pm, RxOK, LcpOK
  <2>3. SndOK(lsnd)'
    BY <1>0, <1>15, LinkAssumption, FailedKeeps DEF skw_sdio_resume, Pm, SndOK, SndRec, Senders
  <2>4. LcpOK(lcp)'
    BY <1>0, <1>15, LinkAssumption, FailedKeeps DEF skw_sdio_resume, Pm, LcpOK, FifoTrue
  <2>5. DepthOK'
    BY <1>0, <1>15, LinkAssumption, FailedKeeps DEF skw_sdio_resume, Pm, LkOK, SndOK, SndRec, DepthOK, HeldOff,
       Senders
  <2>6. HandlerArmed'
    BY <1>0, <1>15, LinkAssumption, FailedKeeps DEF skw_sdio_resume, Pm, LkOK, HandlerArmed
  <2>7. FifoTrue'
    BY <1>0, <1>15, LinkAssumption, FailedKeeps DEF skw_sdio_resume, Pm, LkOK, RxOK, LcpOK, FifoTrue
  <2>8. Announced'
    BY <1>0, <1>15, LinkAssumption, FailedKeeps DEF skw_sdio_resume, Pm, LkOK, RxOK, LcpOK, FifoTrue, Announced
  <2> QED BY <2>1, <2>2, <2>3, <2>4, <2>5, <2>6, <2>7, <2>8 DEF LinkInv
<1>16. CASE ResumeClaims
  <2>1. LkOK(lk)'
    BY <1>0, <1>16, LinkAssumption, FailedKeeps DEF ResumeClaims, Pm, Claim, LkOK, Senders
  <2>2. RxOK(lrx)'
    BY <1>0, <1>16, LinkAssumption, FailedKeeps DEF ResumeClaims, Pm, Claim, RxOK, LcpOK
  <2>3. SndOK(lsnd)'
    BY <1>0, <1>16, LinkAssumption, FailedKeeps DEF ResumeClaims, Pm, Claim, SndOK, SndRec, Senders
  <2>4. LcpOK(lcp)'
    BY <1>0, <1>16, LinkAssumption, FailedKeeps DEF ResumeClaims, Pm, Claim, LcpOK, FifoTrue
  <2>5. DepthOK'
    BY ZenonT(40), <1>0, <1>16, LinkAssumption, FailedKeeps DEF ResumeClaims, Pm, Claim, LkOK, SndOK, SndRec,
       DepthOK, HeldOff, Senders
  <2>6. HandlerArmed'
    BY <1>0, <1>16, LinkAssumption, FailedKeeps DEF ResumeClaims, Pm, Claim, LkOK, HandlerArmed
  <2>7. FifoTrue'
    BY ZenonT(40), <1>0, <1>16, LinkAssumption, FailedKeeps DEF ResumeClaims, Pm, Claim, LkOK, RxOK, LcpOK,
       FifoTrue
  <2>8. Announced'
    BY ZenonT(40), <1>0, <1>16, LinkAssumption, FailedKeeps DEF ResumeClaims, Pm, Claim, LkOK, RxOK, LcpOK,
       FifoTrue, Announced
  <2> QED BY <2>1, <2>2, <2>3, <2>4, <2>5, <2>6, <2>7, <2>8 DEF LinkInv
<1>17. CASE PowerOff
  <2>1. LkOK(lk)' BY <1>0, <1>17, LinkAssumption, FailedKeeps DEF PowerOff, LkOK, Senders
  <2>2. RxOK(lrx)' BY <1>0, <1>17, LinkAssumption, FailedKeeps DEF PowerOff, RxOK, LcpOK
  <2>3. SndOK(lsnd)' BY <1>0, <1>17, LinkAssumption, FailedKeeps DEF PowerOff, SndOK, SndRec, Senders
  <2>4. LcpOK(lcp)' BY <1>0, <1>17, LinkAssumption, FailedKeeps DEF PowerOff, LcpOK, FifoTrue
  <2>5. DepthOK'
    BY <1>0, <1>17, LinkAssumption, FailedKeeps DEF PowerOff, LkOK, SndOK, SndRec, DepthOK, HeldOff, Senders
  <2>6. HandlerArmed' BY <1>0, <1>17, LinkAssumption, FailedKeeps DEF PowerOff, LkOK, HandlerArmed
  <2>7. FifoTrue'
    BY <1>0, <1>17, LinkAssumption, FailedKeeps DEF PowerOff, LkOK, RxOK, LcpOK, FifoTrue
  <2>8. Announced'
    BY <1>0, <1>17, LinkAssumption, FailedKeeps DEF PowerOff, LkOK, RxOK, LcpOK, FifoTrue, Announced
  <2> QED BY <2>1, <2>2, <2>3, <2>4, <2>5, <2>6, <2>7, <2>8 DEF LinkInv
<1>18. ASSUME NEW s \in Senders, SendStart(s) PROVE LinkInv'
  <2>1. CASE /\ s = "wow" /\ lk.irq = "external" /\ lsnd[s].pc = "idle" /\ ~lsnd[s].held
             /\ lk' = [lk EXCEPT !.depth = lk.depth + 1]
             /\ lrx' = lrx
             /\ lsnd' = [lsnd EXCEPT ![s] = [pc |-> "wake", i |-> 0, held |-> TRUE]]
             /\ lcp' = [lcp EXCEPT !.sent = @ + 1]
    <3>1. LkOK(lk)' BY <1>0, <2>1, LinkAssumption, FailedKeeps DEF LkOK, Senders
    <3>2. RxOK(lrx)' BY <1>0, <2>1, LinkAssumption, FailedKeeps DEF RxOK, LcpOK
    <3>3. SndOK(lsnd)'
      <4>1. SndRec([pc |-> "wake", i |-> 0, held |-> TRUE]) BY DEF SndRec
      <4>2. SndOK([lsnd EXCEPT ![s] = [pc |-> "wake", i |-> 0, held |-> TRUE]]) BY <1>0, <4>1, SndSet
      <4> QED BY <2>1, <4>2
    <3>4. LcpOK(lcp)' BY <1>0, <2>1, LinkAssumption, FailedKeeps DEF LcpOK, FifoTrue
    <3>5. DepthOK'
      BY <1>0, <2>1, LinkAssumption, FailedKeeps DEF LkOK, SndOK, SndRec, DepthOK, HeldOff, Senders
    <3>6. HandlerArmed' BY <1>0, <2>1, LinkAssumption, FailedKeeps DEF LkOK, HandlerArmed
    <3>7. FifoTrue' BY <1>0, <2>1, LinkAssumption, FailedKeeps DEF LkOK, RxOK, LcpOK, FifoTrue
    <3>8. Announced'
      BY <1>0, <2>1, LinkAssumption, FailedKeeps DEF LkOK, RxOK, LcpOK, FifoTrue, Announced
    <3> QED BY <3>1, <3>2, <3>3, <3>4, <3>5, <3>6, <3>7, <3>8 DEF LinkInv
  <2>2. CASE /\ lsnd[s].pc = "idle" /\ ~lsnd[s].held
             /\ lk' = [lk EXCEPT !.depth = lk.depth]
             /\ lrx' = lrx
             /\ lsnd' = [lsnd EXCEPT ![s] = [pc |-> "wake", i |-> 0, held |-> FALSE]]
             /\ lcp' = [lcp EXCEPT !.sent = @ + 1]
    <3>1. LkOK(lk)' BY <1>0, <2>2, LinkAssumption, FailedKeeps DEF LkOK, Senders
    <3>2. RxOK(lrx)' BY <1>0, <2>2, LinkAssumption, FailedKeeps DEF RxOK, LcpOK
    <3>3. SndOK(lsnd)'
      <4>1. SndRec([pc |-> "wake", i |-> 0, held |-> FALSE]) BY DEF SndRec
      <4>2. SndOK([lsnd EXCEPT ![s] = [pc |-> "wake", i |-> 0, held |-> FALSE]]) BY <1>0, <4>1, SndSet
      <4> QED BY <2>2, <4>2
    <3>4. LcpOK(lcp)' BY <1>0, <2>2, LinkAssumption, FailedKeeps DEF LcpOK, FifoTrue
    <3>5. DepthOK'
      BY <1>0, <2>2, LinkAssumption, FailedKeeps DEF LkOK, SndOK, SndRec, DepthOK, HeldOff, Senders
    <3>6. HandlerArmed' BY <1>0, <2>2, LinkAssumption, FailedKeeps DEF LkOK, HandlerArmed
    <3>7. FifoTrue' BY <1>0, <2>2, LinkAssumption, FailedKeeps DEF LkOK, RxOK, LcpOK, FifoTrue
    <3>8. Announced'
      BY <1>0, <2>2, LinkAssumption, FailedKeeps DEF LkOK, RxOK, LcpOK, FifoTrue, Announced
    <3> QED BY <3>1, <3>2, <3>3, <3>4, <3>5, <3>6, <3>7, <3>8 DEF LinkInv
  <2> QED BY <1>0, <1>18, <2>1, <2>2 DEF SendStart, Sender, DepthOK
<1>19. ASSUME NEW s \in Senders, try_to_wakeup_modem(s) PROVE LinkInv'
  <2>1. CASE /\ lk' = [lk EXCEPT !.req = lk.req]
             /\ lrx' = lrx
             /\ lsnd' = [lsnd EXCEPT ![s] = [lsnd[s] EXCEPT !.pc = "write"]]
             /\ lcp' = lcp
    <3>1. LkOK(lk)' BY <1>0, <2>1, LinkAssumption, FailedKeeps DEF LkOK, Senders
    <3>2. RxOK(lrx)' BY <1>0, <2>1, LinkAssumption, FailedKeeps DEF RxOK, LcpOK
    <3>3. SndOK(lsnd)' BY <1>0, <2>1, LinkAssumption, FailedKeeps DEF SndOK, SndRec, Senders
    <3>4. LcpOK(lcp)' BY <1>0, <2>1, LinkAssumption, FailedKeeps DEF LcpOK, FifoTrue
    <3>5. DepthOK'
      BY <1>0, <2>1, LinkAssumption, FailedKeeps DEF LkOK, SndOK, SndRec, DepthOK, HeldOff, Senders
    <3>6. HandlerArmed' BY <1>0, <2>1, LinkAssumption, FailedKeeps DEF LkOK, HandlerArmed
    <3>7. FifoTrue' BY <1>0, <2>1, LinkAssumption, FailedKeeps DEF LkOK, RxOK, LcpOK, FifoTrue
    <3>8. Announced'
      BY <1>0, <2>1, LinkAssumption, FailedKeeps DEF LkOK, RxOK, LcpOK, FifoTrue, Announced
    <3> QED BY <3>1, <3>2, <3>3, <3>4, <3>5, <3>6, <3>7, <3>8 DEF LinkInv
  <2>2. CASE /\ lk' = [lk EXCEPT !.req = lk.req \union {s}]
             /\ lrx' = lrx
             /\ lsnd' = [lsnd EXCEPT ![s] = [lsnd[s] EXCEPT !.pc = "wait"]]
             /\ lcp' = lcp
    <3>1. LkOK(lk)' BY <1>0, <2>2, LinkAssumption, FailedKeeps DEF LkOK, Senders
    <3>2. RxOK(lrx)' BY <1>0, <2>2, LinkAssumption, FailedKeeps DEF RxOK, LcpOK
    <3>3. SndOK(lsnd)' BY <1>0, <2>2, LinkAssumption, FailedKeeps DEF SndOK, SndRec, Senders
    <3>4. LcpOK(lcp)' BY <1>0, <2>2, LinkAssumption, FailedKeeps DEF LcpOK, FifoTrue
    <3>5. DepthOK'
      BY <1>0, <2>2, LinkAssumption, FailedKeeps DEF LkOK, SndOK, SndRec, DepthOK, HeldOff, Senders
    <3>6. HandlerArmed' BY <1>0, <2>2, LinkAssumption, FailedKeeps DEF LkOK, HandlerArmed
    <3>7. FifoTrue' BY <1>0, <2>2, LinkAssumption, FailedKeeps DEF LkOK, RxOK, LcpOK, FifoTrue
    <3>8. Announced'
      BY <1>0, <2>2, LinkAssumption, FailedKeeps DEF LkOK, RxOK, LcpOK, FifoTrue, Announced
    <3> QED BY <3>1, <3>2, <3>3, <3>4, <3>5, <3>6, <3>7, <3>8 DEF LinkInv
  <2> QED BY <1>0, <1>19, <2>1, <2>2 DEF try_to_wakeup_modem, Sender
<1>20. ASSUME NEW s \in Senders, WakeUpDone(s) PROVE LinkInv'
  <2>1. CASE /\ lk' = [lk EXCEPT !.handler = TRUE, !.claimed = TRUE]
             /\ lrx' = lrx
             /\ lsnd' = [lsnd EXCEPT ![s] = [lsnd[s] EXCEPT !.pc = "write"]]
             /\ lcp' = lcp
    <3>1. LkOK(lk)' BY <1>0, <2>1, LinkAssumption, FailedKeeps DEF LkOK, Senders
    <3>2. RxOK(lrx)' BY <1>0, <2>1, LinkAssumption, FailedKeeps DEF RxOK, LcpOK
    <3>3. SndOK(lsnd)' BY <1>0, <2>1, LinkAssumption, FailedKeeps DEF SndOK, SndRec, Senders
    <3>4. LcpOK(lcp)' BY <1>0, <2>1, LinkAssumption, FailedKeeps DEF LcpOK, FifoTrue
    <3>5. DepthOK'
      BY <1>0, <2>1, LinkAssumption, FailedKeeps DEF LkOK, SndOK, SndRec, DepthOK, HeldOff, Senders
    <3>6. HandlerArmed' BY <1>0, <2>1, LinkAssumption, FailedKeeps DEF LkOK, HandlerArmed
    <3>7. FifoTrue' BY <1>0, <2>1, LinkAssumption, FailedKeeps DEF LkOK, RxOK, LcpOK, FifoTrue
    <3>8. Announced'
      BY <1>0, <2>1, LinkAssumption, FailedKeeps DEF LkOK, RxOK, LcpOK, FifoTrue, Announced
    <3> QED BY <3>1, <3>2, <3>3, <3>4, <3>5, <3>6, <3>7, <3>8 DEF LinkInv
  <2>2. CASE /\ lk' = lk
             /\ lrx' = lrx
             /\ lsnd' = [lsnd EXCEPT ![s] = [lsnd[s] EXCEPT !.pc = "write"]]
             /\ lcp' = Failed(lcp)
    <3>1. LkOK(lk)' BY <1>0, <2>2, LinkAssumption, FailedKeeps DEF LkOK, Senders
    <3>2. RxOK(lrx)' BY <1>0, <2>2, LinkAssumption, FailedKeeps DEF RxOK, LcpOK
    <3>3. SndOK(lsnd)' BY <1>0, <2>2, LinkAssumption, FailedKeeps DEF SndOK, SndRec, Senders
    <3>4. LcpOK(lcp)' BY <1>0, <2>2, LinkAssumption, FailedKeeps DEF LcpOK, FifoTrue
    <3>5. DepthOK'
      BY <1>0, <2>2, LinkAssumption, FailedKeeps DEF LkOK, SndOK, SndRec, DepthOK, HeldOff, Senders
    <3>6. HandlerArmed' BY <1>0, <2>2, LinkAssumption, FailedKeeps DEF LkOK, HandlerArmed
    <3>7. FifoTrue' BY <1>0, <2>2, LinkAssumption, FailedKeeps DEF LkOK, RxOK, LcpOK, FifoTrue
    <3>8. Announced'
      BY <1>0, <2>2, LinkAssumption, FailedKeeps DEF LkOK, RxOK, LcpOK, FifoTrue, Announced
    <3> QED BY <3>1, <3>2, <3>3, <3>4, <3>5, <3>6, <3>7, <3>8 DEF LinkInv
  <2>3. CASE /\ lk' = lk
             /\ lrx' = lrx
             /\ lsnd' = [lsnd EXCEPT ![s] = [lsnd[s] EXCEPT !.pc = "write"]]
             /\ lcp' = lcp
    <3>1. LkOK(lk)' BY <1>0, <2>3, LinkAssumption, FailedKeeps DEF LkOK, Senders
    <3>2. RxOK(lrx)' BY <1>0, <2>3, LinkAssumption, FailedKeeps DEF RxOK, LcpOK
    <3>3. SndOK(lsnd)' BY <1>0, <2>3, LinkAssumption, FailedKeeps DEF SndOK, SndRec, Senders
    <3>4. LcpOK(lcp)' BY <1>0, <2>3, LinkAssumption, FailedKeeps DEF LcpOK, FifoTrue
    <3>5. DepthOK'
      BY <1>0, <2>3, LinkAssumption, FailedKeeps DEF LkOK, SndOK, SndRec, DepthOK, HeldOff, Senders
    <3>6. HandlerArmed' BY <1>0, <2>3, LinkAssumption, FailedKeeps DEF LkOK, HandlerArmed
    <3>7. FifoTrue' BY <1>0, <2>3, LinkAssumption, FailedKeeps DEF LkOK, RxOK, LcpOK, FifoTrue
    <3>8. Announced'
      BY <1>0, <2>3, LinkAssumption, FailedKeeps DEF LkOK, RxOK, LcpOK, FifoTrue, Announced
    <3> QED BY <3>1, <3>2, <3>3, <3>4, <3>5, <3>6, <3>7, <3>8 DEF LinkInv
  <2> QED BY <1>0, <1>20, <2>1, <2>2, <2>3 DEF WakeUpDone, Sender, Claim
<1>21. ASSUME NEW s \in Senders, NEW ok \in BOOLEAN, SendWrite(s, ok) PROVE LinkInv'
  <2>1. ASSUME NEW c \in {lcp, Failed(lcp)}, lsnd[s].i = 0, lk' = lk, lrx' = lrx, lsnd' = [lsnd EXCEPT ![s] = [lsnd[s] EXCEPT !.pc = "wake", !.i = lsnd[s].i + 1]], lcp' = c PROVE LinkInv'
    <3>1. LkOK(lk)' BY <1>0, <2>1, LinkAssumption, FailedKeeps DEF LkOK, Senders
    <3>2. RxOK(lrx)' BY <1>0, <2>1, LinkAssumption, FailedKeeps DEF RxOK, LcpOK
    <3>3. SndOK(lsnd)' BY <1>0, <2>1, LinkAssumption, FailedKeeps DEF SndOK, SndRec, Senders
    <3>4. LcpOK(lcp)' BY <1>0, <2>1, LinkAssumption, FailedKeeps DEF LcpOK, FifoTrue
    <3>5. DepthOK'
      BY <1>0, <2>1, LinkAssumption, FailedKeeps DEF LkOK, SndOK, SndRec, DepthOK, HeldOff, Senders
    <3>6. HandlerArmed' BY <1>0, <2>1, LinkAssumption, FailedKeeps DEF LkOK, HandlerArmed
    <3>7. FifoTrue' BY <1>0, <2>1, LinkAssumption, FailedKeeps DEF LkOK, RxOK, LcpOK, FifoTrue
    <3>8. Announced'
      BY <1>0, <2>1, LinkAssumption, FailedKeeps DEF LkOK, RxOK, LcpOK, FifoTrue, Announced
    <3> QED BY <3>1, <3>2, <3>3, <3>4, <3>5, <3>6, <3>7, <3>8 DEF LinkInv
  <2>2. ASSUME NEW c \in {lcp, Failed(lcp)}, lsnd[s].i = 0, lk' = [lk EXCEPT !.com = TRUE], lrx' = lrx, lsnd' = [lsnd EXCEPT ![s] = [lsnd[s] EXCEPT !.pc = "wake", !.i = lsnd[s].i + 1]], lcp' = c PROVE LinkInv'
    <3>1. LkOK(lk)' BY <1>0, <2>2, LinkAssumption, FailedKeeps DEF LkOK, Senders
    <3>2. RxOK(lrx)' BY <1>0, <2>2, LinkAssumption, FailedKeeps DEF RxOK, LcpOK
    <3>3. SndOK(lsnd)' BY <1>0, <2>2, LinkAssumption, FailedKeeps DEF SndOK, SndRec, Senders
    <3>4. LcpOK(lcp)' BY <1>0, <2>2, LinkAssumption, FailedKeeps DEF LcpOK, FifoTrue
    <3>5. DepthOK'
      BY <1>0, <2>2, LinkAssumption, FailedKeeps DEF LkOK, SndOK, SndRec, DepthOK, HeldOff, Senders
    <3>6. HandlerArmed' BY <1>0, <2>2, LinkAssumption, FailedKeeps DEF LkOK, HandlerArmed
    <3>7. FifoTrue' BY <1>0, <2>2, LinkAssumption, FailedKeeps DEF LkOK, RxOK, LcpOK, FifoTrue
    <3>8. Announced'
      BY <1>0, <2>2, LinkAssumption, FailedKeeps DEF LkOK, RxOK, LcpOK, FifoTrue, Announced
    <3> QED BY <3>1, <3>2, <3>3, <3>4, <3>5, <3>6, <3>7, <3>8 DEF LinkInv
  <2>3. ASSUME NEW c \in {lcp, Failed(lcp)}, s = "reg", lk' = [lk EXCEPT !.depth = lk.depth, !.req = lk.req], lrx' = lrx, lsnd' = [lsnd EXCEPT ![s] = [pc |-> "idle", i |-> 0, held |-> FALSE]], lcp' = c PROVE LinkInv'
    <3>1. LkOK(lk)' BY <1>0, <2>3, LinkAssumption, FailedKeeps DEF LkOK, Senders
    <3>2. RxOK(lrx)' BY <1>0, <2>3, LinkAssumption, FailedKeeps DEF RxOK, LcpOK
    <3>3. SndOK(lsnd)'
      <4>1. SndRec([pc |-> "idle", i |-> 0, held |-> FALSE]) BY DEF SndRec
      <4>2. SndOK([lsnd EXCEPT ![s] = [pc |-> "idle", i |-> 0, held |-> FALSE]]) BY <1>0, <4>1, SndSet
      <4> QED BY <2>3, <4>2
    <3>4. LcpOK(lcp)' BY <1>0, <2>3, LinkAssumption, FailedKeeps DEF LcpOK, FifoTrue
    <3>5. DepthOK'
      BY <1>0, <2>3, LinkAssumption, FailedKeeps DEF LkOK, SndOK, SndRec, DepthOK, HeldOff, Senders
    <3>6. HandlerArmed' BY <1>0, <2>3, LinkAssumption, FailedKeeps DEF LkOK, HandlerArmed
    <3>7. FifoTrue' BY <1>0, <2>3, LinkAssumption, FailedKeeps DEF LkOK, RxOK, LcpOK, FifoTrue
    <3>8. Announced'
      BY <1>0, <2>3, LinkAssumption, FailedKeeps DEF LkOK, RxOK, LcpOK, FifoTrue, Announced
    <3> QED BY <3>1, <3>2, <3>3, <3>4, <3>5, <3>6, <3>7, <3>8 DEF LinkInv
  <2>4. ASSUME NEW c \in {lcp, Failed(lcp)}, ~lsnd[s].held, lk' = [lk EXCEPT !.com = TRUE, !.depth = lk.depth, !.req = lk.req \ {s}], lrx' = lrx, lsnd' = [lsnd EXCEPT ![s] = [pc |-> "idle", i |-> 0, held |-> FALSE]], lcp' = c PROVE LinkInv'
    <3>1. LkOK(lk)' BY <1>0, <2>4, LinkAssumption, FailedKeeps DEF LkOK, Senders
    <3>2. RxOK(lrx)' BY <1>0, <2>4, LinkAssumption, FailedKeeps DEF RxOK, LcpOK
    <3>3. SndOK(lsnd)'
      <4>1. SndRec([pc |-> "idle", i |-> 0, held |-> FALSE]) BY DEF SndRec
      <4>2. SndOK([lsnd EXCEPT ![s] = [pc |-> "idle", i |-> 0, held |-> FALSE]]) BY <1>0, <4>1, SndSet
      <4> QED BY <2>4, <4>2
    <3>4. LcpOK(lcp)' BY <1>0, <2>4, LinkAssumption, FailedKeeps DEF LcpOK, FifoTrue
    <3>5. DepthOK'
      BY <1>0, <2>4, LinkAssumption, FailedKeeps DEF LkOK, SndOK, SndRec, DepthOK, HeldOff, Senders
    <3>6. HandlerArmed' BY <1>0, <2>4, LinkAssumption, FailedKeeps DEF LkOK, HandlerArmed
    <3>7. FifoTrue' BY <1>0, <2>4, LinkAssumption, FailedKeeps DEF LkOK, RxOK, LcpOK, FifoTrue
    <3>8. Announced'
      BY <1>0, <2>4, LinkAssumption, FailedKeeps DEF LkOK, RxOK, LcpOK, FifoTrue, Announced
    <3> QED BY <3>1, <3>2, <3>3, <3>4, <3>5, <3>6, <3>7, <3>8 DEF LinkInv
  <2>5. ASSUME NEW c \in {lcp, Failed(lcp)}, lsnd[s].held, lk' = [lk EXCEPT !.com = TRUE, !.depth = lk.depth - 1, !.req = lk.req \ {s}], lrx' = lrx, lsnd' = [lsnd EXCEPT ![s] = [pc |-> "idle", i |-> 0, held |-> FALSE]], lcp' = c PROVE LinkInv'
    <3>1. LkOK(lk)' BY <1>0, <2>5, LinkAssumption, FailedKeeps DEF LkOK, Senders
    <3>2. RxOK(lrx)' BY <1>0, <2>5, LinkAssumption, FailedKeeps DEF RxOK, LcpOK
    <3>3. SndOK(lsnd)'
      <4>1. SndRec([pc |-> "idle", i |-> 0, held |-> FALSE]) BY DEF SndRec
      <4>2. SndOK([lsnd EXCEPT ![s] = [pc |-> "idle", i |-> 0, held |-> FALSE]]) BY <1>0, <4>1, SndSet
      <4> QED BY <2>5, <4>2
    <3>4. LcpOK(lcp)' BY <1>0, <2>5, LinkAssumption, FailedKeeps DEF LcpOK, FifoTrue
    <3>5. DepthOK'
      BY <1>0, <2>5, LinkAssumption, FailedKeeps DEF LkOK, SndOK, SndRec, DepthOK, HeldOff, Senders
    <3>6. HandlerArmed' BY <1>0, <2>5, LinkAssumption, FailedKeeps DEF LkOK, HandlerArmed
    <3>7. FifoTrue' BY <1>0, <2>5, LinkAssumption, FailedKeeps DEF LkOK, RxOK, LcpOK, FifoTrue
    <3>8. Announced'
      BY <1>0, <2>5, LinkAssumption, FailedKeeps DEF LkOK, RxOK, LcpOK, FifoTrue, Announced
    <3> QED BY <3>1, <3>2, <3>3, <3>4, <3>5, <3>6, <3>7, <3>8 DEF LinkInv
  <2> QED
    <3>1. lcp' \in {lcp, Failed(lcp)} /\ lrx' = lrx BY <1>21 DEF SendWrite
    <3>2. CASE ~ok /\ lsnd[s].i # 1 /\ s = "reg"
      BY <1>0, <1>21, <2>1, <3>1, <3>2 DEF SendWrite, Sender, skw_sdio_writeb, SndOK, SndRec
    <3>3. CASE ~ok /\ lsnd[s].i # 1 /\ s # "reg"
      BY <1>0, <1>21, <2>2, <3>1, <3>3 DEF SendWrite, Sender, skw_sdio_adma_write, SndOK, SndRec
    <3>4. CASE (ok \/ lsnd[s].i = 1) /\ s = "reg"
      BY <1>0, <1>21, <2>3, <3>1, <3>4 DEF SendWrite, Sender, SendDone, skw_sdio_writeb, DepthOK
    <3>5. CASE (ok \/ lsnd[s].i = 1) /\ s # "reg" /\ ~lsnd[s].held
      BY <1>0, <1>21, <2>4, <3>1, <3>5 DEF SendWrite, Sender, SendDone, skw_sdio_adma_write, LkOK
    <3>6. CASE (ok \/ lsnd[s].i = 1) /\ s # "reg" /\ lsnd[s].held
      BY <1>0, <1>21, <2>5, <3>1, <3>6 DEF SendWrite, Sender, SendDone, skw_sdio_adma_write, LkOK
    <3> QED BY <3>2, <3>3, <3>4, <3>5, <3>6
<1>22. CASE UNCHANGED linkVars
  BY <1>0, <1>22 DEF linkVars, LinkInv, DepthOK, HeldOff, HandlerArmed, FifoTrue, Announced
<1> QED BY <1>1, <1>2, <1>3, <1>4, <1>5, <1>6, <1>7, <1>8, <1>9, <1>10, <1>11, <1>12, <1>13, <1>14,
     <1>15, <1>16, <1>17, <1>18, <1>19, <1>20, <1>21, <1>22 DEF LinkNext

\* The initial state satisfies the invariant.
LEMMA LinkBegin == LinkInit => LinkInv
<1> SUFFICES ASSUME LinkInit PROVE LinkInv OBVIOUS
<1>1. PICK irq \in {"inband", "external"} :
          lk = [irq |-> irq, in |-> FALSE, handler |-> irq = "inband", depth |-> 0,
                up |-> FALSE, com |-> TRUE, flag |-> TRUE, req |-> {}, pm |-> "on",
                off |-> FALSE, kick |-> FALSE, claimed |-> TRUE]
  BY DEF LinkInit
<1>2. PICK n, sent \in 0..1, faults \in {0, MaxLinkFaults} :
          lcp = [left |-> 0, fifo |-> 0, pend |-> FALSE, n |-> n, sent |-> sent,
                 suspends |-> 0, faults |-> faults, failed |-> FALSE]
  BY DEF LinkInit
<1>3. lsnd = [s \in Senders |-> [pc |-> "idle", i |-> 0, held |-> FALSE]] BY DEF LinkInit
<1>4. PICK adma \in BOOLEAN : lrx = [adma |-> adma, pc |-> "down", remain |-> 1, nsize |-> 0, seen |-> 0]
  BY DEF LinkInit
<1>5. LkOK(lk) BY <1>1 DEF LkOK
<1>6. RxOK(lrx) BY <1>4, LinkAssumption DEF RxOK
<1>7. SndOK(lsnd)
  <2>1. SndRec([pc |-> "idle", i |-> 0, held |-> FALSE]) BY DEF SndRec
  <2> QED BY <1>3, <2>1 DEF SndOK
<1>8. LcpOK(lcp) BY <1>2, LinkAssumption DEF LcpOK
<1>9. DepthOK BY <1>1, <1>3 DEF DepthOK, HeldOff, Senders
<1>10. HandlerArmed BY <1>1 DEF HandlerArmed
<1>11. FifoTrue /\ Announced BY <1>1, <1>2, <1>4 DEF FifoTrue, Announced
<1> QED BY <1>5, <1>6, <1>7, <1>8, <1>9, <1>10, <1>11 DEF LinkInv, LinkShape

\* What the invariant says of the link's properties.
LEMMA LinkHolds == LinkInv => LinkTypeOK /\ RxArmed /\ PacketsHeard
<1> SUFFICES ASSUME LinkInv PROVE LinkTypeOK /\ RxArmed /\ PacketsHeard OBVIOUS
<1>0. LinkShape /\ DepthOK /\ HandlerArmed /\ FifoTrue /\ Announced BY DEF LinkInv
<1>1. LinkTypeOK
  <2>1. HeldOff \in 0..1 BY DEF HeldOff
  <2>2. lk.depth \in 0..2 BY <1>0, <2>1 DEF DepthOK
  <2> QED BY <1>0, <2>2 DEF LinkTypeOK, LinkShape, LkOK, RxOK, SndOK, SndRec, LcpOK
<1>2. RxArmed
  <2>1. CASE lk.irq = "inband" BY <1>0, <2>1 DEF RxArmed, HandlerArmed
  <2>2. CASE lk.irq # "inband" BY <1>0, <2>2, HeldCount DEF RxArmed, DepthOK
  <2> QED BY <2>1, <2>2
<1>3. PacketsHeard
  <2>1. CASE lrx.pc = "down" BY <1>0, <2>1 DEF PacketsHeard, Announced
  <2>2. CASE lrx.pc # "down" BY <2>2 DEF PacketsHeard
  <2> QED BY <2>1, <2>2
<1> QED BY <1>1, <1>2, <1>3

\* The receive interrupt of a host that is awake is armed, whichever of its
\* senders, suspends and resumes has disabled, enabled, released or claimed
\* it, and no packet of the CP is forgotten (skw_sdio_rx.c,
\* skw_sdio_main.c).
THEOREM LinkServes == LinkSpec => [](RxArmed /\ PacketsHeard)
  BY LinkBegin, LinkStep, LinkHolds, PTL DEF LinkSpec

-----------------------------------------------------------------------------
\* The read and write requests of a USB port.

UbShape(b) ==
    /\ DOMAIN b = {"state", "suspend", "free", "air", "done", "by", "bulk", "txfree", "tx_urb_count"}
    /\ b.state \in BOOLEAN /\ b.suspend \in BOOLEAN
UbCounts(b) ==
    /\ b.free \in Nat /\ b.air \in Nat /\ b.bulk \in Int
    /\ b.txfree \in Nat /\ b.tx_urb_count \in Nat
UbLists(b) == b.done \in Seq({"ok", "err"}) /\ b.by \in Seq({"ctx", "bare"})
UaShape(a) ==
    /\ DOMAIN a = {"thread", "task", "pm", "kick", "send", "disc", "lost", "pms", "cap", "faults", "sends", "odd"}
    /\ a.thread \in {"start", "wait", "killed", "gone"} /\ a.task \in {"idle", "sched", "read"}
    /\ a.pm \in {"on", "flag", "off", "resume", "empty"} /\ a.send \in {"idle", "wait", "take"}
    /\ a.kick \in BOOLEAN /\ a.disc \in BOOLEAN
UaCounts(a) ==
    /\ a.lost \in Nat /\ a.pms \in Nat
    /\ a.cap \in Int /\ a.faults \in Int /\ a.sends \in Int

\* The requests are made by the thread, all accounted for while it waits,
\* and given back when it ends.
UrbStart == ua.thread = "start" =>
    /\ ub.state /\ ub.free = 0 /\ ub.air = 0 /\ ub.bulk = 0 /\ ub.done = <<>> /\ ub.by = <<>> /\ ub.txfree = 0
    /\ ub.tx_urb_count = 0 /\ ua.lost = 0 /\ ua.task = "idle" /\ ~ua.kick /\ ua.send = "idle"
UrbSum == ua.thread = "wait" =>
    /\ ub.free + ub.air + Len(ub.done) + Len(ub.by) + ua.lost = RxUrbs
    /\ ub.txfree + ub.tx_urb_count = TxUrbs
UrbEnd == ua.thread \in {"killed", "gone"} =>
    /\ ub.free = 0 /\ ub.air = 0 /\ ub.tx_urb_count = 0 /\ ub.txfree = TxUrbs
    /\ ~ub.state /\ ua.disc /\ ua.task = "idle" /\ ~ua.kick

\* A suspend, and what is over after the disconnect.
UrbPm ==
    /\ ub.state /\ ua.pm # "on" => ub.suspend
    /\ ua.disc => ~ub.state /\ ~ub.suspend
    /\ ua.disc /\ ub.by # <<>> => "refused" \in ua.odd
UrbPms == ua.pms = 0 => ua.pm = "on"
UrbTake == ua.send = "take" => ub.txfree > 0

\* Requests that are bare, or lost, were refused or stopped.
Without(s, w) == \A i \in 1..Len(s) : s[i] # w
UrbBare == "refused" \in ua.odd \/ Without(ub.by, "bare")
UrbLost == ua.lost = 0 \/ "refused" \in ua.odd \/ "stopped" \in ua.odd
UrbCounted == ua.pms = 0 /\ ub.state => ub.bulk = ub.air

\* What keeps an undisturbed port receiving: an idle tasklet has left
\* nothing behind, and a request is in the air or put by for the resume.
Undisturbed == /\ ub.state /\ ua.thread = "wait"
               /\ "failed" \notin ua.odd /\ "refused" \notin ua.odd /\ "crossed" \notin ua.odd
               /\ "stopped" \notin ua.odd
UrbRead == Undisturbed =>
    /\ Without(ub.done, "err")
    /\ ua.task = "idle" => ub.done = <<>>
    /\ ~ub.suspend \/ ua.pm = "empty" => ub.by = <<>>
Coming == ub.air > 0 \/ ub.by # <<>>
UrbArmed == Undisturbed => ua.task # "idle" \/ ua.kick \/ Coming
UrbInv == /\ UbShape(ub) /\ UbCounts(ub) /\ UbLists(ub) /\ UaShape(ua) /\ UaCounts(ua)
          /\ UrbStart /\ UrbSum /\ UrbEnd /\ UrbPm /\ UrbPms /\ UrbTake /\ UrbBare /\ UrbLost /\ UrbCounted
          /\ UrbRead /\ UrbArmed

\* Two sequences, one after the other.
LEMMA Joined ==
    ASSUME NEW T, NEW s \in Seq(T), NEW m \in Seq(T)
    PROVE  /\ s \o m \in Seq(T) /\ Len(s \o m) = Len(s) + Len(m)
           /\ \A w : Without(s, w) /\ Without(m, w) => Without(s \o m, w)
<1>1. s \o m \in Seq(T) /\ Len(s \o m) = Len(s) + Len(m) /\ Len(s) \in Nat /\ Len(m) \in Nat OBVIOUS
<1>2. ASSUME NEW w, Without(s, w), Without(m, w) PROVE Without(s \o m, w)
  <2> SUFFICES ASSUME NEW i \in 1..(Len(s) + Len(m)) PROVE (s \o m)[i] # w BY <1>1 DEF Without
  <2>1. CASE i <= Len(s) BY <1>1, <1>2, <2>1 DEF Without
  <2>2. CASE i > Len(s)
    <3>1. i - Len(s) \in 1..Len(m) /\ (s \o m)[i] = m[i - Len(s)] BY <1>1, <2>2
    <3> QED BY <1>2, <3>1 DEF Without
  <2>3. i <= Len(s) \/ i > Len(s) BY <1>1
  <2> QED BY <2>1, <2>2, <2>3
<1> QED BY <1>1, <1>2

\* One more at the end.
LEMMA OneMore ==
    ASSUME NEW T, NEW s \in Seq(T), NEW v \in T
    PROVE  /\ Append(s, v) \in Seq(T) /\ Len(Append(s, v)) = Len(s) + 1 /\ Append(s, v) # <<>>
           /\ \A w : Without(s, w) /\ v # w => Without(Append(s, v), w)
<1>1. Append(s, v) \in Seq(T) /\ Len(Append(s, v)) = Len(s) + 1 /\ Append(s, v) # <<>>
  BY AppendProperties
<1>2. \A i \in 1..(Len(s) + 1) : Append(s, v)[i] = IF i <= Len(s) THEN s[i] ELSE v OBVIOUS
<1>3. \A i \in 1..(Len(s) + 1) : i <= Len(s) => i \in 1..Len(s) OBVIOUS
<1> QED BY <1>1, <1>2, <1>3 DEF Without

\* One more, as a sequence of one.
LEMMA AppendOne ==
    ASSUME NEW T, NEW s \in Seq(T), NEW v \in T
    PROVE  s \o [i \in 1..1 |-> v] = Append(s, v)
<1>1. [i \in 1..1 |-> v] = <<v>> OBVIOUS
<1> QED BY <1>1, AppendIsConcat

\* What is left of a sequence without its first elements.
LEMMA RestOf ==
    ASSUME NEW T, NEW s \in Seq(T), NEW k \in 0..Len(s)
    PROVE  LET t == SubSeq(s, k + 1, Len(s))
           IN  /\ t \in Seq(T) /\ Len(t) = Len(s) - k
               /\ \A w : Without(s, w) => Without(t, w)
<1> DEFINE t == SubSeq(s, k + 1, Len(s))
<1>1. t \in Seq(T) /\ Len(t) = Len(s) - k /\ \A i \in 1..Len(t) : t[i] = s[k + i] /\ k + i \in 1..Len(s)
  OBVIOUS
<1> QED BY <1>1 DEF Without

\* The rest after the first.
LEMMA TailOf ==
    ASSUME NEW T, NEW s \in Seq(T), s # <<>>
    PROVE  /\ Tail(s) \in Seq(T) /\ Len(Tail(s)) = Len(s) - 1 /\ Len(s) > 0
           /\ \A w : Without(s, w) => Without(Tail(s), w)
<1>1. Tail(s) \in Seq(T) /\ Len(Tail(s)) = Len(s) - 1 /\ Len(s) > 0 OBVIOUS
<1>2. \A i \in 1..(Len(s) - 1) : Tail(s)[i] = s[i + 1] /\ i + 1 \in 1..Len(s) OBVIOUS
<1> QED BY <1>1, <1>2 DEF Without

\* A set of numbers that is not empty has a least one.
LEMMA LeastIndex ==
    ASSUME NEW S, S \subseteq Nat, S # {}
    PROVE  \E i \in S : \A j \in S : i <= j
<1>1. PICK i \in S : \A j \in S : <<j, i>> \notin OpToRel(<, Nat) BY NatLessThanWellFounded, WFMin
<1>2. \A j \in S : ~(j < i) BY <1>1 DEF OpToRel
<1> QED BY <1>2

\* Every step keeps the invariant.
LEMMA UrbStep == UrbInv /\ [UrbNext]_urbVars => UrbInv'
<1> SUFFICES ASSUME UrbInv, [UrbNext]_urbVars PROVE UrbInv' OBVIOUS
<1>a. /\ UbShape(ub) /\ UbCounts(ub) /\ UbLists(ub) /\ UaShape(ua) /\ UaCounts(ua)
      /\ UrbStart /\ UrbSum /\ UrbEnd /\ UrbPm /\ UrbPms /\ UrbTake /\ UrbBare /\ UrbLost /\ UrbCounted
      /\ UrbRead /\ UrbArmed
  BY DEF UrbInv
<1> DEFINE free == ub.free
           air == ub.air
           bulk == ub.bulk
           nd == Len(ub.done)
           nb == Len(ub.by)
           txf == ub.txfree
           txc == ub.tx_urb_count
           lost == ua.lost
           pms == ua.pms
           cap == ua.cap
           faults == ua.faults
           sends == ua.sends
<1>b. /\ free \in Nat /\ air \in Nat /\ bulk \in Int /\ txf \in Nat /\ txc \in Nat /\ lost \in Nat /\ pms \in Nat
      /\ cap \in Int /\ faults \in Int /\ sends \in Int /\ nd \in Nat /\ nb \in Nat
      /\ RxUrbs \in Nat /\ TxUrbs \in Nat /\ RxUrbs > 0 /\ TxUrbs > 0
  <2>1. free \in Nat /\ air \in Nat /\ bulk \in Int /\ txf \in Nat /\ txc \in Nat BY <1>a DEF UbCounts
  <2>2. lost \in Nat /\ pms \in Nat /\ cap \in Int /\ faults \in Int /\ sends \in Int
    BY <1>a DEF UaCounts
  <2>3. RxUrbs \in Nat /\ TxUrbs \in Nat /\ RxUrbs > 0 /\ TxUrbs > 0 BY UrbAssumption
  <2>4. nd \in Nat /\ nb \in Nat BY <1>a DEF UbLists
  <2> QED BY <2>1, <2>2, <2>3, <2>4
<1>c. (nd = 0 <=> ub.done = <<>>) /\ (nb = 0 <=> ub.by = <<>>) BY <1>a, EmptySeq DEF UbLists
<1>d. ua.thread = "wait" => free + air + nd + nb + lost = RxUrbs /\ txf + txc = TxUrbs
  BY <1>a DEF UrbSum
<1>e. ua.thread = "start" => free = 0 /\ air = 0 /\ bulk = 0 /\ nd = 0 /\ nb = 0 /\ txf = 0 /\ txc = 0 /\ lost = 0
  BY <1>a, <1>c DEF UrbStart
<1>f. ua.thread \in {"killed", "gone"} => free = 0 /\ air = 0 /\ txc = 0 /\ txf = TxUrbs
  BY <1>a DEF UrbEnd
<1>g. ua.send = "take" => txf > 0 BY <1>a DEF UrbTake
<1>h. lost = 0 \/ "refused" \in ua.odd \/ "stopped" \in ua.odd BY <1>a DEF UrbLost
<1>i. (pms = 0 /\ ub.state => bulk = air) /\ (pms = 0 => ua.pm = "on") BY <1>a DEF UrbCounted, UrbPms
<1> HIDE DEF free, air, bulk, nd, nb, txf, txc, lost, pms, cap, faults, sends
<1>1. CASE usb_port_async_entry
  <2>1. ASSUME NEW o, ua.thread = "start",
              ub.suspend,
              o = ua.odd \/ o = ua.odd \union {"crossed"},
              ua.pm = "empty" => "crossed" \in o,
              ub' = [ub EXCEPT !.free = RxUrbs - 1, !.txfree = TxUrbs, !.by = <<"ctx">>],
              ua' = [ua EXCEPT !.thread = "wait", !.odd = o]
       PROVE  UrbInv'
    <3>1. /\ ua.thread = "start" /\ ub.suspend /\ (o = ua.odd \/ o = ua.odd \union {"crossed"})
          /\ (ua.pm = "empty" => "crossed" \in o) /\ DOMAIN ub' = DOMAIN ub /\ ub'.state = ub.state
          /\ ub'.suspend = ub.suspend /\ ub'.done = ub.done /\ ub'.by = <<"ctx">>
          /\ DOMAIN ua' = DOMAIN ua /\ ua'.thread = "wait" /\ ua'.task = ua.task /\ ua'.pm = ua.pm
          /\ ua'.kick = ua.kick /\ ua'.send = ua.send /\ ua'.disc = ua.disc /\ ua'.odd = o
      BY <1>a, <2>1 DEF UbShape, UaShape
    <3>2. /\ ub'.free = RxUrbs - 1 /\ ub'.air = air /\ ub'.bulk = bulk /\ ub'.txfree = TxUrbs
          /\ ub'.tx_urb_count = txc /\ ua'.lost = lost /\ ua'.pms = pms /\ ua'.cap = cap
          /\ ua'.faults = faults /\ ua'.sends = sends /\ Len(ub'.done) = nd
      BY <1>a, <2>1 DEF UbShape, UaShape, nd, nb, free, air, bulk, txf, txc, lost, pms, cap, faults, sends
    <3>3. <<"ctx">> \in Seq({"ctx", "bare"}) /\ Len(ub'.by) = 1 /\ ub'.by # <<>> /\ Without(ub'.by, "bare")
      BY <3>1 DEF Without
    <3>4. ub.done = <<>> /\ ub.by = <<>> /\ Without(ub.done, "err")
      BY <1>a, <3>1 DEF UrbStart, Without
    <3>5. UbShape(ub)' /\ UbLists(ub)' /\ UaShape(ua)'
      BY <1>a, <3>1, <3>3, <3>4 DEF UbShape, UbLists, UaShape
    <3>6. UbCounts(ub)' /\ UaCounts(ua)' BY <1>b, <3>2, <3>3, <3>4 DEF UbCounts, UaCounts
    <3>7. UrbStart' /\ UrbEnd'
      BY <1>a, <1>d, <1>e, <1>f, <1>b, <3>1, <3>2, <3>3, <3>4 DEF UrbStart, UrbEnd
    <3>8. UrbSum'
      <4>1. ua.thread = "start" BY <3>1
      <4>2. Len(ub'.by) = 1 BY <3>3
      <4> QED BY <1>b, <1>e, <3>2, <4>1, <4>2 DEF UrbSum
    <3>9. UrbPm' /\ UrbBare' BY <1>a, <3>1, <3>3, <3>4 DEF UrbPm, UrbBare
    <3>10. UrbPms' /\ UrbTake' /\ UrbLost' /\ UrbCounted'
      BY <1>e, <1>g, <1>h, <1>i, <1>b, <3>1, <3>2, <3>3, <3>4 DEF UrbPms, UrbTake, UrbLost, UrbCounted
    <3>11. UrbRead' BY <1>a, <3>1, <3>3, <3>4 DEF UrbRead, Undisturbed, UrbPm
    <3>12. UrbArmed'
      <4>1. Coming' BY <1>b, <3>1, <3>2, <3>3, <3>4 DEF Coming
      <4> QED BY <4>1 DEF UrbArmed
    <3> QED BY <3>5, <3>6, <3>7, <3>8, <3>9, <3>10, <3>11, <3>12 DEF UrbInv
  <2>2. ASSUME NEW o, ua.thread = "start",
              ~ub.suspend,
              o = ua.odd \/ o = ua.odd \union {"crossed"},
              ua.pm = "empty" => "crossed" \in o,
              ub' = [ub EXCEPT !.free = RxUrbs - 1, !.txfree = TxUrbs, !.air = 1, !.bulk = 1],
              ua' = [ua EXCEPT !.thread = "wait", !.odd = o]
       PROVE  UrbInv'
    <3>1. /\ ua.thread = "start" /\ ~ub.suspend /\ (o = ua.odd \/ o = ua.odd \union {"crossed"})
          /\ (ua.pm = "empty" => "crossed" \in o) /\ DOMAIN ub' = DOMAIN ub /\ ub'.state = ub.state
          /\ ub'.suspend = ub.suspend /\ ub'.done = ub.done /\ ub'.by = ub.by
          /\ DOMAIN ua' = DOMAIN ua /\ ua'.thread = "wait" /\ ua'.task = ua.task /\ ua'.pm = ua.pm
          /\ ua'.kick = ua.kick /\ ua'.send = ua.send /\ ua'.disc = ua.disc /\ ua'.odd = o
      BY <1>a, <2>2 DEF UbShape, UaShape
    <3>2. /\ ub'.free = RxUrbs - 1 /\ ub'.air = 1 /\ ub'.bulk = 1 /\ ub'.txfree = TxUrbs
          /\ ub'.tx_urb_count = txc /\ ua'.lost = lost /\ ua'.pms = pms /\ ua'.cap = cap
          /\ ua'.faults = faults /\ ua'.sends = sends /\ Len(ub'.done) = nd /\ Len(ub'.by) = nb
      BY <1>a, <2>2 DEF UbShape, UaShape, nd, nb, free, air, bulk, txf, txc, lost, pms, cap, faults, sends
    <3>3. ub.done = <<>> /\ ub.by = <<>> /\ Without(ub.done, "err")
      BY <1>a, <3>1 DEF UrbStart, Without
    <3>4. UbShape(ub)' /\ UbLists(ub)' /\ UaShape(ua)'
      BY <1>a, <3>1, <3>3 DEF UbShape, UbLists, UaShape
    <3>5. UbCounts(ub)' /\ UaCounts(ua)' BY <1>b, <3>2, <3>3 DEF UbCounts, UaCounts
    <3>6. UrbStart' /\ UrbEnd' BY <1>a, <1>d, <1>e, <1>f, <1>b, <3>1, <3>2, <3>3 DEF UrbStart, UrbEnd
    <3>7. UrbSum'
      <4>1. ua.thread = "start" BY <3>1
      <4> QED BY <1>b, <1>e, <3>2, <4>1 DEF UrbSum
    <3>8. UrbPm' /\ UrbBare' BY <1>a, <3>1, <3>3 DEF UrbPm, UrbBare
    <3>9. UrbPms' /\ UrbTake' /\ UrbLost' /\ UrbCounted'
      BY <1>e, <1>g, <1>h, <1>i, <1>b, <3>1, <3>2, <3>3 DEF UrbPms, UrbTake, UrbLost, UrbCounted
    <3>10. UrbRead' BY <1>a, <3>1, <3>3 DEF UrbRead, Undisturbed, UrbPm
    <3>11. UrbArmed'
      <4>1. Coming' BY <1>b, <3>1, <3>2, <3>3 DEF Coming
      <4> QED BY <4>1 DEF UrbArmed
    <3> QED BY <3>4, <3>5, <3>6, <3>7, <3>8, <3>9, <3>10, <3>11 DEF UrbInv
  <2> QED BY <1>a, <1>1, <2>1, <2>2 DEF usb_port_async_entry, AllUrbs, UbShape, UaShape
<1>2. ASSUME NEW s \in {"ok", "err"}, UrbCompletes(s) PROVE UrbInv'
  <2>1. ASSUME NEW t, ub.air > 0,
              ua.thread = "wait",
              ub.state,
              t = IF ub.state /\ ua.task = "idle" THEN "sched" ELSE ua.task,
              ub' = [ub EXCEPT !.air = ub.air - 1, !.bulk = ub.bulk - 1, !.done = Append(ub.done, "ok")],
              ua' = [ua EXCEPT !.task = t]
       PROVE  UrbInv'
    <3>1. /\ ua.thread = "wait" /\ ub.state
          /\ (t = IF ub.state /\ ua.task = "idle" THEN "sched" ELSE ua.task)
          /\ DOMAIN ub' = DOMAIN ub /\ ub'.state = ub.state /\ ub'.suspend = ub.suspend
          /\ ub'.done = Append(ub.done, "ok") /\ ub'.by = ub.by /\ DOMAIN ua' = DOMAIN ua
          /\ ua'.thread = ua.thread /\ ua'.task = t /\ ua'.pm = ua.pm /\ ua'.kick = ua.kick
          /\ ua'.send = ua.send /\ ua'.disc = ua.disc /\ ua'.odd = ua.odd
      BY <1>a, <2>1 DEF UbShape, UaShape
    <3>2. /\ air > 0 /\ ub'.free = free /\ ub'.air = air - 1 /\ ub'.bulk = bulk - 1
          /\ ub'.txfree = txf /\ ub'.tx_urb_count = txc /\ ua'.lost = lost /\ ua'.pms = pms
          /\ ua'.cap = cap /\ ua'.faults = faults /\ ua'.sends = sends /\ Len(ub'.by) = nb
      BY <1>a, <2>1 DEF UbShape, UaShape, nd, nb, free, air, bulk, txf, txc, lost, pms, cap, faults, sends
    <3>3. /\ ub'.done \in Seq({"ok", "err"}) /\ Len(ub'.done) = nd + 1 /\ ub'.done # <<>>
          /\ Without(ub.done, "err") => Without(ub'.done, "err")
      <4> DEFINE x == ub.done
                 c == "ok"
                 T == {"ok", "err"}
      <4>1. x \in Seq(T) /\ c \in T BY <1>a DEF UbLists
      <4> HIDE DEF x, c, T
      <4>2. Append(x, c) \in Seq(T) /\ Len(Append(x, c)) = Len(x) + 1 /\ Append(x, c) # <<>>
        BY <4>1, OneMore
      <4>3. c # "err" /\ Without(x, "err") => Without(Append(x, c), "err") BY <4>1, OneMore
      <4> QED BY <3>1, <4>2, <4>3 DEF x, c, T, nd
    <3>4. UbShape(ub)' /\ UbLists(ub)' /\ UaShape(ua)'
      BY <1>a, <3>1, <3>3 DEF UbShape, UbLists, UaShape
    <3>5. UbCounts(ub)' /\ UaCounts(ua)' BY SMTT(20), <1>b, <3>2, <3>3 DEF UbCounts, UaCounts
    <3>6. UrbStart' /\ UrbEnd' BY <1>a, <1>d, <1>e, <1>f, <1>b, <3>1, <3>2, <3>3 DEF UrbStart, UrbEnd
    <3>7. UrbSum'
      <4>1. ua'.thread = "wait" => ua.thread = "wait" BY <3>1
      <4>2. Len(ub'.done) = nd + 1 BY <3>3
      <4> QED BY <1>b, <1>d, <3>2, <4>1, <4>2 DEF UrbSum
    <3>8. UrbPm' /\ UrbBare' BY <1>a, <3>1, <3>3 DEF UrbPm, UrbBare
    <3>9. UrbPms' /\ UrbTake' /\ UrbLost' /\ UrbCounted'
      BY <1>e, <1>g, <1>h, <1>i, <1>b, <3>1, <3>2, <3>3 DEF UrbPms, UrbTake, UrbLost, UrbCounted
    <3>10. UrbRead' BY <1>a, <3>1, <3>3 DEF UrbRead, Undisturbed, UrbPm
    <3>11. UrbArmed' BY <3>1 DEF UrbArmed
    <3> QED BY <3>4, <3>5, <3>6, <3>7, <3>8, <3>9, <3>10, <3>11 DEF UrbInv
  <2>2. ASSUME NEW t, ub.air > 0,
              ua.thread = "wait",
              ~ub.state,
              t = IF ub.state /\ ua.task = "idle" THEN "sched" ELSE ua.task,
              ub' = [ub EXCEPT !.air = ub.air - 1, !.bulk = ub.bulk - 1, !.free = ub.free + 1],
              ua' = [ua EXCEPT !.task = t]
       PROVE  UrbInv'
    <3>1. /\ ua.thread = "wait" /\ ~ub.state
          /\ (t = IF ub.state /\ ua.task = "idle" THEN "sched" ELSE ua.task)
          /\ DOMAIN ub' = DOMAIN ub /\ ub'.state = ub.state /\ ub'.suspend = ub.suspend
          /\ ub'.done = ub.done /\ ub'.by = ub.by /\ DOMAIN ua' = DOMAIN ua
          /\ ua'.thread = ua.thread /\ ua'.task = t /\ ua'.pm = ua.pm /\ ua'.kick = ua.kick
          /\ ua'.send = ua.send /\ ua'.disc = ua.disc /\ ua'.odd = ua.odd
      BY <1>a, <2>2 DEF UbShape, UaShape
    <3>2. /\ air > 0 /\ ub'.free = free + 1 /\ ub'.air = air - 1 /\ ub'.bulk = bulk - 1
          /\ ub'.txfree = txf /\ ub'.tx_urb_count = txc /\ ua'.lost = lost /\ ua'.pms = pms
          /\ ua'.cap = cap /\ ua'.faults = faults /\ ua'.sends = sends /\ Len(ub'.done) = nd
          /\ Len(ub'.by) = nb
      BY <1>a, <2>2 DEF UbShape, UaShape, nd, nb, free, air, bulk, txf, txc, lost, pms, cap, faults, sends
    <3>3. UbShape(ub)' /\ UbLists(ub)' /\ UaShape(ua)' BY <1>a, <3>1 DEF UbShape, UbLists, UaShape
    <3>4. UbCounts(ub)' /\ UaCounts(ua)' BY <1>b, <3>2 DEF UbCounts, UaCounts
    <3>5. UrbStart' /\ UrbEnd' BY <1>a, <1>d, <1>e, <1>f, <1>b, <3>1, <3>2 DEF UrbStart, UrbEnd
    <3>6. UrbSum'
      <4>1. ua'.thread = "wait" => ua.thread = "wait" BY <3>1
      <4> QED BY <1>b, <1>d, <3>2, <4>1 DEF UrbSum
    <3>7. UrbPm' /\ UrbBare' BY <1>a, <3>1 DEF UrbPm, UrbBare
    <3>8. UrbPms' /\ UrbTake' /\ UrbLost' /\ UrbCounted'
      BY <1>e, <1>g, <1>h, <1>i, <1>b, <3>1, <3>2 DEF UrbPms, UrbTake, UrbLost, UrbCounted
    <3>9. UrbRead' BY <1>a, <3>1 DEF UrbRead, Undisturbed, UrbPm
    <3>10. UrbArmed' BY <1>a, <3>1 DEF UrbArmed, UrbRead, UrbStart, UrbEnd, Undisturbed
    <3> QED BY <3>3, <3>4, <3>5, <3>6, <3>7, <3>8, <3>9, <3>10 DEF UrbInv
  <2>3. ASSUME NEW t, ub.air > 0,
              ua.thread = "wait",
              ub.state,
              t = IF ub.state /\ ua.task = "idle" THEN "sched" ELSE ua.task,
              ub' = [ub EXCEPT !.air = ub.air - 1, !.bulk = ub.bulk - 1, !.done = Append(ub.done, "err")],
              ua' = [ua EXCEPT !.task = t, !.faults = ua.faults + 1, !.odd = ua.odd \union {"failed"}]
       PROVE  UrbInv'
    <3>1. /\ ua.thread = "wait" /\ ub.state
          /\ (t = IF ub.state /\ ua.task = "idle" THEN "sched" ELSE ua.task)
          /\ DOMAIN ub' = DOMAIN ub /\ ub'.state = ub.state /\ ub'.suspend = ub.suspend
          /\ ub'.done = Append(ub.done, "err") /\ ub'.by = ub.by /\ DOMAIN ua' = DOMAIN ua
          /\ ua'.thread = ua.thread /\ ua'.task = t /\ ua'.pm = ua.pm /\ ua'.kick = ua.kick
          /\ ua'.send = ua.send /\ ua'.disc = ua.disc /\ ua'.odd = ua.odd \union {"failed"}
      BY <1>a, <2>3 DEF UbShape, UaShape
    <3>2. /\ air > 0 /\ ub'.free = free /\ ub'.air = air - 1 /\ ub'.bulk = bulk - 1
          /\ ub'.txfree = txf /\ ub'.tx_urb_count = txc /\ ua'.lost = lost /\ ua'.pms = pms
          /\ ua'.cap = cap /\ ua'.faults = faults + 1 /\ ua'.sends = sends /\ Len(ub'.by) = nb
      BY <1>a, <2>3 DEF UbShape, UaShape, nd, nb, free, air, bulk, txf, txc, lost, pms, cap, faults, sends
    <3>3. /\ ub'.done \in Seq({"ok", "err"}) /\ Len(ub'.done) = nd + 1 /\ ub'.done # <<>>
      <4> DEFINE x == ub.done
                 c == "err"
                 T == {"ok", "err"}
      <4>1. x \in Seq(T) /\ c \in T BY <1>a DEF UbLists
      <4> HIDE DEF x, c, T
      <4>2. Append(x, c) \in Seq(T) /\ Len(Append(x, c)) = Len(x) + 1 /\ Append(x, c) # <<>>
        BY <4>1, OneMore
      <4>3. c # "err" /\ Without(x, "err") => Without(Append(x, c), "err") BY <4>1, OneMore
      <4> QED BY <3>1, <4>2, <4>3 DEF x, c, T, nd
    <3>4. UbShape(ub)' /\ UbLists(ub)' /\ UaShape(ua)'
      BY <1>a, <3>1, <3>3 DEF UbShape, UbLists, UaShape
    <3>5. UbCounts(ub)' /\ UaCounts(ua)' BY SMTT(20), <1>b, <3>2, <3>3 DEF UbCounts, UaCounts
    <3>6. UrbStart' /\ UrbEnd' BY <1>a, <1>d, <1>e, <1>f, <1>b, <3>1, <3>2, <3>3 DEF UrbStart, UrbEnd
    <3>7. UrbSum'
      <4>1. ua'.thread = "wait" => ua.thread = "wait" BY <3>1
      <4>2. Len(ub'.done) = nd + 1 BY <3>3
      <4> QED BY <1>b, <1>d, <3>2, <4>1, <4>2 DEF UrbSum
    <3>8. UrbPm' /\ UrbBare' BY <1>a, <3>1, <3>3 DEF UrbPm, UrbBare
    <3>9. UrbPms' /\ UrbTake' /\ UrbLost' /\ UrbCounted'
      BY <1>e, <1>g, <1>h, <1>i, <1>b, <3>1, <3>2, <3>3 DEF UrbPms, UrbTake, UrbLost, UrbCounted
    <3>10. UrbRead' BY <1>a, <3>1, <3>3 DEF UrbRead, Undisturbed, UrbPm
    <3>11. UrbArmed' BY <3>1 DEF UrbArmed
    <3> QED BY <3>4, <3>5, <3>6, <3>7, <3>8, <3>9, <3>10, <3>11 DEF UrbInv
  <2>4. ASSUME NEW t, ub.air > 0,
              ua.thread = "wait",
              ~ub.state,
              t = IF ub.state /\ ua.task = "idle" THEN "sched" ELSE ua.task,
              ub' = [ub EXCEPT !.air = ub.air - 1, !.bulk = ub.bulk - 1, !.free = ub.free + 1],
              ua' = [ua EXCEPT !.task = t, !.faults = ua.faults + 1, !.odd = ua.odd \union {"failed"}]
       PROVE  UrbInv'
    <3>1. /\ ua.thread = "wait" /\ ~ub.state
          /\ (t = IF ub.state /\ ua.task = "idle" THEN "sched" ELSE ua.task)
          /\ DOMAIN ub' = DOMAIN ub /\ ub'.state = ub.state /\ ub'.suspend = ub.suspend
          /\ ub'.done = ub.done /\ ub'.by = ub.by /\ DOMAIN ua' = DOMAIN ua
          /\ ua'.thread = ua.thread /\ ua'.task = t /\ ua'.pm = ua.pm /\ ua'.kick = ua.kick
          /\ ua'.send = ua.send /\ ua'.disc = ua.disc /\ ua'.odd = ua.odd \union {"failed"}
      BY <1>a, <2>4 DEF UbShape, UaShape
    <3>2. /\ air > 0 /\ ub'.free = free + 1 /\ ub'.air = air - 1 /\ ub'.bulk = bulk - 1
          /\ ub'.txfree = txf /\ ub'.tx_urb_count = txc /\ ua'.lost = lost /\ ua'.pms = pms
          /\ ua'.cap = cap /\ ua'.faults = faults + 1 /\ ua'.sends = sends /\ Len(ub'.done) = nd
          /\ Len(ub'.by) = nb
      BY <1>a, <2>4 DEF UbShape, UaShape, nd, nb, free, air, bulk, txf, txc, lost, pms, cap, faults, sends
    <3>3. UbShape(ub)' /\ UbLists(ub)' /\ UaShape(ua)' BY <1>a, <3>1 DEF UbShape, UbLists, UaShape
    <3>4. UbCounts(ub)' /\ UaCounts(ua)' BY <1>b, <3>2 DEF UbCounts, UaCounts
    <3>5. UrbStart' /\ UrbEnd' BY <1>a, <1>d, <1>e, <1>f, <1>b, <3>1, <3>2 DEF UrbStart, UrbEnd
    <3>6. UrbSum'
      <4>1. ua'.thread = "wait" => ua.thread = "wait" BY <3>1
      <4> QED BY <1>b, <1>d, <3>2, <4>1 DEF UrbSum
    <3>7. UrbPm' /\ UrbBare' BY <1>a, <3>1 DEF UrbPm, UrbBare
    <3>8. UrbPms' /\ UrbTake' /\ UrbLost' /\ UrbCounted'
      BY <1>e, <1>g, <1>h, <1>i, <1>b, <3>1, <3>2 DEF UrbPms, UrbTake, UrbLost, UrbCounted
    <3>9. UrbRead' BY <1>a, <3>1 DEF UrbRead, Undisturbed, UrbPm
    <3>10. UrbArmed' BY <1>a, <3>1 DEF UrbArmed, UrbRead, UrbStart, UrbEnd, Undisturbed
    <3> QED BY <3>3, <3>4, <3>5, <3>6, <3>7, <3>8, <3>9, <3>10 DEF UrbInv
  <2> QED
    <3>1. ub.done \o [i \in 1..1 |-> s] = Append(ub.done, s) BY <1>a, AppendOne DEF UbLists
    <3>2. ub' = IF ub.state THEN [ub EXCEPT !.air = ub.air - 1, !.bulk = ub.bulk - 1, !.done = Append(ub.done, s)]
                ELSE [ub EXCEPT !.air = ub.air - 1, !.bulk = ub.bulk - 1, !.free = ub.free + 1]
      BY <1>a, <1>2, <3>1 DEF UrbCompletes, bulkin_async_complete, UbShape
    <3> DEFINE t == IF ub.state /\ ua.task = "idle" THEN "sched" ELSE ua.task
    <3>3. ub.air > 0 /\ ua.thread = "wait" BY <1>2 DEF UrbCompletes
    <3>4. CASE s = "ok"
      <4>1. ua' = [ua EXCEPT !.task = t] BY <1>2, <3>4 DEF UrbCompletes
      <4> QED BY <2>1, <2>2, <3>2, <3>3, <3>4, <4>1
    <3>5. CASE s = "err"
      <4>1. ua' = [ua EXCEPT !.task = t, !.faults = ua.faults + 1, !.odd = ua.odd \union {"failed"}]
        BY <1>a, <1>2, <3>5 DEF UrbCompletes, Note, UaShape
      <4> QED BY <2>3, <2>4, <3>2, <3>3, <3>5, <4>1
    <3> QED BY <3>4, <3>5
<1>3. CASE usb_handle
  <2>1. ASSUME NEW k, NEW m, NEW d, k \in Nat /\ m \in Nat /\ m + k = Len(ub.done),
              ua.task = "sched",
              d \in Seq({"ok", "err"}),
              (Without(ub.done, "err") => Without(d, "err")),
              m = Len(d),
              ~Without(ub.done, "err"),
              ub' = [ub EXCEPT !.done = d, !.free = ub.free + k],
              ua' = [ua EXCEPT !.task = "idle"]
       PROVE  UrbInv'
    <3>1. /\ ua.task = "sched" /\ d \in Seq({"ok", "err"})
          /\ (Without(ub.done, "err") => Without(d, "err")) /\ m = Len(d)
          /\ ~Without(ub.done, "err") /\ DOMAIN ub' = DOMAIN ub /\ ub'.state = ub.state
          /\ ub'.suspend = ub.suspend /\ ub'.done = d /\ ub'.by = ub.by /\ DOMAIN ua' = DOMAIN ua
          /\ ua'.thread = ua.thread /\ ua'.task = "idle" /\ ua'.pm = ua.pm /\ ua'.kick = ua.kick
          /\ ua'.send = ua.send /\ ua'.disc = ua.disc /\ ua'.odd = ua.odd
      BY <1>a, <2>1 DEF UbShape, UaShape
    <3>2. /\ k \in Nat /\ m \in Nat /\ m + k = nd /\ ub'.free = free + k /\ ub'.air = air
          /\ ub'.bulk = bulk /\ ub'.txfree = txf /\ ub'.tx_urb_count = txc /\ ua'.lost = lost
          /\ ua'.pms = pms /\ ua'.cap = cap /\ ua'.faults = faults /\ ua'.sends = sends
          /\ Len(ub'.by) = nb
      BY <1>a, <2>1 DEF UbShape, UaShape, nd, nb, free, air, bulk, txf, txc, lost, pms, cap, faults, sends
    <3>3. Len(ub'.done) = m BY <2>1, <3>1
    <3>4. UbShape(ub)' /\ UbLists(ub)' /\ UaShape(ua)'
      BY <1>a, <3>1, <3>3 DEF UbShape, UbLists, UaShape
    <3>5. UbCounts(ub)' /\ UaCounts(ua)' BY <1>b, <3>2, <3>3 DEF UbCounts, UaCounts
    <3>6. UrbStart' /\ UrbEnd' BY <1>a, <1>d, <1>e, <1>f, <1>b, <3>1, <3>2, <3>3 DEF UrbStart, UrbEnd
    <3>7. UrbSum'
      <4>1. ua'.thread = "wait" => ua.thread = "wait" BY <3>1
      <4>2. Len(ub'.done) = m BY <3>3
      <4> QED BY <1>b, <1>d, <3>2, <4>1, <4>2 DEF UrbSum
    <3>8. UrbPm' /\ UrbBare' BY <1>a, <3>1, <3>3 DEF UrbPm, UrbBare
    <3>9. UrbPms' /\ UrbTake' /\ UrbLost' /\ UrbCounted'
      BY <1>e, <1>g, <1>h, <1>i, <1>b, <3>1, <3>2, <3>3 DEF UrbPms, UrbTake, UrbLost, UrbCounted
    <3>10. UrbRead' BY <1>a, <3>1, <3>3 DEF UrbRead, Undisturbed, UrbPm
    <3>11. UrbArmed' BY <1>a, <3>1 DEF UrbArmed, UrbRead, UrbStart, UrbEnd, Undisturbed
    <3> QED BY <3>4, <3>5, <3>6, <3>7, <3>8, <3>9, <3>10, <3>11 DEF UrbInv
  <2>2. ASSUME NEW k, NEW m, NEW d, k \in Nat /\ m \in Nat /\ m + k = Len(ub.done),
              ua.task = "sched",
              d \in Seq({"ok", "err"}),
              (Without(ub.done, "err") => Without(d, "err")),
              m = Len(d),
              ub' = [ub EXCEPT !.done = d, !.free = ub.free + k],
              ua' = [ua EXCEPT !.task = "read"]
       PROVE  UrbInv'
    <3>1. /\ ua.task = "sched" /\ d \in Seq({"ok", "err"})
          /\ (Without(ub.done, "err") => Without(d, "err")) /\ m = Len(d) /\ DOMAIN ub' = DOMAIN ub
          /\ ub'.state = ub.state /\ ub'.suspend = ub.suspend /\ ub'.done = d /\ ub'.by = ub.by
          /\ DOMAIN ua' = DOMAIN ua /\ ua'.thread = ua.thread /\ ua'.task = "read"
          /\ ua'.pm = ua.pm /\ ua'.kick = ua.kick /\ ua'.send = ua.send /\ ua'.disc = ua.disc
          /\ ua'.odd = ua.odd
      BY <1>a, <2>2 DEF UbShape, UaShape
    <3>2. /\ k \in Nat /\ m \in Nat /\ m + k = nd /\ ub'.free = free + k /\ ub'.air = air
          /\ ub'.bulk = bulk /\ ub'.txfree = txf /\ ub'.tx_urb_count = txc /\ ua'.lost = lost
          /\ ua'.pms = pms /\ ua'.cap = cap /\ ua'.faults = faults /\ ua'.sends = sends
          /\ Len(ub'.by) = nb
      BY <1>a, <2>2 DEF UbShape, UaShape, nd, nb, free, air, bulk, txf, txc, lost, pms, cap, faults, sends
    <3>3. Len(ub'.done) = m BY <2>2, <3>1
    <3>4. UbShape(ub)' /\ UbLists(ub)' /\ UaShape(ua)'
      BY <1>a, <3>1, <3>3 DEF UbShape, UbLists, UaShape
    <3>5. UbCounts(ub)' /\ UaCounts(ua)' BY <1>b, <3>2, <3>3 DEF UbCounts, UaCounts
    <3>6. UrbStart' /\ UrbEnd' BY <1>a, <1>d, <1>e, <1>f, <1>b, <3>1, <3>2, <3>3 DEF UrbStart, UrbEnd
    <3>7. UrbSum'
      <4>1. ua'.thread = "wait" => ua.thread = "wait" BY <3>1
      <4>2. Len(ub'.done) = m BY <3>3
      <4> QED BY <1>b, <1>d, <3>2, <4>1, <4>2 DEF UrbSum
    <3>8. UrbPm' /\ UrbBare' BY <1>a, <3>1, <3>3 DEF UrbPm, UrbBare
    <3>9. UrbPms' /\ UrbTake' /\ UrbLost' /\ UrbCounted'
      BY <1>e, <1>g, <1>h, <1>i, <1>b, <3>1, <3>2, <3>3 DEF UrbPms, UrbTake, UrbLost, UrbCounted
    <3>10. UrbRead' BY <1>a, <3>1, <3>3 DEF UrbRead, Undisturbed, UrbPm
    <3>11. UrbArmed' BY <3>1 DEF UrbArmed
    <3> QED BY <3>4, <3>5, <3>6, <3>7, <3>8, <3>9, <3>10, <3>11 DEF UrbInv
  <2> QED
    <3> DEFINE bad == {i \in 1..Len(ub.done) : ub.done[i] = "err"}
               k == IF ~ub.state THEN 0
                    ELSE IF bad = {} THEN Len(ub.done) ELSE CHOOSE i \in bad : \A j \in bad : i <= j
               d == SubSeq(ub.done, k + 1, Len(ub.done))
    <3>1. ub' = [ub EXCEPT !.done = d, !.free = ub.free + k] /\ ua.task = "sched"
          /\ ua' = [ua EXCEPT !.task = IF ub.state /\ bad # {} THEN "idle" ELSE "read"]
      BY <1>3 DEF usb_handle
    <3>2. Len(ub.done) \in Nat BY <1>a DEF UbLists
    <3>3. bad \subseteq Nat /\ bad \subseteq 1..Len(ub.done) /\ (bad # {} => ~Without(ub.done, "err"))
      BY <3>2 DEF Without
    <3> HIDE DEF bad
    <3>4. bad # {} => \E i \in bad : \A j \in bad : i <= j BY <3>3, LeastIndex
    <3>5. k \in 0..Len(ub.done)
      <4>1. CASE ~ub.state BY <3>2, <4>1
      <4>2. CASE ub.state /\ bad = {} BY <3>2, <4>2
      <4>3. CASE ub.state /\ bad # {}
        <5>1. (CHOOSE i \in bad : \A j \in bad : i <= j) \in bad BY <3>4, <4>3
        <5>2. k \in bad BY <4>3, <5>1
        <5> HIDE DEF k
        <5> QED BY <3>2, <3>3, <5>2
      <4> QED BY <4>1, <4>2, <4>3
    <3> HIDE DEF k
    <3>6. d \in Seq({"ok", "err"}) /\ Len(d) = Len(ub.done) - k /\ (Without(ub.done, "err") => Without(d, "err"))
      BY <1>a, <3>5, RestOf DEF UbLists
    <3>7. k \in Nat /\ Len(ub.done) - k \in Nat /\ (Len(ub.done) - k) + k = Len(ub.done) BY <3>2, <3>5
    <3> HIDE DEF d
    <3>8. CASE ub.state /\ bad # {} BY <2>1, <3>1, <3>3, <3>6, <3>7, <3>8
    <3>9. CASE ~(ub.state /\ bad # {}) BY <2>2, <3>1, <3>6, <3>7, <3>9
    <3> QED BY <3>8, <3>9
<1>4. CASE HandleReads
  <2>1. CASE /\ ua.task = "read"
            /\ ub.free = 0
            /\ ub' = ub
            /\ ua' = [ua EXCEPT !.odd = ua.odd \union {"torn"}]
    <3>1. /\ ua.task = "read" /\ DOMAIN ub' = DOMAIN ub /\ ub'.state = ub.state
          /\ ub'.suspend = ub.suspend /\ ub'.done = ub.done /\ ub'.by = ub.by
          /\ DOMAIN ua' = DOMAIN ua /\ ua'.thread = ua.thread /\ ua'.task = ua.task
          /\ ua'.pm = ua.pm /\ ua'.kick = ua.kick /\ ua'.send = ua.send /\ ua'.disc = ua.disc
          /\ ua'.odd = ua.odd \union {"torn"}
      BY <1>a, <2>1 DEF UbShape, UaShape
    <3>2. /\ free = 0 /\ ub'.free = free /\ ub'.air = air /\ ub'.bulk = bulk /\ ub'.txfree = txf
          /\ ub'.tx_urb_count = txc /\ ua'.lost = lost /\ ua'.pms = pms /\ ua'.cap = cap
          /\ ua'.faults = faults /\ ua'.sends = sends /\ Len(ub'.done) = nd /\ Len(ub'.by) = nb
      BY <1>a, <2>1 DEF UbShape, UaShape, nd, nb, free, air, bulk, txf, txc, lost, pms, cap, faults, sends
    <3>3. UbShape(ub)' /\ UbLists(ub)' /\ UaShape(ua)' BY <1>a, <3>1 DEF UbShape, UbLists, UaShape
    <3>4. UbCounts(ub)' /\ UaCounts(ua)' BY <1>b, <3>2 DEF UbCounts, UaCounts
    <3>5. UrbStart' /\ UrbEnd' BY <1>a, <1>d, <1>e, <1>f, <1>b, <3>1, <3>2 DEF UrbStart, UrbEnd
    <3>6. UrbSum'
      <4>1. ua'.thread = "wait" => ua.thread = "wait" BY <3>1
      <4> QED BY <1>b, <1>d, <3>2, <4>1 DEF UrbSum
    <3>7. UrbPm' /\ UrbBare' BY <1>a, <3>1 DEF UrbPm, UrbBare
    <3>8. UrbPms' /\ UrbTake' /\ UrbLost' /\ UrbCounted'
      BY <1>e, <1>g, <1>h, <1>i, <1>b, <3>1, <3>2 DEF UrbPms, UrbTake, UrbLost, UrbCounted
    <3>9. UrbRead' BY <1>a, <3>1 DEF UrbRead, Undisturbed, UrbPm
    <3>10. UrbArmed' BY <3>1 DEF UrbArmed
    <3> QED BY <3>3, <3>4, <3>5, <3>6, <3>7, <3>8, <3>9, <3>10 DEF UrbInv
  <2>2. ASSUME NEW o, ua.task = "read",
              ub.free > 0,
              ub.suspend,
              o = ua.odd \/ o = ua.odd \union {"crossed"},
              ua.pm = "empty" => "crossed" \in o,
              ub' = [ub EXCEPT !.free = ub.free - 1, !.by = Append(ub.by, "ctx")],
              ua' = [ua EXCEPT !.odd = o]
       PROVE  UrbInv'
    <3>1. /\ ua.task = "read" /\ ub.suspend /\ (o = ua.odd \/ o = ua.odd \union {"crossed"})
          /\ (ua.pm = "empty" => "crossed" \in o) /\ DOMAIN ub' = DOMAIN ub /\ ub'.state = ub.state
          /\ ub'.suspend = ub.suspend /\ ub'.done = ub.done /\ ub'.by = Append(ub.by, "ctx")
          /\ DOMAIN ua' = DOMAIN ua /\ ua'.thread = ua.thread /\ ua'.task = ua.task
          /\ ua'.pm = ua.pm /\ ua'.kick = ua.kick /\ ua'.send = ua.send /\ ua'.disc = ua.disc
          /\ ua'.odd = o
      BY <1>a, <2>2 DEF UbShape, UaShape
    <3>2. /\ free > 0 /\ ub'.free = free - 1 /\ ub'.air = air /\ ub'.bulk = bulk
          /\ ub'.txfree = txf /\ ub'.tx_urb_count = txc /\ ua'.lost = lost /\ ua'.pms = pms
          /\ ua'.cap = cap /\ ua'.faults = faults /\ ua'.sends = sends /\ Len(ub'.done) = nd
      BY <1>a, <2>2 DEF UbShape, UaShape, nd, nb, free, air, bulk, txf, txc, lost, pms, cap, faults, sends
    <3>3. /\ ub'.by \in Seq({"ctx", "bare"}) /\ Len(ub'.by) = nb + 1 /\ ub'.by # <<>>
          /\ Without(ub.by, "bare") => Without(ub'.by, "bare")
      BY <1>a, <3>1, OneMore, SMTT(30) DEF UbLists, nb
    <3>4. UbShape(ub)' /\ UbLists(ub)' /\ UaShape(ua)'
      BY <1>a, <3>1, <3>3 DEF UbShape, UbLists, UaShape
    <3>5. UbCounts(ub)' /\ UaCounts(ua)' BY <1>b, <3>2, <3>3 DEF UbCounts, UaCounts
    <3>6. UrbStart' /\ UrbEnd' BY <1>a, <1>d, <1>e, <1>f, <1>b, <3>1, <3>2, <3>3 DEF UrbStart, UrbEnd
    <3>7. UrbSum'
      <4>1. ua'.thread = "wait" => ua.thread = "wait" BY <3>1
      <4>2. Len(ub'.by) = nb + 1 BY <3>3
      <4> QED BY <1>b, <1>d, <3>2, <4>1, <4>2 DEF UrbSum
    <3>8. UrbPm' /\ UrbBare' BY <1>a, <3>1, <3>3 DEF UrbPm, UrbBare
    <3>9. UrbPms' /\ UrbTake' /\ UrbLost' /\ UrbCounted'
      BY <1>e, <1>g, <1>h, <1>i, <1>b, <3>1, <3>2, <3>3 DEF UrbPms, UrbTake, UrbLost, UrbCounted
    <3>10. UrbRead' BY <1>a, <3>1, <3>3 DEF UrbRead, Undisturbed, UrbPm
    <3>11. UrbArmed'
      <4>1. Coming' BY <1>b, <3>1, <3>2, <3>3 DEF Coming
      <4> QED BY <4>1 DEF UrbArmed
    <3> QED BY <3>4, <3>5, <3>6, <3>7, <3>8, <3>9, <3>10, <3>11 DEF UrbInv
  <2>3. CASE /\ ua.task = "read"
            /\ ub.free > 0
            /\ ~ub.suspend
            /\ ub' = [ub EXCEPT !.free = ub.free - 1, !.air = ub.air + 1, !.bulk = ub.bulk + 1]
            /\ ua' = ua
    <3>1. /\ ua.task = "read" /\ ~ub.suspend /\ DOMAIN ub' = DOMAIN ub /\ ub'.state = ub.state
          /\ ub'.suspend = ub.suspend /\ ub'.done = ub.done /\ ub'.by = ub.by
          /\ DOMAIN ua' = DOMAIN ua /\ ua'.thread = ua.thread /\ ua'.task = ua.task
          /\ ua'.pm = ua.pm /\ ua'.kick = ua.kick /\ ua'.send = ua.send /\ ua'.disc = ua.disc
          /\ ua'.odd = ua.odd
      BY <1>a, <2>3 DEF UbShape, UaShape
    <3>2. /\ free > 0 /\ ub'.free = free - 1 /\ ub'.air = air + 1 /\ ub'.bulk = bulk + 1
          /\ ub'.txfree = txf /\ ub'.tx_urb_count = txc /\ ua'.lost = lost /\ ua'.pms = pms
          /\ ua'.cap = cap /\ ua'.faults = faults /\ ua'.sends = sends /\ Len(ub'.done) = nd
          /\ Len(ub'.by) = nb
      BY <1>a, <2>3 DEF UbShape, UaShape, nd, nb, free, air, bulk, txf, txc, lost, pms, cap, faults, sends
    <3>3. UbShape(ub)' /\ UbLists(ub)' /\ UaShape(ua)' BY <1>a, <3>1 DEF UbShape, UbLists, UaShape
    <3>4. UbCounts(ub)' /\ UaCounts(ua)' BY <1>b, <3>2 DEF UbCounts, UaCounts
    <3>5. UrbStart' /\ UrbEnd' BY <1>a, <1>d, <1>e, <1>f, <1>b, <3>1, <3>2 DEF UrbStart, UrbEnd
    <3>6. UrbSum'
      <4>1. ua'.thread = "wait" => ua.thread = "wait" BY <3>1
      <4> QED BY <1>b, <1>d, <3>2, <4>1 DEF UrbSum
    <3>7. UrbPm' /\ UrbBare' BY <1>a, <3>1 DEF UrbPm, UrbBare
    <3>8. UrbPms' /\ UrbTake' /\ UrbLost' /\ UrbCounted'
      BY <1>e, <1>g, <1>h, <1>i, <1>b, <3>1, <3>2 DEF UrbPms, UrbTake, UrbLost, UrbCounted
    <3>9. UrbRead' BY <1>a, <3>1 DEF UrbRead, Undisturbed, UrbPm
    <3>10. UrbArmed'
      <4>1. Coming' BY <1>b, <3>1, <3>2 DEF Coming
      <4> QED BY <4>1 DEF UrbArmed
    <3> QED BY <3>3, <3>4, <3>5, <3>6, <3>7, <3>8, <3>9, <3>10 DEF UrbInv
  <2>4. CASE /\ ua.task = "read"
            /\ ub.free > 0
            /\ ~ub.suspend
            /\ ub' = [ub EXCEPT !.free = ub.free - 1, !.by = Append(ub.by, "bare")]
            /\ ua' = [ua EXCEPT !.faults = ua.faults + 1, !.odd = ua.odd \union {"refused"}]
    <3>1. /\ ua.task = "read" /\ ~ub.suspend /\ DOMAIN ub' = DOMAIN ub /\ ub'.state = ub.state
          /\ ub'.suspend = ub.suspend /\ ub'.done = ub.done /\ ub'.by = Append(ub.by, "bare")
          /\ DOMAIN ua' = DOMAIN ua /\ ua'.thread = ua.thread /\ ua'.task = ua.task
          /\ ua'.pm = ua.pm /\ ua'.kick = ua.kick /\ ua'.send = ua.send /\ ua'.disc = ua.disc
          /\ ua'.odd = ua.odd \union {"refused"}
      BY <1>a, <2>4 DEF UbShape, UaShape
    <3>2. /\ free > 0 /\ ub'.free = free - 1 /\ ub'.air = air /\ ub'.bulk = bulk
          /\ ub'.txfree = txf /\ ub'.tx_urb_count = txc /\ ua'.lost = lost /\ ua'.pms = pms
          /\ ua'.cap = cap /\ ua'.faults = faults + 1 /\ ua'.sends = sends /\ Len(ub'.done) = nd
      BY <1>a, <2>4 DEF UbShape, UaShape, nd, nb, free, air, bulk, txf, txc, lost, pms, cap, faults, sends
    <3>3. /\ ub'.by \in Seq({"ctx", "bare"}) /\ Len(ub'.by) = nb + 1 /\ ub'.by # <<>>
      BY <1>a, <3>1, OneMore, SMTT(30) DEF UbLists, nb
    <3>4. UbShape(ub)' /\ UbLists(ub)' /\ UaShape(ua)'
      BY <1>a, <3>1, <3>3 DEF UbShape, UbLists, UaShape
    <3>5. UbCounts(ub)' /\ UaCounts(ua)' BY <1>b, <3>2, <3>3 DEF UbCounts, UaCounts
    <3>6. UrbStart' /\ UrbEnd' BY <1>a, <1>d, <1>e, <1>f, <1>b, <3>1, <3>2, <3>3 DEF UrbStart, UrbEnd
    <3>7. UrbSum'
      <4>1. ua'.thread = "wait" => ua.thread = "wait" BY <3>1
      <4>2. Len(ub'.by) = nb + 1 BY <3>3
      <4> QED BY <1>b, <1>d, <3>2, <4>1, <4>2 DEF UrbSum
    <3>8. UrbPm' /\ UrbBare' BY <1>a, <3>1, <3>3 DEF UrbPm, UrbBare
    <3>9. UrbPms' /\ UrbTake' /\ UrbLost' /\ UrbCounted'
      BY <1>e, <1>g, <1>h, <1>i, <1>b, <3>1, <3>2, <3>3 DEF UrbPms, UrbTake, UrbLost, UrbCounted
    <3>10. UrbRead' BY <1>a, <3>1, <3>3 DEF UrbRead, Undisturbed, UrbPm
    <3>11. UrbArmed' BY <1>a, <3>1 DEF UrbArmed, UrbRead, UrbStart, UrbEnd, Undisturbed
    <3> QED BY <3>4, <3>5, <3>6, <3>7, <3>8, <3>9, <3>10, <3>11 DEF UrbInv
  <2>5. CASE /\ ua.task = "read"
            /\ ub.done # <<>>
            /\ ub' = ub
            /\ ua' = [ua EXCEPT !.task = "sched"]
    <3>1. /\ ua.task = "read" /\ ub.done # <<>> /\ DOMAIN ub' = DOMAIN ub /\ ub'.state = ub.state
          /\ ub'.suspend = ub.suspend /\ ub'.done = ub.done /\ ub'.by = ub.by
          /\ DOMAIN ua' = DOMAIN ua /\ ua'.thread = ua.thread /\ ua'.task = "sched"
          /\ ua'.pm = ua.pm /\ ua'.kick = ua.kick /\ ua'.send = ua.send /\ ua'.disc = ua.disc
          /\ ua'.odd = ua.odd
      BY <1>a, <2>5 DEF UbShape, UaShape
    <3>2. /\ ub'.free = free /\ ub'.air = air /\ ub'.bulk = bulk /\ ub'.txfree = txf
          /\ ub'.tx_urb_count = txc /\ ua'.lost = lost /\ ua'.pms = pms /\ ua'.cap = cap
          /\ ua'.faults = faults /\ ua'.sends = sends /\ Len(ub'.done) = nd /\ Len(ub'.by) = nb
      BY <1>a, <2>5 DEF UbShape, UaShape, nd, nb, free, air, bulk, txf, txc, lost, pms, cap, faults, sends
    <3>3. UbShape(ub)' /\ UbLists(ub)' /\ UaShape(ua)' BY <1>a, <3>1 DEF UbShape, UbLists, UaShape
    <3>4. UbCounts(ub)' /\ UaCounts(ua)' BY <1>b, <3>2 DEF UbCounts, UaCounts
    <3>5. UrbStart' /\ UrbEnd' BY <1>a, <1>d, <1>e, <1>f, <1>b, <3>1, <3>2 DEF UrbStart, UrbEnd
    <3>6. UrbSum'
      <4>1. ua'.thread = "wait" => ua.thread = "wait" BY <3>1
      <4> QED BY <1>b, <1>d, <3>2, <4>1 DEF UrbSum
    <3>7. UrbPm' /\ UrbBare' BY <1>a, <3>1 DEF UrbPm, UrbBare
    <3>8. UrbPms' /\ UrbTake' /\ UrbLost' /\ UrbCounted'
      BY <1>e, <1>g, <1>h, <1>i, <1>b, <3>1, <3>2 DEF UrbPms, UrbTake, UrbLost, UrbCounted
    <3>9. UrbRead' BY <1>a, <3>1 DEF UrbRead, Undisturbed, UrbPm
    <3>10. UrbArmed' BY <3>1 DEF UrbArmed
    <3> QED BY <3>3, <3>4, <3>5, <3>6, <3>7, <3>8, <3>9, <3>10 DEF UrbInv
  <2>6. CASE /\ ua.task = "read"
            /\ (ub.state => ub.free = 0)
            /\ (ub.state => ub.done = <<>>)
            /\ ub' = ub
            /\ ua' = [ua EXCEPT !.task = "idle"]
    <3>1. /\ ua.task = "read" /\ (ub.state => ub.done = <<>>) /\ DOMAIN ub' = DOMAIN ub
          /\ ub'.state = ub.state /\ ub'.suspend = ub.suspend /\ ub'.done = ub.done
          /\ ub'.by = ub.by /\ DOMAIN ua' = DOMAIN ua /\ ua'.thread = ua.thread
          /\ ua'.task = "idle" /\ ua'.pm = ua.pm /\ ua'.kick = ua.kick /\ ua'.send = ua.send
          /\ ua'.disc = ua.disc /\ ua'.odd = ua.odd
      BY <1>a, <2>6 DEF UbShape, UaShape
    <3>2. /\ (ub.state => free = 0) /\ ub'.free = free /\ ub'.air = air /\ ub'.bulk = bulk
          /\ ub'.txfree = txf /\ ub'.tx_urb_count = txc /\ ua'.lost = lost /\ ua'.pms = pms
          /\ ua'.cap = cap /\ ua'.faults = faults /\ ua'.sends = sends /\ Len(ub'.done) = nd
          /\ Len(ub'.by) = nb
      BY <1>a, <2>6 DEF UbShape, UaShape, nd, nb, free, air, bulk, txf, txc, lost, pms, cap, faults, sends
    <3>3. UbShape(ub)' /\ UbLists(ub)' /\ UaShape(ua)' BY <1>a, <3>1 DEF UbShape, UbLists, UaShape
    <3>4. UbCounts(ub)' /\ UaCounts(ua)' BY <1>b, <3>2 DEF UbCounts, UaCounts
    <3>5. UrbStart' /\ UrbEnd' BY <1>a, <1>d, <1>e, <1>f, <1>b, <3>1, <3>2 DEF UrbStart, UrbEnd
    <3>6. UrbSum'
      <4>1. ua'.thread = "wait" => ua.thread = "wait" BY <3>1
      <4> QED BY <1>b, <1>d, <3>2, <4>1 DEF UrbSum
    <3>7. UrbPm' /\ UrbBare' BY <1>a, <3>1 DEF UrbPm, UrbBare
    <3>8. UrbPms' /\ UrbTake' /\ UrbLost' /\ UrbCounted'
      BY <1>e, <1>g, <1>h, <1>i, <1>b, <3>1, <3>2 DEF UrbPms, UrbTake, UrbLost, UrbCounted
    <3>9. UrbRead' BY <1>a, <3>1 DEF UrbRead, Undisturbed, UrbPm
    <3>10. UrbArmed'
      <4> SUFFICES ASSUME Undisturbed' PROVE Coming' BY DEF UrbArmed
      <4>1. ub.state /\ ua.thread = "wait" /\ "refused" \notin ua.odd /\ "stopped" \notin ua.odd
        BY <3>1 DEF Undisturbed
      <4>2. ub.done = <<>> BY <1>a, <3>1, <4>1 DEF UrbRead, Undisturbed
      <4>3. free = 0 /\ nd = 0 /\ lost = 0 /\ free + air + nd + nb + lost = RxUrbs
        BY <1>b, <1>c, <1>d, <1>h, <3>2, <4>1, <4>2
      <4>4. air > 0 \/ nb > 0 BY <1>b, <4>3
      <4> QED BY <1>b, <1>c, <3>1, <3>2, <4>4 DEF Coming
    <3> QED BY <3>3, <3>4, <3>5, <3>6, <3>7, <3>8, <3>9, <3>10 DEF UrbInv
  <2> QED
    <3>1. CASE ub.free > 0 /\ ub.state
      <4>1. ub.free # 0 BY <3>1
      <4> QED
        BY <1>a, <1>4, <2>2, <2>3, <2>4, <3>1, <4>1 DEF HandleReads, bulkin_read_async, Note, UaShape
    <3>2. CASE ~(ub.free > 0 /\ ub.state)
      <4>1. ub.state => ub.free = 0 BY <1>a, <3>2 DEF UbCounts
      <4> QED BY <1>4, <2>5, <2>6, <3>2, <4>1 DEF HandleReads
    <3> QED BY <3>1, <3>2
<1>5. CASE usb_kick_rx
  <2>1. CASE /\ ub.free > 0
            /\ ua.thread = "wait"
            /\ ub' = ub
            /\ ua' = [ua EXCEPT !.kick = TRUE, !.faults = ua.faults + 1]
    <3>1. /\ ua.thread = "wait" /\ DOMAIN ub' = DOMAIN ub /\ ub'.state = ub.state
          /\ ub'.suspend = ub.suspend /\ ub'.done = ub.done /\ ub'.by = ub.by
          /\ DOMAIN ua' = DOMAIN ua /\ ua'.thread = ua.thread /\ ua'.task = ua.task
          /\ ua'.pm = ua.pm /\ ua'.kick = TRUE /\ ua'.send = ua.send /\ ua'.disc = ua.disc
          /\ ua'.odd = ua.odd
      BY <1>a, <2>1 DEF UbShape, UaShape
    <3>2. /\ free > 0 /\ ub'.free = free /\ ub'.air = air /\ ub'.bulk = bulk /\ ub'.txfree = txf
          /\ ub'.tx_urb_count = txc /\ ua'.lost = lost /\ ua'.pms = pms /\ ua'.cap = cap
          /\ ua'.faults = faults + 1 /\ ua'.sends = sends /\ Len(ub'.done) = nd /\ Len(ub'.by) = nb
      BY <1>a, <2>1 DEF UbShape, UaShape, nd, nb, free, air, bulk, txf, txc, lost, pms, cap, faults, sends
    <3>3. UbShape(ub)' /\ UbLists(ub)' /\ UaShape(ua)' BY <1>a, <3>1 DEF UbShape, UbLists, UaShape
    <3>4. UbCounts(ub)' /\ UaCounts(ua)' BY <1>b, <3>2 DEF UbCounts, UaCounts
    <3>5. UrbStart' /\ UrbEnd' BY <1>a, <1>d, <1>e, <1>f, <1>b, <3>1, <3>2 DEF UrbStart, UrbEnd
    <3>6. UrbSum'
      <4>1. ua'.thread = "wait" => ua.thread = "wait" BY <3>1
      <4> QED BY <1>b, <1>d, <3>2, <4>1 DEF UrbSum
    <3>7. UrbPm' /\ UrbBare' BY <1>a, <3>1 DEF UrbPm, UrbBare
    <3>8. UrbPms' /\ UrbTake' /\ UrbLost' /\ UrbCounted'
      BY <1>e, <1>g, <1>h, <1>i, <1>b, <3>1, <3>2 DEF UrbPms, UrbTake, UrbLost, UrbCounted
    <3>9. UrbRead' BY <1>a, <3>1 DEF UrbRead, Undisturbed, UrbPm
    <3>10. UrbArmed' BY <3>1 DEF UrbArmed
    <3> QED BY <3>3, <3>4, <3>5, <3>6, <3>7, <3>8, <3>9, <3>10 DEF UrbInv
  <2> QED BY <1>a, <1>5, <2>1 DEF usb_kick_rx, UbShape, UaShape
<1>6. CASE KickReads
  <2>1. CASE /\ ua.kick
            /\ ub.free = 0
            /\ ub' = ub
            /\ ua' = [ua EXCEPT !.odd = ua.odd \union {"torn"}, !.kick = FALSE]
    <3>1. /\ ua.kick /\ DOMAIN ub' = DOMAIN ub /\ ub'.state = ub.state /\ ub'.suspend = ub.suspend
          /\ ub'.done = ub.done /\ ub'.by = ub.by /\ DOMAIN ua' = DOMAIN ua
          /\ ua'.thread = ua.thread /\ ua'.task = ua.task /\ ua'.pm = ua.pm /\ ua'.kick = FALSE
          /\ ua'.send = ua.send /\ ua'.disc = ua.disc /\ ua'.odd = ua.odd \union {"torn"}
      BY <1>a, <2>1 DEF UbShape, UaShape
    <3>2. /\ free = 0 /\ ub'.free = free /\ ub'.air = air /\ ub'.bulk = bulk /\ ub'.txfree = txf
          /\ ub'.tx_urb_count = txc /\ ua'.lost = lost /\ ua'.pms = pms /\ ua'.cap = cap
          /\ ua'.faults = faults /\ ua'.sends = sends /\ Len(ub'.done) = nd /\ Len(ub'.by) = nb
      BY <1>a, <2>1 DEF UbShape, UaShape, nd, nb, free, air, bulk, txf, txc, lost, pms, cap, faults, sends
    <3>3. UbShape(ub)' /\ UbLists(ub)' /\ UaShape(ua)' BY <1>a, <3>1 DEF UbShape, UbLists, UaShape
    <3>4. UbCounts(ub)' /\ UaCounts(ua)' BY <1>b, <3>2 DEF UbCounts, UaCounts
    <3>5. UrbStart' /\ UrbEnd' BY <1>a, <1>d, <1>e, <1>f, <1>b, <3>1, <3>2 DEF UrbStart, UrbEnd
    <3>6. UrbSum'
      <4>1. ua'.thread = "wait" => ua.thread = "wait" BY <3>1
      <4> QED BY <1>b, <1>d, <3>2, <4>1 DEF UrbSum
    <3>7. UrbPm' /\ UrbBare' BY <1>a, <3>1 DEF UrbPm, UrbBare
    <3>8. UrbPms' /\ UrbTake' /\ UrbLost' /\ UrbCounted'
      BY <1>e, <1>g, <1>h, <1>i, <1>b, <3>1, <3>2 DEF UrbPms, UrbTake, UrbLost, UrbCounted
    <3>9. UrbRead' BY <1>a, <3>1 DEF UrbRead, Undisturbed, UrbPm
    <3>10. UrbArmed'
      <4> SUFFICES ASSUME Undisturbed', ua'.task = "idle" PROVE Coming' BY DEF UrbArmed
      <4>1. ub.state /\ ua.thread = "wait" /\ "refused" \notin ua.odd /\ "stopped" \notin ua.odd
        BY <3>1 DEF Undisturbed
      <4>2. ub.done = <<>> BY <1>a, <3>1, <4>1 DEF UrbRead, Undisturbed
      <4>3. free = 0 /\ nd = 0 /\ lost = 0 /\ free + air + nd + nb + lost = RxUrbs
        BY <1>b, <1>c, <1>d, <1>h, <3>2, <4>1, <4>2
      <4>4. air > 0 \/ nb > 0 BY <1>b, <4>3
      <4> QED BY <1>b, <1>c, <3>1, <3>2, <4>4 DEF Coming
    <3> QED BY <3>3, <3>4, <3>5, <3>6, <3>7, <3>8, <3>9, <3>10 DEF UrbInv
  <2>2. ASSUME NEW o, ua.kick,
              ub.free > 0,
              ub.suspend,
              o = ua.odd \/ o = ua.odd \union {"crossed"},
              ua.pm = "empty" => "crossed" \in o,
              ub' = [ub EXCEPT !.free = ub.free - 1, !.by = Append(ub.by, "ctx")],
              ua' = [ua EXCEPT !.odd = o, !.kick = FALSE]
       PROVE  UrbInv'
    <3>1. /\ ua.kick /\ ub.suspend /\ (o = ua.odd \/ o = ua.odd \union {"crossed"})
          /\ (ua.pm = "empty" => "crossed" \in o) /\ DOMAIN ub' = DOMAIN ub /\ ub'.state = ub.state
          /\ ub'.suspend = ub.suspend /\ ub'.done = ub.done /\ ub'.by = Append(ub.by, "ctx")
          /\ DOMAIN ua' = DOMAIN ua /\ ua'.thread = ua.thread /\ ua'.task = ua.task
          /\ ua'.pm = ua.pm /\ ua'.kick = FALSE /\ ua'.send = ua.send /\ ua'.disc = ua.disc
          /\ ua'.odd = o
      BY <1>a, <2>2 DEF UbShape, UaShape
    <3>2. /\ free > 0 /\ ub'.free = free - 1 /\ ub'.air = air /\ ub'.bulk = bulk
          /\ ub'.txfree = txf /\ ub'.tx_urb_count = txc /\ ua'.lost = lost /\ ua'.pms = pms
          /\ ua'.cap = cap /\ ua'.faults = faults /\ ua'.sends = sends /\ Len(ub'.done) = nd
      BY <1>a, <2>2 DEF UbShape, UaShape, nd, nb, free, air, bulk, txf, txc, lost, pms, cap, faults, sends
    <3>3. /\ ub'.by \in Seq({"ctx", "bare"}) /\ Len(ub'.by) = nb + 1 /\ ub'.by # <<>>
          /\ Without(ub.by, "bare") => Without(ub'.by, "bare")
      BY <1>a, <3>1, OneMore, SMTT(30) DEF UbLists, nb
    <3>4. UbShape(ub)' /\ UbLists(ub)' /\ UaShape(ua)'
      BY <1>a, <3>1, <3>3 DEF UbShape, UbLists, UaShape
    <3>5. UbCounts(ub)' /\ UaCounts(ua)' BY <1>b, <3>2, <3>3 DEF UbCounts, UaCounts
    <3>6. UrbStart' /\ UrbEnd' BY <1>a, <1>d, <1>e, <1>f, <1>b, <3>1, <3>2, <3>3 DEF UrbStart, UrbEnd
    <3>7. UrbSum'
      <4>1. ua'.thread = "wait" => ua.thread = "wait" BY <3>1
      <4>2. Len(ub'.by) = nb + 1 BY <3>3
      <4> QED BY <1>b, <1>d, <3>2, <4>1, <4>2 DEF UrbSum
    <3>8. UrbPm' /\ UrbBare' BY <1>a, <3>1, <3>3 DEF UrbPm, UrbBare
    <3>9. UrbPms' /\ UrbTake' /\ UrbLost' /\ UrbCounted'
      BY <1>e, <1>g, <1>h, <1>i, <1>b, <3>1, <3>2, <3>3 DEF UrbPms, UrbTake, UrbLost, UrbCounted
    <3>10. UrbRead' BY <1>a, <3>1, <3>3 DEF UrbRead, Undisturbed, UrbPm
    <3>11. UrbArmed'
      <4>1. Coming' BY <1>b, <3>1, <3>2, <3>3 DEF Coming
      <4> QED BY <4>1 DEF UrbArmed
    <3> QED BY <3>4, <3>5, <3>6, <3>7, <3>8, <3>9, <3>10, <3>11 DEF UrbInv
  <2>3. CASE /\ ua.kick
            /\ ub.free > 0
            /\ ~ub.suspend
            /\ ub' = [ub EXCEPT !.free = ub.free - 1, !.air = ub.air + 1, !.bulk = ub.bulk + 1]
            /\ ua' = [ua EXCEPT !.kick = FALSE]
    <3>1. /\ ua.kick /\ ~ub.suspend /\ DOMAIN ub' = DOMAIN ub /\ ub'.state = ub.state
          /\ ub'.suspend = ub.suspend /\ ub'.done = ub.done /\ ub'.by = ub.by
          /\ DOMAIN ua' = DOMAIN ua /\ ua'.thread = ua.thread /\ ua'.task = ua.task
          /\ ua'.pm = ua.pm /\ ua'.kick = FALSE /\ ua'.send = ua.send /\ ua'.disc = ua.disc
          /\ ua'.odd = ua.odd
      BY <1>a, <2>3 DEF UbShape, UaShape
    <3>2. /\ free > 0 /\ ub'.free = free - 1 /\ ub'.air = air + 1 /\ ub'.bulk = bulk + 1
          /\ ub'.txfree = txf /\ ub'.tx_urb_count = txc /\ ua'.lost = lost /\ ua'.pms = pms
          /\ ua'.cap = cap /\ ua'.faults = faults /\ ua'.sends = sends /\ Len(ub'.done) = nd
          /\ Len(ub'.by) = nb
      BY <1>a, <2>3 DEF UbShape, UaShape, nd, nb, free, air, bulk, txf, txc, lost, pms, cap, faults, sends
    <3>3. UbShape(ub)' /\ UbLists(ub)' /\ UaShape(ua)' BY <1>a, <3>1 DEF UbShape, UbLists, UaShape
    <3>4. UbCounts(ub)' /\ UaCounts(ua)' BY <1>b, <3>2 DEF UbCounts, UaCounts
    <3>5. UrbStart' /\ UrbEnd' BY <1>a, <1>d, <1>e, <1>f, <1>b, <3>1, <3>2 DEF UrbStart, UrbEnd
    <3>6. UrbSum'
      <4>1. ua'.thread = "wait" => ua.thread = "wait" BY <3>1
      <4> QED BY <1>b, <1>d, <3>2, <4>1 DEF UrbSum
    <3>7. UrbPm' /\ UrbBare' BY <1>a, <3>1 DEF UrbPm, UrbBare
    <3>8. UrbPms' /\ UrbTake' /\ UrbLost' /\ UrbCounted'
      BY <1>e, <1>g, <1>h, <1>i, <1>b, <3>1, <3>2 DEF UrbPms, UrbTake, UrbLost, UrbCounted
    <3>9. UrbRead' BY <1>a, <3>1 DEF UrbRead, Undisturbed, UrbPm
    <3>10. UrbArmed'
      <4>1. Coming' BY <1>b, <3>1, <3>2 DEF Coming
      <4> QED BY <4>1 DEF UrbArmed
    <3> QED BY <3>3, <3>4, <3>5, <3>6, <3>7, <3>8, <3>9, <3>10 DEF UrbInv
  <2>4. CASE /\ ua.kick
            /\ ub.free > 0
            /\ ~ub.suspend
            /\ ub' = [ub EXCEPT !.free = ub.free - 1, !.by = Append(ub.by, "bare")]
            /\ ua' = [ua EXCEPT !.faults = ua.faults + 1, !.odd = ua.odd \union {"refused"}, !.kick = FALSE]
    <3>1. /\ ua.kick /\ ~ub.suspend /\ DOMAIN ub' = DOMAIN ub /\ ub'.state = ub.state
          /\ ub'.suspend = ub.suspend /\ ub'.done = ub.done /\ ub'.by = Append(ub.by, "bare")
          /\ DOMAIN ua' = DOMAIN ua /\ ua'.thread = ua.thread /\ ua'.task = ua.task
          /\ ua'.pm = ua.pm /\ ua'.kick = FALSE /\ ua'.send = ua.send /\ ua'.disc = ua.disc
          /\ ua'.odd = ua.odd \union {"refused"}
      BY <1>a, <2>4 DEF UbShape, UaShape
    <3>2. /\ free > 0 /\ ub'.free = free - 1 /\ ub'.air = air /\ ub'.bulk = bulk
          /\ ub'.txfree = txf /\ ub'.tx_urb_count = txc /\ ua'.lost = lost /\ ua'.pms = pms
          /\ ua'.cap = cap /\ ua'.faults = faults + 1 /\ ua'.sends = sends /\ Len(ub'.done) = nd
      BY <1>a, <2>4 DEF UbShape, UaShape, nd, nb, free, air, bulk, txf, txc, lost, pms, cap, faults, sends
    <3>3. /\ ub'.by \in Seq({"ctx", "bare"}) /\ Len(ub'.by) = nb + 1 /\ ub'.by # <<>>
      BY <1>a, <3>1, OneMore, SMTT(30) DEF UbLists, nb
    <3>4. UbShape(ub)' /\ UbLists(ub)' /\ UaShape(ua)'
      BY <1>a, <3>1, <3>3 DEF UbShape, UbLists, UaShape
    <3>5. UbCounts(ub)' /\ UaCounts(ua)' BY <1>b, <3>2, <3>3 DEF UbCounts, UaCounts
    <3>6. UrbStart' /\ UrbEnd' BY <1>a, <1>d, <1>e, <1>f, <1>b, <3>1, <3>2, <3>3 DEF UrbStart, UrbEnd
    <3>7. UrbSum'
      <4>1. ua'.thread = "wait" => ua.thread = "wait" BY <3>1
      <4>2. Len(ub'.by) = nb + 1 BY <3>3
      <4> QED BY <1>b, <1>d, <3>2, <4>1, <4>2 DEF UrbSum
    <3>8. UrbPm' /\ UrbBare' BY <1>a, <3>1, <3>3 DEF UrbPm, UrbBare
    <3>9. UrbPms' /\ UrbTake' /\ UrbLost' /\ UrbCounted'
      BY <1>e, <1>g, <1>h, <1>i, <1>b, <3>1, <3>2, <3>3 DEF UrbPms, UrbTake, UrbLost, UrbCounted
    <3>10. UrbRead' BY <1>a, <3>1, <3>3 DEF UrbRead, Undisturbed, UrbPm
    <3>11. UrbArmed' BY <1>a, <3>1 DEF UrbArmed, UrbRead, UrbStart, UrbEnd, Undisturbed
    <3> QED BY <3>4, <3>5, <3>6, <3>7, <3>8, <3>9, <3>10, <3>11 DEF UrbInv
  <2> QED
    <3>1. PICK ok \in BOOLEAN : bulkin_read_async([ua EXCEPT !.kick = FALSE], ok)
      BY <1>6 DEF KickReads
    <3> DEFINE a == [ua EXCEPT !.kick = FALSE]
    <3>2. a.odd = ua.odd /\ a.faults = ua.faults /\ ua.kick BY <1>a, <1>6 DEF UaShape, KickReads
    <3>3. CASE ub.free = 0 BY <2>1, <3>1, <3>2, <3>3 DEF bulkin_read_async
    <3>4. CASE ub.free > 0 /\ ub.suspend
      <4>1. ub' = [ub EXCEPT !.free = ub.free - 1, !.by = Append(ub.by, "ctx")]
        BY <3>1, <3>4 DEF bulkin_read_async
      <4>2. ua' = [a EXCEPT !.odd = IF ua.pm = "empty" THEN ua.odd \union {"crossed"} ELSE ua.odd]
        BY <3>1, <3>2, <3>4 DEF bulkin_read_async
      <4> QED BY <2>2, <3>2, <3>4, <4>1, <4>2
    <3>5. CASE ub.free > 0 /\ ~ub.suspend /\ ok BY <2>3, <3>1, <3>2, <3>5 DEF bulkin_read_async
    <3>6. CASE ub.free > 0 /\ ~ub.suspend /\ ~ok
      <4>1. ub' = [ub EXCEPT !.free = ub.free - 1, !.by = Append(ub.by, "bare")]
        BY <3>1, <3>6 DEF bulkin_read_async
      <4>2. ua' = [a EXCEPT !.faults = ua.faults + 1, !.odd = ua.odd \union {"refused"}]
        BY <3>1, <3>2, <3>6 DEF bulkin_read_async, Note
      <4> QED BY <2>4, <3>2, <3>6, <4>1, <4>2
    <3> QED BY <1>a, <3>3, <3>4, <3>5, <3>6 DEF UbCounts
<1>7. CASE wifi_send_cmd_async
  <2>1. CASE /\ ub.txfree = 0
            /\ ua.thread = "wait"
            /\ ub' = ub
            /\ ua' = [ua EXCEPT !.send = "wait", !.sends = ua.sends + 1]
    <3>1. /\ ua.thread = "wait" /\ DOMAIN ub' = DOMAIN ub /\ ub'.state = ub.state
          /\ ub'.suspend = ub.suspend /\ ub'.done = ub.done /\ ub'.by = ub.by
          /\ DOMAIN ua' = DOMAIN ua /\ ua'.thread = ua.thread /\ ua'.task = ua.task
          /\ ua'.pm = ua.pm /\ ua'.kick = ua.kick /\ ua'.send = "wait" /\ ua'.disc = ua.disc
          /\ ua'.odd = ua.odd
      BY <1>a, <2>1 DEF UbShape, UaShape
    <3>2. /\ txf = 0 /\ ub'.free = free /\ ub'.air = air /\ ub'.bulk = bulk /\ ub'.txfree = txf
          /\ ub'.tx_urb_count = txc /\ ua'.lost = lost /\ ua'.pms = pms /\ ua'.cap = cap
          /\ ua'.faults = faults /\ ua'.sends = sends + 1 /\ Len(ub'.done) = nd /\ Len(ub'.by) = nb
      BY <1>a, <2>1 DEF UbShape, UaShape, nd, nb, free, air, bulk, txf, txc, lost, pms, cap, faults, sends
    <3>3. UbShape(ub)' /\ UbLists(ub)' /\ UaShape(ua)' BY <1>a, <3>1 DEF UbShape, UbLists, UaShape
    <3>4. UbCounts(ub)' /\ UaCounts(ua)' BY <1>b, <3>2 DEF UbCounts, UaCounts
    <3>5. UrbStart' /\ UrbEnd' BY <1>a, <1>d, <1>e, <1>f, <1>b, <3>1, <3>2 DEF UrbStart, UrbEnd
    <3>6. UrbSum'
      <4>1. ua'.thread = "wait" => ua.thread = "wait" BY <3>1
      <4> QED BY <1>b, <1>d, <3>2, <4>1 DEF UrbSum
    <3>7. UrbPm' /\ UrbBare' BY <1>a, <3>1 DEF UrbPm, UrbBare
    <3>8. UrbPms' /\ UrbTake' /\ UrbLost' /\ UrbCounted'
      BY <1>e, <1>g, <1>h, <1>i, <1>b, <3>1, <3>2 DEF UrbPms, UrbTake, UrbLost, UrbCounted
    <3>9. UrbRead' BY <1>a, <3>1 DEF UrbRead, Undisturbed, UrbPm
    <3>10. UrbArmed'
      <4>1. Coming => Coming'
        <5>1. ub'.air = ub.air /\ ub'.by = ub.by BY <1>a, <2>1 DEF UbShape
        <5> QED BY <5>1 DEF Coming
      <4> QED BY <1>a, <3>1, <4>1 DEF UrbArmed, Undisturbed
    <3> QED BY <3>3, <3>4, <3>5, <3>6, <3>7, <3>8, <3>9, <3>10 DEF UrbInv
  <2>2. CASE /\ ub.txfree # 0
            /\ ua.thread = "wait"
            /\ ub' = ub
            /\ ua' = [ua EXCEPT !.send = "take", !.sends = ua.sends + 1]
    <3>1. /\ ua.thread = "wait" /\ DOMAIN ub' = DOMAIN ub /\ ub'.state = ub.state
          /\ ub'.suspend = ub.suspend /\ ub'.done = ub.done /\ ub'.by = ub.by
          /\ DOMAIN ua' = DOMAIN ua /\ ua'.thread = ua.thread /\ ua'.task = ua.task
          /\ ua'.pm = ua.pm /\ ua'.kick = ua.kick /\ ua'.send = "take" /\ ua'.disc = ua.disc
          /\ ua'.odd = ua.odd
      BY <1>a, <2>2 DEF UbShape, UaShape
    <3>2. /\ txf # 0 /\ ub'.free = free /\ ub'.air = air /\ ub'.bulk = bulk /\ ub'.txfree = txf
          /\ ub'.tx_urb_count = txc /\ ua'.lost = lost /\ ua'.pms = pms /\ ua'.cap = cap
          /\ ua'.faults = faults /\ ua'.sends = sends + 1 /\ Len(ub'.done) = nd /\ Len(ub'.by) = nb
      BY <1>a, <2>2 DEF UbShape, UaShape, nd, nb, free, air, bulk, txf, txc, lost, pms, cap, faults, sends
    <3>3. UbShape(ub)' /\ UbLists(ub)' /\ UaShape(ua)' BY <1>a, <3>1 DEF UbShape, UbLists, UaShape
    <3>4. UbCounts(ub)' /\ UaCounts(ua)' BY <1>b, <3>2 DEF UbCounts, UaCounts
    <3>5. UrbStart' /\ UrbEnd' BY <1>a, <1>d, <1>e, <1>f, <1>b, <3>1, <3>2 DEF UrbStart, UrbEnd
    <3>6. UrbSum'
      <4>1. ua'.thread = "wait" => ua.thread = "wait" BY <3>1
      <4> QED BY <1>b, <1>d, <3>2, <4>1 DEF UrbSum
    <3>7. UrbPm' /\ UrbBare' BY <1>a, <3>1 DEF UrbPm, UrbBare
    <3>8. UrbPms' /\ UrbTake' /\ UrbLost' /\ UrbCounted'
      BY <1>e, <1>g, <1>h, <1>i, <1>b, <3>1, <3>2 DEF UrbPms, UrbTake, UrbLost, UrbCounted
    <3>9. UrbRead' BY <1>a, <3>1 DEF UrbRead, Undisturbed, UrbPm
    <3>10. UrbArmed'
      <4>1. Coming => Coming'
        <5>1. ub'.air = ub.air /\ ub'.by = ub.by BY <1>a, <2>2 DEF UbShape
        <5> QED BY <5>1 DEF Coming
      <4> QED BY <1>a, <3>1, <4>1 DEF UrbArmed, Undisturbed
    <3> QED BY <3>3, <3>4, <3>5, <3>6, <3>7, <3>8, <3>9, <3>10 DEF UrbInv
  <2> QED BY <1>a, <1>7, <2>1, <2>2 DEF wifi_send_cmd_async, UbShape, UaShape
<1>8. CASE SendWaited
  <2>1. CASE /\ ub.txfree > 0
            /\ ua.send = "wait"
            /\ ub' = ub
            /\ ua' = [ua EXCEPT !.send = "take"]
    <3>1. /\ ua.send = "wait" /\ DOMAIN ub' = DOMAIN ub /\ ub'.state = ub.state
          /\ ub'.suspend = ub.suspend /\ ub'.done = ub.done /\ ub'.by = ub.by
          /\ DOMAIN ua' = DOMAIN ua /\ ua'.thread = ua.thread /\ ua'.task = ua.task
          /\ ua'.pm = ua.pm /\ ua'.kick = ua.kick /\ ua'.send = "take" /\ ua'.disc = ua.disc
          /\ ua'.odd = ua.odd
      BY <1>a, <2>1 DEF UbShape, UaShape
    <3>2. /\ txf > 0 /\ ub'.free = free /\ ub'.air = air /\ ub'.bulk = bulk /\ ub'.txfree = txf
          /\ ub'.tx_urb_count = txc /\ ua'.lost = lost /\ ua'.pms = pms /\ ua'.cap = cap
          /\ ua'.faults = faults /\ ua'.sends = sends /\ Len(ub'.done) = nd /\ Len(ub'.by) = nb
      BY <1>a, <2>1 DEF UbShape, UaShape, nd, nb, free, air, bulk, txf, txc, lost, pms, cap, faults, sends
    <3>3. UbShape(ub)' /\ UbLists(ub)' /\ UaShape(ua)' BY <1>a, <3>1 DEF UbShape, UbLists, UaShape
    <3>4. UbCounts(ub)' /\ UaCounts(ua)' BY <1>b, <3>2 DEF UbCounts, UaCounts
    <3>5. UrbStart' /\ UrbEnd' BY <1>a, <1>d, <1>e, <1>f, <1>b, <3>1, <3>2 DEF UrbStart, UrbEnd
    <3>6. UrbSum'
      <4>1. ua'.thread = "wait" => ua.thread = "wait" BY <3>1
      <4> QED BY <1>b, <1>d, <3>2, <4>1 DEF UrbSum
    <3>7. UrbPm' /\ UrbBare' BY <1>a, <3>1 DEF UrbPm, UrbBare
    <3>8. UrbPms' /\ UrbTake' /\ UrbLost' /\ UrbCounted'
      BY <1>e, <1>g, <1>h, <1>i, <1>b, <3>1, <3>2 DEF UrbPms, UrbTake, UrbLost, UrbCounted
    <3>9. UrbRead' BY <1>a, <3>1 DEF UrbRead, Undisturbed, UrbPm
    <3>10. UrbArmed'
      <4>1. Coming => Coming'
        <5>1. ub'.air = ub.air /\ ub'.by = ub.by BY <1>a, <2>1 DEF UbShape
        <5> QED BY <5>1 DEF Coming
      <4> QED BY <1>a, <3>1, <4>1 DEF UrbArmed, Undisturbed
    <3> QED BY <3>3, <3>4, <3>5, <3>6, <3>7, <3>8, <3>9, <3>10 DEF UrbInv
  <2> QED BY <1>a, <1>8, <2>1 DEF SendWaited, UbShape, UaShape
<1>9. CASE bulkout_write_sg_async
  <2>1. CASE /\ ua.send = "take"
            /\ ub' = ub
            /\ ua' = [ua EXCEPT !.send = "idle"]
    <3>1. /\ ua.send = "take" /\ DOMAIN ub' = DOMAIN ub /\ ub'.state = ub.state
          /\ ub'.suspend = ub.suspend /\ ub'.done = ub.done /\ ub'.by = ub.by
          /\ DOMAIN ua' = DOMAIN ua /\ ua'.thread = ua.thread /\ ua'.task = ua.task
          /\ ua'.pm = ua.pm /\ ua'.kick = ua.kick /\ ua'.send = "idle" /\ ua'.disc = ua.disc
          /\ ua'.odd = ua.odd
      BY <1>a, <2>1 DEF UbShape, UaShape
    <3>2. /\ ub'.free = free /\ ub'.air = air /\ ub'.bulk = bulk /\ ub'.txfree = txf
          /\ ub'.tx_urb_count = txc /\ ua'.lost = lost /\ ua'.pms = pms /\ ua'.cap = cap
          /\ ua'.faults = faults /\ ua'.sends = sends /\ Len(ub'.done) = nd /\ Len(ub'.by) = nb
      BY <1>a, <2>1 DEF UbShape, UaShape, nd, nb, free, air, bulk, txf, txc, lost, pms, cap, faults, sends
    <3>3. UbShape(ub)' /\ UbLists(ub)' /\ UaShape(ua)' BY <1>a, <3>1 DEF UbShape, UbLists, UaShape
    <3>4. UbCounts(ub)' /\ UaCounts(ua)' BY <1>b, <3>2 DEF UbCounts, UaCounts
    <3>5. UrbStart' /\ UrbEnd' BY <1>a, <1>d, <1>e, <1>f, <1>b, <3>1, <3>2 DEF UrbStart, UrbEnd
    <3>6. UrbSum'
      <4>1. ua'.thread = "wait" => ua.thread = "wait" BY <3>1
      <4> QED BY <1>b, <1>d, <3>2, <4>1 DEF UrbSum
    <3>7. UrbPm' /\ UrbBare' BY <1>a, <3>1 DEF UrbPm, UrbBare
    <3>8. UrbPms' /\ UrbTake' /\ UrbLost' /\ UrbCounted'
      BY <1>e, <1>g, <1>h, <1>i, <1>b, <3>1, <3>2 DEF UrbPms, UrbTake, UrbLost, UrbCounted
    <3>9. UrbRead' BY <1>a, <3>1 DEF UrbRead, Undisturbed, UrbPm
    <3>10. UrbArmed'
      <4>1. Coming => Coming'
        <5>1. ub'.air = ub.air /\ ub'.by = ub.by BY <1>a, <2>1 DEF UbShape
        <5> QED BY <5>1 DEF Coming
      <4> QED BY <1>a, <3>1, <4>1 DEF UrbArmed, Undisturbed
    <3> QED BY <3>3, <3>4, <3>5, <3>6, <3>7, <3>8, <3>9, <3>10 DEF UrbInv
  <2>2. CASE /\ ua.send = "take"
            /\ ub.state
            /\ ub' = [ub EXCEPT !.txfree = ub.txfree - 1, !.tx_urb_count = ub.tx_urb_count + 1]
            /\ ua' = [ua EXCEPT !.send = "idle"]
    <3>1. /\ ua.send = "take" /\ ub.state /\ DOMAIN ub' = DOMAIN ub /\ ub'.state = ub.state
          /\ ub'.suspend = ub.suspend /\ ub'.done = ub.done /\ ub'.by = ub.by
          /\ DOMAIN ua' = DOMAIN ua /\ ua'.thread = ua.thread /\ ua'.task = ua.task
          /\ ua'.pm = ua.pm /\ ua'.kick = ua.kick /\ ua'.send = "idle" /\ ua'.disc = ua.disc
          /\ ua'.odd = ua.odd
      BY <1>a, <2>2 DEF UbShape, UaShape
    <3>2. /\ ub'.free = free /\ ub'.air = air /\ ub'.bulk = bulk /\ ub'.txfree = txf - 1
          /\ ub'.tx_urb_count = txc + 1 /\ ua'.lost = lost /\ ua'.pms = pms /\ ua'.cap = cap
          /\ ua'.faults = faults /\ ua'.sends = sends /\ Len(ub'.done) = nd /\ Len(ub'.by) = nb
      BY <1>a, <2>2 DEF UbShape, UaShape, nd, nb, free, air, bulk, txf, txc, lost, pms, cap, faults, sends
    <3>3. UbShape(ub)' /\ UbLists(ub)' /\ UaShape(ua)' BY <1>a, <3>1 DEF UbShape, UbLists, UaShape
    <3>4. UbCounts(ub)' /\ UaCounts(ua)' BY <1>b, <1>g, <3>1, <3>2 DEF UbCounts, UaCounts
    <3>5. UrbStart' /\ UrbEnd' BY <1>a, <1>d, <1>e, <1>f, <1>b, <3>1, <3>2 DEF UrbStart, UrbEnd
    <3>6. UrbSum'
      <4>1. ua'.thread = "wait" => ua.thread = "wait" BY <3>1
      <4> QED BY <1>b, <1>d, <3>2, <4>1 DEF UrbSum
    <3>7. UrbPm' /\ UrbBare' BY <1>a, <3>1 DEF UrbPm, UrbBare
    <3>8. UrbPms' /\ UrbTake' /\ UrbLost' /\ UrbCounted'
      BY <1>e, <1>g, <1>h, <1>i, <1>b, <3>1, <3>2 DEF UrbPms, UrbTake, UrbLost, UrbCounted
    <3>9. UrbRead' BY <1>a, <3>1 DEF UrbRead, Undisturbed, UrbPm
    <3>10. UrbArmed'
      <4>1. Coming => Coming'
        <5>1. ub'.air = ub.air /\ ub'.by = ub.by BY <1>a, <2>2 DEF UbShape
        <5> QED BY <5>1 DEF Coming
      <4> QED BY <1>a, <3>1, <4>1 DEF UrbArmed, Undisturbed
    <3> QED BY <3>3, <3>4, <3>5, <3>6, <3>7, <3>8, <3>9, <3>10 DEF UrbInv
  <2>3. CASE /\ ua.send = "take"
            /\ ub' = ub
            /\ ua' = [ua EXCEPT !.faults = ua.faults + 1, !.odd = ua.odd \union {"unsent"}, !.send = "idle"]
    <3>1. /\ ua.send = "take" /\ DOMAIN ub' = DOMAIN ub /\ ub'.state = ub.state
          /\ ub'.suspend = ub.suspend /\ ub'.done = ub.done /\ ub'.by = ub.by
          /\ DOMAIN ua' = DOMAIN ua /\ ua'.thread = ua.thread /\ ua'.task = ua.task
          /\ ua'.pm = ua.pm /\ ua'.kick = ua.kick /\ ua'.send = "idle" /\ ua'.disc = ua.disc
          /\ ua'.odd = ua.odd \union {"unsent"}
      BY <1>a, <2>3 DEF UbShape, UaShape
    <3>2. /\ ub'.free = free /\ ub'.air = air /\ ub'.bulk = bulk /\ ub'.txfree = txf
          /\ ub'.tx_urb_count = txc /\ ua'.lost = lost /\ ua'.pms = pms /\ ua'.cap = cap
          /\ ua'.faults = faults + 1 /\ ua'.sends = sends /\ Len(ub'.done) = nd /\ Len(ub'.by) = nb
      BY <1>a, <2>3 DEF UbShape, UaShape, nd, nb, free, air, bulk, txf, txc, lost, pms, cap, faults, sends
    <3>3. UbShape(ub)' /\ UbLists(ub)' /\ UaShape(ua)' BY <1>a, <3>1 DEF UbShape, UbLists, UaShape
    <3>4. UbCounts(ub)' /\ UaCounts(ua)' BY <1>b, <3>2 DEF UbCounts, UaCounts
    <3>5. UrbStart' /\ UrbEnd' BY <1>a, <1>d, <1>e, <1>f, <1>b, <3>1, <3>2 DEF UrbStart, UrbEnd
    <3>6. UrbSum'
      <4>1. ua'.thread = "wait" => ua.thread = "wait" BY <3>1
      <4> QED BY <1>b, <1>d, <3>2, <4>1 DEF UrbSum
    <3>7. UrbPm' /\ UrbBare' BY <1>a, <3>1 DEF UrbPm, UrbBare
    <3>8. UrbPms' /\ UrbTake' /\ UrbLost' /\ UrbCounted'
      BY <1>e, <1>g, <1>h, <1>i, <1>b, <3>1, <3>2 DEF UrbPms, UrbTake, UrbLost, UrbCounted
    <3>9. UrbRead' BY <1>a, <3>1 DEF UrbRead, Undisturbed, UrbPm
    <3>10. UrbArmed'
      <4>1. Coming => Coming'
        <5>1. ub'.air = ub.air /\ ub'.by = ub.by BY <1>a, <2>3 DEF UbShape
        <5> QED BY <5>1 DEF Coming
      <4> QED BY <1>a, <3>1, <4>1 DEF UrbArmed, Undisturbed
    <3> QED BY <3>3, <3>4, <3>5, <3>6, <3>7, <3>8, <3>9, <3>10 DEF UrbInv
  <2> QED BY <1>a, <1>9, <2>1, <2>2, <2>3 DEF bulkout_write_sg_async, Note, UbShape, UaShape
<1>10. CASE bulkout_async_complete
  <2>1. CASE /\ ub.tx_urb_count > 0
            /\ ua.thread = "wait"
            /\ ub' = [ub EXCEPT !.txfree = ub.txfree + 1, !.tx_urb_count = ub.tx_urb_count - 1]
            /\ ua' = ua
    <3>1. /\ ua.thread = "wait" /\ DOMAIN ub' = DOMAIN ub /\ ub'.state = ub.state
          /\ ub'.suspend = ub.suspend /\ ub'.done = ub.done /\ ub'.by = ub.by
          /\ DOMAIN ua' = DOMAIN ua /\ ua'.thread = ua.thread /\ ua'.task = ua.task
          /\ ua'.pm = ua.pm /\ ua'.kick = ua.kick /\ ua'.send = ua.send /\ ua'.disc = ua.disc
          /\ ua'.odd = ua.odd
      BY <1>a, <2>1 DEF UbShape, UaShape
    <3>2. /\ txc > 0 /\ ub'.free = free /\ ub'.air = air /\ ub'.bulk = bulk /\ ub'.txfree = txf + 1
          /\ ub'.tx_urb_count = txc - 1 /\ ua'.lost = lost /\ ua'.pms = pms /\ ua'.cap = cap
          /\ ua'.faults = faults /\ ua'.sends = sends /\ Len(ub'.done) = nd /\ Len(ub'.by) = nb
      BY <1>a, <2>1 DEF UbShape, UaShape, nd, nb, free, air, bulk, txf, txc, lost, pms, cap, faults, sends
    <3>3. UbShape(ub)' /\ UbLists(ub)' /\ UaShape(ua)' BY <1>a, <3>1 DEF UbShape, UbLists, UaShape
    <3>4. UbCounts(ub)' /\ UaCounts(ua)' BY <1>b, <3>2 DEF UbCounts, UaCounts
    <3>5. UrbStart' /\ UrbEnd' BY <1>a, <1>d, <1>e, <1>f, <1>b, <3>1, <3>2 DEF UrbStart, UrbEnd
    <3>6. UrbSum'
      <4>1. ua'.thread = "wait" => ua.thread = "wait" BY <3>1
      <4> QED BY <1>b, <1>d, <3>2, <4>1 DEF UrbSum
    <3>7. UrbPm' /\ UrbBare' BY <1>a, <3>1 DEF UrbPm, UrbBare
    <3>8. UrbPms' /\ UrbTake' /\ UrbLost' /\ UrbCounted'
      BY <1>e, <1>g, <1>h, <1>i, <1>b, <3>1, <3>2 DEF UrbPms, UrbTake, UrbLost, UrbCounted
    <3>9. UrbRead' BY <1>a, <3>1 DEF UrbRead, Undisturbed, UrbPm
    <3>10. UrbArmed'
      <4>1. Coming => Coming'
        <5>1. ub'.air = ub.air /\ ub'.by = ub.by BY <1>a, <2>1 DEF UbShape
        <5> QED BY <5>1 DEF Coming
      <4> QED BY <1>a, <3>1, <4>1 DEF UrbArmed, Undisturbed
    <3> QED BY <3>3, <3>4, <3>5, <3>6, <3>7, <3>8, <3>9, <3>10 DEF UrbInv
  <2> QED BY <1>a, <1>10, <2>1 DEF bulkout_async_complete, UbShape, UaShape
<1>11. CASE skw_usb_io_suspend
  <2>1. CASE /\ ub.state
            /\ ua.pm = "on"
            /\ ub' = [ub EXCEPT !.suspend = TRUE, !.txfree = ub.txfree + ub.tx_urb_count, !.tx_urb_count = 0]
            /\ ua' = [ua EXCEPT !.pm = "flag", !.pms = ua.pms + 1]
    <3>1. /\ ub.state /\ ua.pm = "on" /\ DOMAIN ub' = DOMAIN ub /\ ub'.state = ub.state
          /\ ub'.suspend = TRUE /\ ub'.done = ub.done /\ ub'.by = ub.by /\ DOMAIN ua' = DOMAIN ua
          /\ ua'.thread = ua.thread /\ ua'.task = ua.task /\ ua'.pm = "flag" /\ ua'.kick = ua.kick
          /\ ua'.send = ua.send /\ ua'.disc = ua.disc /\ ua'.odd = ua.odd
      BY <1>a, <2>1 DEF UbShape, UaShape
    <3>2. /\ ub'.free = free /\ ub'.air = air /\ ub'.bulk = bulk /\ ub'.txfree = txf + txc
          /\ ub'.tx_urb_count = 0 /\ ua'.lost = lost /\ ua'.pms = pms + 1 /\ ua'.cap = cap
          /\ ua'.faults = faults /\ ua'.sends = sends /\ Len(ub'.done) = nd /\ Len(ub'.by) = nb
      BY <1>a, <2>1 DEF UbShape, UaShape, nd, nb, free, air, bulk, txf, txc, lost, pms, cap, faults, sends
    <3>3. UbShape(ub)' /\ UbLists(ub)' /\ UaShape(ua)' BY <1>a, <3>1 DEF UbShape, UbLists, UaShape
    <3>4. UbCounts(ub)' /\ UaCounts(ua)' BY <1>b, <3>2 DEF UbCounts, UaCounts
    <3>5. UrbStart' /\ UrbEnd' BY <1>a, <1>d, <1>e, <1>f, <1>b, <3>1, <3>2 DEF UrbStart, UrbEnd
    <3>6. UrbSum'
      <4>1. ua'.thread = "wait" => ua.thread = "wait" BY <3>1
      <4> QED BY <1>b, <1>d, <3>2, <4>1 DEF UrbSum
    <3>7. UrbPm' /\ UrbBare' BY <1>a, <3>1 DEF UrbPm, UrbBare
    <3>8. UrbPms' /\ UrbTake' /\ UrbLost' /\ UrbCounted'
      BY <1>e, <1>g, <1>h, <1>i, <1>b, <3>1, <3>2 DEF UrbPms, UrbTake, UrbLost, UrbCounted
    <3>9. UrbRead' BY <1>a, <3>1 DEF UrbRead, Undisturbed, UrbPm
    <3>10. UrbArmed'
      <4>1. Coming => Coming'
        <5>1. ub'.air = ub.air /\ ub'.by = ub.by BY <1>a, <2>1 DEF UbShape
        <5> QED BY <5>1 DEF Coming
      <4> QED BY <1>a, <3>1, <4>1 DEF UrbArmed, Undisturbed
    <3> QED BY <3>3, <3>4, <3>5, <3>6, <3>7, <3>8, <3>9, <3>10 DEF UrbInv
  <2> QED BY <1>a, <1>11, <2>1 DEF skw_usb_io_suspend, UbShape, UaShape
<1>12. CASE SuspendKills
  <2>1. ASSUME NEW m, NEW y, m = Len(ub.by) + ub.air,
              ua.pm = "flag",
              ub.state,
              ub.suspend,
              y \in Seq({"ctx", "bare"}),
              Len(y) = m,
              (Without(ub.by, "bare") => Without(y, "bare")),
              ub' = [ub EXCEPT !.air = ub.air - ub.air, !.bulk = ub.bulk - ub.air, !.by = y],
              ua' = [ua EXCEPT !.pm = "off"]
       PROVE  UrbInv'
    <3>1. /\ ua.pm = "flag" /\ ub.state /\ ub.suspend /\ y \in Seq({"ctx", "bare"}) /\ Len(y) = m
          /\ (Without(ub.by, "bare") => Without(y, "bare")) /\ DOMAIN ub' = DOMAIN ub
          /\ ub'.state = ub.state /\ ub'.suspend = ub.suspend /\ ub'.done = ub.done /\ ub'.by = y
          /\ DOMAIN ua' = DOMAIN ua /\ ua'.thread = ua.thread /\ ua'.task = ua.task
          /\ ua'.pm = "off" /\ ua'.kick = ua.kick /\ ua'.send = ua.send /\ ua'.disc = ua.disc
          /\ ua'.odd = ua.odd
      BY <1>a, <2>1 DEF UbShape, UaShape
    <3>2. /\ m = nb + air /\ ub'.free = free /\ ub'.air = air - air /\ ub'.bulk = bulk - air
          /\ ub'.txfree = txf /\ ub'.tx_urb_count = txc /\ ua'.lost = lost /\ ua'.pms = pms
          /\ ua'.cap = cap /\ ua'.faults = faults /\ ua'.sends = sends /\ Len(ub'.done) = nd
      BY <1>a, <2>1 DEF UbShape, UaShape, nd, nb, free, air, bulk, txf, txc, lost, pms, cap, faults, sends
    <3>3. Len(ub'.by) = m /\ (m = 0 <=> ub'.by = <<>>) BY <3>1, EmptySeq
    <3>4. UbShape(ub)' /\ UbLists(ub)' /\ UaShape(ua)'
      BY <1>a, <3>1, <3>3 DEF UbShape, UbLists, UaShape
    <3>5. UbCounts(ub)' /\ UaCounts(ua)' BY SMTT(20), <1>b, <3>2, <3>3 DEF UbCounts, UaCounts
    <3>6. UrbStart' /\ UrbEnd' BY <1>a, <1>d, <1>e, <1>f, <1>b, <3>1, <3>2, <3>3 DEF UrbStart, UrbEnd
    <3>7. UrbSum'
      <4>1. ua'.thread = "wait" => ua.thread = "wait" BY <3>1
      <4>2. Len(ub'.by) = m BY <3>3
      <4> QED BY <1>b, <1>d, <3>2, <4>1, <4>2 DEF UrbSum
    <3>8. UrbPm' /\ UrbBare' BY <1>a, <3>1, <3>3 DEF UrbPm, UrbBare
    <3>9. UrbPms' /\ UrbTake' /\ UrbLost' /\ UrbCounted'
      BY <1>e, <1>g, <1>h, <1>i, <1>b, <3>1, <3>2, <3>3 DEF UrbPms, UrbTake, UrbLost, UrbCounted
    <3>10. UrbRead' BY <1>a, <3>1, <3>3 DEF UrbRead, Undisturbed, UrbPm
    <3>11. UrbArmed'
      <4>1. Coming => Coming'
        <5>1. air > 0 \/ nb > 0 => m > 0 BY <1>b, <3>2
        <5> QED BY <1>b, <1>c, <3>1, <3>3, <5>1 DEF Coming, air
      <4> QED BY <1>a, <3>1, <4>1 DEF UrbArmed, Undisturbed
    <3> QED BY <3>4, <3>5, <3>6, <3>7, <3>8, <3>9, <3>10, <3>11 DEF UrbInv
  <2> QED
    <3> DEFINE n == ub.air
               y == ub.by \o [i \in 1..n |-> "ctx"]
    <3>1. ub.suspend BY <1>a, <1>12 DEF SuspendKills, UrbPm
    <3>2. y \in Seq({"ctx", "bare"}) /\ Len(y) = Len(ub.by) + n /\ (Without(ub.by, "bare") => Without(y, "bare"))
      <4> DEFINE m == [i \in 1..n |-> "ctx"]
                 x == ub.by
                 T == {"ctx", "bare"}
      <4>1. n \in Nat /\ x \in Seq(T) BY <1>a DEF UbCounts, UbLists
      <4> HIDE DEF n
      <4>2. m \in Seq(T) /\ Len(m) = n /\ Without(m, "bare") BY <4>1 DEF Without
      <4> HIDE DEF m, x, T
      <4>3. x \o m \in Seq(T) /\ Len(x \o m) = Len(x) + Len(m) BY <4>1, <4>2, Joined
      <4>4. Without(x, "bare") => Without(x \o m, "bare") BY <4>1, <4>2, Joined
      <4> QED BY <4>2, <4>3, <4>4 DEF m, x, T
    <3>3. ub' = [ub EXCEPT !.air = ub.air - n, !.bulk = ub.bulk - n, !.by = y]
      BY <1>a, <1>12, <3>1 DEF SuspendKills, KillReads, bulkin_async_complete, UbShape
    <3> HIDE DEF y
    <3> QED BY <1>12, <2>1, <3>1, <3>2, <3>3 DEF SuspendKills
<1>13. CASE skw_usb_io_resume
  <2>1. CASE /\ ua.pm \in {"off", "resume"}
            /\ ub.state
            /\ ub.by = <<>>
            /\ ub' = ub
            /\ ua' = [ua EXCEPT !.pm = "empty"]
    <3>1. /\ ua.pm \in {"off", "resume"} /\ ub.state /\ ub.by = <<>> /\ DOMAIN ub' = DOMAIN ub
          /\ ub'.state = ub.state /\ ub'.suspend = ub.suspend /\ ub'.done = ub.done
          /\ ub'.by = ub.by /\ DOMAIN ua' = DOMAIN ua /\ ua'.thread = ua.thread
          /\ ua'.task = ua.task /\ ua'.pm = "empty" /\ ua'.kick = ua.kick /\ ua'.send = ua.send
          /\ ua'.disc = ua.disc /\ ua'.odd = ua.odd
      BY <1>a, <2>1 DEF UbShape, UaShape
    <3>2. /\ ub'.free = free /\ ub'.air = air /\ ub'.bulk = bulk /\ ub'.txfree = txf
          /\ ub'.tx_urb_count = txc /\ ua'.lost = lost /\ ua'.pms = pms /\ ua'.cap = cap
          /\ ua'.faults = faults /\ ua'.sends = sends /\ Len(ub'.done) = nd /\ Len(ub'.by) = nb
      BY <1>a, <2>1 DEF UbShape, UaShape, nd, nb, free, air, bulk, txf, txc, lost, pms, cap, faults, sends
    <3>3. UbShape(ub)' /\ UbLists(ub)' /\ UaShape(ua)' BY <1>a, <3>1 DEF UbShape, UbLists, UaShape
    <3>4. UbCounts(ub)' /\ UaCounts(ua)' BY <1>b, <3>2 DEF UbCounts, UaCounts
    <3>5. UrbStart' /\ UrbEnd' BY <1>a, <1>d, <1>e, <1>f, <1>b, <3>1, <3>2 DEF UrbStart, UrbEnd
    <3>6. UrbSum'
      <4>1. ua'.thread = "wait" => ua.thread = "wait" BY <3>1
      <4> QED BY <1>b, <1>d, <3>2, <4>1 DEF UrbSum
    <3>7. UrbPm' /\ UrbBare' BY <1>a, <3>1 DEF UrbPm, UrbBare
    <3>8. UrbPms' /\ UrbTake' /\ UrbLost' /\ UrbCounted'
      BY <1>e, <1>g, <1>h, <1>i, <1>b, <3>1, <3>2 DEF UrbPms, UrbTake, UrbLost, UrbCounted
    <3>9. UrbRead' BY <1>a, <3>1 DEF UrbRead, Undisturbed, UrbPm
    <3>10. UrbArmed'
      <4>1. Coming => Coming'
        <5>1. ub'.air = ub.air /\ ub'.by = ub.by BY <1>a, <2>1 DEF UbShape
        <5> QED BY <5>1 DEF Coming
      <4> QED BY <1>a, <3>1, <4>1 DEF UrbArmed, Undisturbed
    <3> QED BY <3>3, <3>4, <3>5, <3>6, <3>7, <3>8, <3>9, <3>10 DEF UrbInv
  <2>2. CASE /\ ua.pm \in {"off", "resume"}
            /\ ub.state
            /\ ub.by # <<>>
            /\ ub' = [ub EXCEPT !.by = Tail(ub.by), !.air = ub.air + 1]
            /\ ua' = [ua EXCEPT !.pm = "resume"]
    <3>1. /\ ua.pm \in {"off", "resume"} /\ ub.state /\ ub.by # <<>> /\ DOMAIN ub' = DOMAIN ub
          /\ ub'.state = ub.state /\ ub'.suspend = ub.suspend /\ ub'.done = ub.done
          /\ ub'.by = Tail(ub.by) /\ DOMAIN ua' = DOMAIN ua /\ ua'.thread = ua.thread
          /\ ua'.task = ua.task /\ ua'.pm = "resume" /\ ua'.kick = ua.kick /\ ua'.send = ua.send
          /\ ua'.disc = ua.disc /\ ua'.odd = ua.odd
      BY <1>a, <2>2 DEF UbShape, UaShape
    <3>2. /\ ub'.free = free /\ ub'.air = air + 1 /\ ub'.bulk = bulk /\ ub'.txfree = txf
          /\ ub'.tx_urb_count = txc /\ ua'.lost = lost /\ ua'.pms = pms /\ ua'.cap = cap
          /\ ua'.faults = faults /\ ua'.sends = sends /\ Len(ub'.done) = nd
      BY <1>a, <2>2 DEF UbShape, UaShape, nd, nb, free, air, bulk, txf, txc, lost, pms, cap, faults, sends
    <3>3. /\ ub'.by \in Seq({"ctx", "bare"}) /\ Len(ub'.by) = nb - 1 /\ nb > 0
          /\ Without(ub.by, "bare") => Without(ub'.by, "bare")
      BY <1>a, <3>1, TailOf DEF UbLists, nb
    <3>4. UbShape(ub)' /\ UbLists(ub)' /\ UaShape(ua)'
      BY <1>a, <3>1, <3>3 DEF UbShape, UbLists, UaShape
    <3>5. UbCounts(ub)' /\ UaCounts(ua)' BY SMTT(20), <1>b, <3>2, <3>3 DEF UbCounts, UaCounts
    <3>6. UrbStart' /\ UrbEnd' BY <1>a, <1>d, <1>e, <1>f, <1>b, <3>1, <3>2, <3>3 DEF UrbStart, UrbEnd
    <3>7. UrbSum'
      <4>1. ua'.thread = "wait" => ua.thread = "wait" BY <3>1
      <4>2. Len(ub'.by) = nb - 1 /\ nb > 0 BY <3>3
      <4> QED BY <1>b, <1>d, <3>2, <4>1, <4>2 DEF UrbSum
    <3>8. UrbPm' /\ UrbBare' BY <1>a, <3>1, <3>3 DEF UrbPm, UrbBare
    <3>9. UrbPms' /\ UrbTake' /\ UrbLost' /\ UrbCounted'
      BY <1>e, <1>g, <1>h, <1>i, <1>b, <3>1, <3>2, <3>3 DEF UrbPms, UrbTake, UrbLost, UrbCounted
    <3>10. UrbRead' BY <1>a, <3>1, <3>3 DEF UrbRead, Undisturbed, UrbPm
    <3>11. UrbArmed'
      <4>1. Coming' BY SMTT(20), <1>b, <3>1, <3>2, <3>3 DEF Coming
      <4> QED BY <4>1 DEF UrbArmed
    <3> QED BY <3>4, <3>5, <3>6, <3>7, <3>8, <3>9, <3>10, <3>11 DEF UrbInv
  <2>3. CASE /\ ua.pm \in {"off", "resume"}
            /\ ub.state
            /\ ub.by # <<>>
            /\ ub' = [ub EXCEPT !.by = Tail(ub.by)]
            /\ ua' = [ua EXCEPT !.faults = ua.faults + 1, !.odd = ua.odd \union {"stopped"}, !.pm = "on", !.lost = ua.lost + 1]
    <3>1. /\ ua.pm \in {"off", "resume"} /\ ub.state /\ ub.by # <<>> /\ DOMAIN ub' = DOMAIN ub
          /\ ub'.state = ub.state /\ ub'.suspend = ub.suspend /\ ub'.done = ub.done
          /\ ub'.by = Tail(ub.by) /\ DOMAIN ua' = DOMAIN ua /\ ua'.thread = ua.thread
          /\ ua'.task = ua.task /\ ua'.pm = "on" /\ ua'.kick = ua.kick /\ ua'.send = ua.send
          /\ ua'.disc = ua.disc /\ ua'.odd = ua.odd \union {"stopped"}
      BY <1>a, <2>3 DEF UbShape, UaShape
    <3>2. /\ ub'.free = free /\ ub'.air = air /\ ub'.bulk = bulk /\ ub'.txfree = txf
          /\ ub'.tx_urb_count = txc /\ ua'.lost = lost + 1 /\ ua'.pms = pms /\ ua'.cap = cap
          /\ ua'.faults = faults + 1 /\ ua'.sends = sends /\ Len(ub'.done) = nd
      BY <1>a, <2>3 DEF UbShape, UaShape, nd, nb, free, air, bulk, txf, txc, lost, pms, cap, faults, sends
    <3>3. /\ ub'.by \in Seq({"ctx", "bare"}) /\ Len(ub'.by) = nb - 1 /\ nb > 0
          /\ Without(ub.by, "bare") => Without(ub'.by, "bare")
      BY <1>a, <3>1, TailOf DEF UbLists, nb
    <3>4. UbShape(ub)' /\ UbLists(ub)' /\ UaShape(ua)'
      BY <1>a, <3>1, <3>3 DEF UbShape, UbLists, UaShape
    <3>5. UbCounts(ub)' /\ UaCounts(ua)' BY SMTT(20), <1>b, <3>2, <3>3 DEF UbCounts, UaCounts
    <3>6. UrbStart' /\ UrbEnd' BY <1>a, <1>d, <1>e, <1>f, <1>b, <3>1, <3>2, <3>3 DEF UrbStart, UrbEnd
    <3>7. UrbSum'
      <4>1. ua'.thread = "wait" => ua.thread = "wait" BY <3>1
      <4>2. Len(ub'.by) = nb - 1 /\ nb > 0 BY <3>3
      <4> QED BY <1>b, <1>d, <3>2, <4>1, <4>2 DEF UrbSum
    <3>8. UrbPm' /\ UrbBare' BY <1>a, <3>1, <3>3 DEF UrbPm, UrbBare
    <3>9. UrbPms' /\ UrbTake' /\ UrbLost' /\ UrbCounted'
      BY <1>e, <1>g, <1>h, <1>i, <1>b, <3>1, <3>2, <3>3 DEF UrbPms, UrbTake, UrbLost, UrbCounted
    <3>10. UrbRead' BY <1>a, <3>1, <3>3 DEF UrbRead, Undisturbed, UrbPm
    <3>11. UrbArmed' BY <1>a, <3>1 DEF UrbArmed, UrbRead, UrbStart, UrbEnd, Undisturbed
    <3> QED BY <3>4, <3>5, <3>6, <3>7, <3>8, <3>9, <3>10, <3>11 DEF UrbInv
  <2> QED BY <1>a, <1>13, <2>1, <2>2, <2>3 DEF skw_usb_io_resume, Note, UbShape, UaShape
<1>14. CASE ResumeEnds
  <2>1. CASE /\ ua.pm = "empty"
            /\ ub.state
            /\ ub' = [ub EXCEPT !.suspend = FALSE]
            /\ ua' = [ua EXCEPT !.pm = "on"]
    <3>1. /\ ua.pm = "empty" /\ ub.state /\ DOMAIN ub' = DOMAIN ub /\ ub'.state = ub.state
          /\ ub'.suspend = FALSE /\ ub'.done = ub.done /\ ub'.by = ub.by /\ DOMAIN ua' = DOMAIN ua
          /\ ua'.thread = ua.thread /\ ua'.task = ua.task /\ ua'.pm = "on" /\ ua'.kick = ua.kick
          /\ ua'.send = ua.send /\ ua'.disc = ua.disc /\ ua'.odd = ua.odd
      BY <1>a, <2>1 DEF UbShape, UaShape
    <3>2. /\ ub'.free = free /\ ub'.air = air /\ ub'.bulk = bulk /\ ub'.txfree = txf
          /\ ub'.tx_urb_count = txc /\ ua'.lost = lost /\ ua'.pms = pms /\ ua'.cap = cap
          /\ ua'.faults = faults /\ ua'.sends = sends /\ Len(ub'.done) = nd /\ Len(ub'.by) = nb
      BY <1>a, <2>1 DEF UbShape, UaShape, nd, nb, free, air, bulk, txf, txc, lost, pms, cap, faults, sends
    <3>3. UbShape(ub)' /\ UbLists(ub)' /\ UaShape(ua)' BY <1>a, <3>1 DEF UbShape, UbLists, UaShape
    <3>4. UbCounts(ub)' /\ UaCounts(ua)' BY <1>b, <3>2 DEF UbCounts, UaCounts
    <3>5. UrbStart' /\ UrbEnd' BY <1>a, <1>d, <1>e, <1>f, <1>b, <3>1, <3>2 DEF UrbStart, UrbEnd
    <3>6. UrbSum'
      <4>1. ua'.thread = "wait" => ua.thread = "wait" BY <3>1
      <4> QED BY <1>b, <1>d, <3>2, <4>1 DEF UrbSum
    <3>7. UrbPm' /\ UrbBare' BY <1>a, <3>1 DEF UrbPm, UrbBare
    <3>8. UrbPms' /\ UrbTake' /\ UrbLost' /\ UrbCounted'
      BY <1>e, <1>g, <1>h, <1>i, <1>b, <3>1, <3>2 DEF UrbPms, UrbTake, UrbLost, UrbCounted
    <3>9. UrbRead' BY <1>a, <3>1 DEF UrbRead, Undisturbed, UrbPm
    <3>10. UrbArmed'
      <4>1. Coming => Coming'
        <5>1. ub'.air = ub.air /\ ub'.by = ub.by BY <1>a, <2>1 DEF UbShape
        <5> QED BY <5>1 DEF Coming
      <4> QED BY <1>a, <3>1, <4>1 DEF UrbArmed, Undisturbed
    <3> QED BY <3>3, <3>4, <3>5, <3>6, <3>7, <3>8, <3>9, <3>10 DEF UrbInv
  <2> QED BY <1>a, <1>14, <2>1 DEF ResumeEnds, UbShape, UaShape
<1>15. CASE skw_usb_io_disconnect
  <2>1. CASE /\ ua.thread = "wait"
            /\ ub.state
            /\ ub' = [ub EXCEPT !.state = FALSE]
            /\ ua' = ua
    <3>1. /\ ua.thread = "wait" /\ ub.state /\ DOMAIN ub' = DOMAIN ub /\ ub'.state = FALSE
          /\ ub'.suspend = ub.suspend /\ ub'.done = ub.done /\ ub'.by = ub.by
          /\ DOMAIN ua' = DOMAIN ua /\ ua'.thread = ua.thread /\ ua'.task = ua.task
          /\ ua'.pm = ua.pm /\ ua'.kick = ua.kick /\ ua'.send = ua.send /\ ua'.disc = ua.disc
          /\ ua'.odd = ua.odd
      BY <1>a, <2>1 DEF UbShape, UaShape
    <3>2. /\ ub'.free = free /\ ub'.air = air /\ ub'.bulk = bulk /\ ub'.txfree = txf
          /\ ub'.tx_urb_count = txc /\ ua'.lost = lost /\ ua'.pms = pms /\ ua'.cap = cap
          /\ ua'.faults = faults /\ ua'.sends = sends /\ Len(ub'.done) = nd /\ Len(ub'.by) = nb
      BY <1>a, <2>1 DEF UbShape, UaShape, nd, nb, free, air, bulk, txf, txc, lost, pms, cap, faults, sends
    <3>3. UbShape(ub)' /\ UbLists(ub)' /\ UaShape(ua)' BY <1>a, <3>1 DEF UbShape, UbLists, UaShape
    <3>4. UbCounts(ub)' /\ UaCounts(ua)' BY <1>b, <3>2 DEF UbCounts, UaCounts
    <3>5. UrbStart' /\ UrbEnd' BY <1>a, <1>d, <1>e, <1>f, <1>b, <3>1, <3>2 DEF UrbStart, UrbEnd
    <3>6. UrbSum'
      <4>1. ua'.thread = "wait" => ua.thread = "wait" BY <3>1
      <4> QED BY <1>b, <1>d, <3>2, <4>1 DEF UrbSum
    <3>7. UrbPm' /\ UrbBare' BY <1>a, <3>1 DEF UrbPm, UrbBare
    <3>8. UrbPms' /\ UrbTake' /\ UrbLost' /\ UrbCounted'
      BY <1>e, <1>g, <1>h, <1>i, <1>b, <3>1, <3>2 DEF UrbPms, UrbTake, UrbLost, UrbCounted
    <3>9. UrbRead' BY <1>a, <3>1 DEF UrbRead, Undisturbed, UrbPm
    <3>10. UrbArmed' BY <1>a, <3>1 DEF UrbArmed, UrbRead, UrbStart, UrbEnd, Undisturbed
    <3> QED BY <3>3, <3>4, <3>5, <3>6, <3>7, <3>8, <3>9, <3>10 DEF UrbInv
  <2> QED BY <1>a, <1>15, <2>1 DEF skw_usb_io_disconnect, UbShape, UaShape
<1>16. CASE skw_usb_io_free_suspend_urbs
  <2>1. CASE /\ ~ub.state
            /\ ~ua.disc
            /\ Len(ub.by) > 0
            /\ ~Without(ub.by, "bare")
            /\ ub' = [ub EXCEPT !.suspend = FALSE, !.by = <<>>, !.free = ub.free + Len(ub.by) - 1, !.bulk = ub.bulk]
            /\ ua' = [ua EXCEPT !.disc = TRUE, !.lost = ua.lost + 1]
    <3>1. /\ ~ub.state /\ ~ua.disc /\ ~Without(ub.by, "bare") /\ DOMAIN ub' = DOMAIN ub
          /\ ub'.state = ub.state /\ ub'.suspend = FALSE /\ ub'.done = ub.done /\ ub'.by = <<>>
          /\ DOMAIN ua' = DOMAIN ua /\ ua'.thread = ua.thread /\ ua'.task = ua.task
          /\ ua'.pm = ua.pm /\ ua'.kick = ua.kick /\ ua'.send = ua.send /\ ua'.disc = TRUE
          /\ ua'.odd = ua.odd
      BY <1>a, <2>1 DEF UbShape, UaShape
    <3>2. /\ nb > 0 /\ ub'.free = free + nb - 1 /\ ub'.air = air /\ ub'.bulk = bulk
          /\ ub'.txfree = txf /\ ub'.tx_urb_count = txc /\ ua'.lost = lost + 1 /\ ua'.pms = pms
          /\ ua'.cap = cap /\ ua'.faults = faults /\ ua'.sends = sends /\ Len(ub'.done) = nd
          /\ Len(ub'.by) = 0
      BY <1>a, <2>1 DEF UbShape, UaShape, nd, nb, free, air, bulk, txf, txc, lost, pms, cap, faults, sends
    <3>3. UbShape(ub)' /\ UbLists(ub)' /\ UaShape(ua)'
      <4>1. UbShape(ub)' /\ UaShape(ua)' BY <1>a, <3>1 DEF UbShape, UaShape
      <4>2. UbLists(ub)' BY <1>a, <3>1 DEF UbLists
      <4> QED BY <4>1, <4>2
    <3>4. UbCounts(ub)' /\ UaCounts(ua)' BY <1>b, <3>2 DEF UbCounts, UaCounts
    <3>5. UrbStart' /\ UrbEnd' BY <1>a, <1>d, <1>e, <1>f, <1>b, <3>1, <3>2 DEF UrbStart, UrbEnd
    <3>6. UrbSum'
      <4>1. ua'.thread = "wait" => ua.thread = "wait" BY <3>1
      <4> QED BY <1>b, <1>d, <3>2, <4>1 DEF UrbSum
    <3>7. UrbPm' /\ UrbBare' BY <1>a, <3>1 DEF UrbPm, UrbBare, Without
    <3>8. UrbPms' /\ UrbTake' /\ UrbLost' /\ UrbCounted'
      BY <1>a, <1>g, <1>i, <1>b, <3>1, <3>2 DEF UrbPms, UrbTake, UrbLost, UrbCounted, UrbBare
    <3>9. UrbRead' BY <1>a, <3>1 DEF UrbRead, Undisturbed, UrbPm
    <3>10. UrbArmed' BY <1>a, <3>1 DEF UrbArmed, UrbRead, UrbStart, UrbEnd, Undisturbed
    <3> QED BY <3>3, <3>4, <3>5, <3>6, <3>7, <3>8, <3>9, <3>10 DEF UrbInv
  <2>2. ASSUME NEW g \in Int, ~ub.state,
              ~ua.disc,
              ub' = [ub EXCEPT !.suspend = FALSE, !.by = <<>>, !.free = ub.free + Len(ub.by) - 0, !.bulk = g],
              ua' = [ua EXCEPT !.disc = TRUE, !.lost = ua.lost]
       PROVE  UrbInv'
    <3>1. /\ ~ub.state /\ ~ua.disc /\ DOMAIN ub' = DOMAIN ub /\ ub'.state = ub.state
          /\ ub'.suspend = FALSE /\ ub'.done = ub.done /\ ub'.by = <<>> /\ DOMAIN ua' = DOMAIN ua
          /\ ua'.thread = ua.thread /\ ua'.task = ua.task /\ ua'.pm = ua.pm /\ ua'.kick = ua.kick
          /\ ua'.send = ua.send /\ ua'.disc = TRUE /\ ua'.odd = ua.odd
      BY <1>a, <2>2 DEF UbShape, UaShape
    <3>2. /\ ub'.free = free + nb - 0 /\ ub'.air = air /\ ub'.bulk = g /\ ub'.txfree = txf
          /\ ub'.tx_urb_count = txc /\ ua'.lost = lost /\ ua'.pms = pms /\ ua'.cap = cap
          /\ ua'.faults = faults /\ ua'.sends = sends /\ Len(ub'.done) = nd /\ Len(ub'.by) = 0
      BY <1>a, <2>2 DEF UbShape, UaShape, nd, nb, free, air, bulk, txf, txc, lost, pms, cap, faults, sends
    <3>3. UbShape(ub)' /\ UbLists(ub)' /\ UaShape(ua)'
      <4>1. UbShape(ub)' /\ UaShape(ua)' BY <1>a, <3>1 DEF UbShape, UaShape
      <4>2. UbLists(ub)' BY <1>a, <3>1 DEF UbLists
      <4> QED BY <4>1, <4>2
    <3>4. UbCounts(ub)' /\ UaCounts(ua)' BY <1>b, <3>2 DEF UbCounts, UaCounts
    <3>5. UrbStart' /\ UrbEnd' BY <1>a, <1>d, <1>e, <1>f, <1>b, <3>1, <3>2 DEF UrbStart, UrbEnd
    <3>6. UrbSum'
      <4>1. ua'.thread = "wait" => ua.thread = "wait" BY <3>1
      <4> QED BY <1>b, <1>d, <3>2, <4>1 DEF UrbSum
    <3>7. UrbPm' /\ UrbBare' BY <1>a, <3>1 DEF UrbPm, UrbBare, Without
    <3>8. UrbPms' /\ UrbTake' /\ UrbLost' /\ UrbCounted'
      BY <1>e, <1>g, <1>h, <1>i, <1>b, <3>1, <3>2 DEF UrbPms, UrbTake, UrbLost, UrbCounted
    <3>9. UrbRead' BY <1>a, <3>1 DEF UrbRead, Undisturbed, UrbPm
    <3>10. UrbArmed' BY <1>a, <3>1 DEF UrbArmed, UrbRead, UrbStart, UrbEnd, Undisturbed
    <3> QED BY <3>3, <3>4, <3>5, <3>6, <3>7, <3>8, <3>9, <3>10 DEF UrbInv
  <2> QED
    <3> DEFINE bare == ub.by # <<>> /\ ub.by[Len(ub.by)] = "bare"
    <3>1. CASE bare
      <4>1. Len(ub.by) > 0 /\ Len(ub.by) \in 1..Len(ub.by) BY <1>a, <3>1 DEF UbLists
      <4>2. ~Without(ub.by, "bare") BY <3>1, <4>1 DEF Without
      <4> QED
        BY <1>a, <1>16, <2>1, <3>1, <4>1, <4>2 DEF skw_usb_io_free_suspend_urbs, UbShape, UaShape
    <3>2. CASE ~bare
      <4>1. (IF ub.by # <<>> /\ ~bare THEN ub.bulk - 1 ELSE ub.bulk) \in Int BY <1>a DEF UbCounts
      <4> QED BY <1>a, <1>16, <2>2, <3>2, <4>1 DEF skw_usb_io_free_suspend_urbs, UbShape, UaShape
    <3> QED BY <3>1, <3>2
<1>17. CASE EntryEnds
  <2>1. CASE /\ ~ub.state
            /\ ua.disc
            /\ ua.thread = "wait"
            /\ ua.task = "idle"
            /\ ~ua.kick
            /\ ub' = [ub EXCEPT !.air = ub.air - ub.air, !.bulk = ub.bulk - ub.air, !.free = 0, !.txfree = ub.txfree + ub.tx_urb_count, !.tx_urb_count = 0]
            /\ ua' = [ua EXCEPT !.thread = "killed"]
    <3>1. /\ ~ub.state /\ ua.disc /\ ua.thread = "wait" /\ ua.task = "idle" /\ ~ua.kick
          /\ DOMAIN ub' = DOMAIN ub /\ ub'.state = ub.state /\ ub'.suspend = ub.suspend
          /\ ub'.done = ub.done /\ ub'.by = ub.by /\ DOMAIN ua' = DOMAIN ua
          /\ ua'.thread = "killed" /\ ua'.task = ua.task /\ ua'.pm = ua.pm /\ ua'.kick = ua.kick
          /\ ua'.send = ua.send /\ ua'.disc = ua.disc /\ ua'.odd = ua.odd
      BY <1>a, <2>1 DEF UbShape, UaShape
    <3>2. /\ ub'.free = 0 /\ ub'.air = air - air /\ ub'.bulk = bulk - air /\ ub'.txfree = txf + txc
          /\ ub'.tx_urb_count = 0 /\ ua'.lost = lost /\ ua'.pms = pms /\ ua'.cap = cap
          /\ ua'.faults = faults /\ ua'.sends = sends /\ Len(ub'.done) = nd /\ Len(ub'.by) = nb
      BY <1>a, <2>1 DEF UbShape, UaShape, nd, nb, free, air, bulk, txf, txc, lost, pms, cap, faults, sends
    <3>3. UbShape(ub)' /\ UbLists(ub)' /\ UaShape(ua)' BY <1>a, <3>1 DEF UbShape, UbLists, UaShape
    <3>4. UbCounts(ub)' /\ UaCounts(ua)' BY <1>b, <3>2 DEF UbCounts, UaCounts
    <3>5. UrbStart' /\ UrbEnd' BY <1>a, <1>d, <1>e, <1>f, <1>b, <3>1, <3>2 DEF UrbStart, UrbEnd
    <3>6. UrbSum' BY <3>1 DEF UrbSum
    <3>7. UrbPm' /\ UrbBare' BY <1>a, <3>1 DEF UrbPm, UrbBare
    <3>8. UrbPms' /\ UrbTake' /\ UrbLost' /\ UrbCounted'
      BY <1>e, <1>g, <1>h, <1>i, <1>b, <3>1, <3>2 DEF UrbPms, UrbTake, UrbLost, UrbCounted
    <3>9. UrbRead' BY <1>a, <3>1 DEF UrbRead, Undisturbed, UrbPm
    <3>10. UrbArmed' BY <1>a, <3>1 DEF UrbArmed, UrbRead, UrbStart, UrbEnd, Undisturbed
    <3> QED BY <3>3, <3>4, <3>5, <3>6, <3>7, <3>8, <3>9, <3>10 DEF UrbInv
  <2> QED
    <3>1. ~ub.state /\ ~ub.suspend BY <1>a, <1>17 DEF EntryEnds, UrbPm
    <3> QED BY <1>a, <1>17, <2>1, <3>1 DEF EntryEnds, KillReads, bulkin_async_complete, UbShape
<1>18. CASE DisconnectEnds
  <2>1. CASE /\ ua.thread = "killed"
            /\ ub' = [ub EXCEPT !.done = <<>>]
            /\ ua' = [ua EXCEPT !.thread = "gone"]
    <3>1. /\ ua.thread = "killed" /\ DOMAIN ub' = DOMAIN ub /\ ub'.state = ub.state
          /\ ub'.suspend = ub.suspend /\ ub'.done = <<>> /\ ub'.by = ub.by
          /\ DOMAIN ua' = DOMAIN ua /\ ua'.thread = "gone" /\ ua'.task = ua.task /\ ua'.pm = ua.pm
          /\ ua'.kick = ua.kick /\ ua'.send = ua.send /\ ua'.disc = ua.disc /\ ua'.odd = ua.odd
      BY <1>a, <2>1 DEF UbShape, UaShape
    <3>2. /\ ub'.free = free /\ ub'.air = air /\ ub'.bulk = bulk /\ ub'.txfree = txf
          /\ ub'.tx_urb_count = txc /\ ua'.lost = lost /\ ua'.pms = pms /\ ua'.cap = cap
          /\ ua'.faults = faults /\ ua'.sends = sends /\ Len(ub'.done) = 0 /\ Len(ub'.by) = nb
      BY <1>a, <2>1 DEF UbShape, UaShape, nd, nb, free, air, bulk, txf, txc, lost, pms, cap, faults, sends
    <3>3. UbShape(ub)' /\ UbLists(ub)' /\ UaShape(ua)' BY <1>a, <3>1 DEF UbShape, UbLists, UaShape
    <3>4. UbCounts(ub)' /\ UaCounts(ua)' BY <1>b, <3>2 DEF UbCounts, UaCounts
    <3>5. UrbStart' /\ UrbEnd' BY <1>a, <1>d, <1>e, <1>f, <1>b, <3>1, <3>2 DEF UrbStart, UrbEnd
    <3>6. UrbSum' BY <3>1 DEF UrbSum
    <3>7. UrbPm' /\ UrbBare' BY <1>a, <3>1 DEF UrbPm, UrbBare
    <3>8. UrbPms' /\ UrbTake' /\ UrbLost' /\ UrbCounted'
      BY <1>e, <1>g, <1>h, <1>i, <1>b, <3>1, <3>2 DEF UrbPms, UrbTake, UrbLost, UrbCounted
    <3>9. UrbRead' BY <1>a, <3>1 DEF UrbRead, Undisturbed, UrbPm
    <3>10. UrbArmed' BY <1>a, <3>1 DEF UrbArmed, UrbRead, UrbStart, UrbEnd, Undisturbed
    <3> QED BY <3>3, <3>4, <3>5, <3>6, <3>7, <3>8, <3>9, <3>10 DEF UrbInv
  <2> QED BY <1>a, <1>18, <2>1 DEF DisconnectEnds, UbShape, UaShape
<1>19. CASE UNCHANGED urbVars
  <2>1. ub' = ub /\ ua' = ua BY <1>19 DEF urbVars
  <2>2. UbShape(ub)' /\ UbCounts(ub)' /\ UbLists(ub)' /\ UaShape(ua)' /\ UaCounts(ua)' BY <1>a, <2>1
  <2>3. UrbStart' /\ UrbSum' /\ UrbEnd' /\ UrbPm' /\ UrbPms' /\ UrbTake'
    BY <1>a, <2>1 DEF UrbStart, UrbSum, UrbEnd, UrbPm, UrbPms, UrbTake
  <2>4. UrbBare' /\ UrbLost' /\ UrbCounted' /\ UrbRead' /\ UrbArmed'
    BY <1>a, <2>1 DEF UrbBare, UrbLost, UrbCounted, UrbRead, UrbArmed, Undisturbed, Coming
  <2> QED BY <2>2, <2>3, <2>4 DEF UrbInv
<1> QED BY <1>1, <1>2, <1>3, <1>4, <1>5, <1>6, <1>7, <1>8, <1>9, <1>10, <1>11, <1>12, <1>13, <1>14,
     <1>15, <1>16, <1>17, <1>18, <1>19 DEF UrbNext

\* The invariant holds at the start.
LEMMA UrbBegin == UrbInit => UrbInv
<1> SUFFICES ASSUME UrbInit PROVE UrbInv OBVIOUS
<1>1. ub = [state |-> TRUE, suspend |-> FALSE, free |-> 0, air |-> 0, done |-> <<>>, by |-> <<>>,
            bulk |-> 0, txfree |-> 0, tx_urb_count |-> 0]
  BY DEF UrbInit
<1>2. PICK spent \in 0..1 :
        ua = [thread |-> "start", task |-> "idle", pm |-> "on", kick |-> FALSE, send |-> "idle",
              disc |-> FALSE, lost |-> 0, pms |-> 0, cap |-> MaxUsbPm - 1 + spent, faults |-> spent, sends |-> 0, odd |-> {}]
  BY DEF UrbInit
<1>3. UbShape(ub) BY <1>1 DEF UbShape
<1>4. UbCounts(ub) BY <1>1 DEF UbCounts
<1>5. UbLists(ub) BY <1>1 DEF UbLists
<1>6. UaShape(ua) BY <1>2 DEF UaShape
<1>7. UaCounts(ua)
  <2>1. MaxUsbPm \in Nat BY UrbAssumption
  <2> QED BY <1>2, <2>1 DEF UaCounts
<1>8. UrbStart /\ UrbSum /\ UrbEnd /\ UrbTake BY <1>1, <1>2 DEF UrbStart, UrbSum, UrbEnd, UrbTake
<1>9. UrbPm /\ UrbPms /\ UrbLost /\ UrbCounted BY <1>1, <1>2 DEF UrbPm, UrbPms, UrbLost, UrbCounted
<1>10. UrbBare /\ UrbRead /\ UrbArmed
  BY <1>1, <1>2 DEF UrbBare, UrbRead, UrbArmed, Undisturbed, Without
<1> QED BY <1>3, <1>4, <1>5, <1>6, <1>7, <1>8, <1>9, <1>10 DEF UrbInv

\* What the invariant gives: the requests' types, and what the run checks of them.
LEMMA UrbHolds == UrbInv => UrbTypeOK /\ ReadsArmed /\ UrbsKept /\ CounterTrue
<1> SUFFICES ASSUME UrbInv PROVE UrbTypeOK /\ ReadsArmed /\ UrbsKept /\ CounterTrue OBVIOUS
<1>a. /\ UbShape(ub) /\ UbCounts(ub) /\ UbLists(ub) /\ UaShape(ua) /\ UaCounts(ua)
      /\ UrbStart /\ UrbSum /\ UrbEnd /\ UrbPm /\ UrbPms /\ UrbTake /\ UrbBare /\ UrbLost /\ UrbCounted
      /\ UrbRead /\ UrbArmed
  BY DEF UrbInv
<1>1. UrbTypeOK
  <2> DEFINE free == ub.free
             air == ub.air
             nd == Len(ub.done)
             nb == Len(ub.by)
             txf == ub.txfree
             txc == ub.tx_urb_count
             lost == ua.lost
  <2>1. free \in Nat /\ air \in Nat /\ txf \in Nat /\ txc \in Nat BY <1>a DEF UbCounts
  <2>2. nd \in Nat /\ nb \in Nat BY <1>a DEF UbLists
  <2>3. lost \in Nat /\ RxUrbs \in Nat /\ TxUrbs \in Nat BY <1>a, UrbAssumption DEF UaCounts
  <2>4. \/ free = 0 /\ air = 0 /\ txf = 0 /\ txc = 0
        \/ free + air + nd + nb + lost = RxUrbs /\ txf + txc = TxUrbs
        \/ free = 0 /\ air = 0 /\ txc = 0 /\ txf = TxUrbs
    BY <1>a DEF UaShape, UrbStart, UrbSum, UrbEnd
  <2> HIDE DEF free, air, nd, nb, txf, txc, lost
  <2>5. free \in 0..RxUrbs /\ air \in 0..RxUrbs /\ txf \in 0..TxUrbs /\ txc \in 0..TxUrbs
    BY <2>1, <2>2, <2>3, <2>4
  <2>6. {ub.free, ub.air} \subseteq 0..RxUrbs BY <2>5 DEF free, air
  <2>7. ub.txfree \in 0..TxUrbs /\ ub.tx_urb_count \in 0..TxUrbs BY <2>5 DEF txf, txc
  <2> QED BY <1>a, <2>6, <2>7 DEF UrbTypeOK, UbShape, UbLists, UaShape
<1>2. ReadsArmed BY <1>a DEF ReadsArmed, UrbArmed, UrbRead, Undisturbed, Coming
<1>3. UrbsKept
  <2>1. ua.lost > 0 => ua.odd \intersect {"refused", "stopped"} # {} BY <1>a DEF UrbLost, UaCounts
  <2>2. ua.thread = "gone" => ub.air = 0 /\ ub.tx_urb_count = 0 /\ ("refused" \in ua.odd \/ ub.by = <<>>)
    BY <1>a DEF UrbEnd, UrbPm
  <2> QED BY <1>a, <2>1, <2>2 DEF UrbsKept, UrbSum
<1>4. CounterTrue BY <1>a DEF CounterTrue, UrbCounted
<1> QED BY <1>1, <1>2, <1>3, <1>4

-----------------------------------------------------------------------------
\* Boot, services and recovery of the chip over SDIO.

\* Where an actor may be, what a user is doing.
CpShape ==
    /\ cp_state \in {"ok", "assert", "dumpdone", "blocked"} /\ service_state_map \subseteq Services
    /\ download_done \in BOOLEAN /\ power_off \in BOOLEAN /\ exceptWork \in BOOLEAN
    /\ except_mutex \in Actors \union {"none"} /\ boot_mutex \in Services \union {"none"}
    /\ fw \in {"off", "loaded", "up", "dead"}
CpSaid == loopMsgs \in Seq(CpMsgs)
CpPlaces ==
    /\ cpPc \in [Actors -> CpPcs]
    /\ \A s \in Services : cpPc[s] \notin {"work", "ports", "assert", "dump", "cancel"}
    /\ cpPc["exc"] \in {"idle", "work", "ports", "reset", "reload", "booted"}
    /\ cpPc["rx"] \in {"idle", "assert", "dump", "cancel", "reset", "reload"}
CpOps == cpOp \in [Services -> [op : {"start", "stop"}, ret : {"none", "ok", "err", "etime"}, nested : BOOLEAN]]
CpHistory == cpHist \in [crossed : BOOLEAN, ready : BOOLEAN, failed : BOOLEAN, user : BOOLEAN]

\* boot_mutex is held from the boot to the answer, so that what has been
\* said since the command was said to the start that waits.
BootHeld == \A s \in Services : cpPc[s] \notin {"idle", "boot"} => boot_mutex = s
Answered == cpHist.ready \/ cpHist.crossed
ReadyOK ==
    \A s \in Services :
        /\ cpPc[s] = "ready" /\ download_done => Answered
        /\ cpPc[s] = "unlock" /\ cpOp[s].op = "start" /\ cpOp[s].ret = "ok" => Answered

\* A recovery by the rx thread has cancelled the exception work and keeps
\* it from being queued; one that is under way has disabled the interrupt.
InReset(a) == cpPc[a] \in {"reset", "reload"}
RxRecovery == /\ cpPc["rx"] \in {"cancel", "reset", "reload"} => cp_state = "dumpdone"
              /\ InReset("rx") => cpPc["exc"] = "idle" /\ ~exceptWork
Once(a) == IF InReset(a) THEN 1 ELSE 0
IrqHeld == irqDepth \in Int /\ irqDepth >= Once("WIFI") + Once("BT") + Once("exc") + Once("rx")

\* As long as no user of a service has recovered the CP and no reset has
\* failed: who resets the CP is alone, what an older firmware had said is
\* forgotten, and the state that makes the boot enable the interrupt lasts
\* until the new firmware says that it is there.
Undriven == ~cpHist.user /\ ~cpHist.failed
TrunkNext == loopMsgs # <<>> /\ Head(loopMsgs) = "trunk_W"
NoUser == Undriven => /\ \A s \in Services : ~Recovering(s)
                      /\ cpPc["exc"] # "booted"
FwOff == Undriven => (fw = "off" <=> InReset("exc") \/ InReset("rx"))
FwSilent == Undriven /\ fw \in {"off", "loaded"} => loopMsgs = <<>>
FwComing == Undriven /\ (fw = "loaded" \/ TrunkNext) => cp_state \in {"dumpdone", "blocked"} /\ cpPc["exc"] # "ports"
TrunkFirst == Undriven => \A i \in 2..Len(loopMsgs) : loopMsgs[i] # "trunk_W"
ExcRecovery == Undriven /\ cpPc["exc"] \in {"ports", "reset", "reload"} =>
                   cp_state = "blocked" /\ cpPc["rx"] \notin {"cancel", "reset", "reload"}
DumpDone == Undriven /\ cp_state = "dumpdone" /\ cpPc["rx"] \in {"idle", "assert", "dump"} =>
                cpPc["rx"] = "idle" /\ (fw = "loaded" \/ TrunkNext)
IrqTrue == Undriven => irqDepth = Once("exc") + Once("rx")
CpInv == /\ CpShape /\ CpSaid /\ CpPlaces /\ CpOps /\ CpHistory /\ BootHeld /\ ReadyOK /\ RxRecovery /\ IrqHeld
         /\ NoUser /\ FwOff /\ FwSilent /\ FwComing /\ TrunkFirst /\ ExcRecovery /\ DumpDone /\ IrqTrue

\* Every step of the CP and its drivers keeps the invariant.
LEMMA CpStep ==
    ASSUME CpInv, [CpNext]_cpVars
    PROVE  CpInv'
<1> USE DEF Go, Services, Actors, CpPlaces, CpHistory
<1>0. CpShape /\ CpSaid /\ CpPlaces /\ CpOps /\ CpHistory /\ BootHeld /\ ReadyOK /\ RxRecovery /\ IrqHeld /\ NoUser /\ FwOff /\ FwSilent /\ FwComing /\ TrunkFirst /\ ExcRecovery /\ DumpDone /\ IrqTrue
  BY DEF CpInv
<1>1. ASSUME NEW a \in Actors, NEW ok \in BOOLEAN, skw_sdio_cp_reset(a, ok) PROVE CpInv'
  <2>1. CpShape' BY <1>0, <1>1 DEF skw_sdio_cp_reset, Return, CpShape
  <2>2. CpSaid' BY <1>0, <1>1 DEF skw_sdio_cp_reset, Return, CpSaid, CpMsgs
  <2>3. CpPlaces' BY <1>0, <1>1 DEF skw_sdio_cp_reset, Return, CpPcs, Recovering
  <2>4. CpOps' BY <1>0, <1>1 DEF skw_sdio_cp_reset, Return, CpOps
  <2>5. CpHistory' BY <1>0, <1>1 DEF skw_sdio_cp_reset, Return
  <2>6. BootHeld' BY <1>0, <1>1 DEF skw_sdio_cp_reset, Return, BootHeld
  <2>7. ReadyOK'
    BY <1>0, <1>1 DEF skw_sdio_cp_reset, Return, ReadyOK, Answered, BootHeld, CpOps, Waits
  <2>8. RxRecovery' BY <1>0, <1>1 DEF skw_sdio_cp_reset, Return, RxRecovery, InReset
  <2>9. IrqHeld' BY <1>0, <1>1 DEF skw_sdio_cp_reset, Return, IrqHeld, Once, InReset
  <2>10. NoUser'
    BY <1>0, <1>1 DEF skw_sdio_cp_reset, Return, NoUser, Undriven, Recovering, ExcRecovery
  <2>11. FwOff'
    BY <1>0, <1>1 DEF skw_sdio_cp_reset, Return, FwOff, NoUser, Recovering, ExcRecovery, RxRecovery, Undriven,
       InReset
  <2>12. FwSilent'
    BY <1>0, <1>1 DEF skw_sdio_cp_reset, Return, FwSilent, FwOff, NoUser, Recovering, Undriven, InReset, CpSaid,
       CpMsgs
  <2>13. FwComing'
    BY <1>0, <1>1 DEF skw_sdio_cp_reset, Return, FwComing, FwSilent, FwOff, DumpDone, ExcRecovery, RxRecovery,
       NoUser, Recovering, TrunkNext, TrunkFirst, Undriven, InReset, CpShape, CpSaid
  <2>14. TrunkFirst'
    BY <1>0, <1>1 DEF skw_sdio_cp_reset, Return, TrunkFirst, FwSilent, Undriven, CpSaid, CpMsgs
  <2>15. ExcRecovery'
    BY <1>0, <1>1 DEF skw_sdio_cp_reset, Return, ExcRecovery, FwComing, FwSilent, FwOff, RxRecovery, InReset,
       TrunkNext, Undriven
  <2>16. DumpDone'
    BY <1>0, <1>1 DEF skw_sdio_cp_reset, Return, DumpDone, RxRecovery, FwComing, FwSilent, FwOff, InReset,
       TrunkNext, TrunkFirst, Undriven, NoUser, Recovering, CpShape, CpSaid
  <2>17. IrqTrue'
    BY <1>0, <1>1 DEF skw_sdio_cp_reset, Return, IrqTrue, ExcRecovery, RxRecovery, NoUser, Recovering, IrqHeld,
       Once, InReset, Undriven
  <2> QED BY <2>1, <2>2, <2>3, <2>4, <2>5, <2>6, <2>7, <2>8, <2>9, <2>10, <2>11, <2>12, <2>13, <2>14,
       <2>15, <2>16, <2>17 DEF CpInv
<1>2. ASSUME NEW a \in Actors, skw_sdio_boot_cp(a) PROVE CpInv'
  <2>1. CpShape' BY <1>0, <1>2 DEF skw_sdio_boot_cp, Return, CpShape
  <2>2. CpSaid' BY <1>0, <1>2 DEF skw_sdio_boot_cp, Return, CpSaid, CpMsgs
  <2>3. CpPlaces'
    <3>1. CASE cp_state = "ok"
      BY <1>0, <1>2, <3>1 DEF skw_sdio_boot_cp, Return, RxRecovery, InReset, CpPcs, Recovering
    <3>2. CASE ~(cp_state = "ok")
      BY <1>0, <1>2, <3>2 DEF skw_sdio_boot_cp, Return, RxRecovery, InReset, CpPcs, Recovering
    <3> QED BY <3>1, <3>2
  <2>4. CpOps' BY <1>0, <1>2 DEF skw_sdio_boot_cp, Return, CpOps
  <2>5. CpHistory' BY <1>0, <1>2 DEF skw_sdio_boot_cp, Return
  <2>6. BootHeld' BY <1>0, <1>2 DEF skw_sdio_boot_cp, Return, BootHeld
  <2>7. ReadyOK' BY <1>0, <1>2 DEF skw_sdio_boot_cp, Return, ReadyOK, Answered, BootHeld, CpOps, Waits
  <2>8. RxRecovery' BY <1>0, <1>2 DEF skw_sdio_boot_cp, Return, RxRecovery, InReset
  <2>9. IrqHeld' BY <1>0, <1>2 DEF skw_sdio_boot_cp, Return, IrqHeld, Once, InReset
  <2>10. NoUser' BY <1>0, <1>2 DEF skw_sdio_boot_cp, Return, NoUser, Undriven, Recovering, ExcRecovery
  <2>11. FwOff'
    BY <1>0, <1>2 DEF skw_sdio_boot_cp, Return, FwOff, NoUser, Recovering, ExcRecovery, RxRecovery, Undriven,
       InReset
  <2>12. FwSilent'
    BY <1>0, <1>2 DEF skw_sdio_boot_cp, Return, FwSilent, FwOff, NoUser, Recovering, Undriven, InReset, CpSaid,
       CpMsgs
  <2>13. FwComing'
    BY <1>0, <1>2 DEF skw_sdio_boot_cp, Return, FwComing, FwSilent, FwOff, DumpDone, ExcRecovery, RxRecovery,
       NoUser, Recovering, TrunkNext, TrunkFirst, Undriven, InReset, CpShape, CpSaid
  <2>14. TrunkFirst'
    BY <1>0, <1>2 DEF skw_sdio_boot_cp, Return, TrunkFirst, FwSilent, Undriven, CpSaid, CpMsgs
  <2>15. ExcRecovery'
    BY <1>0, <1>2 DEF skw_sdio_boot_cp, Return, ExcRecovery, FwComing, FwSilent, FwOff, RxRecovery, InReset,
       TrunkNext, Undriven
  <2>16. DumpDone'
    BY <1>0, <1>2 DEF skw_sdio_boot_cp, Return, DumpDone, RxRecovery, FwComing, FwSilent, FwOff, InReset,
       TrunkNext, TrunkFirst, Undriven, NoUser, Recovering, CpShape, CpSaid
  <2>17. IrqTrue'
    BY <1>0, <1>2 DEF skw_sdio_boot_cp, Return, IrqTrue, ExcRecovery, RxRecovery, NoUser, Recovering, IrqHeld,
       Once, InReset, Undriven
  <2> QED BY <2>1, <2>2, <2>3, <2>4, <2>5, <2>6, <2>7, <2>8, <2>9, <2>10, <2>11, <2>12, <2>13, <2>14,
       <2>15, <2>16, <2>17 DEF CpInv
<1>3. ASSUME NEW a \in Actors, BootReady(a) PROVE CpInv'
  <2>1. CpShape' BY <1>0, <1>3 DEF BootReady, Return, CpShape
  <2>2. CpSaid' BY <1>0, <1>3 DEF BootReady, Return, CpSaid, CpMsgs
  <2>3. CpPlaces' BY <1>0, <1>3 DEF BootReady, Return, CpPcs, Recovering
  <2>4. CpOps' BY <1>0, <1>3 DEF BootReady, Return, CpOps
  <2>5. CpHistory' BY <1>0, <1>3 DEF BootReady, Return
  <2>6. BootHeld' BY <1>0, <1>3 DEF BootReady, Return, BootHeld
  <2>7. ReadyOK' BY <1>0, <1>3 DEF BootReady, Return, ReadyOK, Answered, BootHeld, CpOps, Waits
  <2>8. RxRecovery' BY <1>0, <1>3 DEF BootReady, Return, RxRecovery, InReset
  <2>9. IrqHeld' BY <1>0, <1>3 DEF BootReady, Return, IrqHeld, Once, InReset
  <2>10. NoUser' BY <1>0, <1>3 DEF BootReady, Return, NoUser, Undriven, Recovering, ExcRecovery
  <2>11. FwOff'
    BY <1>0, <1>3 DEF BootReady, Return, FwOff, NoUser, Recovering, ExcRecovery, RxRecovery, Undriven, InReset
  <2>12. FwSilent'
    BY <1>0, <1>3 DEF BootReady, Return, FwSilent, FwOff, NoUser, Recovering, Undriven, InReset, CpSaid, CpMsgs
  <2>13. FwComing'
    BY <1>0, <1>3 DEF BootReady, Return, FwComing, FwSilent, FwOff, DumpDone, ExcRecovery, RxRecovery, NoUser,
       Recovering, TrunkNext, TrunkFirst, Undriven, InReset, CpShape, CpSaid
  <2>14. TrunkFirst'
    BY <1>0, <1>3 DEF BootReady, Return, TrunkFirst, FwSilent, Undriven, CpSaid, CpMsgs
  <2>15. ExcRecovery'
    BY <1>0, <1>3 DEF BootReady, Return, ExcRecovery, FwComing, FwSilent, FwOff, RxRecovery, InReset, TrunkNext,
       Undriven
  <2>16. DumpDone'
    BY <1>0, <1>3 DEF BootReady, Return, DumpDone, RxRecovery, FwComing, FwSilent, FwOff, InReset, TrunkNext,
       TrunkFirst, Undriven, NoUser, Recovering, CpShape, CpSaid
  <2>17. IrqTrue'
    BY <1>0, <1>3 DEF BootReady, Return, IrqTrue, ExcRecovery, RxRecovery, NoUser, Recovering, IrqHeld, Once,
       InReset, Undriven
  <2> QED BY <2>1, <2>2, <2>3, <2>4, <2>5, <2>6, <2>7, <2>8, <2>9, <2>10, <2>11, <2>12, <2>13, <2>14,
       <2>15, <2>16, <2>17 DEF CpInv
<1>4. ASSUME NEW s \in Services, NEW op \in {"start", "stop"}, ServiceCall(s, op) PROVE CpInv'
  <2>1. CpShape' BY <1>0, <1>4 DEF ServiceCall, CpShape
  <2>2. CpSaid' BY <1>0, <1>4 DEF ServiceCall, CpSaid, CpMsgs
  <2>3. CpPlaces' BY <1>0, <1>4 DEF ServiceCall, CpPcs, Recovering
  <2>4. CpOps' BY <1>0, <1>4 DEF ServiceCall, CpOps
  <2>5. CpHistory' BY <1>0, <1>4 DEF ServiceCall
  <2>6. BootHeld' BY <1>0, <1>4 DEF ServiceCall, BootHeld
  <2>7. ReadyOK' BY <1>0, <1>4 DEF ServiceCall, ReadyOK, Answered, BootHeld, CpOps, Waits
  <2>8. RxRecovery' BY <1>0, <1>4 DEF ServiceCall, RxRecovery, InReset
  <2>9. IrqHeld' BY <1>0, <1>4 DEF ServiceCall, IrqHeld, Once, InReset
  <2>10. NoUser' BY <1>0, <1>4 DEF ServiceCall, NoUser, Undriven, Recovering, ExcRecovery
  <2>11. FwOff'
    BY <1>0, <1>4 DEF ServiceCall, FwOff, NoUser, Recovering, ExcRecovery, RxRecovery, Undriven, InReset
  <2>12. FwSilent'
    BY <1>0, <1>4 DEF ServiceCall, FwSilent, FwOff, NoUser, Recovering, Undriven, InReset, CpSaid, CpMsgs
  <2>13. FwComing'
    BY <1>0, <1>4 DEF ServiceCall, FwComing, FwSilent, FwOff, DumpDone, ExcRecovery, RxRecovery, NoUser,
       Recovering, TrunkNext, TrunkFirst, Undriven, InReset, CpShape, CpSaid
  <2>14. TrunkFirst' BY <1>0, <1>4 DEF ServiceCall, TrunkFirst, FwSilent, Undriven, CpSaid, CpMsgs
  <2>15. ExcRecovery'
    BY <1>0, <1>4 DEF ServiceCall, ExcRecovery, FwComing, FwSilent, FwOff, RxRecovery, InReset, TrunkNext,
       Undriven
  <2>16. DumpDone'
    BY <1>0, <1>4 DEF ServiceCall, DumpDone, RxRecovery, FwComing, FwSilent, FwOff, InReset, TrunkNext,
       TrunkFirst, Undriven, NoUser, Recovering, CpShape, CpSaid
  <2>17. IrqTrue'
    BY <1>0, <1>4 DEF ServiceCall, IrqTrue, ExcRecovery, RxRecovery, NoUser, Recovering, IrqHeld, Once, InReset,
       Undriven
  <2> QED BY <2>1, <2>2, <2>3, <2>4, <2>5, <2>6, <2>7, <2>8, <2>9, <2>10, <2>11, <2>12, <2>13, <2>14,
       <2>15, <2>16, <2>17 DEF CpInv
<1>5. ASSUME NEW s \in Services, skw_boot_loader(s) PROVE CpInv'
  <2>1. CpShape' BY <1>0, <1>5 DEF skw_boot_loader, skw_start_wifi_service, skw_recovery_mode, CpShape
  <2>2. CpSaid'
    <3>1. CASE power_off BY <1>0, <1>5, <3>1 DEF skw_boot_loader, skw_recovery_mode, CpSaid, CpMsgs
    <3>2. CASE ~(power_off) BY <1>0, <1>5, <3>2 DEF skw_boot_loader, skw_recovery_mode, CpSaid, CpMsgs
    <3> QED BY <3>1, <3>2
  <2>3. CpPlaces'
    BY <1>0, <1>5 DEF skw_boot_loader, skw_start_wifi_service, skw_recovery_mode, CpPcs, Recovering
  <2>4. CpOps' BY <1>0, <1>5 DEF skw_boot_loader, skw_start_wifi_service, skw_recovery_mode, CpOps
  <2>5. CpHistory' BY <1>0, <1>5 DEF skw_boot_loader, skw_start_wifi_service, skw_recovery_mode
  <2>6. BootHeld'
    BY <1>0, <1>5 DEF skw_boot_loader, skw_start_wifi_service, skw_recovery_mode, BootHeld
  <2>7. ReadyOK'
    BY <1>0, <1>5 DEF skw_boot_loader, skw_start_wifi_service, skw_recovery_mode, ReadyOK, Answered, BootHeld,
       CpOps, Waits
  <2>8. RxRecovery'
    BY <1>0, <1>5 DEF skw_boot_loader, skw_start_wifi_service, skw_recovery_mode, RxRecovery, InReset
  <2>9. IrqHeld'
    BY <1>0, <1>5 DEF skw_boot_loader, skw_start_wifi_service, skw_recovery_mode, IrqHeld, Once, InReset
  <2>10. NoUser'
    BY <1>0, <1>5 DEF skw_boot_loader, skw_start_wifi_service, skw_recovery_mode, NoUser, Undriven, Recovering,
       ExcRecovery
  <2>11. FwOff'
    BY ZenonT(40), <1>0, <1>5 DEF skw_boot_loader, skw_start_wifi_service, skw_recovery_mode, FwOff, NoUser,
       Recovering, ExcRecovery, RxRecovery, Undriven, InReset
  <2>12. FwSilent'
    BY <1>0, <1>5 DEF skw_boot_loader, skw_start_wifi_service, skw_recovery_mode, FwSilent, FwOff, NoUser,
       Recovering, Undriven, InReset, CpSaid, CpMsgs
  <2>13. FwComing'
    BY <1>0, <1>5 DEF skw_boot_loader, skw_start_wifi_service, skw_recovery_mode, FwComing, FwSilent, FwOff,
       DumpDone, ExcRecovery, RxRecovery, NoUser, Recovering, TrunkNext, TrunkFirst, Undriven, InReset, CpShape,
       CpSaid
  <2>14. TrunkFirst'
    BY <1>0, <1>5 DEF skw_boot_loader, skw_start_wifi_service, skw_recovery_mode, TrunkFirst, FwSilent, Undriven,
       CpSaid, CpMsgs
  <2>15. ExcRecovery'
    BY <1>0, <1>5 DEF skw_boot_loader, skw_start_wifi_service, skw_recovery_mode, ExcRecovery, FwComing, FwSilent,
       FwOff, RxRecovery, InReset, TrunkNext, Undriven
  <2>16. DumpDone'
    BY <1>0, <1>5 DEF skw_boot_loader, skw_start_wifi_service, skw_recovery_mode, DumpDone, RxRecovery, FwComing,
       FwSilent, FwOff, InReset, TrunkNext, TrunkFirst, Undriven, NoUser, Recovering, CpShape, CpSaid
  <2>17. IrqTrue'
    BY <1>0, <1>5 DEF skw_boot_loader, skw_start_wifi_service, skw_recovery_mode, IrqTrue, ExcRecovery,
       RxRecovery, NoUser, Recovering, IrqHeld, Once, InReset, Undriven
  <2> QED BY <2>1, <2>2, <2>3, <2>4, <2>5, <2>6, <2>7, <2>8, <2>9, <2>10, <2>11, <2>12, <2>13, <2>14,
       <2>15, <2>16, <2>17 DEF CpInv
<1>6. ASSUME NEW s \in Services, skw_sdio_cp_service_ops(s) PROVE CpInv'
  <2>1. CpShape' BY <1>0, <1>6 DEF skw_sdio_cp_service_ops, CpShape
  <2>2. CpSaid' BY <1>0, <1>6 DEF skw_sdio_cp_service_ops, CpSaid, CpMsgs
  <2>3. CpPlaces' BY <1>0, <1>6 DEF skw_sdio_cp_service_ops, CpPcs, Recovering
  <2>4. CpOps' BY <1>0, <1>6 DEF skw_sdio_cp_service_ops, CpOps
  <2>5. CpHistory'
    <3> DEFINE r == s \in service_state_map
    <3>1. r \in BOOLEAN OBVIOUS
    <3>2. cpHist' = [cpHist EXCEPT !.ready = r] BY <1>6 DEF skw_sdio_cp_service_ops
    <3> HIDE DEF r
    <3> QED BY <1>0, <3>1, <3>2
  <2>6. BootHeld' BY <1>0, <1>6 DEF skw_sdio_cp_service_ops, BootHeld
  <2>7. ReadyOK'
    BY ZenonT(40), <1>0, <1>6 DEF skw_sdio_cp_service_ops, ReadyOK, Answered, BootHeld, CpOps, Waits
  <2>8. RxRecovery' BY <1>0, <1>6 DEF skw_sdio_cp_service_ops, RxRecovery, InReset
  <2>9. IrqHeld' BY <1>0, <1>6 DEF skw_sdio_cp_service_ops, IrqHeld, Once, InReset
  <2>10. NoUser' BY <1>0, <1>6 DEF skw_sdio_cp_service_ops, NoUser, Undriven, Recovering, ExcRecovery
  <2>11. FwOff'
    BY <1>0, <1>6 DEF skw_sdio_cp_service_ops, FwOff, NoUser, Recovering, ExcRecovery, RxRecovery, Undriven,
       InReset
  <2>12. FwSilent'
    BY <1>0, <1>6 DEF skw_sdio_cp_service_ops, FwSilent, FwOff, NoUser, Recovering, Undriven, InReset, CpSaid,
       CpMsgs
  <2>13. FwComing'
    BY <1>0, <1>6 DEF skw_sdio_cp_service_ops, FwComing, FwSilent, FwOff, DumpDone, ExcRecovery, RxRecovery,
       NoUser, Recovering, TrunkNext, TrunkFirst, Undriven, InReset, CpShape, CpSaid
  <2>14. TrunkFirst'
    BY <1>0, <1>6 DEF skw_sdio_cp_service_ops, TrunkFirst, FwSilent, Undriven, CpSaid, CpMsgs
  <2>15. ExcRecovery'
    BY <1>0, <1>6 DEF skw_sdio_cp_service_ops, ExcRecovery, FwComing, FwSilent, FwOff, RxRecovery, InReset,
       TrunkNext, Undriven
  <2>16. DumpDone'
    BY <1>0, <1>6 DEF skw_sdio_cp_service_ops, DumpDone, RxRecovery, FwComing, FwSilent, FwOff, InReset,
       TrunkNext, TrunkFirst, Undriven, NoUser, Recovering, CpShape, CpSaid
  <2>17. IrqTrue'
    BY <1>0, <1>6 DEF skw_sdio_cp_service_ops, IrqTrue, ExcRecovery, RxRecovery, NoUser, Recovering, IrqHeld,
       Once, InReset, Undriven
  <2> QED BY <2>1, <2>2, <2>3, <2>4, <2>5, <2>6, <2>7, <2>8, <2>9, <2>10, <2>11, <2>12, <2>13, <2>14,
       <2>15, <2>16, <2>17 DEF CpInv
<1>7. ASSUME NEW s \in Services, ServiceLock(s) PROVE CpInv'
  <2>1. CpShape' BY <1>0, <1>7 DEF ServiceLock, skw_recovery_mode, CpShape
  <2>2. CpSaid'
    <3>1. CASE cpOp[s].op = "start" /\ service_state_map = {} /\ power_off
      BY <1>0, <1>7, <3>1 DEF ServiceLock, skw_recovery_mode, CpSaid, CpMsgs
    <3>2. CASE ~(cpOp[s].op = "start" /\ service_state_map = {} /\ power_off)
      BY <1>0, <1>7, <3>2 DEF ServiceLock, skw_recovery_mode, CpSaid, CpMsgs
    <3> QED BY <3>1, <3>2
  <2>3. CpPlaces' BY <1>0, <1>7 DEF ServiceLock, skw_recovery_mode, CpPcs, Recovering
  <2>4. CpOps'
    <3>1. CASE cpOp[s].op = "start" /\ service_state_map = {} /\ power_off
      <4> HIDE DEF CpPlaces, CpHistory
      <4>1. cpOp' = [cpOp EXCEPT ![s].nested = TRUE] BY <1>7, <3>1 DEF ServiceLock
      <4>2. CpOps BY <1>0 DEF CpInv
      <4> QED BY <4>1, <4>2 DEF CpOps
    <3>2. CASE ~(cpOp[s].op = "start" /\ service_state_map = {} /\ power_off)
      BY <1>0, <1>7, <3>2 DEF ServiceLock, CpOps
    <3> QED BY <3>1, <3>2
  <2>5. CpHistory' BY <1>0, <1>7 DEF ServiceLock, skw_recovery_mode
  <2>6. BootHeld' BY <1>0, <1>7 DEF ServiceLock, skw_recovery_mode, BootHeld
  <2>7. ReadyOK'
    BY <1>0, <1>7 DEF ServiceLock, skw_recovery_mode, ReadyOK, Answered, BootHeld, CpOps, Waits
  <2>8. RxRecovery' BY <1>0, <1>7 DEF ServiceLock, skw_recovery_mode, RxRecovery, InReset
  <2>9. IrqHeld' BY <1>0, <1>7 DEF ServiceLock, skw_recovery_mode, IrqHeld, Once, InReset
  <2>10. NoUser'
    BY <1>0, <1>7 DEF ServiceLock, skw_recovery_mode, NoUser, Undriven, Recovering, ExcRecovery
  <2>11. FwOff'
    BY <1>0, <1>7 DEF ServiceLock, skw_recovery_mode, FwOff, NoUser, Recovering, ExcRecovery, RxRecovery,
       Undriven, InReset
  <2>12. FwSilent'
    BY <1>0, <1>7 DEF ServiceLock, skw_recovery_mode, FwSilent, FwOff, NoUser, Recovering, Undriven, InReset,
       CpSaid, CpMsgs
  <2>13. FwComing'
    BY <1>0, <1>7 DEF ServiceLock, skw_recovery_mode, FwComing, FwSilent, FwOff, DumpDone, ExcRecovery,
       RxRecovery, NoUser, Recovering, TrunkNext, TrunkFirst, Undriven, InReset, CpShape, CpSaid
  <2>14. TrunkFirst'
    BY <1>0, <1>7 DEF ServiceLock, skw_recovery_mode, TrunkFirst, FwSilent, Undriven, CpSaid, CpMsgs
  <2>15. ExcRecovery'
    BY <1>0, <1>7 DEF ServiceLock, skw_recovery_mode, ExcRecovery, FwComing, FwSilent, FwOff, RxRecovery, InReset,
       TrunkNext, Undriven
  <2>16. DumpDone'
    BY <1>0, <1>7 DEF ServiceLock, skw_recovery_mode, DumpDone, RxRecovery, FwComing, FwSilent, FwOff, InReset,
       TrunkNext, TrunkFirst, Undriven, NoUser, Recovering, CpShape, CpSaid
  <2>17. IrqTrue'
    BY <1>0, <1>7 DEF ServiceLock, skw_recovery_mode, IrqTrue, ExcRecovery, RxRecovery, NoUser, Recovering,
       IrqHeld, Once, InReset, Undriven
  <2> QED BY <2>1, <2>2, <2>3, <2>4, <2>5, <2>6, <2>7, <2>8, <2>9, <2>10, <2>11, <2>12, <2>13, <2>14,
       <2>15, <2>16, <2>17 DEF CpInv
<1>8. ASSUME NEW s \in Services, skw_WIFI_service_start(s) PROVE CpInv'
  <2>1. CpShape'
    BY ZenonT(40), <1>0, <1>8 DEF skw_WIFI_service_start, send_modem_service_command, CpShape
  <2>2. CpSaid' BY <1>0, <1>8 DEF skw_WIFI_service_start, send_modem_service_command, CpSaid, CpMsgs
  <2>3. CpPlaces'
    BY <1>0, <1>8 DEF skw_WIFI_service_start, send_modem_service_command, CpPcs, Recovering
  <2>4. CpOps' BY <1>0, <1>8 DEF skw_WIFI_service_start, send_modem_service_command, CpOps
  <2>5. CpHistory' BY <1>0, <1>8 DEF skw_WIFI_service_start, send_modem_service_command
  <2>6. BootHeld' BY <1>0, <1>8 DEF skw_WIFI_service_start, send_modem_service_command, BootHeld
  <2>7. ReadyOK'
    BY <1>0, <1>8 DEF skw_WIFI_service_start, send_modem_service_command, ReadyOK, Answered, BootHeld, CpOps,
       Waits
  <2>8. RxRecovery'
    BY <1>0, <1>8 DEF skw_WIFI_service_start, send_modem_service_command, RxRecovery, InReset
  <2>9. IrqHeld'
    BY <1>0, <1>8 DEF skw_WIFI_service_start, send_modem_service_command, IrqHeld, Once, InReset
  <2>10. NoUser'
    BY <1>0, <1>8 DEF skw_WIFI_service_start, send_modem_service_command, NoUser, Undriven, Recovering,
       ExcRecovery
  <2>11. FwOff'
    BY <1>0, <1>8 DEF skw_WIFI_service_start, send_modem_service_command, FwOff, NoUser, Recovering, ExcRecovery,
       RxRecovery, Undriven, InReset
  <2>12. FwSilent'
    BY <1>0, <1>8 DEF skw_WIFI_service_start, send_modem_service_command, FwSilent, FwOff, NoUser, Recovering,
       Undriven, InReset, CpSaid, CpMsgs
  <2>13. FwComing'
    BY <1>0, <1>8 DEF skw_WIFI_service_start, send_modem_service_command, FwComing, FwSilent, FwOff, DumpDone,
       ExcRecovery, RxRecovery, NoUser, Recovering, TrunkNext, TrunkFirst, Undriven, InReset, CpShape, CpSaid
  <2>14. TrunkFirst'
    <3>1. CASE fw = "up" /\ cp_state = "ok" /\ cpOp[s].op = "start"
      BY <1>0, <1>8, <3>1 DEF skw_WIFI_service_start, send_modem_service_command, TrunkFirst, FwSilent, Undriven,
         CpSaid, CpMsgs
    <3>2. CASE ~(fw = "up" /\ cp_state = "ok" /\ cpOp[s].op = "start")
      BY <1>0, <1>8, <3>2 DEF skw_WIFI_service_start, send_modem_service_command, TrunkFirst, FwSilent, Undriven,
         CpSaid, CpMsgs
    <3> QED BY <3>1, <3>2
  <2>15. ExcRecovery'
    BY <1>0, <1>8 DEF skw_WIFI_service_start, send_modem_service_command, ExcRecovery, FwComing, FwSilent, FwOff,
       RxRecovery, InReset, TrunkNext, Undriven
  <2>16. DumpDone'
    BY <1>0, <1>8 DEF skw_WIFI_service_start, send_modem_service_command, DumpDone, RxRecovery, FwComing,
       FwSilent, FwOff, InReset, TrunkNext, TrunkFirst, Undriven, NoUser, Recovering, CpShape, CpSaid
  <2>17. IrqTrue'
    BY <1>0, <1>8 DEF skw_WIFI_service_start, send_modem_service_command, IrqTrue, ExcRecovery, RxRecovery,
       NoUser, Recovering, IrqHeld, Once, InReset, Undriven
  <2> QED BY <2>1, <2>2, <2>3, <2>4, <2>5, <2>6, <2>7, <2>8, <2>9, <2>10, <2>11, <2>12, <2>13, <2>14,
       <2>15, <2>16, <2>17 DEF CpInv
<1>9. ASSUME NEW s \in Services, NEW timeout \in BOOLEAN, ServiceReady(s, timeout) PROVE CpInv'
  <2>1. CpShape' BY <1>0, <1>9 DEF ServiceReady, CpShape
  <2>2. CpSaid' BY <1>0, <1>9 DEF ServiceReady, CpSaid, CpMsgs
  <2>3. CpPlaces' BY <1>0, <1>9 DEF ServiceReady, CpPcs, Recovering
  <2>4. CpOps' BY <1>0, <1>9 DEF ServiceReady, CpOps
  <2>5. CpHistory' BY <1>0, <1>9 DEF ServiceReady
  <2>6. BootHeld' BY <1>0, <1>9 DEF ServiceReady, BootHeld
  <2>7. ReadyOK'
    <3>1. CASE timeout
      BY <1>0, <1>9, <3>1 DEF ServiceReady, CpShape, ReadyOK, Answered, BootHeld, CpOps, Waits
    <3>2. CASE ~(timeout)
      BY <1>0, <1>9, <3>2 DEF ServiceReady, CpShape, ReadyOK, Answered, BootHeld, CpOps, Waits
    <3> QED BY <3>1, <3>2
  <2>8. RxRecovery' BY <1>0, <1>9 DEF ServiceReady, RxRecovery, InReset
  <2>9. IrqHeld' BY <1>0, <1>9 DEF ServiceReady, IrqHeld, Once, InReset
  <2>10. NoUser' BY <1>0, <1>9 DEF ServiceReady, NoUser, Undriven, Recovering, ExcRecovery
  <2>11. FwOff'
    BY <1>0, <1>9 DEF ServiceReady, FwOff, NoUser, Recovering, ExcRecovery, RxRecovery, Undriven, InReset
  <2>12. FwSilent'
    BY <1>0, <1>9 DEF ServiceReady, FwSilent, FwOff, NoUser, Recovering, Undriven, InReset, CpSaid, CpMsgs
  <2>13. FwComing'
    BY <1>0, <1>9 DEF ServiceReady, FwComing, FwSilent, FwOff, DumpDone, ExcRecovery, RxRecovery, NoUser,
       Recovering, TrunkNext, TrunkFirst, Undriven, InReset, CpShape, CpSaid
  <2>14. TrunkFirst' BY <1>0, <1>9 DEF ServiceReady, TrunkFirst, FwSilent, Undriven, CpSaid, CpMsgs
  <2>15. ExcRecovery'
    BY <1>0, <1>9 DEF ServiceReady, ExcRecovery, FwComing, FwSilent, FwOff, RxRecovery, InReset, TrunkNext,
       Undriven
  <2>16. DumpDone'
    BY <1>0, <1>9 DEF ServiceReady, DumpDone, RxRecovery, FwComing, FwSilent, FwOff, InReset, TrunkNext,
       TrunkFirst, Undriven, NoUser, Recovering, CpShape, CpSaid
  <2>17. IrqTrue'
    BY <1>0, <1>9 DEF ServiceReady, IrqTrue, ExcRecovery, RxRecovery, NoUser, Recovering, IrqHeld, Once, InReset,
       Undriven
  <2> QED BY <2>1, <2>2, <2>3, <2>4, <2>5, <2>6, <2>7, <2>8, <2>9, <2>10, <2>11, <2>12, <2>13, <2>14,
       <2>15, <2>16, <2>17 DEF CpInv
<1>10. ASSUME NEW s \in Services, ServiceUnlock(s) PROVE CpInv'
  <2>1. CpShape' BY <1>0, <1>10 DEF ServiceUnlock, CpShape
  <2>2. CpSaid' BY <1>0, <1>10 DEF ServiceUnlock, CpSaid, CpMsgs
  <2>3. CpPlaces' BY <1>0, <1>10 DEF ServiceUnlock, CpPcs, Recovering
  <2>4. CpOps' BY ZenonT(40), <1>0, <1>10 DEF ServiceUnlock, CpOps
  <2>5. CpHistory' BY <1>0, <1>10 DEF ServiceUnlock
  <2>6. BootHeld' BY <1>0, <1>10 DEF ServiceUnlock, BootHeld
  <2>7. ReadyOK' BY <1>0, <1>10 DEF ServiceUnlock, ReadyOK, Answered, BootHeld, CpOps, Waits
  <2>8. RxRecovery' BY <1>0, <1>10 DEF ServiceUnlock, RxRecovery, InReset
  <2>9. IrqHeld' BY <1>0, <1>10 DEF ServiceUnlock, IrqHeld, Once, InReset
  <2>10. NoUser' BY <1>0, <1>10 DEF ServiceUnlock, NoUser, Undriven, Recovering, ExcRecovery
  <2>11. FwOff'
    BY <1>0, <1>10 DEF ServiceUnlock, FwOff, NoUser, Recovering, ExcRecovery, RxRecovery, Undriven, InReset
  <2>12. FwSilent'
    BY <1>0, <1>10 DEF ServiceUnlock, FwSilent, FwOff, NoUser, Recovering, Undriven, InReset, CpSaid, CpMsgs
  <2>13. FwComing'
    BY <1>0, <1>10 DEF ServiceUnlock, FwComing, FwSilent, FwOff, DumpDone, ExcRecovery, RxRecovery, NoUser,
       Recovering, TrunkNext, TrunkFirst, Undriven, InReset, CpShape, CpSaid
  <2>14. TrunkFirst' BY <1>0, <1>10 DEF ServiceUnlock, TrunkFirst, FwSilent, Undriven, CpSaid, CpMsgs
  <2>15. ExcRecovery'
    BY <1>0, <1>10 DEF ServiceUnlock, ExcRecovery, FwComing, FwSilent, FwOff, RxRecovery, InReset, TrunkNext,
       Undriven
  <2>16. DumpDone'
    BY <1>0, <1>10 DEF ServiceUnlock, DumpDone, RxRecovery, FwComing, FwSilent, FwOff, InReset, TrunkNext,
       TrunkFirst, Undriven, NoUser, Recovering, CpShape, CpSaid
  <2>17. IrqTrue'
    BY <1>0, <1>10 DEF ServiceUnlock, IrqTrue, ExcRecovery, RxRecovery, NoUser, Recovering, IrqHeld, Once,
       InReset, Undriven
  <2> QED BY <2>1, <2>2, <2>3, <2>4, <2>5, <2>6, <2>7, <2>8, <2>9, <2>10, <2>11, <2>12, <2>13, <2>14,
       <2>15, <2>16, <2>17 DEF CpInv
<1>11. CASE skw_WIFI_service_stop
  <2>1. CpShape' BY <1>0, <1>11 DEF skw_WIFI_service_stop, CpShape
  <2>2. CpSaid' BY <1>0, <1>11 DEF skw_WIFI_service_stop, CpSaid, CpMsgs
  <2>3. CpPlaces' BY <1>0, <1>11 DEF skw_WIFI_service_stop, CpPcs, Recovering
  <2>4. CpOps' BY <1>0, <1>11 DEF skw_WIFI_service_stop, CpOps
  <2>5. CpHistory' BY <1>0, <1>11 DEF skw_WIFI_service_stop
  <2>6. BootHeld' BY <1>0, <1>11 DEF skw_WIFI_service_stop, BootHeld
  <2>7. ReadyOK' BY <1>0, <1>11 DEF skw_WIFI_service_stop, ReadyOK, Answered, BootHeld, CpOps, Waits
  <2>8. RxRecovery' BY <1>0, <1>11 DEF skw_WIFI_service_stop, RxRecovery, InReset
  <2>9. IrqHeld' BY <1>0, <1>11 DEF skw_WIFI_service_stop, IrqHeld, Once, InReset
  <2>10. NoUser' BY <1>0, <1>11 DEF skw_WIFI_service_stop, NoUser, Undriven, Recovering, ExcRecovery
  <2>11. FwOff'
    BY <1>0, <1>11 DEF skw_WIFI_service_stop, FwOff, NoUser, Recovering, ExcRecovery, RxRecovery, Undriven,
       InReset
  <2>12. FwSilent'
    BY <1>0, <1>11 DEF skw_WIFI_service_stop, FwSilent, FwOff, NoUser, Recovering, Undriven, InReset, CpSaid,
       CpMsgs
  <2>13. FwComing'
    BY <1>0, <1>11 DEF skw_WIFI_service_stop, FwComing, FwSilent, FwOff, DumpDone, ExcRecovery, RxRecovery,
       NoUser, Recovering, TrunkNext, TrunkFirst, Undriven, InReset, CpShape, CpSaid
  <2>14. TrunkFirst'
    BY <1>0, <1>11 DEF skw_WIFI_service_stop, TrunkFirst, FwSilent, Undriven, CpSaid, CpMsgs
  <2>15. ExcRecovery'
    BY <1>0, <1>11 DEF skw_WIFI_service_stop, ExcRecovery, FwComing, FwSilent, FwOff, RxRecovery, InReset,
       TrunkNext, Undriven
  <2>16. DumpDone'
    BY <1>0, <1>11 DEF skw_WIFI_service_stop, DumpDone, RxRecovery, FwComing, FwSilent, FwOff, InReset, TrunkNext,
       TrunkFirst, Undriven, NoUser, Recovering, CpShape, CpSaid
  <2>17. IrqTrue'
    BY <1>0, <1>11 DEF skw_WIFI_service_stop, IrqTrue, ExcRecovery, RxRecovery, NoUser, Recovering, IrqHeld, Once,
       InReset, Undriven
  <2> QED BY <2>1, <2>2, <2>3, <2>4, <2>5, <2>6, <2>7, <2>8, <2>9, <2>10, <2>11, <2>12, <2>13, <2>14,
       <2>15, <2>16, <2>17 DEF CpInv
<1>12. CASE skw_BT_service_stop
  <2>1. CpShape' BY ZenonT(40), <1>0, <1>12 DEF skw_BT_service_stop, CpShape
  <2>2. CpSaid' BY <1>0, <1>12 DEF skw_BT_service_stop, CpSaid, CpMsgs
  <2>3. CpPlaces' BY <1>0, <1>12 DEF skw_BT_service_stop, CpPcs, Recovering
  <2>4. CpOps' BY <1>0, <1>12 DEF skw_BT_service_stop, CpOps
  <2>5. CpHistory' BY <1>0, <1>12 DEF skw_BT_service_stop
  <2>6. BootHeld' BY <1>0, <1>12 DEF skw_BT_service_stop, BootHeld
  <2>7. ReadyOK' BY <1>0, <1>12 DEF skw_BT_service_stop, ReadyOK, Answered, BootHeld, CpOps, Waits
  <2>8. RxRecovery' BY <1>0, <1>12 DEF skw_BT_service_stop, RxRecovery, InReset
  <2>9. IrqHeld' BY <1>0, <1>12 DEF skw_BT_service_stop, IrqHeld, Once, InReset
  <2>10. NoUser' BY <1>0, <1>12 DEF skw_BT_service_stop, NoUser, Undriven, Recovering, ExcRecovery
  <2>11. FwOff'
    BY <1>0, <1>12 DEF skw_BT_service_stop, FwOff, NoUser, Recovering, ExcRecovery, RxRecovery, Undriven, InReset
  <2>12. FwSilent'
    BY <1>0, <1>12 DEF skw_BT_service_stop, FwSilent, FwOff, NoUser, Recovering, Undriven, InReset, CpSaid, CpMsgs
  <2>13. FwComing'
    BY <1>0, <1>12 DEF skw_BT_service_stop, FwComing, FwSilent, FwOff, DumpDone, ExcRecovery, RxRecovery, NoUser,
       Recovering, TrunkNext, TrunkFirst, Undriven, InReset, CpShape, CpSaid
  <2>14. TrunkFirst'
    BY <1>0, <1>12 DEF skw_BT_service_stop, TrunkFirst, FwSilent, Undriven, CpSaid, CpMsgs
  <2>15. ExcRecovery'
    BY <1>0, <1>12 DEF skw_BT_service_stop, ExcRecovery, FwComing, FwSilent, FwOff, RxRecovery, InReset,
       TrunkNext, Undriven
  <2>16. DumpDone'
    BY <1>0, <1>12 DEF skw_BT_service_stop, DumpDone, RxRecovery, FwComing, FwSilent, FwOff, InReset, TrunkNext,
       TrunkFirst, Undriven, NoUser, Recovering, CpShape, CpSaid
  <2>17. IrqTrue'
    BY <1>0, <1>12 DEF skw_BT_service_stop, IrqTrue, ExcRecovery, RxRecovery, NoUser, Recovering, IrqHeld, Once,
       InReset, Undriven
  <2> QED BY <2>1, <2>2, <2>3, <2>4, <2>5, <2>6, <2>7, <2>8, <2>9, <2>10, <2>11, <2>12, <2>13, <2>14,
       <2>15, <2>16, <2>17 DEF CpInv
<1>13. CASE SuspendPowersOff
  <2>1. CpShape' BY <1>0, <1>13 DEF SuspendPowersOff, CpShape
  <2>2. CpSaid' BY <1>0, <1>13 DEF SuspendPowersOff, CpSaid, CpMsgs
  <2>3. CpPlaces' BY <1>0, <1>13 DEF SuspendPowersOff, CpPcs, Recovering
  <2>4. CpOps' BY <1>0, <1>13 DEF SuspendPowersOff, CpOps
  <2>5. CpHistory' BY <1>0, <1>13 DEF SuspendPowersOff
  <2>6. BootHeld' BY <1>0, <1>13 DEF SuspendPowersOff, BootHeld
  <2>7. ReadyOK' BY <1>0, <1>13 DEF SuspendPowersOff, ReadyOK, Answered, BootHeld, CpOps, Waits
  <2>8. RxRecovery' BY <1>0, <1>13 DEF SuspendPowersOff, RxRecovery, InReset
  <2>9. IrqHeld' BY <1>0, <1>13 DEF SuspendPowersOff, IrqHeld, Once, InReset
  <2>10. NoUser' BY <1>0, <1>13 DEF SuspendPowersOff, NoUser, Undriven, Recovering, ExcRecovery
  <2>11. FwOff'
    BY <1>0, <1>13 DEF SuspendPowersOff, FwOff, NoUser, Recovering, ExcRecovery, RxRecovery, Undriven, InReset
  <2>12. FwSilent'
    BY <1>0, <1>13 DEF SuspendPowersOff, FwSilent, FwOff, NoUser, Recovering, Undriven, InReset, CpSaid, CpMsgs
  <2>13. FwComing'
    BY <1>0, <1>13 DEF SuspendPowersOff, FwComing, FwSilent, FwOff, DumpDone, ExcRecovery, RxRecovery, NoUser,
       Recovering, TrunkNext, TrunkFirst, Undriven, InReset, CpShape, CpSaid
  <2>14. TrunkFirst'
    BY <1>0, <1>13 DEF SuspendPowersOff, TrunkFirst, FwSilent, Undriven, CpSaid, CpMsgs
  <2>15. ExcRecovery'
    BY <1>0, <1>13 DEF SuspendPowersOff, ExcRecovery, FwComing, FwSilent, FwOff, RxRecovery, InReset, TrunkNext,
       Undriven
  <2>16. DumpDone'
    BY <1>0, <1>13 DEF SuspendPowersOff, DumpDone, RxRecovery, FwComing, FwSilent, FwOff, InReset, TrunkNext,
       TrunkFirst, Undriven, NoUser, Recovering, CpShape, CpSaid
  <2>17. IrqTrue'
    BY <1>0, <1>13 DEF SuspendPowersOff, IrqTrue, ExcRecovery, RxRecovery, NoUser, Recovering, IrqHeld, Once,
       InReset, Undriven
  <2> QED BY <2>1, <2>2, <2>3, <2>4, <2>5, <2>6, <2>7, <2>8, <2>9, <2>10, <2>11, <2>12, <2>13, <2>14,
       <2>15, <2>16, <2>17 DEF CpInv
<1>14. CASE send_modem_assert_command
  <2>1. CpShape' BY <1>0, <1>14 DEF send_modem_assert_command, CpShape
  <2>2. CpSaid'
    <3>1. CASE fw = "up" BY <1>0, <1>14, <3>1 DEF send_modem_assert_command, CpSaid, CpMsgs
    <3>2. CASE ~(fw = "up") BY <1>0, <1>14, <3>2 DEF send_modem_assert_command, CpSaid, CpMsgs
    <3> QED BY <3>1, <3>2
  <2>3. CpPlaces' BY <1>0, <1>14 DEF send_modem_assert_command, CpPcs, Recovering
  <2>4. CpOps' BY <1>0, <1>14 DEF send_modem_assert_command, CpOps
  <2>5. CpHistory' BY <1>0, <1>14 DEF send_modem_assert_command
  <2>6. BootHeld' BY <1>0, <1>14 DEF send_modem_assert_command, BootHeld
  <2>7. ReadyOK'
    BY <1>0, <1>14 DEF send_modem_assert_command, ReadyOK, Answered, BootHeld, CpOps, Waits
  <2>8. RxRecovery' BY <1>0, <1>14 DEF send_modem_assert_command, RxRecovery, InReset
  <2>9. IrqHeld' BY <1>0, <1>14 DEF send_modem_assert_command, IrqHeld, Once, InReset
  <2>10. NoUser'
    BY <1>0, <1>14 DEF send_modem_assert_command, NoUser, Undriven, Recovering, ExcRecovery
  <2>11. FwOff'
    BY <1>0, <1>14 DEF send_modem_assert_command, FwOff, NoUser, Recovering, ExcRecovery, RxRecovery, Undriven,
       InReset
  <2>12. FwSilent'
    BY <1>0, <1>14 DEF send_modem_assert_command, FwSilent, FwOff, NoUser, Recovering, Undriven, InReset, CpSaid,
       CpMsgs
  <2>13. FwComing'
    BY <1>0, <1>14 DEF send_modem_assert_command, FwComing, FwSilent, FwOff, DumpDone, ExcRecovery, RxRecovery,
       NoUser, Recovering, TrunkNext, TrunkFirst, Undriven, InReset, CpShape, CpSaid
  <2>14. TrunkFirst'
    BY <1>0, <1>14 DEF send_modem_assert_command, TrunkFirst, FwSilent, Undriven, CpSaid, CpMsgs
  <2>15. ExcRecovery'
    BY <1>0, <1>14 DEF send_modem_assert_command, ExcRecovery, FwComing, FwSilent, FwOff, RxRecovery, InReset,
       TrunkNext, Undriven
  <2>16. DumpDone'
    BY <1>0, <1>14 DEF send_modem_assert_command, DumpDone, RxRecovery, FwComing, FwSilent, FwOff, InReset,
       TrunkNext, TrunkFirst, Undriven, NoUser, Recovering, CpShape, CpSaid
  <2>17. IrqTrue'
    BY <1>0, <1>14 DEF send_modem_assert_command, IrqTrue, ExcRecovery, RxRecovery, NoUser, Recovering, IrqHeld,
       Once, InReset, Undriven
  <2> QED BY <2>1, <2>2, <2>3, <2>4, <2>5, <2>6, <2>7, <2>8, <2>9, <2>10, <2>11, <2>12, <2>13, <2>14,
       <2>15, <2>16, <2>17 DEF CpInv
<1>15. CASE skw_sdio_abort
  <2>1. CpShape' BY <1>0, <1>15 DEF skw_sdio_abort, CpShape
  <2>2. CpSaid' BY <1>0, <1>15 DEF skw_sdio_abort, CpSaid, CpMsgs
  <2>3. CpPlaces' BY <1>0, <1>15 DEF skw_sdio_abort, CpPcs, Recovering
  <2>4. CpOps' BY <1>0, <1>15 DEF skw_sdio_abort, CpOps
  <2>5. CpHistory' BY <1>0, <1>15 DEF skw_sdio_abort
  <2>6. BootHeld' BY <1>0, <1>15 DEF skw_sdio_abort, BootHeld
  <2>7. ReadyOK' BY <1>0, <1>15 DEF skw_sdio_abort, ReadyOK, Answered, BootHeld, CpOps, Waits
  <2>8. RxRecovery' BY <1>0, <1>15 DEF skw_sdio_abort, RxRecovery, InReset
  <2>9. IrqHeld' BY <1>0, <1>15 DEF skw_sdio_abort, IrqHeld, Once, InReset
  <2>10. NoUser' BY <1>0, <1>15 DEF skw_sdio_abort, NoUser, Undriven, Recovering, ExcRecovery
  <2>11. FwOff'
    BY <1>0, <1>15 DEF skw_sdio_abort, FwOff, NoUser, Recovering, ExcRecovery, RxRecovery, Undriven, InReset
  <2>12. FwSilent'
    BY <1>0, <1>15 DEF skw_sdio_abort, FwSilent, FwOff, NoUser, Recovering, Undriven, InReset, CpSaid, CpMsgs
  <2>13. FwComing'
    BY <1>0, <1>15 DEF skw_sdio_abort, FwComing, FwSilent, FwOff, DumpDone, ExcRecovery, RxRecovery, NoUser,
       Recovering, TrunkNext, TrunkFirst, Undriven, InReset, CpShape, CpSaid
  <2>14. TrunkFirst' BY <1>0, <1>15 DEF skw_sdio_abort, TrunkFirst, FwSilent, Undriven, CpSaid, CpMsgs
  <2>15. ExcRecovery'
    BY <1>0, <1>15 DEF skw_sdio_abort, ExcRecovery, FwComing, FwSilent, FwOff, RxRecovery, InReset, TrunkNext,
       Undriven
  <2>16. DumpDone'
    BY <1>0, <1>15 DEF skw_sdio_abort, DumpDone, RxRecovery, FwComing, FwSilent, FwOff, InReset, TrunkNext,
       TrunkFirst, Undriven, NoUser, Recovering, CpShape, CpSaid
  <2>17. IrqTrue'
    BY <1>0, <1>15 DEF skw_sdio_abort, IrqTrue, ExcRecovery, RxRecovery, NoUser, Recovering, IrqHeld, Once,
       InReset, Undriven
  <2> QED BY <2>1, <2>2, <2>3, <2>4, <2>5, <2>6, <2>7, <2>8, <2>9, <2>10, <2>11, <2>12, <2>13, <2>14,
       <2>15, <2>16, <2>17 DEF CpInv
<1>16. CASE skw_sdio_exception_work
  <2>1. CpShape' BY <1>0, <1>16 DEF skw_sdio_exception_work, CpShape
  <2>2. CpSaid' BY <1>0, <1>16 DEF skw_sdio_exception_work, CpSaid, CpMsgs
  <2>3. CpPlaces' BY <1>0, <1>16 DEF skw_sdio_exception_work, CpPcs, Recovering
  <2>4. CpOps' BY <1>0, <1>16 DEF skw_sdio_exception_work, CpOps
  <2>5. CpHistory' BY <1>0, <1>16 DEF skw_sdio_exception_work
  <2>6. BootHeld' BY <1>0, <1>16 DEF skw_sdio_exception_work, BootHeld
  <2>7. ReadyOK' BY <1>0, <1>16 DEF skw_sdio_exception_work, ReadyOK, Answered, BootHeld, CpOps, Waits
  <2>8. RxRecovery' BY <1>0, <1>16 DEF skw_sdio_exception_work, RxRecovery, InReset
  <2>9. IrqHeld' BY <1>0, <1>16 DEF skw_sdio_exception_work, IrqHeld, Once, InReset
  <2>10. NoUser' BY <1>0, <1>16 DEF skw_sdio_exception_work, NoUser, Undriven, Recovering, ExcRecovery
  <2>11. FwOff'
    BY <1>0, <1>16 DEF skw_sdio_exception_work, FwOff, NoUser, Recovering, ExcRecovery, RxRecovery, Undriven,
       InReset
  <2>12. FwSilent'
    BY <1>0, <1>16 DEF skw_sdio_exception_work, FwSilent, FwOff, NoUser, Recovering, Undriven, InReset, CpSaid,
       CpMsgs
  <2>13. FwComing'
    BY <1>0, <1>16 DEF skw_sdio_exception_work, FwComing, FwSilent, FwOff, DumpDone, ExcRecovery, RxRecovery,
       NoUser, Recovering, TrunkNext, TrunkFirst, Undriven, InReset, CpShape, CpSaid
  <2>14. TrunkFirst'
    BY <1>0, <1>16 DEF skw_sdio_exception_work, TrunkFirst, FwSilent, Undriven, CpSaid, CpMsgs
  <2>15. ExcRecovery'
    BY <1>0, <1>16 DEF skw_sdio_exception_work, ExcRecovery, FwComing, FwSilent, FwOff, RxRecovery, InReset,
       TrunkNext, Undriven
  <2>16. DumpDone'
    BY <1>0, <1>16 DEF skw_sdio_exception_work, DumpDone, RxRecovery, FwComing, FwSilent, FwOff, InReset,
       TrunkNext, TrunkFirst, Undriven, NoUser, Recovering, CpShape, CpSaid
  <2>17. IrqTrue'
    BY <1>0, <1>16 DEF skw_sdio_exception_work, IrqTrue, ExcRecovery, RxRecovery, NoUser, Recovering, IrqHeld,
       Once, InReset, Undriven
  <2> QED BY <2>1, <2>2, <2>3, <2>4, <2>5, <2>6, <2>7, <2>8, <2>9, <2>10, <2>11, <2>12, <2>13, <2>14,
       <2>15, <2>16, <2>17 DEF CpInv
<1>17. CASE ExceptTest
  <2>1. CpShape' BY <1>0, <1>17 DEF ExceptTest, CpShape
  <2>2. CpSaid' BY <1>0, <1>17 DEF ExceptTest, CpSaid, CpMsgs
  <2>3. CpPlaces' BY <1>0, <1>17 DEF ExceptTest, CpPcs, Recovering
  <2>4. CpOps' BY <1>0, <1>17 DEF ExceptTest, CpOps
  <2>5. CpHistory' BY <1>0, <1>17 DEF ExceptTest
  <2>6. BootHeld' BY <1>0, <1>17 DEF ExceptTest, BootHeld
  <2>7. ReadyOK' BY <1>0, <1>17 DEF ExceptTest, ReadyOK, Answered, BootHeld, CpOps, Waits
  <2>8. RxRecovery' BY <1>0, <1>17 DEF ExceptTest, RxRecovery, InReset
  <2>9. IrqHeld' BY <1>0, <1>17 DEF ExceptTest, IrqHeld, Once, InReset
  <2>10. NoUser' BY <1>0, <1>17 DEF ExceptTest, NoUser, Undriven, Recovering, ExcRecovery
  <2>11. FwOff'
    BY <1>0, <1>17 DEF ExceptTest, FwOff, NoUser, Recovering, ExcRecovery, RxRecovery, Undriven, InReset
  <2>12. FwSilent'
    BY <1>0, <1>17 DEF ExceptTest, FwSilent, FwOff, NoUser, Recovering, Undriven, InReset, CpSaid, CpMsgs
  <2>13. FwComing'
    BY <1>0, <1>17 DEF ExceptTest, FwComing, FwSilent, FwOff, DumpDone, ExcRecovery, RxRecovery, NoUser,
       Recovering, TrunkNext, TrunkFirst, Undriven, InReset, CpShape, CpSaid
  <2>14. TrunkFirst' BY <1>0, <1>17 DEF ExceptTest, TrunkFirst, FwSilent, Undriven, CpSaid, CpMsgs
  <2>15. ExcRecovery'
    BY <1>0, <1>17 DEF ExceptTest, ExcRecovery, FwComing, FwSilent, FwOff, RxRecovery, InReset, TrunkNext,
       Undriven
  <2>16. DumpDone'
    BY <1>0, <1>17 DEF ExceptTest, DumpDone, RxRecovery, FwComing, FwSilent, FwOff, InReset, TrunkNext,
       TrunkFirst, Undriven, NoUser, Recovering, CpShape, CpSaid
  <2>17. IrqTrue'
    BY <1>0, <1>17 DEF ExceptTest, IrqTrue, ExcRecovery, RxRecovery, NoUser, Recovering, IrqHeld, Once, InReset,
       Undriven
  <2> QED BY <2>1, <2>2, <2>3, <2>4, <2>5, <2>6, <2>7, <2>8, <2>9, <2>10, <2>11, <2>12, <2>13, <2>14,
       <2>15, <2>16, <2>17 DEF CpInv
<1>18. CASE ExceptRecover
  <2>1. CpShape' BY <1>0, <1>18 DEF ExceptRecover, skw_recovery_mode, CpShape
  <2>2. CpSaid' BY <1>0, <1>18 DEF ExceptRecover, skw_recovery_mode, CpSaid, CpMsgs
  <2>3. CpPlaces' BY <1>0, <1>18 DEF ExceptRecover, skw_recovery_mode, CpPcs, Recovering
  <2>4. CpOps' BY <1>0, <1>18 DEF ExceptRecover, skw_recovery_mode, CpOps
  <2>5. CpHistory' BY <1>0, <1>18 DEF ExceptRecover, skw_recovery_mode
  <2>6. BootHeld' BY <1>0, <1>18 DEF ExceptRecover, skw_recovery_mode, BootHeld
  <2>7. ReadyOK'
    BY <1>0, <1>18 DEF ExceptRecover, skw_recovery_mode, ReadyOK, Answered, BootHeld, CpOps, Waits
  <2>8. RxRecovery' BY <1>0, <1>18 DEF ExceptRecover, skw_recovery_mode, RxRecovery, InReset
  <2>9. IrqHeld' BY <1>0, <1>18 DEF ExceptRecover, skw_recovery_mode, IrqHeld, Once, InReset
  <2>10. NoUser'
    BY <1>0, <1>18 DEF ExceptRecover, skw_recovery_mode, NoUser, Undriven, Recovering, ExcRecovery
  <2>11. FwOff'
    BY <1>0, <1>18 DEF ExceptRecover, skw_recovery_mode, FwOff, NoUser, Recovering, ExcRecovery, RxRecovery,
       Undriven, InReset
  <2>12. FwSilent'
    BY <1>0, <1>18 DEF ExceptRecover, skw_recovery_mode, FwSilent, FwOff, NoUser, Recovering, Undriven, InReset,
       CpSaid, CpMsgs
  <2>13. FwComing'
    BY <1>0, <1>18 DEF ExceptRecover, skw_recovery_mode, FwComing, FwSilent, FwOff, DumpDone, ExcRecovery,
       RxRecovery, NoUser, Recovering, TrunkNext, TrunkFirst, Undriven, InReset, CpShape, CpSaid
  <2>14. TrunkFirst'
    BY <1>0, <1>18 DEF ExceptRecover, skw_recovery_mode, TrunkFirst, FwSilent, Undriven, CpSaid, CpMsgs
  <2>15. ExcRecovery'
    BY <1>0, <1>18 DEF ExceptRecover, skw_recovery_mode, ExcRecovery, FwComing, FwSilent, FwOff, RxRecovery,
       InReset, TrunkNext, Undriven
  <2>16. DumpDone'
    BY <1>0, <1>18 DEF ExceptRecover, skw_recovery_mode, DumpDone, RxRecovery, FwComing, FwSilent, FwOff, InReset,
       TrunkNext, TrunkFirst, Undriven, NoUser, Recovering, CpShape, CpSaid
  <2>17. IrqTrue'
    BY <1>0, <1>18 DEF ExceptRecover, skw_recovery_mode, IrqTrue, ExcRecovery, RxRecovery, NoUser, Recovering,
       IrqHeld, Once, InReset, Undriven
  <2> QED BY <2>1, <2>2, <2>3, <2>4, <2>5, <2>6, <2>7, <2>8, <2>9, <2>10, <2>11, <2>12, <2>13, <2>14,
       <2>15, <2>16, <2>17 DEF CpInv
<1>19. CASE FwBoots
  <2>1. CpShape' BY <1>0, <1>19 DEF FwBoots, CpShape
  <2>2. CpSaid' BY <1>0, <1>19 DEF FwBoots, CpSaid, CpMsgs
  <2>3. CpPlaces' BY <1>0, <1>19 DEF FwBoots, CpPcs, Recovering
  <2>4. CpOps' BY <1>0, <1>19 DEF FwBoots, CpOps
  <2>5. CpHistory' BY <1>0, <1>19 DEF FwBoots
  <2>6. BootHeld' BY <1>0, <1>19 DEF FwBoots, BootHeld
  <2>7. ReadyOK' BY <1>0, <1>19 DEF FwBoots, ReadyOK, Answered, BootHeld, CpOps, Waits
  <2>8. RxRecovery' BY <1>0, <1>19 DEF FwBoots, RxRecovery, InReset
  <2>9. IrqHeld' BY <1>0, <1>19 DEF FwBoots, IrqHeld, Once, InReset
  <2>10. NoUser' BY <1>0, <1>19 DEF FwBoots, NoUser, Undriven, Recovering, ExcRecovery
  <2>11. FwOff'
    BY <1>0, <1>19 DEF FwBoots, FwOff, NoUser, Recovering, ExcRecovery, RxRecovery, Undriven, InReset
  <2>12. FwSilent'
    BY <1>0, <1>19 DEF FwBoots, FwSilent, FwOff, NoUser, Recovering, Undriven, InReset, CpSaid, CpMsgs
  <2>13. FwComing'
    BY <1>0, <1>19 DEF FwBoots, FwComing, FwSilent, FwOff, DumpDone, ExcRecovery, RxRecovery, NoUser, Recovering,
       TrunkNext, TrunkFirst, Undriven, InReset, CpShape, CpSaid
  <2>14. TrunkFirst' BY <1>0, <1>19 DEF FwBoots, TrunkFirst, FwSilent, Undriven, CpSaid, CpMsgs
  <2>15. ExcRecovery'
    BY <1>0, <1>19 DEF FwBoots, ExcRecovery, FwComing, FwSilent, FwOff, RxRecovery, InReset, TrunkNext, Undriven
  <2>16. DumpDone'
    BY <1>0, <1>19 DEF FwBoots, DumpDone, RxRecovery, FwComing, FwSilent, FwOff, InReset, TrunkNext, TrunkFirst,
       Undriven, NoUser, Recovering, CpShape, CpSaid
  <2>17. IrqTrue'
    BY <1>0, <1>19 DEF FwBoots, IrqTrue, ExcRecovery, RxRecovery, NoUser, Recovering, IrqHeld, Once, InReset,
       Undriven
  <2> QED BY <2>1, <2>2, <2>3, <2>4, <2>5, <2>6, <2>7, <2>8, <2>9, <2>10, <2>11, <2>12, <2>13, <2>14,
       <2>15, <2>16, <2>17 DEF CpInv
<1>20. CASE FwDies
  <2>1. CpShape' BY <1>0, <1>20 DEF FwDies, CpShape
  <2>2. CpSaid' BY <1>0, <1>20 DEF FwDies, CpSaid, CpMsgs
  <2>3. CpPlaces' BY <1>0, <1>20 DEF FwDies, CpPcs, Recovering
  <2>4. CpOps' BY <1>0, <1>20 DEF FwDies, CpOps
  <2>5. CpHistory' BY <1>0, <1>20 DEF FwDies
  <2>6. BootHeld' BY <1>0, <1>20 DEF FwDies, BootHeld
  <2>7. ReadyOK' BY <1>0, <1>20 DEF FwDies, ReadyOK, Answered, BootHeld, CpOps, Waits
  <2>8. RxRecovery' BY <1>0, <1>20 DEF FwDies, RxRecovery, InReset
  <2>9. IrqHeld' BY <1>0, <1>20 DEF FwDies, IrqHeld, Once, InReset
  <2>10. NoUser' BY <1>0, <1>20 DEF FwDies, NoUser, Undriven, Recovering, ExcRecovery
  <2>11. FwOff'
    BY <1>0, <1>20 DEF FwDies, FwOff, NoUser, Recovering, ExcRecovery, RxRecovery, Undriven, InReset
  <2>12. FwSilent'
    BY <1>0, <1>20 DEF FwDies, FwSilent, FwOff, NoUser, Recovering, Undriven, InReset, CpSaid, CpMsgs
  <2>13. FwComing'
    BY <1>0, <1>20 DEF FwDies, FwComing, FwSilent, FwOff, DumpDone, ExcRecovery, RxRecovery, NoUser, Recovering,
       TrunkNext, TrunkFirst, Undriven, InReset, CpShape, CpSaid
  <2>14. TrunkFirst' BY <1>0, <1>20 DEF FwDies, TrunkFirst, FwSilent, Undriven, CpSaid, CpMsgs
  <2>15. ExcRecovery'
    BY <1>0, <1>20 DEF FwDies, ExcRecovery, FwComing, FwSilent, FwOff, RxRecovery, InReset, TrunkNext, Undriven
  <2>16. DumpDone'
    BY <1>0, <1>20 DEF FwDies, DumpDone, RxRecovery, FwComing, FwSilent, FwOff, InReset, TrunkNext, TrunkFirst,
       Undriven, NoUser, Recovering, CpShape, CpSaid
  <2>17. IrqTrue'
    BY <1>0, <1>20 DEF FwDies, IrqTrue, ExcRecovery, RxRecovery, NoUser, Recovering, IrqHeld, Once, InReset,
       Undriven
  <2> QED BY <2>1, <2>2, <2>3, <2>4, <2>5, <2>6, <2>7, <2>8, <2>9, <2>10, <2>11, <2>12, <2>13, <2>14,
       <2>15, <2>16, <2>17 DEF CpInv
<1>21. ASSUME NEW s \in Services, HearReady(s) PROVE CpInv'
  <2>1. CpShape' BY <1>0, <1>21 DEF HearReady, Hear, Waits, CpShape
  <2>2. CpSaid' BY <1>0, <1>21 DEF HearReady, Hear, Waits, CpSaid, CpMsgs
  <2>3. CpPlaces' BY <1>0, <1>21 DEF HearReady, Hear, Waits, CpPcs, Recovering
  <2>4. CpOps' BY <1>0, <1>21 DEF HearReady, Hear, Waits, CpOps
  <2>5. CpHistory' BY <1>0, <1>21 DEF HearReady, Hear, Waits
  <2>6. BootHeld' BY <1>0, <1>21 DEF HearReady, Hear, Waits, BootHeld
  <2>7. ReadyOK' BY <1>0, <1>21 DEF HearReady, Hear, Waits, ReadyOK, Answered, BootHeld, CpOps, Waits
  <2>8. RxRecovery' BY <1>0, <1>21 DEF HearReady, Hear, Waits, RxRecovery, InReset
  <2>9. IrqHeld' BY <1>0, <1>21 DEF HearReady, Hear, Waits, IrqHeld, Once, InReset
  <2>10. NoUser' BY <1>0, <1>21 DEF HearReady, Hear, Waits, NoUser, Undriven, Recovering, ExcRecovery
  <2>11. FwOff'
    BY <1>0, <1>21 DEF HearReady, Hear, Waits, FwOff, NoUser, Recovering, ExcRecovery, RxRecovery, Undriven,
       InReset
  <2>12. FwSilent'
    BY <1>0, <1>21 DEF HearReady, Hear, Waits, FwSilent, FwOff, NoUser, Recovering, Undriven, InReset, CpSaid,
       CpMsgs
  <2>13. FwComing'
    BY <1>0, <1>21 DEF HearReady, Hear, Waits, FwComing, FwSilent, FwOff, DumpDone, ExcRecovery, RxRecovery,
       NoUser, Recovering, TrunkNext, TrunkFirst, Undriven, InReset, CpShape, CpSaid
  <2>14. TrunkFirst'
    BY <1>0, <1>21 DEF HearReady, Hear, Waits, TrunkFirst, FwSilent, Undriven, CpSaid, CpMsgs
  <2>15. ExcRecovery'
    BY <1>0, <1>21 DEF HearReady, Hear, Waits, ExcRecovery, FwComing, FwSilent, FwOff, RxRecovery, InReset,
       TrunkNext, Undriven
  <2>16. DumpDone'
    BY <1>0, <1>21 DEF HearReady, Hear, Waits, DumpDone, RxRecovery, FwComing, FwSilent, FwOff, InReset,
       TrunkNext, TrunkFirst, Undriven, NoUser, Recovering, CpShape, CpSaid
  <2>17. IrqTrue'
    BY <1>0, <1>21 DEF HearReady, Hear, Waits, IrqTrue, ExcRecovery, RxRecovery, NoUser, Recovering, IrqHeld,
       Once, InReset, Undriven
  <2> QED BY <2>1, <2>2, <2>3, <2>4, <2>5, <2>6, <2>7, <2>8, <2>9, <2>10, <2>11, <2>12, <2>13, <2>14,
       <2>15, <2>16, <2>17 DEF CpInv
<1>22. CASE HearTrunk
  <2>1. CpShape' BY <1>0, <1>22 DEF HearTrunk, Hear, Waits, CpShape
  <2>2. CpSaid' BY <1>0, <1>22 DEF HearTrunk, Hear, Waits, CpSaid, CpMsgs
  <2>3. CpPlaces' BY <1>0, <1>22 DEF HearTrunk, Hear, Waits, CpPcs, Recovering
  <2>4. CpOps' BY <1>0, <1>22 DEF HearTrunk, Hear, Waits, CpOps
  <2>5. CpHistory' BY <1>0, <1>22 DEF HearTrunk, Hear, Waits
  <2>6. BootHeld' BY <1>0, <1>22 DEF HearTrunk, Hear, Waits, BootHeld
  <2>7. ReadyOK' BY <1>0, <1>22 DEF HearTrunk, Hear, Waits, ReadyOK, Answered, BootHeld, CpOps, Waits
  <2>8. RxRecovery' BY <1>0, <1>22 DEF HearTrunk, Hear, Waits, RxRecovery, InReset
  <2>9. IrqHeld' BY <1>0, <1>22 DEF HearTrunk, Hear, Waits, IrqHeld, Once, InReset
  <2>10. NoUser' BY <1>0, <1>22 DEF HearTrunk, Hear, Waits, NoUser, Undriven, Recovering, ExcRecovery
  <2>11. FwOff'
    BY <1>0, <1>22 DEF HearTrunk, Hear, Waits, FwOff, NoUser, Recovering, ExcRecovery, RxRecovery, Undriven,
       InReset
  <2>12. FwSilent'
    BY <1>0, <1>22 DEF HearTrunk, Hear, Waits, FwSilent, FwOff, NoUser, Recovering, Undriven, InReset, CpSaid,
       CpMsgs
  <2>13. FwComing'
    BY SMTT(20), <1>0, <1>22 DEF HearTrunk, Hear, Waits, FwComing, FwSilent, FwOff, DumpDone, ExcRecovery,
       RxRecovery, NoUser, Recovering, TrunkNext, TrunkFirst, Undriven, InReset, CpShape, CpSaid
  <2>14. TrunkFirst'
    BY <1>0, <1>22 DEF HearTrunk, Hear, Waits, TrunkFirst, FwSilent, Undriven, CpSaid, CpMsgs
  <2>15. ExcRecovery'
    BY <1>0, <1>22 DEF HearTrunk, Hear, Waits, ExcRecovery, FwComing, FwSilent, FwOff, RxRecovery, InReset,
       TrunkNext, Undriven
  <2>16. DumpDone'
    BY <1>0, <1>22 DEF HearTrunk, Hear, Waits, DumpDone, RxRecovery, FwComing, FwSilent, FwOff, InReset,
       TrunkNext, TrunkFirst, Undriven, NoUser, Recovering, CpShape, CpSaid
  <2>17. IrqTrue'
    BY <1>0, <1>22 DEF HearTrunk, Hear, Waits, IrqTrue, ExcRecovery, RxRecovery, NoUser, Recovering, IrqHeld,
       Once, InReset, Undriven
  <2> QED BY <2>1, <2>2, <2>3, <2>4, <2>5, <2>6, <2>7, <2>8, <2>9, <2>10, <2>11, <2>12, <2>13, <2>14,
       <2>15, <2>16, <2>17 DEF CpInv
<1>23. CASE HearAssert
  <2>1. CpShape' BY <1>0, <1>23 DEF HearAssert, Hear, CpShape
  <2>2. CpSaid' BY <1>0, <1>23 DEF HearAssert, Hear, CpSaid, CpMsgs
  <2>3. CpPlaces' BY <1>0, <1>23 DEF HearAssert, Hear, CpPcs, Recovering
  <2>4. CpOps' BY <1>0, <1>23 DEF HearAssert, Hear, CpOps
  <2>5. CpHistory' BY <1>0, <1>23 DEF HearAssert, Hear
  <2>6. BootHeld' BY <1>0, <1>23 DEF HearAssert, Hear, BootHeld
  <2>7. ReadyOK' BY <1>0, <1>23 DEF HearAssert, Hear, ReadyOK, Answered, BootHeld, CpOps, Waits
  <2>8. RxRecovery' BY <1>0, <1>23 DEF HearAssert, Hear, RxRecovery, InReset
  <2>9. IrqHeld' BY <1>0, <1>23 DEF HearAssert, Hear, IrqHeld, Once, InReset
  <2>10. NoUser' BY <1>0, <1>23 DEF HearAssert, Hear, NoUser, Undriven, Recovering, ExcRecovery
  <2>11. FwOff'
    BY <1>0, <1>23 DEF HearAssert, Hear, FwOff, NoUser, Recovering, ExcRecovery, RxRecovery, Undriven, InReset
  <2>12. FwSilent'
    BY <1>0, <1>23 DEF HearAssert, Hear, FwSilent, FwOff, NoUser, Recovering, Undriven, InReset, CpSaid, CpMsgs
  <2>13. FwComing'
    BY <1>0, <1>23 DEF HearAssert, Hear, FwComing, FwSilent, FwOff, DumpDone, ExcRecovery, RxRecovery, NoUser,
       Recovering, TrunkNext, TrunkFirst, Undriven, InReset, CpShape, CpSaid
  <2>14. TrunkFirst'
    BY <1>0, <1>23 DEF HearAssert, Hear, TrunkFirst, FwSilent, Undriven, CpSaid, CpMsgs
  <2>15. ExcRecovery'
    BY <1>0, <1>23 DEF HearAssert, Hear, ExcRecovery, FwComing, FwSilent, FwOff, RxRecovery, InReset, TrunkNext,
       Undriven
  <2>16. DumpDone'
    BY <1>0, <1>23 DEF HearAssert, Hear, DumpDone, RxRecovery, FwComing, FwSilent, FwOff, InReset, TrunkNext,
       TrunkFirst, Undriven, NoUser, Recovering, CpShape, CpSaid
  <2>17. IrqTrue'
    BY <1>0, <1>23 DEF HearAssert, Hear, IrqTrue, ExcRecovery, RxRecovery, NoUser, Recovering, IrqHeld, Once,
       InReset, Undriven
  <2> QED BY <2>1, <2>2, <2>3, <2>4, <2>5, <2>6, <2>7, <2>8, <2>9, <2>10, <2>11, <2>12, <2>13, <2>14,
       <2>15, <2>16, <2>17 DEF CpInv
<1>24. CASE RxAssert
  <2>1. CpShape' BY <1>0, <1>24 DEF RxAssert, CpShape
  <2>2. CpSaid' BY <1>0, <1>24 DEF RxAssert, CpSaid, CpMsgs
  <2>3. CpPlaces' BY <1>0, <1>24 DEF RxAssert, CpPcs, Recovering
  <2>4. CpOps' BY <1>0, <1>24 DEF RxAssert, CpOps
  <2>5. CpHistory' BY <1>0, <1>24 DEF RxAssert
  <2>6. BootHeld' BY <1>0, <1>24 DEF RxAssert, BootHeld
  <2>7. ReadyOK' BY <1>0, <1>24 DEF RxAssert, ReadyOK, Answered, BootHeld, CpOps, Waits
  <2>8. RxRecovery' BY <1>0, <1>24 DEF RxAssert, RxRecovery, InReset
  <2>9. IrqHeld' BY <1>0, <1>24 DEF RxAssert, IrqHeld, Once, InReset
  <2>10. NoUser' BY <1>0, <1>24 DEF RxAssert, NoUser, Undriven, Recovering, ExcRecovery
  <2>11. FwOff'
    BY <1>0, <1>24 DEF RxAssert, FwOff, NoUser, Recovering, ExcRecovery, RxRecovery, Undriven, InReset
  <2>12. FwSilent'
    BY <1>0, <1>24 DEF RxAssert, FwSilent, FwOff, NoUser, Recovering, Undriven, InReset, CpSaid, CpMsgs
  <2>13. FwComing'
    BY <1>0, <1>24 DEF RxAssert, FwComing, FwSilent, FwOff, DumpDone, ExcRecovery, RxRecovery, NoUser, Recovering,
       TrunkNext, TrunkFirst, Undriven, InReset, CpShape, CpSaid
  <2>14. TrunkFirst' BY <1>0, <1>24 DEF RxAssert, TrunkFirst, FwSilent, Undriven, CpSaid, CpMsgs
  <2>15. ExcRecovery'
    BY <1>0, <1>24 DEF RxAssert, ExcRecovery, FwComing, FwSilent, FwOff, RxRecovery, InReset, TrunkNext, Undriven
  <2>16. DumpDone'
    BY <1>0, <1>24 DEF RxAssert, DumpDone, RxRecovery, FwComing, FwSilent, FwOff, InReset, TrunkNext, TrunkFirst,
       Undriven, NoUser, Recovering, CpShape, CpSaid
  <2>17. IrqTrue'
    BY <1>0, <1>24 DEF RxAssert, IrqTrue, ExcRecovery, RxRecovery, NoUser, Recovering, IrqHeld, Once, InReset,
       Undriven
  <2> QED BY <2>1, <2>2, <2>3, <2>4, <2>5, <2>6, <2>7, <2>8, <2>9, <2>10, <2>11, <2>12, <2>13, <2>14,
       <2>15, <2>16, <2>17 DEF CpInv
<1>25. CASE HearDump
  <2>1. CpShape' BY <1>0, <1>25 DEF HearDump, Hear, CpShape
  <2>2. CpSaid' BY <1>0, <1>25 DEF HearDump, Hear, CpSaid, CpMsgs
  <2>3. CpPlaces' BY <1>0, <1>25 DEF HearDump, Hear, CpPcs, Recovering
  <2>4. CpOps' BY <1>0, <1>25 DEF HearDump, Hear, CpOps
  <2>5. CpHistory' BY <1>0, <1>25 DEF HearDump, Hear
  <2>6. BootHeld' BY <1>0, <1>25 DEF HearDump, Hear, BootHeld
  <2>7. ReadyOK' BY <1>0, <1>25 DEF HearDump, Hear, ReadyOK, Answered, BootHeld, CpOps, Waits
  <2>8. RxRecovery' BY <1>0, <1>25 DEF HearDump, Hear, RxRecovery, InReset
  <2>9. IrqHeld' BY <1>0, <1>25 DEF HearDump, Hear, IrqHeld, Once, InReset
  <2>10. NoUser' BY <1>0, <1>25 DEF HearDump, Hear, NoUser, Undriven, Recovering, ExcRecovery
  <2>11. FwOff'
    BY <1>0, <1>25 DEF HearDump, Hear, FwOff, NoUser, Recovering, ExcRecovery, RxRecovery, Undriven, InReset
  <2>12. FwSilent'
    BY <1>0, <1>25 DEF HearDump, Hear, FwSilent, FwOff, NoUser, Recovering, Undriven, InReset, CpSaid, CpMsgs
  <2>13. FwComing'
    BY <1>0, <1>25 DEF HearDump, Hear, FwComing, FwSilent, FwOff, DumpDone, ExcRecovery, RxRecovery, NoUser,
       Recovering, TrunkNext, TrunkFirst, Undriven, InReset, CpShape, CpSaid
  <2>14. TrunkFirst' BY <1>0, <1>25 DEF HearDump, Hear, TrunkFirst, FwSilent, Undriven, CpSaid, CpMsgs
  <2>15. ExcRecovery'
    BY <1>0, <1>25 DEF HearDump, Hear, ExcRecovery, FwComing, FwSilent, FwOff, RxRecovery, InReset, TrunkNext,
       Undriven
  <2>16. DumpDone'
    BY <1>0, <1>25 DEF HearDump, Hear, DumpDone, RxRecovery, FwComing, FwSilent, FwOff, InReset, TrunkNext,
       TrunkFirst, Undriven, NoUser, Recovering, CpShape, CpSaid
  <2>17. IrqTrue'
    BY <1>0, <1>25 DEF HearDump, Hear, IrqTrue, ExcRecovery, RxRecovery, NoUser, Recovering, IrqHeld, Once,
       InReset, Undriven
  <2> QED BY <2>1, <2>2, <2>3, <2>4, <2>5, <2>6, <2>7, <2>8, <2>9, <2>10, <2>11, <2>12, <2>13, <2>14,
       <2>15, <2>16, <2>17 DEF CpInv
<1>26. CASE RxDump
  <2>1. CpShape' BY <1>0, <1>26 DEF RxDump, CpShape
  <2>2. CpSaid' BY <1>0, <1>26 DEF RxDump, CpSaid, CpMsgs
  <2>3. CpPlaces' BY <1>0, <1>26 DEF RxDump, CpPcs, Recovering
  <2>4. CpOps' BY <1>0, <1>26 DEF RxDump, CpOps
  <2>5. CpHistory' BY <1>0, <1>26 DEF RxDump
  <2>6. BootHeld' BY <1>0, <1>26 DEF RxDump, BootHeld
  <2>7. ReadyOK' BY <1>0, <1>26 DEF RxDump, ReadyOK, Answered, BootHeld, CpOps, Waits
  <2>8. RxRecovery' BY <1>0, <1>26 DEF RxDump, RxRecovery, InReset
  <2>9. IrqHeld' BY <1>0, <1>26 DEF RxDump, IrqHeld, Once, InReset
  <2>10. NoUser' BY <1>0, <1>26 DEF RxDump, NoUser, Undriven, Recovering, ExcRecovery
  <2>11. FwOff'
    BY <1>0, <1>26 DEF RxDump, FwOff, NoUser, Recovering, ExcRecovery, RxRecovery, Undriven, InReset
  <2>12. FwSilent'
    BY <1>0, <1>26 DEF RxDump, FwSilent, FwOff, NoUser, Recovering, Undriven, InReset, CpSaid, CpMsgs
  <2>13. FwComing'
    BY <1>0, <1>26 DEF RxDump, FwComing, FwSilent, FwOff, DumpDone, ExcRecovery, RxRecovery, NoUser, Recovering,
       TrunkNext, TrunkFirst, Undriven, InReset, CpShape, CpSaid
  <2>14. TrunkFirst' BY <1>0, <1>26 DEF RxDump, TrunkFirst, FwSilent, Undriven, CpSaid, CpMsgs
  <2>15. ExcRecovery'
    BY <1>0, <1>26 DEF RxDump, ExcRecovery, FwComing, FwSilent, FwOff, RxRecovery, InReset, TrunkNext, Undriven
  <2>16. DumpDone'
    BY <1>0, <1>26 DEF RxDump, DumpDone, RxRecovery, FwComing, FwSilent, FwOff, InReset, TrunkNext, TrunkFirst,
       Undriven, NoUser, Recovering, CpShape, CpSaid
  <2>17. IrqTrue'
    BY <1>0, <1>26 DEF RxDump, IrqTrue, ExcRecovery, RxRecovery, NoUser, Recovering, IrqHeld, Once, InReset,
       Undriven
  <2> QED BY <2>1, <2>2, <2>3, <2>4, <2>5, <2>6, <2>7, <2>8, <2>9, <2>10, <2>11, <2>12, <2>13, <2>14,
       <2>15, <2>16, <2>17 DEF CpInv
<1>27. CASE RxCancel
  <2>1. CpShape' BY <1>0, <1>27 DEF RxCancel, skw_recovery_mode, CpShape
  <2>2. CpSaid' BY <1>0, <1>27 DEF RxCancel, skw_recovery_mode, CpSaid, CpMsgs
  <2>3. CpPlaces' BY <1>0, <1>27 DEF RxCancel, skw_recovery_mode, CpPcs, Recovering
  <2>4. CpOps' BY <1>0, <1>27 DEF RxCancel, skw_recovery_mode, CpOps
  <2>5. CpHistory' BY <1>0, <1>27 DEF RxCancel, skw_recovery_mode
  <2>6. BootHeld' BY <1>0, <1>27 DEF RxCancel, skw_recovery_mode, BootHeld
  <2>7. ReadyOK'
    BY <1>0, <1>27 DEF RxCancel, skw_recovery_mode, ReadyOK, Answered, BootHeld, CpOps, Waits
  <2>8. RxRecovery' BY <1>0, <1>27 DEF RxCancel, skw_recovery_mode, RxRecovery, InReset
  <2>9. IrqHeld' BY <1>0, <1>27 DEF RxCancel, skw_recovery_mode, IrqHeld, Once, InReset
  <2>10. NoUser'
    BY <1>0, <1>27 DEF RxCancel, skw_recovery_mode, NoUser, Undriven, Recovering, ExcRecovery
  <2>11. FwOff'
    BY <1>0, <1>27 DEF RxCancel, skw_recovery_mode, FwOff, NoUser, Recovering, ExcRecovery, RxRecovery, Undriven,
       InReset
  <2>12. FwSilent'
    BY <1>0, <1>27 DEF RxCancel, skw_recovery_mode, FwSilent, FwOff, NoUser, Recovering, Undriven, InReset,
       CpSaid, CpMsgs
  <2>13. FwComing'
    BY <1>0, <1>27 DEF RxCancel, skw_recovery_mode, FwComing, FwSilent, FwOff, DumpDone, ExcRecovery, RxRecovery,
       NoUser, Recovering, TrunkNext, TrunkFirst, Undriven, InReset, CpShape, CpSaid
  <2>14. TrunkFirst'
    BY <1>0, <1>27 DEF RxCancel, skw_recovery_mode, TrunkFirst, FwSilent, Undriven, CpSaid, CpMsgs
  <2>15. ExcRecovery'
    BY <1>0, <1>27 DEF RxCancel, skw_recovery_mode, ExcRecovery, FwComing, FwSilent, FwOff, RxRecovery, InReset,
       TrunkNext, Undriven
  <2>16. DumpDone'
    BY <1>0, <1>27 DEF RxCancel, skw_recovery_mode, DumpDone, RxRecovery, FwComing, FwSilent, FwOff, InReset,
       TrunkNext, TrunkFirst, Undriven, NoUser, Recovering, CpShape, CpSaid
  <2>17. IrqTrue'
    BY <1>0, <1>27 DEF RxCancel, skw_recovery_mode, IrqTrue, ExcRecovery, RxRecovery, NoUser, Recovering, IrqHeld,
       Once, InReset, Undriven
  <2> QED BY <2>1, <2>2, <2>3, <2>4, <2>5, <2>6, <2>7, <2>8, <2>9, <2>10, <2>11, <2>12, <2>13, <2>14,
       <2>15, <2>16, <2>17 DEF CpInv
<1>28. CASE CpRest \/ UNCHANGED cpVars
  <2>1. UNCHANGED cpVars BY <1>28 DEF CpRest
  <2> QED
    BY <1>0, <2>1 DEF CpInv, cpVars, CpShape, CpSaid, CpMsgs, CpPcs, Recovering, CpOps, BootHeld, ReadyOK,
       Answered, Waits, RxRecovery, InReset, IrqHeld, Once, NoUser, Undriven, ExcRecovery, FwOff, FwSilent,
       FwComing, DumpDone, TrunkNext, TrunkFirst, IrqTrue
<1> QED BY <1>1, <1>2, <1>3, <1>4, <1>5, <1>6, <1>7, <1>8, <1>9, <1>10, <1>11, <1>12, <1>13, <1>14,
     <1>15, <1>16, <1>17, <1>18, <1>19, <1>20, <1>21, <1>22, <1>23, <1>24, <1>25, <1>26, <1>27,
     <1>28 DEF CpNext, User, Recover, Except, RxThread

\* The CP has been booted for the first time.
LEMMA CpBegin ==
    ASSUME CpInit
    PROVE  CpInv
<1>1. CpShape /\ CpSaid
  <2>1. /\ cp_state = "ok" /\ service_state_map = {} /\ fw = "up" /\ loopMsgs = <<>>
        /\ except_mutex = "none" /\ boot_mutex = "none"
    BY DEF CpInit
  <2>2. download_done \in BOOLEAN /\ power_off \in BOOLEAN /\ exceptWork \in BOOLEAN BY DEF CpInit
  <2> QED BY <2>1, <2>2 DEF CpShape, CpSaid
<1>6. CpHistory
  <2>1. cpHist = [crossed |-> FALSE, ready |-> FALSE, failed |-> FALSE, user |-> FALSE] BY DEF CpInit
  <2> QED BY <2>1 DEF CpHistory
<1>5. CpPlaces /\ CpOps /\ BootHeld BY DEF CpInit, CpPlaces, CpPcs, CpOps, BootHeld, Actors, Services
<1>2. ReadyOK /\ RxRecovery /\ IrqHeld
  BY DEF CpInit, ReadyOK, RxRecovery, IrqHeld, Once, InReset, Actors, Services
<1>3. NoUser /\ FwOff /\ FwSilent /\ FwComing /\ TrunkFirst
  BY DEF CpInit, NoUser, FwOff, FwSilent, FwComing, TrunkFirst, InReset, Recovering, TrunkNext, Actors, Services
<1>4. ExcRecovery /\ DumpDone /\ IrqTrue
  BY DEF CpInit, ExcRecovery, DumpDone, IrqTrue, Once, InReset, Actors, Services
<1> QED BY <1>1, <1>2, <1>3, <1>4, <1>5, <1>6 DEF CpInv

\* What the invariant says of recoveries, starts and types.
LEMMA CpHolds ==
    ASSUME CpInv
    PROVE  OneRecovery /\ StartedIsReady /\ CpTypeOK
<1>1. OneRecovery
  <2>1. ~(Recovering("exc") /\ Recovering("rx"))
    BY DEF CpInv, RxRecovery, InReset, Recovering, CpPlaces
  <2>2. ASSUME Undriven, \A a \in Actors : ~Recovering(a) PROVE irqDepth = 0
    <3>1. Once("exc") = 0 /\ Once("rx") = 0 BY <2>2 DEF Once, InReset, Recovering, Actors
    <3>2. irqDepth = Once("exc") + Once("rx") BY <2>2 DEF CpInv, IrqTrue
    <3> QED BY <3>1, <3>2
  <2> QED BY <2>1, <2>2 DEF OneRecovery, Undriven
<1>2. StartedIsReady BY DEF StartedIsReady, CpInv, ReadyOK, Answered
<1>3. irqDepth \in Nat
  <2>1. \A a \in Actors : Once(a) \in {0, 1} BY DEF Once
  <2> QED BY <2>1 DEF CpInv, IrqHeld, Actors, Services
<1>4. CpTypeOK BY <1>3 DEF CpInv, CpShape, CpSaid, CpPlaces, CpOps, CpTypeOK
<1> QED BY <1>1, <1>2, <1>4

\* The exception work and the rx thread never recover the CP both at the
\* same time, between recoveries the gpio interrupt is enabled, and a
\* service that has started was told so (skw_boot.c, skw_sdio_main.c).
THEOREM RecoveryIsOne == CpSpec => [](OneRecovery /\ StartedIsReady)
  BY CpBegin, CpStep, CpHolds, PTL DEF CpSpec

-----------------------------------------------------------------------------
\* Boot, services and recovery of the chip over USB.

\* Who hears the first of a sequence, and who says one more.
LEMMA Heard ==
    ASSUME NEW T, NEW m \in Seq(T), m # <<>>
    PROVE  /\ Tail(m) \in Seq(T)
           /\ \A w : Without(m, w) => Without(Tail(m), w) /\ Head(m) # w
<1>1. Len(m) > 0 /\ Head(m) = m[1] OBVIOUS
<1> QED BY <1>1, TailOf DEF Without

\* A word more at the end of what is being said.
LEMMA Said ==
    ASSUME NEW T, NEW m \in Seq(T), NEW v \in T
    PROVE  /\ Append(m, v) \in Seq(T) /\ Append(m, v) # <<>>
           /\ m # <<>> => Head(Append(m, v)) = Head(m)
           /\ \A w : v # w /\ Without(m, w) => Without(Append(m, v), w)
           /\ \A w : v # w /\ m # <<>> /\ Without(Tail(m), w) => Without(Tail(Append(m, v)), w)
<1>1. m # <<>> => Head(Append(m, v)) = Head(m) /\ Tail(Append(m, v)) = Append(Tail(m), v) OBVIOUS
<1>2. m # <<>> => Tail(m) \in Seq(T) OBVIOUS
<1> QED BY <1>1, <1>2, OneMore

\* A multiple of a number is not between zero and that number.
LEMMA NotBetween ==
    ASSUME NEW b \in Nat, b > 0, NEW z \in Int
    PROVE  b * z <= 0 \/ b * z >= b
<1>1. CASE z <= 0 BY <1>1, Z3
<1>2. CASE z >= 1 BY <1>2, Z3
<1> QED BY <1>1, <1>2

\* What divides is a multiple.
LEMMA Divides ==
    ASSUME NEW b \in Int, b > 0, NEW x \in Int, x % b = 0
    PROVE  \E q \in Int : x = b * q
  BY SMT

\* A packet of the image, cut in half where it would end with a full USB
\* packet, does not end with one (usb_download_image): a header is longer
\* than a byte and shorter than a packet.
LEMMA Chunk ==
    ASSUME NEW left \in 1..ImageSize
    PROVE  /\ ChunkSize(left) \in 0..left
           /\ ChunkSize(left) > 0 /\ ChunkSize(left) < DlMps => (ChunkSize(left) + HeaderSize) % Block # 0
<1> DEFINE n == IF DlMps < left THEN DlMps ELSE left
           m == n \div 2
<1>1. /\ Block \in Nat /\ HeaderSize \in Nat /\ 1 < HeaderSize /\ HeaderSize < Block /\ Block > 0
      /\ DlMps \in Nat /\ DlMps > 0 /\ ImageSize \in Nat
  BY UsbAssumption
<1>2. n \in 1..left BY <1>1
<1>3. CASE (n + HeaderSize) % Block = 0 /\ n < DlMps
  <2>1. m \in Nat /\ (n = 2 * m \/ n = 2 * m + 1) BY <1>2
  <2>2. ChunkSize(left) = m BY <1>3 DEF ChunkSize
  <2>3. ASSUME (m + HeaderSize) % Block = 0 PROVE FALSE
    <3>1. PICK q \in Int : n + HeaderSize = Block * q BY <1>1, <1>2, <1>3, Divides
    <3>2. PICK p \in Int : m + HeaderSize = Block * p BY <1>1, <2>1, <2>3, Divides
    <3>3. Block * (2 * p - q) = 2 * (Block * p) - Block * q BY <1>1, Z3
    <3>4. Block * (2 * p - q) = HeaderSize \/ Block * (2 * p - q) = HeaderSize - 1
      <4> HIDE DEF m, n
      <4>1. n \in Int /\ m \in Int BY <1>2, <2>1
      <4> DEFINE x == Block * q
                 y == Block * p
      <4>2. x = n + HeaderSize /\ y = m + HeaderSize BY <3>1, <3>2
      <4>3. Block * (2 * p - q) = 2 * y - x BY <3>3
      <4> HIDE DEF x, y
      <4> QED BY <1>1, <2>1, <4>1, <4>2, <4>3
    <3>5. Block * (2 * p - q) <= 0 \/ Block * (2 * p - q) >= Block BY <1>1, NotBetween
    <3> DEFINE w == Block * (2 * p - q)
    <3> HIDE DEF w
    <3>6. (w = HeaderSize \/ w = HeaderSize - 1) /\ (w <= 0 \/ w >= Block) BY <3>4, <3>5 DEF w
    <3> QED BY <1>1, <3>6
  <2> QED BY <1>2, <2>1, <2>2, <2>3
<1>4. CASE ~((n + HeaderSize) % Block = 0 /\ n < DlMps)
  <2>1. ChunkSize(left) = n BY <1>4 DEF ChunkSize
  <2> QED BY <1>2, <1>4, <2>1
<1> QED BY <1>3, <1>4

UcShape(c) ==
    /\ DOMAIN c = {"status", "cp_state", "map", "port", "wifi", "exc", "done"}
    /\ c.status \in {"off", "on", "halt", "failed"} /\ c.cp_state \in {"ok", "assert", "blocked"}
    /\ c.map \subseteq UsbServices /\ c.port \in {"none", "boot", "io"} /\ c.wifi \in {"none", "alloc", "added"}
    /\ c.exc \in BOOLEAN /\ c.done \in BOOLEAN
UlShape(l) ==
    /\ DOMAIN l = {"loop", "exc", "start", "assert", "img", "offset", "size"}
    /\ l.loop \in {"none", "read", "assert", "dump"} /\ l.exc \in {"idle", "work", "told"}
    /\ l.start \in [UsbServices -> {"idle", "wait"}] /\ l.assert \in {"idle", "queued", "sent"}
UfShape(f) ==
    /\ DOMAIN f = {"fw", "msgs", "ops", "deaths"}
    /\ f.fw \in {"rom", "loaded", "up", "dead"}
UhShape(h) ==
    /\ DOMAIN h = {"reports", "ready", "late", "trunk", "odd"}
    /\ h.trunk \in BOOLEAN
UhCount(h) == h.reports \in Nat
UsbShape == UcShape(uc) /\ UlShape(ul) /\ UfShape(uf) /\ UhShape(uh)
UsbMsgs == {"trunk_W", "BSPASSERT", "BTEXIT"} \union UsbServices
UsbSaid == uf.msgs \in Seq(UsbMsgs)
Packet(l) == /\ l.offset \in 0..ImageSize /\ l.size \in Nat
             /\ l.size > 0 /\ l.size < DlMps => (l.size + HeaderSize) % Block # 0

\* The firmware runs behind the interfaces that it has made; the thread
\* reads there, and first of all that the firmware has come.
IoRuns == uc.port = "io" <=> uf.fw \in {"up", "dead"}
LoopRuns == ul.loop # "none" => uc.port = "io"
UsbTrunk ==
    /\ uc.port = "io" /\ ~uh.trunk => /\ ul.loop = "read" /\ uf.msgs # <<>> /\ Head(uf.msgs) = "trunk_W"
                                     /\ Without(Tail(uf.msgs), "trunk_W")
    /\ uc.port = "io" /\ uh.trunk => Without(uf.msgs, "trunk_W")

\* A life without surprises.  Until the firmware has reported no assertion
\* is sent to it.  One that is taken to be well has no exception work
\* before it, nor has one whose assertion is being handled; one that has
\* work before it, or has been told, is not made to assert.
Plainly == "early" \notin uh.odd /\ "slept" \notin uh.odd
InService == uc.port = "io" /\ uh.trunk
NotSent == Plainly /\ uc.port = "io" /\ ~uh.trunk => ul.assert # "sent"
WellOK == Plainly /\ InService /\ uc.cp_state = "ok" => ~uc.exc /\ ul.exc = "idle" /\ ul.assert # "sent"
AssertOK == Plainly /\ ul.loop = "assert" /\ uc.cp_state # "blocked" => ~uc.exc /\ ul.exc = "idle"
HaltOK == Plainly /\ InService /\ (uc.exc \/ ul.exc # "idle" \/ uc.cp_state = "blocked" \/ uh.reports > 0) =>
              uc.status = "halt"
\* Whoever could tell of a death that was told finds that it was.
ToldOK == Plainly /\ uh.reports > 0 =>
              /\ uh.reports = 1
              /\ uc.cp_state = "assert" => ~uc.exc /\ ul.exc # "work" /\ ul.loop \in {"none", "dump"}
              /\ uc.cp_state = "ok" => uc.port # "io"

\* Who has told of a death forgets the services: what counts as running
\* after that, or without a firmware, did not wait long enough.
Sighted == Plainly /\ "vanished" \notin uh.odd
Forgotten == /\ Sighted /\ uh.reports > 0 /\ uc.cp_state # "ok" /\ ul.exc # "told" /\ ul.loop # "dump" => uc.map \subseteq uh.late
             /\ Sighted /\ uc.port # "io" => uc.map \subseteq uh.late
Reported == uc.port = "io" /\ Sighted /\ "crossed" \notin uh.odd => uc.map \subseteq uh.ready \union uh.late
UsbInv == /\ UsbShape /\ UsbSaid /\ Packet(ul) /\ UhCount(uh) /\ IoRuns /\ LoopRuns /\ UsbTrunk
          /\ NotSent /\ WellOK /\ AssertOK /\ HaltOK /\ ToldOK /\ Forgotten /\ Reported

\* Every step of the chip on a USB bus keeps the invariant.
LEMMA UsbStep ==
    ASSUME UsbInv, [UsbNext]_usbVars
    PROVE  UsbInv'
<1> USE DEF UsbShape, UcShape, UlShape, UfShape, UhShape
<1>0. UsbShape /\ UsbSaid /\ Packet(ul) /\ UhCount(uh) /\ IoRuns /\ LoopRuns /\ UsbTrunk /\ NotSent /\ WellOK /\ AssertOK /\ HaltOK /\ ToldOK /\ Forgotten /\ Reported
  BY DEF UsbInv
<1>1. CASE ProbeBoot
  <2>1. UsbShape' BY <1>0, <1>1 DEF ProbeBoot, UsbServices
  <2>2. UsbSaid' BY <1>0, <1>1 DEF ProbeBoot, UsbSaid, UsbMsgs, UsbServices
  <2>3. Packet(ul)' BY <1>0, <1>1, UsbAssumption DEF ProbeBoot, Packet
  <2>4. UhCount(uh)' BY <1>0, <1>1 DEF ProbeBoot, UhCount
  <2>5. IoRuns' BY <1>0, <1>1 DEF ProbeBoot, IoRuns
  <2>6. LoopRuns' BY <1>0, <1>1 DEF ProbeBoot, LoopRuns, IoRuns
  <2>7. UsbTrunk' BY <1>0, <1>1 DEF ProbeBoot, UsbTrunk, IoRuns, LoopRuns
  <2>8. NotSent' BY <1>0, <1>1 DEF ProbeBoot, NotSent, Plainly, UsbTrunk
  <2>9. WellOK' BY <1>0, <1>1 DEF ProbeBoot, WellOK, NotSent, InService, Plainly, IoRuns
  <2>10. AssertOK'
    BY <1>0, <1>1 DEF ProbeBoot, AssertOK, WellOK, InService, UsbTrunk, LoopRuns, Plainly
  <2>11. HaltOK'
    BY <1>0, <1>1 DEF ProbeBoot, HaltOK, UsbTrunk, InService, LoopRuns, IoRuns, Plainly, UhCount
  <2>12. ToldOK'
    BY <1>0, <1>1 DEF ProbeBoot, ToldOK, AssertOK, WellOK, HaltOK, InService, LoopRuns, Plainly, UhCount
  <2>13. Forgotten'
    BY <1>0, <1>1 DEF ProbeBoot, Forgotten, Sighted, ToldOK, LoopRuns, Plainly, UhCount, UsbServices
  <2>14. Reported' BY <1>0, <1>1 DEF ProbeBoot, Reported, Forgotten, Sighted, Plainly, UsbServices
  <2> QED
    BY <2>1, <2>2, <2>3, <2>4, <2>5, <2>6, <2>7, <2>8, <2>9, <2>10, <2>11, <2>12, <2>13, <2>14 DEF UsbInv
<1>2. CASE usb_download_image
  <2>1. CASE ul.offset = ImageSize
    <3>1. /\ uc' = uc /\ uf' = uf /\ uh' = uh /\ ul' = [ul EXCEPT !.img = @ - 1, !.offset = 0]
      BY <1>2, <2>1 DEF usb_download_image
    <3>2. UsbShape' BY <1>0, <2>1, <3>1 DEF UsbServices
    <3>3. UsbSaid' BY <1>0, <2>1, <3>1 DEF UsbSaid, UsbMsgs, UsbServices
    <3>4. Packet(ul)' BY <1>0, <3>1, UsbAssumption DEF Packet
    <3>5. UhCount(uh)' BY <1>0, <2>1, <3>1 DEF UhCount
    <3>6. IoRuns' BY <1>0, <2>1, <3>1 DEF IoRuns
    <3>7. LoopRuns' BY <1>0, <2>1, <3>1 DEF LoopRuns, IoRuns
    <3>8. UsbTrunk' BY <1>0, <2>1, <3>1 DEF UsbTrunk, IoRuns, LoopRuns
    <3>9. NotSent' BY <1>0, <2>1, <3>1 DEF NotSent, Plainly, UsbTrunk
    <3>10. WellOK' BY <1>0, <2>1, <3>1 DEF WellOK, NotSent, InService, Plainly, IoRuns
    <3>11. AssertOK' BY <1>0, <2>1, <3>1 DEF AssertOK, WellOK, InService, UsbTrunk, LoopRuns, Plainly
    <3>12. HaltOK'
      BY <1>0, <2>1, <3>1 DEF HaltOK, UsbTrunk, InService, LoopRuns, IoRuns, Plainly, UhCount
    <3>13. ToldOK'
      BY <1>0, <2>1, <3>1 DEF ToldOK, AssertOK, WellOK, HaltOK, InService, LoopRuns, Plainly, UhCount
    <3>14. Forgotten'
      BY <1>0, <2>1, <3>1 DEF Forgotten, Sighted, ToldOK, LoopRuns, Plainly, UhCount, UsbServices
    <3>15. Reported' BY <1>0, <2>1, <3>1 DEF Reported, Forgotten, Sighted, Plainly, UsbServices
    <3> QED BY <3>2, <3>3, <3>4, <3>5, <3>6, <3>7, <3>8, <3>9, <3>10, <3>11, <3>12, <3>13, <3>14,
         <3>15 DEF UsbInv
  <2>2. CASE ~(ul.offset = ImageSize)
    <3>1. ImageSize - ul.offset \in 1..ImageSize BY <1>0, <2>2, UsbAssumption DEF Packet
    <3>2. PICK n \in 0..(ImageSize - ul.offset) :
              /\ n > 0 /\ n < DlMps => (n + HeaderSize) % Block # 0
              /\ ul' = [ul EXCEPT !.offset = @ + n, !.size = n]
      BY <1>2, <2>2, <3>1, Chunk DEF usb_download_image
    <3>3. UsbShape' BY <1>0, <1>2, <2>2, <3>1, <3>2 DEF usb_download_image, UsbServices
    <3>4. UsbSaid'
      BY <1>0, <1>2, <2>2, <3>1, <3>2 DEF usb_download_image, UsbSaid, UsbMsgs, UsbServices
    <3>5. Packet(ul)'
      <4>1. ul'.offset = ul.offset + n /\ ul'.size = n BY <1>0, <3>2
      <4>2. ul.offset \in 0..ImageSize /\ ImageSize \in Nat /\ n \in 0..(ImageSize - ul.offset)
        BY <1>0, <3>2, UsbAssumption DEF Packet
      <4>3. ul.offset + n \in 0..ImageSize /\ n \in Nat BY <4>2
      <4> QED BY <3>2, <4>1, <4>3 DEF Packet
    <3>6. UhCount(uh)' BY <1>0, <1>2, <2>2, <3>1, <3>2 DEF usb_download_image, UhCount
    <3>7. IoRuns' BY <1>0, <1>2, <2>2, <3>1, <3>2 DEF usb_download_image, IoRuns
    <3>8. LoopRuns' BY <1>0, <1>2, <2>2, <3>1, <3>2 DEF usb_download_image, LoopRuns, IoRuns
    <3>9. UsbTrunk' BY <1>0, <1>2, <2>2, <3>1, <3>2 DEF usb_download_image, UsbTrunk, IoRuns, LoopRuns
    <3>10. NotSent' BY <1>0, <1>2, <2>2, <3>1, <3>2 DEF usb_download_image, NotSent, Plainly, UsbTrunk
    <3>11. WellOK'
      BY <1>0, <1>2, <2>2, <3>1, <3>2 DEF usb_download_image, WellOK, NotSent, InService, Plainly, IoRuns
    <3>12. AssertOK'
      BY <1>0, <1>2, <2>2, <3>1, <3>2 DEF usb_download_image, AssertOK, WellOK, InService, UsbTrunk, LoopRuns,
         Plainly
    <3>13. HaltOK'
      BY <1>0, <1>2, <2>2, <3>1, <3>2 DEF usb_download_image, HaltOK, UsbTrunk, InService, LoopRuns, IoRuns,
         Plainly, UhCount
    <3>14. ToldOK'
      BY <1>0, <1>2, <2>2, <3>1, <3>2 DEF usb_download_image, ToldOK, AssertOK, WellOK, HaltOK, InService,
         LoopRuns, Plainly, UhCount
    <3>15. Forgotten'
      BY <1>0, <1>2, <2>2, <3>1, <3>2 DEF usb_download_image, Forgotten, Sighted, ToldOK, LoopRuns, Plainly,
         UhCount, UsbServices
    <3>16. Reported'
      BY <1>0, <1>2, <2>2, <3>1, <3>2 DEF usb_download_image, Reported, Forgotten, Sighted, Plainly, UsbServices
    <3> QED BY <3>3, <3>4, <3>5, <3>6, <3>7, <3>8, <3>9, <3>10, <3>11, <3>12, <3>13, <3>14, <3>15,
         <3>16 DEF UsbInv
  <2> QED BY <2>1, <2>2
<1>3. CASE DownloadFails
  <2>1. UsbShape' BY <1>0, <1>3 DEF DownloadFails, Odd, Tell, Dies, UsbServices
  <2>2. UsbSaid' BY <1>0, <1>3 DEF DownloadFails, Odd, Tell, Dies, UsbSaid, UsbMsgs, UsbServices
  <2>3. Packet(ul)' BY <1>0, <1>3, UsbAssumption DEF DownloadFails, Packet
  <2>4. UhCount(uh)' BY <1>0, <1>3 DEF DownloadFails, Odd, Tell, Dies, UhCount
  <2>5. IoRuns' BY <1>0, <1>3 DEF DownloadFails, Odd, Tell, Dies, IoRuns
  <2>6. LoopRuns' BY <1>0, <1>3 DEF DownloadFails, Odd, Tell, Dies, LoopRuns, IoRuns
  <2>7. UsbTrunk' BY <1>0, <1>3 DEF DownloadFails, Odd, Tell, Dies, UsbTrunk, IoRuns, LoopRuns
  <2>8. NotSent' BY <1>0, <1>3 DEF DownloadFails, Odd, Tell, Dies, NotSent, Plainly, UsbTrunk
  <2>9. WellOK'
    BY <1>0, <1>3 DEF DownloadFails, Odd, Tell, Dies, WellOK, NotSent, InService, Plainly, IoRuns
  <2>10. AssertOK'
    BY <1>0, <1>3 DEF DownloadFails, Odd, Tell, Dies, AssertOK, WellOK, InService, UsbTrunk, LoopRuns, Plainly
  <2>11. HaltOK'
    BY <1>0, <1>3 DEF DownloadFails, Odd, Tell, Dies, HaltOK, UsbTrunk, InService, LoopRuns, IoRuns, Plainly,
       UhCount
  <2>12. ToldOK'
    BY <1>0, <1>3 DEF DownloadFails, Odd, Tell, Dies, ToldOK, AssertOK, WellOK, HaltOK, InService, LoopRuns,
       Plainly, UhCount
  <2>13. Forgotten'
    BY <1>0, <1>3 DEF DownloadFails, Odd, Tell, Dies, Forgotten, Sighted, ToldOK, LoopRuns, Plainly, UhCount,
       UsbServices
  <2>14. Reported'
    BY <1>0, <1>3 DEF DownloadFails, Odd, Tell, Dies, Reported, Forgotten, Sighted, Plainly, UsbServices
  <2> QED
    BY <2>1, <2>2, <2>3, <2>4, <2>5, <2>6, <2>7, <2>8, <2>9, <2>10, <2>11, <2>12, <2>13, <2>14 DEF UsbInv
<1>4. CASE dloader_execute_image
  <2>1. UsbShape' BY <1>0, <1>4 DEF dloader_execute_image, UsbServices
  <2>2. UsbSaid' BY <1>0, <1>4 DEF dloader_execute_image, UsbSaid, UsbMsgs, UsbServices
  <2>3. Packet(ul)' BY <1>0, <1>4 DEF dloader_execute_image, Packet
  <2>4. UhCount(uh)' BY <1>0, <1>4 DEF dloader_execute_image, UhCount
  <2>5. IoRuns' BY <1>0, <1>4 DEF dloader_execute_image, IoRuns
  <2>6. LoopRuns' BY <1>0, <1>4 DEF dloader_execute_image, LoopRuns, IoRuns
  <2>7. UsbTrunk' BY <1>0, <1>4 DEF dloader_execute_image, UsbTrunk, IoRuns, LoopRuns
  <2>8. NotSent' BY <1>0, <1>4 DEF dloader_execute_image, NotSent, Plainly, UsbTrunk
  <2>9. WellOK' BY <1>0, <1>4 DEF dloader_execute_image, WellOK, NotSent, InService, Plainly, IoRuns
  <2>10. AssertOK'
    BY <1>0, <1>4 DEF dloader_execute_image, AssertOK, WellOK, InService, UsbTrunk, LoopRuns, Plainly
  <2>11. HaltOK'
    BY <1>0, <1>4 DEF dloader_execute_image, HaltOK, UsbTrunk, InService, LoopRuns, IoRuns, Plainly, UhCount
  <2>12. ToldOK'
    BY <1>0, <1>4 DEF dloader_execute_image, ToldOK, AssertOK, WellOK, HaltOK, InService, LoopRuns, Plainly,
       UhCount
  <2>13. Forgotten'
    BY <1>0, <1>4 DEF dloader_execute_image, Forgotten, Sighted, ToldOK, LoopRuns, Plainly, UhCount, UsbServices
  <2>14. Reported'
    BY <1>0, <1>4 DEF dloader_execute_image, Reported, Forgotten, Sighted, Plainly, UsbServices
  <2> QED
    BY <2>1, <2>2, <2>3, <2>4, <2>5, <2>6, <2>7, <2>8, <2>9, <2>10, <2>11, <2>12, <2>13, <2>14 DEF UsbInv
<1>5. CASE BootGone
  <2>1. UsbShape' BY <1>0, <1>5 DEF BootGone, UsbServices
  <2>2. UsbSaid' BY <1>0, <1>5 DEF BootGone, UsbSaid, UsbMsgs, UsbServices
  <2>3. Packet(ul)' BY <1>0, <1>5 DEF BootGone, Packet
  <2>4. UhCount(uh)' BY <1>0, <1>5 DEF BootGone, UhCount
  <2>5. IoRuns' BY <1>0, <1>5 DEF BootGone, IoRuns
  <2>6. LoopRuns' BY <1>0, <1>5 DEF BootGone, LoopRuns, IoRuns
  <2>7. UsbTrunk' BY <1>0, <1>5 DEF BootGone, UsbTrunk, IoRuns, LoopRuns
  <2>8. NotSent' BY <1>0, <1>5 DEF BootGone, NotSent, Plainly, UsbTrunk
  <2>9. WellOK' BY <1>0, <1>5 DEF BootGone, WellOK, NotSent, InService, Plainly, IoRuns
  <2>10. AssertOK'
    BY <1>0, <1>5 DEF BootGone, AssertOK, WellOK, InService, UsbTrunk, LoopRuns, Plainly
  <2>11. HaltOK'
    BY <1>0, <1>5 DEF BootGone, HaltOK, UsbTrunk, InService, LoopRuns, IoRuns, Plainly, UhCount
  <2>12. ToldOK'
    BY <1>0, <1>5 DEF BootGone, ToldOK, AssertOK, WellOK, HaltOK, InService, LoopRuns, Plainly, UhCount
  <2>13. Forgotten'
    BY <1>0, <1>5 DEF BootGone, Forgotten, Sighted, ToldOK, LoopRuns, Plainly, UhCount, UsbServices
  <2>14. Reported' BY <1>0, <1>5 DEF BootGone, Reported, Forgotten, Sighted, Plainly, UsbServices
  <2> QED
    BY <2>1, <2>2, <2>3, <2>4, <2>5, <2>6, <2>7, <2>8, <2>9, <2>10, <2>11, <2>12, <2>13, <2>14 DEF UsbInv
<1>6. CASE skw_usb_io_probe
  <2>1. uf'.msgs = <<"trunk_W">> /\ Tail(<<"trunk_W">>) = <<>> BY <1>0, <1>6 DEF skw_usb_io_probe
  <2>2. Without(<<>>, "trunk_W") BY DEF Without
  <2>3. UsbShape' BY <1>0, <1>6, <2>1, <2>2 DEF skw_usb_io_probe, ProbeWifi, UsbServices
  <2>4. UsbSaid'
    BY <1>0, <1>6, <2>1, <2>2 DEF skw_usb_io_probe, ProbeWifi, UsbSaid, UsbMsgs, UsbServices
  <2>5. Packet(ul)' BY <1>0, <1>6, <2>1, <2>2 DEF skw_usb_io_probe, ProbeWifi, Packet
  <2>6. UhCount(uh)' BY <1>0, <1>6, <2>1, <2>2 DEF skw_usb_io_probe, ProbeWifi, UhCount
  <2>7. IoRuns' BY <1>0, <1>6, <2>1, <2>2 DEF skw_usb_io_probe, ProbeWifi, IoRuns
  <2>8. LoopRuns' BY <1>0, <1>6, <2>1, <2>2 DEF skw_usb_io_probe, ProbeWifi, LoopRuns, IoRuns
  <2>9. UsbTrunk'
    BY <1>0, <1>6, <2>1, <2>2 DEF skw_usb_io_probe, ProbeWifi, UsbTrunk, IoRuns, LoopRuns
  <2>10. NotSent'
    BY <1>0, <1>6, <2>1, <2>2 DEF skw_usb_io_probe, ProbeWifi, NotSent, Plainly, UsbTrunk
  <2>11. WellOK'
    BY <1>0, <1>6, <2>1, <2>2 DEF skw_usb_io_probe, ProbeWifi, WellOK, NotSent, InService, Plainly, IoRuns
  <2>12. AssertOK'
    BY <1>0, <1>6, <2>1, <2>2 DEF skw_usb_io_probe, ProbeWifi, AssertOK, WellOK, InService, UsbTrunk, LoopRuns,
       Plainly
  <2>13. HaltOK'
    BY <1>0, <1>6, <2>1, <2>2 DEF skw_usb_io_probe, ProbeWifi, HaltOK, UsbTrunk, InService, LoopRuns, IoRuns,
       Plainly, UhCount
  <2>14. ToldOK'
    BY <1>0, <1>6, <2>1, <2>2 DEF skw_usb_io_probe, ProbeWifi, ToldOK, AssertOK, WellOK, HaltOK, InService,
       LoopRuns, Plainly, UhCount
  <2>15. Forgotten'
    BY <1>0, <1>6, <2>1, <2>2 DEF skw_usb_io_probe, ProbeWifi, Forgotten, Sighted, ToldOK, LoopRuns, Plainly,
       UhCount, UsbServices
  <2>16. Reported'
    BY <1>0, <1>6, <2>1, <2>2 DEF skw_usb_io_probe, ProbeWifi, Reported, Forgotten, Sighted, Plainly, UsbServices
  <2> QED
    BY <2>3, <2>4, <2>5, <2>6, <2>7, <2>8, <2>9, <2>10, <2>11, <2>12, <2>13, <2>14, <2>15, <2>16 DEF UsbInv
<1>7. CASE UsbDisconnect
  <2>1. UsbShape' BY <1>0, <1>7 DEF UsbDisconnect, Odd, Tell, Dies, UsbServices
  <2>2. UsbSaid' BY <1>0, <1>7 DEF UsbDisconnect, Odd, Tell, Dies, UsbSaid, UsbMsgs, UsbServices
  <2>3. Packet(ul)' BY <1>0, <1>7 DEF UsbDisconnect, Odd, Tell, Dies, Packet
  <2>4. UhCount(uh)' BY <1>0, <1>7 DEF UsbDisconnect, Odd, Tell, Dies, UhCount
  <2>5. IoRuns' BY <1>0, <1>7 DEF UsbDisconnect, Odd, Tell, Dies, IoRuns
  <2>6. LoopRuns' BY <1>0, <1>7 DEF UsbDisconnect, Odd, Tell, Dies, LoopRuns, IoRuns
  <2>7. UsbTrunk' BY <1>0, <1>7 DEF UsbDisconnect, Odd, Tell, Dies, UsbTrunk, IoRuns, LoopRuns
  <2>8. NotSent' BY <1>0, <1>7 DEF UsbDisconnect, Odd, Tell, Dies, NotSent, Plainly, UsbTrunk
  <2>9. WellOK'
    BY <1>0, <1>7 DEF UsbDisconnect, Odd, Tell, Dies, WellOK, NotSent, InService, Plainly, IoRuns
  <2>10. AssertOK'
    BY <1>0, <1>7 DEF UsbDisconnect, Odd, Tell, Dies, AssertOK, WellOK, InService, UsbTrunk, LoopRuns, Plainly
  <2>11. HaltOK'
    BY <1>0, <1>7 DEF UsbDisconnect, Odd, Tell, Dies, HaltOK, UsbTrunk, InService, LoopRuns, IoRuns, Plainly,
       UhCount
  <2>12. ToldOK'
    BY <1>0, <1>7 DEF UsbDisconnect, Odd, Tell, Dies, ToldOK, AssertOK, WellOK, HaltOK, InService, LoopRuns,
       Plainly, UhCount
  <2>13. Forgotten'
    BY <1>0, <1>7 DEF UsbDisconnect, Odd, Tell, Dies, Forgotten, Sighted, ToldOK, LoopRuns, Plainly, UhCount,
       UsbServices
  <2>14. Reported'
    BY <1>0, <1>7 DEF UsbDisconnect, Odd, Tell, Dies, Reported, Forgotten, Sighted, Plainly, UsbServices
  <2> QED
    BY <2>1, <2>2, <2>3, <2>4, <2>5, <2>6, <2>7, <2>8, <2>9, <2>10, <2>11, <2>12, <2>13, <2>14 DEF UsbInv
<1>8. CASE SuspendForgets
  <2>1. UsbShape' BY <1>0, <1>8 DEF SuspendForgets, Odd, Tell, Dies, UsbServices
  <2>2. UsbSaid' BY <1>0, <1>8 DEF SuspendForgets, Odd, Tell, Dies, UsbSaid, UsbMsgs, UsbServices
  <2>3. Packet(ul)' BY <1>0, <1>8 DEF SuspendForgets, Odd, Tell, Dies, Packet
  <2>4. UhCount(uh)' BY <1>0, <1>8 DEF SuspendForgets, Odd, Tell, Dies, UhCount
  <2>5. IoRuns' BY <1>0, <1>8 DEF SuspendForgets, Odd, Tell, Dies, IoRuns
  <2>6. LoopRuns' BY <1>0, <1>8 DEF SuspendForgets, Odd, Tell, Dies, LoopRuns, IoRuns
  <2>7. UsbTrunk' BY <1>0, <1>8 DEF SuspendForgets, Odd, Tell, Dies, UsbTrunk, IoRuns, LoopRuns
  <2>8. NotSent' BY <1>0, <1>8 DEF SuspendForgets, Odd, Tell, Dies, NotSent, Plainly, UsbTrunk
  <2>9. WellOK'
    BY <1>0, <1>8 DEF SuspendForgets, Odd, Tell, Dies, WellOK, NotSent, InService, Plainly, IoRuns
  <2>10. AssertOK'
    BY <1>0, <1>8 DEF SuspendForgets, Odd, Tell, Dies, AssertOK, WellOK, InService, UsbTrunk, LoopRuns, Plainly
  <2>11. HaltOK'
    BY <1>0, <1>8 DEF SuspendForgets, Odd, Tell, Dies, HaltOK, UsbTrunk, InService, LoopRuns, IoRuns, Plainly,
       UhCount
  <2>12. ToldOK'
    BY <1>0, <1>8 DEF SuspendForgets, Odd, Tell, Dies, ToldOK, AssertOK, WellOK, HaltOK, InService, LoopRuns,
       Plainly, UhCount
  <2>13. Forgotten'
    BY <1>0, <1>8 DEF SuspendForgets, Odd, Tell, Dies, Forgotten, Sighted, ToldOK, LoopRuns, Plainly, UhCount,
       UsbServices
  <2>14. Reported'
    BY <1>0, <1>8 DEF SuspendForgets, Odd, Tell, Dies, Reported, Forgotten, Sighted, Plainly, UsbServices
  <2> QED
    BY <2>1, <2>2, <2>3, <2>4, <2>5, <2>6, <2>7, <2>8, <2>9, <2>10, <2>11, <2>12, <2>13, <2>14 DEF UsbInv
<1>9. CASE HearTrunkW
  <2>1. /\ ul.loop = "read" /\ uf.msgs # <<>> /\ Head(uf.msgs) = "trunk_W" /\ uf'.msgs = Tail(uf.msgs)
    BY <1>0, <1>9 DEF LoopHears, HearTrunkW
  <2>2. Tail(uf.msgs) \in Seq(UsbMsgs) /\ (Without(uf.msgs, "trunk_W") => Without(Tail(uf.msgs), "trunk_W") /\ Head(uf.msgs) # "trunk_W")
    <3> DEFINE m == uf.msgs
               T == UsbMsgs
    <3>1. m \in Seq(T) /\ m # <<>> BY <1>0, <1>9 DEF UsbSaid, LoopHears, HearTrunkW
    <3> HIDE DEF m, T
    <3>2. Tail(m) \in Seq(T) /\ \A w : Without(m, w) => Without(Tail(m), w) /\ Head(m) # w
      BY <3>1, Heard
    <3> QED BY <3>2 DEF m, T
  <2>3. UsbShape' BY <1>0, <1>9, <2>1, <2>2 DEF HearTrunkW, LoopHears, UsbServices
  <2>4. UsbSaid' BY <1>0, <1>9, <2>1, <2>2 DEF HearTrunkW, LoopHears, UsbSaid, UsbMsgs, UsbServices
  <2>5. Packet(ul)' BY <1>0, <1>9, <2>1, <2>2 DEF HearTrunkW, LoopHears, Packet
  <2>6. UhCount(uh)' BY <1>0, <1>9, <2>1, <2>2 DEF HearTrunkW, LoopHears, UhCount
  <2>7. IoRuns' BY <1>0, <1>9, <2>1, <2>2 DEF HearTrunkW, LoopHears, IoRuns
  <2>8. LoopRuns' BY <1>0, <1>9, <2>1, <2>2 DEF HearTrunkW, LoopHears, LoopRuns, IoRuns
  <2>9. UsbTrunk' BY <1>0, <1>9, <2>1, <2>2 DEF HearTrunkW, LoopHears, UsbTrunk, IoRuns, LoopRuns
  <2>10. NotSent' BY <1>0, <1>9, <2>1, <2>2 DEF HearTrunkW, LoopHears, NotSent, Plainly, UsbTrunk
  <2>11. WellOK'
    <3>1. CASE uh.reports > 0
      BY <1>0, <1>9, <2>1, <2>2, <3>1 DEF HearTrunkW, LoopHears, UsbTrunk, LoopRuns, WellOK, NotSent, InService,
         Plainly, IoRuns
    <3>2. CASE ~(uh.reports > 0)
      BY <1>0, <1>9, <2>1, <2>2, <3>2 DEF HearTrunkW, LoopHears, UsbTrunk, LoopRuns, WellOK, NotSent, InService,
         Plainly, IoRuns
    <3> QED BY <3>1, <3>2
  <2>12. AssertOK'
    BY <1>0, <1>9, <2>1, <2>2 DEF HearTrunkW, LoopHears, AssertOK, WellOK, InService, UsbTrunk, LoopRuns, Plainly
  <2>13. HaltOK'
    BY <1>0, <1>9, <2>1, <2>2 DEF HearTrunkW, LoopHears, HaltOK, UsbTrunk, InService, LoopRuns, IoRuns, Plainly,
       UhCount
  <2>14. ToldOK'
    BY <1>0, <1>9, <2>1, <2>2 DEF HearTrunkW, LoopHears, ToldOK, AssertOK, WellOK, HaltOK, InService, LoopRuns,
       Plainly, UhCount
  <2>15. Forgotten'
    BY <1>0, <1>9, <2>1, <2>2 DEF HearTrunkW, LoopHears, Forgotten, Sighted, ToldOK, LoopRuns, Plainly, UhCount,
       UsbServices
  <2>16. Reported'
    BY <1>0, <1>9, <2>1, <2>2 DEF HearTrunkW, LoopHears, Reported, Forgotten, Sighted, Plainly, UsbServices
  <2> QED
    BY <2>3, <2>4, <2>5, <2>6, <2>7, <2>8, <2>9, <2>10, <2>11, <2>12, <2>13, <2>14, <2>15, <2>16 DEF UsbInv
<1>10. CASE add_devices_work
  <2>1. UsbShape' BY <1>0, <1>10 DEF add_devices_work, UsbServices
  <2>2. UsbSaid' BY <1>0, <1>10 DEF add_devices_work, UsbSaid, UsbMsgs, UsbServices
  <2>3. Packet(ul)' BY <1>0, <1>10 DEF add_devices_work, Packet
  <2>4. UhCount(uh)' BY <1>0, <1>10 DEF add_devices_work, UhCount
  <2>5. IoRuns' BY <1>0, <1>10 DEF add_devices_work, IoRuns
  <2>6. LoopRuns' BY <1>0, <1>10 DEF add_devices_work, LoopRuns, IoRuns
  <2>7. UsbTrunk' BY <1>0, <1>10 DEF add_devices_work, UsbTrunk, IoRuns, LoopRuns
  <2>8. NotSent' BY <1>0, <1>10 DEF add_devices_work, NotSent, Plainly, UsbTrunk
  <2>9. WellOK' BY <1>0, <1>10 DEF add_devices_work, WellOK, NotSent, InService, Plainly, IoRuns
  <2>10. AssertOK'
    BY <1>0, <1>10 DEF add_devices_work, AssertOK, WellOK, InService, UsbTrunk, LoopRuns, Plainly
  <2>11. HaltOK'
    BY <1>0, <1>10 DEF add_devices_work, HaltOK, UsbTrunk, InService, LoopRuns, IoRuns, Plainly, UhCount
  <2>12. ToldOK'
    BY <1>0, <1>10 DEF add_devices_work, ToldOK, AssertOK, WellOK, HaltOK, InService, LoopRuns, Plainly, UhCount
  <2>13. Forgotten'
    BY <1>0, <1>10 DEF add_devices_work, Forgotten, Sighted, ToldOK, LoopRuns, Plainly, UhCount, UsbServices
  <2>14. Reported'
    BY <1>0, <1>10 DEF add_devices_work, Reported, Forgotten, Sighted, Plainly, UsbServices
  <2> QED
    BY <2>1, <2>2, <2>3, <2>4, <2>5, <2>6, <2>7, <2>8, <2>9, <2>10, <2>11, <2>12, <2>13, <2>14 DEF UsbInv
<1>11. CASE HearExit
  <2>1. /\ ul.loop = "read" /\ uf.msgs # <<>> /\ Head(uf.msgs) = "BTEXIT" /\ uf'.msgs = Tail(uf.msgs)
    BY <1>0, <1>11 DEF LoopHears, HearExit
  <2>2. Tail(uf.msgs) \in Seq(UsbMsgs) /\ (Without(uf.msgs, "trunk_W") => Without(Tail(uf.msgs), "trunk_W") /\ Head(uf.msgs) # "trunk_W")
    <3> DEFINE m == uf.msgs
               T == UsbMsgs
    <3>1. m \in Seq(T) /\ m # <<>> BY <1>0, <1>11 DEF UsbSaid, LoopHears, HearExit
    <3> HIDE DEF m, T
    <3>2. Tail(m) \in Seq(T) /\ \A w : Without(m, w) => Without(Tail(m), w) /\ Head(m) # w
      BY <3>1, Heard
    <3> QED BY <3>2 DEF m, T
  <2>3. UsbShape' BY <1>0, <1>11, <2>1, <2>2 DEF HearExit, LoopHears, Odd, UsbServices
  <2>4. UsbSaid'
    BY <1>0, <1>11, <2>1, <2>2 DEF HearExit, LoopHears, Odd, UsbSaid, UsbMsgs, UsbServices
  <2>5. Packet(ul)' BY <1>0, <1>11, <2>1, <2>2 DEF HearExit, LoopHears, Odd, Packet
  <2>6. UhCount(uh)' BY <1>0, <1>11, <2>1, <2>2 DEF HearExit, LoopHears, Odd, UhCount
  <2>7. IoRuns' BY <1>0, <1>11, <2>1, <2>2 DEF HearExit, LoopHears, Odd, IoRuns
  <2>8. LoopRuns' BY <1>0, <1>11, <2>1, <2>2 DEF HearExit, LoopHears, Odd, LoopRuns, IoRuns
  <2>9. UsbTrunk' BY <1>0, <1>11, <2>1, <2>2 DEF HearExit, LoopHears, Odd, UsbTrunk, IoRuns, LoopRuns
  <2>10. NotSent' BY <1>0, <1>11, <2>1, <2>2 DEF HearExit, LoopHears, Odd, NotSent, Plainly, UsbTrunk
  <2>11. WellOK'
    BY <1>0, <1>11, <2>1, <2>2 DEF HearExit, LoopHears, Odd, WellOK, NotSent, InService, Plainly, IoRuns
  <2>12. AssertOK'
    BY <1>0, <1>11, <2>1, <2>2 DEF HearExit, LoopHears, Odd, AssertOK, WellOK, InService, UsbTrunk, LoopRuns,
       Plainly
  <2>13. HaltOK'
    BY <1>0, <1>11, <2>1, <2>2 DEF HearExit, LoopHears, Odd, HaltOK, UsbTrunk, InService, LoopRuns, IoRuns,
       Plainly, UhCount
  <2>14. ToldOK'
    BY <1>0, <1>11, <2>1, <2>2 DEF HearExit, LoopHears, Odd, ToldOK, AssertOK, WellOK, HaltOK, InService,
       LoopRuns, Plainly, UhCount
  <2>15. Forgotten'
    BY <1>0, <1>11, <2>1, <2>2 DEF HearExit, LoopHears, Odd, Forgotten, Sighted, ToldOK, LoopRuns, Plainly,
       UhCount, UsbServices
  <2>16. Reported'
    BY <1>0, <1>11, <2>1, <2>2 DEF HearExit, LoopHears, Odd, Reported, Forgotten, Sighted, Plainly, UsbServices
  <2> QED
    BY <2>3, <2>4, <2>5, <2>6, <2>7, <2>8, <2>9, <2>10, <2>11, <2>12, <2>13, <2>14, <2>15, <2>16 DEF UsbInv
<1>12. CASE HearBspAssert
  <2>1. CASE uc.cp_state = "assert"
    <3>1. /\ ul.loop = "read" /\ uf.msgs # <<>> /\ Head(uf.msgs) = "BSPASSERT" /\ uf'.msgs = Tail(uf.msgs)
      BY <1>0, <1>12 DEF LoopHears, HearBspAssert
    <3>2. Tail(uf.msgs) \in Seq(UsbMsgs) /\ (Without(uf.msgs, "trunk_W") => Without(Tail(uf.msgs), "trunk_W") /\ Head(uf.msgs) # "trunk_W")
      <4> DEFINE m == uf.msgs
                 T == UsbMsgs
      <4>1. m \in Seq(T) /\ m # <<>> BY <1>0, <1>12 DEF UsbSaid, LoopHears, HearBspAssert
      <4> HIDE DEF m, T
      <4>2. Tail(m) \in Seq(T) /\ \A w : Without(m, w) => Without(Tail(m), w) /\ Head(m) # w
        BY <4>1, Heard
      <4> QED BY <4>2 DEF m, T
    <3>3. UsbShape'
      <4>1. uc' = [uc EXCEPT !.exc = FALSE] /\ ul' = [ul EXCEPT !.loop = "assert"] /\ uh' = uh
        BY <1>12, <2>1 DEF HearBspAssert, LoopHears
      <4>2. uf' = [uf EXCEPT !.msgs = Tail(uf.msgs)] BY <1>12 DEF HearBspAssert, LoopHears
      <4>3. UfShape(uf)' BY <1>0, <4>2
      <4> QED BY <1>0, <4>1, <4>3
    <3>4. UsbSaid'
      BY <1>0, <1>12, <2>1, <3>1, <3>2 DEF HearBspAssert, LoopHears, UsbSaid, UsbMsgs, UsbServices
    <3>5. Packet(ul)' BY <1>0, <1>12, <2>1, <3>1, <3>2 DEF HearBspAssert, LoopHears, Packet
    <3>6. UhCount(uh)' BY <1>0, <1>12, <2>1, <3>1, <3>2 DEF HearBspAssert, LoopHears, UhCount
    <3>7. IoRuns' BY <1>0, <1>12, <2>1, <3>1, <3>2 DEF HearBspAssert, LoopHears, IoRuns
    <3>8. LoopRuns' BY <1>0, <1>12, <2>1, <3>1, <3>2 DEF HearBspAssert, LoopHears, LoopRuns, IoRuns
    <3>9. UsbTrunk'
      BY <1>0, <1>12, <2>1, <3>1, <3>2 DEF HearBspAssert, LoopHears, UsbTrunk, IoRuns, LoopRuns
    <3>10. NotSent'
      BY <1>0, <1>12, <2>1, <3>1, <3>2 DEF HearBspAssert, LoopHears, NotSent, Plainly, UsbTrunk
    <3>11. WellOK'
      BY <1>0, <1>12, <2>1, <3>1, <3>2 DEF HearBspAssert, LoopHears, WellOK, NotSent, InService, Plainly, IoRuns
    <3>12. AssertOK'
      BY <1>0, <1>12, <2>1, <3>1, <3>2 DEF HearBspAssert, LoopHears, AssertOK, WellOK, InService, UsbTrunk,
         LoopRuns, Plainly
    <3>13. HaltOK'
      BY <1>0, <1>12, <2>1, <3>1, <3>2 DEF HearBspAssert, LoopHears, HaltOK, UsbTrunk, InService, LoopRuns,
         IoRuns, Plainly, UhCount
    <3>14. ToldOK'
      BY <1>0, <1>12, <2>1, <3>1, <3>2 DEF HearBspAssert, LoopHears, ToldOK, AssertOK, WellOK, HaltOK, InService,
         LoopRuns, Plainly, UhCount
    <3>15. Forgotten'
      BY <1>0, <1>12, <2>1, <3>1, <3>2 DEF HearBspAssert, LoopHears, Forgotten, Sighted, ToldOK, LoopRuns,
         Plainly, UhCount, UsbServices
    <3>16. Reported'
      BY <1>0, <1>12, <2>1, <3>1, <3>2 DEF HearBspAssert, LoopHears, Reported, Forgotten, Sighted, Plainly,
         UsbServices
    <3> QED BY <3>3, <3>4, <3>5, <3>6, <3>7, <3>8, <3>9, <3>10, <3>11, <3>12, <3>13, <3>14, <3>15,
         <3>16 DEF UsbInv
  <2>2. CASE ~(uc.cp_state = "assert")
    <3>1. /\ ul.loop = "read" /\ uf.msgs # <<>> /\ Head(uf.msgs) = "BSPASSERT" /\ uf'.msgs = Tail(uf.msgs)
      BY <1>0, <1>12 DEF LoopHears, HearBspAssert
    <3>2. Tail(uf.msgs) \in Seq(UsbMsgs) /\ (Without(uf.msgs, "trunk_W") => Without(Tail(uf.msgs), "trunk_W") /\ Head(uf.msgs) # "trunk_W")
      <4> DEFINE m == uf.msgs
                 T == UsbMsgs
      <4>1. m \in Seq(T) /\ m # <<>> BY <1>0, <1>12 DEF UsbSaid, LoopHears, HearBspAssert
      <4> HIDE DEF m, T
      <4>2. Tail(m) \in Seq(T) /\ \A w : Without(m, w) => Without(Tail(m), w) /\ Head(m) # w
        BY <4>1, Heard
      <4> QED BY <4>2 DEF m, T
    <3>3. UsbShape' BY <1>0, <1>12, <2>2, <3>1, <3>2 DEF HearBspAssert, LoopHears, UsbServices
    <3>4. UsbSaid'
      BY <1>0, <1>12, <2>2, <3>1, <3>2 DEF HearBspAssert, LoopHears, UsbSaid, UsbMsgs, UsbServices
    <3>5. Packet(ul)' BY <1>0, <1>12, <2>2, <3>1, <3>2 DEF HearBspAssert, LoopHears, Packet
    <3>6. UhCount(uh)' BY <1>0, <1>12, <2>2, <3>1, <3>2 DEF HearBspAssert, LoopHears, UhCount
    <3>7. IoRuns' BY <1>0, <1>12, <2>2, <3>1, <3>2 DEF HearBspAssert, LoopHears, IoRuns
    <3>8. LoopRuns' BY <1>0, <1>12, <2>2, <3>1, <3>2 DEF HearBspAssert, LoopHears, LoopRuns, IoRuns
    <3>9. UsbTrunk'
      BY <1>0, <1>12, <2>2, <3>1, <3>2 DEF HearBspAssert, LoopHears, UsbTrunk, IoRuns, LoopRuns
    <3>10. NotSent'
      BY <1>0, <1>12, <2>2, <3>1, <3>2 DEF HearBspAssert, LoopHears, NotSent, Plainly, UsbTrunk
    <3>11. WellOK'
      BY <1>0, <1>12, <2>2, <3>1, <3>2 DEF HearBspAssert, LoopHears, WellOK, NotSent, InService, Plainly, IoRuns
    <3>12. AssertOK'
      BY <1>0, <1>12, <2>2, <3>1, <3>2 DEF HearBspAssert, LoopHears, AssertOK, WellOK, InService, UsbTrunk,
         LoopRuns, Plainly
    <3>13. HaltOK'
      BY <1>0, <1>12, <2>2, <3>1, <3>2 DEF HearBspAssert, LoopHears, HaltOK, UsbTrunk, InService, LoopRuns,
         IoRuns, Plainly, UhCount
    <3>14. ToldOK'
      BY <1>0, <1>12, <2>2, <3>1, <3>2 DEF HearBspAssert, LoopHears, ToldOK, AssertOK, WellOK, HaltOK, InService,
         LoopRuns, Plainly, UhCount
    <3>15. Forgotten'
      BY <1>0, <1>12, <2>2, <3>1, <3>2 DEF HearBspAssert, LoopHears, Forgotten, Sighted, ToldOK, LoopRuns,
         Plainly, UhCount, UsbServices
    <3>16. Reported'
      BY <1>0, <1>12, <2>2, <3>1, <3>2 DEF HearBspAssert, LoopHears, Reported, Forgotten, Sighted, Plainly,
         UsbServices
    <3> QED BY <3>3, <3>4, <3>5, <3>6, <3>7, <3>8, <3>9, <3>10, <3>11, <3>12, <3>13, <3>14, <3>15,
         <3>16 DEF UsbInv
  <2> QED BY <2>1, <2>2
<1>13. CASE LoopAsserts
  <2>1. CASE uc.cp_state = "blocked"
    <3>1. UsbShape' BY <1>0, <1>13, <2>1 DEF LoopAsserts, Tell, UsbServices
    <3>2. UsbSaid' BY <1>0, <1>13, <2>1 DEF LoopAsserts, Tell, UsbSaid, UsbMsgs, UsbServices
    <3>3. Packet(ul)' BY <1>0, <1>13, <2>1 DEF LoopAsserts, Tell, Packet
    <3>4. UhCount(uh)' BY <1>0, <1>13, <2>1 DEF LoopAsserts, Tell, UhCount
    <3>5. IoRuns' BY <1>0, <1>13, <2>1 DEF LoopAsserts, Tell, IoRuns
    <3>6. LoopRuns' BY <1>0, <1>13, <2>1 DEF LoopAsserts, Tell, LoopRuns, IoRuns
    <3>7. UsbTrunk' BY <1>0, <1>13, <2>1 DEF LoopAsserts, Tell, UsbTrunk, IoRuns, LoopRuns
    <3>8. NotSent' BY <1>0, <1>13, <2>1 DEF LoopAsserts, Tell, NotSent, Plainly, UsbTrunk
    <3>9. WellOK'
      BY <1>0, <1>13, <2>1 DEF LoopAsserts, Tell, WellOK, NotSent, InService, Plainly, IoRuns
    <3>10. AssertOK'
      BY <1>0, <1>13, <2>1 DEF LoopAsserts, Tell, AssertOK, WellOK, InService, UsbTrunk, LoopRuns, Plainly
    <3>11. HaltOK'
      BY <1>0, <1>13, <2>1 DEF LoopAsserts, Tell, HaltOK, UsbTrunk, InService, LoopRuns, IoRuns, Plainly, UhCount
    <3>12. ToldOK'
      BY <1>0, <1>13, <2>1 DEF LoopAsserts, Tell, ToldOK, AssertOK, WellOK, HaltOK, InService, LoopRuns, Plainly,
         UhCount
    <3>13. Forgotten'
      BY <1>0, <1>13, <2>1 DEF LoopAsserts, Tell, Forgotten, Sighted, ToldOK, LoopRuns, Plainly, UhCount,
         UsbServices
    <3>14. Reported'
      BY <1>0, <1>13, <2>1 DEF LoopAsserts, Tell, Reported, Forgotten, Sighted, Plainly, UsbServices
    <3> QED
      BY <3>1, <3>2, <3>3, <3>4, <3>5, <3>6, <3>7, <3>8, <3>9, <3>10, <3>11, <3>12, <3>13, <3>14 DEF UsbInv
  <2>2. CASE ~(uc.cp_state = "blocked")
    <3>1. /\ ul.loop = "assert" /\ uf' = uf /\ ul' = [ul EXCEPT !.loop = "dump"] /\ uc' = [uc EXCEPT !.cp_state = "assert", !.status = "halt"]
          /\ DOMAIN uh' = DOMAIN uh /\ uh'.reports = uh.reports + 1 /\ uh'.ready = uh.ready /\ uh'.late = uh.late /\ uh'.trunk = uh.trunk
          /\ uh'.odd = IF uc.exc THEN uh.odd \union {"early"} ELSE uh.odd
      BY <1>0, <1>13, <2>2 DEF LoopAsserts, Tell
    <3>2. UsbShape' BY <1>0, <2>2, <3>1 DEF UsbServices
    <3>3. UsbSaid' BY <1>0, <2>2, <3>1 DEF UsbSaid, UsbMsgs, UsbServices
    <3>4. Packet(ul)' BY <1>0, <2>2, <3>1 DEF Packet
    <3>5. UhCount(uh)' BY <1>0, <2>2, <3>1 DEF UhCount
    <3>6. IoRuns' BY <1>0, <2>2, <3>1 DEF IoRuns
    <3>7. LoopRuns' BY <1>0, <2>2, <3>1 DEF LoopRuns, IoRuns
    <3>8. UsbTrunk' BY <1>0, <2>2, <3>1 DEF UsbTrunk, IoRuns, LoopRuns
    <3>9. NotSent' BY <1>0, <2>2, <3>1 DEF NotSent, Plainly, UsbTrunk
    <3>10. WellOK' BY <1>0, <2>2, <3>1 DEF WellOK, NotSent, InService, Plainly, IoRuns
    <3>11. AssertOK' BY <1>0, <2>2, <3>1 DEF AssertOK, WellOK, InService, UsbTrunk, LoopRuns, Plainly
    <3>12. HaltOK'
      BY <1>0, <2>2, <3>1 DEF HaltOK, UsbTrunk, InService, LoopRuns, IoRuns, Plainly, UhCount
    <3>13. ToldOK'
      BY <1>0, <2>2, <3>1 DEF ToldOK, AssertOK, WellOK, HaltOK, InService, LoopRuns, Plainly, UhCount
    <3>14. Forgotten'
      BY <1>0, <2>2, <3>1 DEF Forgotten, Sighted, ToldOK, LoopRuns, Plainly, UhCount, UsbServices
    <3>15. Reported' BY <1>0, <2>2, <3>1 DEF Reported, Forgotten, Sighted, Plainly, UsbServices
    <3> QED BY <3>2, <3>3, <3>4, <3>5, <3>6, <3>7, <3>8, <3>9, <3>10, <3>11, <3>12, <3>13, <3>14,
         <3>15 DEF UsbInv
  <2> QED BY <2>1, <2>2
<1>14. CASE LoopDumps
  <2>1. UsbShape' BY <1>0, <1>14 DEF LoopDumps, UsbServices
  <2>2. UsbSaid' BY <1>0, <1>14 DEF LoopDumps, UsbSaid, UsbMsgs, UsbServices
  <2>3. Packet(ul)' BY <1>0, <1>14 DEF LoopDumps, Packet
  <2>4. UhCount(uh)' BY <1>0, <1>14 DEF LoopDumps, UhCount
  <2>5. IoRuns' BY <1>0, <1>14 DEF LoopDumps, IoRuns
  <2>6. LoopRuns' BY <1>0, <1>14 DEF LoopDumps, LoopRuns, IoRuns
  <2>7. UsbTrunk' BY <1>0, <1>14 DEF LoopDumps, UsbTrunk, IoRuns, LoopRuns
  <2>8. NotSent' BY <1>0, <1>14 DEF LoopDumps, NotSent, Plainly, UsbTrunk
  <2>9. WellOK' BY <1>0, <1>14 DEF LoopDumps, WellOK, NotSent, InService, Plainly, IoRuns
  <2>10. AssertOK'
    BY <1>0, <1>14 DEF LoopDumps, AssertOK, WellOK, InService, UsbTrunk, LoopRuns, Plainly
  <2>11. HaltOK'
    BY <1>0, <1>14 DEF LoopDumps, HaltOK, UsbTrunk, InService, LoopRuns, IoRuns, Plainly, UhCount
  <2>12. ToldOK'
    BY <1>0, <1>14 DEF LoopDumps, ToldOK, AssertOK, WellOK, HaltOK, InService, LoopRuns, Plainly, UhCount
  <2>13. Forgotten'
    BY <1>0, <1>14 DEF LoopDumps, Forgotten, Sighted, ToldOK, LoopRuns, Plainly, UhCount, UsbServices
  <2>14. Reported' BY <1>0, <1>14 DEF LoopDumps, Reported, Forgotten, Sighted, Plainly, UsbServices
  <2> QED
    BY <2>1, <2>2, <2>3, <2>4, <2>5, <2>6, <2>7, <2>8, <2>9, <2>10, <2>11, <2>12, <2>13, <2>14 DEF UsbInv
<1>15. CASE skw_usb_exception_work
  <2>1. UsbShape' BY <1>0, <1>15 DEF skw_usb_exception_work, UsbServices
  <2>2. UsbSaid' BY <1>0, <1>15 DEF skw_usb_exception_work, UsbSaid, UsbMsgs, UsbServices
  <2>3. Packet(ul)' BY <1>0, <1>15 DEF skw_usb_exception_work, Packet
  <2>4. UhCount(uh)' BY <1>0, <1>15 DEF skw_usb_exception_work, UhCount
  <2>5. IoRuns' BY <1>0, <1>15 DEF skw_usb_exception_work, IoRuns
  <2>6. LoopRuns' BY <1>0, <1>15 DEF skw_usb_exception_work, LoopRuns, IoRuns
  <2>7. UsbTrunk' BY <1>0, <1>15 DEF skw_usb_exception_work, UsbTrunk, IoRuns, LoopRuns
  <2>8. NotSent' BY <1>0, <1>15 DEF skw_usb_exception_work, NotSent, Plainly, UsbTrunk
  <2>9. WellOK' BY <1>0, <1>15 DEF skw_usb_exception_work, WellOK, NotSent, InService, Plainly, IoRuns
  <2>10. AssertOK'
    BY <1>0, <1>15 DEF skw_usb_exception_work, AssertOK, WellOK, InService, UsbTrunk, LoopRuns, Plainly
  <2>11. HaltOK'
    BY <1>0, <1>15 DEF skw_usb_exception_work, HaltOK, UsbTrunk, InService, LoopRuns, IoRuns, Plainly, UhCount
  <2>12. ToldOK'
    BY <1>0, <1>15 DEF skw_usb_exception_work, ToldOK, AssertOK, WellOK, HaltOK, InService, LoopRuns, Plainly,
       UhCount
  <2>13. Forgotten'
    BY <1>0, <1>15 DEF skw_usb_exception_work, Forgotten, Sighted, ToldOK, LoopRuns, Plainly, UhCount, UsbServices
  <2>14. Reported'
    BY <1>0, <1>15 DEF skw_usb_exception_work, Reported, Forgotten, Sighted, Plainly, UsbServices
  <2> QED
    BY <2>1, <2>2, <2>3, <2>4, <2>5, <2>6, <2>7, <2>8, <2>9, <2>10, <2>11, <2>12, <2>13, <2>14 DEF UsbInv
<1>16. CASE ExceptionTells
  <2>1. CASE uc.cp_state # "assert"
    <3>1. UsbShape' BY <1>0, <1>16, <2>1 DEF ExceptionTells, Tell, UsbServices
    <3>2. UsbSaid' BY <1>0, <1>16, <2>1 DEF ExceptionTells, Tell, UsbSaid, UsbMsgs, UsbServices
    <3>3. Packet(ul)' BY <1>0, <1>16, <2>1 DEF ExceptionTells, Tell, Packet
    <3>4. UhCount(uh)' BY <1>0, <1>16, <2>1 DEF ExceptionTells, Tell, UhCount
    <3>5. IoRuns' BY <1>0, <1>16, <2>1 DEF ExceptionTells, Tell, IoRuns
    <3>6. LoopRuns' BY <1>0, <1>16, <2>1 DEF ExceptionTells, Tell, LoopRuns, IoRuns
    <3>7. UsbTrunk' BY <1>0, <1>16, <2>1 DEF ExceptionTells, Tell, UsbTrunk, IoRuns, LoopRuns
    <3>8. NotSent' BY <1>0, <1>16, <2>1 DEF ExceptionTells, Tell, NotSent, Plainly, UsbTrunk
    <3>9. WellOK'
      BY <1>0, <1>16, <2>1 DEF ExceptionTells, Tell, WellOK, NotSent, InService, Plainly, IoRuns
    <3>10. AssertOK'
      BY <1>0, <1>16, <2>1 DEF ExceptionTells, Tell, AssertOK, WellOK, InService, UsbTrunk, LoopRuns, Plainly
    <3>11. HaltOK'
      BY <1>0, <1>16, <2>1 DEF ExceptionTells, Tell, HaltOK, UsbTrunk, InService, LoopRuns, IoRuns, Plainly,
         UhCount
    <3>12. ToldOK'
      BY <1>0, <1>16, <2>1 DEF ExceptionTells, Tell, ToldOK, AssertOK, WellOK, HaltOK, InService, LoopRuns,
         Plainly, UhCount
    <3>13. Forgotten'
      BY <1>0, <1>16, <2>1 DEF ExceptionTells, Tell, Forgotten, Sighted, ToldOK, LoopRuns, Plainly, UhCount,
         UsbServices
    <3>14. Reported'
      BY <1>0, <1>16, <2>1 DEF ExceptionTells, Tell, Reported, Forgotten, Sighted, Plainly, UsbServices
    <3> QED
      BY <3>1, <3>2, <3>3, <3>4, <3>5, <3>6, <3>7, <3>8, <3>9, <3>10, <3>11, <3>12, <3>13, <3>14 DEF UsbInv
  <2>2. CASE ~(uc.cp_state # "assert")
    <3>1. UsbShape' BY <1>0, <1>16, <2>2 DEF ExceptionTells, Tell, UsbServices
    <3>2. UsbSaid' BY <1>0, <1>16, <2>2 DEF ExceptionTells, Tell, UsbSaid, UsbMsgs, UsbServices
    <3>3. Packet(ul)' BY <1>0, <1>16, <2>2 DEF ExceptionTells, Tell, Packet
    <3>4. UhCount(uh)' BY <1>0, <1>16, <2>2 DEF ExceptionTells, Tell, UhCount
    <3>5. IoRuns' BY <1>0, <1>16, <2>2 DEF ExceptionTells, Tell, IoRuns
    <3>6. LoopRuns' BY <1>0, <1>16, <2>2 DEF ExceptionTells, Tell, LoopRuns, IoRuns
    <3>7. UsbTrunk' BY <1>0, <1>16, <2>2 DEF ExceptionTells, Tell, UsbTrunk, IoRuns, LoopRuns
    <3>8. NotSent' BY <1>0, <1>16, <2>2 DEF ExceptionTells, Tell, NotSent, Plainly, UsbTrunk
    <3>9. WellOK'
      BY <1>0, <1>16, <2>2 DEF ExceptionTells, Tell, WellOK, NotSent, InService, Plainly, IoRuns
    <3>10. AssertOK'
      BY <1>0, <1>16, <2>2 DEF ExceptionTells, Tell, AssertOK, WellOK, InService, UsbTrunk, LoopRuns, Plainly
    <3>11. HaltOK'
      BY <1>0, <1>16, <2>2 DEF ExceptionTells, Tell, HaltOK, UsbTrunk, InService, LoopRuns, IoRuns, Plainly,
         UhCount
    <3>12. ToldOK'
      BY <1>0, <1>16, <2>2 DEF ExceptionTells, Tell, ToldOK, AssertOK, WellOK, HaltOK, InService, LoopRuns,
         Plainly, UhCount
    <3>13. Forgotten'
      BY <1>0, <1>16, <2>2 DEF ExceptionTells, Tell, Forgotten, Sighted, ToldOK, LoopRuns, Plainly, UhCount,
         UsbServices
    <3>14. Reported'
      BY <1>0, <1>16, <2>2 DEF ExceptionTells, Tell, Reported, Forgotten, Sighted, Plainly, UsbServices
    <3> QED
      BY <3>1, <3>2, <3>3, <3>4, <3>5, <3>6, <3>7, <3>8, <3>9, <3>10, <3>11, <3>12, <3>13, <3>14 DEF UsbInv
  <2> QED BY <2>1, <2>2
<1>17. CASE ExceptionEnds
  <2>1. UsbShape' BY <1>0, <1>17 DEF ExceptionEnds, UsbServices
  <2>2. UsbSaid' BY <1>0, <1>17 DEF ExceptionEnds, UsbSaid, UsbMsgs, UsbServices
  <2>3. Packet(ul)' BY <1>0, <1>17 DEF ExceptionEnds, Packet
  <2>4. UhCount(uh)' BY <1>0, <1>17 DEF ExceptionEnds, UhCount
  <2>5. IoRuns' BY <1>0, <1>17 DEF ExceptionEnds, IoRuns
  <2>6. LoopRuns' BY <1>0, <1>17 DEF ExceptionEnds, LoopRuns, IoRuns
  <2>7. UsbTrunk' BY <1>0, <1>17 DEF ExceptionEnds, UsbTrunk, IoRuns, LoopRuns
  <2>8. NotSent' BY <1>0, <1>17 DEF ExceptionEnds, NotSent, Plainly, UsbTrunk
  <2>9. WellOK' BY <1>0, <1>17 DEF ExceptionEnds, WellOK, NotSent, InService, Plainly, IoRuns
  <2>10. AssertOK'
    BY <1>0, <1>17 DEF ExceptionEnds, AssertOK, WellOK, InService, UsbTrunk, LoopRuns, Plainly
  <2>11. HaltOK'
    BY <1>0, <1>17 DEF ExceptionEnds, HaltOK, UsbTrunk, InService, LoopRuns, IoRuns, Plainly, UhCount
  <2>12. ToldOK'
    BY <1>0, <1>17 DEF ExceptionEnds, ToldOK, AssertOK, WellOK, HaltOK, InService, LoopRuns, Plainly, UhCount
  <2>13. Forgotten'
    BY <1>0, <1>17 DEF ExceptionEnds, Forgotten, Sighted, ToldOK, LoopRuns, Plainly, UhCount, UsbServices
  <2>14. Reported'
    BY <1>0, <1>17 DEF ExceptionEnds, Reported, Forgotten, Sighted, Plainly, UsbServices
  <2> QED
    BY <2>1, <2>2, <2>3, <2>4, <2>5, <2>6, <2>7, <2>8, <2>9, <2>10, <2>11, <2>12, <2>13, <2>14 DEF UsbInv
<1>18. CASE modem_assert
  <2>1. UsbShape' BY <1>0, <1>18 DEF modem_assert, Dies, UsbServices
  <2>2. UsbSaid' BY <1>0, <1>18 DEF modem_assert, Dies, UsbSaid, UsbMsgs, UsbServices
  <2>3. Packet(ul)' BY <1>0, <1>18 DEF modem_assert, Dies, Packet
  <2>4. UhCount(uh)' BY <1>0, <1>18 DEF modem_assert, Dies, UhCount
  <2>5. IoRuns' BY <1>0, <1>18 DEF modem_assert, Dies, IoRuns
  <2>6. LoopRuns' BY <1>0, <1>18 DEF modem_assert, Dies, LoopRuns, IoRuns
  <2>7. UsbTrunk' BY <1>0, <1>18 DEF modem_assert, Dies, UsbTrunk, IoRuns, LoopRuns
  <2>8. NotSent' BY <1>0, <1>18 DEF modem_assert, Dies, NotSent, Plainly, UsbTrunk
  <2>9. WellOK' BY <1>0, <1>18 DEF modem_assert, Dies, WellOK, NotSent, InService, Plainly, IoRuns
  <2>10. AssertOK'
    BY <1>0, <1>18 DEF modem_assert, Dies, AssertOK, WellOK, InService, UsbTrunk, LoopRuns, Plainly
  <2>11. HaltOK'
    BY <1>0, <1>18 DEF modem_assert, Dies, HaltOK, UsbTrunk, InService, LoopRuns, IoRuns, Plainly, UhCount
  <2>12. ToldOK'
    BY <1>0, <1>18 DEF modem_assert, Dies, ToldOK, AssertOK, WellOK, HaltOK, InService, LoopRuns, Plainly, UhCount
  <2>13. Forgotten'
    BY <1>0, <1>18 DEF modem_assert, Dies, Forgotten, Sighted, ToldOK, LoopRuns, Plainly, UhCount, UsbServices
  <2>14. Reported'
    BY <1>0, <1>18 DEF modem_assert, Dies, Reported, Forgotten, Sighted, Plainly, UsbServices
  <2> QED
    BY <2>1, <2>2, <2>3, <2>4, <2>5, <2>6, <2>7, <2>8, <2>9, <2>10, <2>11, <2>12, <2>13, <2>14 DEF UsbInv
<1>19. CASE modem_assert_work
  <2>1. CASE uc.status = "halt" \/ uc.port # "io"
    <3>1. UsbShape' BY <1>0, <1>19, <2>1 DEF modem_assert_work, Odd, UsbServices
    <3>2. UsbSaid' BY <1>0, <1>19, <2>1 DEF modem_assert_work, Odd, UsbSaid, UsbMsgs, UsbServices
    <3>3. Packet(ul)' BY <1>0, <1>19, <2>1 DEF modem_assert_work, Odd, Packet
    <3>4. UhCount(uh)' BY <1>0, <1>19, <2>1 DEF modem_assert_work, Odd, UhCount
    <3>5. IoRuns' BY <1>0, <1>19, <2>1 DEF modem_assert_work, Odd, IoRuns
    <3>6. LoopRuns' BY <1>0, <1>19, <2>1 DEF modem_assert_work, Odd, LoopRuns, IoRuns
    <3>7. UsbTrunk' BY <1>0, <1>19, <2>1 DEF modem_assert_work, Odd, UsbTrunk, IoRuns, LoopRuns
    <3>8. NotSent' BY <1>0, <1>19, <2>1 DEF modem_assert_work, Odd, NotSent, Plainly, UsbTrunk
    <3>9. WellOK'
      BY <1>0, <1>19, <2>1 DEF modem_assert_work, Odd, WellOK, NotSent, InService, Plainly, IoRuns
    <3>10. AssertOK'
      BY <1>0, <1>19, <2>1 DEF modem_assert_work, Odd, HaltOK, AssertOK, WellOK, InService, UsbTrunk, LoopRuns,
         Plainly
    <3>11. HaltOK'
      BY <1>0, <1>19, <2>1 DEF modem_assert_work, Odd, HaltOK, UsbTrunk, InService, LoopRuns, IoRuns, Plainly,
         UhCount
    <3>12. ToldOK'
      BY <1>0, <1>19, <2>1 DEF modem_assert_work, Odd, ToldOK, AssertOK, WellOK, HaltOK, InService, LoopRuns,
         Plainly, UhCount
    <3>13. Forgotten'
      BY <1>0, <1>19, <2>1 DEF modem_assert_work, Odd, Forgotten, Sighted, ToldOK, LoopRuns, Plainly, UhCount,
         UsbServices
    <3>14. Reported'
      BY <1>0, <1>19, <2>1 DEF modem_assert_work, Odd, Reported, Forgotten, Sighted, Plainly, UsbServices
    <3> QED
      BY <3>1, <3>2, <3>3, <3>4, <3>5, <3>6, <3>7, <3>8, <3>9, <3>10, <3>11, <3>12, <3>13, <3>14 DEF UsbInv
  <2>2. CASE ~(uc.status = "halt" \/ uc.port # "io") /\ uf.fw = "up"
    <3>1. uf' = [uf EXCEPT !.fw = "dead", !.msgs = Append(@, "BSPASSERT")]
      BY <1>19, <2>2 DEF modem_assert_work
    <3>2. /\ uf'.msgs \in Seq(UsbMsgs) /\ uf'.msgs # <<>> /\ (uf.msgs # <<>> => Head(uf'.msgs) = Head(uf.msgs))
          /\ Without(uf.msgs, "trunk_W") => Without(uf'.msgs, "trunk_W")
          /\ uf.msgs # <<>> /\ Without(Tail(uf.msgs), "trunk_W") => Without(Tail(uf'.msgs), "trunk_W")
      <4> DEFINE m == uf.msgs
                 T == UsbMsgs
                 v == "BSPASSERT"
      <4>1. m \in Seq(T) /\ v \in T /\ v # "trunk_W"
        BY <1>0, <1>19, <2>2 DEF UsbSaid, UsbMsgs, UsbServices
      <4>2. uf'.msgs = Append(m, v) BY <1>0, <1>19, <2>2, <3>1 DEF modem_assert_work
      <4> HIDE DEF m, T, v
      <4>3. /\ Append(m, v) \in Seq(T) /\ Append(m, v) # <<>> /\ (m # <<>> => Head(Append(m, v)) = Head(m))
            /\ \A w : v # w /\ Without(m, w) => Without(Append(m, v), w)
            /\ \A w : v # w /\ m # <<>> /\ Without(Tail(m), w) => Without(Tail(Append(m, v)), w)
        BY <4>1, Said
      <4> QED BY <4>1, <4>2, <4>3 DEF m, T
    <3>3. UsbShape' BY <1>0, <1>19, <2>2, <3>1, <3>2 DEF modem_assert_work, Odd, UsbServices
    <3>4. UsbSaid'
      BY <1>0, <1>19, <2>2, <3>1, <3>2 DEF modem_assert_work, Odd, UsbSaid, UsbMsgs, UsbServices
    <3>5. Packet(ul)' BY <1>0, <1>19, <2>2, <3>1, <3>2 DEF modem_assert_work, Odd, Packet
    <3>6. UhCount(uh)' BY <1>0, <1>19, <2>2, <3>1, <3>2 DEF modem_assert_work, Odd, UhCount
    <3>7. IoRuns' BY <1>0, <1>19, <2>2, <3>1, <3>2 DEF modem_assert_work, Odd, IoRuns
    <3>8. LoopRuns' BY <1>0, <1>19, <2>2, <3>1, <3>2 DEF modem_assert_work, Odd, LoopRuns, IoRuns
    <3>9. UsbTrunk'
      <4>1. uh.trunk \in BOOLEAN /\ uc'.port = uc.port /\ uh'.trunk = uh.trunk /\ ul'.loop = ul.loop
        BY <1>0, <1>19, <2>2 DEF modem_assert_work, Odd
      <4> QED BY <1>0, <3>2, <4>1 DEF UsbTrunk
    <3>10. NotSent'
      BY <1>0, <1>19, <2>2, <3>1, <3>2 DEF modem_assert_work, Odd, NotSent, Plainly, UsbTrunk
    <3>11. WellOK'
      BY <1>0, <1>19, <2>2, <3>1, <3>2 DEF modem_assert_work, Odd, WellOK, NotSent, InService, Plainly, IoRuns
    <3>12. AssertOK'
      BY <1>0, <1>19, <2>2 DEF modem_assert_work, Odd, HaltOK, AssertOK, WellOK, InService, UsbTrunk, LoopRuns,
         Plainly
    <3>13. HaltOK'
      BY <1>0, <1>19, <2>2, <3>1, <3>2 DEF modem_assert_work, Odd, HaltOK, UsbTrunk, InService, LoopRuns, IoRuns,
         Plainly, UhCount
    <3>14. ToldOK'
      BY <1>0, <1>19, <2>2, <3>1, <3>2 DEF modem_assert_work, Odd, ToldOK, AssertOK, WellOK, HaltOK, InService,
         LoopRuns, Plainly, UhCount
    <3>15. Forgotten'
      BY <1>0, <1>19, <2>2, <3>1, <3>2 DEF modem_assert_work, Odd, Forgotten, Sighted, ToldOK, LoopRuns, Plainly,
         UhCount, UsbServices
    <3>16. Reported'
      BY <1>0, <1>19, <2>2, <3>1, <3>2 DEF modem_assert_work, Odd, Reported, Forgotten, Sighted, Plainly,
         UsbServices
    <3> QED BY <3>3, <3>4, <3>5, <3>6, <3>7, <3>8, <3>9, <3>10, <3>11, <3>12, <3>13, <3>14, <3>15,
         <3>16 DEF UsbInv
  <2>3. CASE ~(uc.status = "halt" \/ uc.port # "io") /\ uf.fw # "up"
    <3>1. UsbShape' BY <1>0, <1>19, <2>3 DEF modem_assert_work, Odd, UsbServices
    <3>2. UsbSaid' BY <1>0, <1>19, <2>3 DEF modem_assert_work, Odd, UsbSaid, UsbMsgs, UsbServices
    <3>3. Packet(ul)' BY <1>0, <1>19, <2>3 DEF modem_assert_work, Odd, Packet
    <3>4. UhCount(uh)' BY <1>0, <1>19, <2>3 DEF modem_assert_work, Odd, UhCount
    <3>5. IoRuns' BY <1>0, <1>19, <2>3 DEF modem_assert_work, Odd, IoRuns
    <3>6. LoopRuns' BY <1>0, <1>19, <2>3 DEF modem_assert_work, Odd, LoopRuns, IoRuns
    <3>7. UsbTrunk' BY <1>0, <1>19, <2>3 DEF modem_assert_work, Odd, UsbTrunk, IoRuns, LoopRuns
    <3>8. NotSent' BY <1>0, <1>19, <2>3 DEF modem_assert_work, Odd, NotSent, Plainly, UsbTrunk
    <3>9. WellOK'
      BY <1>0, <1>19, <2>3 DEF modem_assert_work, Odd, WellOK, NotSent, InService, Plainly, IoRuns
    <3>10. AssertOK'
      BY <1>0, <1>19, <2>3 DEF modem_assert_work, Odd, HaltOK, AssertOK, WellOK, InService, UsbTrunk, LoopRuns,
         Plainly
    <3>11. HaltOK'
      BY <1>0, <1>19, <2>3 DEF modem_assert_work, Odd, HaltOK, UsbTrunk, InService, LoopRuns, IoRuns, Plainly,
         UhCount
    <3>12. ToldOK'
      BY <1>0, <1>19, <2>3 DEF modem_assert_work, Odd, ToldOK, AssertOK, WellOK, HaltOK, InService, LoopRuns,
         Plainly, UhCount
    <3>13. Forgotten'
      BY <1>0, <1>19, <2>3 DEF modem_assert_work, Odd, Forgotten, Sighted, ToldOK, LoopRuns, Plainly, UhCount,
         UsbServices
    <3>14. Reported'
      BY <1>0, <1>19, <2>3 DEF modem_assert_work, Odd, Reported, Forgotten, Sighted, Plainly, UsbServices
    <3> QED
      BY <3>1, <3>2, <3>3, <3>4, <3>5, <3>6, <3>7, <3>8, <3>9, <3>10, <3>11, <3>12, <3>13, <3>14 DEF UsbInv
  <2> QED BY <2>1, <2>2, <2>3
<1>20. CASE AssertQueues
  <2>1. UsbShape' BY <1>0, <1>20 DEF AssertQueues, Odd, UsbServices
  <2>2. UsbSaid' BY <1>0, <1>20 DEF AssertQueues, Odd, UsbSaid, UsbMsgs, UsbServices
  <2>3. Packet(ul)' BY <1>0, <1>20 DEF AssertQueues, Odd, Packet
  <2>4. UhCount(uh)' BY <1>0, <1>20 DEF AssertQueues, Odd, UhCount
  <2>5. IoRuns' BY <1>0, <1>20 DEF AssertQueues, Odd, IoRuns
  <2>6. LoopRuns' BY <1>0, <1>20 DEF AssertQueues, Odd, LoopRuns, IoRuns
  <2>7. UsbTrunk' BY <1>0, <1>20 DEF AssertQueues, Odd, UsbTrunk, IoRuns, LoopRuns
  <2>8. NotSent' BY <1>0, <1>20 DEF AssertQueues, Odd, NotSent, Plainly, UsbTrunk
  <2>9. WellOK' BY <1>0, <1>20 DEF AssertQueues, Odd, WellOK, NotSent, InService, Plainly, IoRuns
  <2>10. AssertOK'
    BY <1>0, <1>20 DEF AssertQueues, Odd, AssertOK, WellOK, InService, UsbTrunk, LoopRuns, Plainly
  <2>11. HaltOK'
    BY <1>0, <1>20 DEF AssertQueues, Odd, HaltOK, UsbTrunk, InService, LoopRuns, IoRuns, Plainly, UhCount
  <2>12. ToldOK'
    BY <1>0, <1>20 DEF AssertQueues, Odd, ToldOK, AssertOK, WellOK, HaltOK, InService, LoopRuns, Plainly, UhCount
  <2>13. Forgotten'
    BY <1>0, <1>20 DEF AssertQueues, Odd, Forgotten, Sighted, ToldOK, LoopRuns, Plainly, UhCount, UsbServices
  <2>14. Reported'
    BY <1>0, <1>20 DEF AssertQueues, Odd, Reported, Forgotten, Sighted, Plainly, UsbServices
  <2> QED
    BY <2>1, <2>2, <2>3, <2>4, <2>5, <2>6, <2>7, <2>8, <2>9, <2>10, <2>11, <2>12, <2>13, <2>14 DEF UsbInv
<1>21. CASE UsbFwDies
  <2>1. CASE uf' = [uf EXCEPT !.fw = "dead", !.deaths = @ + 1, !.msgs = @ \o <<>>]
    <3>1. uf'.msgs = uf.msgs
      <4>1. uf'.msgs = uf.msgs \o <<>> BY <1>0, <2>1
      <4> QED BY <1>0, <4>1 DEF UsbSaid
    <3>2. UsbShape' BY <1>0, <1>21, <2>1, <3>1 DEF UsbFwDies, Dies, UsbServices
    <3>3. UsbSaid' BY <1>0, <1>21, <2>1, <3>1 DEF UsbFwDies, Dies, UsbSaid, UsbMsgs, UsbServices
    <3>4. Packet(ul)' BY <1>0, <1>21, <2>1, <3>1 DEF UsbFwDies, Dies, Packet
    <3>5. UhCount(uh)' BY <1>0, <1>21, <2>1, <3>1 DEF UsbFwDies, Dies, UhCount
    <3>6. IoRuns' BY <1>0, <1>21, <2>1, <3>1 DEF UsbFwDies, Dies, IoRuns
    <3>7. LoopRuns' BY <1>0, <1>21, <2>1, <3>1 DEF UsbFwDies, Dies, LoopRuns, IoRuns
    <3>8. UsbTrunk' BY <1>0, <1>21, <2>1, <3>1 DEF UsbFwDies, Dies, UsbTrunk, IoRuns, LoopRuns
    <3>9. NotSent' BY <1>0, <1>21, <2>1, <3>1 DEF UsbFwDies, Dies, NotSent, Plainly, UsbTrunk
    <3>10. WellOK'
      BY <1>0, <1>21, <2>1, <3>1 DEF UsbFwDies, Dies, WellOK, NotSent, InService, Plainly, IoRuns
    <3>11. AssertOK'
      BY <1>0, <1>21, <2>1, <3>1 DEF UsbFwDies, Dies, AssertOK, WellOK, InService, UsbTrunk, LoopRuns, Plainly
    <3>12. HaltOK'
      BY <1>0, <1>21, <2>1, <3>1 DEF UsbFwDies, Dies, HaltOK, UsbTrunk, InService, LoopRuns, IoRuns, Plainly,
         UhCount
    <3>13. ToldOK'
      BY <1>0, <1>21, <2>1, <3>1 DEF UsbFwDies, Dies, ToldOK, AssertOK, WellOK, HaltOK, InService, LoopRuns,
         Plainly, UhCount
    <3>14. Forgotten'
      BY <1>0, <1>21, <2>1, <3>1 DEF UsbFwDies, Dies, Forgotten, Sighted, ToldOK, LoopRuns, Plainly, UhCount,
         UsbServices
    <3>15. Reported'
      BY <1>0, <1>21, <2>1, <3>1 DEF UsbFwDies, Dies, Reported, Forgotten, Sighted, Plainly, UsbServices
    <3> QED BY <3>2, <3>3, <3>4, <3>5, <3>6, <3>7, <3>8, <3>9, <3>10, <3>11, <3>12, <3>13, <3>14,
         <3>15 DEF UsbInv
  <2>2. CASE uf' = [uf EXCEPT !.fw = "dead", !.deaths = @ + 1, !.msgs = @ \o <<"BSPASSERT">>]
    <3>1. uf'.msgs = Append(uf.msgs, "BSPASSERT")
      <4>1. uf'.msgs = uf.msgs \o <<"BSPASSERT">> BY <1>0, <2>2
      <4> QED BY <1>0, <4>1, AppendIsConcat DEF UsbSaid, UsbMsgs
    <3>2. /\ uf'.msgs \in Seq(UsbMsgs) /\ uf'.msgs # <<>> /\ (uf.msgs # <<>> => Head(uf'.msgs) = Head(uf.msgs))
          /\ Without(uf.msgs, "trunk_W") => Without(uf'.msgs, "trunk_W")
          /\ uf.msgs # <<>> /\ Without(Tail(uf.msgs), "trunk_W") => Without(Tail(uf'.msgs), "trunk_W")
      <4> DEFINE m == uf.msgs
                 T == UsbMsgs
                 v == "BSPASSERT"
      <4>1. m \in Seq(T) /\ v \in T /\ v # "trunk_W" BY <1>0, <3>1 DEF UsbSaid, UsbMsgs, UsbServices
      <4>2. uf'.msgs = Append(m, v) BY <1>0, <3>1
      <4> HIDE DEF m, T, v
      <4>3. /\ Append(m, v) \in Seq(T) /\ Append(m, v) # <<>> /\ (m # <<>> => Head(Append(m, v)) = Head(m))
            /\ \A w : v # w /\ Without(m, w) => Without(Append(m, v), w)
            /\ \A w : v # w /\ m # <<>> /\ Without(Tail(m), w) => Without(Tail(Append(m, v)), w)
        BY <4>1, Said
      <4> QED BY <4>1, <4>2, <4>3 DEF m, T
    <3>3. UsbShape' BY <1>0, <1>21, <2>2, <3>1, <3>2 DEF UsbFwDies, Dies, UsbServices
    <3>4. UsbSaid' BY <1>0, <1>21, <2>2, <3>1, <3>2 DEF UsbFwDies, Dies, UsbSaid, UsbMsgs, UsbServices
    <3>5. Packet(ul)' BY <1>0, <1>21, <2>2, <3>1, <3>2 DEF UsbFwDies, Dies, Packet
    <3>6. UhCount(uh)' BY <1>0, <1>21, <2>2, <3>1, <3>2 DEF UsbFwDies, Dies, UhCount
    <3>7. IoRuns' BY <1>0, <1>21, <2>2, <3>1, <3>2 DEF UsbFwDies, Dies, IoRuns
    <3>8. LoopRuns' BY <1>0, <1>21, <2>2, <3>1, <3>2 DEF UsbFwDies, Dies, LoopRuns, IoRuns
    <3>9. UsbTrunk'
      <4>1. uh.trunk \in BOOLEAN /\ uc'.port = uc.port /\ uh'.trunk = uh.trunk /\ (ul.loop = "read" => ul'.loop = "read")
        BY <1>0, <1>21, <2>2 DEF UsbFwDies
      <4> QED BY <1>0, <4>1, <3>2 DEF UsbTrunk
    <3>10. NotSent' BY <1>0, <1>21, <2>2, <3>1, <3>2 DEF UsbFwDies, Dies, NotSent, Plainly, UsbTrunk
    <3>11. WellOK'
      BY <1>0, <1>21, <2>2, <3>1, <3>2 DEF UsbFwDies, Dies, WellOK, NotSent, InService, Plainly, IoRuns
    <3>12. AssertOK'
      BY <1>0, <1>21, <2>2, <3>1, <3>2 DEF UsbFwDies, Dies, AssertOK, WellOK, InService, UsbTrunk, LoopRuns,
         Plainly
    <3>13. HaltOK'
      BY <1>0, <1>21, <2>2, <3>1, <3>2 DEF UsbFwDies, Dies, HaltOK, UsbTrunk, InService, LoopRuns, IoRuns,
         Plainly, UhCount
    <3>14. ToldOK'
      BY <1>0, <1>21, <2>2, <3>1, <3>2 DEF UsbFwDies, Dies, ToldOK, AssertOK, WellOK, HaltOK, InService, LoopRuns,
         Plainly, UhCount
    <3>15. Forgotten'
      BY <1>0, <1>21, <2>2, <3>1, <3>2 DEF UsbFwDies, Dies, Forgotten, Sighted, ToldOK, LoopRuns, Plainly,
         UhCount, UsbServices
    <3>16. Reported'
      BY <1>0, <1>21, <2>2, <3>1, <3>2 DEF UsbFwDies, Dies, Reported, Forgotten, Sighted, Plainly, UsbServices
    <3> QED BY <3>3, <3>4, <3>5, <3>6, <3>7, <3>8, <3>9, <3>10, <3>11, <3>12, <3>13, <3>14, <3>15,
         <3>16 DEF UsbInv
  <2> QED BY <1>0, <1>21, <2>1, <2>2 DEF UsbFwDies
<1>22. ASSUME NEW s \in UsbServices, HearServiceReady(s) PROVE UsbInv'
  <2>1. /\ ul.loop = "read" /\ uf.msgs # <<>> /\ Head(uf.msgs) = s /\ uf'.msgs = Tail(uf.msgs)
    BY <1>0, <1>22 DEF LoopHears, HearServiceReady
  <2>2. Tail(uf.msgs) \in Seq(UsbMsgs) /\ (Without(uf.msgs, "trunk_W") => Without(Tail(uf.msgs), "trunk_W") /\ Head(uf.msgs) # "trunk_W")
    <3> DEFINE m == uf.msgs
               T == UsbMsgs
    <3>1. m \in Seq(T) /\ m # <<>> BY <1>0, <1>22 DEF UsbSaid, LoopHears, HearServiceReady
    <3> HIDE DEF m, T
    <3>2. Tail(m) \in Seq(T) /\ \A w : Without(m, w) => Without(Tail(m), w) /\ Head(m) # w
      BY <3>1, Heard
    <3> QED BY <3>2 DEF m, T
  <2>3. UsbShape' BY <1>0, <1>22, <2>1, <2>2 DEF HearServiceReady, LoopHears, UsbServices
  <2>4. UsbSaid'
    BY <1>0, <1>22, <2>1, <2>2 DEF HearServiceReady, LoopHears, UsbSaid, UsbMsgs, UsbServices
  <2>5. Packet(ul)' BY <1>0, <1>22, <2>1, <2>2 DEF HearServiceReady, LoopHears, Packet
  <2>6. UhCount(uh)' BY <1>0, <1>22, <2>1, <2>2 DEF HearServiceReady, LoopHears, UhCount
  <2>7. IoRuns' BY <1>0, <1>22, <2>1, <2>2 DEF HearServiceReady, LoopHears, IoRuns
  <2>8. LoopRuns' BY <1>0, <1>22, <2>1, <2>2 DEF HearServiceReady, LoopHears, LoopRuns, IoRuns
  <2>9. UsbTrunk'
    <3>1. uh.trunk \in BOOLEAN /\ uc'.port = uc.port /\ uh'.trunk = uh.trunk /\ (ul.loop = "read" => ul'.loop = "read")
      BY <1>0, <1>22, <1>22 DEF HearServiceReady, LoopHears
    <3> QED BY <1>0, <3>1, <2>1, <2>2 DEF UsbTrunk, UsbServices
  <2>10. NotSent'
    BY <1>0, <1>22, <2>1, <2>2 DEF HearServiceReady, LoopHears, NotSent, Plainly, UsbTrunk
  <2>11. WellOK'
    BY <1>0, <1>22, <2>1, <2>2 DEF HearServiceReady, LoopHears, WellOK, NotSent, InService, Plainly, IoRuns
  <2>12. AssertOK'
    BY <1>0, <1>22, <2>1, <2>2 DEF HearServiceReady, LoopHears, AssertOK, WellOK, InService, UsbTrunk, LoopRuns,
       Plainly
  <2>13. HaltOK'
    BY <1>0, <1>22, <2>1, <2>2 DEF HearServiceReady, LoopHears, HaltOK, UsbTrunk, InService, LoopRuns, IoRuns,
       Plainly, UhCount
  <2>14. ToldOK'
    BY <1>0, <1>22, <2>1, <2>2 DEF HearServiceReady, LoopHears, ToldOK, AssertOK, WellOK, HaltOK, InService,
       LoopRuns, Plainly, UhCount
  <2>15. Forgotten'
    BY <1>0, <1>22, <2>1, <2>2 DEF HearServiceReady, LoopHears, Forgotten, Sighted, ToldOK, LoopRuns, Plainly,
       UhCount, UsbServices
  <2>16. Reported'
    BY <1>0, <1>22, <2>1, <2>2 DEF HearServiceReady, LoopHears, Reported, Forgotten, Sighted, Plainly, UsbServices
  <2> QED
    BY <2>3, <2>4, <2>5, <2>6, <2>7, <2>8, <2>9, <2>10, <2>11, <2>12, <2>13, <2>14, <2>15, <2>16 DEF UsbInv
<1>23. ASSUME NEW s \in UsbServices, StartWaited(s) PROVE UsbInv'
  <2>1. UsbShape' BY <1>0, <1>23 DEF StartWaited, UsbServices
  <2>2. UsbSaid' BY <1>0, <1>23 DEF StartWaited, UsbSaid, UsbMsgs, UsbServices
  <2>3. Packet(ul)' BY <1>0, <1>23 DEF StartWaited, Packet
  <2>4. UhCount(uh)' BY <1>0, <1>23 DEF StartWaited, UhCount
  <2>5. IoRuns' BY <1>0, <1>23 DEF StartWaited, IoRuns
  <2>6. LoopRuns' BY <1>0, <1>23 DEF StartWaited, LoopRuns, IoRuns
  <2>7. UsbTrunk' BY <1>0, <1>23 DEF StartWaited, UsbTrunk, IoRuns, LoopRuns
  <2>8. NotSent' BY <1>0, <1>23 DEF StartWaited, NotSent, Plainly, UsbTrunk
  <2>9. WellOK' BY <1>0, <1>23 DEF StartWaited, WellOK, NotSent, InService, Plainly, IoRuns
  <2>10. AssertOK'
    BY <1>0, <1>23 DEF StartWaited, AssertOK, WellOK, InService, UsbTrunk, LoopRuns, Plainly
  <2>11. HaltOK'
    BY <1>0, <1>23 DEF StartWaited, HaltOK, UsbTrunk, InService, LoopRuns, IoRuns, Plainly, UhCount
  <2>12. ToldOK'
    BY <1>0, <1>23 DEF StartWaited, ToldOK, AssertOK, WellOK, HaltOK, InService, LoopRuns, Plainly, UhCount
  <2>13. Forgotten'
    BY <1>0, <1>23 DEF StartWaited, Forgotten, Sighted, ToldOK, LoopRuns, Plainly, UhCount, UsbServices
  <2>14. Reported' BY <1>0, <1>23 DEF StartWaited, Reported, Forgotten, Sighted, Plainly, UsbServices
  <2> QED
    BY <2>1, <2>2, <2>3, <2>4, <2>5, <2>6, <2>7, <2>8, <2>9, <2>10, <2>11, <2>12, <2>13, <2>14 DEF UsbInv
<1>24. ASSUME NEW s \in UsbServices, ServiceStart(s) PROVE UsbInv'
  <2>1. CASE uc.port = "io" /\ uf.fw = "up"
    <3>1. /\ uf'.msgs \in Seq(UsbMsgs) /\ uf'.msgs # <<>> /\ (uf.msgs # <<>> => Head(uf'.msgs) = Head(uf.msgs))
          /\ Without(uf.msgs, "trunk_W") => Without(uf'.msgs, "trunk_W")
          /\ uf.msgs # <<>> /\ Without(Tail(uf.msgs), "trunk_W") => Without(Tail(uf'.msgs), "trunk_W")
      <4> DEFINE m == uf.msgs
                 T == UsbMsgs
                 v == s
      <4>1. m \in Seq(T) /\ v \in T /\ v # "trunk_W" BY <1>0, <1>24 DEF UsbSaid, UsbMsgs, UsbServices
      <4>2. uf'.msgs = Append(m, v) BY <1>0, <1>24, <2>1 DEF ServiceStart
      <4> HIDE DEF m, T, v
      <4>3. /\ Append(m, v) \in Seq(T) /\ Append(m, v) # <<>> /\ (m # <<>> => Head(Append(m, v)) = Head(m))
            /\ \A w : v # w /\ Without(m, w) => Without(Append(m, v), w)
            /\ \A w : v # w /\ m # <<>> /\ Without(Tail(m), w) => Without(Tail(Append(m, v)), w)
        BY <4>1, Said
      <4> QED BY <4>1, <4>2, <4>3 DEF m, T
    <3>2. UsbShape' BY <1>0, <1>24, <2>1, <3>1 DEF ServiceStart, StartAsked, UsbServices
    <3>3. UsbSaid'
      BY <1>0, <1>24, <2>1, <3>1 DEF ServiceStart, StartAsked, UsbSaid, UsbMsgs, UsbServices
    <3>4. Packet(ul)' BY <1>0, <1>24, <2>1, <3>1 DEF ServiceStart, StartAsked, Packet
    <3>5. UhCount(uh)' BY <1>0, <1>24, <2>1, <3>1 DEF ServiceStart, StartAsked, UhCount
    <3>6. IoRuns' BY <1>0, <1>24, <2>1, <3>1 DEF ServiceStart, StartAsked, IoRuns
    <3>7. LoopRuns' BY <1>0, <1>24, <2>1, <3>1 DEF ServiceStart, StartAsked, LoopRuns, IoRuns
    <3>8. UsbTrunk'
      <4>1. uh.trunk \in BOOLEAN /\ uc'.port = uc.port /\ uh'.trunk = uh.trunk /\ (ul.loop = "read" => ul'.loop = "read")
        BY <1>0, <1>24, <2>1 DEF ServiceStart
      <4> QED BY <1>0, <4>1, <3>1 DEF UsbTrunk
    <3>9. NotSent' BY <1>0, <1>24, <2>1, <3>1 DEF ServiceStart, StartAsked, NotSent, Plainly, UsbTrunk
    <3>10. WellOK'
      BY <1>0, <1>24, <2>1, <3>1 DEF ServiceStart, StartAsked, WellOK, NotSent, InService, Plainly, IoRuns
    <3>11. AssertOK'
      BY <1>0, <1>24, <2>1, <3>1 DEF ServiceStart, StartAsked, AssertOK, WellOK, InService, UsbTrunk, LoopRuns,
         Plainly
    <3>12. HaltOK'
      BY <1>0, <1>24, <2>1, <3>1 DEF ServiceStart, StartAsked, HaltOK, UsbTrunk, InService, LoopRuns, IoRuns,
         Plainly, UhCount
    <3>13. ToldOK'
      BY <1>0, <1>24, <2>1, <3>1 DEF ServiceStart, StartAsked, ToldOK, AssertOK, WellOK, HaltOK, InService,
         LoopRuns, Plainly, UhCount
    <3>14. Forgotten'
      BY <1>0, <1>24, <2>1, <3>1 DEF ServiceStart, StartAsked, Forgotten, Sighted, ToldOK, LoopRuns, Plainly,
         UhCount, UsbServices
    <3>15. Reported'
      BY <1>0, <1>24, <2>1, <3>1 DEF ServiceStart, StartAsked, Reported, Forgotten, Sighted, Plainly, UsbServices
    <3> QED BY <3>2, <3>3, <3>4, <3>5, <3>6, <3>7, <3>8, <3>9, <3>10, <3>11, <3>12, <3>13, <3>14,
         <3>15 DEF UsbInv
  <2>2. CASE ~(uc.port = "io" /\ uf.fw = "up")
    <3>1. uf'.msgs = uf.msgs BY <1>0, <1>24, <2>2 DEF ServiceStart
    <3>2. UsbShape' BY <1>0, <1>24, <2>2, <3>1 DEF ServiceStart, StartAsked, UsbServices
    <3>3. UsbSaid'
      BY <1>0, <1>24, <2>2, <3>1 DEF ServiceStart, StartAsked, UsbSaid, UsbMsgs, UsbServices
    <3>4. Packet(ul)' BY <1>0, <1>24, <2>2, <3>1 DEF ServiceStart, StartAsked, Packet
    <3>5. UhCount(uh)' BY <1>0, <1>24, <2>2, <3>1 DEF ServiceStart, StartAsked, UhCount
    <3>6. IoRuns' BY <1>0, <1>24, <2>2, <3>1 DEF ServiceStart, StartAsked, IoRuns
    <3>7. LoopRuns' BY <1>0, <1>24, <2>2, <3>1 DEF ServiceStart, StartAsked, LoopRuns, IoRuns
    <3>8. UsbTrunk'
      <4>1. uh.trunk \in BOOLEAN /\ uc'.port = uc.port /\ uh'.trunk = uh.trunk /\ (ul.loop = "read" => ul'.loop = "read")
        BY <1>0, <1>24, <2>2 DEF ServiceStart
      <4> QED BY <1>0, <4>1, <3>1 DEF UsbTrunk
    <3>9. NotSent' BY <1>0, <1>24, <2>2, <3>1 DEF ServiceStart, StartAsked, NotSent, Plainly, UsbTrunk
    <3>10. WellOK'
      BY <1>0, <1>24, <2>2, <3>1 DEF ServiceStart, StartAsked, WellOK, NotSent, InService, Plainly, IoRuns
    <3>11. AssertOK'
      BY <1>0, <1>24, <2>2, <3>1 DEF ServiceStart, StartAsked, AssertOK, WellOK, InService, UsbTrunk, LoopRuns,
         Plainly
    <3>12. HaltOK'
      BY <1>0, <1>24, <2>2, <3>1 DEF ServiceStart, StartAsked, HaltOK, UsbTrunk, InService, LoopRuns, IoRuns,
         Plainly, UhCount
    <3>13. ToldOK'
      BY <1>0, <1>24, <2>2, <3>1 DEF ServiceStart, StartAsked, ToldOK, AssertOK, WellOK, HaltOK, InService,
         LoopRuns, Plainly, UhCount
    <3>14. Forgotten'
      BY <1>0, <1>24, <2>2, <3>1 DEF ServiceStart, StartAsked, Forgotten, Sighted, ToldOK, LoopRuns, Plainly,
         UhCount, UsbServices
    <3>15. Reported'
      BY <1>0, <1>24, <2>2, <3>1 DEF ServiceStart, StartAsked, Reported, Forgotten, Sighted, Plainly, UsbServices
    <3> QED BY <3>2, <3>3, <3>4, <3>5, <3>6, <3>7, <3>8, <3>9, <3>10, <3>11, <3>12, <3>13, <3>14,
         <3>15 DEF UsbInv
  <2> QED BY <2>1, <2>2
<1>25. ASSUME NEW s \in UsbServices, ServiceStop(s) PROVE UsbInv'
  <2>1. CASE s = "BT" /\ uc.port = "io" /\ uf.fw = "up"
    <3>1. /\ uf'.msgs \in Seq(UsbMsgs) /\ uf'.msgs # <<>> /\ (uf.msgs # <<>> => Head(uf'.msgs) = Head(uf.msgs))
          /\ Without(uf.msgs, "trunk_W") => Without(uf'.msgs, "trunk_W")
          /\ uf.msgs # <<>> /\ Without(Tail(uf.msgs), "trunk_W") => Without(Tail(uf'.msgs), "trunk_W")
      <4> DEFINE m == uf.msgs
                 T == UsbMsgs
                 v == "BTEXIT"
      <4>1. m \in Seq(T) /\ v \in T /\ v # "trunk_W" BY <1>0, <1>25 DEF UsbSaid, UsbMsgs, UsbServices
      <4>2. uf'.msgs = Append(m, v) BY <1>0, <1>25, <2>1 DEF ServiceStop
      <4> HIDE DEF m, T, v
      <4>3. /\ Append(m, v) \in Seq(T) /\ Append(m, v) # <<>> /\ (m # <<>> => Head(Append(m, v)) = Head(m))
            /\ \A w : v # w /\ Without(m, w) => Without(Append(m, v), w)
            /\ \A w : v # w /\ m # <<>> /\ Without(Tail(m), w) => Without(Tail(Append(m, v)), w)
        BY <4>1, Said
      <4> QED BY <4>1, <4>2, <4>3 DEF m, T
    <3>2. UsbShape' BY <1>0, <1>25, <2>1, <3>1 DEF ServiceStop, UsbServices
    <3>3. UsbSaid' BY <1>0, <1>25, <2>1, <3>1 DEF ServiceStop, UsbSaid, UsbMsgs, UsbServices
    <3>4. Packet(ul)' BY <1>0, <1>25, <2>1, <3>1 DEF ServiceStop, Packet
    <3>5. UhCount(uh)' BY <1>0, <1>25, <2>1, <3>1 DEF ServiceStop, UhCount
    <3>6. IoRuns' BY <1>0, <1>25, <2>1, <3>1 DEF ServiceStop, IoRuns
    <3>7. LoopRuns' BY <1>0, <1>25, <2>1, <3>1 DEF ServiceStop, LoopRuns, IoRuns
    <3>8. UsbTrunk'
      <4>1. uh.trunk \in BOOLEAN /\ uc'.port = uc.port /\ uh'.trunk = uh.trunk /\ (ul.loop = "read" => ul'.loop = "read")
        BY <1>0, <1>25, <2>1 DEF ServiceStop
      <4> QED BY <1>0, <4>1, <3>1 DEF UsbTrunk
    <3>9. NotSent' BY <1>0, <1>25, <2>1, <3>1 DEF ServiceStop, NotSent, Plainly, UsbTrunk
    <3>10. WellOK'
      BY <1>0, <1>25, <2>1, <3>1 DEF ServiceStop, WellOK, NotSent, InService, Plainly, IoRuns
    <3>11. AssertOK'
      BY <1>0, <1>25, <2>1, <3>1 DEF ServiceStop, AssertOK, WellOK, InService, UsbTrunk, LoopRuns, Plainly
    <3>12. HaltOK'
      BY <1>0, <1>25, <2>1, <3>1 DEF ServiceStop, HaltOK, UsbTrunk, InService, LoopRuns, IoRuns, Plainly, UhCount
    <3>13. ToldOK'
      BY <1>0, <1>25, <2>1, <3>1 DEF ServiceStop, ToldOK, AssertOK, WellOK, HaltOK, InService, LoopRuns, Plainly,
         UhCount
    <3>14. Forgotten'
      BY <1>0, <1>25, <2>1, <3>1 DEF ServiceStop, Forgotten, Sighted, ToldOK, LoopRuns, Plainly, UhCount,
         UsbServices
    <3>15. Reported'
      BY <1>0, <1>25, <2>1, <3>1 DEF ServiceStop, Reported, Forgotten, Sighted, Plainly, UsbServices
    <3> QED BY <3>2, <3>3, <3>4, <3>5, <3>6, <3>7, <3>8, <3>9, <3>10, <3>11, <3>12, <3>13, <3>14,
         <3>15 DEF UsbInv
  <2>2. CASE ~(s = "BT" /\ uc.port = "io" /\ uf.fw = "up")
    <3>1. uf'.msgs = uf.msgs BY <1>0, <1>25, <2>2 DEF ServiceStop
    <3>2. UsbShape' BY <1>0, <1>25, <2>2, <3>1 DEF ServiceStop, UsbServices
    <3>3. UsbSaid' BY <1>0, <1>25, <2>2, <3>1 DEF ServiceStop, UsbSaid, UsbMsgs, UsbServices
    <3>4. Packet(ul)' BY <1>0, <1>25, <2>2, <3>1 DEF ServiceStop, Packet
    <3>5. UhCount(uh)' BY <1>0, <1>25, <2>2, <3>1 DEF ServiceStop, UhCount
    <3>6. IoRuns' BY <1>0, <1>25, <2>2, <3>1 DEF ServiceStop, IoRuns
    <3>7. LoopRuns' BY <1>0, <1>25, <2>2, <3>1 DEF ServiceStop, LoopRuns, IoRuns
    <3>8. UsbTrunk'
      <4>1. uh.trunk \in BOOLEAN /\ uc'.port = uc.port /\ uh'.trunk = uh.trunk /\ (ul.loop = "read" => ul'.loop = "read")
        BY <1>0, <1>25, <2>2 DEF ServiceStop
      <4> QED BY <1>0, <4>1, <3>1 DEF UsbTrunk
    <3>9. NotSent' BY <1>0, <1>25, <2>2, <3>1 DEF ServiceStop, NotSent, Plainly, UsbTrunk
    <3>10. WellOK'
      BY <1>0, <1>25, <2>2, <3>1 DEF ServiceStop, WellOK, NotSent, InService, Plainly, IoRuns
    <3>11. AssertOK'
      BY <1>0, <1>25, <2>2, <3>1 DEF ServiceStop, AssertOK, WellOK, InService, UsbTrunk, LoopRuns, Plainly
    <3>12. HaltOK'
      BY <1>0, <1>25, <2>2, <3>1 DEF ServiceStop, HaltOK, UsbTrunk, InService, LoopRuns, IoRuns, Plainly, UhCount
    <3>13. ToldOK'
      BY <1>0, <1>25, <2>2, <3>1 DEF ServiceStop, ToldOK, AssertOK, WellOK, HaltOK, InService, LoopRuns, Plainly,
         UhCount
    <3>14. Forgotten'
      BY <1>0, <1>25, <2>2, <3>1 DEF ServiceStop, Forgotten, Sighted, ToldOK, LoopRuns, Plainly, UhCount,
         UsbServices
    <3>15. Reported'
      BY <1>0, <1>25, <2>2, <3>1 DEF ServiceStop, Reported, Forgotten, Sighted, Plainly, UsbServices
    <3> QED BY <3>2, <3>3, <3>4, <3>5, <3>6, <3>7, <3>8, <3>9, <3>10, <3>11, <3>12, <3>13, <3>14,
         <3>15 DEF UsbInv
  <2> QED BY <2>1, <2>2
<1>26. CASE UNCHANGED usbVars
  BY <1>0, <1>26 DEF UsbInv, usbVars, UsbServices, UsbSaid, UsbMsgs, Packet, UhCount, IoRuns, LoopRuns, UsbTrunk,
     NotSent, Plainly, WellOK, InService, AssertOK, HaltOK, ToldOK, Forgotten, Sighted, Reported
<1> QED BY <1>1, <1>2, <1>3, <1>4, <1>5, <1>6, <1>7, <1>8, <1>9, <1>10, <1>11, <1>12, <1>13, <1>14,
     <1>15, <1>16, <1>17, <1>18, <1>19, <1>20, <1>21, <1>22, <1>23, <1>24, <1>25, <1>26 DEF UsbNext, register_rx_callback, skw_usb_boot_loader, UsbServices

\* It starts without a firmware, with nothing sent.
LEMMA UsbBegin == UsbInit => UsbInv
<1> SUFFICES ASSUME UsbInit PROVE UsbInv OBVIOUS
<1>1. PICK n \in 0..1 : uf = [fw |-> "rom", msgs |-> <<>>, ops |-> n, deaths |-> 1 - n] BY DEF UsbInit
<1>2. uf.msgs = <<>> /\ uf.fw = "rom" /\ UfShape(uf) BY <1>1 DEF UfShape
<1>3. UcShape(uc) /\ UlShape(ul) /\ UhShape(uh) BY DEF UsbInit, UcShape, UlShape, UhShape, UsbServices
<1>4. uc.port = "none" /\ uc.map = {} /\ uc.cp_state = "ok" /\ ul.loop = "none" /\ uh.reports = 0
  BY DEF UsbInit
<1>5. Packet(ul) BY UsbAssumption DEF UsbInit, Packet
<1>6. UsbShape /\ UsbSaid /\ UhCount(uh) /\ IoRuns /\ LoopRuns /\ UsbTrunk
  BY <1>2, <1>3, <1>4 DEF UsbShape, UsbSaid, UhCount, IoRuns, LoopRuns, UsbTrunk
<1>7. NotSent /\ WellOK /\ AssertOK /\ HaltOK /\ ToldOK /\ Forgotten /\ Reported
  BY <1>4 DEF NotSent, WellOK, AssertOK, HaltOK, ToldOK, Forgotten, Reported, InService
<1> QED BY <1>5, <1>6, <1>7 DEF UsbInv

\* What the runs check follows.
LEMMA UsbHolds == UsbInv => ToldOnce /\ RunningIsReady /\ PacketsEnd /\ UsbTypeOK
<1> SUFFICES ASSUME UsbInv PROVE ToldOnce /\ RunningIsReady /\ PacketsEnd /\ UsbTypeOK OBVIOUS
<1>0. UsbShape /\ Packet(ul) /\ UhCount(uh) /\ ToldOK /\ Reported BY DEF UsbInv
<1>1. ToldOnce
  <2>1. CASE Plainly BY <1>0, <2>1 DEF ToldOK, UhCount, ToldOnce
  <2>2. CASE ~Plainly BY <2>2 DEF Plainly, ToldOnce
  <2> QED BY <2>1, <2>2
<1>2. RunningIsReady BY <1>0 DEF Reported, Sighted, Plainly, RunningIsReady
<1>3. PacketsEnd BY <1>0, UsbAssumption DEF Packet, PacketsEnd
<1>4. UsbTypeOK BY <1>0 DEF UsbShape, UcShape, UlShape, UfShape, UsbTypeOK
<1> QED BY <1>1, <1>2, <1>3, <1>4

\* Of the chip on a USB bus: a death is reported once, what counts as
\* running has said so, and no packet of an image ends a transfer early.
THEOREM DeathIsToldOnce == UsbSpec => [](ToldOnce /\ RunningIsReady /\ PacketsEnd)
<1> QED BY UsbBegin, UsbStep, UsbHolds, PTL DEF UsbSpec
=============================================================================
