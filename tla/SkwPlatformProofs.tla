------------------------- MODULE SkwPlatformProofs -------------------------
\* What stands on the buses, for every value of the constants: the
\* Bluetooth driver, the devices of the card, and what user space is shown
\* and has kept for it: the Bluetooth log, the character devices, the
\* firmware's log in files, the dump of its memory and the boot device.
\* Each part has an inductive invariant; the end of the module puts them
\* together with those of module SkwBusProofs, for module MCSkwPlatform.
EXTENDS SkwBusProofs

\* The Bluetooth driver.

\* A sequence of one value only, as it loses its first and gains a last.
Only(m, g) == \A i \in 1..Len(m) : m[i] = g

\* An empty queue has one value only, whichever.
LEMMA NoneYet == \A g : Only(<<>>, g)
  BY DEF Only

\* A queue of Nats: its first, what follows it, what is put behind it.
LEMMA Queue ==
    ASSUME NEW m \in Seq(Nat), NEW n \in Nat
    PROVE  /\ Append(m, n) \in Seq(Nat)
           /\ Append(m, n) # <<>>
           /\ m = <<>> => Tail(Append(m, n)) = <<>>
           /\ Only(m, n) => Only(Append(m, n), n)
           /\ m # <<>> => Tail(m) \in Seq(Nat) /\ (\A g : Only(m, g) => Head(m) = g /\ Only(Tail(m), g))
<1>1. Append(m, n) \in Seq(Nat) /\ Append(m, n) # <<>> BY AppendProperties
<1>2. m = <<>> => Tail(Append(m, n)) = <<>> OBVIOUS
<1>3. Only(m, n) => Only(Append(m, n), n) BY DEF Only
<1>4. ASSUME m # <<>> PROVE Tail(m) \in Seq(Nat) /\ (\A g : Only(m, g) => Head(m) = g /\ Only(Tail(m), g))
  <2>1. Tail(m) \in Seq(Nat) /\ Head(m) = m[1] /\ Len(m) > 0 BY <1>4
  <2>2. Len(Tail(m)) = Len(m) - 1 /\ \A i \in 1..Len(Tail(m)) : Tail(m)[i] = m[i + 1] BY <1>4
  <2> QED BY <2>1, <2>2 DEF Only
<1> QED BY <1>1, <1>2, <1>3, <1>4

\* What the variables of the driver may be.
BtDevice(b) ==
    /\ DOMAIN b = {"reg", "reject", "init", "evt", "notif", "isopen", "service", "sync", "ports", "q"}
    /\ b.reg \in BOOLEAN /\ b.reject \in BOOLEAN /\ b.init \in BOOLEAN /\ b.evt \in BOOLEAN
    /\ b.notif \in BOOLEAN /\ b.isopen \in BOOLEAN /\ b.service \in BOOLEAN
    /\ b.sync \in {"default", "close", "remove"} /\ b.ports \subseteq HciPorts
BtActors(a) ==
    /\ DOMAIN a = {"hci", "step", "remove", "note", "pend", "run"}
    /\ a.hci \in {"none", "down", "owait", "ports", "nv", "await", "up", "closing"}
    /\ a.remove \in {"none", "wait", "unreg"} /\ a.note \in {"idle", "assert", "ready", "flush"}
    /\ a.pend \in BOOLEAN /\ a.run \in BOOLEAN
BtFirmware(f) ==
    /\ DOMAIN f = {"alive", "gen", "ans", "ops", "faults", "removes", "stale", "ahead", "odd"}
    /\ f.alive \in BOOLEAN /\ f.stale \in BOOLEAN /\ f.ahead \in BOOLEAN
BtShape == BtDevice(bt) /\ BtActors(ba) /\ BtFirmware(bf)
BtQueue == bt.q \in Seq(Nat)
BtNumbers == ba.step \in 0..NvPages + 1 /\ bf.gen \in Nat /\ bf.ans \in Nat

\* Only an open device hears of the firmware, one that closes has nothing
\* queued, and one that the driver has not removed is registered.
Hears == /\ bt.notif => ba.hci \in {"up", "closing"}
         /\ ba.note # "idle" => bt.notif
         /\ IF bf.alive THEN ba.note # "assert" ELSE ba.note \in {"idle", "assert"}
Registered == /\ ba.hci = "none" => ba.remove = "none"
              /\ ba.hci # "none" /\ ba.remove # "unreg" => bt.reg
ClosingEmpty == ba.hci = "closing" => bt.q = <<>>

\* The ports are open while the NV data is sent and the device is up, and
\* nothing is held before the open and after the close.
OpenHas == /\ ba.hci \in {"nv", "await"} => bt.ports = HciPorts
           /\ ba.hci = "up" /\ "hollow" \notin bf.odd =>
                 bt.ports = HciPorts /\ (ba.remove # "unreg" => bt.notif)
ClosedHasNot == ba.hci \in {"none", "down"} /\ bf.odd \intersect {"leak", "hollow"} = {} =>
                    bt.ports = {} /\ ~bt.notif /\ ~bt.service
Rejecting == bt.reject /\ bt.reg => bt.notif \/ "abandoned" \in bf.odd

\* As long as the driver has heard of every death and every return: with a
\* dead firmware no open comes past the version, the open device rejects,
\* and what is queued for a living one is for it, up to the flush.
Heedful == "unheard" \notin bf.odd
DeadStops == Heedful /\ ~bf.alive =>
                 /\ bf.ans = 0
                 /\ ba.hci \in {"nv", "await"} => ba.step = 0
                 /\ ba.hci = "await" => ~bt.evt
DeadRejects == /\ Heedful /\ ba.remove = "none" /\ ~bf.alive /\ bt.notif /\ ba.note = "idle" => bt.reject
               /\ Heedful /\ ba.remove = "none" /\ ba.note = "ready" => bt.reject
QueueFresh == /\ Heedful /\ bf.alive => \/ Only(bt.q, bf.gen)
                                        \/ /\ ba.hci = "up"
                                           /\ ba.remove # "none" \/ ba.note \in {"ready", "flush"}
StaleOK == bf.stale => ~Heedful

\* As long as no command was given up either: nothing is queued before an
\* open, nothing on its way before a command, and then only that command,
\* or its answer.
Patient == Heedful /\ "givenup" \notin bf.odd
OneCommand == Patient => /\ ba.hci \in {"none", "down", "owait", "ports", "nv"} => bt.q = <<>>
                         /\ ba.hci = "nv" => bf.ans = 0
                         /\ ba.hci = "await" => IF bt.q = <<>> THEN bf.ans <= 1 /\ (bt.evt => bf.ans = 0)
                                                ELSE Tail(bt.q) = <<>> /\ bf.ans = 0 /\ ~bt.evt
AheadOK == bf.ahead => ~Patient
BtInv == /\ BtShape /\ BtQueue /\ BtNumbers /\ Hears /\ Registered /\ ClosingEmpty /\ OpenHas /\ ClosedHasNot
         /\ Rejecting /\ DeadStops /\ DeadRejects /\ QueueFresh /\ StaleOK /\ OneCommand /\ AheadOK

\* Every step of the Bluetooth driver keeps the invariant.
LEMMA BtStep ==
    ASSUME BtInv, [BtNext]_btVars
    PROVE  BtInv'
<1> USE DEF PortClosed, OpenDone, Closing, Odder, BtFaulty, BtFault, BtShape, BtDevice, BtActors, BtFirmware
<1>0. BtShape /\ BtQueue /\ BtNumbers /\ Hears /\ Registered /\ ClosingEmpty /\ OpenHas /\ ClosedHasNot /\ Rejecting /\ DeadStops /\ DeadRejects /\ QueueFresh /\ StaleOK /\ OneCommand /\ AheadOK
  BY DEF BtInv
<1>q. /\ Only(<<>>, bf.gen) /\ Only(<<>>, bf'.gen)
      /\ Append(bt.q, bf.gen) \in Seq(Nat) /\ Append(bt.q, bf.gen) # <<>>
      /\ bt.q = <<>> => Tail(Append(bt.q, bf.gen)) = <<>>
      /\ Only(bt.q, bf.gen) => Only(Append(bt.q, bf.gen), bf.gen)
      /\ bt.q # <<>> => Tail(bt.q) \in Seq(Nat)
      /\ bt.q # <<>> /\ Only(bt.q, bf.gen) => Head(bt.q) = bf.gen /\ Only(Tail(bt.q), bf.gen)
      /\ <<>> \in Seq(Nat)
  <2> DEFINE m == bt.q
         n == bf.gen
  <2>1. m \in Seq(Nat) /\ n \in Nat BY <1>0 DEF BtQueue, BtNumbers
  <2> HIDE DEF m, n
  <2>2. /\ Append(m, n) \in Seq(Nat) /\ Append(m, n) # <<>>
        /\ m = <<>> => Tail(Append(m, n)) = <<>>
        /\ Only(m, n) => Only(Append(m, n), n)
        /\ m # <<>> => Tail(m) \in Seq(Nat) /\ (\A g : Only(m, g) => Head(m) = g /\ Only(Tail(m), g))
    BY <2>1, Queue
  <2>3. <<>> \in Seq(Nat) OBVIOUS
  <2> QED BY <2>2, <2>3, NoneYet DEF m, n
<1>1. CASE btseekwave_probe
  <2>1. BtShape' BY <1>0, <1>1 DEF btseekwave_probe, HciPorts
  <2>2. BtQueue' BY <1>0, <1>1, <1>q DEF btseekwave_probe, BtQueue
  <2>3. BtNumbers' BY <1>0, <1>1, BtAssumption DEF btseekwave_probe, BtNumbers
  <2>4. Hears' BY <1>0, <1>1 DEF btseekwave_probe, Hears
  <2>5. Registered' BY <1>0, <1>1 DEF btseekwave_probe, Registered
  <2>6. ClosingEmpty' BY <1>0, <1>1 DEF btseekwave_probe, ClosingEmpty, Hears
  <2>7. OpenHas' BY <1>0, <1>1 DEF btseekwave_probe, OpenHas, Hears
  <2>8. ClosedHasNot' BY <1>0, <1>1 DEF btseekwave_probe, ClosedHasNot, OpenHas, Hears
  <2>9. Rejecting' BY <1>0, <1>1 DEF btseekwave_probe, Rejecting, Hears, Registered
  <2>10. DeadStops' BY <1>0, <1>1 DEF btseekwave_probe, DeadStops, Heedful, Hears, BtNumbers
  <2>11. DeadRejects'
    BY <1>0, <1>1 DEF btseekwave_probe, DeadRejects, DeadStops, Heedful, Hears, Registered
  <2>12. QueueFresh'
    BY <1>0, <1>1, <1>q DEF btseekwave_probe, QueueFresh, DeadRejects, ClosingEmpty, Registered, Heedful, Hears
  <2>13. StaleOK' BY <1>0, <1>1, <1>q DEF btseekwave_probe, StaleOK, QueueFresh, Heedful
  <2>14. OneCommand'
    BY <1>0, <1>1, <1>q DEF btseekwave_probe, OneCommand, ClosingEmpty, DeadStops, Patient, Heedful, Hears,
       BtNumbers
  <2>15. AheadOK' BY <1>0, <1>1, <1>q DEF btseekwave_probe, AheadOK, OneCommand, Patient, Heedful
  <2> QED BY <2>1, <2>2, <2>3, <2>4, <2>5, <2>6, <2>7, <2>8, <2>9, <2>10, <2>11, <2>12, <2>13, <2>14,
       <2>15 DEF BtInv
<1>2. CASE btseekwave_open
  <2>1. BtShape' BY <1>0, <1>2 DEF btseekwave_open, HciPorts
  <2>2. BtQueue' BY <1>0, <1>2, <1>q DEF btseekwave_open, BtQueue
  <2>3. BtNumbers' BY <1>0, <1>2, BtAssumption DEF btseekwave_open, BtNumbers
  <2>4. Hears' BY <1>0, <1>2 DEF btseekwave_open, Hears
  <2>5. Registered' BY <1>0, <1>2 DEF btseekwave_open, Registered
  <2>6. ClosingEmpty' BY <1>0, <1>2 DEF btseekwave_open, ClosingEmpty, Hears
  <2>7. OpenHas' BY <1>0, <1>2 DEF btseekwave_open, OpenHas, Hears
  <2>8. ClosedHasNot' BY <1>0, <1>2 DEF btseekwave_open, ClosedHasNot, OpenHas, Hears
  <2>9. Rejecting' BY <1>0, <1>2 DEF btseekwave_open, Rejecting, Hears, Registered
  <2>10. DeadStops' BY <1>0, <1>2 DEF btseekwave_open, DeadStops, Heedful, Hears, BtNumbers
  <2>11. DeadRejects'
    BY <1>0, <1>2 DEF btseekwave_open, DeadRejects, DeadStops, Heedful, Hears, Registered
  <2>12. QueueFresh'
    BY <1>0, <1>2, <1>q DEF btseekwave_open, QueueFresh, DeadRejects, ClosingEmpty, Registered, Heedful, Hears
  <2>13. StaleOK' BY <1>0, <1>2, <1>q DEF btseekwave_open, StaleOK, QueueFresh, Heedful
  <2>14. OneCommand'
    BY <1>0, <1>2, <1>q DEF btseekwave_open, OneCommand, ClosingEmpty, DeadStops, Patient, Heedful, Hears,
       BtNumbers
  <2>15. AheadOK' BY <1>0, <1>2, <1>q DEF btseekwave_open, AheadOK, OneCommand, Patient, Heedful
  <2> QED BY <2>1, <2>2, <2>3, <2>4, <2>5, <2>6, <2>7, <2>8, <2>9, <2>10, <2>11, <2>12, <2>13, <2>14,
       <2>15 DEF BtInv
<1>3. CASE OpenWaits
  <2>1. CASE bt.reject
    <3>1. BtShape' BY <1>0, <1>3, <2>1 DEF OpenWaits, HciPorts
    <3>2. BtQueue' BY <1>0, <1>3, <2>1, <1>q DEF OpenWaits, BtQueue
    <3>3. BtNumbers' BY <1>0, <1>3, <2>1, BtAssumption DEF OpenWaits, BtNumbers
    <3>4. Hears' BY <1>0, <1>3, <2>1 DEF OpenWaits, Hears
    <3>5. Registered' BY <1>0, <1>3, <2>1 DEF OpenWaits, Registered
    <3>6. ClosingEmpty' BY <1>0, <1>3, <2>1 DEF OpenWaits, ClosingEmpty, Hears
    <3>7. OpenHas' BY <1>0, <1>3, <2>1 DEF OpenWaits, OpenHas, Hears
    <3>8. ClosedHasNot' BY <1>0, <1>3, <2>1 DEF OpenWaits, ClosedHasNot, OpenHas, Hears
    <3>9. Rejecting' BY <1>0, <1>3, <2>1 DEF OpenWaits, Rejecting, Hears, Registered
    <3>10. DeadStops' BY <1>0, <1>3, <2>1 DEF OpenWaits, DeadStops, Heedful, Hears, BtNumbers
    <3>11. DeadRejects'
      BY <1>0, <1>3, <2>1 DEF OpenWaits, DeadRejects, DeadStops, Heedful, Hears, Registered
    <3>12. QueueFresh'
      BY <1>0, <1>3, <2>1, <1>q DEF OpenWaits, QueueFresh, DeadRejects, ClosingEmpty, Registered, Heedful, Hears
    <3>13. StaleOK' BY <1>0, <1>3, <2>1, <1>q DEF OpenWaits, StaleOK, QueueFresh, Heedful
    <3>14. OneCommand'
      BY <1>0, <1>3, <2>1, <1>q DEF OpenWaits, OneCommand, ClosingEmpty, DeadStops, Patient, Heedful, Hears,
         BtNumbers
    <3>15. AheadOK' BY <1>0, <1>3, <2>1, <1>q DEF OpenWaits, AheadOK, OneCommand, Patient, Heedful
    <3> QED BY <3>1, <3>2, <3>3, <3>4, <3>5, <3>6, <3>7, <3>8, <3>9, <3>10, <3>11, <3>12, <3>13,
         <3>14, <3>15 DEF BtInv
  <2>2. CASE ~(bt.reject)
    <3>1. BtShape' BY <1>0, <1>3, <2>2 DEF OpenWaits, HciPorts
    <3>2. BtQueue' BY <1>0, <1>3, <2>2, <1>q DEF OpenWaits, BtQueue
    <3>3. BtNumbers' BY <1>0, <1>3, <2>2, BtAssumption DEF OpenWaits, BtNumbers
    <3>4. Hears' BY <1>0, <1>3, <2>2 DEF OpenWaits, Hears
    <3>5. Registered' BY <1>0, <1>3, <2>2 DEF OpenWaits, Registered
    <3>6. ClosingEmpty' BY <1>0, <1>3, <2>2 DEF OpenWaits, ClosingEmpty, Hears
    <3>7. OpenHas' BY <1>0, <1>3, <2>2 DEF OpenWaits, OpenHas, Hears
    <3>8. ClosedHasNot' BY <1>0, <1>3, <2>2 DEF OpenWaits, ClosedHasNot, OpenHas, Hears
    <3>9. Rejecting' BY <1>0, <1>3, <2>2 DEF OpenWaits, Rejecting, Hears, Registered
    <3>10. DeadStops' BY <1>0, <1>3, <2>2 DEF OpenWaits, DeadStops, Heedful, Hears, BtNumbers
    <3>11. DeadRejects'
      BY <1>0, <1>3, <2>2 DEF OpenWaits, DeadRejects, DeadStops, Heedful, Hears, Registered
    <3>12. QueueFresh'
      BY <1>0, <1>3, <2>2, <1>q DEF OpenWaits, QueueFresh, DeadRejects, ClosingEmpty, Registered, Heedful, Hears
    <3>13. StaleOK' BY <1>0, <1>3, <2>2, <1>q DEF OpenWaits, StaleOK, QueueFresh, Heedful
    <3>14. OneCommand'
      BY <1>0, <1>3, <2>2, <1>q DEF OpenWaits, OneCommand, ClosingEmpty, DeadStops, Patient, Heedful, Hears,
         BtNumbers
    <3>15. AheadOK' BY <1>0, <1>3, <2>2, <1>q DEF OpenWaits, AheadOK, OneCommand, Patient, Heedful
    <3> QED BY <3>1, <3>2, <3>3, <3>4, <3>5, <3>6, <3>7, <3>8, <3>9, <3>10, <3>11, <3>12, <3>13,
         <3>14, <3>15 DEF BtInv
  <2> QED BY <2>1, <2>2
<1>4. CASE OpenPorts
  <2>1. ASSUME ba.hci = "ports", ba' = [ba EXCEPT !.hci = "nv", !.step = 0], bf' = [bf EXCEPT !.ans = 0], bt' = [bt EXCEPT !.ports = HciPorts, !.service = TRUE, !.init = TRUE] PROVE BtInv'
    <3>1. BtShape' BY <1>0, <2>1 DEF HciPorts
    <3>2. BtQueue' BY <1>0, <2>1, <1>q DEF BtQueue
    <3>3. BtNumbers' BY <1>0, <2>1, BtAssumption DEF BtNumbers
    <3>4. Hears' BY <1>0, <2>1 DEF Hears
    <3>5. Registered' BY <1>0, <2>1 DEF Registered
    <3>6. ClosingEmpty' BY <1>0, <2>1 DEF ClosingEmpty, Hears
    <3>7. OpenHas' BY <1>0, <2>1 DEF OpenHas, Hears
    <3>8. ClosedHasNot' BY <1>0, <2>1 DEF ClosedHasNot, OpenHas, Hears
    <3>9. Rejecting' BY <1>0, <2>1 DEF Rejecting, Hears, Registered
    <3>10. DeadStops' BY <1>0, <2>1 DEF DeadStops, Heedful, Hears, BtNumbers
    <3>11. DeadRejects' BY <1>0, <2>1 DEF DeadRejects, DeadStops, Heedful, Hears, Registered
    <3>12. QueueFresh'
      BY <1>0, <2>1, <1>q DEF QueueFresh, DeadRejects, ClosingEmpty, Registered, Heedful, Hears
    <3>13. StaleOK' BY <1>0, <2>1, <1>q DEF StaleOK, QueueFresh, Heedful
    <3>14. OneCommand'
      BY <1>0, <2>1, <1>q DEF OneCommand, ClosingEmpty, DeadStops, Patient, Heedful, Hears, BtNumbers
    <3>15. AheadOK' BY <1>0, <2>1, <1>q DEF AheadOK, OneCommand, Patient, Heedful
    <3> QED BY <3>1, <3>2, <3>3, <3>4, <3>5, <3>6, <3>7, <3>8, <3>9, <3>10, <3>11, <3>12, <3>13,
         <3>14, <3>15 DEF BtInv
  <2>2. ASSUME ba.hci = "ports", NEW got \in SUBSET HciPorts, bt' = [bt EXCEPT !.ports = @ \union got], bf' = BtFaulty(bf, "leak"), ba' = [ba EXCEPT !.hci = "down"] PROVE BtInv'
    <3>1. BtShape' BY <1>0, <2>2 DEF HciPorts
    <3>2. BtQueue' BY <1>0, <2>2, <1>q DEF BtQueue
    <3>3. BtNumbers' BY <1>0, <2>2, BtAssumption DEF BtNumbers
    <3>4. Hears' BY <1>0, <2>2 DEF Hears
    <3>5. Registered' BY <1>0, <2>2 DEF Registered
    <3>6. ClosingEmpty' BY <1>0, <2>2 DEF ClosingEmpty, Hears
    <3>7. OpenHas' BY <1>0, <2>2 DEF OpenHas, Hears
    <3>8. ClosedHasNot' BY <1>0, <2>2 DEF ClosedHasNot, OpenHas, Hears
    <3>9. Rejecting' BY <1>0, <2>2 DEF Rejecting, Hears, Registered
    <3>10. DeadStops' BY <1>0, <2>2 DEF DeadStops, Heedful, Hears, BtNumbers
    <3>11. DeadRejects' BY <1>0, <2>2 DEF DeadRejects, DeadStops, Heedful, Hears, Registered
    <3>12. QueueFresh'
      BY <1>0, <2>2, <1>q DEF QueueFresh, DeadRejects, ClosingEmpty, Registered, Heedful, Hears
    <3>13. StaleOK' BY <1>0, <2>2, <1>q DEF StaleOK, QueueFresh, Heedful
    <3>14. OneCommand'
      BY <1>0, <2>2, <1>q DEF OneCommand, ClosingEmpty, DeadStops, Patient, Heedful, Hears, BtNumbers
    <3>15. AheadOK' BY <1>0, <2>2, <1>q DEF AheadOK, OneCommand, Patient, Heedful
    <3> QED BY <3>1, <3>2, <3>3, <3>4, <3>5, <3>6, <3>7, <3>8, <3>9, <3>10, <3>11, <3>12, <3>13,
         <3>14, <3>15 DEF BtInv
  <2> QED BY <1>0, <1>4, <2>1, <2>2 DEF OpenPorts, HciPorts
<1>5. CASE btseekwave_send_hci_command
  <2>1. BtShape' BY <1>0, <1>5 DEF btseekwave_send_hci_command, HciPorts
  <2>2. BtQueue' BY <1>0, <1>5, <1>q DEF btseekwave_send_hci_command, BtQueue
  <2>3. BtNumbers' BY <1>0, <1>5, BtAssumption DEF btseekwave_send_hci_command, BtNumbers
  <2>4. Hears' BY <1>0, <1>5 DEF btseekwave_send_hci_command, Hears
  <2>5. Registered' BY <1>0, <1>5 DEF btseekwave_send_hci_command, Registered
  <2>6. ClosingEmpty' BY <1>0, <1>5 DEF btseekwave_send_hci_command, ClosingEmpty, Hears
  <2>7. OpenHas' BY <1>0, <1>5 DEF btseekwave_send_hci_command, OpenHas, Hears
  <2>8. ClosedHasNot' BY <1>0, <1>5 DEF btseekwave_send_hci_command, ClosedHasNot, OpenHas, Hears
  <2>9. Rejecting' BY <1>0, <1>5 DEF btseekwave_send_hci_command, Rejecting, Hears, Registered
  <2>10. DeadStops'
    BY <1>0, <1>5 DEF btseekwave_send_hci_command, DeadStops, Heedful, Hears, BtNumbers
  <2>11. DeadRejects'
    BY <1>0, <1>5 DEF btseekwave_send_hci_command, DeadRejects, DeadStops, Heedful, Hears, Registered
  <2>12. QueueFresh'
    BY <1>0, <1>5, <1>q DEF btseekwave_send_hci_command, QueueFresh, DeadRejects, ClosingEmpty, Registered,
       Heedful, Hears
  <2>13. StaleOK' BY <1>0, <1>5, <1>q DEF btseekwave_send_hci_command, StaleOK, QueueFresh, Heedful
  <2>14. OneCommand'
    BY <1>0, <1>5, <1>q DEF btseekwave_send_hci_command, OneCommand, ClosingEmpty, DeadStops, Patient, Heedful,
       Hears, BtNumbers
  <2>15. AheadOK'
    BY <1>0, <1>5, <1>q DEF btseekwave_send_hci_command, AheadOK, OneCommand, Patient, Heedful
  <2> QED BY <2>1, <2>2, <2>3, <2>4, <2>5, <2>6, <2>7, <2>8, <2>9, <2>10, <2>11, <2>12, <2>13, <2>14,
       <2>15 DEF BtInv
<1>6. CASE btseekwave_download_nv
  <2>1. CASE ba.step <= NvPages
    <3>1. /\ ba.hci = "await" /\ bt.evt /\ DOMAIN bf' = DOMAIN bf /\ bf'.ahead \in BOOLEAN
          /\ bf'.alive = bf.alive /\ bf'.gen = bf.gen /\ bf'.ans = bf.ans /\ bf'.stale = bf.stale /\ bf'.odd = bf.odd
          /\ bf'.ahead => bf.ahead \/ bt.q # <<>>
      <4> DEFINE r == bf.ahead \/ bt.q # <<>>
      <4>1. r \in BOOLEAN /\ (r => bf.ahead \/ bt.q # <<>>) OBVIOUS
      <4>2. ba.hci = "await" /\ bt.evt /\ bf' = [bf EXCEPT !.ahead = r]
        BY <1>6 DEF btseekwave_download_nv
      <4> HIDE DEF r
      <4> QED BY <1>0, <4>1, <4>2
    <3>2. ba' = [ba EXCEPT !.hci = "nv", !.step = @ + 1] /\ bt' = bt /\ ba.step <= NvPages
      BY <1>6, <2>1 DEF btseekwave_download_nv
    <3>3. BtShape' BY ZenonT(40), <1>0, <2>1, <3>1, <3>2 DEF HciPorts
    <3>4. BtQueue' BY <1>0, <2>1, <3>1, <3>2, <1>q DEF BtQueue
    <3>5. BtNumbers' BY <1>0, <2>1, <3>1, <3>2, BtAssumption DEF BtNumbers
    <3>6. Hears' BY <1>0, <2>1, <3>1, <3>2 DEF Hears
    <3>7. Registered' BY <1>0, <2>1, <3>1, <3>2 DEF Registered
    <3>8. ClosingEmpty' BY <1>0, <2>1, <3>1, <3>2 DEF ClosingEmpty, Hears
    <3>9. OpenHas' BY <1>0, <2>1, <3>1, <3>2 DEF OpenHas, Hears
    <3>10. ClosedHasNot' BY <1>0, <2>1, <3>1, <3>2 DEF ClosedHasNot, OpenHas, Hears
    <3>11. Rejecting' BY <1>0, <2>1, <3>1, <3>2 DEF Rejecting, Hears, Registered
    <3>12. DeadStops' BY <1>0, <2>1, <3>1, <3>2 DEF DeadStops, Heedful, Hears, BtNumbers
    <3>13. DeadRejects'
      BY <1>0, <2>1, <3>1, <3>2 DEF DeadRejects, DeadStops, Heedful, Hears, Registered
    <3>14. QueueFresh'
      BY <1>0, <2>1, <3>1, <3>2, <1>q DEF QueueFresh, DeadRejects, ClosingEmpty, Registered, Heedful, Hears
    <3>15. StaleOK' BY <1>0, <2>1, <3>1, <3>2, <1>q DEF StaleOK, QueueFresh, Heedful
    <3>16. OneCommand'
      BY <1>0, <2>1, <3>1, <3>2, <1>q DEF OneCommand, ClosingEmpty, DeadStops, Patient, Heedful, Hears, BtNumbers
    <3>17. AheadOK' BY <1>0, <2>1, <3>1, <3>2, <1>q DEF AheadOK, OneCommand, Patient, Heedful
    <3> QED BY <3>3, <3>4, <3>5, <3>6, <3>7, <3>8, <3>9, <3>10, <3>11, <3>12, <3>13, <3>14, <3>15,
         <3>16, <3>17 DEF BtInv
  <2>2. CASE ~(ba.step <= NvPages)
    <3>1. /\ ba.hci = "await" /\ bt.evt /\ DOMAIN bf' = DOMAIN bf /\ bf'.ahead \in BOOLEAN
          /\ bf'.alive = bf.alive /\ bf'.gen = bf.gen /\ bf'.ans = bf.ans /\ bf'.stale = bf.stale /\ bf'.odd = bf.odd
          /\ bf'.ahead => bf.ahead \/ bt.q # <<>>
      <4> DEFINE r == bf.ahead \/ bt.q # <<>>
      <4>1. r \in BOOLEAN /\ (r => bf.ahead \/ bt.q # <<>>) OBVIOUS
      <4>2. ba.hci = "await" /\ bt.evt /\ bf' = [bf EXCEPT !.ahead = r]
        BY <1>6 DEF btseekwave_download_nv
      <4> HIDE DEF r
      <4> QED BY <1>0, <4>1, <4>2
    <3>2. ba' = [ba EXCEPT !.hci = "up"] /\ bt' = OpenDone(bt) /\ ~(ba.step <= NvPages)
      BY <1>6, <2>2 DEF btseekwave_download_nv
    <3>3. BtShape' BY <1>0, <2>2, <3>1, <3>2 DEF HciPorts
    <3>4. BtQueue' BY <1>0, <2>2, <3>1, <3>2, <1>q DEF BtQueue
    <3>5. BtNumbers' BY <1>0, <2>2, <3>1, <3>2, BtAssumption DEF BtNumbers
    <3>6. Hears' BY <1>0, <2>2, <3>1, <3>2 DEF Hears
    <3>7. Registered' BY <1>0, <2>2, <3>1, <3>2 DEF Registered
    <3>8. ClosingEmpty' BY <1>0, <2>2, <3>1, <3>2 DEF ClosingEmpty, Hears
    <3>9. OpenHas' BY <1>0, <2>2, <3>1, <3>2 DEF OpenHas, Hears
    <3>10. ClosedHasNot' BY <1>0, <2>2, <3>1, <3>2 DEF ClosedHasNot, OpenHas, Hears
    <3>11. Rejecting' BY <1>0, <2>2, <3>1, <3>2 DEF Rejecting, Hears, Registered
    <3>12. DeadStops' BY <1>0, <2>2, <3>1, <3>2 DEF DeadStops, Heedful, Hears, BtNumbers
    <3>13. DeadRejects'
      BY <1>0, <2>2, <3>1, <3>2 DEF DeadRejects, DeadStops, Heedful, Hears, Registered
    <3>14. QueueFresh'
      BY <1>0, <2>2, <3>1, <3>2, <1>q DEF QueueFresh, DeadRejects, ClosingEmpty, Registered, Heedful, Hears
    <3>15. StaleOK' BY <1>0, <2>2, <3>1, <3>2, <1>q DEF StaleOK, QueueFresh, Heedful
    <3>16. OneCommand'
      BY <1>0, <2>2, <3>1, <3>2, <1>q DEF OneCommand, ClosingEmpty, DeadStops, Patient, Heedful, Hears, BtNumbers
    <3>17. AheadOK' BY <1>0, <2>2, <3>1, <3>2, <1>q DEF AheadOK, OneCommand, Patient, Heedful
    <3> QED BY <3>3, <3>4, <3>5, <3>6, <3>7, <3>8, <3>9, <3>10, <3>11, <3>12, <3>13, <3>14, <3>15,
         <3>16, <3>17 DEF BtInv
  <2> QED BY <2>1, <2>2
<1>7. CASE NvTimeout
  <2>1. ASSUME ba.hci = "await", ~bt.evt, ba.step = 0, ba' = [ba EXCEPT !.hci = "down"], bf' = [BtFaulty(Odder(bf, "givenup"), "unheard") EXCEPT !.alive = FALSE], bt' = [PortClosed(bt) EXCEPT !.sync = "default"] PROVE BtInv'
    <3>1. BtShape' BY <1>0, <2>1 DEF HciPorts
    <3>2. BtQueue' BY <1>0, <2>1, <1>q DEF BtQueue
    <3>3. BtNumbers' BY <1>0, <2>1, BtAssumption DEF BtNumbers
    <3>4. Hears' BY <1>0, <2>1 DEF Hears
    <3>5. Registered' BY <1>0, <2>1 DEF Registered
    <3>6. ClosingEmpty' BY <1>0, <2>1 DEF ClosingEmpty, Hears
    <3>7. OpenHas' BY <1>0, <2>1 DEF OpenHas, Hears
    <3>8. ClosedHasNot' BY <1>0, <2>1 DEF ClosedHasNot, OpenHas, Hears
    <3>9. Rejecting' BY <1>0, <2>1 DEF Rejecting, Hears, Registered
    <3>10. DeadStops' BY <1>0, <2>1 DEF DeadStops, Heedful, Hears, BtNumbers
    <3>11. DeadRejects' BY <1>0, <2>1 DEF DeadRejects, DeadStops, Heedful, Hears, Registered
    <3>12. QueueFresh'
      BY <1>0, <2>1, <1>q DEF QueueFresh, DeadRejects, ClosingEmpty, Registered, Heedful, Hears
    <3>13. StaleOK' BY <1>0, <2>1, <1>q DEF StaleOK, QueueFresh, Heedful
    <3>14. OneCommand'
      BY <1>0, <2>1, <1>q DEF OneCommand, ClosingEmpty, DeadStops, Patient, Heedful, Hears, BtNumbers
    <3>15. AheadOK' BY <1>0, <2>1, <1>q DEF AheadOK, OneCommand, Patient, Heedful
    <3> QED BY <3>1, <3>2, <3>3, <3>4, <3>5, <3>6, <3>7, <3>8, <3>9, <3>10, <3>11, <3>12, <3>13,
         <3>14, <3>15 DEF BtInv
  <2>2. ASSUME ba.hci = "await", ~bt.evt, ba.step \in 1..NvPages, bf' = BtFaulty(bf, "givenup"), ba' = [ba EXCEPT !.hci = "down"], bt' = [PortClosed(bt) EXCEPT !.sync = "default", !.init = FALSE] PROVE BtInv'
    <3>1. BtShape' BY <1>0, <2>2 DEF HciPorts
    <3>2. BtQueue' BY <1>0, <2>2, <1>q DEF BtQueue
    <3>3. BtNumbers' BY <1>0, <2>2, BtAssumption DEF BtNumbers
    <3>4. Hears' BY <1>0, <2>2 DEF Hears
    <3>5. Registered' BY <1>0, <2>2 DEF Registered
    <3>6. ClosingEmpty' BY <1>0, <2>2 DEF ClosingEmpty, Hears
    <3>7. OpenHas' BY <1>0, <2>2 DEF OpenHas, Hears
    <3>8. ClosedHasNot' BY <1>0, <2>2 DEF ClosedHasNot, OpenHas, Hears
    <3>9. Rejecting' BY <1>0, <2>2 DEF Rejecting, Hears, Registered
    <3>10. DeadStops' BY <1>0, <2>2 DEF DeadStops, Heedful, Hears, BtNumbers
    <3>11. DeadRejects' BY <1>0, <2>2 DEF DeadRejects, DeadStops, Heedful, Hears, Registered
    <3>12. QueueFresh'
      BY <1>0, <2>2, <1>q DEF QueueFresh, DeadRejects, ClosingEmpty, Registered, Heedful, Hears
    <3>13. StaleOK' BY <1>0, <2>2, <1>q DEF StaleOK, QueueFresh, Heedful
    <3>14. OneCommand'
      BY <1>0, <2>2, <1>q DEF OneCommand, ClosingEmpty, DeadStops, Patient, Heedful, Hears, BtNumbers
    <3>15. AheadOK' BY <1>0, <2>2, <1>q DEF AheadOK, OneCommand, Patient, Heedful
    <3> QED BY <3>1, <3>2, <3>3, <3>4, <3>5, <3>6, <3>7, <3>8, <3>9, <3>10, <3>11, <3>12, <3>13,
         <3>14, <3>15 DEF BtInv
  <2>3. ASSUME ba.hci = "await", ~bt.evt, ba.step \in 1..NvPages, bf' = BtFaulty(bf, "givenup"), ba' = [ba EXCEPT !.hci = "nv", !.step = NvPages + 1], bt' = bt PROVE BtInv'
    <3>1. BtShape' BY <1>0, <2>3 DEF HciPorts
    <3>2. BtQueue' BY <1>0, <2>3, <1>q DEF BtQueue
    <3>3. BtNumbers' BY <1>0, <2>3, BtAssumption DEF BtNumbers
    <3>4. Hears' BY <1>0, <2>3 DEF Hears
    <3>5. Registered' BY <1>0, <2>3 DEF Registered
    <3>6. ClosingEmpty' BY <1>0, <2>3 DEF ClosingEmpty, Hears
    <3>7. OpenHas' BY <1>0, <2>3 DEF OpenHas, Hears
    <3>8. ClosedHasNot' BY <1>0, <2>3 DEF ClosedHasNot, OpenHas, Hears
    <3>9. Rejecting' BY <1>0, <2>3 DEF Rejecting, Hears, Registered
    <3>10. DeadStops' BY <1>0, <2>3 DEF DeadStops, Heedful, Hears, BtNumbers
    <3>11. DeadRejects' BY <1>0, <2>3 DEF DeadRejects, DeadStops, Heedful, Hears, Registered
    <3>12. QueueFresh'
      BY <1>0, <2>3, <1>q DEF QueueFresh, DeadRejects, ClosingEmpty, Registered, Heedful, Hears
    <3>13. StaleOK' BY <1>0, <2>3, <1>q DEF StaleOK, QueueFresh, Heedful
    <3>14. OneCommand'
      BY <1>0, <2>3, <1>q DEF OneCommand, ClosingEmpty, DeadStops, Patient, Heedful, Hears, BtNumbers
    <3>15. AheadOK' BY <1>0, <2>3, <1>q DEF AheadOK, OneCommand, Patient, Heedful
    <3> QED BY <3>1, <3>2, <3>3, <3>4, <3>5, <3>6, <3>7, <3>8, <3>9, <3>10, <3>11, <3>12, <3>13,
         <3>14, <3>15 DEF BtInv
  <2>4. ASSUME ba.hci = "await", ~bt.evt, ba.step > NvPages, bf' = BtFaulty(bf, "givenup"), ba' = [ba EXCEPT !.hci = "up"], bt' = OpenDone(bt) PROVE BtInv'
    <3>1. ba.step # 0 BY <2>4, BtAssumption
    <3>2. BtShape' BY <1>0, <2>4, <3>1 DEF HciPorts
    <3>3. BtQueue' BY <1>0, <2>4, <3>1, <1>q DEF BtQueue
    <3>4. BtNumbers' BY <1>0, <2>4, <3>1, BtAssumption DEF BtNumbers
    <3>5. Hears' BY <1>0, <2>4, <3>1 DEF Hears
    <3>6. Registered' BY <1>0, <2>4, <3>1 DEF Registered
    <3>7. ClosingEmpty' BY <1>0, <2>4, <3>1 DEF ClosingEmpty, Hears
    <3>8. OpenHas' BY <1>0, <2>4, <3>1 DEF OpenHas, Hears
    <3>9. ClosedHasNot' BY <1>0, <2>4, <3>1 DEF ClosedHasNot, OpenHas, Hears
    <3>10. Rejecting' BY <1>0, <2>4, <3>1 DEF Rejecting, Hears, Registered
    <3>11. DeadStops' BY <1>0, <2>4, <3>1 DEF DeadStops, Heedful, Hears, BtNumbers
    <3>12. DeadRejects' BY <1>0, <2>4, <3>1 DEF DeadRejects, DeadStops, Heedful, Hears, Registered
    <3>13. QueueFresh'
      BY <1>0, <2>4, <3>1, <1>q DEF QueueFresh, DeadRejects, ClosingEmpty, Registered, Heedful, Hears
    <3>14. StaleOK' BY <1>0, <2>4, <3>1, <1>q DEF StaleOK, QueueFresh, Heedful
    <3>15. OneCommand'
      BY <1>0, <2>4, <3>1, <1>q DEF OneCommand, ClosingEmpty, DeadStops, Patient, Heedful, Hears, BtNumbers
    <3>16. AheadOK' BY <1>0, <2>4, <3>1, <1>q DEF AheadOK, OneCommand, Patient, Heedful
    <3> QED BY <3>2, <3>3, <3>4, <3>5, <3>6, <3>7, <3>8, <3>9, <3>10, <3>11, <3>12, <3>13, <3>14,
         <3>15, <3>16 DEF BtInv
  <2> QED BY <1>0, <1>7, <2>1, <2>2, <2>3, <2>4 DEF NvTimeout, HciPorts
<1>8. CASE NvFileMissing
  <2>1. BtShape' BY <1>0, <1>8 DEF NvFileMissing, HciPorts
  <2>2. BtQueue' BY <1>0, <1>8, <1>q DEF NvFileMissing, BtQueue
  <2>3. BtNumbers' BY <1>0, <1>8, BtAssumption DEF NvFileMissing, BtNumbers
  <2>4. Hears' BY <1>0, <1>8 DEF NvFileMissing, Hears
  <2>5. Registered' BY <1>0, <1>8 DEF NvFileMissing, Registered
  <2>6. ClosingEmpty' BY <1>0, <1>8 DEF NvFileMissing, ClosingEmpty, Hears
  <2>7. OpenHas' BY <1>0, <1>8 DEF NvFileMissing, OpenHas, Hears
  <2>8. ClosedHasNot' BY <1>0, <1>8 DEF NvFileMissing, ClosedHasNot, OpenHas, Hears
  <2>9. Rejecting' BY <1>0, <1>8 DEF NvFileMissing, Rejecting, Hears, Registered
  <2>10. DeadStops' BY <1>0, <1>8 DEF NvFileMissing, DeadStops, Heedful, Hears, BtNumbers
  <2>11. DeadRejects'
    BY <1>0, <1>8 DEF NvFileMissing, DeadRejects, DeadStops, Heedful, Hears, Registered
  <2>12. QueueFresh'
    BY <1>0, <1>8, <1>q DEF NvFileMissing, QueueFresh, DeadRejects, ClosingEmpty, Registered, Heedful, Hears
  <2>13. StaleOK' BY <1>0, <1>8, <1>q DEF NvFileMissing, StaleOK, QueueFresh, Heedful
  <2>14. OneCommand'
    BY <1>0, <1>8, <1>q DEF NvFileMissing, OneCommand, ClosingEmpty, DeadStops, Patient, Heedful, Hears, BtNumbers
  <2>15. AheadOK' BY <1>0, <1>8, <1>q DEF NvFileMissing, AheadOK, OneCommand, Patient, Heedful
  <2> QED BY <2>1, <2>2, <2>3, <2>4, <2>5, <2>6, <2>7, <2>8, <2>9, <2>10, <2>11, <2>12, <2>13, <2>14,
       <2>15 DEF BtInv
<1>9. CASE btseekwave_send_frame
  <2>1. BtShape' BY <1>0, <1>9 DEF btseekwave_send_frame, HciPorts
  <2>2. BtQueue' BY <1>0, <1>9, <1>q DEF btseekwave_send_frame, BtQueue
  <2>3. BtNumbers' BY <1>0, <1>9, BtAssumption DEF btseekwave_send_frame, BtNumbers
  <2>4. Hears' BY <1>0, <1>9 DEF btseekwave_send_frame, Hears
  <2>5. Registered' BY <1>0, <1>9 DEF btseekwave_send_frame, Registered
  <2>6. ClosingEmpty' BY <1>0, <1>9 DEF btseekwave_send_frame, ClosingEmpty, Hears
  <2>7. OpenHas' BY <1>0, <1>9 DEF btseekwave_send_frame, OpenHas, Hears
  <2>8. ClosedHasNot' BY <1>0, <1>9 DEF btseekwave_send_frame, ClosedHasNot, OpenHas, Hears
  <2>9. Rejecting' BY <1>0, <1>9 DEF btseekwave_send_frame, Rejecting, Hears, Registered
  <2>10. DeadStops' BY <1>0, <1>9 DEF btseekwave_send_frame, DeadStops, Heedful, Hears, BtNumbers
  <2>11. DeadRejects'
    BY <1>0, <1>9 DEF btseekwave_send_frame, DeadRejects, DeadStops, Heedful, Hears, Registered
  <2>12. QueueFresh'
    BY <1>0, <1>9, <1>q DEF btseekwave_send_frame, QueueFresh, DeadRejects, ClosingEmpty, Registered, Heedful,
       Hears
  <2>13. StaleOK' BY <1>0, <1>9, <1>q DEF btseekwave_send_frame, StaleOK, QueueFresh, Heedful
  <2>14. OneCommand'
    BY <1>0, <1>9, <1>q DEF btseekwave_send_frame, OneCommand, ClosingEmpty, DeadStops, Patient, Heedful, Hears,
       BtNumbers
  <2>15. AheadOK' BY <1>0, <1>9, <1>q DEF btseekwave_send_frame, AheadOK, OneCommand, Patient, Heedful
  <2> QED BY <2>1, <2>2, <2>3, <2>4, <2>5, <2>6, <2>7, <2>8, <2>9, <2>10, <2>11, <2>12, <2>13, <2>14,
       <2>15 DEF BtInv
<1>10. CASE btseekwave_work
  <2>1. BtShape' BY <1>0, <1>10 DEF btseekwave_work, HciPorts
  <2>2. BtQueue' BY <1>0, <1>10, <1>q DEF btseekwave_work, BtQueue
  <2>3. BtNumbers' BY <1>0, <1>10, BtAssumption DEF btseekwave_work, BtNumbers
  <2>4. Hears' BY <1>0, <1>10 DEF btseekwave_work, Hears
  <2>5. Registered' BY <1>0, <1>10 DEF btseekwave_work, Registered
  <2>6. ClosingEmpty' BY <1>0, <1>10 DEF btseekwave_work, ClosingEmpty, Hears
  <2>7. OpenHas' BY <1>0, <1>10 DEF btseekwave_work, OpenHas, Hears
  <2>8. ClosedHasNot' BY <1>0, <1>10 DEF btseekwave_work, ClosedHasNot, OpenHas, Hears
  <2>9. Rejecting' BY <1>0, <1>10 DEF btseekwave_work, Rejecting, Hears, Registered
  <2>10. DeadStops' BY <1>0, <1>10 DEF btseekwave_work, DeadStops, Heedful, Hears, BtNumbers
  <2>11. DeadRejects'
    BY <1>0, <1>10 DEF btseekwave_work, DeadRejects, DeadStops, Heedful, Hears, Registered
  <2>12. QueueFresh'
    BY <1>0, <1>10, <1>q DEF btseekwave_work, QueueFresh, DeadRejects, ClosingEmpty, Registered, Heedful, Hears
  <2>13. StaleOK' BY <1>0, <1>10, <1>q DEF btseekwave_work, StaleOK, QueueFresh, Heedful
  <2>14. OneCommand'
    BY <1>0, <1>10, <1>q DEF btseekwave_work, OneCommand, ClosingEmpty, DeadStops, Patient, Heedful, Hears,
       BtNumbers
  <2>15. AheadOK' BY <1>0, <1>10, <1>q DEF btseekwave_work, AheadOK, OneCommand, Patient, Heedful
  <2> QED BY <2>1, <2>2, <2>3, <2>4, <2>5, <2>6, <2>7, <2>8, <2>9, <2>10, <2>11, <2>12, <2>13, <2>14,
       <2>15 DEF BtInv
<1>11. CASE btseekwave_tx_packet
  <2>1. ASSUME bt.q # <<>>, bt.ports = HciPorts, bf' = [bf EXCEPT !.ans = IF bf.alive /\ bf.gen = Head(bt.q) THEN @ + 1 ELSE @, !.stale = @ \/ (/\ bf.alive /\ bf.gen # Head(bt.q) /\ ba.remove = "none" /\ ba.note \notin {"ready", "flush"})], ba' = ba, bt' = [bt EXCEPT !.q = Tail(@)] PROVE BtInv'
    <3>1. /\ DOMAIN bf' = DOMAIN bf /\ bf'.stale \in BOOLEAN /\ bf'.ans \in {bf.ans, bf.ans + 1}
          /\ bf'.alive = bf.alive /\ bf'.gen = bf.gen /\ bf'.ahead = bf.ahead /\ bf'.odd = bf.odd
          /\ ~bf.alive => bf'.ans = bf.ans
          /\ bf'.stale => \/ bf.stale
                          \/ bf.alive /\ bf.gen # Head(bt.q) /\ ba.remove = "none" /\ ba.note \notin {"ready", "flush"}
      <4> DEFINE r == bf.stale \/ (/\ bf.alive /\ bf.gen # Head(bt.q) /\ ba.remove = "none"
                                 /\ ba.note \notin {"ready", "flush"})
      <4>1. r \in BOOLEAN /\ (r => bf.stale \/ (bf.alive /\ bf.gen # Head(bt.q) /\ ba.remove = "none" /\ ba.note \notin {"ready", "flush"}))
        OBVIOUS
      <4>2. bf' = [bf EXCEPT !.ans = IF bf.alive /\ bf.gen = Head(bt.q) THEN @ + 1 ELSE @, !.stale = r]
        BY <2>1 DEF r
      <4> HIDE DEF r
      <4> QED BY <1>0, <4>1, <4>2
    <3>2. BtShape' BY <1>0, <2>1, <3>1 DEF HciPorts
    <3>3. BtQueue' BY <1>0, <2>1, <3>1, <1>q DEF BtQueue
    <3>4. BtNumbers' BY <1>0, <2>1, <3>1, BtAssumption DEF BtNumbers
    <3>5. Hears' BY <1>0, <2>1, <3>1 DEF Hears
    <3>6. Registered' BY <1>0, <2>1, <3>1 DEF Registered
    <3>7. ClosingEmpty' BY <1>0, <2>1, <3>1 DEF ClosingEmpty, Hears
    <3>8. OpenHas' BY <1>0, <2>1, <3>1 DEF OpenHas, Hears
    <3>9. ClosedHasNot' BY <1>0, <2>1, <3>1 DEF ClosedHasNot, OpenHas, Hears
    <3>10. Rejecting' BY <1>0, <2>1, <3>1 DEF Rejecting, Hears, Registered
    <3>11. DeadStops' BY <1>0, <2>1, <3>1 DEF DeadStops, Heedful, Hears, BtNumbers
    <3>12. DeadRejects' BY <1>0, <2>1, <3>1 DEF DeadRejects, DeadStops, Heedful, Hears, Registered
    <3>13. QueueFresh'
      BY <1>0, <2>1, <3>1, <1>q DEF QueueFresh, DeadRejects, ClosingEmpty, Registered, Heedful, Hears
    <3>14. StaleOK' BY <1>0, <2>1, <3>1, <1>q DEF StaleOK, QueueFresh, Heedful
    <3>15. OneCommand'
      BY <1>0, <2>1, <3>1, <1>q DEF OneCommand, ClosingEmpty, DeadStops, Patient, Heedful, Hears, BtNumbers
    <3>16. AheadOK' BY <1>0, <2>1, <3>1, <1>q DEF AheadOK, OneCommand, Patient, Heedful
    <3> QED BY <3>2, <3>3, <3>4, <3>5, <3>6, <3>7, <3>8, <3>9, <3>10, <3>11, <3>12, <3>13, <3>14,
         <3>15, <3>16 DEF BtInv
  <2>2. ASSUME bt' = bt, bf' = bf, ba' = [ba EXCEPT !.run = FALSE] PROVE BtInv'
    <3>1. BtShape' BY <1>0, <2>2 DEF HciPorts
    <3>2. BtQueue' BY <1>0, <2>2, <1>q DEF BtQueue
    <3>3. BtNumbers' BY <1>0, <2>2, BtAssumption DEF BtNumbers
    <3>4. Hears' BY <1>0, <2>2 DEF Hears
    <3>5. Registered' BY <1>0, <2>2 DEF Registered
    <3>6. ClosingEmpty' BY <1>0, <2>2 DEF ClosingEmpty, Hears
    <3>7. OpenHas' BY <1>0, <2>2 DEF OpenHas, Hears
    <3>8. ClosedHasNot' BY <1>0, <2>2 DEF ClosedHasNot, OpenHas, Hears
    <3>9. Rejecting' BY <1>0, <2>2 DEF Rejecting, Hears, Registered
    <3>10. DeadStops' BY <1>0, <2>2 DEF DeadStops, Heedful, Hears, BtNumbers
    <3>11. DeadRejects' BY <1>0, <2>2 DEF DeadRejects, DeadStops, Heedful, Hears, Registered
    <3>12. QueueFresh'
      BY <1>0, <2>2, <1>q DEF QueueFresh, DeadRejects, ClosingEmpty, Registered, Heedful, Hears
    <3>13. StaleOK' BY <1>0, <2>2, <1>q DEF StaleOK, QueueFresh, Heedful
    <3>14. OneCommand'
      BY <1>0, <2>2, <1>q DEF OneCommand, ClosingEmpty, DeadStops, Patient, Heedful, Hears, BtNumbers
    <3>15. AheadOK' BY <1>0, <2>2, <1>q DEF AheadOK, OneCommand, Patient, Heedful
    <3> QED BY <3>1, <3>2, <3>3, <3>4, <3>5, <3>6, <3>7, <3>8, <3>9, <3>10, <3>11, <3>12, <3>13,
         <3>14, <3>15 DEF BtInv
  <2> QED BY <1>0, <1>11, <2>1, <2>2 DEF btseekwave_tx_packet, HciPorts
<1>12. CASE btseekwave_rx_complete
  <2>1. CASE bt.init
    <3>1. BtShape' BY ZenonT(40), <1>0, <1>12, <2>1 DEF btseekwave_rx_complete, HciPorts
    <3>2. BtQueue' BY <1>0, <1>12, <2>1, <1>q DEF btseekwave_rx_complete, BtQueue
    <3>3. BtNumbers' BY <1>0, <1>12, <2>1, BtAssumption DEF btseekwave_rx_complete, BtNumbers
    <3>4. Hears' BY <1>0, <1>12, <2>1 DEF btseekwave_rx_complete, Hears
    <3>5. Registered' BY <1>0, <1>12, <2>1 DEF btseekwave_rx_complete, Registered
    <3>6. ClosingEmpty' BY <1>0, <1>12, <2>1 DEF btseekwave_rx_complete, ClosingEmpty, Hears
    <3>7. OpenHas' BY <1>0, <1>12, <2>1 DEF btseekwave_rx_complete, OpenHas, Hears
    <3>8. ClosedHasNot' BY <1>0, <1>12, <2>1 DEF btseekwave_rx_complete, ClosedHasNot, OpenHas, Hears
    <3>9. Rejecting' BY <1>0, <1>12, <2>1 DEF btseekwave_rx_complete, Rejecting, Hears, Registered
    <3>10. DeadStops'
      BY <1>0, <1>12, <2>1 DEF btseekwave_rx_complete, DeadStops, Heedful, Hears, BtNumbers
    <3>11. DeadRejects'
      BY <1>0, <1>12, <2>1 DEF btseekwave_rx_complete, DeadRejects, DeadStops, Heedful, Hears, Registered
    <3>12. QueueFresh'
      BY <1>0, <1>12, <2>1, <1>q DEF btseekwave_rx_complete, QueueFresh, DeadRejects, ClosingEmpty, Registered,
         Heedful, Hears
    <3>13. StaleOK'
      BY <1>0, <1>12, <2>1, <1>q DEF btseekwave_rx_complete, StaleOK, QueueFresh, Heedful
    <3>14. OneCommand'
      BY <1>0, <1>12, <2>1, <1>q DEF btseekwave_rx_complete, OneCommand, ClosingEmpty, DeadStops, Patient,
         Heedful, Hears, BtNumbers
    <3>15. AheadOK'
      BY <1>0, <1>12, <2>1, <1>q DEF btseekwave_rx_complete, AheadOK, OneCommand, Patient, Heedful
    <3> QED BY <3>1, <3>2, <3>3, <3>4, <3>5, <3>6, <3>7, <3>8, <3>9, <3>10, <3>11, <3>12, <3>13,
         <3>14, <3>15 DEF BtInv
  <2>2. CASE ~(bt.init)
    <3>1. BtShape' BY <1>0, <1>12, <2>2 DEF btseekwave_rx_complete, HciPorts
    <3>2. BtQueue' BY <1>0, <1>12, <2>2, <1>q DEF btseekwave_rx_complete, BtQueue
    <3>3. BtNumbers' BY <1>0, <1>12, <2>2, BtAssumption DEF btseekwave_rx_complete, BtNumbers
    <3>4. Hears' BY <1>0, <1>12, <2>2 DEF btseekwave_rx_complete, Hears
    <3>5. Registered' BY <1>0, <1>12, <2>2 DEF btseekwave_rx_complete, Registered
    <3>6. ClosingEmpty' BY <1>0, <1>12, <2>2 DEF btseekwave_rx_complete, ClosingEmpty, Hears
    <3>7. OpenHas' BY <1>0, <1>12, <2>2 DEF btseekwave_rx_complete, OpenHas, Hears
    <3>8. ClosedHasNot' BY <1>0, <1>12, <2>2 DEF btseekwave_rx_complete, ClosedHasNot, OpenHas, Hears
    <3>9. Rejecting' BY <1>0, <1>12, <2>2 DEF btseekwave_rx_complete, Rejecting, Hears, Registered
    <3>10. DeadStops'
      BY <1>0, <1>12, <2>2 DEF btseekwave_rx_complete, DeadStops, Heedful, Hears, BtNumbers
    <3>11. DeadRejects'
      BY <1>0, <1>12, <2>2 DEF btseekwave_rx_complete, DeadRejects, DeadStops, Heedful, Hears, Registered
    <3>12. QueueFresh'
      BY <1>0, <1>12, <2>2, <1>q DEF btseekwave_rx_complete, QueueFresh, DeadRejects, ClosingEmpty, Registered,
         Heedful, Hears
    <3>13. StaleOK'
      BY <1>0, <1>12, <2>2, <1>q DEF btseekwave_rx_complete, StaleOK, QueueFresh, Heedful
    <3>14. OneCommand'
      BY <1>0, <1>12, <2>2, <1>q DEF btseekwave_rx_complete, OneCommand, ClosingEmpty, DeadStops, Patient,
         Heedful, Hears, BtNumbers
    <3>15. AheadOK'
      BY <1>0, <1>12, <2>2, <1>q DEF btseekwave_rx_complete, AheadOK, OneCommand, Patient, Heedful
    <3> QED BY <3>1, <3>2, <3>3, <3>4, <3>5, <3>6, <3>7, <3>8, <3>9, <3>10, <3>11, <3>12, <3>13,
         <3>14, <3>15 DEF BtInv
  <2> QED BY <2>1, <2>2
<1>13. CASE BtFwDies
  <2>1. CASE bt.notif
    <3>1. BtShape' BY <1>0, <1>13, <2>1 DEF BtFwDies, HciPorts
    <3>2. BtQueue' BY <1>0, <1>13, <2>1, <1>q DEF BtFwDies, BtQueue
    <3>3. BtNumbers' BY <1>0, <1>13, <2>1, BtAssumption DEF BtFwDies, BtNumbers
    <3>4. Hears' BY <1>0, <1>13, <2>1 DEF BtFwDies, Hears
    <3>5. Registered' BY <1>0, <1>13, <2>1 DEF BtFwDies, Registered
    <3>6. ClosingEmpty' BY <1>0, <1>13, <2>1 DEF BtFwDies, ClosingEmpty, Hears
    <3>7. OpenHas' BY <1>0, <1>13, <2>1 DEF BtFwDies, OpenHas, Hears
    <3>8. ClosedHasNot' BY <1>0, <1>13, <2>1 DEF BtFwDies, ClosedHasNot, OpenHas, Hears
    <3>9. Rejecting' BY <1>0, <1>13, <2>1 DEF BtFwDies, Rejecting, Hears, Registered
    <3>10. DeadStops' BY <1>0, <1>13, <2>1 DEF BtFwDies, DeadStops, Heedful, Hears, BtNumbers
    <3>11. DeadRejects'
      BY <1>0, <1>13, <2>1 DEF BtFwDies, DeadRejects, DeadStops, Heedful, Hears, Registered
    <3>12. QueueFresh'
      BY <1>0, <1>13, <2>1, <1>q DEF BtFwDies, QueueFresh, DeadRejects, ClosingEmpty, Registered, Heedful, Hears
    <3>13. StaleOK' BY <1>0, <1>13, <2>1, <1>q DEF BtFwDies, StaleOK, QueueFresh, Heedful
    <3>14. OneCommand'
      BY <1>0, <1>13, <2>1, <1>q DEF BtFwDies, OneCommand, ClosingEmpty, DeadStops, Patient, Heedful, Hears,
         BtNumbers
    <3>15. AheadOK' BY <1>0, <1>13, <2>1, <1>q DEF BtFwDies, AheadOK, OneCommand, Patient, Heedful
    <3> QED BY <3>1, <3>2, <3>3, <3>4, <3>5, <3>6, <3>7, <3>8, <3>9, <3>10, <3>11, <3>12, <3>13,
         <3>14, <3>15 DEF BtInv
  <2>2. CASE ~(bt.notif)
    <3>1. BtShape' BY <1>0, <1>13, <2>2 DEF BtFwDies, HciPorts
    <3>2. BtQueue' BY <1>0, <1>13, <2>2, <1>q DEF BtFwDies, BtQueue
    <3>3. BtNumbers' BY <1>0, <1>13, <2>2, BtAssumption DEF BtFwDies, BtNumbers
    <3>4. Hears' BY <1>0, <1>13, <2>2 DEF BtFwDies, Hears
    <3>5. Registered' BY <1>0, <1>13, <2>2 DEF BtFwDies, Registered
    <3>6. ClosingEmpty' BY <1>0, <1>13, <2>2 DEF BtFwDies, ClosingEmpty, Hears
    <3>7. OpenHas' BY <1>0, <1>13, <2>2 DEF BtFwDies, OpenHas, Hears
    <3>8. ClosedHasNot' BY <1>0, <1>13, <2>2 DEF BtFwDies, ClosedHasNot, OpenHas, Hears
    <3>9. Rejecting' BY <1>0, <1>13, <2>2 DEF BtFwDies, Rejecting, Hears, Registered
    <3>10. DeadStops' BY <1>0, <1>13, <2>2 DEF BtFwDies, DeadStops, Heedful, Hears, BtNumbers
    <3>11. DeadRejects'
      BY <1>0, <1>13, <2>2 DEF BtFwDies, DeadRejects, DeadStops, Heedful, Hears, Registered
    <3>12. QueueFresh'
      BY <1>0, <1>13, <2>2, <1>q DEF BtFwDies, QueueFresh, DeadRejects, ClosingEmpty, Registered, Heedful, Hears
    <3>13. StaleOK' BY <1>0, <1>13, <2>2, <1>q DEF BtFwDies, StaleOK, QueueFresh, Heedful
    <3>14. OneCommand'
      BY <1>0, <1>13, <2>2, <1>q DEF BtFwDies, OneCommand, ClosingEmpty, DeadStops, Patient, Heedful, Hears,
         BtNumbers
    <3>15. AheadOK' BY <1>0, <1>13, <2>2, <1>q DEF BtFwDies, AheadOK, OneCommand, Patient, Heedful
    <3> QED BY <3>1, <3>2, <3>3, <3>4, <3>5, <3>6, <3>7, <3>8, <3>9, <3>10, <3>11, <3>12, <3>13,
         <3>14, <3>15 DEF BtInv
  <2> QED BY <2>1, <2>2
<1>14. CASE BtFwReturns
  <2>1. CASE bt.notif
    <3>1. BtShape' BY <1>0, <1>14, <2>1 DEF BtFwReturns, HciPorts
    <3>2. BtQueue' BY <1>0, <1>14, <2>1, <1>q DEF BtFwReturns, BtQueue
    <3>3. BtNumbers' BY <1>0, <1>14, <2>1, BtAssumption DEF BtFwReturns, BtNumbers
    <3>4. Hears' BY <1>0, <1>14, <2>1 DEF BtFwReturns, Hears
    <3>5. Registered' BY <1>0, <1>14, <2>1 DEF BtFwReturns, Registered
    <3>6. ClosingEmpty' BY <1>0, <1>14, <2>1 DEF BtFwReturns, ClosingEmpty, Hears
    <3>7. OpenHas' BY <1>0, <1>14, <2>1 DEF BtFwReturns, OpenHas, Hears
    <3>8. ClosedHasNot' BY <1>0, <1>14, <2>1 DEF BtFwReturns, ClosedHasNot, OpenHas, Hears
    <3>9. Rejecting' BY <1>0, <1>14, <2>1 DEF BtFwReturns, Rejecting, Hears, Registered
    <3>10. DeadStops' BY <1>0, <1>14, <2>1 DEF BtFwReturns, DeadStops, Heedful, Hears, BtNumbers
    <3>11. DeadRejects'
      BY <1>0, <1>14, <2>1 DEF BtFwReturns, DeadRejects, DeadStops, Heedful, Hears, Registered
    <3>12. QueueFresh'
      BY <1>0, <1>14, <2>1, <1>q DEF BtFwReturns, QueueFresh, DeadRejects, ClosingEmpty, Registered, Heedful,
         Hears
    <3>13. StaleOK' BY <1>0, <1>14, <2>1, <1>q DEF BtFwReturns, StaleOK, QueueFresh, Heedful
    <3>14. OneCommand'
      BY <1>0, <1>14, <2>1, <1>q DEF BtFwReturns, OneCommand, ClosingEmpty, DeadStops, Patient, Heedful, Hears,
         BtNumbers
    <3>15. AheadOK' BY <1>0, <1>14, <2>1, <1>q DEF BtFwReturns, AheadOK, OneCommand, Patient, Heedful
    <3> QED BY <3>1, <3>2, <3>3, <3>4, <3>5, <3>6, <3>7, <3>8, <3>9, <3>10, <3>11, <3>12, <3>13,
         <3>14, <3>15 DEF BtInv
  <2>2. CASE ~(bt.notif)
    <3>1. BtShape' BY <1>0, <1>14, <2>2 DEF BtFwReturns, HciPorts
    <3>2. BtQueue' BY <1>0, <1>14, <2>2, <1>q DEF BtFwReturns, BtQueue
    <3>3. BtNumbers' BY <1>0, <1>14, <2>2, BtAssumption DEF BtFwReturns, BtNumbers
    <3>4. Hears' BY <1>0, <1>14, <2>2 DEF BtFwReturns, Hears
    <3>5. Registered' BY <1>0, <1>14, <2>2 DEF BtFwReturns, Registered
    <3>6. ClosingEmpty' BY <1>0, <1>14, <2>2 DEF BtFwReturns, ClosingEmpty, Hears
    <3>7. OpenHas' BY <1>0, <1>14, <2>2 DEF BtFwReturns, OpenHas, Hears
    <3>8. ClosedHasNot' BY <1>0, <1>14, <2>2 DEF BtFwReturns, ClosedHasNot, OpenHas, Hears
    <3>9. Rejecting' BY <1>0, <1>14, <2>2 DEF BtFwReturns, Rejecting, Hears, Registered
    <3>10. DeadStops' BY <1>0, <1>14, <2>2 DEF BtFwReturns, DeadStops, Heedful, Hears, BtNumbers
    <3>11. DeadRejects'
      BY <1>0, <1>14, <2>2 DEF BtFwReturns, DeadRejects, DeadStops, Heedful, Hears, Registered
    <3>12. QueueFresh'
      BY <1>0, <1>14, <2>2, <1>q DEF BtFwReturns, QueueFresh, DeadRejects, ClosingEmpty, Registered, Heedful,
         Hears
    <3>13. StaleOK' BY <1>0, <1>14, <2>2, <1>q DEF BtFwReturns, StaleOK, QueueFresh, Heedful
    <3>14. OneCommand'
      BY <1>0, <1>14, <2>2, <1>q DEF BtFwReturns, OneCommand, ClosingEmpty, DeadStops, Patient, Heedful, Hears,
         BtNumbers
    <3>15. AheadOK' BY <1>0, <1>14, <2>2, <1>q DEF BtFwReturns, AheadOK, OneCommand, Patient, Heedful
    <3> QED BY <3>1, <3>2, <3>3, <3>4, <3>5, <3>6, <3>7, <3>8, <3>9, <3>10, <3>11, <3>12, <3>13,
         <3>14, <3>15 DEF BtInv
  <2> QED BY <2>1, <2>2
<1>15. CASE NotifyAssert
  <2>1. CASE bt.reg
    <3>1. BtShape' BY <1>0, <1>15, <2>1 DEF NotifyAssert, HciPorts
    <3>2. BtQueue' BY <1>0, <1>15, <2>1, <1>q DEF NotifyAssert, BtQueue
    <3>3. BtNumbers' BY <1>0, <1>15, <2>1, BtAssumption DEF NotifyAssert, BtNumbers
    <3>4. Hears' BY <1>0, <1>15, <2>1 DEF NotifyAssert, Hears
    <3>5. Registered' BY <1>0, <1>15, <2>1 DEF NotifyAssert, Registered
    <3>6. ClosingEmpty' BY <1>0, <1>15, <2>1 DEF NotifyAssert, ClosingEmpty, Hears
    <3>7. OpenHas' BY <1>0, <1>15, <2>1 DEF NotifyAssert, OpenHas, Hears
    <3>8. ClosedHasNot' BY <1>0, <1>15, <2>1 DEF NotifyAssert, ClosedHasNot, OpenHas, Hears
    <3>9. Rejecting' BY <1>0, <1>15, <2>1 DEF NotifyAssert, Rejecting, Hears, Registered
    <3>10. DeadStops' BY <1>0, <1>15, <2>1 DEF NotifyAssert, DeadStops, Heedful, Hears, BtNumbers
    <3>11. DeadRejects'
      BY <1>0, <1>15, <2>1 DEF NotifyAssert, DeadRejects, DeadStops, Heedful, Hears, Registered
    <3>12. QueueFresh'
      BY <1>0, <1>15, <2>1, <1>q DEF NotifyAssert, QueueFresh, DeadRejects, ClosingEmpty, Registered, Heedful,
         Hears
    <3>13. StaleOK' BY <1>0, <1>15, <2>1, <1>q DEF NotifyAssert, StaleOK, QueueFresh, Heedful
    <3>14. OneCommand'
      BY <1>0, <1>15, <2>1, <1>q DEF NotifyAssert, OneCommand, ClosingEmpty, DeadStops, Patient, Heedful, Hears,
         BtNumbers
    <3>15. AheadOK' BY <1>0, <1>15, <2>1, <1>q DEF NotifyAssert, AheadOK, OneCommand, Patient, Heedful
    <3> QED BY <3>1, <3>2, <3>3, <3>4, <3>5, <3>6, <3>7, <3>8, <3>9, <3>10, <3>11, <3>12, <3>13,
         <3>14, <3>15 DEF BtInv
  <2>2. CASE ~(bt.reg)
    <3>1. BtShape' BY <1>0, <1>15, <2>2 DEF NotifyAssert, HciPorts
    <3>2. BtQueue' BY <1>0, <1>15, <2>2, <1>q DEF NotifyAssert, BtQueue
    <3>3. BtNumbers' BY <1>0, <1>15, <2>2, BtAssumption DEF NotifyAssert, BtNumbers
    <3>4. Hears' BY <1>0, <1>15, <2>2 DEF NotifyAssert, Hears
    <3>5. Registered' BY <1>0, <1>15, <2>2 DEF NotifyAssert, Registered
    <3>6. ClosingEmpty' BY <1>0, <1>15, <2>2 DEF NotifyAssert, ClosingEmpty, Hears
    <3>7. OpenHas' BY <1>0, <1>15, <2>2 DEF NotifyAssert, OpenHas, Hears
    <3>8. ClosedHasNot' BY <1>0, <1>15, <2>2 DEF NotifyAssert, ClosedHasNot, OpenHas, Hears
    <3>9. Rejecting' BY <1>0, <1>15, <2>2 DEF NotifyAssert, Rejecting, Hears, Registered
    <3>10. DeadStops' BY <1>0, <1>15, <2>2 DEF NotifyAssert, DeadStops, Heedful, Hears, BtNumbers
    <3>11. DeadRejects'
      BY <1>0, <1>15, <2>2 DEF NotifyAssert, DeadRejects, DeadStops, Heedful, Hears, Registered
    <3>12. QueueFresh'
      BY <1>0, <1>15, <2>2, <1>q DEF NotifyAssert, QueueFresh, DeadRejects, ClosingEmpty, Registered, Heedful,
         Hears
    <3>13. StaleOK' BY <1>0, <1>15, <2>2, <1>q DEF NotifyAssert, StaleOK, QueueFresh, Heedful
    <3>14. OneCommand'
      BY <1>0, <1>15, <2>2, <1>q DEF NotifyAssert, OneCommand, ClosingEmpty, DeadStops, Patient, Heedful, Hears,
         BtNumbers
    <3>15. AheadOK' BY <1>0, <1>15, <2>2, <1>q DEF NotifyAssert, AheadOK, OneCommand, Patient, Heedful
    <3> QED BY <3>1, <3>2, <3>3, <3>4, <3>5, <3>6, <3>7, <3>8, <3>9, <3>10, <3>11, <3>12, <3>13,
         <3>14, <3>15 DEF BtInv
  <2> QED BY <2>1, <2>2
<1>16. CASE NotifyReady
  <2>1. CASE bt.reg
    <3>1. BtShape' BY <1>0, <1>16, <2>1 DEF NotifyReady, HciPorts
    <3>2. BtQueue' BY <1>0, <1>16, <2>1, <1>q DEF NotifyReady, BtQueue
    <3>3. BtNumbers' BY <1>0, <1>16, <2>1, BtAssumption DEF NotifyReady, BtNumbers
    <3>4. Hears' BY <1>0, <1>16, <2>1 DEF NotifyReady, Hears
    <3>5. Registered' BY <1>0, <1>16, <2>1 DEF NotifyReady, Registered
    <3>6. ClosingEmpty' BY <1>0, <1>16, <2>1 DEF NotifyReady, ClosingEmpty, Hears
    <3>7. OpenHas' BY <1>0, <1>16, <2>1 DEF NotifyReady, OpenHas, Hears
    <3>8. ClosedHasNot' BY <1>0, <1>16, <2>1 DEF NotifyReady, ClosedHasNot, OpenHas, Hears
    <3>9. Rejecting' BY <1>0, <1>16, <2>1 DEF NotifyReady, Rejecting, Hears, Registered
    <3>10. DeadStops' BY <1>0, <1>16, <2>1 DEF NotifyReady, DeadStops, Heedful, Hears, BtNumbers
    <3>11. DeadRejects'
      BY <1>0, <1>16, <2>1 DEF NotifyReady, DeadRejects, DeadStops, Heedful, Hears, Registered
    <3>12. QueueFresh'
      BY <1>0, <1>16, <2>1, <1>q DEF NotifyReady, QueueFresh, DeadRejects, ClosingEmpty, Registered, Heedful,
         Hears
    <3>13. StaleOK' BY <1>0, <1>16, <2>1, <1>q DEF NotifyReady, StaleOK, QueueFresh, Heedful
    <3>14. OneCommand'
      BY <1>0, <1>16, <2>1, <1>q DEF NotifyReady, OneCommand, ClosingEmpty, DeadStops, Patient, Heedful, Hears,
         BtNumbers
    <3>15. AheadOK' BY <1>0, <1>16, <2>1, <1>q DEF NotifyReady, AheadOK, OneCommand, Patient, Heedful
    <3> QED BY <3>1, <3>2, <3>3, <3>4, <3>5, <3>6, <3>7, <3>8, <3>9, <3>10, <3>11, <3>12, <3>13,
         <3>14, <3>15 DEF BtInv
  <2>2. CASE ~(bt.reg)
    <3>1. BtShape' BY <1>0, <1>16, <2>2 DEF NotifyReady, HciPorts
    <3>2. BtQueue' BY <1>0, <1>16, <2>2, <1>q DEF NotifyReady, BtQueue
    <3>3. BtNumbers' BY <1>0, <1>16, <2>2, BtAssumption DEF NotifyReady, BtNumbers
    <3>4. Hears' BY <1>0, <1>16, <2>2 DEF NotifyReady, Hears
    <3>5. Registered' BY <1>0, <1>16, <2>2 DEF NotifyReady, Registered
    <3>6. ClosingEmpty' BY <1>0, <1>16, <2>2 DEF NotifyReady, ClosingEmpty, Hears
    <3>7. OpenHas' BY <1>0, <1>16, <2>2 DEF NotifyReady, OpenHas, Hears
    <3>8. ClosedHasNot' BY <1>0, <1>16, <2>2 DEF NotifyReady, ClosedHasNot, OpenHas, Hears
    <3>9. Rejecting' BY <1>0, <1>16, <2>2 DEF NotifyReady, Rejecting, Hears, Registered
    <3>10. DeadStops' BY <1>0, <1>16, <2>2 DEF NotifyReady, DeadStops, Heedful, Hears, BtNumbers
    <3>11. DeadRejects'
      BY <1>0, <1>16, <2>2 DEF NotifyReady, DeadRejects, DeadStops, Heedful, Hears, Registered
    <3>12. QueueFresh'
      BY <1>0, <1>16, <2>2, <1>q DEF NotifyReady, QueueFresh, DeadRejects, ClosingEmpty, Registered, Heedful,
         Hears
    <3>13. StaleOK' BY <1>0, <1>16, <2>2, <1>q DEF NotifyReady, StaleOK, QueueFresh, Heedful
    <3>14. OneCommand'
      BY <1>0, <1>16, <2>2, <1>q DEF NotifyReady, OneCommand, ClosingEmpty, DeadStops, Patient, Heedful, Hears,
         BtNumbers
    <3>15. AheadOK' BY <1>0, <1>16, <2>2, <1>q DEF NotifyReady, AheadOK, OneCommand, Patient, Heedful
    <3> QED BY <3>1, <3>2, <3>3, <3>4, <3>5, <3>6, <3>7, <3>8, <3>9, <3>10, <3>11, <3>12, <3>13,
         <3>14, <3>15 DEF BtInv
  <2> QED BY <2>1, <2>2
<1>17. CASE btseekwave_flush
  <2>1. BtShape' BY <1>0, <1>17 DEF btseekwave_flush, HciPorts
  <2>2. BtQueue' BY <1>0, <1>17, <1>q DEF btseekwave_flush, BtQueue
  <2>3. BtNumbers' BY <1>0, <1>17, BtAssumption DEF btseekwave_flush, BtNumbers
  <2>4. Hears' BY <1>0, <1>17 DEF btseekwave_flush, Hears
  <2>5. Registered' BY <1>0, <1>17 DEF btseekwave_flush, Registered
  <2>6. ClosingEmpty' BY <1>0, <1>17 DEF btseekwave_flush, ClosingEmpty, Hears
  <2>7. OpenHas' BY <1>0, <1>17 DEF btseekwave_flush, OpenHas, Hears
  <2>8. ClosedHasNot' BY <1>0, <1>17 DEF btseekwave_flush, ClosedHasNot, OpenHas, Hears
  <2>9. Rejecting' BY <1>0, <1>17 DEF btseekwave_flush, Rejecting, Hears, Registered
  <2>10. DeadStops' BY <1>0, <1>17 DEF btseekwave_flush, DeadStops, Heedful, Hears, BtNumbers
  <2>11. DeadRejects'
    BY <1>0, <1>17 DEF btseekwave_flush, DeadRejects, DeadStops, Heedful, Hears, Registered
  <2>12. QueueFresh'
    BY <1>0, <1>17, <1>q DEF btseekwave_flush, QueueFresh, DeadRejects, ClosingEmpty, Registered, Heedful, Hears
  <2>13. StaleOK' BY <1>0, <1>17, <1>q DEF btseekwave_flush, StaleOK, QueueFresh, Heedful
  <2>14. OneCommand'
    BY <1>0, <1>17, <1>q DEF btseekwave_flush, OneCommand, ClosingEmpty, DeadStops, Patient, Heedful, Hears,
       BtNumbers
  <2>15. AheadOK' BY <1>0, <1>17, <1>q DEF btseekwave_flush, AheadOK, OneCommand, Patient, Heedful
  <2> QED BY <2>1, <2>2, <2>3, <2>4, <2>5, <2>6, <2>7, <2>8, <2>9, <2>10, <2>11, <2>12, <2>13, <2>14,
       <2>15 DEF BtInv
<1>18. CASE CloseStart
  <2>1. BtShape' BY <1>0, <1>18 DEF CloseStart, HciPorts
  <2>2. BtQueue' BY <1>0, <1>18, <1>q DEF CloseStart, BtQueue
  <2>3. BtNumbers' BY <1>0, <1>18, BtAssumption DEF CloseStart, BtNumbers
  <2>4. Hears' BY <1>0, <1>18 DEF CloseStart, Hears
  <2>5. Registered' BY <1>0, <1>18 DEF CloseStart, Registered
  <2>6. ClosingEmpty' BY <1>0, <1>18 DEF CloseStart, ClosingEmpty, Hears
  <2>7. OpenHas' BY <1>0, <1>18 DEF CloseStart, OpenHas, Hears
  <2>8. ClosedHasNot' BY <1>0, <1>18 DEF CloseStart, ClosedHasNot, OpenHas, Hears
  <2>9. Rejecting' BY <1>0, <1>18 DEF CloseStart, Rejecting, Hears, Registered
  <2>10. DeadStops' BY <1>0, <1>18 DEF CloseStart, DeadStops, Heedful, Hears, BtNumbers
  <2>11. DeadRejects'
    BY <1>0, <1>18 DEF CloseStart, DeadRejects, DeadStops, Heedful, Hears, Registered
  <2>12. QueueFresh'
    BY <1>0, <1>18, <1>q DEF CloseStart, QueueFresh, DeadRejects, ClosingEmpty, Registered, Heedful, Hears
  <2>13. StaleOK' BY <1>0, <1>18, <1>q DEF CloseStart, StaleOK, QueueFresh, Heedful
  <2>14. OneCommand'
    BY <1>0, <1>18, <1>q DEF CloseStart, OneCommand, ClosingEmpty, DeadStops, Patient, Heedful, Hears, BtNumbers
  <2>15. AheadOK' BY <1>0, <1>18, <1>q DEF CloseStart, AheadOK, OneCommand, Patient, Heedful
  <2> QED BY <2>1, <2>2, <2>3, <2>4, <2>5, <2>6, <2>7, <2>8, <2>9, <2>10, <2>11, <2>12, <2>13, <2>14,
       <2>15 DEF BtInv
<1>19. CASE btseekwave_close
  <2>1. CASE bt.reject
    <3>1. BtShape' BY <1>0, <1>19, <2>1 DEF btseekwave_close, HciPorts
    <3>2. BtQueue' BY <1>0, <1>19, <2>1, <1>q DEF btseekwave_close, BtQueue
    <3>3. BtNumbers' BY <1>0, <1>19, <2>1, BtAssumption DEF btseekwave_close, BtNumbers
    <3>4. Hears' BY <1>0, <1>19, <2>1 DEF btseekwave_close, Hears
    <3>5. Registered' BY <1>0, <1>19, <2>1 DEF btseekwave_close, Registered
    <3>6. ClosingEmpty' BY <1>0, <1>19, <2>1 DEF btseekwave_close, ClosingEmpty, Hears
    <3>7. OpenHas' BY <1>0, <1>19, <2>1 DEF btseekwave_close, OpenHas, Hears
    <3>8. ClosedHasNot' BY <1>0, <1>19, <2>1 DEF btseekwave_close, ClosedHasNot, OpenHas, Hears
    <3>9. Rejecting' BY <1>0, <1>19, <2>1 DEF btseekwave_close, Rejecting, Hears, Registered
    <3>10. DeadStops' BY <1>0, <1>19, <2>1 DEF btseekwave_close, DeadStops, Heedful, Hears, BtNumbers
    <3>11. DeadRejects'
      BY <1>0, <1>19, <2>1 DEF btseekwave_close, DeadRejects, DeadStops, Heedful, Hears, Registered
    <3>12. QueueFresh'
      BY <1>0, <1>19, <2>1, <1>q DEF btseekwave_close, QueueFresh, DeadRejects, ClosingEmpty, Registered, Heedful,
         Hears
    <3>13. StaleOK' BY <1>0, <1>19, <2>1, <1>q DEF btseekwave_close, StaleOK, QueueFresh, Heedful
    <3>14. OneCommand'
      BY <1>0, <1>19, <2>1, <1>q DEF btseekwave_close, OneCommand, ClosingEmpty, DeadStops, Patient, Heedful,
         Hears, BtNumbers
    <3>15. AheadOK'
      BY <1>0, <1>19, <2>1, <1>q DEF btseekwave_close, AheadOK, OneCommand, Patient, Heedful
    <3> QED BY <3>1, <3>2, <3>3, <3>4, <3>5, <3>6, <3>7, <3>8, <3>9, <3>10, <3>11, <3>12, <3>13,
         <3>14, <3>15 DEF BtInv
  <2>2. CASE ~(bt.reject)
    <3>1. BtShape' BY <1>0, <1>19, <2>2 DEF btseekwave_close, HciPorts
    <3>2. BtQueue' BY <1>0, <1>19, <2>2, <1>q DEF btseekwave_close, BtQueue
    <3>3. BtNumbers' BY <1>0, <1>19, <2>2, BtAssumption DEF btseekwave_close, BtNumbers
    <3>4. Hears' BY <1>0, <1>19, <2>2 DEF btseekwave_close, Hears
    <3>5. Registered' BY <1>0, <1>19, <2>2 DEF btseekwave_close, Registered
    <3>6. ClosingEmpty' BY <1>0, <1>19, <2>2 DEF btseekwave_close, ClosingEmpty, Hears
    <3>7. OpenHas' BY <1>0, <1>19, <2>2 DEF btseekwave_close, OpenHas, Hears
    <3>8. ClosedHasNot' BY <1>0, <1>19, <2>2 DEF btseekwave_close, ClosedHasNot, OpenHas, Hears
    <3>9. Rejecting' BY <1>0, <1>19, <2>2 DEF btseekwave_close, Rejecting, Hears, Registered
    <3>10. DeadStops' BY <1>0, <1>19, <2>2 DEF btseekwave_close, DeadStops, Heedful, Hears, BtNumbers
    <3>11. DeadRejects'
      BY <1>0, <1>19, <2>2 DEF btseekwave_close, DeadRejects, DeadStops, Heedful, Hears, Registered
    <3>12. QueueFresh'
      BY <1>0, <1>19, <2>2, <1>q DEF btseekwave_close, QueueFresh, DeadRejects, ClosingEmpty, Registered, Heedful,
         Hears
    <3>13. StaleOK' BY <1>0, <1>19, <2>2, <1>q DEF btseekwave_close, StaleOK, QueueFresh, Heedful
    <3>14. OneCommand'
      BY <1>0, <1>19, <2>2, <1>q DEF btseekwave_close, OneCommand, ClosingEmpty, DeadStops, Patient, Heedful,
         Hears, BtNumbers
    <3>15. AheadOK'
      BY <1>0, <1>19, <2>2, <1>q DEF btseekwave_close, AheadOK, OneCommand, Patient, Heedful
    <3> QED BY <3>1, <3>2, <3>3, <3>4, <3>5, <3>6, <3>7, <3>8, <3>9, <3>10, <3>11, <3>12, <3>13,
         <3>14, <3>15 DEF BtInv
  <2> QED BY <2>1, <2>2
<1>20. CASE btseekwave_remove
  <2>1. BtShape' BY <1>0, <1>20 DEF btseekwave_remove, HciPorts
  <2>2. BtQueue' BY <1>0, <1>20, <1>q DEF btseekwave_remove, BtQueue
  <2>3. BtNumbers' BY <1>0, <1>20, BtAssumption DEF btseekwave_remove, BtNumbers
  <2>4. Hears' BY <1>0, <1>20 DEF btseekwave_remove, Hears
  <2>5. Registered' BY <1>0, <1>20 DEF btseekwave_remove, Registered
  <2>6. ClosingEmpty' BY <1>0, <1>20 DEF btseekwave_remove, ClosingEmpty, Hears
  <2>7. OpenHas' BY <1>0, <1>20 DEF btseekwave_remove, OpenHas, Hears
  <2>8. ClosedHasNot' BY <1>0, <1>20 DEF btseekwave_remove, ClosedHasNot, OpenHas, Hears
  <2>9. Rejecting' BY <1>0, <1>20 DEF btseekwave_remove, Rejecting, Hears, Registered
  <2>10. DeadStops' BY <1>0, <1>20 DEF btseekwave_remove, DeadStops, Heedful, Hears, BtNumbers
  <2>11. DeadRejects'
    BY <1>0, <1>20 DEF btseekwave_remove, DeadRejects, DeadStops, Heedful, Hears, Registered
  <2>12. QueueFresh'
    BY <1>0, <1>20, <1>q DEF btseekwave_remove, QueueFresh, DeadRejects, ClosingEmpty, Registered, Heedful, Hears
  <2>13. StaleOK' BY <1>0, <1>20, <1>q DEF btseekwave_remove, StaleOK, QueueFresh, Heedful
  <2>14. OneCommand'
    BY <1>0, <1>20, <1>q DEF btseekwave_remove, OneCommand, ClosingEmpty, DeadStops, Patient, Heedful, Hears,
       BtNumbers
  <2>15. AheadOK' BY <1>0, <1>20, <1>q DEF btseekwave_remove, AheadOK, OneCommand, Patient, Heedful
  <2> QED BY <2>1, <2>2, <2>3, <2>4, <2>5, <2>6, <2>7, <2>8, <2>9, <2>10, <2>11, <2>12, <2>13, <2>14,
       <2>15 DEF BtInv
<1>21. CASE RemoveWaited
  <2>1. BtShape' BY <1>0, <1>21 DEF RemoveWaited, HciPorts
  <2>2. BtQueue' BY <1>0, <1>21, <1>q DEF RemoveWaited, BtQueue
  <2>3. BtNumbers' BY <1>0, <1>21, BtAssumption DEF RemoveWaited, BtNumbers
  <2>4. Hears' BY <1>0, <1>21 DEF RemoveWaited, Hears
  <2>5. Registered' BY <1>0, <1>21 DEF RemoveWaited, Registered
  <2>6. ClosingEmpty' BY <1>0, <1>21 DEF RemoveWaited, ClosingEmpty, Hears
  <2>7. OpenHas' BY <1>0, <1>21 DEF RemoveWaited, OpenHas, Hears
  <2>8. ClosedHasNot' BY <1>0, <1>21 DEF RemoveWaited, ClosedHasNot, OpenHas, Hears
  <2>9. Rejecting' BY <1>0, <1>21 DEF RemoveWaited, Rejecting, Hears, Registered
  <2>10. DeadStops' BY <1>0, <1>21 DEF RemoveWaited, DeadStops, Heedful, Hears, BtNumbers
  <2>11. DeadRejects'
    BY <1>0, <1>21 DEF RemoveWaited, DeadRejects, DeadStops, Heedful, Hears, Registered
  <2>12. QueueFresh'
    BY <1>0, <1>21, <1>q DEF RemoveWaited, QueueFresh, DeadRejects, ClosingEmpty, Registered, Heedful, Hears
  <2>13. StaleOK' BY <1>0, <1>21, <1>q DEF RemoveWaited, StaleOK, QueueFresh, Heedful
  <2>14. OneCommand'
    BY <1>0, <1>21, <1>q DEF RemoveWaited, OneCommand, ClosingEmpty, DeadStops, Patient, Heedful, Hears, BtNumbers
  <2>15. AheadOK' BY <1>0, <1>21, <1>q DEF RemoveWaited, AheadOK, OneCommand, Patient, Heedful
  <2> QED BY <2>1, <2>2, <2>3, <2>4, <2>5, <2>6, <2>7, <2>8, <2>9, <2>10, <2>11, <2>12, <2>13, <2>14,
       <2>15 DEF BtInv
<1>22. CASE Unregister
  <2>1. ASSUME ba.remove = "unreg", ba.hci = "up", bf' = bf, ba' = Closing(ba), bt' = [bt EXCEPT !.q = <<>>] PROVE BtInv'
    <3>1. BtShape' BY <1>0, <2>1 DEF HciPorts
    <3>2. BtQueue' BY <1>0, <2>1, <1>q DEF BtQueue
    <3>3. BtNumbers' BY <1>0, <2>1, BtAssumption DEF BtNumbers
    <3>4. Hears' BY <1>0, <2>1 DEF Hears
    <3>5. Registered' BY <1>0, <2>1 DEF Registered
    <3>6. ClosingEmpty' BY <1>0, <2>1 DEF ClosingEmpty, Hears
    <3>7. OpenHas' BY <1>0, <2>1 DEF OpenHas, Hears
    <3>8. ClosedHasNot' BY <1>0, <2>1 DEF ClosedHasNot, OpenHas, Hears
    <3>9. Rejecting' BY <1>0, <2>1 DEF Rejecting, Hears, Registered
    <3>10. DeadStops' BY <1>0, <2>1 DEF DeadStops, Heedful, Hears, BtNumbers
    <3>11. DeadRejects' BY <1>0, <2>1 DEF DeadRejects, DeadStops, Heedful, Hears, Registered
    <3>12. QueueFresh'
      BY <1>0, <2>1, <1>q DEF QueueFresh, DeadRejects, ClosingEmpty, Registered, Heedful, Hears
    <3>13. StaleOK' BY <1>0, <2>1, <1>q DEF StaleOK, QueueFresh, Heedful
    <3>14. OneCommand'
      BY <1>0, <2>1, <1>q DEF OneCommand, ClosingEmpty, DeadStops, Patient, Heedful, Hears, BtNumbers
    <3>15. AheadOK' BY <1>0, <2>1, <1>q DEF AheadOK, OneCommand, Patient, Heedful
    <3> QED BY <3>1, <3>2, <3>3, <3>4, <3>5, <3>6, <3>7, <3>8, <3>9, <3>10, <3>11, <3>12, <3>13,
         <3>14, <3>15 DEF BtInv
  <2>2. ASSUME ba.remove = "unreg", ba.hci = "down", bf' = bf, bt' = bt, ba' = [ba EXCEPT !.hci = "none", !.remove = "none", !.run = FALSE] PROVE BtInv'
    <3>1. BtShape' BY <1>0, <2>2 DEF HciPorts
    <3>2. BtQueue' BY <1>0, <2>2, <1>q DEF BtQueue
    <3>3. BtNumbers' BY <1>0, <2>2, BtAssumption DEF BtNumbers
    <3>4. Hears' BY <1>0, <2>2 DEF Hears
    <3>5. Registered' BY <1>0, <2>2 DEF Registered
    <3>6. ClosingEmpty' BY <1>0, <2>2 DEF ClosingEmpty, Hears
    <3>7. OpenHas' BY <1>0, <2>2 DEF OpenHas, Hears
    <3>8. ClosedHasNot' BY <1>0, <2>2 DEF ClosedHasNot, OpenHas, Hears
    <3>9. Rejecting' BY <1>0, <2>2 DEF Rejecting, Hears, Registered
    <3>10. DeadStops' BY <1>0, <2>2 DEF DeadStops, Heedful, Hears, BtNumbers
    <3>11. DeadRejects' BY <1>0, <2>2 DEF DeadRejects, DeadStops, Heedful, Hears, Registered
    <3>12. QueueFresh'
      BY <1>0, <2>2, <1>q DEF QueueFresh, DeadRejects, ClosingEmpty, Registered, Heedful, Hears
    <3>13. StaleOK' BY <1>0, <2>2, <1>q DEF StaleOK, QueueFresh, Heedful
    <3>14. OneCommand'
      BY <1>0, <2>2, <1>q DEF OneCommand, ClosingEmpty, DeadStops, Patient, Heedful, Hears, BtNumbers
    <3>15. AheadOK' BY <1>0, <2>2, <1>q DEF AheadOK, OneCommand, Patient, Heedful
    <3> QED BY <3>1, <3>2, <3>3, <3>4, <3>5, <3>6, <3>7, <3>8, <3>9, <3>10, <3>11, <3>12, <3>13,
         <3>14, <3>15 DEF BtInv
  <2> QED BY <1>0, <1>22, <2>1, <2>2 DEF Unregister, HciPorts
<1>23. CASE UNCHANGED btVars
  BY <1>0, <1>23 DEF BtInv, btVars, HciPorts, BtQueue, BtNumbers, Hears, Registered, ClosingEmpty, OpenHas,
     ClosedHasNot, Rejecting, DeadStops, Heedful, DeadRejects, QueueFresh, StaleOK, OneCommand, Patient, AheadOK
<1> QED BY <1>1, <1>2, <1>3, <1>4, <1>5, <1>6, <1>7, <1>8, <1>9, <1>10, <1>11, <1>12, <1>13, <1>14,
     <1>15, <1>16, <1>17, <1>18, <1>19, <1>20, <1>21, <1>22, <1>23 DEF BtNext

\* It starts without a device, with a firmware.
LEMMA BtBegin == BtInit => BtInv
<1> SUFFICES ASSUME BtInit PROVE BtInv OBVIOUS
<1>1. BtShape /\ BtQueue /\ BtNumbers
  BY BtAssumption DEF BtInit, BtShape, BtDevice, BtActors, BtFirmware, BtQueue, BtNumbers
<1>2. /\ bt.q = <<>> /\ bt.ports = {} /\ ~bt.notif /\ ~bt.service /\ ~bt.reject
      /\ ba.hci = "none" /\ ba.remove = "none" /\ ba.note = "idle"
      /\ bf.alive /\ ~bf.stale /\ ~bf.ahead
  BY DEF BtInit
<1>3. Hears /\ Registered /\ ClosingEmpty /\ OpenHas /\ ClosedHasNot /\ Rejecting
  BY <1>2 DEF Hears, Registered, ClosingEmpty, OpenHas, ClosedHasNot, Rejecting
<1>4. DeadStops /\ DeadRejects /\ QueueFresh /\ StaleOK /\ OneCommand /\ AheadOK
  BY <1>2, NoneYet DEF DeadStops, DeadRejects, QueueFresh, StaleOK, OneCommand, AheadOK
<1> QED BY <1>1, <1>3, <1>4 DEF BtInv

\* What the runs check follows.
LEMMA BtHolds == BtInv => BtOpenMeansOpen /\ NoStaleFrame /\ AnswerIsOwn /\ BtTypeOK
<1> SUFFICES ASSUME BtInv PROVE BtOpenMeansOpen /\ NoStaleFrame /\ AnswerIsOwn /\ BtTypeOK OBVIOUS
<1>1. BtOpenMeansOpen BY DEF BtInv, OpenHas, ClosedHasNot, Rejecting, BtOpenMeansOpen
<1>2. NoStaleFrame /\ AnswerIsOwn
  BY DEF BtInv, StaleOK, AheadOK, Heedful, Patient, NoStaleFrame, AnswerIsOwn
<1>3. BtTypeOK BY DEF BtInv, BtShape, BtDevice, BtActors, BtFirmware, BtQueue, BtNumbers, BtTypeOK
<1> QED BY <1>1, <1>2, <1>3

\* An open Bluetooth device has its ports and hears of a death, no firmware
\* gets a frame of the one before it, and no NV command is taken for
\* answered while it is queued (skw_btdriver.c).
THEOREM OpenDeviceHears == BtSpec => [](BtOpenMeansOpen /\ NoStaleFrame /\ AnswerIsOwn)
  BY BtBegin, BtStep, BtHolds, PTL DEF BtSpec

-----------------------------------------------------------------------------
\* The devices that are made for the ports of the card.

\* Where a device stands: a version of the chip has a port for each, which
\* two of them share on the older one; the Wi-Fi device is looked for at
\* one number.
Named == Devices \ {"WIFI"}
Home(ver, d) == IF d = "WIFI" THEN WIFI_DATA_PORT ELSE PortNo(ver)[d]
Shared(ver, D) == ver = "V10" => "BTISOC" \notin D /\ "BTLOG" \notin D

\* The port of every device: two share one only on the first chip.
LEMMA Homes ==
    ASSUME NEW ver \in Versions
    PROVE  /\ \A d \in Devices : Home(ver, d) \in Ports
           /\ \A d \in Named : Home(ver, d) = PortNo(ver)[d]
           /\ \A d, e \in Devices : d # e /\ Home(ver, d) = Home(ver, e) =>
                 ver = "V10" /\ d \in {"BTISOC", "BTLOG"} /\ e \in {"BTISOC", "BTLOG"}
           /\ \A d \in Named : PortNo(ver).WIFI_DATA # Home(ver, d) /\ PortNo(ver).WIFI_CMD # Home(ver, d)
           /\ PortNo(ver).WIFI_DATA \in Ports /\ PortNo(ver).WIFI_CMD \in Ports
           /\ WIFI_DATA_PORT \in {PortNo(ver).WIFI_DATA, PortNo(ver).WIFI_CMD}
           /\ PortNo("V20").WIFI_CMD = WIFI_DATA_PORT
<1>1. CASE ver = "V10" BY <1>1 DEF Home, Named, Devices, Ports, PortNo, WIFI_DATA_PORT
<1>2. CASE ver = "V20" BY <1>2 DEF Home, Named, Devices, Ports, PortNo, WIFI_DATA_PORT
<1> QED BY <1>1, <1>2 DEF Versions

\* The shape of sb; that nothing but devices changed; that a device is
\* registered when it stands in its port, and once; how often a device is
\* registered that was bound in the same call.
BindShape(s) ==
    /\ DOMAIN s = {"ver", "bt", "pdev", "reg", "card", "dead", "oom", "n"}
    /\ s.ver \in Versions /\ s.bt \in BOOLEAN /\ s.dead \in BOOLEAN /\ s.oom \in BOOLEAN
    /\ s.pdev \in [Ports -> Devices \union {"none"}] /\ s.reg \in [Devices -> Nat]
    /\ s.card \in {"absent", "probed", "booted"} /\ s.n \in Nat
SameCard(s, t) == t.ver = s.ver /\ t.bt = s.bt /\ t.card = s.card /\ t.n = s.n /\ (s.oom => t.oom)
InPlace(s) == ~s.oom => /\ ~s.dead
                        /\ \A d \in Devices : /\ s.pdev[Home(s.ver, d)] \in {"none", d}
                                              /\ s.pdev[Home(s.ver, d)] = d => s.reg[d] = 1
                                              /\ s.pdev[Home(s.ver, d)] # d => s.reg[d] = 0
AtMost(s, D) == \A d \in Devices : s.reg[d] <= s.n + (IF d \in D THEN 1 ELSE 0)
Free(s, D) == ~s.oom => \A d \in D : s.reg[d] = 0
Kept(s, t, D) == ~t.oom => \A d \in Devices \ D : t.reg[d] = s.reg[d]

\* Devices that are added are registered once more, and stand in their ports.
LEMMA AddedStands ==
    ASSUME NEW s, BindShape(s), NEW D \in SUBSET Named, Shared(s.ver, D)
    PROVE  LET t == Added(s, D)
           IN  /\ BindShape(t) /\ SameCard(s, t) /\ t.oom = s.oom /\ t.dead = s.dead
               /\ \A d \in Devices : /\ t.reg[d] = IF d \in D THEN s.reg[d] + 1 ELSE s.reg[d]
                                     /\ t.pdev[Home(s.ver, d)] = IF d \in D THEN d ELSE s.pdev[Home(s.ver, d)]
<1> DEFINE t == Added(s, D)
           In(p) == {d \in D : PortNo(s.ver)[d] = p}
           R == [d \in Devices |-> IF d \in D THEN s.reg[d] + 1 ELSE s.reg[d]]
           P == [p \in Ports |-> IF In(p) # {} THEN CHOOSE d \in In(p) : TRUE ELSE s.pdev[p]]
<1>1. t = [s EXCEPT !.reg = R, !.pdev = P] BY DEF Added
<1>2. R \in [Devices -> Nat] BY DEF BindShape
<1>3. \A p \in Ports : In(p) # {} => P[p] \in In(p) OBVIOUS
<1>4. \A p \in Ports : In(p) = {} => P[p] = s.pdev[p] OBVIOUS
<1>5. P \in [Ports -> Devices \union {"none"}]
  <2>1. ASSUME NEW p \in Ports PROVE P[p] \in Devices \union {"none"}
    BY <2>1, <1>3, <1>4 DEF BindShape, Named
  <2> QED BY <2>1
<1>6. ASSUME NEW d \in Devices
      PROVE  P[Home(s.ver, d)] = IF d \in D THEN d ELSE s.pdev[Home(s.ver, d)]
  <2>1. Home(s.ver, d) \in Ports /\ s.ver \in Versions BY Homes DEF BindShape
  <2>2. \A e \in In(Home(s.ver, d)) : e = d
    <3> SUFFICES ASSUME NEW e \in D, PortNo(s.ver)[e] = Home(s.ver, d), e # d PROVE FALSE OBVIOUS
    <3>1. e \in Devices /\ Home(s.ver, e) = Home(s.ver, d) BY <2>1, Homes DEF Named
    <3> QED BY <2>1, <3>1, Homes DEF Shared
  <2>3. CASE d \in D
    <3>1. d \in In(Home(s.ver, d)) BY <2>1, <2>3, Homes
    <3> QED BY <2>1, <2>2, <2>3, <3>1, <1>3
  <2>4. CASE d \notin D
    <3>1. In(Home(s.ver, d)) = {} BY <2>2, <2>4
    <3> QED BY <2>1, <2>4, <3>1, <1>4
  <2> QED BY <2>3, <2>4
<1>7. \A d \in Devices : R[d] = IF d \in D THEN s.reg[d] + 1 ELSE s.reg[d] OBVIOUS
<1> HIDE DEF R, P, t
<1>8. /\ DOMAIN t = DOMAIN s /\ t.reg = R /\ t.pdev = P /\ t.ver = s.ver /\ t.bt = s.bt /\ t.card = s.card
      /\ t.n = s.n /\ t.oom = s.oom /\ t.dead = s.dead
  BY <1>1 DEF BindShape
<1>9. BindShape(t) /\ SameCard(s, t) BY <1>2, <1>5, <1>8 DEF BindShape, SameCard
<1> QED BY <1>6, <1>7, <1>8, <1>9 DEF t

\* What is bound was free, and is registered once, as many of them as can be had.
LEMMA Binds ==
    ASSUME NEW s, BindShape(s), InPlace(s), NEW E, NEW D \in SUBSET Named, Shared(s.ver, D),
           Free(s, D), AtMost(s, E), E \intersect D = {},
           NEW q, \A k \in 0..Len(q) : {q[i] : i \in 1..k} \subseteq D, NEW t \in Bind(s, q)
    PROVE  BindShape(t) /\ SameCard(s, t) /\ InPlace(t) /\ Kept(s, t, D) /\ AtMost(t, E \union D)
<1>1. PICK F \in SUBSET D : t = Added(s, F) \/ t = [Added(s, F) EXCEPT !.oom = TRUE]
  <2>1. \/ \E k \in 0..Len(q) : t = Added(s, {q[i] : i \in 1..k})
        \/ \E k \in 1..Len(q) : t = [Added(s, {q[i] : i \in 1..k}) EXCEPT !.oom = TRUE]
    BY DEF Bind
  <2>2. 1..Len(q) \subseteq 0..Len(q) OBVIOUS
  <2> QED BY <2>1, <2>2
<1> DEFINE u == Added(s, F)
<1>2. F \in SUBSET Named /\ Shared(s.ver, F) /\ s.ver \in Versions BY DEF Shared, BindShape
<1>3. /\ BindShape(u) /\ SameCard(s, u) /\ u.oom = s.oom /\ u.dead = s.dead
      /\ \A d \in Devices : /\ u.reg[d] = IF d \in F THEN s.reg[d] + 1 ELSE s.reg[d]
                            /\ u.pdev[Home(s.ver, d)] = IF d \in F THEN d ELSE s.pdev[Home(s.ver, d)]
  BY <1>2, AddedStands
<1>4. t = u \/ t = [u EXCEPT !.oom = TRUE] BY <1>1
<1> HIDE DEF u
<1>5. /\ DOMAIN t = DOMAIN u /\ t.ver = u.ver /\ t.bt = u.bt /\ t.pdev = u.pdev /\ t.reg = u.reg /\ t.card = u.card
      /\ t.dead = u.dead /\ t.n = u.n /\ t.oom \in BOOLEAN /\ (u.oom => t.oom)
  BY ZenonT(40), <1>3, <1>4 DEF BindShape
<1>6. BindShape(t) /\ SameCard(s, t) BY <1>3, <1>5 DEF BindShape, SameCard
<1>7. AtMost(t, E \union D)
  <2>1. ASSUME NEW d \in Devices PROVE t.reg[d] <= t.n + (IF d \in E \union D THEN 1 ELSE 0)
    <3>1. s.reg[d] \in Nat /\ s.n \in Nat /\ t.n = s.n /\ s.reg[d] <= s.n + (IF d \in E THEN 1 ELSE 0)
      BY <1>6 DEF BindShape, SameCard, AtMost
    <3>2. t.reg[d] = IF d \in F THEN s.reg[d] + 1 ELSE s.reg[d] BY <1>3, <1>5
    <3>3. (d \in F => d \in D) /\ ~(d \in E /\ d \in D) BY <1>1
    <3> QED BY <3>1, <3>2, <3>3
  <2> QED BY <2>1 DEF AtMost
<1>8. Kept(s, t, D) BY <1>1, <1>3, <1>5 DEF Kept
<1>9. InPlace(t)
  <2> SUFFICES ASSUME ~t.oom, NEW d \in Devices
               PROVE  /\ ~t.dead /\ t.pdev[Home(t.ver, d)] \in {"none", d}
                      /\ t.pdev[Home(t.ver, d)] = d => t.reg[d] = 1
                      /\ t.pdev[Home(t.ver, d)] # d => t.reg[d] = 0
    <3>1. Devices # {} BY DEF Devices
    <3> QED BY <3>1 DEF InPlace
  <2>1. /\ t.ver = s.ver /\ ~s.oom /\ ~s.dead /\ t.dead = s.dead /\ s.pdev[Home(s.ver, d)] \in {"none", d}
        /\ s.pdev[Home(s.ver, d)] = d => s.reg[d] = 1
        /\ s.pdev[Home(s.ver, d)] # d => s.reg[d] = 0
    BY <1>3, <1>5, <1>6 DEF SameCard, InPlace
  <2>2. /\ t.reg[d] = (IF d \in F THEN s.reg[d] + 1 ELSE s.reg[d])
        /\ t.pdev[Home(s.ver, d)] = (IF d \in F THEN d ELSE s.pdev[Home(s.ver, d)])
    BY <1>3, <1>5
  <2>3. d \in F => s.reg[d] = 0 BY <1>1, <2>1 DEF Free
  <2> QED BY <2>1, <2>2, <2>3
<1> QED BY <1>6, <1>7, <1>8, <1>9

\* Wi-Fi is bound when nothing stands at its number, or left as it is.
LEMMA WifiBinds ==
    ASSUME NEW s, BindShape(s), InPlace(s), AtMost(s, {}), NEW t \in skw_sdio_bind_WIFI_driver(s)
    PROVE  BindShape(t) /\ SameCard(s, t) /\ InPlace(t) /\ Kept(s, t, {"WIFI"}) /\ AtMost(t, {"WIFI"})
<1> DEFINE a == PortNo(s.ver).WIFI_DATA
           b == PortNo(s.ver).WIFI_CMD
           set == [s EXCEPT !.pdev[a] = "WIFI", !.pdev[b] = "WIFI"]
<1>1. /\ s.ver \in Versions /\ a \in Ports /\ b \in Ports /\ WIFI_DATA_PORT \in {a, b}
      /\ \A d \in Devices : Home(s.ver, d) \in Ports /\ (d # "WIFI" => a # Home(s.ver, d) /\ b # Home(s.ver, d))
      /\ Home(s.ver, "WIFI") = WIFI_DATA_PORT /\ "WIFI" \in Devices
  BY Homes DEF BindShape, Named, Home, Devices
<1>2. \/ t = s
      \/ s.pdev[WIFI_DATA_PORT] = "none" /\ (t = [set EXCEPT !.reg["WIFI"] = @ + 1] \/ t = [set EXCEPT !.oom = TRUE])
  BY DEF skw_sdio_bind_WIFI_driver
<1>3. CASE t = s
  <2>1. AtMost(s, {"WIFI"}) BY DEF AtMost, BindShape
  <2> QED BY <1>3, <2>1 DEF SameCard, Kept
<1>4. CASE s.pdev[WIFI_DATA_PORT] = "none" /\ (t = [set EXCEPT !.reg["WIFI"] = @ + 1] \/ t = [set EXCEPT !.oom = TRUE])
  <2> DEFINE P == [s.pdev EXCEPT ![a] = "WIFI", ![b] = "WIFI"]
             R == [s.reg EXCEPT !["WIFI"] = @ + 1]
  <2>1. set = [s EXCEPT !.pdev = P] BY DEF BindShape
  <2>2. P \in [Ports -> Devices \union {"none"}] /\ R \in [Devices -> Nat] BY <1>1 DEF BindShape
  <2>3. \A d \in Devices : P[Home(s.ver, d)] = IF d = "WIFI" THEN "WIFI" ELSE s.pdev[Home(s.ver, d)]
    BY <1>1 DEF BindShape
  <2>4. \A d \in Devices : R[d] = IF d = "WIFI" THEN s.reg[d] + 1 ELSE s.reg[d] BY DEF BindShape
  <2> HIDE DEF P, set
  <2>5. t = [[s EXCEPT !.pdev = P] EXCEPT !.reg = R] \/ t = [[s EXCEPT !.pdev = P] EXCEPT !.oom = TRUE]
    BY <1>4, <2>1 DEF BindShape
  <2> HIDE DEF R
  <2>6. /\ DOMAIN t = DOMAIN s /\ t.ver = s.ver /\ t.bt = s.bt /\ t.card = s.card /\ t.n = s.n /\ t.dead = s.dead
        /\ t.pdev = P /\ t.reg \in {R, s.reg} /\ t.oom \in BOOLEAN /\ (s.oom => t.oom) /\ (~t.oom => t.reg = R)
    BY <2>5 DEF BindShape
  <2>7. BindShape(t) /\ SameCard(s, t) BY <2>2, <2>6 DEF BindShape, SameCard
  <2>8. Kept(s, t, {"WIFI"}) BY <2>4, <2>6 DEF Kept
  <2>9. AtMost(t, {"WIFI"})
    <3>1. ASSUME NEW d \in Devices PROVE t.reg[d] <= t.n + (IF d \in {"WIFI"} THEN 1 ELSE 0)
      <4>1. s.reg[d] \in Nat /\ s.n \in Nat /\ t.n = s.n /\ s.reg[d] <= s.n
        BY <2>6 DEF BindShape, AtMost
      <4>2. t.reg[d] = s.reg[d] \/ t.reg[d] = IF d = "WIFI" THEN s.reg[d] + 1 ELSE s.reg[d]
        BY <2>4, <2>6
      <4> QED BY <4>1, <4>2
    <3> QED BY <3>1 DEF AtMost
  <2>10. InPlace(t)
    <3> SUFFICES ASSUME ~t.oom, NEW d \in Devices
                 PROVE  /\ ~t.dead /\ t.pdev[Home(t.ver, d)] \in {"none", d}
                        /\ t.pdev[Home(t.ver, d)] = d => t.reg[d] = 1
                        /\ t.pdev[Home(t.ver, d)] # d => t.reg[d] = 0
      BY <1>1 DEF InPlace
    <3>1. /\ ~s.oom /\ ~s.dead /\ s.pdev[Home(s.ver, d)] \in {"none", d}
          /\ s.pdev[Home(s.ver, d)] = d => s.reg[d] = 1
          /\ s.pdev[Home(s.ver, d)] # d => s.reg[d] = 0
      BY <2>6 DEF InPlace
    <3>2. t.ver = s.ver /\ t.dead = s.dead /\ t.pdev = P /\ t.reg = R BY <2>6
    <3> QED BY <1>1, <1>4, <2>3, <2>4, <3>1, <3>2
  <2> QED BY <2>7, <2>8, <2>9, <2>10
<1> QED BY <1>2, <1>3, <1>4

\* From s to t devices were only unregistered, those of D among them.
Emptied(s, t, D) == /\ BindShape(t) /\ SameCard(s, t) /\ t.oom = s.oom
                    /\ \A d \in Devices : t.reg[d] <= s.reg[d]
                    /\ InPlace(s) => InPlace(t) /\ Free(t, D)

\* One clearing after the other clears both.
LEMMA EmptiedBoth ==
    ASSUME NEW s, NEW t, NEW u, NEW D \in SUBSET Devices, NEW E \in SUBSET Devices,
           BindShape(s), Emptied(s, t, D), Emptied(t, u, E)
    PROVE  Emptied(s, u, D \union E)
<1>1. ASSUME NEW d \in Devices PROVE u.reg[d] <= s.reg[d] /\ (t.reg[d] = 0 => u.reg[d] = 0)
  <2>1. s.reg[d] \in Nat /\ t.reg[d] \in Nat /\ u.reg[d] \in Nat /\ u.reg[d] <= t.reg[d] /\ t.reg[d] <= s.reg[d]
    BY DEF Emptied, BindShape
  <2> QED BY <2>1
<1> QED BY <1>1 DEF Emptied, SameCard, Free

\* What is unbound at its port is not registered any more.
LEMMA Unbinds ==
    ASSUME NEW s, BindShape(s), NEW d \in Devices, Shared(s.ver, {d})
    PROVE  Emptied(s, skw_sdio_unbind_sdio_port_driver(s, Home(s.ver, d)), {d})
<1> DEFINE p == Home(s.ver, d)
           t == skw_sdio_unbind_sdio_port_driver(s, p)
           P == [s.pdev EXCEPT ![p] = "none"]
           c == s.pdev[p]
           R == [s.reg EXCEPT ![c] = @ - 1]
<1>1. s.ver \in Versions /\ p \in Ports /\ P \in [Ports -> Devices \union {"none"}] /\ c \in Devices \union {"none"}
  BY Homes DEF BindShape
<1>2. \A e \in Devices : P[Home(s.ver, e)] = IF e = d THEN "none" ELSE s.pdev[Home(s.ver, e)]
  <2>1. \A e \in Devices : Home(s.ver, e) \in Ports /\ (e # d => Home(s.ver, e) # p)
    BY <1>1, Homes DEF Shared
  <2> QED BY <2>1 DEF BindShape
<1>3. "none" \notin Devices BY DEF Devices
<1>4. \/ c = "none" /\ t = [s EXCEPT !.pdev = P]
      \/ c # "none" /\ s.reg[c] = 0 /\ t = [[s EXCEPT !.pdev = P] EXCEPT !.dead = TRUE]
      \/ c # "none" /\ s.reg[c] # 0 /\ t = [[s EXCEPT !.pdev = P] EXCEPT !.reg = R]
  BY DEF skw_sdio_unbind_sdio_port_driver, BindShape
<1>5. c # "none" /\ s.reg[c] # 0 => R \in [Devices -> Nat] BY <1>1 DEF BindShape
<1>6. c # "none" => \A e \in Devices : R[e] = IF e = c THEN s.reg[e] - 1 ELSE s.reg[e]
  BY <1>1 DEF BindShape
<1> HIDE DEF P, R, t
<1>7. /\ DOMAIN t = DOMAIN s /\ t.ver = s.ver /\ t.bt = s.bt /\ t.card = s.card /\ t.n = s.n /\ t.oom = s.oom /\ t.pdev = P
      /\ t.dead \in BOOLEAN
      /\ \/ c = "none" /\ t.dead = s.dead /\ t.reg = s.reg
         \/ c # "none" /\ s.reg[c] = 0 /\ t.reg = s.reg
         \/ c # "none" /\ s.reg[c] # 0 /\ t.dead = s.dead /\ t.reg = R
  BY <1>4 DEF BindShape
<1>8. BindShape(t) /\ SameCard(s, t) BY <1>1, <1>5, <1>7 DEF BindShape, SameCard
<1>9. ASSUME NEW e \in Devices PROVE t.reg[e] <= s.reg[e]
  <2>1. s.reg[e] \in Nat BY DEF BindShape
  <2> QED BY <1>6, <1>7, <2>1
<1>10. ASSUME InPlace(s), ~s.oom, NEW e \in Devices
       PROVE  /\ ~t.dead /\ t.pdev[Home(t.ver, e)] \in {"none", e}
              /\ t.pdev[Home(t.ver, e)] = e => t.reg[e] = 1
              /\ t.pdev[Home(t.ver, e)] # e => t.reg[e] = 0
              /\ e = d => t.reg[e] = 0
  <2>1. /\ ~s.dead /\ c \in {"none", d} /\ (c = d => s.reg[d] = 1) /\ (c # d => s.reg[d] = 0)
        /\ s.pdev[Home(s.ver, e)] \in {"none", e}
        /\ s.pdev[Home(s.ver, e)] = e => s.reg[e] = 1
        /\ s.pdev[Home(s.ver, e)] # e => s.reg[e] = 0
    BY <1>10 DEF InPlace
  <2>2. t.pdev[Home(t.ver, e)] = IF e = d THEN "none" ELSE s.pdev[Home(s.ver, e)] BY <1>2, <1>7
  <2>3. ~t.dead /\ t.reg[e] = IF e = d THEN 0 ELSE s.reg[e] BY <1>3, <1>6, <1>7, <2>1
  <2> QED BY <1>3, <2>1, <2>2, <2>3
<1>11. InPlace(s) => InPlace(t) /\ Free(t, {d})
  <2> SUFFICES ASSUME InPlace(s) PROVE InPlace(t) /\ Free(t, {d}) OBVIOUS
  <2>1. CASE t.oom BY <2>1 DEF InPlace, Free
  <2>2. CASE ~t.oom BY <1>7, <1>10, <2>2 DEF InPlace, Free
  <2> QED BY <2>1, <2>2
<1> QED BY <1>7, <1>8, <1>9, <1>11 DEF Emptied, t

\* One device after the other, each at the port of its name.
LEMMA UnboundOne ==
    ASSUME NEW s, NEW t, NEW D \in SUBSET Devices, BindShape(s), Emptied(s, t, D), NEW d \in Named, Shared(s.ver, {d})
    PROVE  Emptied(s, Unbound(t, d), D \union {d})
<1>1. BindShape(t) /\ t.ver = s.ver /\ s.ver \in Versions /\ d \in Devices
  BY DEF Emptied, SameCard, BindShape, Named
<1>2. Home(t.ver, d) = PortNo(t.ver)[d] BY <1>1, Homes
<1>3. Emptied(t, Unbound(t, d), {d}) BY <1>1, <1>2, Unbinds DEF Unbound
<1> QED BY <1>1, <1>3, EmptiedBoth

\* Without a card no device is there; Bluetooth's are made at the first
\* boot, one of them at the probe for a driver of its own, and two of them
\* only without such a driver and on the newer chip.
BtDevices == {"BTDATA", "BTCMD", "BTAUDIO", "BTISOC", "BTLOG"}
Timely(s) == ~s.oom =>
    /\ s.card = "absent" => \A d \in Devices : s.reg[d] = 0
    /\ s.card = "probed" /\ ~s.bt => \A d \in BtDevices : s.reg[d] = 0
    /\ s.bt \/ s.ver = "V10" => s.reg["BTISOC"] = 0 /\ s.reg["BTLOG"] = 0
BindInv == BindShape(sb) /\ InPlace(sb) /\ AtMost(sb, {}) /\ Timely(sb) /\ sb.n <= MaxBindOps

\* The card's state is of no account for the devices; an operation is counted.
LEMMA CardOnly ==
    ASSUME NEW s, BindShape(s), InPlace(s), NEW E, AtMost(s, E), NEW c \in {"absent", "probed", "booted"}
    PROVE  LET t == [s EXCEPT !.card = c]
           IN  /\ BindShape(t) /\ InPlace(t) /\ AtMost(t, E) /\ t.card = c
               /\ t.ver = s.ver /\ t.bt = s.bt /\ t.n = s.n /\ t.oom = s.oom /\ t.reg = s.reg
<1> DEFINE t == [s EXCEPT !.card = c]
<1>1. /\ DOMAIN t = DOMAIN s /\ t.ver = s.ver /\ t.bt = s.bt /\ t.n = s.n /\ t.oom = s.oom /\ t.reg = s.reg
      /\ t.pdev = s.pdev /\ t.dead = s.dead /\ t.card = c
  BY DEF BindShape
<1> HIDE DEF t
<1>2. BindShape(t) /\ InPlace(t) /\ AtMost(t, E) BY <1>1 DEF BindShape, InPlace, AtMost
<1> QED BY <1>1, <1>2 DEF t

\* Counting the operation changes nothing else of the card.
LEMMA Counted ==
    ASSUME NEW s, BindShape(s), InPlace(s), NEW E, AtMost(s, E), Timely(s), s.n = sb.n,
           sb.n < MaxBindOps, sb' = [s EXCEPT !.n = @ + 1]
    PROVE  BindInv'
<1>1. /\ DOMAIN sb' = DOMAIN s /\ sb'.ver = s.ver /\ sb'.bt = s.bt /\ sb'.n = s.n + 1 /\ sb'.oom = s.oom
      /\ sb'.reg = s.reg /\ sb'.pdev = s.pdev /\ sb'.dead = s.dead /\ sb'.card = s.card
  BY DEF BindShape
<1>2. BindShape(sb') /\ InPlace(sb') /\ Timely(sb') BY <1>1 DEF BindShape, InPlace, Timely
<1>3. sb'.n <= MaxBindOps BY <1>1, BindAssumption DEF BindShape
<1>4. ASSUME NEW d \in Devices PROVE sb'.reg[d] <= sb'.n + (IF d \in {} THEN 1 ELSE 0)
  <2>1. s.reg[d] \in Nat /\ s.n \in Nat /\ s.reg[d] <= s.n + (IF d \in E THEN 1 ELSE 0)
    BY DEF BindShape, AtMost
  <2> QED BY <1>1, <2>1
<1>5. AtMost(sb', {}) BY <1>4 DEF AtMost
<1> QED BY <1>2, <1>3, <1>5 DEF BindInv

\* Every probe, boot, switch and removal keeps the invariant.
LEMMA BindStep ==
    ASSUME BindInv, [BindNext]_bindVars
    PROVE  BindInv'
<1>0. BindShape(sb) /\ InPlace(sb) /\ AtMost(sb, {}) /\ Timely(sb) /\ sb.n <= MaxBindOps
  BY DEF BindInv
<1>1. CASE skw_sdio_probe
  <2> DEFINE none == [p \in Ports |-> "none"]
             r == [sb EXCEPT !.pdev = none]
             D == {"ATC", "LOG", "LOOPCHECK"}
  <2>a. PICK s \in Bind(r, PlatformPorts) :
            \E t \in (IF r.bt THEN Bind([s EXCEPT !.card = "probed"], <<"BTDATA">>) ELSE {[s EXCEPT !.card = "probed"]}) :
                sb' = [t EXCEPT !.n = @ + 1]
    <3>1. PICK t \in UNION {IF sb.bt THEN Bind([s EXCEPT !.card = "probed"], <<"BTDATA">>)
                            ELSE {[s EXCEPT !.card = "probed"]} : s \in Bind(r, PlatformPorts)} :
              sb' = [t EXCEPT !.n = @ + 1]
      BY <1>1 DEF skw_sdio_probe, Op, skw_sdio_bind_platform_driver, skw_sdio_bind_btseekwave_driver
    <3>2. \A s \in Bind(r, PlatformPorts) : r.bt = sb.bt BY <1>0 DEF BindShape
    <3> HIDE DEF r
    <3> QED BY <3>1, <3>2
  <2>1. PICK t \in (IF r.bt THEN Bind([s EXCEPT !.card = "probed"], <<"BTDATA">>) ELSE {[s EXCEPT !.card = "probed"]}) :
            sb' = [t EXCEPT !.n = @ + 1]
    BY <2>a
  <2>2. sb.card = "absent" /\ sb.n < MaxBindOps BY <1>1 DEF skw_sdio_probe, Op
  <2>3. /\ DOMAIN r = DOMAIN sb /\ r.ver = sb.ver /\ r.bt = sb.bt /\ r.card = sb.card /\ r.dead = sb.dead
        /\ r.oom = sb.oom /\ r.n = sb.n /\ r.reg = sb.reg /\ r.pdev = none
    BY <1>0 DEF BindShape
  <2>4. none \in [Ports -> Devices \union {"none"}] /\ \A d \in Devices : Home(sb.ver, d) \in Ports
    BY <1>0, Homes DEF BindShape
  <2>5. BindShape(r) /\ AtMost(r, {}) BY <1>0, <2>3, <2>4 DEF BindShape, AtMost
  <2>6. ~r.oom => \A d \in Devices : r.reg[d] = 0 BY <1>0, <2>2, <2>3 DEF Timely
  <2>7. InPlace(r) /\ Free(r, D)
    <3>1. ~r.oom => \A d \in Devices : r.pdev[Home(r.ver, d)] = "none" /\ d # "none"
      BY <2>3, <2>4 DEF Devices
    <3> QED BY <1>0, <2>3, <2>6, <3>1 DEF InPlace, Free, Devices
  <2>8. D \in SUBSET Named /\ Shared(r.ver, D) /\ {"BTDATA"} \in SUBSET Named /\ Shared(r.ver, {"BTDATA"})
    BY DEF Named, Devices, Shared
  <2>9. \A k \in 0..Len(PlatformPorts) : {PlatformPorts[i] : i \in 1..k} \subseteq D
    BY DEF PlatformPorts
  <2> HIDE DEF r, D
  <2>10. /\ BindShape(s) /\ SameCard(r, s) /\ InPlace(s) /\ Kept(r, s, D) /\ AtMost(s, {} \union D)
    BY <2>1, <2>5, <2>7, <2>8, <2>9, Binds
  <2> DEFINE c == [s EXCEPT !.card = "probed"]
  <2>11. /\ BindShape(c) /\ InPlace(c) /\ AtMost(c, {} \union D) /\ c.card = "probed"
         /\ c.ver = s.ver /\ c.bt = s.bt /\ c.n = s.n /\ c.oom = s.oom /\ c.reg = s.reg
    BY <2>10, CardOnly
  <2>12. IF r.bt THEN t \in Bind(c, <<"BTDATA">>) ELSE t = c BY <2>1
  <2> HIDE DEF c
  <2>13. ~c.oom => \A d \in BtDevices : c.reg[d] = 0
    BY <2>6, <2>10, <2>11 DEF Kept, SameCard, D, BtDevices, Devices
  <2>14. /\ BindShape(t) /\ InPlace(t) /\ AtMost(t, D \union {"BTDATA"}) /\ t.n = sb.n /\ t.bt = r.bt /\ t.card = "probed"
         /\ ~t.oom => ~c.oom /\ \A d \in BtDevices : d # "BTDATA" \/ ~t.bt => t.reg[d] = 0
    <3>1. CASE r.bt
      <4>1. Free(c, {"BTDATA"}) /\ Shared(c.ver, {"BTDATA"})
        BY <2>8, <2>10, <2>11, <2>13 DEF Free, BtDevices, SameCard
      <4>2. \A k \in 0..Len(<<"BTDATA">>) : {<<"BTDATA">>[i] : i \in 1..k} \subseteq {"BTDATA"}
        OBVIOUS
      <4>3. D \intersect {"BTDATA"} = {} /\ AtMost(c, D) BY <2>11 DEF D
      <4>4. t \in Bind(c, <<"BTDATA">>) BY <2>12, <3>1
      <4>5. BindShape(t) /\ SameCard(c, t) /\ InPlace(t) /\ Kept(c, t, {"BTDATA"}) /\ AtMost(t, D \union {"BTDATA"})
        BY <2>8, <2>11, <4>1, <4>2, <4>3, <4>4, Binds
      <4> QED BY <2>3, <2>10, <2>11, <2>13, <3>1, <4>5 DEF SameCard, Kept, BtDevices, Devices, r
    <3>2. CASE ~r.bt
      <4>1. t = c BY <2>12, <3>2
      <4>2. AtMost(c, D \union {"BTDATA"})
        <5>1. ASSUME NEW d \in Devices PROVE c.reg[d] <= c.n + (IF d \in D \union {"BTDATA"} THEN 1 ELSE 0)
          <6>1. c.reg[d] \in Nat /\ c.n \in Nat /\ c.reg[d] <= c.n + (IF d \in D THEN 1 ELSE 0)
            BY <2>11 DEF AtMost, BindShape
          <6> QED BY <6>1
        <5> QED BY <5>1 DEF AtMost
      <4> QED BY <2>3, <2>10, <2>11, <2>13, <3>2, <4>1, <4>2 DEF SameCard, BtDevices
    <3> QED BY <3>1, <3>2
  <2>15. Timely(t)
    <3>1. "BTISOC" \in BtDevices /\ "BTLOG" \in BtDevices /\ "BTISOC" # "BTDATA" /\ "BTLOG" # "BTDATA"
      BY DEF BtDevices
    <3> QED BY <2>14, <3>1 DEF Timely
  <2> QED BY <2>1, <2>2, <2>14, <2>15, Counted
<1>2. CASE FirstBootBinds
  <2> DEFINE r == [sb EXCEPT !.card = "booted"]
             D == {BtPorts(sb.ver)[i] : i \in 1..Len(BtPorts(sb.ver))}
  <2>a. PICK s \in skw_sdio_bind_WIFI_driver(r) :
            \E t \in (IF sb.bt THEN {s} ELSE skw_sdio_bind_BT_driver(s)) : sb' = [t EXCEPT !.n = @ + 1]
    BY <1>2 DEF FirstBootBinds, Op
  <2>1. PICK t \in (IF sb.bt THEN {s} ELSE skw_sdio_bind_BT_driver(s)) : sb' = [t EXCEPT !.n = @ + 1]
    BY <2>a
  <2>2. sb.card = "probed" /\ sb.n < MaxBindOps BY <1>2 DEF FirstBootBinds, Op
  <2>3. /\ BindShape(r) /\ InPlace(r) /\ AtMost(r, {}) /\ r.card = "booted"
        /\ r.ver = sb.ver /\ r.bt = sb.bt /\ r.n = sb.n /\ r.oom = sb.oom /\ r.reg = sb.reg
    BY <1>0, CardOnly
  <2>4. D \in SUBSET BtDevices /\ Shared(sb.ver, D) /\ (\A k \in 0..Len(BtPorts(sb.ver)) : {BtPorts(sb.ver)[i] : i \in 1..k} \subseteq D)
    <3> DEFINE three == <<"BTDATA", "BTCMD", "BTAUDIO">>
               two == <<"BTISOC", "BTLOG">>
               all == BtPorts(sb.ver)
    <3>1. sb.ver = "V20" => all \in Seq(BtDevices)
      <4>1. three \in Seq(BtDevices) /\ two \in Seq(BtDevices) BY DEF BtDevices
      <4>2. three \o two \in Seq(BtDevices) BY <4>1
      <4> QED BY <4>2 DEF BtPorts
    <3>2. sb.ver = "V10" => all \in Seq(BtDevices \ {"BTISOC", "BTLOG"})
      <4>1. three \in Seq(BtDevices \ {"BTISOC", "BTLOG"}) /\ <<>> \in Seq(BtDevices \ {"BTISOC", "BTLOG"})
        BY DEF BtDevices
      <4>2. three \o <<>> \in Seq(BtDevices \ {"BTISOC", "BTLOG"}) BY <4>1
      <4> QED BY <4>2 DEF BtPorts
    <3>3. sb.ver \in {"V10", "V20"} BY <1>0 DEF BindShape, Versions
    <3> HIDE DEF all
    <3>4. CASE sb.ver = "V20"
      <4>1. all \in Seq(BtDevices) BY <3>1, <3>4
      <4>2. \A i \in 1..Len(all) : all[i] \in BtDevices BY <4>1
      <4>3. \A k \in 0..Len(all) : 1..k \subseteq 1..Len(all) BY <4>1
      <4> QED BY <3>4, <4>2, <4>3 DEF Shared, all
    <3>5. CASE sb.ver = "V10"
      <4>1. all \in Seq(BtDevices \ {"BTISOC", "BTLOG"}) BY <3>2, <3>5
      <4>2. \A i \in 1..Len(all) : all[i] \in BtDevices \ {"BTISOC", "BTLOG"} BY <4>1
      <4>3. \A k \in 0..Len(all) : 1..k \subseteq 1..Len(all) BY <4>1
      <4> QED BY <4>2, <4>3 DEF Shared, all
    <3> QED BY <3>3, <3>4, <3>5
  <2> HIDE DEF r, D
  <2>5. BindShape(s) /\ SameCard(r, s) /\ InPlace(s) /\ Kept(r, s, {"WIFI"}) /\ AtMost(s, {"WIFI"})
    BY <2>1, <2>3, WifiBinds
  <2>6. BtDevices \subseteq Named /\ Named \subseteq Devices /\ "WIFI" \notin BtDevices /\ "WIFI" \notin Named
        /\ "BTISOC" \in BtDevices /\ "BTLOG" \in BtDevices
    BY DEF BtDevices, Named, Devices
  <2>7. ~s.oom => /\ ~sb.bt => \A d \in BtDevices : s.reg[d] = 0
                  /\ s.bt \/ s.ver = "V10" => s.reg["BTISOC"] = 0 /\ s.reg["BTLOG"] = 0
    BY <1>0, <2>2, <2>3, <2>5, <2>6 DEF Timely, Kept, SameCard
  <2>8. CASE sb.bt
    <3>1. t = s BY <2>1, <2>8
    <3>2. Timely(t) BY <2>3, <2>5, <2>7, <2>8, <3>1 DEF Timely, SameCard
    <3> QED BY <2>1, <2>2, <2>3, <2>5, <3>1, <3>2, Counted DEF SameCard
  <2>9. CASE ~sb.bt
    <3>1. t \in Bind(s, BtPorts(sb.ver)) /\ s.ver = sb.ver
      BY <2>1, <2>3, <2>5, <2>9 DEF skw_sdio_bind_BT_driver, SameCard
    <3>2. Free(s, D) /\ D \in SUBSET Named /\ {"WIFI"} \intersect D = {} /\ Shared(s.ver, D)
      BY <2>4, <2>6, <2>7, <2>9, <3>1 DEF Free
    <3>3. BindShape(t) /\ SameCard(s, t) /\ InPlace(t) /\ Kept(s, t, D) /\ AtMost(t, {"WIFI"} \union D)
      BY <2>4, <2>5, <3>1, <3>2, Binds
    <3>4. Timely(t)
      BY <2>3, <2>4, <2>5, <2>6, <2>7, <2>9, <3>1, <3>3 DEF Timely, SameCard, Kept, Shared, BindShape
    <3> QED BY <2>1, <2>2, <2>3, <2>5, <3>3, <3>4, Counted DEF SameCard
  <2> QED BY <2>8, <2>9
<1>3. CASE skw_sdio_wifi_power_on
  <2>1. sb.card # "absent" /\ sb.n < MaxBindOps BY <1>3 DEF skw_sdio_wifi_power_on, Op
  <2>2. PICK t \in skw_sdio_bind_WIFI_driver(sb) \union {skw_sdio_unbind_WIFI_driver(sb)} : sb' = [t EXCEPT !.n = @ + 1]
    BY <1>3 DEF skw_sdio_wifi_power_on, Op
  <2>3. "BTISOC" \in Named /\ "BTLOG" \in Named /\ "WIFI" \notin BtDevices /\ "WIFI" \notin Named
        /\ BtDevices \subseteq Devices /\ Named \subseteq Devices /\ "WIFI" \in Devices
    BY DEF Named, Devices, BtDevices
  <2>4. CASE t \in skw_sdio_bind_WIFI_driver(sb)
    <3>1. BindShape(t) /\ SameCard(sb, t) /\ InPlace(t) /\ Kept(sb, t, {"WIFI"}) /\ AtMost(t, {"WIFI"})
      BY <1>0, <2>4, WifiBinds
    <3>2. Timely(t) BY <1>0, <2>1, <2>3, <3>1 DEF Timely, SameCard, Kept
    <3> QED BY <2>1, <2>2, <3>1, <3>2, Counted DEF SameCard
  <2>5. CASE t = skw_sdio_unbind_WIFI_driver(sb)
    <3>1. Emptied(sb, t, {"WIFI"})
      <4>1. skw_sdio_unbind_WIFI_driver(sb) = skw_sdio_unbind_sdio_port_driver(sb, Home(sb.ver, "WIFI"))
        BY <1>0, Homes DEF skw_sdio_unbind_WIFI_driver, Home, BindShape
      <4> QED BY <1>0, <2>3, <2>5, <4>1, Unbinds DEF Shared
    <3>2. BindShape(t) /\ SameCard(sb, t) /\ InPlace(t) /\ t.oom = sb.oom BY <1>0, <3>1 DEF Emptied
    <3>3. ASSUME NEW d \in Devices PROVE (sb.reg[d] = 0 => t.reg[d] = 0) /\ t.reg[d] <= t.n + (IF d \in {} THEN 1 ELSE 0)
      <4>1. sb.reg[d] \in Nat /\ t.reg[d] \in Nat /\ t.reg[d] <= sb.reg[d] /\ t.n = sb.n /\ sb.n \in Nat
            /\ sb.reg[d] <= sb.n + (IF d \in {} THEN 1 ELSE 0)
        BY <1>0, <3>1 DEF Emptied, BindShape, AtMost, SameCard
      <4> QED BY <4>1
    <3>4. AtMost(t, {}) BY <3>3 DEF AtMost
    <3>5. Timely(t) BY <1>0, <2>3, <3>2, <3>3 DEF Timely, SameCard
    <3> QED BY <2>1, <2>2, <3>2, <3>4, <3>5, Counted DEF SameCard
  <2> QED BY <2>2, <2>4, <2>5
<1>4. CASE skw_sdio_remove
  <2> DEFINE u == skw_sdio_unbind_platform_driver(sb)
             w == skw_sdio_unbind_WIFI_driver(u)
             b == Unbound(Unbound(Unbound(w, "BTDATA"), "BTCMD"), "BTAUDIO")
             t == skw_sdio_unbind_BT_driver(w)
             G == {"ATC", "LOG", "LOOPCHECK", "WIFI", "BTDATA", "BTCMD", "BTAUDIO"}
  <2>1. Emptied(sb, sb, {}) /\ sb.ver \in Versions
    <3>1. \A d \in Devices : sb.reg[d] <= sb.reg[d] BY <1>0 DEF BindShape
    <3> QED BY <1>0, <3>1 DEF Emptied, SameCard, Free, BindShape
  <2>2. /\ Named = Devices \ {"WIFI"} /\ Devices = {"ATC", "LOG", "LOOPCHECK", "BTDATA", "BTCMD", "BTAUDIO", "BTISOC", "BTLOG", "WIFI"}
        /\ \A d \in Devices : d \notin {"BTISOC", "BTLOG"} \/ sb.ver # "V10" => Shared(sb.ver, {d})
    BY DEF Named, Devices, Shared
  <2>3. Emptied(sb, u, {"ATC", "LOG", "LOOPCHECK"})
    <3>1. Emptied(sb, Unbound(sb, "ATC"), {} \union {"ATC"}) BY <1>0, <2>1, <2>2, UnboundOne
    <3>2. Emptied(sb, Unbound(Unbound(sb, "ATC"), "LOG"), {} \union {"ATC"} \union {"LOG"})
      BY <1>0, <2>2, <3>1, UnboundOne
    <3>3. Emptied(sb, Unbound(Unbound(Unbound(sb, "ATC"), "LOG"), "LOOPCHECK"), {} \union {"ATC"} \union {"LOG"} \union {"LOOPCHECK"})
      BY <1>0, <2>2, <3>2, UnboundOne
    <3>4. {} \union {"ATC"} \union {"LOG"} \union {"LOOPCHECK"} = {"ATC", "LOG", "LOOPCHECK"} OBVIOUS
    <3> QED BY <3>3, <3>4 DEF skw_sdio_unbind_platform_driver
  <2> HIDE DEF u
  <2>4. Emptied(sb, w, {"ATC", "LOG", "LOOPCHECK"} \union {"WIFI"})
    <3>1. BindShape(u) /\ u.ver = sb.ver BY <2>3 DEF Emptied, SameCard
    <3>2. w = skw_sdio_unbind_sdio_port_driver(u, Home(u.ver, "WIFI"))
      BY <2>1, <3>1, Homes DEF skw_sdio_unbind_WIFI_driver, Home
    <3>3. Emptied(u, w, {"WIFI"}) BY <2>2, <3>1, <3>2, Unbinds
    <3> QED BY <1>0, <2>2, <2>3, <3>3, EmptiedBoth
  <2> HIDE DEF w
  <2>5. Emptied(sb, b, G)
    <3> DEFINE A == {"ATC", "LOG", "LOOPCHECK"} \union {"WIFI"}
    <3>1. Emptied(sb, Unbound(w, "BTDATA"), A \union {"BTDATA"}) BY <1>0, <2>2, <2>4, UnboundOne
    <3>2. Emptied(sb, Unbound(Unbound(w, "BTDATA"), "BTCMD"), A \union {"BTDATA"} \union {"BTCMD"})
      BY <1>0, <2>2, <3>1, UnboundOne
    <3>3. Emptied(sb, b, A \union {"BTDATA"} \union {"BTCMD"} \union {"BTAUDIO"})
      BY <1>0, <2>2, <3>2, UnboundOne
    <3>4. A \union {"BTDATA"} \union {"BTCMD"} \union {"BTAUDIO"} = G OBVIOUS
    <3> QED BY <3>3, <3>4
  <2>6. w.bt = sb.bt /\ w.ver = sb.ver /\ sb' = [t EXCEPT !.card = "absent"]
    BY <1>4, <2>4 DEF skw_sdio_remove, Emptied, SameCard, w, u
  <2>7. Emptied(sb, t, {}) /\ (~sb.oom => \A d \in Devices : t.reg[d] = 0)
    <3>1. CASE sb.bt \/ sb.ver = "V10"
      <4>1. t = b BY <2>6, <3>1 DEF skw_sdio_unbind_BT_driver
      <4>2. ~sb.oom => \A d \in G : b.reg[d] = 0 BY <1>0, <2>5 DEF Emptied, Free
      <4>3. ~sb.oom => b.reg["BTISOC"] = 0 /\ b.reg["BTLOG"] = 0
        <5>1. ~sb.oom => sb.reg["BTISOC"] = 0 /\ sb.reg["BTLOG"] = 0 BY <1>0, <3>1 DEF Timely
        <5>2. b.reg \in [Devices -> Nat] /\ b.reg["BTISOC"] <= sb.reg["BTISOC"] /\ b.reg["BTLOG"] <= sb.reg["BTLOG"]
          BY <2>2, <2>5 DEF Emptied, BindShape
        <5>3. b.reg["BTISOC"] \in Nat /\ b.reg["BTLOG"] \in Nat BY <2>2, <5>2
        <5> QED BY <5>1, <5>2, <5>3
      <4> HIDE DEF b, t
      <4>4. Emptied(sb, t, {}) BY <2>5, <4>1 DEF Emptied, Free
      <4>5. ~sb.oom => \A d \in Devices : b.reg[d] = 0 BY <2>2, <4>2, <4>3
      <4> QED BY <4>1, <4>4, <4>5
    <3>2. CASE ~(sb.bt \/ sb.ver = "V10")
      <4>1. t = Unbound(Unbound(b, "BTISOC"), "BTLOG") BY <2>6, <3>2 DEF skw_sdio_unbind_BT_driver
      <4> HIDE DEF b, t
      <4>2. Emptied(sb, Unbound(b, "BTISOC"), G \union {"BTISOC"})
        BY <1>0, <2>2, <2>5, <3>2, UnboundOne
      <4>3. Emptied(sb, t, G \union {"BTISOC"} \union {"BTLOG"})
        BY <1>0, <2>2, <3>2, <4>1, <4>2, UnboundOne
      <4>4. G \union {"BTISOC"} \union {"BTLOG"} = Devices BY <2>2
      <4> QED BY <1>0, <4>3, <4>4 DEF Emptied, Free
    <3> QED BY <3>1, <3>2
  <2> HIDE DEF t
  <2>8. BindShape(t) /\ InPlace(t) /\ AtMost(t, {}) /\ t.n = sb.n /\ t.oom = sb.oom
    <3>1. ASSUME NEW d \in Devices PROVE t.reg[d] <= t.n + (IF d \in {} THEN 1 ELSE 0)
      <4>1. sb.reg[d] \in Nat /\ t.reg[d] \in Nat /\ t.reg[d] <= sb.reg[d] /\ t.n = sb.n /\ sb.n \in Nat
            /\ sb.reg[d] <= sb.n + (IF d \in {} THEN 1 ELSE 0)
        BY <1>0, <2>7 DEF Emptied, BindShape, AtMost, SameCard
      <4> QED BY <4>1
    <3> QED BY <1>0, <2>7, <3>1 DEF Emptied, AtMost, SameCard
  <2> DEFINE c == [t EXCEPT !.card = "absent"]
  <2>9. /\ BindShape(c) /\ InPlace(c) /\ AtMost(c, {}) /\ c.card = "absent"
        /\ c.n = t.n /\ c.oom = t.oom /\ c.reg = t.reg
    BY <2>8, CardOnly
  <2>10. sb' = c BY <2>6
  <2> HIDE DEF c
  <2>11. Timely(c) BY <2>2, <2>7, <2>8, <2>9 DEF Timely
  <2> QED BY <1>0, <2>8, <2>9, <2>10, <2>11 DEF BindInv
<1>5. CASE UNCHANGED bindVars BY <1>5 DEF BindInv, bindVars
<1> QED BY <1>1, <1>2, <1>3, <1>4, <1>5 DEF BindNext

\* No card, no device.
LEMMA BindBegin == BindInit => BindInv
<1> SUFFICES ASSUME BindInit PROVE BindInv OBVIOUS
<1>1. PICK ver \in Versions, bt1 \in BOOLEAN :
          sb = [ver |-> ver, bt |-> bt1, pdev |-> [p \in Ports |-> "none"], reg |-> [d \in Devices |-> 0],
                card |-> "absent", dead |-> FALSE, oom |-> FALSE, n |-> 0]
  BY DEF BindInit
<1>2. /\ DOMAIN sb = {"ver", "bt", "pdev", "reg", "card", "dead", "oom", "n"}
      /\ sb.ver = ver /\ sb.bt = bt1 /\ sb.pdev = [p \in Ports |-> "none"] /\ sb.reg = [d \in Devices |-> 0]
      /\ sb.card = "absent" /\ sb.dead = FALSE /\ sb.oom = FALSE /\ sb.n = 0
  BY <1>1
<1>3. BindShape(sb) /\ sb.n <= MaxBindOps
  <2>1. sb.pdev \in [Ports -> Devices \union {"none"}] /\ sb.reg \in [Devices -> Nat] /\ 0 <= MaxBindOps
    BY <1>2, BindAssumption
  <2>2. sb.bt \in BOOLEAN /\ sb.dead \in BOOLEAN /\ sb.oom \in BOOLEAN /\ sb.ver \in Versions BY <1>2
  <2>3. sb.card \in {"absent", "probed", "booted"} /\ sb.n \in Nat /\ sb.n <= MaxBindOps BY <1>2, <2>1
  <2> QED BY <1>2, <2>1, <2>2, <2>3 DEF BindShape
<1>4. \A d \in Devices : Home(ver, d) \in Ports /\ d # "none" /\ sb.reg[d] = 0
  BY <1>2, Homes DEF Devices
<1>5. InPlace(sb) BY <1>2, <1>4 DEF InPlace
<1>6. AtMost(sb, {}) BY <1>2, <1>4 DEF AtMost
<1>7. Timely(sb) BY <1>2, <1>4 DEF Timely, Devices
<1> QED BY <1>3, <1>5, <1>6, <1>7 DEF BindInv

\* What the runs check follows.
LEMMA BindHolds == BindInv => DevicesMatch /\ BindTypeOK
<1> SUFFICES ASSUME BindInv PROVE DevicesMatch /\ BindTypeOK OBVIOUS
<1>1. DevicesMatch
  <2>1. ASSUME ~sb.oom, NEW d \in Devices PROVE sb.reg[d] \in {0, 1} BY <2>1 DEF BindInv, InPlace
  <2> QED BY <2>1 DEF BindInv, InPlace, Timely, DevicesMatch, Devices
<1>2. BindTypeOK
  <2>1. ASSUME NEW d \in Devices PROVE sb.reg[d] \in 0..MaxBindOps
    <3>1. sb.reg[d] \in Nat /\ sb.n \in Nat /\ sb.reg[d] <= sb.n + (IF d \in {} THEN 1 ELSE 0) /\ sb.n <= MaxBindOps
      BY DEF BindInv, BindShape, AtMost
    <3> QED BY <3>1, BindAssumption
  <2> QED BY <2>1 DEF BindInv, BindShape, BindTypeOK
<1> QED BY <1>1, <1>2

\* Devices are registered once, unregistered only when they are, and none
\* outlives its card (skw_sdio_rx.c), however often they are bound.
THEOREM DevicesGoWithTheCard == BindSpec => []DevicesMatch
  BY BindBegin, BindStep, BindHolds, PTL DEF BindSpec

-----------------------------------------------------------------------------
\* The log of the Bluetooth chip.

\* The log device of Bluetooth: the queue is bounded and in order, only its
\* first packet is read in part, and the reader has the rest of that; what
\* a session has read is complete up to there.
LogPacket == [s : Nat, n : Nat, left : 1..PacketSize]
LogPiece == [s : Nat, n : Nat, k : 1..PacketSize]
BlFields == /\ DOMAIN bl = {"info", "pdata", "is_open", "bt_open", "q", "rd", "wr", "cp", "got", "packets", "opens",
                            "fds", "rel", "cut", "odd"}
            /\ bl.q \in Seq(LogPacket) /\ bl.got \in Seq(LogPiece) /\ bl.packets \in Nat /\ bl.opens \in Nat
QueueHasRoom == Len(bl.q) <= LogLimit /\ (bl.wr # 0 => Len(bl.q) <= LogLimit - 1)
LogReaderKnows == /\ bl.rd \in {"sleep", "empty"} /\ "missed" \notin bl.odd => bl.q = <<>>
                  /\ ~bl.is_open => bl.rd = "away" /\ bl.got = <<>>
                  /\ bl.is_open /\ bl.bt_open => bl.cp # "off"
\* A packet that a writer is making has the last number.
Numbered(n) == n <= bl.packets /\ (bl.wr # 0 => n < bl.packets)
QueueInOrder == /\ \A i \in 1..Len(bl.q) : Numbered(bl.q[i].n)
                /\ \A i, j \in 1..Len(bl.q) : i < j => bl.q[i].n < bl.q[j].n
ReadInOrder == /\ \A i \in 1..Len(bl.got) : Numbered(bl.got[i].n)
               /\ \A i \in 1..Len(bl.got), j \in 1..Len(bl.q) : bl.got[i].n <= bl.q[j].n
               /\ \A i, j \in 1..Len(bl.got) : i < j => bl.got[i].n <= bl.got[j].n
\* The i-th piece that was read ends its packet, if none of that was dropped.
PacketDone(i) == bl.got[i].k < PacketSize /\ bl.got[i].n \notin bl.cut =>
                    i > 1 /\ bl.got[i - 1].n = bl.got[i].n /\ bl.got[i - 1].k + bl.got[i].k = PacketSize
ReadIsWhole == \A i \in 1..Len(bl.got) - 1 : bl.got[i].n # bl.got[i + 1].n => PacketDone(i)
RestFollows == /\ \A j \in 2..Len(bl.q) : bl.q[j].left = PacketSize
               /\ bl.q # <<>> /\ bl.q[1].left # PacketSize =>
                     /\ bl.q[1].left = 1
                     /\ \/ bl.got = <<>> /\ bl.q[1].n \in bl.cut
                        \/ /\ bl.got # <<>>
                           /\ bl.got[Len(bl.got)].n = bl.q[1].n /\ bl.got[Len(bl.got)].k = PacketSize - 1
               /\ bl.got # <<>> /\ (bl.q # <<>> => bl.q[1].left = PacketSize) => PacketDone(Len(bl.got))
OneSession == bl.odd \intersect {"late", "crossed"} = {} =>
                 /\ \A i \in 1..Len(bl.q) : bl.q[i].s = bl.opens
                 /\ \A i \in 1..Len(bl.got) : bl.got[i].s = bl.opens
                 /\ ~bl.is_open /\ ~bl.rel => bl.q = <<>>
BtLogInv == /\ BlFields /\ BtLogTypeOK /\ QueueHasRoom /\ LogReaderKnows /\ QueueInOrder /\ ReadInOrder
            /\ ReadIsWhole /\ RestFollows /\ OneSession

\* What a reader has left who took what he had room for.
LogTaken(len) == [skwbt_log_port_data_dequeue(bl, len) EXCEPT !.rd = "away"]

\* A sequence with one more at its end.
LEMMA Appended ==
    ASSUME NEW S, NEW s \in Seq(S), NEW x \in S
    PROVE  /\ Append(s, x) \in Seq(S) /\ Append(s, x) # <<>> /\ Len(Append(s, x)) = Len(s) + 1 /\ Len(s) \in Nat
           /\ Append(s, x)[Len(s) + 1] = x
           /\ \A i \in 1..Len(s) : Append(s, x)[i] = s[i] /\ s[i] \in S
  BY AppendProperties

\* A sequence without its first.
LEMMA Tailed ==
    ASSUME NEW S, NEW s \in Seq(S), s # <<>>
    PROVE  /\ Tail(s) \in Seq(S) /\ Len(Tail(s)) = Len(s) - 1 /\ Len(s) \in Nat /\ Len(s) > 0 /\ s[1] \in S
           /\ \A i \in 1..(Len(s) - 1) : Tail(s)[i] = s[i + 1] /\ i + 1 \in 2..Len(s)
  OBVIOUS

\* A sequence with another first.
LEMMA Begun ==
    ASSUME NEW S, NEW s \in Seq(S), s # <<>>, NEW y \in S, NEW t, t = [s EXCEPT ![1] = y]
    PROVE  /\ t \in Seq(S) /\ Len(t) = Len(s) /\ Len(s) \in Nat /\ Len(s) > 0 /\ t[1] = y /\ t # <<>>
           /\ \A i \in 2..Len(s) : t[i] = s[i]
  OBVIOUS

\* The numbers of a queue.
LEMMA LogNumbers ==
    ASSUME NEW q \in Seq(LogPacket), NEW g \in Seq(LogPiece)
    PROVE  (\A i \in 1..Len(q) : q[i].n \in Nat) /\ (\A i \in 1..Len(g) : g[i].n \in Nat)
<1>1. \A i \in 1..Len(q) : q[i] \in LogPacket OBVIOUS
<1>2. \A i \in 1..Len(g) : g[i] \in LogPiece OBVIOUS
<1>3. \A x \in LogPacket : x.n \in Nat BY DEF LogPacket
<1>4. \A x \in LogPiece : x.n \in Nat BY DEF LogPiece
<1> QED BY <1>1, <1>2, <1>3, <1>4

\* The reader takes the first packet, or what it has room for of it.
LEMMA LogIsRead ==
    ASSUME BtLogInv, bl.is_open, bl.q # <<>>, NEW len \in ReadLengths,
           bl' = LogTaken(len)
    PROVE  BtLogInv'
<1>0. /\ BlFields /\ BtLogTypeOK /\ QueueHasRoom /\ LogReaderKnows /\ QueueInOrder /\ ReadInOrder
      /\ ReadIsWhole /\ RestFollows /\ OneSession
  BY DEF BtLogInv
<1> DEFINE p == bl.q[1]
           m == Len(bl.q)
           g == Len(bl.got)
           k == IF len >= p.left THEN p.left ELSE len
           x == [s |-> p.s, n |-> p.n, k |-> k]
<1>1. /\ bl.q \in Seq(LogPacket) /\ bl.got \in Seq(LogPiece) /\ m \in Nat /\ m > 0 /\ g \in Nat /\ p \in LogPacket
      /\ \A i \in 1..m : bl.q[i] \in LogPacket
      /\ \A i \in 1..g : bl.got[i] \in LogPiece
  BY <1>0 DEF BlFields
<1>n. /\ \A i \in 1..m : bl.q[i].n \in Nat /\ bl.q[i].left \in 1..PacketSize
      /\ \A i \in 1..g : bl.got[i].n \in Nat /\ bl.got[i].k \in 1..PacketSize
  BY <1>1 DEF LogPacket, LogPiece
<1>2. PacketSize \in Nat /\ PacketSize > 0 /\ len \in 1..PacketSize /\ len >= PacketSize - 1
  BY BtLogAssumption DEF ReadLengths
<1>3. p.left \in 1..PacketSize /\ p.s \in Nat /\ p.n \in Nat /\ k \in 1..PacketSize /\ x \in LogPiece
  BY <1>1, <1>2 DEF LogPacket, LogPiece
<1>6. x.s = p.s /\ x.n = p.n /\ x.k = k OBVIOUS
<1>k. k = IF len >= p.left THEN p.left ELSE len OBVIOUS
<1> DEFINE q == IF len >= p.left THEN Tail(bl.q) ELSE [bl.q EXCEPT ![1].left = @ - len]
<1>4. /\ DOMAIN bl' = DOMAIN bl /\ bl'.rd = "away" /\ bl'.got = Append(bl.got, x) /\ bl'.q = q
      /\ UNCHANGED <<bl.info, bl.pdata, bl.is_open, bl.bt_open, bl.wr, bl.cp, bl.packets, bl.opens, bl.fds, bl.rel, bl.cut, bl.odd>>
  <2>1. bl' = [bl EXCEPT !.q = q, !.got = Append(@, x), !.rd = "away"]
    <3>1. CASE len >= p.left
      <4>1. skwbt_log_port_data_dequeue(bl, len) = [bl EXCEPT !.q = Tail(@), !.got = Append(@, [s |-> p.s, n |-> p.n, k |-> p.left])]
        BY <3>1 DEF skwbt_log_port_data_dequeue
      <4> QED BY <4>1, <3>1 DEF LogTaken
    <3>2. CASE ~(len >= p.left)
      <4>1. skwbt_log_port_data_dequeue(bl, len) = [bl EXCEPT !.q[1].left = @ - len, !.got = Append(@, [s |-> p.s, n |-> p.n, k |-> len])]
        BY <3>2 DEF skwbt_log_port_data_dequeue
      <4>2. bl'.q = q BY <4>1, <3>2, <1>0 DEF BlFields, LogTaken
      <4> QED BY <4>1, <3>2 DEF LogTaken
    <3> QED BY <3>1, <3>2
  <2> HIDE DEF q, x
  <2> QED BY <1>0, <2>1 DEF BlFields
<1>q. q = IF len >= p.left THEN Tail(bl.q) ELSE [bl.q EXCEPT ![1].left = @ - len] OBVIOUS
<1> HIDE DEF q, x, k
<1>5. /\ bl'.got \in Seq(LogPiece) /\ Len(bl'.got) = g + 1 /\ bl'.got[g + 1] = x
      /\ \A i \in 1..g : bl'.got[i] = bl.got[i]
      /\ bl'.got # <<>>
  <2>1. bl.got \in Seq(LogPiece) /\ x \in LogPiece /\ g = Len(bl.got) /\ bl'.got = Append(bl.got, x) BY <1>1, <1>3, <1>4
  <2> QED BY ONLY <2>1, Appended
<1> DEFINE qn(i) == bl.q[i].n
           ql(i) == bl.q[i].left
           gn(i) == bl.got[i].n
           gk(i) == bl.got[i].k
           qn2(i) == bl'.q[i].n
           ql2(i) == bl'.q[i].left
           gn2(i) == bl'.got[i].n
           gk2(i) == bl'.got[i].k
           m2 == Len(bl'.q)
           P == PacketSize
           N(v) == v <= bl.packets /\ (bl.wr # 0 => v < bl.packets)
           N2(v) == v <= bl'.packets /\ (bl'.wr # 0 => v < bl'.packets)
           W(v) == v \notin bl.cut
<1>a. /\ \A i \in 1..m : qn(i) \in Nat /\ ql(i) \in 1..P /\ N(qn(i))
      /\ \A i, j \in 1..m : i < j => qn(i) < qn(j)
      /\ \A i \in 1..g : gn(i) \in Nat /\ gk(i) \in 1..P /\ N(gn(i))
      /\ \A i \in 1..g, j \in 1..m : gn(i) <= qn(j)
      /\ \A i, j \in 1..g : i < j => gn(i) <= gn(j)
  BY <1>0, <1>n DEF QueueInOrder, ReadInOrder, Numbered
<1>b. /\ \A i \in 1..(g - 1) : gn(i) # gn(i + 1) => (gk(i) < P /\ W(gn(i)) => i > 1 /\ gn(i - 1) = gn(i) /\ gk(i - 1) + gk(i) = P)
      /\ \A j \in 2..m : ql(j) = P
      /\ ql(1) # P => ql(1) = 1 /\ (~W(qn(1)) \/ (g > 0 /\ gn(g) = qn(1) /\ gk(g) = P - 1))
      /\ g > 0 /\ ql(1) # P => gn(g) = qn(1)
      /\ g > 0 /\ ql(1) = P => (gk(g) < P /\ W(gn(g)) => g > 1 /\ gn(g - 1) = gn(g) /\ gk(g - 1) + gk(g) = P)
  BY <1>0, <1>1 DEF ReadIsWhole, RestFollows, PacketDone
<1>c. \A n : N(n) => N2(n) BY <1>4
<1>d. /\ gn2(g + 1) = qn(1) /\ gk2(g + 1) = k
      /\ \A i \in 1..g : gn2(i) = gn(i) /\ gk2(i) = gk(i)
  BY <1>5, <1>6
<1>e. m \in Nat /\ m > 0 /\ g \in Nat /\ P \in Nat /\ P > 0 BY <1>1, <1>2
<1>m. m2 = Len(bl'.q) OBVIOUS
\* What is shown of both ways, in terms of the numbers and the sizes.
<1> DEFINE Shown == /\ \A i \in 1..m2 : N2(qn2(i))
                    /\ \A i, j \in 1..m2 : i < j => qn2(i) < qn2(j)
                    /\ \A i \in 1..(g + 1) : N2(gn2(i))
                    /\ \A i \in 1..(g + 1), j \in 1..m2 : gn2(i) <= qn2(j)
                    /\ \A i, j \in 1..(g + 1) : i < j => gn2(i) <= gn2(j)
                    /\ \A i \in 1..g : gn2(i) # gn2(i + 1) => (gk2(i) < P /\ W(gn2(i)) => i > 1 /\ gn2(i - 1) = gn2(i) /\ gk2(i - 1) + gk2(i) = P)
                    /\ \A j \in 2..m2 : ql2(j) = P
                    /\ m2 > 0 /\ ql2(1) # P => ql2(1) = 1 /\ gn2(g + 1) = qn2(1) /\ gk2(g + 1) = P - 1
                    /\ (m2 > 0 => ql2(1) = P) => (gk2(g + 1) < P /\ W(gn2(g + 1)) => g > 0 /\ gn2(g) = gn2(g + 1) /\ gk2(g) + gk2(g + 1) = P)
<1>s. ASSUME Shown, bl'.q \in Seq(LogPacket) PROVE QueueInOrder' /\ ReadInOrder' /\ ReadIsWhole' /\ RestFollows'
  <2>1. bl'.got \in Seq(LogPiece) /\ Len(bl'.got) = g + 1 /\ m2 \in Nat /\ (bl'.q # <<>> => m2 > 0) /\ g + 1 - 1 = g
    BY <1>s, <1>5, <1>e
  <2>2. QueueInOrder' BY <1>s, <2>1 DEF QueueInOrder, Numbered
  <2>6. ReadInOrder'
    <3>1. /\ \A i \in 1..Len(bl'.got) : N2(bl'.got[i].n)
          /\ \A i \in 1..Len(bl'.got), j \in 1..Len(bl'.q) : bl'.got[i].n <= bl'.q[j].n
          /\ \A i, j \in 1..Len(bl'.got) : i < j => bl'.got[i].n <= bl'.got[j].n
      BY <1>s, <2>1
    <3> QED BY <3>1 DEF ReadInOrder, Numbered
  <2>3. ReadIsWhole'
    <3>1. \A i \in 1..(Len(bl'.got) - 1) : bl'.got[i].n # bl'.got[i + 1].n => PacketDone(i)'
      <4>1. \A i \in 1..g : bl'.got[i].n # bl'.got[i + 1].n =>
               (bl'.got[i].k < P /\ bl'.got[i].n \notin bl'.cut => i > 1 /\ bl'.got[i - 1].n = bl'.got[i].n /\ bl'.got[i - 1].k + bl'.got[i].k = P)
        BY <1>s, <1>4
      <4> QED BY SMTT(20), <4>1, <2>1 DEF PacketDone
    <3> QED BY <3>1 DEF ReadIsWhole
  <2>4. bl'.is_open /\ bl'.got # <<>> BY <1>4, <1>5
  <2>5. RestFollows' BY <1>s, <2>1, <2>4, <1>4, <1>e DEF RestFollows, PacketDone
  <2> QED BY <2>2, <2>3, <2>5, <2>6
<1>7. CASE len >= p.left
  <2>1. /\ bl'.q \in Seq(LogPacket) /\ Len(bl'.q) = m - 1 /\ k = p.left
        /\ \A i \in 1..(m - 1) : bl'.q[i] = bl.q[i + 1]
    BY <1>1, <1>4, <1>7, <1>q, <1>k, Tailed
  <2>2. \A i \in 1..(m - 1) : i + 1 \in 2..m /\ i + 1 \in 1..m BY <1>1
  <2>3. BlFields' /\ BtLogTypeOK' /\ QueueHasRoom' /\ LogReaderKnows'
    <3>2. BlFields' BY <1>0, <1>1, <1>4, <1>5, <2>1, BtLogAssumption DEF BlFields
    <3>3. BtLogTypeOK'
      BY <1>0, <1>1, <1>4, <1>5, <2>1, BtLogAssumption DEF BtLogTypeOK, BlFields, BtLogTypeOK, QueueHasRoom
    <3>4. QueueHasRoom'
      BY SMTT(20), <1>0, <1>1, <1>4, <1>5, <2>1, BtLogAssumption DEF QueueHasRoom, BlFields
    <3>5. LogReaderKnows'
      BY <1>0, <1>1, <1>4, <1>5, <2>1, BtLogAssumption DEF LogReaderKnows, BlFields
    <3> QED BY <3>2, <3>3, <3>4, <3>5
  <2>4. /\ m2 = m - 1 /\ k = ql(1)
        /\ \A i \in 1..(m - 1) : qn2(i) = qn(i + 1) /\ ql2(i) = ql(i + 1)
    BY <2>1
  <2>5. Shown
    <3> HIDE DEF qn, ql, gn, gk, qn2, ql2, gn2, gk2, m2, m, g, P, N, N2, W
    <3>1. \A i \in 1..m2 : N2(qn2(i)) BY <2>2, <2>4, <1>a, <1>c
    <3>2. \A i, j \in 1..m2 : i < j => qn2(i) < qn2(j) BY <2>2, <2>4, <1>a, <1>e
    <3>3. \A i \in 1..(g + 1) : N2(gn2(i)) BY <1>a, <1>c, <1>d, <1>e
    <3>4. \A i \in 1..m2 : qn(1) <= qn2(i) /\ qn2(i) \in Nat BY <2>2, <2>4, <1>a, <1>e
    <3>5. \A i \in 1..(g + 1), j \in 1..m2 : gn2(i) <= qn2(j)
      <4>1. \A j \in 1..m2 : gn2(g + 1) <= qn2(j) BY <3>4, <1>d
      <4>2. \A i \in 1..g, j \in 1..m2 : gn2(i) <= qn2(j) BY <3>4, <2>2, <2>4, <1>a, <1>d, <1>e
      <4>3. ASSUME NEW i \in 1..(g + 1), NEW j \in 1..m2 PROVE gn2(i) <= qn2(j)
        <5>1. i \in 1..g \/ i = g + 1 BY <1>e
        <5>2. CASE i = g + 1
          <6>1. gn2(g + 1) <= qn2(j) BY <4>1
          <6> QED BY <5>2, <6>1
        <5>3. CASE i \in 1..g BY <4>2, <5>3
        <5> QED BY <5>1, <5>2, <5>3
      <4> QED BY <4>3
    <3>6. ASSUME NEW i \in 1..(g + 1), NEW j \in 1..(g + 1), i < j PROVE gn2(i) <= gn2(j)
      <4>1. i \in 1..g /\ (j \in 1..g \/ j = g + 1) /\ 1 \in 1..m BY <3>6, <1>e
      <4>2. CASE j \in 1..g BY <3>6, <4>1, <4>2, <1>a, <1>d
      <4>3. CASE j = g + 1
        <5>1. gn2(g + 1) = qn(1) /\ gn2(i) = gn(i) /\ gn(i) <= qn(1) BY <4>1, <1>a, <1>d
        <5> QED BY <4>3, <5>1
      <4> QED BY <4>1, <4>2, <4>3
    <3>7. \A i \in 1..g : gn2(i) # gn2(i + 1) => (gk2(i) < P /\ W(gn2(i)) => i > 1 /\ gn2(i - 1) = gn2(i) /\ gk2(i - 1) + gk2(i) = P)
      <4>1. SUFFICES ASSUME NEW i \in 1..g, gn2(i) # gn2(i + 1), gk2(i) < P, W(gn2(i))
                     PROVE  i > 1 /\ gn2(i - 1) = gn2(i) /\ gk2(i - 1) + gk2(i) = P
        OBVIOUS
      <4>2. CASE i = g
        <5>1. gn(g) # qn(1) /\ gk(g) < P /\ W(gn(g)) /\ g > 0 BY <4>1, <4>2, <1>d
        <5>2. g > 1 /\ gn(g - 1) = gn(g) /\ gk(g - 1) + gk(g) = P /\ g - 1 \in 1..g
          BY <5>1, <1>b, <1>e
        <5> QED BY <5>1, <5>2, <4>2, <1>d
      <4>3. CASE i # g
        <5>1. i \in 1..(g - 1) /\ i + 1 \in 1..g /\ gn(i) # gn(i + 1) /\ gk(i) < P /\ W(gn(i))
          BY <4>1, <4>3, <1>d, <1>e
        <5>2. i > 1 /\ gn(i - 1) = gn(i) /\ gk(i - 1) + gk(i) = P /\ i - 1 \in 1..g
          BY <5>1, <1>b, <1>e
        <5> QED BY <5>2, <1>d
      <4> QED BY <4>2, <4>3
    <3>8. \A j \in 1..m2 : ql2(j) = P BY <2>2, <2>4, <1>b, <1>e
    <3>9. gk2(g + 1) < P /\ W(gn2(g + 1)) => g > 0 /\ gn2(g) = gn2(g + 1) /\ gk2(g) + gk2(g + 1) = P
      BY <2>4, <1>a, <1>b, <1>d, <1>e
    <3>10. \A j \in 2..m2 : ql2(j) = P
      <4>1. 2..m2 \subseteq 1..m2 BY <2>4, <1>e
      <4> QED BY <3>8, <4>1
    <3>11. m2 > 0 => ql2(1) = P
      <4>1. m2 > 0 => 1 \in 1..m2 BY <2>4, <1>e
      <4> QED BY <3>8, <4>1
    <3> QED BY <3>1, <3>2, <3>3, <3>5, <3>6, <3>7, <3>9, <3>10, <3>11
  <2>9. OneSession' BY SMTT(20), <1>0, <1>4, <1>5, <1>6, <1>1, <2>1, <2>2 DEF OneSession
  <2> QED BY <1>s, <2>1, <2>3, <2>5, <2>9 DEF BtLogInv
<1>8. CASE ~(len >= p.left)
  <2>1. p.left = PacketSize /\ len = PacketSize - 1 /\ k = PacketSize - 1 BY <1>2, <1>3, <1>8, <1>k
  <2>2. /\ bl'.q \in Seq(LogPacket) /\ Len(bl'.q) = m /\ bl'.q[1].left = 1 /\ bl'.q[1].n = p.n /\ bl'.q[1].s = p.s
        /\ \A i \in 2..m : bl'.q[i] = bl.q[i]
    <3> DEFINE y == [bl.q[1] EXCEPT !.left = @ - len]
    <3>1. y \in LogPacket /\ y.left = 1 /\ y.n = p.n /\ y.s = p.s
      <4>1. DOMAIN p = {"s", "n", "left"} /\ p = [s |-> p.s, n |-> p.n, left |-> p.left]
        BY <1>1 DEF LogPacket
      <4>2. p.left - len = 1 /\ 1 \in 1..PacketSize BY <1>2, <2>1
      <4>3. y.left = 1 /\ y.n = p.n /\ y.s = p.s /\ y = [s |-> p.s, n |-> p.n, left |-> 1]
        BY <4>1, <4>2
      <4> QED BY <4>2, <4>3, <1>3 DEF LogPacket
    <3>2. bl'.q = [bl.q EXCEPT ![1] = y] BY <1>4, <1>8, <1>q
    <3> HIDE DEF y
    <3> QED BY <3>1, <3>2, <1>1, Begun
  <2>3. \A i \in 1..m : bl'.q[i].n = bl.q[i].n /\ bl'.q[i].s = bl.q[i].s BY <1>1, <2>2
  <2>n. bl'.q # <<>> BY <2>2, <1>1
  <2>4. BlFields' /\ BtLogTypeOK' /\ QueueHasRoom' /\ LogReaderKnows'
    <3>1. bl.rd \notin {"sleep", "empty"} \/ "missed" \in bl.odd BY <1>0 DEF LogReaderKnows
    <3>2. BlFields' BY <1>0, <1>1, <1>4, <1>5, <2>2, <3>1, BtLogAssumption DEF BlFields
    <3>3. BtLogTypeOK'
      BY <1>0, <1>1, <1>4, <1>5, <2>2, <3>1, BtLogAssumption DEF BtLogTypeOK, BlFields, BtLogTypeOK, QueueHasRoom
    <3>4. QueueHasRoom'
      BY <1>0, <1>1, <1>4, <1>5, <2>2, <3>1, BtLogAssumption DEF QueueHasRoom, BlFields
    <3>5. LogReaderKnows'
      BY <1>0, <1>1, <1>4, <1>5, <2>2, <3>1, BtLogAssumption DEF LogReaderKnows, BlFields
    <3> QED BY <3>2, <3>3, <3>4, <3>5
  <2>5. /\ m2 = m /\ k = P - 1 /\ P > 1 /\ ql(1) = P /\ ql2(1) = 1
        /\ \A i \in 1..m : qn2(i) = qn(i)
        /\ \A i \in 2..m : ql2(i) = ql(i)
    BY <2>1, <2>2, <2>3, <1>2
  <2>6. Shown
    <3> HIDE DEF qn, ql, gn, gk, qn2, ql2, gn2, gk2, m2, m, g, P, N, N2, W
    <3>1. \A i \in 1..m2 : N2(qn2(i)) BY <2>5, <1>a, <1>c
    <3>2. \A i, j \in 1..m2 : i < j => qn2(i) < qn2(j) BY <2>5, <1>a, <1>e
    <3>3. \A i \in 1..(g + 1) : N2(gn2(i)) BY <1>a, <1>c, <1>d, <1>e
    <3>4. \A i \in 1..m2 : qn(1) <= qn2(i) /\ qn2(i) \in Nat BY <2>5, <1>a, <1>e
    <3>5. \A i \in 1..(g + 1), j \in 1..m2 : gn2(i) <= qn2(j)
      <4>1. \A j \in 1..m2 : gn2(g + 1) <= qn2(j) BY <3>4, <1>d
      <4>2. \A i \in 1..g, j \in 1..m2 : gn2(i) <= qn2(j) BY <3>4, <2>5, <1>a, <1>d, <1>e
      <4>3. ASSUME NEW i \in 1..(g + 1), NEW j \in 1..m2 PROVE gn2(i) <= qn2(j)
        <5>1. i \in 1..g \/ i = g + 1 BY <1>e
        <5>2. CASE i = g + 1
          <6>1. gn2(g + 1) <= qn2(j) BY <4>1
          <6> QED BY <5>2, <6>1
        <5>3. CASE i \in 1..g BY <4>2, <5>3
        <5> QED BY <5>1, <5>2, <5>3
      <4> QED BY <4>3
    <3>6. ASSUME NEW i \in 1..(g + 1), NEW j \in 1..(g + 1), i < j PROVE gn2(i) <= gn2(j)
      <4>1. i \in 1..g /\ (j \in 1..g \/ j = g + 1) /\ 1 \in 1..m BY <3>6, <1>e
      <4>2. CASE j \in 1..g BY <3>6, <4>1, <4>2, <1>a, <1>d
      <4>3. CASE j = g + 1
        <5>1. gn2(g + 1) = qn(1) /\ gn2(i) = gn(i) /\ gn(i) <= qn(1) BY <4>1, <1>a, <1>d
        <5> QED BY <4>3, <5>1
      <4> QED BY <4>1, <4>2, <4>3
    <3>7. \A i \in 1..g : gn2(i) # gn2(i + 1) => (gk2(i) < P /\ W(gn2(i)) => i > 1 /\ gn2(i - 1) = gn2(i) /\ gk2(i - 1) + gk2(i) = P)
      <4>1. SUFFICES ASSUME NEW i \in 1..g, gn2(i) # gn2(i + 1), gk2(i) < P, W(gn2(i))
                     PROVE  i > 1 /\ gn2(i - 1) = gn2(i) /\ gk2(i - 1) + gk2(i) = P
        OBVIOUS
      <4>2. CASE i = g
        <5>1. gn(g) # qn(1) /\ gk(g) < P /\ W(gn(g)) /\ g > 0 BY <4>1, <4>2, <1>d
        <5>2. g > 1 /\ gn(g - 1) = gn(g) /\ gk(g - 1) + gk(g) = P /\ g - 1 \in 1..g
          BY <5>1, <1>b, <1>e
        <5> QED BY <5>1, <5>2, <4>2, <1>d
      <4>3. CASE i # g
        <5>1. i \in 1..(g - 1) /\ i + 1 \in 1..g /\ gn(i) # gn(i + 1) /\ gk(i) < P /\ W(gn(i))
          BY <4>1, <4>3, <1>d, <1>e
        <5>2. i > 1 /\ gn(i - 1) = gn(i) /\ gk(i - 1) + gk(i) = P /\ i - 1 \in 1..g
          BY <5>1, <1>b, <1>e
        <5> QED BY <5>2, <1>d
      <4> QED BY <4>2, <4>3
    <3>8. \A j \in 2..m2 : ql2(j) = P BY <2>5, <1>b, <1>e
    <3>9. ql2(1) # P => ql2(1) = 1 /\ gn2(g + 1) = qn2(1) /\ gk2(g + 1) = P - 1
      BY <2>5, <1>a, <1>d, <1>e
    <3>10. ~(m2 > 0 => ql2(1) = P) BY <2>5, <1>e
    <3> QED BY <3>1, <3>2, <3>3, <3>5, <3>6, <3>7, <3>8, <3>9, <3>10
  <2>9. OneSession' BY <1>0, <1>1, <1>4, <1>5, <1>6, <2>2, <2>3 DEF OneSession
  <2> QED BY <1>s, <2>2, <2>4, <2>6, <2>9 DEF BtLogInv
<1> QED BY <1>7, <1>8

\* The queue and what was read of it are as they were.
LEMMA LogLeft ==
    ASSUME BtLogInv, UNCHANGED <<bl.q, bl.got, bl.packets, bl.cut, bl.wr>>
    PROVE  QueueHasRoom' /\ QueueInOrder' /\ ReadInOrder' /\ ReadIsWhole' /\ RestFollows'
<1>0. QueueHasRoom /\ QueueInOrder /\ ReadInOrder /\ ReadIsWhole /\ RestFollows BY DEF BtLogInv
<1>1. QueueHasRoom' /\ QueueInOrder' BY <1>0 DEF QueueHasRoom, QueueInOrder, Numbered
<1>2. ReadInOrder' BY <1>0 DEF ReadInOrder, Numbered
<1>3. ReadIsWhole' BY <1>0 DEF ReadIsWhole, PacketDone
<1>4. RestFollows' BY <1>0 DEF RestFollows, PacketDone
<1> QED BY <1>1, <1>2, <1>3, <1>4

\* The queue is emptied; a packet that was half read is noted.
LEMMA LogEmptied ==
    ASSUME BtLogInv, bl'.q = <<>>, UNCHANGED <<bl.got, bl.packets, bl.wr>>, bl.cut \union Half \subseteq bl'.cut
    PROVE  QueueHasRoom' /\ QueueInOrder' /\ ReadInOrder' /\ ReadIsWhole' /\ RestFollows'
<1>0. BlFields /\ QueueHasRoom /\ QueueInOrder /\ ReadInOrder /\ ReadIsWhole /\ RestFollows BY DEF BtLogInv
<1>e. Len(bl'.q) = 0 /\ 1..Len(bl'.q) = {} /\ 2..Len(bl'.q) = {} OBVIOUS
<1>1. QueueHasRoom' /\ QueueInOrder' BY <1>e, BtLogAssumption DEF QueueHasRoom, QueueInOrder, Numbered
<1>2. ReadInOrder' BY <1>0, <1>e DEF ReadInOrder, Numbered
<1>p. \A i : PacketDone(i) => PacketDone(i)' BY DEF PacketDone
<1>3. ReadIsWhole'
  <2>1. \A i \in 1..Len(bl'.got) - 1 : bl'.got[i].n # bl'.got[i + 1].n => PacketDone(i) BY <1>0 DEF ReadIsWhole
  <2> QED BY <2>1, <1>p DEF ReadIsWhole
<1>4. (bl.got # <<>> => PacketDone(Len(bl.got)))'
  <2>1. CASE bl.q # <<>> => bl.q[1].left = PacketSize
    <3>1. bl'.got # <<>> => PacketDone(Len(bl.got)) BY <1>0, <2>1 DEF RestFollows
    <3>2. Len(bl'.got) = Len(bl.got) OBVIOUS
    <3> QED BY <3>1, <3>2, <1>p
  <2>2. CASE bl.q # <<>> /\ bl.q[1].left # PacketSize
    <3>1. bl.got # <<>> => bl.got[Len(bl.got)].n = bl.q[1].n BY <1>0, <2>2 DEF RestFollows
    <3>2. bl.q[1].n \in bl'.cut BY <2>2 DEF Half
    <3> QED BY <3>1, <3>2 DEF PacketDone
  <2> QED BY <2>1, <2>2
<1>5. RestFollows' BY <1>4, <1>e DEF RestFollows
<1> QED BY <1>1, <1>2, <1>3, <1>5

\* Nothing has been read yet in this session; what is half read was so before.
LEMMA LogTurned ==
    ASSUME BtLogInv, UNCHANGED <<bl.q, bl.packets, bl.wr>>, bl'.got = <<>>, bl'.cut = Half
    PROVE  QueueHasRoom' /\ QueueInOrder' /\ ReadInOrder' /\ ReadIsWhole' /\ RestFollows'
<1>0. BlFields /\ QueueHasRoom /\ QueueInOrder /\ RestFollows BY DEF BtLogInv
<1>e. Len(bl'.got) = 0 /\ 1..Len(bl'.got) = {} /\ 1..(Len(bl'.got) - 1) = {} OBVIOUS
<1>1. QueueHasRoom' /\ QueueInOrder' BY <1>0 DEF QueueHasRoom, QueueInOrder, Numbered
<1>2. ReadInOrder' /\ ReadIsWhole' BY <1>e DEF ReadInOrder, ReadIsWhole
<1>3. bl.q # <<>> /\ bl.q[1].left # PacketSize => bl.q[1].n \in bl'.cut /\ bl.q[1].left = 1
  BY <1>0 DEF Half, RestFollows
<1>4. RestFollows' BY <1>0, <1>3 DEF RestFollows
<1> QED BY <1>1, <1>2, <1>4

\* Every step of the log device of Bluetooth keeps it.
LEMMA BtLogStep ==
    ASSUME BtLogInv, [BtLogNext]_blVars
    PROVE  BtLogInv'
<1> USE DEF BlFields
<1>0. BlFields /\ BtLogTypeOK /\ QueueHasRoom /\ LogReaderKnows /\ QueueInOrder /\ ReadInOrder /\ ReadIsWhole /\ RestFollows /\ OneSession
  BY DEF BtLogInv
<1>1. CASE skwbt_log_port_set_pdata
  <2>1. UNCHANGED <<bl.q, bl.got, bl.packets, bl.cut, bl.wr>>
    BY <1>0, <1>1 DEF skwbt_log_port_set_pdata
  <2>2. QueueHasRoom' /\ QueueInOrder' /\ ReadInOrder' /\ ReadIsWhole' /\ RestFollows' BY <2>1, LogLeft
  <2>3. BlFields' BY <1>0, <1>1 DEF skwbt_log_port_set_pdata
  <2>4. BtLogTypeOK' BY <1>0, <1>1, BtLogAssumption DEF skwbt_log_port_set_pdata, BtLogTypeOK, QueueHasRoom
  <2>5. LogReaderKnows' BY <1>0, <1>1 DEF skwbt_log_port_set_pdata, LogReaderKnows, BtLogTypeOK
  <2>6. OneSession' BY <1>0, <1>1 DEF skwbt_log_port_set_pdata, OneSession, BtLogTypeOK
  <2> QED BY <2>2, <2>3, <2>4, <2>5, <2>6 DEF BtLogInv
<1>2. CASE skwbt_log_port_init
  <2>1. UNCHANGED <<bl.q, bl.got, bl.packets, bl.cut, bl.wr>>
    BY <1>0, <1>2 DEF skwbt_log_port_init
  <2>2. QueueHasRoom' /\ QueueInOrder' /\ ReadInOrder' /\ ReadIsWhole' /\ RestFollows' BY <2>1, LogLeft
  <2>3. BlFields' BY <1>0, <1>2 DEF skwbt_log_port_init
  <2>4. BtLogTypeOK' BY <1>0, <1>2, BtLogAssumption DEF skwbt_log_port_init, BtLogTypeOK, QueueHasRoom
  <2>5. LogReaderKnows' BY <1>0, <1>2 DEF skwbt_log_port_init, LogReaderKnows, BtLogTypeOK
  <2>6. OneSession' BY <1>0, <1>2 DEF skwbt_log_port_init, OneSession, BtLogTypeOK
  <2> QED BY <2>2, <2>3, <2>4, <2>5, <2>6 DEF BtLogInv
<1>3. CASE skwbt_log_port_exit
  <2>1. CASE bl' = [bl EXCEPT !.info = FALSE, !.odd = @ \union {"freed"}]
    <3>1. UNCHANGED <<bl.q, bl.got, bl.packets, bl.cut, bl.wr>> BY <1>0, <2>1
    <3>2. QueueHasRoom' /\ QueueInOrder' /\ ReadInOrder' /\ ReadIsWhole' /\ RestFollows' BY <3>1, LogLeft
    <3>3. BlFields' BY <1>0, <2>1
    <3>4. BtLogTypeOK' BY <1>0, <2>1, BtLogAssumption DEF BtLogTypeOK, QueueHasRoom
    <3>5. LogReaderKnows' BY <1>0, <2>1 DEF LogReaderKnows, BtLogTypeOK
    <3>6. OneSession' BY <1>0, <2>1 DEF OneSession, BtLogTypeOK
    <3> QED BY <3>2, <3>3, <3>4, <3>5, <3>6 DEF BtLogInv
  <2>2. CASE ~bl.is_open /\ bl.wr = 0 /\ ~bl.rel /\ bl' = [bl EXCEPT !.info = FALSE, !.pdata = FALSE, !.q = <<>>]
    <3>1. bl'.q = <<>> /\ bl'.got = <<>> /\ bl.got = <<>> /\ UNCHANGED <<bl.packets, bl.wr, bl.opens, bl.rd, bl.is_open, bl.rel>>
      BY <1>0, <2>2 DEF LogReaderKnows
    <3>2. QueueHasRoom' /\ QueueInOrder' /\ ReadInOrder' /\ ReadIsWhole' /\ RestFollows' /\ OneSession'
      <4>1. Len(bl'.q) = 0 /\ Len(bl'.got) = 0 /\ 1..Len(bl'.q) = {} /\ 1..Len(bl'.got) = {} /\ 2..Len(bl'.q) = {}
            /\ 1..(Len(bl'.got) - 1) = {}
        BY <3>1
      <4>2. QueueHasRoom' /\ QueueInOrder' /\ ReadInOrder' /\ ReadIsWhole'
        BY <4>1, BtLogAssumption DEF QueueHasRoom, QueueInOrder, ReadInOrder, ReadIsWhole
      <4>3. RestFollows' /\ OneSession' BY <3>1, <4>1 DEF RestFollows, OneSession
      <4> QED BY <4>2, <4>3
    <3>3. BlFields' BY <1>0, <2>2
    <3>4. BtLogTypeOK' BY <1>0, <2>2, BtLogAssumption DEF BtLogTypeOK, QueueHasRoom
    <3>5. LogReaderKnows' BY <1>0, <2>2 DEF LogReaderKnows, BtLogTypeOK
    <3> QED BY <3>2, <3>3, <3>4, <3>5 DEF BtLogInv
  <2> QED BY <1>3, <2>1, <2>2 DEF skwbt_log_port_exit
<1>4. CASE skwbt_log_port_set_bt_open
  <2>1. UNCHANGED <<bl.q, bl.got, bl.packets, bl.cut, bl.wr>>
    BY <1>0, <1>4 DEF skwbt_log_port_set_bt_open, skwbt_log_open
  <2>2. QueueHasRoom' /\ QueueInOrder' /\ ReadInOrder' /\ ReadIsWhole' /\ RestFollows' BY <2>1, LogLeft
  <2>3. BlFields' BY <1>0, <1>4 DEF skwbt_log_port_set_bt_open, skwbt_log_open
  <2>4. BtLogTypeOK' BY <1>0, <1>4, BtLogAssumption DEF skwbt_log_port_set_bt_open, skwbt_log_open, BtLogTypeOK, QueueHasRoom
  <2>5. LogReaderKnows' BY <1>0, <1>4 DEF skwbt_log_port_set_bt_open, skwbt_log_open, LogReaderKnows, BtLogTypeOK
  <2>6. OneSession' BY <1>0, <1>4 DEF skwbt_log_port_set_bt_open, skwbt_log_open, OneSession, BtLogTypeOK
  <2> QED BY <2>2, <2>3, <2>4, <2>5, <2>6 DEF BtLogInv
<1>5. CASE skwbt_log_port_open
  <2> DEFINE h == Half
             o == bl.odd \union (IF bl.rel THEN {"crossed"} ELSE {})
             b == [bl EXCEPT !.is_open = TRUE, !.opens = @ + 1, !.fds = 1, !.cut = h, !.odd = o]
  <2>a. /\ bl.info /\ ~bl.is_open /\ bl.opens < MaxLogOpens
        /\ bl' = IF bl.bt_open THEN skwbt_log_open(b, TRUE) ELSE b
    BY <1>5 DEF skwbt_log_port_open
  <2>o. (bl.rel => "crossed" \in o) /\ bl.odd \subseteq o OBVIOUS
  <2>h. h = Half OBVIOUS
  <2> HIDE DEF h, o
  <2>c. bl' = b \/ (bl.bt_open /\ (bl' = [b EXCEPT !.cp = "nopdata"] \/ bl' = [b EXCEPT !.cp = "on"]))
    BY <2>a DEF skwbt_log_open
  <2>b. /\ DOMAIN bl' = DOMAIN bl
        /\ UNCHANGED <<bl.info, bl.pdata, bl.bt_open, bl.q, bl.got, bl.rd, bl.wr, bl.packets, bl.rel>>
        /\ bl'.is_open = TRUE /\ bl'.opens = bl.opens + 1 /\ bl'.fds = 1 /\ bl'.cut = h /\ bl'.odd = o
        /\ bl'.cp \in {bl.cp, "on", "nopdata"}
    <3>1. CASE bl' = b BY <1>0, <3>1
    <3>2. CASE bl' = [b EXCEPT !.cp = "nopdata"] BY <1>0, <3>2
    <3>3. CASE bl' = [b EXCEPT !.cp = "on"] BY <1>0, <3>3
    <3> QED BY <2>c, <3>1, <3>2, <3>3
  <2>d. bl.bt_open => bl'.cp \in {"on", "nopdata"}
    <3> SUFFICES ASSUME bl.bt_open PROVE bl'.cp \in {"on", "nopdata"} OBVIOUS
    <3>1. bl' = skwbt_log_open(b, TRUE) BY <2>a
    <3>2. "cp" \in DOMAIN b BY <1>0
    <3> HIDE DEF b
    <3> QED BY <3>1, <3>2 DEF skwbt_log_open
  <2> HIDE DEF b
  <2>1. UNCHANGED <<bl.q, bl.packets, bl.wr>> /\ bl'.got = <<>> /\ bl'.cut = Half
    BY <1>0, <2>a, <2>b, <2>h DEF LogReaderKnows
  <2>2. QueueHasRoom' /\ QueueInOrder' /\ ReadInOrder' /\ ReadIsWhole' /\ RestFollows' BY <2>1, LogTurned
  <2>3. BlFields' BY <1>0, <2>b
  <2>4. BtLogTypeOK'
    <3>1. {bl.info, bl.pdata, bl.is_open, bl.bt_open, bl.rel} \subseteq BOOLEAN BY <1>0 DEF BtLogTypeOK
    <3>2. {bl'.info, bl'.pdata, bl'.is_open, bl'.bt_open, bl'.rel} \subseteq BOOLEAN BY ONLY <2>b, <3>1
    <3>3. bl'.cp \in {"on", "off", "nopdata", "crossed"} BY <1>0, <2>b DEF BtLogTypeOK
    <3>4. bl'.fds \in 0..2 /\ bl'.wr \in 0..bl'.opens /\ Len(bl'.q) <= LogLimit + 1
          /\ bl'.rd \in {"away", "empty", "sleep", "read"}
      BY <1>0, <2>b DEF BtLogTypeOK
    <3> QED BY ONLY <3>2, <3>3, <3>4 DEF BtLogTypeOK
  <2>5. LogReaderKnows' BY <1>0, <2>a, <2>b, <2>d, <2>o DEF LogReaderKnows, BtLogTypeOK
  <2>6. OneSession'
    <3> SUFFICES ASSUME bl'.odd \intersect {"late", "crossed"} = {} PROVE OneSession' BY DEF OneSession
    <3>1. ~bl.rel /\ bl.odd \intersect {"late", "crossed"} = {} BY <2>b, <2>o
    <3>2. bl'.q = <<>> /\ bl'.got = <<>> BY <1>0, <2>a, <2>b, <3>1 DEF OneSession, LogReaderKnows
    <3>3. bl'.is_open BY <2>b
    <3> QED BY <3>2, <3>3 DEF OneSession
  <2> QED BY <2>2, <2>3, <2>4, <2>5, <2>6 DEF BtLogInv
<1>6. CASE DescriptorCopied
  <2>1. UNCHANGED <<bl.q, bl.got, bl.packets, bl.cut, bl.wr>>
    BY <1>0, <1>6 DEF DescriptorCopied
  <2>2. QueueHasRoom' /\ QueueInOrder' /\ ReadInOrder' /\ ReadIsWhole' /\ RestFollows' BY <2>1, LogLeft
  <2>3. BlFields' BY <1>0, <1>6 DEF DescriptorCopied
  <2>4. BtLogTypeOK' BY <1>0, <1>6, BtLogAssumption DEF DescriptorCopied, BtLogTypeOK, QueueHasRoom
  <2>5. LogReaderKnows' BY <1>0, <1>6 DEF DescriptorCopied, LogReaderKnows, BtLogTypeOK
  <2>6. OneSession' BY <1>0, <1>6 DEF DescriptorCopied, OneSession, BtLogTypeOK
  <2> QED BY <2>2, <2>3, <2>4, <2>5, <2>6 DEF BtLogInv
<1>7. CASE skwbt_log_port_data_write
  <2>1. /\ \A i \in 1..Len(bl.q) : bl.q[i].n \in Nat
        /\ \A i \in 1..Len(bl.got) : bl.got[i].n \in Nat
    BY <1>0, LogNumbers
  <2>2. BlFields' BY <1>0, <1>7, <2>1 DEF skwbt_log_port_data_write
  <2>3. BtLogTypeOK'
    <3>1. /\ UNCHANGED <<bl.info, bl.pdata, bl.is_open, bl.bt_open, bl.rel, bl.rd, bl.q, bl.cp, bl.fds, bl.opens>>
          /\ bl'.wr = bl.opens
      BY <1>0, <1>7 DEF skwbt_log_port_data_write
    <3>2. BtLogTypeOK BY <1>0
    <3>3. bl'.wr \in 0..bl'.opens BY <1>0, <3>1
    <3>4. {bl'.info, bl'.pdata, bl'.is_open, bl'.bt_open, bl'.rel} \subseteq BOOLEAN BY ONLY <3>1, <3>2 DEF BtLogTypeOK
    <3> QED BY ONLY <3>1, <3>2, <3>3, <3>4 DEF BtLogTypeOK
  <2>4. QueueHasRoom' BY <1>0, <1>7, <2>1, BtLogAssumption DEF skwbt_log_port_data_write, QueueHasRoom
  <2>5. LogReaderKnows' BY <1>0, <1>7, <2>1 DEF skwbt_log_port_data_write, LogReaderKnows, BtLogTypeOK
  <2>6. QueueInOrder'
    BY <1>0, <1>7, <2>1 DEF skwbt_log_port_data_write, QueueInOrder, Numbered, BtLogTypeOK
  <2>7. ReadInOrder'
    BY <1>0, <1>7, <2>1 DEF skwbt_log_port_data_write, ReadInOrder, Numbered, BtLogTypeOK
  <2>8. ReadIsWhole' BY <1>0, <1>7, <2>1 DEF skwbt_log_port_data_write, ReadIsWhole, PacketDone
  <2>9. RestFollows'
    BY <1>0, <1>7, <2>1 DEF skwbt_log_port_data_write, RestFollows, PacketDone, BtLogTypeOK
  <2>10. OneSession' BY <1>0, <1>7, <2>1 DEF skwbt_log_port_data_write, OneSession, BtLogTypeOK
  <2> QED BY <2>2, <2>3, <2>4, <2>5, <2>6, <2>7, <2>8, <2>9, <2>10 DEF BtLogInv
<1>8. CASE DataQueued
  <2>1. /\ DOMAIN bl' = DOMAIN bl /\ bl.wr # 0 /\ bl.wr \in Nat /\ bl'.wr = 0
        /\ bl'.q = Append(bl.q, [s |-> bl.wr, n |-> bl.packets, left |-> PacketSize])
        /\ bl'.rd = (IF bl.rd = "sleep" THEN "read" ELSE bl.rd)
        /\ bl.odd \subseteq bl'.odd /\ (bl.rd = "empty" => "missed" \in bl'.odd)
        /\ ~bl.is_open \/ bl.wr # bl.opens => "late" \in bl'.odd
        /\ UNCHANGED <<bl.info, bl.pdata, bl.is_open, bl.bt_open, bl.cp, bl.got, bl.packets, bl.opens, bl.fds, bl.rel, bl.cut>>
    BY <1>0, <1>8 DEF DataQueued, BtLogTypeOK
  <2>2. /\ bl'.q \in Seq(LogPacket) /\ Len(bl'.q) = Len(bl.q) + 1 /\ Len(bl.q) \in Nat /\ bl'.q # <<>>
        /\ bl'.q[Len(bl.q) + 1] = [s |-> bl.wr, n |-> bl.packets, left |-> PacketSize]
        /\ \A i \in 1..Len(bl.q) : bl'.q[i] = bl.q[i] /\ bl.q[i] \in LogPacket
        /\ \A i \in 1..Len(bl.got) : bl.got[i] \in LogPiece
        /\ bl.q # <<>> => Len(bl.q) > 0
    <3> DEFINE y == [s |-> bl.wr, n |-> bl.packets, left |-> PacketSize]
    <3>1. y \in LogPacket BY <1>0, <2>1, BtLogAssumption DEF LogPacket
    <3>2. bl.q \in Seq(LogPacket) /\ bl'.q = Append(bl.q, y) /\ bl.got \in Seq(LogPiece) BY <1>0, <2>1
    <3> HIDE DEF y
    <3>3. bl'.q \in Seq(LogPacket) /\ Len(bl'.q) = Len(bl.q) + 1 /\ bl'.q[Len(bl.q) + 1] = y
      BY <3>1, <3>2, Appended
    <3>4. \A i \in 1..Len(bl.q) : bl'.q[i] = bl.q[i] /\ bl.q[i] \in LogPacket BY <3>1, <3>2, Appended
    <3>5. /\ bl'.q # <<>> /\ Len(bl.q) \in Nat /\ (bl.q # <<>> => Len(bl.q) > 0)
          /\ \A i \in 1..Len(bl.got) : bl.got[i] \in LogPiece
      BY <3>1, <3>2, Appended
    <3> QED BY <3>3, <3>4, <3>5 DEF y
  <2>3. /\ \A i \in 1..Len(bl.q) : bl.q[i].n \in Nat
        /\ \A i \in 1..Len(bl.got) : bl.got[i].n \in Nat
    BY <1>0, LogNumbers
  <2>4. BlFields' BY <1>0, <2>1, <2>2, <2>3
  <2>5. BtLogTypeOK' BY <1>0, <2>1, <2>2, <2>3, BtLogAssumption DEF BtLogTypeOK, QueueHasRoom
  <2>6. QueueHasRoom' BY <1>0, <2>1, <2>2, <2>3, BtLogAssumption DEF QueueHasRoom
  <2>7. LogReaderKnows' BY <1>0, <2>1, <2>2, <2>3 DEF LogReaderKnows, BtLogTypeOK
  <2>8. QueueInOrder'
    <3> DEFINE m == Len(bl.q)
               num(i) == bl.q[i].n
               num2(i) == bl'.q[i].n
    <3>1. /\ \A i \in 1..m : num(i) \in Nat /\ num(i) < bl.packets /\ num2(i) = num(i)
          /\ \A i, j \in 1..m : i < j => num(i) < num(j)
      BY <1>0, <2>1, <2>2, <2>3 DEF QueueInOrder, Numbered
    <3>2. num2(m + 1) = bl.packets /\ Len(bl'.q) = m + 1 /\ m \in Nat /\ bl.packets \in Nat
      BY <1>0, <2>2
    <3>3. bl'.packets = bl.packets /\ bl'.wr = 0 BY <2>1
    <3>4. \A i \in 1..(m + 1) : i \in 1..m \/ i = m + 1 BY <3>2
    <3> HIDE DEF m, num, num2
    <3>5. \A i \in 1..(m + 1) : num2(i) <= bl.packets BY <3>1, <3>2, <3>4
    <3>6. ASSUME NEW i \in 1..(m + 1), NEW j \in 1..(m + 1), i < j PROVE num2(i) < num2(j)
      <4>1. i \in 1..m BY <3>2, <3>6
      <4>2. CASE j \in 1..m BY <3>1, <3>6, <4>1, <4>2
      <4>3. CASE j = m + 1 BY <3>1, <3>2, <4>1, <4>3
      <4> QED BY <3>4, <4>2, <4>3
    <3> QED BY <3>2, <3>3, <3>5, <3>6 DEF QueueInOrder, Numbered, m, num, num2
  <2>9. ReadInOrder'
    <3>1. /\ \A i \in 1..Len(bl.got) : Numbered(bl.got[i].n) /\ bl.got[i].n < bl.packets
          /\ \A i \in 1..Len(bl.got), j \in 1..Len(bl.q) : bl.got[i].n <= bl.q[j].n
          /\ \A i, j \in 1..Len(bl.got) : i < j => bl.got[i].n <= bl.got[j].n
      BY <1>0, <2>1 DEF ReadInOrder, Numbered
    <3>2. \A i \in 1..Len(bl.got) : bl.got[i].n <= bl'.packets /\ (bl'.wr # 0 => bl.got[i].n < bl'.packets)
      BY <2>1, <3>1 DEF Numbered
    <3>3. bl'.q[Len(bl.q) + 1].n = bl.packets /\ bl.packets \in Nat BY <1>0, <2>2
    <3>4. \A j \in 1..Len(bl'.q) : j \in 1..Len(bl.q) \/ j = Len(bl.q) + 1 BY <2>2
    <3>5. \A i \in 1..Len(bl'.got), j \in 1..Len(bl'.q) : bl'.got[i].n <= bl'.q[j].n
      <4>1. SUFFICES ASSUME NEW i \in 1..Len(bl.got), NEW j \in 1..Len(bl'.q) PROVE bl.got[i].n <= bl'.q[j].n
        BY <2>1
      <4>2. CASE j \in 1..Len(bl.q) BY <2>2, <3>1, <4>2
      <4>3. CASE j = Len(bl.q) + 1
        <5>1. bl.got[i].n < bl.packets /\ bl.got[i].n \in Nat BY <3>1, <2>3
        <5> QED BY <5>1, <3>3, <4>3
      <4> QED BY <3>4, <4>2, <4>3
    <3> QED BY <2>1, <3>1, <3>2, <3>5 DEF ReadInOrder, Numbered
  <2>10. ReadIsWhole' BY <1>0, <2>1, <2>2, <2>3 DEF ReadIsWhole, PacketDone
  <2>11. RestFollows' BY SMTT(20), <1>0, <2>1, <2>2, <2>3 DEF RestFollows, PacketDone, BtLogTypeOK
  <2>12. OneSession' BY <1>0, <2>1, <2>2, <2>3 DEF OneSession, BtLogTypeOK
  <2> QED BY <2>4, <2>5, <2>6, <2>7, <2>8, <2>9, <2>10, <2>11, <2>12 DEF BtLogInv
<1>9. CASE skwbt_log_port_read
  <2>1. ASSUME NEW len \in ReadLengths, bl.q # <<>>, bl' = skwbt_log_port_data_dequeue(bl, len) PROVE BtLogInv'
    <3>1. bl.is_open /\ bl.rd = "away" BY <1>9 DEF skwbt_log_port_read
    <3>2. DOMAIN bl' = DOMAIN bl /\ bl'.rd = "away"
      BY <1>0, <3>1, <2>1 DEF skwbt_log_port_data_dequeue
    <3>3. bl' = LogTaken(len) BY <1>0, <3>1, <2>1 DEF skwbt_log_port_data_dequeue, LogTaken
    <3> QED BY <3>1, <3>3, <2>1, LogIsRead
  <2>2. CASE bl.is_open /\ bl.q = <<>> /\ bl' = [bl EXCEPT !.rd = "empty"]
    <3>1. UNCHANGED <<bl.q, bl.got, bl.packets, bl.cut, bl.wr>> BY <1>0, <2>2
    <3>2. QueueHasRoom' /\ QueueInOrder' /\ ReadInOrder' /\ ReadIsWhole' /\ RestFollows' BY <3>1, LogLeft
    <3>3. BlFields' BY <1>0, <2>2
    <3>4. BtLogTypeOK' BY <1>0, <2>2, BtLogAssumption DEF BtLogTypeOK, QueueHasRoom
    <3>5. LogReaderKnows' BY <1>0, <2>2 DEF LogReaderKnows, BtLogTypeOK
    <3>6. OneSession' BY <1>0, <2>2 DEF OneSession, BtLogTypeOK
    <3> QED BY <3>2, <3>3, <3>4, <3>5, <3>6 DEF BtLogInv
  <2> QED BY <1>9, <2>1, <2>2 DEF skwbt_log_port_read
<1>10. CASE ReadSleeps
  <2>1. UNCHANGED <<bl.q, bl.got, bl.packets, bl.cut, bl.wr>>
    BY <1>0, <1>10 DEF ReadSleeps
  <2>2. QueueHasRoom' /\ QueueInOrder' /\ ReadInOrder' /\ ReadIsWhole' /\ RestFollows' BY <2>1, LogLeft
  <2>3. BlFields' BY <1>0, <1>10 DEF ReadSleeps
  <2>4. BtLogTypeOK' BY <1>0, <1>10, BtLogAssumption DEF ReadSleeps, BtLogTypeOK, QueueHasRoom
  <2>5. LogReaderKnows' BY <1>0, <1>10 DEF ReadSleeps, LogReaderKnows, BtLogTypeOK
  <2>6. OneSession' BY <1>0, <1>10 DEF ReadSleeps, OneSession, BtLogTypeOK
  <2> QED BY <2>2, <2>3, <2>4, <2>5, <2>6 DEF BtLogInv
<1>11. CASE LogReadWoken
  <2>1. CASE bl.q = <<>> /\ bl' = [bl EXCEPT !.rd = "away"]
    <3>1. UNCHANGED <<bl.q, bl.got, bl.packets, bl.cut, bl.wr>> BY <1>0, <2>1
    <3>2. QueueHasRoom' /\ QueueInOrder' /\ ReadInOrder' /\ ReadIsWhole' /\ RestFollows' BY <3>1, LogLeft
    <3>3. BlFields' BY <1>0, <2>1
    <3>4. BtLogTypeOK' BY <1>0, <2>1, BtLogAssumption DEF BtLogTypeOK, QueueHasRoom
    <3>5. LogReaderKnows' BY <1>0, <2>1 DEF LogReaderKnows, BtLogTypeOK
    <3>6. OneSession' BY <1>0, <2>1 DEF OneSession, BtLogTypeOK
    <3> QED BY <3>2, <3>3, <3>4, <3>5, <3>6 DEF BtLogInv
  <2>2. ASSUME NEW len \in ReadLengths, bl.q # <<>>, bl' = LogTaken(len) PROVE BtLogInv'
    <3>1. bl.is_open BY <1>0, <1>11 DEF LogReadWoken, LogReaderKnows
    <3> QED BY <3>1, <2>2, LogIsRead
  <2> QED BY <1>0, <1>11, <2>1, <2>2 DEF LogReadWoken, skwbt_log_port_data_dequeue, LogTaken
<1>12. CASE skwbt_log_port_flush
  <2>1. bl'.q = <<>> /\ UNCHANGED <<bl.got, bl.packets, bl.wr>> /\ bl.cut \union Half \subseteq bl'.cut
    BY <1>0, <1>12 DEF skwbt_log_port_flush
  <2>2. QueueHasRoom' /\ QueueInOrder' /\ ReadInOrder' /\ ReadIsWhole' /\ RestFollows' BY <2>1, LogEmptied
  <2>3. BlFields' BY <1>0, <1>12 DEF skwbt_log_port_flush
  <2>4. BtLogTypeOK' BY <1>0, <1>12, BtLogAssumption DEF skwbt_log_port_flush, BtLogTypeOK, QueueHasRoom
  <2>5. LogReaderKnows' BY <1>0, <1>12 DEF skwbt_log_port_flush, LogReaderKnows, BtLogTypeOK
  <2>6. OneSession' BY <1>0, <1>12 DEF skwbt_log_port_flush, OneSession, BtLogTypeOK
  <2> QED BY <2>2, <2>3, <2>4, <2>5, <2>6 DEF BtLogInv
<1>13. CASE skwbt_log_port_release
  <2>1. UNCHANGED <<bl.q, bl.packets, bl.wr>> /\ bl'.got = <<>> /\ bl'.cut = Half
    BY <1>0, <1>13 DEF skwbt_log_port_release
  <2>2. QueueHasRoom' /\ QueueInOrder' /\ ReadInOrder' /\ ReadIsWhole' /\ RestFollows' BY <2>1, LogTurned
  <2>3. BlFields' BY <1>0, <1>13 DEF skwbt_log_port_release
  <2>4. BtLogTypeOK' BY <1>0, <1>13, BtLogAssumption DEF skwbt_log_port_release, BtLogTypeOK, QueueHasRoom
  <2>5. LogReaderKnows' BY <1>0, <1>13 DEF skwbt_log_port_release, LogReaderKnows, BtLogTypeOK
  <2>6. OneSession' BY <1>0, <1>13 DEF skwbt_log_port_release, OneSession, BtLogTypeOK
  <2> QED BY <2>2, <2>3, <2>4, <2>5, <2>6 DEF BtLogInv
<1>14. CASE ReleaseEnds
  <2>1. bl'.q = <<>> /\ UNCHANGED <<bl.got, bl.packets, bl.wr>> /\ bl.cut \union Half \subseteq bl'.cut
    BY <1>0, <1>14 DEF ReleaseEnds, skwbt_log_open
  <2>2. QueueHasRoom' /\ QueueInOrder' /\ ReadInOrder' /\ ReadIsWhole' /\ RestFollows' BY <2>1, LogEmptied
  <2>3. BlFields' BY <1>0, <1>14 DEF ReleaseEnds, skwbt_log_open
  <2>4. BtLogTypeOK' BY <1>0, <1>14, BtLogAssumption DEF ReleaseEnds, skwbt_log_open, BtLogTypeOK, QueueHasRoom
  <2>5. LogReaderKnows' BY <1>0, <1>14 DEF ReleaseEnds, skwbt_log_open, LogReaderKnows, BtLogTypeOK
  <2>6. OneSession' BY <1>0, <1>14 DEF ReleaseEnds, skwbt_log_open, OneSession, BtLogTypeOK
  <2> QED BY <2>2, <2>3, <2>4, <2>5, <2>6 DEF BtLogInv
<1>15. CASE UNCHANGED blVars
  <2>1. bl' = bl BY <1>15 DEF blVars
  <2>2. QueueHasRoom' /\ QueueInOrder' /\ ReadInOrder' /\ ReadIsWhole' /\ RestFollows' BY <2>1, LogLeft
  <2>3. BlFields' /\ BtLogTypeOK' /\ LogReaderKnows' /\ OneSession' BY <1>0, <2>1 DEF BtLogTypeOK, LogReaderKnows, OneSession
  <2> QED BY <2>2, <2>3 DEF BtLogInv
<1> QED BY <1>1, <1>2, <1>3, <1>4, <1>5, <1>6, <1>7, <1>8, <1>9, <1>10, <1>11, <1>12, <1>13, <1>14, <1>15 DEF BtLogNext

\* The initial state has it.
LEMMA BtLogBegin ==
    ASSUME BtLogInit
    PROVE  BtLogInv
<1>1. /\ DOMAIN bl = {"info", "pdata", "is_open", "bt_open", "q", "rd", "wr", "cp", "got", "packets", "opens",
                      "fds", "rel", "cut", "odd"}
      /\ {bl.info, bl.pdata, bl.is_open, bl.bt_open, bl.rel} \subseteq BOOLEAN /\ bl.wr = 0 /\ ~bl.is_open /\ bl.fds = 0
      /\ bl.q = <<>> /\ bl.got = <<>> /\ bl.rd = "away" /\ bl.packets = 0 /\ bl.opens = 0 /\ bl.cp = "off"
  BY DEF BtLogInit
<1>2. bl.q \in Seq(LogPacket) /\ bl.got \in Seq(LogPiece) /\ Len(bl.q) = 0 /\ Len(bl.got) = 0 BY <1>1
<1>3. BlFields /\ BtLogTypeOK /\ QueueHasRoom /\ LogReaderKnows
  BY <1>1, <1>2, BtLogAssumption DEF BlFields, BtLogTypeOK, QueueHasRoom, LogReaderKnows
<1>4. QueueInOrder /\ ReadInOrder /\ ReadIsWhole /\ RestFollows /\ OneSession
  BY <1>1, <1>2 DEF QueueInOrder, ReadInOrder, ReadIsWhole, RestFollows, OneSession
<1> QED BY <1>3, <1>4 DEF BtLogInv

\* It implies what the run checks.
LEMMA BtLogHolds ==
    ASSUME BtLogInv
    PROVE  BtLogTypeOK /\ LogReaderServed /\ LogIsWhole
<1>0. /\ BlFields /\ BtLogTypeOK /\ LogReaderKnows /\ ReadInOrder /\ ReadIsWhole /\ OneSession
  BY DEF BtLogInv
<1>1. LogReaderServed BY <1>0 DEF LogReaderKnows, LogReaderServed
<1>2. LogIsWhole BY <1>0 DEF ReadInOrder, ReadIsWhole, PacketDone, OneSession, LogIsWhole
<1> QED BY <1>0, <1>1, <1>2

\* A reader of the Bluetooth log sleeps only with an empty queue, but for
\* the packet that crosses its look, and what a session reads is in order
\* and without a gap in a packet, but for one that a close cut
\* (skwutil/skw_btlog.c).
THEOREM BtLogIsWhole == BtLogSpec => [](LogReaderServed /\ LogIsWhole)
  BY BtLogBegin, BtLogStep, BtLogHolds, PTL DEF BtLogSpec

-----------------------------------------------------------------------------
\* The character devices.

\* The character devices: while a device is there, its count is the number
\* of its holders, and those of a device that has gone were torn from it.
UcomFields == DOMAIN um = {"kind", "present", "alive", "bufs", "open", "port", "rx", "tx", "exc", "rm", "probes", "ops", "asserts", "odd"}
Holding == {"counted", "held", "read", "write"}
Holders == {f \in Files : ux[f] \in Holding}
Seekers == {f \in Files : ux[f] = "found"}
Torn == um.odd \intersect {"impatient", "openraced"} # {}
FilesCounted == /\ um.present => um.open = Cardinality(Holders)
                /\ ~um.present => um.open + Cardinality(Seekers) <= Cardinality(Files)
DeviceThere == /\ um.present => um.alive /\ (um.bufs \/ um.kind = "BTBOOT") /\ ~Torn
               /\ um.rm = "wait" => um.present /\ "removing" \in um.odd
               /\ Holders # {} => um.present \/ Torn
NoFileOfBoot == \A f \in Files : ux[f] \in {"counted", "read", "write"} => um.kind # "BTBOOT"
OneReads == um.odd \subseteq {"removing"} => \A f \in Files : ux[f] = "read" => um.rx /\ \A g \in Files : ux[g] = "read" => g = f
HeldIsOpen == (\E f \in Files : Holds(f)) /\ um.odd = {} => um.port
UcomInv == UcomFields /\ UcomTypeOK /\ FilesCounted /\ DeviceThere /\ NoFileOfBoot /\ OneReads /\ HeldIsOpen

\* How many hold the device, and how many are about to.
LEMMA FilesFinite ==
    /\ Cardinality(Files) \in Nat
    /\ Cardinality(Holders) \in Nat /\ Cardinality(Holders) <= Cardinality(Files) /\ (Cardinality(Holders) = 0 <=> Holders = {})
    /\ Cardinality(Seekers) \in Nat /\ Cardinality(Seekers) <= Cardinality(Files)
<1>1. IsFiniteSet(Files) /\ Holders \subseteq Files /\ Seekers \subseteq Files
  BY UcomAssumption DEF Holders, Seekers
<1>2. IsFiniteSet(Holders) /\ IsFiniteSet(Seekers) BY <1>1, FS_Subset
<1> QED BY <1>1, <1>2, FS_Subset, FS_CardinalityType, FS_EmptySet

\* One file goes from a state to another.
LEMMA FileMoves ==
    ASSUME NEW f \in Files, NEW v, DOMAIN ux = Files, ux' = [ux EXCEPT ![f] = v]
    PROVE  /\ Cardinality(Holders') =
              (IF v \in Holding THEN IF ux[f] \in Holding THEN Cardinality(Holders) ELSE Cardinality(Holders) + 1
               ELSE IF ux[f] \in Holding THEN Cardinality(Holders) - 1 ELSE Cardinality(Holders))
           /\ Cardinality(Seekers') =
              (IF v = "found" THEN IF ux[f] = "found" THEN Cardinality(Seekers) ELSE Cardinality(Seekers) + 1
               ELSE IF ux[f] = "found" THEN Cardinality(Seekers) - 1 ELSE Cardinality(Seekers))
           /\ Holders' = IF v \in Holding THEN Holders \union {f} ELSE Holders \ {f}
           /\ f \in Holders <=> ux[f] \in Holding
           /\ \A g \in Files : ux'[g] = IF g = f THEN v ELSE ux[g]
<1>1. IsFiniteSet(Files) /\ Holders \subseteq Files /\ Seekers \subseteq Files
  BY UcomAssumption DEF Holders, Seekers
<1>2. IsFiniteSet(Holders) /\ IsFiniteSet(Seekers) BY <1>1, FS_Subset
<1>3. /\ Holders' = IF v \in Holding THEN Holders \union {f} ELSE Holders \ {f}
      /\ Seekers' = IF v = "found" THEN Seekers \union {f} ELSE Seekers \ {f}
      /\ f \in Holders <=> ux[f] \in Holding
      /\ f \in Seekers <=> ux[f] = "found"
  BY DEF Holders, Seekers
<1>4. ASSUME NEW S, IsFiniteSet(S)
      PROVE  /\ Cardinality(S \union {f}) = IF f \in S THEN Cardinality(S) ELSE Cardinality(S) + 1
             /\ Cardinality(S \ {f}) = IF f \in S THEN Cardinality(S) - 1 ELSE Cardinality(S)
  BY <1>4, FS_AddElement, FS_RemoveElement
<1>5. \A g \in Files : ux'[g] = IF g = f THEN v ELSE ux[g] OBVIOUS
<1>6. /\ Cardinality(Holders \union {f}) = IF f \in Holders THEN Cardinality(Holders) ELSE Cardinality(Holders) + 1
      /\ Cardinality(Holders \ {f}) = IF f \in Holders THEN Cardinality(Holders) - 1 ELSE Cardinality(Holders)
  BY <1>2, <1>4
<1>7. /\ Cardinality(Seekers \union {f}) = IF f \in Seekers THEN Cardinality(Seekers) ELSE Cardinality(Seekers) + 1
      /\ Cardinality(Seekers \ {f}) = IF f \in Seekers THEN Cardinality(Seekers) - 1 ELSE Cardinality(Seekers)
  BY <1>2, <1>4
<1>8. Cardinality(Holders') = (IF v \in Holding THEN Cardinality(Holders \union {f}) ELSE Cardinality(Holders \ {f}))
  BY <1>3
<1>9. Cardinality(Seekers') = (IF v = "found" THEN Cardinality(Seekers \union {f}) ELSE Cardinality(Seekers \ {f}))
  BY <1>3
<1> QED BY <1>3, <1>5, <1>6, <1>7, <1>8, <1>9

\* A file that looks the device up.
LEMMA FileSeeks ==
    ASSUME NEW f \in Files, DOMAIN ux = Files, ux[f] = "away", ux' = [ux EXCEPT ![f] = "found"]
    PROVE  /\ Cardinality(Holders') = Cardinality(Holders) /\ Cardinality(Seekers') = Cardinality(Seekers) + 1
           /\ Holders' = Holders \ {f} /\ f \notin Holders
           /\ \A g \in Files : ux'[g] = IF g = f THEN "found" ELSE ux[g]
<1>1. "found" \notin Holding /\ "away" \notin Holding BY DEF Holding
<1>2. /\ Cardinality(Holders') = Cardinality(Holders)
      /\ Cardinality(Seekers') = Cardinality(Seekers) + 1
      /\ Holders' = Holders \ {f}
  BY <1>1, FileMoves
<1>3. /\ f \in Holders <=> ux[f] \in Holding
      /\ \A g \in Files : ux'[g] = IF g = f THEN "found" ELSE ux[g]
  BY FileMoves
<1> QED BY <1>1, <1>2, <1>3

\* A file that does not get it.
LEMMA FileGivesUp ==
    ASSUME NEW f \in Files, DOMAIN ux = Files, ux[f] = "found", ux' = [ux EXCEPT ![f] = "away"]
    PROVE  /\ Cardinality(Holders') = Cardinality(Holders) /\ Cardinality(Seekers') = Cardinality(Seekers) - 1
           /\ Holders' = Holders \ {f} /\ f \notin Holders
           /\ \A g \in Files : ux'[g] = IF g = f THEN "away" ELSE ux[g]
<1>1. "found" \notin Holding /\ "away" \notin Holding BY DEF Holding
<1>2. /\ Cardinality(Holders') = Cardinality(Holders)
      /\ Cardinality(Seekers') = Cardinality(Seekers) - 1
      /\ Holders' = Holders \ {f}
  BY <1>1, FileMoves
<1>3. /\ f \in Holders <=> ux[f] \in Holding
      /\ \A g \in Files : ux'[g] = IF g = f THEN "away" ELSE ux[g]
  BY FileMoves
<1> QED BY <1>1, <1>2, <1>3

\* A file that gets it.
LEMMA FileTakes ==
    ASSUME NEW f \in Files, NEW v, DOMAIN ux = Files, ux[f] = "found", v \in Holding, ux' = [ux EXCEPT ![f] = v]
    PROVE  /\ Cardinality(Holders') = Cardinality(Holders) + 1 /\ Cardinality(Seekers') = Cardinality(Seekers) - 1
           /\ Holders' = Holders \union {f}
           /\ \A g \in Files : ux'[g] = IF g = f THEN v ELSE ux[g]
<1>1. "found" \notin Holding /\ "away" \notin Holding BY DEF Holding
<1>2. /\ Cardinality(Holders') = Cardinality(Holders) + 1
      /\ Cardinality(Seekers') = Cardinality(Seekers) - 1
      /\ Holders' = Holders \union {f}
  BY <1>1, FileMoves
<1>3. /\ f \in Holders <=> ux[f] \in Holding
      /\ \A g \in Files : ux'[g] = IF g = f THEN v ELSE ux[g]
  BY FileMoves
<1> QED BY <1>1, <1>2, <1>3

\* A file that does something with it.
LEMMA FileKeeps ==
    ASSUME NEW f \in Files, NEW v, DOMAIN ux = Files, ux[f] \in Holding, v \in Holding, ux' = [ux EXCEPT ![f] = v]
    PROVE  /\ Cardinality(Holders') = Cardinality(Holders) /\ Cardinality(Seekers') = Cardinality(Seekers)
           /\ Holders' = Holders \union {f} /\ f \in Holders
           /\ \A g \in Files : ux'[g] = IF g = f THEN v ELSE ux[g]
<1>1. "found" \notin Holding /\ "away" \notin Holding BY DEF Holding
<1>2. /\ Cardinality(Holders') = Cardinality(Holders)
      /\ Cardinality(Seekers') = Cardinality(Seekers)
      /\ Holders' = Holders \union {f}
  BY <1>1, FileMoves
<1>3. /\ f \in Holders <=> ux[f] \in Holding
      /\ \A g \in Files : ux'[g] = IF g = f THEN v ELSE ux[g]
  BY FileMoves
<1> QED BY <1>1, <1>2, <1>3

\* A file that gives it back.
LEMMA FileLeaves ==
    ASSUME NEW f \in Files, DOMAIN ux = Files, ux[f] \in Holding, ux' = [ux EXCEPT ![f] = "away"]
    PROVE  /\ Cardinality(Holders') = Cardinality(Holders) - 1 /\ Cardinality(Seekers') = Cardinality(Seekers)
           /\ Holders' = Holders \ {f} /\ f \in Holders
           /\ \A g \in Files : ux'[g] = IF g = f THEN "away" ELSE ux[g]
<1>1. "found" \notin Holding /\ "away" \notin Holding BY DEF Holding
<1>2. /\ Cardinality(Holders') = Cardinality(Holders) - 1
      /\ Cardinality(Seekers') = Cardinality(Seekers)
      /\ Holders' = Holders \ {f}
  BY <1>1, FileMoves
<1>3. /\ f \in Holders <=> ux[f] \in Holding
      /\ \A g \in Files : ux'[g] = IF g = f THEN "away" ELSE ux[g]
  BY FileMoves
<1> QED BY <1>1, <1>2, <1>3

\* Every step of the character devices keeps it.
LEMMA UcomStep ==
    ASSUME UcomInv, [UcomNext]_ucomVars
    PROVE  UcomInv'
<1> USE DEF UcomTypeOK
<1>0. UcomFields /\ UcomTypeOK /\ FilesCounted /\ DeviceThere /\ NoFileOfBoot /\ OneReads /\ HeldIsOpen
  BY DEF UcomInv
<1>f. /\ Cardinality(Holders') \in Nat /\ Cardinality(Holders') <= Cardinality(Files)
      /\ Cardinality(Seekers') \in Nat /\ Cardinality(Seekers') <= Cardinality(Files)
  <2>1. IsFiniteSet(Files) /\ Holders' \subseteq Files /\ Seekers' \subseteq Files
    BY UcomAssumption DEF Holders, Seekers
  <2>2. IsFiniteSet(Holders') /\ IsFiniteSet(Seekers') BY <2>1, FS_Subset
  <2> QED BY <2>1, <2>2, FS_Subset, FS_CardinalityType
<1>1. CASE skw_ucom_probe
  <2>1. /\ ~um.present /\ ux' = ux /\ Holders' = {} /\ Seekers' = {} /\ \A f \in Files : ux[f] = "away"
        /\ um'.probes = um.probes + 1 /\ um.probes < MaxProbes
    BY <1>0, <1>1 DEF skw_ucom_probe, Holders, Seekers, Holding, UcomFields
  <2>2. Cardinality(Holders') = 0 /\ Cardinality(Seekers') = 0 BY <2>1, FS_EmptySet
  <2>3. /\ DOMAIN um' = DOMAIN um /\ um'.odd = {}
        /\ um'.present /\ um'.alive /\ {um'.present, um'.alive, um'.bufs, um'.rx, um'.tx, um'.port} \subseteq BOOLEAN
        /\ (um'.bufs \/ um'.kind = "BTBOOT") /\ um'.open = 0
        /\ UNCHANGED <<um.kind, um.exc, um.rm, um.ops, um.asserts>>
    BY <1>0, <1>1 DEF skw_ucom_probe, UcomFields
  <2>4. um.probes < MaxProbes /\ MaxProbes \in Nat BY <1>1, UcomAssumption DEF skw_ucom_probe
  <2>5. UcomFields' BY <1>0, <2>1, <2>2, <2>3, <2>4 DEF UcomFields
  <2>6. UcomTypeOK'
    BY <1>0, <2>1, <2>2, <2>3, <2>4, <1>f, FilesFinite DEF UcomFields, FilesCounted, Kinds
  <2>7. FilesCounted' BY <1>0, <2>1, <2>2, <2>3, <2>4, <1>f, FilesFinite DEF FilesCounted, DeviceThere
  <2>8. DeviceThere'
    BY <1>0, <2>1, <2>2, <2>3, <2>4, <1>f, FilesFinite DEF DeviceThere, FilesCounted, Torn
  <2>9. NoFileOfBoot' BY <1>0, <2>1, <2>2, <2>3, <2>4 DEF NoFileOfBoot
  <2>10. OneReads'
    BY <1>0, <2>1, <2>2, <2>3, <2>4 DEF OneReads, FilesCounted, DeviceThere, Torn, Holding
  <2>11. HeldIsOpen'
    BY <1>0, <2>1, <2>2, <2>3, <2>4 DEF HeldIsOpen, Holds, FilesCounted, DeviceThere, Torn, Holding
  <2> QED BY <2>5, <2>6, <2>7, <2>8, <2>9, <2>10, <2>11 DEF UcomInv
<1>2. CASE ucom_open
  <2>1. ASSUME NEW f \in Files, ux[f] = "away", ux' = [ux EXCEPT ![f] = "found"] PROVE UcomInv'
    <3>1. /\ ux[f] = "away" /\ Cardinality(Holders') = Cardinality(Holders) /\ Cardinality(Seekers') = Cardinality(Seekers) + 1
          /\ Holders' = Holders \ {f} /\ f \notin Holders
          /\ \A g \in Files : ux'[g] = IF g = f THEN "found" ELSE ux[g]
          /\ ux' \in [Files -> {"away", "found", "counted", "held", "read", "write"}]
      <4>1. DOMAIN ux = Files BY <1>0
      <4>2. ux[f] = "away" /\ ux' = [ux EXCEPT ![f] = "found"] BY <2>1
      <4>3. ux' \in [Files -> {"away", "found", "counted", "held", "read", "write"}] BY <1>0, <4>2
      <4> QED BY <4>1, <4>2, <4>3, FileSeeks
    <3>2. /\ DOMAIN um' = DOMAIN um /\ um'.odd = um.odd
          /\ um.present
          /\ UNCHANGED <<um.kind, um.present, um.alive, um.bufs, um.open, um.port, um.rx, um.tx, um.exc,
                           um.rm, um.probes, um.asserts>>
      BY <1>0, <1>2, <2>1 DEF ucom_open, UcomFields
    <3>3. UcomFields' BY <1>0, <2>1, <3>1, <3>2 DEF UcomFields
    <3>4. UcomTypeOK' BY <1>0, <2>1, <3>1, <3>2, <1>f, FilesFinite DEF UcomFields, FilesCounted, Kinds
    <3>5. FilesCounted' BY <1>0, <2>1, <3>1, <3>2, <1>f, FilesFinite DEF FilesCounted, DeviceThere
    <3>6. DeviceThere'
      BY <1>0, <2>1, <3>1, <3>2, <1>f, FilesFinite DEF DeviceThere, FilesCounted, Torn
    <3>7. NoFileOfBoot' BY <1>0, <2>1, <3>1, <3>2 DEF NoFileOfBoot
    <3>8. OneReads' BY <1>0, <2>1, <3>1, <3>2 DEF OneReads, FilesCounted, DeviceThere, Torn, Holding
    <3>9. HeldIsOpen'
      BY <1>0, <2>1, <3>1, <3>2 DEF HeldIsOpen, Holds, FilesCounted, DeviceThere, Torn, Holding
    <3> QED BY <3>3, <3>4, <3>5, <3>6, <3>7, <3>8, <3>9 DEF UcomInv
  <2> QED BY <1>0, <1>2, <2>1 DEF ucom_open
<1>3. CASE OpenCounted
  <2>1. ASSUME NEW f \in Files, ux[f] = "found", ux' = [ux EXCEPT ![f] = "counted"] PROVE UcomInv'
    <3>1. /\ ux[f] = "found" /\ Cardinality(Holders') = Cardinality(Holders) + 1 /\ Cardinality(Seekers') = Cardinality(Seekers) - 1
          /\ Holders' = Holders \union {f}
          /\ \A g \in Files : ux'[g] = IF g = f THEN "counted" ELSE ux[g]
          /\ ux' \in [Files -> {"away", "found", "counted", "held", "read", "write"}]
      <4>1. DOMAIN ux = Files BY <1>0
      <4>2. ux[f] = "found" /\ ux' = [ux EXCEPT ![f] = "counted"] BY <2>1
      <4>3. ux' \in [Files -> {"away", "found", "counted", "held", "read", "write"}] BY <1>0, <4>2
      <4>4. "counted" \in Holding BY DEF Holding
      <4> QED BY <4>1, <4>2, <4>3, <4>4, FileTakes
    <3>2. /\ DOMAIN um' = DOMAIN um
          /\ um'.open = um.open + 1 /\ um.kind # "BTBOOT"
          /\ um.odd \subseteq um'.odd /\ um'.odd \subseteq um.odd \union {"openraced"}
          /\ IF ~um.alive \/ ~um.present THEN "openraced" \in um'.odd ELSE um'.odd = um.odd
          /\ UNCHANGED <<um.kind, um.present, um.alive, um.bufs, um.port, um.rx, um.tx, um.exc, um.rm,
                           um.probes, um.ops, um.asserts>>
      BY <1>0, <1>3, <2>1 DEF OpenCounted, UcomOdd, UcomFields
    <3>3. UcomFields' BY <1>0, <2>1, <3>1, <3>2 DEF UcomFields
    <3>4. UcomTypeOK' BY <1>0, <2>1, <3>1, <3>2, <1>f, FilesFinite DEF UcomFields, FilesCounted, Kinds
    <3>5. FilesCounted' BY <1>0, <2>1, <3>1, <3>2, <1>f, FilesFinite DEF FilesCounted, DeviceThere
    <3>6. DeviceThere'
      BY <1>0, <2>1, <3>1, <3>2, <1>f, FilesFinite DEF DeviceThere, FilesCounted, Torn
    <3>7. NoFileOfBoot' BY <1>0, <2>1, <3>1, <3>2 DEF NoFileOfBoot
    <3>8. OneReads' BY <1>0, <2>1, <3>1, <3>2 DEF OneReads, FilesCounted, DeviceThere, Torn, Holding
    <3>9. HeldIsOpen'
      BY <1>0, <2>1, <3>1, <3>2 DEF HeldIsOpen, Holds, FilesCounted, DeviceThere, Torn, Holding
    <3> QED BY <3>3, <3>4, <3>5, <3>6, <3>7, <3>8, <3>9 DEF UcomInv
  <2> QED BY <1>0, <1>3, <2>1 DEF OpenCounted
<1>4. CASE OpenFirst
  <2>1. ASSUME NEW f \in Files, ux[f] = "counted", ux' = [ux EXCEPT ![f] = "held"], um.open = 1, um' = [um EXCEPT !.rx = FALSE, !.tx = FALSE, !.port = TRUE] PROVE UcomInv'
    <3>1. /\ ux[f] = "counted" /\ Cardinality(Holders') = Cardinality(Holders) /\ Cardinality(Seekers') = Cardinality(Seekers)
          /\ Holders' = Holders \union {f} /\ f \in Holders
          /\ \A g \in Files : ux'[g] = IF g = f THEN "held" ELSE ux[g]
          /\ ux' \in [Files -> {"away", "found", "counted", "held", "read", "write"}]
      <4>1. DOMAIN ux = Files BY <1>0
      <4>2. ux[f] = "counted" /\ ux' = [ux EXCEPT ![f] = "held"] BY <2>1
      <4>3. ux' \in [Files -> {"away", "found", "counted", "held", "read", "write"}] BY <1>0, <4>2
      <4>4. "counted" \in Holding /\ "held" \in Holding BY DEF Holding
      <4> QED BY <4>1, <4>2, <4>3, <4>4, FileKeeps
    <3>2. /\ DOMAIN um' = DOMAIN um /\ um'.odd = um.odd
          /\ um'.rx \in BOOLEAN /\ um'.tx \in BOOLEAN /\ um'.port \in BOOLEAN /\ um'.port
          /\ um.open = 1
          /\ UNCHANGED <<um.kind, um.present, um.alive, um.bufs, um.open, um.exc, um.rm, um.probes, um.ops,
                           um.asserts>>
      BY <1>0, <2>1 DEF OpenFirst, UcomFields
    <3>3. \A g \in Files : ux[g] \in Holding => g = f \/ Torn
      <4>1. SUFFICES ASSUME NEW g \in Files, ux[g] \in Holding, ~Torn PROVE g = f OBVIOUS
      <4>2. {f, g} \subseteq Holders /\ um.present BY <1>0, <3>1, <4>1 DEF DeviceThere, Holders
      <4>3. Cardinality(Holders) = 1 /\ IsFiniteSet(Holders)
        BY <1>0, <3>2, <4>2, UcomAssumption, FS_Subset DEF FilesCounted, Holders
      <4> QED BY <4>2, <4>3, FS_Singleton
    <3>4. UcomFields' BY <1>0, <2>1, <3>1, <3>2, <3>3 DEF UcomFields
    <3>5. UcomTypeOK'
      BY <1>0, <2>1, <3>1, <3>2, <3>3, <1>f, FilesFinite DEF UcomFields, FilesCounted, Kinds
    <3>6. FilesCounted'
      BY <1>0, <2>1, <3>1, <3>2, <3>3, <1>f, FilesFinite DEF FilesCounted, DeviceThere
    <3>7. DeviceThere'
      BY <1>0, <2>1, <3>1, <3>2, <3>3, <1>f, FilesFinite DEF DeviceThere, FilesCounted, Torn
    <3>8. NoFileOfBoot' BY <1>0, <2>1, <3>1, <3>2, <3>3 DEF NoFileOfBoot
    <3>9. OneReads'
      BY <1>0, <2>1, <3>1, <3>2, <3>3 DEF OneReads, FilesCounted, DeviceThere, Torn, Holding
    <3>10. HeldIsOpen'
      BY <1>0, <2>1, <3>1, <3>2, <3>3 DEF HeldIsOpen, Holds, FilesCounted, DeviceThere, Torn, Holding
    <3> QED BY <3>4, <3>5, <3>6, <3>7, <3>8, <3>9, <3>10 DEF UcomInv
  <2>2. ASSUME NEW f \in Files, ux[f] = "counted", ux' = [ux EXCEPT ![f] = "held"], um' = UcomOdd(um, ~um.port, "together") PROVE UcomInv'
    <3>1. /\ ux[f] = "counted" /\ Cardinality(Holders') = Cardinality(Holders) /\ Cardinality(Seekers') = Cardinality(Seekers)
          /\ Holders' = Holders \union {f} /\ f \in Holders
          /\ \A g \in Files : ux'[g] = IF g = f THEN "held" ELSE ux[g]
          /\ ux' \in [Files -> {"away", "found", "counted", "held", "read", "write"}]
      <4>1. DOMAIN ux = Files BY <1>0
      <4>2. ux[f] = "counted" /\ ux' = [ux EXCEPT ![f] = "held"] BY <2>2
      <4>3. ux' \in [Files -> {"away", "found", "counted", "held", "read", "write"}] BY <1>0, <4>2
      <4>4. "counted" \in Holding /\ "held" \in Holding BY DEF Holding
      <4> QED BY <4>1, <4>2, <4>3, <4>4, FileKeeps
    <3>2. /\ DOMAIN um' = DOMAIN um
          /\ um.odd \subseteq um'.odd /\ um'.odd \subseteq um.odd \union {"together"} /\ (~um.port => "together" \in um'.odd)
          /\ UNCHANGED <<um.kind, um.present, um.alive, um.bufs, um.open, um.port, um.rx, um.tx, um.exc,
                           um.rm, um.probes, um.ops, um.asserts>>
      BY <1>0, <2>2 DEF UcomOdd, UcomFields
    <3>3. UcomFields' BY <1>0, <2>2, <3>1, <3>2 DEF UcomFields
    <3>4. UcomTypeOK' BY <1>0, <2>2, <3>1, <3>2, <1>f, FilesFinite DEF UcomFields, FilesCounted, Kinds
    <3>5. FilesCounted' BY <1>0, <2>2, <3>1, <3>2, <1>f, FilesFinite DEF FilesCounted, DeviceThere
    <3>6. DeviceThere'
      BY <1>0, <2>2, <3>1, <3>2, <1>f, FilesFinite DEF DeviceThere, FilesCounted, Torn
    <3>7. NoFileOfBoot' BY <1>0, <2>2, <3>1, <3>2 DEF NoFileOfBoot
    <3>8. OneReads' BY <1>0, <2>2, <3>1, <3>2 DEF OneReads, FilesCounted, DeviceThere, Torn, Holding
    <3>9. HeldIsOpen'
      BY <1>0, <2>2, <3>1, <3>2 DEF HeldIsOpen, Holds, FilesCounted, DeviceThere, Torn, Holding
    <3> QED BY <3>3, <3>4, <3>5, <3>6, <3>7, <3>8, <3>9 DEF UcomInv
  <2> QED BY <1>0, <1>4, <2>1, <2>2 DEF OpenFirst
<1>5. CASE user_boot_open
  <2>1. ASSUME NEW f \in Files, ux[f] = "away", ux' = [ux EXCEPT ![f] = "found"] PROVE UcomInv'
    <3>1. /\ ux[f] = "away" /\ Cardinality(Holders') = Cardinality(Holders) /\ Cardinality(Seekers') = Cardinality(Seekers) + 1
          /\ Holders' = Holders \ {f} /\ f \notin Holders
          /\ \A g \in Files : ux'[g] = IF g = f THEN "found" ELSE ux[g]
          /\ ux' \in [Files -> {"away", "found", "counted", "held", "read", "write"}]
      <4>1. DOMAIN ux = Files BY <1>0
      <4>2. ux[f] = "away" /\ ux' = [ux EXCEPT ![f] = "found"] BY <2>1
      <4>3. ux' \in [Files -> {"away", "found", "counted", "held", "read", "write"}] BY <1>0, <4>2
      <4> QED BY <4>1, <4>2, <4>3, FileSeeks
    <3>2. /\ DOMAIN um' = DOMAIN um /\ um'.odd = um.odd
          /\ um.present
          /\ UNCHANGED <<um.kind, um.present, um.alive, um.bufs, um.open, um.port, um.rx, um.tx, um.exc,
                           um.rm, um.probes, um.asserts>>
      BY <1>0, <1>5, <2>1 DEF user_boot_open, UcomFields
    <3>3. UcomFields' BY <1>0, <2>1, <3>1, <3>2 DEF UcomFields
    <3>4. UcomTypeOK' BY <1>0, <2>1, <3>1, <3>2, <1>f, FilesFinite DEF UcomFields, FilesCounted, Kinds
    <3>5. FilesCounted' BY <1>0, <2>1, <3>1, <3>2, <1>f, FilesFinite DEF FilesCounted, DeviceThere
    <3>6. DeviceThere'
      BY <1>0, <2>1, <3>1, <3>2, <1>f, FilesFinite DEF DeviceThere, FilesCounted, Torn
    <3>7. NoFileOfBoot' BY <1>0, <2>1, <3>1, <3>2 DEF NoFileOfBoot
    <3>8. OneReads' BY <1>0, <2>1, <3>1, <3>2 DEF OneReads, FilesCounted, DeviceThere, Torn, Holding
    <3>9. HeldIsOpen'
      BY <1>0, <2>1, <3>1, <3>2 DEF HeldIsOpen, Holds, FilesCounted, DeviceThere, Torn, Holding
    <3> QED BY <3>3, <3>4, <3>5, <3>6, <3>7, <3>8, <3>9 DEF UcomInv
  <2> QED BY <1>0, <1>5, <2>1 DEF user_boot_open
<1>6. CASE BootStarted
  <2>1. ASSUME NEW f \in Files, ux[f] = "found", ux' = [ux EXCEPT ![f] = "held"], um' = [UcomOdd(UcomOdd(um, um.open > 0, "twice"), ~um.alive \/ ~um.present, "openraced") EXCEPT !.port = TRUE, !.open = @ + 1] PROVE UcomInv'
    <3>1. /\ ux[f] = "found" /\ Cardinality(Holders') = Cardinality(Holders) + 1 /\ Cardinality(Seekers') = Cardinality(Seekers) - 1
          /\ Holders' = Holders \union {f}
          /\ \A g \in Files : ux'[g] = IF g = f THEN "held" ELSE ux[g]
          /\ ux' \in [Files -> {"away", "found", "counted", "held", "read", "write"}]
      <4>1. DOMAIN ux = Files BY <1>0
      <4>2. ux[f] = "found" /\ ux' = [ux EXCEPT ![f] = "held"] BY <2>1
      <4>3. ux' \in [Files -> {"away", "found", "counted", "held", "read", "write"}] BY <1>0, <4>2
      <4>4. "held" \in Holding BY DEF Holding
      <4> QED BY <4>1, <4>2, <4>3, <4>4, FileTakes
    <3>2. um.kind = "BTBOOT" BY <1>6 DEF BootStarted
    <3>3. /\ DOMAIN um' = DOMAIN um
          /\ um'.open = um.open + 1 /\ um'.port \in BOOLEAN /\ um'.port
          /\ um.odd \subseteq um'.odd /\ um'.odd \subseteq um.odd \union {"openraced", "twice"}
          /\ IF ~um.alive \/ ~um.present THEN "openraced" \in um'.odd ELSE "openraced" \in um'.odd => "openraced" \in um.odd
          /\ UNCHANGED <<um.kind, um.present, um.alive, um.bufs, um.rx, um.tx, um.exc, um.rm, um.probes,
                           um.ops, um.asserts>>
      BY <1>0, <2>1 DEF UcomOdd, UcomFields
    <3>4. UcomFields' BY <1>0, <2>1, <3>1, <3>2, <3>3 DEF UcomFields
    <3>5. UcomTypeOK'
      BY <1>0, <2>1, <3>1, <3>2, <3>3, <1>f, FilesFinite DEF UcomFields, FilesCounted, Kinds
    <3>6. FilesCounted'
      BY <1>0, <2>1, <3>1, <3>2, <3>3, <1>f, FilesFinite DEF FilesCounted, DeviceThere
    <3>7. DeviceThere'
      BY <1>0, <2>1, <3>1, <3>2, <3>3, <1>f, FilesFinite DEF DeviceThere, FilesCounted, Torn
    <3>8. NoFileOfBoot' BY <1>0, <2>1, <3>1, <3>2, <3>3 DEF NoFileOfBoot
    <3>9. OneReads'
      BY <1>0, <2>1, <3>1, <3>2, <3>3 DEF OneReads, FilesCounted, DeviceThere, Torn, Holding
    <3>10. HeldIsOpen'
      BY <1>0, <2>1, <3>1, <3>2, <3>3 DEF HeldIsOpen, Holds, FilesCounted, DeviceThere, Torn, Holding
    <3> QED BY <3>4, <3>5, <3>6, <3>7, <3>8, <3>9, <3>10 DEF UcomInv
  <2>2. ASSUME NEW f \in Files, ux[f] = "found", um' = um, ux' = [ux EXCEPT ![f] = "away"] PROVE UcomInv'
    <3>1. /\ ux[f] = "found" /\ Cardinality(Holders') = Cardinality(Holders) /\ Cardinality(Seekers') = Cardinality(Seekers) - 1
          /\ Holders' = Holders \ {f} /\ f \notin Holders
          /\ \A g \in Files : ux'[g] = IF g = f THEN "away" ELSE ux[g]
          /\ ux' \in [Files -> {"away", "found", "counted", "held", "read", "write"}]
      <4>1. DOMAIN ux = Files BY <1>0
      <4>2. ux[f] = "found" /\ ux' = [ux EXCEPT ![f] = "away"] BY <2>2
      <4>3. ux' \in [Files -> {"away", "found", "counted", "held", "read", "write"}] BY <1>0, <4>2
      <4> QED BY <4>1, <4>2, <4>3, FileGivesUp
    <3>2. /\ DOMAIN um' = DOMAIN um /\ um'.odd = um.odd
          /\ UNCHANGED <<um.kind, um.present, um.alive, um.bufs, um.open, um.port, um.rx, um.tx, um.exc,
                           um.rm, um.probes, um.ops, um.asserts>>
      BY <1>0, <2>2 DEF UcomOdd, UcomFields
    <3>3. UcomFields' BY <1>0, <2>2, <3>1, <3>2 DEF UcomFields
    <3>4. UcomTypeOK' BY <1>0, <2>2, <3>1, <3>2, <1>f, FilesFinite DEF UcomFields, FilesCounted, Kinds
    <3>5. FilesCounted' BY <1>0, <2>2, <3>1, <3>2, <1>f, FilesFinite DEF FilesCounted, DeviceThere
    <3>6. DeviceThere'
      BY <1>0, <2>2, <3>1, <3>2, <1>f, FilesFinite DEF DeviceThere, FilesCounted, Torn
    <3>7. NoFileOfBoot' BY <1>0, <2>2, <3>1, <3>2 DEF NoFileOfBoot
    <3>8. OneReads' BY <1>0, <2>2, <3>1, <3>2 DEF OneReads, FilesCounted, DeviceThere, Torn, Holding
    <3>9. HeldIsOpen'
      BY <1>0, <2>2, <3>1, <3>2 DEF HeldIsOpen, Holds, FilesCounted, DeviceThere, Torn, Holding
    <3> QED BY <3>3, <3>4, <3>5, <3>6, <3>7, <3>8, <3>9 DEF UcomInv
  <2> QED BY <1>0, <1>6, <2>1, <2>2 DEF BootStarted
<1>7. CASE ucom_release
  <2>1. ASSUME NEW f \in Files, ux[f] = "held", ux' = [ux EXCEPT ![f] = "away"], um' = Released(um, \E g \in Files \ {f} : Holds(g) \/ ux[g] = "counted"), um.present, um.open > 0 PROVE UcomInv'
    <3>1. /\ ux[f] = "held" /\ Cardinality(Holders') = Cardinality(Holders) - 1 /\ Cardinality(Seekers') = Cardinality(Seekers)
          /\ Holders' = Holders \ {f} /\ f \in Holders
          /\ \A g \in Files : ux'[g] = IF g = f THEN "away" ELSE ux[g]
          /\ ux' \in [Files -> {"away", "found", "counted", "held", "read", "write"}]
      <4>1. DOMAIN ux = Files BY <1>0
      <4>2. ux[f] = "held" /\ ux' = [ux EXCEPT ![f] = "away"] BY <2>1
      <4>3. ux' \in [Files -> {"away", "found", "counted", "held", "read", "write"}] BY <1>0, <4>2
      <4>4. "held" \in Holding BY DEF Holding
      <4> QED BY <4>1, <4>2, <4>3, <4>4, FileLeaves
    <3>2. /\ DOMAIN um' = DOMAIN um
          /\ um'.open = um.open - 1 /\ um'.port \in BOOLEAN /\ (um'.port => um.port)
          /\ um.odd \subseteq um'.odd /\ um'.odd \subseteq um.odd \union {"closed"} /\ um.present /\ um.open > 0
          /\ um'.port \/ ~um.port \/ "closed" \in um'.odd \/ \A g \in Files \ {f} : ~Holds(g)
          /\ UNCHANGED <<um.kind, um.present, um.alive, um.bufs, um.rx, um.tx, um.exc, um.rm, um.probes,
                           um.ops, um.asserts>>
      BY <1>0, <2>1 DEF Released, UcomOdd, UcomFields
    <3>3. UcomFields' BY <1>0, <3>1, <3>2 DEF UcomFields
    <3>4. UcomTypeOK' BY <1>0, <3>1, <3>2, <1>f, FilesFinite DEF UcomFields, FilesCounted, Kinds
    <3>5. FilesCounted' BY <1>0, <3>1, <3>2, <1>f, FilesFinite DEF FilesCounted, DeviceThere
    <3>6. DeviceThere' BY <1>0, <3>1, <3>2, <1>f, FilesFinite DEF DeviceThere, FilesCounted, Torn
    <3>7. NoFileOfBoot' BY <1>0, <3>1, <3>2 DEF NoFileOfBoot
    <3>8. OneReads' BY <1>0, <3>1, <3>2 DEF OneReads, FilesCounted, DeviceThere, Torn, Holding
    <3>9. HeldIsOpen'
      BY <1>0, <3>1, <3>2 DEF HeldIsOpen, Holds, FilesCounted, DeviceThere, Torn, Holding
    <3> QED BY <3>3, <3>4, <3>5, <3>6, <3>7, <3>8, <3>9 DEF UcomInv
  <2>2. ASSUME NEW f \in Files, ux[f] = "held", ux' = [ux EXCEPT ![f] = "away"], um' = um, ~(um.present /\ um.open > 0) PROVE UcomInv'
    <3>1. /\ ux[f] = "held" /\ Cardinality(Holders') = Cardinality(Holders) - 1 /\ Cardinality(Seekers') = Cardinality(Seekers)
          /\ Holders' = Holders \ {f} /\ f \in Holders
          /\ \A g \in Files : ux'[g] = IF g = f THEN "away" ELSE ux[g]
          /\ ux' \in [Files -> {"away", "found", "counted", "held", "read", "write"}]
      <4>1. DOMAIN ux = Files BY <1>0
      <4>2. ux[f] = "held" /\ ux' = [ux EXCEPT ![f] = "away"] BY <2>2
      <4>3. ux' \in [Files -> {"away", "found", "counted", "held", "read", "write"}] BY <1>0, <4>2
      <4>4. "held" \in Holding BY DEF Holding
      <4> QED BY <4>1, <4>2, <4>3, <4>4, FileLeaves
    <3>2. /\ DOMAIN um' = DOMAIN um /\ um'.odd = um.odd
          /\ ~(um.present /\ um.open > 0)
          /\ UNCHANGED <<um.kind, um.present, um.alive, um.bufs, um.open, um.port, um.rx, um.tx, um.exc,
                           um.rm, um.probes, um.ops, um.asserts>>
      BY <1>0, <2>2 DEF UcomOdd, UcomFields
    <3>3. UcomFields' BY <1>0, <2>2, <3>1, <3>2 DEF UcomFields
    <3>4. UcomTypeOK' BY <1>0, <2>2, <3>1, <3>2, <1>f, FilesFinite DEF UcomFields, FilesCounted, Kinds
    <3>5. FilesCounted' BY <1>0, <2>2, <3>1, <3>2, <1>f, FilesFinite DEF FilesCounted, DeviceThere
    <3>6. DeviceThere'
      BY <1>0, <2>2, <3>1, <3>2, <1>f, FilesFinite DEF DeviceThere, FilesCounted, Torn
    <3>7. NoFileOfBoot' BY <1>0, <2>2, <3>1, <3>2 DEF NoFileOfBoot
    <3>8. OneReads' BY <1>0, <2>2, <3>1, <3>2 DEF OneReads, FilesCounted, DeviceThere, Torn, Holding
    <3>9. HeldIsOpen'
      BY <1>0, <2>2, <3>1, <3>2 DEF HeldIsOpen, Holds, FilesCounted, DeviceThere, Torn, Holding
    <3> QED BY <3>3, <3>4, <3>5, <3>6, <3>7, <3>8, <3>9 DEF UcomInv
  <2> QED BY <1>0, <1>7, <2>1, <2>2 DEF ucom_release
<1>8. CASE user_boot_release
  <2>1. ASSUME NEW f \in Files, ux[f] = "held", ux' = [ux EXCEPT ![f] = "away"], um' = [UcomOdd(um, um.open > 1, "closed") EXCEPT !.port = @ /\ um.exc, !.open = IF @ > 0 THEN @ - 1 ELSE 0] PROVE UcomInv'
    <3>1. /\ ux[f] = "held" /\ Cardinality(Holders') = Cardinality(Holders) - 1 /\ Cardinality(Seekers') = Cardinality(Seekers)
          /\ Holders' = Holders \ {f} /\ f \in Holders
          /\ \A g \in Files : ux'[g] = IF g = f THEN "away" ELSE ux[g]
          /\ ux' \in [Files -> {"away", "found", "counted", "held", "read", "write"}]
      <4>1. DOMAIN ux = Files BY <1>0
      <4>2. ux[f] = "held" /\ ux' = [ux EXCEPT ![f] = "away"] BY <2>1
      <4>3. ux' \in [Files -> {"away", "found", "counted", "held", "read", "write"}] BY <1>0, <4>2
      <4>4. "held" \in Holding BY DEF Holding
      <4> QED BY <4>1, <4>2, <4>3, <4>4, FileLeaves
    <3>2. /\ DOMAIN um' = DOMAIN um
          /\ um'.open = (IF um.open > 0 THEN um.open - 1 ELSE 0) /\ um'.port \in BOOLEAN
          /\ um.odd \subseteq um'.odd /\ um'.odd \subseteq um.odd \union {"closed"} /\ (um.open > 1 => "closed" \in um'.odd)
          /\ UNCHANGED <<um.kind, um.present, um.alive, um.bufs, um.rx, um.tx, um.exc, um.rm, um.probes,
                           um.ops, um.asserts>>
      BY <1>0, <2>1 DEF UcomOdd, UcomFields
    <3>3. um.present => (um.open <= 1 => \A g \in Files : ux[g] \in Holding => g = f)
      <4>1. SUFFICES ASSUME um.present, um.open <= 1, NEW g \in Files, ux[g] \in Holding PROVE g = f
        OBVIOUS
      <4>2. {f, g} \subseteq Holders /\ IsFiniteSet(Holders)
        BY <3>1, <4>1, UcomAssumption, FS_Subset DEF Holders
      <4>3. Cardinality(Holders) <= 1 /\ Cardinality(Holders) \in Nat /\ Cardinality(Holders) # 0
        BY <1>0, <3>1, <4>1, FilesFinite DEF FilesCounted
      <4>4. Cardinality(Holders) = 1 BY <4>3
      <4> QED BY <4>2, <4>4, FS_Singleton
    <3>4. UcomFields' BY <1>0, <2>1, <3>1, <3>2, <3>3 DEF UcomFields
    <3>5. UcomTypeOK'
      BY <1>0, <2>1, <3>1, <3>2, <3>3, <1>f, FilesFinite DEF UcomFields, FilesCounted, Kinds
    <3>6. FilesCounted'
      BY <1>0, <2>1, <3>1, <3>2, <3>3, <1>f, FilesFinite DEF FilesCounted, DeviceThere
    <3>7. DeviceThere'
      BY <1>0, <2>1, <3>1, <3>2, <3>3, <1>f, FilesFinite DEF DeviceThere, FilesCounted, Torn
    <3>8. NoFileOfBoot' BY <1>0, <2>1, <3>1, <3>2, <3>3 DEF NoFileOfBoot
    <3>9. OneReads'
      BY <1>0, <2>1, <3>1, <3>2, <3>3 DEF OneReads, FilesCounted, DeviceThere, Torn, Holding
    <3>10. HeldIsOpen'
      BY <1>0, <2>1, <3>1, <3>2, <3>3 DEF HeldIsOpen, Holds, FilesCounted, DeviceThere, Torn, Holding
    <3> QED BY <3>4, <3>5, <3>6, <3>7, <3>8, <3>9, <3>10 DEF UcomInv
  <2> QED BY <1>0, <1>8, <2>1 DEF user_boot_release
<1>9. CASE ucom_read
  <2>1. ASSUME NEW f \in Files, ux[f] = "held", ux' = [ux EXCEPT ![f] = "read"] PROVE UcomInv'
    <3>1. /\ ux[f] = "held" /\ Cardinality(Holders') = Cardinality(Holders) /\ Cardinality(Seekers') = Cardinality(Seekers)
          /\ Holders' = Holders \union {f} /\ f \in Holders
          /\ \A g \in Files : ux'[g] = IF g = f THEN "read" ELSE ux[g]
          /\ ux' \in [Files -> {"away", "found", "counted", "held", "read", "write"}]
      <4>1. DOMAIN ux = Files BY <1>0
      <4>2. ux[f] = "held" /\ ux' = [ux EXCEPT ![f] = "read"] BY <2>1
      <4>3. ux' \in [Files -> {"away", "found", "counted", "held", "read", "write"}] BY <1>0, <4>2
      <4>4. "held" \in Holding /\ "read" \in Holding BY DEF Holding
      <4> QED BY <4>1, <4>2, <4>3, <4>4, FileKeeps
    <3>2. /\ DOMAIN um' = DOMAIN um /\ um'.odd = um.odd
          /\ um'.rx \in BOOLEAN /\ um'.rx
          /\ ~um.rx /\ um.kind # "BTBOOT"
          /\ UNCHANGED <<um.kind, um.present, um.alive, um.bufs, um.open, um.port, um.tx, um.exc, um.rm,
                           um.probes, um.ops, um.asserts>>
      BY <1>0, <1>9, <2>1 DEF ucom_read, UcomFields
    <3>3. UcomFields' BY <1>0, <2>1, <3>1, <3>2 DEF UcomFields
    <3>4. UcomTypeOK' BY <1>0, <2>1, <3>1, <3>2, <1>f, FilesFinite DEF UcomFields, FilesCounted, Kinds
    <3>5. FilesCounted' BY <1>0, <2>1, <3>1, <3>2, <1>f, FilesFinite DEF FilesCounted, DeviceThere
    <3>6. DeviceThere'
      BY <1>0, <2>1, <3>1, <3>2, <1>f, FilesFinite DEF DeviceThere, FilesCounted, Torn
    <3>7. NoFileOfBoot' BY <1>0, <2>1, <3>1, <3>2 DEF NoFileOfBoot
    <3>8. OneReads' BY <1>0, <2>1, <3>1, <3>2 DEF OneReads, FilesCounted, DeviceThere, Torn, Holding
    <3>9. HeldIsOpen'
      BY <1>0, <2>1, <3>1, <3>2 DEF HeldIsOpen, Holds, FilesCounted, DeviceThere, Torn, Holding
    <3> QED BY <3>3, <3>4, <3>5, <3>6, <3>7, <3>8, <3>9 DEF UcomInv
  <2> QED BY <1>0, <1>9, <2>1 DEF ucom_read
<1>10. CASE ReadReturns
  <2>1. ASSUME NEW f \in Files, ux[f] = "read", ux' = [ux EXCEPT ![f] = "held"] PROVE UcomInv'
    <3>1. /\ ux[f] = "read" /\ Cardinality(Holders') = Cardinality(Holders) /\ Cardinality(Seekers') = Cardinality(Seekers)
          /\ Holders' = Holders \union {f} /\ f \in Holders
          /\ \A g \in Files : ux'[g] = IF g = f THEN "held" ELSE ux[g]
          /\ ux' \in [Files -> {"away", "found", "counted", "held", "read", "write"}]
      <4>1. DOMAIN ux = Files BY <1>0
      <4>2. ux[f] = "read" /\ ux' = [ux EXCEPT ![f] = "held"] BY <2>1
      <4>3. ux' \in [Files -> {"away", "found", "counted", "held", "read", "write"}] BY <1>0, <4>2
      <4>4. "read" \in Holding /\ "held" \in Holding BY DEF Holding
      <4> QED BY <4>1, <4>2, <4>3, <4>4, FileKeeps
    <3>2. /\ DOMAIN um' = DOMAIN um /\ um'.odd = um.odd
          /\ um'.rx \in BOOLEAN /\ ~um'.rx
          /\ UNCHANGED <<um.kind, um.present, um.alive, um.bufs, um.open, um.port, um.tx, um.exc, um.rm,
                           um.probes, um.ops, um.asserts>>
      BY <1>0, <1>10, <2>1 DEF ReadReturns, UcomFields
    <3>3. UcomFields' BY <1>0, <2>1, <3>1, <3>2 DEF UcomFields
    <3>4. UcomTypeOK' BY <1>0, <2>1, <3>1, <3>2, <1>f, FilesFinite DEF UcomFields, FilesCounted, Kinds
    <3>5. FilesCounted' BY <1>0, <2>1, <3>1, <3>2, <1>f, FilesFinite DEF FilesCounted, DeviceThere
    <3>6. DeviceThere'
      BY <1>0, <2>1, <3>1, <3>2, <1>f, FilesFinite DEF DeviceThere, FilesCounted, Torn
    <3>7. NoFileOfBoot' BY <1>0, <2>1, <3>1, <3>2 DEF NoFileOfBoot
    <3>8. OneReads' BY <1>0, <2>1, <3>1, <3>2 DEF OneReads, FilesCounted, DeviceThere, Torn, Holding
    <3>9. HeldIsOpen'
      BY <1>0, <2>1, <3>1, <3>2 DEF HeldIsOpen, Holds, FilesCounted, DeviceThere, Torn, Holding
    <3> QED BY <3>3, <3>4, <3>5, <3>6, <3>7, <3>8, <3>9 DEF UcomInv
  <2> QED BY <1>0, <1>10, <2>1 DEF ReadReturns
<1>11. CASE ucom_write
  <2>1. ASSUME NEW f \in Files, ux[f] = "held", ux' = [ux EXCEPT ![f] = "write"] PROVE UcomInv'
    <3>1. /\ ux[f] = "held" /\ Cardinality(Holders') = Cardinality(Holders) /\ Cardinality(Seekers') = Cardinality(Seekers)
          /\ Holders' = Holders \union {f} /\ f \in Holders
          /\ \A g \in Files : ux'[g] = IF g = f THEN "write" ELSE ux[g]
          /\ ux' \in [Files -> {"away", "found", "counted", "held", "read", "write"}]
      <4>1. DOMAIN ux = Files BY <1>0
      <4>2. ux[f] = "held" /\ ux' = [ux EXCEPT ![f] = "write"] BY <2>1
      <4>3. ux' \in [Files -> {"away", "found", "counted", "held", "read", "write"}] BY <1>0, <4>2
      <4>4. "held" \in Holding /\ "write" \in Holding BY DEF Holding
      <4> QED BY <4>1, <4>2, <4>3, <4>4, FileKeeps
    <3>2. /\ DOMAIN um' = DOMAIN um /\ um'.odd = um.odd
          /\ um'.tx \in BOOLEAN /\ um'.tx
          /\ um.kind # "BTBOOT"
          /\ UNCHANGED <<um.kind, um.present, um.alive, um.bufs, um.open, um.port, um.rx, um.exc, um.rm,
                           um.probes, um.ops, um.asserts>>
      BY <1>0, <1>11, <2>1 DEF ucom_write, UcomFields
    <3>3. UcomFields' BY <1>0, <2>1, <3>1, <3>2 DEF UcomFields
    <3>4. UcomTypeOK' BY <1>0, <2>1, <3>1, <3>2, <1>f, FilesFinite DEF UcomFields, FilesCounted, Kinds
    <3>5. FilesCounted' BY <1>0, <2>1, <3>1, <3>2, <1>f, FilesFinite DEF FilesCounted, DeviceThere
    <3>6. DeviceThere'
      BY <1>0, <2>1, <3>1, <3>2, <1>f, FilesFinite DEF DeviceThere, FilesCounted, Torn
    <3>7. NoFileOfBoot' BY <1>0, <2>1, <3>1, <3>2 DEF NoFileOfBoot
    <3>8. OneReads' BY <1>0, <2>1, <3>1, <3>2 DEF OneReads, FilesCounted, DeviceThere, Torn, Holding
    <3>9. HeldIsOpen'
      BY <1>0, <2>1, <3>1, <3>2 DEF HeldIsOpen, Holds, FilesCounted, DeviceThere, Torn, Holding
    <3> QED BY <3>3, <3>4, <3>5, <3>6, <3>7, <3>8, <3>9 DEF UcomInv
  <2> QED BY <1>0, <1>11, <2>1 DEF ucom_write
<1>12. CASE WriteReturns
  <2>1. ASSUME NEW f \in Files, ux[f] = "write", ux' = [ux EXCEPT ![f] = "held"] PROVE UcomInv'
    <3>1. /\ ux[f] = "write" /\ Cardinality(Holders') = Cardinality(Holders) /\ Cardinality(Seekers') = Cardinality(Seekers)
          /\ Holders' = Holders \union {f} /\ f \in Holders
          /\ \A g \in Files : ux'[g] = IF g = f THEN "held" ELSE ux[g]
          /\ ux' \in [Files -> {"away", "found", "counted", "held", "read", "write"}]
      <4>1. DOMAIN ux = Files BY <1>0
      <4>2. ux[f] = "write" /\ ux' = [ux EXCEPT ![f] = "held"] BY <2>1
      <4>3. ux' \in [Files -> {"away", "found", "counted", "held", "read", "write"}] BY <1>0, <4>2
      <4>4. "write" \in Holding /\ "held" \in Holding BY DEF Holding
      <4> QED BY <4>1, <4>2, <4>3, <4>4, FileKeeps
    <3>2. /\ DOMAIN um' = DOMAIN um /\ um'.odd = um.odd
          /\ um'.tx \in BOOLEAN /\ ~um'.tx
          /\ UNCHANGED <<um.kind, um.present, um.alive, um.bufs, um.open, um.port, um.rx, um.exc, um.rm,
                           um.probes, um.ops, um.asserts>>
      BY <1>0, <1>12, <2>1 DEF WriteReturns, UcomFields
    <3>3. UcomFields' BY <1>0, <2>1, <3>1, <3>2 DEF UcomFields
    <3>4. UcomTypeOK' BY <1>0, <2>1, <3>1, <3>2, <1>f, FilesFinite DEF UcomFields, FilesCounted, Kinds
    <3>5. FilesCounted' BY <1>0, <2>1, <3>1, <3>2, <1>f, FilesFinite DEF FilesCounted, DeviceThere
    <3>6. DeviceThere'
      BY <1>0, <2>1, <3>1, <3>2, <1>f, FilesFinite DEF DeviceThere, FilesCounted, Torn
    <3>7. NoFileOfBoot' BY <1>0, <2>1, <3>1, <3>2 DEF NoFileOfBoot
    <3>8. OneReads' BY <1>0, <2>1, <3>1, <3>2 DEF OneReads, FilesCounted, DeviceThere, Torn, Holding
    <3>9. HeldIsOpen'
      BY <1>0, <2>1, <3>1, <3>2 DEF HeldIsOpen, Holds, FilesCounted, DeviceThere, Torn, Holding
    <3> QED BY <3>3, <3>4, <3>5, <3>6, <3>7, <3>8, <3>9 DEF UcomInv
  <2> QED BY <1>0, <1>12, <2>1 DEF WriteReturns
<1>13. CASE ucom_ioctl
  <2>1. ux' = ux /\ Holders' = Holders /\ Seekers' = Seekers BY <1>13 DEF ucom_ioctl, Holders, Seekers
  <2>2. /\ DOMAIN um' = DOMAIN um
        /\ um'.port \in BOOLEAN /\ um.odd \subseteq um'.odd /\ um'.odd \subseteq um.odd \union {"closed"} /\ "closed" \in um'.odd
        /\ UNCHANGED <<um.kind, um.present, um.alive, um.bufs, um.open, um.rx, um.tx, um.exc, um.rm,
                         um.probes, um.ops, um.asserts>>
    BY <1>0, <1>13 DEF ucom_ioctl, UcomOdd, UcomFields
  <2>3. UcomFields' BY <1>0, <2>1, <2>2 DEF UcomFields
  <2>4. UcomTypeOK' BY <1>0, <2>1, <2>2, <1>f, FilesFinite DEF UcomFields, FilesCounted, Kinds
  <2>5. FilesCounted' BY <1>0, <2>1, <2>2, <1>f, FilesFinite DEF FilesCounted, DeviceThere
  <2>6. DeviceThere' BY <1>0, <2>1, <2>2, <1>f, FilesFinite DEF DeviceThere, FilesCounted, Torn
  <2>7. NoFileOfBoot' BY <1>0, <2>1, <2>2 DEF NoFileOfBoot
  <2>8. OneReads' BY <1>0, <2>1, <2>2 DEF OneReads, FilesCounted, DeviceThere, Torn, Holding
  <2>9. HeldIsOpen'
    BY <1>0, <2>1, <2>2 DEF HeldIsOpen, Holds, FilesCounted, DeviceThere, Torn, Holding
  <2> QED BY <2>3, <2>4, <2>5, <2>6, <2>7, <2>8, <2>9 DEF UcomInv
<1>14. CASE ModemAsserts
  <2>1. ux' = ux /\ Holders' = Holders /\ Seekers' = Seekers
    BY <1>14 DEF ModemAsserts, Holders, Seekers
  <2>2. /\ DOMAIN um' = DOMAIN um /\ um'.odd = um.odd
        /\ um'.exc \in BOOLEAN
        /\ UNCHANGED <<um.kind, um.present, um.alive, um.bufs, um.open, um.port, um.rx, um.tx, um.rm,
                         um.probes, um.ops>>
    BY <1>0, <1>14 DEF ModemAsserts, UcomFields
  <2>3. UcomFields' BY <1>0, <2>1, <2>2 DEF UcomFields
  <2>4. UcomTypeOK' BY <1>0, <2>1, <2>2, <1>f, FilesFinite DEF UcomFields, FilesCounted, Kinds
  <2>5. FilesCounted' BY <1>0, <2>1, <2>2, <1>f, FilesFinite DEF FilesCounted, DeviceThere
  <2>6. DeviceThere' BY <1>0, <2>1, <2>2, <1>f, FilesFinite DEF DeviceThere, FilesCounted, Torn
  <2>7. NoFileOfBoot' BY <1>0, <2>1, <2>2 DEF NoFileOfBoot
  <2>8. OneReads' BY <1>0, <2>1, <2>2 DEF OneReads, FilesCounted, DeviceThere, Torn, Holding
  <2>9. HeldIsOpen'
    BY <1>0, <2>1, <2>2 DEF HeldIsOpen, Holds, FilesCounted, DeviceThere, Torn, Holding
  <2> QED BY <2>3, <2>4, <2>5, <2>6, <2>7, <2>8, <2>9 DEF UcomInv
<1>15. CASE ModemReturns
  <2>1. ux' = ux /\ Holders' = Holders /\ Seekers' = Seekers
    BY <1>15 DEF ModemReturns, Holders, Seekers
  <2>2. /\ DOMAIN um' = DOMAIN um /\ um'.odd = um.odd
        /\ um'.exc \in BOOLEAN
        /\ UNCHANGED <<um.kind, um.present, um.alive, um.bufs, um.open, um.port, um.rx, um.tx, um.rm,
                         um.probes, um.ops, um.asserts>>
    BY <1>0, <1>15 DEF ModemReturns, UcomFields
  <2>3. UcomFields' BY <1>0, <2>1, <2>2 DEF UcomFields
  <2>4. UcomTypeOK' BY <1>0, <2>1, <2>2, <1>f, FilesFinite DEF UcomFields, FilesCounted, Kinds
  <2>5. FilesCounted' BY <1>0, <2>1, <2>2, <1>f, FilesFinite DEF FilesCounted, DeviceThere
  <2>6. DeviceThere' BY <1>0, <2>1, <2>2, <1>f, FilesFinite DEF DeviceThere, FilesCounted, Torn
  <2>7. NoFileOfBoot' BY <1>0, <2>1, <2>2 DEF NoFileOfBoot
  <2>8. OneReads' BY <1>0, <2>1, <2>2 DEF OneReads, FilesCounted, DeviceThere, Torn, Holding
  <2>9. HeldIsOpen'
    BY <1>0, <2>1, <2>2 DEF HeldIsOpen, Holds, FilesCounted, DeviceThere, Torn, Holding
  <2> QED BY <2>3, <2>4, <2>5, <2>6, <2>7, <2>8, <2>9 DEF UcomInv
<1>16. CASE skw_ucom_remove
  <2>1. ux' = ux /\ Holders' = Holders /\ Seekers' = Seekers
    BY <1>16 DEF skw_ucom_remove, Holders, Seekers
  <2>2. /\ DOMAIN um' = DOMAIN um /\ um'.odd = um.odd \union {"removing"}
        /\ um.present /\ um'.rm = "wait" /\ um'.port \in BOOLEAN /\ "removing" \in um'.odd
        /\ UNCHANGED <<um.kind, um.present, um.alive, um.bufs, um.open, um.rx, um.tx, um.exc, um.probes,
                         um.ops, um.asserts>>
    BY <1>0, <1>16 DEF skw_ucom_remove, UcomFields
  <2>3. UcomFields' BY <1>0, <2>1, <2>2 DEF UcomFields
  <2>4. UcomTypeOK' BY <1>0, <2>1, <2>2, <1>f, FilesFinite DEF UcomFields, FilesCounted, Kinds
  <2>5. FilesCounted' BY <1>0, <2>1, <2>2, <1>f, FilesFinite DEF FilesCounted, DeviceThere
  <2>6. DeviceThere' BY <1>0, <2>1, <2>2, <1>f, FilesFinite DEF DeviceThere, FilesCounted, Torn
  <2>7. NoFileOfBoot' BY <1>0, <2>1, <2>2 DEF NoFileOfBoot
  <2>8. OneReads' BY <1>0, <2>1, <2>2 DEF OneReads, FilesCounted, DeviceThere, Torn, Holding
  <2>9. HeldIsOpen'
    BY <1>0, <2>1, <2>2 DEF HeldIsOpen, Holds, FilesCounted, DeviceThere, Torn, Holding
  <2> QED BY <2>3, <2>4, <2>5, <2>6, <2>7, <2>8, <2>9 DEF UcomInv
<1>17. CASE RemoveEnds
  <2>1. ux' = ux /\ Holders' = Holders /\ Seekers' = Seekers BY <1>17 DEF RemoveEnds, Holders, Seekers
  <2>2. /\ DOMAIN um' = DOMAIN um
        /\ um.present /\ um'.rm = "no" /\ "removing" \in um'.odd /\ um'.open = 0
        /\ um'.present \in BOOLEAN /\ ~um'.present /\ um'.alive \in BOOLEAN /\ um'.bufs \in BOOLEAN
        /\ um.odd \subseteq um'.odd /\ um'.odd \subseteq um.odd \union {"impatient"} /\ (um.open > 0 => "impatient" \in um'.odd)
        /\ UNCHANGED <<um.kind, um.port, um.rx, um.tx, um.exc, um.probes, um.ops, um.asserts>>
    BY <1>0, <1>17 DEF RemoveEnds, UcomOdd, DeviceThere, UcomFields
  <2>3. UcomFields' BY <1>0, <2>1, <2>2 DEF UcomFields
  <2>4. UcomTypeOK' BY <1>0, <2>1, <2>2, <1>f, FilesFinite DEF UcomFields, FilesCounted, Kinds
  <2>5. FilesCounted' BY <1>0, <2>1, <2>2, <1>f, FilesFinite DEF FilesCounted, DeviceThere
  <2>6. DeviceThere' BY <1>0, <2>1, <2>2, <1>f, FilesFinite DEF DeviceThere, FilesCounted, Torn
  <2>7. NoFileOfBoot' BY <1>0, <2>1, <2>2 DEF NoFileOfBoot
  <2>8. OneReads' BY <1>0, <2>1, <2>2 DEF OneReads, FilesCounted, DeviceThere, Torn, Holding
  <2>9. HeldIsOpen'
    BY <1>0, <2>1, <2>2 DEF HeldIsOpen, Holds, FilesCounted, DeviceThere, Torn, Holding
  <2> QED BY <2>3, <2>4, <2>5, <2>6, <2>7, <2>8, <2>9 DEF UcomInv
<1>18. CASE UNCHANGED ucomVars
  <2>1. UNCHANGED um /\ UNCHANGED ux BY <1>18 DEF ucomVars
  <2>2. Holders' = Holders /\ Seekers' = Seekers /\ (Torn' <=> Torn)
    BY <2>1 DEF Holders, Seekers, Torn
  <2> QED
    BY <1>0, <2>1, <2>2 DEF UcomInv, UcomFields, FilesCounted, DeviceThere, NoFileOfBoot, OneReads, HeldIsOpen,
       Holds
<1> QED BY <1>1, <1>2, <1>3, <1>4, <1>5, <1>6, <1>7, <1>8, <1>9, <1>10, <1>11, <1>12, <1>13, <1>14,
     <1>15, <1>16, <1>17, <1>18 DEF UcomNext

\* The initial state has it.
LEMMA UcomBegin ==
    ASSUME UcomInit
    PROVE  UcomInv
<1>1. /\ UcomFields /\ um.kind \in Kinds /\ {um.present, um.alive, um.bufs, um.port, um.rx, um.tx, um.exc} \subseteq BOOLEAN
      /\ ~um.present /\ um.open = 0 /\ um.rm = "no" /\ um.probes = 0 /\ um.odd = {}
  BY DEF UcomInit, UcomFields
<1>2. /\ ux \in [Files -> {"away", "found", "counted", "held", "read", "write"}]
      /\ \A f \in Files : ux[f] = "away"
  BY DEF UcomInit
<1>3. Holders = {} /\ Seekers = {} BY <1>2 DEF Holders, Seekers, Holding
<1>4. Cardinality(Seekers) = 0 /\ Cardinality(Files) \in Nat /\ MaxProbes \in Nat
  BY <1>3, FS_EmptySet, FilesFinite, UcomAssumption
<1>5. UcomTypeOK BY <1>1, <1>2, <1>4 DEF UcomTypeOK
<1>6. FilesCounted /\ DeviceThere /\ NoFileOfBoot /\ OneReads /\ HeldIsOpen
  BY <1>1, <1>2, <1>3, <1>4 DEF FilesCounted, DeviceThere, NoFileOfBoot, OneReads, HeldIsOpen, Holds
<1> QED BY <1>1, <1>5, <1>6 DEF UcomInv

\* It implies what the run checks.
LEMMA UcomHolds ==
    ASSUME UcomInv
    PROVE  UcomTypeOK /\ UcomHeld
<1>0. UcomTypeOK /\ FilesCounted /\ DeviceThere /\ NoFileOfBoot /\ OneReads /\ HeldIsOpen
  BY DEF UcomInv
<1>1. Holders = {f \in Files : Holds(f) \/ ux[f] = "counted"} BY DEF Holders, Holding, Holds
<1>2. um.present => um.open = Cardinality({f \in Files : Holds(f) \/ ux[f] = "counted"})
  BY <1>0, <1>1 DEF FilesCounted
<1>3. ASSUME NEW f \in Files PROVE (Busy(f) /\ ~Torn => um.bufs) /\ (Holds(f) /\ ~Torn => um.alive)
  <2>1. Busy(f) => Holds(f) /\ um.kind # "BTBOOT" BY <1>0 DEF Busy, Holds, NoFileOfBoot
  <2>2. Holds(f) => f \in Holders BY DEF Holds, Holders, Holding
  <2> QED BY <1>0, <2>1, <2>2 DEF DeviceThere
<1>4. um.odd \ {"removing"} = {} => Cardinality({f \in Files : ux[f] = "read"}) <= 1
  <2> DEFINE R == {f \in Files : ux[f] = "read"}
  <2>1. SUFFICES ASSUME um.odd \subseteq {"removing"} PROVE Cardinality(R) <= 1 OBVIOUS
  <2>2. CASE R = {} BY <2>2, FS_EmptySet
  <2>3. CASE R # {}
    <3>1. PICK f \in Files : f \in R BY <2>3
    <3>2. R = {f} BY <1>0, <2>1, <3>1 DEF OneReads
    <3> QED BY <3>2, FS_Singleton
  <2> QED BY <2>2, <2>3
<1>5. (\E f \in Files : Holds(f)) /\ um.odd = {} => um.port BY <1>0 DEF HeldIsOpen
<1> QED BY <1>0, <1>2, <1>3, <1>4, <1>5 DEF UcomHeld, Torn

\* A character device stays while a file has it: its count is the number of
\* its holders, a transfer has its buffer, one reads at a time and what is
\* held is open, but for the sequences of calls that are named
\* (skwutil/skw_user_com.c).
THEOREM HeldDeviceStays == UcomSpec => []UcomHeld
  BY UcomBegin, UcomStep, UcomHolds, PTL DEF UcomSpec

-----------------------------------------------------------------------------
\* The firmware's log in files.

\* The firmware's log in files: a recording is wanted, queued or running
\* between its start and its stop, the log device counts its holders, what
\* is read fits, and an exit ends with an idle work item.
LogFields == {"present", "called", "heard", "dev", "rec", "asrt", "queued", "rx", "tx", "port", "open", "users", "reading", "started",
              "exc", "exit", "want", "leaked", "ops", "odd", "bus", "set", "size", "num"}
LogShape == /\ DOMAIN lf = LogFields /\ DOMAIN lw = {"pc", "len", "errs", "index", "stored", "turns"}
            /\ lf.leaked \in Nat /\ lw.turns \in Nat /\ lf.bus \in {"SDIO", "USB"} /\ lf.reading \in BOOLEAN
SettingsKept == /\ lf.set \in Int \X Int /\ lf.num \in Int
                /\ lf.size = SizeOf(lf.set[1]) /\ lf.num = NumOf(lf.set[1], lf.set[2])
\* The work item has the port.
WorkHas == IF lw.pc \in {"loop", "rx", "write", "end"} THEN 1 ELSE 0
HoldersCounted == /\ lf.open = lf.users + lf.leaked + WorkHas
                  /\ ~lf.present => lf.dev = "none" /\ lf.users = 0
                  /\ lf.exit = "remove" => lf.users = 0
DevAndWork == /\ lf.dev = "none" => lw.pc = "idle" /\ ~lf.queued
              /\ lf.dev # "ok" => ~lf.want
              /\ lf.exit # "no" => lf.dev = "ok" /\ ~lf.heard /\ ~lf.want
              /\ lf.dev = "ok" /\ lf.exit = "no" => lf.heard \/ "deaf" \in lf.odd
Wanted == /\ lf.dev = "ok" /\ lf.want => lf.rec \/ lf.queued \/ lw.pc = "begin" \/ "stuck" \in lf.odd
          /\ lf.rec \/ lf.queued \/ lw.pc = "begin" => lf.want \/ "stopmissed" \in lf.odd
          /\ lf.rec /\ lw.pc \in {"idle", "begin", "end"} => "stuck" \in lf.odd
BufferFits == /\ lw.pc \in {"loop", "rx"} => lw.len + Most(lf.bus) <= Buf
              /\ lw.turns > 0 => lw.index <= lf.num \/ lw.index = 0
LogInv == LogShape /\ LogTypeOK /\ SettingsKept /\ HoldersCounted /\ DevAndWork /\ Wanted /\ BufferFits

\* The fields that a start and a stop leave alone.
StartLeaves == LogFields \ {"asrt", "queued", "want"}
StopLeaves == LogFields \ {"rec", "port", "want", "odd"}

\* A start does nothing, or the recording is wanted and runs or is queued.
LEMMA LogStarts ==
    ASSUME NEW l, DOMAIN l = LogFields, {l.rec, l.asrt, l.queued, l.want} \subseteq BOOLEAN, NEW m, m = skw_modem_log_start_rec(l)
    PROVE  /\ DOMAIN m = LogFields /\ {m.asrt, m.queued, m.want} \subseteq BOOLEAN
           /\ \A x \in StartLeaves : m[x] = l[x]
           /\ \/ m.queued = l.queued /\ m.want = l.want
              \/ l.dev = "ok" /\ m.want /\ (l.rec \/ m.queued) /\ (l.queued => m.queued)
           /\ l.dev # "ok" => m.queued = l.queued /\ m.want = l.want
<1>1. CASE m = l BY <1>1 DEF StartLeaves, LogFields
<1>2. CASE m = [l EXCEPT !.want = TRUE] /\ l.rec /\ l.dev = "ok" BY <1>2 DEF StartLeaves, LogFields
<1>3. CASE m = [l EXCEPT !.asrt = FALSE, !.queued = TRUE, !.want = TRUE] /\ l.dev = "ok"
  BY <1>3 DEF StartLeaves, LogFields
<1> QED BY <1>1, <1>2, <1>3 DEF skw_modem_log_start_rec

\* A stop ends what runs, and is missed by what is about to.
LEMMA LogStops ==
    ASSUME NEW l, DOMAIN l = LogFields, NEW m, m = skw_modem_log_stop_rec(l)
    PROVE  /\ DOMAIN m = LogFields /\ {m.rec, m.port, m.want} \subseteq BOOLEAN /\ ~m.rec /\ ~m.port /\ ~m.want
           /\ \A x \in StopLeaves : m[x] = l[x]
           /\ l.queued \/ lw.pc = "begin" => "stopmissed" \in m.odd
           /\ "deaf" \in l.odd => "deaf" \in m.odd
  BY DEF skw_modem_log_stop_rec, StopLeaves, LogFields

\* What an int holds of a small product.
LEMMA SmallProduct ==
    ASSUME NEW x \in Int, x < 4096
    PROVE  Int32(x) \in Int /\ (Int32(x) <= 2048 => x <= 2048)
<1>1. CASE x >= -4096 BY <1>1 DEF Int32
<1>2. CASE x < -4096 BY <1>2 DEF Int32
<1> QED BY <1>1, <1>2

\* Size and number of the files keep to the limit, unless the product overflows.
LEMMA FilesLimited ==
    ASSUME NEW a \in Int, NEW b \in Int
    PROVE  /\ NumOf(a, b) \in Int
           /\ SizeOf(a) * NumOf(a, b) > 2048 => SizeOf(a) * b >= 4096
<1> DEFINE s == SizeOf(a)
           x == s * b
           n == IF Int32(x) > 2048 THEN 2048 \div s ELSE b
<1>1. s \in 1..400 BY DEF SizeOf
<1>2. NumOf(a, b) = IF n > 99 THEN 99 ELSE n BY DEF NumOf
<1> HIDE DEF s
<1>3. x \in Int /\ 2048 \div s \in Int /\ s * (2048 \div s) <= 2048 BY <1>1
<1>4. n \in Int BY <1>3
<1>5. ASSUME x < 4096 PROVE s * n <= 2048
  <2>1. Int32(x) \in Int /\ (Int32(x) <= 2048 => x <= 2048) BY <1>3, <1>5, SmallProduct
  <2>2. CASE Int32(x) > 2048 BY <2>2, <1>3
  <2>3. CASE ~(Int32(x) > 2048) BY <2>1, <2>3
  <2> QED BY <2>2, <2>3
<1> HIDE DEF n
<1>6. ASSUME n > 99 PROVE s * 99 <= s * n BY <1>1, <1>4, <1>6
<1>7. ASSUME x < 4096 PROVE s * NumOf(a, b) <= 2048
  <2>1. s * n <= 2048 /\ s * n \in Int /\ s * 99 \in Int BY <1>1, <1>4, <1>5, <1>7
  <2>2. CASE n > 99 BY <2>1, <2>2, <1>2, <1>6
  <2>3. CASE ~(n > 99) BY <2>1, <2>3, <1>2
  <2> QED BY <2>2, <2>3
<1>8. NumOf(a, b) \in Int /\ s * NumOf(a, b) \in Int BY <1>1, <1>2, <1>4
<1> QED BY <1>3, <1>7, <1>8 DEF s

\* The number of a file is one of those allowed, or the first.
LEMMA IndexAllowed ==
    ASSUME NEW i \in 0..255, NEW num \in Int
    PROVE  NextIndex(i, num) \in 0..255 /\ (NextIndex(i, num) <= num \/ NextIndex(i, num) = 0)
  BY DEF NextIndex

\* Every step of the recording keeps it.
LEMMA LogStep ==
    ASSUME LogInv, [LogNext]_logVars
    PROVE  LogInv'
<1>0. LogShape /\ LogTypeOK /\ SettingsKept /\ HoldersCounted /\ DevAndWork /\ Wanted /\ BufferFits
  BY DEF LogInv
<1>1. CASE LogProbe
  <2>1. lw' = lw BY <1>1 DEF LogProbe
  <2>2. /\ DOMAIN lf' = LogFields
        /\ ~lf.present /\ {lf'.present, lf'.called, lf'.tx, lf'.rx} \subseteq BOOLEAN /\ lf'.present
        /\ lf'.open = 0 /\ lf'.leaked = 0 /\ lf'.odd = lf.odd \ {"deaf"}
        /\ UNCHANGED <<lf.heard, lf.dev, lf.rec, lf.asrt, lf.queued, lf.port, lf.users, lf.reading,
                       lf.started, lf.exc, lf.exit, lf.want, lf.bus, lf.set, lf.size, lf.num>>
    BY <1>0, <1>1 DEF LogProbe, LogOp, LogShape, LogTypeOK, LogFields
  <2>3. LogShape' BY <1>0, <2>1, <2>2 DEF LogShape, LogTypeOK
  <2>4. LogTypeOK'
    BY <1>0, <2>1, <2>2, LogFileAssumption DEF LogShape, LogTypeOK, HoldersCounted, WorkHas, BufferFits, Most, Buf
  <2>5. SettingsKept' BY <1>0, <2>1, <2>2 DEF SettingsKept
  <2>6. HoldersCounted'
    BY <1>0, <2>1, <2>2 DEF LogShape, LogTypeOK, HoldersCounted, WorkHas, DevAndWork
  <2>7. DevAndWork' BY <1>0, <2>1, <2>2 DEF LogTypeOK, HoldersCounted, DevAndWork
  <2>8. Wanted' BY <1>0, <2>1, <2>2 DEF LogTypeOK, DevAndWork, Wanted
  <2>9. BufferFits' BY <1>0, <2>1, <2>2 DEF LogShape, LogTypeOK, BufferFits, Most, Buf
  <2> QED BY <2>3, <2>4, <2>5, <2>6, <2>7, <2>8, <2>9 DEF LogInv
<1>2. CASE AssertEvent
  <2>1. lw' = lw BY <1>2 DEF AssertEvent
  <2>2. /\ DOMAIN lf' = LogFields
        /\ {lf'.asrt, lf'.queued, lf'.want} \subseteq BOOLEAN
        /\ \/ lf'.queued = lf.queued /\ lf'.want = lf.want
           \/ lf.dev = "ok" /\ lf'.want /\ (lf.rec \/ lf'.queued) /\ (lf.queued => lf'.queued)
        /\ lf.dev # "ok" => lf'.queued = lf.queued /\ lf'.want = lf.want
        /\ {lf'.exc, lf'.tx} \subseteq BOOLEAN
        /\ UNCHANGED <<lf.present, lf.called, lf.heard, lf.dev, lf.rec, lf.rx, lf.port, lf.open, lf.users,
                       lf.reading, lf.started, lf.exit, lf.leaked, lf.odd, lf.bus, lf.set, lf.size, lf.num>>
    <3> DEFINE l == LogOp(lf)
               m == skw_modem_log_start_rec(l)
    <3>1. /\ DOMAIN l = LogFields /\ {l.rec, l.asrt, l.queued, l.want} \subseteq BOOLEAN
          /\ \A x \in LogFields \ {"ops"} : l[x] = lf[x]
      BY <1>0 DEF LogOp, LogShape, LogTypeOK, LogFields
    <3>4. lf' = [m EXCEPT !.exc = TRUE] \/ lf' = [[m EXCEPT !.exc = TRUE] EXCEPT !.tx = TRUE, !.asrt = TRUE]
      BY <1>2 DEF AssertEvent
    <3> HIDE DEF l
    <3>2. /\ DOMAIN m = LogFields /\ {m.asrt, m.queued, m.want} \subseteq BOOLEAN
          /\ \A x \in StartLeaves : m[x] = l[x]
          /\ \/ m.queued = l.queued /\ m.want = l.want
             \/ l.dev = "ok" /\ m.want /\ (l.rec \/ m.queued) /\ (l.queued => m.queued)
          /\ l.dev # "ok" => m.queued = l.queued /\ m.want = l.want
      BY <3>1, LogStarts
    <3> HIDE DEF m
    <3>5. \A x \in StartLeaves \ {"ops"} : m[x] = lf[x] BY <3>1, <3>2 DEF StartLeaves
    <3>6. l.rec = lf.rec /\ l.queued = lf.queued /\ l.want = lf.want /\ l.dev = lf.dev
      BY <3>1 DEF LogFields
    <3>7. CASE lf' = [m EXCEPT !.exc = TRUE]
      BY <1>0, <3>2, <3>5, <3>6, <3>7 DEF StartLeaves, LogShape, LogTypeOK, LogFields
    <3>8. CASE lf' = [[m EXCEPT !.exc = TRUE] EXCEPT !.tx = TRUE, !.asrt = TRUE]
      BY <1>0, <3>2, <3>5, <3>6, <3>8 DEF StartLeaves, LogShape, LogTypeOK, LogFields
    <3> QED BY <3>4, <3>7, <3>8
  <2>3. lf.heard BY <1>2 DEF AssertEvent
  <2>4. LogShape' BY <1>0, <2>1, <2>2, <2>3 DEF LogShape, LogTypeOK
  <2>5. LogTypeOK'
    BY <1>0, <2>1, <2>2, <2>3, LogFileAssumption DEF LogShape, LogTypeOK, HoldersCounted, WorkHas, BufferFits,
       Most, Buf
  <2>6. SettingsKept' BY <1>0, <2>1, <2>2, <2>3 DEF SettingsKept
  <2>7. HoldersCounted'
    BY <1>0, <2>1, <2>2, <2>3 DEF LogShape, LogTypeOK, HoldersCounted, WorkHas, DevAndWork
  <2>8. DevAndWork' BY <1>0, <2>1, <2>2, <2>3 DEF LogTypeOK, HoldersCounted, DevAndWork
  <2>9. Wanted' BY <1>0, <2>1, <2>2, <2>3 DEF LogTypeOK, DevAndWork, Wanted
  <2>10. BufferFits' BY <1>0, <2>1, <2>2, <2>3 DEF LogShape, LogTypeOK, BufferFits, Most, Buf
  <2> QED BY <2>4, <2>5, <2>6, <2>7, <2>8, <2>9, <2>10 DEF LogInv
<1>3. CASE BspReadyEvent
  <2>1. lw' = lw BY <1>3 DEF BspReadyEvent
  <2>2. /\ DOMAIN lf' = LogFields
        /\ {lf'.asrt, lf'.queued, lf'.want} \subseteq BOOLEAN
        /\ \/ lf'.queued = lf.queued /\ lf'.want = lf.want
           \/ lf.dev = "ok" /\ lf'.want /\ (lf.rec \/ lf'.queued) /\ (lf.queued => lf'.queued)
        /\ lf.dev # "ok" => lf'.queued = lf.queued /\ lf'.want = lf.want
        /\ {lf'.exc, lf'.tx} \subseteq BOOLEAN
        /\ UNCHANGED <<lf.present, lf.called, lf.heard, lf.dev, lf.rec, lf.rx, lf.tx, lf.port, lf.open,
                       lf.users, lf.reading, lf.started, lf.exit, lf.leaked, lf.odd, lf.bus, lf.set,
                       lf.size, lf.num>>
    <3> DEFINE l == LogOp(lf)
               m == skw_modem_log_start_rec(l)
    <3>1. /\ DOMAIN l = LogFields /\ {l.rec, l.asrt, l.queued, l.want} \subseteq BOOLEAN
          /\ \A x \in LogFields \ {"ops"} : l[x] = lf[x]
      BY <1>0 DEF LogOp, LogShape, LogTypeOK, LogFields
    <3>4. lf' = [m EXCEPT !.exc = FALSE] BY <1>3 DEF BspReadyEvent
    <3> HIDE DEF l
    <3>2. /\ DOMAIN m = LogFields /\ {m.asrt, m.queued, m.want} \subseteq BOOLEAN
          /\ \A x \in StartLeaves : m[x] = l[x]
          /\ \/ m.queued = l.queued /\ m.want = l.want
             \/ l.dev = "ok" /\ m.want /\ (l.rec \/ m.queued) /\ (l.queued => m.queued)
          /\ l.dev # "ok" => m.queued = l.queued /\ m.want = l.want
      BY <3>1, LogStarts
    <3> HIDE DEF m
    <3>5. \A x \in StartLeaves \ {"ops"} : m[x] = lf[x] BY <3>1, <3>2 DEF StartLeaves
    <3>6. l.rec = lf.rec /\ l.queued = lf.queued /\ l.want = lf.want /\ l.dev = lf.dev
      BY <3>1 DEF LogFields
    <3> QED BY <1>0, <3>2, <3>4, <3>5, <3>6 DEF StartLeaves, LogShape, LogTypeOK, LogFields
  <2>3. lf.heard BY <1>3 DEF BspReadyEvent
  <2>4. LogShape' BY <1>0, <2>1, <2>2, <2>3 DEF LogShape, LogTypeOK
  <2>5. LogTypeOK'
    BY <1>0, <2>1, <2>2, <2>3, LogFileAssumption DEF LogShape, LogTypeOK, HoldersCounted, WorkHas, BufferFits,
       Most, Buf
  <2>6. SettingsKept' BY <1>0, <2>1, <2>2, <2>3 DEF SettingsKept
  <2>7. HoldersCounted'
    BY <1>0, <2>1, <2>2, <2>3 DEF LogShape, LogTypeOK, HoldersCounted, WorkHas, DevAndWork
  <2>8. DevAndWork' BY <1>0, <2>1, <2>2, <2>3 DEF LogTypeOK, HoldersCounted, DevAndWork
  <2>9. Wanted' BY <1>0, <2>1, <2>2, <2>3 DEF LogTypeOK, DevAndWork, Wanted
  <2>10. BufferFits' BY <1>0, <2>1, <2>2, <2>3 DEF LogShape, LogTypeOK, BufferFits, Most, Buf
  <2> QED BY <2>4, <2>5, <2>6, <2>7, <2>8, <2>9, <2>10 DEF LogInv
<1>4. CASE DumpDoneEvent
  <2>1. lw' = lw BY <1>4 DEF DumpDoneEvent
  <2>2. /\ DOMAIN lf' = LogFields /\ {lf'.rec, lf'.port, lf'.want} \subseteq BOOLEAN /\ ~lf'.rec /\ ~lf'.port /\ ~lf'.want
        /\ lf.queued \/ lw.pc = "begin" => "stopmissed" \in lf'.odd
        /\ "deaf" \in lf.odd => "deaf" \in lf'.odd
        /\ lf'.asrt \in BOOLEAN
        /\ UNCHANGED <<lf.present, lf.called, lf.heard, lf.dev, lf.queued, lf.rx, lf.tx, lf.open, lf.users,
                       lf.reading, lf.started, lf.exc, lf.exit, lf.leaked, lf.ops, lf.bus, lf.set, lf.size,
                       lf.num>>
    <3> DEFINE l == lf
               m == skw_modem_log_stop_rec(l)
    <3>1. lf' = [m EXCEPT !.asrt = FALSE] BY <1>4 DEF DumpDoneEvent
    <3>2. DOMAIN l = LogFields BY <1>0 DEF LogShape
    <3>3. /\ DOMAIN m = LogFields /\ {m.rec, m.port, m.want} \subseteq BOOLEAN /\ ~m.rec /\ ~m.port /\ ~m.want
          /\ \A x \in StopLeaves : m[x] = l[x]
          /\ l.queued \/ lw.pc = "begin" => "stopmissed" \in m.odd
          /\ "deaf" \in l.odd => "deaf" \in m.odd
      BY <3>2, LogStops
    <3> HIDE DEF m
    <3> QED BY <1>0, <3>1, <3>2, <3>3 DEF StopLeaves, LogShape, LogTypeOK, LogFields
  <2>3. LogShape' BY <1>0, <2>1, <2>2 DEF LogShape, LogTypeOK
  <2>4. LogTypeOK'
    BY <1>0, <2>1, <2>2, LogFileAssumption DEF LogShape, LogTypeOK, HoldersCounted, WorkHas, BufferFits, Most, Buf
  <2>5. SettingsKept' BY <1>0, <2>1, <2>2 DEF SettingsKept
  <2>6. HoldersCounted'
    BY <1>0, <2>1, <2>2 DEF LogShape, LogTypeOK, HoldersCounted, WorkHas, DevAndWork
  <2>7. DevAndWork' BY <1>0, <2>1, <2>2 DEF LogTypeOK, HoldersCounted, DevAndWork
  <2>8. Wanted' BY <1>0, <2>1, <2>2 DEF LogTypeOK, DevAndWork, Wanted
  <2>9. BufferFits' BY <1>0, <2>1, <2>2 DEF LogShape, LogTypeOK, BufferFits, Most, Buf
  <2> QED BY <2>3, <2>4, <2>5, <2>6, <2>7, <2>8, <2>9 DEF LogInv
<1>5. CASE UserStart
  <2>1. CASE lf.dev # "none" /\ lf' = skw_modem_log_init(LogOp(lf))
    <3>1. lw' = lw BY <1>5 DEF UserStart
    <3>2. /\ DOMAIN lf' = LogFields
          /\ lf'.started \in BOOLEAN
          /\ UNCHANGED <<lf.present, lf.called, lf.heard, lf.dev, lf.rec, lf.asrt, lf.queued, lf.rx, lf.tx,
                         lf.port, lf.open, lf.users, lf.reading, lf.exc, lf.exit, lf.want, lf.leaked, lf.odd,
                         lf.bus, lf.set, lf.size, lf.num>>
      BY <1>0, <2>1 DEF skw_modem_log_init, LogOp, LogShape, LogTypeOK, LogFields
    <3>3. LogShape' BY <1>0, <2>1, <3>1, <3>2 DEF LogShape, LogTypeOK
    <3>4. LogTypeOK'
      BY <1>0, <2>1, <3>1, <3>2, LogFileAssumption DEF LogShape, LogTypeOK, HoldersCounted, WorkHas, BufferFits,
         Most, Buf
    <3>5. SettingsKept' BY <1>0, <2>1, <3>1, <3>2 DEF SettingsKept
    <3>6. HoldersCounted'
      BY <1>0, <2>1, <3>1, <3>2 DEF LogShape, LogTypeOK, HoldersCounted, WorkHas, DevAndWork
    <3>7. DevAndWork' BY <1>0, <2>1, <3>1, <3>2 DEF LogTypeOK, HoldersCounted, DevAndWork
    <3>8. Wanted' BY <1>0, <2>1, <3>1, <3>2 DEF LogTypeOK, DevAndWork, Wanted
    <3>9. BufferFits' BY <1>0, <2>1, <3>1, <3>2 DEF LogShape, LogTypeOK, BufferFits, Most, Buf
    <3> QED BY <3>3, <3>4, <3>5, <3>6, <3>7, <3>8, <3>9 DEF LogInv
  <2>2. CASE lf.dev = "none" /\ lf' = skw_modem_log_init(LogOp(lf))
    <3>1. lw' = lw BY <1>5 DEF UserStart
    <3>2. /\ DOMAIN lf' = LogFields
          /\ {lf'.asrt, lf'.queued, lf'.want} \subseteq BOOLEAN
          /\ \/ lf'.queued = lf.queued /\ lf'.want = lf.want
             \/ lf'.dev = "ok" /\ lf'.want /\ (lf.rec \/ lf'.queued) /\ (lf.queued => lf'.queued)
          /\ lf'.dev # "ok" => lf'.queued = lf.queued /\ lf'.want = lf.want
          /\ {lf'.heard, lf'.called} \subseteq BOOLEAN
          /\ lf.dev = "none" /\ lf'.dev = "ok" /\ lf.odd \subseteq lf'.odd /\ lf'.odd \subseteq lf.odd \union {"deaf"}
          /\ lf'.heard \/ "deaf" \in lf'.odd
          /\ lf'.started \in BOOLEAN
          /\ UNCHANGED <<lf.present, lf.rec, lf.rx, lf.tx, lf.port, lf.open, lf.users, lf.reading, lf.exc,
                         lf.exit, lf.leaked, lf.bus, lf.set, lf.size, lf.num>>
      <4> DEFINE o == IF lf.called THEN lf.odd \union {"deaf"} ELSE lf.odd
                 k == LogOp(lf)
                 l == [k EXCEPT !.dev = "ok", !.heard = ~lf.called, !.called = TRUE, !.started = TRUE, !.odd = o]
                 m == skw_modem_log_start_rec(l)
      <4>1. DOMAIN k = LogFields /\ \A x \in LogFields \ {"ops"} : k[x] = lf[x]
        BY <1>0 DEF LogOp, LogShape, LogTypeOK, LogFields
      <4>2. lf' = m
        <5>1. k.dev = "none" /\ k.called = lf.called /\ k.odd = lf.odd BY <4>1, <2>2 DEF LogFields
        <5>2. skw_modem_log_init(k) = skw_modem_log_start_rec([k EXCEPT !.dev = "ok", !.heard = ~k.called, !.called = TRUE, !.started = TRUE, !.odd = IF k.called THEN @ \union {"deaf"} ELSE @])
          BY <5>1 DEF skw_modem_log_init
        <5> QED BY <5>1, <5>2, <2>2
      <4> HIDE DEF k
      <4>3. lf.called \in BOOLEAN /\ lf.odd \subseteq o /\ o \subseteq lf.odd \union {"deaf"} /\ (lf.called => "deaf" \in o)
        BY <1>0 DEF LogTypeOK
      <4> HIDE DEF o
      <4>a. \A x \in LogFields \ {"ops", "dev", "heard", "called", "started", "odd"} : l[x] = lf[x]
        BY <4>1 DEF LogFields
      <4>b. DOMAIN l = LogFields /\ l.dev = "ok" /\ l.odd = o /\ l.heard = ~lf.called /\ l.called /\ l.started /\ {l.called, l.started} \subseteq BOOLEAN
        BY <4>1 DEF LogFields
      <4>c. l.rec = lf.rec /\ l.asrt = lf.asrt /\ l.queued = lf.queued /\ l.want = lf.want
        BY <4>a DEF LogFields
      <4>d. l.heard \in BOOLEAN /\ (l.heard \/ lf.called) BY <4>b, <4>3
      <4>4. /\ DOMAIN l = LogFields /\ {l.rec, l.asrt, l.queued, l.want} \subseteq BOOLEAN /\ l.dev = "ok" /\ {l.heard, l.called, l.started} \subseteq BOOLEAN
            /\ l.odd = o /\ (l.heard \/ lf.called)
            /\ \A x \in LogFields \ {"ops", "dev", "heard", "called", "started", "odd"} : l[x] = lf[x]
        BY <1>0, <4>a, <4>b, <4>c, <4>d DEF LogTypeOK
      <4> HIDE DEF l
      <4>5. /\ DOMAIN m = LogFields /\ {m.asrt, m.queued, m.want} \subseteq BOOLEAN
            /\ \A x \in StartLeaves : m[x] = l[x]
            /\ \/ m.queued = l.queued /\ m.want = l.want
               \/ l.dev = "ok" /\ m.want /\ (l.rec \/ m.queued) /\ (l.queued => m.queued)
        BY <4>4, LogStarts
      <4> HIDE DEF m
      <4>6. lf'.dev = "ok" /\ lf'.heard = l.heard /\ lf'.called = l.called /\ lf'.started = l.started /\ lf'.odd = o
        BY <4>2, <4>4, <4>5 DEF StartLeaves, LogFields
      <4>7. \A x \in LogFields \ {"ops", "dev", "heard", "called", "started", "odd", "asrt", "queued", "want"} : lf'[x] = lf[x]
        BY <4>2, <4>4, <4>5 DEF StartLeaves
      <4>9. l.rec = lf.rec /\ l.queued = lf.queued /\ l.want = lf.want /\ l.asrt = lf.asrt
        BY <4>4 DEF LogFields
      <4> QED
        BY <1>0, <4>2, <4>3, <4>4, <4>5, <4>6, <4>7, <4>9, <2>2 DEF LogShape, LogTypeOK, LogFields
    <3>3. lf.dev = "none" /\ lf.present BY <1>5, <2>2 DEF UserStart
    <3>4. LogShape' BY <1>0, <3>1, <3>2, <3>3 DEF UserStart, LogShape, LogTypeOK
    <3>5. LogTypeOK'
      BY <1>0, <3>1, <3>2, <3>3, LogFileAssumption DEF UserStart, LogShape, LogTypeOK, HoldersCounted, WorkHas,
         BufferFits, Most, Buf
    <3>6. SettingsKept' BY <1>0, <3>1, <3>2, <3>3 DEF UserStart, SettingsKept
    <3>7. HoldersCounted'
      BY <1>0, <3>1, <3>2, <3>3 DEF UserStart, LogShape, LogTypeOK, HoldersCounted, WorkHas, DevAndWork
    <3>8. DevAndWork' BY <1>0, <3>1, <3>2, <3>3 DEF UserStart, LogTypeOK, HoldersCounted, DevAndWork
    <3>9. Wanted' BY <1>0, <3>1, <3>2, <3>3 DEF UserStart, LogTypeOK, DevAndWork, Wanted
    <3>10. BufferFits'
      BY <1>0, <3>1, <3>2, <3>3 DEF UserStart, LogShape, LogTypeOK, BufferFits, Most, Buf
    <3> QED BY <3>4, <3>5, <3>6, <3>7, <3>8, <3>9, <3>10 DEF LogInv
  <2>3. CASE lf.dev = "none" /\ lf' = InitFails(LogOp(lf))
    <3>1. lw' = lw BY <1>5 DEF UserStart
    <3>2. /\ DOMAIN lf' = LogFields
          /\ lf'.started \in BOOLEAN /\ lf'.dev = "gone" /\ lf.dev = "none"
          /\ UNCHANGED <<lf.present, lf.called, lf.heard, lf.rec, lf.asrt, lf.queued, lf.rx, lf.tx, lf.port,
                         lf.open, lf.users, lf.reading, lf.exc, lf.exit, lf.want, lf.leaked, lf.odd, lf.bus,
                         lf.set, lf.size, lf.num>>
      BY <1>0, <2>3 DEF InitFails, LogOp, LogShape, LogTypeOK, LogFields
    <3>3. lf.present BY <1>5 DEF UserStart
    <3>4. LogShape' BY <1>0, <2>3, <3>1, <3>2, <3>3 DEF LogShape, LogTypeOK
    <3>5. LogTypeOK'
      BY <1>0, <2>3, <3>1, <3>2, <3>3, LogFileAssumption DEF LogShape, LogTypeOK, HoldersCounted, WorkHas,
         BufferFits, Most, Buf
    <3>6. SettingsKept' BY <1>0, <2>3, <3>1, <3>2, <3>3 DEF SettingsKept
    <3>7. HoldersCounted'
      BY <1>0, <2>3, <3>1, <3>2, <3>3 DEF LogShape, LogTypeOK, HoldersCounted, WorkHas, DevAndWork
    <3>8. DevAndWork' BY <1>0, <2>3, <3>1, <3>2, <3>3 DEF LogTypeOK, HoldersCounted, DevAndWork
    <3>9. Wanted' BY <1>0, <2>3, <3>1, <3>2, <3>3 DEF LogTypeOK, DevAndWork, Wanted
    <3>10. BufferFits' BY <1>0, <2>3, <3>1, <3>2, <3>3 DEF LogShape, LogTypeOK, BufferFits, Most, Buf
    <3> QED BY <3>4, <3>5, <3>6, <3>7, <3>8, <3>9, <3>10 DEF LogInv
  <2> QED BY <1>0, <1>5, <2>1, <2>2, <2>3 DEF UserStart
<1>6. CASE UserStop
  <2>1. lw' = lw BY <1>6 DEF UserStop
  <2>2. /\ DOMAIN lf' = LogFields /\ {lf'.rec, lf'.port, lf'.want} \subseteq BOOLEAN /\ ~lf'.rec /\ ~lf'.port /\ ~lf'.want
        /\ lf.queued \/ lw.pc = "begin" => "stopmissed" \in lf'.odd
        /\ "deaf" \in lf.odd => "deaf" \in lf'.odd
        /\ lf'.heard \in BOOLEAN /\ ~lf'.heard /\ lf'.tx \in BOOLEAN /\ lf'.exit = "user" /\ lf.dev = "ok" /\ lf.present
        /\ UNCHANGED <<lf.present, lf.called, lf.dev, lf.asrt, lf.queued, lf.rx, lf.open, lf.users,
                       lf.reading, lf.started, lf.exc, lf.leaked, lf.bus, lf.set, lf.size, lf.num>>
    <3> DEFINE l == [LogOp(lf) EXCEPT !.heard = FALSE]
               m == skw_modem_log_stop_rec(l)
    <3>1. lf' = [[m EXCEPT !.exit = "user"] EXCEPT !.tx = TRUE] /\ lf.dev = "ok" /\ lf.present
      BY <1>6 DEF UserStop, skw_modem_log_exit
    <3>2. /\ DOMAIN l = LogFields /\ l.heard \in BOOLEAN /\ ~l.heard
          /\ \A x \in LogFields \ {"ops", "heard"} : l[x] = lf[x]
      BY <1>0 DEF LogOp, LogShape, LogTypeOK, LogFields
    <3> HIDE DEF l
    <3>3. /\ DOMAIN m = LogFields /\ {m.rec, m.port, m.want} \subseteq BOOLEAN /\ ~m.rec /\ ~m.port /\ ~m.want
          /\ \A x \in StopLeaves : m[x] = l[x]
          /\ l.queued \/ lw.pc = "begin" => "stopmissed" \in m.odd
          /\ "deaf" \in l.odd => "deaf" \in m.odd
      BY <3>2, LogStops
    <3> HIDE DEF m
    <3>6. \A x \in StopLeaves \ {"ops", "heard"} : m[x] = lf[x] BY <3>2, <3>3 DEF StopLeaves
    <3>7. l.queued = lf.queued /\ l.odd = lf.odd /\ m.ops = l.ops /\ m.heard = l.heard
      BY <3>2, <3>3 DEF StopLeaves, LogFields
    <3>8. DOMAIN lf' = LogFields /\ lf'.exit = "user" /\ lf'.tx \in BOOLEAN /\ \A x \in LogFields \ {"exit", "tx"} : lf'[x] = m[x]
      BY <3>1, <3>3 DEF LogFields
    <3>9. \A x \in StopLeaves \ {"exit", "tx", "ops", "heard"} : lf'[x] = lf[x]
      BY <3>6, <3>8 DEF StopLeaves
    <3>10. UNCHANGED <<lf.present, lf.called, lf.dev, lf.asrt, lf.queued, lf.rx, lf.open, lf.users,
                       lf.reading, lf.started, lf.exc, lf.leaked, lf.bus, lf.set, lf.size, lf.num>>
      BY <3>9 DEF StopLeaves, LogFields
    <3>11. lf'.rec = m.rec /\ lf'.port = m.port /\ lf'.want = m.want /\ lf'.odd = m.odd /\ lf'.ops = m.ops /\ lf'.heard = m.heard
      BY <3>8 DEF LogFields
    <3>12. lf.dev = "ok" /\ lf.present BY <3>1
    <3> QED BY <1>0, <3>2, <3>3, <3>7, <3>8, <3>10, <3>11, <3>12
  <2>3. LogShape' BY <1>0, <2>1, <2>2 DEF LogShape, LogTypeOK
  <2>4. LogTypeOK'
    BY <1>0, <2>1, <2>2, LogFileAssumption DEF LogShape, LogTypeOK, HoldersCounted, WorkHas, BufferFits, Most, Buf
  <2>5. SettingsKept' BY <1>0, <2>1, <2>2 DEF SettingsKept
  <2>6. HoldersCounted'
    BY <1>0, <2>1, <2>2 DEF LogShape, LogTypeOK, HoldersCounted, WorkHas, DevAndWork
  <2>7. DevAndWork' BY <1>0, <2>1, <2>2 DEF LogTypeOK, HoldersCounted, DevAndWork
  <2>8. Wanted' BY <1>0, <2>1, <2>2 DEF LogTypeOK, DevAndWork, Wanted
  <2>9. BufferFits' BY <1>0, <2>1, <2>2 DEF LogShape, LogTypeOK, BufferFits, Most, Buf
  <2> QED BY <2>3, <2>4, <2>5, <2>6, <2>7, <2>8, <2>9 DEF LogInv
<1>7. CASE LogRemove
  <2>1. CASE lf.dev = "ok"
    <3>1. lw' = lw BY <1>7 DEF LogRemove
    <3>2. /\ DOMAIN lf' = LogFields /\ {lf'.rec, lf'.port, lf'.want} \subseteq BOOLEAN /\ ~lf'.rec /\ ~lf'.port /\ ~lf'.want
          /\ lf.queued \/ lw.pc = "begin" => "stopmissed" \in lf'.odd
          /\ "deaf" \in lf.odd => "deaf" \in lf'.odd
          /\ lf'.heard \in BOOLEAN /\ ~lf'.heard /\ lf'.exit = "remove" /\ lf.dev = "ok" /\ lf.present /\ lf.users = 0
          /\ UNCHANGED <<lf.present, lf.called, lf.dev, lf.asrt, lf.queued, lf.rx, lf.tx, lf.open, lf.users,
                         lf.reading, lf.started, lf.exc, lf.leaked, lf.ops, lf.bus, lf.set, lf.size, lf.num>>
      <4> DEFINE l == [lf EXCEPT !.heard = FALSE]
                 m == skw_modem_log_stop_rec(l)
      <4>1. lf' = [m EXCEPT !.exit = "remove"] /\ lf.dev = "ok" /\ lf.present /\ lf.users = 0
        BY <1>7, <2>1 DEF LogRemove, skw_modem_log_exit
      <4>2. /\ DOMAIN l = LogFields /\ l.heard \in BOOLEAN /\ ~l.heard
            /\ \A x \in LogFields \ {"heard"} : l[x] = lf[x]
        BY <1>0 DEF LogShape, LogTypeOK, LogFields
      <4> HIDE DEF l
      <4>3. /\ DOMAIN m = LogFields /\ {m.rec, m.port, m.want} \subseteq BOOLEAN /\ ~m.rec /\ ~m.port /\ ~m.want
            /\ \A x \in StopLeaves : m[x] = l[x]
            /\ l.queued \/ lw.pc = "begin" => "stopmissed" \in m.odd
            /\ "deaf" \in l.odd => "deaf" \in m.odd
        BY <4>2, LogStops
      <4> HIDE DEF m
      <4>6. \A x \in StopLeaves \ {"heard"} : m[x] = lf[x] BY <4>2, <4>3 DEF StopLeaves
      <4>7. l.queued = lf.queued /\ l.odd = lf.odd /\ m.heard = l.heard
        BY <4>2, <4>3 DEF StopLeaves, LogFields
      <4>8. DOMAIN lf' = LogFields /\ lf'.exit = "remove" /\ \A x \in LogFields \ {"exit"} : lf'[x] = m[x]
        BY <4>1, <4>3 DEF LogFields
      <4>9. \A x \in StopLeaves \ {"exit", "heard"} : lf'[x] = lf[x] BY <4>6, <4>8 DEF StopLeaves
      <4>10. UNCHANGED <<lf.present, lf.called, lf.dev, lf.asrt, lf.queued, lf.rx, lf.tx, lf.open, lf.users,
                         lf.reading, lf.started, lf.exc, lf.leaked, lf.ops, lf.bus, lf.set, lf.size, lf.num>>
        BY <4>9 DEF StopLeaves, LogFields
      <4>11. lf'.rec = m.rec /\ lf'.port = m.port /\ lf'.want = m.want /\ lf'.odd = m.odd /\ lf'.heard = m.heard
        BY <4>8 DEF LogFields
      <4>12. lf.dev = "ok" /\ lf.present /\ lf.users = 0 BY <4>1
      <4> QED BY <1>0, <4>2, <4>3, <4>7, <4>8, <4>10, <4>11, <4>12
    <3>3. LogShape' BY <1>0, <3>1, <3>2 DEF LogRemove, LogShape, LogTypeOK
    <3>4. LogTypeOK'
      BY <1>0, <3>1, <3>2, LogFileAssumption DEF LogRemove, LogShape, LogTypeOK, HoldersCounted, WorkHas,
         BufferFits, Most, Buf
    <3>5. SettingsKept' BY <1>0, <3>1, <3>2 DEF LogRemove, SettingsKept
    <3>6. HoldersCounted'
      BY <1>0, <3>1, <3>2 DEF LogRemove, LogShape, LogTypeOK, HoldersCounted, WorkHas, DevAndWork
    <3>7. DevAndWork' BY <1>0, <3>1, <3>2 DEF LogRemove, LogTypeOK, HoldersCounted, DevAndWork
    <3>8. Wanted' BY <1>0, <3>1, <3>2 DEF LogRemove, LogTypeOK, DevAndWork, Wanted
    <3>9. BufferFits' BY <1>0, <3>1, <3>2 DEF LogRemove, LogShape, LogTypeOK, BufferFits, Most, Buf
    <3> QED BY <3>3, <3>4, <3>5, <3>6, <3>7, <3>8, <3>9 DEF LogInv
  <2>2. CASE ~(lf.dev = "ok")
    <3>1. lw' = lw BY <1>7 DEF LogRemove
    <3>2. /\ DOMAIN lf' = LogFields
          /\ lf'.present \in BOOLEAN /\ ~lf'.present /\ lf'.started \in BOOLEAN /\ lf.dev = "none" /\ lf.users = 0
          /\ UNCHANGED <<lf.called, lf.heard, lf.dev, lf.rec, lf.asrt, lf.queued, lf.rx, lf.tx, lf.port,
                         lf.open, lf.users, lf.reading, lf.exc, lf.exit, lf.want, lf.leaked, lf.ops, lf.odd,
                         lf.bus, lf.set, lf.size, lf.num>>
      BY <1>0, <1>7, <2>2 DEF LogRemove, LogShape, LogTypeOK, LogFields
    <3>3. LogShape' BY <1>0, <2>2, <3>1, <3>2 DEF LogShape, LogTypeOK
    <3>4. LogTypeOK'
      BY <1>0, <2>2, <3>1, <3>2, LogFileAssumption DEF LogShape, LogTypeOK, HoldersCounted, WorkHas, BufferFits,
         Most, Buf
    <3>5. SettingsKept' BY <1>0, <2>2, <3>1, <3>2 DEF SettingsKept
    <3>6. HoldersCounted'
      BY <1>0, <2>2, <3>1, <3>2 DEF LogShape, LogTypeOK, HoldersCounted, WorkHas, DevAndWork
    <3>7. DevAndWork' BY <1>0, <2>2, <3>1, <3>2 DEF LogTypeOK, HoldersCounted, DevAndWork
    <3>8. Wanted' BY <1>0, <2>2, <3>1, <3>2 DEF LogTypeOK, DevAndWork, Wanted
    <3>9. BufferFits' BY <1>0, <2>2, <3>1, <3>2 DEF LogShape, LogTypeOK, BufferFits, Most, Buf
    <3> QED BY <3>3, <3>4, <3>5, <3>6, <3>7, <3>8, <3>9 DEF LogInv
  <2> QED BY <1>0, <1>7, <2>1, <2>2 DEF LogRemove
<1>8. CASE ExitEnds
  <2>1. lw' = lw BY <1>8 DEF ExitEnds
  <2>2. lw.pc = "idle" /\ lf.exit # "no" BY <1>8 DEF ExitEnds
  <2>3. /\ DOMAIN lf' = LogFields /\ lf'.exit = "no" /\ lf'.dev = "none" /\ {lf'.queued, lf'.started, lf'.present, lf'.tx} \subseteq BOOLEAN /\ ~lf'.queued
        /\ lf'.present <=> lf.exit = "user"
        /\ UNCHANGED <<lf.called, lf.heard, lf.rec, lf.asrt, lf.rx, lf.port, lf.open, lf.users, lf.reading,
                       lf.exc, lf.want, lf.leaked, lf.ops, lf.odd, lf.bus, lf.set, lf.size, lf.num>>
    <3> DEFINE p == lf.exit = "user"
               t == lf.tx /\ lf.exit # "user"
    <3>1. p \in BOOLEAN /\ t \in BOOLEAN /\ (p <=> lf.exit = "user") BY <1>0 DEF LogTypeOK
    <3>2. lf' = [lf EXCEPT !.exit = "no", !.dev = "none", !.queued = FALSE, !.started = FALSE, !.present = p, !.tx = t]
      BY <1>8 DEF ExitEnds
    <3> HIDE DEF p, t
    <3> QED BY <1>0, <3>1, <3>2 DEF LogShape, LogTypeOK, LogFields
  <2>4. LogShape' BY <1>0, <2>1, <2>2, <2>3 DEF LogShape, LogTypeOK
  <2>5. LogTypeOK'
    BY <1>0, <2>1, <2>2, <2>3, LogFileAssumption DEF LogShape, LogTypeOK, HoldersCounted, WorkHas, BufferFits,
       Most, Buf
  <2>6. SettingsKept' BY <1>0, <2>1, <2>2, <2>3 DEF SettingsKept
  <2>7. HoldersCounted'
    BY <1>0, <2>1, <2>2, <2>3 DEF LogShape, LogTypeOK, HoldersCounted, WorkHas, DevAndWork
  <2>8. DevAndWork' BY <1>0, <2>1, <2>2, <2>3 DEF LogTypeOK, HoldersCounted, DevAndWork
  <2>9. Wanted' BY <1>0, <2>1, <2>2, <2>3 DEF LogTypeOK, DevAndWork, Wanted
  <2>10. BufferFits' BY <1>0, <2>1, <2>2, <2>3 DEF LogShape, LogTypeOK, BufferFits, Most, Buf
  <2> QED BY <2>4, <2>5, <2>6, <2>7, <2>8, <2>9, <2>10 DEF LogInv
<1>9. CASE UserOpen
  <2>1. lw' = lw BY <1>9 DEF UserOpen
  <2>2. /\ DOMAIN lf' = LogFields /\ lf.present /\ lf.exit # "remove" /\ lf.users < 2
        /\ lf'.open = lf.open + 1 /\ lf'.users = lf.users + 1 /\ {lf'.port, lf'.rx, lf'.tx} \subseteq BOOLEAN
        /\ UNCHANGED <<lf.present, lf.called, lf.heard, lf.dev, lf.rec, lf.asrt, lf.queued, lf.reading,
                       lf.started, lf.exc, lf.exit, lf.want, lf.leaked, lf.odd, lf.bus, lf.set, lf.size,
                       lf.num>>
    <3> DEFINE p == lf.port \/ lf.open = 0
               r == lf.rx /\ lf.open > 0
               t == lf.tx /\ lf.open > 0
    <3>1. {p, r, t} \subseteq BOOLEAN BY <1>0 DEF LogTypeOK
    <3>2. lf' = [lf EXCEPT !.ops = @ + 1, !.open = @ + 1, !.users = @ + 1, !.port = p, !.rx = r, !.tx = t]
      BY <1>0, <1>9 DEF UserOpen, LogOp, LogShape, LogTypeOK, LogFields
    <3>3. lf.present /\ lf.exit # "remove" /\ lf.users < 2 BY <1>9 DEF UserOpen
    <3> HIDE DEF p, r, t
    <3> QED BY <1>0, <3>1, <3>2, <3>3 DEF LogShape, LogTypeOK, LogFields
  <2>3. LogShape' BY <1>0, <2>1, <2>2 DEF LogShape, LogTypeOK
  <2>4. LogTypeOK'
    BY <1>0, <2>1, <2>2, LogFileAssumption DEF LogShape, LogTypeOK, HoldersCounted, WorkHas, BufferFits, Most, Buf
  <2>5. SettingsKept' BY <1>0, <2>1, <2>2 DEF SettingsKept
  <2>6. HoldersCounted'
    BY <1>0, <2>1, <2>2 DEF LogShape, LogTypeOK, HoldersCounted, WorkHas, DevAndWork
  <2>7. DevAndWork' BY <1>0, <2>1, <2>2 DEF LogTypeOK, HoldersCounted, DevAndWork
  <2>8. Wanted' BY <1>0, <2>1, <2>2 DEF LogTypeOK, DevAndWork, Wanted
  <2>9. BufferFits' BY <1>0, <2>1, <2>2 DEF LogShape, LogTypeOK, BufferFits, Most, Buf
  <2> QED BY <2>3, <2>4, <2>5, <2>6, <2>7, <2>8, <2>9 DEF LogInv
<1>10. CASE UserClose
  <2>1. lw' = lw BY <1>10 DEF UserClose
  <2>2. /\ DOMAIN lf' = LogFields
        /\ lf'.open = lf.open - 1 /\ lf'.users = lf.users - 1 /\ lf'.port \in BOOLEAN /\ lf.users > 0
        /\ UNCHANGED <<lf.present, lf.called, lf.heard, lf.dev, lf.rec, lf.asrt, lf.queued, lf.rx, lf.tx,
                       lf.reading, lf.started, lf.exc, lf.exit, lf.want, lf.leaked, lf.ops, lf.odd, lf.bus,
                       lf.set, lf.size, lf.num>>
    BY <1>0, <1>10 DEF UserClose, LogShape, LogTypeOK, LogFields
  <2>3. LogShape' BY <1>0, <2>1, <2>2 DEF LogShape, LogTypeOK
  <2>4. LogTypeOK'
    BY <1>0, <2>1, <2>2, LogFileAssumption DEF LogShape, LogTypeOK, HoldersCounted, WorkHas, BufferFits, Most, Buf
  <2>5. SettingsKept' BY <1>0, <2>1, <2>2 DEF SettingsKept
  <2>6. HoldersCounted'
    BY <1>0, <2>1, <2>2 DEF LogShape, LogTypeOK, HoldersCounted, WorkHas, DevAndWork
  <2>7. DevAndWork' BY <1>0, <2>1, <2>2 DEF LogTypeOK, HoldersCounted, DevAndWork
  <2>8. Wanted' BY <1>0, <2>1, <2>2 DEF LogTypeOK, DevAndWork, Wanted
  <2>9. BufferFits' BY <1>0, <2>1, <2>2 DEF LogShape, LogTypeOK, BufferFits, Most, Buf
  <2> QED BY <2>3, <2>4, <2>5, <2>6, <2>7, <2>8, <2>9 DEF LogInv
<1>11. CASE UserRead
  <2>1. lw' = lw BY <1>11 DEF UserRead
  <2>2. /\ DOMAIN lf' = LogFields
        /\ {lf'.rx, lf'.reading} \subseteq BOOLEAN
        /\ UNCHANGED <<lf.present, lf.called, lf.heard, lf.dev, lf.rec, lf.asrt, lf.queued, lf.tx, lf.port,
                       lf.open, lf.users, lf.started, lf.exc, lf.exit, lf.want, lf.leaked, lf.odd, lf.bus,
                       lf.set, lf.size, lf.num>>
    BY <1>0, <1>11 DEF UserRead, LogOp, LogShape, LogTypeOK, LogFields
  <2>3. LogShape' BY <1>0, <2>1, <2>2 DEF LogShape, LogTypeOK
  <2>4. LogTypeOK'
    BY <1>0, <2>1, <2>2, LogFileAssumption DEF LogShape, LogTypeOK, HoldersCounted, WorkHas, BufferFits, Most, Buf
  <2>5. SettingsKept' BY <1>0, <2>1, <2>2 DEF SettingsKept
  <2>6. HoldersCounted'
    BY <1>0, <2>1, <2>2 DEF LogShape, LogTypeOK, HoldersCounted, WorkHas, DevAndWork
  <2>7. DevAndWork' BY <1>0, <2>1, <2>2 DEF LogTypeOK, HoldersCounted, DevAndWork
  <2>8. Wanted' BY <1>0, <2>1, <2>2 DEF LogTypeOK, DevAndWork, Wanted
  <2>9. BufferFits' BY <1>0, <2>1, <2>2 DEF LogShape, LogTypeOK, BufferFits, Most, Buf
  <2> QED BY <2>3, <2>4, <2>5, <2>6, <2>7, <2>8, <2>9 DEF LogInv
<1>12. CASE UserReadEnds
  <2>1. lw' = lw BY <1>12 DEF UserReadEnds
  <2>2. /\ DOMAIN lf' = LogFields
        /\ {lf'.rx, lf'.reading} \subseteq BOOLEAN
        /\ UNCHANGED <<lf.present, lf.called, lf.heard, lf.dev, lf.rec, lf.asrt, lf.queued, lf.tx, lf.port,
                       lf.open, lf.users, lf.started, lf.exc, lf.exit, lf.want, lf.leaked, lf.ops, lf.odd,
                       lf.bus, lf.set, lf.size, lf.num>>
    BY <1>0, <1>12 DEF UserReadEnds, LogShape, LogTypeOK, LogFields
  <2>3. LogShape' BY <1>0, <2>1, <2>2 DEF LogShape, LogTypeOK
  <2>4. LogTypeOK'
    BY <1>0, <2>1, <2>2, LogFileAssumption DEF LogShape, LogTypeOK, HoldersCounted, WorkHas, BufferFits, Most, Buf
  <2>5. SettingsKept' BY <1>0, <2>1, <2>2 DEF SettingsKept
  <2>6. HoldersCounted'
    BY <1>0, <2>1, <2>2 DEF LogShape, LogTypeOK, HoldersCounted, WorkHas, DevAndWork
  <2>7. DevAndWork' BY <1>0, <2>1, <2>2 DEF LogTypeOK, HoldersCounted, DevAndWork
  <2>8. Wanted' BY <1>0, <2>1, <2>2 DEF LogTypeOK, DevAndWork, Wanted
  <2>9. BufferFits' BY <1>0, <2>1, <2>2 DEF LogShape, LogTypeOK, BufferFits, Most, Buf
  <2> QED BY <2>3, <2>4, <2>5, <2>6, <2>7, <2>8, <2>9 DEF LogInv
<1>13. CASE WorkRuns
  <2>1. /\ DOMAIN lw' = DOMAIN lw /\ lw.pc = "idle" /\ lw'.pc = "begin"
        /\ UNCHANGED <<lw.len, lw.errs, lw.index, lw.stored, lw.turns>>
    BY <1>0, <1>13 DEF WorkRuns, To, LogShape, LogTypeOK, LogFields
  <2>2. /\ DOMAIN lf' = LogFields
        /\ lf.queued /\ lf'.queued \in BOOLEAN
        /\ UNCHANGED <<lf.present, lf.called, lf.heard, lf.dev, lf.rec, lf.asrt, lf.rx, lf.tx, lf.port,
                       lf.open, lf.users, lf.reading, lf.started, lf.exc, lf.exit, lf.want, lf.leaked,
                       lf.ops, lf.odd, lf.bus, lf.set, lf.size, lf.num>>
    BY <1>0, <1>13 DEF WorkRuns, LogShape, LogTypeOK, LogFields
  <2>3. LogShape' BY <1>0, <2>1, <2>2 DEF LogShape, LogTypeOK
  <2>4. LogTypeOK'
    BY <1>0, <2>1, <2>2, LogFileAssumption DEF LogShape, LogTypeOK, HoldersCounted, WorkHas, BufferFits, Most, Buf
  <2>5. SettingsKept' BY <1>0, <2>1, <2>2 DEF SettingsKept
  <2>6. HoldersCounted'
    BY <1>0, <2>1, <2>2 DEF LogShape, LogTypeOK, HoldersCounted, WorkHas, DevAndWork
  <2>7. DevAndWork' BY <1>0, <2>1, <2>2 DEF LogTypeOK, HoldersCounted, DevAndWork
  <2>8. Wanted' BY <1>0, <2>1, <2>2 DEF LogTypeOK, DevAndWork, Wanted
  <2>9. BufferFits' BY <1>0, <2>1, <2>2 DEF LogShape, LogTypeOK, BufferFits, Most, Buf
  <2> QED BY <2>3, <2>4, <2>5, <2>6, <2>7, <2>8, <2>9 DEF LogInv
<1>14. CASE WorkBegins
  <2>1. CASE lf.rec
    <3>1. /\ DOMAIN lw' = DOMAIN lw /\ lw.pc = "begin" /\ lw'.pc = "idle"
          /\ UNCHANGED <<lw.len, lw.errs, lw.index, lw.stored, lw.turns>>
      BY <1>0, <1>14, <2>1 DEF WorkBegins, To, LogShape, LogTypeOK, LogFields
    <3>2. /\ DOMAIN lf' = LogFields
          /\ lf'.rec \in BOOLEAN /\ lf'.rec /\ lf.rec
          /\ UNCHANGED <<lf.present, lf.called, lf.heard, lf.dev, lf.asrt, lf.queued, lf.rx, lf.tx, lf.port,
                         lf.open, lf.users, lf.reading, lf.started, lf.exc, lf.exit, lf.want, lf.leaked,
                         lf.ops, lf.odd, lf.bus, lf.set, lf.size, lf.num>>
      BY <1>0, <1>14, <2>1 DEF WorkBegins, LogShape, LogTypeOK, LogFields
    <3>3. LogShape' BY <1>0, <2>1, <3>1, <3>2 DEF LogShape, LogTypeOK
    <3>4. LogTypeOK'
      BY <1>0, <2>1, <3>1, <3>2, LogFileAssumption DEF LogShape, LogTypeOK, HoldersCounted, WorkHas, BufferFits,
         Most, Buf
    <3>5. SettingsKept' BY <1>0, <2>1, <3>1, <3>2 DEF SettingsKept
    <3>6. HoldersCounted'
      BY <1>0, <2>1, <3>1, <3>2 DEF LogShape, LogTypeOK, HoldersCounted, WorkHas, DevAndWork
    <3>7. DevAndWork' BY <1>0, <2>1, <3>1, <3>2 DEF LogTypeOK, HoldersCounted, DevAndWork
    <3>8. Wanted' BY <1>0, <2>1, <3>1, <3>2 DEF LogTypeOK, DevAndWork, Wanted
    <3>9. BufferFits' BY <1>0, <2>1, <3>1, <3>2 DEF LogShape, LogTypeOK, BufferFits, Most, Buf
    <3> QED BY <3>3, <3>4, <3>5, <3>6, <3>7, <3>8, <3>9 DEF LogInv
  <2>2. CASE ~lf.rec
    <3>1. /\ DOMAIN lw' = DOMAIN lw /\ lw.pc = "begin" /\ lw'.pc = "store"
          /\ UNCHANGED <<lw.len, lw.errs, lw.index, lw.stored, lw.turns>>
      BY <1>0, <1>14, <2>2 DEF WorkBegins, To, LogShape, LogTypeOK, LogFields
    <3>2. /\ DOMAIN lf' = LogFields
          /\ lf'.rec \in BOOLEAN /\ lf'.rec
          /\ UNCHANGED <<lf.present, lf.called, lf.heard, lf.dev, lf.asrt, lf.queued, lf.rx, lf.tx, lf.port,
                         lf.open, lf.users, lf.reading, lf.started, lf.exc, lf.exit, lf.want, lf.leaked,
                         lf.ops, lf.odd, lf.bus, lf.set, lf.size, lf.num>>
      BY <1>0, <1>14 DEF WorkBegins, LogShape, LogTypeOK, LogFields
    <3>3. LogShape' BY <1>0, <2>2, <3>1, <3>2 DEF LogShape, LogTypeOK
    <3>4. LogTypeOK'
      BY <1>0, <2>2, <3>1, <3>2, LogFileAssumption DEF LogShape, LogTypeOK, HoldersCounted, WorkHas, BufferFits,
         Most, Buf
    <3>5. SettingsKept' BY <1>0, <2>2, <3>1, <3>2 DEF SettingsKept
    <3>6. HoldersCounted'
      BY <1>0, <2>2, <3>1, <3>2 DEF LogShape, LogTypeOK, HoldersCounted, WorkHas, DevAndWork
    <3>7. DevAndWork' BY <1>0, <2>2, <3>1, <3>2 DEF LogTypeOK, HoldersCounted, DevAndWork
    <3>8. Wanted' BY <1>0, <2>2, <3>1, <3>2 DEF LogTypeOK, DevAndWork, Wanted
    <3>9. BufferFits' BY <1>0, <2>2, <3>1, <3>2 DEF LogShape, LogTypeOK, BufferFits, Most, Buf
    <3> QED BY <3>3, <3>4, <3>5, <3>6, <3>7, <3>8, <3>9 DEF LogInv
  <2> QED BY <1>0, <1>14, <2>1, <2>2 DEF WorkBegins
<1>15. CASE StoreFails
  <2>1. /\ DOMAIN lw' = DOMAIN lw /\ lw.pc = "store" /\ lw'.pc = "idle"
        /\ UNCHANGED <<lw.len, lw.errs, lw.index, lw.stored, lw.turns>>
    BY <1>0, <1>15 DEF StoreFails, GivesUp, To, LogShape, LogTypeOK, LogFields
  <2>2. /\ DOMAIN lf' = LogFields
        /\ lf'.odd = (lf.odd \union (IF lf.rec THEN {"stuck"} ELSE {}))
        /\ UNCHANGED <<lf.present, lf.called, lf.heard, lf.dev, lf.rec, lf.asrt, lf.queued, lf.rx, lf.tx,
                       lf.port, lf.open, lf.users, lf.reading, lf.started, lf.exc, lf.exit, lf.want,
                       lf.leaked, lf.ops, lf.bus, lf.set, lf.size, lf.num>>
    <3> DEFINE p == lf.port \/ ("store" = "port" /\ lf.open = 0)
               o == lf.odd \union (IF lf.rec THEN {"stuck"} ELSE {})
    <3>1. p \in BOOLEAN /\ p = lf.port BY <1>0 DEF LogTypeOK
    <3>2. lf' = [lf EXCEPT !.leaked = @ + 0, !.open = @ + (IF "store" = "port" THEN 1 ELSE 0), !.port = p, !.odd = o]
      BY <1>15 DEF StoreFails, GivesUp
    <3>3. o = lf.odd \union (IF lf.rec THEN {"stuck"} ELSE {}) OBVIOUS
    <3> HIDE DEF p, o
    <3> QED BY <1>0, <3>1, <3>2, <3>3 DEF HoldersCounted, WorkHas, LogShape, LogTypeOK, LogFields
  <2>3. LogShape' BY <1>0, <2>1, <2>2 DEF LogShape, LogTypeOK
  <2>4. LogTypeOK'
    BY <1>0, <2>1, <2>2, LogFileAssumption DEF LogShape, LogTypeOK, HoldersCounted, WorkHas, BufferFits, Most, Buf
  <2>5. SettingsKept' BY <1>0, <2>1, <2>2 DEF SettingsKept
  <2>6. HoldersCounted'
    BY <1>0, <2>1, <2>2 DEF LogShape, LogTypeOK, HoldersCounted, WorkHas, DevAndWork
  <2>7. DevAndWork' BY <1>0, <2>1, <2>2 DEF LogTypeOK, HoldersCounted, DevAndWork
  <2>8. Wanted' BY <1>0, <2>1, <2>2 DEF LogTypeOK, DevAndWork, Wanted
  <2>9. BufferFits' BY <1>0, <2>1, <2>2 DEF LogShape, LogTypeOK, BufferFits, Most, Buf
  <2> QED BY <2>3, <2>4, <2>5, <2>6, <2>7, <2>8, <2>9 DEF LogInv
<1>16. CASE FileFails
  <2>1. /\ DOMAIN lw' = DOMAIN lw /\ lw.pc = "file" /\ lw'.pc = "idle"
        /\ UNCHANGED <<lw.len, lw.errs, lw.index, lw.stored, lw.turns>>
    BY <1>0, <1>16 DEF FileFails, GivesUp, To, LogShape, LogTypeOK, LogFields
  <2>2. /\ DOMAIN lf' = LogFields
        /\ lf'.odd = (lf.odd \union (IF lf.rec THEN {"stuck"} ELSE {}))
        /\ UNCHANGED <<lf.present, lf.called, lf.heard, lf.dev, lf.rec, lf.asrt, lf.queued, lf.rx, lf.tx,
                       lf.port, lf.open, lf.users, lf.reading, lf.started, lf.exc, lf.exit, lf.want,
                       lf.leaked, lf.ops, lf.bus, lf.set, lf.size, lf.num>>
    <3> DEFINE p == lf.port \/ ("file" = "port" /\ lf.open = 0)
               o == lf.odd \union (IF lf.rec THEN {"stuck"} ELSE {})
    <3>1. p \in BOOLEAN /\ p = lf.port BY <1>0 DEF LogTypeOK
    <3>2. lf' = [lf EXCEPT !.leaked = @ + 0, !.open = @ + (IF "file" = "port" THEN 1 ELSE 0), !.port = p, !.odd = o]
      BY <1>16 DEF FileFails, GivesUp
    <3>3. o = lf.odd \union (IF lf.rec THEN {"stuck"} ELSE {}) OBVIOUS
    <3> HIDE DEF p, o
    <3> QED BY <1>0, <3>1, <3>2, <3>3 DEF HoldersCounted, WorkHas, LogShape, LogTypeOK, LogFields
  <2>3. LogShape' BY <1>0, <2>1, <2>2 DEF LogShape, LogTypeOK
  <2>4. LogTypeOK'
    BY <1>0, <2>1, <2>2, LogFileAssumption DEF LogShape, LogTypeOK, HoldersCounted, WorkHas, BufferFits, Most, Buf
  <2>5. SettingsKept' BY <1>0, <2>1, <2>2 DEF SettingsKept
  <2>6. HoldersCounted'
    BY <1>0, <2>1, <2>2 DEF LogShape, LogTypeOK, HoldersCounted, WorkHas, DevAndWork
  <2>7. DevAndWork' BY <1>0, <2>1, <2>2 DEF LogTypeOK, HoldersCounted, DevAndWork
  <2>8. Wanted' BY <1>0, <2>1, <2>2 DEF LogTypeOK, DevAndWork, Wanted
  <2>9. BufferFits' BY <1>0, <2>1, <2>2 DEF LogShape, LogTypeOK, BufferFits, Most, Buf
  <2> QED BY <2>3, <2>4, <2>5, <2>6, <2>7, <2>8, <2>9 DEF LogInv
<1>17. CASE BufferFails
  <2>1. /\ DOMAIN lw' = DOMAIN lw /\ lw.pc = "port" /\ lw'.pc = "idle"
        /\ UNCHANGED <<lw.len, lw.errs, lw.index, lw.stored, lw.turns>>
    BY <1>0, <1>17 DEF BufferFails, GivesUp, To, LogShape, LogTypeOK, LogFields
  <2>2. /\ DOMAIN lf' = LogFields
        /\ lf'.odd = (lf.odd \union (IF lf.rec THEN {"stuck"} ELSE {}))
        /\ lf'.leaked = lf.leaked + 1 /\ lf'.open = lf.open + 1 /\ lf'.port \in BOOLEAN
        /\ UNCHANGED <<lf.present, lf.called, lf.heard, lf.dev, lf.rec, lf.asrt, lf.queued, lf.rx, lf.tx,
                       lf.users, lf.reading, lf.started, lf.exc, lf.exit, lf.want, lf.ops, lf.bus, lf.set,
                       lf.size, lf.num>>
    <3> DEFINE p == lf.port \/ ("port" = "port" /\ lf.open = 0)
               o == lf.odd \union (IF lf.rec THEN {"stuck"} ELSE {})
    <3>1. p \in BOOLEAN BY <1>0 DEF LogTypeOK
    <3>2. lf' = [lf EXCEPT !.leaked = @ + 1, !.open = @ + (IF "port" = "port" THEN 1 ELSE 0), !.port = p, !.odd = o]
      BY <1>17 DEF BufferFails, GivesUp
    <3>3. o = lf.odd \union (IF lf.rec THEN {"stuck"} ELSE {}) OBVIOUS
    <3> HIDE DEF p, o
    <3> QED BY <1>0, <3>1, <3>2, <3>3 DEF HoldersCounted, WorkHas, LogShape, LogTypeOK, LogFields
  <2>3. LogShape' BY <1>0, <2>1, <2>2 DEF LogShape, LogTypeOK
  <2>4. LogTypeOK'
    BY <1>0, <2>1, <2>2, LogFileAssumption DEF LogShape, LogTypeOK, HoldersCounted, WorkHas, BufferFits, Most, Buf
  <2>5. SettingsKept' BY <1>0, <2>1, <2>2 DEF SettingsKept
  <2>6. HoldersCounted'
    BY <1>0, <2>1, <2>2 DEF LogShape, LogTypeOK, HoldersCounted, WorkHas, DevAndWork
  <2>7. DevAndWork' BY <1>0, <2>1, <2>2 DEF LogTypeOK, HoldersCounted, DevAndWork
  <2>8. Wanted' BY <1>0, <2>1, <2>2 DEF LogTypeOK, DevAndWork, Wanted
  <2>9. BufferFits' BY <1>0, <2>1, <2>2 DEF LogShape, LogTypeOK, BufferFits, Most, Buf
  <2> QED BY <2>3, <2>4, <2>5, <2>6, <2>7, <2>8, <2>9 DEF LogInv
<1>18. CASE WorkStore
  <2>1. lf' = lf BY <1>18 DEF WorkStore
  <2>2. /\ DOMAIN lw' = DOMAIN lw /\ lw.pc = "store" /\ lw'.pc = "file"
        /\ lw'.index \in 0..255 /\ (lw'.index <= lf.num \/ lw'.index = 0) /\ lw'.stored \in {-1} \union 0..255 /\ lw'.turns = lw.turns + 1
        /\ UNCHANGED <<lw.len, lw.errs>>
    <3>1. PICK b \in 0..255, k \in {-1} \union 0..255 : lw' = [lw EXCEPT !.pc = "file", !.index = NextIndex(b, lf.num), !.stored = k, !.turns = @ + 1]
      <4>1. StackBytes \subseteq 0..255 BY DEF StackBytes
      <4>2. PICK b \in IF lw.stored = -1 THEN StackBytes ELSE {lw.stored} : \E k \in Keep(NextIndex(b, lf.num)) : lw' = [lw EXCEPT !.pc = "file", !.index = NextIndex(b, lf.num), !.stored = k, !.turns = @ + 1]
        BY <1>18 DEF WorkStore
      <4>3. b \in 0..255 BY <1>0, <4>1, <4>2 DEF LogTypeOK
      <4>4. NextIndex(b, lf.num) \in 0..255 BY <1>0, <4>3, IndexAllowed DEF SettingsKept
      <4>5. Keep(NextIndex(b, lf.num)) \subseteq {-1} \union 0..255 BY <1>0, <4>4 DEF Keep, LogTypeOK
      <4> QED BY <4>2, <4>3, <4>5
    <3>2. NextIndex(b, lf.num) \in 0..255 /\ (NextIndex(b, lf.num) <= lf.num \/ NextIndex(b, lf.num) = 0)
      BY <1>0, IndexAllowed DEF SettingsKept
    <3>3. lw.pc = "store" BY <1>18 DEF WorkStore
    <3> QED BY <1>0, <3>1, <3>2, <3>3 DEF LogShape, LogTypeOK, LogFields
  <2>3. LogShape' BY <1>0, <2>1, <2>2 DEF LogShape, LogTypeOK
  <2>4. LogTypeOK'
    BY <1>0, <2>1, <2>2, LogFileAssumption DEF LogShape, LogTypeOK, HoldersCounted, WorkHas, BufferFits, Most, Buf
  <2>5. SettingsKept' BY <1>0, <2>1, <2>2 DEF SettingsKept
  <2>6. HoldersCounted'
    BY <1>0, <2>1, <2>2 DEF LogShape, LogTypeOK, HoldersCounted, WorkHas, DevAndWork
  <2>7. DevAndWork' BY <1>0, <2>1, <2>2 DEF LogTypeOK, HoldersCounted, DevAndWork
  <2>8. Wanted' BY <1>0, <2>1, <2>2 DEF LogTypeOK, DevAndWork, Wanted
  <2>9. BufferFits' BY <1>0, <2>1, <2>2 DEF LogShape, LogTypeOK, BufferFits, Most, Buf
  <2> QED BY <2>3, <2>4, <2>5, <2>6, <2>7, <2>8, <2>9 DEF LogInv
<1>19. CASE WorkFile
  <2>1. lf' = lf BY <1>19 DEF WorkFile
  <2>2. /\ DOMAIN lw' = DOMAIN lw /\ lw.pc = "file" /\ lw'.pc = "port"
        /\ UNCHANGED <<lw.len, lw.errs, lw.index, lw.stored, lw.turns>>
    BY <1>0, <1>19 DEF WorkFile, To, LogShape, LogTypeOK, LogFields
  <2>3. LogShape' BY <1>0, <2>1, <2>2 DEF LogShape, LogTypeOK
  <2>4. LogTypeOK'
    BY <1>0, <2>1, <2>2, LogFileAssumption DEF LogShape, LogTypeOK, HoldersCounted, WorkHas, BufferFits, Most, Buf
  <2>5. SettingsKept' BY <1>0, <2>1, <2>2 DEF SettingsKept
  <2>6. HoldersCounted'
    BY <1>0, <2>1, <2>2 DEF LogShape, LogTypeOK, HoldersCounted, WorkHas, DevAndWork
  <2>7. DevAndWork' BY <1>0, <2>1, <2>2 DEF LogTypeOK, HoldersCounted, DevAndWork
  <2>8. Wanted' BY <1>0, <2>1, <2>2 DEF LogTypeOK, DevAndWork, Wanted
  <2>9. BufferFits' BY <1>0, <2>1, <2>2 DEF LogShape, LogTypeOK, BufferFits, Most, Buf
  <2> QED BY <2>3, <2>4, <2>5, <2>6, <2>7, <2>8, <2>9 DEF LogInv
<1>20. CASE WorkPort
  <2>1. /\ DOMAIN lw' = DOMAIN lw /\ lw.pc = "port" /\ lw'.pc = "loop"
        /\ lw'.len = 0 /\ lw'.errs = 0
        /\ UNCHANGED <<lw.index, lw.stored, lw.turns>>
    BY <1>0, <1>20 DEF WorkPort, To, LogShape, LogTypeOK, LogFields
  <2>2. /\ DOMAIN lf' = LogFields /\ lf'.open = lf.open + 1 /\ lf'.port \in BOOLEAN
        /\ UNCHANGED <<lf.present, lf.called, lf.heard, lf.dev, lf.rec, lf.asrt, lf.queued, lf.rx, lf.tx,
                       lf.users, lf.reading, lf.started, lf.exc, lf.exit, lf.want, lf.leaked, lf.ops,
                       lf.odd, lf.bus, lf.set, lf.size, lf.num>>
    <3> DEFINE p == lf.port \/ lf.open = 0
    <3>1. p \in BOOLEAN BY <1>0 DEF LogTypeOK
    <3>2. lf' = [lf EXCEPT !.open = @ + 1, !.port = p] BY <1>20 DEF WorkPort
    <3> HIDE DEF p
    <3> QED BY <1>0, <3>1, <3>2 DEF LogShape, LogTypeOK, LogFields
  <2>3. LogShape' BY <1>0, <2>1, <2>2 DEF LogShape, LogTypeOK
  <2>4. LogTypeOK'
    BY <1>0, <2>1, <2>2, LogFileAssumption DEF LogShape, LogTypeOK, HoldersCounted, WorkHas, BufferFits, Most, Buf
  <2>5. SettingsKept' BY <1>0, <2>1, <2>2 DEF SettingsKept
  <2>6. HoldersCounted'
    BY <1>0, <2>1, <2>2 DEF LogShape, LogTypeOK, HoldersCounted, WorkHas, DevAndWork
  <2>7. DevAndWork' BY <1>0, <2>1, <2>2 DEF LogTypeOK, HoldersCounted, DevAndWork
  <2>8. Wanted' BY <1>0, <2>1, <2>2 DEF LogTypeOK, DevAndWork, Wanted
  <2>9. BufferFits' BY <1>0, <2>1, <2>2 DEF LogShape, LogTypeOK, BufferFits, Most, Buf
  <2> QED BY <2>3, <2>4, <2>5, <2>6, <2>7, <2>8, <2>9 DEF LogInv
<1>21. CASE WorkLoop
  <2>1. CASE lf.rec \/ lf.asrt
    <3>1. /\ DOMAIN lw' = DOMAIN lw /\ lw.pc = "loop" /\ lw'.pc = "rx"
          /\ UNCHANGED <<lw.len, lw.errs, lw.index, lw.stored, lw.turns>>
      BY <1>0, <1>21, <2>1 DEF WorkLoop, To, LogShape, LogTypeOK, LogFields
    <3>2. /\ DOMAIN lf' = LogFields
          /\ lf'.rx \in BOOLEAN
          /\ UNCHANGED <<lf.present, lf.called, lf.heard, lf.dev, lf.rec, lf.asrt, lf.queued, lf.tx, lf.port,
                         lf.open, lf.users, lf.reading, lf.started, lf.exc, lf.exit, lf.want, lf.leaked,
                         lf.ops, lf.odd, lf.bus, lf.set, lf.size, lf.num>>
      <4>1. lf' = [lf EXCEPT !.rx = TRUE] BY <1>21, <2>1 DEF WorkLoop
      <4> QED BY <1>0, <4>1 DEF LogShape, LogTypeOK, LogFields
    <3>3. LogShape' BY <1>0, <2>1, <3>1, <3>2 DEF LogShape, LogTypeOK
    <3>4. LogTypeOK'
      BY <1>0, <2>1, <3>1, <3>2, LogFileAssumption DEF LogShape, LogTypeOK, HoldersCounted, WorkHas, BufferFits,
         Most, Buf
    <3>5. SettingsKept' BY <1>0, <2>1, <3>1, <3>2 DEF SettingsKept
    <3>6. HoldersCounted'
      BY <1>0, <2>1, <3>1, <3>2 DEF LogShape, LogTypeOK, HoldersCounted, WorkHas, DevAndWork
    <3>7. DevAndWork' BY <1>0, <2>1, <3>1, <3>2 DEF LogTypeOK, HoldersCounted, DevAndWork
    <3>8. Wanted' BY <1>0, <2>1, <3>1, <3>2 DEF LogTypeOK, DevAndWork, Wanted
    <3>9. BufferFits' BY <1>0, <2>1, <3>1, <3>2 DEF LogShape, LogTypeOK, BufferFits, Most, Buf
    <3> QED BY <3>3, <3>4, <3>5, <3>6, <3>7, <3>8, <3>9 DEF LogInv
  <2>2. CASE ~(lf.rec \/ lf.asrt)
    <3>1. /\ DOMAIN lw' = DOMAIN lw /\ lw.pc = "loop" /\ lw'.pc = "end"
          /\ UNCHANGED <<lw.len, lw.errs, lw.index, lw.stored, lw.turns>>
      BY <1>0, <1>21, <2>2 DEF WorkLoop, To, LogShape, LogTypeOK, LogFields
    <3>2. lf' = lf BY <1>21, <2>2 DEF WorkLoop
    <3>3. LogShape' BY <1>0, <2>2, <3>1, <3>2 DEF LogShape, LogTypeOK
    <3>4. LogTypeOK'
      BY <1>0, <2>2, <3>1, <3>2, LogFileAssumption DEF LogShape, LogTypeOK, HoldersCounted, WorkHas, BufferFits,
         Most, Buf
    <3>5. SettingsKept' BY <1>0, <2>2, <3>1, <3>2 DEF SettingsKept
    <3>6. HoldersCounted'
      BY <1>0, <2>2, <3>1, <3>2 DEF LogShape, LogTypeOK, HoldersCounted, WorkHas, DevAndWork
    <3>7. DevAndWork' BY <1>0, <2>2, <3>1, <3>2 DEF LogTypeOK, HoldersCounted, DevAndWork
    <3>8. Wanted' BY <1>0, <2>2, <3>1, <3>2 DEF LogTypeOK, DevAndWork, Wanted
    <3>9. BufferFits' BY <1>0, <2>2, <3>1, <3>2 DEF LogShape, LogTypeOK, BufferFits, Most, Buf
    <3> QED BY <3>3, <3>4, <3>5, <3>6, <3>7, <3>8, <3>9 DEF LogInv
  <2> QED BY <1>0, <1>21, <2>1, <2>2 DEF WorkLoop
<1>22. CASE WorkGets
  <2>1. /\ DOMAIN lf' = LogFields
        /\ lf'.rx \in BOOLEAN
        /\ UNCHANGED <<lf.present, lf.called, lf.heard, lf.dev, lf.rec, lf.asrt, lf.queued, lf.tx, lf.port,
                       lf.open, lf.users, lf.reading, lf.started, lf.exc, lf.exit, lf.want, lf.leaked,
                       lf.ops, lf.odd, lf.bus, lf.set, lf.size, lf.num>>
    BY <1>0, <1>22 DEF WorkGets, LogShape, LogTypeOK, LogFields
  <2>2. /\ DOMAIN lw' = DOMAIN lw /\ lw.pc = "rx" /\ lw'.pc = "write"
        /\ lw'.len \in 0..Buf /\ lw'.errs = 0
        /\ UNCHANGED <<lw.index, lw.stored, lw.turns>>
    BY <1>0, <1>22 DEF WorkGets, BufferFits, Most, Buf, To, LogShape, LogTypeOK, LogFields
  <2>3. LogShape' BY <1>0, <2>1, <2>2 DEF LogShape, LogTypeOK
  <2>4. LogTypeOK'
    BY <1>0, <2>1, <2>2, LogFileAssumption DEF LogShape, LogTypeOK, HoldersCounted, WorkHas, BufferFits, Most, Buf
  <2>5. SettingsKept' BY <1>0, <2>1, <2>2 DEF SettingsKept
  <2>6. HoldersCounted'
    BY <1>0, <2>1, <2>2 DEF LogShape, LogTypeOK, HoldersCounted, WorkHas, DevAndWork
  <2>7. DevAndWork' BY <1>0, <2>1, <2>2 DEF LogTypeOK, HoldersCounted, DevAndWork
  <2>8. Wanted' BY <1>0, <2>1, <2>2 DEF LogTypeOK, DevAndWork, Wanted
  <2>9. BufferFits' BY <1>0, <2>1, <2>2 DEF LogShape, LogTypeOK, BufferFits, Most, Buf
  <2> QED BY <2>3, <2>4, <2>5, <2>6, <2>7, <2>8, <2>9 DEF LogInv
<1>23. CASE WorkGetsNone
  <2>1. CASE lf' = [Halt(lf) EXCEPT !.rx = FALSE]
    <3>1. /\ DOMAIN lw' = DOMAIN lw /\ lw.pc = "rx" /\ lw'.pc = "write"
          /\ lw'.errs \in 0..(LogErrors + 1)
          /\ UNCHANGED <<lw.len, lw.index, lw.stored, lw.turns>>
      BY <1>0, <1>23, LogFileAssumption DEF WorkGetsNone, LogShape, LogTypeOK, LogFields
    <3>2. /\ DOMAIN lf' = LogFields /\ {lf'.rec, lf'.port, lf'.want} \subseteq BOOLEAN /\ ~lf'.rec /\ ~lf'.port /\ ~lf'.want
          /\ lf.queued \/ lw.pc = "begin" => "stopmissed" \in lf'.odd
          /\ "deaf" \in lf.odd => "deaf" \in lf'.odd
          /\ lf'.asrt \in BOOLEAN /\ lf'.rx \in BOOLEAN
          /\ UNCHANGED <<lf.present, lf.called, lf.heard, lf.dev, lf.queued, lf.tx, lf.open, lf.users,
                         lf.reading, lf.started, lf.exc, lf.exit, lf.leaked, lf.ops, lf.bus, lf.set, lf.size,
                         lf.num>>
      <4> DEFINE l == [lf EXCEPT !.asrt = FALSE]
                 m == skw_modem_log_stop_rec(l)
      <4>1. lf' = [m EXCEPT !.rx = FALSE] BY <2>1 DEF Halt
      <4>2. /\ DOMAIN l = LogFields /\ l.asrt \in BOOLEAN /\ \A x \in LogFields \ {"asrt"} : l[x] = lf[x]
        BY <1>0 DEF LogShape, LogTypeOK, LogFields
      <4> HIDE DEF l
      <4>3. /\ DOMAIN m = LogFields /\ {m.rec, m.port, m.want} \subseteq BOOLEAN /\ ~m.rec /\ ~m.port /\ ~m.want
            /\ \A x \in StopLeaves : m[x] = l[x]
            /\ l.queued \/ lw.pc = "begin" => "stopmissed" \in m.odd
            /\ "deaf" \in l.odd => "deaf" \in m.odd
        BY <4>2, LogStops
      <4> HIDE DEF m
      <4>6. \A x \in StopLeaves \ {"asrt"} : m[x] = lf[x] BY <4>2, <4>3 DEF StopLeaves
      <4>7. l.queued = lf.queued /\ l.odd = lf.odd /\ m.asrt = l.asrt
        BY <4>2, <4>3 DEF StopLeaves, LogFields
      <4>8. DOMAIN lf' = LogFields /\ lf'.rx \in BOOLEAN /\ \A x \in LogFields \ {"rx"} : lf'[x] = m[x]
        BY <4>1, <4>3 DEF LogFields
      <4>9. \A x \in StopLeaves \ {"rx", "asrt"} : lf'[x] = lf[x] BY <4>6, <4>8 DEF StopLeaves
      <4>10. UNCHANGED <<lf.present, lf.called, lf.heard, lf.dev, lf.queued, lf.tx, lf.open, lf.users,
                         lf.reading, lf.started, lf.exc, lf.exit, lf.leaked, lf.ops, lf.bus, lf.set, lf.size,
                         lf.num>>
        BY <4>9 DEF StopLeaves, LogFields
      <4>11. lf'.rec = m.rec /\ lf'.port = m.port /\ lf'.want = m.want /\ lf'.odd = m.odd /\ lf'.asrt = m.asrt
        BY <4>8 DEF LogFields
      <4> QED BY <1>0, <4>2, <4>3, <4>7, <4>8, <4>10, <4>11
    <3>3. LogShape' BY <1>0, <3>1, <3>2 DEF WorkGetsNone, LogShape, LogTypeOK
    <3>4. LogTypeOK'
      BY <1>0, <3>1, <3>2, LogFileAssumption DEF WorkGetsNone, LogShape, LogTypeOK, HoldersCounted, WorkHas,
         BufferFits, Most, Buf
    <3>5. SettingsKept' BY <1>0, <3>1, <3>2 DEF WorkGetsNone, SettingsKept
    <3>6. HoldersCounted'
      BY <1>0, <3>1, <3>2 DEF WorkGetsNone, LogShape, LogTypeOK, HoldersCounted, WorkHas, DevAndWork
    <3>7. DevAndWork' BY <1>0, <3>1, <3>2 DEF WorkGetsNone, LogTypeOK, HoldersCounted, DevAndWork
    <3>8. Wanted' BY <1>0, <3>1, <3>2 DEF WorkGetsNone, LogTypeOK, DevAndWork, Wanted
    <3>9. BufferFits' BY <1>0, <3>1, <3>2 DEF WorkGetsNone, LogShape, LogTypeOK, BufferFits, Most, Buf
    <3> QED BY <3>3, <3>4, <3>5, <3>6, <3>7, <3>8, <3>9 DEF LogInv
  <2>2. CASE lf' = [lf EXCEPT !.rx = FALSE]
    <3>1. /\ DOMAIN lw' = DOMAIN lw /\ lw.pc = "rx" /\ lw'.pc = "write"
          /\ lw'.errs \in 0..(LogErrors + 1)
          /\ UNCHANGED <<lw.len, lw.index, lw.stored, lw.turns>>
      BY <1>0, <1>23, LogFileAssumption DEF WorkGetsNone, LogShape, LogTypeOK, LogFields
    <3>2. /\ DOMAIN lf' = LogFields
          /\ lf'.rx \in BOOLEAN
          /\ UNCHANGED <<lf.present, lf.called, lf.heard, lf.dev, lf.rec, lf.asrt, lf.queued, lf.tx, lf.port,
                         lf.open, lf.users, lf.reading, lf.started, lf.exc, lf.exit, lf.want, lf.leaked,
                         lf.ops, lf.odd, lf.bus, lf.set, lf.size, lf.num>>
      BY <1>0, <2>2 DEF LogShape, LogTypeOK, LogFields
    <3>3. LogShape' BY <1>0, <3>1, <3>2 DEF WorkGetsNone, LogShape, LogTypeOK
    <3>4. LogTypeOK'
      BY <1>0, <3>1, <3>2, LogFileAssumption DEF WorkGetsNone, LogShape, LogTypeOK, HoldersCounted, WorkHas,
         BufferFits, Most, Buf
    <3>5. SettingsKept' BY <1>0, <3>1, <3>2 DEF WorkGetsNone, SettingsKept
    <3>6. HoldersCounted'
      BY <1>0, <3>1, <3>2 DEF WorkGetsNone, LogShape, LogTypeOK, HoldersCounted, WorkHas, DevAndWork
    <3>7. DevAndWork' BY <1>0, <3>1, <3>2 DEF WorkGetsNone, LogTypeOK, HoldersCounted, DevAndWork
    <3>8. Wanted' BY <1>0, <3>1, <3>2 DEF WorkGetsNone, LogTypeOK, DevAndWork, Wanted
    <3>9. BufferFits' BY <1>0, <3>1, <3>2 DEF WorkGetsNone, LogShape, LogTypeOK, BufferFits, Most, Buf
    <3> QED BY <3>3, <3>4, <3>5, <3>6, <3>7, <3>8, <3>9 DEF LogInv
  <2> QED BY <1>0, <1>23, <2>1, <2>2 DEF WorkGetsNone
<1>24. CASE WorkKeeps
  <2>1. lf' = lf BY <1>24 DEF WorkKeeps
  <2>2. /\ DOMAIN lw' = DOMAIN lw /\ lw.pc = "write" /\ lw'.pc = "loop"
        /\ lw.len + Most(lf.bus) <= Buf
        /\ UNCHANGED <<lw.len, lw.errs, lw.index, lw.stored, lw.turns>>
    BY <1>0, <1>24 DEF WorkKeeps, Due, Most, Buf, To, LogShape, LogTypeOK, LogFields
  <2>3. LogShape' BY <1>0, <2>1, <2>2 DEF LogShape, LogTypeOK
  <2>4. LogTypeOK'
    BY <1>0, <2>1, <2>2, LogFileAssumption DEF LogShape, LogTypeOK, HoldersCounted, WorkHas, BufferFits, Most, Buf
  <2>5. SettingsKept' BY <1>0, <2>1, <2>2 DEF SettingsKept
  <2>6. HoldersCounted'
    BY <1>0, <2>1, <2>2 DEF LogShape, LogTypeOK, HoldersCounted, WorkHas, DevAndWork
  <2>7. DevAndWork' BY <1>0, <2>1, <2>2 DEF LogTypeOK, HoldersCounted, DevAndWork
  <2>8. Wanted' BY <1>0, <2>1, <2>2 DEF LogTypeOK, DevAndWork, Wanted
  <2>9. BufferFits' BY <1>0, <2>1, <2>2 DEF LogShape, LogTypeOK, BufferFits, Most, Buf
  <2> QED BY <2>3, <2>4, <2>5, <2>6, <2>7, <2>8, <2>9 DEF LogInv
<1>25. CASE WorkWrites
  <2>1. CASE lf' = lf
    <3>1. /\ DOMAIN lw' = DOMAIN lw /\ lw.pc = "write" /\ lw'.pc = "loop"
          /\ lw'.len = 0
          /\ UNCHANGED <<lw.errs, lw.index, lw.stored, lw.turns>>
      BY <1>0, <1>25 DEF WorkWrites, To, LogShape, LogTypeOK, LogFields
    <3>2. LogShape' BY <1>0, <2>1, <3>1 DEF LogShape, LogTypeOK
    <3>3. LogTypeOK'
      BY <1>0, <2>1, <3>1, LogFileAssumption DEF LogShape, LogTypeOK, HoldersCounted, WorkHas, BufferFits, Most,
         Buf
    <3>4. SettingsKept' BY <1>0, <2>1, <3>1 DEF SettingsKept
    <3>5. HoldersCounted'
      BY <1>0, <2>1, <3>1 DEF LogShape, LogTypeOK, HoldersCounted, WorkHas, DevAndWork
    <3>6. DevAndWork' BY <1>0, <2>1, <3>1 DEF LogTypeOK, HoldersCounted, DevAndWork
    <3>7. Wanted' BY <1>0, <2>1, <3>1 DEF LogTypeOK, DevAndWork, Wanted
    <3>8. BufferFits' BY <1>0, <2>1, <3>1 DEF LogShape, LogTypeOK, BufferFits, Most, Buf
    <3> QED BY <3>2, <3>3, <3>4, <3>5, <3>6, <3>7, <3>8 DEF LogInv
  <2>2. CASE lf' = skw_modem_log_stop_rec(lf)
    <3>1. /\ DOMAIN lw' = DOMAIN lw /\ lw.pc = "write" /\ lw'.pc = "loop"
          /\ lw'.len = 0
          /\ UNCHANGED <<lw.errs, lw.index, lw.stored, lw.turns>>
      BY <1>0, <1>25 DEF WorkWrites, To, LogShape, LogTypeOK, LogFields
    <3>2. /\ DOMAIN lf' = LogFields /\ {lf'.rec, lf'.port, lf'.want} \subseteq BOOLEAN /\ ~lf'.rec /\ ~lf'.port /\ ~lf'.want
          /\ lf.queued \/ lw.pc = "begin" => "stopmissed" \in lf'.odd
          /\ "deaf" \in lf.odd => "deaf" \in lf'.odd
          /\ UNCHANGED <<lf.present, lf.called, lf.heard, lf.dev, lf.asrt, lf.queued, lf.rx, lf.tx, lf.open,
                         lf.users, lf.reading, lf.started, lf.exc, lf.exit, lf.leaked, lf.ops, lf.bus,
                         lf.set, lf.size, lf.num>>
      <4> DEFINE l == lf
                 m == skw_modem_log_stop_rec(l)
      <4>1. lf' = m BY <2>2
      <4>2. DOMAIN l = LogFields BY <1>0 DEF LogShape
      <4>3. /\ DOMAIN m = LogFields /\ {m.rec, m.port, m.want} \subseteq BOOLEAN /\ ~m.rec /\ ~m.port /\ ~m.want
            /\ \A x \in StopLeaves : m[x] = l[x]
            /\ l.queued \/ lw.pc = "begin" => "stopmissed" \in m.odd
            /\ "deaf" \in l.odd => "deaf" \in m.odd
        BY <4>2, LogStops
      <4> HIDE DEF m
      <4> QED BY <1>0, <4>1, <4>2, <4>3 DEF StopLeaves, LogShape, LogTypeOK, LogFields
    <3>3. LogShape' BY <1>0, <3>1, <3>2 DEF WorkWrites, LogShape, LogTypeOK
    <3>4. LogTypeOK'
      BY <1>0, <3>1, <3>2, LogFileAssumption DEF WorkWrites, LogShape, LogTypeOK, HoldersCounted, WorkHas,
         BufferFits, Most, Buf
    <3>5. SettingsKept' BY <1>0, <3>1, <3>2 DEF WorkWrites, SettingsKept
    <3>6. HoldersCounted'
      BY <1>0, <3>1, <3>2 DEF WorkWrites, LogShape, LogTypeOK, HoldersCounted, WorkHas, DevAndWork
    <3>7. DevAndWork' BY <1>0, <3>1, <3>2 DEF WorkWrites, LogTypeOK, HoldersCounted, DevAndWork
    <3>8. Wanted' BY <1>0, <3>1, <3>2 DEF WorkWrites, LogTypeOK, DevAndWork, Wanted
    <3>9. BufferFits' BY <1>0, <3>1, <3>2 DEF WorkWrites, LogShape, LogTypeOK, BufferFits, Most, Buf
    <3> QED BY <3>3, <3>4, <3>5, <3>6, <3>7, <3>8, <3>9 DEF LogInv
  <2> QED BY <1>0, <1>25, <2>1, <2>2 DEF WorkWrites, Written
<1>26. CASE WorkTurns
  <2>1. CASE lf' = lf
    <3>1. /\ DOMAIN lw' = DOMAIN lw /\ lw.pc = "write" /\ lw'.pc = "loop"
          /\ lw'.len = 0
          /\ lw'.index \in 0..255 /\ (lw'.index <= lf.num \/ lw'.index = 0) /\ lw'.stored \in {-1} \union 0..255 /\ lw'.turns = lw.turns + 1
          /\ UNCHANGED <<lw.errs>>
      <4>1. NextIndex(lw.index, lf.num) \in 0..255 /\ (NextIndex(lw.index, lf.num) <= lf.num \/ NextIndex(lw.index, lf.num) = 0)
        BY <1>0, IndexAllowed DEF SettingsKept, LogTypeOK
      <4>2. Keep(NextIndex(lw.index, lf.num)) \subseteq {-1} \union 0..255
        BY <1>0, <4>1 DEF Keep, LogTypeOK
      <4>3. PICK k \in Keep(NextIndex(lw.index, lf.num)) : lw' = [lw EXCEPT !.pc = "loop", !.len = 0, !.index = NextIndex(lw.index, lf.num), !.stored = k, !.turns = @ + 1]
        BY <1>26 DEF WorkTurns
      <4>4. lw.pc = "write" BY <1>26 DEF WorkTurns
      <4> QED BY <1>0, <4>1, <4>2, <4>3, <4>4 DEF LogShape, LogTypeOK, LogFields
    <3>2. LogShape' BY <1>0, <2>1, <3>1 DEF LogShape, LogTypeOK
    <3>3. LogTypeOK'
      BY <1>0, <2>1, <3>1, LogFileAssumption DEF LogShape, LogTypeOK, HoldersCounted, WorkHas, BufferFits, Most,
         Buf
    <3>4. SettingsKept' BY <1>0, <2>1, <3>1 DEF SettingsKept
    <3>5. HoldersCounted'
      BY <1>0, <2>1, <3>1 DEF LogShape, LogTypeOK, HoldersCounted, WorkHas, DevAndWork
    <3>6. DevAndWork' BY <1>0, <2>1, <3>1 DEF LogTypeOK, HoldersCounted, DevAndWork
    <3>7. Wanted' BY <1>0, <2>1, <3>1 DEF LogTypeOK, DevAndWork, Wanted
    <3>8. BufferFits' BY <1>0, <2>1, <3>1 DEF LogShape, LogTypeOK, BufferFits, Most, Buf
    <3> QED BY <3>2, <3>3, <3>4, <3>5, <3>6, <3>7, <3>8 DEF LogInv
  <2>2. CASE lf' = skw_modem_log_stop_rec(lf)
    <3>1. /\ DOMAIN lw' = DOMAIN lw /\ lw.pc = "write" /\ lw'.pc = "loop"
          /\ lw'.len = 0
          /\ lw'.index \in 0..255 /\ (lw'.index <= lf.num \/ lw'.index = 0) /\ lw'.stored \in {-1} \union 0..255 /\ lw'.turns = lw.turns + 1
          /\ UNCHANGED <<lw.errs>>
      <4>1. NextIndex(lw.index, lf.num) \in 0..255 /\ (NextIndex(lw.index, lf.num) <= lf.num \/ NextIndex(lw.index, lf.num) = 0)
        BY <1>0, IndexAllowed DEF SettingsKept, LogTypeOK
      <4>2. Keep(NextIndex(lw.index, lf.num)) \subseteq {-1} \union 0..255
        BY <1>0, <4>1 DEF Keep, LogTypeOK
      <4>3. PICK k \in Keep(NextIndex(lw.index, lf.num)) : lw' = [lw EXCEPT !.pc = "loop", !.len = 0, !.index = NextIndex(lw.index, lf.num), !.stored = k, !.turns = @ + 1]
        BY <1>26 DEF WorkTurns
      <4>4. lw.pc = "write" BY <1>26 DEF WorkTurns
      <4> QED BY <1>0, <4>1, <4>2, <4>3, <4>4 DEF LogShape, LogTypeOK, LogFields
    <3>2. /\ DOMAIN lf' = LogFields /\ {lf'.rec, lf'.port, lf'.want} \subseteq BOOLEAN /\ ~lf'.rec /\ ~lf'.port /\ ~lf'.want
          /\ lf.queued \/ lw.pc = "begin" => "stopmissed" \in lf'.odd
          /\ "deaf" \in lf.odd => "deaf" \in lf'.odd
          /\ UNCHANGED <<lf.present, lf.called, lf.heard, lf.dev, lf.asrt, lf.queued, lf.rx, lf.tx, lf.open,
                         lf.users, lf.reading, lf.started, lf.exc, lf.exit, lf.leaked, lf.ops, lf.bus,
                         lf.set, lf.size, lf.num>>
      <4> DEFINE l == lf
                 m == skw_modem_log_stop_rec(l)
      <4>1. lf' = m BY <2>2
      <4>2. DOMAIN l = LogFields BY <1>0 DEF LogShape
      <4>3. /\ DOMAIN m = LogFields /\ {m.rec, m.port, m.want} \subseteq BOOLEAN /\ ~m.rec /\ ~m.port /\ ~m.want
            /\ \A x \in StopLeaves : m[x] = l[x]
            /\ l.queued \/ lw.pc = "begin" => "stopmissed" \in m.odd
            /\ "deaf" \in l.odd => "deaf" \in m.odd
        BY <4>2, LogStops
      <4> HIDE DEF m
      <4> QED BY <1>0, <4>1, <4>2, <4>3 DEF StopLeaves, LogShape, LogTypeOK, LogFields
    <3>3. LogShape' BY <1>0, <3>1, <3>2 DEF WorkTurns, LogShape, LogTypeOK
    <3>4. LogTypeOK'
      BY <1>0, <3>1, <3>2, LogFileAssumption DEF WorkTurns, LogShape, LogTypeOK, HoldersCounted, WorkHas,
         BufferFits, Most, Buf
    <3>5. SettingsKept' BY <1>0, <3>1, <3>2 DEF WorkTurns, SettingsKept
    <3>6. HoldersCounted'
      BY <1>0, <3>1, <3>2 DEF WorkTurns, LogShape, LogTypeOK, HoldersCounted, WorkHas, DevAndWork
    <3>7. DevAndWork' BY <1>0, <3>1, <3>2 DEF WorkTurns, LogTypeOK, HoldersCounted, DevAndWork
    <3>8. Wanted' BY <1>0, <3>1, <3>2 DEF WorkTurns, LogTypeOK, DevAndWork, Wanted
    <3>9. BufferFits' BY <1>0, <3>1, <3>2 DEF WorkTurns, LogShape, LogTypeOK, BufferFits, Most, Buf
    <3> QED BY <3>3, <3>4, <3>5, <3>6, <3>7, <3>8, <3>9 DEF LogInv
  <2> QED BY <1>0, <1>26, <2>1, <2>2 DEF WorkTurns, Written
<1>27. CASE TurnFails
  <2>1. CASE GivesUp("write", lf, 1)
    <3>1. /\ DOMAIN lw' = DOMAIN lw /\ lw.pc = "write" /\ lw'.pc = "idle"
          /\ UNCHANGED <<lw.len, lw.errs, lw.index, lw.stored, lw.turns>>
      BY <1>0, <1>27 DEF TurnFails, GivesUp, To, LogShape, LogTypeOK, LogFields
    <3>2. /\ DOMAIN lf' = LogFields
          /\ lf'.odd = (lf.odd \union (IF lf.rec THEN {"stuck"} ELSE {}))
          /\ lf'.leaked = lf.leaked + 1
          /\ UNCHANGED <<lf.present, lf.called, lf.heard, lf.dev, lf.rec, lf.asrt, lf.queued, lf.rx, lf.tx,
                         lf.port, lf.open, lf.users, lf.reading, lf.started, lf.exc, lf.exit, lf.want,
                         lf.ops, lf.bus, lf.set, lf.size, lf.num>>
      <4> DEFINE p == lf.port \/ ("write" = "port" /\ lf.open = 0)
                 o == lf.odd \union (IF lf.rec THEN {"stuck"} ELSE {})
      <4>1. p \in BOOLEAN /\ p = lf.port BY <1>0 DEF LogTypeOK
      <4>2. lf' = [lf EXCEPT !.leaked = @ + 1, !.open = @ + (IF "write" = "port" THEN 1 ELSE 0), !.port = p, !.odd = o]
        BY <2>1 DEF GivesUp
      <4>3. o = lf.odd \union (IF lf.rec THEN {"stuck"} ELSE {}) OBVIOUS
      <4> HIDE DEF p, o
      <4> QED BY <1>0, <4>1, <4>2, <4>3 DEF HoldersCounted, WorkHas, LogShape, LogTypeOK, LogFields
    <3>3. LogShape' BY <1>0, <3>1, <3>2 DEF TurnFails, LogShape, LogTypeOK
    <3>4. LogTypeOK'
      BY <1>0, <3>1, <3>2, LogFileAssumption DEF TurnFails, LogShape, LogTypeOK, HoldersCounted, WorkHas,
         BufferFits, Most, Buf
    <3>5. SettingsKept' BY <1>0, <3>1, <3>2 DEF TurnFails, SettingsKept
    <3>6. HoldersCounted'
      BY <1>0, <3>1, <3>2 DEF TurnFails, LogShape, LogTypeOK, HoldersCounted, WorkHas, DevAndWork
    <3>7. DevAndWork' BY <1>0, <3>1, <3>2 DEF TurnFails, LogTypeOK, HoldersCounted, DevAndWork
    <3>8. Wanted' BY <1>0, <3>1, <3>2 DEF TurnFails, LogTypeOK, DevAndWork, Wanted
    <3>9. BufferFits' BY <1>0, <3>1, <3>2 DEF TurnFails, LogShape, LogTypeOK, BufferFits, Most, Buf
    <3> QED BY <3>3, <3>4, <3>5, <3>6, <3>7, <3>8, <3>9 DEF LogInv
  <2>2. CASE GivesUp("write", skw_modem_log_stop_rec(lf), 1)
    <3>1. /\ DOMAIN lw' = DOMAIN lw /\ lw.pc = "write" /\ lw'.pc = "idle"
          /\ UNCHANGED <<lw.len, lw.errs, lw.index, lw.stored, lw.turns>>
      BY <1>0, <1>27 DEF TurnFails, GivesUp, To, LogShape, LogTypeOK, LogFields
    <3>2. /\ DOMAIN lf' = LogFields /\ {lf'.rec, lf'.port, lf'.want} \subseteq BOOLEAN /\ ~lf'.rec /\ ~lf'.want
          /\ lf.queued \/ lw.pc = "begin" => "stopmissed" \in lf'.odd
          /\ "deaf" \in lf.odd => "deaf" \in lf'.odd
          /\ lf'.leaked = lf.leaked + 1
          /\ UNCHANGED <<lf.present, lf.called, lf.heard, lf.dev, lf.asrt, lf.queued, lf.rx, lf.tx, lf.open,
                         lf.users, lf.reading, lf.started, lf.exc, lf.exit, lf.ops, lf.bus, lf.set, lf.size,
                         lf.num>>
      <4> DEFINE m == skw_modem_log_stop_rec(lf)
                 p == m.port \/ ("write" = "port" /\ m.open = 0)
                 o == m.odd \union (IF m.rec THEN {"stuck"} ELSE {})
      <4>1. lf' = [m EXCEPT !.leaked = @ + 1, !.open = @ + (IF "write" = "port" THEN 1 ELSE 0), !.port = p, !.odd = o]
        BY <2>2 DEF GivesUp
      <4>2. DOMAIN lf = LogFields BY <1>0 DEF LogShape
      <4>3. /\ DOMAIN m = LogFields /\ {m.rec, m.port, m.want} \subseteq BOOLEAN /\ ~m.rec /\ ~m.port /\ ~m.want
            /\ \A x \in StopLeaves : m[x] = lf[x]
            /\ lf.queued \/ lw.pc = "begin" => "stopmissed" \in m.odd
            /\ "deaf" \in lf.odd => "deaf" \in m.odd
        BY <4>2, LogStops
      <4>4. p \in BOOLEAN /\ m.odd \subseteq o BY <4>3
      <4> HIDE DEF m, p, o
      <4> QED
        BY <1>0, <4>1, <4>2, <4>3, <4>4 DEF StopLeaves, HoldersCounted, WorkHas, LogShape, LogTypeOK, LogFields
    <3>3. LogShape' BY <1>0, <3>1, <3>2 DEF TurnFails, LogShape, LogTypeOK
    <3>4. LogTypeOK'
      BY <1>0, <3>1, <3>2, LogFileAssumption DEF TurnFails, LogShape, LogTypeOK, HoldersCounted, WorkHas,
         BufferFits, Most, Buf
    <3>5. SettingsKept' BY <1>0, <3>1, <3>2 DEF TurnFails, SettingsKept
    <3>6. HoldersCounted'
      BY <1>0, <3>1, <3>2 DEF TurnFails, LogShape, LogTypeOK, HoldersCounted, WorkHas, DevAndWork
    <3>7. DevAndWork' BY <1>0, <3>1, <3>2 DEF TurnFails, LogTypeOK, HoldersCounted, DevAndWork
    <3>8. Wanted' BY <1>0, <3>1, <3>2 DEF TurnFails, LogTypeOK, DevAndWork, Wanted
    <3>9. BufferFits' BY <1>0, <3>1, <3>2 DEF TurnFails, LogShape, LogTypeOK, BufferFits, Most, Buf
    <3> QED BY <3>3, <3>4, <3>5, <3>6, <3>7, <3>8, <3>9 DEF LogInv
  <2> QED BY <1>0, <1>27, <2>1, <2>2 DEF TurnFails, Written
<1>28. CASE WorkEnds
  <2>1. /\ DOMAIN lw' = DOMAIN lw /\ lw.pc = "end" /\ lw'.pc = "idle"
        /\ UNCHANGED <<lw.len, lw.errs, lw.index, lw.stored, lw.turns>>
    BY <1>0, <1>28 DEF WorkEnds, To, LogShape, LogTypeOK, LogFields
  <2>2. /\ DOMAIN lf' = LogFields
        /\ lf'.open = lf.open - 1 /\ lf'.port \in BOOLEAN
        /\ UNCHANGED <<lf.present, lf.called, lf.heard, lf.dev, lf.rec, lf.asrt, lf.queued, lf.rx, lf.tx,
                       lf.users, lf.reading, lf.started, lf.exc, lf.exit, lf.want, lf.leaked, lf.ops,
                       lf.odd, lf.bus, lf.set, lf.size, lf.num>>
    BY <1>0, <1>28 DEF WorkEnds, LogShape, LogTypeOK, LogFields
  <2>3. LogShape' BY <1>0, <2>1, <2>2 DEF LogShape, LogTypeOK
  <2>4. LogTypeOK'
    BY <1>0, <2>1, <2>2, LogFileAssumption DEF LogShape, LogTypeOK, HoldersCounted, WorkHas, BufferFits, Most, Buf
  <2>5. SettingsKept' BY <1>0, <2>1, <2>2 DEF SettingsKept
  <2>6. HoldersCounted'
    BY <1>0, <2>1, <2>2 DEF LogShape, LogTypeOK, HoldersCounted, WorkHas, DevAndWork
  <2>7. DevAndWork' BY <1>0, <2>1, <2>2 DEF LogTypeOK, HoldersCounted, DevAndWork
  <2>8. Wanted' BY <1>0, <2>1, <2>2 DEF LogTypeOK, DevAndWork, Wanted
  <2>9. BufferFits' BY <1>0, <2>1, <2>2 DEF LogShape, LogTypeOK, BufferFits, Most, Buf
  <2> QED BY <2>3, <2>4, <2>5, <2>6, <2>7, <2>8, <2>9 DEF LogInv
<1>29. CASE UNCHANGED logVars
  BY <1>0, <1>29 DEF LogInv, logVars, LogShape, LogTypeOK, HoldersCounted, WorkHas, BufferFits, Most, Buf,
     SettingsKept, DevAndWork, Wanted
<1> QED BY <1>1, <1>2, <1>3, <1>4, <1>5, <1>6, <1>7, <1>8, <1>9, <1>10, <1>11, <1>12, <1>13, <1>14,
     <1>15, <1>16, <1>17, <1>18, <1>19, <1>20, <1>21, <1>22, <1>23, <1>24, <1>25, <1>26, <1>27,
     <1>28, <1>29 DEF LogNext

\* The initial state has it.
LEMMA LogBegin ==
    ASSUME LogInit
    PROVE  LogInv
<1>1. PICK s \in LogSettings, bus \in {"SDIO", "USB"}, spent \in {0, 1} :
        lf = [present |-> TRUE, called |-> FALSE, heard |-> FALSE, dev |-> "none", rec |-> FALSE, asrt |-> FALSE, queued |-> FALSE,
              rx |-> FALSE, tx |-> FALSE, port |-> FALSE, open |-> 0, users |-> 0, reading |-> FALSE, started |-> FALSE,
              exc |-> FALSE, exit |-> "no", want |-> FALSE, leaked |-> 0, ops |-> spent, odd |-> {}, bus |-> bus,
              set |-> s, size |-> SizeOf(s[1]), num |-> NumOf(s[1], s[2])]
  BY DEF LogInit
<1>2. lw = [pc |-> "idle", len |-> 0, errs |-> 0, index |-> 0, stored |-> -1, turns |-> 0]
  BY DEF LogInit
<1>3. s \in Int \X Int /\ s[1] \in Int /\ s[2] \in Int /\ NumOf(s[1], s[2]) \in Int
  <2>1. s \in Int \X Int BY LogFileAssumption
  <2>2. s[1] \in Int /\ s[2] \in Int BY <2>1
  <2> QED BY <2>1, <2>2, FilesLimited
<1>4. LogShape /\ SettingsKept BY <1>1, <1>2, <1>3 DEF LogShape, SettingsKept, LogFields
<1>5. LogTypeOK BY <1>1, <1>2, LogFileAssumption DEF LogTypeOK, Buf
<1>6. HoldersCounted /\ DevAndWork /\ Wanted
  BY <1>1, <1>2 DEF HoldersCounted, WorkHas, DevAndWork, Wanted
<1>7. BufferFits BY <1>1, <1>2 DEF BufferFits
<1> QED BY <1>4, <1>5, <1>6, <1>7 DEF LogInv

\* It implies what the run checks.
LEMMA LogHolds ==
    ASSUME LogInv
    PROVE  LogTypeOK /\ LogRecorded
<1>0. LogShape /\ LogTypeOK /\ SettingsKept /\ HoldersCounted /\ DevAndWork /\ Wanted /\ BufferFits
  BY DEF LogInv
<1>1. /\ lf.dev = "ok" /\ lf.want => lf.rec \/ lf.queued \/ lw.pc = "begin" \/ "stuck" \in lf.odd
      /\ lf.rec => lf.want \/ "stopmissed" \in lf.odd
      /\ lf.rec /\ lw.pc = "idle" => "stuck" \in lf.odd
      /\ lw.pc = "rx" => lw.len + Most(lf.bus) <= Buf
      /\ lw.turns > 0 => lw.index <= lf.num \/ lw.index = 0
  BY <1>0 DEF Wanted, BufferFits
<1>2. /\ lf.dev = "none" => lw.pc = "idle" /\ ~lf.queued
      /\ lf.present => lf.open = lf.users + lf.leaked + (IF lw.pc \in {"loop", "rx", "write", "end"} THEN 1 ELSE 0)
      /\ lf.dev = "ok" /\ lf.exit = "no" => lf.heard \/ "deaf" \in lf.odd
  BY <1>0 DEF DevAndWork, HoldersCounted, WorkHas
<1>3. lf.size * FilesOf(lf.num) > 2048 + lf.size => SizeOf(lf.set[1]) * lf.set[2] >= 4096
  <2> DEFINE a == lf.set[1]
             b == lf.set[2]
  <2>1. a \in Int /\ b \in Int /\ lf.size = SizeOf(a) /\ lf.num = NumOf(a, b) BY <1>0 DEF SettingsKept
  <2> HIDE DEF a, b
  <2>2. SizeOf(a) * NumOf(a, b) > 2048 => SizeOf(a) * b >= 4096 BY <2>1, FilesLimited
  <2>3. SizeOf(a) \in Int /\ NumOf(a, b) \in Int BY <2>1, FilesLimited DEF SizeOf
  <2>4. SizeOf(a) * (NumOf(a, b) + 1) = SizeOf(a) * NumOf(a, b) + SizeOf(a) /\ SizeOf(a) * NumOf(a, b) \in Int
    BY <2>3
  <2>5. lf.size * FilesOf(lf.num) > 2048 + lf.size => SizeOf(a) * b >= 4096 BY <2>1, <2>2, <2>3, <2>4 DEF FilesOf
  <2> QED BY <2>5 DEF a, b
<1> QED BY <1>0, <1>1, <1>2, <1>3 DEF LogRecorded

\* A recording goes from its start to its stop and is never without a work
\* item, a read fits the buffer, the files are those of the indices up to
\* skw_log_num and begun within 1 GiB and one file, and the device goes
\* after the work item and with its holders counted, but for the sequences
\* of calls and the settings that are named (skwutil/skw_log_to_file.c).
THEOREM RecordingIsKept == LogFileSpec => []LogRecorded
  BY LogBegin, LogStep, LogHolds, PTL DEF LogFileSpec

-----------------------------------------------------------------------------
\* The dump of the firmware's memory.

\* The dump of the firmware's memory: who may write the buffer while what
\* was dumped is read, and what a reader can have got.
DumpFields == {"bus", "status", "deaths", "buf", "held", "size", "mem", "at", "run", "work", "total", "stored", "reads", "crossed"}
DumpShape == /\ DOMAIN dm = DumpFields /\ dm.run \in [Dumpers -> BOOLEAN] /\ dm.crossed \in BOOLEAN
             /\ DOMAIN dr = DumpReaders
             /\ \A f \in DumpReaders : DOMAIN dr[f] = {"dev", "pos", "got", "odd"} /\ dr[f].odd \in BOOLEAN
\* Over SDIO the notifications dump, over USB the work item, each into a buffer, the work item only when there is no dump.
WhoDumps == /\ \A d \in Dumpers : dm.run[d] => dm.bus = "SDIO" /\ dm.buf
            /\ dm.work # "idle" => dm.bus = "USB" /\ dm.buf
            /\ Running => dm.size = 0
            /\ dm.size > 0 => dm.buf
\* What the work item has stored is what it has read, up to the end of the buffer.
StoredInOrder == /\ dm.stored <= dm.total /\ (dm.total < Room => dm.stored = dm.total)
                 /\ dm.bus = "USB" => dm.stored < Room /\ dm.size < Room
\* One dumps at a time, from one death, and only when there is no dump.
OneDumps == /\ \A d, e \in Dumpers : dm.run[d] /\ dm.run[e] => d = e
            /\ \A d \in Dumpers : dm.run[d] => dm.size = 0 /\ \A i \in 1..dm.at[d] : dm.mem[i] = dm.deaths
            /\ Running => \A i \in 1..dm.stored : dm.mem[i] = dm.deaths
            /\ \A i, j \in 1..dm.size : dm.mem[i] = dm.mem[j]
\* A file that nothing happened to is within the dump, and has read of it alone.
Reads == \A f \in DumpReaders : ~dr[f].odd => /\ dr[f].pos <= dm.size
                                              /\ dr[f].pos = 0 => dr[f].got = {}
                                              /\ dr[f].pos > 0 => dr[f].got \subseteq {dm.mem[1]}
NotCrossed == ~dm.crossed => OneDumps /\ Reads
DumpInv == DumpShape /\ DumpTypeOK /\ WhoDumps /\ StoredInOrder /\ NotCrossed

\* Memory for the buffer changes nothing else.
LEMMA Allocated ==
    ASSUME NEW d, DOMAIN d = DumpFields, d.buf \in BOOLEAN, NEW w, NEW e \in Alloc(d, w)
    PROVE  /\ DOMAIN e = DumpFields /\ e.buf \in BOOLEAN /\ (d.buf => e.buf)
           /\ \A x \in DumpFields \ {"buf"} : e[x] = d[x]
  BY DEF Alloc, DumpFields

\* A dump begins at its first piece, beside what runs already.
LEMMA Begins ==
    ASSUME NEW e, DOMAIN e = DumpFields, e.run \in [Dumpers -> BOOLEAN], e.crossed \in BOOLEAN, NEW who \in Dumpers,
           DOMAIN e.at = Dumpers, NEW b, b = Begin(e, who)
    PROVE  /\ DOMAIN b = DumpFields /\ b.crossed \in BOOLEAN
           /\ b.run = [e.run EXCEPT ![who] = TRUE] /\ b.at = [e.at EXCEPT ![who] = 0]
           /\ ~b.crossed => ~e.crossed /\ \A o \in Dumpers : ~e.run[o]
           /\ \A x \in DumpFields \ {"run", "at", "crossed"} : b[x] = e[x]
<1> DEFINE c == e.crossed \/ \E o \in Dumpers : e.run[o]
<1>1. c \in BOOLEAN /\ (~c => ~e.crossed /\ \A o \in Dumpers : ~e.run[o]) OBVIOUS
<1>2. b = [e EXCEPT !.at[who] = 0, !.run[who] = TRUE, !.crossed = c] BY DEF Begin
<1> HIDE DEF c
<1> QED BY <1>1, <1>2 DEF DumpFields

\* What a dying firmware can start: nothing, the work item, or the dump of its notification.
AtRest == dm'.run = dm.run /\ dm'.at = dm.at /\ dm'.work = dm.work
WorkQueued == /\ dm.bus = "USB" /\ dm'.buf /\ dm'.run = dm.run /\ dm'.at = dm.at
              /\ dm'.work = IF Running THEN "rerun" ELSE "queued"
DumpBegun(who) == /\ dm.bus = "SDIO" /\ dm.size = 0 /\ dm'.buf /\ dm'.work = dm.work
                  /\ dm'.run = [dm.run EXCEPT ![who] = TRUE] /\ dm'.at = [dm.at EXCEPT ![who] = 0]
                  /\ ~dm'.crossed => \A o \in Dumpers : ~dm.run[o]
LeftAlone == /\ DOMAIN dm' = DumpFields /\ dm'.buf \in BOOLEAN /\ (dm.buf => dm'.buf)
             /\ dm'.crossed \in BOOLEAN /\ (~dm'.crossed => ~dm.crossed)
             /\ UNCHANGED <<dm.bus, dm.held, dm.size, dm.mem, dm.total, dm.stored>>
DiesAt == /\ LeftAlone /\ dm'.status = "assert" /\ dm.deaths < MaxDeaths /\ dm'.deaths = dm.deaths + 1
          /\ ~dm'.crossed => ~Running
          /\ Idle /\ (AtRest \/ WorkQueued \/ DumpBegun("assert"))
BlocksAt == LeftAlone /\ dm'.status = "blocked" /\ dm'.deaths = dm.deaths /\ (AtRest \/ DumpBegun("blocked"))

\* The death of the firmware.
LEMMA DeathDumps == DumpShape /\ DumpTypeOK /\ DEVICE_ASSERT_EVENT => DiesAt
<1> SUFFICES ASSUME DumpShape, DumpTypeOK, DEVICE_ASSERT_EVENT PROVE DiesAt OBVIOUS
<1> DEFINE c == dm.crossed \/ Running
           d == [dm EXCEPT !.status = "assert", !.deaths = @ + 1, !.crossed = c]
           kept == DumpFields \ {"status", "deaths", "crossed"}
<1>0. c \in BOOLEAN /\ (~c => ~dm.crossed /\ ~Running) BY DEF DumpShape
<1>1. Idle /\ dm.deaths < MaxDeaths BY DEF DEVICE_ASSERT_EVENT
<1>2. IF d.size > 0 THEN dm' = d
      ELSE \E e \in Alloc(d, ~d.held) :
              dm' = IF e.bus = "USB" THEN [e EXCEPT !.work = Requeued(e)]
                    ELSE IF e.buf /\ ~e.held THEN Begin(e, "assert") ELSE e
  BY DEF DEVICE_ASSERT_EVENT
<1>7. d.size > 0 => dm' = d BY DEF DEVICE_ASSERT_EVENT
<1> HIDE DEF c
<1>3. /\ DOMAIN d = DumpFields /\ d.status = "assert" /\ d.deaths = dm.deaths + 1 /\ d.crossed = c
      /\ \A x \in kept : d[x] = dm[x]
  BY DEF DumpShape, DumpFields
<1> HIDE DEF d
<1>4. /\ d.bus = dm.bus /\ d.held = dm.held /\ d.size = dm.size /\ d.mem = dm.mem /\ d.total = dm.total /\ d.stored = dm.stored
      /\ d.buf = dm.buf /\ d.run = dm.run /\ d.at = dm.at /\ d.work = dm.work
  BY <1>3 DEF DumpFields
<1>5. CASE dm' = d
  BY <1>0, <1>1, <1>3, <1>4, <1>5 DEF DiesAt, LeftAlone, AtRest, DumpShape, DumpTypeOK
<1>6. CASE ~(d.size > 0)
  <2>1. PICK e \in Alloc(d, ~d.held) :
           dm' = IF e.bus = "USB" THEN [e EXCEPT !.work = Requeued(e)]
                 ELSE IF e.buf /\ ~e.held THEN Begin(e, "assert") ELSE e
    BY <1>2, <1>6
  <2>2. /\ DOMAIN e = DumpFields /\ e.buf \in BOOLEAN /\ (dm.buf => e.buf)
        /\ \A x \in DumpFields \ {"buf"} : e[x] = d[x]
    BY <1>3, <1>4, <2>1, Allocated DEF DumpTypeOK
  <2>3. /\ e.bus = dm.bus /\ e.held = dm.held /\ e.size = dm.size /\ e.mem = dm.mem /\ e.total = dm.total /\ e.stored = dm.stored
        /\ e.run = dm.run /\ e.at = dm.at /\ e.work = dm.work /\ e.status = "assert" /\ e.deaths = dm.deaths + 1 /\ e.crossed = c
    BY <1>3, <1>4, <2>2 DEF DumpFields
  <2>4. CASE e.bus = "USB"
    <3>1. dm' = [e EXCEPT !.work = Requeued(e)] BY <2>1, <2>4
    <3>2. Requeued(e) = IF ~e.buf \/ e.held THEN dm.work ELSE IF Running THEN "rerun" ELSE "queued"
      BY <2>3 DEF Requeued
    <3> DEFINE w == Requeued(e)
    <3> HIDE DEF w
    <3>3. DOMAIN dm' = DumpFields /\ dm'.work = w /\ \A x \in DumpFields \ {"work"} : dm'[x] = e[x]
      BY <2>2, <3>1 DEF DumpFields, w
    <3>4. /\ UNCHANGED <<dm.bus, dm.held, dm.size, dm.mem, dm.total, dm.stored, dm.run, dm.at>> /\ dm'.buf = e.buf
          /\ dm'.status = "assert" /\ dm'.deaths = dm.deaths + 1 /\ dm'.crossed = c
      BY <2>3, <3>3 DEF DumpFields
    <3>5. w = dm.work \/ (e.buf /\ w = IF Running THEN "rerun" ELSE "queued") BY <3>2 DEF w
    <3> QED
      BY <1>0, <1>1, <2>2, <2>3, <2>4, <3>3, <3>4, <3>5 DEF DiesAt, LeftAlone, AtRest, WorkQueued
  <2>5. CASE e.bus # "USB" /\ dm' = e BY <1>0, <1>1, <2>2, <2>3, <2>5 DEF DiesAt, LeftAlone, AtRest
  <2>6. CASE e.bus # "USB" /\ e.buf /\ ~e.held /\ dm' = Begin(e, "assert")
    <3> DEFINE who == "assert"
    <3>0. who \in Dumpers /\ dm' = Begin(e, who) /\ DOMAIN e.at = Dumpers
      BY <2>3, <2>6 DEF DumpTypeOK, Dumpers
    <3> HIDE DEF who
    <3>1. /\ DOMAIN dm' = DumpFields /\ dm'.crossed \in BOOLEAN
          /\ dm'.run = [e.run EXCEPT ![who] = TRUE] /\ dm'.at = [e.at EXCEPT ![who] = 0]
          /\ ~dm'.crossed => ~e.crossed /\ \A o \in Dumpers : ~e.run[o]
          /\ \A x \in DumpFields \ {"run", "at", "crossed"} : dm'[x] = e[x]
      BY <1>0, <2>2, <2>3, <3>0, Begins DEF DumpShape
    <3>2. /\ UNCHANGED <<dm.bus, dm.held, dm.size, dm.mem, dm.total, dm.stored, dm.work>> /\ dm'.buf = e.buf
          /\ dm'.status = "assert" /\ dm'.deaths = dm.deaths + 1
      BY <2>3, <3>1 DEF DumpFields
    <3>3. dm.bus = "SDIO" /\ dm.size = 0 BY <1>4, <1>6, <2>3, <2>6 DEF DumpTypeOK
    <3> QED BY <1>0, <1>1, <2>2, <2>3, <2>6, <3>1, <3>2, <3>3 DEF DiesAt, LeftAlone, DumpBegun, who
  <2> QED BY <2>1, <2>4, <2>5, <2>6
<1> QED BY <1>5, <1>6, <1>7

\* No word from it after its death.
LEMMA BlockDumps == DumpShape /\ DumpTypeOK /\ DEVICE_BLOCKED_EVENT => BlocksAt
<1> SUFFICES ASSUME DumpShape, DumpTypeOK, DEVICE_BLOCKED_EVENT PROVE BlocksAt OBVIOUS
<1> DEFINE d == [dm EXCEPT !.status = "blocked"]
           w == TRUE
<1>2. IF d.size > 0 THEN dm' = d
      ELSE \E e \in Alloc(d, w) : dm' = IF e.bus = "SDIO" /\ e.buf THEN Begin(e, "blocked") ELSE e
  BY DEF DEVICE_BLOCKED_EVENT
<1> HIDE DEF w
<1>3. DOMAIN d = DumpFields /\ d.status = "blocked" /\ \A x \in DumpFields \ {"status"} : d[x] = dm[x]
  BY DEF DumpShape, DumpFields
<1> HIDE DEF d
<1>4. /\ d.bus = dm.bus /\ d.held = dm.held /\ d.size = dm.size /\ d.mem = dm.mem /\ d.total = dm.total /\ d.stored = dm.stored
      /\ d.buf = dm.buf /\ d.run = dm.run /\ d.at = dm.at /\ d.work = dm.work /\ d.deaths = dm.deaths /\ d.crossed = dm.crossed
  BY <1>3 DEF DumpFields
<1>5. CASE dm' = d BY <1>3, <1>4, <1>5 DEF BlocksAt, LeftAlone, AtRest, DumpShape, DumpTypeOK
<1>6. CASE ~(d.size > 0)
  <2>1. PICK e \in Alloc(d, w) : dm' = IF e.bus = "SDIO" /\ e.buf THEN Begin(e, "blocked") ELSE e
    BY <1>2, <1>6
  <2>2. /\ DOMAIN e = DumpFields /\ e.buf \in BOOLEAN /\ (dm.buf => e.buf)
        /\ \A x \in DumpFields \ {"buf"} : e[x] = d[x]
    BY <1>3, <1>4, <2>1, Allocated DEF DumpTypeOK
  <2>3. /\ e.bus = dm.bus /\ e.held = dm.held /\ e.size = dm.size /\ e.mem = dm.mem /\ e.total = dm.total /\ e.stored = dm.stored
        /\ e.run = dm.run /\ e.at = dm.at /\ e.work = dm.work /\ e.status = "blocked" /\ e.deaths = dm.deaths /\ e.crossed = dm.crossed
    BY <1>3, <1>4, <2>2 DEF DumpFields
  <2>5. CASE dm' = e BY <2>2, <2>3, <2>5 DEF BlocksAt, LeftAlone, AtRest, DumpShape
  <2>6. CASE e.bus = "SDIO" /\ e.buf /\ dm' = Begin(e, "blocked")
    <3> DEFINE who == "blocked"
    <3>0. who \in Dumpers /\ dm' = Begin(e, who) /\ DOMAIN e.at = Dumpers
      BY <2>3, <2>6 DEF DumpTypeOK, Dumpers
    <3> HIDE DEF who
    <3>1. /\ DOMAIN dm' = DumpFields /\ dm'.crossed \in BOOLEAN
          /\ dm'.run = [e.run EXCEPT ![who] = TRUE] /\ dm'.at = [e.at EXCEPT ![who] = 0]
          /\ ~dm'.crossed => ~e.crossed /\ \A o \in Dumpers : ~e.run[o]
          /\ \A x \in DumpFields \ {"run", "at", "crossed"} : dm'[x] = e[x]
      BY <2>2, <2>3, <3>0, Begins DEF DumpShape
    <3>2. /\ UNCHANGED <<dm.bus, dm.held, dm.size, dm.mem, dm.total, dm.stored, dm.work, dm.deaths>> /\ dm'.buf = e.buf
          /\ dm'.status = "blocked"
      BY <2>3, <3>1 DEF DumpFields
    <3>3. dm.bus = "SDIO" /\ dm.size = 0 BY <1>4, <1>6, <2>3, <2>6 DEF DumpTypeOK
    <3> QED BY <2>2, <2>3, <2>6, <3>1, <3>2, <3>3 DEF BlocksAt, LeftAlone, DumpBegun, who
  <2> QED BY <2>1, <2>5, <2>6
<1> QED BY <1>2, <1>5, <1>6

\* Every step of the dump keeps it.
LEMMA DumpStep ==
    ASSUME DumpInv, [DumpNext]_dumpVars
    PROVE  DumpInv'
<1>0. DumpShape /\ DumpTypeOK /\ WhoDumps /\ StoredInOrder /\ NotCrossed BY DEF DumpInv
<1>1. CASE DEVICE_ASSERT_EVENT
  <2>1. CASE AtRest
    <3>1. dr' = dr BY <1>1 DEF DEVICE_ASSERT_EVENT
    <3>2. /\ DOMAIN dm' = DumpFields /\ dm'.buf \in BOOLEAN /\ (dm.buf => dm'.buf)
          /\ dm'.crossed \in BOOLEAN /\ (~dm'.crossed => ~dm.crossed)
          /\ UNCHANGED <<dm.bus, dm.held, dm.size, dm.mem, dm.total, dm.stored>>
          /\ dm'.status = "assert" /\ dm.deaths < MaxDeaths /\ dm'.deaths = dm.deaths + 1 /\ Idle /\ (~dm'.crossed => ~Running)
      BY <1>0, <1>1, DeathDumps DEF DiesAt, LeftAlone
    <3>3. /\ dm'.run = dm.run /\ dm'.at = dm.at /\ dm'.work = dm.work BY <2>1 DEF AtRest
    <3>4. DumpShape' BY <1>0, <3>1, <3>2, <3>3 DEF DumpShape, Dumpers
    <3>5. DumpTypeOK'
      BY SMTT(20), <1>0, <3>1, <3>2, <3>3, DumpAssumption DEF DumpShape, Dumpers, DumpTypeOK, StoredInOrder
    <3>6. WhoDumps' BY <1>0, <3>1, <3>2, <3>3 DEF DumpShape, DumpTypeOK, WhoDumps, Running
    <3>7. StoredInOrder'
      BY <1>0, <3>1, <3>2, <3>3, DumpAssumption DEF DumpTypeOK, WhoDumps, StoredInOrder, Running
    <3>8. NotCrossed'
      <4> SUFFICES ASSUME ~dm'.crossed PROVE OneDumps' /\ Reads' BY DEF NotCrossed
      <4>1. ~dm.crossed /\ OneDumps /\ Reads BY <1>0, <3>1, <3>2, <3>3 DEF NotCrossed
      <4>2. OneDumps'
        BY SMTT(20), <1>0, <3>1, <3>2, <3>3, <4>1, DumpAssumption DEF OneDumps, DumpShape, DumpTypeOK, WhoDumps,
           StoredInOrder, Running, Idle, Dumpers
      <4>3. Reads'
        BY <1>0, <3>1, <3>2, <3>3, <4>1, DumpAssumption DEF OneDumps, Reads, DumpShape, DumpTypeOK, WhoDumps,
           StoredInOrder, Running, Idle, Dumpers
      <4> QED BY <4>2, <4>3
    <3> QED BY <3>4, <3>5, <3>6, <3>7, <3>8 DEF DumpInv
  <2>2. CASE WorkQueued
    <3>1. dr' = dr BY <1>1 DEF DEVICE_ASSERT_EVENT
    <3>2. /\ DOMAIN dm' = DumpFields /\ dm'.buf \in BOOLEAN /\ (dm.buf => dm'.buf)
          /\ dm'.crossed \in BOOLEAN /\ (~dm'.crossed => ~dm.crossed)
          /\ UNCHANGED <<dm.bus, dm.held, dm.size, dm.mem, dm.total, dm.stored>>
          /\ dm'.status = "assert" /\ dm.deaths < MaxDeaths /\ dm'.deaths = dm.deaths + 1 /\ Idle /\ (~dm'.crossed => ~Running)
      BY <1>0, <1>1, DeathDumps DEF DiesAt, LeftAlone
    <3>3. /\ dm.bus = "USB" /\ dm'.buf /\ dm'.run = dm.run /\ dm'.at = dm.at
          /\ dm'.work = IF Running THEN "rerun" ELSE "queued"
      BY <2>2 DEF WorkQueued
    <3>4. DumpShape' BY <1>0, <3>1, <3>2, <3>3 DEF DumpShape, Dumpers
    <3>5. DumpTypeOK'
      BY SMTT(20), <1>0, <3>1, <3>2, <3>3, DumpAssumption DEF DumpShape, Dumpers, DumpTypeOK, StoredInOrder
    <3>6. WhoDumps' BY <1>0, <3>1, <3>2, <3>3 DEF DumpShape, DumpTypeOK, WhoDumps, Running
    <3>7. StoredInOrder'
      BY <1>0, <3>1, <3>2, <3>3, DumpAssumption DEF DumpTypeOK, WhoDumps, StoredInOrder, Running
    <3>8. NotCrossed'
      <4> SUFFICES ASSUME ~dm'.crossed PROVE OneDumps' /\ Reads' BY DEF NotCrossed
      <4>1. ~dm.crossed /\ OneDumps /\ Reads BY <1>0, <3>1, <3>2, <3>3 DEF NotCrossed
      <4>2. OneDumps'
        BY <1>0, <3>1, <3>2, <3>3, <4>1, DumpAssumption DEF OneDumps, DumpShape, DumpTypeOK, WhoDumps,
           StoredInOrder, Running, Idle, Dumpers
      <4>3. Reads'
        BY <1>0, <3>1, <3>2, <3>3, <4>1, DumpAssumption DEF OneDumps, Reads, DumpShape, DumpTypeOK, WhoDumps,
           StoredInOrder, Running, Idle, Dumpers
      <4> QED BY <4>2, <4>3
    <3> QED BY <3>4, <3>5, <3>6, <3>7, <3>8 DEF DumpInv
  <2>3. CASE DumpBegun("assert")
    <3>1. dr' = dr BY <1>1 DEF DEVICE_ASSERT_EVENT
    <3>2. /\ DOMAIN dm' = DumpFields /\ dm'.buf \in BOOLEAN /\ (dm.buf => dm'.buf)
          /\ dm'.crossed \in BOOLEAN /\ (~dm'.crossed => ~dm.crossed)
          /\ UNCHANGED <<dm.bus, dm.held, dm.size, dm.mem, dm.total, dm.stored>>
          /\ dm'.status = "assert" /\ dm.deaths < MaxDeaths /\ dm'.deaths = dm.deaths + 1 /\ Idle /\ (~dm'.crossed => ~Running)
      BY <1>0, <1>1, DeathDumps DEF DiesAt, LeftAlone
    <3>3. /\ dm.bus = "SDIO" /\ dm.size = 0 /\ dm'.buf /\ dm'.work = dm.work
          /\ dm'.run = [dm.run EXCEPT !["assert"] = TRUE] /\ dm'.at = [dm.at EXCEPT !["assert"] = 0]
          /\ ~dm'.crossed => \A o \in Dumpers : ~dm.run[o]
      BY <2>3 DEF DumpBegun
    <3>4. DumpShape' BY <1>0, <3>1, <3>2, <3>3 DEF DumpShape, Dumpers
    <3>5. DumpTypeOK'
      BY SMTT(20), <1>0, <3>1, <3>2, <3>3, DumpAssumption DEF DumpShape, Dumpers, DumpTypeOK, StoredInOrder
    <3>6. WhoDumps' BY <1>0, <3>1, <3>2, <3>3 DEF DumpShape, DumpTypeOK, WhoDumps, Running
    <3>7. StoredInOrder'
      BY <1>0, <3>1, <3>2, <3>3, DumpAssumption DEF DumpTypeOK, WhoDumps, StoredInOrder, Running
    <3>8. NotCrossed'
      <4> SUFFICES ASSUME ~dm'.crossed PROVE OneDumps' /\ Reads' BY DEF NotCrossed
      <4>1. ~dm.crossed /\ OneDumps /\ Reads BY <1>0, <3>1, <3>2, <3>3 DEF NotCrossed
      <4>2. OneDumps'
        BY <1>0, <3>1, <3>2, <3>3, <4>1, DumpAssumption DEF OneDumps, DumpShape, DumpTypeOK, WhoDumps,
           StoredInOrder, Running, Idle, Dumpers
      <4>3. Reads'
        BY <1>0, <3>1, <3>2, <3>3, <4>1, DumpAssumption DEF OneDumps, Reads, DumpShape, DumpTypeOK, WhoDumps,
           StoredInOrder, Running, Idle, Dumpers
      <4> QED BY <4>2, <4>3
    <3> QED BY <3>4, <3>5, <3>6, <3>7, <3>8 DEF DumpInv
  <2> QED BY DeathDumps, <1>0, <1>1, <2>1, <2>2, <2>3 DEF DiesAt
<1>2. CASE DEVICE_BLOCKED_EVENT
  <2>1. CASE AtRest
    <3>1. dr' = dr BY <1>2 DEF DEVICE_BLOCKED_EVENT
    <3>2. /\ DOMAIN dm' = DumpFields /\ dm'.buf \in BOOLEAN /\ (dm.buf => dm'.buf)
          /\ dm'.crossed \in BOOLEAN /\ (~dm'.crossed => ~dm.crossed)
          /\ UNCHANGED <<dm.bus, dm.held, dm.size, dm.mem, dm.total, dm.stored>>
          /\ dm'.status = "blocked" /\ dm'.deaths = dm.deaths
      BY <1>0, <1>2, BlockDumps DEF BlocksAt, LeftAlone
    <3>3. /\ dm'.run = dm.run /\ dm'.at = dm.at /\ dm'.work = dm.work BY <2>1 DEF AtRest
    <3>4. DumpShape' BY <1>0, <3>1, <3>2, <3>3 DEF DumpShape, Dumpers
    <3>5. DumpTypeOK'
      BY <1>0, <3>1, <3>2, <3>3, DumpAssumption DEF DumpShape, Dumpers, DumpTypeOK, StoredInOrder
    <3>6. WhoDumps' BY <1>0, <3>1, <3>2, <3>3 DEF DumpShape, DumpTypeOK, WhoDumps, Running
    <3>7. StoredInOrder'
      BY <1>0, <3>1, <3>2, <3>3, DumpAssumption DEF DumpTypeOK, WhoDumps, StoredInOrder, Running
    <3>8. NotCrossed'
      <4> SUFFICES ASSUME ~dm'.crossed PROVE OneDumps' /\ Reads' BY DEF NotCrossed
      <4>1. ~dm.crossed /\ OneDumps /\ Reads BY <1>0, <3>1, <3>2, <3>3 DEF NotCrossed
      <4>2. OneDumps'
        BY <1>0, <3>1, <3>2, <3>3, <4>1, DumpAssumption DEF OneDumps, DumpShape, DumpTypeOK, WhoDumps,
           StoredInOrder, Running, Idle, Dumpers
      <4>3. Reads'
        BY <1>0, <3>1, <3>2, <3>3, <4>1, DumpAssumption DEF OneDumps, Reads, DumpShape, DumpTypeOK, WhoDumps,
           StoredInOrder, Running, Idle, Dumpers
      <4> QED BY <4>2, <4>3
    <3> QED BY <3>4, <3>5, <3>6, <3>7, <3>8 DEF DumpInv
  <2>2. CASE DumpBegun("blocked")
    <3>1. dr' = dr BY <1>2 DEF DEVICE_BLOCKED_EVENT
    <3>2. /\ DOMAIN dm' = DumpFields /\ dm'.buf \in BOOLEAN /\ (dm.buf => dm'.buf)
          /\ dm'.crossed \in BOOLEAN /\ (~dm'.crossed => ~dm.crossed)
          /\ UNCHANGED <<dm.bus, dm.held, dm.size, dm.mem, dm.total, dm.stored>>
          /\ dm'.status = "blocked" /\ dm'.deaths = dm.deaths
      BY <1>0, <1>2, BlockDumps DEF BlocksAt, LeftAlone
    <3>3. /\ dm.bus = "SDIO" /\ dm.size = 0 /\ dm'.buf /\ dm'.work = dm.work
          /\ dm'.run = [dm.run EXCEPT !["blocked"] = TRUE] /\ dm'.at = [dm.at EXCEPT !["blocked"] = 0]
          /\ ~dm'.crossed => \A o \in Dumpers : ~dm.run[o]
      BY <2>2 DEF DumpBegun
    <3>4. DumpShape' BY <1>0, <3>1, <3>2, <3>3 DEF DumpShape, Dumpers
    <3>5. DumpTypeOK'
      BY <1>0, <3>1, <3>2, <3>3, DumpAssumption DEF DumpShape, Dumpers, DumpTypeOK, StoredInOrder
    <3>6. WhoDumps' BY <1>0, <3>1, <3>2, <3>3 DEF DumpShape, DumpTypeOK, WhoDumps, Running
    <3>7. StoredInOrder'
      BY <1>0, <3>1, <3>2, <3>3, DumpAssumption DEF DumpTypeOK, WhoDumps, StoredInOrder, Running
    <3>8. NotCrossed'
      <4> SUFFICES ASSUME ~dm'.crossed PROVE OneDumps' /\ Reads' BY DEF NotCrossed
      <4>1. ~dm.crossed /\ OneDumps /\ Reads BY <1>0, <3>1, <3>2, <3>3 DEF NotCrossed
      <4>2. OneDumps'
        BY <1>0, <3>1, <3>2, <3>3, <4>1, DumpAssumption DEF OneDumps, DumpShape, DumpTypeOK, WhoDumps,
           StoredInOrder, Running, Idle, Dumpers
      <4>3. Reads'
        BY <1>0, <3>1, <3>2, <3>3, <4>1, DumpAssumption DEF OneDumps, Reads, DumpShape, DumpTypeOK, WhoDumps,
           StoredInOrder, Running, Idle, Dumpers
      <4> QED BY <4>2, <4>3
    <3> QED BY <3>4, <3>5, <3>6, <3>7, <3>8 DEF DumpInv
  <2> QED BY BlockDumps, <1>0, <1>2, <2>1, <2>2 DEF BlocksAt
<1>3. CASE DEVICE_DUMPDONE_EVENT
  <2>1. dr' = dr BY <1>3 DEF DEVICE_DUMPDONE_EVENT
  <2>2. /\ DOMAIN dm' = DumpFields
        /\ dm'.status = "dumpdone"
        /\ UNCHANGED <<dm.bus, dm.deaths, dm.buf, dm.held, dm.size, dm.mem, dm.at, dm.run, dm.work,
                       dm.total, dm.stored, dm.reads, dm.crossed>>
    BY <1>0, <1>3 DEF DEVICE_DUMPDONE_EVENT, DumpShape, DumpTypeOK, DumpFields
  <2>3. DumpShape' BY <1>0, <2>1, <2>2 DEF DumpShape, Dumpers
  <2>4. DumpTypeOK'
    BY <1>0, <2>1, <2>2, DumpAssumption DEF DumpShape, Dumpers, DumpTypeOK, StoredInOrder
  <2>5. WhoDumps' BY <1>0, <2>1, <2>2 DEF DumpShape, DumpTypeOK, WhoDumps, Running
  <2>6. StoredInOrder'
    BY <1>0, <2>1, <2>2, DumpAssumption DEF DumpTypeOK, WhoDumps, StoredInOrder, Running
  <2>7. NotCrossed'
    <3> SUFFICES ASSUME ~dm'.crossed PROVE OneDumps' /\ Reads' BY DEF NotCrossed
    <3>1. ~dm.crossed /\ OneDumps /\ Reads BY <1>0, <2>1, <2>2 DEF NotCrossed
    <3>2. OneDumps'
      BY <1>0, <2>1, <2>2, <3>1, DumpAssumption DEF OneDumps, DumpShape, DumpTypeOK, WhoDumps, StoredInOrder,
         Running, Idle, Dumpers
    <3>3. Reads'
      BY <1>0, <2>1, <2>2, <3>1, DumpAssumption DEF OneDumps, Reads, DumpShape, DumpTypeOK, WhoDumps,
         StoredInOrder, Running, Idle, Dumpers
    <3> QED BY <3>2, <3>3
  <2> QED BY <2>3, <2>4, <2>5, <2>6, <2>7 DEF DumpInv
<1>4. CASE DEVICE_BSPREADY_EVENT
  <2>1. dr' = dr BY <1>4 DEF DEVICE_BSPREADY_EVENT
  <2>2. /\ DOMAIN dm' = DumpFields
        /\ dm'.status = "on"
        /\ UNCHANGED <<dm.bus, dm.deaths, dm.buf, dm.held, dm.size, dm.mem, dm.at, dm.run, dm.work,
                       dm.total, dm.stored, dm.reads, dm.crossed>>
    BY <1>0, <1>4 DEF DEVICE_BSPREADY_EVENT, DumpShape, DumpTypeOK, DumpFields
  <2>3. DumpShape' BY <1>0, <2>1, <2>2 DEF DumpShape, Dumpers
  <2>4. DumpTypeOK'
    BY <1>0, <2>1, <2>2, DumpAssumption DEF DumpShape, Dumpers, DumpTypeOK, StoredInOrder
  <2>5. WhoDumps' BY <1>0, <2>1, <2>2 DEF DumpShape, DumpTypeOK, WhoDumps, Running
  <2>6. StoredInOrder'
    BY <1>0, <2>1, <2>2, DumpAssumption DEF DumpTypeOK, WhoDumps, StoredInOrder, Running
  <2>7. NotCrossed'
    <3> SUFFICES ASSUME ~dm'.crossed PROVE OneDumps' /\ Reads' BY DEF NotCrossed
    <3>1. ~dm.crossed /\ OneDumps /\ Reads BY <1>0, <2>1, <2>2 DEF NotCrossed
    <3>2. OneDumps'
      BY <1>0, <2>1, <2>2, <3>1, DumpAssumption DEF OneDumps, DumpShape, DumpTypeOK, WhoDumps, StoredInOrder,
         Running, Idle, Dumpers
    <3>3. Reads'
      BY <1>0, <2>1, <2>2, <3>1, DumpAssumption DEF OneDumps, Reads, DumpShape, DumpTypeOK, WhoDumps,
         StoredInOrder, Running, Idle, Dumpers
    <3> QED BY <3>2, <3>3
  <2> QED BY <2>3, <2>4, <2>5, <2>6, <2>7 DEF DumpInv
<1>5. ASSUME NEW d \in Dumpers, DumpPiece(d) PROVE DumpInv'
  <2>1. dr' = dr BY <1>5 DEF DumpPiece
  <2>2. /\ DOMAIN dm' = DumpFields
        /\ dm.run[d] /\ dm.at[d] < Pieces
        /\ dm'.mem = [dm.mem EXCEPT ![dm.at[d] + 1] = dm.deaths] /\ dm'.at = [dm.at EXCEPT ![d] = @ + 1]
        /\ UNCHANGED <<dm.bus, dm.status, dm.deaths, dm.buf, dm.held, dm.size, dm.run, dm.work, dm.total,
                       dm.stored, dm.reads, dm.crossed>>
    BY <1>0, <1>5 DEF DumpPiece, DumpShape, DumpTypeOK, DumpFields
  <2>3. DumpShape' BY <1>0, <2>1, <2>2 DEF DumpShape, Dumpers
  <2>4. DumpTypeOK'
    BY SMTT(20), <1>0, <2>1, <2>2, DumpAssumption DEF DumpShape, Dumpers, DumpTypeOK, StoredInOrder
  <2>5. WhoDumps' BY <1>0, <2>1, <2>2 DEF DumpShape, DumpTypeOK, WhoDumps, Running
  <2>6. StoredInOrder'
    BY <1>0, <2>1, <2>2, DumpAssumption DEF DumpTypeOK, WhoDumps, StoredInOrder, Running
  <2>7. NotCrossed'
    <3> SUFFICES ASSUME ~dm'.crossed PROVE OneDumps' /\ Reads' BY DEF NotCrossed
    <3>1. ~dm.crossed /\ OneDumps /\ Reads BY <1>0, <2>1, <2>2 DEF NotCrossed
    <3>2. OneDumps'
      <4>1. dm.size = 0 /\ ~Running /\ (\A i \in 1..dm.at[d] : dm.mem[i] = dm.deaths) /\ \A e \in Dumpers : dm.run[e] => e = d
        BY <1>0, <2>2, <3>1 DEF OneDumps, WhoDumps, DumpTypeOK, Running
      <4>2. dm.at[d] \in 0..Pieces /\ dm'.at[d] = dm.at[d] + 1 BY <1>0, <2>2 DEF DumpTypeOK
      <4>3. \A i \in 1..dm'.at[d] : dm'.mem[i] = dm'.deaths
        <5>1. dm.at[d] + 1 \in 1..Pieces /\ dm.mem \in [1..Pieces -> 0..MaxDeaths]
          BY <1>0, <2>2, <4>2, DumpAssumption DEF DumpTypeOK
        <5> QED BY <2>2, <4>1, <4>2, <5>1, DumpAssumption
      <4>4. \A e \in Dumpers : dm'.run[e] => e = d /\ dm'.size = 0 BY <2>2, <4>1
      <4>5. ~Running' /\ dm'.size = 0 BY <2>2, <4>1 DEF Running
      <4> QED BY <4>3, <4>4, <4>5 DEF OneDumps
    <3>3. Reads'
      BY <1>0, <2>1, <2>2, <3>1, DumpAssumption DEF OneDumps, Reads, DumpShape, DumpTypeOK, WhoDumps,
         StoredInOrder, Running, Idle, Dumpers
    <3> QED BY <3>2, <3>3
  <2> QED BY <2>3, <2>4, <2>5, <2>6, <2>7 DEF DumpInv
<1>6. ASSUME NEW d \in Dumpers, DumpEnds(d) PROVE DumpInv'
  <2>1. dr' = dr BY <1>6 DEF DumpEnds
  <2>2. /\ DOMAIN dm' = DumpFields
        /\ dm.run[d]
        /\ dm'.run = [dm.run EXCEPT ![d] = FALSE] /\ dm'.size = dm.at[d]
        /\ UNCHANGED <<dm.bus, dm.status, dm.deaths, dm.buf, dm.held, dm.mem, dm.at, dm.work, dm.total,
                       dm.stored, dm.reads, dm.crossed>>
    BY <1>0, <1>6 DEF DumpEnds, DumpShape, DumpTypeOK, DumpFields
  <2>3. DumpShape' BY <1>0, <2>1, <2>2 DEF DumpShape, Dumpers
  <2>4. DumpTypeOK'
    BY <1>0, <2>1, <2>2, DumpAssumption DEF DumpShape, Dumpers, DumpTypeOK, StoredInOrder
  <2>5. WhoDumps' BY <1>0, <2>1, <2>2 DEF DumpShape, DumpTypeOK, WhoDumps, Running
  <2>6. StoredInOrder'
    BY <1>0, <2>1, <2>2, DumpAssumption DEF DumpTypeOK, WhoDumps, StoredInOrder, Running
  <2>7. NotCrossed'
    <3> SUFFICES ASSUME ~dm'.crossed PROVE OneDumps' /\ Reads' BY DEF NotCrossed
    <3>1. ~dm.crossed /\ OneDumps /\ Reads BY <1>0, <2>1, <2>2 DEF NotCrossed
    <3>2. OneDumps'
      BY SMTT(20), <1>0, <2>1, <2>2, <3>1, DumpAssumption DEF OneDumps, DumpShape, DumpTypeOK, WhoDumps, StoredInOrder,
         Running, Idle, Dumpers
    <3>3. Reads'
      BY SMTT(20), <1>0, <2>1, <2>2, <3>1, DumpAssumption DEF OneDumps, Reads, DumpShape, DumpTypeOK, WhoDumps,
         StoredInOrder, Running, Idle, Dumpers
    <3> QED BY <3>2, <3>3
  <2> QED BY <2>3, <2>4, <2>5, <2>6, <2>7 DEF DumpInv
<1>7. CASE WorkStarts
  <2>1. CASE dm.size = 0 /\ ~dm.held
    <3>1. dr' = dr BY <1>7 DEF WorkStarts
    <3>2. /\ DOMAIN dm' = DumpFields
          /\ dm.work = "queued" /\ dm'.work = "run" /\ dm'.total = 0 /\ dm'.stored = 0
          /\ UNCHANGED <<dm.bus, dm.status, dm.deaths, dm.buf, dm.held, dm.size, dm.mem, dm.at, dm.run,
                         dm.reads, dm.crossed>>
      BY <1>0, <1>7, <2>1 DEF WorkStarts, DumpShape, DumpTypeOK, DumpFields
    <3>3. DumpShape' BY <1>0, <2>1, <3>1, <3>2 DEF DumpShape, Dumpers
    <3>4. DumpTypeOK'
      BY <1>0, <2>1, <3>1, <3>2, DumpAssumption DEF DumpShape, Dumpers, DumpTypeOK, StoredInOrder
    <3>5. WhoDumps' BY <1>0, <2>1, <3>1, <3>2 DEF DumpShape, DumpTypeOK, WhoDumps, Running
    <3>6. StoredInOrder'
      BY <1>0, <2>1, <3>1, <3>2, DumpAssumption DEF DumpTypeOK, WhoDumps, StoredInOrder, Running
    <3>7. NotCrossed'
      <4> SUFFICES ASSUME ~dm'.crossed PROVE OneDumps' /\ Reads' BY DEF NotCrossed
      <4>1. ~dm.crossed /\ OneDumps /\ Reads BY <1>0, <2>1, <3>1, <3>2 DEF NotCrossed
      <4>2. OneDumps'
        BY <1>0, <2>1, <3>1, <3>2, <4>1, DumpAssumption DEF OneDumps, DumpShape, DumpTypeOK, WhoDumps,
           StoredInOrder, Running, Idle, Dumpers
      <4>3. Reads'
        BY <1>0, <2>1, <3>1, <3>2, <4>1, DumpAssumption DEF OneDumps, Reads, DumpShape, DumpTypeOK, WhoDumps,
           StoredInOrder, Running, Idle, Dumpers
      <4> QED BY <4>2, <4>3
    <3> QED BY <3>3, <3>4, <3>5, <3>6, <3>7 DEF DumpInv
  <2>2. CASE ~(dm.size = 0 /\ ~dm.held)
    <3>1. dr' = dr BY <1>7 DEF WorkStarts
    <3>2. /\ DOMAIN dm' = DumpFields
          /\ dm.work = "queued" /\ dm'.work = "idle"
          /\ UNCHANGED <<dm.bus, dm.status, dm.deaths, dm.buf, dm.held, dm.size, dm.mem, dm.at, dm.run,
                         dm.total, dm.stored, dm.reads, dm.crossed>>
      BY <1>0, <1>7, <2>2 DEF WorkStarts, DumpShape, DumpTypeOK, DumpFields
    <3>3. DumpShape' BY <1>0, <2>2, <3>1, <3>2 DEF DumpShape, Dumpers
    <3>4. DumpTypeOK'
      BY <1>0, <2>2, <3>1, <3>2, DumpAssumption DEF DumpShape, Dumpers, DumpTypeOK, StoredInOrder
    <3>5. WhoDumps' BY <1>0, <2>2, <3>1, <3>2 DEF DumpShape, DumpTypeOK, WhoDumps, Running
    <3>6. StoredInOrder'
      BY <1>0, <2>2, <3>1, <3>2, DumpAssumption DEF DumpTypeOK, WhoDumps, StoredInOrder, Running
    <3>7. NotCrossed'
      <4> SUFFICES ASSUME ~dm'.crossed PROVE OneDumps' /\ Reads' BY DEF NotCrossed
      <4>1. ~dm.crossed /\ OneDumps /\ Reads BY <1>0, <2>2, <3>1, <3>2 DEF NotCrossed
      <4>2. OneDumps'
        BY <1>0, <2>2, <3>1, <3>2, <4>1, DumpAssumption DEF OneDumps, DumpShape, DumpTypeOK, WhoDumps,
           StoredInOrder, Running, Idle, Dumpers
      <4>3. Reads'
        BY <1>0, <2>2, <3>1, <3>2, <4>1, DumpAssumption DEF OneDumps, Reads, DumpShape, DumpTypeOK, WhoDumps,
           StoredInOrder, Running, Idle, Dumpers
      <4> QED BY <4>2, <4>3
    <3> QED BY <3>3, <3>4, <3>5, <3>6, <3>7 DEF DumpInv
  <2> QED BY <1>0, <1>7, <2>1, <2>2 DEF WorkStarts
<1>8. CASE WorkPiece
  <2>1. CASE PieceFits
    <3>1. dr' = dr BY <1>8 DEF WorkPiece
    <3>2. /\ DOMAIN dm' = DumpFields
          /\ Running /\ dm.total < Pieces /\ dm.total + 1 < Room
          /\ dm'.total = dm.total + 1 /\ dm'.stored = dm.total + 1 /\ dm'.mem = [dm.mem EXCEPT ![dm.total + 1] = dm.deaths]
          /\ UNCHANGED <<dm.bus, dm.status, dm.deaths, dm.buf, dm.held, dm.size, dm.at, dm.run, dm.work,
                         dm.reads, dm.crossed>>
      BY <1>0, <1>8, <2>1 DEF WorkPiece, PieceFits, DumpShape, DumpTypeOK, DumpFields
    <3>3. DumpShape' BY <1>0, <2>1, <3>1, <3>2 DEF DumpShape, Dumpers
    <3>4. DumpTypeOK'
      BY SMTT(20), <1>0, <2>1, <3>1, <3>2, DumpAssumption DEF DumpShape, Dumpers, DumpTypeOK, StoredInOrder
    <3>5. WhoDumps' BY <1>0, <2>1, <3>1, <3>2 DEF DumpShape, DumpTypeOK, WhoDumps, Running
    <3>6. StoredInOrder'
      BY <1>0, <2>1, <3>1, <3>2, DumpAssumption DEF DumpTypeOK, WhoDumps, StoredInOrder, Running
    <3>7. NotCrossed'
      <4> SUFFICES ASSUME ~dm'.crossed PROVE OneDumps' /\ Reads' BY DEF NotCrossed
      <4>1. ~dm.crossed /\ OneDumps /\ Reads BY <1>0, <3>1, <3>2 DEF NotCrossed
      <4>2. OneDumps'
        <5>1. dm.size = 0 /\ dm.stored = dm.total /\ (\A i \in 1..dm.stored : dm.mem[i] = dm.deaths) /\ \A e \in Dumpers : ~dm.run[e]
          BY <1>0, <3>2, <4>1, DumpAssumption DEF OneDumps, WhoDumps, StoredInOrder, DumpTypeOK, Running
        <5>2. dm.total \in 0..Pieces /\ dm.total + 1 \in 1..Pieces /\ dm.mem \in [1..Pieces -> 0..MaxDeaths]
          BY <1>0, <3>2, DumpAssumption DEF DumpTypeOK
        <5>3. \A i \in 1..dm'.stored : dm'.mem[i] = dm'.deaths BY <3>2, <5>1, <5>2, DumpAssumption
        <5> QED BY <1>0, <3>2, <5>1, <5>3 DEF OneDumps, DumpTypeOK
      <4>3. Reads'
        BY <1>0, <3>1, <3>2, <4>1, DumpAssumption DEF OneDumps, Reads, DumpShape, DumpTypeOK, WhoDumps,
           StoredInOrder, Running, Idle, Dumpers
      <4> QED BY <4>2, <4>3
    <3> QED BY <3>3, <3>4, <3>5, <3>6, <3>7 DEF DumpInv
  <2>2. CASE ~PieceFits
    <3>1. dr' = dr BY <1>8 DEF WorkPiece
    <3>2. /\ DOMAIN dm' = DumpFields
          /\ Running /\ dm.total < Pieces /\ ~(dm.total + 1 < Room)
          /\ dm'.total = dm.total + 1 /\ dm'.mem = dm.mem
          /\ UNCHANGED <<dm.bus, dm.status, dm.deaths, dm.buf, dm.held, dm.size, dm.at, dm.run, dm.work,
                         dm.stored, dm.reads, dm.crossed>>
      BY <1>0, <1>8, <2>2 DEF WorkPiece, PieceFits, DumpShape, DumpTypeOK, DumpFields
    <3>3. DumpShape' BY <1>0, <2>2, <3>1, <3>2 DEF DumpShape, Dumpers
    <3>4. DumpTypeOK'
      BY <1>0, <2>2, <3>1, <3>2, DumpAssumption DEF DumpShape, Dumpers, DumpTypeOK, StoredInOrder
    <3>5. WhoDumps' BY <1>0, <2>2, <3>1, <3>2 DEF DumpShape, DumpTypeOK, WhoDumps, Running
    <3>6. StoredInOrder'
      BY <1>0, <2>2, <3>1, <3>2, DumpAssumption DEF DumpTypeOK, WhoDumps, StoredInOrder, Running
    <3>7. NotCrossed'
      <4> SUFFICES ASSUME ~dm'.crossed PROVE OneDumps' /\ Reads' BY DEF NotCrossed
      <4>1. ~dm.crossed /\ OneDumps /\ Reads BY <1>0, <2>2, <3>1, <3>2 DEF NotCrossed
      <4>2. OneDumps'
        BY <1>0, <2>2, <3>1, <3>2, <4>1, DumpAssumption DEF OneDumps, DumpShape, DumpTypeOK, WhoDumps,
           StoredInOrder, Running, Idle, Dumpers
      <4>3. Reads'
        BY <1>0, <2>2, <3>1, <3>2, <4>1, DumpAssumption DEF OneDumps, Reads, DumpShape, DumpTypeOK, WhoDumps,
           StoredInOrder, Running, Idle, Dumpers
      <4> QED BY <4>2, <4>3
    <3> QED BY <3>3, <3>4, <3>5, <3>6, <3>7 DEF DumpInv
  <2> QED BY <1>0, <1>8, <2>1, <2>2 DEF WorkPiece
<1>9. CASE WorkStops
  <2>1. dr' = dr BY <1>9 DEF WorkStops
  <2>2. /\ DOMAIN dm' = DumpFields
        /\ Running /\ dm'.work \in {"idle", "queued"} /\ dm'.size = dm.stored
        /\ UNCHANGED <<dm.bus, dm.status, dm.deaths, dm.buf, dm.held, dm.mem, dm.at, dm.run, dm.total,
                       dm.stored, dm.reads, dm.crossed>>
    BY <1>0, <1>9 DEF WorkStops, DumpShape, DumpTypeOK, DumpFields
  <2>3. DumpShape' BY <1>0, <2>1, <2>2 DEF DumpShape, Dumpers
  <2>4. DumpTypeOK'
    BY <1>0, <2>1, <2>2, DumpAssumption DEF DumpShape, Dumpers, DumpTypeOK, StoredInOrder
  <2>5. WhoDumps' BY <1>0, <2>1, <2>2 DEF DumpShape, DumpTypeOK, WhoDumps, Running
  <2>6. StoredInOrder'
    BY <1>0, <2>1, <2>2, DumpAssumption DEF DumpTypeOK, WhoDumps, StoredInOrder, Running
  <2>7. NotCrossed'
    <3> SUFFICES ASSUME ~dm'.crossed PROVE OneDumps' /\ Reads' BY DEF NotCrossed
    <3>1. ~dm.crossed /\ OneDumps /\ Reads BY <1>0, <2>1, <2>2 DEF NotCrossed
    <3>2. OneDumps'
      BY <1>0, <2>1, <2>2, <3>1, DumpAssumption DEF OneDumps, DumpShape, DumpTypeOK, WhoDumps, StoredInOrder,
         Running, Idle, Dumpers
    <3>3. Reads'
      BY <1>0, <2>1, <2>2, <3>1, DumpAssumption DEF OneDumps, Reads, DumpShape, DumpTypeOK, WhoDumps,
         StoredInOrder, Running, Idle, Dumpers
    <3> QED BY <3>2, <3>3
  <2> QED BY <2>3, <2>4, <2>5, <2>6, <2>7 DEF DumpInv
<1>10. CASE LogHeld
  <2>1. dr' = dr BY <1>10 DEF LogHeld
  <2>2. /\ DOMAIN dm' = DumpFields
        /\ dm'.held \in BOOLEAN
        /\ UNCHANGED <<dm.bus, dm.status, dm.deaths, dm.buf, dm.size, dm.mem, dm.at, dm.run, dm.work,
                       dm.total, dm.stored, dm.reads, dm.crossed>>
    BY <1>0, <1>10 DEF LogHeld, DumpShape, DumpTypeOK, DumpFields
  <2>3. DumpShape' BY <1>0, <2>1, <2>2 DEF DumpShape, Dumpers
  <2>4. DumpTypeOK'
    BY <1>0, <2>1, <2>2, DumpAssumption DEF DumpShape, Dumpers, DumpTypeOK, StoredInOrder
  <2>5. WhoDumps' BY <1>0, <2>1, <2>2 DEF DumpShape, DumpTypeOK, WhoDumps, Running
  <2>6. StoredInOrder'
    BY <1>0, <2>1, <2>2, DumpAssumption DEF DumpTypeOK, WhoDumps, StoredInOrder, Running
  <2>7. NotCrossed'
    <3> SUFFICES ASSUME ~dm'.crossed PROVE OneDumps' /\ Reads' BY DEF NotCrossed
    <3>1. ~dm.crossed /\ OneDumps /\ Reads BY <1>0, <2>1, <2>2 DEF NotCrossed
    <3>2. OneDumps'
      BY <1>0, <2>1, <2>2, <3>1, DumpAssumption DEF OneDumps, DumpShape, DumpTypeOK, WhoDumps, StoredInOrder,
         Running, Idle, Dumpers
    <3>3. Reads'
      BY <1>0, <2>1, <2>2, <3>1, DumpAssumption DEF OneDumps, Reads, DumpShape, DumpTypeOK, WhoDumps,
         StoredInOrder, Running, Idle, Dumpers
    <3> QED BY <3>2, <3>3
  <2> QED BY <2>3, <2>4, <2>5, <2>6, <2>7 DEF DumpInv
<1>11. CASE FileOpen
  <2>1. dm' = dm BY <1>11 DEF FileOpen
  <2>2. PICK f \in DumpReaders : dr' = [dr EXCEPT ![f] = NewFile(dr[f].dev)] BY <1>11 DEF FileOpen
  <2>3. /\ DOMAIN dr' = DumpReaders /\ (\A g \in DumpReaders : g # f => dr'[g] = dr[g])
        /\ DOMAIN dr'[f] = DOMAIN dr[f] /\ dr'[f].dev = dr[f].dev
        /\ dr'[f].pos = 0 /\ dr'[f].got = {} /\ dr'[f].odd \in BOOLEAN
    BY <1>0, <2>2 DEF NewFile, DumpShape, DumpTypeOK
  <2>4. DumpShape' BY <1>0, <2>1, <2>2, <2>3 DEF DumpShape, Dumpers
  <2>5. DumpTypeOK'
    BY SMTT(20), <1>0, <2>1, <2>2, <2>3, DumpAssumption DEF DumpShape, Dumpers, DumpTypeOK, StoredInOrder
  <2>6. WhoDumps' BY <1>0, <2>1, <2>2, <2>3 DEF DumpShape, DumpTypeOK, WhoDumps, Running
  <2>7. StoredInOrder'
    BY <1>0, <2>1, <2>2, <2>3, DumpAssumption DEF DumpTypeOK, WhoDumps, StoredInOrder, Running
  <2>8. NotCrossed'
    <3> SUFFICES ASSUME ~dm'.crossed PROVE OneDumps' /\ Reads' BY DEF NotCrossed
    <3>1. ~dm.crossed /\ OneDumps /\ Reads BY <1>0, <2>1, <2>2, <2>3 DEF NotCrossed
    <3>2. OneDumps'
      BY <1>0, <2>1, <2>2, <2>3, <3>1, DumpAssumption DEF OneDumps, DumpShape, DumpTypeOK, WhoDumps,
         StoredInOrder, Running, Idle, Dumpers
    <3>3. Reads'
      BY <1>0, <2>1, <2>2, <2>3, <3>1, DumpAssumption DEF OneDumps, Reads, DumpShape, DumpTypeOK, WhoDumps,
         StoredInOrder, Running, Idle, Dumpers
    <3> QED BY <3>2, <3>3
  <2> QED BY <2>4, <2>5, <2>6, <2>7, <2>8 DEF DumpInv
<1>12. ASSUME NEW f \in DumpReaders, ReadPiece(f) PROVE DumpInv'
  <2>1. dm' = dm BY <1>12 DEF ReadPiece
  <2>2. dm.mem[dr[f].pos + 1] \in 0..MaxDeaths
    <3>1. dr[f].pos \in Nat /\ dr[f].pos + 1 \in 1..Pieces /\ dm.mem \in [1..Pieces -> 0..MaxDeaths]
      <4>1. dr[f].pos < dm.size BY <1>12 DEF ReadPiece
      <4> QED BY SMTT(20), <1>0, <4>1, DumpAssumption DEF DumpTypeOK
    <3> QED BY <3>1
  <2>3. /\ DOMAIN dr' = DumpReaders /\ (\A g \in DumpReaders : g # f => dr'[g] = dr[g])
        /\ DOMAIN dr'[f] = DOMAIN dr[f] /\ dr'[f].dev = dr[f].dev
        /\ dr[f].pos < dm.size /\ dr'[f].pos = dr[f].pos + 1 /\ dr'[f].odd = dr[f].odd
        /\ dr'[f].got = dr[f].got \union {dm.mem[dr[f].pos + 1]}
    BY <1>0, <1>12 DEF ReadPiece, DumpShape, DumpTypeOK
  <2>4. DumpShape'
    <3>1. DOMAIN dr'[f] = {"dev", "pos", "got", "odd"} /\ dr'[f].odd \in BOOLEAN
      BY <1>0, <2>3 DEF DumpShape
    <3> QED BY <1>0, <2>1, <2>3, <3>1 DEF DumpShape
  <2>5. DumpTypeOK'
    <3>1. dr'[f].pos \in 0..Pieces /\ dr'[f].dev \in {"SKWDUMP", "LOG"} /\ dr'[f].got \subseteq 0..MaxDeaths
      BY SMTT(20), <1>0, <2>2, <2>3, DumpAssumption DEF DumpTypeOK
    <3> QED BY <1>0, <2>1, <2>3, <3>1 DEF DumpTypeOK
  <2>6. WhoDumps' BY <1>0, <2>1, <2>2, <2>3 DEF DumpShape, DumpTypeOK, WhoDumps, Running
  <2>7. StoredInOrder'
    BY <1>0, <2>1, <2>2, <2>3, DumpAssumption DEF DumpTypeOK, WhoDumps, StoredInOrder, Running
  <2>8. NotCrossed'
    <3> SUFFICES ASSUME ~dm'.crossed PROVE OneDumps' /\ Reads' BY DEF NotCrossed
    <3>1. ~dm.crossed /\ OneDumps /\ Reads BY <1>0, <2>1, <2>2, <2>3 DEF NotCrossed
    <3>2. OneDumps'
      BY <1>0, <2>1, <2>2, <2>3, <3>1, DumpAssumption DEF OneDumps, DumpShape, DumpTypeOK, WhoDumps,
         StoredInOrder, Running, Idle, Dumpers
    <3>3. Reads'
      <4>1. ASSUME ~dr[f].odd PROVE dr'[f].pos <= dm.size /\ dr'[f].pos > 0 /\ dr'[f].got \subseteq {dm.mem[1]}
        <5>1. dm.size \in Nat /\ dr[f].pos \in Nat /\ dm.mem[dr[f].pos + 1] = dm.mem[1]
          BY SMTT(20), <1>0, <2>3, <3>1, DumpAssumption DEF OneDumps, DumpTypeOK
        <5>2. dr[f].got \subseteq {dm.mem[1]} BY <3>1, <4>1, <5>1 DEF Reads
        <5> QED BY <2>3, <5>1, <5>2
      <4>2. dr'[f].pos # 0 /\ dm' = dm BY <1>0, <2>1, <2>3 DEF DumpTypeOK
      <4> QED BY <2>1, <2>3, <3>1, <4>1, <4>2 DEF Reads
    <3> QED BY <3>2, <3>3
  <2> QED BY <2>4, <2>5, <2>6, <2>7, <2>8 DEF DumpInv
<1>13. ASSUME NEW f \in DumpReaders, ReadEnd(f) PROVE DumpInv'
  <2>1. CASE dr[f].dev = "SKWDUMP"
    <3>1. /\ DOMAIN dm' = DumpFields
          /\ dm.size > 0 /\ dm'.size = 0
          /\ UNCHANGED <<dm.bus, dm.status, dm.deaths, dm.buf, dm.held, dm.mem, dm.at, dm.run, dm.work,
                         dm.total, dm.stored, dm.reads, dm.crossed>>
      BY <1>0, <1>13, <2>1 DEF ReadEnd, DumpShape, DumpTypeOK, DumpFields
    <3>2. /\ DOMAIN dr' = DumpReaders
          /\ \A g \in DumpReaders : dr[g].pos = 0 => dr'[g] = dr[g]
          /\ \A g \in DumpReaders : dr[g].pos > 0 => dr'[g].odd /\ dr'[g].odd \in BOOLEAN
          /\ \A g \in DumpReaders : DOMAIN dr'[g] = DOMAIN dr[g] /\ dr'[g].pos = dr[g].pos /\ dr'[g].dev = dr[g].dev /\ dr'[g].got = dr[g].got
      <4>1. dr' = [g \in DumpReaders |-> IF dr[g].pos > 0 THEN [dr[g] EXCEPT !.odd = TRUE] ELSE dr[g]]
        BY <1>13, <2>1 DEF ReadEnd
      <4>2. ASSUME NEW g \in DumpReaders
            PROVE  /\ dr[g].pos = 0 => dr'[g] = dr[g]
                   /\ dr[g].pos > 0 => dr'[g].odd /\ dr'[g].odd \in BOOLEAN
                   /\ DOMAIN dr'[g] = DOMAIN dr[g] /\ dr'[g].pos = dr[g].pos /\ dr'[g].dev = dr[g].dev /\ dr'[g].got = dr[g].got
        <5>1. CASE dr[g].pos > 0
          <6>1. dr'[g] = [dr[g] EXCEPT !.odd = TRUE] BY <4>1, <5>1
          <6> QED BY <1>0, <5>1, <6>1 DEF DumpShape, DumpTypeOK
        <5>2. CASE ~(dr[g].pos > 0) BY <1>0, <4>1, <5>2 DEF DumpShape, DumpTypeOK
        <5> QED BY <5>1, <5>2
      <4>3. DOMAIN dr' = DumpReaders BY <4>1
      <4> QED BY <4>2, <4>3
    <3>3. DumpShape'
      <4>1. ASSUME NEW g \in DumpReaders PROVE DOMAIN dr'[g] = {"dev", "pos", "got", "odd"} /\ dr'[g].odd \in BOOLEAN
        <5>1. dr[g].pos = 0 \/ dr[g].pos > 0 BY <1>0 DEF DumpTypeOK
        <5> QED BY <1>0, <3>2, <5>1 DEF DumpShape
      <4> QED BY <1>0, <3>1, <3>2, <4>1 DEF DumpShape
    <3>4. DumpTypeOK'
      BY <1>0, <2>1, <3>1, <3>2, DumpAssumption DEF DumpShape, Dumpers, DumpTypeOK, StoredInOrder
    <3>5. WhoDumps' BY <1>0, <2>1, <3>1, <3>2 DEF DumpShape, DumpTypeOK, WhoDumps, Running
    <3>6. StoredInOrder'
      BY <1>0, <2>1, <3>1, <3>2, DumpAssumption DEF DumpTypeOK, WhoDumps, StoredInOrder, Running
    <3>7. NotCrossed'
      <4> SUFFICES ASSUME ~dm'.crossed PROVE OneDumps' /\ Reads' BY DEF NotCrossed
      <4>1. ~dm.crossed /\ OneDumps /\ Reads BY <1>0, <2>1, <3>1, <3>2 DEF NotCrossed
      <4>2. OneDumps'
        BY <1>0, <2>1, <3>1, <3>2, <4>1, DumpAssumption DEF OneDumps, DumpShape, DumpTypeOK, WhoDumps,
           StoredInOrder, Running, Idle, Dumpers
      <4>3. Reads'
        BY <1>0, <2>1, <3>1, <3>2, <4>1, DumpAssumption DEF OneDumps, Reads, DumpShape, DumpTypeOK, WhoDumps,
           StoredInOrder, Running, Idle, Dumpers
      <4> QED BY <4>2, <4>3
    <3> QED BY <3>3, <3>4, <3>5, <3>6, <3>7 DEF DumpInv
  <2>2. CASE ~(dr[f].dev = "SKWDUMP")
    <3>1. dm' = dm /\ dr' = dr BY <1>13, <2>2 DEF ReadEnd
    <3>2. DumpShape' BY <1>0, <2>2, <3>1 DEF DumpShape, Dumpers
    <3>3. DumpTypeOK'
      BY <1>0, <2>2, <3>1, DumpAssumption DEF DumpShape, Dumpers, DumpTypeOK, StoredInOrder
    <3>4. WhoDumps' BY <1>0, <2>2, <3>1 DEF DumpShape, DumpTypeOK, WhoDumps, Running
    <3>5. StoredInOrder'
      BY <1>0, <2>2, <3>1, DumpAssumption DEF DumpTypeOK, WhoDumps, StoredInOrder, Running
    <3>6. NotCrossed'
      <4> SUFFICES ASSUME ~dm'.crossed PROVE OneDumps' /\ Reads' BY DEF NotCrossed
      <4>1. ~dm.crossed /\ OneDumps /\ Reads BY <1>0, <2>2, <3>1 DEF NotCrossed
      <4>2. OneDumps'
        BY <1>0, <2>2, <3>1, <4>1, DumpAssumption DEF OneDumps, DumpShape, DumpTypeOK, WhoDumps, StoredInOrder,
           Running, Idle, Dumpers
      <4>3. Reads'
        BY <1>0, <2>2, <3>1, <4>1, DumpAssumption DEF OneDumps, Reads, DumpShape, DumpTypeOK, WhoDumps,
           StoredInOrder, Running, Idle, Dumpers
      <4> QED BY <4>2, <4>3
    <3> QED BY <3>2, <3>3, <3>4, <3>5, <3>6 DEF DumpInv
  <2> QED BY <1>0, <1>13, <2>1, <2>2 DEF ReadEnd
<1>14. ASSUME NEW f \in DumpReaders, ReadStatus(f) PROVE DumpInv'
  <2>1. /\ DOMAIN dm' = DumpFields
        /\ dm.size = 0
        /\ UNCHANGED <<dm.bus, dm.status, dm.deaths, dm.buf, dm.held, dm.size, dm.mem, dm.at, dm.run,
                       dm.work, dm.total, dm.stored, dm.crossed>>
    BY <1>0, <1>14 DEF ReadStatus, DumpShape, DumpTypeOK, DumpFields
  <2>2. /\ DOMAIN dr' = DumpReaders /\ (\A g \in DumpReaders : g # f => dr'[g] = dr[g])
        /\ DOMAIN dr'[f] = DOMAIN dr[f] /\ dr'[f].dev = dr[f].dev
        /\ dr'[f].pos = 1 /\ dr'[f].odd /\ dr'[f].odd \in BOOLEAN /\ dr'[f].got = dr[f].got
    BY <1>0, <1>14 DEF ReadStatus, DumpShape, DumpTypeOK
  <2>3. DumpShape' BY <1>0, <2>1, <2>2 DEF DumpShape, Dumpers
  <2>4. DumpTypeOK'
    BY SMTT(20), <1>0, <2>1, <2>2, DumpAssumption DEF DumpShape, Dumpers, DumpTypeOK, StoredInOrder
  <2>5. WhoDumps' BY <1>0, <2>1, <2>2 DEF DumpShape, DumpTypeOK, WhoDumps, Running
  <2>6. StoredInOrder'
    BY <1>0, <2>1, <2>2, DumpAssumption DEF DumpTypeOK, WhoDumps, StoredInOrder, Running
  <2>7. NotCrossed'
    <3> SUFFICES ASSUME ~dm'.crossed PROVE OneDumps' /\ Reads' BY DEF NotCrossed
    <3>1. ~dm.crossed /\ OneDumps /\ Reads BY <1>0, <2>1, <2>2 DEF NotCrossed
    <3>2. OneDumps'
      BY <1>0, <2>1, <2>2, <3>1, DumpAssumption DEF OneDumps, DumpShape, DumpTypeOK, WhoDumps, StoredInOrder,
         Running, Idle, Dumpers
    <3>3. Reads'
      BY <1>0, <2>1, <2>2, <3>1, DumpAssumption DEF OneDumps, Reads, DumpShape, DumpTypeOK, WhoDumps,
         StoredInOrder, Running, Idle, Dumpers
    <3> QED BY <3>2, <3>3
  <2> QED BY <2>3, <2>4, <2>5, <2>6, <2>7 DEF DumpInv
<1>15. CASE UNCHANGED dumpVars
  BY <1>0, <1>15 DEF DumpInv, dumpVars, DumpShape, Dumpers, DumpTypeOK, StoredInOrder, WhoDumps, Running,
     NotCrossed, OneDumps, Reads, Idle
<1> QED BY <1>1, <1>2, <1>3, <1>4, <1>5, <1>6, <1>7, <1>8, <1>9, <1>10, <1>11, <1>12, <1>13, <1>14,
     <1>15 DEF DumpNext

\* The initial state has it.
LEMMA DumpBegin ==
    ASSUME DumpInit
    PROVE  DumpInv
<1>1. PICK bus \in {"SDIO", "USB"} :
        dm = [bus |-> bus, status |-> "on", deaths |-> 0, buf |-> FALSE, held |-> FALSE, size |-> 0, mem |-> [i \in 1..Pieces |-> 0],
              at |-> [d \in Dumpers |-> 0], run |-> [d \in Dumpers |-> FALSE], work |-> "idle", total |-> 0, stored |-> 0, reads |-> 0,
              crossed |-> FALSE]
  BY DEF DumpInit
<1>2. PICK dev \in [DumpReaders -> {"SKWDUMP", "LOG"}] : dr = [f \in DumpReaders |-> NewFile(dev[f])]
  BY DEF DumpInit
<1>3. DOMAIN dr = DumpReaders /\ \A f \in DumpReaders : dr[f] = [dev |-> dev[f], pos |-> 0, got |-> {}, odd |-> FALSE] /\ dev[f] \in {"SKWDUMP", "LOG"}
  BY <1>2 DEF NewFile
<1>4. /\ dm.bus \in {"SDIO", "USB"} /\ dm.status = "on" /\ dm.deaths = 0 /\ dm.size = 0 /\ dm.work = "idle" /\ dm.total = 0 /\ dm.stored = 0
      /\ dm.mem = [i \in 1..Pieces |-> 0] /\ dm.at = [d \in Dumpers |-> 0] /\ dm.run = [d \in Dumpers |-> FALSE]
      /\ DOMAIN dm = DumpFields /\ {dm.buf, dm.held, dm.crossed} \subseteq BOOLEAN
  BY <1>1 DEF DumpFields
<1>5. DumpShape
  <2>1. dm.run \in [Dumpers -> BOOLEAN] /\ dm.crossed \in BOOLEAN BY <1>4
  <2>2. \A f \in DumpReaders : DOMAIN dr[f] = {"dev", "pos", "got", "odd"} /\ dr[f].odd \in BOOLEAN
    <3> SUFFICES ASSUME NEW f \in DumpReaders PROVE DOMAIN dr[f] = {"dev", "pos", "got", "odd"} /\ dr[f].odd \in BOOLEAN
      OBVIOUS
    <3>1. dr[f] = [dev |-> dev[f], pos |-> 0, got |-> {}, odd |-> FALSE] BY <1>3
    <3>2. DOMAIN dr[f] = {"dev", "pos", "got", "odd"} BY <3>1
    <3>3. dr[f].odd \in BOOLEAN BY <3>1
    <3> QED BY <3>2, <3>3
  <2> QED BY <1>3, <1>4, <2>1, <2>2 DEF DumpShape
<1>6. DumpTypeOK BY <1>3, <1>4, DumpAssumption DEF DumpTypeOK
<1>7. WhoDumps /\ StoredInOrder BY <1>4, DumpAssumption DEF WhoDumps, StoredInOrder, Running
<1>8. NotCrossed BY <1>3, <1>4 DEF NotCrossed, OneDumps, Reads, Running
<1> QED BY <1>5, <1>6, <1>7, <1>8 DEF DumpInv

\* It implies what the run checks.
LEMMA DumpHolds ==
    ASSUME DumpInv
    PROVE  DumpTypeOK /\ DumpIsOne
<1>0. DumpShape /\ DumpTypeOK /\ WhoDumps /\ StoredInOrder /\ NotCrossed BY DEF DumpInv
<1>1. ~dm.crossed => \A i, j \in 1..dm.size : dm.mem[i] = dm.mem[j] BY <1>0 DEF NotCrossed, OneDumps
<1>2. ASSUME ~dm.crossed, NEW f \in DumpReaders, ~dr[f].odd PROVE Cardinality(dr[f].got) <= 1
  <2>1. dr[f].got = {} \/ dr[f].got \subseteq {dm.mem[1]}
    BY <1>0, <1>2 DEF NotCrossed, Reads, DumpTypeOK
  <2>2. dr[f].got = {} \/ dr[f].got = {dm.mem[1]} BY <2>1
  <2>3. Cardinality({}) = 0 BY FS_EmptySet
  <2>4. Cardinality({dm.mem[1]}) = 1 BY FS_Singleton
  <2> QED BY <2>2, <2>3, <2>4
<1>3. (dm.bus = "USB" => dm.stored < Room /\ dm.size < Room) /\ (dm.size > 0 => dm.buf)
  BY <1>0 DEF WhoDumps, StoredInOrder
<1> QED BY <1>0, <1>1, <1>2, <1>3 DEF DumpIsOne

\* A dump that can be read is of one death, so is what a reader has got of
\* it, and over USB none goes beyond the buffer, but for the sequences of
\* calls that are named (skwutil/skw_dump_mem.c).
THEOREM DumpIsOfOneDeath == DumpSpec => []DumpIsOne
  BY DumpBegin, DumpStep, DumpHolds, PTL DEF DumpSpec

-----------------------------------------------------------------------------
\* The boot device.

\* The boot device: its images are there from their request to its removal,
\* what points to its data is cleared or marked when they go, a call of a
\* service meets live data unless the device went, and has boot_mutex.
BootFields == DOMAIN bo = {"pc", "bus", "host", "chip", "data", "busdata", "bufs", "whole", "nv", "fits", "patched",
                           "slp_disable", "btboot", "booted", "exc", "mutex", "leaked", "probes", "calls", "odd"}
ImagesThere == /\ bo.pc \in {"analyse", "first", "bind", "bound"} => Images \subseteq bo.whole /\ Images \subseteq bo.bufs
               /\ bo.pc = "off" => bo.bufs = {}
DataLive == /\ bo.pc # "off" => bo.data = "live"
            /\ bo.busdata = "live" => bo.pc \in {"bind", "bound"}
            /\ bo.booted => bo.pc \in {"bind", "bound"}
            /\ bo.btboot => bo.pc = "bound" /\ bo.bus = "SDIO"
DataFreed == /\ bo.busdata = "freed" => bo.odd # {}
             /\ bo.leaked # {} => bo.odd \intersect {"failed", "oldnv"} # {}
SettingsFit == /\ bo.patched => bo.fits /\ bo.pc \in {"first", "bind", "bound"}
               /\ bo.pc # "off" => bo.slp_disable \/ (bo.host /\ bo.chip)
CallsHeld == \A c \in Callers : /\ bc[c] # "away" => bo.pc \in {"bind", "bound"} \/ bo.odd # {}
                                /\ bc[c] = "stale" => bo.odd # {}
                                /\ bc[c] = "load" => bo.mutex = c \/ bo.odd # {}
BootInv == BootFields /\ BootTypeOK /\ ImagesThere /\ DataLive /\ DataFreed /\ SettingsFit /\ CallsHeld

\* A probe that fails before the end keeps the invariant, whatever it had.
LEMMA BootFailed ==
    ASSUME BootInv, NEW b, DOMAIN b = DOMAIN bo, bo' = ProbeFails(b), UNCHANGED bc,
           bo.pc \notin {"off", "bind", "bound"}, b.busdata = bo.busdata \/ b.busdata = "live",
           b.bufs \subseteq Images \union {"nv"}, b.odd = bo.odd, b.leaked = bo.leaked,
           \A x \in {"bus", "host", "chip", "fits", "slp_disable", "btboot", "exc", "mutex", "probes", "calls"} : b[x] = bo[x]
    PROVE  BootInv'
<1>0. BootFields /\ BootTypeOK /\ ImagesThere /\ DataLive /\ DataFreed /\ SettingsFit /\ CallsHeld
  BY DEF BootInv
<1>1. /\ DOMAIN bo' = DOMAIN bo
      /\ bo'.pc = "off" /\ bo'.data = "freed" /\ bo'.bufs = {} /\ bo'.whole = {}
      /\ bo'.busdata = IF b.busdata = "live" THEN "freed" ELSE b.busdata
      /\ bo'.leaked = bo.leaked \union b.bufs
      /\ bo'.nv = "none" /\ bo'.patched \in BOOLEAN /\ ~bo'.patched /\ bo'.booted \in BOOLEAN /\ ~bo'.booted
      /\ bo'.odd = IF b.bufs # {} \/ b.busdata = "live" THEN bo.odd \union {"failed"} ELSE bo.odd
  BY <1>0 DEF ProbeFails, BootFields
<1>2. \A x \in {"bus", "host", "chip", "fits", "slp_disable", "btboot", "exc", "mutex", "probes", "calls"} : bo'[x] = bo[x]
  BY <1>0 DEF ProbeFails, BootFields
<1>3. UNCHANGED <<bo.bus, bo.host, bo.chip, bo.fits, bo.slp_disable, bo.btboot, bo.exc, bo.mutex, bo.probes, bo.calls>>
  BY <1>2
<1>5. BootFields' /\ BootTypeOK' BY <1>0, <1>1, <1>3 DEF BootFields, BootTypeOK
<1>6. ImagesThere' /\ DataLive' /\ SettingsFit'
  BY <1>0, <1>1, <1>3 DEF ImagesThere, DataLive, SettingsFit
<1>7. DataFreed' BY <1>0, <1>1 DEF DataFreed, BootTypeOK
<1>8. CallsHeld' BY <1>0, <1>1, <1>3 DEF CallsHeld
<1> QED BY <1>5, <1>6, <1>7, <1>8 DEF BootInv

\* Every step of the boot device keeps it.
LEMMA BootDevStep ==
    ASSUME BootInv, [BootDevNext]_bootVars
    PROVE  BootInv'
<1> USE DEF BootFields, BootTypeOK
<1>0. BootFields /\ BootTypeOK /\ ImagesThere /\ DataLive /\ DataFreed /\ SettingsFit /\ CallsHeld
  BY DEF BootInv
<1>1. CASE seekwave_boot_probe
  <2>1. CASE bo' = [bo EXCEPT !.data = "null", !.probes = @ + 1]
    <3>1. BootFields' BY <1>0, <1>1, <2>1 DEF seekwave_boot_probe
    <3>2. BootTypeOK' BY <1>0, <1>1, <2>1 DEF seekwave_boot_probe, Callers, Images
    <3>3. ImagesThere' BY <1>0, <1>1, <2>1 DEF seekwave_boot_probe, ImagesThere, Images
    <3>4. DataLive' BY <1>0, <1>1, <2>1 DEF seekwave_boot_probe, DataLive
    <3>5. DataFreed' BY <1>0, <1>1, <2>1 DEF seekwave_boot_probe, ImagesThere, DataLive, DataFreed
    <3>6. SettingsFit' BY <1>0, <1>1, <2>1 DEF seekwave_boot_probe, SettingsFit
    <3>7. CallsHeld'
      BY <1>0, <1>1, <2>1 DEF seekwave_boot_probe, DataLive, DataFreed, CallsHeld, Callers
    <3> QED BY <3>1, <3>2, <3>3, <3>4, <3>5, <3>6, <3>7 DEF BootInv
  <2>2. ASSUME NEW host \in BOOLEAN, NEW chip \in BOOLEAN, NEW mode \in DebugModes, bo' = seekwave_boot_parse_dt([bo EXCEPT !.pc = "bus", !.data = "live", !.probes = @ + 1, !.mutex = "free"], host, chip, mode) PROVE BootInv'
    <3>1. bo.pc = "off" /\ UNCHANGED bc BY <1>1 DEF seekwave_boot_probe
    <3>2. /\ DOMAIN bo' = DOMAIN bo /\ bo'.pc = "bus" /\ bo'.data = "live" /\ bo'.mutex = "free"
          /\ {bo'.host, bo'.chip, bo'.slp_disable} \subseteq BOOLEAN /\ (bo'.slp_disable \/ (bo'.host /\ bo'.chip))
          /\ UNCHANGED <<bo.bus, bo.busdata, bo.bufs, bo.whole, bo.nv, bo.fits, bo.patched, bo.btboot, bo.booted, bo.exc, bo.leaked,
                          bo.calls, bo.odd>>
      <4> DEFINE h == host /\ mode \notin {"nolines", "nohost"}
                 c == chip /\ mode # "nolines"
                 l == ~(h /\ c) \/ mode = "awake"
                 x == IF mode = "swap" /\ h THEN c ELSE h
                 y == IF mode = "swap" /\ h THEN h ELSE c
      <4>1. x \in BOOLEAN /\ y \in BOOLEAN /\ l \in BOOLEAN /\ (l \/ (x /\ y)) OBVIOUS
      <4>2. bo' = [[bo EXCEPT !.pc = "bus", !.data = "live", !.probes = @ + 1, !.mutex = "free"] EXCEPT !.host = x, !.chip = y, !.slp_disable = l]
        BY <2>2 DEF seekwave_boot_parse_dt
      <4> HIDE DEF x, y, l
      <4> QED BY <1>0, <4>1, <4>2
    <3>3. BootFields' BY <1>0, <2>2, <3>1, <3>2
    <3>4. BootTypeOK' BY <1>0, <2>2, <3>1, <3>2 DEF Callers, Images
    <3>5. ImagesThere' BY <1>0, <2>2, <3>1, <3>2 DEF ImagesThere, Images
    <3>6. DataLive' BY <1>0, <2>2, <3>1, <3>2 DEF DataLive
    <3>7. DataFreed' BY <1>0, <2>2, <3>1, <3>2 DEF ImagesThere, DataLive, DataFreed
    <3>8. SettingsFit' BY <1>0, <2>2, <3>1, <3>2 DEF SettingsFit
    <3>9. CallsHeld' BY <1>0, <2>2, <3>1, <3>2 DEF DataLive, DataFreed, CallsHeld, Callers
    <3> QED BY <3>3, <3>4, <3>5, <3>6, <3>7, <3>8, <3>9 DEF BootInv
  <2> QED BY <1>0, <1>1, <2>1, <2>2 DEF seekwave_boot_probe
<1>2. CASE skw_get_bus_dev
  <2>1. CASE bo' = ProbeFails(bo)
    <3> DEFINE b == bo
    <3>1. /\ DOMAIN b = DOMAIN bo /\ bo' = ProbeFails(b) /\ UNCHANGED bc /\ bo.pc \notin {"off", "bind", "bound"}
          /\ b.busdata = bo.busdata \/ b.busdata = "live"
          /\ b.bufs \subseteq Images \union {"nv"} /\ b.odd = bo.odd /\ b.leaked = bo.leaked
      BY <1>0, <1>2, <2>1 DEF skw_get_bus_dev, Images
    <3>2. \A x \in {"bus", "host", "chip", "fits", "slp_disable", "btboot", "exc", "mutex", "probes", "calls"} : b[x] = bo[x]
      BY <1>0
    <3> HIDE DEF b
    <3> QED BY <3>1, <3>2, BootFailed
  <2>2. CASE bo' = [bo EXCEPT !.pc = "request"]
    <3>1. BootFields' BY <1>0, <1>2, <2>2 DEF skw_get_bus_dev
    <3>2. BootTypeOK' BY <1>0, <1>2, <2>2 DEF skw_get_bus_dev, Callers, Images
    <3>3. ImagesThere' BY <1>0, <1>2, <2>2 DEF skw_get_bus_dev, ImagesThere, Images
    <3>4. DataLive' BY <1>0, <1>2, <2>2 DEF skw_get_bus_dev, DataLive
    <3>5. DataFreed' BY <1>0, <1>2, <2>2 DEF skw_get_bus_dev, ImagesThere, DataLive, DataFreed
    <3>6. SettingsFit' BY <1>0, <1>2, <2>2 DEF skw_get_bus_dev, SettingsFit
    <3>7. CallsHeld' BY <1>0, <1>2, <2>2 DEF skw_get_bus_dev, DataLive, DataFreed, CallsHeld, Callers
    <3> QED BY <3>1, <3>2, <3>3, <3>4, <3>5, <3>6, <3>7 DEF BootInv
  <2> QED BY <1>0, <1>2, <2>1, <2>2 DEF skw_get_bus_dev
<1>3. CASE ImageFails
  <2>1. CASE bo' = ProbeFails(bo)
    <3> DEFINE b == bo
    <3>1. /\ DOMAIN b = DOMAIN bo /\ bo' = ProbeFails(b) /\ UNCHANGED bc /\ bo.pc \notin {"off", "bind", "bound"}
          /\ b.busdata = bo.busdata \/ b.busdata = "live"
          /\ b.bufs \subseteq Images \union {"nv"} /\ b.odd = bo.odd /\ b.leaked = bo.leaked
      BY <1>0, <1>3, <2>1 DEF ImageFails, Images
    <3>2. \A x \in {"bus", "host", "chip", "fits", "slp_disable", "btboot", "exc", "mutex", "probes", "calls"} : b[x] = bo[x]
      BY <1>0
    <3> HIDE DEF b
    <3> QED BY <3>1, <3>2, BootFailed
  <2>2. CASE bo' = ProbeFails([bo EXCEPT !.bufs = @ \union {"dram"}])
    <3> DEFINE b == [bo EXCEPT !.bufs = @ \union {"dram"}]
    <3>1. /\ DOMAIN b = DOMAIN bo /\ bo' = ProbeFails(b) /\ UNCHANGED bc /\ bo.pc \notin {"off", "bind", "bound"}
          /\ b.busdata = bo.busdata \/ b.busdata = "live"
          /\ b.bufs \subseteq Images \union {"nv"} /\ b.odd = bo.odd /\ b.leaked = bo.leaked
      BY <1>0, <1>3, <2>2 DEF ImageFails, Images
    <3>2. \A x \in {"bus", "host", "chip", "fits", "slp_disable", "btboot", "exc", "mutex", "probes", "calls"} : b[x] = bo[x]
      BY <1>0
    <3> HIDE DEF b
    <3> QED BY <3>1, <3>2, BootFailed
  <2>3. CASE bo' = ProbeFails([bo EXCEPT !.bufs = {}])
    <3> DEFINE b == [bo EXCEPT !.bufs = {}]
    <3>1. /\ DOMAIN b = DOMAIN bo /\ bo' = ProbeFails(b) /\ UNCHANGED bc /\ bo.pc \notin {"off", "bind", "bound"}
          /\ b.busdata = bo.busdata \/ b.busdata = "live"
          /\ b.bufs \subseteq Images \union {"nv"} /\ b.odd = bo.odd /\ b.leaked = bo.leaked
      BY <1>0, <1>3, <2>3 DEF ImageFails, Images
    <3>2. \A x \in {"bus", "host", "chip", "fits", "slp_disable", "btboot", "exc", "mutex", "probes", "calls"} : b[x] = bo[x]
      BY <1>0
    <3> HIDE DEF b
    <3> QED BY <3>1, <3>2, BootFailed
  <2> QED BY <1>0, <1>3, <2>1, <2>2, <2>3 DEF ImageFails
<1>4. CASE skw_request_firmwares
  <2>1. CASE bo' = [Fetched(bo) EXCEPT !.pc = IF @ = "request" THEN "again" ELSE "analyse"]
    <3>1. bo.pc \in {"request", "again"} /\ UNCHANGED bc BY <1>4 DEF skw_request_firmwares
    <3>2. /\ DOMAIN bo' = DOMAIN bo /\ bo'.pc = (IF bo.pc = "request" THEN "again" ELSE "analyse") /\ bo'.nv = bo.nv /\ bo'.fits = bo.fits
          /\ bo'.bufs = bo.bufs \union Images /\ bo'.whole = bo.whole \union Images
          /\ UNCHANGED <<bo.bus, bo.host, bo.chip, bo.data, bo.busdata, bo.patched, bo.slp_disable, bo.btboot, bo.booted, bo.exc, bo.mutex,
                          bo.leaked, bo.probes, bo.calls, bo.odd>>
      BY <1>0, <2>1 DEF Fetched
    <3>3. BootFields' BY <1>0, <2>1, <3>1, <3>2
    <3>4. BootTypeOK' BY <1>0, <2>1, <3>1, <3>2 DEF Callers, Images
    <3>5. ImagesThere' BY <1>0, <2>1, <3>1, <3>2 DEF ImagesThere, Images
    <3>6. DataLive' BY <1>0, <2>1, <3>1, <3>2 DEF DataLive
    <3>7. DataFreed' BY <1>0, <2>1, <3>1, <3>2 DEF ImagesThere, DataLive, DataFreed
    <3>8. SettingsFit' BY <1>0, <2>1, <3>1, <3>2 DEF SettingsFit
    <3>9. CallsHeld' BY <1>0, <2>1, <3>1, <3>2 DEF DataLive, DataFreed, CallsHeld, Callers
    <3> QED BY <3>3, <3>4, <3>5, <3>6, <3>7, <3>8, <3>9 DEF BootInv
  <2>2. CASE bo' = [Fetched(bo) EXCEPT !.pc = "analyse"]
    <3>1. bo.pc \in {"request", "again"} /\ UNCHANGED bc BY <1>4 DEF skw_request_firmwares
    <3>2. /\ DOMAIN bo' = DOMAIN bo /\ bo'.pc = "analyse" /\ bo'.nv = bo.nv /\ bo'.fits = bo.fits
          /\ bo'.bufs = bo.bufs \union Images /\ bo'.whole = bo.whole \union Images
          /\ UNCHANGED <<bo.bus, bo.host, bo.chip, bo.data, bo.busdata, bo.patched, bo.slp_disable, bo.btboot, bo.booted, bo.exc, bo.mutex,
                          bo.leaked, bo.probes, bo.calls, bo.odd>>
      BY <1>0, <2>2 DEF Fetched
    <3>3. BootFields' BY <1>0, <2>2, <3>1, <3>2
    <3>4. BootTypeOK' BY <1>0, <2>2, <3>1, <3>2 DEF Callers, Images
    <3>5. ImagesThere' BY <1>0, <2>2, <3>1, <3>2 DEF ImagesThere, Images
    <3>6. DataLive' BY <1>0, <2>2, <3>1, <3>2 DEF DataLive
    <3>7. DataFreed' BY <1>0, <2>2, <3>1, <3>2 DEF ImagesThere, DataLive, DataFreed
    <3>8. SettingsFit' BY <1>0, <2>2, <3>1, <3>2 DEF SettingsFit
    <3>9. CallsHeld' BY <1>0, <2>2, <3>1, <3>2 DEF DataLive, DataFreed, CallsHeld, Callers
    <3> QED BY <3>3, <3>4, <3>5, <3>6, <3>7, <3>8, <3>9 DEF BootInv
  <2>3. ASSUME NEW kind \in {"old", "new"}, NEW fits \in BOOLEAN, bo' = [Fetched(bo) EXCEPT !.pc = "analyse", !.nv = kind, !.fits = fits, !.bufs = @ \union {"nv"}, !.whole = @ \union {"nv"}] PROVE BootInv'
    <3>1. bo.pc \in {"request", "again"} /\ UNCHANGED bc BY <1>4 DEF skw_request_firmwares
    <3>2. /\ DOMAIN bo' = DOMAIN bo /\ bo'.pc = "analyse" /\ bo'.nv = kind /\ bo'.fits = fits
          /\ bo'.bufs = bo.bufs \union Images \union {"nv"} /\ bo'.whole = bo.whole \union Images \union {"nv"}
          /\ UNCHANGED <<bo.bus, bo.host, bo.chip, bo.data, bo.busdata, bo.patched, bo.slp_disable, bo.btboot, bo.booted, bo.exc, bo.mutex,
                          bo.leaked, bo.probes, bo.calls, bo.odd>>
      BY <1>0, <2>3 DEF Fetched
    <3>3. BootFields' BY <1>0, <2>3, <3>1, <3>2
    <3>4. BootTypeOK' BY <1>0, <2>3, <3>1, <3>2 DEF Callers, Images
    <3>5. ImagesThere' BY <1>0, <2>3, <3>1, <3>2 DEF ImagesThere, Images
    <3>6. DataLive' BY <1>0, <2>3, <3>1, <3>2 DEF DataLive
    <3>7. DataFreed' BY <1>0, <2>3, <3>1, <3>2 DEF ImagesThere, DataLive, DataFreed
    <3>8. SettingsFit' BY <1>0, <2>3, <3>1, <3>2 DEF SettingsFit
    <3>9. CallsHeld' BY <1>0, <2>3, <3>1, <3>2 DEF DataLive, DataFreed, CallsHeld, Callers
    <3> QED BY <3>3, <3>4, <3>5, <3>6, <3>7, <3>8, <3>9 DEF BootInv
  <2> QED BY <1>0, <1>4, <2>1, <2>2, <2>3 DEF skw_request_firmwares
<1>5. CASE skw_boot_init
  <2>1. CASE bo' = ProbeFails(bo)
    <3> DEFINE b == bo
    <3>1. /\ DOMAIN b = DOMAIN bo /\ bo' = ProbeFails(b) /\ UNCHANGED bc /\ bo.pc \notin {"off", "bind", "bound"}
          /\ b.busdata = bo.busdata \/ b.busdata = "live"
          /\ b.bufs \subseteq Images \union {"nv"} /\ b.odd = bo.odd /\ b.leaked = bo.leaked
      BY <1>0, <1>5, <2>1 DEF skw_boot_init, Images
    <3>2. \A x \in {"bus", "host", "chip", "fits", "slp_disable", "btboot", "exc", "mutex", "probes", "calls"} : b[x] = bo[x]
      BY <1>0
    <3> HIDE DEF b
    <3> QED BY <3>1, <3>2, BootFailed
  <2>2. CASE bo' = [bo EXCEPT !.pc = "first", !.patched = bo.nv # "none" /\ bo.fits, !.bufs = IF bo.nv = "old" /\ bo.fits THEN @ \ {"nv"} ELSE @]
    <3>1. bo.pc = "analyse" /\ UNCHANGED bc BY <1>5 DEF skw_boot_init
    <3>2. \E p \in BOOLEAN, n \in SUBSET bo.bufs : bo' = [bo EXCEPT !.pc = "first", !.patched = p, !.bufs = n] /\ (p => bo.fits) /\ bo.bufs \ {"nv"} \subseteq n
      <4> DEFINE p == bo.nv # "none" /\ bo.fits
                 n == IF bo.nv = "old" /\ bo.fits THEN bo.bufs \ {"nv"} ELSE bo.bufs
      <4>1. p \in BOOLEAN /\ (p => bo.fits) /\ n \in SUBSET bo.bufs /\ bo.bufs \ {"nv"} \subseteq n
        OBVIOUS
      <4>2. bo' = [bo EXCEPT !.pc = "first", !.patched = p, !.bufs = n] BY <2>2
      <4> HIDE DEF p, n
      <4> QED BY <4>1, <4>2
    <3>3. BootFields' BY <1>0, <2>2, <3>1, <3>2
    <3>4. BootTypeOK' BY <1>0, <2>2, <3>1, <3>2 DEF Callers, Images
    <3>5. ImagesThere' BY <1>0, <2>2, <3>1, <3>2 DEF ImagesThere, Images
    <3>6. DataLive' BY <1>0, <2>2, <3>1, <3>2 DEF DataLive
    <3>7. DataFreed' BY <1>0, <2>2, <3>1, <3>2 DEF ImagesThere, DataLive, DataFreed
    <3>8. SettingsFit' BY <1>0, <2>2, <3>1, <3>2 DEF SettingsFit
    <3>9. CallsHeld' BY <1>0, <2>2, <3>1, <3>2 DEF DataLive, DataFreed, CallsHeld, Callers
    <3> QED BY <3>3, <3>4, <3>5, <3>6, <3>7, <3>8, <3>9 DEF BootInv
  <2> QED BY <1>0, <1>5, <2>1, <2>2 DEF skw_boot_init
<1>6. CASE skw_first_boot
  <2>1. CASE bo' = ProbeFails([bo EXCEPT !.busdata = "live"])
    <3> DEFINE b == [bo EXCEPT !.busdata = "live"]
    <3>1. /\ DOMAIN b = DOMAIN bo /\ bo' = ProbeFails(b) /\ UNCHANGED bc /\ bo.pc \notin {"off", "bind", "bound"}
          /\ b.busdata = bo.busdata \/ b.busdata = "live"
          /\ b.bufs \subseteq Images \union {"nv"} /\ b.odd = bo.odd /\ b.leaked = bo.leaked
      BY <1>0, <1>6, <2>1 DEF skw_first_boot, Images
    <3>2. \A x \in {"bus", "host", "chip", "fits", "slp_disable", "btboot", "exc", "mutex", "probes", "calls"} : b[x] = bo[x]
      BY <1>0
    <3> HIDE DEF b
    <3> QED BY <3>1, <3>2, BootFailed
  <2>2. CASE bo' = [bo EXCEPT !.pc = "bind", !.busdata = "live", !.booted = TRUE]
    <3>1. BootFields' BY <1>0, <1>6, <2>2 DEF skw_first_boot
    <3>2. BootTypeOK' BY <1>0, <1>6, <2>2 DEF skw_first_boot, Callers, Images
    <3>3. ImagesThere' BY <1>0, <1>6, <2>2 DEF skw_first_boot, ImagesThere, Images
    <3>4. DataLive' BY <1>0, <1>6, <2>2 DEF skw_first_boot, DataLive
    <3>5. DataFreed' BY <1>0, <1>6, <2>2 DEF skw_first_boot, ImagesThere, DataLive, DataFreed
    <3>6. SettingsFit' BY <1>0, <1>6, <2>2 DEF skw_first_boot, SettingsFit
    <3>7. CallsHeld' BY <1>0, <1>6, <2>2 DEF skw_first_boot, DataLive, DataFreed, CallsHeld, Callers
    <3> QED BY <3>1, <3>2, <3>3, <3>4, <3>5, <3>6, <3>7 DEF BootInv
  <2> QED BY <1>0, <1>6, <2>1, <2>2 DEF skw_first_boot
<1>7. CASE skw_bind_boot_driver
  <2>1. BootFields' BY <1>0, <1>7 DEF skw_bind_boot_driver
  <2>2. BootTypeOK' BY <1>0, <1>7 DEF skw_bind_boot_driver, Callers, Images
  <2>3. ImagesThere' BY <1>0, <1>7 DEF skw_bind_boot_driver, ImagesThere, Images
  <2>4. DataLive' BY <1>0, <1>7 DEF skw_bind_boot_driver, DataLive
  <2>5. DataFreed' BY <1>0, <1>7 DEF skw_bind_boot_driver, ImagesThere, DataLive, DataFreed
  <2>6. SettingsFit' BY <1>0, <1>7 DEF skw_bind_boot_driver, SettingsFit
  <2>7. CallsHeld' BY <1>0, <1>7 DEF skw_bind_boot_driver, DataLive, DataFreed, CallsHeld, Callers
  <2> QED BY <2>1, <2>2, <2>3, <2>4, <2>5, <2>6, <2>7 DEF BootInv
<1>8. CASE seekwave_boot_remove
  <2>1. BootFields' BY <1>0, <1>8 DEF seekwave_boot_remove
  <2>2. BootTypeOK' BY <1>0, <1>8 DEF seekwave_boot_remove, Callers, Images
  <2>3. ImagesThere' BY <1>0, <1>8 DEF seekwave_boot_remove, ImagesThere, Images
  <2>4. DataLive' BY <1>0, <1>8 DEF seekwave_boot_remove, DataLive
  <2>5. DataFreed' BY <1>0, <1>8 DEF seekwave_boot_remove, ImagesThere, DataLive, DataFreed
  <2>6. SettingsFit' BY <1>0, <1>8 DEF seekwave_boot_remove, SettingsFit
  <2>7. CallsHeld' BY <1>0, <1>8 DEF seekwave_boot_remove, DataLive, DataFreed, CallsHeld, Callers
  <2> QED BY <2>1, <2>2, <2>3, <2>4, <2>5, <2>6, <2>7 DEF BootInv
<1>9. CASE FirmwareDown
  <2>1. BootFields' BY <1>0, <1>9 DEF FirmwareDown
  <2>2. BootTypeOK' BY <1>0, <1>9 DEF FirmwareDown, Callers, Images
  <2>3. ImagesThere' BY <1>0, <1>9 DEF FirmwareDown, ImagesThere, Images
  <2>4. DataLive' BY <1>0, <1>9 DEF FirmwareDown, DataLive
  <2>5. DataFreed' BY <1>0, <1>9 DEF FirmwareDown, ImagesThere, DataLive, DataFreed
  <2>6. SettingsFit' BY <1>0, <1>9 DEF FirmwareDown, SettingsFit
  <2>7. CallsHeld' BY <1>0, <1>9 DEF FirmwareDown, DataLive, DataFreed, CallsHeld, Callers
  <2> QED BY <2>1, <2>2, <2>3, <2>4, <2>5, <2>6, <2>7 DEF BootInv
<1>10. ASSUME NEW c \in Callers, ServiceBegins(c) PROVE BootInv'
  <2>1. BootFields' BY <1>0, <1>10 DEF ServiceBegins
  <2>2. BootTypeOK' BY <1>0, <1>10 DEF ServiceBegins, Callers, Images
  <2>3. ImagesThere' BY <1>0, <1>10 DEF ServiceBegins, ImagesThere, Images
  <2>4. DataLive' BY <1>0, <1>10 DEF ServiceBegins, DataLive
  <2>5. DataFreed' BY <1>0, <1>10 DEF ServiceBegins, ImagesThere, DataLive, DataFreed
  <2>6. SettingsFit' BY <1>0, <1>10 DEF ServiceBegins, SettingsFit
  <2>7. CallsHeld' BY <1>0, <1>10 DEF ServiceBegins, DataLive, DataFreed, CallsHeld, Callers
  <2> QED BY <2>1, <2>2, <2>3, <2>4, <2>5, <2>6, <2>7 DEF BootInv
<1>11. ASSUME NEW c \in Callers, ServiceLoads(c) PROVE BootInv'
  <2>1. BootFields' BY <1>0, <1>11 DEF ServiceLoads
  <2>2. BootTypeOK' BY <1>0, <1>11 DEF ServiceLoads, Callers, Images
  <2>3. ImagesThere' BY <1>0, <1>11 DEF ServiceLoads, ImagesThere, Images
  <2>4. DataLive' BY <1>0, <1>11 DEF ServiceLoads, DataLive
  <2>5. DataFreed' BY <1>0, <1>11 DEF ServiceLoads, ImagesThere, DataLive, DataFreed
  <2>6. SettingsFit' BY <1>0, <1>11 DEF ServiceLoads, SettingsFit
  <2>7. CallsHeld' BY <1>0, <1>11 DEF ServiceLoads, DataLive, DataFreed, CallsHeld, Callers
  <2> QED BY <2>1, <2>2, <2>3, <2>4, <2>5, <2>6, <2>7 DEF BootInv
<1>12. ASSUME NEW c \in Callers, ServiceDone(c) PROVE BootInv'
  <2>1. BootFields' BY <1>0, <1>12 DEF ServiceDone
  <2>2. BootTypeOK' BY <1>0, <1>12 DEF ServiceDone, Callers, Images
  <2>3. ImagesThere' BY <1>0, <1>12 DEF ServiceDone, ImagesThere, Images
  <2>4. DataLive' BY <1>0, <1>12 DEF ServiceDone, DataLive
  <2>5. DataFreed' BY <1>0, <1>12 DEF ServiceDone, ImagesThere, DataLive, DataFreed
  <2>6. SettingsFit' BY <1>0, <1>12 DEF ServiceDone, SettingsFit
  <2>7. CallsHeld' BY <1>0, <1>12 DEF ServiceDone, DataLive, DataFreed, CallsHeld, Callers
  <2> QED BY <2>1, <2>2, <2>3, <2>4, <2>5, <2>6, <2>7 DEF BootInv
<1>13. CASE UNCHANGED bootVars
  BY <1>0, <1>13 DEF BootInv, bootVars, Callers, Images, ImagesThere, DataLive, DataFreed, SettingsFit, CallsHeld
<1> QED
  BY <1>1, <1>2, <1>3, <1>4, <1>5, <1>6, <1>7, <1>8, <1>9, <1>10, <1>11, <1>12, <1>13 DEF BootDevNext

\* The initial state has it.
LEMMA BootDevBegin ==
    ASSUME BootDevInit
    PROVE  BootInv
<1>1. /\ BootFields /\ bo.pc = "off" /\ bo.data = "null" /\ bo.busdata = "null" /\ bo.bufs = {} /\ bo.whole = {}
      /\ bo.bus \in {"SDIO", "USB"} /\ bo.mutex = "free" /\ bo.nv = "none" /\ bo.leaked = {}
      /\ {bo.fits, bo.patched, bo.slp_disable, bo.host, bo.chip, bo.btboot, bo.booted, bo.exc} \subseteq BOOLEAN
      /\ ~bo.patched /\ ~bo.booted /\ ~bo.btboot
  BY DEF BootDevInit, BootFields
<1>2. bc \in [Callers -> {"away", "wait", "load", "stale"}] /\ \A c \in Callers : bc[c] = "away"
  BY DEF BootDevInit
<1>3. BootTypeOK /\ ImagesThere /\ DataLive /\ DataFreed /\ SettingsFit
  BY <1>1, <1>2 DEF BootTypeOK, ImagesThere, DataLive, DataFreed, SettingsFit
<1>4. CallsHeld BY <1>2 DEF CallsHeld
<1> QED BY <1>1, <1>3, <1>4 DEF BootInv

\* It implies what the run checks.
LEMMA BootDevHolds ==
    ASSUME BootInv
    PROVE  BootTypeOK /\ BootDataHeld
<1>0. BootFields /\ BootTypeOK /\ ImagesThere /\ DataLive /\ DataFreed /\ SettingsFit /\ CallsHeld
  BY DEF BootInv
<1>1. /\ bo.booted => Images \subseteq bo.whole /\ Images \subseteq bo.bufs /\ bo.data = "live"
      /\ bo.patched => bo.fits /\ "iram" \in bo.bufs
      /\ bo.booted /\ ~bo.slp_disable => bo.host /\ bo.chip
      /\ bo.pc = "off" => bo.bufs = {}
      /\ bo.leaked # {} => bo.odd \intersect {"failed", "oldnv"} # {}
      /\ bo.btboot => bo.data = "live" /\ bo.bus = "SDIO"
  BY <1>0 DEF ImagesThere, DataLive, DataFreed, SettingsFit, Images, BootTypeOK
<1>2. (\E c \in Callers : bc[c] = "stale" \/ (bc[c] = "load" /\ bo.data # "live")) => bo.odd # {}
  BY <1>0 DEF CallsHeld, DataLive
<1>3. bc["WIFI"] = "load" /\ bc["BT"] = "load" => bo.odd # {} BY <1>0 DEF CallsHeld, Callers
<1> QED BY <1>0, <1>1, <1>2, <1>3 DEF BootDataHeld

\* The chip is booted from whole images and settings that fit, the buffers
\* are freed, and a service works on live data with boot_mutex, one at a
\* time, but for the removals and failed probes that are named
\* (skw_boot.c).
THEOREM BootedFromLiveData == BootDevSpec => []BootDataHeld
  BY BootDevBegin, BootDevStep, BootDevHolds, PTL DEF BootDevSpec

-----------------------------------------------------------------------------
\* The parts together.  Only one of them runs in a behaviour of
\* MCSkwPlatform; the invariant of that one holds.
PartsOK == /\ part = "port" => PortInv /\ AckInv /\ PortRecord
           /\ part = "cp" => CpInv
           /\ part = "bind" => BindInv
           /\ part = "link" => LinkInv
           /\ part = "urb" => UrbInv
           /\ part = "usb" => UsbInv
           /\ part = "bt" => BtInv
           /\ part = "btlog" => BtLogInv
           /\ part = "ucom" => UcomInv
           /\ part = "log" => LogInv
           /\ part = "dump" => DumpInv
           /\ part = "boot" => BootInv

\* Every part starts in its invariant.
LEMMA PartsBegin == Init => PartsOK
<1> SUFFICES ASSUME Init PROVE PartsOK OBVIOUS
<1>1. /\ PortInit /\ CpInit /\ BindInit /\ LinkInit /\ UrbInit /\ UsbInit /\ BtInit
      /\ BtLogInit /\ UcomInit /\ LogInit /\ DumpInit /\ BootDevInit
  BY DEF Init
<1>2. PortInv /\ AckInv /\ PortRecord BY <1>1, PortBegin, AckBegin
<1>3. CpInv /\ BindInv /\ LinkInv BY <1>1, CpBegin, BindBegin, LinkBegin
<1>4. UrbInv /\ UsbInv /\ BtInv BY <1>1, UrbBegin, UsbBegin, BtBegin
<1>5. BtLogInv /\ UcomInv /\ LogInv BY <1>1, BtLogBegin, UcomBegin, LogBegin
<1>6. DumpInv /\ BootInv BY <1>1, DumpBegin, BootDevBegin
<1> QED BY <1>2, <1>3, <1>4, <1>5, <1>6 DEF PartsOK

\* A step of the part that runs keeps it, the others stand still.
LEMMA PartsStep == PartsOK /\ [Next]_vars => PartsOK'
<1> SUFFICES ASSUME PartsOK, [Next]_vars PROVE PartsOK' OBVIOUS
<1>1. CASE PortSteps
  <2>1. part = "port" /\ part' = part /\ PortNext /\ PortInv /\ AckInv /\ PortRecord
    BY <1>1 DEF PortSteps, PartsOK
  <2> QED BY <2>1, PortStep, AckStep, RecordStep DEF PartsOK
<1>2. CASE CpSteps
  <2>1. part = "cp" /\ part' = part /\ CpNext /\ CpInv BY <1>2 DEF CpSteps, PartsOK
  <2> QED BY <2>1, CpStep DEF PartsOK
<1>3. CASE BindSteps
  <2>1. part = "bind" /\ part' = part /\ BindNext /\ BindInv BY <1>3 DEF BindSteps, PartsOK
  <2> QED BY <2>1, BindStep DEF PartsOK
<1>4. CASE LinkSteps
  <2>1. part = "link" /\ part' = part /\ LinkNext /\ LinkInv BY <1>4 DEF LinkSteps, PartsOK
  <2> QED BY <2>1, LinkStep DEF PartsOK
<1>5. CASE UrbSteps
  <2>1. part = "urb" /\ part' = part /\ UrbNext /\ UrbInv BY <1>5 DEF UrbSteps, PartsOK
  <2> QED BY <2>1, UrbStep DEF PartsOK
<1>6. CASE UsbSteps
  <2>1. part = "usb" /\ part' = part /\ UsbNext /\ UsbInv BY <1>6 DEF UsbSteps, PartsOK
  <2> QED BY <2>1, UsbStep DEF PartsOK
<1>7. CASE BtSteps
  <2>1. part = "bt" /\ part' = part /\ BtNext /\ BtInv BY <1>7 DEF BtSteps, PartsOK
  <2> QED BY <2>1, BtStep DEF PartsOK
<1>8. CASE BtLogSteps
  <2>1. part = "btlog" /\ part' = part /\ BtLogNext /\ BtLogInv BY <1>8 DEF BtLogSteps, PartsOK
  <2> QED BY <2>1, BtLogStep DEF PartsOK
<1>9. CASE UcomSteps
  <2>1. part = "ucom" /\ part' = part /\ UcomNext /\ UcomInv BY <1>9 DEF UcomSteps, PartsOK
  <2> QED BY <2>1, UcomStep DEF PartsOK
<1>10. CASE LogSteps
  <2>1. part = "log" /\ part' = part /\ LogNext /\ LogInv BY <1>10 DEF LogSteps, PartsOK
  <2> QED BY <2>1, LogStep DEF PartsOK
<1>11. CASE DumpSteps
  <2>1. part = "dump" /\ part' = part /\ DumpNext /\ DumpInv BY <1>11 DEF DumpSteps, PartsOK
  <2> QED BY <2>1, DumpStep DEF PartsOK
<1>12. CASE BootDevSteps
  <2>1. part = "boot" /\ part' = part /\ BootDevNext /\ BootInv BY <1>12 DEF BootDevSteps, PartsOK
  <2> QED BY <2>1, BootDevStep DEF PartsOK
<1>13. CASE UNCHANGED vars
  <2>1. /\ UNCHANGED part /\ UNCHANGED portVars /\ UNCHANGED cpVars /\ UNCHANGED bindVars /\ UNCHANGED linkVars
        /\ UNCHANGED urbVars /\ UNCHANGED usbVars /\ UNCHANGED btVars
        /\ UNCHANGED blVars /\ UNCHANGED ucomVars /\ UNCHANGED logVars /\ UNCHANGED dumpVars /\ UNCHANGED bootVars
    BY <1>13 DEF vars, busVars, deviceVars
  <2>2. (part = "port" => PortInv /\ AckInv /\ PortRecord)'
    BY <2>1, PortStep, AckStep, RecordStep DEF PartsOK
  <2>3. (part = "cp" => CpInv)' /\ (part = "bind" => BindInv)' /\ (part = "link" => LinkInv)'
    BY <2>1, CpStep, BindStep, LinkStep DEF PartsOK
  <2>4. (part = "urb" => UrbInv)' /\ (part = "usb" => UsbInv)' /\ (part = "bt" => BtInv)'
    BY <2>1, UrbStep, UsbStep, BtStep DEF PartsOK
  <2>5. (part = "btlog" => BtLogInv)' /\ (part = "ucom" => UcomInv)' /\ (part = "log" => LogInv)'
    BY <2>1, BtLogStep, UcomStep, LogStep DEF PartsOK
  <2>6. (part = "dump" => DumpInv)' /\ (part = "boot" => BootInv)'
    BY <2>1, DumpStep, BootDevStep DEF PartsOK
  <2> QED BY <2>2, <2>3, <2>4, <2>5, <2>6 DEF PartsOK
<1> QED BY <1>1, <1>2, <1>3, <1>4, <1>5, <1>6, <1>7, <1>8, <1>9, <1>10, <1>11, <1>12, <1>13 DEF Next

\* What module MCSkwPlatform asks of its receivers holds for every value of
\* the constants: no wakeup of a port's reader is lost (skw_sdio_rx.c), the
\* link's interrupt is armed and its packets heard (skw_sdio_main.c), a USB
\* port goes on receiving and loses no request (skw_usb_io.c).
THEOREM PlatformServes == Spec => []ReceiversServed
<1>1. PartsOK => ReceiversServed
  <2>1. PortInv => NoLostWakeup /\ StoppedHasData BY DEF PortInv
  <2> QED BY <2>1, LinkHolds, UrbHolds DEF PartsOK, ReceiversServed
<1> QED BY PartsBegin, PartsStep, <1>1, PTL DEF Spec

\* What the drivers take the firmware for is what it is, for every value of
\* the constants: one recovery at a time, a death told once, services that
\* count as started have said so, over SDIO (skw_boot.c, skw_sdio_main.c)
\* and over USB (skw_usb_io.c); and Bluetooth hands no firmware the frames
\* of the one before it (btseekwave.c).
THEOREM PlatformAgrees == Spec => []FirmwareAgrees
<1>1. PartsOK => FirmwareAgrees BY CpHolds, UsbHolds, BtHolds DEF PartsOK, FirmwareAgrees
<1> QED BY PartsBegin, PartsStep, <1>1, PTL DEF Spec

\* What the bus drivers hand out is accounted for, and every part has its
\* types: a send that reports success was acknowledged (skw_sdio_rx.c), the
\* devices of the ports are registered once and all given back
\* (skw_sdio_main.c).
THEOREM PlatformIsSound == Spec => []PlatformSound
<1>1. PartsOK => PlatformSound
  BY AckHolds, CpHolds, BindHolds, LinkHolds, UrbHolds, UsbHolds, BtHolds DEF PartsOK, PlatformSound
<1> QED BY PartsBegin, PartsStep, <1>1, PTL DEF Spec

\* What user space reads is what there is, and what is held stays, for
\* every value of the constants: the Bluetooth log is whole and its reader
\* woken (skw_btlog.c), a character device (skw_user_com.c), a recording
\* (skw_log_to_file.c), the images and the data of the boot device
\* (skw_boot.c) stay while they are used, and a dump is of one death
\* (skw_dump_mem.c).
THEOREM DevicesAreSound == Spec => []DevicesSound
<1>1. PartsOK => DevicesSound
  BY BtLogHolds, UcomHolds, LogHolds, DumpHolds, BootDevHolds DEF PartsOK, DevicesSound
<1> QED BY PartsBegin, PartsStep, <1>1, PTL DEF Spec
=============================================================================
