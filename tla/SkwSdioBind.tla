---------------------------- MODULE SkwSdioBind ----------------------------
(***************************************************************************)
(* The platform devices that the SDIO driver registers for its ports       *)
(* (skw_sdio_rx.c): when the card is probed, at the first boot of the      *)
(* firmware, and on demand for Wi-Fi, whose one device stands in two       *)
(* ports.  Two versions of the chip number their ports differently; the    *)
(* Wi-Fi code asks for and removes the device at one number in both, which *)
(* is the data port of one and the command port of the other.              *)
(***************************************************************************)
EXTENDS Integers, Sequences

CONSTANT MaxBindOps      \* bound: probes, switches of Wi-Fi

ASSUME BindAssumption == MaxBindOps \in Nat

VARIABLE sb              \* sdio_ports[].pdev and the devices registered
bindVars == sb

Versions == {"V10", "V20"}
Devices == {"ATC", "LOG", "LOOPCHECK", "BTDATA", "BTCMD", "BTAUDIO", "BTISOC", "BTLOG", "WIFI"}
PortNo(ver) ==
    IF ver = "V10" THEN [ATC |-> 0, LOG |-> 1, BTDATA |-> 2, BTCMD |-> 3, BTAUDIO |-> 4, WIFI_CMD |-> 5,
                         WIFI_DATA |-> 6, LOOPCHECK |-> 7, BTISOC |-> 11, BTLOG |-> 11]
    ELSE [ATC |-> 0, LOOPCHECK |-> 1, BTCMD |-> 2, BTAUDIO |-> 3, BTISOC |-> 4, BTDATA |-> 5, WIFI_CMD |-> 6,
          WIFI_DATA |-> 7, LOG |-> 9, BTLOG |-> 10]
Ports == 0..11

(* sb.reg counts how often a device is registered, sb.dead is a device that *)
(* was unregistered when it was not; sb.oom, memory was short in between    *)
(* and a device is half made.                                               *)
BindTypeOK == /\ sb.ver \in Versions /\ sb.pdev \in [Ports -> Devices \union {"none"}]
              /\ sb.reg \in [Devices -> 0..MaxBindOps] /\ sb.card \in {"absent", "probed", "booted"}
              /\ {sb.dead, sb.oom, sb.bt} \subseteq BOOLEAN

BindInit ==
    \E ver \in Versions, bt \in BOOLEAN :         \* bt: built with CONFIG_BT_SEEKWAVE
        sb = [ver |-> ver, bt |-> bt, pdev |-> [p \in Ports |-> "none"], reg |-> [d \in Devices |-> 0],
              card |-> "absent", dead |-> FALSE, oom |-> FALSE, n |-> 0]

-----------------------------------------------------------------------------

(* One device after the other, until one cannot be had; a device that was   *)
(* added but lacks its buffers is only put.                                 *)
Added(s, devs) ==
    LET In(p) == {d \in devs : PortNo(s.ver)[d] = p}
    IN  [s EXCEPT !.reg = [d \in Devices |-> IF d \in devs THEN s.reg[d] + 1 ELSE s.reg[d]],
                  !.pdev = [p \in Ports |-> IF In(p) # {} THEN CHOOSE d \in In(p) : TRUE ELSE s.pdev[p]]]
Bind(s, devs) ==
    LET Made(k) == Added(s, {devs[i] : i \in 1..k})
    IN  {Made(k) : k \in 0..Len(devs)} \union {[Made(k) EXCEPT !.oom = TRUE] : k \in 1..Len(devs)}

PlatformPorts == <<"ATC", "LOG", "LOOPCHECK">>
skw_sdio_bind_platform_driver(s) == Bind([s EXCEPT !.pdev = [p \in Ports |-> "none"]], PlatformPorts)

BtPorts(ver) == <<"BTDATA", "BTCMD", "BTAUDIO">> \o (IF ver = "V20" THEN <<"BTISOC", "BTLOG">> ELSE <<>>)
skw_sdio_bind_BT_driver(s) == Bind(s, BtPorts(s.ver))
(* The driver of its own takes one device and serves three ports with it. *)
skw_sdio_bind_btseekwave_driver(s) == Bind(s, <<"BTDATA">>)

(* The constant that is tested is WIFI_DATA_PORT of the older chip.  A GPIO *)
(* set up the wrong way or want of memory leaves things as they are; a      *)
(* device that cannot be added stays in its ports.                          *)
WIFI_DATA_PORT == PortNo("V10").WIFI_DATA
skw_sdio_bind_WIFI_driver(s) ==
    IF s.pdev[WIFI_DATA_PORT] # "none" THEN {s}
    ELSE LET set == [s EXCEPT !.pdev[PortNo(s.ver).WIFI_DATA] = "WIFI", !.pdev[PortNo(s.ver).WIFI_CMD] = "WIFI"]
         IN  {s, [set EXCEPT !.reg["WIFI"] = @ + 1], [set EXCEPT !.oom = TRUE]}

skw_sdio_unbind_sdio_port_driver(s, p) ==
    LET d == s.pdev[p]
        r == [s EXCEPT !.pdev[p] = "none"]
    IN  IF d = "none" THEN r
        ELSE IF s.reg[d] = 0 THEN [r EXCEPT !.dead = TRUE] ELSE [r EXCEPT !.reg[d] = @ - 1]
Unbound(s, d) == skw_sdio_unbind_sdio_port_driver(s, PortNo(s.ver)[d])
skw_sdio_unbind_platform_driver(s) == Unbound(Unbound(Unbound(s, "ATC"), "LOG"), "LOOPCHECK")
skw_sdio_unbind_BT_driver(s) ==
    LET t == Unbound(Unbound(Unbound(s, "BTDATA"), "BTCMD"), "BTAUDIO")
    IN  IF s.bt \/ s.ver = "V10" THEN t ELSE Unbound(Unbound(t, "BTISOC"), "BTLOG")
(* Wrong: the device is removed from both of its ports. *)
UnbindBoth(s) == Unbound(Unbound(s, "WIFI_CMD"), "WIFI_DATA")
skw_sdio_unbind_WIFI_driver(s) == skw_sdio_unbind_sdio_port_driver(s, PortNo("V20").WIFI_CMD)

-----------------------------------------------------------------------------

Op(set) == sb.n < MaxBindOps /\ \E s \in set : sb' = [s EXCEPT !.n = @ + 1]

skw_sdio_probe ==
    /\ sb.card = "absent"
    /\ Op(UNION {IF sb.bt THEN skw_sdio_bind_btseekwave_driver([s EXCEPT !.card = "probed"])
                 ELSE {[s EXCEPT !.card = "probed"]} : s \in skw_sdio_bind_platform_driver(sb)})

FirstBootBinds ==
    /\ sb.card = "probed"
    /\ Op(UNION {IF sb.bt THEN {s} ELSE skw_sdio_bind_BT_driver(s) :
                 s \in skw_sdio_bind_WIFI_driver([sb EXCEPT !.card = "booted"])})

(* Written to the wifi file of proc at any time. *)
skw_sdio_wifi_power_on ==
    /\ sb.card # "absent"
    /\ Op(skw_sdio_bind_WIFI_driver(sb) \union {skw_sdio_unbind_WIFI_driver(sb)})

skw_sdio_remove ==
    /\ sb.card # "absent"
    /\ sb' = [skw_sdio_unbind_BT_driver(skw_sdio_unbind_WIFI_driver(skw_sdio_unbind_platform_driver(sb)))
              EXCEPT !.card = "absent"]

BindNext == skw_sdio_probe \/ FirstBootBinds \/ skw_sdio_wifi_power_on \/ skw_sdio_remove
BindSpec == BindInit /\ [][BindNext]_bindVars

-----------------------------------------------------------------------------

(* Every platform device is registered at most once, unregistered only when *)
(* it is registered, and none is left when the card is removed, however     *)
(* Wi-Fi is switched in between and on either chip.  (Not after an          *)
(* allocation failed half-way, which leaves a pointer to a device that was  *)
(* never added.)                                                            *)
DevicesMatch ==
    ~sb.oom => /\ ~sb.dead /\ \A d \in Devices : sb.reg[d] <= 1
               /\ sb.card = "absent" => \A d \in Devices : sb.reg[d] = 0
=============================================================================
