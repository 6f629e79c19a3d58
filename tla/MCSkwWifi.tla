------------------------------ MODULE MCSkwWifi ------------------------------
(* The rest of the Wi-Fi driver, one part at a time: the station's state    *)
(* machine, the access point's clients, probe, interfaces and recovery,     *)
(* receive reordering, events and fragments, keys, radar detection, TDLS    *)
(* and channels.                                                            *)
EXTENDS SkwSta, SkwAp, SkwLife, SkwRx, SkwEvents, SkwKeys, SkwDfs, SkwTdls

VARIABLE part       \* the part that runs
vars == <<part, staVars, apVars, lifeVars, rxVars, evVars, keyVars, dfsVars, tdVars>>
WifiParts == {"sta", "ap", "life", "rx", "events", "keys", "dfs", "tdls"}

(* A part that does not run is left in one of its initial states. *)
Init ==
    /\ part \in WifiParts
    /\ StaInit /\ ApInit /\ LifeInit /\ RxInit /\ EvInit /\ KeysInit /\ DfsInit /\ TdlsInit
    /\ (part # "sta" => ~sta.ext /\ ~sta.locked) /\ (part # "ap" => ap.sme = "int") /\ (part # "life" => drv.n = 0)
    /\ (part # "rx" => ~ro.keyed) /\ (part # "events" => ~frag.keyed) /\ (part # "keys" => ~kc.ap /\ ~kc.wep)
    /\ (part # "tdls" => td.last = "none")

StaSteps == /\ part = "sta" /\ StaNext
            /\ UNCHANGED <<part, apVars, lifeVars, rxVars, evVars, keyVars, dfsVars, tdVars>>
ApSteps == /\ part = "ap" /\ ApNext
           /\ UNCHANGED <<part, staVars, lifeVars, rxVars, evVars, keyVars, dfsVars, tdVars>>
LifeSteps == /\ part = "life" /\ LifeNext
             /\ UNCHANGED <<part, staVars, apVars, rxVars, evVars, keyVars, dfsVars, tdVars>>
RxSteps == /\ part = "rx" /\ RxNext
           /\ UNCHANGED <<part, staVars, apVars, lifeVars, evVars, keyVars, dfsVars, tdVars>>
EventSteps == /\ part = "events" /\ EvNext
              /\ UNCHANGED <<part, staVars, apVars, lifeVars, rxVars, keyVars, dfsVars, tdVars>>
KeySteps == /\ part = "keys" /\ KeysNext
            /\ UNCHANGED <<part, staVars, apVars, lifeVars, rxVars, evVars, dfsVars, tdVars>>
DfsSteps == /\ part = "dfs" /\ DfsNext
            /\ UNCHANGED <<part, staVars, apVars, lifeVars, rxVars, evVars, keyVars, tdVars>>
TdlsSteps == /\ part = "tdls" /\ TdlsNext
             /\ UNCHANGED <<part, staVars, apVars, lifeVars, rxVars, evVars, keyVars, dfsVars>>
Next == \/ StaSteps \/ ApSteps \/ LifeSteps \/ RxSteps \/ EventSteps \/ KeySteps \/ DfsSteps \/ TdlsSteps

Spec == Init /\ [][Next]_vars

(* Radar that is there is found and an interface that must listen for it    *)
(* does (skw_dfs.c); the chip is never on more channels than it has and a   *)
(* TDLS frame carries what the supplicant gave in the order of the standard *)
(* (skw_tdls.c, skw_channel_allowed): RadarIsFound, CheckIsLive,            *)
(* ChannelsBounded and TdlsFrameOrder, each with its exceptions.            *)
RadioObeys == /\ (part = "dfs" => RadarIsFound /\ CheckIsLive)
              /\ (part = "tdls" => ChannelsBounded /\ TdlsFrameOrder)

(* What is under way is not lost unnoticed: a frame in the reorder buffer   *)
(* has a timer (NothingStuck), a lost event gives itself away               *)
(* (NoEventMissed), a message is made of its own fragments                  *)
(* (FragmentsOfOne), and the interfaces the firmware has open are those     *)
(* that opened_dev counts (OpenedIsCounted).  Every part's state has its    *)
(* type.                                                                    *)
WifiConsistent ==
    CASE part = "sta" -> StaTypeOK [] part = "ap" -> ApTypeOK [] part = "life" -> LifeTypeOK /\ OpenedIsCounted
      [] part = "rx" -> RxTypeOK /\ NothingStuck
      [] part = "events" -> EvTypeOK /\ NoEventMissed /\ FragmentsOfOne
      [] part = "keys" -> KeysTypeOK [] part = "dfs" -> DfsTypeOK [] part = "tdls" -> TdlsTypeOK
=============================================================================
