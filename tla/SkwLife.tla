------------------------------ MODULE SkwLife ------------------------------
(***************************************************************************)
(* The life of the Wi-Fi driver: probe and remove (skw_core.c), its        *)
(* interfaces (skw_iface.c, skw_cfg80211.c), and what it does when the     *)
(* firmware has died (skw_recovery.c).  Interfaces come and go under the   *)
(* RTNL; the recovery work walks over them without it.  Each of the two    *)
(* sends a command and then marks the interface, so each can find that the *)
(* other has been there in between.                                        *)
(***************************************************************************)
EXTENDS Integers, FiniteSets, FiniteSetsExt

CONSTANTS Slots,         \* the instances an interface may take, 0 the first
          MaxLifeOps,    \* bound: requests, connections
          MaxDeaths,     \* bound: deaths of the firmware
          MaxChips       \* SKW_MAX_CHIP_IDX

ASSUME LifeAssumption ==
    /\ 0 \in Slots /\ Slots \subseteq Nat /\ IsFiniteSet(Slots)
    /\ {MaxLifeOps, MaxDeaths, MaxChips} \subseteq Nat

VARIABLES drv,           \* the driver as probe and remove leave it
          vif,           \* skw->vif and the interfaces
          rtnl,          \* the request that holds the RTNL
          rec            \* skw->flags, recovery_work and recovery_data
lifeVars == <<drv, vif, rtnl, rec>>

IfTypes == {"station", "ap"}
NoReq == [kind |-> "none", id |-> 0, type |-> "station", pc |-> "idle"]
NoWork == [pc |-> "idle", id |-> 0]

(* vif.opened is opened_dev and vif.flag the interfaces with OPENED; vif.fw *)
(* those the firmware has open, vif.link those with a peer.  rec.saved are  *)
(* the interfaces whose peer is in recovery_data, rec.told those of them    *)
(* whose user was told, rec.param the APs whose parameters are kept.        *)
(* History: vif.skewed, the count was missed by one of the two; rec.had,    *)
(* the interfaces with a peer when the firmware first died; rec.failed, the *)
(* APs that this attempt at a recovery could not bring up again.            *)
LifeTypeOK ==
    /\ drv.bits \subseteq 0..(MaxChips - 1) /\ drv.state \in {"absent", "probing", "bound", "hollow"}
    /\ vif.opened \in -MaxLifeOps..(Cardinality(Slots) + MaxLifeOps) /\ vif.flag \subseteq Slots /\ vif.fw \subseteq Slots
    /\ vif.link \subseteq Slots /\ vif.type \in [Slots -> IfTypes \union {"none"}]
    /\ rec.told \subseteq rec.saved /\ rec.failed \subseteq Slots /\ rec.had \subseteq Slots /\ rec.param \subseteq Slots

NoVif == [type |-> [i \in Slots |-> "none"], map |-> {}, flag |-> {}, opened |-> 0, fw |-> {},
          link |-> {}, skewed |-> FALSE]
NoRec == [assert |-> FALSE, chip |-> FALSE, bsp |-> "up", work |-> NoWork, todo |-> {}, saved |-> {},
          told |-> {}, failed |-> {}, had |-> {}, param |-> {}, n |-> 0]
LifeInit ==
    /\ vif = NoVif /\ rtnl = NoReq
    /\ \E spent \in 0..1 :                    \* of the requests, or of the deaths
          /\ drv = [state |-> "absent", bits |-> {}, idx |-> 0, n |-> spent]
          /\ rec = [NoRec EXCEPT !.n = 1 - spent]

Present == {i \in Slots : vif.type[i] # "none"}
LifeOp == drv.n < MaxLifeOps

-----------------------------------------------------------------------------
(* Probe.                                                                  *)

(* The index that is handed out is one more than the bit that is set ... *)
skw_add_chip_idx(bits) == IF (0..(MaxChips - 1)) \ bits = {} THEN 0 ELSE Min((0..(MaxChips - 1)) \ bits) + 1
(* ... and giving it back clears the bit of the next one. *)
skw_dec_chip_idx(bits, idx) == bits \ {idx}

skw_drv_probe ==
    /\ drv.state = "absent" /\ LifeOp
    /\ LET idx == skw_add_chip_idx(drv.bits)
       IN  drv' = [drv EXCEPT !.state = "probing", !.idx = idx, !.n = @ + 1,
                              !.bits = IF idx = 0 THEN @ ELSE @ \union {idx - 1}]
    /\ UNCHANGED <<vif, rtnl, rec>>

(* What the firmware says when it is greeted: the versions of its commands, *)
(* of which 0 fits every other, its identity, the answer to calibration.    *)
Greetings == [version : {"same", "unset", "other", "none"}, chip : {"known", "unknown", "none"},
              calib : {"done", "missing", "refused"}]
skw_sync_cmd_event_version(g) == g.version \in {"same", "unset"}
skw_sync_chip_info(g) == g.chip = "known"
skw_calib_download(g) == g.calib = "done"

(* Probe gone wrong.  A firmware that does not get through the greeting is  *)
(* torn down like the rest, but reported as success: nothing is bound then. *)
ProbeFails(state) ==
    /\ drv.state = "probing"
    /\ drv' = [drv EXCEPT !.state = state, !.bits = skw_dec_chip_idx(@, drv.idx)]
    /\ UNCHANGED <<vif, rtnl, rec>>
ProbeRefused == ProbeFails("absent")
ProbeHollow ==
    \E g \in Greetings :
        /\ ~(skw_sync_cmd_event_version(g) /\ skw_sync_chip_info(g) /\ skw_calib_download(g))
        /\ ProbeFails("hollow")

(* skw_add_default_iface: wlan0, then the notifiers are registered. *)
ProbeDone ==
    /\ drv.state = "probing"
    /\ drv' = [drv EXCEPT !.state = "bound"]
    /\ vif' = [NoVif EXCEPT !.type[0] = "station", !.map = {0}, !.flag = {0}, !.opened = 1, !.fw = {0}]
    /\ rec' = [NoRec EXCEPT !.n = rec.n]
    /\ UNCHANGED rtnl

-----------------------------------------------------------------------------
(* Requests under the RTNL.                                                *)

skw_alloc_inst == IF Slots \ vif.map = {} THEN -1 ELSE Min(Slots \ vif.map)

skw_add_iface ==
    \E t \in IfTypes :
        /\ drv.state = "bound" /\ LifeOp /\ rtnl.pc = "idle" /\ skw_alloc_inst # -1
        /\ drv' = [drv EXCEPT !.n = @ + 1]
        /\ vif' = [vif EXCEPT !.map = @ \union {skw_alloc_inst}]
        /\ rtnl' = [kind |-> "add", id |-> skw_alloc_inst, type |-> t, pc |-> "open"]
        /\ UNCHANGED rec

skw_change_intf ==
    \E i \in Present :
        /\ drv.state = "bound" /\ LifeOp /\ rtnl.pc = "idle"
        /\ drv' = [drv EXCEPT !.n = @ + 1]
        /\ rtnl' = [kind |-> "change", id |-> i, pc |-> "close", type |-> CHOOSE t \in IfTypes : t # vif.type[i]]
        /\ UNCHANGED <<vif, rec>>

skw_del_iface ==
    \E i \in Present :
        /\ drv.state = "bound" /\ LifeOp /\ rtnl.pc = "idle"
        /\ drv' = [drv EXCEPT !.n = @ + 1]
        /\ rtnl' = [kind |-> "del", id |-> i, type |-> vif.type[i], pc |-> "close"]
        /\ UNCHANGED <<vif, rec>>

(* A station connects or an AP is started, a client joins it; the AP's      *)
(* parameters are kept for a recovery until it is stopped.                  *)
skw_recovery_data_update ==
    \E i \in vif.flag \intersect Present :
        /\ LifeOp /\ rtnl.pc = "idle" /\ ~rec.assert /\ drv' = [drv EXCEPT !.n = @ + 1]
        /\ vif' = [vif EXCEPT !.link = @ \union {i}]
        /\ rec' = [rec EXCEPT !.param = IF vif.type[i] = "ap" THEN @ \union {i} ELSE @]
        /\ UNCHANGED rtnl

skw_recovery_data_clear ==
    \E i \in rec.param :
        /\ LifeOp /\ rtnl.pc = "idle" /\ drv' = [drv EXCEPT !.n = @ + 1]
        /\ vif' = [vif EXCEPT !.link = @ \ {i}]
        /\ rec' = [rec EXCEPT !.param = @ \ {i}, !.saved = @ \ {i}, !.told = @ \ {i}, !.had = @ \ {i}]
        /\ UNCHANGED rtnl

(* OPEN_DEV.  A change that fails goes back to the old type, once.  While   *)
(* the firmware is dead the command is refused, or aborted with success.    *)
skw_cmd_open_dev ==
    \E ok \in BOOLEAN :
        /\ rtnl.pc = "open"
        /\ vif' = IF ok /\ ~rec.assert THEN [vif EXCEPT !.fw = @ \union {rtnl.id}]
                  ELSE IF ok \/ rtnl.kind # "add" THEN vif
                  ELSE [vif EXCEPT !.map = @ \ {rtnl.id}]
        /\ rtnl' = IF ok THEN [rtnl EXCEPT !.pc = "mark"]
                   ELSE IF rtnl.kind = "change" /\ rtnl.type # vif.type[rtnl.id]
                   THEN [rtnl EXCEPT !.type = vif.type[rtnl.id]] ELSE NoReq
        /\ UNCHANGED <<drv, rec>>

(* The end of skw_iface_setup; a new interface enters the table, and leaves *)
(* again if its net device cannot be registered.                            *)
skw_iface_setup ==
    \E registered \in BOOLEAN :
        /\ rtnl.pc = "mark" /\ (registered \/ rtnl.kind = "add")
        /\ vif' = [vif EXCEPT !.flag = @ \union {rtnl.id}, !.opened = @ + 1, !.type[rtnl.id] = rtnl.type]
        /\ rtnl' = IF registered THEN NoReq ELSE [rtnl EXCEPT !.kind = "del", !.pc = "close"]
        /\ UNCHANGED <<drv, rec>>

Gone(v, i) == [v EXCEPT !.type[i] = "none", !.map = @ \ {i}, !.flag = @ \ {i}, !.link = @ \ {i}]

(* skw_iface_teardown up to CLOSE_DEV, which needs OPENED.  A change that   *)
(* fails here is given up, a removal goes on and leaves the count as it is. *)
skw_cmd_close_dev ==
    \E ok \in BOOLEAN :
        LET i == rtnl.id
        IN  /\ rtnl.pc = "close" /\ (ok => i \in vif.flag)
            /\ IF ok THEN /\ vif' = [vif EXCEPT !.fw = @ \ {i}, !.link = @ \ {i}]
                          /\ rtnl' = [rtnl EXCEPT !.pc = "unmark"]
               ELSE /\ rtnl' = NoReq
                    /\ vif' = IF rtnl.kind = "del"
                              THEN [Gone(vif, i) EXCEPT !.skewed = @ \/ i \in vif.flag]
                              ELSE [vif EXCEPT !.link = @ \ {i}]
            /\ rec' = [rec EXCEPT !.had = @ \ {i}]
            /\ UNCHANGED drv

skw_iface_teardown ==
    /\ rtnl.pc = "unmark" /\ UNCHANGED <<drv, rec>>
    /\ LET v == [vif EXCEPT !.flag = @ \ {rtnl.id}, !.opened = @ - 1]
       IN  IF rtnl.kind = "del" THEN vif' = Gone(v, rtnl.id) /\ rtnl' = NoReq
           ELSE vif' = v /\ rtnl' = [rtnl EXCEPT !.pc = "open"]

-----------------------------------------------------------------------------
(* The firmware dies and comes back.                                       *)

(* SKW_BSP_NF_ASSERT: the notifier waits for a recovery that runs. *)
FwDies ==
    /\ drv.state = "bound" /\ rec.bsp = "up" /\ (rec.n < MaxDeaths \/ rec.assert)
    /\ rec' = [rec EXCEPT !.assert = TRUE, !.bsp = "dead", !.n = IF rec.assert THEN @ ELSE @ + 1,
                          !.had = IF rec.chip \/ rec.assert THEN @ ELSE vif.link]
    /\ vif' = [vif EXCEPT !.fw = {}] /\ UNCHANGED <<drv, rtnl>>

(* SKW_BSP_NF_READY schedules the recovery. *)
FwReady ==
    /\ rec.bsp = "dead" /\ rec.work.pc = "idle"
    /\ rec' = [rec EXCEPT !.bsp = "up", !.work.pc = "prepare"] /\ UNCHANGED <<drv, vif, rtnl>>

(* The peers move to recovery_data; if the last recovery did not end, those *)
(* made since are dropped, and nobody is told of them.                      *)
skw_recovery_prepare_peers(r) ==
    IF r.chip THEN r ELSE [r EXCEPT !.chip = TRUE, !.saved = vif.link, !.told = {}]

PrepareForgets ==
    /\ rec.work.pc = "prepare"
    /\ rec' = [rec EXCEPT !.work.pc = "sync", !.assert = FALSE, !.chip = TRUE, !.saved = vif.link, !.told = {},
                          !.failed = {}]
    /\ vif' = [vif EXCEPT !.opened = 0, !.flag = @ \ Present, !.link = {},
                          !.skewed = rtnl.pc \in {"mark", "unmark"}]
    /\ UNCHANGED <<drv, rtnl>>

PrepareAll ==
    /\ rec.work.pc = "prepare"
    /\ rec' = [skw_recovery_prepare_peers(rec) EXCEPT !.work.pc = "sync", !.assert = FALSE, !.failed = {}]
    /\ vif' = [vif EXCEPT !.opened = 0, !.flag = @ \ Present, !.link = {},
                          !.skewed = rtnl.pc \in {"mark", "unmark"}]
    /\ UNCHANGED <<drv, rtnl>>

(* The greeting again.  Other versions are put up with now; a firmware that *)
(* fails the rest ends the recovery for good.  The regulatory domain is set *)
(* under the RTNL, so a request that is being served is waited for.         *)
RecoverySync ==
    \E g \in Greetings :
        /\ rec.work.pc = "sync" /\ UNCHANGED <<drv, vif, rtnl>>
        /\ IF skw_sync_chip_info(g) /\ skw_calib_download(g)
           THEN rtnl.pc = "idle" /\ rec' = [rec EXCEPT !.work.pc = "next", !.todo = Slots]
           ELSE rec' = [rec EXCEPT !.work = NoWork]

(* Stations first, then the others; each is opened again ... *)
NextIface == {i \in rec.todo \intersect Present :
                 vif.type[i] = "station" \/ \A o \in rec.todo \intersect Present : vif.type[o] # "station"}

skw_recovery_iface ==
    \E i \in NextIface, ok \in BOOLEAN :
        /\ rec.work.pc = "next" /\ i = Min(NextIface) /\ UNCHANGED <<drv, rtnl>>
        /\ IF rec.assert \/ ~ok
           THEN rec' = [rec EXCEPT !.work = NoWork, !.assert = TRUE] /\ UNCHANGED vif
           ELSE /\ rec' = [rec EXCEPT !.work = [pc |-> "mark", id |-> i], !.todo = @ \ {i}]
                /\ vif' = [vif EXCEPT !.fw = @ \union {i}]

(* ... and marked, and its user is told that the peers are gone: by         *)
(* skw_recovery_sta, or by skw_recovery_sap once the AP is running again.   *)
(* It returns early if the AP's parameters are gone or its restart fails,   *)
(* and skw_recovery_sap_flush_sta stops when the firmware has died again.   *)
RecoveryFails(i, restarted) == vif.type[i] = "ap" /\ ~(restarted /\ i \in rec.param /\ ~rec.assert)
RecoveryTold(i, restarted) ==
    IF RecoveryFails(i, restarted) THEN rec.told ELSE rec.told \union ({i} \intersect rec.saved)

RecoveryMark ==
    \E restarted \in BOOLEAN :
        LET i == rec.work.id
        IN  /\ rec.work.pc = "mark" /\ UNCHANGED <<drv, rtnl>>
            /\ vif' = [vif EXCEPT !.flag = IF i \in Present THEN @ \union {i} ELSE @, !.opened = @ + 1,
                                  !.skewed = @ \/ i \notin Present \/ i \in vif.flag
                                               \/ (rtnl.id = i /\ rtnl.pc # "idle")]
            /\ rec' = [rec EXCEPT !.work.pc = "next", !.told = RecoveryTold(i, restarted),
                                  !.failed = IF RecoveryFails(i, restarted) THEN @ \union {i} ELSE @]

(* All are open: the peers of before are freed.  If the firmware has died   *)
(* again by now, the peers made since are those of the next recovery.       *)
skw_recovery_work ==
    /\ rec.work.pc = "next" /\ NextIface = {}
    /\ rec' = [rec EXCEPT !.work = NoWork, !.chip = FALSE, !.saved = {}, !.told = {}, !.failed = {},
                          !.had = IF rec.assert THEN vif.link ELSE {}]
    /\ UNCHANGED <<drv, vif, rtnl>>

-----------------------------------------------------------------------------
(* Remove: every interface goes, the recovery is waited for.  That wait is  *)
(* made with recovery_data's mutex held, which the work takes as well; here *)
(* it is over when the work has ended.  The chip's index is read from the   *)
(* freed wiphy: any of them may be given back.                              *)
skw_drv_remove ==
    /\ drv.state = "bound" /\ rtnl.pc = "idle" /\ rec.work.pc = "idle"
    /\ \E idx \in 0..MaxChips :
           drv' = [drv EXCEPT !.state = "absent", !.bits = skw_dec_chip_idx(@, idx)]
    /\ vif' = NoVif /\ rtnl' = NoReq /\ rec' = [NoRec EXCEPT !.n = rec.n]

(* Nothing was bound, nothing is removed. *)
HollowRemove ==
    /\ drv.state = "hollow" /\ drv' = [drv EXCEPT !.state = "absent"] /\ UNCHANGED <<vif, rtnl, rec>>

LifeNext == \/ skw_drv_probe \/ ProbeRefused \/ ProbeHollow \/ ProbeDone \/ skw_drv_remove \/ HollowRemove
            \/ skw_add_iface \/ skw_change_intf \/ skw_del_iface
            \/ skw_recovery_data_update \/ skw_recovery_data_clear
            \/ skw_cmd_open_dev \/ skw_iface_setup \/ skw_cmd_close_dev \/ skw_iface_teardown
            \/ FwDies \/ FwReady \/ PrepareAll \/ RecoverySync \/ skw_recovery_iface
            \/ RecoveryMark \/ skw_recovery_work
LifeSpec == LifeInit /\ [][LifeNext]_lifeVars

-----------------------------------------------------------------------------
(* opened_dev counts the interfaces that are marked OPENED (the last one to *)
(* close resets the credits), except after a CLOSE_DEV was refused or a     *)
(* recovery crossed a request between its command and its mark; the next    *)
(* recovery sets it right.                                                  *)
OpenedIsCounted ==
    ~vif.skewed => vif.opened = Cardinality(vif.flag \intersect Present) 

(* A recovery that ends, however often it was begun again, has told the     *)
(* user of every interface that had a peer when the firmware first died,    *)
(* except of an AP that its last attempt could not restart: no parameters,  *)
(* START_AP refused, or the firmware dead again before the clients were     *)
(* removed.  (Of a peer made during a recovery that another death cut short *)
(* nobody is told; the property speaks of those of before.)                 *)
RecoveryTells ==
    [][rec.chip /\ ~rec'.chip /\ drv'.state = "bound" =>
          rec.had \intersect Present \subseteq rec.told \union rec.failed]_lifeVars
=============================================================================
