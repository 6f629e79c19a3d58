------------------------------- MODULE SkwSta -------------------------------
(***************************************************************************)
(* A station interface of the Wi-Fi driver: joining a BSS, authentication, *)
(* association, their retries and timeouts, roaming and leaving            *)
(* (skw_cfg80211.c, skw_iface.c, skw_msg.c, skw_mlme.c).  With `ext' the   *)
(* SME is wpa_supplicant's (the delivered build), without it the driver's. *)
(* Two threads run: cfg80211's operations, and the event work, where the   *)
(* frames, the events of the firmware and the retry timer are handled one  *)
(* at a time.  skw_wdev_lock keeps them apart on kernels before 6.2.15     *)
(* only (`locked'), and never around a disconnect event.  An event that    *)
(* leaves the BSS waits for a command in the middle: `pend' is the rest.   *)
(***************************************************************************)
EXTENDS Integers, FiniteSets, Sequences

CONSTANTS Bss,             \* access points
          MaxAuthRetry, MaxAssocRetry, MaxRedo,
          MaxStaOps        \* bound: operations of the user and unasked events

ASSUME StaAssumption == /\ {MaxAuthRetry, MaxAssocRetry} \subseteq Nat \ {0}
                        /\ {MaxRedo, MaxStaOps} \subseteq Nat /\ "none" \notin Bss

VARIABLES sta,     \* iface->sta, and what cfg80211 was told: `told' is its current BSS
          staEv,   \* events of the firmware that are queued
          staOps
staVars == <<sta, staEv, staOps>>

BssOrNone == Bss \union {"none"}
Busy == {"AUTHING", "AUTHED", "ASSOCING", "ASSOCED", "COMPLETED"}
Fails == {"nothing", "unjoin", "join", "auth"}         \* the command that fails
Thens == {"auth_timeout", "assoc_failure", "deauth", "disconnect", "refused"}

StaTypeOK ==
    /\ sta.state \in Busy \union {"NONE"} /\ sta.rty \in {"NONE", "AUTH", "ASSOC"}
    /\ sta.bssid \in BssOrNone /\ sta.told \in BssOrNone /\ sta.active \subseteq sta.peers
    /\ sta.retry \in 0..(MaxAuthRetry + MaxAssocRetry) /\ sta.redo \in 0..MaxRedo
    /\ sta.pend = {} \/ \E p \in sta.pend : sta.pend = {p} /\ p.then \in Thens

StaInit ==
    /\ \E ext, locked \in BOOLEAN :
         sta = [ext |-> ext, locked |-> locked, state |-> "NONE", bssid |-> "none", peers |-> {},
                active |-> {}, told |-> "none", rty |-> "NONE", retry |-> 0, redo |-> 0,
                atype |-> "open", confirm |-> FALSE, report |-> FALSE, cbss |-> FALSE,
                timer |-> FALSE, work |-> FALSE, pend |-> {}, asked |-> {},
                conn |-> [bssid |-> "none", type |-> "open", auto |-> FALSE, queued |-> FALSE]]
    /\ staEv = <<>> /\ staOps = 0

-----------------------------------------------------------------------------
(* A request put on the air; the access point may answer each of them. *)
Ask(s, kind) == IF s.bssid = "none" THEN s ELSE [s EXCEPT !.asked = @ \union {<<kind, s.bssid>>}]

(* The peer table: skw_peer_ctx_bind, skw_peer_ctx_transmit, skw_peer_ctx. *)
Bind(s, b)   == [s EXCEPT !.peers = @ \union {b}, !.active = @ \ {b}]
Unbind(s, b) == [s EXCEPT !.peers = @ \ {b}, !.active = @ \ {b}]
Transmit(s, b, on) == [s EXCEPT !.active = IF on THEN @ \union {b} ELSE @ \ {b}]
HasPeer(s, b) == b \in s.peers

skw_unjoin(s, b, ok) ==
    LET t == Transmit(s, b, FALSE)
    IN  IF ~HasPeer(s, b) THEN s ELSE IF ok THEN [Unbind(t, b) EXCEPT !.bssid = "none"] ELSE t

skw_join(s, b) == [Bind(s, b) EXCEPT !.bssid = b]

skw_disconnected(s) == [s EXCEPT !.told = "none"]
skw_connected(s, b) == [s EXCEPT !.told = b]

(* A deauthentication told to cfg80211, which ignores it for another BSS. *)
TellGone(s, b) == IF s.told = b THEN [s EXCEPT !.told = "none"] ELSE s

(* The first half of skw_sta_leave; skw_unjoin and what follows are pending. *)
LeaveBegin(s, b, then, held) ==
    [s EXCEPT !.timer = FALSE, !.state = "NONE", !.confirm = FALSE,
              !.pend = {[bssid |-> b, then |-> then, held |-> held]}]

skw_sta_leave(s, b, ok) == [skw_unjoin(LeaveBegin(s, b, "deauth", TRUE), b, ok) EXCEPT !.pend = {}]

AuthSendKeeps(s, b, type, fail) ==
    IF fail = "auth" THEN [skw_unjoin(s, b, TRUE) EXCEPT !.state = "AUTHING", !.atype = type]
    ELSE [Ask(s, "auth") EXCEPT !.timer = TRUE, !.state = "AUTHING", !.atype = type]

AuthSend(s, b, type, fail) ==
    IF fail = "auth"
    THEN [skw_unjoin(s, b, TRUE) EXCEPT !.state = "NONE", !.retry = 0, !.redo = 0, !.rty = "NONE",
                                    !.atype = type]
    ELSE [Ask(s, "auth") EXCEPT !.retry = 0, !.redo = 0, !.rty = "NONE", !.atype = type,
             !.timer = TRUE, !.report = TRUE,
             !.state = IF type = "sae" /\ s.confirm THEN "AUTHED" ELSE "AUTHING"]

skw_auth(s, b, type, fail) ==
    LET associated == s.state \in {"ASSOCED", "COMPLETED"}
        t == IF associated /\ s.ext THEN TellGone(s, s.bssid) ELSE s
        u == skw_unjoin([t EXCEPT !.state = "NONE"], s.bssid, fail # "unjoin")
    IN  CASE s.state \in {"AUTHING", "ASSOCING"} \/ (associated /\ s.bssid = b) -> s
          [] s.state = "AUTHED" -> AuthSend(s, b, type, fail)
          [] s.state = "NONE" \/ (associated /\ s.bssid # b) ->
               IF fail \in {"unjoin", "join"} THEN u ELSE AuthSend(skw_join(u, b), b, type, fail)

(* The driver's own SME asks the supplicant for an SAE authentication. *)
skw_connect_sae_auth(s, b, fail) ==
    CASE fail = "join" -> s
      [] fail = "auth" -> [skw_unjoin(skw_join(s, b), b, TRUE) EXCEPT !.state = "NONE"]
      [] OTHER -> [skw_join(s, b) EXCEPT !.state = "AUTHING"]

skw_roam_connect(s, b) == [s EXCEPT !.conn.bssid = b, !.conn.queued = TRUE]

skw_assoc(s, b, fail) ==
    LET associated == s.state \in {"ASSOCED", "COMPLETED"}
        u == skw_unjoin([s EXCEPT !.state = "NONE"], s.bssid, fail # "unjoin")
        t == IF associated THEN skw_join(u, b) ELSE s
    IN  CASE s.state \in {"AUTHING", "ASSOCING", "NONE"} \/ (associated /\ s.bssid = b) -> s
          [] associated /\ s.bssid # b /\ fail \in {"unjoin", "join"} -> u
          [] OTHER -> IF fail = "auth"
                      THEN [skw_unjoin(t, b, TRUE) EXCEPT !.cbss = FALSE, !.timer = FALSE, !.retry = 0,
                                                      !.state = "NONE"]
                      ELSE [Ask(t, "assoc") EXCEPT !.cbss = TRUE, !.retry = 0, !.timer = TRUE,
                                                   !.state = "ASSOCING"]

-----------------------------------------------------------------------------
(* Operations of cfg80211.  The lock of the wdev, where there is one, keeps *)
(* them out of an event's handler that holds it.                            *)
Op(s) ==
    /\ staOps < MaxStaOps /\ staOps' = staOps + 1
    /\ ~(sta.locked /\ \E p \in sta.pend : p.held)
    /\ sta' = s /\ UNCHANGED staEv

skw_cfg80211_auth ==
    \E b \in Bss, type \in {"open", "sae"}, fail \in Fails :
        /\ sta.ext /\ sta.told # b
        /\ Op(skw_auth([sta EXCEPT !.report = FALSE], b, type, fail))

skw_cfg80211_assoc ==
    \E b \in Bss, fail \in Fails : sta.ext /\ Op(skw_assoc(sta, b, fail))

skw_cfg80211_deauth ==
    \E b \in Bss, ok \in BOOLEAN :
        LET s == skw_sta_leave(sta, b, ok)
        IN  sta.ext /\ Op(IF s.report THEN TellGone(s, b) ELSE s)

skw_disassoc ==
    \E b \in Bss, ok \in BOOLEAN : sta.ext /\ sta.told = b /\ Op(TellGone(skw_sta_leave(sta, b, ok), b))

(* The supplicant has installed the keys and opens the port. *)
StationFlags ==
    /\ sta.told \in sta.peers
    /\ Op([sta EXCEPT !.state = "COMPLETED"])

skw_cfg80211_connect ==
    \E b \in Bss, type \in {"open", "sae", "automatic"} :
        /\ ~sta.ext
        /\ Op([sta EXCEPT !.conn = [bssid |-> b, type |-> type, queued |-> TRUE,
                                    auto |-> @.auto \/ type = "automatic"]])

skw_cfg80211_disconnect ==
    \E ok \in BOOLEAN :
        ~sta.ext /\ Op(skw_disconnected(skw_sta_leave(sta, sta.bssid, ok)))

(* The supplicant's answer to an SAE authentication the driver asked for. *)
skw_external_auth ==
    \E ok, unjoined \in BOOLEAN, fail \in Fails :
        /\ ~sta.ext /\ sta.conn.type = "sae" /\ sta.state = "AUTHING"
        /\ Op(IF ok THEN skw_assoc([sta EXCEPT !.state = "AUTHED"], sta.conn.bssid, fail)
                    ELSE [skw_unjoin(sta, sta.conn.bssid, unjoined) EXCEPT !.state = "NONE"])

-----------------------------------------------------------------------------
(* The event thread. *)
Idle == sta.pend = {}
Event(kind) == Idle /\ staEv # <<>> /\ Head(staEv).kind = kind /\ staEv' = Tail(staEv)

(* skw_local_sta_connect: without the BSS in the scan results nothing is sent. *)
skw_local_sta_connect ==
    /\ Idle /\ sta.conn.queued
    /\ \E known \in BOOLEAN, fail \in Fails :
         LET s == [sta EXCEPT !.conn.queued = FALSE]
             b == sta.conn.bssid
         IN  sta' = CASE ~known -> s
                      [] known /\ sta.conn.type # "sae" -> skw_auth(s, b, sta.conn.type, fail)
                      [] OTHER -> skw_connect_sae_auth(s, b, fail)
    /\ UNCHANGED <<staEv, staOps>>

(* skw_mlme_sta_rx_auth: the driver's own SME goes on, or tries another way. *)
skw_mlme_sta_rx_auth(s, ok, fail) ==
    CASE s.conn.type \in {"sae", "ft"} -> s
      [] s.conn.type \notin {"sae", "ft"} /\ ok -> skw_assoc(s, s.conn.bssid, fail)
      [] OTHER -> IF s.conn.auto THEN [s EXCEPT !.conn.type = "ft", !.conn.queued = TRUE] ELSE s

AuthDone(s, ok, fail) ==
    CASE s.rty = "ASSOC" -> [s EXCEPT !.state = "ASSOCING"]
      [] s.rty # "ASSOC" /\ s.ext -> s
      [] OTHER -> skw_mlme_sta_rx_auth(s, ok, fail)

skw_sta_rx_auth ==
    /\ Event("auth")
    /\ \E fail \in Fails :
         LET e == Head(staEv)
             s == [sta EXCEPT !.state = "AUTHED", !.retry = 0, !.confirm = @ \/ sta.atype = "sae"]
         IN  sta' = CASE e.bssid # sta.bssid -> sta
                      [] e.bssid = sta.bssid /\ e.ok -> AuthDone(s, TRUE, fail)
                      [] OTHER -> LeaveBegin([s EXCEPT !.report = FALSE], e.bssid, "refused", TRUE)
    /\ UNCHANGED staOps

(* With the SME outside, an answer nobody waits for any more is not told. *)
skw_mlme_sta_rx_assoc(s, b, ok) == IF ok THEN skw_connected(s, b) ELSE skw_disconnected(s)
AssocTold(s, b, ok) ==
    IF ~s.ext THEN skw_mlme_sta_rx_assoc(s, b, ok)
    ELSE IF ok /\ s.cbss THEN skw_connected(s, b) ELSE s

skw_sta_rx_assoc ==
    /\ Event("assoc")
    /\ LET e == Head(staEv)
           s == IF e.ok THEN [Transmit(sta, e.bssid, TRUE) EXCEPT !.state = "ASSOCED"]
                        ELSE [sta EXCEPT !.state = "NONE", !.report = FALSE]
       IN  sta' = IF sta.bssid # e.bssid \/ ~HasPeer(sta, e.bssid) THEN sta
                  ELSE [AssocTold(s, e.bssid, e.ok) EXCEPT !.cbss = FALSE]
    /\ UNCHANGED staOps

skw_sta_rx_deauth ==
    /\ Event("deauth")
    /\ sta' = IF HasPeer(sta, Head(staEv).bssid)
              THEN LeaveBegin(sta, Head(staEv).bssid, "deauth", TRUE) ELSE sta
    /\ UNCHANGED staOps

skw_event_disconnect ==
    /\ Event("disconnect")
    /\ sta' = LeaveBegin(sta, Head(staEv).bssid, "disconnect", FALSE)
    /\ UNCHANGED staOps

(* A weak signal: the driver's own SME roams to the BSS the firmware names. *)
skw_event_cqm ==
    /\ Event("cqm")
    /\ sta' = IF sta.ext THEN sta
              ELSE skw_roam_connect(sta, Head(staEv).bssid)
    /\ UNCHANGED staOps

(* The rest of an event that left the BSS: skw_unjoin, then who is told. *)
LeaveEnd ==
    \E p \in sta.pend, ok \in BOOLEAN :
        LET s == [skw_unjoin(sta, p.bssid, ok) EXCEPT !.pend = {}]
        IN  /\ sta' = CASE p.then = "refused" -> AuthDone(s, FALSE, "nothing")
                        [] p.then # "refused" /\ ~s.ext -> skw_disconnected(s)
                        [] s.ext /\ p.then \in {"auth_timeout", "assoc_failure"} -> s
                        [] s.ext /\ p.then = "disconnect" /\ s.cbss -> [s EXCEPT !.cbss = FALSE]
                        [] OTHER -> TellGone(s, p.bssid)
            /\ UNCHANGED <<staEv, staOps>>

-----------------------------------------------------------------------------
skw_sta_timer == /\ sta.timer /\ sta' = [sta EXCEPT !.timer = FALSE, !.work = TRUE]
                 /\ UNCHANGED <<staEv, staOps>>

(* One step of the retries: `over' that the step timed out, `expired' the *)
(* whole attempt, `cmd' that the command to the firmware succeeds.        *)
Retry(s, over, expired, cmd) ==
    LET kind == IF s.state = "AUTHING" THEN "auth" ELSE "assoc"
        max == IF s.state = "AUTHING" THEN MaxAuthRetry ELSE MaxAssocRetry
        t == [s EXCEPT !.retry = @ + 1]
        rty == IF s.state = "ASSOCING" THEN "ASSOC" ELSE IF s.rty = "NONE" THEN "AUTH" ELSE s.rty
        again == [Ask(t, "auth") EXCEPT !.rty = rty, !.redo = @ + 1, !.retry = 0, !.state = "AUTHING"]
    IN  CASE ~over -> [failed |-> expired, s |-> s]
          [] over /\ t.retry < max -> [failed |-> expired \/ ~cmd, s |-> Ask(t, kind)]
          [] OTHER -> [failed |-> expired \/ ~cmd \/ s.atype # "open" \/ s.redo >= MaxRedo,
                       s |-> IF s.atype # "open" \/ s.redo >= MaxRedo \/ ~cmd THEN t ELSE again]

skw_sta_work ==
    /\ Idle /\ sta.work
    /\ \E over, expired, cmd \in BOOLEAN :
         LET s == [sta EXCEPT !.work = FALSE]
             r == Retry(s, over, expired, cmd)
             again == [r.s EXCEPT !.timer = TRUE]
         IN  sta' = CASE s.state = "AUTHED" ->
                           IF over THEN LeaveBegin([s EXCEPT !.report = FALSE], s.bssid,
                                                   "auth_timeout", TRUE)
                           ELSE [s EXCEPT !.timer = TRUE]
                      [] s.state = "AUTHING" ->
                           IF r.failed THEN LeaveBegin([r.s EXCEPT !.report = FALSE], s.bssid,
                                                       "auth_timeout", TRUE) ELSE again
                      [] s.state = "ASSOCING" ->
                           IF r.failed THEN LeaveBegin([r.s EXCEPT !.report = FALSE], s.bssid,
                                                       "assoc_failure", TRUE) ELSE again
                      [] OTHER -> s
    /\ UNCHANGED <<staEv, staOps>>

-----------------------------------------------------------------------------
(* The air and the firmware: answers to requests, and what nobody asked for. *)
ApAnswers ==
    \E q \in sta.asked, ok \in BOOLEAN :
        /\ staEv = <<>>
        /\ staEv' = Append(staEv, [kind |-> q[1], bssid |-> q[2], ok |-> ok])
        /\ sta' = [sta EXCEPT !.asked = @ \ {q}] /\ UNCHANGED staOps

ApReports ==
    \E kind \in {"deauth", "disconnect", "cqm"}, b \in Bss :
        /\ staEv = <<>> /\ staOps < MaxStaOps /\ staOps' = staOps + 1
        /\ kind \in {"deauth", "disconnect"} => b \in sta.peers
        /\ kind = "cqm" => sta.active # {} /\ b \notin sta.peers
        /\ staEv' = Append(staEv, [kind |-> kind, bssid |-> b, ok |-> TRUE])
        /\ UNCHANGED sta

StaDone == staOps = MaxStaOps /\ staEv = <<>> /\ Idle /\ UNCHANGED staVars

StaNext ==
    \/ skw_cfg80211_auth \/ skw_cfg80211_assoc \/ skw_cfg80211_deauth \/ skw_disassoc
    \/ StationFlags \/ skw_cfg80211_connect \/ skw_cfg80211_disconnect \/ skw_external_auth
    \/ skw_local_sta_connect \/ skw_sta_rx_auth \/ skw_sta_rx_assoc \/ skw_sta_rx_deauth
    \/ skw_event_disconnect \/ skw_event_cqm \/ LeaveEnd \/ skw_sta_timer \/ skw_sta_work
    \/ ApAnswers \/ ApReports \/ StaDone

StaSpec == StaInit /\ [][StaNext]_staVars

-----------------------------------------------------------------------------
(* A station that waits for an answer or is associated has the peer it does  *)
(* so with: the state machine of skw_sta_work and the peer table agree.      *)
(* Three steps may break that: the second half of a leave that an operation has    *)
(* overtaken (there is no lock, or the event takes none), and a refusal of   *)
(* the authentication that a retried association repeats, after which        *)
(* skw_sta_rx_auth leaves and then goes on to ASSOCING, and a port that is   *)
(* opened, whatever the state, after the driver has given the BSS up.        *)
StaBound == sta.state \in Busy => sta.bssid \in sta.peers

StaTorn == \/ \E p \in sta.pend : sta.state # "NONE" \/ (p.then = "refused" /\ sta.rty = "ASSOC")
           \/ sta.state = "NONE" /\ sta'.state = "COMPLETED"

BoundUntilTorn == [][StaBound /\ ~StaTorn => StaBound']_staVars
=============================================================================
