------------------------------- MODULE SkwAp -------------------------------
(***************************************************************************)
(* The access point of the Wi-Fi driver (skw_mlme.c and the AP parts of    *)
(* skw_cfg80211.c and skw_msg.c).  Stations authenticate and associate     *)
(* with hostapd ("ext") or with the driver's own SME ("int"), which keeps  *)
(* a list of clients beside the table of peers.  Removing a station is two *)
(* steps with the DEL_STA command between them, in the netlink thread, the *)
(* ACL work or the event thread, and the event thread may hear the station *)
(* again in between.                                                       *)
(***************************************************************************)
EXTENDS Integers, FiniteSets, FiniteSetsExt, Functions

CONSTANTS Stas,         \* the stations
          MaxStas,      \* max_sta_allowed
          LastAid,      \* the last association id (63)
          MaxApOps      \* bound: frames, requests and events

ASSUME ApAssumption == LastAid \in Nat \ {0} /\ {MaxStas, MaxApOps} \subseteq Nat

VARIABLES ap,           \* the access point and its threads
          client,       \* sap.mlme_client_list
          peers           \* the peer table, as far as it is the AP's
apVars == <<ap, client, peers>>

Deleters == {"user", "work", "event"}
NoSta == "nobody"
NoClient == [state |-> "absent", aid |-> 0, timer |-> FALSE, reply |-> "none"]
NewClient == [NoClient EXCEPT !.state = "NONE"]
NoPeer == [state |-> "absent", left |-> FALSE]
Bound(s) == peers[s].state # "absent"
Listed(s) == client[s].state # "absent"

ApRecord(a) ==
    /\ DOMAIN a = {"sme", "on", "fw", "stopping", "allowed", "aids", "late", "del", "todo", "odd", "n"}
    /\ a.aids \subseteq 1..LastAid /\ a.n \in 0..MaxApOps /\ {a.allowed, a.late, a.odd} \subseteq SUBSET Stas
    /\ a.del \in [Deleters -> Stas \union {NoSta}] /\ a.todo \in [Deleters -> SUBSET Stas]
ApClient == [state : {"absent", "NONE", "AUTHED", "ASSOCED"}, aid : 0..(LastAid + 1), timer : BOOLEAN,
             reply : {"none", "auth", "assoc"}]
ApPeer == [state : {"absent", "NONE", "AUTHED", "ASSOCED"}, left : BOOLEAN]
ApTypeOK ==
    /\ client \in [Stas -> ApClient] /\ peers \in [Stas -> ApPeer]
    /\ ApRecord(ap)

(* ap.del is the station whose DEL_STA a thread waits for, ap.todo those it *)
(* has still to remove, ap.late the queued authentication timeouts, ap.odd  *)
(* (history) the stations added without a peer or heard during a removal.   *)
ApInit ==
    /\ \E sme \in {"int", "ext"} :
         ap = [sme |-> sme, on |-> FALSE, fw |-> FALSE, stopping |-> FALSE, allowed |-> Stas, aids |-> {},
               late |-> {}, del |-> [t \in Deleters |-> NoSta], todo |-> [t \in Deleters |-> {}],
               odd |-> {}, n |-> 0]
    /\ client = [s \in Stas |-> NoClient] /\ peers = [s \in Stas |-> NoPeer]

ApOp == ap.n < MaxApOps
Quiet(t) == ap.del[t] = NoSta /\ ap.todo[t] = {}
ApEvent == ApOp /\ ap.fw /\ Quiet("event")        \* events are handled one by one
ApUser == ApOp /\ Quiet("user") /\ ~ap.stopping
Counted == [ap EXCEPT !.n = @ + 1]

-----------------------------------------------------------------------------
(* Stations come and go: add, change and del_station, for both SMEs.       *)

(* The seen after skw_add_station, whose ADD_STA may fail. *)
skw_add_station(s, ok) ==
    IF Bound(s) THEN [peers EXCEPT ![s].state = "AUTHED"]
    ELSE IF ok THEN [peers EXCEPT ![s] = [NoPeer EXCEPT !.state = "AUTHED"]] ELSE peers

skw_change_station(s) == IF Bound(s) THEN [peers EXCEPT ![s].state = "ASSOCED"] ELSE peers

(* skw_mlme_ap_del_client: the timer and the association id go with it. *)
skw_mlme_ap_del_client(a, s) == [a EXCEPT !.aids = @ \ {client[s].aid}]

(* skw_sap_del_sta up to its command, in thread t, which knows the station  *)
(* by its peer: no peer, nothing to do.                                     *)
DelAfter(a, t, s) ==
    /\ peers' = [peers EXCEPT ![s].state = "NONE", ![s].left = TRUE]
    /\ IF ap.sme = "int" /\ Listed(s)
       THEN ap' = [skw_mlme_ap_del_client(a, s) EXCEPT !.del[t] = s] /\ client' = [client EXCEPT ![s] = NoClient]
       ELSE ap' = [a EXCEPT !.del[t] = s] /\ UNCHANGED client

skw_sap_del_sta(a, t, s) ==
    IF Bound(s) THEN DelAfter(a, t, s) ELSE ap' = a /\ UNCHANGED <<client, peers>>

(* DEL_STA is answered: the peer is unbound unless the firmware refused. *)
DelDone ==
    \E t \in Deleters, ok \in BOOLEAN :
        LET s == ap.del[t]
        IN  /\ s # NoSta /\ UNCHANGED client
            /\ ap' = [ap EXCEPT !.del[t] = NoSta, !.odd = IF ok /\ Listed(s) THEN @ \union {s} ELSE @]
            /\ peers' = IF ok THEN [peers EXCEPT ![s] = NoPeer] ELSE peers

(* The rest of a flush, of skw_stop_ap or of skw_ap_acl_check. *)
DelNext ==
    \E t \in Deleters : \E s \in ap.todo[t] :
        /\ ap.del[t] = NoSta
        /\ skw_sap_del_sta([ap EXCEPT !.todo[t] = @ \ {s}], t, s)

(* Requests of user space.  hostapd adds stations only with its own SME. *)
UserStation ==
    \E s \in Stas, ok \in BOOLEAN :
        /\ ApUser /\ ap.sme = "ext" /\ ap.on
        /\ ap' = Counted /\ peers' \in {skw_add_station(s, ok), skw_change_station(s)} /\ UNCHANGED client

skw_del_station ==
    \E s \in Stas : ApUser /\ ap.on /\ skw_sap_del_sta(Counted, "user", s)

(* A new list, and the stations that are no longer allowed are removed. *)
skw_set_mac_acl ==
    \E a \in SUBSET Stas :
        /\ ApUser /\ ap.on /\ Quiet("work")
        /\ ap' = [Counted EXCEPT !.allowed = a, !.todo["work"] = {s \in Stas \ a : Bound(s)}]
        /\ UNCHANGED <<client, peers>>

-----------------------------------------------------------------------------
(* Start and stop.                                                         *)

(* An AP on a radar channel whose monitor fails to start is reported as     *)
(* failed, while the firmware has it running.                               *)
skw_cfg80211_start_ap ==
    \E out \in {"refused", "monitor", "ok"} :
        /\ ApUser /\ ~ap.on
        /\ ap' = [Counted EXCEPT !.fw = @ \/ out # "refused", !.on = out = "ok"]
        /\ UNCHANGED <<client, peers>>

skw_sap_flush_sta ==
    /\ ApUser /\ ap.on
    /\ \E stop \in BOOLEAN :
         ap' = [Counted EXCEPT !.todo["user"] = {s \in Stas : Bound(s)}, !.stopping = stop]
    /\ UNCHANGED <<client, peers>>

(* STOP_AP.  If it fails, the stations are gone and the AP is still there. *)
skw_stop_ap ==
    \E ok \in BOOLEAN :
        /\ ap.stopping /\ Quiet("user")
        /\ ap' = [ap EXCEPT !.stopping = FALSE, !.on = ~ok, !.fw = ~ok, !.allowed = IF ok THEN Stas ELSE @]
        /\ UNCHANGED <<client, peers>>

-----------------------------------------------------------------------------
(* Frames from stations: skw_event_rx_mgmt, skw_sap_rx_mgmt.               *)

skw_sta_access_allowed(s) ==
    s \in ap.allowed /\ Cardinality({o \in Stas \ {s} : Bound(o)}) < MaxStas

(* One that is associated and authenticates again counts as gone. *)
Reauth(t, s) == [t EXCEPT ![s].left = @ \/ t[s].state = "ASSOCED"]

skw_mlme_ap_auth_reply(c) == [c EXCEPT !.state = "AUTHED", !.reply = "auth"]

(* skw_mlme_ap_auth_handler.  A client that is known is not added again,    *)
(* whether it has a peer or not; a refused ADD_STA is not noticed.          *)
skw_mlme_ap_auth_handler(s, ok, out) ==
    LET seen == IF Listed(s) THEN Reauth(peers, s) ELSE Reauth(skw_add_station(s, ok), s)
        known == IF Listed(s) THEN client[s] ELSE NewClient
        odd == IF seen[s].state = "absent" THEN ap.odd \union {s} ELSE ap.odd
        a == [Counted EXCEPT !.odd = odd]
    IN  \/ /\ out = "repeated" /\ Listed(s)           \* the frame came twice
           /\ ap' = a /\ peers' = seen /\ UNCHANGED client
        \/ /\ out = "noreply"                         \* SAE, or an open one with an error
           /\ ap' = a /\ peers' = seen /\ client' = [client EXCEPT ![s] = [known EXCEPT !.state = "AUTHED"]]
        \/ /\ out = "reply"
           /\ ap' = a /\ peers' = seen
           /\ client' = [client EXCEPT ![s] = skw_mlme_ap_auth_reply(known)]
        \/ /\ out = "failed"                          \* the station is deleted again
           /\ IF seen[s].state # "absent"
              THEN /\ ap' = [a EXCEPT !.del["event"] = s, !.aids = @ \ {known.aid}]
                   /\ client' = [client EXCEPT ![s] = NoClient]
                   /\ peers' = [seen EXCEPT ![s].state = "NONE", ![s].left = TRUE]
              ELSE ap' = a /\ client' = [client EXCEPT ![s] = [known EXCEPT !.state = "NONE"]] /\ peers' = seen

RxAuth ==
    \E s \in Stas, ok \in BOOLEAN, out \in {"repeated", "noreply", "reply", "failed"} :
        /\ ApEvent
        /\ IF ~skw_sta_access_allowed(s) THEN ap' = Counted /\ UNCHANGED <<client, peers>>
           ELSE IF ap.sme = "int" THEN skw_mlme_ap_auth_handler(s, ok, out)
           ELSE ap' = Counted /\ peers' = Reauth(peers, s) /\ UNCHANGED client

(* The first id that is free; past the last one when none is. *)
NewAidUnmarked == Min((1..(LastAid + 1)) \ (ap.aids \ {1}))
skw_mlme_ap_new_aid == Min((1..(LastAid + 1)) \ ap.aids)

(* The reply a client waits for the status of; one that is not sent leaves  *)
(* the last one's cookie.                                                   *)
skw_mlme_ap_assoc_reply(last, out) == IF out = "reply" THEN "assoc" ELSE last

(* skw_mlme_ap_assoc_handler: every request that is answered takes a new id *)
(* and forgets the one the client had.                                      *)
RxAssoc ==
    \E s \in Stas, out \in {"reply", "unsent"} :
        /\ ApEvent /\ ap.sme = "int" /\ Listed(s) /\ UNCHANGED peers
        /\ IF client[s].state = "NONE" THEN ap' = Counted /\ client' = [client EXCEPT ![s].reply = "none"]
           ELSE /\ ap' = [Counted EXCEPT !.aids = @ \union ({skw_mlme_ap_new_aid} \ {LastAid + 1})]
                /\ client' = [client EXCEPT ![s].aid = skw_mlme_ap_new_aid,
                                            ![s].reply = skw_mlme_ap_assoc_reply(@, out)]

(* Deauth and disassoc.  An associated client is left to hostapd, which is  *)
(* told; one that only authenticated is deleted.                            *)
RxDeauth ==
    \E s \in Stas :
        /\ ApEvent
        /\ IF ap.sme = "int" /\ client[s].state = "AUTHED" THEN skw_sap_del_sta(Counted, "event", s)
           ELSE ap' = Counted /\ peers' = [peers EXCEPT ![s].left = @ \/ Bound(s)] /\ UNCHANGED client

(* skw_mlme_ap_tx_status, of the client's last reply. *)
skw_mlme_ap_auth_cb(s, ack) ==
    /\ client[s].reply = "auth"
    /\ IF ack THEN ap' = Counted /\ client' = [client EXCEPT ![s].timer = TRUE, ![s].reply = "none"] /\ UNCHANGED peers
       ELSE IF Bound(s) THEN skw_sap_del_sta(Counted, "event", s)
       ELSE ap' = Counted /\ client' = [client EXCEPT ![s].state = "NONE", ![s].reply = "none"] /\ UNCHANGED peers

skw_mlme_ap_assoc_cb(s, ack) ==
    /\ client[s].reply = "assoc"
    /\ IF ack
       THEN /\ ap' = Counted /\ peers' = skw_change_station(s)
            /\ client' = [client EXCEPT ![s].timer = FALSE, ![s].state = "ASSOCED", ![s].reply = "none"]
       ELSE IF Bound(s) THEN skw_sap_del_sta(Counted, "event", s)
       ELSE ap' = Counted /\ client' = [client EXCEPT ![s].state = "NONE", ![s].reply = "none"] /\ UNCHANGED peers

skw_mlme_ap_tx_status ==
    \E s \in Stas, ack \in BOOLEAN :
        /\ ApEvent /\ (skw_mlme_ap_auth_cb(s, ack) \/ skw_mlme_ap_assoc_cb(s, ack))

(* The timer, in the timer's context, queues an event ... *)
skw_mlme_ap_auth_timeout ==
    \E s \in Stas :
        /\ client[s].timer /\ client' = [client EXCEPT ![s].timer = FALSE]
        /\ ap' = [ap EXCEPT !.late = IF client[s].state = "ASSOCED" THEN @ ELSE @ \union {s}]
        /\ UNCHANGED peers

(* ... which deletes the station, whatever it has done since. *)
skw_local_ap_auth_timeout ==
    \E s \in ap.late :
        /\ Quiet("event") /\ skw_sap_del_sta([ap EXCEPT !.late = @ \ {s}], "event", s)

ApRest == ap.n = MaxApOps /\ (\A t \in Deleters : Quiet(t)) /\ UNCHANGED apVars

ApNext == \/ DelDone \/ DelNext \/ UserStation \/ skw_del_station \/ skw_set_mac_acl
          \/ skw_cfg80211_start_ap \/ skw_sap_flush_sta \/ skw_stop_ap
          \/ RxAuth \/ RxAssoc \/ RxDeauth \/ skw_mlme_ap_tx_status
          \/ skw_mlme_ap_auth_timeout \/ skw_local_ap_auth_timeout \/ ApRest
ApSpec == ApInit /\ [][ApNext]_apVars

-----------------------------------------------------------------------------
(* The client list agrees with what it stands beside: a client has a peer,  *)
(* except one whose ADD_STA was refused or that was heard while it was      *)
(* being deleted (skw_mlme_ap_auth_handler never adds it again); no two     *)
(* clients share an association id, until the ids have run out; and an id   *)
(* in use is marked as used.                                                *)
ClientsAgree ==
    /\ \A s \in Stas : Listed(s) /\ ~Bound(s) => s \in ap.odd
    /\ \A s, o \in Stas : s # o /\ client[s].aid = client[o].aid => client[s].aid \in {0, LastAid + 1}
    /\ \A s \in Stas : client[s].aid \in ap.aids \union {0, LastAid + 1}
=============================================================================
