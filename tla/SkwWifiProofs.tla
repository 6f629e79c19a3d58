--------------------------- MODULE SkwWifiProofs ---------------------------
\* What MCSkwWifi checks together on a small instance and is proved for
\* every value of the constants: the access point's list of clients (module
\* SkwAp), the keys (SkwKeys), the station's connection (SkwSta), the
\* driver's life (SkwLife), direct links and channels (SkwTdls), events and
\* fragments (SkwEvents), radar detection (SkwDfs), receive reordering
\* (SkwRx).  These share no variable, so each has an invariant of its own.
EXTENDS MCSkwWifi, TLAPS, FiniteSetTheorems, WellFoundedInduction

\* The access point.
\* The inductive invariant.  A reply is waited for by a client that is on
\* the list: otherwise its failure would bring a forgotten client back.
ReplyIsListed == \A s \in Stas : client[s].reply # "none" => Listed(s)
ApInv == ApTypeOK /\ ClientsAgree /\ ReplyIsListed

-----------------------------------------------------------------------------
\* A set of numbers that is not empty has a least one.
LEMMA LeastExists ==
    ASSUME NEW T \in SUBSET Nat, T # {}
    PROVE  \E x \in T : \A y \in T : x <= y
<1>1. PICK x \in T : \A y \in T : <<y, x>> \notin OpToRel(<, Nat) BY NatLessThanWellFounded, WFMin
<1>2. \A y \in T : ~(y < x) BY <1>1 DEF OpToRel
<1>3. T \subseteq Nat OBVIOUS
<1> QED BY <1>2, <1>3

\* skw_mlme_ap_new_aid returns an id that is not marked, or the one past the last.
LEMMA NewAid ==
    ASSUME ap.aids \subseteq 1..LastAid
    PROVE  skw_mlme_ap_new_aid \in (1..(LastAid + 1)) \ ap.aids
<1> DEFINE T == (1..(LastAid + 1)) \ ap.aids
<1>1. T \in SUBSET Nat /\ LastAid + 1 \in T BY ApAssumption
<1>2. \E x \in T : \A y \in T : x <= y BY <1>1, LeastExists
<1>3. skw_mlme_ap_new_aid = CHOOSE x \in T : \A y \in T : x <= y BY DEF skw_mlme_ap_new_aid, Min
<1> QED BY <1>2, <1>3

-----------------------------------------------------------------------------
\* A record of the access point that keeps the ids and forgets no odd station.
Like(a) == ApRecord(a) /\ a.aids = ap.aids /\ ap.odd \subseteq a.odd /\ a.sme = ap.sme

\* A step that marks and gives back no association id.
LEMMA SameIds ==
    ASSUME ApInv, ApTypeOK', ap'.aids = ap.aids, \A s \in Stas : client'[s].aid \in {client[s].aid, 0},
           \A s \in Stas : Listed(s)' /\ ~Bound(s)' => s \in ap'.odd,
           ReplyIsListed'
    PROVE  ApInv'
<1>1. \A s \in Stas : client'[s].aid \in ap'.aids \union {0, LastAid + 1} BY DEF ApInv, ClientsAgree
<1>2. \A s, o \in Stas : s # o /\ client'[s].aid = client'[o].aid => client'[s].aid \in {0, LastAid + 1}
  BY DEF ApInv, ClientsAgree
<1> QED BY <1>1, <1>2 DEF ApInv, ClientsAgree

\* The record of a station that is no client.
LEMMA NoClientIs == NoClient \in ApClient
  BY ApAssumption DEF NoClient, ApClient

\* Removing a client gives back its id, which no other client has.
LEMMA IdGiven ==
    ASSUME ApInv, NEW s \in Stas, ApTypeOK', ap'.aids = ap.aids \ {client[s].aid},
           client' = [client EXCEPT ![s] = NoClient],
           \A o \in Stas \ {s} : Listed(o) /\ ~Bound(o)' => o \in ap'.odd
    PROVE  ApInv'
<1>0. client \in [Stas -> ApClient] BY DEF ApInv, ApTypeOK
<1>1. client'[s] = NoClient /\ \A o \in Stas \ {s} : client'[o] = client[o] BY <1>0
<1>2. ReplyIsListed' BY <1>1 DEF ApInv, ReplyIsListed, Listed, NoClient
<1>3. \A o \in Stas : Listed(o)' /\ ~Bound(o)' => o \in ap'.odd BY <1>1 DEF Listed, NoClient
<1>4. \A o, q \in Stas : o # q /\ client'[o].aid = client'[q].aid => client'[o].aid \in {0, LastAid + 1}
  BY <1>1 DEF ApInv, ClientsAgree, NoClient
<1>5. \A o \in Stas : client'[o].aid \in ap'.aids \union {0, LastAid + 1}
  BY <1>1 DEF ApInv, ClientsAgree, NoClient
<1> QED BY <1>2, <1>3, <1>4, <1>5 DEF ApInv, ClientsAgree

\* The first half of a removal, in any of the three threads.
LEMMA DelSta ==
    ASSUME ApInv, NEW a, Like(a), NEW t \in Deleters, NEW s \in Stas, skw_sap_del_sta(a, t, s)
    PROVE  ApInv'
<1> USE DEF ApInv, ApTypeOK
<1>1. CASE ~Bound(s)
  <2>1. ap' = a /\ UNCHANGED <<client, peers>> BY <1>1 DEF skw_sap_del_sta
  <2>2. ApTypeOK' BY <2>1 DEF Like
  <2>3. ReplyIsListed' /\ \A o \in Stas : Listed(o)' /\ ~Bound(o)' => o \in ap'.odd
    BY <2>1 DEF Like, ReplyIsListed, Listed, Bound, ClientsAgree
  <2> QED BY <2>1, <2>2, <2>3, SameIds DEF Like
<1>2. CASE Bound(s)
  <2>1. DelAfter(a, t, s) BY <1>2 DEF skw_sap_del_sta
  <2>2. peers' \in [Stas -> ApPeer] /\ \A o \in Stas : Bound(o)' = Bound(o)
    BY <1>2, <2>1 DEF DelAfter, Bound, ApPeer
  <2>3. CASE ap.sme = "int" /\ Listed(s)
    <3>1. ap' = [skw_mlme_ap_del_client(a, s) EXCEPT !.del[t] = s] /\ client' = [client EXCEPT ![s] = NoClient]
      BY <2>1, <2>3 DEF DelAfter
    <3>2. ApRecord(ap') /\ ap'.aids = ap.aids \ {client[s].aid} /\ ap.odd \subseteq ap'.odd
      BY <3>1 DEF Like, ApRecord, skw_mlme_ap_del_client
    <3>3. ApTypeOK' BY <2>2, <3>1, <3>2, NoClientIs
    <3> QED BY <2>2, <3>1, <3>2, <3>3, IdGiven DEF ClientsAgree
  <2>4. CASE ~(ap.sme = "int" /\ Listed(s))
    <3>1. ap' = [a EXCEPT !.del[t] = s] /\ UNCHANGED client BY <2>1, <2>4 DEF DelAfter
    <3>2. ApRecord(ap') /\ ap'.aids = ap.aids /\ ap.odd \subseteq ap'.odd BY <3>1 DEF Like, ApRecord
    <3>3. ReplyIsListed' /\ \A o \in Stas : Listed(o)' /\ ~Bound(o)' => o \in ap'.odd
      BY <2>2, <3>1, <3>2 DEF ReplyIsListed, Listed, ClientsAgree
    <3> QED BY <2>2, <3>1, <3>2, <3>3, SameIds
  <2> QED BY <2>3, <2>4
<1> QED BY <1>1, <1>2
\* A step that changes the clients and peers of one station, and no id.
LEMMA OneClient ==
    ASSUME ApInv, NEW s \in Stas, NEW c \in ApClient, NEW p \in [Stas -> ApPeer], Like(ap'),
           client' = [client EXCEPT ![s] = c], peers' = p, \A o \in Stas \ {s} : p[o] = peers[o],
           c.aid \in {client[s].aid, 0}, c.reply # "none" => c.state # "absent",
           c.state # "absent" /\ p[s].state = "absent" => s \in ap'.odd
    PROVE  ApInv'
<1>1. client \in [Stas -> ApClient] BY DEF ApInv, ApTypeOK
<1>2. client' \in [Stas -> ApClient] /\ client'[s] = c /\ \A o \in Stas \ {s} : client'[o] = client[o]
  BY <1>1
<1>3. ApTypeOK' BY <1>2 DEF ApTypeOK, Like
<1>4. ReplyIsListed' BY <1>2 DEF ApInv, ReplyIsListed, Listed
<1>5. \A o \in Stas : Listed(o)' /\ ~Bound(o)' => o \in ap'.odd
  BY <1>2 DEF ApInv, ClientsAgree, Listed, Bound, Like
<1> QED BY <1>2, <1>3, <1>4, <1>5, SameIds DEF Like

\* skw_mlme_ap_auth_handler, with an answer that is sent or not.
LEMMA AuthHandler ==
    ASSUME ApInv, NEW s \in Stas, NEW ok \in BOOLEAN, NEW out \in {"repeated", "noreply", "reply", "failed"},
           ap.n < MaxApOps, skw_mlme_ap_auth_handler(s, ok, out)
    PROVE  ApInv'
<1> DEFINE seen == IF Listed(s) THEN Reauth(peers, s) ELSE Reauth(skw_add_station(s, ok), s)
           known == IF Listed(s) THEN client[s] ELSE NewClient
           odd == IF seen[s].state = "absent" THEN ap.odd \union {s} ELSE ap.odd
           a == [Counted EXCEPT !.odd = odd]
<1>1. /\ client \in [Stas -> ApClient] /\ peers \in [Stas -> ApPeer] /\ ApRecord(ap)
      /\ client[s] \in ApClient
  BY DEF ApInv, ApTypeOK
<1>2. seen \in [Stas -> ApPeer] /\ \A o \in Stas \ {s} : seen[o] = peers[o]
  <2>1. \A t \in [Stas -> ApPeer] : Reauth(t, s) \in [Stas -> ApPeer] /\ \A o \in Stas \ {s} : Reauth(t, s)[o] = t[o]
    BY DEF Reauth, ApPeer
  <2>2. /\ skw_add_station(s, ok) \in [Stas -> ApPeer]
        /\ \A o \in Stas \ {s} : skw_add_station(s, ok)[o] = peers[o]
    BY <1>1 DEF skw_add_station, ApPeer, NoPeer
  <2> QED BY <1>1, <2>1, <2>2
<1>3. known \in ApClient /\ known.aid \in {client[s].aid, 0} /\ known.state # "absent"
  BY <1>1, NoClientIs DEF Listed, NewClient, NoClient, ApClient
<1>4. Like(a) /\ (seen[s].state = "absent" => s \in a.odd)
  BY <1>1, ApAssumption DEF Like, ApRecord, Counted
<1> HIDE DEF seen, known, a
<1>5. CASE ap' = a /\ peers' = seen /\ UNCHANGED client /\ Listed(s)
  <2>1. client' = [client EXCEPT ![s] = client[s]] BY <1>1, <1>5
  <2>2. client[s].reply # "none" => client[s].state # "absent" BY <1>5 DEF Listed
  <2> QED BY <1>1, <1>2, <1>4, <1>5, <2>1, <2>2, OneClient
<1>6. CASE \E c \in {[known EXCEPT !.state = "AUTHED"], skw_mlme_ap_auth_reply(known), [known EXCEPT !.state = "NONE"]} :
              ap' = a /\ peers' = seen /\ client' = [client EXCEPT ![s] = c]
  <2>1. PICK c \in {[known EXCEPT !.state = "AUTHED"], skw_mlme_ap_auth_reply(known), [known EXCEPT !.state = "NONE"]} :
              ap' = a /\ peers' = seen /\ client' = [client EXCEPT ![s] = c]
    BY <1>6
  <2>2. c \in ApClient /\ c.aid \in {client[s].aid, 0} /\ c.state # "absent"
    BY <1>3 DEF ApClient, skw_mlme_ap_auth_reply
  <2> QED BY <1>2, <1>4, <2>1, <2>2, OneClient
<1>7. CASE /\ ap' = [a EXCEPT !.del["event"] = s, !.aids = @ \ {known.aid}]
           /\ client' = [client EXCEPT ![s] = NoClient]
           /\ peers' = [seen EXCEPT ![s].state = "NONE", ![s].left = TRUE]
  <2>1. peers' \in [Stas -> ApPeer] /\ \A o \in Stas \ {s} : peers'[o] = peers[o]
    BY <1>2, <1>7 DEF ApPeer
  <2>2. ApRecord(ap') /\ ap'.aids = ap.aids \ {known.aid} /\ ap.odd \subseteq ap'.odd /\ ap'.sme = ap.sme
    BY <1>4, <1>7 DEF Like, ApRecord, Deleters
  <2>3. client' \in [Stas -> ApClient] /\ \A o \in Stas \ {s} : client'[o] = client[o]
    BY <1>1, <1>7, NoClientIs
  <2>4. ApTypeOK' BY <2>1, <2>2, <2>3 DEF ApTypeOK
  <2>5. \A o \in Stas \ {s} : Listed(o) /\ ~Bound(o)' => o \in ap'.odd
    BY <2>1, <2>2 DEF ApInv, ClientsAgree, Bound
  <2>6. CASE known.aid = client[s].aid BY <1>7, <2>2, <2>4, <2>5, <2>6, IdGiven
  <2>7. CASE known.aid = 0
    <3>1. ap'.aids = ap.aids BY <1>1, <2>2, <2>7 DEF ApRecord
    <3>2. Like(ap') BY <2>2, <3>1 DEF Like
    <3> QED BY <1>7, <2>1, <3>2, NoClientIs, OneClient DEF NoClient
  <2> QED BY <1>3, <2>6, <2>7
<1> QED BY <1>5, <1>6, <1>7 DEF skw_mlme_ap_auth_handler, seen, known, a
\* Every step keeps the invariant.
LEMMA ApStep == ApInv /\ [ApNext]_apVars => ApInv'
<1> SUFFICES ASSUME ApInv, [ApNext]_apVars PROVE ApInv' OBVIOUS
<1>0. /\ client \in [Stas -> ApClient] /\ peers \in [Stas -> ApPeer] /\ ApRecord(ap)
      /\ \A s \in Stas : client[s] \in ApClient /\ peers[s] \in ApPeer
      /\ ap.n < MaxApOps => Like(Counted)
  BY ApAssumption DEF ApInv, ApTypeOK, ApRecord, Like, Counted
<1>1. ASSUME UNCHANGED client, peers' \in [Stas -> ApPeer], Like(ap'),
             \A s \in Stas : Listed(s) /\ Bound(s) /\ ~Bound(s)' => s \in ap'.odd
      PROVE  ApInv'
  <2>1. ApTypeOK' /\ ReplyIsListed' BY <1>0, <1>1 DEF ApInv, ApTypeOK, Like, ReplyIsListed, Listed
  <2>2. \A s \in Stas : Listed(s)' /\ ~Bound(s)' => s \in ap'.odd
    BY <1>1 DEF ApInv, ClientsAgree, Listed, Like
  <2> QED BY <1>1, <2>1, <2>2, SameIds DEF Like
<1>2. ASSUME NEW s \in Stas, NEW c \in ApClient, client' = [client EXCEPT ![s] = c], UNCHANGED peers, Like(ap'),
             c.aid = client[s].aid, c.reply # "none" => c.state # "absent", c.state # "absent" => Listed(s)
      PROVE  ApInv'
  BY <1>0, <1>2, OneClient DEF Like, ApInv, ClientsAgree, Bound
<1>3. CASE DelDone
  <2>1. PICK t \in Deleters, ok \in BOOLEAN :
          /\ ap.del[t] # NoSta /\ UNCHANGED client
          /\ ap' = [ap EXCEPT !.del[t] = NoSta, !.odd = IF ok /\ Listed(ap.del[t]) THEN @ \union {ap.del[t]} ELSE @]
          /\ peers' = IF ok THEN [peers EXCEPT ![ap.del[t]] = NoPeer] ELSE peers
    BY <1>3 DEF DelDone
  <2>2. ap.del[t] \in Stas BY <1>0, <2>1 DEF ApRecord
  <2>3. peers' \in [Stas -> ApPeer] BY <1>0, <2>1, <2>2 DEF ApPeer, NoPeer
  <2>4. Like(ap') BY <1>0, <2>1, <2>2 DEF Like, ApRecord
  <2>5. \A s \in Stas : Listed(s) /\ Bound(s) /\ ~Bound(s)' => s \in ap'.odd
    BY <1>0, <2>1, <2>2 DEF Bound, ApRecord
  <2> QED BY <1>1, <2>1, <2>3, <2>4, <2>5
<1>4. CASE DelNext
  <2>1. PICK t \in Deleters : \E s \in ap.todo[t] : skw_sap_del_sta([ap EXCEPT !.todo[t] = @ \ {s}], t, s)
    BY <1>4 DEF DelNext
  <2>2. PICK s \in ap.todo[t] : skw_sap_del_sta([ap EXCEPT !.todo[t] = @ \ {s}], t, s) BY <2>1
  <2>3. s \in Stas /\ Like([ap EXCEPT !.todo[t] = @ \ {s}]) BY <1>0, <2>2 DEF Like, ApRecord
  <2> QED BY <2>3, <2>2, DelSta
<1>5. CASE UserStation
  <2>1. PICK s \in Stas, ok \in BOOLEAN :
          /\ ap.n < MaxApOps /\ ap' = Counted /\ UNCHANGED client
          /\ peers' \in {skw_add_station(s, ok), skw_change_station(s)}
    BY <1>5 DEF UserStation, ApUser, ApOp
  <2>2. peers' \in [Stas -> ApPeer] /\ \A o \in Stas : Bound(o) => Bound(o)'
    <3>1. skw_add_station(s, ok) \in [Stas -> ApPeer] /\ \A o \in Stas : Bound(o) => skw_add_station(s, ok)[o].state # "absent"
      BY <1>0 DEF skw_add_station, ApPeer, NoPeer, Bound
    <3>2. skw_change_station(s) \in [Stas -> ApPeer] /\ \A o \in Stas : Bound(o) => skw_change_station(s)[o].state # "absent"
      BY <1>0 DEF skw_change_station, ApPeer, Bound
    <3> QED BY <2>1, <3>1, <3>2 DEF Bound
  <2> QED BY <1>0, <1>1, <2>1, <2>2
<1>6. CASE skw_del_station BY <1>0, <1>6, DelSta DEF skw_del_station, ApUser, ApOp, Deleters
<1>7. CASE skw_set_mac_acl \/ skw_cfg80211_start_ap \/ skw_sap_flush_sta \/ skw_stop_ap
  <2>1. UNCHANGED <<client, peers>>
    BY <1>7 DEF skw_set_mac_acl, skw_cfg80211_start_ap, skw_sap_flush_sta, skw_stop_ap
  <2>2. Like(ap')
    <3>1. CASE skw_set_mac_acl
      BY <1>0, <3>1 DEF skw_set_mac_acl, ApUser, ApOp, Like, ApRecord, Counted, Deleters
    <3>2. CASE skw_cfg80211_start_ap
      BY <1>0, <3>2 DEF skw_cfg80211_start_ap, ApUser, ApOp, Like, ApRecord, Counted
    <3>3. CASE skw_sap_flush_sta
      BY <1>0, <3>3 DEF skw_sap_flush_sta, ApUser, ApOp, Like, ApRecord, Counted, Deleters
    <3>4. CASE skw_stop_ap BY <1>0, <3>4 DEF skw_stop_ap, Like, ApRecord
    <3> QED BY <1>7, <3>1, <3>2, <3>3, <3>4
  <2> QED BY <1>0, <1>1, <2>1, <2>2 DEF Bound
<1>8. CASE RxAuth
  <2>1. PICK s \in Stas, ok \in BOOLEAN, out \in {"repeated", "noreply", "reply", "failed"} :
          /\ ap.n < MaxApOps
          /\ \/ ap' = Counted /\ UNCHANGED <<client, peers>>
             \/ skw_mlme_ap_auth_handler(s, ok, out)
             \/ ap' = Counted /\ peers' = Reauth(peers, s) /\ UNCHANGED client
    BY <1>8 DEF RxAuth, ApEvent, ApOp
  <2>2. Reauth(peers, s) \in [Stas -> ApPeer] /\ \A o \in Stas : Reauth(peers, s)[o].state = peers[o].state
    BY <1>0 DEF Reauth, ApPeer
  <2> QED BY <1>0, <1>1, <2>1, <2>2, AuthHandler DEF Bound
<1>9. CASE RxAssoc
  <2>1. PICK s \in Stas, out \in {"reply", "unsent"} :
          /\ ap.n < MaxApOps /\ Listed(s) /\ UNCHANGED peers
          /\ IF client[s].state = "NONE" THEN ap' = Counted /\ client' = [client EXCEPT ![s].reply = "none"]
             ELSE /\ ap' = [Counted EXCEPT !.aids = @ \union ({skw_mlme_ap_new_aid} \ {LastAid + 1})]
                  /\ client' = [client EXCEPT ![s].aid = skw_mlme_ap_new_aid,
                                              ![s].reply = skw_mlme_ap_assoc_reply(@, out)]
    BY <1>9 DEF RxAssoc, ApEvent, ApOp
  <2>2. CASE client[s].state = "NONE"
    <3>1. client' = [client EXCEPT ![s] = [client[s] EXCEPT !.reply = "none"]] BY <1>0, <2>1, <2>2
    <3>2. [client[s] EXCEPT !.reply = "none"] \in ApClient BY <1>0 DEF ApClient
    <3> QED BY <1>0, <1>2, <2>1, <2>2, <3>1, <3>2 DEF ApClient
  <2>3. CASE client[s].state # "NONE"
    <3> DEFINE new == skw_mlme_ap_new_aid
               reply == skw_mlme_ap_assoc_reply(client[s].reply, out)
               c == [client[s] EXCEPT !.aid = new, !.reply = reply]
    <3>1. new \in (1..(LastAid + 1)) \ ap.aids BY <1>0, NewAid DEF ApRecord
    <3> HIDE DEF new
    <3>2. reply \in {"none", "auth", "assoc"} BY <1>0 DEF ApClient, skw_mlme_ap_assoc_reply
    <3> HIDE DEF reply
    <3>3. new \in 0..(LastAid + 1) BY <3>1, ApAssumption
    <3>4. c \in ApClient /\ c.aid = new /\ c.state = client[s].state BY <1>0, <3>2, <3>3 DEF ApClient
    <3>5. client' = [client EXCEPT ![s] = c] BY <1>0, <2>1, <2>3 DEF new, reply
    <3> HIDE DEF c
    <3>6. ap' = [Counted EXCEPT !.aids = @ \union ({new} \ {LastAid + 1})] BY <2>1, <2>3 DEF new
    <3>7. ApRecord(ap') /\ ap'.aids = ap.aids \union ({new} \ {LastAid + 1}) /\ ap'.odd = ap.odd
      <4>1. {new} \ {LastAid + 1} \subseteq 1..LastAid BY <3>1, ApAssumption
      <4> QED BY <1>0, <2>1, <3>6, <4>1 DEF Like, ApRecord, Counted
    <3>8. client' \in [Stas -> ApClient] /\ client'[s] = c /\ \A o \in Stas \ {s} : client'[o] = client[o]
      BY <1>0, <3>4, <3>5
    <3>9. ApTypeOK' BY <1>0, <2>1, <3>7, <3>8 DEF ApTypeOK
    <3>10. ReplyIsListed' /\ \A o \in Stas : Listed(o)' = Listed(o)
      BY <2>1, <3>4, <3>8 DEF ApInv, ReplyIsListed, Listed
    <3>11. \A o \in Stas : Listed(o)' /\ ~Bound(o)' => o \in ap'.odd
      BY <2>1, <3>7, <3>10 DEF ApInv, ClientsAgree, Bound
    <3>12. \A o \in Stas : client'[o].aid \in ap'.aids \union {0, LastAid + 1}
      BY <3>4, <3>7, <3>8 DEF ApInv, ClientsAgree
    <3>13. \A o, q \in Stas : o # q /\ client'[o].aid = client'[q].aid => client'[o].aid \in {0, LastAid + 1}
      BY <3>1, <3>4, <3>8 DEF ApInv, ClientsAgree
    <3> QED BY <3>9, <3>10, <3>11, <3>12, <3>13 DEF ApInv, ClientsAgree
  <2> QED BY <2>2, <2>3
<1>10. CASE RxDeauth
  <2>1. PICK s \in Stas :
          /\ ap.n < MaxApOps
          /\ \/ skw_sap_del_sta(Counted, "event", s)
             \/ ap' = Counted /\ peers' = [peers EXCEPT ![s].left = @ \/ Bound(s)] /\ UNCHANGED client
    BY <1>10 DEF RxDeauth, ApEvent, ApOp
  <2>2. ASSUME peers' = [peers EXCEPT ![s].left = @ \/ Bound(s)]
        PROVE  peers' \in [Stas -> ApPeer] /\ \A o \in Stas : peers'[o].state = peers[o].state
    BY <1>0, <2>2 DEF ApPeer
  <2> QED BY <1>0, <1>1, <2>1, <2>2, DelSta DEF Bound, Deleters
<1>11. CASE skw_mlme_ap_tx_status
  <2>1. PICK s \in Stas, ack \in BOOLEAN : ap.n < MaxApOps /\ (skw_mlme_ap_auth_cb(s, ack) \/ skw_mlme_ap_assoc_cb(s, ack))
    BY <1>11 DEF skw_mlme_ap_tx_status, ApEvent, ApOp
  <2>2. Listed(s) BY <2>1 DEF ApInv, ReplyIsListed, skw_mlme_ap_auth_cb, skw_mlme_ap_assoc_cb
  <2> DEFINE heard == [client[s] EXCEPT !.timer = TRUE, !.reply = "none"]
             joined == [client[s] EXCEPT !.timer = FALSE, !.state = "ASSOCED", !.reply = "none"]
             lost == [client[s] EXCEPT !.state = "NONE", !.reply = "none"]
  <2>3. \A c \in {heard, joined, lost} : c \in ApClient /\ c.aid = client[s].aid /\ c.reply = "none"
    BY <1>0 DEF ApClient
  <2>4. \/ skw_sap_del_sta(Counted, "event", s)
        \/ ap' = Counted /\ UNCHANGED peers /\ \E c \in {heard, lost} : client' = [client EXCEPT ![s] = c]
        \/ ap' = Counted /\ peers' = skw_change_station(s) /\ client' = [client EXCEPT ![s] = joined]
    BY <1>0, <2>1 DEF skw_mlme_ap_auth_cb, skw_mlme_ap_assoc_cb
  <2>5. skw_change_station(s) \in [Stas -> ApPeer] /\ \A o \in Stas \ {s} : skw_change_station(s)[o] = peers[o]
    BY <1>0 DEF skw_change_station, ApPeer
  <2>6. skw_change_station(s)[s].state = "absent" => peers[s].state = "absent"
    BY <1>0 DEF skw_change_station, ApPeer
  <2> HIDE DEF heard, joined, lost
  <2>7. CASE skw_sap_del_sta(Counted, "event", s) BY <1>0, <2>1, <2>7, DelSta DEF Deleters
  <2>8. CASE ap' = Counted /\ UNCHANGED peers /\ \E c \in {heard, lost} : client' = [client EXCEPT ![s] = c]
    BY <1>0, <1>2, <2>1, <2>2, <2>3, <2>8
  <2>9. CASE ap' = Counted /\ peers' = skw_change_station(s) /\ client' = [client EXCEPT ![s] = joined]
    <3>1. skw_change_station(s)[s].state = "absent" => s \in ap'.odd
      BY <1>0, <2>1, <2>2, <2>6, <2>9 DEF ApInv, ClientsAgree, Bound, Like
    <3> QED BY <1>0, <2>1, <2>3, <2>5, <2>9, <3>1, OneClient
  <2> QED BY <2>4, <2>7, <2>8, <2>9
<1>12. CASE skw_mlme_ap_auth_timeout
  <2>1. PICK s \in Stas :
          /\ client[s].timer /\ client' = [client EXCEPT ![s].timer = FALSE] /\ UNCHANGED peers
          /\ ap' = [ap EXCEPT !.late = IF client[s].state = "ASSOCED" THEN @ ELSE @ \union {s}]
    BY <1>12 DEF skw_mlme_ap_auth_timeout
  <2> DEFINE c == [client[s] EXCEPT !.timer = FALSE]
  <2>2. c \in ApClient /\ c.aid = client[s].aid /\ c.state = client[s].state /\ c.reply = client[s].reply
    BY <1>0 DEF ApClient
  <2>3. client' = [client EXCEPT ![s] = c] BY <1>0, <2>1
  <2> HIDE DEF c
  <2>4. Like(ap') BY <1>0, <2>1 DEF Like, ApRecord
  <2>5. c.reply # "none" => Listed(s) BY <2>2 DEF ApInv, ReplyIsListed
  <2> QED BY <1>2, <2>1, <2>2, <2>3, <2>4, <2>5 DEF Listed
<1>13. CASE skw_local_ap_auth_timeout
  <2>1. PICK s \in ap.late : skw_sap_del_sta([ap EXCEPT !.late = @ \ {s}], "event", s)
    BY <1>13 DEF skw_local_ap_auth_timeout
  <2>2. s \in Stas /\ Like([ap EXCEPT !.late = @ \ {s}]) BY <1>0 DEF Like, ApRecord
  <2> QED BY <2>1, <2>2, DelSta DEF Deleters
<1>14. CASE ApRest \/ UNCHANGED apVars
  BY <1>14 DEF ApRest, apVars, ApInv, ApTypeOK, ClientsAgree, ReplyIsListed, Listed, Bound
<1> QED BY <1>3, <1>4, <1>5, <1>6, <1>7, <1>8, <1>9, <1>10, <1>11, <1>12, <1>13, <1>14 DEF ApNext

\* The initial state satisfies the invariant.
LEMMA ApBegin == ApInit => ApInv
  BY ApAssumption, NoClientIs DEF ApInit, ApInv, ApTypeOK, ApRecord, ApPeer, NoPeer, NoClient,
     ClientsAgree, ReplyIsListed, Listed, Bound, Deleters

\* The access point's three tables agree: whatever the netlink thread, the
\* ACL work and the events of stations do to one another, a client without
\* a peer is one of the odd ones, two clients share no association id, and
\* an id in use is marked (skw_mlme.c).
THEOREM ClientListAgrees == ApSpec => []ClientsAgree
  BY ApBegin, ApStep, PTL DEF ApSpec, ApInv

\* The access point's state keeps its type.
THEOREM ApTyping == ApSpec => []ApTypeOK
  BY ApBegin, ApStep, PTL DEF ApSpec, ApInv

-----------------------------------------------------------------------------
\* The keys.  The histories a key can have, and what the record of an
\* interface and the firmware's table hold.  The buffer is used only
\* between the choice of a key and the start of the AP; a default key that
\* waits has an index.
KeyHistory == {"overflow", "unreplaced", "ghost", "undeleted", "unflushed"}
FirmwareKeys == [slot : [KeySlots -> Number], n : Number, faults : Nat, odd : SUBSET KeyHistory]
Buffers == Seq(KeySlots \X Number)
IfaceOK(k) ==
    /\ DOMAIN k = {"ap", "wep", "started", "peer", "share", "flags", "wepidx", "key", "ptk", "buf"}
    /\ {k.ap, k.wep, k.started, k.peer, k.share} \subseteq BOOLEAN /\ k.flags \subseteq {"gtk", "ptk"}
    /\ k.key \in [KeyIdx -> Number] /\ k.ptk \in Number /\ k.wepidx \in KeyIdx \union {0}
    /\ k.buf \in Buffers /\ Len(k.buf) <= MaxBufKeys
    /\ k.buf # <<>> => k.ap /\ ~k.started
    /\ k.flags # {} => k.wepidx \in KeyIdx
\* Two records of an interface that differ in the buffer alone.
SameButBuf(a, k) == /\ a.ap = k.ap /\ a.wep = k.wep /\ a.started = k.started /\ a.peer = k.peer /\ a.share = k.share
                    /\ a.flags = k.flags /\ a.wepidx = k.wepidx /\ a.key = k.key /\ a.ptk = k.ptk
\* An AP that has not started: its keys go to the buffer.
Starting(k) == k.ap /\ ~k.started
\* No later entry of the buffer is for the slot of entry b.
IsLast(buf, b) == \A c \in 1..Len(buf) : c > b => buf[c][1] # buf[b][1]
\* A finite recursion over a buffer of keys has a solution.
LEMMA SentIs ==
    ASSUME NEW f, NEW buf, Len(buf) \in Nat
    PROVE  \A b \in 0..Len(buf) : Sent(f, buf)[b] = IF b = 0 THEN f ELSE Stored(Sent(f, buf)[b - 1], buf[b][1], buf[b][2])
<1> DEFINE P(n) == \E g : g = [b \in 0..n |-> IF b = 0 THEN f ELSE Stored(g[b - 1], buf[b][1], buf[b][2])]
           T == {n \in Nat : ~P(n)}
<1>1. P(0)
  <2>1. [b \in 0..0 |-> f] = [b \in 0..0 |-> IF b = 0 THEN f ELSE Stored([c \in 0..0 |-> f][b - 1], buf[b][1], buf[b][2])]
    OBVIOUS
  <2> QED BY <2>1
<1>2. ASSUME NEW n \in Nat, P(n) PROVE P(n + 1)
  <2>1. PICK g : g = [b \in 0..n |-> IF b = 0 THEN f ELSE Stored(g[b - 1], buf[b][1], buf[b][2])]
    BY <1>2
  <2> DEFINE h == [b \in 0..(n + 1) |-> IF b = n + 1 THEN Stored(g[n], buf[n + 1][1], buf[n + 1][2]) ELSE g[b]]
  <2>2. \A b \in 0..n : g[b] = IF b = 0 THEN f ELSE Stored(g[b - 1], buf[b][1], buf[b][2]) BY <2>1
  <2>3. h[n + 1] = Stored(h[n], buf[n + 1][1], buf[n + 1][2]) OBVIOUS
  <2>4. \A b \in 0..n : h[b] = g[b] /\ (b # 0 => b - 1 \in 0..n /\ h[b - 1] = g[b - 1]) OBVIOUS
  <2>5. \A b \in 0..(n + 1) : h[b] = IF b = 0 THEN f ELSE Stored(h[b - 1], buf[b][1], buf[b][2])
    <3> SUFFICES ASSUME NEW b \in 0..(n + 1) PROVE h[b] = IF b = 0 THEN f ELSE Stored(h[b - 1], buf[b][1], buf[b][2])
      OBVIOUS
    <3> HIDE DEF h
    <3>1. CASE b = n + 1 BY <2>3, <3>1
    <3>2. CASE b \in 0..n BY <2>2, <2>4, <3>2
    <3> QED BY <3>1, <3>2
  <2>6. h = [b \in 0..(n + 1) |-> h[b]] OBVIOUS
  <2> HIDE DEF h
  <2>7. h = [b \in 0..(n + 1) |-> IF b = 0 THEN f ELSE Stored(h[b - 1], buf[b][1], buf[b][2])]
    BY <2>5, <2>6
  <2> QED BY <2>7
<1>3. T = {}
  <2> SUFFICES ASSUME T # {} PROVE FALSE OBVIOUS
  <2>1. PICK m \in T : \A k \in T : m <= k BY LeastExists
  <2>2. m \in Nat /\ m # 0 BY <1>1
  <2>3. m - 1 \in Nat /\ m - 1 \notin T
    <3> HIDE DEF T, P
    <3> QED BY <2>1, <2>2
  <2>4. P(m - 1) BY <2>3
  <2>5. P((m - 1) + 1) BY <1>2, <2>3, <2>4
  <2> QED BY <2>1, <2>2, <2>5
<1>4. P(Len(buf)) BY <1>3
<1> DEFINE s == Sent(f, buf)
<1>5. s = [b \in 0..Len(buf) |-> IF b = 0 THEN f ELSE Stored(s[b - 1], buf[b][1], buf[b][2])]
  BY <1>4 DEF Sent
<1> HIDE DEF s
<1>6. \A b \in 0..Len(buf) : s[b] = IF b = 0 THEN f ELSE Stored(s[b - 1], buf[b][1], buf[b][2])
  BY <1>5
<1> QED BY <1>6 DEF s

\* What the firmware stores.
LEMMA StoredIs ==
    ASSUME NEW f \in FirmwareKeys, NEW s \in KeySlots, NEW k \in Number
    PROVE  /\ Stored(f, s, k) \in FirmwareKeys /\ Stored(f, s, k).slot = [f.slot EXCEPT ![s] = k]
           /\ Stored(f, s, k).n = f.n /\ Stored(f, s, k).faults = f.faults /\ Stored(f, s, k).odd = f.odd
  BY DEF Stored, FirmwareKeys

\* A slot the buffer names gets its last entry, the others keep what they had.
LEMMA SentKeeps ==
    ASSUME NEW f \in FirmwareKeys, NEW buf \in Buffers
    PROVE  \A b \in 0..Len(buf) :
              LET g == Sent(f, buf)[b] IN
              /\ g \in FirmwareKeys /\ g.n = f.n /\ g.faults = f.faults /\ g.odd = f.odd
              /\ \A s \in KeySlots : \/ g.slot[s] = f.slot[s] /\ \A c \in 1..b : buf[c][1] # s
                                     \/ \E c \in 1..b : /\ buf[c] = <<s, g.slot[s]>>
                                                       /\ \A d \in 1..b : d > c => buf[d][1] # s
<1> DEFINE KeptAll(g) == g \in FirmwareKeys /\ g.n = f.n /\ g.faults = f.faults /\ g.odd = f.odd
           Holds(g, b, s) == \/ g.slot[s] = f.slot[s] /\ \A c \in 1..b : buf[c][1] # s
                             \/ \E c \in 1..b : /\ buf[c] = <<s, g.slot[s]>>
                                               /\ \A d \in 1..b : d > c => buf[d][1] # s
           P(b) == KeptAll(Sent(f, buf)[b]) /\ \A s \in KeySlots : Holds(Sent(f, buf)[b], b, s)
           T == {b \in 0..Len(buf) : ~P(b)}
<1>0. Len(buf) \in Nat /\ \A b \in 1..Len(buf) : buf[b] \in KeySlots \X Number BY DEF Buffers
<1>1. P(0)
  <2>1. Sent(f, buf)[0] = f BY <1>0, SentIs
  <2> QED BY <2>1
<1>2. ASSUME NEW b \in 1..Len(buf), P(b - 1) PROVE P(b)
  <2> DEFINE g == Sent(f, buf)[b - 1]
             h == Sent(f, buf)[b]
             t == buf[b][1]
             v == buf[b][2]
  <2>0. t \in KeySlots /\ v \in Number /\ buf[b] = <<t, v>> /\ b - 1 \in 0..Len(buf) /\ b \in Nat
    BY <1>0
  <2>1. h = Stored(g, t, v) BY <1>0, SentIs
  <2>2. KeptAll(g) /\ \A s \in KeySlots : Holds(g, b - 1, s) BY <1>2
  <2> HIDE DEF g, h, t, v
  <2>3. KeptAll(h) /\ h.slot = [g.slot EXCEPT ![t] = v] BY <2>0, <2>1, <2>2, StoredIs
  <2>4. ASSUME NEW s \in KeySlots PROVE Holds(h, b, s)
    <3>1. CASE s = t
      <4>1. h.slot[s] = v BY <2>2, <2>3, <3>1 DEF FirmwareKeys
      <4>2. buf[b] = <<s, h.slot[s]>> /\ \A d \in 1..b : ~(d > b) BY <2>0, <3>1, <4>1
      <4> QED BY <2>0, <4>2
    <3>2. CASE s # t
      <4>1. h.slot[s] = g.slot[s] BY <2>2, <2>3, <3>2 DEF FirmwareKeys
      <4>2. \A c \in 1..b : c \in 1..(b - 1) \/ (c = b /\ buf[c][1] # s) BY <2>0, <3>2 DEF t
      <4>3. CASE g.slot[s] = f.slot[s] /\ \A c \in 1..(b - 1) : buf[c][1] # s BY <4>1, <4>2, <4>3
      <4>4. CASE \E c \in 1..(b - 1) : /\ buf[c] = <<s, g.slot[s]>>
                                       /\ \A d \in 1..(b - 1) : d > c => buf[d][1] # s
        <5>1. PICK c \in 1..(b - 1) : /\ buf[c] = <<s, g.slot[s]>>
                                       /\ \A d \in 1..(b - 1) : d > c => buf[d][1] # s
          BY <4>4
        <5>2. c \in 1..b /\ buf[c] = <<s, h.slot[s]>> /\ \A d \in 1..b : d > c => buf[d][1] # s
          BY <2>0, <4>1, <4>2, <5>1
        <5> QED BY <5>2
      <4> QED BY <2>2, <4>3, <4>4
    <3> QED BY <3>1, <3>2
  <2> QED BY <2>3, <2>4 DEF h
<1> HIDE DEF P
<1>3. T = {}
  <2> SUFFICES ASSUME T # {} PROVE FALSE OBVIOUS
  <2>0. T \subseteq Nat BY <1>0
  <2>1. PICK m \in T : \A k \in T : m <= k BY <2>0, LeastExists
  <2>2. m \in 1..Len(buf) BY <1>0, <1>1
  <2>3. m - 1 \in 0..Len(buf) /\ m - 1 \notin T BY <1>0, <2>1, <2>2
  <2> QED BY <1>2, <2>1, <2>2, <2>3
<1> QED BY <1>3 DEF P

\* What the addition, the choice of the default and the removal of a key leave.
KeyPut(k, f, s, n, o) ==
    /\ IfaceOK(o[1]) /\ SameButBuf(o[1], k) /\ o[2] \in FirmwareKeys /\ o[3] \in BOOLEAN
    /\ o[2].n = f.n /\ f.odd \subseteq o[2].odd
    /\ ~Starting(k) => /\ o[1] = k /\ o[2].odd = f.odd
                       /\ o[2].slot = IF o[3] THEN [f.slot EXCEPT ![s] = n] ELSE f.slot
    /\ Starting(k) /\ o[2].odd = {} => o[1].buf = Append(k.buf, <<s, n>>) /\ o[2] = f /\ o[3]
DefaultPut(k, o) ==
    /\ IfaceOK(o[1]) /\ o[2] \in FirmwareKeys /\ o[1].ap = k.ap /\ o[1].wep = k.wep
    /\ o[1].started = k.started /\ o[1].peer = k.peer /\ o[1].ptk = k.ptk /\ o[1].key = k.key
KeyDropped(k, f, s, g) ==
    /\ g \in FirmwareKeys
    /\ g.odd = {} => f.odd = {} /\ g.slot = [f.slot EXCEPT ![s] = 0] /\ \A b \in 1..Len(k.buf) : k.buf[b][1] # s

\* skw_cmd_add_key puts the key into the firmware or, before the start, into the buffer.
LEMMA AddKey ==
    ASSUME NEW k, IfaceOK(k), NEW f \in FirmwareKeys, NEW s \in KeySlots, NEW n \in Number,
           NEW o \in skw_cmd_add_key(k, f, s, n)
    PROVE  KeyPut(k, f, s, n, o)
<1> USE DEF KeyPut
<1>1. ASSUME NEW g \in FirmwareKeys, g.n = f.n, f.odd \subseteq g.odd, g.slot = f.slot, o \in Asked(k, g, s, n)
      PROVE  /\ o[1] = k /\ o[2] \in FirmwareKeys /\ o[3] \in BOOLEAN /\ o[2].n = f.n /\ o[2].odd = g.odd
             /\ o[2].slot = IF o[3] THEN [f.slot EXCEPT ![s] = n] ELSE f.slot
  <2>1. CASE o = <<k, Stored(g, s, n), TRUE>> BY <1>1, <2>1, StoredIs
  <2>2. CASE o = <<k, [g EXCEPT !.faults = @ + 1], FALSE>> BY <1>1, <2>2 DEF FirmwareKeys
  <2> QED BY <1>1, <2>1, <2>2 DEF Asked
<1>2. SameButBuf(k, k) BY DEF SameButBuf
<1>3. CASE ~Starting(k)
  <2>1. o \in Asked(k, f, s, n) BY <1>3 DEF skw_cmd_add_key, Starting
  <2> QED BY <1>1, <1>2, <1>3, <2>1
<1>4. CASE Starting(k) /\ Len(k.buf) < MaxBufKeys
  <2> DEFINE e == [k EXCEPT !.buf = Append(@, <<s, n>>)]
  <2>1. o = <<e, f, TRUE>> BY <1>4 DEF skw_cmd_add_key, Starting
  <2>2. <<s, n>> \in KeySlots \X Number /\ k.buf \in Buffers BY DEF IfaceOK
  <2>3. Append(k.buf, <<s, n>>) \in Buffers /\ Len(Append(k.buf, <<s, n>>)) = Len(k.buf) + 1 /\ Len(k.buf) \in Nat
    BY <2>2 DEF Buffers
  <2>4. /\ DOMAIN e = DOMAIN k /\ e.buf = Append(k.buf, <<s, n>>) /\ e.flags = k.flags /\ e.wepidx = k.wepidx
        /\ e.key = k.key /\ e.ptk = k.ptk
        /\ e.ap = k.ap /\ e.wep = k.wep /\ e.started = k.started /\ e.peer = k.peer /\ e.share = k.share
    BY DEF IfaceOK
  <2> HIDE DEF e
  <2>5. Len(e.buf) <= MaxBufKeys BY <1>4, <2>3, <2>4, KeysAssumption
  <2>6. IfaceOK(e) BY <1>4, <2>3, <2>4, <2>5 DEF IfaceOK, Starting
  <2> QED BY <1>4, <2>1, <2>4, <2>6 DEF SameButBuf
<1>5. CASE Starting(k) /\ ~(Len(k.buf) < MaxBufKeys)
  <2> DEFINE g == KeyOdd(f, {"overflow"})
  <2>1. o \in Asked(k, g, s, n) BY <1>5 DEF skw_cmd_add_key, Starting
  <2>2. g \in FirmwareKeys /\ g.n = f.n /\ g.odd = f.odd \union {"overflow"} /\ g.slot = f.slot
    <3>1. f.odd \union {"overflow"} \in SUBSET KeyHistory BY DEF FirmwareKeys, KeyHistory
    <3> QED BY <3>1 DEF KeyOdd, FirmwareKeys
  <2>3. /\ o[1] = k /\ o[2] \in FirmwareKeys /\ o[3] \in BOOLEAN /\ o[2].n = f.n /\ o[2].odd = f.odd \union {"overflow"}
    BY <1>1, <2>1, <2>2
  <2> QED BY <1>2, <1>5, <2>3
<1> QED BY <1>3, <1>4, <1>5

-----------------------------------------------------------------------------
\* The inductive invariant.  Only a started AP has a peer, and only a peer
\* has a pairwise key; default keys are for WEP; a station without a peer
\* has no key.  Where no request was refused, lost or made twice, the
\* firmware's slots are the driver's record; and before the AP has started
\* they are empty, and the buffer's last entry for each slot is the record.
KeysShape == IfaceOK(kc) /\ kf \in FirmwareKeys
PeerOK == (Starting(kc) => ~kc.peer) /\ (~kc.peer => kc.ptk = 0)
PlainKeys == ~kc.wep => kc.flags = {} /\ ~kc.share
IdleOK == ~kc.ap /\ ~kc.peer => \A i \in KeyIdx : kc.key[i] = 0
Sound == ~kc.wep /\ kf.odd = {}
SettledOK == Sound /\ ~Starting(kc) => /\ \A i \in KeyIdx : kf.slot[<<"gtk", i>>] = kc.key[i]
                                       /\ kf.slot[<<"peer", 0>>] = kc.ptk
Covers(buf, key) ==
    /\ \A b \in 1..Len(buf) : \E i \in KeyIdx : buf[b][1] = <<"gtk", i>> /\ key[i] # 0
    /\ \A i \in KeyIdx : key[i] # 0 =>
          \E b \in 1..Len(buf) : buf[b] = <<<<"gtk", i>>, key[i]>> /\ IsLast(buf, b)
AwaitingOK ==
    Sound /\ Starting(kc) =>
        /\ \A s \in KeySlots : kf.slot[s] = 0
        /\ Covers(kc.buf, kc.key)
KeysInv == KeysShape /\ PeerOK /\ PlainKeys /\ IdleOK /\ SettledOK /\ AwaitingOK

\* The slots of the group keys, of the pairwise keys and of the peer differ.
LEMMA SlotsAre == /\ \A i \in KeyIdx : <<"gtk", i>> \in KeySlots /\ <<"ptk", i>> \in KeySlots
                  /\ <<"peer", 0>> \in KeySlots /\ \A i \in KeyIdx : <<"gtk", i>> # <<"peer", 0>>
                  /\ 0 \in Number
  BY KeysAssumption DEF KeySlots, Number

\* skw_set_default_key changes neither the record of the keys nor the peer.
LEMMA DefaultKey ==
    ASSUME NEW k, IfaceOK(k), NEW f \in FirmwareKeys, NEW i \in KeyIdx, NEW kinds,
           NEW o \in Defaulted(k, f, i, kinds)
    PROVE  DefaultPut(k, o)
<1> USE DEF DefaultPut
<1> DEFINE Good(p) == /\ IfaceOK(p[1]) /\ p[2] \in FirmwareKeys /\ p[1].ap = k.ap /\ p[1].wep = k.wep
                      /\ p[1].started = k.started /\ p[1].peer = k.peer /\ p[1].ptk = k.ptk /\ p[1].key = k.key
           one(S, kind) ==
               IF kind \notin kinds THEN S
               ELSE UNION {{IF a[3] THEN <<a[1], a[2]>> ELSE <<[a[1] EXCEPT !.flags = @ \union {kind}], a[2]>> :
                          a \in skw_cmd_add_key(p[1], p[2], <<kind, i>>, p[1].key[i])} : p \in S}
           k1 == [k EXCEPT !.wepidx = i]
<1>1. ASSUME NEW S, \A p \in S : Good(p) /\ p[1].wepidx = i, NEW kind \in {"ptk", "gtk"}
      PROVE  \A q \in one(S, kind) : Good(q) /\ q[1].wepidx = i
  <2> SUFFICES ASSUME kind \in kinds, NEW q \in one(S, kind) PROVE Good(q) /\ q[1].wepidx = i BY <1>1
  <2>1. PICK p \in S : q \in {IF a[3] THEN <<a[1], a[2]>> ELSE <<[a[1] EXCEPT !.flags = @ \union {kind}], a[2]>> :
                          a \in skw_cmd_add_key(p[1], p[2], <<kind, i>>, p[1].key[i])}
    OBVIOUS
  <2>2. PICK a \in skw_cmd_add_key(p[1], p[2], <<kind, i>>, p[1].key[i]) :
               q = IF a[3] THEN <<a[1], a[2]>> ELSE <<[a[1] EXCEPT !.flags = @ \union {kind}], a[2]>>
    BY <2>1
  <2>3. Good(p) /\ p[1].wepidx = i BY <1>1
  <2>4. <<kind, i>> \in KeySlots /\ p[1].key[i] \in Number BY <2>3, SlotsAre DEF IfaceOK
  <2>5. IfaceOK(a[1]) /\ SameButBuf(a[1], p[1]) /\ a[2] \in FirmwareKeys /\ a[3] \in BOOLEAN
    <3> DEFINE k2 == p[1]
               f2 == p[2]
               n2 == p[1].key[i]
               s2 == <<kind, i>>
    <3>1. IfaceOK(k2) /\ f2 \in FirmwareKeys /\ s2 \in KeySlots /\ n2 \in Number /\ a \in skw_cmd_add_key(k2, f2, s2, n2)
      BY <2>3, <2>4
    <3>2. KeyPut(k2, f2, s2, n2, a)
      <4> HIDE DEF k2, f2, s2, n2
      <4> QED BY <3>1, AddKey
    <3> QED BY <3>2 DEF KeyPut
  <2>6. CASE a[3] BY <2>2, <2>3, <2>5, <2>6 DEF SameButBuf
  <2>7. CASE ~a[3]
    <3> DEFINE e == [a[1] EXCEPT !.flags = @ \union {kind}]
    <3>1. /\ DOMAIN e = DOMAIN a[1] /\ e.flags = a[1].flags \union {kind} /\ e.wepidx = a[1].wepidx /\ e.buf = a[1].buf
          /\ e.key = a[1].key /\ e.ptk = a[1].ptk
          /\ e.ap = a[1].ap /\ e.wep = a[1].wep /\ e.started = a[1].started /\ e.peer = a[1].peer /\ e.share = a[1].share
      BY <2>5 DEF IfaceOK
    <3>2. q = <<e, a[2]>> /\ q[1] = e /\ q[2] = a[2] BY <2>2, <2>7
    <3> HIDE DEF e
    <3>3. e.wepidx = i /\ e.flags \subseteq {"gtk", "ptk"} BY <2>3, <2>5, <3>1 DEF SameButBuf, IfaceOK
    <3>4. IfaceOK(e) BY <2>5, <3>1, <3>3 DEF IfaceOK
    <3> QED BY <2>3, <2>5, <3>1, <3>2, <3>3, <3>4 DEF SameButBuf
  <2> QED BY <2>5, <2>6, <2>7
<1>2. CASE k.key[i] = 0
  <2>1. o = <<k, f>> BY <1>2 DEF Defaulted
  <2> QED BY <2>1
<1>3. CASE k.key[i] # 0
  <2>1. o \in one(one({<<k1, f>>}, "ptk"), "gtk") BY <1>3 DEF Defaulted
  <2>2. /\ DOMAIN k1 = DOMAIN k /\ k1.wepidx = i /\ k1.flags = k.flags /\ k1.buf = k.buf /\ k1.key = k.key /\ k1.ptk = k.ptk
        /\ k1.ap = k.ap /\ k1.wep = k.wep /\ k1.started = k.started /\ k1.peer = k.peer /\ k1.share = k.share
    BY DEF IfaceOK
  <2> HIDE DEF k1
  <2>3. IfaceOK(k1) BY <2>2 DEF IfaceOK
  <2>4. \A p \in {<<k1, f>>} : Good(p) /\ p[1].wepidx = i BY <2>2, <2>3
  <2> HIDE DEF one, Good
  <2>5. \A p \in one({<<k1, f>>}, "ptk") : Good(p) /\ p[1].wepidx = i BY <1>1, <2>4
  <2>6. \A p \in one(one({<<k1, f>>}, "ptk"), "gtk") : Good(p) /\ p[1].wepidx = i BY <1>1, <2>5
  <2> QED BY <2>1, <2>6 DEF Good
<1> QED BY <1>2, <1>3

\* The start of the AP sends the whole buffer, or leaves the firmware without some of it.
LEMMA FlushedIs ==
    ASSUME NEW f \in FirmwareKeys, NEW buf \in Buffers, NEW g \in Flushed(f, buf)
    PROVE  g \in FirmwareKeys /\ (g.odd = {} => f.odd = {} /\ g = Sent(f, buf)[Len(buf)])
<1>0. Len(buf) \in Nat BY DEF Buffers
<1>1. CASE g = Sent(f, buf)[Len(buf)] BY <1>0, <1>1, SentKeeps
<1>2. CASE buf # <<>> /\ g = [KeyOdd(Sent(f, buf)[Len(buf) - 1], {"unflushed"}) EXCEPT !.faults = @ + 1]
  <2>1. Len(buf) - 1 \in 0..Len(buf) BY <1>0, <1>2 DEF Buffers
  <2> DEFINE h == Sent(f, buf)[Len(buf) - 1]
  <2>2. h \in FirmwareKeys BY <2>1, SentKeeps
  <2>3. h.odd \union {"unflushed"} \in SUBSET KeyHistory /\ h.odd \union {"unflushed"} # {}
    BY <2>2 DEF FirmwareKeys, KeyHistory
  <2>4. g.odd = h.odd \union {"unflushed"} BY <1>2, <2>2 DEF FirmwareKeys, KeyOdd
  <2>5. /\ g = [slot |-> g.slot, n |-> g.n, faults |-> g.faults, odd |-> g.odd]
        /\ g.slot = h.slot /\ g.n = h.n /\ g.faults = h.faults + 1
    BY <1>2, <2>2 DEF FirmwareKeys, KeyOdd
  <2>6. g.slot \in [KeySlots -> Number] /\ g.n \in Number /\ g.faults \in Nat
    BY <2>2, <2>5 DEF FirmwareKeys
  <2>7. g \in FirmwareKeys BY <2>3, <2>4, <2>5, <2>6 DEF FirmwareKeys
  <2> QED BY <2>3, <2>4, <2>7
<1> QED BY <1>1, <1>2 DEF Flushed

\* A new interface has no keys.
LEMMA KeysBegin == KeysInit => KeysInv
<1> SUFFICES ASSUME KeysInit PROVE KeysInv OBVIOUS
<1>1. PICK isap \in BOOLEAN, wep \in BOOLEAN :
        kc = [ap |-> isap, wep |-> wep, started |-> FALSE, peer |-> FALSE, share |-> FALSE, flags |-> {}, wepidx |-> 0,
              key |-> NoKeys, ptk |-> 0, buf |-> <<>>]
  BY DEF KeysInit
<1>2. kf = [slot |-> [s \in KeySlots |-> 0], n |-> 0, faults |-> 0, odd |-> {}] BY DEF KeysInit
<1>3. kf \in FirmwareKeys BY <1>2, SlotsAre DEF FirmwareKeys
<1>4. <<>> \in Buffers /\ Len(<<>>) = 0 BY DEF Buffers
<1>5. IfaceOK(kc) BY <1>1, <1>4, SlotsAre, KeysAssumption DEF IfaceOK, NoKeys
<1>6. PeerOK /\ PlainKeys /\ IdleOK BY <1>1 DEF PeerOK, PlainKeys, IdleOK, NoKeys
<1>7. SettledOK BY <1>1, <1>2, SlotsAre DEF SettledOK, NoKeys
<1>8. AwaitingOK BY <1>1, <1>2 DEF AwaitingOK, Covers, NoKeys
<1> QED BY <1>3, <1>5, <1>6, <1>7, <1>8 DEF KeysInv, KeysShape

\* A key was put last into the buffer.
LEMMA LastPut ==
    ASSUME NEW buf \in Buffers, NEW i \in KeyIdx, NEW n \in Number \ {0}, NEW old \in [KeyIdx -> Number], Covers(buf, old)
    PROVE  Covers(Append(buf, <<<<"gtk", i>>, n>>), [old EXCEPT ![i] = n])
<1> DEFINE l == Append(buf, <<<<"gtk", i>>, n>>)
           new == [old EXCEPT ![i] = n]
<1> DEFINE e == <<<<"gtk", i>>, n>>
<1>1. /\ Len(buf) \in Nat /\ Len(l) = Len(buf) + 1 /\ l[Len(buf) + 1] = e /\ \A b \in 1..Len(buf) : l[b] = buf[b]
  BY DEF Buffers
<1>2. e[1] = <<"gtk", i>> OBVIOUS
<1>0. /\ \A b \in 1..Len(buf) : \E j \in KeyIdx : buf[b][1] = <<"gtk", j>> /\ old[j] # 0
      /\ \A j \in KeyIdx : old[j] # 0 =>
            \E b \in 1..Len(buf) : buf[b] = <<<<"gtk", j>>, old[j]>> /\ IsLast(buf, b)
  BY DEF Covers
<1> HIDE DEF e, l
<1>3. \A b \in 1..Len(l) : b \in 1..Len(buf) \/ b = Len(buf) + 1 BY <1>1
<1>4. ASSUME NEW b \in 1..Len(l) PROVE \E j \in KeyIdx : l[b][1] = <<"gtk", j>> /\ new[j] # 0
  <2>1. CASE b = Len(buf) + 1 BY <1>1, <1>2, <2>1
  <2>2. CASE b \in 1..Len(buf)
    <3>1. PICK j \in KeyIdx : buf[b][1] = <<"gtk", j>> /\ old[j] # 0 BY <1>0, <2>2
    <3>2. new[j] # 0 BY <3>1
    <3> QED BY <1>1, <2>2, <3>1, <3>2
  <2> QED BY <1>3, <2>1, <2>2
<1>5. ASSUME NEW j \in KeyIdx, new[j] # 0
      PROVE  \E b \in 1..Len(l) : l[b] = <<<<"gtk", j>>, new[j]>> /\ IsLast(l, b)
  <2>1. CASE j = i
    <3>1. l[Len(buf) + 1] = <<<<"gtk", j>>, new[j]>> BY <1>1, <2>1 DEF e
    <3>2. IsLast(l, Len(buf) + 1) /\ Len(buf) + 1 \in 1..Len(l) BY <1>1 DEF IsLast
    <3> QED BY <3>1, <3>2
  <2>2. CASE j # i
    <3>1. new[j] = old[j] /\ <<"gtk", i>> # <<"gtk", j>> BY <2>2
    <3>2. PICK b \in 1..Len(buf) : buf[b] = <<<<"gtk", j>>, old[j]>> /\ IsLast(buf, b)
      BY <1>0, <1>5, <3>1
    <3>3. b \in 1..Len(l) /\ l[b] = <<<<"gtk", j>>, new[j]>> BY <1>1, <3>1, <3>2
    <3>4. ASSUME NEW c \in 1..Len(l), c > b PROVE l[c][1] # l[b][1]
      <4>1. l[b][1] = <<"gtk", j>> BY <3>3
      <4>2. CASE c = Len(buf) + 1 BY <1>1, <1>2, <3>1, <4>1, <4>2
      <4>3. CASE c \in 1..Len(buf) BY <1>1, <3>2, <3>4, <4>3 DEF IsLast
      <4> QED BY <1>3, <4>2, <4>3
    <3>5. IsLast(l, b) BY <3>4 DEF IsLast
    <3> QED BY <3>3, <3>5
  <2> QED BY <2>1, <2>2
<1> QED BY <1>4, <1>5 DEF Covers, l

\* skw_cmd_del_key empties the slot; where the buffer has it, it comes back.
LEMMA RemovedIs ==
    ASSUME NEW k, NEW f \in FirmwareKeys, NEW s \in KeySlots, NEW g \in Removed(k, f, s)
    PROVE  KeyDropped(k, f, s, g)
<1> USE DEF KeyDropped
<1> DEFINE ghost == \E b \in 1..Len(k.buf) : k.buf[b][1] = s
           h == IF ghost THEN KeyOdd(f, {"ghost"}) ELSE f
           e == [KeyOdd(h, {"undeleted"}) EXCEPT !.faults = @ + 1]
<1>1. f.odd \union {"ghost"} \in SUBSET KeyHistory BY DEF FirmwareKeys, KeyHistory
<1>2. h \in FirmwareKeys /\ (h.odd = {} => ~ghost /\ h = f)
  <2>1. CASE ghost
    <3>1. KeyOdd(f, {"ghost"}) \in FirmwareKeys /\ KeyOdd(f, {"ghost"}).odd = f.odd \union {"ghost"}
      BY <1>1 DEF KeyOdd, FirmwareKeys
    <3> QED BY <2>1, <3>1
  <2> QED BY <2>1
<1> HIDE DEF h
<1>3. h.odd \union {"undeleted"} \in SUBSET KeyHistory BY <1>2 DEF FirmwareKeys, KeyHistory
<1>4. CASE g = Stored(h, s, 0)
  <2>1. g \in FirmwareKeys /\ g.odd = h.odd /\ g.slot = [h.slot EXCEPT ![s] = 0]
    BY <1>2, <1>4, SlotsAre DEF Stored, FirmwareKeys
  <2> QED BY <1>2, <2>1
<1>5. CASE g = e
  <2>1. KeyOdd(h, {"undeleted"}) \in FirmwareKeys /\ KeyOdd(h, {"undeleted"}).odd = h.odd \union {"undeleted"}
    BY <1>2, <1>3 DEF KeyOdd, FirmwareKeys
  <2>2. g \in FirmwareKeys /\ g.odd = h.odd \union {"undeleted"} BY <1>5, <2>1 DEF FirmwareKeys
  <2> QED BY <2>2
<1> QED BY <1>4, <1>5 DEF Removed, h

\* A key that is not in the buffer is taken from the record.
LEMMA LastKept ==
    ASSUME NEW buf \in Buffers, NEW i \in KeyIdx, NEW old \in [KeyIdx -> Number], Covers(buf, old),
           \A b \in 1..Len(buf) : buf[b][1] # <<"gtk", i>>
    PROVE  Covers(buf, [old EXCEPT ![i] = 0])
<1> DEFINE new == [old EXCEPT ![i] = 0]
<1>1. ASSUME NEW b \in 1..Len(buf) PROVE \E j \in KeyIdx : buf[b][1] = <<"gtk", j>> /\ new[j] # 0
  <2>1. PICK j \in KeyIdx : buf[b][1] = <<"gtk", j>> /\ old[j] # 0 BY DEF Covers
  <2>2. j # i BY <2>1
  <2> QED BY <2>1, <2>2
<1>2. ASSUME NEW j \in KeyIdx, new[j] # 0
      PROVE \E b \in 1..Len(buf) : buf[b] = <<<<"gtk", j>>, new[j]>> /\ IsLast(buf, b)
  BY <1>2 DEF Covers
<1> HIDE DEF new
<1> QED BY <1>1, <1>2 DEF Covers, new

\* Every step keeps the invariant.
LEMMA KeysStep == KeysInv /\ [KeysNext]_keyVars => KeysInv'
<1> SUFFICES ASSUME KeysInv, [KeysNext]_keyVars PROVE KeysInv' OBVIOUS
<1> USE DEF KeysInv
<1>0. /\ IfaceOK(kc) /\ kf \in FirmwareKeys /\ kf.n \in Number /\ kf.slot \in [KeySlots -> Number]
  BY DEF KeysShape, FirmwareKeys
<1>b. IfaceOK(kc) /\ kf \in FirmwareKeys BY <1>0
<1>a. \A f : f = [kf EXCEPT !.n = @ + 1] /\ kf.n < MaxKeyOps =>
              f \in FirmwareKeys /\ f.slot = kf.slot /\ f.odd = kf.odd /\ f.n = kf.n + 1 /\ kf.n + 1 \in Number \ {0}
  BY <1>0, KeysAssumption DEF FirmwareKeys, Number
<1>1. CASE skw_add_key
  <2>0. PICK i \in KeyIdx : \E o \in skw_set_key(kc, Fresh, i, kf.n + 1) : kc' = o[1] /\ kf' = o[2]
    BY <1>1 DEF skw_add_key
  <2>1. PICK o \in skw_set_key(kc, Fresh, i, kf.n + 1) : kc' = o[1] /\ kf' = o[2] BY <2>0
  <2> DEFINE n == kf.n + 1
             k1 == [kc EXCEPT !.key[i] = n]
  <2>2. /\ Fresh \in FirmwareKeys /\ Fresh.slot = kf.slot /\ Fresh.odd = kf.odd /\ n \in Number \ {0}
        /\ kc.ap \/ kc.peer
    BY <1>1, <1>a DEF skw_add_key, NewKey, Fresh
  <2>3. /\ DOMAIN k1 = DOMAIN kc /\ k1.ap = kc.ap /\ k1.wep = kc.wep /\ k1.started = kc.started /\ k1.peer = kc.peer
        /\ k1.share = kc.share /\ k1.flags = kc.flags /\ k1.wepidx = kc.wepidx /\ k1.ptk = kc.ptk /\ k1.buf = kc.buf
        /\ k1.key = [kc.key EXCEPT ![i] = n]
    BY <1>0 DEF IfaceOK
  <2>4. IfaceOK(k1) BY <1>0, <2>2, <2>3 DEF IfaceOK
  <2>5. CASE kc.wep
    <3>1. kc' = [k1 EXCEPT !.share = TRUE] /\ kf' = Fresh BY <2>1, <2>5 DEF skw_set_key
    <3> HIDE DEF k1, n
    <3>2. /\ DOMAIN kc' = DOMAIN k1 /\ kc'.ap = k1.ap /\ kc'.wep = k1.wep /\ kc'.started = k1.started /\ kc'.peer = k1.peer
          /\ kc'.share = TRUE /\ kc'.flags = k1.flags /\ kc'.wepidx = k1.wepidx /\ kc'.ptk = k1.ptk /\ kc'.buf = k1.buf
          /\ kc'.key = k1.key
      BY <2>4, <3>1 DEF IfaceOK
    <3>3. IfaceOK(kc') BY <2>4, <3>2 DEF IfaceOK
    <3>4. KeysShape' BY <2>2, <3>1, <3>3 DEF KeysShape
    <3>5. PeerOK' /\ PlainKeys' /\ IdleOK'
      BY <2>2, <2>3, <2>5, <3>2 DEF PeerOK, PlainKeys, IdleOK, Starting
    <3>6. SettledOK' /\ AwaitingOK' BY <2>3, <2>5, <3>2 DEF SettledOK, AwaitingOK, Sound
    <3> QED BY <3>4, <3>5, <3>6
  <2>6. CASE ~kc.wep
    <3>1. PICK a \in skw_cmd_add_key(k1, Fresh, <<"gtk", i>>, n) :
                o = IF a[3] THEN <<a[1], a[2]>>
                    ELSE <<[a[1] EXCEPT !.key[i] = 0], IF kc.key[i] # 0 THEN KeyOdd(a[2], {"unreplaced"}) ELSE a[2]>>
      BY <2>1, <2>6 DEF skw_set_key
    <3> DEFINE s == <<"gtk", i>>
    <3>2. s \in KeySlots BY SlotsAre
    <3> HIDE DEF k1, n, s
    <3>3. a \in skw_cmd_add_key(k1, Fresh, s, n) BY DEF s
    <3>4. /\ IfaceOK(a[1]) /\ SameButBuf(a[1], k1) /\ a[2] \in FirmwareKeys /\ a[3] \in BOOLEAN
          /\ Fresh.odd \subseteq a[2].odd
          /\ ~Starting(k1) => /\ a[1] = k1 /\ a[2].odd = Fresh.odd
                              /\ a[2].slot = IF a[3] THEN [Fresh.slot EXCEPT ![s] = n] ELSE Fresh.slot
          /\ Starting(k1) /\ a[2].odd = {} => a[1].buf = Append(k1.buf, <<s, n>>) /\ a[2] = Fresh /\ a[3]
      <4>1. KeyPut(k1, Fresh, s, n, a) BY <2>2, <2>4, <3>2, <3>3, AddKey
      <4> QED BY <4>1 DEF KeyPut
    <3>5. Starting(k1) <=> Starting(kc) BY <2>3 DEF Starting
    <3>6. CASE a[3]
      <4>1. kc' = a[1] /\ kf' = a[2] BY <2>1, <3>1, <3>6
      <4>2. PeerOK' /\ PlainKeys' /\ IdleOK'
        BY <2>2, <2>3, <2>6, <3>4, <4>1 DEF PeerOK, PlainKeys, IdleOK, Starting, SameButBuf
      <4>3. SettledOK'
        <5> SUFFICES ASSUME Sound', ~Starting(kc)'
                     PROVE  (\A j \in KeyIdx : kf'.slot[<<"gtk", j>>] = kc'.key[j]) /\ kf'.slot[<<"peer", 0>>] = kc'.ptk
          BY DEF SettledOK
        <5>1. ~Starting(kc) /\ ~Starting(k1) /\ kf'.odd = {}
          BY <2>3, <3>4, <3>5, <4>1 DEF Starting, SameButBuf, Sound
        <5>2. kf'.slot = [kf.slot EXCEPT ![s] = n] /\ kf.odd = {} /\ kc'.key = [kc.key EXCEPT ![i] = n] /\ kc'.ptk = kc.ptk
          BY <2>2, <2>3, <3>4, <3>6, <4>1, <5>1
        <5>3. (\A j \in KeyIdx : kf.slot[<<"gtk", j>>] = kc.key[j]) /\ kf.slot[<<"peer", 0>>] = kc.ptk
          BY <2>6, <5>1, <5>2 DEF SettledOK, Sound
        <5>4. \A j \in KeyIdx : (s = <<"gtk", j>>) <=> (j = i) BY DEF s
        <5> QED BY <1>0, <5>2, <5>3, <5>4, SlotsAre DEF s, IfaceOK
      <4>4. AwaitingOK'
        <5> SUFFICES ASSUME Sound', Starting(kc)'
                     PROVE /\ \A t \in KeySlots : kf'.slot[t] = 0
                           /\ Covers(kc'.buf, kc'.key)
          BY DEF AwaitingOK
        <5>1. Starting(kc) /\ Starting(k1) /\ kf'.odd = {}
          BY <2>3, <3>4, <3>5, <4>1 DEF Starting, SameButBuf, Sound
        <5>2. kc'.buf = Append(kc.buf, <<s, n>>) /\ kf' = Fresh /\ kf.odd = {} /\ kc'.key = [kc.key EXCEPT ![i] = n]
          BY <2>2, <2>3, <3>4, <4>1, <5>1 DEF SameButBuf
        <5>3. (\A t \in KeySlots : kf.slot[t] = 0) /\ Covers(kc.buf, kc.key)
          BY <2>6, <5>1, <5>2 DEF AwaitingOK, Sound
        <5>4. kc.buf \in Buffers /\ kc.key \in [KeyIdx -> Number] BY <1>0 DEF IfaceOK
        <5>5. Covers(Append(kc.buf, <<<<"gtk", i>>, n>>), [kc.key EXCEPT ![i] = n])
          BY <2>2, <5>3, <5>4, LastPut
        <5> QED BY <2>2, <5>2, <5>3, <5>5 DEF s
      <4> QED BY <3>4, <4>1, <4>2, <4>3, <4>4 DEF KeysShape
    <3>7. CASE ~a[3]
      <4> DEFINE e == [a[1] EXCEPT !.key[i] = 0]
      <4>1. kc' = e /\ kf' = IF kc.key[i] # 0 THEN KeyOdd(a[2], {"unreplaced"}) ELSE a[2]
        BY <2>1, <3>1, <3>7
      <4>2. /\ DOMAIN e = DOMAIN a[1] /\ e.ap = a[1].ap /\ e.wep = a[1].wep /\ e.started = a[1].started /\ e.peer = a[1].peer
            /\ e.share = a[1].share /\ e.flags = a[1].flags /\ e.wepidx = a[1].wepidx /\ e.ptk = a[1].ptk /\ e.buf = a[1].buf
            /\ e.key = [a[1].key EXCEPT ![i] = 0]
        BY <3>4 DEF IfaceOK
      <4> HIDE DEF e
      <4>3. IfaceOK(e) BY <3>4, <4>2, SlotsAre DEF IfaceOK
      <4>4. a[2].odd \union {"unreplaced"} \in SUBSET KeyHistory BY <3>4 DEF FirmwareKeys, KeyHistory
      <4>5. kf' \in FirmwareKeys /\ (kf'.odd = {} => kc.key[i] = 0 /\ kf' = a[2] /\ a[2].odd = {})
        <5>1. CASE kc.key[i] = 0 BY <3>4, <4>1, <5>1
        <5>2. CASE kc.key[i] # 0
          <6>1. kf' = KeyOdd(a[2], {"unreplaced"}) BY <4>1, <5>2
          <6>2. kf' \in FirmwareKeys /\ kf'.odd = a[2].odd \union {"unreplaced"}
            BY <3>4, <4>4, <6>1 DEF KeyOdd, FirmwareKeys
          <6> QED BY <6>2
        <5> QED BY <5>1, <5>2
      <4>6. PeerOK' /\ PlainKeys'
        BY <2>2, <2>3, <2>6, <3>4, <4>1, <4>2 DEF PeerOK, PlainKeys, Starting, SameButBuf
      <4>7. IdleOK' BY <2>2, <2>3, <3>4, <4>1, <4>2 DEF IdleOK, SameButBuf
      <4>8. SettledOK'
        <5> SUFFICES ASSUME Sound', ~Starting(kc)'
                     PROVE  (\A j \in KeyIdx : kf'.slot[<<"gtk", j>>] = kc'.key[j]) /\ kf'.slot[<<"peer", 0>>] = kc'.ptk
          BY DEF SettledOK
        <5>1. ~Starting(kc) /\ ~Starting(k1) /\ kf'.odd = {}
          BY <2>3, <3>4, <3>5, <4>1, <4>2 DEF Starting, SameButBuf, Sound
        <5>2. kf'.slot = kf.slot /\ kf.odd = {} /\ kc.key[i] = 0 /\ kc'.ptk = kc.ptk
          BY <2>2, <2>3, <3>4, <3>7, <4>1, <4>2, <4>5, <5>1 DEF SameButBuf
        <5>3. \A j \in KeyIdx : kc'.key[j] = kc.key[j]
          BY <1>0, <2>3, <3>4, <4>1, <4>2, <5>2 DEF SameButBuf, IfaceOK
        <5>4. (\A j \in KeyIdx : kf.slot[<<"gtk", j>>] = kc.key[j]) /\ kf.slot[<<"peer", 0>>] = kc.ptk
          BY <2>6, <5>1, <5>2 DEF SettledOK, Sound
        <5> QED BY <5>2, <5>3, <5>4
      <4>9. AwaitingOK'
        <5> SUFFICES ASSUME Sound', Starting(kc)' PROVE FALSE BY DEF AwaitingOK
        <5>1. Starting(k1) /\ kf'.odd = {} BY <3>4, <4>1, <4>2 DEF Starting, SameButBuf, Sound
        <5> QED BY <3>4, <3>7, <4>5, <5>1
      <4> QED BY <4>1, <4>3, <4>5, <4>6, <4>7, <4>8, <4>9 DEF KeysShape
    <3> QED BY <3>4, <3>6, <3>7
  <2> QED BY <1>0, <2>5, <2>6 DEF IfaceOK
<1>2. CASE AddPairwise
  <2> DEFINE n == kf.n + 1
             s == <<"peer", 0>>
  <2>1. PICK o \in skw_cmd_add_key(kc, Fresh, s, n) :
          /\ kc' = [o[1] EXCEPT !.ptk = IF o[3] THEN n ELSE 0]
          /\ kf' = IF ~o[3] /\ kc.ptk # 0 THEN KeyOdd(o[2], {"unreplaced"}) ELSE o[2]
    BY <1>2 DEF AddPairwise
  <2>2. /\ Fresh \in FirmwareKeys /\ Fresh.slot = kf.slot /\ Fresh.odd = kf.odd /\ n \in Number \ {0}
        /\ kc.peer /\ ~kc.wep /\ s \in KeySlots
    BY <1>2, <1>a, SlotsAre DEF AddPairwise, NewKey, Fresh
  <2> HIDE DEF n, s
  <2>3. ~Starting(kc) BY <2>2 DEF PeerOK
  <2>4. /\ o[1] = kc /\ o[2] \in FirmwareKeys /\ o[3] \in BOOLEAN /\ o[2].odd = kf.odd
        /\ o[2].slot = IF o[3] THEN [kf.slot EXCEPT ![s] = n] ELSE kf.slot
    <3>1. KeyPut(kc, Fresh, s, n, o) BY <1>0, <2>2, AddKey
    <3> QED BY <2>2, <2>3, <3>1 DEF KeyPut
  <2>5. /\ DOMAIN kc' = DOMAIN kc /\ kc'.ap = kc.ap /\ kc'.wep = kc.wep /\ kc'.started = kc.started /\ kc'.peer = kc.peer
        /\ kc'.share = kc.share /\ kc'.flags = kc.flags /\ kc'.wepidx = kc.wepidx /\ kc'.key = kc.key /\ kc'.buf = kc.buf
        /\ kc'.ptk = IF o[3] THEN n ELSE 0
    BY <1>0, <2>1, <2>4 DEF IfaceOK
  <2>6. IfaceOK(kc') BY <1>0, <2>2, <2>5, SlotsAre DEF IfaceOK
  <2>7. o[2].odd \union {"unreplaced"} \in SUBSET KeyHistory BY <2>4 DEF FirmwareKeys, KeyHistory
  <2>8. kf' \in FirmwareKeys /\ (kf'.odd = {} => kf' = o[2] /\ (o[3] \/ kc.ptk = 0))
    <3>1. CASE ~o[3] /\ kc.ptk # 0
      <4>1. kf' = KeyOdd(o[2], {"unreplaced"}) BY <2>1, <3>1
      <4>2. kf' \in FirmwareKeys /\ kf'.odd = o[2].odd \union {"unreplaced"}
        BY <2>4, <2>7, <4>1 DEF KeyOdd, FirmwareKeys
      <4> QED BY <4>2
    <3>2. CASE ~(~o[3] /\ kc.ptk # 0) BY <2>1, <2>4, <3>2
    <3> QED BY <3>1, <3>2
  <2>9. PeerOK' /\ PlainKeys' /\ IdleOK' BY <2>2, <2>5 DEF PeerOK, PlainKeys, IdleOK, Starting
  <2>10. SettledOK'
    <3> SUFFICES ASSUME Sound'
                 PROVE  (\A j \in KeyIdx : kf'.slot[<<"gtk", j>>] = kc'.key[j]) /\ kf'.slot[s] = kc'.ptk
      BY DEF SettledOK, s
    <3>1. kf' = o[2] /\ kf.odd = {} /\ (o[3] \/ kc.ptk = 0) BY <2>4, <2>8 DEF Sound
    <3>2. (\A j \in KeyIdx : kf.slot[<<"gtk", j>>] = kc.key[j]) /\ kf.slot[s] = kc.ptk
      BY <2>2, <2>3, <3>1 DEF SettledOK, Sound, s
    <3>3. \A j \in KeyIdx : <<"gtk", j>> # s BY SlotsAre DEF s
    <3> QED BY <1>0, <2>2, <2>4, <2>5, <3>1, <3>2, <3>3, SlotsAre
  <2>11. AwaitingOK' BY <2>3, <2>5 DEF AwaitingOK, Starting
  <2> QED BY <2>6, <2>8, <2>9, <2>10, <2>11 DEF KeysShape
<1>3. CASE skw_del_key
  <2>1. CASE \E i \in KeyIdx : /\ kc.key[i] # 0 /\ kf' \in Removed(kc, kf, <<"gtk", i>>)
                               /\ kc' = [kc EXCEPT !.key[i] = 0, !.share = FALSE, !.flags = IF kc.share THEN {} ELSE @]
    <3>1. PICK i \in KeyIdx : /\ kc.key[i] # 0 /\ kf' \in Removed(kc, kf, <<"gtk", i>>)
                              /\ kc' = [kc EXCEPT !.key[i] = 0, !.share = FALSE, !.flags = IF kc.share THEN {} ELSE @]
      BY <2>1
    <3> DEFINE s == <<"gtk", i>>
    <3>2. s \in KeySlots BY SlotsAre
    <3> HIDE DEF s
    <3>3. /\ kf' \in FirmwareKeys
          /\ kf'.odd = {} => kf.odd = {} /\ kf'.slot = [kf.slot EXCEPT ![s] = 0] /\ \A b \in 1..Len(kc.buf) : kc.buf[b][1] # s
      <4>1. PICK g \in Removed(kc, kf, s) : kf' = g BY <3>1 DEF s
      <4>2. KeyDropped(kc, kf, s, g) BY <1>b, <3>2, RemovedIs
      <4> QED BY <4>1, <4>2 DEF KeyDropped
    <3>4. /\ DOMAIN kc' = DOMAIN kc /\ kc'.ap = kc.ap /\ kc'.wep = kc.wep /\ kc'.started = kc.started /\ kc'.peer = kc.peer
          /\ kc'.share = FALSE /\ kc'.flags \subseteq kc.flags /\ kc'.wepidx = kc.wepidx /\ kc'.ptk = kc.ptk /\ kc'.buf = kc.buf
          /\ kc'.key = [kc.key EXCEPT ![i] = 0]
      BY <1>0, <3>1 DEF IfaceOK
    <3>5. IfaceOK(kc') BY <1>0, <3>4, SlotsAre DEF IfaceOK
    <3>6. PeerOK' /\ PlainKeys' /\ IdleOK'
      BY <1>0, <3>4 DEF PeerOK, PlainKeys, IdleOK, Starting, IfaceOK
    <3>7. SettledOK'
      <4> SUFFICES ASSUME Sound', ~Starting(kc)'
                   PROVE  (\A j \in KeyIdx : kf'.slot[<<"gtk", j>>] = kc'.key[j]) /\ kf'.slot[<<"peer", 0>>] = kc'.ptk
        BY DEF SettledOK
      <4>1. Sound /\ ~Starting(kc) /\ kf'.slot = [kf.slot EXCEPT ![s] = 0]
        BY <3>3, <3>4 DEF Sound, Starting
      <4>2. (\A j \in KeyIdx : kf.slot[<<"gtk", j>>] = kc.key[j]) /\ kf.slot[<<"peer", 0>>] = kc.ptk
        BY <4>1 DEF SettledOK
      <4>3. \A j \in KeyIdx : (s = <<"gtk", j>>) <=> (j = i) BY DEF s
      <4> QED BY <1>0, <3>4, <4>1, <4>2, <4>3, SlotsAre DEF s, IfaceOK
    <3>8. AwaitingOK'
      <4> SUFFICES ASSUME Sound', Starting(kc)'
                   PROVE  (\A t \in KeySlots : kf'.slot[t] = 0) /\ Covers(kc'.buf, kc'.key)
        BY DEF AwaitingOK
      <4>1. /\ Sound /\ Starting(kc) /\ kf'.slot = [kf.slot EXCEPT ![s] = 0]
            /\ \A b \in 1..Len(kc.buf) : kc.buf[b][1] # s
        BY <3>3, <3>4 DEF Sound, Starting
      <4>2. (\A t \in KeySlots : kf.slot[t] = 0) /\ Covers(kc.buf, kc.key) BY <4>1 DEF AwaitingOK
      <4>3. \A t \in KeySlots : kf'.slot[t] = 0 BY <1>0, <4>1, <4>2
      <4>4. kc.buf \in Buffers /\ kc.key \in [KeyIdx -> Number] BY <1>0 DEF IfaceOK
      <4>5. Covers(kc.buf, [kc.key EXCEPT ![i] = 0]) BY <4>1, <4>2, <4>4, LastKept DEF s
      <4> QED BY <3>4, <4>3, <4>5
    <3> QED BY <3>3, <3>5, <3>6, <3>7, <3>8 DEF KeysShape
  <2>2. CASE kc.peer /\ kc.ptk # 0 /\ kf' \in Removed(kc, kf, <<"peer", 0>>) /\ kc' = [kc EXCEPT !.ptk = 0]
    <3> DEFINE s == <<"peer", 0>>
    <3>1. s \in KeySlots BY SlotsAre
    <3> HIDE DEF s
    <3>2. ~Starting(kc) BY <2>2 DEF PeerOK
    <3>3. kf' \in FirmwareKeys /\ (kf'.odd = {} => kf.odd = {} /\ kf'.slot = [kf.slot EXCEPT ![s] = 0])
      <4>1. PICK g \in Removed(kc, kf, s) : kf' = g BY <2>2 DEF s
      <4>2. KeyDropped(kc, kf, s, g) BY <1>b, <3>1, RemovedIs
      <4> QED BY <4>1, <4>2 DEF KeyDropped
    <3>4. /\ DOMAIN kc' = DOMAIN kc /\ kc'.ap = kc.ap /\ kc'.wep = kc.wep /\ kc'.started = kc.started /\ kc'.peer = kc.peer
          /\ kc'.share = kc.share /\ kc'.flags = kc.flags /\ kc'.wepidx = kc.wepidx /\ kc'.ptk = 0 /\ kc'.buf = kc.buf
          /\ kc'.key = kc.key
      BY <1>0, <2>2 DEF IfaceOK
    <3>5. IfaceOK(kc') BY <1>0, <3>4, SlotsAre DEF IfaceOK
    <3>6. PeerOK' /\ PlainKeys' /\ IdleOK' /\ AwaitingOK'
      BY <3>2, <3>4 DEF PeerOK, PlainKeys, IdleOK, AwaitingOK, Starting
    <3>7. SettledOK'
      <4> SUFFICES ASSUME Sound'
                   PROVE  (\A j \in KeyIdx : kf'.slot[<<"gtk", j>>] = kc'.key[j]) /\ kf'.slot[s] = kc'.ptk
        BY DEF SettledOK, s
      <4>1. Sound /\ kf'.slot = [kf.slot EXCEPT ![s] = 0] BY <3>3, <3>4 DEF Sound
      <4>2. \A j \in KeyIdx : kf.slot[<<"gtk", j>>] = kc.key[j] BY <3>2, <4>1 DEF SettledOK
      <4>3. \A j \in KeyIdx : <<"gtk", j>> # s BY SlotsAre DEF s
      <4> QED BY <1>0, <3>1, <3>4, <4>1, <4>2, <4>3, SlotsAre
    <3> QED BY <3>3, <3>5, <3>6, <3>7 DEF KeysShape
  <2> QED BY <1>3, <2>1, <2>2 DEF skw_del_key
<1>4. CASE skw_set_default_key
  <2>1. PICK i \in KeyIdx, kinds \in {{"ptk"}, {"gtk"}, {"ptk", "gtk"}} :
           kf.n < MaxKeyOps /\ \E o \in Defaulted(kc, Fresh, i, kinds) : kc' = o[1] /\ kf' = o[2]
    BY <1>4 DEF skw_set_default_key
  <2>2. PICK o \in Defaulted(kc, Fresh, i, kinds) : kc' = o[1] /\ kf' = o[2] BY <2>1
  <2>3. Fresh \in FirmwareKeys /\ kinds \in SUBSET {"ptk", "gtk"} /\ kc.wep
    BY <1>4, <1>a, <2>1 DEF Fresh, skw_set_default_key
  <2>4. /\ IfaceOK(o[1]) /\ o[2] \in FirmwareKeys /\ o[1].ap = kc.ap /\ o[1].wep = kc.wep
        /\ o[1].started = kc.started /\ o[1].peer = kc.peer /\ o[1].ptk = kc.ptk /\ o[1].key = kc.key
    <3>1. DefaultPut(kc, o) BY <1>b, <2>3, DefaultKey
    <3> QED BY <3>1 DEF DefaultPut
  <2>5. PeerOK' /\ PlainKeys' /\ IdleOK' /\ SettledOK' /\ AwaitingOK'
    BY <2>2, <2>3, <2>4 DEF PeerOK, PlainKeys, IdleOK, SettledOK, AwaitingOK, Sound, Starting
  <2> QED BY <2>2, <2>4, <2>5 DEF KeysShape
<1>5. CASE skw_start_ap_keys
  <2>1. PICK o \in IF kc.flags = {} THEN {<<kc, kf>>} ELSE Defaulted(kc, kf, kc.wepidx, kc.flags) :
          kf' \in Flushed(o[2], o[1].buf) /\ kc' = [o[1] EXCEPT !.buf = <<>>, !.started = TRUE]
    BY <1>5 DEF skw_start_ap_keys
  <2>2. /\ IfaceOK(o[1]) /\ o[2] \in FirmwareKeys /\ o[1].ap = kc.ap /\ o[1].wep = kc.wep
        /\ o[1].started = kc.started /\ o[1].peer = kc.peer /\ o[1].ptk = kc.ptk /\ o[1].key = kc.key
    <3>1. CASE kc.flags = {} BY <1>0, <2>1, <3>1
    <3>2. CASE kc.flags # {}
      <4>1. kc.wepidx \in KeyIdx /\ kc.flags \in SUBSET {"ptk", "gtk"} /\ o \in Defaulted(kc, kf, kc.wepidx, kc.flags)
        BY <1>0, <2>1, <3>2 DEF IfaceOK
      <4> QED
        <5>1. DefaultPut(kc, o) BY <1>b, <4>1, DefaultKey
        <5> QED BY <5>1 DEF DefaultPut
    <3> QED BY <3>1, <3>2
  <2>3. Starting(kc) /\ ~kc.peer /\ kc.ptk = 0 /\ kc.ap
    BY <1>5 DEF skw_start_ap_keys, Starting, PeerOK
  <2>4. /\ DOMAIN kc' = DOMAIN o[1] /\ kc'.ap = o[1].ap /\ kc'.wep = o[1].wep /\ kc'.started = TRUE /\ kc'.peer = o[1].peer
        /\ kc'.share = o[1].share /\ kc'.flags = o[1].flags /\ kc'.wepidx = o[1].wepidx /\ kc'.ptk = o[1].ptk /\ kc'.buf = <<>>
        /\ kc'.key = o[1].key
    BY <2>1, <2>2 DEF IfaceOK
  <2>5. <<>> \in Buffers /\ Len(<<>>) <= MaxBufKeys BY KeysAssumption DEF Buffers
  <2>6. IfaceOK(kc') BY <2>2, <2>4, <2>5 DEF IfaceOK
  <2>7. o[1].buf \in Buffers BY <2>2 DEF IfaceOK
  <2>8. kf' \in FirmwareKeys /\ (kf'.odd = {} => o[2].odd = {} /\ kf' = Sent(o[2], o[1].buf)[Len(o[1].buf)])
    BY <2>1, <2>2, <2>7, FlushedIs
  <2>9. ~kc.wep => o = <<kc, kf>> /\ kc'.flags = {} /\ kc'.share = FALSE
    BY <1>0, <2>1, <2>4 DEF PlainKeys, IfaceOK
  <2>10. PeerOK' /\ PlainKeys' /\ IdleOK' /\ AwaitingOK'
    BY <2>2, <2>3, <2>4, <2>9 DEF PeerOK, PlainKeys, IdleOK, AwaitingOK, Starting
  <2>11. SettledOK'
    <3> SUFFICES ASSUME Sound'
                 PROVE  (\A j \in KeyIdx : kf'.slot[<<"gtk", j>>] = kc'.key[j]) /\ kf'.slot[<<"peer", 0>>] = kc'.ptk
      BY DEF SettledOK
    <3> DEFINE buf == kc.buf
    <3>1. ~kc.wep /\ o = <<kc, kf>> /\ kf.odd = {} /\ kf' = Sent(kf, buf)[Len(buf)]
      BY <2>2, <2>4, <2>8, <2>9 DEF Sound
    <3>2. buf \in Buffers /\ Len(buf) \in Nat BY <1>0 DEF IfaceOK, Buffers
    <3>3. (\A t \in KeySlots : kf.slot[t] = 0) /\ Covers(buf, kc.key)
      BY <2>3, <3>1 DEF AwaitingOK, Sound
    <3> HIDE DEF buf
    <3>4. \A s \in KeySlots : \/ kf'.slot[s] = 0 /\ \A c \in 1..Len(buf) : buf[c][1] # s
                              \/ \E c \in 1..Len(buf) : /\ buf[c] = <<s, kf'.slot[s]>>
                                                       /\ \A d \in 1..Len(buf) : d > c => buf[d][1] # s
      <4> DEFINE f == kf
                 g == Sent(f, buf)[Len(buf)]
      <4>1. f \in FirmwareKeys /\ Len(buf) \in 0..Len(buf) /\ g = kf' BY <1>0, <3>1, <3>2
      <4>2. \A s \in KeySlots : \/ g.slot[s] = f.slot[s] /\ \A c \in 1..Len(buf) : buf[c][1] # s
                                \/ \E c \in 1..Len(buf) : /\ buf[c] = <<s, g.slot[s]>>
                                                         /\ \A d \in 1..Len(buf) : d > c => buf[d][1] # s
        BY <1>0, <3>2, <4>1, SentKeeps
      <4> QED BY <3>3, <4>1, <4>2
    <3>5. kf'.slot[<<"peer", 0>>] = 0
      <4>1. \A b \in 1..Len(buf) : buf[b][1] # <<"peer", 0>> BY <3>3 DEF Covers
      <4>2. ~\E c \in 1..Len(buf) : buf[c] = <<<<"peer", 0>>, kf'.slot[<<"peer", 0>>]>> BY <4>1
      <4> QED BY <3>4, <4>2, SlotsAre
    <3>6. ASSUME NEW j \in KeyIdx PROVE kf'.slot[<<"gtk", j>>] = kc.key[j]
      <4> DEFINE s == <<"gtk", j>>
      <4>1. s \in KeySlots BY SlotsAre
      <4>2. CASE kc.key[j] = 0
        <5>1. ASSUME NEW b \in 1..Len(buf) PROVE buf[b][1] # s
          <6>1. PICK i \in KeyIdx : buf[b][1] = <<"gtk", i>> /\ kc.key[i] # 0 BY <3>3 DEF Covers
          <6> QED BY <4>2, <6>1
        <5>2. ~\E c \in 1..Len(buf) : buf[c] = <<s, kf'.slot[s]>> BY <5>1
        <5> HIDE DEF s
        <5>3. kf'.slot[s] = 0 BY <3>4, <4>1, <5>2
        <5> QED BY <4>2, <5>3 DEF s
      <4>3. CASE kc.key[j] # 0
        <5>1. PICK b \in 1..Len(buf) : buf[b] = <<s, kc.key[j]>> /\ IsLast(buf, b)
          BY <3>3, <4>3 DEF Covers
        <5> HIDE DEF s
        <5>2. buf[b][1] = s BY <5>1
        <5>3. PICK c \in 1..Len(buf) : /\ buf[c] = <<s, kf'.slot[s]>>
                                        /\ \A d \in 1..Len(buf) : d > c => buf[d][1] # s
          BY <3>4, <4>1, <5>2
        <5>4. buf[c][1] = s /\ buf[c][2] = kf'.slot[s] /\ buf[b][2] = kc.key[j] BY <5>1, <5>3
        <5>5. ~(c > b) /\ ~(b > c) BY <5>1, <5>2, <5>3, <5>4 DEF IsLast
        <5>6. b = c BY <3>2, <5>5
        <5> QED BY <5>4, <5>6 DEF s
      <4> QED BY <4>2, <4>3
    <3> QED BY <2>2, <2>3, <2>4, <3>5, <3>6
  <2> QED BY <2>6, <2>8, <2>10, <2>11 DEF KeysShape
<1>6. CASE skw_set_sta_wep_key
  <2>1. ~kc.peer /\ ~Starting(kc) BY <1>6 DEF skw_set_sta_wep_key, Starting
  <2>2. CASE kc.ap /\ kc.share /\ skw_key_idx(kc) # {}
    <3>1. PICK i \in skw_key_idx(kc) : \E o \in skw_cmd_add_key(kc, kf, <<"peer", 0>>, kc.key[i]) :
             kc' = [o[1] EXCEPT !.peer = TRUE] /\ kf' = o[2]
      BY <1>6, <2>2 DEF skw_set_sta_wep_key
    <3>2. PICK o \in skw_cmd_add_key(kc, kf, <<"peer", 0>>, kc.key[i]) : kc' = [o[1] EXCEPT !.peer = TRUE] /\ kf' = o[2]
      BY <3>1
    <3>3. kc.key[i] \in Number /\ <<"peer", 0>> \in KeySlots
      BY <1>0, SlotsAre DEF IfaceOK, skw_key_idx
    <3> DEFINE s == <<"peer", 0>>
               n == kc.key[i]
    <3>4. o[1] = kc /\ o[2] \in FirmwareKeys
      <4>1. s \in KeySlots /\ n \in Number /\ o \in skw_cmd_add_key(kc, kf, s, n) BY <3>3
      <4> HIDE DEF s, n
      <4>2. KeyPut(kc, kf, s, n, o) BY <1>b, <4>1, AddKey
      <4> QED BY <2>1, <4>2 DEF KeyPut
    <3>5. /\ DOMAIN kc' = DOMAIN kc /\ kc'.ap = kc.ap /\ kc'.wep = kc.wep /\ kc'.started = kc.started /\ kc'.peer = TRUE
          /\ kc'.share = kc.share /\ kc'.flags = kc.flags /\ kc'.wepidx = kc.wepidx /\ kc'.ptk = kc.ptk /\ kc'.buf = kc.buf
          /\ kc'.key = kc.key
      BY <1>0, <3>2, <3>4 DEF IfaceOK
    <3>6. IfaceOK(kc') BY <1>0, <3>5 DEF IfaceOK
    <3>7. kc.wep BY <2>2 DEF PlainKeys
    <3>8. PeerOK' /\ PlainKeys' /\ IdleOK' /\ SettledOK' /\ AwaitingOK'
      BY <2>1, <3>5, <3>7 DEF PeerOK, PlainKeys, IdleOK, SettledOK, AwaitingOK, Sound, Starting
    <3> QED BY <3>2, <3>4, <3>6, <3>8 DEF KeysShape
  <2>3. CASE ~(kc.ap /\ kc.share /\ skw_key_idx(kc) # {})
    <3>1. kc' = [kc EXCEPT !.peer = TRUE] /\ kf' = kf BY <1>6, <2>3 DEF skw_set_sta_wep_key
    <3>2. /\ DOMAIN kc' = DOMAIN kc /\ kc'.ap = kc.ap /\ kc'.wep = kc.wep /\ kc'.started = kc.started /\ kc'.peer = TRUE
          /\ kc'.share = kc.share /\ kc'.flags = kc.flags /\ kc'.wepidx = kc.wepidx /\ kc'.ptk = kc.ptk /\ kc'.buf = kc.buf
          /\ kc'.key = kc.key
      BY <1>0, <3>1 DEF IfaceOK
    <3>3. IfaceOK(kc') BY <1>0, <3>2 DEF IfaceOK
    <3>4. PeerOK' /\ PlainKeys' /\ IdleOK' /\ SettledOK' /\ AwaitingOK'
      BY <2>1, <3>1, <3>2 DEF PeerOK, PlainKeys, IdleOK, SettledOK, AwaitingOK, Sound, Starting
    <3> QED BY <1>0, <3>1, <3>3, <3>4 DEF KeysShape
  <2> QED BY <2>2, <2>3
<1>7. CASE PeerLeaves
  <2>1. kc.ap /\ kc.peer /\ kc' = [kc EXCEPT !.peer = FALSE, !.ptk = 0] /\ kf' = Stored(kf, <<"peer", 0>>, 0) /\ ~Starting(kc)
    BY <1>7 DEF PeerLeaves, PeerOK
  <2>2. /\ DOMAIN kc' = DOMAIN kc /\ kc'.ap = kc.ap /\ kc'.wep = kc.wep /\ kc'.started = kc.started /\ kc'.peer = FALSE
        /\ kc'.share = kc.share /\ kc'.flags = kc.flags /\ kc'.wepidx = kc.wepidx /\ kc'.ptk = 0 /\ kc'.buf = kc.buf
        /\ kc'.key = kc.key
    BY <1>0, <2>1 DEF IfaceOK
  <2>3. IfaceOK(kc') BY <1>0, <2>2, SlotsAre DEF IfaceOK
  <2>4. kf' \in FirmwareKeys /\ kf'.slot = [kf.slot EXCEPT ![<<"peer", 0>>] = 0] /\ kf'.odd = kf.odd
    BY <1>0, <2>1, SlotsAre, StoredIs
  <2>5. PeerOK' /\ PlainKeys' /\ IdleOK' /\ AwaitingOK'
    BY <2>1, <2>2 DEF PeerOK, PlainKeys, IdleOK, AwaitingOK, Starting
  <2>6. SettledOK'
    <3> SUFFICES ASSUME Sound'
                 PROVE  (\A j \in KeyIdx : kf'.slot[<<"gtk", j>>] = kc'.key[j]) /\ kf'.slot[<<"peer", 0>>] = kc'.ptk
      BY DEF SettledOK
    <3>1. \A j \in KeyIdx : kf.slot[<<"gtk", j>>] = kc.key[j] BY <2>1, <2>2, <2>4 DEF SettledOK, Sound
    <3> QED BY <1>0, <2>2, <2>4, <3>1, SlotsAre
  <2> QED BY <2>3, <2>4, <2>5, <2>6 DEF KeysShape
<1>8. CASE skw_purge_key_conf
  <2>1. /\ IF kc.ap THEN kc.started /\ ~kc.peer ELSE kc.peer
        /\ kc' = [kc EXCEPT !.key = NoKeys, !.ptk = 0, !.share = FALSE, !.flags = {}, !.started = FALSE, !.peer = FALSE]
        /\ kf' = [kf EXCEPT !.slot = [s \in KeySlots |-> 0], !.odd = {}]
    BY <1>8 DEF skw_purge_key_conf
  <2>2. /\ DOMAIN kc' = DOMAIN kc /\ kc'.ap = kc.ap /\ kc'.wep = kc.wep /\ kc'.started = FALSE /\ kc'.peer = FALSE
        /\ kc'.share = FALSE /\ kc'.flags = {} /\ kc'.wepidx = kc.wepidx /\ kc'.ptk = 0 /\ kc'.buf = kc.buf
        /\ kc'.key = NoKeys
    BY <1>0, <2>1 DEF IfaceOK
  <2>3. kc.buf = <<>> BY <1>0, <2>1 DEF IfaceOK
  <2>4. IfaceOK(kc') BY <1>0, <2>2, <2>3, SlotsAre DEF IfaceOK, NoKeys
  <2>5. kf' \in FirmwareKeys /\ \A s \in KeySlots : kf'.slot[s] = 0
    BY <1>0, <2>1, SlotsAre DEF FirmwareKeys
  <2>6. PeerOK' /\ PlainKeys' /\ IdleOK' BY <2>2 DEF PeerOK, PlainKeys, IdleOK, NoKeys
  <2>7. SettledOK' BY <2>2, <2>5, SlotsAre DEF SettledOK, NoKeys
  <2>8. AwaitingOK'
    <3>1. Covers(<<>>, NoKeys) BY DEF Covers, NoKeys
    <3> QED BY <2>2, <2>3, <2>5, <3>1 DEF AwaitingOK
  <2> QED BY <2>4, <2>5, <2>6, <2>7, <2>8 DEF KeysShape
<1>9. CASE UNCHANGED keyVars
  <2>1. kc' = kc /\ kf' = kf BY <1>9 DEF keyVars
  <2> QED BY <1>0, <2>1 DEF KeysShape, PeerOK, PlainKeys, IdleOK, SettledOK, AwaitingOK, Sound,
       Starting
<1> QED BY <1>1, <1>2, <1>3, <1>4, <1>5, <1>6, <1>7, <1>8, <1>9 DEF KeysNext

\* The invariant holds in every behaviour.
LEMMA KeysInvariance == KeysSpec => []KeysInv
  BY KeysBegin, KeysStep, PTL DEF KeysSpec

\* What KeysAgree says follows.
LEMMA KeysAgreement == KeysInv => KeysAgree
<1> SUFFICES ASSUME KeysInv PROVE KeysAgree OBVIOUS
<1> USE DEF KeysInv
<1> DEFINE active == IF kc.ap THEN kc.started ELSE kc.peer
<1>1. active => kc.buf = <<>> BY DEF KeysShape, IfaceOK
<1>2. active /\ ~kc.wep /\ kf.odd = {} =>
        /\ \A i \in KeyIdx : kf.slot[<<"gtk", i>>] = kc.key[i]
        /\ kf.slot[<<"peer", 0>>] = kc.ptk
  BY DEF SettledOK, Sound, Starting
<1>3. kc.ap /\ ~kc.started /\ ~kc.wep /\ kf.odd = {} =>
        \A i \in KeyIdx : kc.key[i] # 0 => \E b \in 1..Len(kc.buf) : kc.buf[b] = <<<<"gtk", i>>, kc.key[i]>>
  BY DEF AwaitingOK, Sound, Starting, Covers
<1> QED BY <1>1, <1>2, <1>3 DEF KeysAgree

\* Where no key was refused, lost or buffered twice, what the firmware
\* encrypts with is the driver's record of the keys, and a key set before
\* the AP starts waits in the buffer (skw_add_key, skw_del_key,
\* skw_start_ap): for any key indices, key numbers and size of the buffer.
THEOREM KeysMatch == KeysSpec => []KeysAgree
  BY KeysInvariance, KeysAgreement, PTL

\* The shape of the records is their type.
LEMMA KeysTypes == KeysInv => KeysTypeOK
  BY DEF KeysInv, KeysShape, IfaceOK, FirmwareKeys, KeysTypeOK

\* The keys' state keeps its type.
THEOREM KeysTyping == KeysSpec => []KeysTypeOK
  BY KeysInvariance, KeysTypes, PTL

-----------------------------------------------------------------------------
\* The station.  Its record: the BSS it is bound to is a peer, the
\* connection that is queued or retried names a BSS.
StaFields == {"ext", "locked", "state", "bssid", "peers", "active", "told", "rty", "retry", "redo", "atype", "confirm",
              "report", "cbss", "timer", "work", "pend", "asked", "conn"}
MaxTries == IF MaxAuthRetry > MaxAssocRetry THEN MaxAuthRetry ELSE MaxAssocRetry
ConnOK(c) == /\ DOMAIN c = {"bssid", "type", "auto", "queued"} /\ c.bssid \in BssOrNone
             /\ c.queued \/ c.auto => c.bssid \in Bss
StaRecord(s) ==
    /\ DOMAIN s = StaFields /\ s.state \in Busy \union {"NONE"} /\ s.rty \in {"NONE", "AUTH", "ASSOC"}
    /\ s.bssid \in BssOrNone /\ s.told \in BssOrNone /\ s.peers \subseteq Bss /\ s.active \subseteq s.peers
    /\ s.retry \in 0..MaxTries /\ s.redo \in 0..MaxRedo /\ s.asked \subseteq {"auth", "assoc"} \X Bss
    /\ s.bssid # "none" => s.bssid \in s.peers
    /\ ConnOK(s.conn)
\* A retry is still to be made while the timer or its work is under way.
Paced(s) == s.timer \/ s.work => s.retry < MaxTries
\* A station that is connecting or connected is bound to a BSS.
StaBoundIn(s) == s.state \in Busy => s.bssid # "none"
\* At most one leave waits for the firmware.
PendOK(s) == s.pend = {} \/ \E p \in s.pend : s.pend = {p} /\ p.then \in Thens
\* What the firmware reports.
StaMessages == [kind : {"auth", "assoc", "deauth", "disconnect", "cqm"}, bssid : Bss, ok : BOOLEAN]
\* The inductive invariant.
StaInv == StaRecord(sta) /\ Paced(sta) /\ PendOK(sta) /\ staEv \in Seq(StaMessages) /\ staOps \in 0..MaxStaOps
\* What a step on the record leaves alone: the retries and what they wait for.
StaCalm(t, s) ==
    /\ t.retry = s.retry /\ t.redo = s.redo /\ t.rty = s.rty /\ t.conn = s.conn /\ t.atype = s.atype
    /\ (t.timer <=> s.timer) /\ (t.work <=> s.work) /\ t.pend = s.pend /\ t.cbss = s.cbss /\ t.ext = s.ext
\* What a whole operation keeps.
StaKept(t, s) == /\ StaRecord(t) /\ t.pend = s.pend /\ (Paced(s) => Paced(t))
                 /\ (StaBoundIn(s) => StaBoundIn(t))

\* The larger of the two bounds on retries.
LEMMA TriesArePositive == MaxTries \in Nat \ {0} /\ MaxTries <= MaxAuthRetry + MaxAssocRetry
  BY StaAssumption DEF MaxTries

\* A frame is sent to the BSS the station is bound to, if it is.
LEMMA AskIs ==
    ASSUME NEW s, StaRecord(s), NEW kind \in {"auth", "assoc"}
    PROVE  StaRecord(Ask(s, kind)) /\ StaCalm(Ask(s, kind), s) /\ Ask(s, kind).state = s.state /\ Ask(s, kind).bssid = s.bssid
<1> DEFINE t == [s EXCEPT !.asked = s.asked \union {<<kind, s.bssid>>}]
<1>1. CASE s.bssid = "none" BY <1>1 DEF Ask, StaCalm
<1>2. CASE s.bssid # "none"
  <2>1. Ask(s, kind) = t BY <1>2 DEF Ask
  <2>2. s.asked \union {<<kind, s.bssid>>} \subseteq {"auth", "assoc"} \X Bss
    BY <1>2 DEF StaRecord, BssOrNone
  <2>3. /\ DOMAIN t = DOMAIN s /\ t.state = s.state /\ t.rty = s.rty /\ t.bssid = s.bssid /\ t.told = s.told /\ t.peers = s.peers
        /\ t.active = s.active /\ t.retry = s.retry /\ t.redo = s.redo /\ t.asked = s.asked \union {<<kind, s.bssid>>}
        /\ t.conn = s.conn /\ t.timer = s.timer /\ t.work = s.work /\ t.pend = s.pend /\ t.cbss = s.cbss /\ t.ext = s.ext /\ t.atype = s.atype
    BY DEF StaRecord, StaFields
  <2> HIDE DEF t
  <2> QED BY <2>1, <2>2, <2>3 DEF StaRecord, StaCalm
<1> QED BY <1>1, <1>2

\* skw_unjoin unbinds the station or, where the command fails, leaves it as it was.
LEMMA UnjoinIs ==
    ASSUME NEW s, StaRecord(s), NEW b, NEW ok
    PROVE  StaRecord(skw_unjoin(s, b, ok)) /\ StaCalm(skw_unjoin(s, b, ok), s) /\ skw_unjoin(s, b, ok).state = s.state
<1> DEFINE u == [s EXCEPT !.active = s.active \ {b}]
           v == [u EXCEPT !.peers = u.peers \ {b}, !.active = u.active \ {b}]
           w == [v EXCEPT !.bssid = "none"]
<1>1. skw_unjoin(s, b, ok) = s \/ skw_unjoin(s, b, ok) = u \/ skw_unjoin(s, b, ok) = w
  BY DEF skw_unjoin, Transmit, Unbind
<1>2. /\ DOMAIN u = DOMAIN s /\ u.state = s.state /\ u.rty = s.rty /\ u.bssid = s.bssid /\ u.told = s.told /\ u.peers = s.peers
      /\ u.active = s.active \ {b} /\ u.retry = s.retry /\ u.redo = s.redo /\ u.asked = s.asked
      /\ u.conn = s.conn /\ u.timer = s.timer /\ u.work = s.work /\ u.pend = s.pend /\ u.cbss = s.cbss /\ u.ext = s.ext /\ u.atype = s.atype
  BY DEF StaRecord, StaFields
<1>3. /\ DOMAIN w = DOMAIN s /\ w.state = s.state /\ w.rty = s.rty /\ w.bssid = "none" /\ w.told = s.told /\ w.peers = s.peers \ {b}
      /\ w.active = s.active \ {b} /\ w.retry = s.retry /\ w.redo = s.redo /\ w.asked = s.asked
      /\ w.conn = s.conn /\ w.timer = s.timer /\ w.work = s.work /\ w.pend = s.pend /\ w.cbss = s.cbss /\ w.ext = s.ext /\ w.atype = s.atype
  BY DEF StaRecord, StaFields
<1> HIDE DEF u, w
<1>4. StaRecord(u) /\ StaCalm(u, s) BY <1>2 DEF StaRecord, StaCalm
<1>5. StaRecord(w) /\ StaCalm(w, s) BY <1>3 DEF StaRecord, StaCalm, BssOrNone
<1>6. StaCalm(s, s) BY DEF StaCalm
<1> QED BY <1>1, <1>2, <1>3, <1>4, <1>5, <1>6

\* skw_join binds the station.
LEMMA JoinIs ==
    ASSUME NEW s, StaRecord(s), NEW b \in Bss
    PROVE  StaRecord(skw_join(s, b)) /\ StaCalm(skw_join(s, b), s) /\ skw_join(s, b).state = s.state /\ skw_join(s, b).bssid = b
<1> DEFINE u == [s EXCEPT !.peers = s.peers \union {b}, !.active = s.active \ {b}]
           w == [u EXCEPT !.bssid = b]
<1>1. skw_join(s, b) = w BY DEF skw_join, Bind
<1>2. /\ DOMAIN w = DOMAIN s /\ w.state = s.state /\ w.rty = s.rty /\ w.bssid = b /\ w.told = s.told /\ w.peers = s.peers \union {b}
      /\ w.active = s.active \ {b} /\ w.retry = s.retry /\ w.redo = s.redo /\ w.asked = s.asked
      /\ w.conn = s.conn /\ w.timer = s.timer /\ w.work = s.work /\ w.pend = s.pend /\ w.cbss = s.cbss /\ w.ext = s.ext /\ w.atype = s.atype
  BY DEF StaRecord, StaFields
<1> HIDE DEF u, w
<1> QED BY <1>1, <1>2 DEF StaRecord, StaCalm, BssOrNone

\* The user is told of a connection or of its end.
LEMMA TellIs ==
    ASSUME NEW s, StaRecord(s), NEW b \in BssOrNone
    PROVE  LET t == [s EXCEPT !.told = b] IN StaRecord(t) /\ StaCalm(t, s) /\ t.state = s.state /\ t.bssid = s.bssid
<1> DEFINE w == [s EXCEPT !.told = b]
<1>2. /\ DOMAIN w = DOMAIN s /\ w.state = s.state /\ w.rty = s.rty /\ w.bssid = s.bssid /\ w.told = b /\ w.peers = s.peers
      /\ w.active = s.active /\ w.retry = s.retry /\ w.redo = s.redo /\ w.asked = s.asked
      /\ w.conn = s.conn /\ w.timer = s.timer /\ w.work = s.work /\ w.pend = s.pend /\ w.cbss = s.cbss /\ w.ext = s.ext /\ w.atype = s.atype
  BY DEF StaRecord, StaFields
<1> HIDE DEF w
<1>3. StaRecord(w) /\ StaCalm(w, s) /\ w.state = s.state /\ w.bssid = s.bssid
  BY <1>2 DEF StaRecord, StaCalm
<1> QED BY <1>3 DEF w

\* The same, of the end.
LEMMA TellGoneIs ==
    ASSUME NEW s, StaRecord(s), NEW b
    PROVE  StaRecord(TellGone(s, b)) /\ StaCalm(TellGone(s, b), s) /\ TellGone(s, b).state = s.state /\ TellGone(s, b).bssid = s.bssid
<1>1. "none" \in BssOrNone BY DEF BssOrNone
<1>2. StaCalm(s, s) BY DEF StaCalm
<1> QED BY <1>1, <1>2, TellIs DEF TellGone

\* The state is set.
LEMMA StateIs ==
    ASSUME NEW s, StaRecord(s), NEW st \in Busy \union {"NONE"}
    PROVE  LET t == [s EXCEPT !.state = st] IN StaRecord(t) /\ StaCalm(t, s) /\ t.state = st /\ t.bssid = s.bssid
<1> DEFINE w == [s EXCEPT !.state = st]
<1>2. /\ DOMAIN w = DOMAIN s /\ w.state = st /\ w.rty = s.rty /\ w.bssid = s.bssid /\ w.told = s.told /\ w.peers = s.peers
      /\ w.active = s.active /\ w.retry = s.retry /\ w.redo = s.redo /\ w.asked = s.asked
      /\ w.conn = s.conn /\ w.timer = s.timer /\ w.work = s.work /\ w.pend = s.pend /\ w.cbss = s.cbss /\ w.ext = s.ext /\ w.atype = s.atype
  BY DEF StaRecord, StaFields
<1> HIDE DEF w
<1>3. StaRecord(w) /\ StaCalm(w, s) /\ w.state = st /\ w.bssid = s.bssid
  BY <1>2 DEF StaRecord, StaCalm
<1> QED BY <1>3 DEF w

\* The authentication is sent: the retries start from zero.
LEMMA AuthSendIs ==
    ASSUME NEW s, StaRecord(s), NEW b, NEW type, NEW fail
    PROVE  LET w == AuthSend(s, b, type, fail) IN
           StaRecord(w) /\ w.pend = s.pend /\ Paced(w) /\ (s.bssid # "none" => StaBoundIn(w))
<1> DEFINE w == AuthSend(s, b, type, fail)
<1>1. CASE fail = "auth"
  <2> DEFINE u == skw_unjoin(s, b, TRUE)
  <2>1. w = [u EXCEPT !.state = "NONE", !.retry = 0, !.redo = 0, !.rty = "NONE", !.atype = type]
    BY <1>1 DEF AuthSend
  <2>2. StaRecord(u) /\ StaCalm(u, s) BY UnjoinIs
  <2> HIDE DEF u, w
  <2>3. /\ DOMAIN w = DOMAIN u /\ w.state = "NONE" /\ w.rty = "NONE" /\ w.bssid = u.bssid /\ w.told = u.told /\ w.peers = u.peers
        /\ w.active = u.active /\ w.retry = 0 /\ w.redo = 0 /\ w.asked = u.asked
        /\ w.conn = u.conn /\ w.pend = u.pend
    BY <2>1, <2>2 DEF StaRecord, StaFields
  <2>4. StaRecord(w) BY <2>2, <2>3, TriesArePositive, StaAssumption DEF StaRecord
  <2> QED BY <2>2, <2>3, <2>4, TriesArePositive DEF StaCalm, Paced, StaBoundIn, Busy, w
<1>2. CASE fail # "auth"
  <2> DEFINE u == Ask(s, "auth")
             st == IF type = "sae" /\ s.confirm THEN "AUTHED" ELSE "AUTHING"
  <2>1. w = [u EXCEPT !.retry = 0, !.redo = 0, !.rty = "NONE", !.atype = type, !.timer = TRUE, !.report = TRUE, !.state = st]
    BY <1>2 DEF AuthSend
  <2>2. StaRecord(u) /\ StaCalm(u, s) /\ u.bssid = s.bssid BY AskIs
  <2>3. st \in Busy BY DEF Busy
  <2> HIDE DEF u, w, st
  <2>4. /\ DOMAIN w = DOMAIN u /\ w.state = st /\ w.rty = "NONE" /\ w.bssid = u.bssid /\ w.told = u.told /\ w.peers = u.peers
        /\ w.active = u.active /\ w.retry = 0 /\ w.redo = 0 /\ w.asked = u.asked
        /\ w.conn = u.conn /\ w.pend = u.pend
    BY <2>1, <2>2 DEF StaRecord, StaFields
  <2>5. StaRecord(w) BY <2>2, <2>3, <2>4, TriesArePositive, StaAssumption DEF StaRecord
  <2> QED BY <2>2, <2>4, <2>5, TriesArePositive DEF StaCalm, Paced, StaBoundIn, w
<1> QED BY <1>1, <1>2

\* skw_cfg80211_auth.
LEMMA AuthIs ==
    ASSUME NEW s, StaRecord(s), NEW b \in Bss, NEW type, NEW fail
    PROVE  StaKept(skw_auth(s, b, type, fail), s)
<1> DEFINE associated == s.state \in {"ASSOCED", "COMPLETED"}
           t == IF associated /\ s.ext THEN TellGone(s, s.bssid) ELSE s
           n == [t EXCEPT !.state = "NONE"]
           u == skw_unjoin(n, s.bssid, fail # "unjoin")
           j == skw_join(u, b)
           w == skw_auth(s, b, type, fail)
<1>1. StaRecord(t) /\ StaCalm(t, s) BY TellGoneIs DEF StaCalm
<1> HIDE DEF t
<1>2. StaRecord(n) /\ StaCalm(n, t) /\ n.state = "NONE" BY <1>1, StateIs
<1> HIDE DEF n
<1>3. StaRecord(u) /\ StaCalm(u, n) /\ u.state = n.state BY <1>2, UnjoinIs
<1> HIDE DEF u
<1>4. StaRecord(j) /\ StaCalm(j, u) /\ j.bssid = b BY <1>3, JoinIs
<1> HIDE DEF j
<1>5. StaKept(s, s) BY DEF StaKept
<1>6. StaKept(u, s) BY <1>1, <1>2, <1>3 DEF StaKept, StaCalm, Paced, StaBoundIn, Busy
<1>7. ASSUME s.state = "AUTHED" PROVE StaKept(AuthSend(s, b, type, fail), s)
  <2> DEFINE a == AuthSend(s, b, type, fail)
  <2>1. StaRecord(a) /\ a.pend = s.pend /\ Paced(a) /\ (s.bssid # "none" => StaBoundIn(a))
    BY AuthSendIs
  <2> HIDE DEF a
  <2>2. StaBoundIn(s) => s.bssid # "none" BY <1>7 DEF StaBoundIn, Busy
  <2> QED BY <2>1, <2>2 DEF StaKept, a
<1>8. StaKept(AuthSend(j, b, type, fail), s)
  <2> DEFINE a == AuthSend(j, b, type, fail)
  <2>1. StaRecord(a) /\ a.pend = j.pend /\ Paced(a) /\ (j.bssid # "none" => StaBoundIn(a))
    BY <1>4, AuthSendIs
  <2> HIDE DEF a
  <2>2. j.bssid # "none" BY <1>4, StaAssumption
  <2> QED BY <1>1, <1>2, <1>3, <1>4, <2>1, <2>2 DEF StaKept, StaCalm, a
<1>9. s.state \in Busy \union {"NONE"} BY DEF StaRecord
<1>10. \/ w = s
       \/ s.state = "AUTHED" /\ w = AuthSend(s, b, type, fail)
       \/ w = u
       \/ w = AuthSend(j, b, type, fail)
  BY <1>9 DEF skw_auth, t, n, u, j, Busy
<1> QED BY <1>5, <1>6, <1>7, <1>8, <1>10

\* skw_connect_sae_auth.
LEMMA SaeAuthIs ==
    ASSUME NEW s, StaRecord(s), NEW b \in Bss, NEW fail
    PROVE  StaKept(skw_connect_sae_auth(s, b, fail), s)
<1> DEFINE j == skw_join(s, b)
           u == skw_unjoin(j, b, TRUE)
           x == [u EXCEPT !.state = "NONE"]
           y == [j EXCEPT !.state = "AUTHING"]
<1>1. StaRecord(j) /\ StaCalm(j, s) /\ j.bssid = b BY JoinIs
<1> HIDE DEF j
<1>2. StaRecord(u) /\ StaCalm(u, j) BY <1>1, UnjoinIs
<1> HIDE DEF u
<1>3. StaRecord(x) /\ StaCalm(x, u) /\ x.state = "NONE" BY <1>2, StateIs
<1>4. StaRecord(y) /\ StaCalm(y, j) /\ y.bssid = j.bssid BY <1>1, StateIs DEF Busy
<1> HIDE DEF x, y
<1>5. StaKept(s, s) /\ StaKept(x, s) /\ StaKept(y, s)
  BY <1>1, <1>2, <1>3, <1>4, StaAssumption DEF StaKept, StaCalm, Paced, StaBoundIn, Busy
<1> QED BY <1>5 DEF skw_connect_sae_auth, x, y, u, j

\* skw_cfg80211_assoc.
LEMMA AssocIs ==
    ASSUME NEW s, StaRecord(s), NEW b, s.state \in {"ASSOCED", "COMPLETED"} => b \in Bss, NEW fail
    PROVE  StaKept(skw_assoc(s, b, fail), s)
<1> DEFINE associated == s.state \in {"ASSOCED", "COMPLETED"}
           n == [s EXCEPT !.state = "NONE"]
           u == skw_unjoin(n, s.bssid, fail # "unjoin")
           j == skw_join(u, b)
           t == IF associated THEN j ELSE s
           v == skw_unjoin(t, b, TRUE)
           x == [v EXCEPT !.cbss = FALSE, !.timer = FALSE, !.retry = 0, !.state = "NONE"]
           a == Ask(t, "assoc")
           y == [a EXCEPT !.cbss = TRUE, !.retry = 0, !.timer = TRUE, !.state = "ASSOCING"]
           w == skw_assoc(s, b, fail)
<1>1. StaRecord(n) /\ StaCalm(n, s) /\ n.state = "NONE" BY StateIs
<1> HIDE DEF n
<1>2. StaRecord(u) /\ StaCalm(u, n) /\ u.state = n.state BY <1>1, UnjoinIs
<1> HIDE DEF u
<1>3. associated => b \in Bss /\ StaRecord(j) /\ StaCalm(j, u) /\ j.bssid = b
  <2> SUFFICES ASSUME associated PROVE b \in Bss /\ StaRecord(j) /\ StaCalm(j, u) /\ j.bssid = b
    OBVIOUS
  <2>1. b \in Bss OBVIOUS
  <2> QED BY <1>2, <2>1, JoinIs
<1> HIDE DEF j
<1>4. StaRecord(t) /\ t.pend = s.pend /\ (StaBoundIn(s) /\ s.state # "NONE" => t.bssid # "none")
  BY <1>1, <1>2, <1>3, StaAssumption DEF StaCalm, StaBoundIn, StaRecord
<1> HIDE DEF t
<1>5. StaRecord(v) /\ StaCalm(v, t) BY <1>4, UnjoinIs
<1>6. StaRecord(a) /\ StaCalm(a, t) /\ a.bssid = t.bssid BY <1>4, AskIs
<1> HIDE DEF v, a
<1>7. StaKept(x, s)
  <2>1. /\ DOMAIN x = DOMAIN v /\ x.state = "NONE" /\ x.rty = v.rty /\ x.bssid = v.bssid /\ x.told = v.told /\ x.peers = v.peers
        /\ x.active = v.active /\ x.retry = 0 /\ x.redo = v.redo /\ x.asked = v.asked
        /\ x.conn = v.conn /\ x.pend = v.pend
    BY <1>5 DEF StaRecord, StaFields
  <2> HIDE DEF x
  <2>2. StaRecord(x) BY <1>5, <2>1, TriesArePositive DEF StaRecord
  <2> QED BY <1>4, <1>5, <2>1, <2>2, TriesArePositive DEF StaKept, StaCalm, Paced, StaBoundIn, Busy
<1>8. ASSUME s.state # "NONE" PROVE StaKept(y, s)
  <2>1. /\ DOMAIN y = DOMAIN a /\ y.state = "ASSOCING" /\ y.rty = a.rty /\ y.bssid = a.bssid /\ y.told = a.told /\ y.peers = a.peers
        /\ y.active = a.active /\ y.retry = 0 /\ y.redo = a.redo /\ y.asked = a.asked
        /\ y.conn = a.conn /\ y.pend = a.pend
    BY <1>6 DEF StaRecord, StaFields
  <2> HIDE DEF y
  <2>2. StaRecord(y) BY <1>6, <2>1, TriesArePositive DEF StaRecord, Busy
  <2> QED BY <1>4, <1>6, <1>8, <2>1, <2>2, TriesArePositive DEF StaKept, StaCalm, Paced, StaBoundIn
<1>9. StaKept(s, s) BY DEF StaKept
<1>10. StaKept(u, s) BY <1>1, <1>2 DEF StaKept, StaCalm, Paced, StaBoundIn, Busy
<1>11. w = s \/ w = u \/ w = x \/ (s.state # "NONE" /\ w = y)
  <2> HIDE DEF w
  <2>1. CASE s.state \in {"AUTHING", "ASSOCING", "NONE"} \/ (associated /\ s.bssid = b)
    BY <2>1 DEF skw_assoc, w
  <2>2. CASE ~(s.state \in {"AUTHING", "ASSOCING", "NONE"} \/ (associated /\ s.bssid = b))
    BY <2>2 DEF skw_assoc, w, x, y, u, n, j, t, v, a
  <2> QED BY <2>1, <2>2
<1> QED BY <1>7, <1>8, <1>9, <1>10, <1>11

\* The first half of a leave.
LEMMA LeaveBeginIs ==
    ASSUME NEW s, StaRecord(s), NEW b, NEW then \in Thens, NEW held
    PROVE  LET w == LeaveBegin(s, b, then, held) IN
           StaRecord(w) /\ PendOK(w) /\ (Paced(s) => Paced(w)) /\ w.state = "NONE"
<1> DEFINE e == {[bssid |-> b, then |-> then, held |-> held]}
           w == [s EXCEPT !.timer = FALSE, !.state = "NONE", !.confirm = FALSE, !.pend = e]
<1>1. LeaveBegin(s, b, then, held) = w BY DEF LeaveBegin
<1>2. \E p \in e : e = {p} /\ p.then \in Thens OBVIOUS
<1> HIDE DEF e
<1>3. /\ DOMAIN w = DOMAIN s /\ w.state = "NONE" /\ w.rty = s.rty /\ w.bssid = s.bssid /\ w.told = s.told /\ w.peers = s.peers
      /\ w.active = s.active /\ w.retry = s.retry /\ w.redo = s.redo /\ w.asked = s.asked
      /\ w.conn = s.conn /\ w.timer = FALSE /\ w.work = s.work /\ w.pend = e
  BY DEF StaRecord, StaFields
<1> HIDE DEF w
<1>4. StaRecord(w) BY <1>3 DEF StaRecord
<1>5. PendOK(w) BY <1>2, <1>3 DEF PendOK
<1>6. Paced(s) => Paced(w) BY <1>3 DEF Paced
<1> QED BY <1>1, <1>3, <1>4, <1>5, <1>6

\* A record that only the fields without a type differ in.
LEMMA PendGone ==
    ASSUME NEW s, StaRecord(s)
    PROVE  LET w == [s EXCEPT !.pend = {}] IN
           StaRecord(w) /\ w.pend = {} /\ (Paced(s) => Paced(w)) /\ w.state = s.state /\ w.bssid = s.bssid /\ w.rty = s.rty
<1> DEFINE w == [s EXCEPT !.pend = {}]
<1>1. /\ DOMAIN w = DOMAIN s /\ w.state = s.state /\ w.rty = s.rty /\ w.bssid = s.bssid /\ w.told = s.told /\ w.peers = s.peers
      /\ w.active = s.active /\ w.retry = s.retry /\ w.redo = s.redo /\ w.asked = s.asked
      /\ w.conn = s.conn /\ w.timer = s.timer /\ w.work = s.work /\ w.pend = {}
  BY DEF StaRecord, StaFields
<1> HIDE DEF w
<1>2. StaRecord(w) /\ (Paced(s) => Paced(w)) BY <1>1 DEF StaRecord, Paced
<1> QED BY <1>1, <1>2 DEF w

\* Whether a failure is to be reported is set.
LEMMA ReportIs ==
    ASSUME NEW s, StaRecord(s), NEW v
    PROVE  LET w == [s EXCEPT !.report = v] IN StaRecord(w) /\ StaCalm(w, s) /\ w.state = s.state /\ w.bssid = s.bssid
<1> DEFINE w == [s EXCEPT !.report = v]
<1>1. /\ DOMAIN w = DOMAIN s /\ w.state = s.state /\ w.rty = s.rty /\ w.bssid = s.bssid /\ w.told = s.told /\ w.peers = s.peers
      /\ w.active = s.active /\ w.retry = s.retry /\ w.redo = s.redo /\ w.asked = s.asked
      /\ w.conn = s.conn /\ w.timer = s.timer /\ w.work = s.work /\ w.pend = s.pend /\ w.cbss = s.cbss /\ w.ext = s.ext /\ w.atype = s.atype
  BY DEF StaRecord, StaFields
<1> HIDE DEF w
<1>2. StaRecord(w) /\ StaCalm(w, s) BY <1>1 DEF StaRecord, StaCalm
<1> QED BY <1>1, <1>2 DEF w

\* The BSS of the association is let go.
LEMMA BssForgotten ==
    ASSUME NEW s, StaRecord(s)
    PROVE  LET w == [s EXCEPT !.cbss = FALSE] IN
           StaRecord(w) /\ (Paced(s) => Paced(w)) /\ w.state = s.state /\ w.bssid = s.bssid /\ w.pend = s.pend
<1> DEFINE w == [s EXCEPT !.cbss = FALSE]
<1>1. /\ DOMAIN w = DOMAIN s /\ w.state = s.state /\ w.rty = s.rty /\ w.bssid = s.bssid /\ w.told = s.told /\ w.peers = s.peers
      /\ w.active = s.active /\ w.retry = s.retry /\ w.redo = s.redo /\ w.asked = s.asked
      /\ w.conn = s.conn /\ w.timer = s.timer /\ w.work = s.work /\ w.pend = s.pend
  BY DEF StaRecord, StaFields
<1> HIDE DEF w
<1>2. StaRecord(w) /\ (Paced(s) => Paced(w)) BY <1>1 DEF StaRecord, Paced
<1> QED BY <1>1, <1>2 DEF w

\* The operation that is queued, and the way it is to be tried.
LEMMA ConnIs ==
    ASSUME NEW s, StaRecord(s), NEW c, ConnOK(c)
    PROVE  LET w == [s EXCEPT !.conn = c] IN StaKept(w, s)
<1> DEFINE w == [s EXCEPT !.conn = c]
<1>1. /\ DOMAIN w = DOMAIN s /\ w.state = s.state /\ w.rty = s.rty /\ w.bssid = s.bssid /\ w.told = s.told /\ w.peers = s.peers
      /\ w.active = s.active /\ w.retry = s.retry /\ w.redo = s.redo /\ w.asked = s.asked
      /\ w.conn = c /\ w.timer = s.timer /\ w.work = s.work /\ w.pend = s.pend
  BY DEF StaRecord, StaFields
<1> HIDE DEF w
<1>2. StaRecord(w) /\ (Paced(s) => Paced(w)) BY <1>1 DEF StaRecord, Paced
<1> QED BY <1>1, <1>2 DEF w, StaKept, StaBoundIn

\* skw_sta_leave leaves the station without a BSS to wait for.
LEMMA LeaveIs ==
    ASSUME NEW s, StaRecord(s), NEW b, NEW ok
    PROVE  LET w == skw_sta_leave(s, b, ok) IN
           StaRecord(w) /\ w.pend = {} /\ (Paced(s) => Paced(w)) /\ w.state = "NONE"
<1> DEFINE l == LeaveBegin(s, b, "deauth", TRUE)
           u == skw_unjoin(l, b, ok)
           w == [u EXCEPT !.pend = {}]
<1>1. StaRecord(l) /\ (Paced(s) => Paced(l)) /\ l.state = "NONE" BY LeaveBeginIs DEF Thens
<1> HIDE DEF l
<1>2. StaRecord(u) /\ StaCalm(u, l) /\ u.state = l.state BY <1>1, UnjoinIs
<1> HIDE DEF u
<1>3. StaRecord(w) /\ w.pend = {} /\ (Paced(u) => Paced(w)) /\ w.state = u.state BY <1>2, PendGone
<1> HIDE DEF w
<1>4. Paced(l) => Paced(u) BY <1>2 DEF StaCalm, Paced
<1> QED BY <1>1, <1>2, <1>3, <1>4 DEF skw_sta_leave, w, u, l

\* One step of the retries.
LEMMA RetryIs ==
    ASSUME NEW s, StaRecord(s), s.retry < MaxTries, s.state \in {"AUTHING", "ASSOCING"},
           NEW over \in BOOLEAN, NEW expired \in BOOLEAN, NEW cmd \in BOOLEAN
    PROVE  LET r == Retry(s, over, expired, cmd) IN
           /\ StaRecord(r.s) /\ r.s.pend = s.pend /\ (r.s.work <=> s.work) /\ r.s.bssid = s.bssid
           /\ ~r.failed => r.s.retry < MaxTries
<1> DEFINE kind == IF s.state = "AUTHING" THEN "auth" ELSE "assoc"
           max == IF s.state = "AUTHING" THEN MaxAuthRetry ELSE MaxAssocRetry
           t == [s EXCEPT !.retry = @ + 1]
           rty == IF s.state = "ASSOCING" THEN "ASSOC" ELSE IF s.rty = "NONE" THEN "AUTH" ELSE s.rty
           k == Ask(t, kind)
           a == Ask(t, "auth")
           again == [a EXCEPT !.rty = rty, !.redo = @ + 1, !.retry = 0, !.state = "AUTHING"]
           r == Retry(s, over, expired, cmd)
<1>1. rty \in {"AUTH", "ASSOC"} /\ kind \in {"auth", "assoc"} /\ max \in Nat /\ max <= MaxTries
  BY StaAssumption DEF StaRecord, MaxTries
<1>2. /\ DOMAIN t = DOMAIN s /\ t.state = s.state /\ t.rty = s.rty /\ t.bssid = s.bssid /\ t.told = s.told /\ t.peers = s.peers
      /\ t.active = s.active /\ t.retry = s.retry + 1 /\ t.redo = s.redo /\ t.asked = s.asked
      /\ t.conn = s.conn /\ t.timer = s.timer /\ t.work = s.work /\ t.pend = s.pend
  BY DEF StaRecord, StaFields
<1> HIDE DEF t, kind, max, rty
<1>3. StaRecord(t) BY <1>2, TriesArePositive DEF StaRecord
<1>4. StaRecord(k) /\ StaCalm(k, t) /\ k.bssid = t.bssid BY <1>1, <1>3, AskIs
<1>5. StaRecord(a) /\ StaCalm(a, t) /\ a.bssid = t.bssid BY <1>3, AskIs
<1> HIDE DEF a, k
<1>6. ASSUME s.redo < MaxRedo
      PROVE  StaRecord(again) /\ again.pend = a.pend /\ (again.work <=> a.work) /\ again.bssid = a.bssid /\ again.retry = 0
  <2>1. /\ DOMAIN again = DOMAIN a /\ again.state = "AUTHING" /\ again.rty = rty /\ again.bssid = a.bssid /\ again.told = a.told /\ again.peers = a.peers
        /\ again.active = a.active /\ again.retry = 0 /\ again.redo = a.redo + 1 /\ again.asked = a.asked
        /\ again.conn = a.conn /\ again.timer = a.timer /\ again.work = a.work /\ again.pend = a.pend
    BY <1>5 DEF StaRecord, StaFields
  <2> HIDE DEF again
  <2>2. a.redo + 1 \in 0..MaxRedo BY <1>2, <1>5, <1>6, StaAssumption DEF StaRecord, StaCalm
  <2>3. StaRecord(again) BY <1>1, <1>5, <2>1, <2>2, TriesArePositive DEF StaRecord, Busy
  <2> QED BY <2>1, <2>3
<1>7. CASE ~over
  <2>1. r = [failed |-> expired, s |-> s] BY <1>7 DEF Retry
  <2> QED BY <2>1
<1>8. CASE over /\ t.retry < max
  <2>1. r = [failed |-> expired \/ ~cmd, s |-> k] BY <1>8 DEF Retry, k, kind, t, max
  <2>2. r.s = k BY <2>1
  <2>3. k.retry < MaxTries BY <1>1, <1>2, <1>3, <1>4, <1>8, TriesArePositive DEF StaCalm, StaRecord
  <2> QED BY <1>2, <1>4, <2>2, <2>3 DEF StaCalm
<1>9. CASE over /\ ~(t.retry < max)
  <2> DEFINE stop == s.atype # "open" \/ s.redo >= MaxRedo
  <2>1. r = [failed |-> expired \/ ~cmd \/ stop, s |-> IF stop \/ ~cmd THEN t ELSE again]
    BY <1>9 DEF Retry, again, a, rty, t, max, kind
  <2>2. r.s = (IF stop \/ ~cmd THEN t ELSE again) /\ (~r.failed => cmd /\ ~stop)
    <3> DEFINE gone == expired \/ ~cmd \/ stop
               next == IF stop \/ ~cmd THEN t ELSE again
    <3>1. r = [failed |-> gone, s |-> next] BY <2>1
    <3>2. gone \in BOOLEAN /\ (~gone => cmd /\ ~stop) OBVIOUS
    <3> HIDE DEF gone, next, r
    <3>3. r.failed = gone /\ r.s = next BY <3>1
    <3> QED BY <3>2, <3>3 DEF next
  <2>3. CASE stop \/ ~cmd BY <1>2, <1>3, <2>2, <2>3
  <2>4. CASE ~stop /\ cmd
    <3>1. s.redo < MaxRedo BY <2>4, StaAssumption DEF StaRecord
    <3> QED
      <4>1. r.s = again BY <2>2, <2>4
      <4> HIDE DEF again
      <4>2. 0 < MaxTries BY TriesArePositive
      <4> QED BY <1>2, <1>5, <1>6, <3>1, <4>1, <4>2 DEF StaCalm
  <2> QED BY <2>3, <2>4
<1> QED BY <1>7, <1>8, <1>9

\* The driver's own SME goes on, or tries another way.
LEMMA RxAuthIs ==
    ASSUME NEW s, StaRecord(s), NEW ok \in BOOLEAN, ok => s.state = "AUTHED", NEW fail
    PROVE  StaKept(skw_mlme_sta_rx_auth(s, ok, fail), s)
<1> DEFINE c == [s.conn EXCEPT !.type = "ft", !.queued = TRUE]
           w == skw_mlme_sta_rx_auth(s, ok, fail)
<1>1. StaKept(s, s) BY DEF StaKept
<1>2. ASSUME ok PROVE StaKept(skw_assoc(s, s.conn.bssid, fail), s)
  <2> DEFINE b == s.conn.bssid
  <2>1. s.state \in {"ASSOCED", "COMPLETED"} => b \in Bss BY <1>2
  <2> HIDE DEF b
  <2>2. StaKept(skw_assoc(s, b, fail), s) BY <2>1, AssocIs
  <2> QED BY <2>2 DEF b
<1>3. ASSUME s.conn.auto PROVE StaKept([s EXCEPT !.conn = c], s)
  <2>1. ConnOK(s.conn) BY DEF StaRecord
  <2>2. DOMAIN c = DOMAIN s.conn /\ c.bssid = s.conn.bssid BY <2>1 DEF ConnOK
  <2>3. ConnOK(c)
    <3> HIDE DEF c
    <3> QED BY <1>3, <2>1, <2>2 DEF ConnOK
  <2> HIDE DEF c
  <2> QED BY <2>3, ConnIs
<1>4. [s EXCEPT !.conn.type = "ft", !.conn.queued = TRUE] = [s EXCEPT !.conn = c]
  <2>1. "conn" \in DOMAIN s BY DEF StaRecord, StaFields
  <2> QED BY <2>1
<1>5. \/ w = s
      \/ ok /\ w = skw_assoc(s, s.conn.bssid, fail)
      \/ s.conn.auto /\ w = [s EXCEPT !.conn = c]
  BY <1>4 DEF skw_mlme_sta_rx_auth
<1> QED BY <1>1, <1>2, <1>3, <1>5

\* The end of the authentication: the association follows, or its retry.
LEMMA AuthDoneIs ==
    ASSUME NEW s, StaRecord(s), NEW ok \in BOOLEAN, ok => s.state = "AUTHED", NEW fail
    PROVE  LET w == AuthDone(s, ok, fail) IN
           /\ StaRecord(w) /\ w.pend = s.pend /\ (Paced(s) => Paced(w))
           /\ (s.rty # "ASSOC" \/ s.bssid # "none") /\ StaBoundIn(s) => StaBoundIn(w)
<1> DEFINE a == [s EXCEPT !.state = "ASSOCING"]
           m == skw_mlme_sta_rx_auth(s, ok, fail)
           w == AuthDone(s, ok, fail)
<1>1. StaRecord(a) /\ StaCalm(a, s) /\ a.bssid = s.bssid BY StateIs DEF Busy
<1>2. StaKept(m, s) BY RxAuthIs
<1>3. StaKept(s, s) BY DEF StaKept
<1> HIDE DEF a, m
<1>4. CASE s.rty = "ASSOC"
  <2>1. w = a BY <1>4 DEF AuthDone, a
  <2> QED BY <1>1, <1>4, <2>1 DEF StaCalm, Paced, StaBoundIn
<1>5. CASE s.rty # "ASSOC"
  <2>1. w = s \/ w = m BY <1>5 DEF AuthDone, m
  <2> QED BY <1>2, <1>3, <2>1 DEF StaKept
<1> QED BY <1>4, <1>5
\* A step of the record alone.
StaMoves(t) == /\ StaRecord(t) /\ Paced(t) /\ PendOK(t)
               /\ StaBoundIn(sta) /\ ~StaTorn => StaBoundIn(t)
StaEventsOK == staEv' \in Seq(StaMessages) /\ staOps' \in 0..MaxStaOps

\* Two whole operations, one after the other.
LEMMA KeptMoves ==
    ASSUME StaInv, NEW s, NEW t, StaKept(s, sta), StaKept(t, s)
    PROVE  StaMoves(t)
  BY DEF StaKept, StaInv, StaMoves, PendOK

\* skw_sta_leave, and what is told after it.
LEMMA LeftMoves ==
    ASSUME StaInv, NEW b, NEW ok, NEW t, StaRecord(t), StaCalm(t, skw_sta_leave(sta, b, ok)),
           t.state = skw_sta_leave(sta, b, ok).state
    PROVE  StaMoves(t)
<1> DEFINE w == skw_sta_leave(sta, b, ok)
<1>1. StaRecord(w) /\ w.pend = {} /\ Paced(w) /\ w.state = "NONE" BY LeaveIs DEF StaInv
<1> HIDE DEF w
<1>2. StaCalm(t, w) /\ t.state = w.state BY DEF w
<1> QED BY <1>1, <1>2 DEF StaMoves, StaCalm, Paced, PendOK, StaBoundIn, Busy

-----------------------------------------------------------------------------

\* The requests of the user.
LEMMA StaOpStep ==
    ASSUME StaInv,
           \/ skw_cfg80211_auth \/ skw_cfg80211_assoc \/ skw_cfg80211_deauth \/ skw_disassoc
           \/ StationFlags \/ skw_cfg80211_connect \/ skw_cfg80211_disconnect \/ skw_external_auth
    PROVE  StaMoves(sta') /\ StaEventsOK
<1>0. StaRecord(sta) /\ Paced(sta) /\ PendOK(sta) /\ StaKept(sta, sta) BY DEF StaInv, StaKept
<1>00. ASSUME NEW s, Op(s), StaMoves(s) PROVE StaMoves(sta') /\ StaEventsOK
  BY <1>00, StaAssumption DEF Op, StaInv, StaEventsOK
<1>1. CASE skw_cfg80211_auth
  <2>1. PICK b \in Bss, type \in {"open", "sae"}, fail \in Fails :
           Op(skw_auth([sta EXCEPT !.report = FALSE], b, type, fail))
    BY <1>1 DEF skw_cfg80211_auth
  <2> DEFINE s == [sta EXCEPT !.report = FALSE]
             w == skw_auth(s, b, type, fail)
  <2>2. StaRecord(s) /\ StaCalm(s, sta) /\ s.state = sta.state /\ s.bssid = sta.bssid
    BY <1>0, ReportIs
  <2> HIDE DEF s
  <2>3. StaKept(s, sta) BY <2>2 DEF StaKept, StaCalm, Paced, StaBoundIn
  <2>4. StaKept(w, s) BY <2>2, AuthIs
  <2> HIDE DEF w
  <2>5. StaMoves(w) BY <2>3, <2>4, KeptMoves
  <2> QED BY <1>00, <2>1, <2>5 DEF s, w
<1>2. CASE skw_cfg80211_assoc
  <2>1. PICK b \in Bss, fail \in Fails : Op(skw_assoc(sta, b, fail)) BY <1>2 DEF skw_cfg80211_assoc
  <2>2. StaKept(skw_assoc(sta, b, fail), sta) BY <1>0, AssocIs
  <2>3. StaMoves(skw_assoc(sta, b, fail)) BY <1>0, <2>2, KeptMoves
  <2> QED BY <1>00, <2>1, <2>3
<1>3. CASE skw_cfg80211_deauth
  <2>1. PICK b \in Bss, ok \in BOOLEAN :
           LET s == skw_sta_leave(sta, b, ok) IN Op(IF s.report THEN TellGone(s, b) ELSE s)
    BY <1>3 DEF skw_cfg80211_deauth
  <2> DEFINE s == skw_sta_leave(sta, b, ok)
             w == IF s.report THEN TellGone(s, b) ELSE s
  <2>2. StaRecord(s) BY <1>0, LeaveIs
  <2>3. StaRecord(w) /\ StaCalm(w, s) /\ w.state = s.state BY <2>2, TellGoneIs DEF StaCalm
  <2> HIDE DEF w
  <2>4. StaMoves(w) BY <2>3, LeftMoves
  <2> QED BY <1>00, <2>1, <2>4 DEF w
<1>4. CASE skw_disassoc
  <2>1. PICK b \in Bss, ok \in BOOLEAN : Op(TellGone(skw_sta_leave(sta, b, ok), b))
    BY <1>4 DEF skw_disassoc
  <2> DEFINE s == skw_sta_leave(sta, b, ok)
             w == TellGone(s, b)
  <2>2. StaRecord(s) BY <1>0, LeaveIs
  <2>3. StaRecord(w) /\ StaCalm(w, s) /\ w.state = s.state BY <2>2, TellGoneIs
  <2> HIDE DEF w
  <2>4. StaMoves(w) BY <2>3, LeftMoves
  <2> QED BY <1>00, <2>1, <2>4 DEF w
<1>5. CASE StationFlags
  <2> DEFINE w == [sta EXCEPT !.state = "COMPLETED"]
  <2>1. Op(w) /\ sta' = w BY <1>5 DEF StationFlags, Op
  <2>2. StaRecord(w) /\ StaCalm(w, sta) /\ w.state = "COMPLETED" /\ w.bssid = sta.bssid
    BY <1>0, StateIs DEF Busy
  <2> HIDE DEF w
  <2>3. StaBoundIn(sta) /\ ~StaTorn => StaBoundIn(w)
    BY <1>0, <2>1, <2>2 DEF StaTorn, StaBoundIn, StaRecord
  <2>4. StaMoves(w) BY <1>0, <2>2, <2>3 DEF StaMoves, StaCalm, Paced, PendOK
  <2> QED BY <1>00, <2>1, <2>4
<1>6. CASE skw_cfg80211_connect
  <2>1. PICK b \in Bss, type \in {"open", "sae", "automatic"} :
           Op([sta EXCEPT !.conn = [bssid |-> b, type |-> type, queued |-> TRUE, auto |-> @.auto \/ type = "automatic"]])
    BY <1>6 DEF skw_cfg80211_connect
  <2> DEFINE c == [bssid |-> b, type |-> type, queued |-> TRUE, auto |-> sta.conn.auto \/ type = "automatic"]
             w == [sta EXCEPT !.conn = c]
  <2>2. ConnOK(c) BY DEF ConnOK, BssOrNone
  <2>3. w = [sta EXCEPT !.conn = [bssid |-> b, type |-> type, queued |-> TRUE, auto |-> @.auto \/ type = "automatic"]]
    BY DEF StaRecord
  <2> HIDE DEF c
  <2>4. StaKept(w, sta) BY <1>0, <2>2, ConnIs
  <2> HIDE DEF w
  <2>5. StaMoves(w) BY <1>0, <2>4, KeptMoves
  <2> QED BY <1>00, <2>1, <2>3, <2>5
<1>7. CASE skw_cfg80211_disconnect
  <2>1. PICK ok \in BOOLEAN : Op(skw_disconnected(skw_sta_leave(sta, sta.bssid, ok)))
    BY <1>7 DEF skw_cfg80211_disconnect
  <2> DEFINE b == sta.bssid
             s == skw_sta_leave(sta, b, ok)
             w == skw_disconnected(s)
  <2>2. StaRecord(s) BY <1>0, LeaveIs
  <2>3. StaRecord(w) /\ StaCalm(w, s) /\ w.state = s.state
    BY <2>2, TellIs DEF skw_disconnected, BssOrNone
  <2> HIDE DEF w, b
  <2>4. StaMoves(w) BY <2>3, LeftMoves
  <2> QED BY <1>00, <2>1, <2>4 DEF w, b
<1>8. CASE skw_external_auth
  <2>1. PICK ok \in BOOLEAN, unjoined \in BOOLEAN, fail \in Fails :
           /\ sta.state = "AUTHING"
           /\ Op(IF ok THEN skw_assoc([sta EXCEPT !.state = "AUTHED"], sta.conn.bssid, fail)
                       ELSE [skw_unjoin(sta, sta.conn.bssid, unjoined) EXCEPT !.state = "NONE"])
    BY <1>8 DEF skw_external_auth
  <2> DEFINE b == sta.conn.bssid
             s == [sta EXCEPT !.state = "AUTHED"]
             a == skw_assoc(s, b, fail)
             u == skw_unjoin(sta, b, unjoined)
             n == [u EXCEPT !.state = "NONE"]
             w == IF ok THEN a ELSE n
  <2>2. StaRecord(s) /\ StaCalm(s, sta) /\ s.state = "AUTHED" /\ s.bssid = sta.bssid
    BY <1>0, StateIs DEF Busy
  <2> HIDE DEF s, b
  <2>3. StaKept(s, sta) BY <2>1, <2>2 DEF StaKept, StaCalm, Paced, StaBoundIn, Busy
  <2>4. s.state \in {"ASSOCED", "COMPLETED"} => b \in Bss BY <2>2
  <2>5. StaKept(a, s) BY <2>2, <2>4, AssocIs
  <2>6. StaRecord(u) /\ StaCalm(u, sta) BY <1>0, UnjoinIs
  <2> HIDE DEF u, a
  <2>7. StaRecord(n) /\ StaCalm(n, u) /\ n.state = "NONE" BY <2>6, StateIs
  <2> HIDE DEF n
  <2>8. StaKept(n, sta) BY <2>6, <2>7 DEF StaKept, StaCalm, Paced, StaBoundIn, Busy
  <2>9. StaMoves(a) /\ StaMoves(n) BY <1>0, <2>3, <2>5, <2>8, KeptMoves
  <2>10. Op(w) BY <2>1 DEF b, s, a, u, n
  <2> QED BY <1>00, <2>9, <2>10
<1> QED BY <1>1, <1>2, <1>3, <1>4, <1>5, <1>6, <1>7, <1>8

\* The message at the head of the queue names a BSS; the others keep waiting.
LEMMA HeadIs ==
    ASSUME StaInv, staEv # <<>>
    PROVE  Head(staEv) \in StaMessages /\ Head(staEv).bssid \in Bss /\ Head(staEv).ok \in BOOLEAN
           /\ Tail(staEv) \in Seq(StaMessages)
<1>1. Head(staEv) \in StaMessages /\ Tail(staEv) \in Seq(StaMessages) BY DEF StaInv
<1> QED BY <1>1 DEF StaMessages

\* The messages of the firmware.
LEMMA StaEventStep ==
    ASSUME StaInv,
           \/ skw_local_sta_connect \/ skw_sta_rx_auth \/ skw_sta_rx_assoc \/ skw_sta_rx_deauth
           \/ skw_event_disconnect \/ skw_event_cqm
    PROVE  StaMoves(sta') /\ StaEventsOK
<1>0. StaRecord(sta) /\ Paced(sta) /\ PendOK(sta) /\ StaKept(sta, sta) /\ ConnOK(sta.conn) /\ StaMoves(sta)
  BY DEF StaInv, StaKept, StaRecord, StaMoves
<1>00. ASSUME NEW kind, Event(kind), UNCHANGED staOps
       PROVE  StaEventsOK /\ Head(staEv).bssid \in Bss /\ Head(staEv).ok \in BOOLEAN /\ sta.pend = {}
  BY <1>00, HeadIs DEF Event, Idle, StaInv, StaEventsOK
<1>1. CASE skw_local_sta_connect
  <2>1. /\ sta.conn.queued /\ UNCHANGED <<staEv, staOps>>
        /\ \E known \in BOOLEAN, fail \in Fails :
              LET s == [sta EXCEPT !.conn.queued = FALSE]
                  b == sta.conn.bssid
              IN  sta' = CASE ~known -> s
                           [] known /\ sta.conn.type # "sae" -> skw_auth(s, b, sta.conn.type, fail)
                           [] OTHER -> skw_connect_sae_auth(s, b, fail)
    BY <1>1 DEF skw_local_sta_connect
  <2> DEFINE c == [sta.conn EXCEPT !.queued = FALSE]
             s == [sta EXCEPT !.conn.queued = FALSE]
             b == sta.conn.bssid
             type == sta.conn.type
  <2>2. PICK known \in BOOLEAN, fail \in Fails :
              sta' = CASE ~known -> s
                       [] known /\ sta.conn.type # "sae" -> skw_auth(s, b, type, fail)
                       [] OTHER -> skw_connect_sae_auth(s, b, fail)
    BY <2>1
  <2>3. b \in Bss BY <1>0, <2>1 DEF ConnOK
  <2>4. DOMAIN c = DOMAIN sta.conn /\ c.bssid = b /\ c.auto = sta.conn.auto /\ c.queued = FALSE
    BY <1>0 DEF ConnOK
  <2>5. s = [sta EXCEPT !.conn = c] BY <1>0 DEF StaRecord, StaFields
  <2> HIDE DEF c, b, type
  <2>6. ConnOK(c) BY <1>0, <2>3, <2>4 DEF ConnOK, BssOrNone
  <2>7. StaKept(s, sta) BY <1>0, <2>5, <2>6, ConnIs
  <2> HIDE DEF s
  <2>8. StaRecord(s) /\ StaKept(s, s) BY <2>7 DEF StaKept
  <2>9. StaKept(skw_auth(s, b, type, fail), s) BY <2>3, <2>8, AuthIs
  <2>10. StaKept(skw_connect_sae_auth(s, b, fail), s) BY <2>3, <2>8, SaeAuthIs
  <2>11. sta' = s \/ sta' = skw_auth(s, b, type, fail) \/ sta' = skw_connect_sae_auth(s, b, fail)
    BY <2>2
  <2>12. StaEventsOK BY <2>1 DEF StaInv, StaEventsOK
  <2>13. StaMoves(sta') BY <2>7, <2>8, <2>9, <2>10, <2>11, KeptMoves
  <2> QED BY <2>12, <2>13
<1>2. CASE skw_sta_rx_auth
  <2> DEFINE e == Head(staEv)
             c == sta.confirm \/ sta.atype = "sae"
             s == [sta EXCEPT !.state = "AUTHED", !.retry = 0, !.confirm = c]
             q == [s EXCEPT !.report = FALSE]
             l == LeaveBegin(q, e.bssid, "refused", TRUE)
  <2>1. PICK fail \in Fails : sta' = CASE e.bssid # sta.bssid -> sta
                                       [] e.bssid = sta.bssid /\ e.ok -> AuthDone(s, TRUE, fail)
                                       [] OTHER -> l
    BY <1>2 DEF skw_sta_rx_auth
  <2>2. StaEventsOK /\ e.bssid \in Bss /\ sta.pend = {} BY <1>2, <1>00 DEF skw_sta_rx_auth
  <2> HIDE DEF e, c
  <2>3. /\ DOMAIN s = DOMAIN sta /\ s.state = "AUTHED" /\ s.rty = sta.rty /\ s.bssid = sta.bssid /\ s.told = sta.told
        /\ s.peers = sta.peers /\ s.active = sta.active /\ s.retry = 0 /\ s.redo = sta.redo /\ s.asked = sta.asked
        /\ s.conn = sta.conn /\ s.timer = sta.timer /\ s.work = sta.work /\ s.pend = sta.pend
    BY <1>0 DEF StaRecord, StaFields
  <2> HIDE DEF s
  <2>4. StaRecord(s) /\ Paced(s) BY <1>0, <2>3, TriesArePositive DEF StaRecord, Busy, Paced
  <2>5. StaRecord(q) /\ StaCalm(q, s) BY <2>4, ReportIs
  <2> HIDE DEF q
  <2>6. StaRecord(l) /\ PendOK(l) /\ (Paced(q) => Paced(l)) /\ l.state = "NONE"
    BY <2>5, LeaveBeginIs DEF Thens
  <2> HIDE DEF l
  <2>7. StaMoves(l) BY <2>4, <2>5, <2>6 DEF StaMoves, StaCalm, Paced, StaBoundIn, Busy
  <2>8. ASSUME e.bssid = sta.bssid PROVE StaMoves(AuthDone(s, TRUE, fail))
    <3> DEFINE w == AuthDone(s, TRUE, fail)
    <3>1. /\ StaRecord(w) /\ w.pend = s.pend /\ (Paced(s) => Paced(w))
          /\ (s.rty # "ASSOC" \/ s.bssid # "none") /\ StaBoundIn(s) => StaBoundIn(w)
      BY <2>3, <2>4, AuthDoneIs
    <3> HIDE DEF w
    <3>2. s.bssid # "none" BY <2>2, <2>3, <2>8, StaAssumption
    <3> QED BY <2>2, <2>3, <2>4, <3>1, <3>2 DEF StaMoves, PendOK, StaBoundIn, w
  <2> QED BY <1>0, <2>1, <2>2, <2>7, <2>8
<1>3. CASE skw_sta_rx_assoc
  <2> DEFINE e == Head(staEv)
             on == [Transmit(sta, e.bssid, TRUE) EXCEPT !.state = "ASSOCED"]
             off == [sta EXCEPT !.state = "NONE", !.report = FALSE]
             s == IF e.ok THEN on ELSE off
             t == AssocTold(s, e.bssid, e.ok)
             w == [t EXCEPT !.cbss = FALSE]
  <2>1. sta' = IF sta.bssid # e.bssid \/ ~HasPeer(sta, e.bssid) THEN sta ELSE w
    BY <1>3 DEF skw_sta_rx_assoc
  <2>2. StaEventsOK /\ e.bssid \in Bss /\ sta.pend = {} BY <1>3, <1>00 DEF skw_sta_rx_assoc
  <2> HIDE DEF e
  <2>3. CASE sta.bssid # e.bssid \/ ~HasPeer(sta, e.bssid) BY <1>0, <2>1, <2>2, <2>3
  <2>4. CASE ~(sta.bssid # e.bssid \/ ~HasPeer(sta, e.bssid))
    <3>0. sta.bssid = e.bssid /\ e.bssid \in sta.peers /\ sta.bssid # "none"
      BY <2>2, <2>4, StaAssumption DEF HasPeer
    <3>1. /\ DOMAIN on = DOMAIN sta /\ on.state = "ASSOCED" /\ on.rty = sta.rty /\ on.bssid = sta.bssid /\ on.told = sta.told
          /\ on.peers = sta.peers /\ on.active = sta.active \union {e.bssid} /\ on.retry = sta.retry /\ on.redo = sta.redo
          /\ on.asked = sta.asked /\ on.conn = sta.conn /\ on.timer = sta.timer /\ on.work = sta.work /\ on.pend = sta.pend
      BY <1>0 DEF StaRecord, StaFields, Transmit
    <3>2. /\ DOMAIN off = DOMAIN sta /\ off.state = "NONE" /\ off.rty = sta.rty /\ off.bssid = sta.bssid /\ off.told = sta.told
          /\ off.peers = sta.peers /\ off.active = sta.active /\ off.retry = sta.retry /\ off.redo = sta.redo
          /\ off.asked = sta.asked /\ off.conn = sta.conn /\ off.timer = sta.timer /\ off.work = sta.work /\ off.pend = sta.pend
      BY <1>0 DEF StaRecord, StaFields
    <3> HIDE DEF on, off
    <3>3. StaRecord(on) /\ StaKept(on, sta)
      BY <1>0, <3>0, <3>1 DEF StaRecord, Busy, StaKept, Paced, StaBoundIn
    <3>4. StaRecord(off) /\ StaKept(off, sta)
      BY <1>0, <3>2 DEF StaRecord, Busy, StaKept, Paced, StaBoundIn
    <3>5. StaRecord(s) /\ StaKept(s, sta) BY <3>3, <3>4
    <3> HIDE DEF s
    <3>6. StaRecord(t) /\ StaCalm(t, s) /\ t.state = s.state /\ t.bssid = s.bssid
      <4>1. e.bssid \in BssOrNone /\ "none" \in BssOrNone BY <2>2 DEF BssOrNone
      <4>2. StaCalm(s, s) BY DEF StaCalm
      <4> DEFINE x == [s EXCEPT !.told = e.bssid]
                 y == [s EXCEPT !.told = "none"]
      <4>3. t = s \/ t = x \/ t = y
        BY DEF AssocTold, skw_mlme_sta_rx_assoc, skw_connected, skw_disconnected
      <4>4. StaRecord(x) /\ StaCalm(x, s) /\ x.state = s.state /\ x.bssid = s.bssid
        BY <3>5, <4>1, TellIs
      <4>5. StaRecord(y) /\ StaCalm(y, s) /\ y.state = s.state /\ y.bssid = s.bssid
        BY <3>5, <4>1, TellIs
      <4> HIDE DEF t, x, y
      <4> QED BY <3>5, <4>2, <4>3, <4>4, <4>5
    <3> HIDE DEF t
    <3>7. StaRecord(w) /\ (Paced(t) => Paced(w)) /\ w.state = t.state /\ w.bssid = t.bssid /\ w.pend = t.pend
      BY <3>6, BssForgotten
    <3> HIDE DEF w
    <3>8. StaKept(w, sta) BY <3>5, <3>6, <3>7 DEF StaKept, StaCalm, Paced, StaBoundIn
    <3>9. StaMoves(w) BY <1>0, <3>8, KeptMoves
    <3> QED BY <2>1, <2>2, <2>4, <3>9
  <2> QED BY <2>3, <2>4
<1>4. CASE skw_sta_rx_deauth
  <2> DEFINE b == Head(staEv).bssid
             l == LeaveBegin(sta, b, "deauth", TRUE)
  <2>1. sta' = IF HasPeer(sta, b) THEN l ELSE sta BY <1>4 DEF skw_sta_rx_deauth
  <2>2. StaEventsOK BY <1>4, <1>00 DEF skw_sta_rx_deauth
  <2> HIDE DEF b
  <2>3. StaRecord(l) /\ PendOK(l) /\ (Paced(sta) => Paced(l)) /\ l.state = "NONE"
    BY <1>0, LeaveBeginIs DEF Thens
  <2> HIDE DEF l
  <2>4. StaMoves(l) BY <1>0, <2>3 DEF StaMoves, StaBoundIn, Busy
  <2> QED BY <1>0, <2>1, <2>2, <2>4
<1>5. CASE skw_event_disconnect
  <2> DEFINE b == Head(staEv).bssid
             l == LeaveBegin(sta, b, "disconnect", FALSE)
  <2>1. sta' = l BY <1>5 DEF skw_event_disconnect
  <2>2. StaEventsOK BY <1>5, <1>00 DEF skw_event_disconnect
  <2> HIDE DEF b
  <2>3. StaRecord(l) /\ PendOK(l) /\ (Paced(sta) => Paced(l)) /\ l.state = "NONE"
    BY <1>0, LeaveBeginIs DEF Thens
  <2> HIDE DEF l
  <2>4. StaMoves(l) BY <1>0, <2>3 DEF StaMoves, StaBoundIn, Busy
  <2> QED BY <2>1, <2>2, <2>4
<1>6. CASE skw_event_cqm
  <2> DEFINE b == Head(staEv).bssid
             c == [sta.conn EXCEPT !.bssid = b, !.queued = TRUE]
             w == [sta EXCEPT !.conn = c]
  <2>1. sta' = IF sta.ext THEN sta ELSE skw_roam_connect(sta, b) BY <1>6 DEF skw_event_cqm
  <2>2. StaEventsOK /\ b \in Bss BY <1>6, <1>00 DEF skw_event_cqm
  <2> HIDE DEF b
  <2>3. DOMAIN c = DOMAIN sta.conn /\ c.bssid = b BY <1>0 DEF ConnOK
  <2>4. skw_roam_connect(sta, b) = w BY <1>0 DEF skw_roam_connect, StaRecord, StaFields
  <2> HIDE DEF c
  <2>5. ConnOK(c) BY <1>0, <2>2, <2>3 DEF ConnOK, BssOrNone
  <2>6. StaKept(w, sta) BY <1>0, <2>5, ConnIs
  <2> HIDE DEF w
  <2>7. StaMoves(w) BY <1>0, <2>6, KeptMoves
  <2> QED BY <1>0, <2>1, <2>2, <2>4, <2>7
<1> QED BY <1>1, <1>2, <1>3, <1>4, <1>5, <1>6

\* The end of a leave, the timer and its work, and what the AP sends.
LEMMA StaWorkStep ==
    ASSUME StaInv, LeaveEnd \/ skw_sta_timer \/ skw_sta_work \/ ApAnswers \/ ApReports \/ UNCHANGED staVars
    PROVE  StaMoves(sta') /\ StaEventsOK
<1>0. StaRecord(sta) /\ Paced(sta) /\ PendOK(sta) /\ StaKept(sta, sta) /\ StaMoves(sta)
  BY DEF StaInv, StaKept, StaMoves
<1>00. UNCHANGED <<staEv, staOps>> => StaEventsOK BY DEF StaInv, StaEventsOK
<1>1. CASE LeaveEnd
  <2>1. PICK p \in sta.pend, ok \in BOOLEAN :
           LET s == [skw_unjoin(sta, p.bssid, ok) EXCEPT !.pend = {}]
           IN  /\ sta' = CASE p.then = "refused" -> AuthDone(s, FALSE, "nothing")
                           [] p.then # "refused" /\ ~s.ext -> skw_disconnected(s)
                           [] s.ext /\ p.then \in {"auth_timeout", "assoc_failure"} -> s
                           [] s.ext /\ p.then = "disconnect" /\ s.cbss -> [s EXCEPT !.cbss = FALSE]
                           [] OTHER -> TellGone(s, p.bssid)
               /\ UNCHANGED <<staEv, staOps>>
    BY <1>1 DEF LeaveEnd
  <2> DEFINE b == p.bssid
             u == skw_unjoin(sta, b, ok)
             s == [u EXCEPT !.pend = {}]
             a == AuthDone(s, FALSE, "nothing")
             d == skw_disconnected(s)
             f == [s EXCEPT !.cbss = FALSE]
             g == TellGone(s, b)
  <2>2. /\ UNCHANGED <<staEv, staOps>> /\ (sta' = a => p.then = "refused" \/ a \in {d, s, f, g})
        /\ sta' \in {a, d, s, f, g}
    <3> HIDE DEF a, d, f, g
    <3>1. CASE p.then = "refused" BY <2>1, <3>1 DEF a, d, f, g
    <3>2. CASE p.then # "refused"
      <4>1. sta' \in {d, s, f, g}
        <5>1. sta' = CASE ~s.ext -> d
                       [] s.ext /\ p.then \in {"auth_timeout", "assoc_failure"} -> s
                       [] s.ext /\ p.then = "disconnect" /\ s.cbss -> f
                       [] OTHER -> g
          BY <2>1, <3>2 DEF d, f, g
        <5> HIDE DEF s
        <5> QED BY <5>1
      <4> QED BY <2>1, <4>1
    <3> QED BY <3>1, <3>2
  <2> HIDE DEF b
  <2>3. StaRecord(u) /\ StaCalm(u, sta) /\ u.state = sta.state BY <1>0, UnjoinIs
  <2> HIDE DEF u
  <2>4. StaRecord(s) /\ s.pend = {} /\ (Paced(u) => Paced(s)) /\ s.state = u.state /\ s.rty = u.rty
    BY <2>3, PendGone
  <2> HIDE DEF s
  <2>5. Paced(s) /\ s.state = sta.state /\ s.rty = sta.rty BY <1>0, <2>3, <2>4 DEF StaCalm, Paced
  <2>6. ~StaTorn => s.state = "NONE" /\ (p.then = "refused" => s.rty # "ASSOC")
    BY <2>1, <2>5 DEF StaTorn
  <2>7. "none" \in BssOrNone BY DEF BssOrNone
  <2>8. StaRecord(d) /\ StaCalm(d, s) /\ d.state = s.state BY <2>4, <2>7, TellIs DEF skw_disconnected
  <2>9. StaRecord(f) /\ (Paced(s) => Paced(f)) /\ f.state = s.state /\ f.pend = s.pend
    BY <2>4, BssForgotten
  <2>10. StaRecord(g) /\ StaCalm(g, s) /\ g.state = s.state BY <2>4, TellGoneIs
  <2>11. StaRecord(a) /\ a.pend = s.pend /\ (Paced(s) => Paced(a)) /\ (s.rty # "ASSOC" /\ StaBoundIn(s) => StaBoundIn(a))
    BY <2>4, AuthDoneIs
  <2> HIDE DEF a, d, f, g
  <2>12. StaMoves(d) /\ StaMoves(s) /\ StaMoves(f) /\ StaMoves(g)
    BY <2>4, <2>5, <2>6, <2>8, <2>9, <2>10 DEF StaMoves, StaCalm, Paced, PendOK, StaBoundIn,
       Busy
  <2>13. p.then = "refused" => StaMoves(a)
    BY <2>4, <2>5, <2>6, <2>11 DEF StaMoves, PendOK, StaBoundIn, Busy
  <2> QED BY <1>00, <2>2, <2>12, <2>13
<1>2. CASE skw_sta_timer
  <2> DEFINE w == [sta EXCEPT !.timer = FALSE, !.work = TRUE]
  <2>1. sta.timer /\ sta' = w /\ UNCHANGED <<staEv, staOps>> BY <1>2 DEF skw_sta_timer
  <2>2. /\ DOMAIN w = DOMAIN sta /\ w.state = sta.state /\ w.rty = sta.rty /\ w.bssid = sta.bssid /\ w.told = sta.told
        /\ w.peers = sta.peers /\ w.active = sta.active /\ w.retry = sta.retry /\ w.redo = sta.redo
        /\ w.asked = sta.asked /\ w.conn = sta.conn /\ w.pend = sta.pend
    BY <1>0 DEF StaRecord, StaFields
  <2> HIDE DEF w
  <2>3. StaRecord(w) /\ Paced(w) BY <1>0, <2>1, <2>2 DEF StaRecord, Paced
  <2>4. StaMoves(w) BY <1>0, <2>2, <2>3 DEF StaMoves, PendOK, StaBoundIn
  <2> QED BY <1>00, <2>1, <2>4
<1>3. CASE skw_sta_work
  <2>1. PICK over \in BOOLEAN, expired \in BOOLEAN, cmd \in BOOLEAN :
           LET s == [sta EXCEPT !.work = FALSE]
               r == Retry(s, over, expired, cmd)
               again == [r.s EXCEPT !.timer = TRUE]
           IN  sta' = CASE s.state = "AUTHED" ->
                             IF over THEN LeaveBegin([s EXCEPT !.report = FALSE], s.bssid, "auth_timeout", TRUE)
                             ELSE [s EXCEPT !.timer = TRUE]
                        [] s.state = "AUTHING" ->
                             IF r.failed THEN LeaveBegin([r.s EXCEPT !.report = FALSE], s.bssid, "auth_timeout", TRUE)
                             ELSE again
                        [] s.state = "ASSOCING" ->
                             IF r.failed THEN LeaveBegin([r.s EXCEPT !.report = FALSE], s.bssid, "assoc_failure", TRUE)
                             ELSE again
                        [] OTHER -> s
    BY <1>3 DEF skw_sta_work
  <2>2. sta.work /\ sta.pend = {} /\ UNCHANGED <<staEv, staOps>> BY <1>3 DEF skw_sta_work, Idle
  <2> DEFINE s == [sta EXCEPT !.work = FALSE]
             r == Retry(s, over, expired, cmd)
             z == r.s
             b == s.bssid
             q(t) == [t EXCEPT !.report = FALSE]
             again(t) == [t EXCEPT !.timer = TRUE]
             l(t, then) == LeaveBegin(q(t), b, then, TRUE)
  <2>3. /\ DOMAIN s = DOMAIN sta /\ s.state = sta.state /\ s.rty = sta.rty /\ s.bssid = sta.bssid /\ s.told = sta.told
        /\ s.peers = sta.peers /\ s.active = sta.active /\ s.retry = sta.retry /\ s.redo = sta.redo
        /\ s.asked = sta.asked /\ s.conn = sta.conn /\ s.pend = sta.pend /\ s.work = FALSE /\ s.timer = sta.timer
    BY <1>0 DEF StaRecord, StaFields
  <2>4. /\ \/ s.state = "AUTHED" /\ sta' = l(s, "auth_timeout")
           \/ s.state = "AUTHED" /\ sta' = again(s)
           \/ s.state \in {"AUTHING", "ASSOCING"} /\ \E then \in Thens : sta' = l(z, then)
           \/ s.state \in {"AUTHING", "ASSOCING"} /\ ~r.failed /\ sta' = again(z)
           \/ sta' = s
    <3> HIDE DEF s
    <3>1. CASE s.state = "AUTHED" BY <2>1, <3>1 DEF s
    <3>2. CASE s.state = "AUTHING" BY <2>1, <3>2 DEF s, Thens
    <3>3. CASE s.state = "ASSOCING" BY <2>1, <3>3 DEF s, Thens
    <3>4. CASE s.state \notin {"AUTHED", "AUTHING", "ASSOCING"} BY <2>1, <3>4 DEF s
    <3> QED BY <3>1, <3>2, <3>3, <3>4
  <2> HIDE DEF s
  <2>5. StaRecord(s) /\ s.retry < MaxTries /\ s.pend = {} /\ Paced(s) /\ (StaBoundIn(sta) => StaBoundIn(s))
    BY <1>0, <2>2, <2>3 DEF StaRecord, Paced, StaBoundIn
  <2>6. ASSUME s.state \in {"AUTHING", "ASSOCING"}
        PROVE  /\ StaRecord(z) /\ z.pend = {} /\ ~z.work /\ z.bssid = s.bssid
               /\ ~r.failed => z.retry < MaxTries
    <3> HIDE DEF q, again, l, b
    <3>1. /\ StaRecord(r.s) /\ r.s.pend = s.pend /\ (r.s.work <=> s.work) /\ r.s.bssid = s.bssid
          /\ ~r.failed => r.s.retry < MaxTries
      BY <2>5, <2>6, RetryIs
    <3> QED BY <2>3, <2>5, <3>1
  <2> HIDE DEF r, z, b
  <2>7. ASSUME NEW t, StaRecord(t), ~t.work, NEW then \in Thens PROVE StaMoves(l(t, then))
    <3> DEFINE m == l(t, then)
               n == q(t)
    <3>1. StaRecord(n) /\ StaCalm(n, t) BY <2>7, ReportIs
    <3> HIDE DEF n
    <3>2. StaRecord(LeaveBegin(n, b, then, TRUE)) /\ PendOK(LeaveBegin(n, b, then, TRUE)) /\ LeaveBegin(n, b, then, TRUE).state = "NONE"
      BY <3>1, LeaveBeginIs
    <3>3. /\ LeaveBegin(n, b, then, TRUE).timer = FALSE /\ LeaveBegin(n, b, then, TRUE).work = n.work
      BY <3>1 DEF LeaveBegin, StaRecord, StaFields
    <3> DEFINE o == LeaveBegin(n, b, then, TRUE)
    <3> HIDE DEF o
    <3>4. StaRecord(o) /\ PendOK(o) /\ o.state = "NONE" /\ o.timer = FALSE /\ o.work = n.work
      BY <3>2, <3>3 DEF o
    <3>5. StaMoves(o) BY <2>7, <3>1, <3>4 DEF StaMoves, StaCalm, Paced, StaBoundIn, Busy
    <3> QED BY <3>5 DEF o, n
  <2>8. ASSUME NEW t, StaRecord(t), t.pend = {}, t.retry < MaxTries, StaBoundIn(sta) => StaBoundIn(t)
        PROVE  StaMoves(again(t))
    <3> DEFINE w == again(t)
    <3>1. /\ DOMAIN w = DOMAIN t /\ w.state = t.state /\ w.rty = t.rty /\ w.bssid = t.bssid /\ w.told = t.told
          /\ w.peers = t.peers /\ w.active = t.active /\ w.retry = t.retry /\ w.redo = t.redo
          /\ w.asked = t.asked /\ w.conn = t.conn /\ w.pend = t.pend
      BY <2>8 DEF StaRecord, StaFields
    <3> HIDE DEF w
    <3>2. StaRecord(w) /\ Paced(w) /\ PendOK(w) BY <2>8, <3>1 DEF StaRecord, Paced, PendOK
    <3>3. StaBoundIn(t) => StaBoundIn(w) BY <3>1 DEF StaBoundIn
    <3>4. StaMoves(w) BY <2>8, <3>2, <3>3 DEF StaMoves
    <3> QED BY <3>4 DEF w
  <2>9. "auth_timeout" \in Thens BY DEF Thens
  <2>10. s.state = "AUTHED" => StaMoves(l(s, "auth_timeout")) BY <2>3, <2>5, <2>7, <2>9
  <2>11. StaMoves(again(s)) BY <2>5, <2>8
  <2>12. StaMoves(s) BY <2>5 DEF StaMoves, PendOK
  <2>13. s.state \in {"AUTHING", "ASSOCING"} => \A then \in Thens : StaMoves(l(z, then)) BY <2>6, <2>7
  <2>14. s.state \in {"AUTHING", "ASSOCING"} /\ ~r.failed => StaMoves(again(z))
    <3> SUFFICES ASSUME s.state \in {"AUTHING", "ASSOCING"}, ~r.failed PROVE StaMoves(again(z))
      OBVIOUS
    <3>1. StaRecord(z) /\ z.pend = {} /\ z.retry < MaxTries /\ z.bssid = s.bssid BY <2>6
    <3>2. StaBoundIn(sta) => StaBoundIn(z) BY <2>5, <3>1 DEF StaBoundIn, Busy
    <3> QED BY <2>8, <3>1, <3>2
  <2>15. StaMoves(sta')
    <3> HIDE DEF l, again
    <3> QED BY <2>4, <2>10, <2>11, <2>12, <2>13, <2>14
  <2> QED BY <1>00, <2>2, <2>15
<1>4. CASE ApAnswers
  <2>1. PICK q \in sta.asked, ok \in BOOLEAN :
           /\ staEv' = Append(staEv, [kind |-> q[1], bssid |-> q[2], ok |-> ok])
           /\ sta' = [sta EXCEPT !.asked = @ \ {q}] /\ UNCHANGED staOps
    BY <1>4 DEF ApAnswers
  <2> DEFINE w == [sta EXCEPT !.asked = @ \ {q}]
  <2>2. /\ DOMAIN w = DOMAIN sta /\ w.state = sta.state /\ w.rty = sta.rty /\ w.bssid = sta.bssid /\ w.told = sta.told
        /\ w.peers = sta.peers /\ w.active = sta.active /\ w.retry = sta.retry /\ w.redo = sta.redo
        /\ w.asked = sta.asked \ {q} /\ w.conn = sta.conn /\ w.pend = sta.pend /\ w.timer = sta.timer /\ w.work = sta.work
    BY <1>0 DEF StaRecord, StaFields
  <2> HIDE DEF w
  <2>3. StaRecord(w) BY <1>0, <2>2 DEF StaRecord
  <2>4. StaMoves(w) BY <1>0, <2>2, <2>3 DEF StaMoves, PendOK, Paced, StaBoundIn
  <2>5. q[1] \in {"auth", "assoc"} /\ q[2] \in Bss BY <1>0 DEF StaRecord
  <2>6. [kind |-> q[1], bssid |-> q[2], ok |-> ok] \in StaMessages BY <2>5 DEF StaMessages
  <2> DEFINE e == [kind |-> q[1], bssid |-> q[2], ok |-> ok]
  <2> HIDE DEF e
  <2>7. staEv' \in Seq(StaMessages) BY <2>1, <2>6 DEF StaInv, e
  <2> QED BY <2>1, <2>4, <2>7 DEF StaEventsOK, StaInv, w
<1>5. CASE ApReports
  <2>1. PICK kind \in {"deauth", "disconnect", "cqm"}, b \in Bss :
           /\ staOps < MaxStaOps /\ staOps' = staOps + 1 /\ UNCHANGED sta
           /\ staEv' = Append(staEv, [kind |-> kind, bssid |-> b, ok |-> TRUE])
    BY <1>5 DEF ApReports
  <2> DEFINE e == [kind |-> kind, bssid |-> b, ok |-> TRUE]
  <2>2. e \in StaMessages BY DEF StaMessages
  <2> HIDE DEF e
  <2>3. staEv' \in Seq(StaMessages) BY <2>1, <2>2 DEF StaInv, e
  <2> QED BY <1>0, <2>1, <2>3, StaAssumption DEF StaEventsOK, StaInv
<1>6. CASE UNCHANGED staVars BY <1>0, <1>00, <1>6 DEF staVars
<1> QED BY <1>1, <1>2, <1>3, <1>4, <1>5, <1>6

\* What a step on the record keeps.
LEMMA MovedIs ==
    ASSUME NEW t, StaMoves(t)
    PROVE  StaRecord(t) /\ Paced(t) /\ PendOK(t) /\ (StaBoundIn(sta) /\ ~StaTorn => StaBoundIn(t))
  BY DEF StaMoves

\* Every step keeps the invariant and, but in the two windows, the BSS.
LEMMA StaStep == StaInv /\ [StaNext]_staVars => StaInv' /\ (StaBoundIn(sta) /\ ~StaTorn => StaBoundIn(sta)')
<1> SUFFICES ASSUME StaInv, [StaNext]_staVars PROVE StaInv' /\ (StaBoundIn(sta) /\ ~StaTorn => StaBoundIn(sta)')
  OBVIOUS
<1>1. StaMoves(sta') /\ StaEventsOK BY StaOpStep, StaEventStep, StaWorkStep DEF StaNext, StaDone
<1>2. StaRecord(sta') /\ Paced(sta') /\ PendOK(sta') /\ (StaBoundIn(sta) /\ ~StaTorn => StaBoundIn(sta'))
  BY <1>1, MovedIs
<1>3. StaRecord(sta)' /\ Paced(sta)' /\ PendOK(sta)' BY <1>2 DEF StaRecord, Paced, PendOK
<1>4. StaBoundIn(sta') => StaBoundIn(sta)' BY DEF StaBoundIn
<1> QED BY <1>1, <1>2, <1>3, <1>4 DEF StaEventsOK, StaInv

\* A new station is bound to nothing.
LEMMA StaBegin == StaInit => StaInv
<1> SUFFICES ASSUME StaInit PROVE StaInv OBVIOUS
<1> DEFINE c == [bssid |-> "none", type |-> "open", auto |-> FALSE, queued |-> FALSE]
<1>1. ConnOK(c) BY DEF ConnOK, BssOrNone
<1>2. /\ DOMAIN sta = StaFields /\ sta.state = "NONE" /\ sta.rty = "NONE" /\ sta.bssid = "none" /\ sta.told = "none"
      /\ sta.peers = {} /\ sta.active = {} /\ sta.retry = 0 /\ sta.redo = 0 /\ sta.asked = {} /\ sta.conn = c
      /\ sta.timer = FALSE /\ sta.work = FALSE /\ sta.pend = {} /\ staEv = <<>> /\ staOps = 0
  BY DEF StaInit, StaFields
<1> HIDE DEF c
<1>3. StaRecord(sta) BY <1>1, <1>2, TriesArePositive, StaAssumption DEF StaRecord, BssOrNone
<1> QED BY <1>2, <1>3, StaAssumption DEF StaInv, Paced, PendOK

\* The invariant holds in every behaviour.
LEMMA StaInvariance == StaSpec => []StaInv
  BY StaBegin, StaStep, PTL DEF StaSpec

\* Within the invariant, to be bound is to be bound to a peer.
LEMMA BoundIs == StaInv => (StaBound <=> StaBoundIn(sta))
  BY StaAssumption DEF StaInv, StaRecord, StaBound, StaBoundIn

\* A station that is connecting or connected stays bound to a BSS that is
\* a peer, but in the two windows the property names: a leave whose lock
\* was given up, and a port opened in any state.  For any BSSs, any order
\* of the user's calls, the timer, its work and the firmware's events, and
\* any bounds on the retries.
THEOREM BoundIsKept == StaSpec => BoundUntilTorn
<1>1. StaInv /\ StaInv' /\ [StaNext]_staVars => [StaBound /\ ~StaTorn => StaBound']_staVars
  <2>1. StaInv' => (StaBound' <=> StaBoundIn(sta)') BY BoundIs, PTL
  <2> QED BY <2>1, BoundIs, StaStep
<1> QED BY <1>1, StaInvariance, PTL DEF StaSpec, BoundUntilTorn

\* The invariant holds the type.
LEMMA StaTypes == StaInv => StaTypeOK
  BY TriesArePositive, StaAssumption DEF StaInv, StaRecord, StaTypeOK, PendOK

\* The station's state keeps its type; its retries stay within the bounds.
THEOREM StaTyping == StaSpec => []StaTypeOK
  BY StaInvariance, StaTypes, PTL

-----------------------------------------------------------------------------
\* The driver's life.  What is present has an instance, what is marked is
\* present.
VifOK ==
    /\ DOMAIN vif = {"type", "map", "flag", "opened", "fw", "link", "skewed"}
    /\ vif.type \in [Slots -> IfTypes \union {"none"}] /\ vif.map \subseteq Slots /\ Present \subseteq vif.map
    /\ vif.flag \subseteq Present /\ vif.link \subseteq Slots /\ vif.opened \in Int
\* The request under the RTNL: one that adds has an instance of its own.
RtnlOK ==
    /\ DOMAIN rtnl = {"kind", "id", "type", "pc"} /\ rtnl.id \in Slots /\ rtnl.type \in IfTypes
    /\ rtnl.kind \in {"none", "add", "change", "del"} /\ rtnl.pc \in {"idle", "open", "mark", "close", "unmark"}
    /\ rtnl.pc # "idle" => drv.state = "bound" /\ rtnl.id \in vif.map
    /\ rtnl.pc # "idle" /\ rtnl.kind = "change" => rtnl.id \in Present
    /\ rtnl.pc # "idle" /\ rtnl.kind = "add" => rtnl.id \notin Present
\* The count is that of the marks, and of the interface the request works on it
\* is known whether it is marked.
CountOK ==
    ~vif.skewed => /\ vif.opened = Cardinality(vif.flag)
                   /\ rtnl.pc \in {"open", "mark"} => rtnl.id \notin vif.flag
                   /\ rtnl.pc = "unmark" => rtnl.id \in vif.flag
\* Who had a peer is in recovery_data, and once the walk has passed him he was
\* told or is an AP that was not restarted.
PassedOK ==
    rec.work.pc \in {"next", "mark"} =>
        \A i \in rec.had : i \in rec.todo \union rec.told \union rec.failed \/ (rec.work.pc = "mark" /\ rec.work.id = i)
\* A recovery runs only where the driver is bound.
RecOK ==
    /\ DOMAIN rec = {"assert", "chip", "bsp", "work", "todo", "saved", "told", "failed", "had", "param", "n"}
    /\ DOMAIN rec.work = {"pc", "id"}
    /\ rec.chip => rec.had \subseteq rec.saved
    /\ rec.had \subseteq Slots /\ (rec.work.pc \in {"sync", "next", "mark"} => rec.chip)
    /\ drv.state # "bound" => ~rec.chip /\ rec.bsp = "up" /\ rec.work.pc = "idle"
    /\ PassedOK
\* The record of the driver has its fields.
DrvOK == DOMAIN drv = {"state", "bits", "idx", "n"}
\* The inductive invariant.
LifeInv == DrvOK /\ VifOK /\ RtnlOK /\ CountOK /\ RecOK
\* Who had a peer when the firmware died has it until the recovery takes it
\* over; the interface that is being closed has none.
HadOK ==
    /\ ~rec.chip => rec.had \subseteq vif.link
    /\ rtnl.pc = "unmark" => rtnl.id \notin vif.link

\* The marks are counted: one more, one less.
LEMMA Counts ==
    ASSUME NEW F \in SUBSET Slots
    PROVE  /\ Cardinality(F) \in Nat /\ Cardinality({}) = 0
           /\ \A i \in Slots \ F : Cardinality(F \union {i}) = Cardinality(F) + 1
           /\ \A i \in F : Cardinality(F \ {i}) = Cardinality(F) - 1
<1>1. IsFiniteSet(F) BY LifeAssumption, FS_Subset
<1> QED BY <1>1, FS_CardinalityType, FS_AddElement, FS_RemoveElement, FS_EmptySet

\* The instance a new interface gets is free.
LEMMA InstIs == skw_alloc_inst # -1 => skw_alloc_inst \in Slots \ vif.map
<1> DEFINE T == Slots \ vif.map
<1>1. T \in SUBSET Nat BY LifeAssumption
<1> SUFFICES ASSUME T # {} PROVE Min(T) \in T BY DEF skw_alloc_inst
<1>2. \E x \in T : \A y \in T : x <= y BY <1>1, LeastExists
<1> HIDE DEF T
<1> QED BY <1>2 DEF Min

\* A driver that is not there has no interface.
LEMMA LifeBegin == LifeInit => LifeInv
<1> SUFFICES ASSUME LifeInit PROVE LifeInv OBVIOUS
<1>1. PICK spent \in 0..1 : drv = [state |-> "absent", bits |-> {}, idx |-> 0, n |-> spent] /\ rec = [NoRec EXCEPT !.n = 1 - spent]
  BY DEF LifeInit
<1>2. DrvOK /\ drv.state = "absent" BY <1>1 DEF DrvOK
<1>3. /\ DOMAIN vif = {"type", "map", "flag", "opened", "fw", "link", "skewed"}
      /\ vif.type = [i \in Slots |-> "none"] /\ vif.map = {} /\ vif.flag = {} /\ vif.link = {} /\ vif.opened = 0
  BY DEF LifeInit, NoVif
<1>4. VifOK BY <1>3 DEF VifOK, Present
<1>5. RtnlOK /\ rtnl.pc = "idle" BY <1>2, LifeAssumption DEF LifeInit, NoReq, RtnlOK, IfTypes
<1>6. CountOK BY <1>3, <1>5, Counts DEF CountOK
<1>7. RecOK BY <1>1, <1>2 DEF RecOK, PassedOK, NoRec, NoWork
<1> QED BY <1>2, <1>4, <1>5, <1>6, <1>7 DEF LifeInv

\* Probe and remove.
LEMMA ProbeStep ==
    ASSUME LifeInv, skw_drv_probe \/ ProbeRefused \/ ProbeHollow \/ HollowRemove \/ ProbeDone \/ skw_drv_remove
    PROVE  LifeInv'
<1> USE DEF LifeInv
<1>1. CASE skw_drv_probe \/ ProbeRefused \/ ProbeHollow \/ HollowRemove
  <2>1. /\ UNCHANGED <<vif, rtnl, rec>> /\ DOMAIN drv' = DOMAIN drv /\ drv.state # "bound" /\ drv'.state # "bound"
    BY <1>1 DEF skw_drv_probe, ProbeRefused, ProbeHollow, ProbeFails, HollowRemove, DrvOK
  <2> QED BY <2>1 DEF DrvOK, VifOK, Present, RtnlOK, CountOK, RecOK, PassedOK
<1>2. CASE ProbeDone
  <2>1. DOMAIN drv' = DOMAIN drv /\ drv'.state = "bound" /\ UNCHANGED rtnl /\ drv.state = "probing"
    BY <1>2 DEF ProbeDone, DrvOK
  <2>2. /\ DOMAIN vif' = {"type", "map", "flag", "opened", "fw", "link", "skewed"}
        /\ vif'.type = [[i \in Slots |-> "none"] EXCEPT ![0] = "station"] /\ vif'.map = {0} /\ vif'.flag = {0}
        /\ vif'.link = {} /\ vif'.opened = 1
    BY <1>2 DEF ProbeDone, NoVif
  <2>3. VifOK'
    <3>1. vif'.type[0] = "station" /\ vif'.type \in [Slots -> IfTypes \union {"none"}]
      BY <2>2, LifeAssumption DEF IfTypes
    <3>2. 0 \in Present' /\ Present' \subseteq {0} BY <2>2, <3>1, LifeAssumption DEF Present
    <3> QED BY <2>2, <3>1, <3>2, LifeAssumption DEF VifOK
  <2>4. RtnlOK' /\ rtnl'.pc = "idle" BY <2>1 DEF RtnlOK
  <2>5. Cardinality({0}) = 1 BY FS_Singleton
  <2>6. CountOK' BY <2>2, <2>4, <2>5 DEF CountOK
  <2>7. RecOK' BY <1>2, <2>1 DEF ProbeDone, RecOK, PassedOK, NoRec, NoWork
  <2> QED BY <2>1, <2>3, <2>4, <2>6, <2>7 DEF DrvOK
<1>3. CASE skw_drv_remove
  <2>1. DOMAIN drv' = DOMAIN drv /\ drv'.state = "absent" BY <1>3 DEF skw_drv_remove, DrvOK
  <2>2. /\ DOMAIN vif' = {"type", "map", "flag", "opened", "fw", "link", "skewed"}
        /\ vif'.type = [i \in Slots |-> "none"] /\ vif'.map = {} /\ vif'.flag = {}
        /\ vif'.link = {} /\ vif'.opened = 0
    BY <1>3 DEF skw_drv_remove, NoVif
  <2>3. VifOK' BY <2>2 DEF VifOK, Present
  <2>4. RtnlOK' /\ rtnl'.pc = "idle"
    BY <1>3, LifeAssumption DEF skw_drv_remove, RtnlOK, NoReq, IfTypes
  <2>5. CountOK' BY <2>2, <2>4, Counts DEF CountOK
  <2>6. RecOK' BY <1>3, <2>1 DEF skw_drv_remove, RecOK, PassedOK, NoRec, NoWork
  <2> QED BY <2>1, <2>3, <2>4, <2>5, <2>6 DEF DrvOK
<1> QED BY <1>1, <1>2, <1>3

\* A request that begins, and the peers that come and go.
LEMMA RequestStep ==
    ASSUME LifeInv,
           \/ skw_add_iface \/ skw_change_intf \/ skw_del_iface
           \/ skw_recovery_data_update \/ skw_recovery_data_clear
    PROVE  LifeInv'
<1> USE DEF LifeInv
<1>0. DOMAIN drv' = DOMAIN drv /\ drv'.state = drv.state
  BY DEF skw_add_iface, skw_change_intf, skw_del_iface, skw_recovery_data_update,
     skw_recovery_data_clear, DrvOK
<1>a. DrvOK' BY <1>0 DEF DrvOK
<1>b. UNCHANGED rec => RecOK' BY <1>0 DEF RecOK, PassedOK
<1>1. CASE skw_add_iface
  <2>1. PICK t \in IfTypes :
          /\ drv.state = "bound" /\ skw_alloc_inst # -1 /\ vif' = [vif EXCEPT !.map = @ \union {skw_alloc_inst}]
          /\ rtnl' = [kind |-> "add", id |-> skw_alloc_inst, type |-> t, pc |-> "open"] /\ UNCHANGED rec
    BY <1>1 DEF skw_add_iface
  <2> DEFINE a == skw_alloc_inst
  <2>2. a \in Slots \ vif.map BY <2>1, InstIs
  <2> HIDE DEF a
  <2>3. /\ DOMAIN vif' = DOMAIN vif /\ vif'.type = vif.type /\ vif'.map = vif.map \union {a} /\ vif'.flag = vif.flag
        /\ vif'.link = vif.link /\ vif'.opened = vif.opened /\ vif'.skewed = vif.skewed
    BY <2>1 DEF VifOK, a
  <2>4. VifOK' /\ Present' = Present BY <2>2, <2>3 DEF VifOK, Present
  <2>5. DOMAIN rtnl' = {"kind", "id", "type", "pc"} /\ rtnl'.id = a /\ rtnl'.type = t /\ rtnl'.kind = "add" /\ rtnl'.pc = "open"
    BY <2>1 DEF a
  <2>6. RtnlOK' BY <1>0, <2>1, <2>2, <2>3, <2>4, <2>5 DEF RtnlOK, VifOK
  <2>7. CountOK' BY <2>2, <2>3, <2>5 DEF CountOK, VifOK
  <2> QED BY <1>a, <1>b, <2>1, <2>4, <2>6, <2>7
<1>2. CASE skw_change_intf \/ skw_del_iface
  <2>1. PICK i \in Present :
          /\ drv.state = "bound" /\ UNCHANGED <<vif, rec>>
          /\ \/ rtnl' = [kind |-> "change", id |-> i, pc |-> "close", type |-> CHOOSE t \in IfTypes : t # vif.type[i]]
             \/ rtnl' = [kind |-> "del", id |-> i, type |-> vif.type[i], pc |-> "close"]
    BY <1>2 DEF skw_change_intf, skw_del_iface
  <2>2. i \in Slots /\ vif.type[i] \in IfTypes /\ i \in vif.map BY DEF Present, VifOK
  <2> DEFINE other == CHOOSE t \in IfTypes : t # vif.type[i]
  <2>3. other \in IfTypes
    <3>1. \E t \in IfTypes : t # vif.type[i] BY DEF IfTypes
    <3> QED BY <3>1
  <2>4. DOMAIN rtnl' = {"kind", "id", "type", "pc"} /\ rtnl'.id = i /\ rtnl'.type \in IfTypes
        /\ rtnl'.kind \in {"change", "del"} /\ rtnl'.pc = "close"
    <3>1. CASE rtnl' = [kind |-> "change", id |-> i, pc |-> "close", type |-> other]
      <4> HIDE DEF other
      <4> QED BY <2>3, <3>1
    <3>2. CASE rtnl' = [kind |-> "del", id |-> i, type |-> vif.type[i], pc |-> "close"] BY <2>2, <3>2
    <3> QED BY <2>1, <3>1, <3>2
  <2>5. RtnlOK' /\ VifOK' /\ CountOK' BY <1>0, <2>1, <2>2, <2>4 DEF RtnlOK, VifOK, Present, CountOK
  <2> QED BY <1>a, <1>b, <2>1, <2>5
<1>3. CASE skw_recovery_data_update
  <2>1. PICK i \in vif.flag \intersect Present :
          /\ vif' = [vif EXCEPT !.link = @ \union {i}] /\ UNCHANGED rtnl
          /\ rec' = [rec EXCEPT !.param = IF vif.type[i] = "ap" THEN @ \union {i} ELSE @]
    BY <1>3 DEF skw_recovery_data_update
  <2>2. /\ DOMAIN vif' = DOMAIN vif /\ vif'.type = vif.type /\ vif'.map = vif.map /\ vif'.flag = vif.flag
        /\ vif'.link = vif.link \union {i} /\ vif'.opened = vif.opened /\ vif'.skewed = vif.skewed
    BY <2>1 DEF VifOK
  <2>3. VifOK' /\ Present' = Present BY <2>2 DEF VifOK, Present
  <2>4. RtnlOK' /\ CountOK' BY <1>0, <2>1, <2>2, <2>3 DEF RtnlOK, CountOK
  <2>5. /\ DOMAIN rec' = DOMAIN rec /\ rec'.work = rec.work /\ rec'.had = rec.had /\ rec'.saved = rec.saved /\ rec'.chip = rec.chip
        /\ rec'.bsp = rec.bsp /\ rec'.todo = rec.todo /\ rec'.told = rec.told /\ rec'.failed = rec.failed
    BY <2>1 DEF RecOK
  <2>6. RecOK' BY <1>0, <2>5 DEF RecOK, PassedOK
  <2> QED BY <1>a, <2>3, <2>4, <2>6
<1>4. CASE skw_recovery_data_clear
  <2>1. PICK i \in rec.param :
          /\ vif' = [vif EXCEPT !.link = @ \ {i}] /\ UNCHANGED rtnl
          /\ rec' = [rec EXCEPT !.param = @ \ {i}, !.saved = @ \ {i}, !.told = @ \ {i}, !.had = @ \ {i}]
    BY <1>4 DEF skw_recovery_data_clear
  <2>2. /\ DOMAIN vif' = DOMAIN vif /\ vif'.type = vif.type /\ vif'.map = vif.map /\ vif'.flag = vif.flag
        /\ vif'.link = vif.link \ {i} /\ vif'.opened = vif.opened /\ vif'.skewed = vif.skewed
    BY <2>1 DEF VifOK
  <2>3. VifOK' /\ Present' = Present BY <2>2 DEF VifOK, Present
  <2>4. RtnlOK' /\ CountOK' BY <1>0, <2>1, <2>2, <2>3 DEF RtnlOK, CountOK
  <2>5. /\ DOMAIN rec' = DOMAIN rec /\ rec'.work = rec.work /\ rec'.had = rec.had \ {i} /\ rec'.saved = rec.saved \ {i}
        /\ rec'.chip = rec.chip /\ rec'.bsp = rec.bsp /\ rec'.todo = rec.todo /\ rec'.told = rec.told \ {i} /\ rec'.failed = rec.failed
    BY <2>1 DEF RecOK
  <2>6. RecOK' BY <1>0, <2>5 DEF RecOK, PassedOK
  <2> QED BY <1>a, <2>3, <2>4, <2>6
<1> QED BY <1>1, <1>2, <1>3, <1>4

\* The request opens the interface and marks it.
LEMMA OpenStep ==
    ASSUME LifeInv, skw_cmd_open_dev \/ skw_iface_setup
    PROVE  LifeInv'
<1> USE DEF LifeInv
<1> DEFINE i == rtnl.id
<1>0. DrvOK' /\ RecOK' /\ drv' = drv BY DEF skw_cmd_open_dev, skw_iface_setup, DrvOK, RecOK, PassedOK
<1>1. CASE skw_cmd_open_dev
  <2>1. PICK ok \in BOOLEAN :
          /\ rtnl.pc = "open"
          /\ vif' = IF ok /\ ~rec.assert THEN [vif EXCEPT !.fw = @ \union {rtnl.id}]
                    ELSE IF ok \/ rtnl.kind # "add" THEN vif
                    ELSE [vif EXCEPT !.map = @ \ {rtnl.id}]
          /\ rtnl' = IF ok THEN [rtnl EXCEPT !.pc = "mark"]
                     ELSE IF rtnl.kind = "change" /\ rtnl.type # vif.type[rtnl.id]
                     THEN [rtnl EXCEPT !.type = vif.type[rtnl.id]] ELSE NoReq
    BY <1>1 DEF skw_cmd_open_dev
  <2>2. /\ DOMAIN vif' = DOMAIN vif /\ vif'.type = vif.type /\ vif'.flag = vif.flag /\ vif'.link = vif.link
        /\ vif'.opened = vif.opened /\ vif'.skewed = vif.skewed
        /\ (vif'.map = vif.map \/ (~ok /\ rtnl.kind = "add" /\ vif'.map = vif.map \ {i}))
    BY <2>1 DEF VifOK
  <2>3. VifOK' /\ Present' = Present BY <2>1, <2>2 DEF VifOK, RtnlOK, Present
  <2>4. CASE ok
    <3>1. DOMAIN rtnl' = DOMAIN rtnl /\ rtnl'.id = i /\ rtnl'.type = rtnl.type /\ rtnl'.kind = rtnl.kind /\ rtnl'.pc = "mark"
      BY <2>1, <2>4 DEF RtnlOK
    <3>2. RtnlOK' /\ CountOK' BY <1>0, <2>1, <2>2, <2>3, <2>4, <3>1 DEF RtnlOK, CountOK
    <3> QED BY <1>0, <2>3, <3>2
  <2>5. CASE ~ok /\ rtnl' = [rtnl EXCEPT !.type = vif.type[rtnl.id]] /\ rtnl.kind = "change"
    <3>1. DOMAIN rtnl' = DOMAIN rtnl /\ rtnl'.id = i /\ rtnl'.type = vif.type[i] /\ rtnl'.kind = "change" /\ rtnl'.pc = "open"
      BY <2>1, <2>5 DEF RtnlOK
    <3>2. vif.type[i] \in IfTypes BY <2>1, <2>5 DEF RtnlOK, Present, VifOK
    <3>3. vif'.map = vif.map BY <2>2, <2>5
    <3>4. RtnlOK' /\ CountOK' BY <1>0, <2>1, <2>2, <2>3, <2>5, <3>1, <3>2, <3>3 DEF RtnlOK, CountOK
    <3> QED BY <1>0, <2>3, <3>4
  <2>6. CASE rtnl' = NoReq
    <3>1. DOMAIN rtnl' = DOMAIN rtnl /\ rtnl'.id = 0 /\ rtnl'.type = "station" /\ rtnl'.kind = "none" /\ rtnl'.pc = "idle"
      BY <2>6 DEF NoReq, RtnlOK
    <3>2. RtnlOK' /\ CountOK' BY <2>2, <3>1, LifeAssumption DEF RtnlOK, CountOK, IfTypes
    <3> QED BY <1>0, <2>3, <3>2
  <2> QED BY <2>1, <2>4, <2>5, <2>6
<1>2. CASE skw_iface_setup
  <2>1. PICK registered \in BOOLEAN :
          /\ rtnl.pc = "mark"
          /\ vif' = [vif EXCEPT !.flag = @ \union {rtnl.id}, !.opened = @ + 1, !.type[rtnl.id] = rtnl.type]
          /\ rtnl' = IF registered THEN NoReq ELSE [rtnl EXCEPT !.kind = "del", !.pc = "close"]
    BY <1>2 DEF skw_iface_setup
  <2>2. /\ DOMAIN vif' = DOMAIN vif /\ vif'.type = [vif.type EXCEPT ![i] = rtnl.type] /\ vif'.flag = vif.flag \union {i}
        /\ vif'.link = vif.link /\ vif'.opened = vif.opened + 1 /\ vif'.skewed = vif.skewed /\ vif'.map = vif.map
    BY <2>1 DEF VifOK
  <2>3. i \in Slots /\ rtnl.type \in IfTypes /\ i \in vif.map BY <2>1 DEF RtnlOK
  <2>4. vif'.type \in [Slots -> IfTypes \union {"none"}] /\ Present' = Present \union {i}
    <3>1. \A j \in Slots : vif'.type[j] = IF j = i THEN rtnl.type ELSE vif.type[j]
      BY <2>2, <2>3 DEF VifOK
    <3>2. rtnl.type # "none" BY <2>3 DEF IfTypes
    <3>3. vif'.type \in [Slots -> IfTypes \union {"none"}] BY <2>2, <2>3 DEF VifOK
    <3> QED BY <2>3, <3>1, <3>2, <3>3 DEF Present
  <2>5. VifOK' BY <2>2, <2>3, <2>4 DEF VifOK
  <2>6. DOMAIN rtnl' = DOMAIN rtnl /\ rtnl'.id \in Slots /\ rtnl'.type \in IfTypes
        /\ \/ rtnl'.pc = "idle" /\ rtnl'.kind = "none"
           \/ rtnl'.pc = "close" /\ rtnl'.kind = "del" /\ rtnl'.id = i
    <3>1. CASE registered BY <2>1, <3>1, LifeAssumption DEF NoReq, RtnlOK, IfTypes
    <3>2. CASE ~registered BY <2>1, <3>2 DEF RtnlOK
    <3> QED BY <3>1, <3>2
  <2>7. RtnlOK' BY <1>0, <2>1, <2>2, <2>3, <2>6 DEF RtnlOK
  <2>8. CountOK'
    <3> SUFFICES ASSUME ~vif'.skewed PROVE vif'.opened = Cardinality(vif'.flag) BY <2>6 DEF CountOK
    <3>1. vif.opened = Cardinality(vif.flag) /\ i \notin vif.flag /\ vif.flag \in SUBSET Slots
      BY <2>1, <2>2 DEF CountOK, VifOK, Present
    <3> HIDE DEF i
    <3>2. Cardinality(vif.flag \union {i}) = Cardinality(vif.flag) + 1 BY <2>3, <3>1, Counts
    <3> QED BY <2>2, <3>1, <3>2
  <2> QED BY <1>0, <2>5, <2>7, <2>8
<1> QED BY <1>1, <1>2

\* An interface that is removed is nowhere any more.
LEMMA GoneIs ==
    ASSUME VifOK, NEW i \in Slots, NEW v, DOMAIN v = DOMAIN vif, v.type = vif.type, v.map = vif.map, v.link \subseteq Slots,
           v.flag \subseteq vif.flag, v.opened \in Int, vif' = Gone(v, i)
    PROVE  /\ VifOK' /\ vif'.flag = v.flag \ {i} /\ vif'.opened = v.opened /\ vif'.skewed = v.skewed
           /\ Present' = Present \ {i} /\ vif'.map = vif.map \ {i}
<1>1. /\ DOMAIN vif' = DOMAIN v /\ vif'.type = [v.type EXCEPT ![i] = "none"] /\ vif'.map = v.map \ {i}
      /\ vif'.flag = v.flag \ {i} /\ vif'.link = v.link \ {i} /\ vif'.opened = v.opened /\ vif'.skewed = v.skewed
  BY DEF Gone, VifOK
<1>2. \A j \in Slots : vif'.type[j] = IF j = i THEN "none" ELSE vif.type[j] BY <1>1 DEF VifOK
<1>3. Present' = Present \ {i} /\ vif'.type \in [Slots -> IfTypes \union {"none"}]
  <2>1. vif'.type \in [Slots -> IfTypes \union {"none"}] BY <1>1 DEF VifOK
  <2> QED BY <1>2, <2>1 DEF Present
<1> QED BY <1>1, <1>3 DEF VifOK

\* The request closes the interface and unmarks it.
LEMMA CloseStep ==
    ASSUME LifeInv, skw_cmd_close_dev \/ skw_iface_teardown
    PROVE  LifeInv'
<1> USE DEF LifeInv
<1> DEFINE i == rtnl.id
<1>0. DrvOK' /\ drv' = drv /\ i \in Slots BY DEF skw_cmd_close_dev, skw_iface_teardown, DrvOK, RtnlOK
<1>a. rtnl' = NoReq => /\ DOMAIN rtnl' = DOMAIN rtnl /\ rtnl'.id \in Slots /\ rtnl'.type = "station" /\ rtnl'.kind = "none"
                       /\ rtnl'.pc = "idle" /\ RtnlOK'
  <2> SUFFICES ASSUME rtnl' = NoReq
               PROVE  /\ DOMAIN rtnl' = DOMAIN rtnl /\ rtnl'.id \in Slots /\ rtnl'.type = "station" /\ rtnl'.kind = "none"
                      /\ rtnl'.pc = "idle" /\ RtnlOK'
    OBVIOUS
  <2>1. /\ DOMAIN rtnl' = DOMAIN rtnl /\ rtnl'.id \in Slots /\ rtnl'.type = "station" /\ rtnl'.kind = "none" /\ rtnl'.pc = "idle"
    BY LifeAssumption DEF NoReq, RtnlOK
  <2> QED BY <2>1 DEF RtnlOK, IfTypes
<1>1. CASE skw_cmd_close_dev
  <2>1. PICK ok \in BOOLEAN :
          /\ rtnl.pc = "close" /\ (ok => i \in vif.flag)
          /\ IF ok THEN /\ vif' = [vif EXCEPT !.fw = @ \ {i}, !.link = @ \ {i}]
                        /\ rtnl' = [rtnl EXCEPT !.pc = "unmark"]
             ELSE /\ rtnl' = NoReq
                  /\ vif' = IF rtnl.kind = "del"
                            THEN [Gone(vif, i) EXCEPT !.skewed = @ \/ i \in vif.flag]
                            ELSE [vif EXCEPT !.link = @ \ {i}]
          /\ rec' = [rec EXCEPT !.had = @ \ {i}]
    BY <1>1 DEF skw_cmd_close_dev
  <2>2. RecOK'
    <3>1. /\ DOMAIN rec' = DOMAIN rec /\ rec'.work = rec.work /\ rec'.had = rec.had \ {i} /\ rec'.saved = rec.saved
          /\ rec'.chip = rec.chip /\ rec'.bsp = rec.bsp /\ rec'.todo = rec.todo /\ rec'.told = rec.told /\ rec'.failed = rec.failed
      BY <2>1 DEF RecOK
    <3> QED BY <1>0, <3>1 DEF RecOK, PassedOK
  <2>3. CASE ok
    <3>1. /\ DOMAIN vif' = DOMAIN vif /\ vif'.type = vif.type /\ vif'.map = vif.map /\ vif'.flag = vif.flag
          /\ vif'.link = vif.link \ {i} /\ vif'.opened = vif.opened /\ vif'.skewed = vif.skewed
      BY <2>1, <2>3 DEF VifOK
    <3>2. VifOK' /\ Present' = Present BY <3>1 DEF VifOK, Present
    <3>3. DOMAIN rtnl' = DOMAIN rtnl /\ rtnl'.id = i /\ rtnl'.type = rtnl.type /\ rtnl'.kind = rtnl.kind /\ rtnl'.pc = "unmark"
      BY <2>1, <2>3 DEF RtnlOK
    <3>4. RtnlOK' /\ CountOK' BY <1>0, <2>1, <2>3, <3>1, <3>2, <3>3 DEF RtnlOK, CountOK
    <3> QED BY <1>0, <2>2, <3>2, <3>4
  <2>4. CASE ~ok /\ rtnl.kind # "del"
    <3>1. /\ DOMAIN vif' = DOMAIN vif /\ vif'.type = vif.type /\ vif'.map = vif.map /\ vif'.flag = vif.flag
          /\ vif'.link = vif.link \ {i} /\ vif'.opened = vif.opened /\ vif'.skewed = vif.skewed
      BY <2>1, <2>4 DEF VifOK
    <3>2. VifOK' BY <3>1 DEF VifOK, Present
    <3>3. RtnlOK' /\ rtnl'.pc = "idle" BY <1>a, <2>1, <2>4
    <3>4. CountOK' BY <3>1, <3>3 DEF CountOK
    <3> QED BY <1>0, <2>2, <3>2, <3>3, <3>4
  <2>5. CASE ~ok /\ rtnl.kind = "del"
    <3> DEFINE missed == vif.skewed \/ i \in vif.flag
               v == [vif EXCEPT !.skewed = missed]
    <3>1. vif' = [Gone(vif, i) EXCEPT !.skewed = missed]
      <4>1. Gone(vif, i).skewed = vif.skewed BY DEF Gone, VifOK
      <4>2. vif' = [Gone(vif, i) EXCEPT !.skewed = Gone(vif, i).skewed \/ i \in vif.flag]
        BY <2>1, <2>5
      <4> QED BY <4>1, <4>2
    <3> HIDE DEF missed
    <3>2. vif' = Gone(v, i) BY <3>1 DEF Gone, VifOK
    <3>3. /\ DOMAIN v = DOMAIN vif /\ v.type = vif.type /\ v.map = vif.map /\ v.link = vif.link /\ v.flag = vif.flag
          /\ v.opened = vif.opened /\ v.skewed = missed
      BY DEF VifOK
    <3> HIDE DEF v
    <3>4. VifOK' /\ vif'.flag = vif.flag \ {i} /\ vif'.opened = vif.opened /\ vif'.skewed = missed
      BY <1>0, <3>2, <3>3, GoneIs DEF VifOK
    <3>5. RtnlOK' /\ rtnl'.pc = "idle" BY <1>a, <2>1, <2>5
    <3>6. ~missed => ~vif.skewed /\ i \notin vif.flag BY DEF missed
    <3>7. CountOK' BY <3>4, <3>5, <3>6 DEF CountOK
    <3> QED BY <1>0, <2>2, <3>4, <3>5, <3>7
  <2> QED BY <2>3, <2>4, <2>5
<1>2. CASE skw_iface_teardown
  <2> DEFINE v == [vif EXCEPT !.flag = @ \ {rtnl.id}, !.opened = @ - 1]
  <2>1. /\ rtnl.pc = "unmark" /\ rec' = rec
        /\ IF rtnl.kind = "del" THEN vif' = Gone(v, i) /\ rtnl' = NoReq
           ELSE vif' = v /\ rtnl' = [rtnl EXCEPT !.pc = "open"]
    BY <1>2 DEF skw_iface_teardown
  <2>2. RecOK' BY <1>0, <2>1 DEF RecOK, PassedOK
  <2>3. /\ DOMAIN v = DOMAIN vif /\ v.type = vif.type /\ v.map = vif.map /\ v.link = vif.link /\ v.flag = vif.flag \ {i}
        /\ v.opened = vif.opened - 1 /\ v.skewed = vif.skewed
    BY DEF VifOK
  <2> HIDE DEF v
  <2>4. ~vif.skewed => v.opened = Cardinality(v.flag)
    <3> SUFFICES ASSUME ~vif.skewed PROVE v.opened = Cardinality(v.flag) OBVIOUS
    <3>1. vif.opened = Cardinality(vif.flag) /\ i \in vif.flag /\ vif.flag \in SUBSET Slots
      BY <2>1 DEF CountOK, VifOK, Present
    <3> HIDE DEF i
    <3>2. Cardinality(vif.flag \ {i}) = Cardinality(vif.flag) - 1 BY <3>1, Counts
    <3> QED BY <2>3, <3>1, <3>2
  <2>5. CASE rtnl.kind = "del"
    <3>1. VifOK' /\ vif'.flag = v.flag \ {i} /\ vif'.opened = v.opened /\ vif'.skewed = v.skewed
      BY <1>0, <2>1, <2>3, <2>5, GoneIs DEF VifOK
    <3>2. RtnlOK' /\ rtnl'.pc = "idle" BY <1>a, <2>1, <2>5
    <3>3. v.flag \ {i} = v.flag BY <2>3
    <3>4. CountOK' BY <2>3, <2>4, <3>1, <3>2, <3>3 DEF CountOK
    <3> QED BY <1>0, <2>2, <3>1, <3>2, <3>4
  <2>6. CASE rtnl.kind # "del"
    <3>1. vif' = v /\ VifOK' /\ Present' = Present BY <2>1, <2>3, <2>6 DEF VifOK, Present
    <3>2. DOMAIN rtnl' = DOMAIN rtnl /\ rtnl'.id = i /\ rtnl'.type = rtnl.type /\ rtnl'.kind = rtnl.kind /\ rtnl'.pc = "open"
      BY <2>1, <2>6 DEF RtnlOK
    <3>3. RtnlOK' /\ CountOK' BY <1>0, <2>1, <2>3, <2>4, <3>1, <3>2 DEF RtnlOK, CountOK
    <3> QED BY <1>0, <2>2, <3>1, <3>3
  <2> QED BY <2>5, <2>6
<1> QED BY <1>1, <1>2

\* The firmware dies, comes back and is recovered.
LEMMA RecoveryStep ==
    ASSUME LifeInv, HadOK,
           \/ FwDies \/ FwReady \/ PrepareAll \/ RecoverySync \/ skw_recovery_iface
           \/ RecoveryMark \/ skw_recovery_work
    PROVE  LifeInv'
<1> USE DEF LifeInv
<1>0. DrvOK' /\ drv' = drv /\ rtnl' = rtnl
  BY DEF FwDies, FwReady, PrepareAll, RecoverySync, skw_recovery_iface, RecoveryMark,
     skw_recovery_work, DrvOK
<1>a. vif' = vif => VifOK' /\ RtnlOK' /\ CountOK' BY <1>0 DEF VifOK, Present, RtnlOK, CountOK
<1>b. ASSUME NEW fw, vif' = [vif EXCEPT !.fw = fw] PROVE VifOK' /\ RtnlOK' /\ CountOK'
  <2>1. /\ DOMAIN vif' = DOMAIN vif /\ vif'.type = vif.type /\ vif'.map = vif.map /\ vif'.flag = vif.flag
        /\ vif'.link = vif.link /\ vif'.opened = vif.opened /\ vif'.skewed = vif.skewed
    BY <1>b DEF VifOK
  <2>2. VifOK' /\ Present' = Present BY <2>1 DEF VifOK, Present
  <2> QED BY <1>0, <2>1, <2>2 DEF RtnlOK, CountOK
<1>1. CASE FwDies
  <2>1. /\ DOMAIN rec' = DOMAIN rec /\ rec'.work = rec.work /\ rec'.saved = rec.saved /\ drv.state = "bound"
        /\ rec'.chip = rec.chip /\ rec'.todo = rec.todo /\ rec'.told = rec.told /\ rec'.failed = rec.failed
        /\ rec'.had = IF rec.chip \/ rec.assert THEN rec.had ELSE vif.link
    BY <1>1 DEF FwDies, RecOK
  <2>2. RecOK' BY <1>0, <2>1 DEF RecOK, PassedOK, VifOK
  <2> QED BY <1>0, <1>1, <1>b, <2>2 DEF FwDies
<1>2. CASE FwReady
  <2>1. /\ DOMAIN rec' = DOMAIN rec /\ DOMAIN rec'.work = {"pc", "id"} /\ rec'.work.pc = "prepare" /\ rec'.had = rec.had
        /\ rec'.saved = rec.saved /\ rec'.chip = rec.chip /\ drv.state = "bound"
    BY <1>2 DEF FwReady, RecOK
  <2>2. RecOK' BY <1>0, <2>1 DEF RecOK, PassedOK
  <2> QED BY <1>0, <1>2, <1>a, <2>2 DEF FwReady
<1>3. CASE PrepareAll
  <2> DEFINE crossed == rtnl.pc \in {"mark", "unmark"}
             r == skw_recovery_prepare_peers(rec)
  <2>1. /\ rec.work.pc = "prepare" /\ rec' = [r EXCEPT !.work.pc = "sync", !.assert = FALSE, !.failed = {}]
        /\ vif' = [vif EXCEPT !.opened = 0, !.flag = @ \ Present, !.link = {}, !.skewed = crossed]
    BY <1>3 DEF PrepareAll
  <2>2. DOMAIN r = DOMAIN rec /\ r.work = rec.work /\ r.had \subseteq r.saved /\ r.had \subseteq Slots /\ r.chip
    <3>1. CASE rec.chip BY <3>1 DEF skw_recovery_prepare_peers, RecOK
    <3>2. CASE ~rec.chip
      <4>1. r = [rec EXCEPT !.chip = TRUE, !.saved = vif.link, !.told = {}]
        BY <3>2 DEF skw_recovery_prepare_peers
      <4> QED BY <3>2, <4>1 DEF RecOK, HadOK
    <3> QED BY <3>1, <3>2
  <2> HIDE DEF r
  <2>3. /\ DOMAIN rec' = DOMAIN rec /\ DOMAIN rec'.work = {"pc", "id"} /\ rec'.work.pc = "sync"
        /\ rec'.had = r.had /\ rec'.saved = r.saved /\ rec'.chip /\ drv.state = "bound"
    BY <2>1, <2>2 DEF RecOK
  <2>4. RecOK' BY <1>0, <2>2, <2>3 DEF RecOK, PassedOK
  <2>5. ~crossed => rtnl.pc \notin {"mark", "unmark"} OBVIOUS
  <2> HIDE DEF crossed
  <2>6. /\ DOMAIN vif' = DOMAIN vif /\ vif'.type = vif.type /\ vif'.map = vif.map /\ vif'.flag = {}
        /\ vif'.link = {} /\ vif'.opened = 0 /\ vif'.skewed = crossed
    BY <2>1 DEF VifOK
  <2>7. VifOK' /\ Present' = Present BY <2>6 DEF VifOK, Present
  <2>8. RtnlOK' BY <1>0, <2>6, <2>7 DEF RtnlOK
  <2>9. CountOK' BY <1>0, <2>5, <2>6, Counts DEF CountOK
  <2> QED BY <1>0, <2>4, <2>7, <2>8, <2>9
<1>4. CASE RecoverySync
  <2>1. /\ rec.work.pc = "sync" /\ vif' = vif
        /\ \/ rec' = [rec EXCEPT !.work.pc = "next", !.todo = Slots]
           \/ rec' = [rec EXCEPT !.work = NoWork]
    BY <1>4 DEF RecoverySync
  <2>2. drv.state = "bound" BY <2>1 DEF RecOK
  <2>3. CASE rec' = [rec EXCEPT !.work.pc = "next", !.todo = Slots]
    <3>1. /\ DOMAIN rec' = DOMAIN rec /\ DOMAIN rec'.work = {"pc", "id"} /\ rec'.had = rec.had
          /\ rec'.saved = rec.saved /\ rec'.todo = Slots /\ rec'.chip = rec.chip /\ rec.chip
      BY <2>1, <2>3 DEF RecOK
    <3>2. RecOK' BY <1>0, <2>2, <3>1 DEF RecOK, PassedOK
    <3> QED BY <1>0, <1>a, <2>1, <3>2
  <2>4. CASE rec' = [rec EXCEPT !.work = NoWork]
    <3>1. /\ DOMAIN rec' = DOMAIN rec /\ DOMAIN rec'.work = {"pc", "id"} /\ rec'.had = rec.had
          /\ rec'.saved = rec.saved /\ rec'.work.pc = "idle" /\ rec'.chip = rec.chip
      BY <2>4 DEF RecOK, NoWork
    <3>2. RecOK' BY <1>0, <2>2, <3>1 DEF RecOK, PassedOK
    <3> QED BY <1>0, <1>a, <2>1, <3>2
  <2> QED BY <2>1, <2>3, <2>4
<1>5. CASE skw_recovery_iface
  <2>1. PICK i \in NextIface :
          /\ rec.work.pc = "next"
          /\ \/ rec' = [rec EXCEPT !.work = NoWork, !.assert = TRUE] /\ UNCHANGED vif
             \/ /\ rec' = [rec EXCEPT !.work = [pc |-> "mark", id |-> i], !.todo = @ \ {i}]
                /\ vif' = [vif EXCEPT !.fw = @ \union {i}]
    BY <1>5 DEF skw_recovery_iface
  <2>2. drv.state = "bound" BY <2>1 DEF RecOK
  <2>3. CASE rec' = [rec EXCEPT !.work = NoWork, !.assert = TRUE] /\ UNCHANGED vif
    <3>1. /\ DOMAIN rec' = DOMAIN rec /\ DOMAIN rec'.work = {"pc", "id"} /\ rec'.had = rec.had
          /\ rec'.saved = rec.saved /\ rec'.work.pc = "idle" /\ rec'.chip = rec.chip
      BY <2>3 DEF RecOK, NoWork
    <3>2. RecOK' BY <1>0, <2>2, <3>1 DEF RecOK, PassedOK
    <3> QED BY <1>0, <1>a, <2>3, <3>2
  <2>4. CASE /\ rec' = [rec EXCEPT !.work = [pc |-> "mark", id |-> i], !.todo = @ \ {i}]
             /\ vif' = [vif EXCEPT !.fw = @ \union {i}]
    <3>1. /\ DOMAIN rec' = DOMAIN rec /\ DOMAIN rec'.work = {"pc", "id"} /\ rec'.work.pc = "mark" /\ rec'.work.id = i
          /\ rec'.had = rec.had /\ rec'.saved = rec.saved /\ rec'.todo = rec.todo \ {i} /\ rec'.told = rec.told
          /\ rec'.failed = rec.failed /\ rec'.chip = rec.chip
      BY <2>4 DEF RecOK
    <3>2. RecOK' BY <1>0, <2>1, <2>2, <3>1 DEF RecOK, PassedOK
    <3> QED BY <1>0, <1>b, <2>4, <3>2
  <2> QED BY <2>1, <2>3, <2>4
<1>6. CASE RecoveryMark
  <2> DEFINE i == rec.work.id
             missed == vif.skewed \/ i \notin Present \/ i \in vif.flag \/ (rtnl.id = i /\ rtnl.pc # "idle")
             mark == IF i \in Present THEN vif.flag \union {i} ELSE vif.flag
  <2>1. PICK restarted \in BOOLEAN :
          /\ rec.work.pc = "mark"
          /\ vif' = [vif EXCEPT !.flag = mark, !.opened = @ + 1, !.skewed = missed]
          /\ rec' = [rec EXCEPT !.work.pc = "next", !.told = RecoveryTold(i, restarted),
                                !.failed = IF RecoveryFails(i, restarted) THEN @ \union {i} ELSE @]
    BY <1>6 DEF RecoveryMark
  <2> DEFINE told == RecoveryTold(i, restarted)
             failed == IF RecoveryFails(i, restarted) THEN rec.failed \union {i} ELSE rec.failed
  <2>2. /\ rec.told \subseteq told /\ rec.failed \subseteq failed /\ drv.state = "bound"
        /\ i \in rec.had => i \in told \union failed
    BY <2>1 DEF RecoveryTold, RecOK
  <2>3. mark \subseteq Present /\ vif.flag \subseteq mark BY DEF VifOK
  <2>4. ~missed => ~vif.skewed /\ i \in Present /\ i \notin vif.flag /\ mark = vif.flag \union {i} /\ (rtnl.pc # "idle" => rtnl.id # i)
    OBVIOUS
  <2> HIDE DEF missed, mark, told, failed
  <2>5. /\ DOMAIN vif' = DOMAIN vif /\ vif'.type = vif.type /\ vif'.map = vif.map /\ vif'.flag = mark
        /\ vif'.link = vif.link /\ vif'.opened = vif.opened + 1 /\ vif'.skewed = missed
    BY <2>1 DEF VifOK
  <2>6. VifOK' /\ Present' = Present BY <2>3, <2>5 DEF VifOK, Present
  <2>7. RtnlOK' BY <1>0, <2>5, <2>6 DEF RtnlOK
  <2>8. CountOK'
    <3> SUFFICES ASSUME ~missed
                 PROVE  /\ vif'.opened = Cardinality(vif'.flag)
                        /\ rtnl.pc \in {"open", "mark"} => rtnl.id \notin vif'.flag
                        /\ rtnl.pc = "unmark" => rtnl.id \in vif'.flag
      BY <1>0, <2>5 DEF CountOK
    <3>1. /\ vif.opened = Cardinality(vif.flag) /\ vif.flag \in SUBSET Slots /\ i \in Slots \ vif.flag
          /\ (rtnl.pc \in {"open", "mark"} => rtnl.id \notin vif.flag) /\ (rtnl.pc = "unmark" => rtnl.id \in vif.flag)
      BY <2>4 DEF CountOK, VifOK, Present
    <3> HIDE DEF i
    <3>2. Cardinality(vif.flag \union {i}) = Cardinality(vif.flag) + 1 BY <3>1, Counts
    <3> QED BY <2>4, <2>5, <3>1, <3>2
  <2>9. /\ DOMAIN rec' = DOMAIN rec /\ DOMAIN rec'.work = {"pc", "id"} /\ rec'.work.pc = "next" /\ rec'.had = rec.had
        /\ rec'.saved = rec.saved /\ rec'.todo = rec.todo /\ rec'.told = told
        /\ rec'.failed = failed /\ rec'.chip = rec.chip
    BY <2>1 DEF RecOK, told, failed
  <2>10. RecOK'
    <3>1. ASSUME NEW j \in rec'.had PROVE j \in rec'.todo \union rec'.told \union rec'.failed
      <4>1. j \in rec.had BY <2>9, <3>1
      <4>2. j \in rec.todo \union rec.told \union rec.failed \/ rec.work.id = j BY <2>1, <4>1 DEF RecOK, PassedOK
      <4>3. j \in rec.todo \union told \union failed BY <2>2, <4>1, <4>2
      <4> QED BY <2>9, <4>3
    <3>2. rec.chip BY <2>1 DEF RecOK
    <3> QED BY <1>0, <2>2, <2>9, <3>1, <3>2 DEF RecOK, PassedOK
  <2> QED BY <1>0, <2>6, <2>7, <2>8, <2>10
<1>7. CASE skw_recovery_work
  <2>1. /\ DOMAIN rec' = DOMAIN rec /\ DOMAIN rec'.work = {"pc", "id"} /\ rec'.work.pc = "idle" /\ rec'.had \subseteq Slots
        /\ rec'.chip = FALSE /\ rec'.bsp = rec.bsp /\ vif' = vif
    BY <1>7 DEF skw_recovery_work, RecOK, NoWork, VifOK
  <2>2. RecOK' BY <1>0, <2>1 DEF RecOK, PassedOK
  <2> QED BY <1>0, <1>a, <2>1, <2>2
<1> QED BY <1>1, <1>2, <1>3, <1>4, <1>5, <1>6, <1>7

\* The peers of before the death are kept.
LEMMA HadStep == ASSUME LifeInv, HadOK, LifeNext PROVE HadOK'
<1> USE DEF LifeInv, HadOK
<1>1. CASE \/ skw_drv_probe \/ ProbeRefused \/ ProbeHollow \/ HollowRemove \/ skw_add_iface \/ skw_change_intf \/ skw_del_iface
  <2>1. vif'.link = vif.link /\ rec' = rec /\ (rtnl'.pc = "unmark" => rtnl' = rtnl)
    BY <1>1 DEF skw_drv_probe, ProbeRefused, ProbeHollow, ProbeFails, HollowRemove, skw_add_iface, skw_change_intf,
       skw_del_iface, VifOK
  <2> QED BY <2>1
<1>2. CASE ProbeDone \/ skw_drv_remove
  <2>1. rec' = [NoRec EXCEPT !.n = rec.n] BY <1>2 DEF ProbeDone, skw_drv_remove
  <2>2. rec'.had = {} BY <2>1 DEF NoRec
  <2>3. vif'.link = {}
    <3>1. CASE ProbeDone BY <3>1 DEF ProbeDone, NoVif
    <3>2. CASE skw_drv_remove BY <3>2 DEF skw_drv_remove, NoVif
    <3> QED BY <1>2, <3>1, <3>2
  <2> QED BY <2>2, <2>3
<1>3. CASE skw_recovery_data_update
  <2>1. rec'.had = rec.had /\ rec'.chip = rec.chip /\ vif.link \subseteq vif'.link /\ rtnl' = rtnl /\ rtnl.pc = "idle"
    BY <1>3 DEF skw_recovery_data_update, RecOK, VifOK
  <2> QED BY <2>1
<1>4. CASE skw_recovery_data_clear
  <2>1. PICK i \in rec.param :
          /\ vif' = [vif EXCEPT !.link = @ \ {i}] /\ rtnl' = rtnl
          /\ rec' = [rec EXCEPT !.param = @ \ {i}, !.saved = @ \ {i}, !.told = @ \ {i}, !.had = @ \ {i}]
    BY <1>4 DEF skw_recovery_data_clear
  <2>2. rec'.had = rec.had \ {i} /\ rec'.chip = rec.chip BY <2>1 DEF RecOK
  <2>3. vif'.link = vif.link \ {i} BY <2>1 DEF VifOK
  <2> QED BY <2>1, <2>2, <2>3
<1>c. CASE skw_cmd_close_dev
  <2> DEFINE i == rtnl.id
  <2>1. PICK ok \in BOOLEAN :
          /\ IF ok THEN vif' = [vif EXCEPT !.fw = @ \ {i}, !.link = @ \ {i}] /\ rtnl' = [rtnl EXCEPT !.pc = "unmark"]
             ELSE /\ rtnl' = NoReq
                  /\ vif' = IF rtnl.kind = "del" THEN [Gone(vif, i) EXCEPT !.skewed = @ \/ i \in vif.flag]
                            ELSE [vif EXCEPT !.link = @ \ {i}]
          /\ rec' = [rec EXCEPT !.had = @ \ {i}]
    BY <1>c DEF skw_cmd_close_dev
  <2>2. rec'.had = rec.had \ {i} /\ rec'.chip = rec.chip BY <2>1 DEF RecOK
  <2>3. vif'.link = vif.link \ {i}
    <3>1. CASE vif' = [vif EXCEPT !.fw = @ \ {i}, !.link = @ \ {i}] BY <3>1 DEF VifOK
    <3>2. CASE vif' = [Gone(vif, i) EXCEPT !.skewed = @ \/ i \in vif.flag] BY <3>2 DEF VifOK, Gone
    <3>3. CASE vif' = [vif EXCEPT !.link = @ \ {i}] BY <3>3 DEF VifOK
    <3> QED BY <2>1, <3>1, <3>2, <3>3
  <2>4. rtnl'.pc = "unmark" => rtnl'.id = i
    <3>1. CASE rtnl' = NoReq BY <3>1 DEF NoReq
    <3>2. CASE rtnl' = [rtnl EXCEPT !.pc = "unmark"] BY <3>2 DEF RtnlOK
    <3> QED BY <2>1, <3>1, <3>2
  <2> QED BY <2>2, <2>3, <2>4
<1>5. CASE skw_cmd_open_dev \/ skw_iface_setup
  <2>1. rec' = rec BY <1>5 DEF skw_cmd_open_dev, skw_iface_setup
  <2>2. vif'.link = vif.link
    <3>1. CASE skw_cmd_open_dev BY <3>1 DEF skw_cmd_open_dev, VifOK
    <3>2. CASE skw_iface_setup BY <3>2 DEF skw_iface_setup, VifOK
    <3> QED BY <1>5, <3>1, <3>2
  <2>3. rtnl'.pc # "unmark"
    <3>1. CASE skw_cmd_open_dev BY <3>1 DEF skw_cmd_open_dev, NoReq, RtnlOK
    <3>2. CASE skw_iface_setup BY <3>2 DEF skw_iface_setup, NoReq, RtnlOK
    <3> QED BY <1>5, <3>1, <3>2
  <2> QED BY <2>1, <2>2, <2>3
<1>6. CASE skw_iface_teardown
  <2> DEFINE v == [vif EXCEPT !.flag = @ \ {rtnl.id}, !.opened = @ - 1]
  <2>1. /\ rtnl.pc = "unmark" /\ rec' = rec
        /\ \/ vif' = Gone(v, rtnl.id) /\ rtnl' = NoReq
           \/ vif' = v /\ rtnl' = [rtnl EXCEPT !.pc = "open"]
    BY <1>6 DEF skw_iface_teardown
  <2>2. vif'.link \in {vif.link, vif.link \ {rtnl.id}}
    <3>1. DOMAIN v = DOMAIN vif /\ v.link = vif.link BY DEF VifOK
    <3> HIDE DEF v
    <3>2. CASE vif' = Gone(v, rtnl.id) BY <3>1, <3>2 DEF VifOK, Gone
    <3> QED BY <2>1, <3>1, <3>2
  <2>3. rtnl'.pc # "unmark" BY <2>1 DEF NoReq, RtnlOK
  <2> HIDE DEF v
  <2> QED BY <2>1, <2>2, <2>3
<1>7. CASE FwDies \/ FwReady \/ RecoverySync \/ skw_recovery_iface \/ RecoveryMark
  <2>1. /\ rec'.had \in {rec.had, vif.link} /\ rec'.chip = rec.chip /\ vif'.link = vif.link /\ rtnl' = rtnl
    BY <1>7 DEF FwDies, FwReady, RecoverySync, skw_recovery_iface, RecoveryMark, RecOK, VifOK
  <2> QED BY <2>1
<1>8. CASE PrepareAll
  <2>1. rec'.chip /\ vif'.link = {} BY <1>8 DEF PrepareAll, skw_recovery_prepare_peers, RecOK, VifOK
  <2> QED BY <2>1
<1>9. CASE skw_recovery_work
  <2>1. rec'.had \in {{}, vif.link} /\ vif' = vif /\ rtnl' = rtnl BY <1>9 DEF skw_recovery_work, RecOK
  <2> QED BY <2>1
<1> QED BY <1>1, <1>2, <1>3, <1>4, <1>c, <1>5, <1>6, <1>7, <1>8, <1>9 DEF LifeNext

\* Every step keeps the invariant.
LEMMA LifeStep == LifeInv /\ HadOK /\ [LifeNext]_lifeVars => LifeInv' /\ HadOK'
<1>1. LifeInv /\ HadOK /\ UNCHANGED lifeVars => LifeInv' /\ HadOK'
  BY DEF lifeVars, LifeInv, DrvOK, VifOK, Present, RtnlOK, CountOK, RecOK, PassedOK, HadOK
<1> QED BY <1>1, ProbeStep, RequestStep, OpenStep, CloseStep, RecoveryStep, HadStep DEF LifeNext

\* The invariant holds in every behaviour.
LEMMA LifeInvariance == LifeSpec => []LifeInv
<1>1. LifeInit => HadOK BY DEF LifeInit, NoRec, NoReq, HadOK
<1> QED BY <1>1, LifeBegin, LifeStep, PTL DEF LifeSpec

\* opened_dev counts the interfaces that are marked OPENED, but after a
\* CLOSE_DEV was refused or a recovery crossed a request between its
\* command and its mark (skw_iface_setup, skw_iface_teardown, the recovery
\* work): for any number of instances, requests and deaths of the firmware.
THEOREM OpenedCounts == LifeSpec => []OpenedIsCounted
<1>1. LifeInv => OpenedIsCounted
  <2> SUFFICES ASSUME LifeInv PROVE OpenedIsCounted OBVIOUS
  <2>1. vif.flag \intersect Present = vif.flag BY DEF LifeInv, VifOK
  <2> QED BY <2>1 DEF LifeInv, CountOK, OpenedIsCounted
<1> QED BY <1>1, LifeInvariance, PTL

\* A recovery that ends, however often it was begun again, has told the
\* user of every interface that had a peer when the firmware first died,
\* but for an AP that could not be restarted (skw_recovery_work,
\* skw_recovery_sta, skw_recovery_sap).
THEOREM RecoveryIsTold == LifeSpec => RecoveryTells
<1>1. LifeInv /\ [LifeNext]_lifeVars =>
        [rec.chip /\ ~rec'.chip /\ drv'.state = "bound" => rec.had \intersect Present \subseteq rec.told \union rec.failed]_lifeVars
  <2> SUFFICES ASSUME LifeInv, LifeNext, rec.chip, ~rec'.chip, drv'.state = "bound"
               PROVE  rec.had \intersect Present \subseteq rec.told \union rec.failed
    OBVIOUS
  <2> USE DEF LifeInv
  <2>1. CASE skw_recovery_work
    <3>1. rec.work.pc = "next" /\ NextIface = {} BY <2>1 DEF skw_recovery_work
    <3>2. rec.todo \intersect Present = {} BY <3>1 DEF NextIface
    <3> QED BY <3>1, <3>2 DEF RecOK, PassedOK
  <2>2. CASE ProbeDone BY <2>2 DEF ProbeDone, RecOK
  <2>3. CASE skw_drv_remove BY <2>3 DEF skw_drv_remove, DrvOK
  <2>4. CASE PrepareAll
    <3>1. rec' = [skw_recovery_prepare_peers(rec) EXCEPT !.work.pc = "sync", !.assert = FALSE, !.failed = {}]
      BY <2>4 DEF PrepareAll
    <3>2. rec'.chip BY <3>1 DEF skw_recovery_prepare_peers, RecOK
    <3> QED BY <3>2
  <2>5. CASE \/ skw_drv_probe \/ ProbeRefused \/ ProbeHollow \/ HollowRemove \/ skw_add_iface \/ skw_change_intf \/ skw_del_iface
             \/ skw_cmd_open_dev \/ skw_iface_setup \/ skw_iface_teardown
    <3>1. rec' = rec BY <2>5 DEF skw_drv_probe, ProbeRefused, ProbeHollow, ProbeFails, HollowRemove,
         skw_add_iface, skw_change_intf, skw_del_iface, skw_cmd_open_dev, skw_iface_setup,
         skw_iface_teardown
    <3> QED BY <3>1
  <2>6. CASE skw_recovery_data_update \/ skw_recovery_data_clear \/ skw_cmd_close_dev \/ FwDies \/ FwReady
    <3>1. rec'.chip = rec.chip
      BY <2>6 DEF skw_recovery_data_update, skw_recovery_data_clear, skw_cmd_close_dev, FwDies,
         FwReady, RecOK
    <3> QED BY <3>1
  <2>7. CASE RecoverySync \/ skw_recovery_iface \/ RecoveryMark
    <3>1. rec'.chip = rec.chip BY <2>7 DEF RecoverySync, skw_recovery_iface, RecoveryMark, RecOK
    <3> QED BY <3>1
  <2> QED BY <2>1, <2>2, <2>3, <2>4, <2>5, <2>6, <2>7 DEF LifeNext
<1> QED BY <1>1, LifeInvariance, PTL DEF LifeSpec, RecoveryTells

\* The count's bounds.  The interfaces that may be opened without a request
\* once more: none until a recovery walks, then those it has opened again.
Reopened ==
    CASE rec.work.pc = "sync" -> {} [] rec.work.pc = "next" -> Slots \ rec.todo
      [] rec.work.pc = "mark" -> Slots \ (rec.todo \union {rec.work.id}) [] OTHER -> Slots
\* A request that is served may still count one more, or one less.
MayMark == IF rtnl.pc \in {"open", "mark"} \/ (rtnl.kind = "change" /\ rtnl.pc # "idle") THEN 1 ELSE 0
MayUnmark == IF rtnl.pc \in {"close", "unmark"} THEN 1 ELSE 0
CountBounded ==
    /\ drv.n \in Nat /\ (drv.n <= MaxLifeOps \/ (drv.state = "absent" /\ vif.opened = 0))
    /\ rtnl.pc # "idle" => drv.n > 0
    /\ MayUnmark - drv.n <= vif.opened /\ vif.opened <= Cardinality(Reopened) + drv.n - MayMark
\* The rest of the type, and where the recovery's walk is.
LifeFields ==
    /\ drv.bits \subseteq 0..(MaxChips - 1) /\ drv.state \in {"absent", "probing", "bound", "hollow"}
    /\ vif.fw \subseteq Slots /\ rec.told \subseteq rec.saved /\ rec.saved \subseteq Slots /\ rec.failed \subseteq Slots
    /\ rec.param \subseteq Slots /\ rec.todo \subseteq Slots
    /\ rec.work.pc = "mark" => rec.work.id \in Slots \ rec.todo
LifeBounded == LifeFields /\ CountBounded

\* The interfaces that were opened again are some of the instances.
LEMMA ReopenedIs ==
    ASSUME NEW R \in SUBSET Slots
    PROVE  /\ Cardinality(R) \in Nat /\ Cardinality(R) <= Cardinality(Slots)
           /\ Cardinality(Slots) \in Nat /\ Cardinality(Slots) > 0 /\ Cardinality({}) = 0
           /\ \A i \in Slots \ R : Cardinality(R \union {i}) = Cardinality(R) + 1
<1>1. IsFiniteSet(Slots) /\ Slots # {} BY LifeAssumption
<1>2. Cardinality(R) <= Cardinality(Slots) BY <1>1, FS_Subset
<1>3. Cardinality(Slots) \in Nat /\ Cardinality(Slots) # 0 BY <1>1, FS_CardinalityType, FS_EmptySet
<1> QED BY <1>2, <1>3, Counts

\* An index that is handed out is one of those there are.
LEMMA ChipIndex ==
    ASSUME NEW bits
    PROVE  skw_add_chip_idx(bits) = 0 \/ skw_add_chip_idx(bits) - 1 \in 0..(MaxChips - 1)
<1> DEFINE T == (0..(MaxChips - 1)) \ bits
<1>1. T \in SUBSET Nat BY LifeAssumption
<1> SUFFICES ASSUME T # {} PROVE Min(T) \in 0..(MaxChips - 1) BY LifeAssumption DEF skw_add_chip_idx
<1>2. \E x \in T : \A y \in T : x <= y BY <1>1, LeastExists
<1>3. T \subseteq 0..(MaxChips - 1) OBVIOUS
<1> HIDE DEF T
<1> QED BY <1>2, <1>3 DEF Min

\* What probe and remove leave.
LEMMA FreshIs ==
    ASSUME LifeInv, ProbeDone \/ skw_drv_remove
    PROVE  /\ drv'.n = drv.n /\ drv'.state \in {"bound", "absent"} /\ drv'.bits \subseteq drv.bits /\ drv.state # "absent"
           /\ vif'.opened \in 0..1 /\ vif'.fw \subseteq {0} /\ rtnl'.pc = "idle" /\ rec'.work.pc = "idle"
           /\ rec'.told = {} /\ rec'.saved = {} /\ rec'.failed = {} /\ rec'.param = {} /\ rec'.todo = {}
<1>1. rec' = [NoRec EXCEPT !.n = rec.n] BY DEF ProbeDone, skw_drv_remove
<1>2. /\ rec'.work.pc = "idle" /\ rec'.told = {} /\ rec'.saved = {} /\ rec'.failed = {} /\ rec'.param = {}
      /\ rec'.todo = {}
  BY <1>1 DEF NoRec, NoWork
<1>3. CASE ProbeDone
  <2>1. drv'.n = drv.n /\ drv'.state = "bound" /\ drv'.bits = drv.bits /\ drv.state = "probing"
    BY <1>3 DEF ProbeDone, LifeInv, DrvOK
  <2>2. vif'.opened = 1 /\ vif'.fw = {0} BY <1>3 DEF ProbeDone, NoVif
  <2>3. rtnl'.pc = "idle" BY <1>3, <2>1 DEF ProbeDone, LifeInv, RtnlOK
  <2> QED BY <1>2, <2>1, <2>2, <2>3
<1>4. CASE skw_drv_remove
  <2>1. drv'.n = drv.n /\ drv'.state = "absent" /\ drv'.bits \subseteq drv.bits /\ drv.state = "bound"
    BY <1>4 DEF skw_drv_remove, skw_dec_chip_idx, LifeInv, DrvOK
  <2>2. vif'.opened = 0 /\ vif'.fw = {} BY <1>4 DEF skw_drv_remove, NoVif
  <2>3. rtnl'.pc = "idle" BY <1>4 DEF skw_drv_remove, NoReq
  <2> QED BY <1>2, <2>1, <2>2, <2>3
<1> QED BY <1>3, <1>4

\* The greeting begins the walk, or ends the recovery.
LEMMA SyncIs ==
    ASSUME LifeInv, RecoverySync
    PROVE  /\ UNCHANGED <<drv, vif, rtnl>> /\ rec.work.pc = "sync"
           /\ rec'.told = rec.told /\ rec'.saved = rec.saved /\ rec'.failed = rec.failed /\ rec'.param = rec.param
           /\ \/ rec'.work.pc = "next" /\ rec'.todo = Slots
              \/ rec'.work.pc = "idle" /\ rec'.todo = rec.todo
<1>1. /\ rec.work.pc = "sync" /\ UNCHANGED <<drv, vif, rtnl>>
      /\ \/ rec' = [rec EXCEPT !.work.pc = "next", !.todo = Slots]
         \/ rec' = [rec EXCEPT !.work = NoWork]
  BY DEF RecoverySync
<1>2. CASE rec' = [rec EXCEPT !.work.pc = "next", !.todo = Slots] BY <1>1, <1>2 DEF LifeInv, RecOK
<1>3. CASE rec' = [rec EXCEPT !.work = NoWork] BY <1>1, <1>3 DEF LifeInv, RecOK, NoWork
<1> QED BY <1>1, <1>2, <1>3

\* An interface that a recovery opens again is one it had still to do.
LEMMA IfaceIs ==
    ASSUME LifeInv, skw_recovery_iface
    PROVE  \E i \in rec.todo :
             /\ UNCHANGED <<drv, rtnl>> /\ vif'.opened = vif.opened /\ vif'.fw \subseteq vif.fw \union {i} /\ rec.work.pc = "next"
             /\ rec'.told = rec.told /\ rec'.saved = rec.saved /\ rec'.failed = rec.failed /\ rec'.param = rec.param
             /\ \/ rec'.work.pc = "idle" /\ rec'.todo = rec.todo
                \/ rec'.work.pc = "mark" /\ rec'.work.id = i /\ rec'.todo = rec.todo \ {i}
<1>1. PICK i \in NextIface, ok \in BOOLEAN :
        /\ rec.work.pc = "next" /\ UNCHANGED <<drv, rtnl>>
        /\ IF rec.assert \/ ~ok
           THEN rec' = [rec EXCEPT !.work = NoWork, !.assert = TRUE] /\ UNCHANGED vif
           ELSE /\ rec' = [rec EXCEPT !.work = [pc |-> "mark", id |-> i], !.todo = @ \ {i}]
                /\ vif' = [vif EXCEPT !.fw = @ \union {i}]
  BY DEF skw_recovery_iface
<1>2. i \in rec.todo BY DEF NextIface
<1>3. CASE rec.assert \/ ~ok
  <2>1. rec' = [rec EXCEPT !.work = NoWork, !.assert = TRUE] /\ UNCHANGED vif BY <1>1, <1>3
  <2>2. /\ rec'.told = rec.told /\ rec'.saved = rec.saved /\ rec'.failed = rec.failed /\ rec'.param = rec.param
        /\ rec'.work.pc = "idle" /\ rec'.todo = rec.todo
    BY <2>1 DEF NoWork, LifeInv, RecOK
  <2> QED BY <1>1, <1>2, <2>1, <2>2
<1>4. CASE ~(rec.assert \/ ~ok)
  <2>1. /\ rec' = [rec EXCEPT !.work = [pc |-> "mark", id |-> i], !.todo = @ \ {i}]
        /\ vif' = [vif EXCEPT !.fw = @ \union {i}]
    BY <1>1, <1>4
  <2>2. /\ rec'.told = rec.told /\ rec'.saved = rec.saved /\ rec'.failed = rec.failed /\ rec'.param = rec.param
        /\ rec'.work.pc = "mark" /\ rec'.work.id = i /\ rec'.todo = rec.todo \ {i}
    BY <2>1 DEF LifeInv, RecOK
  <2>3. vif'.opened = vif.opened /\ vif'.fw = vif.fw \union {i} BY <2>1 DEF LifeInv, VifOK
  <2> QED BY <1>1, <1>2, <2>2, <2>3
<1> QED BY <1>3, <1>4

\* Every step keeps the types of the fields.
LEMMA FieldsStep == LifeInv /\ LifeFields /\ LifeNext => LifeFields'
<1> SUFFICES ASSUME LifeInv, LifeFields, LifeNext PROVE LifeFields' OBVIOUS
<1> USE DEF LifeInv, LifeFields
<1>1. CASE skw_drv_probe
  <2> DEFINE idx == skw_add_chip_idx(drv.bits)
  <2>1. idx = 0 \/ idx - 1 \in 0..(MaxChips - 1) BY ChipIndex
  <2>2. drv' = [drv EXCEPT !.state = "probing", !.idx = idx, !.n = @ + 1, !.bits = IF idx = 0 THEN @ ELSE @ \union {idx - 1}]
        /\ UNCHANGED <<vif, rtnl, rec>>
    BY <1>1 DEF skw_drv_probe
  <2> HIDE DEF idx
  <2>3. drv'.state = "probing" /\ drv'.bits \subseteq 0..(MaxChips - 1) BY <2>1, <2>2 DEF DrvOK
  <2> QED BY <2>2, <2>3
<1>2. CASE ProbeRefused \/ ProbeHollow \/ HollowRemove
  BY <1>2 DEF ProbeRefused, ProbeHollow, ProbeFails, HollowRemove, DrvOK, skw_dec_chip_idx
<1>3. CASE ProbeDone \/ skw_drv_remove BY <1>3, FreshIs, LifeAssumption
<1>4. CASE skw_add_iface \/ skw_change_intf \/ skw_del_iface
  BY <1>4 DEF skw_add_iface, skw_change_intf, skw_del_iface, DrvOK, VifOK
<1>5. CASE skw_recovery_data_update \/ skw_recovery_data_clear
  <2>1. drv'.state = drv.state /\ drv'.bits = drv.bits
    BY <1>5 DEF skw_recovery_data_update, skw_recovery_data_clear, DrvOK
  <2>2. vif'.fw = vif.fw BY <1>5 DEF skw_recovery_data_update, skw_recovery_data_clear, VifOK
  <2>3. PICK i \in Slots :
          /\ rec'.param \subseteq rec.param \union {i} /\ rec'.failed = rec.failed /\ rec'.todo = rec.todo /\ rec'.work = rec.work
          /\ \/ rec'.told = rec.told /\ rec'.saved = rec.saved
             \/ rec'.told = rec.told \ {i} /\ rec'.saved = rec.saved \ {i}
    <3>1. CASE skw_recovery_data_update BY <3>1 DEF skw_recovery_data_update, Present, RecOK
    <3>2. CASE skw_recovery_data_clear BY <3>2 DEF skw_recovery_data_clear, RecOK
    <3> QED BY <1>5, <3>1, <3>2
  <2> QED BY <2>1, <2>2, <2>3
<1>6. CASE skw_cmd_open_dev \/ skw_iface_setup
  <2>1. UNCHANGED <<drv, rec>> BY <1>6 DEF skw_cmd_open_dev, skw_iface_setup
  <2>2. vif'.fw \subseteq vif.fw \union {rtnl.id}
    <3>1. CASE skw_cmd_open_dev BY <3>1 DEF skw_cmd_open_dev, VifOK
    <3>2. CASE skw_iface_setup BY <3>2 DEF skw_iface_setup, VifOK
    <3> QED BY <1>6, <3>1, <3>2
  <2> QED BY <2>1, <2>2 DEF RtnlOK
<1>7. CASE skw_cmd_close_dev \/ skw_iface_teardown
  <2>1. UNCHANGED drv BY <1>7 DEF skw_cmd_close_dev, skw_iface_teardown
  <2>2. vif'.fw \subseteq vif.fw
    <3>1. CASE skw_cmd_close_dev BY <3>1 DEF skw_cmd_close_dev, Gone, VifOK
    <3>2. CASE skw_iface_teardown BY <3>2 DEF skw_iface_teardown, Gone, VifOK
    <3> QED BY <1>7, <3>1, <3>2
  <2>3. /\ rec'.told = rec.told /\ rec'.saved = rec.saved /\ rec'.failed = rec.failed /\ rec'.param = rec.param
        /\ rec'.todo = rec.todo /\ rec'.work = rec.work
    BY <1>7 DEF skw_cmd_close_dev, skw_iface_teardown, RecOK
  <2> QED BY <2>1, <2>2, <2>3
<1>8. CASE FwDies \/ FwReady
  <2>1. UNCHANGED drv /\ vif'.fw \subseteq vif.fw BY <1>8 DEF FwDies, FwReady, VifOK
  <2>2. /\ rec'.told = rec.told /\ rec'.saved = rec.saved /\ rec'.failed = rec.failed /\ rec'.param = rec.param
        /\ rec'.todo = rec.todo /\ (rec'.work = rec.work \/ rec'.work.pc = "prepare")
    <3>1. CASE FwDies BY <3>1 DEF FwDies, RecOK
    <3>2. CASE FwReady BY <3>2 DEF FwReady, RecOK
    <3> QED BY <1>8, <3>1, <3>2
  <2> QED BY <2>1, <2>2
<1>9. CASE PrepareAll
  <2>1. UNCHANGED drv /\ vif'.fw = vif.fw BY <1>9 DEF PrepareAll, VifOK
  <2>2. /\ rec'.failed \subseteq rec.failed \union vif.link /\ rec'.param = rec.param
        /\ (rec'.told = {} /\ rec'.saved = vif.link) \/ (rec'.told = rec.told /\ rec'.saved = rec.saved)
        /\ rec'.todo = rec.todo /\ rec'.work.pc = "sync"
    BY <1>9 DEF PrepareAll, skw_recovery_prepare_peers, RecOK
  <2> QED BY <2>1, <2>2 DEF VifOK
<1>10. CASE RecoverySync BY <1>10, SyncIs
<1>11. CASE skw_recovery_iface
  <2>1. PICK i \in rec.todo :
          /\ UNCHANGED drv /\ vif'.fw \subseteq vif.fw \union {i}
          /\ rec'.told = rec.told /\ rec'.saved = rec.saved /\ rec'.failed = rec.failed /\ rec'.param = rec.param
          /\ \/ rec'.work.pc = "idle" /\ rec'.todo = rec.todo
             \/ rec'.work.pc = "mark" /\ rec'.work.id = i /\ rec'.todo = rec.todo \ {i}
    BY <1>11, IfaceIs
  <2> QED BY <2>1
<1>12. CASE RecoveryMark BY <1>12 DEF RecoveryMark, RecoveryTold, VifOK, RecOK
<1>13. CASE skw_recovery_work BY <1>13 DEF skw_recovery_work, NoWork, RecOK
<1> QED BY <1>1, <1>2, <1>3, <1>4, <1>5, <1>6, <1>7, <1>8, <1>9, <1>10, <1>11, <1>12, <1>13 DEF LifeNext

\* Every step keeps the bounds of the count.
LEMMA BoundsStep == LifeInv /\ LifeBounded /\ LifeNext => CountBounded'
<1> SUFFICES ASSUME LifeInv, LifeFields, CountBounded, LifeNext PROVE CountBounded' BY DEF LifeBounded
<1> USE DEF LifeInv
<1>0. /\ Reopened \in SUBSET Slots /\ Cardinality(Reopened) \in Nat /\ Cardinality(Reopened) <= Cardinality(Slots)
      /\ Cardinality(Slots) \in Nat /\ Cardinality(Slots) > 0 /\ Cardinality({}) = 0 /\ MaxLifeOps \in Nat /\ vif.opened \in Int
      /\ \A i \in Slots \ Reopened : Cardinality(Reopened \union {i}) = Cardinality(Reopened) + 1
  <2>1. Reopened \in SUBSET Slots BY DEF Reopened, LifeFields
  <2> QED BY <2>1, ReopenedIs, LifeAssumption DEF VifOK
<1>a. /\ rtnl.pc = "idle" => MayMark = 0 /\ MayUnmark = 0
      /\ rtnl'.pc = "idle" => MayMark' = 0 /\ MayUnmark' = 0
      /\ MayMark \in 0..1 /\ MayUnmark \in 0..1 /\ MayMark' \in 0..1 /\ MayUnmark' \in 0..1
  BY DEF MayMark, MayUnmark
<1>b. drv.n \in Nat /\ MayUnmark - drv.n <= vif.opened /\ vif.opened <= Cardinality(Reopened) + drv.n - MayMark
  BY DEF CountBounded
<1>c. UNCHANGED rec => Reopened' = Reopened BY DEF Reopened
<1>d. UNCHANGED rtnl => MayMark' = MayMark /\ MayUnmark' = MayUnmark BY DEF MayMark, MayUnmark
<1>e. drv.state # "bound" => rtnl.pc = "idle" /\ rec.work.pc = "idle" BY DEF RtnlOK, RecOK
<1>f. drv.state = "absent" => drv.state # "bound" OBVIOUS
<1>1. CASE skw_drv_probe
  <2>1. drv'.n = drv.n + 1 /\ drv.n < MaxLifeOps /\ UNCHANGED <<vif, rtnl, rec>> /\ rtnl.pc = "idle"
    BY <1>1, <1>e DEF skw_drv_probe, LifeOp, DrvOK
  <2> QED BY <1>0, <1>a, <1>b, <1>c, <1>d, <2>1 DEF CountBounded
<1>2. CASE ProbeRefused \/ ProbeHollow \/ HollowRemove
  <2>1. drv'.n = drv.n /\ drv.state # "absent" /\ UNCHANGED <<vif, rtnl, rec>>
    BY <1>2 DEF ProbeRefused, ProbeHollow, ProbeFails, HollowRemove, DrvOK
  <2> QED BY <1>0, <1>a, <1>b, <1>c, <1>d, <2>1 DEF CountBounded
<1>3. CASE ProbeDone \/ skw_drv_remove
  <2>1. drv'.n = drv.n /\ drv.state # "absent" /\ rtnl'.pc = "idle" /\ vif'.opened \in 0..1 /\ rec'.work.pc = "idle"
    BY <1>3, FreshIs
  <2>2. Reopened' = Slots BY <2>1 DEF Reopened
  <2> QED BY <1>0, <1>a, <1>b, <2>1, <2>2 DEF CountBounded
<1>4. CASE skw_add_iface \/ skw_change_intf \/ skw_del_iface
  <2>1. drv'.n = drv.n + 1 /\ drv.n < MaxLifeOps /\ rtnl.pc = "idle" /\ UNCHANGED rec /\ vif'.opened = vif.opened
    BY <1>4 DEF skw_add_iface, skw_change_intf, skw_del_iface, LifeOp, DrvOK, VifOK
  <2> QED BY <1>0, <1>a, <1>b, <1>c, <2>1 DEF CountBounded
<1>5. CASE skw_recovery_data_update \/ skw_recovery_data_clear
  <2>1. /\ drv'.n = drv.n + 1 /\ drv.n < MaxLifeOps /\ rtnl.pc = "idle" /\ UNCHANGED rtnl /\ vif'.opened = vif.opened
        /\ rec'.work = rec.work /\ rec'.todo = rec.todo
    BY <1>5 DEF skw_recovery_data_update, skw_recovery_data_clear, LifeOp, DrvOK, VifOK, RecOK
  <2>2. Reopened' = Reopened BY <2>1 DEF Reopened
  <2> QED BY <1>0, <1>a, <1>b, <1>d, <2>1, <2>2 DEF CountBounded
<1>6. CASE skw_cmd_open_dev
  <2>1. /\ UNCHANGED <<drv, rec>> /\ vif'.opened = vif.opened /\ rtnl.pc = "open"
        /\ rtnl'.pc = "idle" \/ (rtnl'.pc \in {"open", "mark"} /\ rtnl'.kind = rtnl.kind)
    BY <1>6 DEF skw_cmd_open_dev, NoReq, VifOK, RtnlOK
  <2>2. MayMark = 1 /\ MayUnmark = 0 /\ MayUnmark' = 0 BY <2>1 DEF MayMark, MayUnmark
  <2> QED BY <1>0, <1>a, <1>b, <1>c, <1>e, <2>1, <2>2 DEF CountBounded
<1>7. CASE skw_iface_setup
  <2>1. /\ UNCHANGED <<drv, rec>> /\ vif'.opened = vif.opened + 1 /\ rtnl.pc = "mark"
        /\ rtnl'.pc = "idle" \/ (rtnl'.pc = "close" /\ rtnl'.kind = "del")
    BY <1>7 DEF skw_iface_setup, NoReq, VifOK, RtnlOK
  <2>2. MayMark = 1 /\ MayUnmark = 0 /\ MayMark' = 0 BY <2>1 DEF MayMark, MayUnmark
  <2>3. drv.state # "absent" BY <1>e, <2>1
  <2> QED BY <1>0, <1>a, <1>b, <1>c, <2>1, <2>2, <2>3 DEF CountBounded
<1>8. CASE skw_cmd_close_dev
  <2>1. /\ UNCHANGED drv /\ vif'.opened = vif.opened /\ rtnl.pc = "close" /\ rec'.work = rec.work /\ rec'.todo = rec.todo
        /\ rtnl'.pc = "idle" \/ (rtnl'.pc = "unmark" /\ rtnl'.kind = rtnl.kind)
    <3>1. UNCHANGED drv /\ rtnl.pc = "close" /\ rec'.work = rec.work /\ rec'.todo = rec.todo
      BY <1>8 DEF skw_cmd_close_dev, RecOK
    <3>2. vif'.opened = vif.opened BY <1>8 DEF skw_cmd_close_dev, Gone, VifOK
    <3>3. rtnl'.pc = "idle" \/ (rtnl'.pc = "unmark" /\ rtnl'.kind = rtnl.kind)
      BY <1>8 DEF skw_cmd_close_dev, NoReq, RtnlOK
    <3> QED BY <3>1, <3>2, <3>3
  <2>2. MayUnmark = 1 /\ MayMark' <= MayMark BY <1>a, <2>1 DEF MayMark, MayUnmark
  <2>3. drv.state # "absent" /\ Reopened' = Reopened BY <1>e, <2>1 DEF Reopened
  <2> QED BY <1>0, <1>a, <1>b, <2>1, <2>2, <2>3 DEF CountBounded
<1>9. CASE skw_iface_teardown
  <2>1. /\ UNCHANGED <<drv, rec>> /\ vif'.opened = vif.opened - 1 /\ rtnl.pc = "unmark"
        /\ rtnl'.pc = "idle" \/ (rtnl'.pc = "open" /\ rtnl.kind # "del")
    <3>1. UNCHANGED <<drv, rec>> /\ rtnl.pc = "unmark" BY <1>9 DEF skw_iface_teardown
    <3>2. vif'.opened = vif.opened - 1 BY <1>9 DEF skw_iface_teardown, Gone, VifOK
    <3>3. rtnl'.pc = "idle" \/ (rtnl'.pc = "open" /\ rtnl.kind # "del") BY <1>9 DEF skw_iface_teardown, NoReq, RtnlOK
    <3> QED BY <3>1, <3>2, <3>3
  <2>2. MayUnmark = 1 /\ MayUnmark' = 0 BY <2>1 DEF MayUnmark
  <2>3. drv.state # "absent" BY <1>e, <2>1
  <2> QED BY <1>0, <1>a, <1>b, <1>c, <2>1, <2>2, <2>3 DEF CountBounded
<1>10. CASE FwDies \/ FwReady
  <2>1. /\ UNCHANGED <<drv, rtnl>> /\ vif'.opened = vif.opened
        /\ (rec'.work = rec.work /\ rec'.todo = rec.todo) \/ (rec.work.pc = "idle" /\ rec'.work.pc = "prepare")
    <3>1. UNCHANGED <<drv, rtnl>> /\ vif'.opened = vif.opened BY <1>10 DEF FwDies, FwReady, VifOK
    <3>2. CASE FwDies BY <3>1, <3>2 DEF FwDies, RecOK
    <3>3. CASE FwReady BY <3>1, <3>3 DEF FwReady, RecOK
    <3> QED BY <1>10, <3>2, <3>3
  <2>2. Reopened' = Reopened BY <2>1 DEF Reopened
  <2> QED BY <1>0, <1>b, <1>d, <2>1, <2>2 DEF CountBounded
<1>11. CASE PrepareAll
  <2>1. UNCHANGED <<drv, rtnl>> /\ vif'.opened = 0 /\ rec'.work.pc = "sync" /\ rec.work.pc = "prepare"
    BY <1>11 DEF PrepareAll, skw_recovery_prepare_peers, VifOK, RecOK
  <2>2. Reopened' = {} /\ drv.state # "absent" BY <1>e, <2>1 DEF Reopened
  <2>3. MayMark <= drv.n /\ MayUnmark <= drv.n BY <1>a, <1>b DEF CountBounded
  <2> QED BY <1>0, <1>a, <1>b, <1>d, <2>1, <2>2, <2>3 DEF CountBounded
<1>12. CASE RecoverySync
  <2>1. /\ UNCHANGED <<drv, vif, rtnl>> /\ rec.work.pc = "sync"
        /\ (rec'.work.pc = "next" /\ rec'.todo = Slots) \/ rec'.work.pc = "idle"
    BY <1>12, SyncIs
  <2>2. Reopened = {} BY <2>1 DEF Reopened
  <2>3. Cardinality(Reopened') \in Nat /\ Cardinality(Reopened') >= 0
    <3>1. CASE rec'.work.pc = "next" /\ rec'.todo = Slots
      <4>1. Reopened' = Slots \ Slots BY <3>1 DEF Reopened
      <4>2. Slots \ Slots = {} OBVIOUS
      <4> QED BY <1>0, <4>1, <4>2
    <3>2. CASE rec'.work.pc = "idle"
      <4>1. Reopened' = Slots BY <3>2 DEF Reopened
      <4> QED BY <1>0, <4>1
    <3> QED BY <2>1, <3>1, <3>2
  <2>4. Cardinality(Reopened) = 0 BY <1>0, <2>2
  <2> QED BY <1>0, <1>a, <1>b, <1>d, <2>1, <2>3, <2>4 DEF CountBounded
<1>13. CASE skw_recovery_iface
  <2>1. PICK i \in rec.todo :
          /\ UNCHANGED <<drv, rtnl>> /\ vif'.opened = vif.opened /\ rec.work.pc = "next"
          /\ \/ rec'.work.pc = "idle"
             \/ rec'.work.pc = "mark" /\ rec'.work.id = i /\ rec'.todo = rec.todo \ {i}
    BY <1>13, IfaceIs
  <2>2. Reopened' = Reopened \/ Reopened' = Slots BY <2>1 DEF Reopened
  <2> QED BY <1>0, <1>a, <1>b, <1>d, <2>1, <2>2 DEF CountBounded
<1>14. CASE RecoveryMark
  <2> DEFINE i == rec.work.id
  <2>1. /\ UNCHANGED <<drv, rtnl>> /\ vif'.opened = vif.opened + 1 /\ rec.work.pc = "mark" /\ rec'.work.pc = "next"
        /\ rec'.todo = rec.todo
    BY <1>14 DEF RecoveryMark, VifOK, RecOK
  <2>2. Reopened' = Reopened \union {i} /\ i \in Slots \ Reopened BY <2>1 DEF Reopened, LifeFields
  <2>3. drv.state # "absent" BY <1>e, <2>1
  <2>4. Cardinality(Reopened') = Cardinality(Reopened) + 1 BY <1>0, <2>2
  <2> QED BY <1>0, <1>a, <1>b, <1>d, <2>1, <2>3, <2>4 DEF CountBounded
<1>15. CASE skw_recovery_work
  <2>1. UNCHANGED <<drv, vif, rtnl>> /\ rec'.work.pc = "idle" BY <1>15 DEF skw_recovery_work, NoWork, RecOK
  <2>2. Reopened' = Slots BY <2>1 DEF Reopened
  <2> QED BY <1>0, <1>a, <1>b, <1>d, <2>1, <2>2 DEF CountBounded
<1> QED
  BY <1>1, <1>2, <1>3, <1>4, <1>5, <1>6, <1>7, <1>8, <1>9, <1>10, <1>11, <1>12, <1>13, <1>14, <1>15 DEF LifeNext

\* The bounds hold in every behaviour, beside the invariant.
LEMMA BoundedLife == LifeSpec => []LifeBounded
<1>1. LifeInit => LifeBounded
  <2> SUFFICES ASSUME LifeInit PROVE LifeBounded OBVIOUS
  <2>1. PICK spent \in 0..1 : drv = [state |-> "absent", bits |-> {}, idx |-> 0, n |-> spent] /\ rec = [NoRec EXCEPT !.n = 1 - spent]
    BY DEF LifeInit
  <2>2. /\ rec.work.pc = "idle" /\ rec.told = {} /\ rec.saved = {} /\ rec.failed = {} /\ rec.param = {} /\ rec.todo = {}
        /\ vif.fw = {} /\ vif.opened = 0 /\ rtnl.pc = "idle"
    BY <2>1 DEF LifeInit, NoRec, NoWork, NoVif, NoReq
  <2>3. LifeFields BY <2>1, <2>2 DEF LifeFields
  <2>4. Reopened = Slots /\ MayMark = 0 /\ MayUnmark = 0 BY <2>2, LifeInit DEF Reopened, MayMark, MayUnmark, LifeInit, NoReq
  <2> QED BY <2>1, <2>2, <2>3, <2>4, ReopenedIs, LifeAssumption DEF LifeBounded, CountBounded
<1>2. LifeInv /\ LifeBounded /\ [LifeNext]_lifeVars => LifeBounded'
  <2>1. LifeBounded /\ UNCHANGED lifeVars => LifeBounded'
    BY DEF lifeVars, LifeBounded, LifeFields, CountBounded, Reopened, MayMark, MayUnmark
  <2> QED BY <2>1, FieldsStep, BoundsStep DEF LifeBounded
<1> QED BY <1>1, <1>2, LifeInvariance, PTL DEF LifeSpec

\* The driver's state keeps its type; opened_dev runs away, up or down, by
\* no more than one for each request (skw_iface_setup, skw_iface_teardown),
\* whatever a recovery does in between.
THEOREM LifeTyping == LifeSpec => []LifeTypeOK
<1>1. LifeInv /\ LifeBounded => LifeTypeOK
  <2> SUFFICES ASSUME LifeInv, LifeBounded PROVE LifeTypeOK OBVIOUS
  <2>1. Reopened \in SUBSET Slots BY DEF LifeBounded, LifeFields, Reopened
  <2>2. vif.opened \in -MaxLifeOps..(Cardinality(Slots) + MaxLifeOps)
    BY <2>1, ReopenedIs, LifeAssumption DEF LifeBounded, CountBounded, MayMark, MayUnmark, LifeInv, VifOK
  <2> QED BY <2>2 DEF LifeTypeOK, LifeInv, LifeBounded, LifeFields, VifOK, RecOK, Present
<1> QED BY <1>1, LifeInvariance, BoundedLife, PTL

-----------------------------------------------------------------------------
\* The direct links.  The record, and what it says of the channels: the
\* chip is on few enough, and the firmware is on the recorded one of an
\* enabled link or on none of its own.
TdlsFields == {"sta", "apc", "apon", "peer", "fw", "peerc", "fwc", "last", "frame", "odd", "ops", "faults"}
TdlsClean(t) == t.odd \intersect {"unlinked", "refused", "uncounted", "switched"} = {}
ChannelsOK ==
    /\ TdlsClean(td) => /\ Cardinality(OnAir(td)) <= MaxChannels
                        /\ td.fwc # 0 => LinkUp(td) /\ td.fwc = td.peerc
    /\ td.fw # "none" => td.sta # 0
    /\ "refused" \notin td.odd /\ td.fw = "linked" => td.peer = "linked"
TdlsInv == DOMAIN td = TdlsFields /\ TdlsTypeOK /\ ChannelsOK

\* The channels recorded and those in use are few, so they can be counted.
LEMMA ChannelsCounted ==
    ASSUME NEW t, NEW c
    PROVE  IsFiniteSet(OnAir(t)) /\ IsFiniteSet(Recorded(t) \union {c})
<1>1. IsFiniteSet({t.apc, t.sta, t.peerc, t.fwc, c})
  <2>1. /\ IsFiniteSet({t.apc}) /\ IsFiniteSet({t.sta}) /\ IsFiniteSet({t.peerc}) /\ IsFiniteSet({t.fwc})
        /\ IsFiniteSet({c})
    BY FS_Singleton
  <2>2. {t.apc, t.sta, t.peerc, t.fwc, c} = ((({t.apc} \union {t.sta}) \union {t.peerc}) \union {t.fwc}) \union {c} OBVIOUS
  <2>3. IsFiniteSet({t.apc} \union {t.sta}) BY <2>1, FS_Union
  <2>4. IsFiniteSet(({t.apc} \union {t.sta}) \union {t.peerc}) BY <2>1, <2>3, FS_Union
  <2>5. IsFiniteSet((({t.apc} \union {t.sta}) \union {t.peerc}) \union {t.fwc}) BY <2>1, <2>4, FS_Union
  <2>6. IsFiniteSet(((({t.apc} \union {t.sta}) \union {t.peerc}) \union {t.fwc}) \union {c}) BY <2>1, <2>5, FS_Union
  <2> QED BY <2>2, <2>6
<1>2. OnAir(t) \subseteq {t.apc, t.sta, t.peerc, t.fwc, c} /\ Recorded(t) \union {c} \subseteq {t.apc, t.sta, t.peerc, t.fwc, c}
  BY DEF OnAir, Recorded
<1> QED BY <1>1, <1>2, FS_Subset

\* Of a set of channels the rule allows, every subset is allowed.
LEMMA FewerChannels ==
    ASSUME NEW T, IsFiniteSet(T), Cardinality(T) <= MaxChannels, NEW R, R \subseteq T
    PROVE  Cardinality(R) <= MaxChannels
<1>1. Cardinality(R) <= Cardinality(T) /\ IsFiniteSet(R) BY FS_Subset
<1>2. Cardinality(R) \in Nat /\ Cardinality(T) \in Nat BY <1>1, FS_CardinalityType
<1> QED BY <1>1, <1>2, TdlsAssumption

\* The same for the channels in use after a step: those before, or allowed ones.
LEMMA StillFew ==
    ASSUME NEW t, NEW u, NEW c, TdlsClean(t),
           \/ OnAir(u) \subseteq OnAir(t) /\ Cardinality(OnAir(t)) <= MaxChannels
           \/ OnAir(u) \subseteq Recorded(t) \union {c} /\ skw_channel_allowed(t, c)
    PROVE  Cardinality(OnAir(u)) <= MaxChannels
  BY ChannelsCounted, FewerChannels DEF skw_channel_allowed

\* No link, no channel.
LEMMA TdlsBegin == TdlsInit => TdlsInv
<1> SUFFICES ASSUME TdlsInit PROVE TdlsInv OBVIOUS
<1>1. /\ DOMAIN td = TdlsFields /\ td.sta = 0 /\ td.apc = 0 /\ td.apon = FALSE /\ td.peer = "none" /\ td.fw = "none"
      /\ td.peerc = 0 /\ td.fwc = 0 /\ td.last \in LastIfaces /\ td.odd = {} /\ td.ops = 0 /\ td.faults = 0
  BY DEF TdlsInit, TdlsFields
<1>2. OnAir(td) = {} /\ Cardinality(OnAir(td)) <= MaxChannels
  BY <1>1, FS_EmptySet, TdlsAssumption DEF OnAir
<1>3. TdlsTypeOK
  <2>1. MaxTdlsOps \in Nat /\ MaxTdlsFaults \in Nat BY TdlsAssumption
  <2>2. td.ops \in 0..MaxTdlsOps /\ td.faults \in 0..MaxTdlsFaults BY <1>1, <2>1
  <2>3. {td.sta, td.apc, td.peerc, td.fwc} \subseteq TdlsChans \union {0} /\ td.apon \in BOOLEAN
    BY <1>1
  <2> QED BY <1>1, <2>2, <2>3 DEF TdlsTypeOK
<1>4. ChannelsOK BY <1>1, <1>2 DEF ChannelsOK
<1> QED BY <1>1, <1>3, <1>4 DEF TdlsInv

\* Every step keeps the invariant.
LEMMA TdlsStep == TdlsInv /\ [TdlsNext]_tdVars => TdlsInv'
<1> SUFFICES ASSUME TdlsInv, [TdlsNext]_tdVars PROVE TdlsInv' OBVIOUS
<1> USE DEF TdlsInv
<1>0. /\ DOMAIN td = TdlsFields /\ TdlsTypeOK /\ ChannelsOK
      /\ TdlsOp => td.ops + 1 \in 0..MaxTdlsOps
      /\ MayRefuse => td.faults + 1 \in 0..MaxTdlsFaults
      /\ \A c \in TdlsChans : c # 0
  BY TdlsAssumption DEF TdlsTypeOK, TdlsOp, MayRefuse
<1>1. CASE skw_tdls_build_send_encap_data \/ skw_tdls_build_send_direct
  <2>1. PICK frame, odd : /\ td' = [DidTdls(td) EXCEPT !.frame = frame, !.odd = odd]
                          /\ odd \in {td.odd, td.odd \union {"nullchannel"}} /\ TdlsOp
    <3>1. CASE skw_tdls_build_send_direct
      <4>1. PICK frame : td' = [DidTdls(td) EXCEPT !.frame = frame] /\ TdlsOp
        BY <3>1 DEF skw_tdls_build_send_direct, FrameTime
      <4>2. [DidTdls(td) EXCEPT !.frame = frame] = [DidTdls(td) EXCEPT !.frame = frame, !.odd = td.odd]
        BY <1>0 DEF DidTdls, TdlsFields
      <4> QED BY <4>1, <4>2
    <3>2. CASE skw_tdls_build_send_encap_data
      <4>1. PICK action \in {"setup_req", "setup_resp", "setup_cfm", "discover_req", "teardown", "chan_req", "chan_resp"},
                 ok, wmm \in BOOLEAN, ies \in Given, allowed \in Alloweds :
               td' = [DidTdls(td) EXCEPT
                 !.frame = Built(IF ok THEN action ELSE "refusal", skw_tdls_add_ies(td.sta, action, ok, wmm, ies), ies, allowed),
                 !.odd = IF action = "setup_cfm" /\ ok /\ td.sta = 0 THEN @ \union {"nullchannel"} ELSE @]
        BY <3>2 DEF skw_tdls_build_send_encap_data
      <4> DEFINE frame == Built(IF ok THEN action ELSE "refusal", skw_tdls_add_ies(td.sta, action, ok, wmm, ies), ies, allowed)
                 odd == IF action = "setup_cfm" /\ ok /\ td.sta = 0 THEN td.odd \union {"nullchannel"} ELSE td.odd
      <4>2. DidTdls(td).odd = td.odd BY <1>0 DEF DidTdls, TdlsFields
      <4>3. td' = [DidTdls(td) EXCEPT !.frame = frame, !.odd = odd] BY <4>1, <4>2
      <4>4. odd \in {td.odd, td.odd \union {"nullchannel"}} /\ TdlsOp
        BY <3>2 DEF skw_tdls_build_send_encap_data, FrameTime
      <4> HIDE DEF frame, odd
      <4> QED BY <4>3, <4>4
    <3> QED BY <1>1, <3>1, <3>2
  <2>2. /\ DOMAIN td' = TdlsFields /\ td'.sta = td.sta /\ td'.apc = td.apc /\ td'.apon = td.apon
        /\ td'.peer = td.peer /\ td'.fw = td.fw /\ td'.peerc = td.peerc /\ td'.fwc = td.fwc /\ td'.last = td.last
        /\ td'.odd = odd /\ td'.ops = td.ops + 1 /\ td'.faults = td.faults
    BY <1>0, <2>1 DEF DidTdls, TdlsFields
  <2>3. TdlsTypeOK' /\ OnAir(td') = OnAir(td) BY <1>0, <2>1, <2>2 DEF TdlsTypeOK, OnAir
  <2>4. /\ TdlsClean(td') <=> TdlsClean(td)
        /\ "refused" \in odd <=> "refused" \in td.odd
    BY <2>1, <2>2 DEF TdlsClean
  <2>5. ChannelsOK' BY <1>0, <2>2, <2>3, <2>4 DEF ChannelsOK, LinkUp
  <2> QED BY <2>2, <2>3, <2>5
<1>2. CASE StaJoins
  <2>1. PICK c \in TdlsChans : /\ skw_channel_allowed(td, c) /\ td' = [DidTdls(td) EXCEPT !.sta = c]
                               /\ TdlsOp /\ td.sta = 0
    BY <1>2 DEF StaJoins
  <2>2. /\ DOMAIN td' = TdlsFields /\ td'.sta = c /\ td'.apc = td.apc /\ td'.apon = td.apon /\ td'.peer = td.peer
        /\ td'.fw = td.fw /\ td'.peerc = td.peerc /\ td'.fwc = td.fwc /\ td'.last = td.last /\ td'.odd = td.odd
        /\ td'.ops = td.ops + 1 /\ td'.faults = td.faults
    BY <1>0, <2>1 DEF DidTdls, TdlsFields
  <2>3. TdlsTypeOK' BY <1>0, <2>1, <2>2 DEF TdlsTypeOK
  <2>4. TdlsClean(td') => TdlsClean(td) /\ OnAir(td') \subseteq Recorded(td) \union {c}
    BY <1>0, <2>1, <2>2 DEF TdlsClean, ChannelsOK, OnAir, Recorded, LinkUp, TdlsTypeOK, LastIfaces
  <2>5. TdlsClean(td') => Cardinality(OnAir(td')) <= MaxChannels BY <2>1, <2>4, StillFew
  <2>6. ChannelsOK' BY <1>0, <2>1, <2>2, <2>5 DEF ChannelsOK, LinkUp, TdlsClean
  <2> QED BY <2>2, <2>3, <2>6
<1>3. CASE ApStarts
  <2> DEFINE odd == td.odd \union (IF td.fwc # 0 /\ td.last = "other" THEN {"uncounted"} ELSE {})
  <2>1. PICK c \in TdlsChans : /\ skw_channel_allowed(td, c) /\ ~NoLastIface(td) /\ TdlsOp
                               /\ td' = [DidTdls(td) EXCEPT !.apc = c, !.apon = TRUE, !.odd = odd]
    <3>1. DidTdls(td).odd = td.odd BY <1>0 DEF DidTdls, TdlsFields
    <3> QED BY <1>3, <3>1 DEF ApStarts
  <2>0. /\ td.odd \subseteq odd
        /\ odd \intersect {"unlinked", "refused", "uncounted", "switched"} = {} => td.fwc = 0 \/ td.last # "other"
    OBVIOUS
  <2> HIDE DEF odd
  <2>2. /\ DOMAIN td' = TdlsFields /\ td'.sta = td.sta /\ td'.apc = c /\ td'.apon = TRUE /\ td'.peer = td.peer
        /\ td'.fw = td.fw /\ td'.peerc = td.peerc /\ td'.fwc = td.fwc /\ td'.last = td.last /\ td'.odd = odd
        /\ td'.ops = td.ops + 1 /\ td'.faults = td.faults
    BY <1>0, <2>1 DEF DidTdls, TdlsFields
  <2>3. TdlsTypeOK' BY <1>0, <2>1, <2>2 DEF TdlsTypeOK
  <2>4. TdlsClean(td') => TdlsClean(td) /\ OnAir(td') \subseteq Recorded(td) \union {c}
    BY <1>0, <2>0, <2>1, <2>2 DEF TdlsClean, ChannelsOK, OnAir, Recorded, LinkUp, NoLastIface, TdlsTypeOK, LastIfaces
  <2>5. TdlsClean(td') => Cardinality(OnAir(td')) <= MaxChannels BY <2>1, <2>4, StillFew
  <2>6. ChannelsOK' BY <1>0, <2>0, <2>2, <2>4, <2>5 DEF ChannelsOK, LinkUp
  <2> QED BY <2>2, <2>3, <2>6
<1>4. CASE StaLeaves
  <2>1. /\ DOMAIN td' = TdlsFields /\ td'.sta = 0 /\ td'.apc = td.apc /\ td'.apon = td.apon /\ td'.peer = td.peer
        /\ td'.fw = "none" /\ td'.peerc = td.peerc /\ td'.fwc = 0 /\ td'.last = td.last /\ td'.odd = td.odd
        /\ td'.ops = td.ops /\ td'.faults = td.faults
    BY <1>0, <1>4 DEF StaLeaves, DidTdls, TdlsFields
  <2>2. TdlsTypeOK' /\ OnAir(td') \subseteq OnAir(td) BY <1>0, <2>1 DEF TdlsTypeOK, OnAir
  <2>3. TdlsClean(td') => TdlsClean(td) /\ Cardinality(OnAir(td')) <= MaxChannels
    BY <1>0, <2>1, <2>2, StillFew DEF ChannelsOK, TdlsClean
  <2>4. ChannelsOK' BY <1>0, <2>1, <2>3 DEF ChannelsOK, LinkUp
  <2> QED BY <2>1, <2>2, <2>4
<1>5. CASE ApStops
  <2>1. /\ DOMAIN td' = TdlsFields /\ td'.sta = td.sta /\ td'.apc = td.apc /\ td'.apon = FALSE
        /\ td'.peer = td.peer /\ td'.fw = td.fw /\ td'.peerc = td.peerc /\ td'.fwc = td.fwc /\ td'.last = td.last
        /\ td'.odd = td.odd /\ td'.ops = td.ops /\ td'.faults = td.faults
    BY <1>0, <1>5 DEF ApStops, DidTdls, TdlsFields
  <2>2. TdlsTypeOK' /\ OnAir(td') \subseteq OnAir(td) BY <1>0, <2>1 DEF TdlsTypeOK, OnAir
  <2>3. TdlsClean(td') => TdlsClean(td) /\ Cardinality(OnAir(td')) <= MaxChannels
    BY <1>0, <2>1, <2>2, StillFew DEF ChannelsOK, TdlsClean
  <2>4. ChannelsOK' BY <1>0, <2>1, <2>3 DEF ChannelsOK, LinkUp
  <2> QED BY <2>1, <2>2, <2>4
<1>6. CASE PeerAdded
  <2>1. /\ DOMAIN td' = TdlsFields /\ td'.sta = td.sta /\ td'.apc = td.apc /\ td'.apon = td.apon
        /\ td'.peer = "bound" /\ td'.fw = "bound" /\ td'.peerc = 0 /\ td'.fwc = td.fwc /\ td'.last = td.last
        /\ td'.odd = td.odd /\ td'.ops = td.ops + 1 /\ td'.faults = td.faults
        /\ td.peer = "none" /\ td.sta # 0 /\ TdlsOp
    BY <1>0, <1>6 DEF PeerAdded, DidTdls, TdlsFields
  <2>2. TdlsTypeOK' /\ OnAir(td') \subseteq OnAir(td) BY <1>0, <2>1 DEF TdlsTypeOK, OnAir
  <2>3. TdlsClean(td') => TdlsClean(td) /\ Cardinality(OnAir(td')) <= MaxChannels
    BY <1>0, <2>1, <2>2, StillFew DEF ChannelsOK, TdlsClean
  <2>4. ChannelsOK' BY <1>0, <2>1, <2>3 DEF ChannelsOK, LinkUp
  <2> QED BY <2>1, <2>2, <2>4
<1>7. CASE skw_tdls_oper
  <2>1. TdlsOp /\ td.peer # "none" BY <1>7 DEF skw_tdls_oper
  <2>2. CASE /\ td.peer = "bound"
             /\ td' = [DidTdls(td) EXCEPT !.peer = "linked", !.fw = IF td.sta # 0 /\ @ = "bound" THEN "linked" ELSE @]
    <3> DEFINE fw == IF td.sta # 0 /\ td.fw = "bound" THEN "linked" ELSE td.fw
    <3>1. DidTdls(td).fw = td.fw /\ (fw = td.fw \/ (fw = "linked" /\ td.sta # 0)) BY <1>0 DEF DidTdls, TdlsFields
    <3>2. td' = [DidTdls(td) EXCEPT !.peer = "linked", !.fw = fw] BY <2>2, <3>1
    <3> HIDE DEF fw
    <3>3. /\ DOMAIN td' = TdlsFields /\ td'.sta = td.sta /\ td'.apc = td.apc /\ td'.apon = td.apon
          /\ td'.peer = "linked" /\ td'.fw = fw /\ td'.peerc = td.peerc /\ td'.fwc = td.fwc /\ td'.last = td.last
          /\ td'.odd = td.odd /\ td'.ops = td.ops + 1 /\ td'.faults = td.faults
      BY <1>0, <3>2 DEF DidTdls, TdlsFields
    <3>4. TdlsTypeOK' /\ OnAir(td') \subseteq OnAir(td) BY <1>0, <2>1, <3>1, <3>3 DEF TdlsTypeOK, OnAir
    <3>5. TdlsClean(td') => TdlsClean(td) /\ Cardinality(OnAir(td')) <= MaxChannels
      BY <1>0, <3>3, <3>4, StillFew DEF ChannelsOK, TdlsClean
    <3>6. ChannelsOK' BY <1>0, <2>2, <3>1, <3>3, <3>5 DEF ChannelsOK, LinkUp
    <3> QED BY <3>3, <3>4, <3>6
  <2>3. CASE td' = [DidTdls(td) EXCEPT !.peer = "none", !.peerc = 0, !.fw = "none", !.fwc = 0]
    <3>1. /\ DOMAIN td' = TdlsFields /\ td'.sta = td.sta /\ td'.apc = td.apc /\ td'.apon = td.apon
          /\ td'.peer = "none" /\ td'.fw = "none" /\ td'.peerc = 0 /\ td'.fwc = 0 /\ td'.last = td.last
          /\ td'.odd = td.odd /\ td'.ops = td.ops + 1 /\ td'.faults = td.faults
      BY <1>0, <2>3 DEF DidTdls, TdlsFields
    <3>2. TdlsTypeOK' /\ OnAir(td') \subseteq OnAir(td) BY <1>0, <2>1, <3>1 DEF TdlsTypeOK, OnAir
    <3>3. TdlsClean(td') => TdlsClean(td) /\ Cardinality(OnAir(td')) <= MaxChannels
      BY <1>0, <3>1, <3>2, StillFew DEF ChannelsOK, TdlsClean
    <3>4. ChannelsOK' BY <1>0, <3>1, <3>3 DEF ChannelsOK, LinkUp
    <3> QED BY <3>1, <3>2, <3>4
  <2>4. CASE \/ MayRefuse /\ td' = [DidTdls(RefusedBy(td)) EXCEPT !.peer = "linked", !.odd = @ \union {"refused"}]
             \/ MayRefuse /\ td' = [DidTdls(RefusedBy(td)) EXCEPT !.peer = "none", !.peerc = 0, !.odd = @ \union {"refused"}]
    <3>1. /\ DOMAIN td' = TdlsFields /\ td'.sta = td.sta /\ td'.apc = td.apc /\ td'.apon = td.apon
          /\ td'.peer \in {"linked", "none"} /\ td'.fw = td.fw /\ td'.peerc \in {td.peerc, 0} /\ td'.fwc = td.fwc
          /\ td'.last = td.last /\ td'.odd = td.odd \union {"refused"} /\ td'.ops = td.ops + 1
          /\ td'.faults = td.faults + 1
      BY <1>0, <2>4 DEF DidTdls, RefusedBy, TdlsFields
    <3>2. TdlsTypeOK' BY <1>0, <2>1, <2>4, <3>1 DEF TdlsTypeOK
    <3>3. ChannelsOK' BY <1>0, <3>1 DEF ChannelsOK, TdlsClean
    <3> QED BY <3>1, <3>2, <3>3
  <2> QED BY <1>7, <2>2, <2>3, <2>4 DEF skw_tdls_oper
<1>8. CASE skw_tdls_chn_switch
  <2>1. PICK c \in TdlsChans :
          /\ skw_channel_allowed(td, c) /\ ~NoLastIface(td) /\ TdlsOp /\ td.peer # "none" /\ td.fw # "none"
          /\ \/ td' = [DidTdls(td) EXCEPT !.peerc = c, !.fwc = c, !.odd = IF td.peer = "linked" THEN @ ELSE @ \union {"unlinked"}]
             \/ MayRefuse /\ td' = DidTdls(RefusedBy(td))
    BY <1>8 DEF skw_tdls_chn_switch
  <2>2. CASE td' = [DidTdls(td) EXCEPT !.peerc = c, !.fwc = c, !.odd = IF td.peer = "linked" THEN @ ELSE @ \union {"unlinked"}]
    <3>1. /\ DOMAIN td' = TdlsFields /\ td'.sta = td.sta /\ td'.apc = td.apc /\ td'.apon = td.apon
          /\ td'.peer = td.peer /\ td'.fw = td.fw /\ td'.peerc = c /\ td'.fwc = c /\ td'.last = td.last
          /\ td'.odd = (IF td.peer = "linked" THEN td.odd ELSE td.odd \union {"unlinked"}) /\ td'.ops = td.ops + 1
          /\ td'.faults = td.faults
      BY <1>0, <2>2 DEF DidTdls, TdlsFields
    <3>2. TdlsTypeOK' BY <1>0, <2>1, <3>1 DEF TdlsTypeOK
    <3>3. TdlsClean(td') => TdlsClean(td) /\ td.peer = "linked" BY <3>1 DEF TdlsClean
    <3>4. OnAir(td') \subseteq Recorded(td) \union {c} BY <3>1 DEF OnAir, Recorded
    <3>5. TdlsClean(td') => Cardinality(OnAir(td')) <= MaxChannels BY <2>1, <3>3, <3>4, StillFew
    <3>6. "refused" \notin td'.odd => "refused" \notin td.odd BY <3>1
    <3>7. ChannelsOK' BY <1>0, <2>1, <3>1, <3>3, <3>5, <3>6 DEF ChannelsOK, LinkUp
    <3> QED BY <3>1, <3>2, <3>7
  <2>3. CASE MayRefuse /\ td' = DidTdls(RefusedBy(td))
    <3>1. /\ DOMAIN td' = TdlsFields /\ td'.sta = td.sta /\ td'.apc = td.apc /\ td'.apon = td.apon
          /\ td'.peer = td.peer /\ td'.fw = td.fw /\ td'.peerc = td.peerc /\ td'.fwc = td.fwc /\ td'.last = td.last
          /\ td'.odd = td.odd /\ td'.ops = td.ops + 1 /\ td'.faults = td.faults + 1
      BY <1>0, <2>3 DEF DidTdls, RefusedBy, TdlsFields
    <3>2. TdlsTypeOK' /\ OnAir(td') = OnAir(td) BY <1>0, <2>1, <2>3, <3>1 DEF TdlsTypeOK, OnAir
    <3>3. ChannelsOK' BY <1>0, <3>1, <3>2 DEF ChannelsOK, LinkUp, TdlsClean
    <3> QED BY <3>1, <3>2, <3>3
  <2> QED BY <2>1, <2>2, <2>3
<1>9. CASE skw_tdls_cancel_chn_switch
  <2>1. /\ DOMAIN td' = TdlsFields /\ td'.sta = td.sta /\ td'.apc = td.apc /\ td'.apon = td.apon
        /\ td'.peer = td.peer /\ td'.fw = td.fw /\ td'.peerc = td.peerc /\ td'.fwc = 0 /\ td'.last = td.last
        /\ td'.odd = td.odd /\ td'.ops = td.ops + 1 /\ td'.faults = td.faults /\ TdlsOp
    BY <1>0, <1>9 DEF skw_tdls_cancel_chn_switch, DidTdls, TdlsFields
  <2>2. TdlsTypeOK' /\ OnAir(td') \subseteq OnAir(td) BY <1>0, <2>1 DEF TdlsTypeOK, OnAir
  <2>3. TdlsClean(td') => TdlsClean(td) /\ Cardinality(OnAir(td')) <= MaxChannels
    BY <1>0, <2>1, <2>2, StillFew DEF ChannelsOK, TdlsClean
  <2>4. ChannelsOK' BY <1>0, <2>1, <2>3 DEF ChannelsOK, LinkUp
  <2> QED BY <2>1, <2>2, <2>4
<1>10. CASE NullIfaceRead
  <2>1. /\ DOMAIN td' = TdlsFields /\ td'.sta = td.sta /\ td'.apc = td.apc /\ td'.apon = td.apon
        /\ td'.peer = td.peer /\ td'.fw = td.fw /\ td'.peerc = td.peerc /\ td'.fwc = td.fwc /\ td'.last = td.last
        /\ td'.odd = td.odd \union {"nulliface"} /\ td'.ops = td.ops + 1 /\ td'.faults = td.faults /\ TdlsOp
    BY <1>0, <1>10 DEF NullIfaceRead, DidTdls, TdlsFields
  <2>2. TdlsTypeOK' /\ OnAir(td') = OnAir(td) BY <1>0, <2>1 DEF TdlsTypeOK, OnAir
  <2>3. ChannelsOK' BY <1>0, <2>1, <2>2 DEF ChannelsOK, LinkUp, TdlsClean
  <2> QED BY <2>1, <2>2, <2>3
<1>11. CASE ChannelSwitched
  <2>1. PICK c, u :
          /\ c \in TdlsChans
          /\ \/ u = [DidTdls(td) EXCEPT !.sta = c]
             \/ u = [DidTdls(td) EXCEPT !.apc = c]
          /\ td' = Switched(u) /\ TdlsOp /\ (u.sta # td.sta => td.sta # 0)
    <3>1. PICK c \in TdlsChans : \/ td.sta # 0 /\ td' = Switched([DidTdls(td) EXCEPT !.sta = c])
                                 \/ td.apon /\ td' = Switched([DidTdls(td) EXCEPT !.apc = c])
      BY <1>11 DEF ChannelSwitched
    <3>2. CASE td.sta # 0 /\ td' = Switched([DidTdls(td) EXCEPT !.sta = c])
      BY <1>11, <3>2 DEF ChannelSwitched
    <3>3. CASE td' = Switched([DidTdls(td) EXCEPT !.apc = c])
      <4>1. [DidTdls(td) EXCEPT !.apc = c].sta = td.sta BY <1>0 DEF DidTdls, TdlsFields
      <4> QED BY <1>11, <3>3, <4>1 DEF ChannelSwitched
    <3> QED BY <3>1, <3>2, <3>3
  <2>2. /\ DOMAIN u = TdlsFields /\ u.sta \in {td.sta, c} /\ u.apc \in {td.apc, c} /\ u.apon = td.apon /\ u.peer = td.peer
        /\ u.fw = td.fw /\ u.peerc = td.peerc /\ u.fwc = td.fwc /\ u.last = td.last /\ u.odd = td.odd
        /\ u.ops = td.ops + 1 /\ u.faults = td.faults
    BY <1>0, <2>1 DEF DidTdls, TdlsFields
  <2> DEFINE odd == td.odd \union (IF Cardinality(OnAir(u)) > MaxChannels THEN {"switched"} ELSE {})
  <2>3. td' = [u EXCEPT !.odd = odd] BY <2>1, <2>2 DEF Switched
  <2>4. td.odd \subseteq odd /\ ("switched" \notin odd => ~(Cardinality(OnAir(u)) > MaxChannels)) OBVIOUS
  <2> HIDE DEF odd
  <2>5. /\ DOMAIN td' = TdlsFields /\ td'.sta = u.sta /\ td'.apc = u.apc /\ td'.apon = u.apon /\ td'.peer = u.peer
        /\ td'.fw = u.fw /\ td'.peerc = u.peerc /\ td'.fwc = u.fwc /\ td'.last = u.last /\ td'.odd = odd
        /\ td'.ops = u.ops /\ td'.faults = u.faults
    BY <2>2, <2>3 DEF TdlsFields
  <2>6. TdlsTypeOK' /\ OnAir(td') = OnAir(u) BY <1>0, <2>1, <2>2, <2>5 DEF TdlsTypeOK, OnAir
  <2>7. Cardinality(OnAir(u)) \in Nat BY ChannelsCounted, FS_CardinalityType
  <2>8. TdlsClean(td') => TdlsClean(td) /\ Cardinality(OnAir(td')) <= MaxChannels
    BY <2>4, <2>5, <2>6, <2>7, TdlsAssumption DEF TdlsClean
  <2>9. ChannelsOK' BY <1>0, <2>1, <2>2, <2>4, <2>5, <2>8 DEF ChannelsOK, LinkUp
  <2> QED BY <2>5, <2>6, <2>9
<1>12. CASE LastIface
  <2>1. PICK l \in LastIfaces : td' = [td EXCEPT !.last = l] BY <1>12 DEF LastIface
  <2>2. /\ DOMAIN td' = TdlsFields /\ td'.sta = td.sta /\ td'.apc = td.apc /\ td'.apon = td.apon
        /\ td'.peer = td.peer /\ td'.fw = td.fw /\ td'.peerc = td.peerc /\ td'.fwc = td.fwc /\ td'.last = l
        /\ td'.odd = td.odd /\ td'.ops = td.ops /\ td'.faults = td.faults
    BY <1>0, <2>1 DEF TdlsFields
  <2>3. TdlsTypeOK' /\ OnAir(td') = OnAir(td) BY <1>0, <2>1, <2>2 DEF TdlsTypeOK, OnAir
  <2>4. ChannelsOK' BY <1>0, <2>2, <2>3 DEF ChannelsOK, LinkUp, TdlsClean
  <2> QED BY <2>2, <2>3, <2>4
<1>13. CASE UNCHANGED tdVars
  <2>1. td' = td BY <1>13 DEF tdVars
  <2> QED BY <1>0, <2>1 DEF TdlsTypeOK, ChannelsOK
<1> QED BY <1>1, <1>2, <1>3, <1>4, <1>5, <1>6, <1>7, <1>8, <1>9, <1>10, <1>11, <1>12, <1>13 DEF TdlsNext

\* The invariant holds in every behaviour.
LEMMA TdlsInvariance == TdlsSpec => []TdlsInv
  BY TdlsBegin, TdlsStep, PTL DEF TdlsSpec

\* The chip is never on more channels than num_different_channels, whatever
\* interface is the last and so whatever the rule counted, but for a link
\* that was made to switch before it was enabled or whose end the firmware
\* refused, an AP started while the last interface hid the link's channel,
\* and a switch that was ordered, which nothing checks; and a link that is
\* enabled in the firmware sends in the driver (skw_channel_allowed,
\* skw_tdls_oper, skw_event_chan_switch): for any channels and any limit.
THEOREM ChannelsAreBounded == TdlsSpec => []ChannelsBounded
<1>1. TdlsInv => ChannelsBounded BY DEF TdlsInv, ChannelsOK, ChannelsBounded, TdlsClean
<1> QED BY <1>1, TdlsInvariance, PTL

\* The record of the links keeps its type.
THEOREM TdlsTyping == TdlsSpec => []TdlsTypeOK
<1>1. TdlsInv => TdlsTypeOK BY DEF TdlsInv
<1> QED BY <1>1, TdlsInvariance, PTL

-----------------------------------------------------------------------------
\* The events.  What waits for a work was sent after what that work has
\* handled, in order.
Waiting(s, handled, last) ==
    /\ handled \in Nat /\ handled <= last
    /\ s \in Seq(1..MaxEvents) /\ \A i \in 1..Len(s) : handled < s[i] /\ s[i] <= last
    /\ \A i, j \in 1..Len(s) : i < j => s[i] < s[j]
\* The events since the last recovery were all heard up to the one the number
\* stands for, unless the firmware has been declared dead; no number comes twice.
CountedOK(e) ==
    MaxEvents <= EventSpace /\ ~e.assert => /\ ~e.gap
                 /\ \E c \in 0..(e.sent - e.base) :
                       e.sn = c % EventSpace /\ \A j \in (e.base + 1)..(e.base + c) : j \in e.heard
EvFields == {"sent", "base", "sn", "q", "up", "assert", "heard", "done", "gap", "disorder", "n"}
EvShape(e) ==
    /\ DOMAIN e = EvFields /\ e.sent \in 0..MaxEvents /\ e.base \in 0..e.sent /\ e.sn \in 0..(EventSpace - 1)
    /\ e.heard \subseteq 1..MaxEvents /\ e.up \in BOOLEAN /\ e.assert \in BOOLEAN /\ e.gap \in BOOLEAN /\ e.disorder = FALSE
    /\ e.q \in [Works -> Seq(1..MaxEvents)] /\ e.done \in [Works -> Nat]
    /\ \A w \in Works : Waiting(e.q[w], e.done[w], e.sent)
EvInv == EvShape(ev) /\ CountedOK(ev)

\* The bounds are numbers.
LEMMA EventBounds == MaxEvents \in Nat /\ EventSpace \in Nat /\ EventSpace > 0
  BY EventAssumption

\* An event is sent: it comes after those that wait, and may be queued.
LEMMA WaitsMore ==
    ASSUME NEW s, NEW handled, NEW last \in Nat, Waiting(s, handled, last), NEW k \in 1..MaxEvents, last < k
    PROVE  Waiting(s, handled, k) /\ Waiting(Append(s, k), handled, k)
<1>0. s \in Seq(1..MaxEvents) /\ handled \in Nat /\ handled <= last /\ MaxEvents \in Nat /\ k \in Nat
  BY EventBounds DEF Waiting
<1>1. Len(s) \in Nat /\ \A i \in 1..Len(s) : s[i] \in 1..MaxEvents BY <1>0
<1>2. Waiting(s, handled, k) BY <1>0, <1>1 DEF Waiting
<1> DEFINE t == Append(s, k)
<1>3. t \in Seq(1..MaxEvents) /\ Len(t) = Len(s) + 1 /\ t[Len(s) + 1] = k /\ \A i \in 1..Len(s) : t[i] = s[i]
  BY <1>0
<1> HIDE DEF t
<1>4. \A i \in 1..Len(t) : i = Len(s) + 1 \/ i \in 1..Len(s) BY <1>1, <1>3
<1>5. \A i \in 1..Len(t) : handled < t[i] /\ t[i] <= k BY <1>0, <1>1, <1>3, <1>4 DEF Waiting
<1>6. ASSUME NEW i \in 1..Len(t), NEW j \in 1..Len(t), i < j PROVE t[i] < t[j]
  <2>1. i \in 1..Len(s) /\ t[i] = s[i] /\ s[i] < k
    <3>1. Len(t) = Len(s) + 1 /\ i \in Nat /\ j \in Nat BY <1>1, <1>3
    <3>2. i \in 1..Len(s) BY <1>1, <1>6, <3>1
    <3>3. s[i] <= last /\ s[i] \in 1..MaxEvents BY <1>1, <3>2 DEF Waiting
    <3> QED BY <1>0, <1>3, <3>2, <3>3
  <2> QED BY <1>1, <1>3, <1>4, <1>6, <2>1 DEF Waiting
<1> QED BY <1>0, <1>2, <1>3, <1>5, <1>6 DEF Waiting, t

\* The head is handled: it is later than what was handled, and the others later still.
LEMMA WaitsLess ==
    ASSUME NEW s, NEW handled, NEW last \in Nat, Waiting(s, handled, last), s # <<>>
    PROVE  handled < Head(s) /\ Waiting(Tail(s), Head(s), last)
<1>0. s \in Seq(1..MaxEvents) /\ handled \in Nat /\ MaxEvents \in Nat BY EventBounds DEF Waiting
<1>1. /\ Len(s) \in Nat \ {0} /\ Head(s) = s[1] /\ Tail(s) \in Seq(1..MaxEvents) /\ Len(Tail(s)) = Len(s) - 1
      /\ \A i \in 1..(Len(s) - 1) : Tail(s)[i] = s[i + 1]
      /\ \A i \in 1..Len(s) : s[i] \in 1..MaxEvents
  BY <1>0
<1>2. handled < s[1] /\ s[1] \in Nat /\ s[1] <= last BY <1>0, <1>1 DEF Waiting
<1> DEFINE t == Tail(s)
<1> HIDE DEF t
<1>3. \A i \in 1..Len(t) : i + 1 \in 1..Len(s) /\ t[i] = s[i + 1] /\ 1 < i + 1 BY <1>1 DEF t
<1>4. \A i \in 1..Len(t) : s[1] < t[i] /\ t[i] <= last BY <1>1, <1>3 DEF Waiting
<1>5. \A i, j \in 1..Len(t) : i < j => t[i] < t[j] BY <1>1, <1>3 DEF Waiting, t
<1> QED BY <1>1, <1>2, <1>4, <1>5 DEF Waiting, t

\* An event goes to a work or, where its interface is gone, nowhere.
LEMMA QueuedIs ==
    ASSUME NEW e, EvShape(e), NEW w \in Works, NEW k \in 1..MaxEvents, k = e.sent,
           \A v \in Works : Waiting(e.q[v], e.done[v], k - 1)
    PROVE  EvShape(skw_queue_event_work(e, w, k)) /\ (CountedOK(e) => CountedOK(skw_queue_event_work(e, w, k)))
<1> DEFINE u == [e EXCEPT !.q[w] = Append(e.q[w], k)]
           d == skw_queue_event_work(e, w, k)
<1>1. d = e \/ d = u BY DEF skw_queue_event_work
<1>2. /\ DOMAIN u = EvFields /\ u.sent = e.sent /\ u.base = e.base /\ u.sn = e.sn /\ u.up = e.up /\ u.assert = e.assert
      /\ u.heard = e.heard /\ u.done = e.done /\ u.gap = e.gap /\ u.disorder = e.disorder
      /\ u.q = [e.q EXCEPT ![w] = Append(e.q[w], k)]
  BY DEF EvShape, EvFields
<1> HIDE DEF u, d
<1>3. k \in Nat /\ k - 1 \in Nat /\ k - 1 < k /\ \A v \in Works : e.q[v] \in Seq(1..MaxEvents)
  BY EventBounds DEF EvShape
<1>4. ASSUME NEW v \in Works PROVE Waiting(u.q[v], u.done[v], u.sent) /\ u.q[v] \in Seq(1..MaxEvents)
  <2>1. CASE v # w BY <1>2, <1>3, <2>1 DEF EvShape
  <2>2. CASE v = w
    <3>1. u.q[v] = Append(e.q[w], k) /\ u.done[v] = e.done[w] /\ u.sent = k BY <1>2, <2>2 DEF EvShape
    <3> DEFINE s == e.q[w]
               h == e.done[w]
               l == k - 1
    <3>2. Waiting(s, h, l) /\ l \in Nat /\ l < k BY <1>3
    <3> HIDE DEF s, h, l
    <3>3. Waiting(Append(s, k), h, k) BY <3>2, WaitsMore
    <3> QED BY <3>1, <3>3 DEF s, h, Waiting
  <2> QED BY <2>1, <2>2
<1>5. u.q \in [Works -> Seq(1..MaxEvents)] BY <1>2, <1>4 DEF EvShape
<1>6. EvShape(u) BY <1>2, <1>4, <1>5 DEF EvShape
<1>7. CountedOK(e) => CountedOK(u) BY <1>2 DEF CountedOK
<1> QED BY <1>1, <1>6, <1>7 DEF d

\* Of as many numbers as there are, no two are the same.
LEMMA NumbersDiffer ==
    ASSUME NEW a \in 1..EventSpace, NEW b \in 1..EventSpace, a % EventSpace = b % EventSpace
    PROVE  a = b
<1>1. \A n \in 1..EventSpace : n % EventSpace = IF n = EventSpace THEN 0 ELSE n BY EventBounds
<1> QED BY <1>1, EventBounds

\* A number that is small is itself.
LEMMA SmallNumber == \A c \in 0..(EventSpace - 1) : c % EventSpace = c
  BY EventBounds

\* An event arrives.
LEMMA HeardIs ==
    ASSUME NEW e, EvShape(e), CountedOK(e), NEW k \in 1..MaxEvents, k = e.sent, e.base < k,
           MaxEvents <= EventSpace /\ ~e.assert => \E c \in 0..(k - 1 - e.base) :
                           e.sn = c % EventSpace /\ \A j \in (e.base + 1)..(e.base + c) : j \in e.heard,
           NEW w \in Works \union {"credit"}, \A v \in Works : Waiting(e.q[v], e.done[v], k - 1)
    PROVE  EvShape(EventCb(e, k, w)) /\ CountedOK(EventCb(e, k, w))
<1> DEFINE next == (e.sn + 1) % EventSpace
           missed == e.gap \/ \E j \in (e.base + 1)..(k - 1) : j \notin e.heard
           a == [e EXCEPT !.sn = next, !.assert = TRUE]
           h == [e EXCEPT !.sn = next, !.heard = e.heard \union {k}, !.gap = missed]
<1>0. /\ MaxEvents \in Nat /\ EventSpace \in Nat /\ EventSpace > 0 /\ k \in Nat /\ e.base \in Nat /\ e.sn \in Nat
      /\ DOMAIN e = EvFields
  BY EventBounds DEF EvShape
<1>1. next \in 0..(EventSpace - 1) /\ missed \in BOOLEAN BY <1>0
<1>2. CASE next # (k - e.base) % EventSpace
  <2>1. EventCb(e, k, w) = a BY <1>2 DEF EventCb
  <2>2. /\ DOMAIN a = EvFields /\ a.sent = e.sent /\ a.base = e.base /\ a.sn = next /\ a.up = e.up /\ a.assert = TRUE
        /\ a.heard = e.heard /\ a.done = e.done /\ a.gap = e.gap /\ a.disorder = e.disorder /\ a.q = e.q
    BY <1>0 DEF EvFields
  <2> HIDE DEF a, next
  <2> QED BY <1>1, <2>1, <2>2 DEF EvShape, CountedOK
<1>3. CASE next = (k - e.base) % EventSpace
  <2>1. Heard(e, k) = [e EXCEPT !.heard = e.heard \union {k}, !.gap = missed] BY DEF Heard
  <2> HIDE DEF missed
  <2>2. [Heard(e, k) EXCEPT !.sn = (@ + 1) % EventSpace] = h BY <1>0, <2>1 DEF EvFields
  <2>3. /\ DOMAIN h = EvFields /\ h.sent = e.sent /\ h.base = e.base /\ h.sn = next /\ h.up = e.up /\ h.assert = e.assert
        /\ h.heard = e.heard \union {k} /\ h.done = e.done /\ h.gap = missed /\ h.disorder = e.disorder /\ h.q = e.q
    BY <1>0 DEF EvFields
  <2>4. EventCb(e, k, w) = IF w = "credit" THEN h ELSE skw_queue_event_work(h, IF w = "iface" /\ ~e.up THEN "core" ELSE w, k)
    BY <1>3, <2>2, <2>3 DEF EventCb
  <2>5. EvShape(h)
    <3> HIDE DEF h, next
    <3> QED BY <1>1, <2>3 DEF EvShape
  <2>6. CountedOK(h)
    <3> SUFFICES ASSUME MaxEvents <= EventSpace, ~e.assert
                 PROVE  /\ ~missed
                        /\ \E c \in 0..(k - e.base) : next = c % EventSpace /\ \A j \in (e.base + 1)..(e.base + c) : j \in e.heard \union {k}
      <4> HIDE DEF h, next
      <4> QED BY <2>3 DEF CountedOK
    <3>1. PICK c \in 0..(k - 1 - e.base) : e.sn = c % EventSpace /\ \A j \in (e.base + 1)..(e.base + c) : j \in e.heard
      OBVIOUS
    <3>2. c \in 0..(EventSpace - 1) /\ c + 1 \in 1..EventSpace /\ k - e.base \in 1..EventSpace BY <1>0
    <3>3. e.sn = c BY <3>1, <3>2, SmallNumber
    <3>4. (c + 1) % EventSpace = (k - e.base) % EventSpace BY <1>3, <3>3
    <3>5. c + 1 = k - e.base
      <4> DEFINE x == c + 1
                 y == k - e.base
      <4>1. x \in 1..EventSpace /\ y \in 1..EventSpace /\ x % EventSpace = y % EventSpace
        BY <3>2, <3>4
      <4> HIDE DEF x, y
      <4>2. x = y BY <4>1, NumbersDiffer
      <4> QED BY <4>2 DEF x, y
    <3>6. \A j \in (e.base + 1)..(k - 1) : j \in e.heard BY <1>0, <3>1, <3>5
    <3>7. ~missed BY <3>6 DEF missed, CountedOK
    <3>8. \A j \in (e.base + 1)..(e.base + (c + 1)) : j \in e.heard \union {k}
      <4> SUFFICES ASSUME NEW j \in (e.base + 1)..(e.base + (c + 1)) PROVE j = k \/ j \in e.heard
        OBVIOUS
      <4>1. c \in Nat /\ k = e.base + c + 1 /\ j \in Nat BY <1>0, <3>5
      <4>2. j = k \/ j \in (e.base + 1)..(e.base + c) BY <1>0, <4>1
      <4> QED BY <3>1, <4>2
    <3> QED BY <1>0, <3>2, <3>3, <3>7, <3>8
  <2>7. \A v \in Works : Waiting(h.q[v], h.done[v], k - 1) BY <2>3
  <2> HIDE DEF h, next
  <2> DEFINE x == IF w = "iface" /\ ~e.up THEN "core" ELSE w
             d == skw_queue_event_work(h, x, k)
  <2>8. ASSUME w # "credit" PROVE EvShape(d) /\ CountedOK(d)
    <3>1. x \in Works BY <2>8 DEF Works
    <3> HIDE DEF x
    <3> QED BY <2>3, <2>5, <2>6, <2>7, <3>1, QueuedIs
  <2> HIDE DEF d
  <2> QED BY <2>4, <2>5, <2>6, <2>8 DEF d
<1> QED BY <1>2, <1>3

\* It holds at the start.
LEMMA EvBegin == EvInit => EvInv
<1> SUFFICES ASSUME EvInit PROVE EvInv OBVIOUS
<1>1. /\ DOMAIN ev = EvFields /\ ev.sent = 0 /\ ev.base = 0 /\ ev.sn = 0 /\ ev.heard = {} /\ ev.up = TRUE /\ ev.assert = FALSE
      /\ ev.gap = FALSE /\ ev.disorder = FALSE /\ ev.q = [w \in Works |-> <<>>] /\ ev.done = [w \in Works |-> 0]
  BY DEF EvInit, EvFields
<1>2. EvShape(ev)
  <2>1. /\ MaxEvents \in Nat /\ 0 \in 0..MaxEvents /\ 0 \in 0..(EventSpace - 1) /\ <<>> \in Seq(1..MaxEvents) /\ Len(<<>>) = 0
    BY EventBounds
  <2>2. \A w \in Works : Waiting(<<>>, 0, 0) BY <2>1 DEF Waiting
  <2>3. ev.q \in [Works -> Seq(1..MaxEvents)] /\ ev.done \in [Works -> Nat] /\ ev.heard \subseteq 1..MaxEvents
    BY <1>1, <2>1
  <2>4. \A w \in Works : Waiting(ev.q[w], ev.done[w], ev.sent) BY <1>1, <2>2
  <2>5. ev.sent \in 0..MaxEvents /\ ev.base \in 0..ev.sent /\ ev.sn \in 0..(EventSpace - 1)
    BY <1>1, <2>1
  <2>6. ev.up \in BOOLEAN /\ ev.assert \in BOOLEAN /\ ev.gap \in BOOLEAN /\ ev.disorder = FALSE /\ DOMAIN ev = EvFields
    BY <1>1
  <2> QED BY <2>3, <2>4, <2>5, <2>6 DEF EvShape
<1>3. 0 \in 0..(ev.sent - ev.base) /\ ev.sn = 0 % EventSpace /\ \A j \in (ev.base + 1)..(ev.base + 0) : j \in ev.heard
  BY <1>1, EventBounds, SmallNumber
<1>4. CountedOK(ev) BY <1>1, <1>3 DEF CountedOK
<1> QED BY <1>2, <1>4 DEF EvInv

\* An event is sent, and lost or not.
LEMMA EvSent ==
    ASSUME EvInv, skw_rx_cb
    PROVE  EvInv'
<1>1. PICK w \in Works \union {"credit"}, lost \in BOOLEAN :
         /\ ev.sent < MaxEvents
         /\ ev' = IF lost THEN [ev EXCEPT !.sent = ev.sent + 1] ELSE EventCb([ev EXCEPT !.sent = ev.sent + 1], ev.sent + 1, w)
  BY DEF skw_rx_cb
<1> DEFINE k == ev.sent + 1
           r == [ev EXCEPT !.sent = k]
<1>2. /\ k \in 1..MaxEvents /\ k - 1 = ev.sent /\ ev.sent \in Nat /\ ev.base \in Nat /\ ev.base < k /\ ev.sent < k
      /\ MaxEvents \in Nat /\ k \in Nat
  <2>1. ev.sent \in 0..MaxEvents /\ ev.base \in 0..ev.sent /\ MaxEvents \in Nat
    BY EventBounds DEF EvInv, EvShape
  <2> QED BY <1>1, <2>1
<1>3. /\ DOMAIN r = EvFields /\ r.sent = k /\ r.base = ev.base /\ r.sn = ev.sn /\ r.up = ev.up /\ r.assert = ev.assert
      /\ r.heard = ev.heard /\ r.done = ev.done /\ r.gap = ev.gap /\ r.disorder = ev.disorder /\ r.q = ev.q
  BY DEF EvInv, EvShape, EvFields
<1>4. ev' = IF lost THEN r ELSE EventCb(r, k, w) BY <1>1
<1> HIDE DEF r
<1>5. ASSUME NEW v \in Works PROVE Waiting(r.q[v], r.done[v], k - 1) /\ Waiting(r.q[v], r.done[v], k)
  <2> DEFINE s == ev.q[v]
             h == ev.done[v]
             l == ev.sent
  <2>1. Waiting(s, h, l) /\ l \in Nat /\ l < k BY <1>2 DEF EvInv, EvShape
  <2> HIDE DEF s, h, l, k
  <2>2. Waiting(s, h, k) BY <1>2, <2>1, WaitsMore
  <2> QED BY <1>2, <1>3, <2>1, <2>2 DEF s, h, l
<1>6. EvShape(r)
  <2> HIDE DEF k
  <2> QED BY <1>2, <1>3, <1>5 DEF EvInv, EvShape
<1>7. MaxEvents <= EventSpace /\ ~r.assert => \E c \in 0..(k - 1 - r.base) :
                      r.sn = c % EventSpace /\ \A j \in (r.base + 1)..(r.base + c) : j \in r.heard
  <2>1. MaxEvents <= EventSpace /\ ~ev.assert => \E c \in 0..(ev.sent - ev.base) :
                      ev.sn = c % EventSpace /\ \A j \in (ev.base + 1)..(ev.base + c) : j \in ev.heard
    BY DEF EvInv, CountedOK
  <2> QED BY <1>2, <1>3, <2>1
<1>8. CountedOK(r)
  <2>1. 0..(k - 1 - r.base) \subseteq 0..(r.sent - r.base) BY <1>2, <1>3
  <2>2. MaxEvents <= EventSpace /\ ~r.assert => ~r.gap BY <1>3 DEF EvInv, CountedOK
  <2> HIDE DEF k
  <2> QED BY <1>7, <2>1, <2>2 DEF CountedOK
<1> HIDE DEF k
<1>9. r.base < k /\ k = r.sent BY <1>2, <1>3
<1>10. EvShape(EventCb(r, k, w)) /\ CountedOK(EventCb(r, k, w))
  BY <1>2, <1>5, <1>6, <1>7, <1>8, <1>9, HeardIs
<1> QED BY <1>4, <1>6, <1>8, <1>10 DEF EvInv

\* A work handles the event at its head.
LEMMA EvHandled ==
    ASSUME EvInv, skw_event_handler
    PROVE  EvInv'
<1>1. PICK w \in Works :
         /\ ev.q[w] # <<>>
         /\ ev' = [ev EXCEPT !.q[w] = Tail(ev.q[w]), !.done[w] = Head(ev.q[w]),
                             !.disorder = ev.disorder \/ Head(ev.q[w]) <= ev.done[w]]
  BY DEF skw_event_handler
<1> DEFINE late == ev.disorder \/ Head(ev.q[w]) <= ev.done[w]
<1>2. Waiting(ev.q[w], ev.done[w], ev.sent) /\ ev.sent \in Nat BY EventBounds DEF EvInv, EvShape
<1> DEFINE s == ev.q[w]
           h == ev.done[w]
           l == ev.sent
<1>3. h < Head(s) /\ Waiting(Tail(s), Head(s), l)
  <2>1. Waiting(s, h, l) /\ l \in Nat /\ s # <<>> BY <1>1, <1>2
  <2> HIDE DEF s, h, l
  <2> QED BY <2>1, WaitsLess
<1>4. late = FALSE
  <2>1. h \in Nat /\ Head(s) \in Nat /\ ev.disorder = FALSE BY <1>2, <1>3 DEF Waiting, EvInv, EvShape
  <2> QED BY <1>3, <2>1
<1> HIDE DEF late
<1>5. /\ DOMAIN ev' = EvFields /\ ev'.sent = ev.sent /\ ev'.base = ev.base /\ ev'.sn = ev.sn /\ ev'.up = ev.up
      /\ ev'.assert = ev.assert /\ ev'.heard = ev.heard /\ ev'.gap = ev.gap /\ ev'.disorder = late
      /\ ev'.q = [ev.q EXCEPT ![w] = Tail(ev.q[w])] /\ ev'.done = [ev.done EXCEPT ![w] = Head(ev.q[w])]
  BY <1>1 DEF EvInv, EvShape, EvFields, late
<1>6. ASSUME NEW v \in Works PROVE Waiting(ev'.q[v], ev'.done[v], ev'.sent)
  <2>1. CASE v # w BY <1>5, <2>1 DEF EvInv, EvShape
  <2>2. CASE v = w BY <1>3, <1>5, <2>2 DEF EvInv, EvShape
  <2> QED BY <2>1, <2>2
<1>7. Tail(ev.q[w]) \in Seq(1..MaxEvents) /\ Head(ev.q[w]) \in Nat BY <1>3 DEF Waiting
<1>8. ev'.q \in [Works -> Seq(1..MaxEvents)] /\ ev'.done \in [Works -> Nat]
  BY <1>5, <1>7 DEF EvInv, EvShape
<1>9. EvShape(ev') BY <1>4, <1>5, <1>6, <1>8 DEF EvInv, EvShape
<1>10. CountedOK(ev') BY <1>5 DEF EvInv, CountedOK
<1> QED BY <1>9, <1>10 DEF EvInv

\* The interface is torn down: what waited for its work is forgotten.
LEMMA EvDeinit ==
    ASSUME EvInv, skw_event_work_deinit
    PROVE  EvInv'
<1>1. /\ DOMAIN ev' = EvFields /\ ev'.sent = ev.sent /\ ev'.base = ev.base /\ ev'.sn = ev.sn /\ ev'.up = FALSE
      /\ ev'.assert = ev.assert /\ ev'.heard = ev.heard /\ ev'.gap = ev.gap /\ ev'.disorder = ev.disorder
      /\ ev'.q = [ev.q EXCEPT !["iface"] = <<>>] /\ ev'.done = ev.done
  BY DEF EvInv, EvShape, EvFields, skw_event_work_deinit
<1>2. ASSUME NEW v \in Works PROVE Waiting(ev'.q[v], ev'.done[v], ev'.sent)
  <2>1. CASE v # "iface" BY <1>1, <2>1 DEF EvInv, EvShape
  <2>2. CASE v = "iface"
    <3>1. ev'.q[v] = <<>> /\ ev'.done[v] = ev.done[v] /\ ev'.sent = ev.sent
      BY <1>1, <2>2 DEF EvInv, EvShape
    <3>2. ev.done[v] \in Nat /\ ev.done[v] <= ev.sent BY DEF EvInv, EvShape, Waiting
    <3> QED BY <3>1, <3>2 DEF Waiting
  <2> QED BY <2>1, <2>2
<1>3. ev'.q \in [Works -> Seq(1..MaxEvents)]
  <2>1. <<>> \in Seq(1..MaxEvents) /\ ev.q \in [Works -> Seq(1..MaxEvents)] BY DEF EvInv, EvShape
  <2> QED BY <1>1, <2>1
<1>4. EvShape(ev') BY <1>1, <1>2, <1>3 DEF EvInv, EvShape
<1>5. CountedOK(ev') BY <1>1 DEF EvInv, CountedOK
<1> QED BY <1>4, <1>5 DEF EvInv

\* An interface takes the place of the one that is gone.
LEMMA EvUp ==
    ASSUME EvInv, skw_event_work_init
    PROVE  EvInv'
<1>1. /\ DOMAIN ev' = EvFields /\ ev'.sent = ev.sent /\ ev'.base = ev.base /\ ev'.sn = ev.sn /\ ev'.up = TRUE
      /\ ev'.assert = ev.assert /\ ev'.heard = ev.heard /\ ev'.gap = ev.gap /\ ev'.disorder = ev.disorder
      /\ ev'.q = ev.q /\ ev'.done = ev.done
  BY DEF EvInv, EvShape, EvFields, skw_event_work_init
<1>2. EvShape(ev') BY <1>1 DEF EvInv, EvShape
<1>3. CountedOK(ev') BY <1>1 DEF EvInv, CountedOK
<1> QED BY <1>2, <1>3 DEF EvInv

\* Firmware and driver count from 0 again.
LEMMA EvRestarted ==
    ASSUME EvInv, EventsRestart
    PROVE  EvInv'
<1>1. /\ DOMAIN ev' = EvFields /\ ev'.sent = ev.sent /\ ev'.base = ev.sent /\ ev'.sn = 0 /\ ev'.up = ev.up
      /\ ev'.assert = FALSE /\ ev'.heard = ev.heard /\ ev'.gap = FALSE /\ ev'.disorder = ev.disorder
      /\ ev'.q = ev.q /\ ev'.done = ev.done
  BY DEF EvInv, EvShape, EvFields, EventsRestart
<1>2. EvShape(ev')
  <2>1. ev.sent \in 0..MaxEvents /\ ev.sent \in 0..ev.sent /\ 0 \in 0..(EventSpace - 1)
    BY EventBounds DEF EvInv, EvShape
  <2> QED BY <1>1, <2>1 DEF EvInv, EvShape
<1>3. 0 \in 0..(ev'.sent - ev'.base) /\ ev'.sn = 0 % EventSpace /\ \A j \in (ev'.base + 1)..(ev'.base + 0) : j \in ev'.heard
  BY <1>1, EventBounds, SmallNumber DEF EvInv, EvShape
<1>4. CountedOK(ev') BY <1>1, <1>3 DEF CountedOK
<1> QED BY <1>2, <1>4 DEF EvInv

\* Every step keeps it.
LEMMA EvStep == EvInv /\ [EvNext]_evVars => EvInv'
<1> SUFFICES ASSUME EvInv, [EvNext]_evVars PROVE EvInv' OBVIOUS
<1>1. CASE skw_rx_defragment BY <1>1 DEF skw_rx_defragment, EvInv
<1>2. CASE UNCHANGED evVars BY <1>2 DEF evVars, EvInv
<1> QED BY <1>1, <1>2, EvSent, EvHandled, EvDeinit, EvUp, EvRestarted DEF EvNext

\* The number of the next event gives every loss away, and each work handles
\* its events in the order they were sent (skw_rx_cb, skw_event_handler), as
\* long as there are numbers for all events.
THEOREM EventsAreCounted == MaxEvents <= EventSpace => (EvSpec => []NoEventMissed)
<1> SUFFICES ASSUME MaxEvents <= EventSpace PROVE EvSpec => []NoEventMissed OBVIOUS
<1>1. EvInv => NoEventMissed BY DEF EvInv, EvShape, CountedOK, NoEventMissed
<1> QED BY EvBegin, EvStep, <1>1, PTL DEF EvSpec

\* The fragments.  What an entry holds of an encrypted message are its
\* first fragments, as the packet number says.
FragFields == {"slot", "keyed", "msg", "next", "order", "mixed"}
SlotFields == {"sn", "active", "num", "pn", "got"}
Begun(s, m) == s.pn = 3 * m + s.num /\ Len(s.got) = s.num + 1 /\ \A i \in 1..Len(s.got) : s.got[i] = m
FragSlot(s, keyed) ==
    /\ DOMAIN s = SlotFields /\ s.sn \in {Unset, 0, 1} /\ s.got \in Seq(Nat)
    /\ keyed /\ s.sn # Unset => s.num \in {0, 1} /\ \E m \in Nat : Begun(s, m)
FragInv ==
    /\ DOMAIN frag = FragFields /\ frag.keyed \in BOOLEAN /\ frag.mixed \in BOOLEAN /\ (frag.keyed => ~frag.mixed)
    /\ frag.msg \in Nat /\ frag.next \in 0..2
    /\ DOMAIN frag.slot = 1..FragEntries /\ \A e \in 1..FragEntries : FragSlot(frag.slot[e], frag.keyed)

\* It holds at the start.
LEMMA FragBegin == EvInit => FragInv
<1> SUFFICES ASSUME EvInit PROVE FragInv OBVIOUS
<1>1. PICK keyed \in BOOLEAN :
        frag = [slot |-> [e \in 1..FragEntries |-> [sn |-> Unset, active |-> FALSE, num |-> 0, pn |-> Unset, got |-> <<>>]],
                keyed |-> keyed, msg |-> 0, next |-> 0, order |-> [e \in 1..FragEntries |-> e], mixed |-> FALSE]
  BY DEF EvInit
<1>2. FragSlot([sn |-> Unset, active |-> FALSE, num |-> 0, pn |-> Unset, got |-> <<>>], frag.keyed)
  BY DEF FragSlot, SlotFields
<1> QED BY <1>1, <1>2 DEF FragInv, FragFields

\* The interface goes: its entries are emptied.
LEMMA FragDeinit ==
    ASSUME FragInv, skw_event_work_deinit
    PROVE  FragInv'
<1>1. /\ DOMAIN frag' = FragFields /\ frag'.keyed = frag.keyed /\ frag'.mixed = frag.mixed
      /\ frag'.msg = frag.msg /\ frag'.next = frag.next
      /\ frag'.slot = [e \in 1..FragEntries |-> [frag.slot[e] EXCEPT !.sn = Unset, !.got = <<>>]]
  BY DEF FragInv, FragFields, skw_event_work_deinit
<1>2. ASSUME NEW e \in 1..FragEntries PROVE FragSlot(frag'.slot[e], frag'.keyed)
  <2>1. frag'.slot[e] = [frag.slot[e] EXCEPT !.sn = Unset, !.got = <<>>] /\ DOMAIN frag.slot[e] = SlotFields
    BY <1>1 DEF FragInv, FragSlot
  <2>2. DOMAIN frag'.slot[e] = SlotFields /\ frag'.slot[e].sn = Unset /\ frag'.slot[e].got = <<>>
    BY <2>1 DEF SlotFields
  <2> QED BY <2>2 DEF FragSlot
<1> QED BY <1>1, <1>2 DEF FragInv

\* The next fragment arrives, or is lost.
LEMMA FragNext ==
    ASSUME FragInv, skw_rx_defragment
    PROVE  FragInv'
<1> DEFINE f == frag.next
           fits == {e \in 1..FragEntries : frag.slot[e].sn = FragSn /\ frag.slot[e].num + 1 = f
                                           /\ PnContinues(frag.slot[e], f)}
           start == skw_frag_init_entry(skw_frag_get_entry(FragSn))
           grown == Defragged(CHOOSE e \in fits : TRUE, f)
<1>0. /\ f \in 0..2 /\ frag.msg \in Nat /\ FragSn \in {0, 1} /\ FragPn(0) = 3 * frag.msg /\ FragPn(f) = 3 * frag.msg + f
      /\ frag.keyed \in BOOLEAN
  BY DEF FragInv, FragSn, FragPn
<1> DEFINE Kept(r) == /\ DOMAIN r = FragFields /\ r.keyed = frag.keyed /\ r.mixed \in BOOLEAN /\ (r.keyed => ~r.mixed)
                      /\ r.msg = frag.msg /\ DOMAIN r.slot = 1..FragEntries
                      /\ \A e \in 1..FragEntries : FragSlot(r.slot[e], r.keyed)
<1>1. PICK lost \in BOOLEAN :
         frag' = [(IF lost THEN frag ELSE IF f = 0 THEN start ELSE IF fits = {} THEN frag ELSE grown)
                  EXCEPT !.next = (f + 1) % 3, !.msg = IF f = 2 THEN @ + 1 ELSE @]
  BY DEF skw_rx_defragment
<1>2. Kept(frag) BY DEF FragInv
<1>3. ASSUME f = 0 PROVE Kept(start)
  <2> DEFINE x == skw_frag_get_entry(FragSn)
             s == [sn |-> FragSn, active |-> TRUE, num |-> 0, pn |-> FragPn(0), got |-> <<frag.msg>>]
  <2>1. FragSlot(s, frag.keyed)
    <3>1. DOMAIN s = SlotFields /\ s.sn = FragSn /\ s.got = <<frag.msg>> /\ s.num = 0 /\ s.pn = 3 * frag.msg
      BY <1>0 DEF SlotFields
    <3> HIDE DEF s
    <3>2. s.got \in Seq(Nat) /\ Len(s.got) = 1 /\ \A i \in 1..Len(s.got) : s.got[i] = frag.msg
      BY <1>0, <3>1
    <3>3. Begun(s, frag.msg) BY <1>0, <3>1, <3>2 DEF Begun
    <3> QED BY <1>0, <3>1, <3>2, <3>3 DEF FragSlot
  <2> HIDE DEF x
  <2>2. /\ DOMAIN start = FragFields /\ start.keyed = frag.keyed /\ start.mixed = frag.mixed /\ start.msg = frag.msg
        /\ start.slot = [frag.slot EXCEPT ![x] = s]
    BY DEF FragInv, FragFields, skw_frag_init_entry, x
  <2> HIDE DEF s, start
  <2> QED BY <2>1, <2>2 DEF FragInv
<1>4. ASSUME f # 0, fits # {} PROVE Kept(grown)
  <2> DEFINE x == CHOOSE e \in fits : TRUE
             c == frag.slot[x]
             got == Append(c.got, frag.msg)
  <2>1. x \in 1..FragEntries /\ c.sn = FragSn /\ c.num + 1 = f /\ (frag.keyed => c.pn + 1 = FragPn(f))
    BY <1>4 DEF PnContinues
  <2> HIDE DEF x
  <2>2. FragSlot(c, frag.keyed) /\ c.sn # Unset BY <1>0, <2>1 DEF FragInv, Unset
  <2>3. c.got \in Seq(Nat) /\ got \in Seq(Nat) /\ DOMAIN c = SlotFields BY <1>0, <2>2 DEF FragSlot
  <2>4. ASSUME frag.keyed PROVE Len(got) = f + 1 /\ \A i \in 1..Len(got) : got[i] = frag.msg
    <3>1. PICK m \in Nat : Begun(c, m) BY <2>2, <2>4 DEF FragSlot
    <3>2. c.num \in {0, 1} /\ f \in {1, 2} /\ c.num = f - 1
      BY <1>0, <1>4, <2>1, <2>2, <2>4 DEF FragSlot
    <3>3. m = frag.msg
      <4> DEFINE k == frag.msg
                 pn == c.pn
      <4>1. pn = 3 * m + c.num BY <3>1 DEF Begun
      <4>2. pn + 1 = 3 * k + f BY <1>0, <2>1, <2>4
      <4>3. k \in Nat /\ f \in {1, 2} /\ c.num = f - 1 BY <1>0, <3>2
      <4> HIDE DEF k, f, pn
      <4>4. pn = 3 * m + (f - 1) BY <4>1, <4>3
      <4>5. m = k BY <4>2, <4>3, <4>4
      <4> QED BY <4>5 DEF k
    <3>4. Len(c.got) = f /\ \A i \in 1..f : c.got[i] = frag.msg BY <3>1, <3>2, <3>3 DEF Begun
    <3> DEFINE g == c.got
               k == frag.msg
    <3>5. g \in Seq(Nat) /\ k \in Nat /\ f \in Nat /\ Len(g) = f /\ \A i \in 1..f : g[i] = k
      BY <1>0, <2>3, <3>4
    <3> HIDE DEF g, k, f
    <3>6. Len(Append(g, k)) = f + 1 /\ \A i \in 1..(f + 1) : Append(g, k)[i] = k BY <3>5
    <3> QED BY <3>6 DEF g, k, f
  <2>5. CASE f < 2
    <3> DEFINE s == [c EXCEPT !.num = f, !.pn = FragPn(f), !.got = got]
    <3>1. DOMAIN s = SlotFields /\ s.sn = c.sn /\ s.num = f /\ s.pn = FragPn(f) /\ s.got = got
      BY <2>3 DEF SlotFields
    <3>2. /\ DOMAIN grown = FragFields /\ grown.keyed = frag.keyed /\ grown.mixed = frag.mixed /\ grown.msg = frag.msg
          /\ grown.slot = [frag.slot EXCEPT ![x] = s]
      BY <2>5 DEF FragInv, FragFields, Defragged, x
    <3> HIDE DEF s, grown, got
    <3>3. f = 1 BY <1>0, <1>4, <2>5
    <3>4. frag.keyed => Begun(s, frag.msg) BY <1>0, <2>4, <3>1, <3>3 DEF Begun
    <3>5. FragSlot(s, frag.keyed) BY <1>0, <2>1, <2>3, <3>1, <3>3, <3>4 DEF FragSlot
    <3> QED BY <2>1, <3>2, <3>5 DEF FragInv
  <2>6. CASE ~(f < 2)
    <3> DEFINE s == [c EXCEPT !.sn = Unset, !.active = FALSE, !.got = <<>>]
               other == frag.mixed \/ ~(\A i \in 1..3 : got[i] = frag.msg)
    <3>1. DOMAIN s = SlotFields /\ s.sn = Unset /\ s.got = <<>> BY <2>3 DEF SlotFields
    <3>2. grown = [frag EXCEPT !.slot = [frag.slot EXCEPT ![x] = s], !.mixed = other]
      BY <2>6 DEF Defragged, x
    <3> HIDE DEF s, other, got
    <3>3. /\ DOMAIN grown = FragFields /\ grown.keyed = frag.keyed /\ grown.mixed = other /\ grown.msg = frag.msg
          /\ grown.slot = [frag.slot EXCEPT ![x] = s]
      BY <3>2 DEF FragInv, FragFields
    <3>4. frag.keyed => ~other
      <4>1. f + 1 = 3 BY <1>0, <2>6
      <4> QED BY <2>4, <4>1 DEF FragInv, other
    <3>5. other \in BOOLEAN BY DEF other
    <3>6. FragSlot(s, frag.keyed) BY <3>1 DEF FragSlot
    <3> HIDE DEF grown
    <3> QED BY <2>1, <3>3, <3>4, <3>5, <3>6 DEF FragInv
  <2> QED BY <2>5, <2>6
<1> HIDE DEF start, grown, fits, f
<1> DEFINE r == IF lost THEN frag ELSE IF f = 0 THEN start ELSE IF fits = {} THEN frag ELSE grown
<1>5. Kept(r) BY <1>2, <1>3, <1>4
<1>6. /\ DOMAIN frag' = FragFields /\ frag'.keyed = r.keyed /\ frag'.mixed = r.mixed /\ frag'.slot = r.slot
      /\ frag'.next = (f + 1) % 3 /\ frag'.msg = IF f = 2 THEN frag.msg + 1 ELSE frag.msg
  <2>1. frag' = [r EXCEPT !.next = (f + 1) % 3, !.msg = IF f = 2 THEN @ + 1 ELSE @] BY <1>1
  <2> HIDE DEF r
  <2> QED BY <1>5, <2>1 DEF FragFields
<1>7. frag'.next \in 0..2 /\ frag'.msg \in Nat BY <1>0, <1>6
<1> QED BY <1>0, <1>5, <1>6, <1>7 DEF FragInv

\* Every step keeps it.
LEMMA FragStep == FragInv /\ [EvNext]_evVars => FragInv'
<1> SUFFICES ASSUME FragInv, [EvNext]_evVars PROVE FragInv' OBVIOUS
<1>1. CASE UNCHANGED frag BY <1>1 DEF FragInv
<1>2. CASE skw_event_work_deinit \/ skw_rx_defragment BY <1>2, FragDeinit, FragNext
<1> QED BY <1>1, <1>2 DEF EvNext, skw_rx_cb, skw_event_handler, skw_event_work_init, EventsRestart,
     evVars

\* A message that is put together from the fragments of an encrypted link
\* consists of fragments of one message (skw_rx_defragment), although entries
\* never expire and sequence numbers come again.
THEOREM FragmentsAreOne == EvSpec => []FragmentsOfOne
<1>1. FragInv => FragmentsOfOne BY DEF FragInv, FragmentsOfOne
<1> QED BY FragBegin, FragStep, <1>1, PTL DEF EvSpec

\* The events, their works and the flags keep their types.
THEOREM EventTyping == EvSpec => []EvTypeOK
<1>1. EvInv /\ FragInv => EvTypeOK BY DEF EvInv, EvShape, FragInv, EvTypeOK
<1> QED BY EvBegin, EvStep, FragBegin, FragStep, <1>1, PTL DEF EvSpec

-----------------------------------------------------------------------------
\* Radar detection: the records.
DfFields == {"ap", "on", "flag", "flags", "chan", "work", "nl", "had", "ew", "told", "radar", "odd", "ops"}
DfShape(f) ==
    /\ DOMAIN f = DfFields
    /\ f.ap \in [Aps -> {"down", "cac", "clear", "up"}] /\ f.on \in [Aps -> Chans] /\ f.chan \in Chans
    /\ f.flag \in [Aps -> SUBSET {"cac", "mon"}] /\ f.flags \subseteq {"cac", "mon"}
    /\ f.work \subseteq Aps /\ f.told \in [Aps -> {"none", "finished", "aborted", "radar"}]
    /\ f.had \in BOOLEAN /\ f.nl \in {"idle"} \union Aps /\ f.ew \in {"idle"} \union Aps /\ f.ops \in 0..MaxDfsOps

\* A check is waited for, a work is that of a check, one that runs listens.
Awaited(f, i) == f.ap[i] = "cac" => i \in f.work \/ f.ew = i \/ f.nl = i
Wanted(f, i) == i \in f.work => f.ap[i] = "cac" /\ "cac" \in f.flag[i]
Listens(f, i) == f.odd = {} /\ f.ap[i] = "up" /\ i \notin f.radar => "mon" \in f.flag[i] /\ "mon" \in f.flags
\* What is set for an interface is set for the chip, on its channel, unless
\* another interface took it away or the firmware switched.
Tuned(f, i) ==
    f.odd \intersect {"switched", "silenced"} = {} => f.flag[i] \subseteq f.flags /\ (f.flag[i] # {} => f.on[i] = f.chan)
\* A request that ends an interface saw its check, if there is one.
Seen(f) == f.nl # "idle" /\ "cac" \in f.flag[f.nl] => f.had
Excused(f) == "otherchannel" \in f.odd => f.odd \intersect {"switched", "silenced"} # {}
\* The work, halfway, has taken its interface off the list.
Halfway(f) == f.ew # "idle" => f.ap[f.ew] = "cac" /\ f.ew \notin f.work
\* All of it but for the interface that is at work.
DfsBut(f, i) ==
    /\ DfShape(f) /\ Seen(f) /\ Excused(f) /\ \A j \in Aps : Tuned(f, j)
    /\ \A j \in Aps \ {i} : Awaited(f, j) /\ Wanted(f, j) /\ Listens(f, j)
DfInv(f) ==
    /\ DfShape(f) /\ Seen(f) /\ Excused(f) /\ Halfway(f) /\ \A j \in Aps : Tuned(f, j)
    /\ \A j \in Aps : Awaited(f, j) /\ Wanted(f, j) /\ Listens(f, j)

\* A check or a monitoring is stopped.
StoppedIs(f, g, i, what) ==
    /\ g.ap = f.ap /\ g.work = f.work /\ g.nl = f.nl /\ g.had = f.had /\ g.ew = f.ew /\ g.told = f.told
    /\ g.radar = f.radar /\ g.ops = f.ops /\ g.on = f.on /\ g.chan = f.chan
    /\ g.flag = [f.flag EXCEPT ![i] = f.flag[i] \ {what}] /\ g.flags = f.flags \ {what} /\ f.odd \subseteq g.odd
\* skw_dfs_stop_cac, skw_dfs_stop_monitor: what else they disturb is excused.
LEMMA StopIs ==
    ASSUME NEW f, NEW i \in Aps, DfsBut(f, i), NEW what \in {"cac", "mon"}
    PROVE  StoppedIs(f, StopDfs(f, i, what), i, what) /\ DfsBut(StopDfs(f, i, what), i)
<1> DEFINE others == \E j \in Aps \ {i} : what \in f.flag[j]
           odd == IF others THEN f.odd \union {"silenced"} ELSE f.odd
           g == StopDfs(f, i, what)
<1>1. g = [f EXCEPT !.flag = [f.flag EXCEPT ![i] = f.flag[i] \ {what}], !.flags = f.flags \ {what}, !.odd = odd]
  BY DEF StopDfs
<1> HIDE DEF odd, g
<1>2. DOMAIN g = DfFields /\ g.odd = odd /\ StoppedIs(f, g, i, what)
  <2>1. f.odd \subseteq odd BY DEF odd
  <2> QED BY <1>1, <2>1 DEF DfsBut, DfShape, DfFields, StoppedIs
<1>3. f.odd \subseteq odd /\ (others => "silenced" \in odd) /\ ("otherchannel" \in odd => "otherchannel" \in f.odd)
  BY DEF odd
<1>4. f.flag \in [Aps -> SUBSET {"cac", "mon"}] /\ DfShape(f) BY DEF DfsBut, DfShape
<1>5. DfShape(g) BY <1>2, <1>4 DEF DfShape, StoppedIs
<1>6. \A j \in Aps : g.flag[j] = IF j = i THEN f.flag[j] \ {what} ELSE f.flag[j]
  BY <1>2, <1>4 DEF StoppedIs
<1>7. Seen(g) BY <1>2, <1>4, <1>6 DEF Seen, StoppedIs, DfsBut, DfShape
<1>8. Excused(g) BY <1>2, <1>3 DEF Excused, DfsBut
<1>9. ASSUME NEW j \in Aps PROVE Tuned(g, j)
  <2>1. Tuned(f, j) BY DEF DfsBut
  <2>2. CASE j # i /\ what \in f.flag[j] BY <1>2, <1>3, <2>2 DEF Tuned
  <2>3. CASE j = i \/ what \notin f.flag[j] BY <1>2, <1>3, <1>6, <2>1, <2>3 DEF Tuned, StoppedIs
  <2> QED BY <2>2, <2>3
<1>10. ASSUME NEW j \in Aps \ {i} PROVE Awaited(g, j) /\ Wanted(g, j) /\ Listens(g, j)
  <2>1. Awaited(f, j) /\ Wanted(f, j) /\ Listens(f, j) /\ g.flag[j] = f.flag[j] BY <1>6 DEF DfsBut
  <2>2. Listens(g, j)
    <3> SUFFICES ASSUME g.odd = {}, g.ap[j] = "up", j \notin g.radar PROVE "mon" \in g.flag[j] /\ "mon" \in g.flags
      BY DEF Listens
    <3>1. f.odd = {} /\ ~others BY <1>2, <1>3
    <3>2. "mon" \in f.flag[j] /\ "mon" \in f.flags BY <1>2, <2>1, <3>1 DEF Listens, StoppedIs
    <3>3. what # "mon" BY <3>1, <3>2
    <3> QED BY <1>2, <2>1, <3>2, <3>3 DEF StoppedIs
  <2> QED BY <1>2, <2>1, <2>2 DEF Awaited, Wanted, StoppedIs
<1> QED BY <1>2, <1>5, <1>7, <1>8, <1>9, <1>10 DEF DfsBut, g

\* All of an interface's detection ends.
EndedIs(f, g, i, checking) ==
    /\ g.nl = f.nl /\ g.had = f.had /\ g.ew = f.ew /\ g.radar = f.radar /\ g.ops = f.ops /\ g.on = f.on /\ g.chan = f.chan
    /\ "mon" \notin g.flag[i] /\ f.odd \subseteq g.odd
    /\ checking => i \notin g.work /\ g.ap[i] # "cac" /\ (f.ap[i] = "up" => g.ap[i] = "up") /\ "cac" \notin g.flag[i]
    /\ ~checking => g.work = f.work /\ g.ap = f.ap /\ g.flag[i] \subseteq f.flag[i] /\ ("cac" \in f.flag[i] => "cac" \in g.flag[i])
\* skw_dfs_deinit stops the check, with its work, and the monitoring.
LEMMA DeinitIs ==
    ASSUME NEW f, NEW i \in Aps, DfsBut(f, i), NEW checking \in BOOLEAN
    PROVE  EndedIs(f, skw_dfs_deinit(f, i, checking), i, checking) /\ DfsBut(skw_dfs_deinit(f, i, checking), i)
<1> DEFINE w == [f EXCEPT !.work = f.work \ {i}]
           c == StopDfs(w, i, "cac")
           e == CacEvent(c, i, "aborted")
           g == IF checking THEN e ELSE f
           h == StopDfs(g, i, "mon")
           d == skw_dfs_deinit(f, i, checking)
<1>1. d = IF "mon" \in g.flag[i] THEN h ELSE g BY DEF skw_dfs_deinit
<1>2. /\ DOMAIN w = DfFields /\ w.ap = f.ap /\ w.work = f.work \ {i} /\ w.nl = f.nl /\ w.had = f.had /\ w.ew = f.ew /\ w.told = f.told
      /\ w.radar = f.radar /\ w.ops = f.ops /\ w.on = f.on /\ w.chan = f.chan /\ w.flag = f.flag /\ w.flags = f.flags /\ w.odd = f.odd
  BY DEF DfsBut, DfShape, DfFields
<1> HIDE DEF w
<1>3. DfsBut(w, i)
  <2>1. DfShape(w) BY <1>2 DEF DfsBut, DfShape
  <2>2. \A j \in Aps \ {i} : Awaited(w, j) /\ Wanted(w, j) /\ Listens(w, j)
    BY <1>2 DEF DfsBut, Awaited, Wanted, Listens
  <2>3. Seen(w) /\ Excused(w) /\ \A j \in Aps : Tuned(w, j) BY <1>2 DEF DfsBut, Seen, Excused, Tuned
  <2> QED BY <2>1, <2>2, <2>3 DEF DfsBut
<1>4. StoppedIs(w, c, i, "cac") /\ DfsBut(c, i) BY <1>3, StopIs
<1> HIDE DEF c
<1> DEFINE to == IF c.ap[i] = "cac" THEN "down" ELSE c.ap[i]
<1>5. /\ DOMAIN e = DfFields /\ e.work = c.work /\ e.nl = c.nl /\ e.had = c.had /\ e.ew = c.ew
      /\ e.radar = c.radar /\ e.ops = c.ops /\ e.on = c.on /\ e.chan = c.chan /\ e.flag = c.flag /\ e.flags = c.flags /\ e.odd = c.odd
      /\ e.ap = [c.ap EXCEPT ![i] = to] /\ e.told \in [Aps -> {"none", "finished", "aborted", "radar"}]
  <2>1. DfShape(c) BY <1>4 DEF DfsBut
  <2>2. CASE c.ap[i] = "cac"
    <3>1. e = [c EXCEPT !.told[i] = "aborted", !.ap[i] = "down"] BY <2>2 DEF CacEvent
    <3>2. /\ DOMAIN e = DfFields /\ e.work = c.work /\ e.nl = c.nl /\ e.had = c.had /\ e.ew = c.ew /\ e.radar = c.radar
          /\ e.ops = c.ops /\ e.on = c.on /\ e.chan = c.chan /\ e.flag = c.flag /\ e.flags = c.flags /\ e.odd = c.odd
          /\ e.ap = [c.ap EXCEPT ![i] = "down"] /\ e.told = [c.told EXCEPT ![i] = "aborted"]
      BY <2>1, <3>1 DEF DfShape, DfFields
    <3>3. e.told \in [Aps -> {"none", "finished", "aborted", "radar"}] BY <2>1, <3>2 DEF DfShape
    <3> QED BY <2>2, <3>2, <3>3
  <2>3. CASE c.ap[i] # "cac"
    <3>1. e = c BY <2>3 DEF CacEvent
    <3> QED BY <2>1, <2>3, <3>1 DEF DfShape
  <2> QED BY <2>2, <2>3
<1> HIDE DEF e
<1>6. to \in {"down", "clear", "up"} /\ c.ap \in [Aps -> {"down", "cac", "clear", "up"}] /\ e.ap[i] = to
  BY <1>4, <1>5 DEF DfsBut, DfShape
<1> HIDE DEF to
<1>7. DfsBut(e, i)
  <2>1. DfShape(e) BY <1>4, <1>5, <1>6 DEF DfsBut, DfShape
  <2>2. \A j \in Aps \ {i} : e.ap[j] = c.ap[j] BY <1>5, <1>6
  <2>3. \A j \in Aps \ {i} : Awaited(e, j) /\ Wanted(e, j) /\ Listens(e, j)
    BY <1>4, <1>5, <2>2 DEF DfsBut, Awaited, Wanted, Listens
  <2>4. Seen(e) /\ Excused(e) /\ \A j \in Aps : Tuned(e, j)
    BY <1>4, <1>5 DEF DfsBut, Seen, Excused, Tuned
  <2> QED BY <2>1, <2>3, <2>4 DEF DfsBut
<1>8. DfsBut(g, i) BY <1>7
<1>9. /\ f.odd \subseteq g.odd /\ g.nl = f.nl /\ g.had = f.had /\ g.ew = f.ew /\ g.radar = f.radar /\ g.ops = f.ops /\ g.on = f.on /\ g.chan = f.chan
      /\ checking => i \notin g.work /\ g.ap[i] # "cac" /\ (f.ap[i] = "up" => g.ap[i] = "up") /\ "cac" \notin g.flag[i]
      /\ ~checking => g.work = f.work /\ g.ap = f.ap /\ g.flag = f.flag
  <2>1. CASE checking
    <3>1. g = e /\ e.flag[i] = f.flag[i] \ {"cac"}
      BY <1>2, <1>4, <1>5, <2>1 DEF StoppedIs, DfsBut, DfShape
    <3>2. f.ap[i] = "up" => to = "up" BY <1>2, <1>4 DEF StoppedIs, to
    <3> QED BY <1>2, <1>4, <1>5, <1>6, <2>1, <3>1, <3>2 DEF StoppedIs
  <2>2. CASE ~checking BY <2>2
  <2> QED BY <2>1, <2>2
<1> HIDE DEF g
<1>10. StoppedIs(g, h, i, "mon") /\ DfsBut(h, i) BY <1>8, StopIs
<1> HIDE DEF h
<1>11. h.flag[i] = g.flag[i] \ {"mon"} BY <1>8, <1>10 DEF StoppedIs, DfsBut, DfShape
<1> HIDE DEF d
<1>12. CASE "mon" \in g.flag[i] BY <1>1, <1>9, <1>10, <1>11, <1>12 DEF EndedIs, StoppedIs, d
<1>13. CASE "mon" \notin g.flag[i] BY <1>1, <1>8, <1>9, <1>13 DEF EndedIs, d
<1> QED BY <1>12, <1>13

\* The bounds.
LEMMA DfsBounds == MaxDfsOps \in Nat /\ Ppb \in Nat /\ Ppb > 0 /\ "idle" \notin Aps /\ \E c \in Chans : TRUE
  BY DfsAssumption

\* Nobody listens at the start.
LEMMA DfsBegin == DfsInit => DfInv(df)
<1> SUFFICES ASSUME DfsInit PROVE DfInv(df) OBVIOUS
<1> DEFINE c == CHOOSE x \in Chans : TRUE
<1>0. c \in Chans BY DfsBounds
<1> HIDE DEF c
<1>1. /\ DOMAIN df = DfFields /\ df.ap = [i \in Aps |-> "down"] /\ df.on = [i \in Aps |-> c] /\ df.flag = [i \in Aps |-> {}]
      /\ df.flags = {} /\ df.chan = c /\ df.work = {} /\ df.nl = "idle" /\ df.had = FALSE /\ df.ew = "idle"
      /\ df.told = [i \in Aps |-> "none"] /\ df.radar = {} /\ df.odd = {} /\ df.ops = 0
  BY DEF DfsInit, DfFields, c
<1>2. 0 \in 0..MaxDfsOps BY DfsBounds
<1>3. DfShape(df) BY <1>0, <1>1, <1>2 DEF DfShape
<1>4. Seen(df) /\ Excused(df) /\ Halfway(df) /\ \A j \in Aps : Tuned(df, j)
  BY <1>1 DEF Seen, Excused, Halfway, Tuned
<1>5. \A j \in Aps : Awaited(df, j) /\ Wanted(df, j) /\ Listens(df, j)
  BY <1>1 DEF Awaited, Wanted, Listens
<1> QED BY <1>3, <1>4, <1>5 DEF DfInv

\* An interface takes the channel.
LEMMA ArmedIs ==
    ASSUME NEW f, DfInv(f), f.ops < MaxDfsOps, NEW i \in Aps, NEW what \in {"cac", "mon"}, NEW c \in Chans,
           f.nl = "idle", f.flags = {} \/ f.chan = c, f.ap[i] \in {"down", "clear"}
    PROVE  LET g == Armed(f, i, what, c)
           IN  /\ DfsBut(g, i) /\ g.ap = f.ap /\ g.work = f.work /\ g.nl = f.nl /\ g.had = f.had /\ g.ew = f.ew
               /\ g.told = f.told /\ g.radar = f.radar /\ g.odd = f.odd
               /\ g.flag[i] = f.flag[i] \union {what} /\ g.flags = f.flags \union {what}
<1> DEFINE g == Armed(f, i, what, c)
<1>1. g = [f EXCEPT !.flag = [f.flag EXCEPT ![i] = f.flag[i] \union {what}], !.flags = f.flags \union {what}, !.chan = c,
                    !.on = [f.on EXCEPT ![i] = c], !.ops = f.ops + 1]
  BY DEF Armed
<1> HIDE DEF g
<1>2. /\ DOMAIN g = DfFields /\ g.ap = f.ap /\ g.work = f.work /\ g.nl = f.nl /\ g.had = f.had /\ g.ew = f.ew
      /\ g.told = f.told /\ g.radar = f.radar /\ g.odd = f.odd /\ g.flag = [f.flag EXCEPT ![i] = f.flag[i] \union {what}]
      /\ g.flags = f.flags \union {what} /\ g.chan = c /\ g.on = [f.on EXCEPT ![i] = c] /\ g.ops = f.ops + 1
  BY <1>1 DEF DfInv, DfShape, DfFields
<1>3. f.flag \in [Aps -> SUBSET {"cac", "mon"}] /\ f.on \in [Aps -> Chans] /\ DfShape(f)
  BY DEF DfInv, DfShape
<1>4. \A j \in Aps : /\ g.flag[j] = IF j = i THEN f.flag[j] \union {what} ELSE f.flag[j]
                     /\ g.on[j] = IF j = i THEN c ELSE f.on[j]
  BY <1>2, <1>3
<1>5. DfShape(g)
  <2>1. g.ops \in 0..MaxDfsOps BY <1>2, <1>3, DfsBounds DEF DfShape
  <2>2. g.flag \in [Aps -> SUBSET {"cac", "mon"}] /\ g.on \in [Aps -> Chans] /\ g.flags \subseteq {"cac", "mon"}
    BY <1>2, <1>3 DEF DfShape
  <2> QED BY <1>2, <1>3, <2>1, <2>2 DEF DfShape
<1>6. Seen(g) /\ Excused(g) BY <1>2 DEF DfInv, Seen, Excused
<1>7. ASSUME NEW j \in Aps PROVE Tuned(g, j)
  <2>1. Tuned(f, j) BY DEF DfInv
  <2> QED BY <1>2, <1>4, <2>1 DEF Tuned
<1>8. ASSUME NEW j \in Aps \ {i} PROVE Awaited(g, j) /\ Wanted(g, j) /\ Listens(g, j)
  <2>1. Awaited(f, j) /\ Wanted(f, j) /\ Listens(f, j) /\ g.flag[j] = f.flag[j] BY <1>4 DEF DfInv
  <2> QED BY <1>2, <2>1 DEF Awaited, Wanted, Listens
<1> QED BY <1>2, <1>4, <1>5, <1>6, <1>7, <1>8 DEF DfsBut, g

\* A check begins, or the AP starts on a channel that has been checked.
LEMMA DfsStarts ==
    ASSUME DfInv(df), skw_start_radar_detection \/ StartMonitored
    PROVE  DfInv(df')
<1> DEFINE Beginning(i, c) ==
              [Armed(df, i, "cac", c) EXCEPT !.ap[i] = "cac", !.work = @ \union {i}, !.told[i] = "none", !.radar = @ \ {i}]
           Monitored(i) == [Armed(df, i, "mon", df.on[i]) EXCEPT !.ap[i] = "up"]
           Refused(i) == [df EXCEPT !.ap[i] = "up", !.ops = @ + 1, !.odd = df.odd \union {"unmonitored"}]
<1>0. df.nl = "idle" /\ df.ops < MaxDfsOps /\ df.ops \in 0..MaxDfsOps /\ DfShape(df)
  BY DEF skw_start_radar_detection, StartMonitored, DfsRequest, DfInv, DfShape
<1>1. ASSUME NEW i \in Aps, NEW c \in Chans, df.ap[i] = "down", ~ChanBusy(c), df' = Beginning(i, c)
      PROVE  DfInv(df')
  <2> DEFINE g == Armed(df, i, "cac", c)
  <2>1. /\ DfsBut(g, i) /\ g.ap = df.ap /\ g.work = df.work /\ g.nl = df.nl /\ g.had = df.had /\ g.ew = df.ew
        /\ g.told = df.told /\ g.radar = df.radar /\ g.odd = df.odd /\ g.flag[i] = df.flag[i] \union {"cac"}
    BY <1>0, <1>1, ArmedIs DEF ChanBusy
  <2>2. df' = [g EXCEPT !.ap = [g.ap EXCEPT ![i] = "cac"], !.work = g.work \union {i},
                        !.told = [g.told EXCEPT ![i] = "none"], !.radar = g.radar \ {i}]
    BY <1>1
  <2> HIDE DEF g
  <2>3. /\ DOMAIN df' = DfFields /\ df'.ap = [g.ap EXCEPT ![i] = "cac"] /\ df'.work = g.work \union {i}
        /\ df'.told = [g.told EXCEPT ![i] = "none"] /\ df'.radar = g.radar \ {i} /\ df'.nl = g.nl /\ df'.had = g.had
        /\ df'.ew = g.ew /\ df'.flag = g.flag /\ df'.flags = g.flags /\ df'.on = g.on /\ df'.chan = g.chan
        /\ df'.ops = g.ops /\ df'.odd = g.odd
    BY <2>1, <2>2 DEF DfsBut, DfShape, DfFields
  <2>4. DfShape(g) /\ df'.ap[i] = "cac" /\ \A j \in Aps \ {i} : df'.ap[j] = g.ap[j]
    BY <2>1, <2>3 DEF DfsBut, DfShape
  <2>5. DfShape(df') BY <2>3, <2>4 DEF DfShape
  <2>6. \A j \in Aps \ {i} : Awaited(df', j) /\ Wanted(df', j) /\ Listens(df', j)
    BY <2>1, <2>3, <2>4 DEF DfsBut, Awaited, Wanted, Listens
  <2>7. Awaited(df', i) /\ Wanted(df', i) /\ Listens(df', i)
    BY <2>1, <2>3, <2>4 DEF Awaited, Wanted, Listens
  <2>8. Seen(df') /\ Excused(df') /\ \A j \in Aps : Tuned(df', j)
    BY <2>1, <2>3 DEF DfsBut, Seen, Excused, Tuned
  <2>9. Halfway(df') BY <1>0, <1>1, <2>1, <2>3, <2>4 DEF DfInv, DfShape, Halfway
  <2> QED BY <2>5, <2>6, <2>7, <2>8, <2>9 DEF DfInv
<1>2. ASSUME NEW i \in Aps, df.ap[i] = "clear", ChanBusy(df.on[i]), df' = Refused(i)
      PROVE  DfInv(df')
  <2>1. /\ DOMAIN df' = DfFields /\ df'.ap = [df.ap EXCEPT ![i] = "up"] /\ df'.ops = df.ops + 1
        /\ df'.odd = df.odd \union {"unmonitored"} /\ df'.work = df.work /\ df'.told = df.told /\ df'.radar = df.radar
        /\ df'.nl = df.nl /\ df'.had = df.had /\ df'.ew = df.ew /\ df'.flag = df.flag /\ df'.flags = df.flags
        /\ df'.on = df.on /\ df'.chan = df.chan
    BY <1>0, <1>2 DEF DfShape, DfFields
  <2>2. \A j \in Aps : df'.ap[j] = IF j = i THEN "up" ELSE df.ap[j] BY <1>0, <2>1 DEF DfShape
  <2>3. df'.ops \in 0..MaxDfsOps BY <1>0, <2>1, DfsBounds
  <2>4. DfShape(df') BY <1>0, <2>1, <2>3 DEF DfShape
  <2>5. Seen(df') /\ Excused(df') /\ \A j \in Aps : Tuned(df', j)
    BY <2>1 DEF DfInv, Seen, Excused, Tuned
  <2>6. \A j \in Aps : Awaited(df', j) /\ Wanted(df', j) /\ Listens(df', j)
    BY <1>2, <2>1, <2>2 DEF DfInv, Awaited, Wanted, Listens
  <2>7. Halfway(df') BY <1>0, <1>2, <2>1, <2>2 DEF DfInv, DfShape, Halfway
  <2> QED BY <2>4, <2>5, <2>6, <2>7 DEF DfInv
<1>3. ASSUME NEW i \in Aps, df.ap[i] = "clear", ~ChanBusy(df.on[i]), df' = Monitored(i)
      PROVE  DfInv(df')
  <2> DEFINE c == df.on[i]
             g == Armed(df, i, "mon", c)
  <2>0. c \in Chans /\ ~ChanBusy(c) BY <1>0, <1>3 DEF DfShape
  <2>1. /\ DfsBut(g, i) /\ g.ap = df.ap /\ g.work = df.work /\ g.nl = df.nl /\ g.had = df.had /\ g.ew = df.ew
        /\ g.told = df.told /\ g.radar = df.radar /\ g.odd = df.odd /\ g.flag[i] = df.flag[i] \union {"mon"}
        /\ g.flags = df.flags \union {"mon"}
    <3> HIDE DEF c
    <3> QED BY <1>0, <1>3, <2>0, ArmedIs DEF ChanBusy
  <2>2. df' = [g EXCEPT !.ap = [g.ap EXCEPT ![i] = "up"]] BY <1>3
  <2> HIDE DEF g
  <2>3. /\ DOMAIN df' = DfFields /\ df'.ap = [g.ap EXCEPT ![i] = "up"] /\ df'.work = g.work
        /\ df'.told = g.told /\ df'.radar = g.radar /\ df'.nl = g.nl /\ df'.had = g.had
        /\ df'.ew = g.ew /\ df'.flag = g.flag /\ df'.flags = g.flags /\ df'.on = g.on /\ df'.chan = g.chan
        /\ df'.ops = g.ops /\ df'.odd = g.odd
    BY <2>1, <2>2 DEF DfsBut, DfShape, DfFields
  <2>4. DfShape(g) /\ df'.ap[i] = "up" /\ \A j \in Aps \ {i} : df'.ap[j] = g.ap[j]
    BY <2>1, <2>3 DEF DfsBut, DfShape
  <2>5. DfShape(df') BY <2>3, <2>4 DEF DfShape
  <2>6. \A j \in Aps \ {i} : Awaited(df', j) /\ Wanted(df', j) /\ Listens(df', j)
    BY <2>1, <2>3, <2>4 DEF DfsBut, Awaited, Wanted, Listens
  <2>7. Awaited(df', i) /\ Wanted(df', i) /\ Listens(df', i)
    <3>1. i \notin df.work BY <1>3 DEF DfInv, Wanted
    <3> QED BY <2>1, <2>3, <2>4, <3>1 DEF Awaited, Wanted, Listens
  <2>8. Seen(df') /\ Excused(df') /\ \A j \in Aps : Tuned(df', j)
    BY <2>1, <2>3 DEF DfsBut, Seen, Excused, Tuned
  <2>9. Halfway(df') BY <1>0, <1>3, <2>1, <2>3, <2>4 DEF DfInv, DfShape, Halfway
  <2> QED BY <2>5, <2>6, <2>7, <2>8, <2>9 DEF DfInv
<1> QED BY <1>1, <1>2, <1>3 DEF skw_start_radar_detection, StartMonitored, DfsOdd

\* The check's time is over: the work stops it.
LEMMA CacWorks ==
    ASSUME DfInv(df), skw_dfs_cac_work
    PROVE  DfInv(df')
<1>1. PICK i \in df.work : df' = [(IF df.ap[i] = "cac" THEN StopDfs(df, i, "cac") ELSE df) EXCEPT
                                    !.work = @ \ {i}, !.ew = IF df.ap[i] = "cac" THEN i ELSE "idle"]
  BY DEF skw_dfs_cac_work
<1>2. i \in Aps /\ df.ap[i] = "cac" /\ DfsBut(df, i) /\ df.ew = "idle"
  BY DEF DfInv, DfShape, Wanted, DfsBut, skw_dfs_cac_work
<1> DEFINE g == StopDfs(df, i, "cac")
<1>3. StoppedIs(df, g, i, "cac") /\ DfsBut(g, i) BY <1>2, StopIs
<1>4. df' = [g EXCEPT !.work = g.work \ {i}, !.ew = i] BY <1>1, <1>2
<1> HIDE DEF g
<1>5. /\ DOMAIN df' = DfFields /\ df'.ap = g.ap /\ df'.work = g.work \ {i}
      /\ df'.told = g.told /\ df'.radar = g.radar /\ df'.nl = g.nl /\ df'.had = g.had
      /\ df'.ew = i /\ df'.flag = g.flag /\ df'.flags = g.flags /\ df'.on = g.on /\ df'.chan = g.chan
      /\ df'.ops = g.ops /\ df'.odd = g.odd
  BY <1>3, <1>4 DEF DfsBut, DfShape, DfFields
<1>6. DfShape(g) /\ g.ap[i] = "cac" /\ g.ew = "idle" BY <1>2, <1>3 DEF DfsBut, StoppedIs
<1>7. DfShape(df') BY <1>2, <1>5, <1>6 DEF DfShape
<1>8. \A j \in Aps \ {i} : Awaited(df', j) /\ Wanted(df', j) /\ Listens(df', j)
  BY <1>3, <1>5, <1>6, DfsBounds DEF DfsBut, Awaited, Wanted, Listens
<1>9. Awaited(df', i) /\ Wanted(df', i) /\ Listens(df', i) BY <1>5, <1>6 DEF Awaited, Wanted, Listens
<1>10. Seen(df') /\ Excused(df') /\ \A j \in Aps : Tuned(df', j)
  BY <1>3, <1>5 DEF DfsBut, Seen, Excused, Tuned
<1>11. Halfway(df') BY <1>5, <1>6 DEF Halfway
<1> QED BY <1>7, <1>8, <1>9, <1>10, <1>11 DEF DfInv

\* The interface is told that its check is over.
LEMMA CacTold ==
    ASSUME DfInv(df), CacFinished
    PROVE  DfInv(df')
<1> DEFINE i == df.ew
           g == CacEvent(df, i, "finished")
           to == IF df.ap[i] = "cac" THEN "clear" ELSE df.ap[i]
<1>1. i \in Aps /\ DfShape(df) /\ df' = [g EXCEPT !.ew = "idle"] BY DEF DfInv, DfShape, CacFinished
<1>2. /\ DOMAIN g = DfFields /\ g.work = df.work /\ g.nl = df.nl /\ g.had = df.had
      /\ g.radar = df.radar /\ g.ops = df.ops /\ g.on = df.on /\ g.chan = df.chan /\ g.flag = df.flag /\ g.flags = df.flags
      /\ g.odd = df.odd /\ g.ap = [df.ap EXCEPT ![i] = to] /\ g.told \in [Aps -> {"none", "finished", "aborted", "radar"}]
  <2>1. CASE df.ap[i] = "cac"
    <3>1. g = [df EXCEPT !.told[i] = "finished", !.ap[i] = "clear"] BY <2>1 DEF CacEvent
    <3>2. /\ DOMAIN g = DfFields /\ g.work = df.work /\ g.nl = df.nl /\ g.had = df.had
          /\ g.radar = df.radar /\ g.ops = df.ops /\ g.on = df.on /\ g.chan = df.chan /\ g.flag = df.flag /\ g.flags = df.flags
          /\ g.odd = df.odd /\ g.ap = [df.ap EXCEPT ![i] = "clear"] /\ g.told = [df.told EXCEPT ![i] = "finished"]
      BY <1>1, <3>1 DEF DfShape, DfFields
    <3>3. g.told \in [Aps -> {"none", "finished", "aborted", "radar"}] BY <1>1, <3>2 DEF DfShape
    <3> QED BY <2>1, <3>2, <3>3
  <2>2. CASE df.ap[i] # "cac"
    <3>1. g = df BY <2>2 DEF CacEvent
    <3> QED BY <1>1, <2>2, <3>1 DEF DfShape
  <2> QED BY <2>1, <2>2
<1> HIDE DEF g
<1>3. /\ DOMAIN df' = DfFields /\ df'.work = df.work /\ df'.nl = df.nl /\ df'.had = df.had /\ df'.ew = "idle"
      /\ df'.radar = df.radar /\ df'.ops = df.ops /\ df'.on = df.on /\ df'.chan = df.chan /\ df'.flag = df.flag
      /\ df'.flags = df.flags /\ df'.odd = df.odd /\ df'.ap = [df.ap EXCEPT ![i] = to]
      /\ df'.told \in [Aps -> {"none", "finished", "aborted", "radar"}]
  BY <1>1, <1>2 DEF DfFields
<1>4. to \in {"down", "clear", "up"} /\ (df.ap[i] = "up" <=> to = "up") BY <1>1 DEF DfShape
<1> HIDE DEF to
<1>5. \A j \in Aps : df'.ap[j] = IF j = i THEN to ELSE df.ap[j] BY <1>1, <1>3 DEF DfShape
<1>6. DfShape(df') BY <1>1, <1>3, <1>4 DEF DfShape
<1>7. i \notin df.work BY DEF DfInv, Halfway, CacFinished
<1>8. \A j \in Aps : Awaited(df', j) /\ Wanted(df', j) /\ Listens(df', j)
  BY <1>3, <1>4, <1>5, <1>7 DEF DfInv, Awaited, Wanted, Listens
<1>9. Seen(df') /\ Excused(df') /\ Halfway(df') /\ \A j \in Aps : Tuned(df', j)
  BY <1>3 DEF DfInv, Seen, Excused, Halfway, Tuned
<1> QED BY <1>6, <1>8, <1>9 DEF DfInv

\* A request to end the AP.
LEMMA StopAsked ==
    ASSUME DfInv(df), StopAp
    PROVE  DfInv(df')
<1>1. PICK i \in Aps : df' = [df EXCEPT !.nl = i, !.had = "cac" \in df.flag[i], !.ops = df.ops + 1]
  BY DEF StopAp
<1> DEFINE seen == "cac" \in df.flag[i]
<1>2. df.nl = "idle" /\ df.ops < MaxDfsOps /\ DfShape(df) /\ DOMAIN df = DfFields
  BY DEF StopAp, DfsRequest, DfInv, DfShape
<1>3. /\ DOMAIN df' = DfFields /\ df'.nl = i /\ df'.had = seen /\ df'.ops = df.ops + 1
      /\ df'.ap = df.ap /\ df'.on = df.on /\ df'.flag = df.flag /\ df'.flags = df.flags /\ df'.chan = df.chan
      /\ df'.work = df.work /\ df'.ew = df.ew /\ df'.told = df.told /\ df'.radar = df.radar /\ df'.odd = df.odd
  <2> HIDE DEF seen
  <2>1. df' = [df EXCEPT !.nl = i, !.had = seen, !.ops = df.ops + 1] BY <1>1 DEF seen
  <2> QED BY <1>2, <2>1 DEF DfFields
<1>4. df'.ops \in 0..MaxDfsOps BY <1>2, <1>3, DfsBounds DEF DfShape
<1>5. DfShape(df') BY <1>2, <1>3, <1>4 DEF DfShape
<1>6. \A j \in Aps : Awaited(df', j) /\ Wanted(df', j) /\ Listens(df', j)
  BY <1>2, <1>3, DfsBounds DEF DfInv, Awaited, Wanted, Listens
<1>7. Seen(df') BY <1>3 DEF Seen
<1>8. Excused(df') /\ Halfway(df') /\ \A j \in Aps : Tuned(df', j)
  BY <1>3 DEF DfInv, Excused, Halfway, Tuned
<1> QED BY <1>5, <1>6, <1>7, <1>8 DEF DfInv

\* The AP ends.
LEMMA ApEnds ==
    ASSUME DfInv(df), Deinit
    PROVE  DfInv(df')
<1> DEFINE i == df.nl
           ck == df.had
           g == skw_dfs_deinit(df, i, ck)
<1>1. i \in Aps /\ df.ew = "idle" /\ df' = [g EXCEPT !.nl = "idle", !.ap[i] = "down"]
  BY DEF Deinit, DfInv, DfShape
<1>2. DfsBut(df, i) BY DEF DfInv, DfsBut
<1>3. EndedIs(df, g, i, ck) /\ DfsBut(g, i)
  <2>1. ck \in BOOLEAN BY DEF DfInv, DfShape
  <2> HIDE DEF ck, i
  <2> QED BY <1>1, <1>2, <2>1, DeinitIs
<1>4. ~ck => "cac" \notin df.flag[i] BY <1>1, DfsBounds DEF DfInv, Seen
<1> HIDE DEF g
<1>5. /\ DOMAIN df' = DfFields /\ df'.nl = "idle" /\ df'.ap = [g.ap EXCEPT ![i] = "down"]
      /\ df'.on = g.on /\ df'.flag = g.flag /\ df'.flags = g.flags /\ df'.chan = g.chan /\ df'.had = g.had /\ df'.ops = g.ops
      /\ df'.work = g.work /\ df'.ew = g.ew /\ df'.told = g.told /\ df'.radar = g.radar /\ df'.odd = g.odd
  BY <1>1, <1>3 DEF DfsBut, DfShape, DfFields
<1>6. DfShape(g) /\ g.ew = "idle" /\ g.nl = i BY <1>1, <1>3 DEF DfsBut, EndedIs
<1>7. \A j \in Aps : df'.ap[j] = IF j = i THEN "down" ELSE g.ap[j] BY <1>1, <1>5, <1>6 DEF DfShape
<1>8. DfShape(df')
  <2>1. df'.ap \in [Aps -> {"down", "cac", "clear", "up"}]
    <3>1. g.ap \in [Aps -> {"down", "cac", "clear", "up"}] /\ df'.ap = [g.ap EXCEPT ![i] = "down"]
      BY <1>5, <1>6 DEF DfShape
    <3> HIDE DEF i
    <3> QED BY <3>1
  <2> QED BY <1>5, <1>6, <2>1 DEF DfShape
<1>9. i \notin g.work BY <1>1, <1>2, <1>3, <1>4 DEF EndedIs, DfInv, Wanted
<1>10. \A j \in Aps \ {i} : Awaited(df', j) /\ Wanted(df', j) /\ Listens(df', j)
  BY <1>3, <1>5, <1>6, <1>7 DEF DfsBut, Awaited, Wanted, Listens
<1>11. Awaited(df', i) /\ Wanted(df', i) /\ Listens(df', i)
  BY <1>1, <1>5, <1>7, <1>9 DEF Awaited, Wanted, Listens
<1>12. Seen(df') /\ Excused(df') /\ Halfway(df') /\ \A j \in Aps : Tuned(df', j)
  BY <1>3, <1>5, <1>6 DEF DfsBut, Seen, Excused, Halfway, Tuned
<1> QED BY <1>8, <1>10, <1>11, <1>12 DEF DfInv

\* The firmware switches the channel.
LEMMA ApSwitches ==
    ASSUME DfInv(df), skw_event_chan_switch
    PROVE  DfInv(df')
<1>1. PICK i \in Aps, c \in Chans : df' = [df EXCEPT !.on[i] = c, !.ops = df.ops + 1, !.odd = df.odd \union {"switched"}]
  BY DEF skw_event_chan_switch, DfsOdd
<1>2. df.ops < MaxDfsOps /\ DfShape(df) /\ DOMAIN df = DfFields
  BY DEF skw_event_chan_switch, DfInv, DfShape
<1>3. /\ DOMAIN df' = DfFields /\ df'.on = [df.on EXCEPT ![i] = c] /\ df'.ops = df.ops + 1 /\ df'.odd = df.odd \union {"switched"}
      /\ df'.ap = df.ap /\ df'.flag = df.flag /\ df'.flags = df.flags /\ df'.chan = df.chan /\ df'.nl = df.nl /\ df'.had = df.had
      /\ df'.work = df.work /\ df'.ew = df.ew /\ df'.told = df.told /\ df'.radar = df.radar
  BY <1>1, <1>2 DEF DfFields
<1>4. df'.ops \in 0..MaxDfsOps /\ df'.on \in [Aps -> Chans] BY <1>2, <1>3, DfsBounds DEF DfShape
<1>5. DfShape(df') BY <1>2, <1>3, <1>4 DEF DfShape
<1>6. \A j \in Aps : Awaited(df', j) /\ Wanted(df', j) /\ Listens(df', j)
  BY <1>3 DEF DfInv, Awaited, Wanted, Listens
<1>7. Seen(df') /\ Excused(df') /\ Halfway(df') /\ \A j \in Aps : Tuned(df', j)
  BY <1>3 DEF DfInv, Seen, Excused, Halfway, Tuned
<1> QED BY <1>5, <1>6, <1>7 DEF DfInv

\* A pulse completes the pattern: the detection of the interface that heard it ends.
LEMMA RadarFound ==
    ASSUME DfInv(df), df.ew = "idle", NEW i \in Aps, df.flag[i] # {},
           df' = [skw_dfs_deinit(df, i, "cac" \in df.flag[i]) EXCEPT !.told[i] = "radar", !.radar = @ \union {i},
                                  !.odd = IF df.chan # df.on[i] THEN @ \union {"otherchannel"} ELSE @]
    PROVE  DfInv(df')
<1> DEFINE ck == "cac" \in df.flag[i]
           g == skw_dfs_deinit(df, i, ck)
           odd == IF df.chan # df.on[i] THEN g.odd \union {"otherchannel"} ELSE g.odd
<1>1. df' = [g EXCEPT !.told = [g.told EXCEPT ![i] = "radar"], !.radar = g.radar \union {i}, !.odd = odd]
  OBVIOUS
<1>2. DfsBut(df, i) /\ ck \in BOOLEAN BY DEF DfInv, DfsBut
<1>3. EndedIs(df, g, i, ck) /\ DfsBut(g, i)
  <2> HIDE DEF ck
  <2> QED BY <1>2, DeinitIs
<1> HIDE DEF g, odd
<1>4. /\ DOMAIN df' = DfFields /\ df'.nl = g.nl /\ df'.ap = g.ap
      /\ df'.on = g.on /\ df'.flag = g.flag /\ df'.flags = g.flags /\ df'.chan = g.chan /\ df'.had = g.had /\ df'.ops = g.ops
      /\ df'.work = g.work /\ df'.ew = g.ew /\ df'.told = [g.told EXCEPT ![i] = "radar"]
      /\ df'.radar = g.radar \union {i} /\ df'.odd = odd
  BY <1>1, <1>3 DEF DfsBut, DfShape, DfFields
<1>5. g.odd \subseteq odd /\ odd \subseteq g.odd \union {"otherchannel"} BY DEF odd
<1>6. DfShape(g) /\ g.ew = "idle" BY <1>3 DEF DfsBut, EndedIs
<1>7. DfShape(df')
  <2>1. df'.told \in [Aps -> {"none", "finished", "aborted", "radar"}]
    <3>1. g.told \in [Aps -> {"none", "finished", "aborted", "radar"}] /\ df'.told = [g.told EXCEPT ![i] = "radar"]
      BY <1>4, <1>6 DEF DfShape
    <3> QED BY <3>1
  <2> QED BY <1>4, <1>6, <2>1 DEF DfShape
<1>8. \A j \in Aps \ {i} : Awaited(df', j) /\ Wanted(df', j) /\ Listens(df', j)
  BY <1>3, <1>4, <1>5 DEF DfsBut, Awaited, Wanted, Listens
<1>9. ~ck => i \notin df.work BY DEF DfInv, Wanted
<1>10. Awaited(df', i) /\ Wanted(df', i) /\ Listens(df', i)
  <2>1. i \notin g.work BY <1>3, <1>9 DEF EndedIs
  <2>2. g.ap[i] = "cac" => ~ck /\ df.ap[i] = "cac" BY <1>3 DEF EndedIs
  <2>3. g.ap[i] = "cac" => g.nl = i BY <1>3, <1>9, <2>2, DfsBounds DEF DfInv, Awaited, EndedIs
  <2> QED BY <1>4, <2>1, <2>3 DEF Awaited, Wanted, Listens
<1>11. "otherchannel" \in odd => odd \intersect {"switched", "silenced"} # {}
  <2>1. CASE odd = g.odd BY <1>3, <2>1 DEF DfsBut, Excused
  <2>2. CASE odd # g.odd
    <3>1. df.chan # df.on[i] BY <2>2 DEF odd
    <3>2. df.odd \intersect {"switched", "silenced"} # {} BY <3>1 DEF DfInv, Tuned
    <3>3. df.odd \subseteq g.odd BY <1>3 DEF EndedIs
    <3> QED BY <1>5, <3>2, <3>3
  <2> QED BY <2>1, <2>2
<1>12. \A j \in Aps : Tuned(df', j) BY <1>3, <1>4, <1>5 DEF DfsBut, Tuned
<1>13. Seen(df') /\ Excused(df') /\ Halfway(df')
  BY <1>3, <1>4, <1>6, <1>11 DEF DfsBut, Seen, Excused, Halfway
<1> QED BY <1>7, <1>8, <1>10, <1>12, <1>13 DEF DfInv

\* The pulses.  The list is no longer than its count says and, between two
\* pulses, shorter than two bursts.
PulseFields == {"pulses", "seqs", "count", "last", "ts", "now", "heard", "fed", "odd"}
PulseRoom(d, room) ==
    /\ DOMAIN d = PulseFields /\ d.now \in Nat /\ d.pulses \in Seq(Nat) /\ d.count \in Nat
    /\ Len(d.pulses) <= d.count /\ Len(d.pulses) <= room
PulsesOK(d) == PulseRoom(d, 2 * Ppb - 1)

\* What is out of the window leaves.
LEMMA WindowIs ==
    ASSUME NEW d, NEW room \in Nat, PulseRoom(d, room)
    PROVE  PulseRoom(pulse_queue_check_window(d), room)
<1> DEFINE valid == Cardinality({k \in 1..Len(d.pulses) : d.pulses[k] >= d.last - PriMax * Ppb})
           e == [d EXCEPT !.pulses = SubSeq(d.pulses, 1, valid), !.count = d.count - (Len(d.pulses) - valid)]
<1>1. pulse_queue_check_window(d) = d \/ pulse_queue_check_window(d) = e
  BY DEF pulse_queue_check_window
<1>2. Len(d.pulses) \in Nat /\ d.count \in Nat /\ Len(d.pulses) <= d.count /\ Len(d.pulses) <= room /\ d.pulses \in Seq(Nat)
  BY DEF PulseRoom
<1>3. valid \in Nat /\ valid <= Len(d.pulses)
  <2>1. IsFiniteSet(1..Len(d.pulses)) /\ Cardinality(1..Len(d.pulses)) = Len(d.pulses)
    BY <1>2, FS_Interval
  <2> DEFINE K == {k \in 1..Len(d.pulses) : d.pulses[k] >= d.last - PriMax * Ppb}
  <2>2. K \subseteq 1..Len(d.pulses) OBVIOUS
  <2> HIDE DEF K
  <2>3. IsFiniteSet(K) /\ Cardinality(K) <= Cardinality(1..Len(d.pulses)) BY <2>1, <2>2, FS_Subset
  <2>4. Cardinality(K) \in Nat BY <2>3, FS_CardinalityType
  <2> QED BY <2>1, <2>3, <2>4 DEF K
<1> HIDE DEF valid
<1>4. SubSeq(d.pulses, 1, valid) \in Seq(Nat) /\ Len(SubSeq(d.pulses, 1, valid)) = valid BY <1>2, <1>3
<1>5. DOMAIN e = PulseFields /\ e.now = d.now /\ e.pulses = SubSeq(d.pulses, 1, valid) /\ e.count = d.count - (Len(d.pulses) - valid)
  BY DEF PulseRoom, PulseFields
<1> HIDE DEF e
<1>6. PulseRoom(e, room)
  <2>1. e.count \in Nat /\ valid <= e.count /\ valid <= room BY <1>2, <1>3, <1>5
  <2> QED BY <1>4, <1>5, <2>1 DEF PulseRoom
<1> QED BY <1>1, <1>6

\* A pulse joins the list, and the oldest makes room.
LEMMA EnqueueIs ==
    ASSUME NEW d, PulsesOK(d), NEW ts \in Nat
    PROVE  PulsesOK(pulse_queue_enqueue(d, ts))
<1> DEFINE longer == <<ts>> \o d.pulses
           u == [d EXCEPT !.pulses = longer, !.count = d.count + 1, !.last = ts]
           e == pulse_queue_check_window(u)
           short == SubSeq(e.pulses, 1, Len(e.pulses) - 1)
           f == [e EXCEPT !.pulses = short, !.count = e.count - 1]
           room == 2 * Ppb
<1>0. Ppb \in Nat /\ room \in Nat /\ room - 1 \in Nat BY DfsBounds
<1>1. pulse_queue_enqueue(d, ts) = IF e.count >= room /\ e.pulses # <<>> THEN f ELSE e
  BY DEF pulse_queue_enqueue
<1>2. longer \in Seq(Nat) /\ Len(longer) = Len(d.pulses) + 1 BY DEF PulsesOK, PulseRoom
<1> HIDE DEF longer
<1>3. DOMAIN u = PulseFields /\ u.now = d.now /\ u.pulses = longer /\ u.count = d.count + 1
  BY DEF PulsesOK, PulseRoom, PulseFields
<1> HIDE DEF u
<1>4. PulseRoom(u, room) BY <1>0, <1>2, <1>3 DEF PulsesOK, PulseRoom
<1>5. PulseRoom(e, room)
  <2> HIDE DEF room
  <2> QED BY <1>0, <1>4, WindowIs
<1> HIDE DEF e
<1>6. e.pulses \in Seq(Nat) /\ e.count \in Nat /\ Len(e.pulses) \in Nat /\ Len(e.pulses) <= e.count /\ Len(e.pulses) <= room
  BY <1>5 DEF PulseRoom
<1>7. CASE e.count >= room /\ e.pulses # <<>>
  <2>1. DOMAIN f = PulseFields /\ f.now = e.now /\ f.pulses = short /\ f.count = e.count - 1
    BY <1>5 DEF PulseRoom, PulseFields
  <2>2. short \in Seq(Nat) /\ Len(short) = Len(e.pulses) - 1 /\ Len(e.pulses) > 0 BY <1>6, <1>7
  <2> HIDE DEF f, short
  <2>3. PulsesOK(f) BY <1>0, <1>5, <1>6, <1>7, <2>1, <2>2 DEF PulsesOK, PulseRoom
  <2> QED BY <1>1, <1>7, <2>3
<1>8. CASE ~(e.count >= room /\ e.pulses # <<>>)
  <2>1. Len(e.pulses) <= room - 1
    <3>1. CASE e.pulses = <<>>
      <4>1. Len(e.pulses) = 0 BY <3>1
      <4> QED BY <1>0, <4>1
    <3>2. CASE e.count < room BY <1>0, <1>6, <3>2
    <3> QED BY <1>0, <1>6, <1>8, <3>1, <3>2
  <2>2. PulsesOK(e) BY <1>5, <2>1 DEF PulsesOK, PulseRoom
  <2> QED BY <1>1, <1>8, <2>2
<1> QED BY <1>7, <1>8

\* The lists begin anew.
LEMMA ResetIs ==
    ASSUME NEW d, PulsesOK(d), NEW ts
    PROVE  PulsesOK(ChanInit(d)) /\ PulsesOK(pri_detector_reset(d, ts))
<1> DEFINE a == ChanInit(d)
           b == pri_detector_reset(d, ts)
           odd == IF d.count > 0 THEN d.odd \union {"stale"} ELSE d.odd
<1>1. a = [d EXCEPT !.pulses = <<>>, !.seqs = {}, !.ts = 0, !.heard = {}, !.odd = odd] BY DEF ChanInit
<1> HIDE DEF odd
<1>2. DOMAIN a = PulseFields /\ a.now = d.now /\ a.pulses = <<>> /\ a.count = d.count
  BY <1>1 DEF PulsesOK, PulseRoom, PulseFields
<1>3. DOMAIN b = PulseFields /\ b.now = d.now /\ b.pulses = <<>> /\ b.count = 0
  BY DEF PulsesOK, PulseRoom, PulseFields, pri_detector_reset
<1>4. Len(<<>>) = 0 /\ <<>> \in Seq(Nat) /\ 0 <= 2 * Ppb - 1 BY DfsBounds
<1> HIDE DEF a, b
<1>5. PulsesOK(a) BY <1>2, <1>4 DEF PulsesOK, PulseRoom
<1>6. PulsesOK(b) BY <1>3, <1>4 DEF PulsesOK, PulseRoom
<1> QED BY <1>5, <1>6 DEF a, b

\* A pulse arrives: what it does to the detector.
LEMMA PulseArrives ==
    ASSUME PulsesOK(dd), DfInv(df), skw_dfs_add_pulse
    PROVE  PulsesOK(dd') /\ DfInv(df')
<1>1. PICK i \in Aps, gap \in Gaps, late \in BOOLEAN :
        LET t == dd.now + gap
            ts == skw_event_dfs_radar_pulse(t, late)
            d == [dd EXCEPT !.now = t, !.fed = @ + 1, !.ts = ts, !.heard = @ \union {t},
                            !.odd = IF late THEN @ \union {"wrapped"} ELSE @]
            seqs == add_to_existing_seqs(d, ts) \union create_sequences(d, ts, MaxUpdated(d, ts))
        IN /\ df.flags # {} /\ df.flag[i] # {} /\ (late => t % TsWrap = TsWrap - 1)
           /\ IF dd.ts > ts THEN dd' = pri_detector_reset(d, ts) /\ UNCHANGED df
              ELSE IF ts - dd.last < Tolerance THEN dd' = d /\ UNCHANGED df
              ELSE IF check_detection(seqs)
              THEN /\ dd' = pri_detector_reset(d, 0)
                   /\ df' = [skw_dfs_deinit(df, i, "cac" \in df.flag[i]) EXCEPT !.told[i] = "radar", !.radar = @ \union {i},
                                !.odd = IF df.chan # df.on[i] THEN @ \union {"otherchannel"} ELSE @]
              ELSE dd' = pulse_queue_enqueue([d EXCEPT !.seqs = seqs], ts) /\ UNCHANGED df
  BY Zenon DEF skw_dfs_add_pulse
<1> DEFINE t == dd.now + gap
           ts == skw_event_dfs_radar_pulse(t, late)
           x == [dd EXCEPT !.now = t, !.fed = @ + 1, !.ts = ts, !.heard = @ \union {t},
                           !.odd = IF late THEN @ \union {"wrapped"} ELSE @]
           q == add_to_existing_seqs(x, ts) \union create_sequences(x, ts, MaxUpdated(x, ts))
           y == [x EXCEPT !.seqs = q]
<1>2. t \in Nat /\ ts \in Nat
  <2>1. gap \in Nat /\ TsWrap \in Nat /\ dd.now \in Nat
    <3>1. PriMin \in Nat /\ PriMax \in Nat /\ Tolerance \in Nat /\ TsWrap \in Nat BY DfsAssumption
    <3> QED BY <3>1 DEF Gaps, PulsesOK, PulseRoom
  <2> QED BY <2>1 DEF skw_event_dfs_radar_pulse
<1>3. /\ df.flag[i] # {}
      /\ \/ dd' = pri_detector_reset(x, ts) /\ df' = df
         \/ dd' = x /\ df' = df
         \/ /\ dd' = pri_detector_reset(x, 0)
            /\ df' = [skw_dfs_deinit(df, i, "cac" \in df.flag[i]) EXCEPT !.told[i] = "radar", !.radar = @ \union {i},
                       !.odd = IF df.chan # df.on[i] THEN @ \union {"otherchannel"} ELSE @]
         \/ dd' = pulse_queue_enqueue(y, ts) /\ df' = df
  BY <1>1
<1>0. df.ew = "idle" BY DEF skw_dfs_add_pulse
<1> HIDE DEF q
<1>4. PulsesOK(x) /\ PulsesOK(y)
  <2> HIDE DEF t, ts
  <2> DEFINE odd == IF late THEN dd.odd \union {"wrapped"} ELSE dd.odd
  <2>0. x = [dd EXCEPT !.now = t, !.fed = dd.fed + 1, !.ts = ts, !.heard = dd.heard \union {t}, !.odd = odd]
    OBVIOUS
  <2> HIDE DEF odd, x
  <2>1. DOMAIN x = PulseFields /\ x.now = t /\ x.pulses = dd.pulses /\ x.count = dd.count
    BY <2>0 DEF PulsesOK, PulseRoom, PulseFields
  <2>2. DOMAIN y = PulseFields /\ y.now = t /\ y.pulses = dd.pulses /\ y.count = dd.count
    BY <2>1 DEF PulseFields
  <2> HIDE DEF y
  <2> QED BY <1>2, <2>1, <2>2 DEF PulsesOK, PulseRoom
<1> HIDE DEF x, y, ts, t
<1>5. /\ PulsesOK(pri_detector_reset(x, ts)) /\ PulsesOK(pri_detector_reset(x, 0)) /\ PulsesOK(pulse_queue_enqueue(y, ts))
  BY <1>2, <1>4, ResetIs, EnqueueIs
<1>6. PulsesOK(dd') BY <1>3, <1>4, <1>5
<1>7. CASE df' = df BY <1>6, <1>7
<1>8. CASE df' = [skw_dfs_deinit(df, i, "cac" \in df.flag[i]) EXCEPT !.told[i] = "radar", !.radar = @ \union {i},
                       !.odd = IF df.chan # df.on[i] THEN @ \union {"otherchannel"} ELSE @]
  BY <1>0, <1>3, <1>6, <1>8, RadarFound
<1> QED BY <1>3, <1>7, <1>8

\* Nothing was heard at the start.
LEMMA PulsesBegin == DfsInit => PulsesOK(dd)
<1> SUFFICES ASSUME DfsInit PROVE PulsesOK(dd) OBVIOUS
<1>1. DOMAIN dd = PulseFields /\ dd.now = 3 * TsWrap /\ dd.pulses = <<>> /\ dd.count = 0
  BY DEF DfsInit, PulseFields
<1>2. TsWrap \in Nat BY DfsAssumption
<1>3. Len(<<>>) = 0 /\ <<>> \in Seq(Nat) /\ 0 <= 2 * Ppb - 1 BY DfsBounds
<1> QED BY <1>1, <1>2, <1>3 DEF PulsesOK, PulseRoom

\* Every step keeps both.
LEMMA DfsStep == DfInv(df) /\ PulsesOK(dd) /\ [DfsNext]_dfsVars => DfInv(df)' /\ PulsesOK(dd)'
<1> SUFFICES ASSUME DfInv(df), PulsesOK(dd), [DfsNext]_dfsVars PROVE DfInv(df') /\ PulsesOK(dd')
  OBVIOUS
<1>1. CASE skw_start_radar_detection BY <1>1, DfsStarts, ResetIs DEF skw_start_radar_detection
<1>2. CASE StartMonitored
  <2>1. dd' = ChanInit(dd) \/ dd' = dd BY <1>2 DEF StartMonitored
  <2> QED BY <1>2, <2>1, DfsStarts, ResetIs
<1>3. CASE skw_dfs_cac_work BY <1>3, CacWorks DEF skw_dfs_cac_work
<1>4. CASE CacFinished BY <1>4, CacTold DEF CacFinished
<1>5. CASE StopAp BY <1>5, StopAsked DEF StopAp
<1>6. CASE Deinit BY <1>6, ApEnds, ResetIs DEF Deinit
<1>7. CASE skw_event_chan_switch BY <1>7, ApSwitches DEF skw_event_chan_switch
<1>8. CASE skw_dfs_add_pulse BY <1>8, PulseArrives
<1>9. CASE UNCHANGED dfsVars BY <1>9 DEF dfsVars
<1> QED BY <1>1, <1>2, <1>3, <1>4, <1>5, <1>6, <1>7, <1>8, <1>9 DEF DfsNext

\* Each interface's check is waited for by its work or by the request that
\* ends it, no work is left over, and an AP that runs listens until radar was
\* found, with the exceptions that CheckIsLive names (skw_dfs_cac_work,
\* skw_dfs_deinit, skw_dfs_start_monitor).
THEOREM ChecksAreLive == DfsSpec => []CheckIsLive
<1>1. DfInv(df) => CheckIsLive BY DEF DfInv, DfShape, Awaited, Wanted, Listens, Excused, CheckIsLive
<1> QED BY DfsBegin, PulsesBegin, DfsStep, <1>1, PTL DEF DfsSpec

\* The records keep their types; the list of pulses is never longer than two
\* bursts (pulse_queue_enqueue).
THEOREM DfsTyping == DfsSpec => []DfsTypeOK
<1>1. DfInv(df) /\ PulsesOK(dd) => DfsTypeOK
  <2> SUFFICES ASSUME DfInv(df), PulsesOK(dd) PROVE DfsTypeOK OBVIOUS
  <2>1. Len(dd.pulses) \in Nat /\ Len(dd.pulses) <= 2 * Ppb - 1 /\ Ppb \in Nat
    BY DfsBounds DEF PulsesOK, PulseRoom
  <2>2. Len(dd.pulses) <= 2 * Ppb /\ dd.count \in Nat BY <2>1 DEF PulsesOK, PulseRoom
  <2> QED BY <2>2 DEF DfInv, DfShape, DfsTypeOK
<1> QED BY DfsBegin, PulsesBegin, DfsStep, <1>1, PTL DEF DfsSpec

-----------------------------------------------------------------------------
\* The receive path.  Frames have numbers without end; a frame carries the
\* rest of its number, and the reorder window of a session starts at one.
\* What a division is.
LEMMA DivisionIs ==
    ASSUME NEW n \in Nat, n > 0, NEW u \in Int
    PROVE  u \div n \in Int /\ u % n \in 0..(n - 1) /\ u = n * (u \div n) + (u % n)
  OBVIOUS

\* A multiple more leaves the rest of a division as it is.
LEMMA RestIs ==
    ASSUME NEW n \in Nat, n > 0, NEW u \in Int, NEW q \in Int, NEW m \in 0..(n - 1), u = n * q + m
    PROVE  u % n = m
<1> DEFINE d == u \div n   e == u % n
<1>1. d \in Int /\ e \in 0..(n - 1) /\ u = n * d + e BY DivisionIs
<1>2. n * (d - q) = m - e BY <1>1
<1> HIDE DEF d, e
<1>3. ~(d - q >= 1)
  <2> SUFFICES ASSUME d - q >= 1 PROVE FALSE OBVIOUS
  <2>1. n * (d - q) >= n BY <1>1
  <2> QED BY <1>1, <1>2, <2>1
<1>4. ~(d - q <= -1)
  <2> SUFFICES ASSUME d - q <= -1 PROVE FALSE OBVIOUS
  <2>1. n * (d - q) <= -n BY <1>1
  <2> QED BY <1>1, <1>2, <2>1
<1>5. d = q BY <1>1, <1>3, <1>4
<1>6. e = m BY <1>1, <1>2, <1>5
<1> QED BY <1>6 DEF e

\* Two numbers with the same rest.
Alike(n, x, y) == x % n = y % n

\* Sums and differences of numbers with the same rests have the same rest.
LEMMA SameRest ==
    ASSUME NEW n \in Nat, n > 0, NEW x \in Int, NEW y \in Int, NEW c \in Int, NEW d \in Int,
           Alike(n, x, y), Alike(n, c, d)
    PROVE  Alike(n, x + c, y + d) /\ Alike(n, x - c, y - d)
<1> DEFINE p == x \div n   q == y \div n   r == c \div n   s == d \div n   v == (y + d) \div n   w == (y - d) \div n
<1> DEFINE k == x % n   l == c % n
<1>1. /\ x = n * p + k /\ y = n * q + k /\ p \in Int /\ q \in Int /\ k \in 0..(n - 1)
      /\ c = n * r + l /\ d = n * s + l /\ r \in Int /\ s \in Int /\ l \in 0..(n - 1)
  BY DivisionIs DEF Alike
<1>2. y + d \in Int /\ y - d \in Int OBVIOUS
<1> DEFINE e == (y + d) % n   f == (y - d) % n
<1>3. v \in Int /\ w \in Int /\ e \in 0..(n - 1) /\ f \in 0..(n - 1) /\ y + d = n * v + e /\ y - d = n * w + f
  BY <1>2, DivisionIs
<1> DEFINE a == v + (p - q) + (r - s)   b == w + (p - q) - (r - s)
<1> HIDE DEF p, q, r, s, v, w, e, f, k, l
<1>4. x + c = n * a + e /\ x - c = n * b + f /\ a \in Int /\ b \in Int /\ x + c \in Int /\ x - c \in Int
  BY <1>1, <1>3
<1> HIDE DEF a, b
<1>5. (x + c) % n = e /\ (x - c) % n = f BY <1>3, <1>4, RestIs
<1> QED BY <1>5 DEF e, f, Alike

-----------------------------------------------------------------------------
HalfSpace == SnSpace \div 2
\* x is the sequence number of A, a number without end.
At(x, A) == x \in Nat /\ A \in Int /\ x % SnSpace = A % SnSpace

\* What the assumptions say of the window and of the half of the number space.
LEMMA RxBounds ==
    /\ SnSpace \in Nat /\ WinSize \in Nat /\ WinSize >= 2 /\ SnSpace % WinSize = 0 /\ WinSize > 0 /\ SnSpace > 0
    /\ HalfSpace \in Nat /\ 2 * HalfSpace <= SnSpace /\ WinSize < HalfSpace /\ WinSize < SnSpace
    /\ FirstFrame \in Nat /\ LastFrame \in Nat /\ FirstFrame <= LastFrame /\ MaxBaOps \in Nat
<1>1. /\ SnSpace \in Nat /\ WinSize \in Nat /\ WinSize >= 2 /\ 2 * WinSize < SnSpace /\ SnSpace % WinSize = 0
      /\ FirstFrame \in Nat /\ LastFrame \in Nat /\ FirstFrame <= LastFrame /\ MaxBaOps \in Nat
  BY RxAssumption DEF WinSize
<1> DEFINE e == SnSpace \div WinSize
<1>2. e \in Int /\ SnSpace = WinSize * e + (SnSpace % WinSize) BY <1>1, DivisionIs
<1> HIDE DEF e
<1>3. SnSpace = WinSize * e BY <1>1, <1>2
<1>4. e >= 3
  <2>1. WinSize * 2 < WinSize * e BY <1>1, <1>3
  <2>2. ~(e <= 2)
    <3> SUFFICES ASSUME e <= 2 PROVE FALSE OBVIOUS
    <3>1. WinSize * e <= WinSize * 2 BY <1>1, <1>2
    <3> QED BY <1>1, <1>2, <2>1, <3>1
  <2> QED BY <1>2, <2>2
<1>5. 3 * WinSize <= SnSpace BY <1>1, <1>2, <1>3, <1>4
<1> QED BY <1>1, <1>5 DEF HalfSpace

\* Numbers that are close to each other and have the same rest are the same.
LEMMA CloseSame ==
    ASSUME NEW n \in Nat, n > 0, NEW x \in Int, NEW y \in Int, x % n = y % n, x - y < n, y - x < n
    PROVE  x = y
<1> DEFINE p == x \div n   q == y \div n   k == x % n
<1>1. p \in Int /\ q \in Int /\ k \in Int /\ x = n * p + k /\ y = n * q + k BY DivisionIs
<1> HIDE DEF p, q, k
<1>2. x - y = n * (p - q) BY <1>1
<1>3. ~(p - q >= 1)
  <2> SUFFICES ASSUME p - q >= 1 PROVE FALSE OBVIOUS
  <2>1. n * (p - q) >= n BY <1>1
  <2> QED BY <1>1, <1>2, <2>1
<1>4. ~(p - q <= -1)
  <2> SUFFICES ASSUME p - q <= -1 PROVE FALSE OBVIOUS
  <2>1. n * (p - q) <= -n BY <1>1
  <2> QED BY <1>1, <1>2, <2>1
<1>5. p = q BY <1>1, <1>3, <1>4
<1> QED BY <1>1, <1>5

\* A number that is small is its rest.
LEMMA SmallRest ==
    ASSUME NEW n \in Nat, n > 0, NEW m \in 0..(n - 1)
    PROVE  m % n = m
  BY RestIs

\* The sequence number of a frame, the next one, one further on.
LEMMA AtSn ==
    ASSUME NEW a \in Nat
    PROVE  At(Sn(a), a) /\ Sn(a) \in 0..(SnSpace - 1)
<1>1. a % SnSpace \in 0..(SnSpace - 1) BY RxBounds, DivisionIs
<1>2. (a % SnSpace) % SnSpace = a % SnSpace BY <1>1, RxBounds, SmallRest
<1> QED BY <1>1, <1>2, RxBounds DEF At, Sn

\* Adding to a sequence number adds to its number.
LEMMA AtPlus ==
    ASSUME NEW x, NEW A, At(x, A), NEW c \in Nat
    PROVE  At(x + c, A + c) /\ At((x + c) % SnSpace, A + c)
<1>1. x \in Int /\ A \in Int /\ c \in Int /\ x % SnSpace = A % SnSpace BY DEF At
<1>2. (x + c) % SnSpace = (A + c) % SnSpace
  <2>1. Alike(SnSpace, x, A) /\ Alike(SnSpace, c, c) BY <1>1 DEF Alike
  <2>2. Alike(SnSpace, x + c, A + c) BY <1>1, <2>1, SameRest, RxBounds
  <2> QED BY <2>2 DEF Alike
<1>3. x + c \in Nat /\ A + c \in Int BY DEF At
<1>4. At((x + c) % SnSpace, x + c) BY <1>3, AtSn DEF Sn
<1> QED BY <1>2, <1>3, <1>4 DEF At

\* And so does taking away.
LEMMA AtMinus ==
    ASSUME NEW x, NEW A, At(x, A), NEW c \in Nat
    PROVE  At((x - c) % SnSpace, A - c)
<1>1. x \in Int /\ A \in Int /\ c \in Int /\ x % SnSpace = A % SnSpace BY DEF At
<1>2. (x - c) % SnSpace = (A - c) % SnSpace
  <2>1. Alike(SnSpace, x, A) /\ Alike(SnSpace, c, c) BY <1>1 DEF Alike
  <2>2. Alike(SnSpace, x - c, A - c) BY <1>1, <2>1, SameRest, RxBounds
  <2> QED BY <2>2 DEF Alike
<1>3. (x - c) % SnSpace \in 0..(SnSpace - 1) BY <1>1, DivisionIs, RxBounds
<1>4. ((x - c) % SnSpace) % SnSpace = (x - c) % SnSpace BY <1>3, SmallRest, RxBounds
<1> QED BY <1>1, <1>2, <1>3, <1>4, RxBounds DEF At

\* ieee80211_sn_inc goes to the next number.
LEMMA AtInc ==
    ASSUME NEW x, NEW A, At(x, A)
    PROVE  At(ieee80211_sn_inc(x), A + 1)
  BY AtPlus DEF ieee80211_sn_inc

\* Within half of the space the comparison of sequence numbers is that of the numbers.
LEMMA AtLess ==
    ASSUME NEW x, NEW A, NEW y, NEW B, At(x, A), At(y, B), A - B <= HalfSpace, B - A < HalfSpace
    PROVE  ieee80211_sn_less(x, y) <=> A < B
<1>1. /\ x \in Int /\ A \in Int /\ y \in Int /\ B \in Int /\ x % SnSpace = A % SnSpace /\ y % SnSpace = B % SnSpace
  BY DEF At
<1>2. (x - y) % SnSpace = (A - B) % SnSpace
  <2>1. Alike(SnSpace, x, A) /\ Alike(SnSpace, y, B) BY <1>1 DEF Alike
  <2>2. Alike(SnSpace, x - y, A - B) BY <1>1, <2>1, SameRest, RxBounds
  <2> QED BY <2>2 DEF Alike
<1>3. CASE A < B
  <2> DEFINE m == SnSpace + (A - B)
  <2>1. m \in 0..(SnSpace - 1) /\ A - B = SnSpace * (-1) + m /\ m > HalfSpace /\ A - B \in Int
    BY <1>1, <1>3, RxBounds
  <2> HIDE DEF m
  <2>2. (A - B) % SnSpace = m BY <2>1, RestIs, RxBounds
  <2> QED BY <1>2, <1>3, <2>1, <2>2 DEF ieee80211_sn_less, HalfSpace
<1>4. CASE A >= B
  <2>1. A - B \in 0..(SnSpace - 1) /\ ~(A - B > HalfSpace) /\ ~(A < B) BY <1>1, <1>4, RxBounds
  <2>2. (A - B) % SnSpace = A - B BY <2>1, SmallRest, RxBounds
  <2> QED BY <1>2, <2>1, <2>2 DEF ieee80211_sn_less, HalfSpace
<1> QED BY <1>1, <1>3, <1>4

\* The slot is that of the number.
LEMMA AtSlot ==
    ASSUME NEW x, NEW A, At(x, A)
    PROVE  Slot(x) = A % WinSize /\ Slot(x) \in 0..(WinSize - 1)
<1> DEFINE e == SnSpace \div WinSize   p == x \div SnSpace   q == A \div SnSpace   k == x % SnSpace
           s == x \div WinSize   t == x % WinSize
<1>1. x \in Int /\ A \in Int /\ k = A % SnSpace BY DEF At
<1>2. /\ e \in Int /\ SnSpace = WinSize * e + (SnSpace % WinSize) /\ p \in Int /\ q \in Int /\ k \in Int
      /\ x = SnSpace * p + k /\ A = SnSpace * q + k /\ s \in Int /\ t \in 0..(WinSize - 1) /\ x = WinSize * s + t
  BY <1>1, DivisionIs, RxBounds
<1> HIDE DEF e, p, q, k, s, t
<1>3. SnSpace = WinSize * e BY <1>2, RxBounds
<1>4. A - x = SnSpace * (q - p) BY <1>2, RxBounds
<1>5. A - x = WinSize * (e * (q - p)) BY <1>2, <1>3, <1>4, RxBounds
<1>6. e * (q - p) \in Int BY <1>2
<1> DEFINE u == e * (q - p)
<1> HIDE DEF u
<1>7. A = WinSize * (s + u) + t /\ s + u \in Int BY <1>1, <1>2, <1>5, <1>6, RxBounds DEF u
<1> DEFINE v == s + u
<1> HIDE DEF v
<1>8. A % WinSize = t
  <2>1. A = WinSize * v + t /\ v \in Int BY <1>7 DEF v
  <2>2. WinSize \in Nat /\ WinSize > 0 /\ t \in 0..(WinSize - 1) /\ A \in Int BY <1>1, <1>2, RxBounds
  <2> QED BY <2>1, <2>2, RestIs
<1> QED BY <1>2, <1>8 DEF Slot, t

\* Numbers of one window that share a slot are the same.
LEMMA SameSlot ==
    ASSUME NEW A \in Int, NEW B \in Int, A % WinSize = B % WinSize, A - B < WinSize, B - A < WinSize
    PROVE  A = B
  BY CloseSame, RxBounds

\* Every slot is that of a number of the window.
LEMMA SlotReached ==
    ASSUME NEW W \in Int, NEW i \in 0..(WinSize - 1)
    PROVE  \E j \in 0..(WinSize - 1) : (W + j) % WinSize = i
<1> DEFINE j == (i - W) % WinSize
<1>1. j \in 0..(WinSize - 1) /\ i - W \in Int /\ i \in Int BY DivisionIs, RxBounds
<1>2. j % WinSize = (i - W) % WinSize BY <1>1, SmallRest, RxBounds
<1> HIDE DEF j
<1>3. (W + j) % WinSize = (W + (i - W)) % WinSize
  <2>1. Alike(WinSize, W, W) /\ Alike(WinSize, j, i - W) BY <1>2 DEF Alike
  <2>2. Alike(WinSize, W + j, W + (i - W)) BY <1>1, <2>1, SameRest, RxBounds
  <2> QED BY <2>2 DEF Alike
<1>4. W + (i - W) = i /\ i % WinSize = i BY <1>1, SmallRest, RxBounds
<1> QED BY <1>1, <1>3, <1>4

-----------------------------------------------------------------------------
Indices == 0..(WinSize - 1)
Numbers == FirstFrame..LastFrame
Frame == [a : Numbers, st : States]
Kept == [a : Numbers, st : States \ {"msdu"}]
RxFields == {"base", "keyed", "last", "back", "slipped", "skew", "rel", "grave", "n", "go", "drop", "release",
             "live", "win", "buf", "stored", "timer", "todo", "old"}
\* The fields of a reorder record have their types, also within a call.
Typed(r) ==
    /\ DOMAIN r = RxFields
    /\ r.base \in Numbers /\ r.last \in Numbers \union {No} /\ r.n \in Nat
    /\ {r.keyed, r.back, r.slipped, r.skew, r.drop, r.release, r.live} \subseteq BOOLEAN
    /\ r.rel \in Seq(Frame) /\ r.grave \in Seq(Frame)
    /\ r.win \in Nat /\ r.stored \in Nat /\ r.timer \in Nat \union {No} /\ r.todo \in Nat \union {No}
    /\ r.buf \in [Indices -> Kept \union {Hole}] /\ r.old \subseteq Indices
\* What the walks over the window do not touch.
Aside(r) == <<r.base, r.keyed, r.last, r.back, r.grave, r.n, r.live, r.slipped, r.drop, r.release>>

NonHoles(r) == {i \in Indices : r.buf[i] # Hole}
Tallied(r) == r.stored = Cardinality(NonHoles(r))
\* The count is never below what there is.
Covered(r) == r.stored >= Cardinality(NonHoles(r))
\* What is stored are frames of the window from X on, each in its slot.
InWindow(r, X) == \A i \in Indices : r.buf[i] # Hole => /\ X <= r.buf[i].a /\ r.buf[i].a < X + WinSize
                                                        /\ r.buf[i].a % WinSize = i
\* What was released are frames after the last delivered one, in order.
InOrder(r, X) == /\ r.last < X
                 /\ \A k \in 1..Len(r.rel) : /\ r.last < r.rel[k].a /\ r.rel[k].a < X
                                             /\ \A j \in 1..(k - 1) : r.rel[j].a < r.rel[k].a
Clean(r, X) == At(r.win, X) /\ Tallied(r) /\ InWindow(r, X) /\ InOrder(r, X)

\* From one number to the next as far as one wants.
LEMMA Climb ==
    ASSUME NEW n \in Nat, NEW S, 0 \in S, \A k \in 0..(n - 1) : k \in S => k + 1 \in S
    PROVE  \A k \in 0..n : k \in S
<1> DEFINE T == {k \in 0..n : k \notin S}
<1>1. SUFFICES ASSUME T # {} PROVE FALSE OBVIOUS
<1>2. T \in SUBSET Nat OBVIOUS
<1>3. PICK x \in T : \A y \in T : x <= y BY <1>1, <1>2, LeastExists
<1>4. x # 0 /\ x \in 1..n BY <1>3
<1>5. x - 1 \in 0..(n - 1) /\ x - 1 \notin T BY <1>3, <1>4
<1> QED BY <1>3, <1>4, <1>5

\* A hole is no frame.
LEMMA HoleIs == Hole \notin Frame /\ Hole \notin Kept /\ Kept \subseteq Frame
<1>1. No \notin Numbers BY RxBounds DEF No, Numbers
<1> QED BY <1>1 DEF Hole, Frame, Kept

\* The slots in use are counted.
LEMMA CountTyped ==
    ASSUME NEW r
    PROVE  IsFiniteSet(NonHoles(r)) /\ Cardinality(NonHoles(r)) \in Nat /\ (Cardinality(NonHoles(r)) = 0 <=> NonHoles(r) = {})
<1>1. IsFiniteSet(Indices) BY RxBounds, FS_Interval DEF Indices
<1>2. NonHoles(r) \subseteq Indices BY DEF NonHoles
<1>3. IsFiniteSet(NonHoles(r)) BY <1>1, <1>2, FS_Subset
<1> QED BY <1>3, FS_CardinalityType, FS_EmptySet

\* One slot emptied.
LEMMA CountEmptied ==
    ASSUME NEW r, Typed(r), NEW i \in Indices, NEW q, q.buf = [r.buf EXCEPT ![i] = Hole]
    PROVE  Cardinality(NonHoles(q)) = Cardinality(NonHoles(r)) - (IF r.buf[i] = Hole THEN 0 ELSE 1)
<1>1. DOMAIN r.buf = Indices BY DEF Typed
<1>2. NonHoles(q) = NonHoles(r) \ {i} BY <1>1 DEF NonHoles
<1>3. i \in NonHoles(r) <=> r.buf[i] # Hole BY DEF NonHoles
<1>4. CASE r.buf[i] = Hole
  <2>1. NonHoles(q) = NonHoles(r) BY <1>2, <1>3, <1>4
  <2> QED BY <1>4, <2>1, CountTyped
<1>5. CASE r.buf[i] # Hole
  <2>1. Cardinality(NonHoles(r) \ {i}) = Cardinality(NonHoles(r)) - 1
    BY <1>3, <1>5, CountTyped, FS_RemoveElement
  <2> QED BY <1>2, <1>5, <2>1
<1> QED BY <1>4, <1>5

\* One slot filled.
LEMMA CountFilled ==
    ASSUME NEW r, Typed(r), NEW i \in Indices, NEW s, s # Hole, r.buf[i] = Hole, NEW q, q.buf = [r.buf EXCEPT ![i] = s]
    PROVE  Cardinality(NonHoles(q)) = Cardinality(NonHoles(r)) + 1
<1>1. DOMAIN r.buf = Indices BY DEF Typed
<1>2. NonHoles(q) = NonHoles(r) \union {i} /\ i \notin NonHoles(r) BY <1>1 DEF NonHoles
<1> QED BY <1>2, CountTyped, FS_AddElement

\* Nothing stored, nothing in a slot.
LEMMA CountNone ==
    ASSUME NEW r, Tallied(r), r.stored = 0
    PROVE  \A i \in Indices : r.buf[i] = Hole
  BY CountTyped DEF Tallied, NonHoles

\* What is released are frames with their numbers.
LEMMA ReleasedIs ==
    ASSUME NEW r, Typed(r)
    PROVE  /\ r.last \in Int /\ r.rel \in Seq(Frame) /\ Len(r.rel) \in Nat
           /\ \A k \in 1..Len(r.rel) : r.rel[k] \in Frame /\ r.rel[k].a \in Int
<1>1. r.rel \in Seq(Frame) /\ r.last \in Int BY RxBounds DEF Typed, Numbers, No
<1>2. \A k \in 1..Len(r.rel) : r.rel[k] \in Frame BY <1>1
<1>3. \A f \in Frame : f.a \in Int BY RxBounds DEF Frame, Numbers
<1> QED BY <1>1, <1>2, <1>3

\* The window moves past a slot that is emptied, and what was in it, or
\* nothing, goes to the release list.
LEMMA PopIs ==
    ASSUME NEW r, Typed(r), NEW X, Clean(r, X), NEW q,
           q.buf = [r.buf EXCEPT ![X % WinSize] = Hole], At(q.win, X + 1), q.last = r.last, Tallied(q),
           \/ q.rel = r.rel
           \/ \E s \in Frame : s.a = X /\ q.rel = Append(r.rel, s)
    PROVE  Clean(q, X + 1)
<1>1. X \in Int /\ X % WinSize \in Indices /\ DOMAIN r.buf = Indices
  <2>1. X \in Int /\ DOMAIN r.buf = Indices BY DEF Clean, At, Typed
  <2> QED BY <2>1, DivisionIs, RxBounds DEF Indices
<1>2. InWindow(q, X + 1)
  <2> SUFFICES ASSUME NEW i \in Indices, q.buf[i] # Hole
               PROVE  /\ X + 1 <= q.buf[i].a /\ q.buf[i].a < X + 1 + WinSize /\ q.buf[i].a % WinSize = i
    BY DEF InWindow
  <2>1. i # X % WinSize /\ q.buf[i] = r.buf[i] BY <1>1
  <2>2. /\ X <= r.buf[i].a /\ r.buf[i].a < X + WinSize /\ r.buf[i].a % WinSize = i
    BY <2>1 DEF Clean, InWindow
  <2>3. r.buf[i].a \in Int BY <2>1, RxBounds DEF Typed, Kept, Numbers
  <2> QED BY <1>1, <2>1, <2>2, <2>3, RxBounds
<1>3. InOrder(q, X + 1)
  <2>1. /\ r.last < X /\ r.last \in Int /\ r.rel \in Seq(Frame)
        /\ \A k \in 1..Len(r.rel) : /\ r.last < r.rel[k].a /\ r.rel[k].a < X /\ r.rel[k].a \in Int
                                    /\ \A j \in 1..(k - 1) : r.rel[j].a < r.rel[k].a
    BY ReleasedIs DEF Clean, InOrder
  <2>2. CASE q.rel = r.rel BY <1>1, <2>1, <2>2 DEF InOrder
  <2>3. ASSUME NEW s \in Frame, s.a = X, q.rel = Append(r.rel, s) PROVE InOrder(q, X + 1)
    <3> DEFINE n == Len(r.rel)
    <3>1. n \in Nat /\ Len(q.rel) = n + 1 /\ q.rel[n + 1] = s /\ \A k \in 1..n : q.rel[k] = r.rel[k]
      BY <2>1, <2>3
    <3> HIDE DEF n
    <3>2. ASSUME NEW k \in 1..Len(q.rel)
          PROVE  /\ q.last < q.rel[k].a /\ q.rel[k].a < X + 1 /\ \A j \in 1..(k - 1) : q.rel[j].a < q.rel[k].a
      <4>1. CASE k = n + 1 BY <1>1, <2>1, <2>3, <3>1, <4>1 DEF n
      <4>2. CASE k \in 1..n
        <5>1. q.rel[k] = r.rel[k] /\ \A j \in 1..(k - 1) : q.rel[j] = r.rel[j]
          <6>1. k \in 1..n /\ \A j \in 1..(k - 1) : j \in 1..n BY <3>1, <4>2
          <6> QED BY <3>1, <6>1
        <5>2. k \in 1..Len(r.rel) BY <4>2 DEF n
        <5>3. /\ r.last < r.rel[k].a /\ r.rel[k].a < X /\ r.rel[k].a \in Int
              /\ \A j \in 1..(k - 1) : r.rel[j].a < r.rel[k].a
          BY <2>1, <5>2
        <5> QED BY <1>1, <5>1, <5>3
      <4> QED BY <3>1, <4>1, <4>2
    <3> QED BY <1>1, <2>1, <3>2 DEF InOrder
  <2> QED BY <2>2, <2>3
<1> QED BY <1>2, <1>3 DEF Clean

\* Where one step of skw_reorder_force_release leaves the window, and what is in it.
StepMoved(r, X, T, q) ==
    \/ X > T /\ q = r
    \/ X <= T /\ r.stored = 0 /\ At(q.win, T) /\ q.stored = 0 /\ (Clean(r, X) => Clean(q, T))
    \/ /\ X <= T /\ At(q.win, X + 1) /\ q.buf[X % WinSize] = Hole
       /\ Clean(r, X) => Clean(q, X + 1)
\* One step of skw_reorder_force_release.
LEMMA ForceStepIs ==
    ASSUME NEW r, Typed(r), NEW to \in Nat, NEW q, q = ForceStep(r, to)
    PROVE  /\ Typed(q) /\ Aside(q) = Aside(r) /\ q.skew = r.skew /\ q.timer = r.timer /\ q.todo = r.todo /\ q.go = r.go
           /\ \A i \in Indices : q.buf[i] \in {r.buf[i], Hole}
           /\ (Tallied(r) => Tallied(q)) /\ (Covered(r) => Covered(q))
           /\ \A X, T : At(r.win, X) /\ At(to, T) /\ X - 1 - T <= HalfSpace /\ T + 1 - X < HalfSpace => StepMoved(r, X, T, q)
<1> DEFINE i == Slot(r.win)
           s == r.buf[i]
           less == ieee80211_sn_less(r.win, ieee80211_sn_inc(to))
           rel == IF s = Hole \/ s.st = "tfirst" THEN r.rel ELSE Append(r.rel, s)
           stored == IF s = Hole THEN r.stored ELSE r.stored - 1
           p == [Emptied(r, i) EXCEPT !.win = ieee80211_sn_inc(r.win), !.stored = stored, !.rel = rel]
<1>1. i \in Indices /\ s \in Kept \union {Hole} /\ ieee80211_sn_inc(r.win) \in Nat /\ At(r.win, r.win)
  <2>1. At(r.win, r.win) BY DEF At, Typed
  <2>2. i \in Indices BY <2>1, AtSlot DEF Indices
  <2>3. At(ieee80211_sn_inc(r.win), r.win + 1) BY <2>1, AtInc
  <2> QED BY <2>1, <2>2, <2>3 DEF Typed, At
<1>2. CASE ~less
  <2>1. q = r BY <1>2 DEF ForceStep
  <2>2. ASSUME NEW X, NEW T, At(r.win, X), At(to, T), X - 1 - T <= HalfSpace, T + 1 - X < HalfSpace PROVE X > T
    <3>1. At(ieee80211_sn_inc(to), T + 1) /\ X \in Int /\ T \in Int BY <2>2, AtInc DEF At
    <3>2. X - (T + 1) <= HalfSpace /\ (T + 1) - X < HalfSpace BY <2>2, <3>1, RxBounds
    <3>3. ~(X < T + 1) BY <1>2, <2>2, <3>1, <3>2, AtLess
    <3> QED BY <3>1, <3>3
  <2> QED BY <2>1, <2>2 DEF StepMoved
<1>3. ASSUME less PROVE \A X, T : At(r.win, X) /\ At(to, T) /\ X - 1 - T <= HalfSpace /\ T + 1 - X < HalfSpace => X <= T
  <2> SUFFICES ASSUME NEW X, NEW T, At(r.win, X), At(to, T), X - 1 - T <= HalfSpace, T + 1 - X < HalfSpace PROVE X <= T
    OBVIOUS
  <2>1. At(ieee80211_sn_inc(to), T + 1) /\ X \in Int /\ T \in Int BY AtInc DEF At
  <2>2. X - (T + 1) <= HalfSpace /\ (T + 1) - X < HalfSpace BY <2>1, RxBounds
  <2>3. X < T + 1 BY <1>3, <2>1, <2>2, AtLess
  <2> QED BY <2>1, <2>3
<1>4. CASE less /\ r.stored = 0
  <2>1. q = [r EXCEPT !.win = to] BY <1>4 DEF ForceStep
  <2>2. /\ DOMAIN q = DOMAIN r /\ q.win = to /\ q.buf = r.buf /\ q.rel = r.rel /\ q.last = r.last /\ q.stored = r.stored
        /\ q.old = r.old /\ q.skew = r.skew /\ q.timer = r.timer /\ q.todo = r.todo /\ q.go = r.go /\ Aside(q) = Aside(r)
    BY <2>1 DEF Typed, RxFields, Aside
  <2>3. Typed(q) BY <2>2 DEF Typed, Aside
  <2>4. (Tallied(r) => Tallied(q)) /\ (Covered(r) => Covered(q))
    BY <2>2 DEF Tallied, Covered, NonHoles
  <2>5. ASSUME NEW X, NEW T, At(to, T), X <= T, Clean(r, X) PROVE Clean(q, T)
    <3>1. \A k \in Indices : q.buf[k] = Hole BY <1>4, <2>2, <2>5, CountNone DEF Clean
    <3>2. X \in Int /\ T \in Int /\ r.last \in Int /\ \A k \in 1..Len(r.rel) : r.rel[k].a \in Int
      BY <2>5, ReleasedIs DEF Clean, At
    <3>3. InOrder(q, T) BY <2>2, <2>5, <3>2 DEF Clean, InOrder
    <3> QED BY <2>2, <2>4, <2>5, <3>1, <3>3 DEF Clean, InWindow
  <2> QED BY <1>3, <1>4, <2>2, <2>3, <2>4, <2>5 DEF StepMoved
<1>5. CASE less /\ r.stored # 0
  <2>1. q = p BY <1>5 DEF ForceStep, Emptied
  <2>2. /\ DOMAIN q = DOMAIN r /\ q.win = ieee80211_sn_inc(r.win) /\ q.buf = [r.buf EXCEPT ![i] = Hole] /\ q.rel = rel
        /\ q.last = r.last /\ q.stored = stored /\ q.old = r.old \ {i} /\ q.skew = r.skew /\ q.timer = r.timer
        /\ q.todo = r.todo /\ q.go = r.go /\ Aside(q) = Aside(r)
    BY <2>1 DEF Typed, RxFields, Aside, Emptied
  <2>3. stored \in Nat /\ rel \in Seq(Frame) BY <1>1, <1>5, HoleIs DEF Typed
  <2>4. Typed(q) BY <1>1, <2>2, <2>3 DEF Typed, Aside
  <2>5. (Tallied(r) => Tallied(q)) /\ (Covered(r) => Covered(q))
    <3>1. Cardinality(NonHoles(q)) = Cardinality(NonHoles(r)) - (IF s = Hole THEN 0 ELSE 1)
      BY <1>1, <2>2, CountEmptied
    <3>2. r.stored \in Nat BY DEF Typed
    <3> QED BY <2>2, <3>1, <3>2, CountTyped DEF Tallied, Covered
  <2>6. \A k \in Indices : q.buf[k] \in {r.buf[k], Hole} BY <1>1, <2>2 DEF Typed
  <2>7. ASSUME NEW X, At(r.win, X)
        PROVE  At(q.win, X + 1) /\ q.buf[X % WinSize] = Hole /\ (Clean(r, X) => Clean(q, X + 1))
    <3>1. At(q.win, X + 1) /\ i = X % WinSize BY <2>2, <2>7, AtInc, AtSlot
    <3>2. q.buf[X % WinSize] = Hole BY <1>1, <2>2, <3>1 DEF Typed
    <3>3. ASSUME Clean(r, X) PROVE Clean(q, X + 1)
      <4>1. \/ q.rel = r.rel
            \/ \E t \in Frame : t.a = X /\ q.rel = Append(r.rel, t)
        <5>1. CASE s = Hole \/ s.st = "tfirst" BY <2>2, <5>1
        <5>2. CASE ~(s = Hole \/ s.st = "tfirst")
          <6>1. s \in Frame /\ s.a \in Int /\ X \in Int
            BY <1>1, <2>7, <5>2, HoleIs, RxBounds DEF Kept, Numbers, At
          <6>2. X <= s.a /\ s.a < X + WinSize /\ s.a % WinSize = X % WinSize
            BY <1>1, <3>1, <3>3, <5>2 DEF Clean, InWindow
          <6>3. s.a = X
            <7>1. s.a - X < WinSize /\ X - s.a < WinSize BY <6>1, <6>2, RxBounds
            <7> QED BY <6>1, <6>2, <7>1, SameSlot
          <6> QED BY <2>2, <5>2, <6>1, <6>3
        <5> QED BY <5>1, <5>2
      <4> QED BY <2>2, <2>5, <3>1, <3>3, <4>1, PopIs DEF Clean
    <3> QED BY <3>1, <3>2, <3>3
  <2> QED BY <1>3, <1>5, <2>2, <2>4, <2>5, <2>6, <2>7 DEF StepMoved
<1> QED BY <1>2, <1>4, <1>5

-----------------------------------------------------------------------------
\* The steps of skw_reorder_force_release, one after the other.
ForceWalks(g, r, to, n) == g = [k \in 0..n |-> IF k = 0 THEN r ELSE ForceStep(g[k - 1], to)]
\* They give one record.
LEMMA ForceWalk ==
    ASSUME NEW r, NEW to, NEW n \in Nat
    PROVE  \E g : ForceWalks(g, r, to, n)
<1> DEFINE Walks(g, m) == g = [k \in 0..m |-> IF k = 0 THEN r ELSE ForceStep(g[k - 1], to)]
           S == {m \in Nat : \E g : Walks(g, m)}
<1>1. 0 \in S
  <2> DEFINE g == [k \in 0..0 |-> r]
  <2>1. Walks(g, 0) OBVIOUS
  <2> QED BY <2>1
<1>2. ASSUME NEW m \in 0..(n - 1), m \in S PROVE m + 1 \in S
  <2>1. PICK g : Walks(g, m) BY <1>2
  <2> DEFINE h == [k \in 0..(m + 1) |-> IF k = 0 THEN r ELSE ForceStep(g[k - 1], to)]
  <2>2. \A k \in 0..m : h[k] = g[k] BY <2>1
  <2>3. \A k \in 0..(m + 1) : (IF k = 0 THEN r ELSE ForceStep(g[k - 1], to)) = (IF k = 0 THEN r ELSE ForceStep(h[k - 1], to))
    <3> HIDE DEF h
    <3> QED BY <2>2
  <2>4. Walks(h, m + 1) BY <2>3
  <2>5. m + 1 \in Nat OBVIOUS
  <2> HIDE DEF Walks, h
  <2> QED BY <2>4, <2>5
<1>3. n \in S
  <2> HIDE DEF S
  <2> QED BY <1>1, <1>2, Climb
<1>4. PICK g : Walks(g, n) BY <1>3
<1> QED BY <1>4 DEF ForceWalks

\* What skw_reorder_force_release keeps, and where it leaves the window.
Forced(r, f) ==
    /\ Typed(f) /\ Aside(f) = Aside(r) /\ f.skew = r.skew /\ f.todo = r.todo /\ f.go = r.go
    /\ \A i \in Indices : f.buf[i] \in {r.buf[i], Hole}
    /\ (Tallied(r) => Tallied(f)) /\ (Covered(r) => Covered(f))
Near(X, T) == X - 1 - T <= HalfSpace /\ T + 1 - X < HalfSpace
Moved(r, X, T, f, V) ==
    /\ At(f.win, V) /\ (Clean(r, X) => Clean(f, V)) /\ (X > T => V = X)
    /\ X <= T => \/ V = T + 1 /\ f.buf[T % WinSize] = Hole
                 \/ V = T /\ f.stored = 0

\* skw_reorder_force_release moves the window past the number it is given.
LEMMA ForceIs ==
    ASSUME NEW r, Typed(r), NEW to \in Nat, NEW f, f = skw_reorder_force_release(r, to)
    PROVE  /\ Forced(r, f) /\ f.timer \in {r.timer, No}
           /\ \A X, T : At(r.win, X) /\ At(to, T) /\ Near(X, T) => \E V \in Int : Moved(r, X, T, f, V)
<1> DEFINE late == r.timer # No /\ (ieee80211_sn_less(r.timer, to) \/ ieee80211_sn_less(to, r.win))
           s == IF late THEN [r EXCEPT !.timer = No] ELSE r
           g == CHOOSE h : h = [k \in 0..HalfSpace |-> IF k = 0 THEN s ELSE ForceStep(h[k - 1], to)]
<1>1. f = g[HalfSpace] BY DEF skw_reorder_force_release, HalfSpace
<1>2. /\ Typed(s) /\ Aside(s) = Aside(r) /\ s.skew = r.skew /\ s.todo = r.todo /\ s.go = r.go /\ s.buf = r.buf
      /\ s.timer \in {r.timer, No} /\ s.win = r.win /\ s.stored = r.stored /\ s.rel = r.rel /\ s.last = r.last
  <2>1. s = r \/ s = [r EXCEPT !.timer = No] OBVIOUS
  <2> HIDE DEF s
  <2>2. CASE s = r BY <2>2
  <2>3. CASE s = [r EXCEPT !.timer = No] BY <2>3 DEF Typed, RxFields, Aside, No
  <2> QED BY <2>1, <2>2, <2>3
<1> HIDE DEF s
<1>3. g[0] = s /\ \A k \in 0..(HalfSpace - 1) : g[k + 1] = ForceStep(g[k], to)
  <2>0. HalfSpace \in Nat BY RxBounds
  <2>1. \E h : h = [k \in 0..HalfSpace |-> IF k = 0 THEN s ELSE ForceStep(h[k - 1], to)]
    <3>1. \E h : ForceWalks(h, s, to, HalfSpace) BY <2>0, ForceWalk, Zenon
    <3> QED BY <3>1 DEF ForceWalks
  <2>2. g = [k \in 0..HalfSpace |-> IF k = 0 THEN s ELSE ForceStep(g[k - 1], to)] BY <2>1
  <2> HIDE DEF g
  <2>3. \A k \in 0..HalfSpace : g[k] = IF k = 0 THEN s ELSE ForceStep(g[k - 1], to) BY <2>2
  <2> QED BY <2>3, RxBounds
<1> HIDE DEF g
<1>4. (Tallied(r) <=> Tallied(s)) /\ (Covered(r) <=> Covered(s))
  BY <1>2 DEF Tallied, Covered, NonHoles
<1>5. \A X : Clean(r, X) <=> Clean(s, X) BY <1>2, <1>4 DEF Clean, InWindow, InOrder
<1>6. Forced(r, f) /\ f.timer \in {r.timer, No}
  <2> DEFINE P == {k \in 0..HalfSpace : Forced(s, g[k]) /\ g[k].timer = s.timer}
  <2>1. 0 \in P BY <1>2, <1>3, RxBounds DEF Forced
  <2>2. ASSUME NEW k \in 0..(HalfSpace - 1), k \in P PROVE k + 1 \in P
    <3>1. Typed(g[k]) /\ g[k + 1] = ForceStep(g[k], to) /\ k + 1 \in 0..HalfSpace
      BY <1>3, <2>2, RxBounds DEF Forced
    <3> DEFINE u == g[k]   v == g[k + 1]
    <3>2. Typed(u) /\ v = ForceStep(u, to) /\ Forced(s, u) /\ u.timer = s.timer BY <2>2, <3>1
    <3> HIDE DEF u, v
    <3>3. Typed(v) /\ v.skew = u.skew /\ v.timer = u.timer /\ v.todo = u.todo /\ v.go = u.go
      BY <3>2, ForceStepIs
    <3>4. \A i \in Indices : v.buf[i] \in {u.buf[i], Hole} BY <3>2, ForceStepIs
    <3>5. (Tallied(u) => Tallied(v)) /\ (Covered(u) => Covered(v)) BY <3>2, ForceStepIs
    <3>6. Aside(v) = Aside(u) BY <3>2, ForceStepIs
    <3>7. Forced(s, v) /\ v.timer = s.timer BY <3>2, <3>3, <3>4, <3>5, <3>6 DEF Forced
    <3> QED BY <3>1, <3>7 DEF v
  <2>3. HalfSpace \in P
    <3> HIDE DEF P
    <3> QED BY <2>1, <2>2, RxBounds, Climb
  <2> QED BY <1>1, <1>2, <1>4, <2>3 DEF Forced
<1>7. ASSUME NEW X, NEW T, At(r.win, X), At(to, T), Near(X, T) PROVE \E V \in Int : Moved(r, X, T, f, V)
  <2> DEFINE Here(k, Y) ==
               /\ At(g[k].win, Y) /\ (Clean(s, X) => Clean(g[k], Y)) /\ (X > T => Y = X) /\ X <= Y
               /\ X <= T => \/ Y = T + 1 /\ g[k].buf[T % WinSize] = Hole
                            \/ Y = T /\ g[k].stored = 0
                            \/ Y <= T /\ Y = X + k
             P == {k \in 0..HalfSpace : Typed(g[k]) /\ \E Y \in Int : Here(k, Y)}
  <2>0. X \in Int /\ T \in Int /\ HalfSpace \in Nat /\ X - 1 - T <= HalfSpace /\ T + 1 - X < HalfSpace /\ T % WinSize \in Indices
    BY <1>7, RxBounds, DivisionIs DEF At, Near, Indices
  <2>1. 0 \in P
    <3>1. Here(0, X) BY <1>2, <1>3, <1>7, <2>0
    <3> HIDE DEF Here
    <3> QED BY <1>2, <1>3, <2>0, <3>1
  <2>2. ASSUME NEW k \in 0..(HalfSpace - 1), k \in P PROVE k + 1 \in P
    <3>1. Typed(g[k]) /\ g[k + 1] = ForceStep(g[k], to) /\ k + 1 \in 0..HalfSpace BY <1>3, <2>0, <2>2
    <3>2. PICK Y \in Int : Here(k, Y) BY <2>2
    <3>3. Y - 1 - T <= HalfSpace /\ T + 1 - Y < HalfSpace BY <2>0, <3>2
    <3>4. /\ Typed(g[k + 1]) /\ \A i \in Indices : g[k + 1].buf[i] \in {g[k].buf[i], Hole}
          /\ \/ Y > T /\ g[k + 1] = g[k]
             \/ Y <= T /\ g[k].stored = 0 /\ At(g[k + 1].win, T) /\ g[k + 1].stored = 0 /\ (Clean(g[k], Y) => Clean(g[k + 1], T))
             \/ /\ Y <= T /\ At(g[k + 1].win, Y + 1) /\ g[k + 1].buf[Y % WinSize] = Hole
                /\ Clean(g[k], Y) => Clean(g[k + 1], Y + 1)
      <4> DEFINE u == g[k]   v == g[k + 1]
      <4>1. Typed(u) /\ v = ForceStep(u, to) /\ At(u.win, Y) /\ At(to, T) /\ Y - 1 - T <= HalfSpace /\ T + 1 - Y < HalfSpace
        BY <1>7, <3>1, <3>2, <3>3
      <4> HIDE DEF u, v, Here
      <4>2. Typed(v) BY <4>1, ForceStepIs
      <4>3. \A i \in Indices : v.buf[i] \in {u.buf[i], Hole} BY <4>1, ForceStepIs
      <4>4. StepMoved(u, Y, T, v) BY <4>1, ForceStepIs
      <4> QED BY <4>2, <4>3, <4>4 DEF u, v, StepMoved
    <3>5. \E Z \in Int : Here(k + 1, Z)
      <4>1. CASE Y > T /\ g[k + 1] = g[k]
        <5>1. Here(k + 1, Y) BY <2>0, <3>2, <4>1
        <5> QED BY <5>1
      <4>2. CASE Y <= T /\ At(g[k + 1].win, T) /\ g[k + 1].stored = 0 /\ (Clean(g[k], Y) => Clean(g[k + 1], T))
        <5>1. Here(k + 1, T) BY <2>0, <3>2, <4>2
        <5> QED BY <2>0, <5>1
      <4>3. CASE /\ Y <= T /\ At(g[k + 1].win, Y + 1) /\ g[k + 1].buf[Y % WinSize] = Hole
                 /\ Clean(g[k], Y) => Clean(g[k + 1], Y + 1)
        <5>1. CASE Y = X + k
          <6>1. Here(k + 1, Y + 1) BY <2>0, <3>2, <4>3, <5>1
          <6> QED BY <6>1
        <5>2. CASE Y = T
          <6>1. Here(k + 1, Y + 1) BY <2>0, <3>2, <4>3, <5>2
          <6> QED BY <6>1
        <5> QED BY <2>0, <3>2, <4>3, <5>1, <5>2
      <4> QED BY <3>4, <4>1, <4>2, <4>3
    <3> HIDE DEF Here
    <3> QED BY <3>1, <3>4, <3>5
  <2>3. HalfSpace \in P
    <3> HIDE DEF P
    <3> QED BY <2>1, <2>2, RxBounds, Climb
  <2>4. PICK Y \in Int : Here(HalfSpace, Y) BY <2>3
  <2>5. Moved(r, X, T, f, Y) BY <1>1, <1>5, <2>0, <2>4 DEF Moved
  <2> QED BY <2>5
<1> QED BY <1>6, <1>7

-----------------------------------------------------------------------------
\* A pending release is for the number of a frame.
OfFrame(x) == x = No \/ \E T \in Numbers : At(x, T)
Pending(r) == r.timer # No \/ r.todo # No
Timed(r) == OfFrame(r.timer) /\ OfFrame(r.todo)

\* The frame in the slot of a number of the window is the one with that number.
LEMMA ReleaseHeadIs ==
    ASSUME NEW r, Typed(r), NEW X, Clean(r, X), NEW T \in Int, X <= T, T < X + WinSize, r.buf[T % WinSize] # Hole
    PROVE  r.buf[T % WinSize] \in Frame /\ r.buf[T % WinSize].a = T /\ T \in Numbers
<1> DEFINE s == r.buf[T % WinSize]
<1>1. T % WinSize \in Indices /\ X \in Int BY DivisionIs, RxBounds DEF Indices, Clean, At
<1>2. s \in Frame /\ s.a \in Numbers /\ s.a \in Int BY <1>1, HoleIs, RxBounds DEF Typed, Kept, Numbers
<1>3. X <= s.a /\ s.a < X + WinSize /\ s.a % WinSize = T % WinSize BY <1>1 DEF Clean, InWindow
<1>4. s.a - T < WinSize /\ T - s.a < WinSize BY <1>1, <1>2, <1>3, RxBounds
<1> HIDE DEF s
<1>5. s.a = T BY <1>2, <1>3, <1>4, SameSlot
<1> QED BY <1>2, <1>5 DEF s

\* The timer is set, or the todo, for what is in the slot; nothing else changes.
LEMMA TimerIs ==
    ASSUME NEW r, Typed(r), NEW sn \in Nat, Slot(sn) \in Indices, NEW q, q = skw_set_reorder_timer(r, sn)
    PROVE  /\ Typed(q) /\ Aside(q) = Aside(r) /\ q.skew = r.skew /\ q.go = r.go /\ q.buf = r.buf /\ q.stored = r.stored
           /\ q.win = r.win /\ q.rel = r.rel /\ q.last = r.last /\ q.old = r.old
           /\ r.buf[Slot(sn)] # Hole => Pending(q)
           /\ q.timer \in {r.timer, sn} /\ q.todo \in {r.todo, sn} /\ (Pending(r) => Pending(q))
           /\ r.buf[Slot(sn)] = Hole => q = r
<1>0. sn # No BY DEF No
<1>1. CASE q = r /\ (r.timer # No \/ r.buf[Slot(sn)] = Hole \/ r.todo # No) BY <1>1 DEF Pending
<1>2. CASE q = [r EXCEPT !.timer = sn] /\ r.buf[Slot(sn)] # Hole
  BY <1>0, <1>2 DEF Typed, RxFields, Aside, Pending
<1>3. CASE q = [r EXCEPT !.todo = sn] /\ r.buf[Slot(sn)] # Hole
  BY <1>0, <1>3 DEF Typed, RxFields, Aside, Pending
<1> QED BY <1>1, <1>2, <1>3 DEF skw_set_reorder_timer

\* A step of skw_reorder_release at the number T, the window being at Y.
Reached(q, Y, T) == Y <= T /\ T < Y + WinSize /\ (q.go = "rel" => Y = T \/ q.stored = 0)
Walked(q, Y, T, p, Z) ==
    /\ At(p.win, Z) /\ Y <= Z /\ Z <= T + 1 /\ (p.go = "rel" => Z = T + 1 \/ p.stored = 0)
    /\ Clean(q, Y) => Clean(p, Z) /\ (Z = Y \/ Z <= LastFrame + 1) /\ (Timed(q) => Timed(p))
    /\ p.go # "stop" => p.buf[T % WinSize] = Hole
\* What it keeps as long as no tainted A-MSDU disturbs the count.
Stepped(q, p) ==
    /\ Typed(p) /\ Aside(p) = Aside(q) /\ (q.skew => p.skew)
    /\ \A i \in Indices : p.buf[i] \in {q.buf[i], Hole}
    /\ (~p.skew /\ Tallied(q) => Tallied(p)) /\ (Covered(q) => Covered(p))
    /\ ~p.skew /\ p.go = "stop" => q.go = "stop" \/ p.stored = 0 \/ Pending(p)

\* What changes nothing but the timer, the todo and how the walk goes on.
LEMMA GoesOn ==
    ASSUME NEW q, Typed(q), NEW p, Typed(p), Aside(p) = Aside(q), p.skew = q.skew, p.buf = q.buf, p.stored = q.stored,
           p.win = q.win, p.rel = q.rel, p.last = q.last
    PROVE  (Tallied(q) <=> Tallied(p)) /\ (Covered(q) <=> Covered(p)) /\ \A X : Clean(q, X) <=> Clean(p, X)
<1>1. (Tallied(q) <=> Tallied(p)) /\ (Covered(q) <=> Covered(p)) BY DEF Tallied, Covered, NonHoles
<1> QED BY <1>1 DEF Clean, InWindow, InOrder

\* The head of the window, when the walk has reached it without a gap.
LEMMA HeadStep ==
    ASSUME NEW q, Typed(q), NEW sn \in Nat, q.go = "rel", q.stored # 0, q.buf[Slot(sn)] # Hole, Slot(sn) \in Indices,
           NEW p, p = ReleaseHead(q, Slot(sn), sn)
    PROVE  /\ Stepped(q, p)
           /\ \A Y, T : ~p.skew /\ Tallied(q) /\ At(q.win, Y) /\ At(sn, T) /\ Reached(q, Y, T) => \E Z \in Int : Walked(q, Y, T, p, Z)
<1> DEFINE i == Slot(sn)
           r == IF q.timer = q.win THEN [q EXCEPT !.timer = No] ELSE q
           s == r.buf[i]
<1>1. /\ Typed(r) /\ Aside(r) = Aside(q) /\ r.skew = q.skew /\ r.buf = q.buf /\ r.stored = q.stored /\ r.go = q.go
      /\ r.win = q.win /\ r.rel = q.rel /\ r.last = q.last /\ r.timer \in {q.timer, No} /\ r.todo = q.todo /\ r.old = q.old
  <2>1. r = q \/ r = [q EXCEPT !.timer = No] OBVIOUS
  <2> HIDE DEF r
  <2>2. CASE r = q BY <2>2
  <2>3. CASE r = [q EXCEPT !.timer = No] BY <2>3 DEF Typed, RxFields, Aside, No
  <2> QED BY <2>1, <2>2, <2>3
<1> DEFINE tainted == [Emptied(r, i) EXCEPT !.go = "gap", !.skew = TRUE]
           popped == [Emptied(r, i) EXCEPT !.rel = Append(r.rel, s), !.win = ieee80211_sn_inc(r.win), !.stored = r.stored - 1]
           waits == skw_set_reorder_timer(r, sn)
<1>2. \/ p = tainted
      \/ p = popped
      \/ p = [waits EXCEPT !.go = "stop"]
  <2>1. /\ [Emptied(r, i) EXCEPT !.rel = Append(@, s), !.win = ieee80211_sn_inc(@), !.stored = @ - 1] = popped
    BY DEF Emptied, Typed, RxFields
  <2> QED BY <2>1 DEF ReleaseHead
<1>3. i \in Indices /\ s = q.buf[i] /\ s # Hole BY <1>1
<1> HIDE DEF r
<1>4. CASE p = tainted
  <2>1. /\ DOMAIN p = DOMAIN r /\ p.skew /\ p.skew \in BOOLEAN /\ p.buf = [r.buf EXCEPT ![i] = Hole] /\ p.old = r.old \ {i} /\ Aside(p) = Aside(r)
        /\ p.rel = r.rel /\ p.win = r.win /\ p.stored = r.stored /\ p.timer = r.timer /\ p.todo = r.todo
    BY <1>1, <1>4 DEF Emptied, Typed, RxFields, Aside
  <2>2. Covered(q) => Covered(p)
    <3>1. p.buf = [q.buf EXCEPT ![i] = Hole] /\ q.buf[i] # Hole BY <1>1, <1>3, <2>1
    <3>2. Cardinality(NonHoles(p)) = Cardinality(NonHoles(q)) - 1 BY <1>3, <3>1, CountEmptied
    <3> QED BY <1>1, <2>1, <3>2, CountTyped DEF Covered, Typed
  <2> QED BY <1>1, <1>3, <2>1, <2>2 DEF Stepped, Typed, Aside
<1>5. CASE p = popped
  <2>1. /\ DOMAIN p = DOMAIN r /\ p.skew = r.skew /\ p.buf = [r.buf EXCEPT ![i] = Hole] /\ p.old = r.old \ {i} /\ Aside(p) = Aside(r)
        /\ p.rel = Append(r.rel, s) /\ p.win = ieee80211_sn_inc(r.win) /\ p.stored = r.stored - 1 /\ p.timer = r.timer
        /\ p.todo = r.todo /\ p.go = r.go /\ p.last = r.last
    BY <1>1, <1>5 DEF Emptied, Typed, RxFields, Aside
  <2>2. At(ieee80211_sn_inc(r.win), r.win + 1) BY <1>1, AtInc DEF At, Typed
  <2>3. p.win \in Nat /\ p.stored \in Nat /\ p.rel \in Seq(Frame) /\ s \in Frame
    <3>1. s \in Frame BY <1>3, HoleIs DEF Typed
    <3>2. r.rel \in Seq(Frame) /\ r.stored \in Nat /\ r.stored # 0 BY <1>1 DEF Typed
    <3>3. p.win \in Nat BY <2>1, <2>2 DEF At
    <3> QED BY <2>1, <3>1, <3>2, <3>3
  <2>4. Typed(p) BY <1>1, <1>3, <2>1, <2>3 DEF Typed, Aside
  <2>5. (Tallied(q) => Tallied(p)) /\ (Covered(q) => Covered(p))
    <3>1. Cardinality(NonHoles(p)) = Cardinality(NonHoles(q)) - 1
      <4>1. p.buf = [q.buf EXCEPT ![i] = Hole] /\ q.buf[i] # Hole BY <1>1, <1>3, <2>1
      <4> QED BY <1>3, <4>1, CountEmptied
    <3> QED BY <1>1, <2>1, <3>1, CountTyped DEF Tallied, Covered, Typed
  <2>6. \A k \in Indices : p.buf[k] \in {q.buf[k], Hole} BY <1>1, <1>3, <2>1 DEF Typed
  <2>7. ASSUME NEW Y, NEW T, ~p.skew, Tallied(q), At(q.win, Y), At(sn, T), Reached(q, Y, T) PROVE Walked(q, Y, T, p, Y + 1)
    <3>1. Y = T /\ Y \in Int /\ T \in Int /\ i = T % WinSize BY <2>7, AtSlot DEF Reached, At
    <3>2. At(p.win, Y + 1) BY <1>1, <2>1, <2>7, AtInc
    <3>3. ASSUME Clean(q, Y) PROVE Clean(p, Y + 1) /\ Y + 1 <= LastFrame + 1
      <4>1. s.a = Y /\ Y \in Numbers BY <1>3, <3>1, <3>3, ReleaseHeadIs, RxBounds
      <4>2. p.rel = Append(q.rel, s) /\ p.last = q.last /\ p.buf = [q.buf EXCEPT ![Y % WinSize] = Hole]
        BY <1>1, <2>1, <3>1
      <4>3. Clean(p, Y + 1) BY <2>3, <2>5, <2>7, <3>2, <3>3, <4>1, <4>2, PopIs
      <4> QED BY <4>1, <4>3, RxBounds DEF Numbers
    <3>4. Timed(q) => Timed(p) BY <1>1, <2>1 DEF Timed, OfFrame
    <3>5. p.buf[T % WinSize] = Hole BY <1>1, <1>3, <2>1, <3>1 DEF Typed
    <3> QED BY <3>1, <3>2, <3>3, <3>4, <3>5 DEF Walked
  <2>8. \A Y, T : At(q.win, Y) => Y + 1 \in Int BY DEF At
  <2> QED BY <1>1, <2>1, <2>4, <2>5, <2>6, <2>7, <2>8 DEF Stepped
<1>6. CASE p = [waits EXCEPT !.go = "stop"]
  <2> DEFINE w == waits
  <2>1. /\ Typed(w) /\ Aside(w) = Aside(r) /\ w.skew = r.skew /\ w.buf = r.buf /\ w.stored = r.stored /\ w.last = r.last
        /\ w.win = r.win /\ w.rel = r.rel /\ w.timer \in {r.timer, sn} /\ w.todo \in {r.todo, sn} /\ Pending(w)
    BY <1>1, <1>3, TimerIs
  <2> HIDE DEF w
  <2>2. /\ Typed(p) /\ Aside(p) = Aside(q) /\ p.skew = q.skew /\ p.buf = q.buf /\ p.stored = q.stored /\ p.last = q.last
        /\ p.win = q.win /\ p.rel = q.rel /\ p.timer \in {r.timer, sn} /\ p.todo \in {r.todo, sn} /\ p.go = "stop" /\ Pending(p)
    BY <1>1, <1>6, <2>1 DEF w, Typed, RxFields, Aside, Pending
  <2>3. (Tallied(q) <=> Tallied(p)) /\ (Covered(q) <=> Covered(p)) /\ \A X : Clean(q, X) <=> Clean(p, X)
    BY <2>2, GoesOn
  <2>4. ASSUME NEW Y, NEW T, ~p.skew, Tallied(q), At(q.win, Y), At(sn, T), Reached(q, Y, T) PROVE Walked(q, Y, T, p, Y)
    <3>1. Y = T /\ Y \in Int /\ T \in Int /\ i = T % WinSize BY <2>4, AtSlot DEF Reached, At
    <3>2. ASSUME Clean(q, Y), Timed(q) PROVE Timed(p)
      <4>1. T \in Numbers BY <1>3, <3>1, <3>2, ReleaseHeadIs, RxBounds
      <4>2. OfFrame(sn) BY <2>4, <4>1 DEF OfFrame
      <4> QED BY <1>1, <2>2, <3>2, <4>2 DEF Timed, OfFrame
    <3> QED BY <2>2, <2>3, <2>4, <3>1, <3>2 DEF Walked
  <2>5. \A Y : At(q.win, Y) => Y \in Int BY DEF At
  <2> QED BY <2>2, <2>3, <2>4, <2>5 DEF Stepped
<1> QED BY <1>2, <1>4, <1>5, <1>6

\* One step of skw_reorder_release.
LEMMA ReleaseStepIs ==
    ASSUME NEW q, Typed(q), NEW sn \in Nat, NEW p, p = ReleaseStep(q, sn)
    PROVE  /\ Stepped(q, p)
           /\ \A Y, T : ~p.skew /\ Tallied(q) /\ At(q.win, Y) /\ At(sn, T) /\ Reached(q, Y, T) => \E Z \in Int : Walked(q, Y, T, p, Z)
<1> DEFINE i == Slot(sn)
<1>0. i \in Indices /\ At(sn, sn) BY AtSlot DEF At, Indices
<1>1. CASE \/ q.go = "stop" /\ p = q
           \/ q.go # "stop" /\ q.stored = 0 /\ p = [q EXCEPT !.timer = No, !.go = "stop"]
           \/ q.go # "stop" /\ q.buf[i] = Hole /\ q.timer # No /\ p = [q EXCEPT !.go = "stop"]
           \/ q.go # "stop" /\ q.buf[i] = Hole /\ p = [q EXCEPT !.go = "gap"]
  <2> DEFINE Same == /\ Typed(p) /\ Aside(p) = Aside(q) /\ p.skew = q.skew /\ p.buf = q.buf /\ p.stored = q.stored
                     /\ p.last = q.last /\ p.win = q.win /\ p.rel = q.rel /\ p.timer \in {q.timer, No} /\ p.todo = q.todo
             Ends == /\ p.go = "stop" => q.go = "stop" \/ p.stored = 0 \/ Pending(p)
                     /\ p.go # "stop" => p.buf[i] = Hole /\ p.go # "rel"
  <2>a. ASSUME q.go = "stop" /\ p = q PROVE Same /\ Ends BY <2>a
  <2>b. ASSUME q.go # "stop" /\ q.stored = 0 /\ p = [q EXCEPT !.timer = No, !.go = "stop"] PROVE Same /\ Ends
    BY <2>b DEF Typed, RxFields, Aside, No
  <2>c. ASSUME q.go # "stop" /\ q.buf[i] = Hole /\ q.timer # No /\ p = [q EXCEPT !.go = "stop"] PROVE Same /\ Ends
    BY <2>c DEF Typed, RxFields, Aside, Pending
  <2>d. ASSUME q.go # "stop" /\ q.buf[i] = Hole /\ p = [q EXCEPT !.go = "gap"] PROVE Same /\ Ends
    BY <2>d DEF Typed, RxFields, Aside
  <2>1. Same BY <1>1, <2>a, <2>b, <2>c, <2>d
  <2>2. Ends BY <1>1, <2>a, <2>b, <2>c, <2>d
  <2>3. (Tallied(q) <=> Tallied(p)) /\ (Covered(q) <=> Covered(p)) /\ \A X : Clean(q, X) <=> Clean(p, X)
    BY <2>1, GoesOn
  <2>4. ASSUME NEW Y, NEW T, At(q.win, Y), At(sn, T), Reached(q, Y, T) PROVE Walked(q, Y, T, p, Y)
    <3>1. Y \in Int /\ T \in Int /\ i = T % WinSize /\ Y <= T BY <2>4, AtSlot DEF Reached, At
    <3>2. Timed(q) => Timed(p) BY <2>1 DEF Timed, OfFrame
    <3>3. p.go # "stop" => p.buf[T % WinSize] = Hole /\ p.go # "rel" BY <2>2, <3>1
    <3>4. p.go = "rel" => p.go # "stop" OBVIOUS
    <3> QED BY <2>1, <2>3, <2>4, <3>1, <3>2, <3>3, <3>4 DEF Walked
  <2>5. \A Y : At(q.win, Y) => Y \in Int BY DEF At
  <2> QED BY <2>1, <2>2, <2>3, <2>4, <2>5 DEF Stepped
<1>2. CASE q.go # "stop" /\ q.stored # 0 /\ q.buf[i] # Hole /\ q.go = "rel" /\ p = ReleaseHead(q, i, sn)
  BY <1>0, <1>2, HeadStep
<1>3. CASE q.go # "stop" /\ q.stored # 0 /\ q.buf[i] # Hole /\ q.go # "rel" /\ p = [skw_reorder_force_release(q, sn) EXCEPT !.go = "rel"]
  <2> DEFINE f == skw_reorder_force_release(q, sn)
  <2>1. /\ Forced(q, f) /\ f.timer \in {q.timer, No}
        /\ \A X, T : At(q.win, X) /\ At(sn, T) /\ Near(X, T) => \E V \in Int : Moved(q, X, T, f, V)
    BY ForceIs
  <2>2. p = [f EXCEPT !.go = "rel"] BY <1>3
  <2> HIDE DEF f
  <2>3. /\ Typed(p) /\ Aside(p) = Aside(f) /\ p.skew = f.skew /\ p.buf = f.buf /\ p.stored = f.stored /\ p.last = f.last
        /\ p.win = f.win /\ p.rel = f.rel /\ p.timer = f.timer /\ p.todo = f.todo /\ p.go = "rel"
    BY <2>1, <2>2 DEF Forced, Typed, RxFields, Aside
  <2>4. (Tallied(f) <=> Tallied(p)) /\ (Covered(f) <=> Covered(p)) /\ \A X : Clean(f, X) <=> Clean(p, X)
    BY <2>1, <2>3, GoesOn DEF Forced
  <2>5. ASSUME NEW Y, NEW T, ~p.skew, Tallied(q), At(q.win, Y), At(sn, T), Reached(q, Y, T) PROVE \E Z \in Int : Walked(q, Y, T, p, Z)
    <3>1. Y \in Int /\ T \in Int /\ i = T % WinSize /\ Y <= T /\ T < Y + WinSize /\ i \in Indices
      BY <1>0, <2>5, AtSlot DEF Reached, At
    <3>2. Near(Y, T) BY <3>1, RxBounds DEF Near
    <3>3. PICK V \in Int : Moved(q, Y, T, f, V) BY <2>1, <2>5, <3>2
    <3>4. \/ V = T + 1 /\ f.buf[T % WinSize] = Hole
          \/ V = T /\ f.stored = 0
      BY <3>1, <3>3 DEF Moved
    <3>5. f.buf[T % WinSize] = Hole
      <4>1. CASE f.stored = 0 BY <2>1, <2>5, <3>1, <4>1, CountNone DEF Forced
      <4> QED BY <3>4, <4>1
    <3>6. Clean(q, Y) => T \in Numbers BY <1>3, <3>1, ReleaseHeadIs
    <3>7. Timed(q) => Timed(p) BY <2>1, <2>3 DEF Timed, OfFrame, Forced
    <3>8. At(p.win, V) /\ (Clean(q, Y) => Clean(p, V)) BY <2>3, <2>4, <3>3 DEF Moved
    <3>9. Walked(q, Y, T, p, V)
      BY <2>3, <3>1, <3>4, <3>5, <3>6, <3>7, <3>8, RxBounds DEF Walked, Numbers
    <3> QED BY <3>9
  <2>6. Stepped(q, p) BY <2>1, <2>3, <2>4 DEF Stepped, Forced
  <2> QED BY <2>5, <2>6
<1>4. CASE q.go # "stop" /\ q.stored # 0 /\ q.buf[i] # Hole /\ q.go # "rel" /\ p = [skw_set_reorder_timer(q, sn) EXCEPT !.go = "stop"]
  <2> DEFINE w == skw_set_reorder_timer(q, sn)
  <2>1. /\ Typed(w) /\ Aside(w) = Aside(q) /\ w.skew = q.skew /\ w.buf = q.buf /\ w.stored = q.stored /\ w.last = q.last
        /\ w.win = q.win /\ w.rel = q.rel /\ w.timer \in {q.timer, sn} /\ w.todo \in {q.todo, sn} /\ Pending(w)
    BY <1>0, <1>4, TimerIs
  <2>2. p = [w EXCEPT !.go = "stop"] BY <1>4
  <2> HIDE DEF w
  <2>3. /\ Typed(p) /\ Aside(p) = Aside(q) /\ p.skew = q.skew /\ p.buf = q.buf /\ p.stored = q.stored /\ p.last = q.last
        /\ p.win = q.win /\ p.rel = q.rel /\ p.timer \in {q.timer, sn} /\ p.todo \in {q.todo, sn} /\ p.go = "stop" /\ Pending(p)
    BY <2>1, <2>2 DEF Typed, RxFields, Aside, Pending
  <2>4. (Tallied(q) <=> Tallied(p)) /\ (Covered(q) <=> Covered(p)) /\ \A X : Clean(q, X) <=> Clean(p, X)
    BY <2>3, GoesOn
  <2>5. ASSUME NEW Y, NEW T, ~p.skew, Tallied(q), At(q.win, Y), At(sn, T), Reached(q, Y, T) PROVE Walked(q, Y, T, p, Y)
    <3>1. Y \in Int /\ T \in Int /\ i = T % WinSize /\ Y <= T /\ T < Y + WinSize
      BY <2>5, AtSlot DEF Reached, At
    <3>2. ASSUME Clean(q, Y), Timed(q) PROVE Timed(p)
      <4>1. T \in Numbers BY <1>4, <3>1, <3>2, ReleaseHeadIs
      <4>2. OfFrame(sn) BY <2>5, <4>1 DEF OfFrame
      <4> QED BY <2>3, <3>2, <4>2 DEF Timed, OfFrame
    <3> QED BY <2>3, <2>4, <2>5, <3>1, <3>2 DEF Walked
  <2>6. \A Y : At(q.win, Y) => Y \in Int BY DEF At
  <2> QED BY <2>3, <2>4, <2>5, <2>6 DEF Stepped
<1> QED
  <2>1. CASE q.go = "stop" BY <1>1, <2>1 DEF ReleaseStep
  <2>2. CASE q.go # "stop" /\ q.stored = 0 BY <1>1, <2>2 DEF ReleaseStep
  <2>3. CASE q.go # "stop" /\ q.stored # 0 /\ q.buf[i] = Hole BY <1>1, <2>3 DEF ReleaseStep
  <2>4. CASE q.go # "stop" /\ q.stored # 0 /\ q.buf[i] # Hole /\ q.go = "rel"
    BY <1>2, <2>4 DEF ReleaseStep
  <2>5. CASE q.go # "stop" /\ q.stored # 0 /\ q.buf[i] # Hole /\ q.go # "rel"
    BY <1>3, <1>4, <2>5 DEF ReleaseStep
  <2> QED BY <2>1, <2>2, <2>3, <2>4, <2>5

\* The steps of skw_reorder_release, one after the other.
ReleaseWalks(g, s, sn, n) == g = [k \in 0..n |-> IF k = 0 THEN s ELSE ReleaseStep(g[k - 1], sn + k - 1)]
\* They give one record.
LEMMA ReleaseWalk ==
    ASSUME NEW s, NEW sn, NEW n \in Nat
    PROVE  \E g : ReleaseWalks(g, s, sn, n)
<1> DEFINE Walks(g, m) == g = [k \in 0..m |-> IF k = 0 THEN s ELSE ReleaseStep(g[k - 1], sn + k - 1)]
           S == {m \in Nat : \E g : Walks(g, m)}
<1>1. 0 \in S
  <2> DEFINE g == [k \in 0..0 |-> s]
  <2>1. Walks(g, 0) OBVIOUS
  <2> QED BY <2>1
<1>2. ASSUME NEW m \in 0..(n - 1), m \in S PROVE m + 1 \in S
  <2>1. PICK g : Walks(g, m) BY <1>2
  <2> DEFINE h == [k \in 0..(m + 1) |-> IF k = 0 THEN s ELSE ReleaseStep(g[k - 1], sn + k - 1)]
  <2>2. \A k \in 0..m : h[k] = g[k] BY <2>1
  <2>3. \A k \in 0..(m + 1) : (IF k = 0 THEN s ELSE ReleaseStep(g[k - 1], sn + k - 1))
                            = (IF k = 0 THEN s ELSE ReleaseStep(h[k - 1], sn + k - 1))
    <3> HIDE DEF h
    <3> QED BY <2>2
  <2>4. Walks(h, m + 1) BY <2>3
  <2>5. m + 1 \in Nat OBVIOUS
  <2> HIDE DEF Walks, h
  <2> QED BY <2>4, <2>5
<1>3. n \in S
  <2> HIDE DEF S
  <2> QED BY <1>1, <1>2, Climb
<1>4. PICK g : Walks(g, n) BY <1>3
<1> QED BY <1>4 DEF ReleaseWalks

\* What skw_reorder_release keeps.
Freed(r, f) ==
    /\ Typed(f) /\ Aside(f) = Aside(r) /\ (r.skew => f.skew)
    /\ \A i \in Indices : f.buf[i] \in {r.buf[i], Hole}
    /\ (~f.skew /\ Tallied(r) => Tallied(f)) /\ (Covered(r) => Covered(f))

\* skw_reorder_release leaves nothing behind without a timer or a todo.
LEMMA ReleaseIs ==
    ASSUME NEW r, Typed(r), NEW f, f = skw_reorder_release(r)
    PROVE  /\ Freed(r, f) /\ f.go = (IF r.live THEN "stop" ELSE r.go)
           /\ r.live /\ ~f.skew /\ Tallied(r) => f.stored = 0 \/ Pending(f)
           /\ \A X : ~f.skew /\ Clean(r, X) /\ X <= LastFrame + 1 =>
                  \E V \in Int : X <= V /\ V <= LastFrame + 1 /\ Clean(f, V) /\ (Timed(r) => Timed(f))
<1>1. CASE ~r.live
  <2>1. f = r BY <1>1 DEF skw_reorder_release
  <2> QED BY <1>1, <2>1 DEF Freed, Clean, At, Typed
<1>2. CASE r.live
  <2> DEFINE s == [r EXCEPT !.go = "rel"]
             g == CHOOSE h : h = [k \in 0..WinSize |-> IF k = 0 THEN s ELSE ReleaseStep(h[k - 1], r.win + k - 1)]
  <2>0. WinSize \in Nat /\ r.win \in Nat /\ WinSize > 0 BY RxBounds DEF Typed
  <2>1. f = [g[WinSize] EXCEPT !.go = "stop"] BY <1>2 DEF skw_reorder_release
  <2>2. /\ Typed(s) /\ Aside(s) = Aside(r) /\ s.skew = r.skew /\ s.todo = r.todo /\ s.go = "rel" /\ s.buf = r.buf
        /\ s.timer = r.timer /\ s.win = r.win /\ s.stored = r.stored /\ s.rel = r.rel /\ s.last = r.last
    BY DEF Typed, RxFields, Aside
  <2> HIDE DEF s
  <2>3. g[0] = s /\ \A k \in 0..(WinSize - 1) : g[k + 1] = ReleaseStep(g[k], r.win + k)
    <3>1. \E h : h = [k \in 0..WinSize |-> IF k = 0 THEN s ELSE ReleaseStep(h[k - 1], r.win + k - 1)]
      <4>1. \E h : ReleaseWalks(h, s, r.win, WinSize) BY <2>0, ReleaseWalk, Zenon
      <4> QED BY <4>1 DEF ReleaseWalks
    <3>2. g = [k \in 0..WinSize |-> IF k = 0 THEN s ELSE ReleaseStep(g[k - 1], r.win + k - 1)] BY <3>1
    <3> HIDE DEF g
    <3>3. \A k \in 0..WinSize : g[k] = IF k = 0 THEN s ELSE ReleaseStep(g[k - 1], r.win + k - 1)
      BY <3>2
    <3>4. ASSUME NEW k \in 0..(WinSize - 1) PROVE g[k + 1] = ReleaseStep(g[k], r.win + k)
      <4>1. k + 1 \in 0..WinSize /\ k + 1 # 0 /\ (k + 1) - 1 = k /\ r.win + (k + 1) - 1 = r.win + k
        BY <2>0
      <4> QED BY <3>3, <4>1
    <3> QED BY <2>0, <3>3, <3>4
  <2> HIDE DEF g
  <2>4. (Tallied(r) <=> Tallied(s)) /\ (Covered(r) <=> Covered(s))
    BY <2>2 DEF Tallied, Covered, NonHoles
  <2>5. \A X : Clean(r, X) <=> Clean(s, X) BY <2>2, <2>4 DEF Clean, InWindow, InOrder
  <2> DEFINE Kind(q) == Freed(s, q) /\ (~q.skew /\ q.go = "stop" => q.stored = 0 \/ Pending(q))
             Here(k, q, X, Y) ==
               /\ At(q.win, Y) /\ X <= Y /\ Y <= X + k /\ (q.go = "rel" => Y = X + k \/ q.stored = 0)
               /\ q.go # "stop" => \A j \in 0..(k - 1) : q.buf[(X + j) % WinSize] = Hole
               /\ Clean(s, X) => Clean(q, Y) /\ (Y = X \/ Y <= LastFrame + 1) /\ (Timed(s) => Timed(q))
  <2>6. ASSUME NEW k \in 0..(WinSize - 1), Kind(g[k]) PROVE Kind(g[k + 1])
    <3> DEFINE u == g[k]   v == g[k + 1]
    <3>1. Typed(u) /\ v = ReleaseStep(u, r.win + k) /\ r.win + k \in Nat /\ Kind(u)
      BY <2>0, <2>3, <2>6 DEF Freed
    <3> HIDE DEF u, v
    <3>2. Stepped(u, v) BY <3>1, ReleaseStepIs
    <3>3. u.go = "stop" => v = u BY <3>1 DEF ReleaseStep
    <3>4. Kind(v) BY <3>1, <3>2, <3>3 DEF Stepped, Freed
    <3> QED BY <3>4 DEF v
  <2>7. ASSUME NEW k \in 0..(WinSize - 1), NEW X, At(r.win, X), Kind(g[k]), ~g[k + 1].skew, Tallied(r),
               ~g[k].skew => \E Y \in Int : Here(k, g[k], X, Y)
        PROVE  \E Y \in Int : Here(k + 1, g[k + 1], X, Y)
    <3> DEFINE u == g[k]   v == g[k + 1]   sn == r.win + k   T == X + k
    <3>1. Typed(u) /\ v = ReleaseStep(u, sn) /\ sn \in Nat /\ Kind(u) BY <2>0, <2>3, <2>7 DEF Freed
    <3>2. At(sn, T) BY <2>7, AtPlus
    <3>3. X \in Int /\ T \in Int /\ T % WinSize \in Indices /\ T = X + k
      BY <2>7, RxBounds, DivisionIs DEF At, Indices
    <3>a. ~v.skew BY <2>7
    <3>b. u.skew \/ \E Y \in Int : Here(k, u, X, Y) BY <2>7
    <3> HIDE DEF u, v, sn, T
    <3>4. Stepped(u, v) BY <3>1, ReleaseStepIs
    <3>5. u.go = "stop" => v = u BY <3>1 DEF ReleaseStep
    <3>6. ~u.skew /\ ~v.skew /\ Tallied(u) BY <2>4, <2>7, <3>1, <3>4, <3>a DEF Stepped, Freed
    <3>7. PICK Y \in Int : Here(k, u, X, Y) BY <3>6, <3>b
    <3>8. CASE u.go = "stop"
      <4>1. Here(k + 1, v, X, Y) BY <3>3, <3>5, <3>7, <3>8
      <4> HIDE DEF Here
      <4> QED BY <4>1 DEF v
    <3>9. CASE u.go # "stop"
      <4>1. Reached(u, Y, T) BY <2>0, <3>3, <3>7 DEF Reached
      <4>2. At(u.win, Y) BY <3>7
      <4>3. PICK Z \in Int : Walked(u, Y, T, v, Z) BY <3>1, <3>2, <3>6, <4>1, <4>2, ReleaseStepIs
      <4>4. ASSUME v.go # "stop", NEW j \in 0..k PROVE v.buf[(X + j) % WinSize] = Hole
        <5>1. CASE j = k BY <3>3, <4>3, <4>4, <5>1 DEF Walked
        <5>2. CASE j \in 0..(k - 1)
          <6>1. X + j \in Int BY <3>3
          <6>2. (X + j) % WinSize \in Indices BY <6>1, RxBounds, DivisionIs DEF Indices
          <6>3. u.buf[(X + j) % WinSize] = Hole BY <3>7, <3>9, <5>2
          <6> QED BY <3>4, <6>2, <6>3 DEF Stepped
        <5> QED BY <5>1, <5>2
      <4>5. At(v.win, Z) /\ X <= Z /\ Z <= X + (k + 1) /\ (v.go = "rel" => Z = X + (k + 1) \/ v.stored = 0)
        BY <3>3, <3>7, <4>3 DEF Walked
      <4>6. Clean(s, X) => Clean(v, Z) /\ (Z = X \/ Z <= LastFrame + 1) /\ (Timed(s) => Timed(v))
        BY <3>7, <4>3 DEF Walked
      <4>7. (k + 1) - 1 = k OBVIOUS
      <4>8. Here(k + 1, v, X, Z) BY <4>4, <4>5, <4>6, <4>7
      <4> HIDE DEF Here
      <4> QED BY <4>8 DEF v
    <3> QED BY <3>8, <3>9
  <2>8. Kind(g[0]) BY <2>2, <2>3 DEF Freed
  <2>9. ASSUME NEW X, At(r.win, X) PROVE Here(0, g[0], X, X) /\ X \in Int BY <2>2, <2>3, <2>9 DEF At
  <2> HIDE DEF Here, Kind
  <2>10. Kind(g[WinSize])
    <3> DEFINE P == {k \in 0..WinSize : Kind(g[k])}
    <3>1. 0 \in P BY <2>0, <2>8
    <3>2. ASSUME NEW k \in 0..(WinSize - 1), k \in P PROVE k + 1 \in P BY <2>0, <2>6, <3>2
    <3> HIDE DEF P
    <3>3. WinSize \in P BY <2>0, <3>1, <3>2, Climb
    <3> QED BY <3>3 DEF P
  <2>11. ASSUME NEW X, At(r.win, X), Tallied(r), ~g[WinSize].skew PROVE \E Y \in Int : Here(WinSize, g[WinSize], X, Y)
    <3> DEFINE P == {k \in 0..WinSize : Kind(g[k]) /\ (~g[k].skew => \E Y \in Int : Here(k, g[k], X, Y))}
    <3>1. 0 \in P BY <2>0, <2>8, <2>9, <2>11
    <3>2. ASSUME NEW k \in 0..(WinSize - 1), k \in P PROVE k + 1 \in P
      BY <2>0, <2>6, <2>7, <2>11, <3>2
    <3> HIDE DEF P
    <3>3. WinSize \in P BY <2>0, <3>1, <3>2, Climb
    <3> QED BY <2>11, <3>3 DEF P
  <2> DEFINE e == g[WinSize]
  <2>12. Kind(e) /\ f = [e EXCEPT !.go = "stop"] BY <2>1, <2>10
  <2>13. \A X : At(r.win, X) /\ Tallied(r) /\ ~e.skew => \E Y \in Int : Here(WinSize, e, X, Y)
    BY <2>11
  <2> HIDE DEF e
  <2>14. Freed(s, e) BY <2>12 DEF Kind
  <2>15. /\ Typed(f) /\ Aside(f) = Aside(e) /\ f.skew = e.skew /\ f.buf = e.buf /\ f.stored = e.stored /\ f.last = e.last
         /\ f.win = e.win /\ f.rel = e.rel /\ f.timer = e.timer /\ f.todo = e.todo /\ f.go = "stop"
    BY <2>12, <2>14 DEF Freed, Typed, RxFields, Aside
  <2>16. (Tallied(e) <=> Tallied(f)) /\ (Covered(e) <=> Covered(f)) /\ \A X : Clean(e, X) <=> Clean(f, X)
    BY <2>14, <2>15, GoesOn DEF Freed
  <2>17. Freed(r, f) BY <2>2, <2>4, <2>14, <2>15, <2>16 DEF Freed
  <2>18. ASSUME ~f.skew, Tallied(r) PROVE f.stored = 0 \/ Pending(f)
    <3>1. At(r.win, r.win) /\ r.win \in Int BY <2>0 DEF At
    <3>2. PICK Y \in Int : Here(WinSize, e, r.win, Y) BY <2>13, <2>15, <2>18, <3>1
    <3>3. CASE e.go = "stop" BY <2>12, <2>15, <2>18, <3>3 DEF Kind, Pending
    <3>4. CASE e.go # "stop"
      <4>1. \A j \in 0..(WinSize - 1) : e.buf[(r.win + j) % WinSize] = Hole BY <3>2, <3>4 DEF Here
      <4>2. \A i \in Indices : e.buf[i] = Hole
        <5>1. ASSUME NEW i \in Indices PROVE e.buf[i] = Hole
          <6>1. PICK j \in 0..(WinSize - 1) : (r.win + j) % WinSize = i
            BY <3>1, SlotReached DEF Indices
          <6> QED BY <4>1, <6>1
        <5> QED BY <5>1
      <4>3. NonHoles(f) = {} BY <2>15, <4>2 DEF NonHoles
      <4> QED BY <2>17, <2>18, <4>3, CountTyped DEF Freed, Tallied
    <3> QED BY <3>3, <3>4
  <2>19. ASSUME NEW X, ~f.skew, Clean(r, X), X <= LastFrame + 1
         PROVE  \E V \in Int : X <= V /\ V <= LastFrame + 1 /\ Clean(f, V) /\ (Timed(r) => Timed(f))
    <3>1. At(r.win, X) /\ Tallied(r) BY <2>19 DEF Clean
    <3>2. PICK Y \in Int : Here(WinSize, e, X, Y) BY <2>13, <2>15, <2>19, <3>1
    <3>3. Clean(e, Y) /\ (Y = X \/ Y <= LastFrame + 1) /\ (Timed(s) => Timed(e))
      BY <2>5, <2>19, <3>2 DEF Here
    <3>4. (Timed(r) <=> Timed(s)) /\ (Timed(e) <=> Timed(f)) BY <2>2, <2>15 DEF Timed
    <3>5. X <= Y BY <3>2 DEF Here
    <3> QED BY <2>16, <2>19, <3>3, <3>4, <3>5
  <2> QED BY <1>2, <2>15, <2>17, <2>18, <2>19
<1> QED BY <1>1, <1>2

\* The frames of the release list are delivered one after the other.
DeliverWalks(g, r, n) == g = [k \in 0..n |-> IF k = 0 THEN r ELSE skw_deliver_skb(g[k - 1], r.rel[k])]
\* They give one record.
LEMMA DeliverWalk ==
    ASSUME NEW r, NEW n \in Nat
    PROVE  \E g : DeliverWalks(g, r, n)
<1> DEFINE Walks(g, m) == g = [k \in 0..m |-> IF k = 0 THEN r ELSE skw_deliver_skb(g[k - 1], r.rel[k])]
           S == {m \in Nat : \E g : Walks(g, m)}
<1>1. 0 \in S
  <2> DEFINE g == [k \in 0..0 |-> r]
  <2>1. Walks(g, 0) OBVIOUS
  <2> QED BY <2>1
<1>2. ASSUME NEW m \in 0..(n - 1), m \in S PROVE m + 1 \in S
  <2>1. PICK g : Walks(g, m) BY <1>2
  <2> DEFINE h == [k \in 0..(m + 1) |-> IF k = 0 THEN r ELSE skw_deliver_skb(g[k - 1], r.rel[k])]
  <2>2. \A k \in 0..m : h[k] = g[k] BY <2>1
  <2>3. \A k \in 0..(m + 1) : (IF k = 0 THEN r ELSE skw_deliver_skb(g[k - 1], r.rel[k]))
                            = (IF k = 0 THEN r ELSE skw_deliver_skb(h[k - 1], r.rel[k]))
    <3> HIDE DEF h
    <3> QED BY <2>2
  <2>4. Walks(h, m + 1) BY <2>3
  <2>5. m + 1 \in Nat OBVIOUS
  <2> HIDE DEF Walks, h
  <2> QED BY <2>4, <2>5
<1>3. n \in S
  <2> HIDE DEF S
  <2> QED BY <1>1, <1>2, Climb
<1>4. PICK g : Walks(g, n) BY <1>3
<1> QED BY <1>4 DEF DeliverWalks

\* What the delivery does not touch.
Besides(r) == <<r.base, r.keyed, r.slipped, r.skew, r.grave, r.n, r.go, r.drop, r.release, r.live,
                r.win, r.buf, r.stored, r.timer, r.todo, r.old>>

\* One frame is delivered.
LEMMA DeliverIs ==
    ASSUME NEW q, Typed(q), NEW s \in Frame, NEW p, p = skw_deliver_skb(q, s)
    PROVE  /\ Typed(p) /\ Besides(p) = Besides(q) /\ p.rel = q.rel /\ p.last \in {q.last, s.a}
           /\ q.keyed /\ ~q.back => ~p.back
           /\ ~q.back /\ q.last < s.a => ~p.back
<1>1. s.a \in Numbers /\ s.a \in Int /\ q.last \in Int BY ReleasedIs, RxBounds DEF Frame, Numbers
<1>2. CASE p = q BY <1>2
<1>3. CASE /\ p = [q EXCEPT !.last = s.a, !.back = @ \/ s.a < q.last \/ (s.a = q.last /\ s.a \notin Amsdus)]
           /\ skw_replay_detect(q, s)
  <2> DEFINE back == q.back \/ s.a < q.last \/ (s.a = q.last /\ s.a \notin Amsdus)
  <2>1. /\ DOMAIN p = DOMAIN q /\ Besides(p) = Besides(q) /\ p.rel = q.rel /\ p.last = s.a /\ p.back = back
    BY <1>3 DEF Besides, Typed, RxFields
  <2>2. back \in BOOLEAN BY DEF Typed
  <2>3. q.keyed /\ ~q.back => ~back BY <1>1, <1>3 DEF skw_replay_detect, skw_pn_allowed
  <2>4. ~q.back /\ q.last < s.a => ~back BY <1>1
  <2> HIDE DEF back
  <2>5. Typed(p) BY <1>1, <2>1, <2>2 DEF Typed, Besides
  <2> QED BY <2>1, <2>3, <2>4, <2>5
<1> QED BY <1>2, <1>3 DEF skw_deliver_skb

\* What is released reaches the network stack; in order, if it is in order.
LEMMA HandlerIs ==
    ASSUME NEW r, Typed(r), NEW f, f = skw_rx_handler(r)
    PROVE  /\ Typed(f) /\ Besides(f) = Besides(r) /\ f.rel = <<>>
           /\ r.keyed /\ ~r.back => ~f.back
           /\ \A X : ~r.back /\ Clean(r, X) => ~f.back /\ Clean(f, X)
<1> DEFINE N == Len(r.rel)
           g == CHOOSE h : h = [k \in 0..N |-> IF k = 0 THEN r ELSE skw_deliver_skb(h[k - 1], r.rel[k])]
<1>0. N \in Nat /\ \A k \in 1..N : r.rel[k] \in Frame /\ r.rel[k].a \in Int BY ReleasedIs
<1>1. f = [g[N] EXCEPT !.rel = <<>>] BY DEF skw_rx_handler
<1> HIDE DEF N
<1>2. g[0] = r /\ \A k \in 0..(N - 1) : g[k + 1] = skw_deliver_skb(g[k], r.rel[k + 1])
  <2>1. \E h : h = [k \in 0..N |-> IF k = 0 THEN r ELSE skw_deliver_skb(h[k - 1], r.rel[k])]
    <3>1. \E h : DeliverWalks(h, r, N) BY <1>0, DeliverWalk, Zenon
    <3> QED BY <3>1 DEF DeliverWalks
  <2>2. g = [k \in 0..N |-> IF k = 0 THEN r ELSE skw_deliver_skb(g[k - 1], r.rel[k])] BY <2>1
  <2> HIDE DEF g
  <2>3. \A k \in 0..N : g[k] = IF k = 0 THEN r ELSE skw_deliver_skb(g[k - 1], r.rel[k]) BY <2>2
  <2>4. ASSUME NEW k \in 0..(N - 1) PROVE g[k + 1] = skw_deliver_skb(g[k], r.rel[k + 1])
    <3>1. k + 1 \in 0..N /\ k + 1 # 0 /\ (k + 1) - 1 = k BY <1>0
    <3> QED BY <2>3, <3>1
  <2> QED BY <1>0, <2>3, <2>4
<1> HIDE DEF g
<1> DEFINE Kind(q) == Typed(q) /\ Besides(q) = Besides(r) /\ q.rel = r.rel /\ (r.keyed /\ ~r.back => ~q.back)
           Ahead(k, q, X) == ~q.back /\ q.last < X /\ \A j \in (k + 1)..N : q.last < r.rel[j].a
<1>3. ASSUME NEW k \in 0..(N - 1), Kind(g[k]) PROVE Kind(g[k + 1]) /\ g[k + 1].last \in {g[k].last, r.rel[k + 1].a}
                                                    /\ (~g[k].back /\ g[k].last < r.rel[k + 1].a => ~g[k + 1].back)
  <2> DEFINE u == g[k]   v == g[k + 1]   s == r.rel[k + 1]
  <2>1. Kind(u) /\ v = skw_deliver_skb(u, s) /\ s \in Frame BY <1>0, <1>2, <1>3
  <2> HIDE DEF u, v, s
  <2>2. Typed(v) /\ v.rel = u.rel /\ v.last \in {u.last, s.a} /\ (~u.back /\ u.last < s.a => ~v.back)
    BY <2>1, DeliverIs
  <2>3. u.keyed /\ ~u.back => ~v.back BY <2>1, DeliverIs
  <2>4. Besides(v) = Besides(u) BY <2>1, DeliverIs
  <2>5. u.keyed = r.keyed BY <2>1 DEF Besides
  <2> QED BY <2>1, <2>2, <2>3, <2>4, <2>5 DEF u, v, s
<1>4. Kind(g[N])
  <2> DEFINE P == {k \in 0..N : Kind(g[k])}
  <2>1. 0 \in P BY <1>0, <1>2
  <2>2. ASSUME NEW k \in 0..(N - 1), k \in P PROVE k + 1 \in P
    <3>1. k + 1 \in 0..N BY <1>0
    <3> QED BY <1>3, <2>2, <3>1
  <2> HIDE DEF P
  <2>3. N \in P BY <1>0, <2>1, <2>2, Climb
  <2> QED BY <2>3 DEF P
<1>5. ASSUME NEW X, ~r.back, Clean(r, X) PROVE Ahead(N, g[N], X)
  <2> DEFINE P == {k \in 0..N : Kind(g[k]) /\ Ahead(k, g[k], X)}
  <2>0. /\ \A k \in 1..N : r.last < r.rel[k].a /\ r.rel[k].a < X /\ \A j \in 1..(k - 1) : r.rel[j].a < r.rel[k].a
        /\ r.last < X
    BY <1>5 DEF Clean, InOrder, N
  <2>1. 0 \in P BY <1>0, <1>2, <1>5, <2>0
  <2>2. ASSUME NEW k \in 0..(N - 1), k \in P PROVE k + 1 \in P
    <3>1. k + 1 \in 0..N /\ k + 1 \in 1..N BY <1>0
    <3>2. /\ Kind(g[k + 1]) /\ g[k + 1].last \in {g[k].last, r.rel[k + 1].a}
          /\ (~g[k].back /\ g[k].last < r.rel[k + 1].a => ~g[k + 1].back)
      BY <1>3, <2>2
    <3>3. ~g[k].back /\ g[k].last < X /\ \A j \in (k + 1)..N : g[k].last < r.rel[j].a BY <2>2
    <3>4. ~g[k + 1].back /\ g[k + 1].last < X BY <1>0, <2>0, <3>1, <3>2, <3>3
    <3>5. ASSUME NEW j \in ((k + 1) + 1)..N PROVE g[k + 1].last < r.rel[j].a
      <4>1. j \in (k + 1)..N /\ j \in 1..N /\ k + 1 \in 1..(j - 1) BY <1>0
      <4>2. r.rel[k + 1].a < r.rel[j].a BY <2>0, <4>1
      <4> QED BY <3>2, <3>3, <4>1, <4>2
    <3> QED BY <3>1, <3>2, <3>4, <3>5
  <2> HIDE DEF P
  <2>3. N \in P BY <1>0, <2>1, <2>2, Climb
  <2> QED BY <2>3 DEF P
<1> DEFINE e == g[N]
<1>6. f = [e EXCEPT !.rel = <<>>] /\ Kind(e) /\ \A X : ~r.back /\ Clean(r, X) => ~e.back /\ e.last < X
  BY <1>1, <1>4, <1>5
<1> HIDE DEF e
<1>7. Typed(f) /\ Besides(f) = Besides(e) /\ f.rel = <<>> /\ f.back = e.back /\ f.last = e.last
  BY <1>6 DEF Typed, RxFields, Besides
<1>8. ASSUME NEW X, ~r.back, Clean(r, X) PROVE ~f.back /\ Clean(f, X)
  <2>1. ~f.back /\ f.last < X /\ f.rel = <<>> BY <1>6, <1>7, <1>8
  <2>2. f.win = r.win /\ f.buf = r.buf /\ f.stored = r.stored BY <1>6, <1>7 DEF Besides
  <2>3. Tallied(f) /\ InWindow(f, X) /\ At(f.win, X)
    BY <1>8, <2>2 DEF Clean, Tallied, NonHoles, InWindow
  <2>4. InOrder(f, X) BY <2>1 DEF InOrder
  <2> QED BY <2>1, <2>3, <2>4 DEF Clean
<1> QED BY <1>6, <1>7, <1>8

-----------------------------------------------------------------------------
\* The sender's numbers and the window fit into half of the space.
Narrow == LastFrame - FirstFrame <= SnSpace \div 2 - WinSize
Starts == FirstFrame..(LastFrame + 1)
Apart(r) == <<r.base, r.keyed, r.last, r.back, r.grave, r.n, r.live>>

\* A frame's number, its sequence number, its slot.
LEMMA FrameIs ==
    ASSUME NEW a \in Numbers
    PROVE  /\ a \in Nat /\ Sn(a) \in Nat /\ At(Sn(a), a) /\ Slot(Sn(a)) = a % WinSize /\ Slot(Sn(a)) \in Indices
           /\ OfFrame(Sn(a)) /\ Sn(a) # No
<1>1. a \in Nat BY RxBounds DEF Numbers
<1>2. At(Sn(a), a) BY <1>1, AtSn
<1> QED BY <1>1, <1>2, AtSlot DEF At, Indices, OfFrame, No

\* A frame beyond the window takes it along, and lies in it unless it has slipped.
LEMMA OutOfWindowIs ==
    ASSUME NEW r, Typed(r), NEW a \in Numbers, NEW q, q = OutOfWindow(r, a)
    PROVE  /\ Typed(q) /\ Apart(q) = Apart(r) /\ q.skew = r.skew /\ q.todo = r.todo /\ q.go = r.go /\ q.timer \in {r.timer, No}
           /\ q.drop = r.drop /\ (r.slipped => q.slipped) /\ (q.release \/ q = r)
           /\ (Tallied(r) => Tallied(q)) /\ (Covered(r) => Covered(q))
           /\ \A X \in Starts : Narrow /\ ~q.slipped /\ Clean(r, X) /\ ~ieee80211_sn_less(Sn(a), r.win) =>
                  \E V \in Starts : Clean(q, V) /\ V <= a /\ a < V + WinSize
<1> DEFINE less == ieee80211_sn_less(Sn(a), r.win + WinSize)
           to == (Sn(a) - WinSize) % SnSpace
           f == skw_reorder_force_release(r, to)
           T == a - WinSize
<1>1. /\ At(Sn(a), a) /\ a \in Int /\ At(to, T) /\ to \in Nat /\ T = a - WinSize /\ T \in Int
  <2>1. a \in Int /\ At(Sn(a), a) /\ WinSize \in Nat BY FrameIs, RxBounds
  <2>2. At(to, T) BY <2>1, AtMinus
  <2> QED BY <2>1, <2>2 DEF At
<1> HIDE DEF T, less, to, f
<1>2. ASSUME NEW X \in Starts, Narrow, Clean(r, X), ~ieee80211_sn_less(Sn(a), r.win)
      PROVE  /\ X \in Int /\ X <= a /\ (less => a < X + WinSize) /\ (~less => X + WinSize <= a)
             /\ a <= LastFrame /\ X >= FirstFrame /\ a - X <= HalfSpace - WinSize
  <2>1. /\ X \in Int /\ At(r.win, X) /\ a - X <= HalfSpace - WinSize /\ X - a <= HalfSpace - WinSize + 1 /\ a <= LastFrame
        /\ X >= FirstFrame
    BY <1>1, <1>2, RxBounds DEF Starts, Numbers, Narrow, HalfSpace, Clean
  <2>2. a - X <= HalfSpace /\ X - a < HalfSpace BY <1>1, <2>1, RxBounds
  <2>3. X <= a
    <3>1. ieee80211_sn_less(Sn(a), r.win) <=> a < X BY <1>1, <2>1, <2>2, AtLess
    <3> QED BY <1>1, <1>2, <2>1, <3>1
  <2>4. At(r.win + WinSize, X + WinSize) BY <2>1, AtPlus, RxBounds
  <2>5. a - (X + WinSize) <= HalfSpace /\ (X + WinSize) - a < HalfSpace BY <1>1, <2>1, <2>3, RxBounds
  <2>6. less <=> a < X + WinSize BY <1>1, <2>4, <2>5, AtLess DEF less
  <2> QED BY <1>1, <2>1, <2>3, <2>6, RxBounds
<1>3. CASE less
  <2>1. q = r BY <1>3 DEF OutOfWindow, less
  <2> QED BY <1>2, <1>3, <2>1
<1>4. CASE ~less
  <2> DEFINE slipped == f.slipped \/ ~ieee80211_sn_less(Sn(a), f.win + WinSize)
  <2>1. q = [f EXCEPT !.release = TRUE, !.slipped = slipped] BY <1>4 DEF OutOfWindow, f, to, less
  <2>2. /\ Forced(r, f) /\ f.timer \in {r.timer, No}
        /\ \A X : At(r.win, X) /\ Near(X, T) => \E V \in Int : Moved(r, X, T, f, V)
    BY <1>1, ForceIs DEF f
  <2>3. slipped \in BOOLEAN BY <2>2 DEF Forced, Typed, ieee80211_sn_less
  <2>a. slipped => f.slipped \/ ~ieee80211_sn_less(Sn(a), f.win + WinSize) OBVIOUS
  <2>b. f.slipped => slipped OBVIOUS
  <2>c. ~slipped => ieee80211_sn_less(Sn(a), f.win + WinSize) OBVIOUS
  <2> HIDE DEF slipped
  <2>4. /\ DOMAIN q = DOMAIN f /\ q.slipped = slipped /\ q.release /\ q.release \in BOOLEAN /\ Apart(q) = Apart(f) /\ q.skew = f.skew
        /\ q.todo = f.todo /\ q.go = f.go /\ q.timer = f.timer /\ q.drop = f.drop /\ q.buf = f.buf /\ q.stored = f.stored
        /\ q.win = f.win /\ q.rel = f.rel /\ q.last = f.last /\ q.old = f.old
    BY <2>1, <2>2 DEF Forced, Typed, RxFields, Apart
  <2>5. Apart(f) = Apart(r) /\ f.slipped = r.slipped /\ f.drop = r.drop
    BY <2>2 DEF Forced, Aside, Apart
  <2>6. (Tallied(f) <=> Tallied(q)) /\ (Covered(f) <=> Covered(q))
    BY <2>4 DEF Tallied, Covered, NonHoles
  <2>7. \A X : Clean(f, X) <=> Clean(q, X) BY <2>4, <2>6 DEF Clean, InWindow, InOrder
  <2>8. ASSUME NEW X \in Starts, Narrow, ~q.slipped, Clean(r, X), ~ieee80211_sn_less(Sn(a), r.win)
        PROVE  \E V \in Starts : Clean(q, V) /\ V <= a /\ a < V + WinSize
    <3>1. X \in Int /\ X <= T /\ a <= LastFrame /\ X >= FirstFrame /\ a - X <= HalfSpace - WinSize
      BY <1>1, <1>2, <1>4, <2>8, RxBounds
    <3>2. Near(X, T) /\ At(r.win, X) BY <1>1, <2>8, <3>1, RxBounds DEF Near, Clean
    <3>3. PICK V \in Int : Moved(r, X, T, f, V) BY <2>2, <3>2
    <3>4. Clean(f, V) /\ At(f.win, V) /\ (V = T + 1 \/ V = T) BY <2>8, <3>1, <3>3 DEF Moved
    <3>5. V # T
      <4>1. CASE V = T
        <5>1. At(f.win + WinSize, V + WinSize) BY <3>4, AtPlus, RxBounds
        <5>2. a - (V + WinSize) <= HalfSpace /\ (V + WinSize) - a < HalfSpace /\ ~(a < V + WinSize)
          BY <1>1, <4>1, RxBounds
        <5>3. ~ieee80211_sn_less(Sn(a), f.win + WinSize) BY <1>1, <5>1, <5>2, AtLess
        <5> QED BY <2>4, <2>8, <2>c, <5>3
      <4> QED BY <4>1
    <3>6. V = T + 1 BY <3>4, <3>5
    <3>7. V \in Starts /\ V <= a /\ a < V + WinSize BY <1>1, <3>1, <3>6, RxBounds DEF Starts
    <3> QED BY <2>7, <3>4, <3>7
  <2>9. Typed(q)
    <3>1. Typed(f) BY <2>2 DEF Forced
    <3>2. /\ q.base = f.base /\ q.keyed = f.keyed /\ q.last = f.last /\ q.back = f.back /\ q.grave = f.grave /\ q.n = f.n
          /\ q.live = f.live
      BY <2>4 DEF Apart
    <3>3. {q.keyed, q.back, q.slipped, q.skew, q.drop, q.release, q.live} \subseteq BOOLEAN
      BY <2>3, <2>4, <3>1, <3>2 DEF Typed
    <3> QED BY <2>4, <3>1, <3>2, <3>3 DEF Typed
  <2>10. (r.slipped => q.slipped) BY <2>4, <2>5, <2>b
  <2> QED BY <2>2, <2>4, <2>5, <2>6, <2>8, <2>9, <2>10 DEF Forced
<1> QED BY <1>3, <1>4

\* A frame, or a part of one, has been taken in.
Entered(q, a, p) ==
    /\ Typed(p) /\ Apart(p) = Apart(q) /\ p.slipped = q.slipped /\ p.go = q.go /\ p.todo = q.todo /\ p.timer \in {q.timer, No}
    /\ (q.skew => p.skew) /\ (q.release => p.release)
    /\ (~p.skew /\ Tallied(q) => Tallied(p)) /\ (Covered(q) => Covered(p))
    /\ \/ p.release
       \/ /\ p.timer = q.timer /\ (p.drop /\ p.stored > 0 => q.stored > 0)
          /\ ~p.drop => p.buf[Slot(Sn(a))] # Hole
    /\ \A V \in Starts : ~p.skew /\ Clean(q, V) /\ V <= a /\ a < V + WinSize => \E Z \in Starts : Clean(p, Z)

\* The slot of a frame of the window at its head.
LEMMA AtHead ==
    ASSUME NEW q, NEW a \in Numbers, NEW V \in Starts, Clean(q, V), V <= a, a < V + WinSize, Sn(a) = q.win
    PROVE  a = V /\ V + 1 \in Starts
<1>1. V \in Int /\ a \in Int /\ V % SnSpace = a % SnSpace /\ V - a < SnSpace /\ a - V < SnSpace
  BY FrameIs, RxBounds DEF Clean, At, Starts
<1>2. a = V BY <1>1, RxBounds, CloseSame
<1> QED BY <1>1, <1>2, RxBounds DEF Starts, Numbers

\* A frame, or a part of one, goes into its slot.
Placed(q, i, s) == [q EXCEPT !.buf[i] = s, !.stored = @ + 1]
\* The count of the filled slots grows with it.
LEMMA StoreIs ==
    ASSUME NEW q, Typed(q), NEW a \in Numbers, NEW s \in Kept, s.a = a, q.buf[Slot(Sn(a))] = Hole, ~q.drop,
           NEW p, p = Placed(q, Slot(Sn(a)), s)
    PROVE  Entered(q, a, p) /\ p.drop = q.drop /\ p.skew = q.skew
<1> DEFINE i == Slot(Sn(a))
<1>a. i \in Indices /\ i = a % WinSize /\ a \in Int /\ s \in Frame /\ s # Hole BY FrameIs, HoleIs
<1>c. q.buf[i] = Hole OBVIOUS
<1>b. p = Placed(q, i, s) /\ i = Slot(Sn(a)) OBVIOUS
<1> HIDE DEF i
<1>1. /\ DOMAIN p = DOMAIN q /\ p.buf = [q.buf EXCEPT ![i] = s] /\ p.old = q.old /\ p.rel = q.rel
      /\ p.timer = q.timer /\ p.win = q.win /\ p.release = q.release /\ p.stored = q.stored + 1
      /\ p.todo = q.todo /\ p.last = q.last /\ p.skew = q.skew /\ p.go = q.go /\ p.slipped = q.slipped /\ p.drop = q.drop
      /\ Apart(p) = Apart(q)
  BY <1>b DEF Placed, Typed, RxFields, Apart
<1>2. Typed(p) BY <1>a, <1>b DEF Placed, Typed, RxFields
<1>3. (Tallied(q) => Tallied(p)) /\ (Covered(q) => Covered(p))
  <2>1. Cardinality(NonHoles(p)) = Cardinality(NonHoles(q)) + 1
    <3>1. p.buf = [q.buf EXCEPT ![i] = s] /\ i \in Indices /\ s # Hole BY <1>a, <1>1
    <3> QED BY <1>c, <3>1, CountFilled
  <2> QED BY <1>1, <2>1, CountTyped DEF Tallied, Covered, Typed
<1>4. p.buf[i] # Hole BY <1>a, <1>1 DEF Typed
<1>5. ASSUME NEW V \in Starts, Clean(q, V), V <= a, a < V + WinSize PROVE Clean(p, V)
  <2>1. InWindow(p, V) BY <1>a, <1>1, <1>5 DEF Clean, InWindow, Typed
  <2> QED BY <1>1, <1>3, <1>5, <2>1 DEF Clean, InOrder
<1> QED BY <1>b, <1>1, <1>2, <1>3, <1>4, <1>5 DEF Entered

\* A whole frame goes to the release list or into its slot.
LEMMA CompleteIs ==
    ASSUME NEW q, Typed(q), NEW a \in Numbers, NEW s \in Kept, s.a = a, q.buf[Slot(Sn(a))] = Hole, ~q.drop,
           NEW p, p = Complete(q, a, s)
    PROVE  Entered(q, a, p) /\ p.drop = q.drop /\ p.skew = q.skew
<1> DEFINE i == Slot(Sn(a))
<1>1. i \in Indices /\ i = a % WinSize /\ a \in Int /\ s \in Frame /\ s # Hole BY FrameIs, HoleIs
<1>a. q.buf[i] = Hole OBVIOUS
<1>b. p = Complete(q, a, s) /\ i = Slot(Sn(a)) OBVIOUS
<1> HIDE DEF i
<1>2. CASE Sn(a) = q.win
  <2>1. /\ DOMAIN p = DOMAIN q /\ p.buf = [q.buf EXCEPT ![i] = Hole] /\ p.old = q.old \ {i} /\ p.rel = Append(q.rel, s)
        /\ p.timer \in {q.timer, No} /\ p.win = ieee80211_sn_inc(q.win) /\ p.release /\ p.release \in BOOLEAN /\ p.stored = q.stored
        /\ p.todo = q.todo /\ p.last = q.last /\ p.skew = q.skew /\ p.go = q.go /\ p.slipped = q.slipped /\ p.drop = q.drop
        /\ Apart(p) = Apart(q)
    BY <1>2, <1>b DEF Complete, Emptied, Typed, RxFields, Apart
  <2>2. p.win \in Nat /\ p.rel \in Seq(Frame)
    <3>1. At(q.win, q.win) /\ q.rel \in Seq(Frame) BY DEF Typed, At
    <3>2. At(p.win, q.win + 1) BY <2>1, <3>1, AtInc
    <3>3. p.rel \in Seq(Frame) BY <1>1, <2>1, <3>1
    <3> QED BY <3>2, <3>3 DEF At
  <2>3. Typed(p)
    <3>1. /\ p.base = q.base /\ p.keyed = q.keyed /\ p.last = q.last /\ p.back = q.back /\ p.grave = q.grave /\ p.n = q.n
          /\ p.live = q.live
      BY <2>1 DEF Apart
    <3>2. {p.keyed, p.back, p.slipped, p.skew, p.drop, p.release, p.live} \subseteq BOOLEAN
      BY <2>1, <3>1 DEF Typed
    <3> QED BY <1>1, <2>1, <2>2, <3>1, <3>2 DEF Typed
  <2>4. (Tallied(q) => Tallied(p)) /\ (Covered(q) => Covered(p))
    <3>1. Cardinality(NonHoles(p)) = Cardinality(NonHoles(q))
      <4>1. Cardinality(NonHoles(p)) = Cardinality(NonHoles(q)) - (IF q.buf[i] = Hole THEN 0 ELSE 1)
        <5>1. p.buf = [q.buf EXCEPT ![i] = Hole] /\ i \in Indices BY <1>1, <2>1
        <5> QED BY <5>1, CountEmptied
      <4> QED BY <1>a, <4>1, CountTyped
    <3> QED BY <2>1, <3>1 DEF Tallied, Covered
  <2>5. ASSUME NEW V \in Starts, Clean(q, V), V <= a, a < V + WinSize PROVE \E Z \in Starts : Clean(p, Z)
    <3>1. a = V /\ V + 1 \in Starts BY <1>2, <2>5, AtHead
    <3>2. At(p.win, V + 1) /\ Tallied(p) BY <2>1, <2>4, <2>5, AtInc DEF Clean
    <3>3. Clean(p, V + 1)
      <4>1. p.buf = [q.buf EXCEPT ![V % WinSize] = Hole] /\ p.last = q.last /\ s.a = V /\ p.rel = Append(q.rel, s)
        BY <1>1, <2>1, <3>1
      <4> QED BY <1>1, <2>5, <3>2, <4>1, PopIs
    <3> QED BY <3>1, <3>3
  <2> QED BY <2>1, <2>3, <2>4, <2>5 DEF Entered
<1>3. CASE Sn(a) # q.win
  <2>1. p = Placed(q, Slot(Sn(a)), s) BY <1>3, <1>b DEF Complete, Placed
  <2>2. q.buf[Slot(Sn(a))] = Hole BY <1>a, <1>b
  <2> QED BY <2>1, <2>2, StoreIs
<1> QED BY <1>2, <1>3

\* The slot of an A-MSDU is emptied when its parts are there.
Cleared(q, i, old) == [q EXCEPT !.buf[i] = Hole, !.stored = @ - 1, !.old = old]
\* The count shrinks with it; the rest stays.
LEMMA ClearedIs ==
    ASSUME NEW q, Typed(q), Covered(q), NEW i \in Indices, q.buf[i] # Hole, NEW old, old \subseteq Indices,
           NEW c, c = Cleared(q, i, old)
    PROVE  /\ DOMAIN c = DOMAIN q /\ c.buf = [q.buf EXCEPT ![i] = Hole] /\ c.stored = q.stored - 1 /\ Apart(c) = Apart(q)
           /\ c.slipped = q.slipped /\ c.skew = q.skew /\ c.go = q.go /\ c.todo = q.todo /\ c.timer = q.timer /\ c.win = q.win
           /\ c.drop = q.drop /\ c.release = q.release /\ c.rel = q.rel /\ c.last = q.last /\ q.stored > 0 /\ c.buf[i] = Hole
           /\ Typed(c) /\ Covered(c) /\ (Tallied(q) => Tallied(c)) /\ \A V : Clean(q, V) => Clean(c, V)
<1>1. /\ DOMAIN c = DOMAIN q /\ c.buf = [q.buf EXCEPT ![i] = Hole] /\ c.stored = q.stored - 1 /\ Apart(c) = Apart(q)
      /\ c.slipped = q.slipped /\ c.skew = q.skew /\ c.go = q.go /\ c.todo = q.todo /\ c.timer = q.timer /\ c.win = q.win
      /\ c.drop = q.drop /\ c.release = q.release /\ c.rel = q.rel /\ c.last = q.last
  BY DEF Cleared, Typed, RxFields, Apart
<1>2. Cardinality(NonHoles(c)) = Cardinality(NonHoles(q)) - 1
  <2>1. c.buf = [q.buf EXCEPT ![i] = Hole] BY <1>1
  <2>2. Cardinality(NonHoles(c)) = Cardinality(NonHoles(q)) - (IF q.buf[i] = Hole THEN 0 ELSE 1)
    BY <2>1, CountEmptied
  <2> QED BY <2>2
<1>3. q.stored \in Nat /\ q.stored > 0 BY <1>2, CountTyped DEF Covered, Typed
<1>4. Typed(c) BY <1>3 DEF Cleared, Typed, RxFields
<1>5. Covered(c) /\ (Tallied(q) => Tallied(c)) BY <1>1, <1>2, <1>3, CountTyped DEF Covered, Tallied
<1>6. ASSUME NEW V, Clean(q, V) PROVE Clean(c, V)
  <2>1. InWindow(c, V) BY <1>1, <1>6 DEF Clean, InWindow, Typed
  <2> QED BY <1>1, <1>5, <1>6, <2>1 DEF Clean, InOrder
<1>7. c.buf[i] = Hole BY <1>1 DEF Typed
<1> QED BY <1>1, <1>3, <1>4, <1>5, <1>6, <1>7

\* A part of an A-MSDU that is thrown away, with the other one if they do not fit.
LEMMA AmsduPartIs ==
    ASSUME NEW q, Typed(q), Covered(q), ~q.drop, NEW a \in Numbers, NEW kind \in {"first", "tfirst", "last"},
           NEW p, p = AmsduPart(q, a, kind)
    PROVE  Entered(q, a, p)
<1> DEFINE i == Slot(Sn(a))
           s == q.buf[i]
           tainted == "tfirst" \in {s.st, kind}
           t == [a |-> a, st |-> kind]
           w == [a |-> a, st |-> "whole"]
           c == Cleared(q, i, q.old \ {i})
           d == Cleared(q, i, q.old)
<1>1. i \in Indices /\ i = a % WinSize /\ a \in Int /\ q.old \subseteq Indices BY FrameIs DEF Typed
<1>2. t \in Kept /\ t.a = a /\ w \in Kept /\ w.a = a BY DEF Kept, States
<1>3. \/ s = Hole /\ p = Placed(q, i, t)
      \/ p = [q EXCEPT !.drop = TRUE]
      \/ s # Hole /\ p = [c EXCEPT !.win = ieee80211_sn_inc(@), !.drop = TRUE, !.skew = @ \/ Sn(a) # q.win]
      \/ s # Hole /\ p = Complete(d, a, w)
  <2>1. [Emptied(q, i) EXCEPT !.stored = @ - 1] = c BY DEF Emptied, Cleared, Typed, RxFields
  <2>2. [c EXCEPT !.old = q.old] = d BY DEF Cleared, Typed, RxFields
  <2> HIDE DEF c, d
  <2> QED BY <2>1, <2>2 DEF AmsduPart, Placed
<1>a. i = Slot(Sn(a)) OBVIOUS
<1> HIDE DEF i, t, w
<1>4. CASE s = Hole /\ p = Placed(q, i, t) BY <1>2, <1>4, <1>a, StoreIs
<1>5. CASE p = [q EXCEPT !.drop = TRUE]
  <2>1. /\ DOMAIN p = DOMAIN q /\ p.drop /\ p.drop \in BOOLEAN /\ Apart(p) = Apart(q) /\ p.buf = q.buf /\ p.stored = q.stored
        /\ p.slipped = q.slipped /\ p.skew = q.skew /\ p.go = q.go /\ p.todo = q.todo /\ p.timer = q.timer /\ p.win = q.win
        /\ p.release = q.release /\ p.rel = q.rel /\ p.last = q.last
    BY <1>5 DEF Typed, RxFields, Apart
  <2>2. Typed(p) BY <1>5 DEF Typed, RxFields
  <2>3. (Tallied(q) <=> Tallied(p)) /\ (Covered(q) <=> Covered(p))
    BY <2>1 DEF Tallied, Covered, NonHoles
  <2>4. \A V : Clean(q, V) => Clean(p, V) BY <2>1, <2>3 DEF Clean, InWindow, InOrder
  <2> QED BY <2>1, <2>2, <2>3, <2>4 DEF Entered
<1>6. CASE s # Hole /\ p = [c EXCEPT !.win = ieee80211_sn_inc(@), !.drop = TRUE, !.skew = @ \/ Sn(a) # q.win]
  <2> DEFINE skew == q.skew \/ Sn(a) # q.win
  <2>1. /\ DOMAIN c = DOMAIN q /\ c.buf = [q.buf EXCEPT ![i] = Hole] /\ c.stored = q.stored - 1 /\ Apart(c) = Apart(q)
        /\ c.slipped = q.slipped /\ c.skew = q.skew /\ c.go = q.go /\ c.todo = q.todo /\ c.timer = q.timer /\ c.win = q.win
        /\ c.drop = q.drop /\ c.release = q.release /\ c.rel = q.rel /\ c.last = q.last /\ q.stored > 0 /\ c.buf[i] = Hole
        /\ Typed(c) /\ Covered(c) /\ (Tallied(q) => Tallied(c)) /\ \A V : Clean(q, V) => Clean(c, V)
    BY <1>1, <1>6, ClearedIs
  <2> HIDE DEF c
  <2>2. p = [c EXCEPT !.win = ieee80211_sn_inc(q.win), !.drop = TRUE, !.skew = skew] BY <1>6, <2>1
  <2>3. /\ DOMAIN p = DOMAIN c /\ p.drop /\ p.drop \in BOOLEAN /\ Apart(p) = Apart(c) /\ p.buf = c.buf /\ p.stored = c.stored
        /\ p.slipped = c.slipped /\ p.skew = skew /\ p.go = c.go /\ p.todo = c.todo /\ p.timer = c.timer
        /\ p.win = ieee80211_sn_inc(q.win) /\ p.release = c.release /\ p.rel = c.rel /\ p.last = c.last
    BY <2>1, <2>2 DEF Typed, RxFields, Apart
  <2>4. At(q.win, q.win) BY DEF Typed, At
  <2>5. ieee80211_sn_inc(q.win) \in Nat BY <2>4, AtInc DEF At
  <2>6. skew \in BOOLEAN BY DEF Typed
  <2>7. (~skew => Sn(a) = q.win) /\ (q.skew => skew) OBVIOUS
  <2> HIDE DEF skew
  <2>8. Typed(p) BY <2>1, <2>2, <2>5, <2>6 DEF Typed, RxFields
  <2>9. (Tallied(q) => Tallied(p)) /\ (Covered(q) => Covered(p))
    BY <2>1, <2>3 DEF Tallied, Covered, NonHoles
  <2>10. ASSUME NEW V \in Starts, ~p.skew, Clean(q, V), V <= a, a < V + WinSize PROVE \E Z \in Starts : Clean(p, Z)
    <3>1. a = V /\ V + 1 \in Starts BY <2>3, <2>7, <2>10, AtHead
    <3>2. At(p.win, V + 1) /\ Tallied(p) BY <2>3, <2>9, <2>10, AtInc DEF Clean
    <3>3. p.buf = [q.buf EXCEPT ![V % WinSize] = Hole] /\ p.last = q.last /\ p.rel = q.rel
      BY <1>1, <2>1, <2>3, <3>1
    <3>4. Clean(p, V + 1) BY <2>10, <3>2, <3>3, PopIs
    <3> QED BY <3>1, <3>4
  <2> QED BY <2>1, <2>3, <2>7, <2>8, <2>9, <2>10 DEF Entered
<1>7. CASE s # Hole /\ p = Complete(d, a, w)
  <2>1. /\ DOMAIN d = DOMAIN q /\ d.stored = q.stored - 1 /\ Apart(d) = Apart(q)
        /\ d.slipped = q.slipped /\ d.skew = q.skew /\ d.go = q.go /\ d.todo = q.todo /\ d.timer = q.timer /\ d.win = q.win
        /\ d.drop = q.drop /\ d.release = q.release /\ q.stored > 0 /\ d.buf[i] = Hole
        /\ Typed(d) /\ Covered(d) /\ (Tallied(q) => Tallied(d)) /\ \A V : Clean(q, V) => Clean(d, V)
    <3>1. q.buf[i] # Hole /\ q.old \subseteq Indices /\ i \in Indices BY <1>1, <1>7
    <3>2. d = Cleared(q, i, q.old) OBVIOUS
    <3> HIDE DEF s, d
    <3>3. /\ DOMAIN d = DOMAIN q /\ d.buf = [q.buf EXCEPT ![i] = Hole] /\ d.stored = q.stored - 1 /\ Apart(d) = Apart(q)
          /\ d.slipped = q.slipped /\ d.skew = q.skew /\ d.go = q.go /\ d.todo = q.todo /\ d.timer = q.timer /\ d.win = q.win
          /\ d.drop = q.drop /\ d.release = q.release /\ d.rel = q.rel /\ d.last = q.last /\ q.stored > 0 /\ d.buf[i] = Hole
          /\ Typed(d) /\ Covered(d) /\ (Tallied(q) => Tallied(d)) /\ \A V : Clean(q, V) => Clean(d, V)
      BY <3>1, <3>2, ClearedIs
    <3> QED BY <3>3
  <2> HIDE DEF d
  <2>2. Entered(d, a, p) BY <1>2, <1>7, <1>a, <2>1, CompleteIs
  <2> QED BY <2>1, <2>2 DEF Entered
<1> QED BY <1>3, <1>4, <1>5, <1>6, <1>7

\* Between two calls, and within one before the release list is delivered.
Ready(r) == Typed(r) /\ Covered(r) /\ r.go = "stop" /\ ~r.drop /\ ~r.release
\* What is stored is counted, and a release of it is pending.
Tracked(r) == r.live /\ ~r.skew => Tallied(r) /\ (r.stored > 0 => Pending(r))
\* As long as the window has not slipped it holds frames from its start on.
Settled(r) == r.live /\ ~r.back /\ r.grave = <<>> /\ Timed(r) /\ \E W \in Starts : Clean(r, W)
Ordered(r) == Narrow /\ ~r.slipped /\ ~r.skew => Settled(r)
Fine(r) == Ready(r) /\ Tracked(r) /\ (r.keyed => ~r.back) /\ Ordered(r)

\* After a frame was taken in, its release is seen to.
LEMMA SettleIs ==
    ASSUME NEW q, Typed(q), Covered(q), q.live, q.go = "stop", NEW a \in Numbers, NEW f, f = Settle(q, a)
    PROVE  /\ Ready(f) /\ Apart(f) = Apart(q) /\ f.slipped = q.slipped /\ (q.skew => f.skew)
           /\ ~f.skew /\ Tallied(q) => Tallied(f)
           /\ (~f.skew /\ Tallied(q) /\ (~q.release => IF q.drop THEN q.stored > 0 => Pending(q) ELSE q.buf[Slot(Sn(a))] # Hole))
                  => f.stored = 0 \/ Pending(f)
           /\ \A X \in Starts : ~f.skew /\ Clean(q, X) => (Timed(q) => Timed(f)) /\ \E V \in Starts : Clean(f, V)
<1> DEFINE i == Slot(Sn(a))
           r == [q EXCEPT !.drop = FALSE, !.release = FALSE]
<1>1. /\ DOMAIN r = DOMAIN q /\ Apart(r) = Apart(q) /\ r.slipped = q.slipped /\ r.skew = q.skew /\ r.go = "stop"
      /\ ~r.drop /\ ~r.release /\ r.drop \in BOOLEAN /\ r.release \in BOOLEAN /\ r.live
      /\ r.buf = q.buf /\ r.stored = q.stored /\ r.timer = q.timer /\ r.todo = q.todo /\ r.win = q.win /\ r.rel = q.rel
      /\ r.last = q.last /\ r.old = q.old
  BY DEF Typed, RxFields, Apart
<1>2. Typed(r) BY DEF Typed, RxFields
<1>3. (Tallied(q) <=> Tallied(r)) /\ (Covered(q) <=> Covered(r))
  BY <1>1 DEF Tallied, Covered, NonHoles
<1>4. \A X : Clean(q, X) <=> Clean(r, X) BY <1>1, <1>3 DEF Clean, InWindow, InOrder
<1>5. (Timed(q) <=> Timed(r)) /\ (Pending(q) <=> Pending(r)) BY <1>1 DEF Timed, Pending
<1>6. i \in Indices /\ Sn(a) \in Nat /\ OfFrame(Sn(a)) /\ i = Slot(Sn(a)) BY FrameIs
<1>7. \/ q.stored = 0 /\ f = [r EXCEPT !.timer = No]
      \/ q.stored # 0 /\ q.release /\ f = skw_reorder_release(r)
      \/ q.stored # 0 /\ ~q.release /\ q.drop /\ f = r
      \/ q.stored # 0 /\ ~q.release /\ ~q.drop /\ f = skw_set_reorder_timer(r, Sn(a))
  BY DEF Settle
<1> HIDE DEF r, i
<1>8. CASE q.stored = 0 /\ f = [r EXCEPT !.timer = No]
  <2>1. /\ DOMAIN f = DOMAIN r /\ Apart(f) = Apart(r) /\ f.slipped = r.slipped /\ f.skew = r.skew /\ f.go = r.go
        /\ f.drop = r.drop /\ f.release = r.release /\ f.buf = r.buf /\ f.stored = r.stored /\ f.timer = No
        /\ f.todo = r.todo /\ f.win = r.win /\ f.rel = r.rel /\ f.last = r.last
    BY <1>2, <1>8 DEF Typed, RxFields, Apart
  <2>2. Typed(f) BY <1>2, <1>8 DEF Typed, RxFields
  <2>3. (Tallied(r) <=> Tallied(f)) /\ (Covered(r) <=> Covered(f))
    BY <2>1 DEF Tallied, Covered, NonHoles
  <2>4. \A X : Clean(r, X) <=> Clean(f, X) BY <2>1, <2>3 DEF Clean, InWindow, InOrder
  <2>5. Timed(r) => Timed(f) BY <2>1 DEF Timed, OfFrame
  <2> QED BY <1>1, <1>3, <1>4, <1>5, <1>8, <2>1, <2>2, <2>3, <2>4, <2>5 DEF Ready
<1>9. CASE q.stored # 0 /\ q.release /\ f = skw_reorder_release(r)
  <2>1. Freed(r, f) BY <1>2, <1>9, ReleaseIs
  <2>2. f.go = "stop" /\ (~f.skew /\ Tallied(r) => f.stored = 0 \/ Pending(f))
    BY <1>1, <1>2, <1>9, ReleaseIs
  <2>3. ASSUME NEW X \in Starts, ~f.skew, Clean(r, X) PROVE (Timed(r) => Timed(f)) /\ \E V \in Starts : Clean(f, V)
    <3>1. X <= LastFrame + 1 /\ X \in Int /\ FirstFrame <= X BY RxBounds DEF Starts
    <3>2. PICK V \in Int : X <= V /\ V <= LastFrame + 1 /\ Clean(f, V) /\ (Timed(r) => Timed(f))
      BY <1>2, <1>9, <2>3, <3>1, ReleaseIs
    <3>3. V \in Starts BY <3>1, <3>2, RxBounds DEF Starts
    <3> QED BY <3>2, <3>3
  <2>4. Apart(f) = Apart(r) /\ f.slipped = r.slipped /\ f.drop = r.drop /\ f.release = r.release
    BY <2>1 DEF Freed, Aside, Apart
  <2> QED BY <1>1, <1>3, <1>4, <1>5, <2>1, <2>2, <2>3, <2>4 DEF Freed, Ready
<1>10. CASE q.stored # 0 /\ ~q.release /\ q.drop /\ f = r
  <2>1. Ready(f) /\ Apart(f) = Apart(q) /\ f.slipped = q.slipped /\ f.skew = q.skew
    BY <1>1, <1>2, <1>3, <1>10 DEF Ready
  <2>2. (Tallied(q) => Tallied(f)) /\ (Pending(q) => Pending(f)) /\ q.stored > 0 /\ (Timed(q) => Timed(f))
    BY <1>3, <1>5, <1>10 DEF Typed
  <2>3. \A X \in Starts : Clean(q, X) => Clean(f, X) BY <1>4, <1>10
  <2> QED BY <1>10, <2>1, <2>2, <2>3
<1>11. CASE q.stored # 0 /\ ~q.release /\ ~q.drop /\ f = skw_set_reorder_timer(r, Sn(a))
  <2>1. /\ Typed(f) /\ Aside(f) = Aside(r) /\ f.skew = r.skew /\ f.go = r.go /\ f.buf = r.buf /\ f.stored = r.stored
        /\ f.win = r.win /\ f.rel = r.rel /\ f.last = r.last
        /\ r.buf[i] # Hole => Pending(f)
        /\ f.timer \in {r.timer, Sn(a)} /\ f.todo \in {r.todo, Sn(a)}
    BY <1>2, <1>6, <1>11, TimerIs
  <2>2. Apart(f) = Apart(r) /\ f.slipped = r.slipped /\ f.drop = r.drop /\ f.release = r.release
    BY <2>1 DEF Aside, Apart
  <2>3. (Tallied(r) <=> Tallied(f)) /\ (Covered(r) <=> Covered(f)) /\ \A X : Clean(r, X) <=> Clean(f, X)
    BY <1>2, <2>1, GoesOn
  <2>4. Timed(r) => Timed(f) BY <1>6, <2>1 DEF Timed
  <2>5. q.buf[Slot(Sn(a))] # Hole => r.buf[i] # Hole BY <1>1, <1>6
  <2> QED BY <1>1, <1>3, <1>4, <1>5, <1>11, <2>1, <2>2, <2>3, <2>4, <2>5 DEF Ready
<1> QED BY <1>7, <1>8, <1>9, <1>10, <1>11

\* What arrives of a frame and is not behind the window.
Taken(q, a, kind) ==
    IF a \in Amsdus THEN AmsduPart(q, a, kind)
    ELSE IF q.buf[Slot(Sn(a))] # Hole THEN [q EXCEPT !.drop = TRUE]
    ELSE Complete(q, a, [a |-> a, st |-> IF kind = "msdu" THEN "whole" ELSE kind])
\* It is taken in, or the session is dropped, as Entered says.
LEMMA TakenIs ==
    ASSUME NEW q, Typed(q), Covered(q), ~q.drop, NEW a \in Numbers, NEW kind \in FramesOf(a), NEW p, p = Taken(q, a, kind)
    PROVE  Entered(q, a, p)
<1> DEFINE s == [a |-> a, st |-> IF kind = "msdu" THEN "whole" ELSE kind]
<1>1. CASE a \in Amsdus
  <2>1. kind \in {"first", "tfirst", "last"} /\ p = AmsduPart(q, a, kind) BY <1>1 DEF FramesOf, Taken
  <2> QED BY <2>1, AmsduPartIs
<1>2. CASE a \notin Amsdus /\ q.buf[Slot(Sn(a))] # Hole
  <2>1. p = [q EXCEPT !.drop = TRUE] BY <1>2 DEF Taken
  <2>2. /\ DOMAIN p = DOMAIN q /\ p.drop /\ p.drop \in BOOLEAN /\ Apart(p) = Apart(q) /\ p.buf = q.buf /\ p.stored = q.stored
        /\ p.slipped = q.slipped /\ p.skew = q.skew /\ p.go = q.go /\ p.todo = q.todo /\ p.timer = q.timer /\ p.win = q.win
        /\ p.release = q.release /\ p.rel = q.rel /\ p.last = q.last
    BY <2>1 DEF Typed, RxFields, Apart
  <2>3. Typed(p) BY <2>1 DEF Typed, RxFields
  <2>4. (Tallied(q) <=> Tallied(p)) /\ (Covered(q) <=> Covered(p))
    BY <2>2 DEF Tallied, Covered, NonHoles
  <2>5. \A V : Clean(q, V) => Clean(p, V) BY <2>2, <2>4 DEF Clean, InWindow, InOrder
  <2> QED BY <2>2, <2>3, <2>4, <2>5 DEF Entered
<1>3. CASE a \notin Amsdus /\ q.buf[Slot(Sn(a))] = Hole
  <2>1. p = Complete(q, a, s) BY <1>3 DEF Taken
  <2>2. s \in Kept /\ s.a = a BY <1>3 DEF Kept, States, FramesOf
  <2> HIDE DEF s
  <2> QED BY <1>3, <2>1, <2>2, CompleteIs
<1> QED BY <1>1, <1>2, <1>3

\* A frame arrives.
LEMMA ReorderIs ==
    ASSUME NEW r, Fine(r), NEW a \in Numbers, NEW kind \in FramesOf(a), NEW p, p = skw_ampdu_reorder(r, a, kind)
    PROVE  Fine(p)
<1>0. /\ Typed(r) /\ Covered(r) /\ r.go = "stop" /\ ~r.drop /\ ~r.release /\ Tracked(r) /\ (r.keyed => ~r.back) /\ Ordered(r)
  BY DEF Fine, Ready
<1>1. CASE ~r.live
  <2> DEFINE s == [a |-> a, st |-> kind]
  <2>1. p = [r EXCEPT !.rel = Append(r.rel, s)] BY <1>1 DEF skw_ampdu_reorder
  <2>2. s \in Frame BY DEF Frame, States, FramesOf
  <2> HIDE DEF s
  <2>3. Append(r.rel, s) \in Seq(Frame) BY <1>0, <2>2 DEF Typed
  <2>4. Typed(p) BY <1>0, <2>1, <2>3 DEF Typed, RxFields
  <2>5. /\ p.buf = r.buf /\ p.stored = r.stored /\ p.go = r.go /\ p.drop = r.drop /\ p.release = r.release /\ p.live = r.live
        /\ p.keyed = r.keyed /\ p.back = r.back /\ p.skew = r.skew /\ p.slipped = r.slipped
    BY <1>0, <2>1 DEF Typed, RxFields
  <2>6. Ready(p) BY <1>0, <2>4, <2>5 DEF Ready, Covered, NonHoles
  <2>7. Tracked(p) /\ (p.keyed => ~p.back) BY <1>0, <1>1, <2>5 DEF Tracked
  <2>8. Ordered(p) BY <1>0, <1>1, <2>5 DEF Ordered, Settled
  <2> QED BY <2>6, <2>7, <2>8 DEF Fine
<1>2. ASSUME r.live, NEW q, Typed(q), Covered(q), q.live, q.go = "stop", p = Settle(q, a), q.keyed = r.keyed, q.back = r.back,
             q.grave = r.grave, (r.skew => q.skew), (r.slipped => q.slipped), ~q.skew /\ Tallied(r) => Tallied(q),
             \/ q.release
             \/ (q.drop /\ q.stored > 0 => r.stored > 0) /\ (~q.drop => q.buf[Slot(Sn(a))] # Hole) /\ (Pending(r) => Pending(q)),
             Timed(r) => Timed(q),
             \A X \in Starts : Narrow /\ ~q.slipped /\ ~q.skew /\ Clean(r, X) => \E V \in Starts : Clean(q, V)
      PROVE  Fine(p)
  <2>1. Ready(p) /\ Apart(p) = Apart(q) /\ p.slipped = q.slipped /\ (q.skew => p.skew) /\ (~p.skew /\ Tallied(q) => Tallied(p))
    BY <1>2, SettleIs
  <2>2. p.live = q.live /\ p.keyed = q.keyed /\ p.back = q.back /\ p.grave = q.grave BY <2>1 DEF Apart
  <2>3. ASSUME ~p.skew PROVE Tallied(p) /\ (p.stored > 0 => Pending(p))
    <3>1. ~q.skew /\ ~r.skew BY <1>2, <2>1, <2>3
    <3>2. Tallied(r) /\ (r.stored > 0 => Pending(r)) BY <1>0, <1>2, <3>1 DEF Tracked
    <3>3. Tallied(q) BY <1>2, <3>1, <3>2
    <3>4. ~q.release => IF q.drop THEN q.stored > 0 => Pending(q) ELSE q.buf[Slot(Sn(a))] # Hole
      BY <1>2, <3>2
    <3>5. p.stored = 0 \/ Pending(p) BY <1>2, <2>3, <3>3, <3>4, SettleIs
    <3> QED BY <2>1, <2>3, <3>3, <3>5
  <2>4. ASSUME Narrow, ~p.slipped, ~p.skew PROVE Settled(p)
    <3>1. ~q.skew /\ ~r.skew /\ ~q.slipped /\ ~r.slipped BY <1>2, <2>1, <2>4
    <3>2. ~r.back /\ r.grave = <<>> /\ Timed(r) BY <1>0, <2>4, <3>1 DEF Ordered, Settled
    <3>3. PICK W \in Starts : Clean(r, W) BY <1>0, <2>4, <3>1 DEF Ordered, Settled
    <3>4. PICK V \in Starts : Clean(q, V) BY <1>2, <2>4, <3>1, <3>3
    <3>5. Timed(p) /\ \E Z \in Starts : Clean(p, Z) BY <1>2, <2>4, <3>2, <3>4, SettleIs
    <3> QED BY <1>2, <2>2, <3>2, <3>5 DEF Settled
  <2> QED BY <1>0, <1>2, <2>1, <2>2, <2>3, <2>4 DEF Fine, Tracked, Ordered
<1>3. CASE r.live /\ ieee80211_sn_less(Sn(a), r.win)
  <2> DEFINE q == [r EXCEPT !.drop = TRUE]
  <2>1. p = Settle(q, a) BY <1>3 DEF skw_ampdu_reorder
  <2>2. /\ q.drop /\ q.buf = r.buf /\ q.stored = r.stored /\ q.go = r.go /\ q.live = r.live /\ q.keyed = r.keyed /\ q.back = r.back
        /\ q.skew = r.skew /\ q.slipped = r.slipped /\ q.grave = r.grave /\ q.timer = r.timer /\ q.todo = r.todo
        /\ q.win = r.win /\ q.rel = r.rel /\ q.last = r.last
    BY <1>0 DEF Typed, RxFields
  <2>3. Typed(q) BY <1>0 DEF Typed, RxFields
  <2> HIDE DEF q
  <2>4. (Tallied(r) <=> Tallied(q)) /\ (Covered(r) <=> Covered(q)) /\ (Pending(r) <=> Pending(q)) /\ (Timed(r) <=> Timed(q))
    BY <2>2 DEF Tallied, Covered, NonHoles, Pending, Timed
  <2>5. \A X : Clean(r, X) => Clean(q, X) BY <2>2, <2>4 DEF Clean, InWindow, InOrder
  <2>6. q.drop /\ q.stored > 0 => r.stored > 0 BY <2>2
  <2>7. \A X \in Starts : Narrow /\ ~q.slipped /\ ~q.skew /\ Clean(r, X) => \E V \in Starts : Clean(q, V)
    BY <2>5
  <2> QED BY <1>0, <1>2, <1>3, <2>1, <2>2, <2>3, <2>4, <2>6, <2>7
<1>4. CASE r.live /\ ~ieee80211_sn_less(Sn(a), r.win)
  <2> DEFINE q == OutOfWindow(r, a)
             u == Taken(q, a, kind)
  <2>1. p = Settle(u, a) BY <1>4 DEF skw_ampdu_reorder, Taken
  <2>2. /\ Typed(q) /\ Apart(q) = Apart(r) /\ q.skew = r.skew /\ q.todo = r.todo /\ q.go = r.go /\ q.timer \in {r.timer, No}
        /\ q.drop = r.drop /\ (r.slipped => q.slipped) /\ (q.release \/ q = r)
        /\ (Tallied(r) => Tallied(q)) /\ (Covered(r) => Covered(q))
        /\ \A X \in Starts : Narrow /\ ~q.slipped /\ Clean(r, X) /\ ~ieee80211_sn_less(Sn(a), r.win) =>
               \E V \in Starts : Clean(q, V) /\ V <= a /\ a < V + WinSize
    BY <1>0, OutOfWindowIs
  <2> HIDE DEF q
  <2>3. Entered(q, a, u) BY <1>0, <2>2, TakenIs
  <2> HIDE DEF u
  <2>4. /\ Typed(u) /\ Apart(u) = Apart(q) /\ u.slipped = q.slipped /\ u.go = q.go /\ u.todo = q.todo /\ u.timer \in {q.timer, No}
        /\ (q.skew => u.skew) /\ (q.release => u.release)
        /\ (~u.skew /\ Tallied(q) => Tallied(u)) /\ (Covered(q) => Covered(u))
        /\ \/ u.release
           \/ /\ u.timer = q.timer /\ (u.drop /\ u.stored > 0 => q.stored > 0)
              /\ ~u.drop => u.buf[Slot(Sn(a))] # Hole
    BY <2>3 DEF Entered
  <2>5. \A V \in Starts : ~u.skew /\ Clean(q, V) /\ V <= a /\ a < V + WinSize => \E Z \in Starts : Clean(u, Z)
    BY <2>3 DEF Entered
  <2>6. Covered(u) /\ u.live /\ u.go = "stop" /\ u.keyed = r.keyed /\ u.back = r.back /\ u.grave = r.grave
    BY <1>0, <1>4, <2>2, <2>4 DEF Apart
  <2>7. (r.skew => u.skew) /\ (r.slipped => u.slipped) /\ (~u.skew /\ Tallied(r) => Tallied(u))
    BY <2>2, <2>4
  <2>8. \/ u.release
        \/ (u.drop /\ u.stored > 0 => r.stored > 0) /\ (~u.drop => u.buf[Slot(Sn(a))] # Hole) /\ (Pending(r) => Pending(u))
    <3>1. CASE q.release BY <2>4, <3>1
    <3>2. CASE q = r BY <2>4, <3>2 DEF Pending
    <3> QED BY <2>2, <3>1, <3>2
  <2>9. Timed(r) => Timed(u) BY <2>2, <2>4 DEF Timed, OfFrame
  <2>10. ASSUME NEW X \in Starts, Narrow, ~u.slipped, ~u.skew, Clean(r, X) PROVE \E V \in Starts : Clean(u, V)
    <3>1. ~q.slipped BY <2>4, <2>10
    <3>2. PICK V \in Starts : Clean(q, V) /\ V <= a /\ a < V + WinSize BY <1>4, <2>2, <2>10, <3>1
    <3> QED BY <2>5, <2>10, <3>2
  <2> QED BY <1>2, <1>4, <2>1, <2>4, <2>6, <2>7, <2>8, <2>9, <2>10
<1> QED BY <1>1, <1>3, <1>4

\* What was released is delivered.
LEMMA HandlerFine ==
    ASSUME NEW r, Fine(r), NEW p, p = skw_rx_handler(r)
    PROVE  Fine(p) /\ p.rel = <<>>
<1>0. /\ Typed(r) /\ Covered(r) /\ r.go = "stop" /\ ~r.drop /\ ~r.release /\ Tracked(r) /\ (r.keyed => ~r.back) /\ Ordered(r)
  BY DEF Fine, Ready
<1>1. Typed(p) /\ Besides(p) = Besides(r) /\ p.rel = <<>> /\ (r.keyed /\ ~r.back => ~p.back)
  BY <1>0, HandlerIs
<1>2. \A X : ~r.back /\ Clean(r, X) => ~p.back /\ Clean(p, X) BY <1>0, HandlerIs
<1>3. /\ p.keyed = r.keyed /\ p.slipped = r.slipped /\ p.skew = r.skew /\ p.grave = r.grave /\ p.go = r.go /\ p.drop = r.drop
      /\ p.release = r.release /\ p.live = r.live /\ p.buf = r.buf /\ p.stored = r.stored /\ p.timer = r.timer /\ p.todo = r.todo
  BY <1>1 DEF Besides
<1>4. (Tallied(r) <=> Tallied(p)) /\ (Covered(r) <=> Covered(p)) /\ (Pending(r) <=> Pending(p)) /\ (Timed(r) <=> Timed(p))
  BY <1>3 DEF Tallied, Covered, NonHoles, Pending, Timed
<1>5. Ready(p) /\ Tracked(p) /\ (p.keyed => ~p.back) BY <1>0, <1>1, <1>3, <1>4 DEF Ready, Tracked
<1>6. Ordered(p) BY <1>0, <1>2, <1>3, <1>4 DEF Ordered, Settled
<1> QED BY <1>1, <1>5, <1>6 DEF Fine

\* The todo releases what it stands for.
LEMMA TodoIs ==
    ASSUME NEW r, Fine(r), r.rel = <<>>, NEW p, p = skw_rx_todo(r)
    PROVE  Fine(p) /\ p.rel = <<>>
<1>0. /\ Typed(r) /\ Covered(r) /\ r.go = "stop" /\ ~r.drop /\ ~r.release /\ Tracked(r) /\ (r.keyed => ~r.back) /\ Ordered(r)
  BY DEF Fine, Ready
<1>1. CASE r.todo = No BY <1>1 DEF skw_rx_todo
<1>2. CASE r.todo # No
  <2> DEFINE f == IF r.live THEN skw_reorder_force_release(r, r.todo) ELSE r
             h == [f EXCEPT !.todo = No]
             k == skw_reorder_release(h)
  <2>1. p = skw_rx_handler(k) BY <1>2 DEF skw_rx_todo
  <2>2. r.todo \in Nat BY <1>0, <1>2 DEF Typed
  <2>3. Forced(r, f) /\ f.timer \in {r.timer, No}
    <3>1. CASE r.live BY <1>0, <2>2, <3>1, ForceIs
    <3>2. CASE ~r.live BY <1>0, <3>2 DEF Forced
    <3> QED BY <3>1, <3>2
  <2>4. ASSUME NEW X \in Starts, r.live, Narrow, Timed(r), Clean(r, X) PROVE \E V \in Starts : Clean(f, V)
    <3>1. PICK T \in Numbers : At(r.todo, T) BY <1>2, <2>4 DEF Timed, OfFrame
    <3>2. X \in Int /\ T \in Int /\ FirstFrame <= X /\ X <= LastFrame + 1 /\ FirstFrame <= T /\ T <= LastFrame
      BY RxBounds DEF Starts, Numbers
    <3>3. Near(X, T) /\ At(r.win, X) BY <2>4, <3>2, RxBounds DEF Near, Narrow, HalfSpace, Clean
    <3>4. PICK V \in Int : Moved(r, X, T, f, V) BY <1>0, <2>2, <2>4, <3>1, <3>3, ForceIs
    <3>5. Clean(f, V) /\ (X > T => V = X) /\ (X <= T => V = T + 1 \/ V = T) BY <2>4, <3>4 DEF Moved
    <3>6. V \in Starts BY <3>2, <3>5, RxBounds DEF Starts
    <3> QED BY <3>5, <3>6
  <2> HIDE DEF f
  <2>5. /\ Typed(f) /\ Aside(f) = Aside(r) /\ f.skew = r.skew /\ f.go = r.go
        /\ (Tallied(r) => Tallied(f)) /\ (Covered(r) => Covered(f))
    BY <2>3 DEF Forced
  <2>6. /\ Typed(h) /\ Aside(h) = Aside(f) /\ h.skew = f.skew /\ h.go = f.go /\ h.timer = f.timer /\ h.todo = No /\ h.buf = f.buf
        /\ h.stored = f.stored /\ h.win = f.win /\ h.rel = f.rel /\ h.last = f.last
    BY <2>5 DEF Typed, RxFields, Aside, No
  <2>7. (Tallied(f) <=> Tallied(h)) /\ (Covered(f) <=> Covered(h)) /\ (\A X : Clean(f, X) <=> Clean(h, X)) /\ (Timed(r) => Timed(h))
    <3>1. (Tallied(f) <=> Tallied(h)) /\ (Covered(f) <=> Covered(h))
      BY <2>6 DEF Tallied, Covered, NonHoles
    <3>2. \A X : Clean(f, X) <=> Clean(h, X) BY <2>6, <3>1 DEF Clean, InWindow, InOrder
    <3>3. Timed(r) => Timed(h) BY <2>3, <2>6 DEF Timed, OfFrame
    <3> QED BY <3>1, <3>2, <3>3
  <2> HIDE DEF h
  <2>8. Freed(h, k) /\ k.go = (IF h.live THEN "stop" ELSE h.go) BY <2>6, ReleaseIs
  <2>9. h.live /\ ~k.skew /\ Tallied(h) => k.stored = 0 \/ Pending(k) BY <2>6, ReleaseIs
  <2>10. ASSUME NEW X \in Starts, ~k.skew, Clean(h, X) PROVE (Timed(h) => Timed(k)) /\ \E V \in Starts : Clean(k, V)
    <3>1. X <= LastFrame + 1 /\ X \in Int /\ FirstFrame <= X BY RxBounds DEF Starts
    <3>2. PICK V \in Int : X <= V /\ V <= LastFrame + 1 /\ Clean(k, V) /\ (Timed(h) => Timed(k))
      BY <2>6, <2>10, <3>1, ReleaseIs
    <3>3. V \in Starts BY <3>1, <3>2, RxBounds DEF Starts
    <3> QED BY <3>2, <3>3
  <2> HIDE DEF k
  <2>11. /\ k.live = r.live /\ k.keyed = r.keyed /\ k.back = r.back /\ k.grave = r.grave /\ k.slipped = r.slipped
         /\ k.drop = r.drop /\ k.release = r.release /\ (r.skew => k.skew)
    BY <2>5, <2>6, <2>8 DEF Freed, Aside
  <2>l. h.live = r.live BY <2>5, <2>6 DEF Aside
  <2>12. Ready(k) BY <1>0, <2>5, <2>6, <2>7, <2>8, <2>11 DEF Ready, Freed
  <2>13. Tracked(k)
    <3>1. ASSUME k.live, ~k.skew PROVE Tallied(k) /\ (k.stored > 0 => Pending(k))
      <4>1. Tallied(r) BY <1>0, <2>11, <3>1 DEF Tracked
      <4>2. Tallied(h) BY <2>5, <2>7, <4>1
      <4>3. k.stored = 0 \/ Pending(k) BY <2>9, <2>11, <2>l, <3>1, <4>2
      <4> QED BY <2>8, <3>1, <4>2, <4>3 DEF Freed
    <3> QED BY <3>1 DEF Tracked
  <2>14. Ordered(k)
    <3>1. ASSUME Narrow, ~k.slipped, ~k.skew PROVE Settled(k)
      <4>1. Settled(r) BY <1>0, <2>11, <3>1 DEF Ordered
      <4>2. PICK X \in Starts : Clean(r, X) BY <4>1 DEF Settled
      <4>3. PICK V \in Starts : Clean(f, V) BY <2>4, <3>1, <4>1, <4>2 DEF Settled
      <4>4. Timed(k) /\ \E Z \in Starts : Clean(k, Z) BY <2>7, <2>10, <3>1, <4>1, <4>3 DEF Settled
      <4> QED BY <2>11, <4>1, <4>4 DEF Settled
    <3> QED BY <3>1 DEF Ordered
  <2>15. Fine(k) BY <1>0, <2>11, <2>12, <2>13, <2>14 DEF Fine
  <2> QED BY <2>1, <2>15, HandlerFine
<1> QED BY <1>1, <1>2

\* What changes only what the invariant does not look at, a pending release of a frame included.
LEMMA Unmoved ==
    ASSUME NEW r, Fine(r), NEW p, Typed(p), p.keyed = r.keyed, p.back = r.back, p.slipped = r.slipped, p.skew = r.skew,
           p.grave = r.grave, p.go = r.go, p.drop = r.drop, p.release = r.release, p.live = r.live, p.win = r.win, p.buf = r.buf,
           p.stored = r.stored, p.rel = r.rel, p.last = r.last, Pending(r) => Pending(p), Timed(r) => Timed(p)
    PROVE  Fine(p)
<1>1. (Tallied(r) <=> Tallied(p)) /\ (Covered(r) <=> Covered(p)) BY DEF Tallied, Covered, NonHoles
<1>2. \A X : Clean(r, X) <=> Clean(p, X) BY <1>1 DEF Clean, InWindow, InOrder
<1>3. Ready(p) /\ Tracked(p) /\ (p.keyed => ~p.back) BY <1>1 DEF Fine, Ready, Tracked
<1>4. Ordered(p) BY <1>2 DEF Fine, Ordered, Settled
<1> QED BY <1>3, <1>4 DEF Fine

\* A window that begins.
LEMMA BarWindowIs ==
    ASSUME NEW r, Typed(r), NEW ssn \in Nat, NEW p, p = Window(r, ssn)
    PROVE  /\ Typed(p) /\ Tallied(p) /\ Covered(p) /\ p.stored = 0 /\ p.live /\ p.win = ssn /\ p.timer = No /\ p.todo = No
           /\ NonHoles(p) = {}
           /\ p.base = r.base /\ p.keyed = r.keyed /\ p.last = r.last /\ p.back = r.back /\ p.grave = r.grave /\ p.n = r.n
           /\ p.slipped = r.slipped /\ p.skew = r.skew /\ p.drop = r.drop /\ p.release = r.release /\ p.rel = r.rel /\ p.go = r.go
<1>1. /\ Typed(p) /\ p.stored = 0 /\ p.live /\ p.win = ssn /\ p.timer = No /\ p.todo = No
      /\ p.buf = [i \in 0..(WinSize - 1) |-> Hole]
      /\ p.base = r.base /\ p.keyed = r.keyed /\ p.last = r.last /\ p.back = r.back /\ p.grave = r.grave /\ p.n = r.n
      /\ p.slipped = r.slipped /\ p.skew = r.skew /\ p.drop = r.drop /\ p.release = r.release /\ p.rel = r.rel /\ p.go = r.go
  BY DEF Window, Typed, RxFields, Indices
<1>2. NonHoles(p) = {} BY <1>1 DEF NonHoles, Indices
<1>3. Cardinality(NonHoles(p)) = 0 BY <1>2, CountTyped
<1> QED BY <1>1, <1>2, <1>3 DEF Tallied, Covered

\* The inductive invariant of the receive path.
RxInv == Fine(ro) /\ ro.rel = <<>>

\* It holds at first.
LEMMA RxBegin == RxInit => RxInv
<1>a. SUFFICES ASSUME NEW keyed \in BOOLEAN,
                    ro = Window([base |-> FirstFrame, keyed |-> keyed, last |-> No, back |-> FALSE, slipped |-> FALSE, skew |-> FALSE,
                       rel |-> <<>>, grave |-> <<>>, n |-> 0, go |-> "stop", drop |-> FALSE, release |-> FALSE,
                       live |-> FALSE, win |-> 0, buf |-> <<>>, stored |-> 0, timer |-> No, todo |-> No, old |-> {}],
                      Sn(FirstFrame))
             PROVE  RxInv
  BY DEF RxInit
<1> DEFINE v == [base |-> FirstFrame, keyed |-> keyed, last |-> No, back |-> FALSE, slipped |-> FALSE, skew |-> FALSE,
                 rel |-> <<>>, grave |-> <<>>, n |-> 0, go |-> "stop", drop |-> FALSE, release |-> FALSE,
                 live |-> FALSE, win |-> 0, buf |-> <<>>, stored |-> 0, timer |-> No, todo |-> No, old |-> {}]
           r == [v EXCEPT !.buf = [i \in Indices |-> Hole]]
           ssn == Sn(FirstFrame)
<1>1. ro = Window(r, ssn)
  <2>1. DOMAIN v = RxFields BY DEF RxFields
  <2>2. ro = Window(v, ssn) BY <1>a
  <2> HIDE DEF v, ssn
  <2>3. Window(r, ssn) = Window(v, ssn) BY <2>1 DEF Window, RxFields
  <2> QED BY <2>2, <2>3
<1>2. FirstFrame \in Numbers /\ FirstFrame \in Nat BY RxBounds DEF Numbers
<1>3. Typed(r) BY <1>2 DEF Typed, RxFields
<1>4. At(Sn(FirstFrame), FirstFrame) /\ Sn(FirstFrame) \in Nat BY <1>2, FrameIs
<1>5. /\ r.back = FALSE /\ r.grave = <<>> /\ r.last = No /\ r.rel = <<>> /\ r.go = "stop" /\ ~r.drop /\ ~r.release /\ r.base = FirstFrame
  OBVIOUS
<1> HIDE DEF r
<1>6. /\ Typed(ro) /\ Tallied(ro) /\ Covered(ro) /\ ro.stored = 0 /\ ro.live /\ ro.win = Sn(FirstFrame) /\ ro.timer = No /\ ro.todo = No
      /\ NonHoles(ro) = {} /\ ro.last = r.last /\ ro.back = r.back /\ ro.grave = r.grave
      /\ ro.drop = r.drop /\ ro.release = r.release /\ ro.rel = r.rel /\ ro.go = r.go
  BY <1>1, <1>3, <1>4, BarWindowIs
<1>7. Clean(ro, FirstFrame)
  <2>1. InWindow(ro, FirstFrame) BY <1>6 DEF InWindow, NonHoles
  <2>2. InOrder(ro, FirstFrame) BY <1>2, <1>5, <1>6 DEF InOrder, No
  <2> QED BY <1>4, <1>6, <2>1, <2>2 DEF Clean
<1>8. FirstFrame \in Starts BY RxBounds DEF Starts
<1>9. Settled(ro) BY <1>5, <1>6, <1>7, <1>8 DEF Settled, Timed, OfFrame
<1>10. Ready(ro) /\ Tracked(ro) /\ (ro.keyed => ~ro.back) BY <1>5, <1>6 DEF Ready, Tracked
<1> QED BY <1>5, <1>6, <1>9, <1>10 DEF RxInv, Fine, Ordered

\* What an operation on the session leaves counts one more.
LEMMA BaOpIs ==
    ASSUME NEW r, Fine(r), r.rel = <<>>, BaOp(r)
    PROVE  RxInv'
<1>1. ro' = [r EXCEPT !.n = r.n + 1] BY DEF BaOp
<1>2. Typed(r) BY DEF Fine, Ready
<1> DEFINE p == ro'
<1>3. Typed(p)
  <2>1. p = [r EXCEPT !.n = r.n + 1] BY <1>1
  <2>2. r.n + 1 \in Nat BY <1>2 DEF Typed
  <2> HIDE DEF p
  <2> QED BY <1>2, <2>1, <2>2 DEF Typed, RxFields
<1>4. /\ p.keyed = r.keyed /\ p.back = r.back /\ p.slipped = r.slipped /\ p.skew = r.skew
      /\ p.grave = r.grave /\ p.go = r.go /\ p.drop = r.drop /\ p.release = r.release /\ p.live = r.live /\ p.win = r.win /\ p.buf = r.buf
      /\ p.stored = r.stored /\ p.rel = r.rel /\ p.last = r.last /\ p.timer = r.timer /\ p.todo = r.todo
  BY <1>1, <1>2 DEF Typed, RxFields
<1>5. (Pending(r) => Pending(p)) /\ (Timed(r) => Timed(p)) BY <1>4 DEF Pending, Timed
<1>6. Typed(p) BY <1>3
<1>e. p = ro' OBVIOUS
<1> HIDE DEF p
<1>7. Fine(p) BY <1>4, <1>5, <1>6, Unmoved
<1> QED BY <1>4, <1>7, <1>e DEF RxInv

\* A BAR: the todo is that of the sender's first frame.
LEMMA UpdateIs ==
    ASSUME NEW r, Fine(r), r.base \in Numbers, NEW p, p = [r EXCEPT !.todo = Sn(r.base)]
    PROVE  Fine(p) /\ p.rel = r.rel
<1>1. Typed(r) BY DEF Fine, Ready
<1>2. Sn(r.base) \in Nat /\ OfFrame(Sn(r.base)) /\ Sn(r.base) # No BY FrameIs
<1>3. Typed(p) BY <1>1, <1>2 DEF Typed, RxFields
<1>4. /\ p.keyed = r.keyed /\ p.back = r.back /\ p.slipped = r.slipped /\ p.skew = r.skew
      /\ p.grave = r.grave /\ p.go = r.go /\ p.drop = r.drop /\ p.release = r.release /\ p.live = r.live /\ p.win = r.win /\ p.buf = r.buf
      /\ p.stored = r.stored /\ p.rel = r.rel /\ p.last = r.last /\ p.timer = r.timer /\ p.todo = Sn(r.base)
  BY <1>1 DEF Typed, RxFields
<1>5. (Pending(r) => Pending(p)) /\ (Timed(r) => Timed(p)) BY <1>2, <1>4 DEF Pending, Timed
<1> QED BY <1>3, <1>4, <1>5, Unmoved

\* No operation disturbs it.
LEMMA RxStep == RxInv /\ [RxNext]_rxVars => RxInv'
<1> SUFFICES ASSUME RxInv, [RxNext]_rxVars PROVE RxInv' OBVIOUS
<1>0. Fine(ro) /\ ro.rel = <<>> /\ Typed(ro) /\ ro.base \in Numbers /\ Covered(ro) /\ ro.go = "stop" /\ ~ro.drop /\ ~ro.release
  BY DEF RxInv, Fine, Ready, Typed
<1>1. CASE skw_rx_data_handler
  <2>1. PICK a \in (ro.base - 1)..(ro.base + BufSize - 1) :
            a \in Numbers /\ \E kind \in FramesOf(a) : ro' = skw_rx_todo(skw_rx_handler(skw_ampdu_reorder(ro, a, kind)))
    BY <1>1 DEF skw_rx_data_handler, Numbers
  <2>2. PICK kind \in FramesOf(a) : ro' = skw_rx_todo(skw_rx_handler(skw_ampdu_reorder(ro, a, kind)))
    BY <2>1
  <2> DEFINE p == skw_ampdu_reorder(ro, a, kind)
             h == skw_rx_handler(p)
  <2>3. Fine(p) BY <1>0, <2>1, <2>2, ReorderIs
  <2> HIDE DEF p
  <2>4. Fine(h) /\ h.rel = <<>> BY <2>3, HandlerFine
  <2>5. ro' = skw_rx_todo(h) BY <2>2 DEF p
  <2> HIDE DEF h
  <2> QED BY <2>4, <2>5, TodoIs DEF RxInv
<1>2. CASE skw_rx_process BY <1>0, <1>2, TodoIs DEF skw_rx_process, RxInv
<1>3. CASE skw_reorder_timeout
  <2> DEFINE p == ro'   todo == IF ro.todo = No THEN ro.timer ELSE ro.todo
  <2>1. p = [ro EXCEPT !.timer = No, !.todo = todo] /\ ro.timer # No BY <1>3 DEF skw_reorder_timeout
  <2>2. todo \in Nat \union {No} /\ todo # No /\ todo \in {ro.timer, ro.todo} BY <1>0, <2>1 DEF Typed
  <2>e. p = ro' OBVIOUS
  <2> HIDE DEF todo, p
  <2>3. Typed(p) BY <1>0, <2>1, <2>2 DEF Typed, RxFields
  <2>4. /\ p.keyed = ro.keyed /\ p.back = ro.back /\ p.slipped = ro.slipped /\ p.skew = ro.skew
        /\ p.grave = ro.grave /\ p.go = ro.go /\ p.drop = ro.drop /\ p.release = ro.release /\ p.live = ro.live /\ p.win = ro.win
        /\ p.buf = ro.buf /\ p.stored = ro.stored /\ p.rel = ro.rel /\ p.last = ro.last /\ p.timer = No /\ p.todo = todo
    BY <1>0, <2>1 DEF Typed, RxFields
  <2>5. (Pending(ro) => Pending(p)) /\ (Timed(ro) => Timed(p))
    BY <2>2, <2>4 DEF Pending, Timed, OfFrame
  <2>6. Fine(p) BY <1>0, <2>3, <2>4, <2>5, Unmoved
  <2> QED BY <1>0, <2>4, <2>6, <2>e DEF RxInv
<1>4. CASE Age
  <2> DEFINE p == ro'   old == {i \in DOMAIN ro.buf : ro.buf[i] # Hole}
  <2>1. p = [ro EXCEPT !.old = old] BY <1>4 DEF Age
  <2>2. old \subseteq Indices BY <1>0 DEF Typed
  <2>e. p = ro' OBVIOUS
  <2> HIDE DEF old, p
  <2>3. Typed(p) BY <1>0, <2>1, <2>2 DEF Typed, RxFields
  <2>4. /\ p.keyed = ro.keyed /\ p.back = ro.back /\ p.slipped = ro.slipped /\ p.skew = ro.skew
        /\ p.grave = ro.grave /\ p.go = ro.go /\ p.drop = ro.drop /\ p.release = ro.release /\ p.live = ro.live /\ p.win = ro.win
        /\ p.buf = ro.buf /\ p.stored = ro.stored /\ p.rel = ro.rel /\ p.last = ro.last /\ p.timer = ro.timer /\ p.todo = ro.todo
    BY <1>0, <2>1 DEF Typed, RxFields
  <2>5. (Pending(ro) => Pending(p)) /\ (Timed(ro) => Timed(p)) BY <2>4 DEF Pending, Timed
  <2>6. Fine(p) BY <1>0, <2>3, <2>4, <2>5, Unmoved
  <2> QED BY <1>0, <2>4, <2>6, <2>e DEF RxInv
<1>5. CASE SenderMovesOn
  <2> DEFINE p == ro'
  <2>1. p = [ro EXCEPT !.base = ro.base + 1] /\ ro.base < LastFrame BY <1>5 DEF SenderMovesOn
  <2>2. ro.base + 1 \in Numbers BY <1>0, <2>1, RxBounds DEF Numbers
  <2>e. p = ro' OBVIOUS
  <2> HIDE DEF p
  <2>3. Typed(p) BY <1>0, <2>1, <2>2 DEF Typed, RxFields
  <2>4. /\ p.keyed = ro.keyed /\ p.back = ro.back /\ p.slipped = ro.slipped /\ p.skew = ro.skew
        /\ p.grave = ro.grave /\ p.go = ro.go /\ p.drop = ro.drop /\ p.release = ro.release /\ p.live = ro.live /\ p.win = ro.win
        /\ p.buf = ro.buf /\ p.stored = ro.stored /\ p.rel = ro.rel /\ p.last = ro.last /\ p.timer = ro.timer /\ p.todo = ro.todo
    BY <1>0, <2>1 DEF Typed, RxFields
  <2>5. (Pending(ro) => Pending(p)) /\ (Timed(ro) => Timed(p)) BY <2>4 DEF Pending, Timed
  <2>6. Fine(p) BY <1>0, <2>3, <2>4, <2>5, Unmoved
  <2> QED BY <1>0, <2>4, <2>6, <2>e DEF RxInv
<1> DEFINE bar == [ro EXCEPT !.todo = Sn(ro.base)]
<1>b. skw_update_tid_rx(ro) = bar BY DEF skw_update_tid_rx
<1>c. Fine(bar) /\ bar.rel = <<>>
  <2> DEFINE b == bar
  <2>1. b = [ro EXCEPT !.todo = Sn(ro.base)] OBVIOUS
  <2> HIDE DEF b
  <2>2. Fine(b) /\ b.rel = ro.rel BY <1>0, <2>1, UpdateIs
  <2> QED BY <1>0, <2>2 DEF b
<1> HIDE DEF bar
<1>6. CASE ReqRxBa
  <2>1. BaOp(bar) BY <1>6, <1>b DEF ReqRxBa
  <2> QED BY <1>c, <2>1, BaOpIs
<1>7. CASE skw_add_tid_rx
  <2>1. CASE ro.live
    <3>1. BaOp(bar) BY <1>7, <1>b, <2>1 DEF skw_add_tid_rx
    <3> QED BY <1>c, <3>1, BaOpIs
  <2>2. CASE ~ro.live
    <3> DEFINE p == Window(ro, Sn(ro.base))
    <3>1. BaOp(p) BY <1>7, <2>2 DEF skw_add_tid_rx
    <3>2. Sn(ro.base) \in Nat BY <1>0, FrameIs
    <3>3. /\ Typed(p) /\ Tallied(p) /\ Covered(p) /\ p.stored = 0 /\ p.live
          /\ p.keyed = ro.keyed /\ p.back = ro.back
          /\ p.slipped = ro.slipped /\ p.skew = ro.skew /\ p.drop = ro.drop /\ p.release = ro.release /\ p.rel = ro.rel /\ p.go = ro.go
      BY <1>0, <3>2, BarWindowIs
    <3> HIDE DEF p
    <3>4. Ready(p) /\ Tracked(p) /\ (p.keyed => ~p.back) BY <1>0, <3>3 DEF Ready, Tracked, Fine
    <3>5. Ordered(p) BY <1>0, <2>2, <3>3 DEF Fine, Ordered, Settled
    <3>6. Fine(p) /\ p.rel = <<>> BY <1>0, <3>3, <3>4, <3>5 DEF Fine
    <3> QED BY <3>1, <3>6, BaOpIs
  <2> QED BY <2>1, <2>2
<1>8. CASE skw_del_tid_rx
  <2> DEFINE to == (ro.win + WinSize - 1) % SnSpace
             f == skw_reorder_force_release(ro, to)
             hole == [i \in Indices |-> Hole]
             grave == ro.grave \o f.rel
             p == [ro EXCEPT !.live = FALSE, !.timer = No, !.todo = No, !.stored = 0, !.old = {},
                             !.buf = hole, !.grave = grave, !.slipped = TRUE]
  <2>1. BaOp(p)
    <3>1. DOMAIN ro.buf = Indices BY <1>0 DEF Typed
    <3> QED BY <1>8, <3>1 DEF skw_del_tid_rx
  <2>2. to \in Nat
    <3>1. ro.win + WinSize - 1 \in Int BY <1>0, RxBounds DEF Typed
    <3> QED BY <3>1, RxBounds, DivisionIs
  <2>3. f.rel \in Seq(Frame)
    <3>1. Typed(f) BY <1>0, <2>2, ForceIs DEF Forced
    <3> QED BY <3>1 DEF Typed
  <2>4. grave \in Seq(Frame) BY <1>0, <2>3 DEF Typed
  <2>5. hole \in [Indices -> Kept \union {Hole}] /\ \A i \in Indices : hole[i] = Hole OBVIOUS
  <2> HIDE DEF f, to, grave, hole
  <2>a. /\ DOMAIN p = RxFields /\ p.base = ro.base /\ p.last = ro.last /\ p.n = ro.n /\ p.grave = grave /\ p.win = ro.win
        /\ p.timer = No /\ p.todo = No /\ p.old = {} /\ p.live \in BOOLEAN /\ p.slipped \in BOOLEAN /\ p.skew = ro.skew
    BY <1>0 DEF Typed, RxFields
  <2>7. /\ ~p.live /\ p.slipped /\ p.keyed = ro.keyed /\ p.back = ro.back /\ p.drop = ro.drop /\ p.release = ro.release
        /\ p.rel = ro.rel /\ p.go = ro.go /\ p.stored = 0 /\ p.buf = hole
    BY <1>0 DEF Typed, RxFields
  <2> HIDE DEF p
  <2>6. Typed(p) BY <1>0, <2>4, <2>5, <2>7, <2>a DEF Typed
  <2>8. Covered(p)
    <3>1. NonHoles(p) = {} BY <2>5, <2>7 DEF NonHoles
    <3>2. Cardinality(NonHoles(p)) = 0 BY <3>1, CountTyped
    <3> QED BY <2>7, <3>2 DEF Covered
  <2>9. Fine(p) /\ p.rel = <<>> BY <1>0, <2>6, <2>7, <2>8 DEF Fine, Ready, Tracked, Ordered
  <2> QED BY <2>1, <2>9, BaOpIs
<1>9. CASE skw_free_tid_rx
  <2> DEFINE p == [ro EXCEPT !.rel = ro.grave, !.grave = <<>>]
  <2>1. ro.grave # <<>> /\ ro' = skw_rx_handler(p) BY <1>9 DEF skw_free_tid_rx
  <2>2. Typed(p) BY <1>0 DEF Typed, RxFields
  <2>3. /\ p.live = ro.live /\ p.slipped = ro.slipped /\ p.skew = ro.skew /\ p.keyed = ro.keyed /\ p.back = ro.back /\ p.drop = ro.drop
        /\ p.release = ro.release /\ p.go = ro.go /\ p.stored = ro.stored /\ p.buf = ro.buf /\ p.timer = ro.timer /\ p.todo = ro.todo
    BY <1>0 DEF Typed, RxFields
  <2> HIDE DEF p
  <2>4. Ready(p) /\ Tracked(p) /\ (p.keyed => ~p.back)
    <3>1. (Tallied(ro) <=> Tallied(p)) /\ (Covered(ro) <=> Covered(p)) /\ (Pending(ro) <=> Pending(p))
      BY <2>3 DEF Tallied, Covered, NonHoles, Pending
    <3> QED BY <1>0, <2>2, <2>3, <3>1 DEF Ready, Tracked, Fine
  <2>5. Ordered(p) BY <1>0, <2>1, <2>3 DEF Fine, Ordered, Settled
  <2>6. Fine(p) BY <2>4, <2>5 DEF Fine
  <2> QED BY <2>1, <2>6, HandlerFine DEF RxInv
<1>10. CASE UNCHANGED rxVars BY <1>0, <1>10 DEF RxInv, rxVars
<1> QED BY <1>1, <1>2, <1>3, <1>4, <1>5, <1>6, <1>7, <1>8, <1>9, <1>10 DEF RxNext

\* The invariant holds always.
LEMMA RxHolds == RxSpec => []RxInv
  BY RxBegin, RxStep, PTL DEF RxSpec

\* The type invariant: the window, the buffer and what is pending have the forms that
\* the code gives them, and nothing is left over from a call (skw_ampdu_reorder).
THEOREM RxTyping == RxSpec => []RxTypeOK
<1>1. RxInv => RxTypeOK
  <2> SUFFICES ASSUME RxInv PROVE RxTypeOK OBVIOUS
  <2>1. Typed(ro) /\ ro.rel = <<>> /\ ro.go = "stop" /\ ~ro.drop /\ ~ro.release
    BY DEF RxInv, Fine, Ready
  <2> QED BY <2>1 DEF Typed, RxTypeOK, Numbers, Indices, Kept
<1> QED BY <1>1, RxHolds, PTL

\* stored_num counts the slots in use, and while it is not 0 the timer runs or the todo is
\* queued: what is stored is let go (skw_reorder_release, skw_set_reorder_timer).
THEOREM StoredIsLetGo == RxSpec => []NothingStuck
<1>1. RxInv => NothingStuck
  <2> SUFFICES ASSUME RxInv PROVE NothingStuck OBVIOUS
  <2>1. Typed(ro) /\ Tracked(ro) BY DEF RxInv, Fine, Ready
  <2>2. DOMAIN ro.buf = Indices BY <2>1 DEF Typed
  <2> QED BY <2>1, <2>2 DEF Tracked, Tallied, NonHoles, Pending, NothingStuck
<1> QED BY <1>1, RxHolds, PTL

\* The network stack gets the frames of a tid in their order and none twice, if the
\* numbers of the sender and the window fit into half of the sequence space: with a
\* pairwise key always (skw_replay_detect), without one until the window slips
\* (skw_ampdu_reorder) or the session ends (skw_del_tid_rx).
THEOREM OrderIsKept == RxSpec => [](ro.keyed => ~ro.back) /\ (Narrow => []DeliveredInOrder)
<1>1. RxInv => (ro.keyed => ~ro.back) BY DEF RxInv, Fine
<1>2. Narrow => (RxSpec => []DeliveredInOrder)
  <2>a. SUFFICES ASSUME Narrow PROVE RxSpec => []DeliveredInOrder OBVIOUS
  <2>1. RxInv => DeliveredInOrder
    <3> SUFFICES ASSUME RxInv PROVE DeliveredInOrder OBVIOUS
    <3>1. (ro.keyed => ~ro.back) /\ Ordered(ro) BY DEF RxInv, Fine
    <3> QED BY <2>a, <3>1 DEF Ordered, Settled, DeliveredInOrder
  <2> QED BY <2>1, RxHolds, PTL
<1> QED BY <1>1, <1>2, RxHolds, PTL
-----------------------------------------------------------------------------
\* What is under way is not lost unnoticed, and every part keeps its types:
\* a frame in the reorder buffer has a timer (skw_recv.c), a lost event
\* gives itself away (skw_msg.c), a message is made of its own fragments,
\* opened_dev counts what is open (skw_iface.c), and station, AP, keys,
\* radar detection and direct links are in states the code knows.  As many
\* events as sequence numbers can hide a loss, hence the hypothesis.
THEOREM WifiIsConsistent == MaxEvents <= EventSpace => (Spec => []WifiConsistent)
<1> SUFFICES ASSUME MaxEvents <= EventSpace PROVE Spec => []WifiConsistent OBVIOUS
<1>1. Init => StaInit /\ ApInit /\ LifeInit /\ RxInit /\ EvInit /\ KeysInit /\ DfsInit /\ TdlsInit BY DEF Init
<1>2. [Next]_vars => /\ [StaNext]_staVars /\ [ApNext]_apVars /\ [LifeNext]_lifeVars /\ [RxNext]_rxVars
                     /\ [EvNext]_evVars /\ [KeysNext]_keyVars /\ [DfsNext]_dfsVars /\ [TdlsNext]_tdVars
  BY DEF Next, StaSteps, ApSteps, LifeSteps, RxSteps, EventSteps, KeySteps, DfsSteps, TdlsSteps, vars
<1>3. Spec => StaSpec /\ ApSpec /\ LifeSpec /\ RxSpec /\ EvSpec /\ KeysSpec /\ DfsSpec /\ TdlsSpec
  BY <1>1, <1>2, PTL DEF Spec, StaSpec, ApSpec, LifeSpec, RxSpec, EvSpec, KeysSpec, DfsSpec, TdlsSpec
<1>4. EvSpec => []NoEventMissed BY EventsAreCounted
<1>5. /\ StaTypeOK /\ ApTypeOK /\ LifeTypeOK /\ OpenedIsCounted /\ RxTypeOK /\ NothingStuck /\ EvTypeOK
      /\ NoEventMissed /\ FragmentsOfOne /\ KeysTypeOK /\ DfsTypeOK /\ TdlsTypeOK /\ part \in WifiParts
      => WifiConsistent
  BY DEF WifiConsistent, WifiParts
<1>6. Spec => [](part \in WifiParts)
  <2>1. Init => part \in WifiParts BY DEF Init
  <2>2. part \in WifiParts /\ [Next]_vars => (part \in WifiParts)'
    BY DEF Next, StaSteps, ApSteps, LifeSteps, RxSteps, EventSteps, KeySteps, DfsSteps, TdlsSteps, vars
  <2> QED BY <2>1, <2>2, PTL DEF Spec
<1> QED
  BY <1>3, <1>4, <1>5, <1>6, StaTyping, ApTyping, LifeTyping, OpenedCounts, RxTyping, StoredIsLetGo, EventTyping,
     FragmentsAreOne, KeysTyping, DfsTyping, TdlsTyping, PTL
=============================================================================
