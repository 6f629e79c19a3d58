------------------------------ MODULE SkwTdls -------------------------------
(***************************************************************************)
(* Direct links of a station (skw_tdls.c, skw_cfg80211.c): the frames that *)
(* set them up, with the elements of the supplicant put where the standard *)
(* wants them; the link in the driver and in the firmware; and the rule    *)
(* that the chip is on two channels at most, with what it is computed from.*)
(***************************************************************************)
EXTENDS Naturals, Sequences, FiniteSets

CONSTANTS TdlsChans,     \* channels, as frequencies
          MaxChannels,   \* num_different_channels of the interface combinations
          MaxTdlsOps,    \* bound: operations
          MaxTdlsFaults  \* bound: commands the firmware refuses

ASSUME TdlsAssumption == TdlsChans \subseteq Nat \ {0} /\ {MaxChannels, MaxTdlsOps, MaxTdlsFaults} \subseteq Nat

VARIABLES td             \* station, AP, peer and the last frame
tdVars == <<td>>

(* Channels are 0 if there is none: td.sta and td.apc are what the driver   *)
(* has recorded, td.apon whether the AP runs on it.  td.peer is the peer's  *)
(* context: absent, bound or sending; td.peerc the channel recorded for it. *)
(* td.last is what is in the last slot of vif.iface, where P2P devices are: *)
(* nothing, an interface of the station's lmac or one of another.           *)
LastIfaces == {"none", "own", "other"}
TdlsTypeOK ==
    /\ {td.sta, td.apc, td.peerc, td.fwc} \subseteq TdlsChans \union {0} /\ td.apon \in BOOLEAN
    /\ td.last \in LastIfaces /\ td.peer \in {"none", "bound", "linked"}
    /\ td.fw \in {"none", "bound", "linked"}
    /\ td.ops \in 0..MaxTdlsOps /\ td.faults \in 0..MaxTdlsFaults

NoFrame == [action |-> "none", ies |-> <<>>, els |-> <<>>, allowed |-> {}, bands |-> [b2 |-> <<>>, b5 |-> <<>>], rates |-> 0]
TdlsInit == td \in {[sta |-> 0, apc |-> 0, apon |-> FALSE, peer |-> "none", fw |-> "none", peerc |-> 0, fwc |-> 0,
                     last |-> l, frame |-> NoFrame, odd |-> {}, ops |-> 0, faults |-> 0] : l \in LastIfaces}

-----------------------------------------------------------------------------
(* Frames.  An element is its name and who gave it.                         *)
Driver(name) == <<<<name, "driver">>>>

(* skw_ie_split_ric: as far as the elements are among ids; an element of    *)
(* 255 bytes ("big") takes the fragments after it along.                    *)
skw_skip_ie(ies, pos) ==
    LET frags == {n \in 0..Len(ies) - pos : \A k \in pos + 1..pos + n : ies[k] = "fragment"} IN
    IF ies[pos] # "big" THEN pos + 1 ELSE pos + 1 + (CHOOSE n \in frags : \A m \in frags : m <= n)
skw_ie_split_ric(ies, ids, offset) ==
    LET split[pos \in 1..Len(ies) + 1] ==
            IF pos > Len(ies) \/ ies[pos] \notin ids THEN pos ELSE split[skw_skip_ie(ies, pos)]
    IN split[offset]
Own(ies, from, to) == [k \in 1..to - from |-> <<ies[from + k - 1], "given">>]

before_ext_cap == {"rates", "country", "extrates", "channels", "rsn"}
before_ht_cap == before_ext_cap \union {"extcap", "qos", "ft", "timeout", "opclasses"}
before_ht_op == {"rsn", "qos", "ft", "timeout"}

(* The class of a 20 MHz channel. *)
skw_chandef_to_operating_class(freq) ==
    IF freq >= 2412 /\ freq <= 2472 THEN 81 ELSE IF freq = 2484 THEN 82
    ELSE IF freq >= 5180 /\ freq <= 5240 THEN 115 ELSE IF freq >= 5260 /\ freq <= 5320 THEN 118
    ELSE IF freq >= 5500 /\ freq <= 5720 THEN 121
    ELSE IF freq >= 5745 /\ freq <= 5805 THEN 124 ELSE IF freq > 5805 /\ freq <= 5845 THEN 125 ELSE 0
skw_tdls_add_oper_classes(chan) == IF skw_chandef_to_operating_class(chan) = 0 THEN <<>> ELSE Driver("opclasses")
(* Eight rates in the first element, the others in the second. *)
BandRates(chan) == IF chan < 3000 THEN 12 ELSE 8
skw_add_srates_ie(n) == Driver("rates")
skw_add_ext_srates_ie(n) == IF n > 8 THEN Driver("extrates") ELSE <<>>
(* Of the frequencies from start on, spacing apart, those that are allowed, *)
(* as runs <<first, number>>.                                               *)
Walk(allowed, start, spacing, n) ==
    LET walk[i \in 0..n] ==
            IF i = 0 THEN [bands |-> <<>>, start |-> 0, cnt |-> 0]
            ELSE LET w == walk[i - 1]  freq == start + (i - 1) * spacing IN
                 IF freq \in allowed THEN [w EXCEPT !.start = IF w.cnt = 0 THEN freq ELSE @, !.cnt = @ + 1]
                 ELSE IF w.cnt > 0 THEN [bands |-> Append(w.bands, <<w.start, w.cnt>>), start |-> 0, cnt |-> 0]
                 ELSE w
    IN walk[n]
skw_tdls_add_subband(allowed, start, end, spacing) ==
    LET w == Walk(allowed, start, spacing, (end - start) \div spacing + 1)
    IN IF w.cnt > 0 THEN Append(w.bands, <<w.start, w.cnt>>) ELSE w.bands
skw_tdls_add_supp_channels == Driver("channels")
skw_tdls_add_ext_capab == Driver("extcap")
skw_add_wmm_ie == Driver("wmm")
skw_tdls_add_link_ie == Driver("link")

skw_tdls_add_setup_start_ies(chan, action, ies) ==
    LET n1 == skw_ie_split_ric(ies, before_ext_cap, 1)
        n2 == skw_ie_split_ric(ies, before_ht_cap, n1)
    IN IF chan = 0 THEN <<>>
       ELSE skw_add_srates_ie(BandRates(chan)) \o skw_add_ext_srates_ie(BandRates(chan))
            \o skw_tdls_add_supp_channels \o Own(ies, 1, n1) \o skw_tdls_add_ext_capab
            \o (IF action = "discover_res" THEN <<>> ELSE skw_add_wmm_ie) \o Own(ies, n1, n2)
            \o skw_tdls_add_oper_classes(chan) \o skw_tdls_add_link_ie \o Own(ies, n2, Len(ies) + 1)
skw_tdls_add_setup_cfm_ies(ies, wmm) ==
    LET n1 == skw_ie_split_ric(ies, {"rsn"}, 1)
        n2 == skw_ie_split_ric(ies, before_ht_op, n1)
    IN Own(ies, 1, n1) \o (IF wmm THEN skw_add_wmm_ie ELSE <<>>) \o Own(ies, n1, n2)
       \o skw_tdls_add_link_ie \o Own(ies, n2, Len(ies) + 1)
(* Without a channel definition, which nobody passes, a request to switch   *)
(* channels has no elements.                                                *)
skw_tdls_add_chan_switch_req_ies == <<>>
skw_tdls_add_ies(chan, action, ok, wmm, ies) ==
    CASE action \in {"setup_req", "setup_resp", "discover_res"} ->
              IF ok THEN skw_tdls_add_setup_start_ies(chan, action, ies) ELSE <<>>
      [] action = "setup_cfm" -> IF ok THEN skw_tdls_add_setup_cfm_ies(ies, wmm) ELSE <<>>
      [] action = "discover_req" -> Own(ies, 1, Len(ies) + 1) \o (IF ok THEN skw_tdls_add_link_ie ELSE <<>>)
      [] action = "teardown" -> Own(ies, 1, Len(ies) + 1) \o skw_tdls_add_link_ie
      [] OTHER -> skw_tdls_add_chan_switch_req_ies

TdlsOp == td.ops < MaxTdlsOps
DidTdls(t) == [t EXCEPT !.ops = @ + 1, !.frame = NoFrame]
(* What the supplicant hands over, in the standard's order. *)
Given == {SelectSeq(<<"rsn", "ft", "timeout", "big", "fragment">>, LAMBDA e : e \in S) :
             S \in {T \in SUBSET {"rsn", "ft", "timeout", "big", "fragment"} : "fragment" \in T => "big" \in T}}
(* The channels of the chip, by their frequencies, and sets of them that a  *)
(* regulatory domain may allow; every other one makes the most runs.        *)
Channels2G == {2407 + 5 * n : n \in 1..13} \union {2484}
Channels5G == {5000 + 5 * n : n \in {4 * k : k \in 9..16} \union {4 * k : k \in 25..36} \union {4 * k + 1 : k \in 37..45}}
Alloweds == {{}, Channels2G \union Channels5G, {2412, 2437, 2462} \union {f \in Channels5G : f < 5300 \/ f > 5700},
             {f \in Channels2G : f % 10 = 2} \union {f \in Channels5G : f % 40 = 20}}
SuppBands == [allowed \in Alloweds |-> [b2 |-> skw_tdls_add_subband(allowed, 2412, 2472, 5),
                                        b5 |-> skw_tdls_add_subband(allowed, 5000, 5825, 20)]]
Built(action, els, ies, allowed) ==
    [action |-> action, ies |-> ies, els |-> els, allowed |-> allowed,
     bands |-> SuppBands[allowed], rates |-> BandRates(td.sta)]
(* bound: a frame is built from the station's channel, so before anything   *)
(* but the join.                                                            *)
FrameTime == TdlsOp /\ td.ops <= 1 /\ td.frame = NoFrame
(* A confirmation that is built once the station has lost its AP reads the  *)
(* channel through a null pointer.                                          *)
skw_tdls_build_send_encap_data ==
    /\ FrameTime
    /\ \E action \in {"setup_req", "setup_resp", "setup_cfm", "discover_req", "teardown", "chan_req", "chan_resp"},
          ok, wmm \in BOOLEAN, ies \in Given, allowed \in Alloweds :
          td' = [DidTdls(td) EXCEPT
                   !.frame = Built(IF ok THEN action ELSE "refusal", skw_tdls_add_ies(td.sta, action, ok, wmm, ies), ies, allowed),
                   !.odd = IF action = "setup_cfm" /\ ok /\ td.sta = 0 THEN @ \union {"nullchannel"} ELSE @]
skw_tdls_build_send_direct ==
    /\ FrameTime /\ td.sta # 0 /\ \E ies \in Given :
          td' = [DidTdls(td) EXCEPT !.frame = Built("discover_res", skw_tdls_add_ies(td.sta, "discover_res", TRUE, FALSE, ies),
                                                    ies, {})]

-----------------------------------------------------------------------------
(* Channels and links.                                                      *)

(* The recorded channels, that of the direct link if one is up, and the new.*)
(* The record of an AP outlives it, and counts.  The link's is looked for   *)
(* on the lmac of whatever the loop over the interfaces ended with, the     *)
(* last slot: without an interface there that is a null pointer, and one of *)
(* another lmac hides it.                                                   *)
LinkUp(t) == t.sta # 0 /\ t.peer = "linked"
NoLastIface(t) == LinkUp(t) /\ t.last = "none"
Recorded(t) == ({t.apc, t.sta} \union (IF LinkUp(t) /\ t.last = "own" THEN {t.peerc} ELSE {})) \ {0}
skw_channel_allowed(t, c) == Cardinality(Recorded(t) \union {c}) <= MaxChannels
\* The channels the chip is on.
OnAir(t) == ({t.sta, t.fwc} \union (IF t.apon THEN {t.apc} ELSE {})) \ {0}

RefusedBy(t) == [t EXCEPT !.faults = @ + 1]
MayRefuse == td.faults < MaxTdlsFaults
StaJoins == /\ TdlsOp /\ td.sta = 0 /\ \E c \in TdlsChans : /\ skw_channel_allowed(td, c) /\ td' = [DidTdls(td) EXCEPT !.sta = c]
(* The peer stays until the supplicant, told to tear the link down, does.   *)
StaLeaves == td.sta # 0 /\ td' = [td EXCEPT !.sta = 0, !.fw = "none", !.fwc = 0, !.frame = NoFrame]
ApStarts == /\ TdlsOp /\ ~td.apon /\ \E c \in TdlsChans :
                  /\ ~NoLastIface(td) /\ skw_channel_allowed(td, c)
                  /\ td' = [DidTdls(td) EXCEPT !.apc = c, !.apon = TRUE,
                               !.odd = @ \union (IF td.fwc # 0 /\ td.last = "other" THEN {"uncounted"} ELSE {})]
ApStops == td.apon /\ td' = [td EXCEPT !.apon = FALSE, !.frame = NoFrame]

PeerAdded == TdlsOp /\ td.sta # 0 /\ td.peer = "none" /\ td' = [DidTdls(td) EXCEPT !.peer = "bound", !.peerc = 0, !.fw = "bound"]

(* The driver's side goes first; what the firmware answers is passed on but *)
(* changes nothing here.                                                    *)
skw_tdls_oper ==
    /\ TdlsOp /\ td.peer # "none"
    /\ \/ /\ td.peer = "bound"
          /\ \/ td' = [DidTdls(td) EXCEPT !.peer = "linked", !.fw = IF td.sta # 0 /\ @ = "bound" THEN "linked" ELSE @]
             \/ MayRefuse /\ td' = [DidTdls(RefusedBy(td)) EXCEPT !.peer = "linked", !.odd = @ \union {"refused"}]
       \/ \/ td' = [DidTdls(td) EXCEPT !.peer = "none", !.peerc = 0, !.fw = "none", !.fwc = 0]
          \/ /\ MayRefuse /\ td.fw # "none"
             /\ td' = [DidTdls(RefusedBy(td)) EXCEPT !.peer = "none", !.peerc = 0, !.odd = @ \union {"refused"}]

skw_tdls_chn_switch ==
    /\ TdlsOp /\ td.peer # "none" /\ td.fw # "none"
    /\ \E c \in TdlsChans : /\ ~NoLastIface(td) /\ skw_channel_allowed(td, c)
                            /\ \/ td' = [DidTdls(td) EXCEPT !.peerc = c, !.fwc = c,
                                                !.odd = IF td.peer = "linked" THEN @ ELSE @ \union {"unlinked"}]
                               \/ MayRefuse /\ td' = DidTdls(RefusedBy(td))
(* The check of an AP's or a link's channel; the kernel stops there. *)
NullIfaceRead == TdlsOp /\ NoLastIface(td) /\ td' = [DidTdls(td) EXCEPT !.odd = @ \union {"nulliface"}]
(* The firmware returns to the AP's channel; the record stays. *)
skw_tdls_cancel_chn_switch == TdlsOp /\ td.peer # "none" /\ td.fwc # 0 /\ td' = [DidTdls(td) EXCEPT !.fwc = 0]

(* The station's AP has announced another channel, or the firmware moves    *)
(* the interface's own AP: the record follows, and nothing is checked.      *)
Switched(t) == [t EXCEPT !.odd = @ \union (IF Cardinality(OnAir(t)) > MaxChannels THEN {"switched"} ELSE {})]
ChannelSwitched ==
    /\ TdlsOp /\ \E c \in TdlsChans : \/ td.sta # 0 /\ td' = Switched([DidTdls(td) EXCEPT !.sta = c])
                                      \/ td.apon /\ td' = Switched([DidTdls(td) EXCEPT !.apc = c])
(* A P2P device comes or goes, or its lmac changes. *)
LastIface == \E l \in LastIfaces : l # td.last /\ td.frame = NoFrame /\ td' = [td EXCEPT !.last = l]

TdlsNext ==
    /\ "nulliface" \notin td.odd
    /\ \/ skw_tdls_build_send_encap_data \/ skw_tdls_build_send_direct
       \/ StaJoins \/ StaLeaves \/ ApStarts \/ ApStops \/ PeerAdded \/ NullIfaceRead
       \/ skw_tdls_oper \/ skw_tdls_chn_switch \/ skw_tdls_cancel_chn_switch
       \/ ChannelSwitched \/ LastIface
TdlsSpec == TdlsInit /\ [][TdlsNext]_tdVars

(* Every element the supplicant gives is in the frame, in its order, and    *)
(* with it the frame is in the order of the standard: RSN before the        *)
(* extended capabilities, these before WMM, fast transition and timeout,    *)
(* then the classes, the link identifier and last the vendor's; a fragment  *)
(* follows what it continues.  The channels listed are those allowed, but   *)
(* for channel 14 and those from 5745 MHz on, which steps of 20 from 5000   *)
(* never meet; and every element fits the room its kind has in the buffer,  *)
(* whose size is computed before the elements are.                          *)
Rank(e) == CASE e = "rates" -> 1 [] e = "extrates" -> 3 [] e = "channels" -> 4 [] e = "rsn" -> 5
             [] e = "extcap" -> 6 [] e = "wmm" -> 7 [] e = "ft" -> 8 [] e = "timeout" -> 9
             [] e = "opclasses" -> 10 [] e = "link" -> 12 [] e = "big" -> 13 [] OTHER -> 14
Size(e, f) == CASE e = "rates" -> 10 [] e = "extrates" -> 2 + f.rates - 8
                [] e = "channels" -> 2 + 2 * (Len(f.bands.b2) + Len(f.bands.b5))
                [] e = "extcap" -> 10 [] e = "wmm" -> 26 [] e = "opclasses" -> 4 [] e = "link" -> 20 [] OTHER -> 0
(* Of these 50 the two elements of rates share. *)
skw_tdls_build_send_mgmt(e) == CASE e = "rates" -> 10 [] e = "extrates" -> 40 [] e = "channels" -> 50
                                 [] e = "extcap" -> 10 [] e = "wmm" -> 26 [] e = "opclasses" -> 4 [] e = "link" -> 20 [] OTHER -> 0
ListedIn(runs, spacing) == UNION {{runs[b][1] + k * spacing : k \in 0..runs[b][2] - 1} : b \in 1..Len(runs)}
TdlsFrameOrder ==
    LET f == td.frame
        own == SelectSeq(f.els, LAMBDA e : e[2] = "given")
    IN f.action \in {"setup_req", "setup_resp", "setup_cfm", "discover_res"} /\ f.els # <<>> =>
          /\ ListedIn(f.bands.b2, 5) = {c \in f.allowed : c < 2484}
          /\ ListedIn(f.bands.b5, 20) = {c \in f.allowed : c > 2484 /\ c < 5745}
          /\ \A k \in 1..Len(f.els) : f.els[k][2] = "driver" => Size(f.els[k][1], f) <= skw_tdls_build_send_mgmt(f.els[k][1])
          /\ own = Own(f.ies, 1, Len(f.ies) + 1)
          /\ \A i, j \in 1..Len(f.els) : i < j => Rank(f.els[i][1]) < Rank(f.els[j][1])

(* The chip is never on more channels than it can be, and a link enabled in *)
(* the firmware sends in the driver.  Exceptions: a link that was made to   *)
(* switch before it was enabled, or whose end the firmware did not take; an *)
(* AP that was started while the last interface hid the link's channel; and *)
(* a switch that the AP or the firmware ordered.                            *)
ChannelsBounded ==
    /\ td.odd \intersect {"unlinked", "refused", "uncounted", "switched"} = {} => Cardinality(OnAir(td)) <= MaxChannels
    /\ td.sta # 0 /\ "refused" \notin td.odd => (td.fw = "linked" => td.peer = "linked")
=============================================================================
