------------------------------ MODULE SkwKeys -------------------------------
(***************************************************************************)
(* The keys of an interface (skw_cfg80211.c): those the driver records per *)
(* key index, those it buffers until the AP has started, and those the     *)
(* firmware holds.  The calls come from cfg80211 one at a time; what can   *)
(* differ from call to call is the firmware's answer.                      *)
(***************************************************************************)
EXTENDS Naturals, Sequences

CONSTANTS KeyIdx,       \* key indices
          MaxBufKeys,   \* SKW_MAX_BUF_KEYS
          MaxKeyOps,    \* bound: keys that are added
          MaxKeyFaults  \* bound: commands the firmware refuses

ASSUME KeysAssumption == KeyIdx \subseteq Nat /\ KeyIdx # {} /\ {MaxBufKeys, MaxKeyOps, MaxKeyFaults} \subseteq Nat

VARIABLES kc,   \* the interface: key_conf, buf_keys, the peer's ptk_conf
          kf    \* the firmware's keys and the history
keyVars == <<kc, kf>>

(* A slot of the firmware: the group's or the pairwise key of an index for  *)
(* everybody, or the pairwise key of the peer.  A key is the number of the  *)
(* call that brought it, 0 for none.                                        *)
KeySlots == {"gtk", "ptk"} \X KeyIdx \union {<<"peer", 0>>}
Number == 0..MaxKeyOps
KeysTypeOK ==
    /\ {kc.ap, kc.wep, kc.started, kc.peer, kc.share} \subseteq BOOLEAN /\ kc.flags \subseteq {"gtk", "ptk"}
    /\ kc.key \in [KeyIdx -> Number] /\ kc.ptk \in Number /\ kc.wepidx \in KeyIdx \union {0}
    /\ Len(kc.buf) <= MaxBufKeys /\ kf.slot \in [KeySlots -> Number] /\ kf.n \in Number

NoKeys == [i \in KeyIdx |-> 0]
KeysInit ==
    /\ \E ap, wep \in BOOLEAN :
          kc = [ap |-> ap, wep |-> wep, started |-> FALSE, peer |-> FALSE, share |-> FALSE, flags |-> {}, wepidx |-> 0,
                key |-> NoKeys, ptk |-> 0, buf |-> <<>>]
    /\ kf = [slot |-> [s \in KeySlots |-> 0], n |-> 0, faults |-> 0, odd |-> {}]

Stored(f, s, k) == [f EXCEPT !.slot[s] = k]
KeyOdd(f, what) == [f EXCEPT !.odd = @ \union what]

-----------------------------------------------------------------------------
(* SKW_CMD_ADD_KEY: the possible outcomes <<interface, firmware, success>>. *)
(* The keys of an AP that has not started wait for it; the one that finds   *)
(* the buffer full goes at once, and those of the buffer are sent after it. *)
Asked(k, f, s, n) ==
    {<<k, Stored(f, s, n), TRUE>>} \union
    (IF f.faults < MaxKeyFaults THEN {<<k, [f EXCEPT !.faults = @ + 1], FALSE>>} ELSE {})
skw_cmd_add_key(k, f, s, n) ==
    IF k.ap /\ ~k.started
    THEN IF Len(k.buf) < MaxBufKeys THEN {<<[k EXCEPT !.buf = Append(@, <<s, n>>)], f, TRUE>>}
         ELSE Asked(k, KeyOdd(f, {"overflow"}), s, n)
    ELSE Asked(k, f, s, n)

(* skw_set_key for the interface: WEP keys are only recorded.  If the       *)
(* firmware refuses, the record is cleared although it keeps the key that   *)
(* was to be replaced.  Wrong: the record stays.                            *)
SetKeyKeeps(k, f, i, n) ==
    LET k1 == [k EXCEPT !.key[i] = n] IN
    {<<o[1], o[2]>> : o \in skw_cmd_add_key(k1, f, <<"gtk", i>>, n)}
skw_set_key(k, f, i, n) ==
    LET k1 == [k EXCEPT !.key[i] = n] IN
    IF k.wep THEN {<<[k1 EXCEPT !.share = TRUE], f>>}
    ELSE {IF o[3] THEN <<o[1], o[2]>>
          ELSE <<[o[1] EXCEPT !.key[i] = 0], IF k.key[i] # 0 THEN KeyOdd(o[2], {"unreplaced"}) ELSE o[2]>> :
             o \in skw_cmd_add_key(k1, f, <<"gtk", i>>, n)}

NewKey == kf.n < MaxKeyOps
Fresh == [kf EXCEPT !.n = @ + 1]
(* skw_add_key: for all, or pairwise for the peer (without one it returns   *)
(* success and does nothing).                                               *)
skw_add_key ==
    /\ NewKey /\ (kc.ap \/ kc.peer)
    /\ \E i \in KeyIdx : \E o \in skw_set_key(kc, Fresh, i, kf.n + 1) : kc' = o[1] /\ kf' = o[2]
AddPairwise ==
    /\ NewKey /\ kc.peer /\ ~kc.wep
    /\ \E o \in skw_cmd_add_key(kc, Fresh, <<"peer", 0>>, kf.n + 1) :
          /\ kc' = [o[1] EXCEPT !.ptk = IF o[3] THEN kf.n + 1 ELSE 0]
          /\ kf' = IF ~o[3] /\ kc.ptk # 0 THEN KeyOdd(o[2], {"unreplaced"}) ELSE o[2]

(* skw_remove_key: whatever the firmware answers, the record goes.  A key   *)
(* that is still buffered stays so.                                         *)
Removed(k, f, s) ==
    LET g == IF \E b \in 1..Len(k.buf) : k.buf[b][1] = s THEN KeyOdd(f, {"ghost"}) ELSE f IN
    {Stored(g, s, 0)} \union
    (IF f.faults < MaxKeyFaults THEN {[KeyOdd(g, {"undeleted"}) EXCEPT !.faults = @ + 1]} ELSE {})
skw_del_key ==
    \/ \E i \in KeyIdx : /\ kc.key[i] # 0 /\ kf' \in Removed(kc, kf, <<"gtk", i>>)
                         /\ kc' = [kc EXCEPT !.key[i] = 0, !.share = FALSE, !.flags = IF kc.share THEN {} ELSE @]
    \/ /\ kc.peer /\ kc.ptk # 0 /\ kf' \in Removed(kc, kf, <<"peer", 0>>) /\ kc' = [kc EXCEPT !.ptk = 0]

(* For WEP.  A kind of key the firmware refuses is marked, and asked for    *)
(* again when the AP starts.                                                *)
Defaulted(k, f, i, kinds) ==
    LET one(S, kind) ==
            IF kind \notin kinds THEN S
            ELSE UNION {{IF o[3] THEN <<o[1], o[2]>> ELSE <<[o[1] EXCEPT !.flags = @ \union {kind}], o[2]>> :
                            o \in skw_cmd_add_key(p[1], p[2], <<kind, i>>, p[1].key[i])} : p \in S}
    IN IF k.key[i] = 0 THEN {<<k, f>>} ELSE one(one({<<[k EXCEPT !.wepidx = i], f>>}, "ptk"), "gtk")
skw_set_default_key ==
    /\ kc.wep /\ \E i \in KeyIdx, kinds \in {{"ptk"}, {"gtk"}, {"ptk", "gtk"}} :
          /\ kc.key[i] # 0 /\ kf.n < MaxKeyOps
          /\ \E o \in Defaulted(kc, Fresh, i, kinds) : kc' = o[1] /\ kf' = o[2]

-----------------------------------------------------------------------------
(* The AP starts: the marked WEP keys, then the buffer, one command after   *)
(* the other, whose answers are not looked at.                              *)
Sent(f, buf) ==
    LET flush[b \in 0..Len(buf)] == IF b = 0 THEN f ELSE Stored(flush[b - 1], buf[b][1], buf[b][2]) IN flush
Flushed(f, buf) ==
    {Sent(f, buf)[Len(buf)]} \union
    (IF f.faults < MaxKeyFaults /\ buf # <<>>
     THEN {[KeyOdd(Sent(f, buf)[Len(buf) - 1], {"unflushed"}) EXCEPT !.faults = @ + 1]} ELSE {})
skw_start_ap_keys ==
    /\ kc.ap /\ ~kc.started
    /\ \E o \in IF kc.flags = {} THEN {<<kc, kf>>} ELSE Defaulted(kc, kf, kc.wepidx, kc.flags) :
          /\ kf' \in Flushed(o[2], o[1].buf)
          /\ kc' = [o[1] EXCEPT !.buf = <<>>, !.started = TRUE]

(* A peer joins: that of a WEP AP gets its key, if there is just one        *)
(* (skw_key_idx is defined for a single bit only).                          *)
skw_key_idx(k) == {i \in KeyIdx : k.key[i] # 0 /\ \A j \in KeyIdx \ {i} : k.key[j] = 0}
skw_set_sta_wep_key ==
    /\ ~kc.peer /\ (kc.ap => kc.started)
    /\ IF kc.ap /\ kc.share /\ skw_key_idx(kc) # {}
       THEN \E i \in skw_key_idx(kc) : \E o \in skw_cmd_add_key(kc, kf, <<"peer", 0>>, kc.key[i]) :
               kc' = [o[1] EXCEPT !.peer = TRUE] /\ kf' = o[2]
       ELSE kc' = [kc EXCEPT !.peer = TRUE] /\ UNCHANGED kf

(* It leaves, or the AP stops, or the station its AP: the firmware forgets. *)
PeerLeaves ==
    /\ kc.ap /\ kc.peer /\ kc' = [kc EXCEPT !.peer = FALSE, !.ptk = 0] /\ kf' = Stored(kf, <<"peer", 0>>, 0)
skw_purge_key_conf ==
    /\ IF kc.ap THEN kc.started /\ ~kc.peer ELSE kc.peer
    /\ kc' = [kc EXCEPT !.key = NoKeys, !.ptk = 0, !.share = FALSE, !.flags = {}, !.started = FALSE, !.peer = FALSE]
    /\ kf' = [kf EXCEPT !.slot = [s \in KeySlots |-> 0], !.odd = {}]

KeysNext ==
    \/ skw_add_key \/ AddPairwise \/ skw_del_key \/ skw_set_default_key
    \/ skw_start_ap_keys \/ skw_set_sta_wep_key \/ PeerLeaves \/ skw_purge_key_conf
KeysSpec == KeysInit /\ [][KeysNext]_keyVars

(* What the driver has on record is what the firmware encrypts with: for a  *)
(* running AP or a connected station the group's and the peer's keys are    *)
(* the same on both sides, with nothing left in the buffer; an AP that has  *)
(* not started has them in the buffer.  Where they differ, one of these has *)
(* happened: a replacement or a deletion was refused, a buffered key was    *)
(* deleted before the start, the buffer overflowed, a buffered key was      *)
(* refused at the start.                                                    *)
KeysAgree ==
    LET active == IF kc.ap THEN kc.started ELSE kc.peer IN
    /\ active => kc.buf = <<>>
    /\ active /\ ~kc.wep /\ kf.odd = {} =>
          /\ \A i \in KeyIdx : kf.slot[<<"gtk", i>>] = kc.key[i]
          /\ kf.slot[<<"peer", 0>>] = kc.ptk
    /\ kc.ap /\ ~kc.started /\ ~kc.wep /\ kf.odd = {} =>
          \A i \in KeyIdx : kc.key[i] # 0 => \E b \in 1..Len(kc.buf) : kc.buf[b] = <<<<"gtk", i>>, kc.key[i]>>
=============================================================================
