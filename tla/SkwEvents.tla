----------------------------- MODULE SkwEvents -----------------------------
(***************************************************************************)
(* What skw_rx_cb does with what is no plain frame: the events of the      *)
(* firmware, numbered, which it queues for the work of their interface or  *)
(* for the driver's, and the fragments, which wait for the rest of their   *)
(* message (skw_rx.c, skw_msg.c, skw_work.c).                              *)
(***************************************************************************)
EXTENDS Integers, Sequences

CONSTANTS MaxEvents,     \* bound: events sent
          MaxRestarts,   \* bound: recoveries of the firmware
          EventSpace,    \* 65536 in the code
          FragEntries,   \* SKW_MAX_DEFRAG_ENTRY
          Messages       \* bound: fragmented messages

ASSUME EventAssumption == {MaxEvents, MaxRestarts, EventSpace, FragEntries, Messages} \subseteq Nat /\ EventSpace > 0

VARIABLES ev,            \* the events and their two works
          frag           \* iface->frag and the fragments on their way
evVars == <<ev, frag>>

Works == {"iface", "core"}
Unset == -1

(* ev.sent counts the events sent, those up to ev.base by a firmware that   *)
(* has died; ev.sn is skw_event_sn.  History: ev.heard are the events       *)
(* that were queued or were handled inline, ev.gap when one was heard after *)
(* one that was lost.                                                       *)
EvTypeOK ==
    /\ ev.sent \in 0..MaxEvents /\ ev.base \in 0..ev.sent /\ ev.sn \in 0..(EventSpace - 1)
    /\ ev.q \in [Works -> Seq(1..MaxEvents)] /\ ev.heard \subseteq 1..MaxEvents
    /\ {ev.up, ev.assert, ev.gap, ev.disorder, frag.mixed} \subseteq BOOLEAN

EvInit ==
    /\ ev = [sent |-> 0, base |-> 0, sn |-> 0, q |-> [w \in Works |-> <<>>], up |-> TRUE, assert |-> FALSE,
             heard |-> {}, done |-> [w \in Works |-> 0], gap |-> FALSE, disorder |-> FALSE, n |-> 0]
    /\ \E keyed \in BOOLEAN :
          frag = [slot |-> [e \in 1..FragEntries |-> [sn |-> Unset, active |-> FALSE, num |-> 0, pn |-> Unset, got |-> <<>>]],
                  keyed |-> keyed, msg |-> 0, next |-> 0, order |-> [e \in 1..FragEntries |-> e], mixed |-> FALSE]

-----------------------------------------------------------------------------
(* Events.                                                                 *)

skw_queue_event_work(r, w, k) == IF w = "core" \/ r.up THEN [r EXCEPT !.q[w] = Append(@, k)] ELSE r

(* skw_rx_cb: a credit update is handled at once; an event for an interface *)
(* that is gone goes to the driver's work.                                  *)
Heard(r, k) == [r EXCEPT !.heard = @ \union {k}, !.gap = @ \/ \E j \in (r.base + 1)..(k - 1) : j \notin r.heard]
(* Wrong: an event that is out of turn counts as the next one. *)
EventCbLenient(r, k, w) ==
    LET h == [Heard(r, k) EXCEPT !.sn = (k - r.base) % EventSpace]
    IN  IF w = "credit" THEN h ELSE skw_queue_event_work(h, IF w = "iface" /\ ~r.up THEN "core" ELSE w, k)
EventCb(r, k, w) ==
    IF (r.sn + 1) % EventSpace # (k - r.base) % EventSpace
    THEN [r EXCEPT !.sn = (@ + 1) % EventSpace, !.assert = TRUE]
    ELSE LET h == [Heard(r, k) EXCEPT !.sn = (@ + 1) % EventSpace]
         IN  IF w = "credit" THEN h ELSE skw_queue_event_work(h, IF w = "iface" /\ ~r.up THEN "core" ELSE w, k)
skw_rx_cb ==
    \E w \in Works \union {"credit"}, lost \in BOOLEAN :
        LET k == ev.sent + 1
            r == [ev EXCEPT !.sent = k]
        IN  /\ ev.sent < MaxEvents
            /\ ev' = IF lost THEN r ELSE EventCb(r, k, w)
            /\ UNCHANGED frag

(* skw_iface_event_work and skw_default_event_work, one at a time on the    *)
(* ordered event_wq.                                                        *)
skw_event_handler ==
    \E w \in Works :
        /\ ev.q[w] # <<>>
        /\ ev' = [ev EXCEPT !.q[w] = Tail(@), !.done[w] = Head(ev.q[w]),
                            !.disorder = @ \/ Head(ev.q[w]) <= ev.done[w]]
        /\ UNCHANGED frag

(* skw_iface_teardown, and the interface that takes its place. *)
skw_event_work_deinit ==
    /\ ev.up /\ ev.n < MaxRestarts
    /\ ev' = [ev EXCEPT !.up = FALSE, !.q["iface"] = <<>>, !.n = @ + 1]
    /\ frag' = [frag EXCEPT !.slot = [e \in DOMAIN @ |-> [@[e] EXCEPT !.sn = Unset, !.got = <<>>]]]
skw_event_work_init == ~ev.up /\ ev' = [ev EXCEPT !.up = TRUE] /\ UNCHANGED frag

(* skw_recovery_prepare: firmware and driver count from 0 again; what is    *)
(* queued is still handled.                                                 *)
EventsRestart ==
    /\ ev.assert /\ ev.n < MaxRestarts
    /\ ev' = [ev EXCEPT !.assert = FALSE, !.base = ev.sent, !.sn = 0, !.gap = FALSE, !.n = @ + 1]
    /\ UNCHANGED frag

-----------------------------------------------------------------------------
(* Fragments.  Messages of three; every other one reuses a sequence number. *)

FragSn == frag.msg % 2
FragPn(f) == 3 * frag.msg + f

(* frag.order lists the entries, the oldest start first. *)
skw_frag_get_entry(sn) ==
    LET same == {e \in 1..FragEntries : frag.slot[e].sn = sn}
        idle == {e \in 1..FragEntries : ~frag.slot[e].active}
    IN  IF same # {} THEN CHOOSE e \in same : TRUE
        ELSE IF idle # {} THEN CHOOSE e \in idle : TRUE ELSE Head(frag.order)

skw_frag_init_entry(e) ==
    [frag EXCEPT !.slot[e] = [sn |-> FragSn, active |-> TRUE, num |-> 0, pn |-> FragPn(0), got |-> <<frag.msg>>],
                 !.order = Append(SelectSeq(@, LAMBDA x : x # e), e)]

Defragged(e, f) ==
    LET c == frag.slot[e]
        got == Append(c.got, frag.msg)
    IN  IF f < 2 THEN [frag EXCEPT !.slot[e] = [c EXCEPT !.num = f, !.pn = FragPn(f), !.got = got]]
        ELSE [frag EXCEPT !.slot[e] = [c EXCEPT !.sn = Unset, !.active = FALSE, !.got = <<>>],
                          !.mixed = @ \/ ~(\A i \in 1..3 : got[i] = frag.msg)]

(* The next fragment, unless it is lost on the way; one that does not       *)
(* continue what its entry holds is dropped.                                *)
PnContinues(c, f) == frag.keyed => c.pn + 1 = FragPn(f)
skw_rx_defragment ==
    \E lost \in BOOLEAN :
        LET f == frag.next
            fits == {e \in 1..FragEntries : frag.slot[e].sn = FragSn /\ frag.slot[e].num + 1 = f
                                            /\ PnContinues(frag.slot[e], f)}
            r == IF lost THEN frag
                 ELSE IF f = 0 THEN skw_frag_init_entry(skw_frag_get_entry(FragSn))
                 ELSE IF fits = {} THEN frag ELSE Defragged(CHOOSE e \in fits : TRUE, f)
        IN  /\ frag.msg < Messages
            /\ frag' = [r EXCEPT !.next = (f + 1) % 3, !.msg = IF f = 2 THEN @ + 1 ELSE @]
            /\ UNCHANGED ev

EvNext ==
    \/ skw_rx_cb \/ skw_event_handler \/ skw_event_work_deinit \/ skw_event_work_init \/ EventsRestart
    \/ skw_rx_defragment

EvSpec == EvInit /\ [][EvNext]_evVars

-----------------------------------------------------------------------------
(* Properties.                                                             *)

(* No event is heard after one that was lost unless the firmware has been   *)
(* declared dead: the number of the next event gives every loss away.       *)
(* Each work handles its events in the order they were sent.                *)
NoEventMissed == ~ev.disorder /\ (ev.gap => ev.assert)

(* A reassembled message consists of fragments of one message, although     *)
(* entries never expire and sequence numbers come again: the packet         *)
(* numbers of an encrypted link tell them apart.                            *)
FragmentsOfOne == frag.keyed => ~frag.mixed
=============================================================================
