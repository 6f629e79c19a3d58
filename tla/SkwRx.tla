------------------------------- MODULE SkwRx -------------------------------
(***************************************************************************)
(* The receive path (skw_rx.c): the reorder buffer of one tid, with the    *)
(* timer and the todo that release what waits too long, the replay check   *)
(* of what it lets go.                                                     *)
(*                                                                         *)
(* Frames are numbered without end; the code sees the number modulo the    *)
(* sequence space.  A sender has at most BufSize frames in the air from    *)
(* ro.base on, repeats them and gives them up.  Age marks what is stored   *)
(* as older than reorder_timeout.                                          *)
(***************************************************************************)
EXTENDS Integers, Sequences, FiniteSets

CONSTANTS SnSpace,       \* 4096 in the code
          BufSize,       \* the buffer size agreed, which the code doubles
          FirstFrame, LastFrame, \* bound: the frames of the sender
          Amsdus,        \* the frames that are A-MSDUs of two
          MaxBaOps       \* bound: BA sessions, BARs

ASSUME RxAssumption == /\ {SnSpace, BufSize, FirstFrame, LastFrame, MaxBaOps} \subseteq Nat
                       /\ BufSize > 0 /\ FirstFrame <= LastFrame
                       /\ 4 * BufSize < SnSpace /\ SnSpace % (2 * BufSize) = 0

VARIABLE ro              \* reorder, tid_rx, and the sender
rxVars == ro

WinSize == 2 * BufSize
No == -1
Hole == [a |-> No, st |-> "none"]
Sn(a) == a % SnSpace

(* A slot holds a whole frame, or of an A-MSDU the "first" part, "tfirst"   *)
(* if it is tainted, or the "last"; "made" stands for a frame that the      *)
(* firmware dropped.  ro.rel, go, drop and release are locals of a call:    *)
(* the release list, how skw_reorder_release goes on, and two flags.        *)
(* History: ro.last delivered, which stands for rx_pn too, packet numbers   *)
(* growing with the frames; ro.back when one was delivered again or         *)
(* after a later one; ro.slipped, the window was left behind a frame it     *)
(* had let go, or the session has ended; ro.skew, a tainted A-MSDU          *)
(* disturbed the count or the window.                                       *)
States == {"msdu", "whole", "first", "tfirst", "last", "made"}
RxTypeOK ==
    /\ {ro.win, ro.stored} \subseteq Nat /\ {ro.timer, ro.todo} \subseteq Nat \union {No}
    /\ ro.buf \in [0..(WinSize - 1) -> [a : FirstFrame..LastFrame, st : States \ {"msdu"}] \union {Hole}]
    /\ ro.old \subseteq 0..(WinSize - 1) /\ ro.rel = <<>> /\ ro.go = "stop" /\ ~ro.drop /\ ~ro.release
    /\ ro.base \in FirstFrame..LastFrame /\ ro.last \in (FirstFrame..LastFrame) \union {No}
    /\ {ro.live, ro.keyed, ro.back, ro.slipped, ro.skew} \subseteq BOOLEAN

(* The window of a session that begins at ssn. *)
Window(r, ssn) == [r EXCEPT !.live = TRUE, !.win = ssn, !.buf = [i \in 0..(WinSize - 1) |-> Hole], !.stored = 0,
                            !.timer = No, !.todo = No, !.old = {}]
RxInit ==
    \E keyed \in BOOLEAN :
        ro = Window([base |-> FirstFrame, keyed |-> keyed, last |-> No, back |-> FALSE, slipped |-> FALSE, skew |-> FALSE,
                     rel |-> <<>>, grave |-> <<>>, n |-> 0, go |-> "stop", drop |-> FALSE, release |-> FALSE,
                     live |-> FALSE, win |-> 0, buf |-> <<>>, stored |-> 0, timer |-> No, todo |-> No, old |-> {}],
                    Sn(FirstFrame))

-----------------------------------------------------------------------------
(* The reorder buffer.                                                     *)

ieee80211_sn_less(a, b) == (a - b) % SnSpace > SnSpace \div 2
ieee80211_sn_inc(a) == (a + 1) % SnSpace
Slot(sn) == sn % WinSize

is_skw_release_ready(s) == s.st \in {"whole", "made"}
Emptied(r, i) == [r EXCEPT !.buf[i] = Hole, !.old = @ \ {i}]

(* The sequence number is not reduced when it comes from win_start + i. *)
skw_set_reorder_timer(r, sn) ==
    IF r.timer # No \/ r.buf[Slot(sn)] = Hole THEN r
    ELSE IF Slot(sn) \notin r.old THEN [r EXCEPT !.timer = sn]
    ELSE IF r.todo = No THEN [r EXCEPT !.todo = sn] ELSE r

(* With nothing stored the window goes to to_sn, otherwise past it. *)
ForceStep(r, to) ==
    IF ~ieee80211_sn_less(r.win, ieee80211_sn_inc(to)) THEN r
    ELSE IF r.stored = 0 THEN [r EXCEPT !.win = to]
    ELSE LET i == Slot(r.win)
             s == r.buf[i]
         IN  [Emptied(r, i) EXCEPT !.win = ieee80211_sn_inc(r.win), !.stored = IF s = Hole THEN @ ELSE @ - 1,
                                   !.rel = IF s = Hole \/ s.st = "tfirst" THEN @ ELSE Append(@, s)]
skw_reorder_force_release(r, to) ==
    LET late == r.timer # No /\ (ieee80211_sn_less(r.timer, to) \/ ieee80211_sn_less(to, r.win))
        f[k \in 0..(SnSpace \div 2)] ==
            IF k = 0 THEN IF late THEN [r EXCEPT !.timer = No] ELSE r ELSE ForceStep(f[k - 1], to)
    IN  f[SnSpace \div 2]

(* The frame at the head of the window, if the way to it is clear.  A       *)
(* tainted one is thrown away, uncounted, and the window stays.             *)
ReleaseHead(q, i, sn) ==
    LET r == IF q.timer = q.win THEN [q EXCEPT !.timer = No] ELSE q
        s == r.buf[i]
    IN  IF s.st = "tfirst" THEN [Emptied(r, i) EXCEPT !.go = "gap", !.skew = TRUE]
        ELSE IF is_skw_release_ready(s) \/ i \in r.old
        THEN [Emptied(r, i) EXCEPT !.rel = Append(@, s), !.win = ieee80211_sn_inc(@), !.stored = @ - 1]
        ELSE [skw_set_reorder_timer(r, sn) EXCEPT !.go = "stop"]
ReleaseStep(q, sn) ==
    LET i == Slot(sn)
    IN  IF q.go = "stop" THEN q
        ELSE IF q.stored = 0 THEN [q EXCEPT !.timer = No, !.go = "stop"]
        ELSE IF q.buf[i] = Hole THEN [q EXCEPT !.go = IF q.timer # No THEN "stop" ELSE "gap"]
        ELSE IF q.go = "rel" THEN ReleaseHead(q, i, sn)
        ELSE IF i \in q.old THEN [skw_reorder_force_release(q, sn) EXCEPT !.go = "rel"]
        ELSE [skw_set_reorder_timer(q, sn) EXCEPT !.go = "stop"]
skw_reorder_release(r) ==
    LET f[k \in 0..WinSize] == IF k = 0 THEN [r EXCEPT !.go = "rel"] ELSE ReleaseStep(f[k - 1], r.win + k - 1)
    IN  IF r.live THEN [f[WinSize] EXCEPT !.go = "stop"] ELSE r

-----------------------------------------------------------------------------
(* What was released goes through the replay check to the network stack.   *)

(* The same number again passes for another part of an A-MSDU. *)
skw_pn_allowed(q, s) == s.a > q.last \/ (s.a = q.last /\ s.a \in Amsdus)
(* Wrong: an A-MSDU is never a replay. *)
ReplayAmsdu(q, s) == ~q.keyed \/ s.a > q.last \/ s.a \in Amsdus
skw_replay_detect(q, s) == ~q.keyed \/ skw_pn_allowed(q, s)
skw_deliver_skb(q, s) ==
    IF s.st = "made" \/ ~skw_replay_detect(q, s) THEN q
    ELSE [q EXCEPT !.last = s.a, !.back = @ \/ s.a < q.last \/ (s.a = q.last /\ s.a \notin Amsdus)]
skw_rx_handler(r) ==
    LET f[k \in 0..Len(r.rel)] == IF k = 0 THEN r ELSE skw_deliver_skb(f[k - 1], r.rel[k])
    IN  [f[Len(r.rel)] EXCEPT !.rel = <<>>]

-----------------------------------------------------------------------------
(* skw_ampdu_reorder: a frame arrives.                                     *)

(* A frame beyond the window takes the window along.  When nothing is       *)
(* stored, or no longer, it ends one short, on the slot that the frame      *)
(* itself will take.                                                        *)
OutOfWindow(r, a) ==
    IF ieee80211_sn_less(Sn(a), r.win + WinSize) THEN r
    ELSE LET f == skw_reorder_force_release(r, (Sn(a) - WinSize) % SnSpace)
         IN  [f EXCEPT !.release = TRUE, !.slipped = @ \/ ~ieee80211_sn_less(Sn(a), f.win + WinSize)]

(* The frame is whole: it goes at once if the window starts with it. *)
Complete(q, a, s) ==
    IF Sn(a) = q.win
    THEN [Emptied(q, Slot(Sn(a))) EXCEPT !.rel = Append(@, s), !.timer = IF @ = q.win THEN No ELSE @,
                                         !.win = ieee80211_sn_inc(@), !.release = TRUE]
    ELSE [q EXCEPT !.buf[Slot(Sn(a))] = s, !.stored = @ + 1]

(* One part of an A-MSDU.  A tainted one that is complete is thrown away    *)
(* and the window moved, wherever it started.                               *)
AmsduPart(q, a, kind) ==
    LET i == Slot(Sn(a))
        s == q.buf[i]
        tainted == "tfirst" \in {s.st, kind}
    IN  IF s = Hole THEN [q EXCEPT !.buf[i] = [a |-> a, st |-> kind], !.stored = @ + 1]
        ELSE IF is_skw_release_ready(s) \/ (s.st = "last") = (kind = "last") THEN [q EXCEPT !.drop = TRUE]
        ELSE LET c == [Emptied(q, i) EXCEPT !.stored = @ - 1]
             IN  IF tainted THEN [c EXCEPT !.win = ieee80211_sn_inc(@), !.drop = TRUE,
                                           !.skew = @ \/ Sn(a) # q.win]
                 ELSE Complete([c EXCEPT !.old = q.old], a, [a |-> a, st |-> "whole"])

Settle(q, a) ==
    LET r == [q EXCEPT !.drop = FALSE, !.release = FALSE]
    IN  IF q.stored = 0 THEN [r EXCEPT !.timer = No]
        ELSE IF q.release THEN skw_reorder_release(r)
        ELSE IF q.drop THEN r ELSE skw_set_reorder_timer(r, Sn(a))

skw_ampdu_reorder(r, a, kind) ==
    IF ~r.live THEN [r EXCEPT !.rel = Append(@, [a |-> a, st |-> kind])]
    ELSE IF ieee80211_sn_less(Sn(a), r.win) THEN Settle([r EXCEPT !.drop = TRUE], a)
    ELSE LET q == OutOfWindow(r, a)
             k == IF kind = "msdu" THEN "whole" ELSE kind
         IN  Settle(IF a \in Amsdus THEN AmsduPart(q, a, kind)
                    ELSE IF q.buf[Slot(Sn(a))] # Hole THEN [q EXCEPT !.drop = TRUE]
                    ELSE Complete(q, a, [a |-> a, st |-> k]), a)

skw_rx_todo(r) ==
    IF r.todo = No THEN r
    ELSE LET f == IF r.live THEN skw_reorder_force_release(r, r.todo) ELSE r
         IN  skw_rx_handler(skw_reorder_release([f EXCEPT !.todo = No]))

(* What the sender sends reaches the rx thread: a part of an A-MSDU, a      *)
(* frame, or the mark of one that the firmware had to drop.                 *)
FramesOf(a) == IF a \in Amsdus THEN {"first", "tfirst", "last"} ELSE {"msdu", "made"}
skw_rx_data_handler ==
    \E a \in (ro.base - 1)..(ro.base + BufSize - 1) :
        /\ a \in FirstFrame..LastFrame
        /\ \E kind \in FramesOf(a) : ro' = skw_rx_todo(skw_rx_handler(skw_ampdu_reorder(ro, a, kind)))

skw_rx_process == ro.todo # No /\ ro' = skw_rx_todo(ro)

skw_reorder_timeout ==
    /\ ro.timer # No /\ (ro.buf[Slot(ro.timer)] # Hole => Slot(ro.timer) \in ro.old)
    /\ ro' = [ro EXCEPT !.timer = No, !.todo = IF @ = No THEN ro.timer ELSE @]

Age == /\ ro.live /\ \E i \in DOMAIN ro.buf \ ro.old : ro.buf[i] # Hole
       /\ ro' = [ro EXCEPT !.old = {i \in DOMAIN ro.buf : ro.buf[i] # Hole}]

SenderMovesOn == /\ ro.base < LastFrame /\ ro' = [ro EXCEPT !.base = @ + 1]

-----------------------------------------------------------------------------
(* BA sessions, from the event thread.                                     *)

BaOp(r) == ro.n < MaxBaOps /\ ro' = [r EXCEPT !.n = @ + 1]

(* A BAR: forced into the todo, whatever it held. *)
skw_update_tid_rx(r) == [r EXCEPT !.todo = Sn(ro.base)]
ReqRxBa == ro.live /\ BaOp(skw_update_tid_rx(ro))

skw_add_tid_rx ==
    BaOp(IF ro.live THEN skw_update_tid_rx(ro) ELSE Window(ro, Sn(ro.base)))

(* What was stored is released when no reader of the window is left. *)
skw_del_tid_rx ==
    /\ ro.live
    /\ LET f == skw_reorder_force_release(ro, (ro.win + WinSize - 1) % SnSpace)
       IN  BaOp([ro EXCEPT !.live = FALSE, !.timer = No, !.todo = No, !.stored = 0, !.old = {},
                           !.buf = [i \in DOMAIN @ |-> Hole], !.grave = @ \o f.rel, !.slipped = TRUE])
skw_free_tid_rx ==
    /\ ro.grave # <<>>
    /\ ro' = skw_rx_handler([ro EXCEPT !.rel = ro.grave, !.grave = <<>>])

RxNext ==
    \/ skw_rx_data_handler \/ skw_rx_process \/ skw_reorder_timeout \/ Age \/ SenderMovesOn
    \/ ReqRxBa \/ skw_add_tid_rx \/ skw_del_tid_rx \/ skw_free_tid_rx

RxSpec == RxInit /\ [][RxNext]_rxVars

-----------------------------------------------------------------------------
(* Properties.                                                             *)

(* The network stack gets the frames of a tid in the order they were sent   *)
(* and none twice: with a pairwise key whatever happens to the window,      *)
(* without one until the window slips or its session ends.                  *)
DeliveredInOrder == ro.back => ~ro.keyed /\ (ro.slipped \/ ro.skew)

(* What is stored will be let go: stored_num counts the slots in use, and   *)
(* while it is not 0 the timer runs or the todo is queued.                  *)
NothingStuck ==
    ro.live /\ ~ro.skew =>
        /\ ro.stored = Cardinality({i \in DOMAIN ro.buf : ro.buf[i] # Hole})
        /\ ro.stored > 0 => ro.timer # No \/ ro.todo # No
=============================================================================
