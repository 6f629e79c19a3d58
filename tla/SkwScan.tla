------------------------------ MODULE SkwScan ------------------------------
(***************************************************************************)
(* Scans and other requests the Wi-Fi driver answers later: scans, sched   *)
(* scans, remain-on-channel and the sending of management frames           *)
(* (skw_cfg80211.c, skw_msg.c), with the driver's list of timers           *)
(* (skw_timer.c) and its work list (skw_work.c).  A scan is ended by the   *)
(* firmware's event, by its timeout, which goes through the work list, or  *)
(* by an abort; each in a thread of its own.  skw->lock covers the end of  *)
(* a scan but not its start.                                               *)
(***************************************************************************)
EXTENDS Integers, FiniteSets, Sequences, SequencesExt

CONSTANTS MaxScans,      \* bound: scans
          MaxFrames      \* bound: management frames, remain-on-channels, weak signals

ASSUME ScanAssumption == MaxScans \in Nat \ {0} /\ MaxFrames \in Nat

VARIABLES scan,          \* skw->scan_req and the threads that handle it
          timers,        \* timer_data.list, first entry first
          expired,       \* the timeout_list of skw_timer_work
          works,         \* work_data.work_list
          scanEv,        \* scan complete events of the firmware, queued
          mgmt           \* frames and remain-on-channels
scanVars == <<scan, timers, expired, works, scanEv, mgmt>>

ScanIds == 1..MaxScans
Ifaces == {"wlan0", "p2p0"}
Threads == {"user", "event", "work"}
NoDone == [t \in Threads |-> 0]
Cqm == 0                 \* the id of the timer of skw_cqm_scan_timeout

ScanTypeOK ==
    /\ {scan.req, scan.busy, scan.fw, scan.n} \subseteq 0..MaxScans
    /\ scan.told \in [ScanIds -> 0..2] /\ scan.stop \in [Threads -> 0..MaxScans]
    /\ {ToSet(timers), ToSet(expired)} \subseteq SUBSET (ScanIds \union {Cqm})
    /\ works \in Seq([kind : {"scan_timeout", "tx_status"}, arg : Nat]) /\ scanEv \in Seq(ScanIds)
    /\ mgmt.cookie \in 0..(2 * MaxFrames) /\ mgmt.due \subseteq 1..mgmt.cookie

(* scan.req is skw->scan_req, scan.busy cfg80211's request, scan.n how many *)
(* were made, scan.starting that skw_scan waits for its command, scan.stop  *)
(* the request a thread ends while its STOP_SCAN is on the way, scan.dev    *)
(* the interface of each request.                                           *)
ScanInit ==
    /\ scan = [req |-> 0, busy |-> 0, n |-> 0, starting |-> FALSE, stop |-> NoDone, fw |-> 0,
               dev |-> [i \in ScanIds |-> "wlan0"], told |-> [i \in ScanIds |-> 0],
               sched |-> FALSE, cqm |-> FALSE, overran |-> FALSE]
    /\ timers = <<>> /\ expired = <<>> /\ works = <<>> /\ scanEv = <<>>
    /\ mgmt = [cookie |-> 0, due |-> {}, low |-> 0]

-----------------------------------------------------------------------------
(* The list of timers.  A new entry is put after the first one that ends   *)
(* later, or else at the front, so the list is in no useful order, and     *)
(* skw_timer_work, which stops at the first entry that is not over, serves *)
(* any front part of it.  A second timer of the same id is a bug.          *)
Added(list, id) == {InsertAt(list, k, id) : k \in 1..(Len(list) + 1)}
Deleted(list, id) == RemoveFirst(list, id)

skw_timer_work ==
    /\ expired = <<>>
    /\ \E k \in 1..Len(timers) :
         /\ expired' = Reverse(SubSeq(timers, 1, k))
         /\ timers' = SubSeq(timers, k + 1, Len(timers))
    /\ UNCHANGED <<scan, works, scanEv, mgmt>>

TimeoutLost == /\ expired # <<>> /\ expired' = Tail(expired)
               /\ UNCHANGED <<scan, timers, works, scanEv, mgmt>>

(* One callback, without the lock: skw_scan_timeout or skw_cqm_scan_timeout. *)
skw_scan_timeout ==
    /\ expired # <<>> /\ expired' = Tail(expired)
    /\ IF Head(expired) = Cqm
       THEN scan' = [scan EXCEPT !.cqm = FALSE] /\ UNCHANGED works
       ELSE works' = Append(works, [kind |-> "scan_timeout", arg |-> Head(expired)]) /\ UNCHANGED scan
    /\ UNCHANGED <<timers, scanEv, mgmt>>

-----------------------------------------------------------------------------
(* skw_scan, up to its command: cfg80211 has one scan at a time, and calls  *)
(* under the wiphy's mutex, so also one start of a scan.  After a weak      *)
(* signal a station's scan is cut down to the channel to roam to.           *)
skw_scan ==
    \E i \in Ifaces, roam \in BOOLEAN :
        LET id == scan.n + 1
        IN  /\ scan.busy = 0 /\ ~scan.starting /\ scan.n < MaxScans /\ (roam => scan.cqm /\ i = "wlan0")
            /\ scan' = [scan EXCEPT !.req = id, !.busy = id, !.n = id, !.starting = TRUE,
                                    !.dev[id] = i, !.cqm = @ /\ ~roam]
            /\ timers' \in Added(IF roam THEN Deleted(timers, Cqm) ELSE timers, id)
            /\ UNCHANGED <<expired, works, scanEv, mgmt>>

(* The answer to START_SCAN: the firmware scans, or the request is given    *)
(* back to cfg80211 with an error.                                          *)
ScanStarted ==
    /\ scan.starting /\ scan.fw = 0
    /\ scan' = [scan EXCEPT !.starting = FALSE, !.fw = scan.n]
    /\ UNCHANGED <<timers, expired, works, scanEv, mgmt>>

ScanRefused ==
    /\ scan.starting
    /\ scan' = [scan EXCEPT !.starting = FALSE, !.req = 0, !.busy = IF @ = scan.n THEN 0 ELSE @,
                            !.told[scan.n] = @ + 1, !.overran = @ \/ scan.req # scan.n]
    /\ timers' = Deleted(timers, scan.n)
    /\ UNCHANGED <<expired, works, scanEv, mgmt>>

(* skw_scan_done: the request is taken under skw->lock; an aborted one sends *)
(* STOP_SCAN, with the lock held, before cfg80211 is told.                   *)
DoneKeepsTimer(t, i, aborted) ==
    /\ scan.stop = NoDone /\ UNCHANGED timers
    /\ IF scan.req = 0 \/ scan.dev[scan.req] # i THEN UNCHANGED scan
       ELSE scan' = [scan EXCEPT !.req = 0, !.stop[t] = IF aborted THEN scan.req ELSE 0,
                                 !.busy = IF aborted THEN @ ELSE 0,
                                 !.told[scan.req] = IF aborted THEN @ ELSE @ + 1]

skw_scan_done(t, i, aborted) ==
    /\ scan.stop = NoDone
    /\ IF scan.req = 0 \/ scan.dev[scan.req] # i THEN UNCHANGED <<scan, timers>>
       ELSE /\ scan' = [scan EXCEPT !.req = 0, !.stop[t] = IF aborted THEN scan.req ELSE 0,
                                    !.busy = IF aborted THEN @ ELSE 0,
                                    !.told[scan.req] = IF aborted THEN @ ELSE @ + 1]
            /\ timers' = Deleted(timers, scan.req)

ScanStopped ==
    \E t \in Threads :
        LET id == scan.stop[t]
        IN  /\ id # 0
            /\ scan' = [scan EXCEPT !.stop[t] = 0, !.fw = 0, !.told[id] = @ + 1, !.busy = 0]
            /\ UNCHANGED <<timers, expired, works, scanEv, mgmt>>

(* STOP_SCAN is sent for any interface, and the scan of its own is done. *)
skw_abort_scan ==
    \E i \in Ifaces :
        /\ scan.req # 0 /\ ~scan.starting /\ scan.fw = 0
        /\ skw_scan_done("user", i, FALSE) /\ UNCHANGED <<expired, works, scanEv, mgmt>>

StopScan ==
    /\ scan.req # 0 /\ ~scan.starting /\ scan.fw # 0
    /\ scan' = [scan EXCEPT !.fw = 0] /\ UNCHANGED <<timers, expired, works, scanEv, mgmt>>

(* The firmware has scanned; its event waits for the event thread. *)
FwScanned ==
    /\ scan.fw # 0 /\ scan' = [scan EXCEPT !.fw = 0]
    /\ scanEv' = Append(scanEv, scan.fw) /\ UNCHANGED <<timers, expired, works, mgmt>>

skw_event_scan_complete ==
    /\ scanEv # <<>> /\ scanEv' = Tail(scanEv)
    /\ skw_scan_done("event", scan.dev[Head(scanEv)], FALSE) /\ UNCHANGED <<expired, works, mgmt>>

(* skw_work: one entry of the work list. *)
skw_work ==
    /\ works # <<>> /\ works' = Tail(works)
    /\ \/ /\ Head(works).kind = "scan_timeout"
          /\ skw_scan_done("work", scan.dev[Head(works).arg], TRUE) /\ UNCHANGED mgmt
       \/ /\ Head(works).kind = "tx_status"
          /\ mgmt' = [mgmt EXCEPT !.due = @ \ {Head(works).arg}] /\ UNCHANGED <<scan, timers>>
    /\ UNCHANGED <<expired, scanEv>>

-----------------------------------------------------------------------------
(* A weak signal opens the window in which a scan is one for roaming. *)
CqmLow ==
    /\ ~scan.cqm /\ scan' = [scan EXCEPT !.cqm = TRUE]
    /\ Cqm \notin ToSet(timers) /\ timers' \in Added(timers, Cqm)
    /\ mgmt.low < MaxFrames /\ mgmt' = [mgmt EXCEPT !.low = @ + 1]
    /\ UNCHANGED <<expired, works, scanEv>>

skw_cfg80211_sched_scan_start ==
    \E ok \in BOOLEAN :
        /\ ~scan.sched /\ scan' = [scan EXCEPT !.sched = ok]
        /\ UNCHANGED <<timers, expired, works, scanEv, mgmt>>

skw_sched_scan_stop ==
    /\ scan.sched /\ scan' = [scan EXCEPT !.sched = FALSE]
    /\ UNCHANGED <<timers, expired, works, scanEv, mgmt>>

(* A management frame: one too long for a command goes in pieces, each with  *)
(* a cookie of its own, and its status is made up by the work list.  A       *)
(* remain-on-channel takes a cookie as well; the firmware answers with it.   *)
__skw_cfg80211_mgmt_tx ==
    \E pieces \in {1, 2}, ok \in BOOLEAN :
        LET cookie == mgmt.cookie + pieces
        IN  /\ cookie <= 2 * MaxFrames
            /\ mgmt' = [mgmt EXCEPT !.cookie = cookie, !.due = IF ok THEN @ \union {cookie} ELSE @]
            /\ works' = IF ok /\ pieces > 1
                        THEN Append(works, [kind |-> "tx_status", arg |-> cookie]) ELSE works
            /\ UNCHANGED <<scan, timers, expired, scanEv>>

skw_remain_on_channel ==
    /\ mgmt.cookie < 2 * MaxFrames
    /\ mgmt' = [mgmt EXCEPT !.cookie = @ + 1, !.due = @ \union {mgmt.cookie + 1}]
    /\ UNCHANGED <<scan, timers, expired, works, scanEv>>

(* The firmware's status of a frame, or the end of a remain-on-channel. *)
skw_event_mgmt_tx_status ==
    \E c \in mgmt.due :
        /\ [kind |-> "tx_status", arg |-> c] \notin ToSet(works)
        /\ mgmt' = [mgmt EXCEPT !.due = @ \ {c}] /\ UNCHANGED <<scan, timers, expired, works, scanEv>>

ScanRest ==
    /\ scan.n = MaxScans /\ scan.busy = 0 /\ UNCHANGED scanVars

ScanNext ==
    \/ skw_timer_work \/ skw_scan_timeout \/ skw_scan \/ ScanStarted \/ ScanRefused \/ ScanStopped
    \/ skw_abort_scan \/ StopScan \/ FwScanned \/ skw_event_scan_complete \/ skw_work \/ CqmLow
    \/ skw_cfg80211_sched_scan_start \/ skw_sched_scan_stop \/ __skw_cfg80211_mgmt_tx
    \/ skw_remain_on_channel \/ skw_event_mgmt_tx_status \/ ScanRest

(* The driver's threads and timers run; the firmware answers commands, and   *)
(* may well never end a scan.                                                *)
ScanFairness ==
    /\ WF_scanVars(skw_timer_work) /\ WF_scanVars(skw_scan_timeout)
    /\ WF_scanVars(skw_work) /\ WF_scanVars(ScanStopped)
    /\ WF_scanVars(ScanStarted \/ ScanRefused) /\ WF_scanVars(skw_event_scan_complete)

ScanSpec == ScanInit /\ [][ScanNext]_scanVars /\ ScanFairness

-----------------------------------------------------------------------------
(* A request is answered to cfg80211 once, whichever of the event, the       *)
(* timeout, the abort and the refused command gets it, and its timer does    *)
(* not outlive it (a timer left in the list would end the next request that  *)
(* is allocated at the same address).  `overran' is the one way around: a    *)
(* START_SCAN that waited for the command lock until its own scan timed out, *)
(* and is then refused, is answered twice, and the second answer ends, for   *)
(* cfg80211, the scan that is under way by then.                             *)
AnsweredOnce ==
    ~scan.overran => \A i \in ScanIds : /\ scan.told[i] <= 1
                                        /\ i \in ToSet(timers) => scan.req = i

(* Every scan ends, also when the firmware never reports it.                 *)
ScanEnds == \A i \in ScanIds : scan.busy = i ~> scan.busy # i
=============================================================================
