------------------------------- MODULE SkwDfs -------------------------------
(***************************************************************************)
(* Radar detection of the APs (skw_dfs.c; built with DFS_MASTER): the      *)
(* channel availability check and the monitoring of two interfaces, which  *)
(* share one channel, one set of flags and the detectors of the chip, and  *)
(* a detector itself, which looks for pulses at a constant interval.       *)
(***************************************************************************)
EXTENDS Integers, Sequences, FiniteSets

CONSTANTS Aps, Chans,        \* interfaces and channels
          PriMin, PriMax,    \* the interval of the pattern, with its tolerance
          Tolerance,         \* SKW_PRI_TOLERANCE
          Ppb, PpbThresh,    \* pulses of a burst, those that are enough
          TsWrap,            \* timestamps of the hardware wrap: 2^24 us
          MaxDfsOps, MaxPulses  \* bounds: requests, pulses

ASSUME DfsAssumption == /\ {PriMin, PriMax, Tolerance, Ppb, PpbThresh, TsWrap, MaxDfsOps, MaxPulses} \subseteq Nat \ {0}
                        /\ PriMin <= PriMax /\ Aps # {} /\ "idle" \notin Aps /\ Chans # {}

VARIABLES df,   \* skw->dfs, sap.dfs of the interfaces, who is at work
          dd    \* the detector and what it was given
dfsVars == <<df, dd>>

(* df.ap: down, in the check, free after it, or running; df.nl and df.ew    *)
(* are a netlink request and the event worker halfway.                      *)
DfsTypeOK ==
    /\ df.ap \in [Aps -> {"down", "cac", "clear", "up"}]
    /\ df.flag \in [Aps -> SUBSET {"cac", "mon"}] /\ df.flags \subseteq {"cac", "mon"}
    /\ df.work \subseteq Aps /\ df.told \in [Aps -> {"none", "finished", "aborted", "radar"}]
    /\ df.nl \in {"idle"} \union Aps /\ df.ew \in {"idle"} \union Aps
    /\ Len(dd.pulses) <= 2 * Ppb /\ dd.count \in Nat /\ df.ops \in 0..MaxDfsOps

DfsInit ==
    /\ df = [ap |-> [i \in Aps |-> "down"], on |-> [i \in Aps |-> CHOOSE c \in Chans : TRUE], flag |-> [i \in Aps |-> {}],
             flags |-> {}, chan |-> CHOOSE c \in Chans : TRUE, work |-> {}, nl |-> "idle", had |-> FALSE, ew |-> "idle",
             told |-> [i \in Aps |-> "none"], radar |-> {}, odd |-> {}, ops |-> 0]
    /\ dd = [pulses |-> <<>>, seqs |-> {}, count |-> 0, last |-> 0, ts |-> 0, now |-> 3 * TsWrap,
             heard |-> {}, fed |-> 0, odd |-> {}]

-----------------------------------------------------------------------------
(* The detector.                                                            *)

(* How many times fraction goes into val, within the tolerance. *)
pde_get_multiple(val, fraction, tolerance) ==
    IF fraction = 0 THEN 0
    ELSE IF (IF val < fraction THEN fraction - val ELSE val - fraction) <= tolerance THEN 1
    ELSE LET r == val % fraction IN
         IF r <= tolerance THEN val \div fraction
         ELSE IF fraction - r <= tolerance THEN (val \div fraction) + 1 ELSE 0

(* Sequences whose time is over go, those the pulse fits are longer. *)
InTime(d, ts) == {s \in d.seqs : ts <= s.deadline}
Fits(s, ts) == pde_get_multiple(ts - s.last, s.pri, Tolerance) > 0
add_to_existing_seqs(d, ts) ==
    {IF Fits(s, ts) THEN [s EXCEPT !.last = ts, !.count = @ + 1] ELSE [s EXCEPT !.falses = @ + 1] : s \in InTime(d, ts)}
MaxUpdated(d, ts) ==
    LET C == {0} \union {s.count + 1 : s \in {x \in InTime(d, ts) : Fits(x, ts)}} IN CHOOSE m \in C : \A c \in C : c <= m

(* The sequence that begins with the pulses j and ts: the earlier ones that *)
(* fit its interval belong to it.                                           *)
PriToUse(delta) == IF PriMin + Tolerance = PriMax - Tolerance THEN PriMin + Tolerance ELSE delta
Sequence(d, ts, j) ==
    LET pri == PriToUse(ts - d.pulses[j])
        dur == pri * (Ppb - 1) + 2 * Tolerance
        past == {q \in j + 1..Len(d.pulses) : \A r \in j + 1..q : d.pulses[r] >= ts - dur}
        match == {q \in past : pde_get_multiple(ts - d.pulses[q], pri, Tolerance) > 0}
        first == IF match = {} THEN j ELSE CHOOSE q \in match : \A r \in match : r <= q
    IN [pri |-> pri, count |-> 2 + Cardinality(match), last |-> ts, deadline |-> d.pulses[first] + dur,
        falses |-> Cardinality({q \in past \ match : q < first})]
create_sequences(d, ts, min) ==
    LET near == {j \in 1..Len(d.pulses) : /\ ts - d.pulses[j] >= PriMin
                                          /\ \A r \in 1..j : ts - d.pulses[r] <= PriMax}
    IN {s \in {Sequence(d, ts, j) : j \in near} : s.count > min}

(* Wrong: one more than the threshold. *)
DetectLate(seqs) == \E s \in seqs : s.count > PpbThresh /\ s.count >= s.falses
check_detection(seqs) == \E s \in seqs : s.count >= PpbThresh /\ s.count >= s.falses

(* The oldest pulses, the last of the list, leave when they are out of the  *)
(* window, or if there are twice as many as a burst has.  count is not the length of the list once  *)
(* the list has been initialised without it.                                *)
pulse_queue_check_window(d) ==
    IF d.count < 2 \/ d.last <= PriMax * Ppb THEN d
    ELSE LET valid == Cardinality({k \in 1..Len(d.pulses) : d.pulses[k] >= d.last - PriMax * Ppb})
         IN [d EXCEPT !.pulses = SubSeq(@, 1, valid), !.count = @ - (Len(d.pulses) - valid)]
pulse_queue_enqueue(d, ts) ==
    LET e == pulse_queue_check_window([d EXCEPT !.pulses = <<ts>> \o @, !.count = @ + 1, !.last = ts]) IN
    IF e.count >= 2 * Ppb /\ e.pulses # <<>>
    THEN [e EXCEPT !.pulses = SubSeq(@, 1, Len(@) - 1), !.count = @ - 1] ELSE e

pri_detector_reset(d, ts) == [d EXCEPT !.pulses = <<>>, !.seqs = {}, !.count = 0, !.last = ts, !.heard = {}]

-----------------------------------------------------------------------------
(* Checks and monitoring.                                                   *)

DfsRequest == df.ops < MaxDfsOps /\ df.nl = "idle"
DfsOdd(what) == df.odd \union what

(* Busy with another channel: refused.  Otherwise the lists begin anew, not *)
(* so the counts; what another interface has heard is lost with them.       *)
ChanBusy(c) == df.flags # {} /\ df.chan # c
ChanInit(d) == [d EXCEPT !.pulses = <<>>, !.seqs = {}, !.ts = 0, !.heard = {},
                         !.odd = IF d.count > 0 THEN @ \union {"stale"} ELSE @]
Armed(f, i, what, c) ==
    [f EXCEPT !.flag[i] = @ \union {what}, !.flags = @ \union {what}, !.chan = c, !.on[i] = c, !.ops = @ + 1]
skw_start_radar_detection ==
    /\ DfsRequest /\ \E i \in Aps, c \in Chans :
          /\ df.ap[i] = "down" /\ ~ChanBusy(c) /\ dd' = ChanInit(dd)
          /\ df' = [Armed(df, i, "cac", c) EXCEPT !.ap[i] = "cac", !.work = @ \union {i}, !.told[i] = "none",
                                                 !.radar = @ \ {i}]

(* start_ap on a channel that has been checked; an error leaves the AP      *)
(* running in the firmware and nobody listening.                            *)
StartMonitored ==
    /\ DfsRequest /\ \E i \in Aps :
          /\ df.ap[i] = "clear"
          /\ IF ChanBusy(df.on[i])
             THEN df' = [df EXCEPT !.ap[i] = "up", !.ops = @ + 1, !.odd = DfsOdd({"unmonitored"})] /\ UNCHANGED dd
             ELSE df' = [Armed(df, i, "mon", df.on[i]) EXCEPT !.ap[i] = "up"] /\ dd' = ChanInit(dd)

(* skw_dfs_stop_cac, skw_dfs_stop_monitor: the chip's flag goes too,        *)
(* whoever else has set it.                                                 *)
StopDfs(f, i, what) ==
    [f EXCEPT !.flag[i] = @ \ {what}, !.flags = @ \ {what},
              !.odd = IF \E j \in Aps \ {i} : what \in f.flag[j] THEN @ \union {"silenced"} ELSE @]
(* The interface is told how its check ended; cfg80211 takes the first.     *)
CacEvent(f, i, how) == IF f.ap[i] = "cac" THEN [f EXCEPT !.told[i] = how, !.ap[i] = IF how = "finished" THEN "clear" ELSE "down"]
                       ELSE f

(* The check's time is over: in two steps, as a request may come between.   *)
skw_dfs_cac_work ==
    /\ df.ew = "idle" /\ \E i \in df.work :
          /\ df' = [(IF df.ap[i] = "cac" THEN StopDfs(df, i, "cac") ELSE df) EXCEPT
                       !.work = @ \ {i}, !.ew = IF df.ap[i] = "cac" THEN i ELSE "idle"]
    /\ UNCHANGED dd
CacFinished ==
    /\ df.ew # "idle" /\ df' = [CacEvent(df, df.ew, "finished") EXCEPT !.ew = "idle"] /\ UNCHANGED dd

(* stop_ap or the interface's end: the work is cancelled, or waited for if  *)
(* it runs; then the check, seen before that, is taken to be aborted.       *)
StopAp ==
    /\ DfsRequest /\ \E i \in Aps : /\ df.ap[i] # "down"
                                    /\ df' = [df EXCEPT !.nl = i, !.had = "cac" \in df.flag[i], !.ops = @ + 1]
    /\ UNCHANGED dd
skw_dfs_deinit(f, i, checking) ==
    LET g == IF checking THEN CacEvent(StopDfs([f EXCEPT !.work = @ \ {i}], i, "cac"), i, "aborted") ELSE f
    IN IF "mon" \in g.flag[i] THEN StopDfs(g, i, "mon") ELSE g
Deinit ==
    /\ df.nl # "idle" /\ df.ew = "idle" /\ dd' = pri_detector_reset(dd, 0)
    /\ df' = [skw_dfs_deinit(df, df.nl, df.had) EXCEPT !.nl = "idle", !.ap[df.nl] = "down"]

(* The firmware switches the channel of an AP: the monitor is not started   *)
(* again on the new one.                                                    *)
skw_event_chan_switch ==
    /\ df.ew = "idle" /\ df.ops < MaxDfsOps /\ UNCHANGED dd
    /\ \E i \in Aps, c \in Chans :
          /\ df.ap[i] = "up" /\ df.on[i] # c
          /\ df' = [df EXCEPT !.on[i] = c, !.ops = @ + 1, !.odd = DfsOdd({"switched"})]

(* A pulse, at its time or a little later.  The upper bits of its timestamp *)
(* are the host's: of one that is handled after the hardware's counter has  *)
(* wrapped they are one too high, and the next pulse resets the detectors.  *)
(* A find stops the detection and is told for the chip's channel.           *)
skw_event_dfs_radar_pulse(t, late) == IF late THEN t + TsWrap ELSE t
Gaps == {1, PriMin, PriMin + Tolerance, PriMax}
skw_dfs_add_pulse ==
    /\ df.ew = "idle" /\ dd.fed < MaxPulses
    /\ \E i \in Aps, gap \in Gaps, late \in BOOLEAN :
          LET t == dd.now + gap
              ts == skw_event_dfs_radar_pulse(t, late)
              d == [dd EXCEPT !.now = t, !.fed = @ + 1, !.ts = ts, !.heard = @ \union {t},
                              !.odd = IF late THEN @ \union {"wrapped"} ELSE @]
              seqs == add_to_existing_seqs(d, ts) \union create_sequences(d, ts, MaxUpdated(d, ts))
          IN /\ df.flags # {} /\ df.flag[i] # {} /\ (late => t % TsWrap = TsWrap - 1)
             /\ IF dd.ts > ts THEN dd' = pri_detector_reset(d, ts) /\ UNCHANGED df
                ELSE IF ts - dd.last < Tolerance THEN dd' = d /\ UNCHANGED df
                ELSE IF check_detection(seqs)
                THEN /\ dd' = pri_detector_reset(d, 0)
                     /\ df' = [skw_dfs_deinit(df, i, "cac" \in df.flag[i]) EXCEPT !.told[i] = "radar", !.radar = @ \union {i},
                                  !.odd = IF df.chan # df.on[i] THEN @ \union {"otherchannel"} ELSE @]
                ELSE dd' = pulse_queue_enqueue([d EXCEPT !.seqs = seqs], ts) /\ UNCHANGED df

DfsNext ==
    \/ skw_start_radar_detection \/ StartMonitored \/ skw_dfs_cac_work \/ CacFinished
    \/ StopAp \/ Deinit \/ skw_event_chan_switch \/ skw_dfs_add_pulse
DfsSpec == DfsInit /\ [][DfsNext]_dfsVars

(* Pulses at the interval of the pattern are found with the last one that   *)
(* is needed, whatever noise is between them.  (Not after a pulse that was  *)
(* stamped across a wrap, nor where a count was left over from an earlier   *)
(* detection.)                                                              *)
RadarIsFound ==
    dd.odd = {} =>
       ~\E t \in dd.heard : \A k \in 1..PpbThresh - 1 : t + k * (PriMin + Tolerance) \in dd.heard

(* An interface that checks is waited for by its work or by a request that  *)
(* ends it, and no work is left of one that does not; one that runs is      *)
(* listening until radar was found, and the radar is told for the channel   *)
(* it was heard on.  (Two interfaces silence each other; a start that finds *)
(* the chip busy, and a switch, leave nobody listening.)                    *)
CheckIsLive ==
    /\ \A i \in Aps : df.ap[i] = "cac" => i \in df.work \/ df.ew = i \/ df.nl = i
    /\ \A i \in df.work : df.ap[i] = "cac" /\ "cac" \in df.flag[i]
    /\ df.odd = {} =>
          \A i \in Aps : df.ap[i] = "up" /\ i \notin df.radar => "mon" \in df.flag[i] /\ "mon" \in df.flags
    /\ "otherchannel" \in df.odd => df.odd \intersect {"switched", "silenced"} # {}
=============================================================================
