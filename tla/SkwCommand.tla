----------------------------- MODULE SkwCommand -----------------------------
(***************************************************************************)
(* How the swt6621s Wi-Fi driver sends commands to the firmware (skw_msg.c,*)
(* skw_work.c, skw_tx.c).  One command is in flight at a time: the         *)
(* semaphore cmd.lock is taken by threads that wait for the answer         *)
(* (skw_msg_xmit_timeout) and, without waiting, by the transmit path       *)
(* (skw_msg_try_send), which leaves the release to the acknowledgement or  *)
(* to a timer.  The tx worker, the receive callback, the timer, two work   *)
(* items, suspend, and the notifier of a firmware that died and came back  *)
(* all touch the same skw->cmd.  Every command has the same id here: the   *)
(* worst case for the test that an acknowledgement is the right one.       *)
(***************************************************************************)
EXTENDS Naturals, FiniteSets, Sequences

CONSTANTS Callers,    \* threads that call skw_msg_xmit_timeout
          Pm,         \* the one that suspends and resumes the device
          Xmit,       \* the transmit path, in softirq context
          MaxCalls,   \* bound on the commands
          MaxFaults   \* bound on firmware crashes

ASSUME CallersAssumption == Pm \in Callers /\ Xmit \notin Callers
                            /\ MaxCalls \in Nat /\ MaxFaults \in Nat

VARIABLES lock,     \* the count of cmd.lock
          pc, res,  \* where each caller stands, what its call is to return
          cmd,      \* skw->cmd
          flags,    \* skw->flags
          tx,       \* tx_worker is queued
          queue,    \* commands on their way to the firmware
          acks,     \* acknowledgements on their way to the host
          rx,       \* skw_cmd_ack_handler past the tests: its message
          timer,    \* the timer of skw_msg_try_send is in the list
          work,     \* queued work: "unlock", "assert"
          bsp,      \* the firmware as the platform driver sees it
          pm,       \* the device's power state
          calls, crashes,
          answer,   \* history: what became of the command in cmd
          fault     \* history: a command has timed out or the firmware died

cmdVars == <<lock, pc, res, cmd, flags, tx, queue, acks, rx, timer, work, bsp, pm, calls,
          crashes, answer, fault>>
CmdThreads == Callers \union {Xmit}
NoAck == [seq |-> 0, who |-> Xmit, status |-> "none"]
AckSet == [seq : 0..MaxCalls, who : CmdThreads, status : {"none", "ok", "err"}]
Section == {"set", "cb", "wait1", "wait2", "unlock"}
InSection == {t \in CmdThreads : pc[t] \in Section}

CmdTypeOK == /\ lock \in Nat /\ calls \in 0..MaxCalls /\ crashes \in 0..MaxFaults
          /\ pc \in [CmdThreads -> Section \union {"idle", "lock"}]
          /\ res \in [Callers -> {"none", "ok", "err", "timeout"}]
          /\ cmd \in [who : CmdThreads, seq : 0..MaxCalls, cb : {"wait", "try"},
                      status : {"ok", "err"},
                      flags : SUBSET {"NO_ACK", "IGNORE_BLOCK_TX", "DONE", "XMIT", "ACKED"}]
          /\ flags \subseteq {"FW_ASSERT", "BLOCK_TX", "FW_MAC_RECOVERY"}
          /\ queue \in Seq([seq : 0..MaxCalls, who : CmdThreads, ack : BOOLEAN]) /\ acks \subseteq AckSet
          /\ rx \in AckSet /\ tx \in BOOLEAN /\ timer \in BOOLEAN /\ fault \in BOOLEAN
          /\ work \subseteq {"unlock", "assert"}
          /\ bsp \in {"up", "down", "asserted", "ready", "recovering"}
          /\ pm \in {"awake", "suspending", "asleep", "resuming"}
          /\ answer \in {"none", "ok", "err", "aborted", "unacked"}

(* The driver has been probed; its first commands are behind it. *)
CmdInit == /\ lock = 1 /\ pc = [t \in CmdThreads |-> "idle"] /\ res = [c \in Callers |-> "none"]
        /\ cmd = [who |-> Pm, seq |-> 0, cb |-> "wait", status |-> "ok",
                  flags |-> {"ACKED", "DONE"}]
        /\ flags = {} /\ tx = FALSE /\ queue = <<>> /\ acks = {} /\ rx = NoAck
        /\ timer = FALSE /\ work = {} /\ bsp = "up" /\ pm = "awake"
        /\ calls = 0 /\ crashes = 0
        /\ answer = "none" /\ fault = FALSE

-----------------------------------------------------------------------------
(* The parts that several contexts share.                                  *)

(* Whether commands may be sent; BLOCK_TX does not count for a suspend. *)
skw_cmd_tx_allowed(ignore) ==
    flags \ (IF ignore THEN {"BLOCK_TX"} ELSE {}) = {}

ExtraFlags(t) == IF t = Pm /\ pm = "suspending" THEN {"NO_ACK", "IGNORE_BLOCK_TX"} ELSE {}

(* skw->cmd is filled in; the callback is still the last command's.         *)
skw_set_cmd(t) ==
    /\ cmd' = [cmd EXCEPT !.who = t, !.seq = @ + 1, !.status = "ok", !.flags = ExtraFlags(t)]
    /\ answer' = "none"

(* The callback that cmd holds, which finds the flags f set. *)
Callback(f) ==
    IF cmd.cb = "wait"
    THEN cmd' = [cmd EXCEPT !.flags = f \union {"DONE"}] /\ UNCHANGED work
    ELSE cmd' = [cmd EXCEPT !.flags = f] /\ work' = work \union {"unlock"}

(* A command in flight is answered by the driver itself, with status 0.     *)
skw_abort_cmd(f) ==
    IF lock = 0 /\ "ACKED" \notin f
    THEN /\ Callback(f \union {"ACKED"})
         /\ answer' = "aborted"
    ELSE cmd' = [cmd EXCEPT !.flags = f] /\ UNCHANGED <<work, answer>>

(* The firmware is asked to assert, once; it is down from then on. *)
skw_hw_assert ==
    IF "FW_ASSERT" \in flags THEN UNCHANGED <<flags, bsp>>
    ELSE /\ flags' = flags \union {"FW_ASSERT"}
         /\ bsp' = IF bsp = "up" THEN "down" ELSE bsp

-----------------------------------------------------------------------------
(* skw_msg_xmit_timeout                                                    *)

(* A call that is not allowed returns EIO at once. *)
Call(c) == /\ c # Pm /\ pc[c] = "idle" /\ calls < MaxCalls /\ calls' = calls + 1
           /\ skw_cmd_tx_allowed(FALSE) /\ pc' = [pc EXCEPT ![c] = "lock"]
           /\ UNCHANGED <<lock, res, cmd, flags, tx, queue, acks, rx, timer, work, bsp, pm,
                          crashes, answer, fault>>

skw_cmd_lock(c) == /\ pc[c] = "lock" /\ lock > 0
                   /\ lock' = lock - 1 /\ pc' = [pc EXCEPT ![c] = "set"]
                   /\ UNCHANGED <<res, cmd, flags, tx, queue, acks, rx, timer, work, bsp, pm,
                                  calls, crashes, answer, fault>>

(* Both kinds of caller fill in the command. *)
SetCmd(t) == /\ pc[t] = "set" /\ skw_set_cmd(t) /\ pc' = [pc EXCEPT ![t] = "cb"]
             /\ UNCHANGED <<lock, res, flags, tx, queue, acks, rx, timer, work, bsp, pm, calls,
                            crashes, fault>>

skw_cmd_xmit_timeout(c) ==
    /\ pc[c] = "cb" /\ c \in Callers /\ pc' = [pc EXCEPT ![c] = "wait1"]
    /\ cmd' = [cmd EXCEPT !.cb = "wait", !.flags = @ \union {"XMIT"}] /\ tx' = TRUE
    /\ UNCHANGED <<lock, res, flags, queue, acks, rx, timer, work, bsp, pm, calls, crashes,
                   answer, fault>>

WaitDone(c) == /\ pc[c] \in {"wait1", "wait2"} /\ "DONE" \in cmd.flags
               /\ res' = [res EXCEPT ![c] = cmd.status] /\ pc' = [pc EXCEPT ![c] = "unlock"]
               /\ UNCHANGED <<lock, cmd, flags, tx, queue, acks, rx, timer, work, bsp, pm,
                              calls, crashes, answer, fault>>

(* After 100 ms the worker is woken again if the command still lies there. *)
Wait1Timeout(c) == /\ pc[c] = "wait1" /\ "DONE" \notin cmd.flags
                   /\ pc' = [pc EXCEPT ![c] = "wait2"]
                   /\ tx' = (tx \/ "XMIT" \in cmd.flags)
                   /\ UNCHANGED <<lock, res, cmd, flags, queue, acks, rx, timer, work, bsp, pm,
                                  calls, crashes, answer, fault>>

Wait2Timeout(c) == /\ pc[c] = "wait2" /\ "DONE" \notin cmd.flags
                   /\ pc' = [pc EXCEPT ![c] = "unlock"]
                   /\ res' = [res EXCEPT ![c] = "timeout"]
                   /\ cmd' = [cmd EXCEPT !.flags = @ \union {"ACKED"}]
                   /\ skw_hw_assert /\ fault' = TRUE
                   /\ UNCHANGED <<lock, tx, queue, acks, rx, timer, work, pm, calls, crashes,
                                  answer>>

skw_cmd_unlock(c) ==
    /\ pc[c] = "unlock" /\ lock' = lock + 1 /\ pc' = [pc EXCEPT ![c] = "idle"]
    /\ pm' = IF c # Pm THEN pm
             ELSE IF pm = "suspending" /\ res[c] = "ok" THEN "asleep" ELSE "awake"
    /\ flags' = IF c = Pm /\ pm = "suspending" /\ res[c] # "ok"
                THEN flags \ {"BLOCK_TX"} ELSE flags
    /\ res' = [res EXCEPT ![c] = "none"]
    /\ UNCHANGED <<cmd, tx, queue, acks, rx, timer, work, bsp, calls, crashes, answer,
                   fault>>

-----------------------------------------------------------------------------
(* Suspend and resume: BLOCK_TX is set before the one and cleared before    *)
(* the other command.                                                       *)

skw_suspend ==
    /\ pm = "awake" /\ pc[Pm] = "idle" /\ calls < MaxCalls /\ calls' = calls + 1
    /\ IF skw_cmd_tx_allowed(TRUE)
       THEN /\ flags' = flags \union {"BLOCK_TX"} /\ pm' = "suspending"
            /\ pc' = [pc EXCEPT ![Pm] = "lock"]
       ELSE flags' = flags \ {"BLOCK_TX"} /\ UNCHANGED <<pc, pm>>
    /\ UNCHANGED <<lock, res, cmd, tx, queue, acks, rx, timer, work, bsp, crashes, answer, fault>>

skw_resume ==
    /\ pm = "asleep" /\ pc[Pm] = "idle" /\ flags' = flags \ {"BLOCK_TX"}
    /\ IF flags \ {"BLOCK_TX"} = {} /\ calls < MaxCalls
       THEN /\ pm' = "resuming" /\ calls' = calls + 1
            /\ pc' = [pc EXCEPT ![Pm] = "lock"]
       ELSE pm' = "awake" /\ UNCHANGED <<pc, calls>>
    /\ UNCHANGED <<lock, res, cmd, tx, queue, acks, rx, timer, work, bsp, crashes, answer, fault>>

-----------------------------------------------------------------------------
(* skw_msg_try_send, on the transmit path: EBUSY and EIO leave no trace.    *)

TryLock == /\ pc[Xmit] = "idle" /\ calls < MaxCalls /\ lock > 0 /\ skw_cmd_tx_allowed(FALSE)
           /\ lock' = lock - 1 /\ pc' = [pc EXCEPT ![Xmit] = "set"] /\ calls' = calls + 1
           /\ UNCHANGED <<res, cmd, flags, tx, queue, acks, rx, timer, work, bsp, pm, crashes,
                          answer, fault>>

(* A second timer with the same id is refused, and the command sent anyway. *)
skw_msg_try_send ==
    /\ pc[Xmit] = "cb" /\ pc' = [pc EXCEPT ![Xmit] = "idle"]
    /\ timer' = TRUE /\ tx' = TRUE
    /\ cmd' = [cmd EXCEPT !.cb = "try", !.flags = @ \union {"XMIT"}]
    /\ UNCHANGED <<lock, res, flags, queue, acks, rx, work, bsp, pm, calls, crashes, answer,
                   fault>>

(* Mutant: cmd.lock is not released. *)
TimeoutKeepsLock ==
    /\ timer /\ timer' = FALSE /\ flags' = flags \union {"BLOCK_TX"}
    /\ work' = work \union {"assert"} /\ fault' = TRUE
    /\ UNCHANGED <<lock, pc, res, cmd, tx, queue, acks, rx, bsp, pm, calls, crashes, answer>>

skw_cmd_timeout_fn ==
    /\ timer /\ timer' = FALSE /\ flags' = flags \union {"BLOCK_TX"}
    /\ lock' = lock + 1 /\ work' = work \union {"assert"} /\ fault' = TRUE
    /\ UNCHANGED <<pc, res, cmd, tx, queue, acks, rx, bsp, pm, calls, crashes, answer>>

(* Mutant: the timer is left in the list. *)
UnlockKeepsTimer ==
    /\ "unlock" \in work /\ work' = work \ {"unlock"} /\ lock' = lock + 1
    /\ UNCHANGED <<pc, res, cmd, flags, tx, queue, acks, rx, timer, bsp, pm, calls, crashes,
                   answer, fault>>

skw_work_unlock ==
    /\ "unlock" \in work /\ work' = work \ {"unlock"} /\ timer' = FALSE /\ lock' = lock + 1
    /\ UNCHANGED <<pc, res, cmd, flags, tx, queue, acks, rx, bsp, pm, calls, crashes, answer,
                   fault>>

AssertWork == /\ "assert" \in work /\ work' = work \ {"assert"} /\ skw_hw_assert
            /\ UNCHANGED <<lock, pc, res, cmd, tx, queue, acks, rx, timer, pm, calls, crashes,
                           answer, fault>>

-----------------------------------------------------------------------------
(* The tx worker sends the command, if it still may be sent.                *)

Sent(f) == [seq |-> cmd.seq, who |-> cmd.who, ack |-> "NO_ACK" \notin f]

(* Mutant: the flags are not looked at again when the command is sent. *)
BusCmdXmitUnchecked(f) ==
    /\ queue' = IF bsp = "up" THEN Append(queue, Sent(f)) ELSE queue
    /\ IF "NO_ACK" \in f
       THEN Callback(f) /\ answer' = "unacked"
       ELSE cmd' = [cmd EXCEPT !.flags = f] /\ UNCHANGED <<work, answer>>

skw_bus_cmd_xmit(f) ==
    IF skw_cmd_tx_allowed("IGNORE_BLOCK_TX" \in f)
    THEN /\ queue' = IF bsp = "up" THEN Append(queue, Sent(f)) ELSE queue
         /\ IF "NO_ACK" \in f
            THEN Callback(f) /\ answer' = "unacked"
            ELSE cmd' = [cmd EXCEPT !.flags = f] /\ UNCHANGED <<work, answer>>
    ELSE skw_abort_cmd(f) /\ UNCHANGED queue

skw_cmd_do == /\ tx /\ tx' = FALSE
              /\ IF "XMIT" \in cmd.flags THEN skw_bus_cmd_xmit(cmd.flags \ {"XMIT"})
                 ELSE UNCHANGED <<cmd, queue, work, answer>>
              /\ UNCHANGED <<lock, pc, res, flags, acks, rx, timer, bsp, pm, calls, crashes,
                             fault>>

(* The firmware answers in its own time; it does not answer a suspend. *)
FwAnswer(s) ==
    /\ bsp = "up" /\ queue # <<>> /\ queue' = Tail(queue)
    /\ IF ~Head(queue).ack THEN UNCHANGED <<acks, answer>>
       ELSE /\ acks' = acks \union {[seq |-> Head(queue).seq, who |-> Head(queue).who,
                                     status |-> s]}
            /\ answer' = IF <<Head(queue).seq, Head(queue).who>> = <<cmd.seq, cmd.who>>
                         THEN s ELSE answer
    /\ UNCHANGED <<lock, pc, res, cmd, flags, tx, rx, timer, work, bsp, pm, calls, crashes,
                   fault>>

(* skw_cmd_ack_handler tests and sets ACKED ... *)
AckTest(a) ==
    /\ a \in acks /\ rx = NoAck /\ acks' = acks \ {a}
    /\ IF a.seq = cmd.seq /\ "ACKED" \notin cmd.flags
       THEN cmd' = [cmd EXCEPT !.flags = @ \union {"ACKED"}] /\ rx' = a
       ELSE UNCHANGED <<cmd, rx>>
    /\ UNCHANGED <<lock, pc, res, flags, tx, queue, timer, work, bsp, pm, calls, crashes,
                   answer, fault>>

(* ... and then stores the status and calls back: of the command that is    *)
(* there by then.                                                           *)
skw_cmd_ack_handler ==
    /\ rx # NoAck /\ rx' = NoAck
    /\ IF cmd.cb = "wait"
       THEN /\ cmd' = [cmd EXCEPT !.status = rx.status, !.flags = @ \union {"DONE"}]
            /\ UNCHANGED work
       ELSE cmd' = [cmd EXCEPT !.status = rx.status] /\ work' = work \union {"unlock"}
    /\ UNCHANGED <<lock, pc, res, flags, tx, queue, acks, timer, bsp, pm, calls, crashes,
                   answer, fault>>

-----------------------------------------------------------------------------
(* The firmware dies and comes back.                                        *)

FwCrash == /\ bsp = "up" /\ crashes < MaxFaults /\ crashes' = crashes + 1 /\ bsp' = "down"
           /\ UNCHANGED <<lock, pc, res, cmd, flags, tx, queue, acks, rx, timer, work, pm,
                          calls, answer, fault>>

(* SKW_EVENT_FW_RECOVERY: the firmware restarts its MAC, or has done so;    *)
(* the event may come to be handled when the firmware is already dead.      *)
skw_event_fw_recovery ==
    \E done \in BOOLEAN :
        /\ (done \/ crashes < MaxFaults) /\ crashes' = crashes + (IF done THEN 0 ELSE 1)
        /\ flags' = IF done THEN flags \ {"FW_MAC_RECOVERY"} ELSE flags \union {"FW_MAC_RECOVERY"}
        /\ UNCHANGED <<lock, pc, res, cmd, tx, queue, acks, rx, timer, work, bsp, pm, calls, answer,
                       fault>>

(* SKW_BSP_NF_ASSERT: what was on the bus is lost. *)
BspAssert ==
    /\ bsp = "down" /\ bsp' = "asserted" /\ flags' = flags \union {"FW_ASSERT"}
    /\ skw_abort_cmd(cmd.flags) /\ queue' = <<>> /\ acks' = {} /\ fault' = TRUE
    /\ UNCHANGED <<lock, pc, res, tx, rx, timer, pm, calls, crashes>>

BspReady == /\ bsp = "asserted" /\ bsp' = "ready"
            /\ UNCHANGED <<lock, pc, res, cmd, flags, tx, queue, acks, rx, timer, work, pm,
                           calls, crashes, answer, fault>>

(* skw_recovery_work: sequence numbers begin again ... *)
skw_recovery_prepare ==
    /\ bsp = "ready" /\ bsp' = "recovering" /\ cmd' = [cmd EXCEPT !.seq = 0]
    /\ UNCHANGED <<lock, pc, res, flags, tx, queue, acks, rx, timer, work, pm, calls, crashes,
                   answer, fault>>

(* ... and commands are let through again. *)
RecoveryUnblocks ==
    /\ bsp = "recovering" /\ bsp' = "up" /\ flags' = {}
    /\ UNCHANGED <<lock, pc, res, cmd, tx, queue, acks, rx, timer, work, pm, calls, crashes,
                   answer, fault>>

(* All is quiet. *)
CmdRest == /\ calls = MaxCalls /\ \A t \in CmdThreads : pc[t] = "idle"
        /\ work = {} /\ ~timer /\ lock > 0 /\ UNCHANGED cmdVars

Caller(c) == skw_cmd_lock(c) \/ SetCmd(c) \/ skw_cmd_xmit_timeout(c) \/ WaitDone(c)
             \/ Wait1Timeout(c) \/ Wait2Timeout(c) \/ skw_cmd_unlock(c)
Softirq == SetCmd(Xmit) \/ skw_msg_try_send \/ skw_cmd_timeout_fn
Workers == skw_work_unlock \/ AssertWork \/ skw_cmd_do
AckPath == skw_cmd_ack_handler \/ \E a \in acks : AckTest(a)
BspEvents == BspAssert \/ BspReady \/ skw_recovery_prepare \/ RecoveryUnblocks

CmdNext == \/ \E c \in Callers : Call(c) \/ Caller(c)
        \/ skw_suspend \/ skw_resume \/ TryLock \/ Softirq \/ Workers
        \/ AckPath \/ \E s \in {"ok", "err"} : FwAnswer(s)
        \/ FwCrash \/ skw_event_fw_recovery \/ BspEvents \/ CmdRest

(* CmdThreads that can run do run; timers fire; the semaphore is first come,   *)
(* first served.  Nothing is assumed of the firmware.                       *)
CmdFairness == /\ \A c \in Callers : WF_cmdVars(Caller(c)) /\ SF_cmdVars(skw_cmd_lock(c))
            /\ WF_cmdVars(SetCmd(Xmit) \/ skw_msg_try_send) /\ WF_cmdVars(skw_cmd_timeout_fn)
            /\ WF_cmdVars(skw_work_unlock) /\ WF_cmdVars(AssertWork) /\ WF_cmdVars(skw_cmd_do)
            /\ WF_cmdVars(skw_cmd_ack_handler)

CmdSpec == CmdInit /\ [][CmdNext]_cmdVars /\ CmdFairness

-----------------------------------------------------------------------------
(* As long as no command has timed out and the firmware has not died, one   *)
(* command at a time uses skw->cmd: cmd.lock is not released twice by the   *)
(* acknowledgement, the timer and the work item of skw_msg_try_send, whose  *)
(* timer never outlives the command it watches.                             *)
ExclusiveUntilFault ==
    ~fault => /\ lock + Cardinality(InSection) <= 1
              /\ timer => lock = 0 /\ cmd.who = Xmit /\ InSection = {}

(* What a call returns is what became of its own command, never another's:  *)
(* skw_cmd_ack_handler matches by sequence number and by ACKED.             *)
ResultIsOwn ==
    \A c \in Callers : ~fault /\ pc[c] = "unlock" =>
        /\ cmd.who = c
        /\ \/ res[c] = "ok" /\ answer \in {"ok", "aborted", "unacked"}
           \/ res[c] = "err" /\ answer = "err"

(* Between a suspend that succeeded and the resume, a firmware that has not *)
(* been restarted hears nothing: callers that had been let through before   *)
(* are stopped by the second look at the flags in skw_bus_cmd_xmit.         *)
AsleepIsSilent ==
    [][pm = "asleep" /\ ~fault => Len(queue') <= Len(queue)]_cmdVars

(* Every call returns, whatever the firmware does: the two timeouts of      *)
(* skw_cmd_xmit_timeout and the timer of skw_msg_try_send see to it.        *)
CallsReturn == \A c \in Callers : pc[c] = "lock" ~> pc[c] = "idle"
=============================================================================
