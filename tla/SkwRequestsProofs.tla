-------------------------- MODULE SkwRequestsProofs --------------------------
\* The requests of the Wi-Fi driver, for any number of callers, commands,
\* scans and frames: one command at a time uses skw->cmd and its caller
\* gets its own answer, a device that sleeps is left alone (SkwCommand);
\* a scan is answered once (SkwScan); the credit of the transmit path is
\* the firmware's room and the tx ring refuses no frame (SkwTx).  One
\* inductive invariant for each, and the composition of module
\* MCSkwRequests at the end.
EXTENDS MCSkwRequests, FiniteSetTheorems, SequenceTheorems, WellFoundedInduction, TLAPS

\* Commands.  skw->cmd has one owner at a time, and what is under way
\* between host and firmware is always that of the owner's command, in one
\* of five stages.  All that ends with the first timeout or death of the
\* firmware (fault), after which only the types are kept.
CmdFlags == {"NO_ACK", "IGNORE_BLOCK_TX", "DONE", "XMIT", "ACKED"}
SeqNos == 0..MaxCalls
Acks == [seq : SeqNos, who : CmdThreads, status : {"ok", "err"}]
Msgs == [seq : SeqNos, who : CmdThreads, ack : BOOLEAN]
Cmds == [who : CmdThreads, seq : SeqNos, cb : {"wait", "try"}, status : {"ok", "err"},
         flags : SUBSET CmdFlags]

ShapeOK == /\ lock \in Nat /\ pc \in [CmdThreads -> Section \union {"idle", "lock"}]
           /\ res \in [Callers -> {"none", "ok", "err", "timeout"}]
           /\ cmd \in Cmds /\ queue \in Seq(Msgs) /\ acks \subseteq Acks /\ rx \in Acks \union {NoAck}

\* Of the commands on the bus the firmware is going to acknowledge none, or only the one in cmd.
NoneAsked == \A i \in 1..Len(queue) : ~queue[i].ack
OneAsked == \A i, j \in 1..Len(queue) : queue[i].ack /\ queue[j].ack =>
                i = j /\ queue[i].seq = cmd.seq /\ queue[i].who = cmd.who
\* Nothing is under way between the host and the firmware that touches cmd.
Quiet == NoneAsked /\ acks = {} /\ rx = NoAck
Over == Quiet /\ "XMIT" \notin cmd.flags
Agree(s) == (s = "ok" /\ answer \in {"ok", "aborted", "unacked"}) \/ (s = "err" /\ answer = "err")
Reply == [seq |-> cmd.seq, who |-> cmd.who, status |-> answer]

\* The callback of the command in cmd has been called.
Called == IF cmd.cb = "wait" THEN "DONE" \in cmd.flags ELSE "unlock" \in work

\* The stages of the command in cmd.
Unsent == ~Called /\ "ACKED" \notin cmd.flags /\ "XMIT" \in cmd.flags
          /\ Quiet /\ answer = "none" /\ cmd.status = "ok"
Asked == ~Called /\ "ACKED" \notin cmd.flags /\ "XMIT" \notin cmd.flags
         /\ OneAsked /\ acks = {} /\ rx = NoAck /\ answer = "none" /\ cmd.status = "ok"
Answered == ~Called /\ "ACKED" \notin cmd.flags /\ "XMIT" \notin cmd.flags
            /\ NoneAsked /\ acks = {Reply} /\ rx = NoAck /\ answer \in {"ok", "err"}
Taken == ~Called /\ "XMIT" \notin cmd.flags
         /\ NoneAsked /\ acks = {} /\ rx = Reply /\ answer \in {"ok", "err"}
Told == Called /\ Over /\ Agree(cmd.status)
InFlight == Unsent \/ Asked \/ Answered \/ Taken \/ Told

\* Who owns skw->cmd: nobody, a thread that fills it in or is done with it, a thread
\* that waits for it, or the timer of the transmit path.
NobodyIn == \A t \in CmdThreads : pc[t] \notin Section
OnlyIn(t) == pc[t] \in Section /\ \A u \in CmdThreads : u # t => pc[u] \notin Section
Free == lock = 1 /\ NobodyIn /\ ~timer /\ "unlock" \notin work /\ Over
Holds(t) == lock = 0 /\ OnlyIn(t) /\ ~timer /\ "unlock" \notin work
Fills(t) == /\ Holds(t) /\ Over /\ pc[t] \in {"set", "cb", "unlock"}
            /\ pc[t] = "cb" => /\ cmd.who = t /\ answer = "none" /\ cmd.status = "ok"
                               /\ cmd.flags \subseteq {"NO_ACK", "IGNORE_BLOCK_TX"}
                               /\ (t # Pm => cmd.flags = {})
            /\ pc[t] = "unlock" => t \in Callers /\ cmd.who = t /\ Agree(res[t])
Waits(t) == Holds(t) /\ pc[t] \in {"wait1", "wait2"} /\ t \in Callers /\ cmd.who = t /\ cmd.cb = "wait"
Tried == /\ lock = 0 /\ NobodyIn /\ timer /\ cmd.who = Xmit /\ cmd.cb = "try"
         /\ "NO_ACK" \notin cmd.flags
OwnerOK == \/ Free
           \/ \E t \in CmdThreads : Fills(t)
           \/ (Tried \/ \E t \in CmdThreads : Waits(t)) /\ InFlight
HolderOK == ~fault => OwnerOK

\* A suspended device is blocked, and no command that ignores that is about to be sent.
PowerOK == /\ pm \in {"awake", "suspending", "asleep", "resuming"}
           /\ pc[Pm] = "idle" <=> pm \in {"awake", "asleep"}
           /\ ~fault /\ pm \in {"suspending", "asleep"} => "BLOCK_TX" \in flags
           /\ ~fault /\ pm = "asleep" => ~({"XMIT", "IGNORE_BLOCK_TX"} \subseteq cmd.flags)
           /\ ~fault => "assert" \notin work /\ bsp \in {"up", "down"}
CmdInv == ShapeOK /\ HolderOK /\ PowerOK

\* Every number that was given out was asked for by a call, and the calls are counted.
InLine == {t \in CmdThreads : pc[t] \in {"lock", "set"}}
CountOK == /\ calls \in 0..MaxCalls /\ crashes \in 0..MaxFaults
           /\ IsFiniteSet(InLine) /\ cmd.seq + Cardinality(InLine) <= calls
PlainOK == /\ flags \subseteq {"FW_ASSERT", "BLOCK_TX", "FW_MAC_RECOVERY"}
           /\ tx \in BOOLEAN /\ timer \in BOOLEAN /\ fault \in BOOLEAN
           /\ work \subseteq {"unlock", "assert"}
           /\ bsp \in {"up", "down", "asserted", "ready", "recovering"}
           /\ answer \in {"none", "ok", "err", "aborted", "unacked"}

-----------------------------------------------------------------------------
\* Every step keeps the shape of the command, the messages and the acknowledgements.
LEMMA ShapeStep ==
    ASSUME ShapeOK, CountOK, [CmdNext]_cmdVars PROVE ShapeOK'
<1> USE DEF ShapeOK
<1>c. CASE UNCHANGED cmdVars \/ CmdRest BY <1>c DEF cmdVars, CmdRest, NoAck
<1>1. ASSUME NEW c \in Callers, Call(c) PROVE ShapeOK' BY <1>1 DEF Call, NoAck
<1>2. ASSUME NEW c \in Callers, skw_cmd_lock(c) PROVE ShapeOK'
  <2>1. lock' \in Nat BY <1>2 DEF skw_cmd_lock
  <2> QED BY <1>2, <2>1 DEF skw_cmd_lock, Section, NoAck
<1>3. ASSUME NEW t \in CmdThreads, SetCmd(t) PROVE ShapeOK'
  <2>0. ExtraFlags(t) \in SUBSET CmdFlags BY DEF ExtraFlags, CmdFlags
  <2>1. cmd' \in Cmds
    <3>1. t \in InLine BY <1>3 DEF SetCmd, InLine
    <3>2. Cardinality(InLine) \in Nat /\ Cardinality(InLine) # 0
      BY <3>1, FS_CardinalityType, FS_EmptySet DEF CountOK
    <3>3. cmd.seq \in 0..MaxCalls BY DEF Cmds, SeqNos
    <3>4. cmd.seq + 1 \in SeqNos BY <3>2, <3>3, CallersAssumption DEF CountOK, SeqNos
    <3> QED BY <1>3, <2>0, <3>4 DEF SetCmd, skw_set_cmd, Cmds
  <2> QED BY <1>3, <2>1 DEF SetCmd, Section, NoAck
<1>4. ASSUME NEW c \in Callers, skw_cmd_xmit_timeout(c) PROVE ShapeOK'
  <2>1. cmd' \in Cmds BY <1>4 DEF skw_cmd_xmit_timeout, Cmds, CmdFlags
  <2> QED BY <1>4, <2>1 DEF skw_cmd_xmit_timeout, Section, NoAck
<1>5. ASSUME NEW c \in Callers, WaitDone(c) PROVE ShapeOK'
  <2>1. cmd.status \in {"ok", "err"} BY DEF Cmds
  <2> QED BY <1>5, <2>1 DEF WaitDone, Section, NoAck
<1>6. ASSUME NEW c \in Callers, Wait1Timeout(c) PROVE ShapeOK'
  BY <1>6 DEF Wait1Timeout, Section, NoAck
<1>7. ASSUME NEW c \in Callers, Wait2Timeout(c) PROVE ShapeOK'
  <2>1. cmd' \in Cmds BY <1>7 DEF Wait2Timeout, Cmds, CmdFlags
  <2> QED BY <1>7, <2>1 DEF Wait2Timeout, Section, NoAck
<1>8. ASSUME NEW c \in Callers, skw_cmd_unlock(c) PROVE ShapeOK'
  <2>1. lock' \in Nat BY <1>8 DEF skw_cmd_unlock
  <2> QED BY <1>8, <2>1 DEF skw_cmd_unlock, NoAck
<1>9. CASE skw_suspend \/ skw_resume BY <1>9 DEF skw_suspend, skw_resume, NoAck
<1>10. CASE TryLock
  <2>1. lock' \in Nat BY <1>10 DEF TryLock
  <2> QED BY <1>10, <2>1 DEF TryLock, Section, NoAck
<1>11. CASE skw_msg_try_send
  <2>1. cmd' \in Cmds BY <1>11 DEF skw_msg_try_send, Cmds, CmdFlags
  <2> QED BY <1>11, <2>1 DEF skw_msg_try_send, NoAck
<1>12. CASE skw_cmd_timeout_fn \/ skw_work_unlock
  BY <1>12 DEF skw_cmd_timeout_fn, skw_work_unlock, NoAck
<1>13. CASE AssertWork BY <1>13 DEF AssertWork, NoAck
<1>14. CASE skw_cmd_do
  <2>1. cmd' \in Cmds
    BY <1>14 DEF skw_cmd_do, skw_bus_cmd_xmit, Callback, skw_abort_cmd, Cmds, CmdFlags
  <2>2. ASSUME NEW f PROVE Sent(f) \in Msgs BY DEF Sent, Msgs, Cmds
  <2>3. queue' \in Seq(Msgs)
    <3>1. queue' = queue \/ \E f : queue' = Append(queue, Sent(f))
      BY <1>14 DEF skw_cmd_do, skw_bus_cmd_xmit
    <3> QED BY <3>1, <2>2
  <2> QED BY <1>14, <2>1, <2>3 DEF skw_cmd_do, NoAck
<1>15. ASSUME NEW s \in {"ok", "err"}, FwAnswer(s) PROVE ShapeOK'
  <2>1. queue' \in Seq(Msgs) /\ Head(queue) \in Msgs BY <1>15 DEF FwAnswer
  <2>2. acks' \subseteq Acks BY <1>15, <2>1 DEF FwAnswer, Acks, Msgs
  <2> QED BY <1>15, <2>1, <2>2 DEF FwAnswer, NoAck
<1>16. ASSUME NEW a \in acks, AckTest(a) PROVE ShapeOK'
  <2>1. cmd' \in Cmds BY <1>16 DEF AckTest, Cmds, CmdFlags
  <2> QED BY <1>16, <2>1 DEF AckTest, NoAck
<1>17. CASE skw_cmd_ack_handler
  <2>1. rx.status \in {"ok", "err"} BY <1>17 DEF skw_cmd_ack_handler, Acks
  <2>2. cmd' \in Cmds
    <3>1. cmd.flags \union {"DONE"} \in SUBSET CmdFlags BY DEF Cmds, CmdFlags
    <3> QED BY <1>17, <2>1, <3>1 DEF skw_cmd_ack_handler, Cmds
  <2> QED BY <1>17, <2>2 DEF skw_cmd_ack_handler, NoAck
<1>18. CASE FwCrash \/ skw_event_fw_recovery \/ BspReady \/ RecoveryUnblocks
  BY <1>18 DEF FwCrash, skw_event_fw_recovery, BspReady, RecoveryUnblocks, NoAck
<1>19. CASE BspAssert
  <2>1. cmd' \in Cmds BY <1>19 DEF BspAssert, skw_abort_cmd, Callback, Cmds, CmdFlags
  <2> QED BY <1>19, <2>1 DEF BspAssert, NoAck
<1>20. CASE skw_recovery_prepare
  <2>1. cmd' \in Cmds BY <1>20, CallersAssumption DEF skw_recovery_prepare, Cmds, SeqNos
  <2> QED BY <1>20, <2>1 DEF skw_recovery_prepare, NoAck
<1> QED BY <1>c, <1>1, <1>2, <1>3, <1>4, <1>5, <1>6, <1>7, <1>8, <1>9, <1>10, <1>11, <1>12, <1>13,
     <1>14, <1>15, <1>16, <1>17, <1>18, <1>19, <1>20
     DEF CmdNext, Caller, Softirq, Workers, AckPath, BspEvents, CmdThreads

\* A number is given out only for a call that was counted.
LEMMA CountStep ==
    ASSUME ShapeOK, CountOK, [CmdNext]_cmdVars PROVE CountOK'
<1> USE CallersAssumption
<1>0. /\ Cardinality(InLine) \in Nat /\ cmd.seq \in Nat /\ calls \in Nat /\ crashes \in Nat
      /\ Pm \in CmdThreads /\ Xmit \in CmdThreads /\ Callers \subseteq CmdThreads
      /\ "seq" \in DOMAIN cmd /\ pc \in [CmdThreads -> Section \union {"idle", "lock"}]
  BY FS_CardinalityType DEF CountOK, ShapeOK, Cmds, SeqNos, CmdThreads
<1>1. ASSUME \A t \in CmdThreads : pc'[t] \in {"lock", "set"} <=> pc[t] \in {"lock", "set"},
             calls' = calls, crashes' \in 0..MaxFaults, cmd'.seq \in {0, cmd.seq}
      PROVE  CountOK'
  <2>1. InLine' = InLine BY <1>1 DEF InLine
  <2> QED BY <1>0, <1>1, <2>1 DEF CountOK
<1>2. ASSUME NEW t \in CmdThreads, pc[t] \notin {"lock", "set"},
             NEW to \in {"lock", "set"}, pc' = [pc EXCEPT ![t] = to],
             calls < MaxCalls, calls' = calls + 1, UNCHANGED <<cmd, crashes>>
      PROVE  CountOK'
  <2>1. InLine' = InLine \union {t} /\ t \notin InLine BY <1>0, <1>2 DEF InLine
  <2>2. IsFiniteSet(InLine') /\ Cardinality(InLine') = Cardinality(InLine) + 1
    BY <2>1, FS_AddElement DEF CountOK
  <2> QED BY <1>0, <1>2, <2>2 DEF CountOK
<1>3. ASSUME NEW t \in CmdThreads, SetCmd(t) PROVE CountOK'
  <2>1. InLine' = InLine \ {t} /\ t \in InLine /\ cmd'.seq = cmd.seq + 1 /\ UNCHANGED <<calls, crashes>>
    BY <1>0, <1>3 DEF SetCmd, skw_set_cmd, InLine
  <2>2. IsFiniteSet(InLine') /\ Cardinality(InLine') = Cardinality(InLine) - 1
    BY <2>1, FS_RemoveElement DEF CountOK
  <2> QED BY <1>0, <2>1, <2>2 DEF CountOK
<1>4. crashes \in 0..MaxFaults BY DEF CountOK
<1>5. ASSUME NEW c \in Callers, Call(c) PROVE CountOK' BY <1>0, <1>2, <1>5 DEF Call
<1>6. ASSUME NEW c \in Callers,
             skw_cmd_lock(c) \/ skw_cmd_xmit_timeout(c) \/ WaitDone(c) \/ Wait1Timeout(c)
             \/ Wait2Timeout(c) \/ skw_cmd_unlock(c)
      PROVE  CountOK'
  BY <1>0, <1>1, <1>4, <1>6 DEF skw_cmd_lock, skw_cmd_xmit_timeout, WaitDone, Wait1Timeout,
     Wait2Timeout, skw_cmd_unlock
<1>7. CASE skw_suspend \/ skw_resume
  <2>1. UNCHANGED <<cmd, crashes>> /\ pc[Pm] = "idle" BY <1>7 DEF skw_suspend, skw_resume
  <2>2. CASE UNCHANGED <<pc, calls>> BY <1>1, <1>4, <2>1, <2>2
  <2>3. CASE calls < MaxCalls /\ calls' = calls + 1 /\ UNCHANGED pc
    BY <1>0, <2>1, <2>3 DEF CountOK, InLine
  <2>4. CASE calls < MaxCalls /\ calls' = calls + 1 /\ pc' = [pc EXCEPT ![Pm] = "lock"]
    BY <1>0, <1>2, <2>1, <2>4
  <2> QED BY <1>7, <2>2, <2>3, <2>4 DEF skw_suspend, skw_resume
<1>8. CASE TryLock BY <1>0, <1>2, <1>8 DEF TryLock
<1>9. CASE skw_msg_try_send \/ skw_cmd_timeout_fn \/ skw_work_unlock \/ AssertWork
  BY <1>0, <1>1, <1>4, <1>9 DEF skw_msg_try_send, skw_cmd_timeout_fn, skw_work_unlock,
     AssertWork
<1>10. CASE skw_cmd_do
  <2>1. cmd'.seq = cmd.seq BY <1>0, <1>10 DEF skw_cmd_do, skw_bus_cmd_xmit, Callback, skw_abort_cmd
  <2> QED BY <1>1, <1>4, <1>10, <2>1 DEF skw_cmd_do
<1>11. ASSUME NEW s \in {"ok", "err"}, FwAnswer(s) PROVE CountOK' BY <1>1, <1>4, <1>11 DEF FwAnswer
<1>12. ASSUME NEW a \in acks, AckTest(a) PROVE CountOK' BY <1>0, <1>1, <1>4, <1>12 DEF AckTest
<1>13. CASE skw_cmd_ack_handler BY <1>0, <1>1, <1>4, <1>13 DEF skw_cmd_ack_handler
<1>14. CASE FwCrash \/ skw_event_fw_recovery \/ BspReady \/ RecoveryUnblocks \/ skw_recovery_prepare
  <2>1. crashes' \in 0..MaxFaults
    BY <1>0, <1>4, <1>14 DEF FwCrash, skw_event_fw_recovery, BspReady, RecoveryUnblocks,
       skw_recovery_prepare
  <2> QED BY <1>0, <1>1, <1>14, <2>1 DEF FwCrash, skw_event_fw_recovery, BspReady, RecoveryUnblocks,
       skw_recovery_prepare
<1>15. CASE BspAssert
  <2>1. cmd'.seq = cmd.seq BY <1>0, <1>15 DEF BspAssert, Callback, skw_abort_cmd
  <2> QED BY <1>1, <1>4, <1>15, <2>1 DEF BspAssert
<1>16. CASE UNCHANGED cmdVars \/ CmdRest BY <1>1, <1>4, <1>16 DEF cmdVars, CmdRest
<1> QED BY <1>3, <1>5, <1>6, <1>7, <1>8, <1>9, <1>10, <1>11, <1>12, <1>13, <1>14, <1>15, <1>16
     DEF CmdNext, Caller, Softirq, Workers, AckPath, BspEvents, CmdThreads

\* Every step keeps the types of the other variables.
LEMMA PlainStep ==
    ASSUME PlainOK, [CmdNext]_cmdVars PROVE PlainOK'
<1>1. flags' \subseteq {"FW_ASSERT", "BLOCK_TX", "FW_MAC_RECOVERY"}
  BY DEF PlainOK, CmdNext, Call, Caller, Softirq, Workers, AckPath, BspEvents, skw_cmd_lock,
     SetCmd, skw_cmd_xmit_timeout, WaitDone, Wait1Timeout, Wait2Timeout, skw_cmd_unlock,
     skw_suspend, skw_resume, TryLock, skw_msg_try_send, skw_cmd_timeout_fn, skw_work_unlock,
     AssertWork, skw_cmd_do, FwAnswer, AckTest, skw_cmd_ack_handler, FwCrash,
     skw_event_fw_recovery, BspAssert, BspReady, skw_recovery_prepare, RecoveryUnblocks,
     CmdRest, cmdVars, skw_hw_assert
<1>2. tx' \in BOOLEAN /\ timer' \in BOOLEAN /\ fault' \in BOOLEAN
  BY DEF PlainOK, CmdNext, Call, Caller, Softirq, Workers, AckPath, BspEvents, skw_cmd_lock,
     SetCmd, skw_cmd_xmit_timeout, WaitDone, Wait1Timeout, Wait2Timeout, skw_cmd_unlock,
     skw_suspend, skw_resume, TryLock, skw_msg_try_send, skw_cmd_timeout_fn, skw_work_unlock,
     AssertWork, skw_cmd_do, FwAnswer, AckTest, skw_cmd_ack_handler, FwCrash,
     skw_event_fw_recovery, BspAssert, BspReady, skw_recovery_prepare, RecoveryUnblocks,
     CmdRest, cmdVars
<1>3. work' \subseteq {"unlock", "assert"}
  BY DEF PlainOK, CmdNext, Call, Caller, Softirq, Workers, AckPath, BspEvents, skw_cmd_lock,
     SetCmd, skw_cmd_xmit_timeout, WaitDone, Wait1Timeout, Wait2Timeout, skw_cmd_unlock,
     skw_suspend, skw_resume, TryLock, skw_msg_try_send, skw_cmd_timeout_fn, skw_work_unlock,
     AssertWork, skw_cmd_do, FwAnswer, AckTest, skw_cmd_ack_handler, FwCrash,
     skw_event_fw_recovery, BspAssert, BspReady, skw_recovery_prepare, RecoveryUnblocks,
     CmdRest, cmdVars, Callback, skw_abort_cmd, skw_bus_cmd_xmit
<1>4. bsp' \in {"up", "down", "asserted", "ready", "recovering"}
  BY DEF PlainOK, CmdNext, Call, Caller, Softirq, Workers, AckPath, BspEvents, skw_cmd_lock,
     SetCmd, skw_cmd_xmit_timeout, WaitDone, Wait1Timeout, Wait2Timeout, skw_cmd_unlock,
     skw_suspend, skw_resume, TryLock, skw_msg_try_send, skw_cmd_timeout_fn, skw_work_unlock,
     AssertWork, skw_cmd_do, FwAnswer, AckTest, skw_cmd_ack_handler, FwCrash,
     skw_event_fw_recovery, BspAssert, BspReady, skw_recovery_prepare, RecoveryUnblocks,
     CmdRest, cmdVars, skw_hw_assert
<1>5. answer' \in {"none", "ok", "err", "aborted", "unacked"}
  BY DEF PlainOK, CmdNext, Call, Caller, Softirq, Workers, AckPath, BspEvents, skw_cmd_lock,
     SetCmd, skw_cmd_xmit_timeout, WaitDone, Wait1Timeout, Wait2Timeout, skw_cmd_unlock,
     skw_suspend, skw_resume, TryLock, skw_msg_try_send, skw_cmd_timeout_fn, skw_work_unlock,
     AssertWork, skw_cmd_do, FwAnswer, AckTest, skw_cmd_ack_handler, FwCrash,
     skw_event_fw_recovery, BspAssert, BspReady, skw_recovery_prepare, RecoveryUnblocks,
     CmdRest, cmdVars, skw_set_cmd, skw_abort_cmd, skw_bus_cmd_xmit
<1> QED BY <1>1, <1>2, <1>3, <1>4, <1>5 DEF PlainOK

\* A device that sleeps has no command that may be sent.
LEMMA PowerStep ==
    ASSUME CmdInv, [CmdNext]_cmdVars PROVE PowerOK'
<1> USE CallersAssumption DEF CmdInv, PowerOK
<1>c. CASE UNCHANGED cmdVars \/ CmdRest BY <1>c DEF cmdVars, CmdRest
<1>1. ASSUME NEW c \in Callers, Call(c) PROVE PowerOK' BY <1>1 DEF Call, ShapeOK
<1>2. ASSUME NEW c \in Callers, skw_cmd_lock(c) PROVE PowerOK'
  BY <1>2 DEF skw_cmd_lock, ShapeOK, CmdThreads
<1>3. ASSUME NEW t \in CmdThreads, SetCmd(t) PROVE PowerOK'
  <2>1. "XMIT" \notin cmd'.flags BY <1>3 DEF SetCmd, skw_set_cmd, ShapeOK, Cmds, ExtraFlags
  <2> QED BY <1>3, <2>1 DEF SetCmd, ShapeOK, CmdThreads
<1>4. ASSUME NEW c \in Callers, skw_cmd_xmit_timeout(c) PROVE PowerOK'
  <2>1. ASSUME ~fault, pm = "asleep" PROVE cmd'.flags = {"XMIT"}
    <3>1. c # Pm BY <2>1, <1>4 DEF skw_cmd_xmit_timeout
    <3>2. Fills(c)
      BY <2>1, <1>4 DEF skw_cmd_xmit_timeout, HolderOK, OwnerOK, Free, Fills, Waits, Tried,
         Holds, NobodyIn, OnlyIn, CmdThreads, Section
    <3>3. cmd.flags = {} BY <3>1, <3>2, <1>4 DEF skw_cmd_xmit_timeout, Fills
    <3> QED BY <3>3, <1>4 DEF skw_cmd_xmit_timeout, ShapeOK, Cmds
  <2> QED BY <1>4, <2>1 DEF skw_cmd_xmit_timeout, ShapeOK, CmdThreads
<1>5. ASSUME NEW c \in Callers, WaitDone(c) PROVE PowerOK' BY <1>5 DEF WaitDone, ShapeOK, CmdThreads
<1>6. ASSUME NEW c \in Callers, Wait1Timeout(c) PROVE PowerOK'
  BY <1>6 DEF Wait1Timeout, ShapeOK, CmdThreads
<1>7. ASSUME NEW c \in Callers, Wait2Timeout(c) PROVE PowerOK'
  BY <1>7 DEF Wait2Timeout, ShapeOK, CmdThreads
<1>8. ASSUME NEW c \in Callers, skw_cmd_unlock(c) PROVE PowerOK'
  <2>1. ~fault => "XMIT" \notin cmd.flags
    BY <1>8 DEF skw_cmd_unlock, HolderOK, OwnerOK, Free, Fills, Waits, Tried, Holds, Over,
       NobodyIn, OnlyIn, CmdThreads, Section
  <2> QED BY <1>8, <2>1 DEF skw_cmd_unlock, ShapeOK, CmdThreads
<1>9. CASE skw_suspend \/ skw_resume BY <1>9 DEF skw_suspend, skw_resume, ShapeOK, CmdThreads
<1>10. CASE TryLock BY <1>10 DEF TryLock, ShapeOK, CmdThreads
<1>11. CASE skw_msg_try_send
  <2>1. ASSUME ~fault PROVE cmd'.flags = {"XMIT"}
    <3>1. Fills(Xmit)
      BY <2>1, <1>11 DEF skw_msg_try_send, HolderOK, OwnerOK, Free, Fills, Waits, Tried, Holds,
         NobodyIn, OnlyIn, CmdThreads, Section
    <3>2. cmd.flags = {} BY <3>1, <1>11 DEF skw_msg_try_send, Fills
    <3> QED BY <3>2, <1>11 DEF skw_msg_try_send, ShapeOK, Cmds
  <2> QED BY <1>11, <2>1 DEF skw_msg_try_send, ShapeOK, CmdThreads
<1>12. CASE skw_cmd_timeout_fn \/ skw_work_unlock BY <1>12 DEF skw_cmd_timeout_fn, skw_work_unlock
<1>13. CASE AssertWork BY <1>13 DEF AssertWork
<1>14. CASE skw_cmd_do
  <2>1. cmd' = cmd \/ "XMIT" \notin cmd'.flags
    BY <1>14 DEF skw_cmd_do, skw_bus_cmd_xmit, Callback, skw_abort_cmd, ShapeOK, Cmds
  <2>2. "assert" \in work' => "assert" \in work
    BY <1>14 DEF skw_cmd_do, skw_bus_cmd_xmit, Callback, skw_abort_cmd
  <2> QED BY <1>14, <2>1, <2>2 DEF skw_cmd_do
<1>15. ASSUME NEW s \in {"ok", "err"}, FwAnswer(s) PROVE PowerOK' BY <1>15 DEF FwAnswer
<1>16. ASSUME NEW a \in acks, AckTest(a) PROVE PowerOK'
  <2>1. cmd'.flags \subseteq cmd.flags \union {"ACKED"} BY <1>16 DEF AckTest, ShapeOK, Cmds
  <2> QED BY <1>16, <2>1 DEF AckTest
<1>17. CASE skw_cmd_ack_handler
  <2>1. cmd'.flags \subseteq cmd.flags \union {"DONE"} BY <1>17 DEF skw_cmd_ack_handler, ShapeOK, Cmds
  <2> QED BY <1>17, <2>1 DEF skw_cmd_ack_handler
<1>18. CASE FwCrash \/ skw_event_fw_recovery \/ BspReady \/ RecoveryUnblocks
  BY <1>18 DEF FwCrash, skw_event_fw_recovery, BspReady, RecoveryUnblocks
<1>19. CASE BspAssert BY <1>19 DEF BspAssert
<1>20. CASE skw_recovery_prepare BY <1>20 DEF skw_recovery_prepare
<1> QED BY <1>c, <1>1, <1>2, <1>3, <1>4, <1>5, <1>6, <1>7, <1>8, <1>9, <1>10, <1>11, <1>12, <1>13,
     <1>14, <1>15, <1>16, <1>17, <1>18, <1>19, <1>20
     DEF CmdNext, Caller, Softirq, Workers, AckPath, BspEvents, CmdThreads

\* Every step hands skw->cmd from one owner to the next, stage by stage.
LEMMA HolderStep ==
    ASSUME CmdInv, [CmdNext]_cmdVars PROVE HolderOK'
<1>0. ~fault' => ~fault
  BY DEF CmdNext, Call, Caller, Softirq, Workers, AckPath, BspEvents, skw_cmd_lock, SetCmd,
     skw_cmd_xmit_timeout, WaitDone, Wait1Timeout, Wait2Timeout, skw_cmd_unlock, skw_suspend,
     skw_resume, TryLock, skw_msg_try_send, skw_cmd_timeout_fn, skw_work_unlock, AssertWork,
     skw_cmd_do, FwAnswer, AckTest, skw_cmd_ack_handler, FwCrash, skw_event_fw_recovery,
     BspAssert, BspReady, skw_recovery_prepare, RecoveryUnblocks, CmdRest, cmdVars
<1> SUFFICES ASSUME ~fault' PROVE OwnerOK' BY DEF HolderOK
<1>1. ShapeOK /\ OwnerOK /\ PowerOK /\ ~fault /\ bsp \in {"up", "down"} /\ "assert" \notin work
  BY <1>0 DEF CmdInv, HolderOK, PowerOK
<1>2. /\ cmd \in Cmds /\ pc \in [CmdThreads -> Section \union {"idle", "lock"}]
      /\ lock \in Nat /\ Pm \in Callers /\ Xmit \notin Callers
      /\ Callers \subseteq CmdThreads /\ Xmit \in CmdThreads
  BY <1>1, CallersAssumption DEF ShapeOK, CmdThreads
<1>3. ASSUME \A t \in CmdThreads : pc'[t] = pc[t] \/ (pc[t] \notin Section /\ pc'[t] \notin Section),
             UNCHANGED <<lock, cmd, queue, acks, rx, timer, work, answer, res>>
      PROVE  OwnerOK'
  <2>1. NoneAsked' = NoneAsked /\ OneAsked' = OneAsked /\ Called' = Called /\ Reply' = Reply
    BY <1>3 DEF NoneAsked, OneAsked, Called, Reply
  <2>2. Over' = Over /\ InFlight' = InFlight
    BY <1>3, <2>1 DEF Over, Quiet, InFlight, Unsent, Asked, Answered, Taken, Told, Agree
  <2>3. (NobodyIn => NobodyIn') /\ \A t \in CmdThreads : OnlyIn(t) => OnlyIn(t)' /\ pc'[t] = pc[t]
    BY <1>3 DEF NobodyIn, OnlyIn
  <2>4. CASE Free BY <1>3, <2>2, <2>3, <2>4 DEF Free, OwnerOK
  <2>5. ASSUME NEW t \in CmdThreads, Fills(t) PROVE Fills(t)'
    BY <1>3, <2>2, <2>3, <2>5 DEF Fills, Holds, Agree
  <2>6. ASSUME NEW t \in CmdThreads, Waits(t) PROVE Waits(t)'
    BY <1>3, <2>2, <2>3, <2>6 DEF Waits, Holds
  <2>7. Tried => Tried' BY <1>3, <2>3 DEF Tried
  <2> QED BY <1>1, <2>2, <2>4, <2>5, <2>6, <2>7 DEF OwnerOK
<1>4. CASE UNCHANGED cmdVars \/ CmdRest BY <1>3, <1>4 DEF CmdRest, cmdVars
<1>5. ASSUME NEW c \in Callers, Call(c) PROVE OwnerOK' BY <1>2, <1>3, <1>5 DEF Call, Section
<1>6. CASE skw_suspend \/ skw_resume BY <1>2, <1>3, <1>6 DEF skw_suspend, skw_resume, Section
<1>7. CASE FwCrash \/ skw_event_fw_recovery BY <1>3, <1>7 DEF FwCrash, skw_event_fw_recovery
<1>8. CASE AssertWork \/ BspEvents \/ skw_cmd_timeout_fn
  BY <1>1, <1>8 DEF AssertWork, BspEvents, BspAssert, BspReady, skw_recovery_prepare,
     RecoveryUnblocks, skw_cmd_timeout_fn
<1>9. ASSUME NEW t \in CmdThreads, lock > 0, pc[t] \notin Section, lock' = lock - 1,
             pc' = [pc EXCEPT ![t] = "set"],
             UNCHANGED <<cmd, queue, acks, rx, timer, work>>
      PROVE  OwnerOK'
  <2>1. Free BY <1>1, <1>9 DEF OwnerOK, Fills, Waits, Holds, Tried
  <2>2. Over' BY <1>9, <2>1 DEF Free, Over, Quiet, NoneAsked
  <2>3. Fills(t)' BY <1>2, <1>9, <2>1, <2>2 DEF Fills, Holds, OnlyIn, Free, NobodyIn, Section
  <2> QED BY <2>3 DEF OwnerOK
<1>10. ASSUME NEW c \in Callers, skw_cmd_lock(c) PROVE OwnerOK'
  BY <1>2, <1>9, <1>10 DEF skw_cmd_lock, Section
<1>11. CASE TryLock BY <1>2, <1>9, <1>11 DEF TryLock, Section
<1>12. ASSUME NEW t \in CmdThreads, pc[t] \in {"set", "cb", "unlock"} PROVE Fills(t)
  BY <1>1, <1>12 DEF OwnerOK, Free, Fills, Waits, Holds, Tried, NobodyIn, OnlyIn, Section
<1>13. ASSUME NEW t \in CmdThreads, SetCmd(t) PROVE OwnerOK'
  <2>1. Fills(t) BY <1>12, <1>13 DEF SetCmd
  <2>2. cmd'.who = t /\ cmd'.status = "ok" /\ cmd'.flags = ExtraFlags(t)
    BY <1>2, <1>13 DEF SetCmd, skw_set_cmd, Cmds
  <2>3. ExtraFlags(t) \subseteq {"NO_ACK", "IGNORE_BLOCK_TX"} /\ (t # Pm => ExtraFlags(t) = {})
    BY DEF ExtraFlags
  <2>4. Over' BY <1>13, <2>1, <2>2, <2>3 DEF SetCmd, Fills, Over, Quiet, NoneAsked
  <2>5. Holds(t)' /\ pc'[t] = "cb" BY <1>2, <1>13, <2>1 DEF SetCmd, Fills, Holds, OnlyIn, Section
  <2>6. answer' = "none" BY <1>13 DEF SetCmd, skw_set_cmd
  <2>7. Fills(t)' BY <2>2, <2>3, <2>4, <2>5, <2>6 DEF Fills
  <2> QED BY <2>7 DEF OwnerOK
<1>14. ASSUME NEW c \in Callers, skw_cmd_xmit_timeout(c) PROVE OwnerOK'
  <2>1. Fills(c) /\ cmd.flags \subseteq {"NO_ACK", "IGNORE_BLOCK_TX"}
    BY <1>2, <1>12, <1>14 DEF skw_cmd_xmit_timeout, Fills
  <2>2. /\ cmd'.who = cmd.who /\ cmd'.status = cmd.status /\ cmd'.cb = "wait"
        /\ cmd'.flags = cmd.flags \union {"XMIT"}
    BY <1>2, <1>14 DEF skw_cmd_xmit_timeout, Cmds
  <2>3. Unsent'
    BY <1>14, <2>1, <2>2 DEF skw_cmd_xmit_timeout, Fills, Unsent, Over, Quiet, NoneAsked, Called
  <2>4. Waits(c)'
    BY <1>2, <1>14, <2>1, <2>2 DEF skw_cmd_xmit_timeout, Fills, Waits, Holds, OnlyIn, Section
  <2> QED BY <1>2, <2>3, <2>4 DEF OwnerOK, InFlight
<1>15. CASE skw_msg_try_send
  <2>1. Fills(Xmit) /\ cmd.flags = {} BY <1>2, <1>12, <1>15 DEF skw_msg_try_send, Fills
  <2>2. /\ cmd'.who = cmd.who /\ cmd'.status = cmd.status /\ cmd'.cb = "try"
        /\ cmd'.flags = {"XMIT"}
    BY <1>2, <1>15, <2>1 DEF skw_msg_try_send, Cmds
  <2>3. Unsent'
    BY <1>15, <2>1, <2>2 DEF skw_msg_try_send, Fills, Holds, Unsent, Over, Quiet, NoneAsked,
       Called
  <2>4. Tried' BY <1>2, <1>15, <2>1, <2>2 DEF skw_msg_try_send, Fills, Tried, Holds, OnlyIn, NobodyIn,
       Section
  <2> QED BY <2>3, <2>4 DEF OwnerOK, InFlight
<1>16. ASSUME NEW c \in Callers, pc[c] \in {"wait1", "wait2"} PROVE Waits(c) /\ InFlight
  BY <1>1, <1>2, <1>16 DEF OwnerOK, Free, Fills, Waits, Holds, Tried, NobodyIn, OnlyIn, Section
<1>17. ASSUME NEW c \in Callers, WaitDone(c) PROVE OwnerOK'
  <2>1. Waits(c) /\ Told
    BY <1>16, <1>17 DEF WaitDone, InFlight, Unsent, Asked, Answered, Taken, Waits, Called
  <2>2. Over' BY <1>17, <2>1 DEF WaitDone, Told, Over, Quiet, NoneAsked
  <2>3. Holds(c)' /\ pc'[c] = "unlock"
    BY <1>2, <1>17, <2>1 DEF WaitDone, Waits, Holds, OnlyIn, Section
  <2>4. Agree(res[c])' BY <1>1, <1>17, <2>1 DEF WaitDone, Told, Agree, ShapeOK
  <2>5. Fills(c)' BY <1>17, <2>1, <2>2, <2>3, <2>4 DEF WaitDone, Fills, Waits
  <2> QED BY <1>2, <2>5 DEF OwnerOK
<1>18. ASSUME NEW c \in Callers, Wait1Timeout(c) PROVE OwnerOK'
  <2>1. Waits(c) /\ InFlight BY <1>16, <1>18 DEF Wait1Timeout
  <2>2. NoneAsked' = NoneAsked /\ OneAsked' = OneAsked /\ Called' = Called /\ Reply' = Reply
    BY <1>18 DEF Wait1Timeout, NoneAsked, OneAsked, Called, Reply
  <2>3. InFlight'
    BY <1>18, <2>1, <2>2 DEF Wait1Timeout, Over, Quiet, InFlight, Unsent, Asked, Answered,
       Taken, Told, Agree
  <2>4. Waits(c)' BY <1>2, <1>18, <2>1 DEF Wait1Timeout, Waits, Holds, OnlyIn, Section
  <2> QED BY <1>2, <2>3, <2>4 DEF OwnerOK
<1>19. ASSUME NEW c \in Callers, Wait2Timeout(c) PROVE OwnerOK' BY <1>19 DEF Wait2Timeout
<1>20. ASSUME NEW c \in Callers, skw_cmd_unlock(c) PROVE OwnerOK'
  <2>1. Fills(c) BY <1>2, <1>12, <1>20 DEF skw_cmd_unlock
  <2>2. Over' BY <1>20, <2>1 DEF skw_cmd_unlock, Fills, Over, Quiet, NoneAsked
  <2>3. Free'
    BY <1>2, <1>20, <2>1, <2>2 DEF skw_cmd_unlock, Fills, Holds, Free, OnlyIn, NobodyIn, Section
  <2> QED BY <2>3 DEF OwnerOK
<1>21. CASE skw_work_unlock
  <2>1. Tried /\ Told
    BY <1>1, <1>21 DEF skw_work_unlock, OwnerOK, Free, Fills, Waits, Holds, Tried, InFlight,
       Unsent, Asked, Answered, Taken, Called
  <2>2. Over' BY <1>21, <2>1 DEF skw_work_unlock, Told, Over, Quiet, NoneAsked
  <2>3. Free' BY <1>21, <2>1, <2>2 DEF skw_work_unlock, Tried, Free, NobodyIn
  <2> QED BY <2>3 DEF OwnerOK
\* The steps between the two queues of the firmware leave the owner alone.
<1>22. ASSUME UNCHANGED <<lock, pc, timer>>, cmd'.who = cmd.who, cmd'.cb = cmd.cb,
              "NO_ACK" \in cmd'.flags => "NO_ACK" \in cmd.flags,
              cmd.cb = "wait" => UNCHANGED work,
              Tried \/ \E t \in CmdThreads : Waits(t), InFlight'
       PROVE  OwnerOK'
  BY <1>22 DEF OwnerOK, Tried, Waits, Holds, OnlyIn, NobodyIn
<1>23. ASSUME Tried \/ \E t \in CmdThreads : Waits(t)
       PROVE  lock = 0 /\ (cmd.cb = "wait" \/ (cmd.cb = "try" /\ "NO_ACK" \notin cmd.flags))
  BY <1>23 DEF Tried, Waits, Holds
<1>24. CASE skw_cmd_do
  <2>1. CASE "XMIT" \notin cmd.flags BY <1>3, <1>24, <2>1 DEF skw_cmd_do
  <2>2. CASE "XMIT" \in cmd.flags
    <3> DEFINE f == cmd.flags \ {"XMIT"}
    <3>1. (Tried \/ \E t \in CmdThreads : Waits(t)) /\ Unsent
      BY <1>1, <2>2 DEF OwnerOK, Free, Fills, InFlight, Over, Asked, Answered, Taken, Told
    <3>2. cmd'.who = cmd.who /\ cmd'.cb = cmd.cb /\ cmd'.seq = cmd.seq /\ cmd'.status = cmd.status
      BY <1>2, <1>24 DEF skw_cmd_do, skw_bus_cmd_xmit, Callback, skw_abort_cmd, Cmds
    <3>3. "NO_ACK" \in cmd'.flags => "NO_ACK" \in cmd.flags
      BY <1>2, <1>24 DEF skw_cmd_do, skw_bus_cmd_xmit, Callback, skw_abort_cmd, Cmds
    <3>4. cmd.cb = "wait" => UNCHANGED work
      BY <1>2, <1>24 DEF skw_cmd_do, skw_bus_cmd_xmit, Callback, skw_abort_cmd
    <3>5. UNCHANGED <<lock, pc, timer, acks, rx>> BY <1>24 DEF skw_cmd_do
    <3>6. CASE ~skw_cmd_tx_allowed("IGNORE_BLOCK_TX" \in f)
      <4>1. queue' = queue /\ answer' = "aborted" /\ Callback(f \union {"ACKED"})
        BY <1>23, <1>24, <2>2, <3>1, <3>6 DEF skw_cmd_do, skw_bus_cmd_xmit, skw_abort_cmd,
           Unsent
      <4>2. Called' /\ "XMIT" \notin cmd'.flags BY <1>2, <4>1 DEF Callback, Called, Cmds
      <4>3. Told' BY <3>1, <3>2, <3>5, <4>1, <4>2 DEF Told, Over, Quiet, NoneAsked, Unsent, Agree
      <4> QED BY <1>22, <3>1, <3>2, <3>3, <3>4, <3>5, <4>3 DEF InFlight
    <3>7. CASE skw_cmd_tx_allowed("IGNORE_BLOCK_TX" \in f)
      <4>1. queue' = IF bsp = "up" THEN Append(queue, Sent(f)) ELSE queue
        BY <1>24, <2>2, <3>7 DEF skw_cmd_do, skw_bus_cmd_xmit
      <4>2. Len(queue) \in Nat /\ \A i \in 1..Len(queue) : ~queue[i].ack
        BY <1>1, <3>1 DEF ShapeOK, Unsent, Quiet, NoneAsked
      <4>3. Sent(f) \in Msgs /\ queue \in Seq(Msgs) BY <1>1, <1>2 DEF Sent, Msgs, Cmds, ShapeOK
      <4>4. /\ Len(queue') \in {Len(queue), Len(queue) + 1}
            /\ \A i \in 1..Len(queue) : queue'[i] = queue[i]
            /\ Len(queue') = Len(queue) + 1 => queue'[Len(queue) + 1] = Sent(f)
        BY <4>1, <4>3
      <4>5. \A i \in 1..Len(queue') : queue'[i].ack => i = Len(queue) + 1 /\ queue'[i] = Sent(f)
        BY <4>2, <4>4
      <4>6. CASE "NO_ACK" \in f
        <5>1. answer' = "unacked" /\ Callback(f)
          BY <1>24, <2>2, <3>7, <4>6 DEF skw_cmd_do, skw_bus_cmd_xmit
        <5>2. Called' /\ "XMIT" \notin cmd'.flags BY <1>2, <5>1 DEF Callback, Called, Cmds
        <5>3. NoneAsked'
          <6>1. Sent(f).ack = FALSE BY <4>6 DEF Sent
          <6> HIDE DEF f
          <6> QED BY <4>5, <6>1 DEF NoneAsked
        <5>4. Told' BY <3>1, <3>2, <3>5, <5>1, <5>2, <5>3 DEF Told, Over, Quiet, Unsent, Agree
        <5> QED BY <1>22, <3>1, <3>2, <3>3, <3>4, <3>5, <5>4 DEF InFlight
      <4>7. CASE "NO_ACK" \notin f
        <5>1. answer' = answer /\ work' = work /\ cmd'.flags = f
          BY <1>2, <1>24, <2>2, <3>7, <4>7 DEF skw_cmd_do, skw_bus_cmd_xmit, Cmds
        <5>2. OneAsked' BY <3>2, <4>5 DEF OneAsked, Sent
        <5>3. Asked' BY <3>1, <3>2, <3>5, <5>1, <5>2 DEF Asked, Quiet, Unsent, Called
        <5> QED BY <1>22, <3>1, <3>2, <3>3, <3>4, <3>5, <5>3 DEF InFlight
      <4> QED BY <4>6, <4>7
    <3> QED BY <3>6, <3>7
  <2> QED BY <2>1, <2>2
<1>25. ASSUME NEW s \in {"ok", "err"}, FwAnswer(s) PROVE OwnerOK'
  <2>1. /\ Len(queue) \in Nat \ {0} /\ Head(queue) = queue[1] /\ Len(queue') = Len(queue) - 1
        /\ \A i \in 1..Len(queue') : i + 1 \in 1..Len(queue) /\ queue'[i] = queue[i + 1]
    BY <1>1, <1>25 DEF FwAnswer, ShapeOK
  <2>2. ASSUME NoneAsked PROVE NoneAsked' /\ UNCHANGED <<acks, answer>>
    BY <1>25, <2>1, <2>2 DEF FwAnswer, NoneAsked
  <2>3. ASSUME OneAsked, ~Head(queue).ack PROVE OneAsked' /\ UNCHANGED <<acks, answer>>
    BY <1>25, <2>1, <2>3 DEF FwAnswer, OneAsked
  <2>4. ASSUME OneAsked, Head(queue).ack
        PROVE  /\ NoneAsked' /\ answer' = s
               /\ acks' = acks \union {[seq |-> cmd.seq, who |-> cmd.who, status |-> s]}
    <3>1. queue[1].seq = cmd.seq /\ queue[1].who = cmd.who BY <2>1, <2>4 DEF OneAsked
    <3>2. NoneAsked' BY <2>1, <2>4 DEF OneAsked, NoneAsked
    <3> QED BY <1>25, <2>1, <2>4, <3>1, <3>2 DEF FwAnswer
  <2>5. UNCHANGED <<lock, pc, res, cmd, timer, work, rx>> /\ Called' = Called
    BY <1>25 DEF FwAnswer, Called
  <2>6. CASE Free BY <2>2, <2>5, <2>6 DEF Free, Over, Quiet, NobodyIn, OwnerOK
  <2>7. ASSUME NEW t \in CmdThreads, Fills(t) PROVE OwnerOK'
    <3>1. Over' /\ answer' = answer BY <2>2, <2>5, <2>7 DEF Fills, Over, Quiet
    <3>2. Fills(t)' BY <2>5, <2>7, <3>1 DEF Fills, Holds, OnlyIn, Agree
    <3> QED BY <3>2 DEF OwnerOK
  <2>8. ASSUME InFlight PROVE InFlight'
    <3>1. CASE Unsent BY <2>2, <2>5, <3>1 DEF InFlight, Unsent, Quiet
    <3>2. CASE Asked /\ ~Head(queue).ack BY <2>3, <2>5, <3>2 DEF InFlight, Asked
    <3>3. CASE Asked /\ Head(queue).ack BY <2>4, <2>5, <3>3 DEF InFlight, Asked, Answered, Reply
    <3>4. CASE Answered BY <2>2, <2>5, <3>4 DEF InFlight, Answered, Reply
    <3>5. CASE Taken BY <2>2, <2>5, <3>5 DEF InFlight, Taken, Reply
    <3>6. CASE Told BY <2>2, <2>5, <3>6 DEF InFlight, Told, Over, Quiet, Agree
    <3> QED BY <2>8, <3>1, <3>2, <3>3, <3>4, <3>5, <3>6 DEF InFlight
  <2> QED BY <1>1, <1>22, <2>5, <2>6, <2>7, <2>8 DEF OwnerOK
<1>26. ASSUME NEW a \in acks, AckTest(a) PROVE OwnerOK'
  <2>1. (Tried \/ \E t \in CmdThreads : Waits(t)) /\ Answered
    BY <1>1 DEF OwnerOK, Free, Fills, InFlight, Over, Quiet, Unsent, Asked, Taken, Told
  <2>2. a = Reply /\ acks' = {} /\ a.seq = cmd.seq BY <1>26, <2>1 DEF AckTest, Answered, Reply
  <2>3. rx' = a /\ cmd' = [cmd EXCEPT !.flags = @ \union {"ACKED"}] /\ UNCHANGED answer
    BY <1>26, <2>1, <2>2 DEF AckTest, Answered
  <2>4. /\ cmd'.who = cmd.who /\ cmd'.cb = cmd.cb /\ cmd'.seq = cmd.seq
        /\ cmd'.flags = cmd.flags \union {"ACKED"}
    BY <1>2, <2>3 DEF Cmds
  <2>5. Reply' = Reply /\ Called' = Called BY <1>26, <2>3, <2>4 DEF AckTest, Reply, Called
  <2>6. Taken' BY <1>26, <2>1, <2>2, <2>3, <2>4, <2>5 DEF AckTest, Taken, Answered, NoneAsked
  <2> QED BY <1>22, <1>26, <2>1, <2>4, <2>6 DEF AckTest, InFlight
<1>27. CASE skw_cmd_ack_handler
  <2>1. (Tried \/ \E t \in CmdThreads : Waits(t)) /\ Taken
    BY <1>1, <1>27 DEF skw_cmd_ack_handler, OwnerOK, Free, Fills, InFlight, Over, Quiet, Unsent,
       Asked, Answered, Told
  <2>2. rx.status = answer /\ UNCHANGED <<answer, queue, acks>> /\ rx' = NoAck
    BY <1>27, <2>1 DEF skw_cmd_ack_handler, Taken, Reply
  <2>3. /\ cmd'.who = cmd.who /\ cmd'.cb = cmd.cb /\ cmd'.status = rx.status
        /\ cmd'.flags = IF cmd.cb = "wait" THEN cmd.flags \union {"DONE"} ELSE cmd.flags
    BY <1>2, <1>27 DEF skw_cmd_ack_handler, Cmds
  <2>4. Called' BY <1>27, <2>3 DEF skw_cmd_ack_handler, Called
  <2>5. Told' BY <2>1, <2>2, <2>3, <2>4 DEF Told, Taken, Over, Quiet, NoneAsked, Agree
  <2> QED BY <1>22, <1>27, <2>1, <2>3, <2>5 DEF skw_cmd_ack_handler, InFlight
<1> QED BY <1>2, <1>4, <1>5, <1>6, <1>7, <1>8, <1>10, <1>11, <1>13, <1>14, <1>15, <1>17, <1>18, <1>19,
     <1>20, <1>21, <1>24, <1>25, <1>26, <1>27
     DEF CmdNext, Caller, Softirq, Workers, AckPath

CmdSound == CmdInv /\ CountOK /\ PlainOK

\* After the probe nobody owns skw->cmd.
LEMMA CmdBegins == CmdInit => CmdSound
<1> SUFFICES ASSUME CmdInit PROVE CmdSound OBVIOUS
<1>1. ShapeOK BY CallersAssumption DEF CmdInit, ShapeOK, Cmds, CmdFlags, SeqNos, CmdThreads
<1>2. Free BY DEF CmdInit, Free, NobodyIn, Over, Quiet, NoneAsked, Section
<1>3. PowerOK BY CallersAssumption DEF CmdInit, PowerOK, CmdThreads
<1>4. CountOK
  <2>1. InLine = {} BY DEF CmdInit, InLine
  <2> QED BY <2>1, FS_EmptySet, CallersAssumption DEF CmdInit, CountOK
<1>5. PlainOK BY DEF CmdInit, PlainOK
<1> QED BY <1>1, <1>2, <1>3, <1>4, <1>5 DEF CmdSound, CmdInv, HolderOK, OwnerOK

\* The invariant of the command path is inductive ...
LEMMA CmdStep == CmdSound /\ [CmdNext]_cmdVars => CmdSound'
  BY ShapeStep, CountStep, PlainStep, PowerStep, HolderStep DEF CmdSound, CmdInv

\* ... and so holds throughout.
LEMMA CmdInvariance == CmdSpec => []CmdSound
  BY CmdBegins, CmdStep, PTL DEF CmdSpec

\* The invariant gives the types of module SkwCommand.
LEMMA CmdTypes == CmdSound => CmdTypeOK
<1> SUFFICES ASSUME CmdSound PROVE CmdTypeOK OBVIOUS
<1>1. acks \subseteq AckSet /\ rx \in AckSet
  BY CallersAssumption DEF CmdSound, CmdInv, ShapeOK, Acks, AckSet, NoAck, SeqNos, CmdThreads
<1> QED BY <1>1 DEF CmdSound, CmdInv, ShapeOK, CountOK, PlainOK, PowerOK, CmdTypeOK, Cmds, CmdFlags,
     Msgs, SeqNos

\* One owner of skw->cmd: what CmdSound says of the lock and the threads.
LEMMA CmdExclusive == CmdSound => ExclusiveUntilFault
<1> SUFFICES ASSUME CmdSound, ~fault PROVE ExclusiveUntilFault BY DEF ExclusiveUntilFault
<1>0. OwnerOK BY DEF CmdSound, CmdInv, HolderOK
<1>1. CASE NobodyIn
  <2>1. InSection = {} /\ lock \in {0, 1} /\ (timer => lock = 0 /\ cmd.who = Xmit)
    BY <1>0, <1>1 DEF InSection, NobodyIn, OwnerOK, Free, Fills, Waits, Holds, OnlyIn, Tried
  <2>2. Cardinality(InSection) = 0 BY <2>1, FS_EmptySet
  <2> QED BY <2>1, <2>2 DEF ExclusiveUntilFault
<1>2. ASSUME NEW t \in CmdThreads, Holds(t) PROVE ExclusiveUntilFault
  <2>1. InSection = {t} BY <1>2 DEF InSection, Holds, OnlyIn
  <2>2. Cardinality(InSection) = 1 BY <2>1, FS_Singleton
  <2> QED BY <1>2, <2>2 DEF ExclusiveUntilFault, Holds
<1> QED BY <1>0, <1>1, <1>2 DEF OwnerOK, Free, Fills, Waits, Tried

\* The answer was noted while the caller owned skw->cmd.
LEMMA CmdResult == CmdSound => ResultIsOwn
  BY DEF CmdSound, CmdInv, HolderOK, OwnerOK, Free, Fills, Waits, Tried, Holds, OnlyIn, NobodyIn,
     Section, ResultIsOwn, Agree, CmdThreads

\* As long as no command has timed out and the firmware has not died, one
\* command at a time uses skw->cmd, whoever sends it: skw_msg_xmit_timeout
\* or skw_msg_try_send, whose lock is released by skw_work_unlock or the
\* timer, never by both.
THEOREM OneCommand == CmdSpec => []ExclusiveUntilFault
  BY CmdInvariance, CmdExclusive, PTL

\* What skw_msg_xmit_timeout returns is what became of the caller's own
\* command (skw_cmd_ack_handler).
THEOREM CommandAnswerIsOwn == CmdSpec => []ResultIsOwn
  BY CmdInvariance, CmdResult, PTL

\* The state of the command path keeps its type: every number in a command,
\* a message or an acknowledgement was given out by skw_set_cmd.
THEOREM CommandTyping == CmdSpec => []CmdTypeOK
  BY CmdInvariance, CmdTypes, PTL

\* Between a suspend that succeeded and the resume nothing is sent, because
\* skw_bus_cmd_xmit looks at the flags again.
THEOREM SleepIsSilent == CmdSpec => AsleepIsSilent
<1>1. CmdSound /\ [CmdNext]_cmdVars => [pm = "asleep" /\ ~fault => Len(queue') <= Len(queue)]_cmdVars
  <2> SUFFICES ASSUME CmdSound, CmdNext, pm = "asleep", ~fault PROVE Len(queue') <= Len(queue) OBVIOUS
  <2>1. queue \in Seq(Msgs) /\ Len(queue) \in Nat BY DEF CmdSound, CmdInv, ShapeOK
  <2>2. CASE UNCHANGED queue BY <2>1, <2>2
  <2>3. ASSUME NEW s \in {"ok", "err"}, FwAnswer(s) PROVE Len(queue') <= Len(queue)
    BY <2>1, <2>3 DEF FwAnswer
  <2>4. CASE skw_cmd_do
    <3>1. ~skw_cmd_tx_allowed("IGNORE_BLOCK_TX" \in cmd.flags \ {"XMIT"}) \/ "XMIT" \notin cmd.flags
      BY DEF CmdSound, CmdInv, PowerOK, skw_cmd_tx_allowed
    <3>2. UNCHANGED queue BY <2>4, <3>1 DEF skw_cmd_do, skw_bus_cmd_xmit
    <3> QED BY <2>2, <3>2
  <2>5. CASE BspAssert BY <2>1, <2>5 DEF BspAssert
  <2> QED BY <2>2, <2>3, <2>4, <2>5 DEF CmdNext, Call, Caller, Softirq, Workers, AckPath, BspEvents,
       skw_cmd_lock, SetCmd, skw_cmd_xmit_timeout, WaitDone, Wait1Timeout, Wait2Timeout,
       skw_cmd_unlock, skw_suspend, skw_resume, TryLock, skw_msg_try_send, skw_cmd_timeout_fn,
       skw_work_unlock, AssertWork, AckTest, skw_cmd_ack_handler, FwCrash,
       skw_event_fw_recovery, BspReady, skw_recovery_prepare, RecoveryUnblocks, CmdRest, cmdVars
<1> QED BY CmdInvariance, <1>1, PTL DEF CmdSpec, AsleepIsSilent

-----------------------------------------------------------------------------
\* Scans.  The request under way is the last one made, its timer is the
\* only one of a scan in the list, and it was not answered yet.
ScanFields == {"req", "busy", "n", "starting", "stop", "fw", "dev", "told", "sched", "cqm", "overran"}
Distinct(s) == \A j, k \in 1..Len(s) : s[j] = s[k] => j = k

\* The lists hold timers, work and events of requests that have been made.
ListsOK ==
    /\ timers \in Seq(0..scan.n) /\ Distinct(timers) /\ expired \in Seq(0..scan.n)
    /\ works \in Seq([kind : {"scan_timeout", "tx_status"}, arg : Nat]) /\ scanEv \in Seq(1..scan.n)
    /\ \A k \in 1..Len(works) : works[k].kind = "scan_timeout" => works[k].arg \in 1..scan.n
MgmtOK == /\ DOMAIN mgmt = {"cookie", "due", "low"} /\ mgmt.cookie \in 0..(2 * MaxFrames)
          /\ mgmt.due \subseteq 1..mgmt.cookie
RecordOK ==
    /\ DOMAIN scan = ScanFields /\ scan.n \in 0..MaxScans /\ scan.busy \in 0..scan.n /\ scan.fw \in 0..scan.n
    /\ scan.req \in {0, scan.n} /\ scan.stop \in [Threads -> 0..scan.n] /\ scan.told \in [ScanIds -> Nat]
    /\ (scan.starting => scan.n > 0)
    /\ \A t, u \in Threads : scan.stop[t] # 0 /\ scan.stop[u] # 0 => t = u
    /\ \A t \in Threads : scan.stop[t] # 0 => scan.stop[t] # scan.req

\* How often a request may still be answered: by its start that is refused, and by its end.
Pending(i) == (IF scan.starting /\ scan.n = i THEN 1 ELSE 0)
              + (IF scan.req = i \/ \E t \in Threads : scan.stop[t] = i THEN 1 ELSE 0)
AnswersOK == \A i \in ScanIds : /\ scan.told[i] + Pending(i) <= 2
                                /\ i > scan.n => scan.told[i] = 0
\* As long as no start has overrun its own timeout, what is under way is the last request.
UnderWayOK ==
    ~scan.overran =>
        /\ scan.req # 0 => scan.busy = scan.n /\ scan.stop = NoDone /\ scan.told[scan.n] = 0
        /\ \A t \in Threads : scan.stop[t] # 0 =>
             scan.stop[t] = scan.n /\ scan.busy = scan.n /\ scan.told[scan.n] = 0
\* What AnsweredOnce says, by the positions of the list.
OnceOK ==
    ~scan.overran => /\ \A i \in ScanIds : scan.told[i] <= 1
                     /\ \A k \in 1..Len(timers) : timers[k] \in {0, scan.req}
ScanInv == ListsOK /\ MgmtOK /\ RecordOK /\ AnswersOK /\ UnderWayOK /\ OnceOK

-----------------------------------------------------------------------------
\* A set of naturals has a least element: the induction of this module.
LEMMA LeastNat ==
    ASSUME NEW T, T \subseteq Nat, T # {}
    PROVE  \E m \in T : \A k \in T : m <= k
<1> DEFINE R == {ss \in Nat \X Nat : ss[1] < ss[2]}
<1>1. IsWellFoundedOn(R, Nat) BY NatLessThanWellFounded DEF OpToRel
<1>2. \A y, m \in Nat : y < m => <<y, m>> \in R OBVIOUS
<1> HIDE DEF R
<1>3. PICK m \in T : \A y \in T : ~(<<y, m>> \in R) BY <1>1, WFMin
<1>4. ASSUME NEW y \in T PROVE m <= y
  <2>1. m \in Nat /\ y \in Nat OBVIOUS
  <2>2. ~(y < m) BY <1>2, <1>3, <2>1
  <2> QED BY <2>1, <2>2
<1> QED BY <1>4

\* skw_add_timer_work puts one entry into the list.
LEMMA Inserted ==
    ASSUME NEW S, NEW s \in Seq(S), NEW e \in S, NEW r \in Added(s, e)
    PROVE  /\ r \in Seq(S) /\ \A k \in 1..Len(r) : r[k] = e \/ \E j \in 1..Len(s) : r[k] = s[j]
           /\ Distinct(s) /\ (\A j \in 1..Len(s) : s[j] # e) => Distinct(r)
<1>1. PICK k \in 1..(Len(s) + 1) : r = InsertAt(s, k, e) BY DEF Added
<1> DEFINE a == SubSeq(s, 1, k - 1)
           b == SubSeq(s, k, Len(s))
<1>2. /\ a \in Seq(S) /\ Len(a) = k - 1 /\ \A i \in 1..(k - 1) : a[i] = s[i]
      /\ b \in Seq(S) /\ Len(b) = Len(s) - k + 1 /\ \A i \in 1..(Len(s) - k + 1) : b[i] = s[k + i - 1]
  OBVIOUS
<1>3. r = (a \o <<e>>) \o b BY <1>1 DEF InsertAt
<1> HIDE DEF a, b
<1>4. /\ a \o <<e>> \in Seq(S) /\ Len(a \o <<e>>) = k
      /\ \A i \in 1..k : (a \o <<e>>)[i] = IF i < k THEN s[i] ELSE e
  <2>1. <<e>> \in Seq(S) /\ Len(<<e>>) = 1 /\ <<e>>[1] = e OBVIOUS
  <2> QED BY <1>2, <2>1, ConcatProperties
<1> DEFINE c == a \o <<e>>
<1> HIDE DEF c
<1>5. /\ r \in Seq(S) /\ Len(r) = Len(s) + 1
      /\ \A i \in 1..(Len(s) + 1) : r[i] = IF i < k THEN s[i] ELSE IF i = k THEN e ELSE s[i - 1]
  <2>1. r = c \o b /\ c \in Seq(S) /\ Len(c) = k /\ \A i \in 1..k : c[i] = IF i < k THEN s[i] ELSE e
    BY <1>3, <1>4 DEF c
  <2>2. /\ r \in Seq(S) /\ Len(r) = Len(c) + Len(b)
        /\ \A i \in 1..(Len(c) + Len(b)) : r[i] = IF i <= Len(c) THEN c[i] ELSE b[i - Len(c)]
    BY <1>2, <2>1, ConcatProperties
  <2>3. ASSUME NEW i \in 1..(Len(s) + 1), i > k PROVE r[i] = s[i - 1]
    <3>1. r[i] = b[i - k] /\ i - k \in 1..(Len(s) - k + 1) BY <1>2, <2>1, <2>2, <2>3
    <3> QED BY <1>2, <3>1
  <2> QED BY <1>2, <2>1, <2>2, <2>3
<1>6. ASSUME NEW i \in 1..Len(r) PROVE r[i] = e \/ \E j \in 1..Len(s) : r[i] = s[j] BY <1>5
<1>7. ASSUME Distinct(s), \A j \in 1..Len(s) : s[j] # e, NEW i \in 1..Len(r), NEW j \in 1..Len(r),
             r[i] = r[j]
      PROVE  i = j
  <2> DEFINE From(x) == IF x < k THEN x ELSE x - 1
  <2>1. \A x \in 1..Len(r) : x # k => From(x) \in 1..Len(s) /\ r[x] = s[From(x)] BY <1>5
  <2>2. i = k <=> j = k BY <1>5, <1>7, <2>1
  <2>3. ASSUME i # k PROVE From(i) = From(j) BY <1>7, <2>1, <2>2, <2>3 DEF Distinct
  <2> QED BY <2>2, <2>3
<1> QED BY <1>5, <1>6, <1>7 DEF Distinct

\* skw_del_timer_work takes out the one entry with the id, if there is one.
LEMMA Removed ==
    ASSUME NEW S, NEW s \in Seq(S), NEW e, Distinct(s)
    PROVE  /\ Deleted(s, e) \in Seq(S) /\ Distinct(Deleted(s, e))
           /\ \A k \in 1..Len(Deleted(s, e)) :
                Deleted(s, e)[k] # e /\ \E j \in 1..Len(s) : Deleted(s, e)[k] = s[j]
<1>1. CASE ~\E i \in 1..Len(s) : s[i] = e BY <1>1 DEF Deleted, RemoveFirst
<1>2. CASE \E i \in 1..Len(s) : s[i] = e
  <2> DEFINE I == {j \in 1..Len(s) : s[j] = e}
             k == Min(I)
             a == SubSeq(s, 1, k - 1)
             b == SubSeq(s, k + 1, Len(s))
             r == Deleted(s, e)
  <2>1. I \subseteq Nat /\ I # {} BY <1>2
  <2>2. PICK m \in I : \A j \in I : m <= j BY <2>1, LeastNat
  <2>3. Min(I) \in I BY <2>2 DEF Min
  <2>4. r = a \o b BY <1>2, <2>1 DEF Deleted, RemoveFirst, SelectInSeq, RemoveAt
  <2>5. k \in 1..Len(s) /\ s[k] = e BY <2>3
  <2> HIDE DEF k, I
  <2>6. /\ a \in Seq(S) /\ Len(a) = k - 1 /\ \A i \in 1..(k - 1) : a[i] = s[i]
        /\ b \in Seq(S) /\ Len(b) = Len(s) - k /\ \A i \in 1..(Len(s) - k) : b[i] = s[k + i]
    BY <2>5
  <2> HIDE DEF a, b, r
  <2>7. /\ r \in Seq(S) /\ Len(r) = Len(s) - 1
        /\ \A i \in 1..(Len(s) - 1) : r[i] = IF i < k THEN s[i] ELSE s[i + 1]
    <3>0. k \in Nat /\ Len(s) \in Nat /\ k <= Len(s) /\ 1 <= k /\ Len(a) = k - 1 /\ Len(b) = Len(s) - k
      BY <2>5, <2>6
    <3>1. /\ r \in Seq(S) /\ Len(r) = Len(a) + Len(b)
          /\ \A i \in 1..(Len(a) + Len(b)) : r[i] = IF i <= Len(a) THEN a[i] ELSE b[i - Len(a)]
      BY <2>4, <2>6, ConcatProperties
    <3>2. ASSUME NEW i \in 1..(Len(s) - 1), ~(i < k) PROVE r[i] = s[i + 1]
      <4>1. i \in 1..(Len(a) + Len(b)) /\ ~(i <= Len(a)) /\ i - Len(a) \in 1..(Len(s) - k)
            /\ k + (i - Len(a)) = i + 1
        BY <3>0, <3>2
      <4> QED BY <2>6, <3>1, <4>1
    <3>3. ASSUME NEW i \in 1..(Len(s) - 1), i < k PROVE r[i] = s[i]
      <4>1. i \in 1..(Len(a) + Len(b)) /\ i <= Len(a) /\ i \in 1..(k - 1) BY <3>0, <3>3
      <4> QED BY <2>6, <3>1, <4>1
    <3> QED BY <3>0, <3>1, <3>2, <3>3
  <2> DEFINE From(x) == IF x < k THEN x ELSE x + 1
  <2>8. ASSUME NEW x \in 1..Len(r) PROVE From(x) \in 1..Len(s) /\ From(x) # k /\ r[x] = s[From(x)]
    BY <2>5, <2>7
  <2>9. ASSUME NEW x \in 1..Len(r) PROVE r[x] # e /\ \E j \in 1..Len(s) : r[x] = s[j]
    BY <2>5, <2>8 DEF Distinct
  <2>10. ASSUME NEW x \in 1..Len(r), NEW y \in 1..Len(r), r[x] = r[y] PROVE x = y
    <3>1. From(x) = From(y) BY <2>8, <2>10 DEF Distinct
    <3> QED BY <2>5, <2>7, <3>1
  <2> QED BY <2>7, <2>9, <2>10 DEF r, Distinct
<1> QED BY <1>1, <1>2

\* The elements of a sequence are of its kind.
LEMMA ToSetIn == ASSUME NEW S, NEW s \in Seq(S) PROVE ToSet(s) \subseteq S
  BY DEF ToSet

\* No scan has been asked for at first.
LEMMA ScanBegins == ScanInit => ScanInv
<1> SUFFICES ASSUME ScanInit PROVE ScanInv OBVIOUS
<1> USE ScanAssumption
<1>1. ListsOK BY DEF ScanInit, ListsOK, Distinct
<1>2. MgmtOK BY DEF ScanInit, MgmtOK
<1>3. RecordOK BY DEF ScanInit, RecordOK, ScanFields, NoDone
<1>4. AnswersOK BY DEF ScanInit, AnswersOK, Pending, NoDone, ScanIds
<1>5. UnderWayOK BY DEF ScanInit, UnderWayOK, NoDone
<1>6. OnceOK BY DEF ScanInit, OnceOK
<1> QED BY <1>1, <1>2, <1>3, <1>4, <1>5, <1>6 DEF ScanInv

\* The invariant of the scans is inductive ...
LEMMA ScanStep ==
    ASSUME ScanInv, [ScanNext]_scanVars PROVE ScanInv'
<1> USE ScanAssumption DEF ScanInv, RecordOK
<1>0. /\ scan.n \in Nat /\ scan.n <= MaxScans /\ MaxScans \in Nat /\ 0..scan.n \subseteq Nat
      /\ "req" \in DOMAIN scan /\ "busy" \in DOMAIN scan /\ "n" \in DOMAIN scan
      /\ "starting" \in DOMAIN scan /\ "stop" \in DOMAIN scan /\ "fw" \in DOMAIN scan
      /\ "told" \in DOMAIN scan /\ "cqm" \in DOMAIN scan /\ "overran" \in DOMAIN scan
      /\ "dev" \in DOMAIN scan /\ "sched" \in DOMAIN scan
  BY DEF ScanFields
\* Steps that leave the request alone.
<1>1. ASSUME DOMAIN scan' = DOMAIN scan, scan'.fw \in 0..scan.n, scan'.n = scan.n, scan'.req = scan.req,
             scan'.busy = scan.busy, scan'.stop = scan.stop, scan'.told = scan.told,
             scan'.overran = scan.overran, scan'.starting => scan.starting
      PROVE  RecordOK' /\ AnswersOK' /\ UnderWayOK'
  <2>1. RecordOK' BY <1>1 DEF ScanFields
  <2>2. AnswersOK' BY <1>0, <1>1 DEF AnswersOK, Pending
  <2>3. UnderWayOK' BY <1>1 DEF UnderWayOK
  <2> QED BY <2>1, <2>2, <2>3
<1>2. ASSUME UNCHANGED scan PROVE RecordOK' /\ AnswersOK' /\ UnderWayOK' BY <1>1, <1>2
<1>3. ASSUME UNCHANGED timers, scan'.overran = scan.overran, scan'.told = scan.told, scan'.req = scan.req
      PROVE  OnceOK'
  BY <1>3 DEF OnceOK
<1>4. ASSUME UNCHANGED <<timers, expired, works, scanEv>>, scan'.n = scan.n PROVE ListsOK'
  BY <1>4 DEF ListsOK
<1>5. ASSUME UNCHANGED mgmt PROVE MgmtOK' BY <1>5 DEF MgmtOK
<1>6. ASSUME NEW t \in Threads, NEW i, NEW aborted \in BOOLEAN, skw_scan_done(t, i, aborted)
      PROVE  /\ RecordOK' /\ AnswersOK' /\ UnderWayOK' /\ OnceOK' /\ scan'.n = scan.n
             /\ timers' \in Seq(0..scan.n) /\ Distinct(timers')
  <2>1. CASE UNCHANGED <<scan, timers>> BY <1>2, <1>3, <2>1 DEF ListsOK
  <2>2. CASE ~UNCHANGED <<scan, timers>>
    <3>1. /\ scan.req # 0 /\ scan.req = scan.n /\ scan.stop = NoDone /\ scan.n \in ScanIds
          /\ timers' = Deleted(timers, scan.req)
      BY <1>0, <1>6, <2>2 DEF skw_scan_done, ScanIds
    <3>2. /\ DOMAIN scan' = DOMAIN scan /\ scan'.n = scan.n /\ scan'.req = 0 /\ scan'.fw = scan.fw
          /\ scan'.starting = scan.starting /\ scan'.overran = scan.overran
          /\ scan'.stop = [NoDone EXCEPT ![t] = IF aborted THEN scan.n ELSE 0]
          /\ scan'.busy = (IF aborted THEN scan.busy ELSE 0)
          /\ scan'.told = [scan.told EXCEPT ![scan.n] = IF aborted THEN @ ELSE @ + 1]
      <4>1. scan' = [scan EXCEPT !.req = 0, !.stop[t] = IF aborted THEN scan.req ELSE 0,
                                 !.busy = IF aborted THEN @ ELSE 0,
                                 !.told[scan.req] = IF aborted THEN @ ELSE @ + 1]
        BY <1>6, <2>2 DEF skw_scan_done
      <4>2. scan'.stop = [scan.stop EXCEPT ![t] = IF aborted THEN scan.req ELSE 0] BY <1>0, <4>1
      <4>3. scan'.told = [scan.told EXCEPT ![scan.req] = IF aborted THEN @ ELSE @ + 1] BY <1>0, <4>1
      <4>4. /\ DOMAIN scan' = DOMAIN scan /\ scan'.n = scan.n /\ scan'.req = 0 /\ scan'.fw = scan.fw
            /\ scan'.starting = scan.starting /\ scan'.overran = scan.overran
            /\ scan'.busy = (IF aborted THEN scan.busy ELSE 0)
        BY <1>0, <4>1
      <4> QED BY <3>1, <4>2, <4>3, <4>4
    <3>3. scan'.stop = [u \in Threads |-> IF u = t /\ aborted THEN scan.n ELSE 0] BY <3>2 DEF NoDone
    <3>4. timers' \in Seq(0..scan.n) /\ Distinct(timers') /\ \A k \in 1..Len(timers') :
            timers'[k] # scan.n /\ \E j \in 1..Len(timers) : timers'[k] = timers[j]
      <4>1. timers \in Seq(0..scan.n) /\ Distinct(timers) BY DEF ListsOK
      <4> QED BY <3>1, <4>1, Removed
    <3>5. scan'.told \in [ScanIds -> Nat] BY <3>1, <3>2
    <3>6. RecordOK' BY <1>0, <3>1, <3>2, <3>3, <3>5
    <3>7. \A j \in ScanIds : scan'.told[j] = scan.told[j] + (IF j = scan.n /\ ~aborted THEN 1 ELSE 0)
      BY <3>1, <3>2
    <3>8. AnswersOK'
      <4> SUFFICES ASSUME NEW j \in ScanIds
                   PROVE scan'.told[j] + Pending(j)' <= 2 /\ (j > scan.n => scan'.told[j] = 0)
        BY <3>2 DEF AnswersOK
      <4>1. scan.told[j] + Pending(j) <= 2 /\ (j > scan.n => scan.told[j] = 0) /\ scan.told[j] \in Nat /\ j # 0
        BY DEF AnswersOK, ScanIds
      <4>2. CASE j # scan.n BY <1>0, <3>1, <3>2, <3>3, <3>7, <4>1, <4>2 DEF Pending, NoDone
      <4>3. CASE j = scan.n BY <1>0, <3>1, <3>2, <3>3, <3>7, <4>1, <4>3 DEF Pending, NoDone
      <4> QED BY <4>2, <4>3
    <3>9. UnderWayOK' BY <3>1, <3>2, <3>3 DEF UnderWayOK
    <3>10. OnceOK'
      <4>1. ASSUME ~scan.overran PROVE scan.told[scan.n] = 0 BY <3>1, <4>1 DEF UnderWayOK
      <4>2. ASSUME ~scan.overran, NEW j \in ScanIds PROVE scan'.told[j] <= 1
        BY <3>1, <3>7, <4>1, <4>2 DEF OnceOK
      <4>3. ASSUME ~scan.overran, NEW k \in 1..Len(timers') PROVE timers'[k] = 0
        BY <3>1, <3>4, <4>3 DEF OnceOK
      <4> QED BY <3>2, <4>2, <4>3 DEF OnceOK
    <3> QED BY <3>2, <3>4, <3>6, <3>8, <3>9, <3>10
  <2> QED BY <2>1, <2>2
<1>7. CASE skw_timer_work
  <2>1. PICK k \in 1..Len(timers) : /\ expired' = Reverse(SubSeq(timers, 1, k))
                                   /\ timers' = SubSeq(timers, k + 1, Len(timers))
    BY <1>7 DEF skw_timer_work
  <2>2. timers \in Seq(0..scan.n) /\ Distinct(timers) /\ Len(timers) \in Nat BY DEF ListsOK
  <2>3. /\ timers' \in Seq(0..scan.n) /\ Len(timers') = Len(timers) - k
        /\ \A j \in 1..(Len(timers) - k) : timers'[j] = timers[k + j]
    <3>1. timers' = SubSeq(timers, k + 1, Len(timers)) /\ k + 1 \in 1..(Len(timers) + 1) BY <2>1, <2>2
    <3> QED BY <2>2, <3>1, SubSeqProperties
  <2>4. expired' \in Seq(0..scan.n)
    <3> DEFINE a == SubSeq(timers, 1, k)
    <3>1. a \in Seq(0..scan.n) BY <2>2
    <3> HIDE DEF a
    <3>2. Reverse(a) \in Seq(0..scan.n) BY <3>1 DEF Reverse
    <3> QED BY <2>1, <3>2 DEF a
  <2>5. ASSUME NEW j \in 1..Len(timers') PROVE k + j \in 1..Len(timers) /\ timers'[j] = timers[k + j]
    BY <2>2, <2>3
  <2>6. Distinct(timers')
    <3> SUFFICES ASSUME NEW i \in 1..Len(timers'), NEW j \in 1..Len(timers'), timers'[i] = timers'[j] PROVE i = j
      BY DEF Distinct
    <3>1. k + i = k + j BY <2>2, <2>5 DEF Distinct
    <3> QED BY <2>2, <2>3, <3>1
  <2>8. OnceOK'
    <3>1. UNCHANGED scan BY <1>7 DEF skw_timer_work
    <3> QED BY <2>5, <3>1 DEF OnceOK
  <2>7. ListsOK' BY <1>7, <2>3, <2>4, <2>6 DEF skw_timer_work, ListsOK
  <2> QED BY <1>2, <1>5, <1>7, <2>7, <2>8 DEF skw_timer_work
<1>8. CASE skw_scan_timeout
  <2>1. expired \in Seq(0..scan.n) /\ Head(expired) \in 0..scan.n /\ expired' \in Seq(0..scan.n)
    BY <1>8 DEF skw_scan_timeout, ListsOK
  <2>2. /\ DOMAIN scan' = DOMAIN scan /\ scan'.n = scan.n /\ scan'.req = scan.req /\ scan'.fw = scan.fw
        /\ scan'.starting = scan.starting /\ scan'.overran = scan.overran /\ scan'.stop = scan.stop
        /\ scan'.busy = scan.busy /\ scan'.told = scan.told
    BY <1>0, <1>8 DEF skw_scan_timeout
  <2>3. ListsOK'
    <3>1. CASE works' = works BY <1>8, <2>1, <2>2, <3>1 DEF skw_scan_timeout, ListsOK
    <3>2. CASE works' = Append(works, [kind |-> "scan_timeout", arg |-> Head(expired)]) /\ Head(expired) # Cqm
      <4>1. /\ works' \in Seq([kind : {"scan_timeout", "tx_status"}, arg : Nat])
            /\ \A k \in 1..Len(works') : works'[k].kind = "scan_timeout" => works'[k].arg \in 1..scan.n
        BY <1>0, <2>1, <3>2 DEF ListsOK, Cqm
      <4> QED BY <1>8, <2>1, <2>2, <4>1 DEF skw_scan_timeout, ListsOK
    <3> QED BY <1>8, <3>1, <3>2 DEF skw_scan_timeout
  <2> QED BY <1>1, <1>3, <1>5, <1>8, <2>2, <2>3 DEF skw_scan_timeout
<1>9. CASE skw_scan
  <2>1. PICK wlan \in Ifaces, roam \in BOOLEAN :
          /\ scan.busy = 0 /\ ~scan.starting /\ scan.n < MaxScans
          /\ scan' = [scan EXCEPT !.req = scan.n + 1, !.busy = scan.n + 1, !.n = scan.n + 1, !.starting = TRUE,
                                  !.dev[scan.n + 1] = wlan, !.cqm = @ /\ ~roam]
          /\ timers' \in Added(IF roam THEN Deleted(timers, Cqm) ELSE timers, scan.n + 1)
          /\ UNCHANGED <<expired, works, scanEv, mgmt>>
    BY <1>9 DEF skw_scan
  <2> DEFINE id == scan.n + 1
             list == IF roam THEN Deleted(timers, Cqm) ELSE timers
  <2>2. /\ DOMAIN scan' = DOMAIN scan /\ scan'.n = id /\ scan'.req = id /\ scan'.fw = scan.fw
        /\ scan'.starting /\ scan'.overran = scan.overran /\ scan'.stop = scan.stop
        /\ scan'.busy = id /\ scan'.told = scan.told /\ id \in ScanIds /\ id \in Nat /\ id > 0
    BY <1>0, <2>1 DEF ScanIds
  <2>3. list \in Seq(0..scan.n) /\ Distinct(list) /\ \A k \in 1..Len(list) : \E j \in 1..Len(timers) : list[k] = timers[j]
    <3>1. timers \in Seq(0..scan.n) /\ Distinct(timers) BY DEF ListsOK
    <3>2. CASE roam BY <3>1, <3>2, Removed
    <3>3. CASE ~roam BY <3>1, <3>3
    <3> QED BY <3>2, <3>3
  <2>4. timers' \in Added(list, id) BY <2>1
  <2> HIDE DEF list
  <2>5. list \in Seq(0..id) /\ \A j \in 1..Len(list) : list[j] # id
    <3>1. \A j \in 1..Len(list) : list[j] \in 0..scan.n BY <2>3
    <3> QED BY <1>0, <2>3, <3>1
  <2>6. /\ timers' \in Seq(0..id) /\ Distinct(timers')
        /\ \A k \in 1..Len(timers') : timers'[k] = id \/ \E j \in 1..Len(list) : timers'[k] = list[j]
    BY <1>0, <2>3, <2>4, <2>5, Inserted
  <2>7. ListsOK'
    <3>1. expired' \in Seq(0..id) /\ scanEv' \in Seq(1..id) BY <1>0, <2>1 DEF ListsOK
    <3>2. \A k \in 1..Len(works') : works'[k].kind = "scan_timeout" => works'[k].arg \in 1..id
      BY <1>0, <2>1 DEF ListsOK
    <3> QED BY <2>1, <2>2, <2>6, <3>1, <3>2 DEF ListsOK
  <2>8. RecordOK' BY <1>0, <2>1, <2>2 DEF ScanIds
  <2>9. AnswersOK'
    <3> SUFFICES ASSUME NEW j \in ScanIds
                 PROVE scan'.told[j] + Pending(j)' <= 2 /\ (j > id => scan'.told[j] = 0)
      BY <2>2 DEF AnswersOK
    <3>1. scan.told[j] + Pending(j) <= 2 /\ (j > scan.n => scan.told[j] = 0) /\ scan.told[j] \in Nat /\ j \in Nat /\ j # 0
      BY DEF AnswersOK, ScanIds
    <3>2. \A t \in Threads : scan.stop[t] # id BY <1>0, <2>2
    <3>3. CASE j = id BY <1>0, <2>2, <3>1, <3>2, <3>3 DEF Pending
    <3>4. CASE j # id BY <1>0, <2>2, <3>1, <3>4 DEF Pending
    <3> QED BY <3>3, <3>4
  <2>10. ASSUME ~scan.overran PROVE scan.req = 0 /\ scan.stop = NoDone
    BY <1>0, <2>1, <2>10 DEF UnderWayOK, NoDone
  <2>11. UnderWayOK' BY <1>0, <2>2, <2>10 DEF UnderWayOK, NoDone, AnswersOK
  <2>12. OnceOK'
    <3> SUFFICES ASSUME ~scan'.overran
                 PROVE  /\ \A i \in ScanIds : scan'.told[i] <= 1
                        /\ \A k \in 1..Len(timers') : timers'[k] \in {0, id}
      BY <2>2 DEF OnceOK
    <3>1. \A j \in 1..Len(timers) : timers[j] = 0 BY <2>2, <2>10 DEF OnceOK
    <3>2. \A i \in ScanIds : scan'.told[i] <= 1 BY <2>2 DEF OnceOK
    <3>3. ASSUME NEW k \in 1..Len(timers') PROVE timers'[k] \in {0, id} BY <2>3, <2>6, <3>1
    <3> QED BY <3>2, <3>3
  <2> QED BY <1>5, <2>1, <2>7, <2>8, <2>9, <2>11, <2>12
<1>10. CASE ScanStarted
  <2>1. /\ DOMAIN scan' = DOMAIN scan /\ scan'.n = scan.n /\ scan'.req = scan.req /\ scan'.fw = scan.n
        /\ ~scan'.starting /\ scan'.overran = scan.overran /\ scan'.stop = scan.stop
        /\ scan'.busy = scan.busy /\ scan'.told = scan.told
    BY <1>0, <1>10 DEF ScanStarted
  <2> QED BY <1>0, <1>1, <1>3, <1>4, <1>5, <1>10, <2>1 DEF ScanStarted
<1>11. CASE ScanRefused
  <2>1. /\ DOMAIN scan' = DOMAIN scan /\ scan'.n = scan.n /\ scan'.req = 0 /\ scan'.fw = scan.fw
        /\ ~scan'.starting /\ (scan'.overran <=> scan.overran \/ scan.req # scan.n) /\ scan'.stop = scan.stop
        /\ scan'.busy = (IF scan.busy = scan.n THEN 0 ELSE scan.busy)
        /\ scan'.told = [scan.told EXCEPT ![scan.n] = @ + 1] /\ scan.starting /\ scan.n > 0 /\ scan.n \in ScanIds
    <3>1. /\ scan.starting
          /\ scan' = [scan EXCEPT !.starting = FALSE, !.req = 0, !.busy = IF @ = scan.n THEN 0 ELSE @,
                                  !.told[scan.n] = @ + 1, !.overran = @ \/ scan.req # scan.n]
      BY <1>11 DEF ScanRefused
    <3>2. scan'.told = [scan.told EXCEPT ![scan.n] = @ + 1] BY <1>0, <3>1
    <3>3. scan'.overran = (scan.overran \/ scan.req # scan.n) BY <1>0, <3>1
    <3>4. /\ DOMAIN scan' = DOMAIN scan /\ scan'.n = scan.n /\ scan'.req = 0 /\ scan'.fw = scan.fw
          /\ scan'.starting = FALSE /\ scan'.stop = scan.stop
          /\ scan'.busy = (IF scan.busy = scan.n THEN 0 ELSE scan.busy)
      BY <1>0, <3>1
    <3>5. scan.n > 0 /\ scan.n \in ScanIds BY <1>0, <3>1 DEF ScanIds
    <3> QED BY <3>1, <3>2, <3>3, <3>4, <3>5
  <2>2. timers' \in Seq(0..scan.n) /\ Distinct(timers') /\ \A k \in 1..Len(timers') :
          timers'[k] # scan.n /\ \E j \in 1..Len(timers) : timers'[k] = timers[j]
    <3>1. timers \in Seq(0..scan.n) /\ Distinct(timers) /\ timers' = Deleted(timers, scan.n)
      BY <1>11 DEF ScanRefused, ListsOK
    <3> QED BY <3>1, Removed
  <2>3. ListsOK' BY <1>11, <2>1, <2>2 DEF ScanRefused, ListsOK
  <2>4. scan'.told \in [ScanIds -> Nat] /\ \A j \in ScanIds : scan'.told[j] = scan.told[j] + (IF j = scan.n THEN 1 ELSE 0)
    BY <2>1
  <2>5. RecordOK' BY <1>0, <2>1, <2>4
  <2>6. AnswersOK'
    <3> SUFFICES ASSUME NEW j \in ScanIds
                 PROVE scan'.told[j] + Pending(j)' <= 2 /\ (j > scan.n => scan'.told[j] = 0)
      BY <2>1 DEF AnswersOK
    <3>1. scan.told[j] + Pending(j) <= 2 /\ (j > scan.n => scan.told[j] = 0) /\ scan.told[j] \in Nat /\ j \in Nat /\ j # 0
      BY DEF AnswersOK, ScanIds
    <3> QED BY <1>0, <2>1, <2>4, <3>1 DEF Pending
  <2>7. UnderWayOK' BY <1>0, <2>1 DEF UnderWayOK, NoDone
  <2>8. ASSUME ~scan'.overran PROVE scan.told[scan.n] = 0 BY <2>1, <2>8 DEF UnderWayOK
  <2>9. OnceOK'
    <3> SUFFICES ASSUME ~scan'.overran
                 PROVE  /\ \A i \in ScanIds : scan'.told[i] <= 1
                        /\ \A k \in 1..Len(timers') : timers'[k] = 0
      BY <2>1 DEF OnceOK
    <3>1. ~scan.overran /\ scan.req = scan.n BY <2>1
    <3>2. ASSUME NEW i \in ScanIds PROVE scan'.told[i] <= 1 BY <2>1, <2>4, <2>8, <3>1 DEF OnceOK
    <3>3. ASSUME NEW k \in 1..Len(timers') PROVE timers'[k] = 0 BY <2>2, <3>1 DEF OnceOK
    <3> QED BY <3>2, <3>3
  <2> QED BY <1>5, <1>11, <2>3, <2>5, <2>6, <2>7, <2>9 DEF ScanRefused
<1>12. CASE ScanStopped
  <2>1. PICK t \in Threads : /\ scan.stop[t] # 0 /\ UNCHANGED <<timers, expired, works, scanEv, mgmt>>
          /\ scan' = [scan EXCEPT !.stop[t] = 0, !.fw = 0, !.told[scan.stop[t]] = @ + 1, !.busy = 0]
    BY <1>12 DEF ScanStopped
  <2> DEFINE id == scan.stop[t]
  <2>2. /\ DOMAIN scan' = DOMAIN scan /\ scan'.n = scan.n /\ scan'.req = scan.req /\ scan'.fw = 0
        /\ scan'.starting = scan.starting /\ scan'.overran = scan.overran
        /\ scan'.stop = [scan.stop EXCEPT ![t] = 0]
        /\ scan'.busy = 0 /\ scan'.told = [scan.told EXCEPT ![id] = @ + 1] /\ id \in ScanIds
    BY <1>0, <2>1 DEF ScanIds
  <2>3. \A u \in Threads : scan'.stop[u] = 0 BY <2>1, <2>2
  <2>4. scan'.told \in [ScanIds -> Nat] /\ \A j \in ScanIds : scan'.told[j] = scan.told[j] + (IF j = id THEN 1 ELSE 0)
    BY <2>2
  <2>5. RecordOK' BY <1>0, <2>2, <2>3, <2>4
  <2>6. AnswersOK'
    <3> SUFFICES ASSUME NEW j \in ScanIds
                 PROVE scan'.told[j] + Pending(j)' <= 2 /\ (j > scan.n => scan'.told[j] = 0)
      BY <2>2 DEF AnswersOK
    <3>1. scan.told[j] + Pending(j) <= 2 /\ (j > scan.n => scan.told[j] = 0) /\ scan.told[j] \in Nat /\ j \in Nat /\ j # 0
      BY DEF AnswersOK, ScanIds
    <3>2. id <= scan.n /\ id \in Nat BY <1>0, <2>1
    <3>3. CASE j = id BY <1>0, <2>1, <2>2, <2>3, <2>4, <3>1, <3>2, <3>3 DEF Pending
    <3>4. CASE j # id BY <1>0, <2>1, <2>2, <2>3, <2>4, <3>1, <3>4 DEF Pending
    <3> QED BY <3>3, <3>4
  <2>7. UnderWayOK' BY <1>0, <2>1, <2>2, <2>3 DEF UnderWayOK, NoDone
  <2>8. OnceOK' BY <2>1, <2>2, <2>4 DEF OnceOK, UnderWayOK
  <2> QED BY <1>4, <1>5, <2>1, <2>2, <2>5, <2>6, <2>7, <2>8
<1>13. CASE skw_abort_scan
  <2>1. PICK i \in Ifaces : skw_scan_done("user", i, FALSE) /\ UNCHANGED <<expired, works, scanEv, mgmt>>
    BY <1>13 DEF skw_abort_scan
  <2> QED BY <1>5, <1>6, <2>1 DEF Threads, ListsOK
<1>14. CASE StopScan \/ FwScanned
  <2>1. /\ DOMAIN scan' = DOMAIN scan /\ scan'.n = scan.n /\ scan'.req = scan.req /\ scan'.fw = 0
        /\ scan'.starting = scan.starting /\ scan'.overran = scan.overran /\ scan'.stop = scan.stop
        /\ scan'.busy = scan.busy /\ scan'.told = scan.told /\ UNCHANGED <<timers, expired, works, mgmt>>
    BY <1>0, <1>14 DEF StopScan, FwScanned
  <2>2. scanEv' \in Seq(1..scan.n)
    <3>1. scanEv \in Seq(1..scan.n) /\ (scan.fw # 0 => scan.fw \in 1..scan.n) BY <1>0 DEF ListsOK
    <3> QED
      <4>1. CASE scanEv' = scanEv BY <3>1, <4>1
      <4>2. CASE scanEv' = Append(scanEv, scan.fw) /\ scan.fw # 0 BY <3>1, <4>2
      <4> QED BY <1>14, <4>1, <4>2 DEF StopScan, FwScanned
  <2>3. ListsOK' BY <2>1, <2>2 DEF ListsOK
  <2> QED BY <1>0, <1>1, <1>3, <1>5, <2>1, <2>3
<1>15. CASE skw_event_scan_complete
  <2>1. scanEv' \in Seq(1..scan.n) /\ UNCHANGED <<expired, works, mgmt>>
    BY <1>15 DEF skw_event_scan_complete, ListsOK
  <2> QED BY <1>5, <1>6, <1>15, <2>1 DEF skw_event_scan_complete, Threads, ListsOK
<1>16. CASE skw_work
  <2>1. /\ works' \in Seq([kind : {"scan_timeout", "tx_status"}, arg : Nat])
        /\ \A k \in 1..Len(works') : works'[k].kind = "scan_timeout" => works'[k].arg \in 1..scan.n
        /\ UNCHANGED <<expired, scanEv>>
    <3>1. works \in Seq([kind : {"scan_timeout", "tx_status"}, arg : Nat]) /\ works # <<>> /\ works' = Tail(works)
      BY <1>16 DEF skw_work, ListsOK
    <3>2. works' \in Seq([kind : {"scan_timeout", "tx_status"}, arg : Nat]) /\ Len(works) \in Nat
          /\ Len(works') = Len(works) - 1 /\ \A k \in 1..(Len(works) - 1) : works'[k] = works[k + 1]
      BY <3>1
    <3>3. ASSUME NEW k \in 1..Len(works') PROVE k + 1 \in 1..Len(works) /\ works'[k] = works[k + 1]
      BY <3>2
    <3> QED BY <1>16, <3>2, <3>3 DEF skw_work, ListsOK
  <2>2. CASE skw_scan_done("work", scan.dev[Head(works).arg], TRUE) /\ UNCHANGED mgmt
    BY <1>5, <1>6, <2>1, <2>2 DEF Threads, ListsOK
  <2>3. CASE mgmt' = [mgmt EXCEPT !.due = @ \ {Head(works).arg}] /\ UNCHANGED <<scan, timers>>
    <3>1. MgmtOK' BY <2>3 DEF MgmtOK
    <3> QED BY <1>2, <1>3, <2>1, <2>3, <3>1 DEF ListsOK
  <2> QED BY <1>16, <2>2, <2>3 DEF skw_work
<1>17. CASE CqmLow
  <2>1. /\ DOMAIN scan' = DOMAIN scan /\ scan'.n = scan.n /\ scan'.req = scan.req /\ scan'.fw = scan.fw
        /\ scan'.starting = scan.starting /\ scan'.overran = scan.overran /\ scan'.stop = scan.stop
        /\ scan'.busy = scan.busy /\ scan'.told = scan.told /\ UNCHANGED <<expired, works, scanEv>>
    BY <1>0, <1>17 DEF CqmLow
  <2>2. \A k \in 1..Len(timers) : timers[k] # Cqm BY <1>17 DEF CqmLow, ToSet, ListsOK
  <2>3. /\ timers' \in Seq(0..scan.n) /\ Distinct(timers')
        /\ \A k \in 1..Len(timers') : timers'[k] = Cqm \/ \E j \in 1..Len(timers) : timers'[k] = timers[j]
    <3>1. timers \in Seq(0..scan.n) /\ Distinct(timers) /\ timers' \in Added(timers, Cqm) /\ Cqm \in 0..scan.n
      BY <1>0, <1>17 DEF CqmLow, ListsOK, Cqm
    <3> QED BY <2>2, <3>1, Inserted
  <2>4. ListsOK' BY <2>1, <2>3 DEF ListsOK
  <2>5. OnceOK' BY <2>1, <2>3 DEF OnceOK, Cqm
  <2>6. MgmtOK' BY <1>17 DEF CqmLow, MgmtOK
  <2> QED BY <1>1, <2>1, <2>4, <2>5, <2>6
<1>18. CASE skw_cfg80211_sched_scan_start \/ skw_sched_scan_stop
  <2>1. /\ DOMAIN scan' = DOMAIN scan /\ scan'.n = scan.n /\ scan'.req = scan.req /\ scan'.fw = scan.fw
        /\ scan'.starting = scan.starting /\ scan'.overran = scan.overran /\ scan'.stop = scan.stop
        /\ scan'.busy = scan.busy /\ scan'.told = scan.told /\ UNCHANGED <<timers, expired, works, scanEv, mgmt>>
    BY <1>0, <1>18 DEF skw_cfg80211_sched_scan_start, skw_sched_scan_stop
  <2> QED BY <1>1, <1>3, <1>4, <1>5, <2>1
<1>19. CASE __skw_cfg80211_mgmt_tx
  <2>1. PICK pieces \in {1, 2}, ok \in BOOLEAN :
          /\ mgmt.cookie + pieces <= 2 * MaxFrames /\ UNCHANGED <<scan, timers, expired, scanEv>>
          /\ mgmt' = [mgmt EXCEPT !.cookie = mgmt.cookie + pieces,
                                  !.due = IF ok THEN @ \union {mgmt.cookie + pieces} ELSE @]
          /\ works' = IF ok /\ pieces > 1
                      THEN Append(works, [kind |-> "tx_status", arg |-> mgmt.cookie + pieces]) ELSE works
    BY <1>19 DEF __skw_cfg80211_mgmt_tx
  <2>2. mgmt.cookie \in Nat /\ mgmt.cookie + pieces \in Nat BY DEF MgmtOK
  <2>3. MgmtOK' BY <2>1, <2>2 DEF MgmtOK
  <2>4. /\ works' \in Seq([kind : {"scan_timeout", "tx_status"}, arg : Nat])
        /\ \A k \in 1..Len(works') : works'[k].kind = "scan_timeout" => works'[k].arg \in 1..scan.n
    <3> DEFINE w == [kind |-> "tx_status", arg |-> mgmt.cookie + pieces]
    <3>1. w \in [kind : {"scan_timeout", "tx_status"}, arg : Nat] /\ w.kind # "scan_timeout" BY <2>2
    <3>2. works' = works \/ works' = Append(works, w) BY <2>1
    <3> HIDE DEF w
    <3>3. works \in Seq([kind : {"scan_timeout", "tx_status"}, arg : Nat]) BY DEF ListsOK
    <3>4. CASE works' = works BY <3>4 DEF ListsOK
    <3>5. CASE works' = Append(works, w)
      <4>1. /\ works' \in Seq([kind : {"scan_timeout", "tx_status"}, arg : Nat])
            /\ Len(works') = Len(works) + 1 /\ Len(works) \in Nat
            /\ \A k \in 1..(Len(works) + 1) : works'[k] = IF k <= Len(works) THEN works[k] ELSE w
        BY <3>1, <3>3, <3>5
      <4>2. ASSUME NEW k \in 1..Len(works'), works'[k].kind = "scan_timeout" PROVE works'[k].arg \in 1..scan.n
        <5>1. k \in 1..Len(works) /\ works'[k] = works[k] BY <3>1, <4>1, <4>2
        <5> QED BY <4>2, <5>1 DEF ListsOK
      <4> QED BY <4>1, <4>2
    <3> QED BY <3>2, <3>4, <3>5
  <2>5. ListsOK' BY <2>1, <2>4 DEF ListsOK
  <2> QED BY <1>2, <1>3, <2>1, <2>3, <2>5
<1>20. CASE skw_remain_on_channel \/ skw_event_mgmt_tx_status
  <2>1. MgmtOK'
    <3>1. CASE skw_remain_on_channel
      <4>1. mgmt.cookie \in Nat /\ mgmt.cookie + 1 \in 0..(2 * MaxFrames)
        BY <3>1 DEF skw_remain_on_channel, MgmtOK
      <4> QED BY <3>1, <4>1 DEF skw_remain_on_channel, MgmtOK
    <3>2. CASE skw_event_mgmt_tx_status BY <3>2 DEF skw_event_mgmt_tx_status, MgmtOK
    <3> QED BY <1>20, <3>1, <3>2
  <2> QED BY <1>2, <1>3, <1>4, <1>20, <2>1 DEF skw_remain_on_channel, skw_event_mgmt_tx_status
<1>21. CASE UNCHANGED scanVars BY <1>2, <1>3, <1>4, <1>5, <1>21 DEF scanVars
<1> QED BY <1>7, <1>8, <1>9, <1>10, <1>11, <1>12, <1>13, <1>14, <1>15, <1>16, <1>17, <1>18, <1>19,
     <1>20,
     <1>21 DEF ScanNext, ScanRest

\* ... and so holds throughout.
LEMMA ScanInvariance == ScanSpec => []ScanInv
  BY ScanBegins, ScanStep, PTL DEF ScanSpec

\* The invariant gives the types of module SkwScan.
LEMMA ScanTypes == ScanInv => ScanTypeOK
<1> SUFFICES ASSUME ScanInv PROVE ScanTypeOK OBVIOUS
<1> USE ScanAssumption DEF ScanInv
<1>1. {scan.req, scan.busy, scan.fw, scan.n} \subseteq 0..MaxScans /\ scan.stop \in [Threads -> 0..MaxScans]
  BY DEF RecordOK
<1>2. scan.told \in [ScanIds -> 0..2]
  <2>1. \A i \in ScanIds : Pending(i) \in Nat BY DEF Pending
  <2> QED BY <2>1 DEF RecordOK, AnswersOK
<1>3. {ToSet(timers), ToSet(expired)} \subseteq SUBSET (ScanIds \union {Cqm})
  <2>1. 0..scan.n \subseteq ScanIds \union {Cqm} BY DEF RecordOK, ScanIds, Cqm
  <2>2. ASSUME NEW s \in Seq(0..scan.n) PROVE ToSet(s) \subseteq 0..scan.n BY ToSetIn
  <2> QED BY <2>1, <2>2 DEF ListsOK
<1>4. works \in Seq([kind : {"scan_timeout", "tx_status"}, arg : Nat]) /\ scanEv \in Seq(ScanIds)
  BY DEF ListsOK, RecordOK, ScanIds
<1>5. mgmt.cookie \in 0..(2 * MaxFrames) /\ mgmt.due \subseteq 1..mgmt.cookie BY DEF MgmtOK
<1> QED BY <1>1, <1>2, <1>3, <1>4, <1>5 DEF ScanTypeOK

\* A scan request is answered to cfg80211 once and its timer does not
\* outlive it, whichever of the event, the timeout, the abort and the
\* refused command ends it (skw_scan_done, skw_scan, skw_scan_timeout),
\* unless a start outlasted its own timeout.
THEOREM ScanAnsweredOnce == ScanSpec => []AnsweredOnce
<1>1. ScanInv => AnsweredOnce BY DEF ScanInv, OnceOK, ListsOK, AnsweredOnce, ToSet, ScanIds
<1> QED BY ScanInvariance, <1>1, PTL

\* The lists of timers, work and events hold entries of requests that were
\* made, and no request is answered more than twice (skw_timer.c,
\* skw_work.c).
THEOREM ScanTyping == ScanSpec => []ScanTypeOK
  BY ScanInvariance, ScanTypes, PTL

-----------------------------------------------------------------------------
\* Frames.  The inductive invariant: USB has no dy worker and SDIO's tx worker does
\* not count; what a worker has picked and not yet handed over fits into
\* the ring, or is covered by the credit, which only grows until then
\* unless it is torn.
WorkerFits ==
    /\ txd.bus = "usb" => dyw.pc = "idle" /\ ~txd.dyq
    /\ txd.bus = "sdio" => txw.pc # "sub"
    /\ txw.pc \in {"pick", "xmit", "sub"} => txw.ac <= Len(Acs)
    /\ txw.pc = "xmit" /\ txd.bus = "sdio" => txw.list < RingSize - txd.ring
    /\ txw.pc = "xmit" /\ txd.bus = "usb" /\ ~txm.torn => txw.list <= txd.credit
    /\ dyw.pc = "write" => /\ dyw.limit <= txd.ring
                           /\ ~txm.torn => 0 <= dyw.limit /\ dyw.limit <= txd.credit

TxInv == TxTypeOK /\ WorkerFits /\ CreditIsRoom /\ RingTakesAll

-----------------------------------------------------------------------------
\* There is always a number of frames to pick, and it fits.
LEMMA PickFits ==
    ASSUME NEW d, NEW ac, d.cache[ac] \in Nat, d.credit \in Int, d.ring \in 0..(RingSize - 1)
    PROVE  /\ Picked(d, ac) \in 0..d.cache[ac]
           /\ d.credit >= 0 => Picked(d, ac) <= d.credit
           /\ d.bus = "sdio" => Picked(d, ac) < RingSize - d.ring
<1> DEFINE P(n) == /\ n <= PktLimit /\ (d.credit >= 0 => n <= d.credit)
                   /\ (n > 0 => ~skw_vring_check(d, n - 1))
                   /\ \/ n = d.cache[ac] \/ n = PktLimit \/ n = d.credit \/ skw_vring_check(d, n)
           room == RingSize - 1 - d.ring
           a == Least(d.cache[ac], PktLimit)
           b == IF d.credit >= 0 THEN Least(a, d.credit) ELSE a
           c == IF d.bus = "sdio" THEN Least(b, room) ELSE b
<1>0. PktLimit \in Nat /\ RingSize \in Nat BY TxAssumption
<1>1. c \in 0..d.cache[ac] /\ P(c)
  BY <1>0 DEF TxTypeOK, WorkerFits, CreditIsRoom, RingTakesAll, Owed, Least, skw_vring_check,
     skw_vring_available_count
<1>2. Picked(d, ac) = CHOOSE n \in 0..d.cache[ac] : P(n) BY DEF Picked
<1> HIDE DEF P, c
<1>3. Picked(d, ac) \in 0..d.cache[ac] /\ P(Picked(d, ac)) BY <1>1, <1>2
<1> QED BY <1>0, <1>3 DEF P, skw_vring_check, skw_vring_available_count

\* What skw_txq_prepare leaves: it touches queues, caches and stopped queues only.
Prepared(p) == /\ DOMAIN p = DOMAIN txd /\ p.bus = txd.bus /\ p.ring = txd.ring /\ p.credit = txd.credit
               /\ p.n = txd.n /\ p.dyq = txd.dyq /\ p.stopped \subseteq AcNames
               /\ p.q \in [AcNames \union {"ack"} -> Nat] /\ p.cache \in [AcNames -> Nat]

\* skw_txq_prepare keeps the types of what it touches.
LEMMA PrepareTypes ==
    ASSUME QueuesOK, NEW ac \in AcNames, NEW held \in Nat
    PROVE  Prepared(skw_txq_prepare(txd, ac, held))
<1> DEFINE kept == IF txm.deauth THEN 0 ELSE txd.cache[ac] + txd.q[ac] + IF ac = "be" THEN held ELSE 0
           p == [txd EXCEPT !.q[ac] = 0, !.q["ack"] = IF ac = "be" THEN 0 ELSE @, !.cache[ac] = kept,
                            !.stopped = IF kept < LowMark THEN @ \ {ac} ELSE @]
<1>1. kept \in Nat BY DEF QueuesOK, AcNames
<1>2. skw_txq_prepare(txd, ac, held) = p BY DEF skw_txq_prepare
<1> HIDE DEF kept
<1>3. DOMAIN p = DOMAIN txd /\ p.bus = txd.bus /\ p.ring = txd.ring /\ p.credit = txd.credit
      /\ p.n = txd.n /\ p.dyq = txd.dyq
  BY DEF QueuesOK
<1>4. p.stopped \subseteq AcNames BY DEF QueuesOK
<1>5. p.q \in [AcNames \union {"ack"} -> Nat] BY DEF QueuesOK, AcNames
<1>6. p.cache \in [AcNames -> Nat] BY <1>1 DEF QueuesOK, AcNames
<1> QED BY <1>2, <1>3, <1>4, <1>5, <1>6 DEF Prepared

-----------------------------------------------------------------------------
\* The invariant of the transmit path is inductive.
LEMMA TxStep == TxInv /\ [TxNext]_txVars => TxInv'
<1> SUFFICES ASSUME TxInv, [TxNext]_txVars PROVE TxInv' OBVIOUS
<1> USE TxAssumption DEF TxInv, TxTypeOK, AcNames, Acs
<1>1. CASE XmitElsewhere \/ TxRest \/ UNCHANGED txVars
  <2>1. QueuesOK' BY <1>1 DEF XmitElsewhere, TxRest, txVars, QueuesOK, WorkersOK, WorkerFits
  <2>2. WorkersOK' BY <1>1 DEF XmitElsewhere, TxRest, txVars, QueuesOK, WorkersOK, WorkerFits
  <2>3. NetworkOK'
    BY <1>1 DEF XmitElsewhere, TxRest, txVars, QueuesOK, WorkersOK, NetworkOK, WorkerFits
  <2>4. WorkerFits'
    BY <1>1 DEF XmitElsewhere, TxRest, txVars, QueuesOK, WorkersOK, NetworkOK, WorkerFits,
       CreditIsRoom, Owed
  <2>5. CreditIsRoom' /\ RingTakesAll'
    BY <1>1 DEF XmitElsewhere, TxRest, txVars, QueuesOK, WorkersOK, NetworkOK, WorkerFits,
       CreditIsRoom, RingTakesAll, Owed
  <2> QED BY <2>1, <2>2, <2>3, <2>4, <2>5
<1>2. CASE skw_ndo_xmit
  <2>1. QueuesOK'
    BY <1>2 DEF skw_ndo_xmit, Queued, Backlog, skw_downgrade_ac, QueuesOK, WorkersOK, WorkerFits
  <2>2. WorkersOK'
    BY <1>2 DEF skw_ndo_xmit, Queued, Backlog, skw_downgrade_ac, QueuesOK, WorkersOK, WorkerFits
  <2>3. NetworkOK'
    BY <1>2 DEF skw_ndo_xmit, Queued, Backlog, skw_downgrade_ac, QueuesOK, WorkersOK, NetworkOK,
       WorkerFits
  <2>4. WorkerFits'
    BY <1>2 DEF skw_ndo_xmit, Queued, Backlog, skw_downgrade_ac, QueuesOK, WorkersOK, NetworkOK,
       WorkerFits, CreditIsRoom, Owed
  <2>5. CreditIsRoom' /\ RingTakesAll'
    BY <1>2 DEF skw_ndo_xmit, Queued, Backlog, skw_downgrade_ac, QueuesOK, WorkersOK, NetworkOK,
       WorkerFits, CreditIsRoom, RingTakesAll, Owed
  <2> QED BY <2>1, <2>2, <2>3, <2>4, <2>5
<1>3. CASE WorkerRuns
  <2>1. QueuesOK' BY <1>3 DEF WorkerRuns, QueuesOK, WorkersOK, WorkerFits
  <2>2. WorkersOK' BY <1>3 DEF WorkerRuns, QueuesOK, WorkersOK, WorkerFits
  <2>3. NetworkOK' BY <1>3 DEF WorkerRuns, QueuesOK, WorkersOK, NetworkOK, WorkerFits
  <2>4. WorkerFits'
    BY <1>3 DEF WorkerRuns, QueuesOK, WorkersOK, NetworkOK, WorkerFits, CreditIsRoom, Owed
  <2>5. CreditIsRoom' /\ RingTakesAll'
    BY <1>3 DEF WorkerRuns, QueuesOK, WorkersOK, NetworkOK, WorkerFits, CreditIsRoom,
       RingTakesAll, Owed
  <2> QED BY <2>1, <2>2, <2>3, <2>4, <2>5
<1>4. CASE skw_tx_running_check
  <2>0. txw.pc = "check" /\ UNCHANGED <<txd, dyw, txm>> BY <1>4 DEF skw_tx_running_check
  <2>6. /\ DOMAIN txw' = {"pc", "ac", "list", "cred", "pending"}
        /\ txw'.pc \in {"idle", "pick"} /\ txw'.ac = 1 /\ txw'.list = 0 /\ txw'.cred = 0
        /\ txw'.pending \in {0, txw.pending}
    <3>1. \/ txw' = Worker0
          \/ txw' = [Worker0 EXCEPT !.pc = "pick", !.pending = txw.pending]
      BY <1>4 DEF skw_tx_running_check
    <3>2. CASE txw' = Worker0 BY <3>2 DEF Worker0
    <3>3. CASE txw' = [Worker0 EXCEPT !.pc = "pick", !.pending = txw.pending] BY <3>3 DEF Worker0
    <3> QED BY <3>1, <3>2, <3>3
  <2>1. QueuesOK'
    <3>1. QueuesOK OBVIOUS
    <3> QED BY ONLY <2>0, <3>1 DEF QueuesOK
  <2>2. WorkersOK' BY <2>0, <2>6 DEF WorkersOK
  <2>3. NetworkOK'
    <3>1. NetworkOK OBVIOUS
    <3> QED BY ONLY <2>0, <3>1 DEF NetworkOK
  <2>4. WorkerFits' BY <2>0, <2>6 DEF WorkerFits
  <2>7. Owed' = Owed BY <2>0, <2>6 DEF Owed
  <2>5. CreditIsRoom' /\ RingTakesAll' BY <2>0, <2>7 DEF CreditIsRoom, RingTakesAll
  <2> QED BY <2>1, <2>2, <2>3, <2>4, <2>5
<1>5. CASE skw_tx_worker
  <2> DEFINE ac == Acs[txw.ac]
             p(held) == skw_txq_prepare(txd, ac, held)
             d(held) == IF txm.st = "deauthed" /\ ~skw_vring_check(p(held), 0)
                        THEN [p(held) EXCEPT !.cache[ac] = 0] ELSE p(held)
             n(held) == Picked(d(held), ac)
  <2>0. /\ txw.pc = "pick" /\ UNCHANGED <<dyw, txm>>
        /\ \E held \in skw_merge_pure_ack(txd.q["ack"]) :
              \/ /\ txd' = p(held)
                 /\ txw' = [txw EXCEPT !.ac = @ + 1, !.pc = IF txw.ac = Len(Acs) THEN "exit" ELSE "pick"]
              \/ txd' = p(held) /\ txw' = [txw EXCEPT !.pc = "exit"]
              \/ /\ txd' = [d(held) EXCEPT !.cache[ac] = @ - n(held)]
                 /\ txw' = [txw EXCEPT !.pc = "xmit", !.list = n(held), !.cred = d(held).credit - n(held),
                                       !.pending = p(held).cache[ac] - n(held)]
    BY <1>5 DEF skw_tx_worker
  <2>1. ac \in AcNames BY <2>0 DEF WorkersOK, WorkerFits
  <2>2. PICK held \in Nat :
              \/ /\ txd' = p(held)
                 /\ txw' = [txw EXCEPT !.ac = @ + 1, !.pc = IF txw.ac = Len(Acs) THEN "exit" ELSE "pick"]
              \/ txd' = p(held) /\ txw' = [txw EXCEPT !.pc = "exit"]
              \/ /\ txd' = [d(held) EXCEPT !.cache[ac] = @ - n(held)]
                 /\ txw' = [txw EXCEPT !.pc = "xmit", !.list = n(held), !.cred = d(held).credit - n(held),
                                       !.pending = p(held).cache[ac] - n(held)]
    <3>1. txd.q["ack"] \in Nat BY DEF QueuesOK
    <3>2. \A held \in skw_merge_pure_ack(txd.q["ack"]) : held \in Nat BY <3>1 DEF skw_merge_pure_ack
    <3> QED BY <2>0, <3>2
  <2> HIDE DEF ac
  <2>3. Prepared(p(held)) BY <2>1, PrepareTypes
  <2> HIDE DEF p
  <2>4. Prepared(d(held)) /\ d(held).cache[ac] <= p(held).cache[ac]
    BY <2>1, <2>3 DEF Prepared, QueuesOK
  <2> HIDE DEF d
  <2>5. /\ n(held) \in 0..d(held).cache[ac]
        /\ txd.credit >= 0 => n(held) <= txd.credit
        /\ txd.bus = "sdio" => n(held) < RingSize - txd.ring
    BY <2>1, <2>4, PickFits DEF Prepared, QueuesOK
  <2> HIDE DEF n
  <2>6. /\ d(held).cache[ac] \in Nat /\ n(held) \in Nat /\ d(held).cache[ac] - n(held) \in Nat
        /\ p(held).cache[ac] - n(held) \in Nat
    BY <2>1, <2>3, <2>4, <2>5 DEF Prepared
  <2>7. Prepared(txd') BY <2>1, <2>2, <2>3, <2>4, <2>6 DEF Prepared, QueuesOK
  <2>8. QueuesOK' BY <2>7 DEF Prepared, QueuesOK
  <2>9. /\ DOMAIN txw' = DOMAIN txw /\ txw'.ac \in 1..(Len(Acs) + 1) /\ txw'.cred \in Int /\ txw'.pending \in Nat
        /\ \/ txw'.pc \in {"pick", "exit"} /\ txw'.list = txw.list
           \/ txw'.pc = "xmit" /\ txw'.list = n(held)
        /\ txw'.pc \in {"pick", "xmit"} => txw'.ac <= Len(Acs)
    <3>1. Len(Acs) = 2 /\ txw.ac \in 1..2 BY <2>0 DEF WorkersOK, WorkerFits
    <3>2. CASE txw' = [txw EXCEPT !.ac = @ + 1, !.pc = IF txw.ac = Len(Acs) THEN "exit" ELSE "pick"]
      BY <3>1, <3>2 DEF WorkersOK
    <3>3. CASE txw' = [txw EXCEPT !.pc = "exit"] BY <3>1, <3>3 DEF WorkersOK
    <3>4. CASE txw' = [txw EXCEPT !.pc = "xmit", !.list = n(held), !.cred = d(held).credit - n(held),
                                  !.pending = p(held).cache[ac] - n(held)]
      <4>1. d(held).credit - n(held) \in Int BY <2>4, <2>6 DEF Prepared, QueuesOK
      <4> QED BY <2>6, <3>1, <3>4, <4>1 DEF WorkersOK
    <3> QED BY <2>2, <3>2, <3>3, <3>4
  <2>10. WorkersOK' /\ NetworkOK' BY <2>0, <2>6, <2>9 DEF WorkersOK, NetworkOK
  <2>11. WorkerFits' BY <2>0, <2>5, <2>7, <2>9
    DEF Prepared, QueuesOK, WorkersOK, WorkerFits, CreditIsRoom, Owed
  <2>12. CreditIsRoom' /\ RingTakesAll'
    BY <2>0, <2>7, <2>9 DEF Prepared, QueuesOK, WorkersOK, NetworkOK, CreditIsRoom,
       RingTakesAll, Owed
  <2> QED BY <2>8, <2>10, <2>11, <2>12
<1>6. CASE skw_sdio_xmit
  <2>1. QueuesOK'
    BY <1>6 DEF skw_sdio_xmit, skw_vring_set, Least, Onward, QueuesOK, WorkersOK, WorkerFits
  <2>2. WorkersOK'
    BY <1>6 DEF skw_sdio_xmit, skw_vring_set, Least, Onward, QueuesOK, WorkersOK, WorkerFits
  <2>3. NetworkOK'
    BY <1>6 DEF skw_sdio_xmit, skw_vring_set, Least, Onward, QueuesOK, WorkersOK, NetworkOK,
       WorkerFits
  <2>4. WorkerFits'
    BY <1>6 DEF skw_sdio_xmit, skw_vring_set, Least, Onward, QueuesOK, WorkersOK, NetworkOK,
       WorkerFits, CreditIsRoom, Owed
  <2>5. CreditIsRoom' /\ RingTakesAll'
    BY <1>6 DEF skw_sdio_xmit, skw_vring_set, Least, Onward, QueuesOK, WorkersOK, NetworkOK,
       WorkerFits, CreditIsRoom, RingTakesAll, Owed
  <2> QED BY <2>1, <2>2, <2>3, <2>4, <2>5
<1>7. CASE skw_usb_xmit
  <2>1. QueuesOK' BY <1>7 DEF skw_usb_xmit, Fault, Onward, QueuesOK, WorkersOK, WorkerFits
  <2>2. WorkersOK' BY <1>7 DEF skw_usb_xmit, Fault, Onward, QueuesOK, WorkersOK, WorkerFits
  <2>3. NetworkOK' BY <1>7 DEF skw_usb_xmit, Fault, Onward, QueuesOK, WorkersOK, NetworkOK, WorkerFits
  <2>4. WorkerFits'
    BY <1>7 DEF skw_usb_xmit, Fault, Onward, QueuesOK, WorkersOK, NetworkOK, WorkerFits,
       CreditIsRoom, Owed
  <2>5. CreditIsRoom' /\ RingTakesAll'
    BY <1>7 DEF skw_usb_xmit, Fault, Onward, QueuesOK, WorkersOK, NetworkOK, WorkerFits,
       CreditIsRoom, RingTakesAll, Owed
  <2> QED BY <2>1, <2>2, <2>3, <2>4, <2>5
<1>8. CASE skw_async_adma_tx
  <2>1. QueuesOK' BY <1>8 DEF skw_async_adma_tx, Onward, QueuesOK, WorkersOK, WorkerFits
  <2>2. WorkersOK' BY <1>8 DEF skw_async_adma_tx, Onward, QueuesOK, WorkersOK, WorkerFits
  <2>3. NetworkOK' BY <1>8 DEF skw_async_adma_tx, Onward, QueuesOK, WorkersOK, NetworkOK, WorkerFits
  <2>4. WorkerFits' BY <1>8 DEF skw_async_adma_tx, Onward, QueuesOK, WorkersOK, NetworkOK, WorkerFits,
       CreditIsRoom, Owed
  <2>5. CreditIsRoom' /\ RingTakesAll'
    BY <1>8 DEF skw_async_adma_tx, Onward, QueuesOK, WorkersOK, NetworkOK, WorkerFits,
       CreditIsRoom, RingTakesAll, Owed
  <2> QED BY <2>1, <2>2, <2>3, <2>4, <2>5
<1>9. CASE skw_tx_exit_check
  <2>1. QueuesOK'
    BY <1>9 DEF skw_tx_exit_check, Worker0, skw_vring_available_count, QueuesOK, WorkersOK,
       WorkerFits
  <2>2. WorkersOK'
    BY <1>9 DEF skw_tx_exit_check, Worker0, skw_vring_available_count, QueuesOK, WorkersOK,
       WorkerFits
  <2>3. NetworkOK'
    BY <1>9 DEF skw_tx_exit_check, Worker0, skw_vring_available_count, QueuesOK, WorkersOK,
       NetworkOK, WorkerFits
  <2>4. WorkerFits'
    BY <1>9 DEF skw_tx_exit_check, Worker0, skw_vring_available_count, QueuesOK, WorkersOK,
       NetworkOK, WorkerFits, CreditIsRoom, Owed
  <2>5. CreditIsRoom' /\ RingTakesAll'
    BY <1>9 DEF skw_tx_exit_check, Worker0, skw_vring_available_count, QueuesOK, WorkersOK,
       NetworkOK, WorkerFits, CreditIsRoom, RingTakesAll, Owed
  <2> QED BY <2>1, <2>2, <2>3, <2>4, <2>5
<1>10. CASE DyRuns
  <2>1. QueuesOK' BY <1>10 DEF DyRuns, QueuesOK, WorkersOK, WorkerFits
  <2>2. WorkersOK' BY <1>10 DEF DyRuns, QueuesOK, WorkersOK, WorkerFits
  <2>3. NetworkOK' BY <1>10 DEF DyRuns, QueuesOK, WorkersOK, NetworkOK, WorkerFits
  <2>4. WorkerFits'
    BY <1>10 DEF DyRuns, QueuesOK, WorkersOK, NetworkOK, WorkerFits, CreditIsRoom, Owed
  <2>5. CreditIsRoom' /\ RingTakesAll'
    BY <1>10 DEF DyRuns, QueuesOK, WorkersOK, NetworkOK, WorkerFits, CreditIsRoom, RingTakesAll,
       Owed
  <2> QED BY <2>1, <2>2, <2>3, <2>4, <2>5
<1>11. CASE skw_dy_worker
  <2>1. QueuesOK' BY <1>11 DEF skw_dy_worker, Dy0, Least, QueuesOK, WorkersOK, WorkerFits
  <2>2. WorkersOK' BY <1>11 DEF skw_dy_worker, Dy0, Least, QueuesOK, WorkersOK, WorkerFits
  <2>3. NetworkOK' BY <1>11 DEF skw_dy_worker, Dy0, Least, QueuesOK, WorkersOK, NetworkOK, WorkerFits
  <2>4. WorkerFits'
    BY <1>11 DEF skw_dy_worker, Dy0, Least, QueuesOK, WorkersOK, NetworkOK, WorkerFits,
       CreditIsRoom, Owed
  <2>5. CreditIsRoom' /\ RingTakesAll'
    BY <1>11 DEF skw_dy_worker, Dy0, Least, QueuesOK, WorkersOK, NetworkOK, WorkerFits,
       CreditIsRoom, RingTakesAll, Owed
  <2> QED BY <2>1, <2>2, <2>3, <2>4, <2>5
<1>12. CASE skw_sdio_write
  <2>1. QueuesOK' BY <1>12 DEF skw_sdio_write, Written, Fault, QueuesOK, WorkersOK, WorkerFits
  <2>2. WorkersOK' BY <1>12 DEF skw_sdio_write, Written, Fault, QueuesOK, WorkersOK, WorkerFits
  <2>3. NetworkOK'
    BY <1>12 DEF skw_sdio_write, Written, Fault, QueuesOK, WorkersOK, NetworkOK, WorkerFits
  <2>4. WorkerFits'
    BY <1>12 DEF skw_sdio_write, Written, Fault, QueuesOK, WorkersOK, NetworkOK, WorkerFits,
       CreditIsRoom, Owed
  <2>5. CreditIsRoom' /\ RingTakesAll'
    BY <1>12 DEF skw_sdio_write, Written, Fault, QueuesOK, WorkersOK, NetworkOK, WorkerFits,
       CreditIsRoom, RingTakesAll, Owed
  <2> QED BY <2>1, <2>2, <2>3, <2>4, <2>5
<1>13. CASE skw_sub_credit
  <2>1. QueuesOK' BY <1>13 DEF skw_sub_credit, QueuesOK, WorkersOK, WorkerFits
  <2>2. WorkersOK' BY <1>13 DEF skw_sub_credit, QueuesOK, WorkersOK, WorkerFits
  <2>3. NetworkOK' BY <1>13 DEF skw_sub_credit, QueuesOK, WorkersOK, NetworkOK, WorkerFits
  <2>4. WorkerFits'
    BY <1>13 DEF skw_sub_credit, QueuesOK, WorkersOK, NetworkOK, WorkerFits, CreditIsRoom, Owed
  <2>5. CreditIsRoom' /\ RingTakesAll'
    BY <1>13 DEF skw_sub_credit, QueuesOK, WorkersOK, NetworkOK, WorkerFits, CreditIsRoom,
       RingTakesAll, Owed
  <2> QED BY <2>1, <2>2, <2>3, <2>4, <2>5
<1>14. CASE TxJoin \/ TxCompleted \/ TxDeauthed \/ TxLeave \/ UnjoinRefused
  <2>0. /\ UNCHANGED <<txd, txw, dyw>> /\ DOMAIN txm' = DOMAIN txm /\ txm'.st \in {"none", "joined", "done", "deauthed"}
        /\ txm'.room = txm.room /\ txm'.lost = txm.lost /\ txm'.torn = txm.torn /\ txm'.faults = txm.faults
        /\ txm'.joins \in {txm.joins, txm.joins + 1}
    BY <1>14 DEF TxJoin, TxCompleted, TxDeauthed, TxLeave, UnjoinRefused, NetworkOK
  <2>1. QueuesOK' BY <2>0 DEF txVars, QueuesOK, WorkersOK, NetworkOK, WorkerFits
  <2>2. WorkersOK' BY <2>0 DEF txVars, QueuesOK, WorkersOK, NetworkOK, WorkerFits
  <2>3. NetworkOK' BY <2>0 DEF txVars, QueuesOK, WorkersOK, NetworkOK, WorkerFits
  <2>4. WorkerFits' BY <2>0 DEF txVars, QueuesOK, WorkersOK, NetworkOK, WorkerFits, CreditIsRoom, Owed
  <2>5. CreditIsRoom' /\ RingTakesAll'
    BY <2>0 DEF txVars, QueuesOK, WorkersOK, NetworkOK, WorkerFits, CreditIsRoom, RingTakesAll,
       Owed
  <2> QED BY <2>1, <2>2, <2>3, <2>4, <2>5
<1>15. CASE skw_lmac_unbind_iface
  <2>1. QueuesOK'
    BY <1>15 DEF skw_lmac_unbind_iface, Crossing, QueuesOK, WorkersOK, NetworkOK, WorkerFits
  <2>2. WorkersOK'
    BY <1>15 DEF skw_lmac_unbind_iface, Crossing, QueuesOK, WorkersOK, NetworkOK, WorkerFits
  <2>3. NetworkOK'
    BY <1>15 DEF skw_lmac_unbind_iface, Crossing, QueuesOK, WorkersOK, NetworkOK, WorkerFits
  <2>4. WorkerFits'
    BY <1>15 DEF skw_lmac_unbind_iface, Crossing, QueuesOK, WorkersOK, NetworkOK, WorkerFits,
       CreditIsRoom, Owed
  <2>5. CreditIsRoom' /\ RingTakesAll'
    <3>1. txd'.credit = 0 /\ txm'.room = 0 /\ txm'.lost = txm.lost /\ txm'.torn = Crossing /\ UNCHANGED <<txw, dyw>>
      BY <1>15 DEF skw_lmac_unbind_iface, QueuesOK, NetworkOK
    <3>2. CASE Crossing BY <3>1, <3>2 DEF CreditIsRoom, RingTakesAll
    <3>3. CASE ~Crossing BY <3>1, <3>3 DEF CreditIsRoom, RingTakesAll, Owed, Crossing
    <3> QED BY <3>2, <3>3
  <2> QED BY <2>1, <2>2, <2>3, <2>4, <2>5
<1>16. CASE FwGrants \/ FwReturns
  <2>0. PICK n \in Nat : skw_add_credit(n) BY <1>16 DEF FwGrants, FwReturns
  <2>1. QueuesOK'
    BY <2>0 DEF skw_add_credit, skw_wakeup_tx, QueuesOK, WorkersOK, NetworkOK, WorkerFits
  <2>2. WorkersOK'
    BY <2>0 DEF skw_add_credit, skw_wakeup_tx, QueuesOK, WorkersOK, NetworkOK, WorkerFits
  <2>3. NetworkOK'
    BY <2>0 DEF skw_add_credit, skw_wakeup_tx, QueuesOK, WorkersOK, NetworkOK, WorkerFits
  <2>4. WorkerFits'
    <3>1. /\ UNCHANGED <<txw, dyw>> /\ txd'.bus = txd.bus /\ txd'.ring = txd.ring
          /\ txd'.credit = txd.credit + n /\ txm'.torn = txm.torn
      BY <2>0 DEF skw_add_credit, skw_wakeup_tx, QueuesOK, NetworkOK
    <3>2. txd.bus = "usb" /\ ~txd.dyq => ~txd'.dyq BY <2>0 DEF skw_add_credit, skw_wakeup_tx, QueuesOK
    <3> QED BY <3>1, <3>2 DEF QueuesOK, WorkersOK, WorkerFits
  <2>5. CreditIsRoom' /\ RingTakesAll'
    BY <2>0 DEF skw_add_credit, skw_wakeup_tx, QueuesOK, WorkersOK, NetworkOK, WorkerFits,
       CreditIsRoom, RingTakesAll, Owed
  <2> QED BY <2>1, <2>2, <2>3, <2>4, <2>5
<1>17. CASE skw_event_thermal_warn
  <2>0. /\ UNCHANGED <<txw, dyw>> /\ DOMAIN txm' = DOMAIN txm /\ txm'.st = txm.st /\ txm'.room = txm.room
        /\ txm'.lost = txm.lost /\ txm'.torn = txm.torn /\ txm'.faults \in {txm.faults, txm.faults + 1}
        /\ txm'.joins = txm.joins /\ txd' \in {[txd EXCEPT !.stopped = AcNames], [txd EXCEPT !.stopped = {}]}
    BY <1>17 DEF skw_event_thermal_warn, NetworkOK
  <2>1. QueuesOK' BY <2>0 DEF txVars, QueuesOK, WorkersOK, NetworkOK, WorkerFits
  <2>2. WorkersOK' BY <2>0 DEF txVars, QueuesOK, WorkersOK, NetworkOK, WorkerFits
  <2>3. NetworkOK' BY <2>0 DEF txVars, QueuesOK, WorkersOK, NetworkOK, WorkerFits
  <2>4. WorkerFits' BY <2>0 DEF txVars, QueuesOK, WorkersOK, NetworkOK, WorkerFits, CreditIsRoom, Owed
  <2>5. CreditIsRoom' /\ RingTakesAll'
    BY <2>0 DEF txVars, QueuesOK, WorkersOK, NetworkOK, WorkerFits, CreditIsRoom, RingTakesAll,
       Owed
  <2> QED BY <2>1, <2>2, <2>3, <2>4, <2>5
<1> QED BY <1>1, <1>2, <1>3, <1>4, <1>5, <1>6, <1>7, <1>8, <1>9, <1>10, <1>11, <1>12, <1>13, <1>14,
     <1>15, <1>16, <1>17 DEF TxNext

\* The initial state satisfies the invariant.
LEMMA TxBegin == TxInit => TxInv
  BY TxAssumption DEF TxInit, Worker0, Dy0, TxInv, TxTypeOK, QueuesOK, WorkersOK, NetworkOK,
     WorkerFits, CreditIsRoom, RingTakesAll, Owed, AcNames, Acs

\* The credit the driver counts with is the room the firmware has, less
\* what was just handed over, and neither is ever overdrawn, although two
\* workers, the firmware's events and failing writes change both
\* (skw_tx.c).
THEOREM CreditSafe == TxSpec => []CreditIsRoom
  BY TxBegin, TxStep, PTL DEF TxSpec, TxInv

\* The ring takes every frame that skw_sdio_xmit puts there without
\* looking, because skw_tx_worker counted the room and only the dy worker
\* has changed it since.
THEOREM NoFrameRefused == TxSpec => []RingTakesAll
  BY TxBegin, TxStep, PTL DEF TxSpec, TxInv

\* The queues, workers and the network keep their types.
THEOREM TxTyping == TxSpec => []TxTypeOK
  BY TxBegin, TxStep, PTL DEF TxSpec, TxInv

-----------------------------------------------------------------------------
\* The part of the driver that runs keeps its invariant; the others stand still.
PartsOK == /\ (part = "command" => CmdSound) /\ (part = "scan" => ScanInv)
           /\ (part = "tx" => TxInv)

\* What module MCSkwRequests asks of the three parts together holds for
\* every value of their constants (skw_msg.c, skw_cfg80211.c, skw_tx.c).
THEOREM RequestsHold == Spec => []RequestsSound
<1>1. Init => PartsOK BY CmdBegins, ScanBegins, TxBegin DEF Init, PartsOK
<1>2. PartsOK /\ [Next]_vars => PartsOK'
  <2> SUFFICES ASSUME PartsOK, [Next]_vars PROVE PartsOK' OBVIOUS
  <2>1. CASE CommandSteps BY <2>1, CmdStep DEF CommandSteps, PartsOK
  <2>2. CASE ScanSteps BY <2>2, ScanStep DEF ScanSteps, PartsOK
  <2>3. CASE TxSteps BY <2>3, TxStep DEF TxSteps, PartsOK
  <2>4. CASE UNCHANGED vars
    <3>1. UNCHANGED part /\ UNCHANGED cmdVars /\ UNCHANGED scanVars /\ UNCHANGED txVars
      BY <2>4 DEF vars
    <3> QED BY <3>1, CmdStep, ScanStep, TxStep DEF PartsOK
  <2> QED BY <2>1, <2>2, <2>3, <2>4 DEF Next
<1>3. PartsOK => RequestsSound
  <2>1. CmdSound => CmdTypeOK /\ ExclusiveUntilFault /\ ResultIsOwn
    BY CmdTypes, CmdExclusive, CmdResult
  <2>2. TxInv => TxTypeOK /\ RingTakesAll BY DEF TxInv
  <2> QED BY <2>1, <2>2, ScanTypes DEF PartsOK, RequestsSound
<1> QED BY <1>1, <1>2, <1>3, PTL DEF Spec
=============================================================================
