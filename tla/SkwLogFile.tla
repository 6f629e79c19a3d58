----------------------------- MODULE SkwLogFile -----------------------------
(***************************************************************************)
(* The firmware's log, written to files (skwutil/skw_log_to_file.c): a     *)
(* work item reads the log port into a buffer and the buffer into files    *)
(* that are used in turn.  It is started by a user's START, and then when  *)
(* the firmware is ready again or asserts, and stopped by the end of a     *)
(* dump, by errors and by a user's STOP.  The users hold the log device,   *)
(* and with it the same port (skw_user_com.c; the release build, that does *)
(* not record by itself).  A page here is 2 KiB, a size half a MiB.        *)
(***************************************************************************)
EXTENDS Integers, FiniteSets

CONSTANTS LogSettings,   \* module parameters <<skw_log_size, skw_log_num>>
          LogErrors,     \* failures a recording survives, 5 in the code
          MaxLogOps,     \* bound: events and calls of users
          MaxTurns       \* bound: files begun

ASSUME LogFileAssumption == {LogErrors, MaxLogOps, MaxTurns} \subseteq Nat /\ LogSettings \subseteq Int \X Int

VARIABLES lf,   \* record_flag, cp_assert_status, skw_log_dev, log_com and the work item
          lw    \* the work item's own variables, and its files
logVars == <<lf, lw>>

Buf == 4                                          \* SKW_LOG_READ_BUFFER_SIZE
Most(bus) == IF bus = "SDIO" THEN 2 ELSE 1        \* max_buffer_size

(* The parameters as skw_modem_log_init bounds them; the product is an int. *)
Int32(x) == IF x % 8192 >= 4096 THEN (x % 8192) - 8192 ELSE x % 8192
SizeOf(size) == IF size > 400 THEN 400 ELSE IF size < 1 THEN 1 ELSE size
NumOf(size, num) ==
    LET n == IF Int32(SizeOf(size) * num) > 2048 THEN 2048 \div SizeOf(size) ELSE num
    IN IF n > 99 THEN 99 ELSE n
FilesOf(num) == num + 1                           \* the indices 0..num

LogTypeOK ==
    /\ {lf.present, lf.called, lf.heard, lf.rec, lf.asrt, lf.queued, lf.rx, lf.tx, lf.port, lf.started, lf.exc, lf.want} \subseteq BOOLEAN
    /\ lf.dev \in {"none", "ok", "gone"} /\ lf.exit \in {"no", "user", "remove"} /\ lf.users \in 0..2 /\ lf.open \in 0..(3 + lf.leaked)
    /\ lw.pc \in {"idle", "begin", "store", "file", "port", "loop", "rx", "write", "end"}
    /\ lw.len \in 0..Buf /\ lw.errs \in 0..(LogErrors + 1) /\ lw.index \in 0..255 /\ lw.stored \in {-1} \union 0..255

LogInit ==
    /\ \E s \in LogSettings, bus \in {"SDIO", "USB"}, spent \in {0, 1} :
          lf = [present |-> TRUE, called |-> FALSE, heard |-> FALSE, dev |-> "none", rec |-> FALSE, asrt |-> FALSE, queued |-> FALSE,
                rx |-> FALSE, tx |-> FALSE, port |-> FALSE, open |-> 0, users |-> 0, reading |-> FALSE, started |-> FALSE,
                exc |-> FALSE, exit |-> "no", want |-> FALSE, leaked |-> 0, ops |-> spent, odd |-> {}, bus |-> bus,
                set |-> s, size |-> SizeOf(s[1]), num |-> NumOf(s[1], s[2])]
    /\ lw = [pc |-> "idle", len |-> 0, errs |-> 0, index |-> 0, stored |-> -1, turns |-> 0]

-----------------------------------------------------------------------------
(* skw_modem_log_start_rec: nothing while the port has two holders, or      *)
(* while record_flag says that there is a recording.                        *)
skw_modem_log_start_rec(l) ==
    IF l.open > 1 \/ l.dev # "ok" THEN l
    ELSE IF l.rec THEN [l EXCEPT !.want = TRUE]
    ELSE [l EXCEPT !.asrt = FALSE, !.queued = TRUE, !.want = TRUE]

(* A stop between the start and the work item's first line goes unseen. *)
skw_modem_log_stop_rec(l) ==
    [l EXCEPT !.rec = FALSE, !.port = FALSE, !.want = FALSE,
              !.odd = (@ \ {"stuck", "stopmissed"}) \union (IF l.queued \/ lw.pc = "begin" THEN {"stopmissed"} ELSE {})]

(* The notifier is registered once in the life of a device: a START that    *)
(* follows a STOP does without it.                                          *)
skw_modem_log_init(l) ==
    IF l.dev # "none" THEN [l EXCEPT !.started = FALSE]
    ELSE skw_modem_log_start_rec([l EXCEPT !.dev = "ok", !.heard = ~l.called, !.called = TRUE, !.started = TRUE,
                                           !.odd = IF l.called THEN @ \union {"deaf"} ELSE @])
(* No memory: what is left behind bears no further use.                     *)
InitFails(l) == [l EXCEPT !.dev = "gone", !.started = TRUE]

LogOp(l) == [l EXCEPT !.ops = @ + 1]
(* The device is probed; record_flag is as the one before it left it. *)
LogProbe ==
    /\ ~lf.present /\ lf.ops < MaxLogOps /\ UNCHANGED lw
    /\ lf' = [LogOp(lf) EXCEPT !.present = TRUE, !.called = FALSE, !.tx = FALSE, !.rx = FALSE, !.open = 0, !.leaked = 0,
                               !.odd = @ \ {"deaf"}]

(* modem_event_notifier.  tx_busy stays from the first assertion on, and an *)
(* assertion that finds it does not count as one.                           *)
AssertEvent ==
    /\ lf.heard /\ lf.ops < MaxLogOps /\ UNCHANGED lw
    /\ LET l == [skw_modem_log_start_rec(LogOp(lf)) EXCEPT !.exc = TRUE]
       IN lf' = IF l.tx THEN l ELSE [l EXCEPT !.tx = TRUE, !.asrt = TRUE]
BspReadyEvent ==
    /\ lf.heard /\ lf.ops < MaxLogOps /\ UNCHANGED lw
    /\ lf' = [skw_modem_log_start_rec(LogOp(lf)) EXCEPT !.exc = FALSE]
DumpDoneEvent ==
    /\ lf.heard /\ lf.exc /\ UNCHANGED lw
    /\ lf' = [skw_modem_log_stop_rec(lf) EXCEPT !.asrt = FALSE]
    /\ lf' # lf

(* A user's START and STOP, by ucom_write; STOP waits for the work item,    *)
(* as the removal does.                                                     *)
UserStart ==
    /\ lf.present /\ lf.users > 0 /\ ~lf.exc /\ ~lf.tx /\ lf.ops < MaxLogOps /\ UNCHANGED lw
    /\ lf' = skw_modem_log_init(LogOp(lf)) \/ (lf.dev = "none" /\ lf' = InitFails(LogOp(lf)))
skw_modem_log_exit(l, who) == [skw_modem_log_stop_rec([l EXCEPT !.heard = FALSE]) EXCEPT !.exit = who]
UserStop ==
    /\ lf.present /\ lf.users > 0 /\ ~lf.exc /\ ~lf.tx /\ lf.dev = "ok" /\ lf.exit = "no" /\ lf.ops < MaxLogOps /\ UNCHANGED lw
    /\ lf' = [skw_modem_log_exit(LogOp(lf), "user") EXCEPT !.tx = TRUE]
LogRemove ==                                       \* under a user: SkwUcom
    /\ lf.present /\ lf.users = 0 /\ lf.dev # "gone" /\ lf.exit = "no" /\ UNCHANGED lw
    /\ lf' = IF lf.dev = "ok" THEN skw_modem_log_exit(lf, "remove") ELSE [lf EXCEPT !.present = FALSE, !.started = FALSE]
(* Wrong: the work item is not waited for. *)
ExitAtOnce ==
    /\ lf.exit # "no" /\ UNCHANGED lw
    /\ lf' = [lf EXCEPT !.exit = "no", !.dev = "none", !.queued = FALSE, !.started = FALSE, !.present = lf.exit = "user",
                        !.tx = @ /\ lf.exit # "user"]
ExitEnds ==
    /\ lf.exit # "no" /\ lw.pc = "idle" /\ UNCHANGED lw
    /\ lf' = [lf EXCEPT !.exit = "no", !.dev = "none", !.queued = FALSE, !.started = FALSE, !.present = lf.exit = "user",
                        !.tx = @ /\ lf.exit # "user"]

(* Users of the log device: two hold it at most, the work item included,    *)
(* and the first opens the port.                                            *)
UserOpen ==
    /\ lf.present /\ lf.exit # "remove" /\ lf.open <= 1 /\ lf.users < 2 /\ lf.ops < MaxLogOps /\ UNCHANGED lw
    /\ lf' = [LogOp(lf) EXCEPT !.open = @ + 1, !.users = @ + 1, !.port = @ \/ lf.open = 0,
                               !.rx = @ /\ lf.open > 0, !.tx = @ /\ lf.open > 0]
UserClose ==
    /\ lf.users > 0 /\ ~lf.reading /\ lf.exit # "user" /\ UNCHANGED lw
    /\ lf' = [lf EXCEPT !.open = @ - 1, !.users = @ - 1, !.port = @ /\ lf.started]
UserRead ==
    /\ lf.users > 0 /\ ~lf.rx /\ ~lf.reading /\ lf.ops < MaxLogOps /\ UNCHANGED lw
    /\ lf' = [LogOp(lf) EXCEPT !.rx = TRUE, !.reading = TRUE]
UserReadEnds == lf.reading /\ lf' = [lf EXCEPT !.rx = FALSE, !.reading = FALSE] /\ UNCHANGED lw

-----------------------------------------------------------------------------
(* skw_modem_log_to_file_work, on a queue of one thread.                    *)
To(pc) == lw' = [lw EXCEPT !.pc = pc]
WorkRuns == lf.queued /\ lw.pc = "idle" /\ To("begin") /\ lf' = [lf EXCEPT !.queued = FALSE]
WorkBegins == lw.pc = "begin" /\ To(IF lf.rec THEN "idle" ELSE "store") /\ lf' = [lf EXCEPT !.rec = TRUE]

(* It gives up without a word to record_flag, and nothing is recorded until *)
(* the next stop.                                                           *)
GivesUp(pc, l, opened) ==
    /\ lw.pc = pc /\ To("idle")
    /\ lf' = [l EXCEPT !.leaked = @ + opened, !.open = @ + (IF pc = "port" THEN 1 ELSE 0),
                       !.port = @ \/ (pc = "port" /\ l.open = 0), !.odd = @ \union (IF l.rec THEN {"stuck"} ELSE {})]
StoreFails == GivesUp("store", lf, 0)
FileFails == GivesUp("file", lf, 0)
BufferFails == GivesUp("port", lf, 1)

(* The number of the next file; the one kept in log_store is a byte, of a   *)
(* new log_store a byte of the stack: below, at or above the limit.         *)
NextIndex(i, num) == IF (i + 1) % 256 > num THEN 0 ELSE (i + 1) % 256
StackBytes == {0, 255} \union (IF lf.num \in 0..255 THEN {lf.num} ELSE {})
(* log_store, that may fail to be written. *)
Keep(i) == {i, lw.stored}
WorkStore ==
    /\ lw.pc = "store" /\ lw.turns < MaxTurns /\ UNCHANGED lf
    /\ \E b \in IF lw.stored = -1 THEN StackBytes ELSE {lw.stored} : \E k \in Keep(NextIndex(b, lf.num)) :
          lw' = [lw EXCEPT !.pc = "file", !.index = NextIndex(b, lf.num), !.stored = k, !.turns = @ + 1]
WorkFile == lw.pc = "file" /\ To("port") /\ UNCHANGED lf
WorkPort ==
    /\ lw.pc = "port" /\ lw' = [lw EXCEPT !.pc = "loop", !.len = 0, !.errs = 0]
    /\ lf' = [lf EXCEPT !.open = @ + 1, !.port = @ \/ lf.open = 0]

WorkLoop ==
    /\ lw.pc = "loop"
    /\ IF lf.rec \/ lf.asrt THEN ~lf.rx /\ To("rx") /\ lf' = [lf EXCEPT !.rx = TRUE] ELSE To("end") /\ UNCHANGED lf

(* What the bus gives: some pages, nothing, an error, no connection.  One   *)
(* failure too many in a row ends the recording, the first error on USB,    *)
(* the loss of the connection on SDIO.                                      *)
Halt(l) == skw_modem_log_stop_rec([l EXCEPT !.asrt = FALSE])
WorkGets ==
    /\ lw.pc = "rx" /\ lf.port /\ lf' = [lf EXCEPT !.rx = FALSE]
    /\ \E n \in 1..Most(lf.bus) : lw' = [lw EXCEPT !.pc = "write", !.len = @ + n, !.errs = 0]
WorkGetsNone ==
    /\ lw.pc = "rx"
    /\ \E r \in {"zero", "err", "notconn"} :
          lf' = [IF lw.errs >= LogErrors \/ (lf.bus = "USB" /\ r # "zero") \/ (lf.bus = "SDIO" /\ r = "notconn")
                 THEN Halt(lf) ELSE lf EXCEPT !.rx = FALSE]
    /\ lw' = [lw EXCEPT !.pc = "write", !.errs = IF @ > LogErrors THEN @ ELSE @ + 1]

(* The buffer is written when another read might not fit, and with every    *)
(* read after an assertion; a full file is followed by the next, unless the *)
(* firmware has asserted.                                                   *)
Due == (lw.len > 0 /\ lf.asrt) \/ Buf - lw.len <= Most(lf.bus)
WorkKeeps == lw.pc = "write" /\ ~Due /\ To("loop") /\ UNCHANGED lf
Written == {lf, skw_modem_log_stop_rec(lf)}       \* the second: no space
WorkWrites == lw.pc = "write" /\ Due /\ lw' = [lw EXCEPT !.pc = "loop", !.len = 0] /\ lf' \in Written
WorkTurns ==
    /\ lw.pc = "write" /\ Due /\ ~lf.asrt /\ lw.turns < MaxTurns /\ lf' \in Written
    /\ \E k \in Keep(NextIndex(lw.index, lf.num)) :
          lw' = [lw EXCEPT !.pc = "loop", !.len = 0, !.index = NextIndex(lw.index, lf.num), !.stored = k, !.turns = @ + 1]
TurnFails == Due /\ ~lf.asrt /\ \E l \in Written : GivesUp("write", l, 1)

WorkEnds == lw.pc = "end" /\ To("idle") /\ lf' = [lf EXCEPT !.open = @ - 1, !.port = FALSE]

LogNext ==
    \/ LogProbe \/ AssertEvent \/ BspReadyEvent \/ DumpDoneEvent \/ UserStart \/ UserStop \/ LogRemove \/ ExitEnds
    \/ UserOpen \/ UserClose \/ UserRead \/ UserReadEnds
    \/ WorkRuns \/ WorkBegins \/ StoreFails \/ FileFails \/ BufferFails \/ WorkStore \/ WorkFile \/ WorkPort
    \/ WorkLoop \/ WorkGets \/ WorkGetsNone \/ WorkKeeps \/ WorkWrites \/ WorkTurns \/ TurnFails \/ WorkEnds
LogFileSpec == LogInit /\ [][LogNext]_logVars

(* A recording that was started and not stopped since is there or about to *)
(* begin, one that was stopped is not, and none is without a work item; a  *)
(* read fits what is left of the buffer, the file is one of those allowed, *)
(* and the log device goes after its work item and without a holder too    *)
(* many.  The indices are 0..skw_log_num, one more than the number that the *)
(* limit of 1 GiB is computed with: the files are begun within 1 GiB and    *)
(* one file (a file ends with the write that passes its limit, and while    *)
(* the firmware asserts it has none).  Exceptions, each a sequence of      *)
(* calls: a work item that gave up, a stop before its first line, and a    *)
(* product of the two parameters beyond an int.                            *)
LogRecorded ==
    /\ lf.dev = "ok" /\ lf.want => lf.rec \/ lf.queued \/ lw.pc = "begin" \/ "stuck" \in lf.odd
    /\ lf.rec => lf.want \/ "stopmissed" \in lf.odd
    /\ lf.rec /\ lw.pc = "idle" => "stuck" \in lf.odd
    /\ lw.pc = "rx" => lw.len + Most(lf.bus) <= Buf
    /\ lw.turns > 0 => lw.index <= lf.num \/ lw.index = 0
    /\ lf.dev = "none" => lw.pc = "idle" /\ ~lf.queued
    /\ lf.present => lf.open = lf.users + lf.leaked + (IF lw.pc \in {"loop", "rx", "write", "end"} THEN 1 ELSE 0)
    /\ lf.size * FilesOf(lf.num) > 2048 + lf.size => SizeOf(lf.set[1]) * lf.set[2] >= 4096
    /\ lf.dev = "ok" /\ lf.exit = "no" => lf.heard \/ "deaf" \in lf.odd
=============================================================================
