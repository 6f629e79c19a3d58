----------------------------- MODULE SkwDumpMem -----------------------------
(***************************************************************************)
(* The memory of a firmware that has died, kept in one buffer until it is  *)
(* read (skwutil/skw_dump_mem.c, and usb/skw_usb_io.c, where the chip      *)
(* sends it on the log port).  Over SDIO the notification of the death     *)
(* itself dumps, segment by segment, over USB a work item does; user space *)
(* reads from SKWDUMP or from the log device.  The buffer is in pieces,    *)
(* and a piece is named by the death it is from.                           *)
(***************************************************************************)
EXTENDS Naturals, FiniteSets

CONSTANTS DumpReaders,   \* open files of user space
          Pieces,        \* pieces a dump has
          Room,          \* pieces the buffer has
          MaxDeaths,     \* bound: deaths of the firmware
          MaxDumpReads   \* bound: reads that find no dump

ASSUME DumpAssumption == {Pieces, Room, MaxDeaths, MaxDumpReads} \subseteq Nat /\ Pieces > 0 /\ Room > 0

VARIABLES dm,   \* dump_memory_buffer, dump_log_size, cp_exception_sts and who dumps
          dr    \* the readers
dumpVars == <<dm, dr>>

Dumpers == {"assert", "blocked"}      \* the notifications that dump, over SDIO
DumpTypeOK ==
    /\ dm.bus \in {"SDIO", "USB"} /\ dm.status \in {"on", "assert", "dumpdone", "blocked"} /\ dm.deaths \in 0..MaxDeaths
    /\ {dm.buf, dm.held} \subseteq BOOLEAN /\ dm.size \in 0..Pieces /\ dm.mem \in [1..Pieces -> 0..MaxDeaths]
    /\ dm.at \in [Dumpers -> 0..Pieces] /\ dm.work \in {"idle", "queued", "run", "rerun"} /\ dm.total \in 0..Pieces /\ dm.stored \in 0..Pieces
    /\ \A f \in DumpReaders : dr[f].pos \in 0..Pieces /\ dr[f].dev \in {"SKWDUMP", "LOG"} /\ dr[f].got \subseteq 0..MaxDeaths

NewFile(dev) == [dev |-> dev, pos |-> 0, got |-> {}, odd |-> FALSE]
DumpInit ==
    /\ \E bus \in {"SDIO", "USB"} :
          dm = [bus |-> bus, status |-> "on", deaths |-> 0, buf |-> FALSE, held |-> FALSE, size |-> 0, mem |-> [i \in 1..Pieces |-> 0],
                at |-> [d \in Dumpers |-> 0], run |-> [d \in Dumpers |-> FALSE], work |-> "idle", total |-> 0, stored |-> 0, reads |-> 0,
                crossed |-> FALSE]
    /\ \E dev \in [DumpReaders -> {"SKWDUMP", "LOG"}] : dr = [f \in DumpReaders |-> NewFile(dev[f])]

-----------------------------------------------------------------------------
(* A buffer is allocated once and kept; there may be no memory for it. *)
Alloc(d, wanted) == IF d.buf \/ ~wanted THEN {d} ELSE {d, [d EXCEPT !.buf = TRUE]}
Begin(d, who) == [d EXCEPT !.at[who] = 0, !.run[who] = TRUE, !.crossed = @ \/ \E o \in Dumpers : d.run[o]]
Running == dm.work \in {"run", "rerun"}
Idle == \A d \in Dumpers : ~dm.run[d]

(* bt_state_event_notifier, DEVICE_ASSERT_EVENT: a dump that was not read   *)
(* stays, and while somebody holds the log device it is his to read the     *)
(* port.  dump_modem_memory, over USB, queues the work item.                *)
Requeued(d) == IF ~d.buf \/ d.held THEN d.work ELSE IF Running THEN "rerun" ELSE "queued"
DEVICE_ASSERT_EVENT ==
    /\ dm.status = "on" /\ dm.deaths < MaxDeaths /\ Idle /\ UNCHANGED dr
    /\ LET d == [dm EXCEPT !.status = "assert", !.deaths = @ + 1, !.crossed = @ \/ Running]
       IN IF d.size > 0 THEN dm' = d
          ELSE \E e \in Alloc(d, ~d.held) :
                  dm' = IF e.bus = "USB" THEN [e EXCEPT !.work = Requeued(e)]
                        ELSE IF e.buf /\ ~e.held THEN Begin(e, "assert") ELSE e

(* Blocked: no word from the chip after its death.  Whoever holds the log   *)
(* device does not matter here, and over USB there is no way to dump.       *)
DEVICE_BLOCKED_EVENT ==
    /\ dm.status = "assert" /\ UNCHANGED dr
    /\ LET d == [dm EXCEPT !.status = "blocked"]
       IN IF d.size > 0 THEN dm' = d
          ELSE \E e \in Alloc(d, TRUE) : dm' = IF e.bus = "SDIO" /\ e.buf THEN Begin(e, "blocked") ELSE e
DEVICE_DUMPDONE_EVENT == dm.status = "assert" /\ dm' = [dm EXCEPT !.status = "dumpdone"] /\ UNCHANGED dr
(* The chip is booted again when the dumps over SDIO are over. *)
DEVICE_BSPREADY_EVENT == dm.status \in {"dumpdone", "blocked"} /\ Idle /\ dm' = [dm EXCEPT !.status = "on"] /\ UNCHANGED dr

(* skw_dump_memory_into_buffer: a piece, an error that ends the dump where  *)
(* it is, and the end, that makes the dump known.                           *)
DumpPiece(who) ==
    /\ dm.run[who] /\ dm.at[who] < Pieces /\ UNCHANGED dr
    /\ dm' = [dm EXCEPT !.mem[dm.at[who] + 1] = dm.deaths, !.at[who] = @ + 1]
DumpEnds(who) ==
    /\ dm.run[who] /\ UNCHANGED dr
    /\ dm' = [dm EXCEPT !.run[who] = FALSE, !.size = dm.at[who]]

(* dump_memory_work, show_assert_context: the pieces as the chip sends      *)
(* them, those beyond the buffer's end dropped, until it has no more, an    *)
(* error, or the chip runs again.                                           *)
WorkStarts ==
    /\ dm.work = "queued" /\ UNCHANGED dr
    /\ dm' = IF dm.size = 0 /\ ~dm.held THEN [dm EXCEPT !.work = "run", !.total = 0, !.stored = 0]
             ELSE [dm EXCEPT !.work = "idle"]
PieceFits == dm.total + 1 < Room
WorkPiece ==
    /\ Running /\ dm.status # "on" /\ dm.total < Pieces /\ UNCHANGED dr
    /\ dm' = [dm EXCEPT !.total = @ + 1, !.stored = IF PieceFits THEN dm.total + 1 ELSE @,
                        !.mem[dm.total + 1] = IF PieceFits THEN dm.deaths ELSE @]
WorkStops ==
    /\ Running /\ UNCHANGED dr
    /\ dm' = [dm EXCEPT !.work = IF @ = "rerun" THEN "queued" ELSE "idle", !.size = dm.stored]

-----------------------------------------------------------------------------
(* User space.  The log device is taken and given back (SkwUcom), by a     *)
(* recording too (SkwLogFile); who holds it is asked only in these states.  *)
LogHeld == (dm.status = "on" \/ dm.work = "queued") /\ dm' = [dm EXCEPT !.held = ~@] /\ UNCHANGED dr

FileOpen ==
    /\ UNCHANGED dm /\ \E f \in DumpReaders : dr[f] # NewFile(dr[f].dev) /\ dr' = [dr EXCEPT ![f] = NewFile(dr[f].dev)]
(* skw_ucom_dump_from_buffer: what there is from the file's position on.    *)
ReadPiece(f) ==
    /\ dr[f].pos < dm.size /\ UNCHANGED dm
    /\ dr' = [dr EXCEPT ![f].pos = @ + 1, ![f].got = @ \union {dm.mem[dr[f].pos + 1]}]
(* The end of the dump: through SKWDUMP that also drops it.  Other files    *)
(* that are amid it will see another dump where they are, or none.          *)
ReadEnd(f) ==
    /\ dm.size > 0 /\ dr[f].pos >= dm.size
    /\ dm' = IF dr[f].dev = "SKWDUMP" THEN [dm EXCEPT !.size = 0] ELSE dm
    /\ dr' = IF dr[f].dev = "SKWDUMP"
             THEN [g \in DumpReaders |-> IF dr[g].pos > 0 THEN [dr[g] EXCEPT !.odd = TRUE] ELSE dr[g]] ELSE dr
(* No dump: the state of the chip instead, which moves the position and is  *)
(* reported as the end of the file.                                         *)
ReadStatus(f) ==
    /\ dm.size = 0 /\ dr[f].dev = "SKWDUMP" /\ dr[f].pos = 0 /\ dm.reads < MaxDumpReads
    /\ dm' = [dm EXCEPT !.reads = @ + 1] /\ dr' = [dr EXCEPT ![f].pos = 1, ![f].odd = TRUE]

DumpNext ==
    \/ DEVICE_ASSERT_EVENT \/ DEVICE_BLOCKED_EVENT \/ DEVICE_DUMPDONE_EVENT \/ DEVICE_BSPREADY_EVENT
    \/ \E d \in Dumpers : DumpPiece(d) \/ DumpEnds(d)
    \/ WorkStarts \/ WorkPiece \/ WorkStops \/ LogHeld \/ FileOpen
    \/ \E f \in DumpReaders : ReadPiece(f) \/ ReadEnd(f) \/ ReadStatus(f)
DumpSpec == DumpInit /\ [][DumpNext]_dumpVars

(* A dump that can be read is of one death, and of the parts a reader has   *)
(* got none is of another: a dump is not overwritten before it was read to  *)
(* the end, nor a piece of it beyond the buffer, over USB.  Exceptions, each*)
(* a sequence of calls: a death while the work item still reads what the    *)
(* one before it left, a chip found blocked while its death is still being  *)
(* dumped, and a file that was amid the dump or had asked for it too early  *)
(* when another file read the end.                                          *)
DumpIsOne ==
    /\ ~dm.crossed => \A i, j \in 1..dm.size : dm.mem[i] = dm.mem[j]
    /\ ~dm.crossed => \A f \in DumpReaders : dr[f].odd \/ Cardinality(dr[f].got) <= 1
    /\ dm.bus = "USB" => dm.stored < Room /\ dm.size < Room
    /\ dm.size > 0 => dm.buf
=============================================================================
