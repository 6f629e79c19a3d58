---------------------------- MODULE SkwSdioLink ----------------------------
(***************************************************************************)
(* The SDIO bus itself: the rx thread that is told by an interrupt that    *)
(* the chip's processor (CP) has packets and reads them in batches, the    *)
(* senders that wake the CP first, and the suspend and resume of the host, *)
(* all with their hands on the interrupt (skw_sdio_rx.c, skw_sdio_main.c). *)
(* The interrupt is in band, claimed and released, or a GPIO, disabled and *)
(* enabled.  What is in a packet is left to SkwSdioPort.  The wakelock is  *)
(* not here: skw_sdio_lock_rx_ws returns before it takes it.               *)
(***************************************************************************)
EXTENDS Integers, FiniteSets

CONSTANTS MaxPac,        \* MAX_PAC_COUNT, packets of a batch
          MaxSg,         \* MAX_SG_COUNT, entries of a port's scatter list
          MaxPackets,    \* bound: packets of the CP
          MaxLinkSends,  \* bound: calls of a sender
          MaxSuspends,   \* bound: suspends of the host
          MaxLinkFaults  \* bound: transfers and allocations that fail

ASSUME LinkAssumption == /\ {MaxPac, MaxSg, MaxPackets, MaxLinkSends, MaxSuspends, MaxLinkFaults} \subseteq Nat
                         /\ 0 < MaxPac /\ MaxPac <= MaxSg

VARIABLES lk,            \* struct skw_sdio_data_t, its pins and interrupt
          lrx,           \* the rx thread
          lsnd,          \* the senders
          lcp            \* the CP, counts
linkVars == <<lk, lrx, lsnd, lcp>>

(* cmd: wifi_send_cmd and its like; wow: skw_sdio_suspend_adma_cmd, with    *)
(* the GPIO interrupt off; reg: readb and writeb, as port max_ch_num.       *)
Senders == {"cmd", "wow", "reg"}

(* lk.in is gpio_in, lk.depth how often the GPIO interrupt is disabled,     *)
(* lk.com is resume_com, lk.flag resume_flag.                               *)
LinkTypeOK ==
    /\ lk.irq \in {"inband", "external"} /\ lk.depth \in 0..2 /\ lk.req \subseteq Senders
    /\ lk.pm \in {"on", "indicate", "quiet", "release", "off", "claim"}
    /\ lrx.pc \in {"down", "check", "read", "submit"} /\ lrx.remain \in 1..MaxSg
    /\ \A s \in Senders : lsnd[s].pc \in {"idle", "wake", "wait", "write"} /\ lsnd[s].i \in 0..2
    /\ lcp.left \in 0..MaxPackets

LinkInit ==
    /\ \E irq \in {"inband", "external"} :
          lk = [irq |-> irq, in |-> FALSE, handler |-> irq = "inband", depth |-> 0,
                up |-> FALSE, com |-> TRUE, flag |-> TRUE, req |-> {}, pm |-> "on",
                off |-> FALSE, kick |-> FALSE, claimed |-> TRUE]
    /\ \E adma \in BOOLEAN :
          lrx = [adma |-> adma, pc |-> "down", remain |-> 1, nsize |-> 0, seen |-> 0]
    /\ lsnd = [s \in Senders |-> [pc |-> "idle", i |-> 0, held |-> FALSE]]
    /\ \E n, sent \in 0..1, faults \in {0, MaxLinkFaults} :
          /\ n + sent = IF faults = 0 THEN 2 ELSE 1   \* a fault is bought with a packet and a call
          /\ lcp = [left |-> 0, fifo |-> 0, pend |-> FALSE, n |-> n, sent |-> sent,
                    suspends |-> 0, faults |-> faults, failed |-> FALSE]

Faulty == lcp.faults < MaxLinkFaults
Failed(c) == [c EXCEPT !.faults = @ + 1, !.failed = TRUE]
skw_sdio_rx_up(k) == [k EXCEPT !.up = TRUE]

-----------------------------------------------------------------------------
(* The CP: external.                                                        *)

CpHasPacket ==
    /\ lcp.n < MaxPackets
    /\ lcp' = [lcp EXCEPT !.n = @ + 1, !.fifo = @ + 1, !.left = @ + 1, !.pend = TRUE]
    /\ lk' = [lk EXCEPT !.in = TRUE] /\ UNCHANGED <<lrx, lsnd>>
CpWakes == /\ ~lk.in /\ lk.req # {} /\ lk' = [lk EXCEPT !.in = TRUE]
           /\ lcp' = [lcp EXCEPT !.pend = @ \/ lk.irq = "external"] /\ UNCHANGED <<lrx, lsnd>>
CpSleeps == /\ lk.in /\ lcp.left = 0 /\ lk' = [lk EXCEPT !.in = FALSE] /\ UNCHANGED <<lrx, lsnd, lcp>>

-----------------------------------------------------------------------------
(* The interrupts.                                                          *)

(* It waits for the resume, 30 s at the most, and reads a register, for     *)
(* which it may wake the CP: nobody clears the request.                     *)
skw_sdio_inband_irq_handler ==
    /\ lk.irq = "inband" /\ lk.handler /\ lcp.pend /\ lcp' = [lcp EXCEPT !.pend = FALSE]
    /\ lk' = skw_sdio_rx_up([lk EXCEPT !.req = IF lk.in THEN @ ELSE @ \union {"reg"}])
    /\ UNCHANGED <<lrx, lsnd>>

(* A CP that falls asleep while a sender wants it is woken once more, see   *)
(* CpWakes.                                                                 *)
host_gpio_in_routine(k) == [k EXCEPT !.com = @ \/ k.in]
skw_gpio_irq_handler ==
    /\ lk.irq = "external" /\ lk.depth = 0 /\ lcp.pend /\ lcp' = [lcp EXCEPT !.pend = FALSE]
    /\ lk' = host_gpio_in_routine(IF lk.in THEN skw_sdio_rx_up(lk) ELSE lk)
    /\ UNCHANGED <<lrx, lsnd>>

(* A command that has timed out has the thread look. *)
kick_rx_thread ==
    /\ ~lk.kick /\ Faulty /\ lcp' = Failed(lcp)
    /\ lk' = LET k == [lk EXCEPT !.kick = TRUE]
             IN  IF lk.in THEN skw_sdio_rx_up(k) ELSE [k EXCEPT !.req = @ \union {"reg"}]
    /\ UNCHANGED <<lrx, lsnd>>

-----------------------------------------------------------------------------
(* skw_sdio_rx_thread.                                                      *)

skw_sdio_rx_down == /\ lrx.pc = "down" /\ lk.up /\ lk' = [lk EXCEPT !.up = FALSE]
                    /\ lrx' = [lrx EXCEPT !.pc = "check"] /\ UNCHANGED <<lsnd, lcp>>

(* With the GPIO it looks at the pin and at the number of the CP's fifo,    *)
(* and goes back to sleep when that has not changed.                        *)
RxCheck ==
    /\ lrx.pc = "check" /\ UNCHANGED lsnd
    /\ \/ /\ lk.irq = "external"
          /\ lk.in => lcp.fifo = lrx.seen /\ ~lk.kick
          /\ lrx' = [lrx EXCEPT !.pc = "down"] /\ UNCHANGED <<lk, lcp>>
       \/ /\ lk.irq = "external" /\ lk.in /\ Faulty /\ lcp' = Failed(lcp)      \* readb
          /\ lrx' = [lrx EXCEPT !.pc = "down"] /\ UNCHANGED lk
       \/ /\ lk.irq = "external" => lk.in /\ (lcp.fifo # lrx.seen \/ lk.kick)
          /\ lrx' = [lrx EXCEPT !.pc = "read", !.seen = lcp.fifo]
          /\ lk' = [lk EXCEPT !.kick = FALSE] /\ UNCHANGED lcp

Fewer(a, b) == IF a < b THEN a ELSE b
BatchSize == Fewer(lrx.remain, MaxPac)

(* What the CP has not got comes as empty packets; after the packets comes  *)
(* how many are left.  The parsers hand every good packet to its port.      *)
ReadBatch ==
    LET got == Fewer(BatchSize, lcp.left)
    IN  /\ lcp' = [lcp EXCEPT !.left = @ - got]
        /\ lrx' = [lrx EXCEPT !.pc = "submit", !.nsize = lcp.left - got]

(* A failed transfer keeps the last number with adma, and forgets it with   *)
(* sdma; want of memory keeps it in both.  Powered off, nothing is read.    *)
RxRead ==
    /\ lrx.pc = "read" /\ UNCHANGED <<lk, lsnd>>
    /\ \/ ~lk.off /\ ReadBatch
       \/ lk.off /\ lrx' = [lrx EXCEPT !.pc = "submit", !.nsize = 0] /\ UNCHANGED lcp
       \/ /\ Faulty /\ lcp' = Failed(lcp)
          /\ \E n \in {0, lrx.nsize} : lrx' = [lrx EXCEPT !.pc = "submit", !.nsize = IF lrx.adma THEN lrx.nsize ELSE n]

skw_sdio_adma_set_packet_num(num) == Fewer(IF num = 0 THEN 1 ELSE num, MaxSg)
RxSubmit ==
    /\ lrx.pc = "submit"
    /\ LET n == IF lk.off THEN 0 ELSE lrx.nsize
       IN  lrx' = [lrx EXCEPT
                     !.remain = skw_sdio_adma_set_packet_num(lrx.nsize), !.nsize = n,
                     !.pc = IF n > 0 THEN "read" ELSE "down"]
    /\ UNCHANGED <<lk, lsnd, lcp>>

-----------------------------------------------------------------------------
(* The senders.                                                             *)

Sender(s, from, to) == lsnd[s].pc = from /\ lsnd' = [lsnd EXCEPT ![s] = to]

(* skw_sdio_irq_ops(0): only if the CP sleeps. *)
SendStart(s) ==
    /\ lcp.sent < MaxLinkSends /\ lcp' = [lcp EXCEPT !.sent = @ + 1]
    /\ LET holds == s = "wow" /\ lk.irq = "external" /\ ~lk.in
       IN  /\ Sender(s, "idle", [pc |-> "wake", i |-> 0, held |-> holds])
           /\ lk' = [lk EXCEPT !.depth = IF holds THEN @ + 1 ELSE @]
    /\ UNCHANGED lrx

try_to_wakeup_modem(s) ==
    /\ Sender(s, "wake", [lsnd[s] EXCEPT !.pc = IF lk.in THEN "write" ELSE "wait"])
    /\ lk' = [lk EXCEPT !.req = IF lk.in THEN @ ELSE @ \union {s}]
    /\ UNCHANGED <<lrx, lcp>>

(* A CP that is awake is what a host needs that had released its in band    *)
(* interrupt for a suspend; the wait may end without it, too.               *)
Claim(k, ok) == [k EXCEPT !.handler = ok, !.claimed = ok]
WakeUpDone(s) ==
    /\ Sender(s, "wait", [lsnd[s] EXCEPT !.pc = "write"])
    /\ IF lk.in /\ ~lk.handler /\ ~lk.com /\ lk.irq = "inband"
       THEN \/ lk' = Claim(lk, TRUE) /\ UNCHANGED lcp
            \/ Faulty /\ lcp' = Failed(lcp) /\ UNCHANGED lk
       ELSE UNCHANGED <<lk, lcp>>
    /\ UNCHANGED lrx

(* A transfer takes it that the host has resumed; a register does not. *)
skw_sdio_adma_write(k) == [k EXCEPT !.com = TRUE]
skw_sdio_writeb(k) == k

(* Two tries; the interrupt and the request are given back. *)
SendDone(s, k) == [k EXCEPT !.depth = IF lsnd[s].held THEN @ - 1 ELSE @, !.req = IF s = "reg" THEN @ ELSE @ \ {s}]
SendWrite(s, ok) ==
    LET k == IF s = "reg" THEN skw_sdio_writeb(lk) ELSE skw_sdio_adma_write(lk)
    IN  /\ ~ok => Faulty
        /\ lcp' = IF ok THEN lcp ELSE Failed(lcp)
        /\ IF ok \/ lsnd[s].i = 1
           THEN Sender(s, "write", [pc |-> "idle", i |-> 0, held |-> FALSE]) /\ lk' = SendDone(s, k)
           ELSE Sender(s, "write", [lsnd[s] EXCEPT !.pc = "wake", !.i = @ + 1]) /\ lk' = k
        /\ UNCHANGED lrx

-----------------------------------------------------------------------------
(* Suspend and resume.                                                      *)

Pm(from, k) == lk.pm = from /\ lk' = k /\ UNCHANGED <<lrx, lsnd>>

(* The CP is told, in band by two registers. *)
skw_sdio_suspend ==
    /\ lcp.suspends < MaxSuspends /\ lcp' = [lcp EXCEPT !.suspends = @ + 1]
    /\ Pm("on", [lk EXCEPT !.pm = "indicate", !.flag = FALSE,
                           !.req = IF lk.irq = "inband" /\ ~lk.in THEN @ \union {"reg"} ELSE @])

(* A sleeping CP is told with the GPIO interrupt off, 20 ms at the most. *)
send_host_suspend_indication ==
    /\ UNCHANGED lcp
    /\ \/ ~lk.com /\ Pm("indicate", [lk EXCEPT !.pm = "release"])
       \/ lk.com /\ Pm("indicate", [lk EXCEPT !.pm = "quiet",
                                              !.depth = IF lk.in \/ lk.irq = "inband" THEN @ ELSE @ + 1])
QuietEnds == /\ UNCHANGED lcp
             /\ \E held \in BOOLEAN :
                   /\ held = (lk.depth > Cardinality({s \in Senders : lsnd[s].held}))
                   /\ Pm("quiet", [lk EXCEPT !.pm = "release", !.depth = IF held THEN @ - 1 ELSE @])

SuspendReleases ==
    /\ UNCHANGED lcp
    /\ Pm("release", [lk EXCEPT !.pm = "off", !.com = FALSE,
                                !.handler = IF lk.irq = "inband" /\ lk.com THEN FALSE ELSE @])

skw_sdio_resume ==
    /\ UNCHANGED lcp
    /\ Pm("off", [lk EXCEPT !.pm = "claim", !.com = TRUE, !.flag = TRUE,
                            !.req = IF lk.irq = "inband" /\ ~lk.in THEN @ \union {"reg"} ELSE @])

ResumeClaims ==
    \/ /\ lk.irq = "external" \/ lk.handler
       /\ UNCHANGED lcp /\ Pm("claim", [lk EXCEPT !.pm = "on"])
    \/ /\ lk.irq = "inband" /\ ~lk.handler /\ UNCHANGED lcp
       /\ Pm("claim", [Claim(lk, TRUE) EXCEPT !.pm = "on"])
    \/ /\ lk.irq = "inband" /\ ~lk.handler /\ Faulty /\ lcp' = Failed(lcp)
       /\ Pm("claim", [Claim(lk, FALSE) EXCEPT !.pm = "on"])

(* skw_recovery_mode, and the boot after it (SkwSdioCp). *)
PowerOff == /\ Faulty /\ lcp' = Failed(lcp) /\ lk' = [lk EXCEPT !.off = ~@] /\ UNCHANGED <<lrx, lsnd>>

LinkNext ==
    \/ CpHasPacket \/ CpWakes \/ CpSleeps
    \/ skw_sdio_inband_irq_handler \/ skw_gpio_irq_handler \/ kick_rx_thread
    \/ skw_sdio_rx_down \/ RxCheck \/ RxRead \/ RxSubmit
    \/ \E s \in Senders : SendStart(s) \/ try_to_wakeup_modem(s) \/ WakeUpDone(s) \/ \E ok \in BOOLEAN : SendWrite(s, ok)
    \/ skw_sdio_suspend \/ send_host_suspend_indication \/ QuietEnds \/ SuspendReleases
    \/ skw_sdio_resume \/ ResumeClaims \/ PowerOff
LinkSpec == LinkInit /\ [][LinkNext]_linkVars

-----------------------------------------------------------------------------

(* While the host is awake its receive interrupt is armed: a GPIO interrupt *)
(* is off only for a sender that holds it off, an in band one has its       *)
(* handler, whichever of the senders and the resume has claimed it again    *)
(* (unless that claim was refused).                                         *)
RxArmed ==
    lk.pm = "on" => IF lk.irq = "inband" THEN lk.handler \/ ~lk.claimed
                    ELSE lk.depth = Cardinality({s \in Senders : lsnd[s].held})

(* A packet of the CP is never forgotten: as long as it has one, an         *)
(* interrupt, the completion or the thread is on its way to read it.  (Not  *)
(* after a transfer or an allocation failed: then a timeout must kick the   *)
(* thread.)                                                                 *)
PacketsHeard ==
    lcp.left > 0 /\ ~lcp.failed => lcp.pend \/ lk.up \/ lrx.pc # "down"
=============================================================================
