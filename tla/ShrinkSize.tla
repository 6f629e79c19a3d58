----------------------------- MODULE ShrinkSize -----------------------------
(***************************************************************************)
(* lib/function/shrink: the size of the image that the finished system is  *)
(* copied into.  calculate measures the root file system with `du -sm`     *)
(* (MiB), adds a padding that it chooses by the first digit of that        *)
(* number, and calls the sum MB, which truncate takes as 10^6 bytes; the   *)
(* boot partition and the new file system's own tables come out of the     *)
(* padding.  Sizes are in units of 64 bytes, a divisor of 10^6 and 2^20.   *)
(***************************************************************************)
EXTENDS Integers

CONSTANTS MaxDu,   \* the largest root file system, in MiB
          Offset   \* where a single partition starts, in MiB (board OFFSET)

\* config:39-40 offers images of 4096MB and 8192MB; boards start at 1, 4 or 16MiB.
ASSUME SizeAssumption == MaxDu \in 1..9999 /\ Offset \in 1..16

MB == 15625
MiB == 16384

VARIABLES du,      \* what du -sm reports of the mounted image
          pv, efi, \* P_VALUE and EFI
          total,   \* total_mb
          phase    \* "mounted", "calculated", "partitioned", "copied", "enospc"

sizeVars == <<du, pv, efi, total, phase>>

SizeTypeOK ==
    /\ du \in 1..MaxDu /\ pv \in {"p1", "p2"} /\ efi \in BOOLEAN
    /\ total \in Nat
    /\ phase \in {"mounted", "calculated", "partitioned", "copied", "enospc"}

-----------------------------------------------------------------------------
(* calculate *)

\* head -c 1 of a decimal number: the digit before its largest power of ten.
Powers == {1, 10, 100, 1000}
FirstDigit(n) == CHOOSE d \in 1..9 : \E p \in Powers : d * p <= n /\ n < (d + 1) * p

PaddingP1 == <<500, 600, 700, 800, 900, 1000, 1100, 1200, 1300>>
\* Mutant: the table of single-partition images for both layouts.
PaddingP2Small == <<500, 600, 700, 800, 900, 1000, 1100, 1200, 1300>>
PaddingP2 == <<900, 1000, 1200, 1300, 1400, 1500, 1600, 1700, 1800>>
Padding(v, d) == IF v = "p1" THEN PaddingP1[d] ELSE PaddingP2[d]

\* Mutant: the sum can be negative when it counts in the wrong direction.
CalculateMinus == /\ phase = "mounted" /\ phase' = "calculated"
                  /\ total' = du - Padding(pv, FirstDigit(du))
                  /\ UNCHANGED <<du, pv, efi>>
Calculate == /\ phase = "mounted" /\ phase' = "calculated"
             /\ total' = du + Padding(pv, FirstDigit(du))
             /\ UNCHANGED <<du, pv, efi>>

-----------------------------------------------------------------------------
(* partition and the copy *)

\* The root partition starts at OFFSET, or at BSIZE when there are two.
RootStart == IF pv = "p1" THEN Offset * MiB ELSE (IF efi THEN 256 ELSE 512) * MiB
RootSize == total * MB - RootStart
\* What mkfs.ext4 keeps for itself: a 64th for inode tables, at most 64MiB of
\* journal; reckoned twice the first and a quarter more than the second.
Overhead == RootSize \div 32 + 80 * MiB

Partition == /\ phase = "calculated" /\ phase' = "partitioned"
             /\ UNCHANGED <<du, pv, efi, total>>
\* cp -ax of everything du counted.
CopyFiles == /\ phase = "partitioned"
             /\ phase' = IF du * MiB + Overhead <= RootSize THEN "copied" ELSE "enospc"
             /\ UNCHANGED <<du, pv, efi, total>>
Done == phase \in {"copied", "enospc"} /\ UNCHANGED sizeVars

SizeInit ==
    /\ du \in 1..MaxDu /\ pv \in {"p1", "p2"} /\ efi \in BOOLEAN
    /\ pv = "p1" => ~efi
    /\ total = 0 /\ phase = "mounted"
SizeNext == Calculate \/ Partition \/ CopyFiles \/ Done
SizeSpec == SizeInit /\ [][SizeNext]_sizeVars

-----------------------------------------------------------------------------
(* Properties *)

\* shrink:72-76 and 119-128: the copy into the shrunk image never runs out of
\* space, for every size of the root file system, either layout, EFI or not:
\* the padding outweighs MB against MiB, the boot partition and the file
\* system's overhead.  (At 10000 MiB the first digit falls back to 1.)
CopyFits == phase # "enospc"
=============================================================================
