---------------------------- MODULE BuildScripts ----------------------------
(***************************************************************************)
(* scripts/rootfs and scripts/stage1 with the functions they call, as the  *)
(* sequences of commands that module Workspace runs.  A job is a record:   *)
(*   kind    "rootfs" or "image"                                           *)
(*   name    the work file in img/                                         *)
(*   pv      P_VALUE, "p1" (one partition) or "p2" (boot and root)         *)
(*   boot    what board.txt selects: "extlinux", "bootcmd" (BOOTCMD or     *)
(*           BOOTINI), "petitboot", "broadcom", "grub" (EFI, with the      *)
(*           board's own 09_ entry) or "generic" (EFI, no 09_ entry)       *)
(*   shrink  ENABLE_SHRINK                                                 *)
(*   label   ROOTFS_LABEL                                                  *)
(***************************************************************************)
EXTENDS Sequences

At(o, P) == [op |-> o, at |-> P, soft |-> FALSE]
Do(o) == At(o, {})
OnDir(o, d) == At(o, {<<d, "">>})
OnDirs(o, D) == At(o, D \X {""})
In(o, d, s) == At(o, {<<d, s>>})
Soft(c) == [c EXCEPT !.soft = TRUE]
When(b, s) == IF b THEN s ELSE << >>
EFI(j) == j.boot \in {"grub", "generic"}

-----------------------------------------------------------------------------
(* lib/function/staging *)

\* single_partition: mkdir and mkfs come after the loop device.
SinglePartition ==
    << Do("truncate"), Do("losetup"), OnDir("mkdir", "p1"), Do("mkfs"),
       OnDir("mount", "p1"), Do("work"), OnDir("umount", "p1"), OnDir("mount", "p1") >>
DualPartition ==
    << Do("truncate"), Do("losetup"), OnDirs("mkdir", {"p1", "p2"}),
       Do("mkfs"), OnDir("mount", "p1"), OnDir("mount", "p2"), Do("work"),
       OnDir("umount", "p2"), OnDir("mount", "p2") >>
Partition(j) == IF j.pv = "p1" THEN SinglePartition ELSE DualPartition

\* setup and files: tarball check, partitions, their ids, extraction, fstab.
Setup(j) == << Do("needtar") >> \o Partition(j)
            \o << Do("uuid"), Do("work"), Do("fstab"), Do("work") >>

\* Which of extlinux, bootcmdini, odroid_bootcmd and brcm_cmdline runs: all
\* write ROOT_PARTUUID; none runs for EFI; p1 knows only the first two.
BootWriters(j) ==
    When(j.boot \in {"extlinux", "bootcmd"}
         \/ (j.pv = "p2" /\ j.boot \in {"petitboot", "broadcom"}), << Do("bootcfg") >>)

\* update_grub.sh, run in the chroot.
UpdateGrubSh(d) == << In("mount", d, "proc"), In("mount", d, "sys"),
                      Do("work"), Do("updategrub"),
                      At("umount", {d} \X {"proc", "sys"}) >>
FinishImage == << Do("work"), Do("finish"), Do("work") >>

-----------------------------------------------------------------------------
(* scripts/stage1 and scripts/stage2 *)

Stage2(j) == LET d == j.pv IN
    << In("mount", d, "proc"), In("mount", d, "sys"), Do("work") >>
    \o When(j.boot = "grub", << Do("board_09") >>)
    \o When(EFI(j), << Do("updategrub") >>)
    \o << Do("work"), At("umount", {d} \X {"proc", "sys"}) >>

BindDev(d) == << In("mount", d, "dev"), In("mount", d, "dev/pts") >>
UnbindDev(d) == << In("umount", d, "dev/pts"), In("umount", d, "dev") >>
BootBind(j, o) == When(j.pv = "p2", << In(o, "p2", "boot") >>)

Chroot(j) == BootBind(j, "mount") \o BindDev(j.pv) \o Stage2(j)
             \o UnbindDev(j.pv) \o BootBind(j, "umount")

\* From the last umount to rmdir, the same at the end of stage1 and of shrink.
TakeDown(j) ==
    When(j.pv = "p2", << OnDir("umount", "p2") >>) \o << OnDir("umount", "p1") >>
PutAway(j) ==
    << Do("detach"), Do("mvcwd"), OnDir("rmdir", "img"),
       OnDirs("rmdir", IF j.pv = "p1" THEN {"p1"} ELSE {"p1", "p2"}) >>

-----------------------------------------------------------------------------
(* lib/function/shrink *)

ShrinkOpen == << Do("mvshrink"), Do("kpartx"), Do("work") >>
BootDir(j) == IF EFI(j) THEN "EFI" ELSE "BOOT"
ShrinkMount(j) ==
    When(j.pv = "p2", << OnDir("mkdir", BootDir(j)) >>) \o << OnDir("mkdir", j.label) >>
    \o When(j.pv = "p2", << OnDir("mount", BootDir(j)) >>)
    \o << OnDir("mount", j.label), Do("work"), OnDir("mkdir", "img") >>
ShrinkUmount(j) ==
    When(j.pv = "p2", << OnDir("umount", BootDir(j)) >>) \o << OnDir("umount", j.label) >>
    \o When(j.pv = "p2", << OnDirs("rm", {"BOOT", "EFI"}) >>)
    \o << OnDir("rm", j.label), Do("kpartxd"), Do("rmshrink") >>
ShrinkGrub(j) ==
    When(EFI(j), << In("mount", "p2", "boot") >> \o BindDev("p2")
                 \o << Do("sedgrub") >> \o UpdateGrubSh("p2")
                 \o UnbindDev("p2") \o << In("umount", "p2", "boot") >>)
Shrink(j) == ShrinkOpen \o ShrinkMount(j) \o Partition(j) \o << Do("uuid"), Do("copy") >>
             \o ShrinkUmount(j) \o BootWriters(j) \o ShrinkGrub(j) \o << Do("fstab") >>
             \o TakeDown(j) \o << Do("work") >> \o PutAway(j)

Stage1(j) == << Do("work"), OnDir("mkdir", "img") >> \o Setup(j) \o Chroot(j)
             \o << Do("work") >> \o BootWriters(j) \o TakeDown(j) \o PutAway(j)
             \o When(j.shrink, Shrink(j)) \o FinishImage

-----------------------------------------------------------------------------
(* scripts/rootfs, scripts/rootfs-extra and lib/function/rootfs *)

\* sysroot_partition makes the file system before the directory.
SysrootPartition ==
    << Do("truncate"), Do("losetup"), Do("mkfs"), OnDir("mkdir", "sysroot"),
       OnDir("mount", "sysroot"), OnDir("umount", "sysroot"), OnDir("mount", "sysroot") >>
\* rootfs-extra has no set -e: only the status of its last command counts.
RootfsExtra ==
    << Soft(In("mount", "sysroot", "proc")), Soft(In("mount", "sysroot", "sys")),
       Soft(Do("work")), Soft(In("umount", "sysroot", "proc")),
       In("umount", "sysroot", "sys") >>
Rootfs ==
    << Do("work"), Do("havetar"), OnDir("mkdir", "img") >> \o SysrootPartition
    \o << Do("work") >> \o BindDev("sysroot") \o RootfsExtra \o UnbindDev("sysroot")
    \o << Do("work"), Do("tar"), Do("detach"), Do("rmimgfile"), OnDir("rmdir", "img"),
          OnDir("umount", "sysroot"), OnDir("rm", "sysroot"), Do("mvtar") >>

ScriptOf(j) == IF j.kind = "rootfs" THEN Rootfs ELSE Stage1(j)
=============================================================================
