------------------------------ MODULE Write2mmc ------------------------------
(***************************************************************************)
(* files/scripts/write2mmc: copy the running system to another block       *)
(* device.  The script has no errexit: a command that fails is passed over *)
(* and the next one runs.  The device is partitioned and mounted below     *)
(* /transfer, filled, made bootable in a chroot, unmounted, and /transfer  *)
(* is removed with rm -fdr.                                                *)
(***************************************************************************)
EXTENDS Naturals

CONSTANTS Disks,   \* the block devices of the board
          Current, \* the one the root file system is on
          Emmc,    \* the one with a boot0 partition
          MmcDisks,\* the ones that are not sd* or nvme*
          Faults   \* the commands that may fail

ASSUME DiskAssumption == /\ Current \in Disks /\ MmcDisks \subseteq Disks
                         /\ Emmc \in MmcDisks
                         /\ Faults \subseteq {"mount", "copy", "grub"}

None == "none"
\* Below /transfer: the two partitions, and the mounts inside the new root.
Inner == {"dev", "pts", "proc", "sys", "run", "bootbind"}
Points == Inner \union {"boot", "root"}

VARIABLES opt,     \* EFI, generic FAMILY, P_VALUE
          node,    \* USER_DEVICE_NODE: what the user chose
          dev,     \* DEVICE_NODE
          mounts,  \* how many times each point is mounted
          files,   \* what the new partitions hold
          fstab, bootcfg, \* the disk that each one names
          uboot,   \* the disk U-Boot was written to
          ids,     \* the disk that the UUIDs were read from
          devfs,   \* the running system's /dev is intact
          failed,  \* the commands that failed
          pc

vars == <<opt, node, dev, mounts, files, fstab, bootcfg, uboot, ids, devfs, failed, pc>>
target == <<files, fstab, bootcfg>>

Content == {None, "partial", "copied", "erased"}
DiskOrNone == Disks \union {None}
TypeOK == /\ opt \in [efi : BOOLEAN, generic : BOOLEAN, p2 : BOOLEAN]
          /\ {node, dev, fstab, bootcfg, uboot, ids} \subseteq DiskOrNone
          /\ mounts \in [Points -> 0..2] /\ mounts["root"] \in 0..1 /\ mounts["boot"] \in 0..1
          /\ files \in [{"boot", "root"} -> Content]
          /\ devfs \in BOOLEAN /\ failed \subseteq Faults

Step(a, b) == pc = a /\ pc' = b

-----------------------------------------------------------------------------
(* Mounting: what the kernel does *)

MountAll(m, ps) == [q \in Points |-> m[q] + IF q \in ps THEN 1 ELSE 0]
\* What must be unmounted before p can be.
Under(p) == CASE p = "root" -> Inner [] p = "dev" -> {"pts"} [] OTHER -> {}
\* umount takes the topmost mount away, or fails and is passed over.
Umount(m, p) == IF m[p] > 0 /\ \A q \in Under(p) : m[q] = 0 THEN [m EXCEPT ![p] = @ - 1] ELSE m
UmountDev(m) == Umount(Umount(m, "pts"), "dev")

-----------------------------------------------------------------------------
(* Questions *)

\* A device that is in use is refused; so are answers that make no sense.
Choose == /\ Step("ask", "partition")
          /\ \E d \in Disks \ {Current} : node' = d /\ dev' = d
          /\ \E e, g, p \in BOOLEAN :
                /\ e => p
                /\ opt' = [efi |-> e, generic |-> g, p2 |-> p]
          /\ UNCHANGED <<mounts, target, uboot, ids, devfs, failed>>
Decline == Step("ask", "exit") /\ UNCHANGED <<opt, node, dev, mounts, target, uboot, ids, devfs, failed>>

-----------------------------------------------------------------------------
(* one_partition, two_partitions and transfer *)

\* Mutant: the root is not unmounted before it is mounted with its options.
PartitionTwice == /\ Step("partition", "transfer")
                  /\ mounts' = MountAll(MountAll(mounts, {"root"}), {"root"})
                  /\ UNCHANGED <<opt, node, dev, target, uboot, ids, devfs, failed>>
Partition == /\ Step("partition", "transfer")
             /\ mounts' = MountAll(mounts, IF opt.p2 THEN {"boot", "root"} ELSE {"root"})
             /\ UNCHANGED <<opt, node, dev, target, uboot, ids, devfs, failed>>
\* The last mount of the root partition fails: the copy fills the source.
PartitionUnmounted == /\ Step("partition", "transfer") /\ "mount" \in Faults
                      /\ failed' = failed \union {"mount"}
                      /\ mounts' = MountAll(mounts, IF opt.p2 THEN {"boot"} ELSE {})
                      /\ UNCHANGED <<opt, node, dev, target, uboot, ids, devfs>>
\* The node of the partition does not appear.
PartitionMissing == Step("partition", "exit")
                    /\ UNCHANGED <<opt, node, dev, mounts, target, uboot, ids, devfs, failed>>

\* Without EFI the boot partition takes over the contents of /boot.  The
\* copied files still name the disk that they came from.
Transfer == /\ Step("transfer", "asked")
            /\ \E c \in {"copied"} \union (IF "copy" \in Faults THEN {"partial"} ELSE {}) :
                 /\ failed' = IF c = "partial" THEN failed \union {"copy"} ELSE failed
                 /\ files' = [root |-> IF mounts["root"] > 0 THEN c ELSE None,
                              boot |-> IF opt.p2 /\ ~opt.efi THEN "copied" ELSE None]
            /\ fstab' = Current /\ bootcfg' = Current
            /\ UNCHANGED <<opt, node, dev, mounts, uboot, ids, devfs>>

-----------------------------------------------------------------------------
(* flash_uboot, for a moment on another DEVICE_NODE *)

AskEmmc == /\ Step("asked", "flash")
           /\ \/ node \notin MmcDisks /\ dev' = Emmc
              \/ UNCHANGED dev
           /\ UNCHANGED <<opt, node, mounts, target, uboot, ids, devfs, failed>>
\* Mutant: DEVICE_NODE stays what it was for U-Boot.
FlashUbootStay == /\ Step("flash", "ids")
                  /\ uboot' = IF opt.generic THEN uboot ELSE dev
                  /\ UNCHANGED <<opt, node, dev, mounts, target, ids, devfs, failed>>
FlashUboot == /\ Step("flash", "ids")
              /\ uboot' = IF opt.generic THEN uboot ELSE dev
              /\ dev' = node
              /\ UNCHANGED <<opt, node, mounts, target, ids, devfs, failed>>

ReadIds == Step("ids", IF opt.efi THEN "grub" ELSE "bootcfg") /\ ids' = dev
           /\ UNCHANGED <<opt, node, dev, mounts, target, uboot, devfs, failed>>

-----------------------------------------------------------------------------
(* p1_boot and p2_boot *)

\* extlinux.conf, the Env.txt or boot.scr: edited in the copied files.
BootConfig == /\ Step("bootcfg", "fstab") /\ bootcfg' = ids
              /\ UNCHANGED <<opt, node, dev, mounts, files, fstab, uboot, ids, devfs, failed>>
GrubBinds == /\ Step("grub", "update_grub")
             /\ mounts' = MountAll(mounts, {"bootbind", "dev", "pts"})
             /\ UNCHANGED <<opt, node, dev, target, uboot, ids, devfs, failed>>
\* update_grub.sh, with errexit: it mounts proc and sys and unmounts them last.
UpdateGrub == /\ Step("update_grub", "grub_umount")
              /\ bootcfg' = ids /\ files' = [files EXCEPT !["boot"] = "copied"]
              /\ UNCHANGED <<opt, node, dev, mounts, fstab, uboot, ids, devfs, failed>>
\* grub-install or update-grub fails: proc and sys stay mounted.
UpdateGrubFails == /\ Step("update_grub", "grub_umount") /\ "grub" \in Faults
                   /\ failed' = failed \union {"grub"}
                   /\ mounts' = MountAll(mounts, {"proc", "sys"})
                   /\ UNCHANGED <<opt, node, dev, target, uboot, ids, devfs>>
\* Mutant: /dev is unmounted while /dev/pts is still mounted on it.
GrubUmountsSwapped ==
    /\ Step("grub_umount", "fstab")
    /\ mounts' = Umount(Umount(Umount(mounts, "dev"), "pts"), "bootbind")
    /\ UNCHANGED <<opt, node, dev, target, uboot, ids, devfs, failed>>
GrubUmounts == /\ Step("grub_umount", "fstab")
               /\ mounts' = Umount(UmountDev(mounts), "bootbind")
               /\ UNCHANGED <<opt, node, dev, target, uboot, ids, devfs, failed>>
Fstab == /\ Step("fstab", "initramfs") /\ fstab' = ids
         /\ UNCHANGED <<opt, node, dev, mounts, files, bootcfg, uboot, ids, devfs, failed>>

-----------------------------------------------------------------------------
(* update_initramfs *)

InitramfsBinds == /\ Step("initramfs", "initramfs_umount")
                  /\ mounts' = MountAll(mounts, Inner \ IF opt.p2 THEN {} ELSE {"bootbind"})
                  /\ UNCHANGED <<opt, node, dev, target, uboot, ids, devfs, failed>>
\* Whether update-initramfs succeeds makes no difference to what follows.
InitramfsUmounts ==
    /\ Step("initramfs_umount", "umount")
    /\ LET m == Umount(mounts, "bootbind")
       IN  mounts' = Umount(Umount(Umount(UmountDev(m), "proc"), "sys"), "run")
    /\ UNCHANGED <<opt, node, dev, target, uboot, ids, devfs, failed>>

-----------------------------------------------------------------------------
(* The end *)

UmountTarget == /\ Step("umount", "rm")
                /\ mounts' = Umount(Umount(mounts, "boot"), "root")
                /\ UNCHANGED <<opt, node, dev, target, uboot, ids, devfs, failed>>
\* rm -fdr /transfer goes wherever something is still mounted.
Reached(p) == mounts[p] > 0 \/ (p = "boot" /\ mounts["bootbind"] > 0)
RmTransfer == /\ Step("rm", "complete")
              /\ files' = [p \in DOMAIN files |-> IF Reached(p) THEN "erased" ELSE files[p]]
              /\ devfs' = (devfs /\ mounts["dev"] = 0 /\ mounts["pts"] = 0)
              /\ UNCHANGED <<opt, node, dev, mounts, fstab, bootcfg, uboot, ids, failed>>

Done == pc \in {"complete", "exit"} /\ UNCHANGED vars

Init == /\ opt = [efi |-> FALSE, generic |-> FALSE, p2 |-> FALSE]
        /\ node = None /\ dev = None /\ mounts = [p \in Points |-> 0]
        /\ files = [root |-> None, boot |-> None] /\ fstab = None /\ bootcfg = None
        /\ uboot = None /\ ids = None /\ devfs = TRUE /\ failed = {} /\ pc = "ask"

Next == \/ Choose \/ Decline \/ Partition \/ PartitionUnmounted \/ PartitionMissing
        \/ Transfer \/ AskEmmc \/ FlashUboot \/ ReadIds \/ BootConfig \/ GrubBinds
        \/ UpdateGrub \/ UpdateGrubFails \/ GrubUmounts \/ Fstab \/ InitramfsBinds
        \/ InitramfsUmounts \/ UmountTarget \/ RmTransfer \/ Done
Spec == Init /\ [][Next]_vars

-----------------------------------------------------------------------------
(* Properties *)

\* The chosen device holds the system, and everything on it that names a disk
\* names this one.
Transferred == /\ files["root"] = "copied"
               /\ opt.p2 => files["boot"] = "copied"
               /\ fstab = node /\ bootcfg = node
               /\ opt.generic \/ uboot = node \/ (node \notin MmcDisks /\ uboot = Emmc)

\* write2mmc:346-838: when no command fails, the script ends with a system that
\* boots from the chosen device, also when U-Boot went to the eMMC in between.
SuccessTransfers == pc = "complete" /\ failed = {} => Transferred

\* write2mmc:824,831: whatever fails of copying, mounting the root and GRUB,
\* rm -fdr never walks into the running system's own /dev.
HostSurvives == devfs

\* write2mmc:836 "Transfer complete." is what the script says at its end.
CompleteMeansTransferred == pc = "complete" => Transferred
=============================================================================
