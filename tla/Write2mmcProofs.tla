--------------------------- MODULE Write2mmcProofs ---------------------------
\* write2mmc for any set of disks: when no command fails the chosen disk
\* holds a system that names it, and whatever fails, rm -fdr /transfer
\* never finds the running system's /dev below it.  Both rest on how often
\* each point is mounted at each place of the script.
EXTENDS Write2mmc, TLAPS

\* Places of the script, from the end backwards.
Ended == {"rm", "complete"}
Fitted == {"initramfs", "initramfs_umount", "umount"} \union Ended
Booted == {"fstab"} \union Fitted
Grubbing == {"grub", "update_grub", "grub_umount"}
Flashed == {"ids", "bootcfg"} \union Grubbing \union Booted
Filled == {"asked", "flash"} \union Flashed

\* proc and sys stay mounted once when the GRUB script stopped half way.
Left == IF "grub" \in failed THEN 1 ELSE 0
Mounted(d, p, b, r) == /\ mounts["dev"] = d /\ mounts["pts"] = d
                       /\ mounts["proc"] = p /\ mounts["sys"] = p
                       /\ mounts["bootbind"] = b /\ mounts["run"] = r
InnerOK == /\ pc \in {"update_grub", "grub_umount"} => Mounted(1, Left, 1, 0)
           /\ pc = "initramfs_umount" => Mounted(1, 1 + Left, IF opt.p2 THEN 1 ELSE 0, 1)
           /\ pc \notin {"update_grub", "grub_umount", "initramfs_umount"} => Mounted(0, Left, 0, 0)
           /\ "grub" \in failed => pc \in {"grub_umount"} \union Booted
\* The two partitions of the new disk.
OuterOK == /\ pc \in {"ask", "partition"} => failed = {}
           /\ pc \notin {"transfer"} \union Filled => mounts["root"] = 0 /\ mounts["boot"] = 0
           /\ pc \in ({"transfer"} \union Filled) \ Ended =>
                /\ mounts["boot"] = IF opt.p2 THEN 1 ELSE 0
                /\ mounts["root"] = IF "mount" \in failed THEN 0 ELSE 1
           /\ pc \in Ended => /\ mounts["boot"] = 0 /\ mounts["root"] \in 0..1
                              /\ failed = {} => mounts["root"] = 0

FilesOK == /\ pc \in Filled /\ failed = {} => files["root"] = "copied"
           /\ pc \in Filled /\ opt.p2 /\ ~opt.efi => (failed = {} => files["boot"] = "copied")
           /\ (pc \in Grubbing => opt.efi) /\ (pc = "bootcfg" => ~opt.efi)
           /\ pc \in {"grub_umount"} \union Booted /\ opt.efi /\ failed = {} => files["boot"] = "copied"
NamesOK == /\ pc \in {"transfer", "partition", "asked"} => dev = node
           /\ pc = "flash" => dev = node \/ (node \notin MmcDisks /\ dev = Emmc)
           /\ pc \in Flashed => /\ dev = node
                                /\ opt.generic \/ uboot = node \/ (node \notin MmcDisks /\ uboot = Emmc)
           /\ pc \in Flashed \ {"ids"} => ids = node
           /\ pc \in {"grub_umount"} \union Booted /\ failed = {} => bootcfg = node
           /\ pc \in Fitted => fstab = node
TransferInv == TypeOK /\ InnerOK /\ OuterOK /\ FilesOK /\ NamesOK /\ HostSurvives

-----------------------------------------------------------------------------
\* The kernel's mounts

\* What the mounts of the transfer leave mounted.
LEMMA MountAllIs ==
    ASSUME NEW m \in [Points -> Nat], NEW ps
    PROVE  /\ MountAll(m, ps) \in [Points -> Nat]
           /\ \A q \in Points : MountAll(m, ps)[q] = m[q] + IF q \in ps THEN 1 ELSE 0
  BY DEF MountAll

\* The mount points, one by one.
LEMMA PointsAre == Points = {"dev", "pts", "proc", "sys", "run", "bootbind", "boot", "root"}
  BY DEF Points, Inner

\* umount changes its own point only, and that one only if nothing is mounted below.
LEMMA UmountIs ==
    ASSUME NEW m \in [Points -> Nat], NEW p \in Points
    PROVE  /\ Umount(m, p) \in [Points -> Nat]
           /\ \A q \in Points : q # p => Umount(m, p)[q] = m[q]
           /\ (\A q \in Under(p) : m[q] = 0) => Umount(m, p)[p] = IF m[p] > 0 THEN m[p] - 1 ELSE 0
           /\ Umount(m, p)[p] <= m[p]
  BY DEF Umount

\* A mount point with nothing mounted inside can be unmounted.
LEMMA UmountFree ==
    ASSUME NEW m \in [Points -> Nat], NEW p \in Points, p # "root", p = "dev" => m["pts"] = 0,
           NEW v \in Nat, m[p] = v + 1 \/ (m[p] = 0 /\ v = 0)
    PROVE  [m EXCEPT ![p] = v] = Umount(m, p) /\ [m EXCEPT ![p] = v] \in [Points -> Nat]
<1>1. \A q \in Under(p) : m[q] = 0 BY DEF Under
<1>2. CASE m[p] = v + 1 BY <1>1, <1>2 DEF Umount
<1>3. CASE m[p] = 0 /\ v = 0 BY <1>3 DEF Umount
<1> QED BY <1>2, <1>3

\* /dev/pts, /dev and /boot after GRUB.
LEMMA GrubUnbound ==
    ASSUME NEW m \in [Points -> Nat], m["dev"] = 1, m["pts"] = 1, m["bootbind"] = 1
    PROVE  Umount(UmountDev(m), "bootbind") =
               [m EXCEPT !["pts"] = 0, !["dev"] = 0, !["bootbind"] = 0]
<1> DEFINE m1 == [m EXCEPT !["pts"] = 0]
<1>1. m1 = Umount(m, "pts") /\ m1 \in [Points -> Nat] BY PointsAre, UmountFree
<1>2. m1["dev"] = m["dev"] /\ m1["bootbind"] = m["bootbind"] /\ m1["pts"] = 0 BY PointsAre
<1> HIDE DEF m1
<1> DEFINE m2 == [m1 EXCEPT !["dev"] = 0]
<1>3. m2 = Umount(m1, "dev") /\ m2 \in [Points -> Nat] BY <1>1, PointsAre, UmountFree
<1>4. m2["bootbind"] = m["bootbind"] BY <1>2
<1> HIDE DEF m2
<1> DEFINE m3 == [m2 EXCEPT !["bootbind"] = 0]
<1>5. m3 = Umount(m2, "bootbind") /\ m3 \in [Points -> Nat] BY <1>4, <1>3, PointsAre, UmountFree
<1> HIDE DEF m3
<1> QED BY <1>1, <1>3, <1>5 DEF UmountDev, m1, m2, m3

\* All of them after the initramfs: proc and sys keep what GRUB left behind.
LEMMA InitramfsUnbound ==
    ASSUME NEW m \in [Points -> Nat], NEW l \in Nat,
           m["dev"] = 1, m["pts"] = 1, m["bootbind"] \in {0, 1}, m["run"] = 1,
           m["proc"] = l + 1, m["sys"] = l + 1
    PROVE  Umount(Umount(Umount(UmountDev(Umount(m, "bootbind")), "proc"), "sys"), "run") =
               [m EXCEPT !["bootbind"] = 0, !["pts"] = 0, !["dev"] = 0, !["proc"] = l, !["sys"] = l, !["run"] = 0]
<1> DEFINE m1 == [m EXCEPT !["bootbind"] = 0]
<1>1. m1 = Umount(m, "bootbind") /\ m1 \in [Points -> Nat] BY PointsAre, UmountFree
<1>2. m1["pts"] = m["pts"] /\ m1["dev"] = m["dev"] /\ m1["proc"] = m["proc"] /\ m1["sys"] = m["sys"] /\ m1["run"] = m["run"]
  OBVIOUS
<1> HIDE DEF m1
<1> DEFINE m2 == [m1 EXCEPT !["pts"] = 0]
<1>3. m2 = Umount(m1, "pts") /\ m2 \in [Points -> Nat] BY <1>1, PointsAre, UmountFree
<1>4. m2["dev"] = m["dev"] /\ m2["proc"] = m["proc"] /\ m2["sys"] = m["sys"] /\ m2["run"] = m["run"] /\ m2["pts"] = 0
  BY <1>1, <1>2, PointsAre
<1> HIDE DEF m2
<1> DEFINE m3 == [m2 EXCEPT !["dev"] = 0]
<1>5. m3 = Umount(m2, "dev") /\ m3 \in [Points -> Nat] BY <1>4, <1>3, PointsAre, UmountFree
<1>6. m3["proc"] = m["proc"] /\ m3["sys"] = m["sys"] /\ m3["run"] = m["run"] BY <1>4
<1> HIDE DEF m3
<1> DEFINE m4 == [m3 EXCEPT !["proc"] = l]
<1>7. m4 = Umount(m3, "proc") /\ m4 \in [Points -> Nat] BY <1>6, <1>5, PointsAre, UmountFree
<1>8. m4["sys"] = m["sys"] /\ m4["run"] = m["run"] BY <1>6
<1> HIDE DEF m4
<1> DEFINE m5 == [m4 EXCEPT !["sys"] = l]
<1>9. m5 = Umount(m4, "sys") /\ m5 \in [Points -> Nat] BY <1>8, <1>7, PointsAre, UmountFree
<1>10. m5["run"] = m["run"] BY <1>8
<1> HIDE DEF m5
<1> DEFINE m6 == [m5 EXCEPT !["run"] = 0]
<1>11. m6 = Umount(m5, "run") /\ m6 \in [Points -> Nat] BY <1>10, <1>9, PointsAre, UmountFree
<1> HIDE DEF m6
<1>12. m6 = [m EXCEPT !["bootbind"] = 0, !["pts"] = 0, !["dev"] = 0, !["proc"] = l, !["sys"] = l, !["run"] = 0]
  BY DEF m1, m2, m3, m4, m5, m6
<1> QED BY <1>1, <1>3, <1>5, <1>7, <1>9, <1>11, <1>12 DEF UmountDev

\* Every step keeps the invariant.
LEMMA TransferStep == ASSUME TransferInv, [Next]_vars PROVE TransferInv'
<1> USE DEF TransferInv, Step, target, Ended, Fitted, Booted, Grubbing, Flashed, Filled
<1>0. ASSUME mounts' \in [Points -> Nat], InnerOK', OuterOK'
      PROVE  mounts' \in [Points -> 0..2] /\ mounts'["root"] \in 0..1 /\ mounts'["boot"] \in 0..1
  BY <1>0, PointsAre DEF InnerOK, OuterOK, Mounted, Left
<1>1. CASE UNCHANGED vars
  BY <1>1 DEF vars, TypeOK, InnerOK, OuterOK, FilesOK, NamesOK, HostSurvives, Mounted, Left
<1>2. CASE Choose
  <2>1. InnerOK' /\ OuterOK' BY <1>2 DEF InnerOK, OuterOK, Mounted, Left, Choose
  <2>2. TypeOK' BY <1>2 DEF TypeOK, DiskOrNone, Choose
  <2>3. FilesOK' BY <1>2 DEF FilesOK, Choose
  <2>4. NamesOK' /\ HostSurvives' BY <1>2 DEF NamesOK, HostSurvives, Choose
  <2> QED BY <2>1, <2>2, <2>3, <2>4
<1>3. CASE Decline
  <2>1. InnerOK' /\ OuterOK' BY <1>3 DEF InnerOK, OuterOK, Mounted, Left, Decline
  <2>2. TypeOK' BY <1>3 DEF TypeOK, Decline
  <2>3. FilesOK' BY <1>3 DEF FilesOK, Decline
  <2>4. NamesOK' /\ HostSurvives' BY <1>3 DEF NamesOK, HostSurvives, Decline
  <2> QED BY <2>1, <2>2, <2>3, <2>4
<1>4. CASE Partition
  <2>1. mounts' \in [Points -> Nat] /\ InnerOK' /\ OuterOK'
    <3>1. CASE opt.p2
      BY <1>4, MountAllIs, PointsAre DEF TypeOK, Inner, InnerOK, OuterOK, Mounted, Left,
         Partition
    <3>2. CASE ~opt.p2
      BY <1>4, MountAllIs, PointsAre DEF TypeOK, Inner, InnerOK, OuterOK, Mounted, Left,
         Partition
    <3> QED BY <3>1, <3>2
  <2>2. TypeOK' BY <1>4, <1>0, <2>1 DEF TypeOK, Partition
  <2>3. FilesOK' /\ NamesOK' /\ HostSurvives' BY <1>4 DEF FilesOK, NamesOK, HostSurvives, Partition
  <2> QED BY <2>1, <2>2, <2>3
<1>5. CASE PartitionUnmounted
  <2>1. mounts' \in [Points -> Nat] /\ InnerOK' /\ OuterOK'
    BY <1>5, MountAllIs, PointsAre DEF TypeOK, InnerOK, OuterOK, Mounted, Left,
       PartitionUnmounted
  <2>2. TypeOK' BY <1>5, <1>0, <2>1 DEF TypeOK, PartitionUnmounted
  <2>3. FilesOK' /\ NamesOK' /\ HostSurvives'
    BY <1>5 DEF FilesOK, NamesOK, HostSurvives, PartitionUnmounted
  <2> QED BY <2>1, <2>2, <2>3
<1>6. CASE PartitionMissing
  <2>1. InnerOK' /\ OuterOK' BY <1>6 DEF InnerOK, OuterOK, Mounted, Left, PartitionMissing
  <2>2. TypeOK' BY <1>6 DEF TypeOK, PartitionMissing
  <2>3. FilesOK' BY <1>6 DEF FilesOK, PartitionMissing
  <2>4. NamesOK' /\ HostSurvives' BY <1>6 DEF NamesOK, HostSurvives, PartitionMissing
  <2> QED BY <2>1, <2>2, <2>3, <2>4
<1>7. CASE Transfer
  <2>1. InnerOK' /\ OuterOK' BY <1>7 DEF InnerOK, OuterOK, Mounted, Left, Transfer
  <2>2. TypeOK' BY <1>7, DiskAssumption DEF TypeOK, DiskOrNone, Content, Transfer
  <2>3. FilesOK' BY <1>7 DEF OuterOK, FilesOK, Transfer
  <2>4. NamesOK' /\ HostSurvives' BY <1>7 DEF NamesOK, HostSurvives, Transfer
  <2> QED BY <2>1, <2>2, <2>3, <2>4
<1>8. CASE AskEmmc
  <2>1. InnerOK' /\ OuterOK' BY <1>8 DEF InnerOK, OuterOK, Mounted, Left, AskEmmc
  <2>2. TypeOK' BY <1>8, DiskAssumption DEF TypeOK, DiskOrNone, AskEmmc
  <2>3. FilesOK' BY <1>8 DEF FilesOK, AskEmmc
  <2>4. NamesOK' /\ HostSurvives' BY <1>8 DEF NamesOK, HostSurvives, AskEmmc
  <2> QED BY <2>1, <2>2, <2>3, <2>4
<1>9. CASE FlashUboot
  <2>1. InnerOK' /\ OuterOK' BY <1>9 DEF InnerOK, OuterOK, Mounted, Left, FlashUboot
  <2>2. TypeOK' BY <1>9 DEF TypeOK, FlashUboot
  <2>3. FilesOK' BY <1>9 DEF FilesOK, FlashUboot
  <2>4. NamesOK' /\ HostSurvives' BY <1>9 DEF NamesOK, HostSurvives, FlashUboot
  <2> QED BY <2>1, <2>2, <2>3, <2>4
<1>10. CASE ReadIds
  <2>1. InnerOK' /\ OuterOK' BY <1>10 DEF InnerOK, OuterOK, Mounted, Left, ReadIds
  <2>2. TypeOK' BY <1>10 DEF TypeOK, ReadIds
  <2>3. FilesOK' BY <1>10 DEF FilesOK, ReadIds
  <2>4. NamesOK' /\ HostSurvives' BY <1>10 DEF NamesOK, HostSurvives, ReadIds
  <2> QED BY <2>1, <2>2, <2>3, <2>4
<1>11. CASE BootConfig
  <2>1. InnerOK' /\ OuterOK' BY <1>11 DEF InnerOK, OuterOK, Mounted, Left, BootConfig
  <2>2. TypeOK' BY <1>11 DEF TypeOK, BootConfig
  <2>3. FilesOK' BY <1>11 DEF FilesOK, BootConfig
  <2>4. NamesOK' /\ HostSurvives' BY <1>11 DEF NamesOK, HostSurvives, BootConfig
  <2> QED BY <2>1, <2>2, <2>3, <2>4
<1>12. CASE GrubBinds
  <2>1. mounts' \in [Points -> Nat] /\ InnerOK' /\ OuterOK'
    BY <1>12, MountAllIs, PointsAre DEF TypeOK, InnerOK, OuterOK, Mounted, Left, GrubBinds
  <2>2. TypeOK' BY <1>12, <1>0, <2>1 DEF TypeOK, GrubBinds
  <2>3. FilesOK' /\ NamesOK' /\ HostSurvives' BY <1>12 DEF FilesOK, NamesOK, HostSurvives, GrubBinds
  <2> QED BY <2>1, <2>2, <2>3
<1>13. CASE UpdateGrub
  <2>1. InnerOK' /\ OuterOK' BY <1>13 DEF InnerOK, OuterOK, Mounted, Left, UpdateGrub
  <2>2. TypeOK' BY <1>13 DEF TypeOK, Content, UpdateGrub
  <2>3. FilesOK' BY <1>13 DEF TypeOK, FilesOK, UpdateGrub
  <2>4. NamesOK' /\ HostSurvives' BY <1>13 DEF NamesOK, HostSurvives, UpdateGrub
  <2> QED BY <2>1, <2>2, <2>3, <2>4
<1>14. CASE UpdateGrubFails
  <2>1. mounts' \in [Points -> Nat] /\ InnerOK' /\ OuterOK'
    BY <1>14, MountAllIs, PointsAre DEF TypeOK, InnerOK, OuterOK, Mounted, Left, UpdateGrubFails
  <2>2. TypeOK' BY <1>14, <1>0, <2>1 DEF TypeOK, UpdateGrubFails
  <2>3. FilesOK' /\ NamesOK' /\ HostSurvives'
    BY <1>14 DEF FilesOK, NamesOK, HostSurvives, UpdateGrubFails
  <2> QED BY <2>1, <2>2, <2>3
<1>15. CASE GrubUmounts
  <2>1. mounts' \in [Points -> Nat] /\ InnerOK' /\ OuterOK'
    <3>1. mounts \in [Points -> Nat] /\ Mounted(1, Left, 1, 0)
      BY <1>15 DEF TypeOK, InnerOK, GrubUmounts
    <3>2. mounts' = [mounts EXCEPT !["pts"] = 0, !["dev"] = 0, !["bootbind"] = 0]
      BY <1>15, <3>1, GrubUnbound DEF GrubUmounts, Mounted
    <3>3. mounts' \in [Points -> Nat] /\ Mounted(0, Left, 0, 0)'
      BY <1>15, <3>1, <3>2, PointsAre DEF Mounted, Left, GrubUmounts
    <3> QED BY <1>15, <3>2, <3>3, PointsAre DEF InnerOK, OuterOK, GrubUmounts
  <2>2. TypeOK' BY <1>15, <1>0, <2>1 DEF TypeOK, GrubUmounts
  <2>3. FilesOK' /\ NamesOK' /\ HostSurvives' BY <1>15 DEF FilesOK, NamesOK, HostSurvives, GrubUmounts
  <2> QED BY <2>1, <2>2, <2>3
<1>16. CASE Fstab
  <2>1. InnerOK' /\ OuterOK' BY <1>16 DEF InnerOK, OuterOK, Mounted, Left, Fstab
  <2>2. TypeOK' BY <1>16 DEF TypeOK, Fstab
  <2>3. FilesOK' BY <1>16 DEF FilesOK, Fstab
  <2>4. NamesOK' /\ HostSurvives' BY <1>16 DEF NamesOK, HostSurvives, Fstab
  <2> QED BY <2>1, <2>2, <2>3, <2>4
<1>17. CASE InitramfsBinds
  <2>1. mounts' \in [Points -> Nat] /\ InnerOK' /\ OuterOK'
    <3>1. CASE opt.p2
      BY <1>17, MountAllIs, PointsAre DEF TypeOK, Inner, InnerOK, OuterOK, Mounted, Left,
         InitramfsBinds
    <3>2. CASE ~opt.p2
      BY <1>17, MountAllIs, PointsAre DEF TypeOK, Inner, InnerOK, OuterOK, Mounted, Left,
         InitramfsBinds
    <3> QED BY <3>1, <3>2
  <2>2. TypeOK' BY <1>17, <1>0, <2>1, DiskAssumption DEF TypeOK, InitramfsBinds
  <2>3. FilesOK' /\ NamesOK' /\ HostSurvives'
    BY <1>17 DEF FilesOK, NamesOK, HostSurvives, InitramfsBinds
  <2> QED BY <2>1, <2>2, <2>3
<1>18. CASE InitramfsUmounts
  <2>1. mounts' \in [Points -> Nat] /\ InnerOK' /\ OuterOK'
    <3>1. mounts \in [Points -> Nat] /\ Mounted(1, 1 + Left, IF opt.p2 THEN 1 ELSE 0, 1) /\ Left \in Nat
      BY <1>18 DEF TypeOK, InnerOK, Left, InitramfsUmounts
    <3>2. mounts' = [mounts EXCEPT !["bootbind"] = 0, !["pts"] = 0, !["dev"] = 0,
                                   !["proc"] = Left, !["sys"] = Left, !["run"] = 0]
      <4>1. /\ mounts["dev"] = 1 /\ mounts["pts"] = 1 /\ mounts["run"] = 1 /\ mounts["bootbind"] \in {0, 1}
            /\ mounts["proc"] = Left + 1 /\ mounts["sys"] = Left + 1
        BY <3>1 DEF Mounted
      <4> QED BY <1>18, <3>1, <4>1, InitramfsUnbound DEF InitramfsUmounts
    <3>3. mounts' \in [Points -> Nat] /\ Mounted(0, Left, 0, 0)'
      BY <1>18, <3>1, <3>2, PointsAre DEF Mounted, Left, InitramfsUmounts
    <3> QED BY <1>18, <3>2, <3>3, PointsAre DEF InnerOK, OuterOK, InitramfsUmounts
  <2>2. TypeOK' BY <1>18, <1>0, <2>1 DEF TypeOK, InitramfsUmounts
  <2>3. FilesOK' /\ NamesOK' /\ HostSurvives'
    BY <1>18 DEF FilesOK, NamesOK, HostSurvives, InitramfsUmounts
  <2> QED BY <2>1, <2>2, <2>3
<1>19. CASE UmountTarget
  <2>1. mounts' \in [Points -> Nat] /\ InnerOK' /\ OuterOK'
    <3>1. mounts \in [Points -> Nat] /\ Mounted(0, Left, 0, 0) /\ mounts["boot"] \in {0, 1} /\ mounts["root"] \in {0, 1}
      BY <1>19 DEF TypeOK, InnerOK, UmountTarget
    <3> DEFINE m == [mounts EXCEPT !["boot"] = 0]
    <3>2. m = Umount(mounts, "boot") /\ m \in [Points -> Nat] BY <3>1, PointsAre, UmountFree
    <3>3. m["dev"] = 0 /\ m["pts"] = 0 /\ m["proc"] = Left /\ m["sys"] = Left /\ m["bootbind"] = 0 /\ m["run"] = 0
          /\ m["boot"] = 0 /\ m["root"] \in {0, 1}
      BY <3>1, PointsAre DEF Mounted
    <3> HIDE DEF m
    <3>4. mounts' = Umount(m, "root") BY <1>19, <3>2 DEF UmountTarget
    <3>5. mounts' \in [Points -> Nat] /\ mounts'["root"] \in 0..1 /\ \A q \in Points : q # "root" => mounts'[q] = m[q]
      <4>1. "root" \in Points BY PointsAre
      <4> QED BY <3>2, <3>3, <3>4, <4>1, UmountIs
    <3>6. failed = {} => mounts'["root"] = 0
      <4>1. failed = {} => \A q \in Under("root") : m[q] = 0 BY <3>3 DEF Under, Inner, Left
      <4>2. "root" \in Points BY PointsAre
      <4> QED BY <3>2, <3>3, <3>4, <4>1, <4>2, UmountIs
    <3> QED BY <1>19, <3>3, <3>5, <3>6, PointsAre DEF InnerOK, OuterOK, Mounted, Left, UmountTarget
  <2>2. TypeOK' BY <1>19, <1>0, <2>1 DEF TypeOK, UmountTarget
  <2>3. FilesOK' /\ NamesOK' /\ HostSurvives'
    BY <1>19 DEF FilesOK, NamesOK, HostSurvives, UmountTarget
  <2> QED BY <2>1, <2>2, <2>3
<1>20. CASE RmTransfer
  <2>1. InnerOK' /\ OuterOK' BY <1>20 DEF InnerOK, OuterOK, Mounted, Left, RmTransfer
  <2>2. TypeOK' BY <1>20 DEF TypeOK, Content, RmTransfer
  <2>3. FilesOK'
    <3>1. failed = {} => ~Reached("root") /\ ~Reached("boot")
      BY <1>20 DEF InnerOK, OuterOK, Mounted, Reached, RmTransfer
    <3>2. DOMAIN files = {"boot", "root"} BY DEF TypeOK
    <3> QED BY <1>20, <3>1, <3>2 DEF FilesOK, RmTransfer
  <2>4. NamesOK' /\ HostSurvives'
    <3>1. NamesOK' BY <1>20 DEF NamesOK, RmTransfer
    <3>2. mounts["dev"] = 0 /\ mounts["pts"] = 0 BY <1>20 DEF InnerOK, Mounted, RmTransfer
    <3> QED BY <1>20, <3>1, <3>2 DEF HostSurvives, RmTransfer
  <2> QED BY <2>1, <2>2, <2>3, <2>4
<1> QED BY <1>1, <1>2, <1>3, <1>4, <1>5, <1>6, <1>7, <1>8, <1>9, <1>10, <1>11, <1>12, <1>13, <1>14,
     <1>15, <1>16, <1>17, <1>18, <1>19, <1>20 DEF Next, Done

\* A fresh system satisfies the invariant.
LEMMA TransferBegins == Init => TransferInv
<1> SUFFICES ASSUME Init PROVE TransferInv OBVIOUS
<1>1. TypeOK
  <2>1. opt \in [efi : BOOLEAN, generic : BOOLEAN, p2 : BOOLEAN] /\ devfs \in BOOLEAN BY DEF Init
  <2>2. mounts \in [Points -> 0..2] /\ mounts["root"] \in 0..1 /\ mounts["boot"] \in 0..1
    BY PointsAre DEF Init
  <2>3. {node, dev, fstab, bootcfg, uboot, ids} \subseteq DiskOrNone /\ files \in [{"boot", "root"} -> Content]
    BY DEF Init, DiskOrNone, Content
  <2> QED BY <2>2, <2>3 DEF Init, TypeOK
<1>2. InnerOK /\ OuterOK
  BY PointsAre DEF Init, InnerOK, OuterOK, Mounted, Left, Fitted, Booted, Grubbing, Flashed,
     Filled
<1>3. FilesOK /\ NamesOK /\ HostSurvives
  BY DEF Init, FilesOK, NamesOK, HostSurvives, Ended, Fitted, Booted, Grubbing, Flashed, Filled
<1> QED BY <1>1, <1>2, <1>3 DEF TransferInv

\* Write2mmc's type invariant: no point is ever mounted three times, and the
\* two partitions never twice.
THEOREM TransferTyping == Spec => []TypeOK
  BY TransferBegins, TransferStep, PTL DEF Spec, TransferInv

\* write2mmc:824,831: whatever fails of copying, mounting the root and GRUB,
\* rm -fdr finds neither /dev nor /dev/pts mounted below /transfer.
THEOREM DevSurvives == Spec => []HostSurvives
  BY TransferBegins, TransferStep, PTL DEF Spec, TransferInv

\* write2mmc:346-838: for any disks, when no command fails the chosen disk holds
\* the system, and fstab, boot configuration and U-Boot name that disk.
THEOREM TransferSucceeds == Spec => []SuccessTransfers
<1>1. TransferInv => SuccessTransfers
  BY DEF TransferInv, FilesOK, NamesOK, SuccessTransfers, Transferred, Ended, Fitted, Booted,
     Flashed, Filled
<1> QED BY <1>1, TransferBegins, TransferStep, PTL DEF Spec
=============================================================================
