----------------------------- MODULE Workspace -----------------------------
(***************************************************************************)
(* The builder's working directory while `make rootfs` and `make image`    *)
(* run in it: the directories the scripts create, what is mounted in them, *)
(* the loop devices and device-mapper maps behind the mounts, and the      *)
(* image and tarball files on their way to output/.                        *)
(*                                                                         *)
(* scripts/rootfs and scripts/stage1 are straight lines of commands run    *)
(* under `set -eu -o pipefail`.  A job is one invocation of either; its    *)
(* commands are the sequence Script[job] (module BuildScripts).  This      *)
(* module says what each kind of command does to the host, that any of     *)
(* them may fail and end the job where it stands, and what scripts/clean   *)
(* does, by hand or at the start of the next job.                          *)
(***************************************************************************)
EXTENDS Naturals, Sequences, FiniteSets

CONSTANTS Names,   \* image / tarball work file names (IMAGE_FILE_NAME)
          Jobs,    \* the invocations the user may make
          Script   \* the commands of each job

\* The directories of lib/function/{staging,shrink,rootfs}.  A root file
\* system label is the distribution's name in upper case (staging:11).
Labels == {"BIANBU", "DEBIAN", "DEVUAN", "KALI", "UBUNTU"}
Dirs == {"img", "p1", "p2", "sysroot", "BOOT", "EFI"} \cup Labels
\* Where something can be mounted in such a directory: on the directory
\* itself, or below it once a root file system is mounted there.
Subs == {"", "dev", "dev/pts", "proc", "sys", "boot"}
MountPoints == Dirs \X Subs
Under(d) == {d} \X Subs
Inside(d) == Under(d) \ {<<d, "">>}
Below(m) == IF m[2] = "" THEN Inside(m[1])
            ELSE IF m[2] = "dev" THEN {<<m[1], "dev/pts">>} ELSE {}

Ops == {"mkdir", "rmdir", "mount", "umount", "rm", "truncate", "losetup",
        "detach", "mkfs", "uuid", "fstab", "bootcfg", "board_09",
        "updategrub", "sedgrub", "work", "mvcwd", "mvshrink", "kpartx",
        "kpartxd", "rmshrink", "copy", "finish", "needtar", "havetar",
        "tar", "rmimgfile", "mvtar"}
\* at: the directories or mount points a command works on; soft: the script
\* it stands in has no set -e, so its failure goes unnoticed.
Command == [op : Ops, at : SUBSET MountPoints, soft : BOOLEAN]
DirsOf(c) == {m[1] : m \in c.at}

\* An image as its boot chain sees it.  Generation gen names the partition
\* table and file systems (UUID, PARTUUID) that mkfs and parted made; the
\* other fields hold the generation a file inside the image refers to, 0
\* when the file does not exist.
Image == [gen : Nat, fstab : Nat, boot : Nat, entry : Nat]
NoImage == [gen |-> 0, fstab |-> 0, boot |-> 0, entry |-> 0]
Tar == {"none", "partial", "polluted", "pure"}

(* What can be read off a script without running it, for the first i - 1   *)
(* commands of s having run.                                               *)

Unmounts(c, m) ==
    c.op = "umount" /\ ~c.soft /\ (m \in c.at \/ <<m[1], "">> \in c.at)
MaybeMounted(s, i) ==
    {m \in MountPoints : \E k \in 1..(i - 1) :
        /\ s[k].op = "mount" /\ m \in s[k].at
        /\ \A n \in (k + 1)..(i - 1) : ~Unmounts(s[n], m)}
MaybeMapped(s, i) ==
    \E k \in 1..(i - 1) :
        /\ s[k].op = "kpartx"
        /\ \A n \in (k + 1)..(i - 1) : ~(s[n].op = "kpartxd" /\ ~s[n].soft)
Removes(c, d) == c.op \in {"rmdir", "rm"} /\ d \in DirsOf(c)
SureDir(s, i, d) ==
    \E k \in 1..(i - 1) :
        /\ s[k].op = "mkdir" /\ ~s[k].soft /\ d \in DirsOf(s[k])
        /\ \A n \in (k + 1)..(i - 1) : ~Removes(s[n], d)
SureShrink(s, i) ==
    \E k \in 1..(i - 1) :
        /\ s[k].op = "mvshrink" /\ ~s[k].soft
        /\ \A n \in (k + 1)..(i - 1) : s[n].op # "rmshrink"

\* The directories scripts/clean unmounts lazily and then removes (clean:7-8).
CleanDirs == {"p1", "p2", "sysroot", "BOOT", "EFI"} \cup Labels
\* The directories whose presence makes stage1 and rootfs clean up first.
GateDirs == {"sysroot", "p1", "BOOT"}

\* What the scripts respect, so that stopping them anywhere is safe: they
\* mount only where clean unmounts; they rm -fdr and rmdir nothing that may
\* be mounted; while something may be mounted there is a directory (or
\* shrink.img) that the next job's gate will see, and while shrink.img may
\* be mapped it exists; they end with nothing mounted or mapped.
WellOrdered(s) ==
    /\ \A i \in 1..Len(s) :
        /\ s[i].op = "mount" => DirsOf(s[i]) \subseteq CleanDirs
        /\ s[i].op = "rm" => \A m \in MaybeMounted(s, i) : m[1] \notin DirsOf(s[i])
        /\ MaybeMounted(s, i) # {} =>
              \/ \E g \in GateDirs : SureDir(s, i, g) /\ ~Removes(s[i], g)
              \/ SureShrink(s, i) /\ s[i].op # "rmshrink"
        /\ MaybeMapped(s, i) => SureShrink(s, i) /\ s[i].op # "rmshrink"
    /\ MaybeMounted(s, Len(s) + 1) = {}
    /\ ~MaybeMapped(s, Len(s) + 1)

ASSUME ScriptAssumption ==
    /\ Script \in [Jobs -> Seq(Command)]
    /\ \A j \in Jobs : Script[j] # << >>

ASSUME OrderAssumption == \A j \in Jobs : WellOrdered(Script[j])

(* The same for the tarball, the image, what a script leaves behind and     *)
(* what its commands need.  One of the commands A stands before command i   *)
(* of a script and none of B between them.                                  *)
Since(i, A, B) == \E k \in A : k < i /\ \A n \in B : ~(k < n /\ n < i)
Uses(s, O) == {k \in 1..Len(s) : s[k].op \in O}
Hard(s, O) == {k \in Uses(s, O) : ~s[k].soft}
RootDirs == {"p1", "p2", "sysroot"}     \* where a loop device is mounted
MapDirs == {"BOOT", "EFI"} \cup Labels  \* where a map of shrink.img is
OnRoot(P) == \E d \in RootDirs : <<d, "">> \in P

\* Since tar ran nothing in sysroot was unmounted: what was mounted inside it
\* still is.  A umount of sysroot itself then proves that nothing was.
TarHeld(s, i) ==
    Since(i, Hard(s, {"tar"}),
          Uses(s, {"tar", "mvtar"}) \cup {k \in Uses(s, {"umount"}) : s[k].at \cap Under("sysroot") # {}})
TarShown(s, i) ==
    Since(i, {k \in Hard(s, {"umount"}) : <<"sysroot", "">> \in s[k].at /\ s[k].at \cap Inside("sysroot") = {}
                                          /\ TarHeld(s, k)},
          Uses(s, {"tar", "mvtar"}))
\* A tarball is moved to output/ only after that.
TarOrdered(s) == \A i \in Uses(s, {"mvtar"}) : TarShown(s, i)
ASSUME TarAssumption == \A j \in Jobs : TarOrdered(Script[j])

\* The ids the shell holds are those of the file systems made last; what was
\* written with them (Fstabbed, Booted, Entered) names them, until the file
\* systems are made again or filled with another image.
Renewed(s) == Uses(s, {"mkfs", "copy"})
Known(s, i) == Since(i, Hard(s, {"uuid"}), Uses(s, {"mkfs"}))
KnownOp(s, o) == {k \in Hard(s, {o}) : Known(s, k)}
Made(s, i) == Since(i, Hard(s, {"mkfs"}), {})
Fstabbed(s, i) == Since(i, KnownOp(s, "fstab"), Renewed(s) \cup Uses(s, {"fstab"}))
Entering(s) == Renewed(s) \cup Uses(s, {"board_09", "sedgrub"})
NewEntry(s, i) == Since(i, KnownOp(s, "board_09"), Entering(s))
\* shrink.img's ids are kept, and its menu entry names them.
Kept(s, i) == Since(i, {k \in KnownOp(s, "mvshrink") : Made(s, k)}, Uses(s, {"mvshrink"}))
OldEntry(s, i) == Since(i, {k \in KnownOp(s, "mvshrink") : NewEntry(s, k)}, Uses(s, {"mvshrink"}))
CopiedEntry(s, i) == Since(i, {k \in Hard(s, {"copy"}) : OldEntry(s, k)}, Entering(s) \cup Uses(s, {"mvshrink"}))
\* There is no entry, or it was written or rewritten with the new ids.
NoEntry(s, i) == ~Since(i, Uses(s, {"board_09"}) \cup {k \in Uses(s, {"sedgrub"}) : ~Kept(s, k)}, {})
Entered(s, i) ==
    Since(i, KnownOp(s, "board_09") \cup {k \in KnownOp(s, "sedgrub") : CopiedEntry(s, k)}, Entering(s))
Booted(s, i) ==
    Since(i, KnownOp(s, "bootcfg") \cup {k \in Hard(s, {"updategrub"}) : Made(s, k) /\ (NoEntry(s, k) \/ Entered(s, k))},
          Renewed(s) \cup Uses(s, {"bootcfg", "updategrub"}))
NamesItself(s) == \A i \in Uses(s, {"finish"}) : Made(s, i) /\ Fstabbed(s, i) /\ Booted(s, i)
ASSUME ImageAssumption == \A j \in Jobs : NamesItself(Script[j])

\* The directories a script names are gone at its end, and its loop device
\* was freed at once or, in use, was left to the last umount.
OwnDirs(s) == UNION {DirsOf(s[i]) : i \in 1..Len(s)}
GoneDir(s, i, d) == Since(i, {k \in Hard(s, {"rmdir", "rm"}) : d \in DirsOf(s[k])},
                          {k \in Uses(s, {"mkdir"}) : d \in DirsOf(s[k])})
Detached(s, i) == Since(i, Hard(s, {"detach"}), Uses(s, {"losetup"}))
Freed(s, i) ==
    Since(i, {k \in Hard(s, {"detach"}) : ~OnRoot(MaybeMounted(s, k))}
             \cup {k \in Hard(s, {"umount"}) : (\E d \in Dirs : <<d, "">> \in s[k].at) /\ Detached(s, k)},
          Uses(s, {"losetup"}))
TidiesUp(s) == Freed(s, Len(s) + 1) /\ \A d \in OwnDirs(s) : GoneDir(s, Len(s) + 1, d)
ASSUME TidyAssumption == \A j \in Jobs : TidiesUp(Script[j])

\* What there is before command i if none has failed.
Mounted(s, i) == {m \in UNION {s[k].at : k \in Uses(s, {"mount"})} :
                    Since(i, {k \in Uses(s, {"mount"}) : m \in s[k].at}, {k \in Uses(s, {"umount"}) : m \in s[k].at})}
Mapped(s, i) == Since(i, Uses(s, {"kpartx"}), Uses(s, {"kpartxd"}))
InImg(s, i) == Since(i, Uses(s, {"truncate"}), Uses(s, {"mvcwd", "rmimgfile"}))
InCwd(s, i) == Since(i, Uses(s, {"mvcwd"}), Uses(s, {"mvshrink", "finish"}))
TarMade(s, i) == Since(i, Uses(s, {"tar"}), Uses(s, {"mvtar"}))
GateSure(s, i) == (\E g \in GateDirs : SureDir(s, i, g)) \/ SureShrink(s, i)
\* A command finds what it needs in what the script itself has made, so that
\* none is refused unless one has failed; but an img/ that an earlier job
\* filled stays, and then the next gate will see what this one leaves.
Supplied(s, i) ==
    LET c == s[i] IN
    /\ c.op = "rmdir" => \A d \in DirsOf(c) : SureDir(s, i, d) /\ <<d, "">> \notin Mounted(s, i)
    /\ c.op = "rmdir" /\ "img" \in DirsOf(c) => ~c.soft /\ ~InImg(s, i) /\ GateSure(s, i)
    /\ c.op = "mount" => \A m \in c.at : /\ SureDir(s, i, m[1]) /\ m \notin Mounted(s, i)
                                         /\ m[2] # "" => <<m[1], "">> \in Mounted(s, i)
                                         /\ m[1] \in MapDirs => Mapped(s, i)
    /\ c.op = "umount" => c.at \subseteq Mounted(s, i) /\ \A m \in c.at : Below(m) \cap Mounted(s, i) \subseteq c.at
    /\ c.op = "rm" => \A d \in DirsOf(c) : Under(d) \cap Mounted(s, i) = {}
    /\ c.op = "truncate" => SureDir(s, i, "img")
    /\ c.op \in {"losetup", "mvcwd"} => InImg(s, i)
    /\ c.op \in {"mvshrink", "finish"} => InCwd(s, i)
    /\ c.op = "kpartx" => SureShrink(s, i)
    /\ c.op = "kpartxd" => \A d \in MapDirs : <<d, "">> \notin Mounted(s, i)
    /\ c.op = "mvtar" => TarMade(s, i)
    /\ c.op = "havetar" => ~Since(i, {k \in 1..Len(s) : s[k].soft} \cup Uses(s, {"truncate"}), {})
SelfSupplied(s) == (\A i \in 1..Len(s) : Supplied(s, i)) /\ ~s[Len(s)].soft
ASSUME SupplyAssumption == \A j \in Jobs : SelfSupplied(Script[j])

\* The work file of a job.
CONSTANT NameOf
ASSUME NameAssumption == NameOf \in [Jobs -> Names]

VARIABLES
    mnt,         \* the mount points in use
    dirs,        \* the directories that exist
    loops,       \* the work files that have a loop device
    lazy,        \* ... whose loop device goes away with its last mount
    maps,        \* kpartx maps of shrink.img exist
    imgFiles,    \* the work files in img/
    cwdImg,      \* the images in the working directory
    shrinkImg,   \* shrink.img exists
    tarCwd,      \* the tarball in the working directory
    tarOut,      \* the tarball in output/tarball
    work,        \* the image being built
    old,         \* the image that shrink.img holds
    ids,         \* the shell's ROOT_UUID / ROOT_PARTUUID / BOOT_UUID
    oldIds,      \* the shell's OLD_PARTUUID
    shipped,     \* the image this job moved to output/
    job, pc,     \* the running job and its next command; pc = 0: none runs
    fault,       \* a command of this job has failed that could have worked
    cleanAborts, \* consecutive jobs that aborted although nothing failed
    victims      \* mounted trees that an rm -fdr went into

host  == <<mnt, dirs, loops, lazy, maps>>
files == <<imgFiles, cwdImg, shrinkImg, tarCwd, tarOut>>
image == <<work, old, ids, oldIds, shipped>>
ctl   == <<job, pc, fault, cleanAborts>>
vars  == <<host, files, image, ctl, victims>>

TypeOK ==
    /\ mnt \subseteq MountPoints /\ dirs \subseteq Dirs
    /\ loops \subseteq Names /\ lazy \subseteq Names /\ maps \in BOOLEAN
    /\ imgFiles \subseteq Names /\ cwdImg \subseteq Names
    /\ shrinkImg \in BOOLEAN /\ tarCwd \in Tar /\ tarOut \in Tar
    /\ work \in Image /\ old \in Image /\ ids \in Nat /\ oldIds \in Nat
    /\ shipped \in Image
    /\ job \in Jobs /\ pc \in 0..Len(Script[job])
    /\ fault \in BOOLEAN /\ cleanAborts \in Nat
    /\ victims \subseteq MountPoints

Init ==
    /\ mnt = {} /\ dirs = {} /\ loops = {} /\ lazy = {} /\ maps = FALSE
    /\ imgFiles = {} /\ cwdImg = {} /\ shrinkImg = FALSE
    /\ tarCwd = "none" /\ tarOut = "none"
    /\ work = NoImage /\ old = NoImage /\ ids = 0 /\ oldIds = 0
    /\ shipped = NoImage
    /\ job \in Jobs /\ pc = 0 /\ fault = FALSE /\ cleanAborts = 0
    /\ victims = {}

-----------------------------------------------------------------------------
(* scripts/clean *)

\* umount of the points of P: one that has another mount below it, that is
\* not unmounted with it, is busy and stays.
Umounted(M, P) == {m \in M : m \notin P \/ (Below(m) \cap M) \ P # {}}
\* The first three lines of cleanup: /dev/pts only below sysroot.
CleanUmount(M) ==
    Umounted(M, ({"p1", "p2"} \X {"proc", "sys", "dev"})
                \cup ({"sysroot"} \X {"proc", "sys", "dev/pts", "dev"}))
\* Mutant: cleanup without its umount -l.
CleanMountsNoLazy(M) == CleanUmount(M)
\* umount -l then detaches the whole tree of each directory that is mounted.
CleanMounts(M) ==
    LET N == CleanUmount(M)
    IN {m \in N : m[1] \notin CleanDirs \/ <<m[1], "">> \notin N}

\* Mutant: a distribution was added to umount -l and forgotten in rm -fdr.
CleanRmShort == (CleanDirs \cup {"img"}) \ {"KALI"}
CleanRm == CleanDirs \cup {"img"}
\* cleanup ignores every error; a removed tree with something mounted in it
\* loses what is mounted there, and stays.
Clean ==
    LET M == CleanMounts(mnt)
        hit == {m \in M : m[1] \in CleanRm}
    IN /\ mnt' = M
       /\ victims' = victims \cup hit
       /\ dirs' = {d \in dirs : d \notin CleanRm \/ Under(d) \cap hit # {}}
       /\ loops' = {} /\ lazy' = {}
       /\ maps' = (maps /\ ~shrinkImg)
       /\ imgFiles' = {} /\ shrinkImg' = FALSE
       /\ UNCHANGED <<cwdImg, tarCwd, tarOut>>

\* Mutant: the narrower condition that scripts/usbboot has.
GateNarrow == {"sysroot", "p1"} \cap dirs # {}
\* Mutant: p2 taken for p1.
GateByP2 == {"sysroot", "p2", "BOOT"} \cap dirs # {} \/ shrinkImg
\* stage1:38 and rootfs:12, the condition for running make clean first.
Gate == GateDirs \cap dirs # {} \/ shrinkImg

-----------------------------------------------------------------------------
(* Running a job *)

Cmd == Script[job][pc]
Name == NameOf[job]
Doing(op) == pc # 0 /\ Cmd.op = op
\* Mutant: runs one command past the end.
AdvancePast ==
    /\ pc' = IF pc > Len(Script[job]) THEN 0 ELSE pc + 1
    /\ cleanAborts' = IF pc = Len(Script[job]) THEN 0 ELSE cleanAborts
    /\ UNCHANGED <<job, fault>>
Advance ==
    /\ pc' = IF pc = Len(Script[job]) THEN 0 ELSE pc + 1
    /\ cleanAborts' = IF pc = Len(Script[job]) THEN 0 ELSE cleanAborts
    /\ UNCHANGED <<job, fault>>

\* The user starts a job; what an earlier one left is cleaned if Gate sees it.
Start ==
    /\ pc = 0
    /\ \E j \in Jobs : job' = j
    /\ pc' = 1 /\ fault' = FALSE
    /\ IF Gate THEN Clean ELSE UNCHANGED <<host, files, victims>>
    /\ work' = NoImage /\ old' = NoImage /\ ids' = 0 /\ oldIds' = 0
    /\ shipped' = NoImage /\ UNCHANGED cleanAborts

\* `make clean` by hand, between jobs.
MakeClean ==
    /\ pc = 0
    /\ Clean
    /\ UNCHANGED <<image, ctl>>

\* The host goes down: nothing stays mounted, what is on disk stays.
HostReboot ==
    /\ pc' = 0 /\ cleanAborts' = 0 /\ UNCHANGED <<job, fault>>
    /\ mnt' = {} /\ loops' = {} /\ lazy' = {} /\ maps' = FALSE
    /\ UNCHANGED <<dirs, files, image, victims>>

-----------------------------------------------------------------------------
(* The commands.  Can...(c) is what the kernel or the shell requires. *)

RmdirWorks(d) == /\ d \in dirs /\ <<d, "">> \notin mnt
                 /\ d = "img" => imgFiles = {}
CanRmdir(c) == \A d \in DirsOf(c) : RmdirWorks(d)
CanMount(c) == \A m \in c.at :
    /\ m[1] \in dirs /\ m \notin mnt
    /\ m[2] # "" => <<m[1], "">> \in mnt
    /\ m[1] \in MapDirs => maps
CanUmount(c) == c.at \subseteq mnt /\ Umounted(mnt, c.at) \cap c.at = {}
CanRm(c) == \A d \in DirsOf(c) : Under(d) \cap mnt = {}
MapsBusy == \E d \in MapDirs : <<d, "">> \in mnt
LoopBusy == OnRoot(mnt)

Works(c) ==
    /\ c.op = "rmdir" => CanRmdir(c)
    /\ c.op = "mount" => CanMount(c)
    /\ c.op = "umount" => CanUmount(c)
    /\ c.op = "rm" => CanRm(c)
    /\ c.op = "truncate" => "img" \in dirs
    /\ c.op \in {"losetup", "mvcwd"} => Name \in imgFiles
    /\ c.op \in {"mvshrink", "finish"} => Name \in cwdImg
    /\ c.op = "kpartx" => shrinkImg
    /\ c.op = "kpartxd" => ~MapsBusy
    /\ c.op = "mvtar" => tarCwd # "none"

Mkdir == /\ Doing("mkdir") /\ dirs' = dirs \cup DirsOf(Cmd) /\ Advance
         /\ UNCHANGED <<mnt, loops, lazy, maps, files, image, victims>>
Rmdir == /\ Doing("rmdir") /\ CanRmdir(Cmd) /\ dirs' = dirs \ DirsOf(Cmd) /\ Advance
         /\ UNCHANGED <<mnt, loops, lazy, maps, files, image, victims>>
Mount == /\ Doing("mount") /\ CanMount(Cmd)
         /\ mnt' = mnt \cup Cmd.at /\ Advance
         /\ UNCHANGED <<dirs, loops, lazy, maps, files, image, victims>>
\* Mutant: umount -l, as scripts/clean has it, is never refused.
UmountLazily ==
    /\ Doing("umount") /\ Cmd.at \subseteq mnt
    /\ mnt' = mnt \ (Cmd.at \cup UNION {Below(m) : m \in Cmd.at})
    /\ loops' = loops \ lazy /\ lazy' = {} /\ Advance
    /\ UNCHANGED <<dirs, maps, files, image, victims>>
\* The last umount of a file system frees a loop device detached before it.
Umount == /\ Doing("umount") /\ CanUmount(Cmd)
          /\ mnt' = mnt \ Cmd.at
          /\ IF \E d \in Dirs : <<d, "">> \in Cmd.at
             THEN loops' = loops \ lazy /\ lazy' = {}
             ELSE UNCHANGED <<loops, lazy>>
          /\ Advance
          /\ UNCHANGED <<dirs, maps, files, image, victims>>
Rm == /\ Doing("rm") /\ CanRm(Cmd) /\ dirs' = dirs \ DirsOf(Cmd) /\ Advance
      /\ UNCHANGED <<mnt, loops, lazy, maps, files, image, victims>>
Truncate == /\ Doing("truncate") /\ "img" \in dirs
            /\ imgFiles' = imgFiles \cup {Name} /\ Advance
            /\ UNCHANGED <<host, cwdImg, shrinkImg, tarCwd, tarOut, image, victims>>
Losetup == /\ Doing("losetup") /\ Name \in imgFiles
           /\ loops' = loops \cup {Name} /\ Advance
           /\ UNCHANGED <<mnt, dirs, lazy, maps, files, image, victims>>
\* Mutant: a loop device in use is left alone.
DetachIdle ==
    /\ Doing("detach") /\ loops' = (IF LoopBusy THEN loops ELSE loops \ {Name}) /\ Advance
    /\ UNCHANGED <<mnt, dirs, lazy, maps, files, image, victims>>
\* losetup -d of a loop device in use is deferred (autoclear).
Detach == /\ Doing("detach")
          /\ IF LoopBusy THEN lazy' = lazy \cup {Name} /\ UNCHANGED loops
                         ELSE loops' = loops \ {Name} /\ UNCHANGED lazy
          /\ Advance
          /\ UNCHANGED <<mnt, dirs, maps, files, image, victims>>
Kpartx == /\ Doing("kpartx") /\ shrinkImg /\ maps' = TRUE /\ Advance
          /\ UNCHANGED <<mnt, dirs, loops, lazy, files, image, victims>>
Kpartxd == /\ Doing("kpartxd") /\ ~MapsBusy /\ maps' = FALSE /\ Advance
           /\ UNCHANGED <<mnt, dirs, loops, lazy, files, image, victims>>
\* Any command that leaves what is modelled here alone: tar -x, cp, fsck ...
Work == Doing("work") /\ Advance /\ UNCHANGED <<host, files, image, victims>>

-----------------------------------------------------------------------------
(* The image: its partitions, and the files in it that name them. *)

Content(w) == work' = w /\ Advance /\ UNCHANGED <<host, files, old, ids, oldIds,
                                                  shipped, victims>>
Mkfs == Doing("mkfs") /\ Content([NoImage EXCEPT !.gen = old.gen + 1])
Uuid == /\ Doing("uuid") /\ ids' = work.gen
        /\ Advance /\ UNCHANGED <<host, files, work, old, oldIds, shipped, victims>>
Fstab == Doing("fstab") /\ Content([work EXCEPT !.fstab = ids])
BootCfg == Doing("bootcfg") /\ Content([work EXCEPT !.boot = ids])
Board09 == Doing("board_09") /\ Content([work EXCEPT !.entry = ids])
\* update-grub copies the board's menu entry; without one it probes the disk.
UpdateGrub == Doing("updategrub") /\
    Content([work EXCEPT !.boot = IF work.entry = 0 THEN work.gen ELSE work.entry])
\* Mutant: sed looks for the id read after the image was made again.
SedGrubNew == Doing("sedgrub") /\
    Content([work EXCEPT !.entry = IF work.entry = ids THEN ids ELSE work.entry])
\* sed replaces only the PARTUUID that was saved before the image was shrunk.
SedGrub == Doing("sedgrub") /\
    Content([work EXCEPT !.entry = IF work.entry = oldIds THEN ids ELSE work.entry])
Copy == Doing("copy") /\ Content([old EXCEPT !.gen = work.gen])

MvCwd == /\ Doing("mvcwd") /\ Name \in imgFiles
         /\ imgFiles' = imgFiles \ {Name} /\ cwdImg' = cwdImg \cup {Name}
         /\ Advance /\ UNCHANGED <<host, shrinkImg, tarCwd, tarOut, image, victims>>
MvShrink == /\ Doing("mvshrink") /\ Name \in cwdImg
            /\ cwdImg' = cwdImg \ {Name} /\ shrinkImg' = TRUE
            /\ old' = work /\ oldIds' = ids
            /\ Advance /\ UNCHANGED <<host, imgFiles, tarCwd, tarOut, work, ids,
                                      shipped, victims>>
RmShrink == /\ Doing("rmshrink") /\ shrinkImg' = FALSE
            /\ Advance /\ UNCHANGED <<host, imgFiles, cwdImg, tarCwd, tarOut,
                                      image, victims>>
Finish == /\ Doing("finish") /\ Name \in cwdImg
          /\ cwdImg' = cwdImg \ {Name} /\ shipped' = work
          /\ Advance /\ UNCHANGED <<host, imgFiles, shrinkImg, tarCwd, tarOut, work,
                                    old, ids, oldIds, victims>>

-----------------------------------------------------------------------------
(* The tarball. *)

\* stage1 cannot go on without a tarball: setup cleans up and exits.
NeedTar ==
    /\ Doing("needtar")
    /\ \/ tarOut # "none" /\ Advance /\ UNCHANGED <<host, files, victims>>
       \/ tarOut = "none" /\ Clean /\ pc' = 0 /\ UNCHANGED <<job, fault, cleanAborts>>
    /\ UNCHANGED image
\* rootfs has nothing to do when the tarball is there.
HaveTar ==
    /\ Doing("havetar")
    /\ \/ tarOut = "none" /\ Advance
       \/ tarOut # "none" /\ pc' = 0 /\ UNCHANGED <<job, fault, cleanAborts>>
    /\ UNCHANGED <<host, files, image, victims>>
\* The archive holds whatever is mounted in sysroot when it is made.
TarUp ==
    /\ Doing("tar")
    /\ tarCwd' = IF Inside("sysroot") \cap mnt = {} THEN "pure" ELSE "polluted"
    /\ Advance
    /\ UNCHANGED <<host, imgFiles, cwdImg, shrinkImg, tarOut, image, victims>>
RmImgFile == /\ Doing("rmimgfile") /\ imgFiles' = imgFiles \ {Name} /\ Advance
             /\ UNCHANGED <<host, cwdImg, shrinkImg, tarCwd, tarOut, image, victims>>
MvTar == /\ Doing("mvtar") /\ tarCwd # "none"
         /\ tarOut' = tarCwd /\ tarCwd' = "none" /\ Advance
         /\ UNCHANGED <<host, imgFiles, cwdImg, shrinkImg, image, victims>>

-----------------------------------------------------------------------------
(* Failing commands: under set -e the job ends there, with everything it   *)
(* has mounted and created left in place.  A soft command belongs to a     *)
(* script without set -e (rootfs-extra), which goes on.                    *)

Abort == pc' = 0 /\ UNCHANGED <<job, fault>>
\* A command that cannot work is refused; rm -fdr has emptied the mounts by then.
Refused ==
    /\ pc # 0 /\ ~Works(Cmd)
    /\ IF Cmd.soft THEN Advance
       ELSE Abort /\ cleanAborts' = IF fault THEN 0 ELSE cleanAborts + 1
    /\ victims' = IF Cmd.op = "rm"
                  THEN victims \cup {m \in mnt : m[1] \in DirsOf(Cmd)} ELSE victims
    /\ UNCHANGED <<host, files, image>>
\* Any command may fail by itself: no space, no network, a signal ...  One
\* with several operands may have done part of them, tar leaves a stump.
Faulted ==
    /\ pc # 0
    /\ IF Cmd.soft
       THEN /\ pc' = IF pc = Len(Script[job]) THEN 0 ELSE pc + 1
            /\ fault' = TRUE /\ UNCHANGED <<job, cleanAborts>>
       ELSE Abort /\ cleanAborts' = 0
    /\ \/ Cmd.op = "mkdir" /\ UNCHANGED mnt
          /\ \E D \in SUBSET DirsOf(Cmd) : dirs' = dirs \cup D
       \/ Cmd.op = "rmdir" /\ UNCHANGED mnt
          /\ \E D \in SUBSET {d \in DirsOf(Cmd) : RmdirWorks(d)} : dirs' = dirs \ D
       \/ Cmd.op = "umount" /\ UNCHANGED dirs
          /\ \E P \in SUBSET Cmd.at : mnt' = Umounted(mnt, P)
       \/ Cmd.op \notin {"mkdir", "rmdir", "umount"} /\ UNCHANGED <<mnt, dirs>>
    /\ tarCwd' = IF Cmd.op = "tar" THEN "partial" ELSE tarCwd
    /\ UNCHANGED <<loops, lazy, maps, imgFiles, cwdImg, shrinkImg, tarOut, image, victims>>

FileCommand == Truncate \/ Losetup \/ Detach \/ Kpartx \/ Kpartxd \/ MvCwd
               \/ MvShrink \/ RmShrink \/ Finish \/ TarUp \/ RmImgFile \/ MvTar
MountCommand == Mkdir \/ Rmdir \/ Mount \/ Umount \/ Rm \/ Work
ImageCommand == Mkfs \/ Uuid \/ Fstab \/ BootCfg \/ Board09 \/ UpdateGrub
                \/ SedGrub \/ Copy
Next == \/ Start \/ MakeClean \/ HostReboot
        \/ MountCommand \/ FileCommand \/ ImageCommand
        \/ NeedTar \/ HaveTar \/ Refused \/ Faulted

Spec == Init /\ [][Next]_vars
-----------------------------------------------------------------------------
(* Properties *)

\* No rm -fdr, by hand-made clean, by a gate's clean or by a job, ever runs
\* into something that is still mounted: the host's /dev is bind mounted in
\* p1, p2 and sysroot while a job runs, and stays there when it fails.
RmSparesMounts == victims = {}

\* The condition on which stage1 and rootfs clean up is strong enough: no
\* job starts with mounts or maps that an earlier one left.
StartsUnmounted == pc = 1 => mnt = {} /\ ~maps

\* `make clean` repairs whatever point of whatever job failed: nothing is
\* mounted, mapped or attached, and no directory is left.
Quiet == mnt = {} /\ dirs = {} /\ loops = {} /\ ~maps /\ ~shrinkImg
CleanRestores == [][MakeClean => Quiet']_vars

\* A job that runs to its end leaves no mount, no map and none of its
\* directories behind, and takes its loop device with it.
Ending == pc = Len(Script[job]) /\ pc' = 0 /\ (Work \/ MvTar)
EndsTidy == [][Ending => /\ mnt' = {} /\ dirs' \cap OwnDirs(Script[job]) = {}
                         /\ ~maps' /\ Name \notin loops']_vars

\* A job that aborts although none of its commands failed (an earlier job
\* left img/ with another name's file and no p1, so rmdir img fails) leaves
\* what the gate sees: the same never happens twice in a row.
SelfHealing == cleanAborts <= 1

\* Whatever the layout, the boot method and shrinking, an image that reaches
\* output/ has an fstab and a boot configuration that name its own partitions,
\* not those of the image it was copied from.
ShippedNamesItself ==
    shipped # NoImage => /\ shipped.gen # 0
                         /\ shipped.fstab = shipped.gen /\ shipped.boot = shipped.gen

\* A tarball that reaches output/tarball is whole and was made with nothing
\* mounted inside sysroot, although rootfs-extra ignores a failing umount.
TarballPure == tarOut \in {"none", "pure"}

=============================================================================
