-------------------------- MODULE WorkspaceProofs --------------------------
\* What module Workspace guarantees for any jobs whose scripts keep the
\* static rules of that module.  From WellOrdered: types, no rm -fdr into
\* a mount, every job starts unmounted, `make clean` restores the working
\* directory.  From TarOrdered, NamesItself, TidiesUp and SelfSupplied,
\* rules on which command stands since which: a pure tarball, an image
\* that names itself, a tidy end, and jobs that heal.  Each is proved by
\* an invariant that says what the state owes to the rule at pc, and by
\* lemmas (...Next) that take the rule from a command to the next.
\* At the end, module ShrinkSize: the copy into the shrunk image fits, for
\* every root file system below 10000 MiB and every OFFSET up to 16MiB.
EXTENDS Workspace, ShrinkSize, TLAPS

-----------------------------------------------------------------------------
\* Type correctness

\* A job has a script of at least one command.
LEMMA ScriptFacts ==
    ASSUME NEW j \in Jobs
    PROVE  /\ Len(Script[j]) \in Nat /\ Len(Script[j]) >= 1
           /\ \A i \in 1..Len(Script[j]) : Script[j][i] \in Command
<1>1. Script[j] \in Seq(Command) /\ Script[j] # << >> BY ScriptAssumption
<1> QED BY <1>1

\* The next command of a running job is one of its script's.
LEMMA CmdFacts ==
    ASSUME TypeOK, pc # 0
    PROVE  /\ pc \in 1..Len(Script[job])
           /\ Cmd.op \in Ops /\ Cmd.soft \in BOOLEAN
           /\ Cmd.at \subseteq MountPoints
           /\ DirsOf(Cmd) \subseteq Dirs
<1>1. pc \in 1..Len(Script[job]) BY ScriptFacts DEF TypeOK
<1>2. Cmd \in Command BY <1>1, ScriptFacts DEF TypeOK, Cmd
<1>3. Cmd.op \in Ops /\ Cmd.soft \in BOOLEAN /\ Cmd.at \subseteq MountPoints BY <1>2 DEF Command
<1>4. DirsOf(Cmd) \subseteq Dirs BY <1>3 DEF DirsOf, MountPoints
<1> QED BY <1>1, <1>3, <1>4

\* The control variables keep their types when a job advances or aborts.
LEMMA AdvanceTypes ==
    ASSUME TypeOK, pc # 0, Advance
    PROVE  /\ job' \in Jobs /\ pc' \in 0..Len(Script[job'])
           /\ fault' \in BOOLEAN /\ cleanAborts' \in Nat
<1>1. pc \in 1..Len(Script[job]) /\ Len(Script[job]) \in Nat BY CmdFacts, ScriptFacts DEF TypeOK
<1> QED BY <1>1 DEF TypeOK, Advance

\* scripts/clean keeps the types of everything it touches.
LEMMA CleanTypes ==
    ASSUME TypeOK, Clean
    PROVE  /\ mnt' \subseteq MountPoints /\ dirs' \subseteq Dirs
           /\ loops' \subseteq Names /\ lazy' \subseteq Names /\ maps' \in BOOLEAN
           /\ imgFiles' \subseteq Names /\ cwdImg' \subseteq Names
           /\ shrinkImg' \in BOOLEAN /\ tarCwd' \in Tar /\ tarOut' \in Tar
           /\ victims' \subseteq MountPoints
<1>1. CleanMounts(mnt) \subseteq mnt BY DEF CleanMounts, CleanUmount, Umounted
<1> QED BY <1>1 DEF TypeOK, Clean

\* Every variable keeps its type under every command of every script, under
\* clean, reboots and failures.
THEOREM Typing == Spec => []TypeOK
<1>1. Init => TypeOK
  <2>1. \A j \in Jobs : 0 \in 0..Len(Script[j]) BY ScriptFacts
  <2>2. Init => maps \in BOOLEAN /\ shrinkImg \in BOOLEAN /\ fault \in BOOLEAN BY Zenon DEF Init
  <2> QED BY <2>1, <2>2 DEF Init, TypeOK, Image, NoImage, Tar
<1>2. TypeOK /\ [Next]_vars => TypeOK'
  <2> SUFFICES ASSUME TypeOK, [Next]_vars PROVE TypeOK' OBVIOUS
  <2> USE DEF host, files, image, ctl
  <2>1. CASE Start
    <3>1. \A j \in Jobs : 1 \in 0..Len(Script[j]) BY ScriptFacts
    <3>2. CASE Gate BY <2>1, <3>1, <3>2, CleanTypes DEF Start, TypeOK, Image, NoImage
    <3>3. CASE ~Gate BY <2>1, <3>1, <3>3 DEF Start, TypeOK, Image, NoImage
    <3> QED BY <3>2, <3>3
  <2>2. CASE MakeClean BY <2>2, CleanTypes DEF MakeClean, TypeOK
  <2>3. CASE HostReboot
    <3>1. maps' \in BOOLEAN BY <2>3, Zenon DEF HostReboot
    <3> QED BY <2>3, <3>1, ScriptFacts DEF HostReboot, TypeOK
  <2>4. CASE MountCommand BY <2>4, CmdFacts, AdvanceTypes
    DEF MountCommand, Mkdir, Rmdir, Mount, Umount, Rm, Work, Doing, TypeOK
  <2>5. CASE FileCommand
    <3>0. NameOf[job] \in Names BY NameAssumption DEF TypeOK
    <3>1. CASE Truncate \/ Losetup \/ Detach \/ Kpartx \/ Kpartxd BY <3>0, <3>1, AdvanceTypes
      DEF Truncate, Losetup, Detach, Kpartx, Kpartxd, Doing, Name, TypeOK
    <3>2. CASE MvCwd \/ MvShrink \/ RmShrink \/ Finish BY <3>0, <3>2, AdvanceTypes
      DEF MvCwd, MvShrink, RmShrink, Finish, Doing, Name, TypeOK
    <3>3. CASE TarUp \/ RmImgFile \/ MvTar BY <3>0, <3>3, AdvanceTypes
      DEF TarUp, RmImgFile, MvTar, Doing, Name, TypeOK, Tar
    <3> QED BY <2>5, <3>1, <3>2, <3>3 DEF FileCommand
  <2>6. CASE ImageCommand
    <3>1. CASE Uuid BY <3>1, AdvanceTypes DEF Uuid, Doing, TypeOK, Image
    <3>2. ASSUME NEW w \in Image, pc # 0, Content(w) PROVE TypeOK'
      BY <3>2, AdvanceTypes DEF Content, TypeOK
    <3>3. work \in Image /\ old \in Image /\ ids \in Nat /\ oldIds \in Nat BY DEF TypeOK
    <3>4. CASE Mkfs \/ Fstab \/ BootCfg \/ Board09
      BY <3>2, <3>3, <3>4 DEF Mkfs, Fstab, BootCfg, Board09, Doing, Image, NoImage
    <3>5. CASE UpdateGrub \/ SedGrub \/ Copy
      BY <3>2, <3>3, <3>5 DEF UpdateGrub, SedGrub, Copy, Doing, Image
    <3> QED BY <2>6, <3>1, <3>4, <3>5 DEF ImageCommand
  <2>7. CASE NeedTar
    <3>1. CASE tarOut # "none" /\ Advance /\ UNCHANGED <<host, files, victims>>
      BY <2>7, <3>1, AdvanceTypes DEF NeedTar, Doing, TypeOK
    <3>2. CASE Clean /\ pc' = 0 /\ UNCHANGED <<job, fault, cleanAborts>>
      BY <2>7, <3>2, CleanTypes, ScriptFacts DEF NeedTar, TypeOK
    <3> QED BY <2>7, <3>1, <3>2 DEF NeedTar
  <2>8. CASE HaveTar BY <2>8, AdvanceTypes, ScriptFacts DEF HaveTar, Doing, TypeOK
  <2>9. CASE Refused
    <3>1. {m \in mnt : m[1] \in DirsOf(Cmd)} \subseteq MountPoints BY DEF TypeOK
    <3> QED BY <2>9, <3>1, AdvanceTypes, ScriptFacts DEF Refused, Abort, TypeOK
  <2>10. CASE Faulted
    <3>0. fault' \in BOOLEAN BY <2>10, Zenon DEF Faulted, Abort, TypeOK
    <3>1. job' = job /\ pc' \in 0..Len(Script[job]) /\ cleanAborts' \in Nat
      BY <2>10, CmdFacts, ScriptFacts DEF Faulted, Abort, TypeOK
    <3>2. mnt' \subseteq MountPoints /\ dirs' \subseteq Dirs
      BY <2>10, CmdFacts DEF Faulted, TypeOK, Umounted
    <3> QED BY <2>10, <3>0, <3>1, <3>2 DEF Faulted, TypeOK, Tar
  <2>11. CASE UNCHANGED vars BY <2>11 DEF vars, TypeOK
  <2> QED BY <2>1, <2>2, <2>3, <2>4, <2>5, <2>6, <2>7, <2>8, <2>9, <2>10, <2>11 DEF Next
<1> QED BY <1>1, <1>2, PTL DEF Spec

-----------------------------------------------------------------------------
\* The inductive invariant: what is mounted, mapped and created agrees
\* with what the running script says may and must be, and what a stopped
\* script leaves mounted is seen by the next job's gate.

Nested == \A m \in mnt : m[1] \in CleanDirs /\ <<m[1], "">> \in mnt
Tracked(s, i) ==
    /\ mnt \subseteq MaybeMounted(s, i)
    /\ \A d \in Dirs : SureDir(s, i, d) => d \in dirs
    /\ SureShrink(s, i) => shrinkImg
    /\ maps => MaybeMapped(s, i)
Seen == mnt # {} => Gate
Inv == /\ TypeOK /\ Nested
       /\ pc # 0 => Tracked(Script[job], pc)
       /\ pc = 0 => Seen
       /\ maps => shrinkImg
       /\ victims = {}

\* How the static facts about a script grow by its next command.
LEMMA Grow ==
    ASSUME NEW s, NEW i \in Nat, i >= 1
    PROVE  /\ \A m \in MaybeMounted(s, i) :
                 ~Unmounts(s[i], m) => m \in MaybeMounted(s, i + 1)
           /\ s[i].op = "mount" =>
                 \A m \in MountPoints : m \in s[i].at => m \in MaybeMounted(s, i + 1)
           /\ \A d : SureDir(s, i + 1, d) =>
                 \/ SureDir(s, i, d) /\ ~Removes(s[i], d)
                 \/ s[i].op = "mkdir" /\ ~s[i].soft /\ d \in DirsOf(s[i])
           /\ SureShrink(s, i + 1) =>
                 \/ SureShrink(s, i) /\ s[i].op # "rmshrink"
                 \/ s[i].op = "mvshrink" /\ ~s[i].soft
           /\ MaybeMapped(s, i) /\ ~(s[i].op = "kpartxd" /\ ~s[i].soft)
                 => MaybeMapped(s, i + 1)
           /\ s[i].op = "kpartx" => MaybeMapped(s, i + 1)
<1>1. ASSUME NEW m \in MaybeMounted(s, i), ~Unmounts(s[i], m)
      PROVE  m \in MaybeMounted(s, i + 1)
  <2>1. PICK k \in 1..(i - 1) :
          /\ s[k].op = "mount" /\ m \in s[k].at
          /\ \A n \in (k + 1)..(i - 1) : ~Unmounts(s[n], m)
    BY <1>1 DEF MaybeMounted
  <2>2. \A n \in (k + 1)..(i + 1 - 1) : n = i \/ n \in (k + 1)..(i - 1) OBVIOUS
  <2>3. k \in 1..(i + 1 - 1) /\ m \in MountPoints BY <1>1 DEF MaybeMounted
  <2> QED BY <1>1, <2>1, <2>2, <2>3 DEF MaybeMounted
<1>2. ASSUME s[i].op = "mount", NEW m \in MountPoints, m \in s[i].at
      PROVE  m \in MaybeMounted(s, i + 1)
  <2>1. i \in 1..(i + 1 - 1) /\ \A n \in (i + 1)..(i + 1 - 1) : FALSE OBVIOUS
  <2> QED BY <1>2, <2>1 DEF MaybeMounted
<1>3. ASSUME NEW d, SureDir(s, i + 1, d)
      PROVE  \/ SureDir(s, i, d) /\ ~Removes(s[i], d)
             \/ s[i].op = "mkdir" /\ ~s[i].soft /\ d \in DirsOf(s[i])
  <2>1. PICK k \in 1..(i + 1 - 1) :
          /\ s[k].op = "mkdir" /\ ~s[k].soft /\ d \in DirsOf(s[k])
          /\ \A n \in (k + 1)..(i + 1 - 1) : ~Removes(s[n], d)
    BY <1>3 DEF SureDir
  <2>2. CASE k = i BY <2>1, <2>2
  <2>3. CASE k # i
    <3>1. k \in 1..(i - 1) /\ i \in (k + 1)..(i + 1 - 1) BY <2>3
    <3>2. \A n \in (k + 1)..(i - 1) : n \in (k + 1)..(i + 1 - 1) BY <3>1
    <3> QED BY <2>1, <3>1, <3>2 DEF SureDir
  <2> QED BY <2>2, <2>3
<1>4. ASSUME SureShrink(s, i + 1)
      PROVE  \/ SureShrink(s, i) /\ s[i].op # "rmshrink"
             \/ s[i].op = "mvshrink" /\ ~s[i].soft
  <2>1. PICK k \in 1..(i + 1 - 1) :
          /\ s[k].op = "mvshrink" /\ ~s[k].soft
          /\ \A n \in (k + 1)..(i + 1 - 1) : s[n].op # "rmshrink"
    BY <1>4 DEF SureShrink
  <2>2. CASE k = i BY <2>1, <2>2
  <2>3. CASE k # i
    <3>1. k \in 1..(i - 1) /\ i \in (k + 1)..(i + 1 - 1) BY <2>3
    <3>2. \A n \in (k + 1)..(i - 1) : n \in (k + 1)..(i + 1 - 1) BY <3>1
    <3> QED BY <2>1, <3>1, <3>2 DEF SureShrink
  <2> QED BY <2>2, <2>3
<1>5. ASSUME MaybeMapped(s, i), ~(s[i].op = "kpartxd" /\ ~s[i].soft)
      PROVE  MaybeMapped(s, i + 1)
  <2>1. PICK k \in 1..(i - 1) :
          /\ s[k].op = "kpartx"
          /\ \A n \in (k + 1)..(i - 1) : ~(s[n].op = "kpartxd" /\ ~s[n].soft)
    BY <1>5 DEF MaybeMapped
  <2>2. \A n \in (k + 1)..(i + 1 - 1) : n = i \/ n \in (k + 1)..(i - 1) OBVIOUS
  <2>3. k \in 1..(i + 1 - 1) OBVIOUS
  <2> QED BY <1>5, <2>1, <2>2, <2>3 DEF MaybeMapped
<1>6. ASSUME s[i].op = "kpartx" PROVE MaybeMapped(s, i + 1)
  <2>1. i \in 1..(i + 1 - 1) /\ \A n \in (i + 1)..(i + 1 - 1) : FALSE OBVIOUS
  <2> QED BY <1>6, <2>1 DEF MaybeMapped
<1> QED BY <1>1, <1>2, <1>3, <1>4, <1>5, <1>6

\* Before its first command a script has mounted, mapped and made nothing.
LEMMA AtStart ==
    ASSUME NEW s
    PROVE  /\ MaybeMounted(s, 1) = {} /\ ~MaybeMapped(s, 1)
           /\ ~SureShrink(s, 1) /\ \A d : ~SureDir(s, 1, d)
<1>1. \A k \in 1..(1 - 1) : FALSE OBVIOUS
<1> QED BY <1>1 DEF MaybeMounted, MaybeMapped, SureShrink, SureDir

\* With every mount below a mounted directory that clean knows, clean leaves
\* nothing mounted, mapped or created, and its rm -fdr meets no mount.
LEMMA CleanEmpties ==
    ASSUME Inv, Clean
    PROVE  mnt' = {} /\ dirs' = {} /\ loops' = {} /\ ~maps' /\ ~shrinkImg' /\ victims' = {}
<1>1. CleanMounts(mnt) = {}
  <2> SUFFICES ASSUME NEW m \in CleanMounts(mnt) PROVE FALSE OBVIOUS
  <2>1. m \in mnt /\ m[1] \in CleanDirs /\ <<m[1], "">> \in mnt
    BY DEF Inv, Nested, CleanMounts, CleanUmount, Umounted
  <2>2. <<m[1], "">> \in CleanUmount(mnt) BY <2>1 DEF CleanUmount, Umounted
  <2> QED BY <2>1, <2>2 DEF CleanMounts
<1>2. mnt' = {} /\ victims' = {} /\ loops' = {} BY <1>1 DEF Clean, Inv
<1>3. dirs' = {}
  <2>1. dirs \subseteq CleanRm BY DEF Inv, TypeOK, Dirs, CleanRm, CleanDirs
  <2> QED BY <1>1, <2>1 DEF Clean
<1>4. ~maps' /\ ~shrinkImg' BY Zenon DEF Clean, Inv
<1> QED BY <1>2, <1>3, <1>4

\* The facts OrderAssumption gives about the running job.
LEMMA Ordered ==
    ASSUME TypeOK, pc # 0
    PROVE  /\ Cmd.op = "mount" => DirsOf(Cmd) \subseteq CleanDirs
           /\ Cmd.op = "rm" => \A m \in MaybeMounted(Script[job], pc) : m[1] \notin DirsOf(Cmd)
           /\ MaybeMounted(Script[job], pc) # {} =>
                 \/ \E g \in GateDirs : SureDir(Script[job], pc, g) /\ ~Removes(Cmd, g)
                 \/ SureShrink(Script[job], pc) /\ Cmd.op # "rmshrink"
           /\ MaybeMapped(Script[job], pc) =>
                 SureShrink(Script[job], pc) /\ Cmd.op # "rmshrink"
<1>1. pc \in 1..Len(Script[job]) /\ job \in Jobs BY CmdFacts DEF TypeOK
<1>2. WellOrdered(Script[job]) BY <1>1, OrderAssumption
<1> QED BY <1>1, <1>2 DEF WellOrdered, Cmd

\* A command that keeps track of the script's static facts keeps Inv.
LEMMA AdvanceInv ==
    ASSUME Inv, pc # 0, TypeOK', Nested', victims' = {}, job' = job,
           pc' = IF pc = Len(Script[job]) THEN 0 ELSE pc + 1,
           mnt' \subseteq MaybeMounted(Script[job], pc + 1),
           \A d \in Dirs : SureDir(Script[job], pc + 1, d) => d \in dirs',
           SureShrink(Script[job], pc + 1) => shrinkImg',
           maps' => MaybeMapped(Script[job], pc + 1)
    PROVE  Inv'
<1>1. pc \in 1..Len(Script[job]) /\ job \in Jobs /\ Len(Script[job]) \in Nat
  BY CmdFacts, ScriptFacts DEF Inv, TypeOK
<1>2. WellOrdered(Script[job]) BY <1>1, OrderAssumption
<1>3. CASE pc = Len(Script[job])
  <2>1. pc' = 0 /\ mnt' = {} /\ ~maps' BY <1>2, <1>3 DEF WellOrdered
  <2> QED BY <2>1 DEF Inv, Seen
<1>4. CASE pc # Len(Script[job])
  <2>1. pc' = pc + 1 /\ pc' # 0 /\ pc + 1 \in 1..Len(Script[job]) BY <1>1, <1>4
  <2>2. Tracked(Script[job], pc)' BY <2>1 DEF Tracked
  <2>3. maps' => shrinkImg' BY <1>2, <2>1 DEF WellOrdered
  <2> QED BY <2>1, <2>2, <2>3 DEF Inv
<1> QED BY <1>3, <1>4

\* A script that stops leaves no mount that the next job's gate overlooks.
LEMMA AbortInv ==
    ASSUME Inv, pc # 0, TypeOK', Nested', victims' = {}, pc' = 0,
           mnt' \subseteq mnt, maps' = maps, shrinkImg' = shrinkImg,
           \A g \in GateDirs : g \in dirs /\ ~Removes(Cmd, g) => g \in dirs'
    PROVE  Inv'
<1>1. Seen'
  <2> SUFFICES ASSUME mnt' # {} PROVE Gate' BY DEF Seen
  <2>1. MaybeMounted(Script[job], pc) # {} BY DEF Inv, Tracked
  <2>2. CASE \E g \in GateDirs : SureDir(Script[job], pc, g) /\ ~Removes(Cmd, g)
    <3>1. PICK g \in GateDirs : SureDir(Script[job], pc, g) /\ ~Removes(Cmd, g) BY <2>2
    <3>2. g \in dirs BY <3>1 DEF Inv, Tracked, GateDirs, Dirs
    <3> QED BY <3>1, <3>2 DEF Gate
  <2>3. CASE SureShrink(Script[job], pc) BY <2>3, Zenon DEF Inv, Tracked, Gate
  <2> QED BY <2>1, <2>2, <2>3, Ordered DEF Inv
<1> QED BY <1>1 DEF Inv

\* What umount takes away and leaves: no mount is left under an unmounted one.
LEMMA UmountNests ==
    ASSUME TypeOK, Nested, NEW P \in SUBSET MountPoints
    PROVE  \A m \in Umounted(mnt, P) : m[1] \in CleanDirs /\ <<m[1], "">> \in Umounted(mnt, P)
<1> SUFFICES ASSUME NEW m \in Umounted(mnt, P)
             PROVE  m[1] \in CleanDirs /\ <<m[1], "">> \in Umounted(mnt, P)
  OBVIOUS
<1>1. m \in mnt /\ m[1] \in CleanDirs /\ <<m[1], "">> \in mnt BY DEF Nested, Umounted
<1>2. m \in MountPoints /\ m = <<m[1], m[2]>> /\ m[1] \in Dirs /\ m[2] \in Subs
  <2>1. m \in Dirs \X Subs BY <1>1 DEF TypeOK, MountPoints
  <2> QED BY <2>1, Z3 DEF MountPoints
<1>3. CASE m[2] = "" BY <1>1, <1>2, <1>3
<1>4. CASE m[2] # ""
  <2>1. m \in Below(<<m[1], "">>) BY <1>2, <1>4 DEF Below, Inside, Under
  <2>2. CASE m \notin P BY <1>1, <2>1, <2>2 DEF Umounted
  <2>3. CASE m \in P
    <3>1. PICK b \in Below(m) : b \in mnt /\ b \notin P BY <2>3 DEF Umounted
    <3>2. b \in Below(<<m[1], "">>)
      <4>1. m[2] = "dev" /\ b = <<m[1], "dev/pts">> BY <1>4, <3>1 DEF Below
      <4>2. b \in Inside(m[1]) BY <1>2, <4>1 DEF Inside, Under, Subs
      <4> QED BY <4>2 DEF Below
    <3> QED BY <1>1, <3>1, <3>2 DEF Umounted
  <2> QED BY <2>2, <2>3
<1> QED BY <1>1, <1>3, <1>4

\* What one command may do to the variables of Inv so that it is kept.
LEMMA StepInv ==
    ASSUME Inv, pc # 0, TypeOK', Nested', victims' = {}, job' = job,
           pc' = IF pc = Len(Script[job]) THEN 0 ELSE pc + 1,
           \A m \in mnt' : (m \in mnt /\ ~Unmounts(Cmd, m)) \/ (Cmd.op = "mount" /\ m \in Cmd.at),
           \A d \in dirs : ~Removes(Cmd, d) => d \in dirs',
           Cmd.op = "mkdir" /\ ~Cmd.soft => DirsOf(Cmd) \subseteq dirs',
           shrinkImg /\ Cmd.op # "rmshrink" => shrinkImg',
           Cmd.op = "mvshrink" /\ ~Cmd.soft => shrinkImg',
           maps' => (maps /\ (Cmd.op # "kpartxd" \/ Cmd.soft)) \/ Cmd.op = "kpartx"
    PROVE  Inv'
<1> DEFINE s == Script[job]
<1>0. pc \in Nat /\ pc >= 1 /\ Cmd = s[pc] /\ mnt' \subseteq MountPoints
  BY CmdFacts, ScriptFacts DEF Inv, TypeOK, Cmd
<1>1. Tracked(s, pc) BY DEF Inv
<1> HIDE DEF s
<1>2. mnt' \subseteq MaybeMounted(s, pc + 1) BY <1>0, <1>1, Grow DEF Tracked
<1>3. \A d \in Dirs : SureDir(s, pc + 1, d) => d \in dirs' BY <1>0, <1>1, Grow DEF Tracked
<1>4. SureShrink(s, pc + 1) => shrinkImg' BY <1>0, <1>1, Grow DEF Tracked
<1>5. maps' => MaybeMapped(s, pc + 1) BY <1>0, <1>1, Grow DEF Tracked
<1> QED BY <1>2, <1>3, <1>4, <1>5, AdvanceInv DEF s

\* A command that changes neither mounts, directories, maps nor shrink.img.
LEMMA QuietInv ==
    ASSUME Inv, pc # 0, TypeOK', job' = job,
           pc' = IF pc = Len(Script[job]) THEN 0 ELSE pc + 1,
           UNCHANGED <<mnt, dirs, maps, shrinkImg, victims>>,
           Cmd.soft \/ Cmd.op \notin {"umount", "mkdir", "mvshrink", "kpartxd"}
    PROVE  Inv'
<1>1. Nested' /\ victims' = {} BY DEF Inv, Nested
<1>2. \A m \in mnt' : m \in mnt /\ ~Unmounts(Cmd, m) BY DEF Unmounts
<1>3. \A d \in dirs : d \in dirs' OBVIOUS
<1>4. ~(Cmd.op = "mkdir" /\ ~Cmd.soft) /\ ~(Cmd.op = "mvshrink" /\ ~Cmd.soft) OBVIOUS
<1>5. shrinkImg => shrinkImg' OBVIOUS
<1>6. maps' => maps /\ (Cmd.op # "kpartxd" \/ Cmd.soft) OBVIOUS
<1> QED BY <1>1, <1>2, <1>3, <1>4, <1>5, <1>6, StepInv

\* The commands of lib/function/staging and shrink that mount and unmount.
LEMMA MountInv ==
    ASSUME Inv, TypeOK', MountCommand
    PROVE  Inv'
<1> USE DEF Doing, Advance
<1>0. TypeOK /\ Nested /\ victims = {} BY DEF Inv
<1>1. /\ pc # 0 /\ job' = job /\ victims' = {}
      /\ pc' = IF pc = Len(Script[job]) THEN 0 ELSE pc + 1
      /\ maps' = maps /\ shrinkImg' = shrinkImg
      /\ Cmd.op \notin {"mvshrink", "rmshrink", "kpartx", "kpartxd"}
  BY <1>0 DEF MountCommand, Mkdir, Rmdir, Mount, Umount, Rm, Work, host, files
<1>2. /\ shrinkImg => shrinkImg'
      /\ maps' => maps /\ (Cmd.op # "kpartxd" \/ Cmd.soft)
  BY <1>1
<1>3. ASSUME Nested',
             \A m \in mnt' : \/ m \in mnt /\ ~Unmounts(Cmd, m)
                             \/ Cmd.op = "mount" /\ m \in Cmd.at,
             \A d \in dirs : ~Removes(Cmd, d) => d \in dirs',
             Cmd.op = "mkdir" => DirsOf(Cmd) \subseteq dirs'
      PROVE  Inv'
  BY <1>1, <1>2, <1>3, StepInv
<1>4. CASE Mkdir
  <2>1. Nested' BY <1>4, <1>0 DEF Mkdir, Nested
  <2>2. \A m \in mnt' : m \in mnt /\ ~Unmounts(Cmd, m) BY <1>4 DEF Mkdir, Unmounts
  <2>3. dirs' = dirs \cup DirsOf(Cmd) BY <1>4 DEF Mkdir
  <2> QED BY <1>3, <2>1, <2>2, <2>3
<1>5. CASE Rmdir \/ Rm
  <2>1. Nested' BY <1>5, <1>0 DEF Rmdir, Rm, Nested
  <2>2. \A m \in mnt' : m \in mnt /\ ~Unmounts(Cmd, m) BY <1>5 DEF Rmdir, Rm, Unmounts
  <2>3. \A d \in dirs : ~Removes(Cmd, d) => d \in dirs' BY <1>5 DEF Rmdir, Rm, Removes
  <2>4. Cmd.op # "mkdir" BY <1>5 DEF Rmdir, Rm
  <2> QED BY <1>3, <2>1, <2>2, <2>3, <2>4
<1>6. CASE Mount
  <2>1. mnt' = mnt \cup Cmd.at /\ dirs' = dirs /\ Cmd.op = "mount" BY <1>6 DEF Mount
  <2>2. ASSUME NEW m \in Cmd.at PROVE m[1] \in CleanDirs /\ <<m[1], "">> \in mnt'
    <3>1. m[1] \in DirsOf(Cmd) BY DEF DirsOf
    <3>2. m[1] \in CleanDirs BY <1>0, <1>1, <2>1, <3>1, Ordered
    <3>3. m \in Dirs \X Subs BY <1>0, <1>1, CmdFacts DEF MountPoints
    <3>4. m = <<m[1], m[2]>> BY <3>3, Z3
    <3>5. m[2] # "" => <<m[1], "">> \in mnt BY <1>6 DEF Mount, CanMount
    <3> QED BY <2>1, <3>2, <3>4, <3>5
  <2>3. Nested' BY <1>0, <2>1, <2>2 DEF Nested
  <2>4. \A m \in mnt' : (m \in mnt /\ ~Unmounts(Cmd, m)) \/ m \in Cmd.at BY <2>1 DEF Unmounts
  <2> QED BY <1>3, <2>1, <2>3, <2>4
<1>7. CASE Umount
  <2>1. /\ mnt' = mnt \ Cmd.at /\ Umounted(mnt, Cmd.at) \cap Cmd.at = {}
        /\ dirs' = dirs /\ Cmd.op = "umount"
    BY <1>7 DEF Umount, CanUmount
  <2>2. Umounted(mnt, Cmd.at) = mnt' BY <2>1 DEF Umounted
  <2>3. \A m \in mnt' : m[1] \in CleanDirs /\ <<m[1], "">> \in mnt'
    BY <1>0, <1>1, <2>2, CmdFacts, UmountNests
  <2>4. \A m \in mnt' : m \in mnt /\ ~Unmounts(Cmd, m) BY <2>1, <2>3 DEF Unmounts
  <2>5. Nested' BY <2>3 DEF Nested
  <2> QED BY <1>3, <2>1, <2>4, <2>5
<1>8. CASE Work BY <1>1, <1>8, QuietInv DEF Work, host, files
<1> QED BY <1>4, <1>5, <1>6, <1>7, <1>8 DEF MountCommand

\* The commands on loop devices, maps, image files and the tarball.
LEMMA FileInv ==
    ASSUME Inv, TypeOK', FileCommand
    PROVE  Inv'
<1> USE DEF Doing, Advance, host, files
<1>0. TypeOK /\ Nested /\ victims = {} BY DEF Inv
<1>1. CASE Truncate \/ Losetup \/ Detach \/ MvCwd \/ Finish
  BY <1>1, QuietInv DEF Truncate, Losetup, Detach, MvCwd, Finish
<1>2. CASE TarUp \/ RmImgFile \/ MvTar BY <1>2, QuietInv DEF TarUp, RmImgFile, MvTar
<1>3. CASE Kpartx \/ Kpartxd \/ MvShrink \/ RmShrink
  <2> USE DEF Kpartx, Kpartxd, MvShrink, RmShrink
  <2>1. Nested' /\ victims' = {} /\ UNCHANGED <<mnt, dirs>> BY <1>0, <1>3 DEF Nested
  <2>2. shrinkImg /\ Cmd.op # "rmshrink" => shrinkImg' BY <1>3, Zenon
  <2>3. Cmd.op = "mvshrink" => shrinkImg'
    <3>1. CASE MvShrink BY <3>1, Zenon
    <3>2. CASE ~MvShrink BY <1>3, <3>2
    <3> QED BY <3>1, <3>2
  <2>4. maps' => (maps /\ (Cmd.op # "kpartxd" \/ Cmd.soft)) \/ Cmd.op = "kpartx"
    <3>1. CASE Kpartxd BY <3>1, Zenon
    <3>2. CASE ~Kpartxd BY <1>3, <3>2
    <3> QED BY <3>1, <3>2
  <2>5. pc # 0 /\ Advance /\ Cmd.op \notin {"mkdir", "rmdir", "rm", "umount"} BY <1>3
  <2>6. \A m \in mnt' : m \in mnt /\ ~Unmounts(Cmd, m) BY <2>1, <2>5 DEF Unmounts
  <2>7. \A d \in dirs : d \in dirs' BY <2>1
  <2> QED BY <2>1, <2>2, <2>3, <2>4, <2>5, <2>6, <2>7, StepInv
<1> QED BY <1>1, <1>2, <1>3 DEF FileCommand

\* A command that cannot work, or that fails, in a script with set -e or not.
LEMMA FailInv ==
    ASSUME Inv, TypeOK', Refused \/ Faulted
    PROVE  Inv'
<1> USE DEF host, files
<1>0. TypeOK /\ Nested /\ victims = {} /\ pc # 0 BY DEF Inv, Refused, Faulted
<1>1. /\ maps' = maps /\ shrinkImg' = shrinkImg
      /\ \/ Cmd.soft /\ job' = job /\ pc' = IF pc = Len(Script[job]) THEN 0 ELSE pc + 1
         \/ ~Cmd.soft /\ pc' = 0
  BY DEF Refused, Faulted, Advance, Abort
<1>2. victims' = {}
  <2>1. CASE Refused /\ Cmd.op = "rm"
    <3>1. {m \in mnt : m[1] \in DirsOf(Cmd)} = {} BY <1>0, <2>1, Ordered DEF Inv, Tracked
    <3> QED BY <1>0, <2>1, <3>1 DEF Refused
  <2>2. CASE Faulted \/ (Refused /\ Cmd.op # "rm") BY <1>0, <2>2 DEF Refused, Faulted
  <2> QED BY <2>1, <2>2
<1>3. /\ mnt' \subseteq mnt
      /\ \A m \in mnt' : m[1] \in CleanDirs /\ <<m[1], "">> \in mnt'
  <2>1. CASE mnt' = mnt BY <1>0, <2>1 DEF Nested
  <2>2. CASE \E P \in SUBSET Cmd.at : mnt' = Umounted(mnt, P)
    <3>1. PICK P \in SUBSET Cmd.at : mnt' = Umounted(mnt, P) BY <2>2
    <3>2. P \in SUBSET MountPoints BY <1>0, CmdFacts
    <3>3. Umounted(mnt, P) \subseteq mnt BY DEF Umounted
    <3> QED BY <1>0, <3>1, <3>2, <3>3, UmountNests
  <2> QED BY <2>1, <2>2 DEF Refused, Faulted
<1>4. \A d \in dirs : ~Removes(Cmd, d) => d \in dirs' BY DEF Refused, Faulted, Removes
<1>5. Nested' BY <1>3 DEF Nested
<1>6. CASE Cmd.soft
  <2>1. \A m \in mnt' : m \in mnt /\ ~Unmounts(Cmd, m) BY <1>3, <1>6 DEF Unmounts
  <2>2. shrinkImg => shrinkImg' BY <1>1
  <2>3. maps' => maps /\ (Cmd.op # "kpartxd" \/ Cmd.soft) BY <1>1, <1>6
  <2> QED BY <1>0, <1>1, <1>2, <1>4, <1>5, <1>6, <2>1, <2>2, <2>3, StepInv
<1>7. CASE ~Cmd.soft
  <2>1. \A g \in GateDirs : g \in dirs /\ ~Removes(Cmd, g) => g \in dirs' BY <1>4
  <2> QED BY <1>0, <1>1, <1>2, <1>3, <1>5, <1>7, <2>1, AbortInv
<1> QED BY <1>6, <1>7

\* After a clean nothing is mounted, whoever ran it and whatever came before.
LEMMA CleanInv ==
    ASSUME Inv, TypeOK', Clean, pc' = 0
    PROVE  Inv'
<1>1. mnt' = {} /\ victims' = {} /\ ~maps' BY CleanEmpties
<1> QED BY <1>1 DEF Inv, Nested, Seen

\* The inductive invariant holds whatever jobs run, fail and are restarted.
THEOREM Invariance == Spec => []Inv
<1>1. Init /\ TypeOK => Inv
  <2> SUFFICES ASSUME Init, TypeOK PROVE Inv OBVIOUS
  <2>1. ~maps BY Zenon DEF Init
  <2> QED BY <2>1 DEF Init, Inv, Nested, Seen
<1>2. Inv /\ TypeOK' /\ [Next]_vars => Inv'
  <2> SUFFICES ASSUME Inv, TypeOK', [Next]_vars PROVE Inv' OBVIOUS
  <2> USE DEF host, files, image, ctl
  <2>1. CASE Start
    <3>1. mnt' = {} /\ victims' = {} /\ ~maps'
      <4>1. CASE Gate
        <5>1. Clean BY <2>1, <4>1 DEF Start
        <5> QED BY <5>1, CleanEmpties
      <4>2. CASE ~Gate
        <5>1. pc = 0 /\ mnt' = mnt /\ victims' = victims /\ maps' = maps BY <2>1, <4>2 DEF Start
        <5>2. mnt = {} /\ victims = {} /\ ~maps BY <4>2, <5>1 DEF Inv, Seen, Gate
        <5> QED BY <5>1, <5>2
      <4> QED BY <4>1, <4>2
    <3>2. pc' = 1 BY <2>1 DEF Start
    <3>3. Tracked(Script[job], pc)' BY <3>1, <3>2, AtStart DEF Tracked
    <3>4. Nested' /\ pc' # 0 BY <3>1, <3>2 DEF Nested
    <3> QED BY <3>1, <3>3, <3>4, Zenon DEF Inv
  <2>2. CASE MakeClean BY <2>2, CleanInv DEF MakeClean
  <2>3. CASE HostReboot
    <3>1. pc' = 0 /\ mnt' = {} /\ victims' = {} BY <2>3 DEF HostReboot, Inv
    <3>2. ~maps' BY <2>3, Zenon DEF HostReboot
    <3> QED BY <3>1, <3>2 DEF Inv, Nested, Seen
  <2>4. CASE MountCommand BY <2>4, MountInv
  <2>5. CASE FileCommand BY <2>5, FileInv
  <2>6. CASE ImageCommand BY <2>6, QuietInv
    DEF ImageCommand, Mkfs, Uuid, Fstab, BootCfg, Board09, UpdateGrub, SedGrub,
        Copy, Content, Doing, Advance
  <2>7. CASE NeedTar
    <3>1. CASE Advance /\ UNCHANGED <<host, files, victims>>
      <4>1. pc # 0 /\ Cmd.op = "needtar" BY <2>7 DEF NeedTar, Doing
      <4> QED BY <3>1, <4>1, QuietInv DEF Advance
    <3>2. CASE Clean /\ pc' = 0 BY <3>2, CleanInv
    <3> QED BY <2>7, <3>1, <3>2 DEF NeedTar
  <2>8. CASE HaveTar
    <3>0. pc # 0 /\ Cmd.op = "havetar" /\ UNCHANGED <<host, files, victims>>
      BY <2>8 DEF HaveTar, Doing
    <3>1. CASE Advance BY <3>0, <3>1, QuietInv DEF Advance
    <3>2. CASE pc' = 0
      <4>1. Nested' /\ victims' = {} BY <3>0 DEF Inv, Nested
      <4>2. /\ mnt' \subseteq mnt /\ maps' = maps /\ shrinkImg' = shrinkImg
            /\ \A g \in GateDirs : g \in dirs /\ ~Removes(Cmd, g) => g \in dirs'
        BY <3>0
      <4> QED BY <3>0, <3>2, <4>1, <4>2, AbortInv
    <3> QED BY <2>8, <3>1, <3>2 DEF HaveTar
  <2>9. CASE Refused \/ Faulted BY <2>9, FailInv
  <2>10. CASE UNCHANGED vars BY <2>10 DEF vars, Inv, Nested, Seen, Gate, Tracked
  <2> QED BY <2>1, <2>2, <2>3, <2>4, <2>5, <2>6, <2>7, <2>8, <2>9, <2>10 DEF Next
<1> QED BY <1>1, <1>2, Typing, PTL DEF Spec

\* scripts/clean:8, shrink:81,134 and rootfs:89: no rm -fdr ever descends
\* into a mounted tree, for any jobs with well ordered scripts, stopped at
\* any command any number of times.
THEOREM RmSafe == Spec => []RmSparesMounts
<1>1. Inv => RmSparesMounts BY DEF Inv, RmSparesMounts
<1> QED BY <1>1, Invariance, PTL

\* stage1:38 and rootfs:12: the gate is strong enough for any such jobs.
THEOREM GateSafe == Spec => []StartsUnmounted
<1>1. Inv => StartsUnmounted
  <2> SUFFICES ASSUME Inv, pc = 1 PROVE mnt = {} /\ ~maps BY DEF StartsUnmounted
  <2>1. Tracked(Script[job], 1) BY DEF Inv
  <2> QED BY <2>1, AtStart DEF Tracked
<1> QED BY <1>1, Invariance, PTL

\* `make clean` after any history leaves nothing mounted, mapped, attached
\* or created.
THEOREM CleanSafe == Spec => CleanRestores
<1>1. Inv /\ [Next]_vars => [MakeClean => Quiet']_vars
  <2> SUFFICES ASSUME Inv, MakeClean PROVE Quiet' OBVIOUS
  <2> QED BY CleanEmpties DEF MakeClean, Quiet
<1> QED BY <1>1, Invariance, PTL DEF Spec, CleanRestores
-----------------------------------------------------------------------------
\* The rules on Since, one command further.

\* A command of A stands before i + 1, and none of B since: it is command i,
\* or it stood before i and command i is not of B.
LEMMA SinceNext ==
    ASSUME NEW i \in Nat, NEW A \in SUBSET Nat, NEW B \in SUBSET Nat
    PROVE  Since(i + 1, A, B) <=> i \in A \/ (Since(i, A, B) /\ i \notin B)
<1>1. ASSUME Since(i + 1, A, B) PROVE i \in A \/ (Since(i, A, B) /\ i \notin B)
  <2>1. PICK k \in A : k < i + 1 /\ \A n \in B : ~(k < n /\ n < i + 1) BY <1>1 DEF Since
  <2>2. CASE k = i BY <2>1, <2>2
  <2>3. CASE k # i
    <3>1. k \in Nat /\ k < i BY <2>1, <2>3
    <3>2. \A n \in B : n \in Nat /\ ~(k < n /\ n < i) /\ n # i BY <2>1, <3>1
    <3> QED BY <2>1, <3>1, <3>2 DEF Since
  <2> QED BY <2>2, <2>3
<1>2. ASSUME i \in A PROVE Since(i + 1, A, B)
  <2>1. i < i + 1 /\ \A n \in B : ~(i < n /\ n < i + 1) OBVIOUS
  <2> QED BY <1>2, <2>1 DEF Since
<1>3. ASSUME Since(i, A, B), i \notin B PROVE Since(i + 1, A, B)
  <2>1. PICK k \in A : k < i /\ \A n \in B : ~(k < n /\ n < i) BY <1>3 DEF Since
  <2>2. k < i + 1 /\ \A n \in B : ~(k < n /\ n < i + 1) BY <1>3, <2>1
  <2> QED BY <2>1, <2>2 DEF Since
<1> QED BY <1>1, <1>2, <1>3

\* Nothing stands before the first command.
LEMMA SinceStart ==
    ASSUME NEW A \in SUBSET (Nat \ {0}), NEW B
    PROVE  ~Since(1, A, B)
  BY DEF Since

\* The commands of a script are numbered from 1.
LEMMA UsesAre ==
    ASSUME NEW s, Len(s) \in Nat, NEW O
    PROVE  /\ Uses(s, O) \in SUBSET (Nat \ {0}) /\ Hard(s, O) \in SUBSET (Nat \ {0})
           /\ \A k \in 1..Len(s) : /\ k \in Uses(s, O) <=> s[k].op \in O
                                   /\ k \in Hard(s, O) <=> s[k].op \in O /\ ~s[k].soft
  BY DEF Uses, Hard

\* A job that goes on has just been started or has run its next command.
LEMMA Onward ==
    ASSUME TypeOK, Next, pc' # 0, ~Start
    PROVE  /\ pc # 0 /\ pc \in 1..Len(Script[job]) /\ pc' = pc + 1 /\ job' = job
           /\ Len(Script[job]) \in Nat /\ Cmd = Script[job][pc] /\ ~MakeClean /\ ~HostReboot
<1>1. ~MakeClean /\ ~HostReboot BY DEF MakeClean, HostReboot, ctl
<1>2. pc # 0 /\ job' = job /\ pc' = IF pc = Len(Script[job]) THEN 0 ELSE pc + 1
  BY <1>1 DEF Next, MountCommand, FileCommand, ImageCommand, Mkdir, Rmdir, Mount, Umount, Rm,
     Work, Truncate, Losetup, Detach, Kpartx, Kpartxd, MvCwd, MvShrink, RmShrink, Finish, TarUp,
     RmImgFile, MvTar, Mkfs, Uuid, Fstab, BootCfg, Board09, UpdateGrub, SedGrub, Copy, Content,
     NeedTar, HaveTar, Refused, Faulted, Abort, Doing, Advance
<1> QED BY <1>1, <1>2, CmdFacts, ScriptFacts DEF TypeOK, Cmd

-----------------------------------------------------------------------------
\* The tarball

TarInv ==
    /\ tarOut \in {"none", "pure"}
    /\ pc # 0 => /\ TarHeld(Script[job], pc) => tarCwd = "pure" \/ Inside("sysroot") \cap mnt # {}
                 /\ TarShown(Script[job], pc) => tarCwd = "pure"

\* What is held or shown after the next command.
LEMMA TarNext ==
    ASSUME NEW s, Len(s) \in Nat, NEW i \in 1..Len(s)
    PROVE  /\ TarHeld(s, i + 1) =>
                \/ s[i].op = "tar" /\ ~s[i].soft
                \/ /\ TarHeld(s, i) /\ s[i].op \notin {"tar", "mvtar"}
                   /\ s[i].op = "umount" => s[i].at \cap Under("sysroot") = {}
           /\ TarShown(s, i + 1) =>
                \/ /\ s[i].op = "umount" /\ ~s[i].soft /\ TarHeld(s, i)
                   /\ <<"sysroot", "">> \in s[i].at /\ s[i].at \cap Inside("sysroot") = {}
                \/ TarShown(s, i) /\ s[i].op \notin {"tar", "mvtar"}
           /\ ~TarHeld(s, 1) /\ ~TarShown(s, 1)
<1> DEFINE U == Uses(s, {"tar", "mvtar"})
           V == {k \in Uses(s, {"umount"}) : s[k].at \cap Under("sysroot") # {}}
           W == {k \in Hard(s, {"umount"}) : /\ <<"sysroot", "">> \in s[k].at /\ s[k].at \cap Inside("sysroot") = {}
                                            /\ TarHeld(s, k)}
<1>a. U \in SUBSET (Nat \ {0}) /\ Uses(s, {"umount"}) \in SUBSET (Nat \ {0}) BY UsesAre
<1>b. Hard(s, {"umount"}) \in SUBSET (Nat \ {0}) /\ Hard(s, {"tar"}) \in SUBSET (Nat \ {0}) BY UsesAre
<1>f. V \subseteq Uses(s, {"umount"}) /\ W \subseteq Hard(s, {"umount"}) OBVIOUS
<1>1. /\ U \cup V \in SUBSET Nat /\ U \in SUBSET Nat /\ W \in SUBSET (Nat \ {0}) /\ W \in SUBSET Nat
      /\ Hard(s, {"tar"}) \in SUBSET Nat /\ i \in Nat
  <2> HIDE DEF U, V, W
  <2>1. U \cup V \in SUBSET Nat /\ U \in SUBSET Nat BY <1>a, <1>f
  <2>2. W \in SUBSET (Nat \ {0}) /\ W \in SUBSET Nat /\ Hard(s, {"tar"}) \in SUBSET Nat BY <1>b, <1>f
  <2> QED BY <2>1, <2>2
<1>2. (i \in U <=> s[i].op \in {"tar", "mvtar"}) /\ (i \in V <=> s[i].op = "umount" /\ s[i].at \cap Under("sysroot") # {})
  BY UsesAre
<1>c. i \in Hard(s, {"umount"}) => s[i].op = "umount" /\ ~s[i].soft BY UsesAre
<1>3. i \in W => /\ s[i].op = "umount" /\ ~s[i].soft /\ TarHeld(s, i)
                 /\ <<"sysroot", "">> \in s[i].at /\ s[i].at \cap Inside("sysroot") = {}
  BY <1>c
<1>4. i \in Hard(s, {"tar"}) => s[i].op = "tar" /\ ~s[i].soft BY UsesAre
<1>5. \A n : TarHeld(s, n) <=> Since(n, Hard(s, {"tar"}), U \cup V) BY DEF TarHeld
<1>6. \A n : TarShown(s, n) <=> Since(n, W, U) BY DEF TarShown
<1> DEFINE UV == U \cup V
           T == Hard(s, {"tar"})
<1>d. UV \in SUBSET Nat /\ T \in SUBSET Nat /\ \A n : TarHeld(s, n) <=> Since(n, T, UV) BY <1>1, <1>5
<1> HIDE DEF U, V, W, UV, T
<1>e. Since(i + 1, T, UV) <=> i \in T \/ (Since(i, T, UV) /\ i \notin UV) BY <1>1, <1>d, SinceNext
<1>7. TarHeld(s, i + 1) => i \in Hard(s, {"tar"}) \/ (TarHeld(s, i) /\ i \notin U \cup V)
  BY <1>d, <1>e DEF T, UV
<1>8. TarShown(s, i + 1) => i \in W \/ (TarShown(s, i) /\ i \notin U) BY <1>1, <1>6, SinceNext
<1>9. ~TarHeld(s, 1) /\ ~TarShown(s, 1) BY <1>1, <1>b, <1>5, <1>6, SinceStart
<1> QED BY <1>2, <1>3, <1>4, <1>7, <1>8, <1>9

\* What a command that lets the job go on does to the tarball and the mounts.
LEMMA TarEffect ==
    ASSUME TypeOK, Next, pc' # 0, ~Start
    PROVE  /\ Cmd.op \notin {"tar", "mvtar"} => tarCwd' = tarCwd
           /\ Cmd.op = "tar" /\ ~Cmd.soft => /\ tarCwd' = IF Inside("sysroot") \cap mnt = {} THEN "pure" ELSE "polluted"
                                             /\ mnt' = mnt
           /\ \A m \in mnt : ~(Cmd.op = "umount" /\ m \in Cmd.at) => m \in mnt'
           /\ Cmd.op = "umount" /\ ~Cmd.soft => CanUmount(Cmd) /\ mnt' = mnt \ Cmd.at
<1> USE Onward
<1> USE DEF host, files, image, Doing
<1>1. CASE MountCommand BY <1>1 DEF MountCommand, Mkdir, Rmdir, Mount, Umount, Rm, Work
<1>2. CASE FileCommand
  BY <1>2 DEF FileCommand, Truncate, Losetup, Detach, Kpartx, Kpartxd, MvCwd, MvShrink,
     RmShrink, Finish, TarUp, RmImgFile, MvTar
<1>3. CASE ImageCommand
  BY <1>3 DEF ImageCommand, Mkfs, Uuid, Fstab, BootCfg, Board09, UpdateGrub, SedGrub, Copy,
     Content
<1>4. CASE NeedTar \/ HaveTar BY <1>4 DEF NeedTar, HaveTar
<1>5. CASE Refused \/ Faulted
  <2>1. Cmd.soft BY <1>5 DEF Refused, Faulted, Abort
  <2>2. Cmd.op \notin {"tar", "mvtar"} => tarCwd' = tarCwd BY <1>5 DEF Refused, Faulted
  <2>3. ASSUME NEW m \in mnt, ~(Cmd.op = "umount" /\ m \in Cmd.at) PROVE m \in mnt'
    BY <1>5, <2>3 DEF Refused, Faulted, Umounted
  <2> QED BY <2>1, <2>2, <2>3
<1> QED BY <1>1, <1>2, <1>3, <1>4, <1>5 DEF Next

\* Only MvTar brings a tarball to output/.
LEMMA TarOutEffect ==
    ASSUME Next
    PROVE  tarOut' = tarOut \/ (Doing("mvtar") /\ tarOut' = tarCwd)
<1> USE DEF host, files, image
<1>1. CASE Start \/ MakeClean \/ HostReboot BY <1>1 DEF Start, MakeClean, HostReboot, Clean
<1>2. CASE MountCommand BY <1>2 DEF MountCommand, Mkdir, Rmdir, Mount, Umount, Rm, Work
<1>3. CASE FileCommand
  BY <1>3 DEF FileCommand, Truncate, Losetup, Detach, Kpartx, Kpartxd, MvCwd, MvShrink,
     RmShrink, Finish, TarUp, RmImgFile, MvTar
<1>4. CASE ImageCommand
  BY <1>4 DEF ImageCommand, Mkfs, Uuid, Fstab, BootCfg, Board09, UpdateGrub, SedGrub, Copy,
     Content
<1>5. CASE NeedTar \/ HaveTar \/ Refused \/ Faulted
  BY <1>5 DEF NeedTar, HaveTar, Refused, Faulted, Clean
<1> QED BY <1>1, <1>2, <1>3, <1>4, <1>5 DEF Next

\* Every step keeps what is known of the tarball.
LEMMA TarStep == TypeOK /\ TarInv /\ [Next]_vars => TarInv'
<1> SUFFICES ASSUME TypeOK, TarInv, [Next]_vars PROVE TarInv' OBVIOUS
<1>1. CASE UNCHANGED vars BY <1>1 DEF vars, host, files, ctl, TarInv
<1>2. ASSUME Next PROVE tarOut' \in {"none", "pure"}
  <2>1. CASE tarOut' = tarOut BY <2>1 DEF TarInv
  <2>2. CASE Doing("mvtar") /\ tarOut' = tarCwd
    <3>1. pc # 0 /\ pc \in 1..Len(Script[job]) /\ Script[job][pc].op = "mvtar" /\ job \in Jobs /\ Len(Script[job]) \in Nat
      BY <2>2, CmdFacts, ScriptFacts DEF Doing, Cmd, TypeOK
    <3>2. pc \in Uses(Script[job], {"mvtar"}) /\ TarOrdered(Script[job])
      BY <3>1, UsesAre, TarAssumption
    <3> QED BY <2>2, <3>1, <3>2 DEF TarOrdered, TarInv
  <2> QED BY <1>2, <2>1, <2>2, TarOutEffect
<1>3. CASE Next /\ Start
  <2>1. pc' = 1 /\ job' \in Jobs BY <1>3 DEF Start
  <2> DEFINE s == Script[job']
  <2>2. Len(s) \in Nat /\ 1 \in 1..Len(s) BY <2>1, ScriptFacts
  <2> HIDE DEF s
  <2>3. ~TarHeld(s, 1) /\ ~TarShown(s, 1) BY <2>2, TarNext
  <2> QED BY <1>2, <1>3, <2>1, <2>3 DEF TarInv, s
<1>4. CASE Next /\ ~Start /\ pc' # 0
  <2> DEFINE s == Script[job]
  <2>1. /\ pc # 0 /\ pc \in 1..Len(s) /\ pc' = pc + 1 /\ job' = job /\ Len(s) \in Nat /\ Cmd = s[pc]
    BY <1>4, Onward
  <2>2. /\ TarHeld(s, pc) => tarCwd = "pure" \/ Inside("sysroot") \cap mnt # {}
        /\ TarShown(s, pc) => tarCwd = "pure"
    BY <2>1 DEF TarInv
  <2> HIDE DEF s
  <2>3. ASSUME TarHeld(s, pc + 1) PROVE tarCwd' = "pure" \/ Inside("sysroot") \cap mnt' # {}
    <3>1. CASE Cmd.op = "tar" /\ ~Cmd.soft BY <1>4, <3>1, TarEffect
    <3>2. CASE /\ TarHeld(s, pc) /\ Cmd.op \notin {"tar", "mvtar"}
               /\ Cmd.op = "umount" => Cmd.at \cap Under("sysroot") = {}
      <4>1. tarCwd' = tarCwd BY <1>4, <3>2, TarEffect
      <4>2. \A m \in Inside("sysroot") \cap mnt : m \in mnt' BY <1>4, <3>2, TarEffect DEF Inside
      <4> QED BY <2>2, <3>2, <4>1, <4>2
    <3> QED BY <2>1, <2>3, <3>1, <3>2, TarNext
  <2>4. ASSUME TarShown(s, pc + 1) PROVE tarCwd' = "pure"
    <3>1. CASE /\ Cmd.op = "umount" /\ ~Cmd.soft /\ TarHeld(s, pc)
               /\ <<"sysroot", "">> \in Cmd.at /\ Cmd.at \cap Inside("sysroot") = {}
      <4>1. CanUmount(Cmd) /\ tarCwd' = tarCwd BY <1>4, <3>1, TarEffect
      <4>2. Inside("sysroot") \cap mnt = {}
        <5>1. <<"sysroot", "">> \in mnt /\ <<"sysroot", "">> \notin Umounted(mnt, Cmd.at)
          BY <3>1, <4>1 DEF CanUmount
        <5>2. Below(<<"sysroot", "">>) = Inside("sysroot") BY DEF Below
        <5>3. (Inside("sysroot") \cap mnt) \ Cmd.at = {} BY <5>1, <5>2 DEF Umounted
        <5> QED BY <3>1, <5>3
      <4> QED BY <2>2, <3>1, <4>1, <4>2
    <3>2. CASE TarShown(s, pc) /\ Cmd.op \notin {"tar", "mvtar"} BY <1>4, <2>2, <3>2, TarEffect
    <3> QED BY <2>1, <2>4, <3>1, <3>2, TarNext
  <2>5. tarOut' \in {"none", "pure"} BY <1>2, <1>4
  <2> QED BY <2>1, <2>3, <2>4, <2>5 DEF s, TarInv
<1>5. CASE Next /\ pc' = 0 BY <1>2, <1>5 DEF TarInv
<1> QED BY <1>1, <1>3, <1>4, <1>5

\* rootfs:77-97: a tarball in output/tarball is whole and was made with
\* nothing mounted inside sysroot, for any scripts that move it there only
\* after an unmount of sysroot has shown that nothing was (TarOrdered).
THEOREM TarballIsPure == Spec => []TarballPure
<1>1. Init => TarInv BY DEF Init, TarInv
<1>2. TarInv => TarballPure BY DEF TarInv, TarballPure
<1> QED BY <1>1, <1>2, TarStep, Typing, PTL DEF Spec

-----------------------------------------------------------------------------
\* The image

\* SinceNext and SinceStart for the commands of a script.
LEMMA SinceOf ==
    ASSUME NEW s, Len(s) \in Nat, NEW i \in 1..Len(s), NEW A, NEW B, A \subseteq 1..Len(s), B \subseteq 1..Len(s)
    PROVE  /\ Since(i + 1, A, B) <=> i \in A \/ (Since(i, A, B) /\ i \notin B)
           /\ ~Since(1, A, B)
<1>1. A \in SUBSET Nat /\ B \in SUBSET Nat /\ A \in SUBSET (Nat \ {0}) /\ i \in Nat OBVIOUS
<1> QED BY <1>1, SinceNext, SinceStart

\* Known, Made and Fstabbed after the next command.
LEMMA KnownNext ==
    ASSUME NEW s, Len(s) \in Nat, NEW i \in 1..Len(s)
    PROVE  /\ Known(s, i + 1) => (s[i].op = "uuid" /\ ~s[i].soft) \/ (Known(s, i) /\ s[i].op # "mkfs")
           /\ Made(s, i + 1) => (s[i].op = "mkfs" /\ ~s[i].soft) \/ Made(s, i)
           /\ ~Known(s, 1) /\ ~Made(s, 1)
<1> DEFINE A == Hard(s, {"uuid"})
           B == Uses(s, {"mkfs"})
           C == Hard(s, {"mkfs"})
           D == {}
<1>1. A \subseteq 1..Len(s) /\ B \subseteq 1..Len(s) /\ C \subseteq 1..Len(s) /\ D \subseteq 1..Len(s)
  BY DEF Hard, Uses
<1>2. /\ i \in A <=> s[i].op = "uuid" /\ ~s[i].soft
      /\ i \in B <=> s[i].op = "mkfs"
      /\ i \in C <=> s[i].op = "mkfs" /\ ~s[i].soft
  BY UsesAre
<1>3. \A n : (Known(s, n) <=> Since(n, A, B)) /\ (Made(s, n) <=> Since(n, C, D)) BY DEF Known, Made
<1> HIDE DEF A, B, C, D
<1>4. (Since(i + 1, A, B) <=> i \in A \/ (Since(i, A, B) /\ i \notin B)) /\ ~Since(1, A, B)
  BY <1>1, SinceOf
<1>5. (Since(i + 1, C, D) <=> i \in C \/ (Since(i, C, D) /\ i \notin D)) /\ ~Since(1, C, D)
  BY <1>1, SinceOf
<1> QED BY <1>2, <1>3, <1>4, <1>5

\* A command that ran with the ids known.
LEMMA KnownOpIs ==
    ASSUME NEW s, Len(s) \in Nat, NEW i \in 1..Len(s), NEW o
    PROVE  /\ KnownOp(s, o) \subseteq 1..Len(s)
           /\ i \in KnownOp(s, o) <=> s[i].op = o /\ ~s[i].soft /\ Known(s, i)
  BY DEF KnownOp, Hard, Uses

\* What was written to fstab and to the menu.
LEMMA WrittenNext ==
    ASSUME NEW s, Len(s) \in Nat, NEW i \in 1..Len(s)
    PROVE  /\ Fstabbed(s, i + 1) => \/ s[i].op = "fstab" /\ ~s[i].soft /\ Known(s, i)
                                    \/ Fstabbed(s, i) /\ s[i].op \notin {"mkfs", "copy", "fstab"}
           /\ NewEntry(s, i + 1) => \/ s[i].op = "board_09" /\ ~s[i].soft /\ Known(s, i)
                                    \/ NewEntry(s, i) /\ s[i].op \notin {"mkfs", "copy", "board_09", "sedgrub"}
           /\ ~Fstabbed(s, 1) /\ ~NewEntry(s, 1)
<1> DEFINE A == KnownOp(s, "fstab")
           B == Renewed(s) \cup Uses(s, {"fstab"})
           C == KnownOp(s, "board_09")
           D == Entering(s)
<1>1. A \subseteq 1..Len(s) /\ B \subseteq 1..Len(s) /\ C \subseteq 1..Len(s) /\ D \subseteq 1..Len(s)
  BY KnownOpIs DEF Renewed, Entering, Uses
<1>2. /\ i \in A <=> s[i].op = "fstab" /\ ~s[i].soft /\ Known(s, i)
      /\ i \in C <=> s[i].op = "board_09" /\ ~s[i].soft /\ Known(s, i)
  BY KnownOpIs
<1>3. /\ i \in B <=> s[i].op \in {"mkfs", "copy", "fstab"}
      /\ i \in D <=> s[i].op \in {"mkfs", "copy", "board_09", "sedgrub"}
  BY DEF Renewed, Entering, Uses
<1>4. \A n : (Fstabbed(s, n) <=> Since(n, A, B)) /\ (NewEntry(s, n) <=> Since(n, C, D))
  BY DEF Fstabbed, NewEntry
<1> HIDE DEF A, B, C, D
<1>5. (Since(i + 1, A, B) <=> i \in A \/ (Since(i, A, B) /\ i \notin B)) /\ ~Since(1, A, B)
  BY <1>1, SinceOf
<1>6. (Since(i + 1, C, D) <=> i \in C \/ (Since(i, C, D) /\ i \notin D)) /\ ~Since(1, C, D)
  BY <1>1, SinceOf
<1> QED BY <1>2, <1>3, <1>4, <1>5, <1>6

\* What shrink.img keeps of the image it was made from.
LEMMA OldNext ==
    ASSUME NEW s, Len(s) \in Nat, NEW i \in 1..Len(s)
    PROVE  /\ Kept(s, i + 1) => \/ s[i].op = "mvshrink" /\ ~s[i].soft /\ Known(s, i) /\ Made(s, i)
                                \/ Kept(s, i) /\ s[i].op # "mvshrink"
           /\ OldEntry(s, i + 1) => \/ s[i].op = "mvshrink" /\ ~s[i].soft /\ Known(s, i) /\ NewEntry(s, i)
                                    \/ OldEntry(s, i) /\ s[i].op # "mvshrink"
           /\ ~Kept(s, 1) /\ ~OldEntry(s, 1)
<1> DEFINE A == {k \in KnownOp(s, "mvshrink") : Made(s, k)}
           B == Uses(s, {"mvshrink"})
           C == {k \in KnownOp(s, "mvshrink") : NewEntry(s, k)}
<1>1. A \subseteq 1..Len(s) /\ B \subseteq 1..Len(s) /\ C \subseteq 1..Len(s) BY KnownOpIs DEF Uses
<1>2. /\ i \in A <=> s[i].op = "mvshrink" /\ ~s[i].soft /\ Known(s, i) /\ Made(s, i)
      /\ i \in C <=> s[i].op = "mvshrink" /\ ~s[i].soft /\ Known(s, i) /\ NewEntry(s, i)
  BY KnownOpIs
<1>3. i \in B <=> s[i].op = "mvshrink" BY DEF Uses
<1>4. \A n : (Kept(s, n) <=> Since(n, A, B)) /\ (OldEntry(s, n) <=> Since(n, C, B))
  BY DEF Kept, OldEntry
<1> HIDE DEF A, B, C
<1>5. (Since(i + 1, A, B) <=> i \in A \/ (Since(i, A, B) /\ i \notin B)) /\ ~Since(1, A, B)
  BY <1>1, SinceOf
<1>6. (Since(i + 1, C, B) <=> i \in C \/ (Since(i, C, B) /\ i \notin B)) /\ ~Since(1, C, B)
  BY <1>1, SinceOf
<1> QED BY <1>2, <1>3, <1>4, <1>5, <1>6

\* Whether there is a menu entry, and which ids it names.
LEMMA EntryNext ==
    ASSUME NEW s, Len(s) \in Nat, NEW i \in 1..Len(s)
    PROVE  /\ CopiedEntry(s, i + 1) =>
                \/ s[i].op = "copy" /\ ~s[i].soft /\ OldEntry(s, i)
                \/ CopiedEntry(s, i) /\ s[i].op \notin {"mkfs", "copy", "board_09", "sedgrub", "mvshrink"}
           /\ NoEntry(s, i + 1) => /\ NoEntry(s, i) /\ s[i].op # "board_09"
                                   /\ s[i].op = "sedgrub" => Kept(s, i)
           /\ Entered(s, i + 1) =>
                \/ s[i].op = "board_09" /\ ~s[i].soft /\ Known(s, i)
                \/ s[i].op = "sedgrub" /\ ~s[i].soft /\ Known(s, i) /\ CopiedEntry(s, i)
                \/ Entered(s, i) /\ s[i].op \notin {"mkfs", "copy", "board_09", "sedgrub"}
           /\ ~CopiedEntry(s, 1) /\ ~Entered(s, 1)
<1> DEFINE A == {k \in Hard(s, {"copy"}) : OldEntry(s, k)}
           B == Entering(s) \cup Uses(s, {"mvshrink"})
           C == Uses(s, {"board_09"}) \cup {k \in Uses(s, {"sedgrub"}) : ~Kept(s, k)}
           D == {}
           F == KnownOp(s, "board_09") \cup {k \in KnownOp(s, "sedgrub") : CopiedEntry(s, k)}
           G == Entering(s)
<1>1. A \subseteq 1..Len(s) /\ B \subseteq 1..Len(s) /\ C \subseteq 1..Len(s) /\ D \subseteq 1..Len(s)
  BY DEF Entering, Renewed, Hard, Uses
<1>2. F \subseteq 1..Len(s) /\ G \subseteq 1..Len(s) BY KnownOpIs DEF Entering, Renewed, Uses
<1>3. i \in A <=> s[i].op = "copy" /\ ~s[i].soft /\ OldEntry(s, i) BY DEF Hard, Uses
<1>4. /\ i \in B <=> s[i].op \in {"mkfs", "copy", "board_09", "sedgrub", "mvshrink"}
      /\ i \in C <=> s[i].op = "board_09" \/ (s[i].op = "sedgrub" /\ ~Kept(s, i))
      /\ i \in G <=> s[i].op \in {"mkfs", "copy", "board_09", "sedgrub"}
  BY DEF Entering, Renewed, Uses
<1>5. i \in F <=> \/ s[i].op = "board_09" /\ ~s[i].soft /\ Known(s, i)
                  \/ s[i].op = "sedgrub" /\ ~s[i].soft /\ Known(s, i) /\ CopiedEntry(s, i)
  BY KnownOpIs
<1>6. \A n : /\ CopiedEntry(s, n) <=> Since(n, A, B)
             /\ NoEntry(s, n) <=> ~Since(n, C, D)
             /\ Entered(s, n) <=> Since(n, F, G)
  BY DEF CopiedEntry, NoEntry, Entered
<1> HIDE DEF A, B, C, D, F, G
<1>7. (Since(i + 1, A, B) <=> i \in A \/ (Since(i, A, B) /\ i \notin B)) /\ ~Since(1, A, B)
  BY <1>1, SinceOf
<1>8. Since(i + 1, C, D) <=> i \in C \/ (Since(i, C, D) /\ i \notin D) BY <1>1, SinceOf
<1>9. (Since(i + 1, F, G) <=> i \in F \/ (Since(i, F, G) /\ i \notin G)) /\ ~Since(1, F, G)
  BY <1>2, SinceOf
<1>10. i \notin D BY DEF D
<1> QED BY <1>3, <1>4, <1>5, <1>6, <1>7, <1>8, <1>9, <1>10

\* Whether the boot configuration names the new ids.
LEMMA BootedNext ==
    ASSUME NEW s, Len(s) \in Nat, NEW i \in 1..Len(s)
    PROVE  /\ Booted(s, i + 1) =>
                \/ s[i].op = "bootcfg" /\ ~s[i].soft /\ Known(s, i)
                \/ s[i].op = "updategrub" /\ ~s[i].soft /\ Made(s, i) /\ (NoEntry(s, i) \/ Entered(s, i))
                \/ Booted(s, i) /\ s[i].op \notin {"mkfs", "copy", "bootcfg", "updategrub"}
           /\ ~Booted(s, 1)
<1> DEFINE A == KnownOp(s, "bootcfg")
           C == {k \in Hard(s, {"updategrub"}) : Made(s, k) /\ (NoEntry(s, k) \/ Entered(s, k))}
           AC == A \cup C
           B == Renewed(s) \cup Uses(s, {"bootcfg", "updategrub"})
<1>1. A \subseteq 1..Len(s) /\ (i \in A <=> s[i].op = "bootcfg" /\ ~s[i].soft /\ Known(s, i))
  BY KnownOpIs
<1>2. /\ C \subseteq 1..Len(s)
      /\ i \in C <=> s[i].op = "updategrub" /\ ~s[i].soft /\ Made(s, i) /\ (NoEntry(s, i) \/ Entered(s, i))
  BY DEF Hard, Uses
<1>3. B \subseteq 1..Len(s) /\ (i \in B <=> s[i].op \in {"mkfs", "copy", "bootcfg", "updategrub"})
  BY DEF Renewed, Uses
<1>4. \A n : Booted(s, n) <=> Since(n, AC, B) BY DEF Booted
<1> HIDE DEF A, B, C
<1>5. AC \subseteq 1..Len(s) /\ (i \in AC <=> i \in A \/ i \in C) BY <1>1, <1>2
<1> HIDE DEF AC
<1>6. (Since(i + 1, AC, B) <=> i \in AC \/ (Since(i, AC, B) /\ i \notin B)) /\ ~Since(1, AC, B)
  BY <1>3, <1>5, SinceOf
<1> QED BY <1>1, <1>2, <1>3, <1>4, <1>5, <1>6

\* What a command does to the image that is built, those of a script without
\* set -e included, which may have failed.
LEMMA ImageEffect ==
    ASSUME TypeOK, Next, pc' # 0, ~Start
    PROVE  /\ Cmd.op \notin {"mkfs", "fstab", "bootcfg", "board_09", "updategrub", "sedgrub", "copy"} => work' = work
           /\ Cmd.op = "mkfs" => work' = [NoImage EXCEPT !.gen = old.gen + 1] \/ (Cmd.soft /\ work' = work)
           /\ Cmd.op = "fstab" => work' = [work EXCEPT !.fstab = ids] \/ (Cmd.soft /\ work' = work)
           /\ Cmd.op = "bootcfg" => work' = [work EXCEPT !.boot = ids] \/ (Cmd.soft /\ work' = work)
           /\ Cmd.op = "board_09" => work' = [work EXCEPT !.entry = ids] \/ (Cmd.soft /\ work' = work)
           /\ Cmd.op = "updategrub" =>
                \/ work' = [work EXCEPT !.boot = IF work.entry = 0 THEN work.gen ELSE work.entry]
                \/ Cmd.soft /\ work' = work
           /\ Cmd.op = "sedgrub" =>
                \/ work' = [work EXCEPT !.entry = IF work.entry = oldIds THEN ids ELSE work.entry]
                \/ Cmd.soft /\ work' = work
           /\ Cmd.op = "copy" => work' = [old EXCEPT !.gen = work.gen] \/ (Cmd.soft /\ work' = work)
           /\ Cmd.op # "uuid" => ids' = ids
           /\ Cmd.op = "uuid" => ids' = work.gen \/ (Cmd.soft /\ ids' = ids)
           /\ Cmd.op # "mvshrink" => old' = old /\ oldIds' = oldIds
           /\ Cmd.op = "mvshrink" => (old' = work /\ oldIds' = ids) \/ (Cmd.soft /\ old' = old /\ oldIds' = oldIds)
<1> USE Onward
<1> USE DEF files, image, Doing
<1>1. CASE MountCommand BY <1>1 DEF MountCommand, Mkdir, Rmdir, Mount, Umount, Rm, Work
<1>2. CASE FileCommand
  BY <1>2 DEF FileCommand, Truncate, Losetup, Detach, Kpartx, Kpartxd, MvCwd, MvShrink,
     RmShrink, Finish, TarUp, RmImgFile, MvTar
<1>3. CASE Mkfs \/ Fstab \/ BootCfg \/ Board09 BY <1>3 DEF Mkfs, Fstab, BootCfg, Board09, Content
<1>4. CASE Uuid \/ UpdateGrub \/ SedGrub \/ Copy BY <1>4 DEF Uuid, UpdateGrub, SedGrub, Copy, Content
<1>5. CASE NeedTar \/ HaveTar BY <1>5 DEF NeedTar, HaveTar
<1>6. CASE Refused \/ Faulted
  <2>1. Cmd.soft BY <1>6 DEF Refused, Faulted, Abort
  <2>2. UNCHANGED image BY <1>6 DEF Refused, Faulted
  <2> QED BY <2>1, <2>2
<1> QED BY <1>1, <1>2, <1>3, <1>4, <1>5, <1>6 DEF Next, ImageCommand

\* Only Finish ships an image.
LEMMA ShippedEffect ==
    ASSUME Next
    PROVE  shipped' \in {shipped, NoImage} \/ (Doing("finish") /\ shipped' = work)
<1> USE DEF files, image
<1>1. CASE Start \/ MakeClean \/ HostReboot BY <1>1 DEF Start, MakeClean, HostReboot
<1>2. CASE MountCommand BY <1>2 DEF MountCommand, Mkdir, Rmdir, Mount, Umount, Rm, Work
<1>3. CASE FileCommand
  BY <1>3 DEF FileCommand, Truncate, Losetup, Detach, Kpartx, Kpartxd, MvCwd, MvShrink,
     RmShrink, Finish, TarUp, RmImgFile, MvTar
<1>4. CASE ImageCommand
  BY <1>4 DEF ImageCommand, Mkfs, Uuid, Fstab, BootCfg, Board09, UpdateGrub, SedGrub, Copy,
     Content
<1>5. CASE NeedTar \/ HaveTar \/ Refused \/ Faulted BY <1>5 DEF NeedTar, HaveTar, Refused, Faulted
<1> QED BY <1>1, <1>2, <1>3, <1>4, <1>5 DEF Next

\* What the image, its copy and the ids are before command i of s.
OwnNames(s, i, w, o, d, od) ==
    /\ Made(s, i) => w.gen > 0
    /\ Known(s, i) => d = w.gen
    /\ Fstabbed(s, i) => w.fstab = w.gen
    /\ NewEntry(s, i) => w.entry = w.gen
    /\ Kept(s, i) => od > 0
    /\ OldEntry(s, i) => o.entry = od
    /\ CopiedEntry(s, i) => w.entry = od
    /\ NoEntry(s, i) => w.entry = 0 /\ o.entry = 0
    /\ Entered(s, i) => w.entry = w.gen
    /\ Booted(s, i) => w.boot = w.gen
ImageInv ==
    /\ shipped # NoImage => shipped.gen # 0 /\ shipped.fstab = shipped.gen /\ shipped.boot = shipped.gen
    /\ pc # 0 => OwnNames(Script[job], pc, work, old, ids, oldIds)

\* The next command keeps that.
LEMMA OwnNamesNext ==
    ASSUME TypeOK, Next, pc' # 0, ~Start, OwnNames(Script[job], pc, work, old, ids, oldIds)
    PROVE  OwnNames(Script[job], pc + 1, work', old', ids', oldIds')
<1> DEFINE s == Script[job]
<1>1. /\ pc \in 1..Len(s) /\ pc' = pc + 1 /\ job' = job /\ Len(s) \in Nat /\ Cmd = s[pc] BY Onward
<1>2. /\ work.gen \in Nat /\ work.entry \in Nat /\ old.gen \in Nat /\ old.entry \in Nat /\ ids \in Nat /\ oldIds \in Nat
      /\ DOMAIN work = {"gen", "fstab", "boot", "entry"} /\ DOMAIN old = {"gen", "fstab", "boot", "entry"}
  BY DEF TypeOK, Image
<1> DEFINE c == Cmd
<1>3. OwnNames(s, pc, work, old, ids, oldIds) OBVIOUS
<1> HIDE DEF s, c
<1>4. /\ c.op # "mkfs" => work'.gen = work.gen
      /\ c.op = "mkfs" => work'.gen > 0 \/ (c.soft /\ work'.gen = work.gen)
  BY <1>2, ImageEffect DEF c, NoImage
<1>5. /\ c.op \notin {"mkfs", "copy", "fstab"} => work'.fstab = work.fstab
      /\ c.op = "fstab" /\ ~c.soft => work'.fstab = ids
  BY <1>2, ImageEffect DEF c
<1>6. /\ c.op \notin {"mkfs", "copy", "bootcfg", "updategrub"} => work'.boot = work.boot
      /\ c.op = "bootcfg" /\ ~c.soft => work'.boot = ids
      /\ c.op = "updategrub" /\ ~c.soft => work'.boot = IF work.entry = 0 THEN work.gen ELSE work.entry
  BY <1>2, ImageEffect DEF c
<1>7. /\ c.op \notin {"mkfs", "copy", "board_09", "sedgrub"} => work'.entry = work.entry
      /\ c.op = "board_09" /\ ~c.soft => work'.entry = ids
      /\ c.op = "sedgrub" => work'.entry = work.entry \/ (work.entry = oldIds /\ work'.entry = ids)
      /\ c.op = "sedgrub" /\ ~c.soft => work'.entry = IF work.entry = oldIds THEN ids ELSE work.entry
      /\ c.op = "copy" => work'.entry = old.entry \/ (c.soft /\ work'.entry = work.entry)
      /\ c.op = "mkfs" => work'.entry = 0 \/ (c.soft /\ work'.entry = work.entry)
  BY <1>2, ImageEffect DEF c, NoImage
<1>8. /\ c.op # "uuid" => ids' = ids
      /\ c.op = "uuid" /\ ~c.soft => ids' = work.gen
  BY ImageEffect DEF c
<1>9. /\ c.op # "mvshrink" => old'.entry = old.entry /\ oldIds' = oldIds
      /\ c.op = "mvshrink" => old'.entry \in {old.entry, work.entry}
      /\ c.op = "mvshrink" /\ ~c.soft => old'.entry = work.entry /\ oldIds' = ids
  BY ImageEffect DEF c
<1>10. c = s[pc] BY <1>1 DEF c
<1>11. Made(s, pc + 1) => work'.gen > 0 BY <1>1, <1>3, <1>4, <1>10, KnownNext DEF OwnNames
<1>19. Known(s, pc + 1) => ids' = work'.gen
  <2>1. CASE c.op = "uuid" /\ ~c.soft BY <1>4, <1>8, <2>1
  <2>2. CASE Known(s, pc) /\ c.op # "mkfs" /\ ~(c.op = "uuid" /\ ~c.soft)
    <3>1. ids' = ids BY <1>1, <1>2, <1>3, <2>2, ImageEffect DEF c, OwnNames
    <3> QED BY <1>3, <1>4, <2>2, <3>1 DEF OwnNames
  <2> QED BY <1>1, <1>10, <2>1, <2>2, KnownNext
<1>12. /\ Fstabbed(s, pc + 1) => work'.fstab = work'.gen
       /\ NewEntry(s, pc + 1) => work'.entry = work'.gen
  BY <1>1, <1>3, <1>4, <1>5, <1>7, <1>10, WrittenNext DEF OwnNames
<1>13. /\ Kept(s, pc + 1) => oldIds' > 0
       /\ OldEntry(s, pc + 1) => old'.entry = oldIds'
  BY <1>1, <1>3, <1>9, <1>10, OldNext DEF OwnNames
<1>14. CopiedEntry(s, pc + 1) => work'.entry = oldIds'
  BY <1>1, <1>3, <1>7, <1>9, <1>10, EntryNext DEF OwnNames
<1>15. NoEntry(s, pc + 1) => work'.entry = 0 /\ old'.entry = 0
  BY <1>1, <1>3, <1>7, <1>9, <1>10, EntryNext DEF OwnNames
<1>16. Entered(s, pc + 1) => work'.entry = work'.gen
  BY <1>1, <1>3, <1>4, <1>7, <1>10, EntryNext DEF OwnNames
<1>17. Booted(s, pc + 1) => work'.boot = work'.gen
  BY <1>1, <1>2, <1>3, <1>4, <1>6, <1>10, BootedNext DEF OwnNames
<1> QED BY <1>11, <1>12, <1>13, <1>14, <1>15, <1>16, <1>17, <1>19 DEF s, OwnNames

\* Before the first command there is no image and nothing is known.
LEMMA OwnNamesStart ==
    ASSUME NEW s, Len(s) \in Nat, 1 \in 1..Len(s)
    PROVE  OwnNames(s, 1, NoImage, NoImage, 0, 0)
  BY KnownNext, WrittenNext, OldNext, EntryNext, BootedNext DEF OwnNames, NoImage

\* Every step keeps what is known of the image.
LEMMA ImageStep == TypeOK /\ ImageInv /\ [Next]_vars => ImageInv'
<1> SUFFICES ASSUME TypeOK, ImageInv, [Next]_vars PROVE ImageInv' OBVIOUS
<1> DEFINE Good(i) == i # NoImage => i.gen # 0 /\ i.fstab = i.gen /\ i.boot = i.gen
<1>1. CASE UNCHANGED vars BY <1>1 DEF vars, image, ctl, ImageInv
<1>2. ASSUME Next PROVE Good(shipped')
  <2>1. CASE shipped' \in {shipped, NoImage} BY <2>1 DEF ImageInv
  <2>2. CASE Doing("finish") /\ shipped' = work
    <3> DEFINE s == Script[job]
    <3>1. pc # 0 /\ pc \in 1..Len(s) /\ s[pc].op = "finish" /\ job \in Jobs /\ Len(s) \in Nat
      BY <2>2, CmdFacts, ScriptFacts DEF Doing, Cmd, TypeOK
    <3>2. pc \in Uses(s, {"finish"}) /\ NamesItself(s) BY <3>1, UsesAre, ImageAssumption
    <3>3. Made(s, pc) /\ Fstabbed(s, pc) /\ Booted(s, pc) BY <3>2 DEF NamesItself
    <3>4. OwnNames(s, pc, work, old, ids, oldIds) BY <3>1 DEF ImageInv
    <3> HIDE DEF s
    <3>5. work.gen > 0 /\ work.fstab = work.gen /\ work.boot = work.gen BY <3>3, <3>4 DEF OwnNames
    <3> QED BY <2>2, <3>5
  <2> QED BY <1>2, <2>1, <2>2, ShippedEffect
<1>3. CASE Next /\ Start
  <2>1. pc' = 1 /\ job' \in Jobs /\ work' = NoImage /\ old' = NoImage /\ ids' = 0 /\ oldIds' = 0
    BY <1>3 DEF Start
  <2> DEFINE s == Script[job']
  <2>2. Len(s) \in Nat /\ 1 \in 1..Len(s) BY <2>1, ScriptFacts
  <2> HIDE DEF s
  <2>3. OwnNames(s, 1, NoImage, NoImage, 0, 0) BY <2>2, OwnNamesStart
  <2> QED BY <1>2, <1>3, <2>1, <2>3 DEF ImageInv, s
<1>4. CASE Next /\ ~Start /\ pc' # 0
  <2>1. pc # 0 /\ pc' = pc + 1 /\ job' = job BY <1>4, Onward
  <2>2. OwnNames(Script[job], pc + 1, work', old', ids', oldIds')
    BY <1>4, <2>1, OwnNamesNext DEF ImageInv
  <2> QED BY <1>2, <1>4, <2>1, <2>2 DEF ImageInv
<1>5. CASE Next /\ pc' = 0 BY <1>2, <1>5 DEF ImageInv
<1> QED BY <1>1, <1>3, <1>4, <1>5

\* staging, stage2 and shrink: an image that reaches output/ has an fstab
\* and a boot configuration with the ids of its own file systems, also
\* after it was shrunk, for any scripts that write them only after the ids
\* were read again (NamesItself), stopped and restarted at any command.
THEOREM ShippedIsNamed == Spec => []ShippedNamesItself
<1>1. Init => ImageInv BY DEF Init, ImageInv
<1>2. ImageInv => ShippedNamesItself BY DEF ImageInv, ShippedNamesItself
<1> QED BY <1>1, <1>2, ImageStep, Typing, PTL DEF Spec

-----------------------------------------------------------------------------
\* What a job that ends leaves.

TidyInv ==
    pc # 0 => /\ \A d \in Dirs : GoneDir(Script[job], pc, d) => d \notin dirs
              /\ Detached(Script[job], pc) => Name \notin loops \/ Name \in lazy
              /\ Freed(Script[job], pc) => Name \notin loops

\* What is gone, detached and freed after the next command.
LEMMA TidyNext ==
    ASSUME NEW s, Len(s) \in Nat, NEW i \in 1..Len(s)
    PROVE  /\ \A d : GoneDir(s, i + 1, d) =>
                \/ s[i].op \in {"rmdir", "rm"} /\ ~s[i].soft /\ d \in DirsOf(s[i])
                \/ GoneDir(s, i, d) /\ ~(s[i].op = "mkdir" /\ d \in DirsOf(s[i]))
           /\ Detached(s, i + 1) => (s[i].op = "detach" /\ ~s[i].soft) \/ (Detached(s, i) /\ s[i].op # "losetup")
           /\ Freed(s, i + 1) =>
                \/ s[i].op = "detach" /\ ~s[i].soft /\ ~OnRoot(MaybeMounted(s, i))
                \/ /\ s[i].op = "umount" /\ ~s[i].soft /\ Detached(s, i)
                   /\ \E d \in Dirs : <<d, "">> \in s[i].at
                \/ Freed(s, i) /\ s[i].op # "losetup"
           /\ ~Detached(s, 1) /\ ~Freed(s, 1) /\ \A d : ~GoneDir(s, 1, d)
<1>1. ASSUME NEW d
      PROVE  /\ GoneDir(s, i + 1, d) =>
                  \/ s[i].op \in {"rmdir", "rm"} /\ ~s[i].soft /\ d \in DirsOf(s[i])
                  \/ GoneDir(s, i, d) /\ ~(s[i].op = "mkdir" /\ d \in DirsOf(s[i]))
             /\ ~GoneDir(s, 1, d)
  <2> DEFINE A == {k \in Hard(s, {"rmdir", "rm"}) : d \in DirsOf(s[k])}
             B == {k \in Uses(s, {"mkdir"}) : d \in DirsOf(s[k])}
  <2>1. /\ A \subseteq 1..Len(s) /\ (i \in A => s[i].op \in {"rmdir", "rm"} /\ ~s[i].soft /\ d \in DirsOf(s[i]))
        /\ B \subseteq 1..Len(s) /\ (i \in B <=> s[i].op = "mkdir" /\ d \in DirsOf(s[i]))
    BY DEF Hard, Uses
  <2>2. \A n : GoneDir(s, n, d) <=> Since(n, A, B) BY DEF GoneDir
  <2> HIDE DEF A, B
  <2>3. (Since(i + 1, A, B) <=> i \in A \/ (Since(i, A, B) /\ i \notin B)) /\ ~Since(1, A, B)
    BY <2>1, SinceOf
  <2> QED BY <2>1, <2>2, <2>3
<1> DEFINE A == Hard(s, {"detach"})
           B == Uses(s, {"losetup"})
           C == {k \in Hard(s, {"detach"}) : ~OnRoot(MaybeMounted(s, k))}
           D == {k \in Hard(s, {"umount"}) : (\E d \in Dirs : <<d, "">> \in s[k].at) /\ Detached(s, k)}
           CD == C \cup D
<1>2. /\ A \subseteq 1..Len(s) /\ (i \in A => s[i].op = "detach" /\ ~s[i].soft)
      /\ B \subseteq 1..Len(s) /\ (i \in B <=> s[i].op = "losetup")
  BY DEF Hard, Uses
<1>3. /\ C \subseteq 1..Len(s) /\ (i \in C => s[i].op = "detach" /\ ~s[i].soft /\ ~OnRoot(MaybeMounted(s, i)))
      /\ D \subseteq 1..Len(s)
      /\ i \in D => s[i].op = "umount" /\ ~s[i].soft /\ Detached(s, i) /\ \E d \in Dirs : <<d, "">> \in s[i].at
  BY DEF Hard, Uses
<1>4. \A n : (Detached(s, n) <=> Since(n, A, B)) /\ (Freed(s, n) <=> Since(n, CD, B))
  BY DEF Detached, Freed
<1> HIDE DEF A, B, C, D
<1>5. CD \subseteq 1..Len(s) /\ (i \in CD => i \in C \/ i \in D) BY <1>3
<1> HIDE DEF CD
<1>6. (Since(i + 1, A, B) <=> i \in A \/ (Since(i, A, B) /\ i \notin B)) /\ ~Since(1, A, B)
  BY <1>2, SinceOf
<1>7. (Since(i + 1, CD, B) <=> i \in CD \/ (Since(i, CD, B) /\ i \notin B)) /\ ~Since(1, CD, B)
  BY <1>2, <1>5, SinceOf
<1> QED BY <1>1, <1>2, <1>3, <1>4, <1>5, <1>6, <1>7

\* What a command that lets the job go on, or ends it, does to directories
\* and loop devices.
LEMMA HostEffect ==
    ASSUME TypeOK, Next, pc # 0, ~HostReboot, pc' # 0 \/ ~NeedTar
    PROVE  /\ \A d \in dirs' : d \in dirs \/ (Cmd.op = "mkdir" /\ d \in DirsOf(Cmd))
           /\ Cmd.op \in {"rmdir", "rm"} /\ ~Cmd.soft /\ pc' # 0 => dirs' = dirs \ DirsOf(Cmd)
           /\ \A n \in loops' : n \in loops \/ (Cmd.op = "losetup" /\ n = Name)
           /\ lazy \subseteq lazy' \/ loops' = loops \ lazy
           /\ Cmd.op = "detach" /\ ~Cmd.soft /\ pc' # 0 => (LoopBusy /\ Name \in lazy') \/ (~LoopBusy /\ Name \notin loops')
           /\ Cmd.op = "umount" /\ ~Cmd.soft /\ pc' # 0 /\ (\E d \in Dirs : <<d, "">> \in Cmd.at) => loops' = loops \ lazy
<1> USE DEF host, files, image, Doing
<1>0. ~Start /\ ~MakeClean BY DEF Start, MakeClean
<1>1. CASE MountCommand BY <1>1 DEF MountCommand, Mkdir, Rmdir, Mount, Umount, Rm, Work
<1>2. CASE FileCommand
  BY <1>2 DEF FileCommand, Truncate, Losetup, Detach, Kpartx, Kpartxd, MvCwd, MvShrink,
     RmShrink, Finish, TarUp, RmImgFile, MvTar
<1>3. CASE ImageCommand
  BY <1>3 DEF ImageCommand, Mkfs, Uuid, Fstab, BootCfg, Board09, UpdateGrub, SedGrub, Copy,
     Content
<1>4. CASE NeedTar \/ HaveTar BY <1>4 DEF NeedTar, HaveTar
<1>5. CASE Refused \/ Faulted
  <2>1. ~Cmd.soft => pc' = 0 BY <1>5 DEF Refused, Faulted, Abort
  <2>2. UNCHANGED <<loops, lazy>> BY <1>5 DEF Refused, Faulted
  <2>3. \A d \in dirs' : d \in dirs \/ (Cmd.op = "mkdir" /\ d \in DirsOf(Cmd))
    BY <1>5 DEF Refused, Faulted
  <2> QED BY <2>1, <2>2, <2>3
<1> QED BY <1>0, <1>1, <1>2, <1>3, <1>4, <1>5 DEF Next

\* Every step keeps what is known of them.
LEMMA TidyStep == Inv /\ TidyInv /\ [Next]_vars => TidyInv'
<1> SUFFICES ASSUME Inv, TidyInv, [Next]_vars PROVE TidyInv' OBVIOUS
<1>0. TypeOK BY DEF Inv
<1>1. CASE UNCHANGED vars BY <1>1 DEF vars, host, ctl, TidyInv, Name
<1>2. CASE Next /\ pc' = 0 BY <1>2 DEF TidyInv
<1>3. CASE Next /\ Start
  <2>1. pc' = 1 /\ job' \in Jobs BY <1>3 DEF Start
  <2> DEFINE s == Script[job']
  <2>2. Len(s) \in Nat /\ 1 \in 1..Len(s) BY <2>1, ScriptFacts
  <2> HIDE DEF s
  <2>3. ~Detached(s, 1) /\ ~Freed(s, 1) /\ \A d : ~GoneDir(s, 1, d) BY <2>2, TidyNext
  <2> QED BY <2>1, <2>3 DEF TidyInv, s
<1>4. CASE Next /\ ~Start /\ pc' # 0
  <2> DEFINE s == Script[job]
  <2>1. /\ pc # 0 /\ pc \in 1..Len(s) /\ pc' = pc + 1 /\ job' = job /\ Len(s) \in Nat /\ Cmd = s[pc]
        /\ ~MakeClean /\ ~HostReboot
    BY <1>0, <1>4, Onward
  <2>2. /\ \A d \in Dirs : GoneDir(s, pc, d) => d \notin dirs
        /\ Detached(s, pc) => Name \notin loops \/ Name \in lazy
        /\ Freed(s, pc) => Name \notin loops
    BY <2>1 DEF TidyInv
  <2>3. mnt \subseteq MaybeMounted(s, pc) BY <2>1 DEF Inv, Tracked
  <2>4. /\ \A d \in dirs' : d \in dirs \/ (Cmd.op = "mkdir" /\ d \in DirsOf(Cmd))
        /\ Cmd.op \in {"rmdir", "rm"} /\ ~Cmd.soft => dirs' = dirs \ DirsOf(Cmd)
        /\ \A n \in loops' : n \in loops \/ (Cmd.op = "losetup" /\ n = Name)
        /\ lazy \subseteq lazy' \/ loops' = loops \ lazy
        /\ Cmd.op = "detach" /\ ~Cmd.soft => (LoopBusy /\ Name \in lazy') \/ (~LoopBusy /\ Name \notin loops')
        /\ Cmd.op = "umount" /\ ~Cmd.soft /\ (\E d \in Dirs : <<d, "">> \in Cmd.at) => loops' = loops \ lazy
    BY <1>0, <1>4, <2>1, HostEffect
  <2> DEFINE c == Cmd
  <2>5. c = s[pc] BY <2>1
  <2> HIDE DEF s, c
  <2>6. ASSUME NEW d \in Dirs, GoneDir(s, pc + 1, d) PROVE d \notin dirs'
    <3>1. \/ c.op \in {"rmdir", "rm"} /\ ~c.soft /\ d \in DirsOf(c)
          \/ GoneDir(s, pc, d) /\ ~(c.op = "mkdir" /\ d \in DirsOf(c))
      BY <2>1, <2>5, <2>6, TidyNext
    <3> QED BY <2>2, <2>4, <3>1 DEF c
  <2>7. ASSUME Detached(s, pc + 1) PROVE Name \notin loops' \/ Name \in lazy'
    <3>1. (c.op = "detach" /\ ~c.soft) \/ (Detached(s, pc) /\ c.op # "losetup")
      BY <2>1, <2>5, <2>7, TidyNext
    <3> QED BY <2>2, <2>4, <3>1 DEF c
  <2>8. ASSUME Freed(s, pc + 1) PROVE Name \notin loops'
    <3>1. \/ c.op = "detach" /\ ~c.soft /\ ~OnRoot(MaybeMounted(s, pc))
          \/ c.op = "umount" /\ ~c.soft /\ Detached(s, pc) /\ \E d \in Dirs : <<d, "">> \in c.at
          \/ Freed(s, pc) /\ c.op # "losetup"
      BY <2>1, <2>5, <2>8, TidyNext
    <3>2. ~OnRoot(MaybeMounted(s, pc)) => ~LoopBusy BY <2>3 DEF OnRoot, LoopBusy
    <3>3. CASE c.op = "detach" /\ ~c.soft /\ ~OnRoot(MaybeMounted(s, pc)) BY <2>4, <3>2, <3>3 DEF c
    <3>4. CASE c.op = "umount" /\ ~c.soft /\ Detached(s, pc) /\ \E d \in Dirs : <<d, "">> \in c.at
      BY <2>2, <2>4, <3>4 DEF c
    <3>5. CASE Freed(s, pc) /\ c.op # "losetup" BY <2>2, <2>4, <3>5 DEF c
    <3> QED BY <3>1, <3>3, <3>4, <3>5
  <2>9. Name' = Name BY <2>1 DEF Name
  <2>10. Script[job'] = s BY <2>1 DEF s
  <2> QED BY <2>1, <2>6, <2>7, <2>8, <2>9, <2>10 DEF TidyInv
<1> QED BY <1>1, <1>2, <1>3, <1>4

\* stage1:189-197 and rootfs:83-97: a job that runs to its end leaves no
\* mount, no map and none of its directories, and its loop device is freed,
\* for any scripts that remove and detach what they made (TidiesUp).
THEOREM EndIsTidy == Spec => EndsTidy
<1>1. Inv /\ TidyInv /\ [Next]_vars =>
        [Ending => /\ mnt' = {} /\ dirs' \cap OwnDirs(Script[job]) = {}
                   /\ ~maps' /\ Name \notin loops']_vars
  <2> SUFFICES ASSUME Inv, TidyInv, Next, Ending
               PROVE  /\ mnt' = {} /\ dirs' \cap OwnDirs(Script[job]) = {}
                      /\ ~maps' /\ Name \notin loops'
    BY DEF Ending, vars
  <2> DEFINE s == Script[job]
  <2>1. /\ TypeOK /\ pc \in 1..Len(s) /\ pc = Len(s) /\ Len(s) \in Nat /\ Cmd = s[pc] /\ job \in Jobs
        /\ Cmd.op \in {"work", "mvtar"} /\ pc # 0
    <3>1. TypeOK /\ pc # 0 /\ Cmd.op \in {"work", "mvtar"} /\ pc = Len(s)
      BY DEF Inv, Ending, Work, MvTar, Doing
    <3> QED BY <3>1, CmdFacts, ScriptFacts DEF TypeOK, Cmd
  <2>2. UNCHANGED host BY DEF Ending, Work, MvTar
  <2>3. WellOrdered(s) /\ TidiesUp(s) BY <2>1, OrderAssumption, TidyAssumption
  <2>4. Tracked(s, pc) BY <2>1 DEF Inv
  <2>5. /\ \A d \in Dirs : GoneDir(s, pc, d) => d \notin dirs
        /\ Freed(s, pc) => Name \notin loops
    BY <2>1 DEF TidyInv
  <2> DEFINE c == Cmd
  <2>6. c = s[pc] /\ c.op \in {"work", "mvtar"} BY <2>1
  <2> HIDE DEF s, c
  <2>7. mnt = {} /\ ~maps
    <3>1. MaybeMounted(s, pc + 1) = {} /\ ~MaybeMapped(s, pc + 1) BY <2>1, <2>3 DEF WellOrdered
    <3>0. pc \in Nat /\ pc >= 1 /\ s[pc].op # "umount" /\ s[pc].op # "kpartxd" BY <2>1, <2>6
    <3>2. \A m \in MaybeMounted(s, pc) : m \in MaybeMounted(s, pc + 1)
      <4>1. \A m : ~Unmounts(s[pc], m) BY <3>0 DEF Unmounts
      <4> QED BY <3>0, <4>1, Grow
    <3>3. MaybeMapped(s, pc) => MaybeMapped(s, pc + 1) BY <3>0, Grow
    <3> QED BY <2>4, <3>1, <3>2, <3>3 DEF Tracked
  <2>8. Freed(s, pc + 1) /\ \A d \in OwnDirs(s) : GoneDir(s, pc + 1, d) BY <2>1, <2>3 DEF TidiesUp
  <2>9. Freed(s, pc) /\ \A d \in OwnDirs(s) : GoneDir(s, pc, d) BY <2>1, <2>6, <2>8, TidyNext
  <2>10. dirs \cap OwnDirs(s) = {} BY <2>1, <2>5, <2>9 DEF TypeOK
  <2> QED BY <2>1, <2>2, <2>5, <2>7, <2>9, <2>10 DEF s, host
<1>2. Init => TidyInv BY DEF Init, TidyInv
<1> QED BY <1>1, <1>2, TidyStep, Invariance, PTL DEF Spec, EndsTidy

-----------------------------------------------------------------------------
\* A job that aborts although nothing failed.

Softs(s) == {k \in 1..Len(s) : s[k].soft}
\* While no command has failed, things are as the script made them; and after
\* a job that aborted so, img/ holds no file but this job's own.
AsMade(s, i) ==
    /\ mnt = Mounted(s, i)
    /\ Mapped(s, i) => maps
    /\ InImg(s, i) => Name \in imgFiles
    /\ InCwd(s, i) => Name \in cwdImg
    /\ TarMade(s, i) => tarCwd # "none"
    /\ cleanAborts # 0 => \A n \in imgFiles : n = Name /\ InImg(s, i)
HealInv ==
    /\ cleanAborts \in {0, 1}
    /\ cleanAborts # 0 /\ pc = 0 => Gate \/ imgFiles = {}
    /\ pc # 0 => /\ fault => Since(pc, Softs(Script[job]), {})
                 /\ ~fault => AsMade(Script[job], pc)

\* What a script has mounted after its next command.
LEMMA MountedNext ==
    ASSUME NEW s, Len(s) \in Nat, NEW i \in 1..Len(s)
    PROVE  /\ Mounted(s, i + 1) = IF s[i].op = "mount" THEN Mounted(s, i) \cup s[i].at
                                  ELSE IF s[i].op = "umount" THEN Mounted(s, i) \ s[i].at
                                  ELSE Mounted(s, i)
           /\ Mounted(s, 1) = {}
<1>1. ASSUME NEW m
      PROVE  /\ m \in Mounted(s, i + 1) <=> \/ s[i].op = "mount" /\ m \in s[i].at
                                            \/ m \in Mounted(s, i) /\ ~(s[i].op = "umount" /\ m \in s[i].at)
             /\ m \notin Mounted(s, 1)
  <2> DEFINE A == {k \in Uses(s, {"mount"}) : m \in s[k].at}
             B == {k \in Uses(s, {"umount"}) : m \in s[k].at}
             U == UNION {s[k].at : k \in Uses(s, {"mount"})}
  <2>1. /\ A \subseteq 1..Len(s) /\ (i \in A <=> s[i].op = "mount" /\ m \in s[i].at)
        /\ B \subseteq 1..Len(s) /\ (i \in B <=> s[i].op = "umount" /\ m \in s[i].at)
    BY DEF Uses
  <2>2. \A n : m \in Mounted(s, n) <=> m \in U /\ Since(n, A, B) BY DEF Mounted
  <2>3. \A n : Since(n, A, B) => m \in U
    <3>1. \A k \in A : m \in U OBVIOUS
    <3> QED BY <3>1 DEF Since
  <2>4. \A n : m \in Mounted(s, n) <=> Since(n, A, B) BY <2>2, <2>3
  <2> HIDE DEF A, B, U
  <2>5. (Since(i + 1, A, B) <=> i \in A \/ (Since(i, A, B) /\ i \notin B)) /\ ~Since(1, A, B)
    BY <2>1, SinceOf
  <2> QED BY <2>1, <2>4, <2>5
<1> QED BY <1>1

\* What there is after the next command, and which commands were soft.
LEMMA MadeNext ==
    ASSUME NEW s, Len(s) \in Nat, NEW i \in 1..Len(s)
    PROVE  /\ Mapped(s, i + 1) <=> s[i].op = "kpartx" \/ (Mapped(s, i) /\ s[i].op # "kpartxd")
           /\ InImg(s, i + 1) <=> s[i].op = "truncate" \/ (InImg(s, i) /\ s[i].op \notin {"mvcwd", "rmimgfile"})
           /\ InCwd(s, i + 1) <=> s[i].op = "mvcwd" \/ (InCwd(s, i) /\ s[i].op \notin {"mvshrink", "finish"})
           /\ TarMade(s, i + 1) <=> s[i].op = "tar" \/ (TarMade(s, i) /\ s[i].op # "mvtar")
           /\ Since(i + 1, Softs(s), {}) <=> s[i].soft \/ Since(i, Softs(s), {})
           /\ ~Mapped(s, 1) /\ ~InImg(s, 1) /\ ~InCwd(s, 1) /\ ~TarMade(s, 1)
<1>1. ASSUME NEW O, NEW Q
      PROVE  /\ Since(i + 1, Uses(s, O), Uses(s, Q)) <=>
                  s[i].op \in O \/ (Since(i, Uses(s, O), Uses(s, Q)) /\ s[i].op \notin Q)
             /\ ~Since(1, Uses(s, O), Uses(s, Q))
  <2> DEFINE A == Uses(s, O)
             B == Uses(s, Q)
  <2>1. /\ A \subseteq 1..Len(s) /\ (i \in A <=> s[i].op \in O)
        /\ B \subseteq 1..Len(s) /\ (i \in B <=> s[i].op \in Q)
    BY DEF Uses
  <2> HIDE DEF A, B
  <2>2. (Since(i + 1, A, B) <=> i \in A \/ (Since(i, A, B) /\ i \notin B)) /\ ~Since(1, A, B)
    BY <2>1, SinceOf
  <2> QED BY <2>1, <2>2 DEF A, B
<1>2. Since(i + 1, Softs(s), {}) <=> s[i].soft \/ Since(i, Softs(s), {})
  <2> DEFINE A == Softs(s)
             B == {}
  <2>1. A \subseteq 1..Len(s) /\ (i \in A <=> s[i].soft) /\ B \subseteq 1..Len(s) /\ i \notin B
    BY DEF Softs
  <2>2. Since(i + 1, A, B) <=> i \in A \/ (Since(i, A, B) /\ i \notin B)
    <3> HIDE DEF A, B
    <3> QED BY <2>1, SinceOf
  <2> QED BY <2>1, <2>2
<1>3. Mapped(s, i + 1) <=> s[i].op = "kpartx" \/ (Mapped(s, i) /\ s[i].op # "kpartxd")
  BY <1>1 DEF Mapped
<1>4. InImg(s, i + 1) <=> s[i].op = "truncate" \/ (InImg(s, i) /\ s[i].op \notin {"mvcwd", "rmimgfile"})
  BY <1>1 DEF InImg
<1>5. InCwd(s, i + 1) <=> s[i].op = "mvcwd" \/ (InCwd(s, i) /\ s[i].op \notin {"mvshrink", "finish"})
  BY <1>1 DEF InCwd
<1>6. TarMade(s, i + 1) <=> s[i].op = "tar" \/ (TarMade(s, i) /\ s[i].op # "mvtar")
  BY <1>1 DEF TarMade
<1>7. ~Mapped(s, 1) /\ ~InImg(s, 1) /\ ~InCwd(s, 1) /\ ~TarMade(s, 1)
  BY <1>1 DEF Mapped, InImg, InCwd, TarMade
<1> QED BY <1>2, <1>3, <1>4, <1>5, <1>6, <1>7

\* What a command that works does to mounts, maps and files.
LEMMA WorkingEffect ==
    ASSUME Next, pc # 0, pc' # 0, ~Refused, ~Faulted
    PROVE  /\ mnt' = IF Cmd.op = "mount" THEN mnt \cup Cmd.at
                     ELSE IF Cmd.op = "umount" THEN mnt \ Cmd.at ELSE mnt
           /\ imgFiles' = IF Cmd.op = "truncate" THEN imgFiles \cup {Name}
                          ELSE IF Cmd.op \in {"mvcwd", "rmimgfile"} THEN imgFiles \ {Name} ELSE imgFiles
           /\ cwdImg' = IF Cmd.op = "mvcwd" THEN cwdImg \cup {Name}
                        ELSE IF Cmd.op \in {"mvshrink", "finish"} THEN cwdImg \ {Name} ELSE cwdImg
           /\ Cmd.op = "tar" => tarCwd' # "none"
           /\ Cmd.op \notin {"tar", "mvtar"} => tarCwd' = tarCwd
           /\ Advance
<1> USE DEF host, files, image, Doing
<1>0. ~Start /\ ~MakeClean /\ ~HostReboot BY DEF Start, MakeClean, HostReboot
<1>1. CASE MountCommand BY <1>1 DEF MountCommand, Mkdir, Rmdir, Mount, Umount, Rm, Work
<1>2. CASE Truncate \/ Losetup \/ Detach \/ Kpartx \/ Kpartxd
  BY <1>2 DEF Truncate, Losetup, Detach, Kpartx, Kpartxd
<1>3. CASE MvCwd \/ MvShrink \/ RmShrink \/ Finish BY <1>3 DEF MvCwd, MvShrink, RmShrink, Finish
<1>4. CASE TarUp \/ RmImgFile \/ MvTar BY <1>4 DEF TarUp, RmImgFile, MvTar
<1>5. CASE ImageCommand
  BY <1>5 DEF ImageCommand, Mkfs, Uuid, Fstab, BootCfg, Board09, UpdateGrub, SedGrub, Copy,
     Content
<1>6. CASE NeedTar \/ HaveTar BY <1>6 DEF NeedTar, HaveTar
<1> QED BY <1>0, <1>1, <1>2, <1>3, <1>4, <1>5, <1>6 DEF Next, FileCommand

\* ... and to the maps of shrink.img.
LEMMA MapsEffect ==
    ASSUME Next, pc # 0, pc' # 0, ~Refused, ~Faulted
    PROVE  /\ Cmd.op = "kpartx" => maps'
           /\ Cmd.op \notin {"kpartx", "kpartxd"} /\ maps => maps'
<1> USE DEF host, files, image, Doing
<1>0. ~Start /\ ~MakeClean /\ ~HostReboot BY DEF Start, MakeClean, HostReboot
<1>1. CASE MountCommand
  <2>1. maps' = maps /\ Cmd.op \notin {"kpartx", "kpartxd"}
    BY <1>1 DEF MountCommand, Mkdir, Rmdir, Mount, Umount, Rm, Work
  <2> QED BY <2>1
<1>2. CASE Truncate \/ Losetup \/ Detach \/ Kpartxd BY <1>2 DEF Truncate, Losetup, Detach, Kpartxd
<1>3. CASE Kpartx
  <2>1. Cmd.op = "kpartx" BY <1>3 DEF Kpartx
  <2>2. maps' BY <1>3, Zenon DEF Kpartx
  <2> QED BY <2>1, <2>2
<1>4. CASE MvCwd \/ MvShrink \/ RmShrink \/ Finish BY <1>4 DEF MvCwd, MvShrink, RmShrink, Finish
<1>5. CASE TarUp \/ RmImgFile \/ MvTar BY <1>5 DEF TarUp, RmImgFile, MvTar
<1>6. CASE ImageCommand
  BY <1>6 DEF ImageCommand, Mkfs, Uuid, Fstab, BootCfg, Board09, UpdateGrub, SedGrub, Copy,
     Content
<1>7. CASE NeedTar \/ HaveTar BY <1>7 DEF NeedTar, HaveTar
<1> QED BY <1>0, <1>1, <1>2, <1>3, <1>4, <1>5, <1>6, <1>7 DEF Next, FileCommand

\* What the running script's command may count on.
LEMMA Supplying ==
    ASSUME TypeOK, pc # 0
    PROVE  /\ pc \in 1..Len(Script[job]) /\ Len(Script[job]) \in Nat /\ Cmd = Script[job][pc]
           /\ Supplied(Script[job], pc) /\ ~Script[job][Len(Script[job])].soft
<1>1. pc \in 1..Len(Script[job]) /\ job \in Jobs BY CmdFacts DEF TypeOK
<1> QED BY <1>1, ScriptFacts, SupplyAssumption DEF SelfSupplied, Cmd

\* The only command that is refused although none has failed is the removal of
\* img/ by a job that found another file in it; it leaves what the gate sees.
LEMMA OnlyImgRefused ==
    ASSUME Inv, HealInv, pc # 0, ~fault, ~Works(Cmd)
    PROVE  ~Cmd.soft /\ cleanAborts = 0 /\ Gate
<1> DEFINE s == Script[job]
           c == Cmd
<1>1. /\ TypeOK /\ Tracked(s, pc) /\ AsMade(s, pc) /\ Supplied(s, pc) /\ c = s[pc]
      /\ DirsOf(c) \subseteq Dirs /\ c.at \subseteq MountPoints
  BY Supplying, CmdFacts DEF Inv, HealInv
<1> HIDE DEF s, c
<1>2. /\ mnt = Mounted(s, pc) /\ \A d \in Dirs : SureDir(s, pc, d) => d \in dirs
  BY <1>1 DEF AsMade, Tracked
<1>3. c.op = "mount" => CanMount(c)
  <2> SUFFICES ASSUME c.op = "mount", NEW m \in c.at
               PROVE  /\ m[1] \in dirs /\ m \notin mnt
                      /\ m[2] # "" => <<m[1], "">> \in mnt
                      /\ m[1] \in MapDirs => maps
    BY DEF CanMount
  <2>1. /\ SureDir(s, pc, m[1]) /\ m \notin Mounted(s, pc)
        /\ m[2] # "" => <<m[1], "">> \in Mounted(s, pc)
        /\ m[1] \in MapDirs => Mapped(s, pc)
    BY <1>1 DEF Supplied
  <2>2. m[1] \in Dirs BY <1>1 DEF DirsOf
  <2>3. m[1] \in MapDirs => maps BY <1>1, <2>1 DEF AsMade
  <2> QED BY <1>2, <2>1, <2>2, <2>3
<1>4. c.op = "umount" => CanUmount(c)
  <2>1. c.op = "umount" => c.at \subseteq Mounted(s, pc) /\ \A m \in c.at : Below(m) \cap Mounted(s, pc) \subseteq c.at
    BY <1>1 DEF Supplied
  <2> QED BY <1>2, <2>1 DEF CanUmount, Umounted
<1>5. c.op = "rm" => CanRm(c)
  <2>1. c.op = "rm" => \A d \in DirsOf(c) : Under(d) \cap Mounted(s, pc) = {} BY <1>1 DEF Supplied
  <2> QED BY <1>2, <2>1 DEF CanRm
<1>6. c.op = "truncate" => "img" \in dirs
  <2>1. c.op = "truncate" => SureDir(s, pc, "img") BY <1>1 DEF Supplied
  <2> QED BY <1>2, <2>1 DEF Dirs
<1>7. /\ c.op \in {"losetup", "mvcwd"} => Name \in imgFiles
      /\ c.op \in {"mvshrink", "finish"} => Name \in cwdImg
      /\ c.op = "mvtar" => tarCwd # "none"
  <2>1. /\ c.op \in {"losetup", "mvcwd"} => InImg(s, pc)
        /\ c.op \in {"mvshrink", "finish"} => InCwd(s, pc)
        /\ c.op = "mvtar" => TarMade(s, pc)
    BY <1>1 DEF Supplied
  <2> QED BY <1>1, <2>1 DEF AsMade
<1>8. c.op = "kpartx" => shrinkImg
  <2>1. c.op = "kpartx" => SureShrink(s, pc) BY <1>1 DEF Supplied
  <2> QED BY <1>1, <2>1 DEF Tracked
<1>9. c.op = "kpartxd" => ~MapsBusy
  <2>1. c.op = "kpartxd" => \A d \in MapDirs : <<d, "">> \notin Mounted(s, pc) BY <1>1 DEF Supplied
  <2> QED BY <1>2, <2>1 DEF MapsBusy
<1>10. c.op = "rmdir" /\ ~CanRmdir(c) BY <1>3, <1>4, <1>5, <1>6, <1>7, <1>8, <1>9 DEF Works, c
<1>11. PICK d \in DirsOf(c) : ~RmdirWorks(d) BY <1>10 DEF CanRmdir
<1>12. SureDir(s, pc, d) /\ <<d, "">> \notin Mounted(s, pc) /\ d \in Dirs
  BY <1>1, <1>10, <1>11 DEF Supplied
<1>13. d = "img" /\ imgFiles # {} BY <1>2, <1>11, <1>12 DEF RmdirWorks
<1>14. ~c.soft /\ ~InImg(s, pc) /\ GateSure(s, pc) BY <1>1, <1>10, <1>11, <1>13 DEF Supplied
<1>15. cleanAborts = 0 BY <1>1, <1>13, <1>14 DEF AsMade
<1>16. Gate
  <2>1. CASE \E g \in GateDirs : SureDir(s, pc, g)
    <3>1. PICK g \in GateDirs : SureDir(s, pc, g) BY <2>1
    <3>2. g \in Dirs BY DEF GateDirs, Dirs
    <3> QED BY <1>2, <3>1, <3>2 DEF Gate
  <2>2. CASE SureShrink(s, pc)
    <3>1. shrinkImg BY <1>1, <2>2 DEF Tracked
    <3> QED BY <3>1 DEF Gate
  <2> QED BY <1>14, <2>1, <2>2 DEF GateSure
<1> QED BY <1>14, <1>15, <1>16 DEF c

\* A script goes on as it should while no command has failed.
LEMMA MadeStep ==
    ASSUME Inv, HealInv, Next, pc # 0, pc' # 0, ~Refused, ~Faulted, ~fault
    PROVE  AsMade(Script[job], pc)'
<1> DEFINE s == Script[job]
           c == Cmd
<1>1. TypeOK /\ ~Start BY DEF Inv, Start
<1>2. /\ pc \in 1..Len(s) /\ pc' = pc + 1 /\ job' = job /\ Len(s) \in Nat /\ c = s[pc] BY <1>1, Onward
<1>3. AsMade(s, pc) BY DEF HealInv
<1>4. /\ mnt' = IF c.op = "mount" THEN mnt \cup c.at
                ELSE IF c.op = "umount" THEN mnt \ c.at ELSE mnt
      /\ imgFiles' = IF c.op = "truncate" THEN imgFiles \cup {Name}
                     ELSE IF c.op \in {"mvcwd", "rmimgfile"} THEN imgFiles \ {Name} ELSE imgFiles
      /\ cwdImg' = IF c.op = "mvcwd" THEN cwdImg \cup {Name}
                   ELSE IF c.op \in {"mvshrink", "finish"} THEN cwdImg \ {Name} ELSE cwdImg
      /\ c.op = "tar" => tarCwd' # "none"
      /\ c.op \notin {"tar", "mvtar"} => tarCwd' = tarCwd
      /\ Advance
  BY WorkingEffect
<1>5. cleanAborts' # 0 => cleanAborts # 0 BY <1>4 DEF Advance
<1>6. (c.op = "kpartx" => maps') /\ (c.op \notin {"kpartx", "kpartxd"} /\ maps => maps') BY MapsEffect
<1>7. Name' = Name /\ Script[job'] = s BY <1>2 DEF Name
<1> HIDE DEF s, c
<1>8. mnt' = Mounted(s, pc + 1) BY <1>2, <1>3, <1>4, MountedNext DEF AsMade
<1>9. Mapped(s, pc + 1) => maps' BY <1>2, <1>3, <1>6, MadeNext DEF AsMade
<1>10. InImg(s, pc + 1) <=> c.op = "truncate" \/ (InImg(s, pc) /\ c.op \notin {"mvcwd", "rmimgfile"})
  BY <1>2, MadeNext
<1>11. InImg(s, pc + 1) => Name \in imgFiles' BY <1>3, <1>4, <1>10 DEF AsMade
<1>12. InCwd(s, pc + 1) => Name \in cwdImg'
  <2>1. InCwd(s, pc + 1) <=> c.op = "mvcwd" \/ (InCwd(s, pc) /\ c.op \notin {"mvshrink", "finish"})
    BY <1>2, MadeNext
  <2> QED BY <1>3, <1>4, <2>1 DEF AsMade
<1>13. TarMade(s, pc + 1) => tarCwd' # "none"
  <2>1. TarMade(s, pc + 1) <=> c.op = "tar" \/ (TarMade(s, pc) /\ c.op # "mvtar") BY <1>2, MadeNext
  <2> QED BY <1>3, <1>4, <2>1 DEF AsMade
<1>14. cleanAborts' # 0 => \A n \in imgFiles' : n = Name /\ InImg(s, pc + 1)
  <2> SUFFICES ASSUME cleanAborts' # 0, NEW n \in imgFiles' PROVE n = Name /\ InImg(s, pc + 1) OBVIOUS
  <2>1. \A m \in imgFiles : m = Name /\ InImg(s, pc) BY <1>3, <1>5 DEF AsMade
  <2> QED BY <1>4, <1>10, <2>1
<1>15. /\ Script[job'] = s /\ pc' = pc + 1 /\ Name' = Name BY <1>2, <1>7
<1> QED BY <1>8, <1>9, <1>11, <1>12, <1>13, <1>14, <1>15 DEF AsMade

\* A failing command: nothing is wrong with the next gate unless img/ was in
\* the way, and then the next job will be cleaned.
LEMMA HealFails ==
    ASSUME Inv, HealInv, Refused \/ Faulted
    PROVE  HealInv'
<1> DEFINE s == Script[job]
<1>0. TypeOK /\ pc # 0 /\ job \in Jobs BY DEF Inv, TypeOK, Refused, Faulted
<1>1. pc \in 1..Len(s) /\ Len(s) \in Nat /\ Cmd = s[pc] /\ (pc = Len(s) => ~Cmd.soft)
  BY <1>0, Supplying
<1>2. cleanAborts \in {0, 1} /\ (fault => Since(pc, Softs(s), {})) BY <1>0 DEF HealInv
<1>3. CASE ~Cmd.soft
  <2>1. pc' = 0 BY <1>3 DEF Refused, Faulted, Abort
  <2>2. CASE Faulted
    <3>1. cleanAborts' = 0 BY <1>3, <2>2 DEF Faulted
    <3> QED BY <2>1, <3>1 DEF HealInv
  <2>3. CASE Refused /\ fault
    <3>1. cleanAborts' = 0 BY <1>3, <2>3 DEF Refused
    <3> QED BY <2>1, <3>1 DEF HealInv
  <2>4. CASE Refused /\ ~fault
    <3>1. cleanAborts' = cleanAborts + 1 /\ dirs' = dirs /\ shrinkImg' = shrinkImg
      BY <1>3, <2>4 DEF Refused, host, files
    <3>2. cleanAborts = 0 /\ Gate BY <1>0, <2>4, OnlyImgRefused DEF Refused
    <3>3. Gate' BY <3>1, <3>2 DEF Gate
    <3>4. cleanAborts' \in {0, 1} BY <3>1, <3>2
    <3> QED BY <2>1, <3>3, <3>4 DEF HealInv
  <2> QED BY <2>2, <2>3, <2>4
<1>4. CASE Cmd.soft
  <2>1. pc' = pc + 1 /\ pc' # 0 /\ job' = job /\ cleanAborts' = cleanAborts
    BY <1>1, <1>4 DEF Refused, Faulted, Advance
  <2>2. fault'
    <3>1. CASE Faulted BY <1>4, <3>1, Zenon DEF Faulted
    <3>2. CASE Refused
      <4>1. fault BY <1>0, <1>4, <3>2, OnlyImgRefused DEF Refused
      <4>2. fault' = fault BY <1>4, <3>2 DEF Refused, Advance
      <4> QED BY <4>1, <4>2
    <3> QED BY <3>1, <3>2
  <2>3. Since(pc + 1, Softs(s), {}) BY <1>1, <1>4, MadeNext
  <2>4. Since(pc, Softs(Script[job]), {})' BY <2>1, <2>3
  <2>5. cleanAborts' \in {0, 1} BY <1>2, <2>1
  <2> QED BY <2>1, <2>2, <2>4, <2>5 DEF HealInv
<1> QED BY <1>3, <1>4

\* A job starts with what the earlier ones left in img/ when the gate saw
\* nothing.
LEMMA HealStarts ==
    ASSUME Inv, Inv', HealInv, Start
    PROVE  HealInv'
<1>1. /\ pc = 0 /\ pc' = 1 /\ job' \in Jobs /\ cleanAborts' = cleanAborts /\ mnt' = {}
  <2>1. pc = 0 /\ pc' = 1 /\ job' \in Jobs /\ cleanAborts' = cleanAborts BY DEF Start
  <2>2. Tracked(Script[job], pc)' BY <2>1 DEF Inv
  <2>3. mnt' \subseteq MaybeMounted(Script[job'], 1) BY <2>1, <2>2 DEF Tracked
  <2> QED BY <2>1, <2>3, AtStart
<1>2. ~fault' BY Zenon DEF Start
<1>3. cleanAborts \in {0, 1} /\ (cleanAborts # 0 => Gate \/ imgFiles = {}) BY <1>1 DEF HealInv
<1>4. cleanAborts # 0 => imgFiles' = {} BY <1>3 DEF Start, Clean, files
<1>5. AsMade(Script[job], pc)'
  <2> DEFINE s == Script[job']
  <2>1. Len(s) \in Nat /\ 1 \in 1..Len(s) BY <1>1, ScriptFacts
  <2>2. Script[job'] = s OBVIOUS
  <2> HIDE DEF s
  <2>3. Mounted(s, 1) = {} /\ ~Mapped(s, 1) /\ ~InImg(s, 1) /\ ~InCwd(s, 1) /\ ~TarMade(s, 1)
    BY <2>1, MountedNext, MadeNext
  <2>4. cleanAborts' # 0 => imgFiles' = {} BY <1>1, <1>4
  <2> QED BY <1>1, <2>2, <2>3, <2>4 DEF AsMade
<1>6. cleanAborts' \in {0, 1} /\ pc' # 0 BY <1>1, <1>3
<1> QED BY <1>2, <1>5, <1>6 DEF HealInv

\* Every step keeps HealInv.
LEMMA HealStep == Inv /\ Inv' /\ HealInv /\ [Next]_vars => HealInv'
<1> SUFFICES ASSUME Inv, Inv', HealInv, [Next]_vars PROVE HealInv' OBVIOUS
<1>0. TypeOK /\ cleanAborts \in {0, 1} BY DEF Inv, HealInv
<1>1. CASE UNCHANGED vars BY <1>1 DEF vars, host, files, ctl, HealInv, AsMade, Name, Gate
<1>2. CASE Start BY <1>2, HealStarts
<1>3. CASE Refused \/ Faulted BY <1>3, HealFails
<1>4. CASE Next /\ ~Start /\ ~Refused /\ ~Faulted /\ pc' # 0
  <2>1. pc # 0 /\ pc \in 1..Len(Script[job]) /\ pc' = pc + 1 /\ job' = job /\ Len(Script[job]) \in Nat
    BY <1>0, <1>4, Onward
  <2>2. Advance BY <1>4, <2>1, WorkingEffect
  <2>3. fault' = fault /\ cleanAborts' \in {0, 1} BY <1>0, <2>2 DEF Advance
  <2>4. ~fault => AsMade(Script[job], pc)' BY <1>4, <2>1, MadeStep
  <2>5. fault => Since(pc, Softs(Script[job]), {})'
    <3>1. fault => Since(pc, Softs(Script[job]), {}) BY <2>1 DEF HealInv
    <3>2. Since(pc, Softs(Script[job]), {}) => Since(pc + 1, Softs(Script[job]), {}) BY <2>1, MadeNext
    <3> QED BY <2>1, <3>1, <3>2
  <2> QED BY <1>4, <2>3, <2>4, <2>5 DEF HealInv
<1>5. CASE Next /\ ~Start /\ ~Refused /\ ~Faulted /\ pc' = 0
  <2>1. CASE cleanAborts' = 0 BY <1>5, <2>1 DEF HealInv
  <2>2. CASE imgFiles' = {} /\ cleanAborts' = cleanAborts BY <1>0, <1>5, <2>2 DEF HealInv
  <2>3. CASE MakeClean \/ HostReboot BY <1>5, <2>1, <2>2, <2>3 DEF MakeClean, HostReboot, Clean, ctl
  <2>4. CASE NeedTar /\ ~Advance BY <2>2, <2>4 DEF NeedTar, Clean
  <2>5. CASE HaveTar /\ ~Advance
    <3> DEFINE s == Script[job]
    <3>1. pc # 0 /\ Cmd.op = "havetar" /\ cleanAborts' = cleanAborts /\ imgFiles' = imgFiles
      BY <2>5 DEF HaveTar, Doing, files
    <3>2. /\ pc \in 1..Len(s) /\ Len(s) \in Nat /\ Cmd = s[pc]
          /\ Supplied(s, pc)
      BY <1>0, <3>1, Supplying
    <3>3. ~Since(pc, Softs(s) \cup Uses(s, {"truncate"}), {}) BY <3>1, <3>2 DEF Supplied, Softs
    <3>4. ~Since(pc, Softs(s), {}) /\ ~InImg(s, pc) BY <3>3 DEF Since, InImg
    <3>5. AsMade(s, pc) BY <3>1, <3>4 DEF HealInv
    <3>6. cleanAborts # 0 => imgFiles = {} BY <3>4, <3>5 DEF AsMade
    <3> QED BY <1>0, <2>1, <2>2, <3>1, <3>6
  <2>6. CASE Advance /\ pc # 0
    <3>1. pc \in 1..Len(Script[job]) /\ Len(Script[job]) \in Nat BY <1>0, <2>6, Supplying
    <3>2. cleanAborts' = 0 BY <1>5, <2>6, <3>1 DEF Advance
    <3> QED BY <2>1, <3>2
  <2>7. MakeClean \/ HostReboot \/ (NeedTar /\ ~Advance) \/ (HaveTar /\ ~Advance) \/ (Advance /\ pc # 0)
    BY <1>5 DEF Next, MountCommand, FileCommand, ImageCommand, Mkdir, Rmdir, Mount, Umount, Rm,
       Work, Truncate, Losetup,
     Detach, Kpartx, Kpartxd, MvCwd, MvShrink, RmShrink, Finish, TarUp, RmImgFile, MvTar, Mkfs, Uuid, Fstab, BootCfg,
     Board09, UpdateGrub, SedGrub, Copy, Content, NeedTar, HaveTar, Doing
  <2> QED BY <2>3, <2>4, <2>5, <2>6, <2>7
<1> QED BY <1>1, <1>2, <1>3, <1>4, <1>5

\* stage1:38 and rootfs:12, the gate with rmdir img at stage1:197: of two
\* jobs in a row, the second does not abort with none of its commands
\* failing, for any scripts that need nothing but what they made
\* (SelfSupplied), whatever came before: the first was stopped by an img/
\* that was not empty, and it leaves what makes the second clean first.
THEOREM Heals == Spec => []SelfHealing
<1>1. Init => HealInv BY DEF Init, HealInv
<1>2. HealInv => SelfHealing BY DEF HealInv, SelfHealing
<1> QED BY <1>1, <1>2, HealStep, Invariance, PTL DEF Spec

-----------------------------------------------------------------------------
\* The size of the shrunk image

\* The sum that calculate leaves behind.
Sum(n, v) == n + Padding(v, FirstDigit(n))

\* The sizes that the theorem is about.
Small(n) == n \in Nat /\ 1 <= n /\ n <= 9999

\* CopyFiles sees the sum of calculate: the inductive invariant.
SizeInv ==
    /\ SizeTypeOK /\ CopyFits
    /\ phase \in {"calculated", "partitioned"} => total = Sum(du, pv)

-----------------------------------------------------------------------------
\* The first digit bounds the number from both sides

\* Every number below 10000 has a first digit.
LEMMA DigitExists ==
    ASSUME NEW n, Small(n)
    PROVE  \E d \in 1..9 : \E p \in Powers : d * p <= n /\ n < (d + 1) * p
<1> USE DEF Small
<1>1. CASE n < 10
  <2>1. 1 <= n /\ n <= 9 BY <1>1
  <2>3. 1 \in Powers BY DEF Powers
  <2>2. n * 1 <= n /\ n < (n + 1) * 1 OBVIOUS
  <2> QED BY <2>1, <2>2, <2>3
<1>2. CASE 10 <= n /\ n < 100
  <2>1. n \div 10 \in 1..9 /\ 10 \in Powers BY <1>2 DEF Powers
  <2>2. (n \div 10) * 10 <= n /\ n < (n \div 10 + 1) * 10 BY <1>2
  <2> QED BY <2>1, <2>2
<1>3. CASE 100 <= n /\ n < 1000
  <2>1. n \div 100 \in 1..9 /\ 100 \in Powers BY <1>3 DEF Powers
  <2>2. (n \div 100) * 100 <= n /\ n < (n \div 100 + 1) * 100 BY <1>3
  <2> QED BY <2>1, <2>2
<1>4. CASE 1000 <= n
  <2>1. n \div 1000 \in 1..9 /\ 1000 \in Powers BY <1>4 DEF Powers
  <2>2. (n \div 1000) * 1000 <= n /\ n < (n \div 1000 + 1) * 1000 BY <1>4
  <2> QED BY <2>1, <2>2
<1> QED BY <1>1, <1>2, <1>3, <1>4

\* What head -c 1 returns: a digit d with n < (d + 1) * p for its power p.
LEMMA DigitBound ==
    ASSUME NEW n, Small(n)
    PROVE  /\ FirstDigit(n) \in 1..9
           /\ \E p \in Powers : /\ FirstDigit(n) * p <= n
                                /\ n < (FirstDigit(n) + 1) * p
<1> DEFINE P(d) == \E p \in Powers : d * p <= n /\ n < (d + 1) * p
<1>1. \E d \in 1..9 : P(d) BY DigitExists
<1>2. FirstDigit(n) = CHOOSE d \in 1..9 : P(d) BY DEF FirstDigit
<1> HIDE DEF P
<1>3. FirstDigit(n) \in 1..9 /\ P(FirstDigit(n)) BY <1>1, <1>2
<1> QED BY <1>3 DEF P

\* The largest number with a given first digit is below (d + 1) thousand.
LEMMA DigitCeiling ==
    ASSUME NEW n, Small(n)
    PROVE  FirstDigit(n) \in 1..9 /\ n < (FirstDigit(n) + 1) * 1000
<1> DEFINE d == FirstDigit(n)
<1>1. d \in 1..9 /\ \E p \in Powers : n < (d + 1) * p BY DigitBound
<1> HIDE DEF d
<1>2. PICK p \in Powers : n < (d + 1) * p BY <1>1
<1>3. p \in {1, 10, 100, 1000} BY DEF Powers
<1>4. n < (d + 1) * 1000
  <2>1. CASE p = 1    BY <1>1, <1>2, <2>1 DEF Small
  <2>2. CASE p = 10   BY <1>1, <1>2, <2>2 DEF Small
  <2>3. CASE p = 100  BY <1>1, <1>2, <2>3 DEF Small
  <2>4. CASE p = 1000 BY <1>1, <1>2, <2>4 DEF Small
  <2> QED BY <1>3, <2>1, <2>2, <2>3, <2>4
<1> QED BY <1>1, <1>4 DEF d

\* The two tables in closed form: at least 400 + 100 * d for one partition
\* and 800 + 100 * d for two.
LEMMA PaddingBound ==
    ASSUME NEW d \in 1..9, NEW v \in {"p1", "p2"}
    PROVE  /\ Padding(v, d) \in Nat
           /\ v = "p1" => Padding(v, d) = 400 + 100 * d
           /\ v = "p2" => Padding(v, d) >= 800 + 100 * d
<1>1. d \in {1, 2, 3, 4, 5, 6, 7, 8, 9} OBVIOUS
<1>2. PaddingP1[d] = 400 + 100 * d BY <1>1 DEF PaddingP1
<1>3. PaddingP2[d] \in Nat /\ PaddingP2[d] >= 800 + 100 * d BY <1>1 DEF PaddingP2
<1> QED BY <1>2, <1>3 DEF Padding

-----------------------------------------------------------------------------
\* The copy

\* The step that could fail: the sum of calculate leaves room for the files,
\* the boot partition and the file system's own tables.
LEMMA Room ==
    ASSUME SizeTypeOK, total = Sum(du, pv)
    PROVE  du * MiB + Overhead <= RootSize
<1> DEFINE d == FirstDigit(du)
           pad == Padding(pv, d)
<1>1. Small(du) /\ pv \in {"p1", "p2"} /\ Offset \in 1..16 BY SizeAssumption DEF SizeTypeOK, Small
<1>2. d \in 1..9 /\ du < (d + 1) * 1000 BY <1>1, DigitCeiling
<1> HIDE DEF d
<1>3. /\ pad \in Nat
      /\ pv = "p1" => pad = 400 + 100 * d
      /\ pv = "p2" => pad >= 800 + 100 * d
  BY <1>1, <1>2, PaddingBound
<1>4. total = du + pad BY DEF Sum, d
<1> HIDE DEF pad
<1>5. RootStart \in Int /\ (pv = "p1" => RootStart <= 262144) /\ RootStart <= 8388608
  BY <1>1 DEF RootStart, MiB
<1>6. RootSize = (du + pad) * 15625 - RootStart BY <1>4 DEF RootSize, MB
<1> DEFINE rs == RootSize
<1>7. rs \in Int BY <1>1, <1>3, <1>5, <1>6 DEF Small
<1> HIDE DEF rs
<1>8. 32 * (rs \div 32) <= rs BY <1>7
<1>9. SUFFICES 32 * du * 16384 + rs + 32 * 80 * 16384 <= 32 * rs
  <2>1. rs \div 32 \in Int BY <1>7
  <2>2. Overhead = rs \div 32 + 80 * 16384 BY DEF Overhead, MiB, rs
  <2> QED BY <1>1, <1>7, <1>8, <1>9, <2>1, <2>2 DEF MiB, rs, Small
<1>10. rs = (du + pad) * 15625 - RootStart BY <1>6 DEF rs
<1>11. CASE pv = "p1" BY <1>1, <1>2, <1>3, <1>5, <1>10, <1>11 DEF Small
<1>12. CASE pv = "p2" BY <1>1, <1>2, <1>3, <1>5, <1>10, <1>12 DEF Small
<1> QED BY <1>1, <1>11, <1>12

-----------------------------------------------------------------------------
\* The theorem

\* The inductive invariant holds: calculate sets the sum, partition keeps it
\* and the copy finds the room that it promises.
THEOREM SizeInvariance == SizeSpec => []SizeInv
<1>1. SizeInit => SizeInv BY DEF SizeInit, SizeInv, SizeTypeOK, CopyFits
<1>2. SizeInv /\ [SizeNext]_sizeVars => SizeInv'
  <2> SUFFICES ASSUME SizeInv, [SizeNext]_sizeVars PROVE SizeInv' OBVIOUS
  <2>1. CASE Calculate
    <3>1. Small(du) /\ pv \in {"p1", "p2"} BY SizeAssumption DEF SizeInv, SizeTypeOK, Small
    <3>2. FirstDigit(du) \in 1..9 BY <3>1, DigitBound
    <3>3. Padding(pv, FirstDigit(du)) \in Nat BY <3>1, <3>2, PaddingBound
    <3>4. total' = Sum(du, pv) BY <2>1 DEF Calculate, Sum
    <3>5. total' \in Nat BY <3>1, <3>3, <3>4 DEF Sum, Small
    <3> QED BY <2>1, <3>4, <3>5 DEF Calculate, SizeInv, SizeTypeOK, CopyFits, Sum
  <2>2. CASE Partition BY <2>2 DEF Partition, SizeInv, SizeTypeOK, CopyFits, Sum
  <2>3. CASE CopyFiles
    <3>1. total = Sum(du, pv) BY <2>3 DEF CopyFiles, SizeInv
    <3>2. du * MiB + Overhead <= RootSize BY <3>1, Room DEF SizeInv
    <3>3. phase' = "copied" BY <2>3, <3>2 DEF CopyFiles
    <3> QED BY <2>3, <3>3 DEF CopyFiles, SizeInv, SizeTypeOK, CopyFits
  <2>4. CASE Done \/ UNCHANGED sizeVars BY <2>4 DEF Done, sizeVars, SizeInv, SizeTypeOK, CopyFits, Sum
  <2> QED BY <2>1, <2>2, <2>3, <2>4 DEF SizeNext
<1> QED BY <1>1, <1>2, PTL DEF SizeSpec

\* shrink:72-76 and 119-128: for every size below 10000 MiB and every OFFSET
\* up to 16MiB the copy never runs out of space.
THEOREM ShrinkFits == SizeSpec => []CopyFits
<1>1. SizeInv => CopyFits BY DEF SizeInv
<1> QED BY SizeInvariance, <1>1, PTL

\* The image and its partition keep their types, whatever size the files
\* have (shrink:57-76).
THEOREM SizeTyping == SizeSpec => []SizeTypeOK
<1>1. SizeInv => SizeTypeOK BY DEF SizeInv
<1> QED BY SizeInvariance, <1>1, PTL
=============================================================================
