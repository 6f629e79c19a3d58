# debian-image-builder: a TLA+ verification project

debian-image-builder is a set of shell scripts that compile a kernel and U-Boot for
a board, bootstrap a root file system, and assemble both into a bootable image; some
of its scripts go into the image and run on the device. The scripts run as root, mount
the build host's own `/dev` into directories which other scripts delete with `rm -fdr`,
keep caches between runs, and are stopped by a failing command, Ctrl-C or a power
failure at any line. This is what the modules here are about: not what the scripts do
when all goes well, but what they leave behind when it does not, and what the next run
makes of that.

The repository also carries a driver of its own build: `patches/wireless/vs6621s`, the Wi-Fi,
Bluetooth and platform drivers of the Seekwave SWT6621S chip, 60,000 lines of C that are copied
into the kernel tree. They are the largest program of the repository and the most concurrent: the
chip runs a firmware that answers late, dies and comes back, and work queues, tasklets, timers,
system calls and suspend meet in the same structures. Section 3 is about them.

## 1. Inventory

| Component | State it keeps | Operations | Hard part | What makes it correct |
|---|---|---|---|---|
| Image job: `scripts/stage1`, `stage2`, `lib/function/staging`, `shrink` | mounts, directories `p1 p2 img BOOT EFI <LABEL>`, loop devices, kpartx maps, `shrink.img`, the image in `img/` and in the working directory, partition ids in shell variables and in files of the image | partition, extract, chroot, write boot configuration, shrink, finish | `set -eu`: any command ends the job with everything still mounted; a shrunk image is a copy that still names its original | nothing mounted is ever deleted; a finished image names its own partitions; a finished job leaves nothing |
| Rootfs job: `scripts/rootfs`, `rootfs-extra` | `sysroot`, its loop device, the tarball | debootstrap, chroot, tar, move to `output/tarball` | `rootfs-extra` runs without `set -e` | the tarball in `output/` is whole and holds no foreign mount |
| `scripts/clean` and the gate at the start of both jobs | the same | lazy umount, `rm -fdr`, detach, unmap | ignores all errors; runs only if one of four names exists | always restores the directory, and is run whenever it must be |
| Size of the shrunk image: `calculate` | `du_mb`, `total_mb` | first digit, padding | MiB against MB, a first digit that wraps | the copy fits |
| First boot: `firstboot`, `useraccount`, `credentials` | root file system, files of `/boot`, enabled services | grow, create account, new identity, hostname, Wi-Fi, disable itself | power failures with `commit=600`, a `/boot` that is written back separately | an account when logins open; disabled means done; it ends |
| `write2mmc` | target device, mounts below `/transfer`, `DEVICE_NODE` | partition, copy, flash U-Boot, boot configuration, initramfs, unmount, remove | no `set -e` | the target boots; the running system survives |
| Kernel packages: `scripts/linux`, `lib/function/git`, `linux`, `patching` | cached trees, `.cache/git_shallow.*`, working copy, packages in `sources/` and `output/` | ls-remote, verify, clone, restore, patch, bindeb-pkg, move | remote moves, kills, exit codes not looked at, `sources/` shared by all boards | the packages are those of this board and this commit |
| U-Boot packages and firmware | `u-boot`, archives, `.deb` | download, patch, build, package | as above | as above |
| Wi-Fi driver `swt6621s_wifi`: requests | `skw->cmd`, its lock and timer; scan request, timer list, work list; queues, ring, credit | send a command, scan, transmit | five contexts release one lock; timeouts race answers; suspend, death of the firmware | one command at a time, its own answer; every request ends, once |
| Wi-Fi driver: tables | station state and peers, clients and ids, interfaces, keys, radar detectors, channels, reorder buffers, fragments | cfg80211 operations, events, timers, recovery | each is kept twice, in the driver and in the firmware or in cfg80211, and changed with a command in between | the copies agree |
| Platform driver `seekwaveplatform_lite` | ports with rings, services, boot and dump state, requests in the air, character devices | open, read, send, start, stop, recover, suspend, remove | rx thread, exception work, users and suspend share interrupt, power and completions | no byte, packet, wakeup or request is lost; one recovery at a time |
| Bluetooth driver `swtbt4l` | HCI device, queues, NV download, log | open, send, close, flush, log | the firmware dies under an open device | open means open, no frame for a dead firmware |
| `usbboot`, `transfer`, `customize_image`, `menu-config`, dialogs, package hooks | | | | see section 8 |

The components meet in the file system: a rootfs job leaves the tarball that an image
job extracts; a kernel build leaves the packages that `stage2` installs; an image job
installs the first boot services and `write2mmc`; each job finds what an interrupted
earlier one left. `lib/function/wireless` copies the drivers into the kernel tree. The Wi-Fi and
Bluetooth drivers reach the chip through the platform driver (`struct sv6160_platform_data`:
`open_port`, `hw_adma_tx`, `service_start`, `modem_assert`, notifiers); each module below models
the calls at its edge as actions of the other side. `growpart` comes from cloud-utils and is left
aside, as are patches to trees that are not in the repository.

## 2. Modules

| Module | Models |
|---|---|
| `Workspace` | the build host: mounts, directories, loop devices, maps, files, the identity of the image, what each kind of command does, failing commands, `clean`, the gate, reboots. Parameterised by the jobs and their scripts, of which it states what the proofs suppose |
| `BuildScripts` | `scripts/stage1`, `stage2`, `rootfs`, `rootfs-extra`, `staging` and `shrink` as the sequences of commands that `Workspace` runs |
| `MCWorkspace` | both composed, with 14 jobs |
| `ShrinkSize` | `calculate`, the partition and the copy |
| `FirstBoot` | the three services, init, power and two file systems |
| `Write2mmc` | the transfer script |
| `KernelBuild` | `scripts/linux` with its caches |
| `SkwCommand`, `SkwScan`, `SkwTx` | requests of the Wi-Fi driver: section 3 |
| `SkwSta`, `SkwAp`, `SkwLife`, `SkwRx`, `SkwEvents`, `SkwKeys`, `SkwDfs`, `SkwTdls` | the tables of the Wi-Fi driver |
| `SkwSdioPort`, `SdioChannel`, `SkwSdioCp`, `SkwSdioBind`, `SkwSdioLink`, `SkwUsbUrb`, `SkwUsbCp`, `SkwUcom`, `SkwBtLog`, `SkwLogFile`, `SkwDumpMem`, `SkwBootDev` | the platform driver |
| `SkwBt` | the Bluetooth driver |
| `WorkspaceProofs` (with `ShrinkSize`), `FirstBootProofs`, `Write2mmcProofs`, `KernelBuildProofs`, `SkwRequestsProofs`, `SkwWifiProofs`, `SkwBusProofs`, `SkwPlatformProofs` | theorems: section 6 |
| `MC...` | instances for TLC |

Definitions whose comment says "Mutant" or "Wrong" are variations of the definition that
follows, each with one plausible mistake; no specification uses them. They are the mutants that
`PROJECT.json` lists, one for each property, and show that it is able to fail.

### Workspace and BuildScripts

The scripts are straight lines once the board file and the user's settings are
read, so a job is a sequence of commands: an operation, the mount points it works on, and
whether it is `soft` (stands in a script without `set -e`). `pc` is the next command.
One action per operation says what it does to the host; `Works` says what the kernel
or the shell requires of it (a directory with a mount on it cannot be removed, a
mount with another below it is busy, maps in use cannot be deleted). A command that
does not meet this is `Refused`; any command may also be `Faulted`, and one with
several operands may then have done part of them. In both cases the job ends where it stands. `Start`
is the gate (stage1:38, rootfs:12) followed by the whole of `clean` when it is true.

An image is abstracted to generations: `mkfs` makes a new generation (new UUIDs and
PARTUUIDs), `uuid` reads it into shell variables, and `fstab`, the boot configuration
and the board's GRUB entry hold the generation they were written with. Copying in
`shrink` copies the old generation in the files to the new file system.

### ShrinkSize

Sizes are in units of 64 bytes so that MB and MiB are both exact. The padding tables
are those of the code; what `mkfs.ext4` takes for itself is estimated from above.

### FirstBoot

`root` and `boot` are the file systems as programs see them, `disk` and `flash` what a
power failure would leave. A commit of the root is a step of its own that can
happen at any time; tools that `fsync` (adduser, chpasswd) force one. With two partitions
`/boot` is flushed independently. Each line of a script that changes state is an action;
init starts the services in the order of their units (systemd) or
scripts (sysvinit).

### Write2mmc

One action per block of the script. Because nothing stops at a failure, a
failing mount, copy or `update_grub.sh` is an alternative that goes on to the same next
step. `mounts` counts how often a point is mounted, since mounts can be stacked.

### KernelBuild

One action per step of `git_download`, `git_option` and `git_verify` at which a kill
leaves something different on disk. A tree is a commit and whether it is whole. The
packages in `sources/` are a set, because the code takes whatever matches `*.deb`.
`torn` is a history variable: a build was killed since the last `make purge`.

## 3. The SWT6621S drivers

Each module keeps its state in a few records named after the structures they stand for, has one
action per function or per part of a function between two points where others can run (a
lock released, a command sent, a sleep), and names the lines in `PROJECT.json`. Where the code has
two builds, the one of its Makefile is modelled (`STA_SME_EXT`, `SAP_SME_EXT`, `TX_WORKQUEUE`);
TDLS and DFS are Kconfig options and modelled as built. A record `odd` (or a field such as
`torn`, `slipped`, `fault`) is history: it notes that a sequence has happened that the code does
not survive. The properties say what holds outside these sequences, so each names its exceptions,
and the comment above it says what they are.

| Module | State and actions | What is checked |
|---|---|---|
| `SkwCommand` | `cmd.lock`, `skw->cmd`, flags, queued work, the firmware. Callers lock, set, transmit, wait twice, unlock; the transmit path tries; acknowledgement, timer, unlock work; suspend and resume; assertion and recovery | `ExclusiveUntilFault`, `ResultIsOwn`, `AsleepIsSilent`, `CallsReturn` |
| `SkwScan` | `scan_req`, timer list, work list, scan events, management frames | `AnsweredOnce`, `ScanEnds` |
| `SkwTx` | queues per category, vring, credit, tx worker, dy worker, the network, the firmware's room | `CreditIsRoom`, `RingTakesAll`, `FramesLeave` |
| `SkwSta` | `iface->sta`, peers, what cfg80211 was told; operations, events, retry timer, the second half of a leave | `BoundUntilTorn` |
| `SkwAp` | clients, peers, ids, ACL; three contexts that delete | `ClientsAgree` |
| `SkwLife` | probe and remove, interfaces, `opened_dev`, recovery data, access points that cannot be restarted; the RTNL and the recovery work | `OpenedIsCounted`, `RecoveryTells` |
| `SkwRx` | reorder window of a tid, timer, todo, BA sessions, replay counters; frames numbered without end, seen modulo the sequence space | `DeliveredInOrder`, `NothingStuck` |
| `SkwEvents` | event numbers, the two works, fragments | `NoEventMissed`, `FragmentsOfOne` |
| `SkwKeys` | recorded, buffered and installed keys | `KeysAgree` |
| `SkwDfs` | availability check and monitoring of two interfaces, a PRI detector with wrapping timestamps | `RadarIsFound`, `CheckIsLive` |
| `SkwTdls` | links in driver and firmware, frames as sequences of elements and runs of channels, channels on record and in use, the last interface that hides a link from the check | `TdlsFrameOrder`, `ChannelsBounded` |
| `SkwSdioPort` | ring, flow control and its register, completions; rx thread, reader, sender, open and close | `RingIsChannel` (refinement of `SdioChannel`), `NoLostWakeup`, `StoppedHasData`, `SuccessIsAcked` |
| `SkwSdioCp` | services, `cp_state`, mutexes, interrupt depth; users, exception work, rx thread | `StartedIsReady`, `OneRecovery` |
| `SkwSdioBind` | platform devices of the ports on both chips | `DevicesMatch` |
| `SkwSdioLink` | interrupt (in band or GPIO), rx thread with batches, senders, suspend | `RxArmed`, `PacketsHeard` |
| `SkwUsbUrb` | the four places of a request, the counter, tasklet, suspend, disconnect | `ReadsArmed`, `UrbsKept`, `CounterTrue` |
| `SkwUsbCp` | download in packets, loop check thread, services, assertion, exception work | `ToldOnce`, `RunningIsReady`, `PacketsEnd` |
| `SkwBt` | HCI device, ports, NV download, worker, notifier | `BtOpenMeansOpen`, `NoStaleFrame`, `AnswerIsOwn` |
| `SkwBtLog` | log queue, one reader with a copied descriptor, one writer; BTCMD and BTBOOT come, go and are opened | `LogReaderServed`, `LogIsWhole` |
| `SkwUcom` | character device, holders, transfers, removal | `UcomHeld` |
| `SkwLogFile` | the LOG device and the recording of the firmware's log in files: users, notifier, work item, limits in integers of 32 bits | `LogRecorded` |
| `SkwDumpMem` | the buffer with the memory of a dead firmware, filled by two notifications (SDIO) or a work item (USB), its readers | `DumpIsOne` |
| `SkwBootDev` | probe, images, settings, first boot and removal of the boot device, services under `boot_mutex` | `BootDataHeld` |

`SdioChannel` is the abstract specification of a port: bytes come in packets, leave in order, and
opening may empty it. `SkwSdioPort` implements it with `queue` mapped to the bytes between `rx_rp`
and `rx_wp` and `torn` to its history of an `open_sdio_port` that met a packet being copied in or a reader that empties the
ring. Both sections are of two steps, the copy and the change of the index, and each reads its index again at the second one
(`Advance`, `Taken`), so an open between them has the effect it has in the code: a new mutex that lets the other one in, and
indices that begin at zero and are moved on by what was copied before. There are three kinds of port: port 0 (`at`), which the return of the
firmware opens again, the log port, and those of a service (`data`), the only ones whose ring an open empties. The flow control
register is changed by a read and a write that may fail and whose result nobody looks at, and the same access for another of the eight
ports may undo a change (`OtherPortWrites`); `unlifted` notes that the bit is set though the driver believes it is not.

Three instances compose them: `MCSkwRequests`, `MCSkwWifi` and `MCSkwPlatform`. A variable `part`,
chosen in the initial state, says which component runs; the others rest in an initial state. The
components meet only through the calls that each module has as actions of its environment, so
the sum of their state spaces is explored and not the product. The invariants that are listed as a
run's property under one name (`RequestsSound`, `RadioObeys`, `WifiConsistent`,
`ReceiversServed`, `FirmwareAgrees`, `PlatformSound`, `DevicesSound`) are conjunctions of the named ones of the
table, each for its part. `PROJECT.json` lists one mutant per property; the other conjuncts are
stated by theorems of their own (section 6).

Bounds. Two of everything that competes (callers, scans, access points, clients, interfaces, read
requests; three openers of a device that two may hold) and one or two faults: enough for a fault during the handling
of a fault. Sizes are shrunk so that limits are met: a ring of 4 bytes for packets of 2, a window of
2 doubled to 4 in a sequence space of 16 that starts at 14 and wraps, event numbers modulo 8, a timestamp
that wraps at 16, two fragment entries for three messages, room for one or two frames, two association
ids. In `SkwSdioCp`, `SkwUsbCp`, `SkwUsbUrb`, `SkwSdioLink` and `SkwLife` the budgets of calls and faults start with one of them
partly spent, so that either two calls or two faults happen, not both. `MCSkwPlatform` also leaves out initial
states: the port that is read is one of a service on the V10 chip (the other kinds and the V20 chip are covered by the proofs), port 0
sends on the V20 chip and the others on V10, one access of the flow control register fails, the interrupt and the transfer mode of a link that meets faults are in-band
with ADMA or neither, and two dump readers of different devices come in one order. The recording has a buffer of 4 pages, as in the code,
survives one failed read instead of five, and gets two settings: one beyond every limit (SDIO), one whose product leaves an
int (USB, with one call less). `VIEW` tells states apart by the part that runs alone, since the others never change. Deadlock is not checked in
`MCSkwWifi` and `MCSkwPlatform`, where a behaviour ends when its operations are used up; it is in
`MCSkwRequests`.

Fairness, in `MCSkwRequests` only. Work queues and threads that have something to do run: weak fairness of the
workers, of each caller's next step, of the timers' expiry (a pending timer fires) and of the receive
path; strong fairness of taking `cmd.lock`, a semaphore that serves its waiters in order. The firmware is
fair only where the property needs its help: `FramesLeave` assumes that it gives credit back, `CallsReturn` and
`ScanEnds` assume nothing of it.

What these checks met on the way, kept as exceptions of the properties and listed as hazards: an
`open_sdio_port` in the middle of a packet or of a read, after which stale bytes are read and the indices may leave the ring
(`InRing`: there the model ends); an open under a reader that sleeps, whose completion it forgets; a failed access of the flow
control register, or one of another port that undoes it, which leaves the chip quiet with an empty ring; an acknowledgement later than 100 ms, which makes
`tx_flow_ctrl` negative; a resume that strands a USB request put by between its last look and the reset
of `suspend`; a scan answered twice when START_SCAN is refused after its own timeout; a disconnect event that
takes the peer from a station that has moved on; a credit reset under a worker; a refused
key replacement after which driver and firmware disagree; a detector that stays blind with a count
left over; a Bluetooth open that returns 0 though it gave up; a character device whose
buffers are freed under a reader after one second; the Bluetooth log, which drops a packet read in half whenever a copy of its
descriptor is closed, is freed under an open file when BTBOOT goes, and is told nothing while BTCMD is away; an access point that
a recovery cannot start again, of whose clients nobody is told; the null pointer that `skw_channel_allowed` reads when a direct link is
up and the last interface id is free, and the channels it misses when that interface is on another lmac; a switch of channel that
the access point or the firmware orders, which nobody checks; a recording that is deaf to the firmware
after STOP and START, since the notifier is registered once; one that gave up at a file it could not open and
left `record_flag` set, so that nothing starts until the next stop; a stop that comes before the work item's first line
and goes unseen; `skw_log_size * skw_log_num`, an int, that wraps and escapes the limit of 1 GiB (100 MiB in 41
files), of which there are `skw_log_num + 1` in any case, 1.2 GiB for five of 200 MiB; a worker of the transmit path that goes round for nothing as long
as there is credit, since frames it dropped for a peer that is gone count as pending; a read of SKWDUMP that finds no dump, returns the end of the file and moves the position all the
same; a dump read by two files of which one drops it; settings of the old kind that do not fit and are
never freed; services that find `boot_data` freed after a failed probe or a removal. Not in a
model: over SDIO `skw_dump_memory_into_buffer` does not look at the length of its buffer
(`Pieces` and `Room` bound the dump of `SkwDumpMem` over USB, where the code checks).

## 4. Runs

| Run | Instance | Shows |
|---|---|---|
| `workspace` | 14 jobs: rootfs under two names; images with one partition (extlinux, boot.cmd) and two (extlinux, broadcom, GRUB with the board's entry, GRUB without), with and without shrinking; a second name and label. 25,796 states | see below |
| `shrink_size` | every size from 1 to 9999 MiB, the largest offset. 119,988 states | `CopyFits` |
| `first_boot` | both init systems, both layouts, edited and untouched files, two faults. 45,367 states | `LoginHasAccount`, `DisabledIsFinished`, `SetupEnds` |
| `write2mmc` | SD card, eMMC, USB disk, NVMe drive; any of mount, copy and GRUB fails. 1,322 states | `SuccessTransfers`, `HostSurvives` |
| `kernel_build` | a board built from a branch and one built from a tag, two commits, one kill. 1,271,881 states | `NewMeansNew`, `UndisturbedOk`, `DoneIsExact` |
| `skw_requests` | commands, scans, frames. 196,637 states | `RequestsSound`, `CreditIsRoom`, `AnsweredOnce`, `AsleepIsSilent`; under fairness `CallsReturn`, `ScanEnds`, `FramesLeave` |
| `skw_wifi` | the tables of the Wi-Fi driver. 952,435 states | `ClientsAgree`, `DeliveredInOrder`, `KeysAgree`, `RadioObeys`, `WifiConsistent`, `BoundUntilTorn`, `RecoveryTells` |
| `skw_platform` | the platform and Bluetooth drivers, and what they keep for user space. 1,630,242 states | `ReceiversServed`, `FirmwareAgrees`, `PlatformSound`, `DevicesSound`, `RingIsChannel` |
| `first_boot_default`, `write2mmc_complete`, `kernel_build_done`, `kernel_build_ok` | the same models | the code does not do what it or its documentation says: section 5 |

`workspace` checks: no `rm -fdr` meets a mount (`RmSparesMounts`); the gate's four names
are enough for a job never to start on top of mounts or maps (`StartsUnmounted`); `make
clean` restores the directory after anything (`CleanRestores`); a job that runs to its end
takes everything with it (`EndsTidy`); a job that aborts although none of its commands
failed leaves what the gate will see, so it does not happen twice in a row
(`SelfHealing`); an image in `output/` names its own partitions for every layout and boot
method (`ShippedNamesItself`); a tarball in `output/` is whole and pure
(`TarballPure`).

Why the bounds are enough. Jobs of `Workspace` are not bounded: any number may follow
each other, and the state space closes by itself. Two names are needed
for one job to find the other's file in `img/`; a third adds nothing, since a job distinguishes only
its own name and others. Two faults in `FirstBoot` allow a power failure
during the repair of an earlier one. One kill in `KernelBuild` suffices to reach every kind of
leftover (partial tree, old tree with new record, stray packages), and any number of
undisturbed builds follow it; two commits let the branch move between question and
clone or between two builds.

Fairness of the scripts (that of the drivers is in section 3). `FirstBoot` states a liveness property under weak fairness of the
scripts and init (`WF_vars(Run)`): a device that is switched on keeps executing. Power
failures, commits and flushes are not fair; the first are bounded, so `SetupEnds` says that
the setup ends once they stop. The other scripts have no loops and are checked for safety.
TLC checks deadlock in every run of the scripts' models.

## 5. Where the code differs from what it says

- `first_boot_default`: `useraccount` removes `/boot/useraccount.txt` (line 55) before it
  disables itself (line 62). If power fails in between, the next boot creates `pi:board` with
  sudo although the owner had filled in the file; README.md:185 promises the default only for a
  blank one. Disabling first would do.
- `write2mmc_complete`: if `update_grub.sh` fails, proc and sys stay mounted in the new root,
  it cannot be unmounted, and `rm -fdr /transfer` (line 831) erases the new system; the
  script says "Transfer complete.". `HostSurvives` shows that at least the running system's
  `/dev` is not reached.
- `kernel_build_done`: `scripts/linux` tells success from `ls *linux*.deb`; headers alone
  are enough. The old kernel package is moved away and the build says "Done.".
- `kernel_build_ok`: `git_option` writes the cache file before the clone, `git_verify` records the new
  commit before it removes the old tree, and an existing tree is restored unchecked. After
  a kill the next build says "ok." of a partial or old tree.

## 6. Proofs

TLAPS proves the following for every value of the constants that meets the named assumptions.

`WorkspaceProofs` (`Typing`, `Invariance`, `RmSafe`, `GateSafe`, `CleanSafe`, `TarballIsPure`, `ShippedIsNamed`,
`EndIsTidy`, `Heals`): every property of the run `workspace`. The theorems hold for any set of jobs with any scripts that
keep a few static rules on the order of their commands, stated in `Workspace`; TLC evaluates them on the real scripts (the
`ASSUME`s beside them). A change to a script need only keep the rules; the theorems need no new proof. A script that breaks
one is refused by the `ASSUME` before TLC starts, so the mutants of these properties are mistakes in the handlers.

`WellOrdered` says that a script mounts only in directories that `clean` knows, removes nothing that may
still be mounted, keeps a name that the gate looks at in place while anything may be
mounted, and unmounts everything at its end. `RmSparesMounts`
is not inductive: the state before a `clean` must say which mounts there can be. The
inductive invariant `Inv` adds that

- mounts are nested (what is mounted inside a directory has the directory's own mount under
  it), so that `umount -l` of the directory takes all of it;
- while a job runs, its mounts are among `MaybeMounted(script, pc)`, its maps exist only if
  `MaybeMapped`, and directories and `shrink.img` that must exist (`SureDir`,
  `SureShrink`) do (`Tracked`);
- when none runs, mounts imply that the gate is true (`Seen`);
- maps imply `shrink.img`.

The other rules are made of `Since(i, A, B)`: a command of `A` stands before command `i` and none of `B` between them. For each
there is an invariant that says what the state owes to the rule at `pc`:

- `TarOrdered` (`TarInv`): a tarball moves to `output/` only after a hard umount of `sysroot` that came after `tar` with no other umount in
  `sysroot` between. That umount succeeds only if nothing is mounted inside, and so nothing was when `tar` ran, whatever
  umounts of `rootfs-extra` have failed unseen.
- `NamesItself` (`ImageInv`, `OwnNames`): the ids the shell holds are those of the last `mkfs` when fstab and the boot configuration are
  written; the menu entry that `update-grub` copies was written with them, or came with the copied image and was rewritten by
  a `sed` that looks for the ids saved with that very image.
- `TidiesUp` (`TidyInv`): each directory is removed after it was last made, and the loop device is detached when idle, or before the
  last umount of a file system on it.
- `SelfSupplied` (`HealInv`, `AsMade`): each command finds what it needs in what the script itself made, so that while none has failed the mounts
  are exactly `Mounted(script, pc)`. The one thing a script does not make is an empty `img/`. A job stopped by it leaves a name that
  the gate sees, and until a clean has emptied `img/` no job that follows gets by the gate. That a count of such jobs never reaches two needs
  both: what `img/` holds after the first, and that a job that has had a failure (`fault`) had a soft command before.

The proofs have one step per action. The lemmas ending in `Next` say how a rule changes from `pc` to `pc + 1`, those ending in `Effect` what a
command does to the variables it is about, and `CleanEmpties` that `CleanMounts` leaves nothing of a nested set of mounts in `CleanDirs`.

`ShrinkSize` (`SizeInvariance`, `ShrinkFits`, at the end of `WorkspaceProofs`). The copy fits for every size up to `MaxDu`
(at most 9999) and every `Offset` (at most 16 MiB). The lemmas bound the first digit from
above by the size (`DigitCeiling`: a number with first digit d is below (d+1) * 1000), the padding
from below by the digit, and `Room` puts them together. `SizeTyping` is the type invariant beside it.

`FirstBootProofs` (`BootTyping`, `FinishedBeforeDisabled`, `AccountBeforeLogin`), for any number of power
failures. That a disabled service has finished is not inductive: a power failure goes back to an
older root. `BootInv` says for each service how far its work must have come at each line of its script
(`GrowProgress`, `AccountProgress`, `CredentialsProgress`), that what is finished in memory may not be on the
disk but what is disabled on the disk is finished there, that the owner's files stay while the service that
reads them is enabled (`FileKept`, only for one partition), and that a root gone read-only is on its way to a reboot.

`Write2mmcProofs` (`TransferTyping`, `DevSurvives`, `TransferSucceeds`), for any disks and any set of
commands that may fail. `TransferInv` gives for each block of the script the number of mounts at each point,
as a function of what has failed (`InnerOK`, `OuterOK`): `/dev` is unmounted in the same block that
mounted it, and only proc and sys, of which `rm -fdr` removes nothing, outlive a failing GRUB. `FilesOK` and `NamesOK` follow the
files and the value of `DEVICE_NODE`, which the script changes and must restore.

`KernelBuildProofs` (`KernelTyping`, `NewIsNew`, `OkIsExact`, `OutputIsExact`), for any boards that share any
source directories, any number of commits and kills. `KernelInv` ties the record in `.cache` to the tree beside it (`CacheOK`, until a
build is killed), the tree to the commits the branch has had (`RemoteOK`), and the packages in the shared `sources/`
to the build that runs (`DebsOK`).

`SkwRequestsProofs`. Commands (`OneCommand`, `CommandAnswerIsOwn`, `CommandTyping`, `SleepIsSilent`), for any
callers and any number of calls and firmware deaths. The lock of `skw->cmd` is taken by one context and released by another,
so exclusion needs who is responsible for the next release: `OwnerOK` says that it is nobody (`Free`), the caller in the section
(`Fills`, `Waits`) or the timer of a command sent from the transmit path (`Tried`), and `InFlight` follows the command from unsent over
asked, answered and taken to told, with at most one answer on its way. Scans (`ScanAnsweredOnce`, `ScanTyping`), for any number of
scans and frames: `ScanInv` counts for each request the answers given and the answers that contexts still hold
(`AnswersOK`), and says that the scan that cfg80211 thinks is under way is the driver's (`UnderWayOK`). Transmission
(`CreditSafe`, `NoFrameRefused`, `TxTyping`), for any ring, credit, marks and number of frames: `WorkerFits` bounds what the
worker has picked by the room it saw in the ring, which only the dy worker can enlarge meanwhile. `RequestsHold` puts the three together: an invariant of
each part gives `RequestsSound` of the composition.

`SkwWifiProofs`, the parts of `MCSkwWifi`, each with an inductive invariant of its own:

- access point (`ClientListAgrees`, `ApTyping`), for any stations and ids: a reply is owed only to a client on the list. The three
  contexts that delete a client have one lemma (`DelSta`).
- keys (`KeysMatch`, `KeysTyping`), for any key indices and size of the buffer. `KeysInv` distinguishes when the firmware's table must
  equal the driver's record (`SettledOK`) from when the AP starts and the keys wait in the buffer (`AwaitingOK`): there the last entry for
  each index is the key on record (`Covers`), so that the start of the AP (`skw_start_ap_keys`), which sends the buffer in order, leaves the right one; its loop is proved about on any
  prefix of the buffer (`SentKeeps`).
- station (`BoundIsKept`, `StaTyping`), for any BSSs, calls, timers and firmware events. `StaInv` adds to "busy is bound" that the BSS it is
  bound to is a peer, that a timer or work under way has a retry left (`Paced`), and that at most one leave waits for the firmware (`PendOK`).
  `StaKept` says what each operation leaves alone, so that the operations that call each other compose.
- probe, interfaces, recovery (`OpenedCounts`, `RecoveryIsTold`, `LifeTyping`), for any slots and numbers of requests and firmware deaths. `CountOK` ties the count to the marks also
  between a command and its mark, `PassedOK` says that the walk of a recovery has left behind nobody who had a peer, was not told and is not an access point that could not be restarted (`failed`). How far `opened_dev` can run away
  is not inductive, since a recovery sets it to 0 and counts again while a request is half done: `CountBounded` takes the instances the walk has opened again
  (`Reopened`), the requests made so far, and whether the one under way will still count (`MayMark`, `MayUnmark`).
- TDLS and channels (`ChannelsAreBounded`, `TdlsTyping`), for any channels and limit: what bounds the chip is the set of channels
  the driver has on record (`Recorded`), of which the firmware's are a part (`ChannelsOK`) up to the exceptions of `TdlsClean`.
- events and fragments (`EventsAreCounted`, `FragmentsAreOne`, `EventTyping`). `CountedOK`: while no loss was noticed, the driver's number is
  that of a prefix of events, all heard. The theorem supposes that the firmware has sent no more events than the counter has numbers
  (`MaxEvents <= EventSpace`, as in the run): after exactly 65536 losses in a row the code cannot notice. `FragInv` says that an
  entry of an encrypted link holds the first fragments of one message (`Begun`).
- receive path (`OrderIsKept`, `StoredIsLetGo`, `RxTyping`), for any window that divides the sequence space, any first and last number and any
  order, loss and repetition of frames, timers and sessions. `RxInv` relates the sequence numbers of the code to numbers without end: `At(x, A)` says that
  `x` is what is left of `A` modulo the space. As long as the window has not slipped there is a number `X` for which it is `Clean`: it stands at `X`, each slot in use holds the frame
  of the window that belongs there (`InWindow`), and what was released lies between the last delivered frame and `X`, in order (`InOrder`). The loops of
  `skw_reorder_release` and `skw_reorder_force_release` are walked by an induction over a bounded interval (`Climb`), each step by a lemma of
  its own (`ForceStepIs`). Within a call `stored_num` may be above the slots in use (`Covered`), at its end it equals them
  (`Tallied`), and a timer or todo is for a frame that is stored. That the window only moves forward rests on
  `ieee80211_sn_less`, which tells before from after within half the space only: without a pairwise key the theorem therefore supposes that the
  numbers of the sender and a window fit into that half (`Narrow`, true of the run). With a key the replay counter alone
  keeps the order, and this part is proved without the hypothesis.
- radar detection (`ChecksAreLive`, `DfsTyping`), for any interfaces and channels. `DfInv` adds what the work of a check has done halfway
  (`Halfway`), that a request that ends an interface saw its check (`Seen`), and that flags of an interface are
  the chip's (`Tuned`); `PulsesOK` bounds the list of pulses.

`WifiIsConsistent` puts the parts together: no two share a variable, so a step of the composition is a step of one part and
leaves the others as they are, and the theorems of the parts give `WifiConsistent` for every value of the constants with `MaxEvents <= EventSpace`.

`SkwBusProofs`, the parts of `MCSkwPlatform` that drive the two buses:

- port of the SDIO bus (`PortIsChannel`, `ReaderWakes`, `QuietHasData`), for every ring longer than three bytes and packets that fit it. `PortInv` says where
  the two pointers may be while a packet is being copied (`HandlerOK`, `CopyOK`), and that what the reader has copied out begins at the read pointer (`TakeOK`). The lemmas on wrapped indices
  (`SegmentPut`, `SegmentGet`) say that writing a byte behind the filled segment appends to it and reading one drops its head; each step of the
  port is then a step of `SdioChannel` or changes nothing of it, until an open comes in the middle of a read or a packet (`torn`).
- acknowledgements of a port (`SuccessWasAcked`), for any number of sends and tries. `AnswersOK` says that every answer on the wire is for
  a try made, for the present one at most one and none before it is sent; `AnswerDue`, outside the sequences that the property names, that
  the flow control is taken by the waiting sender only and `tx_done` set by its own answer.
- SDIO link (`LinkServes`), for any number of packets, sends, suspends and faults. `DepthOK` counts who holds the GPIO interrupt off: the
  sender of the wake-up command and the indication of a suspend, each once. That a packet is heard is not inductive:
  `FifoTrue` bounds what the chip has not handed over by what came after the number of its fifo was read, and `Announced` says that the
  interrupt for what came after the last transfer is still on its way.
- requests of a USB port, for any number of requests, suspends, failures and kicks. `UrbSum` accounts for each request once, `UrbBare` and
  `UrbLost` say which faults leave one bare or lost, `UrbRead` that an idle tasklet has left nothing behind, and
  `UrbArmed` that something is coming as long as nothing failed.
- boot, services and recovery over SDIO (`RecoveryIsOne`), for any number of operations and deaths. Three contexts can reset the chip,
  and all disable the same interrupt. `BootHeld` says that a start has `boot_mutex` from the boot to the answer, so that what was said
  since is for it (`ReadyOK`), `RxRecovery` that the recovery of the rx thread has cancelled the exception work and keeps it from being
  queued. As long as no user of a service has recovered the chip and no reset has failed (`Undriven`) more holds: an older firmware's words
  are forgotten (`FwSilent`), the state that makes the boot enable the interrupt lasts until the new firmware speaks (`FwComing`),
  and the interrupt is disabled exactly by whoever resets (`IrqTrue`).
- the same over USB (`DeathIsToldOnce`), for any sizes of header, packet and image. `WellOK` says that of a chip taken for well nobody is
  about to tell a death, `HaltOK` that one with a death to tell or told is halted until it is back, `ToldOK` that whoever could tell
  again finds that it was told, `Forgotten` that the teller forgets the services. The lemma `Chunk` is on the cut of an image: half a packet that would have ended with a
  full USB packet does not end with one itself.

`SkwPlatformProofs`, what stands on the buses, and the composition:

- Bluetooth (`OpenDeviceHears`), for any numbers of opens, commands and deaths. As long as the driver has heard of every death and return
  (`Heedful`), a dead firmware is rejected and the queue is for the living one, up to the flush (`QueueFresh`); as long as no command was given up either,
  nothing but the command or its answer is on its way (`OneCommand`).
- devices of the card (`DevicesGoWithTheCard`), for any number of bindings and failures to allocate. `InPlace` says that a registered device stands in its
  port and nowhere else, `AtMost` that each binding registers it once more at most, `Timely` which devices there are before the boot and which only
  without a driver of their own. `Emptied` is what an unbinding leaves, `EmptiedBoth` composes two.
- Bluetooth log (`BtLogIsWhole`), for packets of any size and any limit. Only the first packet of the queue is read in part and the reader has the rest of it
  (`RestFollows`), queue and reader are of one opening (`OneSession`), packets of which a flush dropped the rest are apart (`cut`), and the step of the read shows that the
  order of numbers and sizes is kept whether it takes the packet or leaves a byte of it (`Shown`).
- character devices (`HeldDeviceStays`), for any finite set of files. `FilesCounted` makes the count of a device the number of files that
  hold it, before that of those that are about to; `DeviceThere` says that no holder is left without it, `OneReads` and `HeldIsOpen` what a holder finds.
- firmware log in files (`RecordingIsKept`), for any settings and sizes. `HoldersCounted` accounts for every opening of the port: its users, the failed starts
  that leak one, the work item. `DevAndWork` ties the device to its work item, `Wanted` says that a recording asked for runs or is queued, and `BufferFits` bounds what the next read adds to the
  buffer. The limit of a file is computed in 32 bits (`FilesLimited`); the files are one more than `num` (`FilesOf`).
- memory dump (`DumpIsOfOneDeath`), for any number of deaths, pieces and readers. `WhoDumps` says who may fill the buffer, and only when there is no dump,
  `StoredInOrder` that the work item has stored what it has read; until two deaths have crossed, one dumps at a time (`OneDumps`) and a file that nothing
  happened to has read of that dump alone (`Reads`).
- boot device (`BootedFromLiveData`). `ImagesThere`, `DataLive` and `SettingsFit` say what a probe has by each of its places, `DataFreed` what only a failed
  probe or a removal leaves behind, `CallsHeld` that a call of a service has `boot_mutex`.

`PlatformServes`, `PlatformAgrees`, `PlatformIsSound` and `DevicesAreSound` are the invariants of the run `skw_platform`: the module is a
union of parts, and `PartsOK` is the inductive invariant of whichever part runs (`PartsBegin`, `PartsStep`).

The assumptions on the constants are the `ASSUME`s of the modules, which TLC evaluates on every run: sets of names are
distinct, bounds are natural numbers, marks are ordered, a ring has room for a packet. Where a proof needs an induction over numbers or
sequences (`LeastNat`, `Removed`, `LeastExists`) it takes the least element of a concrete set, by `WFMin`.

What the proofs changed in the models. `AnsweredOnce` used to exclude an overrun start only from its first half; its invariant
could not be made inductive, and TLC confirms with three scans that the second answer of an overrun start ends, for cfg80211,
the next scan, whose timer then outlives it: two scans were too few to see it. `Deleted` removes the first entry of a
timer only, as `skw_del_timer_work` does, and a scan is started only when no start is under way, as the wiphy's mutex ensures.
The count of `cmd.lock` is a natural number: after a fault nothing in the code bounds it.

The tasklet's own read used to take away the kick of a pending `kick_rx_thread`, so that the model never took a request from an empty
list; with `bulkin_read_async` as the code has it this happens ("torn"), and `ReadsArmed` and `CounterTrue` say nothing
of what follows, which the code leaves undefined.

The exception `early` of a USB chip used to be noted whenever the driver did not take the chip for well. The proof of `ToldOnce` shows that one case
is enough, and `HearTrunkW` notes that one only: the trunk starts again with a report of a death still to be made. Two types were narrower than the code's:
`irqDepth` counts, so it is any natural number (`CpTypeOK`), and `tx_flow_ctrl` is an `int` that the code increments and decrements without
looking (`PortTypeOK`). The proof that a piece of an image ends no transfer needs a header of more than one byte and smaller than a USB packet
(12 and 512 in the code), and the count of a character device's openings a finite set of files; both are assumptions now.
`ShrinkSize` has names of its own (`SizeSpec`, `SizeTypeOK`) so that its theorems can stand beside those of `Workspace`.

The reorder window (`SkwRx`). A frame beyond the window takes it along and may be left on the slot that the frame itself takes: the exception
of `OutOfWindow` used to be noted only when nothing was stored before. Counting shows that it happens also when the forced release empties
the buffer on its way, and TLC finds it with a window of two and six frames in the space of 16, the bounds of `skw_wifi` now (a window of
four with four frames passes as well). `ieee80211_sn_less` is strict at half of the space, so that the window must be less than half of it
(`RxAssumption`; 512 of 4096 at most in the code), and what `RxTypeOK` says of counts no longer mentions the bounds of a run.

A conditional update of a record is written so that it can be reasoned about: the pulses that a new one leaves in the window are a prefix
of the queue (`pulse_queue_check_window`), and a TDLS frame takes time only within the operations TLC is given.

Only model-checked: of `RadioObeys`, that radar is found (`RadarIsFound`) and the order and length of a TDLS frame (`TdlsFrameOrder`). Both
are about what loops over sequences of pulses and of elements compute, an induction over data; the first also rests
on how the interval, the tolerance and the number of pulses of a pattern go together. The other halves of `RadioObeys` are proved
(`ChecksAreLive`, `ChannelsAreBounded`). And liveness
(`SetupEnds`, `CallsReturn`, `ScanEnds`, `FramesLeave`), which is beyond the prover. Every other invariant and action property of the runs is
stated by a theorem.

## 7. Assumptions of the models

- One job at a time in a working directory; the scripts take no lock, and nobody else mounts
  or unmounts there.
- `RAM` is 0, as `stage1` sets it, so `img/` is never a tmpfs.
- A root file system label is one of the five that `clean` names; `raspbian`, which
  `clean` does not know, cannot be bootstrapped on the boards as they are.
- `commit=600`: a power failure restores the last commit of the root; ext4 keeps a commit's writes together.
- A `cp -r` of a source tree succeeds; a `git clone` that fails by itself removes its
  directory, one that is killed may not.
- Names of devices, files and packages are model values. So `shrink`'s pattern `loop.p.` (lib/function/shrink:11),
  which finds nothing from loop10 on where the host is not Ubuntu, is outside.

## 8. Plan

Done: `Workspace` with `BuildScripts`, `ShrinkSize`, `FirstBoot`, `Write2mmc`,
`KernelBuild`, and the theorems of section 6; all modules of section 3. Next, in this order:

1. `UbootBuild`: `scripts/uboot`, `lib/function/uboot`, `atf`, `crust`, `opensbi`, `fip` and
   `uboot_packaging`, with the archives and packages they leave.
2. `Assemble`: which packages `check_output` and `add_output` accept and `stage2` installs;
   composed with `KernelBuild` and `UbootBuild`.
3. `usbboot` as a job of `Workspace`: without `set -e` and with a gate that looks at two names only.
4. `files/scripts/transfer` beside `Write2mmc`; the name of the disk in use as an operator
   on device names.
5. `customize_image` and the configuration files: which setting wins, and that boot
   configuration and flags agree.
6. An abstract life cycle of a job (idle, running, failed, cleaned) that `Workspace` implements, and an
   abstract setup that `FirstBoot` implements, as refinements.
7. Proofs: under which conditions on a pattern `RadarIsFound` holds; `TdlsFrameOrder` for the elements a supplicant gives.
8. Package hooks (`preinst`, the initrd hook), `menu-config-update`.

Not modelled, and why. Of the drivers: wireless extensions, vendor commands and configuration files
(`skw_iw.c`, `skw_vendor.c`, `skw_config.c`), which parse requests and send them as commands of
`SkwCommand`; regulatory tables (`skw_regd.c`, `skw_db.c`), which are data; MBSSID elements, IBSS,
WoW patterns, debugfs; `skw_edma.c` and `skw_calib.c`, which the Makefile does not build; `skw_dloader_module`, of another build, and `skw_modem_save_dumpmem`,
which nobody calls; suspend and shutdown of the boot device; the snoop log, which is I/O without state that others use. Of the
scripts: dialogs and logging, which call one `make` target each; the text of unit and network
configuration files; board files, which are data and enter as layout, boot method and EFI.
