------------------------------ MODULE FirstBoot ------------------------------
(***************************************************************************)
(* The first boots of a device that runs a finished image: the one-shot    *)
(* services firstboot (grow the root file system), useraccount (create the *)
(* owner's account from /boot/useraccount.txt) and credentials (new host   *)
(* identity, hostname and Wi-Fi from /boot/credentials.txt).  Each one     *)
(* disables itself when its work is done; power may fail at any moment.    *)
(*                                                                         *)
(* The root file system is mounted with commit=600: a power failure takes  *)
(* it back to its last commit, at a step of its own choosing.  With two    *)
(* partitions /boot is a file system of its own and is written back        *)
(* separately.                                                             *)
(***************************************************************************)
EXTENDS Naturals, Sequences

CONSTANTS Owner,      \* the USERNAME that the owner writes into useraccount.txt
          Pi,         \* the account made when the file says nothing
          MaxFaults   \* bound on power failures and read-only remounts

ASSUME NamesAssumption == Owner # Pi /\ MaxFaults \in Nat

Names == {Owner, Pi}
Services == {"firstboot", "useraccount", "credentials"}

VARIABLES cfg,        \* what the owner wrote, and how the image was built
          root, boot, \* the root file system and the files of /boot, as seen
          disk, flash,\* the same, as they would be found after a power failure
          svc,        \* position in Order; 0 when the device is off
          step,       \* next line of the running script; 0 before it starts
          env,        \* the settings that the running script has read
          ro,         \* the root file system went read-only
          rebooting,  \* firstboot called reboot
          faults

vars == <<cfg, root, boot, disk, flash, svc, step, env, ro, rebooting, faults>>

RootState == [enabled : SUBSET Services, grown : BOOLEAN,
              accounts : SUBSET Names, passwords : SUBSET Names, sudoers : SUBSET Names,
              keys : {"image", "none", "new"}, machineId : {"image", "none", "new"},
              hostname : {"image", "owner"}, hosts : {"image", "owner"},
              wifi : BOOLEAN, home : SUBSET Names]
BootState == [useraccount : BOOLEAN, credentials : BOOLEAN]
\* name and host are blank or untouched when the owner edits nothing.
Config == [name : Names, host : {"image", "owner"}, wifi : BOOLEAN,
           split : BOOLEAN, sysv : BOOLEAN]
Settings == [name : Names, host : {"image", "owner"}, wifi : BOOLEAN]

TypeOK == /\ cfg \in Config
          /\ root \in RootState /\ disk \in RootState
          /\ boot \in BootState /\ flash \in BootState
          /\ svc \in 0..4 /\ step \in 0..8 /\ env \in Settings
          /\ ro \in BOOLEAN /\ rebooting \in BOOLEAN /\ faults \in 0..MaxFaults

-----------------------------------------------------------------------------
(* Order of the services *)

\* Mutant: useraccount without its place in the order, after the logins.
OrderLate == <<"firstboot", "credentials", "useraccount">>
\* useraccount.service is After firstboot and Before credentials; under
\* sysvinit it requires $all and so comes last.
Order == IF cfg.sysv THEN <<"firstboot", "credentials", "useraccount">>
                     ELSE <<"firstboot", "useraccount", "credentials">>
\* getty, logind and sshd wait for useraccount under systemd; under sysvinit
\* getty starts when the scripts of the runlevel have run.
LoginOpen == svc > IF cfg.sysv THEN 3 ELSE 2

At(s, n) == svc \in 1..3 /\ Order[svc] = s /\ step = n
\* A read-only file system takes no write.
Write(r) == root' = IF ro THEN root ELSE r
Goto(n) == step' = n /\ UNCHANGED svc
EndService == step' = 0 /\ svc' = svc + 1

\* A step that only writes the root file system.
RootStep(s, n, r) == /\ At(s, n) /\ Write(r) /\ Goto(n + 1)
                     /\ UNCHANGED <<cfg, boot, disk, flash, env, ro, rebooting, faults>>
\* The account tools fsync, and with that the journal commits.
SyncStep(s, n, r) == /\ At(s, n) /\ Write(r) /\ Goto(n + 1)
                     /\ disk' = root'
                     /\ flash' = IF cfg.split THEN flash ELSE boot
                     /\ UNCHANGED <<cfg, boot, env, ro, rebooting, faults>>
\* A step that removes a file of /boot, which is part of the root unless split.
BootStep(s, n, f) == /\ At(s, n) /\ Goto(n + 1)
                     /\ boot' = IF ro /\ ~cfg.split THEN boot ELSE [boot EXCEPT ![f] = FALSE]
                     /\ UNCHANGED <<cfg, root, disk, flash, env, ro, rebooting, faults>>
\* The script's last line.
LastStep(s, n, r) == /\ At(s, n) /\ Write(r) /\ EndService
                     /\ UNCHANGED <<cfg, boot, disk, flash, env, ro, rebooting, faults>>

-----------------------------------------------------------------------------
(* Power, file systems and init *)

PowerOn == /\ svc = 0 /\ svc' = 1 /\ step' = 0
           /\ UNCHANGED <<cfg, root, boot, disk, flash, env, ro, rebooting, faults>>
\* A disabled service is passed over; an enabled one runs, unless the system
\* is on its way down.
StartService == /\ svc \in 1..3 /\ step = 0 /\ ~rebooting
                /\ IF Order[svc] \in root.enabled THEN Goto(1) ELSE EndService
                /\ UNCHANGED <<cfg, root, boot, disk, flash, env, ro, rebooting, faults>>
GoDown == /\ root' = disk /\ boot' = flash /\ svc' = 0 /\ step' = 0
          /\ ro' = FALSE /\ rebooting' = FALSE /\ UNCHANGED <<cfg, disk, flash, env>>
Reboot == rebooting /\ GoDown /\ UNCHANGED faults
PowerLoss == svc # 0 /\ faults < MaxFaults /\ faults' = faults + 1 /\ GoDown
CommitRoot == /\ svc # 0 /\ ~ro /\ disk' = root
              /\ flash' = IF cfg.split THEN flash ELSE boot
              /\ UNCHANGED <<cfg, root, boot, svc, step, env, ro, rebooting, faults>>
FlushBoot == /\ svc # 0 /\ cfg.split /\ flash' = boot
             /\ UNCHANGED <<cfg, root, boot, disk, svc, step, env, ro, rebooting, faults>>

-----------------------------------------------------------------------------
(* firstboot *)

Disabled(s) == [root EXCEPT !.enabled = @ \ {s}]

\* growpart and resize2fs; an error remounts the root read-only.
Grow == \/ RootStep("firstboot", 1, [root EXCEPT !.grown = TRUE])
        \/ /\ At("firstboot", 1) /\ Goto(2) /\ ro' = TRUE
           /\ faults < MaxFaults /\ faults' = faults + 1
           /\ UNCHANGED <<cfg, root, boot, disk, flash, env, rebooting>>
\* The script goes on after it has called reboot.
CheckReadOnly == /\ At("firstboot", 2) /\ Goto(3) /\ rebooting' = ro
                 /\ UNCHANGED <<cfg, root, boot, disk, flash, env, ro, faults>>
\* The root= of the boot configuration and fsck of /boot: no state of the model.
FixBoot == RootStep("firstboot", 3, root)
DisableFirstboot == LastStep("firstboot", 4, Disabled("firstboot"))

-----------------------------------------------------------------------------
(* useraccount *)

SourceAccount == /\ At("useraccount", 1) /\ Goto(2)
                 /\ env' = [env EXCEPT !.name = IF boot.useraccount THEN cfg.name ELSE Pi]
                 /\ UNCHANGED <<cfg, root, boot, disk, flash, ro, rebooting, faults>>
AddUser == SyncStep("useraccount", 2, [root EXCEPT !.accounts = @ \union {env.name}])
Chpasswd == SyncStep("useraccount", 3,
                [root EXCEPT !.passwords = @ \union ({env.name} \intersect root.accounts)])
CreateSudoers == RootStep("useraccount", 4, [root EXCEPT !.sudoers = @ \union {env.name}])
RemoveAccountTxt == BootStep("useraccount", 5, "useraccount")
DisableUseraccount == RootStep("useraccount", 6, Disabled("useraccount"))
HomeConfig == LastStep("useraccount", 7,
                  [root EXCEPT !.home = @ \union ({env.name} \intersect root.accounts)])

-----------------------------------------------------------------------------
(* credentials *)

\* Mutant: the file is removed as soon as it has been read.
SourceCredentialsOnce ==
    /\ At("credentials", 1) /\ Goto(2)
    /\ env' = [env EXCEPT !.host = IF boot.credentials THEN cfg.host ELSE root.hostname,
                          !.wifi = boot.credentials /\ cfg.wifi]
    /\ boot' = [boot EXCEPT !.credentials = FALSE]
    /\ UNCHANGED <<cfg, root, disk, flash, ro, rebooting, faults>>
\* Without the file HOSTNAME is the shell's own: the current name.
SourceCredentials == /\ At("credentials", 1) /\ Goto(2)
                     /\ env' = [env EXCEPT !.host = IF boot.credentials THEN cfg.host
                                                                        ELSE root.hostname,
                                           !.wifi = boot.credentials /\ cfg.wifi]
                     /\ UNCHANGED <<cfg, root, boot, disk, flash, ro, rebooting, faults>>
RemoveIdentity == RootStep("credentials", 2, [root EXCEPT !.keys = "none", !.machineId = "none"])
NewIdentity == RootStep("credentials", 3, [root EXCEPT !.keys = "new", !.machineId = "new"])
\* /etc/hostname, and with it the decision to touch /etc/hosts.
SetHostname == /\ At("credentials", 4)
               /\ Goto(IF env.host = root.hostname THEN 6 ELSE 5)
               /\ Write([root EXCEPT !.hostname = env.host])
               /\ UNCHANGED <<cfg, boot, disk, flash, env, ro, rebooting, faults>>
\* Mutant: the name of the account for the name of the host.
SetHostsName == RootStep("credentials", 5, [root EXCEPT !.hosts = env.name])
SetHosts == RootStep("credentials", 5, [root EXCEPT !.hosts = env.host])
SetWifi == RootStep("credentials", 6, [root EXCEPT !.wifi = @ \/ env.wifi])
\* Mutant: only the sysvinit link is removed.
DisableCredentialsSysv ==
    RootStep("credentials", 7, IF cfg.sysv THEN Disabled("credentials") ELSE root)
DisableCredentials == RootStep("credentials", 7, Disabled("credentials"))
\* rm -f of credentials.txt; the script itself is removed with it.
RemoveCredentialsTxt ==
    /\ At("credentials", 8) /\ EndService
    /\ boot' = IF ro /\ ~cfg.split THEN boot ELSE [boot EXCEPT !.credentials = FALSE]
    /\ UNCHANGED <<cfg, root, disk, flash, env, ro, rebooting, faults>>

-----------------------------------------------------------------------------
FreshRoot == [enabled |-> Services, grown |-> FALSE, accounts |-> {}, passwords |-> {},
              sudoers |-> {}, keys |-> "image", machineId |-> "image",
              hostname |-> "image", hosts |-> "image", wifi |-> FALSE, home |-> {}]

Init == /\ cfg \in Config
        /\ root = FreshRoot /\ disk = FreshRoot
        /\ boot = [useraccount |-> TRUE, credentials |-> TRUE] /\ flash = boot
        /\ svc = 0 /\ step = 0 /\ env = [name |-> Pi, host |-> "image", wifi |-> FALSE]
        /\ ro = FALSE /\ rebooting = FALSE /\ faults = 0

\* The scripts and init run; this is what is fair.
Run == \/ PowerOn \/ StartService \/ Reboot
       \/ Grow \/ CheckReadOnly \/ FixBoot \/ DisableFirstboot
       \/ SourceAccount \/ AddUser \/ Chpasswd \/ CreateSudoers \/ RemoveAccountTxt
       \/ DisableUseraccount \/ HomeConfig
       \/ SourceCredentials \/ RemoveIdentity \/ NewIdentity \/ SetHostname \/ SetHosts
       \/ SetWifi \/ DisableCredentials \/ RemoveCredentialsTxt
Running == svc = 4 /\ UNCHANGED vars

Next == Run \/ PowerLoss \/ CommitRoot \/ FlushBoot \/ Running
Spec == Init /\ [][Next]_vars /\ WF_vars(Run)

-----------------------------------------------------------------------------
(* Properties *)

\* useraccount.service:4-16: whenever logins are open, on any boot, there is
\* an account with a password and a sudo rule to log in to; power failures
\* and lost writes included.
LoginHasAccount == LoginOpen => root.accounts \cap root.passwords \cap root.sudoers # {}

\* firstboot:78-83, useraccount:59-63, credentials:66-67: a service that will
\* not run again has left its work behind, on the disk as well: the root is
\* grown, the account usable, the identity new and, unless /boot is a file
\* system of its own, hostname and Wi-Fi are what the owner asked for.
Finished(r) ==
    /\ "firstboot" \notin r.enabled => r.grown
    /\ "useraccount" \notin r.enabled => r.accounts \cap r.passwords \cap r.sudoers # {}
    /\ "credentials" \notin r.enabled => r.keys = "new" /\ r.machineId = "new"
    /\ "credentials" \notin r.enabled /\ ~cfg.split =>
            r.hostname = cfg.host /\ (cfg.wifi => r.wifi)
DisabledIsFinished == Finished(root) /\ Finished(disk)

\* All three services are eventually disabled for good and the system is up,
\* once power failures stop.
SetupEnds == <>[](svc = 4 /\ root.enabled = {})

\* README.md:185 "If left blank it defaults to pi:board": an owner who
\* filled in useraccount.txt never gets the default account.
DefaultOnlyIfBlank == cfg.name = Owner => Pi \notin root.accounts
=============================================================================
