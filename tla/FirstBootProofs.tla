--------------------------- MODULE FirstBootProofs ---------------------------
\* Whatever power failures, lost writes and read-only remounts do to the
\* first boots of an image, for every number of them: a service that is
\* disabled has finished, on the disk as well, and logins open on a device
\* that has an account.
EXTENDS FirstBoot, TLAPS

HasAccount(r) == r.accounts \cap r.passwords \cap r.sudoers # {}

\* The places of the services in Order.
AccountPlace == IF cfg.sysv THEN 3 ELSE 2
CredentialsPlace == IF cfg.sysv THEN 2 ELSE 3

\* A root that went read-only is on its way to the reboot: no other service runs.
ReadOnlyOK == /\ rebooting => ro
              /\ ro => \/ svc = 1 /\ step \in 2..4 /\ (step = 2 \/ rebooting)
                       \/ svc = 2 /\ step = 0 /\ rebooting
GrowProgress == svc = 1 /\ step > 1 /\ ~ro => root.grown
AccountProgress ==
    /\ svc = AccountPlace /\ step > 2 => env.name \in root.accounts
    /\ svc = AccountPlace /\ step > 3 => env.name \in root.passwords
    /\ svc = AccountPlace /\ step > 4 => env.name \in root.sudoers
    /\ svc > AccountPlace => HasAccount(root)
\* The file with the credentials is there as long as the service will need it,
\* as seen and as it would be found: /boot is part of the root.
FileKept == ~cfg.split => /\ "credentials" \in root.enabled => boot.credentials
                          /\ "credentials" \in disk.enabled => flash.credentials
CredentialsProgress ==
    svc = CredentialsPlace /\ step > 0 =>
        /\ "credentials" \in root.enabled <=> step < 8
        /\ step > 3 => root.keys = "new" /\ root.machineId = "new"
        /\ ~cfg.split => /\ step > 1 => env.host = cfg.host /\ (env.wifi <=> cfg.wifi)
                         /\ step > 4 => root.hostname = cfg.host
                         /\ step > 6 => (cfg.wifi => root.wifi)
BootInv == /\ TypeOK /\ ReadOnlyOK /\ GrowProgress /\ AccountProgress
           /\ FileKept /\ CredentialsProgress /\ DisabledIsFinished

-----------------------------------------------------------------------------
\* Every step keeps the types of the two disks and of what runs.
LEMMA TypeStep == ASSUME TypeOK, [Next]_vars PROVE TypeOK'
<1>1. CASE PowerOn BY <1>1 DEF TypeOK, PowerOn
<1>2. CASE StartService BY <1>2 DEF TypeOK, StartService, Goto, EndService
<1>3. CASE Reboot
  <2>1. ro' \in BOOLEAN /\ rebooting' \in BOOLEAN BY <1>3, Zenon DEF Reboot, GoDown
  <2>2. svc' \in 0..4 /\ step' \in 0..8 /\ faults' \in 0..MaxFaults BY <1>3 DEF TypeOK, Reboot, GoDown
  <2> QED BY <1>3, <2>2, Zenon DEF TypeOK, Reboot, GoDown
<1>4. CASE PowerLoss
  <2>1. ro' \in BOOLEAN /\ rebooting' \in BOOLEAN BY <1>4, Zenon DEF PowerLoss, GoDown
  <2>2. svc' \in 0..4 /\ step' \in 0..8 /\ faults' \in 0..MaxFaults
    BY <1>4, NamesAssumption DEF TypeOK, PowerLoss, GoDown
  <2> QED BY <1>4, <2>2, Zenon DEF TypeOK, PowerLoss, GoDown
<1>5. CASE CommitRoot BY <1>5 DEF TypeOK, CommitRoot
<1>6. CASE FlushBoot BY <1>6 DEF TypeOK, FlushBoot
<1>7. CASE UNCHANGED vars BY <1>7 DEF TypeOK, vars
<1>8. CASE Grow
  <2>1. root' \in RootState BY <1>8 DEF TypeOK, RootState, Grow, RootStep, Write
  <2>2. ro' \in BOOLEAN BY <1>8, Zenon DEF TypeOK, Grow, RootStep
  <2>3. svc' \in 0..4 /\ step' \in 0..8 /\ faults' \in 0..MaxFaults
    BY <1>8, NamesAssumption DEF TypeOK, Grow, RootStep, Goto
  <2> QED BY <1>8, <2>1, <2>3, Zenon DEF TypeOK, Grow, RootStep
<1>9. CASE CheckReadOnly BY <1>9 DEF TypeOK, CheckReadOnly, Goto
<1>10. CASE FixBoot BY <1>10 DEF TypeOK, FixBoot, RootStep, Write, Goto
<1>11. CASE DisableFirstboot
  BY <1>11 DEF TypeOK, RootState, DisableFirstboot, LastStep, Disabled, At, Write, EndService
<1>12. CASE SourceAccount BY <1>12 DEF TypeOK, Config, Settings, Names, SourceAccount, Goto
<1>13. CASE AddUser BY <1>13 DEF TypeOK, RootState, Settings, AddUser, SyncStep, Write, Goto
<1>14. CASE Chpasswd BY <1>14 DEF TypeOK, RootState, Chpasswd, SyncStep, Write, Goto
<1>15. CASE CreateSudoers
  BY <1>15 DEF TypeOK, RootState, Settings, CreateSudoers, RootStep, Write, Goto
<1>16. CASE RemoveAccountTxt
  <2>1. boot' \in BootState BY <1>16 DEF TypeOK, BootState, RemoveAccountTxt, BootStep
  <2> QED BY <1>16, <2>1 DEF TypeOK, RemoveAccountTxt, BootStep, Goto
<1>17. CASE DisableUseraccount
  BY <1>17 DEF TypeOK, RootState, DisableUseraccount, RootStep, Disabled, Write, Goto
<1>18. CASE HomeConfig BY <1>18 DEF TypeOK, RootState, HomeConfig, LastStep, At, Write, EndService
<1>19. CASE SourceCredentials
  <2>1. env' \in Settings
    <3>1. (boot.credentials /\ cfg.wifi) \in BOOLEAN OBVIOUS
    <3> QED BY <1>19, <3>1 DEF TypeOK, RootState, Config, Settings, SourceCredentials
  <2> QED BY <1>19, <2>1 DEF TypeOK, SourceCredentials, Goto
<1>20. CASE RemoveIdentity
  <2>1. root' \in RootState BY <1>20 DEF TypeOK, RootState, RemoveIdentity, RootStep, Write
  <2> QED BY <1>20, <2>1 DEF TypeOK, RemoveIdentity, RootStep, Goto
<1>21. CASE NewIdentity
  <2>1. root' \in RootState BY <1>21 DEF TypeOK, RootState, NewIdentity, RootStep, Write
  <2> QED BY <1>21, <2>1 DEF TypeOK, NewIdentity, RootStep, Goto
<1>22. CASE SetHostname BY <1>22 DEF TypeOK, RootState, Settings, SetHostname, Write, Goto
<1>23. CASE SetHosts BY <1>23 DEF TypeOK, RootState, Settings, SetHosts, RootStep, Write, Goto
<1>24. CASE SetWifi BY <1>24 DEF TypeOK, RootState, Settings, SetWifi, RootStep, Write, Goto
<1>25. CASE DisableCredentials
  BY <1>25 DEF TypeOK, RootState, DisableCredentials, RootStep, Disabled, Write, Goto
<1>26. CASE RemoveCredentialsTxt
  <2>1. boot' \in BootState BY <1>26 DEF TypeOK, BootState, RemoveCredentialsTxt
  <2> QED BY <1>26, <2>1 DEF TypeOK, RemoveCredentialsTxt, At, EndService
<1> QED BY <1>1, <1>2, <1>3, <1>4, <1>5, <1>6, <1>7, <1>8, <1>9, <1>10, <1>11, <1>12, <1>13, <1>14,
     <1>15, <1>16, <1>17, <1>18, <1>19, <1>20, <1>21, <1>22, <1>23, <1>24, <1>25, <1>26
     DEF Next, Run, Running

\* Where a script is when one of its lines runs.
LEMMA Where ==
    ASSUME NEW s, NEW n, At(s, n)
    PROVE  /\ svc \in 1..3 /\ step = n
           /\ s = "firstboot" => svc = 1
           /\ s = "useraccount" => svc = AccountPlace
           /\ s = "credentials" => svc = CredentialsPlace
  BY DEF At, Order, AccountPlace, CredentialsPlace

\* Every step keeps the invariant.
LEMMA InvStep == ASSUME BootInv, [Next]_vars PROVE BootInv'
<1> USE DEF BootInv
<1>1. TypeOK' BY TypeStep
<1>2. CASE UNCHANGED vars BY <1>1, <1>2 DEF vars, ReadOnlyOK, GrowProgress, AccountProgress, FileKept,
     CredentialsProgress, DisabledIsFinished, Finished, AccountPlace, CredentialsPlace
<1>3. CASE PowerOn
  <2>1. ReadOnlyOK' /\ GrowProgress' /\ AccountProgress' /\ FileKept' /\ CredentialsProgress' /\ DisabledIsFinished'
    BY <1>3 DEF ReadOnlyOK, GrowProgress, AccountProgress, DisabledIsFinished, Finished,
       FileKept, CredentialsProgress, AccountPlace, PowerOn
  <2> QED BY <1>1, <2>1
<1>4. CASE StartService
  <2>1. ReadOnlyOK' BY <1>4 DEF ReadOnlyOK, StartService
  <2>2. AccountProgress'
    BY <1>4 DEF AccountProgress, HasAccount, DisabledIsFinished, Finished, AccountPlace,
       CredentialsPlace, StartService, Goto, EndService, Order
  <2>3. CredentialsProgress'
    BY <1>4 DEF CredentialsProgress, AccountPlace, CredentialsPlace, StartService, Goto,
       EndService, Order
  <2>4. GrowProgress' /\ FileKept' /\ DisabledIsFinished'
    BY <1>4 DEF GrowProgress, FileKept, DisabledIsFinished, Finished, StartService, Goto,
       EndService
  <2> QED BY <1>1, <2>1, <2>2, <2>3, <2>4
<1>5. CASE Reboot
  <2>1. FileKept' BY <1>5 DEF FileKept, Reboot, GoDown
  <2>2. DisabledIsFinished' BY <1>5 DEF DisabledIsFinished, Finished, Reboot, GoDown
  <2>3. ReadOnlyOK' /\ GrowProgress' /\ AccountProgress' /\ CredentialsProgress'
    BY <1>5 DEF ReadOnlyOK, GrowProgress, AccountProgress, CredentialsProgress, AccountPlace,
       Reboot, GoDown
  <2> QED BY <1>1, <2>1, <2>2, <2>3
<1>6. CASE PowerLoss
  <2>1. FileKept' BY <1>6 DEF FileKept, PowerLoss, GoDown
  <2>2. DisabledIsFinished' BY <1>6 DEF DisabledIsFinished, Finished, PowerLoss, GoDown
  <2>3. ReadOnlyOK' /\ GrowProgress' /\ AccountProgress' /\ CredentialsProgress'
    BY <1>6 DEF ReadOnlyOK, GrowProgress, AccountProgress, CredentialsProgress, AccountPlace,
       PowerLoss, GoDown
  <2> QED BY <1>1, <2>1, <2>2, <2>3
<1>7. CASE CommitRoot
  <2>1. FileKept' BY <1>7 DEF FileKept, CommitRoot
  <2>2. DisabledIsFinished' BY <1>7 DEF DisabledIsFinished, Finished, CommitRoot
  <2>3. ReadOnlyOK' /\ GrowProgress' /\ AccountProgress' /\ CredentialsProgress'
    BY <1>7 DEF ReadOnlyOK, GrowProgress, AccountProgress, CredentialsProgress, AccountPlace,
       CredentialsPlace, CommitRoot
  <2> QED BY <1>1, <2>1, <2>2, <2>3
<1>8. CASE FlushBoot
  <2>1. ReadOnlyOK' /\ GrowProgress' /\ AccountProgress' /\ FileKept' /\ CredentialsProgress' /\ DisabledIsFinished'
    BY <1>8 DEF ReadOnlyOK, GrowProgress, AccountProgress, DisabledIsFinished, Finished,
       FileKept, CredentialsProgress, AccountPlace, CredentialsPlace, FlushBoot
  <2> QED BY <1>1, <2>1
<1>9. CASE Grow
  <2>1. svc = 1 /\ step = 1 BY <1>9, Where DEF Grow, RootStep
  <2>2. ReadOnlyOK' BY <1>9, <2>1 DEF ReadOnlyOK, Grow, RootStep, Goto
  <2>3. GrowProgress' BY <1>9 DEF GrowProgress, TypeOK, RootState, Grow, RootStep, Write
  <2>4. DisabledIsFinished'
    BY <1>9 DEF DisabledIsFinished, Finished, TypeOK, RootState, Grow, RootStep, Write
  <2>5. AccountProgress' /\ FileKept' /\ CredentialsProgress'
    BY <1>9, <2>1 DEF AccountProgress, FileKept, CredentialsProgress, TypeOK, RootState,
       AccountPlace, CredentialsPlace, Grow, RootStep, Write, Goto
  <2> QED BY <1>1, <2>2, <2>3, <2>4, <2>5
<1>10. CASE CheckReadOnly
  <2>1. svc = 1 /\ step = 2 BY <1>10, Where DEF CheckReadOnly
  <2>2. ReadOnlyOK' BY <1>10, <2>1 DEF ReadOnlyOK, AccountPlace, CredentialsPlace, CheckReadOnly, Goto
  <2>3. GrowProgress' /\ AccountProgress' /\ FileKept' /\ CredentialsProgress' /\ DisabledIsFinished'
    BY <1>10, <2>1 DEF GrowProgress, AccountProgress, DisabledIsFinished, Finished, FileKept,
       CredentialsProgress, AccountPlace, CredentialsPlace, CheckReadOnly, Goto
  <2> QED BY <1>1, <2>2, <2>3
<1>11. CASE FixBoot
  <2>1. svc = 1 /\ step = 3 BY <1>11, Where DEF FixBoot, RootStep
  <2>2. ReadOnlyOK' BY <1>11, <2>1 DEF ReadOnlyOK, FixBoot, RootStep, Goto
  <2>3. GrowProgress' BY <1>11, <2>1 DEF GrowProgress, FixBoot, RootStep, Write
  <2>4. AccountProgress' /\ FileKept' /\ CredentialsProgress' /\ DisabledIsFinished'
    BY <1>11, <2>1 DEF AccountProgress, DisabledIsFinished, Finished, FileKept,
       CredentialsProgress, AccountPlace, CredentialsPlace, FixBoot, RootStep, Write, Goto
  <2> QED BY <1>1, <2>2, <2>3, <2>4
<1>12. CASE DisableFirstboot
  <2>1. svc = 1 /\ step = 4 BY <1>12, Where DEF DisableFirstboot, LastStep
  <2>2. ReadOnlyOK' BY <1>12, <2>1 DEF ReadOnlyOK, DisableFirstboot, LastStep, EndService
  <2>3. FileKept' BY <1>12 DEF FileKept, DisableFirstboot, LastStep, Disabled, Write
  <2>4. DisabledIsFinished'
    BY <1>12, <2>1 DEF DisabledIsFinished, Finished, GrowProgress, DisableFirstboot, LastStep,
       Disabled, Write
  <2>5. GrowProgress' /\ AccountProgress' /\ CredentialsProgress'
    BY <1>12, <2>1 DEF GrowProgress, AccountProgress, CredentialsProgress, AccountPlace,
       DisableFirstboot, LastStep, EndService
  <2> QED BY <1>1, <2>2, <2>3, <2>4, <2>5
<1>13. CASE SourceAccount
  <2>1. svc = AccountPlace /\ step = 1 BY <1>13, Where DEF SourceAccount
  <2>2. ReadOnlyOK' BY <1>13, <2>1 DEF ReadOnlyOK, SourceAccount
  <2>3. AccountProgress'
    BY <1>13 DEF AccountProgress, AccountPlace, CredentialsPlace, SourceAccount, Goto
  <2>4. GrowProgress' /\ FileKept' /\ CredentialsProgress' /\ DisabledIsFinished'
    BY <1>13, <2>1 DEF GrowProgress, FileKept, CredentialsProgress, DisabledIsFinished,
       Finished, AccountPlace, CredentialsPlace, SourceAccount, Goto
  <2> QED BY <1>1, <2>2, <2>3, <2>4
<1>14. CASE AddUser
  <2>1. svc = AccountPlace /\ step = 2 BY <1>14, Where DEF AddUser, SyncStep
  <2>2. ReadOnlyOK' BY <1>14, <2>1 DEF ReadOnlyOK, AccountPlace, AddUser, SyncStep
  <2>3. AccountProgress'
    BY <1>14, <2>1 DEF AccountProgress, ReadOnlyOK, AccountPlace, CredentialsPlace, AddUser,
       SyncStep, Write, Goto
  <2>4. FileKept' BY <1>14 DEF FileKept, AddUser, SyncStep, Write
  <2>5. DisabledIsFinished' BY <1>14 DEF DisabledIsFinished, Finished, AddUser, SyncStep, Write
  <2>6. GrowProgress' /\ CredentialsProgress'
    BY <1>14, <2>1 DEF GrowProgress, CredentialsProgress, AccountPlace, CredentialsPlace,
       AddUser, SyncStep, Goto
  <2> QED BY <1>1, <2>2, <2>3, <2>4, <2>5, <2>6
<1>15. CASE Chpasswd
  <2>1. svc = AccountPlace /\ step = 3 BY <1>15, Where DEF Chpasswd, SyncStep
  <2>2. ReadOnlyOK' BY <1>15, <2>1 DEF ReadOnlyOK, AccountPlace, Chpasswd, SyncStep
  <2>3. AccountProgress'
    BY <1>15, <2>1 DEF AccountProgress, ReadOnlyOK, AccountPlace, CredentialsPlace, Chpasswd,
       SyncStep, Write, Goto
  <2>4. FileKept' BY <1>15 DEF FileKept, Chpasswd, SyncStep, Write
  <2>5. DisabledIsFinished' BY <1>15 DEF DisabledIsFinished, Finished, Chpasswd, SyncStep, Write
  <2>6. GrowProgress' /\ CredentialsProgress'
    BY <1>15, <2>1 DEF GrowProgress, CredentialsProgress, AccountPlace, CredentialsPlace,
       Chpasswd, SyncStep, Goto
  <2> QED BY <1>1, <2>2, <2>3, <2>4, <2>5, <2>6
<1>16. CASE CreateSudoers
  <2>1. svc = AccountPlace /\ step = 4 BY <1>16, Where DEF CreateSudoers, RootStep
  <2>2. ReadOnlyOK' BY <1>16, <2>1 DEF ReadOnlyOK, AccountPlace, CreateSudoers, RootStep
  <2>3. AccountProgress'
    BY <1>16, <2>1 DEF AccountProgress, ReadOnlyOK, HasAccount, AccountPlace, CreateSudoers,
       RootStep, Write
  <2>4. DisabledIsFinished' BY <1>16 DEF DisabledIsFinished, Finished, CreateSudoers, RootStep, Write
  <2>5. GrowProgress' /\ FileKept' /\ CredentialsProgress'
    BY <1>16, <2>1 DEF GrowProgress, FileKept, CredentialsProgress, AccountPlace,
       CredentialsPlace, CreateSudoers, RootStep, Write, Goto
  <2> QED BY <1>1, <2>2, <2>3, <2>4, <2>5
<1>17. CASE RemoveAccountTxt
  <2>1. svc = AccountPlace /\ step = 5 BY <1>17, Where DEF RemoveAccountTxt, BootStep
  <2>2. ReadOnlyOK' BY <1>17, <2>1 DEF ReadOnlyOK, RemoveAccountTxt, BootStep
  <2>3. AccountProgress' BY <1>17, <2>1 DEF AccountProgress, HasAccount, RemoveAccountTxt, BootStep
  <2>4. FileKept' BY <1>17 DEF FileKept, RemoveAccountTxt, BootStep
  <2>5. GrowProgress' /\ CredentialsProgress' /\ DisabledIsFinished'
    BY <1>17, <2>1 DEF GrowProgress, CredentialsProgress, DisabledIsFinished, Finished,
       CredentialsPlace, RemoveAccountTxt, BootStep, Goto
  <2> QED BY <1>1, <2>2, <2>3, <2>4, <2>5
<1>18. CASE DisableUseraccount
  <2>1. svc = AccountPlace /\ step = 6 BY <1>18, Where DEF DisableUseraccount, RootStep
  <2>2. ReadOnlyOK' BY <1>18, <2>1 DEF ReadOnlyOK, DisableUseraccount, RootStep
  <2>3. AccountProgress'
    BY <1>18, <2>1 DEF AccountProgress, HasAccount, DisableUseraccount, RootStep, Disabled,
       Write
  <2>4. FileKept' BY <1>18 DEF FileKept, DisableUseraccount, RootStep, Disabled, Write
  <2>5. DisabledIsFinished'
    BY <1>18, <2>1 DEF DisabledIsFinished, Finished, AccountProgress, DisableUseraccount,
       RootStep, Disabled, Write
  <2>6. GrowProgress' /\ CredentialsProgress'
    BY <1>18, <2>1 DEF GrowProgress, CredentialsProgress, AccountPlace, CredentialsPlace,
       DisableUseraccount, RootStep, Goto
  <2> QED BY <1>1, <2>2, <2>3, <2>4, <2>5, <2>6
<1>19. CASE HomeConfig
  <2>1. svc = AccountPlace /\ step = 7 BY <1>19, Where DEF HomeConfig, LastStep
  <2>2. ReadOnlyOK' BY <1>19, <2>1 DEF ReadOnlyOK, HomeConfig, LastStep
  <2>3. AccountProgress' BY <1>19, <2>1 DEF AccountProgress, HasAccount, HomeConfig, LastStep, Write
  <2>4. GrowProgress' /\ FileKept' /\ CredentialsProgress' /\ DisabledIsFinished'
    BY <1>19 DEF GrowProgress, FileKept, CredentialsProgress, DisabledIsFinished, Finished,
       HomeConfig, LastStep, Write, EndService
  <2> QED BY <1>1, <2>2, <2>3, <2>4
<1>20. CASE SourceCredentials
  <2>1. svc = CredentialsPlace /\ step = 1 BY <1>20, Where DEF SourceCredentials
  <2>2. ReadOnlyOK' BY <1>20, <2>1 DEF ReadOnlyOK, SourceCredentials
  <2>3. CredentialsProgress'
    BY <1>20, <2>1 DEF CredentialsProgress, FileKept, ReadOnlyOK, TypeOK, BootState,
       SourceCredentials, Goto
  <2>4. GrowProgress' /\ AccountProgress' /\ FileKept' /\ DisabledIsFinished'
    BY <1>20, <2>1 DEF GrowProgress, AccountProgress, DisabledIsFinished, Finished, FileKept,
       AccountPlace, CredentialsPlace, SourceCredentials, Goto
  <2> QED BY <1>1, <2>2, <2>3, <2>4
<1>21. CASE RemoveIdentity
  <2>1. svc = CredentialsPlace /\ step = 2 BY <1>21, Where DEF RemoveIdentity, RootStep
  <2>2. ReadOnlyOK' BY <1>21, <2>1 DEF ReadOnlyOK, CredentialsPlace, RemoveIdentity, RootStep
  <2>3. CredentialsProgress'
    BY <1>21, <2>1 DEF CredentialsProgress, RemoveIdentity, RootStep, Write, Goto
  <2>4. DisabledIsFinished'
    BY <1>21, <2>1 DEF DisabledIsFinished, Finished, CredentialsProgress, RemoveIdentity,
       RootStep, Write
  <2>5. GrowProgress' /\ AccountProgress' /\ FileKept'
    BY <1>21, <2>1 DEF GrowProgress, AccountProgress, HasAccount, FileKept, AccountPlace,
       CredentialsPlace, RemoveIdentity, RootStep, Write, Goto
  <2> QED BY <1>1, <2>2, <2>3, <2>4, <2>5
<1>22. CASE NewIdentity
  <2>1. svc = CredentialsPlace /\ step = 3 BY <1>22, Where DEF NewIdentity, RootStep
  <2>2. ReadOnlyOK' BY <1>22, <2>1 DEF ReadOnlyOK, CredentialsPlace, NewIdentity, RootStep
  <2>3. CredentialsProgress'
    BY <1>22, <2>1 DEF CredentialsProgress, ReadOnlyOK, AccountPlace, CredentialsPlace,
       NewIdentity, RootStep, Write, Goto
  <2>4. DisabledIsFinished' BY <1>22 DEF DisabledIsFinished, Finished, NewIdentity, RootStep, Write
  <2>5. GrowProgress' /\ AccountProgress' /\ FileKept'
    BY <1>22, <2>1 DEF GrowProgress, AccountProgress, HasAccount, FileKept, AccountPlace,
       CredentialsPlace, NewIdentity, RootStep, Write, Goto
  <2> QED BY <1>1, <2>2, <2>3, <2>4, <2>5
<1>23. CASE SetHostname
  <2>1. svc = CredentialsPlace /\ step = 4 BY <1>23, Where DEF SetHostname
  <2>2. ReadOnlyOK' BY <1>23, <2>1 DEF ReadOnlyOK, CredentialsPlace, SetHostname
  <2>3. CredentialsProgress'
    BY <1>23, <2>1 DEF CredentialsProgress, ReadOnlyOK, AccountPlace, CredentialsPlace,
       SetHostname, Write, Goto
  <2>4. DisabledIsFinished'
    BY <1>23, <2>1 DEF DisabledIsFinished, Finished, CredentialsProgress, SetHostname, Write
  <2>5. GrowProgress' /\ AccountProgress' /\ FileKept'
    BY <1>23, <2>1 DEF GrowProgress, AccountProgress, HasAccount, FileKept, AccountPlace,
       CredentialsPlace, SetHostname, Write, Goto
  <2> QED BY <1>1, <2>2, <2>3, <2>4, <2>5
<1>24. CASE SetHosts
  <2>1. svc = CredentialsPlace /\ step = 5 BY <1>24, Where DEF SetHosts, RootStep
  <2>2. ReadOnlyOK' BY <1>24, <2>1 DEF ReadOnlyOK, SetHosts, RootStep
  <2>3. CredentialsProgress' BY <1>24, <2>1 DEF CredentialsProgress, SetHosts, RootStep, Write, Goto
  <2>4. GrowProgress' /\ AccountProgress' /\ FileKept' /\ DisabledIsFinished'
    BY <1>24, <2>1 DEF GrowProgress, AccountProgress, HasAccount, DisabledIsFinished, Finished,
       FileKept, AccountPlace, SetHosts, RootStep, Write, Goto
  <2> QED BY <1>1, <2>2, <2>3, <2>4
<1>25. CASE SetWifi
  <2>1. svc = CredentialsPlace /\ step = 6 BY <1>25, Where DEF SetWifi, RootStep
  <2>2. ReadOnlyOK' BY <1>25, <2>1 DEF ReadOnlyOK, SetWifi, RootStep
  <2>3. CredentialsProgress'
    BY <1>25, <2>1 DEF CredentialsProgress, FileKept, ReadOnlyOK, TypeOK, BootState, SetWifi,
       RootStep, Write, Goto
  <2>4. DisabledIsFinished'
    BY <1>25, <2>1 DEF DisabledIsFinished, Finished, CredentialsProgress, SetWifi, RootStep,
       Write
  <2>5. GrowProgress' /\ AccountProgress' /\ FileKept'
    BY <1>25, <2>1 DEF GrowProgress, AccountProgress, HasAccount, FileKept, AccountPlace,
       SetWifi, RootStep, Write, Goto
  <2> QED BY <1>1, <2>2, <2>3, <2>4, <2>5
<1>26. CASE DisableCredentials
  <2>1. svc = CredentialsPlace /\ step = 7 BY <1>26, Where DEF DisableCredentials, RootStep
  <2>2. ReadOnlyOK' BY <1>26, <2>1 DEF ReadOnlyOK, DisableCredentials, RootStep
  <2>3. CredentialsProgress'
    BY <1>26, <2>1 DEF CredentialsProgress, ReadOnlyOK, DisableCredentials, RootStep, Disabled,
       Write, Goto
  <2>4. DisabledIsFinished'
    BY <1>26, <2>1 DEF DisabledIsFinished, Finished, CredentialsProgress, DisableCredentials,
       RootStep, Disabled, Write
  <2>5. GrowProgress' /\ AccountProgress' /\ FileKept'
    BY <1>26, <2>1 DEF GrowProgress, AccountProgress, HasAccount, FileKept, AccountPlace,
       DisableCredentials, RootStep, Disabled, Write, Goto
  <2> QED BY <1>1, <2>2, <2>3, <2>4, <2>5
<1>27. CASE RemoveCredentialsTxt
  <2>1. svc = CredentialsPlace /\ step = 8 BY <1>27, Where DEF RemoveCredentialsTxt
  <2>2. ReadOnlyOK' BY <1>27, <2>1 DEF ReadOnlyOK, RemoveCredentialsTxt
  <2>3. FileKept' BY <1>27, <2>1 DEF FileKept, CredentialsProgress, RemoveCredentialsTxt
  <2>4. CredentialsProgress' BY <1>27 DEF CredentialsProgress, RemoveCredentialsTxt, EndService
  <2>5. GrowProgress' /\ AccountProgress' /\ DisabledIsFinished'
    BY <1>27, <2>1 DEF GrowProgress, AccountProgress, HasAccount, DisabledIsFinished, Finished,
       TypeOK, AccountPlace, RemoveCredentialsTxt, EndService
  <2> QED BY <1>1, <2>2, <2>3, <2>4, <2>5
<1> QED BY <1>2, <1>3, <1>4, <1>5, <1>6, <1>7, <1>8, <1>9, <1>10, <1>11, <1>12, <1>13, <1>14, <1>15,
     <1>16, <1>17, <1>18, <1>19, <1>20, <1>21, <1>22, <1>23, <1>24, <1>25, <1>26, <1>27
     DEF Next, Run, Running

\* A freshly written image satisfies the invariant.
LEMMA InvBegins == Init => BootInv
<1> SUFFICES ASSUME Init PROVE BootInv OBVIOUS
<1>1. TypeOK
  <2>1. FreshRoot \in RootState BY DEF FreshRoot, RootState
  <2>2. [useraccount |-> TRUE, credentials |-> TRUE] \in BootState BY DEF BootState
  <2>3. [name |-> Pi, host |-> "image", wifi |-> FALSE] \in Settings BY DEF Settings, Names
  <2>4. svc \in 0..4 /\ step \in 0..8 /\ faults \in 0..MaxFaults BY NamesAssumption DEF Init
  <2> QED BY <2>1, <2>2, <2>3, <2>4, Zenon DEF Init, TypeOK
<1>2. ReadOnlyOK /\ GrowProgress /\ AccountProgress /\ CredentialsProgress
  BY DEF Init, ReadOnlyOK, GrowProgress, AccountProgress, CredentialsProgress, AccountPlace
<1>3. FileKept /\ DisabledIsFinished
  BY DEF Init, FileKept, DisabledIsFinished, Finished, FreshRoot, Services
<1> QED BY <1>1, <1>2, <1>3 DEF BootInv

\* FirstBoot's type invariant: every variable stays in its range.
THEOREM BootTyping == Spec => []TypeOK
  BY InvBegins, InvStep, PTL DEF Spec, BootInv

\* firstboot:78-83, useraccount:59-63, credentials:66-67: after any number of
\* power failures and remounts, a disabled service has left its work behind, in
\* the running system and on the disk.
THEOREM FinishedBeforeDisabled == Spec => []DisabledIsFinished
  BY InvBegins, InvStep, PTL DEF Spec, BootInv

\* useraccount.service:4-16: under both init systems logins never open on a
\* device without an account that has a password and a sudo rule.
THEOREM AccountBeforeLogin == Spec => []LoginHasAccount
<1>1. BootInv => LoginHasAccount
  BY DEF BootInv, TypeOK, AccountProgress, AccountPlace, HasAccount, LoginHasAccount, LoginOpen
<1> QED BY <1>1, InvBegins, InvStep, PTL DEF Spec
=============================================================================
