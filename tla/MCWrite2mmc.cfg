SPECIFICATION Spec
CONSTANTS
    Sd = Sd
    EmmcDisk = EmmcDisk
    Usb = Usb
    Nvme = Nvme
    Disks = {Sd, EmmcDisk, Usb, Nvme}
    Current = Sd
    Emmc = EmmcDisk
    MmcDisks = {Sd, EmmcDisk}
    Faults = {"mount", "copy", "grub"}
INVARIANTS TypeOK SuccessTransfers HostSurvives
