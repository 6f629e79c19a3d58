----------------------------- MODULE MCWrite2mmc -----------------------------
(* A board that runs from an SD card and has an eMMC, a USB disk and an NVMe *)
(* drive.                                                                    *)
EXTENDS Write2mmc

CONSTANTS Sd, EmmcDisk, Usb, Nvme
=============================================================================
