----------------------------- MODULE MCFirstBoot -----------------------------
(* Both init systems, both layouts, edited and untouched files of /boot, and *)
(* two faults: a power failure during the repair of an earlier one.          *)
EXTENDS FirstBoot
=============================================================================
