---------------------------- MODULE MCWorkspace ----------------------------
(***************************************************************************)
(* Two work file names, both distribution labels that end up on a mount    *)
(* point of their own, every partition layout and boot method, with and    *)
(* without shrinking.                                                      *)
(***************************************************************************)
EXTENDS Workspace, BuildScripts

MCNames == {"a", "b"}
Methods(pv) == IF pv = "p1" THEN {"extlinux", "bootcmd"}
               ELSE {"extlinux", "broadcom", "grub", "generic"}
ImageJob(n, pv, b, s, l) == [kind |-> "image", name |-> n, pv |-> pv, boot |-> b,
                             shrink |-> s, label |-> l]
RootfsJob(n) == [kind |-> "rootfs", name |-> n, pv |-> "sysroot", boot |-> "none",
                 shrink |-> FALSE, label |-> "DEBIAN"]

\* Every image job has its own script; the work file's name varies with it.
MCJobs == {RootfsJob(n) : n \in MCNames}
          \cup UNION {{ImageJob("a", pv, b, s, "DEBIAN") : b \in Methods(pv), s \in BOOLEAN}
                      : pv \in {"p1", "p2"}}
          \cup {ImageJob("b", pv, "extlinux", TRUE, "KALI") : pv \in {"p1", "p2"}}
MCScript == [j \in MCJobs |-> ScriptOf(j)]
MCNameOf == [j \in MCJobs |-> j.name]
=============================================================================
