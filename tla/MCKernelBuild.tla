---------------------------- MODULE MCKernelBuild ----------------------------
(* A board that is built from a branch and one that is built from a tag meet *)
(* in sources/.  Two commits let the branch move between the question and   *)
(* the clone, or between two builds.                                        *)
EXTENDS KernelBuild

MCBoards == {"raspberrypi4", "rock5b"}
MCGitBoards == {"raspberrypi4"}
MCSources == {"linux-rpi", "linux-tag"}
MCSource == [b \in MCBoards |-> IF b = "rock5b" THEN "linux-tag" ELSE "linux-rpi"]
MCPkgName == [b \in MCBoards |-> IF b = "rock5b" THEN "rockchip" ELSE "broadcom"]
=============================================================================
