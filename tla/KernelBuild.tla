----------------------------- MODULE KernelBuild -----------------------------
(***************************************************************************)
(* `make kernel': scripts/linux with the cached source trees of            *)
(* lib/function/git (a branch that moves) and lib/function/linux (a tag),  *)
(* patching, bindeb-pkg, and the move of the packages to output/<board>.   *)
(* The directory sources/ is shared by the builds of all boards, and no    *)
(* script here sets errexit.  A build may be killed at any moment; what    *)
(* it leaves in sources/ and .cache/ is what the next one starts from.     *)
(***************************************************************************)
EXTENDS Naturals, FiniteSets

CONSTANTS Boards,        \* the boards that kernels are built for
          GitBoards,     \* those with FORCE_GIT
          Sources,       \* directories of cached trees
          Source,        \* the cached tree of a board
          PkgName,       \* COMMON_PKGNAME or SERIES: in the names of its packages
          MaxCommits,    \* bound on the commits of the branch
          MaxInterrupts  \* bound on killed builds

ASSUME SourceAssumption == /\ GitBoards \subseteq Boards
                           /\ Source \in [Boards -> Sources]
                           /\ DOMAIN PkgName = Boards
                           /\ MaxCommits \in Nat \ {0} /\ MaxInterrupts \in Nat

Kinds == {"image", "headers"}
GitSources == {Source[b] : b \in GitBoards}
None == [kind |-> "none"]

VARIABLES remote,      \* the commit at the head of the remote branch
          cache,       \* .cache/git_shallow.<source>
          tree,        \* the cached source trees
          kernel,      \* the working copy, sources/linux
          debs,        \* packages that lie in sources/
          output,      \* packages in output/<board>
          board, pc,   \* the running build and its next step
          hash,        \* GIT_HASH; 0 for the empty string
          said,        \* what git_verify printed
          made,        \* the packages that this build's bindeb-pkg has made
          result,      \* how the last build ended
          interrupts, torn  \* builds killed; any since the last purge

vars == <<remote, cache, tree, kernel, debs, output, board, pc, hash, said, made,
          result, interrupts, torn>>

Commits == 1..MaxCommits
Trees == [commit : Commits, whole : BOOLEAN]
Caches == [shallow : BOOLEAN, commit : 0..MaxCommits]
Debs == [kind : Kinds, board : Boards, commit : Commits, whole : BOOLEAN]
Steps == {"idle", "ls-remote", "option", "rm cache", "rm tree", "new cache", "verify",
          "record", "drop old", "download", "restore", "clone", "patch", "config", "make",
          "collect", "aside", "move"}

TypeOK == /\ remote \in Commits /\ hash \in 0..remote
          /\ cache \in [GitSources -> Caches \union {None}]
          /\ tree \in [Sources -> Trees \union {None}]
          /\ kernel \in Trees \union {None}
          /\ debs \in SUBSET Debs /\ output \in [Boards -> SUBSET Debs]
          /\ board \in Boards /\ pc \in Steps
          /\ said \in {"", "ok", "NEW"} /\ made \in SUBSET Kinds
          /\ result \in {"", "done", "failed"}
          /\ interrupts \in 0..MaxInterrupts /\ torn \in BOOLEAN

src == Source[board]
\* The head of the branch; a tag stays where it is.
Head == IF src \in GitSources THEN remote ELSE 1

-----------------------------------------------------------------------------
(* The steps of a build *)

Unchanged(v) == UNCHANGED <<remote, board, interrupts, torn>> /\ UNCHANGED v
At(p) == pc = p
Goto(p) == pc' = p /\ UNCHANGED result
Exit(r) == pc' = "idle" /\ result' = r

Start(b) == /\ At("idle") /\ board' = b /\ result' = ""
            /\ pc' = IF b \in GitBoards THEN "ls-remote" ELSE "download"
            /\ hash' = 0 /\ said' = "" /\ made' = {}
            /\ UNCHANGED <<remote, cache, tree, kernel, debs, output, interrupts, torn>>

\* A branch that is not there, or no network, ends the build.
LsRemote == /\ At("ls-remote") /\ (Goto("option") \/ Exit("failed"))
            /\ Unchanged(<<cache, tree, kernel, debs, output, hash, said, made>>)

\* git_option asks the remote again; when that fails the hash is empty.
GitOption ==
    /\ At("option") /\ hash' \in {remote, 0}
    /\ Goto(IF cache[src] = None \/ tree[src] = None THEN "rm cache"
            ELSE IF cache[src].shallow THEN "verify" ELSE "download")
    /\ Unchanged(<<cache, tree, kernel, debs, output, said, made>>)
RmCache == /\ At("rm cache") /\ Goto("rm tree") /\ cache' = [cache EXCEPT ![src] = None]
           /\ Unchanged(<<tree, kernel, debs, output, hash, said, made>>)
RmTree == /\ At("rm tree") /\ Goto("new cache") /\ tree' = [tree EXCEPT ![src] = None]
          /\ Unchanged(<<cache, kernel, debs, output, hash, said, made>>)
\* GIT_SHALLOW itself stays unset, so git_verify is passed over.
NewCache == /\ At("new cache") /\ Goto("download")
            /\ cache' = [cache EXCEPT ![src] = [shallow |-> TRUE, commit |-> hash]]
            /\ Unchanged(<<tree, kernel, debs, output, hash, said, made>>)

\* Mutant: any recorded commit will do.
GitVerifyAny == /\ At("verify")
                /\ IF cache[src].commit # 0 THEN said' = "ok" /\ Goto("download")
                                            ELSE said' = "NEW" /\ Goto("record")
                /\ Unchanged(<<cache, tree, kernel, debs, output, hash, made>>)
GitVerify == /\ At("verify")
             /\ IF cache[src].commit = hash THEN said' = "ok" /\ Goto("download")
                                            ELSE said' = "NEW" /\ Goto("record")
             /\ Unchanged(<<cache, tree, kernel, debs, output, hash, made>>)
\* Mutant: one commit too many is recorded.
RecordCommitNext ==
    /\ At("record") /\ Goto("drop old")
    /\ cache' = [cache EXCEPT ![src].commit = hash + 1]
    /\ Unchanged(<<tree, kernel, debs, output, hash, said, made>>)
RecordCommit == /\ At("record") /\ Goto("drop old")
                /\ cache' = [cache EXCEPT ![src].commit = hash]
                /\ Unchanged(<<tree, kernel, debs, output, hash, said, made>>)
\* Mutant: the new commit is noted, the old tree is kept.
DropOldKept == /\ At("drop old") /\ Goto("download")
               /\ Unchanged(<<cache, tree, kernel, debs, output, hash, said, made>>)
DropOld == /\ At("drop old") /\ Goto("download") /\ tree' = [tree EXCEPT ![src] = None]
           /\ Unchanged(<<cache, kernel, debs, output, hash, said, made>>)

\* A tag that kernel.org does not have ends the build, with exit code 0.
Download == /\ At("download")
            /\ \/ Goto(IF tree[src] = None THEN "clone" ELSE "restore")
               \/ src \notin GitSources /\ Exit("failed")
            /\ Unchanged(<<cache, tree, kernel, debs, output, hash, said, made>>)
\* A tree that is there is used as it is.  One that the user has made deep
\* (GIT_SHALLOW="false") is pulled first; a pull that fails is not noticed.
Restore == /\ At("restore") /\ Goto("patch")
           /\ \/ UNCHANGED tree
              \/ /\ src \in GitSources /\ ~cache[src].shallow
                 /\ tree' = [tree EXCEPT ![src].commit = remote]
           /\ kernel' = tree'[src]
           /\ Unchanged(<<cache, debs, output, hash, said, made>>)
\* git removes what a clone that failed has left.
Clone == /\ At("clone")
         /\ \/ /\ tree' = [tree EXCEPT ![src] = [commit |-> Head, whole |-> TRUE]]
               /\ kernel' = tree'[src] /\ Goto("patch")
            \/ Exit("failed") /\ UNCHANGED <<tree, kernel>>
         /\ Unchanged(<<cache, debs, output, hash, said, made>>)

\* The packaging scripts go into the working copy, then the patches.  A patch
\* that the log calls FAILED ends the build, a skipped one does not.
Patching == /\ At("patch") /\ kernel # None /\ (Goto("config") \/ Exit("failed"))
            /\ Unchanged(<<cache, tree, kernel, debs, output, hash, said, made>>)
\* A defconfig that is not found, and Quit in the menu, end the build.
Config == /\ At("config") /\ (Goto("make") \/ Exit("failed"))
          /\ Unchanged(<<cache, tree, kernel, debs, output, hash, said, made>>)

\* bindeb-pkg makes one package after the other.  The file is named after the
\* package and the version, so that a rebuild replaces it.
Deb(k) == [kind |-> k, board |-> board, commit |-> kernel.commit, whole |-> kernel.whole]
Package(k) == /\ At("make") /\ k \notin made /\ made' = made \union {k}
              /\ debs' = {d \in debs : d.kind # k \/ d.commit # kernel.commit
                                         \/ PkgName[d.board] # PkgName[board]} \union {Deb(k)}
              /\ Goto(IF made' = Kinds THEN "collect" ELSE "make")
              /\ Unchanged(<<cache, tree, kernel, output, hash, said>>)
\* The exit status of make is not looked at.
MakeFails == /\ At("make") /\ Goto("collect")
             /\ Unchanged(<<cache, tree, kernel, debs, output, hash, said, made>>)

\* Whether it worked is told from the packages that lie in sources/.
Collect == /\ At("collect") /\ IF debs = {} THEN Exit("failed") ELSE Goto("aside")
           /\ Unchanged(<<cache, tree, kernel, debs, output, hash, said, made>>)
\* Mutant: the packages of an earlier build stay beside the new ones.
MoveAsideNot == /\ At("aside") /\ Goto("move")
                /\ Unchanged(<<cache, tree, kernel, debs, output, hash, said, made>>)
\* To output/<board>/tmp.
MoveAside == /\ At("aside") /\ Goto("move") /\ output' = [output EXCEPT ![board] = {}]
             /\ Unchanged(<<cache, tree, kernel, debs, hash, said, made>>)
MoveIn == /\ At("move") /\ Exit("done") /\ debs' = {}
          /\ output' = [output EXCEPT ![board] = @ \union debs]
          /\ Unchanged(<<cache, tree, kernel, hash, said, made>>)

-----------------------------------------------------------------------------
(* The user, the remote and the power *)

Purge == /\ At("idle") /\ debs' = {} /\ kernel' = None /\ torn' = FALSE /\ result' = ""
         /\ tree' = [s \in Sources |-> None] /\ cache' = [s \in GitSources |-> None]
         /\ UNCHANGED <<remote, output, board, pc, hash, said, made, interrupts>>
MakeDeep(s) == /\ At("idle") /\ cache[s] # None /\ result' = ""
               /\ cache' = [cache EXCEPT ![s].shallow = FALSE]
               /\ UNCHANGED <<remote, tree, kernel, debs, output, board, pc, hash, said,
                              made, interrupts, torn>>
RemotePush == /\ remote < MaxCommits /\ remote' = remote + 1
              /\ UNCHANGED <<cache, tree, kernel, debs, output, board, pc, hash, said,
                             made, result, interrupts, torn>>
\* A removal or a clone that is killed leaves part of the tree.
Part(t) == [commit |-> IF t = None THEN Head ELSE t.commit, whole |-> FALSE]
Interrupt == /\ ~At("idle") /\ interrupts < MaxInterrupts /\ interrupts' = interrupts + 1
             /\ torn' = TRUE /\ pc' = "idle" /\ result' = ""
             /\ \/ UNCHANGED tree
                \/ /\ pc \in {"rm tree", "drop old"} /\ tree[src] # None
                   /\ tree' = [tree EXCEPT ![src] = Part(@)]
                \/ At("clone") /\ tree' = [tree EXCEPT ![src] = Part(@)]
             /\ hash' = 0 /\ said' = "" /\ made' = {}
             /\ UNCHANGED <<remote, cache, kernel, debs, output, board>>

Init == /\ remote = 1 /\ hash = 0 /\ said = "" /\ made = {} /\ result = ""
        /\ cache = [s \in GitSources |-> None] /\ tree = [s \in Sources |-> None]
        /\ kernel = None /\ debs = {} /\ output = [b \in Boards |-> {}]
        /\ board \in Boards /\ pc = "idle" /\ interrupts = 0 /\ torn = FALSE

Next == \/ \E b \in Boards : Start(b)
        \/ LsRemote \/ GitOption \/ RmCache \/ RmTree \/ NewCache
        \/ GitVerify \/ RecordCommit \/ DropOld \/ Download \/ Restore \/ Clone
        \/ Patching \/ Config \/ (\E k \in Kinds : Package(k)) \/ MakeFails
        \/ Collect \/ MoveAside \/ MoveIn
        \/ Purge \/ (\E s \in GitSources : MakeDeep(s)) \/ RemotePush \/ Interrupt

Spec == Init /\ [][Next]_vars

-----------------------------------------------------------------------------
(* Properties *)

\* git:88-105: when git_verify says "NEW!", the packages are built from a
\* whole tree that is at least as new as the commit it names, whatever was
\* killed before.
NewMeansNew == said = "NEW" /\ pc \in {"patch", "config", "make"} =>
                   kernel.whole /\ kernel.commit >= hash

\* git:88-93: "<commit>, ok." is true when nothing was killed since the last
\* purge: the working copy is whole and at the very commit that it names,
\* even though the branch may have moved between the question and the clone.
UndisturbedOk == said = "ok" /\ hash # 0 /\ ~torn /\ pc \in {"patch", "config", "make"} =>
                     kernel = [commit |-> hash, whole |-> TRUE]

\* scripts/linux:55-66: a build whose bindeb-pkg went through, with nothing
\* killed since the last purge, leaves in output/<board> its own image and
\* headers and nothing else: not the packages of another board or commit
\* that went through the shared sources/ before.
DoneIsExact == result = "done" /\ made = Kinds /\ ~torn =>
                   /\ output[board] = {Deb(k) : k \in Kinds}
                   /\ kernel.whole

\* scripts/linux:65 "Done.": the kernel package of the board is in output/.
DoneMeansImage == result = "done" => \E d \in output[board] : d.kind = "image"

\* git:90-93 "<commit>, ok.": the working copy is at that commit.
OkMeansCommit == said = "ok" /\ hash # 0 /\ pc \in {"patch", "config", "make"} =>
                     kernel = [commit |-> hash, whole |-> TRUE]
=============================================================================
