-------------------------- MODULE KernelBuildProofs --------------------------
\* The cached source trees and the packages of `make kernel', for any
\* boards and trees, any number of commits on the branch and any number of
\* killed builds.
EXTENDS KernelBuild, TLAPS

Packing == {"make", "collect", "aside", "move"}
Copied == {"patch", "config"} \union Packing
Asking == {"ls-remote", "option", "rm cache", "rm tree", "new cache", "verify", "record", "drop old"}

\* Where a build can be, with what git_verify has said and what it has made.
PlaceOK == /\ pc \in Asking \/ said # "" => board \in GitBoards
           /\ pc \in Asking \ {"record", "drop old"} => said = ""
           /\ pc \in {"record", "drop old"} => said = "NEW"
           /\ pc \notin Packing \union {"idle"} => made = {}
           /\ pc # "idle" => result # "done"
\* The cached tree and its cache file that the steps of a build rely on.
SourceOK == /\ pc \in {"verify", "record", "drop old"} => cache[src] # None /\ cache[src].shallow
            /\ pc \in {"verify", "record", "restore"} => tree[src] # None
            /\ pc \in {"new cache", "clone"} => tree[src] = None
            /\ pc = "download" /\ said = "NEW" => tree[src] = None
            /\ pc = "restore" => said # "NEW"
            /\ pc \in Copied => kernel # None
\* Nothing is newer than the branch, and a tree never changes behind the back
\* of git_verify between the question and the comparison.
RemoteOK == /\ \A s \in Sources : tree[s] # None => tree[s].commit <= remote
            /\ \A s \in GitSources : cache[s] # None => cache[s].commit <= remote
            /\ pc = "verify" /\ hash # 0 => tree[src].commit <= hash
WholeOK == ~torn => /\ \A s \in Sources : tree[s] # None => tree[s].whole
                    /\ kernel # None => kernel.whole
\* A shallow tree is at least as new as its cache file says; only between
\* noting a new commit and dropping the old tree it is not.
CacheOK == ~torn => \A s \in GitSources :
               /\ cache[s] # None /\ tree[s] # None /\ ~(s = src /\ pc = "drop old")
               => (cache[s].shallow => tree[s].commit >= cache[s].commit)
\* What "ok" is worth, from the comparison to the working copy.
OkOK == said = "ok" /\ hash # 0 /\ ~torn /\ pc \in {"download", "restore", "clone"} =>
            /\ tree[src] = [commit |-> hash, whole |-> TRUE]
            /\ cache[src] # None /\ cache[src].shallow
DebsOK == ~torn => /\ pc \in Packing => debs = {Deb(k) : k \in made}
                   /\ pc \notin Packing => debs = {}
                   /\ pc = "move" => output[board] = {}
KernelInv == /\ TypeOK /\ PlaceOK /\ SourceOK /\ RemoteOK /\ WholeOK /\ CacheOK /\ OkOK
             /\ DebsOK /\ NewMeansNew /\ UndisturbedOk /\ DoneIsExact

-----------------------------------------------------------------------------
\* Nothing is no tree and no cache entry.
LEMMA NoneIs == (\A t \in Trees : t # None) /\ (\A c \in Caches : c # None)
<1>1. ASSUME NEW t \in Trees PROVE t # None
  <2>1. DOMAIN t = {"commit", "whole"} /\ DOMAIN None = {"kind"} BY DEF Trees, None
  <2> QED BY <2>1
<1>2. ASSUME NEW c \in Caches PROVE c # None
  <2>1. DOMAIN c = {"shallow", "commit"} /\ DOMAIN None = {"kind"} BY DEF Caches, None
  <2> QED BY <2>1
<1> QED BY <1>1, <1>2

\* The source of the board that is built is one of the sources.
LEMMA SrcIs == ASSUME TypeOK PROVE src \in Sources /\ (board \in GitBoards => src \in GitSources)
  BY SourceAssumption DEF TypeOK, src, GitSources

\* The bounds are numbers.
LEMMA NumbersAre ==
    ASSUME TypeOK
    PROVE  /\ MaxCommits \in Nat /\ remote \in Nat /\ 1 <= remote /\ remote <= MaxCommits
           /\ hash \in Nat /\ hash <= remote /\ Head \in Commits /\ Head <= remote
<1>1. MaxCommits \in Nat /\ remote \in 1..MaxCommits /\ hash \in 0..remote
  BY SourceAssumption DEF TypeOK, Commits
<1> QED BY <1>1 DEF Head, Commits

\* Every step keeps the types.
LEMMA TypeStep == ASSUME TypeOK, PlaceOK, SourceOK, [Next]_vars PROVE TypeOK'
<1>1. CASE \E b \in Boards : Start(b)
  <2>1. hash' \in 0..remote'
    <3>1. hash' = 0 /\ remote' = remote BY <1>1 DEF Start
    <3> QED BY <3>1, NumbersAre
  <2> QED BY <1>1, <2>1 DEF TypeOK, Steps, Start
<1>2. CASE LsRemote
  BY <1>2, SourceAssumption, SrcIs, NoneIs DEF TypeOK, PlaceOK, SourceOK, Trees, Caches, Debs,
     Steps, Commits, Unchanged, At, Goto, Exit, Asking, Packing, Copied, LsRemote
<1>3. CASE GitOption
  <2>1. hash' \in 0..remote'
    <3>1. hash' \in {remote, 0} /\ remote' = remote BY <1>3 DEF Unchanged, GitOption
    <3> QED BY <3>1, NumbersAre
  <2> QED BY <1>3, <2>1 DEF TypeOK, Steps, Unchanged, Goto, GitOption
<1>4. CASE RmCache
  BY <1>4, SourceAssumption, SrcIs, NoneIs DEF TypeOK, PlaceOK, SourceOK, Trees, Caches, Debs,
     Steps, Commits, Unchanged, At, Goto, Exit, Asking, Packing, Copied, RmCache
<1>5. CASE RmTree
  BY <1>5, SourceAssumption, SrcIs, NoneIs DEF TypeOK, PlaceOK, SourceOK, Trees, Caches, Debs,
     Steps, Commits, Unchanged, At, Goto, Exit, Asking, Packing, Copied, RmTree
<1>6. CASE NewCache
  <2>1. src \in GitSources BY <1>6, SrcIs DEF PlaceOK, Asking, At, NewCache
  <2>2. [shallow |-> TRUE, commit |-> hash] \in Caches BY NumbersAre DEF Caches
  <2>3. cache' \in [GitSources -> Caches \union {None}] BY <1>6, <2>1, <2>2 DEF TypeOK, NewCache
  <2> QED BY <1>6, <2>3 DEF TypeOK, Steps, Unchanged, Goto, NewCache
<1>7. CASE GitVerify
  BY <1>7, SourceAssumption, SrcIs, NoneIs DEF TypeOK, PlaceOK, SourceOK, Trees, Caches, Debs,
     Steps, Commits, Unchanged, At, Goto, Exit, Asking, Packing, Copied, GitVerify
<1>8. CASE RecordCommit
  <2>1. src \in GitSources BY <1>8, SrcIs DEF PlaceOK, Asking, At, RecordCommit
  <2>2. [cache[src] EXCEPT !.commit = hash] \in Caches
    <3>1. cache[src] \in Caches BY <1>8, <2>1 DEF TypeOK, SourceOK, At, RecordCommit
    <3> QED BY <3>1, NumbersAre DEF Caches
  <2>3. cache' \in [GitSources -> Caches \union {None}] BY <1>8, <2>1, <2>2 DEF TypeOK, RecordCommit
  <2> QED BY <1>8, <2>3 DEF TypeOK, Steps, Unchanged, Goto, RecordCommit
<1>9. CASE DropOld
  BY <1>9, SourceAssumption, SrcIs, NoneIs DEF TypeOK, PlaceOK, SourceOK, Trees, Caches, Debs,
     Steps, Commits, Unchanged, At, Goto, Exit, Asking, Packing, Copied, DropOld
<1>10. CASE Download
  BY <1>10, SourceAssumption, SrcIs, NoneIs DEF TypeOK, PlaceOK, SourceOK, Trees, Caches, Debs,
     Steps, Commits, Unchanged, At, Goto, Exit, Asking, Packing, Copied, Download
<1>11. CASE Restore
  <2>1. src \in Sources /\ tree[src] \in Trees BY <1>11, SrcIs DEF TypeOK, SourceOK, At, Restore
  <2>2. [tree[src] EXCEPT !.commit = remote] \in Trees BY <2>1 DEF TypeOK, Trees
  <2>3. tree' \in [Sources -> Trees \union {None}] /\ tree'[src] \in Trees
    BY <1>11, <2>1, <2>2 DEF TypeOK, Restore
  <2> QED BY <1>11, <2>3 DEF TypeOK, Steps, Unchanged, Goto, Restore
<1>12. CASE Clone
  <2>1. [commit |-> Head, whole |-> TRUE] \in Trees BY NumbersAre DEF Trees
  <2>2. tree' \in [Sources -> Trees \union {None}] /\ kernel' \in Trees \union {None}
    BY <1>12, <2>1, SrcIs DEF TypeOK, Clone
  <2> QED BY <1>12, <2>2 DEF TypeOK, Steps, Unchanged, Goto, Exit, Clone
<1>13. CASE Patching
  BY <1>13, SourceAssumption, SrcIs, NoneIs DEF TypeOK, PlaceOK, SourceOK, Trees, Caches, Debs,
     Steps, Commits, Unchanged, At, Goto, Exit, Asking, Packing, Copied, Patching
<1>14. CASE Config
  BY <1>14, SourceAssumption, SrcIs, NoneIs DEF TypeOK, PlaceOK, SourceOK, Trees, Caches, Debs,
     Steps, Commits, Unchanged, At, Goto, Exit, Asking, Packing, Copied, Config
<1>15. CASE \E k \in Kinds : Package(k)
  <2>1. PICK k \in Kinds : Package(k) BY <1>15
  <2>2. kernel \in Trees BY <2>1 DEF TypeOK, SourceOK, Copied, Packing, At, Package
  <2>3. Deb(k) \in Debs BY <2>2 DEF TypeOK, Trees, Debs, Deb
  <2>4. debs' \in SUBSET Debs BY <2>1, <2>3 DEF TypeOK, Package
  <2> QED BY <2>1, <2>4 DEF TypeOK, Steps, Unchanged, Goto, Package
<1>16. CASE MakeFails
  BY <1>16, SourceAssumption, SrcIs, NoneIs DEF TypeOK, PlaceOK, SourceOK, Trees, Caches, Debs,
     Steps, Commits, Unchanged, At, Goto, Exit, Asking, Packing, Copied, MakeFails
<1>17. CASE Collect
  BY <1>17, SourceAssumption, SrcIs, NoneIs DEF TypeOK, PlaceOK, SourceOK, Trees, Caches, Debs,
     Steps, Commits, Unchanged, At, Goto, Exit, Asking, Packing, Copied, Collect
<1>18. CASE MoveAside
  BY <1>18, SourceAssumption, SrcIs, NoneIs DEF TypeOK, PlaceOK, SourceOK, Trees, Caches, Debs,
     Steps, Commits, Unchanged, At, Goto, Exit, Asking, Packing, Copied, MoveAside
<1>19. CASE MoveIn
  BY <1>19, SourceAssumption, SrcIs, NoneIs DEF TypeOK, PlaceOK, SourceOK, Trees, Caches, Debs,
     Steps, Commits, Unchanged, At, Goto, Exit, Asking, Packing, Copied, MoveIn
<1>20. CASE Purge
  BY <1>20, SourceAssumption, SrcIs, NoneIs DEF TypeOK, PlaceOK, SourceOK, Trees, Caches, Debs,
     Steps, Commits, Unchanged, At, Goto, Exit, Asking, Packing, Copied, Purge
<1>21. CASE \E s \in GitSources : MakeDeep(s)
  <2>1. PICK s \in GitSources : MakeDeep(s) BY <1>21
  <2>2. [cache[s] EXCEPT !.shallow = FALSE] \in Caches BY <2>1 DEF TypeOK, Caches, MakeDeep
  <2>3. cache' \in [GitSources -> Caches \union {None}] BY <2>1, <2>2 DEF TypeOK, MakeDeep
  <2> QED BY <2>1, <2>3 DEF TypeOK, MakeDeep
<1>22. CASE RemotePush
  <2>1. remote' \in Commits /\ hash' \in 0..remote' BY <1>22, NumbersAre DEF Commits, RemotePush
  <2> QED BY <1>22, <2>1 DEF TypeOK, RemotePush
<1>23. CASE Interrupt
  <2>1. Part(tree[src]) \in Trees BY NumbersAre, SrcIs, NoneIs DEF TypeOK, Trees, Part
  <2>2. tree' \in [Sources -> Trees \union {None}] BY <1>23, <2>1 DEF TypeOK, Interrupt
  <2>3. torn' \in BOOLEAN BY <1>23, Zenon DEF Interrupt
  <2>4. hash' \in 0..remote'
    <3>1. hash' = 0 /\ remote' = remote BY <1>23 DEF Interrupt
    <3> QED BY <3>1, NumbersAre
  <2>5. interrupts' \in 0..MaxInterrupts
    <3>1. interrupts \in 0..MaxInterrupts /\ interrupts < MaxInterrupts /\ interrupts' = interrupts + 1
      BY <1>23 DEF TypeOK, Interrupt
    <3> QED BY <3>1, SourceAssumption
  <2> QED BY <1>23, <2>2, <2>3, <2>4, <2>5 DEF TypeOK, Steps, Interrupt
<1>24. CASE UNCHANGED vars BY <1>24 DEF TypeOK, vars
<1> QED BY <1>1, <1>2, <1>3, <1>4, <1>5, <1>6, <1>7, <1>8, <1>9, <1>10, <1>11, <1>12, <1>13, <1>14,
     <1>15, <1>16, <1>17, <1>18, <1>19, <1>20, <1>21, <1>22, <1>23, <1>24 DEF Next
\* Every step keeps the invariant.
LEMMA KernelStep == ASSUME KernelInv, [Next]_vars PROVE KernelInv'
<1> USE DEF KernelInv, At, Goto, Exit, Unchanged, Asking, Copied, Packing
<1>1. TypeOK' BY TypeStep
<1>2. CASE UNCHANGED vars
  <2>1. PlaceOK' /\ SourceOK' /\ RemoteOK' /\ WholeOK' /\ NewMeansNew' /\ UndisturbedOk'
    BY <1>2 DEF vars, PlaceOK, SourceOK, RemoteOK, WholeOK, NewMeansNew, UndisturbedOk, src
  <2>3. CacheOK' BY <1>2 DEF vars, CacheOK, src
  <2>4. OkOK' BY <1>2 DEF vars, OkOK, src
  <2>2. DebsOK' /\ DoneIsExact' BY <1>2 DEF vars, DebsOK, DoneIsExact, Deb
  <2> QED BY <1>1, <2>1, <2>2, <2>3, <2>4
<1>3. CASE \E b \in Boards : Start(b)
  <2>1. PICK b \in Boards : Start(b) BY <1>3
  <2>2. PlaceOK' /\ SourceOK' /\ RemoteOK' /\ WholeOK' /\ CacheOK' /\ OkOK' /\ DebsOK' /\ NewMeansNew' /\ UndisturbedOk' /\ DoneIsExact'
    BY <2>1, <1>1, SrcIs, NoneIs, NumbersAre DEF PlaceOK, TypeOK, Start, SourceOK, src,
       RemoteOK, Trees, Caches, WholeOK, CacheOK, OkOK, DebsOK, Deb, NewMeansNew, UndisturbedOk,
       DoneIsExact
  <2> QED BY <1>1, <2>2
<1>4. CASE LsRemote
  <2>1. PlaceOK' /\ SourceOK' /\ RemoteOK' /\ WholeOK' /\ CacheOK' /\ OkOK' /\ DebsOK' /\ NewMeansNew' /\ UndisturbedOk' /\ DoneIsExact'
    BY <1>4, <1>1, SrcIs, NoneIs, NumbersAre DEF PlaceOK, TypeOK, LsRemote, SourceOK, src,
       RemoteOK, Trees, Caches, WholeOK, CacheOK, OkOK, DebsOK, Deb, NewMeansNew, UndisturbedOk,
       DoneIsExact
  <2> QED BY <1>1, <2>1
<1>5. CASE GitOption
  <2>1. RemoteOK'
    <3>1. UNCHANGED <<tree, cache, remote, src>> /\ hash' \in {remote, 0} /\ (pc' = "verify" => tree[src] # None)
      BY <1>5 DEF GitOption, src
    <3>2. tree[src] # None => tree[src].commit <= remote BY SrcIs DEF RemoteOK
    <3> QED BY <3>1, <3>2 DEF RemoteOK
  <2>2. PlaceOK' /\ SourceOK' /\ WholeOK' /\ CacheOK' /\ OkOK' /\ DebsOK' /\ NewMeansNew' /\ UndisturbedOk' /\ DoneIsExact'
    BY <1>5, <1>1, SrcIs, NoneIs, NumbersAre DEF PlaceOK, TypeOK, GitOption, SourceOK, src,
       WholeOK, CacheOK, RemoteOK, Trees, Caches, OkOK, DebsOK, Deb, NewMeansNew, UndisturbedOk,
       DoneIsExact
  <2> QED BY <1>1, <2>1, <2>2
<1>6. CASE RmCache
  <2>1. PlaceOK' /\ SourceOK' /\ RemoteOK' /\ WholeOK' /\ CacheOK' /\ OkOK' /\ DebsOK' /\ NewMeansNew' /\ UndisturbedOk' /\ DoneIsExact'
    BY <1>6, <1>1, SrcIs, NoneIs, NumbersAre DEF PlaceOK, TypeOK, RmCache, SourceOK, src,
       RemoteOK, Trees, Caches, WholeOK, CacheOK, OkOK, DebsOK, Deb, NewMeansNew, UndisturbedOk,
       DoneIsExact
  <2> QED BY <1>1, <2>1
<1>7. CASE RmTree
  <2>1. CacheOK'
    <3> SUFFICES ASSUME ~torn', NEW s \in GitSources, cache'[s] # None, tree'[s] # None,
                        ~(s = src' /\ pc' = "drop old"), cache'[s].shallow
                 PROVE  tree'[s].commit >= cache'[s].commit
      BY DEF CacheOK
    <3>1. ~torn /\ UNCHANGED <<cache, src>> /\ src \in Sources /\ tree' = [tree EXCEPT ![src] = None] /\ s \in Sources
      BY <1>7, SrcIs, SourceAssumption DEF RmTree, src, GitSources
    <3>2. s # src /\ tree'[s] = tree[s] BY <3>1 DEF TypeOK
    <3> QED BY <3>1, <3>2 DEF CacheOK
  <2>2. PlaceOK' /\ SourceOK' /\ RemoteOK' /\ WholeOK' /\ OkOK' /\ DebsOK' /\ NewMeansNew' /\ UndisturbedOk' /\ DoneIsExact'
    BY <1>7, <1>1, SrcIs, NoneIs, NumbersAre DEF PlaceOK, TypeOK, RmTree, SourceOK, src,
       RemoteOK, Trees, Caches, WholeOK, OkOK, CacheOK, DebsOK, Deb, NewMeansNew, UndisturbedOk,
       DoneIsExact
  <2> QED BY <1>1, <2>1, <2>2
<1>8. CASE NewCache
  <2>1. PlaceOK' BY <1>8, <1>1, SrcIs, NoneIs DEF PlaceOK, TypeOK, NewCache
  <2>2. SourceOK' BY <1>8, <1>1, SrcIs, NoneIs DEF SourceOK, PlaceOK, TypeOK, src, NewCache
  <2>3. RemoteOK'
    BY <1>8, <1>1, SrcIs, NoneIs, NumbersAre DEF RemoteOK, SourceOK, PlaceOK, TypeOK, src,
       Trees, Caches, NewCache
  <2>4. WholeOK' BY <1>8, <1>1, SrcIs, NoneIs DEF WholeOK, SourceOK, TypeOK, src, NewCache
  <2>5. CacheOK'
    BY <1>8, <1>1, SrcIs, NoneIs, NumbersAre DEF CacheOK, RemoteOK, SourceOK, PlaceOK, TypeOK,
       src, Trees, Caches, NewCache
  <2>6. OkOK' BY <1>8, <1>1, SrcIs, NoneIs, NumbersAre DEF OkOK, CacheOK, RemoteOK, WholeOK, SourceOK,
       PlaceOK, TypeOK, src, Trees, Caches, NewCache
  <2>7. DebsOK' BY <1>8, <1>1, SrcIs, NoneIs DEF DebsOK, PlaceOK, TypeOK, Deb, NewCache
  <2>8. NewMeansNew'
    BY <1>8, <1>1, SrcIs, NoneIs, NumbersAre DEF NewMeansNew, SourceOK, PlaceOK, TypeOK, src,
       NewCache
  <2>9. UndisturbedOk'
    BY <1>8, <1>1, SrcIs, NoneIs DEF UndisturbedOk, OkOK, SourceOK, PlaceOK, TypeOK, src,
       NewCache
  <2>10. DoneIsExact'
    BY <1>8, <1>1, SrcIs, NoneIs DEF DoneIsExact, DebsOK, WholeOK, SourceOK, PlaceOK, TypeOK,
       Deb, src, NewCache
  <2> QED BY <1>1, <2>1, <2>2, <2>3, <2>4, <2>5, <2>6, <2>7, <2>8, <2>9, <2>10
<1>9. CASE GitVerify
  <2>1. OkOK'
    <3> SUFFICES ASSUME said' = "ok", hash' # 0, ~torn'
                 PROVE  /\ tree'[src'] = [commit |-> hash', whole |-> TRUE]
                        /\ cache'[src'] # None /\ cache'[src'].shallow
      BY DEF OkOK
    <3>1. /\ pc = "verify" /\ cache[src].commit = hash /\ hash # 0 /\ ~torn
          /\ UNCHANGED <<tree, cache, hash, src>>
      BY <1>9 DEF GitVerify, src
    <3>2. src \in GitSources /\ src \in Sources /\ tree[src] # None /\ cache[src] # None /\ cache[src].shallow
      BY <3>1, SrcIs DEF PlaceOK, SourceOK
    <3>3. tree[src] \in Trees /\ tree[src].whole BY <3>1, <3>2 DEF TypeOK, WholeOK
    <3>4. tree[src].commit >= hash /\ tree[src].commit <= hash BY <3>1, <3>2 DEF CacheOK, RemoteOK
    <3>5. tree[src].commit = hash BY <3>3, <3>4, NumbersAre DEF Trees, Commits
    <3>6. tree[src] = [commit |-> tree[src].commit, whole |-> tree[src].whole] /\ tree[src].whole = TRUE
      BY <3>3 DEF Trees
    <3> QED BY <3>1, <3>2, <3>5, <3>6
  <2>2. PlaceOK' /\ SourceOK' /\ RemoteOK' /\ WholeOK' /\ CacheOK' /\ DebsOK' /\ NewMeansNew' /\ UndisturbedOk' /\ DoneIsExact'
    BY <1>9, <1>1, SrcIs, NoneIs, NumbersAre DEF PlaceOK, TypeOK, GitVerify, SourceOK, src,
       RemoteOK, Trees, Caches, WholeOK, CacheOK, DebsOK, Deb, NewMeansNew, UndisturbedOk, OkOK,
       DoneIsExact
  <2> QED BY <1>1, <2>1, <2>2
<1>10. CASE RecordCommit
  <2>1. SourceOK'
    <3>1. src \in GitSources /\ cache[src] \in Caches /\ cache[src].shallow
      BY <1>10, SrcIs DEF PlaceOK, SourceOK, TypeOK, RecordCommit
    <3>2. [cache[src] EXCEPT !.commit = hash] # None /\ [cache[src] EXCEPT !.commit = hash].shallow
      <4>1. [cache[src] EXCEPT !.commit = hash] \in Caches BY <3>1, NumbersAre DEF Caches
      <4>2. [cache[src] EXCEPT !.commit = hash].shallow = cache[src].shallow BY DEF Caches
      <4> QED BY <3>1, <4>1, NoneIs
    <3>3. src' = src /\ cache'[src] # None /\ cache'[src].shallow
      BY <1>10, <3>1, <3>2 DEF TypeOK, RecordCommit, src
    <3> QED BY <1>10, <3>3 DEF SourceOK, RecordCommit
  <2>2. PlaceOK' BY <1>10, <1>1, SrcIs, NoneIs DEF PlaceOK, TypeOK, RecordCommit
  <2>3. RemoteOK'
    BY <1>10, <1>1, SrcIs, NoneIs, NumbersAre DEF RemoteOK, SourceOK, PlaceOK, TypeOK, src,
       Trees, Caches, RecordCommit
  <2>4. WholeOK' BY <1>10, <1>1, SrcIs, NoneIs DEF WholeOK, SourceOK, TypeOK, src, RecordCommit
  <2>5. CacheOK'
    BY <1>10, <1>1, SrcIs, NoneIs, NumbersAre DEF CacheOK, RemoteOK, SourceOK, PlaceOK, TypeOK,
       src, Trees, Caches, RecordCommit
  <2>6. OkOK'
    BY <1>10, <1>1, SrcIs, NoneIs, NumbersAre DEF OkOK, CacheOK, RemoteOK, WholeOK, SourceOK,
       PlaceOK, TypeOK, src, Trees, Caches, RecordCommit
  <2>7. DebsOK' BY <1>10, <1>1, SrcIs, NoneIs DEF DebsOK, PlaceOK, TypeOK, Deb, RecordCommit
  <2>8. NewMeansNew'
    BY <1>10, <1>1, SrcIs, NoneIs, NumbersAre DEF NewMeansNew, SourceOK, PlaceOK, TypeOK, src,
       RecordCommit
  <2>9. UndisturbedOk'
    BY <1>10, <1>1, SrcIs, NoneIs DEF UndisturbedOk, OkOK, SourceOK, PlaceOK, TypeOK, src,
       RecordCommit
  <2>10. DoneIsExact'
    BY <1>10, <1>1, SrcIs, NoneIs DEF DoneIsExact, DebsOK, WholeOK, SourceOK, PlaceOK, TypeOK,
       Deb, src, RecordCommit
  <2> QED BY <1>1, <2>1, <2>2, <2>3, <2>4, <2>5, <2>6, <2>7, <2>8, <2>9, <2>10
<1>11. CASE DropOld
  <2>1. CacheOK'
    <3> SUFFICES ASSUME ~torn', NEW s \in GitSources, cache'[s] # None, tree'[s] # None,
                        ~(s = src' /\ pc' = "drop old"), cache'[s].shallow
                 PROVE  tree'[s].commit >= cache'[s].commit
      BY DEF CacheOK
    <3>1. ~torn /\ UNCHANGED <<cache, src>> /\ src \in Sources /\ tree' = [tree EXCEPT ![src] = None] /\ s \in Sources
      BY <1>11, SrcIs, SourceAssumption DEF DropOld, src, GitSources
    <3>2. s # src /\ tree'[s] = tree[s] BY <3>1 DEF TypeOK
    <3> QED BY <3>1, <3>2 DEF CacheOK
  <2>2. PlaceOK' /\ SourceOK' /\ RemoteOK' /\ WholeOK' /\ OkOK' /\ DebsOK' /\ NewMeansNew' /\ UndisturbedOk' /\ DoneIsExact'
    BY <1>11, <1>1, SrcIs, NoneIs, NumbersAre DEF PlaceOK, TypeOK, DropOld, SourceOK, src,
       RemoteOK, Trees, Caches, WholeOK, OkOK, CacheOK, DebsOK, Deb, NewMeansNew, UndisturbedOk,
       DoneIsExact
  <2> QED BY <1>1, <2>1, <2>2
<1>12. CASE Download
  <2>1. PlaceOK' /\ SourceOK' /\ RemoteOK' /\ WholeOK' /\ CacheOK' /\ OkOK' /\ DebsOK' /\ NewMeansNew' /\ UndisturbedOk' /\ DoneIsExact'
    BY <1>12, <1>1, SrcIs, NoneIs, NumbersAre DEF PlaceOK, TypeOK, Download, SourceOK, src,
       RemoteOK, Trees, Caches, WholeOK, CacheOK, OkOK, DebsOK, Deb, NewMeansNew, UndisturbedOk,
       DoneIsExact
  <2> QED BY <1>1, <2>1
<1>13. CASE Restore
  <2>1. /\ UNCHANGED <<src, torn, cache, remote, board>> /\ pc = "restore" /\ pc' = "patch"
        /\ src \in Sources /\ tree[src] \in Trees /\ tree'[src] \in Trees /\ kernel' = tree'[src]
        /\ tree'[src].whole = tree[src].whole /\ tree'[src].commit \in {tree[src].commit, remote}
        /\ \A s \in Sources : s # src => tree'[s] = tree[s]
    <3>1. /\ UNCHANGED <<src, torn, cache, remote, board>> /\ pc = "restore" /\ pc' = "patch" /\ kernel' = tree'[src]
      BY <1>13 DEF Restore, src
    <3>2. src \in Sources /\ tree[src] \in Trees BY <3>1, SrcIs DEF TypeOK, SourceOK
    <3> DEFINE pulled == [tree[src] EXCEPT !.commit = remote]
    <3>3. pulled \in Trees /\ pulled.whole = tree[src].whole /\ pulled.commit = remote
      BY <3>2 DEF TypeOK, Trees
    <3>4. tree' = tree \/ tree' = [tree EXCEPT ![src] = pulled] BY <1>13 DEF Restore
    <3> HIDE DEF pulled
    <3> QED BY <3>1, <3>2, <3>3, <3>4 DEF TypeOK
  <2>2. RemoteOK'
    <3>1. tree[src].commit <= remote BY <2>1, NoneIs DEF RemoteOK
    <3> QED BY <2>1, <3>1, NumbersAre DEF RemoteOK
  <2>3. CacheOK'
    <3> SUFFICES ASSUME ~torn', NEW s \in GitSources, cache'[s] # None, tree'[s] # None,
                        ~(s = src' /\ pc' = "drop old"), cache'[s].shallow
                 PROVE  tree'[s].commit >= cache'[s].commit
      BY DEF CacheOK
    <3>1. ~torn /\ cache[s] # None /\ cache[s].shallow /\ s \in Sources
      BY <2>1, SourceAssumption DEF GitSources
    <3>2. CASE s # src BY <2>1, <3>1, <3>2 DEF CacheOK
    <3>3. CASE s = src
      <4>1. tree[s].commit >= cache[s].commit /\ cache[s].commit <= remote
        BY <2>1, <3>1, NoneIs DEF CacheOK, RemoteOK
      <4> QED BY <2>1, <3>3, <4>1
    <3> QED BY <3>2, <3>3
  <2>4. UndisturbedOk'
    <3> SUFFICES ASSUME said = "ok", hash # 0, ~torn PROVE UndisturbedOk'
      BY <1>13 DEF UndisturbedOk, Restore
    <3>1. tree[src] = [commit |-> hash, whole |-> TRUE] /\ src \in GitSources /\ cache[src].shallow
      BY <2>1, SrcIs DEF OkOK, PlaceOK
    <3>2. tree' = tree /\ hash' = hash BY <1>13, <3>1 DEF Restore
    <3> QED BY <2>1, <3>1, <3>2 DEF UndisturbedOk
  <2>5. PlaceOK' BY <1>13, <2>1, <1>1, SrcIs, NoneIs DEF PlaceOK, TypeOK, Restore
  <2>6. SourceOK' BY <2>1, NoneIs DEF SourceOK
  <2>7. WholeOK' BY <2>1, NoneIs DEF WholeOK
  <2>8. OkOK' BY <1>13 DEF OkOK, src, Trees, Caches, Restore
  <2>9. DebsOK' BY <1>13 DEF DebsOK, Restore
  <2>10. NewMeansNew' BY <1>13 DEF NewMeansNew, SourceOK, src, Restore
  <2>11. DoneIsExact'
    BY <1>13, <2>1, <1>1, SrcIs, NoneIs DEF DoneIsExact, DebsOK, WholeOK, SourceOK, PlaceOK,
       TypeOK, Deb, src, Restore
  <2> QED BY <1>1, <2>2, <2>3, <2>4, <2>5, <2>6, <2>7, <2>8, <2>9, <2>10, <2>11
<1>14. CASE Clone
  <2>1. /\ UNCHANGED <<src, torn, cache, remote, board, hash, said>> /\ pc = "clone" /\ src \in Sources
        /\ \/ UNCHANGED <<tree, kernel>> /\ pc' = "idle"
           \/ /\ tree'[src] = [commit |-> Head, whole |-> TRUE] /\ kernel' = tree'[src] /\ pc' = "patch"
              /\ \A s \in Sources : s # src => tree'[s] = tree[s]
    BY <1>14, SrcIs DEF TypeOK, Clone, src
  <2>2. [commit |-> Head, whole |-> TRUE] \in Trees /\ [commit |-> Head, whole |-> TRUE].commit = Head
        /\ [commit |-> Head, whole |-> TRUE].whole
    BY NumbersAre DEF Trees
  <2>3. CacheOK'
    <3> SUFFICES ASSUME ~torn', NEW s \in GitSources, cache'[s] # None, tree'[s] # None,
                        ~(s = src' /\ pc' = "drop old"), cache'[s].shallow
                 PROVE  tree'[s].commit >= cache'[s].commit
      BY DEF CacheOK
    <3>1. ~torn /\ cache[s] # None /\ cache[s].shallow /\ s \in Sources
      BY <2>1, SourceAssumption DEF GitSources
    <3>2. CASE UNCHANGED tree \/ s # src BY <2>1, <3>1, <3>2 DEF CacheOK
    <3>3. CASE s = src /\ tree'[src] = [commit |-> Head, whole |-> TRUE]
      <4>1. cache[s].commit <= remote /\ Head = remote BY <3>1, <3>3 DEF RemoteOK, Head
      <4> QED BY <2>1, <2>2, <3>3, <4>1, NumbersAre
    <3> QED BY <2>1, <3>2, <3>3
  <2>4. NewMeansNew'
    <3>1. said = "NEW" => src \in GitSources BY SrcIs DEF PlaceOK
    <3> QED BY <2>1, <3>1, NumbersAre DEF NewMeansNew, Head
  <2>5. UndisturbedOk'
    <3>1. ~(said = "ok" /\ hash # 0 /\ ~torn)
      <4>1. [commit |-> hash, whole |-> TRUE] # None
        <5>1. DOMAIN [commit |-> hash, whole |-> TRUE] = {"commit", "whole"} /\ DOMAIN None = {"kind"}
          BY DEF None
        <5> QED BY <5>1
      <4> QED BY <2>1, <4>1 DEF OkOK, SourceOK
    <3> QED BY <2>1, <3>1 DEF UndisturbedOk
  <2>6. PlaceOK' BY <1>14, <2>1, <1>1, SrcIs, NoneIs DEF PlaceOK, TypeOK, Clone
  <2>7. SourceOK' BY <1>14, <2>1, <2>2, NoneIs DEF SourceOK, Clone
  <2>8. RemoteOK' BY <2>1, NumbersAre DEF RemoteOK
  <2>9. WholeOK' BY <2>1 DEF WholeOK
  <2>10. OkOK' BY <1>14 DEF OkOK, src, Trees, Caches, Clone, Head
  <2>11. DebsOK' BY <1>14 DEF DebsOK, Clone
  <2>12. DoneIsExact'
    BY <1>14, <2>1, <1>1, SrcIs, NoneIs DEF DoneIsExact, DebsOK, WholeOK, SourceOK, PlaceOK,
       TypeOK, Deb, src, Clone
  <2> QED BY <1>1, <2>3, <2>4, <2>5, <2>6, <2>7, <2>8, <2>9, <2>10, <2>11, <2>12
<1>15. CASE Patching
  <2>1. PlaceOK' /\ SourceOK' /\ RemoteOK' /\ WholeOK' /\ CacheOK' /\ OkOK' /\ DebsOK' /\ NewMeansNew' /\ UndisturbedOk' /\ DoneIsExact'
    BY <1>15, <1>1, SrcIs, NoneIs, NumbersAre DEF PlaceOK, TypeOK, Patching, SourceOK, src,
       RemoteOK, Trees, Caches, WholeOK, CacheOK, OkOK, DebsOK, Deb, NewMeansNew, UndisturbedOk,
       DoneIsExact
  <2> QED BY <1>1, <2>1
<1>16. CASE Config
  <2>1. PlaceOK' /\ SourceOK' /\ NewMeansNew'
    BY <1>16, <1>1, SrcIs, NoneIs, NumbersAre DEF PlaceOK, TypeOK, Config, SourceOK, src,
       NewMeansNew
  <2>2. DebsOK' /\ DoneIsExact'
    BY <1>16, <1>1, SrcIs, NoneIs DEF DebsOK, PlaceOK, TypeOK, Deb, Config, DoneIsExact,
       WholeOK, SourceOK, src
  <2>3. RemoteOK' /\ WholeOK' /\ CacheOK' /\ OkOK' /\ UndisturbedOk'
    BY <1>16, <1>1, SrcIs, NoneIs, NumbersAre DEF RemoteOK, SourceOK, PlaceOK, TypeOK, src,
       Trees, Caches, Config, WholeOK, CacheOK, OkOK, UndisturbedOk
  <2> QED BY <1>1, <2>1, <2>2, <2>3
<1>17. CASE \E k \in Kinds : Package(k)
  <2>1. PICK k \in Kinds : Package(k) BY <1>17
  <2>2. DebsOK'
    <3>1. ASSUME ~torn PROVE debs' = {Deb(j)' : j \in made'}
      <4>1. debs = {Deb(j) : j \in made} /\ k \notin made /\ made' = made \union {k}
        BY <2>1, <3>1 DEF DebsOK, Package
      <4>2. \A d \in debs : d.kind # k BY <4>1 DEF Deb
      <4>3. debs' = debs \union {Deb(k)} BY <2>1, <4>2 DEF Package
      <4>4. \A j : Deb(j)' = Deb(j) BY <2>1 DEF Deb, Package
      <4>5. \A d : d \in debs' <=> \E j \in made' : d = Deb(j) BY <4>1, <4>3
      <4> QED BY <4>4, <4>5
    <3>2. UNCHANGED torn /\ pc' \in {"make", "collect"} BY <2>1 DEF Package
    <3> QED BY <3>1, <3>2 DEF DebsOK
  <2>3. PlaceOK' /\ SourceOK' /\ RemoteOK' /\ WholeOK' /\ CacheOK' /\ OkOK' /\ NewMeansNew' /\ UndisturbedOk' /\ DoneIsExact'
    BY <2>1, <1>1, SrcIs, NoneIs, NumbersAre DEF PlaceOK, TypeOK, Package, SourceOK, src,
       RemoteOK, Trees, Caches, WholeOK, CacheOK, OkOK, NewMeansNew, UndisturbedOk, DoneIsExact,
       DebsOK, Deb
  <2> QED BY <1>1, <2>2, <2>3
<1>18. CASE MakeFails
  <2>1. PlaceOK' /\ SourceOK' /\ NewMeansNew'
    BY <1>18, <1>1, SrcIs, NoneIs, NumbersAre DEF PlaceOK, TypeOK, MakeFails, SourceOK, src,
       NewMeansNew
  <2>2. DebsOK' BY <1>18, <1>1, SrcIs, NoneIs DEF DebsOK, PlaceOK, TypeOK, Deb, MakeFails
  <2>3. DoneIsExact'
    BY <1>18, <1>1, SrcIs, NoneIs DEF DoneIsExact, DebsOK, WholeOK, SourceOK, PlaceOK, TypeOK,
       Deb, src, MakeFails
  <2>4. RemoteOK' /\ WholeOK' /\ CacheOK' /\ OkOK' /\ UndisturbedOk'
    BY <1>18, <1>1, SrcIs, NoneIs, NumbersAre DEF RemoteOK, SourceOK, PlaceOK, TypeOK, src,
       Trees, Caches, MakeFails, WholeOK, CacheOK, OkOK, UndisturbedOk
  <2> QED BY <1>1, <2>1, <2>2, <2>3, <2>4
<1>19. CASE Collect
  <2>1. PlaceOK' /\ SourceOK' /\ NewMeansNew'
    BY <1>19, <1>1, SrcIs, NoneIs, NumbersAre DEF PlaceOK, TypeOK, Collect, SourceOK, src,
       NewMeansNew
  <2>2. DebsOK' BY <1>19, <1>1, SrcIs, NoneIs DEF DebsOK, PlaceOK, TypeOK, Deb, Collect
  <2>3. DoneIsExact'
    BY <1>19, <1>1, SrcIs, NoneIs DEF DoneIsExact, DebsOK, WholeOK, SourceOK, PlaceOK, TypeOK,
       Deb, src, Collect
  <2>4. RemoteOK' /\ WholeOK' /\ CacheOK' /\ OkOK' /\ UndisturbedOk'
    BY <1>19, <1>1, SrcIs, NoneIs, NumbersAre DEF RemoteOK, SourceOK, PlaceOK, TypeOK, src,
       Trees, Caches, Collect, WholeOK, CacheOK, OkOK, UndisturbedOk
  <2> QED BY <1>1, <2>1, <2>2, <2>3, <2>4
<1>20. CASE MoveAside
  <2>1. PlaceOK' /\ SourceOK' /\ NewMeansNew'
    BY <1>20, <1>1, SrcIs, NoneIs, NumbersAre DEF PlaceOK, TypeOK, MoveAside, SourceOK, src,
       NewMeansNew
  <2>2. DebsOK' BY <1>20, <1>1, SrcIs, NoneIs DEF DebsOK, PlaceOK, TypeOK, Deb, MoveAside
  <2>3. DoneIsExact'
    BY <1>20, <1>1, SrcIs, NoneIs DEF DoneIsExact, DebsOK, WholeOK, SourceOK, PlaceOK, TypeOK,
       Deb, src, MoveAside
  <2>4. RemoteOK' /\ WholeOK' /\ CacheOK' /\ OkOK' /\ UndisturbedOk'
    BY <1>20, <1>1, SrcIs, NoneIs, NumbersAre DEF RemoteOK, SourceOK, PlaceOK, TypeOK, src,
       Trees, Caches, MoveAside, WholeOK, CacheOK, OkOK, UndisturbedOk
  <2> QED BY <1>1, <2>1, <2>2, <2>3, <2>4
<1>21. CASE MoveIn
  <2>1. DoneIsExact'
    <3> SUFFICES ASSUME made' = Kinds, ~torn'
                 PROVE  output'[board'] = {Deb(k) : k \in Kinds}' /\ kernel'.whole
      BY DEF DoneIsExact
    <3>1. /\ pc = "move" /\ made = Kinds /\ ~torn /\ UNCHANGED <<kernel, board>>
          /\ output' = [output EXCEPT ![board] = @ \union debs]
      BY <1>21 DEF MoveIn
    <3>2. debs = {Deb(k) : k \in Kinds} /\ output[board] = {} /\ kernel.whole
      BY <3>1 DEF DebsOK, SourceOK, WholeOK
    <3>3. output'[board] = {Deb(k) : k \in Kinds} BY <3>1, <3>2 DEF TypeOK
    <3>4. \A k \in Kinds : Deb(k)' = Deb(k) BY <3>1 DEF Deb
    <3> QED BY <3>1, <3>2, <3>3, <3>4
  <2>2. PlaceOK' /\ SourceOK' /\ RemoteOK' /\ WholeOK' /\ CacheOK' /\ OkOK' /\ DebsOK' /\ NewMeansNew' /\ UndisturbedOk'
    BY <1>21, <1>1, SrcIs, NoneIs, NumbersAre DEF PlaceOK, TypeOK, MoveIn, SourceOK, src,
       RemoteOK, Trees, Caches, WholeOK, CacheOK, OkOK, DebsOK, Deb, NewMeansNew, UndisturbedOk
  <2> QED BY <1>1, <2>1, <2>2
<1>22. CASE Purge
  <2>1. PlaceOK' /\ SourceOK' /\ RemoteOK' /\ WholeOK' /\ CacheOK' /\ OkOK' /\ DebsOK' /\ NewMeansNew' /\ UndisturbedOk' /\ DoneIsExact'
    BY <1>22, <1>1, SrcIs, NoneIs, NumbersAre DEF PlaceOK, TypeOK, Purge, SourceOK, src,
       RemoteOK, Trees, Caches, WholeOK, CacheOK, OkOK, DebsOK, Deb, NewMeansNew, UndisturbedOk,
       DoneIsExact
  <2> QED BY <1>1, <2>1
<1>23. CASE \E s \in GitSources : MakeDeep(s)
  <2>1. PICK s \in GitSources : MakeDeep(s) BY <1>23
  <2>2. RemoteOK'
    <3>1. cache[s] \in Caches /\ cache'[s].commit = cache[s].commit /\ \A r \in GitSources : r # s => cache'[r] = cache[r]
      BY <2>1 DEF TypeOK, Caches, MakeDeep
    <3> QED BY <2>1, <3>1, NoneIs DEF RemoteOK, MakeDeep
  <2>3. CacheOK'
    <3>1. cache[s] \in Caches /\ ~cache'[s].shallow /\ \A r \in GitSources : r # s => cache'[r] = cache[r]
      BY <2>1 DEF TypeOK, Caches, MakeDeep
    <3>2. UNCHANGED <<tree, torn, src, pc>> BY <2>1 DEF MakeDeep, src
    <3> QED BY <3>1, <3>2 DEF CacheOK
  <2>4. PlaceOK' /\ SourceOK' /\ WholeOK' /\ OkOK' /\ DebsOK' /\ NewMeansNew' /\ UndisturbedOk' /\ DoneIsExact'
    BY <2>1, <1>1, SrcIs, NoneIs, NumbersAre DEF PlaceOK, TypeOK, MakeDeep, SourceOK, src,
       WholeOK, OkOK, CacheOK, RemoteOK, Trees, Caches, DebsOK, Deb, NewMeansNew, UndisturbedOk,
       DoneIsExact
  <2> QED BY <1>1, <2>2, <2>3, <2>4
<1>24. CASE RemotePush
  <2>1. RemoteOK'
    <3>1. UNCHANGED <<tree, cache, src, pc, hash>> /\ remote' = remote + 1
      BY <1>24 DEF RemotePush, src
    <3>2. (\A x \in Trees : x.commit \in Nat) /\ (\A x \in Caches : x.commit \in Nat)
      BY DEF Trees, Caches, Commits
    <3>3. /\ \A s \in Sources : tree[s] # None => tree[s].commit \in Nat
          /\ \A s \in GitSources : cache[s] # None => cache[s].commit \in Nat
      BY <3>2 DEF TypeOK
    <3> QED BY <3>1, <3>3, NumbersAre DEF RemoteOK
  <2>2. DoneIsExact'
    <3>1. UNCHANGED <<result, made, torn, output, board, kernel>> BY <1>24 DEF RemotePush
    <3> QED BY <3>1 DEF DoneIsExact, Deb
  <2>3. PlaceOK' /\ SourceOK' /\ NewMeansNew'
    BY <1>24, <1>1, SrcIs, NoneIs, NumbersAre DEF PlaceOK, TypeOK, RemotePush, SourceOK, src,
       NewMeansNew
  <2>4. DebsOK' BY <1>24, <1>1, SrcIs, NoneIs DEF DebsOK, PlaceOK, TypeOK, Deb, RemotePush
  <2>5. WholeOK' /\ CacheOK' /\ OkOK' /\ UndisturbedOk'
    BY <1>24, <1>1, SrcIs, NoneIs, NumbersAre DEF WholeOK, SourceOK, TypeOK, src, RemotePush,
       CacheOK, RemoteOK, PlaceOK, Trees, Caches, OkOK, UndisturbedOk
  <2> QED BY <1>1, <2>1, <2>2, <2>3, <2>4, <2>5
<1>25. CASE Interrupt
  <2>1. RemoteOK'
    <3>1. UNCHANGED <<cache, remote>> /\ pc' = "idle" /\ src \in Sources BY <1>25, SrcIs DEF Interrupt
    <3>2. tree[src] \in Trees \union {None} /\ Part(tree[src]).commit = IF tree[src] = None THEN Head ELSE tree[src].commit
      BY <3>1 DEF TypeOK, Part
    <3>3. Part(tree[src]).commit <= remote BY <3>1, <3>2, NumbersAre DEF RemoteOK
    <3>4. tree' = tree \/ tree' = [tree EXCEPT ![src] = Part(tree[src])] BY <1>25 DEF Interrupt
    <3> QED BY <3>1, <3>3, <3>4 DEF TypeOK, RemoteOK
  <2>2. PlaceOK' /\ SourceOK' /\ WholeOK' /\ CacheOK' /\ OkOK' /\ DebsOK' /\ NewMeansNew' /\ UndisturbedOk' /\ DoneIsExact'
    BY <1>25, <1>1, SrcIs, NoneIs, NumbersAre DEF PlaceOK, TypeOK, Interrupt, Part, SourceOK,
       src, WholeOK, CacheOK, RemoteOK, Trees, Caches, OkOK, DebsOK, Deb, NewMeansNew,
       UndisturbedOk, DoneIsExact
  <2> QED BY <1>1, <2>1, <2>2
<1> QED BY <1>2, <1>3, <1>4, <1>5, <1>6, <1>7, <1>8, <1>9, <1>10, <1>11, <1>12, <1>13, <1>14, <1>15,
     <1>16, <1>17, <1>18, <1>19, <1>20, <1>21, <1>22, <1>23, <1>24, <1>25 DEF Next

\* A fresh checkout satisfies the invariant.
LEMMA KernelBegins == Init => KernelInv
<1> SUFFICES ASSUME Init PROVE KernelInv OBVIOUS
<1>1. TypeOK
  <2>1. remote \in Commits /\ hash \in 0..remote /\ interrupts \in 0..MaxInterrupts
    <3>1. remote = 1 /\ hash = 0 /\ interrupts = 0 BY DEF Init
    <3> QED BY <3>1, SourceAssumption DEF Commits
  <2>2. torn \in BOOLEAN /\ said \in {"", "ok", "NEW"} /\ made \in SUBSET Kinds /\ pc \in Steps
    BY DEF Init, Steps
  <2> QED BY <2>1, <2>2 DEF Init, TypeOK
<1>2. src \in Sources BY <1>1, SrcIs
<1>3. PlaceOK /\ SourceOK /\ DebsOK
  BY <1>2 DEF Init, PlaceOK, SourceOK, DebsOK, Asking, Copied, Packing
<1>4. RemoteOK /\ WholeOK /\ CacheOK /\ OkOK BY DEF Init, RemoteOK, WholeOK, CacheOK, OkOK
<1>5. NewMeansNew /\ UndisturbedOk /\ DoneIsExact BY DEF Init, NewMeansNew, UndisturbedOk, DoneIsExact
<1> QED BY <1>1, <1>3, <1>4, <1>5 DEF KernelInv

\* The invariant holds throughout.
LEMMA KernelAlways == Spec => []KernelInv
  BY KernelBegins, KernelStep, PTL DEF Spec

\* KernelBuild's type invariant.
THEOREM KernelTyping == Spec => []TypeOK
  BY KernelAlways, PTL DEF KernelInv

\* git:88-105: for any number of killed builds and of commits, "NEW!" means a
\* whole tree at least as new as the commit that is named.
THEOREM NewIsNew == Spec => []NewMeansNew
  BY KernelAlways, PTL DEF KernelInv

\* git:88-93: as long as no build was killed since the last purge, "ok" means
\* a whole working copy at the commit that is named, also when boards share a
\* tree and the branch moves between the question and the clone.
THEOREM OkIsExact == Spec => []UndisturbedOk
  BY KernelAlways, PTL DEF KernelInv

\* scripts/linux:55-66: under the same condition a build that went through
\* leaves its own image and headers in output/<board> and nothing else.
THEOREM OutputIsExact == Spec => []DoneIsExact
  BY KernelAlways, PTL DEF KernelInv
=============================================================================
