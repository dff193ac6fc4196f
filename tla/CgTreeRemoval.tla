---------------------------- MODULE CgTreeRemoval ----------------------------
(***************************************************************************)
(* rm_tree(), goto_next_dir() and rmdir_retry() of src/lib/cgroup.c: the   *)
(* non-recursive removal of a container's cgroup directory subtree.        *)
(*                                                                         *)
(* The file system is a fixed tree of directory inodes (Dirs) given by its *)
(* ".." links (Par), each directory's entry name in its parent (DirName)   *)
(* and its depth (Depth); "present" is the set of inodes that still exist. *)
(* rm_tree holds two directory handles, fd ("current") and parentfd, the   *)
(* name of the entry it last descended into and a depth counter "level".   *)
(* The kernel may refuse to remove a directory whose tasks have not yet    *)
(* drained (busy), and another process may remove empty directories of    *)
(* the subtree while rm_tree runs.  Which failures the environment can     *)
(* produce is the constant Faults.                                         *)
(***************************************************************************)
EXTENDS Integers, FiniteSets

CONSTANTS
    Dirs,       \* directory inodes of one cgroup file system
    Root,       \* the directory rm_tree(path) is asked to remove
    Par,        \* Par[d]: the directory that ".." of d refers to
    DirName,    \* DirName[d]: the entry name of d in Par[d]
    Names,      \* directory entry names
    Depth,      \* Depth[d]: number of ".." steps from d to the top
    Sub,        \* Root and every directory below it
    NoFd,       \* the handle value -1
    NoName,     \* the empty name ""
    Faults      \* failures the environment may produce

TopDirs == {d \in Dirs : Par[d] = d}

ASSUME TreeAssumption ==
    /\ Root \in Dirs
    /\ Par \in [Dirs -> Dirs]
    /\ Depth \in [Dirs -> Nat]
    /\ DirName \in [Dirs -> Names]
    /\ \A d \in Dirs : d \in TopDirs <=> Depth[d] = 0
    /\ \A d \in Dirs \ TopDirs : Depth[Par[d]] + 1 = Depth[d]
    /\ Root \notin TopDirs
    \* entry names are unique within a directory
    /\ \A c1, c2 \in Dirs \ TopDirs :
          (Par[c1] = Par[c2] /\ DirName[c1] = DirName[c2]) => c1 = c2
    \* Sub is the subtree rooted at Root
    /\ Sub = {d \in Dirs : d = Root \/ (Depth[d] > Depth[Root] /\ Par[d] \in Sub)}
    /\ NoFd \notin Dirs
    /\ NoName \notin Names
    /\ Faults \subseteq {"open", "stat", "ebusy", "external"}

VARIABLES
    present,    \* directories that exist
    busy,       \* directories the kernel still refuses to remove (EBUSY)
    pc,         \* "open", "walk", "finish" (after the loop), "done"
    fd,         \* the directory the handle fd refers to
    parentfd,   \* the directory the handle parentfd refers to
    name,       \* name[]: entry of the last descent, or ""
    level,      \* the depth counter of rm_tree
    ret,        \* the value rm_tree returns
    leaked      \* a stream opened by fdopendir was never closed

vars == <<present, busy, pc, fd, parentfd, name, level, ret, leaked>>

-----------------------------------------------------------------------------
(* Helpers                                                                 *)

\* the subdirectories of d that a readdir() of d lists
Children(d) == {c \in present \ TopDirs : Par[c] = d}

\* d can be removed by unlinkat(AT_REMOVEDIR): it has no subdirectory
IsEmpty(d) == Children(d) = {}

\* the directories the entry nm of directory dir names
Entry(dir, nm) == {c \in Children(dir) : DirName[c] = nm}

\* mutation test: the identity check never matches
IsWalkRootNever(d) == FALSE

\* the fstat() identity check "st.st_ino == pst.st_ino" of rm_tree
IsWalkRoot(d) == d = Root

\* mutation test: the return code of rmdir_retry is ignored
AscendResultIgnored(rc) == ret

\* what rm_tree records as its result after rmdir_retry returned rc
AscendResult(rc) == IF rc = 0 THEN ret ELSE -1

\* mutation test: goto_next_dir does not copy the entry name to out
EntryNameLost(c) == NoName

\* the name goto_next_dir copies to out for the entry it entered
EntryName(c) == DirName[c]

\* mutation test: the name is not cleared after the ascent
RotateKeepName ==
    fd' = parentfd /\ parentfd' = Par[parentfd] /\ name' = name

\* mutation test: parentfd is overwritten with ".." before fd takes it
RotateMisordered ==
    fd' = Par[parentfd] /\ parentfd' = Par[parentfd] /\ name' = NoName

\* the ascent "close(fd); fd = parentfd; parentfd = pfd;" where pfd is
\* openat(parentfd, ".."), followed later by name[0] = '\0'
Rotate ==
    fd' = parentfd /\ parentfd' = Par[parentfd] /\ name' = NoName

(***************************************************************************)
(* rmdir_retry(dir, nm): unlinkat(dir, nm, AT_REMOVEDIR), retried with a   *)
(* doubling sleep while it fails with EBUSY until 30 s have been slept.    *)
(* A busy directory either drains within the budget or, when "ebusy" is a  *)
(* possible fault, stays busy past it.  ENOENT and ENOTEMPTY are fatal.    *)
(***************************************************************************)
RmdirRetry(dir, nm, rc) ==
    \/ \E t \in Entry(dir, nm) :
          /\ IsEmpty(t)
          /\ present' = present \ {t}
          /\ busy' = busy \ {t}
          /\ rc = 0
    \/ \E t \in Entry(dir, nm) :
          /\ IsEmpty(t)
          /\ t \in busy
          /\ "ebusy" \in Faults
          /\ UNCHANGED <<present, busy>>
          /\ rc = -1
    \/ /\ \A t \in Entry(dir, nm) : ~IsEmpty(t)
       /\ UNCHANGED <<present, busy>>
       /\ rc = -1

-----------------------------------------------------------------------------
(* rm_tree                                                                 *)

Init ==
    /\ present \in SUBSET Dirs
    /\ Dirs \ Sub \subseteq present
    /\ \A d \in present : Par[d] \in present
    /\ busy \in SUBSET (present \cap Sub)
    /\ pc = "open"
    /\ fd = NoFd
    /\ parentfd = NoFd
    /\ name = NoName
    /\ level = 0
    /\ ret = 0
    /\ leaked = FALSE

\* open(path, O_DIRECTORY) and fstat(): a missing directory is success,
\* any other failure returns -1 before the walk starts
Open ==
    /\ pc = "open"
    /\ \/ /\ Root \notin present
          /\ pc' = "done"
          /\ UNCHANGED <<fd, ret>>
       \/ /\ Root \in present
          /\ pc' = "walk"
          /\ fd' = Root
          /\ UNCHANGED ret
       \/ /\ "open" \in Faults
          /\ pc' = "done"
          /\ ret' = -1
          /\ UNCHANGED fd
    /\ UNCHANGED <<present, busy, parentfd, name, level, leaked>>

\* goto_next_dir() returns 0: the first subdirectory readdir lists (in no
\* particular order) is opened; the old parent handle is closed, the old
\* current handle becomes the parent; rm_tree increments level
Descend ==
    /\ pc = "walk"
    /\ \E c \in Children(fd) :
          /\ fd' = c
          /\ parentfd' = fd
          /\ name' = EntryName(c)
    /\ level' = level + 1
    /\ leaked' = TRUE
    /\ UNCHANGED <<present, busy, pc, ret>>

\* goto_next_dir() returns -1: fdopendir() or a non-ENOENT openat() failed
NextDirFails ==
    /\ pc = "walk"
    /\ "open" \in Faults
    /\ pc' = "finish"
    /\ ret' = -1
    /\ leaked' \in {leaked, TRUE}
    /\ UNCHANGED <<present, busy, fd, parentfd, name, level>>

\* the walk is back at the root: "break"
AscendAtRoot ==
    /\ IsWalkRoot(fd)
    /\ pc' = "finish"
    /\ UNCHANGED <<present, busy, fd, parentfd, name, level, ret>>

\* openat(parentfd, "..") fails: ret = -1 and "break"
AscendFails ==
    /\ ~IsWalkRoot(fd)
    /\ parentfd \notin present \/ "open" \in Faults
    /\ pc' = "finish"
    /\ ret' = -1
    /\ UNCHANGED <<present, busy, fd, parentfd, name, level>>

\* one level up: the handles rotate, the directory just left is removed
\* by rmdir_retry(fd, name) if a name was recorded, the name is cleared and
\* level decremented; the loop goes on while level >= 0 and nothing failed
AscendUp ==
    /\ ~IsWalkRoot(fd)
    /\ parentfd \in present
    /\ Rotate
    /\ level' = level - 1
    /\ \E rc \in {0, -1} :
          /\ IF name # NoName
                THEN RmdirRetry(fd', name, rc)
                ELSE rc = 0 /\ UNCHANGED <<present, busy>>
          /\ ret' = AscendResult(rc)
          /\ pc' = IF rc # 0 \/ level - 1 < 0 THEN "finish" ELSE "walk"

\* goto_next_dir() returns 1: no subdirectory could be entered (an
\* fstatat() failure other than ENOENT skips the entry); its stream is
\* left open
Ascend ==
    /\ pc = "walk"
    /\ IsEmpty(fd) \/ "stat" \in Faults
    /\ leaked' = TRUE
    /\ AscendAtRoot \/ AscendFails \/ AscendUp

\* after the loop: both handles are closed and rmdir(path) is tried once;
\* its failure is ignored
Finish ==
    /\ pc = "finish"
    /\ IF Root \in present /\ IsEmpty(Root) /\ Root \notin busy
          THEN present' = present \ {Root}
          ELSE UNCHANGED present
    /\ pc' = "done"
    /\ UNCHANGED <<busy, fd, parentfd, name, level, ret, leaked>>

\* rm_tree has returned
Returned ==
    /\ pc = "done"
    /\ UNCHANGED vars

-----------------------------------------------------------------------------
(* The environment                                                         *)

\* the kernel releases the last task reference of a directory
Drain(d) ==
    /\ pc # "done"
    /\ d \in busy
    /\ busy' = busy \ {d}
    /\ UNCHANGED <<present, pc, fd, parentfd, name, level, ret, leaked>>

\* another process removes an empty directory of the subtree
ExternalRmdir(d) ==
    /\ "external" \in Faults
    /\ pc \in {"walk", "finish"}
    /\ d \in present \cap Sub
    /\ IsEmpty(d)
    /\ d \notin busy
    /\ present' = present \ {d}
    /\ UNCHANGED <<busy, pc, fd, parentfd, name, level, ret, leaked>>

RmTree == Open \/ Descend \/ NextDirFails \/ Ascend \/ Finish

Next ==
    \/ RmTree
    \/ Returned
    \/ \E d \in Dirs : Drain(d) \/ ExternalRmdir(d)

\* rm_tree is a sequential loop that runs until it returns
Spec == Init /\ [][Next]_vars /\ WF_vars(RmTree)

-----------------------------------------------------------------------------
(* Properties                                                              *)

TypeOK ==
    /\ present \subseteq Dirs
    /\ busy \subseteq Dirs
    /\ pc \in {"open", "walk", "finish", "done"}
    /\ fd \in Dirs \cup {NoFd}
    /\ parentfd \in Dirs \cup {NoFd}
    /\ name \in Names \cup {NoName}
    /\ level \in Nat
    /\ ret \in {0, -1}
    /\ leaked \in BOOLEAN

\* rm_tree never removes a directory outside the subtree it was given: the
\* ".." hand-off and the name-relative unlinkat always act inside Root
OutsideIntact == \A d \in Dirs \ Sub : d \in present

\* during the walk the two handles are a directory of the subtree and its
\* parent, level is the depth of fd below Root, and a recorded name is the
\* entry of fd in parentfd, so rmdir_retry(fd, name) after an ascent
\* removes exactly the directory just left
WalkConsistent ==
    pc = "walk" =>
        /\ fd \in Sub
        /\ level = Depth[fd] - Depth[Root]
        /\ fd # Root => parentfd = Par[fd]
        /\ name # NoName => fd # Root /\ name = DirName[fd]

\* when rm_tree returns 0, nothing below the root is left, and the root
\* itself is left only if the kernel still held it busy
SuccessMeansEmpty ==
    (pc = "done" /\ ret = 0) =>
        /\ \A d \in Sub \ {Root} : d \notin present
        /\ Root \in present => Root \in busy

\* before the walk starts nothing has been recorded
OpenClean == pc = "open" => level = 0 /\ name = NoName

\* the inductive invariant behind OutsideIntact: the handles stay a
\* directory of the subtree and its parent, so every unlinkat it issues
\* names the directory just left, which lies in the subtree
IInv == TypeOK /\ OutsideIntact /\ WalkConsistent /\ OpenClean

\* a directory that exists has its parent: rm_tree, the kernel and the
\* other processes only ever remove a directory with no subdirectory
ParClosed == \A d \in present \ TopDirs : Par[d] \in present

\* a walk that ended with ret 0 has left the root with no subdirectory,
\* and the single rmdir(path) after the loop leaves the root only if busy
EmptyAtEnd ==
    /\ (pc = "finish" /\ ret = 0) => IsEmpty(Root)
    /\ (pc = "done" /\ ret = 0) =>
          IsEmpty(Root) /\ (Root \in present => Root \in busy)

\* the inductive invariant behind SuccessMeansEmpty, given IInv: it holds
\* when fstatat never fails, since goto_next_dir then returns 1 only on a
\* directory with no subdirectory
EInv == ParClosed /\ EmptyAtEnd

\* rm_tree returns
Terminates == <>(pc = "done")

\* spec: the walk holds O(1) handles, each released when displaced
StreamsReleased == pc = "done" => ~leaked

=============================================================================
