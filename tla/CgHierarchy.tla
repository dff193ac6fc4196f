----------------------------- MODULE CgHierarchy -----------------------------
(***************************************************************************)
(* The per-container cgroup hierarchy of src/lib/cgroup.c: cg_new_cgroup() *)
(* creates the container's directory under every controller of cg_ctl_map *)
(* whose mount point resolves, undoing the earlier controllers when one    *)
(* fails; cg_destroy_cgroup() removes them all with rm_tree().  The mount  *)
(* point of a controller is found by cg_get_ctl() on first use and cached  *)
(* for the life of the process (CgMountResolver); the directories outlive *)
(* the process.  cg_attach_task() writes a task's pid to the tasks file of *)
(* every directory; a directory holding a task cannot be removed.          *)
(* rm_tree() is taken by its outcomes, as CgTreeRemoval establishes them.  *)
(***************************************************************************)
EXTENDS CgMountResolver

CONSTANTS
    Kind,       \* Kind[i]: "prvt", "slice" or "scope" (get_cgroup_name)
    Excepts     \* the cg_subsys_except arguments of cg_attach_task: the
                \* index of the excepted controller, or 0 for NULL

ASSUME HierarchyAssumption ==
    /\ Kind \in [Ctl -> {"prvt", "slice", "scope"}]
    /\ Excepts \subseteq 0..N
    /\ Faults \subseteq {"mounts", "mkdir", "rmtree", "rootbusy", "crash",
                        "attach"}

\* get_cgroup_name(): the container's directory of controller i, identified
\* by the mount point and the naming rule (co-mounted controllers share it)
CgDir(i) == <<Mount[i], Kind[i]>>

\* the directories a complete hierarchy consists of
AllDirs == {CgDir(i) : i \in {j \in Ctl : Mount[j] # NoMount}}

VARIABLES
    dirs,       \* the container's cgroup directories that exist
    pc,         \* "idle", "create", "rollback", "destroy", "attach"
    i,          \* the loop index of the running call
    ret,        \* the value the running call will return
    lastOp,     \* the last call that returned to this process, or "none"
    lastRet,    \* what it returned
    made,       \* directories the running create made (absent before)
    rbLeft,     \* a rollback rm_tree left its directory in place
    dLeft,      \* the running destroy passed a directory without an error:
                \* cg_get_ctl returned -1, or rm_tree returned 0 and left it
    tasks,      \* the directories the container's task is attached to
    exc,        \* the cg_subsys_except of the last cg_attach_task
    placed      \* the directories the last cg_attach_task wrote the pid to

attachVars == <<tasks, exc, placed>>

vars == <<cache, dirs, pc, i, ret, lastOp, lastRet, made, rbLeft, dLeft,
          attachVars>>

-----------------------------------------------------------------------------
(* Helpers                                                                 *)

(***************************************************************************)
(* rm_tree(path) by its outcomes: a missing directory is success; the tree *)
(* is removed; the final rmdir(path) is refused with EBUSY and ignored,    *)
(* while a task is attached or its references drain ("rootbusy"); or the  *)
(* walk fails, having removed the root or not.                             *)
(***************************************************************************)
RmTree(d, rc) ==
    \/ /\ d \notin dirs
       /\ rc = 0
       /\ UNCHANGED dirs
    \/ /\ d \in dirs \ tasks
       /\ rc = 0
       /\ dirs' = dirs \ {d}
    \/ /\ d \in dirs
       /\ "rootbusy" \in Faults \/ d \in tasks
       /\ rc = 0
       /\ UNCHANGED dirs
    \/ /\ d \in dirs
       /\ "rmtree" \in Faults
       /\ rc = -1
       /\ dirs' \in {dirs, dirs \ ({d} \ tasks)}

\* cg_destroy(ctid, ctl): nothing to do unless the mount point is known (as
\* it is after the cg_get_ctl of this step); rc = 1 is VZCTL_E_SYSTEM
CgDestroy(c, rc) ==
    IF cache'[c] = NoPath
       THEN rc = 0 /\ UNCHANGED dirs
       ELSE \E r \in {0, -1} :
               /\ RmTree(CgDir(c), r)
               /\ rc = IF r # 0 THEN 1 ELSE 0

\* mutation test: a cg_get_ctl() error is skipped like a missing mount
CreateSkipsAll(r) == r # 0

\* "Skip non exists": cg_new_cgroup goes on past a controller without mount
CreateSkips(r) == r = 1

\* mutation test: the rollback starts one controller too low
RollbackFromLow(c) == c - 2

\* "for (i = i - 1; ...)": the rollback starts below the failed controller
RollbackFrom(c) == c - 1

\* mutation test: the rollback loop stops before the first controller
RollbackOverEarly(c) == c < 2

\* "i >= 0" fails: the rollback loop is over
RollbackOver(c) == c < 1

\* mutation test: a cg_get_ctl() error is skipped by cg_attach_task too
AttachSkipsAll(r) == r # 0

\* "Skip non exists": a controller without mount, or a directory whose
\* tasks file open() reports ENOENT (write_data returns 1), is skipped
AttachSkips(r) == r = 1

\* mutation test: the rm_tree result is dropped
DestroyResultIgnored(rc) == ret

\* "ret |= cg_destroy(ctid, ctl)": a failed cg_destroy makes the result nonzero
DestroyResult(rc) == IF rc # 0 THEN 1 ELSE ret

-----------------------------------------------------------------------------
Init ==
    /\ cache = [c \in Ctl |-> NoPath]
    /\ dirs = {}
    /\ pc = "idle"
    /\ i = 1
    /\ ret = 0
    /\ lastOp = "none"
    /\ lastRet = 0
    /\ made = {}
    /\ rbLeft = FALSE
    /\ dLeft = FALSE
    /\ tasks = {}
    /\ exc = 0
    /\ placed = {}

\* cg_new_cgroup(ctid) is called
StartCreate ==
    /\ pc = "idle"
    /\ pc' = "create"
    /\ i' = 1
    /\ ret' = 0
    /\ made' = {}
    /\ rbLeft' = FALSE
    /\ UNCHANGED <<cache, dirs, lastOp, lastRet, dLeft, attachVars>>

\* one iteration of the loop of cg_new_cgroup: cg_get_ctl, then cg_create()
\* = make_dir(path, 1), which succeeds on an existing directory
CreateStep ==
    /\ pc = "create"
    /\ i <= N
    /\ \E r \in {-1, 0, 1} :
          /\ GetCtl(i, r)
          /\ \/ /\ r = -1
                /\ ret' = -1
                /\ pc' = "rollback"
                /\ i' = RollbackFrom(i)
                /\ UNCHANGED <<dirs, made>>
             \/ /\ CreateSkips(r)
                /\ i' = i + 1
                /\ UNCHANGED <<dirs, made, pc, ret>>
             \/ /\ r = 0
                /\ dirs' = dirs \cup {CgDir(i)}
                /\ made' = made \cup ({CgDir(i)} \ dirs)
                /\ i' = i + 1
                /\ UNCHANGED <<pc, ret>>
             \/ /\ r = 0
                /\ "mkdir" \in Faults
                /\ CgDir(i) \notin dirs
                /\ ret' = -1
                /\ pc' = "rollback"
                /\ i' = RollbackFrom(i)
                /\ UNCHANGED <<dirs, made>>
    /\ UNCHANGED <<lastOp, lastRet, rbLeft, dLeft, attachVars>>

\* every controller was handled: cg_new_cgroup returns 0
CreateDone ==
    /\ pc = "create"
    /\ i > N
    /\ pc' = "idle"
    /\ lastOp' = "create"
    /\ lastRet' = 0
    /\ UNCHANGED <<cache, dirs, i, ret, made, rbLeft, dLeft, attachVars>>

\* one iteration of the rollback: cg_destroy(ctid, &cg_ctl_map[i]), its
\* result ignored
RollbackStep ==
    /\ pc = "rollback"
    /\ ~RollbackOver(i)
    /\ UNCHANGED cache
    /\ \E rc \in {0, 1} : CgDestroy(i, rc)
    /\ rbLeft' = (rbLeft \/ (cache[i] # NoPath /\ CgDir(i) \in dirs'))
    /\ i' = i - 1
    /\ UNCHANGED <<pc, ret, lastOp, lastRet, made, dLeft, attachVars>>

\* the rollback is over: cg_new_cgroup returns the first error
RollbackDone ==
    /\ pc = "rollback"
    /\ RollbackOver(i)
    /\ pc' = "idle"
    /\ lastOp' = "create"
    /\ lastRet' = ret
    /\ UNCHANGED <<cache, dirs, i, ret, made, rbLeft, dLeft, attachVars>>

\* cg_destroy_cgroup(ctid) is called
StartDestroy ==
    /\ pc = "idle"
    /\ pc' = "destroy"
    /\ i' = 1
    /\ ret' = 0
    /\ dLeft' = FALSE
    /\ UNCHANGED <<cache, dirs, lastOp, lastRet, made, rbLeft, attachVars>>

\* one iteration of cg_destroy_cgroup: a controller for which cg_get_ctl
\* returns anything but 0 is skipped; otherwise rm_tree its directory
DestroyStep ==
    /\ pc = "destroy"
    /\ i <= N
    /\ \E r \in {-1, 0, 1} :
          /\ GetCtl(i, r)
          /\ \/ /\ r # 0
                /\ dLeft' = (dLeft \/ r = -1)
                /\ UNCHANGED <<dirs, ret>>
             \/ /\ r = 0
                /\ \E rc \in {0, 1} :
                      /\ CgDestroy(i, rc)
                      /\ ret' = DestroyResult(rc)
                      /\ dLeft' = (dLeft \/ (rc = 0 /\ CgDir(i) \in dirs'))
    /\ i' = i + 1
    /\ UNCHANGED <<pc, lastOp, lastRet, made, rbLeft, attachVars>>

\* cg_destroy_cgroup returns the aggregated result
DestroyDone ==
    /\ pc = "destroy"
    /\ i > N
    /\ pc' = "idle"
    /\ lastOp' = "destroy"
    /\ lastRet' = ret
    /\ UNCHANGED <<cache, dirs, i, ret, made, rbLeft, dLeft, attachVars>>

\* cg_attach_task(ctid, pid, cg_subsys_except) is called
StartAttach ==
    /\ pc = "idle"
    /\ pc' = "attach"
    /\ i' = 1
    /\ \E e \in Excepts : exc' = e
    /\ placed' = {}
    /\ UNCHANGED <<cache, dirs, ret, lastOp, lastRet, made, rbLeft, dLeft,
                   tasks>>

\* cg_attach_task returns rc to this process
AttachReturn(rc) ==
    /\ pc' = "idle"
    /\ lastOp' = "attach"
    /\ lastRet' = rc

(***************************************************************************)
(* One iteration of cg_attach_task: the excepted controller is skipped;    *)
(* otherwise cg_set_ul(ctid, subsys, "tasks", pid), which is cg_get_ctl    *)
(* and then write_data on the tasks file of the directory.  -1 from either *)
(* returns -1 at once, with the task left in the earlier directories; a   *)
(* failing close() comes after the kernel took the pid.                    *)
(***************************************************************************)
AttachStep ==
    /\ pc = "attach"
    /\ i <= N
    /\ \/ /\ i = exc
          /\ i' = i + 1
          /\ UNCHANGED <<cache, pc, lastOp, lastRet, tasks, placed>>
       \/ /\ i # exc
          /\ \E r \in {-1, 0, 1} :
                /\ GetCtl(i, r)
                /\ \/ /\ r = -1
                      /\ AttachReturn(-1)
                      /\ UNCHANGED <<i, tasks, placed>>
                   \/ /\ AttachSkips(r) \/ (r = 0 /\ CgDir(i) \notin dirs)
                      /\ i' = i + 1
                      /\ UNCHANGED <<pc, lastOp, lastRet, tasks, placed>>
                   \/ /\ r = 0
                      /\ CgDir(i) \in dirs
                      /\ tasks' = tasks \cup {CgDir(i)}
                      /\ placed' = placed \cup {CgDir(i)}
                      /\ i' = i + 1
                      /\ UNCHANGED <<pc, lastOp, lastRet>>
                   \/ /\ r = 0
                      /\ CgDir(i) \in dirs
                      /\ "attach" \in Faults
                      /\ AttachReturn(-1)
                      /\ tasks' \in {tasks, tasks \cup {CgDir(i)}}
                      /\ UNCHANGED <<i, placed>>
    /\ UNCHANGED <<dirs, ret, made, rbLeft, dLeft, exc>>

\* every controller was handled: cg_attach_task returns 0
AttachDone ==
    /\ pc = "attach"
    /\ i > N
    /\ AttachReturn(0)
    /\ UNCHANGED <<cache, dirs, i, ret, made, rbLeft, dLeft, attachVars>>

\* the container's task exits, and the kernel drops it from its cgroups
TaskExit ==
    /\ tasks # {}
    /\ tasks' = {}
    /\ UNCHANGED <<cache, dirs, pc, i, ret, lastOp, lastRet, made, rbLeft,
                   dLeft, exc, placed>>

\* the process exits between calls, or is killed during one ("crash"); the
\* next process starts with no mount point cached and no call returned
Restart ==
    /\ pc = "idle" \/ "crash" \in Faults
    /\ cache' = [c \in Ctl |-> NoPath]
    /\ pc' = "idle"
    /\ lastOp' = "none"
    /\ UNCHANGED <<dirs, i, ret, lastRet, made, rbLeft, dLeft, attachVars>>

Next ==
    \/ StartCreate \/ CreateStep \/ CreateDone
    \/ RollbackStep \/ RollbackDone
    \/ StartDestroy \/ DestroyStep \/ DestroyDone
    \/ StartAttach \/ AttachStep \/ AttachDone
    \/ TaskExit \/ Restart

Spec == Init /\ [][Next]_vars

-----------------------------------------------------------------------------
(* Properties                                                              *)

TypeOK ==
    /\ cache \in [Ctl -> MountPaths \cup {NoPath}]
    /\ dirs \subseteq AllDirs
    /\ pc \in {"idle", "create", "rollback", "destroy", "attach"}
    /\ i \in 0..N + 1
    /\ ret \in {-1, 0, 1}
    /\ lastOp \in {"none", "create", "destroy", "attach"}
    /\ lastRet \in {-1, 0, 1}
    /\ made \subseteq AllDirs
    /\ rbLeft \in BOOLEAN
    /\ dLeft \in BOOLEAN
    /\ tasks \subseteq AllDirs
    /\ exc \in Excepts \cup {0}
    /\ placed \subseteq AllDirs

\* spec 4.3: when cg_new_cgroup returns 0 the container has its directory
\* under every controller whose mount point exists
CreateOkMeansAll ==
    (pc = "idle" /\ lastOp = "create" /\ lastRet = 0) => AllDirs \subseteq dirs

\* spec 4.3: when cg_new_cgroup fails, every directory that call made has
\* been removed again, unless an rm_tree of the rollback left it
CreateFailedClean ==
    (pc = "idle" /\ lastOp = "create" /\ lastRet # 0 /\ ~rbLeft) =>
        made \cap dirs = {}

\* spec 8: "create then destroy leaves no directories": when
\* cg_destroy_cgroup returns 0 no directory of the container is left
DestroyOkMeansGone ==
    (pc = "idle" /\ lastOp = "destroy" /\ lastRet = 0) => dirs = {}

\* cg_destroy_cgroup reports every failure it sees: when it returns 0 and
\* no controller was skipped on -1 and no rm_tree claimed success over a
\* directory that is still there, the container has no directory left
\* (co-mounted controllers and rm_tree errors included)
DestroyReported ==
    (pc = "idle" /\ lastOp = "destroy" /\ lastRet = 0 /\ ~dLeft) => dirs = {}

\* when cg_attach_task returns 0 it has written the pid to the tasks file
\* of every directory the container has under a controller other than the
\* excepted one (a directory shared with the excepted controller included)
AttachOkMeansAttached ==
    (pc = "idle" /\ lastOp = "attach" /\ lastRet = 0) =>
        \A j \in Ctl :
            (j # exc /\ Mount[j] # NoMount /\ CgDir(j) \in dirs) =>
                CgDir(j) \in placed

-----------------------------------------------------------------------------
(* The inductive invariant behind the four properties above: what each   *)
(* loop has done for the controllers before i.                             *)

\* a process caches only the mount point /proc/mounts lists
CacheSound == \A c \in Ctl : cache[c] = NoPath \/ cache[c] = Mount[c]

\* cg_new_cgroup has a directory for every mounted controller before i, and
\* each directory it made belongs to a controller before i that it resolved
CreateProgress ==
    pc = "create" =>
        /\ ret = 0
        /\ i \in 1..N + 1
        /\ \A j \in 1..i - 1 : Mount[j] # NoMount => CgDir(j) \in dirs
        /\ \A d \in made : \E j \in 1..i - 1 : CgDir(j) = d /\ cache[j] # NoPath

\* every directory the failed create made that is still there belongs to a
\* resolved controller the rollback has yet to destroy, unless an rm_tree
\* of the rollback left its directory
RollbackProgress ==
    pc = "rollback" =>
        /\ ret = -1
        /\ i \in 0..N
        /\ ~rbLeft =>
              \A d \in made \cap dirs :
                  \E j \in 1..i : CgDir(j) = d /\ cache[j] # NoPath

\* with no error seen, cg_destroy_cgroup has removed the directory of every
\* mounted controller before i
DestroyProgress ==
    pc = "destroy" =>
        /\ i \in 1..N + 1
        /\ (ret = 0 /\ ~dLeft) =>
              \A j \in 1..i - 1 : Mount[j] # NoMount => CgDir(j) \notin dirs

\* cg_attach_task has put the pid in the directory of every controller
\* before i but the excepted one
AttachProgress ==
    pc = "attach" =>
        /\ i \in 1..N + 1
        /\ \A j \in 1..i - 1 :
              (j # exc /\ Mount[j] # NoMount /\ CgDir(j) \in dirs) =>
                  CgDir(j) \in placed

\* the conjunction is preserved by every step of cg_new_cgroup,
\* cg_destroy_cgroup, cg_attach_task, a task's exit and a restart
HInv ==
    /\ TypeOK
    /\ CacheSound
    /\ CreateProgress
    /\ RollbackProgress
    /\ DestroyProgress
    /\ AttachProgress
    /\ CreateOkMeansAll
    /\ CreateFailedClean
    /\ DestroyReported
    /\ AttachOkMeansAttached

=============================================================================
