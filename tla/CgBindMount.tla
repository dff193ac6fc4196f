----------------------------- MODULE CgBindMount -----------------------------
(***************************************************************************)
(* cg_bindmount_cgroup() of src/lib/cgroup.c: the container's private view *)
(* of the cgroup file systems.  It mounts sysfs on <root>/sys and a tmpfs  *)
(* on <root>/sys/fs/cgroup, reads the active controllers from             *)
(* /proc/cgroups, and for every active shared controller (and systemd)     *)
(* remounts the host mount point as a slave, records it in the list head, *)
(* bind-mounts the container's cgroup directory on <root><mount point> and *)
(* adds the per-controller symlinks of a joined mount.  On an error from   *)
(* the loop it unmounts every listed path, then the tmpfs, then sysfs.    *)
(*                                                                         *)
(* A mount point under the container root is "sys", "cg" or the host      *)
(* mount path it mirrors; mnt counts the mounts stacked on it.  umount()  *)
(* removes the top one, and fails with EBUSY while a mount lies below it. *)
(***************************************************************************)
EXTENDS CgMountResolver

CONSTANTS
    Prvt,       \* controllers with is_prvt set
    Systemd,    \* the "systemd" entry, bound whether /proc/cgroups lists it
    Active,     \* controllers /proc/cgroups lists
    Joined      \* mount paths naming several controllers ("cpu,cpuacct")

ASSUME BindMountAssumption ==
    /\ Prvt \subseteq Ctl
    /\ Systemd \in Ctl \ Prvt
    /\ Active \subseteq Ctl
    /\ Joined \subseteq MountPaths
    /\ "sys" \notin MountPaths /\ "cg" \notin MountPaths
    /\ Faults \subseteq {"mounts", "sysdir", "sysfs", "cgdir", "tmpfs",
                         "cgroups", "slave", "nomem", "bind", "symlink"}

\* the mount points under the container root
Points == {"sys", "cg"} \cup MountPaths

\* mounts stacked on one point are counted up to this bound
MaxStack == 2

VARIABLES
    mnt,        \* mnt[p]: number of mounts stacked on point p
    slaved,     \* host mount points remounted MS_SLAVE
    head,       \* the list head of mount paths handled in this call
    pc,         \* the statement the call is at
    i,          \* the loop index
    ret         \* the value the call will return (0, or an error)

vars == <<cache, mnt, slaved, head, pc, i, ret>>

-----------------------------------------------------------------------------
(* Helpers                                                                 *)

\* mount(2) stacks one more mount on p
Mounted(p) == mnt' = [mnt EXCEPT ![p] = IF @ < MaxStack THEN @ + 1 ELSE @]

\* the kernel's refusal of umount(p): a mount lies below the top one of p
HasSubmount(p) ==
    CASE p = "sys" -> mnt["cg"] > 0
      [] p = "cg"  -> \E m \in MountPaths : mnt[m] > 0
      [] OTHER     -> FALSE

\* umount(p) of the function m: the top mount goes unless p is not a mount
\* point (EINVAL) or a mount lies below it (EBUSY); the result is ignored
Umount(m, p) ==
    IF m[p] > 0 /\ ~HasSubmount(p) THEN [m EXCEPT ![p] = @ - 1] ELSE m

\* mutation test: the systemd exception of the /proc/cgroups check is lost
AttemptedListed(c) == c \in Active

\* "!cg_is_systemd(ctl->subsys) && find_str(&cgroups, ...) == NULL": a
\* controller is skipped unless it is systemd or /proc/cgroups lists it
Attempted(c) == c = Systemd \/ c \in Active

\* mutation test: the co-mount check never matches
AlreadyListedNever(m) == FALSE

\* "find_str(head, ctl->mount_path) != NULL": the mount path was handled
AlreadyListed(m) == m \in head

\* "if (mount(NULL, mnt, NULL, MS_SLAVE, NULL)) goto err"
SlaveFailed(fails) == fails

\* mutation test: the mount_path read before cg_get_ctl resolved it
RecordedStale(c) == cache[c]

\* "add_str_param(head, ctl->mount_path)"
Recorded(c) == cache'[c]

\* mutation test: the tmpfs and sysfs are unmounted in the other order
UnwindOrderSwapped == <<"sys", "cg">>

\* the two umount() calls after the list, in the order of the code
UnwindOrder == <<"cg", "sys">>

-----------------------------------------------------------------------------
\* the call starts on a container root with nothing mounted, in a process
\* that may already have resolved some mount points
Init ==
    /\ cache \in [Ctl -> MountPaths \cup {NoPath}]
    /\ \A c \in Ctl : cache[c] \in CacheValues(c)
    /\ mnt = [p \in Points |-> 0]
    /\ slaved = {}
    /\ head = {}
    /\ pc = "sysdir"
    /\ i = 1
    /\ ret = 0

\* the early steps of the code: create <root>/sys, mount sysfs, create
\* <root>/sys/fs/cgroup, mount the tmpfs, read /proc/cgroups; each failure
\* returns at once
Fail(f) ==
    /\ f \in Faults
    /\ pc' = "done"
    /\ ret' = 1
    /\ UNCHANGED <<mnt, slaved, head, i>>

SysDir ==
    /\ pc = "sysdir"
    /\ \/ Fail("sysdir")
       \/ pc' = "sysfs" /\ UNCHANGED <<mnt, slaved, head, i, ret>>
    /\ UNCHANGED cache

SysMount ==
    /\ pc = "sysfs"
    /\ \/ Fail("sysfs")
       \/ pc' = "cgdir" /\ Mounted("sys") /\ UNCHANGED <<slaved, head, i, ret>>
    /\ UNCHANGED cache

CgDir ==
    /\ pc = "cgdir"
    /\ \/ Fail("cgdir")
       \/ pc' = "tmpfs" /\ UNCHANGED <<mnt, slaved, head, i, ret>>
    /\ UNCHANGED cache

CgMount ==
    /\ pc = "tmpfs"
    /\ \/ Fail("tmpfs")
       \/ pc' = "cgroups" /\ Mounted("cg") /\ UNCHANGED <<slaved, head, i, ret>>
    /\ UNCHANGED cache

GetCgroups ==
    /\ pc = "cgroups"
    /\ \/ Fail("cgroups")
       \/ pc' = "loop" /\ UNCHANGED <<mnt, slaved, head, i, ret>>
    /\ UNCHANGED cache

(***************************************************************************)
(* The body of the loop for a controller c to bind, mount path m: the     *)
(* MS_SLAVE remount of the host mount point, add_str_param(head, ...),    *)
(* do_bindmount() (make the two directories, mount MS_BIND) and           *)
(* create_perctl_symlink() for a joined mount path; each failure goes to  *)
(* err with ret set.                                                       *)
(***************************************************************************)
ToErr == pc' = "unwind" /\ ret' = 1

\* do_bindmount(src, dst, flags): create dst and src if missing, then
\* mount(MS_BIND); ok is FALSE when one of the three fails
DoBindmount(m, ok) ==
    IF ok THEN Mounted(m) ELSE "bind" \in Faults /\ UNCHANGED mnt

\* create_perctl_symlink(root, path): nothing to do unless the last path
\* component joins several names; a symlink() failure other than EEXIST
\* fails it
PerctlSymlink(m, ok) == ok \/ ("symlink" \in Faults /\ m \in Joined)

BindController(c, m) ==
    \E slaveFails \in BOOLEAN :
       /\ slaveFails => "slave" \in Faults
       /\ slaved' = IF slaveFails THEN slaved ELSE slaved \cup {m}
       /\ IF SlaveFailed(slaveFails)
             THEN ToErr /\ UNCHANGED <<mnt, head, i>>
             ELSE \/ "nomem" \in Faults /\ ToErr /\ UNCHANGED <<mnt, head, i>>
                  \/ /\ head' = head \cup {Recorded(c)}
                     /\ \E okB, okS \in BOOLEAN :
                           /\ DoBindmount(m, okB)
                           /\ okB => PerctlSymlink(m, okS)
                           /\ IF okB /\ okS
                                 THEN i' = i + 1 /\ ret' = 0 /\ UNCHANGED pc
                                 ELSE ToErr /\ UNCHANGED i

(***************************************************************************)
(* One iteration of the loop over cg_ctl_map; ret holds what cg_get_ctl    *)
(* returned.  A controller whose mount point /proc/mounts lacks (r = 1)   *)
(* but that is bound reaches find_str() and mount() with a NULL           *)
(* mount_path: undefined, the process dies ("segv") or the call fails.    *)
(***************************************************************************)
LoopStep ==
    /\ pc = "loop"
    /\ i <= N
    /\ \E r \in {-1, 0, 1} :
          /\ GetCtl(i, r)
          /\ \/ /\ r = -1
                /\ ToErr
                /\ UNCHANGED <<mnt, slaved, head, i>>
             \/ /\ r # -1
                /\ \/ i \in Prvt
                   \/ ~Attempted(i)
                   \/ r = 0 /\ AlreadyListed(cache'[i])
                /\ i' = i + 1
                /\ ret' = r
                /\ UNCHANGED <<mnt, slaved, head, pc>>
             \/ /\ r = 1
                /\ i \notin Prvt /\ Attempted(i)
                /\ pc' \in {"segv", "unwind"}
                /\ ret' = 1
                /\ UNCHANGED <<mnt, slaved, head, i>>
             \/ /\ r = 0
                /\ i \notin Prvt /\ Attempted(i)
                /\ ~AlreadyListed(cache'[i])
                /\ BindController(i, cache'[i])

\* the loop is over: "err: if (ret)" unwinds if the last ret is nonzero
LoopDone ==
    /\ pc = "loop"
    /\ i > N
    /\ pc' = IF ret # 0 THEN "unwind" ELSE "done"
    /\ UNCHANGED <<cache, mnt, slaved, head, i, ret>>

\* "list_for_each(it, head, list) umount(<root>/<it->str>)"
UnwindList ==
    /\ pc = "unwind"
    /\ mnt' = [p \in Points |-> IF p \in head THEN Umount(mnt, p)[p] ELSE mnt[p]]
    /\ pc' = "umount1"
    /\ UNCHANGED <<cache, slaved, head, i, ret>>

\* the umount() of <root>/sys/fs/cgroup, then of <root>/sys
UnwindSkeleton ==
    /\ pc \in {"umount1", "umount2"}
    /\ LET k == IF pc = "umount1" THEN 1 ELSE 2
       IN  /\ mnt' = Umount(mnt, UnwindOrder[k])
           /\ pc' = IF k = 1 THEN "umount2" ELSE "done"
    /\ UNCHANGED <<cache, slaved, head, i, ret>>

\* the call has returned, or its process died
Returned ==
    /\ pc \in {"done", "segv"}
    /\ UNCHANGED vars

Next ==
    \/ SysDir \/ SysMount \/ CgDir \/ CgMount \/ GetCgroups
    \/ LoopStep \/ LoopDone \/ UnwindList \/ UnwindSkeleton
    \/ Returned

Spec == Init /\ [][Next]_vars

-----------------------------------------------------------------------------
(* Properties                                                              *)

TypeOK ==
    /\ cache \in [Ctl -> MountPaths \cup {NoPath}]
    /\ mnt \in [Points -> 0..MaxStack]
    /\ slaved \subseteq MountPaths
    /\ head \subseteq MountPaths
    /\ pc \in {"sysdir", "sysfs", "cgdir", "tmpfs", "cgroups", "loop",
               "unwind", "umount1", "umount2", "done", "segv"}
    /\ i \in 1..N + 1
    /\ ret \in {-1, 0, 1}

\* spec 4.5 and 8: when cg_bindmount_cgroup fails, nothing it mounted under
\* the container root remains mounted
SetupAllOrNothing ==
    (pc = "done" /\ ret # 0) => \A p \in Points : mnt[p] = 0

\* spec 4.5: when cg_bindmount_cgroup returns 0, sysfs and the tmpfs are
\* mounted and every active shared controller, and systemd, is bound
SetupOkAllBound ==
    (pc = "done" /\ ret = 0) =>
        /\ mnt["sys"] > 0 /\ mnt["cg"] > 0
        /\ \A c \in Ctl \ Prvt :
              ((c = Systemd \/ c \in Active) /\ Mount[c] # NoMount) =>
                 mnt[Mount[c]] > 0

\* spec 4.5: co-mounted controllers share one mount path, which is bound
\* once; a second bind would survive the unwinding's single umount
NoStackedBind == \A p \in Points : mnt[p] <= 1

(***************************************************************************)
(* The inductive invariant of the proofs in CgBindMountProofs: a mirror is *)
(* bound only when its mount path is listed and slaved, listing implies   *)
(* slaving, nothing is stacked, and the skeleton mounts are absent before *)
(* the steps that make them.                                               *)
(***************************************************************************)
IInv ==
    /\ TypeOK
    /\ \A m \in MountPaths : mnt[m] > 0 => m \in head
    /\ head \subseteq slaved
    /\ NoStackedBind
    /\ pc \in {"sysdir", "sysfs"} => mnt["sys"] = 0
    /\ pc \in {"sysdir", "sysfs", "cgdir", "tmpfs"} => mnt["cg"] = 0

(***************************************************************************)
(* The strengthening behind SetupOkAllBound and SetupAllOrNothing: what    *)
(* each statement of the call has mounted or listed so far.               *)
(***************************************************************************)
\* a process caches only the mount point /proc/mounts lists
CacheSound == \A c \in Ctl : cache[c] \in CacheValues(c)

\* the early statements list nothing and leave the loop at its start;
\* sysfs is mounted from the mkdir of <root>/sys/fs/cgroup on, the tmpfs
\* from the read of /proc/cgroups on;
\* inside the loop every listed path is bound and every bound controller
\* before i has its path listed; the unwinding runs only with ret set, and
\* each umount() leaves nothing below the point it removes
SetupProgress ==
    /\ pc \in {"sysdir", "sysfs", "cgdir", "tmpfs", "cgroups"} =>
          head = {} /\ i = 1
    /\ pc \in {"cgdir", "tmpfs", "cgroups", "loop"} => mnt["sys"] > 0
    /\ pc \in {"cgroups", "loop"} => mnt["cg"] > 0
    /\ pc = "loop" =>
          /\ \A m \in head : mnt[m] > 0
          /\ \A c \in 1..i - 1 :
                (c \notin Prvt /\ Attempted(c) /\ Mount[c] # NoMount) =>
                    Mount[c] \in head
    /\ pc \in {"unwind", "umount1", "umount2"} => ret # 0
    /\ pc \in {"umount1", "umount2"} => \A m \in MountPaths : mnt[m] = 0
    /\ pc = "umount2" => mnt["cg"] = 0

SInv == CacheSound /\ SetupProgress /\ SetupOkAllBound

\* the loop never uses the mount_path of a controller that has none
NoNullMountPath == pc # "segv"

=============================================================================
