----------------------------- MODULE CgCtlThreads -----------------------------
(***************************************************************************)
(* Threads of one process calling cg_get_path() of src/lib/cgroup.c at    *)
(* once.  Each call is cg_get_ctl(), whose lookup and caching of the mount *)
(* point run under cg_ctl_map_mtx, then get_cgroup_name(), which for a    *)
(* shared controller calls cg_get_slice_name(): a lazily filled static    *)
(* buffer with no lock.  The mount table may change under the process (an *)
(* administrator remounting a controller).                                 *)
(*                                                                         *)
(* The lock is the owner of cg_ctl_map_mtx or NoThread.  A thread's local  *)
(* mount_path buffer is buf; got is the ctl->mount_path it builds its path *)
(* from, and sname the slice name it reads.                                *)
(***************************************************************************)
EXTENDS CgMountResolver, Sequences

CONSTANTS
    Threads,        \* the calling threads
    CtlOf,          \* CtlOf[t]: the controller thread t asks for
    Shared,         \* controllers get_cgroup_name puts under the slice
    NoThread,       \* the mutex is free
    Default,        \* "machine.slice"
    Override,       \* the VE_CGROUP_SLICE global parameter, or NoOverride
    NoOverride,
    MaxRemounts     \* bound on the administrator's remounts

ASSUME ThreadsAssumption ==
    /\ CtlOf \in [Threads -> Ctl]
    /\ Shared \subseteq Ctl
    /\ NoThread \notin Threads
    /\ Override # Default
    /\ MaxRemounts \in Nat
    /\ Faults \subseteq {"mounts", "nomem"}

VARIABLES
    mounts,     \* the live mount table: mounts[c] is c's mount path or NoMount
    holder,     \* the owner of cg_ctl_map_mtx
    pc,         \* pc[t]: the statement thread t is at
    ret,        \* ret[t]: what cg_get_ctl returns to t
    buf,        \* buf[t]: the mount_path[PATH_MAX] of t's cg_get_ctl
    got,        \* got[t]: the ctl->mount_path t's path is built from
    remounts,   \* remounts so far
    inited,     \* cg_get_slice_name's static inited
    slice,      \* its static slice[64]: the strings written into it, in order
    sname       \* sname[t]: the slice name t's get_cgroup_name reads

vars == <<cache, mounts, holder, pc, ret, buf, got, remounts, inited, slice,
          sname>>

-----------------------------------------------------------------------------
(* Helpers                                                                 *)

\* mutation test: the cache is looked at before the mutex is taken
LockFreeAlways(t) == TRUE

\* "pthread_mutex_lock(&cg_ctl_map_mtx)" returns to t
LockFree(t) == holder = NoThread

\* mutation test: the "mount_path != NULL" check is lost
CachedNever(c) == FALSE

\* "if ((*ctl)->mount_path != NULL)": the mount point is already known
Cached(c) == cache[c] # NoPath

\* mutation test: get_mount_path starts from "ret = 0" and reports a match
\* when no line matched
FoundAlways(c) == TRUE

\* "ret = 0" is set only by a /proc/mounts line whose options list c
Found(c) == mounts[c] # NoMount

\* mutation test: an error return that skips the unlock
UnlocksOnSuccess(r) == r = 0

\* every return of cg_get_ctl goes through "out:", which unlocks
Unlocks(r) == TRUE

\* mutation test: the VE_CGROUP_SLICE parameter is never found
ParamFoundNever == FALSE

\* get_global_param("VE_CGROUP_SLICE", ...) returns 0: the parameter is set
ParamFound == Override # NoOverride

-----------------------------------------------------------------------------
Init ==
    /\ cache = [c \in Ctl |-> NoPath]
    /\ mounts = Mount
    /\ holder = NoThread
    /\ pc = [t \in Threads |-> "lock"]
    /\ ret = [t \in Threads |-> 0]
    /\ buf = [t \in Threads |-> NoPath]
    /\ got = [t \in Threads |-> NoPath]
    /\ remounts = 0
    /\ inited = FALSE
    /\ slice = <<>>
    /\ sname = [t \in Threads |-> <<>>]

\* thread t moves to statement s
Goto(t, s) == pc' = [pc EXCEPT ![t] = s]

\* cg_get_ctl takes the mutex; find_cg_ctl cannot fail for a known subsys
Lock(t) ==
    /\ pc[t] = "lock"
    /\ LockFree(t)
    /\ holder' = IF holder = NoThread THEN t ELSE holder
    /\ Goto(t, "check")
    /\ UNCHANGED <<cache, mounts, ret, buf, got, remounts, inited, slice, sname>>

\* the cached mount point is returned at once, or the table is scanned
Check(t) ==
    /\ pc[t] = "check"
    /\ IF Cached(CtlOf[t])
          THEN ret' = [ret EXCEPT ![t] = 0] /\ Goto(t, "unlock")
          ELSE UNCHANGED ret /\ Goto(t, "scan")
    /\ UNCHANGED <<cache, mounts, holder, buf, got, remounts, inited, slice,
                   sname>>

\* get_mount_path(): -1 when /proc/mounts cannot be opened, 1 when no cgroup
\* mount lists the controller, else 0 with the first matching target
Scan(t) ==
    /\ pc[t] = "scan"
    /\ LET c == CtlOf[t] IN
          \/ /\ "mounts" \in Faults
             /\ ret' = [ret EXCEPT ![t] = -1]
             /\ Goto(t, "unlock")
             /\ UNCHANGED buf
          \/ /\ ~Found(c)
             /\ ret' = [ret EXCEPT ![t] = 1]
             /\ Goto(t, "unlock")
             /\ UNCHANGED buf
          \/ /\ Found(c)
             /\ buf' = [buf EXCEPT ![t] = mounts[c]]
             /\ Goto(t, "dup")
             /\ UNCHANGED ret
    /\ UNCHANGED <<cache, mounts, holder, got, remounts, inited, slice, sname>>

\* xstrdup(&(*ctl)->mount_path, mount_path): -1 when out of memory
Dup(t) ==
    /\ pc[t] = "dup"
    /\ \/ /\ "nomem" \in Faults
          /\ ret' = [ret EXCEPT ![t] = -1]
          /\ UNCHANGED cache
       \/ /\ cache' = [cache EXCEPT ![CtlOf[t]] = buf[t]]
          /\ ret' = [ret EXCEPT ![t] = 0]
    /\ Goto(t, "unlock")
    /\ UNCHANGED <<mounts, holder, buf, got, remounts, inited, slice, sname>>

\* "out: pthread_mutex_unlock"; cg_get_path returns an error, or reads
\* ctl->mount_path and goes on to get_cgroup_name
Unlock(t) ==
    /\ pc[t] = "unlock"
    /\ holder' = IF Unlocks(ret[t]) THEN NoThread ELSE holder
    /\ got' = [got EXCEPT ![t] = IF ret[t] = 0 THEN cache[CtlOf[t]] ELSE @]
    /\ Goto(t, IF ret[t] # 0 THEN "done"
               ELSE IF CtlOf[t] \in Shared THEN "slice" ELSE "done")
    /\ UNCHANGED <<cache, mounts, ret, buf, remounts, inited, slice, sname>>

\* cg_get_slice_name: "if (!inited)"
SliceCheck(t) ==
    /\ pc[t] = "slice"
    /\ Goto(t, IF inited THEN "name" ELSE "param")
    /\ UNCHANGED <<cache, mounts, holder, ret, buf, got, remounts, inited,
                   slice, sname>>

\* get_global_param("VE_CGROUP_SLICE", slice, ...): copies the parameter
\* and returns 0, or returns nonzero leaving the buffer alone
SliceParam(t) ==
    /\ pc[t] = "param"
    /\ IF ParamFound
          THEN slice' = <<Override>> /\ Goto(t, "inited")
          ELSE UNCHANGED slice /\ Goto(t, "cat")
    /\ UNCHANGED <<cache, mounts, holder, ret, buf, got, remounts, inited,
                   sname>>

\* strcat(slice, "machine.slice")
SliceCat(t) ==
    /\ pc[t] = "cat"
    /\ slice' = Append(slice, Default)
    /\ Goto(t, "inited")
    /\ UNCHANGED <<cache, mounts, holder, ret, buf, got, remounts, inited,
                   sname>>

\* "inited = 1"
SliceInited(t) ==
    /\ pc[t] = "inited"
    /\ inited' = TRUE
    /\ Goto(t, "name")
    /\ UNCHANGED <<cache, mounts, holder, ret, buf, got, remounts, slice,
                   sname>>

\* snprintf("%s/%s/%s", mount_path, slice, ctid) reads the buffer
Name(t) ==
    /\ pc[t] = "name"
    /\ sname' = [sname EXCEPT ![t] = slice]
    /\ Goto(t, "done")
    /\ UNCHANGED <<cache, mounts, holder, ret, buf, got, remounts, inited,
                   slice>>

\* an administrator moves controller c to another mount point
Remount(c, p) ==
    /\ remounts < MaxRemounts
    /\ mounts[c] # NoMount
    /\ p # mounts[c]
    /\ mounts' = [mounts EXCEPT ![c] = p]
    /\ remounts' = remounts + 1
    /\ UNCHANGED <<cache, holder, pc, ret, buf, got, inited, slice, sname>>

\* every call has returned
Finished ==
    /\ \A t \in Threads : pc[t] = "done"
    /\ UNCHANGED vars

Thread(t) ==
    \/ Lock(t) \/ Check(t) \/ Scan(t) \/ Dup(t) \/ Unlock(t)
    \/ SliceCheck(t) \/ SliceParam(t) \/ SliceCat(t) \/ SliceInited(t)
    \/ Name(t)

Next ==
    \/ \E t \in Threads : Thread(t)
    \/ \E c \in Ctl, p \in MountPaths : Remount(c, p)
    \/ Finished

\* the scheduler runs every runnable thread
Spec == Init /\ [][Next]_vars /\ \A t \in Threads : WF_vars(Thread(t))

-----------------------------------------------------------------------------
(* Properties                                                              *)

Pcs == {"lock", "check", "scan", "dup", "unlock", "slice", "param", "cat",
        "inited", "name", "done"}

TypeOK ==
    /\ cache \in [Ctl -> MountPaths \cup {NoPath}]
    /\ mounts \in [Ctl -> MountPaths \cup {NoMount}]
    /\ holder \in Threads \cup {NoThread}
    /\ pc \in [Threads -> Pcs]
    /\ ret \in [Threads -> {-1, 0, 1}]
    /\ buf \in [Threads -> MountPaths \cup {NoPath}]
    /\ got \in [Threads -> MountPaths \cup {NoPath}]
    /\ remounts \in 0..MaxRemounts
    /\ inited \in BOOLEAN
    /\ slice \in Seq({Default, Override})
    /\ sname \in [Threads -> Seq({Default, Override})]

\* spec 3 and 9: concurrent cg_get_ctl calls for one controller return the
\* same mount point, even when the mount table changes between them
ResolvedAgree ==
    \A t1, t2 \in Threads :
       (/\ CtlOf[t1] = CtlOf[t2]
        /\ pc[t1] \notin {"lock", "check", "scan", "dup", "unlock"}
        /\ pc[t2] \notin {"lock", "check", "scan", "dup", "unlock"}
        /\ ret[t1] = 0 /\ ret[t2] = 0) => got[t1] = got[t2]

\* spec 9: the mount table is scanned for a controller only while its mount
\* point is not yet cached; a step of cg_get_ctl never rescans a known one
NoScanWhenCached ==
    [][\A t \in Threads :
          (pc[t] = "scan" /\ pc'[t] # "scan") => cache[CtlOf[t]] = NoPath]_vars

(***************************************************************************)
(* The strengthening behind ResolvedAgree, remounts included: a mount     *)
(* point is cached at most once, under the mutex, and a call that returned *)
(* 0 built its path from the cached one.                                   *)
(***************************************************************************)
\* only the owner of cg_ctl_map_mtx is between the lock and "out:"
MutualExclusion ==
    \A t \in Threads : pc[t] \in {"check", "scan", "dup", "unlock"} => holder = t

\* a thread scans, and duplicates, only for an uncached controller, with a
\* real mount point in its buffer; a thread that returns 0 leaves the
\* controller cached, and its path uses the cached mount point
CallState ==
    \A t \in Threads :
       /\ pc[t] \in {"scan", "dup"} => cache[CtlOf[t]] = NoPath
       /\ pc[t] = "dup" => buf[t] \in MountPaths
       /\ (pc[t] = "unlock" /\ ret[t] = 0) => cache[CtlOf[t]] # NoPath
       /\ (pc[t] \notin {"lock", "check", "scan", "dup", "unlock"} /\ ret[t] = 0)
             => got[t] = cache[CtlOf[t]] /\ cache[CtlOf[t]] # NoPath

TInv == TypeOK /\ MutualExclusion /\ CallState

\* every cg_get_path call returns: the mutex is always released
Terminates == <>(\A t \in Threads : pc[t] = "done")

\* spec 2: the slice name every shared path is built from is the configured
\* one, VE_CGROUP_SLICE or "machine.slice"
SliceNameStable ==
    \A t \in Threads :
       (pc[t] = "done" /\ ret[t] = 0 /\ CtlOf[t] \in Shared) =>
          sname[t] = <<IF Override = NoOverride THEN Default ELSE Override>>

(***************************************************************************)
(* The refinement onto CgCtlAtomic.  A call has taken effect once it has   *)
(* passed Check, a failed Scan or Dup; the mutex makes that one step, and  *)
(* the others stutter.  The abstract GetCtl reads the table fixed at       *)
(* start, so the mapping is exact while nothing is remounted.             *)
(***************************************************************************)
InCall(t) == pc[t] \in {"lock", "check", "scan", "dup"}

Atomic == INSTANCE CgCtlAtomic
    WITH apc <- [t \in Threads |-> IF InCall(t) THEN "call" ELSE "returned"],
         aret <- ret,
         Faults <- IF Faults = {} THEN {} ELSE {"mounts"}

\* spec 3 and 5: concurrent cg_get_ctl calls behave as if each were one
\* atomic GetCtl, the form the other modules use
AtomicSpec == Atomic!Spec

=============================================================================
