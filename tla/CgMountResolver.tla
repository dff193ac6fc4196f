--------------------------- MODULE CgMountResolver ---------------------------
(***************************************************************************)
(* The mount-point resolver of src/lib/cgroup.c: cg_ctl_map, get_mount_path *)
(* and cg_get_ctl.  Controllers are the indices 1..N of cg_ctl_map (0..N-1  *)
(* in the code); the first call for a controller scans /proc/mounts and     *)
(* stores the mount point in cg_ctl_map[i].mount_path, which later calls of *)
(* the same process return.  The component modules that call cg_get_ctl     *)
(* extend this one; cache is their variable.                                *)
(***************************************************************************)
EXTENDS Integers, FiniteSets

CONSTANTS
    N,          \* number of entries of cg_ctl_map
    Mount,      \* Mount[i]: mount point /proc/mounts lists for controller i
    MountPaths, \* mount points
    NoMount,    \* get_mount_path() finds no matching line
    NoPath,     \* mount_path == NULL
    Faults      \* failures the environment may produce

Ctl == 1..N

ASSUME ResolverAssumption ==
    /\ N \in Nat \ {0}
    /\ Mount \in [Ctl -> MountPaths \cup {NoMount}]
    /\ NoMount \notin MountPaths
    /\ NoPath \notin MountPaths

VARIABLE
    cache       \* cache[i]: cg_ctl_map[i].mount_path of this process

\* the values the cache of a process can hold: unset, or the mount point
CacheValues(c) == {NoPath, Mount[c]} \ {NoMount}

(***************************************************************************)
(* cg_get_ctl(i): r = 0 when the mount point is cached or found (and then  *)
(* cached under the lock), r = 1 when /proc/mounts has no line for it,     *)
(* r = -1 when /proc/mounts cannot be opened or xstrdup() fails.           *)
(***************************************************************************)
GetCtl(c, r) ==
    \/ /\ cache[c] # NoPath
       /\ r = 0
       /\ UNCHANGED cache
    \/ /\ cache[c] = NoPath
       /\ "mounts" \in Faults
       /\ r = -1
       /\ UNCHANGED cache
    \/ /\ cache[c] = NoPath
       /\ Mount[c] = NoMount
       /\ r = 1
       /\ UNCHANGED cache
    \/ /\ cache[c] = NoPath
       /\ Mount[c] # NoMount
       /\ r = 0
       /\ cache' = [cache EXCEPT ![c] = Mount[c]]

=============================================================================
