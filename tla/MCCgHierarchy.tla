---------------------------- MODULE MCCgHierarchy ----------------------------
(***************************************************************************)
(* Five entries of cg_ctl_map for CgHierarchy: cpu and net_cls co-mounted  *)
(* on m1 (so they share the container's slice directory), the private ve  *)
(* controller on m2, perf_event without a mount, and systemd on m3.  The   *)
(* failing controllers come after ones that created a directory, so that  *)
(* the rollback has work to do, and the co-mount makes one directory the  *)
(* rollback target of two entries.                                         *)
(* The container's task may be attached with no exception or with cpu    *)
(* excepted.                                                               *)
(***************************************************************************)
EXTENDS CgHierarchy

MCN == 5

MCMountPaths == {"m1", "m2", "m3"}

MCMount == <<"m1", "m1", "m2", NoMount, "m3">>

MCKind == <<"slice", "slice", "prvt", "slice", "scope">>

\* the two faults that break DestroyOkMeansGone: a fresh process cannot
\* read /proc/mounts, and the final rmdir of rm_tree is refused while
\* tasks drain
MCFaultsDestroy == {"mounts", "rootbusy"}

MCFaultsAll == {"mounts", "mkdir", "rmtree", "rootbusy", "crash", "attach"}

\* cg_attach_task with no exception, and excepting cpu, which shares its
\* directory with net_cls
MCExcepts == {0, 1}

=============================================================================
