---------------------------- MODULE MCCgCtlThreads ----------------------------
(***************************************************************************)
(* Three threads: two ask for cpu (controller 1, shared, under the slice,  *)
(* mounted on m1 and movable to m2), one for perf_event (controller 2,     *)
(* which no cgroup mount lists).                                           *)
(***************************************************************************)
EXTENDS CgCtlThreads, TLC

CONSTANTS t1, t2, t3

MCThreads == {t1, t2, t3}
MCCtlOf == (t1 :> 1) @@ (t2 :> 1) @@ (t3 :> 2)
MCN == 2
MCMount == <<"m1", NoMount>>
MCMountPaths == {"m1", "m2"}
MCShared == {1}
MCFaults == {"mounts", "nomem"}
MCFaultsNone == {}

=============================================================================
