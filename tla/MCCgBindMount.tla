---------------------------- MODULE MCCgBindMount ----------------------------
(***************************************************************************)
(* Five entries of cg_ctl_map for CgBindMount, in the code's order with    *)
(* systemd last: cpu and net_cls co-mounted on the joined path m1, the     *)
(* private ve on m2, perf_event without a mount, systemd on m3.           *)
(* /proc/cgroups lists cpu, net_cls and ve; in the second list also the   *)
(* unmounted perf_event.                                                   *)
(***************************************************************************)
EXTENDS CgBindMount

MCN == 5

MCMountPaths == {"m1", "m2", "m3"}

MCMount == <<"m1", "m1", "m2", NoMount, "m3">>

MCPrvt == {3}

MCSystemd == 5

MCActive == {1, 2, 3}

\* an active controller whose hierarchy is not mounted on the host
MCActiveUnmounted == {1, 2, 3, 4}

MCJoined == {"m1"}

\* the failures inside the loop, which the unwinding is meant to handle
MCFaultsLoop == {"mounts", "slave", "nomem", "bind", "symlink"}

\* the failures of the skeleton steps before the loop
MCFaultsEarly == {"sysdir", "sysfs", "cgdir", "tmpfs", "cgroups"}

MCFaultsNone == {}

=============================================================================
