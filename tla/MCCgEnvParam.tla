---------------------------- MODULE MCCgEnvParam ----------------------------
(***************************************************************************)
(* Four controllers: cpu on m1, ve (private) on m2, memory on m3 and      *)
(* perf_event, which the host does not mount.  Entries are 8 or 12        *)
(* characters and the buffer 40 bytes, so the map can end short of,       *)
(* exactly at, or past its end.                                            *)
(***************************************************************************)
EXTENDS CgEnvParam, TLC

MCN == 4

MCMountPaths == {"m1", "m2", "m3"}

MCMount == <<"m1", "m2", "m3", NoMount>>

MCPrvt == {2}

MCEntryLens == {8, 12}

MCFaults == {"mounts"}

=============================================================================
