----------------------------- MODULE MCCgFreezer -----------------------------
(***************************************************************************)
(* Two vzctl processes on one container: p1 suspends and then resumes it, *)
(* p2 suspends it and then issues an unsupported command.  Their calls     *)
(* overlap in every order, so a resume can overtake a suspend that is      *)
(* still polling.                                                          *)
(***************************************************************************)
EXTENDS CgFreezer, TLC

CONSTANTS p1, p2

MCCallers == {p1, p2}

MCCmds == (p1 :> <<"suspend", "resume">>) @@ (p2 :> <<"suspend", "other">>)

MCFaults == {"mounts", "nomount", "nodir", "write", "read"}

=============================================================================
