------------------------------ MODULE CgFreezer ------------------------------
(***************************************************************************)
(* Suspend and resume of src/lib/cgroup.c: cg_freezer_cmd() and            *)
(* cg_set_freezer_state().  A call writes the target state to the          *)
(* container's freezer.state (cg_set_param -> cg_get_path -> write_data),   *)
(* then reads it back (cg_get_param -> cg_read) once a second until the     *)
(* text read starts with the target, with no timeout.  Callers are vzctl    *)
(* processes, each with its own mount-point cache, that may act on the     *)
(* same container at once.  The kernel's freezer is the cgroup-v1 state    *)
(* machine: writing FROZEN makes it FREEZING until every task is frozen,   *)
(* writing THAWED thaws at once.                                           *)
(***************************************************************************)
EXTENDS Integers, Sequences

CONSTANTS
    Callers,    \* the processes calling cg_freezer_cmd
    Cmds,       \* Cmds[p]: the commands process p issues, in order
    Faults      \* failures the environment may produce

\* VZCTL_CMD_RESUME, VZCTL_CMD_SUSPEND, and any other command number
Commands == {"resume", "suspend", "other"}

KernelStates == {"THAWED", "FREEZING", "FROZEN"}

ASSUME FreezerAssumption ==
    /\ Cmds \in [Callers -> Seq(Commands)]
    /\ Faults \subseteq {"mounts", "nomount", "nodir", "write", "read"}

VARIABLES
    state,      \* the kernel's freezer state of the container's cgroup
    mounted,    \* /proc/mounts lists the freezer controller
    dir,        \* the container's freezer directory exists
    cached,     \* cached[p]: process p has resolved the freezer mount point
    pc,         \* pc[p]: "cmd", "write", "poll", "sleep", "finished"
    k,          \* k[p]: the index in Cmds[p] of the running command
    tgt,        \* tgt[p]: the state string the last call of p writes
    ret,        \* ret[p]: what the last call of p returned
    buf,        \* buf[p]: what the last cg_get_param of p read
    holds       \* processes whose last call returned 0 with no write since

vars == <<state, mounted, dir, cached, pc, k, tgt, ret, buf, holds>>

-----------------------------------------------------------------------------
(* Helpers                                                                 *)

\* mutation test: the command name is written instead of the state name
TargetRaw(c) == c

\* cg_freezer_cmd: the state string a command writes
Target(c) == IF c = "resume" THEN "THAWED" ELSE "FROZEN"

\* mutation test: the comparison length is that of the shared prefix "FR"
MatchesShort(b, s) == (b = s) \/ ({b, s} = {"FREEZING", "FROZEN"})

\* strncmp(buf, state, strlen(state)) == 0: the text read starts with the
\* target; over the kernel's three state names that is equality
Matches(b, s) == b = s

\* mutation test: the loop compares the text of an earlier read
ReadStale(p) == buf[p]

\* cg_get_param(ctid, CG_FREEZER, "freezer.state", buf): the kernel's state
ReadState(p) == state

\* the kernel on a write of s to freezer.state
KernelWrite(s) ==
    state' = IF s = "THAWED" THEN "THAWED"
             ELSE IF state = "FROZEN" THEN "FROZEN" ELSE "FREEZING"

\* cg_get_path -> cg_get_ctl(CG_FREEZER): 0, 1 (no mount line) or -1
Resolve(p, r) ==
    \/ cached[p] /\ r = 0 /\ UNCHANGED cached
    \/ ~cached[p] /\ "mounts" \in Faults /\ r = -1 /\ UNCHANGED cached
    \/ ~cached[p] /\ ~mounted /\ r = 1 /\ UNCHANGED cached
    \/ ~cached[p] /\ mounted /\ r = 0 /\ cached' = [cached EXCEPT ![p] = TRUE]

\* the call of p returns rc
Return(p, rc) ==
    /\ ret' = [ret EXCEPT ![p] = rc]
    /\ pc' = [pc EXCEPT ![p] = IF k[p] < Len(Cmds[p]) THEN "cmd" ELSE "finished"]
    /\ k' = [k EXCEPT ![p] = k[p] + 1]

-----------------------------------------------------------------------------
Init ==
    /\ state \in {"THAWED", "FROZEN"}
    /\ mounted \in IF "nomount" \in Faults THEN BOOLEAN ELSE {TRUE}
    /\ dir \in IF "nodir" \in Faults THEN BOOLEAN ELSE {TRUE}
    /\ cached = [p \in Callers |-> FALSE]
    /\ pc = [p \in Callers |-> IF Cmds[p] = <<>> THEN "finished" ELSE "cmd"]
    /\ k = [p \in Callers |-> 1]
    /\ tgt = [p \in Callers |-> "THAWED"]
    /\ ret = [p \in Callers |-> 0]
    /\ buf = [p \in Callers |-> "none"]
    /\ holds = {}

\* cg_freezer_cmd with a command that is neither resume nor suspend
Unsupported(p) ==
    /\ pc[p] = "cmd"
    /\ Cmds[p][k[p]] = "other"
    /\ Return(p, -1)
    /\ holds' = holds \ {p}
    /\ UNCHANGED <<state, mounted, dir, cached, tgt, buf>>

\* cg_freezer_cmd calls cg_set_freezer_state(ctid, "THAWED" or "FROZEN")
Start(p) ==
    /\ pc[p] = "cmd"
    /\ Cmds[p][k[p]] \in {"resume", "suspend"}
    /\ pc' = [pc EXCEPT ![p] = "write"]
    /\ tgt' = [tgt EXCEPT ![p] = Target(Cmds[p][k[p]])]
    /\ holds' = holds \ {p}
    /\ UNCHANGED <<state, mounted, dir, cached, k, ret, buf>>

(***************************************************************************)
(* cg_set_param: the path cannot be built (the code returned by            *)
(* cg_get_ctl); open() fails with ENOENT (1) or otherwise (-1); the write  *)
(* is done, or fails, or is done and close() fails (-1).  Only a write     *)
(* that reaches the kernel changes the state, and it ends what the other   *)
(* processes' earlier calls established.                                   *)
(***************************************************************************)
Write(p) ==
    /\ pc[p] = "write"
    /\ \E r \in {-1, 0, 1} :
          /\ Resolve(p, r)
          /\ \/ /\ r # 0
                /\ Return(p, r)
                /\ UNCHANGED <<state, holds>>
             \/ /\ r = 0
                /\ ~dir
                /\ Return(p, 1)
                /\ UNCHANGED <<state, holds>>
             \/ /\ r = 0
                /\ dir
                /\ "write" \in Faults
                /\ Return(p, -1)
                /\ \/ UNCHANGED <<state, holds>>
                   \/ KernelWrite(tgt[p]) /\ holds' = {}
             \/ /\ r = 0
                /\ dir
                /\ KernelWrite(tgt[p])
                /\ holds' = {}
                /\ pc' = [pc EXCEPT ![p] = "poll"]
                /\ UNCHANGED <<k, ret>>
    /\ UNCHANGED <<mounted, dir, tgt, buf>>

(***************************************************************************)
(* One iteration of the loop: cg_get_param (the mount point is cached by   *)
(* the write, so only cg_read can fail, with -errno), then the strncmp;    *)
(* break on a match, else sleep(1).                                        *)
(***************************************************************************)
PollFail(p) ==
    /\ pc[p] = "poll"
    /\ "read" \in Faults
    /\ Return(p, -1)
    /\ UNCHANGED <<state, mounted, dir, cached, tgt, buf, holds>>

Poll(p) ==
    /\ pc[p] = "poll"
    /\ buf' = [buf EXCEPT ![p] = ReadState(p)]
    /\ IF Matches(buf'[p], tgt[p])
          THEN Return(p, 0) /\ holds' = holds \cup {p}
          ELSE pc' = [pc EXCEPT ![p] = "sleep"] /\ UNCHANGED <<k, ret, holds>>
    /\ UNCHANGED <<state, mounted, dir, cached, tgt>>

\* sleep(1) returns and the loop reads again
Sleep(p) ==
    /\ pc[p] = "sleep"
    /\ pc' = [pc EXCEPT ![p] = "poll"]
    /\ UNCHANGED <<state, mounted, dir, cached, k, tgt, ret, buf, holds>>

\* the kernel has frozen every task of a FREEZING cgroup
Freeze ==
    /\ state = "FREEZING"
    /\ state' = "FROZEN"
    /\ UNCHANGED <<mounted, dir, cached, pc, k, tgt, ret, buf, holds>>

\* every process has issued all its commands
Finished ==
    /\ \A p \in Callers : pc[p] = "finished"
    /\ UNCHANGED vars

\* the steps of a process that need no failure to happen
Step(p) == Unsupported(p) \/ Start(p) \/ Write(p) \/ Poll(p) \/ Sleep(p)

Caller(p) == Step(p) \/ PollFail(p)

Next == (\E p \in Callers : Caller(p)) \/ Freeze \/ Finished

\* the scheduler runs every runnable process (a read that fails is an
\* outcome it may have, not one it must have), and the kernel completes the
\* freezing of a cgroup whose tasks can all be frozen
Spec ==
    /\ Init
    /\ [][Next]_vars
    /\ \A p \in Callers : WF_vars(Step(p))
    /\ WF_vars(Freeze)

-----------------------------------------------------------------------------
(* Properties                                                              *)

TypeOK ==
    /\ state \in KernelStates
    /\ mounted \in BOOLEAN /\ dir \in BOOLEAN
    /\ cached \in [Callers -> BOOLEAN]
    /\ pc \in [Callers -> {"cmd", "write", "poll", "sleep", "finished"}]
    /\ k \in [Callers -> Nat]
    /\ \A p \in Callers : k[p] \in 1..Len(Cmds[p]) + 1
    /\ tgt \in [Callers -> {"THAWED", "FROZEN"}]
    /\ ret \in [Callers -> {-1, 0, 1}]
    /\ buf \in [Callers -> KernelStates \cup {"none"}]
    /\ holds \subseteq Callers

\* p is in the polling loop of cg_set_freezer_state
InLoop(p) == pc[p] \in {"poll", "sleep"}

\* the state the last write reaching the kernel asked for
Requested == IF state = "THAWED" THEN "THAWED" ELSE "FROZEN"

\* when cg_freezer_cmd returned 0 and no process has written freezer.state
\* since, the cgroup is in the state asked for: a suspend that succeeded
\* means every task is frozen (not still FREEZING), a resume that it is
\* thawed, whatever other processes did before
ReturnedStateHolds == \A p \in holds : state = tgt[p]

\* cg_set_freezer_state returns unless it is overtaken: a process polling
\* freezer.state eventually leaves the loop, or another process's write
\* asks the kernel for the opposite state (the kernel freezes every task
\* of a FREEZING cgroup in the end, and sleep(1) returns)
Settles ==
    \A p \in Callers :
        InLoop(p) ~> (~InLoop(p) \/ Requested # tgt[p])

-----------------------------------------------------------------------------
(* The inductive invariant behind ReturnedStateHolds and TypeOK            *)

\* a process that has not finished is on one of its commands: cg_freezer_cmd
\* is called only for a command in the caller's list
KInRange == \A p \in Callers : pc[p] # "finished" => k[p] \in 1..Len(Cmds[p])

IInv == TypeOK /\ KInRange /\ ReturnedStateHolds

=============================================================================
