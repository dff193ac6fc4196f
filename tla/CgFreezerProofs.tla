--------------------------- MODULE CgFreezerProofs ---------------------------
(***************************************************************************)
(* Proofs about CgFreezer, the model of cg_freezer_cmd() and              *)
(* cg_set_freezer_state() in src/lib/cgroup.c, for every set of callers,  *)
(* every command list and every fault set FreezerAssumption allows.       *)
(***************************************************************************)
EXTENDS CgFreezer, TLAPS

USE FreezerAssumption

PcValues == {"cmd", "write", "poll", "sleep", "finished"}

\* the Boolean part of TypeOK, for Zenon, and the rest, for SMT
TypeBool == mounted \in BOOLEAN /\ dir \in BOOLEAN /\ cached \in [Callers -> BOOLEAN]

TypeRest ==
    /\ state \in KernelStates
    /\ pc \in [Callers -> PcValues]
    /\ k \in [Callers -> Nat]
    /\ \A p \in Callers : k[p] \in 1..Len(Cmds[p]) + 1
    /\ tgt \in [Callers -> {"THAWED", "FROZEN"}]
    /\ ret \in [Callers -> {-1, 0, 1}]
    /\ buf \in [Callers -> KernelStates \cup {"none"}]
    /\ holds \subseteq Callers

LEMMA TypeParts == TypeOK <=> TypeBool /\ TypeRest
BY Zenon DEF TypeOK, TypeBool, TypeRest, PcValues

LEMMA TypePartsPrimed == TypeOK' <=> TypeBool' /\ TypeRest'
BY Zenon DEF TypeOK, TypeBool, TypeRest, PcValues

-----------------------------------------------------------------------------
(***************************************************************************)
(* The return of a call of cg_freezer_cmd moves its caller to its next     *)
(* command, or to finished after the last one.                             *)
(***************************************************************************)
LEMMA ReturnFacts ==
    ASSUME TypeRest, KInRange, NEW p \in Callers, pc[p] # "finished",
           NEW rc \in {-1, 0, 1}, Return(p, rc)
    PROVE  /\ pc' \in [Callers -> PcValues]
           /\ k' \in [Callers -> Nat]
           /\ \A q \in Callers : k'[q] \in 1..Len(Cmds[q]) + 1
           /\ ret' \in [Callers -> {-1, 0, 1}]
           /\ KInRange'
BY DEF TypeRest, KInRange, Return, PcValues

\* cg_get_path leaves every cached flag Boolean
LEMMA ResolveBool ==
    ASSUME TypeBool, NEW p \in Callers, NEW r, Resolve(p, r),
           mounted' = mounted, dir' = dir
    PROVE  TypeBool' /\ r \in {-1, 0, 1}
BY Zenon DEF TypeBool, Resolve

\* the kernel's freezer state stays one of its three names
LEMMA KernelWriteType ==
    ASSUME state \in KernelStates, NEW s, KernelWrite(s)
    PROVE  state' \in KernelStates
BY DEF KernelWrite, KernelStates

-----------------------------------------------------------------------------
LEMMA InitIInv == Init => IInv
<1> SUFFICES ASSUME Init PROVE IInv
    OBVIOUS
<1>1. TypeBool
    BY Zenon DEF Init, TypeBool
<1>2. TypeRest
    BY DEF Init, TypeRest, PcValues, KernelStates
<1>3. KInRange
    <2> SUFFICES ASSUME NEW p \in Callers, pc[p] # "finished"
                 PROVE  k[p] \in 1..Len(Cmds[p])
        BY DEF KInRange
    <2>1. Cmds[p] # <<>>
        BY DEF Init
    <2>2. Len(Cmds[p]) >= 1
        BY <2>1
    <2>3. QED
        BY <2>2 DEF Init
<1>4. ReturnedStateHolds
    BY DEF Init, ReturnedStateHolds
<1>5. QED
    BY <1>1, <1>2, <1>3, <1>4, TypeParts DEF IInv

\* an unsupported command returns -1 and ends what the caller held
LEMMA UnsupportedIInv ==
    ASSUME IInv, NEW p \in Callers, Unsupported(p)
    PROVE  IInv'
<1>1. TypeBool /\ TypeRest /\ KInRange /\ ReturnedStateHolds
    BY TypeParts DEF IInv
<1>2. /\ pc'  \in [Callers -> PcValues] /\ k' \in [Callers -> Nat]
      /\ \A q \in Callers : k'[q] \in 1..Len(Cmds[q]) + 1
      /\ ret' \in [Callers -> {-1, 0, 1}] /\ KInRange'
    BY <1>1, ReturnFacts DEF Unsupported
<1>3. TypeBool'
    BY <1>1, Zenon DEF Unsupported, TypeBool
<1>4. TypeRest'
    BY <1>1, <1>2 DEF Unsupported, TypeRest
<1>5. ReturnedStateHolds'
    BY <1>1 DEF Unsupported, ReturnedStateHolds
<1>6. QED
    BY <1>2, <1>3, <1>4, <1>5, TypePartsPrimed DEF IInv

\* cg_freezer_cmd picks the target, and the caller no longer holds it
LEMMA StartIInv ==
    ASSUME IInv, NEW p \in Callers, Start(p)
    PROVE  IInv'
<1>1. TypeBool /\ TypeRest /\ KInRange /\ ReturnedStateHolds
    BY TypeParts DEF IInv
<1>2. TypeBool'
    BY <1>1, Zenon DEF Start, TypeBool
<1>3. Target(Cmds[p][k[p]]) \in {"THAWED", "FROZEN"}
    BY DEF Target
<1>4. TypeRest'
    BY <1>1, <1>3 DEF Start, TypeRest, PcValues
<1>5. KInRange'
    BY <1>1 DEF Start, KInRange, TypeRest
<1>6. ReturnedStateHolds'
    BY <1>1 DEF Start, ReturnedStateHolds, TypeRest
<1>7. QED
    BY <1>2, <1>4, <1>5, <1>6, TypePartsPrimed DEF IInv

\* a failed read of freezer.state returns -1 and changes no state
LEMMA PollFailIInv ==
    ASSUME IInv, NEW p \in Callers, PollFail(p)
    PROVE  IInv'
<1>1. TypeBool /\ TypeRest /\ KInRange /\ ReturnedStateHolds
    BY TypeParts DEF IInv
<1>2. /\ pc'  \in [Callers -> PcValues] /\ k' \in [Callers -> Nat]
      /\ \A q \in Callers : k'[q] \in 1..Len(Cmds[q]) + 1
      /\ ret' \in [Callers -> {-1, 0, 1}] /\ KInRange'
    BY <1>1, ReturnFacts DEF PollFail
<1>3. TypeBool'
    BY <1>1, Zenon DEF PollFail, TypeBool
<1>4. TypeRest'
    BY <1>1, <1>2 DEF PollFail, TypeRest
<1>5. ReturnedStateHolds'
    BY <1>1 DEF PollFail, ReturnedStateHolds
<1>6. QED
    BY <1>2, <1>3, <1>4, <1>5, TypePartsPrimed DEF IInv

(***************************************************************************)
(* The poll returns 0 only when the text read matches the target, and it   *)
(* read the kernel's state in the same step, so the caller holds it.       *)
(***************************************************************************)
LEMMA PollIInv ==
    ASSUME IInv, NEW p \in Callers, Poll(p)
    PROVE  IInv'
<1>1. TypeBool /\ TypeRest /\ KInRange /\ ReturnedStateHolds
    BY TypeParts DEF IInv
<1>2. TypeBool'
    BY <1>1, Zenon DEF Poll, TypeBool
<1>3. buf' \in [Callers -> KernelStates \cup {"none"}] /\ buf'[p] = state
    BY <1>1 DEF Poll, ReadState, TypeRest
<1>4. CASE Matches(buf'[p], tgt[p])
    <2>1. Return(p, 0) /\ holds' = holds \cup {p}
        BY <1>4 DEF Poll
    <2>2. /\ pc'  \in [Callers -> PcValues] /\ k' \in [Callers -> Nat]
          /\ \A q \in Callers : k'[q] \in 1..Len(Cmds[q]) + 1
          /\ ret' \in [Callers -> {-1, 0, 1}] /\ KInRange'
        BY <1>1, <2>1, ReturnFacts DEF Poll
    <2>3. state = tgt[p]
        BY <1>3, <1>4 DEF Matches
    <2>4. TypeRest'
        BY <1>1, <1>3, <2>1, <2>2 DEF Poll, TypeRest
    <2>5. ReturnedStateHolds'
        BY <1>1, <2>1, <2>3 DEF Poll, ReturnedStateHolds
    <2>6. QED
        BY <1>2, <2>2, <2>4, <2>5, TypePartsPrimed DEF IInv
<1>5. CASE ~Matches(buf'[p], tgt[p])
    <2>1. pc' = [pc EXCEPT ![p] = "sleep"] /\ UNCHANGED <<k, ret, holds>>
        BY <1>5 DEF Poll
    <2>2. TypeRest'
        BY <1>1, <1>3, <2>1 DEF Poll, TypeRest, PcValues
    <2>3. KInRange'
        BY <1>1, <2>1 DEF Poll, KInRange, TypeRest
    <2>4. ReturnedStateHolds'
        BY <1>1, <2>1 DEF Poll, ReturnedStateHolds
    <2>5. QED
        BY <1>2, <2>2, <2>3, <2>4, TypePartsPrimed DEF IInv
<1>6. QED
    BY <1>4, <1>5

\* sleep(1) only moves the caller back to the read
LEMMA SleepIInv ==
    ASSUME IInv, NEW p \in Callers, Sleep(p)
    PROVE  IInv'
<1>1. TypeBool /\ TypeRest /\ KInRange /\ ReturnedStateHolds
    BY TypeParts DEF IInv
<1>2. TypeBool'
    BY <1>1, Zenon DEF Sleep, TypeBool
<1>3. TypeRest' /\ KInRange' /\ ReturnedStateHolds'
    BY <1>1 DEF Sleep, TypeRest, PcValues, KInRange, ReturnedStateHolds
<1>4. QED
    BY <1>2, <1>3, TypePartsPrimed DEF IInv

(***************************************************************************)
(* No process holds a FREEZING cgroup, since every target is THAWED or     *)
(* FROZEN: the kernel finishing a freeze breaks no returned state.         *)
(***************************************************************************)
LEMMA FreezeIInv ==
    ASSUME IInv, Freeze
    PROVE  IInv'
<1>1. TypeBool /\ TypeRest /\ KInRange /\ ReturnedStateHolds
    BY TypeParts DEF IInv
<1>2. holds = {}
    BY <1>1 DEF Freeze, ReturnedStateHolds, TypeRest
<1>3. TypeBool'
    BY <1>1, Zenon DEF Freeze, TypeBool
<1>4. TypeRest' /\ KInRange' /\ ReturnedStateHolds'
    BY <1>1, <1>2 DEF Freeze, TypeRest, KernelStates, KInRange,
                      ReturnedStateHolds
<1>5. QED
    BY <1>3, <1>4, TypePartsPrimed DEF IInv

(***************************************************************************)
(* The write of freezer.state: a call that fails returns with no state     *)
(* held; a write that reaches the kernel, whether or not the call then     *)
(* fails, ends what every process held.                                    *)
(***************************************************************************)
LEMMA WriteIInv ==
    ASSUME IInv, NEW p \in Callers, Write(p)
    PROVE  IInv'
<1>1. TypeBool /\ TypeRest /\ KInRange /\ ReturnedStateHolds
    BY TypeParts DEF IInv
<1>2. PICK r \in {-1, 0, 1} :
          /\ Resolve(p, r)
          /\ \/ /\ r # 0
                /\ Return(p, r)
                /\ UNCHANGED <<state, holds>>
             \/ /\ r = 0
                /\ ~dir
                /\ Return(p, 1)
                /\ UNCHANGED <<state, holds>>
             \/ /\ r = 0
                /\ dir
                /\ "write" \in Faults
                /\ Return(p, -1)
                /\ \/ UNCHANGED <<state, holds>>
                   \/ KernelWrite(tgt[p]) /\ holds' = {}
             \/ /\ r = 0
                /\ dir
                /\ KernelWrite(tgt[p])
                /\ holds' = {}
                /\ pc' = [pc EXCEPT ![p] = "poll"]
                /\ UNCHANGED <<k, ret>>
    BY DEF Write
<1>3. /\ mounted' = mounted /\ dir' = dir /\ tgt' = tgt /\ buf' = buf
      /\ pc[p] = "write"
    BY DEF Write
<1>4. TypeBool'
    BY <1>1, <1>2, <1>3, ResolveBool
\* the call returns rc, with the kernel's state and holds as before or
\* after a write that reached the kernel
<1>5. ASSUME NEW rc \in {-1, 0, 1}, Return(p, rc),
             \/ state' = state /\ holds' = holds
             \/ KernelWrite(tgt[p]) /\ holds' = {}
      PROVE  IInv'
    <2>1. /\ pc'  \in [Callers -> PcValues] /\ k' \in [Callers -> Nat]
          /\ \A q \in Callers : k'[q] \in 1..Len(Cmds[q]) + 1
          /\ ret' \in [Callers -> {-1, 0, 1}] /\ KInRange'
        BY <1>1, <1>3, <1>5, ReturnFacts
    <2>2. state' \in KernelStates
        BY <1>1, <1>5, KernelWriteType DEF TypeRest
    <2>3. TypeRest'
        BY <1>1, <1>3, <1>5, <2>1, <2>2 DEF TypeRest
    <2>4. ReturnedStateHolds'
        BY <1>1, <1>3, <1>5 DEF ReturnedStateHolds
    <2>5. QED
        BY <1>4, <2>1, <2>3, <2>4, TypePartsPrimed DEF IInv
<1>6. CASE r # 0 /\ Return(p, r) /\ UNCHANGED <<state, holds>>
    BY <1>6, <1>5
<1>7. CASE r = 0 /\ ~dir /\ Return(p, 1) /\ UNCHANGED <<state, holds>>
    BY <1>7, <1>5
<1>8. CASE /\ r = 0 /\ dir /\ "write" \in Faults /\ Return(p, -1)
           /\ \/ UNCHANGED <<state, holds>>
              \/ KernelWrite(tgt[p]) /\ holds' = {}
    BY <1>8, <1>5
<1>9. CASE /\ r = 0 /\ dir /\ KernelWrite(tgt[p]) /\ holds' = {}
           /\ pc' = [pc EXCEPT ![p] = "poll"] /\ UNCHANGED <<k, ret>>
    <2>1. state' \in KernelStates
        BY <1>1, <1>9, KernelWriteType DEF TypeRest
    <2>2. TypeRest'
        BY <1>1, <1>3, <1>9, <2>1 DEF TypeRest, PcValues
    <2>3. KInRange'
        BY <1>1, <1>3, <1>9 DEF KInRange, TypeRest
    <2>4. ReturnedStateHolds'
        BY <1>9 DEF ReturnedStateHolds
    <2>5. QED
        BY <1>4, <2>2, <2>3, <2>4, TypePartsPrimed DEF IInv
<1>10. QED
    BY <1>2, <1>6, <1>7, <1>8, <1>9

-----------------------------------------------------------------------------
\* every step of the callers and of the kernel, stutter included, keeps IInv
LEMMA NextIInv == IInv /\ [Next]_vars => IInv'
<1> SUFFICES ASSUME IInv, [Next]_vars PROVE IInv'
    OBVIOUS
<1>1. CASE \E p \in Callers : Caller(p)
    <2>1. PICK p \in Callers : Caller(p)
        BY <1>1
    <2>2. QED
        BY <2>1, UnsupportedIInv, StartIInv, WriteIInv, PollIInv, SleepIInv,
           PollFailIInv DEF Caller, Step
<1>2. CASE Freeze
    BY <1>2, FreezeIInv
<1>3. CASE Finished \/ UNCHANGED vars
    <2>1. UNCHANGED vars
        BY <1>3 DEF Finished
    <2>2. QED
        BY <2>1 DEF vars, IInv, TypeOK, KInRange, ReturnedStateHolds
<1>4. QED
    BY <1>1, <1>2, <1>3 DEF Next

(***************************************************************************)
(* For every set of callers and every command list: a cg_freezer_cmd that *)
(* returned 0, with no write to freezer.state since by any process, leaves *)
(* the cgroup in the state it asked for, FROZEN after a suspend (never     *)
(* FREEZING), THAWED after a resume.                                       *)
(***************************************************************************)
THEOREM FreezerInvariant == Spec => []IInv
<1>1. Init => IInv
    BY InitIInv
<1>2. IInv /\ [Next]_vars => IInv'
    BY NextIInv
<1>3. QED
    BY <1>1, <1>2, PTL DEF Spec

\* a call that returned 0 leaves the freezer in its target state
THEOREM ReturnedStateProved == Spec => []ReturnedStateHolds
BY FreezerInvariant, PTL DEF IInv

\* every variable of the freezer model keeps its type, k within the list
THEOREM FreezerTypeCorrect == Spec => []TypeOK
BY FreezerInvariant, PTL DEF IInv

====
