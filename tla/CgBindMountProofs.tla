-------------------------- MODULE CgBindMountProofs --------------------------
(***************************************************************************)
(* Proofs about CgBindMount, the model of cg_bindmount_cgroup() in         *)
(* src/lib/cgroup.c, for every controller table, every set of active      *)
(* controllers and every set of faults the assumptions allow.             *)
(***************************************************************************)
EXTENDS CgBindMount, TLAPS

USE ResolverAssumption, BindMountAssumption DEF MaxStack, Points, Ctl

CacheType == cache \in [Ctl -> MountPaths \cup {NoPath}]

(***************************************************************************)
(* IInv in three parts: the mount counts, the skeleton mounts before the   *)
(* steps that make them, and the control state of the call.                *)
(***************************************************************************)
MountsOK ==
    /\ mnt \in [Points -> 0..MaxStack]
    /\ \A m \in MountPaths : mnt[m] > 0 => m \in head
    /\ NoStackedBind

Skeleton ==
    /\ pc \in {"sysdir", "sysfs"} => mnt["sys"] = 0
    /\ pc \in {"sysdir", "sysfs", "cgdir", "tmpfs"} => mnt["cg"] = 0

Control ==
    /\ CacheType
    /\ slaved \subseteq MountPaths
    /\ head \subseteq MountPaths
    /\ pc \in {"sysdir", "sysfs", "cgdir", "tmpfs", "cgroups", "loop",
               "unwind", "umount1", "umount2", "done", "segv"}
    /\ i \in 1..N + 1
    /\ ret \in {-1, 0, 1}
    /\ head \subseteq slaved

LEMMA IInvParts == IInv <=> MountsOK /\ Skeleton /\ Control
BY Zenon DEF IInv, TypeOK, MountsOK, Skeleton, Control, CacheType

(***************************************************************************)
(* cg_get_ctl keeps the cache typed, returns -1, 0 or 1, and on 0 the     *)
(* controller's mount path is a real mount point.                          *)
(***************************************************************************)
LEMMA GetCtlFacts ==
    ASSUME CacheType, NEW c \in Ctl, NEW r, GetCtl(c, r)
    PROVE  /\ CacheType'
           /\ r \in {-1, 0, 1}
           /\ r = 0 => cache'[c] \in MountPaths
BY DEF GetCtl, CacheType

(***************************************************************************)
(* A step that leaves the mounts alone and keeps every listed path listed  *)
(* keeps the mount counts right.                                           *)
(***************************************************************************)
LEMMA SameMounts ==
    ASSUME MountsOK, mnt' = mnt, head \subseteq head'
    PROVE  MountsOK'
BY Zenon DEF MountsOK, NoStackedBind

(***************************************************************************)
(* mount(2) on a point with nothing mounted leaves exactly one mount there *)
(* and the other points as they were; if the point is a mirror, it must   *)
(* have been listed.                                                       *)
(***************************************************************************)
LEMMA FreshMount ==
    ASSUME MountsOK, NEW p \in Points, mnt[p] = 0, Mounted(p),
           head \subseteq head', p \in MountPaths => p \in head'
    PROVE  /\ MountsOK'
           /\ \A q \in Points \ {p} : mnt'[q] = mnt[q]
<1>1. (IF mnt[p] < MaxStack THEN mnt[p] + 1 ELSE mnt[p]) = 1
  BY SMT
<1>2. mnt' = [mnt EXCEPT ![p] = 1]
  BY <1>1, Zenon DEF Mounted
<1>3. 1 \in 0..MaxStack /\ 1 <= 1 /\ 1 > 0
  BY SMT
<1>4. mnt' \in [Points -> 0..MaxStack]
  BY <1>2, <1>3, Zenon DEF MountsOK
<1>5. \A q \in Points \ {p} : mnt'[q] = mnt[q]
  BY <1>2, Zenon DEF MountsOK
<1>6. mnt'[p] = 1
  BY <1>2, Zenon DEF MountsOK
<1>7. \A m \in MountPaths : mnt'[m] > 0 => m \in head'
  BY <1>5, <1>6, Zenon DEF MountsOK
<1>8. NoStackedBind'
  BY <1>3, <1>5, <1>6, Zenon DEF MountsOK, NoStackedBind
<1>. QED
  BY <1>4, <1>5, <1>7, <1>8 DEF MountsOK

(***************************************************************************)
(* umount() never adds a mount: a step whose counts all stay in range and  *)
(* none grows, with the list unchanged, keeps the mount counts right.     *)
(***************************************************************************)
LEMMA Shrinks ==
    ASSUME MountsOK, mnt' \in [Points -> 0..MaxStack],
           \A q \in Points : mnt'[q] <= mnt[q], head' = head
    PROVE  MountsOK'
<1>1. \A m \in MountPaths : mnt'[m] > 0 => m \in head'
  <2>1. SUFFICES ASSUME NEW m \in MountPaths, mnt'[m] > 0 PROVE m \in head
    OBVIOUS
  <2>2. mnt'[m] \in 0..2 /\ mnt[m] \in 0..2 /\ mnt'[m] <= mnt[m]
    BY Zenon DEF MountsOK
  <2>3. mnt[m] > 0
    BY <2>1, <2>2
  <2>. QED
    BY <2>3 DEF MountsOK
<1>2. NoStackedBind'
  <2>1. SUFFICES ASSUME NEW p \in Points PROVE mnt'[p] <= 1
    BY DEF NoStackedBind
  <2>2. mnt'[p] \in 0..2 /\ mnt[p] \in 0..2 /\ mnt'[p] <= mnt[p] /\ mnt[p] <= 1
    BY Zenon DEF MountsOK, NoStackedBind
  <2>. QED
    BY <2>2
<1>. QED
  BY <1>1, <1>2 DEF MountsOK

\* Umount(mnt, p) is such a step
LEMMA UmountShrinks ==
    ASSUME MountsOK, NEW p \in Points
    PROVE  /\ Umount(mnt, p) \in [Points -> 0..MaxStack]
           /\ \A q \in Points : Umount(mnt, p)[q] <= mnt[q]
<1>1. CASE mnt[p] > 0 /\ ~HasSubmount(p)
  <2>1. Umount(mnt, p) = [mnt EXCEPT ![p] = mnt[p] - 1]
    BY <1>1, Zenon DEF Umount
  <2>2. mnt[p] \in 0..2
    BY Zenon DEF MountsOK
  <2>3. mnt[p] - 1 \in 0..MaxStack /\ mnt[p] - 1 <= mnt[p]
    BY <1>1, <2>2
  <2>4. \A q \in Points : mnt[q] \in 0..2
    BY Zenon DEF MountsOK
  <2>5. \A q \in Points : mnt[q] <= mnt[q]
    BY <2>4
  <2>6. Umount(mnt, p) \in [Points -> 0..MaxStack]
    BY <2>1, <2>3, Zenon DEF MountsOK
  <2>7. \A q \in Points \ {p} : Umount(mnt, p)[q] = mnt[q]
    BY <2>1, Zenon DEF MountsOK
  <2>8. Umount(mnt, p)[p] = mnt[p] - 1
    BY <2>1, Zenon DEF MountsOK
  <2>. QED
    BY <2>3, <2>5, <2>6, <2>7, <2>8, Zenon
<1>2. CASE ~(mnt[p] > 0 /\ ~HasSubmount(p))
  <2>1. Umount(mnt, p) = mnt
    BY <1>2, Zenon DEF Umount
  <2>2. \A q \in Points : mnt[q] \in 0..2
    BY Zenon DEF MountsOK
  <2>3. \A q \in Points : mnt[q] <= mnt[q]
    BY <2>2
  <2>. QED
    BY <2>1, <2>3, Zenon DEF MountsOK
<1>. QED
  BY <1>1, <1>2

\* the three parts after a step make up the invariant after it
LEMMA Assemble ==
    ASSUME MountsOK', Skeleton', Control'
    PROVE  IInv'
BY Zenon DEF IInv, TypeOK, MountsOK, Skeleton, Control, CacheType

-----------------------------------------------------------------------------
LEMMA InitIInv == Init => IInv
<1>. SUFFICES ASSUME Init PROVE MountsOK /\ Skeleton /\ Control
  BY IInvParts
<1>1. 0 \in 0..MaxStack /\ ~(0 > 0) /\ 0 <= 1
  OBVIOUS
<1>2. MountsOK /\ Skeleton
  BY <1>1, Zenon DEF Init, MountsOK, NoStackedBind, Skeleton
<1>3. Control
  BY DEF Init, Control, CacheType
<1>. QED
  BY <1>2, <1>3

\* the shape of every step that leaves the mounts and the list alone
LEMMA KeepMounts ==
    ASSUME IInv, mnt' = mnt, head \subseteq head', Control',
           pc' \in {"sysdir", "sysfs"} => pc \in {"sysdir", "sysfs"},
           pc' \in {"sysdir", "sysfs", "cgdir", "tmpfs"} =>
              pc \in {"sysdir", "sysfs", "cgdir", "tmpfs"}
    PROVE  IInv'
<1>1. MountsOK /\ Skeleton
  BY IInvParts
<1>2. MountsOK'
  BY <1>1, SameMounts
<1>3. Skeleton'
  BY <1>1, Zenon DEF Skeleton
<1>. QED
  BY <1>2, <1>3, Assemble

\* the shape of a step that mounts on a point with nothing mounted, moving
\* past the skeleton statements
LEMMA AddMount ==
    ASSUME IInv, NEW p \in Points, mnt[p] = 0, Mounted(p), Control',
           head \subseteq head', p \in MountPaths => p \in head',
           pc' \in {"cgdir", "cgroups", "loop", "unwind"},
           pc' = "cgdir" => mnt["cg"] = 0 /\ p # "cg"
    PROVE  IInv'
<1>1. MountsOK
  BY IInvParts
<1>2. MountsOK' /\ \A q \in Points \ {p} : mnt'[q] = mnt[q]
  BY <1>1, FreshMount
<1>3. Skeleton'
  <2>1. "cg" \in Points
    BY Zenon
  <2>. QED
    BY <1>2, <2>1, Zenon DEF Skeleton
<1>. QED
  BY <1>2, <1>3, Assemble

\* the early statements: each fails to "done" or moves to the next one
LEMMA EarlyStep ==
    ASSUME IInv, SysDir \/ SysMount \/ CgDir \/ CgMount \/ GetCgroups
    PROVE  IInv'
<1>. Control /\ Skeleton
  BY IInvParts
<1>1. CASE SysDir
  <2>. Control'
    BY <1>1 DEF SysDir, Fail, Control, CacheType
  <2>. QED
    BY <1>1, KeepMounts DEF SysDir, Fail
<1>2. CASE SysMount
  <2>1. CASE Fail("sysfs")
    <3>. Control'
      BY <1>2, <2>1 DEF SysMount, Fail, Control, CacheType
    <3>. QED
      BY <1>2, <2>1, KeepMounts DEF SysMount, Fail
  <2>2. CASE pc' = "cgdir" /\ Mounted("sys") /\ UNCHANGED <<slaved, head, i, ret>>
    <3>1. Control'
      BY <1>2, <2>2 DEF SysMount, Control, CacheType
    <3>2. mnt["sys"] = 0 /\ mnt["cg"] = 0 /\ "sys" \in Points /\ "sys" # "cg"
      BY <1>2, Zenon DEF SysMount, Skeleton
    <3>. QED
      BY <2>2, <3>1, <3>2, AddMount DEF SysMount
  <2>. QED
    BY <1>2, <2>1, <2>2 DEF SysMount
<1>3. CASE CgDir
  <2>. Control'
    BY <1>3 DEF CgDir, Fail, Control, CacheType
  <2>. QED
    BY <1>3, KeepMounts DEF CgDir, Fail
<1>4. CASE CgMount
  <2>1. CASE Fail("tmpfs")
    <3>. Control'
      BY <1>4, <2>1 DEF CgMount, Fail, Control, CacheType
    <3>. QED
      BY <1>4, <2>1, KeepMounts DEF CgMount, Fail
  <2>2. CASE pc' = "cgroups" /\ Mounted("cg")
             /\ UNCHANGED <<slaved, head, i, ret>>
    <3>1. Control'
      BY <1>4, <2>2 DEF CgMount, Control, CacheType
    <3>2. mnt["cg"] = 0 /\ "cg" \in Points
      BY <1>4, Zenon DEF CgMount, Skeleton
    <3>. QED
      BY <2>2, <3>1, <3>2, AddMount DEF CgMount
  <2>. QED
    BY <1>4, <2>1, <2>2 DEF CgMount
<1>5. CASE GetCgroups
  <2>. Control'
    BY <1>5 DEF GetCgroups, Fail, Control, CacheType
  <2>. QED
    BY <1>5, KeepMounts DEF GetCgroups, Fail
<1>. QED
  BY <1>1, <1>2, <1>3, <1>4, <1>5

(***************************************************************************)
(* Binding a mount path that is not yet listed: its mirror has nothing    *)
(* mounted (it is not in head), so the one bind leaves a single mount, on *)
(* a path just listed and slaved.                                          *)
(***************************************************************************)
LEMMA BindStep ==
    ASSUME IInv, pc = "loop", i <= N, NEW m \in MountPaths, m \notin head,
           BindController(i, m), Recorded(i) = m, CacheType'
    PROVE  IInv'
<1>. Control /\ MountsOK
  BY IInvParts
<1>1. PICK slaveFails \in BOOLEAN :
         /\ slaved' = IF slaveFails THEN slaved ELSE slaved \cup {m}
         /\ IF SlaveFailed(slaveFails)
               THEN ToErr /\ UNCHANGED <<mnt, head, i>>
               ELSE \/ "nomem" \in Faults /\ ToErr /\ UNCHANGED <<mnt, head, i>>
                    \/ /\ head' = head \cup {Recorded(i)}
                       /\ \E okB, okS \in BOOLEAN :
                             /\ DoBindmount(m, okB)
                             /\ IF okB /\ okS
                                   THEN i' = i + 1 /\ ret' = 0 /\ UNCHANGED pc
                                   ELSE ToErr /\ UNCHANGED i
  BY DEF BindController
<1>2. CASE SlaveFailed(slaveFails)
  <2>. Control'
    BY <1>1, <1>2 DEF SlaveFailed, ToErr, Control, CacheType
  <2>. QED
    BY <1>1, <1>2, KeepMounts DEF ToErr
<1>3. CASE ~SlaveFailed(slaveFails)
  <2>0. slaved' = slaved \cup {m}
    BY <1>1, <1>3 DEF SlaveFailed
  <2>1. CASE "nomem" \in Faults /\ ToErr /\ UNCHANGED <<mnt, head, i>>
    <3>. Control'
      BY <2>0, <2>1 DEF ToErr, Control, CacheType
    <3>. QED
      BY <2>1, KeepMounts DEF ToErr
  <2>2. CASE /\ head' = head \cup {Recorded(i)}
             /\ \E okB, okS \in BOOLEAN :
                   /\ DoBindmount(m, okB)
                   /\ IF okB /\ okS
                         THEN i' = i + 1 /\ ret' = 0 /\ UNCHANGED pc
                         ELSE ToErr /\ UNCHANGED i
    <3>1. PICK okB, okS \in BOOLEAN :
             /\ DoBindmount(m, okB)
             /\ IF okB /\ okS
                   THEN i' = i + 1 /\ ret' = 0 /\ UNCHANGED pc
                   ELSE ToErr /\ UNCHANGED i
      BY <2>2
    <3>2. head' = head \cup {m} /\ pc' \in {"loop", "unwind"}
      BY <2>2, <3>1 DEF ToErr
    <3>3. Control'
      BY <2>0, <3>1, <3>2 DEF ToErr, Control, CacheType
    <3>4. CASE okB
      <4>1. mnt[m] \in 0..MaxStack /\ ~(mnt[m] > 0) /\ m \in Points
        BY Zenon DEF MountsOK
      <4>2. mnt[m] = 0
        BY <4>1
      <4>3. Mounted(m)
        BY <3>1, <3>4 DEF DoBindmount
      <4>. QED
        BY <3>2, <3>3, <4>1, <4>2, <4>3, AddMount
    <3>5. CASE ~okB
      <4>1. mnt' = mnt
        BY <3>1, <3>5 DEF DoBindmount
      <4>. QED
        BY <3>2, <3>3, <4>1, KeepMounts
    <3>. QED
      BY <3>4, <3>5
  <2>. QED
    BY <1>1, <1>3, <2>1, <2>2
<1>. QED
  BY <1>2, <1>3

\* one iteration of the loop
LEMMA LoopIInv ==
    ASSUME IInv, LoopStep
    PROVE  IInv'
<1>. Control
  BY IInvParts
<1>0. i \in Ctl /\ pc = "loop" /\ i <= N
  BY DEF LoopStep, Control
<1>1. PICK r \in {-1, 0, 1} :
         /\ GetCtl(i, r)
         /\ \/ /\ r = -1
               /\ ToErr
               /\ UNCHANGED <<mnt, slaved, head, i>>
            \/ /\ r # -1
               /\ \/ i \in Prvt
                  \/ ~Attempted(i)
                  \/ r = 0 /\ AlreadyListed(cache'[i])
               /\ i' = i + 1
               /\ ret' = r
               /\ UNCHANGED <<mnt, slaved, head, pc>>
            \/ /\ r = 1
               /\ i \notin Prvt /\ Attempted(i)
               /\ pc' \in {"segv", "unwind"}
               /\ ret' = 1
               /\ UNCHANGED <<mnt, slaved, head, i>>
            \/ /\ r = 0
               /\ i \notin Prvt /\ Attempted(i)
               /\ ~AlreadyListed(cache'[i])
               /\ BindController(i, cache'[i])
  BY DEF LoopStep
<1>2. CacheType'
  BY <1>0, <1>1, GetCtlFacts DEF Control
<1>3. CASE r = -1 /\ ToErr /\ UNCHANGED <<mnt, slaved, head, i>>
  <2>. Control'
    BY <1>2, <1>3 DEF ToErr, Control
  <2>. QED
    BY <1>3, KeepMounts DEF ToErr
<1>4. CASE r # -1 /\ i' = i + 1 /\ ret' = r /\ UNCHANGED <<mnt, slaved, head, pc>>
  <2>. Control'
    BY <1>0, <1>2, <1>4 DEF Control
  <2>. QED
    BY <1>0, <1>4, KeepMounts
<1>5. CASE r = 1 /\ pc' \in {"segv", "unwind"} /\ ret' = 1
           /\ UNCHANGED <<mnt, slaved, head, i>>
  <2>. Control'
    BY <1>2, <1>5 DEF Control
  <2>. QED
    BY <1>5, KeepMounts
<1>6. CASE r = 0 /\ ~AlreadyListed(cache'[i]) /\ BindController(i, cache'[i])
  <2>1. cache'[i] \in MountPaths
    BY <1>0, <1>1, <1>6, GetCtlFacts DEF Control
  <2>2. cache'[i] \notin head /\ Recorded(i) = cache'[i]
    BY <1>6 DEF AlreadyListed, Recorded
  <2>. QED
    BY <1>0, <1>2, <1>6, <2>1, <2>2, BindStep
<1>. QED
  BY <1>1, <1>3, <1>4, <1>5, <1>6

\* the unwinding: umount() of every listed path, then of the skeleton
LEMMA UnwindIInv ==
    ASSUME IInv, UnwindList \/ UnwindSkeleton
    PROVE  IInv'
<1>. MountsOK /\ Control
  BY IInvParts
<1>1. \A q \in Points : mnt[q] \in 0..MaxStack
  BY Zenon DEF MountsOK
<1>2. \A q \in Points : mnt[q] <= mnt[q]
  BY <1>1
<1>3. ASSUME NEW p \in Points
      PROVE  /\ Umount(mnt, p) \in [Points -> 0..MaxStack]
             /\ \A q \in Points : Umount(mnt, p)[q] <= mnt[q]
  BY UmountShrinks, Zenon
<1>4. SUFFICES ASSUME /\ mnt' \in [Points -> 0..MaxStack]
                      /\ \A q \in Points : mnt'[q] <= mnt[q]
                      /\ pc' \in {"umount1", "umount2", "done"}
                      /\ UNCHANGED <<cache, slaved, head, i, ret>>
               PROVE  IInv'
  <2>1. CASE UnwindList
    <3>1. \A p \in Points : /\ Umount(mnt, p)[p] \in 0..MaxStack
                            /\ Umount(mnt, p)[p] <= mnt[p]
      BY <1>3, Zenon
    <3>2. mnt' = [p \in Points |->
                    IF p \in head THEN Umount(mnt, p)[p] ELSE mnt[p]]
          /\ pc' = "umount1" /\ UNCHANGED <<cache, slaved, head, i, ret>>
      BY <2>1 DEF UnwindList
    <3>3. \A p \in Points :
             (IF p \in head THEN Umount(mnt, p)[p] ELSE mnt[p]) \in 0..MaxStack
      BY <1>1, <3>1, Zenon
    <3>4. \A p \in Points :
             (IF p \in head THEN Umount(mnt, p)[p] ELSE mnt[p]) <= mnt[p]
      BY <1>2, <3>1, Zenon
    <3>5. mnt' \in [Points -> 0..MaxStack]
      BY <3>2, <3>3, Zenon
    <3>6. \A q \in Points : mnt'[q] <= mnt[q]
      BY <3>2, <3>4, Zenon
    <3>. QED
      BY <3>2, <3>5, <3>6, Zenon
  <2>2. CASE UnwindSkeleton
    <3>1. UnwindOrder[1] = "cg" /\ UnwindOrder[2] = "sys"
      BY DEF UnwindOrder
    <3>2. "cg" \in Points /\ "sys" \in Points
      BY Zenon
    <3>3. \/ mnt' = Umount(mnt, "cg") /\ pc' = "umount2"
          \/ mnt' = Umount(mnt, "sys") /\ pc' = "done"
      BY <2>2, <3>1, Zenon DEF UnwindSkeleton
    <3>4. UNCHANGED <<cache, slaved, head, i, ret>>
      BY <2>2 DEF UnwindSkeleton
    <3>5. CASE mnt' = Umount(mnt, "cg") /\ pc' = "umount2"
      <4>1. /\ mnt' \in [Points -> 0..MaxStack]
            /\ \A q \in Points : mnt'[q] <= mnt[q]
        BY <1>3, <3>2, <3>5, Zenon
      <4>. QED
        BY <3>4, <3>5, <4>1, Zenon
    <3>6. CASE mnt' = Umount(mnt, "sys") /\ pc' = "done"
      <4>1. /\ mnt' \in [Points -> 0..MaxStack]
            /\ \A q \in Points : mnt'[q] <= mnt[q]
        BY <1>3, <3>2, <3>6, Zenon
      <4>. QED
        BY <3>4, <3>6, <4>1, Zenon
    <3>. QED
      BY <3>3, <3>5, <3>6
  <2>. QED
    BY <2>1, <2>2
<1>5. MountsOK'
  <2>1. head' = head
    BY <1>4
  <2>. QED
    BY <1>4, <2>1, Shrinks
<1>6. Skeleton'
  BY <1>4, Zenon DEF Skeleton
<1>7. Control'
  BY <1>4 DEF Control, CacheType
<1>. QED
  BY <1>5, <1>6, <1>7, Assemble

LEMMA NextIInv == IInv /\ [Next]_vars => IInv'
<1>. SUFFICES ASSUME IInv, [Next]_vars PROVE IInv'
  OBVIOUS
<1>. Control
  BY IInvParts
<1>1. CASE SysDir \/ SysMount \/ CgDir \/ CgMount \/ GetCgroups
  BY <1>1, EarlyStep
<1>2. CASE LoopStep
  BY <1>2, LoopIInv
<1>3. CASE UnwindList \/ UnwindSkeleton
  BY <1>3, UnwindIInv
<1>4. CASE LoopDone
  <2>. Control'
    BY <1>4 DEF LoopDone, Control, CacheType
  <2>. QED
    BY <1>4, KeepMounts DEF LoopDone
<1>5. CASE Returned \/ UNCHANGED vars
  <2>1. UNCHANGED vars
    BY <1>5 DEF Returned
  <2>2. Control'
    BY <2>1 DEF vars, Control, CacheType
  <2>. QED
    BY <2>1, <2>2, KeepMounts DEF vars
<1>. QED
  BY <1>1, <1>2, <1>3, <1>4, <1>5 DEF Next
-----------------------------------------------------------------------------
\* TypeOK: every variable of the cg_bindmount_cgroup model keeps its type
THEOREM BindTypeCorrect == Spec => []TypeOK
<1>1. IInv => TypeOK
  BY DEF IInv
<1>. QED
  BY <1>1, InitIInv, NextIInv, PTL DEF Spec

\* NoStackedBind: cg_bindmount_cgroup never mounts twice on one point, so
\* co-mounted controllers are bound once and one umount undoes each mount
THEOREM SingleMounts == Spec => []NoStackedBind
<1>1. IInv => NoStackedBind
  BY DEF IInv
<1>. QED
  BY <1>1, InitIInv, NextIInv, PTL DEF Spec

-----------------------------------------------------------------------------
(* SetupOkAllBound and SetupAllOrNothing                                   *)

\* mount(2) leaves a mount on its point and takes none from another
LEMMA MountedGrows ==
    ASSUME mnt \in [Points -> 0..MaxStack], NEW p \in Points, Mounted(p)
    PROVE  /\ mnt'[p] > 0
           /\ \A q \in Points \ {p} : mnt'[q] = mnt[q]
           /\ \A q \in Points : mnt[q] > 0 => mnt'[q] > 0
BY DEF Mounted

(***************************************************************************)
(* cg_get_ctl returns 0 only for a controller with a mount point, and     *)
(* leaves that point in the cache; a sound cache stays sound.              *)
(***************************************************************************)
LEMMA GetCtlSound ==
    ASSUME CacheType, CacheSound, NEW c \in Ctl, NEW r, GetCtl(c, r)
    PROVE  /\ CacheSound'
           /\ r = 0 => Mount[c] # NoMount /\ cache'[c] = Mount[c]
BY DEF GetCtl, CacheType, CacheSound, CacheValues

LEMMA InitSInv == Init => SInv
BY DEF Init, SInv, CacheSound, SetupProgress, SetupOkAllBound

\* the early statements: sysfs and the tmpfs are mounted in turn, nothing
\* is listed and the loop starts at its first controller
LEMMA EarlySInv ==
    ASSUME IInv, SInv, SysDir \/ SysMount \/ CgDir \/ CgMount \/ GetCgroups
    PROVE  SInv'
<1>1. mnt \in [Points -> 0..MaxStack] /\ CacheSound /\ SetupProgress
    BY DEF IInv, TypeOK, SInv
<1>2. CacheSound'
    BY <1>1 DEF SysDir, SysMount, CgDir, CgMount, GetCgroups, CacheSound
\* a Fail returns 1 with nothing else to show
<1>3. CASE \E f : Fail(f)
    <2>1. pc' = "done" /\ ret' = 1
        BY <1>3 DEF Fail
    <2>. QED
        BY <1>2, <2>1 DEF SInv, SetupProgress, SetupOkAllBound
<1>4. CASE SysDir /\ ~\E f : Fail(f)
    BY <1>1, <1>2, <1>4 DEF SysDir, Fail, SInv, SetupProgress,
                           SetupOkAllBound
<1>5. CASE SysMount /\ ~\E f : Fail(f)
    <2>1. pc = "sysfs" /\ pc' = "cgdir" /\ Mounted("sys")
          /\ UNCHANGED <<slaved, head, i, ret>>
        BY <1>5 DEF SysMount, Fail
    <2>2. mnt'["sys"] > 0
        BY <1>1, <2>1, MountedGrows
    <2>. QED
        BY <1>1, <1>2, <2>1, <2>2 DEF SInv, SetupProgress, SetupOkAllBound
<1>6. CASE CgDir /\ ~\E f : Fail(f)
    BY <1>1, <1>2, <1>6 DEF CgDir, Fail, SInv, SetupProgress,
                           SetupOkAllBound
<1>7. CASE CgMount /\ ~\E f : Fail(f)
    <2>1. pc = "tmpfs" /\ pc' = "cgroups" /\ Mounted("cg")
          /\ UNCHANGED <<slaved, head, i, ret>>
        BY <1>7 DEF CgMount, Fail
    <2>2. mnt'["cg"] > 0 /\ mnt'["sys"] > 0
        BY <1>1, <2>1, MountedGrows DEF SetupProgress
    <2>. QED
        BY <1>1, <1>2, <2>1, <2>2 DEF SInv, SetupProgress, SetupOkAllBound
<1>8. CASE GetCgroups /\ ~\E f : Fail(f)
    <2>1. pc = "cgroups" /\ pc' = "loop"
          /\ UNCHANGED <<mnt, slaved, head, i, ret>>
        BY <1>8 DEF GetCgroups, Fail
    <2>2. head = {} /\ i = 1 /\ mnt["sys"] > 0 /\ mnt["cg"] > 0
        BY <1>1, <2>1 DEF SetupProgress
    <2>. QED
        BY <1>2, <2>1, <2>2 DEF SInv, SetupProgress, SetupOkAllBound
<1>. QED
    BY <1>3, <1>4, <1>5, <1>6, <1>7, <1>8

\* a step that takes the call to the unwinding with ret set to 1
LEMMA ToErrSInv ==
    ASSUME CacheSound', ToErr
    PROVE  SInv'
BY DEF ToErr, SInv, SetupProgress, SetupOkAllBound

(***************************************************************************)
(* One iteration of the loop: controller i is skipped (then it is private, *)
(* not attempted, or its mount path is already listed, and so bound), or  *)
(* bound, or the call goes to err.                                         *)
(***************************************************************************)
LEMMA LoopSInv ==
    ASSUME IInv, SInv, LoopStep
    PROVE  SInv'
<1>1. /\ mnt \in [Points -> 0..MaxStack] /\ CacheType /\ CacheSound
      /\ SetupProgress /\ pc = "loop" /\ i \in 1..N /\ head \subseteq MountPaths
    BY DEF IInv, TypeOK, SInv, CacheType, LoopStep
<1>2. PICK r \in {-1, 0, 1} :
         /\ GetCtl(i, r)
         /\ \/ /\ r = -1
               /\ ToErr
               /\ UNCHANGED <<mnt, slaved, head, i>>
            \/ /\ r # -1
               /\ \/ i \in Prvt
                  \/ ~Attempted(i)
                  \/ r = 0 /\ AlreadyListed(cache'[i])
               /\ i' = i + 1
               /\ ret' = r
               /\ UNCHANGED <<mnt, slaved, head, pc>>
            \/ /\ r = 1
               /\ i \notin Prvt /\ Attempted(i)
               /\ pc' \in {"segv", "unwind"}
               /\ ret' = 1
               /\ UNCHANGED <<mnt, slaved, head, i>>
            \/ /\ r = 0
               /\ i \notin Prvt /\ Attempted(i)
               /\ ~AlreadyListed(cache'[i])
               /\ BindController(i, cache'[i])
    BY DEF LoopStep
<1>3. /\ CacheSound'
      /\ r = 0 => Mount[i] # NoMount /\ cache'[i] = Mount[i]
    BY <1>1, <1>2, GetCtlSound
<1>4. /\ \A m \in head : mnt[m] > 0
      /\ \A c \in 1..i - 1 :
            (c \notin Prvt /\ Attempted(c) /\ Mount[c] # NoMount) =>
                Mount[c] \in head
      /\ mnt["sys"] > 0 /\ mnt["cg"] > 0
    BY <1>1 DEF SetupProgress
<1>5. i' = i + 1 => 1..i' - 1 = (1..i - 1) \cup {i}
    BY <1>1
<1>6. CASE r = -1 /\ ToErr
    BY <1>3, <1>6, ToErrSInv
<1>7. CASE /\ r # -1
           /\ \/ i \in Prvt
              \/ ~Attempted(i)
              \/ r = 0 /\ AlreadyListed(cache'[i])
           /\ i' = i + 1
           /\ ret' = r
           /\ UNCHANGED <<mnt, slaved, head, pc>>
    <2>1. (i \notin Prvt /\ Attempted(i) /\ Mount[i] # NoMount) =>
              Mount[i] \in head
        BY <1>3, <1>7 DEF AlreadyListed
    <2>2. \A c \in 1..i' - 1 :
              (c \notin Prvt /\ Attempted(c) /\ Mount[c] # NoMount) =>
                  Mount[c] \in head
        BY <1>4, <1>5, <1>7, <2>1
    <2>. QED
        BY <1>1, <1>3, <1>4, <1>7, <2>2 DEF SInv, SetupProgress,
                                              SetupOkAllBound
<1>8. CASE r = 1 /\ pc' \in {"segv", "unwind"} /\ ret' = 1
    BY <1>3, <1>8 DEF SInv, SetupProgress, SetupOkAllBound
<1>9. CASE /\ r = 0
           /\ i \notin Prvt /\ Attempted(i)
           /\ BindController(i, cache'[i])
    <2>. DEFINE m == Mount[i]
    <2>1. BindController(i, m) /\ m \in MountPaths
        BY <1>1, <1>3, <1>9
    <2>2. PICK slaveFails \in BOOLEAN :
              IF SlaveFailed(slaveFails)
                 THEN ToErr /\ UNCHANGED <<mnt, head, i>>
                 ELSE \/ "nomem" \in Faults /\ ToErr /\ UNCHANGED <<mnt, head, i>>
                      \/ /\ head' = head \cup {Recorded(i)}
                         /\ \E okB, okS \in BOOLEAN :
                               /\ DoBindmount(m, okB)
                               /\ okB => PerctlSymlink(m, okS)
                               /\ IF okB /\ okS
                                     THEN i' = i + 1 /\ ret' = 0 /\ UNCHANGED pc
                                     ELSE ToErr /\ UNCHANGED i
        BY <2>1 DEF BindController
    <2>3. CASE ToErr
        BY <1>3, <2>3, ToErrSInv
    <2>4. CASE /\ ~ToErr
               /\ head' = head \cup {Recorded(i)}
               /\ \E okB, okS \in BOOLEAN :
                     /\ DoBindmount(m, okB)
                     /\ okB => PerctlSymlink(m, okS)
                     /\ IF okB /\ okS
                           THEN i' = i + 1 /\ ret' = 0 /\ UNCHANGED pc
                           ELSE ToErr /\ UNCHANGED i
        <3>1. PICK okB, okS \in BOOLEAN :
                  /\ DoBindmount(m, okB)
                  /\ IF okB /\ okS
                        THEN i' = i + 1 /\ ret' = 0 /\ UNCHANGED pc
                        ELSE ToErr /\ UNCHANGED i
            BY <2>4
        <3>2. okB /\ okS /\ i' = i + 1 /\ pc' = "loop"
            BY <1>1, <2>4, <3>1
        <3>3. Mounted(m) /\ head' = head \cup {m}
            BY <1>3, <1>9, <2>4, <3>1, <3>2 DEF DoBindmount, Recorded
        <3>4. /\ \A q \in Points : mnt[q] > 0 => mnt'[q] > 0
              /\ mnt'[m] > 0
            BY <1>1, <2>1, <3>3, MountedGrows
        <3>5. \A x \in head' : mnt'[x] > 0
            BY <1>1, <1>4, <2>1, <3>3, <3>4
        <3>6. \A c \in 1..i' - 1 :
                  (c \notin Prvt /\ Attempted(c) /\ Mount[c] # NoMount) =>
                      Mount[c] \in head'
            BY <1>4, <1>5, <3>2, <3>3
        <3>7. mnt'["sys"] > 0 /\ mnt'["cg"] > 0
            BY <1>4, <3>4
        <3>. QED
            BY <1>3, <3>2, <3>5, <3>6, <3>7 DEF SInv, SetupProgress,
                                                SetupOkAllBound
    <2>. QED
        BY <2>2, <2>3, <2>4 DEF SlaveFailed
<1>. QED
    BY <1>2, <1>6, <1>7, <1>8, <1>9

\* umount() of a point with at most one mount and nothing below it leaves
\* that point empty and the others as they were
LEMMA UmountEmpties ==
    ASSUME mnt \in [Points -> 0..MaxStack], NoStackedBind,
           NEW p \in Points, ~HasSubmount(p)
    PROVE  /\ Umount(mnt, p)[p] = 0
           /\ \A q \in Points \ {p} : Umount(mnt, p)[q] = mnt[q]
<1>1. mnt[p] \in 0..1
    BY DEF NoStackedBind
<1>. QED
    BY <1>1 DEF Umount

\* nothing is mounted below a mirror of a host mount point
LEMMA MirrorNoSubmount ==
    ASSUME NEW m \in MountPaths
    PROVE  ~HasSubmount(m)
BY DEF HasSubmount

(***************************************************************************)
(* The end of the loop and the unwinding: "err: if (ret)" returns 0 with   *)
(* every controller before N + 1 handled, or unwinds; the unwinding        *)
(* removes each listed mirror, then the tmpfs, then sysfs.                 *)
(***************************************************************************)
LEMMA EndSInv ==
    ASSUME IInv, SInv, LoopDone \/ UnwindList \/ UnwindSkeleton
    PROVE  SInv'
<1>1. /\ mnt \in [Points -> 0..MaxStack] /\ CacheSound /\ SetupProgress
      /\ NoStackedBind /\ i \in 1..N + 1
      /\ \A m \in MountPaths : mnt[m] > 0 => m \in head
    BY DEF IInv, TypeOK, SInv
<1>2. cache' = cache
    BY DEF LoopDone, UnwindList, UnwindSkeleton
<1>3. CacheSound'
    BY <1>1, <1>2 DEF CacheSound
<1>4. CASE LoopDone
    <2>1. pc = "loop" /\ i > N /\ UNCHANGED <<mnt, head, i, ret>>
        BY <1>4 DEF LoopDone
    <2>2. CASE ret # 0
        BY <1>3, <1>4, <2>1, <2>2 DEF LoopDone, SInv, SetupProgress,
                                      SetupOkAllBound
    <2>3. CASE ret = 0
        <3>1. pc' = "done" /\ i = N + 1
            BY <1>1, <1>4, <2>1, <2>3 DEF LoopDone
        <3>2. \A c \in Ctl \ Prvt :
                 ((c = Systemd \/ c \in Active) /\ Mount[c] # NoMount) =>
                    mnt[Mount[c]] > 0
            BY <1>1, <2>1, <3>1 DEF SetupProgress, Attempted, Ctl
        <3>3. mnt["sys"] > 0 /\ mnt["cg"] > 0
            BY <1>1, <2>1 DEF SetupProgress
        <3>. QED
            BY <1>3, <2>1, <3>1, <3>2, <3>3 DEF SInv, SetupProgress,
                                                SetupOkAllBound
    <2>. QED
        BY <2>2, <2>3
<1>5. CASE UnwindList
    <2>1. pc = "unwind" /\ pc' = "umount1" /\ ret' = ret /\ ret # 0
        BY <1>1, <1>5 DEF UnwindList, SetupProgress
    <2>2. \A m \in MountPaths : mnt'[m] = 0
        <3>1. SUFFICES ASSUME NEW m \in MountPaths PROVE mnt'[m] = 0
            OBVIOUS
        <3>2. mnt'[m] = IF m \in head THEN Umount(mnt, m)[m] ELSE mnt[m]
            BY <1>5 DEF UnwindList
        <3>3. Umount(mnt, m)[m] = 0
            BY <1>1, MirrorNoSubmount, UmountEmpties
        <3>4. m \notin head => mnt[m] = 0
            BY <1>1
        <3>. QED
            BY <3>2, <3>3, <3>4
    <2>. QED
        BY <1>3, <2>1, <2>2 DEF SInv, SetupProgress, SetupOkAllBound
<1>6. CASE UnwindSkeleton /\ pc = "umount1"
    <2>1. mnt' = Umount(mnt, "cg") /\ pc' = "umount2" /\ ret' = ret /\ ret # 0
        BY <1>1, <1>6 DEF UnwindSkeleton, UnwindOrder, SetupProgress
    <2>2. \A m \in MountPaths : mnt[m] = 0
        BY <1>1, <1>6 DEF SetupProgress
    <2>3. ~HasSubmount("cg")
        BY <2>2 DEF HasSubmount
    <2>4. mnt'["cg"] = 0 /\ \A m \in MountPaths : mnt'[m] = 0
        BY <1>1, <2>1, <2>2, <2>3, UmountEmpties
    <2>. QED
        BY <1>3, <1>6, <2>1, <2>4 DEF SInv, SetupProgress, SetupOkAllBound
<1>7. CASE UnwindSkeleton /\ pc = "umount2"
    <2>1. pc' = "done" /\ ret' = ret /\ ret # 0
        BY <1>1, <1>7 DEF UnwindSkeleton, SetupProgress
    <2>. QED
        BY <1>3, <2>1 DEF SInv, SetupProgress, SetupOkAllBound
<1>. QED
    BY <1>4, <1>5, <1>6, <1>7 DEF UnwindSkeleton

LEMMA NextSInv == IInv /\ SInv /\ [Next]_vars => SInv'
<1>. SUFFICES ASSUME IInv, SInv, [Next]_vars PROVE SInv'
  OBVIOUS
<1>1. CASE SysDir \/ SysMount \/ CgDir \/ CgMount \/ GetCgroups
  BY <1>1, EarlySInv
<1>2. CASE LoopStep
  BY <1>2, LoopSInv
<1>3. CASE LoopDone \/ UnwindList \/ UnwindSkeleton
  BY <1>3, EndSInv
<1>4. CASE Returned \/ UNCHANGED vars
  <2>1. UNCHANGED vars
    BY <1>4 DEF Returned
  <2>. QED
    BY <2>1 DEF vars, SInv, CacheSound, SetupProgress, SetupOkAllBound
<1>. QED
  BY <1>1, <1>2, <1>3, <1>4 DEF Next

\* IInv, the strengthening the theorems above rest on, holds in every state
\* of cg_bindmount_cgroup
THEOREM BindInvariant == Spec => []IInv
BY InitIInv, NextIInv, PTL DEF Spec

\* SInv holds, along with IInv, in every state of cg_bindmount_cgroup, for
\* every controller table, active set and fault set
THEOREM SetupInvariant == Spec => [](IInv /\ SInv)
<1>1. Init => IInv /\ SInv
  BY InitIInv, InitSInv
<1>2. IInv /\ SInv /\ [Next]_vars => (IInv /\ SInv)'
  BY NextIInv, NextSInv
<1>. QED
  BY <1>1, <1>2, PTL DEF Spec

(***************************************************************************)
(* SetupOkAllBound: when cg_bindmount_cgroup returns 0, sysfs and the      *)
(* tmpfs are mounted and every active shared controller and systemd with a *)
(* mount point is bound, under every fault, co-mounted controllers (bound  *)
(* once through the find_str check) included.                              *)
(***************************************************************************)
THEOREM SetupOkProved == Spec => []SetupOkAllBound
<1>1. IInv /\ SInv => SetupOkAllBound
  BY DEF SInv
<1>. QED
  BY <1>1, SetupInvariant, PTL

(***************************************************************************)
(* With no failure after sysfs is mounted and before the loop, a step that *)
(* ends the call with an error leaves nothing mounted: an early failure   *)
(* comes before any mount, and the unwinding removes what the loop        *)
(* mounted, then the tmpfs, then sysfs.                                    *)
(***************************************************************************)
LEMMA NextAllOrNothing ==
    ASSUME "cgdir" \notin Faults, "tmpfs" \notin Faults,
           "cgroups" \notin Faults,
           IInv, SInv, SetupAllOrNothing, [Next]_vars
    PROVE  SetupAllOrNothing'
<1>. SUFFICES ASSUME pc' = "done", ret' # 0
              PROVE  \A p \in Points : mnt'[p] = 0
  BY DEF SetupAllOrNothing
<1>1. /\ mnt \in [Points -> 0..MaxStack] /\ NoStackedBind /\ SetupProgress
      /\ \A m \in MountPaths : mnt[m] > 0 => m \in head
      /\ pc \in {"sysdir", "sysfs"} => mnt["sys"] = 0
      /\ pc \in {"sysdir", "sysfs", "cgdir", "tmpfs"} => mnt["cg"] = 0
    BY DEF IInv, TypeOK, SInv
\* a failure of an early statement
<1>2. CASE SysDir \/ SysMount \/ CgDir \/ CgMount \/ GetCgroups
  <2>1. pc \in {"sysdir", "sysfs"} /\ mnt' = mnt
    BY <1>2 DEF SysDir, SysMount, CgDir, CgMount, GetCgroups, Fail
  <2>2. head = {}
    BY <1>1, <2>1 DEF SetupProgress
  <2>. QED
    BY <1>1, <2>1, <2>2
<1>3. CASE LoopStep
  BY <1>3 DEF LoopStep, ToErr, BindController
<1>4. CASE LoopDone
  BY <1>4 DEF LoopDone
<1>5. CASE UnwindList
  BY <1>5 DEF UnwindList
<1>6. CASE UnwindSkeleton
  <2>1. pc = "umount2" /\ mnt' = Umount(mnt, "sys")
    BY <1>6 DEF UnwindSkeleton, UnwindOrder
  <2>2. mnt["cg"] = 0 /\ \A m \in MountPaths : mnt[m] = 0
    BY <1>1, <2>1 DEF SetupProgress
  <2>3. ~HasSubmount("sys")
    BY <2>2 DEF HasSubmount
  <2>. QED
    BY <1>1, <2>1, <2>2, <2>3, UmountEmpties
<1>7. CASE Returned \/ UNCHANGED vars
  <2>1. UNCHANGED vars
    BY <1>7 DEF Returned
  <2>. QED
    BY <2>1 DEF vars, SetupAllOrNothing
<1>. QED
  BY <1>2, <1>3, <1>4, <1>5, <1>6, <1>7 DEF Next

(***************************************************************************)
(* SetupAllOrNothing: when cg_bindmount_cgroup fails, nothing it mounted   *)
(* remains mounted.  The hypothesis is needed: the code returns at once    *)
(* when the mkdir of <root>/sys/fs/cgroup, the tmpfs mount or the read of  *)
(* /proc/cgroups fails, with sysfs (and the tmpfs) left mounted, as the    *)
(* run bindmount_early shows.                                              *)
(***************************************************************************)
THEOREM AllOrNothingProved ==
    ASSUME "cgdir" \notin Faults, "tmpfs" \notin Faults,
           "cgroups" \notin Faults
    PROVE  Spec => []SetupAllOrNothing
<1>1. Init => IInv /\ SInv /\ SetupAllOrNothing
  BY InitIInv, InitSInv DEF Init, SetupAllOrNothing
<1>2. IInv /\ SInv /\ SetupAllOrNothing /\ [Next]_vars
          => (IInv /\ SInv /\ SetupAllOrNothing)'
  BY NextIInv, NextSInv, NextAllOrNothing
<1>. QED
  BY <1>1, <1>2, PTL DEF Spec

=============================================================================
