-------------------------- MODULE CgCtlThreadsProofs --------------------------
(***************************************************************************)
(* Proofs about CgCtlThreads: while nothing is remounted, the threaded    *)
(* cg_get_ctl implements CgCtlAtomic.  The argument is the invariant RInv: *)
(* only the owner of cg_ctl_map_mtx is between the lock and the unlock, a  *)
(* thread that scans finds its controller uncached, and the buffer it      *)
(* duplicates holds the controller's mount point.                          *)
(* With remounts, the invariant TInv of CgCtlThreads gives ResolvedAgree  *)
(* and NoScanWhenCached for every number of threads and controllers.      *)
(***************************************************************************)
EXTENDS CgCtlThreads, TLAPS

\* the statements of cg_get_ctl after the lock and before the unlock returns
Critical == {"check", "scan", "dup", "unlock"}

RTypeOK ==
    /\ cache \in [Ctl -> MountPaths \cup {NoPath}]
    /\ mounts = Mount
    /\ remounts \in Nat
    /\ holder \in Threads \cup {NoThread}
    /\ pc \in [Threads -> Pcs]
    /\ ret \in [Threads -> {-1, 0, 1}]
    /\ buf \in [Threads -> MountPaths \cup {NoPath}]

RInv ==
    /\ RTypeOK
    /\ \A c \in Ctl : cache[c] \in {NoPath, Mount[c]}
    /\ \A t \in Threads : pc[t] \in Critical => holder = t
    /\ \A t \in Threads : pc[t] \in {"scan", "dup"} => cache[CtlOf[t]] = NoPath
    /\ \A t \in Threads :
          pc[t] = "dup" => buf[t] = Mount[CtlOf[t]] /\ Mount[CtlOf[t]] # NoMount

\* the mapped abstract variables
APc == [t \in Threads |-> IF InCall(t) THEN "call" ELSE "returned"]
AFaults == IF Faults = {} THEN {} ELSE {"mounts"}

USE ResolverAssumption, ThreadsAssumption DEF Ctl

-----------------------------------------------------------------------------
(* The invariant                                                           *)

\* RInv holds when the threads start: nobody holds cg_ctl_map_mtx, nothing
\* is cached and the table is the one /proc/mounts lists
LEMMA RInvInit == Init => RInv
BY DEF Init, RInv, RTypeOK, Critical, Pcs

\* while nothing is remounted every step of cg_get_ctl and of
\* cg_get_slice_name keeps RInv: the lock admits one thread to the cache
LEMMA RInvNext ==
    ASSUME MaxRemounts = 0
    PROVE  RInv /\ [Next]_vars => RInv'
<1> SUFFICES ASSUME RInv, [Next]_vars PROVE RInv'
    OBVIOUS
<1>1. ASSUME NEW t \in Threads, Lock(t) PROVE RInv'
    BY <1>1 DEF RInv, RTypeOK, Lock, LockFree, Goto, Critical, Pcs
<1>2. ASSUME NEW t \in Threads, Check(t) PROVE RInv'
    <2>1. CASE Cached(CtlOf[t])
        BY <1>2, <2>1 DEF RInv, RTypeOK, Check, Cached, Goto, Critical, Pcs
    <2>2. CASE ~Cached(CtlOf[t])
        <3>1. pc' = [pc EXCEPT ![t] = "scan"] /\ ret' = ret
            BY <1>2, <2>2 DEF Check, Goto
        <3>2. UNCHANGED <<cache, mounts, holder, buf, remounts>>
            BY <1>2 DEF Check
        <3>3. RTypeOK'
            BY <3>1, <3>2 DEF RInv, RTypeOK, Pcs
        <3>4. \A u \in Threads : pc'[u] \in Critical => holder' = u
            BY <1>2, <3>1, <3>2 DEF RInv, RTypeOK, Critical, Check
        <3>5. \A u \in Threads : pc'[u] \in {"scan", "dup"} =>
                                     cache'[CtlOf[u]] = NoPath
            BY <1>2, <2>2, <3>1, <3>2 DEF RInv, RTypeOK, Cached, Check
        <3>6. \A u \in Threads : pc'[u] = "dup" =>
                 buf'[u] = Mount[CtlOf[u]] /\ Mount[CtlOf[u]] # NoMount
            BY <1>2, <3>1, <3>2 DEF RInv, RTypeOK, Check
        <3>7. QED
            BY <3>2, <3>3, <3>4, <3>5, <3>6 DEF RInv
    <2>3. QED
        BY <2>1, <2>2
<1>3. ASSUME NEW t \in Threads, Scan(t) PROVE RInv'
    <2>1. CASE "mounts" \in Faults /\ ret' = [ret EXCEPT ![t] = -1]
                /\ Goto(t, "unlock") /\ UNCHANGED buf
        BY <1>3, <2>1 DEF RInv, RTypeOK, Scan, Goto, Critical, Pcs
    <2>2. CASE ~Found(CtlOf[t]) /\ ret' = [ret EXCEPT ![t] = 1]
                /\ Goto(t, "unlock") /\ UNCHANGED buf
        BY <1>3, <2>2 DEF RInv, RTypeOK, Scan, Goto, Critical, Pcs
    <2>3. CASE Found(CtlOf[t]) /\ buf' = [buf EXCEPT ![t] = mounts[CtlOf[t]]]
                /\ Goto(t, "dup") /\ UNCHANGED ret
        BY <1>3, <2>3 DEF RInv, RTypeOK, Scan, Found, Goto, Critical, Pcs
    <2>4. QED
        BY <1>3, <2>1, <2>2, <2>3 DEF Scan
<1>4. ASSUME NEW t \in Threads, Dup(t) PROVE RInv'
    <2>1. CASE "nomem" \in Faults /\ ret' = [ret EXCEPT ![t] = -1]
                /\ UNCHANGED cache
        BY <1>4, <2>1 DEF RInv, RTypeOK, Dup, Goto, Critical, Pcs
    <2>2. CASE cache' = [cache EXCEPT ![CtlOf[t]] = buf[t]]
                /\ ret' = [ret EXCEPT ![t] = 0]
        BY <1>4, <2>2 DEF RInv, RTypeOK, Dup, Goto, Critical, Pcs
    <2>3. QED
        BY <1>4, <2>1, <2>2 DEF Dup
<1>5. ASSUME NEW t \in Threads, Unlock(t) PROVE RInv'
    BY <1>5 DEF RInv, RTypeOK, Unlock, Unlocks, Goto, Critical, Pcs
<1>6. ASSUME NEW t \in Threads,
             SliceCheck(t) \/ SliceParam(t) \/ SliceCat(t) \/ SliceInited(t)
             \/ Name(t)
      PROVE  RInv'
    <2>1. CASE SliceCheck(t)
        BY <2>1 DEF RInv, RTypeOK, SliceCheck, Goto, Critical, Pcs
    <2>2. CASE SliceParam(t) /\ ParamFound
        <3>1. pc' = [pc EXCEPT ![t] = "inited"] /\ pc[t] = "param"
            BY <2>2 DEF SliceParam, Goto
        <3>2. UNCHANGED <<cache, mounts, holder, ret, buf, remounts>>
            BY <2>2 DEF SliceParam
        <3>3. QED
            BY <3>1, <3>2 DEF RInv, RTypeOK, Critical, Pcs
    <2>3. CASE SliceParam(t) /\ ~ParamFound
        BY <2>3 DEF RInv, RTypeOK, SliceParam, Goto, Critical, Pcs
    <2>4. CASE SliceCat(t)
        BY <2>4 DEF RInv, RTypeOK, SliceCat, Goto, Critical, Pcs
    <2>5. CASE SliceInited(t) \/ Name(t)
        BY <2>5 DEF RInv, RTypeOK, SliceInited, Name, Goto, Critical, Pcs
    <2>6. QED
        BY <1>6, <2>1, <2>2, <2>3, <2>4, <2>5
<1>7. ASSUME NEW c \in Ctl, NEW p \in MountPaths, Remount(c, p) PROVE RInv'
    BY <1>7 DEF RInv, RTypeOK, Remount
<1>8. CASE Finished \/ UNCHANGED vars
    BY <1>8 DEF RInv, RTypeOK, Finished, vars
<1>9. QED
    BY <1>1, <1>2, <1>3, <1>4, <1>5, <1>6, <1>7, <1>8 DEF Next, Thread

-----------------------------------------------------------------------------
(* The refinement mapping                                                  *)

\* a step that moves thread t between two statements on the same side of
\* the step that takes effect leaves the mapped apc alone
LEMMA SameSide ==
    ASSUME NEW t \in Threads, NEW s,
           pc \in [Threads -> Pcs],
           pc' = [pc EXCEPT ![t] = s],
           InCall(t) <=> s \in {"lock", "check", "scan", "dup"}
    PROVE  APc' = APc
BY DEF APc, InCall

\* the step of thread t that takes effect: apc[t] becomes "returned"
LEMMA TakesEffect ==
    ASSUME NEW t \in Threads, NEW s,
           pc \in [Threads -> Pcs],
           pc' = [pc EXCEPT ![t] = s],
           InCall(t), s \notin {"lock", "check", "scan", "dup"}
    PROVE  APc' = [APc EXCEPT ![t] = "returned"]
BY DEF APc, InCall

\* the threads start as the atomic specification does
LEMMA InitMaps == Init => Atomic!Init
BY DEF Init, Atomic!Init, Atomic!Ctl, APc, InCall

\* every step of the threads is an atomic GetCtl of one thread or leaves
\* the cache, the results and the calls that have taken effect alone
LEMMA StepMaps ==
    ASSUME MaxRemounts = 0
    PROVE  RInv /\ [Next]_vars => [Atomic!Next]_Atomic!avars
<1> SUFFICES ASSUME RInv, [Next]_vars PROVE [Atomic!Next]_Atomic!avars
    OBVIOUS
<1> DEFINE Stutter == UNCHANGED <<cache, APc, ret>>
<1>0. Stutter => [Atomic!Next]_Atomic!avars
    BY DEF Atomic!avars, APc
<1>1. ASSUME NEW t \in Threads, NEW r \in {-1, 0, 1},
             Atomic!GetCtl(CtlOf[t], r), ret' = [ret EXCEPT ![t] = r],
             APc' = [APc EXCEPT ![t] = "returned"], InCall(t)
      PROVE  [Atomic!Next]_Atomic!avars
    <2>1. Atomic!Resolve(t)
        BY <1>1 DEF Atomic!Resolve, APc
    <2>2. QED
        BY <2>1 DEF Atomic!Next
<1>2. ASSUME NEW t \in Threads, Lock(t) PROVE Stutter
    BY <1>2, SameSide DEF Lock, Goto, RInv, RTypeOK, InCall
<1>3. ASSUME NEW t \in Threads, Check(t) PROVE [Atomic!Next]_Atomic!avars
    <2>1. CASE Cached(CtlOf[t])
        <3>1. APc' = [APc EXCEPT ![t] = "returned"]
            BY <1>3, <2>1, TakesEffect DEF Check, Goto, RInv, RTypeOK, InCall
        <3>2. Atomic!GetCtl(CtlOf[t], 0)
            BY <1>3, <2>1 DEF Check, Cached, Atomic!GetCtl
        <3>3. QED
            BY <1>1, <1>3, <2>1, <3>1, <3>2 DEF Check, InCall
    <2>2. CASE ~Cached(CtlOf[t])
        BY <1>0, <1>3, <2>2, SameSide DEF Check, Goto, RInv, RTypeOK, InCall
    <2>3. QED
        BY <2>1, <2>2
<1>4. ASSUME NEW t \in Threads, Scan(t) PROVE [Atomic!Next]_Atomic!avars
    <2> DEFINE c == CtlOf[t]
    <2>0. InCall(t) /\ cache[c] = NoPath /\ mounts = Mount
        BY <1>4 DEF Scan, RInv, RTypeOK, InCall
    <2>1. CASE "mounts" \in Faults /\ ret' = [ret EXCEPT ![t] = -1]
                /\ Goto(t, "unlock")
        <3>1. APc' = [APc EXCEPT ![t] = "returned"]
            BY <2>0, <2>1, TakesEffect DEF Goto, RInv, RTypeOK
        <3>2. Atomic!GetCtl(c, -1)
            BY <1>4, <2>0, <2>1 DEF Scan, Atomic!GetCtl
        <3>3. QED
            BY <1>1, <2>0, <2>1, <3>1, <3>2
    <2>2. CASE ~Found(c) /\ ret' = [ret EXCEPT ![t] = 1] /\ Goto(t, "unlock")
        <3>1. APc' = [APc EXCEPT ![t] = "returned"]
            BY <2>0, <2>2, TakesEffect DEF Goto, RInv, RTypeOK
        <3>2. Atomic!GetCtl(c, 1)
            BY <1>4, <2>0, <2>2 DEF Scan, Found, Atomic!GetCtl
        <3>3. QED
            BY <1>1, <2>0, <2>2, <3>1, <3>2
    <2>3. CASE Found(c) /\ Goto(t, "dup") /\ UNCHANGED ret
        BY <1>0, <1>4, <2>0, <2>3, SameSide DEF Scan, Goto, RInv, RTypeOK
    <2>4. QED
        BY <1>4, <2>1, <2>2, <2>3 DEF Scan
<1>5. ASSUME NEW t \in Threads, Dup(t) PROVE [Atomic!Next]_Atomic!avars
    <2> DEFINE c == CtlOf[t]
    <2>0. /\ InCall(t) /\ cache[c] = NoPath
          /\ buf[t] = Mount[c] /\ Mount[c] # NoMount
          /\ APc' = [APc EXCEPT ![t] = "returned"]
        BY <1>5, TakesEffect DEF Dup, Goto, RInv, RTypeOK, InCall
    <2>1. CASE "nomem" \in Faults /\ ret' = [ret EXCEPT ![t] = -1]
                /\ UNCHANGED cache
        <3>1. Atomic!GetCtl(c, -1)
            BY <2>0, <2>1 DEF Atomic!GetCtl
        <3>2. QED
            BY <1>1, <2>0, <2>1, <3>1
    <2>2. CASE cache' = [cache EXCEPT ![c] = buf[t]]
                /\ ret' = [ret EXCEPT ![t] = 0]
        <3>1. Atomic!GetCtl(c, 0)
            BY <2>0, <2>2 DEF Atomic!GetCtl
        <3>2. QED
            BY <1>1, <2>0, <2>2, <3>1
    <2>3. QED
        BY <1>5, <2>1, <2>2 DEF Dup
<1>6. ASSUME NEW t \in Threads,
             \/ Unlock(t) \/ SliceCheck(t) \/ SliceParam(t) \/ SliceCat(t)
             \/ SliceInited(t) \/ Name(t)
      PROVE  Stutter
    <2>1. \E s \in Pcs \ {"lock", "check", "scan", "dup"} :
             /\ pc' = [pc EXCEPT ![t] = s]
             /\ ~InCall(t)
             /\ UNCHANGED <<cache, ret>>
        BY <1>6 DEF Unlock, SliceCheck, SliceParam, SliceCat, SliceInited,
                    Name, Goto, InCall, Pcs
    <2>2. QED
        BY <2>1, SameSide DEF RInv, RTypeOK
<1>7. ASSUME NEW c \in Ctl, NEW p \in MountPaths, Remount(c, p) PROVE FALSE
    BY <1>7 DEF Remount, RInv, RTypeOK
<1>8. CASE Finished \/ UNCHANGED vars
    BY <1>0, <1>8 DEF Finished, vars, APc, InCall
<1>9. QED
    BY <1>0, <1>2, <1>3, <1>4, <1>5, <1>6, <1>7, <1>8 DEF Next, Thread

\* while nothing is remounted, the threaded cg_get_ctl under cg_ctl_map_mtx
\* implements CgCtlAtomic: each call takes effect as one GetCtl step
THEOREM RefinesAtomic ==
    ASSUME MaxRemounts = 0
    PROVE  Spec => AtomicSpec
<1>1. Init => RInv
    BY RInvInit
<1>2. RInv /\ [Next]_vars => RInv'
    BY RInvNext
<1>3. Init => Atomic!Init
    BY InitMaps
<1>4. RInv /\ [Next]_vars => [Atomic!Next]_Atomic!avars
    BY StepMaps
<1>5. QED
    BY <1>1, <1>2, <1>3, <1>4, PTL DEF Spec, AtomicSpec, Atomic!Spec
-----------------------------------------------------------------------------
(* ResolvedAgree, with remounts                                            *)

\* TypeOK without its Boolean conjunct, for SMT
TTypeRest ==
    /\ cache \in [Ctl -> MountPaths \cup {NoPath}]
    /\ mounts \in [Ctl -> MountPaths \cup {NoMount}]
    /\ holder \in Threads \cup {NoThread}
    /\ pc \in [Threads -> Pcs]
    /\ ret \in [Threads -> {-1, 0, 1}]
    /\ buf \in [Threads -> MountPaths \cup {NoPath}]
    /\ got \in [Threads -> MountPaths \cup {NoPath}]
    /\ remounts \in 0..MaxRemounts
    /\ slice \in Seq({Default, Override})
    /\ sname \in [Threads -> Seq({Default, Override})]

LEMMA TTypeParts == TypeOK <=> TTypeRest /\ inited \in BOOLEAN
BY Zenon DEF TypeOK, TTypeRest

LEMMA TTypePartsPrimed == TypeOK' <=> TTypeRest' /\ inited' \in BOOLEAN
BY Zenon DEF TypeOK, TTypeRest

\* the three parts of TInv after a step make up TInv after it
LEMMA TAssemble ==
    ASSUME TTypeRest', inited' \in BOOLEAN, MutualExclusion', CallState'
    PROVE  TInv'
BY TTypePartsPrimed DEF TInv

LEMMA TInvInit == Init => TInv
<1>. SUFFICES ASSUME Init PROVE TInv
  OBVIOUS
<1>1. TTypeRest
  BY DEF Init, TTypeRest, Pcs
<1>2. inited \in BOOLEAN
  BY Zenon DEF Init
<1>. QED
  BY <1>1, <1>2, TTypeParts DEF TInv, Init, MutualExclusion, CallState

LEMMA TLock ==
    ASSUME TInv, NEW t \in Threads, Lock(t)
    PROVE  TInv'
<1>1. TTypeRest /\ inited \in BOOLEAN
  BY TTypeParts DEF TInv
<1>2. inited' \in BOOLEAN
  BY <1>1, Zenon DEF Lock
<1>. QED
  BY <1>1, <1>2, TAssemble
     DEF TInv, Lock, LockFree, Goto, TTypeRest, Pcs, MutualExclusion, CallState

LEMMA TCheck ==
    ASSUME TInv, NEW t \in Threads, Check(t)
    PROVE  TInv'
<1>1. TTypeRest /\ inited \in BOOLEAN
  BY TTypeParts DEF TInv
<1>2. inited' \in BOOLEAN
  BY <1>1, Zenon DEF Check
<1>3. UNCHANGED <<cache, mounts, holder, buf, got, remounts, slice, sname>>
  BY DEF Check
<1>4. pc[t] = "check" /\ holder = t
  BY DEF Check, TInv, MutualExclusion
<1>5. CASE Cached(CtlOf[t])
  <2>1. ret' = [ret EXCEPT ![t] = 0] /\ pc' = [pc EXCEPT ![t] = "unlock"]
    BY <1>5 DEF Check, Goto
  <2>. QED
    BY <1>1, <1>2, <1>3, <1>4, <1>5, <2>1, TAssemble
       DEF TInv, TTypeRest, Pcs, MutualExclusion, CallState, Cached
<1>6. CASE ~Cached(CtlOf[t])
  <2>1. ret' = ret /\ pc' = [pc EXCEPT ![t] = "scan"]
    BY <1>6 DEF Check, Goto
  <2>. QED
    BY <1>1, <1>2, <1>3, <1>4, <1>6, <2>1, TAssemble
       DEF TInv, TTypeRest, Pcs, MutualExclusion, CallState, Cached
<1>. QED
  BY <1>5, <1>6

LEMMA TScan ==
    ASSUME TInv, NEW t \in Threads, Scan(t)
    PROVE  TInv'
<1>1. TTypeRest /\ inited \in BOOLEAN
  BY TTypeParts DEF TInv
<1>2. inited' \in BOOLEAN
  BY <1>1, Zenon DEF Scan
<1>3. UNCHANGED <<cache, mounts, holder, got, remounts, slice, sname>>
  BY DEF Scan
<1>4. pc[t] = "scan" /\ holder = t /\ cache[CtlOf[t]] = NoPath
  BY DEF Scan, TInv, MutualExclusion, CallState
<1>5. CASE /\ \E r \in {-1, 1} : ret' = [ret EXCEPT ![t] = r]
           /\ pc' = [pc EXCEPT ![t] = "unlock"] /\ buf' = buf
  <2>1. PICK r \in {-1, 1} : ret' = [ret EXCEPT ![t] = r]
    BY <1>5
  <2>. QED
    BY <1>1, <1>2, <1>3, <1>4, <1>5, <2>1, TAssemble
       DEF TInv, TTypeRest, Pcs, MutualExclusion, CallState
<1>6. CASE /\ Found(CtlOf[t]) /\ buf' = [buf EXCEPT ![t] = mounts[CtlOf[t]]]
           /\ pc' = [pc EXCEPT ![t] = "dup"] /\ ret' = ret
  BY <1>1, <1>2, <1>3, <1>4, <1>6, TAssemble
     DEF TInv, TTypeRest, Pcs, MutualExclusion, CallState, Found
<1>. QED
  <2>1. \/ /\ \E r \in {-1, 1} : ret' = [ret EXCEPT ![t] = r]
           /\ pc' = [pc EXCEPT ![t] = "unlock"] /\ buf' = buf
        \/ /\ Found(CtlOf[t]) /\ buf' = [buf EXCEPT ![t] = mounts[CtlOf[t]]]
           /\ pc' = [pc EXCEPT ![t] = "dup"] /\ ret' = ret
    BY DEF Scan, Goto
  <2>. QED
    BY <2>1, <1>5, <1>6

LEMMA TDup ==
    ASSUME TInv, NEW t \in Threads, Dup(t)
    PROVE  TInv'
<1>1. TTypeRest /\ inited \in BOOLEAN
  BY TTypeParts DEF TInv
<1>2. inited' \in BOOLEAN
  BY <1>1, Zenon DEF Dup
<1>3. /\ UNCHANGED <<mounts, holder, buf, got, remounts, slice, sname>>
      /\ pc' = [pc EXCEPT ![t] = "unlock"]
  BY DEF Dup, Goto
<1>4. pc[t] = "dup" /\ holder = t /\ cache[CtlOf[t]] = NoPath
      /\ buf[t] \in MountPaths
  BY DEF Dup, TInv, MutualExclusion, CallState
\* no other thread is in the critical section, nor has one returned the
\* still unset entry
<1>5. \A u \in Threads \ {t} :
         /\ pc[u] \notin {"check", "scan", "dup", "unlock"}
         /\ (pc[u] \notin {"lock"} /\ ret[u] = 0) => CtlOf[u] # CtlOf[t]
  BY <1>1, <1>4 DEF TInv, MutualExclusion, CallState, TTypeRest
<1>6. CASE ret' = [ret EXCEPT ![t] = -1] /\ cache' = cache
  BY <1>1, <1>2, <1>3, <1>4, <1>6, TAssemble
     DEF TInv, TTypeRest, Pcs, MutualExclusion, CallState
<1>7. CASE cache' = [cache EXCEPT ![CtlOf[t]] = buf[t]]
           /\ ret' = [ret EXCEPT ![t] = 0]
  BY <1>1, <1>2, <1>3, <1>4, <1>5, <1>7, TAssemble
     DEF TInv, TTypeRest, Pcs, MutualExclusion, CallState
<1>. QED
  BY <1>6, <1>7 DEF Dup

LEMMA TUnlock ==
    ASSUME TInv, NEW t \in Threads, Unlock(t)
    PROVE  TInv'
<1>1. TTypeRest /\ inited \in BOOLEAN
  BY TTypeParts DEF TInv
<1>2. inited' \in BOOLEAN
  BY <1>1, Zenon DEF Unlock
<1>3. UNCHANGED <<cache, mounts, ret, buf, remounts, slice, sname>>
  BY DEF Unlock
<1>4. pc[t] = "unlock" /\ holder = t
      /\ (ret[t] = 0 => cache[CtlOf[t]] # NoPath)
  BY DEF Unlock, TInv, MutualExclusion, CallState
<1>5. holder' = NoThread
  BY DEF Unlock, Unlocks
<1>6. got' = [got EXCEPT ![t] = IF ret[t] = 0 THEN cache[CtlOf[t]] ELSE @]
  BY DEF Unlock
<1>7. pc' = [pc EXCEPT ![t] = IF ret[t] # 0 THEN "done"
                ELSE IF CtlOf[t] \in Shared THEN "slice" ELSE "done"]
  BY DEF Unlock, Goto
<1>8. pc'[t] \in {"slice", "done"}
  BY <1>1, <1>7 DEF TTypeRest
<1>9. \A u \in Threads \ {t} : pc[u] \notin {"check", "scan", "dup", "unlock"}
  BY <1>1, <1>4 DEF TInv, MutualExclusion, TTypeRest
<1>. QED
  BY <1>1, <1>2, <1>3, <1>4, <1>5, <1>6, <1>7, <1>8, <1>9, TAssemble
     DEF TInv, TTypeRest, Pcs, MutualExclusion, CallState

\* a step of cg_get_slice_name or of the snprintf after cg_get_ctl has
\* returned: it moves t between statements outside the call and leaves the
\* lock, the cache and what cg_get_ctl returned alone
After == {"slice", "param", "cat", "inited", "name", "done"}

LEMMA TQuiet ==
    ASSUME TInv, NEW t \in Threads, NEW s \in After,
           pc[t] \in After, pc' = [pc EXCEPT ![t] = s],
           UNCHANGED <<cache, mounts, holder, ret, buf, got, remounts>>,
           slice' \in Seq({Default, Override}),
           sname' \in [Threads -> Seq({Default, Override})],
           inited' \in BOOLEAN
    PROVE  TInv'
<1>1. TTypeRest
  BY TTypeParts DEF TInv
<1>. QED
  BY <1>1, TAssemble DEF TInv, TTypeRest, Pcs, After, MutualExclusion,
                         CallState

LEMMA TSlice ==
    ASSUME TInv, NEW t \in Threads,
           SliceCheck(t) \/ SliceParam(t) \/ SliceCat(t) \/ SliceInited(t)
           \/ Name(t)
    PROVE  TInv'
<1>1. TTypeRest /\ inited \in BOOLEAN
  BY TTypeParts DEF TInv
<1>2. CASE SliceCheck(t)
  <2>1. inited' \in BOOLEAN
    BY <1>1, <1>2, Zenon DEF SliceCheck
  <2>2. pc' = [pc EXCEPT ![t] = IF inited THEN "name" ELSE "param"]
    BY <1>2 DEF SliceCheck, Goto
  <2>3. (IF inited THEN "name" ELSE "param") \in After
    BY DEF After
  <2>. QED
    BY <1>1, <1>2, <2>1, <2>2, <2>3, TQuiet DEF SliceCheck, TTypeRest, After
<1>3. CASE SliceParam(t)
  <2>1. inited' \in BOOLEAN
    BY <1>1, <1>3, Zenon DEF SliceParam
  <2>2. CASE ParamFound
    <3>1. slice' = <<Override>> /\ pc' = [pc EXCEPT ![t] = "inited"]
      BY <1>3, <2>2 DEF SliceParam, Goto
    <3>2. <<Override>> \in Seq({Default, Override})
      OBVIOUS
    <3>. QED
      BY <1>1, <1>3, <2>1, <3>1, <3>2, TQuiet DEF SliceParam, TTypeRest, After
  <2>3. CASE ~ParamFound
    <3>1. slice' = slice /\ pc' = [pc EXCEPT ![t] = "cat"]
      BY <1>3, <2>3 DEF SliceParam, Goto
    <3>. QED
      BY <1>1, <1>3, <2>1, <3>1, TQuiet DEF SliceParam, TTypeRest, After
  <2>. QED
    BY <2>2, <2>3
<1>4. CASE SliceCat(t)
  <2>1. inited' \in BOOLEAN
    BY <1>1, <1>4, Zenon DEF SliceCat
  <2>2. slice' \in Seq({Default, Override})
    BY <1>1, <1>4 DEF SliceCat, TTypeRest
  <2>. QED
    BY <1>1, <1>4, <2>1, <2>2, TQuiet DEF SliceCat, Goto, TTypeRest, After
<1>5. CASE SliceInited(t)
  <2>1. inited' \in BOOLEAN
    BY <1>5, Zenon DEF SliceInited
  <2>. QED
    BY <1>1, <1>5, <2>1, TQuiet DEF SliceInited, Goto, TTypeRest, After
<1>6. CASE Name(t)
  <2>1. inited' \in BOOLEAN
    BY <1>1, <1>6, Zenon DEF Name
  <2>. QED
    BY <1>1, <1>6, <2>1, TQuiet DEF Name, Goto, TTypeRest, After
<1>. QED
  BY <1>2, <1>3, <1>4, <1>5, <1>6

\* a remount changes the live table only: no cached entry and nothing a
\* thread holds follows it
LEMMA TRemount ==
    ASSUME TInv, NEW c \in Ctl, NEW p \in MountPaths, Remount(c, p)
    PROVE  TInv'
<1>1. TTypeRest /\ inited \in BOOLEAN
  BY TTypeParts DEF TInv
<1>2. inited' \in BOOLEAN
  BY <1>1, Zenon DEF Remount
<1>. QED
  BY <1>1, <1>2, TAssemble
     DEF TInv, Remount, TTypeRest, MutualExclusion, CallState

LEMMA TStutter ==
    ASSUME TInv, UNCHANGED vars
    PROVE  TInv'
BY Zenon DEF TInv, TypeOK, MutualExclusion, CallState, vars

LEMMA TInvNext == TInv /\ [Next]_vars => TInv'
<1>. SUFFICES ASSUME TInv, [Next]_vars PROVE TInv'
  OBVIOUS
<1>1. CASE \E t \in Threads : Thread(t)
  BY <1>1, TLock, TCheck, TScan, TDup, TUnlock, TSlice DEF Thread
<1>2. CASE \E c \in Ctl, p \in MountPaths : Remount(c, p)
  BY <1>2, TRemount
<1>3. CASE Finished \/ UNCHANGED vars
  BY <1>3, TStutter DEF Finished
<1>. QED
  BY <1>1, <1>2, <1>3 DEF Next

\* with remounts, the lock makes the three threads' cg_get_ctl calls
\* behave: only the owner of cg_ctl_map_mtx is between the lock and "out:",
\* a thread scans only for an uncached controller, and a call that returned
\* 0 built its path from the mount point cached for its controller
THEOREM ThreadsInvariant == Spec => []TInv
<1>1. Init => TInv
  BY TInvInit
<1>2. TInv /\ [Next]_vars => TInv'
  BY TInvNext
<1>. QED
  BY <1>1, <1>2, PTL DEF Spec

\* every variable of the threaded cg_get_path keeps its type
THEOREM ThreadsTypeCorrect == Spec => []TypeOK
BY ThreadsInvariant, PTL DEF TInv

\* two calls of cg_get_ctl for one controller that both returned 0 build
\* their paths from the same mount point, however the table is remounted
\* between them: the first one caches it, and the second one reads the cache
LEMMA TInvAgree == TInv => ResolvedAgree
BY DEF TInv, CallState, ResolvedAgree

THEOREM AgreeProved == Spec => []ResolvedAgree
BY ThreadsInvariant, TInvAgree, PTL

\* no step of cg_get_ctl leaves the scan of /proc/mounts for a controller
\* whose mount point was cached: get_mount_path runs only on a cache miss
LEMMA TInvNoScan ==
    TInv => \A t \in Threads :
               (pc[t] = "scan" /\ pc'[t] # "scan") => cache[CtlOf[t]] = NoPath
BY DEF TInv, CallState

THEOREM NoScanProved == Spec => NoScanWhenCached
<1>1. TInv /\ [Next]_vars
        => [\A t \in Threads :
               (pc[t] = "scan" /\ pc'[t] # "scan") => cache[CtlOf[t]] = NoPath]_vars
  BY TInvNoScan
<1>. QED
  BY <1>1, ThreadsInvariant, PTL DEF Spec, NoScanWhenCached

=============================================================================
