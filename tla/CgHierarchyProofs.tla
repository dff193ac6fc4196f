------------------------- MODULE CgHierarchyProofs --------------------------
(***************************************************************************)
(* Proofs about CgHierarchy, the model of cg_new_cgroup(),                 *)
(* cg_destroy_cgroup() and cg_attach_task() of src/lib/cgroup.c, for every *)
(* controller table, every naming rule, every exception set and every set *)
(* of faults the assumptions allow.  HInv of CgHierarchy is inductive.    *)
(***************************************************************************)
EXTENDS CgHierarchy, TLAPS

USE ResolverAssumption, HierarchyAssumption DEF Ctl

CacheType == cache \in [Ctl -> MountPaths \cup {NoPath}]

(***************************************************************************)
(* TypeOK without its two Boolean flags, which Zenon handles and SMT does *)
(* not, and the flags                                                      *)
(***************************************************************************)
TypeNum ==
    /\ CacheType
    /\ dirs \subseteq AllDirs
    /\ pc \in {"idle", "create", "rollback", "destroy", "attach"}
    /\ i \in 0..N + 1
    /\ ret \in {-1, 0, 1}
    /\ lastOp \in {"none", "create", "destroy", "attach"}
    /\ lastRet \in {-1, 0, 1}
    /\ made \subseteq AllDirs
    /\ tasks \subseteq AllDirs
    /\ exc \in Excepts \cup {0}
    /\ placed \subseteq AllDirs

TypeBool == rbLeft \in BOOLEAN /\ dLeft \in BOOLEAN

LEMMA TypeParts == TypeOK <=> TypeNum /\ TypeBool
BY Zenon DEF TypeOK, TypeNum, TypeBool, CacheType

LEMMA TypePartsPrimed == TypeOK' <=> TypeNum' /\ TypeBool'
BY Zenon DEF TypeOK, TypeNum, TypeBool, CacheType

(***************************************************************************)
(* cg_get_ctl(c) keeps the cache typed and sound and changes at most the   *)
(* entry of c; 0 means c has a mount point, now cached; 1 that it has none *)
(***************************************************************************)
LEMMA GetCtlFacts ==
    ASSUME CacheType, CacheSound, NEW c \in Ctl, NEW r, GetCtl(c, r)
    PROVE  /\ CacheType'
           /\ CacheSound'
           /\ r \in {-1, 0, 1}
           /\ r = 0 => Mount[c] # NoMount /\ cache'[c] # NoPath
           /\ r = 1 => Mount[c] = NoMount
           /\ \A j \in Ctl : cache[j] # NoPath => cache'[j] = cache[j]
BY DEF GetCtl, CacheType, CacheSound

\* the directory of a controller is one of the hierarchy's exactly when
\* the controller has a mount point
LEMMA DirOfCtl ==
    ASSUME NEW j \in Ctl
    PROVE  Mount[j] # NoMount <=> CgDir(j) \in AllDirs
BY DEF AllDirs, CgDir

(***************************************************************************)
(* rm_tree only removes, at most the directory it is given, and returns 0 *)
(* or -1; cg_destroy returns 0 or 1 and removes at most its directory.     *)
(***************************************************************************)
LEMMA RmTreeFacts ==
    ASSUME NEW d, NEW rc, RmTree(d, rc)
    PROVE  /\ dirs' \subseteq dirs
           /\ dirs \ dirs' \subseteq {d}
           /\ rc \in {0, -1}
BY DEF RmTree

LEMMA CgDestroyFacts ==
    ASSUME NEW c \in Ctl, NEW rc, CgDestroy(c, rc)
    PROVE  /\ dirs' \subseteq dirs
           /\ dirs \ dirs' \subseteq {CgDir(c)}
           /\ rc \in {0, 1}
           /\ rc = 1 => cache'[c] # NoPath
<1>1. CASE cache'[c] = NoPath
    BY <1>1 DEF CgDestroy
<1>2. CASE cache'[c] # NoPath
    <2>1. PICK r \in {0, -1} : RmTree(CgDir(c), r) /\ rc = IF r # 0 THEN 1 ELSE 0
        BY <1>2 DEF CgDestroy
    <2>2. QED
        BY <2>1, <1>2, RmTreeFacts
<1>3. QED
    BY <1>1, <1>2

\* UNCHANGED attachVars, variable by variable
LEMMA AttachVarsSame ==
    UNCHANGED attachVars <=> tasks' = tasks /\ exc' = exc /\ placed' = placed
BY DEF attachVars

-----------------------------------------------------------------------------
LEMMA InitHInv == Init => HInv
<1> SUFFICES ASSUME Init PROVE HInv
    OBVIOUS
<1>1. TypeOK
    <2>1. cache \in [Ctl -> MountPaths \cup {NoPath}]
        BY DEF Init
    <2>2. dirs \subseteq AllDirs /\ made \subseteq AllDirs
          /\ tasks \subseteq AllDirs /\ placed \subseteq AllDirs
        BY DEF Init
    <2>3. i \in 0..N + 1 /\ exc \in Excepts \cup {0}
        BY DEF Init
    <2>4. QED
        BY <2>1, <2>2, <2>3 DEF Init, TypeOK
<1>2. CacheSound
    BY DEF Init, CacheSound
<1>3. CreateProgress /\ RollbackProgress /\ DestroyProgress /\ AttachProgress
    BY DEF Init, CreateProgress, RollbackProgress, DestroyProgress,
           AttachProgress
<1>4. CreateOkMeansAll /\ CreateFailedClean /\ DestroyReported
      /\ AttachOkMeansAttached
    BY DEF Init, CreateOkMeansAll, CreateFailedClean, DestroyReported,
           AttachOkMeansAttached
<1>5. QED
    BY <1>1, <1>2, <1>3, <1>4 DEF HInv

\* the conjuncts of HInv about the running call hold vacuously, or
\* trivially, right after a call starts from idle
LEMMA StartStep ==
    ASSUME HInv, StartCreate \/ StartDestroy \/ StartAttach
    PROVE  HInv'
<1>1. TypeOK'
    <2>1. TypeNum
        BY TypeParts DEF HInv
    <2>2. TypeNum'
        BY <2>1 DEF TypeNum, CacheType, StartCreate, StartDestroy,
               StartAttach, attachVars
    <2>3. TypeBool'
        BY Zenon DEF HInv, TypeOK, TypeBool, StartCreate, StartDestroy,
                     StartAttach
    <2>4. QED
        BY <2>2, <2>3, TypePartsPrimed
<1>2. CacheSound'
    BY DEF HInv, CacheSound, StartCreate, StartDestroy, StartAttach
<1>3. (CreateProgress /\ RollbackProgress /\ DestroyProgress /\ AttachProgress)'
    BY DEF StartCreate, StartDestroy, StartAttach, CreateProgress,
           RollbackProgress, DestroyProgress, AttachProgress
<1>4. (CreateOkMeansAll /\ CreateFailedClean /\ DestroyReported
       /\ AttachOkMeansAttached)'
    BY DEF StartCreate, StartDestroy, StartAttach, CreateOkMeansAll,
           CreateFailedClean, DestroyReported, AttachOkMeansAttached
<1>5. QED
    BY <1>1, <1>2, <1>3, <1>4 DEF HInv

\* the task's exit only empties tasks, which no conjunct but the type reads
LEMMA TaskExitStep ==
    ASSUME HInv, TaskExit
    PROVE  HInv'
BY DEF HInv, TaskExit, TypeOK, CacheSound, CreateProgress, RollbackProgress,
       DestroyProgress, AttachProgress, CreateOkMeansAll, CreateFailedClean,
       DestroyReported, AttachOkMeansAttached

\* a restart empties the cache and forgets the last call
LEMMA RestartStep ==
    ASSUME HInv, Restart
    PROVE  HInv'
<1>1. TypeOK' /\ CacheSound'
    BY DEF HInv, Restart, TypeOK, CacheSound, attachVars
<1>2. (CreateProgress /\ RollbackProgress /\ DestroyProgress /\ AttachProgress)'
    BY DEF Restart, CreateProgress, RollbackProgress, DestroyProgress,
           AttachProgress
<1>3. (CreateOkMeansAll /\ CreateFailedClean /\ DestroyReported
       /\ AttachOkMeansAttached)'
    BY DEF Restart, CreateOkMeansAll, CreateFailedClean, DestroyReported,
           AttachOkMeansAttached
<1>4. QED
    BY <1>1, <1>2, <1>3 DEF HInv

\* cg_new_cgroup returns 0 only once every mounted controller has its
\* directory
LEMMA CreateDoneStep ==
    ASSUME HInv, CreateDone
    PROVE  HInv'
<1>1. TypeNum /\ TypeBool
    BY TypeParts DEF HInv
<1>2. TypeOK'
    <2>1. TypeNum'
        BY <1>1 DEF TypeNum, CacheType, CreateDone, attachVars
    <2>2. TypeBool'
        BY <1>1, Zenon DEF TypeBool, CreateDone
    <2>3. QED
        BY <2>1, <2>2, TypePartsPrimed
<1>3. CacheSound'
    BY DEF HInv, CacheSound, CreateDone
<1>4. (CreateProgress /\ RollbackProgress /\ DestroyProgress /\ AttachProgress)'
    BY DEF CreateDone, CreateProgress, RollbackProgress, DestroyProgress,
           AttachProgress
<1>5. CreateOkMeansAll'
    <2>1. i = N + 1
        BY DEF HInv, CreateProgress, CreateDone
    <2>2. \A j \in Ctl : Mount[j] # NoMount => CgDir(j) \in dirs
        BY <2>1 DEF HInv, CreateProgress, CreateDone
    <2>3. AllDirs \subseteq dirs
        BY <2>2 DEF AllDirs
    <2>4. QED
        BY <2>3 DEF CreateOkMeansAll, CreateDone
<1>6. CreateFailedClean'
    BY DEF CreateFailedClean, CreateDone
<1>7. DestroyReported'
    BY DEF DestroyReported, CreateDone
<1>8. AttachOkMeansAttached'
    BY DEF AttachOkMeansAttached, CreateDone
<1>9. QED
    BY <1>2, <1>3, <1>4, <1>5, <1>6, <1>7, <1>8 DEF HInv

\* the rollback returns -1 once no made directory is left, or rbLeft says
\* which rm_tree left one
LEMMA RollbackDoneStep ==
    ASSUME HInv, RollbackDone
    PROVE  HInv'
<1>1. TypeNum /\ TypeBool
    BY TypeParts DEF HInv
<1>2. TypeOK'
    <2>1. TypeNum'
        BY <1>1 DEF TypeNum, CacheType, RollbackDone, attachVars
    <2>2. TypeBool'
        BY <1>1, Zenon DEF TypeBool, RollbackDone
    <2>3. QED
        BY <2>1, <2>2, TypePartsPrimed
<1>3. CacheSound'
    BY DEF HInv, CacheSound, RollbackDone
<1>4. (CreateProgress /\ RollbackProgress /\ DestroyProgress /\ AttachProgress)'
    BY DEF RollbackDone, CreateProgress, RollbackProgress, DestroyProgress,
           AttachProgress
<1>5. CreateOkMeansAll'
    BY DEF HInv, RollbackProgress, CreateOkMeansAll, RollbackDone
<1>6. CreateFailedClean'
    <2>1. ASSUME ~rbLeft PROVE made \cap dirs = {}
        <3>1. \A d \in made \cap dirs :
                  \E j \in 1..i : CgDir(j) = d /\ cache[j] # NoPath
            BY <2>1 DEF HInv, RollbackProgress, RollbackDone
        <3>2. 1..i = {}
            BY DEF HInv, TypeOK, RollbackDone, RollbackOver
        <3>3. QED
            BY <3>1, <3>2
    <2>2. QED
        BY <2>1, Zenon DEF CreateFailedClean, RollbackDone
<1>7. DestroyReported'
    BY DEF DestroyReported, RollbackDone
<1>8. AttachOkMeansAttached'
    BY DEF AttachOkMeansAttached, RollbackDone
<1>9. QED
    BY <1>2, <1>3, <1>4, <1>5, <1>6, <1>7, <1>8 DEF HInv

\* cg_destroy_cgroup returns 0 with no error seen only once no directory
\* is left
LEMMA DestroyDoneStep ==
    ASSUME HInv, DestroyDone
    PROVE  HInv'
<1>1. TypeNum /\ TypeBool
    BY TypeParts DEF HInv
<1>2. TypeOK'
    <2>1. TypeNum'
        BY <1>1 DEF TypeNum, CacheType, DestroyDone, attachVars
    <2>2. TypeBool'
        BY <1>1, Zenon DEF TypeBool, DestroyDone
    <2>3. QED
        BY <2>1, <2>2, TypePartsPrimed
<1>3. CacheSound'
    BY DEF HInv, CacheSound, DestroyDone
<1>4. (CreateProgress /\ RollbackProgress /\ DestroyProgress /\ AttachProgress)'
    BY DEF DestroyDone, CreateProgress, RollbackProgress, DestroyProgress,
           AttachProgress
<1>5. CreateOkMeansAll'
    BY DEF CreateOkMeansAll, DestroyDone
<1>6. CreateFailedClean'
    BY DEF CreateFailedClean, DestroyDone
<1>7. DestroyReported'
    <2>1. i = N + 1
        BY DEF HInv, DestroyProgress, DestroyDone
    <2>2. (ret = 0 /\ ~dLeft) =>
              \A j \in Ctl : Mount[j] # NoMount => CgDir(j) \notin dirs
        BY <2>1 DEF HInv, DestroyProgress, DestroyDone
    <2>3. (ret = 0 /\ ~dLeft) => dirs = {}
        BY <2>2 DEF HInv, TypeOK, AllDirs
    <2>4. QED
        BY <2>3 DEF DestroyReported, DestroyDone
<1>8. AttachOkMeansAttached'
    BY DEF AttachOkMeansAttached, DestroyDone
<1>9. QED
    BY <1>2, <1>3, <1>4, <1>5, <1>6, <1>7, <1>8 DEF HInv

\* cg_attach_task returns 0 only once every directory but the excepted
\* one holds the pid
LEMMA AttachDoneStep ==
    ASSUME HInv, AttachDone
    PROVE  HInv'
<1>1. TypeNum /\ TypeBool
    BY TypeParts DEF HInv
<1>2. TypeOK'
    <2>1. TypeNum'
        BY <1>1 DEF TypeNum, CacheType, AttachDone, AttachReturn, attachVars
    <2>2. TypeBool'
        BY <1>1, Zenon DEF TypeBool, AttachDone
    <2>3. QED
        BY <2>1, <2>2, TypePartsPrimed
<1>3. CacheSound'
    BY DEF HInv, CacheSound, AttachDone
<1>4. (CreateProgress /\ RollbackProgress /\ DestroyProgress /\ AttachProgress)'
    BY DEF AttachDone, AttachReturn, CreateProgress, RollbackProgress, DestroyProgress,
           AttachProgress
<1>5. CreateOkMeansAll'
    BY DEF CreateOkMeansAll, AttachDone, AttachReturn
<1>6. CreateFailedClean'
    BY DEF CreateFailedClean, AttachDone, AttachReturn
<1>7. DestroyReported'
    BY DEF DestroyReported, AttachDone, AttachReturn
<1>8. AttachOkMeansAttached'
    <2>1. i = N + 1
        BY DEF HInv, AttachProgress, AttachDone
    <2>2. QED
        BY <2>1, AttachVarsSame DEF HInv, AttachProgress, AttachDone,
               AttachReturn, AttachOkMeansAttached
<1>9. QED
    BY <1>2, <1>3, <1>4, <1>5, <1>6, <1>7, <1>8 DEF HInv

\* the four properties say nothing while a call is running
LEMMA RunningVacuous ==
    ASSUME pc' # "idle"
    PROVE  (CreateOkMeansAll /\ CreateFailedClean /\ DestroyReported
            /\ AttachOkMeansAttached)'
BY DEF CreateOkMeansAll, CreateFailedClean, DestroyReported,
       AttachOkMeansAttached

(***************************************************************************)
(* An iteration of cg_new_cgroup: on a failure the directories made so far *)
(* are still owned by resolved controllers below i, the rollback's range;  *)
(* otherwise controller i is done and, if it made its directory, owns it.  *)
(***************************************************************************)
LEMMA CreateStepHInv ==
    ASSUME HInv, CreateStep
    PROVE  HInv'
<1>1. TypeNum /\ TypeBool
    BY TypeParts DEF HInv
<1>2. PICK r \in {-1, 0, 1} :
          /\ GetCtl(i, r)
          /\ \/ /\ ret' = -1
                /\ pc' = "rollback"
                /\ i' = RollbackFrom(i)
                /\ UNCHANGED <<dirs, made>>
             \/ /\ CreateSkips(r)
                /\ i' = i + 1
                /\ UNCHANGED <<dirs, made, pc, ret>>
             \/ /\ r = 0
                /\ dirs' = dirs \cup {CgDir(i)}
                /\ made' = made \cup ({CgDir(i)} \ dirs)
                /\ i' = i + 1
                /\ UNCHANGED <<pc, ret>>
    BY DEF CreateStep
<1>3. i \in 1..N /\ ret = 0
    BY DEF HInv, CreateProgress, CreateStep
<1>4. /\ CacheType' /\ CacheSound'
      /\ r = 0 => Mount[i] # NoMount /\ cache'[i] # NoPath
      /\ r = 1 => Mount[i] = NoMount
      /\ \A j \in Ctl : cache[j] # NoPath => cache'[j] = cache[j]
    BY <1>1, <1>2, <1>3, GetCtlFacts DEF HInv, TypeNum
<1>5. /\ lastOp' = lastOp /\ lastRet' = lastRet
      /\ rbLeft' = rbLeft /\ dLeft' = dLeft
      /\ tasks' = tasks /\ exc' = exc /\ placed' = placed
    BY AttachVarsSame DEF CreateStep
<1>6. TypeBool'
    BY <1>1, <1>5, Zenon DEF TypeBool
<1>7. CASE /\ ret' = -1
           /\ pc' = "rollback"
           /\ i' = RollbackFrom(i)
           /\ UNCHANGED <<dirs, made>>
    <2>1. TypeNum'
        BY <1>1, <1>3, <1>4, <1>5, <1>7 DEF TypeNum, RollbackFrom
    <2>2. RollbackProgress'
        <3>1. \A d \in made : \E j \in 1..i - 1 : CgDir(j) = d /\ cache[j] # NoPath
            BY DEF HInv, CreateProgress, CreateStep
        <3>2. ASSUME NEW d \in made' \cap dirs'
              PROVE  \E j \in 1..i' : CgDir(j) = d /\ cache'[j] # NoPath
            <4>1. PICK j \in 1..i - 1 : CgDir(j) = d /\ cache[j] # NoPath
                BY <3>1, <3>2, <1>7
            <4>2. cache'[j] = cache[j]
                BY <4>1, <1>3, <1>4
            <4>3. QED
                BY <4>1, <4>2, <1>3, <1>7 DEF RollbackFrom
        <3>3. i' \in 0..N
            BY <1>3, <1>7 DEF RollbackFrom
        <3>4. QED
            BY <3>2, <3>3, <1>7, Zenon DEF RollbackProgress
    <2>3. (CreateProgress /\ DestroyProgress /\ AttachProgress)'
        BY <1>7 DEF CreateProgress, DestroyProgress, AttachProgress
    <2>4. QED
        BY <2>1, <2>2, <2>3, <1>4, <1>6, <1>7, RunningVacuous,
           TypePartsPrimed DEF HInv
<1>8. CASE /\ CreateSkips(r)
           /\ i' = i + 1
           /\ UNCHANGED <<dirs, made, pc, ret>>
    <2>1. TypeNum'
        BY <1>1, <1>3, <1>4, <1>5, <1>8 DEF TypeNum
    <2>2. CreateProgress'
        <3>1. Mount[i] = NoMount
            BY <1>4, <1>8 DEF CreateSkips
        <3>2. QED
            BY <3>1, <1>3, <1>4, <1>8 DEF HInv, CreateProgress, CreateStep
    <2>3. (RollbackProgress /\ DestroyProgress /\ AttachProgress)'
        BY <1>8 DEF CreateStep, RollbackProgress, DestroyProgress,
                    AttachProgress
    <2>4. QED
        BY <2>1, <2>2, <2>3, <1>4, <1>6, <1>8, RunningVacuous,
           TypePartsPrimed DEF HInv, CreateStep
<1>9. CASE /\ r = 0
           /\ dirs' = dirs \cup {CgDir(i)}
           /\ made' = made \cup ({CgDir(i)} \ dirs)
           /\ i' = i + 1
           /\ UNCHANGED <<pc, ret>>
    <2>1. CgDir(i) \in AllDirs
        BY <1>3, <1>4, <1>9, DirOfCtl
    <2>2. TypeNum'
        BY <1>1, <1>3, <1>4, <1>5, <1>9, <2>1 DEF TypeNum
    <2>3. CreateProgress'
        <3>1. \A j \in 1..i - 1 : Mount[j] # NoMount => CgDir(j) \in dirs
            BY DEF HInv, CreateProgress, CreateStep
        <3>2. \A d \in made : \E j \in 1..i - 1 : CgDir(j) = d /\ cache[j] # NoPath
            BY DEF HInv, CreateProgress, CreateStep
        <3>3. QED
            BY <3>1, <3>2, <1>3, <1>4, <1>9 DEF CreateProgress, CreateStep
    <2>4. (RollbackProgress /\ DestroyProgress /\ AttachProgress)'
        BY <1>9 DEF CreateStep, RollbackProgress, DestroyProgress,
                    AttachProgress
    <2>5. QED
        BY <2>2, <2>3, <2>4, <1>4, <1>6, <1>9, RunningVacuous,
           TypePartsPrimed DEF HInv, CreateStep
<1>10. QED
    BY <1>2, <1>7, <1>8, <1>9

(***************************************************************************)
(* An iteration of the rollback destroys the directory of controller i:    *)
(* a made directory owned by i is then gone, or rbLeft records that it is  *)
(* left; the others are owned by controllers below, still to come.        *)
(***************************************************************************)
LEMMA RollbackStepHInv ==
    ASSUME HInv, RollbackStep
    PROVE  HInv'
<1>1. TypeNum /\ TypeBool
    BY TypeParts DEF HInv
<1>2. i \in 1..N /\ ret = -1 /\ pc = "rollback"
    BY DEF HInv, TypeOK, RollbackProgress, RollbackStep, RollbackOver
<1>3. PICK rc \in {0, 1} : CgDestroy(i, rc)
    BY DEF RollbackStep
<1>4. dirs' \subseteq dirs /\ dirs \ dirs' \subseteq {CgDir(i)}
    BY <1>2, <1>3, CgDestroyFacts
<1>5. /\ cache' = cache /\ i' = i - 1 /\ pc' = pc /\ ret' = ret
      /\ lastOp' = lastOp /\ lastRet' = lastRet /\ made' = made
      /\ dLeft' = dLeft
      /\ tasks' = tasks /\ exc' = exc /\ placed' = placed
    BY AttachVarsSame DEF RollbackStep
<1>6. TypeOK'
    <2>1. TypeNum'
        BY <1>1, <1>2, <1>4, <1>5 DEF TypeNum, CacheType
    <2>2. TypeBool'
        BY <1>1, <1>5, Zenon DEF TypeBool, RollbackStep
    <2>3. QED
        BY <2>1, <2>2, TypePartsPrimed
<1>7. CacheSound'
    BY <1>5 DEF HInv, CacheSound
<1>8. RollbackProgress'
    <2>1. ~rbLeft' => ~rbLeft /\ ~(cache[i] # NoPath /\ CgDir(i) \in dirs')
        BY Zenon DEF RollbackStep
    <2>2. ASSUME ~rbLeft', NEW d \in made' \cap dirs'
          PROVE  \E j \in 1..i' : CgDir(j) = d /\ cache'[j] # NoPath
        <3>1. d \in made \cap dirs /\ ~rbLeft
            BY <2>1, <2>2, <1>4, <1>5
        <3>2. PICK j \in 1..i : CgDir(j) = d /\ cache[j] # NoPath
            BY <3>1, <1>2 DEF HInv, RollbackProgress
        <3>3. j # i
            BY <3>2, <2>1, <2>2
        <3>4. QED
            BY <3>2, <3>3, <1>2, <1>5
    <2>3. i' \in 0..N
        BY <1>2, <1>5
    <2>4. QED
        BY <2>2, <2>3, <1>2, <1>5, Zenon DEF RollbackProgress
<1>9. (CreateProgress /\ DestroyProgress /\ AttachProgress)'
    BY <1>2, <1>5 DEF CreateProgress, DestroyProgress, AttachProgress
<1>10. QED
    BY <1>2, <1>5, <1>6, <1>7, <1>8, <1>9, RunningVacuous DEF HInv

(***************************************************************************)
(* An iteration of cg_destroy_cgroup: with no error so far and none now,  *)
(* controller i has no mount or its directory is gone.                    *)
(***************************************************************************)
LEMMA DestroyStepHInv ==
    ASSUME HInv, DestroyStep
    PROVE  HInv'
<1>1. TypeNum /\ TypeBool
    BY TypeParts DEF HInv
<1>2. i \in 1..N /\ pc = "destroy"
    BY DEF HInv, DestroyProgress, DestroyStep
<1>3. PICK r \in {-1, 0, 1} :
          /\ GetCtl(i, r)
          /\ \/ /\ r # 0
                /\ dLeft' = (dLeft \/ r = -1)
                /\ UNCHANGED <<dirs, ret>>
             \/ /\ r = 0
                /\ \E rc \in {0, 1} :
                      /\ CgDestroy(i, rc)
                      /\ ret' = DestroyResult(rc)
                      /\ dLeft' = (dLeft \/ (rc = 0 /\ CgDir(i) \in dirs'))
    BY DEF DestroyStep
<1>4. /\ CacheType' /\ CacheSound'
      /\ r = 0 => cache'[i] # NoPath
      /\ r = 1 => Mount[i] = NoMount
    BY <1>1, <1>2, <1>3, GetCtlFacts DEF HInv, TypeNum
<1>5. /\ i' = i + 1 /\ pc' = pc
      /\ lastOp' = lastOp /\ lastRet' = lastRet /\ made' = made
      /\ rbLeft' = rbLeft
      /\ tasks' = tasks /\ exc' = exc /\ placed' = placed
    BY AttachVarsSame DEF DestroyStep
<1>6. (CreateProgress /\ RollbackProgress /\ AttachProgress)'
    BY <1>2, <1>5 DEF CreateProgress, RollbackProgress, AttachProgress
<1>7. \A j \in 1..i - 1 :
          (ret = 0 /\ ~dLeft /\ Mount[j] # NoMount) => CgDir(j) \notin dirs
    BY <1>2 DEF HInv, DestroyProgress
<1>8. CASE /\ r # 0
           /\ dLeft' = (dLeft \/ r = -1)
           /\ UNCHANGED <<dirs, ret>>
    <2>1. TypeOK'
        <3>1. TypeNum'
            BY <1>1, <1>2, <1>4, <1>5, <1>8 DEF TypeNum
        <3>2. TypeBool'
            BY <1>1, <1>5, <1>8, Zenon DEF TypeBool
        <3>3. QED
            BY <3>1, <3>2, TypePartsPrimed
    <2>2. ~dLeft' => ~dLeft /\ r = 1
        BY <1>3, <1>8, Zenon
    <2>3. ASSUME ret' = 0, ~dLeft', NEW j \in 1..i, Mount[j] # NoMount
          PROVE  CgDir(j) \notin dirs'
        <3>1. j # i
            BY <2>2, <2>3, <1>4
        <3>2. QED
            BY <3>1, <2>2, <2>3, <1>2, <1>7, <1>8
    <2>4. DestroyProgress'
        <3>1. i' \in 1..N + 1 /\ 1..i' - 1 = 1..i
            BY <1>2, <1>5
        <3>2. QED
            BY <3>1, <2>3, <1>2, <1>5, Zenon DEF DestroyProgress
    <2>5. QED
        BY <2>1, <2>4, <1>4, <1>5, <1>6, <1>2, RunningVacuous DEF HInv
<1>9. CASE /\ r = 0
           /\ \E rc \in {0, 1} :
                 /\ CgDestroy(i, rc)
                 /\ ret' = DestroyResult(rc)
                 /\ dLeft' = (dLeft \/ (rc = 0 /\ CgDir(i) \in dirs'))
    <2>1. PICK rc \in {0, 1} :
              /\ CgDestroy(i, rc)
              /\ ret' = DestroyResult(rc)
              /\ dLeft' = (dLeft \/ (rc = 0 /\ CgDir(i) \in dirs'))
        BY <1>9
    <2>2. dirs' \subseteq dirs
        BY <2>1, <1>2, CgDestroyFacts
    <2>3. ret' \in {-1, 0, 1} /\ (ret' = 0 => ret = 0 /\ rc = 0)
        BY <2>1, <1>1 DEF DestroyResult, TypeNum
    <2>4. TypeOK'
        <3>1. TypeNum'
            BY <1>1, <1>2, <1>4, <1>5, <2>2, <2>3 DEF TypeNum
        <3>2. TypeBool'
            BY <1>1, <1>5, <2>1, Zenon DEF TypeBool
        <3>3. QED
            BY <3>1, <3>2, TypePartsPrimed
    <2>5. ~dLeft' => ~dLeft /\ ~(rc = 0 /\ CgDir(i) \in dirs')
        BY <2>1, Zenon
    <2>6. ASSUME ret' = 0, ~dLeft', NEW j \in 1..i, Mount[j] # NoMount
          PROVE  CgDir(j) \notin dirs'
        <3>1. CASE j = i
            BY <3>1, <2>3, <2>5, <2>6
        <3>2. CASE j # i
            BY <3>2, <2>2, <2>3, <2>5, <2>6, <1>2, <1>7
        <3>3. QED
            BY <3>1, <3>2
    <2>7. DestroyProgress'
        <3>1. i' \in 1..N + 1 /\ 1..i' - 1 = 1..i
            BY <1>2, <1>5
        <3>2. QED
            BY <3>1, <2>6, <1>2, <1>5, Zenon DEF DestroyProgress
    <2>8. QED
        BY <2>4, <2>7, <1>4, <1>5, <1>6, <1>2, RunningVacuous DEF HInv
<1>10. QED
    BY <1>3, <1>8, <1>9

\* cg_attach_task returning -1 ends the call with nothing to claim
LEMMA AttachFailVacuous ==
    ASSUME pc' = "idle", lastOp' = "attach", lastRet' = -1
    PROVE  /\ (CreateOkMeansAll /\ CreateFailedClean /\ DestroyReported
               /\ AttachOkMeansAttached)'
           /\ (CreateProgress /\ RollbackProgress /\ DestroyProgress
               /\ AttachProgress)'
BY DEF CreateOkMeansAll, CreateFailedClean, DestroyReported,
       AttachOkMeansAttached, CreateProgress, RollbackProgress,
       DestroyProgress, AttachProgress

(***************************************************************************)
(* An iteration of cg_attach_task: controller i is the excepted one, has   *)
(* no mount, has no directory, or now holds the pid in its directory;      *)
(* otherwise the call returns -1.                                          *)
(***************************************************************************)
LEMMA AttachStepHInv ==
    ASSUME HInv, AttachStep
    PROVE  HInv'
<1>1. TypeNum /\ TypeBool
    BY TypeParts DEF HInv
<1>2. i \in 1..N /\ pc = "attach"
    BY DEF HInv, AttachProgress, AttachStep
<1>3. /\ dirs' = dirs /\ ret' = ret /\ made' = made /\ exc' = exc
      /\ rbLeft' = rbLeft /\ dLeft' = dLeft
    BY DEF AttachStep
<1>4. TypeBool'
    BY <1>1, <1>3, Zenon DEF TypeBool
<1>5. \A j \in 1..i - 1 :
          (j # exc /\ Mount[j] # NoMount /\ CgDir(j) \in dirs) =>
              CgDir(j) \in placed
    BY <1>2 DEF HInv, AttachProgress
\* the loop goes on to controller i + 1 with controller i handled
<1>6. ASSUME i' = i + 1, pc' = pc, lastOp' = lastOp, lastRet' = lastRet,
             CacheType', CacheSound', placed \subseteq placed',
             tasks' \subseteq AllDirs, placed' \subseteq AllDirs,
             (i # exc /\ Mount[i] # NoMount /\ CgDir(i) \in dirs) =>
                 CgDir(i) \in placed'
      PROVE  HInv'
    <2>1. TypeOK'
        <3>1. TypeNum'
            BY <1>1, <1>2, <1>3, <1>6 DEF TypeNum
        <3>2. QED
            BY <3>1, <1>4, TypePartsPrimed
    <2>2. AttachProgress'
        <3>1. i' \in 1..N + 1 /\ 1..i' - 1 = (1..i - 1) \cup {i}
            BY <1>2, <1>6
        <3>2. QED
            BY <3>1, <1>3, <1>5, <1>6, <1>2 DEF AttachProgress
    <2>3. (CreateProgress /\ RollbackProgress /\ DestroyProgress)'
        BY <1>2, <1>6 DEF CreateProgress, RollbackProgress, DestroyProgress
    <2>4. QED
        BY <2>1, <2>2, <2>3, <1>2, <1>6, RunningVacuous DEF HInv
<1>7. CASE /\ i = exc
           /\ i' = i + 1
           /\ UNCHANGED <<cache, pc, lastOp, lastRet, tasks, placed>>
    BY <1>7, <1>6, <1>1 DEF HInv, TypeNum, CacheType, CacheSound
<1>8. CASE i # exc
    <2>1. PICK r \in {-1, 0, 1} :
              /\ GetCtl(i, r)
              /\ \/ /\ r = -1
                    /\ AttachReturn(-1)
                    /\ UNCHANGED <<i, tasks, placed>>
                 \/ /\ AttachSkips(r) \/ (r = 0 /\ CgDir(i) \notin dirs)
                    /\ i' = i + 1
                    /\ UNCHANGED <<pc, lastOp, lastRet, tasks, placed>>
                 \/ /\ r = 0
                    /\ CgDir(i) \in dirs
                    /\ tasks' = tasks \cup {CgDir(i)}
                    /\ placed' = placed \cup {CgDir(i)}
                    /\ i' = i + 1
                    /\ UNCHANGED <<pc, lastOp, lastRet>>
                 \/ /\ r = 0
                    /\ CgDir(i) \in dirs
                    /\ "attach" \in Faults
                    /\ AttachReturn(-1)
                    /\ tasks' \in {tasks, tasks \cup {CgDir(i)}}
                    /\ UNCHANGED <<i, placed>>
        BY <1>8 DEF AttachStep
    <2>2. /\ CacheType' /\ CacheSound'
          /\ r = 1 => Mount[i] = NoMount
        BY <1>1, <1>2, <2>1, GetCtlFacts DEF HInv, TypeNum
    <2>3. CgDir(i) \in dirs => CgDir(i) \in AllDirs
        BY <1>1 DEF TypeNum
    \* the call returns -1
    <2>4. ASSUME pc' = "idle", lastOp' = "attach", lastRet' = -1,
                 i' = i, placed' = placed, tasks' \subseteq tasks \cup dirs
          PROVE  HInv'
        <3>1. TypeNum'
            BY <2>4, <2>2, <1>1, <1>2, <1>3 DEF TypeNum
        <3>2. QED
            BY <3>1, <1>4, <2>2, <2>4, AttachFailVacuous, TypePartsPrimed
               DEF HInv
    <2>5. CASE r = -1 /\ AttachReturn(-1) /\ UNCHANGED <<i, tasks, placed>>
        BY <2>5, <2>4 DEF AttachReturn
    <2>6. CASE /\ AttachSkips(r) \/ (r = 0 /\ CgDir(i) \notin dirs)
               /\ i' = i + 1
               /\ UNCHANGED <<pc, lastOp, lastRet, tasks, placed>>
        BY <2>6, <2>2, <1>6, <1>1 DEF AttachSkips, TypeNum
    <2>7. CASE /\ r = 0
               /\ CgDir(i) \in dirs
               /\ tasks' = tasks \cup {CgDir(i)}
               /\ placed' = placed \cup {CgDir(i)}
               /\ i' = i + 1
               /\ UNCHANGED <<pc, lastOp, lastRet>>
        BY <2>7, <2>2, <2>3, <1>6, <1>1 DEF TypeNum
    <2>8. CASE /\ r = 0
               /\ CgDir(i) \in dirs
               /\ "attach" \in Faults
               /\ AttachReturn(-1)
               /\ tasks' \in {tasks, tasks \cup {CgDir(i)}}
               /\ UNCHANGED <<i, placed>>
        BY <2>8, <2>4 DEF AttachReturn
    <2>9. QED
        BY <2>1, <2>5, <2>6, <2>7, <2>8
<1>9. QED
    BY <1>7, <1>8 DEF AttachStep

-----------------------------------------------------------------------------
\* a step that changes no variable keeps HInv
LEMMA StutterHInv ==
    ASSUME HInv, UNCHANGED vars
    PROVE  HInv'
<1>1. /\ cache' = cache /\ dirs' = dirs /\ pc' = pc /\ i' = i /\ ret' = ret
      /\ lastOp' = lastOp /\ lastRet' = lastRet /\ made' = made
      /\ rbLeft' = rbLeft /\ dLeft' = dLeft
      /\ tasks' = tasks /\ exc' = exc /\ placed' = placed
    BY DEF vars, attachVars
<1>2. QED
    BY <1>1 DEF HInv, TypeOK, CacheSound, CreateProgress, RollbackProgress,
           DestroyProgress, AttachProgress, CreateOkMeansAll,
           CreateFailedClean, DestroyReported, AttachOkMeansAttached

\* every step of the process, stutter included, keeps HInv
LEMMA NextHInv == HInv /\ [Next]_vars => HInv'
<1> SUFFICES ASSUME HInv, [Next]_vars PROVE HInv'
    OBVIOUS
<1>1. CASE StartCreate \/ StartDestroy \/ StartAttach
    BY <1>1, StartStep
<1>2. CASE CreateStep
    BY <1>2, CreateStepHInv
<1>3. CASE CreateDone
    BY <1>3, CreateDoneStep
<1>4. CASE RollbackStep
    BY <1>4, RollbackStepHInv
<1>5. CASE RollbackDone
    BY <1>5, RollbackDoneStep
<1>6. CASE DestroyStep
    BY <1>6, DestroyStepHInv
<1>7. CASE DestroyDone
    BY <1>7, DestroyDoneStep
<1>8. CASE AttachStep
    BY <1>8, AttachStepHInv
<1>9. CASE AttachDone
    BY <1>9, AttachDoneStep
<1>10. CASE TaskExit
    BY <1>10, TaskExitStep
<1>11. CASE Restart
    BY <1>11, RestartStep
<1>12. CASE UNCHANGED vars
    BY <1>12, StutterHInv
<1>13. QED
    BY <1>1, <1>2, <1>3, <1>4, <1>5, <1>6, <1>7, <1>8, <1>9, <1>10, <1>11,
       <1>12 DEF Next

(***************************************************************************)
(* HInv holds in every state of the container's cgroup life cycle: a call *)
(* of cg_new_cgroup, cg_destroy_cgroup or cg_attach_task, interrupted by   *)
(* crashes, restarts and the task's exit, never breaks it.                 *)
(***************************************************************************)
THEOREM HierarchyInvariant == Spec => []HInv
<1>1. Init => HInv
    BY InitHInv
<1>2. HInv /\ [Next]_vars => HInv'
    BY NextHInv
<1>3. QED
    BY <1>1, <1>2, PTL DEF Spec

\* every variable of the hierarchy model keeps its type
THEOREM HierarchyTypeCorrect == Spec => []TypeOK
BY HierarchyInvariant, PTL DEF HInv

\* cg_new_cgroup returning 0 means a directory under every mounted
\* controller (spec 4.3)
THEOREM CreateOkComplete == Spec => []CreateOkMeansAll
BY HierarchyInvariant, PTL DEF HInv

\* a failed cg_new_cgroup removes every directory it made, unless an
\* rm_tree of its rollback left one (spec 4.3)
THEOREM CreateFailureRolledBack == Spec => []CreateFailedClean
BY HierarchyInvariant, PTL DEF HInv

\* cg_destroy_cgroup returning 0 with nothing skipped or left means no
\* directory of the container remains
THEOREM DestroyReportsFailures == Spec => []DestroyReported
BY HierarchyInvariant, PTL DEF HInv

\* cg_attach_task returning 0 means the pid is in the tasks file of every
\* directory of a controller other than the excepted one
THEOREM AttachOkComplete == Spec => []AttachOkMeansAttached
BY HierarchyInvariant, PTL DEF HInv

=============================================================================
