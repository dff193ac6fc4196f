------------------------- MODULE CgTreeRemovalProofs -------------------------
(***************************************************************************)
(* Proofs about CgTreeRemoval, the model of rm_tree() in src/lib/cgroup.c, *)
(* for every tree, every subtree root and every set of faults allowed by   *)
(* TreeAssumption.                                                         *)
(***************************************************************************)
EXTENDS CgTreeRemoval, TLAPS, WellFoundedInduction

(***************************************************************************)
(* What the characterisation of Sub in TreeAssumption gives: the subtree   *)
(* lies below Root, is closed under "..", except at Root, and contains     *)
(* every child of its members.                                             *)
(***************************************************************************)
LEMMA SubFacts ==
    /\ Sub \subseteq Dirs
    /\ Root \in Sub
    /\ Depth[Root] > 0
    /\ \A d \in Sub : Depth[d] >= Depth[Root]
    /\ \A d \in Sub \ {Root} :
          /\ Par[d] \in Sub
          /\ Depth[d] > Depth[Root]
          /\ d \notin TopDirs
    /\ \A c \in Dirs \ TopDirs : Par[c] \in Sub => c \in Sub
<1>1. Sub \subseteq Dirs /\ Root \in Sub
  BY TreeAssumption
<1>2. Depth[Root] > 0
  BY TreeAssumption DEF TopDirs
<1>3. \A d \in Sub \ {Root} : Par[d] \in Sub /\ Depth[d] > Depth[Root]
  BY TreeAssumption
<1>4. \A d \in Sub : Depth[d] >= Depth[Root]
  BY <1>1, <1>3, TreeAssumption
<1>5. \A d \in Sub \ {Root} : d \notin TopDirs
  BY <1>1, <1>2, <1>3, TreeAssumption DEF TopDirs
<1>6. \A c \in Dirs \ TopDirs : Par[c] \in Sub => c \in Sub
  <2>1. SUFFICES ASSUME NEW c \in Dirs \ TopDirs, Par[c] \in Sub
                 PROVE  c \in Sub
    OBVIOUS
  <2>2. Depth[Par[c]] + 1 = Depth[c]
    BY TreeAssumption
  <2>3. Depth[c] > Depth[Root]
    BY <2>1, <2>2, <1>4, TreeAssumption
  <2>. QED
    BY <2>1, <2>3, TreeAssumption
<1>. QED
  BY <1>1, <1>2, <1>3, <1>4, <1>5, <1>6

(***************************************************************************)
(* rmdir_retry removes at most one directory, the one its entry names, and *)
(* only ever shrinks the set of busy directories.                          *)
(***************************************************************************)
LEMMA RmdirRetryEffect ==
    ASSUME NEW dir, NEW nm, NEW rc, RmdirRetry(dir, nm, rc)
    PROVE  /\ busy' \subseteq busy
           /\ \/ present' = present
              \/ \E t \in Entry(dir, nm) : present' = present \ {t}
BY DEF RmdirRetry

(***************************************************************************)
(* The entry of Par[d] named DirName[d] is d itself: names are unique in a *)
(* directory.                                                              *)
(***************************************************************************)
LEMMA EntryIsSelf ==
    ASSUME present \subseteq Dirs,
           NEW d \in Dirs \ TopDirs, NEW t \in Entry(Par[d], DirName[d])
    PROVE  t = d
BY TreeAssumption DEF Entry, Children

-----------------------------------------------------------------------------
LEMMA InitIInv == Init => IInv
<1>. SUFFICES ASSUME Init PROVE IInv
  OBVIOUS
<1>1. TypeOK
  <2>1. leaked \in BOOLEAN
    BY Zenon DEF Init
  <2>. QED
    BY <2>1, SubFacts, TreeAssumption DEF Init, TypeOK
<1>2. OutsideIntact /\ WalkConsistent /\ OpenClean
  BY DEF Init, OutsideIntact, WalkConsistent, OpenClean
<1>. QED
  BY <1>1, <1>2 DEF IInv

\* The ascent keeps the handles a directory of the subtree and its parent,
\* and removes at most the directory it left.
LEMMA AscendUpStep ==
    ASSUME IInv, pc = "walk", AscendUp, leaked' = TRUE
    PROVE  IInv'
<1>. USE SubFacts
<1>1. fd \in Sub \ {Root} /\ parentfd = Par[fd] /\ level = Depth[fd] - Depth[Root]
  BY DEF IInv, WalkConsistent, AscendUp, IsWalkRoot
<1>2. fd' = Par[fd] /\ parentfd' = Par[Par[fd]] /\ name' = NoName
      /\ level' = level - 1
  BY <1>1 DEF AscendUp, Rotate
<1>3. fd' \in Sub /\ level' = Depth[fd'] - Depth[Root] /\ level' \in Nat
  <2>1. Depth[Par[fd]] + 1 = Depth[fd]
    BY <1>1, TreeAssumption
  <2>. QED
    BY <1>1, <1>2, <2>1, TreeAssumption
<1>4. PICK rc \in {0, -1} :
         /\ IF name # NoName
               THEN RmdirRetry(fd', name, rc)
               ELSE rc = 0 /\ UNCHANGED <<present, busy>>
         /\ ret' = AscendResult(rc)
         /\ pc' = IF rc # 0 \/ level - 1 < 0 THEN "finish" ELSE "walk"
  BY DEF AscendUp
<1>5. busy' \subseteq busy /\ present' \subseteq present
      /\ \A x \in present \ present' : x = fd
  <2>1. CASE name # NoName
    <3>1. name = DirName[fd]
      BY <2>1 DEF IInv, WalkConsistent
    <3>2. RmdirRetry(Par[fd], DirName[fd], rc)
      BY <1>2, <1>4, <2>1, <3>1
    <3>3. \A t \in Entry(Par[fd], DirName[fd]) : t = fd
      BY <1>1, EntryIsSelf DEF IInv, TypeOK
    <3>. QED
      BY <3>2, <3>3, RmdirRetryEffect
  <2>2. CASE name = NoName
    BY <1>4, <2>2
  <2>. QED
    BY <2>1, <2>2
<1>6. TypeOK'
  <2>1. ret' \in {0, -1} /\ pc' \in {"finish", "walk"}
    BY <1>4 DEF IInv, TypeOK, AscendResult
  <2>2. parentfd' \in Dirs
    BY <1>1, <1>2, TreeAssumption
  <2>. QED
    BY <1>2, <1>3, <1>5, <2>1, <2>2 DEF IInv, TypeOK
<1>7. OutsideIntact'
  BY <1>1, <1>5 DEF IInv, OutsideIntact
<1>8. WalkConsistent'
  <2>. SUFFICES ASSUME pc' = "walk" PROVE WalkConsistent!2'
    BY DEF WalkConsistent
  <2>1. fd' # Root => parentfd' = Par[fd']
    BY <1>2
  <2>. QED
    BY <1>2, <1>3, <2>1
<1>9. OpenClean'
  BY <1>4 DEF OpenClean
<1>. QED
  BY <1>6, <1>7, <1>8, <1>9 DEF IInv

LEMMA NextIInv == IInv /\ [Next]_vars => IInv'
<1>. SUFFICES ASSUME IInv, [Next]_vars PROVE IInv'
  OBVIOUS
<1>. USE SubFacts, TreeAssumption
<1>1. CASE Open
  BY <1>1 DEF Open, IInv, TypeOK, OutsideIntact, WalkConsistent, OpenClean
<1>2. CASE Descend
  <2>1. PICK c \in Children(fd) :
           fd' = c /\ parentfd' = fd /\ name' = EntryName(c)
    BY <1>2 DEF Descend
  <2>2. fd \in Sub /\ level = Depth[fd] - Depth[Root]
    BY <1>2 DEF Descend, IInv, WalkConsistent
  <2>3. c \in Dirs \ TopDirs /\ Par[c] = fd
    BY DEF Children, IInv, TypeOK
  <2>4. c \in Sub \ {Root} /\ Depth[c] = Depth[fd] + 1
    BY <2>2, <2>3, TreeAssumption
  <2>. QED
    BY <1>2, <2>1, <2>2, <2>3, <2>4
    DEF Descend, EntryName, IInv, TypeOK, OutsideIntact, WalkConsistent,
        OpenClean
<1>3. CASE NextDirFails
  <2>1. leaked \in BOOLEAN /\ leaked' \in {leaked, TRUE}
    BY <1>3 DEF NextDirFails, IInv, TypeOK
  <2>2. leaked' \in BOOLEAN
    <3>1. CASE leaked' = leaked
      BY <2>1, <3>1
    <3>2. CASE leaked' = TRUE
      BY <3>2
    <3>. QED
      BY <2>1, <3>1, <3>2, Zenon
  <2>. QED
    BY <1>3, <2>2 DEF NextDirFails, IInv, TypeOK, OutsideIntact,
             WalkConsistent, OpenClean
<1>4. CASE Ascend
  <2>1. CASE AscendAtRoot
    BY <1>4, <2>1 DEF Ascend, AscendAtRoot, IInv, TypeOK, OutsideIntact,
             WalkConsistent, OpenClean
  <2>2. CASE AscendFails
    BY <1>4, <2>2 DEF Ascend, AscendFails, IInv, TypeOK, OutsideIntact,
             WalkConsistent, OpenClean
  <2>3. CASE AscendUp
    BY <1>4, <2>3, AscendUpStep DEF Ascend
  <2>. QED
    BY <1>4, <2>1, <2>2, <2>3 DEF Ascend
<1>5. CASE Finish
  BY <1>5 DEF Finish, IInv, TypeOK, OutsideIntact, WalkConsistent, OpenClean
<1>6. CASE Returned
  BY <1>6 DEF Returned, vars, IInv, TypeOK, OutsideIntact, WalkConsistent,
           OpenClean
<1>7. ASSUME NEW d \in Dirs, Drain(d) PROVE IInv'
  BY <1>7 DEF Drain, IInv, TypeOK, OutsideIntact, WalkConsistent, OpenClean
<1>8. ASSUME NEW d \in Dirs, ExternalRmdir(d) PROVE IInv'
  BY <1>8 DEF ExternalRmdir, IInv, TypeOK, OutsideIntact, WalkConsistent,
           OpenClean
<1>9. CASE UNCHANGED vars
  BY <1>9 DEF vars, IInv, TypeOK, OutsideIntact, WalkConsistent, OpenClean
<1>. QED
  BY <1>1, <1>2, <1>3, <1>4, <1>5, <1>6, <1>7, <1>8, <1>9 DEF Next, RmTree

-----------------------------------------------------------------------------
\* TypeOK: every variable of the rm_tree model keeps its type, in particular
\* the depth counter never goes below 0
THEOREM TypeCorrect == Spec => []TypeOK
BY InitIInv, NextIInv, PTL DEF Spec, IInv

\* OutsideIntact: rm_tree never removes a directory outside the subtree it
\* is asked to remove, whatever the tree, the faults and the other process do
THEOREM SubtreeConfined == Spec => []OutsideIntact
BY InitIInv, NextIInv, PTL DEF Spec, IInv

\* WalkConsistent: the two handles of rm_tree are always a directory of the
\* subtree and its parent, and the recorded name is that directory's entry
THEOREM HandlesConsistent == Spec => []WalkConsistent
BY InitIInv, NextIInv, PTL DEF Spec, IInv

-----------------------------------------------------------------------------
(* SuccessMeansEmpty                                                       *)

(***************************************************************************)
(* If every existing directory has its parent and Root has no             *)
(* subdirectory, nothing below Root exists: a lowest surviving directory   *)
(* below Root would have a surviving parent below Root, or be a child of   *)
(* Root.  The lowest one exists because < is well-founded on Nat.          *)
(***************************************************************************)
LEMMA NoneBelow ==
    ASSUME present \subseteq Dirs, ParClosed, IsEmpty(Root)
    PROVE  \A d \in Sub \ {Root} : d \notin present
<1>. USE SubFacts
<1>. SUFFICES ASSUME NEW d0 \in Sub \ {Root}, d0 \in present PROVE FALSE
  OBVIOUS
<1>. DEFINE Bad == (Sub \ {Root}) \cap present
            T == {Depth[d] : d \in Bad}
<1>1. T \subseteq Nat /\ T # {}
  BY TreeAssumption
<1>2. IsWellFoundedOn(OpToRel(<, Nat), Nat)
  BY NatLessThanWellFounded
<1>3. PICK x \in T : \A y \in T : ~(<<y, x>> \in OpToRel(<, Nat))
  BY <1>1, <1>2, WFMin
<1>4. PICK d \in Bad : Depth[d] = x
  OBVIOUS
<1>5. d \notin TopDirs /\ Par[d] \in Sub /\ Par[d] \in present
  BY DEF ParClosed
<1>6. CASE Par[d] = Root
  BY <1>5, <1>6 DEF IsEmpty, Children
<1>7. CASE Par[d] # Root
  <2>1. Par[d] \in Bad /\ Depth[Par[d]] \in T
    BY <1>5, <1>7
  <2>2. Depth[Par[d]] < x /\ Depth[Par[d]] \in Nat /\ x \in Nat
    BY <1>1, <1>4, <1>5, TreeAssumption
  <2>3. <<Depth[Par[d]], x>> \in OpToRel(<, Nat)
    BY <2>2 DEF OpToRel
  <2>. QED
    BY <1>3, <2>1, <2>3
<1>. QED
  BY <1>6, <1>7

\* removing a directory with no subdirectory keeps every parent in place
LEMMA RemoveEmpty ==
    ASSUME ParClosed, NEW t, IsEmpty(t), present' = present \ {t}
    PROVE  ParClosed'
BY DEF ParClosed, IsEmpty, Children

\* a shrinking file system keeps an empty root empty
LEMMA StaysEmpty ==
    ASSUME IsEmpty(Root), present' \subseteq present
    PROVE  IsEmpty(Root)'
BY DEF IsEmpty, Children

\* rmdir_retry removes nothing, or one directory with no subdirectory
LEMMA RmdirRetryEmpty ==
    ASSUME NEW dir, NEW nm, NEW rc, RmdirRetry(dir, nm, rc)
    PROVE  \/ present' = present
           \/ \E t : IsEmpty(t) /\ present' = present \ {t}
BY DEF RmdirRetry

\* Root missing at open(): then no directory has Root as parent
LEMMA AbsentRootEmpty ==
    ASSUME ParClosed, Root \notin present
    PROVE  IsEmpty(Root)
BY DEF ParClosed, IsEmpty, Children

LEMMA InitEInv == Init => EInv
BY DEF Init, EInv, ParClosed, EmptyAtEnd

(***************************************************************************)
(* Without fstatat failures every step keeps EInv.  goto_next_dir returns  *)
(* 1 only on a directory with no subdirectory, so the walk breaks at the   *)
(* root only once the root is empty; an ascent below the root never ends   *)
(* the loop with ret 0, since level is then at least 1.                    *)
(***************************************************************************)
LEMMA NextEInv ==
    ASSUME "stat" \notin Faults, IInv, EInv, [Next]_vars
    PROVE  EInv'
<1>. USE SubFacts, TreeAssumption
<1>1. ParClosed /\ EmptyAtEnd /\ present \subseteq Dirs
  BY DEF EInv, IInv, TypeOK
<1>2. CASE Open
  <2>1. CASE Root \notin present /\ pc' = "done" /\ UNCHANGED <<fd, ret>>
    BY <1>1, <1>2, <2>1, AbsentRootEmpty
       DEF Open, EInv, ParClosed, EmptyAtEnd, IsEmpty, Children
  <2>. QED
    BY <1>1, <1>2, <2>1 DEF Open, EInv, ParClosed, EmptyAtEnd
<1>3. CASE Descend
  BY <1>1, <1>3 DEF Descend, EInv, ParClosed, EmptyAtEnd
<1>9. CASE NextDirFails
  BY <1>1, <1>9 DEF NextDirFails, EInv, ParClosed, EmptyAtEnd
<1>4. CASE Ascend
  <2>1. pc = "walk" /\ IsEmpty(fd)
    BY <1>4 DEF Ascend
  <2>2. CASE AscendAtRoot
    BY <1>1, <2>1, <2>2 DEF AscendAtRoot, IsWalkRoot, EInv, ParClosed,
                            EmptyAtEnd, IsEmpty, Children
  <2>3. CASE AscendFails
    BY <1>1, <2>3 DEF AscendFails, EInv, ParClosed, EmptyAtEnd
  <2>4. CASE AscendUp
    <3>1. fd \in Sub \ {Root} /\ level = Depth[fd] - Depth[Root]
      BY <2>1, <2>4 DEF IInv, WalkConsistent, AscendUp, IsWalkRoot
    <3>2. level - 1 >= 0
      BY <3>1
    <3>3. PICK rc \in {0, -1} :
             /\ IF name # NoName
                   THEN RmdirRetry(fd', name, rc)
                   ELSE rc = 0 /\ UNCHANGED <<present, busy>>
             /\ ret' = AscendResult(rc)
             /\ pc' = IF rc # 0 \/ level - 1 < 0 THEN "finish" ELSE "walk"
      BY <2>4 DEF AscendUp
    <3>4. \/ present' = present
          \/ \E t : IsEmpty(t) /\ present' = present \ {t}
      BY <3>3, RmdirRetryEmpty
    <3>5. ParClosed'
      <4>1. CASE present' = present
        BY <1>1, <4>1 DEF ParClosed
      <4>2. CASE \E t : IsEmpty(t) /\ present' = present \ {t}
        <5>1. PICK t : IsEmpty(t) /\ present' = present \ {t}
          BY <4>2
        <5>. QED
          BY <1>1, <5>1, RemoveEmpty
      <4>. QED
        BY <3>4, <4>1, <4>2
    <3>6. (pc' = "finish" => ret' = -1) /\ pc' # "done"
      <4>1. CASE rc = 0
        <5>1. pc' = IF rc # 0 \/ level - 1 < 0 THEN "finish" ELSE "walk"
          BY <3>3
        <5>2. level \in Int
          BY DEF IInv, TypeOK
        <5>3. pc' = "walk"
          BY <3>2, <4>1, <5>1, <5>2
        <5>. QED
          BY <5>3
      <4>2. CASE rc = -1
        <5>1. ret' = -1 /\ pc' = "finish"
          BY <3>3, <4>2 DEF AscendResult
        <5>. QED
          BY <5>1
      <4>. QED
        BY <3>3, <4>1, <4>2
    <3>. QED
      BY <3>5, <3>6 DEF EInv, EmptyAtEnd
  <2>. QED
    BY <1>4, <2>2, <2>3, <2>4 DEF Ascend
<1>5. CASE Finish
  <2>1. pc = "finish" /\ pc' = "done" /\ busy' = busy /\ ret' = ret
    BY <1>5 DEF Finish
  <2>2. CASE ret = 0
    <3>1. IsEmpty(Root)
      BY <1>1, <2>1, <2>2 DEF EmptyAtEnd
    <3>2. CASE Root \in present /\ IsEmpty(Root) /\ Root \notin busy
      <4>1. present' = present \ {Root}
        BY <1>5, <3>2 DEF Finish
      <4>. QED
        BY <1>1, <2>1, <3>1, <4>1, RemoveEmpty, StaysEmpty
           DEF EInv, EmptyAtEnd
    <3>3. CASE ~(Root \in present /\ IsEmpty(Root) /\ Root \notin busy)
      <4>1. present' = present
        BY <1>5, <3>3 DEF Finish
      <4>. QED
        BY <1>1, <2>1, <3>1, <3>3, <4>1
           DEF EInv, EmptyAtEnd, ParClosed, IsEmpty, Children
    <3>. QED
      BY <3>2, <3>3
  <2>3. CASE ret # 0
    <3>1. ParClosed'
      BY <1>1, <1>5, RemoveEmpty DEF Finish, ParClosed
    <3>. QED
      BY <2>1, <2>3, <3>1 DEF EInv, EmptyAtEnd
  <2>. QED
    BY <2>2, <2>3
<1>6. CASE Returned \/ UNCHANGED vars
  <2>1. UNCHANGED vars
    BY <1>6 DEF Returned
  <2>. QED
    BY <1>1, <2>1 DEF vars, EInv, ParClosed, EmptyAtEnd, IsEmpty, Children
<1>7. ASSUME NEW d \in Dirs, Drain(d) PROVE EInv'
  BY <1>1, <1>7 DEF Drain, EInv, ParClosed, EmptyAtEnd, IsEmpty, Children
<1>8. ASSUME NEW d \in Dirs, ExternalRmdir(d) PROVE EInv'
  <2>1. present' = present \ {d} /\ IsEmpty(d) /\ pc \in {"walk", "finish"}
        /\ pc' = pc /\ ret' = ret
    BY <1>8 DEF ExternalRmdir
  <2>2. ParClosed'
    BY <1>1, <2>1, RemoveEmpty
  <2>3. (pc = "finish" /\ ret = 0) => IsEmpty(Root)'
    BY <1>1, <2>1, StaysEmpty DEF EmptyAtEnd
  <2>. QED
    BY <2>1, <2>2, <2>3 DEF EInv, EmptyAtEnd
<1>. QED
  BY <1>2, <1>3, <1>4, <1>5, <1>6, <1>7, <1>8, <1>9 DEF Next, RmTree

\* IInv, the strengthening the three theorems above rest on, holds in every
\* state of rm_tree, for every tree, root and fault set
THEOREM TreeInvariant == Spec => []IInv
BY InitIInv, NextIInv, PTL DEF Spec

\* without fstatat failures, EInv holds along with IInv in every state
THEOREM EmptyInvariant ==
    ASSUME "stat" \notin Faults
    PROVE  Spec => [](IInv /\ EInv)
<1>1. Init => IInv /\ EInv
  BY InitIInv, InitEInv
<1>2. IInv /\ EInv /\ [Next]_vars => (IInv /\ EInv)'
  BY NextIInv, NextEInv
<1>. QED
  BY <1>1, <1>2, PTL DEF Spec

(***************************************************************************)
(* SuccessMeansEmpty: when fstatat never fails, an rm_tree that returns 0  *)
(* leaves nothing below the root, and the root only while the kernel       *)
(* holds it busy.  The hypothesis is needed: goto_next_dir skips an entry  *)
(* whose fstatat fails and returns 1 as if the directory were empty, and   *)
(* the run tree_stat shows rm_tree returning 0 over a surviving subtree.   *)
(***************************************************************************)
THEOREM SuccessEmpty ==
    ASSUME "stat" \notin Faults
    PROVE  Spec => []SuccessMeansEmpty
<1>1. IInv /\ EInv => SuccessMeansEmpty
  <2>. SUFFICES ASSUME IInv, EInv, pc = "done", ret = 0
                PROVE  SuccessMeansEmpty
    BY DEF SuccessMeansEmpty
  <2>1. IsEmpty(Root) /\ (Root \in present => Root \in busy)
    BY DEF EInv, EmptyAtEnd
  <2>2. \A d \in Sub \ {Root} : d \notin present
    BY <2>1, NoneBelow DEF IInv, TypeOK, EInv
  <2>. QED
    BY <2>1, <2>2 DEF SuccessMeansEmpty
<1>. QED
  BY <1>1, EmptyInvariant, PTL

=============================================================================
