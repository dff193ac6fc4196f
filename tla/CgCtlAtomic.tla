----------------------------- MODULE CgCtlAtomic -----------------------------
(***************************************************************************)
(* What cg_ctl_map_mtx promises the callers of cg_get_ctl() in             *)
(* src/lib/cgroup.c: each call takes effect as one atomic GetCtl step of   *)
(* CgMountResolver, the form in which CgHierarchy and CgBindMount use it.  *)
(* apc[t] is "call" until thread t's call has taken effect, then          *)
(* "returned" with result aret[t].                                         *)
(***************************************************************************)
EXTENDS CgMountResolver

CONSTANTS
    Threads,    \* the calling threads
    CtlOf       \* CtlOf[t]: the controller thread t asks for

VARIABLES
    apc,        \* apc[t]: "call" or "returned"
    aret        \* aret[t]: what t's call returned

avars == <<cache, apc, aret>>

Init ==
    /\ cache = [c \in Ctl |-> NoPath]
    /\ apc = [t \in Threads |-> "call"]
    /\ aret = [t \in Threads |-> 0]

\* thread t's cg_get_ctl, in one step
Resolve(t) ==
    /\ apc[t] = "call"
    /\ \E r \in {-1, 0, 1} :
          /\ GetCtl(CtlOf[t], r)
          /\ aret' = [aret EXCEPT ![t] = r]
    /\ apc' = [apc EXCEPT ![t] = "returned"]

Next == \E t \in Threads : Resolve(t)

Spec == Init /\ [][Next]_avars

=============================================================================
