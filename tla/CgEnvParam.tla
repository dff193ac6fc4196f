------------------------------ MODULE CgEnvParam -----------------------------
(***************************************************************************)
(* cg_get_cgroup_env_param() of src/lib/cgroup.c builds the environment    *)
(* string VE_CGROUP_MOUNT_MAP= " subsys:path" ... in a caller's buffer of  *)
(* size bytes by successive p += snprintf(p, ep - p, ...), checking p > ep *)
(* after every entry.  The text is abstracted to its lengths: what matters *)
(* is where p lands, how much of the text the buffer really holds, and     *)
(* whether a snprintf is given a negative size.                           *)
(***************************************************************************)
EXTENDS CgMountResolver

CONSTANTS
    Prvt,       \* the private controllers (is_prvt), left out of the map
    Size,       \* the size argument: bytes of the caller's buffer
    PrefixLen,  \* strlen("VE_CGROUP_MOUNT_MAP=")
    EntryLens   \* the lengths " subsys:path" can have

\* VZCTL_E_INVAL
EInval == 2

VARIABLES
    p,          \* p - out: the offset p points at
    written,    \* the characters of the text the buffer really holds
    overrun,    \* a snprintf was given ep - p < 0 (a huge size_t)
    i,          \* the loop index
    pc,         \* "prefix", "loop", "done"
    ret         \* what the call returns

vars == <<cache, p, written, overrun, i, pc, ret>>

(***************************************************************************)
(* p += snprintf(p, ep - p, text of n characters): with room left it      *)
(* writes as much of the text as fits before the terminating NUL, with no *)
(* room it writes nothing, and with a negative room (converted to a huge   *)
(* size_t) it writes the whole text past the buffer; it returns n.        *)
(***************************************************************************)
Snprintf(n) ==
    LET room == Size - p
    IN  /\ written' = CASE room > 0 -> p + (IF n < room - 1 THEN n ELSE room - 1)
                        [] room = 0 -> written
                        [] room < 0 -> p + n
        /\ overrun' = (overrun \/ room < 0)
        /\ p' = p + n

\* the p > ep test after each entry
Overflowed == p' > Size

Init ==
    /\ cache \in [Ctl -> MountPaths \cup {NoPath}]
    /\ \A c \in Ctl : cache[c] \in CacheValues(c)
    /\ p = 0
    /\ written = 0
    /\ overrun = FALSE
    /\ i = 1
    /\ pc = "prefix"
    /\ ret = 0

\* the first snprintf, of "VE_CGROUP_MOUNT_MAP=", is not checked
Prefix ==
    /\ pc = "prefix"
    /\ Snprintf(PrefixLen)
    /\ pc' = "loop"
    /\ UNCHANGED <<cache, i, ret>>

(***************************************************************************)
(* One iteration: cg_get_ctl; -1 returns 1; a private controller, or one  *)
(* that is not mounted, is skipped; otherwise the entry is printed and    *)
(* the call fails with VZCTL_E_INVAL if p went past ep.                   *)
(***************************************************************************)
Entry ==
    /\ pc = "loop"
    /\ i <= N
    /\ \E r \in {-1, 0, 1} :
          /\ GetCtl(i, r)
          /\ \/ /\ r = -1
                /\ ret' = 1
                /\ pc' = "done"
                /\ UNCHANGED <<p, written, overrun, i>>
             \/ /\ r # -1
                /\ (i \in Prvt \/ r = 1)
                /\ i' = i + 1
                /\ UNCHANGED <<p, written, overrun, pc, ret>>
             \/ /\ r = 0
                /\ i \notin Prvt
                /\ \E n \in EntryLens : Snprintf(n)
                /\ IF Overflowed
                      THEN ret' = EInval /\ pc' = "done" /\ UNCHANGED i
                      ELSE i' = i + 1 /\ UNCHANGED <<pc, ret>>

\* every controller was handled: return 0
Done ==
    /\ pc = "loop"
    /\ i > N
    /\ pc' = "done"
    /\ ret' = 0
    /\ UNCHANGED <<cache, p, written, overrun, i>>

Returned ==
    /\ pc = "done"
    /\ UNCHANGED vars

Next == Prefix \/ Entry \/ Done \/ Returned

Spec == Init /\ [][Next]_vars

-----------------------------------------------------------------------------
(* Properties                                                              *)

\* when cg_get_cgroup_env_param returns 0 the buffer holds the whole map:
\* none of it was cut off by the size limit (the caller hands the string to
\* the container's environment as it is)
CompleteOnSuccess == (pc = "done" /\ ret = 0) => written = p

=============================================================================
