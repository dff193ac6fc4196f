--------------------------- MODULE MCCgTreeRemoval ---------------------------
(***************************************************************************)
(* A cgroup file system for CgTreeRemoval: the mount top, a slice sl, the  *)
(* container directory r to remove and a sibling container o; below r the *)
(* directories a (with children c, e) and b.  Names repeat across levels   *)
(* (a and c are both n1, b, e and o are n2) so that an unlinkat relative   *)
(* to the wrong handle finds a directory to remove.                        *)
(***************************************************************************)
EXTENDS CgTreeRemoval

MCDirs == {"top", "sl", "r", "o", "a", "b", "c", "e"}

MCPar == [d \in MCDirs |->
            CASE d = "top" -> "top"
              [] d \in {"sl"} -> "top"
              [] d \in {"r", "o"} -> "sl"
              [] d \in {"a", "b"} -> "r"
              [] d \in {"c", "e"} -> "a"]

MCDepth == [d \in MCDirs |->
            CASE d = "top" -> 0
              [] d = "sl" -> 1
              [] d \in {"r", "o"} -> 2
              [] d \in {"a", "b"} -> 3
              [] d \in {"c", "e"} -> 4]

MCNames == {"n1", "n2", "n3"}

MCDirName == [d \in MCDirs |->
            CASE d \in {"a", "c", "r"} -> "n1"
              [] d \in {"b", "e", "o"} -> "n2"
              [] d \in {"top", "sl"} -> "n3"]

MCSub == {"r", "a", "b", "c", "e"}

MCFaultsAll == {"open", "ebusy", "external"}
MCFaultsStat == {"stat"}
MCFaultsNone == {}
=============================================================================
