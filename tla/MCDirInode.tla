----------------------------- MODULE MCDirInode -----------------------------
(***************************************************************************)
(* Instances of DirInode for TLC.                                          *)
(***************************************************************************)
EXTENDS DirInode, TLC

MCSlots == CallSlots
Symmetry == Permutations(Callers)

Flat == [hierarchical |-> "no", faults |-> "yes", implicitDirs |-> FALSE, nonexistentTypeCache |-> TRUE,
         root |-> TRUE, atomicRename |-> FALSE, renameDirLimit |-> 0, versions |-> 2, cacheFaults |-> FALSE]
Implicit == [Flat EXCEPT !.implicitDirs = TRUE, !.atomicRename = TRUE]
Hierarchical == [Flat EXCEPT !.hierarchical = "yes", !.root = FALSE, !.atomicRename = TRUE]
Trees(m) == [m EXCEPT !.renameDirLimit = 1, !.versions = 3]
Faultless(m) == [m EXCEPT !.faults = "no"]
FileCache(m) == [m EXCEPT !.cacheFaults = TRUE]

Of(n, ops) == ops \X {n}
List == {<<"list", "top">>}
Scenario(m, holds, rs) == [mode |-> m, holds |-> holds, requests |-> rs]
All == {"file", "dir", "child"}

\* Every request meets every other one it has something in common with: two
\* kinds of request with failing calls, three and more without.
MCScenarios ==
  {Scenario(Implicit, All, Of("n", {"lookup", "create", "unlink"})),
   Scenario(Implicit, {"dir", "child"}, Of("n", {"lookup", "mkdir"})),
   Scenario(Implicit, {"dir", "child"}, Of("n", {"lookup", "rmdir"})),
   Scenario(Faultless(Implicit), {"dir", "child"}, Of("n", {"lookup", "mkdir", "rmdir"})),
   Scenario(Hierarchical, {"dir", "child"}, Of("n", {"lookup", "mkdir"})),
   Scenario(Hierarchical, {"dir", "child"}, Of("n", {"lookup", "rmdir"})),
   Scenario(Faultless(Hierarchical), {"dir", "child"}, Of("n", {"lookup", "mkdir", "rmdir"})),
   Scenario(Faultless(Hierarchical), {"dir", "child"}, Of("n", {"lookup", "rmdir", "unlink child"})),
   Scenario(Faultless(Implicit), {"child"}, Of("n", {"lookup", "rmdir", "unlink child", "forget"})),
   Scenario(Implicit, {"child"}, Of("n", {"lookup", "unlink child"})),
   Scenario(Implicit, {"child"}, Of("n", {"lookup", "create child"})),
   Scenario(Faultless(Implicit), {"child"}, Of("n", {"lookup", "unlink child", "create child"})),
   Scenario(Flat, {"file"}, Of("n", {"lookup", "create local", "flush"})),
   Scenario(Flat, {"file"}, Of("n", {"lookup", "flush", "unlink"})),
   Scenario(Faultless(Flat), {"file"}, Of("n", {"lookup", "create local", "flush", "unlink"})),
   Scenario(Flat, {"file"}, Of("n", {"replace", "read", "unlink"})),
   Scenario(Flat, {"file"}, Of("n", {"lookup", "replace"})),
   Scenario(Faultless(Flat), {"file"}, Of("n", {"lookup", "replace", "read", "unlink"})),
   Scenario(Flat, {"file"}, List \cup Of("n", {"create local", "flush", "unlink"})),
   Scenario(Implicit, {"file", "child"}, List \cup Of("n", {"mkdir", "lookup"})),
   Scenario(Flat, All, Of("n", {"conflicting", "create", "unlink"})),
   Scenario(Flat, {"file"}, Of("n", {"rename"}) \cup Of("m", {"lookup"})),
   Scenario(Flat, {"file"}, Of("n", {"rename", "replace"})),
   Scenario(Faultless(Flat), {"file"}, Of("n", {"rename", "replace"}) \cup Of("m", {"lookup"})),
   Scenario(Implicit, {"file"}, Of("n", {"rename"}) \cup Of("m", {"lookup"})),
   Scenario(Implicit, {"file"}, Of("n", {"rename", "create local"})),
   Scenario(Faultless(Implicit), {"file"}, Of("n", {"rename", "create local"}) \cup Of("m", {"lookup"})),
   Scenario(FileCache(Flat), {"file"}, Of("n", {"rename", "create local"})),
   Scenario(FileCache(Faultless(Flat)), {"file"}, Of("n", {"rename", "unlink"}) \cup Of("m", {"lookup"})),
   Scenario(FileCache(Faultless(Implicit)), {"file"}, Of("n", {"rename"}) \cup Of("m", {"lookup"})),
   Scenario(FileCache(Faultless(Trees(Flat))), {"dir", "child"}, Of("n", {"rename"})),
   Scenario(Hierarchical, {"child"}, Of("n", {"rename"}) \cup Of("m", {"lookup"})),
   Scenario(Faultless(Hierarchical), {"child"}, Of("n", {"rename", "stat child"}) \cup Of("m", {"stat child", "mkdir"})),
   Scenario(Trees(Flat), {"dir", "child"}, Of("n", {"rename"})),
   Scenario(Faultless(Trees(Implicit)), {"child"}, Of("n", {"rename", "replace child"})),
   Scenario(Faultless(Trees(Flat)), {"dir", "child"}, Of("n", {"rename"}) \cup Of("m", {"unlink child"})),
   Scenario(Faultless(Trees(Implicit)), {"child"}, Of("n", {"rename", "forget"}) \cup Of("m", {"rmdir"})),
   Scenario(Faultless(Trees(Flat)), {"dir", "child"}, Of("n", {"rename", "create child", "replace child"})),
   Scenario(Faultless(Implicit), {"child"}, Of("n", {"rename"})),
   Scenario(Faultless(Flat), {"file"}, Of("n", {"lookup", "remote"})),
   Scenario(Faultless(Flat), {"dir"}, Of("n", {"lookup", "remote"})),
   Scenario(Faultless(Implicit), {"file", "child"}, Of("n", {"lookup", "expire", "create"})),
   Scenario(Faultless(Implicit), {"child"}, Of("n", {"lookup", "expire", "unlink child"})),
   Scenario(Faultless(Flat), {"file"}, List \cup Of("n", {"remote"}) \cup Of("m", {"create", "lookup"}))}
=============================================================================
