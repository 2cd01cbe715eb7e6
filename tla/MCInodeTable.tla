---------------------------- MODULE MCInodeTable ----------------------------
(* TLC instance of InodeTable: every request and change over two generations, *)
(* lookups that race with three, and the failure that leaves an inode locked. *)
EXTENDS InodeTable

MCKinds ==
    {[requests |-> AllRequests, remote |-> {"write", "delete"},
      faults |-> AllFaults \ {"handler"}, gens |-> 2, initial |-> {1}],
     [requests |-> {"LookUp", "Forget"}, remote |-> {"write"},
      faults |-> {"attributes"}, gens |-> 3, initial |-> {1}],
     [requests |-> {"MkNode", "Create", "LookUp", "Write", "Flush", "Forget"}, remote |-> {"write"},
      faults |-> {"handler", "tempFile"}, gens |-> 2, initial |-> {0}]}
=============================================================================
