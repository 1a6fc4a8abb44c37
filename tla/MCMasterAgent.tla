---------------------------- MODULE MCMasterAgent ----------------------------
(***************************************************************************)
(* Instances of MasterAgent for TLC: the ids of the servers are strings,   *)
(* connections and addresses are interchangeable model values.             *)
(***************************************************************************)
EXTENDS MasterAgent

OneType  == [i \in Server |-> "connector"]

Symmetry == Permutations(Socket) \cup Permutations(Info)
=============================================================================
