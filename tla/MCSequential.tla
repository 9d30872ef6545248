---------------------------- MODULE MCSequential ----------------------------
(***************************************************************************)
(* The components that one thread uses, side by side: each behaviour is    *)
(* one of the component that part names, while the others rest as they     *)
(* were initialised.  They share nothing, so one run checks them all.      *)
(***************************************************************************)
EXTENDS Lists, Trees, Foc, Numeric

VARIABLE part

all == <<part, listVars, treeVars, focVars, numericVars>>

Init ==
  /\ part \in {"lists", "trees", "foc", "numeric"}
  /\ ListsInit /\ TreesInit /\ FocInit /\ NumericInit

Next ==
  /\ UNCHANGED part
  /\ \/ part = "lists"   /\ ListsNext   /\ UNCHANGED <<treeVars, focVars, numericVars>>
     \/ part = "trees"   /\ TreesNext   /\ UNCHANGED <<listVars, focVars, numericVars>>
     \/ part = "foc"     /\ FocNext     /\ UNCHANGED <<listVars, treeVars, numericVars>>
     \/ part = "numeric" /\ NumericNext /\ UNCHANGED <<listVars, treeVars, focVars>>

Spec == Init /\ [][Next]_all

(* No list node is special.                                                *)
Symmetry == Permutations(Nodes)
=============================================================================
