-------------------------- MODULE MCKernelObjects --------------------------
(* Instances of KernelObjects for TLC. *)
EXTENDS KernelObjects

\* One completion queue less than the program wants.
Tight == [k \in Kinds |-> 1]
=============================================================================
