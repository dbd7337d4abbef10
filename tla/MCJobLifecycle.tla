--------------------------- MODULE MCJobLifecycle ---------------------------
(* Instances of JobLifecycle for TLC.                                      *)
EXTENDS JobLifecycle, TLC

Symmetry == Permutations(Collaborators)

(* No guard but WithinBound reads a ledger, a fee or paid, so a run that   *)
(* asks nothing of them may merge the states that differ in them alone,    *)
(* with a MoneyBound no behaviour of such a run reaches.                   *)
Control == <<terms, orderVars, groupVars, transaction>>
=============================================================================
