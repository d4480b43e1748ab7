---------------------------- MODULE Publication ----------------------------
(***************************************************************************)
(* What the generator promises to the readers of the watched directories:  *)
(* each dataset shows no file yet or one whole file, newer files replace   *)
(* older ones, and orders appear only after the customers they were drawn  *)
(* from.  The promise lasts as long as generators run one at a time and    *)
(* name their files alike; GeneratorStaging says when that ends and is     *)
(* shown to implement this module.                                         *)
(***************************************************************************)
EXTENDS Integers

CONSTANT Generations    \* the runs of the generator, numbered from 1

VARIABLES
    shown,        \* per dataset, the generation a reader finds; 0: none yet
    undisturbed   \* generators ran one at a time, with one file suffix

vars == <<shown, undisturbed>>

Datasets == {"customers", "orders"}

Init ==
    /\ shown = [d \in Datasets |-> 0]
    /\ undisturbed = TRUE

PublishCustomers ==
    \E g \in Generations :
        /\ g > shown["customers"]
        /\ shown' = [shown EXCEPT !["customers"] = g]

PublishOrders ==
    /\ shown["orders"] < shown["customers"]
    /\ shown' = [shown EXCEPT !["orders"] = shown["customers"]]

(* Once disturbed, nothing is promised. *)
Next ==
    \/ undisturbed' = undisturbed /\ undisturbed /\ (PublishCustomers \/ PublishOrders)
    \/ undisturbed' = FALSE

Spec == Init /\ [][Next]_vars
=============================================================================
