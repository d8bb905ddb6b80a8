---------------------------- MODULE MCReconciler ----------------------------
(* Instances of Reconciler for TLC.                                        *)
EXTENDS Reconciler

Limits(all, changes, silencing, inhibiting, webhooks, faults, restarts) ==
  [ s \in Sources |-> CASE s = "all"        -> all
                        [] s = "changes"    -> changes
                        [] s = "silencing"  -> silencing
                        [] s = "inhibiting" -> inhibiting
                        [] s = "webhooks"   -> webhooks
                        [] s = "faults"     -> faults
                        [] s = "restarts"   -> restarts ]

BudgetAll     == Limits(4, 2, 2, 1, 1, 1, 1)
BudgetRestart == Limits(2, 1, 0, 0, 0, 0, 1)
=============================================================================
