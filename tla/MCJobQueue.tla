----------------------------- MODULE MCJobQueue -----------------------------
(***************************************************************************)
(* Small instances of JobQueue: the job rows the runs insert.              *)
(***************************************************************************)
EXTENDS JobQueue, TLC

CONSTANTS n1, i1, c1

Row(type, node, instance, scope, priority, touches, instances) ==
  [type |-> type, node |-> node, instance |-> instance, scope |-> scope,
   priority |-> priority, touches |-> touches, instances |-> instances]

Inventory  == Row("node.inventory.sync", n1, None, n1, 100, {n1}, {})
Reboot     == Row("node.reboot", n1, None, n1, 1, {n1}, {})
Bootstrap  == Row("node.bootstrap", n1, None, n1, 40, {n1}, {})
Apply      == Row("instance.apply", n1, i1, i1, 100, {n1}, {i1})
Provision  == Row("client.provision", None, None, c1, 100, {n1}, {i1})

\* One node: an unlocked read, a long job with the highest priority and the
\* worker's bootstrap, the last two on the same lock.
NodeTemplates == {Inventory, Reboot, Bootstrap}

\* The same with an apply of an instance on that node and a provisioning that
\* names the instance.
QueueTemplates == {Inventory, Bootstrap, Apply, Provision}

JobSymmetry == Permutations(Job)
WorkerSymmetry == Permutations(Worker)
QueueSymmetry == JobSymmetry \cup WorkerSymmetry
=============================================================================
