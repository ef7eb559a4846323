------------------------------ MODULE MCSchedule ------------------------------
(* BlockSchedule for two nodes with one witness each.                      *)
EXTENDS ScheduleProperties, TLC

CONSTANTS n1, n2, w1, w2

TwoControls == n1 :> {w1} @@ n2 :> {w2}
TwoOrders == {<<w1, w2>>, <<w2, w1>>}

\* Blocks every two seconds; maintenance every three or every four blocks.
EverySix == [block_interval |-> 2, maintenance_interval |-> 6]
EveryEight == [block_interval |-> 2, maintenance_interval |-> 8]

\* Blocks every three seconds.
EveryThree == [block_interval |-> 3, maintenance_interval |-> 6]

OtherMaintenance == {EveryEight}
OtherInterval == {EveryThree}
=============================================================================
