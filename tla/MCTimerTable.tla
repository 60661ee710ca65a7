---------------------------- MODULE MCTimerTable ----------------------------
(***************************************************************************)
(* Timer tables of two charts, a parent state and its child.  The codegen  *)
(* gives a chart as many slots as it has distinct duration texts.          *)
(*   distinct: Parent after a, Child after b, Child after c: 3 slots       *)
(*   shared:   Parent after a, b, Child after a, c:          3 slots, so   *)
(*             that the fourth timer finds the table full                  *)
(***************************************************************************)
EXTENDS TimerTable

MCState == {"Parent", "Child"}
MCTrigger == {"a", "b", "c"}
MCDepth == [s \in MCState |-> IF s = "Parent" THEN 1 ELSE 2]
DistinctOwned == {<<"Parent", "a">>, <<"Child", "b">>, <<"Child", "c">>}
SharedOwned ==
  {<<"Parent", "a">>, <<"Parent", "b">>, <<"Child", "a">>, <<"Child", "c">>}
=============================================================================
