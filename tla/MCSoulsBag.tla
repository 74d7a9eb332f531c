----------------------------- MODULE MCSoulsBag -----------------------------
(* Instances of SoulsBag for TLC: hunts whose rows have the shape of those  *)
(* of souls_hunt.csv, two qualities with two levels each, the second one    *)
(* with a template for the first level only; and one quality with one cell, *)
(* so that the bag is full, and a deleted soul that may read as anything.   *)
EXTENDS SoulsBag

Row(price, need, w) ==
  [money |-> price, value |-> 1, levelNeed |-> need, rises |-> TRUE, weights |-> w]

MCTwo ==
  [hunts |-> << Row(1, 9, <<1, 1>>), Row(3, 1, <<1, 1>>), Row(1, 9, <<1, 1>>) >>,
   exps  |-> << <<0, 2>>, <<0, 2>> >>, gifts |-> << <<1, 2>>, <<1, 2>> >>, tops |-> << 2, 1 >>,
   level |-> 1, money |-> 3, cells |-> 2, maxHunt |-> 2, moves |-> {1, 2}, places |-> {0},
   stale |-> {}, maxSouls |-> 3, maxExp |-> 3]
MCFull ==
  [hunts |-> << Row(1, 9, <<1>>) >>,
   exps  |-> << <<0, 2>> >>, gifts |-> << <<1, 1>> >>, tops |-> << 2 >>,
   level |-> 1, money |-> 5, cells |-> 1, maxHunt |-> 3, moves |-> {}, places |-> {0},
   stale |-> {2}, maxSouls |-> 5, maxExp |-> 3]
MCSettings == {MCTwo, MCFull}
=============================================================================
