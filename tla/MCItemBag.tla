----------------------------- MODULE MCItemBag -----------------------------
(* Instances of ItemBag for TLC: an equipment that does not stack and may be *)
(* strengthened, and a potion that stacks to two.                            *)
EXTENDS ItemBag, TLC

CONSTANTS Sword, Blade, Potion

Of(S, sword, blade, potion) ==
  [t \in S |-> CASE t = Sword -> sword [] t = Blade -> blade [] t = Potion -> potion]

Shop(S, next) ==
  [type |-> Of(S, 1, 1, 2), stack |-> Of(S, 0, 0, 2), next |-> next,
   strength |-> <<(<<0, 1, 1, 1>>)>>]

\* A first visit; one with strengthening, a count above a stack and one whose price
\* is past what an int holds; one with more items than a sorted bag shows; one with
\* counts that are empty and negative, themselves or as a short; and any client in a
\* smaller bag.
Two    == {Sword, Potion}
First  == Shop(Two, Of(Two, Sword, NoTemplate, NoTemplate)) @@
          [visit |-> TRUE, price |-> Of(Two, 1, 2, 1)]
MCVisit == [money |-> 3, maxMoney |-> 3, level |-> 0, counts |-> {1, 2}, price |-> Of(Two, 2, 2, 1),
            cells |-> 4, maxItems |-> 3, maxCell |-> 4] @@ First
MCGreed == [money |-> 3, maxMoney |-> 7, level |-> 2, counts |-> {1, 3, 7}, price |-> Of(Two, 2, 2, 1),
            cells |-> 3, maxItems |-> 2, maxCell |-> 3] @@ First
MCFull  == [money |-> 2, maxMoney |-> 2, level |-> 0, counts |-> {1}, price |-> Of(Two, 0, 2, 1),
            cells |-> 2, maxItems |-> 3, maxCell |-> 3] @@ First
MCWrapped == [money |-> 3, maxMoney |-> 7, level |-> 0, counts |-> {-5, 0, 1, 6},
              cells |-> 3, maxItems |-> 2, maxCell |-> 3] @@ First
Three  == {Sword, Blade, Potion}
MCAny  == [visit |-> FALSE, money |-> 1, maxMoney |-> 1, level |-> 2, counts |-> {-1, 1},
           cells |-> 2, maxItems |-> 2, maxCell |-> 2, price |-> Of(Three, 1, 3, 1)] @@
          Shop(Three, Of(Three, Blade, NoTemplate, NoTemplate))
MCSettings == {MCVisit, MCGreed, MCFull, MCWrapped, MCAny}
=============================================================================
