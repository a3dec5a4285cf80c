------------------------------- MODULE MCLists -------------------------------
(* The numbering parts of MCConversions: an abstract list of three levels  *)
(* with and without restart rules, near the ends of letters and Roman      *)
(* numerals, one with a level left out, one with a picture bullet; an      *)
(* instance that overrides a start or a whole level, and one of a list     *)
(* that is not there.                                                      *)
EXTENDS Integers, TLC

ListLevel(start, restart, text, format) ==
    [start |-> start, restart |-> restart, text |-> text, format |-> format, picture |-> FALSE]
ThreeLevels(second, third) ==
    0 :> ListLevel(1, <<>>, <<0>>, "decimal")
    @@ 1 :> ListLevel(26, second, <<0, 1>>, "letter")
    @@ 2 :> ListLevel(3998, third, <<0, 1, 2>>, "roman")
LevelLeftOut == 0 :> ListLevel(1, <<>>, <<0>>, "bullet") @@ 2 :> ListLevel(4, <<>>, <<1, 2>>, "decimal")
Pictured ==
    0 :> [ListLevel(1, <<>>, <<0>>, "decimal") EXCEPT !.picture = TRUE]
    @@ 1 :> ListLevel(1, <<>>, <<0, 1>>, "decimal")
NoOverrides == [level \in {} |-> 0]
Instance(abstract, overrides) == [abstract |-> abstract, overrides |-> overrides]

NumberingWith(second, third, overrides) ==
    [abstracts |-> "three" :> ThreeLevels(second, third) @@ "gap" :> LevelLeftOut @@ "picture" :> Pictured,
     nums |-> 1 :> Instance("three", NoOverrides) @@ 2 :> Instance("three", overrides)
              @@ 3 :> Instance("gap", NoOverrides) @@ 4 :> Instance("missing", NoOverrides)
              @@ 5 :> Instance("picture", NoOverrides)]

StartsAtFive == 0 :> [start |-> <<5>>, level |-> <<>>]
OwnLevel == 1 :> [start |-> <<7>>, level |-> <<ListLevel(2, <<>>, <<1>>, "decimal")>>]

SampleNumberings ==
    {NumberingWith(<<>>, <<0>>, StartsAtFive), NumberingWith(<<0>>, <<1>>, OwnLevel)}
==============================================================================
