--------------------------- MODULE MCConversions ----------------------------
EXTENDS Conversions, TLC

CONSTANTS r1, r2, r3, o1, o2

Sell == [from |-> "cup", to |-> "usdt", amount |-> 2]
Buy == [from |-> "usdt", to |-> "cup", amount |-> 2]

MCIntent == {Sell, Buy}
MCSell == {Sell}
MCYield == [x \in Intent \X Rate |->
              IF x[1] = Sell THEN 2 * x[2] ELSE 2 \div x[2]]
MCOpening == "cup" :> 2 @@ "usd" :> 1 @@ "usdt" :> 3
MCAmple == "cup" :> 4 @@ "usdt" :> 3

Symmetry == Permutations(Request) \cup Permutations(OpId)
=============================================================================
