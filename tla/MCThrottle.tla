------------------------------ MODULE MCThrottle ------------------------------
(* Small instances of Throttle.                                              *)
EXTENDS Throttle, TLC

CONSTANTS rt1, k1, k2

OneRoute  == {rt1}
TwoKeys   == {k1, k2}

\* Every route has its own path in the source.
OwnScope == [rt \in Route |-> rt]

Fixed(limits, load) ==
  [limits |-> limits, sliding |-> FALSE, remote |-> FALSE, failing |-> FALSE, load |-> load]
Slides(c) == [c EXCEPT !.sliding = TRUE]
Redis(c)  == [c EXCEPT !.remote = TRUE]
Fails(c)  == [c EXCEPT !.failing = TRUE]

Per(limit, window) == [limit |-> limit, window |-> window]
ShortAndLong == Fixed(<<Per(1, 1), Per(2, 4)>>, 4)
OneInThree   == Fixed(<<Per(1, 3)>>, 3)
OneInTwo     == Fixed(<<Per(1, 2)>>, 3)
TwoInTwo     == Fixed(<<Per(2, 2)>>, 4)
TwoInThree   == Fixed(<<Per(2, 3)>>, 4)

ThrottleConfigs ==
  {ShortAndLong, OneInThree, Slides(TwoInTwo), Slides(TwoInThree), Redis(OneInTwo),
   Slides(Redis(OneInTwo)), Fails(Slides(Redis(OneInTwo)))}

Symmetry == Permutations(Key)
=============================================================================
