------------------------------- MODULE MCCache -------------------------------
(* A small instance of Cache: the prefix of one handle is a pattern that does  *)
(* not match its own keys but those of the other.                              *)
EXTENDS Cache, TLC

CONSTANTS t1, t2, t3, h1, h2

Characters == [h \in {h1, h2} |-> IF h = h1 THEN <<"[", "a", "]">> ELSE <<"a", "b">>]
Defaults   == [h \in {h1, h2} |-> IF h = h1 THEN 1 ELSE None]
TwoKeys    == {<<"x">>, <<"y">>}
Symmetry   == Permutations({t1, t2, t3})

From(q, i) == SubSeq(q, i, Len(q))

\* How Redis matches a pattern (without ranges and negated sets).
RECURSIVE Matches(_, _)
Matches(p, k) ==
  CASE p = <<>>      -> k = <<>>
    [] p[1] = "*"    -> \E i \in 1 .. Len(k) + 1 : Matches(Tail(p), From(k, i))
    [] k = <<>>      -> FALSE
    [] p[1] = "?"    -> Matches(Tail(p), Tail(k))
    [] p[1] = "["    -> \E i \in 2 .. Len(p) :
                          /\ p[i] = "]" /\ \A j \in 2 .. i - 1 : p[j] # "]"
                          /\ \E j \in 2 .. i - 1 : p[j] = k[1]
                          /\ Matches(From(p, i + 1), Tail(k))
    [] p[1] = "\\" /\ Len(p) > 1 -> p[2] = k[1] /\ Matches(From(p, 3), Tail(k))
    [] OTHER         -> p[1] = k[1] /\ Matches(Tail(p), Tail(k))
=============================================================================
