--------------------------- MODULE MCAggregation ---------------------------
EXTENDS Aggregation, TLC

\* Softmax in units of 1/QuantNum, rounded down: the six sum up to one at most.
\* One class the network is nearly or quite sure of, or two that are level,
\* beside each other or at the same place in the two halves, or nothing.
MCVectors ==
  LET V(mass) == [c \in 0 .. 5 |-> IF c \in DOMAIN mass THEN mass[c] ELSE 0]
  IN {V(<<>>)}
     \cup {V(c :> 2) : c \in 0 .. 5}
     \cup {V(c :> 2 @@ ((c + 1) % 6) :> 1) : c \in 0 .. 5}
     \cup {V(c :> 1 @@ ((c + d) % 6) :> 1) : c \in 0 .. 5, d \in {1, 3}}

\* A class that is hard to be sure of, an easy one, and one without threshold.
MCTConf == [c \in 0 .. 5 |-> CASE c = 0 -> 2 [] c = 1 -> 3 [] c = 4 -> 1 [] c = 5 -> 0 [] OTHER -> 2]
=============================================================================
