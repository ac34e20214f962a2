---------------------------- MODULE ArgmaxTables ----------------------------
(***************************************************************************)
(* The ternary tables that find the largest of the six accumulated         *)
(* probabilities (classify.p4 and the three tab_cmp*_entries.p4).  A table *)
(* is a sequence of entries; the first one that matches decides.  An entry *)
(* constrains some bits of some keys, <<key, bit, value>>, and ignores the *)
(* rest.  The files hold the entries for KeyBits = 11; they are the        *)
(* sequences below, entry for entry.                                       *)
(***************************************************************************)
EXTENDS Integers, Sequences, SequencesExt

CONSTANT KeyBits

ASSUME KeyAssumption == KeyBits \in Nat \ {0}

\* 2 ^ b, the weight of bit b.
Weight[b \in 0 .. KeyBits] == IF b = 0 THEN 1 ELSE 2 * Weight[b - 1]

Bit(x, b) == (x \div Weight[b]) % 2

Entry(cells, class) == [cells |-> cells, class |-> class]

Matches(entry, key) == \A cell \in entry.cells : Bit(key[cell[1]], cell[2]) = cell[3]

Lookup(table, key) == table[SelectInSeq(table, LAMBDA entry : Matches(entry, key))].class

\* The lists for the bits below k, from the highest down.
Downwards(k, list) == FlattenSeq([i \in 1 .. k |-> list[k - i]])
-----------------------------------------------------------------------------
\* The three classes of a half, f the first of them.
Half(f) == f .. f + 2

\* Of the half only c has bit k.
Alone(f, c, k) == Entry({<<d, k, IF d = c THEN 1 ELSE 0>> : d \in Half(f)}, c)

\* Mutant: the entry where the second wins by the lowest bit is left out too.
PairAboveLowest(f, c, d, k) ==
  LET both == {<<e, k, IF e \in {c, d} THEN 1 ELSE 0>> : e \in Half(f)}
      Wins(w, l, b) == Entry(both \union {<<w, b, 1>>, <<l, b, 0>>}, w)
      decide == [b \in 0 .. k - 1 |-> IF b = 0 THEN << >>
                                      ELSE <<Wins(c, d, b), Wins(d, c, b)>>]
  IN Downwards(k, decide) \o <<Entry(both, c)>>

\* c and d have bit k, the third has not: the highest bit where they differ
\* decides, and c if there is none.
Pair(f, c, d, k) ==
  LET both == {<<e, k, IF e \in {c, d} THEN 1 ELSE 0>> : e \in Half(f)}
      Wins(w, l, b) == Entry(both \union {<<w, b, 1>>, <<l, b, 0>>}, w)
      decide == [b \in 0 .. k - 1 |-> IF b = 0 THEN <<Wins(d, c, b)>>
                                      ELSE <<Wins(c, d, b), Wins(d, c, b)>>]
  IN Downwards(k, decide) \o <<Entry(both, c)>>

\* All three have the same bits above k.
Level(f, k) ==
  IF k = 0
  THEN <<Entry({<<f, 0, 0>>, <<f + 1, 0, 0>>, <<f + 2, 0, 1>>}, f + 2),
         Entry({<<f, 0, 0>>, <<f + 1, 0, 1>>}, f + 1),
         Entry({}, f)>>
  ELSE <<Alone(f, f, k), Alone(f, f + 1, k)>> \o Pair(f, f, f + 1, k)
       \o <<Alone(f, f + 2, k)>> \o Pair(f, f, f + 2, k) \o Pair(f, f + 1, f + 2, k)

tab_cmp012 == Downwards(KeyBits, [k \in 0 .. KeyBits - 1 |-> Level(0, k)])

tab_cmp345 == Downwards(KeyBits, [k \in 0 .. KeyBits - 1 |-> Level(3, k)])

\* The winners of the two halves: key and class 1 for 012, 2 for 345.
tab_cmp012345 ==
  LET Wins(b, first, class) == Entry({<<1, b, first>>, <<2, b, 1 - first>>}, class)
      decide == [b \in 0 .. KeyBits - 1 |-> IF b = 0 THEN <<Wins(0, 0, 2)>>
                                            ELSE <<Wins(b, 1, 1), Wins(b, 0, 2)>>]
  IN Downwards(KeyBits, decide) \o <<Entry({}, 1)>>
-----------------------------------------------------------------------------
\* What act_choose0 .. act_choose5, act_choose012 and act_choose345 leave: the
\* winner of each half, and whether the final class is that of the first.
Choice(cpr) ==
  LET class1 == Lookup(tab_cmp012, cpr)
      class2 == Lookup(tab_cmp345, cpr)
  IN [tmp_class1 |-> class1, tmp_class2 |-> class2,
      in012 |-> Lookup(tab_cmp012345, <<cpr[class1], cpr[class2]>>) = 1]

final_class(choice) == IF choice.in012 THEN choice.tmp_class1 ELSE choice.tmp_class2
=============================================================================
