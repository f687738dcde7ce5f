------------------------------- MODULE Maxmin -------------------------------
(***************************************************************************)
(* The greedy choice of diverse covers (common/maxmin.cpp).                *)
(*                                                                         *)
(* Distances are fractions, as GetDistance gives them: comparisons of      *)
(* floats are exact here.  A choice is a sequence ans of positions in the  *)
(* list of covers, counted from one, with the distance each had to those   *)
(* before it when it was chosen.                                           *)
(***************************************************************************)
EXTENDS HyperGraph, Sequences, SequencesExt

\* The comparisons std::min and the loops are written with.  A NaN, 0 / 0,
\* is less than nothing, and nothing is less than it.
Less(x, y) == x[1] * y[2] < y[1] * x[2]
Lesser(x, y) == IF Less(y, x) THEN y ELSE x

Nothing == <<-1, 1>>       \* the float -1, below every distance
Everything == <<2, 1>>     \* the float 2, above every distance

\* The distance of the i-th cover to the nearest of the first n of ans.
Nearest(list, i, ans, n) ==
  LET After[m \in 0 .. n] ==
        IF m = 0 THEN Everything
        ELSE Lesser(After[m - 1], GetDistance(list[i], list[ans[m]]))
  IN After[n]

Chosen(ans, n) == {ans[m] : m \in 1 .. n}

\* The first pair none is farther apart than, and its distance.
FarthestPair(list) ==
  LET D(p) == GetDistance(list[p[1]], list[p[2]])
      pairs == {p \in (1 .. Len(list)) \X (1 .. Len(list)) :
                  p[1] < p[2] /\ Less(Nothing, D(p))}
      Before(p, q) == p[1] < q[1] \/ (p[1] = q[1] /\ p[2] < q[2])
      first == CHOOSE p \in pairs : \A q \in pairs \ {p} :
                 Less(D(q), D(p)) \/ (~Less(D(p), D(q)) /\ Before(p, q))
  IN IF pairs = {} THEN [pair |-> <<1, 1>>, distance |-> Nothing]
     ELSE [pair |-> first, distance |-> D(first)]

\* Mutant: the cover nearest to those chosen is taken.
NearestCover(list, ans, n) ==
  CHOOSE i \in (1 .. Len(list)) \ Chosen(ans, n) :
    \A j \in (1 .. Len(list)) \ Chosen(ans, n) :
      ~Less(Nearest(list, j, ans, n), Nearest(list, i, ans, n))

\* The first cover none is farther from the first n of ans than.
FarthestCover(list, ans, n) ==
  LET D(i) == Nearest(list, i, ans, n)
      others == (1 .. Len(list)) \ Chosen(ans, n)
  IN CHOOSE i \in others : \A j \in others \ {i} :
       Less(D(j), D(i)) \/ (~Less(D(i), D(j)) /\ i < j)

\* IncMaxmin: what becomes of the first cur_size covers chosen and of their
\* distances.
IncMaxmin(list, ans, distances, cur_size) ==
  LET k == Len(ans)
      far == FarthestPair(list)
      start ==
        IF cur_size # 0 THEN [ans |-> ans, distances |-> distances]
        ELSE [ans |-> [ans EXCEPT ![1] = far.pair[1], ![2] = far.pair[2]],
              distances |-> [distances EXCEPT ![1] = far.distance,
                                              ![2] = far.distance]]
      Filled[n \in 2 .. k] ==
        IF n <= cur_size \/ n = 2 THEN start
        ELSE LET f == Filled[n - 1]
                 i == FarthestCover(list, f.ans, n - 1)
             IN [ans |-> [f.ans EXCEPT ![n] = i],
                 distances |-> [f.distances EXCEPT
                                  ![n] = Nearest(list, i, f.ans, n - 1)]]
  IN Filled[k]

\* What IncMaxmin returns: the least distance between two of the covers S.
LeastDistance(list, S) ==
  LET D == {GetDistance(list[p[1]], list[p[2]]) : p \in {q \in S \X S : q[1] < q[2]}}
  IN CHOOSE d \in D : \A e \in D : ~Less(e, d)

\* Maxmin: the choice of k covers from scratch, and its least distance.
Maxmin(list, k) ==
  LET ans == IncMaxmin(list, [i \in 1 .. k |-> 1],
                       [i \in 1 .. k |-> <<0, 1>>], 0).ans
  IN LeastDistance(list, Chosen(ans, k))

-----------------------------------------------------------------------------
(***************************************************************************)
(* The references.                                                         *)
(***************************************************************************)

\* The first n of ans are a greedy choice from the list: the first two are
\* as far apart as any two covers, and no cover is farther from the first m
\* than the next one; distances says how far.
IsGreedy(list, ans, distances, n) ==
  LET D(i, j) == GetDistance(list[i], list[j])
      Equal(x, y) == ~Less(x, y) /\ ~Less(y, x)
      all == 1 .. Len(list)
  IN n > 0 =>
       /\ Cardinality(Chosen(ans, n)) = n
       /\ Equal(distances[1], D(ans[1], ans[2]))
       /\ \A i, j \in all : i # j => ~Less(distances[1], D(i, j))
       /\ \A m \in 2 .. n - 1 :
            /\ Equal(distances[m + 1], Nearest(list, ans[m + 1], ans, m))
            /\ \A i \in all \ Chosen(ans, m) :
                 ~Less(distances[m + 1], Nearest(list, i, ans, m))

\* No k covers are more than twice as far apart as the distance.
IsHalfOptimal(list, k, distance) ==
  \A T \in SUBSET (1 .. Len(list)) :
    Cardinality(T) = k =>
      ~Less(<<2 * distance[1], distance[2]>>, LeastDistance(list, T))
=============================================================================
