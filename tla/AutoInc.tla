------------------------------- MODULE AutoInc ------------------------------
(***************************************************************************)
(* AutoInc (random_enum_auto_inc.h, random_enum_auto_inc.cpp): judges      *)
(* after every new cover whether the list is long enough, which it is when *)
(* the greedy choice of top_k covers has stayed the same for some time.    *)
(*                                                                         *)
(* The choice is kept while it is valid.  A new cover that would have been *)
(* chosen at some position cuts it there; it is completed again at the     *)
(* first cover that leaves the rest as it is.                              *)
(***************************************************************************)
EXTENDS Maxmin

CONSTANTS MaxValidateSuccessTime,   \* max_validate_success_time_, 5
          MaxNumOfVc                \* max_num_of_vc_, 125

VARIABLES ans, distances, cur_size, validate_success_time

auto_inc_vars == <<ans, distances, cur_size, validate_success_time>>

top_k == Len(ans)

AutoIncInit(k) ==
  /\ ans = [i \in 1 .. k |-> 1]
  /\ distances = [i \in 1 .. k |-> <<0, 1>>]
  /\ cur_size = 0
  /\ validate_success_time = 0

\* The distance of the newest cover of the list to the first n of ans.
NewestTo(list, n) ==
  LET D(m) == GetDistance(list[ans[m]], list[Len(list)])
      After[m \in 1 .. n] == IF m = 1 THEN D(1) ELSE Lesser(After[m - 1], D(m))
  IN After[n]

\* Mutant: the new cover is compared with the position before.
ValidateOneOff(list) ==
  LET new == Len(list)
      failed == {p \in 2 .. cur_size - 1 :
                   Less(distances[p], NewestTo(list, p))}
  IN IF \E i \in 1 .. new - 1 :
          Less(distances[1], GetDistance(list[i], list[new])) THEN 0
     ELSE IF failed = {} THEN cur_size
     ELSE CHOOSE p \in failed : \A q \in failed : p <= q

\* Validate: how many of the cur_size covers chosen the newest cover of the
\* list leaves as they are.
Validate(list) ==
  LET new == Len(list)
      failed == {p \in 2 .. cur_size - 1 :
                   Less(distances[p + 1], NewestTo(list, p))}
  IN IF \E i \in 1 .. new - 1 :
          Less(distances[1], GetDistance(list[i], list[new])) THEN 0
     ELSE IF failed = {} THEN cur_size
     ELSE CHOOSE p \in failed : \A q \in failed : p <= q

\* The choice is completed after its first n covers, or kept.
Complete(list, n) ==
  LET chosen == IncMaxmin(list, ans, distances, n)
  IN ans' = chosen.ans /\ distances' = chosen.distances
Keep == UNCHANGED <<ans, distances>>

\* JudgeCondition, of the success time t: the list should grow.
JudgeCondition(list, t) ==
  Len(list) < MaxNumOfVc /\ t <= MaxValidateSuccessTime

\* Mutant: a choice that is cut when the list ends is not completed.
JudgeGrownWithoutCompleting(list) ==
  LET failed_pos == Validate(list)
      valid == failed_pos = cur_size
      t == IF valid /\ cur_size = top_k THEN validate_success_time + 1 ELSE 0
      size == IF valid \/ failed_pos = 0 THEN top_k ELSE failed_pos
  IN /\ validate_success_time' = t
     /\ cur_size' = size
     /\ IF failed_pos < size THEN Complete(list, failed_pos) ELSE Keep

\* Judge, of more covers than top_k: what is cut is completed when the next
\* cover is valid, or when the list ends.
JudgeGrown(list) ==
  LET failed_pos == Validate(list)
      valid == failed_pos = cur_size
      t == IF valid /\ cur_size = top_k THEN validate_success_time + 1 ELSE 0
      size == IF valid \/ failed_pos = 0 THEN top_k ELSE failed_pos
      ends == ~JudgeCondition(list, t) /\ size < top_k
  IN /\ validate_success_time' = t
     /\ cur_size' = size
     /\ IF failed_pos < size \/ ends THEN Complete(list, failed_pos) ELSE Keep

\* Judge: the new cover has the number new_cover_index.
Judge(new_cover_index, list) ==
  \/ new_cover_index < top_k /\ UNCHANGED auto_inc_vars
  \/ /\ new_cover_index = top_k
     /\ Complete(list, cur_size)
     /\ cur_size' = top_k
     /\ UNCHANGED validate_success_time
  \/ new_cover_index > top_k /\ JudgeGrown(list)

\* What the call of Judge that led here returned: stop.
JudgedEnough(new_cover_index, list) ==
  new_cover_index > top_k /\ ~JudgeCondition(list, validate_success_time)
=============================================================================
