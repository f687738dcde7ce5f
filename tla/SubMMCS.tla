------------------------------ MODULE SubMMCS -------------------------------
(***************************************************************************)
(* SubMMCS (sub_mmcs.h, sub_mmcs.cpp): the search of MMCS, stopped as soon *)
(* as it has accepted a number of covers, each far enough from the one     *)
(* accepted before.                                                        *)
(*                                                                         *)
(* RunDiverse_ is RunAll_ of MMCS with three additions: what becomes of a  *)
(* cover, a return on entry and a return after each call once enough are   *)
(* accepted.  An object may be asked for RunAll too, which it inherits.    *)
(***************************************************************************)
EXTENDS MMCS

CONSTANT Requests   \* what an object may be asked for

ASSUME RequestsAssumption ==
  Requests \subseteq [operation : {"RunAll", "RunDiverse"},
                      required_number_of_vc : Nat,
                      threshold : 0 .. 100]   \* a distance, in percent

VARIABLES request, vc_list

sub_vars == <<vars, request, vc_list>>

Diverse == request.operation = "RunDiverse"

Full == Diverse /\ Len(vc_list) = request.required_number_of_vc

SubInit ==
  /\ Init
  /\ request \in Requests
  /\ vc_list = <<>>

\* Mutant: the distance is taken from the first cover accepted.
FarFromFirst ==
  vc_list # <<>> =>
    LET d == GetDistance(vc_list[1], cur)
    IN d[2] # 0 /\ 100 * d[1] >= request.threshold * d[2]

\* cur is far enough from prev_, which is the cover accepted last.
FarEnough ==
  vc_list # <<>> =>
    LET d == GetDistance(vc_list[Len(vc_list)], cur)
    IN d[2] # 0 /\ 100 * d[1] >= request.threshold * d[2]

\* RunDiverse_ is entered with enough covers accepted.
EnterFull ==
  /\ pc = "call"
  /\ Full
  /\ pc' = "return"
  /\ args' = NoArgs
  /\ UNCHANGED <<given, cur, uncov, next_edge, stack, output, request, vc_list>>

\* Every edge is hit: cur is pushed, and accepted if it is far enough.
FoundOrAccepted ==
  /\ ~Full
  /\ Found
  /\ vc_list' = IF Diverse /\ FarEnough THEN Append(vc_list, cur) ELSE vc_list
  /\ UNCHANGED request

\* A call has returned with enough covers accepted: nothing is restored.
ReturnFull ==
  /\ pc = "return"
  /\ stack # <<>>
  /\ Full
  /\ stack' = Popped(stack)
  /\ UNCHANGED <<given, cur, uncov, next_edge, pc, args, output, request, vc_list>>

\* The other steps of RunDiverse_ are those of RunAll_.
AsInRunAll ==
  /\ \/ ~Full /\ (Expand \/ Return)
     \/ SkipVertex \/ Descend \/ Leave \/ Finish \/ Terminated
  /\ UNCHANGED <<request, vc_list>>

SubNext == EnterFull \/ FoundOrAccepted \/ ReturnFull \/ AsInRunAll

SubSpec == SubInit /\ [][SubNext]_sub_vars /\ WF_sub_vars(SubNext)

-----------------------------------------------------------------------------
\* The members and the crit of every activation are exact as long as the
\* search goes on: what the early returns leave behind is never searched.
BookkeepingUnlessFull == ~Full => Bookkeeping

\* The first cover pushed is accepted, then each that is far enough from the
\* one accepted before, in this order and no other, never more than required;
\* and once there are enough none is pushed.
AcceptedInTurn ==
  LET Far(S, T) == LET d == GetDistance(S, T)
                   IN 100 * d[1] >= request.threshold * d[2]
      At(i) == CHOOSE p \in DOMAIN output : output[p] = vc_list[i]
      end == Len(output)
  IN Diverse =>
       /\ vc_list = <<>> <=> output = <<>>
       /\ vc_list # <<>> => At(1) = 1
       /\ \A i \in DOMAIN vc_list :
            LET next == IF i = Len(vc_list) THEN end + 1 ELSE At(i + 1)
            IN /\ next > At(i)
               /\ \A p \in At(i) + 1 .. next - 1 : ~Far(vc_list[i], output[p])
               /\ next <= end => Far(vc_list[i], output[next])
       /\ Len(vc_list) <= request.required_number_of_vc
       /\ Full /\ vc_list # <<>> => At(Len(vc_list)) = end

\* What is pushed are minimal covers, none twice, and all of them if the
\* search was not stopped because it had enough; and the search returns.
Searched == INSTANCE CoverEnumeration
  WITH Thetas <- {0}, theta <- 0, emitted <- output,
       finished <- (pc = "done" /\ ~Full)
ImplementsEnumerationUnlessFull == Searched!Safety /\ <>(pc = "done")
=============================================================================
