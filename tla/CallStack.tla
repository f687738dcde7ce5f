----------------------------- MODULE CallStack ------------------------------
(***************************************************************************)
(* The activations of a recursive function: a sequence, the outermost      *)
(* first, of which a step reads and changes only the last.                 *)
(***************************************************************************)
EXTENDS Integers, Sequences

Top(s) == s[Len(s)]
WithTop(s, f) == [s EXCEPT ![Len(s)] = f]
Popped(s) == SubSeq(s, 1, Len(s) - 1)
=============================================================================
