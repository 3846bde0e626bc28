-------------------------------- MODULE Vector --------------------------------
(***************************************************************************)
(* What SwappedVector promises its users: a sequence that grows and        *)
(* shrinks at its end and whose elements can be read at any index.  A      *)
(* program that opens the files of an earlier one may find other elements. *)
(***************************************************************************)
EXTENDS Naturals, Sequences

CONSTANT Items

VARIABLES
    vec,            \* the elements
    got             \* the element last read, a pair of its index and value, or <<>>

vars == <<vec, got>>

Init == vec = <<>> /\ got = <<>>

push_back(x) == vec' = Append(vec, x) /\ got' = got
pop_back == vec # <<>> /\ vec' = SubSeq(vec, 1, Len(vec) - 1) /\ got' = got
at(i) == i \in 1..Len(vec) /\ got' = <<i, vec[i]>> /\ vec' = vec
reopen == vec' \in Seq(Items) /\ got' = <<>>

Next ==
    \/ \E x \in Items : push_back(x)
    \/ pop_back
    \/ \E i \in 1..Len(vec) : at(i)
    \/ reopen

Spec == Init /\ [][Next]_vars
=============================================================================
