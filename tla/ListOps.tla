------------------------------- MODULE ListOps --------------------------------
(***************************************************************************)
(* Lists made from lists, as recursive functions: where the app filters a  *)
(* list (Iterable.where, List.removeWhere), the order stays as it was.     *)
(***************************************************************************)
EXTENDS Naturals, Sequences

(* The first i entries of list without those that are not in S, for each i. *)
Selections(list, S) ==
    LET kept[i \in 0 .. Len(list)] ==
            IF i = 0 THEN <<>>
            ELSE IF list[i] \in S THEN Append(kept[i - 1], list[i])
            ELSE kept[i - 1]
    IN  kept

(* The entries of list that are in S. *)
Selected(list, S) == Selections(list, S)[Len(list)]
===============================================================================
