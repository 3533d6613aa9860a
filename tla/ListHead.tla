------------------------------ MODULE ListHead ------------------------------
(* The list_head operations of include/linux/list.h on a list without       *)
(* duplicates, given as the sequence of its entries.                        *)
EXTENDS Sequences, SequencesExt

list_add_tail(list, entry) == Append(list, entry)

list_del(list, entry) == RemoveAt(list, CHOOSE i \in DOMAIN list : list[i] = entry)

\* The entries of D are unlinked (list_move_tail(), list_del_init()) one after
\* the other by a walk over the list; the others keep their order.
list_del_all(list, D) ==
  LET rest[i \in 0 .. Len(list)] ==
        IF i = 0 THEN <<>>
        ELSE IF list[i] \in D THEN rest[i - 1] ELSE Append(rest[i - 1], list[i])
  IN rest[Len(list)]

\* e is an entry of list.
InList(list, e) == \E i \in DOMAIN list : list[i] = e

\* No entry occurs twice.
NoDup(list) == \A i, j \in DOMAIN list : list[i] = list[j] => i = j

=============================================================================
