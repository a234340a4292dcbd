------------------------------- MODULE Lists -------------------------------
(* The singly linked lists of the code, as sequences.  RemoveAt, InsertAt,  *)
(* ToSet and IsInjective of the community modules under names of their     *)
(* own: a module the proofs extend stays free of the definitions those     *)
(* modules bring along, which every proof obligation would carry.          *)
EXTENDS Integers, Sequences

Elements(s) == {s[i] : i \in DOMAIN s}

NoDuplicates(s) == \A i, j \in DOMAIN s : s[i] = s[j] => i = j

(* The list without its i-th element. *)
Without(s, i) == SubSeq(s, 1, i - 1) \o SubSeq(s, i + 1, Len(s))

(* The list with e as its i-th element, the later ones moved back. *)
WithAt(s, i, e) == SubSeq(s, 1, i - 1) \o <<e>> \o SubSeq(s, i, Len(s))
=============================================================================
