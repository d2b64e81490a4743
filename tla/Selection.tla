----------------------------- MODULE Selection ------------------------------
(***************************************************************************)
(* What a loop that goes through a list once and keeps some of its entries  *)
(* returns: the entries at a set of positions, in order.  The choice is one *)
(* of positions, so that theorems can speak of where an entry comes from.  *)
(***************************************************************************)
EXTENDS Integers, Sequences, FiniteSets

(* The k-th least of a set of positions. *)
Nth(S, k) == CHOOSE i \in S : Cardinality({j \in S : j <= i}) = k

(* The entries of list at the positions S, in order. *)
EntriesAt(list, S) == [k \in 1..Cardinality(S) |-> list[Nth(S, k)]]

(* The entries of list that belong to G, in order. *)
MembersIn(list, G) == EntriesAt(list, {k \in DOMAIN list : list[k] \in G})
=============================================================================
