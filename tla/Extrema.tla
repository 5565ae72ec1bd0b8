------------------------------ MODULE Extrema ------------------------------
(***************************************************************************)
(* The first and the last of a set of row or sequence numbers, as          *)
(* Array.find and Array.at(-1) give them on a sorted list: 0 for none.     *)
(***************************************************************************)
EXTENDS Naturals

First(S) == IF S = {} THEN 0 ELSE CHOOSE n \in S : \A m \in S : n <= m
Last(S) == IF S = {} THEN 0 ELSE CHOOSE n \in S : \A m \in S : m <= n

=============================================================================
