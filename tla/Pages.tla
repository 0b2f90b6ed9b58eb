-------------------------------- MODULE Pages --------------------------------
(***************************************************************************)
(* What a query with an ORDER BY and a LIMIT returns: the first of a set   *)
(* of positions, in order.                                                 *)
(***************************************************************************)
EXTENDS Naturals, Sequences

Ascending(page) == \A i, j \in DOMAIN page : i < j => page[i] < page[j]
On(page) == {page[i] : i \in DOMAIN page}
\* A position is on the page, or the page is full and all of it before the position.
Covers(page, positions, limit) ==
  \A k \in positions \ On(page) : Len(page) = limit /\ \A i \in DOMAIN page : page[i] < k
FirstOf(positions, limit) ==
  CHOOSE page \in UNION {[1..n -> positions] : n \in 0..limit} :
    Ascending(page) /\ Covers(page, positions, limit)
=============================================================================
