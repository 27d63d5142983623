----------------------------- MODULE PoolContract -----------------------------
(***************************************************************************)
(* What manager.Pool promises to Manager.Create: a bounded stock of ready  *)
(* sandboxes, each of which is handed to at most one caller.  WarmPool     *)
(* implements it.                                                          *)
(***************************************************************************)
EXTENDS Naturals, FiniteSets

CONSTANTS Keys, Limit

VARIABLES
    stock,   \* sandboxes that Acquire may hand out
    taken    \* sandboxes that belong to a caller

Init == stock = {} /\ taken = {}

Offer(k) ==
    /\ k \notin stock \cup taken
    /\ Cardinality(stock) < Limit
    /\ stock' = stock \cup {k}
    /\ UNCHANGED taken

Take(k) ==
    /\ k \in stock
    /\ stock' = stock \ {k}
    /\ taken' = taken \cup {k}

Next == \E k \in Keys : Offer(k) \/ Take(k)

Spec == Init /\ [][Next]_<<stock, taken>>
=============================================================================
