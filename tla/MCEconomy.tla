------------------------------ MODULE MCEconomy ------------------------------
(***************************************************************************)
(* Small instances of Economy: with 3 for a price, 6 of an item cost more   *)
(* than a word of 16 holds.                                                *)
(***************************************************************************)
EXTENDS Economy, TLC

PriceOfThree == [i \in Goods |-> 3]
=============================================================================
