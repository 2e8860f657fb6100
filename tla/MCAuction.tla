------------------------------ MODULE MCAuction ------------------------------
(* Auction for TLC.  Players are interchangeable when none or all of them   *)
(* log in and out.                                                          *)
EXTENDS Auction, TLC

PlayerSymmetry == Permutations(Players)
==============================================================================
