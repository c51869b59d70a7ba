----------------------------- MODULE MCFlasher -----------------------------
(* Pages of two chunks; the application starts at half the largest group,  *)
(* as it does in the product (page 16, groups of 32).                      *)
EXTENDS Flasher
=============================================================================
