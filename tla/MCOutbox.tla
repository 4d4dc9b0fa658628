------------------------------ MODULE MCOutbox ------------------------------
(* A small instance of Outbox for TLC: a kind of each sort, one writer who   *)
(* asks for drains and the retry timer.                                      *)
EXTENDS Outbox
=============================================================================
