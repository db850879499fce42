----------------------------- MODULE MCAvlTree -----------------------------
(* A small instance of AvlTree for TLC; two elements have the same key. *)
EXTENDS AvlTree

Elements == 1 .. 7

Keys == <<1, 2, 3, 3, 4, 5, 6>>
=============================================================================
