------------------------------ MODULE MCLibrary ------------------------------
(* A small instance of Library for TLC: two paths for ebooks, two for PDFs,  *)
(* and three directories: one book in two formats, two books in one format   *)
(* each, and two copies of one book.                                         *)
EXTENDS Library
CONSTANTS A, B

MCFormatOf == [p \in 1 .. 4 |-> IF p <= 2 THEN "epub" ELSE "pdf"]
MCStemOf == [p \in 1 .. 4 |-> IF p = 2 THEN "y" ELSE "x"]

MCLibrary0 ==
    {<<A, None, A, None>>, <<A, None, B, None>>, <<A, A, None, None>>}
=============================================================================
