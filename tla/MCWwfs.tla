------------------------------- MODULE MCWwfs -------------------------------
(* A small disk for TLC: a name of one cell and one of two, and a text that *)
(* fills a block and a half.                                               *)
EXTENDS Wwfs

CONSTANTS x, y, z, t, u

Cells == {x, y, z, t, u}

Names == {<<x>>, <<y, z>>}

Finals == {x, z}

Texts == {<<t, u, u>>}
=============================================================================
