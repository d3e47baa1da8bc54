--------------------------- MODULE MCConnManager ---------------------------
(* Instances of ConnManager for TLC: the depths the applications ask for. *)
EXTENDS ConnManager

AskedFor == {<<1, 2>>, <<3, 1>>}
Granted == {<<1, 0>>, <<0, 2>>}

==============================================================================
