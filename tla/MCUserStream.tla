---------------------------- MODULE MCUserStream ----------------------------
(* UserStream on a ring of six cells: headers of two, packets of three, two, *)
(* four and three cells that fill it, wrap around its end and overflow it.   *)
EXTENDS UserStream

MCFirst == <<1, 4, 6, 10, 13>>
=============================================================================
