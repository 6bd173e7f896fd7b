------------------------------ MODULE MCNodeMask ------------------------------
(* Three bytes of two bits, two of them for classic nodes.                 *)
EXTENDS NodeMask

MCLists == {<<>>, <<3>>, <<4, 1, 4>>}
==============================================================================
