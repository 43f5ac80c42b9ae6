---------------------------- MODULE MCProvenWrite ----------------------------
(* Images of five bytes, which are two whole chunks and a short one, and of  *)
(* two, which are one chunk; targets that hold them, or differ from them in  *)
(* an early or a late byte.                                                  *)
EXTENDS ProvenWrite

CONSTANTS x, y

MCBytes == {x, y}
MCImages == {<<x, y, x, y, x>>, <<x, y, x, x, x>>, <<x, y>>, <<>>}
MCTargets == MCImages \cup {<<x, y, x, y, x, y>>, <<y, x, x, y, x>>}
=============================================================================
