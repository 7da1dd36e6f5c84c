--------------------------- MODULE MCImagePicker ---------------------------
(***************************************************************************)
(* Two pickers: one can be open while the other is waiting for its         *)
(* onDestroy or is destroyed, and the threads of both run.  A query finds  *)
(* no row, one, or two or three in different orders.                       *)
(***************************************************************************)
EXTENDS ImagePicker

CONSTANTS i1, i2, i3

MCResults == {<< >>, <<i1>>, <<i1, i2>>, <<i3, i2, i1>>}
=============================================================================
