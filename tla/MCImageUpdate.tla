--------------------------- MODULE MCImageUpdate ---------------------------
(* A small instance of the image updates; the bound on jobs leaves room    *)
(* for one update of each digest after all that may go wrong.              *)
EXTENDS ImageUpdate
=============================================================================
