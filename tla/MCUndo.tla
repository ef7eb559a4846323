-------------------------------- MODULE MCUndo --------------------------------
(* UndoHistory on a small instance: one index of two ids, two contents.  *)
EXTENDS UndoHistory
=============================================================================
