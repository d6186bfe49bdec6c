--------------------------- MODULE MCKeyRollover ---------------------------
(* Model checking of KeyRollover; the constants are in the .cfg files.     *)
EXTENDS KeyRollover
=============================================================================
