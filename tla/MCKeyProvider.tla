--------------------------- MODULE MCKeyProvider ---------------------------
(* Instances of the key provider: numbers only, given in the .cfg files.   *)
EXTENDS KeyProviderSafety
=============================================================================
