--------------------------- MODULE MCLuaDatabase ---------------------------
(* Small instances of LuaDatabase for TLC.                                  *)
EXTENDS LuaDatabase

(* Databases and requests are only compared for equality.                   *)
Symmetry == Permutations(Databases) \cup Permutations(Requests)

=============================================================================
