---------------------------- MODULE MCKeyedLock -----------------------------
(* Four calls over two keys: a chain of three waiters behind one holder,   *)
(* next to a second key, and every call used again after it returned.      *)
EXTENDS KeyedLock
=============================================================================
