------------------------ MODULE MCDatabaseRotation ------------------------
(* Small instances of the password rotation.                               *)
EXTENDS DatabaseRotation
=============================================================================
