--------------------------- MODULE MCWindowsCheck ---------------------------
(* WindowsCheck: a validation of gofmt and one more command, and a second  *)
(* one of which only what it does to the mutex and its directory is kept.  *)
EXTENDS WindowsCheck

CONSTANTS r1, r2

MCCommands == [r \in Run |-> IF r = r1 THEN 2 ELSE 0]
=============================================================================
