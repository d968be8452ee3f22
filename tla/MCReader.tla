------------------------------ MODULE MCReader ------------------------------
(* Reader for TLC: three documents, one of them compressed.                *)
EXTENDS Reader, TLC

CONSTANTS a, b, c

Three == <<a, b, c>>

\* Each counts as 10 when it has been read; one was listed too small, one too large.
ReadThree == a :> 1 @@ b :> 10 @@ c :> 10
ListedThree == a :> 1 @@ b :> 8 @@ c :> 14
=============================================================================
