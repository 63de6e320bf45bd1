---------------------------- MODULE MCSqliteOpen ----------------------------
(***************************************************************************)
(* Small instances of SqliteOpen.                                          *)
(***************************************************************************)
EXTENDS SqliteOpen, TLC

CONSTANTS p1, p2, p3   \* processes

Symmetry == Permutations(Processes)

Fresh == [version |-> 0, columns |-> "none", rows |-> <<>>]
OldEmpty == [version |-> 0, columns |-> "text", rows |-> <<>>]
OldInUse == [version |-> 0, columns |-> "text", rows |-> <<"rfc3339">>]
Current == [version |-> 2, columns |-> "integer", rows |-> <<"integer">>]
Future == [version |-> 3, columns |-> "integer", rows |-> <<"integer">>]

EveryFile == {Fresh, OldEmpty, OldInUse, Current, Future}
FreshFile == {Fresh}
=============================================================================
