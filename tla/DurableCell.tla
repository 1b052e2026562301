---------------------------- MODULE DurableCell ----------------------------
(* What the owner of a state file wants of it: a cell that holds one value *)
(* and survives crashes.  A save replaces the value in one step or not at  *)
(* all, and nothing but a save in progress changes what a load sees.  The  *)
(* new value may turn out to be Lost, if the disk did not keep it; a mix   *)
(* of old and new never shows.                                             *)

CONSTANTS Values, None, Lost   \* None and Lost are no members of Values

VARIABLES value,   \* what a load would return now
          wanted   \* the value of the save in progress, or None

cellVars == <<value, wanted>>

CellInit == value \in Values \cup {None} /\ wanted = None

BeginSave(v) == wanted = None /\ wanted' = v /\ UNCHANGED value

\* The moment the new value becomes the one that is loaded.
TakeEffect == wanted # None /\ value' \in {wanted, Lost} /\ UNCHANGED wanted

\* The save returns, with or without effect, or the process dies in it.
EndSave == wanted # None /\ wanted' = None /\ UNCHANGED value

CellNext == (\E v \in Values : BeginSave(v)) \/ TakeEffect \/ EndSave

CellSpec == CellInit /\ [][CellNext]_cellVars
=============================================================================
