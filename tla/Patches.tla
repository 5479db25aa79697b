------------------------------- MODULE Patches --------------------------------
(***************************************************************************)
(* Patches: the changes that a browser has made and the server has not     *)
(* answered, in the order in which they were made.                         *)
(***************************************************************************)
EXTENDS Integers, SequencesExt

newPatch(id, diff) == [id |-> id, diff |-> diff]

(* The patches that stay when the one with this id is discarded.           *)
Without(patches, id) ==
  FoldLeft(LAMBDA kept, patch : IF patch.id = id THEN kept ELSE Append(kept, patch), <<>>, patches)
=============================================================================
