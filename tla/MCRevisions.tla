---------------------------- MODULE MCRevisions ----------------------------
(* Small instances of Revisions for TLC.                                   *)
EXTENDS Revisions, TLC

CONSTANTS v1, v2, v3

(* Requests, test ids and previews are interchangeable, and so are the     *)
(* revision ids not yet used in the initial state.                         *)
Symmetry ==
  Permutations(Req) \cup Permutations(Slot) \cup Permutations(Preview)
    \cup Permutations(Rev \ {first})
=============================================================================
