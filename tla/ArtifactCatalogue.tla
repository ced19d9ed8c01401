------------------------- MODULE ArtifactCatalogue --------------------------
(***************************************************************************)
(* What users of the artifact store are promised (HTTP_API.md:121-127): a  *)
(* catalogue of artifacts that can be opened, and the references that      *)
(* revisions, tests and retained previews hold.  A transaction adds all    *)
(* its artifacts in one step, referenced from the start, or none; a        *)
(* collection takes away, in one step, references of lapsed previews and   *)
(* artifacts that no remaining reference names.                            *)
(* Staging files, compensation, crashes and unlinking do not show.         *)
(***************************************************************************)
CONSTANT Key
VARIABLES stored,  \* artifacts that can be opened
          used     \* artifacts that content or a preview references

Init == stored = {} /\ used = {}

(* A transaction that adds artifacts, replaces some, or only drops         *)
(* references.                                                             *)
Commit(new) ==
  /\ stored' = stored \cup new
  /\ new \subseteq used' /\ used' \subseteq used \cup new

(* A reference to an artifact that is still there comes back.              *)
Refer(k) == k \in stored /\ used' = used \cup {k} /\ UNCHANGED stored

(* Previews lapse, and artifacts that no remaining reference names go,     *)
(* those of the lapsed previews too.                                       *)
Collect(gone) ==
  /\ stored' = stored \ gone
  /\ used' \subseteq used \ gone

Next ==
  \/ \E new \in SUBSET (Key \ stored) : Commit(new)
  \/ \E k \in Key : Refer(k)
  \/ \E gone \in SUBSET stored : Collect(gone)

Spec == Init /\ [][Next]_<<stored, used>>
=============================================================================
