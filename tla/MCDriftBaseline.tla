--------------------------- MODULE MCDriftBaseline ---------------------------
(* Severities and symmetries for checking DriftBaseline.                   *)
EXTENDS DriftBaseline, TLC

(* "wide" adds an optional parameter to "base": only that change is Medium. *)
MCBlockingChanges ==
  {c \in Schemas \X Schemas : c[1] # c[2] /\ c # <<"base", "wide">>}

(* Sessions and admin requests are interchangeable.                        *)
MCSymmetry == Permutations(Checkers) \cup Permutations(Admins)
=============================================================================
