------------------------ MODULE MCAgreementLifecycle ------------------------
(***************************************************************************)
(* Instances of AgreementLifecycle for TLC.  Party and evidence rows are   *)
(* interchangeable.                                                        *)
(***************************************************************************)
EXTENDS AgreementLifecycle, TLC

Symmetry == Permutations(Party) \cup Permutations(Evidence)

=============================================================================
