---------------------------- MODULE MCBookMirror ----------------------------
(***************************************************************************)
(* Values for model checking BookMirror.                                   *)
(***************************************************************************)
EXTENDS BookMirror

BothVariants == {"dollars", "cents"}

\* From the second lowest price up, every price is unambiguous.
SafeCents == {2, 49, 98}
LowCents  == {1, 99}

=============================================================================
