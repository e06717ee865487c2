---------------------------- MODULE MCTranslation ----------------------------
(* Constant values for model checking Translation.                         *)
EXTENDS Translation

OneOrNone == {0, 1}
Two == {2}
=============================================================================
