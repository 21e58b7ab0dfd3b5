----------------------------- MODULE MCFraming -----------------------------
(***************************************************************************)
(* Small instances of Framing: bodies of two and one units in turn.        *)
(***************************************************************************)
EXTENDS Framing, TLC

TwoOrOne(p) == 1 + (p % 2)
=============================================================================
