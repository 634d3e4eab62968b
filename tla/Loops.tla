-------------------------------- MODULE Loops --------------------------------
(***************************************************************************)
(* The loops of the code over a vector (BOOST_FOREACH): the body takes     *)
(* what the rounds before have left and the next element.                  *)
(***************************************************************************)
EXTENDS FiniteSetsExt

(* From the first element to the last; the last round comes outermost. *)
FoldLeft(body(_, _), start, vector) ==
    MapThenFoldSet(LAMBDA x, left : body(left, x), start,
                   LAMBDA i : vector[i], LAMBDA S : Max(S), DOMAIN vector)
=============================================================================
