------------------------------ MODULE MCPolicy ------------------------------
(***************************************************************************)
(* Small instances of PolicyUpdates: two categories, scores in steps of a  *)
(* fifth of the way to 1.0, concurrent updates.                            *)
(***************************************************************************)
EXTENDS PolicyUpdates

CONSTANTS violence, spam

MCDefaults == [c \in {violence, spam} |->
                  IF c = violence THEN [review |-> 3, block |-> 5] ELSE [review |-> 2, block |-> 4]]

Both(r, b) == [review |-> r, block |-> b]
Asks(v, s, enabled, protected) ==
    [thresholds |-> [c \in {violence, spam} |-> IF c = violence THEN v ELSE s],
     review_enabled |-> enabled, protected_mode |-> protected]
Nothing == Both(Unset, Unset)

\* A fresh policy, and one from before thresholds had a lower limit.
MCRows ==
    {[thresholds |-> [c \in {violence, spam} |-> o],
      review_enabled |-> TRUE, protected_mode |-> FALSE] : o \in {Nothing, Both(0, 3)}}

\* Overrides with both thresholds; out of order, out of range; flags only.
MCFullUpdates ==
    {Asks(Both(1, 1), Keep, Keep, Keep), Asks(Keep, Both(4, 6), Keep, TRUE),
     Asks(Both(5, 2), Keep, Keep, Keep), Asks(Keep, Both(0, 4), Keep, Keep),
     Asks(Nothing, Keep, FALSE, Keep), Asks(Keep, Keep, Keep, FALSE)}

\* Overrides that leave one threshold to the default.
MCPartialUpdates ==
    {Asks(Both(6, Unset), Keep, Keep, Keep), Asks(Keep, Both(Unset, 3), Keep, TRUE)}

MCUpdates == MCFullUpdates \cup MCPartialUpdates
=============================================================================
