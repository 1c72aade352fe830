--------------------------- MODULE MCAdaptiveSplit ---------------------------
(* The instances of AdaptiveSplit that TLC checks. *)
EXTENDS AdaptiveSplit

Whole == << <<1, Rows>> >>

Translator == [splits |-> {"response_validation"}, lenient |-> FALSE, cached |-> TRUE]
Reader == [splits |-> {}, lenient |-> TRUE, cached |-> TRUE]

TwoOwners == {Translator, Reader}

Parents == {<<1, Rows>>, <<2, Rows>>}
=============================================================================
