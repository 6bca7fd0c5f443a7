----------------------------- MODULE MCListing -----------------------------
(* Listing with lines of up to two letters, and directories of three names. *)
EXTENDS Listing

SomeListings == {<<>>, <<".h", "a", "b">>, <<"a", "long", "b">>, <<"long">>}

\* Bound: while a listing runs, the peer sends short segments only.
ListingApart == thread \in {"none", "reset"} \/ Len(sCmdBuffer) <= 3

=============================================================================
