--------------------------- MODULE MCUpdateCheck ---------------------------
(* Small instances of UpdateCheck. *)
EXTENDS UpdateCheck

\* An index, an index of another image, and the image of the first one alone.
MCPrimary  == <<"index1", "index2", "image1">>
MCPlatform == <<"image1", "image2", "image1">>

\* One image is local in any way, the other was pulled by its tag.
MCInit == Init /\ local["private"] = {Primary[1]}

MCSpec == MCInit /\ [][Next]_vars /\ Fairness
=============================================================================
