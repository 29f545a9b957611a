------------------------- MODULE MCWebKitGtkSession -------------------------
(* Values for model-checking WebKitGtkSession. *)
EXTENDS WebKitGtkSession

\* One checkpoint of a page that had shown a document.
OneCheckpoint == {[generation |-> 2, blank |-> FALSE]}
=============================================================================
