------------------------------ MODULE MCWebPage -----------------------------
(* The web page with three messages: the first has a bad name, which fails *)
(* every request as long as it is there, and the next is without a Date    *)
(* header.  Three events leave room for one that is never done of each     *)
(* kind.                                                                   *)
EXTENDS WebPage

=============================================================================
