--------------------------- MODULE MC_ApiGateway ----------------------------
(* Two calls at a time and a threshold of two: the least with which two
   failures can follow one another without a third call between them. *)
EXTENDS ApiGateway
=============================================================================
