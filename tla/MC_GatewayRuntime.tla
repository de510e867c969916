------------------------- MODULE MC_GatewayRuntime --------------------------
(* Three concurrent requests against one circuit.  Two texts are enough for
   the circuit: one the guard passes and one it rejects in either mode. *)
EXTENDS GatewayRuntime

MCTexts == { {}, {"not_json", "nan", "infinity"} }

(* Every text, for the runs about the guard itself. *)
MCAllTexts == Texts \ {{"empty", "not_json"}}
=============================================================================
