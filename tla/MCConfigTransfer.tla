--------------------------- MODULE MCConfigTransfer ---------------------------
(***************************************************************************)
(* ConfigTransfer with one-block documents of two contents, or documents   *)
(* of at most two blocks of one content.  One document, MCOdd, is          *)
(* acceptable on an empty store only, and the runtime does not compile it. *)
(***************************************************************************)
EXTENDS ConfigTransfer

MCBlocks     == {0, 1}
MCOneBlock   == {0}
MCOdd        == IF MaxBlocks = 1 THEN <<1>> ELSE <<0>>
MCValid      == {<<d, b>> \in Documents \X Revisions : d = MCOdd => b = 0}
MCExecutable == Documents \ {MCOdd}
=============================================================================
