----------------------------- MODULE MCConfigBoot -----------------------------
(***************************************************************************)
(* ConfigBoot with one-block documents.  Both are acceptable on every      *)
(* revision; the runtime compiles one of them.                             *)
(***************************************************************************)
EXTENDS ConfigBoot

MCBlocks     == {0, 1}
MCValid      == {<< <<c>>, b >> : c \in Blocks, b \in Revisions}
MCExecutable == {<<0>>}
=============================================================================
