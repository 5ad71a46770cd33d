---------------------------- MODULE MCConfigStore ----------------------------
(***************************************************************************)
(* ConfigStore on two one-block contents and documents of at most two      *)
(* blocks.  A document names the revision it was based on (baseRevision,   *)
(* config_document.c), here by its blocks: one two-block document is       *)
(* acceptable on each parity of the base, a one-block one on every base,   *)
(* and another one-block one too, but the runtime cannot compile it.       *)
(***************************************************************************)
EXTENDS ConfigStore

MCBlocks == {0, 1}
MCValid ==
  {<< <<b % 2, 1 - (b % 2)>>, b >> : b \in Revisions}
    \union {<< <<c>>, b >> : c \in Blocks, b \in Revisions}
MCExecutable == Documents \ {<<0>>}
=============================================================================
