------------------------------- MODULE MCVolume -------------------------------
(***************************************************************************)
(* Instances of Volume for TLC.                                            *)
(***************************************************************************)
EXTENDS Volume, TLC

CONSTANTS d, e

Symm == Permutations(Files)

\* Superblocks of every combination of small counts, each count right or one off, on
\* images of every small size: sound ones and such as never were.
Strange ==
  {[aligned |-> TRUE, bcount |-> blocks, reserved |-> TRUE,
    super |-> [signature |-> TRUE, totalBlocks |-> blocks + a, rootDirectoryIndex |-> 1 + fat + b,
               dataStartIndex |-> 2 + fat + b + c, totalDataBlocks |-> data,
               totalFatBlocks |-> fat]] :
      blocks \in 0 .. 7, fat \in 0 .. 3, data \in 0 .. 5, a, b, c \in {0, 1}}

\* Images whose size is no multiple of the block size, and without the signature.
Spoilt ==
  {[aligned |-> aligned, bcount |-> 4, reserved |-> TRUE,
    super |-> [created_metadata(1) EXCEPT !.signature = signature]] :
      aligned \in BOOLEAN, signature \in BOOLEAN}

ForeignImages == Strange \cup Spoilt

==============================================================================
