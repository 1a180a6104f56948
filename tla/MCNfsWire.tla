----------------------------- MODULE MCNfsWire -----------------------------
(***************************************************************************)
(* The codings of NfsCodings.  A name or handle is one word, the number of *)
(* its place; data are empty or two words.                                 *)
(***************************************************************************)
EXTENDS NfsWire

INSTANCE NfsCodings

MCTexts == {<<0>>}
MCData == {<<>>, <<9, 9>>}

=============================================================================
