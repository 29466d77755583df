--------------------------- MODULE MCFrameAssembler ---------------------------
(* FrameAssembler for model checking: the SYNC byte and an end marker's bytes *)
(* in data, PDUs below, at and above the cap, cut into frames in every way.   *)
EXTENDS FrameAssembler

MCPdus == {<<3, SYNC>>, <<3, SYNC, 0, 0>>, <<3, 1, 2, 4, 5, 6>>}

MCEvents == {<<SYNC>>}

MCJunk == {<<0>>}
=============================================================================
