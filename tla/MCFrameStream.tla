--------------------------- MODULE MCFrameStream ---------------------------
(***************************************************************************)
(* Streams for TLC: two pieces, each a frame of the smallest size, a       *)
(* longer frame, or the rest of a frame whose start was lost, and a third  *)
(* one of the smallest size; Kill cuts each of the streams at any byte.    *)
(* With a chunk of five bytes a chunk ends at every place of a frame, and  *)
(* may hold the end of one frame and the start of the next.                *)
(***************************************************************************)
EXTENDS FrameStream

CONSTANTS v1, v2

Piece == { <<"ff", "d8", "ff", "d9">>,
           <<"ff", "d8", "ff", "other", "ff", "d9">>,
           <<"ff", "d8", "ff", "other", "other", "ff", "d9">>,
           <<"other", "ff", "d9">> }

MCStreams == {p \o q \o <<"ff", "d8", "ff", "d9">> : p, q \in Piece}
=============================================================================
