--------------------------- MODULE MCFrameBuffer ---------------------------
(*************************************************************************)
(* Sizes for FrameBuffer: one macroblock, the common 720, 1080 and 1088  *)
(* lines, both sides of the interlacing limits (1920 pixels, 8160        *)
(* macroblocks: 1104 x 1872 is inside, 1120 x 1872 is not), 4K width.    *)
(*************************************************************************)
EXTENDS FrameBuffer

MCWidths == {16, 1104, 1120, 1920, 1936, 3840}
MCHeights == {16, 720, 1080, 1088, 1872, 1936}
=============================================================================
