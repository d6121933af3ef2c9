----------------------------- MODULE MCVsCursor -----------------------------
(* VsCursor on a screen of 128 pixels: the cursor beyond, at and inside the *)
(* limits of the offset field and of the screen; one framebuffer with a     *)
(* width that the hardware does not know.                                   *)
EXTENDS VsCursor, TLC

CONSTANTS fbA, fbB, fbC

MCCoords == {-33, -32, -1, 0, 127, 128}
MCPitch == fbA :> 32 @@ fbB :> 64 @@ fbC :> 48
=============================================================================
