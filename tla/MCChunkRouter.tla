--------------------------- MODULE MCChunkRouter ---------------------------
(* Two channels and two threads; the second chunk fills the token window.  *)
(* An earlier run may have left its answer to the first chunk, or to the   *)
(* reduction, with the first channel.                                      *)
EXTENDS ChunkRouter

MCTokens   == <<1, 2>>
MCLimit    == <<2, 1>>
MCCost     == <<1, 0>>
MCRoles    == <<{"chunk", "synthesis", "review"}, {"chunk", "synthesis"}>>
MCInFlight == <<1, 1>>
MCAfter    == <<"synthesis", "review">>
MCCaches   == {{}, {<<1, 1>>, <<1, 3>>}}
=============================================================================
