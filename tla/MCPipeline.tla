----------------------------- MODULE MCPipeline -----------------------------
(***************************************************************************)
(* The pipeline for TLC.  With the reference at 10, an edge of 2 and a     *)
(* half spread of 1, the three quotes are a cheap one (buy, hold a long),  *)
(* a fair one (close either side) and a dear one (sell, hold a short).     *)
(***************************************************************************)
EXTENDS Pipeline

MCQuotes == {<<6, 8>>, <<9, 11>>, <<12, 14>>}
=============================================================================
