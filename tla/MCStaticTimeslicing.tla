------------------------- MODULE MCStaticTimeslicing -------------------------
(* Datasets of up to 13 records, in batches of three.                      *)
EXTENDS StaticTimeslicing

MCCounts == 0 .. 13
==============================================================================
