------------------------------- MODULE MCRng -------------------------------
(***************************************************************************)
(* The random numbers for TLC.  Caches of two blocks, and widths from a      *)
(* cache of many numbers to one of a single number.                          *)
(***************************************************************************)
EXTENDS RngTwice

MCSeeds == {1, 2}
MCWidths == {1, 2, 8}
MCFills == {3, 4}
MCRejected == {6, 14, 20}
=============================================================================
