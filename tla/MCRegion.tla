------------------------------ MODULE MCRegion ------------------------------
(***************************************************************************)
(* Region scaled down for TLC: two slab classes; the requests fit          *)
(* the first, the second, none of them, and not even the root region.      *)
(***************************************************************************)
EXTENDS Region

MCSlabSizes == <<3, 4>>

=============================================================================
