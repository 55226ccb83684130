--------------------------- MODULE MCSodirRefresh ---------------------------
(***************************************************************************)
(* SodirRefresh on small instances.  The stem and worker names in the      *)
(* configurations are model values.                                        *)
(***************************************************************************)
EXTENDS SodirRefines
=============================================================================
