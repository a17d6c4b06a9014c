------------------------- MODULE MCComponentLoader --------------------------
(* ComponentLoader for TLC.                                                *)
EXTENDS ComponentLoader
=============================================================================
