------------------------- MODULE MCExtensionManager -------------------------
(* ExtensionManager for TLC, with the cases of what it decides.                *)
EXTENDS ExtensionManager, ExtensionCases
=============================================================================
