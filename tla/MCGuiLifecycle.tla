--------------------------- MODULE MCGuiLifecycle ---------------------------
(* An instance of GuiLifecycle. *)
EXTENDS GuiLifecycle

CONSTANTS small, large, huge
MCSizes == {small, large, huge}
=============================================================================
