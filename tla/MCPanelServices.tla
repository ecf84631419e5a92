------------------------- MODULE MCPanelServices -------------------------
(* The panel's services, small: the sets are model values of the cfg.     *)
EXTENDS PanelServices
=============================================================================
