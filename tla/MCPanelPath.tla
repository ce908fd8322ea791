------------------------------ MODULE MCPanelPath ------------------------------
(* PanelPath with queues that fill up and the proportion of the code: the   *)
(* KPC holds a transition twice as long as the bridge spaces them.          *)
EXTENDS PanelPath

===============================================================================
