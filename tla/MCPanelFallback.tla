-------------------------- MODULE MCPanelFallback --------------------------
(* Keys for the model checker: two client records and a key that a list of *)
(* "client:" returns and a delivery passes over.                           *)
EXTENDS PanelFallback

ClientA == <<1, 1>>
ClientB == <<1, 2>>
Short == <<1>>

Clients == {ClientA, ClientB}
Keys == Clients \cup {Short}
ClientOnly == <<1>>
Prefixes == {ClientOnly}
=============================================================================
