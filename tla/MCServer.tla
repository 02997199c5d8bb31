------------------------------- MODULE MCServer -------------------------------
(* Two containers in two namespaces, with lines of different lengths; of the *)
(* longer ones the second does not fit in MaxLine.                           *)
EXTENDS Server, TLC

CONSTANTS a, b, n1, n2, web, m1

MCNsOf == a :> n1 @@ b :> n2
MCWorkloadOf == a :> web @@ b :> web
MCRSName == a :> a @@ b :> b
MCLineLen == a :> 1 @@ b :> 2
LongerLines == a :> 2 @@ b :> 3
MCStartSettings == [included |-> {}, excluded |-> {}]
MCPersisted == {Empty}
MCRequests == {FullRequest}
AnyDeployed == [Containers -> Images \cup {None}]
=============================================================================
