------------------------------- MODULE MCAccess -------------------------------
(* document.* begins document.created; the other segments begin nothing.     *)
EXTENDS Access, TLC

MCPrefixes == "document.*" :> {"document.created"}
MCMalformed == {<<"">>, <<"devices", "">>}
Symmetry == Permutations(Request) \cup Permutations(User)
===============================================================================
