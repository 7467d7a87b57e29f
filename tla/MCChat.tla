------------------------------- MODULE MCChat -------------------------------
(***************************************************************************)
(* The instance of Chat for TLC: two requests, streamed or not, of the     *)
(* owner or of somebody else, and a PATCH to the cloud or away from it.    *)
(* The stores differ in the history they give and in nothing that touches  *)
(* the policy, so over Postgres a conversation starts with the default.    *)
(***************************************************************************)
EXTENDS Chat

CONSTANTS ana, rui

Ask(privacy, provider) == [privacy |-> privacy, provider |-> provider]
MCWanted == {Ask("allow_cloud", "cloud"), Ask("local_only", None), Ask(None, "")}

MCInit == Init /\ (store = "postgres" => policy = Default)
MCSpec == MCInit /\ [][Next]_vars /\ \A t \in Turn : WF_vars(Step(t))
=============================================================================
