------------------------------ MODULE MCDesktop ------------------------------
(* Machines: everything works, no Ollama, no writable folder.                 *)
(* Folders: the first start; one left by a killed node; one interrupted.      *)
EXTENDS Desktop

Healthy == [python |-> 13, missing |-> {}, production |-> TRUE, secret |-> "own",
            writable |-> TRUE, eventbus |-> "memory", redis |-> FALSE,
            model |-> "qwen", ollama |-> {"qwen"}, dim |-> 384, columns |-> 384]
MCMachines == {Healthy, [Healthy EXCEPT !.ollama = {}], [Healthy EXCEPT !.writable = FALSE]}
MCFolders == {[pg |-> "none", owners |-> {}], [pg |-> "down", owners |-> Ghost],
              [pg |-> "dirty", owners |-> Ghost]}
==============================================================================
