-------------------------------- MODULE Desktop --------------------------------
(***************************************************************************)
(* The processes of one computer over one data folder: nodes (lumbra up,   *)
(* cli/main.py) that start, share and stop the Postgres the platform       *)
(* brings (adapters/persistence/embedded.py), and the application that     *)
(* starts a node and asks it to leave (node_process_io.dart,               *)
(* node_status.dart).                                                      *)
(*                                                                         *)
(* The library pgserver keeps the pids that use the server in a file of    *)
(* the folder; its own steps are marked external.                          *)
(***************************************************************************)
EXTENDS Naturals, FiniteSets

CONSTANTS Node,         \* processes: each lives once
          Ours,        \* those the application may start, on its port
          Ghost,        \* pids left in the file by nodes killed before
          Reused,       \* pids that name another process once theirs has ended
          Folders,      \* the folders to start from: the server's state and its owners
          Machines,     \* what the checks may find on this machine: a set of records
          NoNode

ASSUME DesktopAssumption ==
    /\ Ours \subseteq Node
    /\ Ghost \cap Node = {}
    /\ Reused \subseteq Node \cup Ghost
    /\ Folders \subseteq [pg : {"none", "down", "dirty"}, owners : SUBSET Ghost]
    /\ NoNode \notin Node \cup Ghost
    /\ IsFiniteSet(Node)

VARIABLES
    pg,         \* none, down, dirty (interrupted), starting or ready
    owners,     \* the pids of .handle_pids.json
    migrated,   \* the schema is the code's
    pc,         \* [Node -> where the process is]
    seen,       \* [Node -> the owners it last read that were alive]
    port,       \* the node that listens on the application's port, or None
    app,        \* on, or gone
    handle,     \* _processo: the node the application believes to own, or None
    tried,      \* _jaTentamosSubir
    asked,      \* nodes whose standard input is closed
    last        \* history: the last node to end left in order and nothing went wrong (Leave)

appVars == <<app, handle, tried, asked>>
desktopVars == <<pg, owners, migrated, pc, seen, port, appVars, last>>

IMPEDEM_SUBIR == {"python", "dependencias", "configuracao", "permissoes", "postgres", "migracoes"}

Ended == {"new", "spawning", "off"}
Alive(p) == p \in Node /\ pc[p] \notin Ended
ProcessExists(p) == p \in Node /\ pc[p] \notin {"new", "spawning"}

NoAr == pg = "ready"
Nascendo == pg = "starting"

\* What limpar_donos_fantasmas and _donos_vivos keep: a pid that was used again is taken
\* for a node.  ProcessExists, a mutant, counts zombies.
ProcessoVivo(p) == Alive(p) \/ (p \in Reused /\ (p \in Ghost \/ pc[p] = "off"))
DonosVivos(n) == {p \in owners : p # n /\ ProcessoVivo(p)}

GoesTo(n, where) == pc' = [pc EXCEPT ![n] = where]

DesktopInit ==
    /\ \E folder \in Folders : pg = folder.pg /\ owners = folder.owners
    /\ migrated = (pg # "none")
    /\ pc = [n \in Node |-> "new"] /\ seen = [n \in Node |-> {}]
    /\ port = NoNode /\ app = "on" /\ handle = NoNode /\ tried = FALSE
    /\ asked = {}
    /\ last = FALSE
-----------------------------------------------------------------------------
(* The process ends.  The application hears of the exit code and forgets the *)
(* process it holds, whichever ended.                                        *)
Leave(n, how) ==
    /\ GoesTo(n, "off")
    /\ last' = (how = "stopped" /\ ~Nascendo)
    /\ port' = IF port = n THEN NoNode ELSE port
    /\ seen' = [seen EXCEPT ![n] = {}]
    /\ handle' = IF n \in Ours THEN NoNode ELSE handle
    /\ asked' = asked \ {n}
    /\ UNCHANGED <<app, tried>>

Rest == UNCHANGED <<port, appVars, last>>
Step(n, where) == GoesTo(n, where) /\ Rest

(* External: PostgresServer.cleanup stops the server only for the last of the list. *)
(* It may fail to stop it, or raise before it touched the list.                     *)
Cleanup(n) ==
    \/ /\ owners' = owners \ {n}
       /\ pg' \in IF owners = {n} THEN {"down", pg} ELSE {pg}
    \/ UNCHANGED <<pg, owners>>
-----------------------------------------------------------------------------
(* Starting: comando_up. *)
ByHand(n) ==
    /\ n \notin Ours /\ pc[n] = "new"
    /\ Step(n, "read")
    /\ UNCHANGED <<pg, owners, migrated, seen>>

PortaOcupada(n) ==
    /\ pc[n] = "probe"
    /\ IF port # NoNode THEN Leave(n, "refused") ELSE Step(n, "read") /\ UNCHANGED seen
    /\ UNCHANGED <<pg, owners, migrated>>

(* limpar_donos_fantasmas reads the file, and writes it if somebody had died. *)
LerDonos(n) ==
    /\ pc[n] \in {"read", "sweep"}
    /\ LET living == {p \in owners : ProcessoVivo(p)}
           next == IF pc[n] = "read" THEN <<"wake", "write">> ELSE <<"alone", "swept">>
       IN IF living = owners
            THEN Step(n, next[1]) /\ UNCHANGED seen
            ELSE Step(n, next[2]) /\ seen' = [seen EXCEPT ![n] = living]
    /\ UNCHANGED <<pg, owners, migrated>>

GravarDonos(n) ==
    /\ \/ pc[n] = "write" /\ Step(n, "wake")
       \/ pc[n] = "swept" /\ Step(n, "alone")
    /\ owners' = seen[n]
    /\ seen' = [seen EXCEPT ![n] = {}]
    /\ UNCHANGED <<pg, migrated>>

AcordarCluster(n) ==
    /\ pc[n] = "wake"
    /\ Step(n, IF pg = "none" \/ NoAr THEN "attach" ELSE IF Nascendo THEN "wait" ELSE "start")
    /\ UNCHANGED <<pg, owners, migrated, seen>>

(* It became ready, it died, or _LIMITE_PARTIDA passed. *)
EsperarFicarPronto(n) ==
    /\ pc[n] = "wait"
    /\ Step(n, IF NoAr THEN "attach" ELSE "start")
    /\ UNCHANGED <<pg, owners, migrated, seen>>

(* pg_ctl refuses a folder that has a postmaster. *)
PgCtlStart(n) ==
    /\ pc[n] = "start"
    /\ IF pg \in {"down", "dirty"} THEN pg' = "starting" /\ Step(n, "started")
                                   ELSE UNCHANGED pg /\ Step(n, "attach")
    /\ UNCHANGED <<owners, migrated, seen>>

(* pg_ctl -w -t: it is ready, it is gone, or the limit passed. *)
PgCtlEnd(n) ==
    /\ pc[n] = "started"
    /\ Step(n, "attach")
    /\ UNCHANGED <<pg, owners, migrated, seen>>

(* External: get_server starts what nobody started, with 10 seconds for it. *)
GetServer(n) ==
    /\ pc[n] = "attach"
    /\ IF pg = "dirty"
         THEN pg' = "starting" /\ Leave(n, "error") /\ UNCHANGED owners
         ELSE /\ pg' = IF Nascendo THEN pg ELSE "ready"
              /\ owners' = owners \cup {n}
              /\ Step(n, "migrate") /\ UNCHANGED seen
    /\ UNCHANGED migrated

AplicarMigracoes(n) ==
    /\ pc[n] = "migrate"
    /\ \/ NoAr /\ migrated' = TRUE /\ Step(n, "check")
       \/ Step(n, "atexit") /\ UNCHANGED migrated
    /\ UNCHANGED <<pg, owners, seen>>

(* A database that is not running is a warning of the diagnosis, not a failure. *)
CheckPostgres == IF NoAr /\ ~migrated THEN {"postgres"} ELSE {}
CheckMigracoes == IF NoAr /\ ~migrated THEN {"migracoes"} ELSE {}

(* The checks of the machine: the version of Python, the packages that do not  *)
(* import, a production node that signs with the public secret, a folder that  *)
(* cannot be written; and the services, which only cost a feature.             *)
CheckPython(m) == IF m.python < 12 THEN {"python"} ELSE {}
CheckDependencias(m) == IF m.missing # {} THEN {"dependencias"} ELSE {}
CheckVariaveis(m) == IF m.production /\ m.secret = "dev" THEN {"configuracao"} ELSE {}
CheckPermissoes(m) == IF m.writable THEN {} ELSE {"permissoes"}
CheckRedis(m) == IF m.eventbus = "redis" /\ ~m.redis THEN {"redis"} ELSE {}
CheckOllama(m) == IF m.model \in m.ollama THEN {} ELSE {"ollama"}
CheckEmbeddings(m) == IF m.dim = m.columns THEN {} ELSE {"embeddings"}

Executar(m) ==
    UNION {CheckPython(m), CheckDependencias(m), CheckVariaveis(m), CheckPermissoes(m),
           CheckPostgres, CheckMigracoes, CheckRedis(m), CheckOllama(m), CheckEmbeddings(m)}

ComandoUp(n) ==
    /\ pc[n] = "check"
    /\ \E machine \in Machines :
          Step(n, IF Executar(machine) \cap IMPEDEM_SUBIR = {} THEN "bind" ELSE "atexit")
    /\ UNCHANGED <<pg, owners, migrated, seen>>

(* uvicorn listens; it gives up if another took the port since it was probed. *)
Servir(n) ==
    /\ pc[n] = "bind"
    /\ IF n \in Ours /\ port # NoNode
         THEN GoesTo(n, "release") /\ UNCHANGED port
         ELSE GoesTo(n, "serving") /\ port' = IF n \in Ours THEN n ELSE port
    /\ UNCHANGED <<pg, owners, migrated, seen, appVars, last>>
-----------------------------------------------------------------------------
(* Leaving. *)
StopServing(n) ==
    /\ pc[n] = "serving"
    /\ GoesTo(n, "release")
    /\ port' = IF port = n THEN NoNode ELSE port
    /\ UNCHANGED <<pg, owners, migrated, seen, appVars, last>>

(* The standard input of the node closed: its thread asks uvicorn to stop. *)
VigiarEntrada(n) == n \in asked /\ StopServing(n)

Interrupt(n) == n \notin Ours /\ StopServing(n)

(* A node that gave up before serving leaves the server to pgserver's atexit. *)
AtExit(n) ==
    /\ pc[n] = "atexit"
    /\ Cleanup(n)
    /\ Leave(n, "gave up")
    /\ UNCHANGED migrated

PararServidor(n) ==
    /\ pc[n] = "release"
    /\ Cleanup(n)
    /\ Step(n, "sweep")
    /\ UNCHANGED <<migrated, seen>>

(* The list is read again: it backs off for an owner that lives, and for a pid *)
(* that only looks so.                                                         *)
PararEmbutidos(n) ==
    /\ pc[n] = "alone"
    /\ IF DonosVivos(n) # {} \/ ~NoAr
         THEN Leave(n, IF DonosVivos(n) \cap Reused = {} THEN "stopped" ELSE "misled")
         ELSE Step(n, "halt") /\ UNCHANGED seen
    /\ UNCHANGED <<pg, owners, migrated>>

(* pg_ctl stops the server; or it raises, answers an error or passes its limit: *)
(* a warning is all that comes of it, whether the server went or not.           *)
DesligarPostmaster(n) ==
    /\ pc[n] = "halt"
    /\ \/ pg' = "down" /\ Leave(n, "stopped")
       \/ pg' \in {pg, "down"} /\ Leave(n, "failed")
    /\ UNCHANGED <<owners, migrated>>

(* The application's 20 seconds passed, or something else kills the process. *)
Kill(n) ==
    /\ Alive(n)
    /\ Leave(n, "killed")
    /\ UNCHANGED <<pg, owners, migrated>>

(* External: the postmaster that somebody started finished recovering. *)
BecomeReady ==
    /\ Nascendo /\ pg' = "ready"
    /\ UNCHANGED <<owners, migrated, pc, seen, port, appVars, last>>
-----------------------------------------------------------------------------
(* The application. *)
nodeVars == <<pg, owners, migrated, seen, port, last>>

(* _verificar: nobody answers, nothing of ours is alive and none was tried. *)
TentarSubir ==
    /\ app = "on" /\ port = NoNode /\ handle = NoNode /\ ~tried
    /\ tried' = TRUE
    /\ \E n \in Ours : pc[n] = "new"
    /\ GoesTo(CHOOSE n \in Ours : pc[n] = "new", "spawning")
    /\ UNCHANGED <<nodeVars, app, handle, asked>>

VerificarAgora ==
    /\ app = "on" /\ tried
    /\ tried' = FALSE
    /\ UNCHANGED <<nodeVars, pc, app, handle, asked>>

(* Process.start returns and its process replaces the one held. *)
Iniciar(n) ==
    /\ pc[n] = "spawning"
    /\ GoesTo(n, "probe")
    /\ handle' = IF app = "on" THEN n ELSE handle
    /\ UNCHANGED <<nodeVars, app, tried, asked>>

Parar ==
    /\ app = "on" /\ handle # NoNode
    /\ handle' = NoNode
    /\ asked' = asked \cup {handle}
    /\ UNCHANGED <<nodeVars, pc, app, tried>>

(* A mutant: only the pipe of the process it holds is closed. *)
OnlyOursGone ==
    /\ app = "on" /\ app' = "gone"
    /\ asked' = asked \cup ({handle} \ {NoNode})
    /\ handle' = NoNode /\ tried' = FALSE
    /\ UNCHANGED <<nodeVars, pc>>

(* It closes or dies, and the pipes of its children with it. *)
AppGone ==
    /\ app = "on" /\ app' = "gone"
    /\ asked' = asked \cup Ours
    /\ handle' = NoNode /\ tried' = FALSE
    /\ UNCHANGED <<nodeVars, pc>>
-----------------------------------------------------------------------------
NodeStep(n) ==
    \/ PortaOcupada(n) \/ LerDonos(n) \/ GravarDonos(n) \/ AcordarCluster(n)
    \/ EsperarFicarPronto(n) \/ PgCtlStart(n) \/ PgCtlEnd(n) \/ GetServer(n)
    \/ AplicarMigracoes(n) \/ ComandoUp(n) \/ Servir(n) \/ VigiarEntrada(n)
    \/ AtExit(n) \/ PararServidor(n) \/ PararEmbutidos(n) \/ DesligarPostmaster(n)

DesktopNext ==
    \/ \E n \in Node : ByHand(n) \/ NodeStep(n) \/ Interrupt(n) \/ Kill(n) \/ Iniciar(n)
    \/ BecomeReady \/ TentarSubir \/ VerificarAgora \/ Parar \/ AppGone

(* Processes run, and a wait or a start ends: both have a limit. *)
DesktopSpec ==
    /\ DesktopInit /\ [][DesktopNext]_desktopVars
    /\ \A n \in Node : WF_desktopVars(NodeStep(n)) /\ WF_desktopVars(Iniciar(n))
-----------------------------------------------------------------------------
Stage == Ended \cup
    {"probe", "read", "write", "wake", "wait", "start", "started", "attach", "migrate", "check",
     "bind", "serving", "release", "sweep", "swept", "alone", "halt", "atexit"}

DesktopTypeOK ==
    /\ pg \in {"none", "down", "dirty", "starting", "ready"}
    /\ owners \subseteq Node \cup Ghost /\ migrated \in BOOLEAN
    /\ pc \in [Node -> Stage]
    /\ seen \in [Node -> SUBSET (Node \cup Ghost)]
    /\ port \in Ours \cup {NoNode} /\ handle \in Ours \cup {NoNode}
    /\ app \in {"on", "gone"} /\ tried \in BOOLEAN /\ last \in BOOLEAN
    /\ asked \subseteq Node

(* embedded.py:418-420: if no living owner is left the server is stopped.    *)
(* Whoever leaves last by the orderly way leaves no postmaster behind,       *)
(* whatever pids killed nodes left in the file, whatever became of           *)
(* pgserver's own cleanup and however the leaving of one node interleaves    *)
(* with that of others.  Three things leave one behind in the code, and are  *)
(* left out by Leave: pg_ctl stop fails (embedded.py:394-399), a pid of the  *)
(* list names another process by now (embedded.py:121-123), or the server    *)
(* was still starting, which dsn_se_estiver_no_ar does not count.            *)
LastOutStops ==
    (last /\ \A n \in Node : ~Alive(n)) => ~NoAr /\ ~Nascendo

(* cli/main.py:291-292: the end of the standard input also covers the        *)
(* application that dies: every node it started ends in the end, those it    *)
(* lost the handle of included.                                              *)
AppGoneNodesGone == (app = "gone") ~> \A n \in Ours : pc[n] \in Ended

================================================================================
