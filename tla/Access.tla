-------------------------------- MODULE Access --------------------------------
(***************************************************************************)
(* Who may ask what: the session the application keeps and renews          *)
(* (session.dart, http_renovavel.dart), the tokens and the guard of the    *)
(* API (tokens.py, auth.py, domain/scopes.py), and the devices of a user   *)
(* behind that guard (api/devices.py over either device store).            *)
(*                                                                         *)
(* A token is its user and the age in which it was issued: all tokens of   *)
(* one age expire together (Vencer).  A token is stateless: nothing but    *)
(* its age refuses it.  An answer arrives within the life of the token it  *)
(* carries.                                                                *)
(***************************************************************************)
EXTENDS Naturals, Sequences

CONSTANTS User, Device, Request,
          Stores,       \* which device stores: a subset of {"memory", "postgres"}
          MaxAge,       \* bound: how often the access tokens expire
          Prefixes,     \* [segment with a final .* -> the segments it begins]
          Malformed,    \* scopes a body may ask for that do not parse
          None

OwnerScopes == {<<"*">>}
DeviceState == {"pending", "active", "revoked"}
Rows(owners) == [owner : owners, state : DeviceState]
Claims(users, ages) == [user : users, age : ages, scopes : {OwnerScopes}]

ASSUME AccessAssumption ==
    /\ Stores \subseteq {"memory", "postgres"} /\ Stores # {}
    /\ MaxAge \in Nat \ {0}
    /\ None \notin User /\ None \notin Device /\ None \notin Request
    /\ None \notin Rows(User) /\ None \notin Claims(User, Nat)

VARIABLES
    store,      \* the device store of this node
    accounts,   \* users with an account
    devices,    \* [Device, named by its key -> its row, or None]
    announced,  \* devices whose revocation was handed to the kernel to publish
    age,        \* the age of the tokens issued now
    session,    \* the token of the application, or None
    emCurso,    \* the renewal under way: [user], or None
    signIn,     \* the form under way: [user, step], or None
    req,        \* [Request -> a request of the application and its handler]
    ended       \* history: requests that were in flight when a session ended

client == <<session, emCurso, signIn, ended>>
server == <<accounts, devices, announced>>
vars == <<store, server, age, client, req>>

Done == [pc |-> "done"]
Refused == [pc |-> "refused"]
InFlight == {r \in Request : req[r].pc \notin {"done", "refused"}}
Handling == {r \in Request : req[r].pc \in {"store", "commit", "publish"}}
Unread == {r \in Request : req[r].pc \in {"sent", "401", "waiting"}}
Waiting == {r \in Request : req[r].pc = "waiting"}
-----------------------------------------------------------------------------
(* Scopes are sequences of segments.                                         *)
SegmentCovers(g, s) == g = "*" \/ g = s \/ (g \in DOMAIN Prefixes /\ s \in Prefixes[g])
parse_scope(s) == s \notin Malformed
scope_cobre(g, s) ==
    /\ IF g[Len(g)] = "*" THEN Len(s) >= Len(g) ELSE Len(s) = Len(g)
    /\ \A i \in DOMAIN g : SegmentCovers(g[i], s[i])
concede(granted, s) == \E g \in granted : parse_scope(g) /\ scope_cobre(g, s)

SCOPE_DEVICES_READ == <<"devices", "read">>
SCOPE_DEVICES_WRITE == <<"devices", "write">>

\* What a route asks for; an upload (documents) asks only for a subject.
RouteScope(route) == IF route = "read" THEN SCOPE_DEVICES_READ ELSE SCOPE_DEVICES_WRITE

issue_pair(u, scopes) == [user |-> u, age |-> age, scopes |-> scopes]
verify(token) == token.age = age
\* TokenService.refresh: the new pair carries the claims of the old one.
refresh(token) == issue_pair(token.user, token.scopes)
-----------------------------------------------------------------------------
Init ==
    /\ store \in Stores /\ accounts \in SUBSET User
    /\ devices \in [Device -> {None} \cup {row \in Rows(accounts) : row.state # "revoked"}]
    /\ announced = {}
    /\ age = 1
    /\ session \in {None} \cup Claims(accounts, {0, 1})
    /\ emCurso = None /\ signIn = None
    /\ req = [r \in Request |-> Done] /\ ended = {}
-----------------------------------------------------------------------------
(* The session of the application.                                           *)
Vencer ==
    /\ age < MaxAge
    /\ age' = age + 1
    /\ UNCHANGED <<store, server, client, req>>

SessionStep == UNCHANGED <<store, age>>

logout ==
    /\ session # None
    /\ session' = None /\ ended' = ended \cup Unread
    /\ UNCHANGED <<emCurso, signIn, req, server>> /\ SessionStep

Login(u) ==
    /\ session = None /\ signIn = None
    /\ \E step \in {"register", "token"} : signIn' = [user |-> u, step |-> step]
    /\ UNCHANGED <<session, emCurso, ended, req, server>> /\ SessionStep

\* PostgresUserStore
create(u) == accounts' = accounts \cup {u}
get_by_email(u) == u \in accounts

\* users.create, and the event of the registration: when that fails the account exists all the same.
Register ==
    /\ signIn # None /\ signIn.step = "register"
    /\ create(signIn.user)
    /\ \/ ~get_by_email(signIn.user) /\ signIn' = [signIn EXCEPT !.step = "token"]
       \/ signIn' = None
    /\ UNCHANGED <<session, emCurso, ended, req, devices, announced>> /\ SessionStep

\* The password matches or not; then _guardar.
Token ==
    /\ signIn # None /\ signIn.step = "token"
    /\ signIn' = None
    /\ \/ get_by_email(signIn.user) /\ session' = issue_pair(signIn.user, OwnerScopes)
       \/ UNCHANGED session
    /\ UNCHANGED <<emCurso, ended, req, server>> /\ SessionStep

(* One renewal at a time: who asks while one runs waits for that one.        *)
Ask(token) == emCurso' = token

Timer ==
    /\ session # None /\ emCurso = None
    /\ Ask(session)
    /\ UNCHANGED <<session, signIn, ended, req, server>> /\ SessionStep

OldCopy(old, token) == [old EXCEPT !.pc = "sent", !.sent = age]
Send(old, token) == [old EXCEPT !.pc = "sent", !.tok = token, !.sent = age]

\* The node answers with a new pair: it is kept whoever is signed in by now.
RenewalSucceeds ==
    /\ emCurso # None
    /\ session' = refresh(emCurso)
    /\ emCurso' = None
    /\ req' = [r \in Request |-> IF r \in Waiting THEN Send([req[r] EXCEPT !.again = TRUE], session') ELSE req[r]]
    /\ UNCHANGED <<signIn, ended, server>> /\ SessionStep

\* The refresh token expired, or the node is down, or the event of the login cannot be published.
RenewalFails ==
    /\ emCurso # None
    /\ session' = None /\ ended' = ended \cup Unread
    /\ emCurso' = None
    /\ req' = [r \in Request |-> IF r \in Waiting THEN Refused ELSE req[r]]
    /\ UNCHANGED <<signIn, server>> /\ SessionStep
-----------------------------------------------------------------------------
(* A request: sent with the token of the moment, and once more after a       *)
(* renewal when the node says 401.                                           *)
invokeAPI(r) ==
    /\ r \notin InFlight /\ session # None
    /\ ended' = ended \ {r}
    /\ \E route \in {"read", "write", "upload"} :
          req' = [req EXCEPT ![r] = [pc |-> "sent", route |-> route, tok |-> session,
                                     sent |-> age, again |-> FALSE]]
    /\ UNCHANGED <<store, server, age, session, emCurso, signIn>>

Goto(r, where) == req' = [req EXCEPT ![r].pc = where]
End(r, how) == req' = [req EXCEPT ![r] = how]

\* require_subject, and require_scope where the route has one; a write route is one of three handlers.
require_scope(r) ==
    /\ req[r].pc = "sent"
    /\ IF ~verify(req[r].tok) THEN Goto(r, "401") /\ UNCHANGED ended
       ELSE /\ ended' = ended \ {r}
            /\ IF req[r].route # "write" \/ ~concede(req[r].tok.scopes, RouteScope(req[r].route))
               THEN End(r, Done)
               ELSE \E op \in {"register", "pair", "revoke"}, d \in Device :
                        End(r, [pc |-> "handle", op |-> op, dev |-> d, user |-> req[r].tok.user])
    /\ UNCHANGED <<store, server, age, session, emCurso, signIn>>

\* A body that was read cannot be sent again.  With a session already ended, renovar says no.
Unauthorized(r) ==
    /\ req[r].pc = "401"
    /\ IF req[r].route = "upload" \/ req[r].again \/ (session = None /\ emCurso = None)
       THEN End(r, Refused) /\ UNCHANGED emCurso
       ELSE /\ Goto(r, "waiting")
            /\ IF emCurso = None THEN Ask(session) ELSE UNCHANGED emCurso
    /\ UNCHANGED <<session, signIn, ended, store, server, age>>
-----------------------------------------------------------------------------
(* The handlers of api/devices.py, one transaction of the store at a time.   *)
Handler == UNCHANGED <<store, accounts, age, client>>
Set(d, row) == devices' = [devices EXCEPT ![d] = row]
Caller(r) == req[r].user

KeyIsFree(d) == devices[d] = None

\* The key and the scopes are checked, then the row is added under its unique key.
RegisterDevice(r) ==
    /\ req[r].pc = "handle" /\ req[r].op = "register"
    /\ \/ End(r, Done) /\ UNCHANGED devices
       \/ /\ KeyIsFree(req[r].dev)
          /\ Set(req[r].dev, [owner |-> Caller(r), state |-> "pending"])
          /\ Goto(r, "publish")
    /\ UNCHANGED announced /\ Handler

Owned(r) ==
    /\ req[r].pc = "handle" /\ req[r].op # "register"
    /\ LET row == devices[req[r].dev]
       IN  IF row = None \/ row.owner # Caller(r)
           THEN End(r, Done)
           ELSE End(r, [pc |-> "store", op |-> req[r].op, dev |-> req[r].dev, seen |-> row.state])
    /\ UNCHANGED <<devices, announced>> /\ Handler

\* What activate and revoke of a store make of a row read as state; SQL writes what changed.
Activated(row, state) == IF state = "active" THEN row ELSE [row EXCEPT !.state = "active"]
Revoked(row, state) == IF state = "revoked" THEN row ELSE [row EXCEPT !.state = "revoked"]
Written(r, state) ==
    LET row == devices[req[r].dev]
    IN  IF req[r].op = "pair" THEN Activated(row, state) ELSE Revoked(row, state)

InMemory(r) ==
    /\ store = "memory" /\ req[r].pc = "store"
    /\ LET state == devices[req[r].dev].state
       IN  IF req[r].op = "pair" /\ state = "revoked"
           THEN End(r, Done) /\ UNCHANGED devices
           ELSE Set(req[r].dev, Written(r, state)) /\ Goto(r, "publish")
    /\ UNCHANGED announced /\ Handler

\* Postgres reads the row and writes it later: another transaction may commit in between.
ReadRow(r) ==
    /\ store = "postgres" /\ req[r].pc = "store"
    /\ LET state == devices[req[r].dev].state
       IN  IF req[r].op = "pair" /\ state = "revoked"
           THEN End(r, Done)
           ELSE End(r, [pc |-> "commit", op |-> req[r].op, dev |-> req[r].dev, seen |-> req[r].seen,
                        read |-> state])
    /\ UNCHANGED <<devices, announced>> /\ Handler

CommitRow(r) ==
    /\ req[r].pc = "commit"
    /\ Set(req[r].dev, Written(r, req[r].read))
    /\ Goto(r, "publish")
    /\ UNCHANGED announced /\ Handler

\* A revocation is announced by the request that found the device not revoked.
StillNotRevoked(r) == devices[req[r].dev].state # "revoked"
RealTransition(r) == req[r].seen # "revoked"

Publish(r) ==
    /\ req[r].pc = "publish"
    /\ announced' = IF req[r].op = "revoke" /\ RealTransition(r) THEN announced \cup {req[r].dev} ELSE announced
    /\ End(r, Done)
    /\ UNCHANGED devices /\ Handler
-----------------------------------------------------------------------------
Next ==
    \/ Vencer \/ logout \/ Register \/ Token \/ Timer \/ RenewalSucceeds \/ RenewalFails
    \/ \E u \in User : Login(u)
    \/ \E r \in Request :
          \/ invokeAPI(r) \/ require_scope(r) \/ Unauthorized(r)
          \/ RegisterDevice(r) \/ Owned(r) \/ InMemory(r) \/ ReadRow(r) \/ CommitRow(r) \/ Publish(r)

Spec == Init /\ [][Next]_vars
-----------------------------------------------------------------------------
(* What a request holds, by where it is.                                     *)
Asking == [pc : {"sent", "401", "waiting"}, route : {"read", "write", "upload"},
           tok : Claims(User, Nat), sent : Nat, again : BOOLEAN]
Handled == [pc : {"handle"}, op : {"register", "pair", "revoke"}, dev : Device, user : User]
Registering == [pc : {"handle", "publish"}, op : {"register"}, dev : Device, user : User]
Changing == [pc : {"store", "publish"}, op : {"pair", "revoke"}, dev : Device, seen : DeviceState]
Committing == [pc : {"commit", "publish"}, op : {"pair", "revoke"}, dev : Device,
               seen : DeviceState, read : DeviceState]
Held == {Done, Refused} \cup Asking \cup Handled \cup Registering \cup Changing \cup Committing

TypeOK ==
    /\ store \in Stores /\ accounts \subseteq User /\ announced \subseteq Device
    /\ devices \in [Device -> {None} \cup Rows(User)]
    /\ age \in Nat
    /\ session \in {None} \cup Claims(User, Nat) /\ emCurso \in {None} \cup Claims(User, Nat)
    /\ signIn \in {None} \cup [user : User, step : {"register", "token"}]
    /\ req \in [Request -> Held]
    /\ ended \subseteq Request

(* An expired token is mended without the user: a request that was sent      *)
(* again is refused only if the session ended while it was in flight, or its *)
(* new token expired before the node read it.  Requests that were refused    *)
(* together share one renewal, and none of them sends an old token again.    *)
RefusedOnlyWhenSignedOut ==
    [][\A r \in Request : req[r].pc # "refused" /\ req'[r].pc = "refused" /\ req[r].route # "upload" =>
          \/ r \in ended'
          \/ req[r].again /\ age > req[r].sent]_vars

(* A device that is revoked, with no revocation of it under way, was         *)
(* handed to the kernel to publish as revoked: two revocations at once, or a *)
(* pairing in between, announce it at least once.                            *)
RevocationAnnounced ==
    \A d \in Device : devices[d] # None /\ devices[d].state = "revoked" =>
        \/ d \in announced
        \/ \E r \in Handling : req[r].op = "revoke" /\ req[r].dev = d
===============================================================================
