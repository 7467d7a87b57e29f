---------------------------- MODULE LocalNodeProofs ----------------------------
(***************************************************************************)
(* What is proved of the parts of a computer that runs a node alone.  The  *)
(* access of its devices: the types, that a revocation is announced over   *)
(* both stores, and that a request sent again is refused only when the     *)
(* session ended or its new token expired.  The in-process bus: the types, *)
(* that nothing accepted is lost but what a stop cut off in hand, that an  *)
(* event published once is handled once, that a key is handled in order,   *)
(* that a drain waits for what was put in a queue, and that the bus keeps  *)
(* the contract of the port.  The processes over its data folder: the      *)
(* types, that the last to leave in order leaves no server behind, and     *)
(* that an application that is gone asked every node it started to leave.  *)
(***************************************************************************)
EXTENDS Access, InMemoryBus, Desktop, FiniteSetTheorems, SequenceTheorems, TLAPS

Pairs == Claims(User, Nat)

-----------------------------------------------------------------------------
(* What a request holds, read off where it is.                             *)

LEMMA Shapes ==
    ASSUME TypeOK, NEW r \in Request
    PROVE  /\ req[r] \in Held
           /\ req[r].pc \in {"sent", "401", "waiting"} => req[r] \in Asking
           /\ req[r].pc = "handle" => req[r] \in Handled \cup Registering
           /\ req[r].pc = "store" => req[r] \in Changing
           /\ req[r].pc = "commit" => req[r] \in Committing
           /\ req[r].pc = "publish" => req[r] \in Registering \cup Changing \cup Committing
  <1>1. req[r] \in Held
    BY DEF TypeOK
  <1>2. req[r] \in {Done, Refused} => req[r].pc \in {"done", "refused"}
    BY DEF Done, Refused
  <1>3. req[r] \in Asking => req[r].pc \in {"sent", "401", "waiting"}
    BY DEF Asking
  <1>4. req[r] \in Handled => req[r].pc = "handle"
    BY DEF Handled
  <1>5. req[r] \in Registering => req[r].pc \in {"handle", "publish"}
    BY DEF Registering
  <1>6. req[r] \in Changing => req[r].pc \in {"store", "publish"}
    BY DEF Changing
  <1>7. req[r] \in Committing => req[r].pc \in {"commit", "publish"}
    BY DEF Committing
  <1> QED
    BY <1>1, <1>2, <1>3, <1>4, <1>5, <1>6, <1>7 DEF Held

LEMMA SetRequest ==
    ASSUME TypeOK, NEW r \in Request, NEW held \in Held, req' = [req EXCEPT ![r] = held]
    PROVE  /\ req' \in [Request -> Held] /\ req'[r] = held
           /\ \A q \in Request \ {r} : req'[q] = req[q]
  BY DEF TypeOK

LEMMA OverHeld == Done \in Held /\ Refused \in Held /\ Done.pc = "done" /\ Refused.pc = "refused"
  BY DEF Held, Done, Refused

\* A step of a request leaves the session alone, or asks for a renewal.
LEMMA PairType ==
    ASSUME NEW u \in User, NEW n \in Nat, n = age
    PROVE  issue_pair(u, OwnerScopes) \in Pairs
  BY DEF issue_pair, Pairs, Claims

LEMMA RefreshType ==
    ASSUME TypeOK, NEW token \in Pairs
    PROVE  refresh(token) \in Pairs /\ refresh(token).age = age
  BY DEF refresh, issue_pair, Pairs, Claims, TypeOK

LEMMA NotNone ==
    /\ \A token \in Pairs : token # None
    /\ \A row \in Rows(User) : row # None
  BY AccessAssumption DEF Pairs

-----------------------------------------------------------------------------
(* Types.                                                                  *)

LEMMA InitTyped == Init => TypeOK
  <1> SUFFICES ASSUME Init PROVE TypeOK
    OBVIOUS
  <1>1. store \in Stores /\ accounts \subseteq User /\ announced \subseteq Device /\ ended \subseteq Request
    BY DEF Init
  <1>2. devices \in [Device -> {None} \cup Rows(User)]
    <2>1. Rows(accounts) \subseteq Rows(User)
      BY <1>1 DEF Rows
    <2> QED
      BY <2>1 DEF Init
  <1>3. age \in Nat /\ emCurso = None /\ signIn = None
    BY DEF Init
  <1>4. session \in {None} \cup Claims(User, Nat)
    <2>1. Claims(accounts, {0, 1}) \subseteq Claims(User, Nat)
      BY <1>1 DEF Claims
    <2> QED
      BY <2>1 DEF Init
  <1>5. req \in [Request -> Held]
    BY OverHeld DEF Init
  <1> QED
    BY <1>1, <1>2, <1>3, <1>4, <1>5 DEF TypeOK

\* A step that only touches the session, or only a request and the renewal.
LEMMA ClientType ==
    ASSUME TypeOK, UNCHANGED <<store, server, age>>,
           session' \in {None} \cup Pairs, emCurso' \in {None} \cup Pairs,
           signIn' \in {None} \cup [user : User, step : {"register", "token"}],
           req' \in [Request -> Held], ended' \subseteq Request
    PROVE  TypeOK'
  BY DEF TypeOK, server, Pairs

LEMMA HandlerType ==
    ASSUME TypeOK, UNCHANGED <<store, accounts, age, client>>,
           devices' \in [Device -> {None} \cup Rows(User)], announced' \subseteq Device,
           req' \in [Request -> Held]
    PROVE  TypeOK'
  BY DEF TypeOK, client

\* A row that a store writes is one.
LEMMA WrittenType ==
    ASSUME TypeOK, NEW r \in Request, NEW state, devices[req[r].dev] \in Rows(User)
    PROVE  Written(r, state) \in Rows(User)
  BY DEF Written, Activated, Revoked, Rows, DeviceState

LEMMA SetType ==
    ASSUME TypeOK, NEW d \in Device, NEW row \in Rows(User), Set(d, row)
    PROVE  /\ devices' \in [Device -> {None} \cup Rows(User)] /\ devices'[d] = row
           /\ \A e \in Device \ {d} : devices'[e] = devices[e]
  BY DEF TypeOK, Set

\* A device that a request found is never removed.
Found == \A r \in Request : req[r].pc \in {"store", "commit"} => devices[req[r].dev] # None

-----------------------------------------------------------------------------
(* Each step of a request: what it makes of it.                            *)

LEMMA GotoType ==
    ASSUME TypeOK, NEW r \in Request, NEW where, Goto(r, where),
           \/ req[r] \in Asking /\ where \in {"sent", "401", "waiting"}
           \/ req[r] \in Registering /\ where = "publish"
           \/ req[r] \in Changing /\ where = "publish"
           \/ req[r] \in Committing /\ where = "publish"
    PROVE  /\ req' \in [Request -> Held]
           /\ req'[r] = [req[r] EXCEPT !.pc = where]
           /\ \A q \in Request \ {r} : req'[q] = req[q]
  <1> DEFINE new == [req[r] EXCEPT !.pc = where]
  <1>1. req' = [req EXCEPT ![r] = new]
    BY DEF Goto
  <1>2. CASE req[r] \in Asking /\ where \in {"sent", "401", "waiting"}
    <2>1. new \in Asking
      BY <1>2 DEF Asking
    <2> QED
      BY <1>1, <2>1, SetRequest DEF Held
  <1>3. CASE req[r] \in Registering /\ where = "publish"
    <2>1. new \in Registering
      BY <1>3 DEF Registering
    <2> QED
      BY <1>1, <2>1, SetRequest DEF Held
  <1>4. CASE req[r] \in Changing /\ where = "publish"
    <2>1. new \in Changing
      BY <1>4 DEF Changing
    <2> QED
      BY <1>1, <2>1, SetRequest DEF Held
  <1>5. CASE req[r] \in Committing /\ where = "publish"
    <2>1. new \in Committing
      BY <1>5 DEF Committing
    <2> QED
      BY <1>1, <2>1, SetRequest DEF Held
  <1> QED
    BY <1>2, <1>3, <1>4, <1>5

\* How a request of the application moves while nobody handles it.
SessionMoves ==
    \/ Vencer \/ logout \/ Register \/ Token \/ Timer \/ RenewalSucceeds \/ RenewalFails
    \/ \E u \in User : Login(u)

LEMMA SendType ==
    ASSUME TypeOK, NEW r \in Request, req[r] \in Asking, NEW token \in Pairs
    PROVE  /\ Send([req[r] EXCEPT !.again = TRUE], token) \in Asking
           /\ Send([req[r] EXCEPT !.again = TRUE], token) =
                [req[r] EXCEPT !.again = TRUE, !.pc = "sent", !.tok = token, !.sent = age]
  BY DEF Send, Asking, TypeOK, Pairs

LEMMA SessionType == ASSUME TypeOK, SessionMoves PROVE TypeOK'
  <1>0. /\ age \in Nat /\ session \in {None} \cup Pairs /\ emCurso \in {None} \cup Pairs
        /\ signIn \in {None} \cup [user : User, step : {"register", "token"}]
        /\ req \in [Request -> Held] /\ ended \subseteq Request /\ Unread \subseteq Request
    BY DEF TypeOK, Pairs, Unread
  <1>1. CASE Vencer
    BY <1>1 DEF Vencer, TypeOK, server, client
  <1>2. CASE logout
    BY <1>0, <1>2, ClientType DEF logout, SessionStep
  <1>3. CASE Register
    <2>1. signIn' \in {None} \cup [user : User, step : {"register", "token"}]
      BY <1>0, <1>3 DEF Register
    <2>2. accounts' \subseteq User
      BY <1>0, <1>3 DEF Register, create, TypeOK
    <2> QED
      BY <1>3, <2>1, <2>2 DEF Register, TypeOK, SessionStep
  <1>4. CASE Token
    <2>1. session' \in {None} \cup Pairs
      BY <1>0, <1>4, PairType DEF Token, issue_pair, Pairs, Claims
    <2> QED
      BY <1>0, <1>4, <2>1, ClientType DEF Token, SessionStep
  <1>5. CASE Timer
    BY <1>0, <1>5, ClientType DEF Timer, Ask, SessionStep
  <1>6. CASE RenewalSucceeds
    <2>1. session' = refresh(emCurso) /\ session' \in Pairs
      BY <1>0, <1>6, RefreshType DEF RenewalSucceeds
    <2>2. req' = [r \in Request |-> IF r \in Waiting THEN Send([req[r] EXCEPT !.again = TRUE], session')
                                    ELSE req[r]]
      BY <1>6 DEF RenewalSucceeds
    <2>3. ASSUME NEW r \in Waiting PROVE Send([req[r] EXCEPT !.again = TRUE], session') \in Held
      <3>1. r \in Request /\ req[r] \in Asking
        BY <2>3, Shapes DEF Waiting
      <3> QED
        BY <2>1, <3>1, SendType DEF Held
    <2>4. req' \in [Request -> Held]
      BY <1>0, <2>2, <2>3
    <2> QED
      BY <1>0, <1>6, <2>1, <2>4, ClientType DEF RenewalSucceeds, SessionStep
  <1>7. CASE RenewalFails
    <2>1. req' \in [Request -> Held]
      BY <1>0, <1>7, OverHeld DEF RenewalFails
    <2> QED
      BY <1>0, <1>7, <2>1, ClientType DEF RenewalFails, SessionStep
  <1>8. ASSUME NEW u \in User, Login(u) PROVE TypeOK'
    BY <1>0, <1>8, ClientType DEF Login, SessionStep
  <1> QED
    BY <1>1, <1>2, <1>3, <1>4, <1>5, <1>6, <1>7, <1>8 DEF SessionMoves
\* The guard and the answers of the application.
LEMMA AskType ==
    ASSUME TypeOK, NEW r \in Request, invokeAPI(r) \/ require_scope(r) \/ Unauthorized(r)
    PROVE  TypeOK'
  <1>0. /\ age \in Nat /\ session \in {None} \cup Pairs /\ emCurso \in {None} \cup Pairs
        /\ signIn \in {None} \cup [user : User, step : {"register", "token"}]
        /\ req \in [Request -> Held] /\ ended \subseteq Request
    BY DEF TypeOK, Pairs
  <1>1. CASE invokeAPI(r)
    <2>1. PICK route \in {"read", "write", "upload"} :
            req' = [req EXCEPT ![r] = [pc |-> "sent", route |-> route, tok |-> session,
                                       sent |-> age, again |-> FALSE]]
      BY <1>1 DEF invokeAPI
    <2>2. session \in Pairs
      BY <1>0, <1>1 DEF invokeAPI
    <2>3. [pc |-> "sent", route |-> route, tok |-> session, sent |-> age, again |-> FALSE] \in Asking
      BY <1>0, <2>2 DEF Asking, Pairs
    <2>4. req' \in [Request -> Held]
      BY <2>1, <2>3, SetRequest DEF Held
    <2> QED
      BY <1>0, <1>1, <2>4, ClientType DEF invokeAPI
  <1>2. CASE require_scope(r)
    <2>1. req[r] \in Asking
      BY <1>2, Shapes DEF require_scope
    <2>2. \/ Goto(r, "401") \/ End(r, Done)
          \/ \E op \in {"register", "pair", "revoke"}, d \in Device :
               End(r, [pc |-> "handle", op |-> op, dev |-> d, user |-> req[r].tok.user])
      BY <1>2 DEF require_scope
    <2>3. req' \in [Request -> Held]
      <3>1. CASE Goto(r, "401")
        BY <2>1, <3>1, GotoType
      <3>2. CASE End(r, Done)
        BY <3>2, OverHeld, SetRequest DEF End
      <3>3. ASSUME NEW op \in {"register", "pair", "revoke"}, NEW d \in Device,
                   End(r, [pc |-> "handle", op |-> op, dev |-> d, user |-> req[r].tok.user])
            PROVE  req' \in [Request -> Held]
        <4>1. req[r].tok.user \in User
          BY <2>1 DEF Asking, Claims
        <4>2. [pc |-> "handle", op |-> op, dev |-> d, user |-> req[r].tok.user] \in Handled
          BY <4>1 DEF Handled
        <4> QED
          BY <3>3, <4>2, SetRequest DEF End, Held
      <3> QED
        BY <2>2, <3>1, <3>2, <3>3
    <2>4. ended' \subseteq Request
      BY <1>0, <1>2 DEF require_scope
    <2> QED
      BY <1>0, <1>2, <2>3, <2>4, ClientType DEF require_scope
  <1>3. CASE Unauthorized(r)
    <2>1. req[r] \in Asking
      BY <1>3, Shapes DEF Unauthorized
    <2>2. Goto(r, "waiting") \/ End(r, Refused)
      BY <1>3 DEF Unauthorized
    <2>3. req' \in [Request -> Held]
      BY <2>1, <2>2, GotoType, OverHeld, SetRequest DEF End
    <2>4. emCurso' \in {None} \cup Pairs
      BY <1>0, <1>3 DEF Unauthorized, Ask
    <2> QED
      BY <1>0, <1>3, <2>3, <2>4, ClientType DEF Unauthorized, server
  <1> QED
    BY <1>1, <1>2, <1>3

\* The handlers of api/devices.py.
Handlers(r) ==
    RegisterDevice(r) \/ Owned(r) \/ InMemory(r) \/ ReadRow(r) \/ CommitRow(r) \/ Publish(r)

\* What a handler does to the row of its device and to itself.
LEMMA HandlerMoves ==
    ASSUME TypeOK, Found, NEW r \in Request, Handlers(r)
    PROVE  /\ TypeOK'
           /\ \A q \in Request \ {r} : req'[q] = req[q]
           /\ announced \subseteq announced'
           /\ req'[r].pc \in {"store", "commit"} => devices'[req'[r].dev] # None
           /\ \A d \in Device : devices[d] # None => devices'[d] # None
  <1> SUFFICES /\ devices' \in [Device -> {None} \cup Rows(User)] /\ announced' \subseteq Device
               /\ req' \in [Request -> Held]
               /\ \A q \in Request \ {r} : req'[q] = req[q]
               /\ announced \subseteq announced'
               /\ req'[r].pc \in {"store", "commit"} => devices'[req'[r].dev] # None
               /\ \A d \in Device : devices[d] # None => devices'[d] # None
    <2>1. UNCHANGED <<store, accounts, age, client>>
      BY DEF Handlers, RegisterDevice, Owned, InMemory, ReadRow, CommitRow, Publish, Handler
    <2> QED
      BY <2>1, HandlerType
  <1>0. /\ devices \in [Device -> {None} \cup Rows(User)] /\ announced \subseteq Device
        /\ req \in [Request -> Held]
    BY DEF TypeOK
  <1>d. /\ \A d \in Device : devices[d] # None => devices[d] \in Rows(User)
        /\ \A d \in Device : devices[d] \in Rows(User) => devices[d].state \in DeviceState
    BY <1>0 DEF Rows
  <1>1. CASE RegisterDevice(r)
    <2>1. req[r].pc = "handle" /\ req[r].op = "register" /\ announced' = announced
      BY <1>1 DEF RegisterDevice
    <2>2. req[r] \in Handled \cup Registering
      BY <2>1, Shapes
    <2>3. req[r] \in Registering
      BY <2>1, <2>2 DEF Handled, Registering
    <2>4. CASE End(r, Done) /\ UNCHANGED devices
      <3>1. req' \in [Request -> Held] /\ req'[r] = Done /\ \A q \in Request \ {r} : req'[q] = req[q]
        BY <2>4, SetRequest, OverHeld DEF End
      <3> QED
        BY <1>0, <2>1, <2>4, <3>1, OverHeld
    <2>5. CASE Set(req[r].dev, [owner |-> Caller(r), state |-> "pending"]) /\ Goto(r, "publish")
      <3>1. /\ req' \in [Request -> Held] /\ req'[r] = [req[r] EXCEPT !.pc = "publish"]
            /\ \A q \in Request \ {r} : req'[q] = req[q]
        BY <2>3, <2>5, GotoType
      <3>2. req'[r].pc = "publish" /\ req[r].dev \in Device /\ Caller(r) \in User
        BY <2>3, <3>1 DEF Registering, Caller
      <3>3. [owner |-> Caller(r), state |-> "pending"] \in Rows(User)
        BY <3>2 DEF Rows, DeviceState
      <3>4. /\ devices' \in [Device -> {None} \cup Rows(User)]
            /\ devices'[req[r].dev] \in Rows(User)
            /\ \A e \in Device \ {req[r].dev} : devices'[e] = devices[e]
        BY <2>5, <3>2, <3>3, SetType
      <3>5. \A d \in Device : devices[d] # None => devices'[d] # None
        BY <3>4, NotNone
      <3> QED
        BY <1>0, <2>1, <3>1, <3>2, <3>4, <3>5
    <2> QED
      BY <1>1, <2>4, <2>5 DEF RegisterDevice
  <1>2. CASE Owned(r)
    <2>1. req[r].pc = "handle" /\ req[r].op # "register" /\ announced' = announced /\ devices' = devices
      BY <1>2 DEF Owned
    <2>2. req[r] \in Handled
      BY <2>1, Shapes DEF Registering
    <2>3. req[r].dev \in Device /\ req[r].op \in {"pair", "revoke"}
      BY <2>1, <2>2 DEF Handled
    <2> DEFINE row == devices[req[r].dev]
               new == [pc |-> "store", op |-> req[r].op, dev |-> req[r].dev, seen |-> row.state]
    <2>4. CASE End(r, Done)
      <3>1. req' \in [Request -> Held] /\ req'[r] = Done /\ \A q \in Request \ {r} : req'[q] = req[q]
        BY <2>4, SetRequest, OverHeld DEF End
      <3> QED
        BY <1>0, <2>1, <3>1, OverHeld
    <2>5. CASE row # None /\ End(r, new)
      <3>1. row.state \in DeviceState
        BY <1>d, <2>3, <2>5
      <3>2. new \in Changing /\ new.pc = "store" /\ new.dev = req[r].dev
        BY <2>3, <3>1 DEF Changing
      <3> HIDE DEF new
      <3>3. req' \in [Request -> Held] /\ req'[r] = new /\ \A q \in Request \ {r} : req'[q] = req[q]
        BY <2>5, <3>2, SetRequest DEF End, Held
      <3> QED
        BY <1>0, <2>1, <2>5, <3>2, <3>3
    <2> QED
      BY <1>2, <2>4, <2>5 DEF Owned
  <1>3. ASSUME NEW state, req[r] \in Changing \cup Committing, req[r].pc \in {"store", "commit"},
               Set(req[r].dev, Written(r, state)), Goto(r, "publish"), announced' = announced
        PROVE  /\ devices' \in [Device -> {None} \cup Rows(User)] /\ announced' \subseteq Device
               /\ req' \in [Request -> Held]
               /\ \A q \in Request \ {r} : req'[q] = req[q]
               /\ announced \subseteq announced'
               /\ req'[r].pc \in {"store", "commit"} => devices'[req'[r].dev] # None
               /\ \A d \in Device : devices[d] # None => devices'[d] # None
    <2>1. req[r].dev \in Device /\ devices[req[r].dev] # None
      BY <1>3 DEF Found, Changing, Committing
    <2>2. Written(r, state) \in Rows(User)
      BY <1>d, <2>1, WrittenType
    <2>3. /\ devices' \in [Device -> {None} \cup Rows(User)]
          /\ devices'[req[r].dev] \in Rows(User)
          /\ \A e \in Device \ {req[r].dev} : devices'[e] = devices[e]
      BY <1>3, <2>1, <2>2, SetType
    <2>4. /\ req' \in [Request -> Held] /\ req'[r] = [req[r] EXCEPT !.pc = "publish"]
          /\ \A q \in Request \ {r} : req'[q] = req[q]
      BY <1>3, GotoType
    <2>5. req'[r].pc = "publish"
      BY <1>3, <2>4 DEF Changing, Committing
    <2>6. \A d \in Device : devices[d] # None => devices'[d] # None
      BY <2>3, NotNone
    <2> QED
      BY <1>0, <1>3, <2>3, <2>4, <2>5, <2>6
  <1>e. ASSUME req' = [req EXCEPT ![r] = Done], devices' = devices, announced' \subseteq Device,
               announced \subseteq announced'
        PROVE  /\ devices' \in [Device -> {None} \cup Rows(User)] /\ announced' \subseteq Device
               /\ req' \in [Request -> Held]
               /\ \A q \in Request \ {r} : req'[q] = req[q]
               /\ announced \subseteq announced'
               /\ req'[r].pc \in {"store", "commit"} => devices'[req'[r].dev] # None
               /\ \A d \in Device : devices[d] # None => devices'[d] # None
    <2>1. req' \in [Request -> Held] /\ req'[r] = Done /\ \A q \in Request \ {r} : req'[q] = req[q]
      BY <1>e, SetRequest, OverHeld
    <2> QED
      BY <1>0, <1>e, <2>1, OverHeld
  <1>4. CASE InMemory(r)
    <2>1. req[r].pc = "store" /\ announced' = announced /\ req[r] \in Changing
      BY <1>4, Shapes DEF InMemory
    <2>2. \/ End(r, Done) /\ UNCHANGED devices
          \/ Set(req[r].dev, Written(r, devices[req[r].dev].state)) /\ Goto(r, "publish")
      BY <1>4 DEF InMemory
    <2> QED
      BY <1>0, <1>3, <1>e, <2>1, <2>2 DEF End
  <1>5. CASE ReadRow(r)
    <2> DEFINE state == devices[req[r].dev].state
               new == [pc |-> "commit", op |-> req[r].op, dev |-> req[r].dev, seen |-> req[r].seen,
                       read |-> state]
    <2>1. req[r].pc = "store" /\ announced' = announced /\ devices' = devices /\ req[r] \in Changing
      BY <1>5, Shapes DEF ReadRow
    <2>2. req[r].dev \in Device /\ devices[req[r].dev] # None
      BY <2>1 DEF Found, Changing
    <2>3. state \in DeviceState
      BY <1>d, <2>2
    <2>4. End(r, Done) \/ End(r, new)
      BY <1>5 DEF ReadRow
    <2>5. new \in Committing /\ new.pc = "commit" /\ new.dev = req[r].dev
      BY <2>1, <2>3 DEF Changing, Committing
    <2> HIDE DEF new
    <2>6. CASE End(r, new)
      <3>1. req' \in [Request -> Held] /\ req'[r] = new /\ \A q \in Request \ {r} : req'[q] = req[q]
        BY <2>5, <2>6, SetRequest DEF End, Held
      <3> QED
        BY <1>0, <2>1, <2>2, <2>5, <3>1
    <2> QED
      BY <1>0, <1>e, <2>1, <2>4, <2>6 DEF End
  <1>6. CASE CommitRow(r)
    <2>1. /\ req[r].pc = "commit" /\ announced' = announced /\ req[r] \in Committing
          /\ Set(req[r].dev, Written(r, req[r].read)) /\ Goto(r, "publish")
      BY <1>6, Shapes DEF CommitRow
    <2> QED
      BY <1>3, <2>1
  <1>7. CASE Publish(r)
    <2>1. req[r].pc = "publish" /\ devices' = devices /\ End(r, Done)
      BY <1>7 DEF Publish
    <2>2. req[r].dev \in Device
      BY <2>1, Shapes DEF Registering, Changing, Committing
    <2>3. announced' \subseteq Device /\ announced \subseteq announced'
      BY <1>0, <1>7, <2>2 DEF Publish
    <2> QED
      BY <1>e, <2>1, <2>3 DEF End
  <1> QED
    BY <1>1, <1>2, <1>4, <1>5, <1>6, <1>7 DEF Handlers
\* Everything else leaves the devices, and the handlers behind the guard, alone.
Behind == {"store", "commit", "publish"}
Apart ==
    /\ UNCHANGED <<devices, announced>>
    /\ \A q \in Request : req'[q] = req[q] \/ (req[q].pc \notin Behind /\ req'[q].pc \notin Behind)

LEMMA OthersApart ==
    ASSUME TypeOK,
           SessionMoves \/ \E r \in Request : invokeAPI(r) \/ require_scope(r) \/ Unauthorized(r)
    PROVE  Apart
  <1>0. req \in [Request -> Held]
    BY DEF TypeOK
  <1>1. CASE RenewalSucceeds
    <2>1. req' = [r \in Request |-> IF r \in Waiting THEN Send([req[r] EXCEPT !.again = TRUE], session')
                                    ELSE req[r]]
      BY <1>1 DEF RenewalSucceeds
    <2>2. session' = refresh(emCurso) /\ session' \in Pairs
      BY <1>1, RefreshType DEF RenewalSucceeds, TypeOK, Pairs
    <2>3. ASSUME NEW q \in Waiting PROVE req[q].pc \notin Behind /\ req'[q].pc \notin Behind
      <3>1. q \in Request /\ req[q].pc = "waiting" /\ req[q] \in Asking
        BY <2>3, Shapes DEF Waiting
      <3>2. req'[q] = Send([req[q] EXCEPT !.again = TRUE], session')
        BY <2>1, <2>3, <3>1
      <3>3. ASSUME NEW token \in Pairs PROVE Send([req[q] EXCEPT !.again = TRUE], token).pc = "sent"
        BY <3>1 DEF Send, Asking
      <3>4. req'[q].pc = "sent"
        BY <2>2, <3>2, <3>3
      <3> QED
        BY <3>1, <3>4 DEF Behind
    <2> QED
      BY <1>1, <2>1, <2>3 DEF RenewalSucceeds, server, Apart
  <1>2. CASE RenewalFails
    <2>1. req' = [r \in Request |-> IF r \in Waiting THEN Refused ELSE req[r]]
      BY <1>2 DEF RenewalFails
    <2>2. \A q \in Waiting : req[q].pc \notin Behind /\ q \in Request
      BY DEF Waiting, Behind
    <2> QED
      BY <1>2, <2>1, <2>2, OverHeld DEF RenewalFails, server, Apart, Behind
  <1>3. CASE Vencer \/ logout \/ Register \/ Token \/ Timer \/ \E u \in User : Login(u)
    BY <1>3 DEF Vencer, logout, Register, Token, Timer, Login, server, Apart
  <1>4. ASSUME NEW r \in Request, invokeAPI(r) PROVE Apart
    <2>1. PICK route \in {"read", "write", "upload"} :
            req' = [req EXCEPT ![r] = [pc |-> "sent", route |-> route, tok |-> session,
                                       sent |-> age, again |-> FALSE]]
      BY <1>4 DEF invokeAPI
    <2>2. req[r].pc \in {"done", "refused"} /\ UNCHANGED server
      BY <1>4 DEF invokeAPI, InFlight
    <2> QED
      BY <1>0, <2>1, <2>2 DEF Apart, server, Behind
  <1>5. ASSUME NEW r \in Request, require_scope(r) PROVE Apart
    <2>1. req[r].pc = "sent" /\ req[r] \in Asking /\ UNCHANGED server
      BY <1>5, Shapes DEF require_scope
    <2>2. \/ Goto(r, "401") \/ End(r, Done)
          \/ \E op \in {"register", "pair", "revoke"}, d \in Device :
               End(r, [pc |-> "handle", op |-> op, dev |-> d, user |-> req[r].tok.user])
      BY <1>5 DEF require_scope
    <2>3. CASE Goto(r, "401")
      <3>0. req'[r] = [req[r] EXCEPT !.pc = "401"] /\ \A q \in Request \ {r} : req'[q] = req[q]
        BY <2>1, <2>3, GotoType
      <3>1. req'[r].pc = "401" /\ \A q \in Request \ {r} : req'[q] = req[q]
        BY <2>1, <3>0 DEF Asking
      <3> QED
        BY <2>1, <3>1 DEF Apart, server, Behind
    <2>4. ASSUME NEW new, End(r, new), new.pc \in {"done", "handle"} PROVE Apart
      <3>1. req'[r] = new /\ \A q \in Request \ {r} : req'[q] = req[q]
        BY <1>0, <2>4 DEF End
      <3> QED
        BY <2>1, <2>4, <3>1 DEF Apart, server, Behind
    <2>5. CASE End(r, Done)
      BY <2>4, <2>5, OverHeld
    <2>6. ASSUME NEW op \in {"register", "pair", "revoke"}, NEW d \in Device,
                 End(r, [pc |-> "handle", op |-> op, dev |-> d, user |-> req[r].tok.user])
          PROVE  Apart
      BY <2>4, <2>6
    <2> QED
      BY <2>2, <2>3, <2>5, <2>6
  <1>6. ASSUME NEW r \in Request, Unauthorized(r) PROVE Apart
    <2>1. req[r].pc = "401" /\ req[r] \in Asking /\ UNCHANGED server
      BY <1>6, Shapes DEF Unauthorized
    <2>2. CASE Goto(r, "waiting")
      <3>0. req'[r] = [req[r] EXCEPT !.pc = "waiting"] /\ \A q \in Request \ {r} : req'[q] = req[q]
        BY <2>1, <2>2, GotoType
      <3>1. req'[r].pc = "waiting" /\ \A q \in Request \ {r} : req'[q] = req[q]
        BY <2>1, <3>0 DEF Asking
      <3> QED
        BY <2>1, <3>1 DEF Apart, server, Behind
    <2>3. CASE End(r, Refused)
      BY <1>0, <2>1, <2>3, OverHeld DEF End, Apart, server, Behind
    <2> QED
      BY <1>6, <2>2, <2>3 DEF Unauthorized
  <1> QED
    BY <1>1, <1>2, <1>3, <1>4, <1>5, <1>6 DEF SessionMoves

LEMMA StepKinds ==
    ASSUME [Next]_vars
    PROVE  \/ UNCHANGED vars
           \/ SessionMoves \/ \E r \in Request : invokeAPI(r) \/ require_scope(r) \/ Unauthorized(r)
           \/ \E r \in Request : Handlers(r)
  BY DEF Next, SessionMoves, Handlers

LEMMA TypeStep == TypeOK /\ Found /\ [Next]_vars => TypeOK' /\ Found'
  <1> SUFFICES ASSUME TypeOK, Found, [Next]_vars PROVE TypeOK' /\ Found'
    OBVIOUS
  <1>1. CASE UNCHANGED vars
    BY <1>1 DEF vars, server, client, TypeOK, Found
  <1>2. CASE SessionMoves \/ \E r \in Request : invokeAPI(r) \/ require_scope(r) \/ Unauthorized(r)
    <2>1. Apart
      BY <1>2, OthersApart
    <2>2. TypeOK'
      BY <1>2, SessionType, AskType
    <2>3. Found'
      BY <2>1 DEF Found, Apart, Behind
    <2> QED
      BY <2>2, <2>3
  <1>3. ASSUME NEW r \in Request, Handlers(r) PROVE TypeOK' /\ Found'
    <2>1. /\ TypeOK'
          /\ \A q \in Request \ {r} : req'[q] = req[q]
          /\ req'[r].pc \in {"store", "commit"} => devices'[req'[r].dev] # None
          /\ \A d \in Device : devices[d] # None => devices'[d] # None
      BY <1>3, HandlerMoves
    <2>2. ASSUME NEW q \in Request, q # r, req'[q].pc \in {"store", "commit"}
          PROVE  devices'[req'[q].dev] # None
      <3>1. req'[q] = req[q] /\ req[q].dev \in Device
        BY <2>1, <2>2, Shapes DEF Changing, Committing
      <3> QED
        BY <2>1, <2>2, <3>1 DEF Found
    <2> QED
      BY <2>1, <2>2 DEF Found
  <1> QED
    BY <1>1, <1>2, <1>3, StepKinds

LEMMA InitFound == Init => Found
  BY DEF Init, Found, Done

\* TypeOK: every variable keeps its type, and a request holds what belongs to
\* the place in its handler where it is (auth.py, api/devices.py).
THEOREM TypeCorrect == Spec => []TypeOK
  BY InitTyped, InitFound, TypeStep, PTL DEF Spec
-----------------------------------------------------------------------------
(* Revocations.  One that found the device not revoked announces it; what  *)
(* has to be known is that one that found it revoked was not the first.    *)

Announcing(d) == {r \in Request : /\ req[r].pc \in Behind /\ req[r].op = "revoke"
                                  /\ req[r].dev = d /\ req[r].seen # "revoked"}
Told(d) == d \in announced \/ Announcing(d) # {}

RevokeInv ==
    /\ \A d \in Device : devices[d] # None /\ devices[d].state = "revoked" => Told(d)
    /\ \A r \in Request : req[r].pc \in Behind /\ req[r].op = "revoke" /\ req[r].seen = "revoked"
                            => Told(req[r].dev)

LEMMA InitRevoke == Init => RevokeInv
  <1> SUFFICES ASSUME Init PROVE RevokeInv
    OBVIOUS
  <1>1. \A d \in Device : devices[d] # None => devices[d].state # "revoked"
    BY DEF Init
  <1>2. \A r \in Request : req[r].pc = "done"
    BY DEF Init, Done
  <1> QED
    BY <1>1, <1>2 DEF RevokeInv, Behind

\* A revocation under way stays one, with what it saw, until it is announced.
LEMMA RevocationGoesOn ==
    ASSUME TypeOK, Found, NEW r \in Request, Handlers(r), req[r].pc \in Behind, req[r].op = "revoke"
    PROVE  \/ /\ req'[r].pc \in Behind /\ req'[r].op = "revoke"
              /\ req'[r].dev = req[r].dev /\ req'[r].seen = req[r].seen
           \/ RealTransition(r) => req[r].dev \in announced'
  <1>0. req \in [Request -> Held]
    BY DEF TypeOK
  <1>1. CASE Goto(r, "publish") /\ req[r] \in Changing \cup Committing
    <2>1. req'[r] = [req[r] EXCEPT !.pc = "publish"]
      BY <1>1, GotoType
    <2> QED
      BY <1>1, <2>1 DEF Changing, Committing, Behind
  <1>2. CASE InMemory(r)
    BY <1>1, <1>2, Shapes DEF InMemory
  <1>3. CASE ReadRow(r)
    <2> DEFINE new == [pc |-> "commit", op |-> req[r].op, dev |-> req[r].dev, seen |-> req[r].seen,
                       read |-> devices[req[r].dev].state]
    <2>1. End(r, new)
      BY <1>3 DEF ReadRow
    <2>2. /\ new.pc = "commit" /\ new.op = "revoke" /\ new.dev = req[r].dev /\ new.seen = req[r].seen
      OBVIOUS
    <2> HIDE DEF new
    <2> QED
      BY <1>0, <2>1, <2>2 DEF End, Behind
  <1>4. CASE CommitRow(r)
    BY <1>1, <1>4, Shapes DEF CommitRow
  <1>5. CASE Publish(r)
    BY <1>5 DEF Publish
  <1> QED
    BY <1>2, <1>3, <1>4, <1>5 DEF Handlers, RegisterDevice, Owned, Behind

LEMMA ToldStays == ASSUME TypeOK, Found, [Next]_vars, NEW d, Told(d) PROVE Told(d)'
  <1>1. CASE UNCHANGED vars
    BY <1>1 DEF vars, server, Told, Announcing
  <1>2. CASE Apart
    BY <1>2 DEF Apart, Told, Announcing, Behind
  <1>3. ASSUME NEW r \in Request, Handlers(r) PROVE Told(d)'
    <2>1. announced \subseteq announced' /\ \A q \in Request \ {r} : req'[q] = req[q]
      BY <1>3, HandlerMoves
    <2>2. CASE d \in announced
      BY <2>1, <2>2 DEF Told
    <2>3. ASSUME NEW q \in Announcing(d), q # r PROVE Told(d)'
      BY <2>1, <2>3 DEF Announcing, Told
    <2>4. CASE r \in Announcing(d)
      BY <1>3, <2>4, RevocationGoesOn DEF Announcing, Told, RealTransition
    <2> QED
      BY <2>2, <2>3, <2>4 DEF Told
  <1> QED
    BY <1>1, <1>2, <1>3, StepKinds, OthersApart
\* Where a revocation under way comes from.
LEMMA RevocationComes ==
    ASSUME TypeOK, Found, NEW r \in Request, Handlers(r), req'[r].pc \in Behind, req'[r].op = "revoke"
    PROVE  \/ /\ req[r].pc \in Behind /\ req[r].op = "revoke"
              /\ req'[r].dev = req[r].dev /\ req'[r].seen = req[r].seen
           \/ LET d == req'[r].dev IN
              d \in Device /\ devices[d] # None /\ req'[r].seen = devices[d].state
  <1>0. req \in [Request -> Held]
    BY DEF TypeOK
  <1>e. ~End(r, Done)
    BY <1>0, OverHeld DEF End, Behind
  <1>1. CASE Goto(r, "publish") /\ req[r] \in Changing \cup Committing
    <2>1. req'[r] = [req[r] EXCEPT !.pc = "publish"]
      BY <1>1, GotoType
    <2>2. req[r].pc \in Behind
      BY <1>1 DEF Changing, Committing, Behind
    <2> QED
      BY <1>1, <2>1, <2>2 DEF Changing, Committing
  <1>2. CASE InMemory(r)
    BY <1>1, <1>2, <1>e, Shapes DEF InMemory
  <1>3. CASE ReadRow(r)
    <2> DEFINE new == [pc |-> "commit", op |-> req[r].op, dev |-> req[r].dev, seen |-> req[r].seen,
                       read |-> devices[req[r].dev].state]
    <2>1. End(r, new) /\ req[r].pc = "store"
      BY <1>3, <1>e DEF ReadRow
    <2>2. new.op = req[r].op /\ new.dev = req[r].dev /\ new.seen = req[r].seen
      OBVIOUS
    <2> HIDE DEF new
    <2>3. req'[r] = new
      BY <1>0, <2>1 DEF End
    <2> QED
      BY <2>1, <2>2, <2>3 DEF Behind
  <1>4. CASE CommitRow(r)
    BY <1>1, <1>4, Shapes DEF CommitRow
  <1>5. CASE Publish(r)
    BY <1>5, <1>e DEF Publish
  <1>6. CASE Owned(r)
    <2>1. req[r] \in Handled
      BY <1>6, Shapes DEF Owned, Registering
    <2>2. req[r].dev \in Device
      BY <2>1 DEF Handled
    <2>3. /\ devices[req[r].dev] # None
          /\ req' = [req EXCEPT ![r] = [pc |-> "store", op |-> req[r].op, dev |-> req[r].dev,
                                         seen |-> devices[req[r].dev].state]]
      BY <1>6, <1>e DEF Owned, End
    <2> QED
      BY <1>0, <2>2, <2>3
  <1>7. CASE RegisterDevice(r)
    <2>1. req[r].op = "register" /\ req[r] \in Registering /\ Goto(r, "publish")
      BY <1>7, <1>e, Shapes DEF RegisterDevice, Handled, Registering
    <2>2. req'[r] = [req[r] EXCEPT !.pc = "publish"]
      BY <2>1, GotoType
    <2>3. req'[r].op = "register"
      BY <2>1, <2>2 DEF Registering
    <2> QED
      BY <2>3
  <1> QED
    BY <1>2, <1>3, <1>4, <1>5, <1>6, <1>7 DEF Handlers

\* A device becomes revoked by a revocation, which then is under way.
LEMMA RevokedBy ==
    ASSUME TypeOK, Found, NEW r \in Request, Handlers(r), NEW d \in Device,
           devices'[d].state = "revoked", devices'[d] # devices[d]
    PROVE  /\ req[r].dev = d /\ req[r].op = "revoke" /\ req[r].pc \in Behind
           /\ Goto(r, "publish") /\ req[r] \in Changing \cup Committing
  <1>1. CASE RegisterDevice(r)
    <2>1. Set(req[r].dev, [owner |-> Caller(r), state |-> "pending"])
      BY <1>1 DEF RegisterDevice
    <2>2. devices'[d] = [owner |-> Caller(r), state |-> "pending"]
      BY <2>1 DEF Set, TypeOK
    <2> QED
      BY <2>2
  <1>2. ASSUME NEW state, req[r] \in Changing \cup Committing, req[r].pc \in Behind,
               Set(req[r].dev, Written(r, state)), req[r].pc \in {"store", "commit"}
        PROVE  req[r].dev = d /\ req[r].op = "revoke"
    <2>1. req[r].dev = d /\ devices'[d] = Written(r, state)
      BY <1>2 DEF Set, TypeOK
    <2>2. devices[d] \in Rows(User)
      BY <1>2, <2>1 DEF Found, TypeOK
    <2>3. req[r].op = "pair" => devices'[d] = devices[d] \/ devices'[d] = [devices[d] EXCEPT !.state = "active"]
      BY <2>1 DEF Written, Activated
    <2>4. [devices[d] EXCEPT !.state = "active"].state = "active"
      BY <2>2 DEF Rows
    <2>5. req[r].op # "pair"
      BY <2>3, <2>4
    <2> QED
      BY <1>2, <2>1, <2>5 DEF Changing, Committing
  <1>3. CASE InMemory(r)
    <2>1. /\ Set(req[r].dev, Written(r, devices[req[r].dev].state)) /\ Goto(r, "publish")
          /\ req[r].pc = "store"
      BY <1>3 DEF InMemory
    <2> QED
      BY <1>2, <1>3, <2>1, Shapes DEF Behind
  <1>4. CASE CommitRow(r)
    BY <1>2, <1>4, Shapes DEF CommitRow, Behind
  <1> QED
    BY <1>1, <1>3, <1>4 DEF Handlers, Owned, ReadRow, Publish

LEMMA RevokeStep == TypeOK /\ Found /\ RevokeInv /\ [Next]_vars => RevokeInv'
  <1> SUFFICES ASSUME TypeOK, Found, RevokeInv, [Next]_vars PROVE RevokeInv'
    OBVIOUS
  <1>1. CASE UNCHANGED vars
    BY <1>1 DEF vars, server, RevokeInv, Told, Announcing
  <1>2. CASE Apart
    <2>1. ASSUME NEW d \in Device, devices'[d] # None, devices'[d].state = "revoked" PROVE Told(d)'
      BY <1>2, <2>1, ToldStays DEF RevokeInv, Apart
    <2>2. ASSUME NEW q \in Request, req'[q].pc \in Behind, req'[q].op = "revoke", req'[q].seen = "revoked"
          PROVE  Told(req[q].dev)' /\ req'[q] = req[q]
      BY <1>2, <2>2, ToldStays DEF RevokeInv, Apart
    <2> QED
      BY <2>1, <2>2 DEF RevokeInv, Told, Announcing
  <1>3. ASSUME NEW r \in Request, Handlers(r) PROVE RevokeInv'
    <2>1. ASSUME NEW d \in Device, devices'[d] # None, devices'[d].state = "revoked" PROVE Told(d)'
      <3>1. CASE devices'[d] = devices[d]
        BY <2>1, <3>1, ToldStays DEF RevokeInv
      <3>2. CASE devices'[d] # devices[d]
        <4>1. /\ req[r].dev = d /\ req[r].op = "revoke" /\ req[r].pc \in Behind
              /\ Goto(r, "publish") /\ req[r] \in Changing \cup Committing
          BY <1>3, <2>1, <3>2, RevokedBy
        <4>2. CASE req[r].seen = "revoked"
          BY <4>1, <4>2, ToldStays DEF RevokeInv
        <4>3. CASE req[r].seen # "revoked"
          <5>1. r \in Announcing(d)
            BY <4>1, <4>3 DEF Announcing
          <5> QED
            BY <5>1, ToldStays DEF Told
        <4> QED
          BY <4>2, <4>3
      <3> QED
        BY <3>1, <3>2
    <2>2. ASSUME NEW q \in Request, req'[q].pc \in Behind, req'[q].op = "revoke", req'[q].seen = "revoked",
                 NEW d, d = req'[q].dev
          PROVE  Told(d)'
      <3>1. CASE q # r
        <4>1. req'[q] = req[q]
          BY <1>3, <3>1, HandlerMoves
        <4> QED
          BY <2>2, <4>1, ToldStays DEF RevokeInv
      <3>2. CASE q = r
        <4>1. CASE /\ req[r].pc \in Behind /\ req[r].op = "revoke"
                   /\ req'[r].dev = req[r].dev /\ req'[r].seen = req[r].seen
          BY <2>2, <3>2, <4>1, ToldStays DEF RevokeInv
        <4>2. CASE d \in Device /\ devices[d] # None /\ req'[r].seen = devices[d].state
          BY <2>2, <3>2, <4>2, ToldStays DEF RevokeInv
        <4> QED
          BY <1>3, <2>2, <3>2, <4>1, <4>2, RevocationComes
      <3> QED
        BY <3>1, <3>2
    <2>3. \A q \in Request : req'[q].pc \in Behind /\ req'[q].op = "revoke" /\ req'[q].seen = "revoked"
                               => Told(req[q].dev)'
      BY <2>2 DEF Told, Announcing
    <2> QED
      BY <2>1, <2>2, <2>3 DEF RevokeInv, Told, Announcing
  <1> QED
    BY <1>1, <1>2, <1>3, StepKinds, OthersApart

\* RevocationAnnounced: two revocations at once, or a pairing committed in
\* between, over either store, announce a revoked device (api/devices.py).
THEOREM RevocationsAreTold == Spec => []RevocationAnnounced
  <1>1. RevokeInv => RevocationAnnounced
    BY DEF RevokeInv, RevocationAnnounced, Told, Announcing, Handling, Behind
  <1> QED
    BY InitTyped, InitFound, TypeStep, InitRevoke, RevokeStep, <1>1, PTL DEF Spec
-----------------------------------------------------------------------------
(* Requests that are refused.  A session that ended while requests were    *)
(* unread is remembered by them, and the token a request was sent again    *)
(* with was issued when it was sent.                                       *)

Reading == {"sent", "401", "waiting"}

SignedInv ==
    /\ session = None => Unread \subseteq ended
    /\ session # None => session.age <= age
    /\ \A r \in Request : req[r].pc \in Reading =>
         /\ req[r].tok.age <= age
         /\ req[r].pc = "401" => req[r].tok.age < age
         /\ req[r].again => req[r].tok.age = req[r].sent

LEMMA InitSigned == Init => SignedInv
  <1> SUFFICES ASSUME Init PROVE SignedInv
    OBVIOUS
  <1>1. \A r \in Request : req[r].pc = "done"
    BY DEF Init, Done
  <1>2. session # None => session.age \in {0, 1} /\ age = 1
    BY DEF Init, Claims
  <1> QED
    BY <1>1, <1>2 DEF SignedInv, Unread, Reading

LEMMA HandlersBehind ==
    ASSUME TypeOK, Found, NEW r \in Request, Handlers(r)
    PROVE  /\ req[r].pc \notin Reading /\ req'[r].pc \notin Reading \cup {"refused"}
           /\ \A q \in Request \ {r} : req'[q] = req[q]
           /\ UNCHANGED <<age, client>>
  <1>0. req \in [Request -> Held]
    BY DEF TypeOK
  <1>1. \A q \in Request \ {r} : req'[q] = req[q]
    BY HandlerMoves
  <1>2. req[r].pc \in {"handle", "store", "commit", "publish"} /\ UNCHANGED <<age, client>>
    BY DEF Handlers, RegisterDevice, Owned, InMemory, ReadRow, CommitRow, Publish, Handler
  <1> SUFFICES req'[r].pc \notin Reading \cup {"refused"}
    BY <1>1, <1>2 DEF Reading
  <1>3. ASSUME NEW new, End(r, new), new.pc \in {"done", "store", "commit"}
        PROVE  req'[r].pc \notin Reading \cup {"refused"}
    BY <1>0, <1>3 DEF End, Reading
  <1>4. ASSUME req[r] \in Registering \cup Changing \cup Committing, Goto(r, "publish")
        PROVE  req'[r].pc \notin Reading \cup {"refused"}
    <2>1. req'[r] = [req[r] EXCEPT !.pc = "publish"]
      BY <1>4, GotoType
    <2>2. req'[r].pc = "publish"
      BY <1>4, <2>1 DEF Registering, Changing, Committing
    <2> QED
      BY <2>2 DEF Reading
  <1>5. End(r, Done) => req'[r].pc \notin Reading \cup {"refused"}
    BY <1>3, OverHeld
  <1>6. CASE RegisterDevice(r)
    <2>1. req[r] \in Registering
      BY <1>6, Shapes DEF RegisterDevice, Handled, Registering
    <2> QED
      BY <1>4, <1>5, <1>6, <2>1 DEF RegisterDevice
  <1>7. CASE Owned(r)
    <2> DEFINE new == [pc |-> "store", op |-> req[r].op, dev |-> req[r].dev,
                       seen |-> devices[req[r].dev].state]
    <2>1. End(r, Done) \/ End(r, new)
      BY <1>7 DEF Owned
    <2>2. new.pc = "store"
      OBVIOUS
    <2> HIDE DEF new
    <2> QED
      BY <1>3, <1>5, <2>1, <2>2
  <1>8. CASE InMemory(r)
    BY <1>4, <1>5, <1>8, Shapes DEF InMemory
  <1>9. CASE ReadRow(r)
    <2> DEFINE new == [pc |-> "commit", op |-> req[r].op, dev |-> req[r].dev, seen |-> req[r].seen,
                       read |-> devices[req[r].dev].state]
    <2>1. End(r, Done) \/ End(r, new)
      BY <1>9 DEF ReadRow
    <2>2. new.pc = "commit"
      OBVIOUS
    <2> HIDE DEF new
    <2> QED
      BY <1>3, <1>5, <2>1, <2>2
  <1>10. CASE CommitRow(r)
    BY <1>4, <1>10, Shapes DEF CommitRow
  <1>11. CASE Publish(r)
    BY <1>5, <1>11 DEF Publish
  <1> QED
    BY <1>6, <1>7, <1>8, <1>9, <1>10, <1>11 DEF Handlers

LEMMA SignedStep == TypeOK /\ Found /\ SignedInv /\ [Next]_vars => SignedInv'
  <1> SUFFICES ASSUME TypeOK, Found, SignedInv, [Next]_vars PROVE SignedInv'
    OBVIOUS
  <1>0. /\ req \in [Request -> Held] /\ age \in Nat
        /\ session \in {None} \cup Pairs /\ emCurso \in {None} \cup Pairs
    BY DEF TypeOK, Pairs
  <1>a. \A token \in Pairs : token.age \in Nat /\ token # None
    BY NotNone DEF Pairs, Claims
  <1>b. \A r \in Request : req[r].pc \in Reading => req[r].tok.age \in Nat
    BY Shapes DEF Reading, Asking, Claims
  \* a step of one request, the session as it is
  <1>1. ASSUME NEW r \in Request, UNCHANGED <<session, age>>,
               \A q \in Request \ {r} : req'[q] = req[q],
               ended \ {r} \subseteq ended',
               req'[r].pc \in Reading => \/ session # None
                                         \/ req[r].pc \in Reading /\ ended' = ended,
               req'[r].pc \in Reading => /\ req'[r].tok.age <= age
                                         /\ req'[r].pc = "401" => req'[r].tok.age < age
                                         /\ req'[r].again => req'[r].tok.age = req'[r].sent
        PROVE  SignedInv'
    <2>1. ASSUME session = None, NEW q \in Unread' PROVE q \in ended'
      BY <1>1, <2>1 DEF SignedInv, Unread, Reading
    <2>2. session' = None => Unread' \subseteq ended'
      BY <1>1, <2>1
    <2> QED
      BY <1>1, <2>2 DEF SignedInv
  <1>2. ASSUME UNCHANGED <<req, age>>, session' # None => session'.age <= age,
               session' = None => Unread \subseteq ended'
        PROVE  SignedInv'
    BY <1>2 DEF SignedInv, Unread
  <1>3. CASE UNCHANGED vars
    BY <1>2, <1>3 DEF vars, client, SignedInv
  <1>4. CASE Vencer
    <2>1. age' = age + 1 /\ UNCHANGED <<client, req>>
      BY <1>4 DEF Vencer
    <2>2. \A n \in Nat : n <= age => n <= age' /\ n < age'
      BY <1>0, <2>1
    <2>3. session' = session /\ req' = req /\ ended' = ended
      BY <2>1 DEF client
    <2>4. session' # None => session'.age <= age'
      BY <1>0, <1>a, <2>2, <2>3 DEF SignedInv
    <2>5. ASSUME NEW r \in Request, req'[r].pc \in Reading
          PROVE  /\ req'[r].tok.age <= age'
                 /\ req'[r].pc = "401" => req'[r].tok.age < age'
                 /\ req'[r].again => req'[r].tok.age = req'[r].sent
      <3>1. req[r].tok.age \in Nat /\ req[r].tok.age <= age
        BY <1>b, <2>3, <2>5 DEF SignedInv
      <3>2. req[r].tok.age <= age' /\ req[r].tok.age < age'
        BY <2>2, <3>1
      <3> QED
        BY <2>3, <2>5, <3>2 DEF SignedInv
    <2> QED
      BY <2>3, <2>4, <2>5 DEF SignedInv, Unread
  <1>5. CASE logout
    BY <1>2, <1>5 DEF logout, SessionStep
  <1>6. CASE Register \/ Timer \/ \E u \in User : Login(u)
    BY <1>2, <1>6 DEF Register, Timer, Login, SessionStep, SignedInv
  <1>7. CASE Token
    <2>1. /\ UNCHANGED <<req, age, ended>>
          /\ \/ session' = session
             \/ /\ session' = issue_pair(signIn.user, OwnerScopes)
                /\ session' \in Pairs
      <3>1. signIn.user \in User
        BY <1>7 DEF Token, TypeOK
      <3>2. issue_pair(signIn.user, OwnerScopes) \in Pairs
        BY <1>0, <3>1 DEF issue_pair, Pairs, Claims
      <3> QED
        BY <1>7, <3>2 DEF Token, SessionStep
    <2>2. issue_pair(signIn.user, OwnerScopes).age = age
      BY DEF issue_pair
    <2>3. age <= age
      BY <1>0
    <2>4. session' # None => session'.age <= age
      BY <2>1, <2>2, <2>3 DEF SignedInv
    <2>5. session' = None => Unread \subseteq ended'
      BY <1>a, <2>1 DEF SignedInv
    <2> QED
      BY <1>2, <2>1, <2>4, <2>5
  <1>8. CASE RenewalFails
    <2>1. /\ req' = [r \in Request |-> IF r \in Waiting THEN Refused ELSE req[r]]
          /\ session' = None /\ ended' = ended \cup Unread /\ age' = age
      BY <1>8 DEF RenewalFails, SessionStep
    <2>2. \A r \in Request : req'[r] = req[r] \/ req'[r].pc \notin Reading
      BY <2>1, OverHeld DEF Reading
    <2>3. Unread' \subseteq Unread
      BY <2>2 DEF Unread, Reading
    <2> QED
      BY <2>1, <2>2, <2>3 DEF SignedInv
  <1>9. CASE RenewalSucceeds
    <2>1. /\ req' = [r \in Request |-> IF r \in Waiting THEN Send([req[r] EXCEPT !.again = TRUE], session')
                                       ELSE req[r]]
          /\ session' = refresh(emCurso) /\ age' = age
      BY <1>9 DEF RenewalSucceeds, SessionStep
    <2>2. session' \in Pairs /\ session'.age = age
      BY <1>0, <1>9, <2>1, RefreshType DEF RenewalSucceeds
    <2>3. ASSUME NEW r \in Request, NEW token \in Pairs, r \in Waiting
          PROVE  LET sent == Send([req[r] EXCEPT !.again = TRUE], token) IN
                 sent.pc = "sent" /\ sent.tok = token /\ sent.sent = age
      <3>1. req[r] \in Asking
        BY <2>3, Shapes DEF Waiting
      <3> QED
        BY <3>1 DEF Send, Asking
    <2>4. ASSUME NEW r \in Request, r \in Waiting
          PROVE  req'[r].pc = "sent" /\ req'[r].tok = session' /\ req'[r].sent = age
      BY <2>1, <2>2, <2>3, <2>4
    <2>5. \A r \in Request : r \notin Waiting => req'[r] = req[r]
      BY <2>1
    <2> QED
      BY <1>0, <1>a, <2>1, <2>2, <2>4, <2>5 DEF SignedInv
  <1>10. ASSUME NEW r \in Request, invokeAPI(r) PROVE SignedInv'
    <2>1. PICK route \in {"read", "write", "upload"} :
            req' = [req EXCEPT ![r] = [pc |-> "sent", route |-> route, tok |-> session,
                                       sent |-> age, again |-> FALSE]]
      BY <1>10 DEF invokeAPI
    <2>2. session # None /\ ended' = ended \ {r} /\ UNCHANGED <<session, age>>
      BY <1>10 DEF invokeAPI
    <2>3. req'[r].pc = "sent" /\ req'[r].tok = session /\ ~req'[r].again
          /\ \A q \in Request \ {r} : req'[q] = req[q]
      BY <1>0, <2>1
    <2> QED
      BY <1>1, <2>2, <2>3 DEF SignedInv
  <1>11. ASSUME NEW r \in Request, NEW where \in Reading, req[r].pc \in Reading, Goto(r, where),
                UNCHANGED <<session, age, ended>>, where = "401" => req[r].tok.age < age
         PROVE  SignedInv'
    <2>1. req[r] \in Asking
      BY <1>11, Shapes DEF Reading
    <2>2. req'[r] = [req[r] EXCEPT !.pc = where] /\ \A q \in Request \ {r} : req'[q] = req[q]
      BY <1>11, <2>1, GotoType DEF Reading
    <2>3. /\ req'[r].pc = where /\ req'[r].tok = req[r].tok
          /\ req'[r].sent = req[r].sent /\ req'[r].again = req[r].again
      BY <2>1, <2>2 DEF Asking
    <2> QED
      BY <1>1, <1>11, <2>2, <2>3 DEF SignedInv
  <1>12. ASSUME NEW r \in Request, NEW new, End(r, new), new.pc \notin Reading,
                UNCHANGED <<session, age>>, ended \ {r} \subseteq ended'
         PROVE  SignedInv'
    <2>1. req'[r] = new /\ \A q \in Request \ {r} : req'[q] = req[q]
      BY <1>0, <1>12 DEF End
    <2> QED
      BY <1>1, <1>12, <2>1
  <1>13. ASSUME NEW r \in Request, require_scope(r) PROVE SignedInv'
    <2>1. req[r].pc = "sent" /\ UNCHANGED <<session, age>>
      BY <1>13 DEF require_scope
    <2>2. CASE ~verify(req[r].tok)
      <3>1. Goto(r, "401") /\ ended' = ended
        BY <1>13, <2>2 DEF require_scope
      <3>2. req[r].tok.age < age
        BY <1>0, <1>b, <2>1, <2>2 DEF SignedInv, Reading, verify
      <3> QED
        BY <1>11, <2>1, <3>1, <3>2 DEF Reading
    <2>3. CASE verify(req[r].tok)
      <3>1. /\ ended' = ended \ {r}
            /\ \/ End(r, Done)
               \/ \E op \in {"register", "pair", "revoke"}, d \in Device :
                    End(r, [pc |-> "handle", op |-> op, dev |-> d, user |-> req[r].tok.user])
        BY <1>13, <2>3 DEF require_scope
      <3>2. End(r, Done) => SignedInv'
        BY <1>12, <2>1, <3>1, OverHeld DEF Reading
      <3>3. ASSUME NEW op \in {"register", "pair", "revoke"}, NEW d \in Device,
                   End(r, [pc |-> "handle", op |-> op, dev |-> d, user |-> req[r].tok.user])
            PROVE  SignedInv'
        BY <1>12, <2>1, <3>1, <3>3 DEF Reading
      <3> QED
        BY <3>1, <3>2, <3>3
    <2> QED
      BY <2>2, <2>3
  <1>14. ASSUME NEW r \in Request, Unauthorized(r) PROVE SignedInv'
    <2>1. req[r].pc = "401" /\ UNCHANGED <<session, age, ended>>
      BY <1>14 DEF Unauthorized
    <2>2. Goto(r, "waiting") => SignedInv'
      BY <1>11, <2>1 DEF Reading
    <2>3. End(r, Refused) => SignedInv'
      BY <1>12, <2>1, OverHeld DEF Reading
    <2> QED
      BY <1>14, <2>2, <2>3 DEF Unauthorized
  <1>15. ASSUME NEW r \in Request, Handlers(r) PROVE SignedInv'
    <2>1. /\ req'[r].pc \notin Reading /\ \A q \in Request \ {r} : req'[q] = req[q]
          /\ UNCHANGED <<age, session, ended>>
      BY <1>15, HandlersBehind DEF client
    <2> QED
      BY <1>1, <2>1
  <1> QED
    BY <1>3, <1>4, <1>5, <1>6, <1>7, <1>8, <1>9, <1>10, <1>13, <1>14, <1>15, StepKinds DEF SessionMoves
LEMMA RefusedBy ==
    ASSUME TypeOK, Found, SignedInv, [Next]_vars,
           NEW r \in Request, req[r].pc # "refused", req'[r].pc = "refused"
    PROVE  \/ r \in ended' \/ req[r].route = "upload"
           \/ req[r].again /\ age > req[r].sent
  <1>0. req \in [Request -> Held] /\ age \in Nat
    BY DEF TypeOK
  <1>1. CASE UNCHANGED vars
    BY <1>1 DEF vars
  <1>2. CASE Vencer \/ logout \/ Register \/ Token \/ Timer \/ \E u \in User : Login(u)
    BY <1>2 DEF Vencer, logout, Register, Token, Timer, Login
  <1>3. CASE RenewalFails
    <2>1. /\ req' = [q \in Request |-> IF q \in Waiting THEN Refused ELSE req[q]]
          /\ ended' = ended \cup Unread
      BY <1>3 DEF RenewalFails
    <2>2. r \in Waiting
      BY <2>1
    <2> QED
      BY <2>1, <2>2 DEF Waiting, Unread
  <1>4. CASE RenewalSucceeds
    <2>1. /\ req' = [q \in Request |-> IF q \in Waiting THEN Send([req[q] EXCEPT !.again = TRUE], session')
                                       ELSE req[q]]
          /\ session' = refresh(emCurso) /\ session' \in Pairs
      BY <1>4, RefreshType DEF RenewalSucceeds, TypeOK, Pairs
    <2>2. ASSUME NEW token \in Pairs, r \in Waiting
          PROVE  Send([req[r] EXCEPT !.again = TRUE], token).pc = "sent"
      BY <2>2, Shapes DEF Waiting, Send, Asking
    <2> QED
      BY <2>1, <2>2
  <1>5. ASSUME NEW q \in Request, invokeAPI(q) PROVE FALSE
    <2>1. PICK route \in {"read", "write", "upload"} :
            req' = [req EXCEPT ![q] = [pc |-> "sent", route |-> route, tok |-> session,
                                       sent |-> age, again |-> FALSE]]
      BY <1>5 DEF invokeAPI
    <2> QED
      BY <1>0, <2>1
  <1>6. ASSUME NEW q \in Request, require_scope(q) PROVE FALSE
    <2>1. req[q] \in Asking
      BY <1>6, Shapes DEF require_scope
    <2>2. \/ Goto(q, "401") \/ End(q, Done)
          \/ \E op \in {"register", "pair", "revoke"}, d \in Device :
               End(q, [pc |-> "handle", op |-> op, dev |-> d, user |-> req[q].tok.user])
      BY <1>6 DEF require_scope
    <2>3. ~Goto(q, "401")
      <3>1. Goto(q, "401") => /\ req'[q] = [req[q] EXCEPT !.pc = "401"]
                             /\ \A p \in Request \ {q} : req'[p] = req[p]
        BY <2>1, GotoType
      <3> QED
        BY <2>1, <3>1 DEF Asking
    <2>4. ~End(q, Done)
      BY <1>0, OverHeld DEF End
    <2> QED
      BY <1>0, <2>2, <2>3, <2>4 DEF End
  <1>7. ASSUME NEW q \in Request, Unauthorized(q)
        PROVE  \/ r \in ended' \/ req[r].route = "upload"
               \/ req[r].again /\ age > req[r].sent
    <2>1. req[q] \in Asking /\ req[q].pc = "401" /\ ended' = ended
      BY <1>7, Shapes DEF Unauthorized
    <2>2. ~Goto(q, "waiting")
      <3>1. Goto(q, "waiting") => /\ req'[q] = [req[q] EXCEPT !.pc = "waiting"]
                                 /\ \A p \in Request \ {q} : req'[p] = req[p]
        BY <2>1, GotoType
      <3> QED
        BY <2>1, <3>1 DEF Asking
    <2>3. End(q, Refused) /\ (req[q].route = "upload" \/ req[q].again \/ session = None)
      BY <1>7, <2>2 DEF Unauthorized
    <2>4. q = r
      BY <1>0, <2>3 DEF End
    <2>5. CASE req[q].again
      <3>1. req[q].tok.age < age /\ req[q].tok.age = req[q].sent
        BY <2>1, <2>5 DEF SignedInv, Reading
      <3>2. req[q].sent \in Nat
        BY <2>1 DEF Asking
      <3> QED
        BY <1>0, <2>4, <2>5, <3>1, <3>2
    <2>6. CASE session = None
      <3>1. q \in Unread
        BY <2>1 DEF Unread
      <3> QED
        BY <2>1, <2>4, <2>6, <3>1 DEF SignedInv
    <2> QED
      BY <2>3, <2>4, <2>5, <2>6
  <1>8. ASSUME NEW q \in Request, Handlers(q) PROVE FALSE
    BY <1>8, HandlersBehind
  <1> QED
    BY <1>1, <1>2, <1>3, <1>4, <1>5, <1>6, <1>7, <1>8, StepKinds DEF SessionMoves

\* RefusedOnlyWhenSignedOut: a request that can be sent again is refused only
\* if the session ended while it was in flight, or its new token expired
\* before the node read it (http_renovavel.dart, session.dart).
THEOREM RenewalMends == Spec => RefusedOnlyWhenSignedOut
  <1>1. TypeOK /\ Found /\ SignedInv /\ [Next]_vars =>
          [\A r \in Request : req[r].pc # "refused" /\ req'[r].pc = "refused" /\ req[r].route # "upload" =>
              \/ r \in ended'
              \/ req[r].again /\ age > req[r].sent]_vars
    BY RefusedBy
  <1> QED
    BY InitTyped, InitFound, TypeStep, InitSigned, SignedStep, <1>1, PTL DEF Spec, RefusedOnlyWhenSignedOut

-----------------------------------------------------------------------------
(* The in-process bus.  An event has one place for a consumer: the queue   *)
(* of the worker of its key.  Every step does one of eleven things to an   *)
(* event and a consumer; the invariants follow from those, per event.      *)

IsBusy(p) == worker[p].stage \in Busy

\* What the types do not say.  A task holds an event of its worker while it
\* works, and publishes to consumers that accept what the handler publishes.
TaskOK(p, x) ==
    /\ x.stage \in Busy =>
         x.ev \in Events /\ x.attempt \in 1..MaxAttempts /\ p = Place(p[1], x.ev)
    /\ x.stage = "retry" => x.attempt < MaxAttempts
    /\ x.rest # {} =>
         /\ x.stage = "publish"
         /\ Child[<<p[1], x.ev>>] \in Events
         /\ x.rest \subseteq Targets(Child[<<p[1], x.ev>>])

CallOK(x) == IF x.rest = {} THEN x = NoCall ELSE x.ev \in Events

TasksOK ==
    /\ worker \in [Places -> Task]
    /\ \A p \in Places : TaskOK(p, worker[p])

\* An item is queued at the worker of its key.
QueuesOK ==
    /\ queue \in [Places -> Seq(Item)]
    /\ \A p \in Places : \A i \in 1..Len(queue[p]) : p = Place(p[1], queue[p][i].ev)

CallsOK ==
    /\ caller \in [Callers -> Call]
    /\ \A t \in Callers : CallOK(caller[t])

BooksOK ==
    /\ processed \in [Consumers -> SUBSET Events]
    /\ dead \in [Consumers -> Seq(Events)]
    /\ used \in [publications : [Events -> Nat], redrives : Nat, stops : Nat]
    /\ accepted \in [Consumers -> Seq(Events)]
    /\ returned \in Tally
    /\ tries \in Tally

LifeOK ==
    /\ bus \in {"off", "up", "draining", "cancelling"}
    /\ unfinished \in [Places -> Nat]
    /\ inflight \in [Consumers -> Int]
    /\ joined \subseteq Places
    /\ alive \subseteq Consumers

TInv == TasksOK /\ QueuesOK /\ CallsOK /\ BooksOK /\ LifeOK

-----------------------------------------------------------------------------
(* Places, queues and tasks.                                               *)

LEMMA PlaceType ==
    ASSUME NEW c \in Consumers, NEW e \in Events
    PROVE  /\ Place(c, e) \in Places /\ Place(c, e)[1] = c
           /\ Place(c, e) = <<c, WorkerOf[KeyOf[e]]>>
  <1>1. KeyOf[e] \in Keys
    BY BusAssumption
  <1>2. WorkerOf[KeyOf[e]] \in Workers
    BY <1>1, BusAssumption
  <1> QED
    BY <1>2 DEF Place, Places

LEMMA PlaceParts ==
    ASSUME NEW p \in Places
    PROVE  p[1] \in Consumers /\ p[2] \in Workers /\ p = <<p[1], p[2]>>
  BY DEF Places

\* The constants of the tasks are tasks.
LEMMA TaskTypes ==
    /\ Idle \in Task /\ Off \in Task /\ Dead \in Task
    /\ Idle.stage = "idle" /\ Off.stage = "off" /\ Dead.stage = "dead"
    /\ Idle.rest = {} /\ Off.rest = {} /\ Dead.rest = {}
    /\ NoCall \in Call /\ NoCall.ev = NoEvent /\ NoCall.rest = {}
  <1>1. MaxAttempts \in Nat /\ 0 \in 0..MaxAttempts
    BY BusAssumption
  <1>2. Idle \in Task
    BY <1>1 DEF Idle, Task, Busy
  <1>3. Off = [stage |-> "off", ev |-> NoEvent, attempt |-> 0, rest |-> {}]
    BY DEF Off, Idle
  <1>4. Dead = [stage |-> "dead", ev |-> NoEvent, attempt |-> 0, rest |-> {}]
    BY DEF Dead, Idle
  <1>5. Off \in Task /\ Dead \in Task
    BY <1>1, <1>3, <1>4 DEF Task, Busy
  <1> QED
    BY <1>2, <1>3, <1>4, <1>5 DEF Idle, NoCall, Call

\* A queue that takes an item at its end.
LEMMA Pushed ==
    ASSUME queue \in [Places -> Seq(Item)], NEW p \in Places, NEW x \in Item,
           queue' = [queue EXCEPT ![p] = Append(@, x)]
    PROVE  /\ queue' \in [Places -> Seq(Item)]
           /\ \A q \in Places : q # p => queue'[q] = queue[q]
           /\ Len(queue[p]) \in Nat /\ Len(queue'[p]) = Len(queue[p]) + 1
           /\ \A i \in 1..Len(queue[p]) : queue'[p][i] = queue[p][i]
           /\ queue'[p][Len(queue[p]) + 1] = x
  <1>1. queue[p] \in Seq(Item) /\ queue'[p] = Append(queue[p], x)
    OBVIOUS
  <1>2. /\ Append(queue[p], x) \in Seq(Item)
        /\ Len(queue[p]) \in Nat /\ Len(Append(queue[p], x)) = Len(queue[p]) + 1
        /\ \A i \in 1..Len(queue[p]) : Append(queue[p], x)[i] = queue[p][i]
        /\ Append(queue[p], x)[Len(queue[p]) + 1] = x
    BY <1>1
  <1>3. queue' \in [Places -> Seq(Item)]
    BY <1>1, <1>2
  <1> QED
    BY <1>1, <1>2, <1>3

\* A queue that loses its head.
LEMMA Popped ==
    ASSUME queue \in [Places -> Seq(Item)], NEW p \in Places, queue[p] # <<>>,
           queue' = [queue EXCEPT ![p] = Tail(@)]
    PROVE  /\ queue' \in [Places -> Seq(Item)]
           /\ \A q \in Places : q # p => queue'[q] = queue[q]
           /\ Len(queue[p]) \in Nat /\ Len(queue[p]) >= 1
           /\ Len(queue'[p]) = Len(queue[p]) - 1
           /\ \A i \in 1..Len(queue'[p]) : queue'[p][i] = queue[p][i + 1]
           /\ Head(queue[p]) = queue[p][1] /\ Head(queue[p]) \in Item
  <1>1. queue[p] \in Seq(Item) /\ queue'[p] = Tail(queue[p])
    OBVIOUS
  <1>2. /\ Tail(queue[p]) \in Seq(Item)
        /\ Len(queue[p]) \in Nat /\ Len(queue[p]) >= 1
        /\ Len(Tail(queue[p])) = Len(queue[p]) - 1
        /\ \A i \in 1..Len(Tail(queue[p])) : Tail(queue[p])[i] = queue[p][i + 1]
        /\ Head(queue[p]) = queue[p][1] /\ Head(queue[p]) \in Item
    BY <1>1
  <1>3. queue' \in [Places -> Seq(Item)]
    BY <1>1, <1>2
  <1> QED
    BY <1>1, <1>2, <1>3

\* Two sequences one after the other.
LEMMA Joining ==
    ASSUME NEW a \in Seq(Events), NEW b \in Seq(Events)
    PROVE  \E r \in Seq(Events) :
             /\ r = a \o b /\ Len(r) = Len(a) + Len(b)
             /\ \A j \in 1..Len(r) : r[j] = IF j <= Len(a) THEN a[j] ELSE b[j - Len(a)]
  <1>1. /\ a \o b \in Seq(Events) /\ Len(a \o b) = Len(a) + Len(b)
        /\ \A j \in 1..(Len(a) + Len(b)) :
             (a \o b)[j] = IF j <= Len(a) THEN a[j] ELSE b[j - Len(a)]
    BY ConcatProperties
  <1>2. PICK r : r = a \o b
    OBVIOUS
  <1>3. /\ r \in Seq(Events) /\ Len(r) = Len(a) + Len(b)
        /\ \A j \in 1..Len(r) : r[j] = IF j <= Len(a) THEN a[j] ELSE b[j - Len(a)]
    BY <1>1, <1>2
  <1> QED
    BY <1>2, <1>3

\* A letter taken out of a dead-letter queue.
LEMMA Removed ==
    ASSUME NEW s \in Seq(Events), NEW i \in 1..Len(s)
    PROVE  \E r \in Seq(Events) :
             /\ r = SubSeq(s, 1, i - 1) \o SubSeq(s, i + 1, Len(s))
             /\ Len(s) \in Nat /\ Len(r) = Len(s) - 1
             /\ \A j \in 1..Len(r) : r[j] = IF j < i THEN s[j] ELSE s[j + 1]
  <1>1. Len(s) \in Nat /\ i \in Nat /\ 1 <= i /\ i <= Len(s)
    OBVIOUS
  <1>a. PICK a : a = SubSeq(s, 1, i - 1)
    OBVIOUS
  <1>b. PICK b : b = SubSeq(s, i + 1, Len(s))
    OBVIOUS
  <1>2. /\ a \in Seq(Events) /\ Len(a) = i - 1
        /\ \A j \in 1..(i - 1) : a[j] = s[j]
    BY <1>1, <1>a
  <1>3. b \in Seq(Events) /\ Len(b) = Len(s) - i
    <2>1. CASE i = Len(s)
      <3>1. b = <<>>
        BY <1>1, <1>b, <2>1
      <3> QED
        BY <1>1, <2>1, <3>1
    <2>2. CASE i # Len(s)
      BY <1>1, <1>b, <2>2
    <2> QED
      BY <2>1, <2>2
  <1>4. \A j \in 1..(Len(s) - i) : b[j] = s[j + i]
    BY <1>1, <1>b
  <1>5. PICK r \in Seq(Events) :
          /\ r = a \o b /\ Len(r) = Len(a) + Len(b)
          /\ \A j \in 1..Len(r) : r[j] = IF j <= Len(a) THEN a[j] ELSE b[j - Len(a)]
    BY <1>2, <1>3, Joining
  <1>6. /\ r \in Seq(Events) /\ Len(r) = Len(s) - 1
        /\ \A j \in 1..Len(r) : r[j] = IF j <= i - 1 THEN a[j] ELSE b[j - (i - 1)]
    <2>2. Len(r) = Len(s) - 1
      BY <1>1, <1>2, <1>3, <1>5
    <2> QED
      BY <1>2, <1>5, <2>2
  <1>7. ASSUME NEW j \in 1..Len(r) PROVE r[j] = IF j < i THEN s[j] ELSE s[j + 1]
    <2>1. j \in Nat /\ 1 <= j /\ j <= Len(s) - 1
      BY <1>1, <1>6
    <2>2. CASE j < i
      <3>1. r[j] = a[j] /\ j \in 1..(i - 1)
        BY <1>1, <1>6, <2>1, <2>2
      <3> QED
        BY <1>2, <2>2, <3>1
    <2>3. CASE ~(j < i)
      <3>1. r[j] = b[j - (i - 1)]
        BY <1>1, <1>6, <2>1, <2>3
      <3>2. j - (i - 1) \in 1..(Len(s) - i) /\ (j - (i - 1)) + i = j + 1
        BY <1>1, <2>1, <2>3
      <3> QED
        BY <1>4, <2>3, <3>1, <3>2
    <2> QED
      BY <2>2, <2>3
  <1> QED
    BY <1>a, <1>b, <1>1, <1>5, <1>6, <1>7

-----------------------------------------------------------------------------
(* Types.                                                                  *)

CutOK == cut \in [Consumers -> SUBSET Events]

LEMMA TInvTypes == TInv /\ CutOK => BusTypeOK
  BY DEF TInv, CutOK, TasksOK, QueuesOK, CallsOK, BooksOK, LifeOK, BusTypeOK

LEMMA BusInitTyped == BusInit => TInv
  <1> SUFFICES ASSUME BusInit PROVE TInv
    OBVIOUS
  <1>1. TasksOK
    <2>1. \A p \in Places : worker[p] = Off
      BY DEF BusInit
    <2>2. \A p : TaskOK(p, Off)
      BY TaskTypes DEF TaskOK, Busy
    <2>3. worker \in [Places -> Task]
      BY TaskTypes DEF BusInit
    <2> QED
      BY <2>1, <2>2, <2>3 DEF TasksOK
  <1>2. QueuesOK
    BY DEF BusInit, QueuesOK
  <1>3. CallsOK
    BY TaskTypes DEF BusInit, CallsOK, CallOK
  <1>4. BooksOK
    <2>1. dead \in [Consumers -> Seq(Events)] /\ accepted \in [Consumers -> Seq(Events)]
      BY DEF BusInit
    <2>2. returned \in Tally /\ tries \in Tally
      BY DEF BusInit, Tally
    <2> QED
      BY <2>1, <2>2 DEF BusInit, BooksOK
  <1>5. LifeOK
    BY DEF BusInit, LifeOK
  <1> QED
    BY <1>1, <1>2, <1>3, <1>4, <1>5 DEF TInv

\* A task that becomes another.
LEMMA Becomes ==
    ASSUME TasksOK, NEW p \in Places, NEW x \in Task, TaskOK(p, x),
           worker' = [worker EXCEPT ![p] = x]
    PROVE  /\ TasksOK'
           /\ worker'[p] = x
           /\ \A q \in Places : q # p => worker'[q] = worker[q]
  <1>1. worker \in [Places -> Task] /\ \A q \in Places : TaskOK(q, worker[q])
    BY DEF TasksOK
  <1>2. worker' \in [Places -> Task] /\ worker'[p] = x
    BY <1>1
  <1>3. \A q \in Places : q # p => worker'[q] = worker[q]
    BY <1>1
  <1>4. ASSUME NEW q \in Places PROVE TaskOK(q, worker'[q])
    <2>1. CASE q = p
      BY <1>2, <2>1
    <2>2. CASE q # p
      BY <1>1, <1>3, <2>2
    <2> QED
      BY <2>1, <2>2
  <1> QED
    BY <1>2, <1>3, <1>4 DEF TasksOK

\* A task that goes on to another stage, or with other targets.
LEMMA Goes ==
    ASSUME TasksOK, NEW p \in Places, NEW stage \in Busy, NEW rest \in SUBSET Consumers,
           IsBusy(p),
           stage = "retry" => worker[p].attempt < MaxAttempts,
           rest # {} => /\ stage = "publish"
                        /\ Child[<<p[1], worker[p].ev>>] \in Events
                        /\ rest \subseteq Targets(Child[<<p[1], worker[p].ev>>]),
           worker' = [worker EXCEPT ![p].rest = rest, ![p].stage = stage]
    PROVE  /\ TasksOK'
           /\ worker'[p].stage = stage /\ worker'[p].rest = rest
           /\ worker'[p].ev = worker[p].ev /\ worker'[p].attempt = worker[p].attempt
           /\ \A q \in Places : q # p => worker'[q] = worker[q]
  <1>1. /\ worker \in [Places -> Task] /\ worker[p] \in Task
        /\ TaskOK(p, worker[p])
    BY DEF TasksOK
  <1>2. PICK x : x = [worker[p] EXCEPT !.rest = rest, !.stage = stage]
    OBVIOUS
  <1>3. /\ x \in Task /\ x.stage = stage /\ x.rest = rest
        /\ x.ev = worker[p].ev /\ x.attempt = worker[p].attempt
    BY <1>1, <1>2 DEF Task
  <1>4. worker' = [worker EXCEPT ![p] = x]
    BY <1>1, <1>2 DEF Task
  <1>5. TaskOK(p, x)
    BY <1>1, <1>3 DEF TaskOK, IsBusy
  <1> QED
    BY <1>3, <1>4, <1>5, Becomes

\* The end of a piece of work.
LEMMA Finished ==
    ASSUME TasksOK, LifeOK, NEW p \in Places, Finish(p)
    PROVE  /\ TasksOK'
           /\ worker'[p] \in {Idle, Dead}
           /\ \A q \in Places : q # p => worker'[q] = worker[q]
           /\ unfinished' \in [Places -> Nat]
           /\ inflight' \in [Consumers -> Int]
  <1>1. TaskOK(p, Idle) /\ TaskOK(p, Dead)
    BY TaskTypes DEF TaskOK, Busy
  <1>2. p[1] \in Consumers
    BY PlaceParts
  <1>3. inflight' \in [Consumers -> Int]
    BY <1>2 DEF Finish, LifeOK
  <1>4. CASE unfinished[p] > 0
    <2>1. worker' = [worker EXCEPT ![p] = Idle] /\ unfinished' = [unfinished EXCEPT ![p] = @ - 1]
      BY <1>4 DEF Finish
    <2>2. unfinished' \in [Places -> Nat]
      BY <1>4, <2>1 DEF LifeOK
    <2> QED
      BY <1>1, <1>3, <2>1, <2>2, Becomes, TaskTypes
  <1>5. CASE ~(unfinished[p] > 0)
    <2>1. worker' = [worker EXCEPT ![p] = Dead] /\ unfinished' = unfinished
      BY <1>5 DEF Finish
    <2> QED
      BY <1>1, <1>3, <2>1, Becomes, TaskTypes DEF LifeOK
  <1> QED
    BY <1>4, <1>5

\* put() when the queue has room.
LEMMA PutTyped ==
    ASSUME QueuesOK, LifeOK, NEW c \in Consumers, NEW e \in Events, NEW n \in 1..MaxAttempts,
           Put(c, e, n)
    PROVE  /\ QueuesOK' /\ unfinished' \in [Places -> Nat]
           /\ \A q \in Places : q # Place(c, e) => queue'[q] = queue[q]
           /\ Len(queue[Place(c, e)]) \in Nat
           /\ Len(queue'[Place(c, e)]) = Len(queue[Place(c, e)]) + 1
           /\ \A i \in 1..Len(queue[Place(c, e)]) : queue'[Place(c, e)][i] = queue[Place(c, e)][i]
           /\ queue'[Place(c, e)][Len(queue[Place(c, e)]) + 1] = [ev |-> e, attempt |-> n]
  <1>1. PICK p \in Places : p = Place(c, e) /\ p[1] = c
    BY PlaceType
  <1>2. PICK x \in Item : x = [ev |-> e, attempt |-> n] /\ x.ev = e
    <2>1. [ev |-> e, attempt |-> n] \in Item
      BY DEF Item
    <2> QED
      BY <2>1
  <1>3. queue' = [queue EXCEPT ![p] = Append(@, x)] /\ unfinished' = [unfinished EXCEPT ![p] = @ + 1]
    BY <1>1, <1>2 DEF Put
  <1>4. queue \in [Places -> Seq(Item)]
    BY DEF QueuesOK
  <1>5. /\ queue' \in [Places -> Seq(Item)]
        /\ \A q \in Places : q # p => queue'[q] = queue[q]
        /\ Len(queue[p]) \in Nat /\ Len(queue'[p]) = Len(queue[p]) + 1
        /\ \A i \in 1..Len(queue[p]) : queue'[p][i] = queue[p][i]
        /\ queue'[p][Len(queue[p]) + 1] = x
    BY <1>3, <1>4, Pushed
  <1>6. unfinished' \in [Places -> Nat]
    BY <1>3 DEF LifeOK
  <1>7. ASSUME NEW q \in Places, NEW i \in 1..Len(queue'[q]) PROVE q = Place(q[1], queue'[q][i].ev)
    <2>1. CASE q # p
      BY <1>5, <1>7, <2>1 DEF QueuesOK
    <2>2. CASE q = p /\ i = Len(queue[p]) + 1
      BY <1>1, <1>2, <1>5, <2>2
    <2>3. CASE q = p /\ i # Len(queue[p]) + 1
      <3>1. i \in 1..Len(queue[p])
        BY <1>5, <1>7, <2>3
      <3> QED
        BY <1>5, <2>3, <3>1 DEF QueuesOK
    <2> QED
      BY <2>1, <2>2, <2>3
  <1>8. QueuesOK'
    BY <1>5, <1>7 DEF QueuesOK
  <1> QED
    BY <1>1, <1>2, <1>5, <1>6, <1>8

\* get().
LEMMA GetTyped ==
    ASSUME QueuesOK, NEW p \in Places, queue[p] # <<>>, queue' = [queue EXCEPT ![p] = Tail(@)]
    PROVE  /\ QueuesOK'
           /\ \A q \in Places : q # p => queue'[q] = queue[q]
           /\ Len(queue[p]) \in Nat /\ Len(queue[p]) >= 1
           /\ Len(queue'[p]) = Len(queue[p]) - 1
           /\ \A i \in 1..Len(queue'[p]) : queue'[p][i] = queue[p][i + 1]
           /\ Head(queue[p]) = queue[p][1] /\ Head(queue[p]) \in Item
           /\ p = Place(p[1], Head(queue[p]).ev)
  <1>1. queue \in [Places -> Seq(Item)]
    BY DEF QueuesOK
  <1>2. /\ queue' \in [Places -> Seq(Item)]
        /\ \A q \in Places : q # p => queue'[q] = queue[q]
        /\ Len(queue[p]) \in Nat /\ Len(queue[p]) >= 1
        /\ Len(queue'[p]) = Len(queue[p]) - 1
        /\ \A i \in 1..Len(queue'[p]) : queue'[p][i] = queue[p][i + 1]
        /\ Head(queue[p]) = queue[p][1] /\ Head(queue[p]) \in Item
    BY <1>1, Popped
  <1>3. ASSUME NEW q \in Places, NEW i \in 1..Len(queue'[q]) PROVE q = Place(q[1], queue'[q][i].ev)
    <2>1. CASE q # p
      BY <1>2, <1>3, <2>1 DEF QueuesOK
    <2>2. CASE q = p
      <3>1. i + 1 \in 1..Len(queue[p])
        BY <1>2, <1>3, <2>2
      <3> QED
        BY <1>2, <2>2, <3>1 DEF QueuesOK
    <2> QED
      BY <2>1, <2>2
  <1>4. p = Place(p[1], queue[p][1].ev)
    BY <1>2 DEF QueuesOK
  <1>5. QueuesOK'
    BY <1>2, <1>3 DEF QueuesOK
  <1> QED
    BY <1>2, <1>4, <1>5

\* A call that becomes another.
LEMMA CallBecomes ==
    ASSUME CallsOK, NEW t \in Callers, NEW x \in Call, CallOK(x),
           caller' = [caller EXCEPT ![t] = x]
    PROVE  CallsOK' /\ caller'[t] = x /\ \A u \in Callers : u # t => caller'[u] = caller[u]
  BY DEF CallsOK

\* The counters of the bounds.
LEMMA Publishes ==
    ASSUME BooksOK, NEW e \in Events, used' = [used EXCEPT !.publications[e] = @ + 1]
    PROVE  /\ used' \in [publications : [Events -> Nat], redrives : Nat, stops : Nat]
           /\ used'.publications[e] = used.publications[e] + 1
           /\ \A f \in Events : f # e => used'.publications[f] = used.publications[f]
           /\ used'.redrives = used.redrives
  <1>1. /\ used \in [publications : [Events -> Nat], redrives : Nat, stops : Nat]
        /\ used.publications \in [Events -> Nat]
    BY DEF BooksOK
  <1>2. PICK f : f = [used.publications EXCEPT ![e] = used.publications[e] + 1]
    OBVIOUS
  <1>3. /\ f \in [Events -> Nat] /\ f[e] = used.publications[e] + 1
        /\ \A g \in Events : g # e => f[g] = used.publications[g]
    BY <1>1, <1>2
  <1>4. used' = [used EXCEPT !.publications = f]
    BY <1>2
  <1> QED
    BY <1>1, <1>3, <1>4

LEMMA Redrives ==
    ASSUME BooksOK, used' = [used EXCEPT !.redrives = @ + 1]
    PROVE  /\ used' \in [publications : [Events -> Nat], redrives : Nat, stops : Nat]
           /\ used'.publications = used.publications
           /\ used'.redrives = used.redrives + 1
           /\ used.redrives \in Nat
  <1>1. used \in [publications : [Events -> Nat], redrives : Nat, stops : Nat] /\ used.redrives \in Nat
    BY DEF BooksOK
  <1>2. PICK n \in Nat : n = used.redrives + 1
    BY <1>1
  <1>3. used' = [used EXCEPT !.redrives = n]
    BY <1>2
  <1> QED
    BY <1>1, <1>2, <1>3

LEMMA Stops ==
    ASSUME BooksOK, used' = [used EXCEPT !.stops = @ + 1]
    PROVE  /\ used' \in [publications : [Events -> Nat], redrives : Nat, stops : Nat]
           /\ used'.publications = used.publications
           /\ used'.redrives = used.redrives
  <1>1. used \in [publications : [Events -> Nat], redrives : Nat, stops : Nat] /\ used.stops \in Nat
    BY DEF BooksOK
  <1>2. PICK n \in Nat : n = used.stops + 1
    BY <1>1
  <1>3. used' = [used EXCEPT !.stops = n]
    BY <1>2
  <1> QED
    BY <1>1, <1>2, <1>3

\* Tallies that differ at one event of one consumer.
OthersSame(a, b, c, e) ==
    \A d \in Consumers, f \in Events : d # c \/ f # e => b[d][f] = a[d][f]

\* A tally that counts one more, or starts again.
LEMMA Tallied ==
    ASSUME NEW a \in Tally, NEW c \in Consumers, NEW e \in Events, NEW n \in Nat
    PROVE  \E b \in Tally :
             /\ b = [a EXCEPT ![c][e] = n] /\ b[c][e] = n
             /\ OthersSame(a, b, c, e)
  <1>1. a \in [Consumers -> [Events -> Nat]] /\ a[c] \in [Events -> Nat]
    BY DEF Tally
  <1>2. PICK g : g = [a[c] EXCEPT ![e] = n]
    OBVIOUS
  <1>3. g \in [Events -> Nat] /\ g[e] = n /\ \A f \in Events : f # e => g[f] = a[c][f]
    BY <1>1, <1>2
  <1>4. PICK b : b = [a EXCEPT ![c] = g]
    OBVIOUS
  <1>5. b = [a EXCEPT ![c][e] = n]
    BY <1>2, <1>4
  <1>6. /\ b \in Tally /\ b[c][e] = n
        /\ OthersSame(a, b, c, e)
    BY <1>1, <1>3, <1>4 DEF Tally, OthersSame
  <1> QED
    BY <1>5, <1>6

LEMMA Accepts1 ==
    ASSUME NEW a \in [Consumers -> Seq(Events)], NEW c \in Consumers, NEW e \in Events,
           NEW b, b = [a EXCEPT ![c] = Append(@, e)]
    PROVE  /\ b \in [Consumers -> Seq(Events)]
           /\ b[c] = Append(a[c], e)
           /\ Len(a[c]) \in Nat /\ Len(b[c]) = Len(a[c]) + 1
           /\ \A i \in 1..Len(a[c]) : b[c][i] = a[c][i]
           /\ b[c][Len(a[c]) + 1] = e
           /\ \A d \in Consumers : d # c => b[d] = a[d]
  <1>1. a[c] \in Seq(Events) /\ b[c] = Append(a[c], e)
    OBVIOUS
  <1>2. /\ Append(a[c], e) \in Seq(Events)
        /\ Len(a[c]) \in Nat /\ Len(Append(a[c], e)) = Len(a[c]) + 1
        /\ \A i \in 1..Len(a[c]) : Append(a[c], e)[i] = a[c][i]
        /\ Append(a[c], e)[Len(a[c]) + 1] = e
    BY <1>1
  <1>3. b \in [Consumers -> Seq(Events)]
    BY <1>1, <1>2
  <1>4. \A d \in Consumers : d # c => b[d] = a[d]
    OBVIOUS
  <1> QED
    BY <1>1, <1>2, <1>3, <1>4

-----------------------------------------------------------------------------
(* What each action does, and that it keeps the types.                     *)

LEMMA DoPublish ==
    ASSUME TInv, NEW t \in Callers, NEW e \in Events, CallPublish(t, e)
    PROVE  /\ TInv'
           /\ caller[t] = NoCall
           /\ caller'[t].rest = Targets(e)
           /\ Targets(e) # {} => caller'[t].ev = e
           /\ \A u \in Callers : u # t => caller'[u] = caller[u]
           /\ used'.publications[e] = used.publications[e] + 1
           /\ \A f \in Events : f # e => used'.publications[f] = used.publications[f]
           /\ used'.redrives = used.redrives
           /\ UNCHANGED <<runVars, processed, dead, lifeVars, ghostVars>>
  <1>0. TasksOK /\ QueuesOK /\ CallsOK /\ BooksOK /\ LifeOK
    BY DEF TInv
  <1>1. PICK x : x = IF Targets(e) = {} THEN NoCall ELSE [ev |-> e, rest |-> Targets(e)]
    OBVIOUS
  <1>2. Targets(e) \in SUBSET Consumers
    BY DEF Targets
  <1>3. x \in Call /\ CallOK(x) /\ x.rest = Targets(e) /\ (Targets(e) # {} => x.ev = e)
    <2>1. CASE Targets(e) = {}
      BY <1>1, <2>1, TaskTypes DEF CallOK
    <2>2. CASE Targets(e) # {}
      BY <1>1, <1>2, <2>2 DEF CallOK, Call
    <2> QED
      BY <2>1, <2>2
  <1>4. /\ caller[t] = NoCall
        /\ caller' = [caller EXCEPT ![t] = x]
        /\ used' = [used EXCEPT !.publications[e] = @ + 1]
        /\ UNCHANGED <<runVars, processed, dead, lifeVars, ghostVars>>
    BY <1>1 DEF CallPublish
  <1>5. CallsOK' /\ caller'[t] = x /\ \A u \in Callers : u # t => caller'[u] = caller[u]
    BY <1>0, <1>3, <1>4, CallBecomes
  <1>6. /\ used' \in [publications : [Events -> Nat], redrives : Nat, stops : Nat]
        /\ used'.publications[e] = used.publications[e] + 1
        /\ \A f \in Events : f # e => used'.publications[f] = used.publications[f]
        /\ used'.redrives = used.redrives
    BY <1>0, <1>4, Publishes
  <1>7. TasksOK' /\ QueuesOK' /\ LifeOK'
    BY <1>0, <1>4 DEF TasksOK, QueuesOK, LifeOK, runVars, lifeVars
  <1>8. BooksOK'
    BY <1>0, <1>4, <1>6 DEF BooksOK, ghostVars
  <1> QED
    BY <1>3, <1>4, <1>5, <1>6, <1>7, <1>8 DEF TInv

\* What a put of a first attempt adds to the place of an event.
PutAt(c, e) ==
    /\ \A q \in Places : q # Place(c, e) => queue'[q] = queue[q]
    /\ Len(queue[Place(c, e)]) \in Nat
    /\ Len(queue'[Place(c, e)]) = Len(queue[Place(c, e)]) + 1
    /\ \A i \in 1..Len(queue[Place(c, e)]) : queue'[Place(c, e)][i] = queue[Place(c, e)][i]
    /\ queue'[Place(c, e)][Len(queue[Place(c, e)]) + 1] = [ev |-> e, attempt |-> 1]
    /\ unfinished' = [unfinished EXCEPT ![Place(c, e)] = @ + 1]
    /\ Len(accepted[c]) \in Nat /\ Len(accepted'[c]) = Len(accepted[c]) + 1
    /\ \A i \in 1..Len(accepted[c]) : accepted'[c][i] = accepted[c][i]
    /\ accepted'[c][Len(accepted[c]) + 1] = e
    /\ \A d \in Consumers : d # c => accepted'[d] = accepted[d]

LEMMA PutFirst ==
    ASSUME QueuesOK, LifeOK, BooksOK, NEW c \in Consumers, NEW e \in Events, Put(c, e, 1),
           accepted' = [accepted EXCEPT ![c] = Append(@, e)]
    PROVE  /\ QueuesOK' /\ unfinished' \in [Places -> Nat]
           /\ accepted' \in [Consumers -> Seq(Events)]
           /\ PutAt(c, e)
  <1>1. 1 \in 1..MaxAttempts
    BY BusAssumption
  <1>2. accepted \in [Consumers -> Seq(Events)]
    BY DEF BooksOK
  <1>3. unfinished' = [unfinished EXCEPT ![Place(c, e)] = @ + 1]
    BY DEF Put
  <1>4. /\ QueuesOK' /\ unfinished' \in [Places -> Nat]
        /\ \A q \in Places : q # Place(c, e) => queue'[q] = queue[q]
        /\ Len(queue[Place(c, e)]) \in Nat
        /\ Len(queue'[Place(c, e)]) = Len(queue[Place(c, e)]) + 1
        /\ \A i \in 1..Len(queue[Place(c, e)]) : queue'[Place(c, e)][i] = queue[Place(c, e)][i]
        /\ queue'[Place(c, e)][Len(queue[Place(c, e)]) + 1] = [ev |-> e, attempt |-> 1]
    BY <1>1, PutTyped
  <1>5. /\ accepted' \in [Consumers -> Seq(Events)]
        /\ Len(accepted[c]) \in Nat /\ Len(accepted'[c]) = Len(accepted[c]) + 1
        /\ \A i \in 1..Len(accepted[c]) : accepted'[c][i] = accepted[c][i]
        /\ accepted'[c][Len(accepted[c]) + 1] = e
        /\ \A d \in Consumers : d # c => accepted'[d] = accepted[d]
    BY <1>2, Accepts1
  <1> QED
    BY <1>3, <1>4, <1>5 DEF PutAt

LEMMA DoCallerPut ==
    ASSUME TInv, NEW t \in Callers, CallerPut(t)
    PROVE  \E c \in Consumers : \E e \in Events :
             /\ TInv'
             /\ e = caller[t].ev /\ c \in caller[t].rest
             /\ PutAt(c, e)
             /\ caller'[t].rest = caller[t].rest \ {c}
             /\ caller'[t].rest # {} => caller'[t].ev = e
             /\ \A u \in Callers : u # t => caller'[u] = caller[u]
             /\ UNCHANGED <<inflight, worker, processed, dead, lifeVars, used, returned, tries>>
  <1>0. TasksOK /\ QueuesOK /\ CallsOK /\ BooksOK /\ LifeOK
    BY DEF TInv
  <1>1. PICK c \in Consumers :
          /\ NextTarget(c, caller[t].rest)
          /\ Put(c, caller[t].ev, 1)
          /\ accepted' = [accepted EXCEPT ![c] = Append(@, caller[t].ev)]
          /\ caller' = [caller EXCEPT ![t] = IF caller[t].rest \ {c} = {} THEN NoCall
                            ELSE [ev |-> caller[t].ev, rest |-> caller[t].rest \ {c}]]
          /\ UNCHANGED <<inflight, worker, processed, dead, lifeVars, used, returned, tries>>
    BY DEF CallerPut
  <1>2. c \in caller[t].rest /\ caller[t] \in Call /\ CallOK(caller[t])
    BY <1>0, <1>1 DEF NextTarget, CallsOK
  <1>3. PICK e \in Events : e = caller[t].ev
    BY <1>2 DEF CallOK
  <1>4. PICK x : x = IF caller[t].rest \ {c} = {} THEN NoCall ELSE [ev |-> e, rest |-> caller[t].rest \ {c}]
    OBVIOUS
  <1>5. caller' = [caller EXCEPT ![t] = x]
    BY <1>1, <1>3, <1>4
  <1>6. /\ x \in Call /\ CallOK(x) /\ x.rest = caller[t].rest \ {c}
        /\ x.rest # {} => x.ev = e
    <2>1. CASE caller[t].rest \ {c} = {}
      BY <1>4, <2>1, TaskTypes DEF CallOK
    <2>2. CASE caller[t].rest \ {c} # {}
      <3>1. caller[t].rest \ {c} \in SUBSET Consumers
        BY <1>2, <2>2 DEF Call
      <3> QED
        BY <1>4, <2>2, <3>1 DEF CallOK, Call
    <2> QED
      BY <2>1, <2>2
  <1>7. CallsOK' /\ caller'[t] = x /\ \A u \in Callers : u # t => caller'[u] = caller[u]
    BY <1>0, <1>5, <1>6, CallBecomes
  <1>8. /\ QueuesOK' /\ unfinished' \in [Places -> Nat]
        /\ accepted' \in [Consumers -> Seq(Events)] /\ PutAt(c, e)
    BY <1>0, <1>1, <1>3, PutFirst
  <1>9. TasksOK' /\ LifeOK' /\ BooksOK'
    BY <1>0, <1>1, <1>8 DEF TasksOK, LifeOK, BooksOK, lifeVars
  <1> QED
    BY <1>1, <1>2, <1>3, <1>6, <1>7, <1>8, <1>9 DEF TInv

\* A letter e at position i taken out of the dead-letter queue of c.
RedriveAt(t, c, i, e) ==
    /\ e = dead[c][i]
    /\ caller[t] = NoCall
    /\ caller'[t] = [ev |-> e, rest |-> {c}]
    /\ \A u \in Callers : u # t => caller'[u] = caller[u]
    /\ Len(dead[c]) \in Nat /\ Len(dead'[c]) = Len(dead[c]) - 1
    /\ \A j \in 1..Len(dead'[c]) :
         dead'[c][j] = IF j < i THEN dead[c][j] ELSE dead[c][j + 1]
    /\ \A d \in Consumers : d # c => dead'[d] = dead[d]
    /\ processed' = [processed EXCEPT ![c] = @ \ {e}]
    /\ tries'[c][e] = 0
    /\ OthersSame(tries, tries', c, e)
    /\ used'.publications = used.publications
    /\ used'.redrives = used.redrives + 1

LEMMA DoRedrive ==
    ASSUME TInv, NEW t \in Callers, NEW c \in Consumers, Redrive(t, c)
    PROVE  /\ TInv'
           /\ UNCHANGED <<runVars, lifeVars, accepted, returned>>
           /\ \E i \in 1..Len(dead[c]), e \in Events : RedriveAt(t, c, i, e)
  <1>0. TasksOK /\ QueuesOK /\ CallsOK /\ BooksOK /\ LifeOK
    BY DEF TInv
  <1>1. PICK i \in 1..Len(dead[c]) :
          /\ caller[t] = NoCall
          /\ used' = [used EXCEPT !.redrives = @ + 1]
          /\ dead' = [dead EXCEPT ![c] = SubSeq(@, 1, i - 1) \o SubSeq(@, i + 1, Len(@))]
          /\ processed' = [processed EXCEPT ![c] = @ \ {dead[c][i]}]
          /\ tries' = [tries EXCEPT ![c][dead[c][i]] = 0]
          /\ caller' = [caller EXCEPT ![t] = [ev |-> dead[c][i], rest |-> {c}]]
          /\ UNCHANGED <<runVars, lifeVars, accepted, returned>>
    BY DEF Redrive
  <1>2. dead[c] \in Seq(Events) /\ dead \in [Consumers -> Seq(Events)]
    BY <1>0 DEF BooksOK
  <1>3. PICK e \in Events : e = dead[c][i]
    BY <1>2
  <1>4. PICK r \in Seq(Events) :
          /\ r = SubSeq(dead[c], 1, i - 1) \o SubSeq(dead[c], i + 1, Len(dead[c]))
          /\ Len(dead[c]) \in Nat /\ Len(r) = Len(dead[c]) - 1
          /\ \A j \in 1..Len(r) : r[j] = IF j < i THEN dead[c][j] ELSE dead[c][j + 1]
    BY <1>2, Removed
  <1>5. dead' = [dead EXCEPT ![c] = r]
    BY <1>1, <1>2, <1>4
  <1>6. /\ dead' \in [Consumers -> Seq(Events)] /\ dead'[c] = r
        /\ \A d \in Consumers : d # c => dead'[d] = dead[d]
    BY <1>2, <1>5
  <1>7. PICK x : x = [ev |-> e, rest |-> {c}]
    OBVIOUS
  <1>8. x \in Call /\ CallOK(x) /\ caller' = [caller EXCEPT ![t] = x]
    BY <1>1, <1>3, <1>7 DEF Call, CallOK
  <1>9. CallsOK' /\ caller'[t] = x /\ \A u \in Callers : u # t => caller'[u] = caller[u]
    BY <1>0, <1>8, CallBecomes
  <1>10. /\ tries' \in Tally /\ tries'[c][e] = 0
         /\ OthersSame(tries, tries', c, e)
    <2>1. tries \in Tally /\ 0 \in Nat
      BY <1>0 DEF BooksOK
    <2>2. PICK b \in Tally :
            /\ b = [tries EXCEPT ![c][e] = 0] /\ b[c][e] = 0
            /\ OthersSame(tries, b, c, e)
      BY <2>1, Tallied
    <2>3. tries' = b
      BY <1>1, <1>3, <2>2
    <2> QED
      BY <2>2, <2>3
  <1>11. /\ used' \in [publications : [Events -> Nat], redrives : Nat, stops : Nat]
         /\ used'.publications = used.publications
         /\ used'.redrives = used.redrives + 1
    BY <1>0, <1>1, Redrives
  <1>12. processed' = [processed EXCEPT ![c] = @ \ {e}]
    BY <1>1, <1>3
  <1>13. processed' \in [Consumers -> SUBSET Events]
    BY <1>0, <1>12 DEF BooksOK
  <1>14. BooksOK'
    BY <1>0, <1>1, <1>6, <1>10, <1>11, <1>13 DEF BooksOK
  <1>15. TasksOK' /\ QueuesOK' /\ LifeOK'
    BY <1>0, <1>1 DEF TasksOK, QueuesOK, LifeOK, runVars, lifeVars
  <1>16. TInv' /\ caller'[t] = [ev |-> e, rest |-> {c}]
    BY <1>1, <1>7, <1>9, <1>14, <1>15 DEF TInv
  <1>17. /\ Len(dead[c]) \in Nat /\ Len(dead'[c]) = Len(dead[c]) - 1
         /\ \A j \in 1..Len(dead'[c]) :
              dead'[c][j] = IF j < i THEN dead[c][j] ELSE dead[c][j + 1]
    BY <1>4, <1>6
  <1>18. RedriveAt(t, c, i, e)
    BY <1>1, <1>3, <1>6, <1>9, <1>10, <1>11, <1>12, <1>16, <1>17 DEF RedriveAt
  <1> QED
    BY <1>1, <1>16, <1>18

\* What a get adds to a queue: the items move up.
TakenAt(p) ==
    /\ \A q \in Places : q # p => queue'[q] = queue[q]
    /\ Len(queue[p]) \in Nat /\ Len(queue[p]) >= 1
    /\ Len(queue'[p]) = Len(queue[p]) - 1
    /\ \A i \in 1..Len(queue'[p]) : queue'[p][i] = queue[p][i + 1]

OtherTasks(p) == \A q \in Places : q # p => worker'[q] = worker[q]

LEMMA DoTake ==
    ASSUME TInv, NEW p \in Places, Take(p)
    PROVE  /\ TInv' /\ TakenAt(p) /\ OtherTasks(p)
           /\ worker[p].stage = "idle" /\ worker'[p].stage = "handler"
           /\ queue[p][1] \in Item
           /\ worker'[p].ev = queue[p][1].ev /\ worker'[p].attempt = queue[p][1].attempt
           /\ worker'[p].rest = {}
           /\ queue[p][1].ev \notin processed[p[1]]
           /\ UNCHANGED <<unfinished, processed, dead, lifeVars, caller, used, ghostVars>>
  <1>0. TasksOK /\ QueuesOK /\ CallsOK /\ BooksOK /\ LifeOK
    BY DEF TInv
  <1>1. PICK y : y = Head(queue[p])
    OBVIOUS
  <1>2. /\ worker[p].stage = "idle" /\ queue[p] # <<>> /\ y.ev \notin processed[p[1]]
        /\ queue' = [queue EXCEPT ![p] = Tail(@)]
        /\ inflight' = [inflight EXCEPT ![p[1]] = @ + 1]
        /\ worker' = [worker EXCEPT ![p] = [stage |-> "handler", ev |-> y.ev,
                                            attempt |-> y.attempt, rest |-> {}]]
        /\ UNCHANGED <<unfinished, processed, dead, lifeVars, caller, used, ghostVars>>
    BY <1>1 DEF Take, At
  <1>3. /\ QueuesOK' /\ TakenAt(p)
        /\ y = queue[p][1] /\ y \in Item /\ p = Place(p[1], y.ev)
    BY <1>0, <1>1, <1>2, GetTyped DEF TakenAt
  <1>4. PICK x : x = [stage |-> "handler", ev |-> y.ev, attempt |-> y.attempt, rest |-> {}]
    OBVIOUS
  <1>5. x \in Task /\ TaskOK(p, x)
    <2>1. y.ev \in Events /\ y.attempt \in 1..MaxAttempts /\ MaxAttempts \in Nat
      BY <1>3, BusAssumption DEF Item
    <2>2. y.attempt \in 0..MaxAttempts
      BY <2>1
    <2> QED
      BY <1>3, <1>4, <2>1, <2>2 DEF Task, TaskOK, Busy
  <1>6. worker' = [worker EXCEPT ![p] = x]
    BY <1>2, <1>4
  <1>7. TasksOK' /\ worker'[p] = x /\ OtherTasks(p)
    BY <1>0, <1>5, <1>6, Becomes DEF OtherTasks
  <1>8. LifeOK'
    <2>1. p[1] \in Consumers
      BY PlaceParts
    <2>2. inflight' \in [Consumers -> Int]
      BY <1>0, <1>2, <2>1 DEF LifeOK
    <2> QED
      BY <1>0, <1>2, <2>2 DEF LifeOK, lifeVars
  <1>9. CallsOK' /\ BooksOK'
    BY <1>0, <1>2 DEF CallsOK, BooksOK, ghostVars
  <1> QED
    BY <1>2, <1>3, <1>4, <1>7, <1>8, <1>9 DEF TInv

LEMMA DoTakeProcessed ==
    ASSUME TInv, NEW p \in Places, TakeProcessed(p)
    PROVE  /\ TInv' /\ TakenAt(p) /\ OtherTasks(p)
           /\ worker[p].stage = "idle" /\ ~IsBusy(p)' /\ worker'[p].rest = {}
           /\ queue[p][1] \in Item
           /\ queue[p][1].ev \in processed[p[1]]
           /\ IF unfinished[p] > 0
              THEN /\ unfinished' = [unfinished EXCEPT ![p] = @ - 1]
                   /\ worker' = worker
              ELSE worker'[p].stage = "dead" /\ unfinished' = unfinished
           /\ UNCHANGED <<inflight, processed, dead, lifeVars, caller, used, ghostVars>>
  <1>0. TasksOK /\ QueuesOK /\ CallsOK /\ BooksOK /\ LifeOK
    BY DEF TInv
  <1>1. PICK y : y = Head(queue[p])
    OBVIOUS
  <1>2. /\ worker[p].stage = "idle" /\ queue[p] # <<>> /\ y.ev \in processed[p[1]]
        /\ queue' = [queue EXCEPT ![p] = Tail(@)]
        /\ IF unfinished[p] > 0
           THEN /\ unfinished' = [unfinished EXCEPT ![p] = @ - 1]
                /\ UNCHANGED worker
           ELSE /\ worker' = [worker EXCEPT ![p] = Dead]
                /\ UNCHANGED unfinished
        /\ UNCHANGED <<inflight, processed, dead, lifeVars, caller, used, ghostVars>>
    BY <1>1 DEF TakeProcessed, At
  <1>3. /\ QueuesOK' /\ TakenAt(p)
        /\ y = queue[p][1] /\ y \in Item
    BY <1>0, <1>1, <1>2, GetTyped DEF TakenAt
  <1>4. /\ TasksOK' /\ OtherTasks(p) /\ unfinished' \in [Places -> Nat]
        /\ ~IsBusy(p)' /\ worker'[p].rest = {}
        /\ unfinished[p] > 0 \/ worker'[p].stage = "dead"
    <2>1. CASE unfinished[p] > 0
      <3>1. worker' = worker /\ unfinished' = [unfinished EXCEPT ![p] = @ - 1]
        BY <1>2, <2>1
      <3>2. unfinished' \in [Places -> Nat]
        BY <1>0, <2>1, <3>1 DEF LifeOK
      <3>3. TasksOK'
        BY <1>0, <3>1 DEF TasksOK
      <3>4. worker[p].rest = {}
        BY <1>0, <1>2 DEF TasksOK, TaskOK
      <3> QED
        BY <1>2, <2>1, <3>1, <3>2, <3>3, <3>4 DEF OtherTasks, IsBusy, Busy
    <2>2. CASE ~(unfinished[p] > 0)
      <3>1. worker' = [worker EXCEPT ![p] = Dead] /\ unfinished' = unfinished
        BY <1>2, <2>2
      <3>2. TaskOK(p, Dead)
        BY TaskTypes DEF TaskOK, Busy
      <3>3. TasksOK' /\ worker'[p] = Dead /\ OtherTasks(p)
        BY <1>0, <3>1, <3>2, TaskTypes, Becomes DEF OtherTasks
      <3> QED
        BY <1>0, <3>1, <3>3, TaskTypes DEF IsBusy, Busy, LifeOK
    <2> QED
      BY <2>1, <2>2
  <1>5. LifeOK' /\ CallsOK' /\ BooksOK'
    BY <1>0, <1>2, <1>4 DEF CallsOK, BooksOK, LifeOK, lifeVars, ghostVars
  <1>6. IF unfinished[p] > 0
        THEN /\ unfinished' = [unfinished EXCEPT ![p] = @ - 1]
             /\ worker' = worker
        ELSE worker'[p].stage = "dead" /\ unfinished' = unfinished
    BY <1>2, <1>4
  <1> QED
    BY <1>2, <1>3, <1>4, <1>5, <1>6 DEF TInv

LEMMA DoHandlerPublishes ==
    ASSUME TInv, NEW p \in Places, HandlerPublishes(p)
    PROVE  \E e \in Events :
             /\ TInv' /\ OtherTasks(p)
             /\ e = Child[<<p[1], worker[p].ev>>]
             /\ worker[p].stage = "handler" /\ worker'[p].stage = "publish"
             /\ worker'[p].ev = worker[p].ev /\ worker'[p].attempt = worker[p].attempt
             /\ worker'[p].rest = Targets(e)
             /\ used'.publications[e] = used.publications[e] + 1
             /\ \A f \in Events : f # e => used'.publications[f] = used.publications[f]
             /\ used'.redrives = used.redrives
             /\ UNCHANGED <<queue, unfinished, inflight, processed, dead, lifeVars, caller, ghostVars>>
  <1>0. TasksOK /\ QueuesOK /\ CallsOK /\ BooksOK /\ LifeOK
    BY DEF TInv
  <1>1. PICK e : e = Child[<<p[1], worker[p].ev>>]
    OBVIOUS
  <1>2. /\ worker[p].stage = "handler" /\ e # NoEvent
        /\ used' = [used EXCEPT !.publications[e] = @ + 1]
        /\ worker' = [worker EXCEPT ![p].stage = "publish", ![p].rest = Targets(e)]
        /\ UNCHANGED <<queue, unfinished, inflight, processed, dead, lifeVars, caller, ghostVars>>
    BY <1>1 DEF HandlerPublishes, At
  <1>3. e \in Events
    <2>1. worker[p].ev \in Events /\ p[1] \in Consumers
      BY <1>0, <1>2, PlaceParts DEF TasksOK, TaskOK, Busy
    <2> QED
      BY <1>1, <1>2, <2>1, BusAssumption
  <1>4. PICK r : r = Targets(e)
    OBVIOUS
  <1>5. r \in SUBSET Consumers
    BY <1>4 DEF Targets
  <1>6. worker' = [worker EXCEPT ![p].rest = r, ![p].stage = "publish"]
    BY <1>0, <1>2, <1>4 DEF TasksOK, Task
  <1>7. IsBusy(p) /\ "publish" \in Busy
    BY <1>2 DEF IsBusy, Busy
  <1>8. /\ TasksOK'
        /\ worker'[p].stage = "publish" /\ worker'[p].rest = r
        /\ worker'[p].ev = worker[p].ev /\ worker'[p].attempt = worker[p].attempt
        /\ OtherTasks(p)
    BY <1>0, <1>1, <1>3, <1>4, <1>5, <1>6, <1>7, Goes DEF OtherTasks
  <1>9. /\ used' \in [publications : [Events -> Nat], redrives : Nat, stops : Nat]
        /\ used'.publications[e] = used.publications[e] + 1
        /\ \A f \in Events : f # e => used'.publications[f] = used.publications[f]
        /\ used'.redrives = used.redrives
    BY <1>0, <1>2, <1>3, Publishes
  <1>10. QueuesOK' /\ CallsOK' /\ BooksOK' /\ LifeOK'
    BY <1>0, <1>2, <1>9 DEF QueuesOK, CallsOK, BooksOK, LifeOK, lifeVars, ghostVars
  <1> QED
    BY <1>1, <1>2, <1>3, <1>4, <1>8, <1>9, <1>10 DEF TInv

LEMMA DoWorkerPut ==
    ASSUME TInv, NEW p \in Places, WorkerPut(p)
    PROVE  \E c \in Consumers : \E e \in Events :
             /\ TInv' /\ OtherTasks(p)
             /\ e = Child[<<p[1], worker[p].ev>>]
             /\ c \in worker[p].rest
             /\ PutAt(c, e)
             /\ worker[p].stage = "publish" /\ worker'[p].stage = "publish"
             /\ worker'[p].ev = worker[p].ev /\ worker'[p].attempt = worker[p].attempt
             /\ worker'[p].rest = worker[p].rest \ {c}
             /\ UNCHANGED <<inflight, processed, dead, lifeVars, caller, used, returned, tries>>
  <1>0. TasksOK /\ QueuesOK /\ CallsOK /\ BooksOK /\ LifeOK
    BY DEF TInv
  <1>1. PICK e : e = Child[<<p[1], worker[p].ev>>]
    OBVIOUS
  <1>2. PICK c \in Consumers :
          /\ worker[p].stage = "publish"
          /\ NextTarget(c, worker[p].rest)
          /\ Put(c, e, 1)
          /\ accepted' = [accepted EXCEPT ![c] = Append(@, e)]
          /\ worker' = [worker EXCEPT ![p].rest = @ \ {c}]
          /\ UNCHANGED <<inflight, processed, dead, lifeVars, caller, used, returned, tries>>
    BY <1>1 DEF WorkerPut, At
  <1>3. c \in worker[p].rest
    BY <1>2 DEF NextTarget
  <1>4. /\ e \in Events /\ worker[p].rest \subseteq Targets(e)
        /\ worker[p] \in Task /\ worker \in [Places -> Task]
    BY <1>0, <1>1, <1>3 DEF TasksOK, TaskOK
  <1>5. PICK r : r = worker[p].rest \ {c}
    OBVIOUS
  <1>6. r \in SUBSET Consumers /\ r \subseteq Targets(e)
    BY <1>4, <1>5 DEF Task
  <1>7. worker' = [worker EXCEPT ![p].rest = r, ![p].stage = "publish"]
    BY <1>2, <1>4, <1>5 DEF Task
  <1>8. IsBusy(p) /\ "publish" \in Busy
    BY <1>2 DEF IsBusy, Busy
  <1>9. /\ TasksOK'
        /\ worker'[p].stage = "publish" /\ worker'[p].rest = r
        /\ worker'[p].ev = worker[p].ev /\ worker'[p].attempt = worker[p].attempt
        /\ OtherTasks(p)
    BY <1>0, <1>1, <1>4, <1>6, <1>7, <1>8, Goes DEF OtherTasks
  <1>10. /\ QueuesOK' /\ unfinished' \in [Places -> Nat]
         /\ accepted' \in [Consumers -> Seq(Events)] /\ PutAt(c, e)
    BY <1>0, <1>2, <1>4, PutFirst
  <1>11. CallsOK' /\ BooksOK' /\ LifeOK'
    BY <1>0, <1>2, <1>10 DEF CallsOK, BooksOK, LifeOK, lifeVars
  <1> QED
    BY <1>1, <1>2, <1>3, <1>4, <1>5, <1>9, <1>10, <1>11 DEF TInv
\* A handler that ends holds an event.
LEMMA AtEndBusy ==
    ASSUME TInv, NEW p \in Places, AtEnd(p)
    PROVE  /\ IsBusy(p) /\ worker[p].ev \in Events /\ p[1] \in Consumers
           /\ p = Place(p[1], worker[p].ev) /\ worker[p].rest = {}
           /\ worker[p].attempt \in 1..MaxAttempts
           /\ worker[p].stage \in {"handler", "publish"}
  <1>1. TasksOK
    BY DEF TInv
  <1>2. worker[p].stage \in {"handler", "publish"}
    BY DEF AtEnd, At
  <1>3. worker[p].stage \in Busy
    BY <1>2 DEF Busy
  <1>4. worker[p].rest = {}
    BY <1>1, <1>2 DEF AtEnd, At, TasksOK, TaskOK
  <1> QED
    BY <1>1, <1>2, <1>3, <1>4, PlaceParts DEF TasksOK, TaskOK, IsBusy

\* A worker that is done with its event.
Rests(p) ==
    /\ IsBusy(p) /\ ~IsBusy(p)' /\ worker'[p].rest = {}
    /\ IF unfinished[p] > 0
       THEN /\ unfinished' = [unfinished EXCEPT ![p] = @ - 1]
            /\ worker'[p].stage = "idle"
       ELSE worker'[p].stage = "dead" /\ unfinished' = unfinished

LEMMA Rested ==
    ASSUME TasksOK, LifeOK, NEW p \in Places, Finish(p), IsBusy(p)
    PROVE  Rests(p)
  <1>0. worker \in [Places -> Task]
    BY DEF TasksOK
  <1>1. CASE unfinished[p] > 0
    <2>1. worker'[p] = Idle /\ unfinished' = [unfinished EXCEPT ![p] = @ - 1]
      BY <1>0, <1>1 DEF Finish
    <2> QED
      BY <1>1, <2>1, TaskTypes DEF Rests, IsBusy, Busy
  <1>2. CASE ~(unfinished[p] > 0)
    <2>1. worker'[p] = Dead /\ unfinished' = unfinished
      BY <1>0, <1>2 DEF Finish
    <2> QED
      BY <1>2, <2>1, TaskTypes DEF Rests, IsBusy, Busy
  <1> QED
    BY <1>1, <1>2

LEMMA DoHandlerReturns ==
    ASSUME TInv, NEW p \in Places, HandlerReturns(p)
    PROVE  \E e \in Events :
             /\ TInv' /\ OtherTasks(p) /\ Rests(p)
             /\ e = worker[p].ev
             /\ worker[p].stage \in {"handler", "publish"} /\ worker[p].rest = {}
             /\ processed' = [processed EXCEPT ![p[1]] = @ \cup {e}]
             /\ returned'[p[1]][e] = returned[p[1]][e] + 1
             /\ OthersSame(returned, returned', p[1], e)
             /\ UNCHANGED <<queue, dead, lifeVars, caller, used, accepted, tries>>
  <1>0. TasksOK /\ QueuesOK /\ CallsOK /\ BooksOK /\ LifeOK
    BY DEF TInv
  <1>1. PICK e : e = worker[p].ev
    OBVIOUS
  <1>2. PICK c : c = p[1]
    OBVIOUS
  <1>3. /\ AtEnd(p) /\ Finish(p)
        /\ processed' = [processed EXCEPT ![c] = @ \cup {e}]
        /\ returned' = [returned EXCEPT ![c][e] = @ + 1]
        /\ UNCHANGED <<queue, dead, lifeVars, caller, used, accepted, tries>>
    BY <1>1, <1>2 DEF HandlerReturns
  <1>4. /\ IsBusy(p) /\ e \in Events /\ c \in Consumers /\ worker[p].rest = {}
        /\ worker[p].stage \in {"handler", "publish"}
    BY <1>1, <1>2, <1>3, AtEndBusy
  <1>5. /\ TasksOK' /\ OtherTasks(p)
        /\ unfinished' \in [Places -> Nat] /\ inflight' \in [Consumers -> Int]
    BY <1>0, <1>3, Finished DEF OtherTasks
  <1>6. Rests(p)
    BY <1>0, <1>3, <1>4, Rested
  <1>7. processed' \in [Consumers -> SUBSET Events]
    BY <1>0, <1>3, <1>4 DEF BooksOK
  <1>8. returned' \in Tally /\ returned'[c][e] = returned[c][e] + 1 /\ OthersSame(returned, returned', c, e)
    <2>1. returned \in Tally
      BY <1>0 DEF BooksOK
    <2>2. returned[c][e] \in Nat
      BY <1>4, <2>1 DEF Tally
    <2>3. PICK n \in Nat : n = returned[c][e] + 1
      BY <2>2
    <2>4. PICK b \in Tally :
            b = [returned EXCEPT ![c][e] = n] /\ b[c][e] = n /\ OthersSame(returned, b, c, e)
      BY <1>4, <2>1, Tallied
    <2>5. returned' = b
      BY <1>3, <2>3, <2>4
    <2> QED
      BY <2>3, <2>4, <2>5
  <1>9. QueuesOK' /\ CallsOK' /\ BooksOK' /\ LifeOK'
    BY <1>0, <1>3, <1>5, <1>7, <1>8 DEF QueuesOK, CallsOK, BooksOK, LifeOK, lifeVars
  <1> QED
    BY <1>1, <1>2, <1>3, <1>4, <1>5, <1>6, <1>8, <1>9 DEF TInv

LEMMA DoHandlerRaises ==
    ASSUME TInv, NEW p \in Places, HandlerRaises(p)
    PROVE  \E e \in Events :
             /\ TInv' /\ OtherTasks(p)
             /\ e = worker[p].ev /\ e \in Failing
             /\ worker[p].stage \in {"handler", "publish"} /\ worker[p].rest = {}
             /\ worker[p].attempt \in 1..MaxAttempts
             /\ worker'[p].stage \in {"retry", "bury"}
             /\ worker'[p].stage = "bury" => worker[p].attempt = MaxAttempts
             /\ worker'[p].ev = e /\ worker'[p].attempt = worker[p].attempt
             /\ worker'[p].rest = {}
             /\ tries'[p[1]][e] = tries[p[1]][e] + 1
             /\ OthersSame(tries, tries', p[1], e)
             /\ UNCHANGED <<queue, unfinished, inflight, processed, dead, lifeVars, caller, used,
                            accepted, returned>>
  <1>0. TasksOK /\ QueuesOK /\ CallsOK /\ BooksOK /\ LifeOK
    BY DEF TInv
  <1>1. PICK e : e = worker[p].ev
    OBVIOUS
  <1>2. PICK c : c = p[1]
    OBVIOUS
  <1>s. PICK stage : stage = IF worker[p].attempt < MaxAttempts THEN "retry" ELSE "bury"
    OBVIOUS
  <1>3. /\ AtEnd(p) /\ e \in Failing
        /\ tries' = [tries EXCEPT ![c][e] = @ + 1]
        /\ worker' = [worker EXCEPT ![p].rest = {}, ![p].stage = stage]
        /\ UNCHANGED <<queue, unfinished, inflight, processed, dead, lifeVars, caller, used,
                       accepted, returned>>
    BY <1>1, <1>2, <1>s DEF HandlerRaises
  <1>4. /\ IsBusy(p) /\ e \in Events /\ c \in Consumers /\ worker[p].rest = {}
        /\ worker[p].stage \in {"handler", "publish"} /\ worker[p].attempt \in 1..MaxAttempts
    BY <1>1, <1>2, <1>3, AtEndBusy
  <1>5. /\ stage \in Busy /\ stage \in {"retry", "bury"}
        /\ stage = "retry" => worker[p].attempt < MaxAttempts
        /\ stage = "bury" => worker[p].attempt = MaxAttempts
    <2>1. worker[p].attempt \in Nat /\ MaxAttempts \in Nat /\ worker[p].attempt <= MaxAttempts
      BY <1>4, BusAssumption
    <2>2. CASE worker[p].attempt < MaxAttempts
      BY <1>s, <2>2 DEF Busy
    <2>3. CASE ~(worker[p].attempt < MaxAttempts)
      BY <1>s, <2>1, <2>3 DEF Busy
    <2> QED
      BY <2>2, <2>3
  <1>6. PICK r \in SUBSET Consumers : r = {}
    OBVIOUS
  <1>7. /\ TasksOK'
        /\ worker'[p].stage = stage /\ worker'[p].rest = r
        /\ worker'[p].ev = worker[p].ev /\ worker'[p].attempt = worker[p].attempt
        /\ OtherTasks(p)
    <2>1. worker' = [worker EXCEPT ![p].rest = r, ![p].stage = stage]
      BY <1>3, <1>6
    <2> QED
      BY <1>0, <1>4, <1>5, <1>6, <2>1, Goes DEF OtherTasks
  <1>8. tries' \in Tally /\ tries'[c][e] = tries[c][e] + 1 /\ OthersSame(tries, tries', c, e)
    <2>1. tries \in Tally
      BY <1>0 DEF BooksOK
    <2>2. tries[c][e] \in Nat
      BY <1>4, <2>1 DEF Tally
    <2>3. PICK n \in Nat : n = tries[c][e] + 1
      BY <2>2
    <2>4. PICK b \in Tally :
            b = [tries EXCEPT ![c][e] = n] /\ b[c][e] = n /\ OthersSame(tries, b, c, e)
      BY <1>4, <2>1, Tallied
    <2>5. tries' = b
      BY <1>3, <2>3, <2>4
    <2> QED
      BY <2>3, <2>4, <2>5
  <1>9. QueuesOK' /\ CallsOK' /\ BooksOK' /\ LifeOK'
    BY <1>0, <1>3, <1>8 DEF QueuesOK, CallsOK, BooksOK, LifeOK, lifeVars
  <1> QED
    BY <1>1, <1>2, <1>3, <1>4, <1>5, <1>6, <1>7, <1>8, <1>9 DEF TInv

\* What a retry adds to its queue.
RetryAt(p) ==
    /\ \A q \in Places : q # p => queue'[q] = queue[q]
    /\ Len(queue[p]) \in Nat /\ Len(queue'[p]) = Len(queue[p]) + 1
    /\ \A i \in 1..Len(queue[p]) : queue'[p][i] = queue[p][i]
    /\ queue'[p][Len(queue[p]) + 1] = [ev |-> worker[p].ev, attempt |-> worker[p].attempt + 1]

LEMMA DoRetry ==
    ASSUME TInv, NEW p \in Places, Retry(p)
    PROVE  /\ TInv' /\ OtherTasks(p) /\ RetryAt(p)
           /\ worker[p].stage = "retry" /\ worker'[p].stage = "idle" /\ worker'[p].rest = {}
           /\ UNCHANGED <<unfinished, processed, dead, lifeVars, caller, used, ghostVars>>
  <1>0. TasksOK /\ QueuesOK /\ CallsOK /\ BooksOK /\ LifeOK
    BY DEF TInv
  <1>1. /\ worker[p].stage = "retry"
        /\ queue' = [queue EXCEPT ![p] =
                       Append(@, [ev |-> worker[p].ev, attempt |-> worker[p].attempt + 1])]
        /\ inflight' = [inflight EXCEPT ![p[1]] = @ - 1]
        /\ worker' = [worker EXCEPT ![p] = Idle]
        /\ UNCHANGED <<unfinished, processed, dead, lifeVars, caller, used, ghostVars>>
    BY DEF Retry, At
  <1>2. /\ worker[p].ev \in Events /\ worker[p].attempt \in 1..MaxAttempts
        /\ worker[p].attempt < MaxAttempts /\ p = Place(p[1], worker[p].ev)
        /\ p[1] \in Consumers /\ MaxAttempts \in Nat
    BY <1>0, <1>1, PlaceParts, BusAssumption DEF TasksOK, TaskOK, Busy
  <1>3. PICK e : e = worker[p].ev
    OBVIOUS
  <1>4. PICK n : n = worker[p].attempt + 1
    OBVIOUS
  <1>5. e \in Events /\ n \in 1..MaxAttempts /\ p = Place(p[1], e)
    BY <1>2, <1>3, <1>4
  <1>6. [ev |-> e, attempt |-> n] \in Item
    BY <1>5 DEF Item
  <1>7. PICK x \in Item : x = [ev |-> e, attempt |-> n] /\ x.ev = e
    BY <1>6
  <1>8. queue' = [queue EXCEPT ![p] = Append(@, x)]
    BY <1>1, <1>3, <1>4, <1>7
  <1>9. /\ queue' \in [Places -> Seq(Item)]
        /\ \A q \in Places : q # p => queue'[q] = queue[q]
        /\ Len(queue[p]) \in Nat /\ Len(queue'[p]) = Len(queue[p]) + 1
        /\ \A i \in 1..Len(queue[p]) : queue'[p][i] = queue[p][i]
        /\ queue'[p][Len(queue[p]) + 1] = x
    BY <1>0, <1>8, Pushed DEF QueuesOK
  <1>10. ASSUME NEW q \in Places, NEW i \in 1..Len(queue'[q]) PROVE q = Place(q[1], queue'[q][i].ev)
    <2>1. CASE q # p
      BY <1>0, <1>9, <1>10, <2>1 DEF QueuesOK
    <2>2. CASE q = p /\ i = Len(queue[p]) + 1
      BY <1>5, <1>7, <1>9, <2>2
    <2>3. CASE q = p /\ i # Len(queue[p]) + 1
      <3>1. i \in 1..Len(queue[p])
        BY <1>9, <1>10, <2>3
      <3> QED
        BY <1>0, <1>9, <2>3, <3>1 DEF QueuesOK
    <2> QED
      BY <2>1, <2>2, <2>3
  <1>11. QueuesOK'
    BY <1>9, <1>10 DEF QueuesOK
  <1>12. TasksOK' /\ worker'[p] = Idle /\ OtherTasks(p)
    <2>1. TaskOK(p, Idle)
      BY TaskTypes DEF TaskOK, Busy
    <2> QED
      BY <1>0, <1>1, <2>1, TaskTypes, Becomes DEF OtherTasks
  <1>13. LifeOK'
    <2>1. inflight' \in [Consumers -> Int]
      BY <1>0, <1>1, <1>2 DEF LifeOK
    <2> QED
      BY <1>0, <1>1, <2>1 DEF LifeOK, lifeVars
  <1>14. CallsOK' /\ BooksOK'
    BY <1>0, <1>1 DEF CallsOK, BooksOK, ghostVars
  <1>15. RetryAt(p)
    BY <1>3, <1>4, <1>7, <1>9 DEF RetryAt
  <1> QED
    BY <1>1, <1>11, <1>12, <1>13, <1>14, <1>15, TaskTypes DEF TInv

LEMMA DoBury ==
    ASSUME TInv, NEW p \in Places, Bury(p)
    PROVE  \E e \in Events :
             /\ TInv' /\ OtherTasks(p) /\ Rests(p)
             /\ e = worker[p].ev /\ worker[p].stage = "bury"
             /\ Len(dead[p[1]]) \in Nat /\ Len(dead'[p[1]]) = Len(dead[p[1]]) + 1
             /\ \A i \in 1..Len(dead[p[1]]) : dead'[p[1]][i] = dead[p[1]][i]
             /\ dead'[p[1]][Len(dead[p[1]]) + 1] = e
             /\ \A d \in Consumers : d # p[1] => dead'[d] = dead[d]
             /\ UNCHANGED <<queue, processed, lifeVars, caller, used, ghostVars>>
  <1>0. TasksOK /\ QueuesOK /\ CallsOK /\ BooksOK /\ LifeOK
    BY DEF TInv
  <1>1. PICK e : e = worker[p].ev
    OBVIOUS
  <1>2. PICK c : c = p[1]
    OBVIOUS
  <1>3. /\ worker[p].stage = "bury" /\ Finish(p)
        /\ dead' = [dead EXCEPT ![c] = Append(@, e)]
        /\ UNCHANGED <<queue, processed, lifeVars, caller, used, ghostVars>>
    BY <1>1, <1>2 DEF Bury, At
  <1>4. IsBusy(p) /\ e \in Events /\ c \in Consumers
    BY <1>0, <1>1, <1>2, <1>3, PlaceParts DEF TasksOK, TaskOK, IsBusy, Busy
  <1>5. /\ TasksOK' /\ OtherTasks(p)
        /\ unfinished' \in [Places -> Nat] /\ inflight' \in [Consumers -> Int]
    BY <1>0, <1>3, Finished DEF OtherTasks
  <1>6. Rests(p)
    BY <1>0, <1>3, <1>4, Rested
  <1>7. dead \in [Consumers -> Seq(Events)]
    BY <1>0 DEF BooksOK
  <1>8. /\ dead' \in [Consumers -> Seq(Events)]
        /\ Len(dead[c]) \in Nat /\ Len(dead'[c]) = Len(dead[c]) + 1
        /\ \A i \in 1..Len(dead[c]) : dead'[c][i] = dead[c][i]
        /\ dead'[c][Len(dead[c]) + 1] = e
        /\ \A d \in Consumers : d # c => dead'[d] = dead[d]
    BY <1>3, <1>4, <1>7, Accepts1
  <1>9. QueuesOK' /\ CallsOK' /\ BooksOK' /\ LifeOK'
    BY <1>0, <1>3, <1>5, <1>8 DEF QueuesOK, CallsOK, BooksOK, LifeOK, lifeVars, ghostVars
  <1> QED
    BY <1>1, <1>2, <1>3, <1>4, <1>5, <1>6, <1>8, <1>9 DEF TInv
\* Start and the cancellation change only what the tasks do and count.
LEMMA DoStart ==
    ASSUME TInv, Start
    PROVE  /\ TInv'
           /\ bus = "off" /\ bus' = "up" /\ alive' = Consumers
           /\ \A p \in Places : worker'[p].stage = "idle" /\ worker'[p].rest = {}
           /\ UNCHANGED <<queue, unfinished, inflight, processed, dead, joined, caller, used, ghostVars>>
  <1>0. TasksOK /\ QueuesOK /\ CallsOK /\ BooksOK /\ LifeOK
    BY DEF TInv
  <1>1. /\ bus = "off" /\ bus' = "up" /\ alive' = Consumers
        /\ worker' = [p \in Places |-> Idle]
        /\ UNCHANGED <<queue, unfinished, inflight, processed, dead, joined, caller, used, ghostVars>>
    BY DEF Start
  <1>2. \A p : TaskOK(p, Idle)
    BY TaskTypes DEF TaskOK, Busy
  <1>3. worker' \in [Places -> Task] /\ \A p \in Places : worker'[p] = Idle
    BY <1>1, TaskTypes
  <1>4. TasksOK'
    BY <1>2, <1>3 DEF TasksOK
  <1>5. QueuesOK' /\ CallsOK' /\ BooksOK' /\ LifeOK'
    BY <1>0, <1>1 DEF QueuesOK, CallsOK, BooksOK, LifeOK, ghostVars
  <1> QED
    BY <1>1, <1>3, <1>4, <1>5, TaskTypes DEF TInv

LEMMA DoStop ==
    ASSUME TInv, Stop
    PROVE  /\ TInv'
           /\ bus = "up" /\ bus' = "draining" /\ joined' = {}
           /\ used'.publications = used.publications /\ used'.redrives = used.redrives
           /\ UNCHANGED <<runVars, processed, dead, alive, caller, ghostVars>>
  <1>0. TasksOK /\ QueuesOK /\ CallsOK /\ BooksOK /\ LifeOK
    BY DEF TInv
  <1>1. /\ bus = "up" /\ bus' = "draining" /\ joined' = {}
        /\ used' = [used EXCEPT !.stops = @ + 1]
        /\ UNCHANGED <<runVars, processed, dead, alive, caller, ghostVars>>
    BY DEF Stop
  <1>2. /\ used' \in [publications : [Events -> Nat], redrives : Nat, stops : Nat]
        /\ used'.publications = used.publications
        /\ used'.redrives = used.redrives
    BY <1>0, <1>1, Stops
  <1>3. TasksOK' /\ QueuesOK' /\ CallsOK' /\ BooksOK' /\ LifeOK'
    BY <1>0, <1>1, <1>2 DEF TasksOK, QueuesOK, CallsOK, BooksOK, LifeOK, runVars, ghostVars
  <1> QED
    BY <1>1, <1>2, <1>3 DEF TInv

LEMMA DoJoin ==
    ASSUME TInv, NEW p \in Places, Join(p)
    PROVE  /\ TInv'
           /\ bus = "draining" /\ unfinished[p] = 0 /\ joined' = joined \cup {p}
           /\ UNCHANGED <<runVars, processed, dead, bus, alive, caller, used, ghostVars>>
  <1>0. TasksOK /\ QueuesOK /\ CallsOK /\ BooksOK /\ LifeOK
    BY DEF TInv
  <1>1. /\ bus = "draining" /\ unfinished[p] = 0 /\ joined' = joined \cup {p}
        /\ UNCHANGED <<runVars, processed, dead, bus, alive, caller, used, ghostVars>>
    BY DEF Join
  <1>3. TasksOK' /\ QueuesOK' /\ CallsOK' /\ BooksOK' /\ LifeOK'
    BY <1>0, <1>1 DEF TasksOK, QueuesOK, CallsOK, BooksOK, LifeOK, runVars, ghostVars
  <1> QED
    BY <1>1, <1>3 DEF TInv

LEMMA DoDrained ==
    ASSUME TInv, Drained
    PROVE  /\ TInv'
           /\ bus = "draining" /\ bus' = "cancelling" /\ joined = Places
           /\ UNCHANGED <<runVars, processed, dead, joined, alive, caller, used, ghostVars>>
  <1>0. TasksOK /\ QueuesOK /\ CallsOK /\ BooksOK /\ LifeOK
    BY DEF TInv
  <1>1. /\ bus = "draining" /\ bus' = "cancelling" /\ joined = Places
        /\ UNCHANGED <<runVars, processed, dead, joined, alive, caller, used, ghostVars>>
    BY DEF Drained
  <1>3. TasksOK' /\ QueuesOK' /\ CallsOK' /\ BooksOK' /\ LifeOK'
    BY <1>0, <1>1 DEF TasksOK, QueuesOK, CallsOK, BooksOK, LifeOK, runVars, ghostVars
  <1> QED
    BY <1>1, <1>3 DEF TInv

LEMMA DoCancel ==
    ASSUME TInv, NEW c \in Consumers, CancelDispatcher(c)
    PROVE  /\ TInv'
           /\ bus = "cancelling" /\ bus' \in {"off", "cancelling"}
           /\ \A p \in Places : p[1] # c => worker'[p] = worker[p]
           /\ \A p \in Places : p[1] = c => worker'[p].stage = "off" /\ worker'[p].rest = {}
           /\ \A p \in Places : p[1] # c \/ ~IsBusy(p) => unfinished'[p] = unfinished[p]
           /\ cut' = [cut EXCEPT ![c] =
                         cut[c] \cup {worker[<<c, w>>].ev : w \in {v \in Workers : IsBusy(<<c, v>>)}}]
           /\ UNCHANGED <<queue, processed, dead, joined, caller, used, accepted, returned, tries>>
  <1>0. TasksOK /\ QueuesOK /\ CallsOK /\ BooksOK /\ LifeOK
    BY DEF TInv
  <1>1. PICK working : working = {w \in Workers : worker[<<c, w>>].stage \in Busy}
    OBVIOUS
  <1>2. /\ bus = "cancelling"
        /\ alive' = alive \ {c}
        /\ bus' = IF alive = {c} THEN "off" ELSE bus
        /\ worker' = [p \in Places |-> IF p[1] = c THEN Off ELSE worker[p]]
        /\ inflight' = [inflight EXCEPT ![c] = @ - 2 * Cardinality(working)]
        /\ unfinished' = [p \in Places |->
                            IF p[1] = c /\ p[2] \in working
                            THEN IF unfinished[p] > 2 THEN unfinished[p] - 2 ELSE 0
                            ELSE unfinished[p]]
        /\ cut' = [cut EXCEPT ![c] = @ \cup {worker[<<c, w>>].ev : w \in working}]
        /\ UNCHANGED <<queue, processed, dead, joined, caller, used, accepted, returned, tries>>
    BY <1>1 DEF CancelDispatcher
  <1>3. Cardinality(working) \in Nat
    <2>1. working \subseteq Workers /\ IsFiniteSet(Workers)
      BY <1>1, BusAssumption
    <2> QED
      BY <2>1, FS_Subset, FS_CardinalityType
  <1>4. \A p : TaskOK(p, Off)
    BY TaskTypes DEF TaskOK, Busy
  <1>5. TasksOK'
    BY <1>0, <1>2, <1>4, TaskTypes DEF TasksOK
  <1>6. unfinished' \in [Places -> Nat]
    <2>1. unfinished \in [Places -> Nat]
      BY <1>0 DEF LifeOK
    <2>2. ASSUME NEW p \in Places PROVE unfinished'[p] \in Nat
      <3>1. unfinished[p] \in Nat
        BY <2>1
      <3>2. CASE p[1] = c /\ p[2] \in working /\ unfinished[p] > 2
        BY <1>2, <3>1, <3>2
      <3>3. CASE p[1] = c /\ p[2] \in working /\ ~(unfinished[p] > 2)
        BY <1>2, <3>1, <3>3
      <3>4. CASE ~(p[1] = c /\ p[2] \in working)
        BY <1>2, <3>1, <3>4
      <3> QED
        BY <3>2, <3>3, <3>4
    <2> QED
      BY <1>2, <2>2
  <1>7. inflight' \in [Consumers -> Int]
    BY <1>0, <1>2, <1>3 DEF LifeOK
  <1>8. LifeOK'
    BY <1>0, <1>2, <1>6, <1>7 DEF LifeOK
  <1>9. QueuesOK' /\ CallsOK' /\ BooksOK'
    BY <1>0, <1>2 DEF QueuesOK, CallsOK, BooksOK
  <1>10. ASSUME NEW p \in Places, p[1] # c \/ ~IsBusy(p) PROVE unfinished'[p] = unfinished[p]
    <2>1. p = <<p[1], p[2]>> /\ p[2] \in Workers
      BY DEF Places
    <2>2. ~(p[1] = c /\ p[2] \in working)
      BY <1>1, <1>10, <2>1 DEF IsBusy
    <2> QED
      BY <1>2, <2>2
  <1>11. bus' \in {"off", "cancelling"}
    BY <1>2
  <1>12. /\ \A p \in Places : p[1] # c => worker'[p] = worker[p]
         /\ \A p \in Places : p[1] = c => worker'[p].stage = "off" /\ worker'[p].rest = {}
    BY <1>2, TaskTypes
  <1>13. working = {v \in Workers : IsBusy(<<c, v>>)}
    BY <1>1 DEF IsBusy
  <1> QED
    BY <1>2, <1>5, <1>8, <1>9, <1>10, <1>11, <1>12, <1>13 DEF TInv

\* What no action changes stays typed.
LEMMA StillTyped ==
    ASSUME TInv, UNCHANGED busVars
    PROVE  TInv'
  <1>1. UNCHANGED <<runVars, processed, dead, lifeVars, caller, used, ghostVars>>
    BY DEF busVars
  <1> QED
    BY <1>1 DEF TInv, TasksOK, QueuesOK, CallsOK, BooksOK, LifeOK, runVars, lifeVars, ghostVars

LEMMA StepTyped ==
    ASSUME TInv, [BusNext]_busVars
    PROVE  TInv'
  <1>1. CASE \E t \in Callers : CallerPut(t)
    BY <1>1, DoCallerPut
  <1>2. CASE \E t \in Callers : \E e \in Events : CallPublish(t, e)
    BY <1>2, DoPublish
  <1>3. CASE \E t \in Callers, c \in Consumers : Redrive(t, c)
    BY <1>3, DoRedrive
  <1>4. CASE \E p \in Places : Work(p)
    BY <1>4, DoTake, DoTakeProcessed, DoHandlerPublishes, DoWorkerPut, DoHandlerReturns,
       DoHandlerRaises, DoRetry, DoBury DEF Work
  <1>5. CASE \E p \in Places : Join(p)
    BY <1>5, DoJoin
  <1>6. CASE Start \/ Stop \/ Drained
    BY <1>6, DoStart, DoStop, DoDrained
  <1>7. CASE \E c \in Consumers : CancelDispatcher(c)
    BY <1>7, DoCancel
  <1>8. CASE UNCHANGED busVars
    BY <1>8, StillTyped
  <1> QED
    BY <1>1, <1>2, <1>3, <1>4, <1>5, <1>6, <1>7, <1>8 DEF BusNext

\* Only a cancelled dispatcher cuts events off.
LEMMA CutKept ==
    ASSUME [BusNext]_busVars, \A c \in Consumers : ~CancelDispatcher(c)
    PROVE  cut' = cut
  <1>1. ASSUME NEW p \in Places, Work(p) PROVE cut' = cut
    BY <1>1 DEF Work, Take, TakeProcessed, HandlerPublishes, WorkerPut, HandlerReturns, HandlerRaises,
       Retry, Bury, ghostVars
  <1>2. ASSUME NEW t \in Callers,
               CallerPut(t) \/ (\E e \in Events : CallPublish(t, e)) \/ \E c \in Consumers : Redrive(t, c)
        PROVE  cut' = cut
    BY <1>2 DEF CallerPut, CallPublish, Redrive, ghostVars
  <1>3. CASE Start \/ Stop \/ Drained \/ (\E p \in Places : Join(p)) \/ UNCHANGED busVars
    BY <1>3 DEF Start, Stop, Drained, Join, busVars, ghostVars
  <1> QED
    BY <1>1, <1>2, <1>3 DEF BusNext

LEMMA CutStep ==
    ASSUME TInv, CutOK, [BusNext]_busVars
    PROVE  CutOK' /\ \A c \in Consumers : cut[c] \subseteq cut'[c]
  <1>1. ASSUME NEW c \in Consumers, CancelDispatcher(c)
        PROVE  CutOK' /\ \A d \in Consumers : cut[d] \subseteq cut'[d]
    <2> DEFINE hand == {worker[<<c, w>>].ev : w \in {v \in Workers : IsBusy(<<c, v>>)}}
    <2>1. cut' = [cut EXCEPT ![c] = cut[c] \cup hand]
      BY <1>1, DoCancel
    <2>2. hand \subseteq Events
      <3> SUFFICES ASSUME NEW w \in Workers, IsBusy(<<c, w>>) PROVE worker[<<c, w>>].ev \in Events
        OBVIOUS
      <3>1. <<c, w>> \in Places
        BY DEF Places
      <3> QED
        BY <3>1 DEF TInv, TasksOK, TaskOK, IsBusy
    <2> HIDE DEF hand
    <2> QED
      BY <2>1, <2>2 DEF CutOK
  <1>2. CASE \A c \in Consumers : ~CancelDispatcher(c)
    BY <1>2, CutKept DEF CutOK
  <1> QED
    BY <1>1, <1>2

\* The bus keeps its types: every place, attempt, counter and letter is one the
\* code can have, whatever the consumers and the stops.
THEOREM BusTypeCorrect == BusSpec => []BusTypeOK
  <1>1. BusInit => TInv /\ CutOK
    BY BusInitTyped DEF BusInit, CutOK
  <1>2. TInv /\ CutOK /\ [BusNext]_busVars => TInv' /\ CutOK'
    BY StepTyped, CutStep
  <1>3. TInv /\ CutOK => BusTypeOK
    BY TInvTypes
  <1> QED
    BY <1>1, <1>2, <1>3, PTL DEF BusSpec
-----------------------------------------------------------------------------
(* Where an event is, for a consumer.                                      *)

\* Positions in the queue of its worker, and in the dead-letter queue.
Slots(c, e) == {i \in 1..Len(queue[Place(c, e)]) : queue[Place(c, e)][i].ev = e}
Letters(c, e) == {i \in 1..Len(dead[c]) : dead[c][i] = e}

\* Whether the worker of its key has it in hand.
Holds(c, e) == IsBusy(Place(c, e)) /\ worker[Place(c, e)].ev = e

\* The calls and the handlers that have still to put it in the queue of c.
Calls(c, e) == {t \in Callers : caller[t].ev = e /\ c \in caller[t].rest}
Puts(c, e) == {p \in Places : c \in worker[p].rest /\ Child[<<p[1], worker[p].ev>>] = e}

\* The attempts it is queued for, and how far its worker is with it.
Tags(c, e) == {queue[Place(c, e)][i].attempt : i \in Slots(c, e)}
Failed(c, e) == Holds(c, e) /\ worker[Place(c, e)].stage \in {"retry", "bury"}
GivingUp(c, e) == Holds(c, e) /\ worker[Place(c, e)].stage = "bury"

IsAccepted(c, e) == \E i \in 1..Len(accepted[c]) : accepted[c][i] = e

-----------------------------------------------------------------------------
(* The drain.                                                              *)

Counted(p) == unfinished[p] = IF IsBusy(p) THEN Len(queue[p]) + 1 ELSE Len(queue[p])

\* A worker's queue counts what is in it and in hand, unless the worker was once
\* cancelled in its work; and no task works while the bus is off.
Drains ==
    /\ CutOK
    /\ \A p \in Places : ~CutAt(p) => worker[p].stage # "dead" /\ Counted(p)
    /\ bus \in {"up", "draining"} => alive = Consumers
    /\ bus = "cancelling" => \A p \in Places : p[1] \notin alive => worker[p].stage = "off"
    /\ bus = "off" => \A p \in Places : worker[p].stage = "off"

KnownAt(c, e) ==
    /\ e \in processed[c] => returned[c][e] > 0
    /\ Slots(c, e) # {} \/ Holds(c, e) \/ Letters(c, e) # {} \/ returned[c][e] > 0
         => IsAccepted(c, e)

Known == \A c \in Consumers, e \in Events : KnownAt(c, e)

Somewhere(c, e) ==
    returned[c][e] > 0 \/ Letters(c, e) # {} \/ Slots(c, e) # {} \/ Holds(c, e) \/ Calls(c, e) # {}

KeptAt(c, e) == IsAccepted(c, e) => Somewhere(c, e) \/ e \in cut[c]

Kept == \A c \in Consumers, e \in Events : KeptAt(c, e)

-----------------------------------------------------------------------------
(* An event published once.                                                *)

One(S) == \A x, y \in S : x = y

Absent(c, e) ==
    /\ Slots(c, e) = {} /\ ~Holds(c, e) /\ Letters(c, e) = {} /\ Calls(c, e) = {} /\ Puts(c, e) = {}
    /\ returned[c][e] = 0 /\ tries[c][e] = 0

\* It is in one place at most: in a queue, in hand, dead, on its way or handled.
Single(c, e) ==
    /\ One(Slots(c, e)) /\ One(Letters(c, e)) /\ One(Calls(c, e)) /\ One(Puts(c, e))
    /\ returned[c][e] <= 1
    /\ Slots(c, e) # {} => ~Holds(c, e) /\ Letters(c, e) = {} /\ Calls(c, e) = {} /\ Puts(c, e) = {}
                           /\ returned[c][e] = 0
    /\ Holds(c, e) => Letters(c, e) = {} /\ Calls(c, e) = {} /\ Puts(c, e) = {} /\ returned[c][e] = 0
    /\ Letters(c, e) # {} => Calls(c, e) = {} /\ Puts(c, e) = {} /\ returned[c][e] = 0
    /\ Calls(c, e) # {} => Puts(c, e) = {} /\ returned[c][e] = 0
    /\ Puts(c, e) # {} => returned[c][e] = 0

SingleAt(c, e) ==
    /\ used.publications[e] <= MaxPublications[e]
    /\ used.publications[e] = 0 => Absent(c, e)
    /\ used.publications[e] <= 1 => Single(c, e)

Singles == \A c \in Consumers, e \in Events : SingleAt(c, e)

\* The handler returns once, and once more for each redrive.
RemembersAt(c, e) ==
    /\ Holds(c, e) => e \notin processed[c]
    /\ returned[c][e] <= IF e \in processed[c] THEN used.redrives + 1 ELSE used.redrives

Remembers == \A c \in Consumers, e \in Events : RemembersAt(c, e)

\* Attempts count the failures.
AttemptsAt(c, e) ==
    /\ e \notin Failing =>
         /\ tries[c][e] = 0 /\ Letters(c, e) = {} /\ ~Failed(c, e)
         /\ returned[c][e] > 0 => e \in processed[c]
    /\ e \in Failing /\ used.publications[e] <= 1 =>
         /\ \A n \in Tags(c, e) : n = tries[c][e] + 1
         /\ Holds(c, e) /\ ~Failed(c, e) => worker[Place(c, e)].attempt = tries[c][e] + 1
         /\ Failed(c, e) => worker[Place(c, e)].attempt = tries[c][e]
         /\ GivingUp(c, e) => tries[c][e] = MaxAttempts
         /\ Calls(c, e) # {} \/ Puts(c, e) # {} => tries[c][e] = 0

Attempts == \A c \in Consumers, e \in Events : AttemptsAt(c, e)

Clean(c, k) == used.redrives = 0 /\ \A g \in Events : KeyOf[g] = k => tries[c][g] = 0

Before(c, e, f) ==
    \E i \in 1..Len(accepted[c]) :
        accepted[c][i] = e /\ \A h \in 1..i : accepted[c][h] # f

Ahead(c, e, f) ==
    /\ returned[c][f] = 0 /\ ~Holds(c, f)
    /\ Holds(c, e) \/ \E i \in Slots(c, e) : \A j \in Slots(c, f) : i < j

Ordered ==
    /\ used.redrives = 0 =>
         \A c \in Consumers, g \in Events : Failed(c, g) => tries[c][g] > 0
    /\ \A c \in Consumers, e, f \in Events :
         KeyOf[e] = KeyOf[f] /\ Clean(c, KeyOf[e]) /\ e \notin cut[c] /\ Before(c, e, f)
           => returned[c][e] > 0 \/ Ahead(c, e, f)
-----------------------------------------------------------------------------
(* What each kind of step does to where an event is.                       *)

\* Sets of positions that move but neither appear nor vanish.
Steady(S, T) == (T # {} <=> S # {}) /\ (One(S) => One(T))

LEMMA SamePlace ==
    ASSUME NEW c \in Consumers, NEW d \in Consumers, NEW e \in Events, NEW f \in Events,
           Place(c, e) = Place(d, f)
    PROVE  c = d
  BY PlaceType

LEMMA SlotTypes ==
    ASSUME TInv, NEW c \in Consumers, NEW e \in Events
    PROVE  /\ Slots(c, e) \subseteq 1..Len(queue[Place(c, e)])
           /\ Len(queue[Place(c, e)]) \in Nat
           /\ Letters(c, e) \subseteq 1..Len(dead[c]) /\ Len(dead[c]) \in Nat
  <1>1. queue[Place(c, e)] \in Seq(Item) /\ dead[c] \in Seq(Events)
    BY PlaceType DEF TInv, QueuesOK, BooksOK
  <1> QED
    BY <1>1 DEF Slots, Letters

\* A queue that does not change.
LEMMA SlotsSame ==
    ASSUME NEW c \in Consumers, NEW e \in Events, queue'[Place(c, e)] = queue[Place(c, e)]
    PROVE  Slots(c, e)' = Slots(c, e)
  BY DEF Slots, Place

\* An item more at the end of a queue.
LEMMA SlotsPushed ==
    ASSUME TInv, NEW p \in Places, NEW e0 \in Events, NEW n,
           \A q \in Places : q # p => queue'[q] = queue[q],
           Len(queue'[p]) = Len(queue[p]) + 1,
           \A i \in 1..Len(queue[p]) : queue'[p][i] = queue[p][i],
           queue'[p][Len(queue[p]) + 1] = [ev |-> e0, attempt |-> n],
           NEW c \in Consumers, NEW e \in Events
    PROVE  /\ ~(Place(c, e) = p /\ e = e0) => Slots(c, e)' = Slots(c, e)
           /\ Place(c, e) = p /\ e = e0 => Slots(c, e)' = Slots(c, e) \cup {Len(queue[p]) + 1}
  <1>1. Len(queue[p]) \in Nat
    BY DEF TInv, QueuesOK
  <1>2. CASE Place(c, e) # p
    <2>1. queue'[Place(c, e)] = queue[Place(c, e)]
      BY <1>2, PlaceType
    <2> QED
      BY <1>2, <2>1, SlotsSame
  <1>3. CASE Place(c, e) = p
    <2>1. Slots(c, e)' = {i \in 1..(Len(queue[p]) + 1) : queue'[p][i].ev = e}
      BY <1>3 DEF Slots, Place
    <2>2. Slots(c, e) = {i \in 1..Len(queue[p]) : queue[p][i].ev = e}
      BY <1>3 DEF Slots
    <2>3. queue'[p][Len(queue[p]) + 1].ev = e0
      OBVIOUS
    <2>4. ASSUME NEW i \in 1..(Len(queue[p]) + 1), i # Len(queue[p]) + 1
          PROVE  i \in 1..Len(queue[p]) /\ queue'[p][i].ev = queue[p][i].ev
      BY <1>1, <2>4
    <2>5. \A i \in 1..Len(queue[p]) : i \in 1..(Len(queue[p]) + 1) /\ i # Len(queue[p]) + 1
      BY <1>1
    <2>6. Len(queue[p]) + 1 \in 1..(Len(queue[p]) + 1)
      BY <1>1
    <2>7. CASE e = e0
      BY <1>3, <2>1, <2>2, <2>3, <2>4, <2>5, <2>6, <2>7
    <2>8. CASE e # e0
      BY <1>3, <2>1, <2>2, <2>3, <2>4, <2>5, <2>8
    <2> QED
      BY <2>7, <2>8
  <1> QED
    BY <1>2, <1>3

\* A first attempt put in the queue of c0.
LEMMA PutEffect ==
    ASSUME TInv, NEW c0 \in Consumers, NEW e0 \in Events, PutAt(c0, e0),
           NEW c \in Consumers, NEW e \in Events
    PROVE  /\ ~(c = c0 /\ e = e0) => /\ Slots(c, e)' = Slots(c, e)
                                     /\ IsAccepted(c, e)' = IsAccepted(c, e)
           /\ c = c0 /\ e = e0 =>
                /\ Slots(c, e)' = Slots(c, e) \cup {Len(queue[Place(c0, e0)]) + 1}
                /\ IsAccepted(c, e)'
  <1>1. PICK p \in Places : p = Place(c0, e0)
    BY PlaceType
  <1>2. /\ \A q \in Places : q # p => queue'[q] = queue[q]
        /\ Len(queue'[p]) = Len(queue[p]) + 1
        /\ \A i \in 1..Len(queue[p]) : queue'[p][i] = queue[p][i]
        /\ queue'[p][Len(queue[p]) + 1] = [ev |-> e0, attempt |-> 1]
    BY <1>1 DEF PutAt
  <1>3. /\ ~(Place(c, e) = p /\ e = e0) => Slots(c, e)' = Slots(c, e)
        /\ Place(c, e) = p /\ e = e0 => Slots(c, e)' = Slots(c, e) \cup {Len(queue[p]) + 1}
    BY <1>2, SlotsPushed
  <1>4. Place(c, e) = p /\ e = e0 <=> c = c0 /\ e = e0
    BY <1>1, SamePlace
  <1>5. /\ Len(accepted[c0]) \in Nat /\ Len(accepted'[c0]) = Len(accepted[c0]) + 1
        /\ \A i \in 1..Len(accepted[c0]) : accepted'[c0][i] = accepted[c0][i]
        /\ accepted'[c0][Len(accepted[c0]) + 1] = e0
        /\ \A d \in Consumers : d # c0 => accepted'[d] = accepted[d]
    BY DEF PutAt
  <1>6. IsAccepted(c0, e0)'
    <2>1. Len(accepted[c0]) + 1 \in 1..Len(accepted'[c0])
      BY <1>5
    <2> QED
      BY <1>5, <2>1 DEF IsAccepted
  <1>7. ASSUME ~(c = c0 /\ e = e0) PROVE IsAccepted(c, e)' = IsAccepted(c, e)
    <2>1. CASE c # c0
      BY <1>5, <2>1 DEF IsAccepted
    <2>2. CASE c = c0 /\ e # e0
      <3>1. \A i \in 1..Len(accepted[c0]) : i \in 1..Len(accepted'[c0])
        BY <1>5
      <3>2. \A i \in 1..Len(accepted'[c0]) : i = Len(accepted[c0]) + 1 \/ i \in 1..Len(accepted[c0])
        BY <1>5
      <3> QED
        BY <1>5, <2>2, <3>1, <3>2 DEF IsAccepted
    <2> QED
      BY <1>7, <2>1, <2>2
  <1> QED
    BY <1>1, <1>3, <1>4, <1>6, <1>7

\* A retry put at the back of its own queue.
LEMMA RetryEffect ==
    ASSUME TInv, NEW p \in Places, RetryAt(p), worker[p].ev \in Events,
           NEW c \in Consumers, NEW e \in Events
    PROVE  /\ ~(Place(c, e) = p /\ e = worker[p].ev) => Slots(c, e)' = Slots(c, e)
           /\ Place(c, e) = p /\ e = worker[p].ev =>
                Slots(c, e)' = Slots(c, e) \cup {Len(queue[p]) + 1}
  BY SlotsPushed DEF RetryAt

\* An item less at the head of a queue.
LEMMA TakeEffect ==
    ASSUME TInv, NEW p \in Places, TakenAt(p), NEW c \in Consumers, NEW e \in Events
    PROVE  /\ Place(c, e) # p => Slots(c, e)' = Slots(c, e)
           /\ Place(c, e) = p => \A i : i \in Slots(c, e)' <=> i \in Nat /\ i >= 1 /\ i + 1 \in Slots(c, e)
           /\ Place(c, e) = p => (1 \in Slots(c, e) <=> queue[p][1].ev = e)
  <1>1. /\ \A q \in Places : q # p => queue'[q] = queue[q]
        /\ Len(queue[p]) \in Nat /\ Len(queue[p]) >= 1
        /\ Len(queue'[p]) = Len(queue[p]) - 1
        /\ \A i \in 1..Len(queue'[p]) : queue'[p][i] = queue[p][i + 1]
    BY DEF TakenAt
  <1>2. CASE Place(c, e) # p
    <2>1. queue'[Place(c, e)] = queue[Place(c, e)]
      BY <1>1, <1>2, PlaceType
    <2> QED
      BY <1>2, <2>1, SlotsSame
  <1>3. CASE Place(c, e) = p
    <2>1. Slots(c, e)' = {i \in 1..(Len(queue[p]) - 1) : queue'[p][i].ev = e}
      BY <1>1, <1>3 DEF Slots, Place
    <2>2. Slots(c, e) = {i \in 1..Len(queue[p]) : queue[p][i].ev = e}
      BY <1>3 DEF Slots
    <2>3. ASSUME NEW i PROVE i \in Slots(c, e)' <=> i \in Nat /\ i >= 1 /\ i + 1 \in Slots(c, e)
      <3>1. ASSUME i \in Slots(c, e)' PROVE i \in Nat /\ i >= 1 /\ i + 1 \in Slots(c, e)
        <4>1. i \in 1..(Len(queue[p]) - 1) /\ queue'[p][i].ev = e
          BY <2>1, <3>1
        <4>2. i \in Nat /\ i >= 1 /\ i + 1 \in 1..Len(queue[p]) /\ queue'[p][i] = queue[p][i + 1]
          BY <1>1, <4>1
        <4> QED
          BY <2>2, <4>1, <4>2
      <3>2. ASSUME i \in Nat, i >= 1, i + 1 \in Slots(c, e) PROVE i \in Slots(c, e)'
        <4>1. i + 1 \in 1..Len(queue[p]) /\ queue[p][i + 1].ev = e
          BY <2>2, <3>2
        <4>2. i \in 1..(Len(queue[p]) - 1) /\ queue'[p][i] = queue[p][i + 1]
          BY <1>1, <3>2, <4>1
        <4> QED
          BY <2>1, <4>1, <4>2
      <3> QED
        BY <3>1, <3>2
    <2>4. 1 \in Slots(c, e) <=> queue[p][1].ev = e
      BY <1>1, <2>2
    <2> QED
      BY <1>3, <2>3, <2>4
  <1> QED
    BY <1>2, <1>3

\* The same, for an event that is not at the head.
LEMMA TakeSteady ==
    ASSUME TInv, NEW p \in Places, TakenAt(p), NEW c \in Consumers, NEW e \in Events
    PROVE  /\ ~(Place(c, e) = p /\ e = queue[p][1].ev) => Steady(Slots(c, e), Slots(c, e)')
           /\ One(Slots(c, e)) /\ Place(c, e) = p /\ e = queue[p][1].ev => Slots(c, e)' = {}
           /\ Slots(c, e)' # {} => Slots(c, e) # {}
  <1>1. CASE Place(c, e) # p
    BY <1>1, TakeEffect DEF Steady
  <1>2. CASE Place(c, e) = p
    <2>1. /\ \A i : i \in Slots(c, e)' <=> i \in Nat /\ i >= 1 /\ i + 1 \in Slots(c, e)
          /\ 1 \in Slots(c, e) <=> queue[p][1].ev = e
      BY <1>2, TakeEffect
    <2>2. /\ Slots(c, e) \subseteq 1..Len(queue[Place(c, e)])
          /\ Len(queue[Place(c, e)]) \in Nat
      BY SlotTypes
    <2>3. ASSUME One(Slots(c, e)) PROVE One(Slots(c, e)')
      <3>1. ASSUME NEW i \in Slots(c, e)', NEW j \in Slots(c, e)' PROVE i = j
        <4>1. i \in Nat /\ j \in Nat /\ i + 1 \in Slots(c, e) /\ j + 1 \in Slots(c, e)
          BY <2>1, <3>1
        <4>2. i + 1 = j + 1
          BY <2>3, <4>1 DEF One
        <4> QED
          BY <4>1, <4>2
      <3> QED
        BY <3>1 DEF One
    <2>4. Slots(c, e)' # {} => Slots(c, e) # {}
      BY <2>1
    <2>5. ASSUME e # queue[p][1].ev, Slots(c, e) # {} PROVE Slots(c, e)' # {}
      <3>1. PICK j \in Slots(c, e) : TRUE
        BY <2>5
      <3>2. j \in Nat /\ j >= 1 /\ j # 1
        BY <2>1, <2>2, <2>5, <3>1
      <3>3. PICK i : i = j - 1
        OBVIOUS
      <3>4. i \in Nat /\ i >= 1 /\ i + 1 = j
        BY <3>2, <3>3
      <3> QED
        BY <2>1, <3>1, <3>4
    <2>6. ASSUME One(Slots(c, e)), e = queue[p][1].ev PROVE Slots(c, e)' = {}
      <3>1. ASSUME NEW i \in Slots(c, e)' PROVE FALSE
        <4>1. i \in Nat /\ i >= 1 /\ i + 1 \in Slots(c, e) /\ 1 \in Slots(c, e)
          BY <2>1, <2>6, <3>1
        <4>2. i + 1 = 1
          BY <2>6, <4>1 DEF One
        <4> QED
          BY <4>1, <4>2
      <3> QED
        BY <3>1
    <2> QED
      BY <1>2, <2>3, <2>4, <2>5, <2>6 DEF Steady
  <1> QED
    BY <1>1, <1>2
\* The tasks of the other places.
LEMMA HoldsOthers ==
    ASSUME NEW p \in Places, OtherTasks(p), NEW c \in Consumers, NEW e \in Events, Place(c, e) # p
    PROVE  Holds(c, e)' = Holds(c, e) /\ worker'[Place(c, e)] = worker[Place(c, e)]
  <1>1. worker'[Place(c, e)] = worker[Place(c, e)]
    BY PlaceType DEF OtherTasks
  <1> QED
    BY <1>1 DEF Holds, IsBusy, Place

LEMMA HoldsSame ==
    ASSUME worker' = worker, NEW c \in Consumers, NEW e \in Events
    PROVE  Holds(c, e)' = Holds(c, e) /\ Puts(c, e)' = Puts(c, e)
  BY DEF Holds, IsBusy, Place, Puts

\* The task of a place, busy or not.
LEMMA HoldsHere ==
    ASSUME TInv, NEW p \in Places
    PROVE  /\ IsBusy(p) => /\ worker[p].ev \in Events /\ p[1] \in Consumers
                           /\ Place(p[1], worker[p].ev) = p /\ Holds(p[1], worker[p].ev)
           /\ \A c \in Consumers, e \in Events :
                Place(c, e) = p => c = p[1] /\ (Holds(c, e) <=> IsBusy(p) /\ e = worker[p].ev)
  <1>1. ASSUME IsBusy(p)
        PROVE  /\ worker[p].ev \in Events /\ p[1] \in Consumers
               /\ Place(p[1], worker[p].ev) = p /\ Holds(p[1], worker[p].ev)
    BY <1>1, PlaceParts DEF TInv, TasksOK, TaskOK, IsBusy, Holds
  <1>2. ASSUME NEW c \in Consumers, NEW e \in Events, Place(c, e) = p
        PROVE  c = p[1] /\ (Holds(c, e) <=> IsBusy(p) /\ e = worker[p].ev)
    BY <1>2, PlaceType DEF Holds
  <1> QED
    BY <1>1, <1>2

LEMMA HoldsAfter ==
    ASSUME TInv', NEW p \in Places
    PROVE  /\ IsBusy(p)' => worker'[p].ev \in Events /\ Place(p[1], worker'[p].ev) = p
           /\ \A c \in Consumers, e \in Events :
                Place(c, e) = p => c = p[1] /\ (Holds(c, e)' <=> IsBusy(p)' /\ e = worker'[p].ev)
  <1>1. ASSUME IsBusy(p)' PROVE worker'[p].ev \in Events /\ Place(p[1], worker'[p].ev) = p
    BY <1>1 DEF TInv, TasksOK, TaskOK, IsBusy
  <1>2. ASSUME NEW c \in Consumers, NEW e \in Events, Place(c, e) = p
        PROVE  c = p[1] /\ (Holds(c, e)' <=> IsBusy(p)' /\ e = worker'[p].ev)
    <2>1. c = p[1]
      BY <1>2, PlaceType
    <2>2. Holds(c, e)' <=> IsBusy(p)' /\ worker'[p].ev = e
      BY <1>2 DEF Holds, Place, IsBusy
    <2> QED
      BY <2>1, <2>2
  <1> QED
    BY <1>1, <1>2

\* A task that has nothing to put.
LEMMA PutsQuiet ==
    ASSUME NEW p \in Places, OtherTasks(p), worker'[p].rest = {},
           NEW c \in Consumers, NEW e \in Events
    PROVE  /\ Puts(c, e)' \subseteq Puts(c, e)
           /\ worker[p].rest = {} => Puts(c, e)' = Puts(c, e)
  <1>1. \A q \in Places : q # p => worker'[q] = worker[q]
    BY DEF OtherTasks
  <1>2. \A q \in Puts(c, e)' : q # p
    BY DEF Puts
  <1>3. Puts(c, e)' \subseteq Puts(c, e)
    BY <1>1, <1>2 DEF Puts
  <1>4. ASSUME worker[p].rest = {} PROVE Puts(c, e) \subseteq Puts(c, e)'
    <2>1. \A q \in Puts(c, e) : q # p
      BY <1>4 DEF Puts
    <2> QED
      BY <1>1, <2>1 DEF Puts
  <1> QED
    BY <1>3, <1>4

\* A task that has one target less.
LEMMA PutsDone ==
    ASSUME NEW p \in Places, OtherTasks(p), NEW c0 \in Consumers, NEW e0 \in Events,
           e0 = Child[<<p[1], worker[p].ev>>], worker'[p].ev = worker[p].ev,
           c0 \in worker[p].rest, worker'[p].rest = worker[p].rest \ {c0},
           NEW c \in Consumers, NEW e \in Events
    PROVE  /\ ~(c = c0 /\ e = e0) => Puts(c, e)' = Puts(c, e)
           /\ c = c0 /\ e = e0 => p \in Puts(c, e) /\ Puts(c, e)' = Puts(c, e) \ {p}
  <1>1. \A q \in Places : q # p => worker'[q] = worker[q]
    BY DEF OtherTasks
  <1>2. \A q \in Places : q # p => (q \in Puts(c, e)' <=> q \in Puts(c, e))
    BY <1>1 DEF Puts
  <1>3. /\ p \in Puts(c, e) <=> c \in worker[p].rest /\ e0 = e
        /\ p \in Puts(c, e)' <=> c \in worker[p].rest \ {c0} /\ e0 = e
    BY DEF Puts
  <1>4. Puts(c, e) \subseteq Places /\ Puts(c, e)' \subseteq Places
    BY DEF Puts
  <1> QED
    BY <1>2, <1>3, <1>4

\* A task that starts to publish.
LEMMA PutsBegun ==
    ASSUME NEW p \in Places, OtherTasks(p), NEW e0 \in Events,
           e0 = Child[<<p[1], worker[p].ev>>], worker'[p].ev = worker[p].ev,
           worker[p].rest = {},
           NEW c \in Consumers, NEW e \in Events
    PROVE  /\ e # e0 => Puts(c, e)' = Puts(c, e)
           /\ Puts(c, e)' \subseteq Puts(c, e) \cup {p}
  <1>1. \A q \in Places : q # p => worker'[q] = worker[q]
    BY DEF OtherTasks
  <1>2. \A q \in Places : q # p => (q \in Puts(c, e)' <=> q \in Puts(c, e))
    BY <1>1 DEF Puts
  <1>3. /\ p \notin Puts(c, e)
        /\ p \in Puts(c, e)' => e0 = e
    BY DEF Puts
  <1>4. Puts(c, e) \subseteq Places /\ Puts(c, e)' \subseteq Places
    BY DEF Puts
  <1> QED
    BY <1>2, <1>3, <1>4

\* A call that begins or ends.
LEMMA CallsEffect ==
    ASSUME NEW t \in Callers, \A u \in Callers : u # t => caller'[u] = caller[u],
           NEW c \in Consumers, NEW e \in Events
    PROVE  /\ Calls(c, e) \ {t} = Calls(c, e)' \ {t}
           /\ t \in Calls(c, e) <=> caller[t].ev = e /\ c \in caller[t].rest
           /\ t \in Calls(c, e)' <=> caller'[t].ev = e /\ c \in caller'[t].rest
  BY DEF Calls

LEMMA CallsKept ==
    ASSUME NEW t \in Callers, \A u \in Callers : u # t => caller'[u] = caller[u],
           NEW c \in Consumers, NEW e \in Events,
           t \in Calls(c, e) <=> t \in Calls(c, e)'
    PROVE  Calls(c, e)' = Calls(c, e)
  BY DEF Calls

LEMMA LettersSame ==
    ASSUME NEW c \in Consumers, NEW e \in Events, dead'[c] = dead[c]
    PROVE  Letters(c, e)' = Letters(c, e)
  BY DEF Letters

\* A letter more.
LEMMA LettersBuried ==
    ASSUME TInv, NEW c0 \in Consumers, NEW e0 \in Events,
           Len(dead'[c0]) = Len(dead[c0]) + 1,
           \A i \in 1..Len(dead[c0]) : dead'[c0][i] = dead[c0][i],
           dead'[c0][Len(dead[c0]) + 1] = e0,
           \A d \in Consumers : d # c0 => dead'[d] = dead[d],
           NEW c \in Consumers, NEW e \in Events
    PROVE  /\ ~(c = c0 /\ e = e0) => Letters(c, e)' = Letters(c, e)
           /\ c = c0 /\ e = e0 => Letters(c, e)' = Letters(c, e) \cup {Len(dead[c0]) + 1}
  <1>1. Len(dead[c0]) \in Nat
    BY DEF TInv, BooksOK
  <1>2. CASE c # c0
    BY <1>2, LettersSame
  <1>3. CASE c = c0
    <2>1. Letters(c, e)' = {i \in 1..(Len(dead[c0]) + 1) : dead'[c0][i] = e}
      BY <1>3 DEF Letters
    <2>2. Letters(c, e) = {i \in 1..Len(dead[c0]) : dead[c0][i] = e}
      BY <1>3 DEF Letters
    <2>4. ASSUME NEW i \in 1..(Len(dead[c0]) + 1), i # Len(dead[c0]) + 1
          PROVE  i \in 1..Len(dead[c0]) /\ dead'[c0][i] = dead[c0][i]
      BY <1>1, <2>4
    <2>5. \A i \in 1..Len(dead[c0]) : i \in 1..(Len(dead[c0]) + 1) /\ i # Len(dead[c0]) + 1
      BY <1>1
    <2>6. Len(dead[c0]) + 1 \in 1..(Len(dead[c0]) + 1)
      BY <1>1
    <2>7. CASE e = e0
      BY <1>3, <2>1, <2>2, <2>4, <2>5, <2>6, <2>7
    <2>8. CASE e # e0
      BY <1>3, <2>1, <2>2, <2>4, <2>5, <2>8
    <2> QED
      BY <2>7, <2>8
  <1> QED
    BY <1>2, <1>3

\* A letter less.
LEMMA LettersRedriven ==
    ASSUME TInv, NEW t \in Callers, NEW c0 \in Consumers, NEW n \in 1..Len(dead[c0]), NEW e0 \in Events,
           RedriveAt(t, c0, n, e0),
           NEW c \in Consumers, NEW e \in Events
    PROVE  /\ ~(c = c0 /\ e = e0) => Steady(Letters(c, e), Letters(c, e)')
           /\ c = c0 /\ e = e0 =>
                Letters(c, e) # {} /\ (One(Letters(c, e)) => Letters(c, e)' = {})
           /\ Letters(c, e)' # {} => Letters(c, e) # {}
  <1>0. /\ e0 = dead[c0][n]
        /\ Len(dead'[c0]) = Len(dead[c0]) - 1
        /\ \A j \in 1..Len(dead'[c0]) : dead'[c0][j] = IF j < n THEN dead[c0][j] ELSE dead[c0][j + 1]
        /\ \A d \in Consumers : d # c0 => dead'[d] = dead[d]
    BY DEF RedriveAt
  <1> USE <1>0
  <1>1. Len(dead[c0]) \in Nat /\ n \in Nat /\ n >= 1 /\ n <= Len(dead[c0])
    BY DEF TInv, BooksOK
  <1>2. CASE c # c0
    BY <1>2, LettersSame DEF Steady
  <1>3. CASE c = c0
    <2>1. Letters(c, e)' = {i \in 1..(Len(dead[c0]) - 1) : dead'[c0][i] = e}
      BY <1>3 DEF Letters
    <2>2. Letters(c, e) = {i \in 1..Len(dead[c0]) : dead[c0][i] = e}
      BY <1>3 DEF Letters
    <2>3. ASSUME NEW i \in Letters(c, e)'
          PROVE  /\ i \in Nat
                 /\ \E j \in Letters(c, e) : j = (IF i < n THEN i ELSE i + 1) /\ j # n
      <3>1. i \in 1..(Len(dead[c0]) - 1) /\ dead'[c0][i] = e /\ i \in Nat
        BY <2>1, <2>3
      <3>2. CASE i < n
        <4>1. i \in 1..Len(dead[c0]) /\ dead[c0][i] = e /\ i # n
          BY <1>1, <3>1, <3>2
        <4> QED
          BY <2>2, <3>1, <3>2, <4>1
      <3>3. CASE ~(i < n)
        <4>1. i + 1 \in 1..Len(dead[c0]) /\ dead[c0][i + 1] = e /\ i + 1 # n
          BY <1>1, <3>1, <3>3
        <4> QED
          BY <2>2, <3>1, <3>3, <4>1
      <3> QED
        BY <3>2, <3>3
    <2>4. ASSUME NEW j \in Letters(c, e), j # n
          PROVE  Letters(c, e)' # {}
      <3>1. j \in 1..Len(dead[c0]) /\ dead[c0][j] = e /\ j \in Nat
        BY <2>2, <2>4
      <3>2. CASE j < n
        <4>1. j \in 1..(Len(dead[c0]) - 1) /\ dead'[c0][j] = e
          BY <1>1, <3>1, <3>2
        <4> QED
          BY <2>1, <4>1
      <3>3. CASE ~(j < n)
        <4>1. PICK i : i = j - 1
          OBVIOUS
        <4>2. i \in 1..(Len(dead[c0]) - 1) /\ ~(i < n) /\ i + 1 = j
          BY <1>1, <2>4, <3>1, <3>3, <4>1
        <4>3. dead'[c0][i] = e
          BY <1>1, <3>1, <4>2
        <4> QED
          BY <2>1, <4>2, <4>3
      <3> QED
        BY <3>2, <3>3
    <2>5. ASSUME One(Letters(c, e)), NEW x \in Letters(c, e)', NEW y \in Letters(c, e)'
          PROVE  x = y
      <3>1. PICK j \in Letters(c, e) : j = (IF x < n THEN x ELSE x + 1) /\ j # n
        BY <2>3, <2>5
      <3>2. PICK k \in Letters(c, e) : k = (IF y < n THEN y ELSE y + 1) /\ k # n
        BY <2>3, <2>5
      <3>3. j = k
        BY <2>5, <3>1, <3>2 DEF One
      <3>4. x \in Nat /\ y \in Nat
        BY <2>3, <2>5
      <3> QED
        BY <1>1, <3>1, <3>2, <3>3, <3>4
    <2>6. n \in Letters(c, e0)
      BY <1>1, <1>3 DEF Letters
    <2>7. ASSUME e # e0 PROVE Steady(Letters(c, e), Letters(c, e)')
      <3>1. \A j \in Letters(c, e) : j # n
        BY <1>3, <2>2, <2>7
      <3>2. Letters(c, e)' # {} <=> Letters(c, e) # {}
        BY <2>3, <2>4, <3>1
      <3>3. One(Letters(c, e)) => One(Letters(c, e)')
        BY <2>5 DEF One
      <3> QED
        BY <3>2, <3>3 DEF Steady
    <2>8. ASSUME e = e0, One(Letters(c, e)) PROVE Letters(c, e)' = {}
      <3>1. \A j \in Letters(c, e) : j = n
        BY <2>6, <2>8 DEF One
      <3> QED
        BY <2>3, <3>1
    <2>9. Letters(c, e)' # {} => Letters(c, e) # {}
      BY <2>3
    <2> QED
      BY <1>3, <2>6, <2>7, <2>8, <2>9
  <1> QED
    BY <1>2, <1>3
-----------------------------------------------------------------------------
(* The drain: what each action leaves in the queues and in the counters.   *)

LEMMA CutSame ==
    ASSUME cut' = cut
    PROVE  \A p : CutAt(p)' <=> CutAt(p)
  BY DEF CutAt, Place

LEMMA CutGrows ==
    ASSUME TInv, CutOK, [BusNext]_busVars
    PROVE  /\ \A p \in Places : CutAt(p) => CutAt(p)'
           /\ \A c \in Consumers, e \in Events : e \in cut[c] => e \in cut'[c]
  <1>1. CutOK /\ \A c \in Consumers : cut[c] \subseteq cut'[c]
    BY CutStep
  <1>2. ASSUME NEW p \in Places, CutAt(p) PROVE CutAt(p)'
    <2>1. PICK e \in cut[p[1]] : Place(p[1], e) = p
      BY <1>2 DEF CutAt
    <2>2. e \in cut'[p[1]]
      BY <1>1, <2>1, PlaceParts
    <2> QED
      BY <2>1, <2>2 DEF CutAt, Place
  <1> QED
    BY <1>1, <1>2

\* A task that works and is off afterwards was cut off with its event in hand.
LEMMA CutHere ==
    ASSUME TInv, CutOK, NEW c \in Consumers, CancelDispatcher(c), NEW p \in Places, p[1] = c, IsBusy(p)
    PROVE  worker[p].ev \in cut'[c] /\ CutAt(p)'
  <1> DEFINE hand == {worker[<<c, w>>].ev : w \in {v \in Workers : IsBusy(<<c, v>>)}}
  <1>1. cut' = [cut EXCEPT ![c] = cut[c] \cup hand]
    BY DoCancel
  <1>2. p[2] \in Workers /\ p = <<c, p[2]>>
    BY PlaceParts
  <1>3. worker[p].ev \in hand
    BY <1>2
  <1> HIDE DEF hand
  <1>4. worker[p].ev \in cut'[c]
    BY <1>1, <1>3 DEF CutOK
  <1>5. worker[p].ev \in Events /\ Place(p[1], worker[p].ev) = p
    BY HoldsHere
  <1> QED
    BY <1>4, <1>5 DEF CutAt, Place

\* A step of the worker of a place.
LEMMA WorkDrains ==
    ASSUME TInv, Drains, NEW p \in Places, worker[p].stage # "off", OtherTasks(p),
           cut' = cut, UNCHANGED lifeVars,
           \A q \in Places : ~CutAt(q) => worker'[q].stage # "dead" /\ Counted(q)'
    PROVE  Drains'
  <1>1. bus' = bus /\ joined' = joined /\ alive' = alive /\ CutOK'
    BY DEF lifeVars, Drains, CutOK
  <1>2. \A q \in Places : ~CutAt(q)' => worker'[q].stage # "dead" /\ Counted(q)'
    BY CutSame
  <1>3. bus # "off"
    BY DEF Drains
  <1>4. bus = "cancelling" => p[1] \in alive
    BY DEF Drains
  <1>5. bus = "cancelling" => \A q \in Places : q[1] \notin alive => worker'[q].stage = "off"
    BY <1>4 DEF Drains, OtherTasks
  <1> QED
    BY <1>1, <1>2, <1>3, <1>5 DEF Drains

\* One that touches no other queue.
LEMMA WorkDrainsHere ==
    ASSUME TInv, Drains, NEW p \in Places, worker[p].stage # "off", OtherTasks(p),
           \A q \in Places : q # p => queue'[q] = queue[q],
           \A q \in Places : q # p => unfinished'[q] = unfinished[q],
           ~CutAt(p) => Counted(p)' /\ worker'[p].stage # "dead",
           cut' = cut, UNCHANGED lifeVars
    PROVE  Drains'
  <1>1. ASSUME NEW q \in Places, ~CutAt(q) PROVE worker'[q].stage # "dead" /\ Counted(q)'
    <2>1. CASE q = p
      BY <1>1, <2>1
    <2>2. CASE q # p
      <3>1. worker[q].stage # "dead" /\ Counted(q)
        BY <1>1 DEF Drains
      <3>2. worker'[q] = worker[q] /\ queue'[q] = queue[q] /\ unfinished'[q] = unfinished[q]
        BY <2>2 DEF OtherTasks
      <3> QED
        BY <3>1, <3>2 DEF Counted, IsBusy
    <2> QED
      BY <2>1, <2>2
  <1> QED
    BY <1>1, WorkDrains

\* A put: the queue and its counter grow together.
LEMMA PutCounts ==
    ASSUME TInv, NEW c \in Consumers, NEW e \in Events, PutAt(c, e), NEW q \in Places, Counted(q),
           IsBusy(q)' = IsBusy(q)
    PROVE  Counted(q)'
  <1>1. PICK p \in Places : p = Place(c, e)
    BY PlaceType
  <1>2. Len(queue[p]) \in Nat /\ unfinished \in [Places -> Nat]
    BY DEF TInv, QueuesOK, LifeOK
  <1>3. /\ \A r \in Places : r # p => queue'[r] = queue[r]
        /\ Len(queue'[p]) = Len(queue[p]) + 1
        /\ unfinished' = [unfinished EXCEPT ![p] = @ + 1]
    BY <1>1 DEF PutAt
  <1>4. CASE q = p
    BY <1>2, <1>3, <1>4 DEF Counted
  <1>5. CASE q # p
    BY <1>2, <1>3, <1>5 DEF Counted
  <1> QED
    BY <1>4, <1>5

LEMMA WorkIsDrained ==
    ASSUME TInv, Drains, NEW p \in Places, Work(p)
    PROVE  Drains'
  <1>0. /\ ~CutAt(p) => Counted(p) /\ worker[p].stage # "dead"
        /\ Len(queue[p]) \in Nat /\ unfinished[p] \in Nat /\ unfinished \in [Places -> Nat]
    BY DEF Drains, TInv, QueuesOK, LifeOK
  <1>c. cut' = cut
    BY DEF Work, Take, TakeProcessed, HandlerPublishes, WorkerPut, HandlerReturns, HandlerRaises,
       Retry, Bury, ghostVars
  <1>1. CASE Take(p)
    <2>1. /\ TakenAt(p) /\ OtherTasks(p)
          /\ worker[p].stage = "idle" /\ worker'[p].stage = "handler"
          /\ unfinished' = unfinished /\ UNCHANGED lifeVars
      BY <1>1, DoTake
    <2>2. Counted(p) => Counted(p)'
      BY <1>0, <2>1 DEF Counted, IsBusy, Busy, TakenAt
    <2> QED
      BY <1>0, <1>c, <2>1, <2>2, WorkDrainsHere DEF TakenAt
  <1>2. CASE TakeProcessed(p)
    <2>1. /\ TakenAt(p) /\ OtherTasks(p) /\ worker[p].stage = "idle"
          /\ IF unfinished[p] > 0
              THEN /\ unfinished' = [unfinished EXCEPT ![p] = @ - 1]
                   /\ worker' = worker
              ELSE worker'[p].stage = "dead" /\ unfinished' = unfinished
          /\ UNCHANGED lifeVars
      BY <1>2, DoTakeProcessed
    <2>2. ~IsBusy(p) /\ Len(queue[p]) >= 1 /\ Len(queue'[p]) = Len(queue[p]) - 1
      BY <2>1 DEF IsBusy, Busy, TakenAt
    <2>3. ASSUME ~CutAt(p) PROVE Counted(p)' /\ worker'[p].stage # "dead"
      <3>1. unfinished[p] = Len(queue[p])
        BY <1>0, <2>2, <2>3 DEF Counted
      <3>2. unfinished' = [unfinished EXCEPT ![p] = @ - 1] /\ worker' = worker
        BY <2>1, <2>2, <3>1, <1>0
      <3> QED
        BY <1>0, <2>1, <2>2, <3>1, <3>2 DEF Counted, IsBusy
    <2>4. \A q \in Places : q # p => unfinished'[q] = unfinished[q]
      BY <1>0, <2>1
    <2> QED
      BY <1>c, <2>1, <2>3, <2>4, WorkDrainsHere DEF TakenAt
  <1>3. CASE HandlerPublishes(p)
    <2>1. /\ OtherTasks(p)
          /\ worker[p].stage = "handler" /\ worker'[p].stage = "publish"
          /\ UNCHANGED <<queue, unfinished, lifeVars>>
      BY <1>3, DoHandlerPublishes
    <2>2. Counted(p) => Counted(p)'
      BY <1>0, <2>1 DEF Counted, IsBusy, Busy
    <2> QED
      BY <1>0, <1>c, <2>1, <2>2, WorkDrainsHere
  <1>4. CASE WorkerPut(p)
    <2>1. PICK c \in Consumers, e \in Events :
             /\ OtherTasks(p)
             /\ PutAt(c, e)
             /\ worker[p].stage = "publish" /\ worker'[p].stage = "publish"
             /\ UNCHANGED lifeVars
      BY <1>4, DoWorkerPut
    <2>2. ASSUME NEW q \in Places, ~CutAt(q) PROVE worker'[q].stage # "dead" /\ Counted(q)'
      <3>1. worker[q].stage # "dead" /\ Counted(q)
        BY <2>2 DEF Drains
      <3>2. worker'[q].stage = worker[q].stage
        BY <2>1 DEF OtherTasks
      <3>3. IsBusy(q)' = IsBusy(q)
        BY <3>2 DEF IsBusy
      <3> QED
        BY <2>1, <3>1, <3>2, <3>3, PutCounts
    <2> QED
      BY <1>c, <2>1, <2>2, WorkDrains
  <1>5. ASSUME OtherTasks(p), Rests(p), UNCHANGED <<queue, lifeVars>>, worker[p].stage # "off"
        PROVE  Drains'
    <2>1. ASSUME ~CutAt(p) PROVE Counted(p)' /\ worker'[p].stage # "dead"
      <3>1. unfinished[p] = Len(queue[p]) + 1 /\ unfinished[p] > 0
        BY <1>0, <1>5, <2>1 DEF Rests, Counted
      <3>2. unfinished' = [unfinished EXCEPT ![p] = @ - 1] /\ worker'[p].stage = "idle"
        BY <1>5, <3>1 DEF Rests
      <3> QED
        BY <1>0, <1>5, <3>1, <3>2 DEF Counted, IsBusy, Busy
    <2>2. \A q \in Places : q # p => unfinished'[q] = unfinished[q]
      BY <1>0, <1>5 DEF Rests
    <2> QED
      BY <1>c, <1>5, <2>1, <2>2, WorkDrainsHere
  <1>6. CASE HandlerReturns(p)
    <2>1. /\ OtherTasks(p) /\ Rests(p) /\ UNCHANGED <<queue, lifeVars>>
          /\ worker[p].stage # "off"
      BY <1>6, DoHandlerReturns
    <2> QED
      BY <1>5, <2>1
  <1>7. CASE HandlerRaises(p)
    <2>1. /\ OtherTasks(p) /\ worker[p].stage \in {"handler", "publish"}
          /\ worker'[p].stage \in {"retry", "bury"}
          /\ UNCHANGED <<queue, unfinished, lifeVars>>
      BY <1>7, DoHandlerRaises
    <2>2. Counted(p) => Counted(p)'
      BY <1>0, <2>1 DEF Counted, IsBusy, Busy
    <2> QED
      BY <1>0, <1>c, <2>1, <2>2, WorkDrainsHere
  <1>8. CASE Retry(p)
    <2>1. /\ OtherTasks(p) /\ RetryAt(p)
          /\ worker[p].stage = "retry" /\ worker'[p].stage = "idle"
          /\ UNCHANGED <<unfinished, lifeVars>>
      BY <1>8, DoRetry
    <2>2. Counted(p) => Counted(p)'
      BY <1>0, <2>1 DEF Counted, IsBusy, Busy, RetryAt
    <2> QED
      BY <1>0, <1>c, <2>1, <2>2, WorkDrainsHere DEF RetryAt
  <1>9. CASE Bury(p)
    <2>1. /\ OtherTasks(p) /\ Rests(p) /\ UNCHANGED <<queue, lifeVars>>
          /\ worker[p].stage # "off"
      BY <1>9, DoBury
    <2> QED
      BY <1>5, <2>1
  <1> QED
    BY <1>1, <1>2, <1>3, <1>4, <1>6, <1>7, <1>8, <1>9 DEF Work

\* A step that leaves the tasks and the life of the bus alone.
LEMMA CallsDrain ==
    ASSUME TInv, Drains, UNCHANGED <<worker, lifeVars, cut>>,
           \A p \in Places : Counted(p) => Counted(p)'
    PROVE  Drains'
  <1>1. bus' = bus /\ joined' = joined /\ alive' = alive /\ worker' = worker /\ CutOK'
    BY DEF lifeVars, Drains, CutOK
  <1>2. \A q \in Places : ~CutAt(q)' => worker'[q].stage # "dead" /\ Counted(q)'
    BY <1>1, CutSame DEF Drains
  <1> QED
    BY <1>1, <1>2 DEF Drains

LEMMA DrainsStep ==
    ASSUME TInv, Drains, [BusNext]_busVars
    PROVE  Drains'
  <1>0. CutOK /\ \A p \in Places : ~CutAt(p) => worker[p].stage # "dead" /\ Counted(p)
    BY DEF Drains
  <1>k. CutOK'
    BY <1>0, CutStep
  <1>1. ASSUME NEW t \in Callers, CallerPut(t) PROVE Drains'
    <2>1. PICK c \in Consumers, e \in Events : PutAt(c, e) /\ UNCHANGED <<worker, lifeVars>>
      BY <1>1, DoCallerPut
    <2>2. cut' = cut
      BY <1>1 DEF CallerPut
    <2>3. \A q \in Places : IsBusy(q)' = IsBusy(q)
      BY <2>1 DEF IsBusy
    <2> QED
      BY <2>1, <2>2, <2>3, PutCounts, CallsDrain
  <1>2. ASSUME NEW t \in Callers, NEW e \in Events, CallPublish(t, e) PROVE Drains'
    <2>1. UNCHANGED <<runVars, lifeVars, ghostVars>>
      BY <1>2, DoPublish
    <2>2. \A p \in Places : Counted(p) => Counted(p)'
      BY <2>1 DEF Counted, IsBusy, runVars
    <2> QED
      BY <2>1, <2>2, CallsDrain DEF runVars, ghostVars
  <1>3. ASSUME NEW t \in Callers, NEW c \in Consumers, Redrive(t, c) PROVE Drains'
    <2>1. UNCHANGED <<runVars, lifeVars, cut>>
      BY <1>3 DEF Redrive
    <2>2. \A p \in Places : Counted(p) => Counted(p)'
      BY <2>1 DEF Counted, IsBusy, runVars
    <2> QED
      BY <2>1, <2>2, CallsDrain DEF runVars
  <1>4. CASE \E p \in Places : Work(p)
    BY <1>4, WorkIsDrained
  <1>5. ASSUME UNCHANGED <<runVars, cut>>
        PROVE  \A q \in Places : ~CutAt(q)' => worker'[q].stage # "dead" /\ Counted(q)'
    BY <1>0, <1>5, CutSame DEF Counted, IsBusy, runVars
  <1>6. CASE \E p \in Places : Join(p)
    <2>1. UNCHANGED <<runVars, cut>> /\ bus = "draining" /\ bus' = "draining" /\ alive' = alive
      BY <1>6, DoJoin DEF ghostVars
    <2> QED
      BY <1>k, <1>5, <2>1 DEF Drains
  <1>7. CASE Stop
    <2>1. UNCHANGED <<runVars, cut>> /\ bus = "up" /\ bus' = "draining" /\ alive' = alive
      BY <1>7, DoStop DEF ghostVars
    <2> QED
      BY <1>k, <1>5, <2>1 DEF Drains
  <1>8. CASE Drained
    <2>1. UNCHANGED <<runVars, cut>> /\ bus = "draining" /\ bus' = "cancelling" /\ alive' = alive
      BY <1>8, DoDrained DEF ghostVars
    <2>2. \A p \in Places : p[1] \in alive'
      BY <2>1, PlaceParts DEF Drains
    <2> QED
      BY <1>k, <1>5, <2>1, <2>2 DEF Drains
  <1>9. CASE Start
    <2>1. /\ bus = "off" /\ bus' = "up" /\ alive' = Consumers
          /\ \A p \in Places : worker'[p].stage = "idle"
          /\ UNCHANGED <<queue, unfinished, cut>>
      BY <1>9, DoStart DEF ghostVars
    <2>2. \A p \in Places : worker[p].stage = "off"
      BY <2>1 DEF Drains
    <2>3. \A q \in Places : ~CutAt(q)' => worker'[q].stage # "dead" /\ Counted(q)'
      BY <1>0, <2>1, <2>2, CutSame DEF Counted, IsBusy, Busy
    <2> QED
      BY <1>k, <2>1, <2>3 DEF Drains
  <1>10. ASSUME NEW c \in Consumers, CancelDispatcher(c) PROVE Drains'
    <2>1. /\ bus = "cancelling" /\ bus' = (IF alive = {c} THEN "off" ELSE bus)
          /\ alive' = alive \ {c}
          /\ \A p \in Places : p[1] # c => worker'[p] = worker[p]
          /\ \A p \in Places : p[1] = c => worker'[p].stage = "off"
          /\ \A p \in Places : p[1] # c \/ ~IsBusy(p) => unfinished'[p] = unfinished[p]
          /\ queue' = queue
      BY <1>10, DoCancel DEF CancelDispatcher
    <2>2. ASSUME NEW q \in Places, ~CutAt(q)' PROVE worker'[q].stage # "dead" /\ Counted(q)'
      <3>1. worker[q].stage # "dead" /\ Counted(q)
        BY <1>0, <2>2, CutGrows
      <3>2. q[1] = c => ~IsBusy(q)
        BY <1>0, <1>10, <2>2, CutHere
      <3>3. unfinished'[q] = unfinished[q]
        BY <2>1, <3>2
      <3>4. IsBusy(q)' <=> IsBusy(q)
        <4>1. CASE q[1] = c
          BY <2>1, <3>2, <4>1 DEF IsBusy, Busy
        <4>2. CASE q[1] # c
          BY <2>1, <4>2 DEF IsBusy
        <4> QED
          BY <4>1, <4>2
      <3>5. worker'[q].stage # "dead"
        BY <2>1, <3>1
      <3> QED
        BY <2>1, <3>1, <3>3, <3>4, <3>5 DEF Counted
    <2>3. \A p \in Places : p[1] \notin alive => worker[p].stage = "off"
      BY <2>1 DEF Drains
    <2>4. \A p \in Places : p[1] \notin alive' => worker'[p].stage = "off"
      BY <2>1, <2>3
    <2>5. bus' = "off" => alive' = {}
      BY <2>1
    <2>6. bus' \in {"off", "cancelling"}
      BY <2>1
    <2> QED
      BY <1>k, <2>2, <2>4, <2>5, <2>6 DEF Drains
  <1>11. CASE UNCHANGED busVars
    <2>1. UNCHANGED <<runVars, lifeVars, cut>>
      BY <1>11 DEF busVars, ghostVars
    <2> QED
      BY <1>k, <1>5, <2>1 DEF Drains, runVars, lifeVars
  <1> QED
    BY <1>1, <1>2, <1>3, <1>4, <1>6, <1>7, <1>8, <1>9, <1>10, <1>11 DEF BusNext

LEMMA InitDrains == BusInit => Drains
  <1> SUFFICES ASSUME BusInit PROVE Drains
    OBVIOUS
  <1>1. \A p \in Places : worker[p].stage = "off" /\ queue[p] = <<>> /\ unfinished[p] = 0
    BY TaskTypes DEF BusInit
  <1>2. \A p \in Places : Counted(p)
    BY <1>1 DEF Counted, IsBusy, Busy
  <1>3. bus = "off" /\ CutOK
    BY DEF BusInit, CutOK
  <1> QED
    BY <1>1, <1>2, <1>3 DEF Drains

\* join() returns only when what was put in the queue is done, in every stop and
\* whoever still publishes, unless a stop, this one or an earlier one, cancelled the
\* worker of the queue in its work: that worker counted one item twice.
THEOREM DrainIsComplete == BusSpec => JoinWaits
  <1>1. BusInit => TInv /\ Drains
    BY BusInitTyped, InitDrains
  <1>2. TInv /\ Drains /\ [BusNext]_busVars => TInv' /\ Drains'
    BY StepTyped, DrainsStep
  <1>3. TInv /\ Drains /\ [BusNext]_busVars
          => [\A p \in joined' \ joined : CutAt(p) \/ (queue[p] = <<>> /\ worker[p].stage \notin Busy)]_busVars
    <2> SUFFICES ASSUME TInv, Drains, BusNext, NEW p \in joined' \ joined, ~CutAt(p)
                 PROVE  queue[p] = <<>> /\ worker[p].stage \notin Busy
      OBVIOUS
    <2>1. CASE \E q \in Places : Join(q)
      <3>1. PICK q \in Places : Join(q)
        BY <2>1
      <3>2. unfinished[q] = 0 /\ p = q
        BY <3>1, DoJoin
      <3>3. Counted(q) /\ queue[q] \in Seq(Item) /\ Len(queue[q]) \in Nat
        BY <3>2 DEF Drains, TInv, QueuesOK
      <3>4. ~IsBusy(q) /\ Len(queue[q]) = 0
        BY <3>2, <3>3 DEF Counted
      <3> QED
        BY <3>2, <3>3, <3>4 DEF IsBusy
    <2>2. CASE Stop
      BY <2>2, DoStop
    <2>3. CASE ~(\E q \in Places : Join(q)) /\ ~Stop
      <3>1. joined' = joined
        <4>1. CASE \E t \in Callers : CallerPut(t)
          BY <4>1, DoCallerPut DEF lifeVars
        <4>2. CASE \E t \in Callers : \E e \in Events : CallPublish(t, e)
          BY <4>2, DoPublish DEF lifeVars
        <4>3. CASE \E t \in Callers, c \in Consumers : Redrive(t, c)
          BY <4>3, DoRedrive DEF lifeVars
        <4>4. CASE \E q \in Places : Work(q)
          BY <4>4, DoTake, DoTakeProcessed, DoHandlerPublishes, DoWorkerPut, DoHandlerReturns,
             DoHandlerRaises, DoRetry, DoBury DEF Work, lifeVars
        <4>5. CASE Start \/ Drained
          BY <4>5, DoStart, DoDrained
        <4>6. CASE \E c \in Consumers : CancelDispatcher(c)
          BY <4>6, DoCancel
        <4> QED
          BY <2>3, <4>1, <4>2, <4>3, <4>4, <4>5, <4>6 DEF BusNext
      <3> QED
        BY <3>1
    <2> QED
      BY <2>1, <2>2, <2>3
  <1> QED
    BY <1>1, <1>2, <1>3, PTL DEF BusSpec, JoinWaits
-----------------------------------------------------------------------------
(* What each action does to an event, for a consumer.                      *)

SameQueued(c, e) == Steady(Slots(c, e), Slots(c, e)') /\ Tags(c, e)' = Tags(c, e)
SameTask(c, e) ==
    /\ Holds(c, e)' = Holds(c, e) /\ Failed(c, e)' = Failed(c, e) /\ GivingUp(c, e)' = GivingUp(c, e)
    /\ Holds(c, e) => worker'[Place(c, e)].attempt = worker[Place(c, e)].attempt
SameLetters(c, e) == Steady(Letters(c, e), Letters(c, e)')
SameCalls(c, e) == Calls(c, e)' = Calls(c, e)
SamePuts(c, e) == Puts(c, e)' = Puts(c, e)
SameBooks(c, e) ==
    /\ IsAccepted(c, e)' = IsAccepted(c, e)
    /\ returned'[c][e] = returned[c][e] /\ tries'[c][e] = tries[c][e]
    /\ e \in processed'[c] <=> e \in processed[c]

Untouched(c, e) ==
    /\ SameQueued(c, e) /\ SameTask(c, e) /\ SameLetters(c, e)
    /\ SameCalls(c, e) /\ SamePuts(c, e) /\ SameBooks(c, e)

LEMMA QueuedSame ==
    ASSUME NEW c \in Consumers, NEW e \in Events, queue'[Place(c, e)] = queue[Place(c, e)]
    PROVE  SameQueued(c, e)
  <1>1. Slots(c, e)' = Slots(c, e)
    BY SlotsSame
  <1>2. Tags(c, e)' = Tags(c, e)
    BY <1>1 DEF Tags, Place
  <1> QED
    BY <1>1, <1>2 DEF SameQueued, Steady

LEMMA TaskSame ==
    ASSUME NEW c \in Consumers, NEW e \in Events, worker'[Place(c, e)] = worker[Place(c, e)]
    PROVE  SameTask(c, e)
  BY DEF SameTask, Holds, Failed, GivingUp, IsBusy, Place

LEMMA LettersAreSame ==
    ASSUME NEW c \in Consumers, NEW e \in Events, dead'[c] = dead[c]
    PROVE  SameLetters(c, e)
  BY LettersSame DEF SameLetters, Steady

LEMMA CallsAreSame ==
    ASSUME NEW c \in Consumers, NEW e \in Events, caller' = caller
    PROVE  SameCalls(c, e)
  BY DEF SameCalls, Calls

LEMMA PutsAreSame ==
    ASSUME NEW c \in Consumers, NEW e \in Events, worker' = worker
    PROVE  SamePuts(c, e)
  BY DEF SamePuts, Puts

LEMMA BooksAreSame ==
    ASSUME NEW c \in Consumers, NEW e \in Events,
           accepted' = accepted, returned' = returned, tries' = tries, processed' = processed
    PROVE  SameBooks(c, e)
  BY DEF SameBooks, IsAccepted

\* The tasks when one of them goes from event e0 in hand, or from nothing, to e0
\* in hand or nothing.
LEMMA TaskOthers ==
    ASSUME TInv, TInv', NEW p \in Places, OtherTasks(p), NEW e0 \in Events,
           IsBusy(p) => worker[p].ev = e0, IsBusy(p)' => worker'[p].ev = e0,
           NEW c \in Consumers, NEW e \in Events, ~(c = p[1] /\ e = e0)
    PROVE  SameTask(c, e)
  <1>1. CASE Place(c, e) # p
    <2>1. worker'[Place(c, e)] = worker[Place(c, e)]
      BY <1>1, PlaceType DEF OtherTasks
    <2> QED
      BY <2>1, TaskSame
  <1>2. CASE Place(c, e) = p
    <2>1. c = p[1] /\ (Holds(c, e) <=> IsBusy(p) /\ e = worker[p].ev)
      BY <1>2, HoldsHere
    <2>2. Holds(c, e)' <=> IsBusy(p)' /\ e = worker'[p].ev
      BY <1>2, HoldsAfter
    <2>3. ~Holds(c, e) /\ ~Holds(c, e)'
      BY <2>1, <2>2
    <2>4. /\ Holds(c, e) = FALSE /\ Failed(c, e) = FALSE /\ GivingUp(c, e) = FALSE
      BY <2>3 DEF Failed, GivingUp, Holds
    <2>5. /\ Holds(c, e)' = FALSE /\ Failed(c, e)' = FALSE /\ GivingUp(c, e)' = FALSE
      BY <2>3 DEF Failed, GivingUp, Holds
    <2> QED
      BY <2>4, <2>5 DEF SameTask
  <1> QED
    BY <1>1, <1>2

\* Queues when an item is put at the end of one of them.
LEMMA TagsPushed ==
    ASSUME TInv, NEW p \in Places, NEW e0 \in Events, NEW n,
           \A q \in Places : q # p => queue'[q] = queue[q],
           Len(queue'[p]) = Len(queue[p]) + 1,
           \A i \in 1..Len(queue[p]) : queue'[p][i] = queue[p][i],
           queue'[p][Len(queue[p]) + 1] = [ev |-> e0, attempt |-> n],
           NEW c \in Consumers, NEW e \in Events
    PROVE  /\ ~(Place(c, e) = p /\ e = e0) => SameQueued(c, e)
           /\ Place(c, e) = p /\ e = e0 =>
                /\ Slots(c, e)' = Slots(c, e) \cup {Len(queue[p]) + 1}
                /\ Tags(c, e)' = Tags(c, e) \cup {n}
  <1>1. /\ ~(Place(c, e) = p /\ e = e0) => Slots(c, e)' = Slots(c, e)
        /\ Place(c, e) = p /\ e = e0 => Slots(c, e)' = Slots(c, e) \cup {Len(queue[p]) + 1}
    BY SlotsPushed
  <1>2. Slots(c, e) \subseteq 1..Len(queue[Place(c, e)])
    BY SlotTypes
  <1>3. \A i \in Slots(c, e) : queue'[Place(c, e)][i] = queue[Place(c, e)][i]
    BY <1>2, PlaceType
  <1>4. ASSUME ~(Place(c, e) = p /\ e = e0) PROVE SameQueued(c, e)
    <2>1. Tags(c, e)' = {queue'[Place(c, e)][i].attempt : i \in Slots(c, e)}
      BY <1>1, <1>4 DEF Tags, Place
    <2>2. Tags(c, e)' = Tags(c, e)
      <3>1. Tags(c, e) = {queue[Place(c, e)][i].attempt : i \in Slots(c, e)}
        BY DEF Tags
      <3>2. PICK a : a = [i \in Slots(c, e) |-> queue[Place(c, e)][i].attempt]
        OBVIOUS
      <3>3. \A i \in Slots(c, e) :
              queue[Place(c, e)][i].attempt = a[i] /\ queue'[Place(c, e)][i].attempt = a[i]
        BY <1>3, <3>2
      <3>4. Tags(c, e) = {a[i] : i \in Slots(c, e)} /\ Tags(c, e)' = {a[i] : i \in Slots(c, e)}
        BY <2>1, <3>1, <3>3
      <3> QED
        BY <3>4
    <2> QED
      BY <1>1, <1>4, <2>2 DEF SameQueued, Steady
  <1>5. ASSUME Place(c, e) = p, e = e0 PROVE Tags(c, e)' = Tags(c, e) \cup {n}
    <2>1. Tags(c, e)' = {queue'[p][i].attempt : i \in Slots(c, e) \cup {Len(queue[p]) + 1}}
      BY <1>1, <1>5 DEF Tags, Place
    <2>2. Tags(c, e) = {queue[p][i].attempt : i \in Slots(c, e)}
      BY <1>5 DEF Tags
    <2>3. \A i \in Slots(c, e) : queue'[p][i].attempt = queue[p][i].attempt
      BY <1>3, <1>5
    <2>4. queue'[p][Len(queue[p]) + 1].attempt = n
      OBVIOUS
    <2> QED
      BY <2>1, <2>2, <2>3, <2>4
  <1> QED
    BY <1>1, <1>4, <1>5

\* Queues when the head of one of them is taken.
LEMMA TagsTaken ==
    ASSUME TInv, NEW p \in Places, TakenAt(p), NEW c \in Consumers, NEW e \in Events
    PROVE  /\ ~(Place(c, e) = p /\ e = queue[p][1].ev) => SameQueued(c, e)
           /\ Place(c, e) = p /\ e = queue[p][1].ev =>
                /\ Slots(c, e) # {} /\ (One(Slots(c, e)) => Slots(c, e)' = {})
                /\ Tags(c, e)' \subseteq Tags(c, e)
                /\ queue[p][1].attempt \in Tags(c, e)
  <1>1. CASE Place(c, e) # p
    <2>1. queue'[Place(c, e)] = queue[Place(c, e)]
      BY <1>1, PlaceType DEF TakenAt
    <2> QED
      BY <1>1, <2>1, QueuedSame
  <1>2. CASE Place(c, e) = p
    <2>1. /\ \A i : i \in Slots(c, e)' <=> i \in Nat /\ i >= 1 /\ i + 1 \in Slots(c, e)
          /\ 1 \in Slots(c, e) <=> queue[p][1].ev = e
      BY <1>2, TakeEffect
    <2>2. /\ Slots(c, e) \subseteq 1..Len(queue[p]) /\ Len(queue[p]) \in Nat
      BY <1>2, SlotTypes
    <2>3. ASSUME NEW i \in Slots(c, e)'
          PROVE  i + 1 \in Slots(c, e) /\ queue'[p][i] = queue[p][i + 1]
      <3>1. i \in Nat /\ i >= 1 /\ i + 1 \in Slots(c, e)
        BY <2>1, <2>3
      <3>2. i + 1 <= Len(queue[p])
        BY <2>2, <3>1
      <3>3. i \in 1..Len(queue'[p])
        BY <2>2, <3>1, <3>2 DEF TakenAt
      <3> QED
        BY <3>1, <3>3 DEF TakenAt
    <2>4. /\ Tags(c, e)' = {queue'[p][i].attempt : i \in Slots(c, e)'}
          /\ Tags(c, e) = {queue[p][i].attempt : i \in Slots(c, e)}
      BY <1>2 DEF Tags, Place
    <2>5. Tags(c, e)' \subseteq Tags(c, e)
      BY <2>3, <2>4
    <2>6. ASSUME e # queue[p][1].ev PROVE Tags(c, e) \subseteq Tags(c, e)'
      <3>1. ASSUME NEW j \in Slots(c, e) PROVE queue[p][j].attempt \in Tags(c, e)'
        <4>1. j \in Nat /\ j >= 1 /\ j # 1
          BY <2>1, <2>2, <2>6, <3>1
        <4>2. PICK i : i = j - 1
          OBVIOUS
        <4>3. i \in Nat /\ i >= 1 /\ i + 1 = j
          BY <4>1, <4>2
        <4>4. i \in Slots(c, e)'
          BY <2>1, <3>1, <4>3
        <4>5. queue'[p][i] = queue[p][j]
          BY <2>3, <4>3, <4>4
        <4> QED
          BY <2>4, <4>4, <4>5
      <3> QED
        BY <2>4, <3>1
    <2>7. /\ ~(Place(c, e) = p /\ e = queue[p][1].ev) => Steady(Slots(c, e), Slots(c, e)')
          /\ One(Slots(c, e)) /\ Place(c, e) = p /\ e = queue[p][1].ev => Slots(c, e)' = {}
      BY TakeSteady
    <2>8. e = queue[p][1].ev => 1 \in Slots(c, e) /\ queue[p][1].attempt \in Tags(c, e)
      BY <2>1, <2>4
    <2> QED
      BY <1>2, <2>5, <2>6, <2>7, <2>8 DEF SameQueued
  <1> QED
    BY <1>1, <1>2
\* Nothing is known of the event of consumer c0 that the action is about.
Elsewhere(c0, e0) ==
    \A c \in Consumers, e \in Events : ~(c = c0 /\ e = e0) => Untouched(c, e)

LEMMA PublishEffect ==
    ASSUME TInv, NEW t \in Callers, NEW e0 \in Events, CallPublish(t, e0)
    PROVE  /\ \A c \in Consumers, e \in Events :
                /\ SameQueued(c, e) /\ SameTask(c, e) /\ SameLetters(c, e)
                /\ SamePuts(c, e) /\ SameBooks(c, e)
                /\ e # e0 => SameCalls(c, e)
                /\ Calls(c, e) \subseteq Calls(c, e)' /\ Calls(c, e)' \subseteq Calls(c, e) \cup {t}
           /\ used'.publications[e0] = used.publications[e0] + 1
           /\ \A e \in Events : e # e0 => used'.publications[e] = used.publications[e]
           /\ used'.redrives = used.redrives
           /\ used.publications[e0] < MaxPublications[e0]
  <1>1. /\ TInv'
        /\ caller[t] = NoCall
        /\ caller'[t].rest = Targets(e0)
        /\ Targets(e0) # {} => caller'[t].ev = e0
        /\ \A u \in Callers : u # t => caller'[u] = caller[u]
        /\ used'.publications[e0] = used.publications[e0] + 1
        /\ \A f \in Events : f # e0 => used'.publications[f] = used.publications[f]
        /\ used'.redrives = used.redrives
        /\ UNCHANGED <<runVars, processed, dead, lifeVars, ghostVars>>
    BY DoPublish
  <1>2. queue' = queue /\ worker' = worker /\ accepted' = accepted /\ returned' = returned /\ tries' = tries
    BY <1>1 DEF runVars, ghostVars
  <1>3. ASSUME NEW c \in Consumers, NEW e \in Events
        PROVE  /\ SameQueued(c, e) /\ SameTask(c, e) /\ SameLetters(c, e)
               /\ SamePuts(c, e) /\ SameBooks(c, e)
               /\ e # e0 => SameCalls(c, e)
               /\ Calls(c, e) \subseteq Calls(c, e)' /\ Calls(c, e)' \subseteq Calls(c, e) \cup {t}
    <2>1. SameQueued(c, e) /\ SameTask(c, e) /\ SameLetters(c, e) /\ SamePuts(c, e) /\ SameBooks(c, e)
      BY <1>1, <1>2, QueuedSame, TaskSame, LettersAreSame, PutsAreSame, BooksAreSame
    <2>2. /\ Calls(c, e) \ {t} = Calls(c, e)' \ {t}
          /\ t \in Calls(c, e) <=> caller[t].ev = e /\ c \in caller[t].rest
          /\ t \in Calls(c, e)' <=> caller'[t].ev = e /\ c \in caller'[t].rest
      BY <1>1, CallsEffect
    <2>3. t \notin Calls(c, e) /\ (e # e0 => t \notin Calls(c, e)')
      BY <1>1, <2>2, TaskTypes
    <2> QED
      BY <2>1, <2>2, <2>3 DEF SameCalls
  <1>4. used.publications[e0] < MaxPublications[e0]
    BY DEF CallPublish
  <1> QED
    BY <1>1, <1>3, <1>4

LEMMA CallerPutEffect ==
    ASSUME TInv, NEW t \in Callers, CallerPut(t)
    PROVE  \E c0 \in Consumers, e0 \in Events :
             /\ Elsewhere(c0, e0) /\ PutAt(c0, e0)
             /\ \E n : Slots(c0, e0)' = Slots(c0, e0) \cup {n}
             /\ Tags(c0, e0)' = Tags(c0, e0) \cup {1}
             /\ SameTask(c0, e0) /\ SameLetters(c0, e0) /\ SamePuts(c0, e0)
             /\ t \in Calls(c0, e0) /\ Calls(c0, e0)' = Calls(c0, e0) \ {t}
             /\ IsAccepted(c0, e0)'
             /\ UNCHANGED <<used, returned, tries, processed, worker>>
  <1>1. PICK c0 \in Consumers, e0 \in Events :
          /\ TInv'
          /\ e0 = caller[t].ev /\ c0 \in caller[t].rest
          /\ PutAt(c0, e0)
          /\ caller'[t].rest = caller[t].rest \ {c0}
          /\ caller'[t].rest # {} => caller'[t].ev = e0
          /\ \A u \in Callers : u # t => caller'[u] = caller[u]
          /\ UNCHANGED <<inflight, worker, processed, dead, lifeVars, used, returned, tries>>
    BY DoCallerPut
  <1>2. PICK p \in Places : p = Place(c0, e0)
    BY PlaceType
  <1>3. /\ \A q \in Places : q # p => queue'[q] = queue[q]
        /\ Len(queue'[p]) = Len(queue[p]) + 1
        /\ \A i \in 1..Len(queue[p]) : queue'[p][i] = queue[p][i]
        /\ queue'[p][Len(queue[p]) + 1] = [ev |-> e0, attempt |-> 1]
    BY <1>1, <1>2 DEF PutAt
  <1>4. ASSUME NEW c \in Consumers, NEW e \in Events
        PROVE  /\ SameTask(c, e) /\ SameLetters(c, e) /\ SamePuts(c, e)
               /\ Calls(c, e) \ {t} = Calls(c, e)' \ {t}
               /\ t \in Calls(c, e) <=> caller[t].ev = e /\ c \in caller[t].rest
               /\ t \in Calls(c, e)' <=> caller'[t].ev = e /\ c \in caller'[t].rest
    BY <1>1, TaskSame, LettersAreSame, PutsAreSame, CallsEffect
  <1>5. ASSUME NEW c \in Consumers, NEW e \in Events, ~(c = c0 /\ e = e0)
        PROVE  Untouched(c, e)
    <2>1. SameQueued(c, e)
      <3>1. ~(Place(c, e) = p /\ e = e0)
        BY <1>2, <1>5, SamePlace
      <3> QED
        BY <1>3, <3>1, TagsPushed
    <2>2. IsAccepted(c, e)' = IsAccepted(c, e)
      BY <1>1, <1>5, PutEffect
    <2>3. SameCalls(c, e)
      <3>1. t \in Calls(c, e) <=> t \in Calls(c, e)'
        BY <1>1, <1>4, <1>5
      <3> QED
        BY <1>1, <3>1, CallsKept DEF SameCalls
    <2>4. SameBooks(c, e)
      BY <1>1, <2>2 DEF SameBooks
    <2> QED
      BY <1>4, <2>1, <2>3, <2>4 DEF Untouched
  <1>6. /\ Slots(c0, e0)' = Slots(c0, e0) \cup {Len(queue[p]) + 1}
        /\ Tags(c0, e0)' = Tags(c0, e0) \cup {1}
    BY <1>2, <1>3, TagsPushed
  <1>7. t \in Calls(c0, e0) /\ Calls(c0, e0)' = Calls(c0, e0) \ {t}
    <2>1. t \in Calls(c0, e0) /\ t \notin Calls(c0, e0)'
      BY <1>1, <1>4
    <2> QED
      BY <1>4, <2>1
  <1>8. IsAccepted(c0, e0)'
    BY <1>1, PutEffect
  <1>9. Elsewhere(c0, e0)
    BY <1>5 DEF Elsewhere
  <1> QED
    BY <1>1, <1>4, <1>6, <1>7, <1>8, <1>9

LEMMA RedriveEffect ==
    ASSUME TInv, NEW t \in Callers, NEW c0 \in Consumers, Redrive(t, c0)
    PROVE  \E e0 \in Events :
             /\ Elsewhere(c0, e0)
             /\ SameQueued(c0, e0) /\ SameTask(c0, e0) /\ SamePuts(c0, e0)
             /\ Letters(c0, e0) # {} /\ (One(Letters(c0, e0)) => Letters(c0, e0)' = {})
             /\ t \notin Calls(c0, e0) /\ Calls(c0, e0)' = Calls(c0, e0) \cup {t}
             /\ IsAccepted(c0, e0)' = IsAccepted(c0, e0)
             /\ returned'[c0][e0] = returned[c0][e0] /\ tries'[c0][e0] = 0
             /\ e0 \notin processed'[c0]
             /\ used'.publications = used.publications
             /\ used'.redrives = used.redrives + 1
             /\ UNCHANGED <<queue, worker, accepted, returned>>
  <1>1. /\ TInv'
        /\ UNCHANGED <<runVars, lifeVars, accepted, returned>>
        /\ \E i \in 1..Len(dead[c0]), e0 \in Events : RedriveAt(t, c0, i, e0)
    BY DoRedrive
  <1>b. PICK i \in 1..Len(dead[c0]), e0 \in Events : RedriveAt(t, c0, i, e0)
    BY <1>1
  <1>a. /\ UNCHANGED <<runVars, lifeVars, accepted, returned>>
        /\ e0 = dead[c0][i]
        /\ caller[t] = NoCall
        /\ caller'[t] = [ev |-> e0, rest |-> {c0}]
        /\ \A u \in Callers : u # t => caller'[u] = caller[u]
        /\ Len(dead[c0]) \in Nat /\ Len(dead'[c0]) = Len(dead[c0]) - 1
        /\ \A j \in 1..Len(dead'[c0]) :
             dead'[c0][j] = IF j < i THEN dead[c0][j] ELSE dead[c0][j + 1]
        /\ \A d \in Consumers : d # c0 => dead'[d] = dead[d]
        /\ processed' = [processed EXCEPT ![c0] = @ \ {e0}]
        /\ tries'[c0][e0] = 0
        /\ OthersSame(tries, tries', c0, e0)
        /\ used'.publications = used.publications
        /\ used'.redrives = used.redrives + 1
    BY <1>1, <1>b DEF RedriveAt
  <1>2. queue' = queue /\ worker' = worker
    BY <1>a DEF runVars
  <1>3. processed \in [Consumers -> SUBSET Events]
    BY DEF TInv, BooksOK
  <1>4. ASSUME NEW c \in Consumers, NEW e \in Events
        PROVE  /\ SameQueued(c, e) /\ SameTask(c, e) /\ SamePuts(c, e)
               /\ IsAccepted(c, e)' = IsAccepted(c, e)
               /\ Calls(c, e) \ {t} = Calls(c, e)' \ {t}
               /\ t \in Calls(c, e) <=> caller[t].ev = e /\ c \in caller[t].rest
               /\ t \in Calls(c, e)' <=> caller'[t].ev = e /\ c \in caller'[t].rest
    BY <1>a, <1>2, QueuedSame, TaskSame, PutsAreSame, CallsEffect DEF IsAccepted
  <1>5. ASSUME NEW c \in Consumers, NEW e \in Events
        PROVE  /\ ~(c = c0 /\ e = e0) => SameLetters(c, e)
               /\ c = c0 /\ e = e0 =>
                    Letters(c, e) # {} /\ (One(Letters(c, e)) => Letters(c, e)' = {})
    <2>2. /\ ~(c = c0 /\ e = e0) => Steady(Letters(c, e), Letters(c, e)')
          /\ c = c0 /\ e = e0 =>
               Letters(c, e) # {} /\ (One(Letters(c, e)) => Letters(c, e)' = {})
      BY <1>b, LettersRedriven
    <2> QED
      BY <2>2 DEF SameLetters
  <1>6. ASSUME NEW c \in Consumers, NEW e \in Events, ~(c = c0 /\ e = e0)
        PROVE  Untouched(c, e)
    <2>1. SameBooks(c, e)
      BY <1>a, <1>3, <1>4, <1>6 DEF SameBooks, OthersSame
    <2>2. t \notin Calls(c, e) /\ t \notin Calls(c, e)'
      BY <1>a, <1>4, <1>6, TaskTypes
    <2>3. SameCalls(c, e)
      BY <1>a, <2>2, CallsKept DEF SameCalls
    <2> QED
      BY <1>4, <1>5, <1>6, <2>1, <2>3 DEF Untouched
  <1>7. t \notin Calls(c0, e0) /\ Calls(c0, e0)' = Calls(c0, e0) \cup {t}
    <2>1. t \notin Calls(c0, e0) /\ t \in Calls(c0, e0)'
      BY <1>a, <1>4, TaskTypes
    <2> QED
      BY <1>4, <2>1
  <1>8. e0 \notin processed'[c0]
    BY <1>a, <1>3
  <1>9. Elsewhere(c0, e0)
    BY <1>6 DEF Elsewhere
  <1> QED
    BY <1>a, <1>2, <1>4, <1>5, <1>7, <1>8, <1>9

LEMMA TakeEffects ==
    ASSUME TInv, NEW p \in Places, Take(p)
    PROVE  \E e0 \in Events :
             /\ p = Place(p[1], e0) /\ p[1] \in Consumers /\ e0 = queue[p][1].ev
             /\ Elsewhere(p[1], e0) /\ TakenAt(p)
             /\ 1 \in Slots(p[1], e0) /\ (One(Slots(p[1], e0)) => Slots(p[1], e0)' = {})
             /\ Tags(p[1], e0)' \subseteq Tags(p[1], e0)
             /\ ~IsBusy(p) /\ ~Holds(p[1], e0)
             /\ Holds(p[1], e0)' /\ ~Failed(p[1], e0)' /\ ~GivingUp(p[1], e0)'
             /\ worker'[p].attempt \in Tags(p[1], e0)
             /\ e0 \notin processed[p[1]]
             /\ SameLetters(p[1], e0) /\ SameCalls(p[1], e0) /\ SamePuts(p[1], e0) /\ SameBooks(p[1], e0)
             /\ UNCHANGED <<used, returned, tries, processed, accepted>>
  <1>1. /\ TInv' /\ TakenAt(p) /\ OtherTasks(p)
        /\ worker[p].stage = "idle" /\ worker'[p].stage = "handler"
        /\ queue[p][1] \in Item
        /\ worker'[p].ev = queue[p][1].ev /\ worker'[p].attempt = queue[p][1].attempt
        /\ worker'[p].rest = {}
        /\ queue[p][1].ev \notin processed[p[1]]
        /\ UNCHANGED <<unfinished, processed, dead, lifeVars, caller, used, ghostVars>>
    BY DoTake
  <1>2. PICK e0 \in Events : e0 = queue[p][1].ev
    BY <1>1 DEF Item
  <1>3. ~IsBusy(p) /\ IsBusy(p)' /\ worker'[p].ev = e0
    BY <1>1, <1>2 DEF IsBusy, Busy
  <1>4. /\ p = Place(p[1], e0) /\ p[1] \in Consumers
        /\ ~Holds(p[1], e0) /\ Holds(p[1], e0)'
    BY <1>1, <1>3, HoldsHere, HoldsAfter, PlaceParts
  <1>5. ~Failed(p[1], e0)' /\ ~GivingUp(p[1], e0)'
    BY <1>1, <1>4 DEF Failed, GivingUp, Place
  <1>6. /\ accepted' = accepted /\ returned' = returned /\ tries' = tries
        /\ worker[p].rest = {}
    BY <1>1 DEF ghostVars, TInv, TasksOK, TaskOK
  <1>7. ASSUME NEW c \in Consumers, NEW e \in Events
        PROVE  SameLetters(c, e) /\ SameCalls(c, e) /\ SamePuts(c, e) /\ SameBooks(c, e)
    BY <1>1, <1>6, LettersAreSame, CallsAreSame, PutsQuiet, BooksAreSame DEF SamePuts
  <1>8. ASSUME NEW c \in Consumers, NEW e \in Events, ~(c = p[1] /\ e = e0)
        PROVE  Untouched(c, e)
    <2>1. SameTask(c, e)
      BY <1>1, <1>3, <1>8, TaskOthers
    <2>2. ~(Place(c, e) = p /\ e = e0)
      BY <1>4, <1>8, SamePlace
    <2>3. SameQueued(c, e)
      BY <1>1, <1>2, <2>2, TagsTaken
    <2> QED
      BY <1>7, <2>1, <2>3 DEF Untouched
  <1>9. /\ 1 \in Slots(p[1], e0) /\ (One(Slots(p[1], e0)) => Slots(p[1], e0)' = {})
        /\ Tags(p[1], e0)' \subseteq Tags(p[1], e0)
        /\ queue[p][1].attempt \in Tags(p[1], e0)
    BY <1>1, <1>2, <1>4, TagsTaken, TakeEffect
  <1>10. Elsewhere(p[1], e0)
    BY <1>8 DEF Elsewhere
  <1> QED
    BY <1>1, <1>2, <1>3, <1>4, <1>5, <1>6, <1>7, <1>9, <1>10

LEMMA TakeProcessedEffects ==
    ASSUME TInv, NEW p \in Places, TakeProcessed(p)
    PROVE  \E e0 \in Events :
             /\ p = Place(p[1], e0) /\ p[1] \in Consumers /\ e0 = queue[p][1].ev
             /\ Elsewhere(p[1], e0) /\ TakenAt(p)
             /\ 1 \in Slots(p[1], e0) /\ (One(Slots(p[1], e0)) => Slots(p[1], e0)' = {})
             /\ Tags(p[1], e0)' \subseteq Tags(p[1], e0)
             /\ ~IsBusy(p) /\ ~IsBusy(p)'
             /\ e0 \in processed[p[1]]
             /\ SameTask(p[1], e0) /\ SameLetters(p[1], e0) /\ SameCalls(p[1], e0)
             /\ SamePuts(p[1], e0) /\ SameBooks(p[1], e0)
             /\ UNCHANGED <<used, returned, tries, processed, accepted>>
  <1>1. /\ TInv' /\ TakenAt(p) /\ OtherTasks(p)
        /\ worker[p].stage = "idle" /\ ~IsBusy(p)' /\ worker'[p].rest = {}
        /\ queue[p][1] \in Item
        /\ queue[p][1].ev \in processed[p[1]]
        /\ UNCHANGED <<inflight, processed, dead, lifeVars, caller, used, ghostVars>>
    BY DoTakeProcessed
  <1>2. PICK e0 \in Events : e0 = queue[p][1].ev
    BY <1>1 DEF Item
  <1>3. ~IsBusy(p)
    BY <1>1 DEF IsBusy, Busy
  <1>4. p = Place(p[1], e0) /\ p[1] \in Consumers
    <2>1. 1 \in 1..Len(queue[p])
      BY <1>1 DEF TakenAt
    <2> QED
      BY <1>2, <2>1, PlaceParts DEF TInv, QueuesOK
  <1>6. /\ accepted' = accepted /\ returned' = returned /\ tries' = tries
        /\ worker[p].rest = {}
    BY <1>1 DEF ghostVars, TInv, TasksOK, TaskOK
  <1>7. ASSUME NEW c \in Consumers, NEW e \in Events
        PROVE  /\ SameLetters(c, e) /\ SameCalls(c, e) /\ SamePuts(c, e) /\ SameBooks(c, e)
               /\ SameTask(c, e)
    <2>1. SameLetters(c, e) /\ SameCalls(c, e) /\ SamePuts(c, e) /\ SameBooks(c, e)
      BY <1>1, <1>6, LettersAreSame, CallsAreSame, PutsQuiet, BooksAreSame DEF SamePuts
    <2>2. CASE Place(c, e) # p
      BY <1>1, <2>1, <2>2, TaskSame, PlaceType DEF OtherTasks
    <2>3. CASE Place(c, e) = p
      <3>1. Holds(c, e) = FALSE /\ Holds(c, e)' = FALSE
        BY <1>1, <1>3, <2>3, HoldsHere, HoldsAfter DEF Holds
      <3>2. /\ Failed(c, e) = FALSE /\ GivingUp(c, e) = FALSE
            /\ Failed(c, e)' = FALSE /\ GivingUp(c, e)' = FALSE
        BY <3>1 DEF Failed, GivingUp
      <3> QED
        BY <2>1, <3>1, <3>2 DEF SameTask
    <2> QED
      BY <2>1, <2>2, <2>3
  <1>8. ASSUME NEW c \in Consumers, NEW e \in Events, ~(c = p[1] /\ e = e0)
        PROVE  Untouched(c, e)
    <2>2. ~(Place(c, e) = p /\ e = e0)
      BY <1>4, <1>8, SamePlace
    <2>3. SameQueued(c, e)
      BY <1>1, <1>2, <2>2, TagsTaken
    <2> QED
      BY <1>7, <2>3 DEF Untouched
  <1>9. /\ 1 \in Slots(p[1], e0) /\ (One(Slots(p[1], e0)) => Slots(p[1], e0)' = {})
        /\ Tags(p[1], e0)' \subseteq Tags(p[1], e0)
    BY <1>1, <1>2, <1>4, TagsTaken, TakeEffect
  <1>10. Elsewhere(p[1], e0)
    BY <1>8 DEF Elsewhere
  <1> QED
    BY <1>1, <1>2, <1>3, <1>4, <1>6, <1>7, <1>9, <1>10
LEMMA HandlerPublishesEffect ==
    ASSUME TInv, NEW p \in Places, HandlerPublishes(p)
    PROVE  \E e0 \in Events :
             /\ \A c \in Consumers, e \in Events :
                  /\ SameQueued(c, e) /\ SameTask(c, e) /\ SameLetters(c, e)
                  /\ SameCalls(c, e) /\ SameBooks(c, e)
                  /\ e # e0 => SamePuts(c, e)
                  /\ Puts(c, e)' \subseteq Puts(c, e) \cup {p}
             /\ used'.publications[e0] = used.publications[e0] + 1
             /\ \A e \in Events : e # e0 => used'.publications[e] = used.publications[e]
             /\ used'.redrives = used.redrives
             /\ used.publications[e0] < MaxPublications[e0]
             /\ UNCHANGED <<accepted, returned, tries, queue>>
  <1>1. PICK e0 \in Events :
          /\ TInv' /\ OtherTasks(p)
          /\ e0 = Child[<<p[1], worker[p].ev>>]
          /\ worker[p].stage = "handler" /\ worker'[p].stage = "publish"
          /\ worker'[p].ev = worker[p].ev /\ worker'[p].attempt = worker[p].attempt
          /\ worker'[p].rest = Targets(e0)
          /\ used'.publications[e0] = used.publications[e0] + 1
          /\ \A f \in Events : f # e0 => used'.publications[f] = used.publications[f]
          /\ used'.redrives = used.redrives
          /\ UNCHANGED <<queue, unfinished, inflight, processed, dead, lifeVars, caller, ghostVars>>
    BY DoHandlerPublishes
  <1>2. accepted' = accepted /\ returned' = returned /\ tries' = tries
    BY <1>1 DEF ghostVars
  <1>3. worker[p].rest = {}
    BY <1>1 DEF TInv, TasksOK, TaskOK
  <1>4. ASSUME NEW c \in Consumers, NEW e \in Events
        PROVE  /\ SameQueued(c, e) /\ SameTask(c, e) /\ SameLetters(c, e)
               /\ SameCalls(c, e) /\ SameBooks(c, e)
               /\ e # e0 => SamePuts(c, e)
               /\ Puts(c, e)' \subseteq Puts(c, e) \cup {p}
    <2>1. SameQueued(c, e) /\ SameLetters(c, e) /\ SameCalls(c, e) /\ SameBooks(c, e)
      BY <1>1, <1>2, QueuedSame, LettersAreSame, CallsAreSame, BooksAreSame
    <2>2. /\ e # e0 => SamePuts(c, e)
          /\ Puts(c, e)' \subseteq Puts(c, e) \cup {p}
      BY <1>1, <1>3, PutsBegun DEF SamePuts
    <2>3. SameTask(c, e)
      <3>1. CASE Place(c, e) # p
        BY <1>1, <3>1, TaskSame, PlaceType DEF OtherTasks
      <3>2. CASE Place(c, e) = p
        <4>1. IsBusy(p) = TRUE /\ IsBusy(p)' = TRUE
          BY <1>1 DEF IsBusy, Busy
        <4>2. Holds(c, e)' = Holds(c, e)
          BY <1>1, <3>2, <4>1 DEF Holds, Place, IsBusy
        <4>3. Failed(c, e) = FALSE /\ Failed(c, e)' = FALSE /\ GivingUp(c, e) = FALSE /\ GivingUp(c, e)' = FALSE
          BY <1>1, <3>2 DEF Failed, GivingUp, Place
        <4> QED
          BY <1>1, <3>2, <4>2, <4>3 DEF SameTask
      <3> QED
        BY <3>1, <3>2
    <2> QED
      BY <2>1, <2>2, <2>3
  <1>5. used.publications[e0] < MaxPublications[e0]
    BY <1>1 DEF HandlerPublishes
  <1> QED
    BY <1>1, <1>2, <1>4, <1>5

LEMMA WorkerPutEffect ==
    ASSUME TInv, NEW p \in Places, WorkerPut(p)
    PROVE  \E c0 \in Consumers, e0 \in Events :
             /\ Elsewhere(c0, e0) /\ PutAt(c0, e0)
             /\ \E n : Slots(c0, e0)' = Slots(c0, e0) \cup {n}
             /\ Tags(c0, e0)' = Tags(c0, e0) \cup {1}
             /\ SameTask(c0, e0) /\ SameLetters(c0, e0) /\ SameCalls(c0, e0)
             /\ p \in Puts(c0, e0) /\ Puts(c0, e0)' = Puts(c0, e0) \ {p}
             /\ IsAccepted(c0, e0)'
             /\ UNCHANGED <<used, returned, tries, processed>>
  <1>1. PICK c0 \in Consumers, e0 \in Events :
          /\ TInv' /\ OtherTasks(p)
          /\ e0 = Child[<<p[1], worker[p].ev>>]
          /\ c0 \in worker[p].rest
          /\ PutAt(c0, e0)
          /\ worker[p].stage = "publish" /\ worker'[p].stage = "publish"
          /\ worker'[p].ev = worker[p].ev /\ worker'[p].attempt = worker[p].attempt
          /\ worker'[p].rest = worker[p].rest \ {c0}
          /\ UNCHANGED <<inflight, processed, dead, lifeVars, caller, used, returned, tries>>
    BY DoWorkerPut
  <1>2. PICK q \in Places : q = Place(c0, e0)
    BY PlaceType
  <1>3. /\ \A r \in Places : r # q => queue'[r] = queue[r]
        /\ Len(queue'[q]) = Len(queue[q]) + 1
        /\ \A i \in 1..Len(queue[q]) : queue'[q][i] = queue[q][i]
        /\ queue'[q][Len(queue[q]) + 1] = [ev |-> e0, attempt |-> 1]
    BY <1>1, <1>2 DEF PutAt
  <1>4. ASSUME NEW c \in Consumers, NEW e \in Events
        PROVE  /\ SameTask(c, e) /\ SameLetters(c, e) /\ SameCalls(c, e)
               /\ ~(c = c0 /\ e = e0) => Puts(c, e)' = Puts(c, e)
               /\ c = c0 /\ e = e0 => p \in Puts(c, e) /\ Puts(c, e)' = Puts(c, e) \ {p}
    <2>1. SameLetters(c, e) /\ SameCalls(c, e)
      BY <1>1, LettersAreSame, CallsAreSame
    <2>2. /\ ~(c = c0 /\ e = e0) => Puts(c, e)' = Puts(c, e)
          /\ c = c0 /\ e = e0 => p \in Puts(c, e) /\ Puts(c, e)' = Puts(c, e) \ {p}
      BY <1>1, PutsDone
    <2>3. SameTask(c, e)
      <3>1. CASE Place(c, e) # p
        BY <1>1, <3>1, TaskSame, PlaceType DEF OtherTasks
      <3>2. CASE Place(c, e) = p
        <4>1. IsBusy(p) = TRUE /\ IsBusy(p)' = TRUE
          BY <1>1 DEF IsBusy, Busy
        <4>2. Holds(c, e)' = Holds(c, e)
          BY <1>1, <3>2, <4>1 DEF Holds, Place, IsBusy
        <4>3. Failed(c, e) = FALSE /\ Failed(c, e)' = FALSE /\ GivingUp(c, e) = FALSE /\ GivingUp(c, e)' = FALSE
          BY <1>1, <3>2 DEF Failed, GivingUp, Place
        <4> QED
          BY <1>1, <3>2, <4>2, <4>3 DEF SameTask
      <3> QED
        BY <3>1, <3>2
    <2> QED
      BY <2>1, <2>2, <2>3
  <1>5. ASSUME NEW c \in Consumers, NEW e \in Events, ~(c = c0 /\ e = e0)
        PROVE  Untouched(c, e)
    <2>1. SameQueued(c, e)
      <3>1. ~(Place(c, e) = q /\ e = e0)
        BY <1>2, <1>5, SamePlace
      <3> QED
        BY <1>3, <3>1, TagsPushed
    <2>2. IsAccepted(c, e)' = IsAccepted(c, e)
      BY <1>1, <1>5, PutEffect
    <2>4. SameBooks(c, e)
      BY <1>1, <2>2 DEF SameBooks
    <2> QED
      BY <1>4, <1>5, <2>1, <2>4 DEF Untouched, SamePuts
  <1>6. /\ Slots(c0, e0)' = Slots(c0, e0) \cup {Len(queue[q]) + 1}
        /\ Tags(c0, e0)' = Tags(c0, e0) \cup {1}
    BY <1>2, <1>3, TagsPushed
  <1>8. IsAccepted(c0, e0)'
    BY <1>1, PutEffect
  <1>9. Elsewhere(c0, e0)
    BY <1>5 DEF Elsewhere
  <1> QED
    BY <1>1, <1>4, <1>6, <1>8, <1>9

\* The worker that had an event in hand, and the places of the others.
LEMMA HeldBy ==
    ASSUME TInv, NEW p \in Places, worker[p].stage \in Busy
    PROVE  /\ worker[p].ev \in Events /\ p[1] \in Consumers /\ IsBusy(p)
           /\ p = Place(p[1], worker[p].ev) /\ Holds(p[1], worker[p].ev)
  BY HoldsHere DEF IsBusy

LEMMA HandlerReturnsEffect ==
    ASSUME TInv, NEW p \in Places, HandlerReturns(p)
    PROVE  \E e0 \in Events :
             /\ p = Place(p[1], e0) /\ p[1] \in Consumers
             /\ Elsewhere(p[1], e0)
             /\ Holds(p[1], e0) /\ ~Failed(p[1], e0) /\ ~Holds(p[1], e0)'
             /\ SameQueued(p[1], e0) /\ SameLetters(p[1], e0) /\ SameCalls(p[1], e0) /\ SamePuts(p[1], e0)
             /\ IsAccepted(p[1], e0)' = IsAccepted(p[1], e0)
             /\ returned'[p[1]][e0] = returned[p[1]][e0] + 1
             /\ tries'[p[1]][e0] = tries[p[1]][e0]
             /\ e0 \in processed'[p[1]]
             /\ UNCHANGED <<used, queue, accepted, tries, dead>>
             /\ ~IsBusy(p)'
  <1>1. PICK e0 \in Events :
          /\ TInv' /\ OtherTasks(p) /\ Rests(p)
          /\ e0 = worker[p].ev
          /\ worker[p].stage \in {"handler", "publish"} /\ worker[p].rest = {}
          /\ processed' = [processed EXCEPT ![p[1]] = @ \cup {e0}]
          /\ returned'[p[1]][e0] = returned[p[1]][e0] + 1
          /\ OthersSame(returned, returned', p[1], e0)
          /\ UNCHANGED <<queue, dead, lifeVars, caller, used, accepted, tries>>
    BY DoHandlerReturns
  <1>2. /\ p[1] \in Consumers /\ IsBusy(p) /\ p = Place(p[1], e0) /\ Holds(p[1], e0)
        /\ ~IsBusy(p)' /\ worker'[p].rest = {}
    BY <1>1, HeldBy DEF Busy, Rests
  <1>3. ~Failed(p[1], e0) /\ ~Holds(p[1], e0)'
    BY <1>1, <1>2, HoldsAfter DEF Failed
  <1>4. processed \in [Consumers -> SUBSET Events]
    BY DEF TInv, BooksOK
  <1>5. ASSUME NEW c \in Consumers, NEW e \in Events
        PROVE  /\ SameQueued(c, e) /\ SameLetters(c, e) /\ SameCalls(c, e) /\ SamePuts(c, e)
               /\ IsAccepted(c, e)' = IsAccepted(c, e)
    BY <1>1, <1>2, QueuedSame, LettersAreSame, CallsAreSame, PutsQuiet DEF SamePuts, IsAccepted
  <1>6. ASSUME NEW c \in Consumers, NEW e \in Events, ~(c = p[1] /\ e = e0)
        PROVE  Untouched(c, e)
    <2>1. SameTask(c, e)
      BY <1>1, <1>2, <1>6, TaskOthers
    <2>2. SameBooks(c, e)
      BY <1>1, <1>4, <1>5, <1>6 DEF SameBooks, OthersSame
    <2> QED
      BY <1>5, <2>1, <2>2 DEF Untouched
  <1>7. Elsewhere(p[1], e0)
    BY <1>6 DEF Elsewhere
  <1>8. e0 \in processed'[p[1]]
    BY <1>1, <1>2, <1>4
  <1> QED
    BY <1>1, <1>2, <1>3, <1>5, <1>7, <1>8

LEMMA HandlerRaisesEffect ==
    ASSUME TInv, NEW p \in Places, HandlerRaises(p)
    PROVE  \E e0 \in Events :
             /\ p = Place(p[1], e0) /\ p[1] \in Consumers
             /\ Elsewhere(p[1], e0) /\ e0 \in Failing
             /\ Holds(p[1], e0) /\ ~Failed(p[1], e0) /\ Holds(p[1], e0)' /\ Failed(p[1], e0)'
             /\ GivingUp(p[1], e0)' => worker[p].attempt = MaxAttempts
             /\ worker'[p].attempt = worker[p].attempt /\ worker[p].attempt \in 1..MaxAttempts
             /\ SameQueued(p[1], e0) /\ SameLetters(p[1], e0) /\ SameCalls(p[1], e0) /\ SamePuts(p[1], e0)
             /\ IsAccepted(p[1], e0)' = IsAccepted(p[1], e0)
             /\ tries'[p[1]][e0] = tries[p[1]][e0] + 1
             /\ OthersSame(tries, tries', p[1], e0)
             /\ UNCHANGED <<used, queue, accepted, returned, processed, dead>>
  <1>1. PICK e0 \in Events :
          /\ TInv' /\ OtherTasks(p)
          /\ e0 = worker[p].ev /\ e0 \in Failing
          /\ worker[p].stage \in {"handler", "publish"} /\ worker[p].rest = {}
          /\ worker[p].attempt \in 1..MaxAttempts
          /\ worker'[p].stage \in {"retry", "bury"}
          /\ worker'[p].stage = "bury" => worker[p].attempt = MaxAttempts
          /\ worker'[p].ev = e0 /\ worker'[p].attempt = worker[p].attempt
          /\ worker'[p].rest = {}
          /\ tries'[p[1]][e0] = tries[p[1]][e0] + 1
          /\ OthersSame(tries, tries', p[1], e0)
          /\ UNCHANGED <<queue, unfinished, inflight, processed, dead, lifeVars, caller, used,
                         accepted, returned>>
    BY DoHandlerRaises
  <1>2. p[1] \in Consumers /\ IsBusy(p) /\ p = Place(p[1], e0) /\ Holds(p[1], e0)
    BY <1>1, HeldBy DEF Busy
  <1>3. IsBusy(p)' /\ Holds(p[1], e0)'
    BY <1>1, <1>2, HoldsAfter DEF IsBusy, Busy
  <1>4. ~Failed(p[1], e0) /\ Failed(p[1], e0)' /\ (GivingUp(p[1], e0)' => worker[p].attempt = MaxAttempts)
    BY <1>1, <1>2, <1>3 DEF Failed, GivingUp, Place
  <1>5. ASSUME NEW c \in Consumers, NEW e \in Events
        PROVE  /\ SameQueued(c, e) /\ SameLetters(c, e) /\ SameCalls(c, e) /\ SamePuts(c, e)
               /\ IsAccepted(c, e)' = IsAccepted(c, e)
    BY <1>1, <1>2, QueuedSame, LettersAreSame, CallsAreSame, PutsQuiet DEF SamePuts, IsAccepted
  <1>6. ASSUME NEW c \in Consumers, NEW e \in Events, ~(c = p[1] /\ e = e0)
        PROVE  Untouched(c, e)
    <2>1. SameTask(c, e)
      BY <1>1, <1>2, <1>6, TaskOthers
    <2>2. SameBooks(c, e)
      BY <1>1, <1>5, <1>6 DEF SameBooks, OthersSame
    <2> QED
      BY <1>5, <2>1, <2>2 DEF Untouched
  <1>7. Elsewhere(p[1], e0)
    BY <1>6 DEF Elsewhere
  <1> QED
    BY <1>1, <1>2, <1>3, <1>4, <1>5, <1>7

LEMMA RetryEffects ==
    ASSUME TInv, NEW p \in Places, Retry(p)
    PROVE  \E e0 \in Events :
             /\ p = Place(p[1], e0) /\ p[1] \in Consumers /\ e0 = worker[p].ev
             /\ Elsewhere(p[1], e0) /\ RetryAt(p)
             /\ \E n : Slots(p[1], e0)' = Slots(p[1], e0) \cup {n}
             /\ Tags(p[1], e0)' = Tags(p[1], e0) \cup {worker[p].attempt + 1}
             /\ Holds(p[1], e0) /\ Failed(p[1], e0) /\ ~Holds(p[1], e0)' /\ ~IsBusy(p)'
             /\ SameLetters(p[1], e0) /\ SameCalls(p[1], e0) /\ SamePuts(p[1], e0) /\ SameBooks(p[1], e0)
             /\ UNCHANGED <<used, accepted, returned, tries, processed, dead>>
  <1>1. /\ TInv' /\ OtherTasks(p) /\ RetryAt(p)
        /\ worker[p].stage = "retry" /\ worker'[p].stage = "idle" /\ worker'[p].rest = {}
        /\ UNCHANGED <<unfinished, processed, dead, lifeVars, caller, used, ghostVars>>
    BY DoRetry
  <1>2. PICK e0 : e0 = worker[p].ev
    OBVIOUS
  <1>3. /\ e0 \in Events /\ p[1] \in Consumers /\ IsBusy(p) /\ p = Place(p[1], e0) /\ Holds(p[1], e0)
        /\ worker[p].rest = {}
    BY <1>1, <1>2, HeldBy DEF Busy, TInv, TasksOK, TaskOK
  <1>4. ~IsBusy(p)' /\ ~Holds(p[1], e0)'
    BY <1>1, <1>3, HoldsAfter DEF IsBusy, Busy
  <1>5. Failed(p[1], e0)
    BY <1>1, <1>3 DEF Failed
  <1>6. accepted' = accepted /\ returned' = returned /\ tries' = tries
    BY <1>1 DEF ghostVars
  <1>7. ASSUME NEW c \in Consumers, NEW e \in Events
        PROVE  /\ SameLetters(c, e) /\ SameCalls(c, e) /\ SamePuts(c, e) /\ SameBooks(c, e)
    BY <1>1, <1>3, <1>6, LettersAreSame, CallsAreSame, PutsQuiet, BooksAreSame DEF SamePuts
  <1>8. /\ \A q \in Places : q # p => queue'[q] = queue[q]
        /\ Len(queue'[p]) = Len(queue[p]) + 1
        /\ \A i \in 1..Len(queue[p]) : queue'[p][i] = queue[p][i]
        /\ queue'[p][Len(queue[p]) + 1] = [ev |-> e0, attempt |-> worker[p].attempt + 1]
    BY <1>1, <1>2 DEF RetryAt
  <1>9. ASSUME NEW c \in Consumers, NEW e \in Events, ~(c = p[1] /\ e = e0)
        PROVE  Untouched(c, e)
    <2>1. SameTask(c, e)
      BY <1>1, <1>2, <1>3, <1>4, <1>9, TaskOthers
    <2>2. ~(Place(c, e) = p /\ e = e0)
      BY <1>3, <1>9, SamePlace
    <2>3. SameQueued(c, e)
      BY <1>3, <1>8, <2>2, TagsPushed
    <2> QED
      BY <1>7, <2>1, <2>3 DEF Untouched
  <1>10. /\ Slots(p[1], e0)' = Slots(p[1], e0) \cup {Len(queue[p]) + 1}
         /\ Tags(p[1], e0)' = Tags(p[1], e0) \cup {worker[p].attempt + 1}
    BY <1>3, <1>8, TagsPushed
  <1>11. Elsewhere(p[1], e0)
    BY <1>9 DEF Elsewhere
  <1> QED
    BY <1>1, <1>2, <1>3, <1>4, <1>5, <1>6, <1>7, <1>10, <1>11

LEMMA BuryEffect ==
    ASSUME TInv, NEW p \in Places, Bury(p)
    PROVE  \E e0 \in Events :
             /\ p = Place(p[1], e0) /\ p[1] \in Consumers /\ e0 = worker[p].ev
             /\ Elsewhere(p[1], e0)
             /\ \E n : Letters(p[1], e0)' = Letters(p[1], e0) \cup {n}
             /\ Holds(p[1], e0) /\ Failed(p[1], e0) /\ GivingUp(p[1], e0)
             /\ ~Holds(p[1], e0)' /\ ~IsBusy(p)'
             /\ SameQueued(p[1], e0) /\ SameCalls(p[1], e0) /\ SamePuts(p[1], e0) /\ SameBooks(p[1], e0)
             /\ UNCHANGED <<used, queue, accepted, returned, tries, processed>>
  <1>1. PICK e0 \in Events :
          /\ TInv' /\ OtherTasks(p) /\ Rests(p)
          /\ e0 = worker[p].ev /\ worker[p].stage = "bury"
          /\ Len(dead[p[1]]) \in Nat /\ Len(dead'[p[1]]) = Len(dead[p[1]]) + 1
          /\ \A i \in 1..Len(dead[p[1]]) : dead'[p[1]][i] = dead[p[1]][i]
          /\ dead'[p[1]][Len(dead[p[1]]) + 1] = e0
          /\ \A d \in Consumers : d # p[1] => dead'[d] = dead[d]
          /\ UNCHANGED <<queue, processed, lifeVars, caller, used, ghostVars>>
    BY DoBury
  <1>3. /\ p[1] \in Consumers /\ IsBusy(p) /\ p = Place(p[1], e0) /\ Holds(p[1], e0)
        /\ worker[p].rest = {} /\ ~IsBusy(p)' /\ worker'[p].rest = {}
    BY <1>1, HeldBy DEF Busy, TInv, TasksOK, TaskOK, Rests
  <1>4. ~Holds(p[1], e0)'
    BY <1>1, <1>3, HoldsAfter
  <1>5. Failed(p[1], e0) /\ GivingUp(p[1], e0)
    BY <1>1, <1>3 DEF Failed, GivingUp
  <1>6. accepted' = accepted /\ returned' = returned /\ tries' = tries
    BY <1>1 DEF ghostVars
  <1>7. ASSUME NEW c \in Consumers, NEW e \in Events
        PROVE  /\ SameQueued(c, e) /\ SameCalls(c, e) /\ SamePuts(c, e) /\ SameBooks(c, e)
               /\ ~(c = p[1] /\ e = e0) => Letters(c, e)' = Letters(c, e)
               /\ c = p[1] /\ e = e0 => Letters(c, e)' = Letters(c, e) \cup {Len(dead[p[1]]) + 1}
    <2>1. SameQueued(c, e) /\ SameCalls(c, e) /\ SamePuts(c, e) /\ SameBooks(c, e)
      BY <1>1, <1>3, <1>6, QueuedSame, CallsAreSame, PutsQuiet, BooksAreSame DEF SamePuts
    <2>2. /\ ~(c = p[1] /\ e = e0) => Letters(c, e)' = Letters(c, e)
          /\ c = p[1] /\ e = e0 => Letters(c, e)' = Letters(c, e) \cup {Len(dead[p[1]]) + 1}
      BY <1>1, <1>3, LettersBuried
    <2> QED
      BY <2>1, <2>2
  <1>9. ASSUME NEW c \in Consumers, NEW e \in Events, ~(c = p[1] /\ e = e0)
        PROVE  Untouched(c, e)
    <2>1. SameTask(c, e)
      BY <1>1, <1>3, <1>9, TaskOthers
    <2> QED
      BY <1>7, <1>9, <2>1 DEF Untouched, SameLetters, Steady
  <1>11. Elsewhere(p[1], e0)
    BY <1>9 DEF Elsewhere
  <1> QED
    BY <1>1, <1>3, <1>4, <1>5, <1>6, <1>7, <1>11

\* A start or a cancellation: tasks may lose what they have in hand.
Shrunk(c, e) ==
    /\ SameQueued(c, e) /\ SameLetters(c, e) /\ SameCalls(c, e) /\ SameBooks(c, e)
    /\ Puts(c, e)' \subseteq Puts(c, e)
    /\ SameTask(c, e) \/ ~Holds(c, e)'

LEMMA RestartEffect ==
    ASSUME TInv, Start \/ \E d \in Consumers : CancelDispatcher(d),
           NEW c \in Consumers, NEW e \in Events
    PROVE  Shrunk(c, e) /\ UNCHANGED <<queue, used, accepted, returned, tries, processed>>
  <1>1. /\ UNCHANGED <<queue, processed, dead, caller, used, accepted, returned, tries>>
        /\ \A p \in Places : worker'[p] = worker[p] \/ (~IsBusy(p)' /\ worker'[p].rest = {})
    <2>1. CASE Start
      BY <2>1, DoStart DEF IsBusy, Busy, ghostVars
    <2>2. CASE \E d \in Consumers : CancelDispatcher(d)
      BY <2>2, DoCancel DEF IsBusy, Busy
    <2> QED
      BY <2>1, <2>2
  <1>2. accepted' = accepted /\ returned' = returned /\ tries' = tries
    BY <1>1 DEF ghostVars
  <1>3. SameQueued(c, e) /\ SameLetters(c, e) /\ SameCalls(c, e) /\ SameBooks(c, e)
    BY <1>1, <1>2, QueuedSame, LettersAreSame, CallsAreSame, BooksAreSame
  <1>4. Puts(c, e)' \subseteq Puts(c, e)
    BY <1>1 DEF Puts
  <1>5. SameTask(c, e) \/ ~Holds(c, e)'
    <2>1. CASE worker'[Place(c, e)] = worker[Place(c, e)]
      BY <2>1, TaskSame
    <2>2. CASE worker'[Place(c, e)] # worker[Place(c, e)]
      <3>1. ~IsBusy(Place(c, e))'
        BY <1>1, <2>2, PlaceType
      <3> QED
        BY <3>1 DEF Holds, Place, IsBusy
    <2> QED
      BY <2>1, <2>2
  <1> QED
    BY <1>1, <1>2, <1>3, <1>4, <1>5 DEF Shrunk

\* The rest of the life cycle touches no event.
LEMMA LifeEffect ==
    ASSUME TInv, Stop \/ Drained \/ (\E p \in Places : Join(p)) \/ UNCHANGED busVars,
           NEW c \in Consumers, NEW e \in Events
    PROVE  /\ Untouched(c, e)
           /\ used'.publications = used.publications /\ used'.redrives = used.redrives
           /\ UNCHANGED <<queue, worker, accepted, returned, tries, processed>>
  <1>1. /\ UNCHANGED <<runVars, processed, dead, caller, ghostVars>>
        /\ used'.publications = used.publications /\ used'.redrives = used.redrives
    <2>1. CASE UNCHANGED busVars
      BY <2>1 DEF busVars
    <2> QED
      BY <2>1, DoStop, DoDrained, DoJoin
  <1>2. queue' = queue /\ worker' = worker /\ accepted' = accepted /\ returned' = returned /\ tries' = tries
    BY <1>1 DEF runVars, ghostVars
  <1>3. SameQueued(c, e) /\ SameTask(c, e) /\ SameLetters(c, e)
    BY <1>1, <1>2, QueuedSame, TaskSame, LettersAreSame
  <1>4. SameCalls(c, e) /\ SamePuts(c, e) /\ SameBooks(c, e)
    BY <1>1, <1>2, CallsAreSame, PutsAreSame, BooksAreSame
  <1> QED
    BY <1>1, <1>2, <1>3, <1>4 DEF Untouched
-----------------------------------------------------------------------------
(* What a step may do to an event, for a consumer: one of eleven things.   *)

UsedSame(e) == used'.publications[e] = used.publications[e] /\ used'.redrives = used.redrives

Passed(c, e) ==
    /\ Untouched(c, e)
    /\ used'.publications[e] = used.publications[e]
    /\ used'.redrives \in {used.redrives, used.redrives + 1}

\* A publication begins.
Announced(c, e) ==
    /\ SameQueued(c, e) /\ SameTask(c, e) /\ SameLetters(c, e) /\ SameBooks(c, e)
    /\ \/ SameCalls(c, e) /\ \E x : Puts(c, e)' \subseteq Puts(c, e) \cup {x}
       \/ SamePuts(c, e) /\ Calls(c, e) \subseteq Calls(c, e)'
          /\ \E x : Calls(c, e)' \subseteq Calls(c, e) \cup {x}
    /\ used'.publications[e] = used.publications[e] + 1
    /\ used.publications[e] < MaxPublications[e]
    /\ used'.redrives = used.redrives

\* A publication or redrive puts it in the queue.
Delivered(c, e) ==
    /\ \E n : Slots(c, e)' = Slots(c, e) \cup {n}
    /\ Tags(c, e)' = Tags(c, e) \cup {1}
    /\ SameTask(c, e) /\ SameLetters(c, e)
    /\ \/ SamePuts(c, e) /\ \E x \in Calls(c, e) : Calls(c, e)' = Calls(c, e) \ {x}
       \/ SameCalls(c, e) /\ \E x \in Puts(c, e) : Puts(c, e)' = Puts(c, e) \ {x}
    /\ IsAccepted(c, e)'
    /\ returned'[c][e] = returned[c][e] /\ tries'[c][e] = tries[c][e]
    /\ e \in processed'[c] <=> e \in processed[c]
    /\ UsedSame(e)

Removes(c, e) ==
    /\ ~IsBusy(Place(c, e))
    /\ 1 \in Slots(c, e) /\ (One(Slots(c, e)) => Slots(c, e)' = {})
    /\ Tags(c, e)' \subseteq Tags(c, e)

Taken(c, e) ==
    /\ Removes(c, e)
    /\ ~Holds(c, e) /\ Holds(c, e)' /\ ~Failed(c, e)' /\ ~GivingUp(c, e)'
    /\ worker'[Place(c, e)].attempt \in Tags(c, e)
    /\ e \notin processed[c]
    /\ SameLetters(c, e) /\ SameCalls(c, e) /\ SamePuts(c, e) /\ SameBooks(c, e)
    /\ UsedSame(e)

Skipped(c, e) ==
    /\ Removes(c, e) /\ e \in processed[c]
    /\ SameTask(c, e) /\ SameLetters(c, e) /\ SameCalls(c, e) /\ SamePuts(c, e) /\ SameBooks(c, e)
    /\ UsedSame(e)

Returned(c, e) ==
    /\ Holds(c, e) /\ ~Failed(c, e) /\ ~Holds(c, e)'
    /\ SameQueued(c, e) /\ SameLetters(c, e) /\ SameCalls(c, e) /\ SamePuts(c, e)
    /\ IsAccepted(c, e)' = IsAccepted(c, e)
    /\ returned'[c][e] = returned[c][e] + 1 /\ tries'[c][e] = tries[c][e]
    /\ e \in processed'[c]
    /\ UsedSame(e)

Raised(c, e) ==
    /\ e \in Failing
    /\ Holds(c, e) /\ ~Failed(c, e) /\ Holds(c, e)' /\ Failed(c, e)'
    /\ GivingUp(c, e)' => worker[Place(c, e)].attempt = MaxAttempts
    /\ worker'[Place(c, e)].attempt = worker[Place(c, e)].attempt
    /\ worker[Place(c, e)].attempt \in 1..MaxAttempts
    /\ SameQueued(c, e) /\ SameLetters(c, e) /\ SameCalls(c, e) /\ SamePuts(c, e)
    /\ IsAccepted(c, e)' = IsAccepted(c, e)
    /\ returned'[c][e] = returned[c][e] /\ tries'[c][e] = tries[c][e] + 1
    /\ e \in processed'[c] <=> e \in processed[c]
    /\ UsedSame(e)

Requeued(c, e) ==
    /\ \E n : Slots(c, e)' = Slots(c, e) \cup {n}
    /\ Tags(c, e)' = Tags(c, e) \cup {worker[Place(c, e)].attempt + 1}
    /\ Holds(c, e) /\ Failed(c, e) /\ ~Holds(c, e)'
    /\ SameLetters(c, e) /\ SameCalls(c, e) /\ SamePuts(c, e) /\ SameBooks(c, e)
    /\ UsedSame(e)

Buried(c, e) ==
    /\ \E n : Letters(c, e)' = Letters(c, e) \cup {n}
    /\ Holds(c, e) /\ Failed(c, e) /\ GivingUp(c, e) /\ ~Holds(c, e)'
    /\ SameQueued(c, e) /\ SameCalls(c, e) /\ SamePuts(c, e) /\ SameBooks(c, e)
    /\ UsedSame(e)

Redriven(c, e) ==
    /\ SameQueued(c, e) /\ SameTask(c, e) /\ SamePuts(c, e)
    /\ Letters(c, e) # {} /\ (One(Letters(c, e)) => Letters(c, e)' = {})
    /\ \E x : Calls(c, e)' = Calls(c, e) \cup {x}
    /\ IsAccepted(c, e)' = IsAccepted(c, e)
    /\ returned'[c][e] = returned[c][e] /\ tries'[c][e] = 0
    /\ e \notin processed'[c]
    /\ used'.publications[e] = used.publications[e]
    /\ used'.redrives = used.redrives + 1

Cut(c, e) ==
    /\ Shrunk(c, e)
    /\ UsedSame(e)
    /\ Start \/ \E d \in Consumers : CancelDispatcher(d)

LEMMA KindsOfWork ==
    ASSUME TInv, NEW p \in Places, Work(p), NEW c \in Consumers, NEW e \in Events
    PROVE  \/ Passed(c, e) \/ Announced(c, e) \/ Delivered(c, e) \/ Taken(c, e) \/ Skipped(c, e)
           \/ Returned(c, e) \/ Raised(c, e) \/ Requeued(c, e) \/ Buried(c, e)
  <1>0. ASSUME NEW c0 \in Consumers, NEW e0 \in Events, Elsewhere(c0, e0), ~(c = c0 /\ e = e0), used' = used
        PROVE  Passed(c, e)
    BY <1>0 DEF Elsewhere, Passed
  <1>1. CASE Take(p)
    <2>1. PICK e0 \in Events :
             /\ p = Place(p[1], e0) /\ p[1] \in Consumers /\ e0 = queue[p][1].ev
             /\ Elsewhere(p[1], e0) /\ TakenAt(p)
             /\ 1 \in Slots(p[1], e0) /\ (One(Slots(p[1], e0)) => Slots(p[1], e0)' = {})
             /\ Tags(p[1], e0)' \subseteq Tags(p[1], e0)
             /\ ~IsBusy(p) /\ ~Holds(p[1], e0)
             /\ Holds(p[1], e0)' /\ ~Failed(p[1], e0)' /\ ~GivingUp(p[1], e0)'
             /\ worker'[p].attempt \in Tags(p[1], e0)
             /\ e0 \notin processed[p[1]]
             /\ SameLetters(p[1], e0) /\ SameCalls(p[1], e0) /\ SamePuts(p[1], e0) /\ SameBooks(p[1], e0)
             /\ UNCHANGED <<used, returned, tries, processed, accepted>>
      BY <1>1, TakeEffects
    <2>2. CASE c = p[1] /\ e = e0
      BY <2>1, <2>2 DEF Taken, Removes, UsedSame
    <2> QED
      BY <1>0, <2>1, <2>2
  <1>2. CASE TakeProcessed(p)
    <2>1. PICK e0 \in Events :
             /\ p = Place(p[1], e0) /\ p[1] \in Consumers /\ e0 = queue[p][1].ev
             /\ Elsewhere(p[1], e0) /\ TakenAt(p)
             /\ 1 \in Slots(p[1], e0) /\ (One(Slots(p[1], e0)) => Slots(p[1], e0)' = {})
             /\ Tags(p[1], e0)' \subseteq Tags(p[1], e0)
             /\ ~IsBusy(p) /\ ~IsBusy(p)'
             /\ e0 \in processed[p[1]]
             /\ SameTask(p[1], e0) /\ SameLetters(p[1], e0) /\ SameCalls(p[1], e0)
             /\ SamePuts(p[1], e0) /\ SameBooks(p[1], e0)
             /\ UNCHANGED <<used, returned, tries, processed, accepted>>
      BY <1>2, TakeProcessedEffects
    <2>2. CASE c = p[1] /\ e = e0
      BY <2>1, <2>2 DEF Skipped, Removes, UsedSame
    <2> QED
      BY <1>0, <2>1, <2>2
  <1>3. CASE HandlerPublishes(p)
    <2>1. PICK e0 \in Events :
             /\ \A d \in Consumers, f \in Events :
                  /\ SameQueued(d, f) /\ SameTask(d, f) /\ SameLetters(d, f)
                  /\ SameCalls(d, f) /\ SameBooks(d, f)
                  /\ f # e0 => SamePuts(d, f)
                  /\ Puts(d, f)' \subseteq Puts(d, f) \cup {p}
             /\ used'.publications[e0] = used.publications[e0] + 1
             /\ \A f \in Events : f # e0 => used'.publications[f] = used.publications[f]
             /\ used'.redrives = used.redrives
             /\ used.publications[e0] < MaxPublications[e0]
      BY <1>3, HandlerPublishesEffect
    <2>2. CASE e = e0
      BY <2>1, <2>2 DEF Announced
    <2>3. CASE e # e0
      BY <2>1, <2>3 DEF Passed, Untouched
    <2> QED
      BY <2>2, <2>3
  <1>4. CASE WorkerPut(p)
    <2>1. PICK c0 \in Consumers, e0 \in Events :
             /\ Elsewhere(c0, e0) /\ PutAt(c0, e0)
             /\ \E n : Slots(c0, e0)' = Slots(c0, e0) \cup {n}
             /\ Tags(c0, e0)' = Tags(c0, e0) \cup {1}
             /\ SameTask(c0, e0) /\ SameLetters(c0, e0) /\ SameCalls(c0, e0)
             /\ p \in Puts(c0, e0) /\ Puts(c0, e0)' = Puts(c0, e0) \ {p}
             /\ IsAccepted(c0, e0)'
             /\ UNCHANGED <<used, returned, tries, processed>>
      BY <1>4, WorkerPutEffect
    <2>2. CASE c = c0 /\ e = e0
      BY <2>1, <2>2 DEF Delivered, UsedSame
    <2> QED
      BY <1>0, <2>1, <2>2
  <1>5. CASE HandlerReturns(p)
    <2>1. PICK e0 \in Events :
             /\ p[1] \in Consumers
             /\ Elsewhere(p[1], e0)
             /\ Holds(p[1], e0) /\ ~Failed(p[1], e0) /\ ~Holds(p[1], e0)'
             /\ SameQueued(p[1], e0) /\ SameLetters(p[1], e0) /\ SameCalls(p[1], e0) /\ SamePuts(p[1], e0)
             /\ IsAccepted(p[1], e0)' = IsAccepted(p[1], e0)
             /\ returned'[p[1]][e0] = returned[p[1]][e0] + 1
             /\ tries'[p[1]][e0] = tries[p[1]][e0]
             /\ e0 \in processed'[p[1]]
             /\ used' = used
      BY <1>5, HandlerReturnsEffect
    <2>2. CASE c = p[1] /\ e = e0
      BY <2>1, <2>2 DEF Returned, UsedSame
    <2> QED
      BY <1>0, <2>1, <2>2
  <1>6. CASE HandlerRaises(p)
    <2>1. PICK e0 \in Events :
             /\ p = Place(p[1], e0) /\ p[1] \in Consumers
             /\ Elsewhere(p[1], e0) /\ e0 \in Failing
             /\ Holds(p[1], e0) /\ ~Failed(p[1], e0) /\ Holds(p[1], e0)' /\ Failed(p[1], e0)'
             /\ GivingUp(p[1], e0)' => worker[p].attempt = MaxAttempts
             /\ worker'[p].attempt = worker[p].attempt /\ worker[p].attempt \in 1..MaxAttempts
             /\ SameQueued(p[1], e0) /\ SameLetters(p[1], e0) /\ SameCalls(p[1], e0) /\ SamePuts(p[1], e0)
             /\ IsAccepted(p[1], e0)' = IsAccepted(p[1], e0)
             /\ tries'[p[1]][e0] = tries[p[1]][e0] + 1
             /\ UNCHANGED <<used, returned, processed>>
      BY <1>6, HandlerRaisesEffect
    <2>2. CASE c = p[1] /\ e = e0
      BY <2>1, <2>2 DEF Raised, UsedSame
    <2> QED
      BY <1>0, <2>1, <2>2
  <1>7. CASE Retry(p)
    <2>1. PICK e0 \in Events :
             /\ p = Place(p[1], e0) /\ p[1] \in Consumers
             /\ Elsewhere(p[1], e0)
             /\ \E n : Slots(p[1], e0)' = Slots(p[1], e0) \cup {n}
             /\ Tags(p[1], e0)' = Tags(p[1], e0) \cup {worker[p].attempt + 1}
             /\ Holds(p[1], e0) /\ Failed(p[1], e0) /\ ~Holds(p[1], e0)'
             /\ SameLetters(p[1], e0) /\ SameCalls(p[1], e0) /\ SamePuts(p[1], e0) /\ SameBooks(p[1], e0)
             /\ used' = used
      BY <1>7, RetryEffects
    <2>2. CASE c = p[1] /\ e = e0
      BY <2>1, <2>2 DEF Requeued, UsedSame
    <2> QED
      BY <1>0, <2>1, <2>2
  <1>8. CASE Bury(p)
    <2>1. PICK e0 \in Events :
             /\ p[1] \in Consumers
             /\ Elsewhere(p[1], e0)
             /\ \E n : Letters(p[1], e0)' = Letters(p[1], e0) \cup {n}
             /\ Holds(p[1], e0) /\ Failed(p[1], e0) /\ GivingUp(p[1], e0) /\ ~Holds(p[1], e0)'
             /\ SameQueued(p[1], e0) /\ SameCalls(p[1], e0) /\ SamePuts(p[1], e0) /\ SameBooks(p[1], e0)
             /\ used' = used
      BY <1>8, BuryEffect
    <2>2. CASE c = p[1] /\ e = e0
      BY <2>1, <2>2 DEF Buried, UsedSame
    <2> QED
      BY <1>0, <2>1, <2>2
  <1> QED
    BY <1>1, <1>2, <1>3, <1>4, <1>5, <1>6, <1>7, <1>8 DEF Work

LEMMA Kinds ==
    ASSUME TInv, [BusNext]_busVars, NEW c \in Consumers, NEW e \in Events
    PROVE  \/ Passed(c, e) \/ Announced(c, e) \/ Delivered(c, e) \/ Taken(c, e) \/ Skipped(c, e)
           \/ Returned(c, e) \/ Raised(c, e) \/ Requeued(c, e) \/ Buried(c, e) \/ Redriven(c, e)
           \/ Cut(c, e)
  <1>1. ASSUME NEW t \in Callers, CallerPut(t) PROVE Passed(c, e) \/ Delivered(c, e)
    <2>1. PICK c0 \in Consumers, e0 \in Events :
             /\ Elsewhere(c0, e0) /\ PutAt(c0, e0)
             /\ \E n : Slots(c0, e0)' = Slots(c0, e0) \cup {n}
             /\ Tags(c0, e0)' = Tags(c0, e0) \cup {1}
             /\ SameTask(c0, e0) /\ SameLetters(c0, e0) /\ SamePuts(c0, e0)
             /\ t \in Calls(c0, e0) /\ Calls(c0, e0)' = Calls(c0, e0) \ {t}
             /\ IsAccepted(c0, e0)'
             /\ UNCHANGED <<used, returned, tries, processed, worker>>
      BY <1>1, CallerPutEffect
    <2>2. CASE c = c0 /\ e = e0
      BY <2>1, <2>2 DEF Delivered, UsedSame
    <2>3. CASE ~(c = c0 /\ e = e0)
      BY <2>1, <2>3 DEF Elsewhere, Passed
    <2> QED
      BY <2>2, <2>3
  <1>2. ASSUME NEW t \in Callers, NEW e0 \in Events, CallPublish(t, e0) PROVE Passed(c, e) \/ Announced(c, e)
    <2>1. /\ SameQueued(c, e) /\ SameTask(c, e) /\ SameLetters(c, e)
          /\ SamePuts(c, e) /\ SameBooks(c, e)
          /\ e # e0 => SameCalls(c, e)
          /\ Calls(c, e) \subseteq Calls(c, e)' /\ Calls(c, e)' \subseteq Calls(c, e) \cup {t}
          /\ used'.publications[e0] = used.publications[e0] + 1
          /\ \A f \in Events : f # e0 => used'.publications[f] = used.publications[f]
          /\ used'.redrives = used.redrives
          /\ used.publications[e0] < MaxPublications[e0]
      BY <1>2, PublishEffect
    <2>2. CASE e = e0
      BY <2>1, <2>2 DEF Announced
    <2>3. CASE e # e0
      BY <2>1, <2>3 DEF Passed, Untouched
    <2> QED
      BY <2>2, <2>3
  <1>3. ASSUME NEW t \in Callers, NEW c0 \in Consumers, Redrive(t, c0) PROVE Passed(c, e) \/ Redriven(c, e)
    <2>1. PICK e0 \in Events :
             /\ Elsewhere(c0, e0)
             /\ SameQueued(c0, e0) /\ SameTask(c0, e0) /\ SamePuts(c0, e0)
             /\ Letters(c0, e0) # {} /\ (One(Letters(c0, e0)) => Letters(c0, e0)' = {})
             /\ t \notin Calls(c0, e0) /\ Calls(c0, e0)' = Calls(c0, e0) \cup {t}
             /\ IsAccepted(c0, e0)' = IsAccepted(c0, e0)
             /\ returned'[c0][e0] = returned[c0][e0] /\ tries'[c0][e0] = 0
             /\ e0 \notin processed'[c0]
             /\ used'.publications = used.publications
             /\ used'.redrives = used.redrives + 1
             /\ UNCHANGED <<queue, worker, accepted, returned>>
      BY <1>3, RedriveEffect
    <2>2. CASE c = c0 /\ e = e0
      BY <2>1, <2>2 DEF Redriven
    <2>3. CASE ~(c = c0 /\ e = e0)
      BY <2>1, <2>3 DEF Elsewhere, Passed
    <2> QED
      BY <2>2, <2>3
  <1>4. CASE Stop \/ Drained \/ (\E p \in Places : Join(p)) \/ UNCHANGED busVars
    BY <1>4, LifeEffect DEF Passed
  <1>5. CASE Start \/ \E d \in Consumers : CancelDispatcher(d)
    BY <1>5, RestartEffect DEF Cut, UsedSame
  <1> QED
    BY <1>1, <1>2, <1>3, <1>4, <1>5, KindsOfWork DEF BusNext

LEMMA TallyTypes ==
    ASSUME TInv, NEW c \in Consumers, NEW e \in Events
    PROVE  /\ returned[c][e] \in Nat /\ tries[c][e] \in Nat
           /\ used.publications[e] \in Nat /\ used.redrives \in Nat
           /\ MaxPublications[e] \in Nat /\ MaxAttempts \in Nat \ {0}
  <1>1. returned \in [Consumers -> [Events -> Nat]] /\ tries \in [Consumers -> [Events -> Nat]]
    BY DEF TInv, BooksOK, Tally
  <1>2. returned[c] \in [Events -> Nat] /\ tries[c] \in [Events -> Nat]
    BY <1>1
  <1>3. used.publications \in [Events -> Nat] /\ used.redrives \in Nat
    BY DEF TInv, BooksOK
  <1>4. MaxPublications \in [Events -> Nat] /\ MaxAttempts \in Nat \ {0}
    BY BusAssumption
  <1> QED
    BY <1>2, <1>3, <1>4

LEMMA KnownStep ==
    ASSUME TInv, [BusNext]_busVars, NEW c \in Consumers, NEW e \in Events, KnownAt(c, e)
    PROVE  KnownAt(c, e)'
  <1>0. returned[c][e] \in Nat
    BY TallyTypes
  <1> DEFINE Seen == Slots(c, e) # {} \/ Holds(c, e) \/ Letters(c, e) # {} \/ returned[c][e] > 0
  <1>a. /\ e \in processed[c] => returned[c][e] > 0
        /\ Seen => IsAccepted(c, e)
    BY DEF KnownAt
  <1>b. SUFFICES /\ e \in processed'[c] => returned'[c][e] > 0
                 /\ Seen' => IsAccepted(c, e)'
    BY DEF KnownAt
  <1>1. CASE Passed(c, e)
    BY <1>a, <1>1 DEF Passed, Untouched, SameQueued, SameTask, SameLetters, SameBooks, Steady
  <1>2. CASE Announced(c, e)
    BY <1>a, <1>2 DEF Announced, SameQueued, SameTask, SameLetters, SameBooks, Steady
  <1>3. CASE Delivered(c, e)
    BY <1>a, <1>3 DEF Delivered
  <1>4. CASE Taken(c, e) \/ Skipped(c, e)
    BY <1>a, <1>4 DEF Taken, Skipped, Removes, SameTask, SameLetters, SameBooks, Steady
  <1>5. CASE Returned(c, e)
    BY <1>a, <1>0, <1>5 DEF Returned
  <1>6. CASE Raised(c, e)
    BY <1>a, <1>6 DEF Raised, SameBooks
  <1>7. CASE Requeued(c, e)
    BY <1>a, <1>7 DEF Requeued, SameBooks
  <1>8. CASE Buried(c, e)
    BY <1>a, <1>8 DEF Buried, SameBooks
  <1>9. CASE Redriven(c, e)
    BY <1>a, <1>9 DEF Redriven, SameQueued, SameTask, Steady
  <1>10. CASE Cut(c, e)
    BY <1>a, <1>10 DEF Cut, Shrunk, SameQueued, SameTask, SameLetters, SameBooks, Steady
  <1> HIDE DEF Seen
  <1> QED
    BY <1>1, <1>2, <1>3, <1>4, <1>5, <1>6, <1>7, <1>8, <1>9, <1>10, Kinds

\* An event in hand stays there when the tasks are made or ended, or was cut off.
LEMMA CutOff ==
    ASSUME TInv, Drains, Start \/ \E d \in Consumers : CancelDispatcher(d),
           NEW c \in Consumers, NEW e \in Events, Holds(c, e)
    PROVE  (Holds(c, e)' /\ worker'[Place(c, e)] = worker[Place(c, e)]) \/ e \in cut'[c]
  <1>1. Place(c, e) \in Places /\ Place(c, e)[1] = c
    BY PlaceType
  <1>2. IsBusy(Place(c, e)) /\ worker[Place(c, e)].ev = e
    BY DEF Holds
  <1>3. CASE Start
    BY <1>1, <1>2, <1>3, DoStart DEF Drains, IsBusy, Busy
  <1>4. ASSUME NEW d \in Consumers, CancelDispatcher(d)
        PROVE  (Holds(c, e)' /\ worker'[Place(c, e)] = worker[Place(c, e)]) \/ e \in cut'[c]
    <2>1. CASE d = c
      BY <1>1, <1>2, <1>4, <2>1, CutHere DEF Drains
    <2>2. CASE d # c
      <3>1. worker'[Place(c, e)] = worker[Place(c, e)]
        BY <1>1, <1>4, <2>2, DoCancel
      <3> QED
        BY <1>2, <3>1 DEF Holds, IsBusy, Place
    <2> QED
      BY <2>1, <2>2
  <1> QED
    BY <1>3, <1>4

LEMMA KeptStep ==
    ASSUME TInv, [BusNext]_busVars, NEW c \in Consumers, NEW e \in Events, Drains,
           KnownAt(c, e), KeptAt(c, e)
    PROVE  KeptAt(c, e)'
  <1>0. returned[c][e] \in Nat
    BY TallyTypes
  <1>a. e \in processed[c] => returned[c][e] > 0
    BY DEF KnownAt
  <1>c. SUFFICES ASSUME e \notin cut'[c] PROVE IsAccepted(c, e)' => Somewhere(c, e)'
    BY DEF KeptAt
  <1>d. e \notin cut[c]
    BY <1>c, CutGrows DEF Drains
  <1>b. IsAccepted(c, e) => Somewhere(c, e)
    BY <1>d DEF KeptAt
  <1>1. CASE Passed(c, e)
    BY <1>b, <1>1 DEF Passed, Untouched, SameQueued, SameTask, SameLetters, SameCalls, SameBooks, Steady,
       Somewhere
  <1>2. CASE Announced(c, e)
    <2>1. Calls(c, e) \subseteq Calls(c, e)'
      BY <1>2 DEF Announced, SameCalls
    <2> QED
      BY <1>b, <1>2, <2>1 DEF Announced, SameQueued, SameTask, SameLetters, SameBooks, Steady, Somewhere
  <1>3. CASE Delivered(c, e)
    BY <1>3 DEF Delivered, Somewhere
  <1>4. CASE Taken(c, e) \/ Skipped(c, e)
    BY <1>a, <1>4 DEF Taken, Skipped, SameBooks, Somewhere
  <1>5. CASE Returned(c, e)
    BY <1>0, <1>5 DEF Returned, Somewhere
  <1>6. CASE Raised(c, e) \/ Requeued(c, e) \/ Buried(c, e) \/ Redriven(c, e)
    BY <1>6 DEF Raised, Requeued, Buried, Redriven, Somewhere
  <1>7. CASE Cut(c, e)
    <2>1. Holds(c, e) => Holds(c, e)'
      BY <1>c, <1>7, CutOff DEF Cut
    <2> QED
      BY <1>b, <1>7, <2>1 DEF Cut, Shrunk, SameQueued, SameLetters, SameCalls, SameBooks, Steady, Somewhere
  <1> QED
    BY <1>1, <1>2, <1>3, <1>4, <1>5, <1>6, <1>7, Kinds

LEMMA RemembersStep ==
    ASSUME TInv, [BusNext]_busVars, NEW c \in Consumers, NEW e \in Events, RemembersAt(c, e)
    PROVE  RemembersAt(c, e)'
  <1>0. returned[c][e] \in Nat /\ used.redrives \in Nat
    BY TallyTypes
  <1>a. /\ Holds(c, e) => e \notin processed[c]
        /\ e \in processed[c] => returned[c][e] <= used.redrives + 1
        /\ e \notin processed[c] => returned[c][e] <= used.redrives
    BY DEF RemembersAt
  <1>b. SUFFICES /\ Holds(c, e)' => e \notin processed'[c]
                 /\ e \in processed'[c] => returned'[c][e] <= used'.redrives + 1
                 /\ e \notin processed'[c] => returned'[c][e] <= used'.redrives
    BY DEF RemembersAt
  <1>1. CASE Passed(c, e)
    BY <1>0, <1>a, <1>1 DEF Passed, Untouched, SameTask, SameBooks
  <1>2. CASE Announced(c, e)
    BY <1>a, <1>2 DEF Announced, SameTask, SameBooks
  <1>3. CASE Delivered(c, e)
    BY <1>a, <1>3 DEF Delivered, SameTask, UsedSame
  <1>4. CASE Taken(c, e) \/ Skipped(c, e)
    BY <1>a, <1>4 DEF Taken, Skipped, SameTask, SameBooks, UsedSame
  <1>5. CASE Returned(c, e)
    BY <1>0, <1>a, <1>5 DEF Returned, UsedSame
  <1>6. CASE Raised(c, e) \/ Requeued(c, e) \/ Buried(c, e)
    BY <1>a, <1>6 DEF Raised, Requeued, Buried, SameBooks, UsedSame
  <1>7. CASE Redriven(c, e)
    BY <1>0, <1>a, <1>7 DEF Redriven, SameTask
  <1>8. CASE Cut(c, e)
    BY <1>a, <1>8 DEF Cut, Shrunk, SameTask, SameBooks, UsedSame
  <1> QED
    BY <1>1, <1>2, <1>3, <1>4, <1>5, <1>6, <1>7, <1>8, Kinds

LEMMA SinglesStep ==
    ASSUME TInv, [BusNext]_busVars, NEW c \in Consumers, NEW e \in Events, SingleAt(c, e)
    PROVE  SingleAt(c, e)'
  <1>0. /\ returned[c][e] \in Nat /\ tries[c][e] \in Nat
        /\ used.publications[e] \in Nat /\ MaxPublications[e] \in Nat
    BY TallyTypes
  <1>a. /\ used.publications[e] <= MaxPublications[e]
        /\ used.publications[e] = 0 => Absent(c, e)
        /\ used.publications[e] <= 1 => Single(c, e)
    BY DEF SingleAt
  <1>b. used.publications[e] = 0 \/ used.publications[e] = 1 \/ used.publications[e] > 1
    BY <1>0
  <1>1. CASE Passed(c, e)
    <2>1. Absent(c, e) => Absent(c, e)'
      BY <1>1 DEF Passed, Untouched, SameQueued, SameTask, SameLetters, SameCalls, SamePuts, SameBooks, Steady,
         Absent
    <2>2. Single(c, e) => Single(c, e)'
      BY <1>1 DEF Passed, Untouched, SameQueued, SameTask, SameLetters, SameCalls, SamePuts, SameBooks, Steady,
         Single
    <2> QED
      BY <1>a, <1>1, <2>1, <2>2 DEF Passed, SingleAt
  <1>2. CASE Announced(c, e)
    <2>1. /\ used'.publications[e] = used.publications[e] + 1
          /\ used.publications[e] < MaxPublications[e]
      BY <1>2 DEF Announced
    <2>2. Absent(c, e) => Single(c, e)'
      <3> SUFFICES ASSUME Absent(c, e) PROVE Single(c, e)'
        OBVIOUS
      <3>1. /\ Slots(c, e)' = {} /\ ~Holds(c, e)' /\ Letters(c, e)' = {} /\ returned'[c][e] = 0
        BY <1>2 DEF Announced, SameQueued, SameTask, SameLetters, SameBooks, Steady, Absent
      <3>2. Calls(c, e)' = {} \/ Puts(c, e)' = {}
        BY <1>2 DEF Announced, SameCalls, SamePuts, Absent
      <3>3. One(Calls(c, e)') /\ One(Puts(c, e)')
        BY <1>2 DEF Announced, SameCalls, SamePuts, Absent, One
      <3> QED
        BY <3>1, <3>2, <3>3 DEF Single, One
    <2> QED
      BY <1>0, <1>a, <2>1, <2>2 DEF SingleAt
  <1>3. CASE Delivered(c, e)
    <2>1. UsedSame(e) /\ ~Absent(c, e)
      BY <1>3 DEF Delivered, Absent
    <2>2. Single(c, e) => Single(c, e)'
      <3> SUFFICES ASSUME Single(c, e) PROVE Single(c, e)'
        OBVIOUS
      <3>1. Calls(c, e) # {} \/ Puts(c, e) # {}
        BY <1>3 DEF Delivered
      <3>2. /\ Slots(c, e) = {} /\ ~Holds(c, e) /\ Letters(c, e) = {} /\ returned[c][e] = 0
        BY <3>1 DEF Single
      <3>3. Calls(c, e)' = {} /\ Puts(c, e)' = {}
        BY <1>3 DEF Delivered, SameCalls, SamePuts, Single, One
      <3>4. ~Holds(c, e)' /\ Letters(c, e)' = {} /\ returned'[c][e] = 0
        BY <1>3, <3>2 DEF Delivered, SameTask, SameLetters, Steady
      <3>5. One(Slots(c, e)')
        BY <1>3, <3>2 DEF Delivered, One
      <3> QED
        BY <3>3, <3>4, <3>5 DEF Single, One
    <2> QED
      BY <1>0, <1>a, <1>b, <2>1, <2>2 DEF SingleAt, UsedSame
  <1>4. CASE Taken(c, e) \/ Skipped(c, e)
    <2>1. UsedSame(e) /\ ~Absent(c, e)
      BY <1>4 DEF Taken, Skipped, Removes, Absent
    <2>2. Single(c, e) => Single(c, e)'
      <3> SUFFICES ASSUME Single(c, e) PROVE Single(c, e)'
        OBVIOUS
      <3>1. /\ Slots(c, e) # {} /\ Slots(c, e)' = {}
            /\ Steady(Letters(c, e), Letters(c, e)') /\ Calls(c, e)' = Calls(c, e) /\ Puts(c, e)' = Puts(c, e)
            /\ returned'[c][e] = returned[c][e]
        BY <1>4 DEF Taken, Skipped, Removes, SameLetters, SameCalls, SamePuts, SameBooks, Single
      <3>2. Letters(c, e)' = {} /\ Calls(c, e)' = {} /\ Puts(c, e)' = {} /\ returned'[c][e] = 0
        BY <3>1 DEF Single, Steady
      <3> QED
        BY <3>1, <3>2 DEF Single, One
    <2> QED
      BY <1>0, <1>a, <1>b, <2>1, <2>2 DEF SingleAt, UsedSame
  <1>5. CASE Returned(c, e) \/ Raised(c, e) \/ Requeued(c, e) \/ Buried(c, e)
    <2>1. UsedSame(e) /\ ~Absent(c, e)
      BY <1>5 DEF Returned, Raised, Requeued, Buried, Absent
    <2>2. Single(c, e) => Single(c, e)'
      <3> SUFFICES ASSUME Single(c, e) PROVE Single(c, e)'
        OBVIOUS
      <3>1. /\ Slots(c, e) = {} /\ Holds(c, e) /\ Letters(c, e) = {} /\ Calls(c, e) = {} /\ Puts(c, e) = {}
            /\ returned[c][e] = 0
        BY <1>5 DEF Returned, Raised, Requeued, Buried, Single
      <3>2. Calls(c, e)' = {} /\ Puts(c, e)' = {}
        BY <1>5, <3>1 DEF Returned, Raised, Requeued, Buried, SameCalls, SamePuts
      <3>3. CASE Returned(c, e)
        <4>1. Slots(c, e)' = {} /\ ~Holds(c, e)' /\ Letters(c, e)' = {} /\ returned'[c][e] = 1
          BY <3>1, <3>3 DEF Returned, SameQueued, SameLetters, Steady
        <4> QED
          BY <3>2, <4>1 DEF Single, One
      <3>4. CASE Raised(c, e)
        <4>1. Slots(c, e)' = {} /\ Letters(c, e)' = {} /\ returned'[c][e] = 0
          BY <3>1, <3>4 DEF Raised, SameQueued, SameLetters, Steady
        <4> QED
          BY <3>2, <4>1 DEF Single, One
      <3>5. CASE Requeued(c, e)
        <4>1. One(Slots(c, e)') /\ ~Holds(c, e)' /\ Letters(c, e)' = {} /\ returned'[c][e] = 0
          BY <3>1, <3>5 DEF Requeued, SameLetters, SameBooks, Steady, One
        <4> QED
          BY <3>2, <4>1 DEF Single, One
      <3>6. CASE Buried(c, e)
        <4>1. One(Letters(c, e)') /\ ~Holds(c, e)' /\ Slots(c, e)' = {} /\ returned'[c][e] = 0
          BY <3>1, <3>6 DEF Buried, SameQueued, SameBooks, Steady, One
        <4> QED
          BY <3>2, <4>1 DEF Single, One
      <3> QED
        BY <1>5, <3>3, <3>4, <3>5, <3>6
    <2> QED
      BY <1>0, <1>a, <1>b, <2>1, <2>2 DEF SingleAt, UsedSame
  <1>6. CASE Redriven(c, e)
    <2>1. used'.publications[e] = used.publications[e] /\ ~Absent(c, e)
      BY <1>6 DEF Redriven, Absent
    <2>2. Single(c, e) => Single(c, e)'
      <3> SUFFICES ASSUME Single(c, e) PROVE Single(c, e)'
        OBVIOUS
      <3>1. /\ Letters(c, e) # {} /\ Slots(c, e) = {} /\ ~Holds(c, e) /\ Calls(c, e) = {} /\ Puts(c, e) = {}
            /\ returned[c][e] = 0
        BY <1>6 DEF Redriven, Single
      <3>2. Puts(c, e)' = {} /\ Letters(c, e)' = {} /\ Slots(c, e)' = {} /\ ~Holds(c, e)' /\ returned'[c][e] = 0
        BY <1>6, <3>1 DEF Redriven, SameQueued, SameTask, SamePuts, Steady, Single
      <3>3. One(Calls(c, e)')
        BY <1>6, <3>1 DEF Redriven, One
      <3> QED
        BY <3>2, <3>3 DEF Single, One
    <2> QED
      BY <1>0, <1>a, <1>b, <2>1, <2>2 DEF SingleAt
  <1>7. CASE Cut(c, e)
    <2>1. UsedSame(e)
      BY <1>7 DEF Cut
    <2>2. /\ Steady(Slots(c, e), Slots(c, e)') /\ Steady(Letters(c, e), Letters(c, e)')
          /\ Calls(c, e)' = Calls(c, e) /\ Puts(c, e)' \subseteq Puts(c, e)
          /\ Holds(c, e)' => Holds(c, e)
          /\ returned'[c][e] = returned[c][e] /\ tries'[c][e] = tries[c][e]
      BY <1>7 DEF Cut, Shrunk, SameQueued, SameTask, SameLetters, SameCalls, SameBooks
    <2>3. Absent(c, e) => Absent(c, e)'
      BY <2>2 DEF Absent, Steady
    <2>4. Single(c, e) => Single(c, e)'
      BY <2>2 DEF Single, Steady, One
    <2> QED
      BY <1>0, <1>a, <1>b, <2>1, <2>3, <2>4 DEF SingleAt, UsedSame
  <1> QED
    BY <1>1, <1>2, <1>3, <1>4, <1>5, <1>6, <1>7, Kinds

LEMMA InitPlaces ==
    ASSUME BusInit, NEW c \in Consumers, NEW e \in Events
    PROVE  /\ Slots(c, e) = {} /\ ~Holds(c, e) /\ Letters(c, e) = {} /\ Calls(c, e) = {} /\ Puts(c, e) = {}
           /\ returned[c][e] = 0 /\ tries[c][e] = 0 /\ ~IsAccepted(c, e) /\ e \notin processed[c]
           /\ used.publications[e] = 0 /\ used.redrives = 0
  <1>1. /\ Place(c, e) \in Places /\ queue[Place(c, e)] = <<>> /\ worker[Place(c, e)].stage = "off"
    BY PlaceType, TaskTypes DEF BusInit
  <1>2. Slots(c, e) = {} /\ ~Holds(c, e)
    BY <1>1 DEF Slots, Holds, IsBusy, Busy
  <1>3. dead[c] = <<>> /\ accepted[c] = <<>> /\ processed[c] = {}
    BY DEF BusInit
  <1>4. Letters(c, e) = {} /\ ~IsAccepted(c, e)
    BY <1>3 DEF Letters, IsAccepted
  <1>5. Calls(c, e) = {}
    BY DEF BusInit, Calls, NoCall
  <1>6. Puts(c, e) = {}
    BY TaskTypes DEF BusInit, Puts
  <1>7. returned[c][e] = 0 /\ tries[c][e] = 0 /\ used.publications[e] = 0 /\ used.redrives = 0
    BY DEF BusInit
  <1> QED
    BY <1>2, <1>3, <1>4, <1>5, <1>6, <1>7

LEMMA InitPlaced == BusInit => Known /\ Kept /\ Singles /\ Remembers
  <1> SUFFICES ASSUME BusInit, NEW c \in Consumers, NEW e \in Events
               PROVE  KnownAt(c, e) /\ KeptAt(c, e) /\ SingleAt(c, e) /\ RemembersAt(c, e)
    BY DEF Known, Kept, Singles, Remembers
  <1>1. /\ Slots(c, e) = {} /\ ~Holds(c, e) /\ Letters(c, e) = {} /\ Calls(c, e) = {} /\ Puts(c, e) = {}
        /\ returned[c][e] = 0 /\ tries[c][e] = 0 /\ ~IsAccepted(c, e) /\ e \notin processed[c]
        /\ used.publications[e] = 0 /\ used.redrives = 0
    BY InitPlaces
  <1>2. MaxPublications \in [Events -> Nat]
    BY BusAssumption
  <1> QED
    BY <1>1, <1>2 DEF KnownAt, KeptAt, SingleAt, Absent, Single, One, RemembersAt

LEMMA PlacedStep ==
    ASSUME TInv, [BusNext]_busVars
    PROVE  /\ Known => Known'
           /\ Singles => Singles'
           /\ Remembers => Remembers'
           /\ Drains /\ Known /\ Kept => Kept'
  <1>1. ASSUME Known, NEW c \in Consumers, NEW e \in Events PROVE KnownAt(c, e)'
    BY <1>1, KnownStep DEF Known
  <1>2. ASSUME Singles, NEW c \in Consumers, NEW e \in Events PROVE SingleAt(c, e)'
    BY <1>2, SinglesStep DEF Singles
  <1>3. ASSUME Remembers, NEW c \in Consumers, NEW e \in Events PROVE RemembersAt(c, e)'
    BY <1>3, RemembersStep DEF Remembers
  <1>4. ASSUME Drains, Known, Kept, NEW c \in Consumers, NEW e \in Events PROVE KeptAt(c, e)'
    BY <1>4, KeptStep DEF Known, Kept
  <1>5. Known => Known'
    BY <1>1 DEF Known
  <1>6. Singles => Singles'
    BY <1>2 DEF Singles
  <1>7. Remembers => Remembers'
    BY <1>3 DEF Remembers
  <1>8. Drains /\ Known /\ Kept => Kept'
    BY <1>4 DEF Kept
  <1> QED
    BY <1>5, <1>6, <1>7, <1>8

LEMMA PlacedQueued ==
    ASSUME TInv, NEW c \in Consumers, NEW e \in Events
    PROVE  Queued(c, e) <=> Slots(c, e) # {}
  <1>1. PICK w \in Workers : Place(c, e) = <<c, w>>
    BY BusAssumption DEF Place
  <1>2. ASSUME NEW v \in Workers, NEW i \in 1..Len(queue[<<c, v>>]), queue[<<c, v>>][i].ev = e
        PROVE  i \in Slots(c, e)
    <2>1. <<c, v>> \in Places
      BY DEF Places
    <2>2. <<c, v>> = Place(<<c, v>>[1], queue[<<c, v>>][i].ev)
      BY <2>1 DEF TInv, QueuesOK
    <2>3. <<c, v>> = Place(c, e)
      BY <1>2, <2>2
    <2> QED
      BY <1>2, <2>3 DEF Slots
  <1> QED
    BY <1>1, <1>2 DEF Queued, Slots

LEMMA PlacedWorking ==
    ASSUME TInv, NEW c \in Consumers, NEW e \in Events
    PROVE  /\ Working(c, e) <=> Holds(c, e)
           /\ \A w \in Workers : worker[<<c, w>>].stage \in Busy /\ worker[<<c, w>>].ev = e
                => <<c, w>> = Place(c, e)
  <1>1. PICK w \in Workers : Place(c, e) = <<c, w>>
    BY BusAssumption DEF Place
  <1>2. ASSUME NEW v \in Workers, worker[<<c, v>>].stage \in Busy, worker[<<c, v>>].ev = e
        PROVE  <<c, v>> = Place(c, e)
    <2>1. <<c, v>> \in Places
      BY DEF Places
    <2>2. TaskOK(<<c, v>>, worker[<<c, v>>])
      BY <2>1 DEF TInv, TasksOK
    <2>3. <<c, v>> = Place(<<c, v>>[1], worker[<<c, v>>].ev)
      BY <1>2, <2>2 DEF TaskOK
    <2> QED
      BY <1>2, <2>3
  <1>3. Working(c, e) => Holds(c, e)
    BY <1>2 DEF Working, Holds, IsBusy
  <1>4. Holds(c, e) => Working(c, e)
    BY <1>1 DEF Working, Holds, IsBusy
  <1> QED
    BY <1>2, <1>3, <1>4

LEMMA PlacedElsewhere ==
    ASSUME NEW c \in Consumers, NEW e \in Events
    PROVE  /\ InDlq(c, e) <=> Letters(c, e) # {}
           /\ Calling(c, e) <=> Calls(c, e) # {}
           /\ e \in RangeOf(accepted[c]) <=> IsAccepted(c, e)
  BY DEF InDlq, Letters, RangeOf, Calling, Calls, IsAccepted

\* At-least-once within the process: an event a consumer accepted was handled,
\* or is dead, or is in a queue, in hand or on its way, in every state and in every
\* stop, unless its worker was cancelled with that event in hand.
THEOREM NothingIsLost == BusSpec => []NoEventLost
  <1>1. BusInit => TInv /\ Drains /\ Known /\ Kept
    BY BusInitTyped, InitDrains, InitPlaced
  <1>2. TInv /\ Drains /\ Known /\ Kept /\ [BusNext]_busVars => TInv' /\ Drains' /\ Known' /\ Kept'
    BY StepTyped, DrainsStep, PlacedStep
  <1>3. TInv /\ Kept => NoEventLost
    <2> SUFFICES ASSUME TInv, Kept, NEW c \in Consumers, NEW e \in RangeOf(accepted[c])
                 PROVE  Followed(c, e) \/ e \in cut[c]
      BY DEF NoEventLost
    <2>1. e \in Events
      <3>1. accepted[c] \in Seq(Events)
        BY DEF TInv, BooksOK
      <3> QED
        BY <3>1 DEF RangeOf
    <2>2. Somewhere(c, e) \/ e \in cut[c]
      BY <2>1, PlacedElsewhere DEF Kept, KeptAt
    <2> QED
      BY <2>1, <2>2, PlacedQueued, PlacedWorking, PlacedElsewhere DEF Somewhere, Followed
  <1> QED
    BY <1>1, <1>2, <1>3, PTL DEF BusSpec

\* What a copy of an event says of where it is.
CopyOf(c, e, x) ==
    \/ \E i \in Slots(c, e) : x = <<"queued", WorkerOf[KeyOf[e]], i>>
    \/ \E i \in Letters(c, e) : x = <<"dead", i>>
    \/ Holds(c, e) /\ x = <<"held", WorkerOf[KeyOf[e]]>>
    \/ \E t \in Calls(c, e) : x = <<"called", t>>
    \/ \E n \in 1..returned[c][e] : x = <<"handled", n>>

LEMMA CopiesPlaced ==
    ASSUME TInv, NEW c \in Consumers, NEW e \in Events
    PROVE  /\ \A x \in Copies(c, e) : CopyOf(c, e, x)
           /\ Somewhere(c, e) => Copies(c, e) # {}
  <1> DEFINE W == WorkerOf[KeyOf[e]]
             queued(w) == {i \in 1..Len(queue[<<c, w>>]) : queue[<<c, w>>][i].ev = e}
             InQueues == UNION {{<<"queued", w, i>> : i \in queued(w)} : w \in Workers}
             InLetters == {<<"dead", i>> : i \in {j \in 1..Len(dead[c]) : dead[c][j] = e}}
             InHand == {<<"held", w>> : w \in {v \in Workers : worker[<<c, v>>].stage \in Busy /\ worker[<<c, v>>].ev = e}}
             InCalls == {<<"called", t>> : t \in {u \in Callers : caller[u].ev = e /\ c \in caller[u].rest}}
             InHandled == {<<"handled", n>> : n \in 1..returned[c][e]}
  <1>0. /\ W \in Workers /\ Place(c, e) = <<c, W>>
        /\ returned[c][e] \in Nat
    BY BusAssumption, TallyTypes DEF Place
  <1>1. Copies(c, e) = InQueues \cup InLetters \cup InHand \cup InCalls \cup InHandled
    BY DEF Copies
  <1>2. queued(W) = Slots(c, e)
    BY <1>0 DEF Slots
  <1>3. ASSUME NEW x \in InQueues PROVE \E i \in Slots(c, e) : x = <<"queued", W, i>>
    <2>1. PICK w \in Workers : x \in {<<"queued", w, i>> : i \in queued(w)}
      BY <1>3
    <2>2. PICK i \in queued(w) : x = <<"queued", w, i>>
      BY <2>1
    <2>3. i \in 1..Len(queue[<<c, w>>]) /\ queue[<<c, w>>][i].ev = e
      BY <2>2
    <2>4. <<c, w>> \in Places
      BY DEF Places
    <2>5. <<c, w>> = Place(<<c, w>>[1], queue[<<c, w>>][i].ev)
      BY <2>3, <2>4 DEF TInv, QueuesOK
    <2>6. w = W
      BY <1>0, <2>3, <2>5
    <2> QED
      BY <1>2, <2>2, <2>6
  <1>4. ASSUME NEW x \in InHand PROVE Holds(c, e) /\ x = <<"held", W>>
    <2>1. PICK w \in Workers : worker[<<c, w>>].stage \in Busy /\ worker[<<c, w>>].ev = e /\ x = <<"held", w>>
      BY <1>4
    <2>2. <<c, w>> = Place(c, e)
      BY <2>1, PlacedWorking
    <2>3. w = W
      BY <1>0, <2>2
    <2> QED
      BY <1>0, <2>1, <2>3 DEF Holds, IsBusy
  <1>5. \A x \in InLetters : \E i \in Letters(c, e) : x = <<"dead", i>>
    BY DEF Letters
  <1>6. \A x \in InCalls : \E t \in Calls(c, e) : x = <<"called", t>>
    BY DEF Calls
  <1>7. \A x \in InHandled : \E n \in 1..returned[c][e] : x = <<"handled", n>>
    OBVIOUS
  <1>8. Slots(c, e) # {} => InQueues # {}
    <2> SUFFICES ASSUME NEW i \in Slots(c, e) PROVE <<"queued", W, i>> \in InQueues
      OBVIOUS
    <2>1. <<"queued", W, i>> \in {<<"queued", W, j>> : j \in queued(W)}
      BY <1>2
    <2> QED
      BY <1>0, <2>1
  <1>9. Letters(c, e) # {} => InLetters # {}
    BY DEF Letters
  <1>10. Holds(c, e) => InHand # {}
    BY <1>0 DEF Holds, IsBusy
  <1>11. Calls(c, e) # {} => InCalls # {}
    BY DEF Calls
  <1>12. returned[c][e] > 0 => InHandled # {}
    <2>1. returned[c][e] > 0 => 1 \in 1..returned[c][e]
      BY <1>0
    <2> QED
      BY <2>1
  <1> HIDE DEF InQueues, InLetters, InHand, InCalls, InHandled
  <1>13. \A x \in Copies(c, e) : CopyOf(c, e, x)
    BY <1>1, <1>3, <1>4, <1>5, <1>6, <1>7 DEF CopyOf
  <1>14. Somewhere(c, e) => Copies(c, e) # {}
    BY <1>1, <1>8, <1>9, <1>10, <1>11, <1>12 DEF Somewhere
  <1> QED
    BY <1>13, <1>14

LEMMA OneCopy ==
    ASSUME TInv, NEW c \in Consumers, NEW e \in Events, Single(c, e),
           NEW x, NEW y, CopyOf(c, e, x), CopyOf(c, e, y)
    PROVE  x = y
  <1>0. returned[c][e] \in Nat
    BY TallyTypes
  <1>1. CASE \E i \in Slots(c, e) : x = <<"queued", WorkerOf[KeyOf[e]], i>>
    <2>1. \E i \in Slots(c, e) : y = <<"queued", WorkerOf[KeyOf[e]], i>>
      BY <1>1, <1>0 DEF Single, CopyOf
    <2> QED
      BY <1>1, <2>1 DEF Single, One
  <1>2. CASE \E i \in Letters(c, e) : x = <<"dead", i>>
    <2>1. \E i \in Letters(c, e) : y = <<"dead", i>>
      BY <1>2, <1>0 DEF Single, CopyOf
    <2> QED
      BY <1>2, <2>1 DEF Single, One
  <1>3. CASE Holds(c, e) /\ x = <<"held", WorkerOf[KeyOf[e]]>>
    BY <1>3, <1>0 DEF Single, CopyOf
  <1>4. CASE \E t \in Calls(c, e) : x = <<"called", t>>
    <2>1. \E t \in Calls(c, e) : y = <<"called", t>>
      BY <1>4, <1>0 DEF Single, CopyOf
    <2> QED
      BY <1>4, <2>1 DEF Single, One
  <1>5. CASE \E n \in 1..returned[c][e] : x = <<"handled", n>>
    <2>0. returned[c][e] = 1
      BY <1>0, <1>5 DEF Single
    <2>1. \E n \in 1..returned[c][e] : y = <<"handled", n>>
      BY <1>5, <1>0, <2>0 DEF Single, CopyOf
    <2> QED
      BY <1>5, <2>0, <2>1
  <1> QED
    BY <1>1, <1>2, <1>3, <1>4, <1>5 DEF CopyOf

\* An event published once is in exactly one place in every state: in a queue,
\* in hand, on its way, dead or handled, or it was cut off; and the handler returns
\* at most once, and once more for each redrive.
THEOREM HandlerReturnsOnce == BusSpec => []HandledOnce
  <1>1. BusInit => TInv /\ Drains /\ Known /\ Kept /\ Singles /\ Remembers
    BY BusInitTyped, InitDrains, InitPlaced
  <1>2. TInv /\ Drains /\ Known /\ Kept /\ Singles /\ Remembers /\ [BusNext]_busVars
          => TInv' /\ Drains' /\ Known' /\ Kept' /\ Singles' /\ Remembers'
    BY StepTyped, DrainsStep, PlacedStep
  <1>3. TInv /\ Kept /\ Singles /\ Remembers => HandledOnce
    <2> SUFFICES ASSUME TInv, Kept, Singles, Remembers, NEW c \in Consumers, NEW e \in Events
                 PROVE  /\ returned[c][e] <= 1 + used.redrives
                        /\ used.publications[e] <= 1 =>
                             /\ \A x, y \in Copies(c, e) : x = y
                             /\ e \in RangeOf(accepted[c]) \ cut[c] => Copies(c, e) # {}
      BY DEF HandledOnce
    <2>1. returned[c][e] <= 1 + used.redrives
      BY TallyTypes DEF Remembers, RemembersAt
    <2>2. ASSUME used.publications[e] <= 1, NEW x \in Copies(c, e), NEW y \in Copies(c, e) PROVE x = y
      <3>1. Single(c, e)
        BY <2>2 DEF Singles, SingleAt
      <3> QED
        BY <3>1, CopiesPlaced, OneCopy
    <2>3. e \in RangeOf(accepted[c]) \ cut[c] => Copies(c, e) # {}
      BY PlacedElsewhere, CopiesPlaced DEF Kept, KeptAt
    <2> QED
      BY <2>1, <2>2, <2>3
  <1> QED
    BY <1>1, <1>2, <1>3, PTL DEF BusSpec

-----------------------------------------------------------------------------
(* Order by key.                                                           *)

\* What a step does to the positions of two events of one key.
Pushes(c, e, f) ==
    \E n : /\ \A i \in Slots(c, e) : i < n
           /\ Slots(c, e) \subseteq Slots(c, e)' /\ Slots(c, f)' \subseteq Slots(c, f) \cup {n}

MovesUp(c, e) == \A i : i \in Slots(c, e)' <=> i \in Nat /\ i >= 1 /\ i + 1 \in Slots(c, e)

Pops(c, e, f) ==
    /\ ~IsBusy(Place(c, e))
    /\ MovesUp(c, e) /\ MovesUp(c, f)
    /\ 1 \in Slots(c, e) => Holds(c, e)' \/ e \in processed[c]

LEMMA PutPushes ==
    ASSUME TInv, NEW c0 \in Consumers, NEW e0 \in Events, PutAt(c0, e0),
           NEW c \in Consumers, NEW e \in Events, NEW f \in Events, Place(c, e) = Place(c, f)
    PROVE  (Slots(c, e)' = Slots(c, e) /\ Slots(c, f)' = Slots(c, f)) \/ Pushes(c, e, f)
  <1> DEFINE n == Len(queue[Place(c0, e0)]) + 1
  <1>0. /\ Slots(c, e) \subseteq 1..Len(queue[Place(c, e)]) /\ Len(queue[Place(c, e)]) \in Nat
        /\ Slots(c, f) \subseteq 1..Len(queue[Place(c, f)])
    BY SlotTypes
  <1>1. CASE c = c0 /\ e = e0
    <2>1. Slots(c, e)' = Slots(c, e) \cup {n}
      BY <1>1, PutEffect
    <2>2. Slots(c, f)' \subseteq Slots(c, f) \cup {n}
      <3>1. CASE f = e
        BY <2>1, <3>1
      <3>2. CASE f # e
        BY <1>1, <3>2, PutEffect
      <3> QED
        BY <3>1, <3>2
    <2>3. \A i \in Slots(c, e) : i < n
      BY <1>0, <1>1
    <2> QED
      BY <2>1, <2>2, <2>3 DEF Pushes
  <1>2. CASE c = c0 /\ f = e0
    <2>1. Slots(c, f)' = Slots(c, f) \cup {n}
      BY <1>2, PutEffect
    <2>2. Slots(c, e) \subseteq Slots(c, e)'
      <3>1. CASE f = e
        BY <2>1, <3>1
      <3>2. CASE f # e
        BY <1>2, <3>2, PutEffect
      <3> QED
        BY <3>1, <3>2
    <2>3. \A i \in Slots(c, e) : i < n
      BY <1>0, <1>2
    <2> QED
      BY <2>1, <2>2, <2>3 DEF Pushes
  <1>3. CASE ~(c = c0 /\ e = e0) /\ ~(c = c0 /\ f = e0)
    BY <1>3, PutEffect
  <1> QED
    BY <1>1, <1>2, <1>3

LEMMA RetryPushes ==
    ASSUME TInv, NEW p \in Places, RetryAt(p), worker[p].ev \in Events,
           NEW c \in Consumers, NEW e \in Events, NEW f \in Events, Place(c, e) = Place(c, f)
    PROVE  (Slots(c, e)' = Slots(c, e) /\ Slots(c, f)' = Slots(c, f)) \/ Pushes(c, e, f)
  <1>0. /\ Slots(c, e) \subseteq 1..Len(queue[Place(c, e)]) /\ Len(queue[Place(c, e)]) \in Nat
    BY SlotTypes
  <1>1. CASE Place(c, e) = p
    <2> DEFINE n == Len(queue[p]) + 1
    <2>1. Slots(c, e) \subseteq Slots(c, e)'
      BY <1>1, RetryEffect
    <2>2. Slots(c, f)' \subseteq Slots(c, f) \cup {n}
      BY <1>1, RetryEffect
    <2>3. \A i \in Slots(c, e) : i < n
      BY <1>0, <1>1
    <2> QED
      BY <2>1, <2>2, <2>3 DEF Pushes
  <1>2. CASE Place(c, e) # p
    BY <1>2, RetryEffect
  <1> QED
    BY <1>1, <1>2

LEMMA TakePops ==
    ASSUME TInv, NEW p \in Places, Take(p) \/ TakeProcessed(p),
           NEW c \in Consumers, NEW e \in Events, NEW f \in Events, Place(c, e) = Place(c, f)
    PROVE  (Slots(c, e)' = Slots(c, e) /\ Slots(c, f)' = Slots(c, f)) \/ Pops(c, e, f)
  <1>0. TakenAt(p)
    BY DoTake, DoTakeProcessed
  <1>1. CASE Place(c, e) # p
    BY <1>0, <1>1, TakeEffect
  <1>2. CASE Place(c, e) = p
    <2>1. MovesUp(c, e) /\ MovesUp(c, f)
      BY <1>0, <1>2, TakeEffect DEF MovesUp
    <2>2. p[1] = c
      BY <1>2, PlaceType
    <2>3. ~IsBusy(p) /\ (queue[p][1].ev = e => Holds(c, e)' \/ e \in processed[c])
      <3>1. CASE Take(p)
        <4>1. PICK e0 \in Events : e0 = queue[p][1].ev /\ ~IsBusy(p) /\ Holds(p[1], e0)'
          BY <3>1, TakeEffects
        <4> QED
          BY <2>2, <4>1
      <3>2. CASE TakeProcessed(p)
        <4>1. PICK e0 \in Events : e0 = queue[p][1].ev /\ ~IsBusy(p) /\ e0 \in processed[p[1]]
          BY <3>2, TakeProcessedEffects
        <4> QED
          BY <2>2, <4>1
      <3> QED
        BY <3>1, <3>2
    <2>4. 1 \in Slots(c, e) => queue[p][1].ev = e
      BY <1>0, <1>2, TakeEffect
    <2> QED
      BY <1>2, <2>1, <2>3, <2>4 DEF Pops
  <1> QED
    BY <1>1, <1>2

LEMMA QueueMoves ==
    ASSUME TInv, [BusNext]_busVars,
           NEW c \in Consumers, NEW e \in Events, NEW f \in Events, Place(c, e) = Place(c, f)
    PROVE  \/ Slots(c, e)' = Slots(c, e) /\ Slots(c, f)' = Slots(c, f)
           \/ Pushes(c, e, f)
           \/ Pops(c, e, f)
  <1>0. ASSUME queue' = queue PROVE Slots(c, e)' = Slots(c, e) /\ Slots(c, f)' = Slots(c, f)
    BY <1>0, SlotsSame
  <1>1. CASE \E t \in Callers : CallerPut(t)
    <2>1. PICK c0 \in Consumers, e0 \in Events : PutAt(c0, e0)
      BY <1>1, CallerPutEffect
    <2> QED
      BY <2>1, PutPushes
  <1>2. CASE \E p \in Places : WorkerPut(p)
    <2>1. PICK c0 \in Consumers, e0 \in Events : PutAt(c0, e0)
      BY <1>2, WorkerPutEffect
    <2> QED
      BY <2>1, PutPushes
  <1>3. ASSUME NEW p \in Places, Retry(p)
        PROVE  (Slots(c, e)' = Slots(c, e) /\ Slots(c, f)' = Slots(c, f)) \/ Pushes(c, e, f)
    <2>1. RetryAt(p) /\ worker[p].ev \in Events
      BY <1>3, RetryEffects
    <2> QED
      BY <2>1, RetryPushes
  <1>4. CASE \E p \in Places : Take(p) \/ TakeProcessed(p)
    BY <1>4, TakePops
  <1>5. CASE \E t \in Callers : \E g \in Events : CallPublish(t, g)
    <2>1. queue' = queue
      BY <1>5 DEF CallPublish, runVars
    <2> QED
      BY <1>0, <2>1
  <1>6. CASE \E t \in Callers, d \in Consumers : Redrive(t, d)
    <2>1. queue' = queue
      BY <1>6 DEF Redrive, runVars
    <2> QED
      BY <1>0, <2>1
  <1>7. CASE \E p \in Places : HandlerPublishes(p) \/ HandlerReturns(p) \/ HandlerRaises(p) \/ Bury(p)
    <2>1. queue' = queue
      BY <1>7 DEF HandlerPublishes, HandlerReturns, HandlerRaises, Bury
    <2> QED
      BY <1>0, <2>1
  <1>8. CASE Start \/ (\E d \in Consumers : CancelDispatcher(d))
    <2>1. queue' = queue
      BY <1>8, RestartEffect
    <2> QED
      BY <1>0, <2>1
  <1>9. CASE Stop \/ Drained \/ (\E p \in Places : Join(p)) \/ UNCHANGED busVars
    <2>1. queue' = queue
      BY <1>9, LifeEffect
    <2> QED
      BY <1>0, <2>1
  <1> QED
    BY <1>1, <1>2, <1>3, <1>4, <1>5, <1>6, <1>7, <1>8, <1>9 DEF BusNext, Work

LEMMA PutBefore ==
    ASSUME TInv, NEW c0 \in Consumers, NEW e0 \in Events, PutAt(c0, e0), Slots(c0, e0)' # {},
           NEW c \in Consumers, NEW e \in Events, NEW f \in Events, Before(c, e, f)'
    PROVE  Before(c, e, f) \/ (Slots(c, e)' # {} /\ ~IsAccepted(c, f)')
  <1>1. PICK i \in 1..Len(accepted'[c]) : accepted'[c][i] = e /\ \A h \in 1..i : accepted'[c][h] # f
    BY DEF Before
  <1>2. CASE c # c0
    <2>1. accepted'[c] = accepted[c]
      BY <1>2 DEF PutAt
    <2> QED
      BY <1>1, <2>1 DEF Before
  <1>3. CASE c = c0
    <2>1. /\ Len(accepted[c]) \in Nat /\ Len(accepted'[c]) = Len(accepted[c]) + 1
          /\ \A j \in 1..Len(accepted[c]) : accepted'[c][j] = accepted[c][j]
          /\ accepted'[c][Len(accepted[c]) + 1] = e0
      BY <1>3 DEF PutAt
    <2>2. CASE i \in 1..Len(accepted[c])
      <3>1. accepted[c][i] = e
        BY <1>1, <2>1, <2>2
      <3>2. ASSUME NEW h \in 1..i PROVE accepted[c][h] # f
        <4>1. h \in 1..Len(accepted[c]) /\ accepted'[c][h] # f
          BY <1>1, <2>1, <2>2
        <4> QED
          BY <2>1, <4>1
      <3> QED
        BY <2>2, <3>1, <3>2 DEF Before
    <2>3. CASE i = Len(accepted[c]) + 1
      <3>1. e = e0
        BY <1>1, <2>1, <2>3
      <3>2. \A h \in 1..Len(accepted'[c]) : accepted'[c][h] # f
        BY <1>1, <2>1, <2>3
      <3> QED
        BY <1>3, <3>1, <3>2 DEF IsAccepted
    <2> QED
      BY <1>1, <2>1, <2>2, <2>3
  <1> QED
    BY <1>2, <1>3

LEMMA BeforeBack ==
    ASSUME TInv, [BusNext]_busVars,
           NEW c \in Consumers, NEW e \in Events, NEW f \in Events, Before(c, e, f)'
    PROVE  Before(c, e, f) \/ (Slots(c, e)' # {} /\ ~IsAccepted(c, f)')
  <1>0. ASSUME accepted' = accepted PROVE Before(c, e, f)
    BY <1>0 DEF Before
  <1>1. ASSUME NEW t \in Callers, CallerPut(t)
        PROVE  Before(c, e, f) \/ (Slots(c, e)' # {} /\ ~IsAccepted(c, f)')
    <2>1. PICK c0 \in Consumers, e0 \in Events :
             /\ Elsewhere(c0, e0) /\ PutAt(c0, e0)
             /\ \E n : Slots(c0, e0)' = Slots(c0, e0) \cup {n}
             /\ Tags(c0, e0)' = Tags(c0, e0) \cup {1}
             /\ SameTask(c0, e0) /\ SameLetters(c0, e0) /\ SamePuts(c0, e0)
             /\ t \in Calls(c0, e0) /\ Calls(c0, e0)' = Calls(c0, e0) \ {t}
             /\ IsAccepted(c0, e0)'
             /\ UNCHANGED <<used, returned, tries, processed, worker>>
      BY <1>1, CallerPutEffect
    <2>2. Slots(c0, e0)' # {}
      BY <2>1
    <2> QED
      BY <2>1, <2>2, PutBefore
  <1>2. ASSUME NEW p \in Places, WorkerPut(p)
        PROVE  Before(c, e, f) \/ (Slots(c, e)' # {} /\ ~IsAccepted(c, f)')
    <2>1. PICK c0 \in Consumers, e0 \in Events :
             /\ Elsewhere(c0, e0) /\ PutAt(c0, e0)
             /\ \E n : Slots(c0, e0)' = Slots(c0, e0) \cup {n}
             /\ Tags(c0, e0)' = Tags(c0, e0) \cup {1}
             /\ SameTask(c0, e0) /\ SameLetters(c0, e0) /\ SameCalls(c0, e0)
             /\ p \in Puts(c0, e0) /\ Puts(c0, e0)' = Puts(c0, e0) \ {p}
             /\ IsAccepted(c0, e0)'
             /\ UNCHANGED <<used, returned, tries, processed>>
      BY <1>2, WorkerPutEffect
    <2>2. Slots(c0, e0)' # {}
      BY <2>1
    <2> QED
      BY <2>1, <2>2, PutBefore
  <1>3. CASE \E p \in Places : Retry(p) \/ Take(p) \/ TakeProcessed(p) \/ Bury(p)
    <2>1. accepted' = accepted
      BY <1>3 DEF Retry, Take, TakeProcessed, Bury, ghostVars
    <2> QED
      BY <1>0, <2>1
  <1>4. CASE \E t \in Callers : \E g \in Events : CallPublish(t, g)
    <2>1. accepted' = accepted
      BY <1>4 DEF CallPublish, ghostVars
    <2> QED
      BY <1>0, <2>1
  <1>5. CASE \E t \in Callers, d \in Consumers : Redrive(t, d)
    <2>1. accepted' = accepted
      BY <1>5 DEF Redrive
    <2> QED
      BY <1>0, <2>1
  <1>6. CASE \E p \in Places : HandlerPublishes(p) \/ HandlerReturns(p) \/ HandlerRaises(p)
    <2>1. accepted' = accepted
      BY <1>6 DEF HandlerPublishes, HandlerReturns, HandlerRaises, ghostVars
    <2> QED
      BY <1>0, <2>1
  <1>7. CASE Start \/ (\E d \in Consumers : CancelDispatcher(d))
    <2>1. accepted' = accepted
      BY <1>7, RestartEffect
    <2> QED
      BY <1>0, <2>1
  <1>8. CASE Stop \/ Drained \/ (\E p \in Places : Join(p)) \/ UNCHANGED busVars
    <2>1. accepted' = accepted
      BY <1>8, LifeEffect
    <2> QED
      BY <1>0, <2>1
  <1> QED
    BY <1>1, <1>2, <1>3, <1>4, <1>5, <1>6, <1>7, <1>8 DEF BusNext, Work

\* Failures are not forgotten, except by a redrive.
LEMMA FailuresStay ==
    ASSUME TInv, [BusNext]_busVars, used'.redrives = 0
    PROVE  /\ used.redrives = 0
           /\ \A c \in Consumers, g \in Events : tries'[c][g] \in {tries[c][g], tries[c][g] + 1}
  <1>1. ASSUME NEW c \in Consumers, NEW g \in Events
        PROVE  used.redrives = 0 /\ tries'[c][g] \in {tries[c][g], tries[c][g] + 1}
    <2>0. used.redrives \in Nat
      BY TallyTypes
    <2>1. CASE Passed(c, g) \/ Announced(c, g) \/ Delivered(c, g)
      BY <2>0, <2>1 DEF Passed, Announced, Delivered, Untouched, SameBooks, UsedSame
    <2>2. CASE Taken(c, g) \/ Skipped(c, g) \/ Returned(c, g)
      BY <2>2 DEF Taken, Skipped, Returned, SameBooks, UsedSame
    <2>3. CASE Raised(c, g) \/ Requeued(c, g) \/ Buried(c, g)
      BY <2>3 DEF Raised, Requeued, Buried, SameBooks, UsedSame
    <2>4. CASE Redriven(c, g)
      BY <2>0, <2>4 DEF Redriven
    <2>5. CASE Cut(c, g)
      BY <2>5 DEF Cut, Shrunk, SameBooks, UsedSame
    <2> QED
      BY <2>1, <2>2, <2>3, <2>4, <2>5, Kinds
  <1>2. used.redrives = 0
    <2>0. used.redrives \in Nat
      BY DEF TInv, BooksOK
    <2>1. used' = used \/ used'.redrives = used.redrives \/ used'.redrives = used.redrives + 1
      <3>1. CASE \E t \in Callers : CallerPut(t)
        BY <3>1, DoCallerPut
      <3>2. CASE \E t \in Callers : \E g \in Events : CallPublish(t, g)
        BY <3>2, PublishEffect
      <3>3. CASE \E t \in Callers, d \in Consumers : Redrive(t, d)
        BY <3>3, RedriveEffect
      <3>4. ASSUME NEW p \in Places, Work(p)
            PROVE  used' = used \/ used'.redrives = used.redrives
        BY <3>4, DoTake, DoTakeProcessed, DoHandlerPublishes, DoWorkerPut, DoHandlerReturns,
           DoHandlerRaises, DoRetry, DoBury DEF Work
      <3>5. CASE Start \/ (\E d \in Consumers : CancelDispatcher(d))
        BY <3>5, DoStart, DoCancel
      <3>6. CASE Stop \/ Drained \/ (\E p \in Places : Join(p)) \/ UNCHANGED busVars
        <4>1. CASE UNCHANGED busVars
          BY <4>1 DEF busVars
        <4> QED
          BY <3>6, <4>1, DoStop, DoDrained, DoJoin
      <3> QED
        BY <3>1, <3>2, <3>3, <3>4, <3>5, <3>6 DEF BusNext
    <2> QED
      BY <2>0, <2>1
  <1> QED
    BY <1>1, <1>2

LEMMA AheadStep ==
    ASSUME TInv, [BusNext]_busVars, Drains, Known, NEW c \in Consumers, NEW e \in Events, NEW f \in Events,
           Place(c, e) = Place(c, f), ~Failed(c, e), Ahead(c, e, f), e \notin cut'[c]
    PROVE  returned'[c][e] > 0 \/ Ahead(c, e, f)'
  <1>0. /\ returned[c][f] = 0 /\ ~Holds(c, f)
        /\ Holds(c, e) \/ \E i \in Slots(c, e) : \A j \in Slots(c, f) : i < j
    BY DEF Ahead
  <1>1. Slots(c, e) \subseteq Nat \ {0} /\ Slots(c, f) \subseteq Nat \ {0}
    BY SlotTypes
  <1>2. Holds(c, e) => IsBusy(Place(c, f))
    BY DEF Holds
  <1>3. ~Taken(c, f)
    BY <1>0, <1>1, <1>2 DEF Taken, Removes
  <1>4. returned'[c][f] = 0 /\ ~Holds(c, f)'
    <2>1. CASE Passed(c, f) \/ Announced(c, f) \/ Delivered(c, f) \/ Skipped(c, f) \/ Redriven(c, f)
      BY <1>0, <2>1 DEF Passed, Announced, Delivered, Skipped, Redriven, Untouched, SameTask, SameBooks
    <2>2. CASE Returned(c, f) \/ Raised(c, f) \/ Requeued(c, f) \/ Buried(c, f)
      BY <1>0, <2>2 DEF Returned, Raised, Requeued, Buried
    <2>3. CASE Cut(c, f)
      BY <1>0, <2>3 DEF Cut, Shrunk, SameTask, SameBooks
    <2> QED
      BY <1>3, <2>1, <2>2, <2>3, Kinds
  <1>5. CASE Holds(c, e)
    <2>0. returned[c][e] \in Nat
      BY TallyTypes
    <2>1. CASE Passed(c, e) \/ Announced(c, e) \/ Delivered(c, e) \/ Skipped(c, e) \/ Redriven(c, e)
      <3>1. Holds(c, e)'
        BY <1>5, <2>1 DEF Passed, Announced, Delivered, Skipped, Redriven, Untouched, SameTask
      <3> QED
        BY <1>4, <3>1 DEF Ahead
    <2>2. CASE Returned(c, e)
      BY <2>0, <2>2 DEF Returned
    <2>3. CASE Raised(c, e) \/ Taken(c, e)
      <3>1. Holds(c, e)'
        BY <2>3 DEF Raised, Taken
      <3> QED
        BY <1>4, <3>1 DEF Ahead
    <2>4. ~Requeued(c, e) /\ ~Buried(c, e)
      BY DEF Requeued, Buried
    <2>5. CASE Cut(c, e)
      <3>1. Holds(c, e)'
        BY <1>5, <2>5, CutOff DEF Cut
      <3> QED
        BY <1>4, <3>1 DEF Ahead
    <2> QED
      BY <2>1, <2>2, <2>3, <2>4, <2>5, Kinds
  <1>6. CASE ~Holds(c, e)
    <2>1. PICK i \in Slots(c, e) : \A j \in Slots(c, f) : i < j
      BY <1>0, <1>6
    <2>2. CASE Slots(c, e)' = Slots(c, e) /\ Slots(c, f)' = Slots(c, f)
      BY <1>4, <2>1, <2>2 DEF Ahead
    <2>3. CASE Pushes(c, e, f)
      <3>1. i \in Slots(c, e)' /\ \A j \in Slots(c, f)' : i < j
        BY <2>1, <2>3 DEF Pushes
      <3> QED
        BY <1>4, <3>1 DEF Ahead
    <2>4. CASE Pops(c, e, f)
      <3>1. CASE i = 1
        <4>1. Holds(c, e)' \/ e \in processed[c]
          BY <2>4, <3>1 DEF Pops
        <4>2. CASE Holds(c, e)'
          BY <1>4, <4>2 DEF Ahead
        <4>3. CASE e \in processed[c]
          <5>1. returned[c][e] > 0 /\ returned[c][e] \in Nat
            BY <4>3, TallyTypes DEF Known, KnownAt
          <5>2. returned'[c][e] \in {returned[c][e], returned[c][e] + 1}
            <6>1. CASE Passed(c, e) \/ Announced(c, e) \/ Delivered(c, e) \/ Skipped(c, e) \/ Redriven(c, e)
              BY <6>1 DEF Passed, Announced, Delivered, Skipped, Redriven, Untouched, SameBooks
            <6>2. CASE Returned(c, e) \/ Raised(c, e) \/ Requeued(c, e) \/ Buried(c, e) \/ Taken(c, e)
              BY <6>2 DEF Returned, Raised, Requeued, Buried, Taken, SameBooks
            <6>3. CASE Cut(c, e)
              BY <6>3 DEF Cut, Shrunk, SameBooks
            <6> QED
              BY <6>1, <6>2, <6>3, Kinds
          <5> QED
            BY <5>1, <5>2
        <4> QED
          BY <4>1, <4>2, <4>3
      <3>2. CASE i # 1
        <4>1. i - 1 \in Slots(c, e)'
          <5>1. i \in Nat \ {0} /\ i - 1 >= 1 /\ i - 1 \in Nat /\ (i - 1) + 1 = i
            BY <1>1, <3>2
          <5> QED
            BY <2>4, <5>1 DEF Pops, MovesUp
        <4>2. ASSUME NEW j \in Slots(c, f)' PROVE i - 1 < j
          <5>1. j \in Nat /\ j + 1 \in Slots(c, f)
            BY <2>4, <4>2 DEF Pops, MovesUp
          <5>2. i < j + 1 /\ i \in Nat
            BY <1>1, <2>1, <5>1
          <5> QED
            BY <5>1, <5>2
        <4> QED
          BY <1>4, <4>1, <4>2 DEF Ahead
      <3> QED
        BY <3>1, <3>2
    <2> QED
      BY <2>2, <2>3, <2>4, QueueMoves
  <1> QED
    BY <1>5, <1>6

LEMMA FailedStep ==
    ASSUME TInv, [BusNext]_busVars, NEW c \in Consumers, NEW g \in Events, used'.redrives = 0,
           Failed(c, g) => tries[c][g] > 0
    PROVE  Failed(c, g)' => tries'[c][g] > 0
  <1>0. tries[c][g] \in Nat /\ used.redrives \in Nat
    BY TallyTypes
  <1>1. CASE Passed(c, g) \/ Announced(c, g) \/ Delivered(c, g) \/ Skipped(c, g)
    BY <1>1 DEF Passed, Announced, Delivered, Skipped, Untouched, SameTask, SameBooks
  <1>2. CASE Returned(c, g) \/ Requeued(c, g) \/ Buried(c, g) \/ Taken(c, g)
    <2>1. ~Failed(c, g)'
      BY <1>2 DEF Returned, Requeued, Buried, Taken, Failed
    <2> QED
      BY <2>1
  <1>3. CASE Raised(c, g)
    BY <1>0, <1>3 DEF Raised
  <1>4. CASE Redriven(c, g)
    BY <1>0, <1>4 DEF Redriven
  <1>5. CASE Cut(c, g)
    <2>1. Failed(c, g)' => Failed(c, g)
      <3>1. SameTask(c, g) \/ ~Failed(c, g)'
        BY <1>5 DEF Cut, Shrunk, Failed
      <3> QED
        BY <3>1 DEF SameTask
    <2> QED
      BY <1>5, <2>1 DEF Cut, Shrunk, SameBooks
  <1> QED
    BY <1>1, <1>2, <1>3, <1>4, <1>5, Kinds

LEMMA OrderedStep ==
    ASSUME TInv, [BusNext]_busVars, Drains, Known, Known', Ordered
    PROVE  Ordered'
  <1>1. ASSUME used'.redrives = 0, NEW c \in Consumers, NEW g \in Events
        PROVE  Failed(c, g)' => tries'[c][g] > 0
    <2>1. Failed(c, g) => tries[c][g] > 0
      BY <1>1, FailuresStay DEF Ordered
    <2> QED
      BY <1>1, <2>1, FailedStep
  <1>2. ASSUME NEW c \in Consumers, NEW e \in Events, NEW f \in Events, KeyOf[e] = KeyOf[f],
               Clean(c, KeyOf[e])', e \notin cut'[c], Before(c, e, f)'
        PROVE  returned'[c][e] > 0 \/ Ahead(c, e, f)'
    <2>0. Place(c, e) = Place(c, f) /\ returned[c][e] \in Nat
      BY <1>2, TallyTypes DEF Place
    <2>1. used'.redrives = 0 /\ \A g \in Events : KeyOf[g] = KeyOf[e] => tries'[c][g] = 0
      BY <1>2 DEF Clean
    <2>2. used.redrives = 0 /\ \A g \in Events : KeyOf[g] = KeyOf[e] => tries[c][g] = 0
      <3>1. ASSUME NEW g \in Events, KeyOf[g] = KeyOf[e] PROVE tries[c][g] = 0
        <4>1. tries[c][g] \in Nat /\ tries'[c][g] = 0
          BY <2>1, <3>1, TallyTypes
        <4>2. tries'[c][g] \in {tries[c][g], tries[c][g] + 1}
          BY <2>1, FailuresStay
        <4> QED
          BY <4>1, <4>2
      <3> QED
        BY <2>1, <3>1, FailuresStay
    <2>3. Clean(c, KeyOf[e])
      BY <2>2 DEF Clean
    <2>4. ~Failed(c, e)
      <3>1. Failed(c, e) => tries[c][e] > 0
        BY <2>2 DEF Ordered
      <3> QED
        BY <2>2, <3>1
    <2>5. CASE Before(c, e, f)
      <3>0. e \notin cut[c]
        BY <1>2, CutGrows DEF Drains
      <3>1. returned[c][e] > 0 \/ Ahead(c, e, f)
        BY <1>2, <2>3, <2>5, <3>0 DEF Ordered
      <3>2. CASE returned[c][e] > 0
        <4>1. CASE Passed(c, e) \/ Announced(c, e) \/ Delivered(c, e) \/ Skipped(c, e) \/ Redriven(c, e)
          BY <3>2, <4>1 DEF Passed, Announced, Delivered, Skipped, Redriven, Untouched, SameBooks
        <4>2. CASE Returned(c, e) \/ Raised(c, e) \/ Requeued(c, e) \/ Buried(c, e) \/ Taken(c, e)
          BY <2>0, <3>2, <4>2 DEF Returned, Raised, Requeued, Buried, Taken, SameBooks
        <4>3. CASE Cut(c, e)
          BY <3>2, <4>3 DEF Cut, Shrunk, SameBooks
        <4> QED
          BY <4>1, <4>2, <4>3, Kinds
      <3>3. CASE Ahead(c, e, f)
        BY <1>2, <2>0, <2>4, <3>3, AheadStep
      <3> QED
        BY <3>1, <3>2, <3>3
    <2>6. CASE Slots(c, e)' # {} /\ ~IsAccepted(c, f)'
      <3>1. KnownAt(c, f)'
        BY DEF Known
      <3>2. Slots(c, f)' = {} /\ ~Holds(c, f)' /\ ~(returned'[c][f] > 0)
        BY <2>6, <3>1 DEF KnownAt
      <3>3. TInv'
        BY StepTyped
      <3>4. returned'[c][f] \in Nat
        <4>1. returned' \in [Consumers -> [Events -> Nat]]
          BY <3>3 DEF TInv, BooksOK, Tally
        <4>2. returned'[c] \in [Events -> Nat]
          BY <4>1
        <4> QED
          BY <4>2
      <3>5. returned'[c][f] = 0
        BY <3>2, <3>4
      <3> QED
        BY <2>6, <3>2, <3>5 DEF Ahead
    <2> QED
      BY <1>2, <2>5, <2>6, BeforeBack
  <1> QED
    BY <1>1, <1>2 DEF Ordered

LEMMA InitOrdered == BusInit => Ordered
  <1> SUFFICES ASSUME BusInit PROVE Ordered
    OBVIOUS
  <1>1. ASSUME NEW c \in Consumers, NEW g \in Events PROVE ~Failed(c, g)
    BY InitPlaces DEF Failed
  <1>2. ASSUME NEW c \in Consumers, NEW e \in Events, NEW f \in Events PROVE ~Before(c, e, f)
    BY InitPlaces DEF Before, IsAccepted
  <1> QED
    BY <1>1, <1>2 DEF Ordered

\* Order by key: while no event of the key failed in the consumer and nothing
\* was redriven, events of one key are handled in the order they were first
\* accepted, however the publishers, the workers and the stops interleave; only an
\* event that a stop cut off is passed over.
THEOREM HandledInOrder == BusSpec => []KeyOrder
  <1>1. BusInit => TInv /\ Drains /\ Known /\ Ordered
    BY BusInitTyped, InitDrains, InitPlaced, InitOrdered
  <1>2. TInv /\ Drains /\ Known /\ Ordered /\ [BusNext]_busVars => TInv' /\ Drains' /\ Known' /\ Ordered'
    BY StepTyped, DrainsStep, PlacedStep, OrderedStep
  <1>3. TInv /\ Ordered => KeyOrder
    <2> SUFFICES ASSUME TInv, Ordered, NEW c \in Consumers,
                        NEW i \in 1..Len(accepted[c]), NEW j \in 1..Len(accepted[c]),
                        used.redrives = 0, i < j, \A h \in 1..i : accepted[c][h] # accepted[c][j],
                        KeyOf[accepted[c][i]] = KeyOf[accepted[c][j]],
                        \A g \in Events : KeyOf[g] = KeyOf[accepted[c][i]] => tries[c][g] = 0 /\ ~InDlq(c, g),
                        accepted[c][i] \notin cut[c],
                        returned[c][accepted[c][j]] > 0
                 PROVE  returned[c][accepted[c][i]] > 0
      BY DEF KeyOrder
    <2>1. accepted[c][i] \in Events /\ accepted[c][j] \in Events
      <3>1. accepted[c] \in Seq(Events)
        BY DEF TInv, BooksOK
      <3> QED
        BY <3>1
    <2>2. PICK e \in Events, f \in Events : e = accepted[c][i] /\ f = accepted[c][j]
      BY <2>1
    <2>3. Clean(c, KeyOf[e]) /\ Before(c, e, f)
      BY <2>2 DEF Clean, Before
    <2>4. returned[c][e] > 0 \/ Ahead(c, e, f)
      BY <2>2, <2>3 DEF Ordered
    <2> QED
      BY <2>2, <2>4 DEF Ahead
  <1> QED
    BY <1>1, <1>2, <1>3, PTL DEF BusSpec

-----------------------------------------------------------------------------
(* The contract of the port.                                               *)

LEMMA AttemptsStep ==
    ASSUME TInv, [BusNext]_busVars, NEW c \in Consumers, NEW e \in Events, SingleAt(c, e), AttemptsAt(c, e)
    PROVE  AttemptsAt(c, e)'
  <1>0. /\ returned[c][e] \in Nat /\ tries[c][e] \in Nat
        /\ used.publications[e] \in Nat /\ MaxAttempts \in Nat \ {0}
    BY TallyTypes
  <1>a. e \notin Failing =>
          /\ tries[c][e] = 0 /\ Letters(c, e) = {} /\ ~Failed(c, e)
          /\ returned[c][e] > 0 => e \in processed[c]
    BY DEF AttemptsAt
  <1>b. e \in Failing /\ used.publications[e] <= 1 =>
          /\ \A n \in Tags(c, e) : n = tries[c][e] + 1
          /\ Holds(c, e) /\ ~Failed(c, e) => worker[Place(c, e)].attempt = tries[c][e] + 1
          /\ Failed(c, e) => worker[Place(c, e)].attempt = tries[c][e]
          /\ GivingUp(c, e) => tries[c][e] = MaxAttempts
          /\ Calls(c, e) # {} \/ Puts(c, e) # {} => tries[c][e] = 0
    BY DEF AttemptsAt
  <1>c. used.publications[e] <= 1 => Single(c, e)
    BY DEF SingleAt
  <1>d. used'.publications[e] \in {used.publications[e], used.publications[e] + 1}
    <2>1. CASE Passed(c, e) \/ Announced(c, e) \/ Delivered(c, e) \/ Taken(c, e) \/ Skipped(c, e)
      BY <2>1 DEF Passed, Announced, Delivered, Taken, Skipped, UsedSame
    <2>2. CASE Returned(c, e) \/ Raised(c, e) \/ Requeued(c, e) \/ Buried(c, e) \/ Redriven(c, e) \/ Cut(c, e)
      BY <2>2 DEF Returned, Raised, Requeued, Buried, Redriven, Cut, UsedSame
    <2> QED
      BY <2>1, <2>2, Kinds
  <1>1. ASSUME e \notin Failing
        PROVE  /\ tries'[c][e] = 0 /\ Letters(c, e)' = {} /\ ~Failed(c, e)'
               /\ returned'[c][e] > 0 => e \in processed'[c]
    <2>0. /\ tries[c][e] = 0 /\ Letters(c, e) = {} /\ ~Failed(c, e)
          /\ returned[c][e] > 0 => e \in processed[c]
      BY <1>1, <1>a
    <2>1. CASE Passed(c, e) \/ Announced(c, e) \/ Delivered(c, e) \/ Skipped(c, e)
      BY <2>0, <2>1 DEF Passed, Announced, Delivered, Skipped, Untouched, SameTask, SameBooks, SameLetters,
         Steady
    <2>2. CASE Taken(c, e)
      BY <2>0, <2>2 DEF Taken, SameBooks, SameLetters, Steady
    <2>3. CASE Returned(c, e)
      BY <2>0, <2>3 DEF Returned, Failed, SameLetters, Steady
    <2>4. ~Raised(c, e) /\ ~Requeued(c, e) /\ ~Buried(c, e) /\ ~Redriven(c, e)
      BY <1>1, <2>0 DEF Raised, Requeued, Buried, Redriven
    <2>5. CASE Cut(c, e)
      <3>1. Failed(c, e)' => Failed(c, e)
        <4>1. SameTask(c, e) \/ ~Failed(c, e)'
          BY <2>5 DEF Cut, Shrunk, Failed
        <4> QED
          BY <4>1 DEF SameTask
      <3> QED
        BY <2>0, <2>5, <3>1 DEF Cut, Shrunk, SameBooks, SameLetters, Steady
    <2> QED
      BY <2>1, <2>2, <2>3, <2>4, <2>5, Kinds
  <1>2. ASSUME e \in Failing, used'.publications[e] <= 1
        PROVE  /\ \A n \in Tags(c, e)' : n = tries'[c][e] + 1
               /\ Holds(c, e)' /\ ~Failed(c, e)' => worker'[Place(c, e)].attempt = tries'[c][e] + 1
               /\ Failed(c, e)' => worker'[Place(c, e)].attempt = tries'[c][e]
               /\ GivingUp(c, e)' => tries'[c][e] = MaxAttempts
               /\ Calls(c, e)' # {} \/ Puts(c, e)' # {} => tries'[c][e] = 0
    <2>p. used.publications[e] <= 1
      BY <1>0, <1>2, <1>d
    <2>0. /\ \A n \in Tags(c, e) : n = tries[c][e] + 1
          /\ Holds(c, e) /\ ~Failed(c, e) => worker[Place(c, e)].attempt = tries[c][e] + 1
          /\ Failed(c, e) => worker[Place(c, e)].attempt = tries[c][e]
          /\ GivingUp(c, e) => tries[c][e] = MaxAttempts
          /\ Calls(c, e) # {} \/ Puts(c, e) # {} => tries[c][e] = 0
      BY <1>2, <2>p, <1>b
    <2>s. Single(c, e)
      BY <2>p, <1>c
    <2>t. /\ Failed(c, e) => Holds(c, e)
          /\ GivingUp(c, e) => Holds(c, e)
          /\ Failed(c, e)' => Holds(c, e)'
          /\ GivingUp(c, e)' => Holds(c, e)'
          /\ GivingUp(c, e)' => Failed(c, e)'
      BY DEF Failed, GivingUp
    <2>e. Slots(c, e) = {} => Tags(c, e) = {}
      BY DEF Tags
    <2>1. CASE Passed(c, e)
      BY <2>0, <2>1, <2>t DEF Passed, Untouched, SameTask, SameBooks, SameQueued, SameCalls, SamePuts
    <2>2. CASE Announced(c, e)
      <3>1. used.publications[e] = 0
        BY <1>0, <1>2, <2>2 DEF Announced
      <3>2. Absent(c, e)
        BY <3>1 DEF SingleAt
      <3>3. tries'[c][e] = 0
        BY <2>2, <3>2 DEF Announced, SameBooks, Absent
      <3> QED
        BY <2>0, <2>2, <2>t, <3>3 DEF Announced, SameTask, SameBooks, SameQueued
    <2>3. CASE Delivered(c, e)
      <3>1. tries'[c][e] = 0 /\ tries[c][e] = 0
        BY <2>0, <2>3 DEF Delivered
      <3> QED
        BY <2>0, <2>3, <2>t, <3>1 DEF Delivered, SameTask
    <2>4. CASE Taken(c, e)
      BY <2>0, <2>4, <2>t DEF Taken, Removes, SameBooks, SameCalls, SamePuts
    <2>5. CASE Skipped(c, e)
      BY <2>0, <2>5, <2>t DEF Skipped, Removes, SameTask, SameBooks, SameCalls, SamePuts
    <2>6. CASE Returned(c, e)
      BY <2>0, <2>6, <2>t DEF Returned, SameQueued, SameCalls, SamePuts
    <2>7. CASE Raised(c, e)
      <3>1. Slots(c, e) = {} /\ Calls(c, e) = {} /\ Puts(c, e) = {}
        BY <2>7, <2>s DEF Raised, Single
      <3>2. Tags(c, e)' = {} /\ Calls(c, e)' = {} /\ Puts(c, e)' = {}
        BY <2>7, <2>e, <3>1 DEF Raised, SameQueued, SameCalls, SamePuts
      <3>3. worker'[Place(c, e)].attempt = tries[c][e] + 1 /\ tries'[c][e] = tries[c][e] + 1
        BY <2>0, <2>7 DEF Raised
      <3>4. GivingUp(c, e)' => tries'[c][e] = MaxAttempts
        BY <2>0, <2>7, <3>3 DEF Raised
      <3>5. Failed(c, e)'
        BY <2>7 DEF Raised
      <3> QED
        BY <3>2, <3>3, <3>4, <3>5
    <2>8. CASE Requeued(c, e)
      BY <2>0, <2>8, <2>t DEF Requeued, SameBooks, SameCalls, SamePuts
    <2>9. CASE Buried(c, e)
      BY <2>0, <2>9, <2>t DEF Buried, SameBooks, SameQueued, SameCalls, SamePuts
    <2>10. CASE Redriven(c, e)
      <3>1. Slots(c, e) = {} /\ ~Holds(c, e)
        BY <2>10, <2>s DEF Redriven, Single
      <3>2. Tags(c, e)' = {} /\ ~Holds(c, e)' /\ tries'[c][e] = 0
        BY <2>10, <2>e, <3>1 DEF Redriven, SameQueued, SameTask
      <3> QED
        BY <2>t, <3>2
    <2>11. CASE Cut(c, e)
      <3>1. /\ Tags(c, e)' = Tags(c, e) /\ tries'[c][e] = tries[c][e]
            /\ Calls(c, e)' = Calls(c, e) /\ Puts(c, e)' \subseteq Puts(c, e)
            /\ SameTask(c, e) \/ ~Holds(c, e)'
        BY <2>11 DEF Cut, Shrunk, SameBooks, SameQueued, SameCalls
      <3>2. CASE SameTask(c, e)
        BY <2>0, <2>t, <3>1, <3>2 DEF SameTask
      <3>3. CASE ~Holds(c, e)'
        BY <2>0, <2>t, <3>1, <3>3
      <3> QED
        BY <3>1, <3>2, <3>3
    <2> QED
      BY <2>1, <2>2, <2>3, <2>4, <2>5, <2>6, <2>7, <2>8, <2>9, <2>10, <2>11, Kinds
  <1> QED
    BY <1>1, <1>2 DEF AttemptsAt

\* Of an event, for a consumer: handled, dead or accepted.
Shown(gone, handled, known) ==
    IF gone THEN "dead" ELSE IF handled THEN "done" ELSE IF known THEN "pending" ELSE "new"

LEMMA StatusShown ==
    ASSUME TInv, TInv', NEW c \in Consumers
    PROVE  /\ Status(c) = [e \in Events |->
                             Shown(Letters(c, e) # {}, returned[c][e] > 0, IsAccepted(c, e))]
           /\ Status(c)' = [e \in Events |->
                              Shown(Letters(c, e)' # {}, returned'[c][e] > 0, IsAccepted(c, e)')]
  <1>0. /\ returned \in [Consumers -> [Events -> Nat]] /\ returned' \in [Consumers -> [Events -> Nat]]
    BY DEF TInv, BooksOK, Tally
  <1>a. returned[c] \in [Events -> Nat] /\ returned'[c] \in [Events -> Nat]
    BY <1>0
  <1>1. ASSUME NEW e \in Events
        PROVE  (CASE InDlq(c, e) -> "dead"
                  [] ~InDlq(c, e) /\ returned[c][e] > 0 -> "done"
                  [] ~InDlq(c, e) /\ returned[c][e] = 0 /\ e \in RangeOf(accepted[c]) -> "pending"
                  [] OTHER -> "new")
                 = Shown(Letters(c, e) # {}, returned[c][e] > 0, IsAccepted(c, e))
    <2>1. returned[c][e] \in Nat
      BY <1>a
    <2>2. InDlq(c, e) <=> Letters(c, e) # {}
      BY PlacedElsewhere
    <2>3. e \in RangeOf(accepted[c]) <=> IsAccepted(c, e)
      BY PlacedElsewhere
    <2> QED
      BY <2>1, <2>2, <2>3 DEF Shown
  <1>2. ASSUME NEW e \in Events
        PROVE  (CASE InDlq(c, e)' -> "dead"
                  [] ~InDlq(c, e)' /\ returned'[c][e] > 0 -> "done"
                  [] ~InDlq(c, e)' /\ returned'[c][e] = 0 /\ e \in RangeOf(accepted'[c]) -> "pending"
                  [] OTHER -> "new")
                 = Shown(Letters(c, e)' # {}, returned'[c][e] > 0, IsAccepted(c, e)')
    <2>1. returned'[c][e] \in Nat
      BY <1>a
    <2>2. InDlq(c, e)' <=> Letters(c, e)' # {}
      BY DEF InDlq, Letters, RangeOf
    <2>3. e \in RangeOf(accepted'[c]) <=> IsAccepted(c, e)'
      BY DEF RangeOf, IsAccepted
    <2> QED
      BY <2>1, <2>2, <2>3 DEF Shown
  <1>3. Status(c) = [e \in Events |->
                       Shown(Letters(c, e) # {}, returned[c][e] > 0, IsAccepted(c, e))]
    BY <1>1 DEF Status
  <1>4. Status(c)' = [e \in Events |->
                        Shown(Letters(c, e)' # {}, returned'[c][e] > 0, IsAccepted(c, e)')]
    BY <1>2 DEF Status
  <1> QED
    BY <1>3, <1>4

SameShown(c, e) ==
    /\ Letters(c, e)' # {} <=> Letters(c, e) # {}
    /\ returned'[c][e] > 0 <=> returned[c][e] > 0
    /\ IsAccepted(c, e)' <=> IsAccepted(c, e)

LEMMA StatusMoves ==
    ASSUME TInv, TInv', NEW c \in Consumers, NEW e \in Events, NEW s,
           Shown(Letters(c, e)' # {}, returned'[c][e] > 0, IsAccepted(c, e)') = s,
           \A f \in Events : f # e => SameShown(c, f)
    PROVE  Status(c)' = [Status(c) EXCEPT ![e] = s]
  <1> DEFINE A(f) == Shown(Letters(c, f) # {}, returned[c][f] > 0, IsAccepted(c, f))
             B(f) == Shown(Letters(c, f)' # {}, returned'[c][f] > 0, IsAccepted(c, f)')
  <1>1. \A f \in Events : f # e => B(f) = A(f)
    BY DEF Shown, SameShown
  <1>2. Status(c) = [f \in Events |-> A(f)] /\ Status(c)' = [f \in Events |-> B(f)]
    BY StatusShown
  <1>3. B(e) = s
    OBVIOUS
  <1> HIDE DEF A, B
  <1> QED
    BY <1>1, <1>2, <1>3

LEMMA StatusStays ==
    ASSUME TInv, TInv', NEW c \in Consumers, \A f \in Events : SameShown(c, f)
    PROVE  Status(c)' = Status(c)
  <1> DEFINE A(f) == Shown(Letters(c, f) # {}, returned[c][f] > 0, IsAccepted(c, f))
             B(f) == Shown(Letters(c, f)' # {}, returned'[c][f] > 0, IsAccepted(c, f)')
  <1>1. \A f \in Events : B(f) = A(f)
    BY DEF Shown, SameShown
  <1>2. Status(c) = [f \in Events |-> A(f)] /\ Status(c)' = [f \in Events |-> B(f)]
    BY StatusShown
  <1> HIDE DEF A, B
  <1> QED
    BY <1>1, <1>2

\* A step concerns one event of one consumer at most.
LEMMA OneAtATime ==
    ASSUME TInv, [BusNext]_busVars
    PROVE  \/ \A c \in Consumers, e \in Events : SameLetters(c, e) /\ SameBooks(c, e)
           \/ \E c0 \in Consumers, e0 \in Events : Elsewhere(c0, e0)
  <1>1. CASE \E t \in Callers : CallerPut(t)
    BY <1>1, CallerPutEffect
  <1>2. CASE \E t \in Callers : \E g \in Events : CallPublish(t, g)
    BY <1>2, PublishEffect
  <1>3. CASE \E t \in Callers, d \in Consumers : Redrive(t, d)
    BY <1>3, RedriveEffect
  <1>4. ASSUME NEW p \in Places, Take(p) PROVE \E c0 \in Consumers, e0 \in Events : Elsewhere(c0, e0)
    BY <1>4, TakeEffects
  <1>5. ASSUME NEW p \in Places, TakeProcessed(p) PROVE \E c0 \in Consumers, e0 \in Events : Elsewhere(c0, e0)
    BY <1>5, TakeProcessedEffects
  <1>6. ASSUME NEW p \in Places, WorkerPut(p) PROVE \E c0 \in Consumers, e0 \in Events : Elsewhere(c0, e0)
    BY <1>6, WorkerPutEffect
  <1>7. ASSUME NEW p \in Places, HandlerReturns(p) PROVE \E c0 \in Consumers, e0 \in Events : Elsewhere(c0, e0)
    BY <1>7, HandlerReturnsEffect
  <1>8. ASSUME NEW p \in Places, HandlerRaises(p) PROVE \E c0 \in Consumers, e0 \in Events : Elsewhere(c0, e0)
    BY <1>8, HandlerRaisesEffect
  <1>9. ASSUME NEW p \in Places, Retry(p) PROVE \E c0 \in Consumers, e0 \in Events : Elsewhere(c0, e0)
    BY <1>9, RetryEffects
  <1>10. ASSUME NEW p \in Places, Bury(p) PROVE \E c0 \in Consumers, e0 \in Events : Elsewhere(c0, e0)
    BY <1>10, BuryEffect
  <1>11. ASSUME NEW p \in Places, HandlerPublishes(p), NEW c \in Consumers, NEW e \in Events
         PROVE  SameLetters(c, e) /\ SameBooks(c, e)
    BY <1>11, HandlerPublishesEffect
  <1>12. ASSUME Start \/ (\E d \in Consumers : CancelDispatcher(d)), NEW c \in Consumers, NEW e \in Events
         PROVE  SameLetters(c, e) /\ SameBooks(c, e)
    BY <1>12, RestartEffect DEF Shrunk
  <1>13. ASSUME Stop \/ Drained \/ (\E p \in Places : Join(p)) \/ UNCHANGED busVars,
                NEW c \in Consumers, NEW e \in Events
         PROVE  SameLetters(c, e) /\ SameBooks(c, e)
    BY <1>13, LifeEffect DEF Untouched
  <1> QED
    BY <1>1, <1>2, <1>3, <1>4, <1>5, <1>6, <1>7, <1>8, <1>9, <1>10, <1>11, <1>12, <1>13 DEF BusNext, Work

\* What the port calls the state of an event, for a consumer, and its failures.
Port(c) == INSTANCE EventBusPort WITH status <- Status(c), attempts <- tries[c]

LEMMA TriesMove ==
    ASSUME TInv, TInv', NEW c \in Consumers, NEW e \in Events, NEW n, tries'[c][e] = n,
           \A f \in Events : f # e => tries'[c][f] = tries[c][f]
    PROVE  tries'[c] = [tries[c] EXCEPT ![e] = n]
  <1>1. tries \in [Consumers -> [Events -> Nat]] /\ tries' \in [Consumers -> [Events -> Nat]]
    BY DEF TInv, BooksOK, Tally
  <1>2. tries[c] \in [Events -> Nat] /\ tries'[c] \in [Events -> Nat]
    BY <1>1
  <1> QED
    BY <1>2

LEMMA PortStep ==
    ASSUME TInv, TInv', [BusNext]_busVars, Known, Remembers, Singles, Attempts,
           \A e \in Failing : MaxPublications[e] <= 1, NEW c \in Consumers
    PROVE  [Port(c)!Next]_(Port(c)!vars)
  <1>1. CASE \A f \in Events : SameLetters(c, f) /\ SameBooks(c, f)
    <2>1. \A f \in Events : SameShown(c, f)
      BY <1>1 DEF SameLetters, SameBooks, Steady, SameShown
    <2>2. Status(c)' = Status(c)
      BY <2>1, StatusStays
    <2>3. tries'[c] = tries[c]
      <3>1. tries \in [Consumers -> [Events -> Nat]] /\ tries' \in [Consumers -> [Events -> Nat]]
        BY DEF TInv, BooksOK, Tally
      <3>2. tries[c] \in [Events -> Nat] /\ tries'[c] \in [Events -> Nat]
        BY <3>1
      <3> QED
        BY <1>1, <3>2 DEF SameBooks
    <2> QED
      BY <2>2, <2>3 DEF Port!vars
  <1>2. ASSUME NEW e \in Events, \A f \in Events : f # e => Untouched(c, f)
        PROVE  [Port(c)!Next]_(Port(c)!vars)
    <2>0. /\ returned[c][e] \in Nat /\ tries[c][e] \in Nat
          /\ used.publications[e] \in Nat /\ MaxAttempts \in Nat \ {0} /\ MaxPublications[e] \in Nat
      BY TallyTypes
    <2>a. \A f \in Events : f # e => SameShown(c, f) /\ tries'[c][f] = tries[c][f]
      BY <1>2 DEF Untouched, SameLetters, SameBooks, Steady, SameShown
    <2>b. Status(c)[e] = Shown(Letters(c, e) # {}, returned[c][e] > 0, IsAccepted(c, e))
      BY StatusShown
    <2>c. Slots(c, e) # {} \/ Holds(c, e) \/ Letters(c, e) # {} \/ returned[c][e] > 0 => IsAccepted(c, e)
      BY DEF Known, KnownAt
    <2>d. e \in Failing => used.publications[e] <= 1 /\ Single(c, e)
      BY <2>0 DEF Singles, SingleAt
    <2>e. /\ e \notin Failing =>
               /\ tries[c][e] = 0 /\ Letters(c, e) = {} /\ ~Failed(c, e)
               /\ returned[c][e] > 0 => e \in processed[c]
          /\ e \in Failing =>
               /\ Holds(c, e) /\ ~Failed(c, e) => worker[Place(c, e)].attempt = tries[c][e] + 1
               /\ GivingUp(c, e) => tries[c][e] = MaxAttempts
      BY <2>d DEF Attempts, AttemptsAt
    <2>f. Holds(c, e) => e \notin processed[c]
      BY DEF Remembers, RemembersAt
    <2>g. Holds(c, e) => Letters(c, e) = {} /\ returned[c][e] = 0 /\ Status(c)[e] = "pending"
      <3>1. CASE e \in Failing
        BY <2>b, <2>c, <2>d, <3>1 DEF Single, Shown
      <3>2. CASE e \notin Failing
        BY <2>0, <2>b, <2>c, <2>e, <2>f, <3>2 DEF Shown
      <3> QED
        BY <3>1, <3>2
    <2>h. ASSUME SameLetters(c, e), SameBooks(c, e) PROVE [Port(c)!Next]_(Port(c)!vars)
      <3>1. \A f \in Events : SameLetters(c, f) /\ SameBooks(c, f)
        BY <1>2, <2>h DEF Untouched
      <3> QED
        BY <1>1, <3>1
    <2>1. CASE Passed(c, e) \/ Announced(c, e) \/ Taken(c, e) \/ Skipped(c, e) \/ Requeued(c, e) \/ Cut(c, e)
      <3>1. SameLetters(c, e) /\ SameBooks(c, e)
        BY <2>1 DEF Passed, Announced, Taken, Skipped, Requeued, Cut, Untouched, Shrunk
      <3> QED
        BY <2>h, <3>1
    <2>2. CASE Delivered(c, e)
      <3>1. /\ Letters(c, e)' # {} <=> Letters(c, e) # {}
            /\ returned'[c][e] = returned[c][e] /\ tries'[c][e] = tries[c][e] /\ IsAccepted(c, e)'
            /\ SameLetters(c, e)
            /\ e \in processed'[c] <=> e \in processed[c]
        BY <2>2 DEF Delivered, SameLetters, Steady
      <3>2. CASE IsAccepted(c, e)
        <4>1. IsAccepted(c, e)' = IsAccepted(c, e)
          <5>1. IsAccepted(c, e) = TRUE /\ IsAccepted(c, e)' = TRUE
            BY <3>1, <3>2 DEF IsAccepted
          <5> QED
            BY <5>1
        <4>2. SameLetters(c, e) /\ SameBooks(c, e)
          BY <3>1, <4>1 DEF SameBooks
        <4> QED
          BY <2>h, <4>2
      <3>3. CASE ~IsAccepted(c, e)
        <4>1. Letters(c, e) = {} /\ ~(returned[c][e] > 0)
          BY <2>c, <3>3
        <4>2. Status(c)[e] = "new"
          BY <2>b, <3>3, <4>1 DEF Shown
        <4>3. Shown(Letters(c, e)' # {}, returned'[c][e] > 0, IsAccepted(c, e)') = "pending"
          BY <3>1, <4>1 DEF Shown
        <4>4. Status(c)' = [Status(c) EXCEPT ![e] = "pending"]
          BY <2>a, <4>3, StatusMoves
        <4>5. tries'[c] = tries[c]
          <5>1. tries \in [Consumers -> [Events -> Nat]] /\ tries' \in [Consumers -> [Events -> Nat]]
            BY DEF TInv, BooksOK, Tally
          <5>2. tries[c] \in [Events -> Nat] /\ tries'[c] \in [Events -> Nat]
            BY <5>1
          <5> QED
            BY <2>a, <3>1, <5>2
        <4> QED
          BY <4>2, <4>4, <4>5 DEF Port!Next, Port!Publish
      <3> QED
        BY <3>2, <3>3
    <2>3. CASE Returned(c, e)
      <3>1. Holds(c, e) /\ ~Failed(c, e) /\ Letters(c, e)' = {} /\ returned'[c][e] > 0 /\ tries'[c][e] = tries[c][e]
        BY <2>0, <2>3, <2>g DEF Returned, SameLetters, Steady
      <3>2. tries[c][e] < MaxAttempts
        <4>1. worker[Place(c, e)].attempt \in 1..MaxAttempts
          BY <3>1, PlaceType DEF Holds, IsBusy, TInv, TasksOK, TaskOK
        <4> QED
          BY <2>0, <2>e, <3>1, <4>1
      <3>3. Status(c)' = [Status(c) EXCEPT ![e] = "done"]
        <4>1. Shown(Letters(c, e)' # {}, returned'[c][e] > 0, IsAccepted(c, e)') = "done"
          BY <3>1 DEF Shown
        <4> QED
          BY <2>a, <4>1, StatusMoves
      <3>4. tries'[c] = tries[c]
        <4>1. tries \in [Consumers -> [Events -> Nat]] /\ tries' \in [Consumers -> [Events -> Nat]]
          BY DEF TInv, BooksOK, Tally
        <4>2. tries[c] \in [Events -> Nat] /\ tries'[c] \in [Events -> Nat]
          BY <4>1
        <4> QED
          BY <2>a, <3>1, <4>2
      <3> QED
        BY <2>g, <3>1, <3>2, <3>3, <3>4 DEF Port!Next, Port!Deliver, Port!Handled
    <2>4. CASE Raised(c, e)
      <3>1. /\ Holds(c, e) /\ ~Failed(c, e) /\ Letters(c, e)' = {} /\ returned'[c][e] = returned[c][e]
            /\ tries'[c][e] = tries[c][e] + 1 /\ IsAccepted(c, e)' = IsAccepted(c, e)
        BY <2>4, <2>g DEF Raised, SameLetters, Steady
      <3>2. tries[c][e] < MaxAttempts
        BY <2>0, <2>4, <2>e, <3>1 DEF Raised
      <3>3. Status(c)' = Status(c)
        <4>1. SameShown(c, e)
          BY <2>g, <3>1 DEF SameShown
        <4>2. \A f \in Events : SameShown(c, f)
          BY <2>a, <4>1
        <4> QED
          BY <4>2, StatusStays
      <3>4. tries'[c] = [tries[c] EXCEPT ![e] = tries[c][e] + 1]
        BY <2>a, <3>1, TriesMove
      <3> QED
        BY <2>g, <3>1, <3>2, <3>3, <3>4 DEF Port!Next, Port!Deliver, Port!Raised
    <2>5. CASE Buried(c, e)
      <3>1. /\ Holds(c, e) /\ GivingUp(c, e) /\ Letters(c, e)' # {} /\ tries'[c][e] = tries[c][e] /\ Failed(c, e)
        BY <2>5 DEF Buried, SameBooks
      <3>2. tries[c][e] = MaxAttempts
        BY <2>e, <3>1
      <3>3. Status(c)' = [Status(c) EXCEPT ![e] = "dead"]
        <4>1. Shown(Letters(c, e)' # {}, returned'[c][e] > 0, IsAccepted(c, e)') = "dead"
          BY <3>1 DEF Shown
        <4> QED
          BY <2>a, <4>1, StatusMoves
      <3>4. tries'[c] = tries[c]
        <4>1. tries \in [Consumers -> [Events -> Nat]] /\ tries' \in [Consumers -> [Events -> Nat]]
          BY DEF TInv, BooksOK, Tally
        <4>2. tries[c] \in [Events -> Nat] /\ tries'[c] \in [Events -> Nat]
          BY <4>1
        <4> QED
          BY <2>a, <3>1, <4>2
      <3> QED
        BY <2>g, <3>1, <3>2, <3>3, <3>4 DEF Port!Next, Port!Deliver, Port!DeadLettered
    <2>6. CASE Redriven(c, e)
      <3>1. /\ Letters(c, e) # {} /\ tries'[c][e] = 0 /\ returned'[c][e] = returned[c][e]
            /\ IsAccepted(c, e)' = IsAccepted(c, e) /\ (One(Letters(c, e)) => Letters(c, e)' = {})
        BY <2>6 DEF Redriven
      <3>2. Single(c, e)
        BY <2>d, <2>e, <3>1
      <3>3. Letters(c, e)' = {} /\ returned[c][e] = 0
        BY <3>1, <3>2 DEF Single
      <3>4. Status(c)[e] = "dead"
        BY <2>b, <3>1 DEF Shown
      <3>5. Status(c)' = [Status(c) EXCEPT ![e] = "pending"]
        <4>1. Shown(Letters(c, e)' # {}, returned'[c][e] > 0, IsAccepted(c, e)') = "pending"
          BY <2>c, <3>1, <3>3 DEF Shown
        <4> QED
          BY <2>a, <4>1, StatusMoves
      <3>6. tries'[c] = [tries[c] EXCEPT ![e] = 0]
        BY <2>a, <3>1, TriesMove
      <3> QED
        BY <3>4, <3>5, <3>6 DEF Port!Next, Port!Redriven
    <2> QED
      BY <2>1, <2>2, <2>3, <2>4, <2>5, <2>6, Kinds
  <1>3. ASSUME NEW c0 \in Consumers, NEW e0 \in Events, Elsewhere(c0, e0)
        PROVE  [Port(c)!Next]_(Port(c)!vars)
    <2>1. CASE c = c0
      BY <1>2, <1>3, <2>1 DEF Elsewhere
    <2>2. CASE c # c0
      BY <1>1, <1>3, <2>2 DEF Elsewhere, Untouched
    <2> QED
      BY <2>1, <2>2
  <1> QED
    BY <1>1, <1>3, OneAtATime

LEMMA PortInit ==
    ASSUME BusInit, NEW c \in Consumers
    PROVE  Attempts /\ Port(c)!Init
  <1>1. ASSUME NEW d \in Consumers, NEW e \in Events PROVE AttemptsAt(d, e)
    <2>1. /\ Slots(d, e) = {} /\ ~Holds(d, e) /\ Letters(d, e) = {} /\ Calls(d, e) = {} /\ Puts(d, e) = {}
          /\ returned[d][e] = 0 /\ tries[d][e] = 0
      BY InitPlaces
    <2>2. Tags(d, e) = {} /\ ~Failed(d, e) /\ ~GivingUp(d, e)
      BY <2>1 DEF Tags, Failed, GivingUp
    <2> QED
      BY <2>1, <2>2 DEF AttemptsAt
  <1>2. Status(c) = [e \in Events |-> "new"]
    <2>1. ASSUME NEW e \in Events
          PROVE  ~InDlq(c, e) /\ returned[c][e] = 0 /\ e \notin RangeOf(accepted[c])
      BY InitPlaces, PlacedElsewhere
    <2> QED
      BY <2>1 DEF Status
  <1>3. tries[c] = [e \in Events |-> 0]
    BY DEF BusInit
  <1> QED
    BY <1>1, <1>2, <1>3 DEF Attempts, Port!Init

\* The bus keeps the promises of the port (ports/event_bus.py) to each of its
\* consumers, stops, restarts and redrives included: an event is handed over
\* until its handler returns, at most max_attempts times, then it is dead, and
\* only a redrive starts it afresh.  An event whose handlers fail is published
\* once: the counts of two copies are not told apart.
THEOREM BusImplementsPort ==
    ASSUME \A e \in Failing : MaxPublications[e] <= 1, NEW c \in Consumers
    PROVE  BusSpec => Port(c)!Spec
  <1>1. BusInit => TInv /\ Known /\ Singles /\ Remembers /\ Attempts /\ Port(c)!Init
    BY BusInitTyped, InitPlaced, PortInit
  <1>2. TInv /\ Known /\ Singles /\ Remembers /\ Attempts /\ [BusNext]_busVars
          => /\ TInv' /\ Known' /\ Singles' /\ Remembers' /\ Attempts'
             /\ [Port(c)!Next]_(Port(c)!vars)
    <2> SUFFICES ASSUME TInv, Known, Singles, Remembers, Attempts, [BusNext]_busVars
                 PROVE  /\ TInv' /\ Known' /\ Singles' /\ Remembers' /\ Attempts'
                        /\ [Port(c)!Next]_(Port(c)!vars)
      OBVIOUS
    <2>1. TInv'
      BY StepTyped
    <2>2. Known' /\ Singles' /\ Remembers'
      BY PlacedStep
    <2>3. Attempts'
      <3>1. ASSUME NEW d \in Consumers, NEW e \in Events PROVE AttemptsAt(d, e)'
        BY AttemptsStep DEF Singles, Attempts
      <3> QED
        BY <3>1 DEF Attempts
    <2>4. [Port(c)!Next]_(Port(c)!vars)
      BY <2>1, PortStep
    <2> QED
      BY <2>1, <2>2, <2>3, <2>4
  <1> QED
    BY <1>1, <1>2, PTL DEF BusSpec, Port!Spec

-----------------------------------------------------------------------------
(* The processes over one data folder.  A step of a process leaves it      *)
(* alive, or it ends without having stopped anything, or it is the last    *)
(* look or the stop of parar_embutidos.                                    *)

\* Only a child of the application is ever spawned or probes the port.
DesktopInv ==
    /\ DesktopTypeOK
    /\ \A n \in Node : pc[n] = "spawning" => n \in Ours

LEMMA MoveTyped ==
    ASSUME DesktopInv, NEW n \in Node, NEW where \in Stage, GoesTo(n, where), where # "spawning"
    PROVE  /\ pc' \in [Node -> Stage]
           /\ \A m \in Node : pc'[m] = "spawning" => m \in Ours
  BY DEF DesktopInv, DesktopTypeOK, GoesTo

LEMMA MovedTyped ==
    ASSUME DesktopInv, NEW n \in Node, NEW where \in Stage, Step(n, where), where # "spawning",
           UNCHANGED <<migrated, seen>>, pg' \in {"none", "down", "dirty", "starting", "ready"},
           owners' \subseteq Node \cup Ghost
    PROVE  DesktopInv'
  <1>1. GoesTo(n, where)
    BY DEF Step
  <1>2. UNCHANGED <<port, app, handle, tried, asked, last>>
    BY DEF Step, Rest, appVars
  <1> QED
    BY <1>1, <1>2, MoveTyped DEF DesktopInv, DesktopTypeOK

LEMMA LeaveTyped ==
    ASSUME DesktopInv, NEW n \in Node, NEW how, Leave(n, how), UNCHANGED migrated,
           pg' \in {"none", "down", "dirty", "starting", "ready"}, owners' \subseteq Node \cup Ghost
    PROVE  DesktopInv'
  <1>1. GoesTo(n, "off") /\ "off" \in Stage
    BY DEF Leave, Stage, Ended
  <1>2. pc' \in [Node -> Stage] /\ \A m \in Node : pc'[m] = "spawning" => m \in Ours
    BY <1>1, MoveTyped
  <1>3. seen' \in [Node -> SUBSET (Node \cup Ghost)]
    BY DEF Leave, DesktopInv, DesktopTypeOK
  <1>4. /\ port' \in Ours \cup {NoNode} /\ handle' \in Ours \cup {NoNode}
        /\ app' \in {"on", "gone"} /\ tried' \in BOOLEAN /\ asked' \subseteq Node
    BY DEF Leave, DesktopInv, DesktopTypeOK
  <1>5. last' \in BOOLEAN
    BY DEF Leave
  <1> QED
    BY <1>2, <1>3, <1>4, <1>5 DEF DesktopInv, DesktopTypeOK

LEMMA CleanupTyped ==
    ASSUME DesktopInv, NEW n \in Node, Cleanup(n)
    PROVE  pg' \in {"none", "down", "dirty", "starting", "ready"} /\ owners' \subseteq Node \cup Ghost
  BY DEF Cleanup, DesktopInv, DesktopTypeOK

\* The first half of a node's life: until it is one of the owners.
LEMMA ComingTyped ==
    ASSUME DesktopInv, NEW n \in Node,
           \/ ByHand(n) \/ PortaOcupada(n) \/ LerDonos(n) \/ GravarDonos(n) \/ AcordarCluster(n)
           \/ EsperarFicarPronto(n) \/ PgCtlStart(n) \/ PgCtlEnd(n) \/ GetServer(n)
    PROVE  DesktopInv'
  <1> USE DEF Stage, Ended
  <1>0. pg \in {"none", "down", "dirty", "starting", "ready"} /\ owners \subseteq Node \cup Ghost
    BY DEF DesktopInv, DesktopTypeOK
  <1>1. CASE ByHand(n)
    BY <1>0, <1>1, MovedTyped DEF ByHand
  <1>2. CASE PortaOcupada(n)
    <2>1. CASE port # NoNode
      BY <1>0, <1>2, <2>1, LeaveTyped DEF PortaOcupada
    <2>2. CASE port = NoNode
      BY <1>0, <1>2, <2>2, MovedTyped DEF PortaOcupada
    <2> QED
      BY <2>1, <2>2
  <1>3. CASE LerDonos(n)
    <2>1. PICK where \in {"wake", "write", "alone", "swept"} :
             Step(n, where) /\ UNCHANGED <<pg, owners, migrated>>
             /\ (UNCHANGED seen \/ seen' = [seen EXCEPT ![n] = {p \in owners : ProcessoVivo(p)}])
      BY <1>3 DEF LerDonos
    <2>2. GoesTo(n, where) /\ UNCHANGED <<port, app, handle, tried, asked, last>>
      BY <2>1 DEF Step, Rest, appVars
    <2>3. seen' \in [Node -> SUBSET (Node \cup Ghost)]
      BY <2>1 DEF DesktopInv, DesktopTypeOK
    <2>4. pc' \in [Node -> Stage] /\ \A m \in Node : pc'[m] = "spawning" => m \in Ours
      BY <2>1, <2>2, MoveTyped
    <2> QED
      BY <2>1, <2>2, <2>3, <2>4 DEF DesktopInv, DesktopTypeOK
  <1>4. CASE GravarDonos(n)
    <2>1. PICK where \in {"wake", "alone"} :
             Step(n, where) /\ UNCHANGED <<pg, migrated>>
             /\ owners' = seen[n] /\ seen' = [seen EXCEPT ![n] = {}]
      BY <1>4 DEF GravarDonos
    <2>2. GoesTo(n, where) /\ UNCHANGED <<port, app, handle, tried, asked, last>>
      BY <2>1 DEF Step, Rest, appVars
    <2>3. seen' \in [Node -> SUBSET (Node \cup Ghost)] /\ owners' \subseteq Node \cup Ghost
      BY <2>1 DEF DesktopInv, DesktopTypeOK
    <2>4. pc' \in [Node -> Stage] /\ \A m \in Node : pc'[m] = "spawning" => m \in Ours
      BY <2>1, <2>2, MoveTyped
    <2> QED
      BY <2>1, <2>2, <2>3, <2>4 DEF DesktopInv, DesktopTypeOK
  <1>5. CASE AcordarCluster(n)
    <2>1. PICK where \in {"attach", "wait", "start"} : Step(n, where)
      BY <1>5 DEF AcordarCluster
    <2> QED
      BY <1>0, <1>5, <2>1, MovedTyped DEF AcordarCluster
  <1>6. CASE EsperarFicarPronto(n)
    <2>1. PICK where \in {"attach", "start"} : Step(n, where)
      BY <1>6 DEF EsperarFicarPronto
    <2> QED
      BY <1>0, <1>6, <2>1, MovedTyped DEF EsperarFicarPronto
  <1>7. CASE PgCtlStart(n)
    <2>1. PICK where \in {"started", "attach"} : Step(n, where)
      BY <1>7 DEF PgCtlStart
    <2> QED
      BY <1>0, <1>7, <2>1, MovedTyped DEF PgCtlStart
  <1>8. CASE PgCtlEnd(n)
    BY <1>0, <1>8, MovedTyped DEF PgCtlEnd
  <1>9. CASE GetServer(n)
    <2>1. CASE pg = "dirty"
      BY <1>0, <1>9, <2>1, LeaveTyped DEF GetServer
    <2>2. CASE pg # "dirty"
      BY <1>0, <1>9, <2>2, MovedTyped DEF GetServer
    <2> QED
      BY <2>1, <2>2
  <1> QED
    BY <1>1, <1>2, <1>3, <1>4, <1>5, <1>6, <1>7, <1>8, <1>9

\* The second half: it serves, or gives up, and leaves.
LEMMA GoingTyped ==
    ASSUME DesktopInv, NEW n \in Node,
           \/ AplicarMigracoes(n) \/ ComandoUp(n) \/ Servir(n) \/ StopServing(n) \/ AtExit(n)
           \/ PararServidor(n) \/ PararEmbutidos(n) \/ DesligarPostmaster(n) \/ Kill(n)
    PROVE  DesktopInv'
  <1> USE DEF Stage, Ended
  <1>0. pg \in {"none", "down", "dirty", "starting", "ready"} /\ owners \subseteq Node \cup Ghost
    BY DEF DesktopInv, DesktopTypeOK
  <1>1. CASE AplicarMigracoes(n)
    <2>1. PICK where \in {"check", "atexit"} :
             Step(n, where) /\ UNCHANGED <<pg, owners, seen>> /\ migrated' \in BOOLEAN
      BY <1>1 DEF AplicarMigracoes, DesktopInv, DesktopTypeOK
    <2>2. GoesTo(n, where) /\ UNCHANGED <<port, app, handle, tried, asked, last>>
      BY <2>1 DEF Step, Rest, appVars
    <2>3. pc' \in [Node -> Stage] /\ \A m \in Node : pc'[m] = "spawning" => m \in Ours
      BY <2>1, <2>2, MoveTyped
    <2> QED
      BY <2>1, <2>2, <2>3 DEF DesktopInv, DesktopTypeOK
  <1>2. CASE ComandoUp(n)
    <2>1. PICK where \in {"bind", "atexit"} : Step(n, where)
      BY <1>2 DEF ComandoUp
    <2> QED
      BY <1>0, <1>2, <2>1, MovedTyped DEF ComandoUp
  <1>3. CASE Servir(n) \/ StopServing(n)
    <2>1. PICK where \in {"release", "serving"} : GoesTo(n, where)
      BY <1>3 DEF Servir, StopServing
    <2>2. /\ UNCHANGED <<pg, owners, migrated, seen, app, handle, tried, asked, last>>
          /\ port' \in {port, NoNode} \/ (n \in Ours /\ port' = n)
      BY <1>3 DEF Servir, StopServing, appVars
    <2>3. pc' \in [Node -> Stage] /\ \A m \in Node : pc'[m] = "spawning" => m \in Ours
      BY <2>1, MoveTyped
    <2> QED
      BY <2>2, <2>3 DEF DesktopInv, DesktopTypeOK
  <1>4. CASE AtExit(n)
    BY <1>4, CleanupTyped, LeaveTyped DEF AtExit
  <1>5. CASE PararServidor(n)
    BY <1>5, CleanupTyped, MovedTyped DEF PararServidor
  <1>6. CASE PararEmbutidos(n)
    <2>1. CASE DonosVivos(n) # {} \/ ~NoAr
      <3>1. PICK how \in {"stopped", "misled"} : Leave(n, how)
        BY <1>6, <2>1 DEF PararEmbutidos
      <3> QED
        BY <1>0, <1>6, <3>1, LeaveTyped DEF PararEmbutidos
    <2>2. CASE ~(DonosVivos(n) # {} \/ ~NoAr)
      BY <1>0, <1>6, <2>2, MovedTyped DEF PararEmbutidos
    <2> QED
      BY <2>1, <2>2
  <1>7. CASE DesligarPostmaster(n)
    <2>1. pg' \in {pg, "down"} /\ UNCHANGED <<owners, migrated>>
      BY <1>7 DEF DesligarPostmaster
    <2>2. PICK how \in {"stopped", "failed"} : Leave(n, how)
      BY <1>7 DEF DesligarPostmaster
    <2> QED
      BY <1>0, <2>1, <2>2, LeaveTyped
  <1>8. CASE Kill(n)
    BY <1>0, <1>8, LeaveTyped DEF Kill
  <1> QED
    BY <1>1, <1>2, <1>3, <1>4, <1>5, <1>6, <1>7, <1>8

LEMMA ApplicationTyped ==
    ASSUME DesktopInv,
           \/ BecomeReady \/ TentarSubir \/ VerificarAgora \/ Parar \/ AppGone
           \/ \E n \in Node : Iniciar(n)
    PROVE  DesktopInv'
  <1> USE DEF Stage, Ended
  <1>1. CASE BecomeReady
    BY <1>1 DEF BecomeReady, appVars, DesktopInv, DesktopTypeOK
  <1>2. CASE TentarSubir
    <2>1. PICK n \in Ours : n = CHOOSE m \in Ours : pc[m] = "new"
      BY <1>2 DEF TentarSubir
    <2>2. n \in Node
      BY DesktopAssumption
    <2>3. pc' = [pc EXCEPT ![n] = "spawning"]
      BY <1>2, <2>1 DEF TentarSubir, GoesTo
    <2>4. pc' \in [Node -> Stage] /\ \A m \in Node : pc'[m] = "spawning" => m \in Ours
      BY <2>2, <2>3 DEF DesktopInv, DesktopTypeOK
    <2>5. tried' = TRUE /\ UNCHANGED <<pg, owners, migrated, seen, port, last, app, handle, asked>>
      BY <1>2 DEF TentarSubir, nodeVars
    <2> QED
      BY <2>4, <2>5 DEF DesktopInv, DesktopTypeOK
  <1>3. CASE VerificarAgora
    BY <1>3 DEF VerificarAgora, nodeVars, DesktopInv, DesktopTypeOK
  <1>4. CASE Parar
    BY <1>4, DesktopAssumption DEF Parar, nodeVars, DesktopInv, DesktopTypeOK
  <1>5. CASE AppGone
    BY <1>5, DesktopAssumption DEF AppGone, nodeVars, DesktopInv, DesktopTypeOK
  <1>6. ASSUME NEW n \in Node, Iniciar(n) PROVE DesktopInv'
    <2>1. n \in Ours /\ handle' \in {n, handle}
      BY <1>6 DEF Iniciar, DesktopInv
    <2>2. pc' \in [Node -> Stage] /\ \A m \in Node : pc'[m] = "spawning" => m \in Ours
      BY <1>6, MoveTyped DEF Iniciar
    <2>3. UNCHANGED <<pg, owners, migrated, seen, port, last, app, tried, asked>>
      BY <1>6 DEF Iniciar, nodeVars
    <2> QED
      BY <2>1, <2>2, <2>3 DEF DesktopInv, DesktopTypeOK
  <1> QED
    BY <1>1, <1>2, <1>3, <1>4, <1>5, <1>6

LEMMA DesktopTyped ==
    /\ DesktopInit => DesktopInv
    /\ DesktopInv /\ [DesktopNext]_desktopVars => DesktopInv'
  <1>1. DesktopInit => DesktopInv
    <2> SUFFICES ASSUME DesktopInit PROVE DesktopInv
      OBVIOUS
    <2>1. PICK folder \in Folders : pg = folder.pg /\ owners = folder.owners
      BY DEF DesktopInit
    <2>2. pg \in {"none", "down", "dirty"} /\ owners \subseteq Ghost
      BY <2>1, DesktopAssumption
    <2>3. pc \in [Node -> Stage] /\ \A n \in Node : pc[n] = "new"
      BY DEF DesktopInit, Stage, Ended
    <2> QED
      BY <2>2, <2>3 DEF DesktopInit, DesktopInv, DesktopTypeOK
  <1>2. ASSUME DesktopInv, DesktopNext PROVE DesktopInv'
    <2>1. ASSUME NEW n \in Node, ByHand(n) \/ NodeStep(n) \/ Interrupt(n) \/ Kill(n) PROVE DesktopInv'
      BY <1>2, <2>1, ComingTyped, GoingTyped DEF NodeStep, VigiarEntrada, Interrupt
    <2> QED
      BY <1>2, <2>1, ApplicationTyped DEF DesktopNext
  <1>3. ASSUME DesktopInv, UNCHANGED desktopVars PROVE DesktopInv'
    BY <1>3 DEF desktopVars, appVars, DesktopInv, DesktopTypeOK
  <1> QED
    BY <1>1, <1>2, <1>3

\* A node's step leaves it alive, or it ends in one of these ways.
LEMMA Endings ==
    ASSUME DesktopInv, NEW n \in Node,
           ByHand(n) \/ NodeStep(n) \/ Interrupt(n) \/ Kill(n) \/ Iniciar(n)
    PROVE  \/ Alive(n)'
           \/ last' = FALSE
           \/ DonosVivos(n) # {} /\ DonosVivos(n) \cap Reused = {} /\ GoesTo(n, "off")
           \/ ~NoAr /\ pg' = pg /\ last' = ~Nascendo
           \/ pg' = "down"
  <1> USE DEF Alive, Ended, GoesTo, Step, Leave, DesktopInv, DesktopTypeOK
  <1>1. CASE ByHand(n) \/ LerDonos(n) \/ GravarDonos(n) \/ AcordarCluster(n) \/ EsperarFicarPronto(n)
    BY <1>1 DEF ByHand, LerDonos, GravarDonos, AcordarCluster, EsperarFicarPronto
  <1>2. CASE PgCtlStart(n) \/ PgCtlEnd(n) \/ AplicarMigracoes(n) \/ ComandoUp(n) \/ Servir(n)
    BY <1>2 DEF PgCtlStart, PgCtlEnd, AplicarMigracoes, ComandoUp, Servir
  <1>3. CASE StopServing(n) \/ PararServidor(n) \/ Iniciar(n)
    BY <1>3 DEF StopServing, PararServidor, Iniciar
  <1>4. CASE PortaOcupada(n) \/ GetServer(n) \/ AtExit(n) \/ Kill(n)
    BY <1>4 DEF PortaOcupada, GetServer, AtExit, Kill
  <1>5. CASE PararEmbutidos(n)
    <2>1. CASE DonosVivos(n) # {} \/ ~NoAr
      BY <1>5, <2>1 DEF PararEmbutidos
    <2>2. CASE ~(DonosVivos(n) # {} \/ ~NoAr)
      BY <1>5, <2>2 DEF PararEmbutidos
    <2> QED
      BY <2>1, <2>2
  <1>6. CASE DesligarPostmaster(n)
    <2>1. pg' = "down" \/ Leave(n, "failed")
      BY <1>6 DEF DesligarPostmaster
    <2> QED
      BY <2>1
  <1> QED
    BY <1>1, <1>2, <1>3, <1>4, <1>5, <1>6 DEF NodeStep, VigiarEntrada, Interrupt

LEMMA LastOutStep ==
    ASSUME DesktopInv, LastOutStops, [DesktopNext]_desktopVars
    PROVE  LastOutStops'
  <1> SUFFICES ASSUME last', \A n \in Node : ~Alive(n)'
               PROVE  ~NoAr' /\ ~Nascendo'
    BY DEF LastOutStops
  <1>1. ASSUME NEW n \in Node,
               ByHand(n) \/ NodeStep(n) \/ Interrupt(n) \/ Kill(n) \/ Iniciar(n)
        PROVE  ~NoAr' /\ ~Nascendo'
    <2>1. ASSUME DonosVivos(n) # {}, DonosVivos(n) \cap Reused = {}, GoesTo(n, "off") PROVE FALSE
      <3>1. PICK p \in Node : p # n /\ Alive(p)
        BY <2>1 DEF DonosVivos, ProcessoVivo, Alive
      <3>2. Alive(p)'
        BY <2>1, <3>1 DEF Alive, GoesTo, DesktopInv, DesktopTypeOK
      <3> QED
        BY <3>2
    <2>2. (~NoAr /\ pg' = pg /\ last' = ~Nascendo) \/ pg' = "down"
      BY <1>1, <2>1, Endings
    <2> QED
      BY <2>2 DEF NoAr, Nascendo
  <1>2. CASE pc' = pc /\ last' = last
    <2>1. last /\ \A n \in Node : ~Alive(n)
      BY <1>2 DEF Alive
    <2>2. ~NoAr /\ ~Nascendo
      BY <2>1 DEF LastOutStops
    <2>3. CASE pg' = pg
      BY <2>2, <2>3 DEF NoAr, Nascendo
    <2>4. CASE BecomeReady
      BY <2>2, <2>4 DEF BecomeReady
    <2>5. CASE VerificarAgora \/ Parar \/ AppGone \/ UNCHANGED desktopVars
      BY <2>3, <2>5 DEF VerificarAgora, Parar, AppGone, nodeVars, desktopVars
    <2>6. CASE TentarSubir
      BY <2>3, <2>6 DEF TentarSubir, nodeVars
    <2> QED
      BY <1>1, <2>4, <2>5, <2>6 DEF DesktopNext
  <1>3. CASE TentarSubir
    <2>1. PICK n \in Node : GoesTo(n, "spawning") /\ pc[n] = "new"
      BY <1>3, DesktopAssumption DEF TentarSubir
    <2>2. last = last' /\ pg' = pg
      BY <1>3 DEF TentarSubir, nodeVars
    <2>3. \A m \in Node : ~Alive(m)
      BY <2>1 DEF Alive, GoesTo, Ended, DesktopInv, DesktopTypeOK
    <2> QED
      BY <2>2, <2>3 DEF LastOutStops, NoAr, Nascendo
  <1>4. CASE BecomeReady \/ VerificarAgora \/ Parar \/ AppGone \/ UNCHANGED desktopVars
    BY <1>2, <1>4 DEF BecomeReady, VerificarAgora, Parar, AppGone, nodeVars, desktopVars
  <1> QED
    BY <1>1, <1>3, <1>4 DEF DesktopNext

\* The types of the processes and of the application: nobody but its children is
\* ever on its port or held by it.
THEOREM DesktopTypeCorrect == DesktopSpec => []DesktopTypeOK
  <1>1. DesktopInv => DesktopTypeOK
    BY DEF DesktopInv
  <1> QED
    BY <1>1, DesktopTyped, PTL DEF DesktopSpec

\* LastOutStops: whoever is the last to leave in order leaves no server behind, however
\* many processes there are, whatever is left in the file of owners and whoever writes
\* it back from an old reading (embedded.py:418-420).  It holds in spite of pgserver's
\* cleanup failing; a failed pg_ctl stop, a pid that was used again and a server that
\* was still starting are the three ways out that Leave names.
THEOREM LastOneStops == DesktopSpec => []LastOutStops
  <1>1. DesktopInit => LastOutStops
    BY DEF DesktopInit, LastOutStops
  <1> QED
    BY <1>1, DesktopTyped, LastOutStep, PTL DEF DesktopSpec

\* What ends the nodes of an application that is gone: the standard input of each
\* that did not end is closed, those it lost the handle of included.
AskedAll == app = "gone" => \A n \in Ours : n \in asked \/ pc[n] = "off"

\* A step of a node forgets its own closed input only when it ends, and who ended
\* never comes back.
LEMMA AskedUntilOff ==
    ASSUME DesktopInv, NEW n \in Node,
           ByHand(n) \/ NodeStep(n) \/ Interrupt(n) \/ Kill(n) \/ Iniciar(n)
    PROVE  /\ pc' = [pc EXCEPT ![n] = pc'[n]] /\ pc[n] # "off" /\ app' = app
           /\ asked' = asked \/ (asked' = asked \ {n} /\ pc'[n] = "off")
  <1> USE DEF Alive, Ended, GoesTo, Step, Rest, Leave, appVars, nodeVars, DesktopInv, DesktopTypeOK
  <1>1. CASE ByHand(n) \/ LerDonos(n) \/ GravarDonos(n) \/ AcordarCluster(n) \/ EsperarFicarPronto(n)
    BY <1>1 DEF ByHand, LerDonos, GravarDonos, AcordarCluster, EsperarFicarPronto
  <1>2. CASE PgCtlStart(n) \/ PgCtlEnd(n) \/ AplicarMigracoes(n) \/ ComandoUp(n) \/ Servir(n)
    BY <1>2 DEF PgCtlStart, PgCtlEnd, AplicarMigracoes, ComandoUp, Servir
  <1>3. CASE StopServing(n) \/ PararServidor(n) \/ Iniciar(n)
    BY <1>3 DEF StopServing, PararServidor, Iniciar
  <1>4. CASE PortaOcupada(n) \/ GetServer(n) \/ AtExit(n) \/ Kill(n)
    BY <1>4 DEF PortaOcupada, GetServer, AtExit, Kill
  <1>5. CASE PararEmbutidos(n) \/ DesligarPostmaster(n)
    BY <1>5 DEF PararEmbutidos, DesligarPostmaster
  <1> QED
    BY <1>1, <1>2, <1>3, <1>4, <1>5 DEF NodeStep, VigiarEntrada, Interrupt

LEMMA AskedStep ==
    ASSUME DesktopInv, AskedAll, [DesktopNext]_desktopVars
    PROVE  AskedAll'
  <1>1. ASSUME NEW n \in Node,
               ByHand(n) \/ NodeStep(n) \/ Interrupt(n) \/ Kill(n) \/ Iniciar(n)
        PROVE  AskedAll'
    <2>1. /\ pc' = [pc EXCEPT ![n] = pc'[n]] /\ pc[n] # "off" /\ app' = app
          /\ asked' = asked \/ (asked' = asked \ {n} /\ pc'[n] = "off")
      BY <1>1, AskedUntilOff
    <2> SUFFICES ASSUME app = "gone", NEW m \in Ours PROVE m \in asked' \/ pc'[m] = "off"
      BY <2>1 DEF AskedAll
    <2>2. m \in asked \/ pc[m] = "off"
      BY DEF AskedAll
    <2>3. CASE m = n
      BY <2>1, <2>2, <2>3
    <2>4. CASE m # n
      BY <2>1, <2>2, <2>4, DesktopAssumption DEF DesktopInv, DesktopTypeOK
    <2> QED
      BY <2>3, <2>4
  <1>2. CASE BecomeReady \/ VerificarAgora \/ Parar \/ UNCHANGED desktopVars
    BY <1>2 DEF BecomeReady, VerificarAgora, Parar, nodeVars, appVars, desktopVars, AskedAll
  <1>3. CASE TentarSubir
    BY <1>3 DEF TentarSubir, AskedAll
  <1>4. CASE AppGone
    BY <1>4 DEF AppGone, AskedAll
  <1> QED
    BY <1>1, <1>2, <1>3, <1>4 DEF DesktopNext

\* The safety half of AppGoneNodesGone (cli/main.py:291-292, main.dart:36-45): no
\* node of an application that closed or died is left with its input open, not
\* even one whose process was being started at the time.
THEOREM OrphansAreAsked == DesktopSpec => []AskedAll
  <1>1. DesktopInit => AskedAll
    BY DEF DesktopInit, AskedAll
  <1> QED
    BY <1>1, DesktopTyped, AskedStep, PTL DEF DesktopSpec
===============================================================================
