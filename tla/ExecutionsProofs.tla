--------------------------- MODULE ExecutionsProofs ---------------------------
(***************************************************************************)
(* What is proved of executions: a record keeps its type, ends once, gives *)
(* the reason of the first signal, no execution escapes the shutdown, and  *)
(* cancel_tree() reaches whole every branch the ring holds the top of.     *)
(***************************************************************************)
EXTENDS Executions, TLAPS

\* The record and the task agree on whether the execution began and ended.
Phase(x) ==
    /\ status[x] = "none" <=> stage[x] = "none"
    /\ status[x] \in Final <=> stage[x] = "ended"

\* Nothing has happened to an execution that was not started.
Fresh(x) ==
    stage[x] = "none" =>
        reason[x] = "none" /\ recorded[x] = "none" /\ force[x] = 0

\* Only an execution that runs has a deadline.
Timer(x) == deadline[x] = "armed" => Running(x)

\* Whoever interrupts an execution signalled its token first.
Signalled(x) ==
    /\ stage[x] = "aborting" => Cancelled(x)
    /\ force[x] > 0 => Cancelled(x)
    /\ stage[x] = "emitting" => result[x] # "none"
    /\ stage[x] = "emitting" /\ result[x] = "cancelled" => Cancelled(x)

\* ReasonExplains and ShutdownReaches, of one execution.
Explained(x) ==
    /\ status[x] = "timeout" <=> recorded[x] = "timeout"
    /\ status[x] \in {"cancelled", "timeout"} => recorded[x] = reason[x] /\ recorded[x] # "none"

Reached(x) == root /\ Running(x) => Cancelled(x)

Sound(x) == Phase(x) /\ Fresh(x) /\ Timer(x) /\ Signalled(x) /\ Explained(x) /\ Reached(x)

IInv == TypeOK /\ \A x \in Exec : Sound(x)

-----------------------------------------------------------------------------
(* Types.                                                                  *)

\* The ring takes the new record and forgets the oldest when it is full.
LEMMA RingType ==
    ASSUME NEW x \in Exec, history \in Seq(Exec), Len(history) <= HistorySize,
           NEW n, n = IF Len(history) < HistorySize THEN Len(history) + 1 ELSE HistorySize
    PROVE  /\ SubSeq(<<x>> \o history, 1, n) \in Seq(Exec)
           /\ Len(SubSeq(<<x>> \o history, 1, n)) <= HistorySize
  <1>1. HistorySize \in Nat \ {0}
    BY ExecutionsAssumption
  <1>2. <<x>> \o history \in Seq(Exec) /\ Len(<<x>> \o history) = Len(history) + 1
    OBVIOUS
  <1>3. n \in Nat /\ 1 <= n /\ n <= Len(<<x>> \o history) /\ n <= HistorySize
    BY <1>1, <1>2
  <1> QED
    BY <1>2, <1>3

LEMMA InitTyped == Init => TypeOK
  <1> SUFFICES ASSUME Init PROVE TypeOK
    OBVIOUS
  <1>1. history \in Seq(Exec) /\ Len(history) <= HistorySize
    BY ExecutionsAssumption DEF Init
  <1>2. used \in [cancels : Nat, failures : Nat, stops : Nat]
    BY DEF Init
  <1> QED
    BY <1>1, <1>2 DEF Init, TypeOK, Reasons, Final

LEMMA EndType ==
    ASSUME TypeOK, NEW x \in Exec, NEW st \in Final, NEW why \in Reasons, End(x, st, why)
    PROVE  /\ status' \in [Exec -> {"none", "running"} \cup Final]
           /\ recorded' \in [Exec -> Reasons]
           /\ stage' \in [Exec -> {"none", "gate", "handler", "guarded", "aborting", "emitting", "ended"}]
           /\ deadline' \in [Exec -> {"off", "armed"}]
           /\ result' \in [Exec -> {"none", "ok", "error", "cancelled"}]
           /\ asked' \subseteq Exec
           /\ swept' \subseteq Exec
  BY DEF TypeOK, End

LEMMA MarkedType ==
    ASSUME NEW why
    PROVE  Marked(why) \in Final
  BY DEF Marked, Final

LEMMA SignalType ==
    ASSUME TypeOK, NEW X, NEW why \in Reasons, Signal(X, why)
    PROVE  reason' \in [Exec -> Reasons]
  BY DEF TypeOK, Signal

LEMMA CancelEachType ==
    ASSUME TypeOK, NEW X, CancelEach(X)
    PROVE  /\ reason' \in [Exec -> Reasons]
           /\ asked' \subseteq Exec
           /\ force' \in [Exec -> Nat]
  BY DEF TypeOK, CancelEach, Signal, Reasons

\* A counter of the bounds grows.
LEMMA UsedType ==
    ASSUME used \in [cancels : Nat, failures : Nat, stops : Nat]
    PROVE  /\ [used EXCEPT !.cancels = @ + 1] \in [cancels : Nat, failures : Nat, stops : Nat]
           /\ [used EXCEPT !.failures = @ + 1] \in [cancels : Nat, failures : Nat, stops : Nat]
           /\ [used EXCEPT !.stops = @ + 1] \in [cancels : Nat, failures : Nat, stops : Nat]
  OBVIOUS

\* Whatever ends an execution ends it with a final status and a known reason.
LEMMA WhoEnds ==
    ASSUME IInv, NEW x \in Exec
    PROVE  /\ Refused(x) => End(x, "failed", "none")
           /\ EmitFails(x) => End(x, "failed", "none")
           /\ Emitted(x) => \/ End(x, "completed", "none")
                            \/ End(x, "failed", "none")
                            \/ Cancelled(x) /\ End(x, Marked(reason[x]), reason[x])
  <1>1. Emitted(x) => result[x] \in {"ok", "error", "cancelled"} /\ stage[x] = "emitting"
    BY DEF IInv, TypeOK, Sound, Signalled, Emitted
  <1>2. Emitted(x) /\ result[x] = "cancelled" => Cancelled(x)
    BY <1>1 DEF IInv, Sound, Signalled
  <1>3. Emitted(x) /\ result[x] = "ok" => End(x, "completed", "none")
    BY DEF Emitted
  <1>4. Emitted(x) /\ result[x] = "error" => End(x, "failed", "none")
    BY DEF Emitted
  <1>5. Emitted(x) /\ result[x] = "cancelled" => End(x, Marked(reason[x]), reason[x])
    BY DEF Emitted
  <1>6. (Refused(x) \/ EmitFails(x)) => End(x, "failed", "none")
    BY DEF Refused, EmitFails
  <1> QED
    BY <1>1, <1>2, <1>3, <1>4, <1>5, <1>6

LEMMA TypeStep == IInv /\ [Next]_vars => TypeOK'
  <1> SUFFICES ASSUME IInv, [Next]_vars PROVE TypeOK'
    OBVIOUS
  <1>0. TypeOK
    BY DEF IInv
  <1>c. "none" \in Reasons /\ "failed" \in Final /\ "completed" \in Final
    BY DEF Reasons, Final
  <1>1. ASSUME NEW x \in Exec, NEW p \in Exec \cup {None}, Start(x, p) PROVE TypeOK'
    <2>1. history' \in Seq(Exec) /\ Len(history') <= HistorySize
      BY <1>0, <1>1, RingType DEF Born, Start, TypeOK
    <2>2. reason' \in [Exec -> Reasons]
      BY <1>0, <1>1 DEF Born, Start, Reasons, TypeOK
    <2> QED
      BY <1>0, <1>1, <2>1, <2>2 DEF Born, Start, TypeOK
  <1>2. ASSUME NEW x \in Exec, Refused(x) \/ Emitted(x) \/ EmitFails(x) PROVE TypeOK'
    <2>1. PICK st \in Final, why \in Reasons : End(x, st, why)
      <3>1. reason[x] \in Reasons /\ Marked(reason[x]) \in Final
        BY <1>0, MarkedType DEF TypeOK
      <3> QED
        BY <1>2, <1>c, <3>1, WhoEnds
    <2>2. UNCHANGED <<kernel, root, parent, history, reason, force>>
      BY <1>2 DEF Refused, Emitted, EmitFails
    <2>3. used' \in [cancels : Nat, failures : Nat, stops : Nat]
      <3>1. used' = used \/ used' = [used EXCEPT !.failures = @ + 1]
        BY <1>2 DEF Refused, Emitted, EmitFails
      <3> QED
        BY <1>0, <3>1, UsedType DEF TypeOK
    <2> QED
      BY <1>0, <2>1, <2>2, <2>3, EndType DEF TypeOK
  <1>3. ASSUME NEW x \in Exec, Admitted(x) \/ HandlerWaits(x) \/ GuardDone(x) \/ GuardCancelled(x)
        PROVE  TypeOK'
    BY <1>0, <1>3 DEF Admitted, HandlerWaits, GuardDone, GuardCancelled, TypeOK, recordVars
  <1>4. ASSUME NEW x \in Exec, HandlerChecks(x) \/ HandlerReturns(x) \/ HandlerRaises(x) \/ GuardAborted(x)
        PROVE  TypeOK'
    <2>1. PICK r \in {"ok", "error", "cancelled"} : Emit(x, r)
      BY <1>4 DEF HandlerChecks, HandlerReturns, HandlerRaises, GuardAborted
    <2> QED
      BY <1>0, <2>1 DEF Emit, TypeOK, recordVars
  <1>5. ASSUME NEW x \in Exec, DeadlineFires(x) PROVE TypeOK'
    <2>1. reason' \in [Exec -> Reasons]
      BY <1>0, <1>5, SignalType DEF DeadlineFires, Reasons
    <2> QED
      BY <1>0, <1>5, <2>1 DEF DeadlineFires, TypeOK, recordVars
  <1>6. ASSUME NEW x \in Exec, Cancel(x) \/ CancelTree(x) PROVE TypeOK'
    <2>1. PICK X : CancelEach(X)
      BY <1>6 DEF Cancel, CancelTree
    <2>2. used' \in [cancels : Nat, failures : Nat, stops : Nat]
      BY <1>0, <1>6, UsedType DEF Cancel, CancelTree, Spend, TypeOK
    <2>3. swept' \subseteq Exec
      BY <1>0, <1>6 DEF Cancel, CancelTree, Branches, Subtree, TypeOK
    <2>4. UNCHANGED <<kernel, root, recordVars, stage, result, deadline>>
      BY <1>6 DEF Cancel, CancelTree
    <2> QED
      BY <1>0, <2>1, <2>2, <2>3, <2>4, CancelEachType DEF TypeOK, recordVars
  <1>7. ASSUME NEW x \in Exec, ForceFires(x) PROVE TypeOK'
    <2>1. force' \in [Exec -> Nat]
      BY <1>0, <1>7 DEF ForceFires, TypeOK
    <2>2. UNCHANGED <<kernel, root, parent, history, reason, used>>
      BY <1>7 DEF ForceFires
    <2>3. CASE stage[x] = "aborting"
      BY <1>0, <1>7, <2>1, <2>2, <2>3 DEF ForceFires, TypeOK
    <2>4. CASE stage[x] # "aborting"
      <3>1. End(x, Marked(reason[x]), reason[x])
        BY <1>7, <2>4 DEF ForceFires
      <3>2. reason[x] \in Reasons /\ Marked(reason[x]) \in Final
        BY <1>0, MarkedType DEF TypeOK
      <3> QED
        BY <1>0, <2>1, <2>2, <3>1, <3>2, EndType DEF TypeOK
    <2> QED
      BY <2>3, <2>4
  <1>8. ASSUME NEW x \in Exec, ForceSpared(x) PROVE TypeOK'
    BY <1>0, <1>8 DEF ForceSpared, TypeOK, recordVars
  <1>9. ASSUME KernelStop PROVE TypeOK'
    <2>1. reason' \in [Exec -> Reasons]
      <3>1. "parent" \in Reasons
        BY DEF Reasons
      <3> QED
        BY <1>0, <1>9, <3>1, SignalType DEF KernelStop, TypeOK
    <2>2. used' \in [cancels : Nat, failures : Nat, stops : Nat]
      BY <1>0, <1>9, UsedType DEF KernelStop, TypeOK
    <2> QED
      BY <1>0, <1>9, <2>1, <2>2 DEF KernelStop, TypeOK, recordVars, taskVars
  <1>10. ASSUME KernelStopped \/ KernelStart PROVE TypeOK'
    BY <1>0, <1>10 DEF KernelStopped, KernelStart, TypeOK, recordVars, taskVars
  <1>11. CASE UNCHANGED vars
    BY <1>0, <1>11 DEF vars, TypeOK, recordVars, taskVars
  <1> QED
    BY <1>1, <1>2, <1>3, <1>4, <1>5, <1>6, <1>7, <1>8, <1>9, <1>10, <1>11 DEF Next, Handler

-----------------------------------------------------------------------------
(* Soundness, execution by execution.                                      *)

LEMMA InitSound == Init => \A x \in Exec : Sound(x)
  BY DEF Init, Sound, Phase, Fresh, Timer, Signalled, Explained, Reached, Running,
         Cancelled, Final

\* An execution whose record and task stay as they are; its token may be
\* signalled, for the first time and only after it was started.
LEMMA Mild ==
    ASSUME NEW y \in Exec, Sound(y),
           status'[y] = status[y], recorded'[y] = recorded[y],
           stage'[y] = stage[y], result'[y] = result[y],
           deadline'[y] \in {deadline[y], "off"},
           \/ reason'[y] = reason[y]
           \/ reason[y] = "none" /\ reason'[y] # "none" /\ stage[y] # "none",
           force'[y] = force[y] \/ stage[y] # "none",
           force'[y] > 0 => force[y] > 0 \/ reason'[y] # "none",
           root' => root \/ reason'[y] # "none" \/ stage[y] = "none"
    PROVE  Sound(y)'
  BY DEF Sound, Phase, Fresh, Timer, Signalled, Explained, Reached, Running, Cancelled, Final

\* An execution that goes on from one await to another.
LEMMA Move ==
    ASSUME NEW y \in Exec, Sound(y), Running(y),
           status'[y] = status[y], recorded'[y] = recorded[y],
           stage'[y] \in {"handler", "guarded", "aborting", "emitting"},
           stage'[y] = "aborting" => Cancelled(y),
           stage'[y] = "emitting" => result'[y] \in {"ok", "error", "cancelled"},
           stage'[y] = "emitting" /\ result'[y] = "cancelled" => Cancelled(y),
           deadline'[y] = deadline[y], reason'[y] = reason[y],
           force'[y] > 0 => force[y] > 0,
           root' = root
    PROVE  Sound(y)'
  <1>1. Phase(y)' /\ Fresh(y)' /\ Timer(y)'
    BY DEF Sound, Phase, Fresh, Timer, Running
  <1>2. Signalled(y)'
    BY DEF Sound, Signalled, Cancelled
  <1>3. Explained(y)' /\ Reached(y)'
    BY DEF Sound, Explained, Reached, Running, Cancelled
  <1> QED
    BY <1>1, <1>2, <1>3 DEF Sound

\* An execution that ends, as it was or by its token.
LEMMA Ending ==
    ASSUME TypeOK, NEW y \in Exec, Sound(y), Running(y), NEW st, NEW why, End(y, st, why),
           \/ st \in {"completed", "failed"} /\ why = "none"
           \/ Cancelled(y) /\ why = reason[y] /\ st = Marked(why),
           reason'[y] = reason[y],
           force'[y] > 0 => force[y] > 0,
           root' = root
    PROVE  Sound(y)'
  <1>1. /\ status'[y] = st /\ recorded'[y] = why /\ stage'[y] = "ended"
        /\ deadline'[y] = "off"
    BY DEF End, TypeOK
  <1>2. CASE st \in {"completed", "failed"} /\ why = "none"
    BY <1>1, <1>2 DEF Sound, Phase, Fresh, Timer, Signalled, Explained, Reached, Running,
                      Cancelled, Final
  <1>3. CASE Cancelled(y) /\ why = reason[y] /\ st = Marked(why)
    BY <1>1, <1>3 DEF Sound, Phase, Fresh, Timer, Signalled, Explained, Reached, Running,
                      Cancelled, Final, Marked
  <1> QED
    BY <1>2, <1>3

\* What Signal does to one token.
LEMMA SignalEffect ==
    ASSUME NEW X, NEW why, why # "none", Signal(X, why), NEW y \in Exec
    PROVE  \/ reason'[y] = reason[y]
           \/ y \in X /\ reason[y] = "none" /\ reason'[y] # "none"
  BY DEF Signal, Cancelled

\* A cancellation, of a task or of a tree, leaves every execution sound.
LEMMA CancelSound ==
    ASSUME IInv, NEW X, CancelEach(X),
           UNCHANGED <<root, status, recorded, stage, result, deadline>>, NEW y \in Exec
    PROVE  Sound(y)'
  <1>1. Sound(y) /\ force[y] \in Nat
    BY DEF IInv, TypeOK
  <1>2. PICK live : /\ Signal(live, "user")
                    /\ \A z \in live : Running(z)
                    /\ force' = [z \in Exec |-> IF z \in live THEN force[z] + 1 ELSE force[z]]
                    /\ live = {z \in Exec \cap X : Running(z)}
    BY DEF CancelEach
  <1>3. \/ reason'[y] = reason[y]
        \/ y \in live /\ reason[y] = "none" /\ reason'[y] # "none"
    BY <1>2, SignalEffect
  <1>4. y \in live => reason'[y] # "none"
    BY <1>2 DEF Signal, Cancelled
  <1>5. y \in live => stage[y] # "none"
    BY <1>2 DEF Running
  <1>6. force'[y] = IF y \in live THEN force[y] + 1 ELSE force[y]
    BY <1>2
  <1> QED
    BY <1>1, <1>3, <1>4, <1>5, <1>6, Mild

LEMMA SoundStep == IInv /\ [Next]_vars => (\A x \in Exec : Sound(x))'
  <1> SUFFICES ASSUME IInv, [Next]_vars, NEW y \in Exec PROVE Sound(y)'
    OBVIOUS
  <1>0. TypeOK /\ Sound(y) /\ \A x \in Exec : Sound(x)
    BY DEF IInv
  <1>1. ASSUME NEW x \in Exec, NEW p, Start(x, p) PROVE Sound(y)'
    <2>1. status[x] = "none" /\ stage[x] = "none"
      BY <1>0, <1>1 DEF Born, Start, Sound, Phase
    <2>2. CASE y = x
      <3>1. /\ status'[y] = "running" /\ stage'[y] = "gate" /\ recorded'[y] = recorded[y]
            /\ reason'[y] = IF root THEN "parent" ELSE "none"
            /\ force'[y] = force[y] /\ root' = root
        BY <1>0, <1>1, <2>2 DEF Born, Start, TypeOK
      <3>2. recorded[y] = "none" /\ force[y] = 0
        BY <1>0, <2>1, <2>2 DEF Sound, Fresh
      <3> QED
        BY <3>1, <3>2 DEF Sound, Phase, Fresh, Timer, Signalled, Explained, Reached, Running,
                          Cancelled, Final
    <2>3. CASE y # x
      <3>1. /\ status'[y] = status[y] /\ stage'[y] = stage[y] /\ recorded'[y] = recorded[y]
            /\ result'[y] = result[y] /\ deadline'[y] = deadline[y] /\ reason'[y] = reason[y]
            /\ force'[y] = force[y] /\ root' = root
        BY <1>0, <1>1, <2>3 DEF Born, Start, TypeOK
      <3> QED
        BY <1>0, <3>1, Mild
    <2> QED
      BY <2>2, <2>3
  <1>2. ASSUME NEW x \in Exec, Refused(x) \/ Emitted(x) \/ EmitFails(x) PROVE Sound(y)'
    <2>1. Running(x) /\ UNCHANGED <<root, reason, force>>
      BY <1>2 DEF Refused, Emitted, EmitFails, Running
    <2>2. PICK st, why : /\ End(x, st, why)
                         /\ \/ st \in {"completed", "failed"} /\ why = "none"
                            \/ Cancelled(x) /\ why = reason[x] /\ st = Marked(why)
      BY <1>2, WhoEnds
    <2>3. CASE y = x
      BY <1>0, <2>1, <2>2, <2>3, Ending
    <2>4. CASE y # x
      <3>1. /\ status'[y] = status[y] /\ stage'[y] = stage[y] /\ recorded'[y] = recorded[y]
            /\ result'[y] = result[y] /\ deadline'[y] = deadline[y]
        BY <1>0, <2>2, <2>4 DEF End, TypeOK
      <3> QED
        BY <1>0, <2>1, <3>1, Mild
    <2> QED
      BY <2>3, <2>4
  <1>3. ASSUME NEW x \in Exec, Admitted(x) \/ HandlerWaits(x) \/ GuardDone(x) \/ GuardCancelled(x)
        PROVE  Sound(y)'
    <2>1. /\ Running(x)
          /\ UNCHANGED <<root, recordVars, reason, result, deadline, force>>
      BY <1>3 DEF Admitted, HandlerWaits, GuardDone, GuardCancelled, Running
    <2>2. /\ stage'[x] \in {"handler", "guarded", "aborting"}
          /\ stage'[x] = "aborting" => Cancelled(x)
          /\ y # x => stage'[y] = stage[y]
      BY <1>0, <1>3 DEF Admitted, HandlerWaits, GuardDone, GuardCancelled, TypeOK
    <2>3. CASE y = x
      BY <1>0, <2>1, <2>2, <2>3, Move DEF recordVars
    <2>4. CASE y # x
      BY <1>0, <2>1, <2>2, <2>4, Mild DEF recordVars
    <2> QED
      BY <2>3, <2>4
  <1>4. ASSUME NEW x \in Exec, HandlerChecks(x) \/ HandlerReturns(x) \/ HandlerRaises(x) \/ GuardAborted(x)
        PROVE  Sound(y)'
    <2>1. PICK r \in {"ok", "error", "cancelled"} : Emit(x, r) /\ (r = "cancelled" => Cancelled(x))
      <3>1. GuardAborted(x) => Cancelled(x)
        BY <1>0 DEF GuardAborted, Sound, Signalled
      <3> QED
        BY <1>4, <3>1 DEF HandlerChecks, HandlerReturns, HandlerRaises, GuardAborted
    <2>2. /\ Running(x)
          /\ UNCHANGED <<root, recordVars, reason, deadline, force>>
      BY <1>4, <2>1 DEF HandlerChecks, HandlerReturns, HandlerRaises, GuardAborted, Running, Emit
    <2>3. /\ stage'[x] = "emitting" /\ result'[x] = r
          /\ y # x => stage'[y] = stage[y] /\ result'[y] = result[y]
      BY <1>0, <2>1 DEF Emit, TypeOK
    <2>4. CASE y = x
      BY <1>0, <2>1, <2>2, <2>3, <2>4, Move DEF recordVars
    <2>5. CASE y # x
      BY <1>0, <2>2, <2>3, <2>5, Mild DEF recordVars
    <2> QED
      BY <2>4, <2>5
  <1>5. ASSUME NEW x \in Exec, DeadlineFires(x) PROVE Sound(y)'
    <2>1. stage[x] # "none"
      BY <1>0, <1>5 DEF DeadlineFires, Sound, Timer, Running
    <2>2. /\ UNCHANGED <<root, recordVars, stage, result, force>>
          /\ deadline'[y] \in {deadline[y], "off"}
      BY <1>0, <1>5 DEF DeadlineFires, TypeOK
    <2>3. \/ reason'[y] = reason[y]
          \/ y = x /\ reason[y] = "none" /\ reason'[y] # "none"
      BY <1>5, SignalEffect DEF DeadlineFires
    <2> QED
      BY <1>0, <2>1, <2>2, <2>3, Mild DEF recordVars
  <1>6. ASSUME NEW x \in Exec, Cancel(x) \/ CancelTree(x) PROVE Sound(y)'
    <2>1. /\ \E X : CancelEach(X)
          /\ UNCHANGED <<root, status, recorded, stage, result, deadline>>
      BY <1>6 DEF Cancel, CancelTree, recordVars
    <2> QED
      BY <2>1, CancelSound
  <1>7. ASSUME NEW x \in Exec, ForceFires(x) PROVE Sound(y)'
    <2>1. /\ Running(x) /\ Cancelled(x)
          /\ UNCHANGED <<root, reason>>
      BY <1>0, <1>7 DEF ForceFires, Sound, Signalled
    <2>2. force'[y] > 0 => force[y] > 0
      BY <1>0, <1>7 DEF ForceFires, TypeOK
    <2>3. stage[x] # "none" /\ (y # x => force'[y] = force[y])
      BY <1>0, <1>7 DEF ForceFires, TypeOK, Running
    <2>4. CASE stage[x] = "aborting"
      <3>1. /\ UNCHANGED <<status, recorded, deadline>>
            /\ stage'[x] = "emitting" /\ result'[x] = "cancelled"
            /\ y # x => stage'[y] = stage[y] /\ result'[y] = result[y]
        BY <1>0, <1>7, <2>4 DEF ForceFires, TypeOK
      <3>2. CASE y = x
        BY <1>0, <2>1, <2>2, <3>1, <3>2, Move
      <3>3. CASE y # x
        BY <1>0, <2>1, <2>2, <2>3, <3>1, <3>3, Mild
      <3> QED
        BY <3>2, <3>3
    <2>5. CASE stage[x] # "aborting"
      <3>1. End(x, Marked(reason[x]), reason[x])
        BY <1>7, <2>5 DEF ForceFires
      <3>2. CASE y = x
        BY <1>0, <2>1, <2>2, <3>1, <3>2, Ending
      <3>3. CASE y # x
        <4>1. /\ status'[y] = status[y] /\ stage'[y] = stage[y] /\ recorded'[y] = recorded[y]
              /\ result'[y] = result[y] /\ deadline'[y] = deadline[y]
          BY <1>0, <3>1, <3>3 DEF End, TypeOK
        <4> QED
          BY <1>0, <2>1, <2>2, <2>3, <3>3, <4>1, Mild
      <3> QED
        BY <3>2, <3>3
    <2> QED
      BY <2>4, <2>5
  <1>8. ASSUME NEW x \in Exec, ForceSpared(x) PROVE Sound(y)'
    <2>1. UNCHANGED <<root, recordVars, reason, stage, result, deadline>>
      BY <1>8 DEF ForceSpared
    <2>2. /\ force'[y] > 0 => force[y] > 0
          /\ force'[y] = force[y] \/ stage[y] # "none"
      BY <1>0, <1>8 DEF ForceSpared, TypeOK
    <2> QED
      BY <1>0, <2>1, <2>2, Mild DEF recordVars
  <1>9. ASSUME KernelStop PROVE Sound(y)'
    <2>1. UNCHANGED <<recordVars, taskVars>> /\ root'
      BY <1>9 DEF KernelStop
    <2>2. status[y] # "none" <=> stage[y] # "none"
      BY <1>0 DEF Sound, Phase
    <2>3. CASE root
      BY <1>0, <1>9, <2>1, <2>3, Mild DEF KernelStop, recordVars, taskVars
    <2>4. CASE ~root
      <3>1. Signal({x \in Exec : status[x] # "none"}, "parent")
        BY <1>9, <2>4 DEF KernelStop
      <3>2. \/ reason'[y] = reason[y]
            \/ status[y] # "none" /\ reason[y] = "none" /\ reason'[y] # "none"
        BY <3>1, SignalEffect
      <3>3. status[y] # "none" => reason'[y] # "none"
        BY <3>1 DEF Signal, Cancelled
      <3> QED
        BY <1>0, <2>1, <2>2, <3>2, <3>3, Mild DEF recordVars, taskVars
    <2> QED
      BY <2>3, <2>4
  <1>10. ASSUME KernelStopped \/ KernelStart \/ UNCHANGED vars PROVE Sound(y)'
    <2>1. UNCHANGED <<root, recordVars, reason, taskVars>>
      BY <1>10 DEF KernelStopped, KernelStart, vars
    <2> QED
      BY <1>0, <2>1, Mild DEF recordVars, taskVars
  <1> QED
    BY <1>1, <1>2, <1>3, <1>4, <1>5, <1>6, <1>7, <1>8, <1>9, <1>10 DEF Next, Handler

-----------------------------------------------------------------------------
(* The theorems.                                                           *)

\* The inductive invariant of the tracker.
LEMMA Inductive == Spec => []IInv
  <1>1. Init => IInv
    BY InitTyped, InitSound DEF IInv
  <1>2. IInv /\ [Next]_vars => IInv'
    BY TypeStep, SoundStep DEF IInv
  <1> QED
    BY <1>1, <1>2, PTL DEF Spec

\* Every variable of the tracker keeps its type, whatever cancels, fails or
\* times out (kernel/executions.py).
THEOREM TypeCorrect == Spec => []TypeOK
  BY Inductive, PTL DEF IInv

\* The status and the reason of a record are those of the first signal its
\* token received, for any executions, timeouts, cancellations and stops.
THEOREM ReasonsTold == Spec => []ReasonExplains
  <1>1. IInv => ReasonExplains
    BY DEF IInv, Sound, Explained, ReasonExplains
  <1> QED
    BY Inductive, <1>1, PTL

\* No running execution escapes the root token once the kernel was stopped,
\* not even one that a kernel started again creates.
THEOREM ShutdownSignal == Spec => []ShutdownReaches
  <1>1. IInv => ShutdownReaches
    BY DEF IInv, Sound, Reached, ShutdownReaches
  <1> QED
    BY Inductive, <1>1, PTL

\* A record that ended is never written again.
THEOREM SingleEnding == Spec => EndsOnce
  <1>1. ASSUME IInv, [Next]_vars
        PROVE  [\A x \in Exec : status[x] \in Final =>
                  status'[x] = status[x] /\ recorded'[x] = recorded[x]]_vars
    <2> SUFFICES ASSUME NEW y \in Exec, status[y] \in Final
                 PROVE  status'[y] = status[y] /\ recorded'[y] = recorded[y]
      OBVIOUS
    <2>0. TypeOK /\ stage[y] = "ended" /\ status[y] # "none"
      BY <1>1 DEF IInv, Sound, Phase, Final
    <2>1. ASSUME NEW x \in Exec, NEW p, Start(x, p)
          PROVE  status'[y] = status[y] /\ recorded'[y] = recorded[y]
      BY <2>0, <2>1 DEF Born, Start, TypeOK
    <2>2. ASSUME NEW x \in Exec, x # y, NEW st, NEW why, End(x, st, why)
          PROVE  status'[y] = status[y] /\ recorded'[y] = recorded[y]
      BY <2>0, <2>2 DEF End, TypeOK
    <2>3. ASSUME NEW x \in Exec, Refused(x) \/ Emitted(x) \/ EmitFails(x)
          PROVE  status'[y] = status[y] /\ recorded'[y] = recorded[y]
      <3>1. x # y
        BY <2>0, <2>3 DEF Refused, Emitted, EmitFails
      <3>2. \E st, why : End(x, st, why)
        BY <1>1, <2>3, WhoEnds
      <3> QED
        BY <2>2, <3>1, <3>2
    <2>4. ASSUME NEW x \in Exec, ForceFires(x)
          PROVE  status'[y] = status[y] /\ recorded'[y] = recorded[y]
      <3>1. x # y
        BY <2>0, <2>4 DEF ForceFires, Running
      <3>2. UNCHANGED <<status, recorded>> \/ \E st, why : End(x, st, why)
        BY <2>4 DEF ForceFires
      <3> QED
        BY <2>2, <3>1, <3>2
    <2>5. ASSUME UNCHANGED recordVars
          PROVE  status'[y] = status[y] /\ recorded'[y] = recorded[y]
      BY <2>5 DEF recordVars
    <2>6. ASSUME NEW x \in Exec,
                 \/ Admitted(x) \/ HandlerWaits(x) \/ GuardDone(x) \/ GuardCancelled(x)
                 \/ HandlerChecks(x) \/ HandlerReturns(x) \/ HandlerRaises(x) \/ GuardAborted(x)
                 \/ DeadlineFires(x) \/ Cancel(x) \/ CancelTree(x) \/ ForceSpared(x)
          PROVE  UNCHANGED recordVars
      BY <2>6 DEF Admitted, HandlerWaits, GuardDone, GuardCancelled, HandlerChecks,
                  HandlerReturns, HandlerRaises, GuardAborted, Emit, DeadlineFires, Cancel,
                  CancelTree, ForceSpared
    <2>7. ASSUME KernelStop \/ KernelStopped \/ KernelStart \/ UNCHANGED vars
          PROVE  UNCHANGED recordVars
      BY <2>7 DEF KernelStop, KernelStopped, KernelStart, vars
    <2> QED
      BY <1>1, <2>1, <2>3, <2>4, <2>5, <2>6, <2>7 DEF Next, Handler
  <1> QED
    BY Inductive, <1>1, PTL DEF Spec, EndsOnce

-----------------------------------------------------------------------------
(* A branch the ring holds the top of is cancelled to its leaves.          *)

Started == {x \in Exec : status[x] # "none"}

\* Executions start in the order of their ids and have a parent that began
\* before them; the ring holds the newest of them, newest first; what
\* cancel_tree() swept is signalled.
Ordered == \A x \in Started, y \in Exec : y < x => y \in Started
Descent == \A x \in Exec : parent[x] \in Exec => x \in Started /\ parent[x] < x
Descending == \A i, j \in 1..Len(history) : i < j => history[j] < history[i]
Newest == \A i \in 1..Len(history), y \in Started :
              history[i] < y => \E j \in 1..Len(history) : history[j] = y
Sealed == \A x \in swept : Cancelled(x) /\ x \in Started

Remembered ==
    /\ RangeOf(history) \subseteq Started
    /\ Ordered /\ Descent /\ Descending /\ Newest /\ Sealed

\* The ring is closed under descent: below a record it holds, it holds all.
LEMMA WholeBranch ==
    ASSUME TypeOK, Remembered, NEW r \in Exec, NEW c \in RangeOf(history), parent[c] = r
    PROVE  Subtree(c, Exec) \subseteq Subtree(r, RangeOf(history))
  <1>1. PICK i \in 1..Len(history) : c = history[i]
    BY DEF RangeOf
  <1>2. c \in Exec /\ Exec \subseteq Nat
    BY ExecutionsAssumption DEF Remembered, Started
  <1> SUFFICES ASSUME NEW x \in Subtree(c, Exec), NEW S \in SUBSET Exec, r \in S,
                      \A y \in RangeOf(history) : parent[y] \in S => y \in S
               PROVE  x \in S
    BY DEF Subtree
  <1> DEFINE T == {y \in S : c <= y}
  <1>3. c \in T
    BY <1>2
  <1>4. ASSUME NEW y \in Exec, parent[y] \in T PROVE y \in T
    <2>0. parent[y] \in Exec
      BY <1>4
    <2>1. y \in Started /\ parent[y] < y /\ c <= parent[y] /\ parent[y] \in S
      BY <1>4, <2>0 DEF Remembered, Descent
    <2>2. c < y
      <3>1. c \in Nat /\ y \in Nat /\ parent[y] \in Nat
        BY <1>2, <1>4, <2>0
      <3> HIDE DEF T
      <3> QED
        BY <2>1, <3>1
    <2>3. y \in RangeOf(history)
      BY <1>1, <2>1, <2>2 DEF Remembered, Newest, RangeOf
    <2> QED
      BY <1>2, <1>4, <2>1, <2>2, <2>3
  <1>5. T \in SUBSET Exec /\ x \in Exec
    BY DEF Subtree
  <1>6. \A U \in SUBSET Exec : c \in U /\ (\A y \in Exec : parent[y] \in U => y \in U) => x \in U
    BY DEF Subtree
  <1>7. x \in T
    <2> HIDE DEF T
    <2> QED
      BY <1>3, <1>4, <1>5, <1>6
  <1> QED
    BY <1>7

\* What cancel_tree() means to sweep it finds.
LEMMA BranchesFound ==
    ASSUME TypeOK, Remembered, NEW r \in Exec, NEW x \in Branches(r)
    PROVE  x \in Exec \cap Subtree(r, RangeOf(history))
  <1>1. CASE x = r
    BY <1>1 DEF Subtree
  <1>2. CASE x # r
    <2>1. PICK c \in RangeOf(history) : parent[c] = r /\ x \in Subtree(c, Exec)
      BY <1>2 DEF Branches
    <2>2. x \in Exec
      BY <2>1 DEF Subtree
    <2> QED
      BY <2>1, <2>2, WholeBranch
  <1> QED
    BY <1>1, <1>2

\* A new record enters the ring at its head, and only the last leaves it.
LEMMA RingTurns ==
    ASSUME TypeOK, NEW x \in Exec, NEW p, Start(x, p)
    PROVE  /\ Len(history') \in 1..(Len(history) + 1)
           /\ history'[1] = x
           /\ \A i \in 2..Len(history') : i - 1 \in 1..Len(history) /\ history'[i] = history[i - 1]
  <1>1. HistorySize \in Nat \ {0} /\ history \in Seq(Exec) /\ Len(history) <= HistorySize
    BY ExecutionsAssumption DEF TypeOK
  <1> DEFINE n == IF Len(history) < HistorySize THEN Len(history) + 1 ELSE HistorySize
  <1>2. n \in 1..(Len(history) + 1) /\ history' = SubSeq(<<x>> \o history, 1, n)
    BY <1>1 DEF Start
  <1> HIDE DEF n
  <1>3. <<x>> \o history \in Seq(Exec) /\ Len(<<x>> \o history) = Len(history) + 1
    BY <1>1
  <1>4. Len(history') = n /\ \A i \in 1..n : history'[i] = (<<x>> \o history)[i]
    BY <1>2, <1>3
  <1> QED
    BY <1>1, <1>2, <1>4

LEMMA RingGrows ==
    ASSUME TypeOK, Remembered, NEW x \in Exec, NEW p \in Exec \cup {None}, Start(x, p)
    PROVE  Remembered'
  <1>1. Started' = Started \cup {x} /\ x \notin Started
    BY DEF Started, Start, TypeOK
  <1>2. Exec \subseteq Nat /\ \A y \in Exec : y < x => y \in Started
    BY ExecutionsAssumption DEF Started, Start
  <1>3. \A y \in Started : y < x
    BY <1>1, <1>2 DEF Remembered, Ordered, Started
  <1>4. /\ Len(history') \in 1..(Len(history) + 1)
        /\ history'[1] = x
        /\ \A i \in 2..Len(history') : i - 1 \in 1..Len(history) /\ history'[i] = history[i - 1]
    BY RingTurns
  <1>5. Len(history) \in Nat /\ \A i \in 1..Len(history) : history[i] \in Started /\ history[i] \in Exec
    BY DEF TypeOK, Remembered, RangeOf
  <1>6. \A i \in 1..Len(history') : i # 1 => i \in 2..Len(history')
    BY <1>4, <1>5
  <1>7. (RangeOf(history) \subseteq Started)'
    <2> SUFFICES ASSUME NEW i \in 1..Len(history') PROVE history'[i] \in Started'
      BY DEF RangeOf
    <2> QED
      BY <1>1, <1>4, <1>5, <1>6
  <1>8. Ordered'
    BY <1>1, <1>2, <1>3 DEF Ordered, Remembered, Started
  <1>9. Descent'
    <2> SUFFICES ASSUME NEW y \in Exec, parent'[y] \in Exec PROVE y \in Started' /\ parent'[y] < y
      BY DEF Descent
    <2>1. CASE y = x
      <3>1. parent'[x] = p /\ p \in Started
        BY <2>1, ExecutionsAssumption DEF Start, TypeOK, Started
      <3> QED
        BY <1>1, <1>3, <2>1, <3>1
    <2>2. CASE y # x
      <3>1. parent'[y] = parent[y]
        BY <2>2 DEF Start, TypeOK
      <3> QED
        BY <1>1, <3>1 DEF Remembered, Descent
    <2> QED
      BY <2>1, <2>2
  <1>10. Descending'
    <2> SUFFICES ASSUME NEW i \in 1..Len(history'), NEW j \in 1..Len(history'), i < j
                 PROVE  history'[j] < history'[i]
      BY DEF Descending
    <2>1. j \in 2..Len(history') /\ j - 1 \in 1..Len(history) /\ history'[j] = history[j - 1]
      BY <1>4, <1>5, <1>6
    <2>2. CASE i = 1
      BY <1>3, <1>4, <1>5, <2>1, <2>2
    <2>3. CASE i # 1
      <3>1. i - 1 \in 1..Len(history) /\ history'[i] = history[i - 1] /\ i - 1 < j - 1
        BY <1>4, <1>6, <2>1, <2>3
      <3> QED
        BY <2>1, <3>1 DEF Remembered, Descending
    <2> QED
      BY <2>2, <2>3
  <1>11. Newest'
    <2> SUFFICES ASSUME NEW i \in 1..Len(history'), NEW y \in Started', history'[i] < y
                 PROVE  \E j \in 1..Len(history') : history'[j] = y
      BY DEF Newest
    <2>1. 1 \in 1..Len(history')
      BY <1>4, <1>5
    <2>2. CASE y = x
      BY <1>4, <2>1, <2>2
    <2>3. CASE y # x
      <3>1. y \in Started /\ y < x /\ y \in Exec
        BY <1>1, <1>3, <2>3 DEF Started
      <3>2. i # 1
        BY <1>2, <1>4, <3>1
      <3>3. i - 1 \in 1..Len(history) /\ history'[i] = history[i - 1]
        BY <1>4, <1>6, <3>2
      <3>4. PICK k \in 1..Len(history) : history[k] = y
        BY <3>1, <3>3 DEF Remembered, Newest
      <3>5. k < i - 1
        <4> SUFFICES ASSUME ~(k < i - 1) PROVE FALSE
          OBVIOUS
        <4>1. k = i - 1 \/ i - 1 < k
          BY <1>5, <3>3
        <4>2. CASE k = i - 1
          BY <1>2, <3>1, <3>3, <3>4, <4>2
        <4>3. CASE i - 1 < k
          <5>1. history[k] < history[i - 1]
            BY <3>3, <3>4, <4>3 DEF Remembered, Descending
          <5>2. history[i - 1] \in Nat /\ y \in Nat /\ history[i - 1] < y
            BY <1>2, <1>5, <3>1, <3>3
          <5> QED
            BY <3>4, <5>1, <5>2
        <4> QED
          BY <4>1, <4>2, <4>3
      <3>6. k + 1 \in 2..Len(history') /\ (k + 1) - 1 = k
        BY <1>4, <1>5, <3>3, <3>4, <3>5
      <3>7. k + 1 \in 1..Len(history') /\ history'[k + 1] = y
        BY <1>4, <1>5, <3>4, <3>6
      <3> QED
        BY <3>7
    <2> QED
      BY <2>2, <2>3
  <1>12. Sealed'
    <2> SUFFICES ASSUME NEW y \in swept PROVE reason'[y] # "none" /\ y \in Started'
      BY DEF Start, Sealed, Cancelled
    <2>1. y \in Started /\ y # x /\ reason[y] # "none" /\ y \in Exec
      BY <1>1 DEF Remembered, Sealed, Cancelled, TypeOK
    <2> QED
      BY <1>1, <2>1 DEF Start, TypeOK
  <1> QED
    BY <1>7, <1>8, <1>9, <1>10, <1>11, <1>12 DEF Remembered

\* Whatever leaves the ring alone and takes no signal back keeps it.
LEMMA RingStays ==
    ASSUME TypeOK, Remembered, UNCHANGED <<parent, history>>, Started' = Started,
           \A y \in swept' : y \in swept \/ (Cancelled(y)' /\ y \in Started),
           \A y \in Exec : Cancelled(y) => Cancelled(y)'
    PROVE  Remembered'
  <1>1. swept \subseteq Exec
    BY DEF TypeOK
  <1>2. Sealed'
    BY <1>1 DEF Remembered, Sealed
  <1>3. (RangeOf(history) \subseteq Started)' /\ Ordered' /\ Descent' /\ Descending' /\ Newest'
    BY DEF Remembered, RangeOf, Ordered, Descent, Descending, Newest
  <1> QED
    BY <1>2, <1>3 DEF Remembered

\* A signal is never taken back.
LEMMA SignalStays ==
    ASSUME NEW X, NEW why, why # "none", Signal(X, why), NEW y \in Exec, Cancelled(y)
    PROVE  Cancelled(y)'
  BY DEF Signal, Cancelled

\* An execution that ends was started, and was swept no more.
LEMMA EndKeepsRing ==
    ASSUME TypeOK, Remembered, NEW x \in Exec, NEW st \in Final, NEW why, End(x, st, why),
           status[x] # "none", UNCHANGED <<parent, history, reason>>
    PROVE  Remembered'
  <1>1. Started' = Started
    BY DEF Started, End, TypeOK, Final
  <1>2. swept' \subseteq swept
    BY DEF End
  <1>3. \A y \in Exec : Cancelled(y) => Cancelled(y)'
    BY DEF Cancelled
  <1> QED
    BY <1>1, <1>2, <1>3, RingStays

\* cancel_tree() signals every running execution of the branches it finds.
LEMMA TreeSwept ==
    ASSUME IInv, Remembered, NEW r \in Exec, CancelTree(r)
    PROVE  Remembered'
  <1>0. TypeOK /\ UNCHANGED <<parent, history, status>>
    BY DEF IInv, CancelTree, recordVars
  <1>1. Signal({x \in Exec \cap Subtree(r, RangeOf(history)) : Running(x)}, "user")
    BY DEF CancelTree, CancelEach
  <1>2. swept' = swept \cup {x \in Branches(r) : Running(x)}
    BY DEF CancelTree
  <1>3. Started' = Started
    BY <1>0 DEF Started
  <1>4. ASSUME NEW y \in swept', y \notin swept PROVE Cancelled(y)' /\ y \in Started
    <2>1. y \in Exec \cap Subtree(r, RangeOf(history)) /\ Running(y)
      BY <1>0, <1>2, <1>4, BranchesFound
    <2>2. reason'[y] # "none"
      BY <1>1, <2>1 DEF Signal, Cancelled
    <2>3. status[y] # "none"
      BY <2>1 DEF IInv, Sound, Phase, Running
    <2> QED
      BY <2>1, <2>2, <2>3 DEF Cancelled, Started
  <1>5. \A y \in Exec : Cancelled(y) => Cancelled(y)'
    BY <1>1, SignalStays
  <1> QED
    BY <1>0, <1>3, <1>4, <1>5, RingStays

LEMMA RememberedStep ==
    ASSUME IInv, Remembered, [Next]_vars
    PROVE  Remembered'
  <1>0. TypeOK /\ \A x \in Exec : Phase(x)
    BY DEF IInv, Sound
  <1>1. ASSUME NEW x \in Exec, NEW p \in Exec \cup {None}, Start(x, p) PROVE Remembered'
    BY <1>0, <1>1, RingGrows
  <1>2. ASSUME NEW x \in Exec,
               Refused(x) \/ Emitted(x) \/ EmitFails(x) \/ (ForceFires(x) /\ stage[x] # "aborting")
        PROVE  Remembered'
    <2>1. UNCHANGED <<parent, history, reason>>
      BY <1>2 DEF Refused, Emitted, EmitFails, ForceFires
    <2>2. status[x] # "none"
      BY <1>0, <1>2 DEF Phase, Refused, Emitted, EmitFails, ForceFires, Running
    <2>3. \A w : Marked(w) \in Final
      BY DEF Marked, Final
    <2>4. \E st \in Final : \E why : End(x, st, why)
      <3>1. CASE ForceFires(x) /\ stage[x] # "aborting"
        <4>1. End(x, Marked(reason[x]), reason[x])
          BY <3>1 DEF ForceFires
        <4> QED
          BY <2>3, <4>1
      <3>2. CASE ~(ForceFires(x) /\ stage[x] # "aborting")
        <4>1. \/ End(x, "failed", "none")
              \/ End(x, "completed", "none")
              \/ End(x, Marked(reason[x]), reason[x])
          BY <1>2, <3>2, WhoEnds
        <4> QED
          BY <2>3, <4>1 DEF Final
      <3> QED
        BY <3>1, <3>2
    <2> QED
      BY <1>0, <2>1, <2>2, <2>4, EndKeepsRing
  <1>3. ASSUME UNCHANGED <<recordVars, swept>>, \A y \in Exec : Cancelled(y) => Cancelled(y)'
        PROVE  Remembered'
    <2>1. Started' = Started
      BY <1>3 DEF Started, recordVars
    <2> QED
      BY <1>0, <1>3, <2>1, RingStays DEF recordVars
  <1>4. ASSUME UNCHANGED <<recordVars, reason, swept>> PROVE Remembered'
    BY <1>3, <1>4 DEF Cancelled
  <1>5. ASSUME NEW x \in Exec,
               \/ Admitted(x) \/ HandlerChecks(x) \/ HandlerReturns(x) \/ HandlerRaises(x)
               \/ GuardCancelled(x) \/ GuardAborted(x) \/ HandlerWaits(x) \/ GuardDone(x)
               \/ ForceSpared(x) \/ (ForceFires(x) /\ stage[x] = "aborting")
        PROVE  Remembered'
    <2>1. UNCHANGED <<recordVars, reason, swept>>
      BY <1>5 DEF Admitted, HandlerChecks, HandlerReturns, HandlerRaises, GuardCancelled,
                  GuardAborted, HandlerWaits, GuardDone, ForceSpared, ForceFires, Emit,
                  recordVars
    <2> QED
      BY <1>4, <2>1
  <1>6. ASSUME NEW x \in Exec, DeadlineFires(x) PROVE Remembered'
    <2>1. UNCHANGED <<recordVars, swept>> /\ Signal({x}, "timeout")
      BY <1>6 DEF DeadlineFires
    <2> QED
      BY <1>3, <2>1, SignalStays
  <1>7. ASSUME NEW x \in Exec, Cancel(x) PROVE Remembered'
    <2>1. UNCHANGED <<recordVars, swept>>
      BY <1>7 DEF Cancel
    <2>2. Signal({z \in Exec \cap {x} : Running(z)}, "user")
      BY <1>7 DEF Cancel, CancelEach
    <2> QED
      BY <1>3, <2>1, <2>2, SignalStays
  <1>8. ASSUME NEW x \in Exec, CancelTree(x) PROVE Remembered'
    BY <1>8, TreeSwept
  <1>9. ASSUME KernelStop PROVE Remembered'
    <2>1. UNCHANGED <<recordVars, swept>>
      BY <1>9 DEF KernelStop
    <2>2. \/ UNCHANGED reason
          \/ Signal({x \in Exec : status[x] # "none"}, "parent")
      BY <1>9 DEF KernelStop
    <2>3. \A y \in Exec : Cancelled(y) => Cancelled(y)'
      BY <2>2, SignalStays DEF Cancelled
    <2> QED
      BY <1>3, <2>1, <2>3
  <1>10. ASSUME KernelStopped \/ KernelStart \/ UNCHANGED vars PROVE Remembered'
    <2>1. UNCHANGED <<recordVars, reason, swept>>
      BY <1>10 DEF KernelStopped, KernelStart, vars
    <2> QED
      BY <1>4, <2>1
  <1> QED
    BY <1>1, <1>2, <1>5, <1>6, <1>7, <1>8, <1>9, <1>10 DEF Next, Handler

LEMMA InitRemembered == Init => Remembered
  <1> SUFFICES ASSUME Init PROVE Remembered
    OBVIOUS
  <1>1. Started = {} /\ Len(history) = 0 /\ RangeOf(history) = {} /\ swept = {}
    BY DEF Started, Init, RangeOf
  <1>2. \A x \in Exec : parent[x] \notin Exec
    BY ExecutionsAssumption DEF Init
  <1> QED
    BY <1>1, <1>2 DEF Remembered, Ordered, Descent, Descending, Newest, Sealed

\* cancel_tree() reaches every running execution of every branch whose top the
\* ring still holds, also below members that are over and below a root the ring
\* forgot, however many executions there are and however small the ring: it
\* forgets the oldest first, and a child is younger than its parent.
THEOREM TreeReached == Spec => []CancelTreeReaches
  <1>1. Init => Remembered
    BY InitRemembered
  <1>2. IInv /\ Remembered /\ [Next]_vars => Remembered'
    BY RememberedStep
  <1>3. Remembered => CancelTreeReaches
    BY DEF Remembered, Sealed, CancelTreeReaches
  <1> QED
    BY Inductive, <1>1, <1>2, <1>3, PTL DEF Spec
=============================================================================
