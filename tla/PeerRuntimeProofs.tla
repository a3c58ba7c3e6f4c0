-------------------------- MODULE PeerRuntimeProofs --------------------------
(***************************************************************************)
(* The safety properties of PeerRuntime, proved for any finite number of   *)
(* callers and any number of bootstraps.                                   *)
(*                                                                         *)
(* That there is one Connector rests on who owns what: a bootstrap begins  *)
(* when nothing is pending and there is no session, and Links and          *)
(* ConnectorsOwned say that then nothing is coming up or open.  That the   *)
(* last waiter aborts rests on the count.                                  *)
(***************************************************************************)
EXTENDS PeerRuntime, FiniteSetTheorems, TLAPS

InUse(b) == boot[b] \in {"starting", "opening", "failing", "aborting", "open"}

(* One bootstrap at a time is coming up, being undone or open.             *)
OneInUse == \A a, b \in Ids : InUse(a) /\ InUse(b) => a = b

Waiters(st, o, b) == {c \in Callers : st[c] = "wait" /\ o[c] = b}

(* The count is right; that without any the bootstrap is aborted needs it. *)
Counted == pending # 0 => waiters = Cardinality(Waiters(stage, on, pending))
AbortedAlone == pending # 0 /\ waiters = 0 => pending \in aborted

(* What the fields of the runtime and its callers refer to.                *)
Links ==
  /\ IsOpen => closing.waits = {}
  /\ ~IsOpen => session = 0 /\ pending = 0
  /\ session # 0 => pending = 0 /\ boot[session] = "open" /\ outcome[session] = "ready"
  /\ \A b \in Ids : boot[b] = "closing" => outcome[b] = "ready" /\ session # b
  /\ pending # 0 => boot[pending] \in {"starting", "opening", "failing", "aborting"}
  /\ \A b \in Ids : outcome[b] = "ready" => boot[b] \in {"open", "closing", "gone", "left"}
  /\ \A c \in Callers :
       /\ stage[c] # "idle" => on[c] # 0 /\ boot[on[c]] # "unused"
       /\ stage[c] \in {"call", "settle", "drop"} => outcome[on[c]] = "ready"
       /\ stage[c] \in {"call", "settle", "drop"} => boot[on[c]] \in {"open", "closing", "gone", "left"}

IInv ==
  /\ TypeOK /\ Links /\ OneInUse /\ Counted /\ AbortedAlone /\ ConnectorsOwned

-----------------------------------------------------------------------------
LEMMA IdsFacts == 0 \notin Ids
BY PeerAssumption DEF Ids

(* The waiters of a bootstrap are a finite set no larger than Callers.     *)
LEMMA WaitersFinite ==
  ASSUME NEW st, NEW o, NEW b
  PROVE  /\ IsFiniteSet(Waiters(st, o, b))
         /\ Cardinality(Waiters(st, o, b)) \in Nat
         /\ Cardinality(Waiters(st, o, b)) <= Cardinality(Callers)
         /\ Cardinality(Callers) \in Nat
<1>1. Waiters(st, o, b) \in SUBSET Callers
  BY DEF Waiters
<1> QED BY <1>1, PeerAssumption, FS_Subset, FS_CardinalityType

(* One who waits for the pending bootstrap is counted.                     *)
LEMMA WaiterIsCounted ==
  ASSUME NEW c \in Callers, Counted, pending # 0, stage[c] = "wait", on[c] = pending
  PROVE  /\ waiters = Cardinality(Waiters(stage, on, pending))
         /\ waiters \in Nat /\ waiters > 0
<1>1. waiters = Cardinality(Waiters(stage, on, pending))
  BY DEF Counted
<1>2. c \in Waiters(stage, on, pending)
  BY DEF Waiters
<1>3. Cardinality(Waiters(stage, on, pending)) # 0
  BY <1>2, WaitersFinite, FS_EmptySet
<1> QED BY <1>1, <1>3, WaitersFinite

(* A caller that stops waiting leaves the set, ...                         *)
LEMMA WaiterLeaves ==
  ASSUME TypeOK, NEW c \in Callers, NEW b, stage[c] = "wait", on[c] = b,
         NEW s, s # "wait", NEW d,
         stage' = [stage EXCEPT ![c] = s], on' = [on EXCEPT ![c] = d]
  PROVE  Cardinality(Waiters(stage', on', b)) = Cardinality(Waiters(stage, on, b)) - 1
<1>1. Waiters(stage', on', b) = Waiters(stage, on, b) \ {c}
  BY DEF Waiters, TypeOK
<1>2. c \in Waiters(stage, on, b)
  BY DEF Waiters
<1>3. Cardinality(Waiters(stage, on, b) \ {c}) = Cardinality(Waiters(stage, on, b)) - 1
  BY <1>2, WaitersFinite, FS_RemoveElement
<1> QED BY <1>1, <1>3

(* ... one that begins to wait joins it, ...                               *)
LEMMA WaiterJoins ==
  ASSUME TypeOK, NEW c \in Callers, NEW b, stage[c] # "wait",
         stage' = [stage EXCEPT ![c] = "wait"], on' = [on EXCEPT ![c] = b]
  PROVE  Cardinality(Waiters(stage', on', b)) = Cardinality(Waiters(stage, on, b)) + 1
<1>1. Waiters(stage', on', b) = Waiters(stage, on, b) \cup {c}
  BY DEF Waiters, TypeOK
<1>2. c \notin Waiters(stage, on, b)
  BY DEF Waiters
<1>3. Cardinality(Waiters(stage, on, b) \cup {c}) = Cardinality(Waiters(stage, on, b)) + 1
  BY <1>2, WaitersFinite, FS_AddElement
<1> QED BY <1>1, <1>3

(* ... and what anybody else does leaves it as it is.                      *)
LEMMA WaitersKept ==
  ASSUME TypeOK, NEW c \in Callers, NEW b, stage[c] # "wait" \/ on[c] # b,
         NEW s, s # "wait", NEW d,
         stage' = [stage EXCEPT ![c] = s], on' = [on EXCEPT ![c] = d]
  PROVE  Waiters(stage', on', b) = Waiters(stage, on, b)
BY DEF Waiters, TypeOK

(* dropEffect closes the session of its caller, or does nothing.           *)
LEMMA Dropping ==
  ASSUME NEW c \in Callers, NEW r, Drop(c, r)
  PROVE  \/ /\ session = on[c] /\ session' = 0
            /\ boot' = [boot EXCEPT ![on[c]] = "closing"]
            /\ stage' = [stage EXCEPT ![c] = "drop"] /\ on' = [on EXCEPT ![c] = on[c]]
         \/ /\ session # on[c] /\ session' = session /\ boot' = boot
            /\ stage' = [stage EXCEPT ![c] = "idle"] /\ on' = [on EXCEPT ![c] = 0]
BY DEF Drop, Goto, Return

(* A drop that is cut leaves the session to nobody.                        *)
LEMMA Cutting ==
  ASSUME NEW c \in Callers, CutDrop(c)
  PROVE  /\ stage[c] = "drop" /\ boot[on[c]] = "closing"
         /\ boot' = [boot EXCEPT ![on[c]] = "left"]
         /\ stage' = [stage EXCEPT ![c] = "idle"] /\ on' = [on EXCEPT ![c] = 0]
         /\ UNCHANGED <<stateVars, aborted, outcome, closing>>
BY DEF CutDrop, Return, Goto

(* A wait ends in a call or without one.                                   *)
LEMMA WaitEnds ==
  ASSUME NEW c \in Callers, Woken(c) \/ CancelWait(c)
  PROVE  /\ stage[c] = "wait" /\ LeaveBootstrap(c)
         /\ \/ /\ stage' = [stage EXCEPT ![c] = "call"] /\ on' = [on EXCEPT ![c] = on[c]]
               /\ outcome[on[c]] = "ready"
            \/ stage' = [stage EXCEPT ![c] = "idle"] /\ on' = [on EXCEPT ![c] = 0]
         /\ session' = session /\ boot' = boot /\ outcome' = outcome /\ closing' = closing
         /\ pending' = pending
BY DEF Woken, CancelWait, LeaveBootstrap, Goto, Return

(* What it leaves of the count and of the bootstrap.                       *)
LEMMA LeaveCounted ==
  ASSUME TypeOK, Links, Counted, AbortedAlone, NEW c \in Callers, Woken(c) \/ CancelWait(c)
  PROVE  /\ waiters' \in 0 .. Cardinality(Callers) /\ aborted' \subseteq Ids
         /\ Counted' /\ AbortedAlone'
<1>1. /\ aborted \subseteq Ids /\ pending \in Ids \cup {0} /\ session \in Ids \cup {0}
      /\ waiters \in 0 .. Cardinality(Callers) /\ Cardinality(Callers) \in Nat
      /\ pending # 0 => session = 0
  BY PeerAssumption, FS_CardinalityType, IdsFacts DEF TypeOK, Links
<1>2. on[c] # 0
  BY WaitEnds DEF Links
<1>3. CASE pending # 0 /\ on[c] = pending
  <2>1. session = 0 /\ waiters = Cardinality(Waiters(stage, on, pending)) /\ waiters > 0
    BY <1>1, <1>3, WaitEnds, WaiterIsCounted
  <2>2. waiters' = waiters - 1 /\ (waiters = 1 => pending \in aborted') /\ aborted' \subseteq Ids
    BY <1>1, <1>3, <2>1, WaitEnds DEF LeaveBootstrap
  <2>3. Cardinality(Waiters(stage', on', pending)) = Cardinality(Waiters(stage, on, pending)) - 1
    <3>1. CASE stage' = [stage EXCEPT ![c] = "call"] /\ on' = [on EXCEPT ![c] = on[c]]
      BY <1>1, <1>3, <3>1, WaitEnds, WaiterLeaves
    <3>2. CASE stage' = [stage EXCEPT ![c] = "idle"] /\ on' = [on EXCEPT ![c] = 0]
      BY <1>1, <1>3, <3>2, WaitEnds, WaiterLeaves
    <3> QED BY <3>1, <3>2, WaitEnds
  <2>4. waiters' \in 0 .. Cardinality(Callers)
    BY <1>1, <2>1, <2>2
  <2>5. waiters' = Cardinality(Waiters(stage', on', pending'))
    BY <2>1, <2>2, <2>3, WaitEnds
  <2>6. waiters' = 0 => pending' \in aborted'
    BY <1>1, <2>1, <2>2, WaitEnds
  <2> QED BY <2>2, <2>4, <2>5, <2>6 DEF Counted, AbortedAlone
<1>4. CASE pending = 0 \/ on[c] # pending
  <2>1. waiters' = waiters /\ aborted' = aborted
    BY <1>2, <1>4, WaitEnds DEF LeaveBootstrap
  <2>2. pending # 0 => Waiters(stage', on', pending) = Waiters(stage, on, pending)
    BY <1>1, <1>4, WaitEnds, WaitersKept
  <2>3. Counted'
    BY <2>1, <2>2, WaitEnds DEF Counted
  <2> QED BY <1>1, <2>1, <2>3, WaitEnds DEF AbortedAlone
<1> QED BY <1>3, <1>4

-----------------------------------------------------------------------------
(* Every step keeps every variable in its type.                            *)
LEMMA TypeStep ==
  ASSUME IInv, [Next]_vars
  PROVE  TypeOK'
<1> USE IdsFacts DEF TypeOK, stateVars, bootVars, callerVars
<1> TypeOK /\ Links /\ Counted /\ AbortedAlone BY DEF IInv
<1> Cardinality(Callers) \in Nat BY PeerAssumption, FS_CardinalityType
<1>1. ASSUME NEW c \in Callers, CallerStep(c) PROVE TypeOK'
  <2>1. CASE Refuse(c)
    BY <2>1 DEF Refuse, Goto, Return
  <2>2. CASE UseSession(c)
    BY <2>2 DEF UseSession, Ask, Goto
  <2>3. CASE JoinBootstrap(c)
    <3>1. waiters + 1 = Cardinality(Waiters(stage', on', pending))
      BY <2>3, WaiterJoins DEF JoinBootstrap, Ask, Goto, Counted
    <3>2. waiters' \in 0 .. Cardinality(Callers)
      BY <2>3, <3>1, WaitersFinite DEF JoinBootstrap
    <3> QED BY <2>3, <3>2 DEF JoinBootstrap, Ask, Goto
  <2>4. CASE BeginBootstrap(c)
    <3>1. 1 \in 0 .. Cardinality(Callers)
      BY <2>4, FS_EmptySet, PeerAssumption
    <3> QED BY <2>4, <3>1 DEF BeginBootstrap, Ask, Goto
  <2>5. CASE CancelWait(c)
    <3>1. result' \in [Callers -> {"none", "answered", "failed", "aborted", "cancelled"}]
      BY <2>5 DEF CancelWait, Return, Links
    <3>2. /\ stage' \in [Callers -> {"idle", "wait", "call", "settle", "drop"}]
          /\ on' \in [Callers -> Ids \cup {0}]
      BY <2>5, WaitEnds
    <3> QED BY <2>5, <3>1, <3>2, WaitEnds, LeaveCounted
  <2>6. CASE CancelCall(c)
    BY <2>6 DEF CancelCall, Goto
  <2>7. CASE Woken(c)
    <3>1. result' \in [Callers -> {"none", "answered", "failed", "aborted", "cancelled"}]
      BY <2>7 DEF Woken, Return, Links
    <3>2. /\ stage' \in [Callers -> {"idle", "wait", "call", "settle", "drop"}]
          /\ on' \in [Callers -> Ids \cup {0}]
      BY <2>7, WaitEnds
    <3> QED BY <2>7, <3>1, <3>2, WaitEnds, LeaveCounted
  <2>8. CASE Answered(c)
    BY <2>8 DEF Answered, Goto, Return
  <2>9. CASE CallFails(c)
    <3>1. /\ session' \in Ids \cup {0}
          /\ stage' \in [Callers -> {"idle", "wait", "call", "settle", "drop"}]
          /\ on' \in [Callers -> Ids \cup {0}]
          /\ boot' \in [Ids -> {"unused", "starting", "opening", "open", "failing", "aborting", "closing",
                               "gone", "left"}]
      BY <2>9, Dropping DEF CallFails
    <3>2. result' \in [Callers -> {"none", "answered", "failed", "aborted", "cancelled"}]
      BY <2>9 DEF CallFails, Drop, Return
    <3> QED BY <2>9, <3>1, <3>2 DEF CallFails
  <2>10. CASE Settles(c)
    BY <2>10 DEF Settles, Goto, Return
  <2>11. CASE DoesNotSettle(c)
    <3>1. /\ session' \in Ids \cup {0}
          /\ stage' \in [Callers -> {"idle", "wait", "call", "settle", "drop"}]
          /\ on' \in [Callers -> Ids \cup {0}]
          /\ boot' \in [Ids -> {"unused", "starting", "opening", "open", "failing", "aborting", "closing",
                               "gone", "left"}]
      BY <2>11, Dropping DEF DoesNotSettle
    <3>2. result' \in [Callers -> {"none", "answered", "failed", "aborted", "cancelled"}]
      BY <2>11 DEF DoesNotSettle, Drop, Return
    <3> QED BY <2>11, <3>1, <3>2 DEF DoesNotSettle
  <2>12. CASE Dropped(c)
    BY <2>12 DEF Dropped, Goto, Return
  <2>13. CASE CutDrop(c)
    <3>1. PICK r \in {result[c], "cancelled"} : Return(c, r)
      BY <2>13 DEF CutDrop
    <3>2. result' \in [Callers -> {"none", "answered", "failed", "aborted", "cancelled"}]
      BY <3>1 DEF Return
    <3> QED BY <2>13, <3>2, Cutting
  <2> QED BY <1>1, <2>1, <2>2, <2>3, <2>4, <2>5, <2>6, <2>7, <2>8, <2>9, <2>10, <2>11, <2>12, <2>13
          DEF CallerStep, CallerProgress
<1>2. ASSUME NEW b \in Ids, BootStep(b) PROVE TypeOK'
  <2>1. CASE ConnectorStarts(b)
    BY <2>1 DEF ConnectorStarts
  <2>2. CASE Verified(b)
    BY <2>2 DEF Verified
  <2>3. CASE BootstrapFails(b)
    BY <2>3 DEF BootstrapFails
  <2>4. CASE BootstrapEnds(b)
    BY <2>4 DEF BootstrapEnds
  <2>5. CASE SessionCloses(b)
    BY <2>5 DEF SessionCloses
  <2> QED BY <1>2, <2>1, <2>2, <2>3, <2>4, <2>5 DEF BootStep
<1>3. CASE BeginClose
  BY <1>3 DEF BeginClose, Bootstrapping
<1>4. CASE CloseEnds
  BY <1>4 DEF CloseEnds
<1>5. CASE UNCHANGED vars
  BY <1>5 DEF vars
<1>6. CASE CutClose
  BY <1>6 DEF CutClose, Bootstrapping
<1> QED BY <1>1, <1>2, <1>3, <1>4, <1>5, <1>6 DEF Next

(* What fields and callers refer to stays what it has to be.               *)
LEMMA LinksStep ==
  ASSUME IInv, [Next]_vars
  PROVE  Links'
<1> USE IdsFacts DEF Links, TypeOK, IsOpen, stateVars, bootVars, callerVars
<1> TypeOK /\ Links /\ OneInUse /\ ConnectorsOwned BY DEF IInv
<1>1. ASSUME NEW c \in Callers, CallerStep(c) PROVE Links'
  <2>1. CASE Refuse(c)
    BY <2>1 DEF Refuse, Goto, Return
  <2>2. CASE UseSession(c)
    BY <2>2 DEF UseSession, Ask, Goto
  <2>3. CASE JoinBootstrap(c)
    BY <2>3 DEF JoinBootstrap, Ask, Goto
  <2>4. CASE BeginBootstrap(c)
    BY <2>4 DEF BeginBootstrap, Ask, Goto
  <2>5. CASE CancelWait(c)
    BY <2>5, WaitEnds
  <2>6. CASE CancelCall(c)
    BY <2>6 DEF CancelCall, Goto
  <2>7. CASE Woken(c)
    BY <2>7, WaitEnds
  <2>8. CASE Answered(c)
    BY <2>8 DEF Answered, Goto, Return
  <2>9. CASE CallFails(c)
    BY <2>9, Dropping DEF CallFails
  <2>10. CASE Settles(c)
    BY <2>10 DEF Settles, Goto, Return
  <2>11. CASE DoesNotSettle(c)
    BY <2>11, Dropping DEF DoesNotSettle
  <2>12. CASE Dropped(c)
    BY <2>12 DEF Dropped, Goto, Return
  <2>13. CASE CutDrop(c)
    BY <2>13, Cutting
  <2> QED BY <1>1, <2>1, <2>2, <2>3, <2>4, <2>5, <2>6, <2>7, <2>8, <2>9, <2>10, <2>11, <2>12, <2>13
          DEF CallerStep, CallerProgress
<1>2. ASSUME NEW b \in Ids, BootStep(b) PROVE Links'
  <2>1. CASE ConnectorStarts(b)
    BY <2>1 DEF ConnectorStarts
  <2>2. CASE Verified(b)
    BY <2>2 DEF Verified
  <2>3. CASE BootstrapFails(b)
    BY <2>3 DEF BootstrapFails
  <2>4. CASE BootstrapEnds(b)
    BY <2>4 DEF BootstrapEnds, OneInUse, InUse
  <2>5. CASE SessionCloses(b)
    BY <2>5 DEF SessionCloses
  <2> QED BY <1>2, <2>1, <2>2, <2>3, <2>4, <2>5 DEF BootStep
<1>3. CASE BeginClose
  BY <1>3 DEF BeginClose, Bootstrapping, ConnectorsOwned
<1>4. CASE CloseEnds
  BY <1>4 DEF CloseEnds
<1>5. CASE UNCHANGED vars
  BY <1>5 DEF vars
<1>6. CASE CutClose
  BY <1>6 DEF CutClose, Bootstrapping
<1> QED BY <1>1, <1>2, <1>3, <1>4, <1>5, <1>6 DEF Next

(* A second bootstrap never begins while there is one.                     *)
LEMMA OneInUseStep ==
  ASSUME IInv, [Next]_vars
  PROVE  OneInUse'
<1> USE IdsFacts DEF OneInUse, InUse, TypeOK, stateVars, bootVars, callerVars
<1> TypeOK /\ Links /\ OneInUse /\ ConnectorsOwned BY DEF IInv
<1>1. ASSUME NEW c \in Callers, CallerStep(c) PROVE OneInUse'
  <2>1. CASE Refuse(c)
    BY <2>1 DEF Refuse, Goto, Return
  <2>2. CASE UseSession(c)
    BY <2>2 DEF UseSession, Ask, Goto
  <2>3. CASE JoinBootstrap(c)
    BY <2>3 DEF JoinBootstrap, Ask, Goto
  <2>4. CASE BeginBootstrap(c)
    <3>1. session = 0 /\ pending = 0 /\ closing.waits = {}
      BY <2>4 DEF BeginBootstrap, Links
    <3>2. ASSUME NEW b \in Ids PROVE ~InUse(b)
      <4>1. boot[b] # "open"
        BY <3>1 DEF ConnectorsOwned
      <4>2. b \notin Bootstrapping
        BY <3>1 DEF ConnectorsOwned
      <4> QED BY <4>1, <4>2 DEF Bootstrapping
    <3> PICK b \in Ids : boot' = [boot EXCEPT ![b] = "starting"]
      BY <2>4 DEF BeginBootstrap
    <3> QED BY <3>2
  <2>5. CASE CancelWait(c)
    BY <2>5, WaitEnds
  <2>6. CASE CancelCall(c)
    BY <2>6 DEF CancelCall, Goto
  <2>7. CASE Woken(c)
    BY <2>7, WaitEnds
  <2>8. CASE Answered(c)
    BY <2>8 DEF Answered, Goto, Return
  <2>9. CASE CallFails(c)
    BY <2>9, Dropping DEF CallFails
  <2>10. CASE Settles(c)
    BY <2>10 DEF Settles, Goto, Return
  <2>11. CASE DoesNotSettle(c)
    BY <2>11, Dropping DEF DoesNotSettle
  <2>12. CASE Dropped(c)
    BY <2>12 DEF Dropped, Goto, Return
  <2>13. CASE CutDrop(c)
    BY <2>13, Cutting
  <2> QED BY <1>1, <2>1, <2>2, <2>3, <2>4, <2>5, <2>6, <2>7, <2>8, <2>9, <2>10, <2>11, <2>12, <2>13
          DEF CallerStep, CallerProgress
<1>2. ASSUME NEW b \in Ids, BootStep(b) PROVE OneInUse'
  <2>1. CASE ConnectorStarts(b)
    BY <2>1 DEF ConnectorStarts
  <2>2. CASE Verified(b)
    BY <2>2 DEF Verified
  <2>3. CASE BootstrapFails(b)
    BY <2>3 DEF BootstrapFails
  <2>4. CASE BootstrapEnds(b)
    BY <2>4 DEF BootstrapEnds
  <2>5. CASE SessionCloses(b)
    BY <2>5 DEF SessionCloses
  <2> QED BY <1>2, <2>1, <2>2, <2>3, <2>4, <2>5 DEF BootStep
<1>3. CASE BeginClose
  BY <1>3 DEF BeginClose
<1>4. CASE CloseEnds
  BY <1>4 DEF CloseEnds
<1>5. CASE UNCHANGED vars
  BY <1>5 DEF vars
<1>6. CASE CutClose
  BY <1>6 DEF CutClose, Bootstrapping
<1> QED BY <1>1, <1>2, <1>3, <1>4, <1>5, <1>6 DEF Next

(* Every way into and out of a wait keeps the count.                       *)
LEMMA CountedStep ==
  ASSUME IInv, [Next]_vars
  PROVE  Counted' /\ AbortedAlone'
<1> USE DEF Counted, AbortedAlone, stateVars, bootVars, callerVars
<1> TypeOK /\ Links /\ Counted /\ AbortedAlone BY DEF IInv
<1>1. ASSUME NEW c \in Callers, CallerStep(c) PROVE Counted' /\ AbortedAlone'
  <2>1. CASE Refuse(c)
    BY <2>1, WaitersKept DEF Refuse, Goto, Return
  <2>2. CASE UseSession(c)
    BY <2>2, WaitersKept DEF UseSession, Ask, Goto
  <2>3. CASE JoinBootstrap(c)
    <3>1. waiters + 1 = Cardinality(Waiters(stage', on', pending))
      BY <2>3, WaiterJoins DEF JoinBootstrap, Ask, Goto
    <3>2. waiters \in Nat
      BY PeerAssumption, FS_CardinalityType DEF TypeOK
    <3>3. pending' = pending /\ waiters' = waiters + 1 /\ aborted' = aborted /\ pending # 0
      BY <2>3 DEF JoinBootstrap
    <3> QED BY <3>1, <3>2, <3>3
  <2>4. CASE BeginBootstrap(c)
    <3> PICK b \in Ids : /\ boot[b] = "unused" /\ pending' = b
                         /\ stage' = [stage EXCEPT ![c] = "wait"] /\ on' = [on EXCEPT ![c] = b]
      BY <2>4 DEF BeginBootstrap, Ask, Goto
    <3>1. Waiters(stage, on, b) = {}
      BY DEF Waiters, Links
    <3>2. Cardinality(Waiters(stage', on', b)) = Cardinality(Waiters(stage, on, b)) + 1
      BY <2>4, WaiterJoins DEF BeginBootstrap
    <3>3. Cardinality(Waiters(stage, on, b)) = 0
      BY <3>1, FS_EmptySet
    <3> QED BY <2>4, <3>2, <3>3 DEF BeginBootstrap
  <2>5. CASE CancelWait(c)
    BY <2>5, LeaveCounted
  <2>6. CASE CancelCall(c)
    BY <2>6, WaitersKept DEF CancelCall, Goto
  <2>7. CASE Woken(c)
    BY <2>7, LeaveCounted
  <2>8. CASE Answered(c)
    BY <2>8, WaitersKept DEF Answered, Goto, Return
  <2>9. CASE CallFails(c)
    BY <2>9, Dropping, WaitersKept DEF CallFails
  <2>10. CASE Settles(c)
    BY <2>10, WaitersKept DEF Settles, Goto, Return
  <2>11. CASE DoesNotSettle(c)
    BY <2>11, Dropping, WaitersKept DEF DoesNotSettle
  <2>12. CASE Dropped(c)
    BY <2>12, WaitersKept DEF Dropped, Goto, Return
  <2>13. CASE CutDrop(c)
    BY <2>13, Cutting, WaitersKept
  <2> QED BY <1>1, <2>1, <2>2, <2>3, <2>4, <2>5, <2>6, <2>7, <2>8, <2>9, <2>10, <2>11, <2>12, <2>13
          DEF CallerStep, CallerProgress
<1>2. ASSUME NEW b \in Ids, BootStep(b) PROVE Counted' /\ AbortedAlone'
  <2>1. CASE ConnectorStarts(b)
    BY <2>1 DEF ConnectorStarts
  <2>2. CASE Verified(b)
    BY <2>2 DEF Verified
  <2>3. CASE BootstrapFails(b)
    BY <2>3 DEF BootstrapFails
  <2>4. CASE BootstrapEnds(b)
    BY <2>4 DEF BootstrapEnds
  <2>5. CASE SessionCloses(b)
    BY <2>5 DEF SessionCloses
  <2> QED BY <1>2, <2>1, <2>2, <2>3, <2>4, <2>5 DEF BootStep
<1>3. CASE BeginClose
  BY <1>3 DEF BeginClose
<1>4. CASE CloseEnds
  BY <1>4 DEF CloseEnds
<1>5. CASE UNCHANGED vars
  BY <1>5 DEF vars
<1>6. CASE CutClose
  BY <1>6 DEF CutClose, Bootstrapping
<1> QED BY <1>1, <1>2, <1>3, <1>4, <1>5, <1>6 DEF Next

(* Whoever lets go of a Connector hands it to somebody, or was cut.        *)
LEMMA OwnedStep ==
  ASSUME IInv, [Next]_vars
  PROVE  ConnectorsOwned'
<1> USE IdsFacts DEF ConnectorsOwned, Bootstrapping, Links, TypeOK, IsOpen, stateVars, bootVars, callerVars
<1> TypeOK /\ Links /\ OneInUse /\ ConnectorsOwned BY DEF IInv
<1>1. ASSUME NEW c \in Callers, CallerStep(c) PROVE ConnectorsOwned'
  <2>1. CASE Refuse(c)
    BY <2>1 DEF Refuse, Goto, Return
  <2>2. CASE UseSession(c)
    BY <2>2 DEF UseSession, Ask, Goto
  <2>3. CASE JoinBootstrap(c)
    BY <2>3 DEF JoinBootstrap, Ask, Goto
  <2>4. CASE BeginBootstrap(c)
    BY <2>4 DEF BeginBootstrap, Ask, Goto
  <2>5. CASE CancelWait(c)
    BY <2>5, WaitEnds
  <2>6. CASE CancelCall(c)
    BY <2>6 DEF CancelCall, Goto
  <2>7. CASE Woken(c)
    BY <2>7, WaitEnds
  <2>8. CASE Answered(c)
    BY <2>8 DEF Answered, Goto, Return
  <2>9. CASE CallFails(c)
    BY <2>9, Dropping DEF CallFails
  <2>10. CASE Settles(c)
    BY <2>10 DEF Settles, Goto, Return
  <2>11. CASE DoesNotSettle(c)
    BY <2>11, Dropping DEF DoesNotSettle
  <2>12. CASE Dropped(c)
    BY <2>12 DEF Dropped, Goto, Return
  <2>13. CASE CutDrop(c)
    BY <2>13, Cutting
  <2> QED BY <1>1, <2>1, <2>2, <2>3, <2>4, <2>5, <2>6, <2>7, <2>8, <2>9, <2>10, <2>11, <2>12, <2>13
          DEF CallerStep, CallerProgress
<1>2. ASSUME NEW b \in Ids, BootStep(b) PROVE ConnectorsOwned'
  <2>1. CASE ConnectorStarts(b)
    BY <2>1 DEF ConnectorStarts
  <2>2. CASE Verified(b)
    BY <2>2 DEF Verified, OneInUse, InUse
  <2>3. CASE BootstrapFails(b)
    BY <2>3 DEF BootstrapFails
  <2>4. CASE BootstrapEnds(b)
    BY <2>4 DEF BootstrapEnds
  <2>5. CASE SessionCloses(b)
    BY <2>5 DEF SessionCloses
  <2> QED BY <1>2, <2>1, <2>2, <2>3, <2>4, <2>5 DEF BootStep
<1>3. CASE BeginClose
  BY <1>3 DEF BeginClose
<1>4. CASE CloseEnds
  BY <1>4 DEF CloseEnds
<1>5. CASE UNCHANGED vars
  BY <1>5 DEF vars
<1>6. CASE CutClose
  BY <1>6 DEF CutClose, Bootstrapping
<1> QED BY <1>1, <1>2, <1>3, <1>4, <1>5, <1>6 DEF Next

-----------------------------------------------------------------------------
LEMMA Initially == Init => IInv
<1> SUFFICES ASSUME Init PROVE IInv
  OBVIOUS
<1>1. TypeOK
  BY PeerAssumption, FS_CardinalityType DEF Init, TypeOK, Open
<1> QED BY <1>1, IdsFacts DEF Init, IInv, Links, OneInUse, InUse, Counted, AbortedAlone,
        ConnectorsOwned, Bootstrapping, IsOpen, Open

(* The inductive invariant holds of every behaviour.                       *)
THEOREM Inductive == Spec => []IInv
<1>1. IInv /\ [Next]_vars => IInv'
  BY TypeStep, LinksStep, OneInUseStep, CountedStep, OwnedStep DEF IInv
<1> QED BY <1>1, Initially, PTL DEF Spec

(* Every variable of peer-runtime.ts keeps its type; the count of waiters  *)
(* is never negative and never above the number of callers.                *)
THEOREM TypeCorrect == Spec => []TypeOK
<1>1. IInv => TypeOK
  BY DEF IInv
<1> QED BY <1>1, Inductive, PTL

(* pending's count is the number of callers that wait for it, and a        *)
(* bootstrap without any is aborted.                                       *)
THEOREM WaitersAlwaysCounted == Spec => []WaitersCounted
<1>1. IInv => WaitersCounted
  BY DEF IInv, Counted, AbortedAlone, WaitersCounted, Waiters
<1> QED BY <1>1, Inductive, PTL

(* Every Connector has somebody who closes it, but for one whose closing   *)
(* by a call or by close was cut (dropEffect and closeEffect, closeScope): *)
(* that is a session that was published, never a bootstrap.                *)
THEOREM ConnectorsAlwaysOwned == Spec => []ConnectorsOwned
<1>1. IInv => ConnectorsOwned
  BY DEF IInv
<1> QED BY <1>1, Inductive, PTL

(* No second Connector comes up while one comes up, is used or undone.     *)
THEOREM OneConnectorAlways == Spec => []OneConnector
<1>1. IInv => OneConnector
  <2> SUFFICES ASSUME IInv PROVE OneConnector
    OBVIOUS
  <2> DEFINE Used == Bootstrapping \cup {b \in Ids : boot[b] = "open"}
  <2>1. \A a, b \in Used : a = b
    BY DEF IInv, OneInUse, InUse, Bootstrapping
  <2>2. Cardinality(Used) <= 1
    <3> HIDE DEF Used
    <3>1. CASE Used = {}
      BY <3>1, FS_EmptySet
    <3>2. CASE Used # {}
      <4> PICK b : b \in Used
        BY <3>2
      <4>1. Used = {b}
        BY <2>1
      <4>2. Cardinality({b}) = 1
        BY FS_Singleton
      <4> QED BY <4>1, <4>2
    <3> QED BY <3>1, <3>2
  <2> QED BY <2>2 DEF OneConnector
<1> QED BY <1>1, Inductive, PTL

(* A session is only taken away by close or by a call that used it.        *)
LEMMA SessionStep ==
  ASSUME IInv, [Next]_vars
  PROVE  \/ session = 0 \/ session' = session \/ closing' # closing
         \/ \E c \in Callers : on[c] = session /\ stage[c] \in {"call", "settle"} /\ stage'[c] = "drop"
<1> DEFINE Kept ==
      \/ session = 0 \/ session' = session \/ closing' # closing
      \/ \E c \in Callers : on[c] = session /\ stage[c] \in {"call", "settle"} /\ stage'[c] = "drop"
<1> SUFFICES Kept OBVIOUS
<1> USE DEF TypeOK, stateVars, bootVars, callerVars
<1> TypeOK /\ Links BY DEF IInv
<1>1. ASSUME NEW c \in Callers, CallerStep(c) PROVE Kept
  <2>1. CASE Refuse(c)
    BY <2>1 DEF Refuse, Goto, Return
  <2>2. CASE UseSession(c)
    BY <2>2 DEF UseSession, Ask, Goto
  <2>3. CASE JoinBootstrap(c)
    BY <2>3 DEF JoinBootstrap, Ask, Goto
  <2>4. CASE BeginBootstrap(c)
    BY <2>4 DEF BeginBootstrap, Ask, Goto
  <2>5. CASE CancelWait(c)
    BY <2>5, WaitEnds
  <2>6. CASE CancelCall(c)
    BY <2>6 DEF CancelCall, Goto
  <2>7. CASE Woken(c)
    BY <2>7, WaitEnds
  <2>8. CASE Answered(c)
    BY <2>8 DEF Answered, Goto, Return
  <2>9. CASE CallFails(c)
    BY <2>9, Dropping DEF CallFails
  <2>10. CASE Settles(c)
    BY <2>10 DEF Settles, Goto, Return
  <2>11. CASE DoesNotSettle(c)
    BY <2>11, Dropping DEF DoesNotSettle
  <2>12. CASE Dropped(c)
    BY <2>12 DEF Dropped, Goto, Return
  <2>13. CASE CutDrop(c)
    BY <2>13, Cutting
  <2> QED BY <1>1, <2>1, <2>2, <2>3, <2>4, <2>5, <2>6, <2>7, <2>8, <2>9, <2>10, <2>11, <2>12, <2>13
          DEF CallerStep, CallerProgress
<1>2. ASSUME NEW b \in Ids, BootStep(b) PROVE Kept
  <2>1. CASE ConnectorStarts(b)
    BY <2>1 DEF ConnectorStarts
  <2>2. CASE Verified(b)
    BY <2>2, IdsFacts DEF Verified, Links
  <2>3. CASE BootstrapFails(b)
    BY <2>3 DEF BootstrapFails
  <2>4. CASE BootstrapEnds(b)
    BY <2>4 DEF BootstrapEnds
  <2>5. CASE SessionCloses(b)
    BY <2>5 DEF SessionCloses
  <2> QED BY <1>2, <2>1, <2>2, <2>3, <2>4, <2>5 DEF BootStep
<1>3. CASE BeginClose
  BY <1>3 DEF BeginClose, IsOpen
<1>4. CASE CloseEnds
  BY <1>4 DEF CloseEnds
<1>5. CASE UNCHANGED vars
  BY <1>5 DEF vars
<1>6. CASE CutClose
  BY <1>6 DEF CutClose, Bootstrapping
<1> QED BY <1>1, <1>2, <1>3, <1>4, <1>5, <1>6 DEF Next

(* A call of an earlier session never takes away the one that replaced it. *)
THEOREM OwnSessionsDropped == Spec => OwnSessionDropped
<1>1. IInv /\ [Next]_vars =>
        [session # 0 /\ session' # session =>
           \/ closing' # closing
           \/ \E c \in Callers : on[c] = session /\ stage[c] \in {"call", "settle"} /\ stage'[c] = "drop"]_vars
  BY SessionStep
<1> QED BY <1>1, Inductive, PTL DEF Spec, OwnSessionDropped
=============================================================================
