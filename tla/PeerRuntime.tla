---------------------------- MODULE PeerRuntime -----------------------------
(***************************************************************************)
(* peer-runtime.ts: the one session a local Node keeps with a Peer.  Calls *)
(* share a bootstrap, which starts a Connector, opens an MCP session over  *)
(* it and verifies the remote Node; the last caller to leave aborts it.  A *)
(* call that fails drops the session it used, and close ends everything.   *)
(*                                                                         *)
(* Steps are the code between two suspensions of its fibers.  A bootstrap  *)
(* and the session it ends in have one id, and one scope that owns the     *)
(* Connector.  The Connector and the remote Node are external: they come   *)
(* up, answer, fail, or say nothing until a timeout.                       *)
(***************************************************************************)
EXTENDS Integers, FiniteSets

CONSTANTS
  Callers,        (* fibers of listWorkspaces and ask                       *)
  MaxBootstraps   (* bound: how many bootstraps ever begin                  *)

ASSUME PeerAssumption == IsFiniteSet(Callers) /\ MaxBootstraps \in Nat \ {0}

VARIABLES
  session,   (* state.session, 0 if there is none                           *)
  pending,   (* state.pending's bootstrap, 0 if there is none               *)
  waiters,   (* state.pending's count                                       *)
  boot,      (* how far every bootstrap, or the session it became, is       *)
  aborted,   (* bootstraps whose controller is aborted                      *)
  outcome,   (* the deferred of every bootstrap                             *)
  stage,     (* where every caller is                                       *)
  on,        (* the bootstrap or session it uses                            *)
  result,    (* what its last request came to                               *)
  closing    (* the runtime: open, or what closeEffect undoes               *)

stateVars  == <<session, pending, waiters>>
bootVars   == <<boot, aborted, outcome>>
callerVars == <<stage, on, result>>
vars       == <<stateVars, bootVars, callerVars, closing>>

-----------------------------------------------------------------------------
Ids == 1 .. MaxBootstraps

Open   == [phase |-> "open", waits |-> {}]
IsOpen == closing.phase = "open"

Bootstrapping == {b \in Ids : boot[b] \in {"starting", "opening", "failing", "aborting"}}

Init ==
  /\ session = 0 /\ pending = 0 /\ waiters = 0
  /\ boot = [b \in Ids |-> "unused"] /\ aborted = {} /\ outcome = [b \in Ids |-> "none"]
  /\ stage = [c \in Callers |-> "idle"] /\ on = [c \in Callers |-> 0]
  /\ result = [c \in Callers |-> "none"]
  /\ closing = Open

Goto(c, s, b) == stage' = [stage EXCEPT ![c] = s] /\ on' = [on EXCEPT ![c] = b]
Ask(c, s, b)  == Goto(c, s, b) /\ result' = [result EXCEPT ![c] = "none"]
Return(c, r)  == Goto(c, "idle", 0) /\ result' = [result EXCEPT ![c] = r]

-----------------------------------------------------------------------------
(* getSession: a closed runtime refuses, ...                               *)
Refuse(c) ==
  /\ stage[c] = "idle" /\ ~IsOpen
  /\ Return(c, "failed")
  /\ UNCHANGED <<stateVars, bootVars, closing>>

(* ... a session is used as it is, ...                                     *)
UseSession(c) ==
  /\ stage[c] = "idle" /\ session # 0
  /\ Ask(c, "call", session)
  /\ UNCHANGED <<stateVars, bootVars, closing>>

(* ... a bootstrap is joined, aborted or not, ...                          *)
JoinBootstrap(c) ==
  /\ stage[c] = "idle" /\ session = 0 /\ pending # 0
  /\ waiters' = waiters + 1
  /\ Ask(c, "wait", pending)
  /\ UNCHANGED <<session, pending, bootVars, closing>>

(* ... and otherwise one is begun.                                         *)
BeginBootstrap(c) ==
  /\ stage[c] = "idle" /\ IsOpen /\ session = 0 /\ pending = 0
  /\ \E b \in Ids :
       /\ boot[b] = "unused" /\ \A d \in 1 .. b - 1 : boot[d] # "unused"
       /\ boot' = [boot EXCEPT ![b] = "starting"]
       /\ pending' = b
       /\ Ask(c, "wait", b)
  /\ waiters' = 1
  /\ UNCHANGED <<session, aborted, outcome, closing>>

(* Fault: an aborted bootstrap is forgotten at once.                       *)
LeaveBootstrapForgotten(c) ==
  /\ waiters' = IF pending = on[c] THEN waiters - 1 ELSE waiters
  /\ pending' = IF pending = on[c] /\ waiters = 1 THEN 0 ELSE pending
  /\ aborted' = IF pending = on[c] /\ waiters = 1 THEN aborted \cup {pending} ELSE aborted

(* The ensuring of a wait: the last waiter aborts the bootstrap it leaves, *)
(* which stays the pending one until it has ended.                         *)
LeaveBootstrap(c) ==
  /\ waiters' = IF pending = on[c] THEN waiters - 1 ELSE waiters
  /\ UNCHANGED pending
  /\ aborted' = IF pending = on[c] /\ waiters = 1 /\ session = 0
                THEN aborted \cup {pending} ELSE aborted

(* A wait ends with the deferred.                                          *)
Woken(c) ==
  /\ stage[c] = "wait" /\ outcome[on[c]] # "none"
  /\ LeaveBootstrap(c)
  /\ IF outcome[on[c]] = "ready" THEN Goto(c, "call", on[c]) /\ UNCHANGED result
                                 ELSE Return(c, outcome[on[c]])
  /\ UNCHANGED <<session, boot, outcome, closing>>

(* A wait ends as its caller's signal or fiber is cancelled.               *)
CancelWait(c) ==
  /\ stage[c] = "wait"
  /\ LeaveBootstrap(c)
  /\ Return(c, "cancelled")
  /\ UNCHANGED <<session, boot, outcome, closing>>

-----------------------------------------------------------------------------
(* createSession.                                                          *)
ConnectorStarts(b) ==
  /\ boot[b] = "starting" /\ b \notin aborted
  /\ boot' = [boot EXCEPT ![b] = "opening"]
  /\ UNCHANGED <<stateVars, aborted, outcome, callerVars, closing>>

(* The remote Node is verified, and the session is published.              *)
Verified(b) ==
  /\ boot[b] = "opening" /\ b \notin aborted
  /\ pending = b /\ IsOpen /\ waiters > 0
  /\ session' = b /\ pending' = 0 /\ waiters' = 0
  /\ boot' = [boot EXCEPT ![b] = "open"]
  /\ outcome' = [outcome EXCEPT ![b] = "ready"]
  /\ UNCHANGED <<aborted, callerVars, closing>>

(* A step fails, times out or is aborted, and the scope begins to close.   *)
(* An aborted start fails with the abort; what the MCP client makes of one *)
(* is its own affair.                                                      *)
BootstrapFails(b) ==
  /\ boot[b] \in {"starting", "opening"}
  /\ \E cause \in {"failing", "aborting"} :
       /\ cause = "aborting" => b \in aborted
       /\ cause = "failing" => b \notin aborted \/ boot[b] = "opening"
       /\ boot' = [boot EXCEPT ![b] = cause]
  /\ UNCHANGED <<stateVars, aborted, outcome, callerVars, closing>>

(* Fault: a bootstrap that is no longer pending tells nobody that it ended.*)
BootstrapEndsSilently(b) ==
  /\ boot[b] \in {"failing", "aborting"}
  /\ boot' = [boot EXCEPT ![b] = "gone"]
  /\ outcome' = [outcome EXCEPT ![b] = IF pending = b THEN "failed" ELSE @]
  /\ pending' = IF pending = b THEN 0 ELSE pending
  /\ waiters' = IF pending = b THEN 0 ELSE waiters
  /\ UNCHANGED <<session, aborted, callerVars, closing>>

(* The scope is closed: only now another bootstrap may begin.              *)
BootstrapEnds(b) ==
  /\ boot[b] \in {"failing", "aborting"}
  /\ boot' = [boot EXCEPT ![b] = "gone"]
  /\ outcome' = [outcome EXCEPT ![b] = IF boot[b] = "failing" THEN "failed" ELSE "aborted"]
  /\ pending' = IF pending = b THEN 0 ELSE pending
  /\ waiters' = IF pending = b THEN 0 ELSE waiters
  /\ UNCHANGED <<session, aborted, callerVars, closing>>

-----------------------------------------------------------------------------
(* callEffect.  An answer, or an error of the remote Node that is passed   *)
(* on, leaves the session as it is.                                        *)
Answered(c) ==
  /\ stage[c] = "call" /\ boot[on[c]] = "open"
  /\ Return(c, "answered")
  /\ UNCHANGED <<stateVars, bootVars, closing>>

(* Fault: whatever session there is is dropped.                            *)
DropAny(c, r) ==
  IF session # 0
  THEN /\ session' = 0
       /\ boot' = [boot EXCEPT ![session] = "closing"]
       /\ Goto(c, "drop", session) /\ result' = [result EXCEPT ![c] = r]
  ELSE /\ Return(c, r)
       /\ UNCHANGED <<session, boot>>

(* Fault: the session that is dropped is not closed.                       *)
DropUnclosed(c, r) ==
  /\ session' = IF session = on[c] THEN 0 ELSE session
  /\ Return(c, r)
  /\ UNCHANGED boot

(* dropEffect: the caller closes its session if it is still the current    *)
(* one, and waits until it is closed.                                      *)
Drop(c, r) ==
  IF session = on[c]
  THEN /\ session' = 0
       /\ boot' = [boot EXCEPT ![on[c]] = "closing"]
       /\ Goto(c, "drop", on[c]) /\ result' = [result EXCEPT ![c] = r]
  ELSE /\ Return(c, r)
       /\ UNCHANGED <<session, boot>>

(* The call fails, times out or is answered with nonsense.                 *)
CallFails(c) ==
  /\ stage[c] = "call"
  /\ Drop(c, "failed")
  /\ UNCHANGED <<pending, waiters, aborted, outcome, closing>>

(* It is cancelled, and its request is given six seconds to settle.        *)
CancelCall(c) ==
  /\ stage[c] = "call"
  /\ Goto(c, "settle", on[c])
  /\ UNCHANGED <<stateVars, bootVars, result, closing>>

Settles(c) ==
  /\ stage[c] = "settle"
  /\ Return(c, "cancelled")
  /\ UNCHANGED <<stateVars, bootVars, closing>>

DoesNotSettle(c) ==
  /\ stage[c] = "settle"
  /\ Drop(c, "cancelled")
  /\ UNCHANGED <<pending, waiters, aborted, outcome, closing>>

SessionCloses(b) ==
  /\ boot[b] = "closing"
  /\ boot' = [boot EXCEPT ![b] = "gone"]
  /\ UNCHANGED <<stateVars, aborted, outcome, callerVars, closing>>

Dropped(c) ==
  /\ stage[c] = "drop" /\ boot[on[c]] = "gone"
  /\ Return(c, result[c])
  /\ UNCHANGED <<stateVars, bootVars, closing>>

(* closeScope is cut by its timeout, or as its caller is interrupted: no   *)
(* more of the scope's finalizers run, and nobody else closes it.  Whether *)
(* the Connector had its SIGTERM by then is left open.                     *)
CutDrop(c) ==
  /\ stage[c] = "drop" /\ boot[on[c]] = "closing"
  /\ boot' = [boot EXCEPT ![on[c]] = "left"]
  /\ \E r \in {result[c], "cancelled"} : Return(c, r)
  /\ UNCHANGED <<stateVars, aborted, outcome, closing>>

-----------------------------------------------------------------------------
(* closeEffect: the session is closed, and the scope of the bootstraps,    *)
(* which interrupts the one that is under way.                             *)
BeginClose ==
  /\ IsOpen
  /\ closing' = [phase |-> "closing",
                 waits |-> Bootstrapping \cup (IF session = 0 THEN {} ELSE {session})]
  /\ session' = 0 /\ pending' = 0 /\ waiters' = 0
  /\ aborted' = IF pending = 0 THEN aborted ELSE aborted \cup {pending}
  /\ boot' = [b \in Ids |-> IF b = session THEN "closing"
                            ELSE IF boot[b] \in {"starting", "opening"} THEN "aborting" ELSE boot[b]]
  /\ UNCHANGED <<outcome, callerVars>>

CloseEnds ==
  /\ closing.phase = "closing"
  /\ \A b \in closing.waits : boot[b] = "gone"
  /\ closing' = [phase |-> "closed", waits |-> {}]
  /\ UNCHANGED <<stateVars, bootVars, callerVars>>

(* It is cut in the same ways.  A bootstrap's fiber undoes it all the same.*)
CutClose ==
  /\ closing.phase = "closing"
  /\ closing' = [phase |-> "closed", waits |-> closing.waits \cap Bootstrapping]
  /\ boot' = [b \in Ids |-> IF b \in closing.waits /\ boot[b] = "closing" THEN "left" ELSE boot[b]]
  /\ UNCHANGED <<stateVars, aborted, outcome, callerVars>>

-----------------------------------------------------------------------------
CallerProgress(c) ==
  \/ Woken(c) \/ Answered(c) \/ CallFails(c) \/ Settles(c) \/ DoesNotSettle(c) \/ Dropped(c)

CallerStep(c) ==
  \/ Refuse(c) \/ UseSession(c) \/ JoinBootstrap(c) \/ BeginBootstrap(c)
  \/ CancelWait(c) \/ CancelCall(c) \/ CutDrop(c)
  \/ CallerProgress(c)

BootStep(b) ==
  ConnectorStarts(b) \/ Verified(b) \/ BootstrapFails(b) \/ BootstrapEnds(b) \/ SessionCloses(b)

Next ==
  \/ \E c \in Callers : CallerStep(c)
  \/ \E b \in Ids : BootStep(b)
  \/ BeginClose \/ CloseEnds \/ CutClose

Spec == Init /\ [][Next]_vars

(* Every step of a bootstrap, a call and its settlement has a timeout, a   *)
(* scope closes, and woken fibers run.  Nobody has to ask, to cancel, to   *)
(* close or to be cut.                                                     *)
FairSpec ==
  /\ Spec
  /\ \A c \in Callers : WF_vars(CallerProgress(c))
  /\ \A b \in Ids : WF_vars(BootStep(b))
  /\ WF_vars(CloseEnds)

-----------------------------------------------------------------------------
TypeOK ==
  /\ session \in Ids \cup {0} /\ pending \in Ids \cup {0}
  /\ waiters \in 0 .. Cardinality(Callers)
  /\ boot \in [Ids -> {"unused", "starting", "opening", "open", "failing", "aborting", "closing",
                       "gone", "left"}]
  /\ aborted \subseteq Ids
  /\ outcome \in [Ids -> {"none", "ready", "failed", "aborted"}]
  /\ stage \in [Callers -> {"idle", "wait", "call", "settle", "drop"}]
  /\ on \in [Callers -> Ids \cup {0}]
  /\ result \in [Callers -> {"none", "answered", "failed", "aborted", "cancelled"}]
  /\ closing \in [phase : {"open", "closing", "closed"}, waits : SUBSET Ids]

(* The count decides who aborts a bootstrap: it is the number of callers   *)
(* that wait for the pending one, and without any it is aborted.           *)
WaitersCounted ==
  pending # 0 => /\ waiters = Cardinality({c \in Callers : stage[c] = "wait" /\ on[c] = pending})
                 /\ waiters = 0 => pending \in aborted

(* A Peer link has one Connector: no second one is started while one is    *)
(* coming up, is used or is being undone.  (One that was dropped may still *)
(* be closing, or have been left.)                                         *)
OneConnector == Cardinality(Bootstrapping \cup {b \in Ids : boot[b] = "open"}) <= 1

(* What is open is the session, what is coming up or being undone is the   *)
(* pending bootstrap or one that close has interrupted, and what is closing*)
(* is awaited by close or by the call that dropped it.  Only a session that*)
(* was published and is no longer used is ever left to nobody, as the call *)
(* or the close that closes it is cut; a bootstrap never is.               *)
ConnectorsOwned ==
  /\ \A b \in Ids : boot[b] = "open" => session = b
  /\ \A b \in Bootstrapping : pending = b \/ b \in closing.waits
  /\ \A b \in Ids : boot[b] = "closing" =>
       \/ b \in closing.waits
       \/ \E c \in Callers : stage[c] = "drop" /\ on[c] = b
  /\ \A b \in Ids : boot[b] = "left" => outcome[b] = "ready" /\ session # b

(* A call of an earlier session that fails late leaves the session that    *)
(* replaced it to those who use it.                                        *)
OwnSessionDropped ==
  [][session # 0 /\ session' # session =>
       \/ closing' # closing
       \/ \E c \in Callers : on[c] = session /\ stage[c] \in {"call", "settle"} /\ stage'[c] = "drop"]_vars

(* Every request comes to an end, also one that waits for a bootstrap      *)
(* others abandon or close cuts short; and so does a close.                *)
RequestsEnd ==
  /\ \A c \in Callers : stage[c] # "idle" ~> stage[c] = "idle"
  /\ closing.phase = "closing" ~> closing.phase = "closed"

=============================================================================
