------------------------- MODULE RuntimeCoordinator -------------------------
(***************************************************************************)
(* Desired-state reconciliation of one Node: the config and its tombstones *)
(* on disk, the CLI that edits them, the asks that coordinator.ts admits,  *)
(* the reload fiber of server.ts, and the Runtime Session bindings.        *)
(*                                                                         *)
(* The Runtime pool is the abstraction RuntimePool.tla justifies: one      *)
(* backend per Runtime Session, whose creation outlives the ask that began *)
(* it, and a disposal that leaves nothing of its scope.  The transport is  *)
(* external: it lets in the peers whose keys it was last started with.     *)
(*                                                                         *)
(* An admission is one step: it holds the coordinator's gate and the       *)
(* config lock from its first read to its lease.  An admission that is     *)
(* refused changes nothing.                                                *)
(***************************************************************************)
EXTENDS Integers, FiniteSets

CONSTANTS
  Peers,        (* remote Peer credential ids                               *)
  Workspaces,   (* Workspace ids                                            *)
  Backends,     (* Runtime configurations: config.runtime                   *)
  Asks,         (* fibers of RuntimeCoordinator.answer                      *)
  FirstPeers,   (* the peers of the config a run starts with                *)
  FirstSpaces,  (* its workspaces                                           *)
  MaxRotation,  (* bound: the highest version a credential is rotated to    *)
  Cuts,         (* bound: which of the two unguarded points of an ask an    *)
                (* interrupt may hit                                        *)
  None

ASSUME CoordinatorAssumption ==
  /\ FirstPeers \subseteq Peers /\ FirstSpaces \subseteq Workspaces
  /\ Peers \cap Workspaces = {} /\ Backends # {} /\ None \notin Nat
  /\ MaxRotation \in Nat \ {0}
  /\ Cuts \subseteq {"admitted", "writing"}

VARIABLES
  config,      (* config.json                                               *)
  tombstones,  (* tombstones.json: revoked peers and removed workspaces     *)
  edit,        (* the id a CLI is removing, between its two writes          *)
  ack,         (* node-reload.json: the config last acknowledged            *)
  bindings,    (* runtime-sessions/: the session of a peer and workspace    *)
  created,     (* how many session ids were drawn for them                  *)
  node,        (* the life of the Node's process                            *)
  allowed,     (* the credential versions the transport was started with    *)
  desired,     (* state.desired                                             *)
  current,     (* the Ref the session factory reads                         *)
  blocked,     (* state.blockedPeers and state.blockedWorkspaces            *)
  reload,      (* the reload fiber                                          *)
  waiting,     (* leases a reconciliation or close waits for                *)
  pc,          (* where an ask's fiber stands                               *)
  ask,         (* what it asks, as whom, in which session                   *)
  aborted,     (* its lease's controller was aborted                        *)
  starting,    (* sessions whose backend is being created                   *)
  running,     (* backends                                                  *)
  late,        (* binding writes that outlived their ask                    *)
  revived      (* bindings that such a write brought back after a purge     *)

diskVars  == <<config, tombstones, edit>>
stateVars == <<bindings, created, revived>>
nodeVars  == <<node, allowed, desired, current, blocked, reload>>
askVars   == <<pc, ask, aborted>>
poolVars  == <<starting, running>>
vars == <<diskVars, ack, stateVars, nodeVars, waiting, askVars, poolVars, late>>

-----------------------------------------------------------------------------
Keys == Peers \X Workspaces

(* Credential version 0 means "not in the config".                         *)
Configs == [creds : [Peers -> 0 .. MaxRotation], spaces : SUBSET Workspaces,
            runtime : Backends]

Nobody == [p \in Peers |-> 0]

(* readEffective: the config without what is tombstoned.                   *)
Effective ==
  [creds |-> [p \in Peers |-> IF p \in tombstones THEN 0 ELSE config.creds[p]],
   spaces |-> config.spaces \ tombstones,
   runtime |-> config.runtime]

PeerIds(c) == {p \in Peers : c.creds[p] # 0}

Serves(c, key) == c.creds[key[1]] # 0 /\ key[2] \in c.spaces

(* Fault: a rotated credential is taken for an unchanged one.              *)
AffectedUnlessRotated(old, new) ==
  IF old.runtime # new.runtime
  THEN PeerIds(old) \cup old.spaces
  ELSE (PeerIds(old) \ PeerIds(new)) \cup (old.spaces \ new.spaces)

(* removedOrChangedPeers and removedOrChangedWorkspaces; a workspace's     *)
(* root never changes.  Another runtime affects everything.                *)
Affected(old, new) ==
  IF old.runtime # new.runtime
  THEN PeerIds(old) \cup old.spaces
  ELSE {p \in PeerIds(old) : old.creds[p] # new.creds[p]} \cup (old.spaces \ new.spaces)

InScope(key, ids) == key[1] \in ids \/ key[2] \in ids

(* A session is named by its key and by the number of its id.              *)
KeyOf(session) == <<session[1], session[2]>>

ReloadStages == {"idle", "block", "dispose", "list", "remove", "unblock",
                 "transport", "publish", "acknowledge"}
NoReload == [stage |-> "idle", next |-> None, ids |-> {}, doomed |-> {}]

WorkPcs  == {"admitted", "asking", "reading", "writing"}
LeasePcs == WorkPcs \cup {"leaving", "leaked"}
NoAsk == [key |-> None, cred |-> 0, session |-> None]

Leases == {a \in Asks : pc[a] \in LeasePcs}

(* The coordinator's work for the ask is still going on.                   *)
InFlight(a) == pc[a] \in WorkPcs

Init ==
  /\ config = [creds |-> [p \in Peers |-> IF p \in FirstPeers THEN 1 ELSE 0],
               spaces |-> FirstSpaces,
               runtime |-> CHOOSE b \in Backends : TRUE]
  /\ tombstones = {} /\ edit = None
  /\ ack = None
  /\ bindings = [key \in Keys |-> None] /\ created = [key \in Keys |-> 0] /\ revived = {}
  /\ node = "down" /\ allowed = Nobody
  /\ desired = config /\ current = config
  /\ blocked = {} /\ reload = NoReload /\ waiting = {}
  /\ pc = [a \in Asks |-> "idle"]
  /\ ask = [a \in Asks |-> NoAsk]
  /\ aborted = [a \in Asks |-> FALSE]
  /\ starting = {} /\ running = {} /\ late = {}

-----------------------------------------------------------------------------
(* The CLI, under the config lock.                                         *)
Edits ==
  /\ edit = None
  /\ UNCHANGED <<ack, stateVars, nodeVars, waiting, askVars, poolVars, late>>

AddAgent(p) ==
  /\ Edits
  /\ p \notin tombstones /\ config.creds[p] = 0
  /\ config' = [config EXCEPT !.creds[p] = 1]
  /\ UNCHANGED <<tombstones, edit>>

RotateAgent(p) ==
  /\ Edits
  /\ p \notin tombstones /\ config.creds[p] \in 1 .. MaxRotation - 1
  /\ config' = [config EXCEPT !.creds[p] = @ + 1]
  /\ UNCHANGED <<tombstones, edit>>

AddWorkspace(w) ==
  /\ Edits
  /\ w \notin tombstones \cup config.spaces
  /\ config' = [config EXCEPT !.spaces = @ \cup {w}]
  /\ UNCHANGED <<tombstones, edit>>

SetRuntime(b) ==
  /\ Edits
  /\ b # config.runtime
  /\ config' = [config EXCEPT !.runtime = b]
  /\ UNCHANGED <<tombstones, edit>>

Without(c, id) == [c EXCEPT !.creds = [p \in Peers |-> IF p = id THEN 0 ELSE @[p]],
                            !.spaces = @ \ {id}]

(* Fault: the config is written before the tombstone.                      *)
BeginRemovalConfigFirst(id) ==
  /\ Edits
  /\ id \in PeerIds(config) \cup config.spaces
  /\ config' = Without(config, id)
  /\ edit' = id
  /\ UNCHANGED tombstones

(* revokeAgent and removeWorkspace write the tombstone, then the config.   *)
BeginRemoval(id) ==
  /\ Edits
  /\ id \in PeerIds(config) \cup config.spaces
  /\ tombstones' = tombstones \cup {id}
  /\ edit' = id
  /\ UNCHANGED config

EndRemoval ==
  /\ edit # None
  /\ tombstones' = tombstones \cup {edit}
  /\ config' = Without(config, edit)
  /\ edit' = None
  /\ UNCHANGED <<ack, stateVars, nodeVars, waiting, askVars, poolVars, late>>

(* The CLI dies between its writes; the config lock is recovered.          *)
CliCrashes ==
  /\ edit # None
  /\ edit' = None
  /\ UNCHANGED <<config, tombstones, ack, stateVars, nodeVars, waiting, askVars, poolVars, late>>

-----------------------------------------------------------------------------
(* Fault: a blocked scope is admitted.                                     *)
AdmissibleBlocked(key) ==
  /\ node = "up" /\ edit = None
  /\ Serves(Effective, key)
  /\ allowed[key[1]] = Effective.creds[key[1]]

(* answer.                                                                 *)
Admissible(key) ==
  /\ node = "up" /\ edit = None
  /\ ~InScope(key, blocked)
  /\ Serves(Effective, key)
  /\ allowed[key[1]] = Effective.creds[key[1]]

(* getOrCreate, then the lease.                                            *)
Admit(a, key) ==
  /\ pc[a] = "idle" /\ Admissible(key)
  /\ IF bindings[key] # None
     THEN UNCHANGED stateVars
     ELSE /\ created' = [created EXCEPT ![key] = @ + 1]
          /\ bindings' = [bindings EXCEPT ![key] = created[key] + 1]
          /\ UNCHANGED revived
  /\ pc' = [pc EXCEPT ![a] = "admitted"]
  /\ ask' = [ask EXCEPT ![a] = [key |-> key, cred |-> Effective.creds[key[1]],
                                session |-> <<key[1], key[2], bindings'[key]>>]]
  /\ aborted' = [aborted EXCEPT ![a] = FALSE]
  /\ UNCHANGED <<diskVars, ack, nodeVars, waiting, poolVars, late>>

Move(a, from, to) == pc[a] = from /\ pc' = [pc EXCEPT ![a] = to]

(* The config lock and the gate are released, and Effect.ensuring is set.  *)
Proceed(a) ==
  /\ Move(a, "admitted", "asking")
  /\ UNCHANGED <<diskVars, ack, stateVars, nodeVars, waiting, ask, aborted, poolVars, late>>

RunningSessions == {b.session : b \in running}

(* The pool: the ask begins the creation of a backend, or uses the one its *)
(* session has.                                                            *)
StartBackend(a) ==
  /\ pc[a] = "asking" /\ ~aborted[a]
  /\ ask[a].session \notin starting \cup RunningSessions
  /\ starting' = starting \cup {ask[a].session}
  /\ UNCHANGED <<diskVars, ack, stateVars, nodeVars, waiting, askVars, running, late>>

(* The session factory reads current when the creation runs.               *)
CreateSession(s) ==
  /\ s \in starting
  /\ starting' = starting \ {s}
  /\ \/ running' = running \cup {[session |-> s, runtime |-> current.runtime]}
     \/ UNCHANGED running
  /\ UNCHANGED <<diskVars, ack, stateVars, nodeVars, waiting, askVars, late>>

Answered(a) ==
  /\ ~aborted[a] /\ ask[a].session \in RunningSessions
  /\ Move(a, "asking", "reading")
  /\ UNCHANGED <<diskVars, ack, stateVars, nodeVars, waiting, ask, aborted, poolVars, late>>

(* A backend nobody uses is swept, evicted or found dead.                  *)
DropBackend(b) ==
  /\ b \in running
  /\ \A a \in Asks : pc[a] = "asking" => ask[a].session # b.session
  /\ running' = running \ {b}
  /\ UNCHANGED <<diskVars, ack, stateVars, nodeVars, waiting, askVars, starting, late>>

(* Fault: the lease leaves the map without being settled.                  *)
EndUnsettled(a) ==
  /\ pc' = [pc EXCEPT ![a] = "leaving"]
  /\ UNCHANGED <<diskVars, ack, nodeVars, waiting, ask, aborted, poolVars>>

(* Effect.ensuring settles the lease, then takes it out of the map.        *)
End(a) ==
  /\ pc' = [pc EXCEPT ![a] = "leaving"]
  /\ waiting' = waiting \ {a}
  /\ UNCHANGED <<diskVars, ack, nodeVars, ask, aborted, poolVars>>

AskFails(a) ==
  /\ pc[a] = "asking"
  /\ End(a)
  /\ UNCHANGED <<stateVars, late>>

(* touch reads the binding, compares its id and writes it.                 *)
TouchReads(a) ==
  /\ Move(a, "reading", "writing")
  /\ bindings[ask[a].key] = ask[a].session[3]
  /\ UNCHANGED <<diskVars, ack, stateVars, nodeVars, waiting, ask, aborted, poolVars, late>>

(* It fails: another id, no binding, or a file that cannot be read or      *)
(* written.  The write is a rename at its end, so nothing is half written. *)
TouchFails(a) ==
  /\ pc[a] \in {"reading", "writing"}
  /\ End(a)
  /\ UNCHANGED <<stateVars, late>>

TouchWrites(a) ==
  /\ pc[a] = "writing"
  /\ bindings' = [bindings EXCEPT ![ask[a].key] = ask[a].session[3]]
  /\ End(a)
  /\ UNCHANGED <<created, revived, late>>

(* The MCP request is cancelled, cut off or closed with its credential:    *)
(* the fiber is interrupted where it stands.  Before Effect.ensuring is    *)
(* set, nobody settles the lease.  A write under way is not stopped.       *)
InterruptAdmitted(a) ==
  /\ "admitted" \in Cuts
  /\ Move(a, "admitted", "leaked")
  /\ UNCHANGED <<diskVars, ack, stateVars, nodeVars, waiting, ask, aborted, poolVars, late>>

InterruptTouch(a) ==
  /\ pc[a] \in {"reading"} \cup (Cuts \cap {"writing"})
  /\ End(a)
  /\ late' = IF pc[a] = "writing" THEN late \cup {ask[a].session} ELSE late
  /\ UNCHANGED stateVars

LateWrite(s) ==
  /\ s \in late
  /\ late' = late \ {s}
  /\ bindings' = [bindings EXCEPT ![KeyOf(s)] = s[3]]
  /\ revived' = IF bindings[KeyOf(s)] = None THEN revived \cup {KeyOf(s)} ELSE revived
  /\ UNCHANGED <<diskVars, ack, created, nodeVars, waiting, askVars, poolVars>>

Leave(a) ==
  /\ Move(a, "leaving", "idle")
  /\ ask' = [ask EXCEPT ![a] = NoAsk]
  /\ aborted' = [aborted EXCEPT ![a] = FALSE]
  /\ UNCHANGED <<diskVars, ack, stateVars, nodeVars, waiting, poolVars, late>>

-----------------------------------------------------------------------------
(* The reload fiber.                                                       *)
At(stage) == node = "up" /\ reload.stage = stage
Step(stage) == reload' = [reload EXCEPT !.stage = stage]

ReadConfig ==
  /\ At("idle") /\ Effective # current
  /\ reload' = [NoReload EXCEPT !.stage = "block", !.next = Effective]
  /\ UNCHANGED <<diskVars, ack, stateVars, node, allowed, desired, current, blocked,
                 waiting, askVars, poolVars, late>>

(* One gate section: the leases of the affected scopes are aborted and     *)
(* their scopes blocked.                                                   *)
Block ==
  /\ At("block")
  /\ LET ids == Affected(desired, reload.next)
         active == {a \in Leases : InScope(ask[a].key, ids)}
     IN  /\ reload' = [reload EXCEPT !.stage = "dispose", !.ids = ids]
         /\ blocked' = blocked \cup ids
         /\ aborted' = [a \in Asks |-> aborted[a] \/ a \in active]
         /\ waiting' = {a \in active : pc[a] # "leaving"}
  /\ UNCHANGED <<diskVars, ack, stateVars, node, allowed, desired, current, pc, ask,
                 poolVars, late>>

Outside(ids) ==
  /\ starting' = {s \in starting : ~InScope(KeyOf(s), ids)}
  /\ running' = {b \in running : ~InScope(KeyOf(b.session), ids)}

(* Fault: the leases are aborted and not waited for.                       *)
DisposeScopesAtOnce ==
  /\ At("dispose")
  /\ Outside(reload.ids)
  /\ Step("list")
  /\ UNCHANGED <<diskVars, ack, stateVars, node, allowed, desired, current, blocked,
                 waiting, askVars, late>>

(* Every lease has settled: disposePeer and disposeWorkspace, one by one.  *)
DisposeScopes ==
  /\ At("dispose") /\ waiting = {}
  /\ Outside(reload.ids)
  /\ Step("list")
  /\ UNCHANGED <<diskVars, ack, stateVars, node, allowed, desired, current, blocked,
                 waiting, askVars, late>>

Orphans(c) == {key \in Keys : bindings[key] # None /\ ~Serves(c, key)}

(* Fault: the bindings of every affected scope are purged.                 *)
ListAffected ==
  /\ At("list")
  /\ reload' = [reload EXCEPT !.stage = "remove",
                              !.doomed = {key \in Keys : InScope(key, reload.ids)}]
  /\ UNCHANGED <<diskVars, ack, stateVars, node, allowed, desired, current, blocked,
                 waiting, askVars, poolVars, late>>

(* purgeRemovedRuntimeSessions lists the bindings, then removes them.      *)
ListBindings ==
  /\ At("list")
  /\ reload' = [reload EXCEPT !.stage = "remove", !.doomed = Orphans(reload.next)]
  /\ UNCHANGED <<diskVars, ack, stateVars, node, allowed, desired, current, blocked,
                 waiting, askVars, poolVars, late>>

RemoveBindings ==
  /\ At("remove")
  /\ bindings' = [key \in Keys |-> IF key \in reload.doomed THEN None ELSE bindings[key]]
  /\ revived' = revived \ reload.doomed
  /\ Step("unblock")
  /\ UNCHANGED <<diskVars, ack, created, node, allowed, desired, current, blocked,
                 waiting, askVars, poolVars, late>>

Unblock ==
  /\ At("unblock")
  /\ desired' = reload.next
  /\ blocked' = blocked \ reload.ids
  /\ Step("transport")
  /\ UNCHANGED <<diskVars, ack, stateVars, node, allowed, current, waiting, askVars,
                 poolVars, late>>

ReloadTransport ==
  /\ At("transport")
  /\ allowed' = reload.next.creds
  /\ Step("publish")
  /\ UNCHANGED <<diskVars, ack, stateVars, node, desired, current, blocked, waiting, askVars,
                 poolVars, late>>

PublishCurrent ==
  /\ At("publish")
  /\ current' = reload.next
  /\ Step("acknowledge")
  /\ UNCHANGED <<diskVars, ack, stateVars, node, allowed, desired, blocked, waiting, askVars,
                 poolVars, late>>

Acknowledge ==
  /\ At("acknowledge")
  /\ ack' = reload.next
  /\ reload' = NoReload
  /\ UNCHANGED <<diskVars, stateVars, node, allowed, desired, current, blocked, waiting,
                 askVars, poolVars, late>>

-----------------------------------------------------------------------------
(* The Node's life: startup purges the bindings of removed scopes, starts  *)
(* the transport and acknowledges.                                         *)
StartNode ==
  /\ node = "down"
  /\ node' = "starting"
  /\ desired' = Effective /\ current' = Effective
  /\ bindings' = [key \in Keys |-> IF Serves(Effective, key) THEN bindings[key] ELSE None]
  /\ revived' = {key \in revived : Serves(Effective, key)}
  /\ UNCHANGED <<diskVars, ack, created, allowed, blocked, reload, waiting, askVars, poolVars,
                 late>>

Serve ==
  /\ node = "starting"
  /\ node' = "up"
  /\ allowed' = current.creds
  /\ ack' = current
  /\ UNCHANGED <<diskVars, stateVars, desired, current, blocked, reload, waiting, askVars,
                 poolVars, late>>

(* Everything in memory is gone; writes under way are lost.                *)
Stopped ==
  /\ node' = "down" /\ allowed' = Nobody
  /\ blocked' = {} /\ reload' = NoReload /\ waiting' = {}
  /\ pc' = [a \in Asks |-> "idle"]
  /\ ask' = [a \in Asks |-> NoAsk]
  /\ aborted' = [a \in Asks |-> FALSE]
  /\ starting' = {} /\ running' = {} /\ late' = {}
  /\ UNCHANGED <<diskVars, ack, stateVars, desired, current>>

NodeCrashes == node # "down" /\ Stopped

(* Shutdown interrupts the reload fiber where it stands and closes the     *)
(* coordinator: all leases are aborted and waited for.                     *)
Close ==
  /\ node = "up"
  /\ node' = "closing"
  /\ reload' = NoReload
  /\ aborted' = [a \in Asks |-> aborted[a] \/ a \in Leases]
  /\ waiting' = {a \in Leases : pc[a] # "leaving"}
  /\ UNCHANGED <<diskVars, ack, stateVars, allowed, desired, current, blocked, pc, ask,
                 poolVars, late>>

Closed == node = "closing" /\ waiting = {} /\ Stopped

-----------------------------------------------------------------------------
CliStep ==
  \/ \E p \in Peers : AddAgent(p) \/ RotateAgent(p)
  \/ \E w \in Workspaces : AddWorkspace(w)
  \/ \E b \in Backends : SetRuntime(b)
  \/ \E id \in Peers \cup Workspaces : BeginRemoval(id)
  \/ EndRemoval \/ CliCrashes

(* What an ask does without its caller.                                    *)
AskProgress(a) ==
  \/ Proceed(a) \/ StartBackend(a) \/ Answered(a) \/ AskFails(a)
  \/ TouchReads(a) \/ TouchFails(a) \/ TouchWrites(a) \/ Leave(a)

AskStep(a) ==
  \/ \E key \in Keys : Admit(a, key)
  \/ AskProgress(a)
  \/ InterruptAdmitted(a) \/ InterruptTouch(a)

PoolStep ==
  \/ \E s \in starting : CreateSession(s)
  \/ \E b \in running : DropBackend(b)
  \/ \E s \in late : LateWrite(s)

ReloadStep ==
  \/ ReadConfig \/ Block \/ DisposeScopes \/ ListBindings \/ RemoveBindings
  \/ Unblock \/ ReloadTransport \/ PublishCurrent \/ Acknowledge

NodeStep == StartNode \/ Serve \/ NodeCrashes \/ Close \/ Closed

Next ==
  \/ CliStep
  \/ \E a \in Asks : AskStep(a)
  \/ PoolStep \/ ReloadStep \/ NodeStep

Spec == Init /\ [][Next]_vars

(* The ask timeout ends every ask, the reload fiber polls and a shutdown   *)
(* goes on.                                                                *)
FairSpec ==
  /\ Spec
  /\ \A a \in Asks : WF_vars(AskProgress(a))
  /\ WF_vars(ReloadStep) /\ WF_vars(Serve) /\ WF_vars(Closed)

-----------------------------------------------------------------------------
Sessions == Keys \X Nat

TypeOK ==
  /\ config \in Configs /\ desired \in Configs /\ current \in Configs
  /\ ack \in Configs \cup {None}
  /\ tombstones \subseteq Peers \cup Workspaces
  /\ edit \in Peers \cup Workspaces \cup {None}
  /\ created \in [Keys -> Nat]
  /\ \A key \in Keys : bindings[key] \in 1 .. created[key] \cup {None}
  /\ node \in {"down", "starting", "up", "closing"}
  /\ allowed \in [Peers -> 0 .. MaxRotation]
  /\ blocked \subseteq Peers \cup Workspaces
  /\ reload \in [stage : ReloadStages, next : Configs \cup {None},
                 ids : SUBSET (Peers \cup Workspaces), doomed : SUBSET Keys]
  /\ waiting \subseteq {a \in Asks : InFlight(a) \/ pc[a] = "leaked"}
  /\ pc \in [Asks -> {"idle"} \cup LeasePcs] /\ revived \subseteq Keys
  /\ \A a \in Asks : ask[a].key \in Keys \cup {None}
  /\ aborted \in [Asks -> BOOLEAN]
  /\ \A s \in starting \cup RunningSessions \cup late :
       KeyOf(s) \in Keys /\ s[3] \in 1 .. created[KeyOf(s)]

(* What stands for a scope in memory: an ask's work or a backend.          *)
Active == {ask[a].key : a \in {b \in Asks : InFlight(b)}}
            \cup {KeyOf(s) : s \in starting \cup RunningSessions}

(* While the bindings of a retired scope are purged, nothing of that scope *)
(* is at work: no ask that could touch a binding, and no backend, also one *)
(* whose creation outlived its ask.                                        *)
ScopeQuiet ==
  reload.stage \in {"list", "remove", "unblock"} =>
    \A key \in Active : ~InScope(key, reload.ids)

(* What a CLI that waited for the acknowledgement was promised: when the   *)
(* config acknowledged is the one in force, no ask works for a revoked     *)
(* peer, a replaced credential or a removed workspace, and no backend runs *)
(* for one.                                                                *)
ScopesRetired ==
  node = "up" /\ ack = Effective =>
    /\ \A key \in Active : Serves(Effective, key)
    /\ \A a \in Asks : InFlight(a) => ask[a].cred = Effective.creds[ask[a].key[1]]

(* ADR 0005: nothing creates the old binding again after its cleanup; but  *)
(* a write that outlives its ask, which the reload closed with its         *)
(* credential or which was cancelled, may: nothing else does.              *)
BindingsRetired == node = "up" /\ ack = Effective => Orphans(Effective) \subseteq revived

(* A peer keeps its session in a workspace, and so its history, through    *)
(* rotations, runtime changes, restarts and other scopes' removals: only   *)
(* its own revocation or the workspace's removal ends the binding.         *)
BindingsKept ==
  [][\A key \in Keys :
       bindings[key] # None /\ bindings'[key] # bindings[key] => ~Serves(Effective, key)]_vars

(* A peer id that is added never meets the sessions or the work of an      *)
(* earlier peer of that name, also when a CLI died in a revocation.        *)
NewPeerStartsEmpty ==
  [][\A key \in Keys :
       Effective.creds[key[1]] = 0 /\ Effective'.creds[key[1]] # 0 =>
         bindings[key] = None /\ key \notin Active]_vars

(* The edits of a CLI are acknowledged by a Node that stays up, whatever   *)
(* asks are in progress.  (Over one Runtime configuration: two could be    *)
(* exchanged for ever.)                                                    *)
EditsAcknowledged == <>[](node = "up") => <>[](ack = Effective)

(* No wait for a lease is for ever: a Node that stays up acknowledges, and *)
(* a Node told to stop stops, whatever asks are in progress.               *)
NodeResponds == EditsAcknowledged /\ (node = "closing" ~> node = "down")
=============================================================================
