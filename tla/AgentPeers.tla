----------------------------- MODULE AgentPeers -----------------------------
(***************************************************************************)
(* The Peer links of one local Node: the configuration and control files   *)
(* that the CLI and the Node exchange, the reload fiber of agent-server.ts *)
(* and AgentApplication, which runs one runtime per Peer, leases it to     *)
(* calls and retires it before its credential is replaced.                 *)
(*                                                                         *)
(* A Peer's version stands for its fingerprint: every edit draws a new     *)
(* one, since each stamps updatedAt.  One CLI at a time edits (it holds    *)
(* mutation.lock).  The application's gate is held across reads of the     *)
(* configuration and across a retirement, so it is a variable here.  A     *)
(* runtime is external: a call of it ends, closeEffect closes it or fails. *)
(***************************************************************************)
EXTENDS Integers, FiniteSets

CONSTANTS
  Peers,        (* Peer ids                                                 *)
  Calls,        (* fibers of listPeers and ask                              *)
  MaxVersion,   (* bound: how many versions of Peers are ever drawn         *)
  MaxRequests,  (* bound: how many retirements are ever requested           *)
  None

ASSUME AgentAssumption ==
  /\ IsFiniteSet(Peers) /\ IsFiniteSet(Calls)
  /\ MaxVersion \in Nat \ {0} /\ MaxRequests \in Nat
  /\ None \notin Calls \cup {"reload", "retire"} /\ Calls \cap {"reload", "retire"} = {}

VARIABLES
  config,     (* agent.json: the version of every Peer, 0 if there is none  *)
  drawn,      (* versions drawn                                             *)
  request,    (* agent-peer-retirement.json                                 *)
  ack,        (* agent-peer-retirement-ack.json: a request's id, 0 if none  *)
  reloadAck,  (* agent-reload.json: the config last acknowledged            *)
  cli,        (* the command that rotates or removes a Peer                 *)
  requests,   (* request ids drawn                                          *)
  node,       (* the life of the Node's process                             *)
  current,    (* the Ref of agent-server.ts                                 *)
  reload,     (* its reload fiber                                           *)
  gate,       (* the holder of the application's gate, and how far it is    *)
  runtimes,   (* state.runtimes: the version a Peer's runtime has           *)
  live,       (* runtimes that were created and not closed                  *)
  left,       (* those whose retirement was cut: closed by nobody           *)
  blocked,    (* state.blocked: the version that is blocked                 *)
  leases,     (* state.active: leases of calls, with the runtime they use   *)
  promised    (* history: the requests this Node's process has acknowledged *)

diskVars == <<config, drawn, request, ack, reloadAck>>
cliVars  == <<cli, requests>>
appVars  == <<gate, runtimes, live, left, blocked, leases>>
nodeVars == <<node, current, reload, promised>>
vars     == <<diskVars, cliVars, appVars, nodeVars>>

-----------------------------------------------------------------------------
Versions == 1 .. MaxVersion
Configs  == [Peers -> 0 .. MaxVersion]
Empty    == [p \in Peers |-> 0]

NoCli    == [stage |-> "idle", peer |-> None, version |-> 0, config |-> Empty, id |-> 0]
NoReload == [stage |-> "idle", next |-> Empty, request |-> None]
Free     == [holder |-> None, stage |-> "free", want |-> {}, seen |-> Empty, retiring |-> {}]

Leased(p) == {l \in leases : l.peer = p}
Quiet(p)  == Leased(p) = {} /\ \A v \in Versions : <<p, v>> \notin live \ left

Init ==
  /\ config \in {c \in Configs : \A p \in Peers : c[p] \in {0, 1}}
  /\ drawn = 1
  /\ request = None /\ ack = 0 /\ reloadAck = None
  /\ cli = NoCli /\ requests = 0
  /\ node = "down" /\ current = Empty /\ reload = NoReload /\ promised = {}
  /\ gate = Free /\ runtimes = Empty /\ live = {} /\ left = {}
  /\ blocked = Empty /\ leases = {}

-----------------------------------------------------------------------------
(* The CLI.  The Node's process is running while it holds agent.lock.      *)
Running == node # "down"

At(stage) == cli.stage = stage
Go(stage) == cli' = [cli EXCEPT !.stage = stage]

(* addEffect: needs no retirement.                                         *)
AddPeer(p) ==
  /\ At("idle") /\ config[p] = 0 /\ drawn < MaxVersion
  /\ config' = [config EXCEPT ![p] = drawn + 1] /\ drawn' = drawn + 1
  /\ UNCHANGED <<request, ack, reloadAck, cliVars, appVars, nodeVars>>

(* withRetiredAgentPeer asks a running Node to retire the Peer first.      *)
BeginEdit(p) ==
  /\ At("idle") /\ config[p] # 0 /\ requests < MaxRequests
  /\ cli' = [stage |-> IF Running THEN "clear" ELSE "commit", peer |-> p,
             version |-> config[p], config |-> config, id |-> IF Running THEN requests + 1 ELSE 0]
  /\ requests' = requests + 1
  /\ UNCHANGED <<diskVars, appVars, nodeVars>>

(* requestPeerRetirement removes an old acknowledgement, ...               *)
ClearAck ==
  /\ At("clear") /\ Go("publish")
  /\ ack' = 0
  /\ UNCHANGED <<config, drawn, request, reloadAck, requests, appVars, nodeVars>>

(* ... and then writes the request over whatever the file held.            *)
Publish ==
  /\ At("publish") /\ Go("wait")
  /\ request' = [id |-> cli.id, peer |-> cli.peer, version |-> cli.version,
                 config |-> cli.config, cancelled |-> FALSE]
  /\ UNCHANGED <<config, drawn, ack, reloadAck, requests, appVars, nodeVars>>

(* Fault: any acknowledgement is taken for the own one.                    *)
RetiredByAnyAck ==
  /\ At("wait") /\ Go("commit")
  /\ ack # 0 \/ ~Running
  /\ UNCHANGED <<diskVars, requests, appVars, nodeVars>>

(* waitForPeerRetirement returns.                                          *)
Retired ==
  /\ At("wait") /\ Go("commit")
  /\ ack = cli.id \/ ~Running
  /\ UNCHANGED <<diskVars, requests, appVars, nodeVars>>

(* updateCredentials and remove.  The new credential was verified before.  *)
Commit ==
  /\ At("commit") /\ Go("reload")
  /\ \/ drawn < MaxVersion /\ drawn' = drawn + 1
        /\ config' = [config EXCEPT ![cli.peer] = drawn + 1]
     \/ config' = [config EXCEPT ![cli.peer] = 0] /\ UNCHANGED drawn
  /\ UNCHANGED <<request, ack, reloadAck, requests, appVars, nodeVars>>

(* waitForAgentReload returns, and the command ends.                       *)
Reloaded ==
  /\ At("reload")
  /\ reloadAck = config \/ ~Running
  /\ cli' = NoCli
  /\ UNCHANGED <<diskVars, requests, appVars, nodeVars>>

(* A wait times out or the new credential does not verify: the request, if *)
(* there is one, is written again as cancelled.                            *)
EditFails ==
  /\ cli.stage \in {"wait", "commit", "reload"}
  /\ cli' = NoCli
  /\ request' = IF cli.id = 0 THEN request
                ELSE [id |-> cli.id, peer |-> cli.peer, version |-> cli.version,
                      config |-> cli.config, cancelled |-> TRUE]
  /\ UNCHANGED <<config, drawn, ack, reloadAck, requests, appVars, nodeVars>>

(* The command is killed: a request it wrote stays behind.                 *)
CliDies ==
  /\ ~At("idle")
  /\ cli' = NoCli
  /\ UNCHANGED <<diskVars, requests, appVars, nodeVars>>

-----------------------------------------------------------------------------
(* AgentApplication.  Whoever holds the gate reads the configuration, then *)
(* retires runtimes, and a call takes its leases last.                     *)
Open(who) == gate.holder = None /\ gate' = [Free EXCEPT !.holder = who, !.stage = "read"]
Holds(who, stage) == gate.holder = who /\ gate.stage = stage
Idle(c) == gate.holder # c /\ \A l \in leases : l.call # c

(* ask names one Peer, listPeers all of them.                              *)
Enter(c, want) ==
  /\ node = "up" /\ Idle(c)
  /\ gate.holder = None
  /\ gate' = [Free EXCEPT !.holder = c, !.stage = "read", !.want = want]
  /\ UNCHANGED <<diskVars, cliVars, runtimes, live, left, blocked, leases, nodeVars>>

(* retireRuntimeLocked for every Peer of ids: their runtimes leave the map *)
(* at once, and are closed when the leases of their Peer have settled.     *)
Retire(ids, seen) ==
  /\ runtimes' = [p \in Peers |-> IF p \in ids THEN 0 ELSE runtimes[p]]
  /\ gate' = [gate EXCEPT !.stage = "retire", !.seen = seen,
                          !.retiring = {<<p, runtimes[p]>> : p \in ids}]

(* Fault: only Peers that are gone are retired, not those that changed.    *)
StaleIfGone == {p \in Peers : runtimes[p] # 0 /\ config[p] = 0}

Stale == {p \in Peers : runtimes[p] \notin {0, config[p]}}

(* reconcileLocked with the configuration just read, for a call and for    *)
(* the reload fiber: blocks of versions that are gone end.                 *)
Reconcile ==
  /\ gate.holder \in Calls \cup {"reload"} /\ gate.stage = "read"
  /\ blocked' = [p \in Peers |-> IF blocked[p] = config[p] THEN blocked[p] ELSE 0]
  /\ Retire(Stale, config)
  /\ UNCHANGED <<diskVars, cliVars, live, left, leases, nodeVars>>

(* Fault: a runtime is closed under the calls that use it.                 *)
CloseRuntimeAtOnce(x) ==
  /\ gate.stage = "retire" /\ x \in gate.retiring
  /\ gate' = [gate EXCEPT !.retiring = @ \ {x}]
  /\ live' = live \ {x}
  /\ UNCHANGED <<diskVars, cliVars, runtimes, left, blocked, leases, nodeVars>>

(* One retirement ends.                                                    *)
CloseRuntime(x) ==
  /\ gate.stage = "retire" /\ x \in gate.retiring
  /\ Leased(x[1]) = {}
  /\ gate' = [gate EXCEPT !.retiring = @ \ {x}]
  /\ live' = live \ {x}
  /\ UNCHANGED <<diskVars, cliVars, runtimes, left, blocked, leases, nodeVars>>

(* runtimeAndLeaseLocked for every Peer the call may use, and the gate is  *)
(* released.                                                               *)
Admit(c) ==
  /\ Holds(c, "retire") /\ gate.retiring = {}
  /\ LET use == {p \in gate.want : gate.seen[p] # 0 /\ blocked[p] = 0}
     IN  /\ runtimes' = [p \in Peers |-> IF p \in use THEN gate.seen[p] ELSE runtimes[p]]
         /\ live' = live \cup {<<p, gate.seen[p]>> : p \in use}
         /\ leases' = leases \cup {[call |-> c, peer |-> p, version |-> gate.seen[p]] : p \in use}
  /\ gate' = Free
  /\ UNCHANGED <<diskVars, cliVars, left, blocked, nodeVars>>

(* A call is answered, fails, is cancelled or aborted: its lease settles.  *)
CallEnds(l) ==
  /\ leases' = leases \ {l}
  /\ UNCHANGED <<diskVars, cliVars, gate, runtimes, live, left, blocked, nodeVars>>

(* A call is interrupted, or fails, while it has the gate: what it was     *)
(* retiring has left the map and is closed by nobody.                      *)
Cut(c) ==
  /\ gate.holder = c
  /\ left' = left \cup (gate.retiring \cap live)
  /\ gate' = Free
  /\ UNCHANGED <<diskVars, cliVars, runtimes, live, blocked, leases, nodeVars>>

-----------------------------------------------------------------------------
(* agent-server.ts.  The process starts by looking at the request, and     *)
(* serves calls afterwards.                                                *)
ReloadAt(stage) == Running /\ reload.stage = stage
ReloadTo(stage) == reload' = [reload EXCEPT !.stage = stage]

StartNode ==
  /\ node = "down"
  /\ node' = "starting" /\ current' = config
  /\ reload' = [NoReload EXCEPT !.stage = "request", !.next = config]
  /\ UNCHANGED <<diskVars, cliVars, appVars, promised>>

Poll ==
  /\ node = "up" /\ ReloadAt("idle")
  /\ reload' = [NoReload EXCEPT !.stage = "request", !.next = config]
  /\ UNCHANGED <<diskVars, cliVars, appVars, node, current, promised>>

RequesterLives(r) == cli.stage # "idle" /\ cli.id = r.id

(* processPeerRetirement reads the request.                                *)
ReadRequest ==
  /\ ReloadAt("request")
  /\ reload' = [reload EXCEPT !.request = request,
                  !.stage = IF request = None THEN "compare"
                            ELSE IF request.cancelled \/ request.config # reload.next
                                    \/ ~RequesterLives(request)
                                 THEN "resume" ELSE "ack"]
  /\ UNCHANGED <<diskVars, cliVars, appVars, node, current, promised>>

(* The request is over: its Peer is released, ...                          *)
ResumePeer ==
  /\ ReloadAt("resume") /\ gate.holder = None
  /\ ReloadTo("clear")
  /\ LET r == reload.request
     IN  blocked' = [blocked EXCEPT ![r.peer] = IF @ = r.version THEN 0 ELSE @]
  /\ UNCHANGED <<diskVars, cliVars, gate, runtimes, live, left, leases, node, current, promised>>

(* ... and both control files are removed, whatever they hold by now.      *)
ClearControl ==
  /\ ReloadAt("clear") /\ ReloadTo("compare")
  /\ request' = None /\ ack' = 0
  /\ UNCHANGED <<config, drawn, reloadAck, cliVars, appVars, node, current, promised>>

(* A request that has its acknowledgement needs nothing more.              *)
ReadAck ==
  /\ ReloadAt("ack")
  /\ ReloadTo(IF ack = reload.request.id THEN "compare" ELSE "retire")
  /\ UNCHANGED <<diskVars, cliVars, appVars, node, current, promised>>

EnterRetirement ==
  /\ ReloadAt("retire") /\ Open("retire")
  /\ ReloadTo("retiring")
  /\ UNCHANGED <<diskVars, cliVars, runtimes, live, left, blocked, leases, node, current, promised>>

(* retirePeer: the Peer must still be the one the request names.           *)
RetirePeer ==
  /\ Holds("retire", "read")
  /\ LET r == reload.request
     IN  /\ config[r.peer] = r.version
         /\ blocked' = [blocked EXCEPT ![r.peer] = r.version]
         /\ Retire({r.peer}, config)
  /\ UNCHANGED <<diskVars, cliVars, live, left, leases, nodeVars>>

EndRetirement ==
  /\ Holds("retire", "retire") /\ gate.retiring = {}
  /\ gate' = Free /\ ReloadTo("write")
  /\ UNCHANGED <<diskVars, cliVars, runtimes, live, left, blocked, leases, node, current, promised>>

WriteAck ==
  /\ ReloadAt("write") /\ ReloadTo("compare")
  /\ ack' = reload.request.id /\ promised' = promised \cup {reload.request.id}
  /\ UNCHANGED <<config, drawn, request, reloadAck, cliVars, appVars, node, current>>

(* A Node that starts now serves; one that polls ends here if nothing has  *)
(* changed since its last reload.                                          *)
Compare ==
  /\ ReloadAt("compare")
  /\ \/ node = "starting" /\ node' = "up" /\ ReloadTo("publish")
     \/ node = "up" /\ UNCHANGED node
        /\ ReloadTo(IF reload.next = current THEN "idle" ELSE "reconcile")
  /\ UNCHANGED <<diskVars, cliVars, appVars, current, promised>>

EnterReconcile ==
  /\ ReloadAt("reconcile") /\ Open("reload")
  /\ ReloadTo("reconciling")
  /\ UNCHANGED <<diskVars, cliVars, runtimes, live, left, blocked, leases, node, current, promised>>

(* Fault: the Node keeps the configuration it read before the gate.        *)
EndReconcileUnread ==
  /\ Holds("reload", "retire") /\ gate.retiring = {}
  /\ gate' = Free /\ ReloadTo("publish")
  /\ UNCHANGED <<diskVars, cliVars, runtimes, live, left, blocked, leases, node, current, promised>>

EndReconcile ==
  /\ Holds("reload", "retire") /\ gate.retiring = {}
  /\ gate' = Free /\ ReloadTo("publish")
  /\ current' = gate.seen
  /\ UNCHANGED <<diskVars, cliVars, runtimes, live, left, blocked, leases, node, promised>>

Acknowledge ==
  /\ ReloadAt("publish") /\ ReloadTo("idle")
  /\ reloadAck' = current
  /\ UNCHANGED <<config, drawn, request, ack, cliVars, appVars, node, current, promised>>

(* The process ends: it is stopped or killed.                              *)
Exit ==
  /\ node' = "down" /\ current' = Empty /\ reload' = NoReload /\ promised' = {}
  /\ gate' = Free /\ runtimes' = Empty /\ live' = {} /\ left' = {}
  /\ blocked' = Empty /\ leases' = {}
  /\ UNCHANGED <<diskVars, cliVars>>

NodeStops == Running /\ Exit

(* An error of the reload fiber is fatal: a runtime that does not close,   *)
(* ...                                                                     *)
RuntimeStaysOpen ==
  /\ gate.holder \in {"reload", "retire"} /\ gate.retiring # {}
  /\ Exit

(* ... or a Peer that changed before its retirement had the gate.          *)
PeerChanged ==
  /\ Holds("retire", "read") /\ config[reload.request.peer] # reload.request.version
  /\ Exit

-----------------------------------------------------------------------------
CliStep ==
  \/ \E p \in Peers : AddPeer(p) \/ BeginEdit(p)
  \/ ClearAck \/ Publish \/ Retired \/ Commit \/ Reloaded \/ EditFails \/ CliDies

CallStep ==
  \/ \E c \in Calls : Enter(c, Peers) \/ Admit(c) \/ Cut(c) \/ \E p \in Peers : Enter(c, {p})
  \/ \E l \in leases : CallEnds(l)

ReloadStep ==
  \/ Poll \/ ReadRequest \/ ResumePeer \/ ClearControl \/ ReadAck
  \/ EnterRetirement \/ RetirePeer \/ PeerChanged \/ EndRetirement \/ WriteAck
  \/ Compare \/ EnterReconcile \/ EndReconcile \/ Acknowledge

GateStep == Reconcile \/ \E x \in gate.retiring : CloseRuntime(x)

Next ==
  \/ CliStep \/ CallStep \/ ReloadStep \/ GateStep
  \/ StartNode \/ NodeStops \/ RuntimeStaysOpen

Spec == Init /\ [][Next]_vars

(* The reload fiber polls, and gets the gate although calls take it again  *)
(* and again: the gate serves its waiters in turn.  A call ends by its     *)
(* timeout, and a call that is let in goes on.                             *)
FairSpec ==
  /\ Spec
  /\ SF_vars(ReloadStep) /\ WF_vars(GateStep)
  /\ \A c \in Calls : WF_vars(Admit(c))
  /\ WF_vars(\E l \in leases : CallEnds(l))

-----------------------------------------------------------------------------
Lease == [call : Calls, peer : Peers, version : Versions]
Request == [id : 1 .. MaxRequests, peer : Peers, version : Versions, config : Configs,
            cancelled : BOOLEAN]

TypeOK ==
  /\ config \in Configs /\ drawn \in Versions
  /\ request \in Request \cup {None}
  /\ ack \in 0 .. MaxRequests /\ requests \in 0 .. MaxRequests
  /\ reloadAck \in Configs \cup {None}
  /\ cli \in [stage : {"idle", "clear", "publish", "wait", "commit", "reload"},
              peer : Peers \cup {None}, version : 0 .. MaxVersion, config : Configs,
              id : 0 .. MaxRequests]
  /\ node \in {"down", "starting", "up"} /\ current \in Configs
  /\ reload.stage \in {"idle", "request", "resume", "clear", "ack", "retire", "retiring", "write",
                       "compare", "reconcile", "reconciling", "publish"}
  /\ reload.next \in Configs /\ reload.request \in Request \cup {None}
  /\ gate.holder \in Calls \cup {"reload", "retire", None}
  /\ gate.stage \in {"free", "read", "retire"}
  /\ gate.retiring \subseteq Peers \X (0 .. MaxVersion)
  /\ runtimes \in Configs /\ blocked \in Configs
  /\ live \subseteq Peers \X Versions /\ left \subseteq Peers \X Versions
  /\ leases \subseteq Lease
  /\ promised \subseteq 1 .. MaxRequests

(* No old/new credential overlap (SPEC.md): the runtimes of a Peer that    *)
(* are open and the calls still in progress are all of one version, across *)
(* edits, retirements and restarts; but for what a call that was cut had   *)
(* begun to retire, and that is of versions which were replaced.           *)
OneCredential ==
  /\ \A p \in Peers :
       Cardinality({v \in Versions : /\ <<p, v>> \notin left
                                    /\ \/ <<p, v>> \in live
                                       \/ \E l \in Leased(p) : l.version = v}) <= 1
  /\ \A x \in left : config[x[1]] # x[2]

(* While a Peer is blocked nothing of it runs, and no call gets in between *)
(* the retirement and the new credential.                                  *)
BlockedQuiet ==
  \A p \in Peers : blocked[p] # 0 /\ gate.holder # "retire" => Quiet(p)

(* A command that goes on while an acknowledgement of the running process  *)
(* lies there replaces a credential nobody uses: it never takes the        *)
(* acknowledgement of an earlier request for its own.                      *)
PromiseKept ==
  At("commit") /\ cli.id # 0 /\ ack \in promised => Quiet(cli.peer)

(* A Node that stays up acknowledges the configuration it is left with.    *)
ReloadsAcknowledged == <>[](node = "up" /\ At("idle")) => <>[](reloadAck = config)
=============================================================================
