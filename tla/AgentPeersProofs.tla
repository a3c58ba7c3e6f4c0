-------------------------- MODULE AgentPeersProofs --------------------------
(***************************************************************************)
(* The safety properties of AgentPeers, proved for any Peers, calls,       *)
(* versions and requests, wherever a call is cut.                          *)
(*                                                                         *)
(* One version of a Peer at a time rests on who still knows a runtime that *)
(* is not left: the map or whoever retires it (Known).  That what is left  *)
(* was replaced rests on versions being drawn once (Replaced).  That an    *)
(* acknowledgement is kept rests on request ids being fresh (Ids) and on   *)
(* the Node being done with every other request when it has acknowledged   *)
(* this one (Promise).                                                     *)
(***************************************************************************)
EXTENDS AgentPeers, FiniteSetTheorems, TLAPS

GateType == [holder : Calls \cup {"reload", "retire", None}, stage : {"free", "read", "retire"},
             want : SUBSET Peers, seen : Configs, retiring : SUBSET (Peers \X (0 .. MaxVersion))]

ReloadType == [stage : {"idle", "request", "resume", "clear", "ack", "retire", "retiring", "write",
                        "compare", "reconcile", "reconciling", "publish"},
               next : Configs, request : Request \cup {None}]

Types == TypeOK /\ gate \in GateType /\ reload \in ReloadType

(* Where the reload fiber has a request in hand.                           *)
Processing == {"resume", "clear", "ack", "retire", "retiring", "write"}

(* Who has the gate, and what there is without a process.                  *)
Gated ==
  /\ gate.holder = None <=> gate.stage = "free"
  /\ gate.stage # "retire" => gate.retiring = {}
  /\ gate.holder = "retire" <=> reload.stage = "retiring"
  /\ gate.holder = "reload" <=> reload.stage = "reconciling"
  /\ reload.stage \in Processing => reload.request # None
  /\ ~Running => gate = Free /\ reload = NoReload /\ promised = {}

(* A runtime that is open is in the map, or being retired and no longer in *)
(* the map; a lease keeps its runtime open; a call that may open runtimes  *)
(* has retired those of other versions.                                    *)
Known ==
  /\ \A p \in Peers, v \in Versions : <<p, v>> \in live \ left =>
       runtimes[p] = v \/ <<p, v>> \in gate.retiring
  /\ \A p \in Peers, v \in 0 .. MaxVersion : <<p, v>> \in gate.retiring => runtimes[p] = 0
  /\ \A p \in Peers, v, w \in 0 .. MaxVersion : {<<p, v>>, <<p, w>>} \subseteq gate.retiring => v = w
  /\ \A l \in leases : <<l.peer, l.version>> \in live
  /\ gate.stage = "retire" /\ gate.holder \in Calls =>
       \A p \in Peers : runtimes[p] \in {0, gate.seen[p]}

(* A blocked Peer has no runtime, and only its own retirement retires one; *)
(* it has no lease once its retirement is over.                            *)
BlockedOut ==
  \A p \in Peers : blocked[p] # 0 =>
    /\ runtimes[p] = 0
    /\ \/ \A l \in leases : l.peer # p
       \/ gate.holder = "retire" /\ \E v \in 0 .. MaxVersion : <<p, v>> \in gate.retiring
    /\ gate.holder # "retire" => \A v \in 0 .. MaxVersion : <<p, v>> \notin gate.retiring

(* What is left, and what a call retires, is of versions that were drawn   *)
(* and are in the configuration no more.                                   *)
Replaced ==
  /\ \A p \in Peers : config[p] <= drawn /\ runtimes[p] <= drawn /\ gate.seen[p] <= drawn
  /\ \A x \in left : x[2] <= drawn /\ config[x[1]] # x[2]
  /\ gate.holder \in Calls =>
       \A x \in gate.retiring : x[2] # 0 /\ x[2] <= drawn /\ config[x[1]] # x[2]

(* A command edits the configuration it has read.                          *)
Editing ==
  /\ cli.stage # "idle" => cli.peer \in Peers /\ cli.version # 0
  /\ cli.stage \in {"clear", "publish", "wait"} => cli.id # 0
  /\ cli.stage \in {"clear", "publish", "wait", "commit"} =>
       cli.config = config /\ cli.config[cli.peer] = cli.version

Own == [id |-> cli.id, peer |-> cli.peer, version |-> cli.version, config |-> cli.config,
        cancelled |-> FALSE]

Asked == cli.stage \in {"wait", "commit"} /\ cli.id # 0

(* Request ids are fresh, and a published request is the command's own.    *)
Ids ==
  /\ cli.id # 0 => cli.id = requests
  /\ ack <= requests /\ \A i \in promised : i <= requests
  /\ request # None => request.id <= requests
  /\ reload.request # None => reload.request.id <= requests
  /\ cli.stage \in {"clear", "publish"} =>
       /\ ack # cli.id /\ cli.id \notin promised
       /\ request # None => request.id # cli.id
       /\ reload.request # None => reload.request.id # cli.id
  /\ Asked => /\ request \in {None, Own}
              /\ reload.request # None /\ reload.request.id = cli.id => reload.request = Own

(* Once a command has its acknowledgement, or goes on without one, the     *)
(* process has no other request in hand; and while a promise of the        *)
(* process stands, the Peer stays blocked.                                 *)
Promise ==
  Asked =>
    /\ (ack = cli.id \/ cli.id \in promised \/ At("commit")) /\ reload.stage \in Processing =>
         reload.request.id = cli.id
    /\ At("commit") /\ ack \in promised => ack = cli.id
    /\ /\ reload.stage = "write" \/ (gate.holder = "retire" /\ gate.stage = "retire")
       /\ reload.request.id = cli.id
       => blocked[cli.peer] = cli.version
    /\ cli.id \in promised =>
         /\ ack = cli.id /\ blocked[cli.peer] = cli.version
         /\ reload.stage \notin {"resume", "clear", "retire", "retiring", "write"}
         /\ reload.stage = "request" => reload.next = cli.config

IInv == Types /\ Gated /\ Known /\ BlockedOut /\ Replaced /\ Editing /\ Ids /\ Promise

-----------------------------------------------------------------------------
(* The bounds are numbers.                                                 *)
LEMMA Bounds ==
  /\ MaxVersion \in Nat /\ MaxRequests \in Nat /\ Versions \subseteq 0 .. MaxVersion
  /\ Versions \subseteq Nat /\ 0 \in 0 .. MaxVersion /\ 1 \in Versions /\ Empty \in Configs
  /\ None \notin Calls /\ None # "reload" /\ None # "retire"
  /\ "reload" \notin Calls /\ "retire" \notin Calls
BY AgentAssumption DEF Versions, Empty, Configs

CliType == [stage : {"idle", "clear", "publish", "wait", "commit", "reload"},
            peer : Peers \cup {None}, version : 0 .. MaxVersion, config : Configs,
            id : 0 .. MaxRequests]

(* The values of what is not under way.                                    *)
LEMMA Blanks == NoCli \in CliType /\ NoReload \in ReloadType /\ Free \in GateType
BY Bounds DEF NoCli, CliType, NoReload, ReloadType, Free, GateType

DiskTypes ==
  /\ config \in Configs /\ drawn \in Versions
  /\ request \in Request \cup {None}
  /\ ack \in 0 .. MaxRequests /\ requests \in 0 .. MaxRequests
  /\ reloadAck \in Configs \cup {None}
  /\ cli \in CliType

NodeTypes ==
  /\ node \in {"down", "starting", "up"} /\ current \in Configs
  /\ reload \in ReloadType /\ promised \subseteq 1 .. MaxRequests

AppTypes ==
  /\ gate \in GateType
  /\ runtimes \in Configs /\ blocked \in Configs
  /\ live \subseteq Peers \X Versions /\ left \subseteq Peers \X Versions
  /\ leases \subseteq Lease

(* The types, by who has the variables.                                    *)
LEMMA TypesSplit == Types <=> DiskTypes /\ NodeTypes /\ AppTypes
BY DEF Types, TypeOK, DiskTypes, CliType, NodeTypes, AppTypes, GateType, ReloadType

(* A configuration with one Peer changed, or with some reset, is one.      *)
LEMMA ConfigWith ==
  ASSUME NEW f \in Configs, NEW p, NEW v \in 0 .. MaxVersion
  PROVE  [f EXCEPT ![p] = v] \in Configs
BY DEF Configs

(* Types of what is on disk and of the commands.                           *)
LEMMA DiskTypesStep ==
  ASSUME IInv, [Next]_vars
  PROVE  DiskTypes'
<1>0. DiskTypes /\ NodeTypes /\ Editing
  BY TypesSplit DEF IInv
<1>1. CASE UNCHANGED <<diskVars, cliVars>>
  BY <1>0, <1>1 DEF DiskTypes, diskVars, cliVars
<1>2. ASSUME NEW p \in Peers, AddPeer(p)
      PROVE  DiskTypes'
  <2>1. drawn + 1 \in Versions /\ drawn + 1 \in 0 .. MaxVersion
    BY <1>0, <1>2, Bounds DEF AddPeer, DiskTypes, Versions
  <2>2. config' \in Configs
    BY <1>0, <1>2, <2>1, ConfigWith DEF AddPeer, DiskTypes
  <2> QED BY <1>0, <1>2, <2>1, <2>2 DEF AddPeer, DiskTypes, cliVars
<1>3. ASSUME NEW p \in Peers, BeginEdit(p)
      PROVE  DiskTypes'
  <2>1. requests + 1 \in 0 .. MaxRequests /\ 0 \in 0 .. MaxRequests /\ config[p] \in 0 .. MaxVersion
    BY <1>0, <1>3, Bounds DEF BeginEdit, DiskTypes, Configs
  <2>2. cli' \in CliType
    <3> DEFINE t == IF Running THEN "clear" ELSE "commit"
               i == IF Running THEN requests + 1 ELSE 0
    <3>1. cli' = [stage |-> t, peer |-> p, version |-> config[p], config |-> config, id |-> i]
      BY <1>3 DEF BeginEdit
    <3>2. t \in {"clear", "commit"} /\ i \in 0 .. MaxRequests /\ config \in Configs
      BY <1>0, <2>1 DEF DiskTypes
    <3> HIDE DEF t, i
    <3> QED BY <2>1, <3>1, <3>2 DEF CliType
  <2> QED BY <1>0, <1>3, <2>1, <2>2 DEF BeginEdit, DiskTypes, diskVars
<1>4. CASE ClearAck \/ Retired \/ Reloaded \/ CliDies
  <2>1. cli' \in CliType
    BY <1>0, <1>4, Blanks DEF ClearAck, Retired, Reloaded, CliDies, Go, DiskTypes, CliType
  <2>2. ack' \in 0 .. MaxRequests
    BY <1>0, <1>4, Bounds DEF ClearAck, Retired, Reloaded, CliDies, DiskTypes, diskVars
  <2> QED BY <1>0, <1>4, <2>1, <2>2 DEF ClearAck, Retired, Reloaded, CliDies, DiskTypes, diskVars
<1>5. CASE Publish \/ EditFails
  <2>1. cli' \in CliType
    BY <1>0, <1>5, Blanks DEF Publish, EditFails, Go, DiskTypes, CliType
  <2>2. cli.stage # "idle" => cli.peer \in Peers /\ cli.version \in Versions /\ cli.config \in Configs
    BY <1>0, Bounds DEF Editing, DiskTypes, CliType, Versions
  <2>3. cli.id # 0 => cli.id \in 1 .. MaxRequests
    BY <1>0, Bounds DEF DiskTypes, CliType
  <2>4. request' \in Request \cup {None}
    <3>1. cli.stage # "idle" /\ (cli.stage = "publish" => cli.id # 0)
      BY <1>0, <1>5 DEF Publish, EditFails, At, Editing
    <3> DEFINE R(b) == [id |-> cli.id, peer |-> cli.peer, version |-> cli.version,
                        config |-> cli.config, cancelled |-> b]
    <3>2. cli.id # 0 => R(TRUE) \in Request /\ R(FALSE) \in Request
      BY <2>2, <2>3, <3>1 DEF Request
    <3>3. CASE Publish
      BY <3>1, <3>2, <3>3 DEF Publish, At
    <3>4. CASE EditFails
      BY <1>0, <3>2, <3>4 DEF EditFails, DiskTypes
    <3> QED BY <1>5, <3>3, <3>4
  <2> QED BY <1>0, <1>5, <2>1, <2>4 DEF Publish, EditFails, DiskTypes
<1>6. CASE Commit
  <2>1. cli' \in CliType
    BY <1>0, <1>6 DEF Commit, Go, DiskTypes, CliType
  <2>2. drawn < MaxVersion => drawn + 1 \in Versions /\ drawn + 1 \in 0 .. MaxVersion
    BY <1>0, Bounds DEF DiskTypes, Versions
  <2>3. config' \in Configs /\ drawn' \in Versions
    BY <1>0, <1>6, <2>2, Bounds, ConfigWith DEF Commit, DiskTypes
  <2> QED BY <1>0, <1>6, <2>1, <2>3 DEF Commit, DiskTypes
<1>7. CASE ClearControl \/ WriteAck \/ Acknowledge
  <2>1. cli' = cli /\ requests' = requests /\ config' = config /\ drawn' = drawn
    BY <1>7 DEF ClearControl, WriteAck, Acknowledge, cliVars
  <2>2. WriteAck => reload.request.id \in 0 .. MaxRequests
    BY <1>0, Bounds DEF WriteAck, ReloadAt, IInv, Gated, Processing, NodeTypes, ReloadType, Request
  <2> QED BY <1>0, <1>7, <2>1, <2>2, Bounds DEF ClearControl, WriteAck, Acknowledge, DiskTypes, NodeTypes
<1>8. CASE CallStep \/ GateStep \/ StartNode \/ NodeStops \/ RuntimeStaysOpen
  BY <1>1, <1>8 DEF CallStep, GateStep, StartNode, NodeStops, RuntimeStaysOpen, Exit, Enter, Admit,
                    Cut, CallEnds, Reconcile, CloseRuntime
<1>9. CASE ReloadStep
  BY <1>1, <1>7, <1>9 DEF ReloadStep, Poll, ReadRequest, ResumePeer, ReadAck, EnterRetirement,
         RetirePeer, PeerChanged, Exit, EndRetirement, Compare, EnterReconcile, EndReconcile
<1>10. CASE UNCHANGED vars
  BY <1>1, <1>10 DEF vars
<1> QED BY <1>2, <1>3, <1>4, <1>5, <1>6, <1>8, <1>9, <1>10 DEF Next, CliStep

(* Types of the Node and of its reload.                                    *)
LEMMA NodeTypesStep ==
  ASSUME IInv, [Next]_vars
  PROVE  NodeTypes'
<1>0. DiskTypes /\ NodeTypes /\ AppTypes /\ Gated
  BY TypesSplit DEF IInv
<1>1. CASE UNCHANGED nodeVars
  BY <1>0, <1>1 DEF NodeTypes, nodeVars
<1>2. CASE Exit
  BY <1>2, Bounds, Blanks DEF Exit, NodeTypes
<1>3. CASE StartNode \/ Poll
  <2>1. reload' \in ReloadType
    BY <1>0, <1>3, Blanks DEF StartNode, Poll, ReloadType, DiskTypes
  <2> QED BY <1>0, <1>3, <2>1 DEF StartNode, Poll, NodeTypes, DiskTypes
<1>4. CASE ReadRequest
  <2>1. PICK s \in {"compare", "resume", "ack"} : reload' = [reload EXCEPT !.request = request, !.stage = s]
    BY <1>4 DEF ReadRequest
  <2>2. reload' \in ReloadType
    BY <1>0, <2>1 DEF NodeTypes, DiskTypes, ReloadType
  <2> QED BY <1>0, <1>4, <2>2 DEF ReadRequest, NodeTypes
<1>5. ASSUME NEW s \in {"idle", "clear", "retire", "retiring", "write", "compare", "reconcile",
                        "reconciling", "publish"}, ReloadTo(s)
      PROVE  reload' \in ReloadType
  BY <1>0, <1>5 DEF ReloadTo, NodeTypes, ReloadType
<1>6. CASE WriteAck
  <2>1. reload.request.id \in 1 .. MaxRequests
    BY <1>0, <1>6 DEF WriteAck, ReloadAt, Gated, Processing, NodeTypes, ReloadType, Request
  <2> QED BY <1>0, <1>5, <1>6, <2>1 DEF WriteAck, NodeTypes
<1>7. CASE Compare
  BY <1>0, <1>5, <1>7 DEF Compare, NodeTypes
<1>8. CASE EndReconcile
  BY <1>0, <1>5, <1>8 DEF EndReconcile, NodeTypes, AppTypes, GateType
<1>9. CASE \/ ResumePeer \/ ClearControl \/ ReadAck \/ EnterRetirement \/ EndRetirement
           \/ EnterReconcile \/ Acknowledge
  BY <1>0, <1>5, <1>9 DEF ResumePeer, ClearControl, ReadAck, EnterRetirement, EndRetirement,
                          EnterReconcile, Acknowledge, NodeTypes
<1>10. CASE ReloadStep
  BY <1>1, <1>2, <1>3, <1>4, <1>6, <1>7, <1>8, <1>9, <1>10 DEF ReloadStep, RetirePeer, PeerChanged
<1>11. CASE CallStep \/ GateStep
  BY <1>1, <1>11 DEF CallStep, GateStep, Enter, Admit, Cut, CallEnds, Reconcile, CloseRuntime
<1>12. CASE CliStep
  BY <1>1, <1>12 DEF CliStep, AddPeer, BeginEdit, ClearAck, Publish, Retired, Commit, Reloaded,
                     EditFails, CliDies
<1>13. CASE UNCHANGED vars
  BY <1>1, <1>13 DEF vars
<1> QED BY <1>2, <1>3, <1>10, <1>11, <1>12, <1>13 DEF Next, NodeStops, RuntimeStaysOpen

(* Types of the application.                                               *)
LEMMA AppTypesStep ==
  ASSUME IInv, [Next]_vars
  PROVE  AppTypes'
<1>0. DiskTypes /\ NodeTypes /\ AppTypes /\ Gated
  BY TypesSplit DEF IInv
<1>1. CASE UNCHANGED appVars
  BY <1>0, <1>1 DEF AppTypes, appVars
<1>2. CASE Exit
  BY <1>2, Bounds, Blanks DEF Exit, AppTypes
<1>3. ASSUME NEW h \in Calls \cup {"reload", "retire"}, NEW w \in SUBSET Peers,
             gate' = [Free EXCEPT !.holder = h, !.stage = "read", !.want = w]
                     \/ gate' = [Free EXCEPT !.holder = h, !.stage = "read"],
             UNCHANGED <<runtimes, live, left, blocked, leases>>
      PROVE  AppTypes'
  <2>1. gate' \in GateType
    BY <1>3, Blanks DEF GateType
  <2> QED BY <1>0, <1>3, <2>1 DEF AppTypes
<1>4. CASE \E c \in Calls : Enter(c, Peers) \/ \E p \in Peers : Enter(c, {p})
  <2>1. PICK c \in Calls, w \in SUBSET Peers : Enter(c, w)
    BY <1>4
  <2> QED BY <1>3, <2>1 DEF Enter
<1>5. CASE EnterRetirement \/ EnterReconcile
  <2>1. PICK h \in {"reload", "retire"} : Open(h) /\ UNCHANGED <<runtimes, live, left, blocked, leases>>
    BY <1>5 DEF EnterRetirement, EnterReconcile
  <2>2. gate' \in GateType
    BY <2>1, Blanks DEF Open, GateType
  <2> QED BY <1>0, <2>1, <2>2 DEF AppTypes
<1>6. ASSUME NEW ids \in SUBSET Peers, Retire(ids, config), UNCHANGED <<live, left, leases>>,
             blocked' \in Configs
      PROVE  AppTypes'
  <2>1. runtimes' \in Configs
    BY <1>0, <1>6, Bounds DEF Retire, AppTypes, Configs
  <2>2. {<<p, runtimes[p]>> : p \in ids} \in SUBSET (Peers \X (0 .. MaxVersion))
    BY <1>0 DEF AppTypes, Configs
  <2>3. gate' \in GateType
    BY <1>0, <1>6, <2>2 DEF Retire, AppTypes, GateType, DiskTypes
  <2> QED BY <1>0, <1>6, <2>1, <2>3 DEF AppTypes
<1>7. CASE Reconcile
  <2>1. blocked' \in Configs
    BY <1>0, <1>7, Bounds DEF Reconcile, AppTypes, Configs
  <2> QED BY <1>6, <1>7, <2>1 DEF Reconcile, Stale
<1>8. CASE RetirePeer
  <2>1. reload.request \in Request
    BY <1>0, <1>8 DEF RetirePeer, Holds, Gated, Processing, NodeTypes, ReloadType
  <2>2. reload.request.peer \in Peers /\ reload.request.version \in 0 .. MaxVersion
    BY <2>1, Bounds DEF Request
  <2>3. blocked' \in Configs
    BY <1>0, <1>8, <2>2, ConfigWith DEF RetirePeer, AppTypes
  <2> QED BY <1>6, <1>8, <2>2, <2>3 DEF RetirePeer
<1>9. ASSUME NEW x, CloseRuntime(x)
      PROVE  AppTypes'
  <2>1. gate' \in GateType
    BY <1>0, <1>9 DEF CloseRuntime, AppTypes, GateType
  <2> QED BY <1>0, <1>9, <2>1 DEF CloseRuntime, AppTypes
<1>10. ASSUME NEW c \in Calls, Admit(c)
       PROVE  AppTypes'
  <2> DEFINE use == {p \in gate.want : gate.seen[p] # 0 /\ blocked[p] = 0}
  <2>1. /\ runtimes' = [p \in Peers |-> IF p \in use THEN gate.seen[p] ELSE runtimes[p]]
        /\ live' = live \cup {<<p, gate.seen[p]>> : p \in use}
        /\ leases' = leases \cup {[call |-> c, peer |-> p, version |-> gate.seen[p]] : p \in use}
        /\ gate' = Free /\ blocked' = blocked /\ left' = left
    BY <1>10 DEF Admit
  <2>2. \A p \in use : p \in Peers /\ gate.seen[p] \in Versions
    BY <1>0, Bounds DEF AppTypes, GateType, Configs, Versions
  <2>3. \A p \in Peers : gate.seen[p] \in 0 .. MaxVersion
    BY <1>0 DEF AppTypes, GateType, Configs
  <2> HIDE DEF use
  <2>4. runtimes' \in Configs
    BY <1>0, <2>1, <2>3 DEF AppTypes, Configs
  <2>5. live' \subseteq Peers \X Versions
    BY <1>0, <2>1, <2>2 DEF AppTypes
  <2>6. leases' \subseteq Lease
    BY <1>0, <2>1, <2>2 DEF AppTypes, Lease
  <2> QED BY <1>0, <2>1, <2>4, <2>5, <2>6, Blanks DEF AppTypes
<1>11. CASE CallStep
  <2>1. CASE \E c \in Calls : Cut(c)
    BY <1>0, <2>1, Blanks DEF Cut, AppTypes
  <2>2. CASE \E l \in leases : CallEnds(l)
    BY <1>0, <2>2 DEF CallEnds, AppTypes
  <2> QED BY <1>4, <1>10, <1>11, <2>1, <2>2 DEF CallStep
<1>12. CASE EndRetirement \/ EndReconcile
  BY <1>0, <1>12, Blanks DEF EndRetirement, EndReconcile, AppTypes
<1>13. CASE ResumePeer
  <2>1. blocked' \in Configs
    BY <1>0, <1>13, Bounds DEF ResumePeer, AppTypes, Configs
  <2> QED BY <1>0, <1>13, <2>1 DEF ResumePeer, AppTypes
<1>14. CASE ReloadStep
  BY <1>1, <1>2, <1>5, <1>8, <1>12, <1>13, <1>14 DEF ReloadStep, Poll, ReadRequest, ClearControl,
         ReadAck, PeerChanged, WriteAck, Compare, Acknowledge
<1>15. CASE CliStep
  BY <1>1, <1>15 DEF CliStep, AddPeer, BeginEdit, ClearAck, Publish, Retired, Commit, Reloaded,
                     EditFails, CliDies
<1>16. CASE UNCHANGED vars
  BY <1>1, <1>16 DEF vars
<1> QED BY <1>1, <1>2, <1>7, <1>9, <1>11, <1>14, <1>15, <1>16
        DEF Next, GateStep, StartNode, NodeStops, RuntimeStaysOpen

(* Every step keeps the types.                                             *)
LEMMA TypesStep ==
  ASSUME IInv, [Next]_vars
  PROVE  Types'
BY DiskTypesStep, NodeTypesStep, AppTypesStep, TypesSplit
   DEF Types, TypeOK, DiskTypes, CliType, NodeTypes, AppTypes, GateType, ReloadType

-----------------------------------------------------------------------------
(* The end of the process leaves nothing of it.                            *)
LEMMA ExitFacts ==
  ASSUME Exit
  PROVE  /\ ~Running' /\ gate' = Free /\ reload' = NoReload /\ promised' = {}
         /\ runtimes' = Empty /\ live' = {} /\ left' = {} /\ blocked' = Empty /\ leases' = {}
         /\ UNCHANGED <<diskVars, cliVars>>
BY DEF Exit, Running

(* The fields of the records that steps replace.                           *)
LEMMA RecordFields ==
  ASSUME Types
  PROVE  /\ \A s : ReloadTo(s) => /\ reload'.stage = s /\ reload'.next = reload.next
                                  /\ reload'.request = reload.request
         /\ \A h : Open(h) => /\ gate.holder = None /\ gate'.holder = h /\ gate'.stage = "read"
                              /\ gate'.retiring = {}
         /\ \A ids, seen : Retire(ids, seen) =>
              /\ gate'.holder = gate.holder /\ gate'.stage = "retire" /\ gate'.seen = seen
              /\ gate'.retiring = {<<p, runtimes[p]>> : p \in ids}
         /\ \A s : Go(s) => /\ cli'.stage = s /\ cli'.peer = cli.peer /\ cli'.version = cli.version
                            /\ cli'.config = cli.config /\ cli'.id = cli.id
         /\ Free.holder = None /\ Free.stage = "free" /\ Free.retiring = {}
         /\ NoReload.stage = "idle" /\ NoReload.next = Empty /\ NoReload.request = None
         /\ NoCli.stage = "idle" /\ NoCli.id = 0
<1>1. reload \in ReloadType /\ gate \in GateType /\ cli \in CliType
  BY DEF Types, TypeOK, CliType
<1>2. ASSUME NEW s, ReloadTo(s)
      PROVE  reload'.stage = s /\ reload'.next = reload.next /\ reload'.request = reload.request
  BY <1>1, <1>2 DEF ReloadTo, ReloadType
<1>3. ASSUME NEW h, Open(h)
      PROVE  /\ gate.holder = None /\ gate'.holder = h /\ gate'.stage = "read" /\ gate'.retiring = {}
  BY <1>3 DEF Open, Free
<1>4. ASSUME NEW ids, NEW seen, Retire(ids, seen)
      PROVE  /\ gate'.holder = gate.holder /\ gate'.stage = "retire" /\ gate'.seen = seen
             /\ gate'.retiring = {<<p, runtimes[p]>> : p \in ids}
  BY <1>1, <1>4 DEF Retire, GateType
<1>5. ASSUME NEW s, Go(s)
      PROVE  /\ cli'.stage = s /\ cli'.peer = cli.peer /\ cli'.version = cli.version
             /\ cli'.config = cli.config /\ cli'.id = cli.id
  BY <1>1, <1>5 DEF Go, CliType
<1> QED BY <1>2, <1>3, <1>4, <1>5 DEF Free, NoReload, NoCli

(* Every step keeps the gate with who holds it.                            *)
LEMMA GatedStep ==
  ASSUME IInv, [Next]_vars
  PROVE  Gated'
<1>0. Types /\ Gated /\ ("down" # "starting" /\ "down" # "up")
  BY DEF IInv
<1>1. CASE UNCHANGED <<gate, reload, promised, node>>
  BY <1>0, <1>1 DEF Gated, Running
<1>2. CASE Exit
  BY <1>0, <1>2, ExitFacts, RecordFields, Bounds DEF Gated, Processing
<1>3. CASE CliStep \/ UNCHANGED vars
  BY <1>1, <1>3 DEF CliStep, AddPeer, BeginEdit, ClearAck, Publish, Retired, Commit, Reloaded,
                    EditFails, CliDies, appVars, nodeVars, vars
<1>4. CASE CallStep
  <2>1. ASSUME NEW c \in Calls, NEW w, Enter(c, w)
        PROVE  Gated'
    <3>1. gate'.holder = c /\ gate'.stage = "read" /\ gate'.retiring = {}
      BY <2>1 DEF Enter, Free
    <3>2. c # None /\ c # "retire" /\ c # "reload" /\ node = "up" /\ gate.holder = None
      BY <2>1, Bounds DEF Enter
    <3> QED BY <1>0, <2>1, <3>1, <3>2, Bounds DEF Enter, Gated, Running, nodeVars
  <2>2. ASSUME NEW c \in Calls, Admit(c) \/ Cut(c)
        PROVE  Gated'
    <3>1. gate.holder = c /\ gate' = Free /\ UNCHANGED nodeVars
      BY <2>2 DEF Admit, Cut, Holds
    <3> QED BY <1>0, <3>1, RecordFields, Bounds DEF Gated, Running, nodeVars
  <2>3. ASSUME NEW l, CallEnds(l)
        PROVE  Gated'
    BY <1>1, <2>3 DEF CallEnds, nodeVars
  <2> QED BY <1>4, <2>1, <2>2, <2>3 DEF CallStep
<1>5. CASE GateStep
  <2>1. CASE Reconcile
    <3>1. /\ UNCHANGED nodeVars /\ gate'.holder = gate.holder /\ gate'.stage = "retire"
          /\ gate.stage = "read"
      BY <1>0, <2>1, RecordFields DEF Reconcile
    <3> QED BY <1>0, <3>1, RecordFields DEF Gated, Running, nodeVars
  <2>2. ASSUME NEW x, CloseRuntime(x)
        PROVE  Gated'
    <3>1. /\ UNCHANGED nodeVars /\ gate'.holder = gate.holder /\ gate'.stage = "retire"
          /\ gate.stage = "retire"
      BY <1>0, <2>2 DEF CloseRuntime, Types, GateType
    <3> QED BY <1>0, <3>1, RecordFields DEF Gated, Running, nodeVars
  <2> QED BY <1>5, <2>1, <2>2 DEF GateStep
<1>6. CASE StartNode \/ Poll
  <2>1. /\ reload'.stage = "request" /\ UNCHANGED gate /\ Running' /\ reload.stage = "idle"
    BY <1>0, <1>6, RecordFields DEF StartNode, Poll, NoReload, Gated, ReloadAt, Running, appVars
  <2> QED BY <1>0, <2>1 DEF Gated, Running, Processing
<1>7. CASE ReadRequest
  <2>1. /\ Running /\ reload.stage = "request" /\ UNCHANGED <<gate, node, promised>>
        /\ reload'.request = request
        /\ reload'.stage \in {"compare", "resume", "ack"}
        /\ reload'.stage # "compare" => request # None
    BY <1>0, <1>7 DEF ReadRequest, ReloadAt, Types, ReloadType, appVars
  <2> QED BY <1>0, <2>1 DEF Gated, Running, Processing
<1>8. CASE ResumePeer \/ ClearControl \/ ReadAck \/ WriteAck \/ Acknowledge
  <2>1. /\ Running /\ UNCHANGED <<gate, node>> /\ reload'.request = reload.request
        /\ reload'.stage \in {"clear", "compare", "retire", "idle"}
        /\ reload'.stage \in {"clear", "retire"} => reload.stage \in {"resume", "ack"}
        /\ reload.stage \in {"resume", "clear", "ack", "write", "publish"}
    BY <1>0, <1>8, RecordFields DEF ResumePeer, ClearControl, ReadAck, WriteAck, Acknowledge,
                                    ReloadAt, appVars
  <2> QED BY <1>0, <2>1 DEF Gated, Running, Processing
<1>9. CASE Compare
  <2>1. /\ Running /\ Running' /\ UNCHANGED gate /\ reload'.request = reload.request
        /\ reload'.stage \in {"publish", "idle", "reconcile"} /\ reload.stage = "compare"
    BY <1>0, <1>9, RecordFields DEF Compare, ReloadAt, Running, appVars
  <2> QED BY <1>0, <2>1 DEF Gated, Processing
<1>10. CASE EnterRetirement \/ EnterReconcile
  <2>1. /\ Running /\ UNCHANGED <<node, promised>> /\ reload'.request = reload.request
        /\ gate'.stage = "read" /\ gate'.retiring = {} /\ gate.holder = None
        /\ \/ reload'.stage = "retiring" /\ gate'.holder = "retire" /\ reload.stage = "retire"
           \/ reload'.stage = "reconciling" /\ gate'.holder = "reload" /\ reload.stage = "reconcile"
    BY <1>0, <1>10, RecordFields DEF EnterRetirement, EnterReconcile, ReloadAt
  <2> QED BY <1>0, <2>1, Bounds DEF Gated, Running, Processing
<1>11. CASE RetirePeer
  <2>1. /\ UNCHANGED nodeVars /\ gate'.holder = gate.holder /\ gate'.stage = "retire"
        /\ gate.stage = "read"
    BY <1>0, <1>11, RecordFields DEF RetirePeer, Holds
  <2> QED BY <1>0, <2>1, RecordFields DEF Gated, Running, nodeVars
<1>12. CASE EndRetirement \/ EndReconcile
  <2>1. /\ gate' = Free /\ UNCHANGED <<node, promised>> /\ reload'.request = reload.request
        /\ \/ gate.holder = "retire" /\ reload'.stage = "write"
           \/ gate.holder = "reload" /\ reload'.stage = "publish"
    BY <1>0, <1>12, RecordFields DEF EndRetirement, EndReconcile, Holds
  <2> QED BY <1>0, <2>1, RecordFields, Bounds DEF Gated, Running, Processing
<1> QED BY <1>2, <1>3, <1>4, <1>5, <1>6, <1>7, <1>8, <1>9, <1>10, <1>11, <1>12
        DEF Next, ReloadStep, PeerChanged, NodeStops, RuntimeStaysOpen

-----------------------------------------------------------------------------
(* A step that touches neither runtimes nor leases nor the gate, ...       *)
LEMMA KnownKept ==
  ASSUME Known, UNCHANGED <<runtimes, live, left, leases, gate>>
  PROVE  Known'
BY DEF Known

(* ... and one that ends with nothing to retire, and nothing to open.      *)
LEMMA KnownFreed ==
  ASSUME Types, Known, gate.retiring = {}, gate'.retiring = {},
         gate'.stage # "retire",
         UNCHANGED <<runtimes, live, left>>, leases' \subseteq leases
  PROVE  Known'
BY DEF Known

(* Whoever retires runtimes takes them out of the map.                     *)
LEMMA KnownRetire ==
  ASSUME Types, Known, gate.stage = "read", gate.retiring = {}, NEW ids \in SUBSET Peers,
         Retire(ids, config), UNCHANGED <<live, left, leases>>,
         gate.holder \in Calls => ids = Stale
  PROVE  Known'
<1>a. /\ gate'.holder = gate.holder /\ gate'.stage = "retire" /\ gate'.seen = config
      /\ gate'.retiring = {<<p, runtimes[p]>> : p \in ids}
  BY RecordFields
<1>b. \A p \in Peers : runtimes'[p] = IF p \in ids THEN 0 ELSE runtimes[p]
  BY DEF Retire
<1>1. /\ gate'.holder = gate.holder /\ gate'.stage = "retire" /\ gate'.seen = config
      /\ gate'.retiring = {<<p, runtimes[p]>> : p \in ids}
      /\ \A p \in Peers : runtimes'[p] = IF p \in ids THEN 0 ELSE runtimes[p]
  BY <1>a, <1>b
<1>2. \A p \in Peers, v \in 0 .. MaxVersion : <<p, v>> \in gate'.retiring <=> p \in ids /\ v = runtimes[p]
  BY <1>1
<1>3. \A p \in Peers, v \in Versions :
        <<p, v>> \in live' \ left' => runtimes'[p] = v \/ <<p, v>> \in gate'.retiring
  BY <1>1, <1>2 DEF Known
<1>4. \A p \in Peers, v \in 0 .. MaxVersion : <<p, v>> \in gate'.retiring => runtimes'[p] = 0
  BY <1>1, <1>2
<1>5. \A p \in Peers, v, w \in 0 .. MaxVersion : {<<p, v>>, <<p, w>>} \subseteq gate'.retiring => v = w
  BY <1>2
<1>6. gate'.holder \in Calls => \A p \in Peers : runtimes'[p] \in {0, gate'.seen[p]}
  BY <1>1 DEF Stale
<1> QED BY <1>3, <1>4, <1>5, <1>6 DEF Known

(* A runtime is closed when no lease uses it.                              *)
LEMMA KnownClosed ==
  ASSUME Types, Known, NEW x \in gate.retiring, CloseRuntime(x)
  PROVE  Known'
<1>1. /\ gate'.holder = gate.holder /\ gate'.stage = gate.stage /\ gate'.seen = gate.seen
      /\ gate'.retiring = gate.retiring \ {x}
      /\ live' = live \ {x} /\ UNCHANGED <<runtimes, left, leases>>
  BY DEF CloseRuntime, Types, GateType
<1>2. \A l \in leases : <<l.peer, l.version>> # x
  BY DEF CloseRuntime, Leased
<1> QED BY <1>1, <1>2 DEF Known

(* What a call opens replaces nothing that is open.                        *)
LEMMA KnownAdmit ==
  ASSUME Types, Known, BlockedOut, NEW c \in Calls, Admit(c)
  PROVE  Known' /\ BlockedOut'
<1> DEFINE use == {p \in gate.want : gate.seen[p] # 0 /\ blocked[p] = 0}
<1>1. /\ gate.holder = c /\ gate.stage = "retire" /\ gate.retiring = {} /\ blocked' = blocked
      /\ left' = left
      /\ \A p \in Peers : runtimes'[p] = IF p \in use THEN gate.seen[p] ELSE runtimes[p]
      /\ live' = live \cup {<<p, gate.seen[p]>> : p \in use}
      /\ leases' = leases \cup {[call |-> c, peer |-> p, version |-> gate.seen[p]] : p \in use}
      /\ gate'.retiring = {} /\ gate'.stage = "free"
  BY DEF Admit, Holds, Free
<1>2. \A p \in use : blocked[p] = 0
  OBVIOUS
<1> HIDE DEF use
<1>3. \A p \in Peers, v \in Versions : <<p, v>> \in live \ left => runtimes[p] = v /\ v # 0
  BY <1>1, Bounds DEF Known, Versions
<1>4. \A p \in Peers : runtimes[p] \in {0, gate.seen[p]}
  BY <1>1 DEF Known
<1>5. \A p \in Peers, v \in Versions : <<p, v>> \in live' \ left' => runtimes'[p] = v
  BY <1>1, <1>3, <1>4
<1>6. \A l \in leases' : <<l.peer, l.version>> \in live'
  <2>1. ASSUME NEW p \in use, NEW l, l = [call |-> c, peer |-> p, version |-> gate.seen[p]]
        PROVE  <<l.peer, l.version>> \in live'
    BY <1>1, <2>1
  <2> QED BY <1>1, <2>1 DEF Known
<1>7. Known'
  BY <1>1, <1>5, <1>6 DEF Known
<1>8. \A l \in leases' : l \in leases \/ l.peer \in use
  BY <1>1
<1>9. BlockedOut'
  BY <1>1, <1>2, <1>8 DEF BlockedOut
<1> QED BY <1>7, <1>9

(* The end of the Node leaves nothing to know.                             *)
LEMMA KnownExit ==
  ASSUME Types, Exit
  PROVE  Known' /\ BlockedOut'
BY ExitFacts, RecordFields DEF Known, BlockedOut, Empty

(* Every step keeps what is known of the runtimes.                         *)
LEMMA KnownStep ==
  ASSUME IInv, [Next]_vars
  PROVE  Known'
<1>0. Types /\ Gated /\ Known /\ BlockedOut
  BY DEF IInv
<1>1. CASE CliStep \/ StartNode \/ UNCHANGED vars
  <2>1. UNCHANGED <<runtimes, live, left, leases, gate>>
    BY <1>1 DEF CliStep, AddPeer, BeginEdit, ClearAck, Publish, Retired, Commit, Reloaded,
                EditFails, CliDies, StartNode, appVars, vars
  <2> QED BY <1>0, <2>1, KnownKept
<1>2. CASE CallStep
  <2>1. ASSUME NEW c \in Calls, NEW w, Enter(c, w)
        PROVE  Known'
    <3>1. /\ gate'.retiring = {} /\ gate'.stage = "read" /\ gate.retiring = {}
          /\ UNCHANGED <<runtimes, live, left, leases>>
      BY <1>0, <2>1 DEF Enter, Free, Gated
    <3> QED BY <1>0, <3>1, KnownFreed
  <2>2. ASSUME NEW c \in Calls, Cut(c)
        PROVE  Known'
    <3>1. /\ gate' = Free /\ UNCHANGED <<runtimes, live, leases>>
          /\ left' = left \cup (gate.retiring \cap live)
      BY <2>2 DEF Cut
    <3>2. gate'.retiring = {} /\ gate'.stage = "free"
      BY <1>0, <3>1, RecordFields
    <3> QED BY <1>0, <3>1, <3>2 DEF Known
  <2>3. ASSUME NEW l \in leases, CallEnds(l)
        PROVE  Known'
    BY <1>0, <2>3 DEF CallEnds, Known
  <2> QED BY <1>0, <1>2, <2>1, <2>2, <2>3, KnownAdmit DEF CallStep
<1>3. CASE GateStep
  <2>1. CASE Reconcile
    <3>1. Stale \in SUBSET Peers /\ gate.retiring = {}
      BY <1>0, <2>1 DEF Stale, Reconcile, Gated
    <3> QED BY <1>0, <2>1, <3>1, KnownRetire DEF Reconcile
  <2> QED BY <1>0, <1>3, <2>1, KnownClosed DEF GateStep
<1>4. CASE ReloadStep
  <2>1. CASE \/ Poll \/ ReadRequest \/ ResumePeer \/ ClearControl \/ ReadAck \/ WriteAck
             \/ Compare \/ Acknowledge
    <3>1. UNCHANGED <<runtimes, live, left, leases, gate>>
      BY <2>1 DEF Poll, ReadRequest, ResumePeer, ClearControl, ReadAck, WriteAck, Compare,
                  Acknowledge, appVars
    <3> QED BY <1>0, <3>1, KnownKept
  <2>2. CASE EnterRetirement \/ EnterReconcile
    <3>1. /\ gate'.retiring = {} /\ gate'.stage = "read" /\ gate.retiring = {}
          /\ UNCHANGED <<runtimes, live, left, leases>>
      BY <1>0, <2>2, RecordFields DEF EnterRetirement, EnterReconcile, Gated
    <3> QED BY <1>0, <3>1, KnownFreed
  <2>3. CASE RetirePeer
    <3> DEFINE p == reload.request.peer
    <3>1. p \in Peers
      <4>1. reload.request \in Request
        BY <1>0, <2>3 DEF RetirePeer, Holds, Gated, Processing, Types, ReloadType
      <4> QED BY <4>1 DEF Request
    <3>2. /\ gate.stage = "read" /\ gate.holder = "retire" /\ Retire({p}, config)
          /\ UNCHANGED <<live, left, leases>>
      BY <2>3 DEF RetirePeer, Holds
    <3>3. gate.retiring = {} /\ gate.holder \notin Calls
      BY <1>0, <3>2, Bounds DEF Gated
    <3> HIDE DEF p
    <3> QED BY <1>0, <3>1, <3>2, <3>3, KnownRetire
  <2>4. CASE EndRetirement \/ EndReconcile
    <3>1. gate.retiring = {} /\ gate' = Free /\ UNCHANGED <<runtimes, live, left, leases>>
      BY <2>4 DEF EndRetirement, EndReconcile
    <3> QED BY <1>0, <3>1, RecordFields, KnownFreed
  <2> QED BY <1>0, <1>4, <2>1, <2>2, <2>3, <2>4, KnownExit DEF ReloadStep, PeerChanged
<1> QED BY <1>0, <1>1, <1>2, <1>3, <1>4, KnownExit DEF Next, NodeStops, RuntimeStaysOpen

(* Every step keeps what was replaced out of the configuration.            *)
LEMMA ReplacedStep ==
  ASSUME IInv, [Next]_vars
  PROVE  Replaced'
<1>0. Types /\ Gated /\ Replaced
  BY DEF IInv
<1>t. /\ config \in Configs /\ runtimes \in Configs /\ gate.seen \in Configs
      /\ gate \in GateType /\ drawn \in Nat /\ drawn >= 1
      /\ \A p \in Peers : config[p] \in Nat /\ runtimes[p] \in Nat /\ gate.seen[p] \in Nat
      /\ left \subseteq Peers \X Versions
      /\ gate.retiring \subseteq Peers \X (0 .. MaxVersion)
  BY <1>0, Bounds DEF Types, TypeOK, GateType, Configs, Versions
<1>z. Free.seen = Empty /\ Free.retiring = {} /\ Free.holder = None /\ \A p \in Peers : Empty[p] = 0
  BY DEF Free, Empty
<1>1. ASSUME UNCHANGED <<config, drawn, left, runtimes>>, gate'.seen \in {gate.seen, Empty},
             \/ gate'.retiring = {}
             \/ gate'.holder = gate.holder /\ gate'.retiring \subseteq gate.retiring
      PROVE  Replaced'
  BY <1>0, <1>1, <1>t, <1>z DEF Replaced
<1>2. ASSUME UNCHANGED <<config, drawn, left, runtimes, gate>>
      PROVE  Replaced'
  BY <1>0, <1>2 DEF Replaced
<1>3. CASE CliStep
  <2>0. UNCHANGED <<left, runtimes, gate>>
    BY <1>3 DEF CliStep, AddPeer, BeginEdit, ClearAck, Publish, Retired, Commit, Reloaded,
                EditFails, CliDies, appVars
  <2>1. ASSUME NEW p \in Peers, NEW v \in {0, drawn + 1}, config' = [config EXCEPT ![p] = v],
               (drawn' = drawn /\ v = 0) \/ drawn' = drawn + 1
        PROVE  Replaced'
    <3>1. drawn' >= drawn /\ drawn' \in Nat /\ \A q \in Peers : config'[q] <= drawn'
      BY <1>0, <1>t, <2>1 DEF Replaced, Configs
    <3>2. \A q \in Peers : runtimes'[q] <= drawn' /\ gate'.seen[q] <= drawn'
      BY <1>0, <1>t, <2>0, <3>1 DEF Replaced
    <3>3. ASSUME NEW x \in Peers \X (0 .. MaxVersion), x[2] <= drawn, config[x[1]] # x[2], x[2] # 0
          PROVE  x[2] <= drawn' /\ config'[x[1]] # x[2]
      BY <1>t, <2>1, <3>1, <3>3, Bounds DEF Configs
    <3>4. left \subseteq Peers \X (0 .. MaxVersion) /\ \A x \in left : x[2] # 0
      BY <1>t, Bounds DEF Versions
    <3>5. gate.holder \in Calls => \A x \in gate.retiring : x[2] # 0
      BY <1>0 DEF Replaced
    <3>6. \A x \in left : x[2] <= drawn' /\ config'[x[1]] # x[2]
      BY <1>0, <3>3, <3>4 DEF Replaced
    <3>7. gate.holder \in Calls => \A x \in gate.retiring : x[2] <= drawn' /\ config'[x[1]] # x[2]
      BY <1>0, <1>t, <3>3, <3>5 DEF Replaced
    <3> QED BY <2>0, <3>1, <3>2, <3>5, <3>6, <3>7 DEF Replaced
  <2>2. ASSUME NEW p \in Peers, AddPeer(p)
        PROVE  Replaced'
    BY <2>1, <2>2 DEF AddPeer
  <2>3. CASE Commit
    <3>1. cli.peer \in Peers
      BY <2>3 DEF Commit, At, IInv, Editing
    <3> QED BY <2>1, <2>3, <3>1 DEF Commit
  <2>4. CASE UNCHANGED <<config, drawn>>
    BY <1>2, <2>0, <2>4
  <2> QED BY <1>3, <2>2, <2>3, <2>4 DEF CliStep, BeginEdit, ClearAck, Publish, Retired, Reloaded,
                                        EditFails, CliDies, diskVars
<1>4. ASSUME NEW c \in Calls, Cut(c)
      PROVE  Replaced'
  <2>1. /\ gate.holder \in Calls /\ left' \subseteq left \cup gate.retiring
        /\ gate' = Free /\ UNCHANGED <<config, drawn, runtimes>>
    BY <1>4 DEF Cut, diskVars
  <2> QED BY <1>0, <1>t, <1>z, <2>1 DEF Replaced
<1>5. ASSUME NEW c \in Calls, Admit(c)
      PROVE  Replaced'
  <2>1. /\ gate' = Free /\ UNCHANGED <<config, drawn, left>>
        /\ \A p \in Peers : runtimes'[p] \in {runtimes[p], gate.seen[p]}
    BY <1>5 DEF Admit, diskVars
  <2> QED BY <1>0, <1>t, <1>z, <2>1 DEF Replaced
<1>6. ASSUME NEW ids \in SUBSET Peers, Retire(ids, config), gate.holder \in Calls => ids = Stale,
             UNCHANGED <<config, drawn, left>>
      PROVE  Replaced'
  <2>1. /\ gate'.holder = gate.holder /\ gate'.seen = config
        /\ gate'.retiring = {<<p, runtimes[p]>> : p \in ids}
    BY <1>0, <1>6, RecordFields
  <2>2. \A p \in Peers : runtimes'[p] \in {0, runtimes[p]}
    BY <1>6 DEF Retire
  <2>3. ASSUME gate.holder \in Calls, NEW x \in gate'.retiring
        PROVE  x[2] # 0 /\ x[2] <= drawn /\ config[x[1]] # x[2]
    <3>1. PICK p \in ids : x = <<p, runtimes[p]>>
      BY <2>1, <2>3
    <3>2. p \in Peers /\ runtimes[p] # 0 /\ runtimes[p] # config[p]
      BY <1>6, <2>3, <3>1 DEF Stale
    <3> QED BY <1>0, <3>1, <3>2 DEF Replaced
  <2> QED BY <1>0, <1>6, <1>t, <2>1, <2>2, <2>3 DEF Replaced
<1>7. CASE Reconcile
  <2>1. Stale \in SUBSET Peers /\ UNCHANGED <<config, drawn, left>>
    BY <1>7 DEF Stale, Reconcile, diskVars
  <2> QED BY <1>6, <1>7, <2>1 DEF Reconcile
<1>8. CASE RetirePeer
  <2>1. reload.request \in Request
    BY <1>0, <1>8 DEF RetirePeer, Holds, Gated, Processing, Types, ReloadType
  <2>2. {reload.request.peer} \in SUBSET Peers /\ gate.holder \notin Calls
    BY <1>8, <2>1, Bounds DEF Request, RetirePeer, Holds
  <2>3. Retire({reload.request.peer}, config) /\ UNCHANGED <<config, drawn, left>>
    BY <1>8 DEF RetirePeer, diskVars
  <2> QED BY <1>6, <2>2, <2>3
<1>9. ASSUME NEW x, CloseRuntime(x)
      PROVE  Replaced'
  <2>1. /\ gate'.holder = gate.holder /\ gate'.seen = gate.seen
        /\ gate'.retiring = gate.retiring \ {x} /\ UNCHANGED <<config, drawn, left, runtimes>>
    BY <1>9, <1>t DEF CloseRuntime, GateType, diskVars
  <2> QED BY <1>1, <2>1
<1>10. ASSUME NEW c \in Calls, NEW w, Enter(c, w)
       PROVE  Replaced'
  <2>1. gate'.seen = Empty /\ gate'.retiring = {} /\ UNCHANGED <<config, drawn, left, runtimes>>
    BY <1>10 DEF Enter, Free, diskVars
  <2> QED BY <1>1, <2>1
<1>11. ASSUME NEW l, CallEnds(l)
       PROVE  Replaced'
  BY <1>2, <1>11 DEF CallEnds, diskVars
<1>12. CASE EnterRetirement \/ EnterReconcile
  <2>1. gate'.seen = Empty /\ gate'.retiring = {} /\ UNCHANGED <<config, drawn, left, runtimes>>
    BY <1>12 DEF EnterRetirement, EnterReconcile, Open, Free, diskVars
  <2> QED BY <1>1, <2>1
<1>13. CASE EndRetirement \/ EndReconcile
  <2>1. gate' = Free /\ UNCHANGED <<config, drawn, left, runtimes>>
    BY <1>13 DEF EndRetirement, EndReconcile, diskVars
  <2> QED BY <1>1, <1>z, <2>1
<1>14. CASE \/ Poll \/ ReadRequest \/ ResumePeer \/ ClearControl \/ ReadAck \/ WriteAck
            \/ Compare \/ Acknowledge \/ StartNode \/ UNCHANGED vars
  BY <1>2, <1>14 DEF Poll, ReadRequest, ResumePeer, ClearControl, ReadAck, WriteAck, Compare,
         Acknowledge, StartNode, appVars, diskVars, vars
<1>15. CASE Exit
  <2>1. /\ left' = {} /\ runtimes' = Empty /\ gate' = Free /\ UNCHANGED <<config, drawn>>
    BY <1>15, ExitFacts DEF diskVars
  <2> QED BY <1>0, <1>t, <1>z, <2>1 DEF Replaced
<1> QED BY <1>3, <1>4, <1>5, <1>7, <1>8, <1>9, <1>10, <1>11, <1>12, <1>13, <1>14, <1>15
        DEF Next, CallStep, GateStep, ReloadStep, PeerChanged, NodeStops, RuntimeStaysOpen

(* Every step keeps blocked Peers out.                                     *)
LEMMA BlockedStep ==
  ASSUME IInv, [Next]_vars
  PROVE  BlockedOut'
<1>0. Types /\ Gated /\ Known /\ BlockedOut
  BY DEF IInv
<1>1. ASSUME UNCHANGED <<runtimes, blocked>>, leases' \subseteq leases,
             gate'.retiring \subseteq gate.retiring,
             gate.holder = "retire" =>
               gate'.retiring = gate.retiring /\ (gate'.holder = "retire" \/ gate.retiring = {})
      PROVE  BlockedOut'
  BY <1>0, <1>1 DEF BlockedOut
<1>2. CASE CliStep \/ StartNode \/ UNCHANGED vars
  <2>1. UNCHANGED <<runtimes, blocked, leases, gate>>
    BY <1>2 DEF CliStep, AddPeer, BeginEdit, ClearAck, Publish, Retired, Commit, Reloaded,
                EditFails, CliDies, StartNode, appVars, vars
  <2> QED BY <1>0, <2>1 DEF BlockedOut
<1>3. CASE CallStep
  <2>1. ASSUME NEW c \in Calls, NEW w, Enter(c, w)
        PROVE  BlockedOut'
    <3>1. gate.holder = None /\ gate'.retiring = {} /\ UNCHANGED <<runtimes, blocked, leases>>
      BY <1>0, <2>1 DEF Enter, Free
    <3> QED BY <1>1, <3>1, Bounds
  <2>2. ASSUME NEW c \in Calls, Cut(c)
        PROVE  BlockedOut'
    <3>1. gate' = Free /\ gate.holder # "retire" /\ UNCHANGED <<runtimes, blocked, leases>>
      BY <2>2, Bounds DEF Cut
    <3> QED BY <1>0, <1>1, <3>1, RecordFields
  <2>3. ASSUME NEW l \in leases, CallEnds(l)
        PROVE  BlockedOut'
    <3>1. leases' \subseteq leases /\ UNCHANGED <<runtimes, blocked, gate>>
      BY <2>3 DEF CallEnds
    <3> QED BY <1>0, <3>1 DEF BlockedOut
  <2> QED BY <1>0, <1>3, <2>1, <2>2, <2>3, KnownAdmit DEF CallStep
<1>4. CASE GateStep
  <2>1. CASE Reconcile
    <3>1. /\ gate'.retiring = {<<p, runtimes[p]>> : p \in Stale}
          /\ \A p \in Peers : runtimes'[p] = IF p \in Stale THEN 0 ELSE runtimes[p]
          /\ \A p \in Peers : blocked'[p] # 0 => blocked[p] # 0
          /\ gate.holder # "retire" /\ UNCHANGED leases
      BY <1>0, <2>1, RecordFields, Bounds DEF Reconcile, Retire
    <3>2. \A p \in Peers : blocked'[p] # 0 => /\ runtimes[p] = 0 /\ p \notin Stale
                                             /\ \A l \in leases : l.peer # p
      BY <1>0, <3>1 DEF BlockedOut, Stale
    <3> QED BY <3>1, <3>2 DEF BlockedOut
  <2>2. ASSUME NEW x, CloseRuntime(x)
        PROVE  BlockedOut'
    <3>1. /\ gate'.holder = gate.holder /\ gate'.retiring = gate.retiring \ {x}
          /\ UNCHANGED <<runtimes, blocked, leases>>
          /\ \A l \in leases : l.peer # x[1]
      BY <1>0, <2>2 DEF CloseRuntime, Types, GateType, Leased
    <3>2. ASSUME NEW p \in Peers, blocked[p] # 0
          PROVE  \/ \A l \in leases : l.peer # p
                 \/ gate'.holder = "retire" /\ \E v \in 0 .. MaxVersion : <<p, v>> \in gate'.retiring
      <4>1. CASE x[1] = p
        BY <3>1, <4>1
      <4>2. CASE x[1] # p
        BY <1>0, <3>1, <3>2, <4>2 DEF BlockedOut
      <4> QED BY <4>1, <4>2
    <3> QED BY <1>0, <3>1, <3>2 DEF BlockedOut
  <2> QED BY <1>4, <2>1, <2>2 DEF GateStep
<1>5. CASE ReloadStep
  <2>1. CASE \/ Poll \/ ReadRequest \/ ClearControl \/ ReadAck \/ WriteAck
             \/ Compare \/ Acknowledge
    <3>1. UNCHANGED <<runtimes, blocked, leases, gate>>
      BY <2>1 DEF Poll, ReadRequest, ClearControl, ReadAck, WriteAck, Compare,
                  Acknowledge, appVars
    <3> QED BY <1>0, <3>1 DEF BlockedOut
  <2>2. CASE ResumePeer
    <3>1. UNCHANGED <<runtimes, gate, leases>> /\ \A p \in Peers : blocked'[p] # 0 => blocked[p] # 0
      BY <1>0, <2>2 DEF ResumePeer, Types, TypeOK, Configs
    <3> QED BY <1>0, <3>1 DEF BlockedOut
  <2>3. CASE EnterRetirement \/ EnterReconcile
    <3>1. gate.holder = None /\ gate'.retiring = {} /\ UNCHANGED <<runtimes, blocked, leases>>
      BY <1>0, <2>3, RecordFields DEF EnterRetirement, EnterReconcile
    <3> QED BY <1>1, <3>1, Bounds
  <2>4. CASE RetirePeer
    <3> DEFINE r == reload.request
    <3>1. /\ gate.holder = "retire" /\ Retire({r.peer}, config) /\ UNCHANGED leases
          /\ gate.stage = "read"
          /\ blocked' = [blocked EXCEPT ![r.peer] = r.version]
      BY <2>4 DEF RetirePeer, Holds
    <3>2. /\ gate'.holder = "retire"
          /\ \A p \in Peers : runtimes'[p] = IF p = r.peer THEN 0 ELSE runtimes[p]
          /\ \A p \in Peers : p # r.peer => blocked'[p] = blocked[p]
          /\ gate'.retiring = {<<r.peer, runtimes[r.peer]>>}
      <4>1. gate'.holder = "retire" /\ gate'.retiring = {<<p, runtimes[p]>> : p \in {r.peer}}
        BY <1>0, <3>1, RecordFields
      <4> QED BY <1>0, <3>1, <4>1 DEF Retire, Types, TypeOK, Configs
    <3>3. \A p \in Peers : runtimes[p] \in 0 .. MaxVersion
      BY <1>0 DEF Types, TypeOK, Configs
    <3>4. gate.retiring = {}
      BY <1>0, <3>1 DEF Gated
    <3> HIDE DEF r
    <3>5. \A p \in Peers : p # r.peer /\ blocked'[p] # 0 => \A l \in leases' : l.peer # p
      BY <1>0, <3>1, <3>2, <3>4 DEF BlockedOut
    <3>6. \A p \in Peers : p = r.peer => <<p, runtimes[p]>> \in gate'.retiring
      BY <3>2
    <3> QED BY <1>0, <3>2, <3>3, <3>5, <3>6 DEF BlockedOut
  <2>5. CASE EndRetirement \/ EndReconcile
    <3>1. gate' = Free /\ gate.retiring = {} /\ UNCHANGED <<runtimes, blocked, leases>>
      BY <2>5 DEF EndRetirement, EndReconcile
    <3> QED BY <1>0, <1>1, <3>1, RecordFields
  <2> QED BY <1>0, <1>5, <2>1, <2>2, <2>3, <2>4, <2>5, KnownExit DEF ReloadStep, PeerChanged
<1> QED BY <1>0, <1>2, <1>3, <1>4, <1>5, KnownExit DEF Next, NodeStops, RuntimeStaysOpen

-----------------------------------------------------------------------------
(* Only the command edits the configuration and itself.                    *)
LEMMA OthersEdit ==
  ASSUME [Next]_vars, ~CliStep
  PROVE  UNCHANGED <<config, cli, requests>>
BY DEF Next, CallStep, ReloadStep, GateStep, Enter, Admit, Cut, CallEnds, Poll, ReadRequest,
       ResumePeer, ClearControl, ReadAck, EnterRetirement, RetirePeer, PeerChanged, EndRetirement,
       WriteAck, Compare, EnterReconcile, EndReconcile, Acknowledge, Reconcile, CloseRuntime,
       StartNode, NodeStops, RuntimeStaysOpen, Exit, vars, diskVars, cliVars

(* Every step keeps what an edit relies on.                                *)
LEMMA EditingStep ==
  ASSUME IInv, [Next]_vars
  PROVE  Editing'
<1>0. Types /\ Editing
  BY DEF IInv
<1>1. CASE ~CliStep
  BY <1>0, <1>1, OthersEdit DEF Editing
<1>2. ASSUME NEW p \in Peers, AddPeer(p)
      PROVE  Editing'
  BY <1>2 DEF AddPeer, At, cliVars, Editing
<1>3. ASSUME NEW p \in Peers, BeginEdit(p)
      PROVE  Editing'
  <2>1. requests + 1 # 0
    BY <1>0 DEF Types, TypeOK
  <2>2. /\ cli'.peer = p /\ cli'.version = config[p] /\ cli'.config = config /\ config' = config
        /\ cli'.stage \in {"clear", "commit"}
        /\ cli'.stage = "clear" => cli'.id # 0
        /\ config[p] # 0
    BY <1>3, <2>1 DEF BeginEdit, diskVars
  <2> QED BY <2>2 DEF Editing
<1>4. CASE ClearAck \/ Publish \/ Retired
  <2>1. /\ config' = config /\ cli'.peer = cli.peer /\ cli'.version = cli.version
        /\ cli'.config = cli.config /\ cli'.id = cli.id
        /\ cli.stage \in {"clear", "publish", "wait"} /\ cli'.stage \in {"publish", "wait", "commit"}
    BY <1>0, <1>4, RecordFields DEF ClearAck, Publish, Retired, At, diskVars
  <2> QED BY <1>0, <2>1 DEF Editing
<1>5. CASE Commit
  <2>1. cli'.peer = cli.peer /\ cli'.version = cli.version /\ cli'.stage = "reload" /\ cli.stage = "commit"
    BY <1>0, <1>5, RecordFields DEF Commit, At
  <2> QED BY <1>0, <2>1 DEF Editing
<1>6. CASE Reloaded \/ EditFails \/ CliDies
  <2>1. cli'.stage = "idle"
    BY <1>0, <1>6, RecordFields DEF Reloaded, EditFails, CliDies
  <2> QED BY <2>1 DEF Editing
<1> QED BY <1>1, <1>2, <1>3, <1>4, <1>5, <1>6 DEF CliStep

-----------------------------------------------------------------------------
(* The id of a request is a number.                                        *)
LEMMA IdTypes ==
  ASSUME Types
  PROVE  /\ requests \in Nat /\ ack \in Nat /\ cli.id \in Nat /\ promised \subseteq Nat \ {0}
         /\ request # None => request.id \in Nat \ {0}
         /\ reload.request # None => reload.request.id \in Nat \ {0}
<1>1. /\ requests \in 0 .. MaxRequests /\ ack \in 0 .. MaxRequests /\ cli \in CliType
      /\ promised \subseteq 1 .. MaxRequests /\ request \in Request \cup {None}
      /\ reload.request \in Request \cup {None}
  BY DEF Types, TypeOK, CliType, ReloadType
<1>2. 1 .. MaxRequests \subseteq Nat \ {0} /\ 0 .. MaxRequests \subseteq Nat
  BY Bounds
<1> QED BY <1>1, <1>2 DEF CliType, Request

(* A command draws the next id; the Node knows only ids that were drawn.   *)
LEMMA IdsStep ==
  ASSUME IInv, [Next]_vars
  PROVE  Ids'
<1>0. Types /\ Gated /\ Editing /\ Ids
  BY DEF IInv
<1>t. /\ requests \in Nat /\ ack \in Nat /\ cli.id \in Nat /\ promised \subseteq Nat \ {0}
      /\ request # None => request.id \in Nat \ {0}
      /\ reload.request # None => reload.request.id \in Nat \ {0}
  BY <1>0, IdTypes
<1>1. ASSUME UNCHANGED <<cli, requests>>,
             ack' \in {0, ack} \/ (reload.request # None /\ ack' = reload.request.id),
             promised' \subseteq promised \/ (reload.request # None /\ promised' = promised \cup {reload.request.id}),
             request' \in {request, None},
             reload'.request \in {reload.request, request, None}
      PROVE  Ids'
  <2>1. Own' = Own /\ (Asked' <=> Asked)
    BY <1>1 DEF Own, Asked
  <2>a. ack' <= requests
    BY <1>0, <1>1, <1>t DEF Ids
  <2>b. ASSUME NEW i \in promised'
        PROVE  i <= requests
    <3>1. i \in promised \/ (reload.request # None /\ i = reload.request.id)
      BY <1>1
    <3> QED BY <1>0, <3>1 DEF Ids
  <2>c. /\ request' # None => request'.id <= requests
        /\ reload'.request # None => reload'.request.id <= requests
    BY <1>0, <1>1 DEF Ids
  <2>2. /\ ack' <= requests /\ \A i \in promised' : i <= requests
        /\ request' # None => request'.id <= requests
        /\ reload'.request # None => reload'.request.id <= requests
    BY <2>a, <2>b, <2>c
  <2>3. cli.stage \in {"clear", "publish"} =>
          /\ ack' # cli.id /\ cli.id \notin promised'
          /\ request' # None => request'.id # cli.id
          /\ reload'.request # None => reload'.request.id # cli.id
    BY <1>0, <1>1, <1>t DEF Ids, Editing
  <2>4. Asked => /\ request' \in {None, Own}
                 /\ reload'.request # None /\ reload'.request.id = cli.id => reload'.request = Own
    BY <1>0, <1>1 DEF Ids
  <2> QED BY <1>0, <1>1, <2>1, <2>2, <2>3, <2>4 DEF Ids
<1>2. ASSUME NEW p \in Peers, AddPeer(p)
      PROVE  Ids'
  BY <1>1, <1>2 DEF AddPeer, cliVars, nodeVars
<1>3. ASSUME NEW p \in Peers, BeginEdit(p)
      PROVE  Ids'
  <2>1. /\ UNCHANGED <<ack, promised, request, reload>> /\ requests' = requests + 1
        /\ \/ cli'.stage = "clear" /\ cli'.id = requests + 1
           \/ cli'.stage = "commit" /\ cli'.id = 0
    BY <1>3 DEF BeginEdit, diskVars, nodeVars
  <2> QED BY <1>0, <1>t, <2>1 DEF Ids, Asked
<1>4. CASE ClearAck
  <2>1. /\ UNCHANGED <<promised, request, reload, requests>> /\ ack' = 0 /\ cli'.id = cli.id
        /\ cli.stage = "clear" /\ cli'.stage = "publish"
    BY <1>0, <1>4, RecordFields DEF ClearAck, At, nodeVars
  <2> QED BY <1>0, <1>t, <2>1 DEF Ids, Asked, Editing
<1>5. CASE Publish
  <2>1. /\ UNCHANGED <<ack, promised, reload, requests>> /\ cli'.id = cli.id /\ request' = Own /\ Own' = Own
        /\ cli.stage = "publish" /\ cli'.stage = "wait"
    BY <1>0, <1>5, RecordFields DEF Publish, At, nodeVars, Own
  <2>2. Own.id = cli.id /\ cli.id <= requests
    BY <1>0, <1>t, <2>1 DEF Own, Ids, Editing
  <2> QED BY <1>0, <1>t, <2>1, <2>2 DEF Ids, Asked
<1>6. CASE Retired \/ Commit
  <2>1. /\ UNCHANGED <<ack, promised, reload, requests, request>> /\ cli'.id = cli.id /\ Own' = Own
        /\ \/ cli.stage = "wait" /\ cli'.stage = "commit"
           \/ cli'.stage = "reload"
    BY <1>0, <1>6, RecordFields DEF Retired, Commit, At, diskVars, nodeVars, Own
  <2> QED BY <1>0, <2>1 DEF Ids, Asked
<1>7. CASE Reloaded \/ EditFails \/ CliDies
  <2>1. /\ UNCHANGED <<ack, promised, reload, requests>> /\ cli'.id = 0 /\ cli'.stage = "idle"
        /\ request' = request \/ (cli.id # 0 /\ request'.id = cli.id)
    BY <1>0, <1>7, RecordFields DEF Reloaded, EditFails, CliDies, diskVars, nodeVars
  <2> QED BY <1>0, <1>t, <2>1 DEF Ids, Asked
<1>8. CASE CallStep \/ GateStep \/ UNCHANGED vars
  BY <1>1, <1>8 DEF CallStep, GateStep, Enter, Admit, Cut, CallEnds, Reconcile, CloseRuntime,
                    vars, diskVars, cliVars, nodeVars
<1>9. CASE Exit
  <2>1. promised' = {} /\ reload'.request = None /\ UNCHANGED <<ack, request, cli, requests>>
    BY <1>0, <1>9, ExitFacts, RecordFields DEF diskVars, cliVars
  <2> QED BY <1>1, <2>1
<1>10. CASE StartNode \/ Poll
  <2>1. reload'.request = None /\ UNCHANGED <<ack, request, cli, requests, promised>>
    BY <1>10 DEF StartNode, Poll, NoReload, diskVars, cliVars
  <2> QED BY <1>1, <2>1
<1>11. CASE ReadRequest
  <2>1. reload'.request = request /\ UNCHANGED <<ack, request, cli, requests, promised>>
    BY <1>0, <1>11 DEF ReadRequest, Types, ReloadType, diskVars, cliVars
  <2> QED BY <1>1, <2>1
<1>12. CASE WriteAck
  <2>1. /\ reload'.request = reload.request /\ UNCHANGED <<request, cli, requests>>
        /\ ack' = reload.request.id /\ promised' = promised \cup {reload.request.id}
        /\ reload.request # None
    BY <1>0, <1>12, RecordFields DEF WriteAck, ReloadAt, Gated, Processing, cliVars
  <2> QED BY <1>1, <2>1
<1>13. CASE \/ ResumePeer \/ ClearControl \/ ReadAck \/ EnterRetirement \/ EndRetirement
            \/ Compare \/ EnterReconcile \/ EndReconcile \/ Acknowledge \/ RetirePeer
  <2>1. /\ reload'.request = reload.request /\ UNCHANGED <<cli, requests, promised>>
        /\ ack' \in {0, ack} /\ request' \in {request, None}
    BY <1>0, <1>13, RecordFields DEF ResumePeer, ClearControl, ReadAck, EnterRetirement, RetirePeer,
           EndRetirement, Compare, EnterReconcile, EndReconcile, Acknowledge, diskVars, cliVars, nodeVars
  <2> QED BY <1>1, <2>1
<1> QED BY <1>2, <1>3, <1>4, <1>5, <1>6, <1>7, <1>8, <1>9, <1>10, <1>11, <1>12, <1>13
        DEF Next, CliStep, ReloadStep, PeerChanged, NodeStops, RuntimeStaysOpen

-----------------------------------------------------------------------------
(* A command that has just published, or just got its answer, has the      *)
(* promise already: nothing of its id was known, or nothing else is left.  *)
LEMMA PromiseOfCli ==
  ASSUME IInv, CliStep
  PROVE  Promise'
<1>0. Types /\ Gated /\ Editing /\ Ids /\ Promise
  BY DEF IInv
<1>t. promised \subseteq Nat \ {0} /\ ack \in Nat
  BY <1>0, IdTypes
<1>1. CASE (\E p \in Peers : AddPeer(p)) \/ (\E p \in Peers : BeginEdit(p)) \/ ClearAck \/ Commit
           \/ Reloaded \/ EditFails \/ CliDies
  <2>1. ~Asked'
    <3>1. \A p \in Peers : AddPeer(p) => cli'.stage = "idle"
      BY DEF AddPeer, At, cliVars
    <3>2. \A p \in Peers : BeginEdit(p) => cli'.stage = "clear" \/ cli'.id = 0
      BY DEF BeginEdit
    <3>3. ClearAck \/ Commit => cli'.stage \in {"publish", "reload"}
      BY <1>0, RecordFields DEF ClearAck, Commit
    <3>4. Reloaded \/ EditFails \/ CliDies => cli'.stage = "idle"
      BY <1>0, RecordFields DEF Reloaded, EditFails, CliDies
    <3> QED BY <1>1, <3>1, <3>2, <3>3, <3>4 DEF Asked
  <2> QED BY <2>1 DEF Promise
<1>2. CASE Publish
  <2>1. /\ UNCHANGED <<ack, promised, reload, gate, blocked>> /\ cli'.id = cli.id
        /\ cli.stage = "publish" /\ cli'.stage = "wait"
    BY <1>0, <1>2, RecordFields DEF Publish, At, nodeVars, appVars
  <2>2. /\ ack # cli.id /\ cli.id \notin promised
        /\ reload.stage \in Processing => reload.request.id # cli.id
    BY <1>0, <2>1 DEF Ids, Gated
  <2>3. reload.stage = "write" \/ gate.holder = "retire" => reload.stage \in Processing
    BY <1>0 DEF Gated, Processing
  <2> QED BY <2>1, <2>2, <2>3 DEF Promise, At
<1>3. CASE Retired
  <2>1. /\ UNCHANGED <<ack, promised, reload, gate, blocked>> /\ cli'.id = cli.id
        /\ cli'.version = cli.version /\ cli'.peer = cli.peer /\ cli'.config = cli.config
        /\ cli.stage = "wait" /\ cli'.stage = "commit" /\ (ack = cli.id \/ ~Running)
    BY <1>0, <1>3, RecordFields DEF Retired, At, nodeVars, appVars, diskVars
  <2>2. ~Running => reload.stage \notin Processing /\ promised = {} /\ gate.holder # "retire"
    BY <1>0, RecordFields, Bounds DEF Gated, Processing
  <2>3. reload.stage \notin Processing => reload.stage # "write"
    BY DEF Processing
  <2> QED BY <1>0, <2>1, <2>2, <2>3 DEF Promise, Asked, At
<1> QED BY <1>1, <1>2, <1>3, <1>0 DEF CliStep

(* What the Node does while a command waits or commits.                    *)
LEMMA PromiseOfNode ==
  ASSUME IInv, [Next]_vars, UNCHANGED <<config, cli>>, Asked, ~CliStep
  PROVE  Promise'
<1>0. Types /\ Gated /\ Editing /\ Ids /\ Promise
  BY DEF IInv
<1>a. /\ cli.peer \in Peers /\ cli.version # 0 /\ cli.id # 0 /\ cli.stage # "idle"
      /\ config = cli.config /\ config[cli.peer] = cli.version
  BY <1>0 DEF Asked, Editing
<1>t. promised \subseteq Nat \ {0} /\ ack \in Nat
  BY <1>0, IdTypes
<1>p. \A s : s \in Processing <=> s \in {"resume", "clear", "ack", "retire", "retiring", "write"}
  BY DEF Processing
<1>1. ASSUME UNCHANGED <<reload, ack, promised>>, blocked'[cli.peer] = blocked[cli.peer],
             gate'.holder = "retire" /\ gate'.stage = "retire" => gate.holder = "retire" /\ gate.stage = "retire"
      PROVE  Promise'
  BY <1>0, <1>1 DEF Promise, Asked, At
<1>2. CASE CallStep
  <2>1. UNCHANGED <<reload, ack, promised, blocked>>
    BY <1>2 DEF CallStep, Enter, Admit, Cut, CallEnds, diskVars, nodeVars
  <2>2. gate'.holder = "retire" /\ gate'.stage = "retire" => gate.holder = "retire" /\ gate.stage = "retire"
    <3>1. \A c \in Calls : \A w : Enter(c, w) => gate'.stage = "read"
      BY DEF Enter, Free
    <3>2. \A c \in Calls : Admit(c) \/ Cut(c) => gate'.stage = "free"
      BY <1>0, RecordFields DEF Admit, Cut
    <3>3. \A l : CallEnds(l) => gate' = gate
      BY DEF CallEnds
    <3> QED BY <1>2, <3>1, <3>2, <3>3 DEF CallStep
  <2> QED BY <1>1, <2>1, <2>2
<1>3. CASE GateStep
  <2>1. CASE Reconcile
    <3>1. UNCHANGED <<reload, ack, promised>>
      BY <2>1 DEF Reconcile, diskVars, nodeVars
    <3>2. blocked[cli.peer] = cli.version => blocked'[cli.peer] = cli.version
      BY <1>a, <2>1 DEF Reconcile
    <3>3. gate.holder # "retire" /\ gate'.holder = gate.holder
      BY <1>0, <2>1, RecordFields, Bounds DEF Reconcile
    <3>4. reload.stage = reload'.stage /\ reload.stage # "retiring"
      BY <1>0, <3>1, <3>3 DEF Gated
    <3> QED BY <1>0, <3>1, <3>2, <3>3, <3>4 DEF Promise, Asked, At
  <2>2. ASSUME NEW x, CloseRuntime(x)
        PROVE  Promise'
    <3>1. gate'.holder = gate.holder /\ gate'.stage = gate.stage
      BY <1>0, <2>2 DEF CloseRuntime, Types, GateType
    <3> QED BY <1>1, <2>2, <3>1 DEF CloseRuntime, diskVars, nodeVars
  <2> QED BY <1>3, <2>1, <2>2 DEF GateStep
<1>4. CASE Exit
  <2>1. promised' = {} /\ reload'.stage = "idle" /\ gate'.holder = None
    BY <1>0, <1>4, ExitFacts, RecordFields
  <2> QED BY <2>1, <1>p, Bounds DEF Promise
<1>5. CASE UNCHANGED vars
  BY <1>1, <1>5 DEF vars, diskVars, nodeVars, appVars
<1>6. CASE StartNode \/ Poll
  <2>1. /\ reload'.stage = "request" /\ reload'.next = config /\ UNCHANGED <<ack, blocked, gate, promised>>
        /\ gate.holder # "retire"
    <3>1. reload'.stage = "request" /\ reload'.next = config /\ UNCHANGED <<ack, blocked, gate, promised>>
      BY <1>6 DEF StartNode, Poll, NoReload, diskVars, appVars
    <3>2. gate.holder # "retire"
      BY <1>0, <1>6, RecordFields, Bounds DEF StartNode, Poll, ReloadAt, Gated, Running
    <3> QED BY <3>1, <3>2
  <2> QED BY <1>0, <1>a, <1>p, <2>1 DEF Promise, Asked, At
<1>7. CASE ReadRequest
  <2>1. /\ reload.stage = "request" /\ UNCHANGED <<ack, blocked, gate, promised>>
        /\ reload'.request = request /\ reload'.next = reload.next
        /\ reload'.stage \in {"compare", "resume", "ack"}
        /\ reload'.stage # "compare" => request # None
        /\ reload'.stage = "resume" => request.cancelled \/ request.config # reload.next
                                       \/ ~RequesterLives(request)
    BY <1>0, <1>7 DEF ReadRequest, ReloadAt, Types, ReloadType, diskVars, appVars
  <2>2. request # None => request = Own
    BY <1>0 DEF Ids
  <2>3. Own.id = cli.id /\ Own.config = cli.config /\ ~Own.cancelled
    BY DEF Own
  <2>4. cli.id \in promised => reload'.stage # "resume"
    BY <1>0, <1>a, <2>1, <2>2, <2>3 DEF Promise, RequesterLives
  <2>5. gate.holder # "retire"
    BY <1>0, <2>1 DEF Gated
  <2> QED BY <1>0, <1>p, <2>1, <2>2, <2>3, <2>4, <2>5 DEF Promise, Asked, At
<1>8. CASE ResumePeer \/ ClearControl
  <2>1. /\ reload.stage \in {"resume", "clear"} /\ UNCHANGED <<gate, promised>>
        /\ reload'.request = reload.request /\ reload'.stage \in {"clear", "compare"}
        /\ ack' \in {0, ack}
    BY <1>0, <1>8, RecordFields DEF ResumePeer, ClearControl, ReloadAt, diskVars, appVars
  <2>2. cli.id \notin promised /\ gate.holder # "retire"
    BY <1>0, <2>1 DEF Promise, Gated
  <2>3. reload'.stage = "clear" => ack' = ack /\ reload.stage \in Processing
    BY <1>0, <1>8, RecordFields DEF ResumePeer, ClearControl, ReloadAt, diskVars, Processing
  <2>4. "compare" \notin Processing
    BY <1>p
  <2> QED BY <1>0, <1>a, <1>t, <2>1, <2>2, <2>3, <2>4 DEF Promise, Asked, At
<1>9. CASE ReadAck
  <2>1. /\ reload.stage = "ack" /\ UNCHANGED <<gate, promised, ack, blocked>>
        /\ reload'.request = reload.request
        /\ reload'.stage = IF ack = reload.request.id THEN "compare" ELSE "retire"
    BY <1>0, <1>9, RecordFields DEF ReadAck, ReloadAt, diskVars, appVars
  <2>2. gate.holder # "retire" /\ reload.stage \in Processing
    BY <1>0, <1>p, <2>1 DEF Gated
  <2>3. cli.id \in promised => ack = reload.request.id
    BY <1>0, <2>2 DEF Promise
  <2> QED BY <1>0, <1>p, <2>1, <2>2, <2>3 DEF Promise, Asked, At
<1>10. CASE EnterRetirement
  <2>1. /\ reload.stage = "retire" /\ UNCHANGED <<promised, ack, blocked>>
        /\ reload'.request = reload.request /\ reload'.stage = "retiring" /\ gate'.stage = "read"
    BY <1>0, <1>10, RecordFields DEF EnterRetirement, ReloadAt, diskVars
  <2>2. cli.id \notin promised /\ reload.stage \in Processing
    BY <1>0, <1>p, <2>1 DEF Promise
  <2> QED BY <1>0, <2>1, <2>2 DEF Promise, Asked, At
<1>11. CASE RetirePeer
  <2>1. /\ gate.holder = "retire" /\ UNCHANGED <<promised, ack, reload>>
        /\ blocked' = [blocked EXCEPT ![reload.request.peer] = reload.request.version]
    BY <1>11 DEF RetirePeer, Holds, diskVars, nodeVars
  <2>2. reload.stage = "retiring" /\ reload.stage \in Processing /\ reload.request # None
    BY <1>0, <1>p, <2>1 DEF Gated
  <2>3. reload.request.id = cli.id => reload.request = Own
    BY <1>0, <2>2 DEF Ids
  <2>4. reload.request.id = cli.id => blocked'[cli.peer] = cli.version
    <3>1. Own.peer = cli.peer /\ Own.version = cli.version
      BY DEF Own
    <3> QED BY <1>0, <1>a, <2>1, <2>3, <3>1 DEF Types, TypeOK, Configs
  <2>5. cli.id \notin promised
    BY <1>0, <2>2 DEF Promise
  <2> QED BY <1>0, <2>1, <2>4, <2>5 DEF Promise, Asked, At
<1>12. CASE EndRetirement
  <2>1. /\ gate.holder = "retire" /\ gate.stage = "retire" /\ UNCHANGED <<promised, ack, blocked>>
        /\ reload'.stage = "write" /\ reload'.request = reload.request
    BY <1>0, <1>12, RecordFields DEF EndRetirement, Holds, diskVars
  <2>2. reload.stage = "retiring" /\ reload.stage \in Processing
    BY <1>0, <1>p, <2>1 DEF Gated
  <2>3. cli.id \notin promised
    BY <1>0, <2>2 DEF Promise
  <2> QED BY <1>0, <2>1, <2>2, <2>3 DEF Promise, Asked, At
<1>13. CASE WriteAck
  <2>1. /\ reload.stage = "write" /\ UNCHANGED <<gate, blocked>> /\ reload'.stage = "compare"
        /\ ack' = reload.request.id /\ promised' = promised \cup {reload.request.id}
    BY <1>0, <1>13, RecordFields DEF WriteAck, ReloadAt, appVars
  <2>2. gate.holder # "retire" /\ reload.stage \in Processing /\ cli.id \notin promised
    BY <1>0, <1>p, <2>1 DEF Gated, Promise
  <2>3. "compare" \notin Processing
    BY <1>p
  <2>4. At("commit") => reload.request.id = cli.id
    BY <1>0, <2>2 DEF Promise
  <2>5. reload.request.id = cli.id => blocked[cli.peer] = cli.version
    BY <1>0, <2>1 DEF Promise
  <2> QED BY <2>1, <2>2, <2>3, <2>4, <2>5 DEF Promise, At
<1>14. CASE Compare \/ EnterReconcile \/ EndReconcile \/ Acknowledge
  <2>1. /\ UNCHANGED <<promised, ack, blocked>>
        /\ reload'.stage \in {"publish", "idle", "reconcile", "reconciling"}
    BY <1>0, <1>14, RecordFields DEF Compare, EnterReconcile, EndReconcile, Acknowledge,
                                     diskVars, appVars
  <2>2. gate'.holder # "retire"
    <3>1. Gated'
      BY GatedStep
    <3> QED BY <2>1, <3>1 DEF Gated
  <2> QED BY <1>0, <1>p, <2>1, <2>2 DEF Promise, Asked, At
<1> QED BY <1>2, <1>3, <1>4, <1>5, <1>6, <1>7, <1>8, <1>9, <1>10, <1>11, <1>12, <1>13, <1>14
        DEF Next, ReloadStep, PeerChanged, NodeStops, RuntimeStaysOpen

(* Every step keeps the promises.                                          *)
LEMMA PromiseStep ==
  ASSUME IInv, [Next]_vars
  PROVE  Promise'
<1>1. CASE CliStep
  BY <1>1, PromiseOfCli
<1>2. CASE ~CliStep
  <2>1. UNCHANGED <<config, cli>>
    BY <1>2, OthersEdit
  <2>2. CASE Asked
    BY <1>2, <2>1, <2>2, PromiseOfNode
  <2>3. CASE ~Asked
    BY <2>1, <2>3 DEF Promise, Asked
  <2> QED BY <2>2, <2>3
<1> QED BY <1>1, <1>2

(* It begins so.                                                           *)
LEMMA Initially == Init => IInv
<1> SUFFICES ASSUME Init PROVE IInv
  OBVIOUS
<1>1. Types
  <2>1. config \in Configs /\ drawn \in Versions
    BY Bounds DEF Init
  <2> QED BY <2>1, Bounds, Blanks DEF Init, Types, TypeOK, CliType, NoReload, Free, Configs
<1>2. Gated
  BY <1>1, RecordFields, Bounds DEF Init, Gated, Processing, Running
<1>3. Known /\ BlockedOut
  BY <1>1, RecordFields DEF Init, Known, BlockedOut, Empty
<1>4. Editing /\ Promise
  BY <1>1, RecordFields DEF Init, Editing, Promise, Asked
<1>5. Ids
  BY <1>1, RecordFields DEF Init, Ids, Asked
<1>6. Replaced
  <2>1. \A p \in Peers : config[p] <= drawn /\ runtimes[p] <= drawn /\ gate.seen[p] <= drawn
    BY DEF Init, Empty, Free
  <2> QED BY <2>1, <1>1, RecordFields DEF Init, Replaced
<1> QED BY <1>1, <1>2, <1>3, <1>4, <1>5, <1>6 DEF IInv

-----------------------------------------------------------------------------
(* The inductive invariant.                                                *)
THEOREM Inductive == Spec => []IInv
<1>1. IInv /\ [Next]_vars => IInv'
  BY TypesStep, GatedStep, KnownStep, BlockedStep, ReplacedStep, EditingStep, IdsStep, PromiseStep DEF IInv
<1> QED BY <1>1, Initially, PTL DEF Spec

(* Every file and variable keeps its type.                                 *)
THEOREM TypeCorrect == Spec => []TypeOK
<1>1. IInv => TypeOK
  BY DEF IInv, Types
<1> QED BY <1>1, Inductive, PTL

(* One version of a Peer at a time has a runtime or a call.                *)
LEMMA OneVersion ==
  ASSUME IInv
  PROVE  OneCredential
<1>0. Types /\ Known
  BY DEF IInv
<1> SUFFICES ASSUME NEW p \in Peers
             PROVE  Cardinality({v \in Versions : /\ <<p, v>> \notin left
                                    /\ \/ <<p, v>> \in live
                                       \/ \E l \in Leased(p) : l.version = v}) <= 1
  BY DEF OneCredential, IInv, Replaced
<1> DEFINE used == {v \in Versions : /\ <<p, v>> \notin left
                                    /\ \/ <<p, v>> \in live
                                       \/ \E l \in Leased(p) : l.version = v}
<1>1. \A v \in used : <<p, v>> \in live \ left
  BY <1>0 DEF Known, Leased
<1>2. \A v \in used : v \in 0 .. MaxVersion /\ v # 0
  BY Bounds DEF Versions
<1>3. \A v, w \in used : v = w
  <2> SUFFICES ASSUME NEW v \in used, NEW w \in used
               PROVE  v = w
    OBVIOUS
  <2>1. /\ runtimes[p] = v \/ (<<p, v>> \in gate.retiring /\ runtimes[p] = 0)
        /\ runtimes[p] = w \/ (<<p, w>> \in gate.retiring /\ runtimes[p] = 0)
    BY <1>0, <1>1, <1>2 DEF Known
  <2>2. <<p, v>> \in gate.retiring /\ <<p, w>> \in gate.retiring => v = w
    BY <1>0, <1>2 DEF Known
  <2> QED BY <1>2, <2>1, <2>2
<1> HIDE DEF used
<1>4. Cardinality(used) <= 1
  <2>1. CASE used = {}
    BY <2>1, FS_EmptySet
  <2>2. ASSUME NEW v \in used
        PROVE  Cardinality(used) <= 1
    <3>1. used = {v}
      BY <1>3
    <3> QED BY <3>1, FS_Singleton
  <2> QED BY <2>1, <2>2
<1> QED BY <1>4 DEF used

(* A blocked Peer has nothing open and no call.                            *)
LEMMA BlockedNothing ==
  ASSUME IInv
  PROVE  BlockedQuiet
<1>0. Types /\ Known /\ BlockedOut
  BY DEF IInv
<1> SUFFICES ASSUME NEW p \in Peers, blocked[p] # 0, gate.holder # "retire"
             PROVE  Quiet(p)
  BY DEF BlockedQuiet
<1>1. \A v \in Versions : <<p, v>> \notin live \ left
  <2> SUFFICES ASSUME NEW v \in Versions, <<p, v>> \in live \ left
               PROVE  FALSE
    OBVIOUS
  <2>1. v \in 0 .. MaxVersion /\ v # 0
    BY Bounds DEF Versions
  <2> QED BY <1>0, <2>1 DEF Known, BlockedOut
<1>2. Leased(p) = {}
  BY <1>0 DEF BlockedOut, Leased
<1> QED BY <1>1, <1>2 DEF Quiet

(* No two versions of a Peer's credential are in use at once, across       *)
(* edits, retirements, crashes of the command and restarts of the Node.    *)
THEOREM OneCredentialAlways == Spec => []OneCredential
<1>1. IInv => OneCredential
  BY OneVersion
<1> QED BY <1>1, Inductive, PTL

(* While a Peer is blocked nothing of it runs and no call gets in.         *)
THEOREM BlockedAlwaysQuiet == Spec => []BlockedQuiet
<1>1. IInv => BlockedQuiet
  BY BlockedNothing
<1> QED BY <1>1, Inductive, PTL

(* The acknowledgement a command goes on with is its own and still kept.   *)
THEOREM PromisesKept == Spec => []PromiseKept
<1>1. IInv => PromiseKept
  <2> SUFFICES ASSUME IInv, At("commit"), cli.id # 0, ack \in promised
               PROVE  Quiet(cli.peer)
    BY DEF PromiseKept
  <2>1. Gated /\ Editing /\ Promise /\ BlockedQuiet
    BY BlockedNothing DEF IInv
  <2>2. cli.id \in promised /\ blocked[cli.peer] = cli.version /\ reload.stage # "retiring"
    BY <2>1 DEF Promise, Asked, At
  <2>3. cli.peer \in Peers /\ cli.version # 0 /\ gate.holder # "retire"
    BY <2>1, <2>2 DEF Editing, At, Gated
  <2> QED BY <2>1, <2>2, <2>3 DEF BlockedQuiet
<1> QED BY <1>1, Inductive, PTL
=============================================================================
