------------------------- MODULE TransportSupervisor -------------------------
(***************************************************************************)
(* transport/supervisor.ts with transport/process.ts, as server.ts uses    *)
(* them: the serve process that lets the keys of the configuration reach   *)
(* the Node.  A changed allowlist replaces the process; the end of the     *)
(* current one, or a reload that fails, stops the Node.                    *)
(*                                                                         *)
(* A reload goes through: reconciling (the coordinator's part), closing,   *)
(* starting, storing, acking; refusing when the new process is not the one *)
(* the peers know.  Serve processes are external: they become ready, and   *)
(* end, when they like, and some time after SIGTERM or SIGKILL.            *)
(***************************************************************************)
EXTENDS Naturals

CONSTANTS
  Keys,        (* public keys of peers                                      *)
  NoKeys,      (* the signature before the first start                      *)
  MaxEdits,    (* bound: edits of the configuration                         *)
  MaxServes    (* bound: serve processes                                    *)

(* Assumed wherever the module is used.                                    *)
SupervisorAssumption == MaxEdits \in Nat /\ MaxServes \in Nat \ {0}

VARIABLES
  config,      (* the configuration file: its keys and which edit it is     *)
  node,        (* starting, up, stopping, gone                              *)
  acked,       (* the configuration the Node runs with and acknowledged     *)
  reload,      (* where the reload is                                       *)
  next,        (* the configuration it read                                 *)
  process,     (* the current serve process, 0 if there is none             *)
  signature,   (* the allowlist it was started with                         *)
  watched,     (* processes whose end somebody waits for                    *)
  serves,      (* every serve process: its stage and its allowlist          *)
  spawned,     (* how many there were                                       *)
  left         (* those that a Node on its way out referred to no more, or  *)
               (* that outlived it: nobody kills them, or waits for them    *)

nodeVars       == <<config, node, acked>>
supervisorVars == <<reload, next, process, signature, watched>>
serveVars      == <<serves, spawned, left>>
vars           == <<nodeVars, supervisorVars, serveVars>>

-----------------------------------------------------------------------------
Ids     == 1 .. MaxServes
Living  == {"starting", "ready", "term"}
Nothing == [keys |-> {}, version |-> 0]

Live(i) == serves[i].stage \in Living
Serving == process # 0 /\ serves[process].stage = "ready"

Init ==
  /\ config \in [keys : SUBSET Keys, version : {1}]
  /\ node = "starting" /\ acked = Nothing
  /\ reload = "reconciling" /\ next = config
  /\ process = 0 /\ signature = NoKeys /\ watched = {}
  /\ serves = [i \in Ids |-> [stage |-> "none", allows |-> {}]]
  /\ spawned = 0 /\ left = {}

(* kill, of a process that lives                                           *)
Killed(i) == IF i # 0 /\ Live(i) THEN [serves EXCEPT ![i].stage = "term"] ELSE serves
Ended     == \A i \in Ids \ left : serves[i].stage # "term"

-----------------------------------------------------------------------------
(* The command line writes the configuration.                              *)
Edit ==
  /\ config.version <= MaxEdits
  /\ config' \in [keys : SUBSET Keys, version : {config.version + 1}]
  /\ UNCHANGED <<node, acked, supervisorVars, serveVars>>

(* The user service starts the Node again.                                 *)
Start ==
  /\ node = "gone" /\ spawned < MaxServes
  /\ node' = "starting"
  /\ reload' = "reconciling" /\ next' = config
  /\ UNCHANGED <<config, acked, process, signature, watched, serveVars>>

(* The poll finds another configuration.                                   *)
BeginReload ==
  /\ node = "up" /\ reload = "idle" /\ config # acked /\ spawned < MaxServes
  /\ reload' = "reconciling" /\ next' = config
  /\ UNCHANGED <<nodeVars, process, signature, watched, serveVars>>

-----------------------------------------------------------------------------
(* reloadEffect.  The same keys: the process stays.                        *)
(* Fault: it also stays when it lets in more than it should.               *)
KeepWider ==
  /\ reload = "reconciling" /\ signature # NoKeys /\ next.keys \subseteq signature
  /\ reload' = "acking"
  /\ UNCHANGED <<nodeVars, next, process, signature, watched, serveVars>>
Keep ==
  /\ reload = "reconciling" /\ next.keys = signature
  /\ reload' = "acking"
  /\ UNCHANGED <<nodeVars, next, process, signature, watched, serveVars>>

(* Other keys: the process is no longer the current one, then killed; its  *)
(* end is waited for.                                                      *)
ClosePrevious ==
  /\ reload = "reconciling" /\ next.keys # signature
  /\ reload' = "closing"
  /\ process' = 0
  /\ serves' = Killed(process)
  /\ UNCHANGED <<nodeVars, next, signature, watched, spawned, left>>

(* Fault: the end of the previous process is not waited for.               *)
SpawnAtOnce ==
  /\ reload = "closing" /\ spawned < MaxServes
  /\ reload' = "starting"
  /\ spawned' = spawned + 1
  /\ serves' = [serves EXCEPT ![spawned'] = [stage |-> "starting", allows |-> next.keys]]
  /\ UNCHANGED <<nodeVars, next, process, signature, watched, left>>
Spawn ==
  /\ reload = "closing" /\ Ended /\ spawned < MaxServes
  /\ reload' = "starting"
  /\ spawned' = spawned + 1
  /\ serves' = [serves EXCEPT ![spawned'] = [stage |-> "starting", allows |-> next.keys]]
  /\ UNCHANGED <<nodeVars, next, process, signature, watched, left>>

ReadReady ==
  /\ reload = "starting" /\ serves[spawned].stage = "ready"
  /\ reload' = "storing"
  /\ UNCHANGED <<nodeVars, next, process, signature, watched, serveVars>>

(* Its address is not the one peers know.                                  *)
Refuse ==
  /\ reload = "storing"
  /\ reload' = "refusing"
  /\ serves' = Killed(spawned)
  /\ UNCHANGED <<nodeVars, next, process, signature, watched, spawned, left>>

(* The state is written, then the process is the current one.              *)
Store ==
  /\ reload = "storing"
  /\ reload' = "acking"
  /\ process' = spawned /\ signature' = next.keys
  /\ watched' = watched \cup {spawned}
  /\ UNCHANGED <<nodeVars, next, serveVars>>

Acknowledge ==
  /\ reload = "acking"
  /\ reload' = "idle"
  /\ acked' = next /\ node' = "up"
  /\ UNCHANGED <<config, next, process, signature, watched, serveVars>>

-----------------------------------------------------------------------------
(* A signal to the Node, or a failure of a part of it: its scope closes    *)
(* and the reload is cut.  A process that it waits for to be ready is      *)
(* killed with its scope.  To one that it is closing, refusing, or has not *)
(* stored yet nothing refers any more: it had its SIGTERM or not even that.*)
StopNode ==
  /\ node \in {"starting", "up"}
  /\ node' = "stopping"
  /\ reload' = "idle"
  /\ serves' = IF reload = "starting" THEN Killed(spawned) ELSE serves
  /\ left' = IF reload \in {"closing", "refusing", "storing"}
              THEN left \cup {i \in Ids : Live(i)} ELSE left
  /\ UNCHANGED <<config, acked, next, process, signature, watched, spawned>>

(* A reload that fails is fatal, at every step.                            *)
ReloadFails ==
  /\ \/ reload \in {"reconciling", "storing", "acking"}
     \/ reload = "starting" /\ serves[spawned].stage # "ready"
     \/ reload \in {"closing", "refusing"} /\ Ended
  /\ StopNode

(* watchEffect: the end of the current process is fatal, that of another   *)
(* is not.                                                                 *)
Fatal(i) == process = i /\ node \in {"starting", "up"}
(* Fault: an end is not fatal while a reload is under way.                 *)
ExitSeenUnlessReloading(i) ==
  /\ i \in watched /\ serves[i].stage = "dead"
  /\ \/ Fatal(i) /\ reload = "idle" /\ StopNode
     \/ /\ ~Fatal(i) \/ reload # "idle"
        /\ watched' = watched \ {i}
        /\ UNCHANGED <<nodeVars, reload, next, process, signature, serveVars>>
ExitSeen(i) ==
  /\ i \in watched /\ serves[i].stage = "dead"
  /\ \/ Fatal(i) /\ StopNode
     \/ /\ ~Fatal(i)
        /\ watched' = watched \ {i}
        /\ UNCHANGED <<nodeVars, reload, next, process, signature, serveVars>>

(* closeEffect, on the way out.                                            *)
Close ==
  /\ node = "stopping" /\ process # 0
  /\ process' = 0 /\ watched' = {}
  /\ serves' = Killed(process)
  /\ UNCHANGED <<nodeVars, reload, next, signature, spawned, left>>

(* The Node's process ends, and all it remembers.                          *)
Gone ==
  /\ node' = "gone" /\ acked' = Nothing
  /\ reload' = "idle" /\ next' = Nothing
  /\ process' = 0 /\ signature' = NoKeys /\ watched' = {}

Exit ==
  /\ node = "stopping" /\ process = 0 /\ Ended
  /\ Gone
  /\ UNCHANGED <<config, serveVars>>

(* The Node is killed, or forced out when stopping takes too long          *)
(* (createScopedFatalHandler): what lives outlives it.                     *)
Die ==
  /\ node # "gone"
  /\ Gone
  /\ left' = left \cup {i \in Ids : Live(i)}
  /\ UNCHANGED <<config, serves, spawned>>

-----------------------------------------------------------------------------
ServeReady(i) ==
  /\ serves[i].stage = "starting"
  /\ serves' = [serves EXCEPT ![i].stage = "ready"]
  /\ UNCHANGED <<nodeVars, supervisorVars, spawned, left>>
ServeEnds(i) ==
  /\ Live(i)
  /\ serves' = [serves EXCEPT ![i].stage = "dead"]
  /\ left' = left \ {i}
  /\ UNCHANGED <<nodeVars, supervisorVars, spawned>>

ReloadStep ==
  \/ Keep \/ ClosePrevious \/ Spawn \/ ReadReady \/ Refuse \/ Store \/ Acknowledge
  \/ ReloadFails

Next ==
  \/ Edit \/ Start \/ BeginReload \/ ReloadStep \/ StopNode \/ Close \/ Exit \/ Die
  \/ \E i \in Ids : ExitSeen(i) \/ ServeReady(i) \/ ServeEnds(i)

Spec == Init /\ [][Next]_vars

(* The Node's steps are taken, a start is given up after 35 s, a signalled *)
(* process that is waited for ends: SIGKILL follows SIGTERM.               *)
Fairness ==
  /\ WF_vars(ReloadStep) /\ WF_vars(Close) /\ WF_vars(Exit)
  /\ \A i \in Ids :
       WF_vars(ExitSeen(i)) /\ WF_vars(serves[i].stage = "term" /\ i \notin left /\ ServeEnds(i))

-----------------------------------------------------------------------------
(* At most one serve process lives at a time that a Node has not left,     *)
(* also while one is replaced, after a restart, and as one is cut; a Node  *)
(* that has gone has none that is not left.                                *)
OneServer ==
  /\ \A i, j \in Ids \ left : Live(i) /\ Live(j) => i = j
  /\ node = "gone" => \A i \in Ids \ left : ~Live(i)

(* A Node that is up without a serve process gets one or stops: it never   *)
(* stays up where no peer can reach it.                                    *)
NodeReachable ==
  node = "up" /\ ~Serving ~> Serving \/ node # "up"
=============================================================================
