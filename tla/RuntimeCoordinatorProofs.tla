---------------------- MODULE RuntimeCoordinatorProofs ----------------------
(***************************************************************************)
(* The safety properties of RuntimeCoordinator, proved for any peers,      *)
(* workspaces, Runtime configurations and asks.                            *)
(*                                                                         *)
(* IInv needs nothing of the constants: it keeps a scope that is purged    *)
(* quiet and a name that is added empty.  What an acknowledgement promises *)
(* needs that nothing is added to the config (NothingAdded): the Node      *)
(* compares configs by what they say, so an edit that is undone before the *)
(* next poll is not seen, and an ask it let in goes on.  Then each config  *)
(* of the Node serves no more than the one before (Chain), and whatever is *)
(* at work is served by the one it desires (Served).                       *)
(***************************************************************************)
EXTENDS RuntimeCoordinator, TLAPS

Ids == Peers \cup Workspaces
Triples == Peers \X Workspaces \X Nat

Types ==
  /\ TypeOK
  /\ ask \in [Asks -> [key : Keys \cup {None}, cred : 0 .. MaxRotation,
                       session : Triples \cup {None}]]
  /\ bindings \in [Keys -> Nat \cup {None}]
  /\ running \subseteq [session : Triples, runtime : Backends]
  /\ starting \subseteq Triples /\ late \subseteq Triples
  /\ reload.stage # "idle" => reload.next \in Configs

(* An ask that has a lease has the session of its key.                     *)
Leased ==
  \A a \in Asks : pc[a] \in LeasePcs =>
    /\ ask[a].key \in Keys
    /\ ask[a].session \in Triples
    /\ KeyOf(ask[a].session) = ask[a].key
    /\ ask[a].session[3] \in 1 .. created[ask[a].key]

(* Nothing is at work without a Node that is up, or closing.               *)
AtRest ==
  /\ node \in {"down", "starting"} =>
       /\ \A a \in Asks : pc[a] = "idle"
       /\ starting = {} /\ running = {} /\ late = {}
  /\ node # "up" => reload = NoReload

Purging == {"list", "remove", "unblock"}

(* While a scope is reconciled it is blocked, and whoever worked for it    *)
(* when it was is waited for.                                              *)
Blocked ==
  /\ reload.stage \in {"dispose"} \cup Purging => reload.ids \subseteq blocked
  /\ reload.stage = "dispose" =>
       \A a \in Asks : InFlight(a) /\ InScope(ask[a].key, reload.ids) => a \in waiting

(* A peer that is in no config, nor was revoked, has nothing.              *)
New(p) == p \notin tombstones /\ config.creds[p] = 0
Fresh ==
  \A p \in Peers : New(p) =>
    /\ \A w \in Workspaces : bindings[<<p, w>>] = None
    /\ \A a \in Asks : InFlight(a) => ask[a].key[1] # p
    /\ \A s \in starting \cup RunningSessions \cup late : s[1] # p

IInv == Types /\ Leased /\ AtRest /\ Blocked /\ ScopeQuiet /\ Fresh

-----------------------------------------------------------------------------
(* Nothing is added to the config: every peer and workspace is there when  *)
(* it starts.                                                              *)
NothingAdded == Peers \subseteq FirstPeers /\ Workspaces \subseteq FirstSpaces

(* Where nothing is added, a later config serves no more, and a credential *)
(* it still has is no older.                                               *)
CredsBefore(x, y) == \A p \in Peers : y[p] # 0 => x[p] # 0 /\ x[p] <= y[p]
Before(x, y) == y.spaces \subseteq x.spaces /\ CredsBefore(x.creds, y.creds)

(* Each config of the Node is before the next one it will take.            *)
Chain ==
  /\ \A p \in Peers : config.creds[p] = 0 => p \in tombstones
  /\ Workspaces \subseteq config.spaces \cup tombstones
  /\ node \in {"starting", "up"} => Before(desired, Effective)
  /\ node = "starting" => current = desired
  /\ node = "up" =>
       /\ ack \in Configs /\ Before(ack, desired)
       /\ CredsBefore(allowed, desired.creds)
       /\ reload.stage # "idle" =>
            Before(desired, reload.next) /\ Before(reload.next, Effective)
       /\ reload.stage \in {"dispose"} \cup Purging => reload.ids = Affected(desired, reload.next)
       /\ reload.stage \in {"transport", "publish", "acknowledge"} => desired = reload.next

(* Whatever is at work is served by the desired config.                    *)
Served ==
  node = "up" =>
    /\ \A key \in Active : Serves(desired, key)
    /\ \A a \in Asks : InFlight(a) => ask[a].cred = desired.creds[ask[a].key[1]]

RetiredInv == Chain /\ Served

-----------------------------------------------------------------------------
(* A write that outlived its ask names the session that its key has, or    *)
(* had when its scope was purged, for good.                                *)
Outlived ==
  /\ \A s, t \in late : KeyOf(s) = KeyOf(t) => s[3] = t[3]
  /\ \A s \in late : \/ bindings[KeyOf(s)] = s[3]
                     \/ bindings[KeyOf(s)] = None /\ ~Serves(Effective, KeyOf(s))

(* A binding is there until its scope is, and until its touch is done; but *)
(* for one that a write which outlived its ask brought back.               *)
Bound ==
  /\ \A a \in Asks : pc[a] = "writing" => bindings[ask[a].key] = ask[a].session[3]
  /\ node \in {"starting", "up"} =>
       \A key \in Keys : bindings[key] # None => Serves(desired, key) \/ key \in revived
  /\ reload.stage = "remove" =>
       \A key \in Keys :
         /\ key \in reload.doomed => ~Serves(reload.next, key)
         /\ bindings[key] # None =>
              key \in reload.doomed \/ Serves(reload.next, key) \/ key \in revived
  /\ reload.stage = "unblock" =>
       \A key \in Keys : bindings[key] # None => Serves(reload.next, key) \/ key \in revived
-----------------------------------------------------------------------------
(* The parts of the step relation, by what they leave alone.               *)
RestVars == <<ack, stateVars, nodeVars, waiting, askVars, poolVars, late>>

(* Only the CLI writes the config and its tombstones, and nothing else.    *)
LEMMA WhoWrites ==
  ASSUME [Next]_vars
  PROVE  (CliStep /\ UNCHANGED RestVars) \/ UNCHANGED diskVars
<1>1. CASE CliStep
  BY <1>1 DEF CliStep, AddAgent, RotateAgent, AddWorkspace, SetRuntime, BeginRemoval,
              EndRemoval, CliCrashes, Edits, RestVars
<1>2. ASSUME NEW a \in Asks, AskStep(a) PROVE UNCHANGED diskVars
  BY <1>2 DEF AskStep, AskProgress, Admit, Proceed, StartBackend, Answered, AskFails,
              TouchReads, TouchFails, TouchWrites, Leave, InterruptAdmitted, InterruptTouch, End
<1>3. CASE PoolStep
  BY <1>3 DEF PoolStep, CreateSession, DropBackend, LateWrite
<1>4. CASE ReloadStep
  BY <1>4 DEF ReloadStep, ReadConfig, Block, DisposeScopes, ListBindings, RemoveBindings,
              Unblock, ReloadTransport, PublishCurrent, Acknowledge
<1>5. CASE NodeStep
  BY <1>5 DEF NodeStep, StartNode, Serve, NodeCrashes, Close, Closed, Stopped
<1>6. CASE UNCHANGED vars
  BY <1>6 DEF vars
<1> QED BY <1>1, <1>2, <1>3, <1>4, <1>5, <1>6 DEF Next

(* What is in force is a config.                                           *)
LEMMA EffectiveType ==
  ASSUME config \in Configs, tombstones \subseteq Ids
  PROVE  /\ Effective \in Configs
         /\ \A p \in Peers : Effective.creds[p] = IF p \in tombstones THEN 0 ELSE config.creds[p]
         /\ Effective.spaces = config.spaces \ tombstones
BY CoordinatorAssumption DEF Effective, Configs

(* What an edit of the CLI may change.                                     *)
Edited(added, gone) ==
  /\ config' \in Configs /\ tombstones' \subseteq Ids /\ edit' \in Ids \cup {None}
  /\ tombstones' = tombstones \cup gone
  /\ \A p \in Peers : \/ (config'.creds[p] = 0 /\ p \in gone)
                       \/ config'.creds[p] = config.creds[p]
                       \/ (p \in added /\ config.creds[p] = 0 /\ config'.creds[p] # 0)
                       \/ (config.creds[p] # 0 /\ config'.creds[p] > config.creds[p])
  /\ config'.spaces \subseteq config.spaces \cup added
  /\ config.spaces \subseteq config'.spaces \cup gone

Added(added) ==
  /\ \A p \in Peers \cap added : p \notin tombstones /\ config.creds[p] = 0
  /\ \A w \in Workspaces \cap added : w \notin tombstones \cup config.spaces

(* Every edit is of that form.                                             *)
LEMMA EditSteps ==
  ASSUME Types, CliStep
  PROVE  \E added, gone \in SUBSET Ids : Edited(added, gone) /\ Added(added)
<1> USE CoordinatorAssumption
<1>t. config \in Configs /\ tombstones \subseteq Ids /\ edit \in Ids \cup {None}
  BY DEF Types, TypeOK, Ids
<1>f. /\ config = [creds |-> config.creds, spaces |-> config.spaces, runtime |-> config.runtime]
      /\ config.creds \in [Peers -> 0 .. MaxRotation] /\ config.spaces \subseteq Workspaces
      /\ config.runtime \in Backends
  BY <1>t DEF Configs
<1>1. ASSUME NEW p \in Peers, AddAgent(p) PROVE Edited({p}, {}) /\ Added({p})
  <2>1. /\ config'.creds = [config.creds EXCEPT ![p] = 1]
        /\ config'.spaces = config.spaces /\ config'.runtime = config.runtime
        /\ config' = [creds |-> config'.creds, spaces |-> config.spaces, runtime |-> config.runtime]
    BY <1>1, <1>f DEF AddAgent
  <2>2. config' \in Configs
    BY <2>1, <1>f DEF Configs
  <2> QED BY <2>1, <2>2, <1>1, <1>t, <1>f DEF Edited, Added, AddAgent, Edits, Ids
<1>2. ASSUME NEW p \in Peers, RotateAgent(p) PROVE Edited({}, {}) /\ Added({})
  <2>1. /\ config'.creds = [config.creds EXCEPT ![p] = config.creds[p] + 1]
        /\ config'.spaces = config.spaces /\ config'.runtime = config.runtime
        /\ config' = [creds |-> config'.creds, spaces |-> config.spaces, runtime |-> config.runtime]
    BY <1>2, <1>f DEF RotateAgent
  <2>2. config' \in Configs
    BY <1>2, <2>1, <1>f DEF Configs, RotateAgent
  <2> QED BY <2>1, <2>2, <1>2, <1>t, <1>f DEF Edited, Added, RotateAgent, Edits, Ids
<1>3. ASSUME NEW w \in Workspaces, AddWorkspace(w) PROVE Edited({w}, {}) /\ Added({w})
  <2>1. /\ config'.creds = config.creds
        /\ config'.spaces = config.spaces \cup {w} /\ config'.runtime = config.runtime
        /\ config' = [creds |-> config.creds, spaces |-> config'.spaces, runtime |-> config.runtime]
    BY <1>3, <1>f DEF AddWorkspace
  <2>2. config' \in Configs
    BY <2>1, <1>f DEF Configs
  <2> QED BY <2>1, <2>2, <1>3, <1>t, <1>f DEF Edited, Added, AddWorkspace, Edits, Ids
<1>4. ASSUME NEW b \in Backends, SetRuntime(b) PROVE Edited({}, {}) /\ Added({})
  <2>1. /\ config'.creds = config.creds /\ config'.spaces = config.spaces
        /\ config' = [creds |-> config.creds, spaces |-> config.spaces, runtime |-> b]
    BY <1>4, <1>f DEF SetRuntime
  <2>2. config' \in Configs
    BY <2>1, <1>f DEF Configs
  <2> QED BY <2>1, <2>2, <1>4, <1>t, <1>f DEF Edited, Added, SetRuntime, Edits, Ids
<1>5. ASSUME NEW id \in Ids, BeginRemoval(id) PROVE Edited({}, {id}) /\ Added({})
  BY <1>5, <1>t, <1>f DEF Edited, Added, BeginRemoval, Edits, Ids
<1>6. CASE EndRemoval
  <2> SUFFICES Edited({}, {edit}) /\ Added({})
    BY <1>6, <1>t DEF EndRemoval
  <2>1. /\ config'.creds = [p \in Peers |-> IF p = edit THEN 0 ELSE config.creds[p]]
        /\ config'.spaces = config.spaces \ {edit}
        /\ config' = [creds |-> config'.creds, spaces |-> config'.spaces,
                      runtime |-> config.runtime]
    BY <1>6, <1>f DEF EndRemoval, Without
  <2>2. config' \in Configs
    BY <2>1, <1>f DEF Configs
  <2> QED BY <2>1, <2>2, <1>6, <1>t, <1>f DEF Edited, Added, EndRemoval, Ids
<1>7. CASE CliCrashes
  <2>1. Edited({}, {}) /\ Added({})
    BY <1>7, <1>t, <1>f DEF Edited, Added, CliCrashes, Ids
  <2> QED BY <2>1
<1>8. \A id \in Ids : {id} \in SUBSET Ids
  OBVIOUS
<1> QED BY <1>1, <1>2, <1>3, <1>4, <1>5, <1>6, <1>7, <1>8 DEF CliStep, Ids
-----------------------------------------------------------------------------
(* A key is its peer and its workspace.                                    *)
LEMMA KeyParts ==
  ASSUME NEW key \in Keys
  PROVE  /\ key[1] \in Peers /\ key[2] \in Workspaces /\ key = <<key[1], key[2]>>
         /\ \A n \in Nat : /\ <<key[1], key[2], n>> \in Triples
                          /\ KeyOf(<<key[1], key[2], n>>) = key
BY DEF Keys, Triples, KeyOf

(* And a session is that and a number.                                     *)
LEMMA SessionParts ==
  ASSUME NEW s \in Triples
  PROVE  /\ s[1] \in Peers /\ s[2] \in Workspaces /\ s[3] \in Nat
         /\ KeyOf(s) \in Keys /\ KeyOf(s)[1] = s[1] /\ KeyOf(s)[2] = s[2]
BY DEF Keys, Triples, KeyOf

(* What an admission does.                                                 *)
LEMMA Admits ==
  ASSUME Types, NEW a \in Asks, NEW key \in Keys, Admit(a, key)
  PROVE  /\ pc[a] = "idle" /\ pc' = [pc EXCEPT ![a] = "admitted"]
         /\ ask'[a].key = key /\ ask'[a].cred = Effective.creds[key[1]]
         /\ ask'[a].session \in Triples /\ KeyOf(ask'[a].session) = key
         /\ ask'[a].session[3] = bindings'[key] /\ ask'[a].session[3] \in 1 .. created'[key]
         /\ ask' \in [Asks -> [key : Keys \cup {None}, cred : 0 .. MaxRotation,
                               session : Triples \cup {None}]]
         /\ \A b \in Asks \ {a} : ask'[b] = ask[b]
         /\ bindings' \in [Keys -> Nat \cup {None}]
         /\ \A k \in Keys \ {key} : bindings'[k] = bindings[k] /\ created'[k] = created[k]
         /\ bindings[key] # None => UNCHANGED stateVars
         /\ bindings'[key] # None
         /\ created' \in [Keys -> Nat] /\ created'[key] >= created[key]
<1> USE DEF Admit
<1>1. /\ bindings \in [Keys -> Nat \cup {None}] /\ created \in [Keys -> Nat]
      /\ bindings[key] \in 1 .. created[key] \cup {None}
  BY DEF Types, TypeOK
<1>2. /\ bindings' \in [Keys -> Nat \cup {None}] /\ created' \in [Keys -> Nat]
      /\ bindings'[key] \in 1 .. created'[key] /\ created'[key] >= created[key]
      /\ \A k \in Keys \ {key} : bindings'[k] = bindings[k] /\ created'[k] = created[k]
      /\ bindings[key] # None => UNCHANGED stateVars
  BY <1>1 DEF stateVars
<1>3. bindings'[key] \in Nat /\ bindings'[key] # None
  BY <1>2, CoordinatorAssumption
<1>4. Effective \in Configs /\ key[1] \in Peers
  BY EffectiveType, KeyParts DEF Types, TypeOK, Ids
<1>5. Effective.creds[key[1]] \in 0 .. MaxRotation
  BY <1>4 DEF Configs
<1>6. /\ ask' = [ask EXCEPT ![a] = [key |-> key, cred |-> Effective.creds[key[1]],
                                 session |-> <<key[1], key[2], bindings'[key]>>]]
      /\ ask \in [Asks -> [key : Keys \cup {None}, cred : 0 .. MaxRotation,
                           session : Triples \cup {None}]]
  BY DEF Types
<1>7. /\ <<key[1], key[2], bindings'[key]>> \in Triples
      /\ KeyOf(<<key[1], key[2], bindings'[key]>>) = key
  BY <1>3, KeyParts
<1>8. /\ ask'[a] = [key |-> key, cred |-> Effective.creds[key[1]],
                    session |-> <<key[1], key[2], bindings'[key]>>]
      /\ \A b \in Asks \ {a} : ask'[b] = ask[b]
  BY <1>6
<1>9. ask' \in [Asks -> [key : Keys \cup {None}, cred : 0 .. MaxRotation,
                        session : Triples \cup {None}]]
  BY <1>5, <1>6, <1>7
<1> QED BY <1>2, <1>3, <1>7, <1>8, <1>9

(* Where an ask stands after a step that is not its admission.             *)
Goes(a) ==
  /\ pc'[a] \in {"idle"} \cup LeasePcs
  /\ pc'[a] \in LeasePcs => pc[a] \in LeasePcs /\ ask'[a] = ask[a]
  /\ InFlight(a)' => InFlight(a)
  /\ pc'[a] = "writing" => \/ pc[a] = "writing"
                           \/ bindings[ask[a].key] = ask[a].session[3] /\ UNCHANGED bindings

(* The asks are admitted one at a time, and otherwise only lose their way. *)
LEMMA AskSteps ==
  ASSUME Types, [Next]_vars
  PROVE  \/ \E a \in Asks, key \in Keys : Admit(a, key)
         \/ (\A a \in Asks : Goes(a)) /\ UNCHANGED created
<1> USE DEF Goes, InFlight, WorkPcs, LeasePcs
<1>t. pc \in [Asks -> {"idle"} \cup LeasePcs]
  BY DEF Types, TypeOK
<1>0. ASSUME UNCHANGED <<pc, ask, created>>
      PROVE  (\A a \in Asks : Goes(a)) /\ UNCHANGED created
  BY <1>0, <1>t
<1>1. CASE CliStep
  BY <1>0, <1>1 DEF CliStep, AddAgent, RotateAgent, AddWorkspace, SetRuntime, BeginRemoval,
                    EndRemoval, CliCrashes, Edits, stateVars, askVars
<1>2. ASSUME NEW b \in Asks, AskStep(b)
      PROVE  \/ \E key \in Keys : Admit(b, key)
             \/ (\A a \in Asks : Goes(a)) /\ UNCHANGED created
  <2>1. CASE Proceed(b) \/ Answered(b) \/ TouchReads(b) \/ InterruptAdmitted(b)
    BY <2>1, <1>t DEF Proceed, Answered, TouchReads, InterruptAdmitted, Move, stateVars
  <2>2. CASE AskFails(b) \/ TouchFails(b) \/ TouchWrites(b) \/ InterruptTouch(b)
    BY <2>2, <1>t DEF AskFails, TouchFails, TouchWrites, InterruptTouch, End, stateVars
  <2>3. CASE StartBackend(b)
    BY <2>3, <1>0 DEF StartBackend, stateVars, askVars
  <2>4. CASE Leave(b)
    <3>1. pc' = [pc EXCEPT ![b] = "idle"] /\ UNCHANGED created
      BY <2>4 DEF Leave, Move, stateVars
    <3>2. \A a \in Asks \ {b} : pc'[a] = pc[a] /\ ask'[a] = ask[a]
      BY <2>4, <1>t DEF Leave, Move, Types
    <3> QED BY <3>1, <3>2, <1>t
  <2> QED BY <1>2, <2>1, <2>2, <2>3, <2>4 DEF AskStep, AskProgress
<1>3. CASE PoolStep
  BY <1>3, <1>0 DEF PoolStep, CreateSession, DropBackend, LateWrite, stateVars, askVars
<1>4. CASE ReloadStep
  BY <1>4, <1>0 DEF ReloadStep, ReadConfig, Block, DisposeScopes, ListBindings, RemoveBindings,
                    Unblock, ReloadTransport, PublishCurrent, Acknowledge, stateVars, askVars
<1>5. CASE NodeStep
  BY <1>5, <1>0, <1>t DEF NodeStep, StartNode, Serve, NodeCrashes, Close, Closed, Stopped,
                          stateVars, askVars
<1>6. CASE UNCHANGED vars
  BY <1>6, <1>0 DEF vars, stateVars, askVars
<1> QED BY <1>1, <1>2, <1>3, <1>4, <1>5, <1>6 DEF Next

(* Ids of sessions are never taken back.                                   *)
LEMMA CreatedGrows ==
  ASSUME Types, [Next]_vars
  PROVE  created' \in [Keys -> Nat] /\ \A key \in Keys : created'[key] >= created[key]
<1>t. created \in [Keys -> Nat]
  BY DEF Types, TypeOK
<1>1. ASSUME NEW a \in Asks, NEW key \in Keys, Admit(a, key)
      PROVE  created' \in [Keys -> Nat] /\ \A k \in Keys : created'[k] >= created[k]
  BY <1>1, <1>t, Admits
<1>2. CASE UNCHANGED created
  BY <1>2, <1>t
<1> QED BY <1>1, <1>2, AskSteps

(* Every step keeps the leases with their sessions.                        *)
LEMMA LeasedStep ==
  ASSUME Types, Leased, [Next]_vars
  PROVE  Leased'
<1> SUFFICES ASSUME NEW a \in Asks, pc'[a] \in LeasePcs
             PROVE  /\ ask'[a].key \in Keys
                    /\ ask'[a].session \in Triples
                    /\ KeyOf(ask'[a].session) = ask'[a].key
                    /\ ask'[a].session[3] \in 1 .. created'[ask'[a].key]
  BY DEF Leased, KeyOf
<1>0. ASSUME pc[a] \in LeasePcs, ask'[a] = ask[a]
      PROVE  /\ ask'[a].key \in Keys
             /\ ask'[a].session \in Triples
             /\ KeyOf(ask'[a].session) = ask'[a].key
             /\ ask'[a].session[3] \in 1 .. created'[ask'[a].key]
  <2>1. /\ ask[a].key \in Keys
        /\ ask[a].session \in Triples
        /\ KeyOf(ask[a].session) = ask[a].key
        /\ ask[a].session[3] \in 1 .. created[ask[a].key]
    BY <1>0 DEF Leased
  <2>2. created'[ask[a].key] \in Nat /\ created'[ask[a].key] >= created[ask[a].key]
    BY <2>1, CreatedGrows
  <2>3. created[ask[a].key] \in Nat
    BY <2>1 DEF Types, TypeOK
  <2> QED BY <1>0, <2>1, <2>2, <2>3
<1>1. ASSUME NEW b \in Asks, NEW key \in Keys, Admit(b, key)
      PROVE  /\ ask'[a].key \in Keys
             /\ ask'[a].session \in Triples
             /\ KeyOf(ask'[a].session) = ask'[a].key
             /\ ask'[a].session[3] \in 1 .. created'[ask'[a].key]
  <2>1. CASE a = b
    BY <1>1, <2>1, Admits
  <2>2. CASE a # b
    <3>1. pc'[a] = pc[a] /\ ask'[a] = ask[a]
      BY <1>1, <2>2, Admits DEF Types, TypeOK
    <3> QED BY <3>1, <1>0
  <2> QED BY <2>1, <2>2
<1>2. CASE \A b \in Asks : Goes(b)
  BY <1>2, <1>0 DEF Goes
<1> QED BY <1>1, <1>2, AskSteps
-----------------------------------------------------------------------------
(* Who writes bindings.                                                    *)
LEMMA BindingSteps ==
  ASSUME Types, [Next]_vars
  PROVE  \/ \E a \in Asks, key \in Keys : Admit(a, key)
         \/ \E a \in Asks : TouchWrites(a)
         \/ \E s \in late : LateWrite(s)
         \/ RemoveBindings
         \/ StartNode
         \/ UNCHANGED bindings
<1>1. CASE CliStep
  BY <1>1 DEF CliStep, AddAgent, RotateAgent, AddWorkspace, SetRuntime, BeginRemoval,
              EndRemoval, CliCrashes, Edits, stateVars
<1>2. ASSUME NEW a \in Asks, AskStep(a)
      PROVE  (\E key \in Keys : Admit(a, key)) \/ TouchWrites(a) \/ UNCHANGED bindings
  BY <1>2 DEF AskStep, AskProgress, Proceed, StartBackend, Answered, AskFails,
              TouchReads, TouchFails, Leave, InterruptAdmitted, InterruptTouch, stateVars
<1>3. CASE PoolStep
  BY <1>3 DEF PoolStep, CreateSession, DropBackend, stateVars
<1>4. CASE ReloadStep
  BY <1>4 DEF ReloadStep, ReadConfig, Block, DisposeScopes, ListBindings,
              Unblock, ReloadTransport, PublishCurrent, Acknowledge, stateVars
<1>5. CASE NodeStep
  BY <1>5 DEF NodeStep, Serve, NodeCrashes, Close, Closed, Stopped, stateVars
<1>6. CASE UNCHANGED vars
  BY <1>6 DEF vars, stateVars
<1> QED BY <1>1, <1>2, <1>3, <1>4, <1>5, <1>6 DEF Next

(* Only a late write brings a binding back; it stays so, or goes.          *)
LEMMA RevivedSteps ==
  ASSUME Types, [Next]_vars
  PROVE  /\ revived' \subseteq revived \cup {KeyOf(s) : s \in late}
         /\ \A key \in revived : key \in Keys => key \in revived' \/ bindings'[key] = None
<1>1. CASE CliStep
  BY <1>1 DEF CliStep, AddAgent, RotateAgent, AddWorkspace, SetRuntime, BeginRemoval,
              EndRemoval, CliCrashes, Edits, stateVars
<1>2. ASSUME NEW a \in Asks, AskStep(a) PROVE UNCHANGED revived
  BY <1>2 DEF AskStep, AskProgress, Admit, Proceed, StartBackend, Answered, AskFails,
              TouchReads, TouchFails, TouchWrites, Leave, InterruptAdmitted, InterruptTouch,
              stateVars
<1>3. CASE PoolStep
  BY <1>3 DEF PoolStep, CreateSession, DropBackend, LateWrite, stateVars
<1>4. CASE ReloadStep
  BY <1>4 DEF ReloadStep, ReadConfig, Block, DisposeScopes, ListBindings, RemoveBindings,
              Unblock, ReloadTransport, PublishCurrent, Acknowledge, stateVars
<1>5. CASE NodeStep
  BY <1>5 DEF NodeStep, StartNode, Serve, NodeCrashes, Close, Closed, Stopped, stateVars
<1>6. CASE UNCHANGED vars
  BY <1>6 DEF vars, stateVars
<1> QED BY <1>1, <1>2, <1>3, <1>4, <1>5, <1>6 DEF Next

(* Where a backend comes from: a creation, and that from an ask at work;   *)
(* and a write that outlives its ask from an ask that was writing.         *)
LEMMA BackendSteps ==
  ASSUME Types, [Next]_vars
  PROVE  /\ \A s \in starting' : \/ s \in starting
                                \/ /\ \E a \in Asks : InFlight(a) /\ s = ask[a].session
                                   /\ UNCHANGED <<nodeVars, stateVars, askVars>>
         /\ \A b \in running' : b \in running \/ b.session \in starting
         /\ running' \subseteq [session : Triples, runtime : Backends]
         /\ \A s \in late' : \/ s \in late
                            \/ /\ \E a \in Asks : pc[a] = "writing" /\ s = ask[a].session
                               /\ "writing" \in Cuts
<1>t. running \subseteq [session : Triples, runtime : Backends]
  BY DEF Types
<1>1. CASE CliStep
  BY <1>1, <1>t DEF CliStep, AddAgent, RotateAgent, AddWorkspace, SetRuntime, BeginRemoval,
              EndRemoval, CliCrashes, Edits, poolVars
<1>2. ASSUME NEW a \in Asks, AskStep(a)
      PROVE  /\ running' = running
             /\ \A s \in starting' : \/ s \in starting
                                    \/ /\ InFlight(a) /\ s = ask[a].session
                                       /\ UNCHANGED <<nodeVars, stateVars, askVars>>
             /\ \A s \in late' : \/ s \in late
                                \/ /\ pc[a] = "writing" /\ s = ask[a].session
                                   /\ "writing" \in Cuts
  <2>1. CASE StartBackend(a)
    BY <2>1 DEF StartBackend, InFlight, WorkPcs
  <2>2. CASE InterruptTouch(a)
    BY <2>2 DEF InterruptTouch, End, poolVars
  <2> QED BY <1>2, <2>1, <2>2 DEF AskStep, AskProgress, Admit, Proceed, Answered, AskFails,
              TouchReads, TouchFails, TouchWrites, Leave, InterruptAdmitted, End, poolVars
<1>a. CASE \E a \in Asks : AskStep(a)
  <2>1. PICK a \in Asks : AskStep(a)
    BY <1>a
  <2> QED BY <1>2, <1>t, <2>1
<1>3. CASE PoolStep
  <2>1. ASSUME NEW s \in starting, CreateSession(s)
        PROVE  /\ \A b \in running' : b \in running \/ b.session \in starting
               /\ running' \subseteq [session : Triples, runtime : Backends]
    <3>1. s \in Triples /\ current.runtime \in Backends
      BY DEF Types, TypeOK, Configs
    <3>2. [session |-> s, runtime |-> current.runtime] \in [session : Triples, runtime : Backends]
      BY <3>1
    <3>3. \A b \in running' : b \in running \/ b = [session |-> s, runtime |-> current.runtime]
      BY <2>1 DEF CreateSession
    <3> QED BY <3>2, <3>3, <1>t
  <2> QED BY <1>3, <2>1, <1>t DEF PoolStep, CreateSession, DropBackend, LateWrite, poolVars
<1>4. CASE ReloadStep
  BY <1>4, <1>t DEF ReloadStep, ReadConfig, Block, DisposeScopes, Outside, ListBindings,
              RemoveBindings, Unblock, ReloadTransport, PublishCurrent, Acknowledge, poolVars
<1>5. CASE NodeStep
  BY <1>5, <1>t DEF NodeStep, StartNode, Serve, NodeCrashes, Close, Closed, Stopped, poolVars
<1>6. CASE UNCHANGED vars
  BY <1>6, <1>t DEF vars, poolVars
<1> QED BY <1>1, <1>a, <1>3, <1>4, <1>5, <1>6 DEF Next
-----------------------------------------------------------------------------
DiskTypes == config \in Configs /\ tombstones \subseteq Ids /\ edit \in Ids \cup {None}

NodeTypes ==
  /\ desired \in Configs /\ current \in Configs /\ ack \in Configs \cup {None}
  /\ node \in {"down", "starting", "up", "closing"}
  /\ allowed \in [Peers -> 0 .. MaxRotation]
  /\ blocked \subseteq Ids
  /\ reload \in [stage : ReloadStages, next : Configs \cup {None},
                 ids : SUBSET Ids, doomed : SUBSET Keys]
  /\ reload.stage # "idle" => reload.next \in Configs

AskType == [key : Keys \cup {None}, cred : 0 .. MaxRotation, session : Triples \cup {None}]

AskTypes ==
  /\ pc \in [Asks -> {"idle"} \cup LeasePcs]
  /\ ask \in [Asks -> AskType]
  /\ aborted \in [Asks -> BOOLEAN]
  /\ waiting \subseteq {a \in Asks : InFlight(a) \/ pc[a] = "leaked"}

Numbered(s) == s[3] \in 1 .. created[KeyOf(s)]
SessionTypes ==
  /\ created \in [Keys -> Nat]
  /\ bindings \in [Keys -> Nat \cup {None}] /\ revived \subseteq Keys
  /\ \A key \in Keys : bindings[key] \in 1 .. created[key] \cup {None}
  /\ running \subseteq [session : Triples, runtime : Backends]
  /\ starting \subseteq Triples /\ late \subseteq Triples
  /\ \A s \in starting \cup late : Numbered(s)
  /\ \A b \in running : Numbered(b.session)

(* The types, by who has the variables.                                    *)
LEMMA TypesSplit == Types <=> DiskTypes /\ NodeTypes /\ AskTypes /\ SessionTypes
<1>1. ASSUME Types PROVE DiskTypes /\ NodeTypes /\ AskTypes /\ SessionTypes
  BY <1>1 DEF Types, TypeOK, DiskTypes, NodeTypes, AskTypes, AskType, SessionTypes, Numbered,
              Ids, RunningSessions
<1>2. ASSUME DiskTypes, NodeTypes, AskTypes, SessionTypes PROVE Types
  <2>1. \A a \in Asks : ask[a].key \in Keys \cup {None}
    BY <1>2 DEF AskTypes, AskType
  <2>2. \A s \in starting \cup RunningSessions \cup late : s \in Triples /\ Numbered(s)
    BY <1>2 DEF SessionTypes, RunningSessions
  <2>3. \A s \in starting \cup RunningSessions \cup late :
          KeyOf(s) \in Keys /\ s[3] \in 1 .. created[KeyOf(s)]
    BY <2>2, SessionParts DEF Numbered
  <2> QED BY <1>2, <2>1, <2>3
          DEF Types, TypeOK, DiskTypes, NodeTypes, AskTypes, AskType, SessionTypes, Ids
<1> QED BY <1>1, <1>2

(* The same of the next state.                                             *)
LEMMA TypesSplitNext == DiskTypes' /\ NodeTypes' /\ AskTypes' /\ SessionTypes' => Types'
BY TypesSplit, PTL

(* Another stage, or another record, is a reload.                          *)
LEMMA ReloadTypes ==
  ASSUME NodeTypes
  PROVE  /\ reload.next \in Configs \cup {None} /\ reload.ids \subseteq Ids
         /\ reload.doomed \subseteq Keys
         /\ reload = [stage |-> reload.stage, next |-> reload.next, ids |-> reload.ids,
                      doomed |-> reload.doomed]
         /\ NoReload \in [stage : ReloadStages, next : Configs \cup {None},
                          ids : SUBSET Ids, doomed : SUBSET Keys]
BY DEF NodeTypes, NoReload, ReloadStages

(* What a reconciliation affects has ids.                                  *)
LEMMA AffectedIds ==
  ASSUME NEW old \in Configs, NEW new
  PROVE  Affected(old, new) \subseteq Ids
BY DEF Affected, PeerIds, Configs, Ids

(* Types of the Node and of its reload.                                    *)
LEMMA NodeTypesStep ==
  ASSUME Types, [Next]_vars
  PROVE  NodeTypes'
<1> USE CoordinatorAssumption
<1>t. NodeTypes /\ Effective \in Configs
  BY TypesSplit, EffectiveType DEF DiskTypes
<1>0. ASSUME UNCHANGED <<ack, nodeVars>> PROVE NodeTypes'
  BY <1>0, <1>t DEF NodeTypes, nodeVars
<1>1. CASE CliStep
  BY <1>1, <1>0 DEF CliStep, AddAgent, RotateAgent, AddWorkspace, SetRuntime, BeginRemoval,
                    EndRemoval, CliCrashes, Edits
<1>2. ASSUME NEW a \in Asks, AskStep(a) PROVE UNCHANGED <<ack, nodeVars>>
  BY <1>2 DEF AskStep, AskProgress, Admit, Proceed, StartBackend, Answered, AskFails,
              TouchReads, TouchFails, TouchWrites, Leave, InterruptAdmitted, InterruptTouch, End
<1>3. CASE PoolStep
  BY <1>3, <1>0 DEF PoolStep, CreateSession, DropBackend, LateWrite
<1>4. CASE ReloadStep
  <2> DEFINE Frame == UNCHANGED <<ack, node, allowed, desired, current, blocked>>
  <2>1. CASE ReadConfig
    <3>1. reload'.stage = "block" /\ reload'.next = Effective
      BY <2>1 DEF ReadConfig, NoReload
    <3>2. reload' \in [stage : ReloadStages, next : Configs \cup {None},
                      ids : SUBSET Ids, doomed : SUBSET Keys]
      BY <2>1, <1>t DEF ReadConfig, NoReload, ReloadStages
    <3> QED BY <2>1, <1>t, <3>1, <3>2 DEF ReadConfig, NodeTypes
  <2>2. CASE Block
    <3>1. Affected(desired, reload.next) \subseteq Ids
      BY <1>t, AffectedIds DEF NodeTypes
    <3> QED BY <2>2, <1>t, <3>1, ReloadTypes DEF Block, At, NodeTypes, ReloadStages
  <2>3. CASE DisposeScopes
    BY <2>3, <1>t, ReloadTypes DEF DisposeScopes, At, Step, NodeTypes, ReloadStages
  <2>4. CASE ListBindings
    <3>1. Orphans(reload.next) \subseteq Keys
      BY DEF Orphans
    <3> QED BY <2>4, <1>t, <3>1, ReloadTypes DEF ListBindings, At, NodeTypes, ReloadStages
  <2>5. CASE RemoveBindings
    BY <2>5, <1>t, ReloadTypes DEF RemoveBindings, At, Step, NodeTypes, ReloadStages
  <2>6. CASE Unblock
    BY <2>6, <1>t, ReloadTypes DEF Unblock, At, Step, NodeTypes, ReloadStages
  <2>7. CASE ReloadTransport
    <3>1. reload.next.creds \in [Peers -> 0 .. MaxRotation]
      BY <2>7, <1>t DEF ReloadTransport, At, NodeTypes, Configs
    <3> QED BY <2>7, <1>t, <3>1, ReloadTypes DEF ReloadTransport, At, Step, NodeTypes, ReloadStages
  <2>8. CASE PublishCurrent
    BY <2>8, <1>t, ReloadTypes DEF PublishCurrent, At, Step, NodeTypes, ReloadStages
  <2>9. CASE Acknowledge
    <3>1. NoReload.stage = "idle"
      BY DEF NoReload
    <3> QED BY <2>9, <1>t, <3>1, ReloadTypes DEF Acknowledge, At, NodeTypes
  <2> QED BY <1>4, <2>1, <2>2, <2>3, <2>4, <2>5, <2>6, <2>7, <2>8, <2>9 DEF ReloadStep
<1>5. CASE NodeStep
  <2>0. /\ Nobody \in [Peers -> 0 .. MaxRotation] /\ NoReload.stage = "idle"
        /\ current.creds \in [Peers -> 0 .. MaxRotation]
    BY <1>t DEF Nobody, NoReload, NodeTypes, Configs
  <2> QED BY <1>5, <2>0, <1>t, ReloadTypes
          DEF NodeStep, StartNode, Serve, NodeCrashes, Close, Closed, Stopped, NodeTypes
<1>6. CASE UNCHANGED vars
  BY <1>6, <1>0 DEF vars
<1> QED BY <1>0, <1>1, <1>2, <1>3, <1>4, <1>5, <1>6 DEF Next

(* Types of what the asks have.                                            *)
LEMMA AskTypesStep ==
  ASSUME Types, [Next]_vars
  PROVE  AskTypes'
<1> USE DEF InFlight, WorkPcs, LeasePcs
<1>t. AskTypes /\ NoAsk \in AskType
  BY TypesSplit, CoordinatorAssumption DEF AskType, NoAsk
<1>0. ASSUME UNCHANGED <<waiting, askVars>> PROVE AskTypes'
  BY <1>0, <1>t DEF AskTypes, askVars
<1>1. CASE CliStep
  BY <1>1, <1>0 DEF CliStep, AddAgent, RotateAgent, AddWorkspace, SetRuntime, BeginRemoval,
                    EndRemoval, CliCrashes, Edits
<1>2. ASSUME NEW a \in Asks, AskStep(a) PROVE AskTypes'
  <2>1. ASSUME NEW key \in Keys, Admit(a, key) PROVE AskTypes'
    <3>1. pc[a] = "idle" /\ pc' = [pc EXCEPT ![a] = "admitted"] /\ ask' \in [Asks -> AskType]
      BY <2>1, Admits DEF AskType
    <3>2. UNCHANGED waiting /\ aborted' = [aborted EXCEPT ![a] = FALSE]
      BY <2>1 DEF Admit
    <3> QED BY <3>1, <3>2, <1>t DEF AskTypes
  <2>2. CASE Proceed(a) \/ Answered(a) \/ TouchReads(a) \/ InterruptAdmitted(a)
    BY <2>2, <1>t DEF Proceed, Answered, TouchReads, InterruptAdmitted, Move, AskTypes
  <2>3. CASE AskFails(a) \/ TouchFails(a) \/ TouchWrites(a) \/ InterruptTouch(a)
    <3>1. /\ pc' = [pc EXCEPT ![a] = "leaving"] /\ waiting' = waiting \ {a}
          /\ UNCHANGED <<ask, aborted>>
      BY <2>3 DEF AskFails, TouchFails, TouchWrites, InterruptTouch, End
    <3> QED BY <3>1, <1>t DEF AskTypes
  <2>4. CASE StartBackend(a)
    BY <2>4, <1>0 DEF StartBackend
  <2>5. CASE Leave(a)
    BY <2>5, <1>t DEF Leave, Move, AskTypes
  <2> QED BY <1>2, <2>1, <2>2, <2>3, <2>4, <2>5 DEF AskStep, AskProgress
<1>3. CASE PoolStep
  BY <1>3, <1>0 DEF PoolStep, CreateSession, DropBackend, LateWrite
<1>4. CASE ReloadStep
  <2>1. CASE Block
    <3> DEFINE active == {a \in Leases : InScope(ask[a].key, Affected(desired, reload.next))}
    <3>1. /\ UNCHANGED <<pc, ask>>
          /\ aborted' = [a \in Asks |-> aborted[a] \/ a \in active]
          /\ waiting' = {a \in active : pc[a] # "leaving"}
      BY <2>1 DEF Block
    <3>2. aborted' \in [Asks -> BOOLEAN]
      BY <3>1
    <3> HIDE DEF active
    <3>3. active \subseteq Leases
      BY DEF active
    <3>4. waiting' \subseteq {a \in Asks : InFlight(a) \/ pc[a] = "leaked"}
      BY <3>1, <3>3 DEF Leases
    <3> QED BY <3>1, <3>2, <3>4, <1>t DEF AskTypes
  <2> QED BY <1>4, <2>1, <1>0 DEF ReloadStep, ReadConfig, DisposeScopes, ListBindings,
             RemoveBindings, Unblock, ReloadTransport, PublishCurrent, Acknowledge, askVars
<1>5. CASE NodeStep
  <2>1. CASE Stopped
    BY <2>1, <1>t DEF Stopped, AskTypes
  <2>2. CASE Close
    <3>1. /\ UNCHANGED <<pc, ask>>
          /\ aborted' = [a \in Asks |-> aborted[a] \/ a \in Leases]
          /\ waiting' = {a \in Leases : pc[a] # "leaving"}
      BY <2>2 DEF Close
    <3>2. aborted' \in [Asks -> BOOLEAN]
      BY <3>1
    <3> QED BY <3>1, <3>2, <1>t DEF AskTypes, Leases
  <2> QED BY <1>5, <2>1, <2>2, <1>0 DEF NodeStep, StartNode, Serve, NodeCrashes, Closed
<1>6. CASE UNCHANGED vars
  BY <1>6, <1>0 DEF vars
<1> QED BY <1>0, <1>1, <1>2, <1>3, <1>4, <1>5, <1>6 DEF Next

(* Types of sessions, backends and bindings.                               *)
LEMMA SessionTypesStep ==
  ASSUME Types, Leased, [Next]_vars
  PROVE  SessionTypes'
<1>t. SessionTypes
  BY TypesSplit
<1>1. created' \in [Keys -> Nat] /\ \A key \in Keys : created'[key] >= created[key]
  BY CreatedGrows
<1>2. ASSUME NEW s \in Triples, Numbered(s) PROVE s[3] \in 1 .. created'[KeyOf(s)]
  BY <1>1, <1>2, <1>t, SessionParts DEF Numbered, SessionTypes
<1>3. \A a \in Asks : InFlight(a) => ask[a].session \in Triples /\ Numbered(ask[a].session)
  BY DEF Leased, Numbered, InFlight, WorkPcs, LeasePcs
<1>4. starting' \subseteq Triples /\ \A s \in starting' : s[3] \in 1 .. created'[KeyOf(s)]
  <2> SUFFICES ASSUME NEW s \in starting'
               PROVE  s \in Triples /\ Numbered(s)
    BY <1>2
  <2>1. CASE s \in starting
    BY <2>1, <1>t DEF SessionTypes
  <2> QED BY <2>1, <1>3, BackendSteps
<1>5. \A a \in Asks : pc[a] = "writing" => InFlight(a)
  BY DEF InFlight, WorkPcs
<1>6. late' \subseteq Triples /\ \A s \in late' : s[3] \in 1 .. created'[KeyOf(s)]
  <2> SUFFICES ASSUME NEW s \in late'
               PROVE  s \in Triples /\ Numbered(s)
    BY <1>2
  <2>1. CASE s \in late
    BY <2>1, <1>t DEF SessionTypes
  <2> QED BY <2>1, <1>3, <1>5, BackendSteps
<1>7. /\ running' \subseteq [session : Triples, runtime : Backends]
      /\ \A b \in running' : b.session[3] \in 1 .. created'[KeyOf(b.session)]
  <2>1. running' \subseteq [session : Triples, runtime : Backends]
    BY BackendSteps
  <2> SUFFICES ASSUME NEW b \in running'
               PROVE  b.session \in Triples /\ Numbered(b.session)
    BY <1>2, <2>1
  <2>2. CASE b \in running
    BY <2>2, <1>t DEF SessionTypes
  <2>3. CASE b.session \in starting
    BY <2>3, <1>t DEF SessionTypes
  <2> QED BY <2>2, <2>3, BackendSteps
<1>8. /\ bindings' \in [Keys -> Nat \cup {None}]
      /\ \A key \in Keys : bindings'[key] \in 1 .. created'[key] \cup {None}
  <2>0. /\ bindings \in [Keys -> Nat \cup {None}] /\ created \in [Keys -> Nat]
        /\ \A key \in Keys : bindings[key] \in 1 .. created[key] \cup {None}
    BY <1>t DEF SessionTypes
  <2>1. \A key \in Keys : bindings[key] \in 1 .. created'[key] \cup {None}
    BY <2>0, <1>1
  <2>2. ASSUME NEW a \in Asks, NEW key \in Keys, Admit(a, key)
        PROVE  /\ bindings' \in [Keys -> Nat \cup {None}]
               /\ \A k \in Keys : bindings'[k] \in 1 .. created'[k] \cup {None}
    <3>1. /\ bindings' \in [Keys -> Nat \cup {None}]
          /\ bindings'[key] \in 1 .. created'[key]
          /\ \A k \in Keys \ {key} : bindings'[k] = bindings[k]
      BY <2>2, Admits
    <3> QED BY <3>1, <2>1
  <2>3. ASSUME NEW key \in Keys, NEW s \in Triples, Numbered(s), KeyOf(s) = key,
               bindings' = [bindings EXCEPT ![key] = s[3]]
        PROVE  /\ bindings' \in [Keys -> Nat \cup {None}]
               /\ \A k \in Keys : bindings'[k] \in 1 .. created'[k] \cup {None}
    <3>1. s[3] \in Nat /\ s[3] \in 1 .. created'[key]
      BY <2>3, <1>2, SessionParts
    <3> QED BY <3>1, <2>0, <2>1, <2>3
  <2>4. ASSUME NEW a \in Asks, TouchWrites(a)
        PROVE  /\ bindings' \in [Keys -> Nat \cup {None}]
               /\ \A k \in Keys : bindings'[k] \in 1 .. created'[k] \cup {None}
    <3>1. bindings' = [bindings EXCEPT ![ask[a].key] = ask[a].session[3]]
      BY <2>4 DEF TouchWrites
    <3>2. ask[a].key \in Keys /\ KeyOf(ask[a].session) = ask[a].key
      BY <2>4 DEF TouchWrites, Leased, LeasePcs, WorkPcs
    <3> QED BY <3>1, <3>2, <2>3, <1>3, <2>4, <1>5 DEF TouchWrites
  <2>5. ASSUME NEW s \in late, LateWrite(s)
        PROVE  /\ bindings' \in [Keys -> Nat \cup {None}]
               /\ \A k \in Keys : bindings'[k] \in 1 .. created'[k] \cup {None}
    BY <2>5, <2>3, <1>t, SessionParts DEF LateWrite, SessionTypes
  <2>6. CASE RemoveBindings
    BY <2>6, <2>0, <2>1 DEF RemoveBindings
  <2>7. CASE StartNode
    BY <2>7, <2>0, <2>1 DEF StartNode
  <2>8. CASE UNCHANGED bindings
    BY <2>8, <2>0, <2>1
  <2> QED BY <2>2, <2>4, <2>5, <2>6, <2>7, <2>8, BindingSteps
<1>9. revived' \subseteq Keys
  BY <1>t, RevivedSteps, SessionParts DEF SessionTypes
<1> QED BY <1>1, <1>4, <1>6, <1>7, <1>8, <1>9 DEF SessionTypes, Numbered, KeyOf

(* Every step keeps the types.                                             *)
LEMMA TypesStep ==
  ASSUME Types, Leased, [Next]_vars
  PROVE  Types'
<1>1. DiskTypes'
  <2>1. CASE CliStep
    BY <2>1, EditSteps DEF Edited, DiskTypes
  <2>2. CASE UNCHANGED diskVars
    BY <2>2, TypesSplit DEF diskVars, DiskTypes
  <2> QED BY <2>1, <2>2, WhoWrites
<1>2. NodeTypes' /\ AskTypes' /\ SessionTypes'
  BY NodeTypesStep, AskTypesStep, SessionTypesStep
<1> QED BY <1>1, <1>2, TypesSplitNext
-----------------------------------------------------------------------------
(* The stage each part of a reload ends in, and what it keeps.             *)
LEMMA Stages ==
  ASSUME Types
  PROVE  /\ ReadConfig => reload'.stage = "block" /\ reload'.next = Effective
         /\ Block => reload'.stage = "dispose" /\ reload'.ids = Affected(desired, reload.next)
                     /\ reload'.next = reload.next
         /\ DisposeScopes => reload'.stage = "list" /\ reload'.ids = reload.ids
                             /\ reload'.next = reload.next
         /\ ListBindings => reload'.stage = "remove" /\ reload'.ids = reload.ids
                            /\ reload'.next = reload.next /\ reload'.doomed = Orphans(reload.next)
         /\ RemoveBindings => reload'.stage = "unblock" /\ reload'.ids = reload.ids
                              /\ reload'.next = reload.next
         /\ Unblock => reload'.stage = "transport" /\ reload'.next = reload.next
         /\ ReloadTransport => reload'.stage = "publish" /\ reload'.next = reload.next
         /\ PublishCurrent => reload'.stage = "acknowledge" /\ reload'.next = reload.next
         /\ Acknowledge => reload'.stage = "idle"
<1>t. reload = [stage |-> reload.stage, next |-> reload.next, ids |-> reload.ids,
                doomed |-> reload.doomed]
  BY TypesSplit, ReloadTypes
<1>1. ReadConfig => reload'.stage = "block" /\ reload'.next = Effective
  BY DEF ReadConfig, NoReload
<1>2. Acknowledge => reload'.stage = "idle"
  BY DEF Acknowledge, NoReload
<1>3. Block => reload'.stage = "dispose" /\ reload'.ids = Affected(desired, reload.next)
               /\ reload'.next = reload.next
  BY <1>t DEF Block
<1>4. ListBindings => reload'.stage = "remove" /\ reload'.ids = reload.ids
                      /\ reload'.next = reload.next /\ reload'.doomed = Orphans(reload.next)
  BY <1>t DEF ListBindings
<1>5. /\ DisposeScopes => reload'.stage = "list" /\ reload'.ids = reload.ids
                          /\ reload'.next = reload.next
      /\ RemoveBindings => reload'.stage = "unblock" /\ reload'.ids = reload.ids
                           /\ reload'.next = reload.next
  BY <1>t DEF DisposeScopes, RemoveBindings, Step
<1>6. /\ Unblock => reload'.stage = "transport" /\ reload'.next = reload.next
      /\ ReloadTransport => reload'.stage = "publish" /\ reload'.next = reload.next
      /\ PublishCurrent => reload'.stage = "acknowledge" /\ reload'.next = reload.next
  BY <1>t DEF Unblock, ReloadTransport, PublishCurrent, Step
<1> QED BY <1>1, <1>2, <1>3, <1>4, <1>5, <1>6

(* Who changes the Node: its reload fiber, its start, and its end.         *)
LEMMA NodeSteps ==
  ASSUME [Next]_vars
  PROVE  \/ ReloadStep /\ node = "up" /\ UNCHANGED <<node, pc, ask>>
         \/ StartNode \/ Serve \/ Close \/ Stopped
         \/ UNCHANGED <<ack, nodeVars>>
<1>1. CASE CliStep
  BY <1>1 DEF CliStep, AddAgent, RotateAgent, AddWorkspace, SetRuntime, BeginRemoval,
              EndRemoval, CliCrashes, Edits
<1>2. ASSUME NEW a \in Asks, AskStep(a) PROVE UNCHANGED <<ack, nodeVars>>
  BY <1>2 DEF AskStep, AskProgress, Admit, Proceed, StartBackend, Answered, AskFails,
              TouchReads, TouchFails, TouchWrites, Leave, InterruptAdmitted, InterruptTouch, End
<1>3. CASE PoolStep
  BY <1>3 DEF PoolStep, CreateSession, DropBackend, LateWrite
<1>4. CASE ReloadStep
  BY <1>4 DEF ReloadStep, ReadConfig, Block, DisposeScopes, ListBindings, RemoveBindings,
              Unblock, ReloadTransport, PublishCurrent, Acknowledge, At, askVars
<1>5. CASE NodeStep
  BY <1>5 DEF NodeStep, NodeCrashes, Closed
<1>6. CASE UNCHANGED vars
  BY <1>6 DEF vars
<1> QED BY <1>1, <1>2, <1>3, <1>4, <1>5, <1>6 DEF Next

(* Whoever is waited for and still at work goes on being waited for.       *)
LEMMA WaitingSteps ==
  ASSUME Types, [Next]_vars
  PROVE  \/ Block \/ Close \/ Stopped
         \/ \A a \in Asks : a \in waiting /\ InFlight(a)' => a \in waiting'
<1>1. CASE CliStep
  BY <1>1 DEF CliStep, AddAgent, RotateAgent, AddWorkspace, SetRuntime, BeginRemoval,
              EndRemoval, CliCrashes, Edits
<1>2. ASSUME NEW b \in Asks, AskStep(b)
      PROVE  \A a \in Asks : a \in waiting /\ InFlight(a)' => a \in waiting'
  <2>1. CASE End(b)
    <3>1. pc' = [pc EXCEPT ![b] = "leaving"] /\ waiting' = waiting \ {b}
      BY <2>1 DEF End
    <3>2. ~InFlight(b)'
      BY <3>1 DEF InFlight, WorkPcs, Types, TypeOK
    <3> QED BY <3>1, <3>2
  <2>2. CASE UNCHANGED waiting
    BY <2>2
  <2> QED BY <1>2, <2>1, <2>2 DEF AskStep, AskProgress, Admit, Proceed, StartBackend, Answered,
        AskFails, TouchReads, TouchFails, TouchWrites, Leave, InterruptAdmitted, InterruptTouch
<1>3. CASE PoolStep
  BY <1>3 DEF PoolStep, CreateSession, DropBackend, LateWrite
<1>4. CASE ReloadStep
  BY <1>4 DEF ReloadStep, ReadConfig, DisposeScopes, ListBindings, RemoveBindings,
              Unblock, ReloadTransport, PublishCurrent, Acknowledge
<1>5. CASE NodeStep
  BY <1>5 DEF NodeStep, StartNode, Serve, NodeCrashes, Closed
<1>6. CASE UNCHANGED vars
  BY <1>6 DEF vars
<1> QED BY <1>1, <1>2, <1>3, <1>4, <1>5, <1>6 DEF Next

(* Whatever is at work was at work, or has just been admitted.             *)
LEMMA ActiveSteps ==
  ASSUME Types, Leased, [Next]_vars, NEW key \in Active'
  PROVE  key \in Keys /\ (key \in Active \/ \E a \in Asks : Admit(a, key))
<1>1. \A a \in Asks : InFlight(a) => ask[a].key \in Active /\ ask[a].key \in Keys
                                   /\ KeyOf(ask[a].session) = ask[a].key
  BY DEF Active, InFlight, WorkPcs, LeasePcs, Leased
<1>2. \A s \in starting : KeyOf(s) \in Active /\ KeyOf(s) \in Keys
  BY SessionParts DEF Active, Types
<1>3. \A b \in running : KeyOf(b.session) \in Active /\ KeyOf(b.session) \in Keys
  BY SessionParts DEF Active, RunningSessions, Types
<1>4. ASSUME NEW a \in Asks, InFlight(a)', key = ask'[a].key
      PROVE  key \in Keys /\ (key \in Active \/ \E b \in Asks : Admit(b, key))
  <2>1. ASSUME NEW b \in Asks, NEW k \in Keys, Admit(b, k)
        PROVE  key \in Keys /\ (key \in Active \/ \E c \in Asks : Admit(c, key))
    <3>1. CASE a = b
      BY <3>1, <2>1, <1>4, Admits
    <3>2. CASE a # b
      <4>1. ask'[a] = ask[a] /\ pc'[a] = pc[a]
        BY <3>2, <2>1, Admits DEF Types, TypeOK
      <4> QED BY <4>1, <1>4, <1>1 DEF InFlight
    <3> QED BY <3>1, <3>2
  <2>2. CASE \A b \in Asks : Goes(b)
    <3>1. InFlight(a) /\ ask'[a] = ask[a]
      BY <2>2, <1>4 DEF Goes, InFlight, WorkPcs, LeasePcs
    <3> QED BY <3>1, <1>4, <1>1
  <2> QED BY <2>1, <2>2, AskSteps
<1>5. ASSUME NEW s \in starting', key = KeyOf(s)
      PROVE  key \in Keys /\ key \in Active
  BY <1>5, <1>1, <1>2, BackendSteps
<1>6. ASSUME NEW b \in running', key = KeyOf(b.session)
      PROVE  key \in Keys /\ key \in Active
  BY <1>6, <1>2, <1>3, BackendSteps
<1>7. \/ \E a \in Asks : InFlight(a)' /\ key = ask'[a].key
      \/ \E s \in starting' : key = KeyOf(s)
      \/ \E b \in running' : key = KeyOf(b.session)
  BY DEF Active, RunningSessions, KeyOf
<1> QED BY <1>4, <1>5, <1>6, <1>7

(* Every step keeps what is not up at rest.                                *)
LEMMA AtRestStep ==
  ASSUME Types, AtRest, [Next]_vars
  PROVE  AtRest'
<1>0. ASSUME node \in {"down", "starting"}
      PROVE  /\ \A a \in Asks : pc'[a] = "idle"
             /\ starting' = {} /\ running' = {} /\ late' = {}
  <2>1. /\ \A a \in Asks : pc[a] = "idle"
        /\ starting = {} /\ running = {} /\ late = {}
    BY <1>0 DEF AtRest
  <2>2. ~ \E a \in Asks, key \in Keys : Admit(a, key)
    BY <1>0 DEF Admit, Admissible
  <2>3. \A a \in Asks : pc'[a] = "idle"
    BY <2>1, <2>2, AskSteps DEF Goes, LeasePcs, WorkPcs
  <2>4. \A a \in Asks : ~InFlight(a) /\ pc[a] # "writing"
    BY <2>1 DEF InFlight, WorkPcs
  <2> QED BY <2>1, <2>3, <2>4, BackendSteps
<1>1. CASE ReloadStep /\ node = "up" /\ UNCHANGED <<node, pc, ask>>
  BY <1>1 DEF AtRest
<1>2. CASE StartNode
  BY <1>2, <1>0 DEF StartNode, AtRest
<1>3. CASE Serve
  BY <1>3 DEF Serve, AtRest
<1>4. CASE Close
  BY <1>4 DEF Close, AtRest
<1>5. CASE Stopped
  BY <1>5 DEF Stopped, AtRest
<1>6. CASE UNCHANGED <<ack, nodeVars>>
  BY <1>6, <1>0 DEF AtRest, nodeVars, NoReload
<1> QED BY <1>1, <1>2, <1>3, <1>4, <1>5, <1>6, NodeSteps

(* Who is admitted is in no blocked scope.                                 *)
LEMMA AdmitsOutside ==
  ASSUME Types, NEW a \in Asks, NEW key \in Keys, Admit(a, key)
  PROVE  /\ node = "up" /\ ~InScope(key, blocked) /\ Serves(Effective, key)
         /\ allowed[key[1]] = Effective.creds[key[1]]
         /\ UNCHANGED <<diskVars, ack, nodeVars, waiting, poolVars, late>>
BY DEF Admit, Admissible

(* Every step keeps reconciled scopes blocked and what works for them      *)
(* waited for.                                                             *)
LEMMA BlockedStep ==
  ASSUME Types, AtRest, Blocked, [Next]_vars
  PROVE  Blocked'
<1> USE DEF Purging
<1>1. CASE ReloadStep
  <2>1. CASE Block
    <3>1. /\ reload'.stage = "dispose" /\ reload'.ids = Affected(desired, reload.next)
          /\ blocked' = blocked \cup reload'.ids
          /\ waiting' = {a \in Leases : InScope(ask[a].key, reload'.ids) /\ pc[a] # "leaving"}
          /\ UNCHANGED <<pc, ask>>
      BY <2>1, Stages DEF Block
    <3>2. \A a \in Asks : InFlight(a) => a \in Leases /\ pc[a] # "leaving"
      BY DEF InFlight, Leases, LeasePcs, WorkPcs
    <3>3. \A a \in Asks : InFlight(a)' = InFlight(a)
      BY <3>1 DEF InFlight
    <3> QED BY <3>1, <3>2, <3>3 DEF Blocked, InScope
  <2>2. CASE DisposeScopes \/ RemoveBindings
    BY <2>2, Stages DEF DisposeScopes, RemoveBindings, At, Blocked
  <2>3. CASE ListBindings
    BY <2>3, Stages DEF ListBindings, At, Blocked
  <2>4. CASE ReadConfig \/ Unblock \/ ReloadTransport \/ PublishCurrent \/ Acknowledge
    <3>1. reload'.stage \in {"block", "transport", "publish", "acknowledge", "idle"}
      BY <2>4, Stages
    <3> QED BY <3>1 DEF Blocked
  <2> QED BY <1>1, <2>1, <2>2, <2>3, <2>4 DEF ReloadStep
<1>2. CASE StartNode \/ Serve \/ Close \/ Stopped
  <2>1. reload' = NoReload
    BY <1>2 DEF StartNode, Serve, Close, Stopped, AtRest
  <2> QED BY <2>1 DEF Blocked, NoReload
<1>3. CASE UNCHANGED nodeVars /\ ~Block /\ ~Close /\ ~Stopped
  <2>1. UNCHANGED <<reload, blocked, node>>
    BY <1>3 DEF nodeVars
  <2> SUFFICES ASSUME reload.stage = "dispose", NEW a \in Asks, InFlight(a)',
                      InScope(ask'[a].key, reload.ids)
               PROVE  a \in waiting'
    BY <2>1 DEF Blocked, InScope, InFlight
  <2>2. reload.ids \subseteq blocked
    BY DEF Blocked
  <2>3. ASSUME NEW b \in Asks, NEW key \in Keys, Admit(b, key) PROVE InFlight(a) /\ ask'[a] = ask[a]
    <3>1. ask'[b].key = key /\ ~InScope(key, reload.ids)
      BY <2>2, <2>3, Admits, AdmitsOutside DEF InScope
    <3>2. a # b
      BY <3>1
    <3> QED BY <3>2, <2>3, Admits DEF InFlight, Types, TypeOK
  <2>4. ASSUME Goes(a) PROVE InFlight(a) /\ ask'[a] = ask[a]
    BY <2>4 DEF Goes, InFlight, LeasePcs, WorkPcs
  <2>5. InFlight(a) /\ ask'[a] = ask[a]
    BY <2>3, <2>4, AskSteps
  <2>6. a \in waiting
    BY <2>5 DEF Blocked
  <2> QED BY <2>6, <1>3, WaitingSteps
<1>4. CASE Block
  BY <1>4, <1>1 DEF ReloadStep
<1> QED BY <1>1, <1>2, <1>3, <1>4, NodeSteps

(* Every step keeps a purged scope quiet.                                  *)
LEMMA QuietStep ==
  ASSUME Types, Leased, AtRest, Blocked, ScopeQuiet, [Next]_vars
  PROVE  ScopeQuiet'
<1> USE DEF Purging
<1> SUFFICES ASSUME reload'.stage \in Purging, NEW key \in Active'
             PROVE  ~InScope(key, reload'.ids)
  BY DEF ScopeQuiet, InScope
<1>0. ASSUME reload.stage \in Purging, reload'.ids = reload.ids PROVE ~InScope(key, reload'.ids)
  <2>1. CASE key \in Active
    BY <1>0, <2>1 DEF ScopeQuiet
  <2>2. ASSUME NEW a \in Asks, Admit(a, key) PROVE ~InScope(key, reload.ids)
    <3>1. ~InScope(key, blocked) /\ reload.ids \subseteq blocked
      BY <1>0, <2>2, ActiveSteps, AdmitsOutside DEF Blocked
    <3> QED BY <3>1 DEF InScope
  <2> QED BY <1>0, <2>1, <2>2, ActiveSteps
<1>1. CASE ReloadStep
  <2>1. CASE DisposeScopes
    <3>1. /\ waiting = {} /\ reload.stage = "dispose" /\ reload'.ids = reload.ids
          /\ \A s \in starting' : ~InScope(KeyOf(s), reload.ids)
          /\ \A b \in running' : ~InScope(KeyOf(b.session), reload.ids)
          /\ UNCHANGED <<pc, ask>>
      BY <2>1, Stages DEF DisposeScopes, Outside, At, askVars
    <3>2. \A a \in Asks : InFlight(a)' => ~InScope(ask'[a].key, reload.ids)
      BY <3>1 DEF Blocked, InFlight
    <3>3. \/ \E a \in Asks : InFlight(a)' /\ key = ask'[a].key
          \/ \E s \in starting' : key = KeyOf(s)
          \/ \E b \in running' : key = KeyOf(b.session)
      BY DEF Active, RunningSessions, KeyOf
    <3> QED BY <3>1, <3>2, <3>3
  <2>2. CASE ListBindings
    BY <2>2, Stages, <1>0 DEF ListBindings, At
  <2>3. CASE RemoveBindings
    BY <2>3, Stages, <1>0 DEF RemoveBindings, At
  <2>4. CASE ReadConfig \/ Block \/ Unblock \/ ReloadTransport \/ PublishCurrent \/ Acknowledge
    BY <2>4, Stages
  <2> QED BY <1>1, <2>1, <2>2, <2>3, <2>4 DEF ReloadStep
<1>2. CASE StartNode \/ Serve \/ Close \/ Stopped
  <2>1. reload' = NoReload
    BY <1>2 DEF StartNode, Serve, Close, Stopped, AtRest
  <2> QED BY <2>1 DEF NoReload
<1>3. CASE UNCHANGED nodeVars
  BY <1>3, <1>0 DEF nodeVars
<1> QED BY <1>1, <1>2, <1>3, NodeSteps
(* A new peer was new before, and is in no config in force.                *)
LEMMA NewBefore ==
  ASSUME Types, [Next]_vars, NEW p \in Peers
  PROVE  /\ New(p)' => New(p)
         /\ New(p) => Effective.creds[p] = 0
         /\ Effective.creds[p] = 0 /\ Effective'.creds[p] # 0 => New(p)
<1>t. /\ config \in Configs /\ tombstones \subseteq Ids
      /\ config' \in Configs /\ tombstones' \subseteq Ids
  BY TypesSplit, EditSteps, WhoWrites DEF DiskTypes, Edited, diskVars
<1>1. Effective.creds[p] = IF p \in tombstones THEN 0 ELSE config.creds[p]
  BY <1>t, EffectiveType
<1>2. Effective'.creds[p] = IF p \in tombstones' THEN 0 ELSE config'.creds[p]
  BY <1>t DEF Effective
<1>3. CASE CliStep
  <2>1. PICK added \in SUBSET Ids, gone \in SUBSET Ids : Edited(added, gone) /\ Added(added)
    BY <1>3, EditSteps
  <2>2. /\ tombstones' = tombstones \cup gone
        /\ \/ config'.creds[p] = 0 /\ p \in gone
           \/ config'.creds[p] = config.creds[p]
           \/ config.creds[p] = 0 /\ config'.creds[p] # 0
           \/ config.creds[p] # 0 /\ config'.creds[p] > config.creds[p]
    BY <2>1 DEF Edited
  <2>3. config.creds[p] \in Nat /\ config'.creds[p] \in Nat
    BY <1>t, CoordinatorAssumption DEF Configs
  <2> QED BY <1>1, <1>2, <2>2, <2>3 DEF New
<1>4. CASE UNCHANGED diskVars
  BY <1>1, <1>2, <1>4 DEF New, diskVars
<1> QED BY <1>3, <1>4, WhoWrites

(* Every step leaves a new peer without anything.                          *)
LEMMA FreshStep ==
  ASSUME Types, Leased, Fresh, [Next]_vars
  PROVE  Fresh'
<1> SUFFICES ASSUME NEW p \in Peers, New(p)'
             PROVE  /\ \A w \in Workspaces : bindings'[<<p, w>>] = None
                    /\ \A a \in Asks : InFlight(a)' => ask'[a].key[1] # p
                    /\ \A s \in starting' \cup {b.session : b \in running'} \cup late' : s[1] # p
  BY DEF Fresh, RunningSessions
<1>0. /\ \A w \in Workspaces : bindings[<<p, w>>] = None
      /\ \A a \in Asks : InFlight(a) => ask[a].key[1] # p
      /\ \A s \in starting \cup late : s[1] # p
      /\ \A b \in running : b.session[1] # p
      /\ Effective.creds[p] = 0
  BY NewBefore DEF Fresh, RunningSessions
<1>1. \A a \in Asks, key \in Keys : Admit(a, key) => key[1] # p
  BY <1>0, AdmitsOutside DEF Serves
<1>2. \A a \in Asks : InFlight(a) => /\ ask[a].session[1] # p /\ ask[a].key \in Keys
                                   /\ ask[a].key[1] # p
  <2> SUFFICES ASSUME NEW a \in Asks, InFlight(a)
               PROVE  ask[a].session[1] # p /\ ask[a].key \in Keys
    BY <1>0
  <2>1. ask[a].session \in Triples /\ KeyOf(ask[a].session) = ask[a].key /\ ask[a].key \in Keys
    BY DEF Leased, InFlight, WorkPcs, LeasePcs
  <2> QED BY <2>1, <1>0, SessionParts
<1>3. \A w \in Workspaces : bindings'[<<p, w>>] = None
  <2> SUFFICES ASSUME NEW w \in Workspaces PROVE bindings'[<<p, w>>] = None
    OBVIOUS
  <2>0. <<p, w>> \in Keys /\ bindings[<<p, w>>] = None /\ bindings \in [Keys -> Nat \cup {None}]
    BY <1>0 DEF Keys, Types
  <2>1. ASSUME NEW a \in Asks, NEW key \in Keys, Admit(a, key) PROVE bindings'[<<p, w>>] = None
    <3>1. key # <<p, w>>
      BY <1>1, <2>1
    <3> QED BY <3>1, <2>0, <2>1, Admits
  <2>2. ASSUME NEW a \in Asks, TouchWrites(a) PROVE bindings'[<<p, w>>] = None
    <3>1. InFlight(a) /\ bindings' = [bindings EXCEPT ![ask[a].key] = ask[a].session[3]]
      BY <2>2 DEF TouchWrites, InFlight, WorkPcs
    <3>2. ask[a].key # <<p, w>>
      BY <3>1, <1>2
    <3> QED BY <3>1, <3>2, <2>0
  <2>3. ASSUME NEW s \in late, LateWrite(s) PROVE bindings'[<<p, w>>] = None
    <3>1. KeyOf(s) # <<p, w>> /\ bindings' = [bindings EXCEPT ![KeyOf(s)] = s[3]]
      BY <1>0, <2>3 DEF LateWrite, KeyOf
    <3> QED BY <3>1, <2>0
  <2>4. CASE RemoveBindings
    BY <2>4, <2>0 DEF RemoveBindings
  <2>5. CASE StartNode
    BY <2>5, <2>0 DEF StartNode
  <2> QED BY <2>0, <2>1, <2>2, <2>3, <2>4, <2>5, BindingSteps
<1>4. ASSUME NEW a \in Asks, InFlight(a)' PROVE ask'[a].key[1] # p
  <2>1. ASSUME NEW b \in Asks, NEW key \in Keys, Admit(b, key) PROVE ask'[a].key[1] # p
    <3>1. CASE a = b
      BY <3>1, <2>1, <1>1, Admits
    <3>2. CASE a # b
      <4>1. ask'[a] = ask[a] /\ pc'[a] = pc[a]
        BY <3>2, <2>1, Admits DEF Types, TypeOK
      <4> QED BY <4>1, <1>0, <1>4 DEF InFlight
    <3> QED BY <3>1, <3>2
  <2>2. ASSUME Goes(a) PROVE ask'[a].key[1] # p
    BY <2>2, <1>0, <1>4 DEF Goes, InFlight, LeasePcs, WorkPcs
  <2> QED BY <2>1, <2>2, AskSteps
<1>5. \A a \in Asks : pc[a] = "writing" => InFlight(a)
  BY DEF InFlight, WorkPcs
<1>6. \A s \in starting' : s[1] # p
  BY <1>0, <1>2, BackendSteps
<1>7. \A b \in running' : b.session[1] # p
  BY <1>0, BackendSteps
<1>8. \A s \in late' : s[1] # p
  BY <1>0, <1>2, <1>5, BackendSteps
<1> QED BY <1>3, <1>4, <1>6, <1>7, <1>8

-----------------------------------------------------------------------------
(* It begins so.                                                           *)
LEMMA Initially ==
  ASSUME Init
  PROVE  IInv
<1> USE DEF Init
<1>1. config \in Configs /\ desired \in Configs /\ current \in Configs
  <2>1. (CHOOSE b \in Backends : TRUE) \in Backends
    BY CoordinatorAssumption
  <2>2. [p \in Peers |-> IF p \in FirstPeers THEN 1 ELSE 0] \in [Peers -> 0 .. MaxRotation]
    BY CoordinatorAssumption
  <2> QED BY <2>1, <2>2, CoordinatorAssumption DEF Configs
<1>2. DiskTypes
  BY <1>1 DEF DiskTypes
<1>3. NodeTypes
  BY <1>1, CoordinatorAssumption DEF NodeTypes, NoReload, ReloadStages, Nobody
<1>4. AskTypes
  BY CoordinatorAssumption DEF AskTypes, AskType, NoAsk
<1>5. SessionTypes
  BY DEF SessionTypes
<1>6. Leased
  BY DEF Leased, LeasePcs, WorkPcs
<1>7. AtRest /\ Blocked /\ ScopeQuiet
  BY DEF AtRest, Blocked, ScopeQuiet, NoReload, Purging
<1>8. Fresh
  BY DEF Fresh, Keys, InFlight, WorkPcs, RunningSessions
<1> QED BY <1>2, <1>3, <1>4, <1>5, <1>6, <1>7, <1>8, TypesSplit DEF IInv

(* The invariant behind what no configuration can break: it is inductive   *)
(* whatever is edited, interrupted or restarted.                           *)
THEOREM Inductive == Spec => []IInv
<1>1. Init => IInv
  BY Initially
<1>2. IInv /\ [Next]_vars => IInv'
  BY TypesStep, LeasedStep, AtRestStep, BlockedStep, QuietStep, FreshStep DEF IInv
<1> QED BY <1>1, <1>2, PTL DEF Spec

(* The types of RuntimeCoordinator hold in every state.                    *)
THEOREM TypeCorrect == Spec => []TypeOK
<1>1. IInv => TypeOK
  BY DEF IInv, Types
<1> QED BY <1>1, Inductive, PTL

(* purgeRemovedRuntimeSessions never meets work of a scope it purges,      *)
(* also where an ask was interrupted or a creation outlived its ask.       *)
THEOREM ScopesQuietWhilePurged == Spec => []ScopeQuiet
<1>1. IInv => ScopeQuiet
  BY DEF IInv
<1> QED BY <1>1, Inductive, PTL

(* The name of a peer that is added meets nothing of an earlier peer, at   *)
(* whatever write a revocation ended.                                      *)
THEOREM NewPeersStartEmpty == Spec => NewPeerStartsEmpty
<1>1. ASSUME IInv, [Next]_vars, NEW key \in Keys,
             Effective.creds[key[1]] = 0, Effective'.creds[key[1]] # 0
      PROVE  bindings[key] = None /\ key \notin Active
  <2> USE DEF IInv
  <2>1. key[1] \in Peers /\ key[2] \in Workspaces /\ key = <<key[1], key[2]>>
    BY KeyParts
  <2>2. New(key[1])
    BY <1>1, <2>1, NewBefore
  <2>3. /\ bindings[key] = None
        /\ \A a \in Asks : InFlight(a) => ask[a].key # key
        /\ \A s \in starting \cup RunningSessions : s[1] # key[1]
    <3>1. PICK p \in Peers, w \in Workspaces : key = <<p, w>>
      BY DEF Keys
    <3>2. key[1] = p
      BY <3>1
    <3>3. /\ bindings[<<p, w>>] = None
          /\ \A a \in Asks : InFlight(a) => ask[a].key[1] # p
          /\ \A s \in starting \cup RunningSessions : s[1] # p
      BY <1>1, <2>2, <3>2 DEF Fresh
    <3>4. bindings[key] = None
      BY <3>1, <3>3
    <3>5. \A a \in Asks : InFlight(a) => ask[a].key # key
      BY <3>2, <3>3
    <3>6. \A s \in starting \cup RunningSessions : s[1] # key[1]
      BY <3>2, <3>3
    <3> QED BY <3>4, <3>5, <3>6
  <2>4. key \notin Active
    BY <2>3 DEF Active, KeyOf
  <2> QED BY <2>3, <2>4
<1>2. IInv /\ [Next]_vars =>
        [\A key \in Keys :
           Effective.creds[key[1]] = 0 /\ Effective'.creds[key[1]] # 0 =>
             bindings[key] = None /\ key \notin Active]_vars
  BY <1>1
<1> QED BY <1>2, Inductive, PTL DEF Spec, NewPeerStartsEmpty
-----------------------------------------------------------------------------
(* Configs are ordered by what they serve.                                 *)
LEMMA BeforeOrder ==
  ASSUME NEW x \in Configs, NEW y \in Configs, NEW z \in Configs
  PROVE  /\ Before(x, x)
         /\ Before(x, y) /\ Before(y, z) => Before(x, z)
         /\ \A key \in Keys : Before(x, y) /\ Serves(y, key) => Serves(x, key)
<1>1. \A p \in Peers : x.creds[p] \in Nat /\ y.creds[p] \in Nat /\ z.creds[p] \in Nat
  BY CoordinatorAssumption DEF Configs
<1>2. Before(x, x)
  BY <1>1 DEF Before, CredsBefore
<1>3. Before(x, y) /\ Before(y, z) => Before(x, z)
  BY <1>1 DEF Before, CredsBefore
<1>4. \A key \in Keys : Before(x, y) /\ Serves(y, key) => Serves(x, key)
  BY KeyParts DEF Before, CredsBefore, Serves
<1> QED BY <1>2, <1>3, <1>4

(* The same of the credentials alone.                                      *)
LEMMA CredsOrder ==
  ASSUME NEW u \in [Peers -> 0 .. MaxRotation], NEW x \in Configs, NEW y \in Configs,
         CredsBefore(u, x.creds), Before(x, y)
  PROVE  CredsBefore(u, y.creds)
<1>1. \A p \in Peers : u[p] \in Nat /\ x.creds[p] \in Nat /\ y.creds[p] \in Nat
  BY CoordinatorAssumption DEF Configs
<1> QED BY <1>1 DEF Before, CredsBefore

(* Whoever is served and not affected is served alike.                     *)
LEMMA Unaffected ==
  ASSUME NEW old \in Configs, NEW new \in Configs, NEW key \in Keys,
         Serves(old, key), ~InScope(key, Affected(old, new))
  PROVE  Serves(new, key) /\ new.creds[key[1]] = old.creds[key[1]]
BY KeyParts DEF Affected, InScope, Serves, PeerIds

(* What is at work is at work for a key.                                   *)
LEMMA ActiveKeys ==
  ASSUME Types, Leased
  PROVE  /\ Active \subseteq Keys
         /\ \A a \in Asks : InFlight(a) => ask[a].key \in Active
<1>1. \A a \in Asks : InFlight(a) => ask[a].key \in Active /\ ask[a].key \in Keys
  BY DEF Active, InFlight, WorkPcs, LeasePcs, Leased
<1>2. \A s \in starting : KeyOf(s) \in Keys
  BY SessionParts DEF Types
<1>3. \A b \in running : KeyOf(b.session) \in Keys
  BY SessionParts DEF Types
<1> QED BY <1>1, <1>2, <1>3 DEF Active, RunningSessions

(* What the Node has read, what it is about to take and what is in force,  *)
(* where nothing is added.                                                 *)
Kept == /\ \A p \in Peers : config.creds[p] = 0 => p \in tombstones
        /\ Workspaces \subseteq config.spaces \cup tombstones

(* Where nothing is added, what is in force only ever serves less.         *)
LEMMA Onward ==
  ASSUME Types, Kept, [Next]_vars
  PROVE  /\ Kept' /\ Before(Effective, Effective')
         /\ Effective \in Configs /\ Effective' \in Configs
<1>t. /\ config \in Configs /\ tombstones \subseteq Ids
      /\ config' \in Configs /\ tombstones' \subseteq Ids
  BY TypesSplit, EditSteps, WhoWrites DEF DiskTypes, Edited, diskVars
<1>1. /\ Effective \in Configs
      /\ \A p \in Peers : Effective.creds[p] = IF p \in tombstones THEN 0 ELSE config.creds[p]
      /\ Effective.spaces = config.spaces \ tombstones
  BY <1>t, EffectiveType
<1>2. /\ Effective' \in Configs
      /\ \A p \in Peers : Effective'.creds[p] = IF p \in tombstones' THEN 0 ELSE config'.creds[p]
      /\ Effective'.spaces = config'.spaces \ tombstones'
  BY <1>t, CoordinatorAssumption DEF Effective, Configs
<1>3. \A p \in Peers : config.creds[p] \in Nat /\ config'.creds[p] \in Nat
  BY <1>t, CoordinatorAssumption DEF Configs
<1>4. config'.spaces \subseteq Workspaces
  BY <1>t DEF Configs
<1>5. CASE CliStep
  <2>1. PICK added \in SUBSET Ids, gone \in SUBSET Ids : Edited(added, gone) /\ Added(added)
    BY <1>5, EditSteps
  <2>2. added = {}
    BY <2>1 DEF Added, Kept, Ids
  <2>3. /\ tombstones' = tombstones \cup gone
        /\ \A p \in Peers : \/ (config'.creds[p] = 0 /\ p \in gone)
                             \/ config'.creds[p] = config.creds[p]
                             \/ (config.creds[p] # 0 /\ config'.creds[p] > config.creds[p])
        /\ config'.spaces \subseteq config.spaces
        /\ config.spaces \subseteq config'.spaces \cup gone
    BY <2>1, <2>2 DEF Edited
  <2>4. Kept'
    BY <2>3, <1>3 DEF Kept
  <2>5. Before(Effective, Effective')
    BY <2>3, <1>1, <1>2, <1>3 DEF Before, CredsBefore
  <2> QED BY <2>4, <2>5, <1>1, <1>2
<1>6. CASE UNCHANGED diskVars
  <2>1. Effective' = Effective /\ Kept'
    BY <1>6 DEF Effective, Kept, diskVars
  <2> QED BY <2>1, <1>1, BeforeOrder
<1> QED BY <1>5, <1>6, WhoWrites

(* The chain, without what is in force.                                    *)
Links(e) ==
  /\ node \in {"starting", "up"} => Before(desired, e)
  /\ node = "starting" => current = desired
  /\ node = "up" =>
       /\ ack \in Configs /\ Before(ack, desired)
       /\ CredsBefore(allowed, desired.creds)
       /\ reload.stage # "idle" => Before(desired, reload.next) /\ Before(reload.next, e)
       /\ reload.stage \in {"dispose"} \cup Purging => reload.ids = Affected(desired, reload.next)
       /\ reload.stage \in {"transport", "publish", "acknowledge"} => desired = reload.next

(* Every step keeps the chain.                                             *)
LEMMA ChainStep ==
  ASSUME Types, AtRest, Chain, [Next]_vars
  PROVE  Chain'
<1> USE DEF Purging
<1>0. /\ Kept' /\ Before(Effective, Effective')
      /\ Effective \in Configs /\ Effective' \in Configs
  BY Onward DEF Chain, Kept
<1>t. /\ desired \in Configs /\ current \in Configs /\ allowed \in [Peers -> 0 .. MaxRotation]
      /\ reload.stage # "idle" => reload.next \in Configs
  BY TypesSplit DEF NodeTypes
<1>l. Links(Effective)
  BY DEF Chain, Links
<1> SUFFICES Links(Effective)'
  BY <1>0 DEF Chain, Links, Kept
<1>1. CASE ReloadStep /\ node = "up" /\ UNCHANGED <<node, pc, ask>>
  <2>0. UNCHANGED diskVars
    BY <1>1 DEF ReloadStep, ReadConfig, Block, DisposeScopes, ListBindings, RemoveBindings,
                Unblock, ReloadTransport, PublishCurrent, Acknowledge
  <2>e. Effective' = Effective
    BY <2>0 DEF Effective, diskVars
  <2>l. /\ Before(desired, Effective) /\ ack \in Configs /\ Before(ack, desired)
        /\ CredsBefore(allowed, desired.creds)
        /\ reload.stage # "idle" => /\ reload.next \in Configs
                                   /\ Before(desired, reload.next) /\ Before(reload.next, Effective)
        /\ reload.stage \in {"dispose", "list", "remove", "unblock"} =>
             reload.ids = Affected(desired, reload.next)
        /\ reload.stage \in {"transport", "publish", "acknowledge"} => desired = reload.next
    BY <1>1, <1>l, <1>t DEF Links
  <2>1. CASE ReadConfig
    <3>1. reload'.stage = "block" /\ reload'.next = Effective /\ Before(Effective, Effective)
      BY <2>1, Stages, <1>0, BeforeOrder
    <3> QED BY <3>1, <2>1, <2>e, <2>l, <1>1 DEF ReadConfig, Links
  <2>2. CASE Block
    BY <2>2, Stages, <2>e, <2>l, <1>1 DEF Block, At, Links
  <2>3. CASE DisposeScopes
    BY <2>3, Stages, <2>e, <2>l, <1>1 DEF DisposeScopes, At, Links
  <2>4. CASE ListBindings
    BY <2>4, Stages, <2>e, <2>l, <1>1 DEF ListBindings, At, Links
  <2>5. CASE RemoveBindings
    BY <2>5, Stages, <2>e, <2>l, <1>1 DEF RemoveBindings, At, Links
  <2>6. CASE Unblock
    <3>1. /\ reload.stage = "unblock" /\ reload'.stage = "transport" /\ reload'.next = reload.next
          /\ desired' = reload.next /\ UNCHANGED <<ack, allowed>>
      BY <2>6, Stages DEF Unblock, At
    <3>2. Before(ack, reload.next) /\ Before(reload.next, reload.next)
      BY <3>1, <2>l, <1>t, BeforeOrder
    <3>3. CredsBefore(allowed, reload.next.creds)
      BY <3>1, <2>l, <1>t, CredsOrder
    <3> QED BY <3>1, <3>2, <3>3, <2>e, <2>l, <1>1 DEF Links
  <2>7. CASE ReloadTransport
    <3>1. /\ reload.stage = "transport" /\ reload'.stage = "publish" /\ reload'.next = reload.next
          /\ allowed' = reload.next.creds /\ UNCHANGED <<ack, desired>>
      BY <2>7, Stages DEF ReloadTransport, At
    <3>2. CredsBefore(reload.next.creds, reload.next.creds)
      BY <3>1, <2>l, BeforeOrder DEF Before
    <3> QED BY <3>1, <3>2, <2>e, <2>l, <1>1 DEF Links
  <2>8. CASE PublishCurrent
    BY <2>8, Stages, <2>e, <2>l, <1>1 DEF PublishCurrent, At, Links
  <2>9. CASE Acknowledge
    BY <2>9, Stages, <2>e, <2>l, <1>1, BeforeOrder DEF Acknowledge, At, Links
  <2> QED BY <1>1, <2>1, <2>2, <2>3, <2>4, <2>5, <2>6, <2>7, <2>8, <2>9 DEF ReloadStep
<1>2. CASE StartNode
  <2>1. Effective' = Effective
    BY <1>2 DEF StartNode, Effective, diskVars
  <2>2. Before(Effective, Effective)
    BY <1>0, BeforeOrder
  <2> QED BY <1>2, <2>1, <2>2 DEF StartNode, Links
<1>3. CASE Serve
  <2>1. /\ Effective' = Effective /\ reload'.stage = "idle"
        /\ current = desired /\ Before(desired, Effective)
    BY <1>3, <1>l DEF Serve, Effective, diskVars, AtRest, NoReload, Links
  <2>2. Before(desired, desired) /\ CredsBefore(desired.creds, desired.creds)
    BY <1>t, BeforeOrder DEF Before
  <2> QED BY <1>3, <1>t, <2>1, <2>2 DEF Serve, Links
<1>4. CASE Close \/ Stopped
  BY <1>4 DEF Close, Stopped, Links
<1>5. CASE UNCHANGED <<ack, nodeVars>>
  <2>1. \A c \in Configs : Before(c, Effective) => Before(c, Effective')
    BY <1>0, BeforeOrder
  <2> QED BY <1>5, <1>l, <1>t, <2>1 DEF Links, nodeVars
<1> QED BY <1>1, <1>2, <1>3, <1>4, <1>5, NodeSteps
-----------------------------------------------------------------------------
(* While the Node desires what it did, nothing else comes to work.         *)
LEMMA ServedSame ==
  ASSUME Types, Leased, Chain, Served, [Next]_vars, node = "up", UNCHANGED desired
  PROVE  Served'
<1>t. desired \in Configs /\ Effective \in Configs
  BY TypesSplit, EffectiveType DEF NodeTypes, DiskTypes
<1>0. Before(desired, Effective)
  BY DEF Chain
<1>1. ASSUME NEW key \in Active' PROVE Serves(desired, key)
  <2>1. ASSUME NEW a \in Asks, Admit(a, key) PROVE Serves(desired, key)
    BY <2>1, <1>0, <1>t, ActiveSteps, AdmitsOutside, BeforeOrder
  <2> QED BY <2>1, ActiveSteps DEF Served
<1>2. ASSUME NEW a \in Asks, InFlight(a)' PROVE ask'[a].cred = desired.creds[ask'[a].key[1]]
  <2>1. ASSUME NEW b \in Asks, NEW key \in Keys, Admit(b, key)
        PROVE  ask'[a].cred = desired.creds[ask'[a].key[1]]
    <3>1. CASE a = b
      <4>1. ask'[a].key = key /\ ask'[a].cred = Effective.creds[key[1]]
        BY <3>1, <2>1, Admits
      <4>2. allowed[key[1]] = Effective.creds[key[1]] /\ Effective.creds[key[1]] # 0
        BY <2>1, AdmitsOutside DEF Serves
      <4>3. CredsBefore(allowed, desired.creds) /\ CredsBefore(desired.creds, Effective.creds)
        BY DEF Chain, Before
      <4>4. /\ key[1] \in Peers /\ desired.creds[key[1]] \in Nat
            /\ Effective.creds[key[1]] \in Nat
        BY <1>t, KeyParts, CoordinatorAssumption DEF Configs
      <4> QED BY <4>1, <4>2, <4>3, <4>4 DEF CredsBefore
    <3>2. CASE a # b
      <4>1. ask'[a] = ask[a] /\ pc'[a] = pc[a]
        BY <3>2, <2>1, Admits DEF Types, TypeOK
      <4> QED BY <4>1, <1>2 DEF InFlight, Served
    <3> QED BY <3>1, <3>2
  <2>2. ASSUME Goes(a) PROVE ask'[a].cred = desired.creds[ask'[a].key[1]]
    <3>1. InFlight(a) /\ ask'[a] = ask[a]
      BY <2>2, <1>2 DEF Goes, InFlight, LeasePcs, WorkPcs
    <3> QED BY <3>1 DEF Served
  <2> QED BY <2>1, <2>2, AskSteps
<1> QED BY <1>1, <1>2 DEF Served, Serves, InFlight

(* Whatever is at work while a purge is on will be served by the next      *)
(* config, as it is by this one.                                           *)
LEMMA PurgeSpares ==
  ASSUME Types, Leased, ScopeQuiet, Chain, Served, node = "up", reload.stage \in Purging,
         NEW key \in Active
  PROVE  Serves(reload.next, key) /\ reload.next.creds[key[1]] = desired.creds[key[1]]
<1>1. key \in Keys /\ Serves(desired, key)
  BY ActiveKeys DEF Served
<1>2. reload.ids = Affected(desired, reload.next) /\ ~InScope(key, reload.ids)
  BY DEF Chain, ScopeQuiet, Purging
<1>3. desired \in Configs /\ reload.next \in Configs
  BY TypesSplit DEF NodeTypes, Purging
<1> QED BY <1>1, <1>2, <1>3, Unaffected

(* Every step keeps what is at work served.                                *)
LEMMA ServedStep ==
  ASSUME Types, Leased, AtRest, ScopeQuiet, Chain, Served, [Next]_vars
  PROVE  Served'
<1>1. CASE ReloadStep /\ node = "up" /\ UNCHANGED <<node, pc, ask>>
  <2>1. CASE Unblock
    <3>1. /\ reload.stage \in Purging /\ desired' = reload.next
          /\ UNCHANGED <<pc, ask, starting, running>>
      BY <2>1 DEF Unblock, At, Purging, askVars, poolVars
    <3>2. Active' = Active /\ \A a \in Asks : InFlight(a)' = InFlight(a)
      BY <3>1 DEF Active, InFlight, RunningSessions, KeyOf
    <3>3. \A key \in Active : /\ Serves(reload.next, key)
                             /\ reload.next.creds[key[1]] = desired.creds[key[1]]
      BY <3>1, <1>1, PurgeSpares
    <3>4. \A a \in Asks : InFlight(a) => /\ ask[a].key \in Active
                                       /\ ask[a].cred = desired.creds[ask[a].key[1]]
      BY <1>1, ActiveKeys DEF Served
    <3> QED BY <3>1, <3>2, <3>3, <3>4 DEF Served, Serves
  <2>2. CASE ~Unblock
    <3>1. UNCHANGED desired
      BY <1>1, <2>2 DEF ReloadStep, ReadConfig, Block, DisposeScopes, ListBindings,
                        RemoveBindings, ReloadTransport, PublishCurrent, Acknowledge
    <3> QED BY <3>1, <1>1, ServedSame
  <2> QED BY <2>1, <2>2
<1>2. CASE StartNode \/ Close \/ Stopped
  BY <1>2 DEF StartNode, Close, Stopped, Served
<1>3. CASE Serve
  <2>1. /\ starting' = {} /\ running' = {} /\ \A a \in Asks : pc'[a] = "idle"
    BY <1>3 DEF Serve, AtRest, poolVars, askVars
  <2>2. Active' = {} /\ \A a \in Asks : ~InFlight(a)'
    BY <2>1 DEF Active, RunningSessions, InFlight, WorkPcs
  <2> QED BY <2>2 DEF Served
<1>4. CASE UNCHANGED <<ack, nodeVars>>
  <2>1. UNCHANGED <<node, desired>>
    BY <1>4 DEF nodeVars
  <2>2. CASE node = "up"
    BY <2>1, <2>2, ServedSame
  <2>3. CASE node # "up"
    BY <2>1, <2>3 DEF Served
  <2> QED BY <2>2, <2>3
<1> QED BY <1>1, <1>2, <1>3, <1>4, NodeSteps

(* Where nothing is added, RetiredInv is kept by every step.               *)
LEMMA RetiredInductive ==
  ASSUME NothingAdded
  PROVE  Spec => [](IInv /\ RetiredInv)
<1>1. Init => RetiredInv
  <2> SUFFICES ASSUME Init PROVE RetiredInv
    OBVIOUS
  <2>1. \A p \in Peers : config.creds[p] = 1
    BY DEF Init, NothingAdded
  <2>2. Workspaces \subseteq config.spaces /\ node = "down"
    BY DEF Init, NothingAdded
  <2> QED BY <2>1, <2>2 DEF RetiredInv, Chain, Served
<1>2. IInv /\ RetiredInv /\ [Next]_vars => RetiredInv'
  BY ChainStep, ServedStep DEF IInv, RetiredInv
<1> QED BY <1>1, <1>2, Inductive, PTL DEF Spec

(* What is acknowledged and in force is what the Node desires.             *)
LEMMA AcknowledgedDesired ==
  ASSUME Types, Chain, node = "up", ack = Effective
  PROVE  /\ desired.spaces = Effective.spaces
         /\ \A p \in Peers : desired.creds[p] = Effective.creds[p]
<1>1. desired \in Configs /\ Effective \in Configs
  BY TypesSplit, EffectiveType DEF NodeTypes, DiskTypes
<1>2. Before(desired, Effective) /\ Before(Effective, desired)
  BY DEF Chain
<1>3. \A p \in Peers : desired.creds[p] \in Nat /\ Effective.creds[p] \in Nat
  BY <1>1, CoordinatorAssumption DEF Configs
<1>4. desired.spaces = Effective.spaces
  BY <1>2 DEF Before
<1>5. ASSUME NEW p \in Peers PROVE desired.creds[p] = Effective.creds[p]
  BY <1>2, <1>3 DEF Before, CredsBefore
<1> QED BY <1>4, <1>5

(* What the acknowledgement promises, whatever an interrupt hits: when the *)
(* config in force is acknowledged, no ask works for a revoked peer, a     *)
(* replaced credential or a removed workspace, and no backend runs for     *)
(* one.                                                                    *)
THEOREM AcknowledgedScopesRetired ==
  ASSUME NothingAdded
  PROVE  Spec => []ScopesRetired
<1>1. IInv /\ RetiredInv => ScopesRetired
  <2> SUFFICES ASSUME Types, Leased, Chain, Served, node = "up", ack = Effective
               PROVE  /\ \A key \in Active : Serves(Effective, key)
                      /\ \A a \in Asks :
                           InFlight(a) => ask[a].cred = Effective.creds[ask[a].key[1]]
    BY DEF IInv, RetiredInv, ScopesRetired
  <2>1. \A key \in Active : key[1] \in Peers /\ Serves(desired, key)
    BY ActiveKeys, KeyParts DEF Served
  <2>2. \A a \in Asks : InFlight(a) => /\ ask[a].key \in Active
                                     /\ ask[a].cred = desired.creds[ask[a].key[1]]
    BY ActiveKeys DEF Served
  <2> QED BY <2>1, <2>2, AcknowledgedDesired DEF Serves
<1> QED BY <1>1, RetiredInductive, PTL

-----------------------------------------------------------------------------
(* A late write is done, waits, or has just outlived an ask that was       *)
(* writing.                                                                *)
LEMMA LateSteps ==
  ASSUME Types, [Next]_vars
  PROVE  \/ late' \subseteq late
         \/ \E a \in Asks : /\ pc[a] = "writing" /\ late' = late \cup {ask[a].session}
                            /\ UNCHANGED <<diskVars, stateVars>>
<1>1. CASE CliStep
  BY <1>1 DEF CliStep, AddAgent, RotateAgent, AddWorkspace, SetRuntime, BeginRemoval,
              EndRemoval, CliCrashes, Edits
<1>2. ASSUME NEW a \in Asks, AskStep(a)
      PROVE  \/ UNCHANGED late
             \/ /\ pc[a] = "writing" /\ late' = late \cup {ask[a].session}
                /\ UNCHANGED <<diskVars, stateVars>>
  <2>1. CASE InterruptTouch(a)
    BY <2>1 DEF InterruptTouch, End
  <2> QED BY <1>2, <2>1 DEF AskStep, AskProgress, Admit, Proceed, StartBackend, Answered,
              AskFails, TouchReads, TouchFails, TouchWrites, Leave, InterruptAdmitted
<1>3. CASE PoolStep
  BY <1>3 DEF PoolStep, CreateSession, DropBackend, LateWrite
<1>4. CASE ReloadStep
  BY <1>4 DEF ReloadStep, ReadConfig, Block, DisposeScopes, ListBindings, RemoveBindings,
              Unblock, ReloadTransport, PublishCurrent, Acknowledge
<1>5. CASE NodeStep
  BY <1>5 DEF NodeStep, StartNode, Serve, NodeCrashes, Close, Closed, Stopped
<1>6. CASE UNCHANGED vars
  BY <1>6 DEF vars
<1> QED BY <1>1, <1>2, <1>3, <1>4, <1>5, <1>6 DEF Next

(* A binding stays, goes with its scope, is made for a key in force, or is *)
(* brought back by a late write.                                           *)
LEMMA BindingsMove ==
  ASSUME Types, Leased, AtRest, ScopeQuiet, Chain, Served, Bound, Outlived, [Next]_vars,
         NEW key \in Keys
  PROVE  \/ bindings'[key] = bindings[key]
         \/ /\ bindings'[key] = None /\ ~Serves(Effective, key)
            /\ \A a \in Asks : ~(pc[a] = "writing" /\ ask[a].key = key)
         \/ /\ bindings[key] = None /\ node = "up" /\ Serves(Effective, key)
            /\ UNCHANGED <<diskVars, nodeVars>>
         \/ /\ bindings[key] = None /\ ~Serves(Effective, key) /\ key \in revived'
            /\ \E s \in late : KeyOf(s) = key /\ bindings'[key] = s[3]
            /\ UNCHANGED <<diskVars, nodeVars>>
<1>t. /\ bindings \in [Keys -> Nat \cup {None}] /\ Effective \in Configs
      /\ reload.stage # "idle" => reload.next \in Configs
  BY TypesSplit, EffectiveType DEF SessionTypes, NodeTypes, DiskTypes
<1>1. ASSUME NEW a \in Asks, NEW k \in Keys, Admit(a, k)
      PROVE  \/ bindings'[key] = bindings[key]
             \/ /\ bindings[key] = None /\ node = "up" /\ Serves(Effective, key)
                /\ UNCHANGED <<diskVars, nodeVars>>
  <2>1. CASE k # key
    BY <1>1, <2>1, Admits
  <2>2. CASE bindings[k] # None
    BY <1>1, <2>2, Admits DEF stateVars
  <2> QED BY <1>1, <2>1, <2>2, AdmitsOutside
<1>2. ASSUME NEW a \in Asks, TouchWrites(a) PROVE bindings'[key] = bindings[key]
  <2>1. bindings[ask[a].key] = ask[a].session[3]
    BY <1>2 DEF TouchWrites, Bound
  <2> QED BY <1>2, <1>t, <2>1 DEF TouchWrites
<1>3. ASSUME NEW s \in late, LateWrite(s)
      PROVE  \/ bindings'[key] = bindings[key]
             \/ /\ bindings[key] = None /\ ~Serves(Effective, key) /\ key \in revived'
                /\ KeyOf(s) = key /\ bindings'[key] = s[3]
                /\ UNCHANGED <<diskVars, nodeVars>>
  <2>1. /\ bindings' = [bindings EXCEPT ![KeyOf(s)] = s[3]]
        /\ revived' = IF bindings[KeyOf(s)] = None THEN revived \cup {KeyOf(s)} ELSE revived
        /\ UNCHANGED <<diskVars, nodeVars>>
    BY <1>3 DEF LateWrite
  <2>2. CASE KeyOf(s) # key \/ bindings[KeyOf(s)] = s[3]
    BY <2>1, <2>2, <1>t
  <2>3. CASE KeyOf(s) = key /\ bindings[key] = None /\ ~Serves(Effective, key)
    BY <2>1, <2>3, <1>t
  <2> QED BY <2>2, <2>3 DEF Outlived
<1>4. CASE RemoveBindings
  <2>1. /\ node = "up" /\ reload.stage = "remove"
        /\ bindings'[key] = IF key \in reload.doomed THEN None ELSE bindings[key]
    BY <1>4 DEF RemoveBindings, At
  <2>2. CASE key \in reload.doomed
    <3>1. ~Serves(reload.next, key)
      BY <2>1, <2>2 DEF Bound
    <3>2. ~Serves(Effective, key)
      BY <2>1, <3>1, <1>t, BeforeOrder DEF Chain
    <3>3. key \notin Active
      BY <2>1, <3>1, PurgeSpares DEF Purging
    <3>4. \A a \in Asks : pc[a] = "writing" => ask[a].key \in Active
      BY ActiveKeys DEF InFlight, WorkPcs
    <3> QED BY <2>1, <2>2, <3>2, <3>3, <3>4
  <2> QED BY <2>1, <2>2
<1>5. CASE StartNode
  <2>1. \A a \in Asks : pc[a] = "idle"
    BY <1>5 DEF StartNode, AtRest
  <2> QED BY <1>5, <2>1 DEF StartNode
<1> QED BY <1>1, <1>2, <1>3, <1>4, <1>5, BindingSteps

(* Every step keeps the bindings to what is served.                        *)
LEMMA BoundStep ==
  ASSUME Types, Leased, AtRest, ScopeQuiet, Chain, Served, Bound, Outlived, [Next]_vars
  PROVE  Bound'
<1> USE DEF Purging
<1>t. /\ bindings \in [Keys -> Nat \cup {None}] /\ Effective \in Configs
      /\ desired \in Configs
      /\ reload.stage # "idle" => reload.next \in Configs
  BY TypesSplit, EffectiveType DEF SessionTypes, NodeTypes, DiskTypes
<1>s. ASSUME NEW key \in Keys, node = "up", Serves(Effective, key)
      PROVE  Serves(desired, key) /\ (reload.stage # "idle" => Serves(reload.next, key))
  <2>1. Before(desired, Effective) /\ (reload.stage # "idle" => Before(reload.next, Effective))
    BY <1>s DEF Chain
  <2>2. ASSUME NEW c \in Configs, Before(c, Effective) PROVE Serves(c, key)
    <3>1. key[1] \in Peers
      BY KeyParts
    <3> QED BY <3>1, <1>s, <2>2 DEF Before, CredsBefore, Serves
  <2>3. desired \in Configs /\ (reload.stage # "idle" => reload.next \in Configs)
    BY <1>t
  <2> QED BY <2>1, <2>2, <2>3
<1>2. ASSUME NEW a \in Asks, pc'[a] = "writing" PROVE bindings'[ask'[a].key] = ask'[a].session[3]
  <2>1. ASSUME pc[a] = "writing", ask'[a] = ask[a] PROVE bindings'[ask'[a].key] = ask'[a].session[3]
    <3>1. /\ bindings[ask[a].key] = ask[a].session[3] /\ ask[a].key \in Keys
          /\ ask[a].session[3] \in Nat
      BY <2>1, SessionParts DEF Bound, Leased, LeasePcs, WorkPcs
    <3>2. bindings[ask[a].key] # None
      BY <3>1, CoordinatorAssumption
    <3> QED BY <2>1, <3>1, <3>2, BindingsMove
  <2>2. ASSUME NEW b \in Asks, NEW key \in Keys, Admit(b, key)
        PROVE  pc[a] = "writing" /\ ask'[a] = ask[a]
    BY <2>2, <1>2, Admits DEF Types, TypeOK
  <2>3. ASSUME Goes(a) PROVE bindings'[ask'[a].key] = ask'[a].session[3]
    BY <2>3, <2>1, <1>2 DEF Goes, LeasePcs, WorkPcs
  <2> QED BY <2>1, <2>2, <2>3, AskSteps
<1>3. ASSUME NEW key \in Keys, node' \in {"starting", "up"}, bindings'[key] # None
      PROVE  Serves(desired', key) \/ key \in revived'
  <2>1. ASSUME UNCHANGED <<node, desired>> PROVE Serves(desired', key) \/ key \in revived'
    <3>1. CASE bindings'[key] = bindings[key]
      <4>1. Serves(desired, key) \/ key \in revived
        BY <3>1, <2>1, <1>3 DEF Bound
      <4> QED BY <4>1, <2>1, <1>3, RevivedSteps
    <3>2. CASE node = "up" /\ Serves(Effective, key)
      BY <3>2, <1>s, <2>1
    <3> QED BY <3>1, <3>2, <1>3, BindingsMove
  <2>2. CASE ReloadStep /\ node = "up" /\ UNCHANGED <<node, pc, ask>>
    <3>1. CASE Unblock
      BY <3>1, <1>3 DEF Unblock, At, Bound, stateVars
    <3>2. CASE ~Unblock
      BY <2>1, <2>2, <3>2 DEF ReloadStep, ReadConfig, Block, DisposeScopes, ListBindings,
                              RemoveBindings, ReloadTransport, PublishCurrent, Acknowledge
    <3> QED BY <3>1, <3>2
  <2>3. CASE StartNode
    BY <2>3, <1>3 DEF StartNode
  <2>4. CASE Serve
    BY <2>4, <1>3 DEF Serve, Bound, stateVars
  <2>5. CASE Close \/ Stopped
    BY <2>5, <1>3 DEF Close, Stopped
  <2>6. CASE UNCHANGED <<ack, nodeVars>>
    BY <2>6, <2>1 DEF nodeVars
  <2> QED BY <2>2, <2>3, <2>4, <2>5, <2>6, NodeSteps
<1>4. ASSUME reload'.stage \in {"remove", "unblock"}
      PROVE  \/ ListBindings \/ RemoveBindings
             \/ node = "up" /\ UNCHANGED reload
  <2>1. CASE ReloadStep
    BY <2>1, <1>4, Stages DEF ReloadStep
  <2>2. CASE StartNode \/ Serve \/ Close \/ Stopped
    BY <2>2, <1>4 DEF StartNode, Serve, Close, Stopped, AtRest, NoReload
  <2>3. CASE UNCHANGED <<ack, nodeVars>>
    BY <2>3, <1>4 DEF nodeVars, AtRest, NoReload
  <2> QED BY <2>1, <2>2, <2>3, NodeSteps
<1>5. ASSUME NEW key \in Keys, node = "up", reload.stage \in {"remove", "unblock"}
      PROVE  \/ bindings'[key] = bindings[key] \/ bindings'[key] = None
             \/ Serves(reload.next, key) \/ key \in revived'
  <2>1. Serves(Effective, key) => Serves(reload.next, key)
    BY <1>5, <1>s
  <2> QED BY <2>1, BindingsMove
<1>6. ASSUME reload'.stage = "remove", NEW key \in Keys
      PROVE  /\ key \in reload'.doomed => ~Serves(reload'.next, key)
             /\ bindings'[key] # None =>
                  \/ key \in reload'.doomed \/ Serves(reload'.next, key) \/ key \in revived'
  <2>1. CASE ListBindings
    <3>1. /\ reload'.next = reload.next /\ reload'.doomed = Orphans(reload.next)
          /\ bindings' = bindings
      BY <2>1, Stages DEF ListBindings, stateVars
    <3> QED BY <3>1 DEF Orphans
  <2>2. CASE RemoveBindings
    BY <2>2, <1>6, Stages
  <2>3. CASE node = "up" /\ UNCHANGED reload
    BY <2>3, <1>5, <1>6, RevivedSteps DEF Bound
  <2> QED BY <2>1, <2>2, <2>3, <1>4, <1>6
<1>7. ASSUME reload'.stage = "unblock", NEW key \in Keys, bindings'[key] # None
      PROVE  Serves(reload'.next, key) \/ key \in revived'
  <2>1. CASE ListBindings
    BY <2>1, <1>7, Stages
  <2>2. CASE RemoveBindings
    <3>1. /\ reload.stage = "remove" /\ reload'.next = reload.next
          /\ bindings'[key] = IF key \in reload.doomed THEN None ELSE bindings[key]
      BY <2>2, Stages DEF RemoveBindings, At
    <3> QED BY <3>1, <1>7, RevivedSteps DEF Bound
  <2>3. CASE node = "up" /\ UNCHANGED reload
    BY <2>3, <1>5, <1>7, RevivedSteps DEF Bound
  <2> QED BY <2>1, <2>2, <2>3, <1>4, <1>7
<1> QED BY <1>2, <1>3, <1>6, <1>7 DEF Bound, Serves

(* What has left the config for good is not served again.                  *)
LEMMA NeverAgain ==
  ASSUME Types, Chain, [Next]_vars, NEW key \in Keys, Serves(Effective', key)
  PROVE  Serves(Effective, key)
<1>1. Before(Effective, Effective') /\ Effective \in Configs /\ Effective' \in Configs
  BY Onward DEF Chain, Kept
<1> QED BY <1>1, BeforeOrder

(* Every step keeps what the late writes name.                             *)
LEMMA OutlivedStep ==
  ASSUME Types, Leased, AtRest, ScopeQuiet, Chain, Served, Bound, Outlived, [Next]_vars
  PROVE  Outlived'
<1>t. /\ bindings \in [Keys -> Nat \cup {None}] /\ late \subseteq Triples
      /\ \A s \in late : KeyOf(s) \in Keys
  BY TypesSplit, SessionParts DEF SessionTypes
<1>1. CASE late' \subseteq late
  <2>1. ASSUME NEW s \in late'
        PROVE  \/ bindings'[KeyOf(s)] = s[3]
               \/ bindings'[KeyOf(s)] = None /\ ~Serves(Effective', KeyOf(s))
    <3> DEFINE key == KeyOf(s)
    <3>1. s \in late /\ key \in Keys /\ s[3] # None
      BY <1>1, <2>1, <1>t, SessionParts, CoordinatorAssumption
    <3>2. bindings[key] = s[3] \/ (bindings[key] = None /\ ~Serves(Effective, key))
      BY <3>1 DEF Outlived
    <3>3. ~Serves(Effective, key) => ~Serves(Effective', key)
      BY <3>1, NeverAgain
    <3>4. \A t \in late : KeyOf(t) = key => t[3] = s[3]
      BY <3>1 DEF Outlived
    <3> HIDE DEF key
    <3>5. \/ bindings'[key] = s[3]
          \/ bindings'[key] = None /\ ~Serves(Effective', key)
      BY <3>1, <3>2, <3>3, <3>4, BindingsMove
    <3> QED BY <3>5 DEF key
  <2>2. \A s, t \in late' : KeyOf(s) = KeyOf(t) => s[3] = t[3]
    BY <1>1 DEF Outlived
  <2>3. \A s : KeyOf(s)' = KeyOf(s)
    BY DEF KeyOf
  <2> QED BY <2>1, <2>2, <2>3 DEF Outlived, KeyOf, Serves
<1>2. ASSUME NEW a \in Asks, pc[a] = "writing", late' = late \cup {ask[a].session},
             UNCHANGED <<diskVars, stateVars>>
      PROVE  Outlived'
  <2>1. bindings' = bindings /\ Effective' = Effective
    BY <1>2 DEF Effective, diskVars, stateVars
  <2>2. /\ KeyOf(ask[a].session) = ask[a].key /\ bindings[ask[a].key] = ask[a].session[3]
        /\ ask[a].session[3] \in Nat
    BY <1>2, SessionParts DEF Bound, Leased, LeasePcs, WorkPcs
  <2>3. ask[a].session[3] # None
    BY <2>2, CoordinatorAssumption
  <2>4. \A s \in late : KeyOf(s) = ask[a].key => s[3] = ask[a].session[3]
    BY <2>2, <2>3 DEF Outlived
  <2>5. \A s, t \in late' : KeyOf(s) = KeyOf(t) => s[3] = t[3]
    BY <1>2, <2>2, <2>4 DEF Outlived
  <2>6. \A s \in late' : \/ bindings[KeyOf(s)] = s[3]
                         \/ bindings[KeyOf(s)] = None /\ ~Serves(Effective, KeyOf(s))
    BY <1>2, <2>2 DEF Outlived
  <2> QED BY <2>1, <2>5, <2>6 DEF Outlived, KeyOf, Serves
<1> QED BY <1>1, <1>2, LateSteps

(* Bound is kept too, whatever an interrupt hits.                          *)
LEMMA BoundInductive ==
  ASSUME NothingAdded
  PROVE  Spec => [](IInv /\ RetiredInv /\ Bound /\ Outlived)
<1>1. Init => Bound /\ Outlived
  BY DEF Init, Bound, Outlived, NoReload
<1>2. IInv /\ RetiredInv /\ Bound /\ Outlived /\ [Next]_vars => Bound' /\ Outlived'
  BY BoundStep, OutlivedStep DEF IInv, RetiredInv
<1> QED BY <1>1, <1>2, RetiredInductive, PTL DEF Spec

(* ADR 0005, as far as it goes: the acknowledged config leaves no binding  *)
(* of a removed scope, and nothing creates one again but a write that had  *)
(* begun when its ask was interrupted, wherever interrupts hit.            *)
THEOREM AcknowledgedBindingsRetired ==
  ASSUME NothingAdded
  PROVE  Spec => []BindingsRetired
<1>1. IInv /\ RetiredInv /\ Bound => BindingsRetired
  <2> SUFFICES ASSUME Types, Chain, Bound, node = "up", ack = Effective, NEW key \in Keys,
                      bindings[key] # None, key \notin revived
               PROVE  Serves(Effective, key)
    BY DEF IInv, RetiredInv, BindingsRetired, Orphans
  <2>1. Serves(desired, key) /\ key[1] \in Peers
    BY KeyParts DEF Bound
  <2> QED BY <2>1, AcknowledgedDesired DEF Serves
<1> QED BY <1>1, BoundInductive, PTL

(* A peer keeps its session, and so its history, through rotations,        *)
(* runtime changes, restarts and the removal of others, wherever           *)
(* interrupts hit.                                                         *)
THEOREM BindingsAlwaysKept ==
  ASSUME NothingAdded
  PROVE  Spec => BindingsKept
<1>1. IInv /\ RetiredInv /\ Bound /\ Outlived /\ [Next]_vars =>
        [\A key \in Keys :
           bindings[key] # None /\ bindings'[key] # bindings[key] => ~Serves(Effective, key)]_vars
  BY BindingsMove DEF IInv, RetiredInv
<1> QED BY <1>1, BoundInductive, PTL DEF Spec, BindingsKept
=============================================================================
