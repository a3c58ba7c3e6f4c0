------------------------ MODULE TransportLinkProofs -------------------------
(***************************************************************************)
(* The safety properties of a peer link, proved for any keys, edits, serve *)
(* processes and connections.                                              *)
(*                                                                         *)
(* The Node's end rests on one fact: whatever lives, and was not left by a *)
(* Node on its way out, is the serve process that was spawned last.        *)
(* The connector's end rests on a count: `active` is the number of bridges *)
(* that use the session.                                                   *)
(***************************************************************************)
EXTENDS TransportLink, FiniteSetTheorems, TLAPS

Stages  == {"reconciling", "closing", "starting", "storing", "refusing", "acking", "idle"}
Process == [stage : {"none", "dead"} \cup Server!Living, allows : SUBSET Keys]

ServerTypeOK ==
  /\ config \in [keys : SUBSET Keys, version : Nat]
  /\ acked \in [keys : SUBSET Keys, version : Nat]
  /\ next \in [keys : SUBSET Keys, version : Nat]
  /\ node \in {"starting", "up", "stopping", "gone"}
  /\ reload \in Stages
  /\ process \in 0 .. MaxServes /\ spawned \in 0 .. MaxServes
  /\ watched \subseteq Server!Ids
  /\ serves \in [Server!Ids -> Process]
  /\ left \subseteq 1 .. spawned

(* Only the last process that was spawned lives and is not left.           *)
LastLives == \A i \in Server!Ids \ left : Server!Live(i) => i = spawned

(* At every stage, what lives and is not left is the current process, or   *)
(* about to be it, or has been told to end.                                *)
Owned ==
  /\ node \in {"stopping", "gone"} => reload = "idle"
  /\ reload \in {"closing", "starting", "storing", "refusing"} => process = 0
  /\ node \in {"starting", "up"} /\ reload \in {"idle", "reconciling", "acking"} =>
       \A i \in Server!Ids \ left : Server!Live(i) => i = process
  /\ reload \in {"closing", "refusing"} =>
       \A i \in Server!Ids \ left : Server!Live(i) => serves[i].stage = "term"
  /\ reload \in {"starting", "storing", "refusing"} => spawned # 0
  /\ node = "stopping" =>
       \A i \in Server!Ids \ left : Server!Live(i) => i = process \/ serves[i].stage = "term"
  /\ node = "gone" => \A i \in Server!Ids \ left : ~Server!Live(i)

(* The allowlists agree.                                                   *)
Allowed ==
  /\ process # 0 => serves[process].allows = signature
  /\ reload \in {"starting", "storing"} => serves[spawned].allows = next.keys
  /\ reload = "acking" => signature = next.keys
  /\ node = "up" /\ reload \in {"idle", "reconciling"} => signature = acked.keys

SInv == ServerTypeOK /\ LastLives /\ Owned /\ Allowed

USE LinkAssumption DEF Server!SupervisorAssumption

-----------------------------------------------------------------------------
(* Before the first start nothing lives.                                   *)
LEMMA ServerInit == Server!Init => SInv
<1> SUFFICES ASSUME Server!Init PROVE SInv
  OBVIOUS
<1> USE DEF Server!Init
<1>1. \A i \in Server!Ids : ~Server!Live(i)
  BY DEF Server!Live, Server!Living
<1>2. ServerTypeOK
  BY DEF ServerTypeOK, Server!Nothing, Stages, Process
<1> QED BY <1>1, <1>2 DEF SInv, LastLives, Owned, Allowed

(* What kill does to a process, and does not.                              *)
LEMMA KillSets ==
  ASSUME ServerTypeOK, NEW i \in 0 .. MaxServes
  PROVE  /\ Server!Killed(i) \in [Server!Ids -> Process]
         /\ \A j \in Server!Ids :
              /\ Server!Killed(i)[j].allows = serves[j].allows
              /\ j # i => Server!Killed(i)[j] = serves[j]
              /\ j = i /\ Server!Live(j) => Server!Killed(i)[j].stage = "term"
              /\ Server!Killed(i)[j].stage \in Server!Living <=> Server!Live(j)
BY DEF ServerTypeOK, Server!Killed, Server!Live, Server!Living, Server!Ids, Process

(* Every step of the Node's end, one by one.  StopNode is part of three    *)
(* of them.                                                                *)
LEMMA ServerStep ==
  ASSUME SInv, Server!Next
  PROVE  SInv'
<1> USE DEF SInv, Server!nodeVars, Server!supervisorVars, Server!serveVars, Server!vars,
            ServerTypeOK, LastLives, Owned, Allowed, Stages
<1>0. \A i \in Server!Ids : Server!Live(i) => i \in 1 .. spawned
  BY DEF Server!Ids
<1>1. CASE Server!Edit
  BY <1>1 DEF Server!Edit, Server!Live
<1>2. CASE Server!Start
  BY <1>2 DEF Server!Start, Server!Nothing, Server!Live
<1>3. CASE Server!BeginReload
  BY <1>3 DEF Server!BeginReload, Server!Live
<1>4. CASE Server!Keep
  BY <1>4 DEF Server!Keep, Server!Live
<1>5. CASE Server!ClosePrevious
  BY <1>5, KillSets DEF Server!ClosePrevious, Server!Live
<1>6. CASE Server!Spawn
  BY <1>6 DEF Server!Spawn, Server!Live, Server!Ended, Server!Ids, Server!Living, Process
<1>7. CASE Server!ReadReady
  BY <1>7 DEF Server!ReadReady, Server!Live
<1>8. CASE Server!Refuse
  BY <1>8, KillSets DEF Server!Refuse, Server!Live
<1>9. CASE Server!Store
  <2> USE <1>9 DEF Server!Store
  <2>1. spawned \in Server!Ids /\ node \notin {"stopping", "gone"}
    BY DEF Server!Ids
  <2>2. ServerTypeOK'
    BY <2>1 DEF Server!Ids
  <2>3. LastLives' /\ Owned'
    BY <2>1 DEF Server!Live
  <2>4. Allowed'
    BY <2>1
  <2> QED BY <2>2, <2>3, <2>4
<1>10. CASE Server!Acknowledge
  BY <1>10 DEF Server!Acknowledge, Server!Live
<1>11. ASSUME Server!StopNode PROVE SInv'
  <2> USE <1>11 DEF Server!StopNode
  <2>1. CASE reload \in {"closing", "refusing", "storing"}
    <3>1. serves' = serves /\ left' = left \cup {i \in Server!Ids : Server!Live(i)}
      BY <2>1
    <3>2. left' \subseteq 1 .. spawned /\ \A i \in Server!Ids \ left' : ~Server!Live(i)'
      BY <1>0, <3>1 DEF Server!Live
    <3> QED BY <2>1, <3>1, <3>2
  <2>2. CASE reload = "starting"
    BY <2>2, KillSets DEF Server!Live
  <2>3. CASE reload \in {"reconciling", "acking", "idle"}
    BY <2>3 DEF Server!Live
  <2> QED BY <2>1, <2>2, <2>3
<1>12. CASE Server!ReloadFails
  BY <1>11, <1>12 DEF Server!ReloadFails
<1>14. CASE Server!Close
  BY <1>14, KillSets DEF Server!Close, Server!Live
<1>15. CASE Server!Exit
  BY <1>15 DEF Server!Exit, Server!Gone, Server!Nothing, Server!Ended, Server!Live, Server!Ids
<1>16. ASSUME NEW i \in Server!Ids, Server!ExitSeen(i) PROVE SInv'
  <2>1. CASE Server!Fatal(i) /\ Server!StopNode
    BY <1>11, <2>1 DEF Server!Fatal, Server!Ids
  <2>2. CASE ~Server!Fatal(i)
    BY <1>16, <2>2 DEF Server!ExitSeen, Server!Live
  <2> QED BY <1>16, <2>1, <2>2 DEF Server!ExitSeen
<1>17. ASSUME NEW i \in Server!Ids, Server!ServeReady(i) PROVE SInv'
  BY <1>17 DEF Server!ServeReady, Server!Live, Server!Living, Process
<1>18. ASSUME NEW i \in Server!Ids, Server!ServeEnds(i) PROVE SInv'
  BY <1>18 DEF Server!ServeEnds, Server!Live, Server!Living, Process
<1>19. CASE Server!Die
  <2>1. serves' = serves /\ left' = left \cup {i \in Server!Ids : Server!Live(i)}
    BY <1>19 DEF Server!Die
  <2>2. left' \subseteq 1 .. spawned /\ \A i \in Server!Ids \ left' : ~Server!Live(i)'
    BY <1>0, <1>19, <2>1 DEF Server!Die, Server!Live
  <2> QED BY <1>19, <2>1, <2>2 DEF Server!Die, Server!Gone, Server!Nothing
<1> QED
  BY <1>1, <1>2, <1>3, <1>4, <1>5, <1>6, <1>7, <1>8, <1>9, <1>10, <1>11, <1>12, <1>14, <1>15,
     <1>16, <1>17, <1>18, <1>19 DEF Server!Next, Server!ReloadStep

-----------------------------------------------------------------------------
Using == {b \in Bridges : stage[b] \in Client!Acquired}

ClientTypeOK ==
  /\ connector \in {"preparing", "listening", "gone"}
  /\ stage \in [Bridges -> Client!Acquired \cup {"none", "done"}]
  /\ session \in [Bridges -> Bridges \cup {Prepared, None}]
  /\ via \in [Bridges -> Server!Ids \cup {None}]
  /\ peer \in Bridges \cup {Prepared, None}
  /\ active \in Nat
  /\ idleTimer \in Bridges \cup {None}
  /\ timer \in [Bridges -> {"none", "armed", "fired"}]
  /\ closed \subseteq Bridges \cup {Prepared}

(* `active` counts, and what is counted uses the session; a session that   *)
(* was closed is not opened again.                                         *)
Counted == active = Cardinality(Using)
Sessions ==
  /\ \A b \in Using : session[b] = peer
  /\ peer \notin closed
  /\ \A b \in Bridges : stage[b] = "none" => b \notin closed /\ peer # b /\ session[b] = None
  /\ connector # "listening" => peer = None /\ closed = {} /\ Using = {}
  /\ Using # {} => peer # None
  /\ \A b \in Bridges : timer[b] # "none" => session[b] # None

(* An open connection goes through a process that let it in.               *)
Let == \A b \in Bridges : stage[b] = "open" =>
  via[b] \in 1 .. spawned /\ Key \in serves[via[b]].allows

CInv == ClientTypeOK /\ Counted /\ Sessions

USE DEF Client!ManagerAssumption

-----------------------------------------------------------------------------
(* No bridge uses the session that is not yet there.                       *)
LEMMA ClientInit == Client!Init => CInv /\ Let
<1> SUFFICES ASSUME Client!Init PROVE CInv /\ Let
  OBVIOUS
<1>1. Using = {}
  BY DEF Client!Init, Using, Client!Acquired
<1>2. Cardinality(Using) = 0
  BY <1>1, FS_EmptySet
<1> QED
  BY <1>1, <1>2
  DEF Client!Init, CInv, ClientTypeOK, Counted, Sessions, Let

(* The bridges that use the session, when one begins to or stops.          *)
LEMMA UsingCounted ==
  ASSUME Counted, NEW b \in Bridges
  PROVE  /\ b \notin Using => Cardinality(Using \cup {b}) = active + 1
         /\ b \in Using => Cardinality(Using \ {b}) = active - 1
         /\ active = 0 => Using = {}
<1>1. IsFiniteSet(Using)
  BY Using \subseteq Bridges, FS_Subset, LinkAssumption DEF Using
<1>2. b \notin Using => Cardinality(Using \cup {b}) = active + 1
  BY <1>1, FS_AddElement DEF Counted
<1>3. b \in Using => Cardinality(Using \ {b}) = active - 1
  BY <1>1, FS_RemoveElement DEF Counted
<1>4. active = 0 => Using = {}
  BY <1>1, FS_EmptySet DEF Counted
<1> QED BY <1>2, <1>3, <1>4

(* A bridge that goes on using its session.                                *)
LEMMA UsingKept ==
  ASSUME CInv, NEW b \in Bridges, stage[b] \in Client!Acquired,
         NEW to \in Client!Acquired, Client!Goes(b, stage[b], to),
         via' = via \/ \E i \in Routes \cup {None} : via' = [via EXCEPT ![b] = i]
  PROVE  CInv'
<1> USE DEF CInv, Client!Goes, Client!managerVars
<1>1. Using' = Using
  BY DEF Using, ClientTypeOK
<1>2. ClientTypeOK'
  BY DEF ClientTypeOK, Routes
<1>3. Counted'
  BY <1>1 DEF Counted
<1>4. Sessions'
  BY <1>1 DEF Sessions, ClientTypeOK, Client!Acquired
<1> QED BY <1>2, <1>3, <1>4

(* Every step of the connector; the routes do not matter.                  *)
LEMMA ClientStep ==
  ASSUME CInv, Client!Next
  PROVE  CInv'
<1> USE DEF CInv, Client!managerVars, Client!bridgeVars
<1>1. CASE Client!Prepare
  <2>1. Using' = Using
    BY <1>1 DEF Client!Prepare, Using
  <2> QED
    BY <1>1, <2>1, LinkAssumption
    DEF Client!Prepare, ClientTypeOK, Counted, Sessions
<1>2. CASE Client!Quit
  <2>1. Using' = {}
    BY <1>2 DEF Client!Quit, Using, Client!Acquired
  <2>2. Cardinality(Using') = 0
    BY <2>1, FS_EmptySet
  <2> QED
    BY <1>2, <2>1, <2>2 DEF Client!Quit, ClientTypeOK, Counted, Sessions
<1>3. ASSUME NEW b \in Bridges, Client!Acquire(b) PROVE CInv'
  <2> USE <1>3 DEF Client!Acquire, Client!Stopped
  <2>1. b \notin Using /\ Using' = Using \cup {b}
    BY DEF Using, Client!Acquired, ClientTypeOK
  <2>2. ClientTypeOK'
    BY DEF ClientTypeOK, Client!Acquired
  <2>3. Counted'
    BY <2>1, UsingCounted DEF Counted
  <2>4. peer' # None /\ peer' \notin closed /\ (Using # {} => peer' = peer)
    BY LinkAssumption DEF Sessions
  <2>5. \A c \in Using' : session'[c] = peer'
    BY <2>1, <2>4 DEF Sessions, ClientTypeOK, Using
  <2>6. \A c \in Bridges : stage'[c] = "none" =>
          c \notin closed /\ peer' # c /\ session'[c] = None
    BY DEF Sessions, ClientTypeOK
  <2>7. \A c \in Bridges : timer'[c] # "none" => session'[c] # None
    BY <2>4 DEF Sessions, ClientTypeOK
  <2> QED BY <2>2, <2>3, <2>4, <2>5, <2>6, <2>7 DEF Sessions
<1>4. ASSUME NEW b \in Bridges,
             Client!LockSetup(b) \/ Client!Attempt(b) \/ Client!Hangup(b)
      PROVE  CInv'
  BY <1>4, UsingKept
  DEF Client!LockSetup, Client!Attempt, Client!Ping, Client!PingFails, Client!Dial,
      Client!DialFails, Client!Retry, Client!GiveUp, Client!Hangup, Client!Goes, Client!Acquired
<1>5. ASSUME NEW b \in Bridges, Client!Release(b) PROVE CInv'
  <2> USE <1>5 DEF Client!Release
  <2>1. b \in Using /\ Using' = Using \ {b}
    BY DEF Using, Client!Acquired, ClientTypeOK
  <2>2. active # 0
    BY <2>1, UsingCounted
  <2>3. ClientTypeOK'
    BY <2>2 DEF ClientTypeOK
  <2>4. Counted'
    BY <2>1, UsingCounted DEF Counted
  <2>5. Sessions'
    BY <2>1 DEF Sessions, ClientTypeOK
  <2> QED BY <2>3, <2>4, <2>5
<1>6. ASSUME NEW b \in Bridges, Client!Fire(b) PROVE CInv'
  <2>1. Using' = Using
    BY <1>6 DEF Client!Fire, Using
  <2> QED
    BY <1>6, <2>1 DEF Client!Fire, ClientTypeOK, Counted, Sessions
<1>7. ASSUME NEW b \in Bridges, Client!IdleCloses(b) PROVE CInv'
  <2> USE <1>7 DEF Client!IdleCloses
  <2>1. Using' = Using
    BY DEF Using
  <2>2. active = 0 => Using = {}
    BY UsingCounted
  <2>3. ClientTypeOK' /\ Counted'
    BY <2>1 DEF ClientTypeOK, Counted, Sessions
  <2>4. Sessions'
    BY <2>1, <2>2, LinkAssumption DEF Sessions, ClientTypeOK
  <2> QED BY <2>3, <2>4
<1> QED
  BY <1>1, <1>2, <1>3, <1>4, <1>5, <1>6, <1>7 DEF Client!Next

(* Only a dial opens a connection, and it takes a route there is.          *)
LEMMA ClientLets ==
  ASSUME SInv, CInv, Let, Client!Next, UNCHANGED serverVars
  PROVE  Let'
<1> USE DEF CInv, ClientTypeOK, Let, serverVars
<1>1. \A i \in Routes : i \in 1 .. spawned /\ Key \in serves[i].allows
  BY DEF SInv, ServerTypeOK, LastLives, Routes, Server!Live, Server!Living, Server!Ids
<1>2. ASSUME NEW b \in Bridges, Client!Dial(b) PROVE Let'
  BY <1>1, <1>2 DEF Client!Dial, Client!Goes
<1>3. ASSUME UNCHANGED via, \A b \in Bridges : stage'[b] = "open" => stage[b] = "open"
      PROVE  Let'
  BY <1>3
<1>4. CASE Client!Prepare \/ Client!Quit
  BY <1>3, <1>4 DEF Client!Prepare, Client!Quit, Client!bridgeVars
<1>5. ASSUME NEW b \in Bridges,
             \/ Client!Acquire(b) \/ Client!Release(b) \/ Client!Fire(b) \/ Client!IdleCloses(b)
      PROVE  Let'
  BY <1>3, <1>5
  DEF Client!Acquire, Client!Release, Client!Fire, Client!IdleCloses, Client!bridgeVars
<1>6. ASSUME NEW b \in Bridges,
             \/ Client!LockSetup(b) \/ Client!Ping(b) \/ Client!PingFails(b) \/ Client!DialFails(b)
             \/ Client!Retry(b) \/ Client!GiveUp(b) \/ Client!Hangup(b)
      PROVE  Let'
  BY <1>3, <1>6
  DEF Client!LockSetup, Client!Ping, Client!PingFails, Client!DialFails, Client!Retry,
      Client!GiveUp, Client!Hangup, Client!Goes
<1> QED BY <1>2, <1>4, <1>5, <1>6 DEF Client!Next, Client!Attempt

(* The server's steps keep what open connections rest on: a process keeps  *)
(* its allowlist, and no number is given twice.                            *)
LEMMA AllowlistsKept ==
  ASSUME SInv, Server!Next
  PROVE  /\ 1 .. spawned \subseteq 1 .. spawned'
         /\ \A i \in 1 .. spawned : serves'[i].allows = serves[i].allows
<1> DEFINE Kept == /\ 1 .. spawned \subseteq 1 .. spawned'
                   /\ \A i \in 1 .. spawned : serves'[i].allows = serves[i].allows
<1> USE DEF SInv, ServerTypeOK, Server!nodeVars, Server!supervisorVars, Server!serveVars,
            Server!Ids
<1>1. ASSUME NEW i \in 0 .. MaxServes, serves' = Server!Killed(i), spawned' = spawned
      PROVE  Kept
  BY <1>1, KillSets
<1>2. ASSUME UNCHANGED <<serves, spawned>> PROVE Kept
  BY <1>2
<1>3. ASSUME Server!StopNode PROVE Kept
  BY <1>1, <1>2, <1>3 DEF Server!StopNode
<1>4. CASE Server!ClosePrevious \/ Server!Refuse \/ Server!Close
  BY <1>1, <1>4 DEF Server!ClosePrevious, Server!Refuse, Server!Close
<1>5. CASE Server!Spawn
  BY <1>5 DEF Server!Spawn, Process
<1>6. CASE Server!Edit \/ Server!Start \/ Server!BeginReload \/ Server!Keep \/ Server!ReadReady
           \/ Server!Store \/ Server!Acknowledge \/ Server!Exit \/ Server!Die
  BY <1>2, <1>6
  DEF Server!Edit, Server!Start, Server!BeginReload, Server!Keep, Server!ReadReady,
      Server!Store, Server!Acknowledge, Server!Exit, Server!Die
<1>7. ASSUME NEW i \in Server!Ids, Server!ServeReady(i) \/ Server!ServeEnds(i)
      PROVE  Kept
  BY <1>7 DEF Server!ServeReady, Server!ServeEnds, Server!Live, Server!Living, Process
<1>8. CASE Server!ReloadFails \/ Server!StopNode \/ \E i \in Server!Ids : Server!ExitSeen(i)
  BY <1>2, <1>3, <1>8 DEF Server!ReloadFails, Server!ExitSeen
<1> QED
  BY <1>4, <1>5, <1>6, <1>7, <1>8 DEF Server!Next, Server!ReloadStep

(* So connections that are open keep what let them in.                     *)
LEMMA ServerLets ==
  ASSUME SInv, CInv, Let, Server!Next, UNCHANGED clientVars
  PROVE  Let'
BY AllowlistsKept DEF SInv, ServerTypeOK, CInv, Let, clientVars

(* Each invariant is about the variables of its own end.                   *)
LEMMA Stuttering ==
  /\ SInv /\ UNCHANGED serverVars => SInv'
  /\ CInv /\ UNCHANGED clientVars => CInv'
  /\ Let /\ UNCHANGED vars => Let'
<1>1. SInv /\ UNCHANGED serverVars => SInv'
  BY DEF SInv, serverVars, ServerTypeOK, LastLives, Owned, Allowed, Server!Live
<1>2. CInv /\ UNCHANGED clientVars => CInv'
  BY DEF CInv, clientVars, ClientTypeOK, Counted, Sessions, Using
<1>3. Let /\ UNCHANGED vars => Let'
  BY DEF Let, vars, serverVars, clientVars
<1> QED BY <1>1, <1>2, <1>3

-----------------------------------------------------------------------------
(* The connector keeps its count whatever the server does.                 *)
THEOREM ClientInductive == FairSpec => []CInv
<1>1. Init => CInv
  BY ClientInit DEF Init
<1>2. CInv /\ [Next]_vars => CInv'
  BY ClientStep, Stuttering DEF Next, vars
<1> QED BY <1>1, <1>2, PTL DEF FairSpec

(* A session that a connection is set up or carried over is not closed and *)
(* is the one everybody uses, also when an idle timer that had fired runs  *)
(* after the next acquire (main.go, release and acquire).                  *)
THEOREM SessionsInUseAlwaysOpen == FairSpec => []SessionsInUseOpen
<1>1. CInv => SessionsInUseOpen
  BY DEF CInv, Sessions, Using, SessionsInUseOpen, Client!SessionsInUseOpen
<1> QED BY <1>1, ClientInductive, PTL

-----------------------------------------------------------------------------
IInv == SInv /\ CInv /\ Let

(* Both ends together.                                                     *)
THEOREM Inductive == FairSpec => []IInv
<1>1. Init => IInv
  BY ServerInit, ClientInit DEF Init, IInv
<1>2. IInv /\ [Next]_vars => IInv'
  <2> SUFFICES ASSUME IInv, [Next]_vars PROVE IInv'
    OBVIOUS
  <2>1. CASE Server!Next /\ UNCHANGED clientVars
    BY <2>1, ServerStep, ServerLets, Stuttering DEF IInv
  <2>2. CASE Client!Next /\ UNCHANGED serverVars
    BY <2>2, ClientStep, ClientLets, Stuttering DEF IInv
  <2>3. CASE UNCHANGED vars
    BY <2>3, Stuttering DEF IInv, vars
  <2> QED BY <2>1, <2>2, <2>3 DEF Next
<1> QED BY <1>1, <1>2, PTL DEF FairSpec

(* At most one serve process lives that was not left, and none after its   *)
(* Node: replacing the process, its end, and a Node that stops or dies in  *)
(* the middle of a reload, and starts again, make no second one but those  *)
(* it had dropped its reference to (closeEffect, reloadEffect).            *)
THEOREM OneServerAlways == FairSpec => []OneServer
<1>1. IInv => OneServer
  BY DEF IInv, SInv, LastLives, Owned, OneServer, Server!OneServer
<1> QED BY <1>1, Inductive, PTL

(* A peer whose key an acknowledged configuration does not list has no     *)
(* connection that is carried but by a process that an earlier run of the  *)
(* Node left, however the edit, the reload and its own connections         *)
(* overtook each other (SPEC.md:183).                                      *)
THEOREM AllowlistAlwaysEnforced == FairSpec => []AllowlistEnforced
<1>1. IInv => AllowlistEnforced
  <2> SUFFICES ASSUME IInv, node = "up", reload = "idle", Key \notin acked.keys,
                      NEW b \in Bridges, Carries(b), via[b] \notin left
               PROVE  FALSE
    BY DEF AllowlistEnforced
  <2>1. via[b] \in Server!Ids /\ Server!Live(via[b]) /\ Key \in serves[via[b]].allows
    BY DEF IInv, SInv, ServerTypeOK, CInv, Let, Carries, Server!Ids, Server!Live
  <2>2. via[b] = process /\ process # 0
    BY <2>1 DEF IInv, SInv, Owned, Server!Ids
  <2>3. serves[process].allows = acked.keys
    BY <2>2 DEF IInv, SInv, Allowed
  <2> QED BY <2>1, <2>2, <2>3
<1> QED BY <1>1, Inductive, PTL
=============================================================================
