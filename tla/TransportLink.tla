---------------------------- MODULE TransportLink ----------------------------
(***************************************************************************)
(* A peer link from end to end: the serve process that a Node supervises   *)
(* and the connect process of one of its peers.  They meet in Tailcat,     *)
(* which is external: a connection goes through a serve process that is    *)
(* ready and allows the peer's key, and ends with that process.            *)
(***************************************************************************)
EXTENDS Naturals, FiniteSets

CONSTANTS Keys, MaxEdits, MaxServes,
          Bridges, Prepared, None,
          Key              (* the peer's                                    *)

VARIABLES config, node, acked, reload, next, process, signature, watched, serves, spawned, left,
          connector, stage, session, via, setup, peer, active, idleTimer, timer, closed

Server == INSTANCE TransportSupervisor WITH NoKeys <- None

(* AddAllowedClient: the keys a serve process was started with.            *)
Routes == {i \in Server!Ids : serves[i].stage = "ready" /\ Key \in serves[i].allows}
Client == INSTANCE PeerManager WITH routes <- Routes

ASSUME LinkAssumption ==
  /\ Key \in Keys /\ IsFiniteSet(Bridges)
  /\ Server!SupervisorAssumption /\ Client!ManagerAssumption

serverVars == <<config, node, acked, reload, next, process, signature, watched, serves, spawned, left>>
clientVars == <<connector, stage, session, via, setup, peer, active, idleTimer, timer, closed>>
vars       == <<serverVars, clientVars>>

Init == Server!Init /\ Client!Init
Next ==
  \/ Server!Next /\ UNCHANGED clientVars
  \/ Client!Next /\ UNCHANGED serverVars

FairSpec == Init /\ [][Next]_vars /\ Server!Fairness /\ Client!Fairness

-----------------------------------------------------------------------------
(* A connection carries bytes as long as the process it goes through.      *)
Carries(b) == stage[b] = "open" /\ serves[via[b]].stage \in Server!Living

(* SPEC.md:183, "Remote Peer credential revoke removes bearer and Tailcat  *)
(* key": once the Node has acknowledged an allowlist no connection of a    *)
(* peer that is not on it is carried, not even one that was open before,   *)
(* but through a process that an earlier run of the Node has left.         *)
AllowlistEnforced ==
  node = "up" /\ reload = "idle" /\ Key \notin acked.keys =>
    \A b \in Bridges : Carries(b) => via[b] \in left

(* The supervisor's: one serve process that is not left lives at a time,   *)
(* none after the Node has gone, whatever the peers do with it.            *)
OneServer == Server!OneServer

(* The supervisor's: a Node that is up does not stay unreachable.          *)
NodeReachable == Server!NodeReachable

(* The connector's: no session is closed under a bridge, also when the     *)
(* serve process behind it is replaced.                                    *)
SessionsInUseOpen == Client!SessionsInUseOpen

(* The connector's: a session that is no longer used is closed.            *)
IdleSessionsClose == Client!IdleSessionsClose

(* The connector's: a local connection is carried or closed, also when     *)
(* there is no serve process to reach.                                     *)
BridgesEnd == Client!BridgesEnd
=============================================================================
