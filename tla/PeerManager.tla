----------------------------- MODULE PeerManager -----------------------------
(***************************************************************************)
(* native/transport/main.go, connect: the process behind a loopback port   *)
(* that carries each local connection over one Tailcat session, shared     *)
(* while it is in use and closed a second after the last release.          *)
(*                                                                         *)
(* mu and setupMu serialise; timers fire in goroutines of their own, which *)
(* Stop does not call back.  The session that a bridge creates and the     *)
(* timer that it starts have its name.  Tailcat is external: a ping or a   *)
(* dial may fail, and succeeds only over a route to the server.            *)
(***************************************************************************)
EXTENDS Naturals

CONSTANTS
  Bridges,    (* local connections                                          *)
  Prepared,   (* the session that prepare opens                             *)
  None

(* Assumed wherever the module is used.                                    *)
ManagerAssumption ==
  {Prepared, None} \cap Bridges = {} /\ Prepared # None

VARIABLES
  routes,     (* serve processes that let this peer in, from outside        *)
  connector,  (* preparing, listening, gone                                 *)
  stage,      (* where every bridge is                                      *)
  session,    (* the session it acquired                                    *)
  via,        (* the route that its remote connection takes                 *)
  setup,      (* who holds setupMu                                          *)
  peer, active, idleTimer, timer,
  closed      (* sessions that were closed                                  *)

bridgeVars  == <<stage, session, via>>
managerVars == <<peer, active, idleTimer, timer, closed>>
vars        == <<connector, setup, bridgeVars, managerVars>>

-----------------------------------------------------------------------------
Acquired == {"waiting", "pinging", "dialing", "retrying", "open", "ending"}

Init ==
  /\ connector = "preparing"
  /\ stage = [b \in Bridges |-> "none"] /\ session = [b \in Bridges |-> None]
  /\ via = [b \in Bridges |-> None] /\ setup = None
  /\ peer = None /\ active = 0 /\ idleTimer = None
  /\ timer = [b \in Bridges |-> "none"] /\ closed = {}

Stopped == IF idleTimer # None /\ timer[idleTimer] = "armed"
           THEN [timer EXCEPT ![idleTimer] = "none"] ELSE timer

-----------------------------------------------------------------------------
(* prepare: pings until one is answered or 35 s are over.                  *)
Prepare ==
  /\ connector = "preparing" /\ routes # {}
  /\ connector' = "listening" /\ peer' = Prepared
  /\ UNCHANGED <<setup, bridgeVars, active, idleTimer, timer, closed>>

(* SIGTERM, or no route in time: the process ends with all it has.         *)
Quit ==
  /\ connector \in {"preparing", "listening"}
  /\ connector' = "gone"
  /\ stage' = [b \in Bridges |-> "none"] /\ session' = [b \in Bridges |-> None]
  /\ via' = [b \in Bridges |-> None] /\ setup' = None
  /\ peer' = None /\ active' = 0 /\ idleTimer' = None
  /\ timer' = [b \in Bridges |-> "none"] /\ closed' = {}

-----------------------------------------------------------------------------
(* bridge: acquire, ...                                                    *)
Acquire(b) ==
  /\ connector = "listening" /\ stage[b] = "none"
  /\ idleTimer' = None /\ timer' = Stopped
  /\ peer' = IF peer = None THEN b ELSE peer
  /\ session' = [session EXCEPT ![b] = peer']
  /\ active' = active + 1
  /\ stage' = [stage EXCEPT ![b] = "waiting"]
  /\ UNCHANGED <<connector, setup, via, closed>>

Goes(b, from, to) ==
  /\ connector = "listening"
  /\ stage[b] = from
  /\ stage' = [stage EXCEPT ![b] = to]
  /\ UNCHANGED <<connector, session, managerVars>>

(* ... bootstrap: one ping at a time, ...                                  *)
LockSetup(b) ==
  /\ setup = None
  /\ Goes(b, "waiting", "pinging")
  /\ setup' = b
  /\ UNCHANGED via
Ping(b) ==
  /\ routes # {}
  /\ Goes(b, "pinging", "dialing")
  /\ setup' = None
  /\ UNCHANGED via
(* Fault: setupMu stays locked when a ping fails.                          *)
PingFailsLocked(b) ==
  /\ Goes(b, "pinging", "retrying")
  /\ UNCHANGED <<setup, via>>
PingFails(b) ==
  /\ Goes(b, "pinging", "retrying")
  /\ setup' = None
  /\ UNCHANGED via

(* ... a dial, and all over again for 35 s.                                *)
Dial(b) ==
  /\ Goes(b, "dialing", "open")
  /\ \E route \in routes : via' = [via EXCEPT ![b] = route]
  /\ UNCHANGED setup
DialFails(b) == Goes(b, "dialing", "retrying") /\ UNCHANGED <<setup, via>>
Retry(b)     == Goes(b, "retrying", "waiting") /\ UNCHANGED <<setup, via>>
GiveUp(b)    == Goes(b, "retrying", "ending") /\ UNCHANGED <<setup, via>>

(* ProxyConns returns: either side closed.                                 *)
Hangup(b)    == Goes(b, "open", "ending") /\ UNCHANGED setup /\ via' = [via EXCEPT ![b] = None]

(* Fault: the timer is reset, but acquire has forgotten it.                *)
ReleaseReset(b) ==
  /\ connector = "listening" /\ stage[b] = "ending"
  /\ stage' = [stage EXCEPT ![b] = "done"]
  /\ active' = active - 1
  /\ timer' = IF active = 1 /\ peer = session[b] /\ idleTimer # None
              THEN [timer EXCEPT ![idleTimer] = "armed"] ELSE timer
  /\ UNCHANGED <<connector, setup, session, via, peer, idleTimer, closed>>
Release(b) ==
  /\ connector = "listening" /\ stage[b] = "ending"
  /\ stage' = [stage EXCEPT ![b] = "done"]
  /\ active' = active - 1
  /\ LET idle == active = 1 /\ peer = session[b] IN
       /\ idleTimer' = IF idle THEN b ELSE idleTimer
       /\ timer' = IF idle THEN [timer EXCEPT ![b] = "armed"] ELSE timer
  /\ UNCHANGED <<connector, setup, session, via, peer, closed>>

-----------------------------------------------------------------------------
(* The idle timer of bridge b: it fires, then its function runs.           *)
Fire(b) ==
  /\ connector = "listening" /\ timer[b] = "armed"
  /\ timer' = [timer EXCEPT ![b] = "fired"]
  /\ UNCHANGED <<connector, setup, bridgeVars, peer, active, idleTimer, closed>>

(* Fault: the function does not look again whether the session is in use.  *)
IdleClosesUnseen(b) ==
  /\ connector = "listening" /\ timer[b] = "fired"
  /\ timer' = [timer EXCEPT ![b] = "none"]
  /\ idleTimer' = None
  /\ LET idle == peer = session[b] IN
       /\ peer' = IF idle THEN None ELSE peer
       /\ closed' = IF idle THEN closed \cup {session[b]} ELSE closed
  /\ UNCHANGED <<connector, setup, bridgeVars, active>>
IdleCloses(b) ==
  /\ connector = "listening" /\ timer[b] = "fired"
  /\ timer' = [timer EXCEPT ![b] = "none"]
  /\ idleTimer' = None
  /\ LET idle == active = 0 /\ peer = session[b] IN
       /\ peer' = IF idle THEN None ELSE peer
       /\ closed' = IF idle THEN closed \cup {session[b]} ELSE closed
  /\ UNCHANGED <<connector, setup, bridgeVars, active>>

-----------------------------------------------------------------------------
Attempt(b) ==
  Ping(b) \/ PingFails(b) \/ Dial(b) \/ DialFails(b) \/ Retry(b) \/ GiveUp(b)
Next ==
  \/ Prepare \/ Quit
  \/ \E b \in Bridges :
       \/ Acquire(b) \/ LockSetup(b) \/ Attempt(b) \/ Hangup(b) \/ Release(b)
       \/ Fire(b) \/ IdleCloses(b)

(* Attempts are bounded by 8 s, a bootstrap by 35 s; a mutex is given to   *)
(* whoever waits for it long enough; timers fire.                          *)
Fairness == \A b \in Bridges :
  /\ WF_vars(Attempt(b)) /\ SF_vars(GiveUp(b)) /\ SF_vars(LockSetup(b))
  /\ WF_vars(Release(b)) /\ WF_vars(Fire(b)) /\ WF_vars(IdleCloses(b))

-----------------------------------------------------------------------------
(* Whatever timers are still on their way, the session of a bridge that is *)
(* set up or in use is not closed, and it is the one that the others of    *)
(* that moment use.                                                        *)
SessionsInUseOpen == connector = "listening" =>
  \A b \in Bridges : stage[b] \in Acquired => session[b] = peer /\ session[b] \notin closed

(* A session that was used and that nobody uses any more is closed, also   *)
(* when its timer is no longer the one that is remembered.                 *)
IdleSessionsClose ==
  (\E b \in Bridges : session[b] = peer) /\ active = 0 /\ peer # None ~> peer = None \/ active > 0

(* Every local connection is carried or closed, however many are set up at *)
(* once and although one ping is made at a time.                           *)
BridgesEnd == \A b \in Bridges :
  stage[b] = "waiting" ~> stage[b] \in {"open", "done"} \/ connector = "gone"
=============================================================================
