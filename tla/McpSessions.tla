----------------------------- MODULE McpSessions -----------------------------
(***************************************************************************)
(* The stateful MCP transport of one Node (apps/cli/src/mcp.ts): request   *)
(* leases, sessions and their slots, cancellation, the idle sweep, the     *)
(* closing of a credential and of the server.                              *)
(*                                                                         *)
(* Requests are fibers of one JavaScript thread and are never interrupted. *)
(* A step is the code between two suspension points: authentication, the   *)
(* body, the parsing of the message, the MCP library's handler (external)  *)
(* and the drain of leases.  A refusal that changes no state but the       *)
(* request's own ends it.                                                  *)
(***************************************************************************)
EXTENDS Integers, FiniteSets

CONSTANTS
  Requests,              (* fibers of routeEffect                           *)
  Credentials,           (* remote Peer credential ids                      *)
  Entries,               (* ids of session entries                          *)
  CallIds,               (* JSON-RPC ids of calls, which the client chooses *)
  MaxSessions,           (* 32 in production                                *)
  MaxCredentialSessions, (* 4 in production                                 *)
  MaxActive,             (* 64 in production                                *)
  MaxCredentialActive,   (* 16 in production                                *)
  MaxRotation,           (* bound: how often a credential is replaced       *)
  None

ASSUME McpAssumption ==
  /\ IsFiniteSet(Requests) /\ IsFiniteSet(Entries)
  /\ Entries \subseteq Nat
  /\ {MaxSessions, MaxCredentialSessions, MaxActive, MaxCredentialActive} \subseteq Nat \ {0}
  /\ MaxRotation \in Nat
  /\ None \notin Entries /\ None \notin CallIds /\ None \notin [cred : Credentials, version : 0 .. MaxRotation]

VARIABLES
  version,     (* the credential's version in the config                    *)
  pc,          (* where a request stands                                    *)
  who,         (* the identity it was authenticated as                      *)
  at,          (* the entry it was admitted to                              *)
  callId,      (* the JSON-RPC id of the call it carries                    *)
  calls,       (* requests whose controller is in their entry.requests,     *)
               (* each under its callId                                     *)
  aborted,     (* requests whose controller was aborted                     *)
  clashed,     (* calls whose id another call of their session had at the   *)
               (* same time; for the properties only                        *)
  owner,       (* the identity of an entry, None if it left state.entries   *)
  active,      (* its SessionState.active                                   *)
  named,       (* state.sessions: entries that have a session id            *)
  slots,       (* state.sessionSlots                                        *)
  slotsBy,     (* state.sessionSlotsByCredential                            *)
  leases,      (* state.active                                              *)
  leasesBy,    (* state.activeByCredential                                  *)
  server,      (* how far closeEffect has come, and the leases it drains    *)
  retire       (* the same for closeCredential, and the version it is for   *)

callVars    == <<callId, calls, aborted, clashed>>
requestVars == <<pc, who, at, callVars>>
sessionVars == <<owner, active, named, slots, slotsBy>>
leaseVars   == <<leases, leasesBy>>
closeVars   == <<server, retire>>
vars == <<version, requestVars, sessionVars, leaseVars, closeVars>>

-----------------------------------------------------------------------------
Identities == [cred : Credentials, version : 0 .. MaxRotation]

(* "parsing" reads the message, "calling" and "opening" are in the MCP     *)
(* handler, for a session there was and for a new one.                     *)
Working    == {"parsing", "beginning", "calling", "opening"}
RequestPcs == {"idle", "reading", "refreshing", "checked"} \cup Working

closing == server.stage # "open"

Init ==
  /\ version = [c \in Credentials |-> 0]
  /\ pc = [r \in Requests |-> "idle"]
  /\ who = [r \in Requests |-> None]
  /\ at = [r \in Requests |-> None]
  /\ callId = [r \in Requests |-> None]
  /\ calls = {} /\ aborted = {} /\ clashed = {}
  /\ owner = [e \in Entries |-> None]
  /\ active = [e \in Entries |-> 0]
  /\ named = {} /\ slots = 0
  /\ slotsBy = [c \in Credentials |-> 0]
  /\ leases = {} /\ leasesBy = [c \in Credentials |-> 0]
  /\ server = [stage |-> "open", waiting |-> {}]
  /\ retire = [c \in Credentials |-> [stage |-> "idle", waiting |-> {}, upto |-> 0]]

Live == {e \in Entries : owner[e] # None}

(* The smallest id of an entry nothing refers to.                          *)
NextEntry ==
  LET free == {e \in Entries \ Live : \A r \in Requests : at[r] # e}
  IN  {e \in free : \A f \in free : e <= f}

Goto(r, label) == pc[r] # label /\ pc' = [pc EXCEPT ![r] = label]

OwnedBy(c) == {e \in Live : owner[e].cred = c}

(* The calls registered in these entries, and those a request would find   *)
(* there under an id: entry.requests.get(i).                               *)
CallsOf(gone) == {r \in calls : at[r] \in gone}
Registered(r, i) == {q \in CallsOf({at[r]}) : callId[q] = i}

(* The other calls of its session in progress under an id, registered or   *)
(* not.                                                                    *)
SameId(r, i) == {q \in Requests \ {r} : at[q] = at[r] /\ callId[q] = i}

(* What releaseEntry, closeWhere and closeCredential take out of the maps. *)
Release(gone) ==
  /\ owner' = [e \in Entries |-> IF e \in gone THEN None ELSE owner[e]]
  /\ active' = [e \in Entries |-> IF e \in gone THEN 0 ELSE active[e]]
  /\ named' = named \ gone
  /\ slots' = slots - Cardinality(gone \cap Live)
  /\ slotsBy' = [c \in Credentials |-> slotsBy[c] - Cardinality(gone \cap OwnedBy(c))]

(* finishLease: settled for whoever drains it, and out of the maps.        *)
FinishLease(r) ==
  /\ leases' = leases \ {r}
  /\ leasesBy' = [leasesBy EXCEPT ![who[r].cred] = @ - 1]
  /\ server' = [server EXCEPT !.waiting = @ \ {r}]
  /\ retire' = [c \in Credentials |-> [retire[c] EXCEPT !.waiting = @ \ {r}]]

(* The request ends, after it aborted other calls or none.  Whatever call  *)
(* is registered under its id then is deleted, its own or not.             *)
FinishAborting(r, others) ==
  /\ FinishLease(r)
  /\ pc' = [pc EXCEPT ![r] = "idle"]
  /\ who' = [who EXCEPT ![r] = None]
  /\ at' = [at EXCEPT ![r] = None]
  /\ callId' = [callId EXCEPT ![r] = None]
  /\ calls' = calls \ Registered(r, callId[r])
  /\ aborted' = (aborted \cup others) \ {r}
  /\ clashed' = clashed \ {r}

Finish(r) == FinishAborting(r, {})

-----------------------------------------------------------------------------
(* A credential is replaced in the config.                                 *)
Rotate(c) ==
  /\ version[c] < MaxRotation
  /\ version' = [version EXCEPT ![c] = @ + 1]
  /\ UNCHANGED <<requestVars, sessionVars, leaseVars, closeVars>>

MayLease(c) ==
  ~closing /\ Cardinality(leases) < MaxActive /\ leasesBy[c] < MaxCredentialActive

(* routeEffect: the bearer is authenticated, then a lease is taken.  By    *)
(* then the identity may have been replaced, as often as may be.  A request*)
(* that is not authenticated, or gets no lease, leaves nothing behind.     *)
TakeLease(r, c) ==
  /\ pc[r] = "idle" /\ MayLease(c)
  /\ Goto(r, "reading")
  /\ \E v \in 0 .. version[c] : who' = [who EXCEPT ![r] = [cred |-> c, version |-> v]]
  /\ leases' = leases \cup {r}
  /\ leasesBy' = [leasesBy EXCEPT ![c] = @ + 1]
  /\ UNCHANGED <<version, at, callVars, sessionVars, closeVars>>

(* handleRouteEffect: the body is read, within its bounds.                 *)
BodyRead(r) ==
  /\ pc[r] = "reading" /\ ~closing
  /\ Goto(r, "refreshing")
  /\ UNCHANGED <<version, who, at, callVars, sessionVars, leaseVars, closeVars>>

BodyRefused(r) ==
  /\ pc[r] = "reading"
  /\ Finish(r)
  /\ UNCHANGED <<version, sessionVars>>

(* Fault: the credential is not looked up again.                           *)
RefreshTrusts(r) ==
  /\ pc[r] = "refreshing"
  /\ Goto(r, "checked")
  /\ UNCHANGED <<version, who, at, callVars, sessionVars, leaseVars, closeVars>>

(* The bearer is authenticated again, after the body.                      *)
Refresh(r) ==
  /\ pc[r] = "refreshing" /\ version[who[r].cred] = who[r].version
  /\ Goto(r, "checked")
  /\ UNCHANGED <<version, who, at, callVars, sessionVars, leaseVars, closeVars>>

RefreshRefused(r) ==
  /\ pc[r] = "refreshing" /\ version[who[r].cred] # who[r].version
  /\ Finish(r)
  /\ UNCHANGED <<version, sessionVars>>

(* A request that names a session of its own identity.                     *)
UseSession(r, e) ==
  /\ pc[r] = "checked" /\ e \in named /\ owner[e] = who[r]
  /\ Goto(r, "parsing")
  /\ at' = [at EXCEPT ![r] = e]
  /\ active' = [active EXCEPT ![e] = @ + 1]
  /\ UNCHANGED <<version, who, callVars, owner, named, slots, slotsBy,
                 leaseVars, closeVars>>

(* DELETE: closeEntry, whose wait for the MCP library is left out.         *)
DeleteSession(r, e) ==
  /\ pc[r] = "checked" /\ e \in named /\ owner[e] = who[r]
  /\ Release({e})
  /\ FinishAborting(r, CallsOf({e}))
  /\ UNCHANGED version

(* It names a session that is gone or another identity's.                  *)
NoSession(r) ==
  /\ pc[r] = "checked"
  /\ Finish(r)
  /\ UNCHANGED <<version, sessionVars>>

MayOpen(r) ==
  /\ ~closing
  /\ slots < MaxSessions /\ slotsBy[who[r].cred] < MaxCredentialSessions

(* A request without a session reserves a new one.                         *)
OpenSession(r) ==
  /\ pc[r] = "checked" /\ MayOpen(r)
  /\ Goto(r, "beginning")
  /\ \E e \in NextEntry :
       /\ at' = [at EXCEPT ![r] = e]
       /\ owner' = [owner EXCEPT ![e] = who[r]]
       /\ active' = [active EXCEPT ![e] = 1]
  /\ slots' = slots + 1
  /\ slotsBy' = [slotsBy EXCEPT ![who[r].cred] = @ + 1]
  /\ UNCHANGED <<version, who, callVars, named, leaseVars, closeVars>>

RefuseSession(r) ==
  /\ pc[r] = "checked" /\ ~MayOpen(r)
  /\ Finish(r)
  /\ UNCHANGED <<version, sessionVars>>

-----------------------------------------------------------------------------
(* handleSessionRequest: the message has been parsed.                      *)
HandlerPc(r) == IF pc[r] = "beginning" THEN "opening" ELSE "calling"

(* tools/call: its controller is registered, in place of the one that was  *)
(* registered in that session under the same id.                           *)
BeginCall(r, i) ==
  /\ pc[r] \in {"parsing", "beginning"}
  /\ Goto(r, HandlerPc(r))
  /\ callId' = [callId EXCEPT ![r] = i]
  /\ calls' = (calls \ Registered(r, i)) \cup {r}
  /\ clashed' = IF SameId(r, i) = {} THEN clashed ELSE clashed \cup {r} \cup SameId(r, i)
  /\ UNCHANGED <<version, who, at, aborted, sessionVars, leaseVars, closeVars>>

(* Any other message.  A cancellation that names no registered call is one *)
(* of them: the call it means may still be on its way here.                *)
BeginOther(r) ==
  /\ pc[r] \in {"parsing", "beginning"}
  /\ Goto(r, HandlerPc(r))
  /\ UNCHANGED <<version, who, at, callVars, sessionVars, leaseVars, closeVars>>

(* notifications/cancelled aborts the call its session has registered      *)
(* under the id it names.                                                  *)
Cancel(r, q) ==
  /\ pc[r] = "parsing" /\ q \in calls /\ at[q] = at[r]
  /\ Goto(r, "calling")
  /\ aborted' = aborted \cup {q}
  /\ UNCHANGED <<version, who, at, callId, calls, clashed, sessionVars, leaseVars, closeVars>>

Leave(r) == active' = [active EXCEPT ![at[r]] = IF at[r] \in Live THEN @ - 1 ELSE @]

(* The MCP handler returns or fails.                                       *)
HandlerReturns(r) ==
  /\ pc[r] = "calling"
  /\ Leave(r)
  /\ Finish(r)
  /\ UNCHANGED <<version, owner, named, slots, slotsBy>>

(* The response names the new session.                                     *)
Opened(r) ==
  /\ pc[r] = "opening"
  /\ named' = named \cup ({at[r]} \cap Live)
  /\ Leave(r)
  /\ Finish(r)
  /\ UNCHANGED <<version, owner, slots, slotsBy>>

(* Fault: a session that did not open keeps its entry.                     *)
OpenFailsKept(r) ==
  /\ pc[r] = "opening"
  /\ Leave(r)
  /\ Finish(r)
  /\ UNCHANGED <<version, owner, named, slots, slotsBy>>

(* It names none, or the handler failed: closeEntry.                       *)
OpenFails(r) ==
  /\ pc[r] = "opening"
  /\ Release({at[r]})
  /\ FinishAborting(r, CallsOf({at[r]} \cap Live))
  /\ UNCHANGED version

-----------------------------------------------------------------------------
(* Fault: the sweep closes sessions in use.                                *)
SweepUsed(e) ==
  /\ server.stage \in {"open", "closing"}
  /\ e \in Live
  /\ Release({e})
  /\ UNCHANGED <<version, requestVars, leaseVars, closeVars>>

(* The idle sweep, of an entry idle for long enough; lastUsed is left out. *)
SweepIdle(e) ==
  /\ server.stage \in {"open", "closing"}
  /\ e \in Live /\ active[e] = 0
  /\ Release({e})
  /\ UNCHANGED <<version, requestVars, leaseVars, closeVars>>

(* Fault: the per-credential slots are kept.                               *)
CloseCredentialKeepsSlots(c) ==
  /\ retire[c].stage = "idle" /\ retire[c].upto < version[c]
  /\ owner' = [e \in Entries |-> IF e \in OwnedBy(c) THEN None ELSE owner[e]]
  /\ active' = [e \in Entries |-> IF e \in OwnedBy(c) THEN 0 ELSE active[e]]
  /\ named' = named \ OwnedBy(c)
  /\ slots' = slots - Cardinality(OwnedBy(c))
  /\ aborted' = aborted \cup CallsOf(OwnedBy(c))
  /\ retire' = [retire EXCEPT ![c] = [stage |-> "draining", upto |-> version[c],
                                      waiting |-> {r \in leases : who[r].cred = c}]]
  /\ UNCHANGED <<version, slotsBy, pc, who, at, callId, calls, clashed, leaseVars, server>>

(* closeCredential, called for a peer whose credential was replaced: its   *)
(* entries leave the maps, their calls are aborted, its leases drained.    *)
CloseCredential(c) ==
  /\ retire[c].stage = "idle" /\ retire[c].upto < version[c]
  /\ Release(OwnedBy(c))
  /\ aborted' = aborted \cup CallsOf(OwnedBy(c))
  /\ retire' = [retire EXCEPT ![c] = [stage |-> "draining", upto |-> version[c],
                                      waiting |-> {r \in leases : who[r].cred = c}]]
  /\ UNCHANGED <<version, pc, who, at, callId, calls, clashed, leaseVars, server>>

CredentialClosed(c) ==
  /\ retire[c].stage = "draining" /\ retire[c].waiting = {}
  /\ retire' = [retire EXCEPT ![c].stage = "idle"]
  /\ UNCHANGED <<version, requestVars, sessionVars, leaseVars, server>>

(* shutdownTimeoutMs passes first: fatal.                                  *)
CredentialTimesOut(c) ==
  /\ retire[c].stage = "draining" /\ retire[c].waiting # {}
  /\ retire' = [retire EXCEPT ![c].stage = "failed"]
  /\ UNCHANGED <<version, requestVars, sessionVars, leaseVars, server>>

(* closeEffect: no new leases and sessions, the sweep is stopped, every    *)
(* session closed, and the leases there were drained.                      *)
BeginClose ==
  /\ server.stage = "open"
  /\ server' = [stage |-> "closing", waiting |-> leases]
  /\ UNCHANGED <<version, requestVars, sessionVars, leaseVars, retire>>

CloseSessions ==
  /\ server.stage = "closing"
  /\ Release(Live)
  /\ server' = [server EXCEPT !.stage = "draining"]
  /\ UNCHANGED <<version, requestVars, leaseVars, retire>>

ServerClosed ==
  /\ server.stage = "draining" /\ server.waiting = {}
  /\ server' = [server EXCEPT !.stage = "closed"]
  /\ UNCHANGED <<version, requestVars, sessionVars, leaseVars, retire>>

ServerTimesOut ==
  /\ server.stage = "draining" /\ server.waiting # {}
  /\ server' = [server EXCEPT !.stage = "failed"]
  /\ UNCHANGED <<version, requestVars, sessionVars, leaseVars, retire>>

-----------------------------------------------------------------------------
RequestStep(r) ==
  \/ \E c \in Credentials : TakeLease(r, c)
  \/ BodyRead(r) \/ BodyRefused(r)
  \/ Refresh(r) \/ RefreshRefused(r)
  \/ \E e \in Entries : UseSession(r, e) \/ DeleteSession(r, e)
  \/ NoSession(r) \/ OpenSession(r) \/ RefuseSession(r)
  \/ \E i \in CallIds : BeginCall(r, i)
  \/ BeginOther(r)
  \/ \E q \in Requests : Cancel(r, q)
  \/ HandlerReturns(r) \/ Opened(r) \/ OpenFails(r)

CredentialStep(c) ==
  Rotate(c) \/ CloseCredential(c) \/ CredentialClosed(c) \/ CredentialTimesOut(c)

ServerStep ==
  \/ \E e \in Entries : SweepIdle(e)
  \/ BeginClose \/ CloseSessions \/ ServerClosed \/ ServerTimesOut

Next ==
  \/ \E r \in Requests : RequestStep(r)
  \/ \E c \in Credentials : CredentialStep(c)
  \/ ServerStep

Spec == Init /\ [][Next]_vars

-----------------------------------------------------------------------------
Drain == [stage : {"idle", "draining", "failed"}, waiting : SUBSET Requests,
          upto : 0 .. MaxRotation]

TypeOK ==
  /\ version \in [Credentials -> 0 .. MaxRotation]
  /\ pc \in [Requests -> RequestPcs]
  /\ who \in [Requests -> Identities \cup {None}]
  /\ at \in [Requests -> Entries \cup {None}]
  /\ callId \in [Requests -> CallIds \cup {None}]
  /\ calls \subseteq Requests /\ aborted \subseteq Requests /\ clashed \subseteq Requests
  /\ owner \in [Entries -> Identities \cup {None}]
  /\ active \in [Entries -> Nat]
  /\ named \subseteq Entries
  /\ slots \in Nat /\ slotsBy \in [Credentials -> Nat]
  /\ leases \subseteq Requests /\ leasesBy \in [Credentials -> Nat]
  /\ server \in [stage : {"open", "closing", "draining", "closed", "failed"},
                 waiting : SUBSET Requests]
  /\ retire \in [Credentials -> Drain]

SlotsAccounted ==
  /\ slots = Cardinality(Live) /\ slots <= MaxSessions
  /\ Cardinality(leases) <= MaxActive
  /\ \A c \in Credentials :
       /\ slotsBy[c] = Cardinality(OwnedBy(c)) /\ slotsBy[c] <= MaxCredentialSessions
       /\ leasesBy[c] = Cardinality({r \in leases : who[r].cred = c})
       /\ leasesBy[c] <= MaxCredentialActive

ActiveAccounted ==
  \A e \in Live : active[e] = Cardinality({r \in Requests : at[r] = e})

(* The counters count what there is, and stay within the limits: slots and *)
(* leases in all and for each credential, though five different paths take *)
(* a session out; and the requests of a session, which the idle sweep      *)
(* trusts.                                                                 *)
CountersAccounted == SlotsAccounted /\ ActiveAccounted

(* No session leaks: one that is in the maps has an id a client can use    *)
(* and delete, or the request that opens it is still at work; an id never  *)
(* names a session that was closed while it was opened; and closeEffect    *)
(* returns with no request and no session left.                            *)
NoSessionLeaks ==
  /\ named \subseteq Live
  /\ \A e \in Live \ named : \E r \in Requests : at[r] = e /\ pc[r] \in {"beginning", "opening"}
  /\ server.stage = "closed" => leases = {} /\ Live = {} /\ slots = 0

(* Once closeCredential has returned, no request authenticated by the      *)
(* credential it was called for is past its second authentication, also    *)
(* one that took its lease after the leases to drain were collected.       *)
OldCredentialQuiet ==
  \A c \in Credentials, r \in Requests :
    retire[c].stage = "idle" /\ pc[r] \in Working \cup {"checked"} /\ who[r].cred = c =>
      who[r].version >= retire[c].upto

(* A call in progress loses its session un-aborted only if another call of *)
(* the session used its id at the same time: it took the place of its      *)
(* controller, or deleted it when it ended, also if it ended long before.  *)
(* A server that closes aborts nobody.                                     *)
RemovedCallAborted ==
  [][\A r \in Requests \ clashed :
       /\ callId[r] # None /\ callId'[r] # None
       /\ at[r] \in Live /\ owner'[at[r]] = None
       => r \in aborted' \/ closing]_vars

=============================================================================
