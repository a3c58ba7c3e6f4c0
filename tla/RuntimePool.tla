----------------------------- MODULE RuntimePool -----------------------------
(***************************************************************************)
(* The pool of Runtime backend processes of one Node                       *)
(* (apps/cli/src/runtime/runtime-pool.ts).                                 *)
(*                                                                         *)
(* Asks are fibers of one JavaScript thread.  A step of this module is the *)
(* code a fiber runs from one suspension point to the next: the bodies of  *)
(* gate.withPermit never suspend, so each is part of one step.  The points *)
(* where a fiber does suspend, and where another one may run, are the join *)
(* of a creation, the wait for turnGate, the prompt, the abort sequence,   *)
(* createSession and dispose.                                              *)
(*                                                                         *)
(* A runtime id stands for one RuntimeCreation and the RuntimeEntry it     *)
(* becomes.  An id is used again once its backend is gone and no fiber     *)
(* refers to it, which is when JavaScript would collect the object.        *)
(***************************************************************************)
EXTENDS Integers, FiniteSets

CONSTANTS
  Asks,           (* the callers of answer                                  *)
  Sessions,       (* Runtime Session ids                                    *)
  Scopes,         (* the sets of sessions one peer or one workspace owns    *)
  Runtimes,       (* ids of creations and entries                           *)
  MaxRuntimes,    (* options.maxRuntimes, 4 in production                   *)
  QueueCapacity,  (* options.queueCapacity, 20 in production                *)
  MayFail,        (* whether aborts and retired creations can time out      *)
  None            (* "no runtime"                                           *)

ASSUME PoolAssumption ==
  /\ IsFiniteSet(Asks)
  /\ Scopes \subseteq SUBSET Sessions
  /\ Runtimes \subseteq Nat /\ IsFiniteSet(Runtimes)
  /\ None \notin Runtimes \cup Sessions
  /\ MaxRuntimes \in Nat \ {0}
  /\ QueueCapacity \in Nat \ {0}
  /\ MayFail \in BOOLEAN

VARIABLES
  pc,         (* where an ask's fiber stands                                *)
  want,       (* the session an ask asks                                    *)
  at,         (* the creation or entry an ask refers to                     *)
  prompts,    (* how often the question in hand was given to a backend      *)
  phase,      (* how far a creation, then its entry, has come               *)
  home,       (* its session                                                *)
  proc,       (* its backend process                                        *)
  busy,       (* entry.busy                                                 *)
  waiting,    (* entry.waiting                                              *)
  retired,    (* creation.retired                                           *)
  victim,     (* the idle entry a creation has to dispose of first          *)
  entries,    (* Map: session -> entry                                      *)
  creations,  (* Map: session -> creation                                   *)
  occupied,   (* slots taken                                                *)
  disposed,   (* disposeEffect has begun                                    *)
  sweeper,    (* the entry the idle sweep is waiting for                    *)
  disposal,   (* the running disposePeer, disposeWorkspace or dispose       *)
  fatal       (* options.fatal was called                                   *)

askVars     == <<pc, want, at, prompts>>
runtimeVars == <<phase, home, proc, busy, waiting, retired, victim>>
mapVars     == <<entries, creations, occupied>>
ownerVars   == <<disposed, sweeper, disposal, fatal>>
vars        == <<askVars, runtimeVars, mapVars, ownerVars>>

-----------------------------------------------------------------------------
(* Ask fibers.  "burying" waits for the disposal of an entry found dead,   *)
(* and "abandoned" is the same wait after an interrupt; "evicting" is it   *)
(* inside a turn that failed.                                              *)
TurnPcs == {"prompt", "aborting", "evicting"}
GatePcs == TurnPcs \cup {"burying", "abandoned"}
AskPcs  == {"idle", "entry", "joining", "queued"} \cup GatePcs

(* A creation is "forked", "started" and, when refused, "late".  An entry  *)
(* is "ready", then leaves by "evicted" or by "aborting" and "disposing".  *)
(* Both end "gone".                                                        *)
CreationPhases == {"forked", "started", "late"}
RetiringPhases == {"aborting", "disposing"}
SlotPhases     == CreationPhases \cup {"ready"} \cup RetiringPhases
Phases         == SlotPhases \cup {"evicted"} \cup {"gone"}

Stages == {"idle", "creations", "retire", "drain", "closed", "failed"}
NoDisposal == [stage |-> "idle", scope |-> {}, all |-> FALSE, fibers |-> {}]

Init ==
  /\ pc = [a \in Asks |-> "idle"]
  /\ want = [a \in Asks |-> None]
  /\ at = [a \in Asks |-> None]
  /\ prompts = [a \in Asks |-> 0]
  /\ phase = [r \in Runtimes |-> "gone"]
  /\ home = [r \in Runtimes |-> None]
  /\ proc = [r \in Runtimes |-> "none"]
  /\ busy = [r \in Runtimes |-> FALSE]
  /\ waiting = [r \in Runtimes |-> 0]
  /\ retired = [r \in Runtimes |-> FALSE]
  /\ victim = [r \in Runtimes |-> None]
  /\ entries = [s \in Sessions |-> None]
  /\ creations = [s \in Sessions |-> None]
  /\ occupied = 0
  /\ disposed = FALSE
  /\ sweeper = None
  /\ disposal = NoDisposal
  /\ fatal = FALSE

(* An id no fiber refers to.  The smallest is taken, to keep ids canonical. *)
Free == {r \in Runtimes : /\ phase[r] = "gone"
                          /\ \A a \in Asks : at[a] # r
                          /\ sweeper # r
                          /\ r \notin disposal.fibers}
NextId == {r \in Free : \A q \in Free : r <= q}

(* Fault: the queue of an entry is not looked at.                          *)
IdleIfNotBusy(r) == ~busy[r]

(* The test shared by the LRU choice and the idle sweep.                   *)
IsIdle(r) == ~busy[r] /\ waiting[r] = 0

(* lastUsed orders the idle entries; which of them is oldest is left open. *)
IdleEntries == {r \in Runtimes : \E s \in Sessions : entries[s] = r /\ IsIdle(r)}

TurnGateFree(r) == \A a \in Asks : ~(at[a] = r /\ pc[a] \in GatePcs)

(* The ask's fiber ends, with an answer or with an error.                  *)
Settle(a) ==
  /\ pc' = [pc EXCEPT ![a] = "idle"]
  /\ want' = [want EXCEPT ![a] = None]
  /\ at' = [at EXCEPT ![a] = None]
  /\ prompts' = [prompts EXCEPT ![a] = 0]

Goto(a, label, r) ==
  /\ pc' = [pc EXCEPT ![a] = label]
  /\ at' = [at EXCEPT ![a] = r]
  /\ UNCHANGED <<want, prompts>>

(* retireRemovedEntry: an entry already taken out of the map is handed to  *)
(* a fiber of the pool's scope, which aborts it or disposes of it at once. *)
Retire(r, abort) ==
  phase' = [phase EXCEPT ![r] = IF abort THEN "aborting" ELSE "disposing"]

Remove(r) == entries' = [entries EXCEPT ![home[r]] = None]

-----------------------------------------------------------------------------
(* answer: the ask begins its loop.                                        *)
Answer(a, s) ==
  /\ pc[a] = "idle"
  /\ pc' = [pc EXCEPT ![a] = "entry"]
  /\ want' = [want EXCEPT ![a] = s]
  /\ UNCHANGED <<at, prompts, runtimeVars, mapVars, ownerVars>>

(* getEntry, one disjunct of its gate section each.                        *)
RefuseDisposed(a) ==
  /\ pc[a] = "entry" /\ disposed
  /\ Settle(a)
  /\ UNCHANGED <<runtimeVars, mapVars, ownerVars>>

(* The loop reserves a place in the queue of an entry that is still mapped *)
(* for its session; a full queue is BUSY.                                  *)
Reserve(a, r) ==
  IF waiting[r] >= QueueCapacity
  THEN Settle(a) /\ UNCHANGED waiting
  ELSE Goto(a, "queued", r) /\ waiting' = [waiting EXCEPT ![r] = @ + 1]

UseEntry(a) ==
  /\ pc[a] = "entry" /\ ~disposed
  /\ entries[want[a]] # None
  /\ Reserve(a, entries[want[a]])
  /\ UNCHANGED <<phase, home, proc, busy, retired, victim, mapVars, ownerVars>>

JoinCreation(a) ==
  /\ pc[a] = "entry" /\ ~disposed
  /\ entries[want[a]] = None /\ creations[want[a]] # None
  /\ Goto(a, "joining", creations[want[a]])
  /\ UNCHANGED <<runtimeVars, mapVars, ownerVars>>

NeedsCreation(a) ==
  /\ pc[a] = "entry" /\ ~disposed
  /\ entries[want[a]] = None /\ creations[want[a]] = None

(* The creation c is forked and joined.                                    *)
Fork(a, c, old) ==
  /\ creations' = [creations EXCEPT ![want[a]] = c]
  /\ home' = [home EXCEPT ![c] = want[a]]
  /\ retired' = [retired EXCEPT ![c] = FALSE]
  /\ victim' = [victim EXCEPT ![c] = old]
  /\ proc' = [proc EXCEPT ![c] = "none"]
  /\ Goto(a, "joining", c)
  /\ UNCHANGED <<busy, waiting, ownerVars>>

ForkCreation(a) ==
  /\ NeedsCreation(a) /\ occupied < MaxRuntimes
  /\ occupied' = occupied + 1
  /\ \E c \in NextId : /\ Fork(a, c, None)
                       /\ phase' = [phase EXCEPT ![c] = "forked"]
  /\ UNCHANGED entries

(* Fault: an eviction takes a slot of its own.                             *)
ForkEvictingTakesSlot(a) ==
  /\ NeedsCreation(a) /\ occupied >= MaxRuntimes
  /\ \E c \in NextId, old \in IdleEntries :
       /\ Fork(a, c, old)
       /\ phase' = [phase EXCEPT ![c] = "forked", ![old] = "evicted"]
       /\ Remove(old)
  /\ occupied' = occupied + 1

(* All slots taken: the creation inherits the slot of an idle entry.       *)
ForkEvicting(a) ==
  /\ NeedsCreation(a) /\ occupied >= MaxRuntimes
  /\ \E c \in NextId, old \in IdleEntries :
       /\ Fork(a, c, old)
       /\ phase' = [phase EXCEPT ![c] = "forked", ![old] = "evicted"]
       /\ Remove(old)
  /\ UNCHANGED occupied

RefuseBusy(a) ==
  /\ NeedsCreation(a) /\ occupied >= MaxRuntimes /\ IdleEntries = {}
  /\ Settle(a)
  /\ UNCHANGED <<runtimeVars, mapVars, ownerVars>>

(* The join ends.  The entry may have left the map before the joiner ran.  *)
JoinSucceeds(a) ==
  /\ pc[a] = "joining" /\ phase[at[a]] \notin CreationPhases
  /\ IF entries[want[a]] = at[a]
     THEN Reserve(a, at[a])
     ELSE Goto(a, "entry", None) /\ UNCHANGED waiting
  /\ UNCHANGED <<phase, home, proc, busy, retired, victim, mapVars, ownerVars>>

-----------------------------------------------------------------------------
(* createEntry, run by the creation's own fiber.                           *)
DisposeVictim(c) ==
  /\ phase[c] = "forked" /\ victim[c] # None
  /\ proc' = [proc EXCEPT ![victim[c]] = "none"]
  /\ phase' = [phase EXCEPT ![victim[c]] = "gone"]
  /\ home' = [home EXCEPT ![victim[c]] = None]
  /\ victim' = [victim EXCEPT ![c] = None]
  /\ UNCHANGED <<askVars, busy, waiting, retired, mapVars, ownerVars>>

(* Fault: the backend starts before the evicted one is disposed of.        *)
CreateSessionEarly(c) ==
  /\ phase[c] = "forked"
  /\ phase' = [phase EXCEPT ![c] = "started"]
  /\ proc' = [proc EXCEPT ![c] = "up"]
  /\ UNCHANGED <<askVars, home, busy, waiting, retired, victim, mapVars, ownerVars>>

CreateSession(c) ==
  /\ phase[c] = "forked" /\ victim[c] = None
  /\ phase' = [phase EXCEPT ![c] = "started"]
  /\ proc' = [proc EXCEPT ![c] = "up"]
  /\ UNCHANGED <<askVars, home, busy, waiting, retired, victim, mapVars, ownerVars>>

(* The Effect.ensuring of createEntry, for a creation not committed; its   *)
(* failure ends every ask that joined it.                                  *)
Joiners(c) == {a \in Asks : pc[a] = "joining" /\ at[a] = c}

Abandon(c) ==
  /\ phase' = [phase EXCEPT ![c] = "gone"]
  /\ home' = [home EXCEPT ![c] = None]
  /\ retired' = [retired EXCEPT ![c] = FALSE]
  /\ creations' = IF creations[home[c]] = c
                  THEN [creations EXCEPT ![home[c]] = None] ELSE creations
  /\ occupied' = occupied - 1
  /\ pc' = [a \in Asks |-> IF a \in Joiners(c) THEN "idle" ELSE pc[a]]
  /\ want' = [a \in Asks |-> IF a \in Joiners(c) THEN None ELSE want[a]]
  /\ at' = [a \in Asks |-> IF a \in Joiners(c) THEN None ELSE at[a]]
  /\ UNCHANGED prompts

CreateSessionFails(c) ==
  /\ phase[c] = "forked" /\ victim[c] = None
  /\ Abandon(c)
  /\ UNCHANGED <<proc, busy, waiting, victim, entries, ownerVars>>

Accepted(c) == creations[home[c]] = c /\ ~retired[c] /\ ~disposed

Commit(c) ==
  /\ phase[c] = "started" /\ Accepted(c)
  /\ phase' = [phase EXCEPT ![c] = "ready"]
  /\ creations' = [creations EXCEPT ![home[c]] = None]
  /\ entries' = [entries EXCEPT ![home[c]] = c]
  /\ busy' = [busy EXCEPT ![c] = FALSE]
  /\ waiting' = [waiting EXCEPT ![c] = 0]
  /\ UNCHANGED <<askVars, home, proc, retired, victim, occupied, ownerVars>>

RefuseLate(c) ==
  /\ phase[c] = "started" /\ ~Accepted(c)
  /\ phase' = [phase EXCEPT ![c] = "late"]
  /\ UNCHANGED <<askVars, home, proc, busy, waiting, retired, victim, mapVars, ownerVars>>

DisposeLate(c) ==
  /\ phase[c] = "late"
  /\ proc' = [proc EXCEPT ![c] = "none"]
  /\ Abandon(c)
  /\ UNCHANGED <<busy, waiting, victim, entries, ownerVars>>

-----------------------------------------------------------------------------
(* The turn: turnGate is taken by one queued ask, which looks again at the *)
(* map and at the process before it becomes the running one.               *)
Dequeue(a) ==
  /\ pc[a] = "queued" /\ TurnGateFree(at[a])
  /\ waiting' = [waiting EXCEPT ![at[a]] = @ - 1]

RetryRemoved(a) ==
  /\ Dequeue(a) /\ entries[want[a]] # at[a]
  /\ Goto(a, "entry", None)
  /\ UNCHANGED <<phase, home, proc, busy, retired, victim, mapVars, ownerVars>>

BuryDead(a) ==
  /\ Dequeue(a) /\ entries[want[a]] = at[a] /\ proc[at[a]] # "up"
  /\ Remove(at[a])
  /\ Retire(at[a], FALSE)
  /\ Goto(a, "burying", at[a])
  /\ UNCHANGED <<home, proc, busy, retired, victim, creations, occupied, ownerVars>>

StartTurn(a) ==
  /\ Dequeue(a) /\ entries[want[a]] = at[a] /\ proc[at[a]] = "up"
  /\ busy' = [busy EXCEPT ![at[a]] = TRUE]
  /\ pc' = [pc EXCEPT ![a] = "prompt"]
  /\ prompts' = [prompts EXCEPT ![a] = @ + 1]
  /\ UNCHANGED <<want, at, phase, home, proc, retired, victim, mapVars, ownerVars>>

(* Fault: an ask interrupted while it buries an entry is never resumed.    *)
BuriedUnlessAbandoned(a) ==
  /\ pc[a] = "burying" /\ phase[at[a]] = "gone"
  /\ Goto(a, "entry", None)
  /\ UNCHANGED <<runtimeVars, mapVars, ownerVars>>

Buried(a) ==
  /\ pc[a] \in {"burying", "abandoned"} /\ phase[at[a]] = "gone"
  /\ IF pc[a] = "burying" THEN Goto(a, "entry", None) ELSE Settle(a)
  /\ UNCHANGED <<runtimeVars, mapVars, ownerVars>>

(* The Effect.ensuring of a turn, whatever its exit.                       *)
EndTurn(a) ==
  /\ busy' = [busy EXCEPT ![at[a]] = FALSE]
  /\ Settle(a)

(* The backend answers, or refuses while its process stays up.             *)
TurnEnds(a) ==
  /\ pc[a] = "prompt" /\ proc[at[a]] = "up"
  /\ EndTurn(a)
  /\ UNCHANGED <<phase, home, proc, waiting, retired, victim, mapVars, ownerVars>>

(* Fault: an ask that lost its backend is asked again.                     *)
TurnLosesRetries(a) ==
  /\ pc[a] = "prompt" /\ proc[at[a]] # "up"
  /\ entries[want[a]] # at[a]
  /\ busy' = [busy EXCEPT ![at[a]] = FALSE]
  /\ Goto(a, "entry", None)
  /\ UNCHANGED <<phase, home, proc, waiting, retired, victim, mapVars, ownerVars>>

(* The prompt fails because the process is gone: the entry is evicted if   *)
(* it is still mapped, and the ask fails; it is not asked again.           *)
TurnLoses(a) ==
  /\ pc[a] = "prompt" /\ proc[at[a]] # "up"
  /\ entries[want[a]] # at[a]
  /\ EndTurn(a)
  /\ UNCHANGED <<phase, home, proc, waiting, retired, victim, mapVars, ownerVars>>

EvictDead(a) ==
  /\ pc[a] = "prompt" /\ proc[at[a]] # "up"
  /\ entries[want[a]] = at[a]
  /\ Remove(at[a])
  /\ Retire(at[a], FALSE)
  /\ Goto(a, "evicting", at[a])
  /\ UNCHANGED <<home, proc, busy, waiting, retired, victim, creations, occupied, ownerVars>>

Evicted(a) ==
  /\ pc[a] = "evicting" /\ phase[at[a]] = "gone"
  /\ EndTurn(a)
  /\ UNCHANGED <<phase, home, proc, waiting, retired, victim, mapVars, ownerVars>>

(* Fault: an interrupted ask keeps its place in the queue.                 *)
InterruptKeepsPlace(a) ==
  /\ \/ /\ pc[a] \in {"entry", "joining", "queued"}
        /\ Settle(a)
     \/ /\ pc[a] = "prompt"
        /\ Goto(a, "aborting", at[a])
     \/ /\ pc[a] = "burying"
        /\ Goto(a, "abandoned", at[a])
  /\ UNCHANGED <<phase, home, proc, busy, waiting, retired, victim, mapVars, ownerVars>>

(* The caller aborts, or the ask timeout fires: the fiber is interrupted   *)
(* where it stands.                                                        *)
Interrupt(a) ==
  /\ \/ /\ pc[a] \in {"entry", "joining"}
        /\ Settle(a) /\ UNCHANGED waiting
     \/ /\ pc[a] = "queued"
        /\ Settle(a) /\ waiting' = [waiting EXCEPT ![at[a]] = @ - 1]
     \/ /\ pc[a] = "prompt"
        /\ Goto(a, "aborting", at[a]) /\ UNCHANGED waiting
     \/ /\ pc[a] = "burying"
        /\ Goto(a, "abandoned", at[a]) /\ UNCHANGED waiting
  /\ UNCHANGED <<phase, home, proc, busy, retired, victim, mapVars, ownerVars>>

(* abortSession of a turn: it settles, or it fails or times out and the    *)
(* Node is told to stop.                                                   *)
AbortSettles(a) ==
  /\ pc[a] = "aborting"
  /\ EndTurn(a)
  /\ UNCHANGED <<phase, home, proc, waiting, retired, victim, mapVars, ownerVars>>

AbortFails(a) ==
  /\ MayFail
  /\ pc[a] = "aborting"
  /\ EndTurn(a)
  /\ fatal' = TRUE
  /\ UNCHANGED <<phase, home, proc, waiting, retired, victim, mapVars,
                 disposed, sweeper, disposal>>

-----------------------------------------------------------------------------
(* The retirement fiber of a removed entry.                                *)
RetirementAborts(r) ==
  /\ phase[r] = "aborting"
  /\ phase' = [phase EXCEPT ![r] = "disposing"]
  /\ UNCHANGED <<askVars, home, proc, busy, waiting, retired, victim, mapVars, ownerVars>>

RetirementEnds(r) ==
  /\ phase' = [phase EXCEPT ![r] = "gone"]
  /\ home' = [home EXCEPT ![r] = None]
  /\ occupied' = occupied - 1

RetirementDisposes(r) ==
  /\ phase[r] = "disposing"
  /\ proc' = [proc EXCEPT ![r] = "none"]
  /\ RetirementEnds(r)
  /\ UNCHANGED <<askVars, busy, waiting, retired, victim, entries, creations, ownerVars>>

(* Fault: a failed abort is not reported.                                  *)
RetirementFailsUnseen(r) ==
  /\ MayFail
  /\ phase[r] = "aborting"
  /\ proc' = [proc EXCEPT ![r] = "lost"]
  /\ RetirementEnds(r)
  /\ UNCHANGED <<askVars, busy, waiting, retired, victim, entries, creations, ownerVars>>

(* A failed abort skips the disposal; the slot is given back all the same  *)
(* and the backend is left to the end of the Node's process.               *)
RetirementFails(r) ==
  /\ MayFail
  /\ phase[r] = "aborting"
  /\ proc' = [proc EXCEPT ![r] = "lost"]
  /\ RetirementEnds(r)
  /\ fatal' = TRUE
  /\ UNCHANGED <<askVars, busy, waiting, retired, victim, entries, creations,
                 disposed, sweeper, disposal>>

(* The backend process exits by itself.                                    *)
ProcessExits(r) ==
  /\ proc[r] = "up"
  /\ proc' = [proc EXCEPT ![r] = "dead"]
  /\ UNCHANGED <<askVars, phase, home, busy, waiting, retired, victim, mapVars, ownerVars>>

(* sweepIdle: one entry idle for long enough at a time.  The joiners of a  *)
(* creation run long before its entry is old enough.                       *)
SweepIdle(r) ==
  /\ ~disposed /\ sweeper = None /\ r \in IdleEntries /\ Joiners(r) = {}
  /\ Remove(r)
  /\ Retire(r, FALSE)
  /\ sweeper' = r
  /\ UNCHANGED <<askVars, home, proc, busy, waiting, retired, victim, creations, occupied,
                 disposed, disposal, fatal>>

(* Fault: the sweep is cut off in the middle of a retirement.              *)
SweepNextUnlessDisposed ==
  /\ sweeper # None /\ phase[sweeper] = "gone" /\ ~disposed
  /\ sweeper' = None
  /\ UNCHANGED <<askVars, runtimeVars, mapVars, disposed, disposal, fatal>>

SweepNext ==
  /\ sweeper # None /\ phase[sweeper] = "gone"
  /\ sweeper' = None
  /\ UNCHANGED <<askVars, runtimeVars, mapVars, disposed, disposal, fatal>>

-----------------------------------------------------------------------------
(* disposePeer, disposeWorkspace and dispose.  The coordinator runs one at *)
(* a time: its reconciliations hold a semaphore, and the Node interrupts   *)
(* the reload fiber before it closes the coordinator.                      *)
Matching(scope) == {c \in Runtimes : \E s \in scope : creations[s] = c}

BeginDisposal(scope, all) ==
  /\ disposal.stage = "idle"
  /\ retired' = [c \in Runtimes |-> retired[c] \/ c \in Matching(scope)]
  /\ disposal' = [stage |-> "creations", scope |-> scope, all |-> all,
                  fibers |-> Matching(scope)]
  /\ UNCHANGED <<askVars, phase, home, proc, busy, waiting, victim, mapVars, sweeper, fatal>>

DisposeScope(scope) == ~disposed /\ BeginDisposal(scope, FALSE) /\ UNCHANGED disposed

DisposePool == ~disposed /\ BeginDisposal(Sessions, TRUE) /\ disposed' = TRUE

(* Fault: creations in progress are not waited for.                        *)
CreationsIgnored == disposal.all => sweeper = None

CreationsSettled ==
  /\ \A c \in disposal.fibers : phase[c] \notin CreationPhases
  /\ disposal.all => sweeper = None

(* The retired creations have ended: every entry of the scope leaves the   *)
(* map, aborted first if it is in use.                                     *)
RetireEntries ==
  /\ disposal.stage = "creations" /\ CreationsSettled
  /\ LET own == {r \in Runtimes : \E s \in disposal.scope : entries[s] = r}
     IN  /\ entries' = [s \in Sessions |-> IF s \in disposal.scope THEN None ELSE entries[s]]
         /\ phase' = [r \in Runtimes |->
                        IF r \notin own THEN phase[r]
                        ELSE IF IsIdle(r) THEN "disposing" ELSE "aborting"]
         /\ disposal' = [disposal EXCEPT !.stage = "retire", !.scope = {}, !.fibers = own]
  /\ UNCHANGED <<askVars, home, proc, busy, waiting, retired, victim, creations, occupied,
                 disposed, sweeper, fatal>>

(* creationRetireTimeoutMs passes first.                                   *)
CreationsTimeOut ==
  /\ MayFail
  /\ disposal.stage = "creations"
  /\ \E c \in disposal.fibers : phase[c] \in CreationPhases
  /\ disposal' = IF disposal.all THEN [NoDisposal EXCEPT !.stage = "failed"] ELSE NoDisposal
  /\ fatal' = TRUE
  /\ UNCHANGED <<askVars, runtimeVars, mapVars, disposed, sweeper>>

Retired == disposal.stage = "retire" /\ \A r \in disposal.fibers : phase[r] = "gone"

ScopeDisposed ==
  /\ Retired /\ ~disposal.all
  /\ disposal' = NoDisposal
  /\ UNCHANGED <<askVars, runtimeVars, mapVars, disposed, sweeper, fatal>>

(* dispose goes on to wait for retirements others began, unless one of its *)
(* own failed.                                                             *)
DrainRetirements ==
  /\ Retired /\ disposal.all
  /\ disposal' = IF \A r \in disposal.fibers : proc[r] # "lost"
                 THEN [disposal EXCEPT !.stage = "drain", !.fibers = {}]
                 ELSE [NoDisposal EXCEPT !.stage = "failed"]
  /\ UNCHANGED <<askVars, runtimeVars, mapVars, disposed, sweeper, fatal>>

PoolDisposed ==
  /\ disposal.stage = "drain"
  /\ \A r \in Runtimes : phase[r] \notin RetiringPhases
  /\ disposal' = [disposal EXCEPT !.stage = "closed"]
  /\ UNCHANGED <<askVars, runtimeVars, mapVars, disposed, sweeper, fatal>>

(* Shutdown interrupts the reload fiber in the middle of disposeScope.     *)
DisposalInterrupted ==
  /\ disposal.stage = "creations" /\ ~disposal.all
  /\ disposal' = NoDisposal
  /\ UNCHANGED <<askVars, runtimeVars, mapVars, disposed, sweeper, fatal>>

-----------------------------------------------------------------------------
AskStep(a) ==
  \/ \E s \in Sessions : Answer(a, s)
  \/ RefuseDisposed(a) \/ UseEntry(a) \/ JoinCreation(a)
  \/ ForkCreation(a) \/ ForkEvicting(a) \/ RefuseBusy(a)
  \/ JoinSucceeds(a)
  \/ RetryRemoved(a) \/ BuryDead(a) \/ StartTurn(a) \/ Buried(a)
  \/ TurnEnds(a) \/ TurnLoses(a) \/ EvictDead(a) \/ Evicted(a)
  \/ Interrupt(a) \/ AbortSettles(a) \/ AbortFails(a)

RuntimeStep(r) ==
  \/ DisposeVictim(r) \/ CreateSession(r) \/ CreateSessionFails(r)
  \/ Commit(r) \/ RefuseLate(r) \/ DisposeLate(r)
  \/ RetirementAborts(r) \/ RetirementDisposes(r) \/ RetirementFails(r)
  \/ ProcessExits(r) \/ SweepIdle(r)

OwnerStep ==
  \/ SweepNext
  \/ \E scope \in Scopes : DisposeScope(scope)
  \/ DisposePool \/ RetireEntries \/ CreationsTimeOut \/ ScopeDisposed
  \/ DrainRetirements \/ PoolDisposed \/ DisposalInterrupted

Next ==
  \/ \E a \in Asks : AskStep(a)
  \/ \E r \in Runtimes : RuntimeStep(r)
  \/ OwnerStep

Spec == Init /\ [][Next]_vars

-----------------------------------------------------------------------------
(* Fairness.  Creations, aborts and disposals are bounded by timeouts of   *)
(* their own, the Effect scheduler runs every ready fiber, and the ask     *)
(* timeout interrupts every ask: none of it needs the caller, the backend  *)
(* or the idle sweep to do anything.                                       *)
AskProgress(a) ==
  \/ RefuseDisposed(a) \/ UseEntry(a) \/ JoinCreation(a)
  \/ ForkCreation(a) \/ ForkEvicting(a) \/ RefuseBusy(a)
  \/ JoinSucceeds(a)
  \/ RetryRemoved(a) \/ BuryDead(a) \/ StartTurn(a) \/ Buried(a)
  \/ TurnLoses(a) \/ EvictDead(a) \/ Evicted(a)
  \/ AbortSettles(a) \/ AbortFails(a)

RuntimeProgress(r) ==
  \/ DisposeVictim(r) \/ CreateSession(r) \/ CreateSessionFails(r)
  \/ Commit(r) \/ RefuseLate(r) \/ DisposeLate(r)
  \/ RetirementAborts(r) \/ RetirementDisposes(r) \/ RetirementFails(r)

DisposalProgress ==
  \/ RetireEntries \/ CreationsTimeOut \/ ScopeDisposed \/ DrainRetirements \/ PoolDisposed

FairSpec ==
  /\ Spec
  /\ \A a \in Asks : WF_vars(AskProgress(a)) /\ WF_vars(Interrupt(a))
  /\ \A r \in Runtimes : WF_vars(RuntimeProgress(r))
  /\ WF_vars(SweepNext) /\ WF_vars(DisposalProgress)

-----------------------------------------------------------------------------
TypeOK ==
  /\ pc \in [Asks -> AskPcs]
  /\ want \in [Asks -> Sessions \cup {None}]
  /\ at \in [Asks -> Runtimes \cup {None}]
  /\ prompts \in [Asks -> Nat]
  /\ phase \in [Runtimes -> Phases]
  /\ home \in [Runtimes -> Sessions \cup {None}]
  /\ proc \in [Runtimes -> {"none", "up", "dead", "lost"}]
  /\ busy \in [Runtimes -> BOOLEAN]
  /\ waiting \in [Runtimes -> Nat]
  /\ retired \in [Runtimes -> BOOLEAN]
  /\ victim \in [Runtimes -> Runtimes \cup {None}]
  /\ entries \in [Sessions -> Runtimes \cup {None}]
  /\ creations \in [Sessions -> Runtimes \cup {None}]
  /\ occupied \in Int
  /\ disposed \in BOOLEAN
  /\ sweeper \in Runtimes \cup {None}
  /\ disposal \in [stage : Stages, scope : SUBSET Sessions, all : BOOLEAN,
                   fibers : SUBSET Runtimes]
  /\ fatal \in BOOLEAN

SlotHolders == {r \in Runtimes : phase[r] \in SlotPhases}

(* occupied counts exactly the creations and the entries that have not     *)
(* ended, through evictions that pass a slot on, refused creations, failed *)
(* aborts and retirements that three different owners begin, and it never  *)
(* exceeds maxRuntimes.                                                    *)
SlotsAccounted == occupied = Cardinality(SlotHolders) /\ occupied <= MaxRuntimes

(* A live backend belongs to someone who will dispose of it: a creation,   *)
(* an entry or a retirement.  Only a failed abort, which stops the Node,   *)
(* leaves one behind.                                                      *)
BackendsOwned ==
  \A r \in Runtimes : proc[r] # "none" =>
    phase[r] \in {"started", "late", "ready", "evicted"} \cup RetiringPhases \/ fatal

(* The Node never runs more backends than it has slots, even while an      *)
(* evicted one is still being replaced.                                    *)
BackendsBounded == Cardinality({r \in Runtimes : proc[r] # "none"}) <= MaxRuntimes \/ fatal

(* entry.waiting is the number of asks in its queue, and entry.busy says   *)
(* that one of them has its turn: also after interrupts, retries and the   *)
(* removal of the entry.                                                   *)
QueueAccounted ==
  \A r \in Runtimes :
    /\ waiting[r] = Cardinality({a \in Asks : pc[a] = "queued" /\ at[a] = r})
    /\ waiting[r] <= QueueCapacity
    /\ busy[r] <=> \E a \in Asks : at[a] = r /\ pc[a] \in TurnPcs

(* A session is served by one entry or one creation, never by both, and an *)
(* evicted entry waits for exactly one creation to dispose of it.          *)
MapsAgree ==
  /\ \A s \in Sessions :
       /\ entries[s] # None => /\ phase[entries[s]] = "ready" /\ home[entries[s]] = s
                               /\ creations[s] = None
       /\ creations[s] # None => /\ phase[creations[s]] \in CreationPhases
                                 /\ home[creations[s]] = s
  /\ \A r \in Runtimes :
       /\ phase[r] = "ready" => entries[home[r]] = r
       /\ phase[r] \in CreationPhases => creations[home[r]] = r
       /\ phase[r] = "evicted" <=> \E c \in Runtimes : phase[c] = "forked" /\ victim[c] = r
       /\ \A c \in Runtimes \ {r} : victim[r] # None => victim[r] # victim[c]

(* A question reaches a backend at most once, whatever retries precede it. *)
PromptedOnce == \A a \in Asks : prompts[a] <= 1

InUse(r) == \E a \in Asks : at[a] = r /\ pc[a] \in TurnPcs \cup {"queued"}

(* A backend that is alive and in use is never taken away without an abort *)
(* first: not by the LRU eviction, the idle sweep or a disposal.           *)
UsedBackendAborted ==
  [][\A r \in Runtimes :
       phase[r] = "ready" /\ InUse(r) /\ proc[r] = "up" =>
         phase'[r] \in {"ready", "aborting"}]_vars

(* dispose returns with nothing left: no entry, no creation, no retirement *)
(* and no backend, whatever was in progress when it began.                 *)
ClosedIsEmpty ==
  disposal.stage = "closed" =>
    /\ SlotHolders = {} /\ occupied = 0
    /\ \A s \in Sessions : entries[s] = None /\ creations[s] = None
    /\ \A r \in Runtimes : proc[r] = "up" => fatal

(* Every ask ends: refused, answered, failed or interrupted.               *)
AsksSettle == \A a \in Asks : pc[a] # "idle" ~> pc[a] = "idle"

(* An entry that left the map is disposed of, also when the ask that       *)
(* evicted it is cancelled or its creation fails.                          *)
BackendsRetire ==
  \A r \in Runtimes : phase[r] \in {"evicted", "late"} \cup RetiringPhases ~> phase[r] = "gone"

(* disposePeer, disposeWorkspace and dispose end.                          *)
DisposalsEnd == disposal.stage # "idle" ~> disposal.stage \in {"idle", "closed", "failed"}
=============================================================================
