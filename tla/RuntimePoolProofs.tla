-------------------------- MODULE RuntimePoolProofs --------------------------
(***************************************************************************)
(* The safety properties of RuntimePool, proved for every number of asks,  *)
(* sessions, slots and places in a queue.                                  *)
(*                                                                         *)
(* None of them is inductive alone.  That Abandon gives back exactly one   *)
(* slot, or that an eviction passes one on, depends on the phases of the   *)
(* creation and of its victim, which MapsAgree and Shape record; that a    *)
(* backend in use is never idle depends on the counters being right, which *)
(* depends on turnGate having one holder.  IInv is their conjunction.      *)
(***************************************************************************)
EXTENDS RuntimePool, FiniteSetTheorems, TLAPS

Queued(r) == {a \in Asks : pc[a] = "queued" /\ at[a] = r}

(* entry.waiting counts the asks in the queue.                             *)
QueueCounted == \A r \in Runtimes : waiting[r] = Cardinality(Queued(r))

PlacesBounded == \A r \in Runtimes : waiting[r] <= QueueCapacity

(* turnGate has one holder, and entry.busy says that its turn has begun.   *)
OneTurn ==
  \A a, b \in Asks : pc[a] \in GatePcs /\ pc[b] \in GatePcs /\ at[a] = at[b] => a = b

BusyInTurn ==
  \A r \in Runtimes : busy[r] <=> \E a \in Asks : at[a] = r /\ pc[a] \in TurnPcs

(* An ask is prompted once in its turn, and not before it.                 *)
PromptedInTurn == \A a \in Asks : prompts[a] = IF pc[a] \in TurnPcs THEN 1 ELSE 0

(* What an ask refers to, and what a creation or an entry is for.          *)
Shape ==
  /\ \A a \in Asks :
       /\ pc[a] \in {"idle", "entry"} <=> at[a] = None
       /\ pc[a] # "idle" => want[a] \in Sessions
       /\ pc[a] \in {"queued"} \cup GatePcs => phase[at[a]] \notin CreationPhases
  /\ \A r \in Runtimes :
       /\ phase[r] \in CreationPhases \cup {"ready"} => home[r] \in Sessions
       /\ victim[r] # None => phase[r] = "forked"

(* What dispose has achieved by the stage it has reached.                  *)
Closing ==
  /\ disposal.stage \in {"drain", "closed"} => disposal.all
  /\ disposal.all => disposed /\ disposal.stage \in {"creations", "retire", "drain", "closed"}
  /\ disposal.all /\ disposal.stage = "creations" =>
       /\ disposal.scope = Sessions
       /\ \A r \in Runtimes : phase[r] \in CreationPhases => r \in disposal.fibers
  /\ disposal.all /\ disposal.stage # "creations" =>
       /\ \A r \in Runtimes : phase[r] \notin CreationPhases
       /\ \A s \in Sessions : entries[s] = None
  /\ disposal.stage = "closed" => \A r \in Runtimes : phase[r] \notin RetiringPhases

IInv ==
  /\ TypeOK /\ Shape /\ MapsAgree /\ SlotsAccounted
  /\ QueueCounted /\ PlacesBounded /\ OneTurn /\ BusyInTurn
  /\ PromptedInTurn /\ BackendsOwned /\ Closing

-----------------------------------------------------------------------------
(* The queue of an entry is a finite set, empty when its counter is zero.  *)
LEMMA QueueFinite ==
  ASSUME NEW r, TypeOK
  PROVE  IsFiniteSet(Queued(r)) /\ Cardinality(Queued(r)) \in Nat
<1>1. Queued(r) \in SUBSET Asks
  BY DEF Queued
<1>2. IsFiniteSet(Queued(r))
  BY <1>1, FS_Subset, PoolAssumption
<1> QED BY <1>2, FS_CardinalityType

(* An ask in the queue is counted there.                                   *)
LEMMA QueuedIsCounted ==
  ASSUME NEW a \in Asks, TypeOK, Shape, QueueCounted, pc[a] = "queued"
  PROVE  at[a] \in Runtimes /\ waiting[at[a]] > 0
<1>1. at[a] \in Runtimes
  BY DEF TypeOK, Shape
<1>2. a \in Queued(at[a])
  BY DEF Queued
<1>3. Cardinality(Queued(at[a])) # 0
  BY <1>2, QueueFinite, FS_EmptySet
<1> QED BY <1>1, <1>3, QueueFinite DEF QueueCounted

(* An ask that is dequeued takes a counter that is not zero down by one.   *)
LEMMA DequeueTyped ==
  ASSUME NEW a \in Asks, TypeOK, Shape, QueueCounted, Dequeue(a)
  PROVE  waiting' \in [Runtimes -> Nat]
<1>1. at[a] \in Runtimes /\ waiting[at[a]] > 0
  BY QueuedIsCounted DEF Dequeue
<1>2. waiting \in [Runtimes -> Nat]
  BY DEF TypeOK
<1>3. waiting[at[a]] - 1 \in Nat
  BY <1>1, <1>2
<1> QED BY <1>1, <1>2, <1>3 DEF Dequeue

(* The end of an uncommitted creation keeps the types.                     *)
LEMMA AbandonTyped ==
  ASSUME NEW c \in Runtimes, TypeOK, Abandon(c)
  PROVE  /\ pc' \in [Asks -> AskPcs]
         /\ want' \in [Asks -> Sessions \cup {None}]
         /\ at' \in [Asks -> Runtimes \cup {None}]
         /\ prompts' \in [Asks -> Nat]
         /\ phase' \in [Runtimes -> Phases]
         /\ home' \in [Runtimes -> Sessions \cup {None}]
         /\ retired' \in [Runtimes -> BOOLEAN]
         /\ creations' \in [Sessions -> Runtimes \cup {None}]
         /\ occupied' \in Int
<1> USE DEF TypeOK
<1>1. pc' \in [Asks -> AskPcs]
  BY DEF Abandon, AskPcs
<1>2. want' \in [Asks -> Sessions \cup {None}]
  BY DEF Abandon
<1>3. at' \in [Asks -> Runtimes \cup {None}]
  BY DEF Abandon
<1>4. phase' \in [Runtimes -> Phases]
  BY DEF Abandon, Phases
<1>5. creations' \in [Sessions -> Runtimes \cup {None}]
  BY DEF Abandon
<1>6. home' \in [Runtimes -> Sessions \cup {None}] /\ retired' \in [Runtimes -> BOOLEAN]
  BY DEF Abandon
<1>7. prompts' \in [Asks -> Nat] /\ occupied' \in Int
  BY DEF Abandon
<1> QED BY <1>1, <1>2, <1>3, <1>4, <1>5, <1>6, <1>7

-----------------------------------------------------------------------------
(* Every step keeps every variable in its type.                            *)
LEMMA TypeStep ==
  ASSUME IInv, [Next]_vars
  PROVE  TypeOK'
<1> USE PoolAssumption DEF TypeOK, askVars, runtimeVars, mapVars, ownerVars
<1> TypeOK /\ Shape /\ MapsAgree /\ QueueCounted /\ SlotsAccounted BY DEF IInv
<1>1. ASSUME NEW a \in Asks, AskStep(a) PROVE TypeOK'
  <2> USE DEF Settle, Goto, AskPcs, GatePcs, TurnPcs
  <2>1. CASE \E s \in Sessions : Answer(a, s)
    BY <2>1 DEF Answer
  <2>2. CASE RefuseDisposed(a)
    BY <2>2 DEF RefuseDisposed
  <2>3. CASE UseEntry(a)
    BY <2>3 DEF UseEntry, Reserve, Shape
  <2>4. CASE JoinCreation(a)
    BY <2>4 DEF JoinCreation, Shape
  <2>5. CASE ForkCreation(a)
    BY <2>5 DEF ForkCreation, NeedsCreation, Fork, NextId, Free, Shape, Phases, SlotPhases,
       CreationPhases
  <2>6. CASE ForkEvicting(a)
    BY <2>6 DEF ForkEvicting, NeedsCreation, Fork, NextId, Free, Shape, Phases, SlotPhases,
       CreationPhases, IdleEntries, Remove, MapsAgree
  <2>7. CASE RefuseBusy(a)
    BY <2>7 DEF RefuseBusy
  <2>8. CASE JoinSucceeds(a)
    BY <2>8 DEF JoinSucceeds, Reserve, Shape
  <2>9. CASE RetryRemoved(a)
    <3>1. waiting' \in [Runtimes -> Nat]
      BY <2>9, DequeueTyped DEF RetryRemoved
    <3> QED BY <2>9, <3>1 DEF RetryRemoved
  <2>10. CASE BuryDead(a)
    <3>1. waiting' \in [Runtimes -> Nat]
      BY <2>10, DequeueTyped DEF BuryDead
    <3> QED BY <2>10, <3>1 DEF BuryDead, Remove, Retire, Phases, SlotPhases, RetiringPhases
  <2>11. CASE StartTurn(a)
    <3>1. waiting' \in [Runtimes -> Nat]
      BY <2>11, DequeueTyped DEF StartTurn
    <3>2. prompts' \in [Asks -> Nat]
      BY <2>11 DEF StartTurn
    <3> QED BY <2>11, <3>1, <3>2 DEF StartTurn
  <2>12. CASE Buried(a)
    BY <2>12 DEF Buried
  <2>13. CASE TurnEnds(a)
    BY <2>13 DEF TurnEnds, EndTurn
  <2>14. CASE TurnLoses(a)
    BY <2>14 DEF TurnLoses, EndTurn
  <2>15. CASE EvictDead(a)
    BY <2>15 DEF EvictDead, Remove, Retire, Phases, SlotPhases, RetiringPhases
  <2>16. CASE Evicted(a)
    BY <2>16 DEF Evicted, EndTurn
  <2>17. CASE Interrupt(a)
    BY <2>17, QueuedIsCounted DEF Interrupt
  <2>18. CASE AbortSettles(a)
    BY <2>18 DEF AbortSettles, EndTurn
  <2>19. CASE AbortFails(a)
    BY <2>19 DEF AbortFails, EndTurn
  <2> QED BY <1>1, <2>1, <2>2, <2>3, <2>4, <2>5, <2>6, <2>7, <2>8, <2>9, <2>10,
             <2>11, <2>12, <2>13, <2>14, <2>15, <2>16, <2>17, <2>18, <2>19 DEF AskStep
<1>2. ASSUME NEW r \in Runtimes, RuntimeStep(r) PROVE TypeOK'
  <2> USE DEF Phases, SlotPhases, CreationPhases, RetiringPhases
  <2>1. CASE DisposeVictim(r)
    BY <2>1 DEF DisposeVictim
  <2>2. CASE CreateSession(r)
    BY <2>2 DEF CreateSession
  <2>3. CASE CreateSessionFails(r)
    BY <2>3, AbandonTyped DEF CreateSessionFails
  <2>4. CASE Commit(r)
    BY <2>4 DEF Commit
  <2>5. CASE RefuseLate(r)
    BY <2>5 DEF RefuseLate
  <2>6. CASE DisposeLate(r)
    BY <2>6, AbandonTyped DEF DisposeLate
  <2>7. CASE RetirementAborts(r)
    BY <2>7 DEF RetirementAborts
  <2>8. CASE RetirementDisposes(r)
    BY <2>8 DEF RetirementDisposes, RetirementEnds
  <2>9. CASE RetirementFails(r)
    BY <2>9 DEF RetirementFails, RetirementEnds
  <2>10. CASE ProcessExits(r)
    BY <2>10 DEF ProcessExits
  <2>11. CASE SweepIdle(r)
    BY <2>11 DEF SweepIdle, Remove, Retire
  <2> QED BY <1>2, <2>1, <2>2, <2>3, <2>4, <2>5, <2>6, <2>7, <2>8, <2>9, <2>10, <2>11
          DEF RuntimeStep
<1>3. CASE OwnerStep
  <2> USE DEF Stages, NoDisposal
  <2>1. CASE SweepNext
    BY <2>1 DEF SweepNext
  <2>2. CASE \E scope \in Scopes : DisposeScope(scope)
    BY <2>2 DEF DisposeScope, BeginDisposal, Matching
  <2>3. CASE DisposePool
    BY <2>3 DEF DisposePool, BeginDisposal, Matching
  <2>4. CASE RetireEntries
    BY <2>4 DEF RetireEntries, Phases, SlotPhases, RetiringPhases
  <2>5. CASE CreationsTimeOut
    BY <2>5 DEF CreationsTimeOut
  <2>6. CASE ScopeDisposed
    BY <2>6 DEF ScopeDisposed
  <2>7. CASE DrainRetirements
    BY <2>7 DEF DrainRetirements
  <2>8. CASE PoolDisposed
    BY <2>8 DEF PoolDisposed
  <2>9. CASE DisposalInterrupted
    BY <2>9 DEF DisposalInterrupted
  <2> QED BY <1>3, <2>1, <2>2, <2>3, <2>4, <2>5, <2>6, <2>7, <2>8, <2>9 DEF OwnerStep
<1>4. CASE UNCHANGED vars
  BY <1>4 DEF vars
<1> QED BY <1>1, <1>2, <1>3, <1>4 DEF Next

-----------------------------------------------------------------------------
(* The steps that move a creation or an entry on.  No other step touches   *)
(* the maps, the phases or the slots.                                      *)
EntryStep ==
  \/ \E a \in Asks : ForkCreation(a) \/ ForkEvicting(a) \/ BuryDead(a) \/ EvictDead(a)
  \/ \E r \in Runtimes :
       \/ DisposeVictim(r) \/ CreateSession(r) \/ CreateSessionFails(r) \/ Commit(r)
       \/ RefuseLate(r) \/ DisposeLate(r) \/ RetirementAborts(r) \/ RetirementDisposes(r)
       \/ RetirementFails(r) \/ SweepIdle(r)
  \/ RetireEntries

entryVars == <<phase, home, victim, entries, creations, occupied>>

(* The steps outside EntryStep change nothing of it.                       *)
LEMMA OtherSteps ==
  ASSUME [Next]_vars, ~EntryStep
  PROVE  UNCHANGED entryVars
<1> USE DEF entryVars, askVars, runtimeVars, mapVars, ownerVars
<1>1. ASSUME NEW a \in Asks, AskStep(a) PROVE UNCHANGED entryVars
  BY <1>1 DEF AskStep, EntryStep, Answer, RefuseDisposed, UseEntry, JoinCreation, RefuseBusy,
     JoinSucceeds, RetryRemoved, StartTurn, Buried, TurnEnds, TurnLoses, Evicted, Interrupt,
     AbortSettles, AbortFails
<1>2. ASSUME NEW r \in Runtimes, RuntimeStep(r) PROVE UNCHANGED entryVars
  BY <1>2 DEF RuntimeStep, EntryStep, ProcessExits
<1>3. CASE OwnerStep
  BY <1>3 DEF OwnerStep, EntryStep, SweepNext, DisposeScope, DisposePool, BeginDisposal,
     CreationsTimeOut, ScopeDisposed, DrainRetirements, PoolDisposed, DisposalInterrupted
<1>4. CASE UNCHANGED vars
  BY <1>4 DEF vars
<1> QED BY <1>1, <1>2, <1>3, <1>4 DEF Next

(* Every step keeps the two maps and the phases in agreement.              *)
LEMMA MapsStep ==
  ASSUME IInv, [Next]_vars
  PROVE  MapsAgree'
<1> USE PoolAssumption DEF mapVars, TypeOK, CreationPhases, RetiringPhases
<1> TypeOK /\ Shape /\ MapsAgree BY DEF IInv
<1>0. CASE ~EntryStep
  BY <1>0, OtherSteps DEF entryVars, MapsAgree
<1>1. ASSUME NEW a \in Asks, ForkCreation(a) PROVE MapsAgree'
  BY <1>1 DEF ForkCreation, NeedsCreation, Fork, NextId, Free, Shape, MapsAgree
<1>2. ASSUME NEW a \in Asks, ForkEvicting(a) PROVE MapsAgree'
  <2>1. PICK c \in NextId, old \in IdleEntries :
          /\ Fork(a, c, old) /\ Remove(old)
          /\ phase' = [phase EXCEPT ![c] = "forked", ![old] = "evicted"]
    BY <1>2 DEF ForkEvicting
  <2>2. want[a] \in Sessions /\ entries[want[a]] = None /\ creations[want[a]] = None
    BY <1>2 DEF ForkEvicting, NeedsCreation, Shape
  <2>3. c \in Runtimes /\ phase[c] = "gone" /\ victim[c] = None
    BY DEF NextId, Free, Shape
  <2>4. /\ old \in Runtimes /\ phase[old] = "ready" /\ home[old] \in Sessions
        /\ entries[home[old]] = old
    BY DEF IdleEntries, MapsAgree, Shape
  <2>5. c # old /\ home[old] # want[a] /\ \A r \in Runtimes : victim[r] # old
    BY <2>2, <2>3, <2>4 DEF MapsAgree, Shape
  <2>6. /\ entries' = [entries EXCEPT ![home[old]] = None]
        /\ creations' = [creations EXCEPT ![want[a]] = c]
        /\ home' = [home EXCEPT ![c] = want[a]]
        /\ victim' = [victim EXCEPT ![c] = old]
    BY <2>1, Zenon DEF Fork, Remove
  <2>7. ASSUME NEW s \in Sessions
        PROVE  /\ entries'[s] # None => /\ phase'[entries'[s]] = "ready" /\ home'[entries'[s]] = s
                                        /\ creations'[s] = None
               /\ creations'[s] # None => /\ phase'[creations'[s]] \in CreationPhases
                                          /\ home'[creations'[s]] = s
    <3>1. CASE s = want[a]
      BY <3>1, <2>1, <2>2, <2>3, <2>4, <2>5, <2>6
    <3>2. CASE s # want[a] /\ s = home[old]
      BY <3>2, <2>1, <2>4, <2>5, <2>6 DEF MapsAgree
    <3>3. CASE s # want[a] /\ s # home[old]
      <4>1. entries'[s] = entries[s] /\ creations'[s] = creations[s]
        BY <3>3, <2>4, <2>6
      <4>2. entries[s] \notin {c, old} /\ creations[s] \notin {c, old}
        BY <3>3, <2>2, <2>3, <2>4 DEF MapsAgree
      <4>3. \A q \in Runtimes \ {c, old} : phase'[q] = phase[q] /\ home'[q] = home[q]
        BY <2>1, <2>6
      <4>4. CASE entries[s] # None
        <5>1. entries[s] \in Runtimes \ {c, old} /\ creations[s] = None
          BY <4>2, <4>4 DEF MapsAgree
        <5>2. phase[entries[s]] = "ready" /\ home[entries[s]] = s
          BY <4>4 DEF MapsAgree
        <5>3. phase'[entries[s]] = "ready" /\ home'[entries[s]] = s
          BY <4>3, <5>1, <5>2
        <5> QED BY <4>1, <5>1, <5>3
      <4>5. CASE entries[s] = None /\ creations[s] # None
        <5>1. creations[s] \in Runtimes \ {c, old}
          BY <4>2, <4>5
        <5>2. phase[creations[s]] \in CreationPhases /\ home[creations[s]] = s
          BY <4>5 DEF MapsAgree
        <5>3. phase'[creations[s]] \in CreationPhases /\ home'[creations[s]] = s
          BY <4>3, <5>1, <5>2
        <5> QED BY <4>1, <4>5, <5>3
      <4> QED BY <4>1, <4>4, <4>5
    <3> QED BY <3>1, <3>2, <3>3
  <2>8. ASSUME NEW r \in Runtimes
        PROVE  /\ phase'[r] = "ready" => entries'[home'[r]] = r
               /\ phase'[r] \in CreationPhases => creations'[home'[r]] = r
    BY <2>1, <2>2, <2>3, <2>4, <2>5, <2>6 DEF MapsAgree, Shape
  <2>9. ASSUME NEW r \in Runtimes
        PROVE  phase'[r] = "evicted" <=> \E q \in Runtimes : phase'[q] = "forked" /\ victim'[q] = r
    BY <2>1, <2>2, <2>3, <2>4, <2>5, <2>6 DEF MapsAgree, Shape
  <2>10. ASSUME NEW r \in Runtimes, NEW q \in Runtimes \ {r}
         PROVE  victim'[r] # None => victim'[r] # victim'[q]
    BY <2>3, <2>4, <2>5, <2>6 DEF MapsAgree
  <2> QED BY <2>7, <2>8, <2>9, <2>10 DEF MapsAgree
<1>3. ASSUME NEW a \in Asks, BuryDead(a) PROVE MapsAgree'
  BY <1>3 DEF BuryDead, Dequeue, Remove, Retire, Shape, MapsAgree
<1>4. ASSUME NEW a \in Asks, EvictDead(a) PROVE MapsAgree'
  BY <1>4 DEF EvictDead, Remove, Retire, Shape, MapsAgree
<1>5. ASSUME NEW r \in Runtimes, DisposeVictim(r) PROVE MapsAgree'
  <2>0. victim[r] \in Runtimes /\ phase[r] = "forked"
    BY <1>5 DEF DisposeVictim
  <2>1. phase[victim[r]] = "evicted"
    BY <2>0 DEF MapsAgree
  <2>2. /\ phase' = [phase EXCEPT ![victim[r]] = "gone"]
        /\ home' = [home EXCEPT ![victim[r]] = None]
        /\ victim' = [victim EXCEPT ![r] = None]
        /\ UNCHANGED <<entries, creations>>
    BY <1>5 DEF DisposeVictim
  <2>3. ASSUME NEW s \in Sessions
        PROVE  /\ entries'[s] # None => /\ phase'[entries'[s]] = "ready" /\ home'[entries'[s]] = s
                                        /\ creations'[s] = None
               /\ creations'[s] # None => /\ phase'[creations'[s]] \in CreationPhases
                                          /\ home'[creations'[s]] = s
    BY <2>0, <2>1, <2>2 DEF MapsAgree
  <2>4. ASSUME NEW q \in Runtimes
        PROVE  /\ phase'[q] = "ready" => entries'[home'[q]] = q
               /\ phase'[q] \in CreationPhases => creations'[home'[q]] = q
    BY <2>0, <2>1, <2>2 DEF MapsAgree
  <2>5. ASSUME NEW q \in Runtimes
        PROVE  phase'[q] = "evicted" <=> \E c \in Runtimes : phase'[c] = "forked" /\ victim'[c] = q
    BY <2>0, <2>1, <2>2 DEF MapsAgree
  <2>6. ASSUME NEW q \in Runtimes, NEW c \in Runtimes \ {q}
        PROVE  victim'[q] # None => victim'[q] # victim'[c]
    BY <2>0, <2>1, <2>2 DEF MapsAgree
  <2> QED BY <2>3, <2>4, <2>5, <2>6 DEF MapsAgree
<1>6. ASSUME NEW r \in Runtimes, CreateSession(r) PROVE MapsAgree'
  BY <1>6 DEF CreateSession, Shape, MapsAgree, runtimeVars, askVars
<1>7. ASSUME NEW r \in Runtimes, CreateSessionFails(r) PROVE MapsAgree'
  BY <1>7 DEF CreateSessionFails, Abandon, Shape, MapsAgree
<1>8. ASSUME NEW r \in Runtimes, Commit(r) PROVE MapsAgree'
  BY <1>8 DEF Commit, Accepted, Shape, MapsAgree
<1>9. ASSUME NEW r \in Runtimes, RefuseLate(r) PROVE MapsAgree'
  BY <1>9 DEF RefuseLate, Shape, MapsAgree
<1>10. ASSUME NEW r \in Runtimes, DisposeLate(r) PROVE MapsAgree'
  BY <1>10 DEF DisposeLate, Abandon, Shape, MapsAgree
<1>11. ASSUME NEW r \in Runtimes, RetirementAborts(r) PROVE MapsAgree'
  BY <1>11 DEF RetirementAborts, Shape, MapsAgree
<1>12. ASSUME NEW r \in Runtimes, RetirementDisposes(r) PROVE MapsAgree'
  BY <1>12 DEF RetirementDisposes, RetirementEnds, Shape, MapsAgree
<1>13. ASSUME NEW r \in Runtimes, RetirementFails(r) PROVE MapsAgree'
  BY <1>13 DEF RetirementFails, RetirementEnds, Shape, MapsAgree
<1>14. ASSUME NEW r \in Runtimes, SweepIdle(r) PROVE MapsAgree'
  BY <1>14 DEF SweepIdle, IdleEntries, Remove, Retire, Shape, MapsAgree
<1>15. CASE RetireEntries
  BY <1>15 DEF RetireEntries, Shape, MapsAgree
<1> QED BY <1>0, <1>1, <1>2, <1>3, <1>4, <1>5, <1>6, <1>7, <1>8, <1>9, <1>10, <1>11, <1>12,
           <1>13, <1>14, <1>15 DEF EntryStep

(* Every step keeps what asks refer to and what entries are for.           *)
LEMMA ShapeStep ==
  ASSUME IInv, [Next]_vars
  PROVE  Shape'
<1> USE PoolAssumption DEF TypeOK, Shape, askVars, runtimeVars, mapVars
<1> TypeOK /\ Shape /\ MapsAgree BY DEF IInv
<1>1. ASSUME NEW a \in Asks, AskStep(a) PROVE Shape'
  <2> USE DEF GatePcs, TurnPcs
  <2>1. CASE \E s \in Sessions : Answer(a, s)
    BY <2>1 DEF Answer
  <2>2. CASE RefuseDisposed(a)
    BY <2>2 DEF RefuseDisposed, Settle
  <2>3. CASE UseEntry(a)
    BY <2>3 DEF UseEntry, Reserve, Settle, Goto, MapsAgree, CreationPhases
  <2>4. CASE JoinCreation(a)
    BY <2>4 DEF JoinCreation, Goto
  <2>5. CASE ForkCreation(a)
    BY <2>5 DEF ForkCreation, NeedsCreation, Fork, Goto, NextId, Free, CreationPhases
  <2>6. CASE ForkEvicting(a)
    <3>1. PICK c \in NextId, old \in IdleEntries :
            /\ Fork(a, c, old)
            /\ phase' = [phase EXCEPT ![c] = "forked", ![old] = "evicted"]
      BY <2>6 DEF ForkEvicting
    <3>2. want[a] \in Sessions /\ pc[a] = "entry"
      BY <2>6 DEF ForkEvicting, NeedsCreation
    <3>3. c \in Runtimes /\ phase[c] = "gone" /\ \A b \in Asks : at[b] # c
      BY DEF NextId, Free
    <3>4. old \in Runtimes /\ phase[old] = "ready" /\ c # old
      BY <3>3 DEF IdleEntries, MapsAgree
    <3>5. /\ Goto(a, "joining", c)
          /\ home' = [home EXCEPT ![c] = want[a]]
          /\ victim' = [victim EXCEPT ![c] = old]
      BY <3>1 DEF Fork
    <3>6. ASSUME NEW b \in Asks
          PROVE  /\ pc'[b] \in {"idle", "entry"} <=> at'[b] = None
                 /\ pc'[b] # "idle" => want'[b] \in Sessions
      BY <3>2, <3>3, <3>5 DEF Goto
    <3>7. ASSUME NEW b \in Asks, pc'[b] \in {"queued"} \cup GatePcs
          PROVE  phase'[at'[b]] \notin CreationPhases
      <4>1. b # a
        BY <3>5, <3>7 DEF Goto
      <4>2. pc[b] = pc'[b] /\ at'[b] = at[b] /\ at[b] \in Runtimes \ {c}
        BY <4>1, <3>3, <3>5, <3>7 DEF Goto
      <4>3. phase'[at[b]] \in {phase[at[b]], "evicted"}
        <5>1. CASE at[b] = old
          BY <5>1, <3>1, <3>4
        <5>2. CASE at[b] # old
          <6>1. at[b] \in Runtimes \ {c, old}
            BY <5>2, <4>2
          <6>2. DOMAIN phase = Runtimes
            OBVIOUS
          <6> HIDE DEF TypeOK, Shape
          <6> QED BY <6>1, <6>2, <3>1
        <5> QED BY <5>1, <5>2
      <4> QED BY <4>2, <4>3, <3>7 DEF CreationPhases
    <3>8. ASSUME NEW r \in Runtimes
          PROVE  /\ phase'[r] \in CreationPhases \cup {"ready"} => home'[r] \in Sessions
                 /\ victim'[r] # None => phase'[r] = "forked"
      BY <3>1, <3>2, <3>3, <3>4, <3>5 DEF CreationPhases
    <3> QED BY <3>6, <3>7, <3>8
  <2>7. CASE RefuseBusy(a)
    BY <2>7 DEF RefuseBusy, Settle
  <2>8. CASE JoinSucceeds(a)
    BY <2>8 DEF JoinSucceeds, Reserve, Settle, Goto
  <2>9. CASE RetryRemoved(a)
    BY <2>9 DEF RetryRemoved, Dequeue, Goto
  <2>10. CASE BuryDead(a)
    BY <2>10 DEF BuryDead, Dequeue, Retire, Goto, MapsAgree, CreationPhases
  <2>11. CASE StartTurn(a)
    BY <2>11 DEF StartTurn, Dequeue
  <2>12. CASE Buried(a)
    BY <2>12 DEF Buried, Goto, Settle
  <2>13. CASE TurnEnds(a)
    BY <2>13 DEF TurnEnds, EndTurn, Settle
  <2>14. CASE TurnLoses(a)
    BY <2>14 DEF TurnLoses, EndTurn, Settle
  <2>15. CASE EvictDead(a)
    BY <2>15 DEF EvictDead, Retire, Goto, MapsAgree, CreationPhases
  <2>16. CASE Evicted(a)
    BY <2>16 DEF Evicted, EndTurn, Settle
  <2>17. CASE Interrupt(a)
    BY <2>17 DEF Interrupt, Settle, Goto
  <2>18. CASE AbortSettles(a)
    BY <2>18 DEF AbortSettles, EndTurn, Settle
  <2>19. CASE AbortFails(a)
    BY <2>19 DEF AbortFails, EndTurn, Settle
  <2> QED BY <1>1, <2>1, <2>2, <2>3, <2>4, <2>5, <2>6, <2>7, <2>8, <2>9, <2>10,
             <2>11, <2>12, <2>13, <2>14, <2>15, <2>16, <2>17, <2>18, <2>19 DEF AskStep
<1>2. ASSUME NEW r \in Runtimes, RuntimeStep(r) PROVE Shape'
  <2> USE DEF GatePcs, TurnPcs, CreationPhases
  <2>1. CASE DisposeVictim(r)
    BY <2>1 DEF DisposeVictim, MapsAgree
  <2>2. CASE CreateSession(r)
    BY <2>2 DEF CreateSession
  <2>3. CASE CreateSessionFails(r)
    BY <2>3 DEF CreateSessionFails, Abandon, Joiners
  <2>4. CASE Commit(r)
    BY <2>4 DEF Commit, Accepted
  <2>5. CASE RefuseLate(r)
    BY <2>5 DEF RefuseLate
  <2>6. CASE DisposeLate(r)
    BY <2>6 DEF DisposeLate, Abandon, Joiners
  <2>7. CASE RetirementAborts(r)
    BY <2>7 DEF RetirementAborts
  <2>8. CASE RetirementDisposes(r)
    BY <2>8 DEF RetirementDisposes, RetirementEnds
  <2>9. CASE RetirementFails(r)
    BY <2>9 DEF RetirementFails, RetirementEnds
  <2>10. CASE ProcessExits(r)
    BY <2>10 DEF ProcessExits
  <2>11. CASE SweepIdle(r)
    BY <2>11 DEF SweepIdle, IdleEntries, Remove, Retire, MapsAgree
  <2> QED BY <1>2, <2>1, <2>2, <2>3, <2>4, <2>5, <2>6, <2>7, <2>8, <2>9, <2>10, <2>11
          DEF RuntimeStep
<1>3. CASE OwnerStep
  <2>1. CASE SweepNext
    BY <2>1 DEF SweepNext
  <2>2. CASE \E scope \in Scopes : DisposeScope(scope)
    BY <2>2 DEF DisposeScope, BeginDisposal
  <2>3. CASE DisposePool
    BY <2>3 DEF DisposePool, BeginDisposal
  <2>4. CASE RetireEntries
    <3>1. UNCHANGED <<pc, want, at, home, victim>>
      BY <2>4 DEF RetireEntries
    <3>2. ASSUME NEW r \in Runtimes
          PROVE  \/ phase'[r] = phase[r]
                 \/ phase[r] = "ready" /\ phase'[r] \in RetiringPhases
      BY <2>4 DEF RetireEntries, MapsAgree, RetiringPhases
    <3>3. ASSUME NEW b \in Asks, pc[b] \in {"queued"} \cup GatePcs
          PROVE  phase'[at[b]] \notin CreationPhases
      <4>1. at[b] \in Runtimes /\ phase[at[b]] \notin CreationPhases
        BY <3>3 DEF GatePcs, TurnPcs
      <4>2. phase'[at[b]] \in {phase[at[b]]} \cup RetiringPhases
        BY <4>1, <3>2
      <4> HIDE DEF TypeOK, Shape
      <4> QED BY <4>1, <4>2 DEF CreationPhases, RetiringPhases
    <3>4. ASSUME NEW r \in Runtimes
          PROVE  /\ phase'[r] \in CreationPhases \cup {"ready"} => home[r] \in Sessions
                 /\ victim[r] # None => phase'[r] = "forked"
      BY <3>2 DEF CreationPhases, RetiringPhases
    <3> QED BY <3>1, <3>3, <3>4
  <2>5. CASE CreationsTimeOut
    BY <2>5 DEF CreationsTimeOut
  <2>6. CASE ScopeDisposed
    BY <2>6 DEF ScopeDisposed
  <2>7. CASE DrainRetirements
    BY <2>7 DEF DrainRetirements
  <2>8. CASE PoolDisposed
    BY <2>8 DEF PoolDisposed
  <2>9. CASE DisposalInterrupted
    BY <2>9 DEF DisposalInterrupted
  <2> QED BY <1>3, <2>1, <2>2, <2>3, <2>4, <2>5, <2>6, <2>7, <2>8, <2>9 DEF OwnerStep
<1>4. CASE UNCHANGED vars
  BY <1>4 DEF vars
<1> QED BY <1>1, <1>2, <1>3, <1>4 DEF Next

-----------------------------------------------------------------------------
(* There are finitely many slot holders.                                   *)
LEMMA SlotsFinite ==
  ASSUME TypeOK
  PROVE  IsFiniteSet(SlotHolders) /\ Cardinality(SlotHolders) \in Nat
<1>1. SlotHolders \in SUBSET Runtimes
  BY DEF SlotHolders
<1>2. IsFiniteSet(SlotHolders)
  BY <1>1, FS_Subset, PoolAssumption
<1> QED BY <1>2, FS_CardinalityType

(* A creation or a retirement that ends gives back the slot it held, once. *)
LEMMA SlotGivenBack ==
  ASSUME TypeOK, SlotsAccounted, NEW r \in Runtimes, phase[r] \in SlotPhases,
         phase' = [phase EXCEPT ![r] = "gone"], occupied' = occupied - 1
  PROVE  SlotsAccounted'
<1>1. SlotHolders' = SlotHolders \ {r}
  BY DEF SlotHolders, SlotPhases, CreationPhases, RetiringPhases, TypeOK
<1>2. r \in SlotHolders
  BY DEF SlotHolders
<1>3. Cardinality(SlotHolders \ {r}) = Cardinality(SlotHolders) - 1
  BY <1>2, SlotsFinite, FS_RemoveElement
<1> QED BY <1>1, <1>3, SlotsFinite, PoolAssumption DEF SlotsAccounted

(* A step that moves a creation or an entry on leaves its slot with it.    *)
LEMMA SlotKept ==
  ASSUME TypeOK, SlotsAccounted, UNCHANGED occupied,
         \A r \in Runtimes : phase[r] \in SlotPhases <=> phase'[r] \in SlotPhases
  PROVE  SlotsAccounted'
<1>1. SlotHolders' = SlotHolders
  BY DEF SlotHolders
<1> QED BY <1>1 DEF SlotsAccounted

(* Every step keeps occupied equal to the number of slot holders.          *)
LEMMA SlotsStep ==
  ASSUME IInv, [Next]_vars
  PROVE  SlotsAccounted'
<1> USE DEF SlotPhases, CreationPhases, RetiringPhases
<1> TypeOK /\ Shape /\ MapsAgree /\ SlotsAccounted BY DEF IInv
<1> phase \in [Runtimes -> Phases] BY DEF TypeOK
<1>0. CASE ~EntryStep
  <2>1. UNCHANGED <<phase, occupied>>
    BY <1>0, OtherSteps DEF entryVars
  <2> QED BY <2>1, SlotKept
<1>1. ASSUME NEW a \in Asks, ForkCreation(a) PROVE SlotsAccounted'
  <2>1. PICK c \in NextId : phase' = [phase EXCEPT ![c] = "forked"]
    BY <1>1 DEF ForkCreation
  <2>2. c \in Runtimes /\ phase[c] = "gone"
    BY DEF NextId, Free
  <2>3. SlotHolders' = SlotHolders \cup {c} /\ c \notin SlotHolders
    BY <2>1, <2>2 DEF SlotHolders
  <2>4. Cardinality(SlotHolders \cup {c}) = Cardinality(SlotHolders) + 1
    BY <2>3, SlotsFinite, FS_AddElement
  <2>5. occupied' = occupied + 1 /\ occupied < MaxRuntimes
    BY <1>1 DEF ForkCreation
  <2> QED BY <2>3, <2>4, <2>5, SlotsFinite, PoolAssumption DEF SlotsAccounted
<1>2. ASSUME NEW a \in Asks, ForkEvicting(a) PROVE SlotsAccounted'
  <2>1. PICK c \in NextId, old \in IdleEntries :
          phase' = [phase EXCEPT ![c] = "forked", ![old] = "evicted"]
    BY <1>2 DEF ForkEvicting
  <2>2. c \in Runtimes /\ phase[c] = "gone"
    BY DEF NextId, Free
  <2>3. old \in Runtimes /\ phase[old] = "ready"
    BY PoolAssumption DEF IdleEntries, MapsAgree
  <2>4. SlotHolders' = (SlotHolders \ {old}) \cup {c}
    BY <2>1, <2>2, <2>3 DEF SlotHolders
  <2>5. c \notin SlotHolders \ {old} /\ old \in SlotHolders
    BY <2>2, <2>3 DEF SlotHolders
  <2>6. /\ IsFiniteSet(SlotHolders \ {old})
        /\ Cardinality(SlotHolders \ {old}) = Cardinality(SlotHolders) - 1
    BY <2>5, SlotsFinite, FS_RemoveElement
  <2>7. Cardinality(SlotHolders') = Cardinality(SlotHolders \ {old}) + 1
    BY <2>4, <2>5, <2>6, FS_AddElement
  <2>8. UNCHANGED occupied
    BY <1>2 DEF ForkEvicting
  <2> QED BY <2>6, <2>7, <2>8, SlotsFinite DEF SlotsAccounted
<1>3. ASSUME NEW a \in Asks, BuryDead(a) \/ EvictDead(a) PROVE SlotsAccounted'
  <2>0. pc[a] \in {"queued", "prompt"} /\ entries[want[a]] = at[a]
    BY <1>3 DEF BuryDead, EvictDead, Dequeue
  <2>1. at[a] \in Runtimes /\ phase[at[a]] = "ready"
    <3>1. want[a] \in Sessions /\ at[a] \in Runtimes
      BY <2>0 DEF Shape, TypeOK
    <3> QED BY <2>0, <3>1, PoolAssumption DEF MapsAgree
  <2>2. phase' = [phase EXCEPT ![at[a]] = "disposing"] /\ UNCHANGED occupied
    BY <1>3 DEF BuryDead, EvictDead, Retire
  <2> QED BY <2>1, <2>2, SlotKept
<1>4. ASSUME NEW r \in Runtimes, DisposeVictim(r) PROVE SlotsAccounted'
  <2>1. victim[r] \in Runtimes
    BY <1>4 DEF DisposeVictim, TypeOK
  <2>2. phase[victim[r]] = "evicted"
    BY <1>4, <2>1 DEF DisposeVictim, MapsAgree
  <2>3. phase' = [phase EXCEPT ![victim[r]] = "gone"] /\ UNCHANGED occupied
    BY <1>4 DEF DisposeVictim, mapVars
  <2> QED BY <2>1, <2>2, <2>3, SlotKept
<1>5. ASSUME NEW r \in Runtimes,
             CreateSession(r) \/ Commit(r) \/ RefuseLate(r) \/ RetirementAborts(r)
      PROVE  SlotsAccounted'
  <2>1. /\ phase[r] \in {"forked", "started", "aborting"}
        /\ UNCHANGED occupied
        /\ \E p \in {"started", "ready", "late", "disposing"} : phase' = [phase EXCEPT ![r] = p]
    BY <1>5 DEF CreateSession, Commit, RefuseLate, RetirementAborts, mapVars
  <2> QED BY <2>1, SlotKept
<1>6. ASSUME NEW r \in Runtimes, CreateSessionFails(r) \/ DisposeLate(r)
      PROVE  SlotsAccounted'
  BY <1>6, SlotGivenBack DEF CreateSessionFails, DisposeLate, Abandon
<1>7. ASSUME NEW r \in Runtimes, RetirementDisposes(r) \/ RetirementFails(r)
      PROVE  SlotsAccounted'
  BY <1>7, SlotGivenBack DEF RetirementDisposes, RetirementFails, RetirementEnds
<1>8. ASSUME NEW r \in Runtimes, SweepIdle(r) PROVE SlotsAccounted'
  <2>1. phase[r] = "ready"
    BY <1>8, PoolAssumption DEF SweepIdle, IdleEntries, MapsAgree
  <2>2. phase' = [phase EXCEPT ![r] = "disposing"] /\ UNCHANGED occupied
    BY <1>8 DEF SweepIdle, Retire
  <2> QED BY <2>1, <2>2, SlotKept
<1>9. CASE RetireEntries
  <2>1. \A r \in Runtimes : \/ phase'[r] = phase[r]
                            \/ phase[r] = "ready" /\ phase'[r] \in RetiringPhases
    BY <1>9, PoolAssumption DEF RetireEntries, MapsAgree, TypeOK
  <2>2. UNCHANGED occupied
    BY <1>9 DEF RetireEntries
  <2> QED BY <2>1, <2>2, SlotKept
<1> QED BY <1>0, <1>1, <1>2, <1>3, <1>4, <1>5, <1>6, <1>7, <1>8, <1>9 DEF EntryStep

-----------------------------------------------------------------------------
(* A step that moves no ask into or out of a queue.                        *)
QueuesKept ==
  /\ UNCHANGED waiting
  /\ \A b \in Asks : /\ pc'[b] = "queued" <=> pc[b] = "queued"
                     /\ pc[b] = "queued" => at'[b] = at[b]

(* It leaves every counter right.                                          *)
LEMMA QueueKept ==
  ASSUME QueueCounted, PlacesBounded, QueuesKept
  PROVE  QueueCounted' /\ PlacesBounded'
<1>1. ASSUME NEW r \in Runtimes PROVE Queued(r)' = Queued(r)
  BY DEF Queued, QueuesKept
<1> QED BY <1>1 DEF QueueCounted, PlacesBounded, QueuesKept

(* An ask that takes a place is counted, and takes it below the bound.     *)
LEMMA QueueJoined ==
  ASSUME TypeOK, QueueCounted, PlacesBounded, NEW a \in Asks, NEW r \in Runtimes,
         pc[a] # "queued", Reserve(a, r)
  PROVE  QueueCounted' /\ PlacesBounded'
<1>1. CASE waiting[r] >= QueueCapacity
  <2>1. QueuesKept
    BY <1>1 DEF Reserve, Settle, QueuesKept, TypeOK
  <2> QED BY <2>1, QueueKept
<1>2. CASE ~(waiting[r] >= QueueCapacity)
  <2>1. /\ Goto(a, "queued", r) /\ waiting' = [waiting EXCEPT ![r] = @ + 1]
    BY <1>2 DEF Reserve
  <2>2. Queued(r)' = Queued(r) \cup {a} /\ a \notin Queued(r)
    BY <2>1 DEF Queued, Goto, TypeOK
  <2>3. Cardinality(Queued(r)') = Cardinality(Queued(r)) + 1
    BY <2>2, QueueFinite, FS_AddElement
  <2>4. ASSUME NEW q \in Runtimes \ {r} PROVE Queued(q)' = Queued(q)
    BY <2>1 DEF Queued, Goto, TypeOK
  <2>5. \A q \in Runtimes : waiting'[q] = IF q = r THEN waiting[q] + 1 ELSE waiting[q]
    BY <2>1 DEF TypeOK
  <2>6. QueueCounted'
    BY <2>3, <2>4, <2>5 DEF QueueCounted
  <2>7. PlacesBounded'
    BY <2>5, <1>2, PoolAssumption DEF PlacesBounded, TypeOK
  <2> QED BY <2>6, <2>7
<1> QED BY <1>1, <1>2

(* An ask that leaves the queue gives its place back.                      *)
LEMMA QueueLeft ==
  ASSUME TypeOK, Shape, QueueCounted, PlacesBounded, NEW a \in Asks, pc[a] = "queued",
         pc'[a] # "queued", \A b \in Asks \ {a} : pc'[b] = pc[b] /\ at'[b] = at[b],
         waiting' = [waiting EXCEPT ![at[a]] = @ - 1]
  PROVE  QueueCounted' /\ PlacesBounded'
<1>1. PICK r \in Runtimes : r = at[a]
  BY QueuedIsCounted
<1>2. Queued(r)' = Queued(r) \ {a} /\ a \in Queued(r)
  BY <1>1 DEF Queued
<1>3. Cardinality(Queued(r)') = Cardinality(Queued(r)) - 1
  BY <1>2, QueueFinite, FS_RemoveElement
<1>4. ASSUME NEW q \in Runtimes \ {r} PROVE Queued(q)' = Queued(q)
  BY <1>1 DEF Queued
<1>5. \A q \in Runtimes : waiting'[q] = IF q = r THEN waiting[q] - 1 ELSE waiting[q]
  BY <1>1 DEF TypeOK
<1>6. QueueCounted'
  BY <1>3, <1>4, <1>5 DEF QueueCounted
<1>7. PlacesBounded'
  BY <1>5, PoolAssumption DEF PlacesBounded, TypeOK
<1> QED BY <1>6, <1>7

(* Every step keeps entry.waiting equal to the number of asks that wait.   *)
LEMMA QueueStep ==
  ASSUME IInv, [Next]_vars
  PROVE  QueueCounted' /\ PlacesBounded'
<1> TypeOK /\ Shape /\ MapsAgree /\ QueueCounted /\ PlacesBounded BY DEF IInv
<1> pc \in [Asks -> AskPcs] /\ at \in [Asks -> Runtimes \cup {None}] BY DEF TypeOK
<1> SUFFICES QueuesKept \/ (QueueCounted' /\ PlacesBounded') BY QueueKept
<1> USE DEF QueuesKept, askVars, runtimeVars
<1>1. ASSUME NEW a \in Asks, AskStep(a) PROVE QueuesKept \/ (QueueCounted' /\ PlacesBounded')
  <2>1. CASE UseEntry(a)
    <3>1. entries[want[a]] \in Runtimes
      BY <2>1 DEF UseEntry, Shape, TypeOK
    <3> QED BY <2>1, <3>1, QueueJoined DEF UseEntry
  <2>2. CASE JoinSucceeds(a)
    <3>1. at[a] \in Runtimes /\ pc[a] = "joining"
      BY <2>2 DEF JoinSucceeds, Shape
    <3>2. Reserve(a, at[a]) \/ (Goto(a, "entry", None) /\ UNCHANGED waiting)
      BY <2>2 DEF JoinSucceeds
    <3>3. Goto(a, "entry", None) /\ UNCHANGED waiting => QueuesKept
      BY <3>1 DEF Goto
    <3> QED BY <3>1, <3>2, <3>3, QueueJoined
  <2>3. CASE RetryRemoved(a) \/ BuryDead(a) \/ StartTurn(a)
    <3>1. pc[a] = "queued" /\ waiting' = [waiting EXCEPT ![at[a]] = @ - 1]
      BY <2>3 DEF RetryRemoved, BuryDead, StartTurn, Dequeue
    <3>2. pc'[a] # "queued" /\ \A b \in Asks \ {a} : pc'[b] = pc[b] /\ at'[b] = at[b]
      BY <2>3 DEF RetryRemoved, BuryDead, StartTurn, Goto
    <3> QED BY <3>1, <3>2, QueueLeft
  <2>4. CASE Interrupt(a)
    <3>1. CASE pc[a] = "queued"
      <4>1. pc'[a] # "queued" /\ \A b \in Asks \ {a} : pc'[b] = pc[b] /\ at'[b] = at[b]
        BY <2>4, <3>1 DEF Interrupt, Settle
      <4>2. waiting' = [waiting EXCEPT ![at[a]] = @ - 1]
        BY <2>4, <3>1 DEF Interrupt
      <4> QED BY <3>1, <4>1, <4>2, QueueLeft
    <3>2. CASE pc[a] # "queued"
      BY <2>4, <3>2 DEF Interrupt, Settle, Goto
    <3> QED BY <3>1, <3>2
  <2>5. CASE \/ RefuseDisposed(a) \/ JoinCreation(a) \/ RefuseBusy(a)
            \/ \E s \in Sessions : Answer(a, s)
    BY <2>5 DEF RefuseDisposed, JoinCreation, RefuseBusy, NeedsCreation, Answer, Settle, Goto
  <2>6. CASE ForkCreation(a) \/ ForkEvicting(a)
    BY <2>6 DEF ForkCreation, ForkEvicting, NeedsCreation, Fork, Goto
  <2>7. CASE Buried(a) \/ EvictDead(a)
    BY <2>7 DEF Buried, EvictDead, Settle, Goto
  <2>8. CASE TurnEnds(a) \/ TurnLoses(a) \/ Evicted(a) \/ AbortSettles(a) \/ AbortFails(a)
    BY <2>8 DEF TurnEnds, TurnLoses, Evicted, AbortSettles, AbortFails, EndTurn, Settle
  <2> QED BY <1>1, <2>1, <2>2, <2>3, <2>4, <2>5, <2>6, <2>7, <2>8 DEF AskStep
<1>2. ASSUME NEW r \in Runtimes, RuntimeStep(r)
      PROVE  QueuesKept \/ (QueueCounted' /\ PlacesBounded')
  <2>1. CASE Commit(r)
    <3>1. UNCHANGED <<pc, at>> /\ waiting' = [waiting EXCEPT ![r] = 0]
      BY <2>1 DEF Commit
    <3>2. Queued(r) = {}
      BY <2>1 DEF Commit, Queued, Shape, CreationPhases
    <3>3. \A q \in Runtimes : Queued(q)' = Queued(q)
      BY <3>1 DEF Queued
    <3>4. \A q \in Runtimes : waiting'[q] = IF q = r THEN 0 ELSE waiting[q]
      BY <3>1 DEF TypeOK
    <3>5. QueueCounted'
      BY <3>2, <3>3, <3>4, FS_EmptySet DEF QueueCounted
    <3>6. PlacesBounded'
      BY <3>4, PoolAssumption DEF PlacesBounded
    <3> QED BY <3>5, <3>6
  <2>2. CASE CreateSessionFails(r) \/ DisposeLate(r)
    BY <2>2 DEF CreateSessionFails, DisposeLate, Abandon, Joiners
  <2>3. CASE ~(Commit(r) \/ CreateSessionFails(r) \/ DisposeLate(r))
    BY <1>2, <2>3 DEF RuntimeStep, DisposeVictim, CreateSession, RefuseLate, RetirementAborts,
       RetirementDisposes, RetirementFails, ProcessExits, SweepIdle
  <2> QED BY <2>1, <2>2, <2>3
<1>3. CASE OwnerStep
  BY <1>3 DEF OwnerStep, SweepNext, DisposeScope, DisposePool, BeginDisposal, RetireEntries,
     CreationsTimeOut, ScopeDisposed, DrainRetirements, PoolDisposed, DisposalInterrupted
<1>4. CASE UNCHANGED vars
  BY <1>4 DEF vars
<1> QED BY <1>1, <1>2, <1>3, <1>4 DEF Next

-----------------------------------------------------------------------------
(* A step that begins or ends no turn.                                     *)
TurnsKept ==
  /\ UNCHANGED busy
  /\ \A b \in Asks : /\ pc'[b] \in GatePcs => pc[b] \in GatePcs /\ at'[b] = at[b]
                     /\ pc'[b] \in TurnPcs <=> pc[b] \in TurnPcs

(* It leaves turnGate and every busy flag right.                           *)
LEMMA TurnKept ==
  ASSUME OneTurn, BusyInTurn, TurnsKept
  PROVE  OneTurn' /\ BusyInTurn'
<1>1. OneTurn'
  BY DEF OneTurn, TurnsKept
<1>2. ASSUME NEW r \in Runtimes
      PROVE  busy'[r] <=> \E a \in Asks : at'[a] = r /\ pc'[a] \in TurnPcs
  <2>1. \A a \in Asks : (at'[a] = r /\ pc'[a] \in TurnPcs) <=> (at[a] = r /\ pc[a] \in TurnPcs)
    BY DEF TurnsKept, GatePcs
  <2> QED BY <2>1 DEF BusyInTurn, TurnsKept
<1> QED BY <1>1, <1>2 DEF BusyInTurn

(* A turn that ends leaves its entry without one, since it had only one.   *)
LEMMA TurnEnded ==
  ASSUME TypeOK, OneTurn, BusyInTurn, NEW a \in Asks, pc[a] \in TurnPcs, EndTurn(a)
  PROVE  OneTurn' /\ BusyInTurn'
<1>1. /\ pc' = [pc EXCEPT ![a] = "idle"] /\ at' = [at EXCEPT ![a] = None]
      /\ busy' = [busy EXCEPT ![at[a]] = FALSE]
  BY DEF EndTurn, Settle
<1>2. \A b \in Asks : /\ pc'[b] = IF b = a THEN "idle" ELSE pc[b]
                      /\ at'[b] = IF b = a THEN None ELSE at[b]
  BY <1>1 DEF TypeOK
<1>3. OneTurn'
  BY <1>2 DEF OneTurn, GatePcs, TurnPcs
<1>4. ASSUME NEW r \in Runtimes
      PROVE  busy'[r] <=> \E b \in Asks : at'[b] = r /\ pc'[b] \in TurnPcs
  <2>1. CASE r = at[a]
    <3>1. busy'[r] = FALSE
      BY <1>1, <2>1 DEF TypeOK
    <3>2. ~\E b \in Asks : at'[b] = r /\ pc'[b] \in TurnPcs
      BY <1>2, <2>1 DEF OneTurn, GatePcs, TurnPcs
    <3> QED BY <3>1, <3>2
  <2>2. CASE r # at[a]
    <3>1. busy'[r] = busy[r]
      BY <1>1, <2>2 DEF TypeOK
    <3>2. \A b \in Asks : (at'[b] = r /\ pc'[b] \in TurnPcs) <=> (at[b] = r /\ pc[b] \in TurnPcs)
      BY <1>2, <2>2, PoolAssumption DEF TurnPcs
    <3> QED BY <3>1, <3>2 DEF BusyInTurn
  <2> QED BY <2>1, <2>2
<1> QED BY <1>3, <1>4 DEF BusyInTurn

(* Every step keeps at most one turn at an entry, and busy while it lasts. *)
LEMMA TurnStep ==
  ASSUME IInv, [Next]_vars
  PROVE  OneTurn' /\ BusyInTurn'
<1> TypeOK /\ Shape /\ MapsAgree /\ OneTurn /\ BusyInTurn BY DEF IInv
<1> pc \in [Asks -> AskPcs] /\ at \in [Asks -> Runtimes \cup {None}] BY DEF TypeOK
<1> SUFFICES TurnsKept \/ (OneTurn' /\ BusyInTurn') BY TurnKept
<1> USE DEF TurnsKept, askVars, runtimeVars, GatePcs, TurnPcs
<1>1. ASSUME NEW a \in Asks, AskStep(a) PROVE TurnsKept \/ (OneTurn' /\ BusyInTurn')
  <2>1. CASE UseEntry(a)
    BY <2>1 DEF UseEntry, Reserve, Settle, Goto
  <2>2. CASE JoinSucceeds(a)
    BY <2>2 DEF JoinSucceeds, Reserve, Settle, Goto
  <2>3. CASE RetryRemoved(a)
    BY <2>3 DEF RetryRemoved, Dequeue, Goto
  <2>4. CASE BuryDead(a)
    <3>1. pc' = [pc EXCEPT ![a] = "burying"] /\ at' = [at EXCEPT ![a] = at[a]] /\ UNCHANGED busy
      BY <2>4 DEF BuryDead, Goto
    <3>2. pc[a] = "queued" /\ TurnGateFree(at[a])
      BY <2>4 DEF BuryDead, Dequeue
    <3>3. \A b \in Asks : pc'[b] = (IF b = a THEN "burying" ELSE pc[b]) /\ at'[b] = at[b]
      BY <3>1
    <3>4. OneTurn'
      BY <3>2, <3>3 DEF OneTurn, TurnGateFree
    <3>5. \A b \in Asks : (at'[b] = at[b]) /\ (pc'[b] \in TurnPcs <=> pc[b] \in TurnPcs)
      BY <3>2, <3>3
    <3>6. BusyInTurn'
      BY <3>1, <3>5 DEF BusyInTurn
    <3> QED BY <3>4, <3>6
  <2>5. CASE StartTurn(a)
    <3>1. /\ pc' = [pc EXCEPT ![a] = "prompt"] /\ at' = at
          /\ busy' = [busy EXCEPT ![at[a]] = TRUE]
      BY <2>5 DEF StartTurn
    <3>2. pc[a] = "queued" /\ TurnGateFree(at[a])
      BY <2>5 DEF StartTurn, Dequeue
    <3>3. \A b \in Asks : pc'[b] = IF b = a THEN "prompt" ELSE pc[b]
      BY <3>1
    <3>4. OneTurn'
      BY <3>1, <3>2, <3>3 DEF OneTurn, TurnGateFree
    <3>5. ASSUME NEW r \in Runtimes
          PROVE  busy'[r] <=> \E b \in Asks : at'[b] = r /\ pc'[b] \in TurnPcs
      <4>1. CASE r = at[a]
        BY <3>1, <3>3, <4>1 DEF TypeOK
      <4>2. CASE r # at[a]
        <5>1. busy'[r] = busy[r]
          BY <3>1, <4>2 DEF TypeOK
        <5>2. \A b \in Asks : (at'[b] = r /\ pc'[b] \in TurnPcs) <=> (at[b] = r /\ pc[b] \in TurnPcs)
          BY <3>1, <3>3, <4>2
        <5> QED BY <5>1, <5>2 DEF BusyInTurn
      <4> QED BY <4>1, <4>2
    <3> QED BY <3>4, <3>5 DEF BusyInTurn
  <2>6. CASE Interrupt(a)
    BY <2>6 DEF Interrupt, Settle, Goto
  <2>7. CASE \/ RefuseDisposed(a) \/ JoinCreation(a) \/ RefuseBusy(a)
            \/ \E s \in Sessions : Answer(a, s)
    BY <2>7 DEF RefuseDisposed, JoinCreation, RefuseBusy, NeedsCreation, Answer, Settle, Goto
  <2>8. CASE ForkCreation(a) \/ ForkEvicting(a)
    BY <2>8 DEF ForkCreation, ForkEvicting, NeedsCreation, Fork, Goto
  <2>9. CASE Buried(a) \/ EvictDead(a)
    BY <2>9 DEF Buried, EvictDead, Settle, Goto
  <2>10. CASE TurnEnds(a) \/ TurnLoses(a) \/ Evicted(a) \/ AbortSettles(a) \/ AbortFails(a)
    <3>1. pc[a] \in TurnPcs /\ EndTurn(a)
      BY <2>10 DEF TurnEnds, TurnLoses, Evicted, AbortSettles, AbortFails
    <3> QED BY <3>1, TurnEnded
  <2> QED BY <1>1, <2>1, <2>2, <2>3, <2>4, <2>5, <2>6, <2>7, <2>8, <2>9, <2>10 DEF AskStep
<1>2. ASSUME NEW r \in Runtimes, RuntimeStep(r)
      PROVE  TurnsKept \/ (OneTurn' /\ BusyInTurn')
  <2>1. CASE Commit(r)
    <3>1. UNCHANGED <<pc, at>> /\ busy' = [busy EXCEPT ![r] = FALSE]
      BY <2>1 DEF Commit
    <3>2. ~\E a \in Asks : at[a] = r /\ pc[a] \in TurnPcs
      BY <2>1 DEF Commit, Shape, CreationPhases
    <3>3. \A q \in Runtimes : busy'[q] = IF q = r THEN FALSE ELSE busy[q]
      BY <3>1 DEF TypeOK
    <3>4. BusyInTurn'
      BY <3>1, <3>2, <3>3 DEF BusyInTurn
    <3>5. OneTurn'
      BY <3>1 DEF OneTurn
    <3> QED BY <3>4, <3>5
  <2>2. CASE CreateSessionFails(r) \/ DisposeLate(r)
    BY <2>2 DEF CreateSessionFails, DisposeLate, Abandon, Joiners
  <2>3. CASE ~(Commit(r) \/ CreateSessionFails(r) \/ DisposeLate(r))
    BY <1>2, <2>3 DEF RuntimeStep, DisposeVictim, CreateSession, RefuseLate, RetirementAborts,
       RetirementDisposes, RetirementFails, ProcessExits, SweepIdle
  <2> QED BY <2>1, <2>2, <2>3
<1>3. CASE OwnerStep
  BY <1>3 DEF OwnerStep, SweepNext, DisposeScope, DisposePool, BeginDisposal, RetireEntries,
     CreationsTimeOut, ScopeDisposed, DrainRetirements, PoolDisposed, DisposalInterrupted
<1>4. CASE UNCHANGED vars
  BY <1>4 DEF vars
<1> QED BY <1>1, <1>2, <1>3, <1>4 DEF Next

-----------------------------------------------------------------------------
(* A question is given to a backend exactly while its ask has the turn.    *)
LEMMA PromptStep ==
  ASSUME IInv, [Next]_vars
  PROVE  PromptedInTurn'
<1> TypeOK /\ PromptedInTurn BY DEF IInv
<1> /\ pc \in [Asks -> AskPcs] /\ at \in [Asks -> Runtimes \cup {None}]
    /\ prompts \in [Asks -> Nat]
  BY DEF TypeOK
<1> USE DEF PromptedInTurn, askVars, TurnPcs
<1>1. ASSUME NEW a \in Asks, AskStep(a) PROVE PromptedInTurn'
  <2>1. CASE StartTurn(a)
    <3>1. /\ pc' = [pc EXCEPT ![a] = "prompt"] /\ prompts' = [prompts EXCEPT ![a] = @ + 1]
          /\ prompts[a] = 0
      BY <2>1 DEF StartTurn, Dequeue
    <3> QED BY <3>1
  <2>2. CASE UseEntry(a) \/ JoinSucceeds(a)
    BY <2>2 DEF UseEntry, JoinSucceeds, Reserve, Settle, Goto
  <2>3. CASE RetryRemoved(a) \/ BuryDead(a) \/ Buried(a) \/ EvictDead(a)
    BY <2>3 DEF RetryRemoved, BuryDead, Buried, EvictDead, Dequeue, Settle, Goto
  <2>4. CASE Interrupt(a)
    BY <2>4 DEF Interrupt, Settle, Goto
  <2>5. CASE \/ RefuseDisposed(a) \/ JoinCreation(a) \/ RefuseBusy(a)
            \/ \E s \in Sessions : Answer(a, s)
    BY <2>5 DEF RefuseDisposed, JoinCreation, RefuseBusy, NeedsCreation, Answer, Settle, Goto
  <2>6. CASE ForkCreation(a) \/ ForkEvicting(a)
    BY <2>6 DEF ForkCreation, ForkEvicting, NeedsCreation, Fork, Goto
  <2>7. CASE TurnEnds(a) \/ TurnLoses(a) \/ Evicted(a) \/ AbortSettles(a) \/ AbortFails(a)
    BY <2>7 DEF TurnEnds, TurnLoses, Evicted, AbortSettles, AbortFails, EndTurn, Settle
  <2> QED BY <1>1, <2>1, <2>2, <2>3, <2>4, <2>5, <2>6, <2>7 DEF AskStep
<1>2. ASSUME NEW r \in Runtimes, RuntimeStep(r) PROVE PromptedInTurn'
  <2>1. CASE CreateSessionFails(r) \/ DisposeLate(r)
    BY <2>1 DEF CreateSessionFails, DisposeLate, Abandon, Joiners
  <2>2. CASE ~(CreateSessionFails(r) \/ DisposeLate(r))
    BY <1>2, <2>2 DEF RuntimeStep, DisposeVictim, CreateSession, Commit, RefuseLate,
       RetirementAborts, RetirementDisposes, RetirementFails, ProcessExits, SweepIdle
  <2> QED BY <2>1, <2>2
<1>3. CASE OwnerStep
  BY <1>3 DEF OwnerStep, SweepNext, DisposeScope, DisposePool, BeginDisposal, RetireEntries,
     CreationsTimeOut, ScopeDisposed, DrainRetirements, PoolDisposed, DisposalInterrupted
<1>4. CASE UNCHANGED vars
  BY <1>4 DEF vars
<1> QED BY <1>1, <1>2, <1>3, <1>4 DEF Next

-----------------------------------------------------------------------------
(* Only three kinds of step are the last of a creation or of an entry, and *)
(* each of them ends the backend or reports the failure to.                *)
LEMMA BackendStep ==
  ASSUME IInv, [Next]_vars
  PROVE  BackendsOwned'
<1> TypeOK /\ MapsAgree /\ BackendsOwned BY DEF IInv
<1> phase \in [Runtimes -> Phases] /\ proc \in [Runtimes -> {"none", "up", "dead", "lost"}]
  BY DEF TypeOK
<1> USE DEF BackendsOwned, RetiringPhases, runtimeVars, ownerVars
<1>1. ASSUME NEW a \in Asks, AskStep(a) PROVE BackendsOwned'
  <2>1. CASE ForkCreation(a)
    BY <2>1 DEF ForkCreation, Fork, NextId, Free
  <2>2. CASE ForkEvicting(a)
    <3>1. PICK c \in NextId, old \in IdleEntries :
            /\ Fork(a, c, old)
            /\ phase' = [phase EXCEPT ![c] = "forked", ![old] = "evicted"]
      BY <2>2 DEF ForkEvicting
    <3>2. proc' = [proc EXCEPT ![c] = "none"] /\ UNCHANGED fatal
      BY <3>1 DEF Fork
    <3> QED BY <3>1, <3>2 DEF NextId, Free, IdleEntries
  <2>3. CASE BuryDead(a) \/ EvictDead(a)
    BY <2>3 DEF BuryDead, EvictDead, Retire
  <2>4. CASE AbortFails(a)
    BY <2>4 DEF AbortFails
  <2>5. CASE ~(ForkCreation(a) \/ ForkEvicting(a) \/ BuryDead(a) \/ EvictDead(a) \/ AbortFails(a))
    BY <1>1, <2>5 DEF AskStep, Answer, RefuseDisposed, UseEntry, JoinCreation, RefuseBusy,
       JoinSucceeds, RetryRemoved, StartTurn, Buried, TurnEnds, TurnLoses, Evicted, Interrupt,
       AbortSettles
  <2> QED BY <2>1, <2>2, <2>3, <2>4, <2>5
<1>2. ASSUME NEW r \in Runtimes, RuntimeStep(r) PROVE BackendsOwned'
  <2>1. CASE DisposeVictim(r)
    BY <2>1 DEF DisposeVictim
  <2>2. CASE CreateSession(r)
    BY <2>2 DEF CreateSession
  <2>3. CASE CreateSessionFails(r) \/ DisposeLate(r)
    BY <2>3 DEF CreateSessionFails, DisposeLate, Abandon
  <2>4. CASE Commit(r) \/ RefuseLate(r) \/ RetirementAborts(r) \/ SweepIdle(r)
    BY <2>4 DEF Commit, RefuseLate, RetirementAborts, SweepIdle, Retire
  <2>5. CASE RetirementDisposes(r) \/ RetirementFails(r)
    BY <2>5 DEF RetirementDisposes, RetirementFails, RetirementEnds
  <2>6. CASE ProcessExits(r)
    BY <2>6 DEF ProcessExits
  <2> QED BY <1>2, <2>1, <2>2, <2>3, <2>4, <2>5, <2>6 DEF RuntimeStep
<1>3. CASE OwnerStep
  BY <1>3 DEF OwnerStep, SweepNext, DisposeScope, DisposePool, BeginDisposal, RetireEntries,
     CreationsTimeOut, ScopeDisposed, DrainRetirements, PoolDisposed, DisposalInterrupted
<1>4. CASE UNCHANGED vars
  BY <1>4 DEF vars
<1> QED BY <1>1, <1>2, <1>3, <1>4 DEF Next

-----------------------------------------------------------------------------
(* Once dispose has begun no entry or creation appears that it would miss. *)
LEMMA ClosingStep ==
  ASSUME IInv, [Next]_vars
  PROVE  Closing'
<1> TypeOK /\ Shape /\ MapsAgree /\ Closing BY DEF IInv
<1> phase \in [Runtimes -> Phases] /\ entries \in [Sessions -> Runtimes \cup {None}]
  BY DEF TypeOK
<1> USE DEF Closing, CreationPhases, RetiringPhases, ownerVars
<1>1. ASSUME NEW a \in Asks, AskStep(a) PROVE Closing'
  <2>1. CASE ForkCreation(a) \/ ForkEvicting(a)
    BY <2>1 DEF ForkCreation, ForkEvicting, NeedsCreation, Fork
  <2>2. CASE BuryDead(a) \/ EvictDead(a)
    <3>1. /\ phase' = [phase EXCEPT ![at[a]] = "disposing"]
          /\ entries' = [entries EXCEPT ![home[at[a]]] = None]
          /\ UNCHANGED <<disposed, disposal>>
      BY <2>2 DEF BuryDead, EvictDead, Retire, Remove
    <3>2. pc[a] \in {"queued", "prompt"} /\ entries[want[a]] = at[a]
      BY <2>2 DEF BuryDead, EvictDead, Dequeue
    <3>3. want[a] \in Sessions /\ at[a] # None
      BY <3>2 DEF Shape
    <3> QED BY <3>1, <3>2, <3>3
  <2>3. CASE ~(ForkCreation(a) \/ ForkEvicting(a) \/ BuryDead(a) \/ EvictDead(a))
    <3>1. UNCHANGED <<phase, entries, disposed, disposal>>
      BY <1>1, <2>3 DEF AskStep, Answer, RefuseDisposed, UseEntry, JoinCreation, RefuseBusy,
         JoinSucceeds, RetryRemoved, StartTurn, Buried, TurnEnds, TurnLoses, Evicted, Interrupt,
         AbortSettles, AbortFails, mapVars, runtimeVars
    <3> QED BY <3>1
  <2> QED BY <2>1, <2>2, <2>3
<1>2. ASSUME NEW r \in Runtimes, RuntimeStep(r) PROVE Closing'
  <2>1. CASE DisposeVictim(r)
    BY <2>1 DEF DisposeVictim, mapVars
  <2>2. CASE CreateSession(r) \/ RefuseLate(r)
    BY <2>2 DEF CreateSession, RefuseLate, mapVars
  <2>3. CASE CreateSessionFails(r) \/ DisposeLate(r)
    BY <2>3 DEF CreateSessionFails, DisposeLate, Abandon
  <2>4. CASE Commit(r)
    BY <2>4 DEF Commit, Accepted
  <2>5. CASE RetirementAborts(r) \/ RetirementDisposes(r) \/ RetirementFails(r)
    BY <2>5 DEF RetirementAborts, RetirementDisposes, RetirementFails, RetirementEnds, mapVars
  <2>6. CASE ProcessExits(r)
    BY <2>6 DEF ProcessExits, mapVars
  <2>7. CASE SweepIdle(r)
    BY <2>7 DEF SweepIdle
  <2> QED BY <1>2, <2>1, <2>2, <2>3, <2>4, <2>5, <2>6, <2>7 DEF RuntimeStep
<1>3. CASE OwnerStep
  <2> disposal \in [stage : Stages, scope : SUBSET Sessions, all : BOOLEAN,
                    fibers : SUBSET Runtimes]
    BY DEF TypeOK
  <2> USE DEF runtimeVars, mapVars, NoDisposal
  <2>1. CASE SweepNext
    BY <2>1 DEF SweepNext
  <2>2. CASE \E scope \in Scopes : DisposeScope(scope)
    BY <2>2 DEF DisposeScope, BeginDisposal
  <2>3. CASE DisposePool
    <3>1. \A r \in Runtimes : phase[r] \in CreationPhases => r \in Matching(Sessions)
      BY DEF MapsAgree, Shape, Matching
    <3> QED BY <2>3, <3>1 DEF DisposePool, BeginDisposal
  <2>4. CASE RetireEntries
    <3>1. ASSUME disposal.all
          PROVE  /\ \A s \in Sessions : entries'[s] = None
                 /\ \A r \in Runtimes : phase[r] \notin CreationPhases
      BY <2>4, <3>1 DEF RetireEntries, CreationsSettled
    <3>2. \A r \in Runtimes : phase'[r] = phase[r] \/ phase'[r] \in RetiringPhases
      BY <2>4 DEF RetireEntries
    <3>3. disposal'.stage = "retire" /\ disposal'.all = disposal.all /\ UNCHANGED disposed
      BY <2>4 DEF RetireEntries
    <3> QED BY <3>1, <3>2, <3>3
  <2>5. CASE CreationsTimeOut
    BY <2>5 DEF CreationsTimeOut
  <2>6. CASE ScopeDisposed
    BY <2>6 DEF ScopeDisposed
  <2>7. CASE DrainRetirements
    BY <2>7 DEF DrainRetirements, Retired
  <2>8. CASE PoolDisposed
    BY <2>8 DEF PoolDisposed
  <2>9. CASE DisposalInterrupted
    BY <2>9 DEF DisposalInterrupted
  <2> QED BY <1>3, <2>1, <2>2, <2>3, <2>4, <2>5, <2>6, <2>7, <2>8, <2>9 DEF OwnerStep
<1>4. CASE UNCHANGED vars
  BY <1>4 DEF vars, mapVars, runtimeVars
<1> QED BY <1>1, <1>2, <1>3, <1>4 DEF Next

(* With no creation, no entry and no retirement left, nothing holds a slot *)
(* and nobody owns a backend.                                              *)
LEMMA ClosedHoldsNothing ==
  ASSUME IInv, disposal.stage = "closed"
  PROVE  /\ SlotHolders = {} /\ occupied = 0
         /\ \A s \in Sessions : entries[s] = None /\ creations[s] = None
         /\ \A r \in Runtimes : proc[r] = "up" => fatal
<1> TypeOK /\ Shape /\ MapsAgree /\ SlotsAccounted /\ BackendsOwned /\ Closing BY DEF IInv
<1>1. /\ \A r \in Runtimes : phase[r] \notin CreationPhases \cup RetiringPhases
      /\ \A s \in Sessions : entries[s] = None
  BY DEF Closing
<1>2. \A r \in Runtimes : phase[r] # "ready"
  BY <1>1, PoolAssumption DEF MapsAgree, Shape
<1>3. \A r \in Runtimes : phase[r] # "evicted"
  BY <1>1 DEF MapsAgree, CreationPhases
<1>4. SlotHolders = {}
  BY <1>1, <1>2 DEF SlotHolders, SlotPhases
<1>5. occupied = 0
  BY <1>4, FS_EmptySet DEF SlotsAccounted
<1>6. \A s \in Sessions : creations[s] = None
  BY <1>1 DEF MapsAgree, TypeOK
<1>7. \A r \in Runtimes : proc[r] = "up" => fatal
  BY <1>1, <1>2, <1>3 DEF BackendsOwned, CreationPhases
<1> QED BY <1>1, <1>4, <1>5, <1>6, <1>7

-----------------------------------------------------------------------------
(* An entry somebody waits for or uses is not idle: entry.busy and         *)
(* entry.waiting, all the LRU choice and the sweep look at, show it.       *)
LEMMA UsedIsNotIdle ==
  ASSUME IInv, NEW r \in Runtimes, InUse(r)
  PROVE  ~IsIdle(r)
<1> TypeOK /\ Shape /\ QueueCounted /\ BusyInTurn BY DEF IInv
<1>1. PICK a \in Asks : at[a] = r /\ pc[a] \in TurnPcs \cup {"queued"}
  BY DEF InUse
<1>2. CASE pc[a] = "queued"
  BY <1>1, <1>2, QueuedIsCounted DEF IsIdle
<1>3. CASE pc[a] \in TurnPcs
  BY <1>1, <1>3 DEF IsIdle, BusyInTurn
<1> QED BY <1>1, <1>2, <1>3

(* A backend in use leaves the map aborted or not at all.                  *)
LEMMA UsedStep ==
  ASSUME IInv, [Next]_vars, NEW r \in Runtimes,
         phase[r] = "ready", InUse(r), proc[r] = "up"
  PROVE  phase'[r] \in {"ready", "aborting"}
<1> TypeOK /\ Shape /\ MapsAgree BY DEF IInv
<1> phase \in [Runtimes -> Phases] BY DEF TypeOK
<1> ~IsIdle(r) BY UsedIsNotIdle
<1>0. CASE ~EntryStep
  BY <1>0, OtherSteps DEF entryVars
<1>1. ASSUME NEW a \in Asks, ForkCreation(a) \/ ForkEvicting(a)
      PROVE  phase'[r] \in {"ready", "aborting"}
  BY <1>1 DEF ForkCreation, ForkEvicting, NextId, Free, IdleEntries
<1>2. ASSUME NEW a \in Asks, BuryDead(a) \/ EvictDead(a)
      PROVE  phase'[r] \in {"ready", "aborting"}
  BY <1>2 DEF BuryDead, EvictDead, Retire
<1>3. ASSUME NEW c \in Runtimes, DisposeVictim(c)
      PROVE  phase'[r] \in {"ready", "aborting"}
  <2>1. victim[c] \in Runtimes
    BY <1>3 DEF DisposeVictim, TypeOK
  <2>2. phase[victim[c]] = "evicted"
    BY <1>3, <2>1 DEF DisposeVictim, MapsAgree
  <2> QED BY <1>3, <2>2 DEF DisposeVictim
<1>4. ASSUME NEW c \in Runtimes,
             \/ CreateSession(c) \/ CreateSessionFails(c) \/ Commit(c) \/ RefuseLate(c)
             \/ DisposeLate(c) \/ RetirementAborts(c) \/ RetirementDisposes(c)
             \/ RetirementFails(c)
      PROVE  phase'[r] \in {"ready", "aborting"}
  BY <1>4 DEF CreateSession, CreateSessionFails, Commit, RefuseLate, DisposeLate, Abandon,
     RetirementAborts, RetirementDisposes, RetirementFails, RetirementEnds
<1>5. ASSUME NEW c \in Runtimes, SweepIdle(c)
      PROVE  phase'[r] \in {"ready", "aborting"}
  BY <1>5 DEF SweepIdle, IdleEntries, Retire
<1>6. CASE RetireEntries
  BY <1>6 DEF RetireEntries
<1> QED BY <1>0, <1>1, <1>2, <1>3, <1>4, <1>5, <1>6 DEF EntryStep

-----------------------------------------------------------------------------
(* The pool starts empty, with no ask.                                     *)
LEMMA Initially == Init => IInv
<1> SUFFICES ASSUME Init PROVE IInv
  OBVIOUS
<1> USE PoolAssumption DEF Init
<1>1. TypeOK
  <2>1. pc \in [Asks -> AskPcs] /\ prompts \in [Asks -> Nat]
    BY DEF AskPcs
  <2>2. phase \in [Runtimes -> Phases]
    BY DEF Phases
  <2>3. disposal \in [stage : Stages, scope : SUBSET Sessions, all : BOOLEAN,
                      fibers : SUBSET Runtimes]
    BY DEF NoDisposal, Stages
  <2>4. want \in [Asks -> Sessions \cup {None}] /\ at \in [Asks -> Runtimes \cup {None}]
    OBVIOUS
  <2>5. /\ home \in [Runtimes -> Sessions \cup {None}]
        /\ proc \in [Runtimes -> {"none", "up", "dead", "lost"}]
        /\ busy \in [Runtimes -> BOOLEAN]
        /\ waiting \in [Runtimes -> Nat]
        /\ retired \in [Runtimes -> BOOLEAN]
        /\ victim \in [Runtimes -> Runtimes \cup {None}]
    OBVIOUS
  <2>6. /\ entries \in [Sessions -> Runtimes \cup {None}]
        /\ creations \in [Sessions -> Runtimes \cup {None}]
        /\ occupied \in Int /\ sweeper \in Runtimes \cup {None}
    OBVIOUS
  <2>7. disposed \in BOOLEAN /\ fatal \in BOOLEAN
    BY Zenon
  <2> HIDE DEF Init
  <2> QED BY <2>1, <2>2, <2>3, <2>4, <2>5, <2>6, <2>7 DEF TypeOK
<1>2. Shape /\ MapsAgree
  BY DEF Shape, MapsAgree, GatePcs, TurnPcs, CreationPhases
<1>3. SlotsAccounted
  <2>1. SlotHolders = {}
    BY DEF SlotHolders, SlotPhases, CreationPhases, RetiringPhases
  <2> QED BY <2>1, FS_EmptySet DEF SlotsAccounted
<1>4. QueueCounted
  <2>1. \A r \in Runtimes : Queued(r) = {}
    BY DEF Queued
  <2> QED BY <2>1, FS_EmptySet DEF QueueCounted
<1>5. PlacesBounded /\ OneTurn /\ BusyInTurn
  BY DEF PlacesBounded, OneTurn, BusyInTurn, GatePcs, TurnPcs
<1>6. PromptedInTurn /\ BackendsOwned
  BY DEF PromptedInTurn, BackendsOwned, TurnPcs
<1>7. Closing
  BY DEF Closing, NoDisposal
<1> QED BY <1>1, <1>2, <1>3, <1>4, <1>5, <1>6, <1>7 DEF IInv

(* IInv holds in every reachable state.                                    *)
THEOREM Inductive == Spec => []IInv
<1>1. IInv /\ [Next]_vars => IInv'
  BY TypeStep, ShapeStep, MapsStep, SlotsStep, QueueStep, TurnStep, PromptStep,
     BackendStep, ClosingStep DEF IInv
<1> QED BY Initially, <1>1, PTL DEF Spec

(* Every variable of the pool stays in its type.                           *)
THEOREM TypeCorrect == Spec => []TypeOK
<1>1. IInv => TypeOK
  BY DEF IInv
<1> QED BY Inductive, <1>1, PTL

(* A pool of any size counts its slots exactly and keeps within them.      *)
THEOREM SlotsAlwaysAccounted == Spec => []SlotsAccounted
<1>1. IInv => SlotsAccounted
  BY DEF IInv
<1> QED BY Inductive, <1>1, PTL

(* The queue of every entry is counted exactly, stays within its capacity, *)
(* and an entry is busy exactly while an ask has its turn.                 *)
THEOREM QueueAlwaysAccounted == Spec => []QueueAccounted
<1>1. IInv => QueueAccounted
  BY DEF IInv, QueueAccounted, QueueCounted, Queued, PlacesBounded, BusyInTurn
<1> QED BY Inductive, <1>1, PTL

(* A session has one entry or one creation, and an evicted entry has one   *)
(* creation that will dispose of it.                                       *)
THEOREM MapsAlwaysAgree == Spec => []MapsAgree
<1>1. IInv => MapsAgree
  BY DEF IInv
<1> QED BY Inductive, <1>1, PTL

(* No sequence of retries gives one question to two backends, or twice to  *)
(* one.                                                                    *)
THEOREM PromptedAtMostOnce == Spec => []PromptedOnce
<1>1. IInv => PromptedOnce
  BY DEF IInv, PromptedInTurn, PromptedOnce
<1> QED BY Inductive, <1>1, PTL

(* A backend is never left without a fiber that will dispose of it, except *)
(* by the failure that stops the Node.                                     *)
THEOREM BackendsAlwaysOwned == Spec => []BackendsOwned
<1>1. IInv => BackendsOwned
  BY DEF IInv
<1> QED BY Inductive, <1>1, PTL

(* Neither the LRU eviction nor the idle sweep nor a disposal takes a live *)
(* backend from under an ask without aborting it first.                    *)
THEOREM UsedBackendsAborted == Spec => UsedBackendAborted
<1>1. IInv /\ [Next]_vars =>
        [\A r \in Runtimes :
           phase[r] = "ready" /\ InUse(r) /\ proc[r] = "up" =>
             phase'[r] \in {"ready", "aborting"}]_vars
  BY UsedStep
<1> QED BY Inductive, <1>1, PTL DEF Spec, UsedBackendAborted

(* A backend has a slot, its own or, while it is being evicted, that of    *)
(* the creation that waits for its end.                                    *)
LEMMA BackendsInSlots ==
  ASSUME IInv
  PROVE  BackendsBounded
<1> TypeOK /\ MapsAgree /\ SlotsAccounted /\ BackendsOwned BY DEF IInv
<1> SUFFICES ASSUME ~fatal PROVE Cardinality({r \in Runtimes : proc[r] # "none"}) <= MaxRuntimes
  BY DEF BackendsBounded
<1> DEFINE S == {r \in Runtimes : proc[r] # "none"}
           Heir(r) == CHOOSE c \in Runtimes : phase[c] = "forked" /\ victim[c] = r
           f == [r \in S |-> IF phase[r] = "evicted" THEN Heir(r) ELSE r]
<1>1. ASSUME NEW r \in S, phase[r] = "evicted"
      PROVE  Heir(r) \in Runtimes /\ phase[Heir(r)] = "forked" /\ victim[Heir(r)] = r
  <2>1. \E c \in Runtimes : phase[c] = "forked" /\ victim[c] = r
    BY <1>1 DEF MapsAgree
  <2> QED BY <2>1
<1>2. ASSUME NEW r \in S, phase[r] # "evicted"
      PROVE  phase[r] \in SlotPhases \ {"forked"}
  BY <1>2 DEF BackendsOwned, SlotPhases, CreationPhases, RetiringPhases
<1>3. f \in [S -> SlotHolders]
  <2>1. ASSUME NEW r \in S PROVE f[r] \in SlotHolders
    <3>1. CASE phase[r] = "evicted"
      BY <1>1, <3>1 DEF SlotHolders, SlotPhases, CreationPhases
    <3>2. CASE phase[r] # "evicted"
      BY <1>2, <3>2 DEF SlotHolders
    <3> QED BY <3>1, <3>2
  <2> QED BY <2>1
<1>4. ASSUME NEW q \in S, NEW r \in S, f[q] = f[r] PROVE q = r
  <2>1. CASE phase[q] = "evicted" /\ phase[r] = "evicted"
    BY <1>1, <1>4, <2>1
  <2>2. CASE phase[q] # "evicted" /\ phase[r] # "evicted"
    BY <1>4, <2>2
  <2>3. CASE phase[q] = "evicted" /\ phase[r] # "evicted"
    BY <1>1, <1>2, <1>4, <2>3
  <2>4. CASE phase[q] # "evicted" /\ phase[r] = "evicted"
    BY <1>1, <1>2, <1>4, <2>4
  <2> QED BY <2>1, <2>2, <2>3, <2>4
<1>5. f \in Injection(S, SlotHolders)
  BY <1>3, <1>4, Zenon DEF Injection, IsInjective
<1>6. IsFiniteSet(S) /\ Cardinality(S) <= Cardinality(SlotHolders)
  <2> HIDE DEF f, S
  <2> QED BY <1>5, SlotsFinite, FS_Injection
<1> QED BY <1>6, SlotsFinite, FS_CardinalityType, PoolAssumption DEF SlotsAccounted

(* The Node never runs more than maxRuntimes backends.                     *)
THEOREM BackendsAlwaysBounded == Spec => []BackendsBounded
<1>1. IInv => BackendsBounded
  BY BackendsInSlots
<1> QED BY Inductive, <1>1, PTL

(* When dispose reports success the pool is empty, whatever was being      *)
(* created, used, evicted, swept or retired when it began.                 *)
THEOREM ClosedAlwaysEmpty == Spec => []ClosedIsEmpty
<1>1. IInv => ClosedIsEmpty
  BY ClosedHoldsNothing DEF ClosedIsEmpty
<1> QED BY Inductive, <1>1, PTL
=============================================================================
