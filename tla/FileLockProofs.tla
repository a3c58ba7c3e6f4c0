--------------------------- MODULE FileLockProofs ---------------------------
(***************************************************************************)
(* The safety properties of FileLock, proved for any paths, attempts and   *)
(* processes, whatever locks dead processes left.                          *)
(*                                                                         *)
(* A lock tells its owner because a recovery rests on a reading that       *)
(* nobody overtakes (OneRecoverer): what it has read is still there when   *)
(* it renames it, and the path stays empty until it links its own file     *)
(* (Grounds).  A Node and a maintenance exclude each other because each    *)
(* has looked for the other, with its own lock taken, before it holds it   *)
(* (Apart).                                                                *)
(***************************************************************************)
EXTENDS FileLock, TLAPS

(* A path where no recovery is overtaken.                                  *)
Calm(a) == PathOf[a] \notin Races

(* Nothing of a process runs once it has ended.                            *)
Living == \A a \in Attempts : ProcessOf[a] \notin alive => stage[a] = "dead"

OneRecoverer == \A a, b \in Attempts :
  a # b /\ PathOf[a] = PathOf[b] /\ Calm(a) =>
    ~(stage[a] \in Recovering /\ stage[b] \in Recovering)

(* What a recovery rests on.                                               *)
Emptied == {"check", "undo", "relink", "revert", "restore"}
Grounds == \A a \in Attempts : Calm(a) =>
  /\ stage[a] \in {"judge", "move"} => current[a] = Owner(file[PathOf[a]])
  /\ stage[a] = "move" => ~OwnerAlive(current[a])
  /\ stage[a] \in Emptied => file[PathOf[a]] = NoFile

(* Of two that look for each other, one at most has found nothing.         *)
Looked == {"pending", "again", "held"}
Apart == \A a, b \in Attempts :
  Rival[PathOf[a]] = PathOf[b] /\ Calm(a) /\ Calm(b) =>
    ~(stage[a] \in Looked /\ stage[b] \in Looked)

IInv == TypeOK /\ Living /\ OneRecoverer /\ Grounds /\ LockTellsOwner /\ Apart

-----------------------------------------------------------------------------
Stages == Underway \cup Owning \cup {"idle", "done", "busy", "failed", "dead"}
Having == Owning \cup {"clean"}

(* A nonce is no other content.                                            *)
LEMMA Distinct ==
  /\ \A a \in Attempts : a \notin {NoFile, Stale, Older, Torn}
  /\ PathOf \in [Attempts -> Paths] /\ ProcessOf \in [Attempts -> Processes]
BY LockAssumption

(* The owner of a complete file is its nonce.                              *)
LEMMA OwnerFacts ==
  ASSUME NEW content \in Contents
  PROVE  /\ Owner(content) \in Contents
         /\ content \in Attempts => Owner(content) = content
BY Distinct DEF Owner, Contents, Unknown

-----------------------------------------------------------------------------
(* What every call of an attempt has in common, whichever it is.           *)
Steps(a) ==
  \/ Acquire(a) \/ Continue(a) \/ LinkFails(a) \/ RelinkFails(a) \/ BeginRelease(a)

Moves(a) ==
  /\ stage[a] # "dead" /\ stage'[a] \in Stages \ {"dead"}
  /\ stage' = [stage EXCEPT ![a] = stage'[a]]
  /\ Undisturbed(a)
  /\ alive' = alive
  /\ file' \in [Paths -> Contents] /\ aside' \in [Paths -> Contents]
  /\ current' \in [Attempts -> Contents]
  /\ \A x \in Paths \ {PathOf[a]} : file'[x] = file[x] /\ aside'[x] = aside[x]
  /\ \A b \in Attempts \ {a} : current'[b] = current[b]

(* Whatever the call, it is local to its lock and its attempt.             *)
LEMMA EveryStepMoves ==
  ASSUME TypeOK, NEW a \in Attempts, Steps(a)
  PROVE  Moves(a)
<1> USE Distinct, OwnerFacts DEF TypeOK, Stages, Underway, Recovering, Owning, Step, fileVars, Moves
<1>1. CASE Acquire(a)
  BY <1>1 DEF Acquire, Contents
<1>2. CASE LinkFails(a)
  BY <1>2 DEF LinkFails, Contents
<1>3. CASE RelinkFails(a)
  BY <1>3 DEF RelinkFails, Contents
<1>4. CASE BeginRelease(a)
  BY <1>4 DEF BeginRelease, Contents
<1>5. CASE RecoveryUnderWay(a)
  BY <1>5 DEF RecoveryUnderWay, TryAgain, GiveUp, Contents
<1>6. CASE BeginRepair(a)
  BY <1>6 DEF BeginRepair, Contents
<1>7. CASE BeginLink(a)
  BY <1>7 DEF BeginLink, Contents
<1>8. CASE Repair(a)
  BY <1>8 DEF Repair, Contents
<1>9. CASE RepairDrops(a)
  BY <1>9 DEF RepairDrops, PutAside, Contents
<1>10. CASE RepairRestores(a)
  BY <1>10 DEF RepairRestores, MoveBack, PutAside, Put, Contents
<1>11. CASE Link(a)
  BY <1>11 DEF Link, Put, Acquired, Contents
<1>12. CASE LinkExists(a)
  BY <1>12 DEF LinkExists, Contents
<1>13. CASE ReadOwner(a)
  BY <1>13 DEF ReadOwner, Contents
<1>14. CASE OwnerLives(a)
  BY <1>14 DEF OwnerLives, TryAgain, GiveUp, Contents
<1>15. CASE Incomplete(a)
  BY <1>15 DEF Incomplete, Contents
<1>16. CASE OwnerDead(a)
  BY <1>16 DEF OwnerDead, Contents
<1>17. CASE MoveAside(a)
  BY <1>17 DEF MoveAside, PutAside, Put, Contents
<1>18. CASE MoveMisses(a)
  BY <1>18 DEF MoveMisses, Contents
<1>19. CASE CheckMoved(a)
  BY <1>19 DEF CheckMoved, Contents
<1>20. CASE Undo(a)
  BY <1>20 DEF Undo, MoveBack, PutAside, Put, Contents
<1>21. CASE Relink(a)
  BY <1>21 DEF Relink, Put, Contents
<1>22. CASE RelinkExists(a)
  BY <1>22 DEF RelinkExists, Contents
<1>23. CASE RemoveAside(a)
  BY <1>23 DEF RemoveAside, PutAside, Acquired, Contents
<1>24. CASE Yield(a)
  BY <1>24 DEF Yield, PutAside, Contents
<1>25. CASE Revert(a)
  BY <1>25 DEF Revert, MoveBack, PutAside, Put, Contents
<1>26. CASE LookForRival(a)
  BY <1>26 DEF LookForRival, Contents
<1>27. CASE RivalPending(a)
  BY <1>27 DEF RivalPending, Contents
<1>28. CASE RivalSettled(a)
  BY <1>28 DEF RivalSettled, Contents
<1>29. CASE LookAgain(a)
  BY <1>29 DEF LookAgain, Contents
<1>30. CASE Unlink(a)
  BY <1>30 DEF Unlink, Put, Contents
<1> QED
  BY <1>1, <1>2, <1>3, <1>4, <1>5, <1>6, <1>7, <1>8, <1>9, <1>10, <1>11, <1>12, <1>13, <1>14, <1>15, <1>16, <1>17, <1>18, <1>19, <1>20, <1>21, <1>22, <1>23, <1>24, <1>25, <1>26, <1>27, <1>28, <1>29, <1>30 DEF Steps, Continue

(* What it does with a lock where no recovery is overtaken: it leaves the  *)
(* file, takes a free path, gives its own up, or replaces what no live     *)
(* process owns.                                                           *)
Lost(path, content) ==
  ~(content \in Attempts /\ PathOf[content] = path /\ ProcessOf[content] \in alive)

Change(a) ==
  LET x == PathOf[a] IN
  /\ \/ file'[x] = file[x] /\ (stage[a] \in Having <=> stage'[a] \in Having)
     \/ file[x] = NoFile /\ file'[x] = a /\ stage'[a] \in Having
     \/ file[x] = a /\ file'[x] = NoFile /\ stage'[a] \notin Having
     \/ Lost(x, file[x]) /\ Lost(x, file'[x]) /\ stage[a] \notin Having /\ stage'[a] \notin Having
  /\ Lost(x, aside'[x])

GroundsOf(a) ==
  /\ stage[a] \in {"judge", "move"} => current[a] = Owner(file[PathOf[a]])
  /\ stage[a] = "move" => ~OwnerAlive(current[a])
  /\ stage[a] \in Emptied => file[PathOf[a]] = NoFile

(* Every call changes a lock in one of these ways and keeps its grounds.   *)
LEMMA ChangeStep ==
  ASSUME IInv, NEW a \in Attempts, Calm(a), Steps(a)
  PROVE  Change(a) /\ GroundsOf(a)'
<1> DEFINE x == PathOf[a]
<1>1. TypeOK /\ GroundsOf(a) /\ x \in Paths
  BY Distinct DEF IInv, Grounds, GroundsOf
<1>2. Moves(a)
  BY <1>1, EveryStepMoves
<1>3. ProcessOf[a] \in alive /\ (file[x] = a <=> stage[a] \in Having) /\ stage[a] # "dead"
  BY <1>2 DEF IInv, Living, Moves, LockTellsOwner, Calm, Having
<1>4. Lost(x, aside[x])
  BY DEF Lost, IInv, LockTellsOwner, Calm
<1>5. Lost(x, NoFile)
  BY Distinct DEF Lost
<1>6. file[x] \in Contents /\ aside[x] \in Contents /\ Owner(file[x]) \in Contents
  BY <1>1, OwnerFacts DEF TypeOK
<1>7. ~OwnerAlive(Owner(file[x])) => Lost(x, file[x])
  BY <1>6, OwnerFacts DEF OwnerAlive, Lost
<1>8. (ProcessOf[a] \in alive)' <=> ProcessOf[a] \in alive
  BY <1>2 DEF Moves
<1> HIDE DEF Lost
<1> USE Distinct DEF Having, Owning, Step, fileVars, Change, GroundsOf, Emptied, x, TypeOK
<1>10. CASE Acquire(a)
  BY <1>1, <1>3, <1>4, <1>5, <1>6, <1>7, <1>10 DEF Acquire
<1>11. CASE LinkFails(a)
  BY <1>1, <1>3, <1>4, <1>5, <1>6, <1>7, <1>11 DEF LinkFails
<1>12. CASE RelinkFails(a)
  BY <1>1, <1>3, <1>4, <1>5, <1>6, <1>7, <1>12 DEF RelinkFails
<1>13. CASE BeginRelease(a)
  BY <1>1, <1>3, <1>4, <1>5, <1>6, <1>7, <1>13 DEF BeginRelease
<1>14. CASE RecoveryUnderWay(a)
  BY <1>1, <1>3, <1>4, <1>5, <1>6, <1>7, <1>14 DEF RecoveryUnderWay, TryAgain, GiveUp
<1>15. CASE BeginRepair(a)
  BY <1>1, <1>3, <1>4, <1>5, <1>6, <1>7, <1>15 DEF BeginRepair
<1>16. CASE BeginLink(a)
  BY <1>1, <1>3, <1>4, <1>5, <1>6, <1>7, <1>16 DEF BeginLink
<1>17. CASE Repair(a)
  BY <1>1, <1>3, <1>4, <1>5, <1>6, <1>7, <1>17 DEF Repair
<1>18. CASE RepairDrops(a)
  BY <1>1, <1>3, <1>4, <1>5, <1>6, <1>7, <1>18 DEF RepairDrops, PutAside
<1>19. CASE RepairRestores(a)
  BY <1>1, <1>3, <1>4, <1>5, <1>6, <1>7, <1>19 DEF RepairRestores, MoveBack, PutAside, Put
<1>20. CASE Link(a)
  BY <1>1, <1>3, <1>4, <1>5, <1>6, <1>7, <1>20 DEF Link, Put, Acquired
<1>21. CASE LinkExists(a)
  BY <1>1, <1>3, <1>4, <1>5, <1>6, <1>7, <1>21 DEF LinkExists
<1>22. CASE ReadOwner(a)
  BY <1>1, <1>3, <1>4, <1>5, <1>6, <1>7, <1>22 DEF ReadOwner
<1>23. CASE OwnerLives(a)
  BY <1>1, <1>3, <1>4, <1>5, <1>6, <1>7, <1>23 DEF OwnerLives, TryAgain, GiveUp
<1>24. CASE Incomplete(a)
  BY <1>1, <1>3, <1>4, <1>5, <1>6, <1>7, <1>24 DEF Incomplete
<1>25. CASE OwnerDead(a)
  BY <1>1, <1>3, <1>4, <1>5, <1>6, <1>7, <1>25 DEF OwnerDead, OwnerAlive
<1>26. CASE MoveAside(a)
  BY <1>1, <1>3, <1>4, <1>5, <1>6, <1>7, <1>26 DEF MoveAside, PutAside, Put
<1>27. CASE MoveMisses(a)
  BY <1>1, <1>3, <1>4, <1>5, <1>6, <1>7, <1>27 DEF MoveMisses
<1>28. CASE CheckMoved(a)
  BY <1>1, <1>3, <1>4, <1>5, <1>6, <1>7, <1>28 DEF CheckMoved
<1>29. CASE Undo(a)
  BY <1>1, <1>3, <1>4, <1>5, <1>6, <1>7, <1>29 DEF Undo, MoveBack, PutAside, Put
<1>30. CASE Relink(a)
  BY <1>1, <1>3, <1>4, <1>5, <1>6, <1>7, <1>30 DEF Relink, Put
<1>31. CASE RelinkExists(a)
  BY <1>1, <1>3, <1>4, <1>5, <1>6, <1>7, <1>31 DEF RelinkExists
<1>32. CASE RemoveAside(a)
  BY <1>1, <1>3, <1>4, <1>5, <1>6, <1>7, <1>32 DEF RemoveAside, PutAside, Acquired
<1>33. CASE Yield(a)
  BY <1>1, <1>3, <1>4, <1>5, <1>6, <1>7, <1>33 DEF Yield, PutAside
<1>34. CASE Revert(a)
  BY <1>1, <1>3, <1>4, <1>5, <1>6, <1>7, <1>34 DEF Revert, MoveBack, PutAside, Put
<1>35. CASE LookForRival(a)
  BY <1>1, <1>3, <1>4, <1>5, <1>6, <1>7, <1>35 DEF LookForRival
<1>36. CASE RivalPending(a)
  BY <1>1, <1>3, <1>4, <1>5, <1>6, <1>7, <1>36 DEF RivalPending
<1>37. CASE RivalSettled(a)
  BY <1>1, <1>3, <1>4, <1>5, <1>6, <1>7, <1>37 DEF RivalSettled
<1>38. CASE LookAgain(a)
  BY <1>1, <1>3, <1>4, <1>5, <1>6, <1>7, <1>38 DEF LookAgain
<1>39. CASE Unlink(a)
  BY <1>1, <1>3, <1>4, <1>5, <1>6, <1>7, <1>39 DEF Unlink, Put
<1> QED
  BY <1>10, <1>11, <1>12, <1>13, <1>14, <1>15, <1>16, <1>17, <1>18, <1>19, <1>20, <1>21, <1>22, <1>23, <1>24, <1>25, <1>26, <1>27, <1>28, <1>29, <1>30, <1>31, <1>32, <1>33, <1>34, <1>35, <1>36, <1>37, <1>38, <1>39 DEF Steps, Continue

(* Who comes to have found nothing has just looked, with its lock taken.   *)
LEMMA LooksFirst ==
  ASSUME TypeOK, NEW a \in Attempts, Steps(a), stage'[a] \in Looked
  PROVE  \/ stage[a] \in Looked
         \/ Rival[PathOf[a]] = NoPath
         \/ ~Active(Rival[PathOf[a]])
<1> USE DEF TypeOK, Looked, Step
<1>1. CASE Acquire(a)
  BY <1>1 DEF Acquire
<1>2. CASE LinkFails(a)
  BY <1>2 DEF LinkFails
<1>3. CASE RelinkFails(a)
  BY <1>3 DEF RelinkFails
<1>4. CASE BeginRelease(a)
  BY <1>4 DEF BeginRelease
<1>5. CASE RecoveryUnderWay(a)
  BY <1>5 DEF RecoveryUnderWay, TryAgain, GiveUp
<1>6. CASE BeginRepair(a)
  BY <1>6 DEF BeginRepair
<1>7. CASE BeginLink(a)
  BY <1>7 DEF BeginLink
<1>8. CASE Repair(a)
  BY <1>8 DEF Repair
<1>9. CASE RepairDrops(a)
  BY <1>9 DEF RepairDrops
<1>10. CASE RepairRestores(a)
  BY <1>10 DEF RepairRestores
<1>11. CASE Link(a)
  BY <1>11 DEF Link, Acquired
<1>12. CASE LinkExists(a)
  BY <1>12 DEF LinkExists
<1>13. CASE ReadOwner(a)
  BY <1>13 DEF ReadOwner
<1>14. CASE OwnerLives(a)
  BY <1>14 DEF OwnerLives, TryAgain, GiveUp
<1>15. CASE Incomplete(a)
  BY <1>15 DEF Incomplete
<1>16. CASE OwnerDead(a)
  BY <1>16 DEF OwnerDead
<1>17. CASE MoveAside(a)
  BY <1>17 DEF MoveAside
<1>18. CASE MoveMisses(a)
  BY <1>18 DEF MoveMisses
<1>19. CASE CheckMoved(a)
  BY <1>19 DEF CheckMoved
<1>20. CASE Undo(a)
  BY <1>20 DEF Undo
<1>21. CASE Relink(a)
  BY <1>21 DEF Relink
<1>22. CASE RelinkExists(a)
  BY <1>22 DEF RelinkExists
<1>23. CASE RemoveAside(a)
  BY <1>23 DEF RemoveAside, Acquired
<1>24. CASE Yield(a)
  BY <1>24 DEF Yield
<1>25. CASE Revert(a)
  BY <1>25 DEF Revert
<1>26. CASE LookForRival(a)
  BY <1>26 DEF LookForRival
<1>27. CASE RivalPending(a)
  BY <1>27 DEF RivalPending
<1>28. CASE RivalSettled(a)
  BY <1>28 DEF RivalSettled
<1>29. CASE LookAgain(a)
  BY <1>29 DEF LookAgain
<1>30. CASE Unlink(a)
  BY <1>30 DEF Unlink
<1> QED
  BY <1>1, <1>2, <1>3, <1>4, <1>5, <1>6, <1>7, <1>8, <1>9, <1>10, <1>11, <1>12, <1>13, <1>14, <1>15, <1>16, <1>17, <1>18, <1>19, <1>20, <1>21, <1>22, <1>23, <1>24, <1>25, <1>26, <1>27, <1>28, <1>29, <1>30 DEF Steps, Continue

-----------------------------------------------------------------------------
(* The end of a process leaves the files and stops its attempts.           *)
LEMMA DieStep ==
  ASSUME IInv, NEW p \in Processes, Die(p)
  PROVE  IInv'
<1>1. /\ file' = file /\ aside' = aside /\ current' = current
      /\ alive' = alive \ {p}
      /\ \A a \in Attempts : stage'[a] = IF ProcessOf[a] = p THEN "dead" ELSE stage[a]
  BY DEF Die, fileVars
<1>2. TypeOK'
  BY <1>1 DEF IInv, TypeOK, Die, fileVars
<1>3. \A a \in Attempts : stage'[a] # "dead" => stage'[a] = stage[a]
  BY <1>1
<1>4. Living'
  BY <1>1 DEF IInv, Living
<1>5. OneRecoverer'
  BY <1>3 DEF IInv, OneRecoverer, Recovering, Calm
<1>6. \A owner : OwnerAlive(owner)' => OwnerAlive(owner)
  BY <1>1 DEF OwnerAlive
<1>8. Grounds'
  BY <1>1, <1>3, <1>6 DEF IInv, Grounds, Emptied, Calm, Owner
<1>9. LockTellsOwner'
  BY <1>1 DEF IInv, LockTellsOwner
<1>10. Apart'
  BY <1>3 DEF IInv, Apart, Looked, Calm
<1> QED
  BY <1>2, <1>4, <1>5, <1>8, <1>9, <1>10 DEF IInv

(* A call keeps the invariant.                                             *)
LEMMA AttemptStep ==
  ASSUME IInv, NEW a \in Attempts, Steps(a)
  PROVE  IInv'
<1>1. TypeOK /\ Moves(a)
  BY EveryStepMoves DEF IInv
<1>2. /\ \A b \in Attempts \ {a} : stage'[b] = stage[b] /\ current'[b] = current[b]
      /\ alive' = alive /\ stage[a] # "dead" /\ stage'[a] # "dead"
      /\ \A x \in Paths \ {PathOf[a]} : file'[x] = file[x] /\ aside'[x] = aside[x]
  BY <1>1 DEF Moves, TypeOK
<1>3. Calm(a) => \A b \in Attempts \ {a} : PathOf[b] = PathOf[a] => stage[b] \notin Recovering
  BY <1>1 DEF Moves, Undisturbed, Calm
<1>4. TypeOK'
  BY <1>1 DEF Moves, TypeOK, Stages
<1>5. Living'
  BY <1>2 DEF IInv, Living
<1>6. OneRecoverer'
  BY <1>2, <1>3 DEF IInv, OneRecoverer, Calm
<1>7. Grounds'
  <2> SUFFICES ASSUME NEW b \in Attempts, Calm(b)
               PROVE  GroundsOf(b)'
    BY DEF Grounds, GroundsOf, Calm
  <2>1. CASE b = a
    BY <2>1, ChangeStep
  <2>2. CASE b # a /\ PathOf[b] = PathOf[a]
    BY <1>2, <1>3, <2>2 DEF GroundsOf, Calm, Recovering, Emptied
  <2>3. CASE PathOf[b] # PathOf[a]
    BY <1>2, <2>3, Distinct DEF GroundsOf, IInv, Grounds, OwnerAlive, Owner
  <2> QED
    BY <2>1, <2>2, <2>3
<1>8. LockTellsOwner'
  <2> SUFFICES ASSUME NEW b \in Attempts, ProcessOf[b] \in alive, Calm(b)
               PROVE  /\ file'[PathOf[b]] = b <=> stage'[b] \in Having
                      /\ aside'[PathOf[b]] # b
    BY <1>2 DEF LockTellsOwner, Having, Calm
  <2>1. /\ file[PathOf[b]] = b <=> stage[b] \in Having
        /\ aside[PathOf[b]] # b
    BY DEF IInv, LockTellsOwner, Having, Calm
  <2>2. CASE PathOf[b] # PathOf[a]
    BY <1>2, <2>1, <2>2, Distinct
  <2>3. CASE PathOf[b] = PathOf[a]
    <3>1. Calm(a) /\ Change(a)
      BY <2>3, ChangeStep DEF Calm
    <3>2. ProcessOf[a] \in alive /\ (file[PathOf[a]] = a <=> stage[a] \in Having)
      BY <1>2, <3>1 DEF IInv, Living, LockTellsOwner, Having, Calm
    <3> QED
      BY <1>2, <2>1, <2>3, <3>1, <3>2, Distinct DEF Change, Lost
  <2> QED
    BY <2>2, <2>3
<1>9. Apart'
  <2>1. ASSUME NEW b \in Attempts, Calm(a), Calm(b), stage'[a] \in Looked, stage'[b] \in Looked,
               Rival[PathOf[a]] = PathOf[b]
        PROVE  FALSE
    <3>1. PathOf[a] \in Paths /\ PathOf[b] \in Paths /\ b # a /\ Rival[PathOf[a]] # NoPath
      BY <2>1, LockAssumption
    <3>2. stage[b] \in Looked
      BY <1>2, <2>1, <3>1
    <3>3. stage[a] \notin Looked
      BY <2>1, <3>2 DEF IInv, Apart
    <3>4. ~Active(PathOf[b])
      BY <1>1, <2>1, <3>1, <3>3, LooksFirst
    <3>5. ProcessOf[b] \in alive /\ file[PathOf[b]] = b
      BY <2>1, <3>2 DEF IInv, Living, LockTellsOwner, Looked, Owning, Calm
    <3> QED
      BY <3>4, <3>5, Distinct DEF Active, OwnerAlive, Owner
  <2> SUFFICES ASSUME NEW b \in Attempts, NEW c \in Attempts, Calm(b), Calm(c),
                      stage'[b] \in Looked, stage'[c] \in Looked, Rival[PathOf[b]] = PathOf[c]
               PROVE  FALSE
    BY DEF Apart, Calm
  <2>2. Rival[PathOf[c]] = PathOf[b]
    BY LockAssumption
  <2>3. CASE b = a \/ c = a
    BY <2>1, <2>2, <2>3
  <2>4. CASE b # a /\ c # a
    BY <1>2, <2>4 DEF IInv, Apart
  <2> QED
    BY <2>3, <2>4
<1> QED
  BY <1>4, <1>5, <1>6, <1>7, <1>8, <1>9 DEF IInv

(* Whatever dead processes left, it begins so.                             *)
LEMMA Initially == Init => IInv
<1> SUFFICES ASSUME Init PROVE IInv
  OBVIOUS
<1> USE Distinct
<1>1. /\ file \in [Paths -> {NoFile, Stale, Torn}] /\ aside \in [Paths -> {NoFile, Older, Torn}]
      /\ \A a \in Attempts : stage[a] \in {"idle", "dead"}
      /\ stage \in [Attempts -> {"idle", "dead"}]
      /\ current = [a \in Attempts |-> Unknown] /\ alive = Processes
  BY DEF Init
<1>2. TypeOK
  BY <1>1 DEF TypeOK, Contents, Unknown
<1>3. Living /\ OneRecoverer /\ Grounds /\ Apart
  BY <1>1 DEF Living, OneRecoverer, Grounds, Apart, Recovering, Emptied, Looked
<1>4. LockTellsOwner
  BY <1>1 DEF LockTellsOwner, Owning
<1> QED
  BY <1>2, <1>3, <1>4 DEF IInv

(* The inductive invariant holds of every behaviour.                       *)
THEOREM Inductive == Spec => []IInv
<1>1. IInv /\ [Next]_vars => IInv'
  <2> SUFFICES ASSUME IInv, [Next]_vars PROVE IInv'
    OBVIOUS
  <2>1. ASSUME NEW a \in Attempts,
               Acquire(a) \/ Continue(a) \/ LinkFails(a) \/ RelinkFails(a) \/ BeginRelease(a)
        PROVE  IInv'
    BY <2>1, AttemptStep DEF Steps
  <2>2. ASSUME NEW p \in Processes, Die(p) PROVE IInv'
    BY <2>2, DieStep
  <2>3. CASE UNCHANGED vars
    BY <2>3 DEF vars, fileVars, IInv, TypeOK, Living, OneRecoverer, Grounds, LockTellsOwner, Apart,
                Calm, OwnerAlive, Owner
  <2> QED
    BY <2>1, <2>2, <2>3 DEF Next
<1> QED
  BY <1>1, Initially, PTL DEF Spec

(* TypeOK: every variable keeps its type.                                  *)
THEOREM TypeCorrect == Spec => []TypeOK
<1>1. IInv => TypeOK
  BY DEF IInv
<1> QED
  BY <1>1, Inductive, PTL

(* LockTellsOwner: where no recovery is overtaken, the file under a path   *)
(* names the attempt of a live process that has the lock, and no other;    *)
(* recovery, repair and release take no lock from its owner.               *)
THEOREM LocksTellOwners == Spec => []LockTellsOwner
<1>1. IInv => LockTellsOwner
  BY DEF IInv
<1> QED
  BY <1>1, Inductive, PTL

-----------------------------------------------------------------------------
(* Anybody may come to a lock that is recovered.  What can go wrong then   *)
(* is a rename that finds something else than its attempt had found: a     *)
(* lock that is not the one it read, or one where there was none.          *)
RenamesBack == {"undo", "restore", "revert"}
Overtaken(a) ==
  \/ MoveAside(a) /\ Owner(file[PathOf[a]]) # current[a]
  \/ Continue(a) /\ stage[a] \in RenamesBack /\ file[PathOf[a]] # NoFile

(* Otherwise every owner's nonce is under its path, and whoever is about   *)
(* to rename a lock aside has read an owner that is dead.                  *)
Kept ==
  /\ TypeOK /\ Living
  /\ \A a \in Attempts : stage[a] \in Having => file[PathOf[a]] = a
  /\ \A a \in Attempts : stage[a] = "move" => ~OwnerAlive(current[a])

(* A call that is not overtaken leaves the file, takes a free path, gives  *)
(* its own up, or removes what no live process owns.                       *)
Spares(a) ==
  LET x == PathOf[a] IN
  /\ \/ file'[x] = file[x] /\ (stage'[a] \in Having => stage[a] \in Having)
     \/ file[x] = NoFile /\ (stage'[a] \in Having => file'[x] = a)
     \/ file[x] \in {a} /\ stage'[a] \notin Having
     \/ ~OwnerAlive(file[x]) /\ stage'[a] \notin Having
  /\ stage'[a] = "move" => ~OwnerAlive(current'[a])

(* Each of them does.                                                      *)
LEMMA SparesStep ==
  ASSUME Kept, NEW a \in Attempts, Steps(a), ~Overtaken(a)
  PROVE  Spares(a)
<1> DEFINE x == PathOf[a]
<1>1. TypeOK /\ x \in Paths /\ file[x] \in Contents /\ Owner(file[x]) \in Contents
  BY Distinct, OwnerFacts DEF Kept, TypeOK
<1>2. stage[a] = "move" => ~OwnerAlive(current[a])
  BY DEF Kept
<1>3. stage[a] \in Having => file[x] = a
  BY DEF Kept
<1>4. OwnerAlive(file[x]) => Owner(file[x]) = file[x]
  BY <1>1, OwnerFacts DEF OwnerAlive
<1> USE Distinct DEF Having, Owning, Step, fileVars, Spares, TypeOK
<1>10. CASE \/ Acquire(a) \/ LinkFails(a) \/ RelinkFails(a) \/ BeginRelease(a)
            \/ BeginRepair(a) \/ BeginLink(a) \/ LinkExists(a) \/ ReadOwner(a)
  BY <1>1, <1>3, <1>10 DEF Acquire, LinkFails, RelinkFails, BeginRelease, BeginRepair, BeginLink,
                           LinkExists, ReadOwner
<1>11. CASE RecoveryUnderWay(a) \/ OwnerLives(a) \/ Incomplete(a)
  BY <1>1, <1>11 DEF RecoveryUnderWay, OwnerLives, Incomplete, TryAgain, GiveUp
<1>12. CASE OwnerDead(a)
  BY <1>1, <1>12 DEF OwnerDead
<1>13. CASE \/ Repair(a) \/ RepairDrops(a) \/ MoveMisses(a) \/ CheckMoved(a) \/ RelinkExists(a)
            \/ RemoveAside(a) \/ Yield(a)
  BY <1>1, <1>13 DEF Repair, RepairDrops, MoveMisses, CheckMoved, RelinkExists, RemoveAside,
                     Yield, PutAside, Acquired
<1>14. CASE \/ LookForRival(a) \/ RivalPending(a) \/ RivalSettled(a) \/ LookAgain(a)
  BY <1>1, <1>14 DEF LookForRival, RivalPending, RivalSettled, LookAgain
<1>15. CASE Link(a) \/ Relink(a)
  BY <1>1, <1>15 DEF Link, Relink, Put, Acquired
<1>16. CASE RepairRestores(a) \/ Undo(a) \/ Revert(a)
  <2>1. file[x] = NoFile
    BY <1>16 DEF Overtaken, RenamesBack, Continue, RepairRestores, Undo, Revert
  <2> QED BY <1>1, <1>16, <2>1 DEF RepairRestores, Undo, Revert
<1>17. CASE MoveAside(a)
  <2>1. Owner(file[x]) = current[a] /\ stage[a] = "move"
    BY <1>17 DEF Overtaken, MoveAside
  <2>2. ~OwnerAlive(file[x])
    BY <1>2, <1>4, <2>1
  <2> QED BY <1>1, <1>17, <2>2 DEF MoveAside
<1>18. CASE Unlink(a)
  BY <1>1, <1>3, <1>18 DEF Unlink
<1> QED BY <1>10, <1>11, <1>12, <1>13, <1>14, <1>15, <1>16, <1>17, <1>18 DEF Steps, Continue

(* Exclusive, however processes and their recoveries come in between of    *)
(* each other: a lock has one owner at a time, unless a rename of a        *)
(* recovery finds another lock than the one that was read, or one where    *)
(* there was none.  Nothing else in acquirePrivateLock or its release      *)
(* leads to two.                                                           *)
THEOREM LocksExclude ==
  Spec /\ [][\A a \in Attempts : ~Overtaken(a)]_vars => []Exclusive
<1>1. Init => Kept
  <2> SUFFICES ASSUME Init PROVE Kept
    OBVIOUS
  <2>1. \A a \in Attempts : stage[a] \in {"idle", "dead"}
    BY DEF Init
  <2> QED BY <2>1, Initially DEF IInv, Kept, Having, Owning
<1>2. Kept /\ [Next]_vars /\ [\A a \in Attempts : ~Overtaken(a)]_vars => Kept'
  <2> SUFFICES ASSUME Kept, [Next]_vars, [\A a \in Attempts : ~Overtaken(a)]_vars
               PROVE  Kept'
    OBVIOUS
  <2>1. ASSUME NEW a \in Attempts, Steps(a), ~Overtaken(a)
        PROVE  Kept'
    <3>1. TypeOK /\ Moves(a) /\ Spares(a)
      BY <2>1, EveryStepMoves, SparesStep DEF Kept
    <3>2. /\ \A b \in Attempts \ {a} : stage'[b] = stage[b] /\ current'[b] = current[b]
          /\ alive' = alive /\ stage[a] # "dead" /\ stage'[a] # "dead"
          /\ \A x \in Paths \ {PathOf[a]} : file'[x] = file[x]
      BY <3>1 DEF Moves, TypeOK
    <3>3. TypeOK' /\ Living'
      BY <3>1, <3>2 DEF Moves, TypeOK, Stages, Kept, Living
    <3>4. ASSUME NEW b \in Attempts \ {a}, stage'[b] \in Having
          PROVE  file'[PathOf[b]] = b
      <4>1. stage[b] \in Having /\ file[PathOf[b]] = b /\ PathOf[b] \in Paths
        BY <3>2, <3>4, Distinct DEF Kept
      <4>2. OwnerAlive(b) /\ b # NoFile
        BY <4>1, Distinct DEF Kept, Living, Having, Owning, OwnerAlive
      <4> QED BY <3>1, <3>2, <4>1, <4>2 DEF Spares
    <3>5. stage'[a] \in Having => file'[PathOf[a]] = a
      BY <3>1 DEF Spares, Kept
    <3>6. \A b \in Attempts : stage'[b] = "move" => ~OwnerAlive(current'[b])
      BY <3>1, <3>2 DEF Spares, Kept
    <3>7. \A owner : OwnerAlive(owner)' <=> owner \in Attempts /\ ProcessOf[owner] \in alive'
      BY DEF OwnerAlive
    <3> QED BY <3>2, <3>3, <3>4, <3>5, <3>6 DEF Kept, OwnerAlive
  <2>2. ASSUME NEW p \in Processes, Die(p)
        PROVE  Kept'
    <3>1. /\ file' = file /\ aside' = aside /\ current' = current /\ alive' = alive \ {p}
          /\ \A a \in Attempts : stage'[a] = IF ProcessOf[a] = p THEN "dead" ELSE stage[a]
      BY <2>2 DEF Die, fileVars
    <3>2. TypeOK'
      BY <2>2, <3>1 DEF Kept, TypeOK, Die
    <3> QED BY <3>1, <3>2 DEF Kept, Living, Having, Owning, OwnerAlive
  <2>3. CASE UNCHANGED vars
    BY <2>3 DEF vars, fileVars, Kept, TypeOK, Living, OwnerAlive
  <2> QED BY <2>1, <2>2, <2>3 DEF Next, Steps, vars
<1>3. Kept => Exclusive
  BY DEF Kept, Exclusive, Having
<1> QED BY <1>1, <1>2, <1>3, PTL DEF Spec

(* NodeOrMaintenance: a Node and an offline maintenance of one directory   *)
(* never run together, if the recoveries of their own two locks are not    *)
(* overtaken.                                                              *)
THEOREM NodeExcludesMaintenance ==
  ASSUME \A x \in Paths : Rival[x] # NoPath => x \notin Races
  PROVE  Spec => []NodeOrMaintenance
<1>1. IInv => NodeOrMaintenance
  <2> SUFFICES ASSUME IInv, NEW a \in Attempts, NEW b \in Attempts, Rival[PathOf[a]] = PathOf[b],
                      stage[a] = "held", stage[b] = "held"
               PROVE  FALSE
    BY DEF NodeOrMaintenance
  <2>1. Calm(a) /\ Calm(b)
    BY LockAssumption DEF Calm
  <2> QED
    BY <2>1 DEF IInv, Apart, Looked
<1> QED
  BY <1>1, Inductive, PTL
=============================================================================
