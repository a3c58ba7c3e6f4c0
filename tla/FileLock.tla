------------------------------ MODULE FileLock ------------------------------
(***************************************************************************)
(* private-files.ts and process-lock.ts: locks that are files.  A lock is  *)
(* taken by linking a complete file under its path, recovered from a dead  *)
(* owner by renaming it aside (path.recovering), and released by renaming  *)
(* it away.  A Node and an offline maintenance each take their own lock    *)
(* and then look for the other's.                                          *)
(*                                                                         *)
(* An attempt is one run of acquirePrivateLock, up to its release.  Its    *)
(* steps are single file system calls: other processes come in between.    *)
(* The age of a file that was there before is left open.                   *)
(* Process ids are not reused.                                             *)
(***************************************************************************)
EXTENDS FiniteSets

CONSTANTS
  Paths,          (* lock paths                                             *)
  Attempts,       (* attempts; each is the nonce of its own lock file       *)
  Processes,
  PathOf,         (* the lock every attempt wants                           *)
  ProcessOf,      (* the process it runs in                                 *)
  Patient,        (* attempts with wait: true                               *)
  Parties,        (* bound: the sets of attempts that may come together     *)
  Rival,          (* the path looked at once a lock is taken, or NoPath     *)
  NoPath,
  NoFile,         (* no file under a path                                   *)
  Stale, Older,   (* nonces of locks whose processes died before            *)
  Torn,           (* a file without a readable owner                        *)
  Races           (* paths to which others may come during a recovery       *)

ASSUME LockAssumption ==
  /\ PathOf \in [Attempts -> Paths]
  /\ ProcessOf \in [Attempts -> Processes]
  /\ Patient \subseteq Attempts /\ Parties \subseteq SUBSET Attempts
  /\ Rival \in [Paths -> Paths \cup {NoPath}] /\ NoPath \notin Paths
  /\ \A x, y \in Paths : Rival[x] = y => x # y /\ Rival[y] = x
  /\ Cardinality({NoFile, Stale, Older, Torn}) = 4
  /\ {NoFile, Stale, Older, Torn} \cap Attempts = {}
  /\ Races \subseteq Paths

VARIABLES
  file,      (* what is under every path                                    *)
  aside,     (* what is under its path.recovering                           *)
  stage,     (* where every attempt is                                      *)
  current,   (* the owner it read, as readLockOwner returned it             *)
  alive      (* processes that run                                          *)

fileVars == <<file, aside>>
vars     == <<fileVars, stage, current, alive>>

-----------------------------------------------------------------------------
Unknown == NoFile      \* readLockOwner's undefined
Contents == Attempts \cup {NoFile, Stale, Older, Torn}

Owner(content)    == IF content = Torn THEN Unknown ELSE content
OwnerAlive(owner) == owner \in Attempts /\ ProcessOf[owner] \in alive
Active(path)      == OwnerAlive(Owner(file[path]))

(* Between the reading that a recovery rests on and its end.               *)
Recovering == {"judge", "repair", "drop", "restore", "move", "check", "undo",
               "relink", "clean", "yield", "revert"}
(* From the first step to the answer.                                      *)
Underway   == Recovering \cup {"top", "link", "read"}
(* With the lock, as the attempt sees it.                                  *)
Owning     == {"rival", "pending", "again", "held", "reject", "unlink"}

(* Anything may be left by processes that died before, at any step.        *)
Init == \E party \in Parties :
  /\ file \in [Paths -> {NoFile, Stale, Torn}]
  /\ aside \in [Paths -> {NoFile, Older, Torn}]
  /\ \A path \in Paths \ {PathOf[a] : a \in party} : file[path] = NoFile /\ aside[path] = NoFile
  /\ stage = [a \in Attempts |-> IF a \in party THEN "idle" ELSE "dead"]
  /\ current = [a \in Attempts |-> Unknown]
  /\ alive = Processes

(* Elsewhere nobody comes to a lock that a live process recovers.          *)
Undisturbed(a) ==
  \/ PathOf[a] \in Races
  \/ \A b \in Attempts \ {a} : PathOf[b] = PathOf[a] => stage[b] \notin Recovering

(* One call of attempt a, from one stage to the next.                      *)
Step(a, from, to) ==
  /\ stage[a] = from
  /\ Undisturbed(a)
  /\ stage' = [stage EXCEPT ![a] = to]
  /\ UNCHANGED alive

Put(path, content)      == file' = [file EXCEPT ![path] = content]
PutAside(path, content) == aside' = [aside EXCEPT ![path] = content]

(* rename(recovering, path), which replaces a file and may find none.      *)
MoveBack(path) ==
  /\ IF aside[path] = NoFile THEN UNCHANGED file ELSE Put(path, aside[path])
  /\ PutAside(path, NoFile)

-----------------------------------------------------------------------------
Acquire(a) ==
  /\ Step(a, "idle", "top")
  /\ UNCHANGED <<fileVars, current>>

(* waitForLock: a patient attempt tries again, ...                         *)
TryAgain(a, from) ==
  /\ a \in Patient
  /\ Step(a, from, "top")
  /\ UNCHANGED <<fileVars, current>>

(* ... and gives up after its timeout, which is long enough for a lock     *)
(* that no other attempt of a live process wants, unless the file tells of *)
(* a live process all the same; the others never wait.                     *)
Alone(a) == \A b \in Attempts \ {a} :
  PathOf[b] = PathOf[a] => stage[b] \notin Underway \cup Owning
GiveUp(a, from) ==
  /\ a \in Patient => ~Alone(a) \/ (from = "judge" /\ OwnerAlive(current[a]))
  /\ Step(a, from, "busy")
  /\ UNCHANGED <<fileVars, current>>

(* The top of the loop: another recovery is under way, or was cut short.   *)
RecoveryUnderWay(a) ==
  /\ aside[PathOf[a]] # NoFile
  /\ TryAgain(a, "top") \/ GiveUp(a, "top")

BeginRepair(a) ==
  /\ aside[PathOf[a]] # NoFile
  /\ Step(a, "top", "repair")
  /\ UNCHANGED <<fileVars, current>>

BeginLink(a) ==
  /\ aside[PathOf[a]] = NoFile
  /\ Step(a, "top", "link")
  /\ UNCHANGED <<fileVars, current>>

(* repairInterruptedRecovery                                               *)
(* Fault: what was set aside goes back only over another lock.             *)
RepairSwapped(a) ==
  /\ Step(a, "repair", IF file[PathOf[a]] # NoFile THEN "restore" ELSE "top")
  /\ UNCHANGED <<fileVars, current>>
Repair(a) ==
  /\ Step(a, "repair", IF file[PathOf[a]] # NoFile THEN "drop" ELSE "restore")
  /\ UNCHANGED <<fileVars, current>>
RepairDrops(a) ==
  /\ Step(a, "drop", "top")
  /\ PutAside(PathOf[a], NoFile)
  /\ UNCHANGED <<file, current>>
RepairRestores(a) ==
  /\ Step(a, "restore", "top")
  /\ MoveBack(PathOf[a])
  /\ UNCHANGED current

(* createOwnedLock: a complete file is linked, if there is none.           *)
Acquired(a) == IF Rival[PathOf[a]] = NoPath THEN "held" ELSE "rival"
Link(a) ==
  /\ file[PathOf[a]] = NoFile
  /\ Step(a, "link", Acquired(a))
  /\ Put(PathOf[a], a)
  /\ UNCHANGED <<aside, current>>
LinkExists(a) ==
  /\ file[PathOf[a]] # NoFile
  /\ Step(a, "link", "read")
  /\ UNCHANGED <<fileVars, current>>
LinkFails(a) ==
  /\ Step(a, "link", "failed")
  /\ UNCHANGED <<fileVars, current>>

ReadOwner(a) ==
  /\ Step(a, "read", "judge")
  /\ current' = [current EXCEPT ![a] = Owner(file[PathOf[a]])]
  /\ UNCHANGED fileVars

(* A live owner is waited for, and so is a young file without one: no file *)
(* counts as young, and one linked since the reading is young.             *)
OwnerLives(a) ==
  /\ OwnerAlive(current[a])
  /\ TryAgain(a, "judge") \/ GiveUp(a, "judge")
Incomplete(a) ==
  /\ current[a] = Unknown
  /\ Step(a, "judge", "top") \/ Step(a, "judge", "busy")
  /\ UNCHANGED <<fileVars, current>>
(* Fault: an old lock is taken from a live process.                        *)
OwnerDeadOrOld(a) ==
  /\ current[a] = Unknown => file[PathOf[a]] \in {Torn, Stale, Older}
  /\ Step(a, "judge", "move")
  /\ UNCHANGED <<fileVars, current>>
OwnerDead(a) ==
  /\ ~OwnerAlive(current[a])
  /\ current[a] = Unknown => file[PathOf[a]] \in {Torn, Stale, Older}
  /\ Step(a, "judge", "move")
  /\ UNCHANGED <<fileVars, current>>

-----------------------------------------------------------------------------
(* The recovery: rename aside, compare, link, remove what was set aside.   *)
MoveAside(a) ==
  /\ file[PathOf[a]] # NoFile
  /\ Step(a, "move", "check")
  /\ PutAside(PathOf[a], file[PathOf[a]])
  /\ Put(PathOf[a], NoFile)
  /\ UNCHANGED current
MoveMisses(a) ==
  /\ file[PathOf[a]] = NoFile
  /\ Step(a, "move", "top")
  /\ UNCHANGED <<fileVars, current>>

CheckMoved(a) ==
  /\ Step(a, "check", IF Owner(aside[PathOf[a]]) = current[a] THEN "relink" ELSE "undo")
  /\ UNCHANGED <<fileVars, current>>
Undo(a) ==
  /\ Step(a, "undo", "top")
  /\ MoveBack(PathOf[a])
  /\ UNCHANGED current

Relink(a) ==
  /\ file[PathOf[a]] = NoFile
  /\ Step(a, "relink", "clean")
  /\ Put(PathOf[a], a)
  /\ UNCHANGED <<aside, current>>
RelinkExists(a) ==
  /\ file[PathOf[a]] # NoFile
  /\ Step(a, "relink", "yield")
  /\ UNCHANGED <<fileVars, current>>
RelinkFails(a) ==
  /\ Step(a, "relink", "revert")
  /\ UNCHANGED <<fileVars, current>>

(* Fault: who recovered a lock does not look for the rival.                *)
RemoveAsideAndHold(a) ==
  /\ Step(a, "clean", "held")
  /\ PutAside(PathOf[a], NoFile)
  /\ UNCHANGED <<file, current>>
RemoveAside(a) ==
  /\ Step(a, "clean", Acquired(a))
  /\ PutAside(PathOf[a], NoFile)
  /\ UNCHANGED <<file, current>>
Yield(a) ==
  /\ PutAside(PathOf[a], NoFile)
  /\ UNCHANGED <<file, current>>
  /\ \/ a \in Patient /\ Step(a, "yield", "top")
     \/ (a \in Patient => ~Alone(a)) /\ Step(a, "yield", "busy")
Revert(a) ==
  /\ Step(a, "revert", "failed")
  /\ MoveBack(PathOf[a])
  /\ UNCHANGED current

-----------------------------------------------------------------------------
(* acquireNodeLock, acquireMaintenanceLock: with the own lock, look for    *)
(* the other; a file without an owner is given time to be completed.       *)
LookForRival(a) ==
  /\ Step(a, "rival", IF Active(Rival[PathOf[a]]) THEN "reject" ELSE "pending")
  /\ UNCHANGED <<fileVars, current>>
RivalPending(a) ==
  /\ Step(a, "pending", "rival") \/ Step(a, "pending", "held")
  /\ Torn \in {file[Rival[PathOf[a]]], aside[Rival[PathOf[a]]]}
  /\ UNCHANGED <<fileVars, current>>
RivalSettled(a) ==
  /\ Step(a, "pending", "again")
  /\ UNCHANGED <<fileVars, current>>
LookAgain(a) ==
  /\ Step(a, "again", IF Active(Rival[PathOf[a]]) THEN "reject" ELSE "held")
  /\ UNCHANGED <<fileVars, current>>

(* lockRelease: what is under the path is renamed away, if the reading     *)
(* before found it to be the own lock.                                     *)
BeginRelease(a) ==
  /\ stage[a] \in {"held", "reject"}
  /\ Step(a, stage[a], IF file[PathOf[a]] = a THEN "unlink" ELSE "done")
  /\ UNCHANGED <<fileVars, current>>
Unlink(a) ==
  /\ Step(a, "unlink", "done")
  /\ Put(PathOf[a], NoFile)
  /\ UNCHANGED <<aside, current>>

(* A process ends, or is killed, at any time; its files stay.              *)
Die(p) ==
  /\ p \in alive
  /\ alive' = alive \ {p}
  /\ stage' = [a \in Attempts |->
                  IF ProcessOf[a] = p THEN "dead" ELSE stage[a]]
  /\ UNCHANGED <<fileVars, current>>

-----------------------------------------------------------------------------
(* What the loop does of itself.                                           *)
Continue(a) ==
  \/ RecoveryUnderWay(a) \/ BeginRepair(a) \/ BeginLink(a)
  \/ Repair(a) \/ RepairDrops(a) \/ RepairRestores(a)
  \/ Link(a) \/ LinkExists(a) \/ ReadOwner(a)
  \/ OwnerLives(a) \/ Incomplete(a) \/ OwnerDead(a)
  \/ MoveAside(a) \/ MoveMisses(a) \/ CheckMoved(a) \/ Undo(a)
  \/ Relink(a) \/ RelinkExists(a) \/ RemoveAside(a) \/ Yield(a) \/ Revert(a)
  \/ LookForRival(a) \/ RivalPending(a) \/ RivalSettled(a) \/ LookAgain(a)
  \/ Unlink(a)

Next ==
  \/ \E a \in Attempts :
       \/ Acquire(a) \/ Continue(a) \/ LinkFails(a) \/ RelinkFails(a)
       \/ BeginRelease(a)
  \/ \E p \in Processes : Die(p)

Spec == Init /\ [][Next]_vars

(* Calls return; every loop is bounded by its timeout or its 40 attempts;  *)
(* a file that stays becomes old.                                          *)
Expires(a) == Continue(a) /\ stage'[a] \in {"busy", "held"}
Ages(a)    == BeginRepair(a) \/ OwnerDead(a)

Fairness == \A a \in Attempts :
  WF_vars(Continue(a)) /\ SF_vars(Expires(a)) /\ SF_vars(Ages(a))

FairSpec == Spec /\ Fairness

-----------------------------------------------------------------------------
(* Every variable has its type.                                            *)
TypeOK ==
  /\ file \in [Paths -> Contents] /\ aside \in [Paths -> Contents]
  /\ stage \in [Attempts -> Underway \cup Owning \cup {"idle", "done", "busy", "failed", "dead"}]
  /\ current \in [Attempts -> Contents]
  /\ alive \subseteq Processes

(* A lock has one owner at a time.                                         *)
Exclusive == \A a, b \in Attempts :
  a # b /\ PathOf[a] = PathOf[b] => ~(stage[a] \in Owning /\ stage[b] \in Owning)

(* Where no recovery is overtaken: of a live process, exactly the attempts *)
(* that have a lock have their nonce under its path.  No lock is taken     *)
(* from its owner, by a recovery or a release, and none stays, there or    *)
(* aside, that nobody would release.                                       *)
LockTellsOwner == \A a \in Attempts :
  ProcessOf[a] \in alive /\ PathOf[a] \notin Races =>
    /\ file[PathOf[a]] = a <=> stage[a] \in Owning \cup {"clean"}
    /\ aside[PathOf[a]] # a

(* A Node and an offline maintenance never run together, whatever locks    *)
(* dead processes left and whenever the two begin.                         *)
NodeOrMaintenance == \A a, b \in Attempts :
  Rival[PathOf[a]] = PathOf[b] => ~(stage[a] = "held" /\ stage[b] = "held")

(* Whatever dead processes left, at whichever step they died, and whatever *)
(* recoveries overtook each other before: a patient attempt that is alone  *)
(* gets the lock, unless it cannot write, could not tell who had it, or    *)
(* found it to be of a process that lives.                                 *)
AloneGetsLock == \A a \in Patient :
  (stage[a] \in Underway /\ Alone(a)) ~>
    \/ ~Alone(a)
    \/ stage[a] \in Owning \cup {"done", "failed", "dead"}
    \/ stage[a] = "busy" /\ (current[a] = Unknown \/ OwnerAlive(current[a]))
=============================================================================
