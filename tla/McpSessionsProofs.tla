-------------------------- MODULE McpSessionsProofs --------------------------
(***************************************************************************)
(* The safety properties of McpSessions, proved for any finite number of   *)
(* requests and entries, any credentials, limits and rotations.            *)
(*                                                                         *)
(* The counters need where each request stands (Standing), the closed      *)
(* server what it drains (Draining), and the quiet of an old credential    *)
(* that the lease of whoever still acts for it is among those its closing  *)
(* waits for (OldDrained).  The abort of a call whose session is closed    *)
(* needs that its controller is registered unless its id clashed (Keyed).  *)
(***************************************************************************)
EXTENDS McpSessions, FiniteSetTheorems, TLAPS

(* Identity, entry and lease of a request, by where it stands.             *)
Standing ==
  \A r \in Requests :
    /\ pc[r] = "idle" <=> who[r] = None
    /\ pc[r] \in Working <=> at[r] # None
    /\ r \in leases <=> pc[r] # "idle"

(* What closeEffect has still to wait for, and what it has taken away.     *)
Draining ==
  /\ closing => leases \subseteq server.waiting
  /\ server.stage \in {"draining", "closed", "failed"} => Live = {}
  /\ server.stage = "closed" => server.waiting = {}

(* Ids name live entries; an entry without one is being opened.            *)
Opener(r, e) == at[r] = e /\ pc[r] \in {"beginning", "opening"}
Named ==
  /\ named \subseteq Live
  /\ \A e \in Live \ named : \E r \in Requests : Opener(r, e)

(* Who is past its second authentication with a credential that was        *)
(* retired since is drained by the closing of that credential.             *)
Past == Working \cup {"checked"}
OldDrained ==
  \A c \in Credentials :
    /\ retire[c].upto <= version[c]
    /\ \A r \in Requests :
         pc[r] \in Past /\ who[r].cred = c /\ who[r].version < retire[c].upto =>
           retire[c].stage # "idle" /\ r \in retire[c].waiting

(* A call in progress has its controller registered under its id, unless   *)
(* another call of its session had that id; calls of equal id clashed.     *)
Keyed ==
  /\ \A r \in Requests : callId[r] # None => pc[r] \in {"calling", "opening"}
  /\ \A r \in calls : callId[r] # None
  /\ \A r \in Requests \ clashed : callId[r] # None => r \in calls
  /\ \A r, q \in Requests :
       r # q /\ at[r] = at[q] /\ callId[r] = callId[q] /\ callId[r] # None => r \in clashed

LeasesOf(c) == {r \in leases : who[r].cred = c}
UsersOf(e) == {r \in Requests : at[r] = e}

IInv == TypeOK /\ Standing /\ CountersAccounted /\ Draining /\ Named /\ OldDrained /\ Keyed

-----------------------------------------------------------------------------
(* Whatever is counted is finite.                                          *)
LEMMA AllFinite ==
  ASSUME TypeOK
  PROVE  /\ IsFiniteSet(Live) /\ IsFiniteSet(leases)
         /\ \A c : IsFiniteSet(OwnedBy(c)) /\ IsFiniteSet(LeasesOf(c))
         /\ \A e : IsFiniteSet(UsersOf(e))
<1>1. Live \in SUBSET Entries /\ leases \in SUBSET Requests
  BY DEF Live, TypeOK
<1>2. \A c : OwnedBy(c) \in SUBSET Entries /\ LeasesOf(c) \in SUBSET Requests
  BY <1>1 DEF OwnedBy, LeasesOf
<1>3. \A e : UsersOf(e) \in SUBSET Requests
  BY DEF UsersOf
<1>4. \A S \in SUBSET Entries : IsFiniteSet(S)
  BY FS_Subset, McpAssumption
<1>5. \A S \in SUBSET Requests : IsFiniteSet(S)
  BY FS_Subset, McpAssumption
<1> QED BY <1>1, <1>2, <1>3, <1>4, <1>5

(* Nobody is not an identity.                                              *)
LEMMA NobodyElse == None \notin Entries /\ None \notin Identities
BY McpAssumption DEF Identities

(* A request takes its lease with an identity that was current once.       *)
Takes(r) == \E c \in Credentials : TakeLease(r, c)

LEMMA Taken ==
  ASSUME TypeOK, NEW r \in Requests, Takes(r)
  PROVE  \E c \in Credentials, identity \in Identities :
           /\ pc[r] = "idle" /\ pc' = [pc EXCEPT ![r] = "reading"]
           /\ identity.cred = c /\ identity # None /\ who' = [who EXCEPT ![r] = identity]
           /\ Cardinality(leases) < MaxActive /\ leases' = leases \cup {r}
           /\ leasesBy[c] < MaxCredentialActive /\ leasesBy' = [leasesBy EXCEPT ![c] = @ + 1]
           /\ UNCHANGED <<version, at, callVars, sessionVars, closeVars>>
<1>1. PICK c \in Credentials : TakeLease(r, c)
  BY DEF Takes
<1>2. PICK v \in 0 .. version[c] : who' = [who EXCEPT ![r] = [cred |-> c, version |-> v]]
  BY <1>1 DEF TakeLease
<1>3. version[c] \in 0 .. MaxRotation /\ MaxRotation \in Nat
  BY McpAssumption DEF TypeOK
<1>4. v \in 0 .. MaxRotation
  BY <1>2, <1>3
<1>5. [cred |-> c, version |-> v] \in Identities
  BY <1>4 DEF Identities
<1>6. [cred |-> c, version |-> v] # None
  BY <1>5, NobodyElse
<1>7. [cred |-> c, version |-> v].cred = c
  OBVIOUS
<1> QED BY <1>1, <1>2, <1>5, <1>6, <1>7 DEF TakeLease, MayLease, Goto

(* Whoever has begun to read has identity and lease.                       *)
LEMMA Admitted ==
  ASSUME TypeOK, Standing, NEW r \in Requests, pc[r] # "idle"
  PROVE  /\ r \in leases /\ who[r] \in Identities /\ who[r].cred \in Credentials
         /\ pc[r] \notin Working => at[r] = None
<1>1. r \in leases /\ who[r] # None /\ (pc[r] \notin Working => at[r] = None)
  BY DEF Standing
<1>2. who[r] \in Identities
  BY <1>1 DEF TypeOK
<1> QED BY <1>1, <1>2 DEF Identities

(* The end of a request, with or without its lease.                        *)
LEMMA Ends ==
  ASSUME TypeOK, NEW r \in Requests, NEW others, FinishAborting(r, others)
  PROVE  /\ pc' = [pc EXCEPT ![r] = "idle"] /\ who' = [who EXCEPT ![r] = None]
         /\ at' = [at EXCEPT ![r] = None] /\ leases' = leases \ {r}
BY DEF FinishAborting, FinishLease

-----------------------------------------------------------------------------
(* What a step may do to the sessions: take some out of the maps, add one, *)
(* or leave them.                                                          *)
LEMMA SessionSteps ==
  ASSUME IInv, [Next]_vars
  PROVE  \/ \E gone \in SUBSET Entries : Release(gone)
         \/ \E r \in Requests : OpenSession(r)
         \/ UNCHANGED <<owner, slots, slotsBy>>
<1>1. ASSUME NEW r \in Requests, RequestStep(r)
      PROVE  \/ \E gone \in SUBSET Entries : Release(gone)
             \/ OpenSession(r)
             \/ UNCHANGED <<owner, slots, slotsBy>>
  <2>1. CASE \E e \in Entries : DeleteSession(r, e)
    BY <2>1 DEF DeleteSession
  <2>2. CASE OpenFails(r)
    <3>1. at[r] \in Entries
      BY <2>2 DEF OpenFails, IInv, TypeOK, Standing, Working
    <3> QED BY <3>1, <2>2 DEF OpenFails
  <2>3. CASE OpenSession(r)
    BY <2>3
  <2>4. CASE \/ Takes(r) \/ BodyRead(r) \/ BodyRefused(r)
             \/ Refresh(r) \/ RefreshRefused(r) \/ NoSession(r) \/ RefuseSession(r)
             \/ \E e \in Entries : UseSession(r, e)
    BY <2>4 DEF Takes, TakeLease, BodyRead, BodyRefused, Refresh,
                RefreshRefused, NoSession, RefuseSession, UseSession, sessionVars
  <2>5. CASE \/ (\E i \in CallIds : BeginCall(r, i)) \/ BeginOther(r) \/ HandlerReturns(r) \/ Opened(r)
             \/ \E q \in Requests : Cancel(r, q)
    BY <2>5 DEF BeginCall, BeginOther, HandlerReturns, Opened, Cancel, sessionVars
  <2> QED BY <1>1, <2>1, <2>2, <2>3, <2>4, <2>5 DEF RequestStep, Takes
<1>2. ASSUME NEW c \in Credentials, CredentialStep(c)
      PROVE  \/ \E gone \in SUBSET Entries : Release(gone)
             \/ UNCHANGED <<owner, slots, slotsBy>>
  <2>1. OwnedBy(c) \in SUBSET Entries
    BY DEF OwnedBy, Live
  <2> QED BY <1>2, <2>1 DEF CredentialStep, Rotate, CloseCredential, CredentialClosed,
                            CredentialTimesOut, sessionVars
<1>3. CASE ServerStep
  <2>1. Live \in SUBSET Entries
    BY DEF Live
  <2> QED BY <1>3, <2>1 DEF ServerStep, SweepIdle, BeginClose, CloseSessions, ServerClosed,
                            ServerTimesOut, sessionVars
<1>4. CASE UNCHANGED vars
  BY <1>4 DEF vars, sessionVars
<1> QED BY <1>1, <1>2, <1>3, <1>4 DEF Next

(* Releasing takes exactly these entries from the maps.                    *)
LEMMA Released ==
  ASSUME TypeOK, NEW gone \in SUBSET Entries, Release(gone)
  PROVE  Live' = Live \ gone /\ \A c \in Credentials : OwnedBy(c)' = OwnedBy(c) \ gone
<1>1. \A e \in Entries : owner'[e] = IF e \in gone THEN None ELSE owner[e]
  BY DEF Release
<1>2. Live' = Live \ gone
  BY <1>1 DEF Live
<1>3. \A c \in Credentials : OwnedBy(c)' = OwnedBy(c) \ gone
  BY <1>1, <1>2 DEF OwnedBy, Live
<1> QED BY <1>2, <1>3

(* Opening adds one entry that nobody refers to.                           *)
LEMMA Opens ==
  ASSUME TypeOK, Standing, NEW r \in Requests, OpenSession(r)
  PROVE  \E e \in Entries :
           /\ e \notin Live /\ \A q \in Requests : at[q] # e
           /\ Live' = Live \cup {e}
           /\ \A c \in Credentials :
                OwnedBy(c)' = IF c = who[r].cred THEN OwnedBy(c) \cup {e} ELSE OwnedBy(c)
           /\ at' = [at EXCEPT ![r] = e]
           /\ owner' = [owner EXCEPT ![e] = who[r]]
           /\ active' = [active EXCEPT ![e] = 1]
<1>1. PICK e \in NextEntry : /\ at' = [at EXCEPT ![r] = e]
                             /\ owner' = [owner EXCEPT ![e] = who[r]]
                             /\ active' = [active EXCEPT ![e] = 1]
  BY DEF OpenSession
<1>2. e \in Entries /\ e \notin Live /\ \A q \in Requests : at[q] # e
  BY DEF NextEntry
<1>3. who[r] # None
  BY Admitted, NobodyElse DEF OpenSession
<1>4. Live' = Live \cup {e}
  BY <1>1, <1>2, <1>3 DEF Live, TypeOK
<1>5. \A f \in Entries : owner'[f] = IF f = e THEN who[r] ELSE owner[f]
  BY <1>1 DEF TypeOK
<1>6. \A c \in Credentials :
        OwnedBy(c)' = IF c = who[r].cred THEN OwnedBy(c) \cup {e} ELSE OwnedBy(c)
  BY <1>2, <1>4, <1>5 DEF OwnedBy, Live
<1> QED BY <1>1, <1>2, <1>4, <1>6

SlotsCounted ==
  /\ slots = Cardinality(Live) /\ slots <= MaxSessions
  /\ \A c \in Credentials :
       slotsBy[c] = Cardinality(OwnedBy(c)) /\ slotsBy[c] <= MaxCredentialSessions

(* What a set loses is what it had of them.                                *)
LEMMA Loses ==
  ASSUME NEW S, NEW T, IsFiniteSet(S)
  PROVE  /\ Cardinality(S \ T) = Cardinality(S) - Cardinality(T \cap S)
         /\ Cardinality(S \ T) \in Nat /\ Cardinality(S \ T) <= Cardinality(S)
<1>1. Cardinality(S \ T) = Cardinality(S) - Cardinality(S \cap T) /\ IsFiniteSet(S \ T)
  BY FS_Difference
<1>2. S \cap T = T \cap S /\ S \cap T \in SUBSET S
  OBVIOUS
<1>3. IsFiniteSet(S \cap T)
  BY <1>2, FS_Subset
<1>4. Cardinality(S \ T) \in Nat /\ Cardinality(S) \in Nat /\ Cardinality(S \cap T) \in Nat
  BY <1>1, <1>3, FS_CardinalityType
<1> QED BY <1>1, <1>2, <1>4

(* The slots count the entries whatever path takes them out.               *)
LEMMA SlotsStep ==
  ASSUME IInv, [Next]_vars
  PROVE  SlotsCounted'
<1> USE DEF IInv
<1>a. SlotsCounted
  BY DEF CountersAccounted, SlotsAccounted, SlotsCounted
<1>b. /\ {MaxSessions, MaxCredentialSessions} \subseteq Nat /\ slots \in Nat
      /\ slotsBy \in [Credentials -> Nat]
  BY McpAssumption DEF TypeOK
<1>1. CASE \E gone \in SUBSET Entries : Release(gone)
  <2> PICK gone \in SUBSET Entries : Release(gone)
    BY <1>1
  <2>1. slots' = Cardinality(Live') /\ slots' <= MaxSessions
    <3>1. Live' = Live \ gone /\ slots' = slots - Cardinality(gone \cap Live)
      BY Released DEF Release
    <3>2. /\ Cardinality(Live \ gone) = Cardinality(Live) - Cardinality(gone \cap Live)
          /\ Cardinality(Live \ gone) \in Nat /\ Cardinality(Live \ gone) <= Cardinality(Live)
      BY Loses, AllFinite
    <3> QED BY <3>1, <3>2, <1>a, <1>b DEF SlotsCounted
  <2>2. ASSUME NEW c \in Credentials
        PROVE  slotsBy'[c] = Cardinality(OwnedBy(c)') /\ slotsBy'[c] <= MaxCredentialSessions
    <3>1. /\ OwnedBy(c)' = OwnedBy(c) \ gone
          /\ slotsBy'[c] = slotsBy[c] - Cardinality(gone \cap OwnedBy(c))
      BY Released DEF Release
    <3>2. /\ Cardinality(OwnedBy(c) \ gone) =
               Cardinality(OwnedBy(c)) - Cardinality(gone \cap OwnedBy(c))
          /\ Cardinality(OwnedBy(c) \ gone) \in Nat
          /\ Cardinality(OwnedBy(c) \ gone) <= Cardinality(OwnedBy(c))
      BY Loses, AllFinite
    <3> QED BY <3>1, <3>2, <1>a, <1>b DEF SlotsCounted
  <2> QED BY <2>1, <2>2 DEF SlotsCounted
<1>2. CASE \E r \in Requests : OpenSession(r)
  <2> PICK r \in Requests : OpenSession(r)
    BY <1>2
  <2>1. /\ slots' = slots + 1 /\ slots < MaxSessions
        /\ slotsBy' = [slotsBy EXCEPT ![who[r].cred] = @ + 1]
        /\ slotsBy[who[r].cred] < MaxCredentialSessions
    BY DEF OpenSession, MayOpen
  <2>2. PICK e \in Entries :
          /\ e \notin Live /\ Live' = Live \cup {e}
          /\ \A c \in Credentials :
               OwnedBy(c)' = IF c = who[r].cred THEN OwnedBy(c) \cup {e} ELSE OwnedBy(c)
    BY Opens
  <2>3. slots' = Cardinality(Live') /\ slots' <= MaxSessions
    <3>1. Cardinality(Live \cup {e}) = Cardinality(Live) + 1
      BY <2>2, AllFinite, FS_AddElement
    <3> QED BY <2>1, <2>2, <3>1, <1>a, <1>b DEF SlotsCounted
  <2>4. ASSUME NEW c \in Credentials
        PROVE  slotsBy'[c] = Cardinality(OwnedBy(c)') /\ slotsBy'[c] <= MaxCredentialSessions
    <3>1. e \notin OwnedBy(c)
      BY <2>2 DEF OwnedBy
    <3>2. Cardinality(OwnedBy(c) \cup {e}) = Cardinality(OwnedBy(c)) + 1
      BY <3>1, AllFinite, FS_AddElement
    <3>3. CASE c = who[r].cred
      <4>1. slotsBy'[c] = slotsBy[c] + 1 /\ slotsBy[c] < MaxCredentialSessions
        BY <2>1, <3>3, <1>b
      <4>2. OwnedBy(c)' = OwnedBy(c) \cup {e}
        BY <2>2, <3>3
      <4>3. slotsBy[c] = Cardinality(OwnedBy(c)) /\ slotsBy[c] \in Nat
        BY <1>a, <1>b DEF SlotsCounted
      <4> QED BY <4>1, <4>2, <4>3, <3>2, <1>b
    <3>4. CASE c # who[r].cred
      BY <2>1, <2>2, <3>4, <1>a, <1>b DEF SlotsCounted
    <3> QED BY <3>3, <3>4
  <2> QED BY <2>3, <2>4 DEF SlotsCounted
<1>3. CASE UNCHANGED <<owner, slots, slotsBy>>
  BY <1>3, <1>a DEF SlotsCounted, Live, OwnedBy
<1> QED BY <1>1, <1>2, <1>3, SessionSteps

-----------------------------------------------------------------------------
(* A request's step leaves the other requests where they are; any other    *)
(* step all of them.                                                       *)
Same(q) == pc'[q] = pc[q] /\ who'[q] = who[q] /\ at'[q] = at[q] /\ (q \in leases' <=> q \in leases)

(* A step of one request leaves where the others stand.                    *)
LEMMA OthersKeep ==
  ASSUME TypeOK, NEW r \in Requests, RequestStep(r), NEW q \in Requests, q # r
  PROVE  Same(q)
<1>1. CASE \E others : FinishAborting(r, others)
  BY <1>1, Ends DEF Same, TypeOK
<1>2. CASE \/ BodyRefused(r) \/ RefreshRefused(r) \/ NoSession(r) \/ RefuseSession(r)
           \/ HandlerReturns(r) \/ Opened(r)
  BY <1>1, <1>2 DEF BodyRefused, RefreshRefused, NoSession, RefuseSession, HandlerReturns,
                    Opened, Finish
<1>3. CASE OpenFails(r) \/ \E e \in Entries : DeleteSession(r, e)
  BY <1>1, <1>3 DEF OpenFails, DeleteSession
<1>4. CASE \/ Takes(r) \/ BodyRead(r) \/ Refresh(r)
  BY <1>4 DEF Takes, TakeLease, BodyRead, Refresh, Goto, leaseVars, Same, TypeOK
<1>5. CASE \E e \in Entries : UseSession(r, e)
  BY <1>5 DEF UseSession, Goto, leaseVars, Same, TypeOK
<1>6. CASE OpenSession(r)
  BY <1>6 DEF OpenSession, Goto, leaseVars, Same, TypeOK
<1>7. CASE \/ (\E i \in CallIds : BeginCall(r, i)) \/ BeginOther(r) \/ \E p \in Requests : Cancel(r, p)
  BY <1>7 DEF BeginCall, BeginOther, Cancel, Goto, leaseVars, Same, TypeOK
<1> QED BY <1>2, <1>3, <1>4, <1>5, <1>6, <1>7 DEF RequestStep, Takes

(* Nothing of a request is None.                                           *)
LEMMA NoRequest ==
  ASSUME \/ \E c \in Credentials : CredentialStep(c)
         \/ ServerStep \/ UNCHANGED vars
  PROVE  UNCHANGED <<pc, who, at, leases, leasesBy>>
BY DEF CredentialStep, ServerStep, Rotate, CloseCredential, CredentialClosed, CredentialTimesOut,
       SweepIdle, BeginClose, CloseSessions, ServerClosed, ServerTimesOut, vars, requestVars, leaseVars

(* A request that finishes returns its lease; it had one.                  *)
Finishes(r) == \E others : FinishAborting(r, others)

(* A request that ends gives up its entry.                                 *)
LEMMA FinishesHeld ==
  ASSUME IInv, NEW r \in Requests, RequestStep(r)
  PROVE  \/ pc[r] # "idle" /\ Finishes(r)
         \/ Takes(r)
         \/ /\ UNCHANGED <<leases, leasesBy, server, retire>>
            /\ pc[r] # "idle" => who'[r] = who[r]
<1>1. CASE \/ BodyRefused(r) \/ RefreshRefused(r) \/ NoSession(r) \/ RefuseSession(r)
           \/ HandlerReturns(r) \/ Opened(r)
  BY <1>1 DEF BodyRefused, RefreshRefused, NoSession, RefuseSession, HandlerReturns,
              Opened, Finish, Finishes
<1>2. CASE OpenFails(r) \/ \E e \in Entries : DeleteSession(r, e)
  BY <1>2 DEF OpenFails, DeleteSession, Finishes
<1>3. CASE BodyRead(r) \/ Refresh(r)
  BY <1>3 DEF BodyRead, Refresh, leaseVars, closeVars
<1>4. CASE \/ \E e \in Entries : UseSession(r, e)
           \/ OpenSession(r) \/ (\E i \in CallIds : BeginCall(r, i)) \/ BeginOther(r) \/ \E p \in Requests : Cancel(r, p)
  BY <1>4 DEF UseSession, OpenSession, BeginCall, BeginOther, Cancel, leaseVars, closeVars
<1> QED BY <1>1, <1>2, <1>3, <1>4 DEF RequestStep, Takes

LeasesCounted ==
  /\ Cardinality(leases) <= MaxActive
  /\ \A c \in Credentials :
       leasesBy[c] = Cardinality(LeasesOf(c)) /\ leasesBy[c] <= MaxCredentialActive

(* A request that takes its lease is counted with it, in all and for its   *)
(* credential ...                                                          *)
LEMMA LeaseTaken ==
  ASSUME IInv, LeasesCounted, NEW r \in Requests, Takes(r)
  PROVE  LeasesCounted'
<1> USE DEF IInv
<1> PICK d \in Credentials, identity \in Identities :
      /\ pc[r] = "idle" /\ pc' = [pc EXCEPT ![r] = "reading"]
      /\ identity.cred = d /\ identity # None /\ who' = [who EXCEPT ![r] = identity]
      /\ Cardinality(leases) < MaxActive /\ leases' = leases \cup {r}
      /\ leasesBy[d] < MaxCredentialActive /\ leasesBy' = [leasesBy EXCEPT ![d] = @ + 1]
      /\ UNCHANGED <<version, at, callVars, sessionVars, closeVars>>
  BY Taken
<1>1. who'[r].cred = d /\ \A q \in Requests \ {r} : who'[q] = who[q]
  BY DEF TypeOK
<1>2. r \notin leases /\ leases \subseteq Requests
  BY DEF Standing, TypeOK
<1>3. {MaxActive, MaxCredentialActive} \subseteq Nat /\ leasesBy \in [Credentials -> Nat]
  BY McpAssumption DEF TypeOK
<1>4. Cardinality(leases') <= MaxActive
  <2>1. Cardinality(leases \cup {r}) = Cardinality(leases) + 1 /\ Cardinality(leases) \in Nat
    BY <1>2, AllFinite, FS_AddElement, FS_CardinalityType
  <2> QED BY <1>1, <1>3, <2>1
<1>5. ASSUME NEW c \in Credentials
      PROVE  leasesBy'[c] = Cardinality(LeasesOf(c)') /\ leasesBy'[c] <= MaxCredentialActive
  <2>1. CASE c = d
    <3>1. LeasesOf(c)' = LeasesOf(c) \cup {r} /\ r \notin LeasesOf(c)
      BY <1>1, <1>2, <2>1 DEF LeasesOf
    <3>2. Cardinality(LeasesOf(c) \cup {r}) = Cardinality(LeasesOf(c)) + 1
      BY <3>1, AllFinite, FS_AddElement
    <3>3. leasesBy'[c] = leasesBy[c] + 1 /\ leasesBy[c] < MaxCredentialActive
      BY <1>1, <1>3, <2>1
    <3>4. leasesBy[c] = Cardinality(LeasesOf(c)) /\ leasesBy[c] \in Nat
      BY <1>3 DEF LeasesCounted
    <3> QED BY <3>1, <3>2, <3>3, <3>4, <1>3
  <2>2. CASE c # d
    <3>1. LeasesOf(c)' = LeasesOf(c)
      <4>1. LeasesOf(c)' = {q \in leases' : who'[q].cred = c}
        BY DEF LeasesOf
      <4>2. \A q : q \in leases' /\ who'[q].cred = c <=> q \in leases /\ who[q].cred = c
        BY <1>1, <1>2, <2>2
      <4> QED BY <4>1, <4>2 DEF LeasesOf
    <3>2. leasesBy'[c] = leasesBy[c]
      BY <1>1, <1>3, <2>2
    <3> QED BY <3>1, <3>2 DEF LeasesCounted
  <2> QED BY <2>1, <2>2
<1> QED BY <1>4, <1>5 DEF LeasesCounted

(* ... and no longer when it ends.                                         *)
LEMMA LeaseReturned ==
  ASSUME IInv, LeasesCounted, NEW r \in Requests, pc[r] # "idle", Finishes(r)
  PROVE  LeasesCounted'
<1> USE DEF IInv
<1> PICK others : FinishAborting(r, others)
  BY DEF Finishes
<1>1. /\ leases' = leases \ {r} /\ leasesBy' = [leasesBy EXCEPT ![who[r].cred] = @ - 1]
      /\ who' = [who EXCEPT ![r] = None]
  BY DEF FinishAborting, FinishLease
<1>2. r \in leases /\ who[r].cred \in Credentials
  BY Admitted
<1>3. {MaxActive, MaxCredentialActive} \subseteq Nat /\ leasesBy \in [Credentials -> Nat]
  BY McpAssumption DEF TypeOK
<1>4. Cardinality(leases') <= MaxActive
  <2>1. Cardinality(leases \ {r}) = Cardinality(leases) - 1 /\ Cardinality(leases) \in Nat
    BY <1>2, AllFinite, FS_RemoveElement, FS_CardinalityType
  <2> QED BY <1>1, <1>3, <2>1 DEF LeasesCounted
<1>5. ASSUME NEW c \in Credentials
      PROVE  leasesBy'[c] = Cardinality(LeasesOf(c)') /\ leasesBy'[c] <= MaxCredentialActive
  <2>0. \A q \in leases' : who'[q] = who[q]
    BY <1>1 DEF TypeOK
  <2>1. CASE c = who[r].cred
    <3>1. LeasesOf(c)' = LeasesOf(c) \ {r} /\ r \in LeasesOf(c)
      BY <1>1, <1>2, <2>0, <2>1 DEF LeasesOf
    <3>2. Cardinality(LeasesOf(c) \ {r}) = Cardinality(LeasesOf(c)) - 1
      BY <3>1, AllFinite, FS_RemoveElement
    <3>3. leasesBy'[c] = leasesBy[c] - 1
      BY <1>1, <1>3, <2>1
    <3>4. /\ leasesBy[c] = Cardinality(LeasesOf(c)) /\ leasesBy[c] \in Nat
          /\ leasesBy[c] <= MaxCredentialActive
      BY <1>3 DEF LeasesCounted
    <3> QED BY <3>1, <3>2, <3>3, <3>4, <1>3
  <2>2. CASE c # who[r].cred
    <3>1. LeasesOf(c)' = LeasesOf(c)
      BY <1>1, <2>0, <2>2 DEF LeasesOf
    <3>2. leasesBy'[c] = leasesBy[c]
      BY <1>1, <1>3, <2>2
    <3> QED BY <3>1, <3>2 DEF LeasesCounted
  <2> QED BY <2>1, <2>2
<1> QED BY <1>4, <1>5 DEF LeasesCounted

(* A lease is there exactly while its request is past the door.            *)
LEMMA LeasesStep ==
  ASSUME IInv, [Next]_vars
  PROVE  LeasesCounted'
<1> USE DEF IInv
<1>0. LeasesCounted
  BY DEF CountersAccounted, SlotsAccounted, LeasesCounted, LeasesOf
<1>1. ASSUME NEW r \in Requests, RequestStep(r)
      PROVE  LeasesCounted'
  <2>1. CASE /\ UNCHANGED <<leases, leasesBy>>
             /\ pc[r] # "idle" => who'[r] = who[r]
    <3>1. \A q \in leases : who'[q] = who[q]
      BY <1>1, <2>1, OthersKeep DEF Same, Standing, TypeOK
    <3>2. \A c \in Credentials : LeasesOf(c)' = LeasesOf(c)
      BY <2>1, <3>1 DEF LeasesOf
    <3> QED BY <1>0, <2>1, <3>2 DEF LeasesCounted
  <2> QED BY <1>0, <1>1, <2>1, FinishesHeld, LeaseTaken, LeaseReturned
<1>2. CASE UNCHANGED <<pc, who, at, leases, leasesBy>>
  BY <1>0, <1>2 DEF LeasesCounted, LeasesOf
<1> QED BY <1>1, <1>2, NoRequest DEF Next

-----------------------------------------------------------------------------
(* Every step keeps where the requests stand.                              *)
LEMMA StandingStep ==
  ASSUME IInv, [Next]_vars
  PROVE  Standing'
<1> USE DEF IInv
<1>1. ASSUME NEW r \in Requests, RequestStep(r)
      PROVE  Standing'
  <2> DEFINE Stands(q) == /\ pc[q] = "idle" <=> who[q] = None
                          /\ pc[q] \in Working <=> at[q] # None
                          /\ q \in leases <=> pc[q] # "idle"
  <2>1. \A q \in Requests \ {r} : Stands(q)'
    BY <1>1, OthersKeep DEF Same, Standing
  <2>2. Stands(r)'
    <3>0. Stands(r) /\ pc[r] \in RequestPcs
      BY DEF Standing, TypeOK
    <3>1. CASE Finishes(r)
      <4>1. pc'[r] = "idle" /\ who'[r] = None /\ at'[r] = None /\ r \notin leases'
        BY <3>1, Ends DEF Finishes, TypeOK
      <4> QED BY <4>1 DEF Working
    <3>2. CASE Takes(r)
      <4>1. pc'[r] = "reading" /\ pc[r] = "idle" /\ who'[r] # None /\ at' = at /\ r \in leases'
        BY <3>2, Taken DEF TypeOK
      <4> QED BY <3>0, <4>1 DEF Working
    <3>4. CASE BodyRead(r) \/ Refresh(r)
      BY <3>0, <3>4 DEF BodyRead, Refresh, Goto, Working, leaseVars, TypeOK
    <3>5. CASE \E e \in Entries : UseSession(r, e)
      BY <3>0, <3>5, NobodyElse DEF UseSession, Goto, Working, leaseVars, TypeOK
    <3>6. CASE OpenSession(r)
      <4>1. at'[r] # None
        BY <3>6, Opens, NobodyElse DEF TypeOK
      <4> QED BY <3>0, <3>6, <4>1 DEF OpenSession, Goto, Working, leaseVars, TypeOK
    <3>7. CASE (\E i \in CallIds : BeginCall(r, i)) \/ BeginOther(r) \/ \E q \in Requests : Cancel(r, q)
      BY <3>0, <3>7 DEF BeginCall, BeginOther, Cancel, Goto, HandlerPc, Working, leaseVars, TypeOK
    <3>8. CASE \/ BodyRefused(r) \/ RefreshRefused(r) \/ NoSession(r) \/ RefuseSession(r)
               \/ HandlerReturns(r) \/ Opened(r)
               \/ OpenFails(r) \/ \E e \in Entries : DeleteSession(r, e)
      <4>1. Finishes(r)
        BY <3>8 DEF BodyRefused, RefreshRefused, NoSession, RefuseSession, HandlerReturns,
                    Opened, OpenFails, DeleteSession, Finish, Finishes
      <4> QED BY <4>1, <3>1
    <3> QED BY <1>1, <3>2, <3>4, <3>5, <3>6, <3>7, <3>8 DEF RequestStep, Takes
  <2> QED BY <2>1, <2>2 DEF Standing
<1>2. CASE UNCHANGED <<pc, who, at, leases, leasesBy>>
  BY <1>2 DEF Standing
<1> QED BY <1>1, <1>2, NoRequest DEF Next

-----------------------------------------------------------------------------
(* A session in the maps counts whoever was admitted to it.                *)
LEMMA UserCounted ==
  ASSUME IInv, NEW r \in Requests, at[r] \in Live
  PROVE  active[at[r]] = Cardinality(UsersOf(at[r])) /\ active[at[r]] \in Nat /\ active[at[r]] > 0
<1> USE DEF IInv
<1>1. active[at[r]] = Cardinality(UsersOf(at[r]))
  BY DEF CountersAccounted, ActiveAccounted, UsersOf
<1>2. Cardinality(UsersOf(at[r])) # 0
  <2>1. r \in UsersOf(at[r])
    BY DEF UsersOf
  <2> QED BY <2>1, AllFinite, FS_EmptySet
<1>3. active[at[r]] \in Nat
  BY DEF TypeOK, Live
<1> QED BY <1>1, <1>2, <1>3

UsersCounted == \A e \in Live : active[e] = Cardinality(UsersOf(e))

(* Where neither the sessions there are nor their users change.            *)
LEMMA UsersKept ==
  ASSUME UsersCounted, Live' \subseteq Live, \A e \in Live' : active'[e] = active[e],
         \A q \in Requests : at'[q] = at[q] \/ (at[q] \notin Live' /\ at'[q] \notin Live')
  PROVE  UsersCounted'
<1>1. ASSUME NEW e \in Live'
      PROVE  active'[e] = Cardinality(UsersOf(e)')
  <2>1. UsersOf(e)' = UsersOf(e)
    BY <1>1 DEF UsersOf
  <2> QED BY <1>1, <2>1 DEF UsersCounted
<1> QED BY <1>1 DEF UsersCounted

(* Who uses an entry, where no request moves.                              *)
LEMMA UsersUntouched ==
  ASSUME UsersCounted, owner' = owner, active' = active, \A q \in Requests : at'[q] = at[q]
  PROVE  UsersCounted'
<1>1. Live' = Live
  BY DEF Live
<1> QED BY <1>1, UsersKept

(* A request that enters an entry is one user more.                        *)
LEMMA UsersEnter ==
  ASSUME IInv, UsersCounted, NEW r \in Requests, NEW e \in Entries, UseSession(r, e)
  PROVE  UsersCounted'
<1> USE DEF IInv
<1>1. /\ at' = [at EXCEPT ![r] = e] /\ active' = [active EXCEPT ![e] = @ + 1]
      /\ Live' = Live /\ at[r] = None
  BY Admitted DEF UseSession, Working, Live
<1>2. ASSUME NEW f \in Live
      PROVE  active'[f] = Cardinality(UsersOf(f)')
  <2>0. f \in Entries /\ f # None
    BY NobodyElse DEF Live
  <2>1. CASE f = e
    <3>1. UsersOf(f)' = UsersOf(f) \cup {r} /\ r \notin UsersOf(f)
      BY <1>1, <2>0, <2>1 DEF UsersOf, TypeOK
    <3>2. Cardinality(UsersOf(f) \cup {r}) = Cardinality(UsersOf(f)) + 1
      BY <3>1, AllFinite, FS_AddElement
    <3>3. active'[f] = active[f] + 1
      BY <1>1, <2>1 DEF TypeOK
    <3> QED BY <3>1, <3>2, <3>3 DEF UsersCounted
  <2>2. CASE f # e
    <3>1. UsersOf(f)' = UsersOf(f)
      BY <1>1, <2>0, <2>2 DEF UsersOf, TypeOK
    <3>2. active'[f] = active[f]
      BY <1>1, <2>0, <2>2 DEF TypeOK
    <3> QED BY <3>1, <3>2 DEF UsersCounted
  <2> QED BY <2>1, <2>2
<1> QED BY <1>1, <1>2 DEF UsersCounted

(* A request that opens an entry is its only user.                         *)
LEMMA UsersOpen ==
  ASSUME IInv, UsersCounted, NEW r \in Requests, OpenSession(r)
  PROVE  UsersCounted'
<1> USE DEF IInv
<1>1. PICK e \in Entries :
        /\ \A q \in Requests : at[q] # e
        /\ Live' = Live \cup {e}
        /\ at' = [at EXCEPT ![r] = e]
        /\ active' = [active EXCEPT ![e] = 1]
  BY Opens
<1>2. at[r] = None
  BY Admitted DEF OpenSession, Working
<1>3. ASSUME NEW f \in Live'
      PROVE  active'[f] = Cardinality(UsersOf(f)')
  <2>1. CASE f = e
    <3>1. UsersOf(f)' = {r}
      BY <1>1, <2>1 DEF UsersOf, TypeOK
    <3>2. Cardinality({r}) = 1
      BY FS_Singleton
    <3> QED BY <3>1, <3>2, <1>1, <2>1 DEF TypeOK
  <2>2. CASE f # e
    <3>0. f \in Live /\ f \in Entries /\ f # None
      BY <1>1, <1>3, <2>2, NobodyElse DEF Live
    <3>1. UsersOf(f)' = UsersOf(f)
      BY <1>1, <1>2, <3>0, <2>2 DEF UsersOf, TypeOK
    <3>2. active'[f] = active[f]
      BY <1>1, <3>0, <2>2 DEF TypeOK
    <3> QED BY <3>0, <3>1, <3>2 DEF UsersCounted
  <2> QED BY <2>1, <2>2
<1> QED BY <1>3 DEF UsersCounted

(* A request that leaves an entry is one user less.                        *)
LEMMA UsersLeave ==
  ASSUME IInv, UsersCounted, NEW r \in Requests, HandlerReturns(r) \/ Opened(r)
  PROVE  UsersCounted'
<1> USE DEF IInv
<1>1. Leave(r) /\ at' = [at EXCEPT ![r] = None] /\ Live' = Live
  BY DEF HandlerReturns, Opened, Finish, FinishAborting, Live
<1>2. CASE at[r] \notin Live
  <2>1. \A e \in Live : active'[e] = active[e]
    BY <1>1, <1>2 DEF Leave, Live, TypeOK
  <2>2. None \notin Live
    BY NobodyElse DEF Live
  <2>3. \A q \in Requests : at'[q] = IF q = r THEN None ELSE at[q]
    BY <1>1 DEF TypeOK
  <2>4. \A q \in Requests : at'[q] = at[q] \/ (at[q] \notin Live' /\ at'[q] \notin Live')
    BY <1>1, <1>2, <2>2, <2>3
  <2> QED BY <1>1, <2>1, <2>4, UsersKept
<1>3. CASE at[r] \in Live
  <2> SUFFICES ASSUME NEW f \in Live
               PROVE  active'[f] = Cardinality(UsersOf(f)')
    BY <1>1 DEF UsersCounted
  <2>0. f \in Entries /\ f # None
    BY NobodyElse DEF Live
  <2>1. CASE f = at[r]
    <3>1. UsersOf(f)' = UsersOf(f) \ {r} /\ r \in UsersOf(f)
      BY <1>1, <2>0, <2>1 DEF UsersOf, TypeOK
    <3>2. Cardinality(UsersOf(f) \ {r}) = Cardinality(UsersOf(f)) - 1
      BY <3>1, AllFinite, FS_RemoveElement
    <3>3. active'[f] = active[f] - 1
      BY <1>1, <1>3, <2>0, <2>1 DEF Leave, TypeOK
    <3> QED BY <3>1, <3>2, <3>3 DEF UsersCounted
  <2>2. CASE f # at[r]
    <3>1. UsersOf(f)' = UsersOf(f)
      BY <1>1, <2>0, <2>2 DEF UsersOf, TypeOK
    <3>2. active'[f] = active[f]
      BY <1>1, <2>0, <2>2 DEF Leave, TypeOK
    <3> QED BY <3>1, <3>2 DEF UsersCounted
  <2> QED BY <2>1, <2>2
<1> QED BY <1>2, <1>3

(* An entry that is taken out leaves those of the others as they are.      *)
LEMMA UsersReleased ==
  ASSUME IInv, UsersCounted, NEW gone \in SUBSET Entries, Release(gone),
         \A q \in Requests : at'[q] = at[q] \/ (at[q] \in gone \cup {None} /\ at'[q] = None)
  PROVE  UsersCounted'
<1> USE DEF IInv
<1>1. Live' = Live \ gone
  BY Released
<1>2. \A e \in Live' : active'[e] = active[e]
  BY <1>1 DEF Release, Live
<1>3. None \notin Live
  BY NobodyElse DEF Live
<1> QED BY <1>1, <1>2, <1>3, UsersKept

(* Every step keeps the users counted.                                     *)
LEMMA UsersStep ==
  ASSUME IInv, [Next]_vars
  PROVE  UsersCounted'
<1> USE DEF IInv
<1>0. UsersCounted
  BY DEF CountersAccounted, ActiveAccounted, UsersCounted, UsersOf
<1>1. ASSUME NEW r \in Requests, RequestStep(r)
      PROVE  UsersCounted'
  <2>1. CASE BodyRefused(r) \/ RefreshRefused(r) \/ NoSession(r) \/ RefuseSession(r)
    <3>1. at[r] = None
      BY <2>1, Admitted DEF BodyRefused, RefreshRefused, NoSession, RefuseSession, Working
    <3>2. at' = [at EXCEPT ![r] = None] /\ UNCHANGED <<owner, active>>
      BY <2>1 DEF BodyRefused, RefreshRefused, NoSession, RefuseSession, Finish, FinishAborting,
                  sessionVars
    <3>3. \A q \in Requests : at'[q] = at[q]
      BY <3>1, <3>2 DEF TypeOK
    <3> QED BY <1>0, <3>2, <3>3, UsersUntouched
  <2>2. CASE \/ Takes(r) \/ BodyRead(r) \/ Refresh(r)
             \/ (\E i \in CallIds : BeginCall(r, i)) \/ BeginOther(r) \/ \E q \in Requests : Cancel(r, q)
    <3>1. UNCHANGED <<at, owner, active>>
      BY <2>2 DEF Takes, TakeLease, BodyRead, Refresh, BeginCall, BeginOther,
                  Cancel, sessionVars
    <3> QED BY <1>0, <3>1, UsersUntouched
  <2>3. ASSUME NEW e \in Entries, DeleteSession(r, e)
        PROVE  UsersCounted'
    <3>1. at[r] = None
      BY <2>3, Admitted DEF DeleteSession, Working
    <3>2. Release({e}) /\ at' = [at EXCEPT ![r] = None]
      BY <2>3 DEF DeleteSession, FinishAborting
    <3>3. \A q \in Requests : at'[q] = at[q]
      BY <3>1, <3>2 DEF TypeOK
    <3>4. \A q \in Requests : at'[q] = at[q] \/ (at[q] \in {e} \cup {None} /\ at'[q] = None)
      BY <3>3
    <3> HIDE DEF IInv
    <3> QED BY <1>0, <3>2, <3>4, UsersReleased
  <2>4. CASE OpenFails(r)
    <3>1. at[r] \in Entries
      BY <2>4 DEF OpenFails, TypeOK, Standing, Working
    <3>2. Release({at[r]}) /\ at' = [at EXCEPT ![r] = None]
      BY <2>4 DEF OpenFails, FinishAborting
    <3>3. \A q \in Requests : at'[q] = IF q = r THEN None ELSE at[q]
      BY <3>2 DEF TypeOK
    <3>4. \A q \in Requests : at'[q] = at[q] \/ (at[q] \in {at[r]} \cup {None} /\ at'[q] = None)
      BY <3>3
    <3> HIDE DEF IInv
    <3> QED BY <1>0, <3>1, <3>2, <3>4, UsersReleased
  <2> QED BY <1>0, <1>1, <2>1, <2>2, <2>3, <2>4, UsersEnter, UsersOpen, UsersLeave DEF RequestStep, Takes
<1>2. CASE ServerStep \/ (\E c \in Credentials : CredentialStep(c)) \/ UNCHANGED vars
  <2>1. at' = at
    BY <1>2, NoRequest
  <2>2. (\E gone \in SUBSET Entries : Release(gone)) \/ UNCHANGED <<owner, active>>
    <3>1. Live \in SUBSET Entries /\ \A c : OwnedBy(c) \in SUBSET Entries
      BY DEF Live, OwnedBy
    <3>2. CASE ServerStep
      BY <3>1, <3>2 DEF ServerStep, SweepIdle, BeginClose, CloseSessions, ServerClosed,
                        ServerTimesOut, sessionVars
    <3>3. CASE \E c \in Credentials : CredentialStep(c)
      BY <3>1, <3>3 DEF CredentialStep, Rotate, CloseCredential, CredentialClosed,
                        CredentialTimesOut, sessionVars
    <3>4. CASE UNCHANGED vars
      BY <3>4 DEF vars, sessionVars
    <3> QED BY <1>2, <3>2, <3>3, <3>4
  <2>3. CASE UNCHANGED <<owner, active>>
    BY <1>0, <2>1, <2>3, UsersUntouched
  <2>4. ASSUME NEW gone \in SUBSET Entries, Release(gone)
        PROVE  UsersCounted'
    <3>1. \A q \in Requests : at'[q] = at[q] \/ (at[q] \in gone \cup {None} /\ at'[q] = None)
      BY <2>1
    <3> HIDE DEF IInv
    <3> QED BY <1>0, <2>4, <3>1, UsersReleased
  <2> QED BY <2>2, <2>3, <2>4
<1> QED BY <1>1, <1>2 DEF Next

(* Every step keeps all the counters.                                      *)
LEMMA CountersStep ==
  ASSUME IInv, [Next]_vars
  PROVE  CountersAccounted'
<1>1. SlotsCounted' /\ LeasesCounted' /\ UsersCounted'
  BY SlotsStep, LeasesStep, UsersStep
<1> QED BY <1>1 DEF SlotsCounted, LeasesCounted, UsersCounted, LeasesOf, UsersOf,
                    CountersAccounted, SlotsAccounted, ActiveAccounted

-----------------------------------------------------------------------------
(* What the request steps do to the drains: one that finishes leaves them, *)
(* and only a server that is open lets a request take a lease.             *)
LEMMA DrainingStep ==
  ASSUME IInv, [Next]_vars
  PROVE  Draining'
<1> USE DEF IInv
<1>0. server \in [stage : {"open", "closing", "draining", "closed", "failed"},
                  waiting : SUBSET Requests]
  BY DEF TypeOK
<1>1. server.stage \in {"draining", "closed", "failed"} => Live' = {}
  <2>1. CASE \E gone \in SUBSET Entries : Release(gone)
    BY <2>1, Released DEF Draining
  <2>2. CASE \E r \in Requests : OpenSession(r)
    BY <2>2 DEF OpenSession, MayOpen, closing
  <2>3. CASE UNCHANGED <<owner, slots, slotsBy>>
    BY <2>3 DEF Draining, Live
  <2> QED BY <2>1, <2>2, <2>3, SessionSteps
<1>2. ASSUME NEW r \in Requests, RequestStep(r)
      PROVE  Draining'
  <2>1. CASE Finishes(r)
    <3>1. leases' = leases \ {r} /\ server' = [server EXCEPT !.waiting = @ \ {r}]
      BY <2>1 DEF Finishes, FinishAborting, FinishLease
    <3>2. server'.stage = server.stage /\ server'.waiting = server.waiting \ {r}
      BY <1>0, <3>1
    <3> QED BY <1>1, <3>1, <3>2 DEF Draining, closing
  <2>2. CASE Takes(r)
    <3>1. server' = server /\ ~closing
      BY <2>2 DEF Takes, TakeLease, MayLease, closeVars
    <3> QED BY <3>1 DEF Draining, closing
  <2>3. CASE UNCHANGED <<leases, leasesBy, server, retire>>
    BY <1>1, <2>3 DEF Draining, closing
  <2> QED BY <1>2, <2>1, <2>2, <2>3, FinishesHeld
<1>3. CASE \/ UNCHANGED vars \/ \E c \in Credentials : CredentialStep(c)
           \/ \E e \in Entries : SweepIdle(e)
  <2>1. UNCHANGED <<leases, server>>
    BY <1>3 DEF vars, CredentialStep, Rotate, CloseCredential, CredentialClosed,
                CredentialTimesOut, SweepIdle, leaseVars, closeVars
  <2> QED BY <1>1, <2>1 DEF Draining, closing
<1>4. CASE BeginClose
  BY <1>4 DEF BeginClose, Draining, closing, leaseVars, sessionVars, Live
<1>5. CASE CloseSessions
  <2>1. Live' = {}
    <3>1. Live \in SUBSET Entries
      BY DEF Live
    <3> QED BY <3>1, <1>5, Released DEF CloseSessions
  <2>2. /\ server'.stage = "draining" /\ server'.waiting = server.waiting
        /\ server.stage = "closing" /\ leases' = leases
    BY <1>0, <1>5 DEF CloseSessions, leaseVars
  <2> QED BY <2>1, <2>2 DEF Draining, closing
<1>6. CASE ServerClosed \/ ServerTimesOut
  <2>1. /\ server.stage = "draining" /\ server'.waiting = server.waiting /\ leases' = leases
        /\ \/ server'.stage = "closed" /\ server.waiting = {}
           \/ server'.stage = "failed"
    BY <1>0, <1>6 DEF ServerClosed, ServerTimesOut, leaseVars
  <2> QED BY <1>1, <2>1 DEF Draining, closing
<1> QED BY <1>2, <1>3, <1>4, <1>5, <1>6 DEF Next, ServerStep

-----------------------------------------------------------------------------
(* Taking entries out of the maps never leaves an id behind.               *)
LEMMA NamedReleased ==
  ASSUME IInv, NEW gone \in SUBSET Entries, Release(gone),
         \A q \in Requests, e \in Entries \ gone : Opener(q, e) => Opener(q, e)'
  PROVE  Named'
<1>1. Live' = Live \ gone /\ named' = named \ gone /\ Live \subseteq Entries
  BY Released DEF Release, Live, IInv
<1>2. named' \subseteq Live'
  BY <1>1 DEF IInv, Named
<1>3. ASSUME NEW e \in Live' \ named'
      PROVE  \E q \in Requests : Opener(q, e)'
  <2>1. e \in Live \ named /\ e \in Entries \ gone
    BY <1>1, <1>3
  <2> QED BY <2>1 DEF IInv, Named
<1> QED BY <1>2, <1>3 DEF Named

(* Nor does anything that keeps the ids and those who open sessions.       *)
LEMMA NamedKept ==
  ASSUME IInv, owner' = owner, named' = named,
         \A q \in Requests, e \in Entries : Opener(q, e) => Opener(q, e)'
  PROVE  Named'
<1>1. Live' = Live /\ Live \subseteq Entries
  BY DEF Live
<1> QED BY <1>1 DEF IInv, Named

(* Every step keeps the ids on live entries.                               *)
LEMMA NamedStep ==
  ASSUME IInv, [Next]_vars
  PROVE  Named'
<1>0. TypeOK /\ Standing
  BY DEF IInv
<1>1. ASSUME NEW r \in Requests, RequestStep(r)
      PROVE  Named'
  <2>1. \A q \in Requests \ {r}, e \in Entries : Opener(q, e) => Opener(q, e)'
    BY <1>0, <1>1, OthersKeep DEF Same, Opener
  <2>2. CASE \/ Takes(r) \/ BodyRead(r) \/ BodyRefused(r)
             \/ Refresh(r) \/ RefreshRefused(r) \/ NoSession(r) \/ RefuseSession(r)
    <3>1. pc[r] \notin {"beginning", "opening"} /\ UNCHANGED sessionVars
      BY <2>2 DEF Takes, TakeLease, BodyRead, BodyRefused, Refresh,
                  RefreshRefused, NoSession, RefuseSession
    <3> QED BY <2>1, <3>1, NamedKept DEF Opener, sessionVars
  <2>3. CASE HandlerReturns(r) \/ \E e \in Entries : UseSession(r, e)
    <3>1. pc[r] \notin {"beginning", "opening"} /\ owner' = owner /\ named' = named
      BY <2>3 DEF UseSession, HandlerReturns
    <3> QED BY <2>1, <3>1, NamedKept DEF Opener
  <2>4. ASSUME NEW e \in Entries, DeleteSession(r, e)
        PROVE  Named'
    <3>1. pc[r] \notin {"beginning", "opening"} /\ Release({e})
      BY <2>4 DEF DeleteSession
    <3> QED BY <2>1, <3>1, NamedReleased DEF Opener
  <2>5. CASE (\E i \in CallIds : BeginCall(r, i)) \/ BeginOther(r) \/ \E q \in Requests : Cancel(r, q)
    <3>1. /\ UNCHANGED <<owner, named, at>>
          /\ pc[r] \in {"beginning", "opening"} => pc'[r] = "opening"
      BY <1>0, <2>5 DEF BeginCall, BeginOther, Cancel, Goto, HandlerPc, sessionVars, TypeOK
    <3> QED BY <2>1, <3>1, NamedKept DEF Opener
  <2>6. CASE OpenSession(r)
    <3>1. PICK e \in Entries : Live' = Live \cup {e} /\ at' = [at EXCEPT ![r] = e]
      BY <1>0, <2>6, Opens
    <3>2. named' = named /\ pc[r] = "checked" /\ pc' = [pc EXCEPT ![r] = "beginning"]
      BY <2>6 DEF OpenSession, Goto
    <3>3. Opener(r, e)'
      BY <1>0, <3>1, <3>2 DEF Opener, TypeOK
    <3>4. \A f \in Live \ named : \E q \in Requests \ {r} : Opener(q, f)
      BY <3>2 DEF IInv, Named, Opener
    <3>5. \A f \in Live \ named : \E q \in Requests : Opener(q, f)'
      BY <2>1, <3>4 DEF Live
    <3>6. named' \subseteq Live' /\ \A f \in Live' \ named' : f = e \/ f \in Live \ named
      BY <3>1, <3>2 DEF IInv, Named
    <3> QED BY <3>3, <3>5, <3>6 DEF Named
  <2>7. CASE Opened(r)
    <3>1. named' = named \cup ({at[r]} \cap Live) /\ Live' = Live
      BY <2>7 DEF Opened, Live
    <3>2. \A f \in Live \ named : f # at[r] => \E q \in Requests \ {r} : Opener(q, f)
      BY DEF IInv, Named, Opener
    <3>3. \A f \in Live \ named : f # at[r] => \E q \in Requests : Opener(q, f)'
      BY <2>1, <3>2 DEF Live
    <3> QED BY <3>1, <3>3 DEF IInv, Named
  <2>8. CASE OpenFails(r)
    <3>1. at[r] \in Entries /\ Release({at[r]})
      BY <1>0, <2>8 DEF OpenFails, TypeOK, Standing, Working
    <3>2. \A q \in Requests, e \in Entries \ {at[r]} : Opener(q, e) => Opener(q, e)'
      BY <2>1 DEF Opener
    <3> QED BY <3>1, <3>2, NamedReleased
  <2> QED BY <1>1, <2>2, <2>3, <2>4, <2>5, <2>6, <2>7, <2>8 DEF RequestStep, Takes
<1>2. CASE ServerStep \/ (\E c \in Credentials : CredentialStep(c)) \/ UNCHANGED vars
  <2>1. \A q \in Requests, e \in Entries : Opener(q, e) => Opener(q, e)'
    BY <1>2, NoRequest DEF Opener
  <2>2. (\E gone \in SUBSET Entries : Release(gone)) \/ UNCHANGED <<owner, named>>
    <3>1. Live \in SUBSET Entries /\ \A c : OwnedBy(c) \in SUBSET Entries
      BY DEF Live, OwnedBy
    <3>2. CASE ServerStep
      BY <3>1, <3>2 DEF ServerStep, SweepIdle, BeginClose, CloseSessions, ServerClosed,
                        ServerTimesOut, sessionVars
    <3>3. CASE \E c \in Credentials : CredentialStep(c)
      BY <3>1, <3>3 DEF CredentialStep, Rotate, CloseCredential, CredentialClosed,
                        CredentialTimesOut, sessionVars
    <3>4. CASE UNCHANGED vars
      BY <3>4 DEF vars, sessionVars
    <3> QED BY <1>2, <3>2, <3>3, <3>4
  <2> QED BY <2>1, <2>2, NamedReleased, NamedKept
<1> QED BY <1>1, <1>2 DEF Next

-----------------------------------------------------------------------------
(* One request and one credential: what OldDrained says of them.           *)
OldOne(c, r) ==
  pc[r] \in Past /\ who[r].cred = c /\ who[r].version < retire[c].upto =>
    retire[c].stage # "idle" /\ r \in retire[c].waiting

RetireKeepsType == retire \in [Credentials -> Drain] /\ version \in [Credentials -> 0 .. MaxRotation]

(* A request comes past its second authentication only with the version    *)
(* the configuration has then, so never with an old one.                   *)
LEMMA OldRequests ==
  ASSUME IInv, NEW r \in Requests, RequestStep(r)
  PROVE  OldDrained' /\ RetireKeepsType'
<1>0. TypeOK /\ Standing /\ OldDrained
  BY DEF IInv
<1>1. version' = version
  BY DEF RequestStep, Takes, TakeLease, BodyRead, BodyRefused, Refresh,
         RefreshRefused, UseSession, DeleteSession, NoSession, OpenSession, RefuseSession,
         BeginCall, BeginOther, Cancel, HandlerReturns, Opened, OpenFails
<1>2. \A c \in Credentials : retire[c] \in Drain /\ version[c] \in 0 .. MaxRotation
  BY <1>0 DEF TypeOK
<1>3. CASE Finishes(r)
  <2>1. PICK others : FinishAborting(r, others)
    BY <1>3 DEF Finishes
  <2>2. \A c \in Credentials : retire'[c] = [retire[c] EXCEPT !.waiting = @ \ {r}]
    BY <2>1 DEF FinishAborting, FinishLease
  <2>3. \A c \in Credentials : /\ retire'[c].upto = retire[c].upto /\ retire'[c].stage = retire[c].stage
                               /\ retire'[c].waiting = retire[c].waiting \ {r}
                               /\ retire'[c] \in Drain
    <3> SUFFICES ASSUME NEW c \in Credentials, NEW d \in Drain, retire[c] = d,
                        retire'[c] = [d EXCEPT !.waiting = @ \ {r}]
                 PROVE  /\ retire'[c].upto = d.upto /\ retire'[c].stage = d.stage
                        /\ retire'[c].waiting = d.waiting \ {r}
                        /\ retire'[c] \in Drain
      BY <1>2, <2>2
    <3> QED BY DEF Drain
  <2>4. \A q \in Requests : /\ q # r => pc'[q] = pc[q] /\ who'[q] = who[q]
                            /\ q = r => pc'[q] = "idle"
    BY <1>0, <2>1, Ends DEF TypeOK
  <2>5. RetireKeepsType'
    <3>1. \E f : retire' = [c \in Credentials |-> f[c]]
      <4>1. retire' = [c \in Credentials |-> [retire[c] EXCEPT !.waiting = @ \ {r}]]
        BY <2>1 DEF FinishAborting, FinishLease
      <4> QED BY <4>1, <2>2
    <3> QED BY <1>0, <1>1, <2>3, <3>1 DEF RetireKeepsType, TypeOK
  <2>6. "idle" \notin Past
    BY DEF Past, Working
  <2> QED BY <1>0, <1>1, <2>3, <2>4, <2>5, <2>6 DEF OldDrained
<1>4. CASE ~Finishes(r)
  <2>1. retire' = retire
    BY <1>4, FinishesHeld DEF Takes, TakeLease, closeVars
  <2>2. ASSUME NEW c \in Credentials
        PROVE  OldOne(c, r)'
    <3>1. CASE Refresh(r)
      <4>1. who' = who /\ version[who[r].cred] = who[r].version
        BY <3>1 DEF Refresh
      <4>2. retire[c].upto <= version[c] /\ retire[c].upto \in Nat /\ version[c] \in Nat
        BY <1>0, <1>2 DEF OldDrained, Drain
      <4> QED BY <2>1, <4>1, <4>2 DEF OldOne
    <3>2. CASE ~Refresh(r)
      <4>1. pc'[r] \in Past => pc[r] \in Past /\ who'[r] = who[r]
        <5>1. CASE \/ Takes(r) \/ BodyRead(r)
          BY <1>0, <5>1 DEF Takes, TakeLease, BodyRead, Goto, Past, Working, TypeOK
        <5>2. CASE OpenSession(r) \/ \E e \in Entries : UseSession(r, e)
          BY <1>0, <5>2 DEF UseSession, OpenSession, Past, Working
        <5>3. CASE (\E i \in CallIds : BeginCall(r, i)) \/ BeginOther(r) \/ \E q \in Requests : Cancel(r, q)
          BY <1>0, <5>3 DEF BeginCall, BeginOther, Cancel, Past, Working
        <5>4. CASE \/ BodyRefused(r) \/ RefreshRefused(r) \/ NoSession(r) \/ RefuseSession(r)
                   \/ HandlerReturns(r) \/ Opened(r)
                   \/ OpenFails(r) \/ \E e \in Entries : DeleteSession(r, e)
          BY <1>4, <5>4 DEF BodyRefused, RefreshRefused, NoSession, RefuseSession, HandlerReturns,
                            Opened, OpenFails, DeleteSession, Finish, Finishes
        <5> QED BY <3>2, <5>1, <5>2, <5>3, <5>4 DEF RequestStep, Takes
      <4> QED BY <1>0, <2>1, <4>1 DEF OldOne, OldDrained
    <3> QED BY <3>1, <3>2
  <2>3. ASSUME NEW c \in Credentials, NEW q \in Requests, q # r
        PROVE  OldOne(c, q)'
    BY <1>0, <2>1, <2>3, OthersKeep DEF OldOne, OldDrained, Same
  <2> QED BY <1>0, <1>1, <2>1, <2>2, <2>3 DEF OldDrained, OldOne, RetireKeepsType, TypeOK
<1> QED BY <1>3, <1>4

(* closeCredential begins when every lease of an older version is there to *)
(* be drained, and returns when none is left.                              *)
LEMMA OldCredentials ==
  ASSUME IInv, NEW c \in Credentials, CredentialStep(c)
  PROVE  OldDrained' /\ RetireKeepsType'
<1>0. TypeOK /\ Standing /\ OldDrained /\ UNCHANGED <<pc, who, at, leases>>
  BY NoRequest DEF IInv
<1>1. \A d \in Credentials : /\ retire[d] \in Drain /\ version[d] \in 0 .. MaxRotation
                             /\ retire[d].upto \in Nat /\ version[d] \in Nat
  BY <1>0 DEF TypeOK, Drain
<1>2. CASE Rotate(c)
  <2>1. retire' = retire /\ version' = [version EXCEPT ![c] = @ + 1] /\ version[c] < MaxRotation
    BY <1>2 DEF Rotate, closeVars
  <2>2. \A d \in Credentials : version'[d] \in 0 .. MaxRotation /\ version[d] <= version'[d]
    BY <1>0, <1>1, <2>1, McpAssumption DEF TypeOK
  <2>3. RetireKeepsType'
    BY <1>0, <2>1, <2>2 DEF RetireKeepsType, TypeOK
  <2>4. \A d \in Credentials : retire'[d].upto <= version'[d]
    BY <1>0, <1>1, <2>1, <2>2 DEF OldDrained
  <2> QED BY <1>0, <2>1, <2>3, <2>4 DEF OldDrained
<1>3. CASE CloseCredential(c)
  <2> DEFINE new == [stage |-> "draining", upto |-> version[c],
                     waiting |-> {r \in leases : who[r].cred = c}]
  <2>1. retire' = [retire EXCEPT ![c] = new] /\ version' = version
    BY <1>3 DEF CloseCredential
  <2>2. new \in Drain
    BY <1>0, <1>1 DEF Drain, TypeOK
  <2>3. RetireKeepsType'
    BY <1>0, <2>1, <2>2 DEF RetireKeepsType, TypeOK
  <2>4. \A d \in Credentials : retire'[d] = IF d = c THEN new ELSE retire[d]
    BY <1>0, <2>1 DEF TypeOK
  <2>5. \A r \in Requests : pc[r] \in Past => r \in leases
    BY <1>0 DEF Standing, Past, Working
  <2>6. ASSUME NEW d \in Credentials
        PROVE  retire'[d].upto <= version'[d] /\ \A r \in Requests : OldOne(d, r)'
    <3>1. CASE d = c
      <4>1. retire'[d] = new /\ version'[d] = version[c] /\ version[c] <= version[c]
        BY <1>1, <2>1, <2>4, <3>1
      <4>2. ASSUME NEW r \in Requests, pc[r] \in Past, who[r].cred = c
            PROVE  r \in new.waiting /\ new.stage # "idle"
        BY <2>5, <4>2
      <4> HIDE DEF new
      <4>3. new.upto = version[c]
        BY DEF new
      <4> QED BY <1>0, <3>1, <4>1, <4>2, <4>3 DEF OldOne
    <3>2. CASE d # c
      BY <1>0, <2>1, <2>4, <3>2 DEF OldOne, OldDrained
    <3> QED BY <3>1, <3>2
  <2> QED BY <2>3, <2>6 DEF OldDrained, OldOne
<1>4. CASE CredentialClosed(c) \/ CredentialTimesOut(c)
  <2>1. /\ version' = version
        /\ \/ retire[c].waiting = {} /\ retire' = [retire EXCEPT ![c].stage = "idle"]
           \/ retire' = [retire EXCEPT ![c].stage = "failed"]
    BY <1>4 DEF CredentialClosed, CredentialTimesOut
  <2>2. \A d \in Credentials :
          /\ retire'[d].upto = retire[d].upto /\ retire'[d].waiting = retire[d].waiting
          /\ d # c => retire'[d].stage = retire[d].stage
          /\ retire'[c].stage = "idle" => retire[c].waiting = {}
    BY <1>0, <1>1, <2>1 DEF TypeOK, Drain
  <2>3. RetireKeepsType'
    <3>1. [retire[c] EXCEPT !.stage = "idle"] \in Drain /\ [retire[c] EXCEPT !.stage = "failed"] \in Drain
      BY <1>1 DEF Drain
    <3> QED BY <1>0, <2>1, <3>1 DEF RetireKeepsType, TypeOK
  <2>4. ASSUME NEW d \in Credentials, NEW r \in Requests
        PROVE  OldOne(d, r)'
    BY <1>0, <2>2 DEF OldOne, OldDrained
  <2> QED BY <1>0, <2>1, <2>2, <2>3, <2>4 DEF OldDrained, OldOne
<1> QED BY <1>2, <1>3, <1>4 DEF CredentialStep

(* Every step keeps old credentials drained.                               *)
LEMMA OldStep ==
  ASSUME IInv, [Next]_vars
  PROVE  OldDrained' /\ RetireKeepsType'
<1>1. CASE ServerStep \/ UNCHANGED vars
  <2>1. UNCHANGED <<pc, who, retire, version>>
    BY <1>1 DEF vars, requestVars, closeVars, ServerStep, SweepIdle, BeginClose, CloseSessions,
                ServerClosed, ServerTimesOut
  <2> QED BY <2>1 DEF IInv, TypeOK, OldDrained, RetireKeepsType
<1> QED BY <1>1, OldRequests, OldCredentials DEF Next

-----------------------------------------------------------------------------
(* The end of a request deletes what was registered under its id: its own  *)
(* controller, or one whose id clashed with it.                            *)
LEMMA KeyedEnds ==
  ASSUME IInv, NEW r \in Requests, NEW others, FinishAborting(r, others)
  PROVE  Keyed'
<1>0. TypeOK /\ Keyed
  BY DEF IInv
<1>1. /\ \A q \in Requests : q # r => pc'[q] = pc[q] /\ at'[q] = at[q] /\ callId'[q] = callId[q]
      /\ callId'[r] = None /\ clashed' = clashed \ {r}
      /\ calls' = calls \ Registered(r, callId[r])
  BY <1>0 DEF FinishAborting, TypeOK
<1>2. r \notin calls'
  BY <1>0, <1>1 DEF Registered, CallsOf, Keyed
<1>3. calls' \subseteq Requests /\ \A q \in calls' : q # r /\ q \in calls
  BY <1>0, <1>1, <1>2 DEF TypeOK
<1>4. ASSUME NEW q \in Requests \ clashed', callId'[q] # None
      PROVE  q \in calls'
  <2>1. q # r /\ q \in calls /\ callId[q] # None /\ q \notin clashed
    BY <1>0, <1>1, <1>4 DEF Keyed
  <2>2. q \notin Registered(r, callId[r])
    BY <1>0, <2>1 DEF Registered, CallsOf, Keyed
  <2> QED BY <1>1, <2>1, <2>2
<1>5. \A q \in Requests : callId'[q] # None => pc'[q] \in {"calling", "opening"}
  BY <1>0, <1>1 DEF Keyed
<1>6. \A q \in calls' : callId'[q] # None
  BY <1>0, <1>1, <1>3 DEF Keyed, TypeOK
<1>7. \A q, p \in Requests :
        q # p /\ at'[q] = at'[p] /\ callId'[q] = callId'[p] /\ callId'[q] # None => q \in clashed'
  BY <1>0, <1>1 DEF Keyed
<1> QED BY <1>4, <1>5, <1>6, <1>7 DEF Keyed

(* A call that begins takes the place of whatever has its id.              *)
LEMMA KeyedBegins ==
  ASSUME IInv, NEW r \in Requests, NEW i \in CallIds, BeginCall(r, i)
  PROVE  Keyed'
<1>0. TypeOK /\ Keyed /\ i # None /\ pc[r] \in {"parsing", "beginning"}
  BY McpAssumption DEF IInv, BeginCall
<1>1. callId[r] = None /\ r \notin calls
  BY <1>0 DEF Keyed
<1>2. /\ \A q \in Requests : q # r => pc'[q] = pc[q] /\ callId'[q] = callId[q]
      /\ callId'[r] = i /\ at' = at /\ pc'[r] = HandlerPc(r)
      /\ calls' = (calls \ Registered(r, i)) \cup {r}
  BY <1>0 DEF BeginCall, Goto, TypeOK
<1>3. /\ clashed \subseteq clashed'
      /\ SameId(r, i) # {} => r \in clashed' /\ SameId(r, i) \subseteq clashed'
  BY DEF BeginCall
<1>4. \A q \in Requests \ clashed' : callId'[q] # None => q \in calls'
  <2> SUFFICES ASSUME NEW q \in Requests \ clashed', callId'[q] # None, q # r
               PROVE  q \in calls'
    BY <1>2
  <2>1. q \in calls /\ q \notin SameId(r, i)
    BY <1>0, <1>2, <1>3 DEF Keyed
  <2> QED BY <1>2, <2>1 DEF Registered, CallsOf, SameId
<1>5. \A q \in Requests : callId'[q] # None => pc'[q] \in {"calling", "opening"}
  BY <1>0, <1>2 DEF Keyed, HandlerPc
<1>6. \A q \in calls' : callId'[q] # None
  BY <1>0, <1>2 DEF Keyed, TypeOK
<1>7. ASSUME NEW q \in Requests, NEW p \in Requests,
             q # p, at'[q] = at'[p], callId'[q] = callId'[p], callId'[q] # None
      PROVE  q \in clashed'
  <2>1. CASE q = r
    BY <1>0, <1>2, <1>3, <1>7, <2>1 DEF SameId
  <2>2. CASE p = r
    BY <1>0, <1>2, <1>3, <1>7, <2>2 DEF SameId
  <2>3. CASE q # r /\ p # r
    BY <1>0, <1>2, <1>3, <1>7, <2>3 DEF Keyed
  <2> QED BY <2>1, <2>2, <2>3
<1> QED BY <1>4, <1>5, <1>6, <1>7 DEF Keyed

(* Every step keeps the controllers under their ids.                       *)
LEMMA KeyedStep ==
  ASSUME IInv, [Next]_vars
  PROVE  Keyed'
<1>0. TypeOK /\ Keyed
  BY DEF IInv
<1>1. ASSUME NEW r \in Requests, RequestStep(r)
      PROVE  Keyed'
  <2>1. CASE Finishes(r)
    BY <2>1, KeyedEnds DEF Finishes
  <2>2. ASSUME NEW i \in CallIds, BeginCall(r, i)
        PROVE  Keyed'
    BY <2>2, KeyedBegins
  <2>3. ASSUME UNCHANGED <<callId, calls, clashed>>, pc[r] \notin {"calling", "opening"},
               \A q \in Requests : q # r => pc'[q] = pc[q] /\ at'[q] = at[q]
        PROVE  Keyed'
    <3>1. callId[r] = None
      BY <1>0, <2>3 DEF Keyed
    <3> QED BY <1>0, <2>3, <3>1 DEF Keyed
  <2>4. \A q \in Requests : q # r => pc'[q] = pc[q] /\ at'[q] = at[q]
    BY <1>0, <1>1, OthersKeep DEF Same
  <2>5. CASE \/ Takes(r) \/ BodyRead(r) \/ Refresh(r)
    BY <2>3, <2>4, <2>5 DEF Takes, TakeLease, BodyRead, Refresh, callVars
  <2>6. CASE OpenSession(r) \/ BeginOther(r) \/ \E e \in Entries : UseSession(r, e)
    BY <2>3, <2>4, <2>6 DEF OpenSession, BeginOther, UseSession, callVars
  <2>7. CASE \E q \in Requests : Cancel(r, q)
    BY <2>3, <2>4, <2>7 DEF Cancel
  <2>8. CASE \/ BodyRefused(r) \/ RefreshRefused(r) \/ NoSession(r) \/ RefuseSession(r)
             \/ HandlerReturns(r) \/ Opened(r)
             \/ OpenFails(r) \/ \E e \in Entries : DeleteSession(r, e)
    BY <2>1, <2>8 DEF BodyRefused, RefreshRefused, NoSession, RefuseSession, HandlerReturns,
                      Opened, OpenFails, DeleteSession, Finish, Finishes
  <2> QED BY <1>1, <2>2, <2>5, <2>6, <2>7, <2>8 DEF RequestStep, Takes
<1>2. CASE ServerStep \/ (\E c \in Credentials : CredentialStep(c)) \/ UNCHANGED vars
  <2>1. UNCHANGED <<callId, calls, clashed>>
    BY <1>2 DEF CredentialStep, ServerStep, Rotate, CloseCredential, CredentialClosed,
           CredentialTimesOut, SweepIdle, BeginClose, CloseSessions, ServerClosed, ServerTimesOut,
           vars, requestVars, callVars
  <2> QED BY <1>0, <1>2, <2>1, NoRequest DEF Keyed
<1> QED BY <1>1, <1>2 DEF Next

-----------------------------------------------------------------------------
RequestTypes ==
  /\ pc \in [Requests -> RequestPcs]
  /\ who \in [Requests -> Identities \cup {None}]
  /\ at \in [Requests -> Entries \cup {None}]
  /\ callId \in [Requests -> CallIds \cup {None}]
  /\ calls \subseteq Requests /\ aborted \subseteq Requests /\ clashed \subseteq Requests

SessionTypes ==
  /\ owner \in [Entries -> Identities \cup {None}]
  /\ active \in [Entries -> Nat]
  /\ named \subseteq Entries
  /\ slots \in Nat /\ slotsBy \in [Credentials -> Nat]

ServerTypes == [stage : {"open", "closing", "draining", "closed", "failed"},
                waiting : SUBSET Requests]

LeaseTypes ==
  /\ leases \subseteq Requests /\ leasesBy \in [Credentials -> Nat]
  /\ server \in ServerTypes

(* Types of what a request has.                                            *)
LEMMA RequestTypesStep ==
  ASSUME IInv, [Next]_vars
  PROVE  RequestTypes'
<1>0. TypeOK /\ "idle" \in RequestPcs /\ \A gone : CallsOf(gone) \in SUBSET Requests
  BY DEF IInv, RequestPcs, CallsOf, TypeOK
<1>1. ASSUME NEW r \in Requests, RequestStep(r)
      PROVE  RequestTypes'
  <2>1. ASSUME NEW others \in SUBSET Requests, FinishAborting(r, others)
        PROVE  RequestTypes'
    BY <1>0, <2>1 DEF FinishAborting, RequestTypes, TypeOK
  <2>2. CASE \/ BodyRefused(r) \/ RefreshRefused(r) \/ NoSession(r) \/ RefuseSession(r)
             \/ HandlerReturns(r) \/ Opened(r)
    BY <2>1, <2>2 DEF BodyRefused, RefreshRefused, NoSession, RefuseSession, HandlerReturns,
                      Opened, Finish
  <2>3. CASE OpenFails(r) \/ \E e \in Entries : DeleteSession(r, e)
    BY <1>0, <2>1, <2>3 DEF OpenFails, DeleteSession
  <2>4. CASE Takes(r)
    BY <1>0, <2>4, Taken DEF callVars, RequestPcs, RequestTypes, TypeOK
  <2>5. CASE BodyRead(r) \/ Refresh(r)
    BY <1>0, <2>5 DEF BodyRead, Refresh, Goto, callVars, RequestPcs, RequestTypes, TypeOK
  <2>6. CASE \E e \in Entries : UseSession(r, e)
    BY <1>0, <2>6 DEF UseSession, Goto, callVars, RequestPcs, Working, RequestTypes, TypeOK
  <2>7. CASE OpenSession(r)
    <3>1. \E e \in Entries : at' = [at EXCEPT ![r] = e]
      BY <2>7 DEF OpenSession, NextEntry
    <3> QED BY <1>0, <2>7, <3>1 DEF OpenSession, Goto, callVars, RequestPcs, Working, RequestTypes, TypeOK
  <2>8. CASE BeginOther(r) \/ \E q \in Requests : Cancel(r, q)
    BY <1>0, <2>8 DEF BeginOther, Cancel, Goto, HandlerPc, callVars, RequestPcs, Working,
                      RequestTypes, TypeOK
  <2>9. ASSUME NEW i \in CallIds, BeginCall(r, i)
        PROVE  RequestTypes'
    <3>1. SameId(r, i) \in SUBSET Requests /\ HandlerPc(r) \in RequestPcs
      BY DEF SameId, HandlerPc, RequestPcs, Working
    <3>2. calls' \subseteq Requests /\ clashed' \subseteq Requests
      BY <1>0, <2>9, <3>1 DEF BeginCall, TypeOK
    <3> QED BY <1>0, <2>9, <3>1, <3>2 DEF BeginCall, Goto, RequestTypes, TypeOK
  <2> QED BY <1>1, <2>2, <2>3, <2>4, <2>5, <2>6, <2>7, <2>8, <2>9 DEF RequestStep, Takes
<1>2. CASE ServerStep \/ (\E c \in Credentials : CredentialStep(c)) \/ UNCHANGED vars
  <2>1. UNCHANGED <<callId, calls, clashed>> /\ aborted' \subseteq Requests
    BY <1>0, <1>2 DEF CredentialStep, ServerStep, Rotate, CloseCredential, CredentialClosed,
           CredentialTimesOut, SweepIdle, BeginClose, CloseSessions, ServerClosed, ServerTimesOut,
           vars, requestVars, callVars, TypeOK
  <2> QED BY <1>0, <1>2, <2>1, NoRequest DEF RequestTypes, TypeOK
<1> QED BY <1>1, <1>2 DEF Next

(* Counters are numbers of something, so none of them is ever negative.    *)
LEMMA SessionTypesStep ==
  ASSUME IInv, [Next]_vars
  PROVE  SessionTypes'
<1>0. TypeOK /\ Standing /\ \A S \in SUBSET Entries : IsFiniteSet(S)
  BY FS_Subset, McpAssumption DEF IInv
<1>a. SlotsCounted'
  BY SlotsStep
<1>b. slots' \in Nat /\ \A c \in Credentials : slotsBy'[c] \in Nat
  <2>1. Live' \in SUBSET Entries /\ \A c \in Credentials : OwnedBy(c)' \in SUBSET Entries
    BY DEF Live, OwnedBy
  <2> QED BY <1>0, <1>a, <2>1, FS_CardinalityType DEF SlotsCounted
<1>1. ASSUME NEW gone \in SUBSET Entries, Release(gone)
      PROVE  SessionTypes'
  BY <1>0, <1>b, <1>1 DEF Release, SessionTypes, TypeOK
<1>2. ASSUME NEW r \in Requests, OpenSession(r)
      PROVE  SessionTypes'
  <2>1. PICK e \in Entries : owner' = [owner EXCEPT ![e] = who[r]] /\ active' = [active EXCEPT ![e] = 1]
    BY <1>0, <1>2, Opens
  <2>2. named' = named /\ slotsBy' = [slotsBy EXCEPT ![who[r].cred] = @ + 1] /\ who[r] \in Identities
    BY <1>0, <1>2, Admitted DEF OpenSession
  <2> QED BY <1>0, <1>b, <2>1, <2>2 DEF SessionTypes, TypeOK
<1>3. ASSUME NEW r \in Requests, HandlerReturns(r) \/ Opened(r)
      PROVE  SessionTypes'
  <2>1. UNCHANGED <<owner, slots, slotsBy>> /\ Leave(r) /\ named' \subseteq named \cup Live
    BY <1>3 DEF HandlerReturns, Opened
  <2>2. active' \in [Entries -> Nat]
    <3>1. CASE at[r] \in Live
      <4>1. active' = [active EXCEPT ![at[r]] = @ - 1] /\ active[at[r]] \in Nat /\ active[at[r]] > 0
        BY <2>1, <3>1, UserCounted DEF Leave
      <4>2. active[at[r]] - 1 \in Nat
        BY <4>1
      <4> QED BY <1>0, <4>1, <4>2 DEF TypeOK
    <3>2. CASE at[r] \notin Live
      BY <1>0, <2>1, <3>2 DEF Leave, TypeOK
    <3> QED BY <3>1, <3>2
  <2>3. named' \subseteq Entries
    BY <1>0, <2>1 DEF TypeOK, Live
  <2> QED BY <1>0, <2>1, <2>2, <2>3 DEF SessionTypes, TypeOK
<1>4. ASSUME UNCHANGED sessionVars
      PROVE  SessionTypes'
  BY <1>0, <1>4 DEF sessionVars, SessionTypes, TypeOK
<1>5. ASSUME NEW r \in Requests, RequestStep(r)
      PROVE  SessionTypes'
  <2>1. CASE \E e \in Entries : UseSession(r, e)
    BY <1>0, <2>1 DEF UseSession, SessionTypes, TypeOK
  <2>2. CASE OpenFails(r) \/ \E e \in Entries : DeleteSession(r, e)
    <3>1. pc[r] = "opening" => {at[r]} \in SUBSET Entries
      BY <1>0 DEF TypeOK, Standing, Working
    <3> QED BY <1>1, <2>2, <3>1 DEF OpenFails, DeleteSession
  <2> QED BY <1>2, <1>3, <1>4, <1>5, <2>1, <2>2 DEF RequestStep, Takes, TakeLease, BodyRead, BodyRefused, Refresh, RefreshRefused, NoSession,
             RefuseSession, BeginCall, BeginOther, Cancel
<1>6. CASE ServerStep \/ (\E c \in Credentials : CredentialStep(c)) \/ UNCHANGED vars
  <2>1. Live \in SUBSET Entries /\ \A c : OwnedBy(c) \in SUBSET Entries
    BY DEF Live, OwnedBy
  <2>2. CASE ServerStep
    BY <1>1, <1>4, <2>1, <2>2 DEF ServerStep, SweepIdle, BeginClose, CloseSessions, ServerClosed,
                                  ServerTimesOut
  <2>3. CASE \E c \in Credentials : CredentialStep(c)
    BY <1>1, <1>4, <2>1, <2>3 DEF CredentialStep, Rotate, CloseCredential, CredentialClosed,
                                  CredentialTimesOut
  <2>4. CASE UNCHANGED vars
    BY <1>4, <2>4 DEF vars
  <2> QED BY <1>6, <2>2, <2>3, <2>4
<1> QED BY <1>5, <1>6 DEF Next

(* Types of the leases and of what waits for them.                         *)
LEMMA LeaseTypesStep ==
  ASSUME IInv, [Next]_vars
  PROVE  LeaseTypes'
<1>0. TypeOK /\ Standing /\ \A S \in SUBSET Requests : IsFiniteSet(S)
  BY FS_Subset, McpAssumption DEF IInv
<1>1. ASSUME NEW r \in Requests, RequestStep(r)
      PROVE  LeaseTypes'
  <2>1. CASE Finishes(r)
    <3>1. /\ leases' = leases \ {r} /\ leasesBy' = [leasesBy EXCEPT ![who[r].cred] = @ - 1]
          /\ server' = [server EXCEPT !.waiting = @ \ {r}]
      BY <2>1 DEF Finishes, FinishAborting, FinishLease
    <3>2. \A c \in Credentials : leasesBy'[c] \in Nat
      <4>1. \A c \in Credentials : LeasesOf(c)' \in SUBSET Requests
        BY <1>0, <3>1 DEF LeasesOf, TypeOK
      <4> QED BY <1>0, <4>1, LeasesStep, FS_CardinalityType DEF LeasesCounted
    <3>3. leasesBy' \in [Credentials -> Nat]
      <4>1. leasesBy' = [c \in Credentials |-> leasesBy'[c]]
        BY <1>0, <3>1 DEF TypeOK
      <4> QED BY <3>2, <4>1
    <3> QED BY <1>0, <3>1, <3>3 DEF LeaseTypes, ServerTypes, TypeOK
  <2>2. CASE Takes(r)
    <3>1. PICK c \in Credentials :
            /\ leases' = leases \cup {r} /\ leasesBy' = [leasesBy EXCEPT ![c] = @ + 1]
            /\ server' = server
      BY <2>2 DEF Takes, TakeLease, closeVars
    <3>2. leasesBy' \in [Credentials -> Nat]
      <4>1. leasesBy \in [Credentials -> Nat] /\ \A n \in Nat : n + 1 \in Nat
        BY <1>0 DEF TypeOK
      <4> QED BY <3>1, <4>1
    <3>3. leases' \subseteq Requests
      BY <1>0, <3>1 DEF TypeOK
    <3>4. server' \in ServerTypes
      BY <1>0, <3>1 DEF TypeOK, ServerTypes
    <3> QED BY <3>2, <3>3, <3>4 DEF LeaseTypes, ServerTypes
  <2>3. CASE UNCHANGED <<leases, leasesBy, server, retire>>
    BY <1>0, <2>3 DEF LeaseTypes, ServerTypes, TypeOK
  <2> QED BY <1>1, <2>1, <2>2, <2>3, FinishesHeld
<1>2. CASE ServerStep \/ (\E c \in Credentials : CredentialStep(c)) \/ UNCHANGED vars
  <2>1. \/ server' = server \/ server' = [stage |-> "closing", waiting |-> leases]
        \/ \E s \in {"draining", "closed", "failed"} : server' = [server EXCEPT !.stage = s]
    BY <1>2 DEF CredentialStep, ServerStep, Rotate, CloseCredential, CredentialClosed,
           CredentialTimesOut, SweepIdle, BeginClose, CloseSessions, ServerClosed, ServerTimesOut,
           vars, closeVars
  <2>2. server \in ServerTypes /\ leases \in SUBSET Requests
    BY <1>0 DEF ServerTypes, TypeOK
  <2>3. server' \in ServerTypes
    BY <2>1, <2>2 DEF ServerTypes
  <2> QED BY <1>0, <1>2, <2>3, NoRequest DEF LeaseTypes, ServerTypes, TypeOK
<1> QED BY <1>1, <1>2 DEF Next

(* Every step keeps the types.                                             *)
LEMMA TypeStep ==
  ASSUME IInv, [Next]_vars
  PROVE  TypeOK'
BY RequestTypesStep, SessionTypesStep, LeaseTypesStep, OldStep
   DEF TypeOK, RequestTypes, SessionTypes, LeaseTypes, ServerTypes, RetireKeepsType

(* It begins so.                                                           *)
LEMMA Initially == Init => IInv
<1> SUFFICES ASSUME Init PROVE IInv
  OBVIOUS
<1>1. TypeOK
  BY McpAssumption DEF Init, TypeOK, Drain, RequestPcs
<1>2. Live = {}
  BY DEF Init, Live
<1>3. Standing
  BY DEF Init, Standing, Working
<1>4. CountersAccounted
  <2>1. leases = {} /\ slots = 0 /\ \A c \in Credentials : slotsBy[c] = 0 /\ leasesBy[c] = 0
    BY DEF Init
  <2>2. \A c \in Credentials : OwnedBy(c) = {} /\ {r \in leases : who[r].cred = c} = {}
    BY <1>2, <2>1 DEF OwnedBy
  <2>3. {MaxSessions, MaxCredentialSessions, MaxActive, MaxCredentialActive} \subseteq Nat
    BY McpAssumption
  <2> QED BY <1>2, <2>1, <2>2, <2>3, FS_EmptySet DEF CountersAccounted, SlotsAccounted, ActiveAccounted
<1>5. Draining /\ Named
  BY <1>2 DEF Init, Draining, Named, closing
<1>6. OldDrained
  BY McpAssumption DEF Init, OldDrained, Past, Working
<1>7. Keyed
  BY DEF Init, Keyed
<1> QED BY <1>1, <1>3, <1>4, <1>5, <1>6, <1>7 DEF IInv

-----------------------------------------------------------------------------
(* The inductive invariant.                                                *)
THEOREM Inductive == Spec => []IInv
<1>1. IInv /\ [Next]_vars => IInv'
  BY TypeStep, StandingStep, CountersStep, DrainingStep, NamedStep, OldStep, KeyedStep
     DEF IInv
<1> QED BY <1>1, Initially, PTL DEF Spec

(* Every variable of the server keeps its type; no counter is negative.    *)
THEOREM TypeCorrect == Spec => []TypeOK
<1>1. IInv => TypeOK
  BY DEF IInv
<1> QED BY <1>1, Inductive, PTL

(* The limits on sessions and leases hold, in all and for each credential, *)
(* and the counters count what there is, whatever path takes it out.       *)
THEOREM CountersAlwaysAccounted == Spec => []CountersAccounted
<1>1. IInv => CountersAccounted
  BY DEF IInv
<1> QED BY <1>1, Inductive, PTL

(* Every session can be used and deleted or is still being opened, and     *)
(* closeEffect returns with no request and no session left.                *)
THEOREM SessionsNeverLeak == Spec => []NoSessionLeaks
<1>1. IInv => NoSessionLeaks
  <2> SUFFICES ASSUME IInv PROVE NoSessionLeaks
    OBVIOUS
  <2>1. Named /\ Draining /\ slots = Cardinality(Live)
    BY DEF IInv, CountersAccounted, SlotsAccounted
  <2>2. server.stage = "closed" => leases = {} /\ Live = {} /\ slots = 0
    BY <2>1, FS_EmptySet DEF Draining, closing
  <2> QED BY <2>1, <2>2 DEF Named, Opener, NoSessionLeaks
<1> QED BY <1>1, Inductive, PTL

(* Nobody acts with a credential whose closing has returned.               *)
THEOREM OldCredentialsQuiet == Spec => []OldCredentialQuiet
<1>1. IInv => OldCredentialQuiet
  <2> SUFFICES ASSUME IInv, NEW c \in Credentials, NEW r \in Requests,
                      retire[c].stage = "idle", pc[r] \in Past, who[r].cred = c
               PROVE  who[r].version >= retire[c].upto
    BY DEF OldCredentialQuiet, Past
  <2>1. TypeOK /\ Standing /\ OldDrained
    BY DEF IInv
  <2>2. who[r].version \in Nat /\ retire[c].upto \in Nat
    <3>1. who[r] \in Identities
      BY <2>1, Admitted DEF Past, Working
    <3> QED BY <2>1, <3>1 DEF TypeOK, Identities, Drain
  <2> QED BY <2>1, <2>2 DEF OldDrained
<1> QED BY <1>1, Inductive, PTL

-----------------------------------------------------------------------------
(* Whatever takes a session out of the maps aborts the calls registered in *)
(* it, and a call whose id did not clash is registered: the sweep takes none that is in use, whose count it trusts, and     *)
(* closeEffect is the closing of the server.                               *)
LEMMA RemovalStep ==
  ASSUME IInv, Next, NEW r \in Requests \ clashed, callId[r] # None, callId'[r] # None,
         at[r] \in Live, owner'[at[r]] = None
  PROVE  r \in aborted' \/ closing
<1>0. TypeOK /\ r \in calls /\ at[r] \in Entries /\ owner[at[r]] # None
  BY DEF IInv, Keyed, Live
<1>1. ASSUME NEW q \in Requests, RequestStep(q)
      PROVE  r \in aborted'
  <2>1. ASSUME NEW gone, Release(gone), FinishAborting(q, CallsOf(gone \cap Live))
        PROVE  r \in aborted'
    <3>1. at[r] \in gone
      BY <1>0, <2>1 DEF Release
    <3>2. r # q
      BY <1>0, <2>1 DEF FinishAborting, TypeOK
    <3>3. r \in CallsOf(gone \cap Live)
      BY <1>0, <3>1 DEF CallsOf
    <3>4. aborted' = (aborted \cup CallsOf(gone \cap Live)) \ {q}
      BY <2>1 DEF FinishAborting
    <3> QED BY <3>2, <3>3, <3>4
  <2>2. CASE OpenFails(q)
    BY <2>1, <2>2 DEF OpenFails
  <2>3. ASSUME NEW e \in Entries, DeleteSession(q, e)
        PROVE  r \in aborted'
    <3>1. e \in Live
      BY <2>3 DEF DeleteSession, IInv, Named
    <3>2. {e} \cap Live = {e}
      BY <3>1
    <3> QED BY <2>1, <2>3, <3>2 DEF DeleteSession
  <2>4. CASE OpenSession(q)
    <3>1. PICK e \in Entries : e \notin Live /\ owner' = [owner EXCEPT ![e] = who[q]]
      BY <2>4, Opens DEF IInv
    <3> QED BY <1>0, <3>1 DEF TypeOK
  <2>5. CASE owner' = owner
    BY <1>0, <2>5
  <2> QED BY <1>1, <2>2, <2>3, <2>4, <2>5 DEF RequestStep, Takes, TakeLease,
             BodyRead, BodyRefused, Refresh, RefreshRefused, UseSession, NoSession, RefuseSession,
             BeginCall, BeginOther, Cancel, HandlerReturns, Opened, sessionVars
<1>2. ASSUME NEW c \in Credentials, CredentialStep(c)
      PROVE  r \in aborted'
  <2>1. CASE CloseCredential(c)
    <3>1. at[r] \in OwnedBy(c)
      BY <1>0, <2>1 DEF CloseCredential, Release
    <3>2. r \in CallsOf(OwnedBy(c))
      BY <1>0, <3>1 DEF CallsOf
    <3> QED BY <2>1, <3>2 DEF CloseCredential
  <2>2. CASE owner' = owner
    BY <1>0, <2>2
  <2> QED BY <1>2, <2>1, <2>2 DEF CredentialStep, Rotate, CredentialClosed, CredentialTimesOut,
                                  sessionVars
<1>3. ASSUME ServerStep
      PROVE  closing
  <2>1. ASSUME NEW e \in Entries, SweepIdle(e)
        PROVE  FALSE
    <3>1. at[r] = e
      BY <1>0, <2>1 DEF SweepIdle, Release
    <3>2. active[at[r]] > 0
      BY <1>0, UserCounted
    <3> QED BY <2>1, <3>1, <3>2 DEF SweepIdle
  <2>2. CASE CloseSessions
    BY <2>2 DEF CloseSessions, closing
  <2>3. CASE owner' = owner
    BY <1>0, <2>3
  <2> QED BY <1>3, <2>1, <2>2, <2>3 DEF ServerStep, BeginClose, ServerClosed, ServerTimesOut,
                                        sessionVars
<1> QED BY <1>1, <1>2, <1>3 DEF Next

(* A call in progress whose id no other call of its session used at the    *)
(* same time never loses its session unless its controller is aborted or   *)
(* the server closes.                                                      *)
THEOREM RemovedCallsAborted == Spec => RemovedCallAborted
<1>1. IInv /\ [Next]_vars =>
        [\A r \in Requests \ clashed :
           /\ callId[r] # None /\ callId'[r] # None
           /\ at[r] \in Live /\ owner'[at[r]] = None
           => r \in aborted' \/ closing]_vars
  BY RemovalStep
<1> QED BY <1>1, Inductive, PTL DEF Spec, RemovedCallAborted
=============================================================================
