---------------------------- MODULE ServicesProofs ----------------------------
(***************************************************************************)
(* Proofs about the actions that act on services outside, for any runs and *)
(* jobs: IcpDeploy, K8sDeploy and MetaScan, one after the other; they share*)
(* no state.                                                               *)
(***************************************************************************)
EXTENDS IcpDeploy, K8sDeploy, MetaScan, FiniteSetTheorems, SequenceTheorems, TLAPS

-----------------------------------------------------------------------------
(***************************************************************************)
(* IcpDeploy: its type, that under the lock a canister is created as the   *)
(* user of the job, and what a canister out of reach is due to.            *)
(***************************************************************************)

Records == [name : Canisters, job : IcpJobs, owner : Users]

\* Between Lock and Unlock a run has the lock to itself, and once it has
\* switched, the identity of the host is its user's.
Switched == {"build", "check", "create", "download", "install"}
Critical == {"buildUse", "preUse", "hookUse"} \union Switched

LockInv ==
  \A r \in IcpRuns :
    /\ dfxAt[r] # "idle" => jobOf[r] \in IcpJobs
    /\ dfxAt[r] \in Critical => lock = r
    /\ dfxAt[r] \in Switched => identity = UserOf[jobOf[r]]

-----------------------------------------------------------------------------
(* The library's facts about what dfx adds to the ledger.                  *)

LEMMA Numbered ==
  ASSUME NEW cs \in SUBSET Canisters
  PROVE  Cardinality(cs) \in Nat
  BY CanistersAssumption, FS_Subset, FS_CardinalityType

\* Creating canisters of job j while its user is the identity keeps the types
\* and the owners.
LEMMA Created ==
  ASSUME IcpTypeOK, OwnersAreUsers, NEW j \in IcpJobs, NEW cs \in SUBSET Canisters,
         identity = UserOf[j], DfxCreate(j, cs)
  PROVE  /\ ledger' \in Seq(Records)
         /\ Len(ledger) <= Len(ledger')
         /\ dirIds' \in [IcpJobs -> [Canisters -> Ids']]
         /\ OwnersAreUsers'
<1>1. PICK order \in [1 .. Cardinality(cs) -> cs] :
        /\ \A c \in cs : \E i \in DOMAIN order : order[i] = c
        /\ ledger' = ledger \o [i \in DOMAIN order |-> [name |-> order[i], job |-> j, owner |-> identity]]
        /\ dirIds' = [dirIds EXCEPT ![j] =
             [c \in Canisters |-> IF c \in cs THEN Len(ledger) + CHOOSE i \in DOMAIN order : order[i] = c
                                              ELSE dirIds[j][c]]]
  BY DEF DfxCreate
<1> DEFINE n == Cardinality(cs)
           new == [i \in 1 .. n |-> [name |-> order[i], job |-> j, owner |-> identity]]
<1>2. n \in Nat /\ DOMAIN order = 1 .. n
  BY Numbered
<1>3. new \in [1 .. n -> Records]
  BY DEF Records, Users
<1>4. new \in Seq(Records) /\ Len(new) = n
  BY <1>2, <1>3, SeqDef
<1>5. ledger \in Seq(Records) /\ Len(ledger) \in Nat /\ DOMAIN ledger = 1 .. Len(ledger)
  BY DEF IcpTypeOK, Records
<1>6. ledger' = ledger \o new
  BY <1>1, <1>2
<1> HIDE DEF new, n
<1>7. /\ ledger' \in Seq(Records) /\ Len(ledger') = Len(ledger) + n
      /\ \A i \in 1 .. Len(ledger) + n : ledger'[i] = IF i <= Len(ledger) THEN ledger[i] ELSE new[i - Len(ledger)]
  BY <1>4, <1>5, <1>6, ConcatProperties
<1>8. OwnersAreUsers'
  <2>1. ASSUME NEW i \in 1 .. Len(ledger) + n PROVE ledger'[i].owner = UserOf[ledger'[i].job]
    <3>1. CASE i <= Len(ledger)
      <4>1. i \in DOMAIN ledger
        BY <1>2, <1>5, <3>1
      <4> QED
        BY <1>7, <3>1, <4>1 DEF OwnersAreUsers
    <3>2. CASE ~(i <= Len(ledger))
      <4>1. i - Len(ledger) \in 1 .. n
        BY <1>2, <1>5, <3>2
      <4>2. new[i - Len(ledger)].owner = identity /\ new[i - Len(ledger)].job = j
        BY <4>1 DEF new
      <4> QED
        BY <1>7, <3>2, <4>2
    <3> QED
      BY <3>1, <3>2
  <2>2. DOMAIN ledger' = 1 .. Len(ledger) + n
    BY <1>7
  <2> QED
    BY <2>1, <2>2 DEF OwnersAreUsers
<1>9. dirIds' \in [IcpJobs -> [Canisters -> Ids']]
  <2> DEFINE row == [c \in Canisters |-> IF c \in cs THEN Len(ledger) + CHOOSE i \in DOMAIN order : order[i] = c
                                                     ELSE dirIds[j][c]]
  <2>1. Ids' = 0 .. (Len(ledger) + n) /\ Ids \subseteq Ids'
    BY <1>2, <1>5, <1>7 DEF Ids
  <2>2. ASSUME NEW c \in cs PROVE Len(ledger) + (CHOOSE i \in DOMAIN order : order[i] = c) \in Ids'
    <3>1. (CHOOSE i \in DOMAIN order : order[i] = c) \in 1 .. n
      BY <1>1, <1>2
    <3> QED
      BY <1>2, <1>5, <2>1, <3>1
  <2>3. \A c \in Canisters : dirIds[j][c] \in Ids'
    BY <2>1 DEF IcpTypeOK
  <2>4. row \in [Canisters -> Ids']
    BY <2>2, <2>3
  <2>5. dirIds \in [IcpJobs -> [Canisters -> Ids']]
    BY <2>1 DEF IcpTypeOK
  <2>6. dirIds' = [dirIds EXCEPT ![j] = row]
    BY <1>1
  <2> HIDE DEF row
  <2> QED
    BY <2>4, <2>5, <2>6
<1> QED
  BY <1>2, <1>5, <1>7, <1>8, <1>9

-----------------------------------------------------------------------------
(* The moves of a run.                                                     *)

IcpInv == IcpTypeOK /\ LockInv /\ OwnersAreUsers

\* What a run does outside its stores: one step, with or without the lock.
Stays(r, from, to) == Step(r, from, to) /\ lock' = lock /\ identity' = identity
Leaves(r, from, to) == Fail(r, from, to) /\ identity' = identity

LEMMA StepType ==
  ASSUME IcpTypeOK, NEW r \in IcpRuns, NEW from, NEW to \in Places, Step(r, from, to)
  PROVE  /\ network' \in {"local", "ic"} /\ dfxAt' \in [IcpRuns -> Places]
         /\ jobOf' \in [IcpRuns -> IcpJobs \union {NoOne}] /\ deployCmd' \in [IcpRuns -> BOOLEAN]
  BY DEF IcpTypeOK, Step, Move

LEMMA StaysLocked ==
  ASSUME IcpTypeOK, LockInv, NEW r \in IcpRuns, NEW from, NEW to, from # "idle", Stays(r, from, to),
         to \in Critical => from \in Critical, to \in Switched => from \in Switched
  PROVE  LockInv'
  BY DEF IcpTypeOK, LockInv, Stays, Step, Move

\* The run that lets go was the only one inside.
LEMMA LeavesUnlocked ==
  ASSUME IcpTypeOK, LockInv, NEW r \in IcpRuns, NEW from \in Critical, NEW to, to \notin Critical,
         Leaves(r, from, to)
  PROVE  LockInv'
<1>1. \A q \in IcpRuns \ {r} : dfxAt[q] \notin Critical
  BY DEF LockInv, Leaves, Fail, Step
<1>2. from # "idle" /\ to \notin Switched
  BY DEF Critical, Switched
<1>3. \A q \in IcpRuns : dfxAt'[q] = (IF q = r THEN to ELSE dfxAt[q]) /\ jobOf'[q] = jobOf[q]
  BY DEF IcpTypeOK, Leaves, Fail, Step, Move
<1>4. \A q \in IcpRuns : dfxAt'[q] \notin Critical /\ dfxAt'[q] \notin Switched
  BY <1>1, <1>2, <1>3 DEF Critical
<1>5. \A q \in IcpRuns : dfxAt'[q] # "idle" => jobOf'[q] \in IcpJobs
  BY <1>2, <1>3 DEF LockInv, Leaves, Fail, Step
<1> QED
  BY <1>4, <1>5 DEF LockInv

LEMMA LockKeeps ==
  ASSUME IcpInv, NEW r \in IcpRuns, NEW from, NEW to \in Critical \ Switched, NEW failed,
         from # "idle", from \notin Critical, failed \notin Critical,
         to \in Places, failed \in Places, Lock(r, from, to, failed)
  PROVE  IcpInv'
<1> USE DEF IcpInv
<1>1. UNCHANGED <<todo, identity, disks, ledger, history>>
  BY DEF Lock
<1>2. CASE lock = NoOne /\ lock' = r /\ Step(r, from, to)
  <2>1. \A q \in IcpRuns : dfxAt[q] \notin Critical
    BY <1>2, NoOneAssumption DEF LockInv
  <2>2. LockInv'
    BY <1>1, <1>2, <2>1 DEF IcpTypeOK, LockInv, Step, Move, Critical
  <2>3. IcpTypeOK'
    BY <1>1, <1>2, StepType DEF IcpTypeOK, disks, history, Ids
  <2> QED
    BY <1>1, <2>2, <2>3 DEF OwnersAreUsers
<1>3. CASE lock' = lock /\ Step(r, from, failed)
  <2>1. LockInv'
    BY <1>1, <1>3, StaysLocked DEF Stays, Critical
  <2>2. IcpTypeOK'
    BY <1>1, <1>3, StepType DEF IcpTypeOK, disks, history, Ids
  <2> QED
    BY <1>1, <2>1, <2>2 DEF OwnersAreUsers
<1> QED
  BY <1>2, <1>3 DEF Lock

LEMMA UseIdentityKeeps ==
  ASSUME IcpInv, NEW r \in IcpRuns, NEW from \in Critical, NEW to \in Critical, NEW failed, failed \notin Critical,
         to \in Places, failed \in Places, UseIdentity(r, from, to, failed)
  PROVE  IcpInv'
<1> USE DEF IcpInv
<1>1. todo' = [todo EXCEPT ![r] = Canisters] /\ UNCHANGED <<disks, ledger, history>>
  BY DEF UseIdentity
<1>2. CASE Step(r, from, to) /\ identity' = UserOf[jobOf[r]] /\ lock' = lock
  <2>1. \A q \in IcpRuns \ {r} : dfxAt[q] \notin Critical
    BY <1>2 DEF LockInv, Step
  <2>2. from # "idle" /\ lock = r /\ jobOf[r] \in IcpJobs
    BY <1>2 DEF LockInv, Step, Critical, Switched
  <2>3. \A q \in IcpRuns : dfxAt'[q] = (IF q = r THEN to ELSE dfxAt[q]) /\ jobOf'[q] = jobOf[q]
    BY <1>2 DEF IcpTypeOK, Step, Move
  <2>4. LockInv'
    BY <1>2, <2>1, <2>2, <2>3 DEF LockInv, Critical
  <2>5. identity' \in Users
    BY <1>2, <2>2 DEF Users
  <2>6. IcpTypeOK'
    BY <1>1, <1>2, <2>5, StepType DEF IcpTypeOK, disks, history, Ids
  <2> QED
    BY <1>1, <2>4, <2>6 DEF OwnersAreUsers
<1>3. CASE Fail(r, from, failed) /\ identity' = identity
  <2>1. LockInv'
    BY <1>3, LeavesUnlocked DEF Leaves
  <2>2. IcpTypeOK'
    BY <1>1, <1>3, StepType DEF IcpTypeOK, disks, history, Ids, Fail, Unlock
  <2> QED
    BY <1>1, <2>1, <2>2 DEF OwnersAreUsers
<1> QED
  BY <1>2, <1>3 DEF UseIdentity

-----------------------------------------------------------------------------
(* Steps that create nothing.                                              *)

Stores == <<ledger, dirIds, cacheIds>>
NotesType ==
  todo \in [IcpRuns -> SUBSET Canisters] /\ overlapped \subseteq IcpRuns /\ broken \subseteq IcpRuns
IdsType == dirIds \in [IcpJobs -> [Canisters -> Ids]] /\ cacheIds \in [IcpJobs -> [Canisters -> Ids]]

LEMMA StaysKeeps ==
  ASSUME IcpInv, NEW r \in IcpRuns, NEW from, NEW to \in Places, from # "idle", Stays(r, from, to),
         to \in Critical => from \in Critical, to \in Switched => from \in Switched,
         NotesType', IdsType', ledger' = ledger
  PROVE  IcpInv'
<1>1. LockInv'
  BY StaysLocked DEF IcpInv
<1>2. IcpTypeOK'
  BY StepType DEF IcpInv, Stays, NotesType, IdsType, IcpTypeOK
<1> QED
  BY <1>1, <1>2 DEF IcpInv, OwnersAreUsers

LEMMA LeavesKeeps ==
  ASSUME IcpInv, NEW r \in IcpRuns, NEW from \in Critical, NEW to \in Places \ Critical, Leaves(r, from, to),
         NotesType', UNCHANGED Stores
  PROVE  IcpInv'
<1>1. LockInv'
  BY LeavesUnlocked DEF IcpInv
<1>2. IcpTypeOK'
  BY StepType DEF IcpInv, Leaves, Fail, Unlock, NotesType, IcpTypeOK, Stores, Ids
<1> QED
  BY <1>1, <1>2 DEF IcpInv, OwnersAreUsers, Stores

LEMMA StartRunKeeps == ASSUME IcpInv, NEW r \in IcpRuns, NEW j \in IcpJobs, StartRun(r, j) PROVE IcpInv'
<1> USE DEF IcpInv
<1>1. UNCHANGED <<network, todo, lock, identity, dirIds, cacheIds, ledger, broken>>
  BY DEF StartRun
<1>2. PICK first \in {"buildPre", "copyIn"} : dfxAt' = [dfxAt EXCEPT ![r] = first]
  BY DEF StartRun
<1>3. jobOf' = [jobOf EXCEPT ![r] = j] /\ dfxAt[r] = "idle"
  BY DEF StartRun
<1>4. deployCmd' \in [IcpRuns -> BOOLEAN]
  BY DEF StartRun, IcpTypeOK
<1>5. overlapped' \subseteq IcpRuns
  BY DEF StartRun, IcpTypeOK
<1>6. LockInv'
  BY <1>1, <1>2, <1>3 DEF IcpTypeOK, LockInv, Critical, Switched
<1>7. dfxAt' \in [IcpRuns -> Places] /\ jobOf' \in [IcpRuns -> IcpJobs \union {NoOne}]
  BY <1>2, <1>3 DEF IcpTypeOK, Places
<1>8. IcpTypeOK'
  BY <1>1, <1>4, <1>5, <1>7 DEF IcpTypeOK, Ids
<1> QED
  BY <1>1, <1>6, <1>8 DEF OwnersAreUsers

\* The job of a run that is not idle.
LEMMA HasJob == ASSUME IcpInv, NEW r \in IcpRuns, dfxAt[r] # "idle" PROVE jobOf[r] \in IcpJobs
  BY DEF IcpInv, LockInv

LEMMA CopiesKeep == ASSUME IcpInv, NEW r \in IcpRuns, BuildPre(r) \/ CopyIn(r) \/ Post(r) PROVE IcpInv'
<1> USE DEF Step, Stays, NotesType, IdsType, Places, Critical, Switched, Ended, IcpTypeOK, IcpInv, NoIds, CopyDir,
            disks, history
<1>1. ledger' = ledger /\ Ids' = Ids /\ 0 \in Ids
  BY DEF BuildPre, CopyIn, Post, Ids
<1>2. NotesType'
  BY DEF BuildPre, CopyIn, Post
<1>3. IdsType'
  <2>1. CASE BuildPre(r)
    BY <1>1, <2>1, HasJob DEF BuildPre
  <2>2. CASE CopyIn(r)
    BY <1>1, <2>2, HasJob DEF CopyIn
  <2>3. CASE Post(r)
    BY <1>1, <2>3, HasJob DEF Post
  <2> QED
    BY <2>1, <2>2, <2>3
<1> HIDE DEF Stays, NotesType, IdsType, IcpTypeOK, IcpInv
<1>4. CASE BuildPre(r)
  <2>1. Stays(r, "buildPre", "buildLock")
    BY <1>4 DEF BuildPre, Stays
  <2> QED
    BY <1>1, <1>2, <1>3, <2>1, StaysKeeps
<1>5. CASE CopyIn(r)
  <2>1. Stays(r, "copyIn", "preLock")
    BY <1>5 DEF CopyIn, Stays
  <2> QED
    BY <1>1, <1>2, <1>3, <2>1, StaysKeeps
<1>6. CASE Post(r)
  <2>1. Stays(r, "post", "done") \/ Stays(r, "postFailed", "failed")
    BY <1>6 DEF Post, Stays
  <2> QED
    BY <1>1, <1>2, <1>3, <2>1, StaysKeeps
<1> QED
  BY <1>4, <1>5, <1>6

\* The steps inside the lock that create nothing: to the next place inside, or
\* out of it.
LEMMA InsideKeeps ==
  ASSUME IcpInv, NEW r \in IcpRuns,
         \/ Build(r) \/ CheckDeployed(r) \/ BadDfxJson(r) \/ DownloadAndUnzip(r)
         \/ DfxDeployInstalls(r) \/ InstallCanister(r) \/ InstallFails(r)
  PROVE  IcpInv'
<1> USE DEF Places, Critical, Switched, Ended, disks, history, Stores
<1>1. ledger' = ledger /\ UNCHANGED Stores /\ Ids' = Ids
  BY DEF Build, CheckDeployed, BadDfxJson, DownloadAndUnzip, DfxDeployInstalls, InstallCanister, InstallFails, Ids
<1>2. NotesType'
  BY DEF Build, CheckDeployed, BadDfxJson, DownloadAndUnzip, DfxDeployInstalls, InstallCanister, InstallFails,
         NotesType, IcpInv, IcpTypeOK
<1>3. IdsType'
  BY <1>1 DEF IdsType, IcpInv, IcpTypeOK
<1>4. CASE CheckDeployed(r)
  <2>1. \E to \in {"download", "create"} : Stays(r, "check", to)
    BY <1>4 DEF CheckDeployed, Stays
  <2> QED
    BY <1>1, <1>2, <1>3, <2>1, StaysKeeps
<1>5. CASE Build(r)
  <2>1. Leaves(r, "build", "copyIn") \/ Leaves(r, "build", "failed")
    BY <1>5 DEF Build, Leaves, Fail
  <2> QED
    BY <1>1, <1>2, <2>1, LeavesKeeps
<1>6. CASE BadDfxJson(r)
  <2>1. Leaves(r, "check", "failed")
    BY <1>6 DEF BadDfxJson, Leaves
  <2> QED
    BY <1>1, <1>2, <2>1, LeavesKeeps
<1>7. CASE DownloadAndUnzip(r)
  <2>1. Leaves(r, "download", "hookLock") \/ Leaves(r, "download", "failed")
    BY <1>7 DEF DownloadAndUnzip, Leaves, Fail
  <2> QED
    BY <1>1, <1>2, <2>1, LeavesKeeps
<1>8. CASE DfxDeployInstalls(r)
  <2>1. Leaves(r, "install", "post") \/ Leaves(r, "install", "postFailed")
    BY <1>8 DEF DfxDeployInstalls, Leaves, Fail
  <2> QED
    BY <1>1, <1>2, <2>1, LeavesKeeps
<1>9. CASE InstallFails(r)
  <2>1. Leaves(r, "install", "postFailed")
    BY <1>9 DEF InstallFails, Leaves
  <2> QED
    BY <1>1, <1>2, <2>1, LeavesKeeps
<1>10. CASE InstallCanister(r)
  <2>1. Leaves(r, "install", "post") \/ Stays(r, "install", "install")
    BY <1>10 DEF InstallCanister, Leaves, Fail, Stays
  <2> QED
    BY <1>1, <1>2, <1>3, <2>1, LeavesKeeps, StaysKeeps
<1> QED
  BY <1>4, <1>5, <1>6, <1>7, <1>8, <1>9, <1>10

-----------------------------------------------------------------------------
(* Steps that create canisters.                                            *)

\* Run r is inside with its user's identity, and creates cs.
LEMMA CreatesKeeps ==
  ASSUME IcpInv, NEW r \in IcpRuns, NEW from \in Switched, NEW to \in Places, NEW cs \in SUBSET Canisters,
         DfxCreate(jobOf[r], cs), Step(r, from, to), identity' = identity, cacheIds' = cacheIds, NotesType',
         (lock' = lock /\ to \in Switched) \/ (Unlock /\ to \notin Critical)
  PROVE  IcpInv'
<1>1. dfxAt[r] = from /\ from # "idle" /\ from \in Critical
  BY DEF Step, Switched, Critical
<1>2. jobOf[r] \in IcpJobs /\ identity = UserOf[jobOf[r]] /\ lock = r
  BY <1>1 DEF IcpInv, LockInv
<1>3. /\ ledger' \in Seq(Records) /\ Len(ledger) <= Len(ledger')
      /\ dirIds' \in [IcpJobs -> [Canisters -> Ids']] /\ OwnersAreUsers'
  BY <1>2, Created DEF IcpInv
<1>4. cacheIds' \in [IcpJobs -> [Canisters -> Ids']]
  <2>1. Len(ledger) \in Nat /\ Len(ledger') \in Nat
    BY <1>3 DEF IcpInv, IcpTypeOK
  <2>2. Ids \subseteq Ids'
    BY <1>3, <2>1 DEF Ids
  <2>3. cacheIds \in [IcpJobs -> [Canisters -> Ids]]
    BY DEF IcpInv, IcpTypeOK
  <2> QED
    BY <2>2, <2>3
<1>5. LockInv'
  <2>1. CASE lock' = lock /\ to \in Switched
    BY <1>1, <2>1, StaysLocked DEF IcpInv, Stays, Critical
  <2>2. CASE Unlock /\ to \notin Critical
    BY <1>1, <2>2, LeavesUnlocked DEF IcpInv, Leaves, Fail
  <2> QED
    BY <2>1, <2>2
<1>6. lock' \in IcpRuns \union {NoOne} /\ identity' \in Users \union {NoOne}
  BY DEF IcpInv, IcpTypeOK, Unlock
<1>7. IcpTypeOK'
  BY <1>3, <1>4, <1>6, StepType DEF IcpInv, IcpTypeOK, NotesType, Records
<1> QED
  BY <1>3, <1>5, <1>7 DEF IcpInv

LEMMA CreatorsKeep == ASSUME IcpInv, NEW r \in IcpRuns, CreateCanister(r) \/ DfxDeployCreates(r) PROVE IcpInv'
<1> USE DEF Places, Critical, Switched, Ended, history
<1>1. NotesType'
  <2>1. NotesType
    BY DEF IcpInv, IcpTypeOK, NotesType
  <2>2. CASE CreateCanister(r)
    <3>1. PICK c \in todo[r] :
            /\ todo' = [todo EXCEPT ![r] = @ \ {c}]
            /\ overlapped' = overlapped
            /\ broken' \in {broken, broken \union {r}}
      BY <2>2 DEF CreateCanister
    <3>2. todo[r] \ {c} \in SUBSET Canisters
      BY <2>1 DEF NotesType
    <3>3. todo' \in [IcpRuns -> SUBSET Canisters]
      <4>1. todo \in [IcpRuns -> SUBSET Canisters] /\ todo' = [todo EXCEPT ![r] = todo[r] \ {c}]
        BY <2>1, <3>1 DEF NotesType
      <4>2. ASSUME NEW s \in SUBSET Canisters PROVE [todo EXCEPT ![r] = s] \in [IcpRuns -> SUBSET Canisters]
        BY <4>1
      <4> QED
        BY <3>2, <4>1, <4>2
    <3>4. overlapped' \subseteq IcpRuns /\ broken' \subseteq IcpRuns
      BY <2>1, <3>1 DEF NotesType
    <3> QED
      BY <3>3, <3>4 DEF NotesType
  <2>3. CASE DfxDeployCreates(r)
    <3>1. todo' = todo /\ overlapped' = overlapped /\ broken' = broken
      BY <2>3 DEF DfxDeployCreates
    <3> QED
      BY <2>1, <3>1 DEF NotesType
  <2> QED
    BY <2>2, <2>3
<1>2. CASE CreateCanister(r)
  <2>1. PICK c \in todo[r] :
          \/ /\ Step(r, "create", IF todo[r] = {c} THEN "download" ELSE "create")
             /\ DfxCreate(jobOf[r], {c} \intersect Missing(jobOf[r]))
             /\ lock' = lock
          \/ Fail(r, "create", "failed") /\ UNCHANGED <<dirIds, ledger>>
    BY <1>2 DEF CreateCanister
  <2>2. identity' = identity /\ cacheIds' = cacheIds
    BY <1>2 DEF CreateCanister
  <2>3. CASE Fail(r, "create", "failed") /\ UNCHANGED <<dirIds, ledger>>
    BY <1>1, <2>2, <2>3, LeavesKeeps DEF Leaves, Stores
  <2>4. CASE DfxCreate(jobOf[r], {c} \intersect Missing(jobOf[r])) /\ lock' = lock
             /\ Step(r, "create", IF todo[r] = {c} THEN "download" ELSE "create")
    <3>1. {c} \intersect Missing(jobOf[r]) \in SUBSET Canisters
      BY DEF Missing
    <3>2. \E to \in {"download", "create"} : Step(r, "create", to)
      BY <2>4
    <3> QED
      BY <1>1, <2>2, <2>4, <3>1, <3>2, CreatesKeeps
  <2> QED
    BY <2>1, <2>3, <2>4
<1>3. CASE DfxDeployCreates(r)
  <2>1. PICK cs \in SUBSET Canisters :
          /\ DfxCreate(jobOf[r], cs)
          /\ \/ Step(r, "install", "install") /\ lock' = lock
             \/ Fail(r, "install", "postFailed")
    BY <1>3 DEF DfxDeployCreates, Missing
  <2>2. identity' = identity /\ cacheIds' = cacheIds
    BY <1>3 DEF DfxDeployCreates
  <2> QED
    BY <1>1, <2>1, <2>2, CreatesKeeps DEF Fail
<1> QED
  BY <1>2, <1>3

-----------------------------------------------------------------------------
LEMMA IcpInvInit == IcpInit => IcpInv
<1> SUFFICES ASSUME IcpInit PROVE IcpInv
  OBVIOUS
<1> USE DEF IcpInit
<1>1. ledger \in Seq(Records) /\ Len(ledger) = 0 /\ DOMAIN ledger = {}
  OBVIOUS
<1>2. NoIds \in [Canisters -> Ids]
  BY <1>1 DEF NoIds, Ids
<1>3. IcpTypeOK
  BY <1>1, <1>2 DEF IcpTypeOK, Records, Places
<1> QED
  BY <1>1, <1>3 DEF IcpInv, LockInv, OwnersAreUsers, Critical, Switched

LEMMA IcpInvNext == IcpInv /\ [IcpNext]_icpVars => IcpInv'
<1> SUFFICES ASSUME IcpInv, [IcpNext]_icpVars PROVE IcpInv'
  OBVIOUS
<1> USE DEF Places, Critical, Switched, Ended
<1>1. ASSUME NEW r \in IcpRuns, NEW j \in IcpJobs, StartRun(r, j) PROVE IcpInv'
  BY <1>1, StartRunKeeps
<1>2. ASSUME NEW r \in IcpRuns, IcpBuild(r) PROVE IcpInv'
  <2>1. CASE Lock(r, "buildLock", "buildUse", "failed")
    BY <2>1, LockKeeps
  <2>2. CASE UseIdentity(r, "buildUse", "build", "failed")
    BY <2>2, UseIdentityKeeps
  <2> QED
    BY <1>2, <2>1, <2>2, CopiesKeep, InsideKeeps DEF IcpBuild
<1>3. ASSUME NEW r \in IcpRuns, Pre(r) PROVE IcpInv'
  <2>1. CASE Lock(r, "preLock", "preUse", "failed")
    BY <2>1, LockKeeps
  <2>2. CASE UseIdentity(r, "preUse", "check", "failed")
    BY <2>2, UseIdentityKeeps
  <2> QED
    BY <1>3, <2>1, <2>2, CopiesKeep, InsideKeeps, CreatorsKeep DEF Pre
<1>4. ASSUME NEW r \in IcpRuns, Hook(r) PROVE IcpInv'
  <2>1. CASE Lock(r, "hookLock", "hookUse", "postFailed")
    BY <2>1, LockKeeps
  <2>2. CASE UseIdentity(r, "hookUse", "install", "postFailed")
    BY <2>2, UseIdentityKeeps
  <2> QED
    BY <1>4, <2>1, <2>2, InsideKeeps, CreatorsKeep DEF Hook
<1>5. ASSUME NEW r \in IcpRuns, Post(r) PROVE IcpInv'
  BY <1>5, CopiesKeep
<1>6. CASE UNCHANGED icpVars
  BY <1>6 DEF icpVars, position, disks, history, IcpInv, IcpTypeOK, LockInv, OwnersAreUsers, Ids
<1> QED
  BY <1>1, <1>2, <1>3, <1>4, <1>5, <1>6 DEF IcpNext, IcpStep

-----------------------------------------------------------------------------
\* Where the canisters of a job are written down.  With the network on ic the
\* workdir has them all.  On the local network, as long as no two runs of the
\* job met and none broke, the cache has them while the run under way, if
\* there is one, has created none, and the workdir from the copy on.
Early == {"buildPre", "buildLock", "buildUse", "build", "copyIn", "preLock", "preUse", "check"}
Late == {"preLock", "preUse", "check", "create", "download", "hookLock", "hookUse", "install", "post", "postFailed"}

Held(l, ids, j) == \A i \in DOMAIN l : l[i].job = j => \E c \in Canisters : ids[c] = i
Clean(j) == \A r \in overlapped \union broken : jobOf[r] # j
Resting(r) == ~Busy(r) \/ dfxAt[r] \in Early \/ (dfxAt[r] = "download" /\ todo[r] = Canisters)

LocalInv(j) ==
  Clean(j) =>
    /\ (\A r \in IcpRuns : jobOf[r] = j => Resting(r)) => Held(ledger, cacheIds[j], j)
    /\ \A r \in IcpRuns : jobOf[r] = j /\ dfxAt[r] \in Late => Held(ledger, dirIds[j], j)

AloneInJob ==
  /\ \A r \in overlapped \union broken : dfxAt[r] # "idle"
  /\ \A r, q \in IcpRuns : r # q /\ Busy(r) /\ Busy(q) /\ jobOf[r] = jobOf[q] => r \in overlapped

OrphanInv ==
  /\ AloneInJob
  /\ network = "ic" => \A j \in IcpJobs : Held(ledger, dirIds[j], j)
  /\ network = "local" => \A j \in IcpJobs : LocalInv(j)

\* Creating what is missing writes every new canister down, in the row of its
\* job, over no id that was there.
LEMMA CreatedHeld ==
  ASSUME IcpTypeOK, NEW j \in IcpJobs, NEW cs \in SUBSET Missing(j),
         identity = UserOf[j], DfxCreate(j, cs)
  PROVE  /\ \A k \in IcpJobs \ {j} : dirIds'[k] = dirIds[k]
         /\ \A k \in IcpJobs \ {j} : \A ids : Held(ledger, ids, k) => Held(ledger', ids, k)
         /\ Held(ledger, dirIds[j], j) => Held(ledger', dirIds'[j], j)
<1>0. cs \in SUBSET Canisters /\ \A c \in cs : dirIds[j][c] = 0
  BY DEF Missing
<1>1. PICK order \in [1 .. Cardinality(cs) -> cs] :
        /\ \A c \in cs : \E i \in DOMAIN order : order[i] = c
        /\ ledger' = ledger \o [i \in DOMAIN order |-> [name |-> order[i], job |-> j, owner |-> identity]]
        /\ dirIds' = [dirIds EXCEPT ![j] =
             [c \in Canisters |-> IF c \in cs THEN Len(ledger) + CHOOSE i \in DOMAIN order : order[i] = c
                                              ELSE dirIds[j][c]]]
  BY DEF DfxCreate
<1> DEFINE n == Cardinality(cs)
           new == [i \in 1 .. n |-> [name |-> order[i], job |-> j, owner |-> identity]]
<1>2. n \in Nat /\ DOMAIN order = 1 .. n /\ IsFiniteSet(cs)
  BY <1>0, Numbered, CanistersAssumption, FS_Subset
<1>3. new \in [1 .. n -> Records] /\ \A i \in 1 .. n : new[i].job = j
  BY <1>0 DEF Records, Users
<1>4. new \in Seq(Records) /\ Len(new) = n
  BY <1>2, <1>3, SeqDef
<1>5. ledger \in Seq(Records) /\ Len(ledger) \in Nat /\ DOMAIN ledger = 1 .. Len(ledger)
  BY DEF IcpTypeOK, Records
<1>6. ledger' = ledger \o new
  BY <1>1, <1>2
\* Every name has one number: as many numbers as names, and each name has one.
<1>7. \A a, b \in 1 .. n : order[a] = order[b] => a = b
  <2>1. order \in Surjection(1 .. n, cs)
    BY <1>1, <1>2 DEF Surjection
  <2>2. IsFiniteSet(1 .. n) /\ Cardinality(1 .. n) = n
    BY <1>2, FS_Interval
  <2>3. order \in Injection(1 .. n, cs)
    BY <2>1, <2>2, FS_Surjection
  <2> QED
    BY <2>3 DEF Injection, IsInjective
<1> DEFINE row == [c \in Canisters |-> IF c \in cs THEN Len(ledger) + CHOOSE i \in DOMAIN order : order[i] = c
                                                   ELSE dirIds[j][c]]
<1>8. dirIds' = [dirIds EXCEPT ![j] = row]
  BY <1>1
<1>9. ASSUME NEW a \in 1 .. n PROVE order[a] \in cs /\ row[order[a]] = Len(ledger) + a
  <2>1. order[a] \in cs /\ order[a] \in Canisters
    BY <1>0
  <2>2. (CHOOSE i \in DOMAIN order : order[i] = order[a]) = a
    BY <1>2, <1>7
  <2> QED
    BY <2>1, <2>2
<1>10. \A c \in Canisters \ cs : row[c] = dirIds[j][c]
  OBVIOUS
<1> HIDE DEF new, n, row
<1>11. /\ Len(ledger') = Len(ledger) + n /\ DOMAIN ledger' = 1 .. Len(ledger) + n
       /\ \A i \in 1 .. Len(ledger) + n : ledger'[i] = IF i <= Len(ledger) THEN ledger[i] ELSE new[i - Len(ledger)]
  <2>1. ledger' \in Seq(Records)
    BY <1>4, <1>5, <1>6, ConcatProperties
  <2>2. /\ Len(ledger') = Len(ledger) + n
        /\ \A i \in 1 .. Len(ledger) + n : ledger'[i] = IF i <= Len(ledger) THEN ledger[i] ELSE new[i - Len(ledger)]
    BY <1>4, <1>5, <1>6, ConcatProperties
  <2>3. DOMAIN ledger' = 1 .. Len(ledger')
    BY <2>1
  <2> QED
    BY <2>2, <2>3
<1>12. \A i \in 1 .. Len(ledger) + n :
         \/ i \in DOMAIN ledger /\ ledger'[i] = ledger[i]
         \/ i - Len(ledger) \in 1 .. n /\ ledger'[i].job = j
  <2> SUFFICES ASSUME NEW i \in 1 .. Len(ledger) + n
               PROVE  \/ i \in DOMAIN ledger /\ ledger'[i] = ledger[i]
                      \/ i - Len(ledger) \in 1 .. n /\ ledger'[i].job = j
    OBVIOUS
  <2>1. CASE i <= Len(ledger)
    BY <1>2, <1>5, <1>11, <2>1
  <2>2. CASE ~(i <= Len(ledger))
    <3>1. i - Len(ledger) \in 1 .. n
      BY <1>2, <1>5, <2>2
    <3> QED
      BY <1>3, <1>11, <2>2, <3>1
  <2> QED
    BY <2>1, <2>2
<1>13. dirIds'[j] = row /\ \A k \in IcpJobs \ {j} : dirIds'[k] = dirIds[k]
  BY <1>8 DEF IcpTypeOK
<1>14. ASSUME NEW k \in IcpJobs \ {j}, NEW ids, Held(ledger, ids, k) PROVE Held(ledger', ids, k)
  <2>1. \A i \in DOMAIN ledger' : ledger'[i].job = k => i \in DOMAIN ledger /\ ledger'[i] = ledger[i]
    BY <1>11, <1>12
  <2> QED
    BY <1>14, <2>1 DEF Held
<1>15. ASSUME Held(ledger, dirIds[j], j) PROVE Held(ledger', row, j)
  <2> SUFFICES ASSUME NEW i \in 1 .. Len(ledger) + n, ledger'[i].job = j
               PROVE  \E c \in Canisters : row[c] = i
    BY <1>11 DEF Held
  <2>1. CASE i \in DOMAIN ledger /\ ledger'[i] = ledger[i]
    <3>1. PICK c \in Canisters : dirIds[j][c] = i
      BY <1>15, <2>1 DEF Held
    <3>2. c \notin cs
      BY <1>0, <1>5, <2>1, <3>1
    <3> QED
      BY <1>10, <3>1, <3>2
  <2>2. CASE i - Len(ledger) \in 1 .. n
    <3>1. order[i - Len(ledger)] \in Canisters /\ row[order[i - Len(ledger)]] = Len(ledger) + (i - Len(ledger))
      BY <1>0, <1>9, <2>2
    <3>2. Len(ledger) + (i - Len(ledger)) = i
      BY <1>2, <1>5
    <3> QED
      BY <3>1, <3>2
  <2> QED
    BY <1>12, <2>1, <2>2
<1> QED
  BY <1>13, <1>14, <1>15

\* Run r of job j takes a step: it is enough to look at the stores of its own
\* job, as no other run of it is under way while that job is clean.
LEMMA OrphanMoves ==
  ASSUME IcpInv, OrphanInv, NEW r \in IcpRuns, NEW j \in IcpJobs, j = jobOf[r],
         NEW from \in Places \ ({"idle"} \union Ended), NEW to \in Places \ {"idle"}, Step(r, from, to),
         overlapped' = overlapped, broken \subseteq broken', broken' \subseteq broken \union {r},
         \A q \in IcpRuns \ {r} : todo'[q] = todo[q],
         \A k \in IcpJobs \ {j} :
           /\ Held(ledger, dirIds[k], k) => Held(ledger', dirIds'[k], k)
           /\ Held(ledger, cacheIds[k], k) => Held(ledger', cacheIds'[k], k),
         network = "ic" /\ Held(ledger, dirIds[j], j) => Held(ledger', dirIds'[j], j),
         /\ network = "local" /\ r \notin broken'
         /\ Resting(r) => Held(ledger, cacheIds[j], j)
         /\ from \in Late => Held(ledger, dirIds[j], j)
         => /\ Resting(r)' => Held(ledger', cacheIds'[j], j)
            /\ to \in Late => Held(ledger', dirIds'[j], j)
  PROVE  OrphanInv'
<1>1. /\ network' = network /\ jobOf' = jobOf /\ dfxAt[r] = from /\ dfxAt'[r] = to
      /\ \A q \in IcpRuns \ {r} : dfxAt'[q] = dfxAt[q]
  BY DEF Step, Move, IcpInv, IcpTypeOK
<1>2. Busy(r) /\ \A q \in IcpRuns : Busy(q)' => Busy(q)
  BY <1>1 DEF Busy
<1>3. AloneInJob'
  <2>1. \A q \in overlapped' \union broken' : dfxAt'[q] # "idle"
    BY <1>1 DEF OrphanInv, AloneInJob, IcpInv, IcpTypeOK
  <2> QED
    BY <1>1, <1>2, <2>1 DEF OrphanInv, AloneInJob
<1>4. network' = "ic" => \A k \in IcpJobs : Held(ledger', dirIds'[k], k)
  BY <1>1 DEF OrphanInv
<1>5. \A q \in IcpRuns \ {r} : Resting(q)' => Resting(q)
  BY <1>1 DEF Resting, Busy
<1>6. \A q \in IcpRuns \ {r} : Resting(q) => Resting(q)'
  BY <1>1 DEF Resting, Busy
<1>7. \A k \in IcpJobs : Clean(k)' => Clean(k)
  BY <1>1 DEF Clean
<1>8. ASSUME network' = "local", NEW k \in IcpJobs \ {j} PROVE LocalInv(k)'
  <2> SUFFICES ASSUME Clean(k)'
               PROVE  /\ (\A q \in IcpRuns : jobOf'[q] = k => Resting(q)') => Held(ledger', cacheIds'[k], k)
                      /\ \A q \in IcpRuns : jobOf'[q] = k /\ dfxAt'[q] \in Late => Held(ledger', dirIds'[k], k)
    BY DEF LocalInv
  <2>1. LocalInv(k) /\ Clean(k)
    BY <1>1, <1>7, <1>8 DEF OrphanInv
  <2>2. \A q \in IcpRuns : jobOf[q] = k => q # r
    OBVIOUS
  <2> QED
    BY <1>1, <1>5, <2>1, <2>2 DEF LocalInv
<1>9. ASSUME network' = "local" PROVE LocalInv(j)'
  <2> SUFFICES ASSUME Clean(j)'
               PROVE  /\ (\A q \in IcpRuns : jobOf'[q] = j => Resting(q)') => Held(ledger', cacheIds'[j], j)
                      /\ \A q \in IcpRuns : jobOf'[q] = j /\ dfxAt'[q] \in Late => Held(ledger', dirIds'[j], j)
    BY DEF LocalInv
  <2>1. LocalInv(j) /\ Clean(j) /\ network = "local"
    BY <1>1, <1>7, <1>9 DEF OrphanInv
  <2>2. r \notin broken' /\ r \notin overlapped
    BY <1>1 DEF Clean
  <2>3. \A q \in IcpRuns \ {r} : jobOf[q] = j => ~Busy(q)
    BY <1>2, <2>2 DEF OrphanInv, AloneInJob
  <2>4. \A q \in IcpRuns \ {r} : jobOf[q] = j => Resting(q) /\ dfxAt[q] \notin Late
    BY <2>3 DEF Resting, Busy, Late, Ended
  <2>5. Resting(r) => Held(ledger, cacheIds[j], j)
    BY <2>1, <2>4 DEF LocalInv
  <2>6. from \in Late => Held(ledger, dirIds[j], j)
    BY <1>1, <2>1 DEF LocalInv
  <2>7. /\ Resting(r)' => Held(ledger', cacheIds'[j], j)
        /\ to \in Late => Held(ledger', dirIds'[j], j)
    BY <2>1, <2>2, <2>5, <2>6
  <2> QED
    BY <1>1, <2>4, <2>7
<1> QED
  BY <1>3, <1>4, <1>8, <1>9 DEF OrphanInv

\* A step that leaves ledger and files alone.
LEMMA OrphanQuiet ==
  ASSUME IcpInv, OrphanInv, NEW r \in IcpRuns,
         NEW from \in Places \ ({"idle"} \union Ended), NEW to \in Places \ {"idle"}, Step(r, from, to),
         UNCHANGED Stores, overlapped' = overlapped, broken \subseteq broken', broken' \subseteq broken \union {r},
         \A q \in IcpRuns \ {r} : todo'[q] = todo[q],
         to \in Late => from \in Late, r \in broken' \/ (Resting(r)' => Resting(r))
  PROVE  OrphanInv'
<1>1. PICK j \in IcpJobs : j = jobOf[r]
  BY HasJob DEF Step
<1>2. ledger' = ledger /\ dirIds' = dirIds /\ cacheIds' = cacheIds
  BY DEF Stores
<1> QED
  BY <1>1, <1>2, OrphanMoves

LEMMA OrphanStart == ASSUME IcpInv, OrphanInv, NEW r \in IcpRuns, NEW j \in IcpJobs, StartRun(r, j) PROVE OrphanInv'
<1>1. UNCHANGED <<network, todo, dirIds, cacheIds, ledger, broken>> /\ dfxAt[r] = "idle"
  BY DEF StartRun
<1>2. PICK first \in {"buildPre", "copyIn"} : dfxAt' = [dfxAt EXCEPT ![r] = first]
  BY DEF StartRun
<1>3. /\ dfxAt'[r] = first /\ \A q \in IcpRuns \ {r} : dfxAt'[q] = dfxAt[q]
      /\ jobOf'[r] = j /\ \A q \in IcpRuns \ {r} : jobOf'[q] = jobOf[q]
  BY <1>2 DEF StartRun, IcpInv, IcpTypeOK
<1> DEFINE same == {q \in IcpRuns : jobOf[q] = j /\ Busy(q)}
<1>4. overlapped' = IF same = {} THEN overlapped ELSE overlapped \union same \union {r}
  BY DEF StartRun
<1>5. overlapped \subseteq IcpRuns /\ broken \subseteq IcpRuns /\ r \notin overlapped \union broken
  BY <1>1 DEF OrphanInv, AloneInJob, IcpInv, IcpTypeOK
<1>6. \A q \in IcpRuns \ {r} : Busy(q)' = Busy(q) /\ Resting(q)' = Resting(q)
  BY <1>1, <1>3 DEF Busy, Resting
<1>7. AloneInJob'
  <2>1. \A q \in overlapped' \union broken' : dfxAt'[q] # "idle"
    BY <1>1, <1>2, <1>3, <1>4, <1>5 DEF OrphanInv, AloneInJob, Busy
  <2>2. ASSUME NEW p \in IcpRuns, NEW q \in IcpRuns, p # q, Busy(p)', Busy(q)', jobOf'[p] = jobOf'[q]
        PROVE  p \in overlapped'
    <3>1. CASE p = r
      <4>1. q \in same
        BY <1>3, <1>6, <2>2, <3>1
      <4> QED
        BY <1>4, <3>1, <4>1
    <3>2. CASE q = r
      <4>1. p \in same
        BY <1>3, <1>6, <2>2, <3>2
      <4> QED
        BY <1>4, <4>1
    <3>3. CASE p # r /\ q # r
      BY <1>3, <1>4, <1>6, <2>2, <3>3 DEF OrphanInv, AloneInJob
    <3> QED
      BY <3>1, <3>2, <3>3
  <2> QED
    BY <2>1, <2>2 DEF AloneInJob
<1>8. \A k \in IcpJobs : Clean(k)' => Clean(k)
  BY <1>1, <1>3, <1>4, <1>5 DEF Clean
<1>9. first \in Early /\ first \notin Late
  BY DEF Early, Late
<1>10. ASSUME network = "local", NEW k \in IcpJobs, Clean(k)'
       PROVE  /\ (\A q \in IcpRuns : jobOf'[q] = k => Resting(q)') => Held(ledger, cacheIds[k], k)
              /\ \A q \in IcpRuns : jobOf'[q] = k /\ dfxAt'[q] \in Late => Held(ledger, dirIds[k], k)
  <2>1. LocalInv(k) /\ Clean(k)
    BY <1>8, <1>10 DEF OrphanInv
  <2>2. Resting(r)
    BY <1>1 DEF Resting, Busy
  <2>3. (\A q \in IcpRuns : jobOf'[q] = k => Resting(q)') => \A q \in IcpRuns : jobOf[q] = k => Resting(q)
    BY <1>3, <1>6, <2>2
  <2>4. \A q \in IcpRuns : dfxAt'[q] \in Late => q # r
    BY <1>3, <1>9
  <2> QED
    BY <1>3, <2>1, <2>3, <2>4 DEF LocalInv
<1>11. network' = "local" => \A k \in IcpJobs : LocalInv(k)'
  BY <1>1, <1>10 DEF LocalInv
<1> QED
  BY <1>1, <1>7, <1>11 DEF OrphanInv

\* Waiting for the lock, the identity, and what creates nothing under it.
LEMMA OrphanLock ==
  ASSUME IcpInv, OrphanInv, NEW r \in IcpRuns, NEW from \in {"buildLock", "preLock", "hookLock"},
         NEW to \in Places \ {"idle"}, NEW failed \in Places \ {"idle"}, Lock(r, from, to, failed),
         from \in Early => to \in Early /\ failed \in Ended,
         to \in Late => from \in Late, failed \in Late => from \in Late,
         from = "hookLock" => {to, failed} \subseteq {"hookUse", "postFailed"}
  PROVE  OrphanInv'
<1>1. PICK at \in {to, failed} : Step(r, from, at)
  BY DEF Lock
<1>2. UNCHANGED Stores /\ todo' = todo /\ overlapped' = overlapped /\ broken' = broken
  BY DEF Lock, Stores, disks, history
<1>3. from \in Places \ ({"idle"} \union Ended)
  BY DEF Places, Ended
<1>4. dfxAt[r] = from /\ dfxAt'[r] = at
  BY <1>1 DEF Step, Move, IcpInv, IcpTypeOK
<1>5. Resting(r)' => Resting(r)
  <2>1. CASE from \in Early
    BY <1>4, <2>1 DEF Resting
  <2>2. CASE from = "hookLock"
    BY <1>4, <2>2 DEF Resting, Busy, Ended, Early
  <2> QED
    BY <2>1, <2>2 DEF Early
<1> QED
  BY <1>1, <1>2, <1>3, <1>5, OrphanQuiet

LEMMA OrphanIdentity ==
  ASSUME IcpInv, OrphanInv, NEW r \in IcpRuns, NEW from \in {"buildUse", "preUse", "hookUse"},
         NEW to \in Places \ {"idle"}, NEW failed \in Places \ {"idle"}, UseIdentity(r, from, to, failed),
         to \in Late => from \in Late, failed \in Late => from \in Late,
         from = "hookUse" => {to, failed} \subseteq {"install", "postFailed"}
  PROVE  OrphanInv'
<1>1. PICK at \in {to, failed} : Step(r, from, at)
  BY DEF UseIdentity, Fail
<1>2. UNCHANGED Stores /\ overlapped' = overlapped /\ broken' = broken /\ \A q \in IcpRuns \ {r} : todo'[q] = todo[q]
  BY DEF UseIdentity, Stores, disks, history, IcpInv, IcpTypeOK
<1>3. from \in Places \ ({"idle"} \union Ended)
  BY DEF Places, Ended
<1>4. dfxAt[r] = from /\ dfxAt'[r] = at
  BY <1>1 DEF Step, Move, IcpInv, IcpTypeOK
<1>5. Resting(r)' => Resting(r)
  <2>1. CASE from \in Early
    BY <1>4, <2>1 DEF Resting
  <2>2. CASE from = "hookUse"
    BY <1>4, <2>2 DEF Resting, Busy, Ended, Early
  <2> QED
    BY <2>1, <2>2 DEF Early
<1> QED
  BY <1>1, <1>2, <1>3, <1>5, OrphanQuiet

LEMMA OrphanInside ==
  ASSUME IcpInv, OrphanInv, NEW r \in IcpRuns,
         \/ Build(r) \/ CheckDeployed(r) \/ BadDfxJson(r) \/ DownloadAndUnzip(r)
         \/ DfxDeployInstalls(r) \/ InstallCanister(r) \/ InstallFails(r)
  PROVE  OrphanInv'
<1>1. UNCHANGED Stores /\ overlapped' = overlapped
  BY DEF Build, CheckDeployed, BadDfxJson, DownloadAndUnzip, DfxDeployInstalls, InstallCanister, InstallFails,
         Stores, disks, history
<1>2. \A q \in IcpRuns \ {r} : todo'[q] = todo[q]
  BY DEF Build, CheckDeployed, BadDfxJson, DownloadAndUnzip, DfxDeployInstalls, InstallCanister, InstallFails,
         IcpInv, IcpTypeOK
<1>3. ASSUME NEW from, NEW to, Step(r, from, to) PROVE dfxAt[r] = from /\ dfxAt'[r] = to
  BY <1>3 DEF Step, Move, IcpInv, IcpTypeOK
<1>4. CASE Build(r) \/ CheckDeployed(r) \/ BadDfxJson(r)
  <2>1. broken' = broken
    BY <1>4 DEF Build, CheckDeployed, BadDfxJson, disks, history
  <2>2. PICK from \in {"build", "check"}, to \in {"copyIn", "failed", "download", "create"} :
          Step(r, from, to) /\ (to \in {"download", "create"} => from = "check")
    BY <1>4 DEF Build, CheckDeployed, BadDfxJson, Fail
  <2>3. Resting(r)
    BY <1>3, <2>2 DEF Resting, Early
  <2>4. to \in Late => from \in Late
    BY <2>2 DEF Late
  <2>5. from \in Places \ ({"idle"} \union Ended) /\ to \in Places \ {"idle"}
    BY DEF Places, Ended
  <2> QED
    BY <1>1, <1>2, <2>1, <2>2, <2>3, <2>4, <2>5, OrphanQuiet
<1>5. CASE DownloadAndUnzip(r)
  <2>1. PICK to \in {"hookLock", "failed"} :
          /\ Step(r, "download", to)
          /\ broken' = IF to = "hookLock" \/ todo[r] = Canisters THEN broken ELSE broken \union {r}
    BY <1>5 DEF DownloadAndUnzip
  <2>2. r \in broken' \/ (Resting(r)' => Resting(r))
    BY <1>3, <2>1 DEF Resting, Busy, Early, Ended
  <2>3. to \in Late => "download" \in Late
    BY DEF Late
  <2>4. "download" \in Places \ ({"idle"} \union Ended) /\ to \in Places \ {"idle"}
    BY DEF Places, Ended
  <2>5. broken \subseteq broken' /\ broken' \subseteq broken \union {r}
    BY <2>1
  <2> QED
    BY <1>1, <1>2, <2>1, <2>2, <2>3, <2>4, <2>5, OrphanQuiet
<1>6. CASE DfxDeployInstalls(r) \/ InstallCanister(r) \/ InstallFails(r)
  <2>1. broken' = broken
    BY <1>6 DEF DfxDeployInstalls, InstallCanister, InstallFails, disks, history
  <2>2. PICK to \in {"install", "post", "postFailed"} : Step(r, "install", to)
    BY <1>6 DEF DfxDeployInstalls, InstallCanister, InstallFails, Fail
  <2>3. ~Resting(r)'
    BY <1>3, <2>2 DEF Resting, Busy, Early, Ended
  <2>4. to \in Late => "install" \in Late
    BY DEF Late
  <2>5. "install" \in Places \ ({"idle"} \union Ended) /\ to \in Places \ {"idle"}
    BY DEF Places, Ended
  <2> QED
    BY <1>1, <1>2, <2>1, <2>2, <2>3, <2>4, <2>5, OrphanQuiet
<1> QED
  BY <1>4, <1>5, <1>6

\* A file without an id holds the canisters of a job that has none.
LEMMA NothingHeld ==
  ASSUME IcpTypeOK, NEW j, NEW ids, Held(ledger, NoIds, j)
  PROVE  Held(ledger, ids, j)
<1>1. \A i \in DOMAIN ledger : i # 0
  BY DEF IcpTypeOK
<1> QED
  BY <1>1 DEF Held, NoIds

\* The copies: what is removed or replaced is held by the other file.
LEMMA OrphanCopies == ASSUME IcpInv, OrphanInv, NEW r \in IcpRuns, BuildPre(r) \/ CopyIn(r) \/ Post(r) PROVE OrphanInv'
<1>1. ledger' = ledger /\ overlapped' = overlapped /\ broken' = broken /\ todo' = todo
  BY DEF BuildPre, CopyIn, Post, history
<1>2. PICK j \in IcpJobs : j = jobOf[r]
  BY HasJob DEF BuildPre, CopyIn, Post, Step
<1>3. ASSUME NEW from, NEW to, Step(r, from, to) PROVE dfxAt[r] = from /\ dfxAt'[r] = to
  BY <1>3 DEF Step, Move, IcpInv, IcpTypeOK
<1>4. dirIds \in [IcpJobs -> [Canisters -> Ids]] /\ cacheIds \in [IcpJobs -> [Canisters -> Ids]] /\ IcpTypeOK
  BY DEF IcpInv, IcpTypeOK
<1>5. CASE BuildPre(r)
  <2>1. Step(r, "buildPre", "buildLock") /\ cacheIds' = cacheIds
    BY <1>5 DEF BuildPre
  <2>2. (\A k \in IcpJobs \ {j} : dirIds'[k] = dirIds[k]) /\ (network = "ic" => dirIds' = dirIds)
    BY <1>2, <1>5 DEF BuildPre, IcpInv, IcpTypeOK
  <2>3. Resting(r) /\ "buildLock" \notin Late
    BY <1>3, <2>1 DEF Resting, Early, Late
  <2>4. "buildPre" \in Places \ ({"idle"} \union Ended) /\ "buildLock" \in Places \ {"idle"}
    BY DEF Places, Ended
  <2> QED
    BY <1>1, <1>2, <2>1, <2>2, <2>3, <2>4, OrphanMoves
<1>6. CASE CopyIn(r)
  <2>1. Step(r, "copyIn", "preLock") /\ cacheIds' = cacheIds
    BY <1>6 DEF CopyIn
  <2>2. /\ \A k \in IcpJobs \ {j} : dirIds'[k] = dirIds[k]
        /\ dirIds'[j] = IF network = "local" /\ cacheIds[j] # NoIds THEN cacheIds[j] ELSE dirIds[j]
    BY <1>2, <1>4, <1>6 DEF CopyIn, CopyDir
  <2>3. Resting(r)
    BY <1>3, <2>1 DEF Resting, Early
  <2>4. ASSUME network = "local", Held(ledger, cacheIds[j], j) PROVE Held(ledger, dirIds'[j], j)
    BY <1>4, <2>2, <2>4, NothingHeld
  <2>5. "copyIn" \in Places \ ({"idle"} \union Ended) /\ "preLock" \in Places \ {"idle"}
    BY DEF Places, Ended
  <2> QED
    BY <1>1, <1>2, <2>1, <2>2, <2>3, <2>4, <2>5, OrphanMoves
<1>7. CASE Post(r)
  <2>1. PICK from \in {"post", "postFailed"}, to \in Ended : Step(r, from, to)
    BY <1>7 DEF Post, Ended
  <2>2. dirIds' = dirIds
    BY <1>7 DEF Post
  <2>3. /\ \A k \in IcpJobs \ {j} : cacheIds'[k] = cacheIds[k]
        /\ cacheIds'[j] = IF network = "local" /\ dirIds[j] # NoIds THEN dirIds[j] ELSE cacheIds[j]
    BY <1>2, <1>4, <1>7 DEF Post, CopyDir
  <2>4. from \in Late /\ to \notin Late
    BY DEF Late, Ended
  <2>5. ASSUME network = "local", Held(ledger, dirIds[j], j) PROVE Held(ledger, cacheIds'[j], j)
    BY <1>4, <2>3, <2>5, NothingHeld
  <2>6. from \in Places \ ({"idle"} \union Ended) /\ to \in Places \ {"idle"}
    BY DEF Places, Ended
  <2> QED
    BY <1>1, <1>2, <2>1, <2>2, <2>3, <2>4, <2>5, <2>6, OrphanMoves
<1> QED
  BY <1>5, <1>6, <1>7

\* A run that creates is past the copy, and its cache waits for Post.
LEMMA OrphanCreates ==
  ASSUME IcpInv, OrphanInv, NEW r \in IcpRuns, NEW from \in {"create", "install"},
         NEW to \in {"create", "download", "install", "postFailed"}, Step(r, from, to),
         NEW cs \in SUBSET Missing(jobOf[r]), DfxCreate(jobOf[r], cs), cacheIds' = cacheIds,
         overlapped' = overlapped, broken' = broken, \A q \in IcpRuns \ {r} : todo'[q] = todo[q],
         to = "download" => todo'[r] # Canisters
  PROVE  OrphanInv'
<1>1. PICK j \in IcpJobs : j = jobOf[r]
  BY HasJob DEF Step
<1>2. IcpTypeOK /\ identity = UserOf[j]
  BY <1>1 DEF IcpInv, LockInv, Step, Switched
<1>3. /\ \A k \in IcpJobs \ {j} : dirIds'[k] = dirIds[k]
      /\ \A k \in IcpJobs \ {j} : \A ids : Held(ledger, ids, k) => Held(ledger', ids, k)
      /\ Held(ledger, dirIds[j], j) => Held(ledger', dirIds'[j], j)
  BY <1>1, <1>2, CreatedHeld
<1>4. dfxAt'[r] = to
  BY DEF Step, Move, IcpInv, IcpTypeOK
<1>5. ~Resting(r)' /\ from \in Late
  BY <1>4 DEF Resting, Busy, Early, Ended, Late
<1>6. from \in Places \ ({"idle"} \union Ended) /\ to \in Places \ {"idle"}
  BY DEF Places, Ended
<1> QED
  BY <1>1, <1>3, <1>5, <1>6, OrphanMoves

LEMMA OrphanCreators ==
  ASSUME IcpInv, OrphanInv, NEW r \in IcpRuns, CreateCanister(r) \/ DfxDeployCreates(r) PROVE OrphanInv'
<1>1. CASE CreateCanister(r)
  <2>1. PICK c \in todo[r] :
          /\ todo' = [todo EXCEPT ![r] = @ \ {c}]
          /\ \/ /\ Step(r, "create", IF todo[r] = {c} THEN "download" ELSE "create")
                /\ DfxCreate(jobOf[r], {c} \intersect Missing(jobOf[r]))
                /\ broken' = broken
             \/ /\ Fail(r, "create", "failed")
                /\ broken' = broken \union {r}
                /\ UNCHANGED <<dirIds, ledger>>
    BY <1>1 DEF CreateCanister
  <2>2. /\ cacheIds' = cacheIds /\ overlapped' = overlapped
        /\ todo'[r] = todo[r] \ {c} /\ \A q \in IcpRuns \ {r} : todo'[q] = todo[q]
    BY <1>1, <2>1 DEF CreateCanister, IcpInv, IcpTypeOK
  <2>3. CASE Fail(r, "create", "failed") /\ broken' = broken \union {r} /\ UNCHANGED <<dirIds, ledger>>
    <3>1. Step(r, "create", "failed") /\ UNCHANGED Stores /\ "failed" \notin Late
      BY <2>2, <2>3 DEF Fail, Stores, Late
    <3>2. "create" \in Places \ ({"idle"} \union Ended) /\ "failed" \in Places \ {"idle"}
      BY DEF Places, Ended
    <3> QED
      BY <2>2, <2>3, <3>1, <3>2, OrphanQuiet
  <2>4. CASE /\ Step(r, "create", IF todo[r] = {c} THEN "download" ELSE "create")
             /\ DfxCreate(jobOf[r], {c} \intersect Missing(jobOf[r]))
             /\ broken' = broken
    <3>1. PICK to \in {"create", "download"} : Step(r, "create", to)
      BY <2>4
    <3>2. c \in Canisters
      BY DEF IcpInv, IcpTypeOK
    <3>3. todo'[r] # Canisters
      BY <2>2, <3>2
    <3>4. {c} \intersect Missing(jobOf[r]) \in SUBSET Missing(jobOf[r])
      OBVIOUS
    <3> QED
      BY <2>2, <2>4, <3>1, <3>3, <3>4, OrphanCreates
  <2> QED
    BY <2>1, <2>3, <2>4
<1>2. CASE DfxDeployCreates(r)
  <2>1. PICK cs \in SUBSET Missing(jobOf[r]) : DfxCreate(jobOf[r], cs)
    BY <1>2 DEF DfxDeployCreates
  <2>2. PICK to \in {"install", "postFailed"} : Step(r, "install", to)
    BY <1>2 DEF DfxDeployCreates, Fail
  <2>3. cacheIds' = cacheIds /\ overlapped' = overlapped /\ broken' = broken /\ todo' = todo
    BY <1>2 DEF DfxDeployCreates, history
  <2> QED
    BY <2>1, <2>2, <2>3, OrphanCreates
<1> QED
  BY <1>1, <1>2

LEMMA OrphanInit == IcpInit => OrphanInv
<1> SUFFICES ASSUME IcpInit PROVE OrphanInv
  OBVIOUS
<1>1. DOMAIN ledger = {}
  BY DEF IcpInit
<1>2. \A l, ids, j : DOMAIN l = {} => Held(l, ids, j)
  BY DEF Held
<1>3. AloneInJob
  BY DEF IcpInit, AloneInJob, Busy
<1> QED
  BY <1>1, <1>2, <1>3 DEF OrphanInv, LocalInv

LEMMA OrphanNext == IcpInv /\ OrphanInv /\ [IcpNext]_icpVars => OrphanInv'
<1> SUFFICES ASSUME IcpInv, OrphanInv, [IcpNext]_icpVars PROVE OrphanInv'
  OBVIOUS
<1>0. /\ {"buildUse", "build", "preUse", "check", "hookUse", "install", "failed", "postFailed"} \subseteq Places \ {"idle"}
      /\ "buildUse" \in Early /\ "preUse" \in Early /\ "failed" \in Ended /\ "hookLock" \notin Early
  BY DEF Places, Ended, Early
<1>1. ASSUME NEW r \in IcpRuns, IcpBuild(r) PROVE OrphanInv'
  <2>1. "buildUse" \notin Late /\ "build" \notin Late /\ "failed" \notin Late
    BY DEF Late
  <2>2. CASE Lock(r, "buildLock", "buildUse", "failed")
    BY <1>0, <2>1, <2>2, OrphanLock
  <2>3. CASE UseIdentity(r, "buildUse", "build", "failed")
    BY <1>0, <2>1, <2>3, OrphanIdentity
  <2> QED
    BY <1>1, <2>2, <2>3, OrphanCopies, OrphanInside DEF IcpBuild
<1>2. ASSUME NEW r \in IcpRuns, Pre(r) PROVE OrphanInv'
  <2>1. "preLock" \in Late /\ "preUse" \in Late /\ "failed" \notin Late
    BY DEF Late
  <2>2. CASE Lock(r, "preLock", "preUse", "failed")
    BY <1>0, <2>1, <2>2, OrphanLock
  <2>3. CASE UseIdentity(r, "preUse", "check", "failed")
    BY <1>0, <2>1, <2>3, OrphanIdentity
  <2> QED
    BY <1>2, <2>2, <2>3, OrphanCopies, OrphanInside, OrphanCreators DEF Pre
<1>3. ASSUME NEW r \in IcpRuns, Hook(r) PROVE OrphanInv'
  <2>1. "hookLock" \in Late /\ "hookUse" \in Late
    BY DEF Late
  <2>2. CASE Lock(r, "hookLock", "hookUse", "postFailed")
    BY <1>0, <2>1, <2>2, OrphanLock
  <2>3. CASE UseIdentity(r, "hookUse", "install", "postFailed")
    BY <1>0, <2>1, <2>3, OrphanIdentity
  <2> QED
    BY <1>3, <2>2, <2>3, OrphanInside, OrphanCreators DEF Hook
<1>4. CASE UNCHANGED icpVars
  <2>1. UNCHANGED <<network, dfxAt, jobOf, todo, dirIds, cacheIds, ledger, overlapped, broken>>
    BY <1>4 DEF icpVars, position, disks, history
  <2>2. \A j : LocalInv(j)' = LocalInv(j)
    BY <2>1 DEF LocalInv, Clean, Resting, Busy
  <2>3. AloneInJob'
    BY <2>1 DEF OrphanInv, AloneInJob, Busy
  <2> QED
    BY <2>1, <2>2, <2>3 DEF OrphanInv
<1> QED
  BY <1>1, <1>2, <1>3, <1>4, OrphanStart, OrphanCopies DEF IcpNext, IcpStep

-----------------------------------------------------------------------------
(* The theorems.                                                           *)

\* For any runs, jobs and canisters the ids in the files are of canisters on
\* the network, and every owner is a user of some job.
THEOREM IcpTypeCorrect == IcpSpec => []IcpTypeOK
<1>1. IcpInv => IcpTypeOK
  BY DEF IcpInv
<1> QED
  BY <1>1, IcpInvInit, IcpInvNext, PTL DEF IcpSpec

\* However many runs build and deploy on a host, a canister is created as the
\* user of its own job.
THEOREM OwnersAreRight == IcpSpec => []OwnersAreUsers
<1>1. IcpInv => OwnersAreUsers
  BY DEF IcpInv
<1> QED
  BY <1>1, IcpInvInit, IcpInvNext, PTL DEF IcpSpec

\* However many runs of a job build and deploy, a canister none of its files
\* knows is on the local network, and of a job of which two runs met or one
\* broke after it had begun to create.
THEOREM OrphansExplained == IcpSpec => []OrphansHaveACause
<1>1. IcpInv /\ OrphanInv => OrphansHaveACause
  <2> SUFFICES ASSUME IcpInv, OrphanInv, NEW j \in IcpJobs, NEW i \in Orphans(j)
               PROVE  network = "local" /\ \E r \in overlapped \union broken : jobOf[r] = j
    BY DEF OrphansHaveACause
  <2>1. ~Held(ledger, dirIds[j], j) /\ ~Held(ledger, cacheIds[j], j)
    BY DEF Held, Orphans, Known
  <2>2. network = "local"
    BY <2>1 DEF OrphanInv, IcpInv, IcpTypeOK
  <2>3. ASSUME Clean(j) PROVE FALSE
    <3>1. LocalInv(j)
      BY <2>2 DEF OrphanInv
    <3>2. PICK r \in IcpRuns : jobOf[r] = j /\ ~Resting(r)
      BY <2>1, <2>3, <3>1 DEF LocalInv
    <3>3. dfxAt[r] \in Late
      BY <3>2 DEF Resting, Busy, Early, Late, Ended, Places, IcpInv, IcpTypeOK
    <3> QED
      BY <2>1, <2>3, <3>1, <3>2, <3>3 DEF LocalInv
  <2> QED
    BY <2>2, <2>3 DEF Clean
<1>2. IcpInit => IcpInv /\ OrphanInv
  BY IcpInvInit, OrphanInit
<1>3. IcpInv /\ OrphanInv /\ [IcpNext]_icpVars => (IcpInv /\ OrphanInv)'
  BY IcpInvNext, OrphanNext
<1> QED
  BY <1>1, <1>2, <1>3, PTL DEF IcpSpec

-----------------------------------------------------------------------------
(***************************************************************************)
(* K8sDeploy: its type, that a create which finds its object there is one  *)
(* of two runs that were under way together, and mixed releases.           *)
(***************************************************************************)

Writes(e, o) == \E kind \in Kinds : Object(kind, e) = o

\* Runs under way are together; what is in the cluster a run has written that
\* writes such objects; and if it is there although the list did not show it,
\* its run is together with the one that listed.
RaceInv ==
  /\ \A d, e \in Deploys : UnderWay(d) /\ UnderWay(e) /\ d # e => <<d, e>> \in together
  /\ \A o \in Objects : cluster[o] # Nobody => Writes(cluster[o], o)
  /\ \A d \in Deploys : spot[d] \in Kinds /\ Refused(d) => <<d, cluster[Object(spot[d], d)]>> \in together

K8sInv == K8sTypeOK /\ RaceInv /\ ConflictNeedsRace

-----------------------------------------------------------------------------
LEMMA ObjectType == ASSUME K8sTypeOK, NEW d \in Deploys, NEW kind \in Kinds PROVE Object(kind, d) \in Objects
  BY DEF K8sTypeOK, Object, Objects, Kinds

\* appOf never changes, so neither do the objects a run writes.
LEMMA SameObjects == appOf' = appOf => \A d, kind : Object(kind, d)' = Object(kind, d)
  BY DEF Object

LEMMA K8sTypeInit == K8sInit => K8sTypeOK
  BY DEF K8sInit, K8sTypeOK

LEMMA K8sTypeNext == K8sTypeOK /\ [K8sNext]_k8sVars => K8sTypeOK'
<1> SUFFICES ASSUME K8sTypeOK, [K8sNext]_k8sVars PROVE K8sTypeOK'
  OBVIOUS
<1> USE DEF K8sTypeOK, Go
<1>1. ASSUME NEW d \in Deploys, BeginDeploy(d) PROVE K8sTypeOK'
  BY <1>1 DEF BeginDeploy, Kinds
<1>2. ASSUME NEW d \in Deploys, GiveUp(d) PROVE K8sTypeOK'
  BY <1>2 DEF GiveUp, Over
<1>3. ASSUME NEW d \in Deploys, ListKind(d) PROVE K8sTypeOK'
  BY <1>3 DEF ListKind
<1>4. ASSUME NEW d \in Deploys, Put(d) PROVE K8sTypeOK'
  <2>1. \A to \in NextKinds(spot[d]) : to \in Kinds \union {"idle", "poll"} \union Over
    BY <1>4 DEF Put, NextKinds, Kinds, Over
  <2>2. Object(spot[d], d) \in Objects
    BY <1>4, ObjectType DEF Put
  <2> QED
    BY <1>4, <2>1, <2>2 DEF Put
<1>5. ASSUME NEW d \in Deploys, PutFails(d) PROVE K8sTypeOK'
  <2>1. Object(spot[d], d) \in Objects
    BY <1>5, ObjectType DEF PutFails
  <2>2. CASE Refused(d)
    BY <1>5, <2>1, <2>2 DEF PutFails, Over
  <2>3. CASE ~Refused(d)
    BY <1>5, <2>1, <2>3 DEF PutFails, Over
  <2> QED
    BY <2>2, <2>3
<1>6. ASSUME NEW d \in Deploys, Poll(d) PROVE K8sTypeOK'
  BY <1>6 DEF Poll, Over
<1>7. ASSUME NEW a \in Apps, Controller(a) PROVE K8sTypeOK'
  <2> DEFINE Pods == [release : Deploys, phase : {"Pending", "Running", "Failed"}]
  <2>1. CASE PodCreated(a)
    <3>1. <<"deployment", a>> \in Objects
      BY DEF Objects, Kinds
    <3>2. [release |-> cluster[<<"deployment", a>>], phase |-> "Pending"] \in Pods
      BY <2>1, <3>1 DEF PodCreated
    <3> QED
      BY <1>7, <2>1, <3>2 DEF Controller, PodCreated
  <2>2. CASE PodSettles(a)
    <3>1. PICK p \in pods[a], ph \in {"Running", "Failed"} :
            pods' = [pods EXCEPT ![a] = (@ \ {p}) \union {[p EXCEPT !.phase = ph]}]
      BY <2>2 DEF PodSettles
    <3>2. [p EXCEPT !.phase = ph] \in Pods
      OBVIOUS
    <3> QED
      BY <1>7, <3>1, <3>2 DEF Controller
  <2>3. CASE OldPodsGo(a)
    BY <1>7, <2>3 DEF Controller, OldPodsGo, PodsOf
  <2> QED
    BY <1>7, <2>1, <2>2, <2>3 DEF Controller
<1>8. CASE UNCHANGED k8sVars
  BY <1>8 DEF k8sVars
<1> QED
  BY <1>1, <1>2, <1>3, <1>4, <1>5, <1>6, <1>7, <1>8 DEF K8sNext, DeployStep

-----------------------------------------------------------------------------
LEMMA RaceInit == K8sInit => RaceInv /\ ConflictNeedsRace
  BY DEF K8sInit, RaceInv, ConflictNeedsRace, UnderWay, Refused, Kinds

\* A step by which run d goes on, with its own write at most.
LEMMA OwnStep ==
  ASSUME K8sTypeOK, RaceInv, NEW d \in Deploys, UnderWay(d), NEW to, spot' = [spot EXCEPT ![d] = to],
         seen' = [seen EXCEPT ![d] = "unlisted"], appOf' = appOf, together' = together,
         \/ cluster' = cluster
         \/ spot[d] \in Kinds /\ cluster' = [cluster EXCEPT ![Object(spot[d], d)] = d]
  PROVE  RaceInv'
<1>1. \A e, o : Writes(e, o)' = Writes(e, o)
  BY SameObjects DEF Writes
<1>2. \A e \in Deploys : UnderWay(e)' => UnderWay(e)
  BY DEF K8sTypeOK, UnderWay
<1>3. \A e \in Deploys : Refused(e)' => e # d /\ spot'[e] = spot[e] /\ seen'[e] = seen[e]
  BY DEF K8sTypeOK, Refused
<1>4. \A e \in Deploys : Object(spot[e], e)' = Object(spot'[e], e)
  BY DEF Object
<1>5. CASE cluster' = cluster
  <2>1. \A e \in Deploys : Refused(e)' => Refused(e)
    BY <1>3, <1>4, <1>5 DEF Refused, ExistsNow
  <2> QED
    BY <1>1, <1>2, <1>3, <1>4, <1>5, <2>1, SameObjects DEF RaceInv
<1>6. CASE spot[d] \in Kinds /\ cluster' = [cluster EXCEPT ![Object(spot[d], d)] = d]
  <2> DEFINE o == Object(spot[d], d)
  <2>1. o \in Objects /\ Writes(d, o)
    BY <1>6, ObjectType DEF Writes
  <2>2. cluster' = [cluster EXCEPT ![o] = d]
    BY <1>6
  <2> HIDE DEF o
  <2>3. \A p \in Objects : cluster'[p] = IF p = o THEN d ELSE cluster[p]
    BY <2>1, <2>2 DEF K8sTypeOK
  <2>4. \A p \in Objects : cluster'[p] # Nobody => Writes(cluster'[p], p)
    BY <2>1, <2>3 DEF RaceInv
  <2>5. ASSUME NEW e \in Deploys, spot'[e] \in Kinds, Refused(e)'
        PROVE  <<e, cluster'[Object(spot'[e], e)]>> \in together
    <3>1. e # d /\ spot'[e] = spot[e] /\ Object(spot[e], e) \in Objects
      BY <1>3, <2>5, ObjectType
    <3>2. CASE Object(spot[e], e) = o
      <4>1. UnderWay(e)
        BY <2>5, <3>1 DEF UnderWay, Kinds, Over
      <4> QED
        BY <2>3, <3>1, <3>2, <4>1 DEF RaceInv
    <3>3. CASE Object(spot[e], e) # o
      <4>1. cluster'[Object(spot[e], e)] = cluster[Object(spot[e], e)]
        BY <2>3, <3>1, <3>3
      <4>2. Refused(e)
        BY <1>3, <1>4, <2>5, <3>1, <4>1, SameObjects DEF Refused, ExistsNow
      <4> QED
        BY <2>5, <3>1, <4>1, <4>2 DEF RaceInv
    <3> QED
      BY <3>2, <3>3
  <2>6. \A e, f \in Deploys : UnderWay(e)' /\ UnderWay(f)' /\ e # f => <<e, f>> \in together'
    BY <1>2 DEF RaceInv
  <2> QED
    BY <1>1, <1>4, <2>4, <2>5, <2>6, SameObjects DEF RaceInv
<1> QED
  BY <1>5, <1>6

LEMMA RaceNext == K8sTypeOK /\ RaceInv /\ [K8sNext]_k8sVars => RaceInv'
<1> SUFFICES ASSUME K8sTypeOK, RaceInv, [K8sNext]_k8sVars PROVE RaceInv'
  OBVIOUS
<1> USE DEF Go
<1>1. ASSUME NEW d \in Deploys, BeginDeploy(d) PROVE RaceInv'
  <2>1. appOf' = appOf /\ cluster' = cluster /\ together \subseteq together'
    BY <1>1 DEF BeginDeploy
  <2>2. \A e \in Deploys : Refused(e)' => e # d /\ Refused(e) /\ spot'[e] = spot[e]
    BY <1>1, <2>1 DEF BeginDeploy, K8sTypeOK, Refused, ExistsNow, Object
  <2>3. \A e, f \in Deploys : UnderWay(e)' /\ UnderWay(f)' /\ e # f => <<e, f>> \in together'
    <3>1. \A e \in Deploys \ {d} : UnderWay(e)' => UnderWay(e)
      BY <1>1 DEF BeginDeploy, K8sTypeOK, UnderWay
    <3>2. \A e \in Deploys \ {d} : UnderWay(e) => <<e, d>> \in together' /\ <<d, e>> \in together'
      BY <1>1 DEF BeginDeploy
    <3> QED
      BY <2>1, <3>1, <3>2 DEF RaceInv
  <2>4. \A e, o : Writes(e, o)' = Writes(e, o)
    BY <2>1, SameObjects DEF Writes
  <2>5. \A e \in Deploys : Object(spot[e], e)' = Object(spot'[e], e)
    BY <2>1 DEF Object
  <2> QED
    BY <2>1, <2>2, <2>3, <2>4, <2>5 DEF RaceInv
<1>2. ASSUME NEW d \in Deploys, GiveUp(d) PROVE RaceInv'
  BY <1>2, OwnStep DEF GiveUp, UnderWay, Kinds, Over
<1>3. ASSUME NEW d \in Deploys, ListKind(d) PROVE RaceInv'
  <2>1. \A e \in Deploys : Refused(e)' => Refused(e)
    BY <1>3 DEF ListKind, Refused, ExistsNow, Object, K8sTypeOK
  <2> QED
    BY <1>3, <2>1, SameObjects DEF ListKind, RaceInv, UnderWay, Writes, Object
<1>4. ASSUME NEW d \in Deploys, Put(d) PROVE RaceInv'
  <2>1. PICK to : spot' = [spot EXCEPT ![d] = to]
    BY <1>4 DEF Put
  <2>2. UnderWay(d)
    BY <1>4 DEF Put, UnderWay, Kinds, Over
  <2> QED
    BY <1>4, <2>1, <2>2, OwnStep DEF Put
<1>5. ASSUME NEW d \in Deploys, PutFails(d) PROVE RaceInv'
  <2>1. UnderWay(d)
    BY <1>5 DEF PutFails, UnderWay, Kinds, Over
  <2>2. \/ cluster' = cluster
        \/ cluster' = [cluster EXCEPT ![Object(spot[d], d)] = d]
    BY <1>5 DEF PutFails, K8sTypeOK
  <2> QED
    BY <1>5, <2>1, <2>2, OwnStep DEF PutFails
<1>6. ASSUME NEW d \in Deploys, Poll(d) PROVE RaceInv'
  <2>1. PICK to : spot' = [spot EXCEPT ![d] = to] /\ seen' = [seen EXCEPT ![d] = "unlisted"] /\ appOf' = appOf
    BY <1>6 DEF Poll
  <2>2. UnderWay(d) /\ cluster' = cluster /\ together' = together
    BY <1>6 DEF Poll, UnderWay, Over
  <2> QED
    BY <2>1, <2>2, OwnStep
<1>7. ASSUME NEW a \in Apps, Controller(a) PROVE RaceInv'
  BY <1>7, SameObjects DEF Controller, RaceInv, UnderWay, Refused, ExistsNow, Writes, Object
<1>8. CASE UNCHANGED k8sVars
  BY <1>8, SameObjects DEF k8sVars, RaceInv, UnderWay, Refused, ExistsNow, Writes, Object
<1> QED
  BY <1>1, <1>2, <1>3, <1>4, <1>5, <1>6, <1>7, <1>8 DEF K8sNext, DeployStep

\* Only a refused create adds a conflict; the runs of the others stay together.
LEMMA ConflictNext == K8sInv /\ [K8sNext]_k8sVars => ConflictNeedsRace'
<1> SUFFICES ASSUME K8sInv, [K8sNext]_k8sVars PROVE ConflictNeedsRace'
  OBVIOUS
<1> USE DEF K8sInv
<1>1. appOf' = appOf /\ together \subseteq together'
  BY DEF K8sNext, DeployStep, BeginDeploy, GiveUp, ListKind, Put, PutFails, Poll, Controller, Go, k8sVars
<1>2. \A d, kind : Object(kind, d)' = Object(kind, d)
  BY <1>1, SameObjects
<1>3. CASE conflicts' = conflicts
  BY <1>1, <1>2, <1>3 DEF ConflictNeedsRace
<1>4. ASSUME NEW d \in Deploys, PutFails(d), Refused(d) PROVE ConflictNeedsRace'
  <2> DEFINE o == Object(spot[d], d)
  <2>1. conflicts' = conflicts \union {<<d, o>>} /\ spot[d] \in Kinds
    BY <1>4 DEF PutFails
  <2>2. o \in Objects /\ cluster[o] \in Deploys /\ cluster[o] # Nobody
    BY <1>4, <2>1, ObjectType DEF Refused, ExistsNow, K8sTypeOK
  <2>3. <<d, cluster[o]>> \in together /\ Writes(cluster[o], o)
    BY <1>4, <2>1, <2>2 DEF RaceInv
  <2> HIDE DEF o
  <2>4. \E e \in Deploys : <<d, e>> \in together' /\ \E kind \in Kinds : Object(kind, e) = o
    BY <1>1, <2>2, <2>3 DEF Writes
  <2>5. \A c \in conflicts : \E e \in Deploys : <<c[1], e>> \in together' /\ \E kind \in Kinds : Object(kind, e) = c[2]
    BY <1>1 DEF ConflictNeedsRace
  <2>6. \A c \in conflicts' : c \in conflicts \/ (c[1] = d /\ c[2] = o)
    BY <2>1
  <2>7. \A c \in conflicts' : \E e \in Deploys : <<c[1], e>> \in together' /\ \E kind \in Kinds : Object(kind, e) = c[2]
    BY <2>4, <2>5, <2>6
  <2> QED
    BY <1>2, <2>7 DEF ConflictNeedsRace
<1>5. conflicts' = conflicts \/ \E d \in Deploys : PutFails(d) /\ Refused(d)
  BY DEF K8sNext, DeployStep, BeginDeploy, GiveUp, ListKind, Put, PutFails, Poll, Controller, k8sVars
<1> QED
  BY <1>3, <1>4, <1>5

-----------------------------------------------------------------------------
\* The last writers of a project's deployment and service.  A run writes the
\* deployment before the service, so the writer of the deployment that is
\* past its own service has written that too; if the service is another's by
\* now, that run had written its deployment before and was under way all the
\* while.
Deployed(a) == cluster[<<"deployment", a>>]
Served(a) == cluster[<<"service", a>>]
PastService == {"ingress", "poll", "done"}
PastDeployment == PastService \union {"service", "failed"}

MixInv ==
  /\ \A a \in Apps : Deployed(a) # Nobody => spot[Deployed(a)] \in PastDeployment
  /\ \A a \in Apps : Served(a) # Nobody => Deployed(a) # Nobody
  /\ \A e \in Deploys : spot[e] = "service" =>
       Deployed(appOf[e]) # Nobody /\ (Deployed(appOf[e]) = e \/ <<Deployed(appOf[e]), e>> \in together)
  /\ \A a \in Apps : Deployed(a) # Nobody /\ spot[Deployed(a)] \in PastService =>
       Served(a) # Nobody /\ (Served(a) = Deployed(a) \/ <<Deployed(a), Served(a)>> \in together)

LEMMA WritersType ==
  ASSUME K8sTypeOK, NEW a \in Apps
  PROVE  /\ Deployed(a) \in Deploys \union {Nobody} /\ Served(a) \in Deploys \union {Nobody}
         /\ <<"deployment", a>> \in Objects /\ <<"service", a>> \in Objects
<1>1. <<"deployment", a>> \in Objects /\ <<"service", a>> \in Objects
  BY DEF Objects, Kinds
<1> QED
  BY <1>1 DEF K8sTypeOK, Deployed, Served

\* Run d goes on and writes neither.
LEMMA MixQuiet ==
  ASSUME K8sTypeOK, MixInv, NEW d \in Deploys, NEW to, spot' = [spot EXCEPT ![d] = to], to # "service",
         appOf' = appOf, together \subseteq together',
         \A a \in Apps : Deployed(a)' = Deployed(a) /\ Served(a)' = Served(a),
         spot[d] \in PastDeployment => to \in PastDeployment,
         spot[d] \in PastDeployment /\ to \in PastService => spot[d] \in PastService
  PROVE  MixInv'
<1> USE DEF K8sTypeOK
<1>1. ASSUME NEW a \in Apps, Deployed(a) # Nobody
      PROVE  /\ Deployed(a) \in Deploys /\ spot'[Deployed(a)] \in PastDeployment
             /\ spot'[Deployed(a)] \in PastService => spot[Deployed(a)] \in PastService
  <2>1. Deployed(a) \in Deploys /\ spot[Deployed(a)] \in PastDeployment
    BY <1>1, WritersType DEF MixInv
  <2> QED
    BY <2>1
<1>2. \A e \in Deploys : spot'[e] = "service" => spot[e] = "service"
  OBVIOUS
<1>3. \A e \in Deploys : appOf[e] \in Apps
  OBVIOUS
<1> QED
  BY <1>1, <1>2, <1>3 DEF MixInv

\* Run d writes its deployment: whoever is at its service is under way too.
LEMMA MixDeploys ==
  ASSUME K8sTypeOK, RaceInv, MixInv, NEW d \in Deploys, NEW to \in {"service", "failed"},
         spot[d] = "deployment", spot' = [spot EXCEPT ![d] = to],
         cluster' = [cluster EXCEPT ![<<"deployment", appOf[d]>>] = d], appOf' = appOf, together' = together
  PROVE  MixInv'
<1> USE NobodyAssumption DEF K8sTypeOK, PastService, PastDeployment
<1>0. PICK b \in Apps : b = appOf[d]
  OBVIOUS
<1>1. Deployed(b)' = d /\ Served(b)' = Served(b)
      /\ \A a \in Apps \ {b} : Deployed(a)' = Deployed(a) /\ Served(a)' = Served(a)
  BY <1>0, WritersType DEF Deployed, Served
<1>2. \A a \in Apps : Deployed(a) # Nobody => Deployed(a) \in Deploys /\ Deployed(a) # d
  BY WritersType DEF MixInv
<1>3. \A a \in Apps \ {b} : Deployed(a)' # Nobody => spot'[Deployed(a)'] = spot[Deployed(a)]
  BY <1>1, <1>2
<1>4. spot'[d] = to
  OBVIOUS
<1>5. ASSUME NEW e \in Deploys, spot'[e] = "service"
      PROVE  Deployed(appOf[e])' # Nobody
             /\ (Deployed(appOf[e])' = e \/ <<Deployed(appOf[e])', e>> \in together)
  <2>1. CASE appOf[e] = b /\ e # d
    <3>1. UnderWay(d) /\ UnderWay(e)
      BY <1>5, <2>1 DEF UnderWay, Over
    <3> QED
      BY <1>1, <2>1, <3>1 DEF RaceInv
  <2>2. CASE appOf[e] # b /\ e # d
    BY <1>1, <1>5, <2>2 DEF MixInv
  <2>3. CASE e = d
    BY <1>0, <1>1, <2>3
  <2> QED
    BY <2>1, <2>2, <2>3
<1>6. \A a \in Apps : Deployed(a)' # Nobody => spot'[Deployed(a)'] \in PastDeployment
  BY <1>1, <1>3, <1>4 DEF MixInv
<1>7. \A a \in Apps : Served(a)' # Nobody => Deployed(a)' # Nobody
  BY <1>1 DEF MixInv
<1>8. ASSUME NEW a \in Apps, Deployed(a)' # Nobody, spot'[Deployed(a)'] \in PastService
      PROVE  Served(a)' # Nobody /\ (Served(a)' = Deployed(a)' \/ <<Deployed(a)', Served(a)'>> \in together)
  <2>1. a # b
    BY <1>1, <1>4, <1>8
  <2> QED
    BY <1>1, <1>3, <1>8, <2>1 DEF MixInv
<1> QED
  BY <1>5, <1>6, <1>7, <1>8 DEF MixInv

\* Run d writes its service.
LEMMA MixServes ==
  ASSUME K8sTypeOK, MixInv, NEW d \in Deploys, NEW to \in PastService \union {"failed"},
         spot[d] = "service", spot' = [spot EXCEPT ![d] = to],
         cluster' = [cluster EXCEPT ![<<"service", appOf[d]>>] = d], appOf' = appOf, together' = together,
         \A a \in Apps : Deployed(a) = d => a = appOf[d]
  PROVE  MixInv'
<1> USE NobodyAssumption DEF K8sTypeOK, PastService, PastDeployment
<1>0. PICK b \in Apps : b = appOf[d]
  OBVIOUS
<1>1. /\ Served(b)' = d
      /\ \A a \in Apps : Deployed(a)' = Deployed(a)
      /\ \A a \in Apps \ {b} : Served(a)' = Served(a)
  BY <1>0, WritersType DEF Deployed, Served
<1>2. Deployed(b) # Nobody /\ (Deployed(b) = d \/ <<Deployed(b), d>> \in together)
  BY <1>0 DEF MixInv
<1>3. \A a \in Apps \ {b} : Deployed(a) # d
  BY <1>0
<1>4. \A a \in Apps : Deployed(a) # Nobody => Deployed(a) \in Deploys
  BY WritersType
<1>5. \A a \in Apps : Deployed(a)' # Nobody => spot'[Deployed(a)'] \in PastDeployment
  BY <1>1, <1>4 DEF MixInv
<1>6. \A a \in Apps : Served(a)' # Nobody => Deployed(a)' # Nobody
  BY <1>1, <1>2 DEF MixInv
<1>7. \A e \in Deploys : spot'[e] = "service" =>
        Deployed(appOf[e])' # Nobody /\ (Deployed(appOf[e])' = e \/ <<Deployed(appOf[e])', e>> \in together)
  BY <1>1 DEF MixInv
<1>8. ASSUME NEW a \in Apps, Deployed(a)' # Nobody, spot'[Deployed(a)'] \in PastService
      PROVE  Served(a)' # Nobody /\ (Served(a)' = Deployed(a)' \/ <<Deployed(a)', Served(a)'>> \in together)
  <2>1. CASE a = b
    BY <1>1, <1>2, <2>1
  <2>2. CASE a # b
    <3>1. Deployed(a) # d /\ Deployed(a) # Nobody /\ Deployed(a)' = Deployed(a) /\ Served(a)' = Served(a)
      BY <1>1, <1>3, <1>8, <2>2
    <3>2. spot[Deployed(a)] \in PastService
      BY <1>4, <1>8, <3>1
    <3> QED
      BY <3>1, <3>2 DEF MixInv
  <2> QED
    BY <2>1, <2>2
<1> QED
  BY <1>5, <1>6, <1>7, <1>8 DEF MixInv

LEMMA MixInit == K8sInit => MixInv
<1> SUFFICES ASSUME K8sInit PROVE MixInv
  OBVIOUS
<1>1. \A a \in Apps : Deployed(a) = Nobody /\ Served(a) = Nobody
  BY DEF K8sInit, Deployed, Served, Objects, Kinds
<1>2. \A e \in Deploys : spot[e] = "idle"
  BY DEF K8sInit
<1> QED
  BY <1>1, <1>2 DEF MixInv

LEMMA MixNext == K8sTypeOK /\ RaceInv /\ MixInv /\ [K8sNext]_k8sVars => MixInv'
<1> SUFFICES ASSUME K8sTypeOK, RaceInv, MixInv, [K8sNext]_k8sVars PROVE MixInv'
  OBVIOUS
<1> USE DEF Go
<1>a. ASSUME cluster' = cluster PROVE \A a \in Apps : Deployed(a)' = Deployed(a) /\ Served(a)' = Served(a)
  BY <1>a DEF Deployed, Served
<1>b. ASSUME cluster' = cluster, spot' = spot, appOf' = appOf, together' = together PROVE MixInv'
  <2>1. \A e \in Deploys : appOf[e] \in Apps
    BY DEF K8sTypeOK
  <2> QED
    BY <1>a, <1>b, <2>1 DEF MixInv
\* A write of run d, done or failed, to the object it is at.
<1>c. ASSUME NEW d \in Deploys, NEW to, spot' = [spot EXCEPT ![d] = to], appOf' = appOf, together' = together,
             spot[d] \in Kinds, to = "failed" \/ to \in NextKinds(spot[d]),
             \/ cluster' = [cluster EXCEPT ![Object(spot[d], d)] = d]
             \/ cluster' = cluster /\ (to = "failed" \/ spot[d] = "namespace" \/ spot[d] = "ingress")
      PROVE  MixInv'
  <2>1. appOf[d] \in Apps /\ Object(spot[d], d) \in Objects
    BY <1>c, ObjectType DEF K8sTypeOK
  <2>2. CASE spot[d] \in {"namespace", "ingress"}
    <3>1. to \in {"failed", IF spot[d] = "namespace" THEN "deployment" ELSE "poll"}
      BY <1>c, <2>2 DEF NextKinds
    <3>2. \A a \in Apps : Deployed(a)' = Deployed(a) /\ Served(a)' = Served(a)
      BY <1>c, <2>2, WritersType DEF Object, Deployed, Served, K8sTypeOK
    <3>3. /\ to # "service" /\ (spot[d] \in PastDeployment => to \in PastDeployment)
          /\ spot[d] \in PastDeployment /\ to \in PastService => spot[d] \in PastService
      BY <2>2, <3>1 DEF PastDeployment, PastService
    <3> QED
      BY <1>c, <3>2, <3>3, MixQuiet
  <2>3. CASE spot[d] = "deployment" /\ cluster' = [cluster EXCEPT ![Object(spot[d], d)] = d]
    <3>1. to \in {"service", "failed"}
      BY <1>c, <2>3 DEF NextKinds
    <3>2. cluster' = [cluster EXCEPT ![<<"deployment", appOf[d]>>] = d]
      BY <2>3 DEF Object
    <3> QED
      BY <1>c, <2>3, <3>1, <3>2, MixDeploys
  <2>4. CASE spot[d] = "service" /\ cluster' = [cluster EXCEPT ![Object(spot[d], d)] = d]
    <3>1. to \in PastService \union {"failed"}
      BY <1>c, <2>4 DEF NextKinds, PastService
    <3>2. cluster' = [cluster EXCEPT ![<<"service", appOf[d]>>] = d]
      BY <2>4 DEF Object
    <3>3. ASSUME NEW a \in Apps, Deployed(a) = d PROVE a = appOf[d]
      <4>1. d # Nobody /\ <<"deployment", a>> \in Objects /\ cluster[<<"deployment", a>>] = d
        BY <3>3, NobodyAssumption, WritersType DEF Deployed
      <4>2. Writes(d, <<"deployment", a>>)
        BY <4>1 DEF RaceInv
      <4> QED
        BY <4>2 DEF Writes, Object
    <3> QED
      BY <1>c, <2>4, <3>1, <3>2, <3>3, MixServes
  <2>5. CASE cluster' = cluster /\ to = "failed"
    <3>1. \A a \in Apps : Deployed(a)' = Deployed(a) /\ Served(a)' = Served(a)
      BY <1>a, <2>5
    <3>2. /\ to # "service" /\ to \in PastDeployment /\ to \notin PastService
      BY <2>5 DEF PastDeployment, PastService
    <3> QED
      BY <1>c, <3>1, <3>2, MixQuiet
  <2> QED
    BY <1>c, <2>2, <2>3, <2>4, <2>5 DEF Kinds
<1>1. ASSUME NEW d \in Deploys, BeginDeploy(d) PROVE MixInv'
  <2>1. PICK to \in {"namespace", "ingress"} : spot' = [spot EXCEPT ![d] = to]
    BY <1>1 DEF BeginDeploy
  <2>2. spot[d] = "idle" /\ appOf' = appOf /\ cluster' = cluster /\ together \subseteq together'
    BY <1>1 DEF BeginDeploy
  <2> QED
    BY <1>a, <2>1, <2>2, MixQuiet DEF PastDeployment, PastService
<1>2. ASSUME NEW d \in Deploys, GiveUp(d) PROVE MixInv'
  BY <1>2, <1>c DEF GiveUp
<1>3. ASSUME NEW d \in Deploys, ListKind(d) PROVE MixInv'
  BY <1>3, <1>b DEF ListKind
<1>4. ASSUME NEW d \in Deploys, Put(d) PROVE MixInv'
  <2>1. PICK to \in NextKinds(spot[d]) : spot' = [spot EXCEPT ![d] = to]
    BY <1>4 DEF Put
  <2>2. spot[d] \in Kinds /\ appOf' = appOf /\ together' = together
    BY <1>4 DEF Put
  <2>3. CASE Overwrites(d)
    <3>1. cluster' = [cluster EXCEPT ![Object(spot[d], d)] = d]
      BY <1>4, <2>3 DEF Put
    <3> QED
      BY <1>c, <2>1, <2>2, <3>1
  <2>4. CASE ~Overwrites(d)
    <3>1. cluster' = cluster
      BY <1>4, <2>4 DEF Put
    <3>2. seen[d] = "present" /\ spot[d] = "namespace"
      BY <1>4, <2>4 DEF Put, Overwrites, K8sTypeOK
    <3> QED
      BY <1>c, <2>1, <2>2, <3>1, <3>2
  <2> QED
    BY <2>3, <2>4
<1>5. ASSUME NEW d \in Deploys, PutFails(d) PROVE MixInv'
  <2>1. spot[d] \in Kinds /\ appOf' = appOf /\ together' = together /\ spot' = [spot EXCEPT ![d] = "failed"]
    BY <1>5 DEF PutFails
  <2>2. \/ cluster' = cluster
        \/ cluster' = [cluster EXCEPT ![Object(spot[d], d)] = d]
    BY <1>5 DEF PutFails, K8sTypeOK
  <2> QED
    BY <1>c, <2>1, <2>2
<1>6. ASSUME NEW d \in Deploys, Poll(d) PROVE MixInv'
  <2>1. PICK to \in {"done", "failed"} : spot' = [spot EXCEPT ![d] = to]
    BY <1>6 DEF Poll
  <2>2. spot[d] = "poll" /\ cluster' = cluster /\ appOf' = appOf /\ together' = together
    BY <1>6 DEF Poll
  <2> QED
    BY <1>a, <2>1, <2>2, MixQuiet DEF PastDeployment, PastService
<1>7. ASSUME NEW a \in Apps, Controller(a) PROVE MixInv'
  BY <1>7, <1>b DEF Controller
<1>8. CASE UNCHANGED k8sVars
  BY <1>8, <1>b DEF k8sVars
<1> QED
  BY <1>1, <1>2, <1>3, <1>4, <1>5, <1>6, <1>7, <1>8 DEF K8sNext, DeployStep

-----------------------------------------------------------------------------
(* The theorems.                                                           *)

\* For any runs and projects, what is in the cluster was written by a run.
THEOREM K8sTypeCorrect == K8sSpec => []K8sTypeOK
  BY K8sTypeInit, K8sTypeNext, PTL DEF K8sSpec

\* However many runs list, create and update, a create is refused only on
\* account of a run of the same object that was under way with it.
THEOREM ConflictsAreRaces == K8sSpec => []ConflictNeedsRace
<1>1. K8sInit => K8sInv
  BY K8sTypeInit, RaceInit DEF K8sInv
<1>2. K8sInv /\ [K8sNext]_k8sVars => K8sInv'
  BY K8sTypeNext, RaceNext, ConflictNext DEF K8sInv
<1>3. K8sInv => ConflictNeedsRace
  BY DEF K8sInv
<1> QED
  BY <1>1, <1>2, <1>3, PTL DEF K8sSpec

\* Whatever runs write and in whatever order, the deployment and the service
\* of a project are of one release unless a run failed, is under way, or ran
\* together with the other.
THEOREM MixedReleases == K8sSpec => []MixedReleaseHasACause
<1>1. K8sInit => K8sTypeOK /\ RaceInv /\ MixInv
  BY K8sTypeInit, RaceInit, MixInit
<1>2. K8sTypeOK /\ RaceInv /\ MixInv /\ [K8sNext]_k8sVars => (K8sTypeOK /\ RaceInv /\ MixInv)'
  BY K8sTypeNext, RaceNext, MixNext
<1>3. K8sTypeOK /\ MixInv => MixedReleaseHasACause
  <2> SUFFICES ASSUME K8sTypeOK, MixInv, NEW a \in Apps, Deployed(a) # Served(a)
               PROVE  \E e \in {Deployed(a), Served(a)} \ {Nobody} :
                        \/ spot[e] # "done"
                        \/ Deployed(a) # Nobody /\ Served(a) # Nobody /\ <<Deployed(a), Served(a)>> \in together
    BY DEF MixedReleaseHasACause, Deployed, Served
  <2>1. Deployed(a) # Nobody
    BY DEF MixInv
  <2> QED
    BY <2>1 DEF MixInv, PastService
<1> QED
  BY <1>1, <1>2, <1>3, PTL DEF K8sSpec

-----------------------------------------------------------------------------
(***************************************************************************)
(* MetaScan: its type, the tokens steps begin with, the projects they make *)
(* and what a report without findings means.                               *)
(***************************************************************************)

\* What a token in hand is worth: the step and the parameters hold the same
\* one, and it was not refused unless the step has failed or is about to get
\* another, which it does only in the middle of a call.
TokenInv ==
  /\ held = param
  /\ \A j \in Scans : try[j] # "first" => Scanning(j)
  /\ \A j \in Scans : call[j] # "failed" /\ try[j] # "token" => held[j] \notin refused[j]

LEMMA ScanTypeInit == ScanInit => ScanTypeOK
<1> SUFFICES ASSUME ScanInit PROVE ScanTypeOK
  OBVIOUS
<1> USE DEF ScanInit
<1>1. engine \in [Scans -> Engines]
  <2>1. (CHOOSE e \in Engines : TRUE) \in Engines
    BY ScanAssumption
  <2> QED
    BY <2>1
<1>2. issued \in 0 .. MaxTokens /\ steps \in [Scans -> 0 .. MaxSteps] /\ projects \in Nat
  BY ScanAssumption
<1>3. /\ held \in [Scans -> 0 .. issued] /\ param \in [Scans -> 0 .. issued]
      /\ refused \in [Scans -> SUBSET (0 .. issued)]
  OBVIOUS
<1>4. engineTasks \in [Scans -> BOOLEAN] /\ met \in BOOLEAN
  OBVIOUS
<1>5. /\ call \in [Scans -> Calls \union {"idle", "done", "failed"}]
      /\ try \in [Scans -> {"first", "token", "again"}]
      /\ task \in [Scans -> {"none", "running", "SUCCESS"} \union Failures]
  BY DEF Calls
<1> QED
  BY <1>1, <1>2, <1>3, <1>4, <1>5 DEF ScanTypeOK

\* The three handlers that touch tokens, and the exchanges that do not.
LEMMA ScanTypeNext == ScanTypeOK /\ [ScanNext]_scanVars => ScanTypeOK'
<1> SUFFICES ASSUME ScanTypeOK, [ScanNext]_scanVars PROVE ScanTypeOK'
  OBVIOUS
<1> USE ScanAssumption DEF ScanTypeOK, Calls, Failures
<1>1. ASSUME NEW j \in Scans, BeginScan(j) PROVE ScanTypeOK'
  BY <1>1 DEF BeginScan, Proceed
<1>2. ASSUME NEW j \in Scans, Unauthorized(j) PROVE ScanTypeOK'
  BY <1>2 DEF Unauthorized, Proceed, Scanning, scanned
<1>3. ASSUME NEW j \in Scans, RenewToken(j) PROVE ScanTypeOK'
  BY <1>3 DEF RenewToken, Scanning, scanned
<1>4. ASSUME NEW j \in Scans, Breaks(j) PROVE ScanTypeOK'
  BY <1>4 DEF Breaks, Proceed, Scanning, scanned, tokens
<1>5. ASSUME NEW j \in Scans, GetProjects(j) PROVE ScanTypeOK'
  BY <1>5 DEF GetProjects, Answered, Proceed, Same, tokens
<1>6. ASSUME NEW j \in Scans, CreateProject(j) PROVE ScanTypeOK'
  BY <1>6 DEF CreateProject, Answered, Proceed, Same, tokens
<1>7. ASSUME NEW j \in Scans, StartScanTask(j) PROVE ScanTypeOK'
  BY <1>7 DEF StartScanTask, Answered, Proceed, Same, tokens
<1>8. ASSUME NEW j \in Scans, QueryTaskStatus(j) PROVE ScanTypeOK'
  BY <1>8 DEF QueryTaskStatus, Answered, Proceed, Same, tokens
<1>9. ASSUME NEW j \in Scans, GetTaskResult(j) PROVE ScanTypeOK'
  BY <1>9 DEF GetTaskResult, Answered, Proceed, Same, tokens
<1>10. ASSUME NEW j \in Scans, GetEngineTaskSummary(j) PROVE ScanTypeOK'
  BY <1>10 DEF GetEngineTaskSummary, Answered, Proceed, Same, tokens
<1>11. ASSUME NEW j \in Scans, TaskEnds(j) PROVE ScanTypeOK'
  BY <1>11 DEF TaskEnds, tokens
<1>12. CASE UNCHANGED scanVars
  BY <1>12 DEF scanVars, tokens, scanned
<1> QED
  BY <1>1, <1>2, <1>3, <1>4, <1>5, <1>6, <1>7, <1>8, <1>9, <1>10, <1>11, <1>12 DEF ScanNext, ScanStep

-----------------------------------------------------------------------------
LEMMA TokenInit == ScanInit => TokenInv
  BY DEF ScanInit, TokenInv, Scanning

\* A refused token is left only for a new one, which nobody was refused yet.
LEMMA TokenNext == ScanTypeOK /\ TokenInv /\ [ScanNext]_scanVars => TokenInv'
<1> SUFFICES ASSUME ScanTypeOK, TokenInv, [ScanNext]_scanVars PROVE TokenInv'
  OBVIOUS
<1> USE DEF TokenInv, tokens, Calls, Scanning
<1>1. ASSUME NEW j \in Scans, BeginScan(j) PROVE TokenInv'
  BY <1>1 DEF ScanTypeOK, BeginScan, Proceed
<1>2. ASSUME NEW j \in Scans, Unauthorized(j) PROVE TokenInv'
  <2>1. CASE try[j] = "first"
    BY <1>2, <2>1 DEF ScanTypeOK, Unauthorized, Scanning
  <2>2. CASE try[j] # "first"
    BY <1>2, <2>2 DEF ScanTypeOK, Unauthorized, Proceed, Scanning
  <2> QED
    BY <2>1, <2>2
<1>3. ASSUME NEW j \in Scans, RenewToken(j) PROVE TokenInv'
  <2>1. issued + 1 \notin refused[j]
    BY ScanAssumption DEF ScanTypeOK
  <2> QED
    BY <1>3, <2>1 DEF ScanTypeOK, RenewToken, Scanning
<1>4. ASSUME NEW j \in Scans, Breaks(j) PROVE TokenInv'
  BY <1>4 DEF ScanTypeOK, Breaks, Proceed, Scanning
<1>5. ASSUME NEW j \in Scans, NEW c \in Calls, NEW to, Answered(j, c), Proceed(j, to), Same(j)
      PROVE  TokenInv'
  BY <1>5 DEF ScanTypeOK, Answered, Proceed, Same
<1>6. ASSUME NEW j \in Scans, GetProjects(j) \/ CreateProject(j) \/ StartScanTask(j) PROVE TokenInv'
  BY <1>5, <1>6 DEF GetProjects, CreateProject, StartScanTask
<1>7. ASSUME NEW j \in Scans, QueryTaskStatus(j) \/ GetTaskResult(j) \/ GetEngineTaskSummary(j)
      PROVE  TokenInv'
  BY <1>5, <1>7 DEF QueryTaskStatus, GetTaskResult, GetEngineTaskSummary
<1>8. ASSUME NEW j \in Scans, TaskEnds(j) PROVE TokenInv'
  BY <1>8 DEF TaskEnds
<1>9. CASE UNCHANGED scanVars
  BY <1>9 DEF scanVars
<1> QED
  BY <1>1, <1>2, <1>3, <1>4, <1>6, <1>7, <1>8, <1>9 DEF ScanNext, ScanStep

\* No step begins with a token its job has been refused.
LEMMA FreshStep ==
  ScanTypeOK /\ TokenInv /\ [ScanNext]_scanVars =>
    [\A j \in Scans : steps'[j] # steps[j] => held'[j] \notin refused[j]]_scanVars
<1> SUFFICES ASSUME ScanTypeOK, TokenInv, [ScanNext]_scanVars, NEW k \in Scans, steps'[k] # steps[k]
             PROVE  held'[k] \notin refused[k]
  OBVIOUS
<1>1. PICK j \in Scans : BeginScan(j)
  BY DEF ScanNext, ScanStep, scanVars, tokens, scanned, Unauthorized, RenewToken, Breaks, GetProjects,
         CreateProject, StartScanTask, QueryTaskStatus, GetTaskResult, GetEngineTaskSummary, TaskEnds, Same
<1>2. j = k
  BY <1>1 DEF BeginScan, ScanTypeOK
<1>3. held'[k] = held[k] /\ call[k] # "failed" /\ ~Scanning(k)
  BY <1>1, <1>2 DEF BeginScan, ScanTypeOK, TokenInv, Scanning, Calls
<1> QED
  BY <1>3 DEF TokenInv

-----------------------------------------------------------------------------
\* As long as no two steps have met, one is under way at most, and it makes a
\* project only when there is none.
Alone ==
  /\ \A j, k \in Scans : Scanning(j) /\ Scanning(k) => j = k
  /\ projects <= 1
  /\ \A j \in Scans : call[j] = "create" => projects = 0
AloneInv == ~met => Alone

LEMMA AloneInit == ScanInit => AloneInv
  BY DEF ScanInit, AloneInv, Alone, Scanning, Calls

\* A handler that only moves job j on from a call under way.
LEMMA MovedOn ==
  ASSUME ScanTypeOK, AloneInv, NEW j \in Scans, NEW to, Scanning(j), call' = [call EXCEPT ![j] = to],
         met' = met, projects' \in Nat, ~met => projects' <= 1, ~met /\ to = "create" => projects' = 0
  PROVE  AloneInv'
<1> SUFFICES ASSUME ~met PROVE Alone'
  BY DEF AloneInv
<1>1. \A k \in Scans : Scanning(k)' => Scanning(k)
  BY DEF Scanning, ScanTypeOK
<1>2. \A k \in Scans \ {j} : call'[k] = call[k] /\ ~Scanning(k)
  BY DEF AloneInv, Alone, ScanTypeOK
<1>3. \A k \in Scans : call'[k] = "create" => k = j /\ to = "create"
  BY <1>2 DEF Scanning, Calls, ScanTypeOK
<1> QED
  BY <1>1, <1>3 DEF AloneInv, Alone

LEMMA AloneNext == ScanTypeOK /\ AloneInv /\ [ScanNext]_scanVars => AloneInv'
<1> SUFFICES ASSUME ScanTypeOK, AloneInv, [ScanNext]_scanVars PROVE AloneInv'
  OBVIOUS
<1>1. projects \in Nat /\ (~met => projects <= 1) /\ \A j \in Scans : ~met /\ call[j] = "create" => projects = 0
  BY DEF ScanTypeOK, AloneInv, Alone
<1> USE DEF Same, Answered
<1>2. ASSUME NEW j \in Scans, BeginScan(j) PROVE AloneInv'
  <2>1. CASE \E k \in Scans \ {j} : Scanning(k)
    BY <1>2, <2>1 DEF BeginScan, AloneInv
  <2>2. CASE ~\E k \in Scans \ {j} : Scanning(k)
    <3>1. \A k \in Scans : Scanning(k)' => k = j
      BY <1>2, <2>2 DEF BeginScan, Proceed, Scanning, ScanTypeOK
    <3>2. projects' = projects /\ (met' => met) /\ (met => met') /\ call'[j] # "create"
      BY <1>2, <2>2 DEF BeginScan, Proceed, ScanTypeOK
    <3>3. \A k \in Scans \ {j} : call'[k] # "create"
      BY <3>1 DEF Scanning, Calls
    <3> QED
      BY <3>1, <3>2, <3>3 DEF AloneInv, Alone
  <2> QED
    BY <2>1, <2>2
<1>3. ASSUME NEW j \in Scans, Unauthorized(j) PROVE AloneInv'
  <2>1. CASE try[j] = "first"
    BY <1>3, <2>1 DEF Unauthorized, AloneInv, Alone, scanned, Scanning
  <2>2. CASE try[j] # "first"
    BY <1>1, <1>3, <2>2, MovedOn DEF Unauthorized, Proceed, scanned
  <2> QED
    BY <2>1, <2>2
<1>4. ASSUME NEW j \in Scans, RenewToken(j) PROVE AloneInv'
  BY <1>4 DEF RenewToken, AloneInv, Alone, scanned, Scanning
<1>5. ASSUME NEW j \in Scans, Breaks(j) PROVE AloneInv'
  <2>1. Scanning(j) /\ call' = [call EXCEPT ![j] = "failed"] /\ met' = met
    BY <1>5 DEF Breaks, Proceed
  <2>2. projects' \in Nat /\ (~met => projects' <= 1)
    BY <1>1, <1>5 DEF Breaks
  <2> QED
    BY <2>1, <2>2, MovedOn
<1>6. ASSUME NEW j \in Scans, NEW to, Scanning(j), Proceed(j, to), met' = met, projects' = projects,
             to = "create" => projects = 0
      PROVE  AloneInv'
  <2>1. call' = [call EXCEPT ![j] = to]
    BY <1>6 DEF Proceed
  <2>2. projects' \in Nat /\ (~met => projects' <= 1) /\ (~met /\ to = "create" => projects' = 0)
    BY <1>1, <1>6
  <2> QED
    BY <1>6, <2>1, <2>2, MovedOn
<1>7. ASSUME NEW j \in Scans, GetProjects(j) PROVE AloneInv'
  <2> DEFINE to == IF projects > 0 THEN "start" ELSE "create"
  <2>1. to = "create" => projects = 0
    BY <1>1
  <2>2. Scanning(j) /\ Proceed(j, to) /\ met' = met /\ projects' = projects
    BY <1>7 DEF GetProjects, Scanning, Calls
  <2> HIDE DEF to
  <2> QED
    BY <1>6, <2>1, <2>2
<1>8. ASSUME NEW j \in Scans, CreateProject(j) PROVE AloneInv'
  <2>1. Scanning(j) /\ call' = [call EXCEPT ![j] = "start"] /\ met' = met /\ projects' = projects + 1
    BY <1>8 DEF CreateProject, Proceed, Scanning, Calls
  <2>2. ~met => projects = 0
    BY <1>1, <1>8 DEF CreateProject
  <2>3. projects' \in Nat /\ (~met => projects' <= 1)
    BY <1>1, <2>1, <2>2
  <2> QED
    BY <2>1, <2>3, MovedOn
<1>9. ASSUME NEW j \in Scans, StartScanTask(j) PROVE AloneInv'
  BY <1>6, <1>9 DEF StartScanTask, Scanning, Calls
<1>10. ASSUME NEW j \in Scans, QueryTaskStatus(j) PROVE AloneInv'
  <2> DEFINE to == IF task[j] \notin {"SUCCESS"} \union Failures THEN "state"
                   ELSE IF engineTasks[j] THEN "result" ELSE "failed"
  <2>1. to # "create"
    OBVIOUS
  <2>2. Scanning(j) /\ Proceed(j, to) /\ met' = met /\ projects' = projects
    BY <1>10 DEF QueryTaskStatus, Scanning, Calls
  <2> HIDE DEF to
  <2> QED
    BY <1>6, <2>1, <2>2
<1>11. ASSUME NEW j \in Scans, GetTaskResult(j) \/ GetEngineTaskSummary(j) PROVE AloneInv'
  <2>1. PICK to \in {"failed", "done", "summary"} : Scanning(j) /\ Proceed(j, to) /\ met' = met /\ projects' = projects
    BY <1>11 DEF GetTaskResult, GetEngineTaskSummary, Scanning, Calls
  <2> QED
    BY <1>6, <2>1
<1>12. ASSUME NEW j \in Scans, TaskEnds(j) PROVE AloneInv'
  BY <1>12 DEF TaskEnds, AloneInv, Alone, Scanning
<1>13. CASE UNCHANGED scanVars
  BY <1>13 DEF scanVars, AloneInv, Alone, Scanning
<1> QED
  BY <1>2, <1>3, <1>4, <1>5, <1>7, <1>8, <1>9, <1>10, <1>11, <1>12, <1>13 DEF ScanNext, ScanStep

-----------------------------------------------------------------------------
\* What stands behind a report: from the result on the scan has ended, one
\* that goes on had a result that could be parsed, and the total is that of
\* the engine's kind.
Total(j) ==
  IF engine[j] = "STATIC" THEN StaticTotal(code[j], Found(j))
  ELSE IF task[j] = "SUCCESS" THEN Len(code[j]) ELSE 0

ReportInv ==
  /\ code \in [Scans -> Codes] /\ report = [j \in Scans |-> report[j]]
  /\ \A j \in Scans :
       /\ call[j] \in {"result", "summary", "done"} => task[j] \in {"SUCCESS"} \union Failures
       /\ call[j] = "summary" => engine[j] # "STATIC"
       /\ call[j] \in {"summary", "done"} => Parsed(j)
       /\ call[j] = "done" => report[j].total = Total(j)

LEMMA ReportInit == ScanInit => ReportInv
  BY DEF ScanInit, ReportInv

\* Job k, of which a step changes nothing that its report is about.
LEMMA ReportRests ==
  ASSUME ReportInv, NEW k \in Scans, call'[k] = call[k], engine'[k] = engine[k], code' = code,
         report'[k] = report[k], task'[k] = task[k] \/ task[k] = "running"
  PROVE  /\ call'[k] \in {"result", "summary", "done"} => task'[k] \in {"SUCCESS"} \union Failures
         /\ call'[k] = "summary" => engine'[k] # "STATIC"
         /\ call'[k] \in {"summary", "done"} => Parsed(k)'
         /\ call'[k] = "done" => report'[k].total = Total(k)'
<1>1. CASE call[k] \in {"result", "summary", "done"}
  <2>1. task'[k] = task[k]
    BY <1>1 DEF ReportInv, Failures
  <2>2. (Parsed(k))' = Parsed(k) /\ (Total(k))' = Total(k)
    BY <2>1 DEF Parsed, Total, Found
  <2> QED
    BY <2>1, <2>2 DEF ReportInv
<1>2. CASE call[k] \notin {"result", "summary", "done"}
  BY <1>2
<1> QED
  BY <1>1, <1>2

LEMMA ReportNext == ScanTypeOK /\ ReportInv /\ [ScanNext]_scanVars => ReportInv'
<1> SUFFICES ASSUME ScanTypeOK, ReportInv, [ScanNext]_scanVars PROVE ReportInv'
  OBVIOUS
<1> DEFINE Rep(j) ==
      /\ call[j] \in {"result", "summary", "done"} => task[j] \in {"SUCCESS"} \union Failures
      /\ call[j] = "summary" => engine[j] # "STATIC"
      /\ call[j] \in {"summary", "done"} => Parsed(j)
      /\ call[j] = "done" => report[j].total = Total(j)
\* A step of job j: the others rest.
<1>1. ASSUME NEW j \in Scans, BeginScan(j) \/ ScanStep(j) \/ TaskEnds(j)
      PROVE  /\ code' \in [Scans -> Codes] /\ report' = [k \in Scans |-> report'[k]]
             /\ \A k \in Scans \ {j} : Rep(k)'
  <2>1. code' = code
    BY <1>1 DEF ScanStep, BeginScan, Unauthorized, RenewToken, Breaks, GetProjects, CreateProject, StartScanTask,
                QueryTaskStatus, GetTaskResult, GetEngineTaskSummary, TaskEnds, Same, scanned
  <2>2. \/ report' = report
        \/ \E r : report' = [report EXCEPT ![j] = r]
    BY <1>1 DEF ScanStep, BeginScan, Unauthorized, RenewToken, Breaks, GetProjects, CreateProject, StartScanTask,
                QueryTaskStatus, GetTaskResult, GetEngineTaskSummary, TaskEnds, Same, scanned
  <2>3. report' = [k \in Scans |-> report'[k]] /\ \A k \in Scans \ {j} : report'[k] = report[k]
    BY <2>2 DEF ReportInv
  <2>4. \A k \in Scans \ {j} : call'[k] = call[k]
    BY <1>1 DEF ScanStep, BeginScan, Unauthorized, RenewToken, Breaks, GetProjects, CreateProject, StartScanTask,
                QueryTaskStatus, GetTaskResult, GetEngineTaskSummary, TaskEnds, Proceed, ScanTypeOK
  <2>5. \A k \in Scans \ {j} : engine'[k] = engine[k]
    BY <1>1 DEF ScanStep, BeginScan, Unauthorized, RenewToken, Breaks, GetProjects, CreateProject, StartScanTask,
                QueryTaskStatus, GetTaskResult, GetEngineTaskSummary, TaskEnds, Same, ScanTypeOK
  <2>6. \A k \in Scans \ {j} : task'[k] = task[k]
    BY <1>1 DEF ScanStep, BeginScan, Unauthorized, RenewToken, Breaks, GetProjects, CreateProject, StartScanTask,
                QueryTaskStatus, GetTaskResult, GetEngineTaskSummary, TaskEnds, scanned, ScanTypeOK
  <2>7. ASSUME NEW k \in Scans \ {j} PROVE Rep(k)'
    BY <2>1, <2>3, <2>4, <2>5, <2>6, ReportRests
  <2> QED
    BY <2>1, <2>3, <2>7 DEF ReportInv
<1>2. ASSUME NEW j \in Scans, BeginScan(j) PROVE Rep(j)'
  BY <1>2 DEF BeginScan, Proceed, ScanTypeOK
<1>3. ASSUME NEW j \in Scans, Unauthorized(j) \/ RenewToken(j) \/ Breaks(j) PROVE Rep(j)'
  <2>1. \/ call'[j] = "failed"
        \/ call' = call /\ engine' = engine /\ code' = code /\ report' = report /\ task' = task
    BY <1>3 DEF Unauthorized, RenewToken, Breaks, Proceed, scanned, ScanTypeOK
  <2>2. CASE call'[j] = "failed"
    BY <2>2
  <2>3. CASE call' = call /\ engine' = engine /\ code' = code /\ report' = report /\ task' = task
    BY <2>3, ReportRests
  <2> QED
    BY <2>1, <2>2, <2>3
<1>4. ASSUME NEW j \in Scans, GetProjects(j) \/ CreateProject(j) \/ StartScanTask(j) PROVE Rep(j)'
  <2>1. call'[j] \in {"start", "create", "state"}
    BY <1>4 DEF GetProjects, CreateProject, StartScanTask, Proceed, ScanTypeOK
  <2> QED
    BY <2>1
<1>5. ASSUME NEW j \in Scans, QueryTaskStatus(j) PROVE Rep(j)'
  <2>1. \/ call'[j] \in {"state", "failed"}
        \/ call'[j] = "result" /\ task'[j] = task[j] /\ task[j] \in {"SUCCESS"} \union Failures
    BY <1>5 DEF QueryTaskStatus, Proceed, ScanTypeOK
  <2> QED
    BY <2>1
<1>6. ASSUME NEW j \in Scans, GetTaskResult(j) PROVE Rep(j)'
  <2>1. call[j] = "result" /\ task' = task /\ engine' = engine /\ code' = code
    BY <1>6 DEF GetTaskResult, Answered, Same
  <2>2. Parsed(j)' = Parsed(j) /\ Total(j)' = Total(j)
    BY <2>1 DEF Parsed, Total, Found
  <2>3. CASE ~Parsed(j)
    BY <1>6, <2>3 DEF GetTaskResult, Proceed, ScanTypeOK
  <2>4. CASE Parsed(j)
    <3>1. call'[j] = IF engine[j] = "STATIC" THEN "done" ELSE "summary"
      BY <1>6, <2>4 DEF GetTaskResult, Proceed, ScanTypeOK
    <3>2. report'[j].total = IF engine[j] = "STATIC" THEN StaticTotal(code[j], Found(j)) ELSE 0
      BY <1>6, <2>4 DEF GetTaskResult, ReportInv
    <3> QED
      BY <2>1, <2>2, <2>4, <3>1, <3>2 DEF ReportInv, Total
  <2> QED
    BY <2>3, <2>4
<1>7. ASSUME NEW j \in Scans, GetEngineTaskSummary(j) PROVE Rep(j)'
  <2>1. call[j] = "summary" /\ call'[j] = "done" /\ task' = task /\ engine' = engine /\ code' = code
    BY <1>7 DEF GetEngineTaskSummary, Answered, Proceed, Same, ScanTypeOK
  <2>2. Parsed(j)' = Parsed(j) /\ Total(j)' = Total(j)
    BY <2>1 DEF Parsed, Total, Found
  <2>3. report'[j].total = IF task[j] = "SUCCESS" THEN Len(code[j]) ELSE 0
    BY <1>7 DEF GetEngineTaskSummary, ReportInv
  <2> QED
    BY <2>1, <2>2, <2>3 DEF ReportInv, Total
<1>8. ASSUME NEW j \in Scans, TaskEnds(j) PROVE Rep(j)'
  <2>1. call' = call /\ engine' = engine /\ code' = code /\ report' = report /\ task[j] = "running"
    BY <1>8 DEF TaskEnds
  <2> QED
    BY <2>1, ReportRests
<1>9. CASE UNCHANGED scanVars
  <2>1. call' = call /\ engine' = engine /\ code' = code /\ report' = report /\ task' = task
    BY <1>9 DEF scanVars, scanned
  <2>2. ASSUME NEW k \in Scans PROVE Rep(k)'
    BY <2>1, ReportRests
  <2> QED
    BY <2>1, <2>2 DEF ReportInv
<1> QED
  <2>1. ASSUME NEW j \in Scans, BeginScan(j) \/ ScanStep(j) \/ TaskEnds(j) PROVE ReportInv'
    <3>1. Rep(j)'
      BY <1>2, <1>3, <1>4, <1>5, <1>6, <1>7, <1>8, <2>1 DEF ScanStep
    <3>2. \A k \in Scans : Rep(k)'
      BY <1>1, <2>1, <3>1
    <3> QED
      BY <1>1, <2>1, <3>2 DEF ReportInv
  <2> QED
    BY <1>9, <2>1 DEF ScanNext

\* A scan finds finitely much.
LEMMA EntriesFinite == \A c \in Codes : IsFiniteSet(Entries(c))
<1> SUFFICES ASSUME NEW c \in Codes PROVE IsFiniteSet(Entries(c))
  OBVIOUS
<1> DEFINE Of(i) == {i} \X DOMAIN c[i].files
           S == {Of(i) : i \in DOMAIN c}
           f == [i \in DOMAIN c |-> Of(i)]
<1>1. c \in Seq([severity : STRING, files : Seq(STRING)])
  BY CodesAssumption
<1>2. DOMAIN c = 1 .. Len(c) /\ Len(c) \in Nat
  BY <1>1
<1>3. IsFiniteSet(DOMAIN c)
  BY <1>2, FS_Interval
<1>4. f \in Surjection(DOMAIN c, S)
  BY DEF Surjection
<1>5. IsFiniteSet(S)
  <2> HIDE DEF S, f
  <2> QED
    BY <1>3, <1>4, FS_Surjection
<1>6. ASSUME NEW i \in DOMAIN c PROVE IsFiniteSet(Of(i))
  <2> DEFINE S0 == [severity : STRING, files : Seq(STRING)]
             F == c[i].files
  <2>1. c[i] \in S0
    <3>1. c \in Seq(S0)
      BY <1>1
    <3> HIDE DEF S0
    <3> QED
      BY <1>2, <3>1, ElementOfSeq
  <2>2. F \in Seq(STRING)
    BY <2>1
  <2> HIDE DEF F
  <2>3. DOMAIN F = 1 .. Len(F) /\ Len(F) \in Nat
    BY <2>2
  <2>4. IsFiniteSet(DOMAIN F)
    BY <2>3, FS_Interval
  <2> DEFINE g == [x \in DOMAIN F |-> <<i, x>>]
  <2>5. g \in Surjection(DOMAIN F, {i} \X DOMAIN F)
    BY DEF Surjection
  <2>6. IsFiniteSet({i} \X DOMAIN F)
    <3> HIDE DEF g
    <3> QED
      BY <2>4, <2>5, FS_Surjection
  <2> QED
    BY <2>6 DEF F
<1>7. \A T \in S : IsFiniteSet(T)
  BY <1>6
<1>8. IsFiniteSet(UNION S)
  <2> HIDE DEF S
  <2> QED
    BY <1>5, <1>7, FS_UNION
<1> QED
  BY <1>8 DEF Entries

\* The total of a static scan misses no entry: each is counted somewhere.
LEMMA StaticTotalCounts ==
  ASSUME NEW c, NEW es, IsFiniteSet(es), StaticTotal(c, es) = 0
  PROVE  es = {}
<1> DEFINE Of(rank) == {e \in es : Rank(c, e) = rank}
<1>1. \A rank : IsFiniteSet(Of(rank)) /\ Counted(c, es, rank) = Cardinality(Of(rank))
  BY FS_Subset DEF Counted
<1>2. \A rank : Counted(c, es, rank) \in Nat
  BY <1>1, FS_CardinalityType
<1>3. \A rank \in Severities \union {"informational"} : Counted(c, es, rank) = 0
  <2> DEFINE n(rank) == Counted(c, es, rank)
  <2>1. n("Critical") + n("High") + n("Medium") + n("LOW") + n("informational") = 0
    BY DEF StaticTotal
  <2>2. n("Critical") \in Nat /\ n("High") \in Nat /\ n("Medium") \in Nat /\ n("LOW") \in Nat /\ n("informational") \in Nat
    BY <1>2
  <2> HIDE DEF n
  <2>3. n("Critical") = 0 /\ n("High") = 0 /\ n("Medium") = 0 /\ n("LOW") = 0 /\ n("informational") = 0
    BY <2>1, <2>2
  <2> QED
    BY <2>3 DEF n, Severities
<1>4. \A rank \in Severities \union {"informational"} : Of(rank) = {}
  BY <1>1, <1>3, FS_EmptySet
<1>5. \A e \in es : Rank(c, e) \in Severities \union {"informational"}
  BY DEF Rank
<1> QED
  BY <1>4, <1>5

-----------------------------------------------------------------------------
(* The theorems.                                                           *)

\* For any jobs and bounds every step is at a call of Hook, and no token is
\* held or refused that was not given out.
THEOREM ScanTypeCorrect == ScanSpec => []ScanTypeOK
  BY ScanTypeInit, ScanTypeNext, PTL DEF ScanSpec

\* For any number of jobs and steps the token a step begins with has not been
\* refused to its job: the renewal reaches the parameters before the next Pre.
THEOREM TokensAreFresh == ScanSpec => StepsStartFresh
<1>1. ScanSpec => [](ScanTypeOK /\ TokenInv)
  BY ScanTypeInit, ScanTypeNext, TokenInit, TokenNext, PTL DEF ScanSpec
<1> QED
  BY <1>1, FreshStep, PTL DEF ScanSpec, StepsStartFresh

\* Steps of any number of jobs that never overlap make one project at most.
THEOREM OneProject == ScanSpec => []OneProjectWithoutOverlap
<1>1. ScanTypeOK /\ AloneInv => OneProjectWithoutOverlap
  BY DEF AloneInv, Alone, OneProjectWithoutOverlap
<1> QED
  BY <1>1, ScanTypeInit, ScanTypeNext, AloneInit, AloneNext, PTL DEF ScanSpec

\* For any code, engines and jobs a report without findings on code that has
\* some is of a failed scan and of an engine whose result may be any text.
THEOREM CleanReports == ScanSpec => []CleanReportHasACause
<1>1. ScanTypeOK /\ ReportInv => CleanReportHasACause
  <2> SUFFICES ASSUME ReportInv, NEW j \in Scans, call[j] = "done", report[j].total = 0, Entries(code[j]) # {}
               PROVE  task[j] \in Failures /\ engine[j] \notin {"STATIC", "PROVER"}
    BY DEF CleanReportHasACause
  <2>1. /\ code[j] \in Codes /\ Parsed(j) /\ Total(j) = 0
        /\ task[j] \in {"SUCCESS"} \union Failures
    BY DEF ReportInv
  <2>2. ASSUME task[j] = "SUCCESS" PROVE FALSE
    <3>1. CASE engine[j] = "STATIC"
      <4>1. StaticTotal(code[j], Entries(code[j])) = 0
        BY <2>1, <2>2, <3>1 DEF Total, Found
      <4> QED
        BY <2>1, <4>1, EntriesFinite, StaticTotalCounts
    <3>2. CASE engine[j] # "STATIC"
      <4>1. Len(code[j]) = 0 /\ code[j] \in Seq([severity : STRING, files : Seq(STRING)])
        BY <2>1, <2>2, <3>2, CodesAssumption DEF Total
      <4>2. DOMAIN code[j] = {}
        BY <4>1
      <4> QED
        BY <4>2 DEF Entries
    <3> QED
      BY <3>1, <3>2
  <2> QED
    BY <2>1, <2>2 DEF Parsed
<1> QED
  BY <1>1, ScanTypeInit, ScanTypeNext, ReportInit, ReportNext, PTL DEF ScanSpec
=============================================================================
