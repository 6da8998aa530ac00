------------------------------ MODULE IcpDeploy ------------------------------
(***************************************************************************)
(* Building and deploying Internet Computer canisters (icp-build and       *)
(* icp-deploy: action/action_icp_build.go, action/action_icp_deploy.go)    *)
(* under the lock of utils/lock.go.                                        *)
(*                                                                         *)
(* dfx acts with the identity last switched to on the host, so a run       *)
(* switches to its user's under a lock shared by all runs.  The ids of the *)
(* canisters it has created dfx keeps in a file: on the local network      *)
(* inside .dfx, which a build removes and which is copied from and to the  *)
(* job's cache without the lock; on ic beside it.                          *)
(***************************************************************************)
EXTENDS Naturals, Sequences, FiniteSets

CONSTANTS
  IcpRuns,   \* executions of jobs with these steps
  IcpJobs,
  UserOf,    \* the identity of each job
  Canisters, \* the canister names in dfx.json
  NoOne

Users == {UserOf[j] : j \in IcpJobs}

ASSUME CanistersAssumption == IsFiniteSet(Canisters)
ASSUME NoOneAssumption == NoOne \notin IcpRuns /\ NoOne \notin Users

VARIABLES
  network,   \* IC_NETWORK: "local" or "ic"
  dfxAt,     \* dfxAt[r]: where run r is
  jobOf,     \* jobOf[r]: its job; runs of a job share workdir and cache
  deployCmd, \* deployCmd[r]: the step has deploy_cmd: true
  todo,      \* todo[r]: canisters the loop under way has still to visit
  lock,      \* the run that holds the lock
  identity,  \* the identity dfx uses on this host
  dirIds,    \* dirIds[j]: canister_ids.json of the workdir, 0 for a name without id
  cacheIds,  \* cacheIds[j]: the same file in the job's cache
  ledger,    \* the canisters on the network: [name, job, owner]
  overlapped,\* history: runs that ran while another of their job did
  broken     \* history: runs whose Pre failed after it had begun to create

position == <<network, dfxAt, jobOf, deployCmd, todo>>
disks == <<dirIds, cacheIds>>
history == <<overlapped, broken>>
icpVars == <<position, lock, identity, disks, ledger, history>>

NoIds == [c \in Canisters |-> 0]
Ids == 0 .. Len(ledger)
Ended == {"done", "failed"}
Busy(r) == dfxAt[r] \notin {"idle"} \union Ended

IcpInit ==
  /\ network \in {"local", "ic"}
  /\ dfxAt = [r \in IcpRuns |-> "idle"] /\ jobOf = [r \in IcpRuns |-> NoOne]
  /\ deployCmd = [r \in IcpRuns |-> FALSE] /\ todo = [r \in IcpRuns |-> {}]
  /\ lock = NoOne /\ identity = NoOne
  /\ dirIds = [j \in IcpJobs |-> NoIds] /\ cacheIds = [j \in IcpJobs |-> NoIds]
  /\ ledger = <<>>
  /\ overlapped = {} /\ broken = {}

Move(r, to) == dfxAt' = [dfxAt EXCEPT ![r] = to] /\ UNCHANGED <<network, jobOf, deployCmd>>
Step(r, from, to) == dfxAt[r] = from /\ Move(r, to)

\* A run starts; the job file names the steps.
StartRun(r, j) ==
  LET same == {q \in IcpRuns : jobOf[q] = j /\ Busy(q)} IN
    /\ dfxAt[r] = "idle"
    /\ jobOf' = [jobOf EXCEPT ![r] = j]
    /\ \E first \in {"buildPre", "copyIn"} : dfxAt' = [dfxAt EXCEPT ![r] = first]
    /\ \E b \in BOOLEAN : deployCmd' = [deployCmd EXCEPT ![r] = b]
    /\ overlapped' = IF same = {} THEN overlapped ELSE overlapped \union same \union {r}
    /\ UNCHANGED <<network, todo, lock, identity, dirIds, cacheIds, ledger, broken>>

-----------------------------------------------------------------------------
(* The lock, and the identity switched to first thing under it.            *)

\* Fault: the lock is not waited for.
LockNotWaited(r, from, to, failed) ==
  /\ lock' = r /\ Step(r, from, to)
  /\ UNCHANGED <<todo, identity, disks, ledger, history>>

\* Acquire waits 30 s for the lock, or cannot ask for it; then Pre or Hook
\* returns its error.
Lock(r, from, to, failed) ==
  /\ \/ lock = NoOne /\ lock' = r /\ Step(r, from, to)
     \/ lock' = lock /\ Step(r, from, failed)
  /\ UNCHANGED <<todo, identity, disks, ledger, history>>

Unlock == lock' = NoOne

\* An error inside the critical section: the deferred Unlock, then the error.
Fail(r, from, to) == Step(r, from, to) /\ Unlock

\* `dfx identity use`, and what follows it.
UseIdentity(r, from, to, failed) ==
  /\ \/ Step(r, from, to) /\ identity' = UserOf[jobOf[r]] /\ lock' = lock
     \/ Fail(r, from, failed) /\ identity' = identity
  /\ todo' = [todo EXCEPT ![r] = Canisters]
  /\ UNCHANGED <<disks, ledger, history>>

-----------------------------------------------------------------------------
(* icp-build.                                                              *)

\* Pre, without the lock: .dfx is removed, dfx.json written.
BuildPre(r) ==
  /\ Step(r, "buildPre", "buildLock")
  /\ dirIds' = IF network = "local" THEN [dirIds EXCEPT ![jobOf[r]] = NoIds] ELSE dirIds
  /\ UNCHANGED <<todo, lock, identity, cacheIds, ledger, history>>

\* Hook: lock, identity, `dfx build --check`, the .did files.  A failure ends
\* the job; Post does nothing.
Build(r) ==
  /\ \/ Step(r, "build", "copyIn") /\ Unlock
     \/ Fail(r, "build", "failed")
  /\ UNCHANGED <<todo, identity, disks, ledger, history>>

IcpBuild(r) ==
  \/ BuildPre(r)
  \/ Lock(r, "buildLock", "buildUse", "failed")
  \/ UseIdentity(r, "buildUse", "build", "failed")
  \/ Build(r)

-----------------------------------------------------------------------------
(* icp-deploy, Pre.                                                        *)

\* copyDir goes file by file: a file the source has replaces the other's.
CopyDir(from, to) == IF network = "local" /\ from # NoIds THEN from ELSE to

CopyIn(r) ==
  /\ Step(r, "copyIn", "preLock")
  /\ dirIds' = [dirIds EXCEPT ![jobOf[r]] = CopyDir(cacheIds[jobOf[r]], @)]
  /\ UNCHANGED <<todo, lock, identity, cacheIds, ledger, history>>

\* canister_ids.json exists; dfx writes it with the first canister.
CheckIsDeployed(j) == dirIds[j] # NoIds

CheckDeployed(r) ==
  /\ Step(r, "check", IF CheckIsDeployed(jobOf[r]) THEN "download" ELSE "create")
  /\ UNCHANGED <<todo, lock, identity, disks, ledger, history>>

\* A dfx.json that is not JSON.
BadDfxJson(r) ==
  /\ Fail(r, "check", "failed")
  /\ UNCHANGED <<todo, identity, disks, ledger, history>>

\* dfx creates the canisters cs, those without an id, as the identity of the
\* host, and notes their ids.
Missing(j) == {c \in Canisters : dirIds[j][c] = 0}
DfxCreate(j, cs) ==
  \E order \in {s \in [1 .. Cardinality(cs) -> cs] : \A c \in cs : \E i \in DOMAIN s : s[i] = c} :
    /\ ledger' = ledger \o [i \in DOMAIN order |->
                   [name |-> order[i], job |-> j, owner |-> identity]]
    /\ dirIds' = [dirIds EXCEPT ![j] =
                   [c \in Canisters |-> IF c \in cs THEN Len(ledger) + CHOOSE i \in DOMAIN order : order[i] = c ELSE @[c]]]

\* `dfx canister create` of one name after the other, in any order; the
\* first that fails (cycles, network) ends Pre.
CreateCanister(r) ==
  \E c \in todo[r] :
    /\ todo' = [todo EXCEPT ![r] = @ \ {c}]
    /\ \/ /\ Step(r, "create", IF todo[r] = {c} THEN "download" ELSE "create")
          /\ DfxCreate(jobOf[r], {c} \intersect Missing(jobOf[r]))
          /\ UNCHANGED <<lock, broken>>
       \/ /\ Fail(r, "create", "failed")
          /\ broken' = broken \union {r}
          /\ UNCHANGED <<dirIds, ledger>>
    /\ UNCHANGED <<identity, cacheIds, overlapped>>

\* The artifacts are downloaded and dfx.json is written again, or one fails,
\* and the lock is let go.
DownloadAndUnzip(r) ==
  /\ \/ Step(r, "download", "hookLock") /\ broken' = broken
     \/ Step(r, "download", "failed")
        /\ broken' = IF todo[r] = Canisters THEN broken ELSE broken \union {r}
  /\ Unlock
  /\ UNCHANGED <<todo, identity, dirIds, cacheIds, ledger, overlapped>>

Pre(r) ==
  \/ CopyIn(r)
  \/ Lock(r, "preLock", "preUse", "failed")
  \/ UseIdentity(r, "preUse", "check", "failed")
  \/ CheckDeployed(r) \/ BadDfxJson(r) \/ CreateCanister(r) \/ DownloadAndUnzip(r)

-----------------------------------------------------------------------------
(* icp-deploy, Hook and Post.                                              *)

\* dfx refuses what the identity does not own; code is installed and not
\* kept track of here.
Owned(j, cs) == \A c \in cs : dirIds[j][c] # 0 /\ ledger[dirIds[j][c]].owner = identity

\* `dfx deploy` creates what is missing and installs everything; it may fail
\* with some of it created.
DfxDeployCreates(r) ==
  /\ deployCmd[r] /\ Missing(jobOf[r]) # {}
  /\ \E cs \in SUBSET Missing(jobOf[r]) \ {{}} :
       /\ DfxCreate(jobOf[r], cs)
       /\ \/ cs = Missing(jobOf[r]) /\ Step(r, "install", "install") /\ lock' = lock
          \/ Fail(r, "install", "postFailed")
  /\ UNCHANGED <<todo, identity, cacheIds, history>>

\* A url of it may still find no id.
DfxDeployInstalls(r) ==
  /\ deployCmd[r] /\ Owned(jobOf[r], Canisters)
  /\ \E to \in {"post", "postFailed"} : Step(r, "install", to)
  /\ Unlock
  /\ UNCHANGED <<todo, identity, disks, ledger, history>>

\* `dfx canister id` and `install --mode=reinstall`, one canister after the other.
InstallCanister(r) ==
  /\ ~deployCmd[r]
  /\ \E c \in todo[r] :
       /\ Owned(jobOf[r], {c})
       /\ todo' = [todo EXCEPT ![r] = @ \ {c}]
       /\ IF todo[r] = {c} THEN Step(r, "install", "post") /\ Unlock
                           ELSE Step(r, "install", "install") /\ lock' = lock
  /\ UNCHANGED <<identity, disks, ledger, history>>

\* A command fails: no id, not the owner, or dfx itself.
InstallFails(r) ==
  /\ Fail(r, "install", "postFailed")
  /\ UNCHANGED <<todo, identity, disks, ledger, history>>

Hook(r) ==
  \/ Lock(r, "hookLock", "hookUse", "postFailed")
  \/ UseIdentity(r, "hookUse", "install", "postFailed")
  \/ DfxDeployCreates(r) \/ DfxDeployInstalls(r) \/ InstallCanister(r) \/ InstallFails(r)

\* Fault: nothing is cached after a Hook that failed.
PostOfSuccess(r) ==
  /\ \/ Step(r, "post", "done") /\ cacheIds' = [cacheIds EXCEPT ![jobOf[r]] = CopyDir(dirIds[jobOf[r]], @)]
     \/ Step(r, "postFailed", "failed") /\ cacheIds' = cacheIds
  /\ UNCHANGED <<todo, lock, identity, dirIds, ledger, history>>

\* Post runs whether Hook failed or not, but not when Pre did: .dfx goes to
\* the job's cache, without the lock.
Post(r) ==
  /\ \/ Step(r, "post", "done")
     \/ Step(r, "postFailed", "failed")
  /\ cacheIds' = [cacheIds EXCEPT ![jobOf[r]] = CopyDir(dirIds[jobOf[r]], @)]
  /\ UNCHANGED <<todo, lock, identity, dirIds, ledger, history>>

-----------------------------------------------------------------------------
IcpStep(r) == IcpBuild(r) \/ Pre(r) \/ Hook(r) \/ Post(r)
IcpNext == \E r \in IcpRuns : (\E j \in IcpJobs : StartRun(r, j)) \/ IcpStep(r)

\* dfx commands, downloads and the wait for the lock end.
IcpFairness == \A r \in IcpRuns : WF_icpVars(IcpStep(r))

IcpSpec == IcpInit /\ [][IcpNext]_icpVars /\ IcpFairness

Places == {"idle", "buildPre", "buildLock", "buildUse", "build", "copyIn", "preLock", "preUse", "check",
           "create", "download", "hookLock", "hookUse", "install", "post", "postFailed"} \union Ended

IcpTypeOK ==
  /\ network \in {"local", "ic"}
  /\ dfxAt \in [IcpRuns -> Places] /\ jobOf \in [IcpRuns -> IcpJobs \union {NoOne}]
  /\ deployCmd \in [IcpRuns -> BOOLEAN] /\ todo \in [IcpRuns -> SUBSET Canisters]
  /\ lock \in IcpRuns \union {NoOne} /\ identity \in Users \union {NoOne}
  /\ ledger \in Seq([name : Canisters, job : IcpJobs, owner : Users])
  /\ dirIds \in [IcpJobs -> [Canisters -> Ids]] /\ cacheIds \in [IcpJobs -> [Canisters -> Ids]]
  /\ overlapped \subseteq IcpRuns /\ broken \subseteq IcpRuns

-----------------------------------------------------------------------------
(* Properties.                                                             *)

\* Every canister belongs to the identity of the job it was created for:
\* whatever runs at the same time on the host, no run creates one under the
\* identity another has switched to.
OwnersAreUsers == \A i \in DOMAIN ledger : ledger[i].owner = UserOf[ledger[i].job]

\* The canisters of job j that are in none of its id files: paid for, and
\* out of reach.
Known(j) == {dirIds[j][c] : c \in Canisters} \union {cacheIds[j][c] : c \in Canisters}
Orphans(j) == {i \in DOMAIN ledger : ledger[i].job = j /\ i \notin Known(j)}

\* No canister is lost, except on the local network by a run whose Pre
\* failed, so that nothing went to the cache, or by two runs of the job at
\* the same time.
OrphansHaveACause ==
  \A j \in IcpJobs : Orphans(j) # {} =>
    network = "local" /\ \E r \in overlapped \union broken : jobOf[r] = j

\* A run that is not under way, and has not kept the lock.
IcpRunEnded(r) == ~Busy(r) /\ lock # r
=============================================================================
