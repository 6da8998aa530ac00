----------------------------- MODULE Dispatcher -----------------------------
(***************************************************************************)
(* The master's node registry and round-robin poller                       *)
(* (dispatcher/dispatcher.go), together with the goroutines of             *)
(* engine_master.go that call it:                                          *)
(*                                                                         *)
(*   "msg"    the loop of handleGrpcServerMessage: REGISTER, UNREGISTER    *)
(*            and HEARTBEAT messages of the workers;                       *)
(*   "err"    the loop of handleGrpcServerError: takes a SendJobError,     *)
(*            unregisters the node and dispatches the job again;           *)
(*   Callers  goroutines of the embedding program inside ExecuteJob,       *)
(*            ReExecuteJob and CancelJob.                                  *)
(*                                                                         *)
(* d.nodes and d.JobNodeMap are sync.Maps: each Load, Store and Delete is  *)
(* atomic by itself, and is an action of its own.  The poller (keyList and *)
(* index) is only touched under d.mu: each critical section is one action. *)
(***************************************************************************)
EXTENDS Naturals, SequencesExt

CONSTANTS
  Keys,      \* node keys, GetNodeKey(name, address)
  Jobs,      \* one (job name, job detail id) per element
  Callers,   \* goroutines of the embedding program
  Leavers,   \* nodes that send UNREGISTER before they go
  MaxSends,  \* bound: SendJob calls per job
  NoKey, NoJob

ASSUME KeysAssumption == NoKey \notin Keys /\ NoJob \notin Jobs
ASSUME CallersAssumption == "msg" \notin Callers /\ "err" \notin Callers
ASSUME LeaversAssumption == Leavers \subseteq Keys
ASSUME MaxSendsAssumption == MaxSends \in Nat

VARIABLES
  nodes,     \* the keys of d.nodes (ping times are only read by HealthcheckNode, which nothing calls)
  keyList,   \* d.poller.keyList
  index,     \* d.poller.index, counted from 0 as in the code
  jobNodes,  \* d.JobNodeMap
  cancels,   \* CANCEL messages handed to the grpc server, not yet sent
  sent,      \* history: <<job, key>> of every EXECUTE handed to SendMsgChan
  pc,        \* where each goroutine is; "idle" between two calls
  key,       \* the node key its call is about
  frame,     \* the locals of dispatchJob: job, failed tries, the list loaded by SendJob
  up         \* FALSE once a panic has taken the master process down

vars == <<nodes, keyList, index, jobNodes, cancels, sent, pc, key, frame, up>>
poller == <<keyList, index>>
messages == <<jobNodes, cancels, sent>>

Procs == {"msg", "err"} \union Callers
MaxTries == 3
NoFrame == [job |-> NoJob, tries |-> 0, seen |-> <<>>]
Pcs == {"idle", "append", "ping", "delete", "remove", "pick", "load", "getjob", "store", "put"}

Init ==
  /\ nodes = {} /\ keyList = <<>> /\ index = 0
  /\ jobNodes = [j \in Jobs |-> <<>>]
  /\ cancels = {} /\ sent = {}
  /\ pc = [p \in Procs |-> "idle"]
  /\ key = [p \in Procs |-> NoKey]
  /\ frame = [p \in Procs |-> NoFrame]
  /\ up = TRUE

At(p, label) == up /\ pc[p] = label
Goto(p, label) == pc' = [pc EXCEPT ![p] = label]
Return(p) ==
  /\ Goto(p, "idle")
  /\ key' = [key EXCEPT ![p] = NoKey]
  /\ frame' = [frame EXCEPT ![p] = NoFrame]

-----------------------------------------------------------------------------
(* Register: nodes.Load and nodes.Store, then the append under the lock.   *)
(* A second REGISTER of a known key is refused and changes nothing.  Only  *)
(* "msg" writes new keys to d.nodes, so no other Register can come between *)
(* its Load and its Store.                                                 *)

RegisterStore(k) ==
  /\ At("msg", "idle") /\ k \notin nodes
  /\ nodes' = nodes \union {k}
  /\ Goto("msg", "append") /\ key' = [key EXCEPT !["msg"] = k]
  /\ UNCHANGED <<poller, messages, frame, up>>

RegisterAppend ==
  /\ At("msg", "append")
  /\ keyList' = Append(keyList, key["msg"])
  /\ Return("msg")
  /\ UNCHANGED <<nodes, index, messages, up>>

(* Ping: a Store of the key that an earlier Load found.                    *)
PingLoad(k) ==
  /\ At("msg", "idle") /\ k \in nodes
  /\ Goto("msg", "ping") /\ key' = [key EXCEPT !["msg"] = k]
  /\ UNCHANGED <<nodes, poller, messages, frame, up>>

PingStore ==
  /\ At("msg", "ping")
  /\ nodes' = nodes \union {key["msg"]}
  /\ Return("msg")
  /\ UNCHANGED <<poller, messages, up>>

-----------------------------------------------------------------------------
(* unRegister: Load, Delete, then the removal under the lock.              *)

UnRegisterLoad(k) ==
  /\ At("msg", "idle") /\ k \in Leavers \intersect nodes
  /\ Goto("msg", "delete") /\ key' = [key EXCEPT !["msg"] = k]
  /\ UNCHANGED <<nodes, poller, messages, frame, up>>

UnRegisterDelete(p) ==
  /\ At(p, "delete")
  /\ nodes' = nodes \ {key[p]}
  /\ Goto(p, "remove")
  /\ UNCHANGED <<poller, messages, key, frame, up>>

\* Faults a change of this code could introduce (used by the mutant runs only):
\* a removal that truncates, one that forgets index 0.
RemovedListTruncated == IF index # 0 THEN SubSeq(keyList, 1, index - 1) ELSE Front(keyList)
RemovedListKeepsLast == IF index # 0 THEN RemoveAt(keyList, index) ELSE keyList

\* The slot given up is the one before index (the last one when index is 0),
\* whatever key it holds.
RemovedList == IF index # 0 THEN RemoveAt(keyList, index) ELSE Front(keyList)
RemovedIndex == IF index # 0 THEN (index - 1) % (Len(keyList) - 1) ELSE 0

\* keyList[:-1] and % 0 both panic.
RemovePanics == keyList = <<>> \/ (index # 0 /\ Len(keyList) = 1)

\* The message loop is done with the message; the error loop goes on to dispatchJob.
UnRegisterRemove(p) ==
  /\ At(p, "remove") /\ ~RemovePanics
  /\ keyList' = RemovedList
  /\ index' = RemovedIndex
  /\ IF p = "err" THEN Goto(p, "pick") /\ UNCHANGED <<key, frame>> ELSE Return(p)
  /\ UNCHANGED <<nodes, messages, up>>

UnRegisterPanic(p) ==
  /\ At(p, "remove") /\ RemovePanics
  /\ up' = FALSE
  /\ UNCHANGED <<nodes, poller, messages, pc, key, frame>>

-----------------------------------------------------------------------------
(* dispatchJob: up to three DispatchNode calls, GetJob, SendJob and the    *)
(* send to SendMsgChan.                                                    *)

StartDispatch(c, j) ==
  /\ At(c, "idle") /\ Len(jobNodes[j]) < MaxSends
  /\ frame' = [frame EXCEPT ![c].job = j]
  /\ Goto(c, "pick")
  /\ UNCHANGED <<nodes, poller, messages, key, up>>

\* A failed DispatchNode: again, or an error to the caller after the third.
Retry(p) ==
  IF frame[p].tries + 1 < MaxTries
    THEN /\ frame' = [frame EXCEPT ![p].tries = @ + 1]
         /\ Goto(p, "pick")
         /\ key' = [key EXCEPT ![p] = NoKey]
    ELSE Return(p)

\* Fault: the index does not advance.
NextIndexStuck == index % Len(keyList)

\* The slot DispatchNode takes, and the index it leaves.
PickedKey == keyList[index + 1]
NextIndex == (index + 1) % Len(keyList)

DispatchPick(p) ==
  /\ At(p, "pick") /\ keyList # <<>>
  /\ key' = [key EXCEPT ![p] = PickedKey]
  /\ index' = NextIndex
  /\ Goto(p, "load")
  /\ UNCHANGED <<nodes, keyList, messages, frame, up>>

DispatchNoKeys(p) ==
  /\ At(p, "pick") /\ keyList = <<>>
  /\ Retry(p)
  /\ UNCHANGED <<nodes, poller, messages, up>>

DispatchLoad(p) ==
  /\ At(p, "load")
  /\ IF key[p] \in nodes THEN Goto(p, "getjob") /\ UNCHANGED <<key, frame>> ELSE Retry(p)
  /\ UNCHANGED <<nodes, poller, messages, up>>

\* GetJob fails when the job's file has been deleted meanwhile.
GetJobFails(p) ==
  /\ At(p, "getjob")
  /\ Return(p)
  /\ UNCHANGED <<nodes, poller, messages, up>>

SendJobLoad(p) ==
  /\ At(p, "getjob")
  /\ frame' = [frame EXCEPT ![p].seen = jobNodes[frame[p].job]]
  /\ Goto(p, "store")
  /\ UNCHANGED <<nodes, poller, messages, key, up>>

\* Fault: the node is recorded and the EXECUTE forgotten.
SendJobStoreOnly(p) ==
  /\ At(p, "store")
  /\ jobNodes' = [jobNodes EXCEPT ![frame[p].job] = Append(frame[p].seen, key[p])]
  /\ Return(p)
  /\ UNCHANGED <<nodes, poller, cancels, sent, up>>

SendJobStore(p) ==
  /\ At(p, "store")
  /\ jobNodes' = [jobNodes EXCEPT ![frame[p].job] = Append(frame[p].seen, key[p])]
  /\ Goto(p, "put")
  /\ UNCHANGED <<nodes, poller, cancels, sent, key, frame, up>>

PutExecute(p) ==
  /\ At(p, "put")
  /\ sent' = sent \union {<<frame[p].job, key[p]>>}
  /\ Return(p)
  /\ UNCHANGED <<nodes, poller, jobNodes, cancels, up>>

-----------------------------------------------------------------------------
(* cancelJob: one Load of JobNodeMap, a CANCEL to the last node recorded.  *)
CancelJob(j) ==
  /\ up /\ jobNodes[j] # <<>>
  /\ cancels' = cancels \union {<<j, Last(jobNodes[j])>>}
  /\ UNCHANGED <<nodes, poller, jobNodes, sent, pc, key, frame, up>>

(* The grpc server's send loop: the CANCEL leaves, or fails and is         *)
(* reported as a SendJobError (server.go compares the type with 4, which   *)
(* is CANCEL), which the error loop takes: unRegister's Load, or straight  *)
(* to dispatchJob when the node is already gone.                           *)
CancelSent(m) ==
  /\ up /\ m \in cancels
  /\ cancels' = cancels \ {m}
  /\ UNCHANGED <<nodes, poller, jobNodes, sent, pc, key, frame, up>>

SendJobError(m) ==
  /\ At("err", "idle") /\ m \in cancels
  /\ Len(jobNodes[m[1]]) < MaxSends
  /\ cancels' = cancels \ {m}
  /\ key' = [key EXCEPT !["err"] = m[2]]
  /\ frame' = [frame EXCEPT !["err"].job = m[1]]
  /\ Goto("err", IF m[2] \in nodes THEN "delete" ELSE "pick")
  /\ UNCHANGED <<nodes, poller, jobNodes, sent, up>>

-----------------------------------------------------------------------------
MsgLoop ==
  \/ \E k \in Keys : RegisterStore(k) \/ PingLoad(k) \/ UnRegisterLoad(k)
  \/ RegisterAppend
  \/ PingStore

UnRegister(p) == UnRegisterDelete(p) \/ UnRegisterRemove(p) \/ UnRegisterPanic(p)

DispatchJob(p) ==
  \/ DispatchPick(p) \/ DispatchNoKeys(p) \/ DispatchLoad(p)
  \/ GetJobFails(p) \/ SendJobLoad(p) \/ SendJobStore(p) \/ PutExecute(p)

Next ==
  \/ MsgLoop
  \/ \E p \in Procs : UnRegister(p) \/ DispatchJob(p)
  \/ \E c \in Callers, j \in Jobs : StartDispatch(c, j)
  \/ \E j \in Jobs : CancelJob(j)
  \/ \E m \in cancels : CancelSent(m) \/ SendJobError(m)

Spec == Init /\ [][Next]_vars

-----------------------------------------------------------------------------
(* Properties.                                                             *)

TypeOK ==
  /\ nodes \subseteq Keys /\ keyList \in Seq(Keys) /\ index \in Nat
  /\ jobNodes \in [Jobs -> Seq(Keys)]
  /\ cancels \subseteq Jobs \X Keys /\ sent \subseteq Jobs \X Keys
  /\ pc \in [Procs -> Pcs] /\ key \in [Procs -> Keys \union {NoKey}]
  /\ frame \in [Procs -> [job: Jobs \union {NoJob}, tries: 0 .. MaxTries - 1, seen: Seq(Keys)]]
  /\ up \in BOOLEAN

\* DispatchNode reads keyList[index] without a check of its own
\* (dispatcher.go:73): whatever registrations and removals came before, the
\* index is inside the list, or 0.  With it the `% len` of line 119 never
\* divides by zero: only the empty list can panic.
IndexInBounds == index = 0 \/ index < Len(keyList)

\* The nodes a goroutine has Stored and not yet appended, and the
\* goroutines past the Delete of unRegister and before its removal.
Appending == {p \in Procs : pc[p] = "append"}
Removing == {p \in Procs : pc[p] = "remove"}

\* How many registered nodes have no slot of their own in the poller, once
\* the calls under way are accounted for.
Imbalance ==
  (Cardinality(nodes) + Cardinality(Removing)) - (Len(keyList) + Cardinality(Appending))

\* Between them Register, Ping and unRegister never leave the poller with
\* more slots than there are registered nodes, however their steps
\* interleave: the round robin has no permanent surplus of dead slots.
NoSurplusSlots ==
  Len(keyList) + Cardinality(Appending) <= Cardinality(nodes) + Cardinality(Removing)

\* The only two ways a registered node can lose its slot for good: a
\* heartbeat's Store after another goroutine's Delete (dispatcher.go:135
\* against 115), and two unRegister calls of one key that both pass the Load
\* of line 114.  Every other step keeps the balance.
OnlyRacesLoseSlots ==
  [][Imbalance' # Imbalance =>
       \/ PingStore /\ key["msg"] \notin nodes
       \/ \E p \in Procs : UnRegisterDelete(p) /\ key[p] \notin nodes]_vars

\* CancelJob is sent to the last node JobNodeMap records: every node it
\* records has been handed an EXECUTE of that job, or is just about to be.
RecordedWasSent ==
  \A j \in Jobs : \A k \in ToSet(jobNodes[j]) :
    \/ <<j, k>> \in sent
    \/ \E p \in Procs : pc[p] = "put" /\ frame[p].job = j /\ key[p] = k

\* Round robin: once registrations have settled, a node that holds a slot
\* is chosen again and again for as long as jobs keep being dispatched.
Picks == \E p \in Procs : DispatchPick(p)
PicksOf(k) == \E p \in Procs : DispatchPick(p) /\ key'[p] = k
NoStarvation ==
  \A k \in Keys :
    (<>[][keyList' = keyList]_vars /\ <>[](k \in ToSet(keyList)) /\ []<><<Picks>>_vars)
      => []<><<PicksOf(k)>>_vars

\* "Remove the node that failed" (engine_master.go:151, model/error.go:6):
\* after the error loop's removal, the key it was told about has no slot,
\* unless the node has registered again meanwhile.
FailedNodeRemoved ==
  [][UnRegisterRemove("err") /\ key["err"] \notin nodes
       => key["err"] \notin ToSet(keyList')]_vars

\* JobNodeMap "records on which nodes the job has been executed"
\* (dispatcher.go:42): every node handed an EXECUTE is in the job's list.
SentIsRecorded == \A m \in sent : m[2] \in ToSet(jobNodes[m[1]])
=============================================================================
