-------------------------- MODULE DispatcherProofs --------------------------
(***************************************************************************)
(* Proofs about Dispatcher, for every set of nodes, jobs and callers.      *)
(***************************************************************************)
EXTENDS Dispatcher, FiniteSetTheorems, SequenceTheorems, TLAPS


(* The key and the job a goroutine holds at each point of a call.          *)
Held ==
  /\ \A p \in Procs : pc[p] \in {"append", "ping", "delete", "remove", "load", "getjob", "store", "put"}
                        => key[p] \in Keys
  /\ \A p \in Procs : pc[p] \in {"pick", "load", "getjob", "store", "put"}
                        => frame[p].job \in Jobs
  /\ pc["err"] \in {"delete", "remove"} => frame["err"].job \in Jobs

(* TypeOK, the bound on the index and Held support each other.             *)
TypeInv == TypeOK /\ IndexInBounds /\ Held

(* The length SubSeqProperties gives for a list without its last element.  *)
LEMMA CutLength ==
  \A n \in Nat : n > 0 => (IF 1 <= n - 1 THEN (n - 1) - 1 + 1 ELSE 0) = n - 1
OBVIOUS

(* The removal of unRegister, when it does not panic, shortens the list by *)
(* one and leaves the index inside it (dispatcher.go:117-123).             *)
LEMMA Removal ==
  ASSUME keyList \in Seq(Keys), index \in Nat, IndexInBounds, ~RemovePanics
  PROVE  /\ RemovedList \in Seq(Keys)
         /\ Len(RemovedList) = Len(keyList) - 1
         /\ RemovedIndex \in Nat
         /\ RemovedIndex = 0 \/ RemovedIndex < Len(RemovedList)
<1>1. Len(keyList) \in Nat /\ Len(keyList) > 0
  BY LenProperties, EmptySeq DEF RemovePanics
<1>2. \A i \in 1 .. Len(keyList) : keyList[i] \in Keys
  BY ElementOfSeq
<1>3. CASE index = 0
  <2>1. RemovedList = SubSeq(keyList, 1, Len(keyList) - 1) /\ RemovedIndex = 0
    BY <1>3 DEF RemovedList, RemovedIndex, Front
  <2>2. \A i \in 1 .. Len(keyList) - 1 : keyList[i] \in Keys
    BY <1>1, <1>2
  <2>3. Len(keyList) - 1 \in Int
    BY <1>1
  <2>4. /\ SubSeq(keyList, 1, Len(keyList) - 1) \in Seq(Keys)
        /\ Len(SubSeq(keyList, 1, Len(keyList) - 1)) =
             IF 1 <= Len(keyList) - 1 THEN (Len(keyList) - 1) - 1 + 1 ELSE 0
    BY <2>2, <2>3, SubSeqProperties
  <2>5. Len(RemovedList) = Len(keyList) - 1
    BY <1>1, <2>1, <2>4, CutLength, Zenon
  <2>6. RemovedList \in Seq(Keys)
    BY <2>1, <2>4, Zenon
  <2>7. RemovedIndex \in Nat /\ RemovedIndex = 0
    BY <2>1
  <2> QED BY <2>5, <2>6, <2>7
<1>4. CASE index # 0
  <2> DEFINE Before == SubSeq(keyList, 1, index - 1)
             After == SubSeq(keyList, index + 1, Len(keyList))
  <2>1. index \in 1 .. Len(keyList) - 1 /\ Len(keyList) - 1 > 0
    BY <1>1, <1>4 DEF IndexInBounds, RemovePanics
  <2>2. RemovedList = Before \o After
    BY <1>4 DEF RemovedList, RemoveAt
  <2>3. /\ Before \in Seq(Keys)
        /\ Len(Before) = IF 1 <= index - 1 THEN (index - 1) - 1 + 1 ELSE 0
    <3>1. index - 1 \in Int /\ \A i \in 1 .. index - 1 : keyList[i] \in Keys
      BY <1>1, <1>2, <2>1
    <3> QED BY <3>1, SubSeqProperties
  <2>4. /\ After \in Seq(Keys)
        /\ Len(After) = IF index + 1 <= Len(keyList) THEN Len(keyList) - (index + 1) + 1 ELSE 0
    <3>1. index + 1 \in Int /\ Len(keyList) \in Int
      BY <1>1, <2>1
    <3>2. \A i \in index + 1 .. Len(keyList) : keyList[i] \in Keys
      BY <1>1, <1>2, <2>1
    <3> QED BY <3>1, <3>2, SubSeqProperties
  <2>5. RemovedList \in Seq(Keys) /\ Len(RemovedList) = Len(Before) + Len(After)
    BY <2>2, <2>3, <2>4, ConcatProperties
  <2>6. Len(RemovedList) = Len(keyList) - 1
    BY <1>1, <2>1, <2>3, <2>4, <2>5
  <2>7. RemovedIndex = (index - 1) % (Len(keyList) - 1)
    BY <1>4 DEF RemovedIndex
  <2>8. RemovedIndex \in 0 .. Len(keyList) - 2
    BY <1>1, <2>1, <2>7
  <2> QED BY <1>1, <2>1, <2>5, <2>6, <2>8
<1> QED BY <1>3, <1>4

(* The slot DispatchNode reads exists, and the next index is in the list.  *)
LEMMA Pick ==
  ASSUME keyList \in Seq(Keys), index \in Nat, IndexInBounds, keyList # <<>>
  PROVE  PickedKey \in Keys /\ NextIndex \in 0 .. Len(keyList) - 1
<1>1. Len(keyList) \in Nat /\ Len(keyList) > 0
  BY LenProperties, EmptySeq
<1>2. index + 1 \in 1 .. Len(keyList)
  BY <1>1 DEF IndexInBounds
<1>3. PickedKey \in Keys
  BY <1>2, ElementOfSeq DEF PickedKey
<1>4. NextIndex \in 0 .. Len(keyList) - 1
  BY <1>1, <1>2 DEF NextIndex
<1> QED BY <1>3, <1>4
-----------------------------------------------------------------------------
(* Type correctness, with the bound on the poller's index.                 *)

LEMMA TypeInit == Init => TypeInv
<1> SUFFICES ASSUME Init PROVE TypeInv
  OBVIOUS
<1>1. TypeOK
  BY DEF Init, TypeOK, Pcs, NoFrame, MaxTries
<1>2. IndexInBounds
  BY DEF Init, IndexInBounds
<1>3. Held
  BY DEF Init, Held, Procs
<1> QED BY <1>1, <1>2, <1>3 DEF TypeInv

(* The frames a goroutine can have: Return's and Retry's are among them.   *)
Frames == [job: Jobs \union {NoJob}, tries: 0 .. MaxTries - 1, seen: Seq(Keys)]

LEMMA NoFrameType == NoFrame \in Frames
BY DEF NoFrame, Frames, MaxTries

(* A goroutine that leaves dispatchJob or finishes a message keeps the     *)
(* typing of the three per-goroutine variables.                            *)
LEMMA ReturnTypes ==
  ASSUME TypeInv, NEW p \in Procs, Return(p)
  PROVE  /\ pc' \in [Procs -> Pcs] /\ key' \in [Procs -> Keys \union {NoKey}]
         /\ frame' \in [Procs -> Frames]
         /\ Held'
<1>1. /\ pc' = [pc EXCEPT ![p] = "idle"]
      /\ key' = [key EXCEPT ![p] = NoKey]
      /\ frame' = [frame EXCEPT ![p] = NoFrame]
  BY DEF Return, Goto
<1>2. /\ pc \in [Procs -> Pcs] /\ key \in [Procs -> Keys \union {NoKey}]
      /\ frame \in [Procs -> Frames]
  BY DEF TypeInv, TypeOK, Frames
<1>3. pc' \in [Procs -> Pcs]
  BY <1>1, <1>2 DEF Pcs
<1>4. frame' \in [Procs -> Frames]
  BY <1>1, <1>2, NoFrameType
<1>5. key' \in [Procs -> Keys \union {NoKey}]
  BY <1>1, <1>2
<1>6. Held'
  BY <1>1, <1>2 DEF TypeInv, Held
<1> QED BY <1>3, <1>4, <1>5, <1>6

LEMMA RetryTypes ==
  ASSUME TypeInv, NEW p \in Procs, Retry(p), pc[p] \in {"pick", "load"}
  PROVE  /\ pc' \in [Procs -> Pcs] /\ key' \in [Procs -> Keys \union {NoKey}]
         /\ frame' \in [Procs -> Frames]
         /\ Held'
<1>1. CASE frame[p].tries + 1 < MaxTries
  <2>1. /\ pc' = [pc EXCEPT ![p] = "pick"]
        /\ key' = [key EXCEPT ![p] = NoKey]
        /\ frame' = [frame EXCEPT ![p].tries = @ + 1]
    BY <1>1 DEF Retry, Goto
  <2>2. /\ pc \in [Procs -> Pcs] /\ key \in [Procs -> Keys \union {NoKey}]
        /\ frame \in [Procs -> Frames]
    BY DEF TypeInv, TypeOK, Frames
  <2>3. pc' \in [Procs -> Pcs] /\ key' \in [Procs -> Keys \union {NoKey}]
    BY <2>1, <2>2 DEF Pcs
  <2>4. frame' \in [Procs -> Frames]
    <3>1. frame[p].tries + 1 \in 0 .. MaxTries - 1
      BY <1>1, <2>2 DEF Frames, MaxTries
    <3>2. [frame[p] EXCEPT !.tries = @ + 1] \in Frames
      BY <2>2, <3>1 DEF Frames
    <3> QED BY <2>1, <2>2, <3>2
  <2>5. Held'
    BY <2>1, <2>2 DEF TypeInv, Held, Frames
  <2> QED BY <2>3, <2>4, <2>5
<1>2. CASE ~(frame[p].tries + 1 < MaxTries)
  BY <1>2, ReturnTypes DEF Retry
<1> QED BY <1>1, <1>2

LEMMA TypeStep == TypeInv /\ [Next]_vars => TypeInv'
<1> SUFFICES ASSUME TypeInv, [Next]_vars PROVE TypeInv'
  OBVIOUS
<1> USE DEF TypeInv
<1>0. /\ nodes \subseteq Keys /\ keyList \in Seq(Keys) /\ index \in Nat
      /\ jobNodes \in [Jobs -> Seq(Keys)]
      /\ cancels \subseteq Jobs \X Keys /\ sent \subseteq Jobs \X Keys
      /\ pc \in [Procs -> Pcs] /\ key \in [Procs -> Keys \union {NoKey}]
      /\ frame \in [Procs -> Frames] /\ up \in BOOLEAN
  BY DEF TypeOK, Frames
<1>p. "msg" \in Procs /\ "err" \in Procs /\ Callers \subseteq Procs
  BY DEF Procs
<1> DEFINE Locals == /\ pc' \in [Procs -> Pcs] /\ key' \in [Procs -> Keys \union {NoKey}]
                     /\ frame' \in [Procs -> Frames] /\ Held'
           Shared == /\ nodes' \subseteq Keys /\ keyList' \in Seq(Keys) /\ index' \in Nat
                     /\ jobNodes' \in [Jobs -> Seq(Keys)]
                     /\ cancels' \subseteq Jobs \X Keys /\ sent' \subseteq Jobs \X Keys
                     /\ up' \in BOOLEAN
                     /\ index' = 0 \/ index' < Len(keyList')
<1>q. Locals /\ Shared => TypeInv'
  BY DEF TypeOK, Frames, IndexInBounds
<1> HIDE DEF TypeInv
<1>1. ASSUME NEW k \in Keys, RegisterStore(k) PROVE TypeInv'
  <2>1. Locals
    BY <1>0, <1>1, <1>p DEF RegisterStore, Goto, Pcs, TypeInv, Held
  <2>2. Shared
    BY <1>0, <1>1 DEF RegisterStore, poller, messages, TypeInv, IndexInBounds
  <2> QED BY <2>1, <2>2, <1>q
<1>2. ASSUME RegisterAppend PROVE TypeInv'
  <2>1. Locals
    BY <1>2, <1>p, ReturnTypes DEF RegisterAppend
  <2>2. key["msg"] \in Keys
    BY <1>2, <1>p DEF RegisterAppend, At, TypeInv, Held
  <2>3. keyList' \in Seq(Keys) /\ Len(keyList') = Len(keyList) + 1
    BY <1>0, <1>2, <2>2, AppendProperties DEF RegisterAppend
  <2>4. Shared
    BY <1>0, <1>2, <2>3, LenProperties DEF RegisterAppend, messages, TypeInv, IndexInBounds
  <2> QED BY <2>1, <2>4, <1>q
<1>3. ASSUME NEW k \in Keys, PingLoad(k) PROVE TypeInv'
  <2>1. Locals
    BY <1>0, <1>3, <1>p DEF PingLoad, Goto, Pcs, TypeInv, Held
  <2>2. Shared
    BY <1>0, <1>3 DEF PingLoad, poller, messages, TypeInv, IndexInBounds
  <2> QED BY <2>1, <2>2, <1>q
<1>4. ASSUME PingStore PROVE TypeInv'
  <2>1. Locals
    BY <1>4, <1>p, ReturnTypes DEF PingStore
  <2>2. key["msg"] \in Keys
    BY <1>4, <1>p DEF PingStore, At, TypeInv, Held
  <2>3. Shared
    BY <1>0, <1>4, <2>2 DEF PingStore, poller, messages, TypeInv, IndexInBounds
  <2> QED BY <2>1, <2>3, <1>q
<1>5. ASSUME NEW k \in Keys, UnRegisterLoad(k) PROVE TypeInv'
  <2>1. Locals
    BY <1>0, <1>5, <1>p DEF UnRegisterLoad, Goto, Pcs, TypeInv, Held
  <2>2. Shared
    BY <1>0, <1>5 DEF UnRegisterLoad, poller, messages, TypeInv, IndexInBounds
  <2> QED BY <2>1, <2>2, <1>q
<1>6. ASSUME NEW p \in Procs, UnRegisterDelete(p) PROVE TypeInv'
  <2>1. Locals
    BY <1>0, <1>6 DEF UnRegisterDelete, At, Goto, Pcs, TypeInv, Held
  <2>2. Shared
    BY <1>0, <1>6 DEF UnRegisterDelete, poller, messages, TypeInv, IndexInBounds
  <2> QED BY <2>1, <2>2, <1>q
<1>7. ASSUME NEW p \in Procs, UnRegisterRemove(p) PROVE TypeInv'
  <2>1. Locals
    <3>1. CASE p = "err"
      BY <1>0, <1>7, <3>1 DEF UnRegisterRemove, At, Goto, Pcs, TypeInv, Held
    <3>2. CASE p # "err"
      BY <1>7, <3>2, ReturnTypes DEF UnRegisterRemove
    <3> QED BY <3>1, <3>2
  <2>2. keyList' = RemovedList /\ index' = RemovedIndex /\ ~RemovePanics
    BY <1>7 DEF UnRegisterRemove
  <2>3. keyList' \in Seq(Keys) /\ index' \in Nat /\ (index' = 0 \/ index' < Len(keyList'))
    BY <1>0, <2>2, Removal DEF TypeInv
  <2>4. Shared
    BY <1>0, <1>7, <2>3 DEF UnRegisterRemove, messages
  <2> QED BY <2>1, <2>4, <1>q
<1>8. ASSUME NEW p \in Procs, UnRegisterPanic(p) PROVE TypeInv'
  <2>1. Locals
    BY <1>0, <1>8 DEF UnRegisterPanic, TypeInv, Held
  <2>2. Shared
    BY <1>0, <1>8 DEF UnRegisterPanic, poller, messages, TypeInv, IndexInBounds
  <2> QED BY <2>1, <2>2, <1>q
<1>9. ASSUME NEW p \in Procs, DispatchPick(p) PROVE TypeInv'
  <2>1. PickedKey \in Keys /\ NextIndex \in 0 .. Len(keyList) - 1
    BY <1>0, <1>9, Pick DEF DispatchPick, TypeInv
  <2>2. Locals
    BY <1>0, <1>9, <2>1 DEF DispatchPick, At, Goto, Pcs, TypeInv, Held
  <2>3. Len(keyList) \in Nat /\ index' = NextIndex /\ keyList' = keyList
    BY <1>0, <1>9, LenProperties DEF DispatchPick
  <2>4. index' \in Nat /\ (index' = 0 \/ index' < Len(keyList'))
    BY <2>1, <2>3
  <2>5. Shared
    BY <1>0, <1>9, <2>4 DEF DispatchPick, messages
  <2> QED BY <2>2, <2>5, <1>q
<1>10. ASSUME NEW p \in Procs, DispatchNoKeys(p) PROVE TypeInv'
  <2>1. Locals
    BY <1>10, RetryTypes DEF DispatchNoKeys, At
  <2>2. Shared
    BY <1>0, <1>10 DEF DispatchNoKeys, poller, messages, TypeInv, IndexInBounds
  <2> QED BY <2>1, <2>2, <1>q
<1>11. ASSUME NEW p \in Procs, DispatchLoad(p) PROVE TypeInv'
  <2>1. Locals
    <3>1. CASE key[p] \in nodes
      <4>1. pc[p] = "load" /\ pc' = [pc EXCEPT ![p] = "getjob"] /\ UNCHANGED <<key, frame>>
        BY <1>11, <3>1 DEF DispatchLoad, At, Goto
      <4>2. pc' \in [Procs -> Pcs]
        BY <1>0, <4>1 DEF Pcs
      <4>3. Held'
        BY <1>0, <1>p, <4>1 DEF TypeInv, Held
      <4> QED BY <1>0, <4>1, <4>2, <4>3
    <3>2. CASE key[p] \notin nodes
      BY <1>11, <3>2, RetryTypes DEF DispatchLoad, At
    <3> QED BY <3>1, <3>2
  <2>2. Shared
    BY <1>0, <1>11 DEF DispatchLoad, poller, messages, TypeInv, IndexInBounds
  <2> QED BY <2>1, <2>2, <1>q
<1>12. ASSUME NEW p \in Procs, GetJobFails(p) PROVE TypeInv'
  <2>1. Locals
    BY <1>12, ReturnTypes DEF GetJobFails
  <2>2. Shared
    BY <1>0, <1>12 DEF GetJobFails, poller, messages, TypeInv, IndexInBounds
  <2> QED BY <2>1, <2>2, <1>q
<1>13. ASSUME NEW p \in Procs, SendJobLoad(p) PROVE TypeInv'
  <2>1. frame[p].job \in Jobs /\ frame[p] \in Frames
    BY <1>0, <1>13 DEF SendJobLoad, At, TypeInv, Held
  <2>2. jobNodes[frame[p].job] \in Seq(Keys)
    BY <1>0, <2>1
  <2>3. Locals
    <3>1. [frame[p] EXCEPT !.seen = jobNodes[frame[p].job]] \in Frames
      BY <2>1, <2>2 DEF Frames
    <3>2. frame' \in [Procs -> Frames]
      BY <1>0, <1>13, <3>1 DEF SendJobLoad
    <3>3. pc' \in [Procs -> Pcs] /\ key' = key
      BY <1>0, <1>13 DEF SendJobLoad, Goto, Pcs
    <3>4. \A q \in Procs : frame'[q].job = frame[q].job
      BY <1>0, <1>13 DEF SendJobLoad, Frames
    <3>5. Held'
      BY <1>0, <1>13, <3>3, <3>4 DEF SendJobLoad, At, Goto, TypeInv, Held
    <3> QED BY <1>0, <3>2, <3>3, <3>5
  <2>4. Shared
    BY <1>0, <1>13 DEF SendJobLoad, poller, messages, TypeInv, IndexInBounds
  <2> QED BY <2>3, <2>4, <1>q
<1>14. ASSUME NEW p \in Procs, SendJobStore(p) PROVE TypeInv'
  <2>1. frame[p].job \in Jobs /\ frame[p].seen \in Seq(Keys) /\ key[p] \in Keys
    BY <1>0, <1>14 DEF SendJobStore, At, TypeInv, Held, Frames
  <2>2. Append(frame[p].seen, key[p]) \in Seq(Keys)
    BY <2>1, AppendProperties
  <2>3. jobNodes' \in [Jobs -> Seq(Keys)]
    BY <1>0, <1>14, <2>1, <2>2 DEF SendJobStore
  <2>4. Locals
    BY <1>0, <1>14 DEF SendJobStore, At, Goto, Pcs, TypeInv, Held
  <2>5. Shared
    BY <1>0, <1>14, <2>3 DEF SendJobStore, poller, TypeInv, IndexInBounds
  <2> QED BY <2>4, <2>5, <1>q
<1>15. ASSUME NEW p \in Procs, PutExecute(p) PROVE TypeInv'
  <2>1. frame[p].job \in Jobs /\ key[p] \in Keys
    BY <1>15 DEF PutExecute, At, TypeInv, Held
  <2>2. Locals
    BY <1>15, ReturnTypes DEF PutExecute
  <2>3. Shared
    BY <1>0, <1>15, <2>1 DEF PutExecute, poller, TypeInv, IndexInBounds
  <2> QED BY <2>2, <2>3, <1>q
<1>16. ASSUME NEW c \in Callers, NEW j \in Jobs, StartDispatch(c, j) PROVE TypeInv'
  <2>1. c \in Procs /\ [frame[c] EXCEPT !.job = j] \in Frames
    BY <1>0, <1>p DEF Frames
  <2>2. frame' \in [Procs -> Frames]
    BY <1>0, <1>16, <2>1 DEF StartDispatch
  <2>3. Locals
    BY <1>0, <1>16, <2>1, <2>2 DEF StartDispatch, At, Goto, Pcs, TypeInv, Held, Frames
  <2>4. Shared
    BY <1>0, <1>16 DEF StartDispatch, poller, messages, TypeInv, IndexInBounds
  <2> QED BY <2>3, <2>4, <1>q
<1>17. ASSUME NEW j \in Jobs, CancelJob(j) PROVE TypeInv'
  <2>1. Last(jobNodes[j]) \in Keys
    <3>1. jobNodes[j] \in Seq(Keys) /\ jobNodes[j] # <<>>
      BY <1>0, <1>17 DEF CancelJob
    <3>2. Len(jobNodes[j]) \in 1 .. Len(jobNodes[j])
      BY <3>1, LenProperties, EmptySeq
    <3> QED BY <3>1, <3>2, ElementOfSeq DEF Last
  <2>2. Locals
    BY <1>0, <1>17 DEF CancelJob, TypeInv, Held
  <2>3. Shared
    BY <1>0, <1>17, <2>1 DEF CancelJob, poller, TypeInv, IndexInBounds
  <2> QED BY <2>2, <2>3, <1>q
<1>18. ASSUME NEW m \in cancels, CancelSent(m) PROVE TypeInv'
  <2>1. Locals
    BY <1>0, <1>18 DEF CancelSent, TypeInv, Held
  <2>2. Shared
    BY <1>0, <1>18 DEF CancelSent, poller, TypeInv, IndexInBounds
  <2> QED BY <2>1, <2>2, <1>q
<1>19. ASSUME NEW m \in cancels, SendJobError(m) PROVE TypeInv'
  <2>1. m[1] \in Jobs /\ m[2] \in Keys
    BY <1>0
  <2>2. [frame["err"] EXCEPT !.job = m[1]] \in Frames
    BY <1>0, <1>p, <2>1 DEF Frames
  <2>3. frame' \in [Procs -> Frames]
    BY <1>0, <1>19, <2>2 DEF SendJobError
  <2>4. Locals
    <3>1. pc' \in [Procs -> Pcs] /\ key' \in [Procs -> Keys \union {NoKey}]
      BY <1>0, <1>19, <2>1 DEF SendJobError, Goto, Pcs
    <3>2. Held'
      BY <1>0, <1>19, <1>p, <2>1 DEF SendJobError, At, Goto, TypeInv, Held, Frames
    <3> QED BY <2>3, <3>1, <3>2
  <2>5. Shared
    BY <1>0, <1>19 DEF SendJobError, poller, TypeInv, IndexInBounds
  <2> QED BY <2>4, <2>5, <1>q
<1>20. ASSUME UNCHANGED vars PROVE TypeInv'
  BY <1>0, <1>20, <1>q DEF vars, TypeInv, Held, IndexInBounds
<1> QED
  BY <1>1, <1>2, <1>3, <1>4, <1>5, <1>6, <1>7, <1>8, <1>9, <1>10, <1>11, <1>12, <1>13,
     <1>14, <1>15, <1>16, <1>17, <1>18, <1>19, <1>20
  DEF Next, MsgLoop, UnRegister, DispatchJob

(* The poller's index is always inside its list, and every variable keeps  *)
(* its type: DispatchNode never reads past the list (dispatcher.go:73),    *)
(* and the modulus of unRegister is never zero (line 119).                 *)
THEOREM TypeCorrect == Spec => [](TypeOK /\ IndexInBounds)
<1>1. TypeInv => TypeOK /\ IndexInBounds
  BY DEF TypeInv
<1> QED BY <1>1, TypeInit, TypeStep, PTL DEF Spec

-----------------------------------------------------------------------------
(* The balance between registered nodes and slots.                         *)

(* Only the message loop registers; only the two loops unregister.         *)
Roles ==
  \A p \in Procs : /\ pc[p] \in {"append", "ping"} => p = "msg"
                   /\ pc[p] \in {"delete", "remove"} => p \in {"msg", "err"}

SlotInv == TypeInv /\ Roles /\ IsFiniteSet(nodes)

(* A goroutine that moves between two labels that are neither "append" nor *)
(* "remove" changes neither set.                                           *)
LEMMA OtherLabels ==
  ASSUME pc \in [Procs -> Pcs], NEW p \in Procs, NEW label,
         pc[p] \notin {"append", "remove"}, label \notin {"append", "remove"},
         pc' = [pc EXCEPT ![p] = label]
  PROVE  Appending' = Appending /\ Removing' = Removing
BY DEF Appending, Removing

LEMMA Entering ==
  ASSUME pc \in [Procs -> Pcs], NEW p \in Procs, NEW label,
         pc[p] \notin {"append", "remove"}, label \in {"append", "remove"},
         pc' = [pc EXCEPT ![p] = label]
  PROVE  /\ label = "append" => Appending' = Appending \union {p} /\ Removing' = Removing
         /\ label = "remove" => Removing' = Removing \union {p} /\ Appending' = Appending
         /\ p \notin Appending /\ p \notin Removing
BY DEF Appending, Removing

LEMMA LeavingAppend ==
  ASSUME pc \in [Procs -> Pcs], NEW p \in Procs, NEW label,
         pc[p] = "append", label # "append", label # "remove",
         pc' = [pc EXCEPT ![p] = label]
  PROVE  Appending' = Appending \ {p} /\ Removing' = Removing /\ p \in Appending
BY DEF Appending, Removing

LEMMA LeavingRemove ==
  ASSUME pc \in [Procs -> Pcs], NEW p \in Procs, NEW label,
         pc[p] = "remove", label # "append", label # "remove",
         pc' = [pc EXCEPT ![p] = label]
  PROVE  Removing' = Removing \ {p} /\ Appending' = Appending /\ p \in Removing
BY DEF Appending, Removing

(* Both sets are finite, whatever the number of callers: callers are never *)
(* in them.                                                                *)
LEMMA FiniteSides ==
  ASSUME SlotInv
  PROVE  IsFiniteSet(Appending) /\ IsFiniteSet(Removing)
<1>1. IsFiniteSet({"msg", "err"})
  <2>1. IsFiniteSet({"msg"}) /\ {"msg", "err"} = {"msg"} \union {"err"}
    BY FS_Singleton
  <2> QED BY <2>1, FS_AddElement
<1>2. Appending \subseteq {"msg", "err"} /\ Removing \subseteq {"msg", "err"}
  <2>1. \A p \in Procs : (pc[p] = "append" => p = "msg") /\ (pc[p] = "remove" => p \in {"msg", "err"})
    BY DEF SlotInv, Roles
  <2> QED BY <2>1 DEF Appending, Removing
<1> QED BY <1>1, <1>2, FS_Subset

(* Every step keeps the balance or, in the two races, raises it by one.    *)
Widened == Imbalance' = Imbalance + 1
Races ==
  \/ PingStore /\ key["msg"] \notin nodes
  \/ \E p \in Procs : UnRegisterDelete(p) /\ key[p] \notin nodes

LEMMA BalanceStep ==
  ASSUME SlotInv, [Next]_vars
  PROVE  /\ Imbalance' = Imbalance \/ (Widened /\ Races)
         /\ IsFiniteSet(nodes')
<1> USE DEF Procs
<1>0. /\ pc \in [Procs -> Pcs] /\ IsFiniteSet(nodes) /\ keyList \in Seq(Keys)
      /\ Len(keyList) \in Nat
      /\ IsFiniteSet(Appending) /\ IsFiniteSet(Removing)
      /\ Cardinality(nodes) \in Nat /\ Cardinality(Appending) \in Nat /\ Cardinality(Removing) \in Nat
      /\ TypeInv
  BY FiniteSides, FS_CardinalityType, LenProperties DEF SlotInv, TypeInv, TypeOK
<1> DEFINE Same == Appending' = Appending /\ Removing' = Removing
<1>same. ASSUME Same, UNCHANGED nodes, UNCHANGED keyList
         PROVE  Imbalance' = Imbalance /\ IsFiniteSet(nodes')
  BY <1>0, <1>same DEF Imbalance
<1> HIDE DEF Same
<1>1. ASSUME NEW k \in Keys, RegisterStore(k)
      PROVE  Imbalance' = Imbalance /\ IsFiniteSet(nodes')
  <2>1. k \notin nodes /\ nodes' = nodes \union {k} /\ keyList' = keyList
    BY <1>1 DEF RegisterStore, poller
  <2>2. /\ Appending' = Appending \union {"msg"} /\ Removing' = Removing
        /\ "msg" \notin Appending
    BY <1>0, <1>1, Entering DEF RegisterStore, At, Goto
  <2>3. /\ Cardinality(nodes') = Cardinality(nodes) + 1 /\ IsFiniteSet(nodes')
        /\ Cardinality(Appending') = Cardinality(Appending) + 1
    BY <1>0, <2>1, <2>2, FS_AddElement
  <2> QED BY <1>0, <2>1, <2>2, <2>3 DEF Imbalance
<1>2. ASSUME RegisterAppend
      PROVE  Imbalance' = Imbalance /\ IsFiniteSet(nodes')
  <2>1. /\ Appending' = Appending \ {"msg"} /\ Removing' = Removing
        /\ "msg" \in Appending
    <3>1. pc["msg"] = "append" /\ pc' = [pc EXCEPT !["msg"] = "idle"]
      BY <1>2 DEF RegisterAppend, At, Goto, Return
    <3> QED BY <1>0, <3>1, LeavingAppend
  <2>2. key["msg"] \in Keys /\ nodes' = nodes
    BY <1>0, <1>2 DEF RegisterAppend, At, TypeInv, Held
  <2>3. Len(keyList') = Len(keyList) + 1
    BY <1>0, <1>2, <2>2, AppendProperties DEF RegisterAppend
  <2>4. Cardinality(Appending') = Cardinality(Appending) - 1
    BY <1>0, <2>1, FS_RemoveElement
  <2> QED BY <1>0, <2>1, <2>2, <2>3, <2>4 DEF Imbalance
<1>3. ASSUME NEW k \in Keys, PingLoad(k) \/ UnRegisterLoad(k)
      PROVE  Imbalance' = Imbalance /\ IsFiniteSet(nodes')
  <2>1. Same
    BY <1>0, <1>3, OtherLabels DEF PingLoad, UnRegisterLoad, At, Goto, Same
  <2> QED BY <1>3, <1>same, <2>1 DEF PingLoad, UnRegisterLoad, poller
<1>4. ASSUME PingStore
      PROVE  (Imbalance' = Imbalance \/ (Widened /\ Races)) /\ IsFiniteSet(nodes')
  <2>1. Appending' = Appending /\ Removing' = Removing
    BY <1>0, <1>4, OtherLabels DEF PingStore, At, Goto, Return
  <2>2. nodes' = nodes \union {key["msg"]} /\ keyList' = keyList
    BY <1>4 DEF PingStore, poller
  <2>3. /\ IsFiniteSet(nodes')
        /\ Cardinality(nodes') = IF key["msg"] \in nodes THEN Cardinality(nodes) ELSE Cardinality(nodes) + 1
    BY <1>0, <2>2, FS_AddElement
  <2>4. CASE key["msg"] \in nodes
    BY <1>0, <2>1, <2>2, <2>3, <2>4 DEF Imbalance
  <2>5. CASE key["msg"] \notin nodes
    BY <1>0, <1>4, <2>1, <2>2, <2>3, <2>5 DEF Imbalance, Widened, Races
  <2> QED BY <2>3, <2>4, <2>5
<1>5. ASSUME NEW p \in Procs, UnRegisterDelete(p)
      PROVE  (Imbalance' = Imbalance \/ (Widened /\ Races)) /\ IsFiniteSet(nodes')
  <2>1. /\ Removing' = Removing \union {p} /\ Appending' = Appending
        /\ p \notin Removing
    BY <1>0, <1>5, Entering DEF UnRegisterDelete, At, Goto
  <2>2. nodes' = nodes \ {key[p]} /\ keyList' = keyList
    BY <1>5 DEF UnRegisterDelete, poller
  <2>3. /\ IsFiniteSet(nodes')
        /\ Cardinality(nodes') = IF key[p] \in nodes THEN Cardinality(nodes) - 1 ELSE Cardinality(nodes)
    BY <1>0, <2>2, FS_RemoveElement
  <2>4. Cardinality(Removing') = Cardinality(Removing) + 1
    BY <1>0, <2>1, FS_AddElement
  <2>5. CASE key[p] \in nodes
    BY <1>0, <2>1, <2>2, <2>3, <2>4, <2>5 DEF Imbalance
  <2>6. CASE key[p] \notin nodes
    <3>1. Races
      BY <1>5, <2>6 DEF Races
    <3> QED BY <1>0, <2>1, <2>2, <2>3, <2>4, <2>6, <3>1 DEF Imbalance, Widened
  <2> QED BY <2>3, <2>5, <2>6
<1>6. ASSUME NEW p \in Procs, UnRegisterRemove(p)
      PROVE  Imbalance' = Imbalance /\ IsFiniteSet(nodes')
  <2>1. /\ Removing' = Removing \ {p} /\ Appending' = Appending
        /\ p \in Removing
    <3>1. PICK label \in {"pick", "idle"} : pc' = [pc EXCEPT ![p] = label]
      BY <1>6 DEF UnRegisterRemove, Goto, Return
    <3>2. pc[p] = "remove" /\ label # "append" /\ label # "remove"
      BY <1>6, <3>1 DEF UnRegisterRemove, At
    <3> QED BY <1>0, <3>1, <3>2, LeavingRemove
  <2>2. keyList' = RemovedList /\ ~RemovePanics /\ nodes' = nodes
    BY <1>6 DEF UnRegisterRemove
  <2>3. Len(keyList') = Len(keyList) - 1
    BY <1>0, <2>2, Removal DEF TypeInv, TypeOK
  <2>4. Cardinality(Removing') = Cardinality(Removing) - 1
    BY <1>0, <2>1, FS_RemoveElement
  <2> QED BY <1>0, <2>1, <2>2, <2>3, <2>4 DEF Imbalance
<1>7. ASSUME NEW p \in Procs, UnRegisterPanic(p)
      PROVE  Imbalance' = Imbalance /\ IsFiniteSet(nodes')
  BY <1>7, <1>same DEF UnRegisterPanic, poller, Same, Appending, Removing
<1>8. ASSUME NEW p \in Procs, DispatchJob(p)
      PROVE  Imbalance' = Imbalance /\ IsFiniteSet(nodes')
  <2>1. /\ pc[p] \in {"pick", "load", "getjob", "store", "put"}
        /\ nodes' = nodes /\ keyList' = keyList
    BY <1>8 DEF DispatchJob, DispatchPick, DispatchNoKeys, DispatchLoad, GetJobFails,
                SendJobLoad, SendJobStore, PutExecute, At, poller
  <2>2. \E label \in {"pick", "load", "getjob", "store", "put", "idle"} :
          pc' = [pc EXCEPT ![p] = label]
    BY <1>8 DEF DispatchJob, DispatchPick, DispatchNoKeys, DispatchLoad, GetJobFails,
                SendJobLoad, SendJobStore, PutExecute, Retry, Return, Goto
  <2>3. Same
    BY <1>0, <2>1, <2>2, OtherLabels DEF Same
  <2> QED BY <1>same, <2>1, <2>3
<1>9. ASSUME NEW c \in Callers, NEW j \in Jobs, StartDispatch(c, j)
      PROVE  Imbalance' = Imbalance /\ IsFiniteSet(nodes')
  <2>1. Same
    BY <1>0, <1>9, OtherLabels DEF StartDispatch, At, Goto, Same
  <2> QED BY <1>9, <1>same, <2>1 DEF StartDispatch, poller
<1>10. ASSUME NEW j \in Jobs, CancelJob(j)
       PROVE  Imbalance' = Imbalance /\ IsFiniteSet(nodes')
  BY <1>10, <1>same DEF CancelJob, poller, Same, Appending, Removing
<1>11. ASSUME NEW m \in cancels, CancelSent(m)
       PROVE  Imbalance' = Imbalance /\ IsFiniteSet(nodes')
  BY <1>11, <1>same DEF CancelSent, poller, Same, Appending, Removing
<1>12. ASSUME NEW m \in cancels, SendJobError(m)
       PROVE  Imbalance' = Imbalance /\ IsFiniteSet(nodes')
  <2>1. Same
    <3>1. pc["err"] = "idle" /\ \E label \in {"delete", "pick"} : pc' = [pc EXCEPT !["err"] = label]
      BY <1>12 DEF SendJobError, At, Goto
    <3> QED BY <1>0, <3>1, OtherLabels DEF Same
  <2> QED BY <1>12, <1>same, <2>1 DEF SendJobError, poller
<1>13. ASSUME UNCHANGED vars
       PROVE  Imbalance' = Imbalance /\ IsFiniteSet(nodes')
  BY <1>13, <1>same DEF vars, Same, Appending, Removing
<1> QED
  BY <1>1, <1>2, <1>3, <1>4, <1>5, <1>6, <1>7, <1>8, <1>9, <1>10, <1>11, <1>12, <1>13
  DEF Next, MsgLoop, UnRegister

LEMMA RolesStep == TypeInv /\ Roles /\ [Next]_vars => Roles'
<1> SUFFICES ASSUME TypeInv, Roles, [Next]_vars PROVE Roles'
  OBVIOUS
<1>0. pc \in [Procs -> Pcs]
  BY DEF TypeInv, TypeOK
<1>1. ASSUME NEW k \in Keys, RegisterStore(k) \/ PingLoad(k) \/ UnRegisterLoad(k) PROVE Roles'
  BY <1>0, <1>1 DEF Roles, RegisterStore, PingLoad, UnRegisterLoad, Goto
<1>2. ASSUME RegisterAppend \/ PingStore PROVE Roles'
  BY <1>0, <1>2 DEF Roles, RegisterAppend, PingStore, Return, Goto
<1>3. ASSUME NEW p \in Procs, UnRegister(p) PROVE Roles'
  <2>1. CASE UnRegisterDelete(p)
    BY <1>0, <2>1 DEF Roles, UnRegisterDelete, At, Goto
  <2>2. CASE UnRegisterRemove(p)
    <3>1. PICK label \in {"pick", "idle"} : pc' = [pc EXCEPT ![p] = label]
      BY <2>2 DEF UnRegisterRemove, Goto, Return
    <3> QED BY <1>0, <3>1 DEF Roles
  <2>3. CASE UnRegisterPanic(p)
    BY <2>3 DEF Roles, UnRegisterPanic
  <2> QED BY <1>3, <2>1, <2>2, <2>3 DEF UnRegister
<1>4. ASSUME NEW p \in Procs, DispatchJob(p) PROVE Roles'
  <2>1. PICK label \in {"pick", "load", "getjob", "store", "put", "idle"} :
          pc' = [pc EXCEPT ![p] = label]
    BY <1>4 DEF DispatchJob, DispatchPick, DispatchNoKeys, DispatchLoad, GetJobFails,
                SendJobLoad, SendJobStore, PutExecute, Retry, Return, Goto
  <2> QED BY <1>0, <2>1 DEF Roles
<1>5. ASSUME NEW c \in Callers, NEW j \in Jobs, StartDispatch(c, j) PROVE Roles'
  BY <1>0, <1>5 DEF Roles, StartDispatch, Goto
<1>6. ASSUME NEW j \in Jobs, CancelJob(j) PROVE Roles'
  BY <1>6 DEF Roles, CancelJob
<1>7. ASSUME NEW m \in cancels, CancelSent(m) PROVE Roles'
  BY <1>7 DEF Roles, CancelSent
<1>8. ASSUME NEW m \in cancels, SendJobError(m) PROVE Roles'
  <2>1. PICK label \in {"delete", "pick"} : pc' = [pc EXCEPT !["err"] = label]
    BY <1>8 DEF SendJobError, Goto
  <2> QED BY <1>0, <2>1 DEF Roles
<1>9. ASSUME UNCHANGED vars PROVE Roles'
  BY <1>9 DEF Roles, vars
<1> QED
  BY <1>1, <1>2, <1>3, <1>4, <1>5, <1>6, <1>7, <1>8, <1>9 DEF Next, MsgLoop

LEMMA SlotInit == Init => SlotInv /\ NoSurplusSlots
<1> SUFFICES ASSUME Init PROVE SlotInv /\ NoSurplusSlots
  OBVIOUS
<1>1. TypeInv
  BY TypeInit
<1>2. Roles
  BY DEF Init, Roles
<1>3. IsFiniteSet(nodes) /\ Cardinality(nodes) = 0
  BY FS_EmptySet DEF Init
<1>4. Appending = {} /\ Removing = {} /\ Len(keyList) = 0
  BY DEF Init, Appending, Removing
<1>5. NoSurplusSlots
  BY <1>3, <1>4, FS_EmptySet DEF NoSurplusSlots
<1> QED BY <1>1, <1>2, <1>3, <1>5 DEF SlotInv

(* The numbers both sides of the balance are made of.                      *)
Numbers ==
  /\ Cardinality(nodes) \in Nat /\ Cardinality(Removing) \in Nat
  /\ Cardinality(Appending) \in Nat /\ Len(keyList) \in Nat

LEMMA SidesAreNumbers == SlotInv => Numbers
BY FiniteSides, FS_CardinalityType, LenProperties DEF Numbers, SlotInv, TypeInv, TypeOK

LEMMA SlotStep == SlotInv /\ NoSurplusSlots /\ [Next]_vars => SlotInv' /\ NoSurplusSlots'
<1> SUFFICES ASSUME SlotInv, NoSurplusSlots, [Next]_vars PROVE SlotInv' /\ NoSurplusSlots'
  OBVIOUS
<1>1. SlotInv'
  BY TypeStep, RolesStep, BalanceStep DEF SlotInv
<1>2. (Imbalance' = Imbalance \/ Imbalance' = Imbalance + 1)
  BY BalanceStep DEF Widened
<1>3. Numbers
  BY SidesAreNumbers
<1>4. Numbers'
  BY <1>1, SidesAreNumbers, PTL
<1> QED BY <1>1, <1>2, <1>3, <1>4 DEF Imbalance, NoSurplusSlots, Numbers

(* However registrations, heartbeats, sign-offs and failures interleave,   *)
(* the poller never holds more slots than there are registered nodes       *)
(* (dispatcher.go:84-142), for any number of nodes and callers.            *)
THEOREM SlotsBounded == Spec => []NoSurplusSlots
<1> QED BY SlotInit, SlotStep, PTL DEF Spec

(* A registered node loses its slot only in the two races: a heartbeat     *)
(* stored after a delete, or a second unRegister of the same key.          *)
THEOREM BalanceKept == Spec => OnlyRacesLoseSlots
<1>1. SlotInv /\ [Next]_vars
        => [Imbalance' # Imbalance =>
              \/ PingStore /\ key["msg"] \notin nodes
              \/ \E p \in Procs : UnRegisterDelete(p) /\ key[p] \notin nodes]_vars
  BY BalanceStep DEF Races
<1> QED BY <1>1, SlotInit, SlotStep, PTL DEF Spec, OnlyRacesLoseSlots

-----------------------------------------------------------------------------
(* What JobNodeMap records.                                                *)

(* An EXECUTE of job j has been, or is just being, handed out to node k.   *)
Accounted(j, k) ==
  \/ <<j, k>> \in sent
  \/ \E p \in Procs : pc[p] = "put" /\ frame[p].job = j /\ key[p] = k

(* The same in the next state, for arguments that are read before the step. *)
AccountedNext(j, k) ==
  \/ <<j, k>> \in sent'
  \/ \E p \in Procs : pc'[p] = "put" /\ frame'[p].job = j /\ key'[p] = k

(* RecordedWasSent alone is not inductive: a list that SendJob has loaded  *)
(* and not yet stored back must be accounted for as well.                  *)
RecordInv ==
  /\ \A j \in Jobs : \A k \in ToSet(jobNodes[j]) : Accounted(j, k)
  /\ \A p \in Procs : pc[p] = "store" => \A k \in ToSet(frame[p].seen) : Accounted(frame[p].job, k)

(* A step that forgets no EXECUTE and keeps every goroutine that is about  *)
(* to hand one out keeps what is accounted for.                            *)
Keeps ==
  /\ sent \subseteq sent'
  /\ \A p \in Procs : pc[p] = "put" =>
       \/ pc'[p] = "put" /\ frame'[p] = frame[p] /\ key'[p] = key[p]
       \/ <<frame[p].job, key[p]>> \in sent'

LEMMA AppendedSet ==
  ASSUME NEW S, NEW s \in Seq(S), NEW e \in S
  PROVE  ToSet(Append(s, e)) = ToSet(s) \union {e}
BY AppendProperties, LenProperties DEF ToSet

LEMMA AccountedStays ==
  ASSUME Keeps, NEW j, NEW k, Accounted(j, k)
  PROVE  AccountedNext(j, k)
BY DEF Keeps, Accounted, AccountedNext

LEMMA KeepsStep ==
  ASSUME TypeInv, [Next]_vars
  PROVE  Keeps
<1>0. /\ pc \in [Procs -> Pcs] /\ key \in [Procs -> Keys \union {NoKey}]
      /\ frame \in [Procs -> Frames]
  BY DEF TypeInv, TypeOK, Frames
<1>p. "msg" \in Procs /\ "err" \in Procs /\ Callers \subseteq Procs
  BY DEF Procs
<1> DEFINE Moves(p) == /\ pc[p] # "put" /\ sent' = sent
                       /\ \A q \in Procs \ {p} :
                            pc'[q] = pc[q] /\ frame'[q] = frame[q] /\ key'[q] = key[q]
<1>m. ASSUME NEW p \in Procs, Moves(p) PROVE Keeps
  BY <1>m DEF Keeps
<1>1. ASSUME NEW k \in Keys, RegisterStore(k) \/ PingLoad(k) \/ UnRegisterLoad(k) PROVE Keeps
  <2>1. Moves("msg")
    BY <1>0, <1>p, <1>1 DEF RegisterStore, PingLoad, UnRegisterLoad, At, Goto, messages
  <2> QED BY <1>m, <1>p, <2>1
<1>2. ASSUME RegisterAppend \/ PingStore PROVE Keeps
  <2>1. Moves("msg")
    BY <1>0, <1>p, <1>2 DEF RegisterAppend, PingStore, At, Return, Goto, messages
  <2> QED BY <1>m, <1>p, <2>1
<1>3. ASSUME NEW p \in Procs, UnRegister(p) PROVE Keeps
  <2>1. CASE UnRegisterDelete(p) \/ UnRegisterPanic(p)
    <3>1. Moves(p)
      BY <1>0, <2>1 DEF UnRegisterDelete, UnRegisterPanic, At, Goto, messages
    <3> QED BY <1>m, <3>1
  <2>2. CASE UnRegisterRemove(p)
    <3>1. Moves(p)
      BY <1>0, <2>2 DEF UnRegisterRemove, At, Return, Goto, messages
    <3> QED BY <1>m, <3>1
  <2> QED BY <1>3, <2>1, <2>2 DEF UnRegister
<1>4. ASSUME NEW p \in Procs, DispatchJob(p) PROVE Keeps
  <2>1. CASE DispatchPick(p) \/ DispatchNoKeys(p) \/ DispatchLoad(p) \/ GetJobFails(p)
    <3>1. Moves(p)
      BY <1>0, <2>1 DEF DispatchPick, DispatchNoKeys, DispatchLoad, GetJobFails,
                        At, Retry, Return, Goto, messages
    <3> QED BY <1>m, <3>1
  <2>2. CASE SendJobLoad(p) \/ SendJobStore(p)
    <3>1. Moves(p)
      BY <1>0, <2>2 DEF SendJobLoad, SendJobStore, At, Goto, messages
    <3> QED BY <1>m, <3>1
  <2>3. CASE PutExecute(p)
    BY <1>0, <2>3 DEF Keeps, PutExecute, At, Return, Goto
  <2> QED BY <1>4, <2>1, <2>2, <2>3 DEF DispatchJob
<1>5. ASSUME NEW c \in Callers, NEW j \in Jobs, StartDispatch(c, j) PROVE Keeps
  <2>1. Moves(c)
    BY <1>0, <1>p, <1>5 DEF StartDispatch, At, Goto, messages
  <2> QED BY <1>m, <1>p, <2>1
<1>6. ASSUME NEW j \in Jobs, CancelJob(j) PROVE Keeps
  BY <1>6 DEF Keeps, CancelJob
<1>7. ASSUME NEW m \in cancels, CancelSent(m) PROVE Keeps
  BY <1>7 DEF Keeps, CancelSent
<1>8. ASSUME NEW m \in cancels, SendJobError(m) PROVE Keeps
  <2>1. Moves("err")
    BY <1>0, <1>p, <1>8 DEF SendJobError, At, Goto
  <2> QED BY <1>m, <1>p, <2>1
<1>9. ASSUME UNCHANGED vars PROVE Keeps
  BY <1>9 DEF Keeps, vars
<1> QED
  BY <1>1, <1>2, <1>3, <1>4, <1>5, <1>6, <1>7, <1>8, <1>9 DEF Next, MsgLoop

LEMMA RecordStep == TypeInv /\ RecordInv /\ [Next]_vars => RecordInv'
<1> SUFFICES ASSUME TypeInv, RecordInv, [Next]_vars PROVE RecordInv'
  OBVIOUS
<1>0. /\ pc \in [Procs -> Pcs] /\ key \in [Procs -> Keys \union {NoKey}]
      /\ frame \in [Procs -> Frames] /\ jobNodes \in [Jobs -> Seq(Keys)]
  BY DEF TypeInv, TypeOK, Frames
<1>k. Keeps
  BY KeepsStep
<1>q. ASSUME \A j \in Jobs : \A k \in ToSet(jobNodes'[j]) : AccountedNext(j, k),
             \A p \in Procs : pc'[p] = "store" =>
               \A k \in ToSet(frame'[p].seen) : AccountedNext(frame'[p].job, k)
      PROVE  RecordInv'
  BY <1>q DEF RecordInv, Accounted, AccountedNext
<1>j. ASSUME jobNodes' = jobNodes
      PROVE  \A j \in Jobs : \A k \in ToSet(jobNodes'[j]) : AccountedNext(j, k)
  BY <1>j, <1>k, AccountedStays DEF RecordInv
<1>s. ASSUME NEW p \in Procs, pc[p] = "store", frame'[p] = frame[p]
      PROVE  \A k \in ToSet(frame'[p].seen) : AccountedNext(frame'[p].job, k)
  <2> SUFFICES ASSUME NEW k \in ToSet(frame[p].seen) PROVE AccountedNext(frame[p].job, k)
    BY <1>s
  <2>1. Accounted(frame[p].job, k)
    BY <1>s DEF RecordInv
  <2> QED BY <1>k, <2>1, AccountedStays
<1> DEFINE Frozen == \A p \in Procs : pc'[p] = "store" => pc[p] = "store" /\ frame'[p] = frame[p]
<1>f. ASSUME jobNodes' = jobNodes, Frozen PROVE RecordInv'
  BY <1>f, <1>j, <1>q, <1>s
<1>1. ASSUME NEW p \in Procs, SendJobLoad(p) PROVE RecordInv'
  <2>1. /\ frame' = [frame EXCEPT ![p].seen = jobNodes[frame[p].job]]
        /\ pc' = [pc EXCEPT ![p] = "store"] /\ jobNodes' = jobNodes
        /\ pc[p] = "getjob"
    BY <1>1 DEF SendJobLoad, At, Goto, messages
  <2>2. frame[p].job \in Jobs
    BY <2>1 DEF TypeInv, Held
  <2>3. \A k \in ToSet(jobNodes[frame[p].job]) : AccountedNext(frame[p].job, k)
    <3> SUFFICES ASSUME NEW k \in ToSet(jobNodes[frame[p].job])
                 PROVE  AccountedNext(frame[p].job, k)
      OBVIOUS
    <3>1. Accounted(frame[p].job, k)
      BY <2>2 DEF RecordInv
    <3> QED BY <1>k, <3>1, AccountedStays
  <2>4. frame'[p].seen = jobNodes[frame[p].job] /\ frame'[p].job = frame[p].job
    BY <1>0, <2>1 DEF Frames
  <2>5. ASSUME NEW q \in Procs, pc'[q] = "store"
        PROVE  \A k \in ToSet(frame'[q].seen) : AccountedNext(frame'[q].job, k)
    <3>1. CASE q = p
      BY <2>3, <2>4, <3>1
    <3>2. CASE q # p
      <4>1. pc[q] = "store" /\ frame'[q] = frame[q]
        BY <1>0, <2>1, <2>5, <3>2
      <4> QED BY <1>s, <4>1
    <3> QED BY <3>1, <3>2
  <2> QED BY <1>j, <1>q, <2>1, <2>5
<1>2. ASSUME NEW p \in Procs, SendJobStore(p) PROVE RecordInv'
  <2>1. /\ jobNodes' = [jobNodes EXCEPT ![frame[p].job] = Append(frame[p].seen, key[p])]
        /\ pc' = [pc EXCEPT ![p] = "put"] /\ frame' = frame /\ key' = key
        /\ pc[p] = "store"
    BY <1>2 DEF SendJobStore, At, Goto
  <2>2. frame[p].seen \in Seq(Keys) /\ key[p] \in Keys
    BY <1>0, <2>1 DEF Frames, TypeInv, Held
  <2>3. ToSet(Append(frame[p].seen, key[p])) = ToSet(frame[p].seen) \union {key[p]}
    BY <2>2, AppendedSet
  <2>4. AccountedNext(frame[p].job, key[p])
    BY <1>0, <2>1 DEF AccountedNext
  <2>5. \A k \in ToSet(frame[p].seen) : AccountedNext(frame[p].job, k)
    BY <1>s, <2>1
  <2>6. ASSUME NEW j \in Jobs
        PROVE  \A k \in ToSet(jobNodes'[j]) : AccountedNext(j, k)
    <3>1. CASE j = frame[p].job
      <4>1. jobNodes'[j] = Append(frame[p].seen, key[p])
        BY <1>0, <2>1, <3>1
      <4> QED BY <2>3, <2>4, <2>5, <3>1, <4>1
    <3>2. CASE j # frame[p].job
      <4>1. jobNodes'[j] = jobNodes[j]
        BY <1>0, <2>1, <3>2
      <4> QED BY <1>k, <4>1, AccountedStays DEF RecordInv
    <3> QED BY <3>1, <3>2
  <2>7. ASSUME NEW q \in Procs, pc'[q] = "store"
        PROVE  \A k \in ToSet(frame'[q].seen) : AccountedNext(frame'[q].job, k)
    <3>1. pc[q] = "store" /\ frame'[q] = frame[q]
      BY <1>0, <2>1, <2>7
    <3> QED BY <1>s, <3>1
  <2> QED BY <1>q, <2>6, <2>7
<1>3. ASSUME NEW k \in Keys, RegisterStore(k) \/ PingLoad(k) \/ UnRegisterLoad(k) PROVE RecordInv'
  BY <1>0, <1>3, <1>f DEF RegisterStore, PingLoad, UnRegisterLoad, Goto, messages
<1>4. ASSUME RegisterAppend \/ PingStore PROVE RecordInv'
  <2>1. jobNodes' = jobNodes /\ Frozen
    BY <1>0, <1>4 DEF RegisterAppend, PingStore, Return, Goto, messages
  <2> QED BY <1>f, <2>1
<1>5. ASSUME NEW p \in Procs, UnRegister(p) PROVE RecordInv'
  <2>1. jobNodes' = jobNodes /\ Frozen
    BY <1>0, <1>5 DEF UnRegister, UnRegisterDelete, UnRegisterRemove, UnRegisterPanic,
                      Return, Goto, messages
  <2> QED BY <1>f, <2>1
<1>6. ASSUME NEW p \in Procs,
             DispatchPick(p) \/ DispatchNoKeys(p) \/ DispatchLoad(p) \/ GetJobFails(p) \/ PutExecute(p)
      PROVE  RecordInv'
  <2>1. jobNodes' = jobNodes /\ Frozen
    BY <1>0, <1>6 DEF DispatchPick, DispatchNoKeys, DispatchLoad, GetJobFails, PutExecute,
                      Retry, Return, Goto, messages
  <2> QED BY <1>f, <2>1
<1>7. ASSUME NEW c \in Callers, NEW j \in Jobs, StartDispatch(c, j) PROVE RecordInv'
  <2>1. jobNodes' = jobNodes /\ Frozen
    BY <1>0, <1>7 DEF StartDispatch, Goto, messages
  <2> QED BY <1>f, <2>1
<1>8. ASSUME NEW j \in Jobs, CancelJob(j) PROVE RecordInv'
  BY <1>8, <1>f DEF CancelJob
<1>9. ASSUME NEW m \in cancels, CancelSent(m) PROVE RecordInv'
  BY <1>9, <1>f DEF CancelSent
<1>10. ASSUME NEW m \in cancels, SendJobError(m) PROVE RecordInv'
  <2>1. jobNodes' = jobNodes /\ Frozen
    BY <1>0, <1>10 DEF SendJobError, Goto
  <2> QED BY <1>f, <2>1
<1>11. ASSUME UNCHANGED vars PROVE RecordInv'
  BY <1>11, <1>f DEF vars
<1> QED
  BY <1>1, <1>2, <1>3, <1>4, <1>5, <1>6, <1>7, <1>8, <1>9, <1>10, <1>11
  DEF Next, MsgLoop, DispatchJob

LEMMA RecordInit == Init => RecordInv
<1> SUFFICES ASSUME Init PROVE RecordInv
  OBVIOUS
<1>1. ToSet(<<>>) = {}
  BY DEF ToSet
<1> QED BY <1>1 DEF Init, RecordInv

(* A node in JobNodeMap has been handed the job (dispatcher.go:168-172):   *)
(* the CANCEL of engine_master.go:188 never goes to a node that was merely *)
(* considered.                                                             *)
THEOREM RecordsAreSent == Spec => []RecordedWasSent
<1>1. RecordInv => RecordedWasSent
  BY DEF RecordInv, RecordedWasSent, Accounted
<1> QED BY <1>1, TypeInit, TypeStep, RecordInit, RecordStep, PTL DEF Spec
=============================================================================
