----------------------------- MODULE LinkProofs -----------------------------
(***************************************************************************)
(* Proofs about Link: with any number of workers, jobs, callers and        *)
(* connections, and channels of any capacity, a job that nobody cancelled  *)
(* runs on one worker at most, and the server sends on no stream that has  *)
(* ended.                                                                  *)
(*                                                                         *)
(* That a job has one runner is not inductive: it has one because there is *)
(* one EXECUTE for it, in one place at a time.  CopyInv follows that copy  *)
(* from the goroutine that puts it through SendMsgChan and a stream to the *)
(* worker that runs it; the error loop makes a second copy, but only for a *)
(* job of a CANCEL that failed, and CancelInv keeps those apart.           *)
(***************************************************************************)
EXTENDS Link, FiniteSetTheorems, SequenceTheorems, TLAPS

\* What travels down, up and back as an error.
Orders == [type : {"EXECUTE", "CANCEL", "STATUS"}, key : Keys, job : Jobs]
Reports == [type : {"REGISTER", "HEARTBEAT"}, key : Keys, job : {NoJob}]
             \union [type : {"RESULT"}, key : Keys, job : Jobs]
Failed == [type : {"CANCEL"}, key : Keys, job : Jobs] \union {Message("error", NoKey, NoJob)}

ChannelTypes ==
  /\ sendQ \in Seq(Orders) /\ recvQ \in Seq(Reports) /\ errorQ \in Seq(Failed) /\ statusQ \in Seq(Jobs)
  /\ Len(sendQ) <= SendCap /\ Len(errorQ) <= ErrorCap /\ Len(statusQ) <= StatusCap
  /\ sender \in Failed \union {Nothing} /\ putting \in [Putters -> Orders \union {Nothing}]
RegistryTypes == slots \subseteq Keys /\ nodes \subseteq Keys /\ jobNode \in [Jobs -> Keys \union {NoKey}]
StreamTypes ==
  /\ conns \in [Keys -> AnyStream] /\ \A k \in Keys : conns[k] # NoStream => conns[k][1] = k
  /\ chat \subseteq Streams
  /\ upQ \in [Streams -> Seq(Reports)] /\ downQ \in [Streams -> Seq(Orders)]
WorkerTypes ==
  /\ gen \in [Keys -> Nat] /\ \A k \in Keys : gen[k] <= MaxStreams[k]
  /\ up \subseteq Keys /\ \A k \in up : gen[k] # 0
  /\ running \in [Keys -> SUBSET Jobs]

\* TypeOK with the kinds of message each channel carries.
TypeInv == ChannelTypes /\ RegistryTypes /\ StreamTypes /\ WorkerTypes

\* The places where the one copy of an execution may be.
Is(m, j) == m.type = "EXECUTE" /\ m.job = j
Has(q, j) == \E i \in DOMAIN q : Is(q[i], j)
Once(q, j) == \A a, b \in DOMAIN q : Is(q[a], j) /\ Is(q[b], j) => a = b

Places == ({"put"} \X Putters) \union {<<"send", "queue">>}
            \union ({"down"} \X Streams) \union ({"run"} \X Keys)
At(w, j) ==
  \/ w[1] = "put" /\ Is(putting[w[2]], j)
  \/ w[1] = "send" /\ Has(sendQ, j)
  \/ w[1] = "down" /\ Has(downQ[w[2]], j)
  \/ w[1] = "run" /\ j \in running[w[2]]

OneCopy(j) ==
  /\ \A v, w \in Places : At(v, j) /\ At(w, j) => v = w
  /\ Once(sendQ, j) /\ \A s \in Streams : Once(downQ[s], j)
  /\ j \notin asked => \A w \in Places : ~At(w, j)

\* There is one copy of an execution that nobody has cancelled.
CopyInv == \A j \in Jobs \ cancelled : OneCopy(j)

\* A CANCEL is for a job that was cancelled, until the error loop has it.
Excused(m) == m.type = "CANCEL" => m.job \in cancelled
CancelInv ==
  /\ \A p \in Putters : Excused(putting[p])
  /\ \A i \in DOMAIN sendQ : Excused(sendQ[i])
  /\ \A i \in DOMAIN errorQ : Excused(errorQ[i])
  /\ Excused(sender)

IInv == TypeInv /\ ConnsAreOpen /\ CancelInv /\ CopyInv

-----------------------------------------------------------------------------
(* Messages and queues.                                                    *)

LEMMA OrderMade ==
  ASSUME NEW t \in {"EXECUTE", "CANCEL", "STATUS"}, NEW k \in Keys, NEW j \in Jobs
  PROVE  /\ Message(t, k, j) \in Orders
         /\ Message(t, k, j).type = t /\ Message(t, k, j).key = k /\ Message(t, k, j).job = j
  BY DEF Message, Orders

LEMMA OrderHas ==
  ASSUME NEW m \in Orders
  PROVE  /\ m.type \in {"EXECUTE", "CANCEL", "STATUS"} /\ m.key \in Keys /\ m.job \in Jobs
         /\ m # Nothing
  BY DEF Message, Orders, Nothing

LEMMA FailedHas ==
  ASSUME NEW m \in Failed
  PROVE  /\ m.type \in {"CANCEL", "error"} /\ m # Nothing
         /\ m.type = "CANCEL" => m.key \in Keys /\ m.job \in Jobs
  BY DEF Message, Failed, Nothing

LEMMA ReportMade ==
  ASSUME NEW k \in Keys
  PROVE  /\ Message("REGISTER", k, NoJob) \in Reports
         /\ Message("HEARTBEAT", k, NoJob) \in Reports
         /\ \A j \in Jobs : Message("RESULT", k, j) \in Reports
  BY DEF Message, Reports

LEMMA ReportHas ==
  ASSUME NEW m \in Reports
  PROVE  m.key \in Keys /\ (m.type = "RESULT" => m.job \in Jobs)
  BY DEF Reports

LEMMA NothingIs == Nothing.type = "none" /\ \A j \in Jobs : ~Is(Nothing, j)
  BY DEF Nothing, Message, Is

LEMMA Appended ==
  ASSUME NEW S, NEW q \in Seq(S), NEW e \in S
  PROVE  /\ Append(q, e) \in Seq(S) /\ Len(Append(q, e)) = Len(q) + 1
         /\ DOMAIN q = 1 .. Len(q) /\ Len(q) \in Nat
         /\ DOMAIN Append(q, e) = 1 .. Len(q) + 1
         /\ \A i \in DOMAIN q : Append(q, e)[i] = q[i]
         /\ Append(q, e)[Len(q) + 1] = e
  OBVIOUS

LEMMA Tailed ==
  ASSUME NEW S, NEW q \in Seq(S), q # <<>>
  PROVE  /\ Tail(q) \in Seq(S) /\ Len(Tail(q)) = Len(q) - 1
         /\ Head(q) \in S /\ Head(q) = q[1] /\ 1 \in DOMAIN q
         /\ Len(q) \in Nat \ {0} /\ DOMAIN q = 1 .. Len(q)
         /\ DOMAIN Tail(q) = 1 .. Len(q) - 1
         /\ \A i \in DOMAIN Tail(q) : i + 1 \in DOMAIN q /\ Tail(q)[i] = q[i + 1]
  OBVIOUS

\* A queue with one more message has the copies it had and that one.
LEMMA CopyAppended ==
  ASSUME NEW S, NEW q \in Seq(S), NEW e \in S, NEW j
  PROVE  /\ Has(Append(q, e), j) => Has(q, j) \/ Is(e, j)
         /\ Once(q, j) /\ ~(Has(q, j) /\ Is(e, j)) => Once(Append(q, e), j)
  <1> DEFINE r == Append(q, e)
             n == Len(q) + 1
  <1>1. /\ DOMAIN r = 1 .. n /\ DOMAIN q = 1 .. Len(q) /\ Len(q) \in Nat
        /\ (\A i \in DOMAIN q : r[i] = q[i]) /\ r[n] = e
    BY Appended
  <1> HIDE DEF r
  <1>2. \A i \in DOMAIN r : i \in DOMAIN q \/ i = n
    BY <1>1
  <1>3. Has(r, j) => Has(q, j) \/ Is(e, j)
    BY <1>1, <1>2 DEF Has
  <1>4. ASSUME Once(q, j), ~(Has(q, j) /\ Is(e, j))
        PROVE  Once(r, j)
    BY <1>1, <1>2, <1>4 DEF Once, Has
  <1> QED
    BY <1>3, <1>4 DEF r

\* A queue that gave up its head keeps no copy of what the head was.
LEMMA CopyTailed ==
  ASSUME NEW S, NEW q \in Seq(S), q # <<>>, NEW j
  PROVE  /\ Has(Tail(q), j) => Has(q, j)
         /\ Is(Head(q), j) => Has(q, j)
         /\ Once(q, j) => Once(Tail(q), j)
         /\ Once(q, j) /\ Is(Head(q), j) => ~Has(Tail(q), j)
  <1> DEFINE r == Tail(q)
             n == Len(q)
  <1>1. /\ Head(q) = q[1] /\ 1 \in DOMAIN q
        /\ n \in Nat \ {0} /\ DOMAIN q = 1 .. n /\ DOMAIN r = 1 .. n - 1
        /\ \A i \in DOMAIN r : i + 1 \in DOMAIN q /\ r[i] = q[i + 1]
    BY Tailed
  <1> HIDE DEF r, n
  <1>2. \A a, b \in DOMAIN r : a + 1 = b + 1 => a = b
    BY <1>1
  <1>3. \A a \in DOMAIN r : a + 1 # 1
    BY <1>1
  <1>4. Has(r, j) => Has(q, j)
    BY <1>1 DEF Has
  <1>5. Is(Head(q), j) => Has(q, j)
    BY <1>1 DEF Has
  <1>6. Once(q, j) => Once(r, j)
    BY <1>1, <1>2 DEF Once
  <1>7. Once(q, j) /\ Is(Head(q), j) => ~Has(r, j)
    BY <1>1, <1>3 DEF Once, Has
  <1> QED
    BY <1>4, <1>5, <1>6, <1>7 DEF r

LEMMA NothingQueued == \A j : ~Has(<<>>, j) /\ Once(<<>>, j)
  BY DEF Has, Once

-----------------------------------------------------------------------------
(* Where the copy is, before and after a step.                             *)

LEMMA AtPut ==
  ASSUME NEW p \in Putters, NEW j
  PROVE  /\ <<"put", p>> \in Places
         /\ At(<<"put", p>>, j) <=> Is(putting[p], j)
         /\ At(<<"put", p>>, j)' <=> Is(putting'[p], j)
  BY DEF Places, At

LEMMA AtSend ==
  ASSUME NEW j
  PROVE  /\ <<"send", "queue">> \in Places
         /\ At(<<"send", "queue">>, j) <=> Has(sendQ, j)
         /\ At(<<"send", "queue">>, j)' <=> Has(sendQ', j)
  BY DEF Places, At

LEMMA AtDown ==
  ASSUME NEW s \in Streams, NEW j
  PROVE  /\ <<"down", s>> \in Places
         /\ At(<<"down", s>>, j) <=> Has(downQ[s], j)
         /\ At(<<"down", s>>, j)' <=> Has(downQ'[s], j)
  BY DEF Places, At

LEMMA AtRun ==
  ASSUME NEW k \in Keys, NEW j
  PROVE  /\ <<"run", k>> \in Places
         /\ At(<<"run", k>>, j) <=> j \in running[k]
         /\ At(<<"run", k>>, j)' <=> j \in running'[k]
  BY DEF Places, At

LEMMA PlaceIs ==
  ASSUME NEW w \in Places
  PROVE  \/ \E p \in Putters : w = <<"put", p>>
         \/ w = <<"send", "queue">>
         \/ \E s \in Streams : w = <<"down", s>>
         \/ \E k \in Keys : w = <<"run", k>>
  BY DEF Places

\* A step that makes no copy.
LEMMA CopyKept ==
  ASSUME NEW j, OneCopy(j), asked \subseteq asked',
         \A p \in Putters : Is(putting'[p], j) => Is(putting[p], j),
         Has(sendQ', j) => Has(sendQ, j),
         \A s \in Streams : Has(downQ'[s], j) => Has(downQ[s], j),
         \A k \in Keys : j \in running'[k] => j \in running[k],
         Once(sendQ', j), \A s \in Streams : Once(downQ'[s], j)
  PROVE  OneCopy(j)'
  <1>1. ASSUME NEW w \in Places PROVE At(w, j)' => At(w, j)
    <2>1. ASSUME NEW p \in Putters, w = <<"put", p>> PROVE At(w, j)' => At(w, j)
      BY <2>1, AtPut
    <2>2. CASE w = <<"send", "queue">>
      BY <2>2, AtSend
    <2>3. ASSUME NEW s \in Streams, w = <<"down", s>> PROVE At(w, j)' => At(w, j)
      BY <2>3, AtDown
    <2>4. ASSUME NEW k \in Keys, w = <<"run", k>> PROVE At(w, j)' => At(w, j)
      BY <2>4, AtRun
    <2> QED
      BY <2>1, <2>2, <2>3, <2>4, PlaceIs
  <1>2. (\A v, w \in Places : At(v, j) /\ At(w, j) => v = w)'
    BY <1>1 DEF OneCopy, Places, Streams
  <1>3. (j \notin asked => \A w \in Places : ~At(w, j))'
    BY <1>1 DEF OneCopy, Places, Streams
  <1> QED
    BY <1>2, <1>3 DEF OneCopy, Streams

\* A step that takes the copy from a to b, or loses it on the way.
LEMMA CopyMoved ==
  ASSUME NEW j, OneCopy(j), asked \subseteq asked',
         NEW a \in Places, NEW b \in Places, At(a, j), ~At(a, j)',
         \A w \in Places : At(w, j)' => At(w, j) \/ w = b,
         Once(sendQ', j), \A s \in Streams : Once(downQ'[s], j)
  PROVE  OneCopy(j)'
  <1>1. ASSUME NEW w \in Places, At(w, j)' PROVE w = b
    BY <1>1 DEF OneCopy
  <1>2. (\A v, w \in Places : At(v, j) /\ At(w, j) => v = w)'
    BY <1>1 DEF Places, Streams
  <1>3. j \in asked
    BY DEF OneCopy
  <1> QED
    BY <1>2, <1>3 DEF OneCopy, Streams

\* The first copy.
LEMMA CopyMade ==
  ASSUME NEW j, OneCopy(j), j \notin asked, j \in asked', NEW p \in Putters,
         \A q \in Putters \ {p} : Is(putting'[q], j) => Is(putting[q], j),
         UNCHANGED <<sendQ, downQ, running>>
  PROVE  OneCopy(j)'
  <1>1. ASSUME NEW w \in Places PROVE ~At(w, j)
    BY <1>1 DEF OneCopy
  <1>2. ASSUME NEW w \in Places, At(w, j)' PROVE w = <<"put", p>>
    <2>1. ASSUME NEW q \in Putters, w = <<"put", q>> PROVE w = <<"put", p>>
      BY <1>1, <1>2, <2>1, AtPut
    <2>2. w # <<"send", "queue">>
      BY <1>1, <1>2, AtSend
    <2>3. ASSUME NEW s \in Streams PROVE w # <<"down", s>>
      BY <1>1, <1>2, AtDown
    <2>4. ASSUME NEW k \in Keys PROVE w # <<"run", k>>
      BY <1>1, <1>2, AtRun
    <2> QED
      BY <2>1, <2>2, <2>3, <2>4, PlaceIs
  <1>3. (\A v, w \in Places : At(v, j) /\ At(w, j) => v = w)'
    BY <1>2 DEF Places, Streams
  <1> QED
    BY <1>3 DEF OneCopy, Streams

LEMMA PlacesMoved ==
  ASSUME NEW j, NEW b,
         \A p \in Putters : Is(putting'[p], j) => Is(putting[p], j) \/ <<"put", p>> = b,
         Has(sendQ', j) => Has(sendQ, j) \/ <<"send", "queue">> = b,
         \A s \in Streams : Has(downQ'[s], j) => Has(downQ[s], j) \/ <<"down", s>> = b,
         \A k \in Keys : j \in running'[k] => j \in running[k] \/ <<"run", k>> = b
  PROVE  \A w \in Places : At(w, j)' => At(w, j) \/ w = b
  <1> SUFFICES ASSUME NEW w \in Places PROVE At(w, j)' => At(w, j) \/ w = b
    OBVIOUS
  <1>1. ASSUME NEW p \in Putters, w = <<"put", p>> PROVE At(w, j)' => At(w, j) \/ w = b
    BY <1>1, AtPut
  <1>2. CASE w = <<"send", "queue">>
    BY <1>2, AtSend
  <1>3. ASSUME NEW s \in Streams, w = <<"down", s>> PROVE At(w, j)' => At(w, j) \/ w = b
    BY <1>3, AtDown
  <1>4. ASSUME NEW k \in Keys, w = <<"run", k>> PROVE At(w, j)' => At(w, j) \/ w = b
    BY <1>4, AtRun
  <1> QED
    BY <1>1, <1>2, <1>3, <1>4, PlaceIs

-----------------------------------------------------------------------------
(* Streams.                                                                *)

LEMMA StreamHas ==
  ASSUME NEW s \in Streams
  PROVE  /\ s[1] \in Keys /\ s[2] \in 1 .. MaxStreams[s[1]]
         /\ s = <<s[1], s[2]>> /\ s # NoStream
  BY NamesAssumption DEF Streams, NoStream

LEMMA StreamMade ==
  ASSUME NEW k \in Keys, NEW n \in 1 .. MaxStreams[k]
  PROVE  <<k, n>> \in Streams
  BY DEF Streams

LEMMA LiveStream ==
  ASSUME TypeInv, NEW k \in up
  PROVE  Stream(k) \in Streams /\ k \in Keys
  <1>1. k \in Keys /\ gen[k] \in Nat /\ gen[k] # 0 /\ gen[k] <= MaxStreams[k] /\ MaxStreams[k] \in Nat
    BY CapsAssumption DEF TypeInv, WorkerTypes
  <1>2. gen[k] \in 1 .. MaxStreams[k]
    BY <1>1
  <1> QED
    BY <1>1, <1>2, StreamMade DEF Stream

-----------------------------------------------------------------------------
(* The invariant in the initial state, and what follows from it.           *)

LEMMA InitIsRight == Init => IInv
  <1> SUFFICES ASSUME Init PROVE IInv
    OBVIOUS
  <1> USE DEF Init
  <1>1. ChannelTypes
    BY CapsAssumption DEF ChannelTypes
  <1>2. RegistryTypes
    BY DEF RegistryTypes
  <1>3. StreamTypes
    BY DEF StreamTypes, AnyStream
  <1>4. WorkerTypes
    BY CapsAssumption DEF WorkerTypes
  <1>5. ConnsAreOpen
    BY DEF ConnsAreOpen
  <1>6. CancelInv
    BY DEF CancelInv, Excused, Nothing, Message
  <1>7. ASSUME NEW j \in Jobs PROVE OneCopy(j)
    <2>1. ASSUME NEW w \in Places PROVE ~At(w, j)
      <3>1. ASSUME NEW p \in Putters PROVE ~At(<<"put", p>>, j)
        BY AtPut, NothingIs
      <3>2. ~At(<<"send", "queue">>, j)
        BY AtSend, NothingQueued
      <3>3. ASSUME NEW s \in Streams PROVE ~At(<<"down", s>>, j)
        BY AtDown, NothingQueued
      <3>4. ASSUME NEW k \in Keys PROVE ~At(<<"run", k>>, j)
        BY AtRun
      <3> QED
        BY <3>1, <3>2, <3>3, <3>4, PlaceIs
    <2>2. Once(sendQ, j) /\ \A s \in Streams : Once(downQ[s], j)
      BY NothingQueued
    <2> QED
      BY <2>1, <2>2 DEF OneCopy
  <1>8. CopyInv
    BY <1>7 DEF CopyInv
  <1> QED
    BY <1>1, <1>2, <1>3, <1>4, <1>5, <1>6, <1>8 DEF IInv, TypeInv

LEMMA TypesHold ==
  ASSUME TypeInv
  PROVE  TypeOK
  <1>1. Orders \subseteq Messages /\ Reports \subseteq Messages /\ Failed \subseteq Messages
        /\ Nothing \in Messages
    BY DEF Orders, Reports, Failed, Messages, Message, Nothing
  <1>2. Seq(Orders) \subseteq Seq(Messages) /\ Seq(Reports) \subseteq Seq(Messages)
        /\ Seq(Failed) \subseteq Seq(Messages)
    BY <1>1
  <1>3. {sendQ, recvQ, errorQ} \subseteq Seq(Messages) /\ statusQ \in Seq(Jobs)
    BY <1>2 DEF TypeInv, ChannelTypes
  <1>4. Len(sendQ) <= SendCap /\ Len(errorQ) <= ErrorCap /\ Len(statusQ) <= StatusCap
    BY DEF TypeInv, ChannelTypes
  <1>5. sender \in Messages /\ putting \in [Putters -> Messages]
    BY <1>1 DEF TypeInv, ChannelTypes
  <1>6. {upQ, downQ} \subseteq [Streams -> Seq(Messages)]
    <2>1. upQ \in [Streams -> Seq(Reports)] /\ downQ \in [Streams -> Seq(Orders)]
      BY DEF TypeInv, StreamTypes
    <2> QED
      BY <1>2, <2>1
  <1>7. \A k \in Keys : gen[k] \in 0 .. MaxStreams[k]
    BY CapsAssumption DEF TypeInv, WorkerTypes
  <1> QED
    BY <1>3, <1>4, <1>5, <1>6, <1>7 DEF TypeInv, RegistryTypes, StreamTypes, WorkerTypes, TypeOK

\* One copy is one runner.
LEMMA OneRuns ==
  ASSUME CopyInv
  PROVE  OneRunner
  <1> SUFFICES ASSUME NEW j \in Jobs \ cancelled
               PROVE  Cardinality({k \in Keys : j \in running[k]}) <= 1
    BY DEF OneRunner
  <1> DEFINE R == {k \in Keys : j \in running[k]}
  <1>1. \A k, l \in R : k = l
    <2> TAKE k, l \in R
    <2>1. /\ <<"run", k>> \in Places /\ At(<<"run", k>>, j)
          /\ <<"run", l>> \in Places /\ At(<<"run", l>>, j)
      BY AtRun
    <2>2. <<"run", k>> = <<"run", l>>
      BY <2>1 DEF CopyInv, OneCopy
    <2> QED
      BY <2>2
  <1> HIDE DEF R
  <1>2. R = {} \/ \E k : R = {k}
    BY <1>1
  <1>3. Cardinality(R) \in {0, 1}
    BY <1>2, FS_EmptySet, FS_Singleton, Zenon
  <1>4. Cardinality(R) <= 1
    BY <1>3
  <1> QED
    BY <1>4 DEF R

-----------------------------------------------------------------------------
(* The kinds of message each channel carries.                              *)

\* A goroutine gets a message to put, for a job that has or gets a node.
LEMMA PutTypes ==
  ASSUME TypeInv, NEW p \in Putters, NEW k \in Keys, NEW j \in Jobs,
         NEW t \in {"EXECUTE", "CANCEL", "STATUS"},
         putting' = [putting EXCEPT ![p] = Message(t, k, j)],
         UNCHANGED <<sendQ, recvQ, errorQ, statusQ, sender>>
  PROVE  ChannelTypes'
  <1>1. putting' \in [Putters -> Orders \union {Nothing}]
    BY OrderMade DEF TypeInv, ChannelTypes
  <1> QED
    BY <1>1 DEF TypeInv, ChannelTypes, Putters

LEMMA CallTypes ==
  ASSUME TypeInv, NEW c \in Callers, NEW j \in Jobs, Call(c, j)
  PROVE  TypeInv'
  <1>1. c \in Putters
    BY DEF Putters
  <1>2. StreamTypes' /\ WorkerTypes'
    BY DEF Call, ExecuteJob, CancelJob, AskStatus, TypeInv, StreamTypes, WorkerTypes, streams, workers,
           AnyStream
  <1>3. CASE ExecuteJob(c, j)
    <2>1. PICK k \in slots : /\ jobNode' = [jobNode EXCEPT ![j] = k]
                             /\ putting' = [putting EXCEPT ![c] = Message("EXECUTE", k, j)]
      BY <1>3 DEF ExecuteJob, Dispatched
    <2>2. k \in Keys
      BY DEF TypeInv, RegistryTypes
    <2>3. ChannelTypes'
      BY <1>1, <1>3, <2>1, <2>2, PutTypes DEF ExecuteJob
    <2>4. RegistryTypes'
      BY <1>3, <2>1, <2>2 DEF ExecuteJob, TypeInv, RegistryTypes
    <2> QED
      BY <1>2, <2>3, <2>4 DEF TypeInv
  <1>4. CASE CancelJob(c, j) \/ AskStatus(c, j)
    <2>1. jobNode[j] \in Keys
      BY <1>4 DEF CancelJob, AskStatus, TypeInv, RegistryTypes
    <2>2. RegistryTypes'
      BY <1>4 DEF CancelJob, AskStatus, TypeInv, RegistryTypes, registry
    <2>3. ChannelTypes'
      <3>1. CASE CancelJob(c, j)
        BY <1>1, <2>1, <3>1, PutTypes DEF CancelJob
      <3>2. CASE AskStatus(c, j)
        BY <1>1, <2>1, <3>2, PutTypes DEF AskStatus
      <3> QED
        BY <1>4, <3>1, <3>2
    <2> QED
      BY <1>2, <2>2, <2>3 DEF TypeInv
  <1> QED
    BY <1>3, <1>4 DEF Call

LEMMA PutSendTypes ==
  ASSUME TypeInv, NEW p \in Putters, PutSend(p)
  PROVE  TypeInv'
  <1>1. putting[p] \in Orders
    BY DEF PutSend, TypeInv, ChannelTypes
  <1>2. sendQ \in Seq(Orders) /\ Len(sendQ) < SendCap /\ SendCap \in Nat
        /\ sendQ' = Append(sendQ, putting[p])
    BY CapsAssumption DEF PutSend, TypeInv, ChannelTypes
  <1>3. sendQ' \in Seq(Orders) /\ Len(sendQ') = Len(sendQ) + 1 /\ Len(sendQ) \in Nat
    BY <1>1, <1>2, Appended
  <1>4. Len(sendQ') <= SendCap
    BY ONLY <1>2, <1>3
  <1>5. putting' \in [Putters -> Orders \union {Nothing}]
    BY DEF PutSend, TypeInv, ChannelTypes
  <1>6. ChannelTypes'
    BY <1>3, <1>4, <1>5 DEF PutSend, TypeInv, ChannelTypes, Putters
  <1> QED
    BY <1>6 DEF PutSend, TypeInv, RegistryTypes, StreamTypes, WorkerTypes, registry, streams, workers,
                AnyStream

\* The send loop takes the head of SendMsgChan.
LEMMA SendTaken ==
  ASSUME TypeInv, sendQ # <<>>, sendQ' = Tail(sendQ)
  PROVE  /\ sendQ' \in Seq(Orders) /\ Len(sendQ') <= SendCap /\ Head(sendQ) \in Orders
  <1>1. sendQ \in Seq(Orders) /\ Len(sendQ) <= SendCap /\ SendCap \in Nat
    BY CapsAssumption DEF TypeInv, ChannelTypes
  <1>2. /\ sendQ' \in Seq(Orders) /\ Head(sendQ) \in Orders
        /\ Len(sendQ') = Len(sendQ) - 1 /\ Len(sendQ) \in Nat
    BY <1>1, Tailed
  <1>3. Len(sendQ') <= SendCap
    BY ONLY <1>1, <1>2
  <1> QED
    BY <1>2, <1>3

LEMMA SendLoopTypes ==
  ASSUME TypeInv, SendLoop
  PROVE  TypeInv'
  <1>1. RegistryTypes' /\ WorkerTypes'
    BY DEF SendLoop, SendFails, SendOk, ReportError, TypeInv, RegistryTypes, WorkerTypes, registry, workers
  <1>2. CASE SendFails
    <2>1. sendQ' \in Seq(Orders) /\ Len(sendQ') <= SendCap /\ Head(sendQ) \in Orders
      BY <1>2, SendTaken DEF SendFails
    <2>2. Reported(Head(sendQ)) => Head(sendQ) \in Failed
      BY <2>1 DEF Reported, Orders, Failed
    <2>3. Message("error", NoKey, NoJob) \in Failed
      BY DEF Failed
    <2>4. sender' \in Failed \union {Nothing}
      BY <1>2, <2>2, <2>3 DEF SendFails
    <2>5. ChannelTypes'
      BY <1>2, <2>1, <2>4 DEF SendFails, TypeInv, ChannelTypes, Putters
    <2> QED
      BY <1>1, <1>2, <2>5 DEF SendFails, TypeInv, StreamTypes, streams, AnyStream
  <1>3. CASE SendOk
    <2> DEFINE m == Head(sendQ)
               s == conns[m.key]
    <2>1. sendQ' \in Seq(Orders) /\ Len(sendQ') <= SendCap /\ m \in Orders
      BY <1>3, SendTaken DEF SendOk
    <2>2. ChannelTypes'
      BY <1>3, <2>1 DEF SendOk, TypeInv, ChannelTypes, Putters
    <2>3. s \in Streams
      BY <1>3, <2>1, OrderHas DEF SendOk, TypeInv, StreamTypes, AnyStream
    <2>4. downQ \in [Streams -> Seq(Orders)] /\ downQ[s] \in Seq(Orders)
      BY <2>3 DEF TypeInv, StreamTypes
    <2>5. Append(downQ[s], m) \in Seq(Orders)
      BY <2>1, <2>4, Appended
    <2>6. downQ' = downQ \/ downQ' = [downQ EXCEPT ![s] = Append(downQ[s], m)]
      BY <1>3 DEF SendOk
    <2> HIDE DEF s, m
    <2>7. downQ' \in [Streams -> Seq(Orders)]
      BY <2>4, <2>5, <2>6
    <2>8. StreamTypes'
      BY <1>3, <2>7 DEF SendOk, TypeInv, StreamTypes, AnyStream, Streams
    <2> QED
      BY <1>1, <2>2, <2>8 DEF TypeInv
  <1>4. CASE ReportError
    <2>1. sender \in Failed /\ errorQ \in Seq(Failed) /\ Len(errorQ) < ErrorCap /\ ErrorCap \in Nat
          /\ errorQ' = Append(errorQ, sender)
      BY <1>4, CapsAssumption DEF ReportError, TypeInv, ChannelTypes
    <2>2. errorQ' \in Seq(Failed) /\ Len(errorQ') = Len(errorQ) + 1 /\ Len(errorQ) \in Nat
      BY <2>1, Appended
    <2>3. Len(errorQ') <= ErrorCap
      BY ONLY <2>1, <2>2
    <2>4. ChannelTypes'
      BY <1>4, <2>2, <2>3 DEF ReportError, TypeInv, ChannelTypes, Putters
    <2> QED
      BY <1>1, <1>4, <2>4 DEF ReportError, TypeInv, StreamTypes, streams, AnyStream
  <1> QED
    BY <1>2, <1>3, <1>4 DEF SendLoop

LEMMA HandleErrorTypes ==
  ASSUME TypeInv, HandleError
  PROVE  TypeInv'
  <1> DEFINE e == Head(errorQ)
  <1>1. errorQ \in Seq(Failed) /\ Len(errorQ) <= ErrorCap /\ ErrorCap \in Nat /\ errorQ # <<>>
        /\ errorQ' = Tail(errorQ)
    BY CapsAssumption DEF HandleError, TypeInv, ChannelTypes
  <1>2. errorQ' \in Seq(Failed) /\ e \in Failed /\ Len(errorQ') = Len(errorQ) - 1 /\ Len(errorQ) \in Nat
    BY <1>1, Tailed
  <1>3. Len(errorQ') <= ErrorCap
    BY ONLY <1>1, <1>2
  <1>4. UNCHANGED <<registry, putting>> \/ (e.type = "CANCEL" /\ Redispatch(e))
    BY <1>2, FailedHas DEF HandleError
  <1>5. RegistryTypes' /\ putting' \in [Putters -> Orders \union {Nothing}]
    <2>1. CASE UNCHANGED <<registry, putting>>
      BY <2>1 DEF registry, TypeInv, RegistryTypes, ChannelTypes, Putters
    <2>2. CASE e.type = "CANCEL" /\ Redispatch(e)
      <3>1. e.key \in Keys /\ e.job \in Jobs
        BY <1>2, <2>2, FailedHas
      <3> HIDE DEF e
      <3>2. nodes' \subseteq Keys /\ slots' \subseteq Keys
        BY <2>2 DEF Redispatch, TypeInv, RegistryTypes
      <3>3. CASE UNCHANGED <<jobNode, putting>>
        BY <3>2, <3>3 DEF TypeInv, RegistryTypes, ChannelTypes, Putters
      <3>4. CASE \E k \in slots' : /\ jobNode' = [jobNode EXCEPT ![e.job] = k]
                                   /\ putting' = [putting EXCEPT !["err"] = Message("EXECUTE", k, e.job)]
        <4>1. PICK k \in Keys : /\ jobNode' = [jobNode EXCEPT ![e.job] = k]
                                /\ putting' = [putting EXCEPT !["err"] = Message("EXECUTE", k, e.job)]
          BY <3>2, <3>4
        <4>2. Message("EXECUTE", k, e.job) \in Orders
          BY <3>1, OrderMade
        <4> QED
          BY <3>1, <3>2, <4>1, <4>2 DEF TypeInv, RegistryTypes, ChannelTypes
      <3> QED
        BY <2>2, <3>3, <3>4 DEF Redispatch
    <2> QED
      BY <1>4, <2>1, <2>2
  <1>6. ChannelTypes'
    BY <1>2, <1>3, <1>5 DEF HandleError, TypeInv, ChannelTypes, Putters
  <1> QED
    BY <1>5, <1>6 DEF HandleError, TypeInv, StreamTypes, WorkerTypes, streams, workers, AnyStream

LEMMA HandleMessageTypes ==
  ASSUME TypeInv, HandleMessage
  PROVE  TypeInv'
  <1> DEFINE m == Head(recvQ)
  <1>1. recvQ \in Seq(Reports) /\ recvQ # <<>> /\ recvQ' = Tail(recvQ)
    BY DEF HandleMessage, TypeInv, ChannelTypes
  <1>2. recvQ' \in Seq(Reports) /\ m \in Reports
    BY <1>1, Tailed
  <1>3. m.key \in Keys /\ (m.type = "RESULT" => m.job \in Jobs)
    BY <1>2, ReportHas
  <1>4. RegistryTypes'
    BY <1>3 DEF HandleMessage, TypeInv, RegistryTypes, registry
  <1>5. statusQ' \in Seq(Jobs) /\ Len(statusQ') <= StatusCap
    <2>1. statusQ \in Seq(Jobs) /\ Len(statusQ) <= StatusCap /\ StatusCap \in Nat
      BY CapsAssumption DEF TypeInv, ChannelTypes
    <2>2. CASE UNCHANGED statusQ
      BY <2>1, <2>2
    <2>3. CASE m.type = "RESULT" /\ Len(statusQ) < StatusCap /\ statusQ' = Append(statusQ, m.job)
      <3>1. m.job \in Jobs
        BY <1>3, <2>3
      <3>2. statusQ' \in Seq(Jobs) /\ Len(statusQ') = Len(statusQ) + 1 /\ Len(statusQ) \in Nat
        BY <2>1, <2>3, <3>1, Appended
      <3>3. Len(statusQ') <= StatusCap
        BY ONLY <2>1, <2>3, <3>2
      <3> QED
        BY <3>2, <3>3
    <2> QED
      BY <2>2, <2>3 DEF HandleMessage
  <1>6. ChannelTypes'
    BY <1>2, <1>5 DEF HandleMessage, TypeInv, ChannelTypes, Putters
  <1> QED
    BY <1>4, <1>6 DEF HandleMessage, TypeInv, StreamTypes, WorkerTypes, streams, workers, AnyStream

LEMMA HookTypes ==
  ASSUME TypeInv, HookTakes
  PROVE  TypeInv'
  <1>1. statusQ \in Seq(Jobs) /\ Len(statusQ) <= StatusCap /\ StatusCap \in Nat /\ statusQ # <<>>
        /\ statusQ' = Tail(statusQ)
    BY CapsAssumption DEF HookTakes, TypeInv, ChannelTypes
  <1>2. statusQ' \in Seq(Jobs) /\ Len(statusQ') = Len(statusQ) - 1 /\ Len(statusQ) \in Nat
    BY <1>1, Tailed
  <1>3. Len(statusQ') <= StatusCap
    BY ONLY <1>1, <1>2
  <1>4. ChannelTypes'
    BY <1>2, <1>3 DEF HookTakes, TypeInv, ChannelTypes, Putters
  <1> QED
    BY <1>4 DEF HookTakes, TypeInv, RegistryTypes, StreamTypes, WorkerTypes, registry, streams, workers,
                AnyStream

LEMMA ChatTypes ==
  ASSUME TypeInv, NEW s \in Streams, ChatRecv(s) \/ ChatEnd(s)
  PROVE  TypeInv'
  <1>1. s[1] \in Keys
    BY StreamHas
  <1>2. RegistryTypes' /\ WorkerTypes'
    BY DEF ChatRecv, ChatEnd, TypeInv, RegistryTypes, WorkerTypes, registry, workers
  <1>3. upQ \in [Streams -> Seq(Reports)] /\ upQ[s] \in Seq(Reports)
    BY DEF TypeInv, StreamTypes
  <1>4. CASE ChatRecv(s)
    <2>1. upQ[s] # <<>> /\ upQ' = [upQ EXCEPT ![s] = Tail(upQ[s])]
          /\ recvQ' = Append(recvQ, Head(upQ[s])) /\ recvQ \in Seq(Reports)
      BY <1>4 DEF ChatRecv, TypeInv, ChannelTypes
    <2>2. Tail(upQ[s]) \in Seq(Reports) /\ Head(upQ[s]) \in Reports
      BY <1>3, <2>1, Tailed
    <2>3. recvQ' \in Seq(Reports)
      BY <2>1, <2>2, Appended
    <2>4. upQ' \in [Streams -> Seq(Reports)]
      BY <1>3, <2>1, <2>2
    <2>5. conns' = [conns EXCEPT ![s[1]] = s]
      BY <1>4 DEF ChatRecv
    <2>6. StreamTypes'
      BY <1>1, <1>4, <2>4, <2>5 DEF ChatRecv, TypeInv, StreamTypes, AnyStream, Streams
    <2>7. ChannelTypes'
      BY <1>4, <2>3 DEF ChatRecv, TypeInv, ChannelTypes, Putters
    <2> QED
      BY <1>2, <2>6, <2>7 DEF TypeInv
  <1>5. CASE ChatEnd(s)
    <2>1. upQ' = [upQ EXCEPT ![s] = <<>>] /\ chat' = chat \ {s}
          /\ (conns' = conns \/ conns' = [conns EXCEPT ![s[1]] = NoStream])
      BY <1>5 DEF ChatEnd
    <2>2. upQ' \in [Streams -> Seq(Reports)]
      BY <1>3, <2>1
    <2>3. StreamTypes'
      BY <1>1, <1>5, <2>1, <2>2 DEF ChatEnd, TypeInv, StreamTypes, AnyStream, Streams
    <2>4. ChannelTypes'
      BY <1>5 DEF ChatEnd, TypeInv, ChannelTypes, Putters, channels
    <2> QED
      BY <1>2, <2>3, <2>4 DEF TypeInv
  <1> QED
    BY <1>4, <1>5

\* A worker puts a report on its stream.
LEMMA ReportTypes ==
  ASSUME TypeInv, NEW k \in up, NEW t, NEW j, Message(t, k, j) \in Reports, WorkerSays(k, t, j)
  PROVE  upQ' \in [Streams -> Seq(Reports)]
  <1> DEFINE s == Stream(k)
             m == Message(t, k, j)
  <1>1. s \in Streams
    BY LiveStream
  <1>2. upQ \in [Streams -> Seq(Reports)] /\ upQ[s] \in Seq(Reports)
    BY <1>1 DEF TypeInv, StreamTypes
  <1>3. upQ' = [upQ EXCEPT ![s] = Append(upQ[s], m)]
    BY DEF WorkerSays
  <1> HIDE DEF s
  <1>4. Append(upQ[s], m) \in Seq(Reports)
    BY <1>2, Appended
  <1> QED
    BY <1>2, <1>3, <1>4

LEMMA WorkerStepTypes ==
  ASSUME TypeInv, NEW k \in Keys,
         WorkerStart(k) \/ WorkerDies(k) \/ Heartbeat(k) \/ WorkerTakes(k) \/ \E j \in Jobs : JobEnds(k, j)
  PROVE  TypeInv'
  <1>1. ChannelTypes' /\ RegistryTypes'
    BY DEF WorkerStart, WorkerDies, Heartbeat, WorkerTakes, JobEnds, TypeInv, ChannelTypes, RegistryTypes,
           Putters, channels, registry
  <1>2. CASE WorkerStart(k)
    <2>1. gen[k] \in Nat /\ gen[k] < MaxStreams[k] /\ MaxStreams[k] \in Nat
      BY <1>2, CapsAssumption DEF WorkerStart, TypeInv, WorkerTypes
    <2>2. <<k, gen[k] + 1>> \in Streams
      BY <2>1, StreamMade
    <2>3. Message("REGISTER", k, NoJob) \in Reports
      BY ReportMade
    <2>4. <<Message("REGISTER", k, NoJob)>> \in Seq(Reports)
      BY <2>3
    <2>5. upQ' \in [Streams -> Seq(Reports)]
      BY <1>2, <2>4 DEF WorkerStart, TypeInv, StreamTypes
    <2>6. StreamTypes'
      BY <1>2, <2>2, <2>5 DEF WorkerStart, TypeInv, StreamTypes, AnyStream, Streams
    <2>7. gen' \in [Keys -> Nat] /\ \A l \in Keys : gen'[l] <= MaxStreams[l]
      BY <1>2, <2>1 DEF WorkerStart, TypeInv, WorkerTypes
    <2>8. \A l \in up' : gen'[l] # 0
      BY <1>2, <2>1 DEF WorkerStart, TypeInv, WorkerTypes
    <2>9. WorkerTypes'
      BY <1>2, <2>7, <2>8 DEF WorkerStart, TypeInv, WorkerTypes
    <2> QED
      BY <1>1, <2>6, <2>9 DEF TypeInv
  <1>3. CASE WorkerDies(k)
    <2>1. Stream(k) \in Streams
      BY <1>3, LiveStream DEF WorkerDies
    <2>2. downQ' \in [Streams -> Seq(Orders)]
      BY <1>3, <2>1 DEF WorkerDies, TypeInv, StreamTypes
    <2>3. StreamTypes'
      BY <1>3, <2>2 DEF WorkerDies, TypeInv, StreamTypes, AnyStream, Streams
    <2>4. WorkerTypes'
      BY <1>3 DEF WorkerDies, TypeInv, WorkerTypes
    <2> QED
      BY <1>1, <2>3, <2>4 DEF TypeInv
  <1>4. CASE Heartbeat(k)
    <2>1. upQ' \in [Streams -> Seq(Reports)]
      BY <1>4, ReportMade, ReportTypes DEF Heartbeat
    <2>2. StreamTypes'
      BY <1>4, <2>1 DEF Heartbeat, TypeInv, StreamTypes, AnyStream, Streams
    <2>3. WorkerTypes'
      BY <1>4 DEF Heartbeat, TypeInv, WorkerTypes, workers
    <2> QED
      BY <1>1, <2>2, <2>3 DEF TypeInv
  <1>5. CASE WorkerTakes(k)
    <2> DEFINE s == Stream(k)
               m == Head(downQ[s])
    <2>1. s \in Streams
      BY <1>5, LiveStream DEF WorkerTakes
    <2>2. downQ \in [Streams -> Seq(Orders)] /\ downQ[s] \in Seq(Orders) /\ downQ[s] # <<>>
          /\ downQ' = [downQ EXCEPT ![s] = Tail(downQ[s])]
      BY <1>5, <2>1 DEF WorkerTakes, TypeInv, StreamTypes
    <2>3. Tail(downQ[s]) \in Seq(Orders) /\ m \in Orders
      BY <2>2, Tailed
    <2>4. m.job \in Jobs
      BY <2>3, OrderHas
    <2>5. UNCHANGED upQ \/ WorkerSays(k, "RESULT", m.job)
      BY <1>5 DEF WorkerTakes
    <2>6. upQ' \in [Streams -> Seq(Reports)]
      <3>1. CASE UNCHANGED upQ
        BY <3>1 DEF TypeInv, StreamTypes, Streams
      <3>2. CASE WorkerSays(k, "RESULT", m.job)
        BY <1>5, <2>4, <3>2, ReportMade, ReportTypes DEF WorkerTakes
      <3> QED
        BY <2>5, <3>1, <3>2
    <2>7. running' \in [Keys -> SUBSET Jobs]
      BY <1>5, <2>4 DEF WorkerTakes, TypeInv, WorkerTypes
    <2> HIDE DEF s, m
    <2>8. downQ' \in [Streams -> Seq(Orders)]
      BY <2>2, <2>3
    <2>9. StreamTypes'
      BY <1>5, <2>6, <2>8 DEF WorkerTakes, TypeInv, StreamTypes, AnyStream, Streams
    <2>10. WorkerTypes'
      BY <1>5, <2>7 DEF WorkerTakes, TypeInv, WorkerTypes
    <2> QED
      BY <1>1, <2>9, <2>10 DEF TypeInv
  <1>6. ASSUME NEW j \in Jobs, JobEnds(k, j) PROVE TypeInv'
    <2>1. upQ' \in [Streams -> Seq(Reports)]
      BY <1>6, ReportMade, ReportTypes DEF JobEnds
    <2>2. StreamTypes'
      BY <1>6, <2>1 DEF JobEnds, TypeInv, StreamTypes, AnyStream, Streams
    <2>3. WorkerTypes'
      BY <1>6 DEF JobEnds, TypeInv, WorkerTypes
    <2> QED
      BY <1>1, <2>2, <2>3 DEF TypeInv
  <1> QED
    BY <1>2, <1>3, <1>4, <1>5, <1>6

LEMMA TypesKept == TypeInv /\ [Next]_vars => TypeInv'
  <1> SUFFICES ASSUME TypeInv, [Next]_vars PROVE TypeInv'
    OBVIOUS
  <1>1. ASSUME NEW c \in Callers, NEW j \in Jobs, Call(c, j) PROVE TypeInv'
    BY <1>1, CallTypes
  <1>2. ASSUME NEW p \in Putters, PutSend(p) PROVE TypeInv'
    BY <1>2, PutSendTypes
  <1>3. CASE SendLoop
    BY <1>3, SendLoopTypes
  <1>4. CASE HandleError
    BY <1>4, HandleErrorTypes
  <1>5. CASE HandleMessage
    BY <1>5, HandleMessageTypes
  <1>6. CASE HookTakes
    BY <1>6, HookTypes
  <1>7. ASSUME NEW s \in Streams, ChatRecv(s) \/ ChatEnd(s) PROVE TypeInv'
    BY <1>7, ChatTypes
  <1>8. ASSUME NEW k \in Keys, WorkerStart(k) \/ WorkerDies(k) \/ Heartbeat(k) \/ WorkerTakes(k)
        PROVE  TypeInv'
    BY <1>8, WorkerStepTypes
  <1>9. ASSUME NEW k \in Keys, NEW j \in Jobs, JobEnds(k, j) PROVE TypeInv'
    BY <1>9, WorkerStepTypes
  <1>10. CASE UNCHANGED vars
    <2>1. UNCHANGED <<channels, registry, streams, workers>>
      BY <1>10 DEF vars
    <2>2. ChannelTypes' /\ RegistryTypes'
      BY <2>1 DEF TypeInv, ChannelTypes, RegistryTypes, channels, registry, Putters
    <2>3. StreamTypes' /\ WorkerTypes'
      BY <2>1 DEF TypeInv, StreamTypes, WorkerTypes, streams, workers, AnyStream
    <2> QED
      BY <2>2, <2>3 DEF TypeInv
  <1> QED
    BY <1>1, <1>2, <1>3, <1>4, <1>5, <1>6, <1>7, <1>8, <1>9, <1>10 DEF Next

-----------------------------------------------------------------------------
(* The streams that are kept are open.                                     *)

LEMMA ConnsStayOpen == TypeInv /\ ConnsAreOpen /\ [Next]_vars => ConnsAreOpen'
  <1> SUFFICES ASSUME TypeInv, ConnsAreOpen, [Next]_vars PROVE ConnsAreOpen'
    OBVIOUS
  <1>1. CASE UNCHANGED <<conns, chat>>
    BY <1>1 DEF ConnsAreOpen
  <1>2. ASSUME NEW s \in Streams, ChatRecv(s) PROVE ConnsAreOpen'
    BY <1>2 DEF ChatRecv, ConnsAreOpen, TypeInv, StreamTypes
  <1>3. ASSUME NEW s \in Streams, ChatEnd(s) PROVE ConnsAreOpen'
    <2> SUFFICES ASSUME NEW k \in Keys, conns'[k] # NoStream PROVE conns'[k] \in chat'
      BY DEF ConnsAreOpen
    <2>1. s[1] \in Keys
      BY StreamHas
    <2>2. conns \in [Keys -> AnyStream]
      BY DEF TypeInv, StreamTypes
    <2>3. conns'[k] = conns[k]
      BY <1>3, <2>1, <2>2 DEF ChatEnd
    <2>4. conns[k] \in chat /\ conns[k][1] = k
      BY <2>3 DEF ConnsAreOpen, TypeInv, StreamTypes
    <2>5. conns[k] # s
      BY <1>3, <2>1, <2>2, <2>4 DEF ChatEnd
    <2> QED
      BY <1>3, <2>3, <2>4, <2>5 DEF ChatEnd
  <1>4. ASSUME NEW k \in Keys, WorkerStart(k) PROVE ConnsAreOpen'
    BY <1>4 DEF WorkerStart, ConnsAreOpen
  <1>5. CASE \/ \E c \in Callers, j \in Jobs : Call(c, j)
             \/ \E p \in Putters : PutSend(p)
             \/ SendLoop \/ HandleError \/ HandleMessage \/ HookTakes
    <2>1. UNCHANGED <<conns, chat>>
      BY <1>5 DEF Call, ExecuteJob, CancelJob, AskStatus, PutSend, SendLoop, SendFails, SendOk, ReportError,
                  HandleError, HandleMessage, HookTakes, streams
    <2> QED
      BY <1>1, <2>1
  <1>6. CASE \/ \E k \in Keys : WorkerDies(k) \/ Heartbeat(k) \/ WorkerTakes(k)
             \/ \E k \in Keys, j \in Jobs : JobEnds(k, j)
    BY <1>1, <1>6 DEF WorkerDies, Heartbeat, WorkerTakes, JobEnds
  <1>7. CASE UNCHANGED vars
    BY <1>1, <1>7 DEF vars, streams
  <1> QED
    BY <1>2, <1>3, <1>4, <1>5, <1>6, <1>7 DEF Next

-----------------------------------------------------------------------------
(* A CANCEL on its way, or on its way back, is for a cancelled job.        *)

LEMMA ExcusedAppended ==
  ASSUME NEW S, NEW q \in Seq(S), NEW e \in S, Excused(e), \A i \in DOMAIN q : Excused(q[i])
  PROVE  \A i \in DOMAIN Append(q, e) : Excused(Append(q, e)[i])
  <1> DEFINE r == Append(q, e)
  <1>1. /\ DOMAIN q = 1 .. Len(q) /\ Len(q) \in Nat /\ DOMAIN r = 1 .. Len(q) + 1
        /\ (\A i \in DOMAIN q : r[i] = q[i]) /\ r[Len(q) + 1] = e
    BY Appended
  <1> HIDE DEF r
  <1>2. \A i \in DOMAIN r : i \in DOMAIN q \/ i = Len(q) + 1
    BY <1>1
  <1>3. \A i \in DOMAIN r : Excused(r[i])
    BY <1>1, <1>2
  <1> QED
    BY <1>3 DEF r

LEMMA ExcusedTailed ==
  ASSUME NEW S, NEW q \in Seq(S), q # <<>>, \A i \in DOMAIN q : Excused(q[i])
  PROVE  Excused(Head(q)) /\ \A i \in DOMAIN Tail(q) : Excused(Tail(q)[i])
  <1>1. /\ Head(q) = q[1] /\ 1 \in DOMAIN q
        /\ \A i \in DOMAIN Tail(q) : i + 1 \in DOMAIN q /\ Tail(q)[i] = q[i + 1]
    BY Tailed
  <1> QED
    BY <1>1

LEMMA CancelKept == TypeInv /\ CancelInv /\ [Next]_vars => CancelInv'
  <1> SUFFICES ASSUME TypeInv, CancelInv, [Next]_vars PROVE CancelInv'
    OBVIOUS
  <1>1. CASE UNCHANGED <<sendQ, errorQ, sender, putting, cancelled>>
    BY <1>1 DEF CancelInv, Excused
  <1>2. ASSUME NEW c \in Callers, NEW j \in Jobs, Call(c, j) PROVE CancelInv'
    <2>1. UNCHANGED <<sendQ, errorQ, sender>> /\ cancelled \subseteq cancelled'
      BY <1>2 DEF Call, ExecuteJob, CancelJob, AskStatus, history
    <2>2. ASSUME NEW m, Excused(m) PROVE Excused(m)'
      BY <2>1, <2>2 DEF Excused
    <2>3. PICK t \in {"EXECUTE", "CANCEL", "STATUS"}, k \in Keys \union {NoKey} :
            /\ putting' = [putting EXCEPT ![c] = Message(t, k, j)]
            /\ t = "CANCEL" => j \in cancelled'
      <3>1. CASE ExecuteJob(c, j)
        BY <3>1 DEF ExecuteJob, Dispatched, TypeInv, RegistryTypes
      <3>2. jobNode[j] \in Keys \union {NoKey}
        BY DEF TypeInv, RegistryTypes
      <3>3. CASE CancelJob(c, j)
        BY <3>2, <3>3 DEF CancelJob
      <3>4. CASE AskStatus(c, j)
        BY <3>2, <3>4 DEF AskStatus
      <3> QED
        BY <1>2, <3>1, <3>3, <3>4 DEF Call
    <2>4. Excused(Message(t, k, j))'
      BY <2>3 DEF Excused, Message
    <2>5. \A p \in Putters : putting'[p] = putting[p] \/ putting'[p] = Message(t, k, j)
      BY <2>3 DEF TypeInv, ChannelTypes
    <2>6. ASSUME NEW p \in Putters PROVE Excused(putting[p])'
      <3>1. Excused(putting[p])
        BY DEF CancelInv
      <3> QED
        BY <2>1, <2>4, <2>5, <3>1 DEF Excused
    <2> QED
      BY <2>1, <2>6 DEF CancelInv, Excused, Putters
  <1>3. ASSUME NEW p \in Putters, PutSend(p) PROVE CancelInv'
    <2>1. UNCHANGED <<errorQ, sender, cancelled>> /\ sendQ' = Append(sendQ, putting[p])
          /\ putting' = [putting EXCEPT ![p] = Nothing]
      BY <1>3 DEF PutSend, history
    <2>2. sendQ \in Seq(Orders) /\ putting[p] \in Orders /\ putting \in [Putters -> Orders \union {Nothing}]
      BY <1>3 DEF PutSend, TypeInv, ChannelTypes
    <2>3. \A i \in DOMAIN sendQ' : Excused(sendQ'[i])
      BY <2>1, <2>2, ExcusedAppended DEF CancelInv
    <2>4. \A q \in Putters : Excused(putting'[q])
      BY <2>1, <2>2, NothingIs DEF CancelInv, Excused
    <2> QED
      BY <2>1, <2>3, <2>4 DEF CancelInv, Excused, Putters
  <1>4. CASE SendLoop
    <2>1. UNCHANGED <<putting, cancelled>>
      BY <1>4 DEF SendLoop, SendFails, SendOk, ReportError, history
    <2>2. CASE SendFails \/ SendOk
      <3>1. sendQ \in Seq(Orders) /\ sendQ # <<>> /\ sendQ' = Tail(sendQ) /\ UNCHANGED errorQ
        BY <2>2 DEF SendFails, SendOk, TypeInv, ChannelTypes
      <3>2. Excused(Head(sendQ)) /\ \A i \in DOMAIN sendQ' : Excused(sendQ'[i])
        BY <3>1, ExcusedTailed DEF CancelInv
      <3>3. sender' \in {sender, Head(sendQ), Nothing, Message("error", NoKey, NoJob)}
        BY <2>2 DEF SendFails, SendOk
      <3>4. Excused(sender')
        BY <3>2, <3>3 DEF CancelInv, Excused, Nothing, Message
      <3> QED
        BY <2>1, <3>1, <3>2, <3>4 DEF CancelInv, Excused, Putters
    <2>3. CASE ReportError
      <3>1. errorQ \in Seq(Failed) /\ sender \in Failed /\ errorQ' = Append(errorQ, sender)
            /\ sender' = Nothing /\ UNCHANGED sendQ
        BY <2>3 DEF ReportError, TypeInv, ChannelTypes
      <3>2. \A i \in DOMAIN errorQ' : Excused(errorQ'[i])
        BY <3>1, ExcusedAppended DEF CancelInv
      <3>3. Excused(sender')
        BY <3>1 DEF Excused, Nothing, Message
      <3> QED
        BY <2>1, <3>1, <3>2, <3>3 DEF CancelInv, Excused, Putters
    <2> QED
      BY <1>4, <2>2, <2>3 DEF SendLoop
  <1>5. CASE HandleError
    <2>1. UNCHANGED <<sendQ, sender, cancelled>> /\ errorQ \in Seq(Failed) /\ errorQ # <<>>
          /\ errorQ' = Tail(errorQ)
      BY <1>5 DEF HandleError, TypeInv, ChannelTypes
    <2>2. \A i \in DOMAIN errorQ' : Excused(errorQ'[i])
      BY <2>1, ExcusedTailed DEF CancelInv
    <2>3. \/ UNCHANGED putting
          \/ \E k, j : putting' = [putting EXCEPT !["err"] = Message("EXECUTE", k, j)]
      BY <1>5 DEF HandleError, Redispatch
    <2>4. \A p \in Putters : putting'[p] = putting[p] \/ putting'[p].type = "EXECUTE"
      BY <2>3 DEF TypeInv, ChannelTypes, Message
    <2>5. \A p \in Putters : Excused(putting'[p])
      BY <2>4 DEF CancelInv, Excused
    <2> QED
      BY <2>1, <2>2, <2>5 DEF CancelInv, Excused, Putters
  <1>6. CASE \/ HandleMessage \/ HookTakes \/ \E s \in Streams : ChatRecv(s) \/ ChatEnd(s)
             \/ \E k \in Keys : WorkerStart(k) \/ WorkerDies(k) \/ Heartbeat(k) \/ WorkerTakes(k)
             \/ \E k \in Keys, j \in Jobs : JobEnds(k, j)
    <2>1. UNCHANGED <<sendQ, errorQ, sender, putting, cancelled>>
      BY <1>6 DEF HandleMessage, HookTakes, ChatRecv, ChatEnd, WorkerStart, WorkerDies, Heartbeat,
                  WorkerTakes, JobEnds, channels, history
    <2> QED
      BY <1>1, <2>1
  <1>7. CASE UNCHANGED vars
    BY <1>1, <1>7 DEF vars, channels, history
  <1> QED
    BY <1>2, <1>3, <1>4, <1>5, <1>6, <1>7 DEF Next

-----------------------------------------------------------------------------
(* One copy of each execution, step by step.                               *)

\* A step that leaves the queues, the workers' jobs and what is put alone.
LEMMA CopyStays ==
  ASSUME NEW j, OneCopy(j), asked \subseteq asked', UNCHANGED <<sendQ, downQ, running>>,
         \A p \in Putters : Is(putting'[p], j) => Is(putting[p], j)
  PROVE  OneCopy(j)'
  <1>1. Once(sendQ', j) /\ \A s \in Streams : Once(downQ'[s], j)
    BY DEF OneCopy
  <1> QED
    BY <1>1, CopyKept

LEMMA CallCopies ==
  ASSUME TypeInv, NEW c \in Callers, NEW i \in Jobs, Call(c, i), NEW j \in Jobs, OneCopy(j)
  PROVE  OneCopy(j)'
  <1>1. c \in Putters
    BY DEF Putters
  <1>2. asked \subseteq asked' /\ UNCHANGED <<sendQ, downQ, running>>
    BY DEF Call, ExecuteJob, CancelJob, AskStatus, streams, workers
  <1>3. PICK t, k : putting' = [putting EXCEPT ![c] = Message(t, k, i)]
                    /\ (t = "EXECUTE" => ExecuteJob(c, i))
    BY DEF Call, ExecuteJob, Dispatched, CancelJob, AskStatus
  <1>4. /\ \A p \in Putters \ {c} : putting'[p] = putting[p]
        /\ putting'[c] = Message(t, k, i)
    BY <1>1, <1>3 DEF TypeInv, ChannelTypes
  <1>5. CASE Is(Message(t, k, i), j)
    <2>1. j = i /\ ExecuteJob(c, i)
      BY <1>3, <1>5 DEF Is, Message
    <2>2. j \notin asked /\ j \in asked'
      BY <2>1 DEF ExecuteJob
    <2> QED
      BY <1>1, <1>2, <1>4, <2>2, CopyMade
  <1>6. CASE ~Is(Message(t, k, i), j)
    <2>1. \A p \in Putters : Is(putting'[p], j) => Is(putting[p], j)
      BY <1>4, <1>6
    <2> QED
      BY <1>2, <2>1, CopyStays
  <1> QED
    BY <1>5, <1>6

LEMMA PutSendCopies ==
  ASSUME TypeInv, NEW p \in Putters, PutSend(p), NEW j \in Jobs, OneCopy(j)
  PROVE  OneCopy(j)'
  <1>1. /\ UNCHANGED <<asked, downQ, running>> /\ sendQ' = Append(sendQ, putting[p])
        /\ sendQ \in Seq(Orders) /\ putting[p] \in Orders
    BY DEF PutSend, streams, workers, TypeInv, ChannelTypes
  <1>2. /\ \A q \in Putters \ {p} : putting'[q] = putting[q]
        /\ putting'[p] = Nothing
    BY DEF PutSend, TypeInv, ChannelTypes
  <1>3. \A q \in Putters : Is(putting'[q], j) => Is(putting[q], j)
    BY <1>2, NothingIs
  <1>4. Has(sendQ', j) => Has(sendQ, j) \/ Is(putting[p], j)
    BY <1>1, CopyAppended
  <1>5. Once(sendQ, j) /\ \A s \in Streams : Once(downQ'[s], j)
    BY <1>1 DEF OneCopy
  <1>6. CASE Is(putting[p], j)
    <2> DEFINE a == <<"put", p>>
               b == <<"send", "queue">>
    <2>1. a \in Places /\ b \in Places /\ At(a, j) /\ a # b
      BY <1>6, AtPut, AtSend
    <2>2. ~At(a, j)'
      BY <1>2, AtPut, NothingIs
    <2>3. ~Has(sendQ, j)
      BY <2>1, AtSend DEF OneCopy
    <2>4. Once(sendQ', j)
      BY <1>1, <1>5, <2>3, CopyAppended
    <2>5. \A w \in Places : At(w, j)' => At(w, j) \/ w = b
      BY <1>1, <1>3, PlacesMoved
    <2> HIDE DEF a, b
    <2> QED
      BY <1>1, <1>5, <2>1, <2>2, <2>4, <2>5, CopyMoved
  <1>7. CASE ~Is(putting[p], j)
    <2>1. Once(sendQ', j)
      BY <1>1, <1>5, <1>7, CopyAppended
    <2> QED
      BY <1>1, <1>3, <1>4, <1>5, <1>7, <2>1, CopyKept
  <1> QED
    BY <1>6, <1>7

LEMMA SendCopies ==
  ASSUME TypeInv, SendLoop, NEW j \in Jobs, OneCopy(j)
  PROVE  OneCopy(j)'
  <1>1. UNCHANGED <<asked, putting, running>>
    BY DEF SendLoop, SendFails, SendOk, ReportError, workers
  <1>2. CASE UNCHANGED <<sendQ, downQ>>
    BY <1>1, <1>2, CopyStays
  <1>3. CASE SendFails \/ SendOk
    <2> DEFINE m == Head(sendQ)
               s == conns[m.key]
    <2>1. sendQ \in Seq(Orders) /\ sendQ # <<>> /\ sendQ' = Tail(sendQ)
      BY <1>3 DEF SendFails, SendOk, TypeInv, ChannelTypes
    <2>2. Once(sendQ, j) /\ \A r \in Streams : Once(downQ[r], j)
      BY DEF OneCopy
    <2>3. /\ Has(sendQ', j) => Has(sendQ, j)
          /\ Once(sendQ', j)
          /\ Is(m, j) => Has(sendQ, j) /\ ~Has(sendQ', j)
      BY <2>1, <2>2, CopyTailed
    <2>4. CASE UNCHANGED downQ
      BY <1>1, <2>2, <2>3, <2>4, CopyKept
    <2>5. CASE downQ' = [downQ EXCEPT ![s] = Append(@, m)] /\ s # NoStream
      <3>1. m \in Orders /\ m.key \in Keys
        BY <2>1, Tailed, OrderHas
      <3>2. s \in Streams
        BY <2>5, <3>1 DEF TypeInv, StreamTypes, AnyStream
      <3> HIDE DEF s, m
      <3>3. /\ downQ[s] \in Seq(Orders) /\ downQ'[s] = Append(downQ[s], m)
            /\ \A r \in Streams \ {s} : downQ'[r] = downQ[r]
        BY <2>5, <3>2 DEF TypeInv, StreamTypes
      <3>4. Has(downQ'[s], j) => Has(downQ[s], j) \/ Is(m, j)
        BY <3>1, <3>3, CopyAppended
      <3>5. CASE Is(m, j)
        <4> DEFINE a == <<"send", "queue">>
                   b == <<"down", s>>
        <4>1. a \in Places /\ b \in Places /\ At(a, j) /\ a # b
          BY <2>3, <3>2, <3>5, AtSend, AtDown
        <4>2. ~At(a, j)'
          BY <2>3, <3>5, AtSend
        <4>3. ~Has(downQ[s], j)
          BY <3>2, <4>1, AtDown DEF OneCopy
        <4>4. Once(downQ'[s], j)
          BY <2>2, <3>1, <3>2, <3>3, <4>3, CopyAppended
        <4>5. \A r \in Streams : Once(downQ'[r], j)
          BY <2>2, <3>3, <4>4
        <4>6. \A r \in Streams : Has(downQ'[r], j) => Has(downQ[r], j) \/ <<"down", r>> = b
          BY <3>3
        <4>7. \A w \in Places : At(w, j)' => At(w, j) \/ w = b
          BY <1>1, <2>3, <4>6, PlacesMoved
        <4> HIDE DEF a, b
        <4> QED
          BY <1>1, <2>3, <4>1, <4>2, <4>5, <4>7, CopyMoved
      <3>6. CASE ~Is(m, j)
        <4>1. Once(downQ'[s], j)
          BY <2>2, <3>1, <3>2, <3>3, <3>6, CopyAppended
        <4>2. \A r \in Streams : Once(downQ'[r], j) /\ (Has(downQ'[r], j) => Has(downQ[r], j))
          BY <2>2, <3>3, <3>4, <3>6, <4>1
        <4> QED
          BY <1>1, <2>3, <4>2, CopyKept
      <3> QED
        BY <3>5, <3>6
    <2>6. UNCHANGED downQ \/ (downQ' = [downQ EXCEPT ![s] = Append(@, m)] /\ s # NoStream)
      BY <1>3 DEF SendFails, SendOk, streams
    <2> QED
      BY <2>4, <2>5, <2>6
  <1> QED
    BY <1>2, <1>3 DEF SendLoop, ReportError, streams

\* What the error loop dispatches again has been cancelled.
LEMMA HandleErrorCopies ==
  ASSUME TypeInv, CancelInv, HandleError, NEW j \in Jobs \ cancelled, OneCopy(j)
  PROVE  OneCopy(j)'
  <1> DEFINE e == Head(errorQ)
  <1>1. UNCHANGED <<asked, sendQ, downQ, running>> /\ errorQ \in Seq(Failed) /\ errorQ # <<>>
    BY DEF HandleError, streams, workers, TypeInv, ChannelTypes
  <1>2. e \in Failed /\ Excused(e)
    BY <1>1, Tailed, ExcusedTailed DEF CancelInv
  <1>3. UNCHANGED putting \/ (e.type = "CANCEL" /\ Redispatch(e))
    BY <1>2, FailedHas DEF HandleError
  <1>4. ASSUME NEW p \in Putters, Is(putting'[p], j) PROVE Is(putting[p], j)
    <2>1. CASE UNCHANGED putting
      BY <1>4, <2>1
    <2>2. CASE e.type = "CANCEL" /\ Redispatch(e)
      <3>1. e.job # j
        BY <1>2, <2>2 DEF Excused
      <3> HIDE DEF e
      <3>2. UNCHANGED putting \/ \E k : putting' = [putting EXCEPT !["err"] = Message("EXECUTE", k, e.job)]
        BY <2>2 DEF Redispatch
      <3>3. \A k : ~Is(Message("EXECUTE", k, e.job), j)
        BY <3>1 DEF Is, Message
      <3>4. putting'[p] = putting[p] \/ \E k : putting'[p] = Message("EXECUTE", k, e.job)
        BY <3>2 DEF TypeInv, ChannelTypes
      <3> QED
        BY <1>4, <3>3, <3>4
    <2> QED
      BY <1>3, <2>1, <2>2
  <1> QED
    BY <1>1, <1>4, CopyStays

LEMMA WorkerCopies ==
  ASSUME TypeInv, NEW k \in Keys, NEW j \in Jobs, OneCopy(j),
         WorkerStart(k) \/ WorkerDies(k) \/ Heartbeat(k) \/ WorkerTakes(k) \/ \E i \in Jobs : JobEnds(k, i)
  PROVE  OneCopy(j)'
  <1>1. UNCHANGED <<asked, sendQ, putting>>
    BY DEF WorkerStart, WorkerDies, Heartbeat, WorkerTakes, JobEnds, channels
  <1>2. Once(sendQ, j) /\ \A r \in Streams : Once(downQ[r], j)
    BY DEF OneCopy
  <1>3. CASE WorkerStart(k) \/ Heartbeat(k)
    BY <1>1, <1>3, CopyStays DEF WorkerStart, Heartbeat, workers
  <1>4. CASE WorkerDies(k)
    <2>1. Stream(k) \in Streams
      BY <1>4, LiveStream DEF WorkerDies
    <2>2. \A r \in Streams : downQ'[r] = downQ[r] \/ downQ'[r] = <<>>
      BY <1>4, <2>1 DEF WorkerDies, TypeInv, StreamTypes
    <2>3. \A r \in Streams : Once(downQ'[r], j) /\ (Has(downQ'[r], j) => Has(downQ[r], j))
      BY <1>2, <2>2, NothingQueued
    <2>4. \A l \in Keys : running'[l] = running[l] \/ running'[l] = {}
      BY <1>4 DEF WorkerDies, TypeInv, WorkerTypes
    <2> QED
      BY <1>1, <1>2, <2>3, <2>4, CopyKept
  <1>5. CASE WorkerTakes(k)
    <2>1. PICK s \in Streams : s = Stream(k)
      BY <1>5, LiveStream DEF WorkerTakes
    <2> DEFINE m == Head(downQ[s])
    <2>2. /\ downQ[s] \in Seq(Orders) /\ downQ[s] # <<>> /\ downQ'[s] = Tail(downQ[s])
          /\ \A r \in Streams \ {s} : downQ'[r] = downQ[r]
      BY <1>5, <2>1 DEF WorkerTakes, TypeInv, StreamTypes
    <2>3. \/ m.type = "EXECUTE" /\ running' = [running EXCEPT ![k] = @ \union {m.job}]
          \/ UNCHANGED running
      BY <1>5, <2>1 DEF WorkerTakes
    <2> HIDE DEF m
    <2>4. /\ Has(downQ'[s], j) => Has(downQ[s], j)
          /\ Once(downQ'[s], j)
          /\ Is(m, j) => Has(downQ[s], j) /\ ~Has(downQ'[s], j)
      BY <1>2, <2>1, <2>2, CopyTailed DEF m
    <2>5. \A r \in Streams : Once(downQ'[r], j) /\ (Has(downQ'[r], j) => Has(downQ[r], j))
      BY <1>2, <2>2, <2>4
    <2>6. /\ \A l \in Keys \ {k} : running'[l] = running[l]
          /\ j \in running'[k] => j \in running[k] \/ Is(m, j)
      <3>1. running \in [Keys -> SUBSET Jobs]
        BY DEF TypeInv, WorkerTypes
      <3>2. CASE m.type = "EXECUTE" /\ running' = [running EXCEPT ![k] = @ \union {m.job}]
        BY <3>1, <3>2 DEF Is
      <3> QED
        BY <2>3, <3>2
    <2>7. CASE Is(m, j)
      <3> DEFINE a == <<"down", s>>
                 b == <<"run", k>>
      <3>1. a \in Places /\ b \in Places /\ At(a, j) /\ a # b
        BY <2>1, <2>4, <2>7, AtDown, AtRun
      <3>2. ~At(a, j)'
        BY <2>1, <2>4, <2>7, AtDown
      <3>3. \A l \in Keys : j \in running'[l] => j \in running[l] \/ <<"run", l>> = b
        BY <2>6
      <3>4. \A w \in Places : At(w, j)' => At(w, j) \/ w = b
        BY <1>1, <2>5, <3>3, PlacesMoved
      <3> HIDE DEF a, b
      <3> QED
        BY <1>1, <1>2, <2>5, <3>1, <3>2, <3>4, CopyMoved
    <2>8. CASE ~Is(m, j)
      <3>1. \A l \in Keys : j \in running'[l] => j \in running[l]
        BY <2>8, <2>6
      <3> QED
        BY <1>1, <1>2, <2>5, <3>1, CopyKept
    <2> QED
      BY <2>7, <2>8
  <1>6. ASSUME NEW i \in Jobs, JobEnds(k, i) PROVE OneCopy(j)'
    <2>1. UNCHANGED downQ /\ \A l \in Keys : j \in running'[l] => j \in running[l]
      BY <1>6 DEF JobEnds, TypeInv, WorkerTypes
    <2> QED
      BY <1>1, <1>2, <2>1, CopyKept
  <1> QED
    BY <1>3, <1>4, <1>5, <1>6

LEMMA CopiesKept == TypeInv /\ CancelInv /\ CopyInv /\ [Next]_vars => CopyInv'
  <1> SUFFICES ASSUME TypeInv, CancelInv, CopyInv, [Next]_vars, NEW j \in Jobs \ cancelled'
               PROVE  OneCopy(j)'
    BY DEF CopyInv
  <1>1. cancelled \subseteq cancelled'
    BY DEF Next, Call, ExecuteJob, CancelJob, AskStatus, PutSend, SendLoop, SendFails, SendOk, ReportError,
           HandleError, HandleMessage, HookTakes, ChatRecv, ChatEnd, WorkerStart, WorkerDies, Heartbeat,
           WorkerTakes, JobEnds, vars, history
  <1>2. j \in Jobs \ cancelled /\ OneCopy(j)
    BY <1>1 DEF CopyInv
  <1>3. ASSUME NEW c \in Callers, NEW i \in Jobs, Call(c, i) PROVE OneCopy(j)'
    BY <1>2, <1>3, CallCopies
  <1>4. ASSUME NEW p \in Putters, PutSend(p) PROVE OneCopy(j)'
    BY <1>2, <1>4, PutSendCopies
  <1>5. CASE SendLoop
    BY <1>2, <1>5, SendCopies
  <1>6. CASE HandleError
    BY <1>2, <1>6, HandleErrorCopies
  <1>7. CASE HandleMessage \/ HookTakes \/ (\E s \in Streams : ChatRecv(s) \/ ChatEnd(s)) \/ UNCHANGED vars
    <2>1. UNCHANGED <<asked, putting, sendQ, downQ, running>>
      BY <1>7 DEF HandleMessage, HookTakes, ChatRecv, ChatEnd, vars, channels, streams, workers
    <2> QED
      BY <1>2, <2>1, CopyStays
  <1>8. ASSUME NEW k \in Keys, WorkerStart(k) \/ WorkerDies(k) \/ Heartbeat(k) \/ WorkerTakes(k)
        PROVE  OneCopy(j)'
    BY <1>2, <1>8, WorkerCopies
  <1>9. ASSUME NEW k \in Keys, NEW i \in Jobs, JobEnds(k, i) PROVE OneCopy(j)'
    BY <1>2, <1>9, WorkerCopies
  <1> QED
    BY <1>3, <1>4, <1>5, <1>6, <1>7, <1>8, <1>9 DEF Next

-----------------------------------------------------------------------------
(* The theorem.                                                            *)

\* With any number of workers, jobs, callers and connections and any channel
\* capacities: the channels carry what they are for within their capacity, a
\* job that was not cancelled runs on one worker at most, through every
\* reconnection, lost stream and redispatch, and conns never keeps a stream
\* whose AlineChat has ended.
THEOREM LinkCorrect == Spec => []LinkInv
  <1>1. Init => IInv
    BY InitIsRight
  <1>2. IInv /\ [Next]_vars => IInv'
    BY TypesKept, ConnsStayOpen, CancelKept, CopiesKept DEF IInv
  <1>3. IInv => LinkInv
    BY TypesHold, OneRuns DEF IInv, LinkInv
  <1> QED
    BY <1>1, <1>2, <1>3, PTL DEF Spec

=============================================================================
