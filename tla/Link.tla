-------------------------------- MODULE Link --------------------------------
(***************************************************************************)
(* What travels between the master and its workers: the master's four      *)
(* channels and the loops that serve them (engine_master.go,               *)
(* grpc/server/aline_grpc_server.go), one stream per connection of a       *)
(* worker, and the worker's end of it (grpc/client/aline_grpc_client.go,   *)
(* engine_worker.go).                                                      *)
(*                                                                         *)
(* The dispatcher is what Dispatcher.tla shows of it: a REGISTER gives a   *)
(* node a slot, an unregistration takes the node away and the slot of any  *)
(* node, a dispatch picks any slot.  A worker's executor is the set of     *)
(* jobs it runs (Executor.tla has the rest).                               *)
(***************************************************************************)
EXTENDS Naturals, Sequences, FiniteSets

CONSTANTS
  Keys,        \* node keys, one worker process at a time behind each
  Jobs,        \* jobs the embedding program executes, once each
  Callers,     \* goroutines of the embedding program
  HasHook,     \* TRUE if it has registered a status change hook
  SendCap,     \* capacity of SendMsgChan (10000 in the code)
  ErrorCap,    \* capacity of ErrorChan (100)
  StatusCap,   \* capacity of statusChangeChan (100)
  QueueBound,  \* bound: messages in transit on a stream or in RecvMsgChan
  MaxStreams,  \* bound: connections made by each worker
  MaxCalls,    \* bound: CancelJob and GetCurrentJobStatus calls
  NoJob, NoKey

ASSUME NamesAssumption == NoJob \notin Jobs /\ NoKey \notin Keys /\ "err" \notin Callers
ASSUME CapsAssumption ==
  /\ {SendCap, ErrorCap, StatusCap, QueueBound} \subseteq Nat \ {0}
  /\ MaxStreams \in [Keys -> Nat]
ASSUME BoundsAssumption == MaxCalls \in Nat /\ HasHook \in BOOLEAN

VARIABLES
  sendQ, recvQ, errorQ, statusQ, \* the master's channels
  sender,    \* the send loop: the error it is about to put in ErrorChan, or none
  putting,   \* the message each goroutine is about to put in SendMsgChan, or none
  nodes,     \* nodes known to the dispatcher
  slots,     \* nodes with a slot in its round robin
  jobNode,   \* the node a job was last sent to
  conns,     \* node key -> stream, as <<key, n>>; NoStream if none
  chat,      \* streams with an AlineChat loop on the master
  upQ, downQ,\* messages in transit on each stream
  gen,       \* connections made so far by each worker
  up,        \* workers that are running, on their last stream
  running,   \* running[k]: the jobs worker k runs
  asked,     \* jobs ExecuteJob was called for
  calls,     \* CancelJob and GetCurrentJobStatus calls so far
  cancelled, \* history: jobs CancelJob was called for
  lost, told,\* history: jobs of EXECUTEs that could not be sent; of SendJobErrors
  again      \* history: jobs the error loop dispatched again

channels == <<sendQ, recvQ, errorQ, statusQ, sender, putting>>
registry == <<nodes, slots, jobNode>>
streams == <<conns, chat, upQ, downQ>>
workers == <<gen, up, running>>
history == <<cancelled, lost, told, again>>
vars == <<channels, registry, streams, workers, asked, calls, history>>

Streams == UNION {{k} \X (1 .. MaxStreams[k]) : k \in Keys}
NoStream == <<NoKey, 0>>
Message(t, k, j) == [type |-> t, key |-> k, job |-> j]
Nothing == Message("none", NoKey, NoJob)
Putters == Callers \union {"err"}
Stream(k) == <<k, gen[k]>>

Init ==
  /\ sendQ = <<>> /\ recvQ = <<>> /\ errorQ = <<>> /\ statusQ = <<>>
  /\ sender = Nothing /\ putting = [p \in Putters |-> Nothing]
  /\ nodes = {} /\ slots = {} /\ jobNode = [j \in Jobs |-> NoKey]
  /\ conns = [k \in Keys |-> NoStream] /\ chat = {}
  /\ upQ = [s \in Streams |-> <<>>] /\ downQ = [s \in Streams |-> <<>>]
  /\ gen = [k \in Keys |-> 0] /\ up = {} /\ running = [k \in Keys |-> {}]
  /\ asked = {} /\ calls = 0
  /\ cancelled = {} /\ lost = {} /\ told = {} /\ again = {}

-----------------------------------------------------------------------------
(* The embedding program's calls, each up to the message it puts.          *)

\* SendJob records the node before the message is in the channel.
Dispatched(p, j) ==
  \E k \in slots :
    /\ jobNode' = [jobNode EXCEPT ![j] = k]
    /\ putting' = [putting EXCEPT ![p] = Message("EXECUTE", k, j)]

ExecuteJob(c, j) ==
  /\ putting[c] = Nothing /\ j \notin asked
  /\ Dispatched(c, j)
  /\ asked' = asked \union {j}
  /\ UNCHANGED <<sendQ, recvQ, errorQ, statusQ, sender, nodes, slots, streams, workers, calls, history>>

CancelJob(c, j) ==
  /\ putting[c] = Nothing /\ calls < MaxCalls
  /\ jobNode[j] # NoKey
  /\ putting' = [putting EXCEPT ![c] = Message("CANCEL", jobNode[j], j)]
  /\ calls' = calls + 1
  /\ cancelled' = cancelled \union {j}
  /\ UNCHANGED <<sendQ, recvQ, errorQ, statusQ, sender, registry, streams, workers, asked, lost, told, again>>

AskStatus(c, j) ==
  /\ putting[c] = Nothing /\ calls < MaxCalls
  /\ jobNode[j] # NoKey
  /\ putting' = [putting EXCEPT ![c] = Message("STATUS", jobNode[j], j)]
  /\ calls' = calls + 1
  /\ UNCHANGED <<sendQ, recvQ, errorQ, statusQ, sender, registry, streams, workers, asked, history>>

PutSend(p) ==
  /\ putting[p] # Nothing /\ Len(sendQ) < SendCap
  /\ sendQ' = Append(sendQ, putting[p])
  /\ putting' = [putting EXCEPT ![p] = Nothing]
  /\ UNCHANGED <<recvQ, errorQ, statusQ, sender, registry, streams, workers, asked, calls, history>>

-----------------------------------------------------------------------------
(* The send loop of the grpc server.                                       *)

\* Fault: a failed status query is reported like a failed cancellation.
ReportedQueriesToo(m) == m.type # "EXECUTE"

\* `msg.Type == 4` is a CANCEL (aline.proto): the only kind of message whose
\* failure is reported as a SendJobError.
Reported(m) == m.type = "CANCEL"

SendFails ==
  /\ sender = Nothing /\ sendQ # <<>>
  /\ LET m == Head(sendQ) IN
       /\ \/ conns[m.key] = NoStream
          \/ conns[m.key][2] # gen[m.key] \/ m.key \notin up
       /\ \/ Reported(m) /\ sender' = m
          \/ ~Reported(m) /\ conns[m.key] = NoStream /\ sender' = Nothing
          \/ ~Reported(m) /\ conns[m.key] # NoStream /\ sender' = Message("error", NoKey, NoJob)
       /\ lost' = IF m.type = "EXECUTE" THEN lost \union {m.job} ELSE lost
       /\ told' = IF Reported(m) THEN told \union {m.job} ELSE told
  /\ sendQ' = Tail(sendQ)
  /\ UNCHANGED <<recvQ, errorQ, statusQ, putting, registry, streams, workers, asked, calls, cancelled, again>>

\* A message sent on a stream whose worker has gone may go nowhere.
SendOk ==
  /\ sender = Nothing /\ sendQ # <<>>
  /\ LET m == Head(sendQ) s == conns[m.key] IN
       /\ s # NoStream
       /\ IF m.key \in up /\ s = Stream(m.key)
            THEN Len(downQ[s]) < QueueBound /\ downQ' = [downQ EXCEPT ![s] = Append(@, m)]
            ELSE downQ' = downQ
  /\ sendQ' = Tail(sendQ)
  /\ UNCHANGED <<recvQ, errorQ, statusQ, sender, putting, registry, conns, chat, upQ, workers, asked, calls, history>>

ReportError ==
  /\ sender # Nothing /\ Len(errorQ) < ErrorCap
  /\ errorQ' = Append(errorQ, sender)
  /\ sender' = Nothing
  /\ UNCHANGED <<sendQ, recvQ, statusQ, putting, registry, streams, workers, asked, calls, history>>

-----------------------------------------------------------------------------
(* The error loop: unregister the node, dispatch the job again.            *)

\* The slot given up is that of any node; with none left the job is dropped.
Redispatch(e) ==
  /\ nodes' = nodes \ {e.key}
  /\ IF e.key \in nodes
       THEN slots' = slots \/ \E g \in slots : slots' = slots \ {g}
       ELSE slots' = slots
  /\ IF slots' = {}
       THEN UNCHANGED <<jobNode, putting, again>>
       ELSE /\ again' = again \union {e.job}
            /\ \E k \in slots' :
                 /\ jobNode' = [jobNode EXCEPT ![e.job] = k]
                 /\ putting' = [putting EXCEPT !["err"] = Message("EXECUTE", k, e.job)]

HandleError ==
  /\ putting["err"] = Nothing /\ errorQ # <<>>
  /\ IF Head(errorQ).type = "error"
       THEN UNCHANGED <<registry, putting, again>>
       ELSE Redispatch(Head(errorQ))
  /\ errorQ' = Tail(errorQ)
  /\ UNCHANGED <<sendQ, recvQ, statusQ, sender, streams, workers, asked, calls, cancelled, lost, told>>

-----------------------------------------------------------------------------
(* The message loop and the hook.                                          *)

HandleMessage ==
  /\ recvQ # <<>>
  /\ LET m == Head(recvQ) IN
       \/ /\ m.type = "REGISTER"
          /\ nodes' = nodes \union {m.key}
          /\ slots' = IF m.key \in nodes THEN slots ELSE slots \union {m.key}
          /\ UNCHANGED <<jobNode, statusQ>>
       \/ /\ m.type = "RESULT"
          /\ Len(statusQ) < StatusCap /\ statusQ' = Append(statusQ, m.job)
          /\ UNCHANGED registry
       \/ m.type = "HEARTBEAT" /\ UNCHANGED <<registry, statusQ>>
  /\ recvQ' = Tail(recvQ)
  /\ UNCHANGED <<sendQ, errorQ, sender, putting, streams, workers, asked, calls, history>>

HookTakes ==
  /\ HasHook /\ statusQ # <<>>
  /\ statusQ' = Tail(statusQ)
  /\ UNCHANGED <<sendQ, recvQ, errorQ, sender, putting, registry, streams, workers, asked, calls, history>>

-----------------------------------------------------------------------------
(* AlineChat, one loop per stream.                                         *)

\* Fault: only a REGISTER says which stream is the worker's.
ChatRecvRegisterOnly(s) ==
  /\ s \in chat /\ upQ[s] # <<>> /\ Len(recvQ) < QueueBound
  /\ conns' = IF Head(upQ[s]).type = "REGISTER" THEN [conns EXCEPT ![s[1]] = s] ELSE conns
  /\ recvQ' = Append(recvQ, Head(upQ[s]))
  /\ upQ' = [upQ EXCEPT ![s] = Tail(@)]
  /\ UNCHANGED <<sendQ, errorQ, statusQ, sender, putting, registry, chat, downQ, workers, asked, calls, history>>

\* Every message makes its stream the one of its sender.
ChatRecv(s) ==
  /\ s \in chat /\ upQ[s] # <<>> /\ Len(recvQ) < QueueBound
  /\ conns' = [conns EXCEPT ![s[1]] = s]
  /\ recvQ' = Append(recvQ, Head(upQ[s]))
  /\ upQ' = [upQ EXCEPT ![s] = Tail(@)]
  /\ UNCHANGED <<sendQ, errorQ, statusQ, sender, putting, registry, chat, downQ, workers, asked, calls, history>>

\* Recv fails once the worker has gone; what was in transit may be lost.
ChatEnd(s) ==
  /\ s \in chat /\ (s[1] \in up => s # Stream(s[1]))
  /\ chat' = chat \ {s}
  /\ conns' = IF conns[s[1]] = s THEN [conns EXCEPT ![s[1]] = NoStream] ELSE conns
  /\ upQ' = [upQ EXCEPT ![s] = <<>>]
  /\ UNCHANGED <<channels, registry, downQ, workers, asked, calls, history>>

-----------------------------------------------------------------------------
(* The workers.                                                            *)

WorkerStart(k) ==
  /\ k \notin up /\ gen[k] < MaxStreams[k]
  /\ gen' = [gen EXCEPT ![k] = @ + 1] /\ up' = up \union {k}
  /\ chat' = chat \union {<<k, gen[k] + 1>>}
  /\ upQ' = [upQ EXCEPT ![<<k, gen[k] + 1>>] = <<Message("REGISTER", k, NoJob)>>]
  /\ UNCHANGED <<channels, registry, conns, downQ, running, asked, calls, history>>

\* A send error panics the worker; it never connects a second time by itself.
WorkerDies(k) ==
  /\ k \in up
  /\ up' = up \ {k} /\ running' = [running EXCEPT ![k] = {}]
  /\ downQ' = [downQ EXCEPT ![Stream(k)] = <<>>]
  /\ UNCHANGED <<channels, registry, conns, chat, upQ, gen, asked, calls, history>>

WorkerSays(k, t, j) ==
  /\ Len(upQ[Stream(k)]) < QueueBound
  /\ upQ' = [upQ EXCEPT ![Stream(k)] = Append(@, Message(t, k, j))]

Heartbeat(k) ==
  /\ k \in up
  /\ WorkerSays(k, "HEARTBEAT", NoJob)
  /\ UNCHANGED <<channels, registry, conns, chat, downQ, workers, asked, calls, history>>

\* EXECUTE starts the job; CANCEL answers STOP, whether it is known or not;
\* the answer to STATUS is the subject of StatusQuery.tla.
WorkerTakes(k) ==
  /\ k \in up /\ downQ[Stream(k)] # <<>>
  /\ LET m == Head(downQ[Stream(k)]) IN
       \/ /\ m.type = "EXECUTE"
          /\ running' = [running EXCEPT ![k] = @ \union {m.job}]
          /\ UNCHANGED upQ
       \/ m.type = "CANCEL" /\ WorkerSays(k, "RESULT", m.job) /\ UNCHANGED running
       \/ m.type = "STATUS" /\ UNCHANGED <<running, upQ>>
  /\ downQ' = [downQ EXCEPT ![Stream(k)] = Tail(@)]
  /\ UNCHANGED <<channels, registry, conns, chat, gen, up, asked, calls, history>>

JobEnds(k, j) ==
  /\ k \in up /\ j \in running[k]
  /\ running' = [running EXCEPT ![k] = @ \ {j}]
  /\ WorkerSays(k, "RESULT", j)
  /\ UNCHANGED <<channels, registry, conns, chat, downQ, gen, up, asked, calls, history>>

-----------------------------------------------------------------------------
SendLoop == SendFails \/ SendOk \/ ReportError
Call(c, j) == ExecuteJob(c, j) \/ CancelJob(c, j) \/ AskStatus(c, j)

Next ==
  \/ \E c \in Callers, j \in Jobs : Call(c, j)
  \/ \E p \in Putters : PutSend(p)
  \/ SendLoop \/ HandleError \/ HandleMessage \/ HookTakes
  \/ \E s \in Streams : ChatRecv(s) \/ ChatEnd(s)
  \/ \E k \in Keys : WorkerStart(k) \/ WorkerDies(k) \/ Heartbeat(k) \/ WorkerTakes(k)
  \/ \E k \in Keys, j \in Jobs : JobEnds(k, j)

\* The goroutines of the master and of a live worker keep being scheduled,
\* a worker's heartbeat is on a ticker, a broken stream is noticed.  A chat
\* loop that waits for room in RecvMsgChan gets it in the end, however many
\* others put messages there: a Go channel lets its senders in in turn.
Fairness ==
  /\ WF_vars(SendLoop) /\ WF_vars(HandleError) /\ WF_vars(HandleMessage) /\ WF_vars(HookTakes)
  /\ \A p \in Putters : WF_vars(PutSend(p))
  /\ \A s \in Streams : SF_vars(ChatRecv(s)) /\ WF_vars(ChatEnd(s))
  /\ \A k \in Keys : WF_vars(Heartbeat(k)) /\ WF_vars(WorkerTakes(k))

Spec == Init /\ [][Next]_vars /\ Fairness

-----------------------------------------------------------------------------
(* Properties.                                                             *)

Messages == [type : {"REGISTER", "HEARTBEAT", "RESULT", "EXECUTE", "CANCEL", "STATUS", "error", "none"},
             key : Keys \union {NoKey}, job : Jobs \union {NoJob}]
AnyStream == Streams \union {NoStream}

TypeOK ==
  /\ {sendQ, recvQ, errorQ} \subseteq Seq(Messages) /\ statusQ \in Seq(Jobs)
  /\ Len(sendQ) <= SendCap /\ Len(errorQ) <= ErrorCap /\ Len(statusQ) <= StatusCap
  /\ sender \in Messages /\ putting \in [Putters -> Messages]
  /\ slots \subseteq Keys /\ nodes \subseteq Keys /\ jobNode \in [Jobs -> Keys \union {NoKey}]
  /\ conns \in [Keys -> AnyStream] /\ \A k \in Keys : conns[k] # NoStream => conns[k][1] = k
  /\ chat \subseteq Streams
  /\ {upQ, downQ} \subseteq [Streams -> Seq(Messages)]
  /\ \A k \in Keys : gen[k] \in 0 .. MaxStreams[k]
  /\ up \subseteq Keys /\ running \in [Keys -> SUBSET Jobs]

\* A job that nobody has cancelled runs on one node at most.
OneRunner ==
  \A j \in Jobs \ cancelled : Cardinality({k \in Keys : j \in running[k]}) <= 1

\* No stream is kept for a connection whose AlineChat loop has ended.
ConnsAreOpen == \A k \in Keys : conns[k] # NoStream => conns[k] \in chat

\* All three: the types hold, an execution has one runner, and the server
\* never sends on a stream that has ended.
LinkInv == TypeOK /\ OneRunner /\ ConnsAreOpen

\* A worker that is up is reachable, again and again: an old stream's late
\* message or late end may take its place or its entry in conns, but the next
\* heartbeat gives it back.
ReachableAgain == \A k \in Keys : []<>(k \in up => conns[k] = Stream(k))

-----------------------------------------------------------------------------
(* What the comments of the code say and the code does not do.             *)

\* engine_master.go:147 and aline_grpc_server.go:119: when a job could not be
\* sent, the layer above is told, and dispatches it again.
FailedExecuteIsReported == lost \subseteq told

\* engine_master.go:147: what is dispatched again is a job that could not be sent.
OnlyFailedExecutesRunAgain == again \subseteq lost

\* aline_grpc_server.go:119: ErrorChan tells the layer above of a failure: the
\* send loop does not stay blocked on it.
FailureIsTold == sender # Nothing ~> sender = Nothing
=============================================================================
