--------------------------- MODULE JobStoreProofs ---------------------------
(***************************************************************************)
(* Proofs about JobStore: no yaml without a name is ever saved, a file is  *)
(* empty only for the reasons EmptyHasACause gives, and the files are what *)
(* the operations make of them, one after the other, where no two have met *)
(* (DiskIsBook).                                                           *)
(***************************************************************************)
EXTENDS JobStore, TLAPS

Saving == {"check", "dir", "file", "open", "write"}
Nameless(t) == t.kind = "yaml" /\ t.name = NoName
Frames ==
  [op : {"none", "CreateJob", "SaveJobParams", "SaveJobUserId", "UpdateJob", "DeleteJob", "CreateJobDetail",
         "DeleteJobDetail", "MakeJobStop", "GetJob", "SaveLog", "WorkerSaves"},
   name : Names \union {NoName}, new : Names \union {NoName}, id : Ids \union {0},
   at : {"read", "open", "write", "check", "dir", "file", "remove"},
   to : (Names \union {NoName}) \X (Files \union {Yaml(NoName)}),
   data : Contents \ {NoFile}, fd : Paths \union {Nowhere}]

\* What an operation under way knows by its place.
CallOK(c) ==
  /\ c \in Frames
  /\ c.op = "none" => c.at = "read"
  /\ c.op # "none" => c.name \in Names /\ c.new \in Names
  /\ c.op \in {"CreateJobDetail", "DeleteJobDetail", "MakeJobStop", "SaveLog"} => c.id \in Ids
  /\ c.at \in {"check", "dir", "file"} => c.name # c.new /\ c.to = <<c.new, Yaml(c.new)>>
  /\ c.at = "remove" => c.to \in Paths
  /\ c.at \in Saving /\ c.to[1] # NoName => c.to \in Paths

\* What is going to be saved has a name, or will not be; and is not empty but
\* for a text that was dispatched empty.
DataOK(c) ==
  c.at \in Saving =>
    /\ Nameless(c.data) => c.at = "open" /\ c.to[1] = NoName
    /\ c.data = Empty => emptySent

Stored == [Names -> [Files -> Contents]]

TypeInv ==
  /\ disk \in Stored /\ book \in Stored
  /\ dirs \in [Names -> {"none", "dir", "full"}]
  /\ call \in [Processes -> Frames]
  /\ \A p \in Processes : CallOK(call[p])
  /\ sent \subseteq Names \X (Contents \ {NoFile})
  /\ mixed \subseteq Paths
  /\ crashes \in Nat /\ emptySent \in BOOLEAN

DataInv == \A p \in Processes : DataOK(call[p])
SentInv == \A m \in sent : ~Nameless(m[2]) /\ (m[2] = Empty => emptySent)
NamesInv == \A n \in Names, f \in Files : ~Nameless(disk[n][f])

IInv == TypeInv /\ DataInv /\ SentInv /\ NamesInv /\ EmptyHasACause

-----------------------------------------------------------------------------
(* Facts about contents and operations.                                    *)

LEMMA ContentFacts ==
  /\ {NoFile, Empty, Garbled} \subseteq Contents
  /\ Empty # NoFile /\ Garbled # NoFile /\ Garbled # Empty
  /\ ~Nameless(NoFile) /\ ~Nameless(Empty) /\ ~Nameless(Garbled)
  /\ \A k \in {"notrun", "hollow", "sent", "stop", "log"} :
       Other(k) \in Contents \ {NoFile, Empty, Garbled} /\ ~Nameless(Other(k))
  /\ \A n \in Names \union {NoName}, b, c \in BOOLEAN :
       Text(n, b, c) \in Contents \ {NoFile, Empty, Garbled}
  /\ \A n \in Names, b, c \in BOOLEAN : ~Nameless(Text(n, b, c))
BY NamesAssumption DEF NoFile, Empty, Garbled, Contents, Nameless, Other, Text

LEMMA MarkedContents ==
  ASSUME NEW t \in Contents
  PROVE  /\ [t EXCEPT !.params = TRUE] \in Contents /\ [t EXCEPT !.user = TRUE] \in Contents
         /\ ~Nameless(t) => ~Nameless([t EXCEPT !.params = TRUE]) /\ ~Nameless([t EXCEPT !.user = TRUE])
         /\ t.kind = "yaml" => [t EXCEPT !.params = TRUE] \notin {NoFile, Empty} /\ [t EXCEPT !.user = TRUE] \notin {NoFile, Empty}
BY DEF Contents, Nameless, NoFile, Empty, Other

LEMMA PathFacts ==
  /\ \A n \in Names : <<n, Yaml(n)>> \in Paths
  /\ \A n \in Names, i \in Ids \union {0} : <<n, Detail(i)>> \in Paths
  /\ \A n \in Names, i \in Ids : <<n, LogOf(i)>> \in Paths
  /\ Paths \subseteq (Names \union {NoName}) \X (Files \union {Yaml(NoName)})
  /\ <<NoName, Yaml(NoName)>> \in (Names \union {NoName}) \X (Files \union {Yaml(NoName)})
BY DEF Paths, Files, Yaml, Detail, LogOf

LEMMA IdleOK == CallOK(Idle) /\ DataOK(Idle) /\ Idle \in Frames /\ Idle.at = "read"
<1>1. Idle = [op |-> "none", name |-> NoName, new |-> NoName, id |-> 0, at |-> "read",
              to |-> <<NoName, Yaml(NoName)>>, data |-> Empty, fd |-> Nowhere]
  BY DEF Idle, Call
<1>2. Idle \in Frames
  BY <1>1, ContentFacts, PathFacts DEF Frames
<1> QED BY <1>1, <1>2 DEF CallOK, DataOK, Saving

LEMMA UsesArePaths == ASSUME NEW c, CallOK(c) PROVE Uses(c) \subseteq Paths
<1>1. CASE c.op = "none" \/ c.op = "GetJob"
  BY <1>1 DEF Uses
<1>2. CASE c.op = "UpdateJob"
  BY <1>2 DEF Uses, CallOK, Paths
<1>3. CASE c.op \in {"CreateJobDetail", "DeleteJobDetail", "MakeJobStop", "SaveLog"}
  BY <1>3, PathFacts DEF Uses, CallOK
<1>4. CASE c.op \in {"CreateJob", "SaveJobParams", "SaveJobUserId", "DeleteJob", "WorkerSaves"}
  BY <1>4, PathFacts DEF Uses, CallOK
<1> QED BY <1>1, <1>2, <1>3, <1>4 DEF CallOK, Frames

-----------------------------------------------------------------------------
(* What the steps have in common.                                          *)

\* One operation moves on: the others keep what they know.
LEMMA CallMoves ==
  ASSUME TypeInv, DataInv, NEW p \in Processes, NEW c, CallOK(c), DataOK(c),
         call' = [call EXCEPT ![p] = c], emptySent => emptySent'
  PROVE  call' \in [Processes -> Frames] /\ (\A q \in Processes : CallOK(call'[q])) /\ DataInv'
<1>1. c \in Frames
  BY DEF CallOK
<1>2. call' \in [Processes -> Frames]
  BY <1>1 DEF TypeInv
<1>3. \A q \in Processes : call'[q] = IF q = p THEN c ELSE call[q]
  BY DEF TypeInv
<1>4. \A q \in Processes : CallOK(call'[q])
  BY <1>3 DEF TypeInv
<1>5. DataInv'
  BY <1>3 DEF DataInv, DataOK
<1> QED BY <1>2, <1>4, <1>5

\* A step that leaves the files alone, of an operation that is not at a write.
LEMMA QuietStep ==
  ASSUME IInv, NEW p \in Processes, NEW c, CallOK(c), DataOK(c), call[p].at # "write",
         call' = [call EXCEPT ![p] = c], emptySent => emptySent', emptySent' \in BOOLEAN,
         disk' = disk, crashes' = crashes, SentInv', sent' \subseteq Names \X (Contents \ {NoFile}),
         dirs' \in [Names -> {"none", "dir", "full"}], book' \in Stored, mixed' \subseteq Paths
  PROVE  IInv'
<1>1. call' \in [Processes -> Frames] /\ (\A q \in Processes : CallOK(call'[q])) /\ DataInv'
  BY CallMoves DEF IInv
<1>2. TypeInv'
  BY <1>1 DEF IInv, TypeInv
<1>3. NamesInv'
  BY DEF IInv, NamesInv
<1>4. EmptyHasACause'
  <2> SUFFICES ASSUME NEW x \in Paths, disk[x[1]][x[2]] = Empty, ~(crashes > 0 \/ emptySent)
               PROVE  \E q \in Processes : call'[q].at = "write" /\ call'[q].fd = x
    BY DEF EmptyHasACause
  <2>1. PICK q \in Processes : call[q].at = "write" /\ call[q].fd = x
    BY DEF IInv, EmptyHasACause
  <2>2. call'[q] = call[q]
    BY <2>1 DEF IInv, TypeInv
  <2> QED BY <2>1, <2>2
<1> QED BY <1>1, <1>2, <1>3, <1>4 DEF IInv

LEMMA BeginKeeps ==
  ASSUME IInv, NEW p \in Processes, NEW c, CallOK(c), DataOK(c), Begin(p, c), sent' \subseteq sent
  PROVE  IInv'
<1>1. call[p].at = "read"
  BY DEF IInv, TypeInv, CallOK, Begin, Busy
<1>2. Mixes(c) \subseteq Paths
  <2>1. Uses(c) \subseteq Paths /\ \A q \in Processes : Uses(call[q]) \subseteq Paths
    BY UsesArePaths DEF IInv, TypeInv
  <2> QED BY <2>1 DEF Mixes, UsedWith
<1>3. SentInv' /\ sent' \subseteq Names \X (Contents \ {NoFile})
  BY DEF IInv, TypeInv, SentInv, Begin
<1>4. DataOK(c)
  OBVIOUS
<1> QED BY <1>1, <1>2, <1>3, <1>4, QuietStep DEF Begin, IInv, TypeInv

\* What a history of whole operations says is files again.
LEMMA DoneIsStored ==
  ASSUME TypeInv, NEW c, CallOK(c)
  PROVE  Done(c) \in Stored
<1> DEFINE y == Yaml(c.name)
           d == Detail(c.id)
<1>1. book \in Stored
  BY DEF TypeInv
<1>2. CASE c.op = "none" \/ c.op = "GetJob"
  BY <1>1, <1>2 DEF Done
<1> SUFFICES ASSUME c.op \notin {"none", "GetJob"} PROVE Done(c) \in Stored
  BY <1>2
<1>3. c.name \in Names /\ c.new \in Names /\ y \in Files /\ Yaml(c.new) \in Files
  BY DEF CallOK, Files
<1>4. c.data \in Contents
  BY DEF CallOK, Frames
<1>5. \A k \in {"notrun", "sent", "stop", "log"} : Other(k) \in Contents
  BY ContentFacts
<1>6. NoFile \in Contents /\ NoFiles \in [Files -> Contents]
  BY ContentFacts DEF NoFiles
<1>7. CASE c.op = "CreateJob" \/ c.op = "WorkerSaves"
  BY <1>1, <1>3, <1>4, <1>7 DEF Done, Stored
<1>8. CASE c.op = "SaveJobParams"
  <2>1. CASE book[c.name][y].kind = "yaml"
    <3>1. [book[c.name][y] EXCEPT !.params = TRUE] \in Contents
      BY <1>1, <1>3, MarkedContents DEF Stored
    <3>2. Done(c) = [book EXCEPT ![c.name][y].params = TRUE]
      BY <1>8, <2>1 DEF Done
    <3> QED BY <1>1, <1>3, <3>1, <3>2 DEF Stored
  <2> QED BY <1>1, <1>8, <2>1 DEF Done
<1>9. CASE c.op = "SaveJobUserId"
  <2>1. CASE book[c.name][y].kind = "yaml"
    <3>1. [book[c.name][y] EXCEPT !.user = TRUE] \in Contents
      BY <1>1, <1>3, MarkedContents DEF Stored
    <3>2. Done(c) = [book EXCEPT ![c.name][y].user = TRUE]
      BY <1>9, <2>1 DEF Done
    <3> QED BY <1>1, <1>3, <3>1, <3>2 DEF Stored
  <2> QED BY <1>1, <1>9, <2>1 DEF Done
<1>10. CASE c.op = "UpdateJob"
  <2>1. Done(c) = [book EXCEPT ![c.name] = NoFiles,
                     ![c.new] = [book[c.name] EXCEPT ![y] = NoFile, ![Yaml(c.new)] = c.data]]
    BY <1>10 DEF Done
  <2>2. [book[c.name] EXCEPT ![y] = NoFile, ![Yaml(c.new)] = c.data] \in [Files -> Contents]
    BY <1>1, <1>3, <1>4, <1>6 DEF Stored
  <2> QED BY <1>1, <1>3, <1>6, <2>1, <2>2 DEF Stored
<1>11. CASE c.op = "DeleteJob"
  BY <1>1, <1>3, <1>6, <1>11 DEF Done, Stored
<1>12. CASE c.op \in {"DeleteJobDetail", "CreateJobDetail", "MakeJobStop", "SaveLog"}
  <2>1. d \in Files /\ (c.op = "SaveLog" => LogOf(c.id) \in Files)
    BY <1>12 DEF CallOK, Files
  <2>2. CASE c.op = "DeleteJobDetail"
    BY <1>1, <1>3, <1>6, <2>1, <2>2 DEF Done, Stored
  <2>3. CASE c.op = "CreateJobDetail"
    BY <1>1, <1>3, <1>5, <2>1, <2>3 DEF Done, Stored
  <2>4. CASE c.op = "MakeJobStop"
    BY <1>1, <1>3, <1>5, <2>1, <2>4 DEF Done, Stored
  <2>5. CASE c.op = "SaveLog"
    <3>1. Done(c) = [book EXCEPT ![c.name][d] = Other("sent"), ![c.name][LogOf(c.id)] = Other("log")]
      BY <2>5 DEF Done
    <3> QED BY <1>1, <1>3, <1>5, <2>1, <2>5, <3>1 DEF Stored
  <2> QED BY <1>12, <2>2, <2>3, <2>4, <2>5
<1> QED BY <1>7, <1>8, <1>9, <1>10, <1>11, <1>12 DEF CallOK, Frames

-----------------------------------------------------------------------------
(* The operations begin.                                                   *)

Detailed == {"CreateJobDetail", "DeleteJobDetail", "MakeJobStop", "SaveLog"}
Operations ==
  {"CreateJob", "SaveJobParams", "SaveJobUserId", "UpdateJob", "DeleteJob", "GetJob", "WorkerSaves"} \union Detailed

\* An operation that has just begun.
Begun ==
  [op : Operations, name : Names, new : Names, id : Ids \union {0}, at : {"read", "open", "check", "remove"},
   to : Paths, data : Contents \ {NoFile}, fd : {Nowhere}]

LEMMA BegunIsOK ==
  ASSUME NEW c \in Begun, c.op \in Detailed => c.id \in Ids,
         c.at \in {"open", "check"} => ~Nameless(c.data) /\ (c.data = Empty => emptySent),
         c.at = "check" => c.name # c.new /\ c.to = <<c.new, Yaml(c.new)>>
  PROVE  CallOK(c) /\ DataOK(c)
<1>1. c \in Frames
  BY PathFacts DEF Begun, Frames, Operations, Detailed
<1>2. CallOK(c)
  BY <1>1 DEF CallOK, Begun, Operations, Detailed
<1>3. DataOK(c)
  BY DEF DataOK, Saving, Begun
<1> QED BY <1>2, <1>3

LEMMA GivenFacts ==
  ASSUME NEW n \in Names, NEW t \in Given(n)
  PROVE  t \in Contents \ {NoFile, Empty} /\ ~Nameless(t)
<1>1. PICK m \in Names : t = Text(m, FALSE, FALSE)
  BY DEF Given
<1> QED BY <1>1, ContentFacts

LEMMA CreateJobKeeps == ASSUME IInv, NEW p \in Processes, NEW n \in Names, CreateJob(p, n) PROVE IInv'
<1>1. PICK t \in Given(n) :
        Begin(p, [Call("CreateJob", n, 0) EXCEPT !.at = "open", !.data = t]) /\ UNCHANGED sent
  BY DEF CreateJob
<1> DEFINE c == [Call("CreateJob", n, 0) EXCEPT !.at = "open", !.data = t]
<1>2. t \in Contents \ {NoFile}
  BY GivenFacts
<1>3. c \in Begun /\ c.op \notin Detailed /\ c.at = "open" /\ c.data = t
  BY <1>2, PathFacts DEF Call, Begun, Operations, Detailed
<1> HIDE DEF c
<1>4. CallOK(c) /\ DataOK(c)
  BY <1>3, BegunIsOK, GivenFacts
<1> QED BY <1>1, <1>4, BeginKeeps DEF c

\* The operations that begin with a read.
LEMMA ReadersKeep ==
  ASSUME IInv, NEW p \in Processes, NEW op \in Operations, NEW n \in Names, NEW i \in Ids \union {0},
         op \in Detailed => i \in Ids, Begin(p, Call(op, n, i)), UNCHANGED sent
  PROVE  IInv'
<1> DEFINE c == Call(op, n, i)
<1>1. c \in Begun /\ c.op = op /\ c.id = i /\ c.at = "read"
  BY ContentFacts, PathFacts DEF Call, Begun
<1> HIDE DEF c
<1>2. CallOK(c) /\ DataOK(c)
  BY <1>1, BegunIsOK
<1> QED BY <1>2, BeginKeeps DEF c

LEMMA UpdateJobKeeps ==
  ASSUME IInv, NEW p \in Processes, NEW n \in Names, NEW m \in Names, UpdateJob(p, n, m) PROVE IInv'
<1> DEFINE at == IF n = m THEN "open" ELSE "check"
           Renamed(t) == [Call("UpdateJob", n, 0) EXCEPT !.new = m, !.at = at, !.to = <<m, Yaml(m)>>, !.data = t]
<1>1. PICK t \in Given(m) : Begin(p, Renamed(t)) /\ UNCHANGED sent
  BY DEF UpdateJob
<1> DEFINE c == Renamed(t)
<1>2. (at = "check" /\ n # m) \/ at = "open"
  OBVIOUS
<1> HIDE DEF at
<1>3. t \in Contents \ {NoFile}
  BY GivenFacts
<1>4. /\ c \in Begun /\ c.op \notin Detailed /\ c.data = t
      /\ c.at = "check" => c.name # c.new /\ c.to = <<c.new, Yaml(c.new)>>
  BY <1>2, <1>3, PathFacts DEF Call, Begun, Operations, Detailed
<1> HIDE DEF c
<1>5. CallOK(c) /\ DataOK(c)
  BY <1>4, BegunIsOK, GivenFacts
<1> QED BY <1>1, <1>5, BeginKeeps DEF c

LEMMA DeleteJobKeeps == ASSUME IInv, NEW p \in Processes, NEW n \in Names, DeleteJob(p, n) PROVE IInv'
<1> DEFINE c == [Call("DeleteJob", n, 0) EXCEPT !.at = "remove"]
<1>1. c \in Begun /\ c.op \notin Detailed /\ c.at = "remove"
  BY ContentFacts, PathFacts DEF Call, Begun, Operations, Detailed
<1> HIDE DEF c
<1>2. CallOK(c) /\ DataOK(c)
  BY <1>1, BegunIsOK
<1> QED BY <1>2, BeginKeeps DEF DeleteJob, c

LEMMA DeleteJobDetailKeeps ==
  ASSUME IInv, NEW p \in Processes, NEW n \in Names, NEW i \in Ids, DeleteJobDetail(p, n, i) PROVE IInv'
<1> DEFINE c == [Call("DeleteJobDetail", n, i) EXCEPT !.at = "remove", !.to = <<n, Detail(i)>>]
<1>1. c \in Begun /\ c.id \in Ids /\ c.at = "remove"
  BY ContentFacts, PathFacts DEF Call, Begun, Operations, Detailed
<1> HIDE DEF c
<1>2. CallOK(c) /\ DataOK(c)
  BY <1>1, BegunIsOK
<1> QED BY <1>2, BeginKeeps DEF DeleteJobDetail, c

LEMMA SaveLogKeeps == ASSUME IInv, NEW n \in Names, NEW i \in Ids, SaveLog(n, i) PROVE IInv'
<1> DEFINE c == [Call("SaveLog", n, i) EXCEPT !.at = "open", !.to = <<n, LogOf(i)>>, !.data = Other("log")]
<1>1. c \in Begun /\ c.id \in Ids /\ c.at = "open" /\ c.data = Other("log")
  BY ContentFacts, PathFacts DEF Call, Begun, Operations, Detailed
<1> HIDE DEF c
<1>2. CallOK(c) /\ DataOK(c)
  BY <1>1, ContentFacts, BegunIsOK
<1>3. "loop" \in Processes
  BY DEF Processes
<1> QED BY <1>2, <1>3, BeginKeeps DEF SaveLog, c

LEMMA WorkerSavesKeeps == ASSUME IInv, WorkerSaves PROVE IInv'
<1>1. PICK m \in sent : /\ Begin("worker", [Call("WorkerSaves", m[1], 0) EXCEPT !.at = "open", !.data = m[2]])
                        /\ sent' = sent \ {m}
  BY DEF WorkerSaves
<1> DEFINE c == [Call("WorkerSaves", m[1], 0) EXCEPT !.at = "open", !.data = m[2]]
<1>2. m[1] \in Names /\ m[2] \in Contents \ {NoFile} /\ ~Nameless(m[2]) /\ (m[2] = Empty => emptySent)
  BY DEF IInv, TypeInv, SentInv
<1>3. c \in Begun /\ c.op \notin Detailed /\ c.at = "open" /\ c.data = m[2]
  BY <1>2, PathFacts DEF Call, Begun, Operations, Detailed
<1> HIDE DEF c
<1>4. CallOK(c) /\ DataOK(c)
  BY <1>2, <1>3, BegunIsOK
<1>5. "worker" \in Processes
  BY DEF Processes
<1>6. sent' \subseteq sent
  BY <1>1
<1> QED BY <1>1, <1>4, <1>5, <1>6, BeginKeeps DEF c

LEMMA BeginsKeep == ASSUME IInv, NEW p \in Callers, NEW n \in Names, Begins(p, n) PROVE IInv'
<1>1. p \in Processes
  BY DEF Processes
<1>2. ASSUME SaveJobParams(p, n) \/ SaveJobUserId(p, n) \/ GetJob(p, n) PROVE IInv'
  BY <1>1, <1>2, ReadersKeep DEF SaveJobParams, SaveJobUserId, GetJob, Operations, Detailed
<1>3. ASSUME NEW i \in Ids, CreateJobDetail(p, n, i) \/ MakeJobStop(p, n, i) PROVE IInv'
  BY <1>1, <1>3, ReadersKeep DEF CreateJobDetail, MakeJobStop, Operations, Detailed
<1> QED BY <1>1, <1>2, <1>3, CreateJobKeeps, DeleteJobKeeps, UpdateJobKeeps, DeleteJobDetailKeeps DEF Begins


-----------------------------------------------------------------------------
(* The operations read.                                                    *)

LEMMA FailsKeeps ==
  ASSUME IInv, NEW p \in Processes, call[p].at # "write", Fails(p),
         UNCHANGED <<disk, sent, crashes, mixed, emptySent>>, dirs' \in [Names -> {"none", "dir", "full"}]
  PROVE  IInv'
<1>1. SentInv' /\ sent' \subseteq Names \X (Contents \ {NoFile}) /\ mixed' \subseteq Paths
      /\ book' \in Stored
  BY DEF IInv, TypeInv, SentInv, Fails
<1>2. emptySent' \in BOOLEAN
  BY DEF IInv, TypeInv
<1> QED BY <1>1, <1>2, IdleOK, QuietStep DEF Fails

\* The operation c goes on as d, to save something.
LEMMA SaverIsOK ==
  ASSUME NEW c, CallOK(c), c.op # "none",
         NEW d \in Frames, d.op = c.op, d.name = c.name, d.new = c.new, d.id = c.id, d.at = "open",
         d.to \in Paths \/ d.to[1] = NoName, Nameless(d.data) => d.to[1] = NoName, d.data = Empty => emptySent
  PROVE  CallOK(d) /\ DataOK(d)
<1>1. CallOK(d)
  BY DEF CallOK
<1>2. DataOK(d)
  BY DEF DataOK
<1> QED BY <1>1, <1>2

LEMMA SaverKeeps ==
  ASSUME IInv, NEW p \in Processes, call[p].at # "write", call[p].op # "none",
         NEW d \in Frames, d.op = call[p].op, d.name = call[p].name, d.new = call[p].new, d.id = call[p].id,
         d.at = "open", d.to \in Paths \/ d.to[1] = NoName, Nameless(d.data) => d.to[1] = NoName,
         d.data = Empty => emptySent, call' = [call EXCEPT ![p] = d],
         UNCHANGED <<disk, sent, crashes, book, mixed, emptySent>>, dirs' \in [Names -> {"none", "dir", "full"}]
  PROVE  IInv'
<1>1. CallOK(d) /\ DataOK(d)
  BY SaverIsOK DEF IInv, TypeInv
<1>2. SentInv' /\ sent' \subseteq Names \X (Contents \ {NoFile}) /\ mixed' \subseteq Paths
      /\ book' \in Stored
  BY DEF IInv, TypeInv, SentInv
<1>3. emptySent' \in BOOLEAN
  BY DEF IInv, TypeInv
<1> QED BY <1>1, <1>2, <1>3, QuietStep

LEMMA ReadFacts ==
  ASSUME IInv, NEW p \in Processes, call[p].op # "none"
  PROVE  /\ call[p].name \in Names /\ call[p] \in Frames /\ Read(p) \in Contents /\ ~Nameless(Read(p))
         /\ Read(p) \notin Unreadable =>
              /\ Parsed(Read(p)) \in Contents
              /\ Parsed(Read(p)).name = NoName \/ Parsed(Read(p)).name \in Names
              /\ Parsed(Read(p)) # NoFile
<1>1. call[p].name \in Names /\ call[p] \in Frames
  BY DEF IInv, TypeInv, CallOK
<1>2. Read(p) \in Contents /\ ~Nameless(Read(p))
  BY <1>1 DEF Read, IInv, TypeInv, Stored, NamesInv, Files
<1>3. ASSUME Read(p) \notin Unreadable
      PROVE  Parsed(Read(p)) \in Contents /\ Parsed(Read(p)) # NoFile
  BY <1>2, <1>3, ContentFacts DEF Parsed, Unreadable
<1> QED BY <1>1, <1>2, <1>3 DEF Contents

LEMMA UnderName ==
  ASSUME NEW t \in Contents
  PROVE  /\ <<t.name, Yaml(t.name)>> \in (Names \union {NoName}) \X (Files \union {Yaml(NoName)})
         /\ <<t.name, Yaml(t.name)>> \in Paths \/ <<t.name, Yaml(t.name)>>[1] = NoName
         /\ t.name = NoName => <<t.name, Yaml(t.name)>>[1] = NoName
<1>1. t.name = NoName \/ t.name \in Names
  BY DEF Contents
<1> QED BY <1>1, PathFacts

LEMMA ReadForParamsKeeps == ASSUME IInv, NEW p \in Processes, ReadForParams(p) PROVE IInv'
<1> DEFINE t == Parsed(Read(p))
           d == [call[p] EXCEPT !.at = "open", !.to = SavedUnder(p, t), !.data = [t EXCEPT !.params = TRUE]]
<1>1. call[p].at # "write" /\ call[p].op # "none"
  BY DEF ReadForParams
<1>2. CASE Read(p) \in Unreadable
  BY <1>1, <1>2, FailsKeeps DEF ReadForParams, IInv, TypeInv
<1>3. CASE Read(p) \notin Unreadable
  <2>1. t \in Contents /\ call[p] \in Frames
    BY <1>1, <1>3, ReadFacts
  <2> DEFINE x == [t EXCEPT !.params = TRUE]
  <2>2. x \in Contents \ {NoFile} /\ x # Empty /\ x.name = t.name
    BY <2>1 DEF Contents, NoFile, Empty, Other
  <2> HIDE DEF t
  <2>3. SavedUnder(p, t) = <<t.name, Yaml(t.name)>>
    BY DEF SavedUnder
  <2>4. /\ d \in Frames /\ d.op = call[p].op /\ d.name = call[p].name /\ d.new = call[p].new /\ d.id = call[p].id
        /\ d.at = "open" /\ d.to = <<t.name, Yaml(t.name)>> /\ d.data = x
    BY <2>1, <2>2, <2>3, UnderName DEF Frames
  <2>5. call' = [call EXCEPT ![p] = d] /\ UNCHANGED <<disk, dirs, sent, crashes, book, mixed, emptySent>>
    BY <1>3 DEF ReadForParams, t
  <2>6. dirs' \in [Names -> {"none", "dir", "full"}]
    BY <2>5 DEF IInv, TypeInv
  <2> HIDE DEF d, x
  <2>7. Nameless(d.data) => d.to[1] = NoName
    BY <2>1, <2>2, <2>4, UnderName DEF Nameless
  <2> QED BY <1>1, <2>1, <2>2, <2>4, <2>5, <2>6, <2>7, UnderName, SaverKeeps
<1> QED BY <1>2, <1>3

LEMMA ReadForUserIdKeeps == ASSUME IInv, NEW p \in Processes, ReadForUserId(p) PROVE IInv'
<1> DEFINE t == Parsed(Read(p))
           d == [call[p] EXCEPT !.at = "open", !.to = SavedUnder(p, t), !.data = [t EXCEPT !.user = TRUE]]
<1>1. call[p].at # "write" /\ call[p].op # "none"
  BY DEF ReadForUserId
<1>2. t \in Contents /\ call[p] \in Frames
  BY <1>1, ReadFacts DEF ReadForUserId
<1> DEFINE x == [t EXCEPT !.user = TRUE]
<1>3. x \in Contents \ {NoFile} /\ x # Empty /\ x.name = t.name
  BY <1>2 DEF Contents, NoFile, Empty, Other
<1> HIDE DEF t
<1>4. SavedUnder(p, t) = <<t.name, Yaml(t.name)>>
  BY DEF SavedUnder
<1>5. /\ d \in Frames /\ d.op = call[p].op /\ d.name = call[p].name /\ d.new = call[p].new /\ d.id = call[p].id
      /\ d.at = "open" /\ d.to = <<t.name, Yaml(t.name)>> /\ d.data = x
  BY <1>2, <1>3, <1>4, UnderName DEF Frames
<1>6. call' = [call EXCEPT ![p] = d] /\ UNCHANGED <<disk, dirs, sent, crashes, book, mixed, emptySent>>
  BY DEF ReadForUserId, t
<1>7. dirs' \in [Names -> {"none", "dir", "full"}]
  BY <1>6 DEF IInv, TypeInv
<1> HIDE DEF d, x
<1>8. Nameless(d.data) => d.to[1] = NoName
  BY <1>2, <1>3, <1>5, UnderName DEF Nameless
<1> QED BY <1>1, <1>2, <1>3, <1>5, <1>6, <1>7, <1>8, UnderName, SaverKeeps

LEMMA ReadForDetailKeeps == ASSUME IInv, NEW p \in Processes, ReadForDetail(p) PROVE IInv'
<1> DEFINE x == Other(IF Read(p) = Empty THEN "hollow" ELSE "notrun")
           d == [call[p] EXCEPT !.at = "open", !.to = <<call[p].name, Detail(call[p].id)>>, !.data = x]
<1>1. call[p].at # "write" /\ call[p].op # "none" /\ call[p].op = "CreateJobDetail"
  BY DEF ReadForDetail
<1>2. dirs' \in [Names -> {"none", "dir", "full"}]
  BY DEF ReadForDetail, IInv, TypeInv
<1>3. UNCHANGED <<disk, sent, crashes, mixed, emptySent>>
  BY DEF ReadForDetail
<1>4. CASE Fails(p)
  BY <1>1, <1>2, <1>3, <1>4, FailsKeeps
<1>5. CASE call' = [call EXCEPT ![p] = d] /\ book' = book
  <2>1. call[p].name \in Names /\ call[p].id \in Ids /\ call[p] \in Frames
    BY <1>1 DEF IInv, TypeInv, CallOK
  <2>2. x \in Contents \ {NoFile, Empty} /\ ~Nameless(x)
    BY ContentFacts
  <2> HIDE DEF x
  <2>3. <<call[p].name, Detail(call[p].id)>> \in Paths
    BY <2>1, PathFacts
  <2>4. /\ d \in Frames /\ d.op = call[p].op /\ d.name = call[p].name /\ d.new = call[p].new /\ d.id = call[p].id
        /\ d.at = "open" /\ d.to = <<call[p].name, Detail(call[p].id)>> /\ d.data = x
    BY <2>1, <2>2, <2>3, PathFacts DEF Frames
  <2> HIDE DEF d
  <2> QED BY <1>1, <1>2, <1>3, <1>5, <2>2, <2>3, <2>4, SaverKeeps
<1> QED BY <1>4, <1>5 DEF ReadForDetail

LEMMA ReadForStopKeeps == ASSUME IInv, NEW p \in Processes, ReadForStop(p) PROVE IInv'
<1> DEFINE f == disk[call[p].name][Detail(call[p].id)]
           i == IF f = Empty THEN 0 ELSE call[p].id
           d == [call[p] EXCEPT !.at = "open", !.data = Other("stop"), !.to = <<call[p].name, Detail(i)>>]
<1>1. call[p].at # "write" /\ call[p].op # "none" /\ call[p].op = "MakeJobStop"
  BY DEF ReadForStop
<1>2. UNCHANGED <<disk, dirs, sent, crashes, mixed, emptySent>>
  BY DEF ReadForStop
<1>3. dirs' \in [Names -> {"none", "dir", "full"}]
  BY <1>2 DEF IInv, TypeInv
<1>4. CASE Fails(p)
  BY <1>1, <1>2, <1>3, <1>4, FailsKeeps
<1>5. CASE call' = [call EXCEPT ![p] = d] /\ book' = book
  <2>1. call[p].name \in Names /\ call[p].id \in Ids /\ call[p] \in Frames
    BY <1>1 DEF IInv, TypeInv, CallOK
  <2>2. i \in Ids \union {0}
    BY <2>1
  <2> HIDE DEF i
  <2>3. <<call[p].name, Detail(i)>> \in Paths
    BY <2>1, <2>2, PathFacts
  <2>4. Other("stop") \in Contents \ {NoFile, Empty} /\ ~Nameless(Other("stop"))
    BY ContentFacts
  <2>5. /\ d \in Frames /\ d.op = call[p].op /\ d.name = call[p].name /\ d.new = call[p].new /\ d.id = call[p].id
        /\ d.at = "open" /\ d.to = <<call[p].name, Detail(i)>> /\ d.data = Other("stop")
    BY <2>1, <2>3, <2>4, PathFacts DEF Frames
  <2> HIDE DEF d
  <2> QED BY <1>1, <1>2, <1>3, <1>5, <2>3, <2>4, <2>5, SaverKeeps
<1> QED BY <1>4, <1>5 DEF ReadForStop

LEMMA ReadForDispatchKeeps == ASSUME IInv, NEW p \in Processes, ReadForDispatch(p) PROVE IInv'
<1>1. call[p].at # "write" /\ call[p].op # "none"
  BY DEF ReadForDispatch
<1>2. call' = [call EXCEPT ![p] = Idle] /\ UNCHANGED <<disk, dirs, crashes, book>>
  BY DEF ReadForDispatch
<1>3. call[p].name \in Names /\ Read(p) \in Contents /\ ~Nameless(Read(p))
  BY <1>1, ReadFacts
<1>4. sent' \subseteq Names \X (Contents \ {NoFile})
  BY <1>3 DEF ReadForDispatch, IInv, TypeInv
<1>5. emptySent' \in BOOLEAN /\ (emptySent => emptySent')
  BY DEF ReadForDispatch, IInv, TypeInv
<1>6. SentInv'
  <2>1. CASE Read(p) = NoFile
    BY <2>1 DEF ReadForDispatch, IInv, SentInv
  <2>2. CASE Read(p) # NoFile
    <3>1. sent' = sent \union {<<call[p].name, Read(p)>>} /\ emptySent' = (emptySent \/ Read(p) = Empty)
      BY <2>2 DEF ReadForDispatch
    <3> SUFFICES ASSUME NEW m \in sent' PROVE ~Nameless(m[2]) /\ (m[2] = Empty => emptySent')
      BY DEF SentInv
    <3>2. CASE m \in sent
      BY <1>5, <3>2 DEF IInv, SentInv
    <3>3. CASE m = <<call[p].name, Read(p)>>
      <4>1. m[2] = Read(p)
        BY <3>3
      <4>2. Read(p) = Empty => emptySent'
        BY <3>1
      <4> QED BY <1>3, <4>1, <4>2
    <3> QED BY <3>1, <3>2, <3>3
  <2> QED BY <2>1, <2>2
<1>7. dirs' \in [Names -> {"none", "dir", "full"}] /\ book' \in Stored
  BY <1>2 DEF IInv, TypeInv
<1>8. mixed' \subseteq Paths
  <2>1. \A q \in Processes : Uses(call[q]) \subseteq Paths
    BY UsesArePaths DEF IInv, TypeInv
  <2> QED BY <2>1 DEF ReadForDispatch, UsedWith, IInv, TypeInv
<1> QED BY <1>1, <1>2, <1>4, <1>5, <1>6, <1>7, <1>8, IdleOK, QuietStep


-----------------------------------------------------------------------------
(* The operations save.                                                    *)

LEMMA OpenFailsKeeps == ASSUME IInv, NEW p \in Processes, OpenFails(p) PROVE IInv'
<1>1. dirs' \in [Names -> {"none", "dir", "full"}]
  BY DEF OpenFails, IInv, TypeInv
<1> QED BY <1>1, FailsKeeps DEF OpenFails

LEMMA OpenKeeps == ASSUME IInv, NEW p \in Processes, Open(p) PROVE IInv'
<1> DEFINE c == call[p]
           x == c.to
           d == [c EXCEPT !.at = "write", !.fd = x]
<1>1. c \in Frames /\ CallOK(c) /\ c.at = "open" /\ x[1] # NoName
  BY DEF Open, IInv, TypeInv
<1>2. x \in Paths /\ x[1] \in Names /\ x[2] \in Files
  BY <1>1 DEF CallOK, Saving, Paths
<1>3. d \in Frames /\ d.at = "write" /\ d.fd = x
  BY <1>1, <1>2 DEF Frames
<1>4. d.op = c.op /\ d.name = c.name /\ d.new = c.new /\ d.id = c.id /\ d.to = c.to /\ d.data = c.data
  BY <1>1 DEF Frames
<1>5. /\ call' = [call EXCEPT ![p] = d] /\ disk' = [disk EXCEPT ![x[1]][x[2]] = Empty]
      /\ UNCHANGED <<sent, ops, crashes, book, mixed, emptySent>>
  BY DEF Open
<1>6. dirs' \in [Names -> {"none", "dir", "full"}]
  BY DEF Open, IInv, TypeInv
<1> HIDE DEF d
<1>7. CallOK(d)
  BY <1>1, <1>2, <1>3, <1>4 DEF CallOK
<1>8. DataOK(d)
  BY <1>1, <1>2, <1>3, <1>4 DEF IInv, DataInv, DataOK, Saving
<1>9. call' \in [Processes -> Frames] /\ (\A q \in Processes : CallOK(call'[q])) /\ DataInv'
  BY <1>5, <1>7, <1>8, CallMoves DEF IInv
<1>10. disk' \in Stored /\ \A n \in Names, f \in Files :
         disk'[n][f] = IF n = x[1] /\ f = x[2] THEN Empty ELSE disk[n][f]
  BY <1>2, <1>5, ContentFacts DEF IInv, TypeInv, Stored
<1>11. TypeInv'
  BY <1>5, <1>6, <1>9, <1>10 DEF IInv, TypeInv
<1>12. SentInv'
  BY <1>5 DEF IInv, SentInv
<1>13. NamesInv'
  BY <1>10, ContentFacts DEF IInv, NamesInv
<1>14. EmptyHasACause'
  <2> SUFFICES ASSUME NEW y \in Paths, disk'[y[1]][y[2]] = Empty, ~(crashes > 0 \/ emptySent)
               PROVE  \E q \in Processes : call'[q].at = "write" /\ call'[q].fd = y
    BY <1>5 DEF EmptyHasACause
  <2>1. CASE y = x
    BY <1>3, <1>5, <2>1 DEF IInv, TypeInv
  <2>2. CASE y # x
    <3>1. y = <<y[1], y[2]>> /\ x = <<x[1], x[2]>> /\ y[1] \in Names /\ y[2] \in Files
      BY <1>2 DEF Paths
    <3>2. disk[y[1]][y[2]] = Empty
      BY <1>10, <2>2, <3>1
    <3>3. PICK q \in Processes : call[q].at = "write" /\ call[q].fd = y
      BY <3>2 DEF IInv, EmptyHasACause
    <3>4. call'[q] = call[q]
      BY <1>1, <1>5, <3>3 DEF IInv, TypeInv
    <3> QED BY <3>3, <3>4
  <2> QED BY <2>1, <2>2
<1> QED BY <1>9, <1>11, <1>12, <1>13, <1>14 DEF IInv

LEMMA WriteKeeps == ASSUME IInv, NEW p \in Processes, Write(p) PROVE IInv'
<1> DEFINE c == call[p]
           d == [c EXCEPT !.at = "open", !.to = <<c.name, Detail(c.id)>>, !.data = Other("sent"), !.fd = Nowhere]
<1>1. c \in Frames /\ CallOK(c) /\ c.at = "write" /\ c.op # "none"
  BY DEF Write, IInv, TypeInv, CallOK
<1>2. c.data \in Contents \ {NoFile} /\ ~Nameless(c.data) /\ (c.data = Empty => emptySent)
  BY <1>1 DEF IInv, DataInv, DataOK, Saving, Frames
<1>3. UNCHANGED <<dirs, sent, ops, crashes, mixed, emptySent>>
  BY DEF Write
<1>4. PICK e \in Frames : call' = [call EXCEPT ![p] = e] /\ CallOK(e) /\ DataOK(e) /\ book' \in Stored
  <2>1. CASE c.op = "SaveLog" /\ c.data.kind = "log"
    <3>1. call' = [call EXCEPT ![p] = d] /\ book' = book
      BY <2>1 DEF Write
    <3>2. <<c.name, Detail(c.id)>> \in Paths
      BY <1>1, PathFacts DEF CallOK, Frames
    <3>3. Other("sent") \in Contents \ {NoFile, Empty} /\ ~Nameless(Other("sent"))
      BY ContentFacts
    <3>4. /\ d \in Frames /\ d.op = c.op /\ d.name = c.name /\ d.new = c.new /\ d.id = c.id
          /\ d.at = "open" /\ d.to = <<c.name, Detail(c.id)>> /\ d.data = Other("sent")
      BY <1>1, <3>2, <3>3, PathFacts DEF Frames
    <3> HIDE DEF d
    <3>5. CallOK(d) /\ DataOK(d)
      BY <1>1, <3>2, <3>3, <3>4, SaverIsOK
    <3> QED BY <3>1, <3>4, <3>5 DEF IInv, TypeInv
  <2>2. CASE ~(c.op = "SaveLog" /\ c.data.kind = "log")
    <3>1. call' = [call EXCEPT ![p] = Idle] /\ book' = Done(c)
      BY <2>2 DEF Write, Returns
    <3> QED BY <1>1, <3>1, IdleOK, DoneIsStored DEF IInv
  <2> QED BY <2>1, <2>2
<1>5. call' \in [Processes -> Frames] /\ (\A q \in Processes : CallOK(call'[q])) /\ DataInv'
  BY <1>3, <1>4, CallMoves DEF IInv
<1>6. \A q \in Processes : q # p => call'[q] = call[q]
  BY <1>4 DEF IInv, TypeInv
<1>7. SentInv'
  BY <1>3 DEF IInv, SentInv
<1>8. CASE c.fd = Nowhere
  <2>1. disk' = disk
    BY <1>8 DEF Write
  <2>2. TypeInv' /\ NamesInv'
    BY <1>3, <1>4, <1>5, <2>1 DEF IInv, TypeInv, NamesInv
  <2>3. EmptyHasACause'
    <3> SUFFICES ASSUME NEW y \in Paths, disk[y[1]][y[2]] = Empty, ~(crashes > 0 \/ emptySent)
                 PROVE  \E q \in Processes : call'[q].at = "write" /\ call'[q].fd = y
      BY <1>3, <2>1 DEF EmptyHasACause
    <3>1. PICK q \in Processes : call[q].at = "write" /\ call[q].fd = y
      BY DEF IInv, EmptyHasACause
    <3> QED BY <1>6, <1>8, <3>1, NowhereAssumption
  <2> QED BY <1>5, <1>7, <2>2, <2>3 DEF IInv
<1>9. CASE c.fd \in Paths
  <2> DEFINE x == c.fd
  <2>1. x[1] \in Names /\ x[2] \in Files /\ x = <<x[1], x[2]>>
    BY <1>9 DEF Paths
  <2>2. PICK t \in Written(disk[x[1]][x[2]], c.data) : disk' = [disk EXCEPT ![x[1]][x[2]] = t]
    BY <1>9, NowhereAssumption DEF Write
  <2>3. disk[x[1]][x[2]] \in Contents /\ ~Nameless(disk[x[1]][x[2]])
    BY <2>1 DEF IInv, TypeInv, Stored, NamesInv
  <2>4. t \in Contents /\ ~Nameless(t)
    BY <1>2, <2>2, <2>3, ContentFacts DEF Written
  <2>5. t = Empty => emptySent
    BY <1>2, <2>2, ContentFacts DEF Written
  <2>6. disk' \in Stored /\ \A n \in Names, f \in Files :
          disk'[n][f] = IF n = x[1] /\ f = x[2] THEN t ELSE disk[n][f]
    BY <2>1, <2>2, <2>4 DEF IInv, TypeInv, Stored
  <2>7. TypeInv'
    BY <1>3, <1>4, <1>5, <2>6 DEF IInv, TypeInv
  <2>8. NamesInv'
    BY <2>4, <2>6 DEF IInv, NamesInv
  <2>9. EmptyHasACause'
    <3> SUFFICES ASSUME NEW y \in Paths, disk'[y[1]][y[2]] = Empty, ~(crashes > 0 \/ emptySent)
                 PROVE  \E q \in Processes : call'[q].at = "write" /\ call'[q].fd = y
      BY <1>3 DEF EmptyHasACause
    <3>1. y[1] \in Names /\ y[2] \in Files /\ y = <<y[1], y[2]>>
      BY DEF Paths
    <3>2. y # x /\ disk[y[1]][y[2]] = Empty
      BY <2>1, <2>5, <2>6, <3>1
    <3>3. PICK q \in Processes : call[q].at = "write" /\ call[q].fd = y
      BY <3>2 DEF IInv, EmptyHasACause
    <3> QED BY <1>6, <3>2, <3>3
  <2> QED BY <1>5, <1>7, <2>7, <2>8, <2>9 DEF IInv
<1> QED BY <1>1, <1>8, <1>9 DEF Frames

-----------------------------------------------------------------------------
(* The operations remove and rename.                                       *)

Descriptors == Paths \union {Nowhere}

\* Files that are open go where g takes them; nothing else of an operation
\* changes.
LEMMA ReboundFacts ==
  ASSUME IInv, NEW g \in [Descriptors -> Descriptors]
  PROVE  /\ Rebound(g) \in [Processes -> Frames]
         /\ \A q \in Processes :
              /\ CallOK(Rebound(g)[q]) /\ DataOK(Rebound(g)[q])
              /\ Rebound(g)[q].at = call[q].at /\ Rebound(g)[q].fd = g[call[q].fd]
<1> SUFFICES ASSUME NEW q \in Processes
             PROVE  LET d == [call[q] EXCEPT !.fd = g[@]] IN
                      d \in Frames /\ CallOK(d) /\ DataOK(d) /\ d.at = call[q].at /\ d.fd = g[call[q].fd]
  BY DEF Rebound
<1> DEFINE d == [call[q] EXCEPT !.fd = g[@]]
<1>1. call[q] \in Frames /\ CallOK(call[q]) /\ DataOK(call[q])
  BY DEF IInv, TypeInv, DataInv
<1>2. g[call[q].fd] \in Paths \union {Nowhere}
  BY <1>1 DEF Frames, Descriptors
<1>3. /\ d \in Frames /\ d.at = call[q].at /\ d.fd = g[call[q].fd] /\ d.op = call[q].op /\ d.name = call[q].name
      /\ d.new = call[q].new /\ d.id = call[q].id /\ d.to = call[q].to /\ d.data = call[q].data
  BY <1>1, <1>2 DEF Frames
<1> HIDE DEF d
<1>4. CallOK(d)
  BY <1>1, <1>3 DEF CallOK
<1>5. DataOK(d)
  BY <1>1, <1>3 DEF DataOK
<1> QED BY <1>3, <1>4, <1>5 DEF d

\* A step that moves files: what is empty after it was empty before, in a file
\* whose descriptors have moved along.
LEMMA MoveKeeps ==
  ASSUME IInv, NEW p \in Processes, call[p].at # "write", NEW g \in [Descriptors -> Descriptors],
         NEW c \in Frames, CallOK(c), DataOK(c), call' = [Rebound(g) EXCEPT ![p] = c],
         disk' \in Stored, NamesInv', dirs' \in [Names -> {"none", "dir", "full"}], book' \in Stored,
         UNCHANGED <<sent, crashes, mixed, emptySent>>,
         \A y \in Paths : disk'[y[1]][y[2]] = Empty => \E x \in Paths : disk[x[1]][x[2]] = Empty /\ g[x] = y
  PROVE  IInv'
<1>1. call' \in [Processes -> Frames] /\ \A q \in Processes : call'[q] = IF q = p THEN c ELSE Rebound(g)[q]
  BY ReboundFacts
<1>2. (\A q \in Processes : CallOK(call'[q])) /\ DataInv'
  <2> SUFFICES ASSUME NEW q \in Processes PROVE CallOK(call'[q]) /\ DataOK(call'[q])
    BY DEF DataInv, DataOK
  <2>1. CASE q = p
    BY <1>1, <2>1
  <2>2. CASE q # p
    <3>1. call'[q] = Rebound(g)[q]
      BY <1>1, <2>2
    <3> QED BY <3>1, ReboundFacts
  <2> QED BY <2>1, <2>2
<1>3. TypeInv'
  BY <1>1, <1>2 DEF IInv, TypeInv
<1>4. SentInv'
  BY DEF IInv, SentInv
<1>5. EmptyHasACause'
  <2> SUFFICES ASSUME NEW y \in Paths, disk'[y[1]][y[2]] = Empty, ~(crashes > 0 \/ emptySent)
               PROVE  \E q \in Processes : call'[q].at = "write" /\ call'[q].fd = y
    BY DEF EmptyHasACause
  <2>1. PICK x \in Paths : disk[x[1]][x[2]] = Empty /\ g[x] = y
    OBVIOUS
  <2>2. PICK q \in Processes : call[q].at = "write" /\ call[q].fd = x
    BY <2>1 DEF IInv, EmptyHasACause
  <2>3. call'[q].at = "write" /\ call'[q].fd = y
    BY <1>1, <2>1, <2>2, ReboundFacts
  <2> QED BY <2>3
<1> QED BY <1>2, <1>3, <1>4, <1>5 DEF IInv

LEMMA RemoveKeeps == ASSUME IInv, NEW p \in Processes, Remove(p) PROVE IInv'
<1> DEFINE c == call[p]
           x == c.to
           g == [y \in Descriptors |-> IF y = x THEN Nowhere ELSE y]
<1>1. c.at = "remove" /\ CallOK(c) /\ x \in Paths
  BY DEF Remove, IInv, TypeInv, CallOK
<1>2. UNCHANGED <<dirs, sent, ops, crashes, mixed, emptySent>> /\ dirs' \in [Names -> {"none", "dir", "full"}]
  BY DEF Remove, IInv, TypeInv
<1>3. CASE disk[x[1]][x[2]] = NoFile
  BY <1>1, <1>2, <1>3, FailsKeeps DEF Remove
<1>4. CASE disk[x[1]][x[2]] # NoFile
  <2>1. /\ disk' = [disk EXCEPT ![x[1]][x[2]] = NoFile] /\ call' = [Rebound(g) EXCEPT ![p] = Idle]
        /\ book' = Done(c)
    BY <1>4 DEF Remove, Returns, Descriptors
  <2>2. x[1] \in Names /\ x[2] \in Files /\ x = <<x[1], x[2]>>
    BY <1>1 DEF Paths
  <2>3. g \in [Descriptors -> Descriptors] /\ \A y \in Paths : y # x => g[y] = y
    BY DEF Descriptors
  <2>4. disk' \in Stored /\ \A n \in Names, f \in Files :
          disk'[n][f] = IF n = x[1] /\ f = x[2] THEN NoFile ELSE disk[n][f]
    BY <2>1, <2>2, ContentFacts DEF IInv, TypeInv, Stored
  <2>5. NamesInv'
    BY <2>4, ContentFacts DEF IInv, NamesInv
  <2>6. \A y \in Paths : disk'[y[1]][y[2]] = Empty => \E z \in Paths : disk[z[1]][z[2]] = Empty /\ g[z] = y
    <3> SUFFICES ASSUME NEW y \in Paths, disk'[y[1]][y[2]] = Empty
                 PROVE  disk[y[1]][y[2]] = Empty /\ g[y] = y
      OBVIOUS
    <3>1. y[1] \in Names /\ y[2] \in Files /\ y = <<y[1], y[2]>>
      BY DEF Paths
    <3> HIDE DEF g
    <3> QED BY <2>2, <2>3, <2>4, <3>1, ContentFacts
  <2>7. book' \in Stored
    BY <1>1, <2>1, DoneIsStored DEF IInv
  <2> HIDE DEF g
  <2> QED BY <1>1, <1>2, <2>1, <2>3, <2>4, <2>5, <2>6, <2>7, IdleOK, MoveKeeps
<1> QED BY <1>3, <1>4

LEMMA RenameCheckKeeps == ASSUME IInv, NEW p \in Processes, RenameCheck(p) PROVE IInv'
<1> DEFINE c == call[p]
           d == [c EXCEPT !.at = "dir"]
<1>1. c.at = "check" /\ c \in Frames /\ CallOK(c) /\ DataOK(c)
  BY DEF RenameCheck, IInv, TypeInv, DataInv
<1>2. UNCHANGED <<disk, dirs, sent, ops, crashes, mixed, emptySent>>
      /\ dirs' \in [Names -> {"none", "dir", "full"}]
  BY DEF RenameCheck, IInv, TypeInv
<1>3. CASE Fails(p)
  BY <1>1, <1>2, <1>3, FailsKeeps
<1>4. CASE call' = [call EXCEPT ![p].at = "dir"] /\ book' = book
  <2>1. call' = [call EXCEPT ![p] = d]
    BY <1>4
  <2>2. /\ d \in Frames /\ d.at = "dir" /\ d.op = c.op /\ d.name = c.name /\ d.new = c.new /\ d.id = c.id
        /\ d.to = c.to /\ d.data = c.data
    BY <1>1 DEF Frames
  <2> HIDE DEF d
  <2>3. CallOK(d)
    BY <1>1, <2>2 DEF CallOK, Saving
  <2>4. DataOK(d)
    BY <1>1, <2>2 DEF DataOK, Saving
  <2>5. /\ SentInv' /\ sent' \subseteq Names \X (Contents \ {NoFile}) /\ mixed' \subseteq Paths
        /\ book' \in Stored
    BY <1>2, <1>4 DEF IInv, TypeInv, SentInv
  <2>6. emptySent' \in BOOLEAN
    BY <1>2 DEF IInv, TypeInv
  <2> QED BY <1>1, <1>2, <2>1, <2>3, <2>4, <2>5, <2>6, QuietStep
<1> QED BY <1>3, <1>4 DEF RenameCheck

\* What becomes of an operation that renames, between two of its renamings.
LEMMA RenamerIsOK ==
  ASSUME NEW c \in Frames, CallOK(c), DataOK(c), c.at \in {"dir", "file"},
         NEW d, NEW at \in {"file", "open"}, d = [c EXCEPT !.at = at]
  PROVE  d \in Frames /\ CallOK(d) /\ DataOK(d)
<1>1. /\ d \in Frames /\ d.at = at /\ d.op = c.op /\ d.name = c.name /\ d.new = c.new /\ d.id = c.id
      /\ d.to = c.to /\ d.data = c.data /\ d.fd = c.fd
  BY DEF Frames
<1>2. c.name \in Names /\ c.new \in Names /\ c.name # c.new /\ c.to = <<c.new, Yaml(c.new)>>
  BY DEF CallOK
<1>3. CallOK(d)
  BY <1>1, <1>2, PathFacts DEF CallOK
<1>4. DataOK(d)
  BY <1>1 DEF DataOK, Saving
<1> QED BY <1>1, <1>3, <1>4

LEMMA RenameDirKeeps == ASSUME IInv, NEW p \in Processes, RenameDir(p) PROVE IInv'
<1> DEFINE c == call[p]
           g == [x \in Descriptors |-> IF x \in {c.name} \X Files THEN <<c.new, x[2]>> ELSE x]
<1>1. c.at = "dir" /\ CallOK(c) /\ c.name \in Names /\ c.new \in Names /\ c.name # c.new
  BY DEF RenameDir, IInv, TypeInv, CallOK
<1>2. UNCHANGED <<sent, ops, crashes, mixed, emptySent>>
  BY DEF RenameDir
<1>3. CASE Fails(p) /\ UNCHANGED <<disk, dirs>>
  BY <1>1, <1>2, <1>3, FailsKeeps DEF IInv, TypeInv
<1>4. CASE ~(Fails(p) /\ UNCHANGED <<disk, dirs>>)
  <2>1. /\ disk' = [disk EXCEPT ![c.new] = disk[c.name], ![c.name] = NoFiles]
        /\ dirs' = [dirs EXCEPT ![c.new] = dirs[c.name], ![c.name] = "none"]
        /\ call' = [Rebound(g) EXCEPT ![p].at = "file"] /\ book' = book
    BY <1>4 DEF RenameDir, Descriptors
  <2>2. /\ g \in [Descriptors -> Descriptors]
        /\ \A f \in Files : g[<<c.name, f>>] = <<c.new, f>>
        /\ \A x \in Paths : x[1] # c.name => g[x] = x
    BY <1>1 DEF Descriptors, Paths
  <2>3. dirs' \in [Names -> {"none", "dir", "full"}]
    BY <1>1, <2>1 DEF IInv, TypeInv
  <2>4. disk' \in Stored /\ \A n \in Names, f \in Files :
          disk'[n][f] = IF n = c.name THEN NoFile ELSE IF n = c.new THEN disk[c.name][f] ELSE disk[n][f]
    <3>1. NoFiles \in [Files -> Contents] /\ \A f \in Files : NoFiles[f] = NoFile
      BY ContentFacts DEF NoFiles
    <3> QED BY <1>1, <2>1, <3>1 DEF IInv, TypeInv, Stored
  <2>5. NamesInv'
    BY <1>1, <2>4, ContentFacts DEF IInv, NamesInv
  <2>6. \A y \in Paths : disk'[y[1]][y[2]] = Empty => \E x \in Paths : disk[x[1]][x[2]] = Empty /\ g[x] = y
    <3> SUFFICES ASSUME NEW y \in Paths, disk'[y[1]][y[2]] = Empty
                 PROVE  \E x \in Paths : disk[x[1]][x[2]] = Empty /\ g[x] = y
      OBVIOUS
    <3>1. y[1] \in Names /\ y[2] \in Files /\ y = <<y[1], y[2]>>
      BY DEF Paths
    <3> HIDE DEF g
    <3>2. y[1] # c.name
      BY <2>4, <3>1, ContentFacts
    <3>3. CASE y[1] = c.new
      <4>1. <<c.name, y[2]>> \in Paths
        BY <1>1, <3>1 DEF Paths
      <4>2. disk[c.name][y[2]] = Empty
        BY <2>4, <3>1, <3>2, <3>3
      <4>3. g[<<c.name, y[2]>>] = y
        BY <2>2, <3>1, <3>3
      <4> QED BY <4>1, <4>2, <4>3
    <3>4. CASE y[1] # c.new
      BY <2>2, <2>4, <3>1, <3>2, <3>4
    <3> QED BY <3>3, <3>4
  <2>7. Rebound(g)[p] \in Frames /\ CallOK(Rebound(g)[p]) /\ DataOK(Rebound(g)[p]) /\ Rebound(g)[p].at = "dir"
    BY <1>1, <2>2, ReboundFacts
  <2>8. PICK d : d = [Rebound(g)[p] EXCEPT !.at = "file"]
    OBVIOUS
  <2>9. call' = [Rebound(g) EXCEPT ![p] = d]
    BY <2>1, <2>8
  <2> HIDE DEF g
  <2>10. d \in Frames /\ CallOK(d) /\ DataOK(d)
    BY <2>7, <2>8, RenamerIsOK
  <2>11. book' \in Stored
    BY <2>1 DEF IInv, TypeInv
  <2> QED BY <1>1, <1>2, <2>2, <2>3, <2>4, <2>5, <2>6, <2>9, <2>10, <2>11, MoveKeeps
<1> QED BY <1>3, <1>4

LEMMA RenameFileKeeps == ASSUME IInv, NEW p \in Processes, RenameFile(p) PROVE IInv'
<1> DEFINE c == call[p]
           old == <<c.new, Yaml(c.name)>>
           new == <<c.new, Yaml(c.new)>>
           g == [x \in Descriptors |-> IF x = old THEN c.to ELSE IF x = c.to THEN Nowhere ELSE x]
<1>1. c.at = "file" /\ CallOK(c) /\ c.name \in Names /\ c.new \in Names /\ c.name # c.new /\ c.to = new
  BY DEF RenameFile, IInv, TypeInv, CallOK
<1>2. UNCHANGED <<dirs, sent, ops, crashes, mixed, emptySent>> /\ dirs' \in [Names -> {"none", "dir", "full"}]
  BY DEF RenameFile, IInv, TypeInv
<1>3. CASE Fails(p) /\ disk' = disk
  BY <1>1, <1>2, <1>3, FailsKeeps
<1>4. CASE ~(Fails(p) /\ disk' = disk)
  <2>1. /\ disk' = [disk EXCEPT ![c.new] = [@ EXCEPT ![Yaml(c.new)] = disk[c.new][Yaml(c.name)],
                                                     ![Yaml(c.name)] = NoFile]]
        /\ call' = [Rebound(g) EXCEPT ![p].at = "open"] /\ book' = book
    BY <1>4 DEF RenameFile, Descriptors
  <2>2. /\ Yaml(c.name) # Yaml(c.new) /\ Yaml(c.name) \in Files /\ Yaml(c.new) \in Files
        /\ old \in Paths /\ new \in Paths /\ old # new
    BY <1>1 DEF Yaml, Files, Paths
  <2>3. /\ g \in [Descriptors -> Descriptors] /\ g[old] = new
        /\ \A x \in Paths : x # old /\ x # new => g[x] = x
    BY <1>1, <2>2 DEF Descriptors
  <2>4. disk' \in Stored /\ \A n \in Names, f \in Files :
          disk'[n][f] = IF n = c.new /\ f = Yaml(c.name) THEN NoFile
                        ELSE IF n = c.new /\ f = Yaml(c.new) THEN disk[c.new][Yaml(c.name)] ELSE disk[n][f]
    <3>1. disk[c.new] \in [Files -> Contents]
      BY <1>1 DEF IInv, TypeInv, Stored
    <3> DEFINE r == [disk[c.new] EXCEPT ![Yaml(c.new)] = disk[c.new][Yaml(c.name)], ![Yaml(c.name)] = NoFile]
    <3>2. r \in [Files -> Contents] /\ \A f \in Files :
            r[f] = IF f = Yaml(c.name) THEN NoFile
                   ELSE IF f = Yaml(c.new) THEN disk[c.new][Yaml(c.name)] ELSE disk[c.new][f]
      BY <2>2, <3>1, ContentFacts
    <3>3. disk' = [disk EXCEPT ![c.new] = r]
      BY <2>1
    <3> HIDE DEF r
    <3> QED BY <1>1, <3>2, <3>3 DEF IInv, TypeInv, Stored
  <2>5. NamesInv'
    BY <1>1, <2>2, <2>4, ContentFacts DEF IInv, NamesInv
  <2>6. \A y \in Paths : disk'[y[1]][y[2]] = Empty => \E x \in Paths : disk[x[1]][x[2]] = Empty /\ g[x] = y
    <3> SUFFICES ASSUME NEW y \in Paths, disk'[y[1]][y[2]] = Empty
                 PROVE  \E x \in Paths : disk[x[1]][x[2]] = Empty /\ g[x] = y
      OBVIOUS
    <3>1. y[1] \in Names /\ y[2] \in Files /\ y = <<y[1], y[2]>>
      BY DEF Paths
    <3> HIDE DEF g
    <3>2. y # old
      BY <1>1, <2>2, <2>4, <3>1, ContentFacts
    <3>3. CASE y = new
      <4>1. disk[old[1]][old[2]] = Empty
        BY <1>1, <2>2, <2>4, <3>1, <3>3
      <4> QED BY <2>2, <2>3, <3>3, <4>1
    <3>4. CASE y # new
      BY <2>3, <2>4, <3>1, <3>2, <3>4
    <3> QED BY <3>3, <3>4
  <2>7. Rebound(g)[p] \in Frames /\ CallOK(Rebound(g)[p]) /\ DataOK(Rebound(g)[p]) /\ Rebound(g)[p].at = "file"
    BY <1>1, <2>3, ReboundFacts
  <2>8. PICK d : d = [Rebound(g)[p] EXCEPT !.at = "open"]
    OBVIOUS
  <2>9. call' = [Rebound(g) EXCEPT ![p] = d]
    BY <2>1, <2>8
  <2> HIDE DEF g
  <2>10. d \in Frames /\ CallOK(d) /\ DataOK(d)
    BY <2>7, <2>8, RenamerIsOK
  <2>11. book' \in Stored
    BY <2>1 DEF IInv, TypeInv
  <2> QED BY <1>1, <1>2, <2>3, <2>4, <2>5, <2>6, <2>9, <2>10, <2>11, MoveKeeps
<1> QED BY <1>3, <1>4

-----------------------------------------------------------------------------
(* The process ends.                                                       *)

LEMMA ProcessEndsKeeps == ASSUME IInv, ProcessEnds PROVE IInv'
<1>1. call' = [p \in Processes |-> Idle] /\ sent' = {} /\ UNCHANGED <<disk, dirs, ops, book, emptySent>>
  BY DEF ProcessEnds
<1>2. crashes' \in Nat /\ crashes' > 0
  BY DEF ProcessEnds, IInv, TypeInv
<1>3. \A q \in Processes : Uses(call[q]) \subseteq Paths
  BY UsesArePaths DEF IInv, TypeInv
<1>4. mixed' \subseteq Paths
  BY <1>3 DEF ProcessEnds, IInv, TypeInv
<1>5. TypeInv'
  BY <1>1, <1>2, <1>4, IdleOK DEF IInv, TypeInv
<1>6. \A q \in Processes : call'[q].at = "read"
  BY <1>1, IdleOK
<1>7. DataInv'
  BY <1>6 DEF DataInv, DataOK, Saving
<1>8. SentInv' /\ NamesInv' /\ EmptyHasACause'
  BY <1>1, <1>2 DEF IInv, SentInv, NamesInv, EmptyHasACause
<1> QED BY <1>5, <1>7, <1>8 DEF IInv

-----------------------------------------------------------------------------
(* The theorems.                                                           *)

LEMMA InitIsOK == Init => IInv
<1> SUFFICES ASSUME Init PROVE IInv
  OBVIOUS
<1>1. \A n \in Names, f \in Files : disk[n][f] = NoFile
  BY DEF Init, NoFiles
<1>2. \A q \in Processes : call[q] = Idle
  BY DEF Init
<1>3. TypeInv
  BY <1>2, IdleOK, ContentFacts DEF Init, TypeInv, Stored, NoFiles
<1>4. DataInv
  BY <1>2, IdleOK DEF DataInv
<1>5. SentInv /\ NamesInv
  BY <1>1, ContentFacts DEF Init, SentInv, NamesInv
<1>6. EmptyHasACause
  BY <1>1, ContentFacts DEF EmptyHasACause, Paths
<1> QED BY <1>3, <1>4, <1>5, <1>6 DEF IInv

LEMMA StepKeeps == ASSUME IInv, NEW p \in Processes, Step(p) PROVE IInv'
<1>1. CASE Reads(p)
  <2>1. CASE UserIdPanics(p)
    BY <2>1, ProcessEndsKeeps DEF UserIdPanics
  <2> QED BY <1>1, <2>1, ReadForParamsKeeps, ReadForUserIdKeeps, ReadForDetailKeeps, ReadForStopKeeps,
             ReadForDispatchKeeps DEF Reads
<1>2. CASE OpenFails(p) \/ Open(p) \/ Write(p)
  BY <1>2, OpenFailsKeeps, OpenKeeps, WriteKeeps
<1>3. CASE Remove(p) \/ RenameCheck(p) \/ RenameDir(p) \/ RenameFile(p)
  BY <1>3, RemoveKeeps, RenameCheckKeeps, RenameDirKeeps, RenameFileKeeps
<1> QED BY <1>1, <1>2, <1>3 DEF Step

LEMMA NextKeeps == IInv /\ [Next]_vars => IInv'
<1> SUFFICES ASSUME IInv, [Next]_vars PROVE IInv'
  OBVIOUS
<1>1. CASE \E p \in Callers, n \in Names : Begins(p, n)
  BY <1>1, BeginsKeep
<1>2. CASE \E n \in Names, i \in Ids : SaveLog(n, i)
  BY <1>2, SaveLogKeeps
<1>3. CASE WorkerSaves
  BY <1>3, WorkerSavesKeeps
<1>4. CASE Crash
  BY <1>4, ProcessEndsKeeps DEF Crash
<1>5. CASE \E p \in Processes : Step(p)
  BY <1>5, StepKeeps
<1>6. CASE UNCHANGED vars
  <2>1. UNCHANGED <<disk, dirs, call, sent, ops, crashes, book, mixed, emptySent>>
    BY <1>6 DEF vars
  <2>2. TypeInv'
    BY <2>1 DEF IInv, TypeInv
  <2>3. DataInv' /\ SentInv' /\ NamesInv' /\ EmptyHasACause'
    BY <2>1 DEF IInv, DataInv, DataOK, SentInv, NamesInv, EmptyHasACause
  <2> QED BY <2>2, <2>3 DEF IInv
<1> QED BY <1>1, <1>2, <1>3, <1>4, <1>5, <1>6 DEF Next

LEMMA Invariance == Spec => []IInv
BY InitIsOK, NextKeeps, PTL DEF Spec

\* The files hold what files may hold and every open file is one of the
\* directory, whatever the callers, the workers' messages and the crashes do.
THEOREM TypeCorrect == Spec => []TypeOK
<1>1. IInv => TypeOK
  <2> SUFFICES ASSUME IInv PROVE TypeOK
    OBVIOUS
  <2>1. \A p \in Processes :
          /\ call[p].at \in {"read", "open", "write", "check", "dir", "file", "remove"}
          /\ call[p].data \in Contents \ {NoFile} /\ call[p].fd \in Paths \union {Nowhere}
    BY DEF IInv, TypeInv, Frames
  <2> QED BY <2>1 DEF TypeOK, IInv, TypeInv, Stored
<1> QED BY <1>1, Invariance, PTL

\* A yaml that was caught empty by GetJobObject is a job without a name, and
\* SaveJobParams and SaveJobUserId never put it back in the place of the job
\* that was being written.
THEOREM NothingNameless == Spec => []NoNamelessJob
<1>1. IInv => NoNamelessJob
  BY DEF IInv, NamesInv, NoNamelessJob, Nameless, Files
<1> QED BY <1>1, Invariance, PTL

\* A job, a detail or a log is found empty only while saveStringToFile is at
\* it, after the process ended, or once dispatchJob has sent an empty text to
\* the worker that shares the directory.
THEOREM EmptyOnlyWithCause == Spec => []EmptyHasACause
<1>1. IInv => EmptyHasACause
  BY DEF IInv
<1> QED BY <1>1, Invariance, PTL

-----------------------------------------------------------------------------
(* The files as if each operation were one step.                           *)

Cell(d, x) == d[x[1]][x[2]]
Home(t) == <<t.name, Yaml(t.name)>>
Yamls == {Yaml(n) : n \in Names}

\* What is said of a file that no two operations have met at.
Good(x, t) ==
  /\ t # Empty
  /\ IF x[2] \in Yamls THEN t = NoFile \/ (t.kind = "yaml" /\ Home(t) = x) ELSE t.name = NoName

Stages(op) ==
  CASE op \in {"none", "GetJob"} -> {"read"}
    [] op \in {"DeleteJob", "DeleteJobDetail"} -> {"remove"}
    [] op = "UpdateJob" -> {"check", "dir", "file", "open", "write"}
    [] op \in {"CreateJob", "WorkerSaves", "SaveLog"} -> {"open", "write"}
    [] OTHER -> {"read", "open", "write"}

Target(c) ==
  CASE c.op = "UpdateJob" -> <<c.new, Yaml(c.new)>>
    [] c.op \in {"CreateJobDetail", "DeleteJobDetail", "MakeJobStop"} -> <<c.name, Detail(c.id)>>
    [] c.op = "SaveLog" -> <<c.name, IF c.data.kind = "log" THEN LogOf(c.id) ELSE Detail(c.id)>>
    [] OTHER -> <<c.name, Yaml(c.name)>>

\* What an operation saves that has met no other.
Payload(c, b) ==
  LET old == b[c.name][Yaml(c.name)] IN
    CASE c.op \in {"CreateJob", "WorkerSaves", "UpdateJob"} -> c.data.kind = "yaml" /\ Home(c.data) = c.to
      [] c.op = "SaveJobParams" -> old.kind = "yaml" /\ c.data = [old EXCEPT !.params = TRUE]
      [] c.op = "SaveJobUserId" -> old.kind = "yaml" /\ c.data = [old EXCEPT !.user = TRUE]
      [] c.op = "CreateJobDetail" -> c.data = Other("notrun")
      [] c.op = "MakeJobStop" -> c.data = Other("stop")
      [] OTHER -> c.data \in {Other("log"), Other("sent")}

\* The file x as c has it before it saves.
Renamed(c) == c.op = "UpdateJob" /\ c.name # c.new /\ c.at \in {"file", "open", "write"}
Turned(c, b, x) ==
  IF Renamed(c) THEN
    IF x[1] = c.name THEN NoFile
    ELSE IF c.at = "file" THEN b[c.name][x[2]]
    ELSE IF x[2] = Yaml(c.name) THEN NoFile
    ELSE b[c.name][IF x[2] = Yaml(c.new) THEN Yaml(c.name) ELSE x[2]]
  ELSE IF c.op = "SaveLog" /\ c.data.kind = "sent" /\ x[2] = LogOf(c.id) THEN Other("log")
  ELSE Cell(b, x)

\* An operation that has met no other: its files are the book's as it has
\* turned them so far.
Alone(c, d, b) ==
  /\ c.at \in Saving \union {"remove"} => c.to = Target(c)
  /\ c.at \in Saving => Payload(c, b)
  /\ c.at \in {"dir", "file"} => b[c.name][Yaml(c.name)] # NoFile
  /\ c.at = "write" => c.fd = c.to
  /\ \A x \in Uses(c) : Cell(d, x) = IF c.at = "write" /\ x = c.to THEN Empty ELSE Turned(c, b, x)

\* One that has: what it writes and where stays among the mixed paths.
Met(c, paths) ==
  /\ c.at \in Saving \union {"remove"} /\ c.to[1] # NoName =>
       c.to \in paths /\ (c.at \in Saving /\ c.data.name # NoName => Home(c.data) \in paths)
  /\ c.at = "write" => c.to[1] # NoName /\ c.fd \in paths \union {Nowhere}

Whole(paths) == \A p \in Processes : Uses(call[p]) \subseteq paths \/ Uses(call[p]) \cap paths = {}

MixInv ==
  /\ Whole(mixed)
  /\ \A p, q \in Processes : p # q => Uses(call[p]) \cap Uses(call[q]) \subseteq mixed
StageInv == \A p \in Processes : call[p].at \in Stages(call[p].op)
GoodInv == \A x \in Paths \ mixed : Good(x, Cell(book, x))
HomeInv == \A x \in mixed : Cell(disk, x).name # NoName => Home(Cell(disk, x)) \in mixed
PostInv ==
  \A m \in sent : LET x == <<m[1], Yaml(m[1])>> IN
    \/ m[2].kind = "yaml" /\ Home(m[2]) = x
    \/ x \in mixed /\ (m[2].name # NoName => Home(m[2]) \in mixed)
AloneInv == \A p \in Processes : Uses(call[p]) \cap mixed = {} => Alone(call[p], disk, book)
MetInv == \A p \in Processes : Uses(call[p]) \subseteq mixed => Met(call[p], mixed)

BookInv == MixInv /\ StageInv /\ GoodInv /\ HomeInv /\ PostInv /\ AloneInv /\ MetInv /\ DiskIsBook

LEMMA FileFacts ==
  /\ \A n, m : Yaml(n) = Yaml(m) => n = m
  /\ \A i, j : Detail(i) = Detail(j) => i = j
  /\ \A n, i, j : Yaml(n) # Detail(i) /\ Yaml(n) # LogOf(i) /\ Detail(i) # LogOf(j)
  /\ \A i : Detail(i) \notin Yamls /\ LogOf(i) \notin Yamls
  /\ \A n \in Names : Yaml(n) \in Yamls
BY DEF Yaml, Detail, LogOf, Yamls

LEMMA OtherNames ==
  /\ NoFile.name = NoName /\ Empty.name = NoName /\ Garbled.name = NoName
  /\ NoFile.kind = "none" /\ Empty.kind = "empty" /\ Garbled.kind = "garbled"
  /\ \A k : Other(k).name = NoName /\ Other(k).kind = k
BY DEF NoFile, Empty, Garbled, Other

LEMMA SameUses ==
  ASSUME NEW c, NEW d, d.op = c.op, d.name = c.name, d.new = c.new, d.id = c.id
  PROVE  Uses(d) = Uses(c)
BY DEF Uses

LEMMA IdleAlone == Uses(Idle) = {} /\ Alone(Idle, disk, book) /\ Met(Idle, mixed) /\ Idle.at \in Stages(Idle.op) /\ Idle.op = "none"
<1>1. Idle.op = "none" /\ Idle.at = "read"
  BY DEF Idle, Call
<1>2. Uses(Idle) = {}
  BY <1>1 DEF Uses
<1> QED BY <1>1, <1>2 DEF Alone, Met, Saving, Stages

\* The place an operation saves in is one of those it uses.
LEMMA TargetIsUsed ==
  ASSUME NEW c, CallOK(c), c.at \in Stages(c.op), c.at \in Saving \union {"remove"}
  PROVE  Target(c) \in Uses(c) /\ Target(c) \in Paths /\ c.op \notin {"none", "GetJob"}
<1>1. c.op \notin {"none", "GetJob"}
  BY DEF Stages, Saving
<1>2. CASE c.op = "UpdateJob"
  <2>1. c.new \in Names /\ Yaml(c.new) \in Files
    BY <1>2 DEF CallOK, Files
  <2> QED BY <1>2, <2>1 DEF Target, Uses, Paths, CallOK
<1>3. CASE c.op \in {"CreateJobDetail", "DeleteJobDetail", "MakeJobStop"}
  BY <1>3, PathFacts DEF Target, Uses, CallOK
<1>4. CASE c.op = "SaveLog"
  BY <1>4, PathFacts DEF Target, Uses, CallOK
<1>5. CASE c.op \in {"CreateJob", "SaveJobParams", "SaveJobUserId", "DeleteJob", "WorkerSaves"}
  BY <1>5, PathFacts DEF Target, Uses, CallOK
<1> QED BY <1>1, <1>2, <1>3, <1>4, <1>5 DEF CallOK, Frames

\* Before it saves or moves anything, an operation has its files as the book has.
LEMMA ReadsTheBook ==
  ASSUME NEW c, Alone(c, disk, book), c.at \in {"read", "check", "dir", "remove"} \/ (c.at = "open" /\ c.op # "SaveLog" /\ ~Renamed(c)),
         c.at \in Stages(c.op)
  PROVE  \A x \in Uses(c) : Cell(disk, x) = Cell(book, x)
<1>1. ~Renamed(c) /\ ~(c.op = "SaveLog") /\ c.at # "write"
  BY DEF Renamed, Stages
<1> QED BY <1>1 DEF Alone, Turned

\* What an operation saves is good where it saves it.
LEMMA PayloadIsGood ==
  ASSUME IInv, BookInv, NEW c, CallOK(c), c.at \in Stages(c.op), c.at \in Saving, Alone(c, disk, book), Uses(c) \cap mixed = {}
  PROVE  Good(c.to, c.data) /\ (c.data.name # NoName => Home(c.data) = c.to)
<1>1. c.to = Target(c) /\ Payload(c, book) /\ Target(c) \in Uses(c) /\ Target(c) \in Paths
  BY TargetIsUsed DEF Alone
<1>2. CASE c.op \in {"CreateJob", "WorkerSaves", "UpdateJob"}
  <2>1. c.to[2] \in Yamls
    BY <1>1, <1>2, FileFacts DEF Target, CallOK
  <2>2. c.data.kind = "yaml" /\ Home(c.data) = c.to
    BY <1>1, <1>2 DEF Payload
  <2> QED BY <2>1, <2>2, OtherNames DEF Good
<1>3. CASE c.op \in {"SaveJobParams", "SaveJobUserId"}
  <2> DEFINE y == Yaml(c.name)
             old == book[c.name][y]
  <2>1. c.to = <<c.name, y>> /\ c.name \in Names /\ y \in Yamls /\ y \in Files
    BY <1>1, <1>3, FileFacts DEF Target, CallOK, Files
  <2>2. Cell(book, c.to) = old /\ c.to \in Paths \ mixed
    BY <1>1, <2>1 DEF Cell
  <2>3. Good(c.to, old)
    BY <2>2 DEF BookInv, GoodInv
  <2>4. old \in Contents
    BY <2>1 DEF IInv, TypeInv, Stored
  <2>5. old.kind = "yaml" /\ (c.data = [old EXCEPT !.params = TRUE] \/ c.data = [old EXCEPT !.user = TRUE])
    BY <1>1, <1>3 DEF Payload
  <2>6. c.data.name = old.name /\ c.data.kind = "yaml"
    BY <2>4, <2>5 DEF Contents
  <2>7. Home(old) = c.to
    BY <2>1, <2>3, <2>5, OtherNames DEF Good
  <2> HIDE DEF y, old
  <2>8. Home(c.data) = c.to
    BY <2>6, <2>7 DEF Home
  <2> QED BY <2>1, <2>6, <2>8, OtherNames DEF Good
<1>4. CASE c.op \in {"CreateJobDetail", "MakeJobStop", "SaveLog"}
  <2>1. c.to[2] \notin Yamls
    BY <1>1, <1>4, FileFacts DEF Target
  <2>2. c.data \in {Other("notrun"), Other("stop"), Other("log"), Other("sent")}
    BY <1>1, <1>4 DEF Payload
  <2> QED BY <2>1, <2>2, OtherNames DEF Good
<1>5. c.op \notin {"DeleteJob", "DeleteJobDetail", "none", "GetJob"}
  BY DEF Stages, Saving
<1> QED BY <1>2, <1>3, <1>4, <1>5 DEF CallOK, Frames

-----------------------------------------------------------------------------
(* Operations that meet another, or stay alone.                            *)

LEMMA RenamerUses ==
  ASSUME NEW c, CallOK(c), c.op = "UpdateJob"
  PROVE  /\ Uses(c) = {c.name, c.new} \X Files /\ c.name \in Names /\ c.new \in Names
         /\ Yaml(c.name) \in Files /\ Yaml(c.new) \in Files
BY DEF Uses, CallOK, Files

\* What c has turned depends on the book only at the files c uses.
LEMMA TurnedStays ==
  ASSUME IInv, NEW c, CallOK(c), c.at \in Stages(c.op), \A x \in Uses(c) : Cell(book', x) = Cell(book, x)
  PROVE  \A x \in Uses(c) : Turned(c, book', x) = Turned(c, book, x)
<1>1. CASE Renamed(c)
  <2> SUFFICES ASSUME NEW x \in Uses(c) PROVE Turned(c, book', x) = Turned(c, book, x)
    OBVIOUS
  <2>1. Uses(c) = {c.name, c.new} \X Files /\ Yaml(c.name) \in Files
    BY <1>1, RenamerUses DEF Renamed
  <2>2. \A f \in Files : book'[c.name][f] = book[c.name][f]
    <3> SUFFICES ASSUME NEW f \in Files PROVE book'[c.name][f] = book[c.name][f]
      OBVIOUS
    <3>1. <<c.name, f>> \in Uses(c)
      BY <2>1
    <3> QED BY <3>1 DEF Cell
  <2>3. x[2] \in Files
    BY <2>1
  <2> QED BY <1>1, <2>1, <2>2, <2>3 DEF Turned, Renamed
<1>2. CASE ~Renamed(c)
  BY <1>2 DEF Turned, Renamed, Cell
<1> QED BY <1>1, <1>2

\* An operation stays alone while nobody touches its files.
LEMMA AloneStays ==
  ASSUME IInv, NEW c, CallOK(c), c.at \in Stages(c.op), Alone(c, disk, book),
         \A x \in Uses(c) : Cell(disk', x) = Cell(disk, x) /\ Cell(book', x) = Cell(book, x),
         NEW d, d.op = c.op, d.name = c.name, d.new = c.new, d.id = c.id, d.at = c.at, d.to = c.to,
         d.data = c.data, d.at = "write" => d.fd = c.fd
  PROVE  Alone(d, disk', book')
<1>1. Uses(d) = Uses(c)
  BY SameUses
<1>2. \A x : Turned(d, book', x) = Turned(c, book', x)
  BY DEF Turned, Renamed
<1>3. \A x \in Uses(c) : Turned(c, book', x) = Turned(c, book, x)
  BY TurnedStays
<1>4. ASSUME c.op \in {"UpdateJob", "SaveJobParams", "SaveJobUserId"}
      PROVE  book'[c.name][Yaml(c.name)] = book[c.name][Yaml(c.name)]
  <2>1. <<c.name, Yaml(c.name)>> \in Uses(c)
    BY <1>4 DEF Uses, CallOK, Files
  <2> QED BY <2>1 DEF Cell
<1>5. d.at \in {"dir", "file"} => book'[d.name][Yaml(d.name)] # NoFile
  BY <1>4 DEF Alone, Stages
<1>6. d.at \in Saving => Payload(d, book')
  BY <1>4 DEF Alone, Payload
<1>7. d.at \in Saving \union {"remove"} => d.to = Target(d)
  BY DEF Alone, Target
<1>8. d.at = "write" => d.fd = d.to
  BY DEF Alone
<1>9. ASSUME NEW x \in Uses(d)
      PROVE  Cell(disk', x) = IF d.at = "write" /\ x = d.to THEN Empty ELSE Turned(d, book', x)
  BY <1>1, <1>2, <1>3, <1>9 DEF Alone
<1>10. (\A x \in Uses(d) : Cell(disk, x) = IF d.at = "write" /\ x = d.to THEN Empty ELSE Turned(d, book, x))'
  BY <1>9 DEF Cell
<1> QED BY <1>5, <1>6, <1>7, <1>8, <1>10 DEF Alone, Target

\* An operation that was alone has what one that has met another is to have.
LEMMA AloneIsMet ==
  ASSUME IInv, BookInv, NEW c, CallOK(c), c.at \in Stages(c.op), Alone(c, disk, book), Uses(c) \cap mixed = {},
         Uses(c) \subseteq mixed'
  PROVE  Met(c, mixed')
<1>1. ASSUME c.at \in Saving \union {"remove"} PROVE c.to \in mixed'
  BY <1>1, TargetIsUsed DEF Alone
<1>2. ASSUME c.at \in Saving, c.data.name # NoName PROVE Home(c.data) \in mixed'
  BY <1>1, <1>2, PayloadIsGood
<1>3. c.at = "write" => c.to[1] # NoName /\ c.fd \in mixed'
  BY <1>1, TargetIsUsed, NamesAssumption DEF Alone, Saving, Paths
<1> QED BY <1>1, <1>2, <1>3 DEF Met

\* The text of a yaml that no two operations have met at has the name of the
\* job it is of, unless it is on its way in a renaming.
LEMMA UnmixedNames ==
  ASSUME IInv, BookInv, NEW x \in Paths \ mixed, Cell(disk, x).name # NoName
  PROVE  \/ Home(Cell(disk, x)) = x
         \/ \E q \in Processes : {x, Home(Cell(disk, x))} \subseteq Uses(call[q])
<1>1. \A y \in Paths \ mixed : Cell(book, y).name # NoName => Home(Cell(book, y)) = y
  BY OtherNames DEF BookInv, GoodInv, Good
<1>2. CASE ~InUse(x)
  BY <1>1, <1>2 DEF BookInv, DiskIsBook, Cell
<1>3. CASE InUse(x)
  <2>1. PICK q \in Processes : x \in Uses(call[q])
    BY <1>3 DEF InUse
  <2>2. PICK c : c = call[q]
    OBVIOUS
  <2>3. Uses(c) \cap mixed = {} /\ Alone(c, disk, book) /\ CallOK(c) /\ x \in Uses(c)
    BY <2>1, <2>2 DEF BookInv, MixInv, Whole, AloneInv, IInv, TypeInv
  <2>4. Cell(disk, x) = Turned(c, book, x)
    BY <2>3, OtherNames DEF Alone
  <2>5. CASE Renamed(c)
    <3>1. Uses(c) = {c.name, c.new} \X Files /\ Yaml(c.name) \in Files
      BY <2>3, <2>5, RenamerUses DEF Renamed
    <3>2. x[2] \in Files /\ Turned(c, book, x) # NoFile
      BY <2>3, <2>4, <3>1, OtherNames
    <3> DEFINE f == IF c.at = "file" \/ x[2] # Yaml(c.new) THEN x[2] ELSE Yaml(c.name)
    <3>3. f \in Files /\ Turned(c, book, x) = book[c.name][f]
      BY <2>5, <3>1, <3>2 DEF Turned
    <3> HIDE DEF f
    <3>4. <<c.name, f>> \in Uses(c)
      BY <3>1, <3>3
    <3>5. <<c.name, f>> \in Paths \ mixed
      BY <2>3, <3>4, UsesArePaths
    <3>6. Cell(disk, x) = Cell(book, <<c.name, f>>)
      BY <2>4, <3>3 DEF Cell
    <3> QED BY <1>1, <2>1, <2>2, <3>4, <3>5, <3>6
  <2>6. CASE ~Renamed(c)
    <3>1. Turned(c, book, x) = Cell(book, x)
      BY <2>4, <2>6, OtherNames DEF Turned
    <3> QED BY <1>1, <2>4, <3>1
  <2> QED BY <2>5, <2>6
<1> QED BY <1>2, <1>3

\* When more paths get mixed, and every operation's all at once or none, what
\* is known of the mixed ones still is.
LEMMA HomeGrows ==
  ASSUME IInv, BookInv, disk' = disk, mixed \subseteq mixed', mixed' \subseteq Paths,
         \A q \in Processes : Uses(call[q]) \subseteq mixed' \/ Uses(call[q]) \cap mixed' = {}
  PROVE  HomeInv'
<1> SUFFICES ASSUME NEW x \in mixed', Cell(disk, x).name # NoName PROVE Home(Cell(disk, x)) \in mixed'
  BY DEF HomeInv, Cell
<1>1. CASE x \in mixed
  BY <1>1 DEF BookInv, HomeInv
<1>2. CASE x \notin mixed
  <2>1. x \in Paths \ mixed
    BY <1>2
  <2> QED BY <2>1, UnmixedNames
<1> QED BY <1>1, <1>2

-----------------------------------------------------------------------------
(* What the steps of one operation leave of the others.                    *)

\* c has become d while a step moved files among those of F.
Follows(d, c, F) ==
  /\ d.op = c.op /\ d.name = c.name /\ d.new = c.new /\ d.id = c.id
  /\ d.at = c.at /\ d.to = c.to /\ d.data = c.data
  /\ IF c.fd \in F THEN d.fd \in F \union {Nowhere} ELSE d.fd = c.fd

LEMMA OthersStay ==
  ASSUME IInv, BookInv, NEW F \in SUBSET Paths, F \cap mixed = {} \/ F \subseteq mixed, mixed' = mixed,
         \A x \in Paths \ F : Cell(disk', x) = Cell(disk, x) /\ Cell(book', x) = Cell(book, x),
         NEW q \in Processes, Uses(call[q]) \cap F \subseteq mixed,
         NEW d, d = call'[q], Follows(d, call[q], F)
  PROVE  /\ Uses(d) = Uses(call[q]) /\ d.at \in Stages(d.op)
         /\ Uses(d) \cap mixed = {} => Alone(d, disk', book')
         /\ Uses(d) \subseteq mixed => Met(d, mixed')
<1>1. PICK c : c = call[q]
  OBVIOUS
<1>2. CallOK(c) /\ c.at \in Stages(c.op) /\ Uses(c) \subseteq Paths
  BY <1>1, UsesArePaths DEF IInv, TypeInv, BookInv, StageInv
<1>3. Uses(d) = Uses(c) /\ d.at \in Stages(d.op)
  BY <1>1, <1>2, SameUses DEF Follows
<1>4. ASSUME Uses(c) \cap mixed = {} PROVE Alone(d, disk', book')
  <2>1. Alone(c, disk, book)
    BY <1>1, <1>4 DEF BookInv, AloneInv
  <2>2. Uses(c) \cap F = {}
    BY <1>1, <1>4
  <2>3. \A x \in Uses(c) : Cell(disk', x) = Cell(disk, x) /\ Cell(book', x) = Cell(book, x)
    BY <1>2, <2>2
  <2>4. c.at = "write" => c.fd \notin F
    BY <1>2, <2>1, <2>2, TargetIsUsed DEF Alone, Saving
  <2> QED BY <1>1, <1>2, <2>1, <2>3, <2>4, AloneStays DEF Follows
<1>5. ASSUME Uses(c) \subseteq mixed PROVE Met(d, mixed')
  <2>1. Met(c, mixed)
    BY <1>1, <1>5 DEF BookInv, MetInv
  <2>2. Nowhere \notin F
    BY NowhereAssumption
  <2> QED BY <1>1, <2>1, <2>2 DEF Met, Follows
<1> QED BY <1>1, <1>3, <1>4, <1>5

\* A step of p, which moves and writes only files of its own when it is alone,
\* and only mixed ones when it is not.
LEMMA StepStays ==
  ASSUME IInv, BookInv, NEW p \in Processes, NEW c, c = call[p], NEW d, d = call'[p],
         mixed' = mixed, sent' = sent,
         NEW F, (F = Uses(c) /\ F \cap mixed = {}) \/ (F = mixed /\ Uses(c) \subseteq mixed),
         \A x \in Paths \ F : Cell(disk', x) = Cell(disk, x) /\ Cell(book', x) = Cell(book, x),
         \A q \in Processes : q # p => Follows(call'[q], call[q], F),
         d.at \in Stages(d.op), Uses(d) = Uses(c) \/ Uses(d) = {},
         Uses(d) \cap mixed = {} => Alone(d, disk', book'), Uses(d) \subseteq mixed => Met(d, mixed'),
         F \cap mixed = {} => \A x \in F : /\ Good(x, Cell(book', x))
                                           /\ Uses(d) = {} => Cell(disk', x) = Cell(book', x),
         F = mixed => \A x \in mixed : Cell(disk', x).name # NoName => Home(Cell(disk', x)) \in mixed
  PROVE  BookInv'
<1>1. mixed \subseteq Paths /\ \A q \in Processes : Uses(call[q]) \subseteq Paths
  BY UsesArePaths DEF IInv, TypeInv
<1>2. F \in SUBSET Paths
  BY <1>1
<1>3. \A q \in Processes : q # p => Uses(call[q]) \cap F \subseteq mixed
  BY DEF BookInv, MixInv
<1>4. ASSUME NEW q \in Processes, q # p
      PROVE  /\ Uses(call'[q]) = Uses(call[q]) /\ call'[q].at \in Stages(call'[q].op)
             /\ Uses(call'[q]) \cap mixed = {} => Alone(call'[q], disk', book')
             /\ Uses(call'[q]) \subseteq mixed => Met(call'[q], mixed')
  <2>1. PICK e : e = call'[q]
    OBVIOUS
  <2>2. /\ Uses(e) = Uses(call[q]) /\ e.at \in Stages(e.op)
        /\ Uses(e) \cap mixed = {} => Alone(e, disk', book')
        /\ Uses(e) \subseteq mixed => Met(e, mixed')
    BY <1>2, <1>3, <1>4, <2>1, OthersStay
  <2> QED BY <2>1, <2>2
<1>5. (Alone(d, disk', book') => Alone(call'[p], disk', book')) /\ (Met(d, mixed') => Met(call'[p], mixed'))
  OBVIOUS
<1>6. \A q \in Processes : Uses(call'[q]) = Uses(call[q]) \/ (q = p /\ Uses(call'[q]) = {})
  BY <1>4
<1>7. MixInv'
  <2>1. \A q \in Processes : Uses(call'[q]) \subseteq mixed \/ Uses(call'[q]) \cap mixed = {}
    BY <1>6 DEF BookInv, MixInv, Whole
  <2>2. \A q, r \in Processes : q # r => Uses(call'[q]) \cap Uses(call'[r]) \subseteq mixed
    BY <1>6 DEF BookInv, MixInv
  <2>3. \A q \in Processes : Uses(call[q])' = Uses(call'[q])
    BY DEF Uses
  <2> QED BY <2>1, <2>2, <2>3 DEF MixInv, Whole
<1>8. StageInv'
  BY <1>4 DEF StageInv
<1>9. GoodInv'
  <2> SUFFICES ASSUME NEW x \in Paths \ mixed PROVE Good(x, Cell(book', x))
    BY DEF GoodInv, Cell, Good
  <2> QED BY DEF BookInv, GoodInv
<1>10. HomeInv'
  <2>1. \A x \in mixed : Cell(disk', x).name # NoName => Home(Cell(disk', x)) \in mixed
    BY <1>1 DEF BookInv, HomeInv
  <2> QED BY <2>1 DEF HomeInv, Cell
<1>11. PostInv'
  BY DEF BookInv, PostInv
<1>12. AloneInv'
  <2> SUFFICES ASSUME NEW q \in Processes, (Uses(call[q]) \cap mixed = {})' PROVE Alone(call'[q], disk', book')
    BY DEF AloneInv
  <2>1. Uses(call'[q]) \cap mixed = {}
    BY DEF Uses
  <2> QED BY <1>4, <1>5, <2>1
<1>13. MetInv'
  <2> SUFFICES ASSUME NEW q \in Processes, (Uses(call[q]) \subseteq mixed)' PROVE Met(call'[q], mixed')
    BY DEF MetInv
  <2>1. Uses(call'[q]) \subseteq mixed
    BY DEF Uses
  <2> QED BY <1>4, <1>5, <2>1
<1>14. DiskIsBook'
  <2> SUFFICES ASSUME NEW x \in Paths \ mixed, ~InUse(x)' PROVE Cell(disk', x) = Cell(book', x)
    BY DEF DiskIsBook, Cell
  <2>1. \A q \in Processes : x \notin Uses(call'[q])
    BY DEF InUse, Uses
  <2>2. CASE x \in F
    BY <1>6, <2>1, <2>2
  <2>3. CASE x \notin F
    <3>1. \A q \in Processes : x \notin Uses(call[q])
      BY <1>6, <2>1, <2>3
    <3>2. Cell(disk, x) = Cell(book, x)
      BY <3>1 DEF BookInv, DiskIsBook, InUse, Cell
    <3> QED BY <2>3, <3>2
  <2> QED BY <2>2, <2>3
<1> QED BY <1>7, <1>8, <1>9, <1>10, <1>11, <1>12, <1>13, <1>14 DEF BookInv

\* An operation fails: one that is alone has done nothing.
LEMMA BookFails ==
  ASSUME IInv, BookInv, NEW p \in Processes, NEW c, c = call[p], Fails(p), UNCHANGED <<disk, sent, mixed>>,
         Uses(c) \cap mixed = {} => \A x \in Uses(c) : Cell(disk, x) = Cell(book, x)
  PROVE  BookInv'
<1>1. PICK F : IF Uses(c) \cap mixed = {} THEN F = Uses(c) ELSE F = mixed
  OBVIOUS
<1>2. (F = Uses(c) /\ F \cap mixed = {}) \/ (F = mixed /\ Uses(c) \subseteq mixed)
  BY <1>1 DEF BookInv, MixInv, Whole
<1>3. book' = book /\ call' = [call EXCEPT ![p] = Idle]
  BY DEF Fails
<1>4. \A q \in Processes : call'[q] = IF q = p THEN Idle ELSE call[q]
  BY <1>3 DEF IInv, TypeInv
<1>5. \A q \in Processes : q # p => Follows(call'[q], call[q], F)
  BY <1>4 DEF Follows
<1>6. \A x \in mixed : Cell(disk', x).name # NoName => Home(Cell(disk', x)) \in mixed
  BY DEF BookInv, HomeInv
<1>7. F \cap mixed = {} => \A x \in F : Good(x, Cell(book', x)) /\ Cell(disk', x) = Cell(book', x)
  <2> SUFFICES ASSUME F \cap mixed = {}, NEW x \in F PROVE Good(x, Cell(book, x)) /\ Cell(disk, x) = Cell(book, x)
    BY <1>3
  <2>1. F = Uses(c) /\ x \in Paths \ mixed
    BY <1>2, UsesArePaths DEF IInv, TypeInv
  <2> QED BY <2>1 DEF BookInv, GoodInv
<1>8. \A x : Cell(disk', x) = Cell(disk, x) /\ Cell(book', x) = Cell(book, x)
  BY <1>3
<1>9. PICK d : d = call'[p]
  OBVIOUS
<1>10. d = Idle
  BY <1>4, <1>9
<1>11. Uses(d) = {} /\ Alone(d, disk', book') /\ Met(d, mixed') /\ d.at \in Stages(d.op)
  <2>1. Alone(d, disk', book')
    BY <1>10, IdleAlone, IdleOK DEF Alone, Saving
  <2>2. Met(d, mixed')
    BY <1>10, IdleAlone
  <2> QED BY <1>10, <2>1, <2>2, IdleAlone
<1> QED BY <1>2, <1>5, <1>6, <1>7, <1>8, <1>9, <1>11, StepStays

\* An operation goes on as d, and has not touched anything yet.
LEMMA BookGoesOn ==
  ASSUME IInv, BookInv, NEW p \in Processes, NEW c, c = call[p], NEW d, call' = [call EXCEPT ![p] = d],
         UNCHANGED <<disk, sent, book, mixed>>,
         d.op = c.op, d.name = c.name, d.new = c.new, d.id = c.id, d.at \in Stages(d.op),
         Uses(c) \cap mixed = {} => Alone(d, disk, book), Uses(c) \subseteq mixed => Met(d, mixed)
  PROVE  BookInv'
<1>1. PICK F : IF Uses(c) \cap mixed = {} THEN F = Uses(c) ELSE F = mixed
  OBVIOUS
<1>2. (F = Uses(c) /\ F \cap mixed = {}) \/ (F = mixed /\ Uses(c) \subseteq mixed)
  BY <1>1 DEF BookInv, MixInv, Whole
<1>3. \A q \in Processes : call'[q] = IF q = p THEN d ELSE call[q]
  BY DEF IInv, TypeInv
<1>4. \A q \in Processes : q # p => Follows(call'[q], call[q], F)
  BY <1>3 DEF Follows
<1>5. \A x \in mixed : Cell(disk', x).name # NoName => Home(Cell(disk', x)) \in mixed
  BY DEF BookInv, HomeInv
<1>6. Uses(d) = Uses(c)
  BY SameUses
<1>7. F \cap mixed = {} => \A x \in F : /\ Good(x, Cell(book', x))
                                        /\ Uses(d) = {} => Cell(disk', x) = Cell(book', x)
  <2> SUFFICES ASSUME F \cap mixed = {}, NEW x \in F
               PROVE  Good(x, Cell(book, x)) /\ (Uses(d) = {} => Cell(disk, x) = Cell(book, x))
    OBVIOUS
  <2>1. F = Uses(c) /\ x \in Paths \ mixed
    BY <1>2, UsesArePaths DEF IInv, TypeInv
  <2> QED BY <1>6, <2>1 DEF BookInv, GoodInv
<1>8. \A x : Cell(disk', x) = Cell(disk, x) /\ Cell(book', x) = Cell(book, x)
  OBVIOUS
<1>9. d = call'[p]
  BY <1>3
<1> QED BY <1>2, <1>4, <1>5, <1>6, <1>7, <1>8, <1>9, StepStays

-----------------------------------------------------------------------------
(* The operations read.                                                    *)

\* An operation that has read and is alone is going to save in its place.
LEMMA SaverIsAlone ==
  ASSUME NEW c, Alone(c, disk, book), c.at = "read", c.at \in Stages(c.op), c.op \notin {"none", "GetJob"},
         NEW d, d.op = c.op, d.name = c.name, d.new = c.new, d.id = c.id, d.at = "open",
         d.to = Target(d), Payload(d, book)
  PROVE  Alone(d, disk, book) /\ d.at \in Stages(d.op)
<1>1. \A x \in Uses(c) : Cell(disk, x) = Cell(book, x)
  BY ReadsTheBook
<1>2. Uses(d) = Uses(c)
  BY SameUses
<1>3. c.op \notin {"UpdateJob", "SaveLog"}
  BY DEF Stages
<1>4. d.at \in Stages(d.op)
  BY DEF Stages
<1>5. \A x : Turned(d, book, x) = Cell(book, x)
  BY <1>3 DEF Turned, Renamed
<1> QED BY <1>1, <1>2, <1>4, <1>5 DEF Alone

LEMMA YamlIsUsed ==
  ASSUME NEW c, CallOK(c), c.op \in {"SaveJobParams", "SaveJobUserId", "CreateJobDetail", "UpdateJob", "DeleteJob"}
  PROVE  <<c.name, Yaml(c.name)>> \in Uses(c) /\ <<c.name, Yaml(c.name)>> \in Paths /\ Yaml(c.name) \in Yamls
BY PathFacts, RenamerUses, FileFacts DEF Uses, CallOK

\* SaveJobParams and SaveJobUserId save under the name they have read.
LEMMA ReaderGoesOn ==
  ASSUME IInv, BookInv, NEW p \in Processes, NEW c, c = call[p], c.at = "read",
         Read(p) \notin Unreadable, NEW t, t = Parsed(Read(p)),
         NEW u, \/ c.op = "SaveJobParams" /\ u = [t EXCEPT !.params = TRUE]
                \/ c.op = "SaveJobUserId" /\ u = [t EXCEPT !.user = TRUE],
         call' = [call EXCEPT ![p] = [@ EXCEPT !.at = "open", !.to = SavedUnder(p, t), !.data = u]],
         UNCHANGED <<disk, sent, book, mixed>>
  PROVE  BookInv'
<1> DEFINE x == <<c.name, Yaml(c.name)>>
<1>1. CallOK(c) /\ c \in Frames /\ c.at \in Stages(c.op)
  BY DEF IInv, TypeInv, BookInv, StageInv
<1>2. x \in Uses(c) /\ x \in Paths /\ x[2] \in Yamls
  BY <1>1, YamlIsUsed
<1>3. Read(p) = Cell(disk, x) /\ Read(p) \in Contents
  BY <1>1, ReadFacts DEF Read, Cell
<1>4. t \in Contents /\ u.name = t.name
  <2>1. t \in Contents
    BY <1>3, ReadFacts DEF CallOK
  <2> QED BY <2>1 DEF Contents
<1>5. t.name # NoName => t = Cell(disk, x)
  BY <1>3, OtherNames DEF Parsed, Text
<1>6. PICK d : d = [c EXCEPT !.at = "open", !.to = Home(t), !.data = u]
  OBVIOUS
<1>7. call' = [call EXCEPT ![p] = d]
  BY <1>6 DEF SavedUnder, Home
<1>8. /\ d.op = c.op /\ d.name = c.name /\ d.new = c.new /\ d.id = c.id /\ d.at = "open"
      /\ d.to = Home(t) /\ d.data = u
  BY <1>1, <1>6 DEF Frames
<1> HIDE DEF x
<1>9. Home(u) = Home(t)
  BY <1>4 DEF Home
<1>10. ASSUME Uses(c) \cap mixed = {} PROVE Alone(d, disk, book)
  <2>1. Alone(c, disk, book)
    BY <1>10 DEF BookInv, AloneInv
  <2>2. Cell(disk, x) = Cell(book, x)
    BY <1>1, <1>2, <2>1, ReadsTheBook
  <2>3. Good(x, Cell(book, x))
    BY <1>2, <1>10 DEF BookInv, GoodInv
  <2>4. Cell(book, x).kind = "yaml" /\ Home(Cell(book, x)) = x /\ t = Cell(book, x)
    BY <1>2, <1>3, <2>2, <2>3 DEF Good, Parsed, Unreadable
  <2>5. Payload(d, book)
    <3>1. t = book[d.name][Yaml(d.name)] /\ t.kind = "yaml"
      BY <1>8, <2>4 DEF Cell, x
    <3> QED BY <1>8, <3>1 DEF Payload
  <2>6. d.to = Target(d)
    BY <1>8, <2>4 DEF Target, x
  <2> QED BY <1>1, <1>8, <2>1, <2>5, <2>6, SaverIsAlone
<1>11. ASSUME Uses(c) \subseteq mixed PROVE Met(d, mixed)
  <2>1. x \in mixed
    BY <1>2, <1>11
  <2>2. t.name # NoName => Home(t) \in mixed
    BY <1>5, <2>1 DEF BookInv, HomeInv
  <2>3. d.to[1] = t.name
    BY <1>8 DEF Home
  <2> QED BY <1>4, <1>8, <1>9, <2>2, <2>3 DEF Met
<1>12. d.at \in Stages(d.op)
  BY <1>8 DEF Stages
<1>13. /\ Uses(c) \cap mixed = {} => Alone(d, disk, book)
       /\ Uses(c) \subseteq mixed => Met(d, mixed)
  BY <1>10, <1>11
<1> QED BY ONLY IInv, BookInv, p \in Processes, c = call[p], <1>7, <1>8, <1>12, <1>13, BookGoesOn,
           UNCHANGED <<disk, sent, book, mixed>>

\* An operation fails that has only read.
LEMMA ReaderFails ==
  ASSUME IInv, BookInv, NEW p \in Processes, Fails(p), UNCHANGED <<disk, sent, mixed>>,
         call[p].at \in {"read", "check", "dir", "remove"}
  PROVE  BookInv'
<1>1. PICK c : c = call[p]
  OBVIOUS
<1>2. ASSUME Uses(c) \cap mixed = {} PROVE \A x \in Uses(c) : Cell(disk, x) = Cell(book, x)
  <2>1. Alone(c, disk, book) /\ c.at \in Stages(c.op)
    BY <1>1, <1>2 DEF BookInv, AloneInv, StageInv
  <2> QED BY <1>1, <2>1, ReadsTheBook
<1> QED BY <1>1, <1>2, BookFails

LEMMA ReadForParamsBook == ASSUME IInv, BookInv, NEW p \in Processes, ReadForParams(p) PROVE BookInv'
<1>1. call[p].op = "SaveJobParams" /\ call[p].at = "read" /\ UNCHANGED <<disk, sent, mixed>>
  BY DEF ReadForParams
<1>2. CASE Read(p) \in Unreadable
  BY <1>1, <1>2, ReaderFails DEF ReadForParams
<1>3. CASE Read(p) \notin Unreadable
  <2>1. PICK t : t = Parsed(Read(p))
    OBVIOUS
  <2>2. PICK u : u = [t EXCEPT !.params = TRUE]
    OBVIOUS
  <2>3. book' = book
        /\ call' = [call EXCEPT ![p] = [@ EXCEPT !.at = "open", !.to = SavedUnder(p, t), !.data = u]]
    BY <1>3, <2>1, <2>2 DEF ReadForParams
  <2>4. PICK c : c = call[p]
    OBVIOUS
  <2> QED BY <1>1, <1>3, <2>1, <2>2, <2>3, <2>4, ReaderGoesOn
<1> QED BY <1>2, <1>3

LEMMA ReadForUserIdBook == ASSUME IInv, BookInv, NEW p \in Processes, ReadForUserId(p) PROVE BookInv'
<1>1. call[p].op = "SaveJobUserId" /\ call[p].at = "read" /\ UNCHANGED <<disk, sent, book, mixed>>
      /\ Read(p) \notin Unreadable
  BY DEF ReadForUserId
<1>2. PICK t : t = Parsed(Read(p))
  OBVIOUS
<1>3. PICK u : u = [t EXCEPT !.user = TRUE]
  OBVIOUS
<1>4. call' = [call EXCEPT ![p] = [@ EXCEPT !.at = "open", !.to = SavedUnder(p, t), !.data = u]]
  BY <1>2, <1>3 DEF ReadForUserId
<1>5. PICK c : c = call[p]
  OBVIOUS
<1> QED BY <1>1, <1>2, <1>3, <1>4, <1>5, ReaderGoesOn

LEMMA ReadForDetailBook == ASSUME IInv, BookInv, NEW p \in Processes, ReadForDetail(p) PROVE BookInv'
<1>1. PICK c : c = call[p]
  OBVIOUS
<1>2. /\ c.op = "CreateJobDetail" /\ c.at = "read" /\ UNCHANGED <<disk, sent, mixed>>
      /\ CallOK(c) /\ c \in Frames /\ c.at \in Stages(c.op)
  BY <1>1 DEF ReadForDetail, IInv, TypeInv, BookInv, StageInv
<1>3. CASE Fails(p)
  BY <1>1, <1>2, <1>3, ReaderFails
<1>4. CASE ~Fails(p)
  <2> DEFINE x == <<c.name, Yaml(c.name)>>
             o == Other(IF Read(p) = Empty THEN "hollow" ELSE "notrun")
  <2>1. PICK d : d = [c EXCEPT !.at = "open", !.to = <<c.name, Detail(c.id)>>, !.data = o]
    OBVIOUS
  <2>2. call' = [call EXCEPT ![p] = d] /\ book' = book
    BY <1>1, <1>4, <2>1 DEF ReadForDetail
  <2>3. /\ d.op = c.op /\ d.name = c.name /\ d.new = c.new /\ d.id = c.id /\ d.at = "open"
        /\ d.to = <<c.name, Detail(c.id)>> /\ d.data = o
    BY <1>2, <2>1 DEF Frames
  <2>4. x \in Uses(c) /\ x \in Paths /\ x[2] \in Yamls /\ Read(p) = Cell(disk, x)
    BY <1>1, <1>2, YamlIsUsed DEF Read, Cell
  <2> HIDE DEF x
  <2>5. ASSUME Uses(c) \cap mixed = {} PROVE Alone(d, disk, book)
    <3>1. Alone(c, disk, book)
      BY <1>1, <2>5 DEF BookInv, AloneInv
    <3>2. Cell(disk, x) = Cell(book, x) /\ Cell(book, x) # Empty
      BY <1>2, <2>4, <2>5, <3>1, ReadsTheBook DEF BookInv, GoodInv, Good
    <3>3. Payload(d, book) /\ d.to = Target(d)
      BY <1>2, <2>3, <2>4, <3>2 DEF Payload, Target
    <3> QED BY <1>2, <2>3, <3>1, <3>3, SaverIsAlone
  <2>6. ASSUME Uses(c) \subseteq mixed PROVE Met(d, mixed)
    <3>1. <<c.name, Detail(c.id)>> \in mixed
      BY <1>2, <2>6 DEF Uses
    <3> QED BY <2>3, <3>1, OtherNames DEF Met
  <2>7. d.at \in Stages(d.op)
    BY <1>2, <2>3 DEF Stages
  <2>8. (Uses(c) \cap mixed = {} => Alone(d, disk, book)) /\ (Uses(c) \subseteq mixed => Met(d, mixed))
    BY <2>5, <2>6
  <2> HIDE DEF o
  <2> QED BY ONLY IInv, BookInv, p \in Processes, <1>1, <1>2, <2>2, <2>3, <2>7, <2>8, BookGoesOn
<1> QED BY <1>3, <1>4

LEMMA ReadForStopBook == ASSUME IInv, BookInv, NEW p \in Processes, ReadForStop(p) PROVE BookInv'
<1>1. PICK c : c = call[p]
  OBVIOUS
<1>2. /\ c.op = "MakeJobStop" /\ c.at = "read" /\ UNCHANGED <<disk, sent, mixed>>
      /\ CallOK(c) /\ c \in Frames /\ c.at \in Stages(c.op)
  BY <1>1 DEF ReadForStop, IInv, TypeInv, BookInv, StageInv
<1>3. CASE Fails(p)
  BY <1>1, <1>2, <1>3, ReaderFails
<1>4. CASE ~Fails(p)
  <2> DEFINE x == <<c.name, Detail(c.id)>>
             i == IF disk[c.name][Detail(c.id)] = Empty THEN 0 ELSE c.id
  <2>1. PICK d : d = [c EXCEPT !.at = "open", !.data = Other("stop"), !.to = <<c.name, Detail(i)>>]
    OBVIOUS
  <2>2. call' = [call EXCEPT ![p] = d] /\ book' = book
    BY <1>1, <1>4, <2>1 DEF ReadForStop
  <2>3. /\ d.op = c.op /\ d.name = c.name /\ d.new = c.new /\ d.id = c.id /\ d.at = "open"
        /\ d.to = <<c.name, Detail(i)>> /\ d.data = Other("stop")
    BY <1>2, <2>1 DEF Frames
  <2>4. x \in Uses(c) /\ x \in Paths
    BY <1>2, PathFacts DEF Uses, CallOK
  <2>5. ASSUME Uses(c) \cap mixed = {} PROVE Alone(d, disk, book)
    <3>1. Alone(c, disk, book)
      BY <1>1, <2>5 DEF BookInv, AloneInv
    <3>2. Cell(disk, x) = Cell(book, x) /\ Cell(book, x) # Empty
      BY <1>2, <2>4, <2>5, <3>1, ReadsTheBook DEF BookInv, GoodInv, Good
    <3>3. i = c.id
      BY <3>2 DEF Cell
    <3>4. Payload(d, book) /\ d.to = Target(d)
      BY <1>2, <2>3, <3>3 DEF Payload, Target
    <3> QED BY <1>2, <2>3, <3>1, <3>4, SaverIsAlone
  <2>6. ASSUME Uses(c) \subseteq mixed PROVE Met(d, mixed)
    <3>1. <<c.name, Detail(i)>> \in mixed
      BY <1>2, <2>6 DEF Uses
    <3> QED BY <2>3, <3>1, OtherNames DEF Met
  <2>7. d.at \in Stages(d.op)
    BY <1>2, <2>3 DEF Stages
  <2>8. (Uses(c) \cap mixed = {} => Alone(d, disk, book)) /\ (Uses(c) \subseteq mixed => Met(d, mixed))
    BY <2>5, <2>6
  <2> HIDE DEF i, x
  <2> QED BY ONLY IInv, BookInv, p \in Processes, <1>1, <1>2, <2>2, <2>3, <2>7, <2>8, BookGoesOn
<1> QED BY <1>3, <1>4

LEMMA RenameCheckBook == ASSUME IInv, BookInv, NEW p \in Processes, RenameCheck(p) PROVE BookInv'
<1>1. PICK c : c = call[p]
  OBVIOUS
<1>2. /\ c.at = "check" /\ c.op = "UpdateJob" /\ UNCHANGED <<disk, sent, mixed>>
      /\ CallOK(c) /\ c \in Frames /\ c.at \in Stages(c.op)
  BY <1>1 DEF RenameCheck, IInv, TypeInv, BookInv, StageInv, Stages
<1>3. CASE Fails(p)
  BY <1>1, <1>2, <1>3, ReaderFails
<1>4. CASE ~Fails(p)
  <2> DEFINE x == <<c.name, Yaml(c.name)>>
  <2>1. PICK d : d = [c EXCEPT !.at = "dir"]
    OBVIOUS
  <2>2. call' = [call EXCEPT ![p] = d] /\ book' = book /\ Cell(disk, x) # NoFile
    BY <1>1, <1>4, <2>1 DEF RenameCheck, Cell
  <2>3. /\ d.op = c.op /\ d.name = c.name /\ d.new = c.new /\ d.id = c.id /\ d.at = "dir"
        /\ d.to = c.to /\ d.data = c.data
    BY <1>2, <2>1 DEF Frames
  <2>4. d.at \in Stages(d.op)
    BY <1>2, <2>3 DEF Stages
  <2>5. ASSUME Uses(c) \cap mixed = {} PROVE Alone(d, disk, book)
    <3>1. Alone(c, disk, book)
      BY <1>1, <2>5 DEF BookInv, AloneInv
    <3>2. x \in Uses(c)
      BY <1>2, YamlIsUsed
    <3>3. \A y \in Uses(c) : Cell(disk, y) = Cell(book, y)
      BY <1>2, <3>1, ReadsTheBook
    <3>4. book[d.name][Yaml(d.name)] # NoFile
      BY <2>2, <2>3, <3>2, <3>3 DEF Cell
    <3>5. Payload(d, book) /\ d.to = Target(d)
      BY <1>2, <2>3, <3>1 DEF Payload, Target, Alone, Saving
    <3>6. \A y : Turned(d, book, y) = Cell(book, y)
      BY <1>2, <2>3 DEF Turned, Renamed
    <3>7. Uses(d) = Uses(c)
      BY <2>3, SameUses
    <3> QED BY <2>3, <3>3, <3>4, <3>5, <3>6, <3>7 DEF Alone
  <2>6. ASSUME Uses(c) \subseteq mixed PROVE Met(d, mixed)
    <3>1. Met(c, mixed)
      BY <1>1, <2>6 DEF BookInv, MetInv
    <3> QED BY <1>2, <2>3, <3>1 DEF Met, Saving
  <2>7. (Uses(c) \cap mixed = {} => Alone(d, disk, book)) /\ (Uses(c) \subseteq mixed => Met(d, mixed))
    BY <2>5, <2>6
  <2> QED BY ONLY IInv, BookInv, p \in Processes, <1>1, <1>2, <2>2, <2>3, <2>4, <2>7, BookGoesOn
<1> QED BY <1>3, <1>4

LEMMA OpenFailsBook == ASSUME IInv, BookInv, NEW p \in Processes, OpenFails(p) PROVE BookInv'
<1>1. PICK c : c = call[p]
  OBVIOUS
<1>2. /\ c.at = "open" /\ c.to[1] = NoName /\ Fails(p) /\ UNCHANGED <<disk, sent, mixed>>
      /\ CallOK(c) /\ c.at \in Stages(c.op)
  BY <1>1 DEF OpenFails, IInv, TypeInv, BookInv, StageInv
<1>3. ASSUME Uses(c) \cap mixed = {} PROVE FALSE
  <2>1. c.to = Target(c)
    BY <1>1, <1>2, <1>3 DEF BookInv, AloneInv, Alone, Saving
  <2>2. Target(c) \in Paths
    BY <1>2, TargetIsUsed DEF Saving
  <2> QED BY <1>2, <2>1, <2>2, NamesAssumption DEF Paths
<1> QED BY <1>1, <1>2, <1>3, BookFails

-----------------------------------------------------------------------------
(* What an operation is for, file by file.                                 *)

LEMMA PathParts == \A x \in Paths : x[1] \in Names /\ x[2] \in Files /\ x = <<x[1], x[2]>>
BY DEF Paths

\* An operation that is alone and writes does what it is for: its own file gets
\* what it saves, and the others it uses are as it has turned them.
LEMMA DoneWrites ==
  ASSUME IInv, NEW c, CallOK(c), c.at = "write", c.at \in Stages(c.op), c.data.kind # "log", Alone(c, disk, book)
  PROVE  \A x \in Uses(c) : Cell(Done(c), x) = IF x = c.to THEN c.data ELSE Turned(c, book, x)
<1> DEFINE y == Yaml(c.name)
           e == Detail(c.id)
<1>1. book \in Stored /\ c.data \in Contents
  BY DEF IInv, TypeInv, CallOK, Frames
<1>2. c.to = Target(c) /\ Payload(c, book)
  BY DEF Alone, Saving
<1>3. Target(c) \in Uses(c) /\ Target(c) \in Paths /\ c.op \notin {"none", "GetJob"} /\ Uses(c) \subseteq Paths
  BY TargetIsUsed, UsesArePaths DEF Saving
<1>4. c.op \notin {"DeleteJob", "DeleteJobDetail"}
  BY DEF Stages
<1>5. CASE c.op \in {"CreateJob", "WorkerSaves"}
  <2>1. Done(c) = [book EXCEPT ![c.name][y] = c.data] /\ c.to = <<c.name, y>> /\ Uses(c) = {c.to}
    BY <1>2, <1>5 DEF Done, Target, Uses
  <2>2. c.name \in Names /\ y \in Files
    BY <1>5 DEF CallOK, Files
  <2>3. Done(c)[c.name][y] = c.data
    BY <1>1, <2>1, <2>2 DEF Stored
  <2> QED BY <2>1, <2>3 DEF Cell
<1>6. CASE c.op \in {"SaveJobParams", "SaveJobUserId"}
  <2>1. c.to = <<c.name, y>> /\ Uses(c) = {c.to} /\ c.name \in Names /\ y \in Files
    BY <1>2, <1>6 DEF Target, Uses, CallOK, Files
  <2>2. book[c.name][y] \in Contents /\ book[c.name][y].kind = "yaml"
    BY <1>1, <1>2, <1>6, <2>1 DEF Stored, Payload
  <2>3. Done(c)[c.name][y] = c.data
    <3>1. CASE c.op = "SaveJobParams"
      <4>1. Done(c) = [book EXCEPT ![c.name][y].params = TRUE]
        BY <2>2, <3>1 DEF Done
      <4>2. Done(c) = [book EXCEPT ![c.name][y] = c.data]
        BY <1>2, <3>1, <4>1 DEF Payload
      <4> QED BY <1>1, <2>1, <4>2 DEF Stored
    <3>2. CASE c.op = "SaveJobUserId"
      <4>1. Done(c) = [book EXCEPT ![c.name][y].user = TRUE]
        BY <2>2, <3>2 DEF Done
      <4>2. Done(c) = [book EXCEPT ![c.name][y] = c.data]
        BY <1>2, <3>2, <4>1 DEF Payload
      <4> QED BY <1>1, <2>1, <4>2 DEF Stored
    <3> QED BY <1>6, <3>1, <3>2
  <2> HIDE DEF y
  <2> QED BY <2>1, <2>3 DEF Cell
<1>7. CASE c.op \in {"CreateJobDetail", "MakeJobStop"}
  <2>1. Done(c) = [book EXCEPT ![c.name][e] = c.data] /\ c.to = <<c.name, e>>
    BY <1>2, <1>7 DEF Done, Target, Payload
  <2>2. \A x : Turned(c, book, x) = Cell(book, x)
    BY <1>7 DEF Turned, Renamed
  <2>3. c.name \in Names /\ e \in Files
    BY <1>7 DEF CallOK, Files
  <2>4. \A n \in Names, f \in Files : Done(c)[n][f] = IF n = c.to[1] /\ f = c.to[2] THEN c.data ELSE book[n][f]
    BY <1>1, <2>1, <2>3 DEF Stored
  <2>5. c.to \in Paths
    BY <1>2, <1>3
  <2>6. \A x \in Paths : Cell(Done(c), x) = IF x = c.to THEN c.data ELSE Cell(book, x)
    BY <2>4, <2>5, PathParts DEF Cell
  <2> QED BY <1>3, <2>2, <2>6
<1>8. CASE c.op = "SaveLog"
  <2> DEFINE l == LogOf(c.id)
  <2>1. c.data = Other("sent") /\ c.to = <<c.name, e>>
    BY <1>2, <1>8, OtherNames DEF Payload, Target
  <2>2. <<c.name, l>> \in Paths /\ Other("log") \in Contents /\ l # e
    BY <1>8, PathFacts, ContentFacts, FileFacts DEF CallOK
  <2>3. c.name \in Names /\ e \in Files /\ l \in Files
    BY <1>8 DEF CallOK, Files
  <2>4. Done(c) = [book EXCEPT ![c.name][e] = c.data, ![c.name][l] = Other("log")]
    BY <1>8, <2>1 DEF Done
  <2>5. Done(c)[c.name][e] = c.data /\ Done(c)[c.name][l] = Other("log")
    BY <1>1, <2>2, <2>3, <2>4 DEF Stored
  <2>6. Uses(c) = {<<c.name, l>>, <<c.name, e>>}
    BY <1>8 DEF Uses
  <2>7. Turned(c, book, <<c.name, l>>) = Other("log") /\ <<c.name, l>> # c.to
    BY <1>8, <2>1, <2>2, OtherNames DEF Turned, Renamed
  <2> QED BY <2>1, <2>5, <2>6, <2>7 DEF Cell
<1>9. CASE c.op = "UpdateJob"
  <2> DEFINE z == Yaml(c.new)
             r == [book[c.name] EXCEPT ![y] = NoFile, ![z] = c.data]
  <2>1. /\ Uses(c) = {c.name, c.new} \X Files /\ c.name \in Names /\ c.new \in Names /\ y \in Files /\ z \in Files
        /\ c.to = <<c.new, z>>
    BY <1>2, <1>9, RenamerUses DEF Target
  <2>2. \A f \in Files : r[f] = IF f = z THEN c.data ELSE IF f = y THEN NoFile ELSE book[c.name][f]
    BY <1>1, <2>1 DEF Stored
  <2>3. Done(c) = [book EXCEPT ![c.name] = NoFiles, ![c.new] = r]
    BY <1>9 DEF Done
  <2> HIDE DEF r
  <2>4. \A n \in Names : Done(c)[n] = IF n = c.new THEN r ELSE IF n = c.name THEN NoFiles ELSE book[n]
    BY <1>1, <2>1, <2>3 DEF Stored
  <2> SUFFICES ASSUME NEW x \in Uses(c)
               PROVE  Cell(Done(c), x) = IF x = c.to THEN c.data ELSE Turned(c, book, x)
    OBVIOUS
  <2>5. x = <<x[1], x[2]>> /\ x[1] \in {c.name, c.new} /\ x[2] \in Files
    BY <2>1
  <2>6. CASE c.name = c.new
    <3>1. Cell(Done(c), x) = r[x[2]] /\ Turned(c, book, x) = book[c.name][x[2]]
      BY <1>9, <2>1, <2>4, <2>5, <2>6 DEF Cell, Turned, Renamed
    <3> QED BY <2>1, <2>2, <2>5, <2>6, <3>1
  <2>7. CASE c.name # c.new
    <3>1. Renamed(c) /\ z # y
      BY <1>9, <2>7, FileFacts DEF Renamed
    <3>2. CASE x[1] = c.name
      BY <2>1, <2>4, <2>5, <2>7, <3>1, <3>2 DEF Cell, Turned, NoFiles
    <3>3. CASE x[1] = c.new
      <4>1. Cell(Done(c), x) = r[x[2]]
        BY <2>1, <2>4, <3>3 DEF Cell
      <4> QED BY <2>1, <2>2, <2>5, <2>7, <3>1, <3>3, <4>1 DEF Turned
    <3> QED BY <2>5, <3>2, <3>3
  <2> QED BY <2>6, <2>7
<1> QED BY <1>3, <1>4, <1>5, <1>6, <1>7, <1>8, <1>9 DEF CallOK, Frames

LEMMA DoneElsewhere ==
  ASSUME IInv, NEW c, CallOK(c)
  PROVE  \A x \in Paths \ Uses(c) : Cell(Done(c), x) = Cell(book, x)
<1> DEFINE y == Yaml(c.name)
           e == Detail(c.id)
<1>1. book \in Stored /\ c.data \in Contents /\ NoFile \in Contents
  BY ContentFacts DEF IInv, TypeInv, CallOK, Frames
<1> SUFFICES ASSUME NEW x \in Paths \ Uses(c) PROVE Cell(Done(c), x) = Cell(book, x)
  OBVIOUS
<1>2. x = <<x[1], x[2]>> /\ x[1] \in Names /\ x[2] \in Files
  BY DEF Paths
<1>3. CASE c.op \in {"none", "GetJob"}
  BY <1>3 DEF Done
<1>4. CASE c.op \in {"CreateJob", "WorkerSaves", "SaveJobParams", "SaveJobUserId", "DeleteJob"}
  <2>1. x # <<c.name, y>> /\ c.name \in Names /\ y \in Files
    BY <1>4 DEF Uses, CallOK, Files
  <2>2. PICK g : g = Done(c)[c.name][y]
    OBVIOUS
  <2>3. \A n \in Names, f \in Files : Done(c)[n][f] = IF n = c.name /\ f = y THEN g ELSE book[n][f]
    BY <1>1, <1>4, <2>1, <2>2 DEF Done, Stored
  <2> QED BY <1>2, <2>1, <2>3 DEF Cell
<1>5. CASE c.op \in {"DeleteJobDetail", "CreateJobDetail", "MakeJobStop"}
  <2>1. x # <<c.name, e>> /\ c.name \in Names /\ e \in Files
    BY <1>5 DEF Uses, CallOK, Files
  <2>2. PICK g : g = Done(c)[c.name][e]
    OBVIOUS
  <2>3. \A n \in Names, f \in Files : Done(c)[n][f] = IF n = c.name /\ f = e THEN g ELSE book[n][f]
    BY <1>1, <1>5, <2>1, <2>2 DEF Done, Stored
  <2> QED BY <1>2, <2>1, <2>3 DEF Cell
<1>6. CASE c.op = "SaveLog"
  <2> DEFINE l == LogOf(c.id)
  <2>1. x # <<c.name, e>> /\ x # <<c.name, l>> /\ c.name \in Names /\ e \in Files /\ l \in Files
    BY <1>6 DEF Uses, CallOK, Files
  <2>2. Done(c) = [book EXCEPT ![c.name][e] = Other("sent"), ![c.name][l] = Other("log")]
    BY <1>6 DEF Done
  <2>3. \A n \in Names, f \in Files : n # c.name \/ f \notin {e, l} => Done(c)[n][f] = book[n][f]
    BY <1>1, <2>1, <2>2 DEF Stored
  <2> QED BY <1>2, <2>1, <2>3 DEF Cell
<1>7. CASE c.op = "UpdateJob"
  <2> DEFINE r == [book[c.name] EXCEPT ![y] = NoFile, ![Yaml(c.new)] = c.data]
  <2>1. x[1] # c.name /\ x[1] # c.new
    BY <1>2, <1>7, RenamerUses
  <2>2. Done(c) = [book EXCEPT ![c.name] = NoFiles, ![c.new] = r]
    BY <1>7 DEF Done
  <2> HIDE DEF r
  <2> QED BY <1>1, <1>2, <2>1, <2>2 DEF Cell, Stored
<1> QED BY <1>3, <1>4, <1>5, <1>6, <1>7 DEF CallOK, Frames

-----------------------------------------------------------------------------
(* The operations save.                                                    *)

\* The files a step of p may touch.
LEMMA Footprint ==
  ASSUME IInv, BookInv, NEW p \in Processes, NEW c, c = call[p]
  PROVE  /\ CallOK(c) /\ c \in Frames /\ c.at \in Stages(c.op) /\ Uses(c) \subseteq Paths /\ mixed \subseteq Paths
         /\ \E F \in SUBSET Paths :
              \/ F = Uses(c) /\ F \cap mixed = {} /\ Alone(c, disk, book) /\ \A x \in F : Good(x, Cell(book, x))
              \/ F = mixed /\ Uses(c) \subseteq mixed /\ Met(c, mixed) /\ Uses(c) # {}
<1>1. /\ CallOK(c) /\ c \in Frames /\ c.at \in Stages(c.op) /\ Uses(c) \subseteq Paths /\ mixed \subseteq Paths
  BY UsesArePaths DEF IInv, TypeInv, BookInv, StageInv
<1>2. CASE Uses(c) \cap mixed = {}
  <2>1. Alone(c, disk, book) /\ \A x \in Uses(c) : Good(x, Cell(book, x))
    BY <1>1, <1>2 DEF BookInv, AloneInv, GoodInv
  <2> QED BY <1>1, <1>2, <2>1
<1>3. CASE Uses(c) \cap mixed # {}
  <2>1. Uses(c) \subseteq mixed /\ Met(c, mixed)
    BY <1>3 DEF BookInv, MixInv, Whole, MetInv
  <2> QED BY <1>1, <1>3, <2>1
<1> QED BY <1>1, <1>2, <1>3

LEMMA OpenBook == ASSUME IInv, BookInv, NEW p \in Processes, Open(p) PROVE BookInv'
<1>1. PICK c : c = call[p]
  OBVIOUS
<1>2. CallOK(c) /\ c \in Frames /\ c.at \in Stages(c.op) /\ c.at = "open" /\ c.to[1] # NoName
  BY <1>1, Footprint DEF Open
<1>3. PICK F \in SUBSET Paths :
        \/ F = Uses(c) /\ F \cap mixed = {} /\ Alone(c, disk, book) /\ \A x \in F : Good(x, Cell(book, x))
        \/ F = mixed /\ Uses(c) \subseteq mixed /\ Met(c, mixed) /\ Uses(c) # {}
  BY <1>1, Footprint
<1>4. PICK d : d = [c EXCEPT !.at = "write", !.fd = c.to]
  OBVIOUS
<1>5. /\ call' = [call EXCEPT ![p] = d] /\ disk' = [disk EXCEPT ![c.to[1]][c.to[2]] = Empty]
      /\ UNCHANGED <<sent, book, mixed>>
  BY <1>1, <1>4 DEF Open
<1>6. /\ d.op = c.op /\ d.name = c.name /\ d.new = c.new /\ d.id = c.id /\ d.at = "write"
      /\ d.to = c.to /\ d.data = c.data /\ d.fd = c.to
  BY <1>2, <1>4 DEF Frames
<1>7. c.to \in F /\ c.to \in Paths
  BY <1>2, <1>3, TargetIsUsed DEF Alone, Met, Saving
<1>8. \A x \in Paths : Cell(disk', x) = IF x = c.to THEN Empty ELSE Cell(disk, x)
  <2>1. \A n \in Names, f \in Files : disk'[n][f] = IF n = c.to[1] /\ f = c.to[2] THEN Empty ELSE disk[n][f]
    BY <1>5, <1>7, PathParts DEF IInv, TypeInv, Stored
  <2> QED BY <1>7, <2>1, PathParts DEF Cell
<1>9. d.at \in Stages(d.op) /\ Uses(d) = Uses(c)
  BY <1>2, <1>6, SameUses DEF Stages
<1>10. ASSUME Uses(d) \cap mixed = {} PROVE Alone(d, disk', book')
  <2>1. Alone(c, disk, book) /\ Uses(c) \subseteq Paths
    BY <1>1, <1>2, <1>9, <1>10, UsesArePaths DEF BookInv, AloneInv
  <2>2. Payload(d, book) /\ d.to = Target(d)
    BY <1>2, <1>6, <2>1 DEF Alone, Saving, Payload, Target
  <2>3. \A x : Turned(d, book, x) = Turned(c, book, x)
    BY <1>2, <1>6 DEF Turned, Renamed
  <2>4. \A x \in Uses(d) : Cell(disk', x) = IF x = d.to THEN Empty ELSE Turned(d, book, x)
    BY <1>2, <1>6, <1>8, <1>9, <2>1, <2>3 DEF Alone
  <2> QED BY <1>5, <1>6, <2>2, <2>4 DEF Alone
<1>11. ASSUME Uses(d) \subseteq mixed PROVE Met(d, mixed')
  <2>1. Met(c, mixed)
    BY <1>1, <1>9, <1>11 DEF BookInv, MetInv
  <2> QED BY <1>2, <1>5, <1>6, <2>1 DEF Met, Saving
<1>12. \A x \in Paths \ F : Cell(disk', x) = Cell(disk, x) /\ Cell(book', x) = Cell(book, x)
  BY <1>5, <1>7, <1>8
<1>13. \A q \in Processes : call'[q] = IF q = p THEN d ELSE call[q]
  BY <1>5 DEF IInv, TypeInv
<1>14. \A q \in Processes : q # p => Follows(call'[q], call[q], F)
  BY <1>13 DEF Follows
<1>15. F \cap mixed = {} => \A x \in F : /\ Good(x, Cell(book', x))
                                         /\ Uses(d) = {} => Cell(disk', x) = Cell(book', x)
  BY <1>3, <1>5, <1>7, <1>9
<1>16. F = mixed => \A x \in mixed : Cell(disk', x).name # NoName => Home(Cell(disk', x)) \in mixed
  BY <1>8, OtherNames DEF BookInv, HomeInv
<1>17. (F = Uses(c) /\ F \cap mixed = {}) \/ (F = mixed /\ Uses(c) \subseteq mixed)
  BY <1>3
<1>18. /\ Uses(d) \cap mixed = {} => Alone(d, disk', book')
       /\ Uses(d) \subseteq mixed => Met(d, mixed')
       /\ mixed' = mixed /\ sent' = sent /\ d = call'[p]
  BY <1>5, <1>10, <1>11, <1>13
<1> QED BY ONLY IInv, BookInv, p \in Processes, <1>1, <1>9, <1>12, <1>14, <1>15, <1>16, <1>17, <1>18, StepStays

\* What an operation that is alone has turned is good.
LEMMA TurnedIsGood ==
  ASSUME IInv, BookInv, NEW c, CallOK(c), c.at = "write", Uses(c) \cap mixed = {}, NEW x \in Uses(c), x # Target(c)
  PROVE  Good(x, Turned(c, book, x))
<1>1. x \in Paths \ mixed
  BY UsesArePaths
<1>2. CASE Renamed(c)
  <2>1. /\ Uses(c) = {c.name, c.new} \X Files /\ Target(c) = <<c.new, Yaml(c.new)>>
        /\ x = <<x[1], x[2]>> /\ x[1] \in {c.name, c.new} /\ x[2] \in Files
    BY <1>2, RenamerUses DEF Renamed, Target
  <2>2. Good(x, NoFile)
    BY ContentFacts, OtherNames DEF Good
  <2>3. ASSUME x[1] = c.new, x[2] # Yaml(c.name), x[2] # Yaml(c.new), c.new # c.name
        PROVE  Good(x, book[c.name][x[2]])
    <3>1. <<c.name, x[2]>> \in Paths \ mixed
      BY <2>1, UsesArePaths
    <3>2. Good(<<c.name, x[2]>>, book[c.name][x[2]])
      BY <3>1 DEF BookInv, GoodInv, Cell
    <3> QED BY <2>3, <3>2 DEF Good, Home
  <2> QED BY <1>2, <2>1, <2>2, <2>3 DEF Turned, Renamed
<1>3. CASE ~Renamed(c)
  <2>1. Good(x, Cell(book, x))
    BY <1>1 DEF BookInv, GoodInv
  <2>2. x[2] = LogOf(c.id) => Good(x, Other("log"))
    BY FileFacts, OtherNames DEF Good
  <2> QED BY <1>3, <2>1, <2>2 DEF Turned
<1> QED BY <1>2, <1>3

\* The write of an operation that is alone: the file it opened is still empty.
LEMMA WriteAlone ==
  ASSUME IInv, BookInv, NEW p \in Processes, NEW c, c = call[p], Write(p), Uses(c) \cap mixed = {}
  PROVE  BookInv'
<1>1. /\ CallOK(c) /\ c \in Frames /\ c.at \in Stages(c.op) /\ c.at = "write" /\ Uses(c) \subseteq Paths
      /\ UNCHANGED <<sent, mixed>>
  BY Footprint DEF Write
<1>2. Alone(c, disk, book) /\ \A x \in Uses(c) : Good(x, Cell(book, x))
  BY <1>1 DEF BookInv, AloneInv, GoodInv
<1>3. c.to = Target(c) /\ c.to \in Uses(c) /\ c.to \in Paths /\ c.fd = c.to /\ Cell(disk, c.to) = Empty
  BY <1>1, <1>2, TargetIsUsed DEF Alone, Saving
<1>4. Good(c.to, c.data)
  BY <1>1, <1>2, PayloadIsGood DEF Saving
<1>5. \A x \in Paths : Cell(disk', x) = IF x = c.to THEN c.data ELSE Cell(disk, x)
  <2>1. \E t \in Written(Empty, c.data) : disk' = [disk EXCEPT ![c.to[1]][c.to[2]] = t]
    BY <1>3, NowhereAssumption DEF Write, Cell
  <2>2. disk' = [disk EXCEPT ![c.to[1]][c.to[2]] = c.data]
    BY <1>4, <2>1 DEF Written, Good
  <2>3. \A n \in Names, f \in Files : disk'[n][f] = IF n = c.to[1] /\ f = c.to[2] THEN c.data ELSE disk[n][f]
    BY <1>3, <2>2, PathParts DEF IInv, TypeInv, Stored
  <2> QED BY <1>3, <2>3, PathParts DEF Cell
<1>6. \A x \in Uses(c) : x # c.to => Cell(disk', x) = Turned(c, book, x)
  BY <1>1, <1>2, <1>5 DEF Alone
<1>7. \A x \in mixed : Cell(disk', x).name # NoName => Home(Cell(disk', x)) \in mixed
  BY <1>1, <1>3, <1>5 DEF BookInv, HomeInv, IInv, TypeInv
<1>8. PICK d : d = call'[p]
  OBVIOUS
<1>9. PICK F : F = Uses(c)
  OBVIOUS
<1>10. CASE c.op = "SaveLog" /\ c.data.kind = "log"
  <2> DEFINE e == [c EXCEPT !.at = "open", !.to = <<c.name, Detail(c.id)>>, !.data = Other("sent"), !.fd = Nowhere]
  <2>1. call' = [call EXCEPT ![p] = e] /\ book' = book
    BY <1>10 DEF Write
  <2>2. d = e /\ \A q \in Processes : q # p => Follows(call'[q], call[q], F)
    BY <1>8, <2>1 DEF IInv, TypeInv, Follows
  <2>3. /\ d.op = c.op /\ d.name = c.name /\ d.new = c.new /\ d.id = c.id /\ d.at = "open"
        /\ d.to = <<c.name, Detail(c.id)>> /\ d.data = Other("sent")
    BY <1>1, <2>2 DEF Frames
  <2>4. Uses(d) = Uses(c) /\ d.at \in Stages(d.op)
    BY <1>10, <2>3, SameUses DEF Stages
  <2>5. Payload(d, book) /\ d.to = Target(d)
    BY <1>10, <2>3, OtherNames DEF Payload, Target
  <2>6. Uses(c) = {<<c.name, LogOf(c.id)>>, <<c.name, Detail(c.id)>>} /\ c.to = <<c.name, LogOf(c.id)>>
    BY <1>3, <1>10 DEF Uses, Target
  <2>7. c.data = Other("log")
    BY <1>2, <1>1, <1>10, OtherNames DEF Alone, Payload, Saving
  <2>8. \A x \in Uses(d) : Cell(disk', x) = Turned(d, book, x)
    <3>1. Turned(d, book, c.to) = Other("log")
      BY <1>10, <2>3, <2>6, OtherNames DEF Turned, Renamed
    <3>2. ASSUME NEW x \in Uses(c), x # c.to PROVE Turned(d, book, x) = Turned(c, book, x)
      BY <1>10, <2>3, <2>6, <3>2, FileFacts DEF Turned, Renamed
    <3> QED BY <1>3, <1>5, <1>6, <2>4, <2>7, <3>1, <3>2
  <2>9. Alone(d, disk', book')
    BY <2>1, <2>3, <2>5, <2>8 DEF Alone
  <2>10. ASSUME Uses(d) \subseteq mixed PROVE FALSE
    BY <1>3, <2>4, <2>10
  <2>11. (Uses(d) \subseteq mixed => Met(d, mixed')) /\ mixed' = mixed /\ sent' = sent
    BY <1>1, <2>10
  <2>12. F \cap mixed = {} => \A x \in F : /\ Good(x, Cell(book', x))
                                           /\ Uses(d) = {} => Cell(disk', x) = Cell(book', x)
    BY <1>2, <1>9, <2>1, <2>4
  <2>13. (F = Uses(c) /\ F \cap mixed = {}) \/ (F = mixed /\ Uses(c) \subseteq mixed)
    BY <1>9
  <2>14. \A x \in Paths \ F : Cell(disk', x) = Cell(disk, x) /\ Cell(book', x) = Cell(book, x)
    BY <1>3, <1>5, <1>9, <2>1
  <2> QED BY ONLY IInv, BookInv, p \in Processes, c = call[p], <1>7, <1>8, <2>2, <2>4, <2>9, <2>11, <2>12, <2>13,
             <2>14, StepStays
<1>11. CASE ~(c.op = "SaveLog" /\ c.data.kind = "log")
  <2>1. call' = [call EXCEPT ![p] = Idle] /\ book' = Done(c)
    BY <1>11 DEF Write, Returns
  <2>2. d = Idle /\ \A q \in Processes : q # p => Follows(call'[q], call[q], F)
    BY <1>8, <2>1 DEF IInv, TypeInv, Follows
  <2>3. Uses(d) = {} /\ d.at \in Stages(d.op) /\ Met(d, mixed')
    BY <1>1, <2>2, IdleAlone
  <2>4. Alone(d, disk', book')
    BY <2>2, IdleAlone, IdleOK DEF Alone, Saving
  <2>5. c.data.kind # "log"
    <3>1. Payload(c, book) /\ c.op \notin {"none", "GetJob", "DeleteJob", "DeleteJobDetail"}
      BY <1>1, <1>2 DEF Alone, Saving, Stages
    <3>2. c.op \in {"SaveJobParams", "SaveJobUserId"} => c.data.kind = "yaml"
      <4>1. ASSUME c.op \in {"SaveJobParams", "SaveJobUserId"} PROVE c.to[2] \in Yamls /\ c.data # NoFile
        BY <1>1, <1>3, <4>1, FileFacts DEF Target, CallOK, Frames
      <4> QED BY <1>4, <4>1 DEF Good
    <3> QED BY <1>1, <1>11, <3>1, <3>2, OtherNames DEF Payload, CallOK, Frames
  <2>6. \A x \in Uses(c) : Cell(book', x) = IF x = c.to THEN c.data ELSE Turned(c, book, x)
    BY <1>1, <1>2, <2>1, <2>5, DoneWrites
  <2>7. ASSUME NEW x \in Uses(c) PROVE Good(x, Cell(book', x)) /\ Cell(disk', x) = Cell(book', x)
    <3>1. CASE x = c.to
      BY <1>3, <1>4, <1>5, <2>6, <3>1
    <3>2. CASE x # c.to
      BY <1>1, <1>3, <1>6, <2>6, <3>2, TurnedIsGood
    <3> QED BY <3>1, <3>2
  <2>8. \A x \in Paths \ F : Cell(disk', x) = Cell(disk, x) /\ Cell(book', x) = Cell(book, x)
    BY <1>1, <1>3, <1>5, <1>9, <2>1, DoneElsewhere
  <2>9. F \cap mixed = {} => \A x \in F : /\ Good(x, Cell(book', x))
                                          /\ Uses(d) = {} => Cell(disk', x) = Cell(book', x)
    BY <1>9, <2>7
  <2>10. (F = Uses(c) /\ F \cap mixed = {}) \/ (F = mixed /\ Uses(c) \subseteq mixed)
    BY <1>9
  <2>11. mixed' = mixed /\ sent' = sent
    BY <1>1
  <2> QED BY ONLY IInv, BookInv, p \in Processes, c = call[p], <1>7, <1>8, <2>2, <2>3, <2>4, <2>8, <2>9, <2>10,
             <2>11, StepStays
<1> QED BY <1>10, <1>11

\* The write of an operation that has met another stays among the mixed paths.
LEMMA WriteMet ==
  ASSUME IInv, BookInv, NEW p \in Processes, NEW c, c = call[p], Write(p), Uses(c) \subseteq mixed
  PROVE  BookInv'
<1>1. /\ CallOK(c) /\ c \in Frames /\ c.at \in Stages(c.op) /\ c.at = "write" /\ mixed \subseteq Paths
      /\ UNCHANGED <<sent, mixed>>
  BY Footprint DEF Write
<1>2. Met(c, mixed)
  BY DEF BookInv, MetInv
<1>3. c.fd \in mixed \union {Nowhere} /\ (c.data.name # NoName => Home(c.data) \in mixed)
  BY <1>1, <1>2 DEF Met, Saving
<1>4. /\ \A x \in Paths \ mixed : Cell(disk', x) = Cell(disk, x)
      /\ \A x \in mixed : Cell(disk', x).name # NoName => Home(Cell(disk', x)) \in mixed
  <2>1. CASE c.fd = Nowhere
    BY <2>1 DEF Write, BookInv, HomeInv
  <2>2. CASE c.fd # Nowhere
    <3>1. c.fd \in mixed /\ c.fd \in Paths
      BY <1>1, <1>3, <2>2
    <3>2. PICK t \in Written(Cell(disk, c.fd), c.data) : disk' = [disk EXCEPT ![c.fd[1]][c.fd[2]] = t]
      BY <2>2 DEF Write, Cell
    <3>3. t.name # NoName => Home(t) \in mixed
      BY <1>3, <3>1, <3>2, OtherNames DEF Written, BookInv, HomeInv
    <3>4. \A n \in Names, f \in Files : disk'[n][f] = IF n = c.fd[1] /\ f = c.fd[2] THEN t ELSE disk[n][f]
      BY <3>1, <3>2, PathParts DEF IInv, TypeInv, Stored
    <3>5. \A x \in Paths : Cell(disk', x) = IF x = c.fd THEN t ELSE Cell(disk, x)
      BY <3>1, <3>4, PathParts DEF Cell
    <3> QED BY <1>1, <3>1, <3>3, <3>5 DEF BookInv, HomeInv
  <2> QED BY <2>1, <2>2
<1>5. PICK d : d = call'[p]
  OBVIOUS
<1>6. PICK F : F = mixed
  OBVIOUS
<1>7. \A x \in Paths \ F : Cell(disk', x) = Cell(disk, x) /\ Cell(book', x) = Cell(book, x)
  <2>1. book' = book \/ book' = Done(c)
    BY DEF Write, Returns
  <2> QED BY <1>1, <1>4, <1>6, <2>1, DoneElsewhere
<1>8. /\ (F = Uses(c) /\ F \cap mixed = {}) \/ (F = mixed /\ Uses(c) \subseteq mixed)
      /\ F = mixed => \A x \in mixed : Cell(disk', x).name # NoName => Home(Cell(disk', x)) \in mixed
      /\ mixed' = mixed /\ sent' = sent
  BY <1>1, <1>4, <1>6
<1>9. Uses(c) # {}
  BY <1>1, TargetIsUsed DEF Saving
<1>10. F \cap mixed = {} => \A x \in F : /\ Good(x, Cell(book', x))
                                         /\ Uses(d) = {} => Cell(disk', x) = Cell(book', x)
  BY <1>6, <1>9
<1>11. CASE c.op = "SaveLog" /\ c.data.kind = "log"
  <2> DEFINE e == [c EXCEPT !.at = "open", !.to = <<c.name, Detail(c.id)>>, !.data = Other("sent"), !.fd = Nowhere]
  <2>1. call' = [call EXCEPT ![p] = e]
    BY <1>11 DEF Write
  <2>2. d = e /\ \A q \in Processes : q # p => Follows(call'[q], call[q], F)
    BY <1>5, <2>1 DEF IInv, TypeInv, Follows
  <2>3. /\ d.op = c.op /\ d.name = c.name /\ d.new = c.new /\ d.id = c.id /\ d.at = "open"
        /\ d.to = <<c.name, Detail(c.id)>> /\ d.data = Other("sent")
    BY <1>1, <2>2 DEF Frames
  <2>4. Uses(d) = Uses(c) /\ d.at \in Stages(d.op)
    BY <1>11, <2>3, SameUses DEF Stages
  <2>5. d.to \in mixed
    BY <1>11, <2>3 DEF Uses
  <2>6. Met(d, mixed')
    BY <1>1, <2>3, <2>5, OtherNames DEF Met
  <2>7. Uses(d) \cap mixed = {} => Alone(d, disk', book')
    BY <1>9, <2>4
  <2> QED BY ONLY IInv, BookInv, p \in Processes, c = call[p], <1>5, <1>7, <1>8, <1>10, <2>2, <2>4, <2>6, <2>7, StepStays
<1>12. CASE ~(c.op = "SaveLog" /\ c.data.kind = "log")
  <2>1. call' = [call EXCEPT ![p] = Idle]
    BY <1>12 DEF Write, Returns
  <2>2. d = Idle /\ \A q \in Processes : q # p => Follows(call'[q], call[q], F)
    BY <1>5, <2>1 DEF IInv, TypeInv, Follows
  <2>3. Uses(d) = {} /\ d.at \in Stages(d.op) /\ Met(d, mixed')
    BY <1>1, <2>2, IdleAlone
  <2>4. Alone(d, disk', book')
    BY <2>2, IdleAlone, IdleOK DEF Alone, Saving
  <2> QED BY ONLY IInv, BookInv, p \in Processes, c = call[p], <1>5, <1>7, <1>8, <1>10, <2>2, <2>3, <2>4, StepStays
<1> QED BY <1>11, <1>12

LEMMA WriteBook == ASSUME IInv, BookInv, NEW p \in Processes, Write(p) PROVE BookInv'
<1>1. PICK c : c = call[p]
  OBVIOUS
<1> QED BY <1>1, WriteAlone, WriteMet DEF BookInv, MixInv, Whole

-----------------------------------------------------------------------------
(* The operations remove and rename.                                       *)

\* Files that move within a footprint take the others' descriptors with them.
LEMMA ReboundFollows ==
  ASSUME IInv, NEW g \in [Descriptors -> Descriptors], NEW F \in SUBSET Paths,
         \A x \in F : g[x] \in F \union {Nowhere}, \A x \in Descriptors \ F : g[x] = x, NEW q \in Processes
  PROVE  Follows(Rebound(g)[q], call[q], F) /\ Rebound(g)[q] \in Frames
<1>1. PICK c : c = call[q]
  OBVIOUS
<1>2. c \in Frames /\ c.fd \in Descriptors
  BY <1>1 DEF IInv, TypeInv, Frames, Descriptors
<1>3. PICK d : d = [c EXCEPT !.fd = g[@]]
  OBVIOUS
<1>4. Rebound(g)[q] = d
  BY <1>1, <1>3 DEF Rebound
<1>5. /\ d.op = c.op /\ d.name = c.name /\ d.new = c.new /\ d.id = c.id
      /\ d.at = c.at /\ d.to = c.to /\ d.data = c.data /\ d.fd = g[c.fd]
  BY <1>2, <1>3 DEF Frames
<1>6. Follows(d, c, F)
  BY <1>2, <1>5 DEF Follows
<1>7. d \in Frames
  <2>1. g[c.fd] \in Paths \union {Nowhere}
    BY <1>2 DEF Descriptors
  <2> QED BY <1>2, <1>3, <2>1 DEF Frames
<1> QED BY <1>1, <1>4, <1>6, <1>7

LEMMA RemoveBook == ASSUME IInv, BookInv, NEW p \in Processes, Remove(p) PROVE BookInv'
<1>1. PICK c : c = call[p]
  OBVIOUS
<1>2. /\ CallOK(c) /\ c \in Frames /\ c.at \in Stages(c.op) /\ c.at = "remove" /\ Uses(c) \subseteq Paths
      /\ mixed \subseteq Paths /\ UNCHANGED <<sent, mixed>> /\ c.to \in Paths
  BY <1>1, Footprint DEF Remove, CallOK
<1>3. PICK F \in SUBSET Paths :
        \/ F = Uses(c) /\ F \cap mixed = {} /\ Alone(c, disk, book) /\ \A x \in F : Good(x, Cell(book, x))
        \/ F = mixed /\ Uses(c) \subseteq mixed /\ Met(c, mixed) /\ Uses(c) # {}
  BY <1>1, Footprint
<1>4. CASE disk[c.to[1]][c.to[2]] = NoFile
  BY <1>1, <1>2, <1>4, ReaderFails DEF Remove
<1>5. CASE disk[c.to[1]][c.to[2]] # NoFile
  <2> DEFINE g == [x \in Descriptors |-> IF x = c.to THEN Nowhere ELSE x]
  <2>1. /\ disk' = [disk EXCEPT ![c.to[1]][c.to[2]] = NoFile] /\ call' = [Rebound(g) EXCEPT ![p] = Idle]
        /\ book' = Done(c)
    BY <1>1, <1>5 DEF Remove, Returns, Descriptors
  <2>2. c.to \in F
    BY <1>2, <1>3, PathParts, NamesAssumption, TargetIsUsed DEF Alone, Met
  <2>3. /\ g \in [Descriptors -> Descriptors] /\ (\A x \in F : g[x] \in F \union {Nowhere})
        /\ \A x \in Descriptors \ F : g[x] = x
    BY <1>2, <2>2 DEF Descriptors
  <2> HIDE DEF g
  <2>4. PICK d : d = call'[p]
    OBVIOUS
  <2>5. d = Idle /\ \A q \in Processes : q # p => Follows(call'[q], call[q], F)
    <3>1. Rebound(g) \in [Processes -> Frames]
      BY <2>3, ReboundFacts
    <3>2. \A q \in Processes : Follows(Rebound(g)[q], call[q], F)
      BY <2>3, ReboundFollows
    <3> QED BY <2>1, <2>4, <3>1, <3>2
  <2>6. Uses(d) = {} /\ d.at \in Stages(d.op) /\ Met(d, mixed')
    BY <1>2, <2>5, IdleAlone
  <2>7. Alone(d, disk', book')
    BY <2>5, IdleAlone, IdleOK DEF Alone, Saving
  <2>8. \A x \in Paths : Cell(disk', x) = IF x = c.to THEN NoFile ELSE Cell(disk, x)
    <3>1. \A n \in Names, f \in Files : disk'[n][f] = IF n = c.to[1] /\ f = c.to[2] THEN NoFile ELSE disk[n][f]
      BY <1>2, <2>1, PathParts DEF IInv, TypeInv, Stored
    <3> QED BY <1>2, <3>1, PathParts DEF Cell
  <2>9. \A x \in mixed : Cell(disk', x).name # NoName => Home(Cell(disk', x)) \in mixed
    BY <1>2, <2>8, OtherNames DEF BookInv, HomeInv
  <2>10. \A x \in Paths \ F : Cell(disk', x) = Cell(disk, x) /\ Cell(book', x) = Cell(book, x)
    BY <1>2, <1>3, <2>1, <2>2, <2>8, DoneElsewhere
  <2>11. F \cap mixed = {} => \A x \in F : /\ Good(x, Cell(book', x))
                                           /\ Uses(d) = {} => Cell(disk', x) = Cell(book', x)
    <3> SUFFICES ASSUME F \cap mixed = {} PROVE \A x \in F : Good(x, Cell(book', x)) /\ Cell(disk', x) = Cell(book', x)
      OBVIOUS
    <3>1. F = Uses(c) /\ Alone(c, disk, book) /\ \A x \in F : Good(x, Cell(book, x))
      BY <1>3
    <3>2. \A x \in F : Cell(disk, x) = Cell(book, x)
      BY <1>2, <3>1, ReadsTheBook
    <3>3. c.op \in {"DeleteJob", "DeleteJobDetail"} /\ c.to = Target(c)
      BY <1>2, <3>1 DEF Stages, Alone
    <3>4. Done(c) = [book EXCEPT ![c.to[1]][c.to[2]] = NoFile]
      <4>1. CASE c.op = "DeleteJob"
        <5>1. c.to[1] = c.name /\ c.to[2] = Yaml(c.name)
          BY <3>3, <4>1 DEF Target
        <5>2. Done(c) = [book EXCEPT ![c.name][Yaml(c.name)] = NoFile]
          BY <4>1 DEF Done
        <5> QED BY <5>1, <5>2
      <4>2. CASE c.op = "DeleteJobDetail"
        <5>1. c.to[1] = c.name /\ c.to[2] = Detail(c.id)
          BY <3>3, <4>2 DEF Target
        <5>2. Done(c) = [book EXCEPT ![c.name][Detail(c.id)] = NoFile]
          BY <4>2 DEF Done
        <5> QED BY <5>1, <5>2
      <4> QED BY <3>3, <4>1, <4>2
    <3>5. \A n \in Names, f \in Files : Done(c)[n][f] = IF n = c.to[1] /\ f = c.to[2] THEN NoFile ELSE book[n][f]
      BY <1>2, <3>4, PathParts DEF IInv, TypeInv, Stored
    <3>6. \A x \in Paths : Cell(Done(c), x) = IF x = c.to THEN NoFile ELSE Cell(book, x)
      BY <1>2, <3>5, PathParts DEF Cell
    <3>7. Good(c.to, NoFile)
      BY ContentFacts, OtherNames DEF Good
    <3> QED BY <2>1, <2>8, <3>1, <3>2, <3>6, <3>7
  <2>12. /\ (F = Uses(c) /\ F \cap mixed = {}) \/ (F = mixed /\ Uses(c) \subseteq mixed)
         /\ mixed' = mixed /\ sent' = sent
    BY <1>2, <1>3
  <2> QED BY ONLY IInv, BookInv, p \in Processes, <1>1, <2>4, <2>5, <2>6, <2>7, <2>9, <2>10, <2>11, <2>12, StepStays
<1> QED BY <1>4, <1>5

LEMMA RenameDirBook == ASSUME IInv, BookInv, NEW p \in Processes, RenameDir(p) PROVE BookInv'
<1>1. PICK c : c = call[p]
  OBVIOUS
<1>2. /\ CallOK(c) /\ c \in Frames /\ c.at \in Stages(c.op) /\ c.at = "dir" /\ Uses(c) \subseteq Paths
      /\ mixed \subseteq Paths /\ UNCHANGED <<sent, mixed>>
  BY <1>1, Footprint DEF RenameDir
<1>3. c.op = "UpdateJob" /\ c.name # c.new
  BY <1>2 DEF Stages, CallOK
<1>4. Uses(c) = {c.name, c.new} \X Files /\ c.name \in Names /\ c.new \in Names
  BY <1>2, <1>3, RenamerUses
<1>5. PICK F \in SUBSET Paths :
        \/ F = Uses(c) /\ F \cap mixed = {} /\ Alone(c, disk, book) /\ \A x \in F : Good(x, Cell(book, x))
        \/ F = mixed /\ Uses(c) \subseteq mixed /\ Met(c, mixed) /\ Uses(c) # {}
  BY <1>1, Footprint
<1>6. CASE Fails(p) /\ UNCHANGED <<disk, dirs>>
  BY <1>1, <1>2, <1>6, ReaderFails
<1>7. CASE ~(Fails(p) /\ UNCHANGED <<disk, dirs>>)
  <2> DEFINE g == [x \in Descriptors |-> IF x \in {c.name} \X Files THEN <<c.new, x[2]>> ELSE x]
  <2>1. /\ disk' = [disk EXCEPT ![c.new] = disk[c.name], ![c.name] = NoFiles]
        /\ call' = [Rebound(g) EXCEPT ![p].at = "file"] /\ book' = book
    BY <1>1, <1>7 DEF RenameDir, Descriptors
  <2>2. Uses(c) \subseteq F
    BY <1>5
  <2>3. /\ g \in [Descriptors -> Descriptors] /\ (\A x \in F : g[x] \in F \union {Nowhere})
        /\ \A x \in Descriptors \ F : g[x] = x
    <3>1. \A x \in {c.name} \X Files : <<c.new, x[2]>> \in Uses(c) /\ x \in Uses(c)
      BY <1>4
    <3>2. \A x \in {c.name} \X Files : <<c.new, x[2]>> \in F /\ x \in F
      BY <2>2, <3>1
    <3>3. \A x \in Descriptors : g[x] = IF x \in {c.name} \X Files THEN <<c.new, x[2]>> ELSE x
      OBVIOUS
    <3>4. F \subseteq Descriptors
      BY DEF Descriptors
    <3>5. \A x \in Descriptors : (IF x \in {c.name} \X Files THEN <<c.new, x[2]>> ELSE x) \in Descriptors
      BY <3>2, <3>4
    <3>6. g \in [Descriptors -> Descriptors]
      BY <3>5
    <3> HIDE DEF g
    <3> QED BY <3>2, <3>3, <3>4, <3>6
  <2> HIDE DEF g
  <2>4. PICK e : e = Rebound(g)[p]
    OBVIOUS
  <2>5. Follows(e, c, F) /\ e \in Frames /\ Rebound(g) \in [Processes -> Frames]
    BY <1>1, <2>3, <2>4, ReboundFollows, ReboundFacts
  <2>6. PICK d : d = [e EXCEPT !.at = "file"]
    OBVIOUS
  <2>7. /\ d.op = c.op /\ d.name = c.name /\ d.new = c.new /\ d.id = c.id /\ d.at = "file"
        /\ d.to = c.to /\ d.data = c.data
    BY <2>5, <2>6 DEF Frames, Follows
  <2>8. d = call'[p] /\ \A q \in Processes : q # p => Follows(call'[q], call[q], F)
    <3>1. \A q \in Processes : Follows(Rebound(g)[q], call[q], F)
      BY <2>3, ReboundFollows
    <3>2. call' = [Rebound(g) EXCEPT ![p] = d]
      BY <2>1, <2>4, <2>6
    <3> QED BY <2>5, <3>1, <3>2
  <2>9. \A x \in Paths : Cell(disk', x) = IF x[1] = c.name THEN NoFile
                                          ELSE IF x[1] = c.new THEN Cell(disk, <<c.name, x[2]>>) ELSE Cell(disk, x)
    <3>1. \A n \in Names : disk'[n] = IF n = c.name THEN NoFiles ELSE IF n = c.new THEN disk[c.name] ELSE disk[n]
      BY <1>3, <1>4, <2>1 DEF IInv, TypeInv, Stored
    <3> QED BY <1>3, <3>1, PathParts DEF Cell, NoFiles
  <2>10. \A x \in Paths \ Uses(c) : x[1] # c.name /\ x[1] # c.new
    BY <1>4, PathParts
  <2>11. \A x \in mixed : Uses(c) \subseteq mixed \/ Uses(c) \cap mixed = {} =>
                            (Cell(disk', x).name # NoName => Home(Cell(disk', x)) \in mixed)
    <3> SUFFICES ASSUME NEW x \in mixed, Uses(c) \subseteq mixed \/ Uses(c) \cap mixed = {},
                        Cell(disk', x).name # NoName
                 PROVE  Home(Cell(disk', x)) \in mixed
      OBVIOUS
    <3>1. x[1] # c.name
      BY <1>2, <2>9, OtherNames
    <3>2. CASE x[1] = c.new
      <4>1. x \in Uses(c) /\ <<c.name, x[2]>> \in Uses(c)
        BY <1>2, <1>4, <3>2, PathParts
      <4>2. <<c.name, x[2]>> \in mixed
        BY <4>1
      <4> QED BY <1>2, <2>9, <3>1, <3>2, <4>2 DEF BookInv, HomeInv
    <3>3. CASE x[1] # c.new
      BY <1>2, <2>9, <3>1, <3>3 DEF BookInv, HomeInv
    <3> QED BY <3>2, <3>3
  <2>12. Uses(d) = Uses(c) /\ d.at \in Stages(d.op)
    BY <1>3, <2>7, SameUses DEF Stages
  <2>13. ASSUME Uses(d) \cap mixed = {} PROVE Alone(d, disk', book')
    <3>1. Alone(c, disk, book)
      BY <1>1, <2>12, <2>13 DEF BookInv, AloneInv
    <3>2. \A x \in Uses(c) : Cell(disk, x) = Cell(book, x)
      BY <1>2, <3>1, ReadsTheBook
    <3>3. Payload(d, book) /\ d.to = Target(d)
      BY <1>2, <1>3, <2>7, <3>1 DEF Alone, Saving, Payload, Target
    <3>4. book[d.name][Yaml(d.name)] # NoFile
      BY <1>2, <2>7, <3>1 DEF Alone
    <3>5. ASSUME NEW x \in Uses(d) PROVE Cell(disk', x) = Turned(d, book, x)
      <4>1. x \in Paths /\ x[2] \in Files /\ x[1] \in {c.name, c.new} /\ <<c.name, x[2]>> \in Uses(c)
        BY <1>2, <1>4, <2>12, <3>5
      <4>2. Cell(disk, <<c.name, x[2]>>) = book[c.name][x[2]]
        BY <3>2, <4>1 DEF Cell
      <4> QED BY <1>3, <2>7, <2>9, <4>1, <4>2 DEF Turned, Renamed
    <3> QED BY <2>1, <2>7, <3>3, <3>4, <3>5 DEF Alone
  <2>14. ASSUME Uses(d) \subseteq mixed PROVE Met(d, mixed')
    <3>1. Met(c, mixed)
      BY <1>1, <2>12, <2>14 DEF BookInv, MetInv
    <3> QED BY <1>2, <2>7, <3>1 DEF Met, Saving
  <2>15. \A x \in Paths \ F : Cell(disk', x) = Cell(disk, x) /\ Cell(book', x) = Cell(book, x)
    BY <2>1, <2>2, <2>9, <2>10
  <2>16. F \cap mixed = {} => \A x \in F : /\ Good(x, Cell(book', x))
                                           /\ Uses(d) = {} => Cell(disk', x) = Cell(book', x)
    BY <1>5, <2>1, <2>12
  <2>17. /\ (F = Uses(c) /\ F \cap mixed = {}) \/ (F = mixed /\ Uses(c) \subseteq mixed)
         /\ F = mixed => \A x \in mixed : Cell(disk', x).name # NoName => Home(Cell(disk', x)) \in mixed
         /\ mixed' = mixed /\ sent' = sent
    BY <1>2, <1>5, <2>11
  <2>18. /\ Uses(d) \cap mixed = {} => Alone(d, disk', book')
         /\ Uses(d) \subseteq mixed => Met(d, mixed')
    BY <2>13, <2>14
  <2> QED BY ONLY IInv, BookInv, p \in Processes, <1>1, <2>8, <2>12, <2>15, <2>16, <2>17, <2>18, StepStays
<1> QED BY <1>6, <1>7

LEMMA RenameFileBook == ASSUME IInv, BookInv, NEW p \in Processes, RenameFile(p) PROVE BookInv'
<1>1. PICK c : c = call[p]
  OBVIOUS
<1>2. /\ CallOK(c) /\ c \in Frames /\ c.at \in Stages(c.op) /\ c.at = "file" /\ Uses(c) \subseteq Paths
      /\ mixed \subseteq Paths /\ UNCHANGED <<sent, mixed>>
  BY <1>1, Footprint DEF RenameFile
<1>3. c.op = "UpdateJob" /\ c.name # c.new /\ c.to = <<c.new, Yaml(c.new)>> /\ Renamed(c)
  BY <1>2 DEF Stages, CallOK, Renamed
<1>4. Uses(c) = {c.name, c.new} \X Files /\ c.name \in Names /\ c.new \in Names
  BY <1>2, <1>3, RenamerUses
<1>5. PICK F \in SUBSET Paths :
        \/ F = Uses(c) /\ F \cap mixed = {} /\ Alone(c, disk, book) /\ \A x \in F : Good(x, Cell(book, x))
        \/ F = mixed /\ Uses(c) \subseteq mixed /\ Met(c, mixed) /\ Uses(c) # {}
  BY <1>1, Footprint
<1>6. PICK old : old = <<c.new, Yaml(c.name)>>
  OBVIOUS
<1>7. /\ old \in Uses(c) /\ c.to \in Uses(c) /\ old # c.to /\ old \in Paths /\ c.to \in Paths
      /\ Cell(disk, old) = disk[c.new][Yaml(c.name)]
  BY <1>2, <1>3, <1>4, <1>6, RenamerUses, FileFacts DEF Cell
<1>8. CASE Fails(p) /\ disk' = disk /\ disk[c.new][Yaml(c.name)] = NoFile
  <2>1. ASSUME Uses(c) \cap mixed = {} PROVE FALSE
    <3>1. Alone(c, disk, book)
      BY <1>1, <2>1 DEF BookInv, AloneInv
    <3>2. Cell(disk, old) = Turned(c, book, old) /\ book[c.name][Yaml(c.name)] # NoFile
      BY <1>2, <1>7, <3>1 DEF Alone
    <3> QED BY <1>2, <1>3, <1>6, <1>7, <1>8, <3>2 DEF Turned
  <2> QED BY <1>1, <1>2, <1>8, <2>1, BookFails
<1>9. CASE ~(Fails(p) /\ disk' = disk /\ disk[c.new][Yaml(c.name)] = NoFile)
  <2> DEFINE g == [x \in Descriptors |-> IF x = old THEN c.to ELSE IF x = c.to THEN Nowhere ELSE x]
  <2>1. /\ disk' = [disk EXCEPT ![c.new] = [@ EXCEPT ![Yaml(c.new)] = disk[c.new][Yaml(c.name)],
                                                     ![Yaml(c.name)] = NoFile]]
        /\ call' = [Rebound(g) EXCEPT ![p].at = "open"] /\ book' = book
    BY <1>1, <1>6, <1>9 DEF RenameFile, Descriptors
  <2>2. old \in F /\ c.to \in F
    BY <1>5, <1>7
  <2>3. /\ g \in [Descriptors -> Descriptors] /\ (\A x \in F : g[x] \in F \union {Nowhere})
        /\ \A x \in Descriptors \ F : g[x] = x
    BY <1>7, <2>2 DEF Descriptors
  <2> HIDE DEF g
  <2>4. PICK e : e = Rebound(g)[p]
    OBVIOUS
  <2>5. Follows(e, c, F) /\ e \in Frames /\ Rebound(g) \in [Processes -> Frames]
    BY <1>1, <2>3, <2>4, ReboundFollows, ReboundFacts
  <2>6. PICK d : d = [e EXCEPT !.at = "open"]
    OBVIOUS
  <2>7. /\ d.op = c.op /\ d.name = c.name /\ d.new = c.new /\ d.id = c.id /\ d.at = "open"
        /\ d.to = c.to /\ d.data = c.data
    BY <2>5, <2>6 DEF Frames, Follows
  <2>8. d = call'[p] /\ \A q \in Processes : q # p => Follows(call'[q], call[q], F)
    <3>1. \A q \in Processes : Follows(Rebound(g)[q], call[q], F)
      BY <2>3, ReboundFollows
    <3>2. call' = [Rebound(g) EXCEPT ![p] = d]
      BY <2>1, <2>4, <2>6
    <3> QED BY <2>5, <3>1, <3>2
  <2>9. \A x \in Paths : Cell(disk', x) = IF x = old THEN NoFile
                                          ELSE IF x = c.to THEN Cell(disk, old) ELSE Cell(disk, x)
    <3> DEFINE r == [disk[c.new] EXCEPT ![Yaml(c.new)] = disk[c.new][Yaml(c.name)], ![Yaml(c.name)] = NoFile]
    <3>1. disk[c.new] \in [Files -> Contents] /\ Yaml(c.name) # Yaml(c.new)
      BY <1>3, <1>4, FileFacts DEF IInv, TypeInv, Stored
    <3>2. \A f \in Files : r[f] = IF f = Yaml(c.name) THEN NoFile
                                  ELSE IF f = Yaml(c.new) THEN disk[c.new][Yaml(c.name)] ELSE disk[c.new][f]
      BY <3>1
    <3>3. disk' = [disk EXCEPT ![c.new] = r]
      BY <2>1
    <3> HIDE DEF r
    <3>4. \A n \in Names : disk'[n] = IF n = c.new THEN r ELSE disk[n]
      BY <1>4, <3>3 DEF IInv, TypeInv, Stored
    <3>5. \A n \in Names, f \in Files :
            disk'[n][f] = IF n = c.new /\ f = Yaml(c.name) THEN NoFile
                          ELSE IF n = c.new /\ f = Yaml(c.new) THEN disk[c.new][Yaml(c.name)] ELSE disk[n][f]
      BY <3>2, <3>4
    <3>6. \A x \in Paths : /\ x = old <=> x[1] = c.new /\ x[2] = Yaml(c.name)
                           /\ x = c.to <=> x[1] = c.new /\ x[2] = Yaml(c.new)
      BY <1>3, <1>6, PathParts
    <3> QED BY <1>7, <3>5, <3>6, PathParts DEF Cell
  <2>10. \A x \in mixed : Uses(c) \subseteq mixed \/ Uses(c) \cap mixed = {} =>
                            (Cell(disk', x).name # NoName => Home(Cell(disk', x)) \in mixed)
    <3> SUFFICES ASSUME NEW x \in mixed, Uses(c) \subseteq mixed \/ Uses(c) \cap mixed = {},
                        Cell(disk', x).name # NoName
                 PROVE  Home(Cell(disk', x)) \in mixed
      OBVIOUS
    <3>1. x # old
      BY <1>2, <2>9, OtherNames
    <3>2. CASE x = c.to
      <4>1. old \in mixed
        BY <1>7, <3>2
      <4> QED BY <1>2, <2>9, <3>1, <3>2, <4>1 DEF BookInv, HomeInv
    <3>3. CASE x # c.to
      BY <1>2, <2>9, <3>1, <3>3 DEF BookInv, HomeInv
    <3> QED BY <3>2, <3>3
  <2>11. Uses(d) = Uses(c) /\ d.at \in Stages(d.op) /\ Renamed(d)
    BY <1>3, <2>7, SameUses DEF Stages, Renamed
  <2>12. ASSUME Uses(d) \cap mixed = {} PROVE Alone(d, disk', book')
    <3>1. Alone(c, disk, book)
      BY <1>1, <2>11, <2>12 DEF BookInv, AloneInv
    <3>2. \A x \in Uses(c) : Cell(disk, x) = Turned(c, book, x)
      BY <1>2, <3>1 DEF Alone
    <3>3. Payload(d, book) /\ d.to = Target(d)
      BY <1>2, <1>3, <2>7, <3>1 DEF Alone, Saving, Payload, Target
    <3>4. ASSUME NEW x \in Uses(d) PROVE Cell(disk', x) = Turned(d, book, x)
      <4>1. x \in Paths /\ x[1] \in {c.name, c.new} /\ x \in Uses(c)
        BY <1>2, <1>4, <2>11, <3>4
      <4>2. x = old <=> x[1] = c.new /\ x[2] = Yaml(c.name)
        BY <1>6, <4>1, PathParts
      <4>3. x = c.to <=> x[1] = c.new /\ x[2] = Yaml(c.new)
        BY <1>3, <4>1, PathParts
      <4>4. Cell(disk, old) = book[c.name][Yaml(c.name)]
        BY <1>2, <1>3, <1>6, <1>7, <3>2 DEF Turned
      <4>5. Cell(disk, x) = IF x[1] = c.name THEN NoFile ELSE book[c.name][x[2]]
        BY <1>2, <1>3, <3>2, <4>1 DEF Turned
      <4>6. Turned(d, book, x) = IF x[1] = c.name THEN NoFile ELSE IF x[2] = Yaml(c.name) THEN NoFile
                                 ELSE book[c.name][IF x[2] = Yaml(c.new) THEN Yaml(c.name) ELSE x[2]]
        BY <2>7, <2>11 DEF Turned
      <4> QED BY <1>3, <1>7, <2>9, <4>1, <4>2, <4>3, <4>4, <4>5, <4>6
    <3> QED BY <2>1, <2>7, <3>3, <3>4 DEF Alone
  <2>13. ASSUME Uses(d) \subseteq mixed PROVE Met(d, mixed')
    <3>1. Met(c, mixed)
      BY <1>1, <2>11, <2>13 DEF BookInv, MetInv
    <3> QED BY <1>2, <2>7, <3>1 DEF Met, Saving
  <2>14. \A x \in Paths \ F : Cell(disk', x) = Cell(disk, x) /\ Cell(book', x) = Cell(book, x)
    BY <2>1, <2>2, <2>9
  <2>15. F \cap mixed = {} => \A x \in F : /\ Good(x, Cell(book', x))
                                           /\ Uses(d) = {} => Cell(disk', x) = Cell(book', x)
    BY <1>5, <2>1, <2>11
  <2>16. /\ (F = Uses(c) /\ F \cap mixed = {}) \/ (F = mixed /\ Uses(c) \subseteq mixed)
         /\ F = mixed => \A x \in mixed : Cell(disk', x).name # NoName => Home(Cell(disk', x)) \in mixed
         /\ mixed' = mixed /\ sent' = sent
    BY <1>2, <1>5, <2>10
  <2>17. /\ Uses(d) \cap mixed = {} => Alone(d, disk', book')
         /\ Uses(d) \subseteq mixed => Met(d, mixed')
    BY <2>12, <2>13
  <2> QED BY ONLY IInv, BookInv, p \in Processes, <1>1, <2>8, <2>11, <2>14, <2>15, <2>16, <2>17, StepStays
<1> QED BY <1>8, <1>9

-----------------------------------------------------------------------------
(* Operations begin, texts are dispatched, and the process ends: the files  *)
(* stay, and more of them get mixed.                                        *)

\* What the operations use that use one of some paths: all or nothing of every
\* other operation's files.
LEMMA MixingIsWhole ==
  ASSUME IInv, BookInv, NEW P \in SUBSET Paths, NEW M, M = mixed \union UsedWith(P) \/ M = mixed \union (P \union UsedWith(P)) 
  PROVE  /\ M \subseteq Paths /\ mixed \subseteq M
         /\ \A q \in Processes : Uses(call[q]) \subseteq M \/ Uses(call[q]) \cap M = {}
<1>1. mixed \subseteq Paths /\ \A q \in Processes : Uses(call[q]) \subseteq Paths
  BY UsesArePaths DEF IInv, TypeInv
<1>2. \A x : x \in UsedWith(P) <=> \E q \in Processes : x \in Uses(call[q]) /\ Uses(call[q]) \cap P # {}
  BY DEF UsedWith
<1>3. M \subseteq Paths /\ mixed \subseteq M
  BY <1>1, <1>2
<1>4. ASSUME NEW q \in Processes PROVE Uses(call[q]) \subseteq M \/ Uses(call[q]) \cap M = {}
  <2>1. CASE Uses(call[q]) \cap mixed # {}
    BY <1>3, <2>1 DEF BookInv, MixInv, Whole
  <2>2. CASE Uses(call[q]) \cap P # {}
    BY <1>2, <2>2
  <2>3. CASE Uses(call[q]) \cap mixed = {} /\ Uses(call[q]) \cap P = {}
    <3>1. \A r \in Processes : Uses(call[r]) \cap P # {} => Uses(call[q]) \cap Uses(call[r]) = {}
      BY <2>3 DEF BookInv, MixInv
    <3>2. Uses(call[q]) \cap UsedWith(P) = {}
      BY <1>2, <3>1
    <3> QED BY <2>3, <3>2
  <2> QED BY <2>1, <2>2, <2>3
<1> QED BY <1>3, <1>4

\* p goes from an operation that used nothing to d.
LEMMA BookGrows ==
  ASSUME IInv, BookInv, NEW p \in Processes, Uses(call[p]) = {}, NEW d, call' = [call EXCEPT ![p] = d],
         disk' = disk, book' = book, mixed \subseteq mixed', mixed' \subseteq Paths,
         \A q \in Processes : Uses(call[q]) \subseteq mixed' \/ Uses(call[q]) \cap mixed' = {},
         d.at \in Stages(d.op), Uses(d) \subseteq mixed' \/ Uses(d) \cap mixed' = {},
         \A q \in Processes : Uses(d) \cap Uses(call[q]) \subseteq mixed',
         Uses(d) \cap mixed' = {} => Alone(d, disk, book), Uses(d) \subseteq mixed' => Met(d, mixed'),
         PostInv'
  PROVE  BookInv'
<1>1. \A q \in Processes : call'[q] = IF q = p THEN d ELSE call[q]
  BY DEF IInv, TypeInv
<1>2. \A q \in Processes : Uses(call[q])' = Uses(call'[q])
  BY DEF Uses
<1>3. \A q \in Processes : q # p => Uses(call'[q]) = Uses(call[q])
  BY <1>1
<1>4. Uses(call'[p]) = Uses(d)
  BY <1>1
<1>5. Whole(mixed)'
  BY <1>2, <1>3, <1>4 DEF Whole
<1>6. (\A q, r \in Processes : q # r => Uses(call[q]) \cap Uses(call[r]) \subseteq mixed)'
  <2> SUFFICES ASSUME NEW q \in Processes, NEW r \in Processes, q # r
               PROVE  Uses(call'[q]) \cap Uses(call'[r]) \subseteq mixed'
    BY <1>2
  <2>1. CASE q = p
    BY <1>3, <1>4, <2>1
  <2>2. CASE r = p
    BY <1>3, <1>4, <2>2
  <2>3. CASE q # p /\ r # p
    BY <1>3, <2>3 DEF BookInv, MixInv
  <2> QED BY <2>1, <2>2, <2>3
<1>7. StageInv'
  BY <1>1 DEF BookInv, StageInv
<1>8. GoodInv'
  BY DEF BookInv, GoodInv, Cell, Good
<1>9. HomeInv'
  BY HomeGrows
<1>10. ASSUME NEW q \in Processes
       PROVE  /\ Uses(call'[q]) \cap mixed' = {} => Alone(call'[q], disk, book)
              /\ Uses(call'[q]) \subseteq mixed' => Met(call'[q], mixed')
  <2>1. CASE q = p
    <3>1. PICK e : e = call'[q]
      OBVIOUS
    <3>2. e = d
      BY <1>1, <2>1, <3>1
    <3> QED BY <3>1, <3>2
  <2>2. CASE q # p
    <3>1. PICK c : c = call[q]
      OBVIOUS
    <3>2. c = call'[q] /\ CallOK(c) /\ c.at \in Stages(c.op)
      BY <1>1, <2>2, <3>1 DEF IInv, TypeInv, BookInv, StageInv
    <3>3. ASSUME Uses(c) \cap mixed' = {} PROVE Alone(c, disk, book)
      <4>1. Uses(c) \cap mixed = {}
        BY <3>3
      <4> QED BY <3>1, <4>1 DEF BookInv, AloneInv
    <3>4. ASSUME Uses(c) \subseteq mixed' PROVE Met(c, mixed')
      <4>1. CASE Uses(c) \cap mixed = {}
        <5>1. Alone(c, disk, book)
          BY <3>1, <4>1 DEF BookInv, AloneInv
        <5> QED BY <3>2, <3>4, <4>1, <5>1, AloneIsMet
      <4>2. CASE Uses(c) \cap mixed # {}
        <5>1. Met(c, mixed)
          BY <3>1, <4>2 DEF BookInv, MixInv, Whole, MetInv
        <5> QED BY <5>1 DEF Met
      <4> QED BY <4>1, <4>2
    <3> QED BY <3>2, <3>3, <3>4
  <2> QED BY <2>1, <2>2
<1>11. AloneInv'
  <2> SUFFICES ASSUME NEW q \in Processes, (Uses(call[q]) \cap mixed = {})' PROVE Alone(call'[q], disk', book')
    BY DEF AloneInv
  <2>1. Uses(call'[q]) \cap mixed' = {}
    BY <1>2
  <2>2. PICK e : e = call'[q]
    OBVIOUS
  <2>3. Alone(e, disk, book)
    BY <1>10, <2>1, <2>2
  <2>4. Alone(e, disk', book')
    BY <2>3
  <2> QED BY <2>2, <2>4
<1>12. MetInv'
  <2> SUFFICES ASSUME NEW q \in Processes, (Uses(call[q]) \subseteq mixed)' PROVE Met(call'[q], mixed')
    BY DEF MetInv
  <2>1. Uses(call'[q]) \subseteq mixed'
    BY <1>2
  <2> QED BY <1>10, <2>1
<1>13. DiskIsBook'
  <2> SUFFICES ASSUME NEW x \in Paths \ mixed', ~InUse(x)' PROVE Cell(disk', x) = Cell(book', x)
    BY DEF DiskIsBook, Cell
  <2>1. \A q \in Processes : x \notin Uses(call[q])
    BY <1>2, <1>3 DEF InUse
  <2> QED BY <2>1 DEF BookInv, DiskIsBook, InUse, Cell
<1> QED BY <1>5, <1>6, <1>7, <1>8, <1>9, <1>11, <1>12, <1>13 DEF BookInv, MixInv

\* A yaml that an operation alone has turned is still a yaml, if it is there.
LEMMA TurnedIsYaml ==
  ASSUME IInv, BookInv, NEW c, CallOK(c), c.at \in Stages(c.op), Uses(c) \cap mixed = {}, NEW x \in Uses(c), x[2] \in Yamls
  PROVE  Turned(c, book, x) = NoFile \/ Turned(c, book, x).kind = "yaml"
<1>1. \A y \in Uses(c) : y[2] \in Yamls => Cell(book, y) = NoFile \/ Cell(book, y).kind = "yaml"
  BY UsesArePaths DEF BookInv, GoodInv, Good
<1>2. CASE Renamed(c)
  <2>1. Uses(c) = {c.name, c.new} \X Files /\ Yaml(c.name) \in Files /\ Yaml(c.name) \in Yamls /\ x[2] \in Files
    BY <1>2, RenamerUses, FileFacts DEF Renamed
  <2>2. \A f \in Files : f \in Yamls => book[c.name][f] = NoFile \/ book[c.name][f].kind = "yaml"
    <3> SUFFICES ASSUME NEW f \in Files, f \in Yamls PROVE book[c.name][f] = NoFile \/ book[c.name][f].kind = "yaml"
      OBVIOUS
    <3>1. <<c.name, f>> \in Uses(c)
      BY <2>1
    <3> QED BY <1>1, <3>1 DEF Cell
  <2> QED BY <1>2, <2>1, <2>2 DEF Turned
<1>3. CASE ~Renamed(c)
  BY <1>1, <1>3, FileFacts DEF Turned
<1> QED BY <1>2, <1>3

LEMMA ReadForDispatchBook == ASSUME IInv, BookInv, NEW p \in Processes, ReadForDispatch(p) PROVE BookInv'
<1>1. PICK c : c = call[p]
  OBVIOUS
<1>2. PICK y : y = <<c.name, Yaml(c.name)>>
  OBVIOUS
<1>3. PICK t : t = Read(p)
  OBVIOUS
<1>4. c.op = "GetJob" /\ CallOK(c) /\ c.name \in Names /\ Uses(c) = {}
  BY <1>1 DEF ReadForDispatch, IInv, TypeInv, CallOK, Uses
<1>5. y \in Paths /\ y[2] \in Yamls /\ t = Cell(disk, y)
  BY <1>1, <1>2, <1>3, <1>4, PathFacts, FileFacts DEF Read, Cell
<1>6. /\ mixed' = IF HalfDone(c.name, t) THEN mixed \union UsedWith({y}) ELSE mixed
      /\ call' = [call EXCEPT ![p] = Idle] /\ disk' = disk /\ book' = book
      /\ sent' = sent \/ (t # NoFile /\ sent' = sent \union {<<c.name, t>>})
  BY <1>1, <1>2, <1>3 DEF ReadForDispatch
<1>7. /\ mixed \subseteq mixed' /\ mixed' \subseteq Paths
      /\ \A q \in Processes : Uses(call[q]) \subseteq mixed' \/ Uses(call[q]) \cap mixed' = {}
  <2>1. CASE HalfDone(c.name, t)
    <3>1. {y} \in SUBSET Paths
      BY <1>5
    <3>2. PICK M : M = mixed \union UsedWith({y})
      OBVIOUS
    <3>3. M = mixed'
      BY <1>6, <2>1, <3>2
    <3>4. /\ M \subseteq Paths /\ mixed \subseteq M
          /\ \A q \in Processes : Uses(call[q]) \subseteq M \/ Uses(call[q]) \cap M = {}
      BY ONLY IInv, BookInv, <3>1, <3>2, MixingIsWhole
    <3> QED BY <3>3, <3>4
  <2>2. CASE ~HalfDone(c.name, t)
    BY <1>6, <2>2, UsesArePaths DEF BookInv, MixInv, Whole, IInv, TypeInv
  <2> QED BY <2>1, <2>2
<1>8. HomeInv'
  BY <1>6, <1>7, HomeGrows
<1>9. PICK d : d = Idle
  OBVIOUS
<1>10. /\ call' = [call EXCEPT ![p] = d] /\ d.at \in Stages(d.op) /\ Uses(d) = {}
       /\ Alone(d, disk, book) /\ Met(d, mixed') /\ Uses(call[p]) = {}
  <2>1. Met(d, mixed')
    BY <1>9, IdleOK DEF Met, Saving
  <2> QED BY <1>1, <1>4, <1>6, <1>9, <2>1, IdleAlone
<1>11. ASSUME \A m \in sent' \ sent :
                LET x == <<m[1], Yaml(m[1])>> IN
                  \/ m[2].kind = "yaml" /\ Home(m[2]) = x
                  \/ x \in mixed' /\ (m[2].name # NoName => Home(m[2]) \in mixed')
       PROVE  BookInv'
  <2>1. \A m \in sent' :
          LET x == <<m[1], Yaml(m[1])>> IN
            \/ m[2].kind = "yaml" /\ Home(m[2]) = x
            \/ x \in mixed' /\ (m[2].name # NoName => Home(m[2]) \in mixed')
    BY <1>7, <1>11 DEF BookInv, PostInv
  <2>2. PostInv'
    BY <2>1 DEF PostInv
  <2>3. disk' = disk /\ book' = book
    BY <1>6
  <2>4. \A q \in Processes : Uses(d) \cap Uses(call[q]) \subseteq mixed'
    BY <1>10
  <2>5. Uses(d) \subseteq mixed' \/ Uses(d) \cap mixed' = {}
    BY <1>10
  <2> QED BY ONLY IInv, BookInv, p \in Processes, <1>7, <1>10, <2>2, <2>3, <2>4, <2>5, BookGrows
<1>12. \A m \in sent' \ sent : m = <<c.name, t>> /\ t # NoFile
  BY <1>6
<1>13. CASE y \in mixed'
  <2>1. t.name # NoName => Home(t) \in mixed'
    <3>1. \A x \in mixed' : Cell(disk', x).name # NoName => Home(Cell(disk', x)) \in mixed'
      BY <1>8 DEF HomeInv, Cell
    <3> QED BY <1>5, <1>6, <1>13, <3>1
  <2> QED BY <1>2, <1>11, <1>12, <1>13, <2>1
<1>14. CASE y \notin mixed'
  <2>1. y \in Paths \ mixed
    BY <1>5, <1>7, <1>14
  <2>2. t = NoFile \/ (t.kind = "yaml" /\ Home(t) = y)
    <3>1. CASE ~InUse(y)
      BY <1>5, <2>1, <3>1 DEF BookInv, DiskIsBook, GoodInv, Good, Cell
    <3>2. CASE InUse(y)
      <4>1. PICK q \in Processes : y \in Uses(call[q])
        BY <3>2 DEF InUse
      <4>2. PICK e : e = call[q]
        OBVIOUS
      <4>3. CallOK(e) /\ e.at \in Stages(e.op) /\ y \in Uses(e) /\ Uses(e) \cap mixed = {} /\ Alone(e, disk, book)
        BY <2>1, <4>1, <4>2 DEF BookInv, MixInv, Whole, AloneInv, StageInv, IInv, TypeInv
      <4>4. ~HalfDone(c.name, t)
        BY <1>6, <1>14, <4>1 DEF UsedWith
      <4>5. t = Turned(e, book, y)
        BY <1>5, <4>3, <4>4 DEF Alone, HalfDone
      <4>6. t = NoFile \/ t.kind = "yaml"
        BY <1>5, <4>3, <4>5, TurnedIsYaml
      <4> QED BY <1>2, <4>4, <4>6 DEF HalfDone, Home
    <3> QED BY <3>1, <3>2
  <2> QED BY <1>2, <1>11, <1>12, <2>2
<1> QED BY <1>13, <1>14

LEMMA ProcessEndsBook == ASSUME IInv, BookInv, ProcessEnds PROVE BookInv'
<1>1. disk' = disk /\ book' = book /\ sent' = {} /\ mixed' = mixed \union UNION {Uses(call[p]) : p \in Processes}
  BY DEF ProcessEnds
<1>2. \A q \in Processes : call'[q] = Idle
  BY DEF ProcessEnds
<1>3. \A q \in Processes : Uses(call'[q]) = {}
  BY <1>2, IdleAlone
<1>4. \A q \in Processes : Uses(call[q])' = Uses(call'[q])
  BY DEF Uses
<1>5. \A q \in Processes : Uses(call[q]) \subseteq mixed'
  BY <1>1
<1>6. mixed' \subseteq Paths /\ mixed \subseteq mixed'
  BY <1>1, UsesArePaths DEF IInv, TypeInv
<1>7. MixInv' /\ StageInv' /\ PostInv'
  BY <1>1, <1>2, <1>3, <1>4, IdleAlone DEF MixInv, Whole, StageInv, PostInv
<1>8. HomeInv'
  BY <1>1, <1>5, <1>6, HomeGrows
<1>9. GoodInv'
  BY <1>1, <1>6 DEF BookInv, GoodInv, Cell, Good
<1>10. AloneInv'
  <2> SUFFICES ASSUME NEW q \in Processes PROVE Alone(call'[q], disk', book')
    BY DEF AloneInv
  <2> QED BY <1>1, <1>2, IdleAlone
<1>11. MetInv'
  <2> SUFFICES ASSUME NEW q \in Processes PROVE Met(call'[q], mixed')
    BY DEF MetInv
  <2>1. Met(Idle, mixed')
    BY IdleOK DEF Met, Saving
  <2> QED BY <1>2, <2>1
<1>12. DiskIsBook'
  <2> SUFFICES ASSUME NEW x \in Paths \ mixed' PROVE Cell(disk', x) = Cell(book', x)
    BY DEF DiskIsBook, Cell
  <2>1. ~InUse(x)
    BY <1>5 DEF InUse
  <2> QED BY <1>1, <1>6, <2>1 DEF BookInv, DiskIsBook, Cell
<1> QED BY <1>7, <1>8, <1>9, <1>10, <1>11, <1>12 DEF BookInv

\* An operation as it begins.
Fresh(c) ==
  /\ c.at \in Stages(c.op) /\ c.at \in {"read", "open", "check", "remove"}
  /\ c.at # "read" => c.to = Target(c)
  /\ c.op \in {"SaveJobParams", "SaveJobUserId", "CreateJobDetail", "MakeJobStop"} => c.at = "read"
  /\ c.op = "UpdateJob" /\ c.at = "open" => c.name = c.new
  /\ c.op = "SaveLog" => c.data = Other("log")
  /\ \/ c.op \in {"CreateJob", "WorkerSaves", "UpdateJob"} => c.data.kind = "yaml" /\ Home(c.data) = c.to
     \/ c.op = "WorkerSaves" /\ c.to \in mixed /\ (c.data.name # NoName => Home(c.data) \in mixed)

LEMMA FreshIsAlone ==
  ASSUME IInv, BookInv, NEW c, CallOK(c), Fresh(c), Uses(c) \cap mixed = {}, UsedWith(Uses(c)) = {}
  PROVE  Alone(c, disk, book)
<1>1. \A x \in Uses(c) : Cell(disk, x) = Cell(book, x)
  <2> SUFFICES ASSUME NEW x \in Uses(c) PROVE Cell(disk, x) = Cell(book, x)
    OBVIOUS
  <2>1. x \in Paths \ mixed
    BY UsesArePaths
  <2>2. ~InUse(x)
    BY DEF InUse, UsedWith
  <2> QED BY <2>1, <2>2 DEF BookInv, DiskIsBook, Cell
<1>2. c.at \in Stages(c.op) /\ c.at \in {"read", "open", "check", "remove"} /\ ~Renamed(c)
  BY DEF Fresh, Renamed
<1>3. c.op = "SaveLog" => c.data = Other("log")
  BY DEF Fresh
<1>4. \A x : Turned(c, book, x) = Cell(book, x)
  BY <1>2, <1>3, OtherNames DEF Turned
<1>5. c.at \in Saving \union {"remove"} => c.to = Target(c)
  BY DEF Fresh, Saving
<1>6. c.at \in Saving => Payload(c, book)
  <2> SUFFICES ASSUME c.at \in Saving PROVE Payload(c, book)
    OBVIOUS
  <2>1. c.at \in {"open", "check"}
    BY <1>2 DEF Saving
  <2>2. c.to \in Uses(c)
    BY <1>2, <1>5, TargetIsUsed
  <2>3. c.op \in {"CreateJob", "WorkerSaves", "UpdateJob"} => c.data.kind = "yaml" /\ Home(c.data) = c.to
    BY <2>2 DEF Fresh
  <2>4. CASE c.op \in {"CreateJob", "WorkerSaves", "UpdateJob"}
    BY <2>3, <2>4 DEF Payload
  <2>5. CASE c.op = "SaveLog"
    BY <1>3, <2>5 DEF Payload
  <2>6. c.op \notin {"SaveJobParams", "SaveJobUserId", "CreateJobDetail", "MakeJobStop"}
    BY <2>1 DEF Fresh
  <2> QED BY <1>2, <2>1, <2>4, <2>5, <2>6 DEF Stages, CallOK, Frames
<1> QED BY <1>1, <1>2, <1>4, <1>5, <1>6 DEF Alone


LEMMA FreshIsMet ==
  ASSUME IInv, NEW c, CallOK(c), Fresh(c), NEW M, Uses(c) \subseteq M, mixed \subseteq M
  PROVE  Met(c, M)
<1>1. c.at \in Stages(c.op) /\ c.at # "write"
  BY DEF Fresh
<1>2. c.at \in Saving \union {"remove"} => c.to = Target(c)
  BY DEF Fresh, Saving
<1>3. c.at \in Saving \union {"remove"} => c.to \in M
  BY <1>1, <1>2, TargetIsUsed
<1>4. ASSUME c.at \in Saving, c.data.name # NoName PROVE Home(c.data) \in M
  <2>1. c.op \in {"CreateJob", "WorkerSaves", "UpdateJob"}
    BY <1>1, <1>4, OtherNames DEF Fresh, Saving, Stages, CallOK, Frames
  <2> QED BY <1>3, <1>4, <2>1 DEF Fresh
<1> QED BY <1>1, <1>3, <1>4 DEF Met

LEMMA BeginBook ==
  ASSUME IInv, BookInv, NEW p \in Processes, NEW c, CallOK(c), Fresh(c), Begin(p, c), sent' \subseteq sent
  PROVE  BookInv'
<1>1. /\ call' = [call EXCEPT ![p] = c] /\ disk' = disk /\ book' = book
      /\ mixed' = mixed \union Mixes(c) /\ Uses(call[p]) = {}
  BY DEF Begin, Busy, Uses
<1>2. Uses(c) \in SUBSET Paths
  BY UsesArePaths
<1>3. /\ mixed \subseteq mixed' /\ mixed' \subseteq Paths
      /\ \A q \in Processes : Uses(call[q]) \subseteq mixed' \/ Uses(call[q]) \cap mixed' = {}
  <2>1. PICK M : M = mixed \union (Uses(c) \union UsedWith(Uses(c)))
    OBVIOUS
  <2>2. /\ M \subseteq Paths /\ mixed \subseteq M
        /\ \A q \in Processes : Uses(call[q]) \subseteq M \/ Uses(call[q]) \cap M = {}
    BY ONLY IInv, BookInv, <1>2, <2>1, MixingIsWhole
  <2>3. CASE mixed' = mixed
    BY <2>2, <2>3 DEF BookInv, MixInv, Whole
  <2> QED BY <1>1, <2>1, <2>2, <2>3 DEF Mixes
<1>4. \/ Uses(c) \subseteq mixed'
      \/ mixed' = mixed /\ Uses(c) \cap mixed = {} /\ UsedWith(Uses(c)) = {}
  BY <1>1 DEF Mixes
<1>5. Uses(c) \subseteq mixed' \/ Uses(c) \cap mixed' = {}
  BY <1>4
<1>6. \A q \in Processes : Uses(c) \cap Uses(call[q]) \subseteq mixed'
  BY <1>4 DEF UsedWith
<1>7. Uses(c) \cap mixed' = {} => Alone(c, disk, book)
  <2>1. ASSUME Uses(c) = {} PROVE Uses(c) \cap mixed = {} /\ UsedWith(Uses(c)) = {}
    BY <2>1 DEF UsedWith
  <2> QED BY <1>4, <2>1, FreshIsAlone
<1>8. Uses(c) \subseteq mixed' => Met(c, mixed')
  BY <1>3, FreshIsMet
<1>9. c.at \in Stages(c.op)
  BY DEF Fresh
<1>10. PostInv'
  BY <1>3 DEF BookInv, PostInv
<1> QED BY ONLY IInv, BookInv, p \in Processes, <1>1, <1>3, <1>5, <1>6, <1>7, <1>8, <1>9, <1>10, BookGrows

LEMMA GivenIsHome ==
  ASSUME Matching, NEW n \in Names, NEW t \in Given(n)
  PROVE  t.kind = "yaml" /\ Home(t) = <<n, Yaml(n)>>
<1>1. t = Text(n, FALSE, FALSE)
  BY DEF Given
<1> QED BY <1>1 DEF Text, Home

LEMMA CreateJobBook ==
  ASSUME Matching, IInv, BookInv, NEW p \in Processes, NEW n \in Names, CreateJob(p, n) PROVE BookInv'
<1>1. PICK t \in Given(n) :
        Begin(p, [Call("CreateJob", n, 0) EXCEPT !.at = "open", !.data = t]) /\ UNCHANGED sent
  BY DEF CreateJob
<1>2. PICK c : c = [Call("CreateJob", n, 0) EXCEPT !.at = "open", !.data = t]
  OBVIOUS
<1>3. t \in Contents \ {NoFile, Empty} /\ ~Nameless(t)
  BY GivenFacts
<1>4. c \in Begun /\ c.op = "CreateJob" /\ c.name = n /\ c.at = "open" /\ c.data = t /\ c.to = <<n, Yaml(n)>>
  BY <1>2, <1>3, PathFacts DEF Call, Begun, Operations, Detailed
<1>5. CallOK(c)
  BY <1>3, <1>4, BegunIsOK DEF Detailed
<1>6. Fresh(c)
  BY <1>4, GivenIsHome DEF Fresh, Stages, Target
<1> QED BY <1>1, <1>2, <1>5, <1>6, BeginBook

LEMMA UpdateJobBook ==
  ASSUME Matching, IInv, BookInv, NEW p \in Processes, NEW n \in Names, NEW m \in Names, UpdateJob(p, n, m)
  PROVE  BookInv'
<1>1. PICK t \in Given(m) :
        /\ Begin(p, [Call("UpdateJob", n, 0) EXCEPT !.new = m, !.at = IF n = m THEN "open" ELSE "check",
                                                    !.to = <<m, Yaml(m)>>, !.data = t])
        /\ UNCHANGED sent
  BY DEF UpdateJob
<1>2. PICK at : at = IF n = m THEN "open" ELSE "check"
  OBVIOUS
<1>3. PICK c : c = [Call("UpdateJob", n, 0) EXCEPT !.new = m, !.at = at, !.to = <<m, Yaml(m)>>, !.data = t]
  OBVIOUS
<1>4. t \in Contents \ {NoFile, Empty} /\ ~Nameless(t) /\ at \in {"open", "check"} /\ (at = "check" <=> n # m)
  BY <1>2, GivenFacts
<1>5. c \in Begun /\ c.op = "UpdateJob" /\ c.name = n /\ c.new = m /\ c.at = at /\ c.data = t /\ c.to = <<m, Yaml(m)>>
  BY <1>3, <1>4, PathFacts DEF Call, Begun, Operations, Detailed
<1>6. CallOK(c)
  BY <1>4, <1>5, BegunIsOK DEF Detailed
<1>7. Fresh(c)
  BY <1>4, <1>5, GivenIsHome DEF Fresh, Stages, Target
<1> QED BY <1>1, <1>2, <1>3, <1>6, <1>7, BeginBook

LEMMA DeleteJobBook ==
  ASSUME IInv, BookInv, NEW p \in Processes, NEW n \in Names, DeleteJob(p, n) PROVE BookInv'
<1>1. PICK c : c = [Call("DeleteJob", n, 0) EXCEPT !.at = "remove"]
  OBVIOUS
<1>2. c \in Begun /\ c.op = "DeleteJob" /\ c.name = n /\ c.at = "remove" /\ c.to = <<n, Yaml(n)>>
  BY <1>1, ContentFacts, PathFacts DEF Call, Begun, Operations, Detailed
<1>3. CallOK(c)
  BY <1>2, BegunIsOK DEF Detailed
<1>4. Fresh(c)
  BY <1>2 DEF Fresh, Stages, Target
<1> QED BY <1>1, <1>3, <1>4, BeginBook DEF DeleteJob

LEMMA DeleteJobDetailBook ==
  ASSUME IInv, BookInv, NEW p \in Processes, NEW n \in Names, NEW i \in Ids, DeleteJobDetail(p, n, i) PROVE BookInv'
<1>1. PICK c : c = [Call("DeleteJobDetail", n, i) EXCEPT !.at = "remove", !.to = <<n, Detail(i)>>]
  OBVIOUS
<1>2. /\ c \in Begun /\ c.op = "DeleteJobDetail" /\ c.name = n /\ c.id = i /\ c.at = "remove"
      /\ c.to = <<n, Detail(i)>>
  BY <1>1, ContentFacts, PathFacts DEF Call, Begun, Operations, Detailed
<1>3. CallOK(c)
  BY <1>2, BegunIsOK
<1>4. Fresh(c)
  BY <1>2 DEF Fresh, Stages, Target
<1> QED BY <1>1, <1>3, <1>4, BeginBook DEF DeleteJobDetail

LEMMA SaveLogBook == ASSUME IInv, BookInv, NEW n \in Names, NEW i \in Ids, SaveLog(n, i) PROVE BookInv'
<1>1. PICK c : c = [Call("SaveLog", n, i) EXCEPT !.at = "open", !.to = <<n, LogOf(i)>>, !.data = Other("log")]
  OBVIOUS
<1>2. /\ c \in Begun /\ c.op = "SaveLog" /\ c.name = n /\ c.id = i /\ c.at = "open"
      /\ c.to = <<n, LogOf(i)>> /\ c.data = Other("log")
  BY <1>1, ContentFacts, PathFacts DEF Call, Begun, Operations, Detailed
<1>3. CallOK(c)
  BY <1>2, ContentFacts, BegunIsOK
<1>4. Fresh(c)
  BY <1>2, OtherNames DEF Fresh, Stages, Target
<1>5. "loop" \in Processes
  BY DEF Processes
<1> QED BY <1>1, <1>3, <1>4, <1>5, BeginBook DEF SaveLog

LEMMA WorkerSavesBook == ASSUME IInv, BookInv, WorkerSaves PROVE BookInv'
<1>1. PICK m \in sent : /\ Begin("worker", [Call("WorkerSaves", m[1], 0) EXCEPT !.at = "open", !.data = m[2]])
                        /\ sent' = sent \ {m}
  BY DEF WorkerSaves
<1>2. PICK c : c = [Call("WorkerSaves", m[1], 0) EXCEPT !.at = "open", !.data = m[2]]
  OBVIOUS
<1>3. m[1] \in Names /\ m[2] \in Contents \ {NoFile} /\ ~Nameless(m[2]) /\ (m[2] = Empty => emptySent)
  BY DEF IInv, TypeInv, SentInv
<1>4. /\ c \in Begun /\ c.op = "WorkerSaves" /\ c.name = m[1] /\ c.at = "open" /\ c.data = m[2]
      /\ c.to = <<m[1], Yaml(m[1])>>
  BY <1>2, <1>3, PathFacts DEF Call, Begun, Operations, Detailed
<1>5. CallOK(c)
  BY <1>3, <1>4, BegunIsOK DEF Detailed
<1>6. \/ m[2].kind = "yaml" /\ Home(m[2]) = <<m[1], Yaml(m[1])>>
      \/ <<m[1], Yaml(m[1])>> \in mixed /\ (m[2].name # NoName => Home(m[2]) \in mixed)
  BY DEF BookInv, PostInv
<1>7. Fresh(c)
  BY <1>4, <1>6 DEF Fresh, Stages, Target
<1>8. "worker" \in Processes /\ sent' \subseteq sent
  BY <1>1 DEF Processes
<1> QED BY <1>1, <1>2, <1>5, <1>7, <1>8, BeginBook

\* The operations that begin with a read.
LEMMA ReadersBook ==
  ASSUME IInv, BookInv, NEW p \in Processes, NEW n \in Names, NEW i \in Ids \union {0},
         NEW op \in {"SaveJobParams", "SaveJobUserId", "GetJob", "CreateJobDetail", "MakeJobStop"},
         op \in Detailed => i \in Ids, Begin(p, Call(op, n, i)), UNCHANGED sent
  PROVE  BookInv'
<1>1. PICK c : c = Call(op, n, i)
  OBVIOUS
<1>2. c \in Begun /\ c.op = op /\ c.id = i /\ c.at = "read"
  BY <1>1, ContentFacts, PathFacts DEF Call, Begun, Operations, Detailed
<1>3. CallOK(c)
  BY <1>2, BegunIsOK
<1>4. Fresh(c)
  BY <1>2 DEF Fresh, Stages
<1> QED BY <1>1, <1>3, <1>4, BeginBook

LEMMA BeginsBook ==
  ASSUME Matching, IInv, BookInv, NEW p \in Callers, NEW n \in Names, Begins(p, n) PROVE BookInv'
<1>1. p \in Processes
  BY DEF Processes
<1>2. ASSUME SaveJobParams(p, n) \/ SaveJobUserId(p, n) \/ GetJob(p, n) PROVE BookInv'
  BY <1>1, <1>2, ReadersBook DEF SaveJobParams, SaveJobUserId, GetJob, Detailed
<1>3. ASSUME NEW i \in Ids, CreateJobDetail(p, n, i) \/ MakeJobStop(p, n, i) PROVE BookInv'
  BY <1>1, <1>3, ReadersBook DEF CreateJobDetail, MakeJobStop, Detailed
<1> QED BY <1>1, <1>2, <1>3, CreateJobBook, DeleteJobBook, UpdateJobBook, DeleteJobDetailBook DEF Begins

-----------------------------------------------------------------------------
(* The theorem.                                                            *)

LEMMA StepBook == ASSUME IInv, BookInv, NEW p \in Processes, Step(p) PROVE BookInv'
<1>1. CASE Reads(p)
  <2>1. CASE UserIdPanics(p)
    BY <2>1, ProcessEndsBook DEF UserIdPanics
  <2> QED BY <1>1, <2>1, ReadForParamsBook, ReadForUserIdBook, ReadForDetailBook, ReadForStopBook,
             ReadForDispatchBook DEF Reads
<1>2. CASE OpenFails(p) \/ Open(p) \/ Write(p)
  BY <1>2, OpenFailsBook, OpenBook, WriteBook
<1>3. CASE Remove(p) \/ RenameCheck(p) \/ RenameDir(p) \/ RenameFile(p)
  BY <1>3, RemoveBook, RenameCheckBook, RenameDirBook, RenameFileBook
<1> QED BY <1>1, <1>2, <1>3 DEF Step

LEMMA InitBook == Init => BookInv
<1> SUFFICES ASSUME Init PROVE BookInv
  OBVIOUS
<1>1. /\ mixed = {} /\ sent = {} /\ book = disk /\ (\A q \in Processes : call[q] = Idle)
      /\ \A x \in Paths : Cell(disk, x) = NoFile
  BY PathParts DEF Init, Cell, NoFiles
<1>2. \A q \in Processes : Uses(call[q]) = {}
  BY <1>1, IdleAlone
<1>3. MixInv /\ StageInv /\ HomeInv /\ PostInv /\ MetInv /\ AloneInv
  BY <1>1, <1>2, IdleAlone DEF MixInv, Whole, StageInv, HomeInv, PostInv, MetInv, AloneInv
<1>4. GoodInv
  BY <1>1, ContentFacts, OtherNames DEF GoodInv, Good
<1>5. DiskIsBook
  BY <1>1 DEF DiskIsBook
<1> QED BY <1>3, <1>4, <1>5 DEF BookInv

LEMMA NextBook == ASSUME Matching, IInv, BookInv, [Next]_vars PROVE BookInv'
<1>1. CASE \E p \in Callers, n \in Names : Begins(p, n)
  BY <1>1, BeginsBook
<1>2. CASE \E n \in Names, i \in Ids : SaveLog(n, i)
  BY <1>2, SaveLogBook
<1>3. CASE WorkerSaves
  BY <1>3, WorkerSavesBook
<1>4. CASE Crash
  BY <1>4, ProcessEndsBook DEF Crash
<1>5. CASE \E p \in Processes : Step(p)
  BY <1>5, StepBook
<1>6. CASE UNCHANGED vars
  <2>1. UNCHANGED <<disk, call, sent, book, mixed>>
    BY <1>6 DEF vars
  <2>2. MixInv' /\ StageInv' /\ GoodInv' /\ HomeInv' /\ PostInv'
    BY <2>1 DEF BookInv, MixInv, Whole, Uses, StageInv, GoodInv, Good, Cell, HomeInv, PostInv
  <2>3. AloneInv' /\ MetInv' /\ DiskIsBook'
    BY <2>1 DEF BookInv, AloneInv, MetInv, DiskIsBook, InUse, Uses
  <2> QED BY <2>2, <2>3 DEF BookInv
<1> QED BY <1>1, <1>2, <1>3, <1>4, <1>5, <1>6 DEF Next

\* When every yaml is given under the name it has inside, an operation on the
\* jobs directory that has returned has done what it is for and one that has
\* failed has done nothing: a file no two operations have met at, and that was
\* not left half done by the end of the process, is what the finished
\* operations, each done at once, make it.
THEOREM DiskFollowsBook == ASSUME Matching PROVE Spec => []DiskIsBook
<1>1. Init => IInv /\ BookInv
  BY InitIsOK, InitBook
<1>2. IInv /\ BookInv /\ [Next]_vars => (IInv /\ BookInv)'
  BY NextKeeps, NextBook
<1>3. IInv /\ BookInv => DiskIsBook
  BY DEF BookInv
<1> QED BY <1>1, <1>2, <1>3, PTL DEF Spec

=============================================================================
