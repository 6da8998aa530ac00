------------------------------ MODULE JobStore ------------------------------
(***************************************************************************)
(* The files of the master's jobs directory (job/job.go, job/util.go) and  *)
(* who writes them: the callers of the engine's API (engine.go), the       *)
(* message loop with the logs and details the workers send                 *)
(* (engine_master.go), and the executor of the worker inside the master,   *)
(* which shares the directory and saves the text it was sent               *)
(* (executor/client.go).  Nothing is locked: an operation is a sequence of *)
(* system calls, and the process may end between any two of them.          *)
(*                                                                         *)
(* A job has a folder of its name.  In it are the job's yaml, in a file of *)
(* the same name, and per execution a detail and a log.                    *)
(***************************************************************************)
EXTENDS Naturals

CONSTANTS
  Names,      \* names of jobs
  Ids,        \* executions; 0 is none of them, but an id the code may come to
  Callers,    \* goroutines of the embedding program
  Matching,   \* TRUE if every yaml is given under the name it has inside
  MaxOps,     \* bound: operations
  MaxCrashes, \* bound: ends of the process from outside
  NoName, Nowhere

ASSUME IdsAssumption == Ids \subseteq Nat \ {0}
ASSUME NamesAssumption == NoName \notin Names /\ Callers \cap {"loop", "worker"} = {}
ASSUME BoundsAssumption == MaxOps \in Nat /\ MaxCrashes \in Nat /\ Matching \in BOOLEAN

\* What is in a file: a job's yaml, with the name inside it and whether
\* SaveJobParams and SaveJobUserId have set what they set; a detail as
\* CreateJobDetail makes it, of a job's yaml or of an empty one ("hollow"), as
\* a worker sent it, or marked by MakeJobStop; a log.
Text(n, params, user) == [kind |-> "yaml", name |-> n, params |-> params, user |-> user]
Other(kind) == [kind |-> kind, name |-> NoName, params |-> FALSE, user |-> FALSE]
NoFile == Other("none")
Empty == Other("empty")
Garbled == Other("garbled")
Contents ==
  [kind : {"yaml", "notrun", "hollow", "sent", "stop", "log", "none", "empty", "garbled"},
   name : Names \union {NoName}, params : BOOLEAN, user : BOOLEAN]

Yaml(n) == <<"yaml", n>>
Detail(i) == <<"detail", i>>
LogOf(i) == <<"log", i>>
Files == {Yaml(n) : n \in Names} \union {Detail(i) : i \in Ids \union {0}} \union {LogOf(i) : i \in Ids}
Paths == Names \X Files
NoFiles == [f \in Files |-> NoFile]

ASSUME NowhereAssumption == Nowhere \notin Paths

Processes == Callers \union {"loop", "worker"}

VARIABLES
  disk,     \* disk[n][f]: the file f of the folder of n
  dirs,     \* per name: no folder, a folder without subfolders, or with some
  call,     \* per process, the operation under way
  sent,     \* EXECUTEs on their way to the worker inside the master
  ops,      \* operations so far
  crashes,  \* ends of the process so far
  book,     \* history: the files as if each operation were one step
  mixed,    \* history: paths two operations used at once, or one that was cut
  emptySent \* history: an EXECUTE was sent with the text of an empty file

vars == <<disk, dirs, call, sent, ops, crashes, book, mixed, emptySent>>

\* `to` is where the next save goes and `data` what it writes; `fd` is the
\* path of the file that is open for it.
Call(op, n, i) == [op |-> op, name |-> n, new |-> n, id |-> i, at |-> "read",
                   to |-> <<n, Yaml(n)>>, data |-> Empty, fd |-> Nowhere]
Idle == Call("none", NoName, 0)
Busy(p) == call[p].op # "none"

Init ==
  /\ disk = [n \in Names |-> NoFiles] /\ dirs = [n \in Names |-> "none"]
  /\ call = [p \in Processes |-> Idle] /\ sent = {}
  /\ ops = 0 /\ crashes = 0
  /\ book = disk /\ mixed = {} /\ emptySent = FALSE

-----------------------------------------------------------------------------
(* The operations, each up to its first system call.                       *)

\* The paths an operation reads in order to write, or writes.
Uses(c) ==
  CASE c.op \in {"none", "GetJob"} -> {}
    [] c.op = "UpdateJob" -> {c.name, c.new} \X Files
    [] c.op = "CreateJobDetail" -> {c.name} \X {Yaml(c.name), Detail(c.id)}
    [] c.op = "DeleteJobDetail" -> {<<c.name, Detail(c.id)>>}
    [] c.op = "MakeJobStop" -> {c.name} \X {Detail(c.id), Detail(0)}
    [] c.op = "SaveLog" -> {c.name} \X {LogOf(c.id), Detail(c.id)}
    [] OTHER -> {<<c.name, Yaml(c.name)>>}

\* What the operations under way use that use one of these paths.
UsedWith(paths) == UNION {Uses(call[q]) : q \in {q \in Processes : Uses(call[q]) \cap paths # {}}}

\* The paths that get mixed when c begins.
Mixes(c) ==
  IF UsedWith(Uses(c)) # {} \/ Uses(c) \cap mixed # {} THEN Uses(c) \union UsedWith(Uses(c)) ELSE {}

Begin(p, c) ==
  /\ ~Busy(p) /\ ops < MaxOps
  /\ call' = [call EXCEPT ![p] = c]
  /\ ops' = ops + 1
  /\ mixed' = mixed \union Mixes(c)
  /\ UNCHANGED <<disk, dirs, crashes, book, emptySent>>

Given(n) == {Text(m, FALSE, FALSE) : m \in IF Matching THEN {n} ELSE Names}

CreateJob(p, n) ==
  \E t \in Given(n) : Begin(p, [Call("CreateJob", n, 0) EXCEPT !.at = "open", !.data = t]) /\ UNCHANGED sent

SaveJobParams(p, n) == Begin(p, Call("SaveJobParams", n, 0)) /\ UNCHANGED sent
SaveJobUserId(p, n) == Begin(p, Call("SaveJobUserId", n, 0)) /\ UNCHANGED sent

\* A job that keeps its name is just saved, whether it is there or not.
UpdateJob(p, n, m) ==
  \E t \in Given(m) :
    /\ Begin(p, [Call("UpdateJob", n, 0) EXCEPT !.new = m, !.at = IF n = m THEN "open" ELSE "check",
                                                !.to = <<m, Yaml(m)>>, !.data = t])
    /\ UNCHANGED sent

DeleteJob(p, n) == Begin(p, [Call("DeleteJob", n, 0) EXCEPT !.at = "remove"]) /\ UNCHANGED sent
DeleteJobDetail(p, n, i) ==
  /\ Begin(p, [Call("DeleteJobDetail", n, i) EXCEPT !.at = "remove", !.to = <<n, Detail(i)>>])
  /\ UNCHANGED sent

CreateJobDetail(p, n, i) == Begin(p, Call("CreateJobDetail", n, i)) /\ UNCHANGED sent
MakeJobStop(p, n, i) == Begin(p, Call("MakeJobStop", n, i)) /\ UNCHANGED sent

\* dispatchJob reads the text it sends.
GetJob(p, n) == Begin(p, Call("GetJob", n, 0)) /\ UNCHANGED sent

\* A LOG of a worker outside the master.
SaveLog(n, i) ==
  /\ Begin("loop", [Call("SaveLog", n, i) EXCEPT !.at = "open", !.to = <<n, LogOf(i)>>, !.data = Other("log")])
  /\ UNCHANGED sent

\* An EXECUTE has reached the worker inside it.
WorkerSaves ==
  \E m \in sent :
    /\ Begin("worker", [Call("WorkerSaves", m[1], 0) EXCEPT !.at = "open", !.data = m[2]])
    /\ sent' = sent \ {m}

-----------------------------------------------------------------------------
(* The end of an operation.                                                *)

\* What an operation is for, done at once.
Done(c) ==
  LET y == Yaml(c.name) d == Detail(c.id) IN
    CASE c.op \in {"CreateJob", "WorkerSaves"} -> [book EXCEPT ![c.name][y] = c.data]
      [] c.op = "SaveJobParams" /\ book[c.name][y].kind = "yaml" -> [book EXCEPT ![c.name][y].params = TRUE]
      [] c.op = "SaveJobUserId" /\ book[c.name][y].kind = "yaml" -> [book EXCEPT ![c.name][y].user = TRUE]
      [] c.op = "UpdateJob" ->
           [book EXCEPT ![c.name] = NoFiles,
                        ![c.new] = [book[c.name] EXCEPT ![y] = NoFile, ![Yaml(c.new)] = c.data]]
      [] c.op = "DeleteJob" -> [book EXCEPT ![c.name][y] = NoFile]
      [] c.op = "DeleteJobDetail" -> [book EXCEPT ![c.name][d] = NoFile]
      [] c.op = "CreateJobDetail" -> [book EXCEPT ![c.name][d] = Other("notrun")]
      [] c.op = "MakeJobStop" -> [book EXCEPT ![c.name][d] = Other("stop")]
      [] c.op = "SaveLog" -> [book EXCEPT ![c.name][d] = Other("sent"), ![c.name][LogOf(c.id)] = Other("log")]
      [] OTHER -> book

Returns(p, calls) == call' = [calls EXCEPT ![p] = Idle] /\ book' = Done(call[p])
Fails(p) == call' = [call EXCEPT ![p] = Idle] /\ book' = book

\* All goroutines are gone, and what they had begun stays as it is.
ProcessEnds ==
  /\ call' = [p \in Processes |-> Idle] /\ sent' = {}
  /\ crashes' = crashes + 1
  /\ mixed' = mixed \union UNION {Uses(call[p]) : p \in Processes}
  /\ UNCHANGED <<disk, dirs, ops, book, emptySent>>

Crash == crashes < MaxCrashes /\ ProcessEnds

-----------------------------------------------------------------------------
(* Reading.                                                                *)

Read(p) == disk[call[p].name][Yaml(call[p].name)]
\* An empty file is the yaml of a job without a name, and no error.
Parsed(t) == IF t = Empty THEN Text(NoName, FALSE, FALSE) ELSE t
Unreadable == {NoFile, Garbled}

\* Fault: the job is saved under the name it was asked for by.
SavedUnderAsked(p, t) == <<call[p].name, Yaml(call[p].name)>>

\* The job is saved under the name it has inside.
SavedUnder(p, t) == <<t.name, Yaml(t.name)>>

ReadForParams(p) ==
  /\ call[p].op = "SaveJobParams" /\ call[p].at = "read"
  /\ IF Read(p) \in Unreadable
       THEN Fails(p)
       ELSE LET t == Parsed(Read(p)) IN
              /\ call' = [call EXCEPT ![p] = [@ EXCEPT !.at = "open", !.to = SavedUnder(p, t),
                                                       !.data = [t EXCEPT !.params = TRUE]]]
              /\ book' = book
  /\ UNCHANGED <<disk, dirs, sent, ops, crashes, mixed, emptySent>>

ReadForUserId(p) ==
  /\ call[p].op = "SaveJobUserId" /\ call[p].at = "read"
  /\ Read(p) \notin Unreadable
  /\ LET t == Parsed(Read(p)) IN
       call' = [call EXCEPT ![p] = [@ EXCEPT !.at = "open", !.to = SavedUnder(p, t),
                                             !.data = [t EXCEPT !.user = TRUE]]]
  /\ UNCHANGED <<disk, dirs, sent, ops, crashes, book, mixed, emptySent>>

\* The job is used before the error is looked at: a nil pointer.
UserIdPanics(p) ==
  /\ call[p].op = "SaveJobUserId" /\ call[p].at = "read" /\ Read(p) \in Unreadable
  /\ ProcessEnds

\* The folder for details is made before StageSort, which may refuse the job.
ReadForDetail(p) ==
  /\ call[p].op = "CreateJobDetail" /\ call[p].at = "read"
  /\ IF Read(p) \in Unreadable
       THEN Fails(p) /\ UNCHANGED dirs
       ELSE /\ dirs' = [dirs EXCEPT ![call[p].name] = "full"]
            /\ \/ Fails(p)
               \/ /\ call' = [call EXCEPT ![p] = [@ EXCEPT !.at = "open", !.to = <<call[p].name, Detail(call[p].id)>>,
                                       !.data = Other(IF Read(p) = Empty THEN "hollow" ELSE "notrun")]]
                  /\ book' = book
  /\ UNCHANGED <<disk, sent, ops, crashes, mixed, emptySent>>

\* The id it saves under is the one in the detail: 0 in that of an empty file.
ReadForStop(p) ==
  LET c == call[p] d == disk[c.name][Detail(c.id)] IN
    /\ c.op = "MakeJobStop" /\ c.at = "read"
    /\ IF d \in Unreadable
         THEN Fails(p)
         ELSE /\ call' = [call EXCEPT ![p] = [@ EXCEPT !.at = "open", !.data = Other("stop"),
                                     !.to = <<c.name, Detail(IF d = Empty THEN 0 ELSE c.id)>>]]
              /\ book' = book
    /\ UNCHANGED <<disk, dirs, sent, ops, crashes, mixed, emptySent>>

\* A text in the middle of another operation: emptied, or of a file that has
\* been renamed and still has the old name in it.
HalfDone(n, t) == t = Empty \/ (t.kind = "yaml" /\ t.name # n)

\* The text is sent as it is found; with one that is half done, the dispatch
\* is an operation that met the others at this file.
ReadForDispatch(p) ==
  LET n == call[p].name IN
    /\ call[p].op = "GetJob" /\ call[p].at = "read"
    /\ IF Read(p) = NoFile
         THEN UNCHANGED <<sent, emptySent>>
         ELSE sent' = sent \union {<<n, Read(p)>>} /\ emptySent' = (emptySent \/ Read(p) = Empty)
    /\ call' = [call EXCEPT ![p] = Idle]
    /\ mixed' = IF HalfDone(n, Read(p)) THEN mixed \union UsedWith({<<n, Yaml(n)>>}) ELSE mixed
    /\ UNCHANGED <<disk, dirs, ops, crashes, book>>

-----------------------------------------------------------------------------
(* Saving: saveStringToFile makes the folder, os.WriteFile opens the file, *)
(* which empties it, and writes.                                           *)

\* A job without a name would be saved in the place of the jobs directory.
OpenFails(p) ==
  /\ call[p].at = "open" /\ call[p].to[1] = NoName
  /\ Fails(p)
  /\ UNCHANGED <<disk, dirs, sent, ops, crashes, mixed, emptySent>>

Open(p) ==
  LET c == call[p] n == c.to[1] IN
    /\ c.at = "open" /\ n # NoName
    /\ dirs' = [dirs EXCEPT ![n] = IF c.to[2] # Yaml(n) THEN "full" ELSE IF @ = "none" THEN "dir" ELSE @]
    /\ disk' = [disk EXCEPT ![n][c.to[2]] = Empty]
    /\ call' = [call EXCEPT ![p] = [@ EXCEPT !.at = "write", !.fd = c.to]]
    /\ UNCHANGED <<sent, ops, crashes, book, mixed, emptySent>>

\* Fault: a write that fails is not noticed.
WrittenOrNot(old, data) == {old, data}

\* What is written on top of what another has written since may leave some of
\* it behind.  To write nothing leaves the file as it is.
Written(old, data) ==
  IF data = Empty THEN {old} ELSE IF old \in {Empty, data} THEN {data} ELSE {data, Garbled}

\* The detail of a LOG is saved after its log.
Write(p) ==
  LET c == call[p] IN
    /\ c.at = "write"
    /\ IF c.fd = Nowhere
         THEN disk' = disk
         ELSE \E x \in Written(disk[c.fd[1]][c.fd[2]], c.data) : disk' = [disk EXCEPT ![c.fd[1]][c.fd[2]] = x]
    /\ IF c.op = "SaveLog" /\ c.data.kind = "log"
         THEN /\ call' = [call EXCEPT ![p] = [@ EXCEPT !.at = "open", !.to = <<c.name, Detail(c.id)>>,
                                                       !.data = Other("sent"), !.fd = Nowhere]]
              /\ book' = book
         ELSE Returns(p, call)
    /\ UNCHANGED <<dirs, sent, ops, crashes, mixed, emptySent>>

-----------------------------------------------------------------------------
(* Renaming and removing.  A file that is open stays open wherever it goes. *)

Rebound(fds) == [q \in Processes |-> [call[q] EXCEPT !.fd = fds[@]]]

Remove(p) ==
  LET c == call[p] IN
    /\ c.at = "remove"
    /\ IF disk[c.to[1]][c.to[2]] = NoFile
         THEN Fails(p) /\ disk' = disk
         ELSE /\ disk' = [disk EXCEPT ![c.to[1]][c.to[2]] = NoFile]
              /\ Returns(p, Rebound([x \in Paths \union {Nowhere} |-> IF x = c.to THEN Nowhere ELSE x]))
    /\ UNCHANGED <<dirs, sent, ops, crashes, mixed, emptySent>>

RenameCheck(p) ==
  /\ call[p].at = "check"
  /\ IF disk[call[p].name][Yaml(call[p].name)] = NoFile
       THEN Fails(p)
       ELSE call' = [call EXCEPT ![p].at = "dir"] /\ book' = book
  /\ UNCHANGED <<disk, dirs, sent, ops, crashes, mixed, emptySent>>

\* A folder takes the place of none, or of one without anything in it.
Replaceable(n) == dirs[n] = "none" \/ (dirs[n] = "dir" /\ disk[n] = NoFiles)

RenameDir(p) ==
  LET c == call[p] IN
    /\ c.at = "dir"
    /\ IF dirs[c.name] = "none" \/ ~Replaceable(c.new)
         THEN Fails(p) /\ UNCHANGED <<disk, dirs>>
         ELSE /\ disk' = [disk EXCEPT ![c.new] = disk[c.name], ![c.name] = NoFiles]
              /\ dirs' = [dirs EXCEPT ![c.new] = dirs[c.name], ![c.name] = "none"]
              /\ call' = [Rebound([x \in Paths \union {Nowhere} |->
                                     IF x \in {c.name} \X Files THEN <<c.new, x[2]>> ELSE x])
                            EXCEPT ![p].at = "file"]
              /\ book' = book
    /\ UNCHANGED <<sent, ops, crashes, mixed, emptySent>>

\* Fault: the file keeps its name.
RenameFileKept(p) ==
  /\ call[p].at = "file"
  /\ IF disk[call[p].new][Yaml(call[p].name)] = NoFile
       THEN Fails(p)
       ELSE call' = [call EXCEPT ![p].at = "open"] /\ book' = book
  /\ UNCHANGED <<disk, dirs, sent, ops, crashes, mixed, emptySent>>

RenameFile(p) ==
  LET c == call[p] old == <<c.new, Yaml(c.name)>> IN
    /\ c.at = "file"
    /\ IF disk[c.new][Yaml(c.name)] = NoFile
         THEN Fails(p) /\ disk' = disk
         ELSE /\ disk' = [disk EXCEPT ![c.new] = [@ EXCEPT ![Yaml(c.new)] = disk[c.new][Yaml(c.name)],
                                                           ![Yaml(c.name)] = NoFile]]
              /\ call' = [Rebound([x \in Paths \union {Nowhere} |->
                                     IF x = old THEN c.to ELSE IF x = c.to THEN Nowhere ELSE x])
                            EXCEPT ![p].at = "open"]
              /\ book' = book
    /\ UNCHANGED <<dirs, sent, ops, crashes, mixed, emptySent>>

-----------------------------------------------------------------------------
Begins(p, n) ==
  \/ CreateJob(p, n) \/ SaveJobParams(p, n) \/ SaveJobUserId(p, n) \/ DeleteJob(p, n) \/ GetJob(p, n)
  \/ \E m \in Names : UpdateJob(p, n, m)
  \/ \E i \in Ids : CreateJobDetail(p, n, i) \/ MakeJobStop(p, n, i) \/ DeleteJobDetail(p, n, i)

Reads(p) ==
  \/ ReadForParams(p) \/ ReadForUserId(p) \/ UserIdPanics(p)
  \/ ReadForDetail(p) \/ ReadForStop(p) \/ ReadForDispatch(p)

Step(p) ==
  Reads(p) \/ OpenFails(p) \/ Open(p) \/ Write(p) \/ Remove(p) \/ RenameCheck(p) \/ RenameDir(p) \/ RenameFile(p)

Next ==
  \/ \E p \in Callers, n \in Names : Begins(p, n)
  \/ \E n \in Names, i \in Ids : SaveLog(n, i)
  \/ WorkerSaves \/ Crash
  \/ \E p \in Processes : Step(p)

Spec == Init /\ [][Next]_vars

-----------------------------------------------------------------------------
(* Properties.                                                             *)

TypeOK ==
  /\ {disk, book} \subseteq [Names -> [Files -> Contents]]
  /\ dirs \in [Names -> {"none", "dir", "full"}]
  /\ \A p \in Processes :
       /\ call[p].at \in {"read", "open", "write", "check", "dir", "file", "remove"}
       /\ call[p].data \in Contents \ {NoFile} /\ call[p].fd \in Paths \union {Nowhere}
  /\ sent \subseteq Names \X (Contents \ {NoFile})
  /\ mixed \subseteq Paths

\* An operation that has returned has done what it is for, one that has failed
\* has done nothing, unless another one used one of its files meanwhile (a
\* dispatch only if it caught a text half done) or the process ended: no other
\* order of the system calls is ever seen.
InUse(x) == \E p \in Processes : x \in Uses(call[p])
DiskIsBook ==
  \A x \in Paths \ mixed : InUse(x) \/ disk[x[1]][x[2]] = book[x[1]][x[2]]

\* A yaml that was read empty, as a job without a name, is never saved back.
NoNamelessJob == \A n, m \in Names : disk[n][Yaml(m)].kind = "yaml" => disk[n][Yaml(m)].name # NoName

\* A file is empty only while it is being saved, unless the process ended, or
\* an empty file has been dispatched to the worker that shares the directory.
EmptyHasACause ==
  \A x \in Paths : disk[x[1]][x[2]] = Empty =>
    \/ \E p \in Processes : call[p].at = "write" /\ call[p].fd = x
    \/ crashes > 0 \/ emptySent
=============================================================================
