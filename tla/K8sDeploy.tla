------------------------------ MODULE K8sDeploy ------------------------------
(***************************************************************************)
(* Deploying to Kubernetes (k8s-deploy and k8s-ingress:                    *)
(* action/action_k8s_deploy.go, action/action_k8s_ingress.go, utils/k8s.go)*)
(*                                                                         *)
(* A run writes a namespace, a deployment, a service and an ingress, each  *)
(* by listing what is there and then creating or updating it, and waits in *)
(* a loop without a pause until a pod of the project runs or has failed.   *)
(* Other runs and the cluster move between any two of its calls.           *)
(***************************************************************************)
EXTENDS Naturals

CONSTANTS
  Deploys,   \* executions of jobs with these steps, all in one namespace
  Apps,      \* the projects
  Nobody

ASSUME NobodyAssumption == Nobody \notin Deploys

VARIABLES
  appOf,     \* appOf[d]: the project run d deploys
  spot,      \* spot[d]: the kind run d is about to write, or where else it is
  seen,      \* seen[d]: what its list call found of that kind
  cluster,   \* cluster[<<kind, name>>]: the run that wrote the object last
  pods,      \* pods[a]: the pods of project a: [release, phase]
  together,  \* history: pairs of runs that were under way at the same time
  conflicts  \* history: <<run, object>> where a create found the object there

k8sVars == <<appOf, spot, seen, cluster, pods, together, conflicts>>

Kinds == {"namespace", "deployment", "service", "ingress"}
Objects == {<<"namespace", "all">>} \union ((Kinds \ {"namespace"}) \X Apps)
Object(kind, d) == <<kind, IF kind = "namespace" THEN "all" ELSE appOf[d]>>
Over == {"done", "failed"}
UnderWay(d) == spot[d] \notin {"idle"} \union Over

K8sInit ==
  /\ appOf \in [Deploys -> Apps]
  /\ spot = [d \in Deploys |-> "idle"] /\ seen = [d \in Deploys |-> "unlisted"]
  /\ cluster = [o \in Objects |-> Nobody]
  /\ pods = [a \in Apps |-> {}]
  /\ together = {} /\ conflicts = {}

Go(d, to) ==
  /\ appOf' = appOf
  /\ spot' = [spot EXCEPT ![d] = to]
  /\ seen' = [seen EXCEPT ![d] = "unlisted"]

\* k8s-deploy, with or without k8s-ingress after it, or k8s-ingress alone.
BeginDeploy(d) ==
  LET others == {e \in Deploys \ {d} : UnderWay(e)} IN
    /\ spot[d] = "idle"
    /\ \E first \in {"namespace", "ingress"} : Go(d, first)
    /\ together' = together \union ({d} \X others) \union (others \X {d})
    /\ UNCHANGED <<cluster, pods, conflicts>>

NextKinds(kind) ==
  CASE kind = "namespace" -> {"deployment"}
    [] kind = "deployment" -> {"service"}
    [] kind = "service" -> {"ingress", "done"}
    [] kind = "ingress" -> {"poll"}

\* No client, containers or ports that are not JSON, no port for the ingress,
\* or a list call that fails.
GiveUp(d) ==
  /\ spot[d] \in Kinds /\ seen[d] = "unlisted"
  /\ Go(d, "failed")
  /\ UNCHANGED <<cluster, pods, together, conflicts>>

ListKind(d) ==
  /\ spot[d] \in Kinds /\ seen[d] = "unlisted"
  /\ seen' = [seen EXCEPT ![d] = IF cluster[Object(spot[d], d)] = Nobody THEN "absent" ELSE "present"]
  /\ UNCHANGED <<appOf, spot, cluster, pods, together, conflicts>>

-----------------------------------------------------------------------------
(* Create what was not seen, update what was.                              *)

\* Fault: nobody looks at the list.
ExistsNow(d) == cluster[Object(spot[d], d)] # Nobody
RefusedUnseen(d) == ExistsNow(d)
\* Fault: a service that is there is taken for the right one.
OverwritesAllButServices(d) ==
  seen[d] = "absent" \/ (seen[d] = "present" /\ spot[d] \notin {"namespace", "service"})

\* A create is refused when another run has created the object since the list.
Refused(d) == seen[d] = "absent" /\ ExistsNow(d)

\* A namespace that is there is left alone.
Overwrites(d) == seen[d] = "absent" \/ (seen[d] = "present" /\ spot[d] # "namespace")

Put(d) ==
  /\ spot[d] \in Kinds /\ seen[d] # "unlisted" /\ ~Refused(d)
  /\ \E to \in NextKinds(spot[d]) : Go(d, to)
  /\ cluster' = IF Overwrites(d) THEN [cluster EXCEPT ![Object(spot[d], d)] = d] ELSE cluster
  /\ UNCHANGED <<pods, together, conflicts>>

\* The call is refused by the cluster, or done and the answer lost.
PutFails(d) ==
  /\ spot[d] \in Kinds /\ seen[d] # "unlisted" /\ Overwrites(d)
  /\ Go(d, "failed")
  /\ IF Refused(d)
     THEN conflicts' = conflicts \union {<<d, Object(spot[d], d)>>} /\ cluster' = cluster
     ELSE /\ \E w \in {d, cluster[Object(spot[d], d)]} : cluster' = [cluster EXCEPT ![Object(spot[d], d)] = w]
          /\ conflicts' = conflicts
  /\ UNCHANGED <<pods, together>>

-----------------------------------------------------------------------------
(* The loop at the end of k8s-ingress.                                     *)

\* The pods with the label of the service, none while there is no service;
\* the first decides, of whatever release it is, and a pending one, or none,
\* is asked for again at once.
Listed(d) == IF cluster[Object("service", d)] = Nobody THEN {} ELSE pods[appOf[d]]

\* Fault: a failed pod does not end the loop.
PollRunningOnly(d) ==
  /\ spot[d] = "poll"
  /\ \E p \in Listed(d) : p.phase = "Running" /\ Go(d, "done")
  /\ UNCHANGED <<cluster, pods, together, conflicts>>

Poll(d) ==
  /\ spot[d] = "poll"
  /\ \E p \in Listed(d) :
       \/ p.phase = "Running" /\ Go(d, "done")
       \/ p.phase = "Failed" /\ Go(d, "failed")
  /\ UNCHANGED <<cluster, pods, together, conflicts>>

\* The cluster: a pod for the release of the deployment, pods that start or
\* fail, and the end of the pods of older releases once the new one runs.
PodsOf(a, release) == {p \in pods[a] : p.release = release}

PodCreated(a) ==
  LET r == cluster[<<"deployment", a>>] IN
    /\ r # Nobody /\ \A p \in PodsOf(a, r) : p.phase = "Failed"
    /\ pods' = [pods EXCEPT ![a] = @ \union {[release |-> r, phase |-> "Pending"]}]

PodSettles(a) ==
  \E p \in pods[a], ph \in {"Running", "Failed"} :
    /\ p.phase = "Pending"
    /\ pods' = [pods EXCEPT ![a] = (@ \ {p}) \union {[p EXCEPT !.phase = ph]}]

OldPodsGo(a) ==
  LET r == cluster[<<"deployment", a>>] IN
    /\ \E p \in PodsOf(a, r) : p.phase = "Running"
    /\ pods[a] # PodsOf(a, r)
    /\ pods' = [pods EXCEPT ![a] = PodsOf(a, r)]

Controller(a) ==
  /\ PodCreated(a) \/ PodSettles(a) \/ OldPodsGo(a)
  /\ UNCHANGED <<appOf, spot, seen, cluster, together, conflicts>>

-----------------------------------------------------------------------------
DeployStep(d) == ListKind(d) \/ GiveUp(d) \/ Put(d) \/ PutFails(d) \/ Poll(d)

K8sNext == (\E d \in Deploys : BeginDeploy(d) \/ DeployStep(d)) \/ \E a \in Apps : Controller(a)

\* Calls to the cluster end, and the cluster creates and settles its pods.
K8sFairness ==
  /\ \A d \in Deploys : WF_k8sVars(DeployStep(d))
  /\ \A a \in Apps : WF_k8sVars(Controller(a))

K8sSpec == K8sInit /\ [][K8sNext]_k8sVars /\ K8sFairness

K8sTypeOK ==
  /\ appOf \in [Deploys -> Apps]
  /\ spot \in [Deploys -> Kinds \union {"idle", "poll"} \union Over]
  /\ seen \in [Deploys -> {"unlisted", "absent", "present"}]
  /\ cluster \in [Objects -> Deploys \union {Nobody}]
  /\ pods \in [Apps -> SUBSET [release : Deploys, phase : {"Pending", "Running", "Failed"}]]
  /\ together \subseteq Deploys \X Deploys
  /\ conflicts \subseteq Deploys \X Objects

-----------------------------------------------------------------------------
(* Properties.                                                             *)

\* A create fails on an object that is there only when another run that
\* writes the same object was under way with it: one run after the other
\* never meets the gap between List and Create.
ConflictNeedsRace ==
  \A c \in conflicts : \E e \in Deploys : <<c[1], e>> \in together /\ \E kind \in Kinds : Object(kind, e) = c[2]

\* The deployment and the service of a project are of the same run, unless
\* one of the two runs failed or is under way, or they ran together: the
\* ports of one release in front of the containers of another.
MixedReleaseHasACause ==
  \A a \in Apps :
    LET d == cluster[<<"deployment", a>>]
        s == cluster[<<"service", a>>]
    IN d # s => \E e \in {d, s} \ {Nobody} :
                  spot[e] # "done" \/ (d # Nobody /\ s # Nobody /\ <<d, s>> \in together)

\* A run that is not under way; one of a project without a deployment or a
\* service asks for ever, and goes on when its job is cancelled.
DeployEnded(d) ==
  \/ ~UnderWay(d)
  \/ spot[d] = "poll" /\ \E kind \in {"deployment", "service"} : cluster[Object(kind, d)] = Nobody
=============================================================================
