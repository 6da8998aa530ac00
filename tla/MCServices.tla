------------------------------ MODULE MCServices ------------------------------
(***************************************************************************)
(* The actions that act on services outside: dfx, Kubernetes and MetaScan. *)
(* They share no state, so one of them moves in a behaviour while the      *)
(* others rest.                                                            *)
(***************************************************************************)
EXTENDS IcpDeploy, K8sDeploy, MetaScan, TLC

CONSTANTS i1, i2, j1, j2, u1, u2, c1, c2, d1, d2, a1, a2, s1, s2

VARIABLE service

MCUserOf == [j \in IcpJobs |-> IF j = j1 THEN u1 ELSE u2]
MCCodes == {<<[severity |-> "Low", files |-> <<"a.sol", "b.sol">>]>>}

MCInit ==
  /\ service \in {"dfx", "kubernetes", "metascan"}
  /\ IcpInit /\ K8sInit /\ ScanInit
  /\ service # "dfx" => network = "local"
  /\ service # "kubernetes" => appOf = [d \in Deploys |-> a1]

MCNext ==
  \/ service = "dfx" /\ IcpNext /\ UNCHANGED <<service, k8sVars, scanVars>>
  \/ service = "kubernetes" /\ K8sNext /\ UNCHANGED <<service, icpVars, scanVars>>
  \/ service = "metascan" /\ ScanNext /\ UNCHANGED <<service, icpVars, k8sVars>>

\* IcpFairness, K8sFairness and ScanFairness, with the test of service first:
\* nothing of a component that rests is enabled.
MCFairness ==
  /\ \A r \in IcpRuns : WF_icpVars(service = "dfx" /\ IcpStep(r))
  /\ \A d \in Deploys : WF_k8sVars(service = "kubernetes" /\ DeployStep(d))
  /\ \A a \in Apps : WF_k8sVars(service = "kubernetes" /\ Controller(a))
  /\ \A j \in Scans : WF_scanVars(service = "metascan" /\ ScanStep(j))
  /\ \A j \in Scans : WF_scanVars(service = "metascan" /\ TaskEnds(j))

MCSpec == MCInit /\ [][MCNext]_<<service, icpVars, k8sVars, scanVars>> /\ MCFairness

\* Every run of the three ends: as the runs are finitely many, a time comes
\* when none is under way any more.
ServicesEnd ==
  <>[] /\ \A r \in IcpRuns : IcpRunEnded(r)
       /\ \A d \in Deploys : DeployEnded(d)
       /\ \A j \in Scans : ~Scanning(j)
=============================================================================
