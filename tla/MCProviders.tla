---------------------------- MODULE MCProviders ----------------------------
(* The runtime provider the daemon binds at boot (providerOf), bounded.     *)
EXTENDS DockerProvider, KubeProvider, TLC

CONSTANTS s1, s2

D(t, e, k, w, f, c) ==
    [tier |-> t, egress |-> e, signer |-> k, warm |-> w, faults |-> f,
     crashes |-> c, closes |-> c = 0 /\ "remove" \notin f]

MCDeployments == {D("gvisor", TRUE, TRUE, FALSE, {"create"}, 0),
                  D("gvisor", FALSE, TRUE, FALSE, {"commit", "remove"}, 0),
                  D("gvisor", TRUE, TRUE, TRUE, {"files", "exit"}, 0),
                  D("runc", FALSE, FALSE, FALSE, {"create"}, 0),
                  D("runc", TRUE, TRUE, FALSE, {}, 1),
                  D("firecracker", TRUE, TRUE, FALSE, {"create"}, 0)}

C(t, r, f, c) == [tier |-> t, revoker |-> r, faults |-> f, crashes |-> c]

MCClusters == {C("gvisor", TRUE, {"create"}, 0),
               C("gvisor", FALSE, {"delete", "end"}, 0),
               C("runc", TRUE, {}, 1),
               C("firecracker", TRUE, {}, 0)}

FirstCluster == CHOOSE c \in Clusters : TRUE
FirstDeployment == CHOOSE d \in Deployments : TRUE

VARIABLES provider

allVars == <<vars, kubeVars, provider>>

\* providerOf: one provider for the life of the deployment; the other's state
\* does not exist.
ProvidersInit == \/ provider = "docker" /\ Init /\ KubeInit /\ cluster = FirstCluster
                 \/ provider = "k8s" /\ KubeInit /\ Init /\ deploy = FirstDeployment

ProvidersNext == \/ provider = "docker" /\ Next /\ UNCHANGED <<kubeVars, provider>>
                 \/ provider = "k8s" /\ KubeNext /\ UNCHANGED <<vars, provider>>

ProvidersSpec == ProvidersInit /\ [][ProvidersNext]_allVars

\* The types of both providers' state (provider.go).
ProvidersType == TypeOK /\ KubeType

\* After the boot sweep of either provider (Manager.Reconcile over the listing of
\* runtime/docker or runtime/k8s) containers or pods and rows agree, whatever the
\* crash interrupted.
BootsAgree == BootAgrees /\ KubeBootAgrees

MCSymmetry == Permutations(Sessions)
=============================================================================
