---------------------------- MODULE KubeProvider ----------------------------
(***************************************************************************)
(* The Kubernetes provider (internal/runtime/k8s): a Secret, a deny-all    *)
(* NetworkPolicy and a Pod per session, created in that order with a LIFO  *)
(* rollback, torn down by an ordered finalizer that never short-circuits,  *)
(* and swept at boot by listing pods.  One step per API call.  The API     *)
(* server and the kubelet are external: they make a pod ready, end it, and *)
(* remove a deleted pod some time after the delete call returned.          *)
(***************************************************************************)
EXTENDS RuntimeSeam, Naturals

CONSTANTS Clusters  \* the deployments explored

ClusterFaults == {"create", "delete", "end"}
ClusterType == [tier : Tiers, revoker : BOOLEAN, faults : SUBSET ClusterFaults,
                crashes : Nat]

ASSUME ClustersAssumption == Clusters \subseteq ClusterType

VARIABLES cluster,   \* the deployment
          secret,    \* the sessions whose handoff Secret exists
          policy,    \* the sessions whose NetworkPolicy exists
          pod,       \* the state of the session's pod
          bound,     \* the sessions with a minted token on the Revoker
          kpc,       \* the next step of a session's create or teardown
          krow,      \* the session's row
          failed,    \* sessions whose running finalizer collected an error
          kleft,     \* history: objects a failed delete or a crash left
          kphase,    \* the daemon: down, sweeping or up
          ktodo,     \* the listed pods the boot sweep force-kills
          kkept,     \* the sessions whose live pod it listed
          kcrashes

objectVars == <<secret, policy, pod, kleft>>
kdaemonVars == <<cluster, kphase, ktodo, kkept, kcrashes>>
kubeVars == <<objectVars, bound, kpc, krow, failed, kdaemonVars>>

Pods == {"none", "pending", "ready", "done", "ending"}

CreateSteps == {"secret", "policy", "pod", "wait", "mark"}
FinalizerSteps == {"revoke", "dropEgress", "killPod", "deleteSecret", "finish"}

KubeType == /\ cluster \in ClusterType
            /\ secret \subseteq Sessions /\ policy \subseteq Sessions
            /\ pod \in [Sessions -> Pods]
            /\ bound \subseteq Sessions
            /\ kpc \in [Sessions -> {"idle", "live"} \cup CreateSteps \cup FinalizerSteps]
            /\ krow \in [Sessions -> Rows]
            /\ failed \subseteq Sessions
            /\ kleft \subseteq {"secret", "policy", "pod"} \X Sessions
            /\ kphase \in {"down", "sweep", "up"}
            /\ ktodo \subseteq Sessions /\ kkept \subseteq Sessions
            /\ kcrashes \in 0 .. cluster.crashes

KubeInit == /\ cluster \in Clusters
            /\ secret = {} /\ policy = {} /\ bound = {} /\ failed = {} /\ kleft = {}
            /\ pod = [s \in Sessions |-> "none"]
            /\ kpc = [s \in Sessions |-> "idle"]
            /\ krow = [s \in Sessions |-> "none"]
            /\ kphase = "down" /\ ktodo = {} /\ kkept = {} /\ kcrashes = 0

KGoto(s, step) == kpc' = [kpc EXCEPT ![s] = step]

KubeFails == "create" \in cluster.faults

-----------------------------------------------------------------------------
(* Deletes.  A not-found is success; a failed delete leaves its object.     *)

Objects(s) == {x \in {"secret", "policy", "pod"} :
                 \/ x = "secret" /\ s \in secret
                 \/ x = "policy" /\ s \in policy
                 \/ x = "pod" /\ pod[s] # "none"}

\* DeleteSecret, DeleteNetworkPolicy and DeletePod on the kinds in gone, those
\* in lost failing.  The API server marks a pod; the kubelet removes it later.
Deleted(s, gone, lost) ==
    LET done == gone \ lost IN
    /\ lost \subseteq gone \cap Objects(s)
    /\ lost # {} => "delete" \in cluster.faults
    /\ secret' = secret \ {t \in {s} : "secret" \in done}
    /\ policy' = policy \ {t \in {s} : "policy" \in done}
    /\ pod' = IF "pod" \in done /\ pod[s] # "none"
              THEN [pod EXCEPT ![s] = "ending"]
              ELSE pod
    /\ kleft' = (kleft \ (done \X {s})) \cup (lost \X {s})

-----------------------------------------------------------------------------
(* Materialize. *)

\* The create before it: reserve, and mint for a session with storage.
KubeCreateStart(s, storage) ==
    /\ kphase = "up" /\ kpc[s] = "idle" /\ krow[s] = "none"
    /\ krow' = [krow EXCEPT ![s] = "RESERVED"]
    /\ bound' = IF storage THEN bound \cup {s} ELSE bound
    /\ KGoto(s, "secret")
    /\ UNCHANGED <<objectVars, failed, kdaemonVars>>

\* What has been created before a step, undone by it in reverse when it fails.
RollbackOf(step) == CASE step = "policy" -> {"secret"}
                      [] step = "pod" -> {"secret", "policy"}
                      [] step = "wait" -> {"secret", "policy", "pod"}
                      [] OTHER -> {}

\* The deletes of the rollback are best effort; the create then unwinds.
MaterializeFails(s, step) ==
    /\ \E lost \in SUBSET RollbackOf(step) : Deleted(s, RollbackOf(step), lost)
    /\ krow' = [krow EXCEPT ![s] = "none"]
    /\ KGoto(s, "idle")

\* validateSpec and the tier refuse before the first call.
CreateSecret(s) ==
    /\ kpc[s] = "secret"
    /\ \/ /\ cluster.tier # "firecracker"
          /\ secret' = secret \cup {s}
          /\ KGoto(s, "policy")
          /\ UNCHANGED <<policy, pod, kleft, krow>>
       \/ /\ cluster.tier = "firecracker" \/ KubeFails
          /\ MaterializeFails(s, "secret")
    /\ UNCHANGED <<bound, failed, kdaemonVars>>

\* Mutant of CreateNetworkPolicy: an existing pod needs no new policy.
CreateNetworkPolicyOnce(s) ==
    /\ kpc[s] = "policy"
    /\ policy' = IF pod[s] = "none" THEN policy \cup {s} ELSE policy
    /\ KGoto(s, "pod")
    /\ UNCHANGED <<secret, pod, kleft, krow, bound, failed, kdaemonVars>>

CreateNetworkPolicy(s) ==
    /\ kpc[s] = "policy"
    /\ \/ /\ policy' = policy \cup {s}
          /\ KGoto(s, "pod")
          /\ UNCHANGED <<secret, pod, kleft, krow>>
       \/ KubeFails /\ MaterializeFails(s, "policy")
    /\ UNCHANGED <<bound, failed, kdaemonVars>>

\* A pod of that name that is already there is taken as created.
CreatePod(s) ==
    /\ kpc[s] = "pod"
    /\ \/ /\ pod' = [pod EXCEPT ![s] = IF @ = "none" THEN "pending" ELSE @]
          /\ KGoto(s, "wait")
          /\ UNCHANGED <<secret, policy, kleft, krow>>
       \/ KubeFails /\ MaterializeFails(s, "pod")
    /\ UNCHANGED <<bound, failed, kdaemonVars>>

\* waitReady: until the pod is ready, gone, or the deadline fires.  A pod being
\* deleted keeps its Ready condition until the kubelet stopped it.
WaitReady(s) ==
    /\ kpc[s] = "wait"
    /\ \/ /\ pod[s] \in {"ready", "ending"}
          /\ KGoto(s, "mark")
          /\ UNCHANGED <<objectVars, krow>>
       \/ MaterializeFails(s, "wait")
    /\ UNCHANGED <<bound, failed, kdaemonVars>>

\* Commit: the row is ACTIVE, or the create is unwound with a ForceKill.
KubeCommit(s) ==
    /\ kpc[s] = "mark"
    /\ \/ KGoto(s, "live") /\ krow' = [krow EXCEPT ![s] = "ACTIVE"]
       \/ KubeFails /\ KGoto(s, "revoke") /\ UNCHANGED krow
    /\ UNCHANGED <<objectVars, bound, failed, kdaemonVars>>

-----------------------------------------------------------------------------
(* The finalizer, reached from Destroy, an unwind or the boot sweep.        *)

KubeDestroy(s) == /\ kphase = "up" /\ kpc[s] = "live"
                  /\ KGoto(s, "revoke")
                  /\ UNCHANGED <<objectVars, bound, krow, failed, kdaemonVars>>

\* Revoke on a session nothing is bound to is ErrRevokeUnbound, which this
\* finalizer collects as an error.
RevokeFails(s) == cluster.revoker /\ s \notin bound

RevokeJWT(s) == /\ kpc[s] = "revoke"
                /\ failed' = IF RevokeFails(s) THEN failed \cup {s} ELSE failed
                /\ KGoto(s, "dropEgress")
                /\ UNCHANGED <<objectVars, bound, krow, kdaemonVars>>

\* A step of the finalizer: one delete, whose error is collected.
FinalizerStep(s, at, kind, next) ==
    /\ kpc[s] = at /\ KGoto(s, next)
    /\ \E lost \in SUBSET {kind} :
         /\ Deleted(s, {kind}, lost)
         /\ failed' = IF lost = {} THEN failed ELSE failed \cup {s}
    /\ UNCHANGED <<bound, krow, kdaemonVars>>

DropEgress(s) == FinalizerStep(s, "dropEgress", "policy", "killPod")

\* Mutant of KillPod: the finalizer stops at the first error.
KillPodUnlessFailed(s) ==
    \/ s \notin failed /\ FinalizerStep(s, "killPod", "pod", "deleteSecret")
    \/ /\ s \in failed /\ kpc[s] = "killPod" /\ KGoto(s, "finish")
       /\ UNCHANGED <<objectVars, failed, bound, krow, kdaemonVars>>

KillPod(s) == FinalizerStep(s, "killPod", "pod", "deleteSecret")

DeleteHandoffSecret(s) == FinalizerStep(s, "deleteSecret", "secret", "finish")

\* The caller's answer to the finalizer: a destroy keeps the row on an error,
\* an unwind releases it regardless, the boot sweep aborts the boot.
FinishTeardown(s) ==
    /\ kpc[s] = "finish"
    /\ failed' = failed \ {s}
    /\ CASE kphase = "sweep" ->
              /\ KGoto(s, "idle")
              /\ IF s \in failed
                 THEN kphase' = "down" /\ ktodo' = {} /\ kkept' = {}
                 ELSE ktodo' = ktodo \ {s} /\ UNCHANGED <<kphase, kkept>>
              /\ UNCHANGED krow
         [] kphase # "sweep" /\ krow[s] = "ACTIVE" /\ s \in failed ->
              KGoto(s, "live") /\ UNCHANGED <<krow, kphase, ktodo, kkept>>
         [] OTHER ->
              /\ KGoto(s, "idle")
              /\ krow' = [krow EXCEPT ![s] = "none"]
              /\ UNCHANGED <<kphase, ktodo, kkept>>
    /\ UNCHANGED <<objectVars, bound, cluster, kcrashes>>

-----------------------------------------------------------------------------
(* The cluster, crashes and the boot sweep. *)

PodReady(s) == /\ pod[s] = "pending" /\ pod' = [pod EXCEPT ![s] = "ready"]
               /\ UNCHANGED <<secret, policy, kleft, bound, kpc, krow, failed, kdaemonVars>>

PodEnds(s) == /\ pod[s] = "ending" \/ (pod[s] = "ready" /\ "end" \in cluster.faults)
              /\ pod' = [pod EXCEPT ![s] = IF @ = "ending" THEN "none" ELSE "done"]
              /\ UNCHANGED <<secret, policy, kleft, bound, kpc, krow, failed, kdaemonVars>>

\* The Revoker's bindings are in memory; rows and objects survive.  What has
\* no pod is listed by no sweep.
KubeCrash ==
    /\ kphase # "down" /\ kcrashes < cluster.crashes
    /\ kcrashes' = kcrashes + 1
    /\ kphase' = "down" /\ ktodo' = {} /\ kkept' = {}
    /\ bound' = {} /\ failed' = {}
    /\ kpc' = [s \in Sessions |-> IF krow[s] = "ACTIVE" THEN "live" ELSE "idle"]
    /\ kleft' = kleft \cup UNION {{<<"secret", s>>, <<"policy", s>>} :
                                  s \in {x \in Sessions : pod[x] \in {"none", "ending"}}}
    /\ UNCHANGED <<secret, policy, pod, krow, cluster>>

PodAlive(s) == pod[s] \in {"pending", "ready", "ending"}
KubeLiveRows == {s \in Sessions : krow[s] # "none"}

\* Reconcile: the listed pods but a live row's live one are force-killed.
KubeBootList ==
    LET listed == {s \in Sessions : pod[s] # "none"}
        keep == {s \in listed : PodAlive(s) /\ s \in KubeLiveRows} IN
    /\ kphase = "down"
    /\ kphase' = "sweep" /\ ktodo' = listed \ keep /\ kkept' = keep
    /\ UNCHANGED <<objectVars, bound, kpc, krow, failed, cluster, kcrashes>>

KubeBootKill(s) == /\ kphase = "sweep" /\ s \in ktodo
                   /\ \A t \in Sessions : kpc[t] \notin FinalizerSteps
                   /\ KGoto(s, "revoke")
                   /\ UNCHANGED <<objectVars, bound, krow, failed, kdaemonVars>>

KubeBootEnd ==
    /\ kphase = "sweep" /\ ktodo = {}
    /\ kphase' = "up" /\ kkept' = {}
    /\ krow' = [s \in Sessions |-> IF s \in kkept THEN krow[s] ELSE "none"]
    /\ kpc' = [s \in Sessions |-> IF s \in kkept THEN "live" ELSE "idle"]
    /\ UNCHANGED <<objectVars, bound, failed, ktodo, cluster, kcrashes>>

KubeStep(s) ==
    \/ CreateSecret(s) \/ CreateNetworkPolicy(s) \/ CreatePod(s) \/ WaitReady(s)
    \/ KubeCommit(s) \/ RevokeJWT(s) \/ DropEgress(s) \/ KillPod(s)
    \/ DeleteHandoffSecret(s) \/ FinishTeardown(s)

KubeNext == \/ \E s \in Sessions : \/ \E storage \in BOOLEAN : KubeCreateStart(s, storage)
                                   \/ KubeStep(s) \/ KubeDestroy(s)
                                   \/ PodReady(s) \/ PodEnds(s) \/ KubeBootKill(s)
            \/ KubeCrash \/ KubeBootList \/ KubeBootEnd

-----------------------------------------------------------------------------
(* Properties. *)

\* A pod stands behind its deny-all policy from its create until its own
\* teardown, whatever was rolled back or already existed.  (A teardown drops the
\* policy first; one interrupted after that by a failed delete or a crash is
\* the only way to a live session without it.)
PodFenced ==
    \A s \in Sessions :
      /\ pod[s] \in {"pending", "ready"} /\ kphase = "up"
      /\ \/ kpc[s] \in {"pod", "wait", "mark"}
         \/ kpc[s] = "live" /\ kcrashes = 0 /\ "delete" \notin cluster.faults
      => s \in policy

\* A session that is over leaves no object behind while the daemon serves: only
\* a failed delete or a crash before the pod existed can.
ObjectsAccounted ==
    kphase = "up" => \A s \in Sessions : kpc[s] = "idle" =>
      /\ s \in secret => <<"secret", s>> \in kleft
      /\ s \in policy => <<"policy", s>> \in kleft
      /\ pod[s] \notin {"none", "ending"} => <<"pod", s>> \in kleft

\* The finalizer never short-circuits: when its run ends, every object whose
\* own delete did not fail is gone, whatever other step failed.
NeverShortCircuits ==
    \A s \in Sessions : kpc[s] = "finish" /\ "delete" \notin cluster.faults
      => s \notin secret \cup policy /\ pod[s] \in {"none", "ending"}

\* Teardown is complete (finalize, the rollback of Materialize): one failing step
\* strands nothing of the others, and a session that is over leaves nothing.
ObjectsGone == ObjectsAccounted /\ NeverShortCircuits

\* When a boot ends, a row that is left has a pod that was listed alive, and a
\* pod no row owns is on its way out.
KubeBootAgrees ==
    [][kphase = "sweep" /\ kphase' = "up" => \A s \in Sessions :
         /\ krow'[s] # "none" <=> s \in kkept
         /\ krow'[s] = "none" => pod[s] \in {"none", "ending"}]_kubeVars

\* A revoke that had nothing bound is a satisfied no-op for the finalizer
\* (cred.Revoker.Revoke): it fails only when one of its deletes failed.
UnboundSatisfied == "delete" \notin cluster.faults => failed = {}
=============================================================================
