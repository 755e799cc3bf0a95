--------------------------- MODULE RuntimeProofs ----------------------------
(***************************************************************************)
(* What holds of the Kubernetes provider for every set of sessions and     *)
(* every fault of the cluster.                                             *)
(***************************************************************************)
EXTENDS KubeProvider, TLAPS

-----------------------------------------------------------------------------
(* The Kubernetes provider. *)

KubeSpec == KubeInit /\ [][KubeNext]_kubeVars

Kinds == {"secret", "policy", "pod"}
Settled == {"idle", "live"}
Gone == {"none", "ending"}

SecretLeft(s) == s \in secret => <<"secret", s>> \in kleft
PolicyLeft(s) == s \in policy => <<"policy", s>> \in kleft
PodLeft(s) == pod[s] \notin Gone => <<"pod", s>> \in kleft

\* Where a session's create or teardown is tells which of its objects still
\* stand: those not yet created and those already deleted do not, but for the
\* leftovers.
StepInv(s) ==
    /\ kpc[s] \in {"pod", "wait", "mark"} => s \in policy
    /\ kpc[s] = "idle" /\ kphase = "up" => SecretLeft(s) /\ PolicyLeft(s) /\ PodLeft(s)
    /\ kpc[s] = "secret" => SecretLeft(s) /\ PolicyLeft(s) /\ PodLeft(s)
    /\ kpc[s] = "policy" => PolicyLeft(s) /\ PodLeft(s)
    /\ kpc[s] = "pod" => PodLeft(s)
    /\ kpc[s] \in {"killPod", "deleteSecret", "finish"} => PolicyLeft(s)
    /\ kpc[s] \in {"deleteSecret", "finish"} => PodLeft(s)
    /\ kpc[s] = "finish" => SecretLeft(s)

\* Without failing deletes the finalizer leaves nothing, and nothing fails in
\* the sweep but a revoke or a delete of the session itself.
DeleteInv(s) ==
    /\ "delete" \notin cluster.faults =>
         /\ kpc[s] \in {"killPod", "deleteSecret", "finish"} => s \notin policy
         /\ kpc[s] \in {"deleteSecret", "finish"} => pod[s] \in Gone
         /\ kpc[s] = "finish" => s \notin secret
    /\ kpc[s] \in {"deleteSecret", "finish"} => pod[s] \in Gone \/ s \in failed

\* While the daemon is not up only the sweep's finalizer runs, on one listed pod
\* at a time; what is not on its list has no pod.
DownInv ==
    /\ kphase # "up" => \A s \in Sessions :
         /\ kpc[s] \in Settled \cup FinalizerSteps
         /\ kpc[s] \in Settled /\ pod[s] \in Gone => SecretLeft(s) /\ PolicyLeft(s)
    /\ kphase = "down" => \A s \in Sessions : kpc[s] \in Settled
    /\ kphase = "sweep" =>
         /\ \A s \in Sessions : kpc[s] \in FinalizerSteps => s \in ktodo
         /\ \A s, t \in Sessions : kpc[s] \in FinalizerSteps /\ kpc[t] \in FinalizerSteps => s = t
         /\ \A s \in Sessions : s \notin ktodo \cup kkept => pod[s] \in Gone
         /\ \A s \in kkept : krow[s] # "none"

\* Before the first crash a boot finds nothing, and a live session has the
\* policy it was created with.
FreshInv ==
    kcrashes = 0 =>
      /\ kphase # "up" => /\ ktodo = {} /\ kkept = {}
                          /\ \A s \in Sessions : pod[s] = "none" /\ kpc[s] = "idle"
      /\ "delete" \notin cluster.faults => \A s \in Sessions :
            kpc[s] = "live" /\ pod[s] \in {"pending", "ready"} => s \in policy

ObjectInv == /\ \A s \in Sessions : StepInv(s) /\ DeleteInv(s)
             /\ DownInv /\ FreshInv

KubeInv == KubeType /\ ObjectInv

-----------------------------------------------------------------------------
\* What a round of deletes does (DeleteSecret, DeleteNetworkPolicy, DeletePod):
\* an object it is asked to delete is gone, or recorded as left when deletes
\* can fail; other kinds and other sessions' objects stand as they were.
LEMMA DeletedObjects ==
    ASSUME KubeType, NEW s \in Sessions, NEW gone \in SUBSET Kinds,
           NEW lost \in SUBSET gone, Deleted(s, gone, lost)
    PROVE  /\ secret' \subseteq Sessions /\ policy' \subseteq Sessions
           /\ pod' \in [Sessions -> Pods]
           /\ kleft' \subseteq Kinds \X Sessions
           /\ \A t \in Sessions \ {s} :
                /\ t \in secret' <=> t \in secret
                /\ t \in policy' <=> t \in policy
                /\ pod'[t] = pod[t]
                /\ \A k \in Kinds : <<k, t>> \in kleft' <=> <<k, t>> \in kleft
           /\ "secret" \in gone =>
                /\ s \in secret' => "secret" \in lost /\ <<"secret", s>> \in kleft'
           /\ "policy" \in gone =>
                /\ s \in policy' => "policy" \in lost /\ <<"policy", s>> \in kleft'
           /\ "pod" \in gone =>
                /\ pod'[s] \notin Gone => "pod" \in lost /\ <<"pod", s>> \in kleft'
           /\ \A k \in Kinds \ gone : <<k, s>> \in kleft' <=> <<k, s>> \in kleft
           /\ "secret" \notin gone => (s \in secret' <=> s \in secret)
           /\ "policy" \notin gone => (s \in policy' <=> s \in policy)
           /\ pod'[s] = pod[s] \/ ("pod" \in gone /\ pod'[s] \in Gone)
           /\ lost # {} => "delete" \in cluster.faults
<1> DEFINE done == gone \ lost
<1>1. /\ secret' = secret \ {t \in {s} : "secret" \in done}
      /\ policy' = policy \ {t \in {s} : "policy" \in done}
      /\ pod' = IF "pod" \in done /\ pod[s] # "none"
                THEN [pod EXCEPT ![s] = "ending"] ELSE pod
      /\ kleft' = (kleft \ (done \X {s})) \cup (lost \X {s})
      /\ lost # {} => "delete" \in cluster.faults
  BY Zenon DEF Deleted
<1>2. /\ secret \subseteq Sessions /\ policy \subseteq Sessions
      /\ pod \in [Sessions -> Pods] /\ kleft \subseteq Kinds \X Sessions
  BY Zenon DEF KubeType, Kinds
<1>3. \A t \in Sessions : \A k \in Kinds :
        <<k, t>> \in kleft' <=> \/ <<k, t>> \in kleft /\ ~(t = s /\ k \in done)
                                \/ t = s /\ k \in lost
  BY <1>1, Zenon
<1>4. kleft' \subseteq Kinds \X Sessions
  BY <1>1, <1>2, Zenon
<1>5. /\ pod' \in [Sessions -> Pods]
      /\ \A t \in Sessions \ {s} : pod'[t] = pod[t]
      /\ "pod" \in done => pod'[s] \in Gone
      /\ pod'[s] = pod[s] \/ ("pod" \in gone /\ pod'[s] \in Gone)
  BY <1>1, <1>2, Zenon DEF Pods, Gone
<1>6. /\ \A t \in Sessions : t \in secret' <=> t \in secret /\ ~(t = s /\ "secret" \in done)
      /\ \A t \in Sessions : t \in policy' <=> t \in policy /\ ~(t = s /\ "policy" \in done)
  BY <1>1, Zenon
<1>7. secret' \subseteq Sessions /\ policy' \subseteq Sessions
  BY <1>1, <1>2, Zenon
<1> QED BY <1>1, <1>3, <1>4, <1>5, <1>6, <1>7 DEF Kinds

\* The step leaves every session but s, and its objects, alone.
Alone(s) ==
    \A t \in Sessions \ {s} :
      /\ kpc'[t] = kpc[t] /\ krow'[t] = krow[t] /\ pod'[t] = pod[t]
      /\ t \in secret' <=> t \in secret
      /\ t \in policy' <=> t \in policy
      /\ t \in failed' <=> t \in failed
      /\ \A k \in Kinds : <<k, t>> \in kleft' <=> <<k, t>> \in kleft

\* A step of one session's create or teardown disturbs no other session's
\* objects (every name is derived from the session).
LEMMA OthersStand ==
    ASSUME ObjectInv, NEW s \in Sessions, Alone(s), cluster' = cluster,
           kphase' = "up" => kphase = "up"
    PROVE  \A t \in Sessions \ {s} : StepInv(t)' /\ DeleteInv(t)'
<1> SUFFICES ASSUME NEW t \in Sessions \ {s} PROVE StepInv(t)' /\ DeleteInv(t)'
  BY Zenon
<1>1. StepInv(t) /\ DeleteInv(t)
  BY Zenon DEF ObjectInv
<1>2. /\ kpc'[t] = kpc[t] /\ pod'[t] = pod[t]
      /\ t \in secret' <=> t \in secret
      /\ t \in policy' <=> t \in policy
      /\ t \in failed' <=> t \in failed
      /\ <<"secret", t>> \in kleft' <=> <<"secret", t>> \in kleft
      /\ <<"policy", t>> \in kleft' <=> <<"policy", t>> \in kleft
      /\ <<"pod", t>> \in kleft' <=> <<"pod", t>> \in kleft
  BY Zenon DEF Alone, Kinds
<1>3. StepInv(t)'
  BY <1>1, <1>2, Zenon DEF StepInv, SecretLeft, PolicyLeft, PodLeft
<1> QED BY <1>1, <1>2, <1>3 DEF DeleteInv

\* A step of one session's create or teardown keeps the invariant of all when
\* it keeps that of the session: while the daemon serves, as a step of the
\* sweep's own finalizer, or as a pod changing state by itself.
LEMMA SessionStep ==
    ASSUME ObjectInv, NEW s \in Sessions, Alone(s), UNCHANGED kdaemonVars,
           StepInv(s)', DeleteInv(s)',
           \/ kphase = "up"
           \/ /\ kpc[s] \in FinalizerSteps /\ kpc'[s] \in FinalizerSteps
              /\ pod[s] \in Gone => pod'[s] \in Gone
              /\ krow' = krow
           \/ /\ kpc' = kpc /\ UNCHANGED <<secret, policy, kleft, krow>>
              /\ pod[s] # "none" /\ (pod[s] \in Gone <=> pod'[s] \in Gone),
           kcrashes = 0 /\ "delete" \notin cluster.faults /\ kpc'[s] = "live"
             /\ pod'[s] \in {"pending", "ready"} => s \in policy'
    PROVE  ObjectInv'
<1>1. UNCHANGED <<cluster, kphase, ktodo, kkept, kcrashes>>
  BY Zenon DEF kdaemonVars
<1>2. \A t \in Sessions : StepInv(t)' /\ DeleteInv(t)'
  BY <1>1, OthersStand, Zenon
<1>3. /\ DownInv /\ FreshInv
  BY Zenon DEF ObjectInv
<1>4. \A t \in Sessions \ {s} :
        /\ kpc'[t] = kpc[t] /\ krow'[t] = krow[t] /\ pod'[t] = pod[t]
        /\ SecretLeft(t) => SecretLeft(t)'
        /\ PolicyLeft(t) => PolicyLeft(t)'
        /\ t \in policy' <=> t \in policy
  BY Zenon DEF Alone, Kinds, SecretLeft, PolicyLeft
<1>5. DownInv'
  <2>1. CASE kphase = "up"
    BY <1>1, <2>1, Zenon DEF DownInv
  <2>2. CASE /\ kphase # "up" /\ kpc[s] \in FinalizerSteps /\ kpc'[s] \in FinalizerSteps
             /\ pod[s] \in Gone => pod'[s] \in Gone
             /\ krow' = krow
    <3>1. \A t \in Sessions : kpc[t] \in FinalizerSteps <=> kpc'[t] \in FinalizerSteps
      BY <2>2, <1>4, Zenon
    <3>2. \A t \in Sessions : /\ kpc[t] \in Settled <=> kpc'[t] \in Settled
                              /\ pod[t] \in Gone => pod'[t] \in Gone
      BY <2>2, <1>4, Zenon DEF Settled, FinalizerSteps
    <3>3. \A t \in Sessions : kpc'[t] \in Settled /\ pod'[t] \in Gone
                                => SecretLeft(t)' /\ PolicyLeft(t)'
      BY <2>2, <1>3, <1>4, Zenon DEF DownInv, Settled, FinalizerSteps
    <3> QED BY <1>1, <1>3, <2>2, <3>1, <3>2, <3>3 DEF DownInv
  <2>3. CASE /\ kpc' = kpc /\ UNCHANGED <<secret, policy, kleft, krow>>
             /\ pod[s] # "none" /\ (pod[s] \in Gone <=> pod'[s] \in Gone)
    <3>1. \A t \in Sessions : pod[t] \in Gone <=> pod'[t] \in Gone
      BY <2>3, <1>4, Zenon
    <3> QED BY <1>1, <1>3, <2>3, <3>1 DEF DownInv, SecretLeft, PolicyLeft
  <2> QED BY <2>1, <2>2, <2>3
<1>6. FreshInv'
  <2>1. kcrashes = 0 => kphase = "up"
    BY <1>3, Zenon DEF FreshInv, FinalizerSteps
  <2> QED BY <1>1, <1>3, <1>4, <2>1 DEF FreshInv
<1> QED BY <1>2, <1>5, <1>6 DEF ObjectInv
-----------------------------------------------------------------------------
\* A create in progress belongs to a daemon that serves.
LEMMA CreatingUp ==
    ASSUME KubeInv, NEW s \in Sessions, kpc[s] \in CreateSteps
    PROVE  kphase = "up"
  BY Zenon DEF KubeInv, ObjectInv, DownInv, CreateSteps, Settled, FinalizerSteps

\* A create that failed rolls back what it had created (the LIFO rollback of
\* Materialize): nothing of the session stands but what a delete left.
LEMMA RollbackKeeps ==
    ASSUME KubeInv, NEW s \in Sessions, NEW step \in {"secret", "policy", "pod", "wait"},
           kpc[s] = step, MaterializeFails(s, step), UNCHANGED <<bound, failed, kdaemonVars>>
    PROVE  KubeInv'
<1> DEFINE gone == RollbackOf(step)
<1>1. PICK lost \in SUBSET gone : Deleted(s, gone, lost)
  BY Zenon DEF MaterializeFails
<1>2. /\ gone \in SUBSET Kinds
      /\ step # "secret" => "secret" \in gone
      /\ step \in {"pod", "wait"} => "policy" \in gone
      /\ step = "wait" => "pod" \in gone
      /\ step = "secret" => gone = {}
      /\ step = "policy" => gone = {"secret"}
      /\ step = "pod" => gone = {"secret", "policy"}
  BY Zenon DEF RollbackOf, Kinds
<1>3. KubeType /\ ObjectInv /\ kphase = "up"
  BY CreatingUp, Zenon DEF KubeInv, CreateSteps
<1>4. /\ krow' = [krow EXCEPT ![s] = "none"] /\ kpc' = [kpc EXCEPT ![s] = "idle"]
      /\ UNCHANGED <<bound, failed, cluster, kphase, ktodo, kkept, kcrashes>>
  BY Zenon DEF MaterializeFails, KGoto, kdaemonVars
<1> HIDE DEF gone
<1>5. /\ secret' \subseteq Sessions /\ policy' \subseteq Sessions
      /\ pod' \in [Sessions -> Pods]
      /\ kleft' \subseteq Kinds \X Sessions
      /\ "secret" \in gone => SecretLeft(s)'
      /\ "policy" \in gone => PolicyLeft(s)'
      /\ "pod" \in gone => PodLeft(s)'
      /\ "secret" \notin gone /\ SecretLeft(s) => SecretLeft(s)'
      /\ "policy" \notin gone /\ PolicyLeft(s) => PolicyLeft(s)'
      /\ "pod" \notin gone /\ PodLeft(s) => PodLeft(s)'
      /\ \A t \in Sessions \ {s} :
                /\ t \in secret' <=> t \in secret
                /\ t \in policy' <=> t \in policy
                /\ pod'[t] = pod[t]
                /\ \A k \in Kinds : <<k, t>> \in kleft' <=> <<k, t>> \in kleft
  BY <1>1, <1>2, <1>3, DeletedObjects, Zenon DEF SecretLeft, PolicyLeft, PodLeft, Kinds
<1>6. KubeType'
  BY <1>3, <1>4, <1>5, Zenon DEF KubeType, Rows, Kinds
<1>7. Alone(s)
  BY <1>3, <1>4, <1>5, Zenon DEF KubeType, Alone
<1>8. SecretLeft(s)' /\ PolicyLeft(s)' /\ PodLeft(s)'
  BY <1>2, <1>3, <1>5, Zenon DEF ObjectInv, StepInv
<1>9. kpc'[s] = "idle"
  BY <1>3, <1>4, Zenon DEF KubeType
<1>10. StepInv(s)' /\ DeleteInv(s)'
  BY <1>8, <1>9, Zenon DEF StepInv, DeleteInv
<1>11. ObjectInv'
  BY <1>3, <1>7, <1>9, <1>10, SessionStep, Zenon
<1> QED BY <1>6, <1>11 DEF KubeInv

\* The steps of Materialize, in their order: Secret, NetworkPolicy, Pod.
LEMMA CreateKeeps ==
    ASSUME KubeInv, NEW s \in Sessions,
           \/ \E storage \in BOOLEAN : KubeCreateStart(s, storage)
           \/ CreateSecret(s) \/ CreateNetworkPolicy(s) \/ CreatePod(s)
           \/ WaitReady(s) \/ KubeCommit(s)
    PROVE  KubeInv'
<1>1. KubeType /\ ObjectInv
  BY Zenon DEF KubeInv
<1>2. StepInv(s) /\ DeleteInv(s)
  BY <1>1, Zenon DEF ObjectInv
<1>3. ASSUME NEW storage \in BOOLEAN, KubeCreateStart(s, storage) PROVE KubeInv'
  <2>1. /\ kphase = "up" /\ kpc[s] = "idle"
        /\ krow' = [krow EXCEPT ![s] = "RESERVED"] /\ kpc' = [kpc EXCEPT ![s] = "secret"]
        /\ bound' \in {bound, bound \cup {s}}
        /\ UNCHANGED <<secret, policy, pod, kleft, failed, kdaemonVars>>
    BY <1>3, Zenon DEF KubeCreateStart, KGoto, objectVars
  <2>2. KubeType'
    BY <1>1, <2>1, Zenon DEF KubeType, Rows, CreateSteps, kdaemonVars
  <2>3. Alone(s) /\ kpc'[s] = "secret"
    BY <1>1, <2>1, Zenon DEF KubeType, Alone
  <2>4. StepInv(s)' /\ DeleteInv(s)'
    BY <1>2, <2>1, <2>3, Zenon DEF StepInv, DeleteInv, SecretLeft, PolicyLeft, PodLeft
  <2>5. ObjectInv'
    BY <1>1, <2>1, <2>3, <2>4, SessionStep, Zenon
  <2> QED BY <2>2, <2>5 DEF KubeInv
<1>4. ASSUME kpc[s] = "secret", secret' = secret \cup {s}, KGoto(s, "policy"),
             UNCHANGED <<policy, pod, kleft, krow>>, UNCHANGED <<bound, failed, kdaemonVars>>
      PROVE  KubeInv'
  <2>1. KubeType'
    BY <1>1, <1>4, Zenon DEF KubeType, CreateSteps, kdaemonVars, KGoto
  <2>2. Alone(s) /\ kpc'[s] = "policy"
    BY <1>1, <1>4, Zenon DEF KubeType, Alone, KGoto
  <2>3. StepInv(s)' /\ DeleteInv(s)'
    BY <1>2, <1>4, <2>2, Zenon DEF StepInv, DeleteInv, PolicyLeft, PodLeft
  <2>4. kphase = "up"
    BY <1>4, CreatingUp, Zenon DEF CreateSteps
  <2>5. ObjectInv'
    BY <1>1, <1>4, <2>2, <2>3, <2>4, SessionStep, Zenon
  <2> QED BY <2>1, <2>5 DEF KubeInv
<1>5. ASSUME kpc[s] = "policy", policy' = policy \cup {s}, KGoto(s, "pod"),
             UNCHANGED <<secret, pod, kleft, krow>>, UNCHANGED <<bound, failed, kdaemonVars>>
      PROVE  KubeInv'
  <2>1. KubeType'
    BY <1>1, <1>5, Zenon DEF KubeType, CreateSteps, kdaemonVars, KGoto
  <2>2. Alone(s) /\ kpc'[s] = "pod"
    BY <1>1, <1>5, Zenon DEF KubeType, Alone, KGoto
  <2>3. StepInv(s)' /\ DeleteInv(s)'
    BY <1>2, <1>5, <2>2, Zenon DEF StepInv, DeleteInv, PodLeft
  <2>4. kphase = "up"
    BY <1>5, CreatingUp, Zenon DEF CreateSteps
  <2>5. ObjectInv'
    BY <1>1, <1>5, <2>2, <2>3, <2>4, SessionStep, Zenon
  <2> QED BY <2>1, <2>5 DEF KubeInv
<1>6. ASSUME kpc[s] = "pod", KGoto(s, "wait"),
             pod' = [pod EXCEPT ![s] = IF @ = "none" THEN "pending" ELSE @],
             UNCHANGED <<secret, policy, kleft, krow>>, UNCHANGED <<bound, failed, kdaemonVars>>
      PROVE  KubeInv'
  <2>1. KubeType'
    BY <1>1, <1>6, Zenon DEF KubeType, CreateSteps, Pods, kdaemonVars, KGoto
  <2>2. Alone(s) /\ kpc'[s] = "wait"
    BY <1>1, <1>6, Zenon DEF KubeType, Alone, KGoto
  <2>3. StepInv(s)' /\ DeleteInv(s)'
    BY <1>2, <1>6, <2>2, Zenon DEF StepInv, DeleteInv
  <2>4. kphase = "up"
    BY <1>6, CreatingUp, Zenon DEF CreateSteps
  <2>5. ObjectInv'
    BY <1>1, <1>6, <2>2, <2>3, <2>4, SessionStep, Zenon
  <2> QED BY <2>1, <2>5 DEF KubeInv
<1>7. ASSUME NEW to \in {"mark", "live", "revoke"}, kpc[s] \in {"wait", "mark"}, KGoto(s, to),
             krow' = krow \/ krow' = [krow EXCEPT ![s] = "ACTIVE"],
             UNCHANGED <<secret, policy, pod, kleft>>, UNCHANGED <<bound, failed, kdaemonVars>>
      PROVE  KubeInv'
  <2>1. KubeType'
    BY <1>1, <1>7, Zenon DEF KubeType, CreateSteps, FinalizerSteps, Rows, kdaemonVars,
       KGoto
  <2>2. Alone(s) /\ kpc'[s] = to
    BY <1>1, <1>7, Zenon DEF KubeType, Alone, KGoto
  <2>3. StepInv(s)' /\ DeleteInv(s)' /\ s \in policy'
    BY <1>2, <1>7, <2>2, Zenon DEF StepInv, DeleteInv
  <2>4. kphase = "up"
    BY <1>7, CreatingUp, Zenon DEF CreateSteps
  <2>5. ObjectInv'
    BY <1>1, <1>7, <2>2, <2>3, <2>4, SessionStep, Zenon
  <2> QED BY <2>1, <2>5 DEF KubeInv
<1>8. CASE CreateSecret(s)
  BY <1>4, <1>8, RollbackKeeps, Zenon DEF CreateSecret
<1>9. CASE CreateNetworkPolicy(s)
  BY <1>5, <1>9, RollbackKeeps, Zenon DEF CreateNetworkPolicy
<1>10. CASE CreatePod(s)
  BY <1>6, <1>10, RollbackKeeps, Zenon DEF CreatePod
<1>11. CASE WaitReady(s)
  BY <1>7, <1>11, RollbackKeeps, Zenon DEF WaitReady, objectVars
<1>12. CASE KubeCommit(s)
  BY <1>7, <1>12, Zenon DEF KubeCommit, objectVars
<1> QED BY <1>3, <1>8, <1>9, <1>10, <1>11, <1>12
-----------------------------------------------------------------------------
\* A step of the finalizer deletes its object or records it as left, and keeps
\* what the earlier steps achieved.
LEMMA FinalizerStepKeeps ==
    ASSUME KubeInv, NEW s \in Sessions,
           NEW x \in {<<"dropEgress", "policy", "killPod">>,
                      <<"killPod", "pod", "deleteSecret">>,
                      <<"deleteSecret", "secret", "finish">>},
           FinalizerStep(s, x[1], x[2], x[3])
    PROVE  KubeInv'
<1> DEFINE at == x[1]
           kind == x[2]
           next == x[3]
<1>1. \/ at = "dropEgress" /\ kind = "policy" /\ next = "killPod"
      \/ at = "killPod" /\ kind = "pod" /\ next = "deleteSecret"
      \/ at = "deleteSecret" /\ kind = "secret" /\ next = "finish"
  OBVIOUS
<1>2. FinalizerStep(s, at, kind, next)
  BY Zenon
<1> HIDE DEF at, kind, next
<1>3. PICK lost \in SUBSET {kind} :
           /\ Deleted(s, {kind}, lost)
           /\ failed' = IF lost = {} THEN failed ELSE failed \cup {s}
  BY <1>2, Zenon DEF FinalizerStep
<1>4. /\ kpc[s] = at /\ kpc' = [kpc EXCEPT ![s] = next]
      /\ UNCHANGED <<bound, krow, cluster, kphase, ktodo, kkept, kcrashes>>
      /\ UNCHANGED kdaemonVars
  BY <1>2, Zenon DEF FinalizerStep, KGoto, kdaemonVars
<1>5. KubeType /\ ObjectInv /\ StepInv(s) /\ DeleteInv(s)
  BY Zenon DEF KubeInv, ObjectInv
<1>6. {kind} \in SUBSET Kinds
  BY <1>1, Zenon DEF Kinds
<1>7. /\ secret' \subseteq Sessions /\ policy' \subseteq Sessions
      /\ pod' \in [Sessions -> Pods]
      /\ kleft' \subseteq Kinds \X Sessions
      /\ kind = "secret" => SecretLeft(s)'
      /\ kind = "policy" => PolicyLeft(s)'
      /\ kind = "pod" => PodLeft(s)'
      /\ kind # "secret" /\ SecretLeft(s) => SecretLeft(s)'
      /\ kind # "policy" /\ PolicyLeft(s) => PolicyLeft(s)'
      /\ kind # "pod" /\ PodLeft(s) => PodLeft(s)'
      /\ pod[s] \in Gone => pod'[s] \in Gone
      /\ \A t \in Sessions \ {s} :
                /\ t \in secret' <=> t \in secret
                /\ t \in policy' <=> t \in policy
                /\ pod'[t] = pod[t]
                /\ \A k \in Kinds : <<k, t>> \in kleft' <=> <<k, t>> \in kleft
  BY <1>3, <1>5, <1>6, DeletedObjects, Zenon DEF SecretLeft, PolicyLeft, PodLeft, Kinds
<1>8. /\ lost = {} => /\ kind = "secret" => s \notin secret'
                      /\ kind = "policy" => s \notin policy'
                      /\ kind = "pod" => pod'[s] \in Gone
      /\ "delete" \notin cluster.faults => lost = {}
      /\ kind # "policy" /\ s \notin policy => s \notin policy'
  BY <1>3, <1>5, <1>6, DeletedObjects, Zenon DEF Kinds
<1>9. KubeType'
  BY <1>1, <1>3, <1>4, <1>5, <1>7, Zenon DEF KubeType, FinalizerSteps, Kinds
<1>10. Alone(s)
  BY <1>3, <1>4, <1>5, <1>7, Zenon DEF KubeType, Alone
<1>11. kpc'[s] = next
  BY <1>4, <1>5, Zenon DEF KubeType
<1>12. StepInv(s)'
  BY <1>1, <1>4, <1>5, <1>7, <1>11, Zenon DEF StepInv
<1>13. DeleteInv(s)'
  BY <1>1, <1>3, <1>4, <1>5, <1>7, <1>8, <1>11, Zenon DEF DeleteInv
<1>14. /\ kpc[s] \in FinalizerSteps /\ kpc'[s] \in FinalizerSteps
       /\ kpc'[s] # "live"
  BY <1>1, <1>4, <1>11, Zenon DEF FinalizerSteps
<1>15. ObjectInv'
  BY <1>4, <1>5, <1>7, <1>10, <1>12, <1>13, <1>14, SessionStep, Zenon
<1> QED BY <1>9, <1>15 DEF KubeInv

\* Destroy starts a finalizer and the revoke is its first step; neither touches
\* an object.
LEMMA RevokeKeeps ==
    ASSUME KubeInv, NEW s \in Sessions, KubeDestroy(s) \/ RevokeJWT(s)
    PROVE  KubeInv'
<1>1. KubeType /\ ObjectInv /\ StepInv(s) /\ DeleteInv(s)
  BY Zenon DEF KubeInv, ObjectInv
<1>2. /\ \/ kphase = "up" /\ kpc[s] = "live" /\ kpc' = [kpc EXCEPT ![s] = "revoke"]
         \/ kpc[s] = "revoke" /\ kpc' = [kpc EXCEPT ![s] = "dropEgress"]
      /\ failed' \in {failed, failed \cup {s}}
      /\ UNCHANGED <<secret, policy, pod, kleft, bound, krow>>
      /\ UNCHANGED <<cluster, kphase, ktodo, kkept, kcrashes>>
      /\ UNCHANGED kdaemonVars
  BY Zenon DEF KubeDestroy, RevokeJWT, KGoto, objectVars, kdaemonVars
<1>3. KubeType'
  BY <1>1, <1>2, Zenon DEF KubeType, FinalizerSteps
<1>4. Alone(s) /\ kpc'[s] \in {"revoke", "dropEgress"}
  BY <1>1, <1>2, Zenon DEF KubeType, Alone
<1>5. StepInv(s)' /\ DeleteInv(s)'
  BY <1>4, Zenon DEF StepInv, DeleteInv
<1>6. ObjectInv'
  BY <1>1, <1>2, <1>4, <1>5, SessionStep, Zenon DEF FinalizerSteps
<1> QED BY <1>3, <1>6 DEF KubeInv

\* The end of a finalizer run: its objects are gone or left, so the session may
\* be over; in the sweep the next listed pod is due, or the boot is abandoned.
LEMMA FinishKeeps ==
    ASSUME KubeInv, NEW s \in Sessions, FinishTeardown(s)
    PROVE  KubeInv'
<1>1. KubeType /\ ObjectInv /\ StepInv(s) /\ DeleteInv(s) /\ DownInv /\ FreshInv
  BY Zenon DEF KubeInv, ObjectInv
<1>2. /\ kpc[s] = "finish" /\ failed' = failed \ {s}
      /\ UNCHANGED <<secret, policy, pod, kleft, bound, cluster, kcrashes>>
  BY Zenon DEF FinishTeardown, objectVars
<1>3. SecretLeft(s) /\ PolicyLeft(s) /\ PodLeft(s)
  BY <1>1, <1>2, Zenon DEF StepInv
<1>4. CASE kphase # "sweep"
  <2>1. \/ kpc' = [kpc EXCEPT ![s] = "live"] /\ krow' = krow
        \/ kpc' = [kpc EXCEPT ![s] = "idle"] /\ krow' = [krow EXCEPT ![s] = "none"]
    BY <1>4, Zenon DEF FinishTeardown, KGoto
  <2>2. UNCHANGED <<kphase, ktodo, kkept>>
    BY <1>4, Zenon DEF FinishTeardown
  <2>3. kphase = "up"
    BY <1>1, <1>2, <1>4, Zenon DEF KubeType, DownInv, Settled
  <2>4. KubeType'
    BY <1>1, <1>2, <2>1, <2>2, Zenon DEF KubeType, Rows
  <2>5. Alone(s) /\ kpc'[s] \in {"idle", "live"}
    BY <1>1, <1>2, <2>1, Zenon DEF KubeType, Alone
  <2>6. StepInv(s)' /\ DeleteInv(s)'
    BY <1>2, <1>3, <2>5, Zenon DEF StepInv, DeleteInv, SecretLeft, PolicyLeft, PodLeft
  <2>7. "delete" \notin cluster.faults => pod'[s] \notin {"pending", "ready"}
    BY <1>1, <1>2, Zenon DEF DeleteInv, Gone
  <2>8. ObjectInv'
    BY <1>1, <1>2, <2>2, <2>3, <2>5, <2>6, <2>7, SessionStep, Zenon DEF kdaemonVars
  <2> QED BY <2>4, <2>8 DEF KubeInv
<1>5. CASE kphase = "sweep"
  <2>1. /\ kpc' = [kpc EXCEPT ![s] = "idle"] /\ krow' = krow
        /\ \/ s \in failed /\ kphase' = "down" /\ ktodo' = {} /\ kkept' = {}
           \/ s \notin failed /\ ktodo' = ktodo \ {s} /\ UNCHANGED <<kphase, kkept>>
    BY <1>5, Zenon DEF FinishTeardown, KGoto
  <2>2. KubeType'
    BY <1>1, <1>2, <2>1, Zenon DEF KubeType
  <2>3. Alone(s) /\ kpc'[s] = "idle"
    BY <1>1, <1>2, <2>1, Zenon DEF KubeType, Alone
  <2>4. kphase' # "up"
    BY <1>5, <2>1, Zenon
  <2>5. StepInv(s)' /\ DeleteInv(s)'
    BY <2>3, <2>4, Zenon DEF StepInv, DeleteInv
  <2>6. \A t \in Sessions : StepInv(t)' /\ DeleteInv(t)'
    BY <1>1, <1>2, <2>3, <2>4, <2>5, OthersStand, Zenon
  <2>7. kcrashes # 0
    BY <1>1, <1>2, <1>5, Zenon DEF FreshInv
  <2>8. FreshInv'
    BY <1>2, <2>7, Zenon DEF FreshInv
  <2>9. \A t \in Sessions \ {s} : kpc'[t] = kpc[t] /\ kpc[t] \in Settled
    BY <1>1, <1>2, <1>5, <2>3, Zenon DEF DownInv, Alone, FinalizerSteps
  <2>10. \A t \in Sessions : /\ kpc'[t] \in Settled
                             /\ pod'[t] \in Gone => SecretLeft(t)' /\ PolicyLeft(t)'
    BY <1>1, <1>2, <1>3, <1>5, <2>3, <2>9, Zenon DEF DownInv, Settled, SecretLeft,
       PolicyLeft
  <2>11. kphase' = "sweep" => /\ \A t \in Sessions : t \notin ktodo' \cup kkept' => pod'[t] \in Gone
                              /\ \A t \in kkept' : krow'[t] # "none"
    BY <1>1, <1>2, <1>5, <2>1, Zenon DEF DownInv, DeleteInv
  <2>12. DownInv'
    BY <2>4, <2>10, <2>11, Zenon DEF DownInv, Settled, FinalizerSteps
  <2> QED BY <2>2, <2>6, <2>8, <2>12 DEF KubeInv, ObjectInv
<1> QED BY <1>4, <1>5
-----------------------------------------------------------------------------
\* A pod the kubelet starts, ends or removes was created and, once its delete
\* was accepted, does not come back.
LEMMA PodKeeps ==
    ASSUME KubeInv, NEW s \in Sessions, PodReady(s) \/ PodEnds(s)
    PROVE  KubeInv'
<1>1. KubeType /\ ObjectInv /\ StepInv(s) /\ DeleteInv(s)
  BY Zenon DEF KubeInv, ObjectInv
<1>2. /\ UNCHANGED <<secret, policy, kleft, bound, kpc, krow, failed, kdaemonVars>>
      /\ UNCHANGED <<cluster, kphase, ktodo, kkept, kcrashes>>
  BY Zenon DEF PodReady, PodEnds, kdaemonVars
<1>3. /\ pod' \in [Sessions -> Pods]
      /\ \A t \in Sessions \ {s} : pod'[t] = pod[t]
      /\ pod[s] # "none"
      /\ pod[s] \in Gone <=> pod'[s] \in Gone
      /\ pod'[s] \in {"pending", "ready"} => pod[s] \in {"pending", "ready"}
  BY <1>1, Zenon DEF PodReady, PodEnds, KubeType, Pods, Gone
<1>4. KubeType'
  BY <1>1, <1>2, <1>3, Zenon DEF KubeType
<1>5. Alone(s)
  BY <1>2, <1>3, Zenon DEF Alone
<1>6. StepInv(s)' /\ DeleteInv(s)'
  BY <1>1, <1>2, <1>3, Zenon DEF StepInv, DeleteInv, SecretLeft, PolicyLeft, PodLeft
<1>7. kcrashes = 0 /\ "delete" \notin cluster.faults /\ kpc'[s] = "live"
        /\ pod'[s] \in {"pending", "ready"} => s \in policy'
  BY <1>1, <1>2, <1>3, Zenon DEF ObjectInv, FreshInv
<1>8. ObjectInv'
  BY <1>1, <1>2, <1>3, <1>5, <1>6, <1>7, SessionStep, Zenon
<1> QED BY <1>4, <1>8 DEF KubeInv

\* A crash ends every call; what has no pod then is listed by no sweep, so it
\* counts as left.
LEMMA CrashKeeps == ASSUME KubeInv, KubeCrash PROVE KubeInv'
<1>1. KubeType /\ ObjectInv
  BY Zenon DEF KubeInv
<1>2. /\ kcrashes < cluster.crashes /\ kcrashes' = kcrashes + 1
      /\ kphase' = "down" /\ ktodo' = {} /\ kkept' = {} /\ bound' = {} /\ failed' = {}
      /\ kpc' = [s \in Sessions |-> IF krow[s] = "ACTIVE" THEN "live" ELSE "idle"]
      /\ UNCHANGED <<secret, policy, pod, krow, cluster>>
  BY Zenon DEF KubeCrash
<1>3. kleft' = kleft \cup UNION {{<<"secret", s>>, <<"policy", s>>} :
                                  s \in {x \in Sessions : pod[x] \in Gone}}
  BY Zenon DEF KubeCrash, Gone
<1>4. kleft' \subseteq {"secret", "policy", "pod"} \X Sessions
  BY <1>1, <1>3 DEF KubeType
<1>5. kcrashes' \in 0 .. cluster'.crashes
  BY <1>1, <1>2 DEF KubeType, ClusterType
<1>6. \A s \in Sessions : kpc'[s] \in Settled
  BY <1>2, Zenon DEF Settled
<1>7. KubeType'
  <2>1. kpc' \in [Sessions -> {"idle", "live"}]
    BY <1>2, Zenon
  <2> QED BY <1>1, <1>2, <1>4, <1>5, <2>1 DEF KubeType
<1>8. \A s \in Sessions : pod[s] \in Gone => <<"secret", s>> \in kleft' /\ <<"policy", s>> \in kleft'
  BY <1>3
<1>9. \A s \in Sessions : StepInv(s)' /\ DeleteInv(s)'
  BY <1>2, <1>6, Zenon DEF StepInv, DeleteInv, Settled
<1>10. DownInv'
  BY <1>2, <1>6, <1>8, Zenon DEF DownInv, SecretLeft, PolicyLeft
<1>11. kcrashes' # 0
  BY <1>1, <1>2 DEF KubeType, ClusterType
<1>12. FreshInv'
  BY <1>11, Zenon DEF FreshInv
<1> QED BY <1>7, <1>9, <1>10, <1>12 DEF KubeInv, ObjectInv

\* The boot sweep (Reconcile over List): every pod is on one of its two lists,
\* the listed pods are finalized one after the other, and the daemon serves
\* when none is left.
LEMMA BootKeeps ==
    ASSUME KubeInv, \/ KubeBootList \/ KubeBootEnd
                    \/ \E s \in Sessions : KubeBootKill(s)
    PROVE  KubeInv'
<1>1. KubeType /\ ObjectInv /\ DownInv /\ FreshInv
  BY Zenon DEF KubeInv, ObjectInv
<1>2. \A s \in Sessions : StepInv(s) /\ DeleteInv(s)
  BY <1>1, Zenon DEF ObjectInv
<1>3. CASE KubeBootList
  <2>1. /\ kphase = "down" /\ kphase' = "sweep"
        /\ UNCHANGED <<secret, policy, pod, kleft, bound, kpc, krow, failed, cluster, kcrashes>>
    BY <1>3, Zenon DEF KubeBootList, objectVars
  <2>2. /\ ktodo' \subseteq Sessions /\ kkept' \subseteq Sessions
        /\ \A s \in Sessions : s \notin ktodo' \cup kkept' => pod[s] = "none"
        /\ \A s \in kkept' : krow[s] # "none"
        /\ \A s \in ktodo' \cup kkept' : pod[s] # "none"
    BY <1>3, Zenon DEF KubeBootList, KubeLiveRows
  <2>3. KubeType'
    BY <1>1, <2>1, <2>2, Zenon DEF KubeType
  <2>4. \A s \in Sessions : StepInv(s)' /\ DeleteInv(s)'
    BY <1>2, <2>1, Zenon DEF StepInv, DeleteInv, SecretLeft, PolicyLeft, PodLeft
  <2>5. \A s \in Sessions : kpc'[s] \in Settled
    BY <1>1, <2>1, Zenon DEF DownInv
  <2>6. DownInv'
    BY <1>1, <2>1, <2>2, <2>5, Zenon DEF DownInv, SecretLeft, PolicyLeft, Gone, Settled,
       FinalizerSteps
  <2>7. FreshInv'
    BY <1>1, <2>1, <2>2, Zenon DEF FreshInv
  <2> QED BY <2>3, <2>4, <2>6, <2>7 DEF KubeInv, ObjectInv
<1>4. ASSUME NEW s \in Sessions, KubeBootKill(s) PROVE KubeInv'
  <2>1. /\ kphase = "sweep" /\ s \in ktodo /\ kpc' = [kpc EXCEPT ![s] = "revoke"]
        /\ \A t \in Sessions : kpc[t] \notin FinalizerSteps
        /\ UNCHANGED <<secret, policy, pod, kleft, bound, krow, failed>>
        /\ UNCHANGED <<cluster, kphase, ktodo, kkept, kcrashes>>
    BY <1>4, Zenon DEF KubeBootKill, objectVars, kdaemonVars, KGoto
  <2>2. KubeType'
    BY <1>1, <2>1, Zenon DEF KubeType, FinalizerSteps
  <2>3. Alone(s) /\ kpc'[s] = "revoke"
    BY <1>1, <2>1, Zenon DEF KubeType, Alone
  <2>4. StepInv(s)' /\ DeleteInv(s)'
    BY <2>3, Zenon DEF StepInv, DeleteInv
  <2>5. \A t \in Sessions : StepInv(t)' /\ DeleteInv(t)'
    BY <1>1, <2>1, <2>3, <2>4, OthersStand, Zenon
  <2>6. \A t \in Sessions \ {s} : kpc'[t] = kpc[t]
    BY <2>3, Zenon DEF Alone
  <2>7. DownInv'
    BY <1>1, <2>1, <2>3, <2>6 DEF DownInv, SecretLeft, PolicyLeft, Settled, FinalizerSteps
  <2>8. FreshInv'
    BY <1>1, <2>1, Zenon DEF FreshInv
  <2> QED BY <2>2, <2>5, <2>7, <2>8 DEF KubeInv, ObjectInv
<1>5. CASE KubeBootEnd
  <2>1. /\ kphase = "sweep" /\ ktodo = {} /\ kphase' = "up" /\ kkept' = {}
        /\ krow' = [s \in Sessions |-> IF s \in kkept THEN krow[s] ELSE "none"]
        /\ kpc' = [s \in Sessions |-> IF s \in kkept THEN "live" ELSE "idle"]
        /\ UNCHANGED <<secret, policy, pod, kleft, bound, failed, ktodo, cluster, kcrashes>>
    BY <1>5, Zenon DEF KubeBootEnd, objectVars
  <2>2. /\ kpc' \in [Sessions -> {"idle", "live"}] /\ krow' \in [Sessions -> Rows]
    BY <1>1, <2>1, Zenon DEF KubeType, Rows
  <2>3. KubeType'
    BY <1>1, <2>1, <2>2, Zenon DEF KubeType
  <2>4. \A s \in Sessions : /\ kpc[s] \in Settled
                            /\ s \notin kkept => pod[s] \in Gone
    BY <1>1, <2>1, Zenon DEF DownInv
  <2>5. \A s \in Sessions : s \notin kkept => SecretLeft(s) /\ PolicyLeft(s) /\ PodLeft(s)
    BY <1>1, <2>1, <2>4, Zenon DEF DownInv, PodLeft
  <2>6. \A s \in Sessions : kpc'[s] \in Settled /\ (kpc'[s] = "idle" => s \notin kkept)
    BY <2>1, Zenon DEF Settled
  <2>7. \A s \in Sessions : StepInv(s)' /\ DeleteInv(s)'
    BY <2>1, <2>5, <2>6, Zenon DEF StepInv, DeleteInv, SecretLeft, PolicyLeft, PodLeft,
       Settled
  <2>8. DownInv' /\ FreshInv'
    BY <1>1, <2>1, Zenon DEF DownInv, FreshInv
  <2> QED BY <2>3, <2>7, <2>8 DEF KubeInv, ObjectInv
<1> QED BY <1>3, <1>4, <1>5

\* Every step of the provider keeps the invariant.
LEMMA KubeInvStep == ASSUME KubeInv, [KubeNext]_kubeVars PROVE KubeInv'
<1>1. CASE UNCHANGED kubeVars
  <2>1. UNCHANGED <<secret, policy, pod, kleft, bound, kpc, krow, failed>>
    BY <1>1, Zenon DEF kubeVars, objectVars
  <2>2. UNCHANGED <<cluster, kphase, ktodo, kkept, kcrashes>>
    BY <1>1, Zenon DEF kubeVars, kdaemonVars
  <2>3. KubeType'
    BY <2>1, <2>2, Zenon DEF KubeInv, KubeType
  <2>4. \A s \in Sessions : StepInv(s)' /\ DeleteInv(s)'
    BY <2>1, <2>2, Zenon DEF KubeInv, ObjectInv, StepInv, DeleteInv, SecretLeft,
       PolicyLeft, PodLeft
  <2>5. DownInv' /\ FreshInv'
    BY <2>1, <2>2, Zenon DEF KubeInv, ObjectInv, DownInv, FreshInv, SecretLeft,
       PolicyLeft
  <2> QED BY <2>3, <2>4, <2>5 DEF KubeInv, ObjectInv
<1>2. ASSUME NEW s \in Sessions, DropEgress(s) PROVE KubeInv'
  BY <1>2, FinalizerStepKeeps, Zenon DEF DropEgress
<1>3. ASSUME NEW s \in Sessions, KillPod(s) PROVE KubeInv'
  BY <1>3, FinalizerStepKeeps, Zenon DEF KillPod
<1>4. ASSUME NEW s \in Sessions, DeleteHandoffSecret(s) PROVE KubeInv'
  BY <1>4, FinalizerStepKeeps, Zenon DEF DeleteHandoffSecret
<1>5. ASSUME NEW s \in Sessions, KubeStep(s) PROVE KubeInv'
  BY <1>2, <1>3, <1>4, <1>5, CreateKeeps, RevokeKeeps, FinishKeeps, Zenon DEF KubeStep
<1> QED BY <1>1, <1>5, CreateKeeps, RevokeKeeps, PodKeeps, CrashKeeps, BootKeeps DEF KubeNext

\* The first boot finds an empty cluster.
LEMMA KubeInitInv == KubeInit => KubeInv
<1> SUFFICES ASSUME KubeInit PROVE KubeInv
  BY Zenon
<1>1. cluster \in ClusterType
  BY ClustersAssumption, Zenon DEF KubeInit
<1>2. KubeType
  BY <1>1 DEF KubeInit, KubeType, ClusterType, Pods, Rows
<1>3. \A s \in Sessions : pod[s] = "none" /\ kpc[s] = "idle"
  BY Zenon DEF KubeInit
<1>4. \A s \in Sessions : StepInv(s) /\ DeleteInv(s)
  BY <1>3, Zenon DEF KubeInit, StepInv, DeleteInv, SecretLeft, PolicyLeft, PodLeft, Gone
<1>5. DownInv /\ FreshInv
  BY <1>3, Zenon DEF KubeInit, DownInv, FreshInv, SecretLeft, PolicyLeft, Settled
<1> QED BY <1>2, <1>4, <1>5 DEF KubeInv, ObjectInv

\* In every cluster of the provider, whatever fails and whenever it crashes, the
\* state keeps its types and the objects of a session follow its calls.
THEOREM KubeInvariant == KubeSpec => []KubeInv
<1>1. KubeInv /\ [KubeNext]_kubeVars => KubeInv'
  BY KubeInvStep, Zenon
<1> QED BY KubeInitInv, <1>1, PTL DEF KubeSpec

\* CreateNetworkPolicy comes before CreatePod in Materialize: for any number of
\* sessions a pod of a running create, or of a session that was never half torn
\* down, stands behind its deny-all policy.
THEOREM PodsFenced == KubeSpec => []PodFenced
<1>1. KubeInv => PodFenced
  <2> SUFFICES ASSUME KubeInv PROVE PodFenced
    BY Zenon
  <2> QED BY DEF KubeInv, ObjectInv, StepInv, FreshInv, PodFenced
<1> QED BY <1>1, KubeInvariant, PTL

\* The rollback of Materialize and the finalizer are complete: for any number of
\* sessions, what stands of one that is over is what a failed delete or a crash
\* left, and no failing step of a finalizer keeps another from its delete.
THEOREM TeardownComplete == KubeSpec => []ObjectsGone
<1>1. KubeInv => ObjectsGone
  <2> SUFFICES ASSUME KubeInv PROVE ObjectsGone
    BY Zenon
  <2>1. ObjectsAccounted
    BY Zenon DEF KubeInv, ObjectInv, StepInv, ObjectsAccounted, SecretLeft, PolicyLeft,
       PodLeft, Gone
  <2>2. NeverShortCircuits
    BY Zenon DEF KubeInv, ObjectInv, DeleteInv, NeverShortCircuits, Gone
  <2> QED BY <2>1, <2>2 DEF ObjectsGone
<1> QED BY <1>1, KubeInvariant, PTL

\* The boot sweep of the Kubernetes provider: when it ends, the rows left are
\* those of the pods listed alive, and no other pod stands.
THEOREM KubeSweepAgrees == KubeSpec => KubeBootAgrees
<1>1. ASSUME KubeInv, [KubeNext]_kubeVars, kphase = "sweep", kphase' = "up", NEW s \in Sessions
      PROVE  /\ krow'[s] # "none" <=> s \in kkept
             /\ krow'[s] = "none" => pod[s] \in {"none", "ending"}
  <2>1. KubeBootEnd
    <3>1. kphase' # kphase
      BY <1>1, Zenon
    <3>2. ~(UNCHANGED kubeVars \/ UNCHANGED kdaemonVars)
      BY <3>1, Zenon DEF kubeVars, kdaemonVars
    <3>3. \A t \in Sessions : ~FinishTeardown(t)
      BY <1>1, Zenon DEF FinishTeardown
    <3>4. ~KubeCrash /\ ~KubeBootList
      BY <1>1, Zenon DEF KubeCrash, KubeBootList
    <3>5. ASSUME NEW t \in Sessions, KubeStep(t) PROVE FALSE
      BY <3>2, <3>3, <3>5, Zenon DEF KubeStep, CreateSecret, CreateNetworkPolicy,
         CreatePod, WaitReady, KubeCommit, RevokeJWT, DropEgress, KillPod,
         DeleteHandoffSecret, FinalizerStep
    <3>6. ASSUME NEW t \in Sessions,
                 \/ \E storage \in BOOLEAN : KubeCreateStart(t, storage)
                 \/ KubeDestroy(t) \/ PodReady(t) \/ PodEnds(t) \/ KubeBootKill(t)
          PROVE FALSE
      BY <3>2, <3>6, Zenon DEF KubeCreateStart, KubeDestroy, PodReady, PodEnds,
         KubeBootKill
    <3> QED BY <1>1, <3>2, <3>4, <3>5, <3>6 DEF KubeNext
  <2>2. /\ ktodo = {}
        /\ krow' = [t \in Sessions |-> IF t \in kkept THEN krow[t] ELSE "none"]
    BY <2>1, Zenon DEF KubeBootEnd
  <2>3. /\ s \notin kkept => pod[s] \in Gone
        /\ s \in kkept => krow[s] # "none"
    BY <1>1, <2>2, Zenon DEF KubeInv, ObjectInv, DownInv
  <2> QED BY <2>2, <2>3 DEF Gone
<1>2. KubeInv /\ [KubeNext]_kubeVars
        => [kphase = "sweep" /\ kphase' = "up" => \A s \in Sessions :
              /\ krow'[s] # "none" <=> s \in kkept
              /\ krow'[s] = "none" => pod[s] \in {"none", "ending"}]_kubeVars
  BY <1>1, Zenon
<1> QED BY <1>2, KubeInvariant, PTL DEF KubeSpec, KubeBootAgrees

=============================================================================
