----------------------------- MODULE DockerHost -----------------------------
(***************************************************************************)
(* What the Docker provider (internal/runtime/docker) and the handoff      *)
(* stager (internal/handoff) keep on the host: containers, per-session     *)
(* bridges and handoff roots, with the calls that change them and the      *)
(* ordered finalizer.  The daemon itself is external.                      *)
(***************************************************************************)
EXTENDS RuntimeSeam, Naturals, FiniteSets

CONSTANTS MaxUnits,  \* bound: pool units created in one life of the daemon
          MaxLost    \* bound: artifacts failed removals have left at one time

\* The n-th unit of the warm pool: its container and root are named
\* ocu-pool-n, which no session name is.
Units == 1 .. MaxUnits

\* Containers are identified by what they were created for; the
\* labelSessionName label is baked at create and equals that identity.
Ids == Sessions \cup Units

HostFaults == {"create", "remove", "files", "commit", "exit"}

ASSUME HostAssumption == /\ MaxUnits \in Nat
                         /\ Sessions \cap Units = {}
                         /\ Nobody \notin Ids
                         /\ MaxLost \in Nat

VARIABLES deploy,  \* the deployment: tier, shared egress network, signer, the
                   \* warmed profile, and what may happen to it: failing calls,
                   \* crashes, a Close of the pool
          box,     \* the container created for an identity
          bridge,  \* the sessions whose ocu-net bridge exists
          root,    \* the handoff root named after an identity
          stuck    \* history: what a failed removal or a crash left behind

hostVars == <<box, bridge, root, stuck>>

-----------------------------------------------------------------------------
(* What a container is created with. *)

\* dockerRuntimeForTier.
RuntimeForTier(tier, fuse) ==
    IF tier # "gvisor" THEN "default" ELSE IF fuse THEN "runsc-fuse" ELSE "runsc"

\* buildHostConfig, the fields that differ between sessions: capability and
\* device add-back, the extra host and the runtime follow the FUSE need.
HostConfig(fuse) == [sysAdmin |-> fuse,
                     edgeHost |-> fuse,
                     runtime |-> RuntimeForTier(deploy.tier, fuse)]

\* sessionNetwork.
SessionNetwork(fuse) == IF fuse /\ deploy.egress THEN "egress" ELSE "bridge"

\* buildContainerConfig: the guest argv names the mount's boot child exactly
\* when the mount-config path is set.
Container(name, fuse, net) ==
    [name |-> name, net |-> net, host |-> HostConfig(fuse), bootChild |-> fuse,
     run |-> "created", ident |-> Nobody]

Containers == [name : Ids, net : {"none", "bridge", "egress"},
               host : [sysAdmin : BOOLEAN, edgeHost : BOOLEAN,
                       runtime : {"default", "runsc", "runsc-fuse"}],
               bootChild : BOOLEAN,
               run : {"created", "running", "exited"}, ident : Ids \cup {Nobody}]

\* A root holds container_info naming who, the verify key of who, and the
\* mount-config of a storage session inside its sock directory.
Roots == [who : Ids, cfg : BOOLEAN]

Artifacts == ({"box", "root"} \X Ids) \cup ({"bridge"} \X Sessions)

Deployment == [tier : Tiers, egress : BOOLEAN, signer : BOOLEAN, warm : BOOLEAN,
               faults : SUBSET HostFaults, crashes : Nat, closes : BOOLEAN]

HostType == /\ deploy \in Deployment
            /\ \A i \in Ids : box[i] # Nobody => box[i] \in Containers
            /\ \A i \in Ids : root[i] # Nobody => root[i] \in Roots
            /\ DOMAIN box = Ids /\ DOMAIN root = Ids
            /\ bridge \subseteq Sessions
            /\ stuck \subseteq Artifacts

HostInit == /\ box = [i \in Ids |-> Nobody]
            /\ root = [i \in Ids |-> Nobody]
            /\ bridge = {}
            /\ stuck = {}

-----------------------------------------------------------------------------
(* Calls of the Docker daemon. *)

\* The container a name or an id resolves to, if any.
Named(n) == {i \in Ids : box[i] # Nobody /\ box[i].name = n}

ContainerCreate(i, fuse, net) ==
    /\ box[i] = Nobody /\ Named(i) = {}
    /\ box' = [box EXCEPT ![i] = Container(i, fuse, net)]

\* The guest reads its identity from the bound root once, as it boots.
ContainerStart(i) ==
    box' = [box EXCEPT ![i].run = "running",
                       ![i].ident = IF root[i] = Nobody THEN Nobody ELSE root[i].who]

NetworkCreate(s) == s \notin bridge /\ bridge' = bridge \cup {s}

\* A removal call on a set of artifacts: those in lost stay and are recorded.
Removed(gone, lost) ==
    /\ lost # {} => /\ "remove" \in deploy.faults
                    /\ Cardinality(stuck \cup lost) <= MaxLost
    /\ box' = [i \in Ids |-> IF <<"box", i>> \in gone \ lost THEN Nobody ELSE box[i]]
    /\ root' = [i \in Ids |-> IF <<"root", i>> \in gone \ lost THEN Nobody ELSE root[i]]
    /\ bridge' = {s \in bridge : <<"bridge", s>> \notin gone \ lost}
    /\ stuck' = (stuck \ (gone \ lost)) \cup lost

Boxes(I) == {<<"box", i>> : i \in {j \in I : box[j] # Nobody}}
RootsOf(I) == {<<"root", i>> : i \in {j \in I : root[j] # Nobody}}
Bridges(S) == {<<"bridge", s>> : s \in S \cap bridge}

-----------------------------------------------------------------------------
(* The handoff stager. *)

\* Stage: a fresh root, or nothing after a failed write (failClosed).  A file
\* already in the sock directory is not touched.
Stage(i) == root' = [root EXCEPT ![i] = [who |-> i,
                                         cfg |-> root[i] # Nobody /\ root[i].cfg]]
StageFails(i) == "files" \in deploy.faults /\ root' = [root EXCEPT ![i] = Nobody]

\* Mutant of ClaimSpecialize: the identity is written to a new file, which the
\* container bound to the old one does not see.
ClaimSpecializeElsewhere(u, s) == root[u] # Nobody /\ UNCHANGED root

\* overwriteInPlace: the same inode, so the bound container reads the new text.
OverwriteInPlace(u, s) == root' = [root EXCEPT ![u].who = s]

\* ClaimSpecialize: container_info and key of the unit's root.
ClaimSpecialize(u, s) == root[u] # Nobody /\ OverwriteInPlace(u, s)

\* StagePlaceholder: the unit's own name and a throwaway key.
StagePlaceholder(u) == Stage(u)

\* Push into and Scrub out of the sock directory: the mount-config file.
Push(r, fuse) == root' = [root EXCEPT ![r].cfg = @ \/ fuse]
Scrub(r) == root' = [root EXCEPT ![r] = IF @ = Nobody THEN @ ELSE [@ EXCEPT !.cfg = FALSE]]

-----------------------------------------------------------------------------
(* The finalizer behind GracefulStop and ForceKill. *)

\* What finalize removes for a handle: the recorded root and the root named
\* after the session (zeroTmpfs), the container the handle's runtime id names
\* (killContainer), the bridge of the session (removeNetwork).
FinalizerTargets(name, target, sock) ==
    Boxes(target) \cup RootsOf({name} \cup sock) \cup Bridges({name})

\* Every step runs whatever failed before it; a bridge with a running
\* container attached is refused by the daemon.  ok: no step failed.
Finalize(name, target, sock, ok) ==
    LET gone == FinalizerTargets(name, target, sock) IN
    \E lost \in SUBSET gone :
      /\ ok <=> lost = {}
      /\ \A i \in target : /\ <<"box", i>> \in lost
                           /\ box[i].run = "running" /\ box[i].net = "bridge"
                           /\ <<"bridge", name>> \in gone
                           => <<"bridge", name>> \in lost
      /\ Removed(gone, lost)
=============================================================================
