--------------------------- MODULE DockerProvider ---------------------------
(***************************************************************************)
(* Creates, unwinds, teardowns, crashes and boot sweeps of a deployment on *)
(* the Docker provider, one step per call to the Docker daemon: the        *)
(* handoff, push, materialize and commit stages of internal/lifecycle, the *)
(* cold Materialize and the warm Claim behind them, and the part of the    *)
(* boot sweep that lists containers by label.  Lifecycle takes all of this *)
(* as one step of its runtime provider.                                    *)
(***************************************************************************)
EXTENDS WarmPool

CONSTANTS Deployments  \* the deployments explored

VARIABLES pc,       \* the next step of a session's create or teardown
          wants,    \* the create asked for a storage mount
          unit,     \* the pool unit the create took
          claimed,  \* createState.claimAttempted
          row,      \* the session's row
          phase,    \* the daemon: down, sweeping or up
          todo,     \* the listed orphans the boot sweep has left
          kept,     \* the sessions whose running container it listed
          crashes

sessionVars == <<pc, wants, unit, claimed, row>>
daemonVars == <<phase, todo, kept, crashes, deploy>>
vars == <<hostVars, poolVars, sessionVars, daemonVars>>

ColdSteps == {"network", "create", "start"}
ClaimSteps == {"specialize", "rename", "attach", "connect", "boot"}
UnwindSteps == {"uDispose", "uKill", "uScrub", "uHandoff", "uPut", "uRelease"}
Steps == {"idle", "handoff", "receive", "stage", "push", "commit", "live"}
           \cup ColdSteps \cup ClaimSteps \cup UnwindSteps

TypeOK == /\ HostType /\ PoolType
          /\ pc \in [Sessions -> Steps]
          /\ wants \in [Sessions -> BOOLEAN]
          /\ unit \in [Sessions -> Units \cup {Nobody}]
          /\ claimed \in [Sessions -> BOOLEAN]
          /\ row \in [Sessions -> Rows]
          /\ phase \in {"down", "sweep", "up"}
          /\ todo \subseteq Ids /\ kept \subseteq Sessions
          /\ crashes \in 0 .. deploy.crashes

Init == /\ HostInit /\ PoolInit
        /\ deploy \in Deployments
        /\ pc = [s \in Sessions |-> "idle"]
        /\ wants = [s \in Sessions |-> FALSE]
        /\ unit = [s \in Sessions |-> Nobody]
        /\ claimed = [s \in Sessions |-> FALSE]
        /\ row = [s \in Sessions |-> "none"]
        /\ phase = "down" /\ todo = {} /\ kept = {} /\ crashes = 0

Goto(s, step) == pc' = [pc EXCEPT ![s] = step] /\ UNCHANGED <<wants, unit, claimed, row>>

\* A storage mount is minted, rendered and pushed only with a signer.
Fuse(s) == wants[s] /\ deploy.signer

\* The root the create's handoff lives in: the unit's, or the session's own.
RootOf(s) == IF unit[s] = Nobody THEN s ELSE unit[s]

-----------------------------------------------------------------------------
(* The handoff, mint and push stages. *)

CreateStart(s, storage) ==
    /\ phase = "up" /\ pc[s] = "idle" /\ row[s] = "none"
    /\ row' = [row EXCEPT ![s] = "RESERVED"]
    /\ wants' = [wants EXCEPT ![s] = storage]
    /\ pc' = [pc EXCEPT ![s] = "handoff"]
    /\ UNCHANGED <<unit, claimed, hostVars, poolVars, daemonVars>>

\* warmProfile: image and caps are the deployment's defaults here; the FUSE
\* bit decides whether the warmed profile is the session's.
WarmProfileMatches(s) == Fuse(s) = WarmFuse

\* stageStageHandoff: Pool.Get reads the pool's state first ...
StageStageHandoff(s) ==
    /\ pc[s] = "handoff"
    /\ Goto(s, IF Open /\ WarmProfileMatches(s) THEN "receive" ELSE "stage")
    /\ UNCHANGED <<hostVars, poolVars, daemonVars>>

\* ... then receives: a hit hands the unit to this create with its compensator.
PoolGet(s) ==
    /\ pc[s] = "receive"
    /\ \/ \E u \in Units : /\ Receive(u)
                           /\ unit' = [unit EXCEPT ![s] = u]
                           /\ pc' = [pc EXCEPT ![s] = "push"]
       \/ /\ ready = {}
          /\ pc' = [pc EXCEPT ![s] = "stage"]
          /\ UNCHANGED <<ready, unit>>
    /\ UNCHANGED <<wants, claimed, row, hostVars, closed, producer, made, seq, daemonVars>>

\* The cold path; a failed Stage leaves nothing and pushes nothing.
StageCold(s) ==
    /\ pc[s] = "stage"
    /\ \/ Stage(s) /\ Goto(s, "push") /\ UNCHANGED stuck
       \/ /\ StageFails(s) /\ Goto(s, "uRelease")
          /\ stuck' = stuck \ {<<"root", s>>}
    /\ UNCHANGED <<box, bridge, poolVars, daemonVars>>

\* stageMintStorageJWT and stageRenderPushMount: the mount-config lands in the
\* sock directory of the staged root; a session without storage skips both.
StageRenderPushMount(s) ==
    LET next == IF unit[s] = Nobody THEN "network" ELSE "specialize" IN
    /\ pc[s] = "push"
    /\ \/ /\ Push(RootOf(s), Fuse(s))
          /\ Goto(s, next)
       \/ /\ Fuse(s) /\ "files" \in deploy.faults
          /\ Goto(s, "uHandoff")
          /\ UNCHANGED root
    /\ UNCHANGED <<box, bridge, stuck, poolVars, daemonVars>>

-----------------------------------------------------------------------------
(* Materialize, cold. *)

\* validateSpec: a storage-scoped mount must come with its mount-config.
ValidSpec(s) == wants[s] => Fuse(s)

CallFails == "create" \in deploy.faults

\* The checks that make no call, then the bridge; a session on the shared
\* egress network has none of its own.
MaterializeNetwork(s) ==
    /\ pc[s] = "network"
    /\ \/ /\ ValidSpec(s) /\ deploy.tier # "firecracker"
          /\ IF SessionNetwork(Fuse(s)) = "bridge"
             THEN NetworkCreate(s)
             ELSE UNCHANGED bridge
          /\ Goto(s, "create")
       \/ /\ \/ ~ValidSpec(s) \/ deploy.tier = "firecracker" \/ CallFails
             \/ SessionNetwork(Fuse(s)) = "bridge" /\ s \in bridge
          /\ Goto(s, "uScrub")
          /\ UNCHANGED bridge
    /\ UNCHANGED <<box, root, stuck, poolVars, daemonVars>>

\* The failed call is followed by the rollback of what was created before it.
MaterializeCreate(s) ==
    /\ pc[s] = "create"
    /\ \/ /\ ContainerCreate(s, Fuse(s), SessionNetwork(Fuse(s)))
          /\ Goto(s, "start")
          /\ UNCHANGED <<bridge, root, stuck>>
       \/ /\ CallFails \/ Named(s) # {}
          /\ LET gone == IF SessionNetwork(Fuse(s)) = "bridge" THEN Bridges({s}) ELSE {} IN
             \E lost \in SUBSET gone : Removed(gone, lost)
          /\ Goto(s, "uScrub")
    /\ UNCHANGED <<poolVars, daemonVars>>

\* rollbackContainer then rollbackNetwork.
StartRollback(s) ==
    Boxes({s}) \cup (IF SessionNetwork(Fuse(s)) = "bridge" THEN Bridges({s}) ELSE {})

MaterializeStart(s) ==
    /\ pc[s] = "start"
    /\ \/ /\ ContainerStart(s)
          /\ Goto(s, "commit")
          /\ UNCHANGED <<bridge, root, stuck>>
       \/ /\ CallFails
          /\ \E lost \in SUBSET StartRollback(s) : Removed(StartRollback(s), lost)
          /\ Goto(s, "uScrub")
    /\ UNCHANGED <<poolVars, daemonVars>>

-----------------------------------------------------------------------------
(* Claim, warm.  A failed Claim is followed by a Dispose in the stage.      *)

ClaimFails(s) == Goto(s, "uDispose")

\* Claim specializes the handoff in place, before the guest can boot.
ClaimSpecializeStep(s) ==
    /\ pc[s] = "specialize"
    /\ claimed' = [claimed EXCEPT ![s] = TRUE]
    /\ \/ ClaimSpecialize(unit[s], s) /\ pc' = [pc EXCEPT ![s] = "rename"]
       \/ /\ "files" \in deploy.faults
          /\ pc' = [pc EXCEPT ![s] = "uDispose"]
          /\ UNCHANGED root
    /\ UNCHANGED <<wants, unit, row, box, bridge, stuck, poolVars, daemonVars>>

\* ContainerRename: refused while another container has the name.
ClaimRename(s) ==
    /\ pc[s] = "rename"
    /\ \/ /\ Named(s) = {}
          /\ box' = [box EXCEPT ![unit[s]].name = s]
          /\ Goto(s, "attach")
       \/ /\ CallFails \/ Named(s) # {}
          /\ ClaimFails(s)
          /\ UNCHANGED box
    /\ UNCHANGED <<bridge, root, stuck, poolVars, daemonVars>>

\* Mutant of ClaimAttach: the bridge is named after the placeholder.
ClaimAttachPlaceholder(s) ==
    /\ pc[s] = "attach"
    /\ NetworkCreate(unit[s]) /\ Goto(s, "connect")
    /\ UNCHANGED <<box, root, stuck, poolVars, daemonVars>>

\* The session's own bridge, as in the cold path.
ClaimAttach(s) ==
    /\ pc[s] = "attach"
    /\ \/ /\ IF SessionNetwork(WarmFuse) = "bridge"
             THEN NetworkCreate(s)
             ELSE UNCHANGED bridge
          /\ Goto(s, "connect")
       \/ /\ CallFails \/ (SessionNetwork(WarmFuse) = "bridge" /\ s \in bridge)
          /\ ClaimFails(s)
          /\ UNCHANGED bridge
    /\ UNCHANGED <<box, root, stuck, poolVars, daemonVars>>

ClaimRollback(s) == \E lost \in SUBSET Bridges({s}) : Removed(Bridges({s}), lost)

ClaimConnect(s) ==
    /\ pc[s] = "connect"
    /\ \/ /\ box' = [box EXCEPT ![unit[s]].net = SessionNetwork(WarmFuse)]
          /\ Goto(s, "boot")
          /\ UNCHANGED <<bridge, root, stuck>>
       \/ CallFails /\ ClaimRollback(s) /\ ClaimFails(s)
    /\ UNCHANGED <<poolVars, daemonVars>>

ClaimBoot(s) ==
    /\ pc[s] = "boot"
    /\ \/ /\ ContainerStart(unit[s])
          /\ Goto(s, "commit")
          /\ UNCHANGED <<bridge, root, stuck>>
       \/ CallFails /\ ClaimRollback(s) /\ ClaimFails(s)
    /\ UNCHANGED <<poolVars, daemonVars>>

-----------------------------------------------------------------------------
(* Commit and bind, the unwind, the teardown of a live session.            *)

StageCommit(s) ==
    /\ pc[s] = "commit"
    /\ \/ /\ row' = [row EXCEPT ![s] = "ACTIVE"]
          /\ pc' = [pc EXCEPT ![s] = "live"]
          /\ UNCHANGED <<wants, unit, claimed>>
       \/ "commit" \in deploy.faults /\ Goto(s, "uKill")
    /\ UNCHANGED <<hostVars, poolVars, daemonVars>>

\* The in-stage Dispose of a unit whose Claim failed.
UnwindDispose(s) == /\ pc[s] = "uDispose"
                    /\ DestroyPlaceholder(unit[s])
                    /\ Goto(s, "uScrub")
                    /\ UNCHANGED <<poolVars, daemonVars>>

\* The sandbox handle Materialize and Claim return: its runtime id is the
\* container name, and neither sets the handle's SockDirRoot.
SockDirRoot(s) == {}

UnwindForceKill(s) ==
    /\ pc[s] = "uKill"
    /\ \E ok \in BOOLEAN : Finalize(s, Named(s), SockDirRoot(s), ok)
    /\ Goto(s, "uScrub")
    /\ UNCHANGED <<poolVars, daemonVars>>

\* Scrub of the pushed mount-config.
UnwindScrub(s) ==
    /\ pc[s] = "uScrub"
    /\ \/ Scrub(RootOf(s))
       \/ "remove" \in deploy.faults /\ UNCHANGED root
    /\ Goto(s, "uHandoff")
    /\ UNCHANGED <<box, bridge, stuck, poolVars, daemonVars>>

\* Mutant of WarmHandoffCompensator: a claimed unit goes back as well.
PutsClaimedUnit(s) == /\ Goto(s, IF Open THEN "uPut" ELSE "uRelease")
                      /\ IF Open THEN UNCHANGED hostVars ELSE DestroyPlaceholder(unit[s])

\* warmHandoffCompensator: a unit no Claim touched goes back to the pool, any
\* other is disposed of.  Put reads the pool's state first.
WarmHandoffCompensator(s) ==
    IF ~claimed[s] /\ Open
    THEN Goto(s, "uPut") /\ UNCHANGED hostVars
    ELSE Goto(s, "uRelease") /\ DestroyPlaceholder(unit[s])

UnwindHandoff(s) ==
    /\ pc[s] = "uHandoff"
    /\ IF unit[s] # Nobody
       THEN WarmHandoffCompensator(s)
       ELSE /\ Goto(s, "uRelease")
            /\ \E lost \in SUBSET RootsOf({s}) : Removed(RootsOf({s}), lost)
    /\ UNCHANGED <<poolVars, daemonVars>>

PoolPut(s) == /\ pc[s] = "uPut"
              /\ Offer(unit[s])
              /\ pc' = [pc EXCEPT ![s] = "uRelease"]
              /\ unit' = [unit EXCEPT ![s] = Nobody]
              /\ UNCHANGED <<wants, claimed, row, closed, producer, made, seq, daemonVars>>

\* The session is over: its row is a tombstone and the create state is gone.
Forget(s) == /\ pc' = [pc EXCEPT ![s] = "idle"]
             /\ wants' = [wants EXCEPT ![s] = FALSE]
             /\ unit' = [unit EXCEPT ![s] = Nobody]
             /\ claimed' = [claimed EXCEPT ![s] = FALSE]
             /\ row' = [row EXCEPT ![s] = "none"]

UnwindRelease(s) == /\ pc[s] = "uRelease"
                    /\ Forget(s)
                    /\ UNCHANGED <<hostVars, poolVars, daemonVars>>

\* Destroy, the reaper and the kill switch: the row is released only after
\* a finalizer without error.
Destroy(s) ==
    /\ phase = "up" /\ pc[s] = "live"
    /\ \/ Finalize(s, Named(s), SockDirRoot(s), TRUE) /\ Forget(s)
       \/ Finalize(s, Named(s), SockDirRoot(s), FALSE) /\ UNCHANGED sessionVars
    /\ UNCHANGED <<poolVars, daemonVars>>

-----------------------------------------------------------------------------
(* Crashes and the boot sweep. *)

\* What no container carries the label of, and so no sweep finds: roots and
\* bridges made before their container, and a claimed unit's bridge.
Stranded == {<<"root", i>> : i \in {j \in Ids : root[j] # Nobody /\ box[j] = Nobody}}
              \cup Bridges({s \in Sessions : box[s] = Nobody})

\* Everything the process held is gone; host and rows stay as they are.
Crash == /\ phase # "down" /\ crashes < deploy.crashes
         /\ crashes' = crashes + 1
         /\ phase' = "down" /\ todo' = {} /\ kept' = {}
         /\ stuck' = stuck \cup Stranded
         /\ ready' = {} /\ closed' = "no" /\ producer' = "off"
         /\ made' = Nobody /\ seq' = 0
         /\ pc' = [s \in Sessions |-> IF pc[s] = "live" THEN "live" ELSE "idle"]
         /\ unit' = [s \in Sessions |-> Nobody]
         /\ claimed' = [s \in Sessions |-> FALSE]
         /\ UNCHANGED <<wants, row, box, root, bridge, deploy>>

\* Reconcile: the managed containers, named by their label.
Listed == {i \in Ids : box[i] # Nobody}
Alive == {i \in Listed : box[i].run = "running"}
LiveRows == {s \in Sessions : row[s] # "none"}

\* Direction 1 takes every listed container but a live row's running one.
Orphans == Listed \ (Alive \cap LiveRows)

BootList == /\ phase = "down"
            /\ phase' = "sweep" /\ todo' = Orphans /\ kept' = Alive \cap LiveRows
            /\ UNCHANGED <<hostVars, poolVars, sessionVars, crashes, deploy>>

\* An orphan is force-killed by container id, under the name on its label; an
\* error aborts the boot.
BootForceKill(i) ==
    /\ phase = "sweep" /\ i \in todo
    /\ \/ /\ Finalize(i, {i}, {}, TRUE)
          /\ todo' = todo \ {i} /\ UNCHANGED <<phase, kept>>
       \/ /\ Finalize(i, {i}, {}, FALSE)
          /\ todo' = {} /\ kept' = {} /\ phase' = "down"
    /\ UNCHANGED <<poolVars, sessionVars, crashes, deploy>>

\* Mutant of BootEnd: rows left without a container keep their slots.
BootEndKeepsRows == /\ phase = "sweep" /\ todo = {}
                    /\ phase' = "up" /\ kept' = {}
                    /\ pc' = [s \in Sessions |-> IF row[s] # "none" THEN "live" ELSE "idle"]
                    /\ Warm
                    /\ UNCHANGED <<wants, row, unit, claimed, hostVars, todo, crashes, deploy>>

\* Direction 2 releases the rows whose running container was not listed; then
\* the pool is warmed and the listeners bind.
BootEnd == /\ phase = "sweep" /\ todo = {}
           /\ phase' = "up" /\ kept' = {}
           /\ row' = [s \in Sessions |-> IF s \in kept THEN row[s] ELSE "none"]
           /\ pc' = [s \in Sessions |-> IF s \in kept THEN "live" ELSE "idle"]
           /\ wants' = [s \in Sessions |-> s \in kept /\ wants[s]]
           /\ Warm
           /\ UNCHANGED <<unit, claimed, hostVars, todo, crashes, deploy>>

\* A guest exits on its own.
GuestExits(i) == /\ box[i] # Nobody /\ box[i].run = "running"
                 /\ "exit" \in deploy.faults
                 /\ box' = [box EXCEPT ![i].run = "exited"]
                 /\ UNCHANGED <<bridge, root, stuck, poolVars, sessionVars, daemonVars>>

PoolStep == /\ phase = "up"
            /\ FillStep \/ CloseStep \/ (deploy.closes /\ CloseBegin)
            /\ UNCHANGED <<sessionVars, daemonVars>>

CreateStep(s) ==
    \/ StageStageHandoff(s) \/ PoolGet(s) \/ StageCold(s) \/ StageRenderPushMount(s)
    \/ MaterializeNetwork(s) \/ MaterializeCreate(s) \/ MaterializeStart(s)
    \/ ClaimSpecializeStep(s) \/ ClaimRename(s) \/ ClaimAttach(s) \/ ClaimConnect(s)
    \/ ClaimBoot(s) \/ StageCommit(s)
    \/ UnwindDispose(s) \/ UnwindForceKill(s) \/ UnwindScrub(s) \/ UnwindHandoff(s)
    \/ PoolPut(s) \/ UnwindRelease(s)

Next == \/ \E s \in Sessions : \/ \E storage \in BOOLEAN : CreateStart(s, storage)
                               \/ CreateStep(s) \/ Destroy(s)
        \/ PoolStep
        \/ Crash \/ BootList \/ BootEnd
        \/ \E i \in Ids : BootForceKill(i) \/ GuestExits(i)

Spec == Init /\ [][Next]_vars

-----------------------------------------------------------------------------
(* Properties. *)

Count(P) == IF P THEN 1 ELSE 0

\* Get, Put, the producer and the unwind hand a unit from one owner to the
\* next: no unit is at once in the ready channel, with the producer and with a
\* create, or with two creates (warmpool Get: exactly one claimer).
UnitOnce == \A u \in Units :
              Count(u \in ready) + Count(made = u)
                + Cardinality({s \in Sessions : unit[s] = u}) <= 1

\* A unit in the ready channel is a pristine placeholder: never started, under
\* its own name, without network, its root naming nobody else and holding no
\* mount-config; whatever creates took units and gave them back before.
PoolPristine == \A u \in ready : /\ box[u] # Nobody /\ root[u] # Nobody
                                 /\ box[u].run = "created" /\ box[u].name = u
                                 /\ box[u].net = "none"
                                 /\ root[u] = [who |-> u, cfg |-> FALSE]

\* The pool hands out each unit once and untouched (Get, Put, the producer, the
\* unwind of a create that took one).
UnitsSound == UnitOnce /\ PoolPristine

\* A running guest booted under the identity of the session whose name its
\* container has, cold or warm, whatever the container was created for.
GuestIdentity == \A i \in Ids : box[i] # Nobody /\ box[i].run = "running"
                                  => box[i].ident = box[i].name

\* A session that went live has the posture of its storage need: capability,
\* device, extra host, runtime, boot child and network all agree.
PostureMatches ==
    \A s \in Sessions : row[s] = "ACTIVE" => \A i \in Named(s) :
      LET h == box[i].host IN
      /\ {h.sysAdmin, h.edgeHost, box[i].bootChild} = {Fuse(s)}
      /\ (h.runtime = "runsc-fuse") = (deploy.tier = "gvisor" /\ Fuse(s))
      /\ (h.runtime = "default") = (deploy.tier # "gvisor")
      /\ (box[i].net = "egress") = (Fuse(s) /\ deploy.egress)
      /\ box[i].net # "none"

\* A cold session that asked for storage is live only with its mount
\* (validateSpec: an admitted scope is never lost silently).
MountServed == \A s \in Sessions : row[s] = "ACTIVE" /\ wants[s] /\ box[s] # Nobody
                                      => box[s].bootChild /\ deploy.signer

\* A session gets the guest it asked for (Materialize, Claim, buildHostConfig,
\* ClaimSpecialize): its own identity, the posture of its storage need, its mount.
GuestAsAsked == GuestIdentity /\ PostureMatches /\ MountServed

Busy == {s \in Sessions : pc[s] # "idle"}
InHand == ready \cup {made} \cup {unit[s] : s \in Sessions}

\* While the daemon serves, every container, bridge, session root and untouched
\* placeholder root belongs to a session, to the pool or to the producer,
\* unless a failed removal or a crash left it there.
HostAccounted ==
    phase = "up" =>
      /\ \A i \in Ids : box[i] # Nobody => i \in Busy \cup InHand \/ <<"box", i>> \in stuck
      /\ \A s \in bridge : s \in Busy \/ <<"bridge", s>> \in stuck
      /\ \A i \in Ids : root[i] # Nobody /\ root[i].who = i
                           => i \in Busy \cup InHand \/ <<"root", i>> \in stuck

\* When a boot ends, containers and rows agree: a container for every row that
\* is left and no other container, whatever the crash interrupted.
BootAgrees == [][phase = "sweep" /\ phase' = "up"
                   => \A i \in Ids : box'[i] # Nobody
                                       <=> i \in Sessions /\ row'[i] # "none"]_vars
=============================================================================
