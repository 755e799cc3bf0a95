----------------------------- MODULE Lifecycle ------------------------------
(***************************************************************************)
(* The control plane's session lifecycle: the create pipeline with its     *)
(* LIFO unwind, Destroy, Exec, the idle reaper (internal/lifecycle), the   *)
(* kill-switch engine (internal/killswitch) and the boot sweep, all        *)
(* running over one session store, one runtime provider and one handoff    *)
(* directory.  Every handler is a sequence of steps, one per call it makes *)
(* to the store or to the provider; steps of different handlers interleave *)
(* freely.                                                                 *)
(***************************************************************************)
EXTENDS SessionStore

CONSTANTS Requests,  \* request handlers that can be in progress at a time
          Reaper,    \* the one goroutine startIdleReaper launches
          NoKey,     \* the key of an activation that has none
          Handlers,  \* the handlers that are invoked
          Faults,    \* the operations whose failure is explored
          Overlaps   \* the overlaps between handlers that are explored

HandlerNames == {"create", "destroy", "exec", "reap", "revokeAll",
                 "revokeOne", "resume", "crash"}
FaultNames == {"stage", "audit", "kill", "release", "unwindRelease", "refund",
               "exit"}
OverlapNames == {"teardowns", "killMidCreate", "destroyMidCreate", "reuse",
                 "crashMidCommit"}

ASSUME LifecycleAssumption == /\ IsFiniteSet(Requests)
                              /\ Reaper \notin Requests
                              /\ NoKey \notin Keys
                              /\ Handlers \subseteq HandlerNames
                              /\ Faults \subseteq FaultNames
                              /\ Overlaps \subseteq OverlapNames

\* Everything that runs handler code at the same time.
Calls == Requests \cup {Reaper}

VARIABLES pc,     \* the next step of an activation, "idle" when it is free
          key,    \* the key it works on
          todo,   \* the rows its snapshot left to process
          seen,   \* the row state Destroy's lookup returned
          box,    \* the container named after a key
          root,   \* the handoff root named after a key is on the host
          phase,  \* the daemon: down, a step of its boot sweep, or up
          sweep,  \* the boot sweep's snapshot and what it has left to do
          late    \* history: keys inserted since DENY-ALL was last engaged

store == <<rowState, bound, stamp, deny, cell, stripe>>
rowVars == <<rowState, bound, stamp>>
callVars == <<pc, key, todo, seen>>
host == <<box, root>>
boot == <<phase, sweep>>
vars == <<store, callVars, host, boot, late>>

NoSweep == [alive |-> {}, rows |-> {}, active |-> {}, todo |-> {}, row |-> NoKey]

\* Where a create stands once its reservation is its own to release, and
\* where it holds the receipt of its charge.
OwnsRow == {"handoff", "push", "materialize", "commit", "activate", "bind",
            "uKill", "uUnstage", "uRelease"}
HoldsReceipt == OwnsRow \cup {"denyCheck", "insert", "uRefund"}
CreateSteps == HoldsReceipt \cup {"resume", "charge"}

\* Where a teardown has taken its snapshot, and where it owes a refund.
OwesRefund == {"dRefund", "rRefund", "kRefund"}
TeardownSteps == OwesRefund \cup {"dKill", "dRelease", "rNext", "rKill",
                                  "rRelease", "kNext", "kKill", "kRelease"}
Steps == CreateSteps \cup TeardownSteps
           \cup {"idle", "eTouch", "kList", "kLook"}

Phases == {"down", "dir1", "dir2", "dir2Refund", "dir3", "up"}

TypeOK == /\ StoreType
          /\ pc \in [Calls -> Steps]
          /\ key \in [Calls -> Keys \cup {NoKey}]
          /\ todo \in [Calls -> SUBSET Keys]
          /\ seen \in [Calls -> RowStates]
          /\ box \in [Keys -> {"none", "running", "exited"}]
          /\ root \in [Keys -> BOOLEAN]
          /\ phase \in Phases
          /\ sweep \in [alive : SUBSET Keys, rows : SUBSET Keys,
                        active : SUBSET Keys, todo : SUBSET Keys,
                        row : Keys \cup {NoKey}]
          /\ late \in SUBSET Keys

\* A host with an empty store and no containers, before its first boot.
Init == /\ StoreInit
        /\ pc = [p \in Calls |-> "idle"]
        /\ key = [p \in Calls |-> NoKey]
        /\ todo = [p \in Calls |-> {}]
        /\ seen = [p \in Calls |-> "NONE"]
        /\ box = [k \in Keys |-> "none"]
        /\ root = [k \in Keys |-> FALSE]
        /\ phase = "down"
        /\ sweep = NoSweep
        /\ late = {}

-----------------------------------------------------------------------------
(* Control of one activation. *)

Goto(p, step) == /\ pc' = [pc EXCEPT ![p] = step]
                 /\ UNCHANGED <<key, todo, seen>>

Done(p) == /\ pc' = [pc EXCEPT ![p] = "idle"]
           /\ key' = [key EXCEPT ![p] = NoKey]
           /\ todo' = [todo EXCEPT ![p] = {}]
           /\ seen' = [seen EXCEPT ![p] = "NONE"]

\* The daemon is up, the handler is one that is invoked and p is free.
Invoke(h, p) == phase = "up" /\ h \in Handlers /\ pc[p] = "idle"

\* Take up the call p for the key k at the given step.
Begin(p, k, step) == /\ pc' = [pc EXCEPT ![p] = step]
                     /\ key' = [key EXCEPT ![p] = k]
                     /\ UNCHANGED <<todo, seen>>

-----------------------------------------------------------------------------
(* The runtime finalizer and the handoff directory. *)

\* GracefulStop and ForceKill: every step is attempted, whatever failed
\* before it; the container and the handoff root named after k are gone.  A
\* container already gone is a satisfied kill.
Finalize(k) == /\ box' = [box EXCEPT ![k] = "none"]
               /\ root' = [root EXCEPT ![k] = FALSE]

\* A finalizer that returns an error: any of its steps may have failed.
FinalizeFails(k) == /\ "kill" \in Faults
                    /\ \E b \in {box[k], "none"}, r \in {root[k], FALSE} :
                         /\ box' = [box EXCEPT ![k] = b]
                         /\ root' = [root EXCEPT ![k] = r]

-----------------------------------------------------------------------------
(* Create: the ordered stages.  A stage that fails pushes nothing and the  *)
(* unwind starts at the compensator of the last stage that succeeded.      *)

CreateStart(p, k) == /\ Invoke("create", p)
                     /\ Begin(p, k, "resume")
                     /\ UNCHANGED <<store, host, boot, late>>

\* tryResume, then the read-only stages resolveIdentity and admit: an ACTIVE
\* row is handed back (or its audit record fails), a refused admission or a
\* failed lookup ends the call, everything else goes on to the charge.
TryResume(p) == /\ pc[p] = "resume"
                /\ \/ Done(p)
                   \/ rowState[key[p]] # "ACTIVE" /\ Goto(p, "charge")
                /\ UNCHANGED <<store, host, boot, late>>

\* ChargeCreate's concurrent-session charge.  A refusal by this cell, by the
\* create-rate window or by a store fault moves no counter.
StageQuotaCharge(p) ==
    /\ pc[p] = "charge"
    /\ \/ ChargeOne(Bill(key[p])) /\ Goto(p, "denyCheck")
       \/ Done(p) /\ UNCHANGED cell
    /\ UNCHANGED <<rowVars, deny, stripe, host, boot, late>>

\* stageReserve, up to the deny check inside Reserve.
StageReserveCheck(p) ==
    /\ pc[p] = "denyCheck"
    /\ \/ ReserveCheck(key[p]) /\ Goto(p, "insert")
       \/ /\ Denied(key[p]) \/ "stage" \in Faults
          /\ Goto(p, "uRefund")
          /\ UNCHANGED stripe
    /\ UNCHANGED <<rowVars, deny, cell, host, boot, late>>

\* stageReserve, the insert: refused on a live row.
StageReserveInsert(p) ==
    LET k == key[p] IN
    /\ pc[p] = "insert"
    /\ ReserveUnlock(k)
    /\ \/ /\ ReserveInsert(k)
          /\ late' = IF All \in deny THEN late \cup {k} ELSE late
          /\ Goto(p, "handoff")
       \/ /\ Live(k)
          /\ Goto(p, "uRefund")
          /\ UNCHANGED <<rowVars, late>>
    /\ UNCHANGED <<deny, cell, host, boot>>

\* Stage writes the root; a failing Stage removes it again, unless it failed
\* before touching the filesystem.
StageStageHandoff(p) ==
    LET k == key[p] IN
    /\ pc[p] = "handoff"
    /\ \/ root' = [root EXCEPT ![k] = TRUE] /\ Goto(p, "push")
       \/ /\ "stage" \in Faults
          /\ root' \in {root, [root EXCEPT ![k] = FALSE]}
          /\ Goto(p, "uRelease")
    /\ UNCHANGED <<store, box, boot, late>>

\* mintStorageJWT and renderPushMount: the mount-config is a file inside the
\* handoff root, so neither shows in this model's state.
StageRenderPushMount(p) ==
    /\ pc[p] = "push"
    /\ \/ Goto(p, "materialize")
       \/ "stage" \in Faults /\ Goto(p, "uUnstage")
    /\ UNCHANGED <<store, host, boot, late>>

\* The container name is derived from the key and taken by one container at
\* a time; a failed Materialize rolls back what it created.
StageMaterialize(p) ==
    LET k == key[p] IN
    /\ pc[p] = "materialize"
    /\ \/ /\ box[k] = "none"
          /\ box' = [box EXCEPT ![k] = "running"]
          /\ Goto(p, "commit")
       \/ /\ box[k] # "none" \/ "stage" \in Faults
          /\ Goto(p, "uUnstage")
          /\ UNCHANGED box
    /\ UNCHANGED <<store, root, boot, late>>

\* stageCommit, the store's Commit.
StageCommit(p) ==
    LET k == key[p] IN
    /\ pc[p] = "commit"
    /\ \/ CommitRow(k) /\ Goto(p, "activate")
       \/ /\ k \notin stripe
          /\ rowState[k] # "RESERVED" \/ "stage" \in Faults
          /\ Goto(p, "uKill")
          /\ UNCHANGED rowState
    /\ UNCHANGED <<bound, stamp, deny, cell, stripe, host, boot, late>>

\* stageCommit, the audit record (fail-closed) and the activation stamp
\* (its failure is swallowed).
StageActivate(p) ==
    /\ pc[p] = "activate"
    /\ \/ RecordActivation(key[p]) /\ Goto(p, "bind")
       \/ "stage" \in Faults /\ UNCHANGED stamp /\ \/ Goto(p, "bind")
                                                   \/ Goto(p, "uKill")
    /\ UNCHANGED <<rowState, bound, deny, cell, stripe, host, boot, late>>

\* A successful bind ends the create; the unwind stack is discarded.
StageBind(p) ==
    LET k == key[p] IN
    /\ pc[p] = "bind"
    /\ \/ BindContainerName(k) /\ Done(p)
       \/ /\ k \notin stripe
          /\ ~Live(k) \/ bound[k] \/ "stage" \in Faults
          /\ Goto(p, "uKill")
          /\ UNCHANGED bound
    /\ UNCHANGED <<rowState, stamp, deny, cell, stripe, host, boot, late>>

-----------------------------------------------------------------------------
(* unwind: the compensators in LIFO order, each error swallowed.           *)

UnwindForceKill(p) ==
    /\ pc[p] = "uKill"
    /\ Finalize(key[p]) \/ FinalizeFails(key[p])
    /\ Goto(p, "uUnstage")
    /\ UNCHANGED <<store, boot, late>>

\* Scrub of the mount-config, then Unstage of the whole root.
UnwindUnstage(p) ==
    /\ pc[p] = "uUnstage"
    /\ \/ root' = [root EXCEPT ![key[p]] = FALSE]
       \/ "kill" \in Faults /\ UNCHANGED root
    /\ Goto(p, "uRelease")
    /\ UNCHANGED <<store, box, boot, late>>

UnwindRelease(p) ==
    /\ pc[p] = "uRelease"
    /\ \/ ReleaseRow(key[p])
       \/ "unwindRelease" \in Faults /\ UNCHANGED <<rowState, stamp>>
    /\ Goto(p, "uRefund")
    /\ UNCHANGED <<bound, deny, cell, stripe, host, boot, late>>

\* Receipt.Apply.
UnwindRefund(p) ==
    /\ pc[p] = "uRefund"
    /\ \/ RefundOne(Bill(key[p]))
       \/ "refund" \in Faults /\ UNCHANGED cell
    /\ Done(p)
    /\ UNCHANGED <<rowVars, deny, stripe, host, boot, late>>

-----------------------------------------------------------------------------
(* Destroy. *)

\* The lookup keeps the row it saw; an unknown key, or an audit record that
\* cannot be written, ends the call here.
DestroyLookup(p, k) ==
    /\ Invoke("destroy", p)
    /\ rowState[k] # "NONE"
    /\ pc' = [pc EXCEPT ![p] = "dKill"]
    /\ key' = [key EXCEPT ![p] = k]
    /\ seen' = [seen EXCEPT ![p] = rowState[k]]
    /\ UNCHANGED <<todo, store, host, boot, late>>

DestroyKill(p) ==
    /\ pc[p] = "dKill"
    /\ \/ Finalize(key[p]) /\ Goto(p, "dRelease")
       \/ FinalizeFails(key[p]) /\ Done(p)
    /\ UNCHANGED <<store, boot, late>>

\* Mutant of RefundsSlot: a row that is still unbound is refunded as well.
RefundsUnbound(p) == seen[p] # "RELEASED"

\* The slot is refunded unless the lookup saw a tombstone or the released
\* row is unbound.
RefundsSlot(p) == seen[p] # "RELEASED" /\ bound[key[p]]

DestroyRelease(p) ==
    /\ pc[p] = "dRelease"
    /\ \/ /\ ReleaseRow(key[p])
          /\ IF RefundsSlot(p) THEN Goto(p, "dRefund") ELSE Done(p)
       \/ "release" \in Faults /\ Done(p) /\ UNCHANGED <<rowState, stamp>>
    /\ UNCHANGED <<bound, deny, cell, stripe, host, boot, late>>

DestroyRefund(p) ==
    /\ pc[p] = "dRefund"
    /\ \/ RefundOne(Bill(key[p]))
       \/ "refund" \in Faults /\ UNCHANGED cell
    /\ Done(p)
    /\ UNCHANGED <<rowVars, deny, stripe, host, boot, late>>

-----------------------------------------------------------------------------
(* Exec: no check of the row's state; a dispatch that succeeds touches the *)
(* stamp afterwards, and a failing touch is swallowed.                     *)

ExecDispatch(p, k) == /\ Invoke("exec", p)
                      /\ rowState[k] # "NONE"
                      /\ box[k] = "running"
                      /\ Begin(p, k, "eTouch")
                      /\ UNCHANGED <<store, host, boot, late>>

ExecTouch(p) ==
    LET k == key[p] IN
    /\ pc[p] = "eTouch"
    /\ TouchActivity(k) \/ UNCHANGED stamp
    /\ Done(p)
    /\ UNCHANGED <<rowState, bound, deny, cell, stripe, host, boot, late>>

-----------------------------------------------------------------------------
(* ReapIdle and reapOne: the first error ends the pass. *)

ReapList(p) == /\ Invoke("reap", p)
               /\ IdleSessions # {}
               /\ pc' = [pc EXCEPT ![p] = "rNext"]
               /\ todo' = [todo EXCEPT ![p] = IdleSessions]
               /\ UNCHANGED <<key, seen, store, host, boot, late>>

\* The next row of the snapshot; its audit record may fail and end the pass.
ReapNext(p) == /\ pc[p] = "rNext"
               /\ \/ \E k \in todo[p] :
                       /\ pc' = [pc EXCEPT ![p] = "rKill"]
                       /\ key' = [key EXCEPT ![p] = k]
                       /\ todo' = [todo EXCEPT ![p] = @ \ {k}]
                       /\ UNCHANGED seen
                  \/ (todo[p] = {} \/ "audit" \in Faults) /\ Done(p)
               /\ UNCHANGED <<store, host, boot, late>>

ReapKill(p) == /\ pc[p] = "rKill"
               /\ \/ Finalize(key[p]) /\ Goto(p, "rRelease")
                  \/ FinalizeFails(key[p]) /\ Done(p)
               /\ UNCHANGED <<store, boot, late>>

ReapRelease(p) ==
    /\ pc[p] = "rRelease"
    /\ \/ ReleaseRow(key[p]) /\ Goto(p, "rRefund")
       \/ "release" \in Faults /\ Done(p) /\ UNCHANGED <<rowState, stamp>>
    /\ UNCHANGED <<bound, deny, cell, stripe, host, boot, late>>

ReapRefund(p) ==
    /\ pc[p] = "rRefund"
    /\ \/ RefundOne(Bill(key[p])) /\ Goto(p, "rNext")
       \/ "refund" \in Faults /\ Done(p) /\ UNCHANGED cell
    /\ UNCHANGED <<rowVars, deny, stripe, host, boot, late>>

-----------------------------------------------------------------------------
(* The kill-switch engine: the deny entry first, then the sweep.           *)

RevokeAll(p) == /\ Invoke("revokeAll", p)
                /\ SetDeny(All)
                /\ pc' = [pc EXCEPT ![p] = "kList"]
                /\ late' = {}
                /\ UNCHANGED <<key, todo, seen, rowVars, cell, stripe, host, boot>>

\* RevokeAll enumerates RESERVED and ACTIVE rows without any key lock.
RevokeAllList(p) == /\ pc[p] = "kList"
                    /\ pc' = [pc EXCEPT ![p] = "kNext"]
                    /\ todo' = [todo EXCEPT ![p] = LiveSessions]
                    /\ UNCHANGED <<key, seen, store, host, boot, late>>

RevokeOne(p, k) == /\ Invoke("revokeOne", p)
                   /\ SetDeny(k)
                   /\ Begin(p, k, "kLook")
                   /\ UNCHANGED <<rowVars, cell, stripe, host, boot, late>>

\* forceKillKey: an absent row or a tombstone owes no reclaim.
ForceKillKey(p) ==
    LET k == key[p] IN
    /\ pc[p] = "kLook"
    /\ \/ Live(k) /\ Goto(p, "kKill")
       \/ ~Live(k) /\ Done(p)
    /\ UNCHANGED <<store, host, boot, late>>

RevokeNext(p) == /\ pc[p] = "kNext"
                 /\ \/ \E k \in todo[p] :
                         /\ pc' = [pc EXCEPT ![p] = "kKill"]
                         /\ key' = [key EXCEPT ![p] = k]
                         /\ todo' = [todo EXCEPT ![p] = @ \ {k}]
                         /\ UNCHANGED seen
                    \/ todo[p] = {} /\ Done(p)
                 /\ UNCHANGED <<store, host, boot, late>>

\* forceKillRow: an error skips the rest of this row, not the next rows.
ForceKillRow(p) == /\ pc[p] = "kKill"
                   /\ \/ Finalize(key[p]) /\ Goto(p, "kRelease")
                      \/ FinalizeFails(key[p]) /\ Goto(p, "kNext")
                   /\ UNCHANGED <<store, boot, late>>

ForceReleaseRow(p) ==
    /\ pc[p] = "kRelease"
    /\ \/ ReleaseRow(key[p]) /\ Goto(p, "kRefund")
       \/ "release" \in Faults /\ Goto(p, "kNext") /\ UNCHANGED <<rowState, stamp>>
    /\ UNCHANGED <<bound, deny, cell, stripe, host, boot, late>>

ForceRefund(p) ==
    /\ pc[p] = "kRefund"
    /\ \/ RefundOne(Bill(key[p]))
       \/ "refund" \in Faults /\ UNCHANGED cell
    /\ Goto(p, "kNext")
    /\ UNCHANGED <<rowVars, deny, stripe, host, boot, late>>

\* ResumeAll and LiftDeny only clear the entry.
LiftDeny(e) == /\ phase = "up" /\ "resume" \in Handlers
               /\ e \in deny
               /\ ClearDeny(e)
               /\ UNCHANGED <<rowVars, cell, stripe, callVars, host, boot, late>>

-----------------------------------------------------------------------------
(* Boot: openStore, then the sweep Manager.Reconcile runs before the       *)
(* listeners are bound.  An error aborts the boot and ends the daemon.     *)

Abort == phase' = "down" /\ sweep' = NoSweep

Alive == {k \in Keys : box[k] = "running"}

\* Mutant of Orphans: an exited container of a live row is left alone.
OrphansWithoutRow == {k \in Keys : box[k] # "none"} \ LiveSessions

\* Direction 1 takes the containers that are not a live row's running one.
Orphans == {k \in Keys : box[k] # "none"} \ (LiveSessions \cap Alive)

\* The snapshots: containers that exist and that run, rows that are live.
ReconcileList ==
    /\ phase = "down"
    /\ phase' = "dir1"
    /\ sweep' = [alive |-> Alive,
                 rows |-> LiveSessions,
                 active |-> {k \in Keys : rowState[k] = "ACTIVE"},
                 todo |-> Orphans,
                 row |-> NoKey]
    /\ IF Durable THEN ReseedActivity ELSE UNCHANGED stamp
    /\ UNCHANGED <<rowState, bound, deny, cell, stripe, callVars, host, late>>

\* Mutant of LostRows: the containers are listed after the kills.
AllRows == sweep.rows

\* Direction 2 takes the rows without a running container.
LostRows == sweep.rows \ sweep.alive

Direction1 ==
    /\ phase = "dir1"
    /\ \/ \E k \in sweep.todo :
            \/ /\ Finalize(k)
               /\ sweep' = [sweep EXCEPT !.todo = @ \ {k}]
               /\ UNCHANGED phase
            \/ FinalizeFails(k) /\ Abort
       \/ /\ sweep.todo = {}
          /\ phase' = "dir2"
          /\ sweep' = [sweep EXCEPT !.todo = LostRows]
          /\ UNCHANGED host
    /\ UNCHANGED <<store, callVars, late>>

\* reclaimOrphanRow: the record, the release ...
Direction2 ==
    /\ phase = "dir2"
    /\ \/ \E k \in sweep.todo :
            \/ /\ ReleaseRow(k)
               /\ phase' = "dir2Refund"
               /\ sweep' = [sweep EXCEPT !.todo = @ \ {k}, !.row = k]
            \/ /\ "audit" \in Faults \/ "release" \in Faults
               /\ Abort
               /\ UNCHANGED <<rowState, stamp>>
       \/ /\ sweep.todo = {}
          /\ phase' = "dir3"
          /\ sweep' = [sweep EXCEPT !.todo = sweep.rows]
          /\ UNCHANGED <<rowState, stamp>>
    /\ UNCHANGED <<bound, deny, cell, stripe, callVars, host, late>>

\* ... and the refund.
Direction2Refund ==
    /\ phase = "dir2Refund"
    /\ \/ /\ RefundOne(Bill(sweep.row))
          /\ phase' = "dir2"
          /\ sweep' = [sweep EXCEPT !.row = NoKey]
       \/ "refund" \in Faults /\ Abort /\ UNCHANGED cell
    /\ UNCHANGED <<rowVars, deny, stripe, callVars, host, late>>

\* Mutant of LiveCount: reclaimed rows are counted.
CountReclaimed(o) == Cardinality({k \in sweep.rows : OwnerOf[k] = o})

\* The rows Direction 3 counts as live for an owner.
LiveCount(o) == Cardinality({k \in sweep.active \cap sweep.alive : OwnerOf[k] = o})

\* ReconcileConcurrent: only ever corrects down.
ReconcileConcurrent(o) ==
    cell' = [cell EXCEPT ![CellOf[o]] = IF @ > LiveCount(o) THEN LiveCount(o) ELSE @]

\* One owner of a snapshotted row after the other; then the listeners bind.
Direction3 ==
    /\ phase = "dir3"
    /\ \/ \E k \in sweep.todo :
            LET o == OwnerOf[k] IN
            \/ /\ ReconcileConcurrent(o)
               /\ sweep' = [sweep EXCEPT !.todo = {j \in @ : OwnerOf[j] # o}]
               /\ UNCHANGED phase
            \/ "refund" \in Faults /\ Abort /\ UNCHANGED cell
       \/ /\ sweep.todo = {}
          /\ phase' = "up"
          /\ sweep' = NoSweep
          /\ UNCHANGED cell
    /\ UNCHANGED <<rowVars, deny, stripe, callVars, host, late>>

-----------------------------------------------------------------------------
(* The environment. *)

\* The daemon dies at any step: every activation is gone, and the in-memory
\* store with it.  Containers and handoff roots stay on the host.
Crash ==
    /\ "crash" \in Handlers
    /\ phase # "down"
    /\ Abort
    /\ pc' = [p \in Calls |-> "idle"]
    /\ key' = [p \in Calls |-> NoKey]
    /\ todo' = [p \in Calls |-> {}]
    /\ seen' = [p \in Calls |-> "NONE"]
    /\ stamp' = [k \in Keys |-> "none"]
    /\ stripe' = {}
    /\ IF Durable
       THEN UNCHANGED <<rowState, bound, deny, cell>>
       ELSE /\ rowState' = [k \in Keys |-> "NONE"]
            /\ bound' = [k \in Keys |-> FALSE]
            /\ deny' = {}
            /\ cell' = [c \in Cells |-> 0]
    /\ UNCHANGED <<host, late>>

\* A container dies on its own (host out of memory, external removal).
ContainerExits(k) == /\ "exit" \in Faults
                     /\ box[k] = "running"
                     /\ box' = [box EXCEPT ![k] = "exited"]
                     /\ UNCHANGED <<store, callVars, root, boot, late>>

\* The idle TTL passes without a touch.  The TTL (minutes) is taken to
\* outlast a create, from its reservation to its end.
IdleTTLPasses(k) == /\ "reap" \in Handlers
                    /\ stamp[k] = "fresh"
                    /\ \A p \in Calls : ~(pc[p] \in OwnsRow /\ key[p] = k)
                    /\ stamp' = [stamp EXCEPT ![k] = "idle"]
                    /\ UNCHANGED <<rowState, bound, deny, cell, stripe, callVars,
                                   host, boot, late>>

-----------------------------------------------------------------------------

(* Overlaps.  The code serializes nothing but single store operations, so  *)
(* each of these predicates is TRUE of the program: Overlaps names those   *)
(* an instance explores, and the predicate is what is left when it does    *)
(* not.                                                                    *)

\* q is tearing the row of k down, or has it on its list.
Claims(q, k) == \/ key[q] = k /\ pc[q] \in TeardownSteps \ {"rNext", "kNext"}
                \/ k \in todo[q]

CreatesOn(k) == {q \in Calls : pc[q] \in CreateSteps /\ key[q] = k}

\* No second teardown of a row.
MayTeardown(K) == "teardowns" \in Overlaps
                    \/ \A q \in Calls, k \in K : ~Claims(q, k)

\* No kill-switch sweep of a row whose create is still in progress.
MayKill(K) == "killMidCreate" \in Overlaps
                \/ \A q \in Calls : pc[q] \in OwnsRow => key[q] \notin K

\* No create of a key that is being torn down, or whose create lost its row.
MayCreate(k) == "reuse" \in Overlaps
                  \/ \A q \in Calls : /\ ~Claims(q, k)
                                      /\ pc[q] \in OwnsRow /\ key[q] = k => Live(k)

\* No destroy of a key that several creates contend for or re-create, and
\* none of a row whose create is still in progress.
MayDestroy(k) == /\ \/ "reuse" \in Overlaps
                    \/ /\ \A p, q \in CreatesOn(k) : p = q
                       /\ rowState[k] = "RELEASED" => CreatesOn(k) = {}
                 /\ "destroyMidCreate" \in Overlaps
                      \/ \A q \in CreatesOn(k) : pc[q] \notin OwnsRow

\* No crash between a create's Materialize and its Commit.
MayCrash == "crashMidCommit" \in Overlaps
              \/ \A k \in Keys : ~(rowState[k] = "RESERVED" /\ box[k] = "running")

-----------------------------------------------------------------------------

CreateStep(p) == \/ TryResume(p) \/ StageQuotaCharge(p)
                 \/ StageReserveCheck(p) \/ StageReserveInsert(p)
                 \/ StageStageHandoff(p) \/ StageRenderPushMount(p)
                 \/ StageMaterialize(p) \/ StageCommit(p)
                 \/ StageActivate(p) \/ StageBind(p)
                 \/ UnwindForceKill(p) \/ UnwindUnstage(p)
                 \/ UnwindRelease(p) \/ UnwindRefund(p)

TeardownStep(p) == \/ DestroyKill(p) \/ DestroyRelease(p) \/ DestroyRefund(p)
                   \/ ReapNext(p) \/ ReapKill(p) \/ ReapRelease(p) \/ ReapRefund(p)
                   \/ /\ MayTeardown(LiveSessions) /\ MayKill(LiveSessions)
                      /\ RevokeAllList(p)
                   \/ /\ ForceKillKey(p)
                      /\ Live(key[p]) => MayTeardown({key[p]}) /\ MayKill({key[p]})
                   \/ RevokeNext(p) \/ ForceKillRow(p) \/ ForceReleaseRow(p)
                   \/ ForceRefund(p)

Arrival(p) == \/ \E k \in Keys : \/ MayCreate(k) /\ CreateStart(p, k)
                                 \/ /\ MayTeardown({k}) /\ MayDestroy(k)
                                    /\ DestroyLookup(p, k)
                                 \/ ExecDispatch(p, k) \/ RevokeOne(p, k)
              \/ RevokeAll(p)

BootStep == \/ ReconcileList \/ Direction1 \/ Direction2 \/ Direction2Refund
            \/ Direction3

Next == \/ \E p \in Calls : \/ CreateStep(p) \/ TeardownStep(p)
                            \/ ExecTouch(p)
        \/ \E p \in Requests : Arrival(p)
        \/ MayTeardown(IdleSessions) /\ ReapList(Reaper)
        \/ \E e \in Keys \cup {All} : LiftDeny(e)
        \/ BootStep
        \/ MayCrash /\ Crash
        \/ \E k \in Keys : ContainerExits(k) \/ IdleTTLPasses(k)

Spec == Init /\ [][Next]_vars

\* A handler that has begun keeps running; one that waits for a key lock gets
\* it in the end (sync.Mutex hands over to a starving waiter, Postgres queues
\* advisory locks).  The reaper's ticker keeps firing and a boot goes on.
\* Nothing obliges a request to arrive or the daemon to crash.
FairSpec == /\ Spec
            /\ \A p \in Calls : SF_vars(CreateStep(p) \/ TeardownStep(p) \/ ExecTouch(p))
            /\ WF_vars(ReapList(Reaper))
            /\ WF_vars(BootStep)

-----------------------------------------------------------------------------
(* Who answers for a concurrency slot. *)

\* Creates that hold a receipt and teardowns that owe a refund.
CallHolders(c) == {p \in Calls : /\ pc[p] \in HoldsReceipt \cup OwesRefund
                                 /\ Bill(key[p]) = c}

\* A live row answers for its slot once it is bound, or once the create that
\* reserved it is no longer there to do so.
RowHolds(k) == /\ Live(k)
               /\ bound[k] \/ \A p \in Calls : ~(pc[p] \in OwnsRow /\ key[p] = k)

RowHolders(c) == {k \in Keys : Bill(k) = c /\ RowHolds(k)}

BootHolds(c) == IF phase = "dir2Refund" /\ Bill(sweep.row) = c THEN 1 ELSE 0

Held(c) == Cardinality(CallHolders(c)) + Cardinality(RowHolders(c)) + BootHolds(c)

\* No interleaving of creates, teardowns, faults, crashes and boot sweeps
\* leaves a cell below the number of slots in use, and no cell passes the
\* limit: the concurrent-session cap holds (ChargeCreate, RefundConcurrent,
\* Destroy's refund condition, reclaimOrphanRow, ReconcileConcurrent).
SlotsCovered == \A c \in Cells : Held(c) <= cell[c] /\ cell[c] <= Limit

Running(c) == {k \in Keys : /\ Bill(k) = c
                           /\ rowState[k] = "ACTIVE" /\ bound[k]
                           /\ box[k] = "running"}

\* The cap as a tenant meets it: a cell never counts fewer sessions than are
\* running on it (killswitch.go: refunds "never drive the count below the
\* true live count"; quota.go: Limits.ConcurrentSessionsPerTenant).
RunningCounted == \A c \in Cells : Cardinality(Running(c)) <= cell[c]

Ledger(c) == INSTANCE SlotLedger WITH held <- Held(c), cell <- cell[c]

\* Each cell, with the handlers that move it, implements the slot ledger: a
\* slot is handed from create to row to teardown and refunded at most once.
LedgerRefined ==
    /\ \A c \in Cells : Ledger(c)!Init
    /\ [][\A c \in Cells : Ledger(c)!Next \/ UNCHANGED Ledger(c)!vars]_vars

-----------------------------------------------------------------------------
(* What is left behind. *)

Quiet == phase = "up" /\ \A p \in Calls : pc[p] = "idle"

Billed(c) == {k \in Keys : Bill(k) = c /\ Live(k)}

\* When nothing is in progress every live row is an ACTIVE bound session and
\* every cell counts exactly those: an unwound create and a finished teardown,
\* overlapping in any way, leave no reservation behind and neither leak nor
\* double-refund a slot (Manager.Create, unwind, Destroy, reapOne).
NoSlotResidue ==
    Quiet => /\ \A k \in Keys : Live(k) => rowState[k] = "ACTIVE" /\ bound[k]
             /\ \A c \in Cells : cell[c] = Cardinality(Billed(c))

\* When nothing is in progress the host holds a container and a handoff root
\* for exactly the live rows: no failed create and no teardown strands one
\* (unwind, the finalizer's scrubHandoffRoot, Materialize's rollback).
NoHostResidue == Quiet => \A k \in Keys : /\ Live(k) <=> box[k] # "none"
                                          /\ Live(k) <=> root[k]

\* After directions 1 and 2 of the boot sweep rows and containers agree both
\* ways: no container without a live row, no live row without a container
\* (Manager.Reconcile).
BootAgreement == phase = "dir3" => \A k \in Keys : Live(k) <=> box[k] # "none"

\* A session that is ACTIVE with a running container when the daemon boots
\* keeps its row and its container through the sweep (Manager.Reconcile:
\* "never killed").
RestartKeepsSessions ==
    [][\A k \in Keys : /\ phase \in Phases \ {"up", "down"}
                       /\ rowState[k] = "ACTIVE" /\ k \in sweep.alive
                       /\ Durable \/ phase' # "down"
                       => rowState'[k] = "ACTIVE" /\ (box[k] # "none" => box'[k] # "none")]_vars

\* When the sweep ends, the cell of every owner it found a row of equals the
\* number of live sessions it bills (Direction 3, ReconcileConcurrent).
ListedCellsHealed ==
    [][phase = "dir3" /\ phase' = "up" =>
         \A k \in sweep.rows : cell[Bill(k)] = Cardinality(Billed(Bill(k)))]_vars

-----------------------------------------------------------------------------
(* The kill switch. *)

Sweeping == \E p \in Calls : pc[p] \in {"kList", "kNext", "kKill", "kRelease", "kRefund"}

\* Once RevokeAll has engaged DENY-ALL and finished its sweep, the only live
\* rows are ones a create inserted after its own, earlier deny check: the
\* enumeration misses no row that existed when DENY-ALL was engaged, and no
\* released create comes back to life (RevokeAll, Reserve, Commit).
OnlyLateRowsSurvive ==
    All \in deny /\ ~Sweeping => \A k \in Keys : Live(k) => k \in late

-----------------------------------------------------------------------------
(* What must eventually happen. *)

\* Every call returns: no order of creates, destroys, execs, sweeps and kill
\* switches leaves a handler waiting for a key lock for ever (the stripe held
\* across Reserve, taken again by Commit, Bind and Release).
CallsReturn == \A p \in Calls : pc[p] # "idle" ~> pc[p] = "idle"

\* A session idle past its TTL is reaped or touched, whatever the requests
\* do meanwhile (startIdleReaper, ReapIdle).
IdleSessionsReaped ==
    \A k \in Keys : rowState[k] = "ACTIVE" /\ stamp[k] = "idle"
                      ~> rowState[k] # "ACTIVE" \/ stamp[k] # "idle"

\* A live row that DENY-ALL meets is released, unless the operator lifts the
\* posture first or the row slipped in behind the deny check (RevokeAll).
DeniedRowsGo ==
    \A k \in Keys : All \in deny /\ Live(k) /\ k \notin late
                      ~> All \notin deny \/ ~Live(k) \/ k \in late
=============================================================================
