----------------------------- MODULE MCOverlaps -----------------------------
(***************************************************************************)
(* Three deployments of Lifecycle side by side: the one the constants      *)
(* describe, and two where everything comes to rest.                       *)
(***************************************************************************)
EXTENDS MCLifecycle

VARIABLE part  \* which of the three a behaviour is about

\* Destroys in the middle of creates, over the in-memory store.
Memory == INSTANCE Lifecycle WITH
            Durable <- FALSE,
            Handlers <- {"create", "destroy", "exec", "reap"},
            Faults <- {"stage"},
            Overlaps <- {"destroyMidCreate"}

\* Every handler, over the Postgres store, one at a time on a key.
Ordered == INSTANCE Lifecycle WITH
             Durable <- TRUE,
             Handlers <- {"create", "destroy", "reap", "revokeAll", "revokeOne", "resume"},
             Faults <- {"stage"},
             Overlaps <- {}

OverlapsInit == Init /\ part \in {"given", "memory", "ordered"}

OverlapsNext == /\ \/ part = "given" /\ Next
                   \/ part = "memory" /\ Memory!Next
                   \/ part = "ordered" /\ Ordered!Next
                /\ UNCHANGED part

OverlapsSpec == OverlapsInit /\ [][OverlapsNext]_<<vars, part>>

\* NoSlotResidue where refunds do not fail and keys are not reused (Manager.Create,
\* unwind, Destroy, reapOne): at rest every live row is a bound ACTIVE session and
\* every cell counts exactly those, destroys in the middle of creates included.
SlotsAtRest == part = "memory" => NoSlotResidue

\* NoHostResidue where no teardown overlaps a create of the same key (unwind,
\* scrubHandoffRoot, Materialize's rollback): at rest the host holds a container
\* and a handoff root for exactly the live rows.
HostAtRest == part = "ordered" => NoHostResidue

\* Nothing is left over (Manager.Create, unwind, Destroy, reapOne, forceKillRow):
\* when no call is in progress, rows, cells, containers and handoff roots agree.
RestAgrees == SlotsAtRest /\ HostAtRest
=============================================================================
