----------------------------- MODULE SlotLedger -----------------------------
(***************************************************************************)
(* What the concurrent-session quota promises, for one counter cell.       *)
(*                                                                         *)
(* The control plane charges a cell by one before a session exists and     *)
(* refunds it by one after the session is gone.  Between the two, exactly  *)
(* one party is answerable for the slot: the create that charged it, the   *)
(* session row it became, or the teardown that is about to refund it.      *)
(* held counts those parties; cell is the stored counter.  A slot may get  *)
(* lost (a refund fails, the daemon crashes) and then only the boot sweep  *)
(* brings the counter down again.  No step may leave the counter below the *)
(* number of slots somebody answers for: such a step lets a later create   *)
(* exceed the cap.                                                         *)
(***************************************************************************)
EXTENDS Integers

CONSTANT Limit  \* Limits.ConcurrentSessionsPerTenant

VARIABLES held,  \* slots some create, session or teardown answers for
          cell   \* the DimConcurrentSessions counter

vars == <<held, cell>>

Init == held = 0 /\ cell = 0

\* A create charges the cell; refused, not queued, at the limit.
Admit == /\ cell < Limit
         /\ cell' = cell + 1
         /\ held' = held + 1

\* The party answering for a slot refunds it.
Return == /\ held > 0
          /\ cell' = cell - 1
          /\ held' = held - 1

\* Slots become unanswered for: failed refunds, or a crash that takes the
\* whole volatile state with it.  The counter keeps the charge.
Lose == /\ held' \in 0..(held - 1)
        /\ cell' = cell

\* The boot sweep lowers a drifted counter, never below the held slots.
Heal == /\ cell' \in held..(cell - 1)
        /\ held' = held

\* The process held everything in memory and is gone.
Wipe == held' = 0 /\ cell' = 0

Next == Admit \/ Return \/ Lose \/ Heal \/ Wipe

Spec == Init /\ [][Next]_vars

-----------------------------------------------------------------------------

\* Every held slot is charged and the charges respect the limit, so a tenant
\* never has more sessions in any stage of their life than the cap
\* (quota.Limits.ConcurrentSessionsPerTenant).
Covered == /\ held \in Nat
           /\ cell \in Nat
           /\ held <= cell
           /\ cell <= Limit
=============================================================================
