-------------------------- MODULE LifecycleProofs ---------------------------
(***************************************************************************)
(* Proofs about Lifecycle for every set of keys, owners, cells, requests,  *)
(* handlers, faults and overlaps: the types, and what the boot sweep       *)
(* leaves behind and never touches.                                        *)
(***************************************************************************)
EXTENDS Lifecycle, FiniteSetTheorems, TLAPS

\* Time for the solver on the larger leaves.
USE SMTT(60)

-----------------------------------------------------------------------------
(* Types. *)

\* The steps at which a call has no key of its own.
Unkeyed == {"idle", "kList", "rNext", "kNext"}

\* Every other step works on a key, and the boot sweep's refund on a row: what
\* TypeOK lacks to be inductive.
Keyed == /\ \A p \in Calls : pc[p] \notin Unkeyed => key[p] \in Keys
         /\ phase = "dir2Refund" => sweep.row \in Keys

TypeInv == TypeOK /\ Keyed

\* What TypeInv says of the rows (SessionRow, the activity index).
LEMMA RowTypes == TypeInv => /\ rowState \in [Keys -> RowStates]
                             /\ bound \in [Keys -> BOOLEAN]
                             /\ stamp \in [Keys -> Stamps]
  BY Zenon DEF TypeInv, TypeOK, StoreType

\* What TypeInv says of the concurrent-session counters (cells).
LEMMA CellTypes == TypeInv => cell \in [Cells -> Nat]
  BY Zenon DEF TypeInv, TypeOK, StoreType

\* What TypeInv says of the calls in progress.
LEMMA CallTypes == TypeInv => /\ pc \in [Calls -> Steps]
                              /\ key \in [Calls -> Keys \cup {NoKey}]
                              /\ todo \in [Calls -> SUBSET Keys]
                              /\ seen \in [Calls -> RowStates]
  BY Zenon DEF TypeInv, TypeOK

\* What TypeInv says of the keys they work on.
LEMMA StepKeys == TypeInv => \A p \in Calls : pc[p] \notin Unkeyed => key[p] \in Keys
  BY Zenon DEF TypeInv, Keyed

\* What TypeInv says of the boot sweep's lists (Manager.Reconcile).
LEMMA SweepTypes == TypeInv => /\ phase \in Phases
                               /\ sweep \in [alive : SUBSET Keys, rows : SUBSET Keys,
                                             active : SUBSET Keys, todo : SUBSET Keys,
                                             row : Keys \cup {NoKey}]
  BY Zenon DEF TypeInv, TypeOK

\* What TypeInv says of the containers and the handoff roots.
LEMMA HostTypes == TypeInv => /\ box \in [Keys -> {"none", "running", "exited"}]
                              /\ root \in [Keys -> BOOLEAN]
  BY Zenon DEF TypeInv, TypeOK

\* A fresh store, a host without containers and a daemon that is down are
\* well-typed (NewInMemory, a first boot).
LEMMA InitTyped == Init => TypeInv
  BY StoreAssumption, LifecycleAssumption
  DEF Init, TypeInv, TypeOK, Keyed, Unkeyed, StoreInit, StoreType, RowStates, Stamps, Calls,
      Steps, CreateSteps, HoldsReceipt, OwnsRow, TeardownSteps, OwesRefund, Phases, NoSweep

\* A refund saturates at zero, so the counter stays a natural number
\* (quota.refundCell).
LEMMA RefundTyped ==
  ASSUME cell \in [Cells -> Nat], NEW c, RefundOne(c)
  PROVE  cell' \in [Cells -> Nat]
<1>1. \A d \in Cells : (IF cell[d] > 0 THEN cell[d] - 1 ELSE 0) \in Nat
  OBVIOUS
<1> QED
  BY <1>1, ZenonT(60) DEF RefundOne

\* The states of a container, as in TypeOK.
Boxes == {"none", "running", "exited"}

\* A finalizer run, whichever of its steps failed, leaves a container and a
\* handoff root in one of their states (GracefulStop, ForceKill).
LEMMA FinalizeTyped ==
  ASSUME box \in [Keys -> Boxes], root \in [Keys -> BOOLEAN], NEW k \in Keys,
         Finalize(k) \/ FinalizeFails(k)
  PROVE  box' \in [Keys -> Boxes] /\ root' \in [Keys -> BOOLEAN]
<1>1. CASE Finalize(k)
  BY <1>1, Zenon DEF Finalize, Boxes
<1>2. CASE FinalizeFails(k)
  <2>1. PICK b \in {box[k], "none"}, r \in {root[k], FALSE} :
          box' = [box EXCEPT ![k] = b] /\ root' = [root EXCEPT ![k] = r]
    BY <1>2, ZenonT(60) DEF FinalizeFails
  <2>2. b \in Boxes /\ r \in BOOLEAN
    BY Zenon DEF Boxes
  <2> QED
    BY <2>1, <2>2, Zenon
<1> QED
  BY <1>1, <1>2, Zenon

\* Staging or removing the handoff root of a key keeps the roots well-typed
\* (handoff.Stage, Unstage).
LEMMA RootTyped ==
  ASSUME root \in [Keys -> BOOLEAN], NEW k, NEW b \in BOOLEAN,
         root' = [root EXCEPT ![k] = b]
  PROVE  root' \in [Keys -> BOOLEAN]
  BY Zenon

\* Writing a RESERVED row over a tombstone keeps the row well-typed (Reserve).
LEMMA ReserveInsertTyped ==
  ASSUME StoreType, NEW k \in Keys, ReserveInsert(k)
  PROVE  /\ rowState' \in [Keys -> RowStates]
         /\ bound' \in [Keys -> BOOLEAN]
         /\ stamp' \in [Keys -> Stamps]
<1>1. bound' \in [Keys -> BOOLEAN]
  BY Zenon DEF StoreType, ReserveInsert
<1>2. rowState' \in [Keys -> RowStates]
  BY Zenon DEF StoreType, ReserveInsert, RowStates
<1>3. stamp' \in [Keys -> Stamps]
  BY ZenonT(60) DEF StoreType, ReserveInsert, Stamps
<1> QED
  BY <1>1, <1>2, <1>3, Zenon

\* Every stage of the create pipeline and every compensator of its unwind
\* preserves the types (Manager.Create, unwind).
LEMMA CreateTyped ==
  ASSUME TypeInv, NEW p \in Calls, CreateStep(p)
  PROVE  TypeInv'
<1> USE DEF TypeInv, TypeOK, Keyed, Unkeyed, StoreType, RowStates, Stamps, Steps,
            CreateSteps, HoldsReceipt, OwnsRow, TeardownSteps, OwesRefund, store,
            rowVars, callVars, host, boot, Goto, Done
<1>1. CASE TryResume(p)
  BY <1>1 DEF TryResume
<1>2. CASE StageQuotaCharge(p)
  BY <1>2 DEF StageQuotaCharge, ChargeOne
<1>3. CASE StageReserveCheck(p)
  BY <1>3 DEF StageReserveCheck, ReserveCheck
<1>4. CASE StageReserveInsert(p)
  BY <1>4, ReserveInsertTyped DEF StageReserveInsert, ReserveUnlock
<1>5. CASE StageStageHandoff(p)
  <2>1. root' \in [Keys -> BOOLEAN]
    BY <1>5, RootTyped, Zenon DEF StageStageHandoff
  <2> QED
    BY <1>5, <2>1 DEF StageStageHandoff
<1>6. CASE StageRenderPushMount(p)
  BY <1>6 DEF StageRenderPushMount
<1>7. CASE StageMaterialize(p)
  BY <1>7 DEF StageMaterialize
<1>8. CASE StageCommit(p)
  BY <1>8 DEF StageCommit, CommitRow
<1>9. CASE StageActivate(p)
  BY <1>9 DEF StageActivate, RecordActivation
<1>10. CASE StageBind(p)
  <2>1. bound' \in [Keys -> BOOLEAN]
    BY <1>10, Zenon DEF StageBind, BindContainerName
  <2> QED
    BY <1>10, <2>1 DEF StageBind
<1>11. CASE UnwindForceKill(p)
  BY <1>11, FinalizeTyped, Zenon DEF UnwindForceKill, Boxes
<1>12. CASE UnwindUnstage(p)
  <2>1. root' \in [Keys -> BOOLEAN]
    BY <1>12, RootTyped, ZenonT(60) DEF UnwindUnstage
  <2> QED
    BY <1>12, <2>1, Zenon DEF UnwindUnstage
<1>13. CASE UnwindRelease(p)
  BY <1>13 DEF UnwindRelease, ReleaseRow
<1>14. CASE UnwindRefund(p)
  BY <1>14, RefundTyped, Zenon DEF UnwindRefund
<1> QED
  BY <1>1, <1>2, <1>3, <1>4, <1>5, <1>6, <1>7, <1>8, <1>9, <1>10, <1>11, <1>12, <1>13, <1>14, ZenonT(60) DEF CreateStep

\* Every step of Destroy, of the idle reaper and of the kill switch preserves
\* the types.
LEMMA TeardownTyped ==
  ASSUME TypeInv, NEW p \in Calls, TeardownStep(p)
  PROVE  TypeInv'
<1> USE DEF TypeInv, TypeOK, Keyed, Unkeyed, StoreType, RowStates, Stamps, Steps,
            CreateSteps, HoldsReceipt, OwnsRow, TeardownSteps, OwesRefund, store,
            rowVars, callVars, host, boot, Goto, Done
<1>1. CASE DestroyKill(p)
  BY <1>1, FinalizeTyped DEF DestroyKill, Boxes
<1>2. CASE DestroyRelease(p)
  BY <1>2 DEF DestroyRelease, ReleaseRow
<1>3. CASE DestroyRefund(p)
  BY <1>3, RefundTyped, Zenon DEF DestroyRefund
<1>4. CASE ReapNext(p)
  BY <1>4 DEF ReapNext
<1>5. CASE ReapKill(p)
  BY <1>5, FinalizeTyped DEF ReapKill, Boxes
<1>6. CASE ReapRelease(p)
  BY <1>6 DEF ReapRelease, ReleaseRow
<1>7. CASE ReapRefund(p)
  BY <1>7, RefundTyped DEF ReapRefund
<1>8. CASE RevokeAllList(p)
  BY <1>8, Zenon DEF RevokeAllList, LiveSessions
<1>9. CASE ForceKillKey(p)
  BY <1>9 DEF ForceKillKey
<1>10. CASE RevokeNext(p)
  BY <1>10 DEF RevokeNext
<1>11. CASE ForceKillRow(p)
  BY <1>11, FinalizeTyped DEF ForceKillRow, Boxes
<1>12. CASE ForceReleaseRow(p)
  BY <1>12 DEF ForceReleaseRow, ReleaseRow
<1>13. CASE ForceRefund(p)
  BY <1>13, RefundTyped, Zenon DEF ForceRefund
<1> QED
  BY <1>1, <1>2, <1>3, <1>4, <1>5, <1>6, <1>7, <1>8, <1>9, <1>10, <1>11, <1>12, <1>13, ZenonT(60) DEF TeardownStep

\* A crash takes the handlers in progress and the in-process state with it and
\* leaves a well-typed store and host (openStore, NewInMemory).
LEMMA CrashTyped == ASSUME TypeInv, Crash PROVE TypeInv'
<1> USE DEF TypeInv, TypeOK
<1>1. /\ rowState' \in [Keys -> RowStates]
      /\ deny' \in SUBSET (Keys \cup {All})
      /\ cell' \in [Cells -> Nat]
  BY DEF Crash, StoreType, RowStates
<1>2. bound' \in [Keys -> BOOLEAN]
  <2>1. bound' = bound \/ bound' = [k \in Keys |-> FALSE]
    BY Zenon DEF Crash
  <2> QED
    BY <2>1, Zenon DEF StoreType
<1>3. stamp' \in [Keys -> Stamps] /\ stripe' \in SUBSET Keys
  BY Zenon DEF Crash, Stamps
<1>4. /\ pc' = [p \in Calls |-> "idle"]
      /\ pc' \in [Calls -> Steps]
      /\ key' \in [Calls -> Keys \cup {NoKey}]
      /\ todo' \in [Calls -> SUBSET Keys]
      /\ seen' \in [Calls -> RowStates]
  BY Zenon DEF Crash, Steps, RowStates
<1>5. box' = box /\ root' = root /\ late' = late /\ phase' = "down" /\ sweep' = NoSweep
  BY Zenon DEF Crash, Abort, host
<1>6. phase' \in Phases /\ sweep' \in [alive : SUBSET Keys, rows : SUBSET Keys,
                                        active : SUBSET Keys, todo : SUBSET Keys,
                                        row : Keys \cup {NoKey}]
  BY <1>5, Zenon DEF Phases, NoSweep
<1>7. Keyed'
  BY <1>4, <1>5, Zenon DEF Keyed, Unkeyed
<1> QED
  BY <1>1, <1>2, <1>3, <1>4, <1>5, <1>6, <1>7, Zenon DEF StoreType

\* Arrivals, exec touches, the lifting of a deny entry, crashes and the
\* environment preserve the types.
LEMMA OtherTyped ==
  ASSUME TypeInv,
         \/ \E p \in Calls : ExecTouch(p)
         \/ \E p \in Requests : Arrival(p)
         \/ ReapList(Reaper)
         \/ \E e \in Keys \cup {All} : LiftDeny(e)
         \/ Crash
         \/ \E k \in Keys : ContainerExits(k) \/ IdleTTLPasses(k)
  PROVE  TypeInv'
<1>0. CASE Crash
  BY <1>0, CrashTyped, Zenon
<1> USE DEF TypeInv, TypeOK, Keyed, Unkeyed, StoreType, RowStates, Stamps, Steps,
            CreateSteps, HoldsReceipt, OwnsRow, TeardownSteps, OwesRefund, store,
            rowVars, callVars, host, boot, Done, Begin
<1>1. ASSUME NEW p \in Calls, ExecTouch(p) PROVE TypeInv'
  BY <1>1 DEF ExecTouch, TouchActivity
<1>2. ASSUME NEW p \in Requests, NEW k \in Keys, CreateStart(p, k) PROVE TypeInv'
  BY <1>2, Zenon DEF CreateStart, Calls
<1>3. ASSUME NEW p \in Requests, NEW k \in Keys, DestroyLookup(p, k) PROVE TypeInv'
  BY <1>3, Zenon DEF DestroyLookup, Calls
<1>4. ASSUME NEW p \in Requests, NEW k \in Keys, ExecDispatch(p, k) PROVE TypeInv'
  BY <1>4, Zenon DEF ExecDispatch, Calls
<1>5. ASSUME NEW p \in Requests, NEW k \in Keys, RevokeOne(p, k) PROVE TypeInv'
  BY <1>5, Zenon DEF RevokeOne, SetDeny, Calls
<1>6. ASSUME NEW p \in Requests, RevokeAll(p) PROVE TypeInv'
  BY <1>6, Zenon DEF RevokeAll, SetDeny, Calls
<1>7. CASE ReapList(Reaper)
  BY <1>7, Zenon DEF ReapList, IdleSessions, Calls
<1>8. ASSUME NEW e \in Keys \cup {All}, LiftDeny(e) PROVE TypeInv'
  BY <1>8, Zenon DEF LiftDeny, ClearDeny
<1>10. ASSUME NEW k \in Keys, ContainerExits(k) PROVE TypeInv'
  BY <1>10, Zenon DEF ContainerExits
<1>11. ASSUME NEW k \in Keys, IdleTTLPasses(k) PROVE TypeInv'
  BY <1>11, Zenon DEF IdleTTLPasses
<1> QED
  BY <1>1, <1>2, <1>3, <1>4, <1>5, <1>6, <1>7, <1>8, <1>0, <1>10, <1>11, ZenonT(60) DEF Arrival

\* Every step of the boot sweep preserves the types; Direction 3 writes a
\* number of rows, which is finite (Manager.Reconcile).
LEMMA BootTyped ==
  ASSUME TypeInv, BootStep
  PROVE  TypeInv'
<1> USE DEF TypeInv, TypeOK, Keyed, Unkeyed, StoreType, RowStates, Stamps, store,
            rowVars, callVars, host, boot, Abort, NoSweep, Phases
<1>1. CASE ReconcileList
  BY <1>1, Zenon DEF ReconcileList, Alive, LiveSessions, Orphans, ReseedActivity
<1>2. CASE Direction1
  BY <1>2, FinalizeTyped DEF Direction1, Boxes, LostRows
<1>3. CASE Direction2
  <2>1. UNCHANGED <<bound, deny, cell, stripe, callVars, host, late>>
    BY <1>3, ZenonT(60) DEF Direction2
  <2>2. ASSUME NEW k \in sweep.todo, ReleaseRow(k), phase' = "dir2Refund",
               sweep' = [sweep EXCEPT !.todo = @ \ {k}, !.row = k]
        PROVE  TypeInv'
    <3>1. k \in Keys
      BY Zenon
    <3>2. sweep' \in [alive : SUBSET Keys, rows : SUBSET Keys, active : SUBSET Keys,
                      todo : SUBSET Keys, row : Keys \cup {NoKey}]
      BY <2>2, <3>1, ZenonT(60)
    <3>3. sweep'.row = k
      BY <2>2, Zenon
    <3> QED
      BY <2>1, <2>2, <3>1, <3>2, <3>3, Zenon DEF ReleaseRow
  <2>3. CASE Abort /\ UNCHANGED <<rowState, stamp>>
    BY <2>1, <2>3, Zenon
  <2>4. CASE /\ phase' = "dir3"
             /\ sweep' = [sweep EXCEPT !.todo = sweep.rows]
             /\ UNCHANGED <<rowState, stamp>>
    BY <2>1, <2>4, Zenon
  <2> QED
    BY <1>3, <2>2, <2>3, <2>4, ZenonT(60) DEF Direction2
<1>4. CASE Direction2Refund
  BY <1>4, RefundTyped DEF Direction2Refund
<1>5. CASE Direction3
  <2>1. ASSUME NEW o PROVE LiveCount(o) \in Nat
    <3>1. IsFiniteSet({k \in sweep.active \cap sweep.alive : OwnerOf[k] = o})
      BY FS_Subset, StoreAssumption, Zenon
    <3> QED
      BY <3>1, FS_CardinalityType, Zenon DEF LiveCount
  <2>2. ASSUME NEW o, ReconcileConcurrent(o) PROVE cell' \in [Cells -> Nat]
    BY <2>1, <2>2, ZenonT(60) DEF ReconcileConcurrent
  <2> QED
    BY <1>5, <2>2 DEF Direction3
<1> QED
  BY <1>1, <1>2, <1>3, <1>4, <1>5, ZenonT(30) DEF BootStep

\* A step that changes nothing preserves the types.
LEMMA StutterTyped == TypeInv /\ UNCHANGED vars => TypeInv'
  BY Zenon DEF TypeInv, TypeOK, Keyed, StoreType, vars, store, callVars, host, boot

\* The strengthened type invariant is inductive over every handler.
LEMMA TypeInvStep == TypeInv /\ [Next]_vars => TypeInv'
  BY CreateTyped, TeardownTyped, OtherTyped, BootTyped, StutterTyped, Zenon DEF Next

\* The store, the calls in progress, the host and the boot sweep stay
\* well-typed whatever handlers, faults and overlaps there are: no counter goes
\* negative, no step works without a key.
THEOREM LifecycleTyped == Spec => []TypeOK
<1>1. TypeInv => TypeOK
  BY Zenon DEF TypeInv
<1> QED
  BY InitTyped, TypeInvStep, <1>1, PTL DEF Spec

-----------------------------------------------------------------------------
(* The boot sweep. *)

\* What the sweep keeps: live rows whose container runs.
Kept == sweep.rows \cap sweep.alive

\* While the daemon boots nothing else runs, and the sweep's lists divide the
\* containers and the rows into what it still has to do and what it keeps.
BootInv ==
    /\ phase # "up" => \A p \in Calls : pc[p] = "idle"
    /\ phase = "dir1" =>
         /\ \A k \in Keys : Live(k) <=> k \in sweep.rows
         /\ \A k \in Keys : box[k] # "none" <=> k \in sweep.todo \cup Kept
         /\ sweep.todo \cap Kept = {}
    /\ phase \in {"dir2", "dir2Refund"} =>
         /\ \A k \in Keys : Live(k) <=> k \in sweep.todo \cup Kept
         /\ \A k \in Keys : box[k] # "none" <=> k \in Kept
         /\ sweep.todo \cap sweep.alive = {}
    /\ phase = "dir3" => \A k \in Keys : Live(k) <=> box[k] # "none"

\* Only a call in progress takes a handler step, and no handler step moves the
\* daemon between its boot and its service.
LEMMA CallStepBusy ==
  ASSUME NEW p \in Calls, CreateStep(p) \/ TeardownStep(p) \/ ExecTouch(p)
  PROVE  pc[p] # "idle" /\ phase' = phase
<1>1. CASE CreateStep(p)
  BY <1>1, ZenonT(60) DEF CreateStep, TryResume, StageQuotaCharge, StageReserveCheck,
     StageReserveInsert, StageStageHandoff, StageRenderPushMount, StageMaterialize,
     StageCommit, StageActivate, StageBind, UnwindForceKill, UnwindUnstage,
     UnwindRelease, UnwindRefund, boot
<1>2. CASE TeardownStep(p)
  BY <1>2, ZenonT(60) DEF TeardownStep, DestroyKill, DestroyRelease, DestroyRefund, ReapNext,
     ReapKill, ReapRelease, ReapRefund, RevokeAllList, ForceKillKey, RevokeNext,
     ForceKillRow, ForceReleaseRow, ForceRefund, boot
<1>3. CASE ExecTouch(p)
  BY <1>3, ZenonT(60) DEF ExecTouch, boot
<1> QED
  BY <1>1, <1>2, <1>3, Zenon

\* Requests arrive only once the listeners are bound, after the sweep (serve).
LEMMA ArrivalUp ==
  ASSUME NEW p \in Requests, Arrival(p) PROVE phase = "up" /\ phase' = "up"
  BY ZenonT(60) DEF Arrival, CreateStart, DestroyLookup, ExecDispatch, RevokeOne, RevokeAll,
     Invoke, boot

\* The division of containers and rows by the sweep's lists is inductive:
\* Direction 1 kills its list, Direction 2 releases its list, neither touches
\* what is kept, and nobody else writes meanwhile.
LEMMA BootInvStep == TypeInv /\ BootInv /\ [Next]_vars => BootInv'
<1> SUFFICES ASSUME TypeInv, BootInv, [Next]_vars PROVE BootInv'
  BY Zenon
<1>1. ASSUME NEW p \in Calls, CreateStep(p) \/ TeardownStep(p) \/ ExecTouch(p)
      PROVE  BootInv'
  BY <1>1, CallStepBusy, Zenon DEF BootInv
<1>2. ASSUME NEW p \in Requests, Arrival(p) PROVE BootInv'
  BY <1>2, ArrivalUp, Zenon DEF BootInv
<1>3. CASE ReapList(Reaper)
  BY <1>3, Zenon DEF BootInv, ReapList, Invoke, boot
<1>4. ASSUME NEW e, LiftDeny(e) PROVE BootInv'
  BY <1>4, Zenon DEF BootInv, LiftDeny, boot
<1>5. CASE Crash
  BY <1>5, Zenon DEF BootInv, Crash, Abort
<1>6. ASSUME NEW k \in Keys, ContainerExits(k) PROVE BootInv'
  BY <1>6 DEF BootInv, ContainerExits, Kept, Live, store, callVars, boot, TypeInv, TypeOK
<1>7. ASSUME NEW k \in Keys, IdleTTLPasses(k) PROVE BootInv'
  BY <1>7, Zenon DEF BootInv, IdleTTLPasses, Kept, Live, callVars, host, boot
<1>8. CASE ReconcileList
  BY <1>8, Zenon DEF BootInv, ReconcileList, Kept, Live, LiveSessions, Alive, Orphans,
     callVars, host
<1>9. CASE Direction1
  BY <1>9 DEF BootInv, Direction1, Kept, Live, Finalize, Abort, LostRows, store, callVars,
     host, TypeInv, TypeOK
<1>10. CASE Direction2
  <2>1. phase = "dir2" /\ UNCHANGED <<pc, box>>
    BY <1>10, ZenonT(60) DEF Direction2, callVars, host
  <2>2. ASSUME NEW k \in sweep.todo, ReleaseRow(k), phase' = "dir2Refund",
               sweep' = [sweep EXCEPT !.todo = @ \ {k}, !.row = k]
        PROVE  BootInv'
    <3>1. /\ sweep'.todo = sweep.todo \ {k}
          /\ sweep'.rows = sweep.rows
          /\ sweep'.alive = sweep.alive
      BY <2>2, Zenon DEF TypeInv, TypeOK
    <3>2. \A j \in Keys : Live(j)' <=> Live(j) /\ j # k
      BY <2>2, Zenon DEF ReleaseRow, Live, TypeInv, TypeOK, StoreType
    <3> QED
      BY <2>1, <2>2, <3>1, <3>2, Zenon DEF BootInv, Kept
  <2>3. CASE Abort
    BY <2>1, <2>3, Zenon DEF BootInv, Abort
  <2>4. CASE /\ sweep.todo = {}
             /\ phase' = "dir3"
             /\ UNCHANGED <<rowState, stamp>>
    BY <2>1, <2>4, Zenon DEF BootInv, Kept, Live
  <2> QED
    BY <1>10, <2>2, <2>3, <2>4, ZenonT(60) DEF Direction2
<1>11. CASE Direction2Refund
  BY <1>11, Zenon DEF BootInv, Direction2Refund, Kept, Live, Abort, rowVars, callVars,
     host, TypeInv, TypeOK
<1>12. CASE Direction3
  BY <1>12, Zenon DEF BootInv, Direction3, Live, Abort, rowVars, callVars, host
<1>13. CASE UNCHANGED vars
  BY <1>13, Zenon DEF BootInv, Kept, Live, vars, store, callVars, host, boot
<1> QED
  BY <1>1, <1>2, <1>3, <1>4, <1>5, <1>6, <1>7, <1>8, <1>9, <1>10, <1>11, <1>12, <1>13,
     Zenon DEF Next, BootStep

\* Whatever crash, fault or overlap came before, when Direction 2 of the boot
\* sweep is done a container exists exactly for the live rows
\* (Manager.Reconcile).
THEOREM BootAgrees == Spec => []BootAgreement
<1>1. Init => BootInv
  BY Zenon DEF Init, BootInv
<1>2. BootInv => BootAgreement
  BY Zenon DEF BootInv, BootAgreement
<1> QED
  BY InitTyped, TypeInvStep, <1>1, BootInvStep, <1>2, PTL DEF Spec

\* No step taken during the boot sweep releases an ACTIVE row whose container
\* was found running, or removes its container.
LEMMA SweepKeeps ==
  ASSUME TypeInv, BootInv, [Next]_vars, NEW k \in Keys,
         phase \in Phases \ {"up", "down"},
         rowState[k] = "ACTIVE", k \in sweep.alive,
         Durable \/ phase' # "down"
  PROVE  rowState'[k] = "ACTIVE" /\ (box[k] # "none" => box'[k] # "none")
<1> USE DEF TypeInv, TypeOK, StoreType, BootInv, Phases, Kept, Live
<1>1. ASSUME NEW p \in Calls, CreateStep(p) \/ TeardownStep(p) \/ ExecTouch(p)
      PROVE  FALSE
  BY <1>1, CallStepBusy, Zenon
<1>2. ASSUME NEW p \in Requests, Arrival(p) PROVE FALSE
  BY <1>2, ArrivalUp, Zenon
<1>3. CASE ReapList(Reaper) \/ \E e : LiftDeny(e)
  BY <1>3, Zenon DEF ReapList, Invoke, LiftDeny
<1>4. CASE Crash
  BY <1>4, Zenon DEF Crash, Abort, host
<1>5. ASSUME NEW j \in Keys, ContainerExits(j) \/ IdleTTLPasses(j)
      PROVE  rowState'[k] = "ACTIVE" /\ (box[k] # "none" => box'[k] # "none")
  BY <1>5, SMTT(60) DEF ContainerExits, IdleTTLPasses, store, host
<1>6. CASE ReconcileList
  BY <1>6, Zenon DEF ReconcileList
<1>7. CASE Direction1
  <2>1. UNCHANGED rowState
    BY <1>7, Zenon DEF Direction1, store
  <2>2. k \notin sweep.todo
    BY <1>7, Zenon DEF Direction1
  <2>3. box'[k] = box[k]
    BY <1>7, <2>2, SMTT(60) DEF Direction1, Finalize, FinalizeFails, host
  <2> QED
    BY <2>1, <2>3, Zenon
<1>8. CASE Direction2
  <2>1. k \notin sweep.todo /\ UNCHANGED box
    BY <1>8, ZenonT(60) DEF Direction2, host
  <2>2. \/ UNCHANGED rowState
        \/ \E j \in sweep.todo : ReleaseRow(j)
    BY <1>8, Zenon DEF Direction2
  <2> QED
    BY <2>1, <2>2, Zenon DEF ReleaseRow
<1>9. CASE Direction2Refund \/ Direction3
  BY <1>9, Zenon DEF Direction2Refund, Direction3, rowVars, host
<1>10. CASE UNCHANGED vars
  BY <1>10, Zenon DEF vars, store, host
<1> QED
  BY <1>1, <1>2, <1>3, <1>4, <1>5, <1>6, <1>7, <1>8, <1>9, <1>10, ZenonT(60) DEF Next, BootStep

\* A restart never costs a session that is up its row or its container: the
\* sweep keeps every ACTIVE row it found running (Manager.Reconcile).
THEOREM SessionsSurviveBoot == Spec => RestartKeepsSessions
<1>1. Init => BootInv
  BY Zenon DEF Init, BootInv
<1>2. TypeInv /\ BootInv /\ [Next]_vars =>
        [\A k \in Keys : /\ phase \in Phases \ {"up", "down"}
                         /\ rowState[k] = "ACTIVE" /\ k \in sweep.alive
                         /\ Durable \/ phase' # "down"
                         => rowState'[k] = "ACTIVE" /\ (box[k] # "none" => box'[k] # "none")]_vars
  BY SweepKeeps, Zenon
<1> QED
  BY InitTyped, TypeInvStep, <1>1, BootInvStep, <1>2, PTL DEF Spec, RestartKeepsSessions
=============================================================================
