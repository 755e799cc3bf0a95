--------------------------- MODULE TeardownProofs ---------------------------
(***************************************************************************)
(* What Destroy, the idle reaper, the kill switch and the boot sweep have  *)
(* on the rows they take down, proved for every set of keys, owners, cells *)
(* and calls: the kill switch's sweep misses no row, and a row has one     *)
(* teardown at a time where the handlers keep out of each other's way.     *)
(***************************************************************************)
EXTENDS LifecycleProofs

\* Time for the solver on the larger leaves.
USE SMTT(60)

-----------------------------------------------------------------------------
(* What a step of a handler touches. *)

\* Nobody but p moved.
Alone(p) == \A q \in Calls \ {p} : /\ pc'[q] = pc[q] /\ key'[q] = key[q]
                                    /\ todo'[q] = todo[q] /\ seen'[q] = seen[q]

\* A create goes from one of its steps to another on its key, or ends.
Creates(p) == /\ Alone(p) /\ UNCHANGED <<phase, sweep, deny>>
              /\ pc[p] \in CreateSteps
              /\ (pc'[p] \in CreateSteps /\ key'[p] = key[p]) \/ pc'[p] = "idle"
              /\ todo'[p] \in {todo[p], {}}

\* The live rows and their bindings stay, and p owns a row exactly as before.
RowsStay(p) == /\ UNCHANGED <<bound, late>> /\ \A k \in Keys : Live(k)' <=> Live(k)
               /\ pc'[p] \in OwnsRow <=> pc[p] \in OwnsRow
               /\ UNCHANGED stamp \/ (pc[p] \in OwnsRow /\ RecordActivation(key[p]))

\* No slot is charged or refunded, and p comes to hold none.
CellsStay(p) == UNCHANGED cell /\ (pc'[p] \in HoldsReceipt => pc[p] \in HoldsReceipt)

\* Only Reserve's insert, the bind and the unwind's release write a row, only
\* the charge and the unwind's refund a cell (Manager.Create, unwind).
LEMMA CreateMoves ==
  ASSUME TypeInv, NEW p \in Calls, CreateStep(p)
  PROVE  /\ Creates(p)
         /\ RowsStay(p) \/ StageReserveInsert(p) \/ StageBind(p) \/ UnwindRelease(p)
         /\ CellsStay(p) \/ StageQuotaCharge(p) \/ UnwindRefund(p)
<1> USE DEF TypeInv, TypeOK, Creates, Alone, RowsStay, CellsStay, CreateSteps,
            HoldsReceipt, OwnsRow, Goto, Done, boot
<1>1. CASE TryResume(p)
  BY <1>1, Zenon DEF TryResume, store, Live
<1>2. CASE StageQuotaCharge(p)
  BY <1>2, Zenon DEF StageQuotaCharge, rowVars, Live
<1>3. CASE StageReserveCheck(p)
  BY <1>3, Zenon DEF StageReserveCheck, rowVars, Live
<1>4. CASE StageReserveInsert(p)
  BY <1>4, Zenon DEF StageReserveInsert
<1>5. CASE StageStageHandoff(p)
  BY <1>5, Zenon DEF StageStageHandoff, store, Live
<1>6. CASE StageRenderPushMount(p)
  BY <1>6, Zenon DEF StageRenderPushMount, store, Live
<1>7. CASE StageMaterialize(p)
  BY <1>7, Zenon DEF StageMaterialize, store, Live
<1>8. CASE StageCommit(p)
  BY <1>8, Zenon DEF StageCommit, CommitRow, Live, StoreType
<1>9. CASE StageActivate(p)
  BY <1>9, Zenon DEF StageActivate, Live
<1>10. CASE StageBind(p)
  BY <1>10, Zenon DEF StageBind
<1>11. CASE UnwindForceKill(p)
  BY <1>11, Zenon DEF UnwindForceKill, store, Live
<1>12. CASE UnwindUnstage(p)
  BY <1>12, Zenon DEF UnwindUnstage, store, Live
<1>13. CASE UnwindRelease(p)
  BY <1>13, Zenon DEF UnwindRelease
<1>14. CASE UnwindRefund(p)
  BY <1>14, Zenon DEF UnwindRefund, rowVars, Live
<1> HIDE DEF TypeInv, Creates, RowsStay, CellsStay
<1> QED
  BY <1>1, <1>2, <1>3, <1>4, <1>5, <1>6, <1>7, <1>8, <1>9, <1>10, <1>11, <1>12,
     <1>13, <1>14, Zenon DEF CreateStep

\* The steps of a teardown that hold on to a row.
ClaimSteps == TeardownSteps \ {"rNext", "kNext"}

\* Where the reaper and the kill switch are bound to release a row.
Releasing == {"rKill", "rRelease", "kKill", "kRelease"}

\* p refunds the slot of k once it has released its row.
Takes(p, k) == k \in todo[p] \/ (pc[p] \in Releasing /\ key[p] = k)

\* A teardown moves alone, becomes no create, and the only write to a row is
\* its release, which p lets go of.
Tears(p) == /\ Alone(p) /\ UNCHANGED <<phase, sweep, bound, deny, late>>
            /\ pc[p] \notin CreateSteps \cup {"idle"}
            /\ pc'[p] \notin CreateSteps \cup {"eTouch"}
            /\ \/ UNCHANGED <<rowState, stamp>>
               \/ /\ pc[p] \in {"dRelease", "rRelease", "kRelease"}
                  /\ ReleaseRow(key[p])
                  /\ pc'[p] \notin Releasing \cup {"dKill", "dRelease"}
                  /\ todo'[p] \subseteq todo[p]
            /\ pc'[p] \in {"dKill", "dRelease"} =>
                 /\ pc[p] = "dKill" /\ key'[p] = key[p] /\ seen'[p] = seen[p]
                 /\ UNCHANGED rowState

\* p has no more rows than it had, and is done with the lists it had.
TakesNoMore(p) == /\ \A k : (Takes(p, k)' => Takes(p, k)) /\ (Claims(p, k)' => Claims(p, k))
                  /\ pc'[p] \in ClaimSteps =>
                       \/ key'[p] \notin todo'[p]
                       \/ /\ pc[p] \in ClaimSteps
                          /\ key'[p] = key[p] /\ todo'[p] = todo[p]

\* Only the kill switch's listing and its lookup of one key take rows after the
\* call has begun (Destroy, reapOne, RevokeAll, forceKillKey, forceKillRow).
LEMMA TeardownMoves ==
  ASSUME TypeInv, NEW p \in Calls, TeardownStep(p)
  PROVE  /\ Tears(p)
         /\ \/ TakesNoMore(p)
            \/ RevokeAllList(p) /\ MayTeardown(LiveSessions) /\ MayKill(LiveSessions)
            \/ /\ ForceKillKey(p) /\ Live(key[p])
               /\ MayTeardown({key[p]}) /\ MayKill({key[p]})
<1> USE DEF TypeInv, TypeOK, Tears, TakesNoMore, Alone, Takes, Claims, ClaimSteps,
            Releasing, CreateSteps, HoldsReceipt, OwnsRow, TeardownSteps, OwesRefund,
            Goto, Done, boot
<1>1. ASSUME DestroyKill(p) PROVE Tears(p) /\ TakesNoMore(p)
  BY <1>1, Zenon DEF DestroyKill, store, rowVars
<1>2. ASSUME DestroyRelease(p) PROVE Tears(p) /\ TakesNoMore(p)
  BY <1>2, Zenon DEF DestroyRelease
<1>3. ASSUME DestroyRefund(p) PROVE Tears(p) /\ TakesNoMore(p)
  BY <1>3, Zenon DEF DestroyRefund, rowVars
<1>4. ASSUME ReapNext(p) PROVE Tears(p) /\ TakesNoMore(p)
  BY <1>4 DEF ReapNext, store, rowVars
<1>5. ASSUME ReapKill(p) PROVE Tears(p) /\ TakesNoMore(p)
  BY <1>5, Zenon DEF ReapKill, store, rowVars
<1>6. ASSUME ReapRelease(p) PROVE Tears(p) /\ TakesNoMore(p)
  BY <1>6, Zenon DEF ReapRelease
<1>7. ASSUME ReapRefund(p) PROVE Tears(p) /\ TakesNoMore(p)
  BY <1>7, Zenon DEF ReapRefund, rowVars
<1>8. ASSUME RevokeAllList(p) PROVE Tears(p)
  BY <1>8, Zenon DEF RevokeAllList, store, rowVars
<1>9. ASSUME ForceKillKey(p) PROVE Tears(p) /\ (Live(key[p]) \/ TakesNoMore(p))
  BY <1>9, Zenon DEF ForceKillKey, store, rowVars
<1>10. ASSUME RevokeNext(p) PROVE Tears(p) /\ TakesNoMore(p)
  BY <1>10 DEF RevokeNext, store, rowVars
<1>11. ASSUME ForceKillRow(p) PROVE Tears(p) /\ TakesNoMore(p)
  BY <1>11, Zenon DEF ForceKillRow, store, rowVars
<1>12. ASSUME ForceReleaseRow(p) PROVE Tears(p) /\ TakesNoMore(p)
  BY <1>12, Zenon DEF ForceReleaseRow
<1>13. ASSUME ForceRefund(p) PROVE Tears(p) /\ TakesNoMore(p)
  BY <1>13, Zenon DEF ForceRefund, rowVars
<1> HIDE DEF TypeInv, Tears, TakesNoMore
<1> QED
  BY <1>1, <1>2, <1>3, <1>4, <1>5, <1>6, <1>7, <1>8, <1>9, <1>10, <1>11, <1>12,
     <1>13, Zenon DEF TeardownStep

\* A call that begins, or ends with a touch, owns no row before or after; only a
\* destroy and the reaper's listing come to have rows to tear down.
Arrives(p) == /\ Alone(p) /\ UNCHANGED <<rowState, bound, cell, phase, sweep>>
              /\ pc[p] \notin CreateSteps /\ pc'[p] \notin HoldsReceipt \cup Releasing
              /\ pc[p] # "eTouch" => phase = "up" /\ UNCHANGED stamp
              /\ pc'[p] = "eTouch" => "exec" \in Handlers
              /\ pc'[p] \in ClaimSteps => /\ pc'[p] = "dKill" /\ key'[p] \in Keys
                                         /\ seen'[p] = rowState[key'[p]]
                                         /\ seen'[p] # "NONE"
              /\ todo'[p] \in {todo[p], {}, IdleSessions}

\* No arrival, no touch and no listing writes a row's state or a cell.
LEMMA ArrivalMoves ==
  ASSUME TypeInv, NEW p \in Calls,
         \/ ExecTouch(p) \/ RevokeAll(p) \/ ReapList(p)
         \/ \E k \in Keys : \/ CreateStart(p, k) \/ DestroyLookup(p, k)
                            \/ ExecDispatch(p, k) \/ RevokeOne(p, k)
  PROVE  Arrives(p)
<1> USE DEF TypeInv, TypeOK, Arrives, Alone, CreateSteps, HoldsReceipt, OwnsRow,
            Releasing, ClaimSteps, TeardownSteps, OwesRefund, Invoke, Begin, Done, boot
<1>1. CASE ExecTouch(p)
  BY <1>1, Zenon DEF ExecTouch
<1>2. CASE RevokeAll(p)
  BY <1>2, Zenon DEF RevokeAll, rowVars
<1>3. CASE ReapList(p)
  BY <1>3, Zenon DEF ReapList, store, rowVars
<1>4. ASSUME NEW k \in Keys, CreateStart(p, k) PROVE Arrives(p)
  BY <1>4, Zenon DEF CreateStart, store, rowVars
<1>5. ASSUME NEW k \in Keys, DestroyLookup(p, k) PROVE Arrives(p)
  BY <1>5, Zenon DEF DestroyLookup, store, rowVars
<1>6. ASSUME NEW k \in Keys, ExecDispatch(p, k) PROVE Arrives(p)
  BY <1>6, Zenon DEF ExecDispatch, store, rowVars
<1>7. ASSUME NEW k \in Keys, RevokeOne(p, k) PROVE Arrives(p)
  BY <1>7, Zenon DEF RevokeOne, rowVars
<1> HIDE DEF TypeInv, Arrives
<1> QED
  BY <1>1, <1>2, <1>3, <1>4, <1>5, <1>6, <1>7, Zenon

-----------------------------------------------------------------------------
(* The kill switch. *)

\* The steps at which a sweep has its list.
SweepSteps == {"kNext", "kKill", "kRelease", "kRefund"}

\* The sweep p has still to list k, has it on its list, or is tearing it down.
Reaches(p, k) == \/ pc[p] = "kList"
                 \/ pc[p] \in SweepSteps /\ k \in todo[p]
                 \/ pc[p] \in {"kKill", "kRelease"} /\ key[p] = k

\* Under DENY-ALL some sweep reaches every live row that was not inserted
\* since: the strengthening that makes OnlyLateRowsSurvive inductive.
DenyInv == All \in deny => \A k \in Keys : Live(k) /\ k \notin late
                                             => \E p \in Calls : Reaches(p, k)

\* A step of a call that reaches nothing keeps the invariant, provided it
\* brings no row to life that is not marked as late (every handler but the
\* sweep itself).
LEMMA NotReaching ==
  ASSUME NEW p \in Calls, DenyInv, TypeInv,
         pc[p] \notin SweepSteps \cup {"kList"},
         \A q \in Calls \ {p} : /\ pc'[q] = pc[q]
                                /\ key'[q] = key[q]
                                /\ todo'[q] = todo[q],
         UNCHANGED deny,
         \A k \in Keys : Live(k)' /\ k \notin late' => (Live(k) /\ k \notin late) \/ All \notin deny
  PROVE  DenyInv'
  BY DEF DenyInv, Reaches, SweepSteps

\* A create brings a row to life only in Reserve's insert, which marks it late
\* under DENY-ALL; Commit finds the row RESERVED already.
LEMMA CreateDenies ==
  ASSUME TypeInv, DenyInv, NEW p \in Calls, CreateStep(p)
  PROVE  DenyInv'
<1>1. ASSUME NEW k \in Keys, Live(k)', k \notin late', All \in deny
      PROVE  Live(k) /\ k \notin late
  <2>1. CASE StageReserveInsert(p)
    BY <1>1, <2>1, Zenon DEF StageReserveInsert, ReserveInsert, Live, rowVars, TypeInv,
       TypeOK, StoreType
  <2>2. CASE StageBind(p)
    BY <1>1, <2>2, Zenon DEF StageBind, Live
  <2>3. CASE UnwindRelease(p)
    BY <1>1, <2>3, Zenon DEF UnwindRelease, ReleaseRow, Live, TypeInv, TypeOK, StoreType
  <2> QED
    BY <1>1, <2>1, <2>2, <2>3, CreateMoves, Zenon DEF RowsStay
<1> QED
  BY <1>1, CreateMoves, NotReaching, Zenon DEF Creates, Alone, CreateSteps,
     HoldsReceipt, OwnsRow, SweepSteps

\* A sweep hands each row on from its enumeration to its release, and the
\* other teardowns only release rows (RevokeAll, forceKillRow).
LEMMA TeardownDenies ==
  ASSUME TypeInv, DenyInv, NEW p \in Calls, TeardownStep(p),
         "kill" \notin Faults, "release" \notin Faults
  PROVE  DenyInv'
<1>1. Tears(p) /\ \A k \in Keys : Live(k)' => Live(k)
  <2>1. Tears(p)
    BY TeardownMoves, Zenon
  <2> QED
    BY <2>1, RowTypes, Zenon DEF Tears, ReleaseRow, Live
<1>2. CASE pc[p] \notin SweepSteps \cup {"kList"}
  BY <1>1, <1>2, NotReaching, Zenon DEF Tears, Alone
<1>3. CASE RevokeAllList(p)
  BY <1>1, <1>3, CallTypes, Zenon DEF RevokeAllList, LiveSessions, Tears, Alone,
     DenyInv, Reaches, SweepSteps, Live
<1>4. CASE RevokeNext(p)
  BY <1>1, <1>4, CallTypes DEF RevokeNext, Tears, Alone, DenyInv, Reaches, SweepSteps, Done
<1>5. CASE ForceKillRow(p)
  BY <1>1, <1>5, CallTypes DEF ForceKillRow, FinalizeFails, Tears, Alone, DenyInv, Reaches,
     SweepSteps, Goto
<1>6. CASE ForceReleaseRow(p)
  BY <1>1, <1>6, CallTypes, RowTypes DEF ForceReleaseRow, ReleaseRow, Tears, Alone,
     DenyInv, Reaches, SweepSteps, Live, Goto
<1>7. CASE ForceRefund(p)
  BY <1>1, <1>7, CallTypes, Zenon DEF ForceRefund, Tears, Alone, DenyInv, Reaches,
     SweepSteps, Goto
<1>8. CASE \/ DestroyKill(p) \/ DestroyRelease(p) \/ DestroyRefund(p) \/ ReapNext(p)
           \/ ReapKill(p) \/ ReapRelease(p) \/ ReapRefund(p) \/ ForceKillKey(p)
  BY <1>2, <1>8, Zenon DEF DestroyKill, DestroyRelease, DestroyRefund, ReapNext, ReapKill,
     ReapRelease, ReapRefund, ForceKillKey, SweepSteps
<1> QED
  BY <1>3, <1>4, <1>5, <1>6, <1>7, <1>8, Zenon DEF TeardownStep

\* A new RevokeAll starts over with every live row ahead of it; lifting the
\* posture ends the obligation; the boot sweep only releases rows.
LEMMA OtherDenies ==
  ASSUME TypeInv, DenyInv, "crash" \notin Handlers,
         \/ \E p \in Calls : ExecTouch(p)
         \/ \E p \in Requests : Arrival(p)
         \/ ReapList(Reaper)
         \/ \E e \in Keys \cup {All} : LiftDeny(e)
         \/ Crash
         \/ \E k \in Keys : ContainerExits(k) \/ IdleTTLPasses(k)
         \/ BootStep
         \/ UNCHANGED vars
  PROVE  DenyInv'
<1>1. ASSUME NEW p \in Calls, ExecTouch(p) PROVE DenyInv'
  BY <1>1, ArrivalMoves, NotReaching DEF ExecTouch, Arrives, Alone, SweepSteps, Live
<1>2. ASSUME NEW p \in Calls, NEW k \in Keys,
             CreateStart(p, k) \/ DestroyLookup(p, k) \/ ExecDispatch(p, k)
      PROVE  DenyInv'
  <2>1. Arrives(p) /\ pc[p] = "idle" /\ UNCHANGED <<deny, late>>
    BY <1>2, ArrivalMoves, Zenon DEF CreateStart, DestroyLookup, ExecDispatch, Invoke,
       store
  <2> QED
    BY <2>1, NotReaching, Zenon DEF Arrives, Alone, SweepSteps, Live
<1>3. ASSUME NEW p \in Requests, NEW k \in Keys, RevokeOne(p, k) PROVE DenyInv'
  BY <1>3, StoreAssumption DEF RevokeOne, SetDeny, Invoke, Begin, DenyInv, Reaches,
     SweepSteps, Calls, rowVars, Live
<1>4. ASSUME NEW p \in Requests, RevokeAll(p) PROVE DenyInv'
  BY <1>4, Zenon DEF RevokeAll, DenyInv, Reaches, Calls, TypeInv, TypeOK
<1>5. CASE ReapList(Reaper)
  BY <1>5, NotReaching DEF ReapList, Invoke, SweepSteps, Calls, store, Live
<1>6. ASSUME NEW e \in Keys \cup {All}, LiftDeny(e) PROVE DenyInv'
  BY <1>6, Zenon DEF LiftDeny, ClearDeny, DenyInv, Reaches, rowVars, callVars, Live
<1>7. ASSUME NEW k \in Keys, ContainerExits(k) \/ IdleTTLPasses(k) PROVE DenyInv'
  BY <1>7 DEF ContainerExits, IdleTTLPasses, DenyInv, Reaches, store, callVars, Live
<1>8. CASE BootStep
  <2>1. UNCHANGED <<deny, late, pc, key, todo>>
    BY <1>8, Zenon DEF BootStep, ReconcileList, Direction1, Direction2,
       Direction2Refund, Direction3, store, callVars
  <2>2. UNCHANGED rowState \/ \E k \in sweep.todo : ReleaseRow(k)
    BY <1>8, Zenon DEF BootStep, ReconcileList, Direction1, Direction2,
       Direction2Refund, Direction3, store, rowVars
  <2>3. \A j \in Keys : Live(j)' => Live(j)
    BY <2>2, Zenon DEF ReleaseRow, TypeInv, TypeOK, StoreType, Live
  <2> QED
    BY <2>1, <2>3, Zenon DEF DenyInv, Reaches
<1>9. CASE UNCHANGED vars
  BY <1>9, Zenon DEF vars, store, callVars, DenyInv, Reaches, Live
<1> QED
  BY <1>1, <1>2, <1>3, <1>4, <1>5, <1>6, <1>7, <1>8, <1>9, Zenon DEF Arrival, Crash,
     Calls

\* Unless a force-kill or a release fails or the daemon dies, a DENY-ALL sweep
\* misses no row that was live when it was engaged, whatever creates, destroys,
\* reaps and other sweeps run meanwhile (Engine.RevokeAll).
THEOREM DenyHolds ==
  ASSUME "kill" \notin Faults, "release" \notin Faults, "crash" \notin Handlers
  PROVE  Spec => []OnlyLateRowsSurvive
<1>1. Init => DenyInv
  BY Zenon DEF Init, StoreInit, DenyInv
<1>2. TypeInv /\ DenyInv /\ [Next]_vars => DenyInv'
  BY CreateDenies, TeardownDenies, OtherDenies, Zenon DEF Next
<1>3. DenyInv => OnlyLateRowsSurvive
  BY Zenon DEF DenyInv, OnlyLateRowsSurvive, Sweeping, Reaches, SweepSteps
<1> QED
  BY InitTyped, TypeInvStep, <1>1, <1>2, <1>3, PTL DEF Spec

-----------------------------------------------------------------------------
(* Where the accounting of slots holds. *)

\* What the argument rests on.  Two teardowns of a row, a kill of a row whose
\* create is in progress, a crash between Materialize and Commit and an unwind
\* that cannot release its row break the accounting; so does a stamp left on a
\* tombstone by an exec that returns late, where the reaper takes the re-created
\* row for idle.  Direction 3 counts per owner, so an owner has a cell of its own.
Orderly == /\ Overlaps \subseteq {"destroyMidCreate", "reuse"}
           /\ "unwindRelease" \notin Faults
           /\ Durable /\ "reap" \in Handlers => "exec" \notin Handlers
           /\ \A o, u \in Owners : CellOf[o] = CellOf[u] => o = u

-----------------------------------------------------------------------------
(* Who may release a row. *)

\* Some create still answers for the row of k.
Owning(k) == \E q \in Calls : pc[q] \in OwnsRow /\ key[q] = k

\* A row has at most one teardown, and is on no list of the call it is torn
\* down by.
OneClaim == /\ \A k \in Keys : \A p, q \in Calls : Claims(p, k) /\ Claims(q, k) => p = q
            /\ \A p \in Calls : pc[p] \in TeardownSteps \ {"rNext", "kNext"}
                                  => key[p] \notin todo[p]

\* A row the reaper or the kill switch took is live until they release it, and
\* no create answers for it.
TakenLive == \A p \in Calls, k \in Keys : Takes(p, k) => Live(k) /\ ~Owning(k)

\* The reaper sees no row as idle whose create is in progress.
Stamped == "reap" \in Handlers =>
             /\ Durable => \A p \in Calls : pc[p] # "eTouch"
             /\ \A k \in Keys :
                  /\ Live(k) /\ stamp[k] = "idle" => ~Owning(k)
                  /\ Durable /\ ~Live(k) /\ stamp[k] # "none"
                       => stamp[k] = "fresh" /\ Owning(k)

\* Nothing is in progress while the daemon is down or boots, and no container
\* runs for a row that is only reserved.
Parked == phase # "up" =>
            /\ \A p \in Calls : pc[p] = "idle" /\ todo[p] = {}
            /\ \A k \in Keys : rowState[k] = "RESERVED" => box[k] # "running"

\* What Direction 3 counts includes every live row.
Swept == /\ phase \notin {"down", "up"} =>
              \A k \in Keys : Live(k) /\ k \in sweep.alive => k \in sweep.active
         /\ phase = "dir3" => \A k \in Keys : Live(k) => k \in sweep.alive

ClaimInv == OneClaim /\ TakenLive /\ Stamped /\ Parked /\ Swept

\* A step of one call keeps a row at one teardown if it takes no row another
\* teardown has (Destroy, reapOne, forceKillRow).
LEMMA OneClaimFrame ==
  ASSUME OneClaim, NEW p \in Calls, Alone(p),
         \A k \in Keys : Claims(p, k)' => Claims(p, k) \/ \A q \in Calls : ~Claims(q, k),
         pc'[p] \in ClaimSteps => key'[p] \notin todo'[p]
  PROVE  OneClaim'
<1>1. \A q \in Calls \ {p}, k \in Keys : Claims(q, k)' <=> Claims(q, k)
  BY Zenon DEF Alone, Claims
<1> QED
  BY <1>1, Zenon DEF OneClaim, Alone, ClaimSteps

\* A create moves while the daemon is up, and only Reserve makes it the owner of
\* a row (Manager.Create).
LEMMA CreateOwns ==
  ASSUME TypeInv, Parked, NEW p \in Calls, CreateStep(p)
  PROVE  /\ phase = "up" /\ key[p] \in Keys
         /\ \A k \in Keys : Owning(k)' => Owning(k) \/ (StageReserveInsert(p) /\ key[p] = k /\ ~Live(k))
         /\ \A k \in Keys : ~Owning(k) /\ Live(k) => Live(k)'
<1>1. phase = "up" /\ key[p] \in Keys
  BY CreateMoves, Zenon DEF Creates, Parked, CreateSteps, HoldsReceipt, OwnsRow, Keyed,
     Unkeyed, TypeInv
<1>2. CASE RowsStay(p)
  BY <1>1, <1>2, CreateMoves, Zenon DEF Creates, RowsStay, Alone, Owning, OwnsRow
<1>3. CASE StageReserveInsert(p)
  BY <1>1, <1>3, CreateMoves DEF StageReserveInsert, ReserveInsert, Creates, Alone, Owning,
     Live, OwnsRow, rowVars, Goto, TypeInv, TypeOK, StoreType
<1>4. CASE StageBind(p)
  BY <1>1, <1>4, CreateMoves, Zenon DEF StageBind, Creates, Alone, Owning, Live, OwnsRow
<1>5. CASE UnwindRelease(p)
  BY <1>1, <1>5, CreateMoves DEF UnwindRelease, ReleaseRow, Creates, Alone, Owning, Live,
     OwnsRow, TypeInv, TypeOK, StoreType
<1> QED
  BY <1>1, <1>2, <1>3, <1>4, <1>5, CreateMoves, Zenon

\* A stage of a create, or of its unwind, keeps the claims: only ReserveInsert
\* makes a row live, Commit and RecordActivation stamp it, and the last stage
\* lets go of it.
LEMMA CreateClaims ==
  ASSUME Orderly, TypeInv, ClaimInv, NEW p \in Calls, CreateStep(p)
  PROVE  ClaimInv'
<1> DEFINE k == key[p]
<1>1. /\ Creates(p) /\ phase = "up" /\ k \in Keys
      /\ \A j \in Keys : Owning(j)' => Owning(j) \/ (StageReserveInsert(p) /\ k = j /\ ~Live(j))
      /\ \A j \in Keys : ~Owning(j) /\ Live(j) => Live(j)'
  BY CreateMoves, CreateOwns, Zenon DEF ClaimInv
<1>2. OneClaim'
  BY <1>1, OneClaimFrame, Zenon DEF Creates, Claims, ClaimSteps, CreateSteps,
     HoldsReceipt, OwnsRow, TeardownSteps, OwesRefund, ClaimInv
<1>3. Parked' /\ Swept'
  BY <1>1, Zenon DEF Creates, Parked, Swept
<1>4. \A j \in Keys : Takes(p, j)' => Takes(p, j)
  BY <1>1, Zenon DEF Creates, Takes, Releasing, CreateSteps, HoldsReceipt, OwnsRow
<1>5. TakenLive'
  <2> SUFFICES ASSUME NEW q \in Calls, NEW j \in Keys, Takes(q, j)'
               PROVE  (Live(j) /\ ~Owning(j))'
    BY Zenon DEF TakenLive
  <2>1. Takes(q, j)
    BY <1>1, <1>4, Zenon DEF Creates, Takes, Alone
  <2>2. Live(j) /\ ~Owning(j)
    BY <2>1, Zenon DEF TakenLive, ClaimInv
  <2> QED
    BY <1>1, <2>2, Zenon
<1>6. Stamped'
  <2> SUFFICES ASSUME "reap" \in Handlers PROVE Stamped'
    BY Zenon DEF Stamped
  <2>1. Durable => \A q \in Calls : pc'[q] # "eTouch"
    BY <1>1 DEF Stamped, Creates, Alone, CreateSteps, HoldsReceipt, OwnsRow, ClaimInv
  <2> SUFFICES ASSUME NEW j \in Keys
               PROVE  /\ Live(j)' /\ stamp'[j] = "idle" => ~Owning(j)'
                      /\ Durable /\ ~Live(j)' /\ stamp'[j] # "none"
                            => stamp'[j] = "fresh" /\ Owning(j)'
    BY <2>1, Zenon DEF Stamped
  <2>2. CASE StageReserveInsert(p)
    BY <1>1, <2>2 DEF StageReserveInsert, ReserveInsert, Stamped, Creates, Alone, Live,
       Owning, Goto, OwnsRow, rowVars, ClaimInv, TypeInv, TypeOK, StoreType
  <2>3. CASE StageBind(p)
    BY <1>1, <2>3 DEF StageBind, BindContainerName, Stamped, Creates, Alone, Live,
       Owning, Goto, Done, OwnsRow, ClaimInv, TypeInv, TypeOK
  <2>4. CASE UnwindRelease(p)
    BY <1>1, <2>4 DEF UnwindRelease, ReleaseRow, Stamped, Creates, Alone, Live, Owning,
       Goto, OwnsRow, Orderly, ClaimInv, TypeInv, TypeOK, StoreType
  <2>5. CASE RowsStay(p)
    <3>1. Owning(j)' <=> Owning(j)
      BY <1>1, <2>5 DEF RowsStay, Creates, Alone, Owning, OwnsRow
    <3>2. stamp'[j] = stamp[j] \/ (stamp'[j] = "fresh" /\ Owning(j))
      BY <2>5 DEF RowsStay, RecordActivation, Owning, TypeInv, TypeOK, StoreType
    <3> QED
      BY <2>5, <3>1, <3>2, Zenon DEF RowsStay, Stamped, ClaimInv
  <2> QED
    BY <2>2, <2>3, <2>4, <2>5, CreateMoves, Zenon
<1> QED
  BY <1>2, <1>3, <1>5, <1>6, Zenon DEF ClaimInv

\* A teardown makes no create the owner of a row or of none.
LEMMA TeardownOwns ==
  ASSUME NEW p \in Calls, Tears(p)
  PROVE  \A k \in Keys : Owning(k)' <=> Owning(k)
  BY Zenon DEF Tears, Alone, Owning, CreateSteps, HoldsReceipt

\* A step of Destroy, the reaper or the kill switch keeps the claims: a row is
\* taken live and no longer its taker's once released.
LEMMA TeardownClaims ==
  ASSUME Orderly, TypeInv, ClaimInv, NEW p \in Calls, TeardownStep(p)
  PROVE  ClaimInv'
<1>1. Tears(p) /\ \A j \in Keys : Owning(j)' <=> Owning(j)
  <2>1. Tears(p)
    BY TeardownMoves, Zenon
  <2> QED
    BY <2>1, TeardownOwns, Zenon
<1>2. OneClaim'
  <2>1. \A j \in Keys : Claims(p, j)' => Claims(p, j) \/ \A q \in Calls : ~Claims(q, j)
    <3>1. CASE RevokeAllList(p) /\ MayTeardown(LiveSessions)
      BY <3>1, Zenon DEF RevokeAllList, MayTeardown, Orderly, LiveSessions, Claims,
         TeardownSteps, OwesRefund, TypeInv, TypeOK
    <3>2. CASE ForceKillKey(p) /\ Live(key[p]) /\ MayTeardown({key[p]})
      BY <3>2 DEF ForceKillKey, Goto, MayTeardown, Orderly, Claims
    <3> QED
      BY <3>1, <3>2, TeardownMoves, Zenon DEF TakesNoMore
  <2>2. pc'[p] \in ClaimSteps => key'[p] \notin todo'[p]
    <3>1. CASE RevokeAllList(p)
      BY <3>1, Zenon DEF RevokeAllList, ClaimSteps, TypeInv, TypeOK
    <3>2. CASE ForceKillKey(p) /\ Live(key[p]) /\ MayTeardown({key[p]})
      BY <3>2, Zenon DEF ForceKillKey, Goto, MayTeardown, Orderly, Claims
    <3>3. CASE TakesNoMore(p)
      BY <3>3, Zenon DEF TakesNoMore, ClaimSteps, OneClaim, ClaimInv
    <3> QED
      BY <3>1, <3>2, <3>3, TeardownMoves, Zenon
  <2> QED
    BY <1>1, <2>1, <2>2, OneClaimFrame, Zenon DEF Tears, ClaimInv
<1>3. TakenLive'
  <2> SUFFICES ASSUME NEW q \in Calls, NEW j \in Keys, Takes(q, j)'
               PROVE  (Live(j) /\ ~Owning(j))'
    BY Zenon DEF TakenLive
  <2>1. Live(j) /\ ~Owning(j)
    <3>1. CASE Takes(q, j)
      BY <3>1, Zenon DEF TakenLive, ClaimInv
    <3>2. CASE q = p /\ RevokeAllList(p) /\ MayKill(LiveSessions)
      BY <3>2 DEF RevokeAllList, MayKill, Orderly, LiveSessions, Owning, Takes,
         Releasing, TypeInv, TypeOK
    <3>3. CASE q = p /\ ForceKillKey(p) /\ Live(key[p]) /\ MayKill({key[p]})
      BY <3>3, Zenon DEF ForceKillKey, Goto, MayKill, Orderly, Owning, Takes, TakenLive,
         Releasing, ClaimInv
    <3>4. q # p => Takes(q, j)
      BY <1>1, Zenon DEF Tears, Alone, Takes
    <3> QED
      BY <3>1, <3>2, <3>3, <3>4, TeardownMoves, Zenon DEF TakesNoMore
  <2>2. Live(j)'
    <3>1. CASE UNCHANGED rowState
      BY <2>1, <3>1, Zenon DEF Live
    <3>2. CASE ReleaseRow(key[p]) /\ pc[p] \in {"dRelease", "rRelease", "kRelease"}
               /\ pc'[p] \notin Releasing /\ todo'[p] \subseteq todo[p]
      <4>1. j # key[p]
        BY <1>1, <3>2 DEF Tears, OneClaim, Claims, Takes, Alone, TeardownSteps, OwesRefund,
           Releasing, ClaimInv
      <4> QED
        BY <2>1, <3>2, <4>1 DEF ReleaseRow, Live
    <3> QED
      BY <1>1, <3>1, <3>2, Zenon DEF Tears
  <2> QED
    BY <1>1, <2>1, <2>2, Zenon
<1>4. Stamped'
  <2>1. CASE UNCHANGED <<rowState, stamp>>
    BY <1>1, <2>1, Zenon DEF Tears, Alone, Stamped, Live, ClaimInv
  <2>2. CASE ReleaseRow(key[p]) /\ pc[p] \in {"dRelease", "rRelease", "kRelease"}
    BY <1>1, <2>2, Zenon DEF Tears, Alone, Stamped, ReleaseRow, Live, Keyed, Unkeyed,
       ClaimInv, TypeInv, TypeOK, StoreType
  <2> QED
    BY <1>1, <2>1, <2>2, Zenon DEF Tears
<1>5. Parked' /\ Swept'
  <2>1. phase = "up" /\ phase' = "up"
    BY <1>1, Zenon DEF Tears, Parked, ClaimInv
  <2> QED
    BY <2>1, Zenon DEF Parked, Swept
<1> QED
  BY <1>2, <1>3, <1>4, <1>5, Zenon DEF ClaimInv

\* A step of an arrival keeps the claims if what it takes was live and
\* nobody's.
LEMMA ArrivalKeeps ==
  ASSUME ClaimInv, NEW p \in Calls, Arrives(p), Stamped',
         \A k \in Keys : Claims(p, k)' => Claims(p, k) \/ \A q \in Calls : ~Claims(q, k),
         \A k \in Keys : Takes(p, k)' => Takes(p, k) \/ (Live(k) /\ ~Owning(k)),
         pc'[p] \in ClaimSteps => key'[p] \notin todo'[p]
  PROVE  ClaimInv'
<1>1. OneClaim'
  BY OneClaimFrame, Zenon DEF Arrives, ClaimInv
<1>2. \A k \in Keys : Owning(k)' => Owning(k)
  BY Zenon DEF Arrives, Alone, Owning, HoldsReceipt
<1>3. TakenLive'
  BY <1>2 DEF Arrives, Alone, TakenLive, Takes, Live, ClaimInv
<1>4. phase = "up" /\ phase' = "up"
  BY Zenon DEF Arrives, Parked, ClaimInv
<1> QED
  BY <1>1, <1>3, <1>4, Zenon DEF ClaimInv, Parked, Swept

\* An arrival that leaves the stamps alone leaves what they say alone.
LEMMA ArrivalStamps ==
  ASSUME Orderly, ClaimInv, NEW p \in Calls, Arrives(p), UNCHANGED stamp
  PROVE  Stamped'
<1>1. \A k \in Keys : Owning(k)' <=> Owning(k)
  BY Zenon DEF Arrives, Alone, Owning, CreateSteps, HoldsReceipt
<1> QED
  BY <1>1, Zenon DEF Arrives, Alone, Stamped, Live, Orderly, ClaimInv

\* A call that arrives, an exec's touch and the reaper's listing keep the
\* claims: what is taken was live and nobody's.
LEMMA ArrivalClaims ==
  ASSUME Orderly, TypeInv, ClaimInv,
         \/ \E p \in Calls : ExecTouch(p)
         \/ \E p \in Requests : Arrival(p)
         \/ MayTeardown(IdleSessions) /\ ReapList(Reaper)
  PROVE  ClaimInv'
<1>1. ASSUME NEW p \in Calls, ExecTouch(p) PROVE ClaimInv'
  <2>1. Arrives(p)
    BY <1>1, ArrivalMoves, Zenon
  <2>2. pc'[p] = "idle" /\ todo'[p] = {}
    BY <1>1, CallTypes, Zenon DEF ExecTouch, Done
  <2>3. Stamped'
    <3>1. \A k \in Keys : Owning(k)' <=> Owning(k)
      BY <2>1, Zenon DEF Arrives, Alone, Owning, CreateSteps, HoldsReceipt
    <3>2. key[p] \in Keys /\ \A k \in Keys : stamp'[k] \in {stamp[k], "fresh"}
      BY <1>1, RowTypes, StepKeys, Zenon DEF ExecTouch, TouchActivity, Unkeyed
    <3> QED
      BY <1>1, <2>1, <3>1, <3>2, Zenon DEF ExecTouch, Arrives, Alone, Stamped, Live,
         ClaimInv
  <2> QED
    BY <2>1, <2>2, <2>3, ArrivalKeeps, Zenon DEF Claims, Takes, Releasing, ClaimSteps,
       TeardownSteps, OwesRefund
<1>2. ASSUME NEW p \in Calls,
             \/ RevokeAll(p)
             \/ \E k \in Keys : CreateStart(p, k) \/ ExecDispatch(p, k) \/ RevokeOne(p, k)
      PROVE  ClaimInv'
  <2>1. Arrives(p)
    BY <1>2, ArrivalMoves, Zenon
  <2>2. UNCHANGED <<stamp, todo>> /\ pc'[p] \in {"kList", "resume", "eTouch", "kLook"}
    BY <1>2, CallTypes, Zenon DEF RevokeAll, CreateStart, ExecDispatch, RevokeOne,
       Begin, store, rowVars
  <2>3. Stamped'
    BY <2>1, <2>2, ArrivalStamps, Zenon
  <2> QED
    BY <2>1, <2>2, <2>3, ArrivalKeeps, Zenon DEF Claims, Takes, Releasing, ClaimSteps,
       TeardownSteps, OwesRefund
<1>3. ASSUME NEW p \in Calls, NEW k \in Keys, MayTeardown({k}), DestroyLookup(p, k)
      PROVE  ClaimInv'
  <2>1. Arrives(p)
    BY <1>3, ArrivalMoves, Zenon
  <2>2. UNCHANGED <<stamp, todo>> /\ pc'[p] = "dKill" /\ key'[p] = k
    BY <1>3, CallTypes, Zenon DEF DestroyLookup, store, rowVars
  <2>3. Stamped'
    BY <2>1, <2>2, ArrivalStamps, Zenon
  <2>4. \A q \in Calls : ~Claims(q, k)
    BY <1>3, Zenon DEF MayTeardown, Orderly
  <2> QED
    BY <2>1, <2>2, <2>3, <2>4, ArrivalKeeps, Zenon DEF Claims, Takes, Releasing
<1>4. CASE MayTeardown(IdleSessions) /\ ReapList(Reaper)
  <2> DEFINE p == Reaper
  <2>1. p \in Calls /\ Arrives(p)
    BY <1>4, ArrivalMoves, Zenon DEF Calls
  <2>2. /\ "reap" \in Handlers /\ UNCHANGED <<stamp, key>>
        /\ pc'[p] = "rNext" /\ todo'[p] = IdleSessions
    BY <1>4, <2>1, CallTypes, Zenon DEF ReapList, Invoke, store, rowVars
  <2>3. Stamped'
    BY <2>1, <2>2, ArrivalStamps, Zenon
  <2>4. \A q \in Calls, k \in IdleSessions : ~Claims(q, k)
    BY <1>4, Zenon DEF MayTeardown, Orderly
  <2>5. \A k \in IdleSessions : Live(k) /\ ~Owning(k)
    BY <2>2, Zenon DEF IdleSessions, Live, Stamped, ClaimInv
  <2> HIDE DEF p
  <2> QED
    BY <2>1, <2>2, <2>3, <2>4, <2>5, ArrivalKeeps, Zenon DEF Claims, Takes, Releasing,
       ClaimSteps, TeardownSteps, OwesRefund
<1> QED
  BY <1>1, <1>2, <1>3, <1>4, Zenon DEF Arrival, Calls

\* A lifted deny, a crash, a container that exits and time that passes keep the
\* claims.
LEMMA IdleClaims ==
  ASSUME Orderly, TypeInv, ClaimInv,
         \/ \E e \in Keys \cup {All} : LiftDeny(e)
         \/ MayCrash /\ Crash
         \/ \E k \in Keys : ContainerExits(k) \/ IdleTTLPasses(k)
         \/ UNCHANGED vars
  PROVE  ClaimInv'
<1>1. CASE (\E e \in Keys \cup {All} : LiftDeny(e)) \/ UNCHANGED vars
  BY <1>1 DEF LiftDeny, vars, OneClaim, Claims, TakenLive, Takes, Owning, Live,
     Stamped, Parked, Swept, ClaimInv, store, rowVars, callVars, host, boot
<1>2. CASE MayCrash /\ Crash
  <2>1. OneClaim' /\ TakenLive'
    BY <1>2, Zenon DEF Crash, OneClaim, Claims, TakenLive, Takes, TeardownSteps,
       OwesRefund, Releasing
  <2>2. Stamped' /\ Swept'
    BY <1>2, Zenon DEF Crash, Stamped, Swept, Abort
  <2>3. Parked'
    BY <1>2, Zenon DEF Crash, MayCrash, Orderly, Parked, Abort, host
  <2> QED
    BY <2>1, <2>2, <2>3, Zenon DEF ClaimInv
<1>3. ASSUME NEW k \in Keys, ContainerExits(k) PROVE ClaimInv'
  <2>1. OneClaim' /\ TakenLive' /\ Stamped' /\ Swept'
    BY <1>3, Zenon DEF ContainerExits, OneClaim, Claims, TakenLive, Takes, Owning, Live,
       Stamped, Swept, ClaimInv, store, callVars, boot
  <2>2. Parked'
    BY <1>3 DEF ContainerExits, Parked, ClaimInv, store, callVars, host, boot
  <2> QED
    BY <2>1, <2>2, Zenon DEF ClaimInv
<1>4. ASSUME NEW k \in Keys, IdleTTLPasses(k) PROVE ClaimInv'
  <2>1. OneClaim' /\ TakenLive' /\ Parked' /\ Swept'
    BY <1>4 DEF IdleTTLPasses, OneClaim, Claims, TakenLive, Takes, Owning, Live,
       Parked, Swept, ClaimInv, store, rowVars, callVars, host, boot
  <2>2. Stamped'
    BY <1>4 DEF IdleTTLPasses, Stamped, Owning, Live, ClaimInv, callVars
  <2> QED
    BY <2>1, <2>2, Zenon DEF ClaimInv
<1> QED
  BY <1>1, <1>2, <1>3, <1>4, Zenon

\* The boot sweep keeps the claims, and what it snapshots and what it reclaims
\* leave Direction 3 all live rows to count (Manager.Reconcile).
LEMMA BootClaims ==
  ASSUME TypeInv, BootInv, ClaimInv, BootStep
  PROVE  ClaimInv'
<1>1. phase # "up" /\ UNCHANGED <<pc, key, todo>>
  BY Zenon DEF BootStep, ReconcileList, Direction1, Direction2, Direction2Refund,
     Direction3, callVars
<1>2. /\ \A p \in Calls : pc[p] = "idle" /\ todo[p] = {}
      /\ \A k \in Keys : rowState[k] = "RESERVED" => box[k] # "running"
  BY <1>1, Zenon DEF Parked, ClaimInv
<1>3. OneClaim' /\ TakenLive'
  BY <1>1, <1>2, Zenon DEF OneClaim, Claims, TakenLive, Takes, TeardownSteps,
     OwesRefund, Releasing
<1>4. CASE ReconcileList
  <2>1. Stamped'
    BY <1>1, <1>2, <1>4, Zenon DEF ReconcileList, ReseedActivity, Stamped, Live, Owning,
       OwnsRow
  <2>2. Parked'
    BY <1>1, <1>2, <1>4, Zenon DEF ReconcileList, Parked, host, boot
  <2>3. Swept'
    BY <1>1, <1>2, <1>4, Zenon DEF ReconcileList, Swept, Alive, Live
  <2> QED
    BY <1>3, <2>1, <2>2, <2>3, Zenon DEF ClaimInv
<1>5. CASE Direction1
  <2>1. Stamped'
    BY <1>1, <1>2, <1>5, Zenon DEF Direction1, Stamped, Live, Owning, ClaimInv, store,
       rowVars
  <2>2. Parked'
    BY <1>1, <1>2, <1>5, Zenon DEF Direction1, Finalize, FinalizeFails, Parked,
       ClaimInv, TypeInv, TypeOK, StoreType, store, host
  <2>3. Swept'
    BY <1>1, <1>2, <1>5, Zenon DEF Direction1, Abort, Swept, Live, ClaimInv, TypeInv,
       TypeOK, store
  <2> QED
    BY <1>3, <2>1, <2>2, <2>3, Zenon DEF ClaimInv, TypeInv, TypeOK, StoreType
<1>6. CASE Direction2
  <2>1. \/ UNCHANGED <<rowState, stamp>>
        \/ \E k \in sweep.todo : ReleaseRow(k)
    BY <1>6, Zenon DEF Direction2
  <2>2. Stamped'
    BY <1>1, <1>2, <2>1 DEF ReleaseRow, Stamped, Live, Owning, OwnsRow, ClaimInv,
       TypeInv, TypeOK, StoreType, callVars, boot
  <2>3. Parked'
    BY <1>1, <1>2, <1>6, <2>1, Zenon DEF Direction2, ReleaseRow, Parked, TypeInv,
       TypeOK, StoreType, host, boot
  <2>4. Swept'
    <3>1. ASSUME NEW k \in sweep.todo, ReleaseRow(k), phase' = "dir2Refund",
                 sweep' = [sweep EXCEPT !.todo = @ \ {k}, !.row = k]
          PROVE  Swept'
      <4>1. sweep'.alive = sweep.alive /\ sweep'.active = sweep.active
        BY <3>1
      <4>2. \A j \in Keys : Live(j)' => Live(j)
        BY <3>1 DEF ReleaseRow, Live
      <4> QED
        BY <1>6, <3>1, <4>1, <4>2, Zenon DEF Direction2, Swept, ClaimInv, store
    <3>2. CASE Abort
      BY <3>2, Zenon DEF Abort, Swept
    <3>3. CASE /\ sweep.todo = {} /\ phase' = "dir3" /\ UNCHANGED rowState
               /\ sweep' = [sweep EXCEPT !.todo = sweep.rows]
      BY <1>6, <3>3 DEF Direction2, Swept, Live, BootInv, Kept, ClaimInv
    <3> QED
      BY <1>6, <3>1, <3>2, <3>3, Zenon DEF Direction2, TypeInv, TypeOK, StoreType
  <2> QED
    BY <1>3, <2>2, <2>3, <2>4, Zenon DEF ClaimInv, store, rowVars
<1>7. CASE Direction2Refund
  BY <1>1, <1>2, <1>3, <1>7, Zenon DEF Direction2Refund, Abort, Stamped, Parked, Swept,
     Live, Owning, ClaimInv, TypeInv, TypeOK, rowVars, host
<1>8. CASE Direction3
  BY <1>1, <1>2, <1>3, <1>8 DEF Direction3, Abort, Stamped, Parked, Swept, Live,
     Owning, ClaimInv, TypeInv, TypeOK, StoreType, rowVars, host
<1> QED
  BY <1>4, <1>5, <1>6, <1>7, <1>8, Zenon DEF BootStep

\* Claims are inductive.
LEMMA ClaimInvStep ==
  ASSUME Orderly, TypeInv, BootInv, ClaimInv, [Next]_vars
  PROVE  ClaimInv'
  BY CreateClaims, TeardownClaims, ArrivalClaims, IdleClaims, BootClaims, Zenon DEF
     Next
=============================================================================
