---------------------------- MODULE LedgerProofs ----------------------------
(***************************************************************************)
(* Each cell implements the slot ledger, with the slots counted as         *)
(* Lifecycle counts them, and the boot sweep leaves its counters exact.    *)
(***************************************************************************)
EXTENDS SlotProofs

\* Time for the solver on the larger leaves.
USE SMTT(60)

(* Without re-creation of a key that is being torn down, the slots somebody *)
(* answers for are exactly those Held counts.                              *)

\* A row has one owner.
OneOwner == \A p, q \in Calls : /\ pc[p] \in OwnsRow /\ pc[q] \in OwnsRow
                               /\ key[p] = key[q]
                               => p = q

\* A create that lost its row is the only one of its key.
LoneLoser == \A p, q \in Calls : /\ pc[p] \in OwnsRow /\ ~Live(key[p])
                                /\ q \in CreatesOn(key[p])
                                => q = p

\* So is a create that is in progress under a destroy.
LoneTarget == \A p, q, r \in Calls : /\ pc[r] \in {"dKill", "dRelease"}
                                     /\ p \in CreatesOn(key[r]) /\ q \in CreatesOn(key[r])
                                     => p = q

\* A row is bound only by its own create, which is then over.
Unbound == \A p \in Calls : pc[p] \in OwnsRow /\ Live(key[p]) => ~bound[key[p]]

NonePending == \A p \in Calls : ~Pending(p)

LoneInv == OneOwner /\ LoneLoser /\ LoneTarget /\ Unbound /\ NonePending

\* A create keeps its row to itself: a row is inserted only where none is live,
\* and by then no other create of the key still owns one.
LEMMA CreateLone ==
  ASSUME Orderly, TypeInv, ClaimInv, LoneInv, NEW p \in Calls, CreateStep(p)
  PROVE  LoneInv'
<1> DEFINE k == key[p]
<1>1. /\ k \in Keys /\ Alone(p) /\ pc[p] \in CreateSteps
      /\ (pc'[p] \in CreateSteps /\ key'[p] = k) \/ pc'[p] = "idle"
  <2>1. Creates(p) /\ k \in Keys
    BY CreateMoves, CreateOwns, Zenon DEF ClaimInv
  <2> QED
    BY <2>1, Zenon DEF Creates
<1>2. \A j : CreatesOn(j)' \subseteq CreatesOn(j)
  BY <1>1, Zenon DEF CreatesOn, Alone, CreateSteps, HoldsReceipt, OwnsRow
<1>3. LoneTarget'
  BY <1>1, <1>2, Zenon DEF LoneInv, LoneTarget, Alone, CreateSteps, HoldsReceipt,
     OwnsRow
<1>4. ASSUME UNCHANGED bound, \A j \in Keys : Live(j)' <=> Live(j),
             pc'[p] \in OwnsRow => pc[p] \in OwnsRow /\ key'[p] = k
      PROVE  LoneInv'
  <2>1. OneOwner' /\ LoneLoser' /\ Unbound'
    BY <1>1, <1>2, <1>4 DEF LoneInv, OneOwner, LoneLoser, Unbound, Alone, Keyed,
       Unkeyed, OwnsRow, TypeInv, TypeOK
  <2>2. NonePending'
    BY <1>1, <1>4, Zenon DEF LoneInv, NonePending, Pending, RefundsSlot, Alone, Keyed,
       Unkeyed, CreateSteps, HoldsReceipt, OwnsRow, TypeInv, TypeOK
  <2> QED
    BY <1>3, <2>1, <2>2, Zenon DEF LoneInv
<1>5. CASE StageReserveInsert(p)
  <2>1. CASE ReserveInsert(k) /\ Goto(p, "handoff")
    <3>1. ASSUME NEW q \in Calls, pc[q] \in OwnsRow PROVE key[q] # k
      <4>1. p \in CreatesOn(k) /\ pc[p] \notin OwnsRow
        BY <1>5, Zenon DEF StageReserveInsert, CreatesOn, CreateSteps, HoldsReceipt,
           OwnsRow
      <4> QED
        BY <2>1, <3>1, <4>1, Zenon DEF ReserveInsert, LoneInv, LoneLoser
    <3>2. \A j \in Keys : (Live(j)' <=> Live(j) \/ j = k) /\ (bound'[j] <=> bound[j] /\ j # k)
      BY <1>1, <2>1, Zenon DEF ReserveInsert, Live, TypeInv, TypeOK, StoreType
    <3>3. OneOwner' /\ LoneLoser' /\ Unbound'
      BY <1>1, <1>2, <2>1, <3>1, <3>2 DEF LoneInv, OneOwner, LoneLoser, Unbound,
         Alone, Goto, Keyed, Unkeyed, OwnsRow, TypeInv, TypeOK
    <3>4. NonePending'
      BY <1>1, <2>1, <3>2, Zenon DEF LoneInv, NonePending, Pending, RefundsSlot, Alone,
         Goto, Keyed, Unkeyed, TypeInv, TypeOK
    <3> QED
      BY <1>3, <3>3, <3>4, Zenon DEF LoneInv
  <2>2. CASE Goto(p, "uRefund") /\ UNCHANGED rowVars
    BY <1>4, <2>2 DEF Goto, rowVars, Live, OwnsRow
  <2> QED
    BY <1>5, <2>1, <2>2, Zenon DEF StageReserveInsert
<1>6. CASE StageBind(p)
  <2>1. UNCHANGED rowState
    BY <1>6, Zenon DEF StageBind
  <2>2. CASE BindContainerName(k) /\ Done(p)
    <3>1. ASSUME NEW q \in Calls \ {p}, pc[q] \in OwnsRow PROVE key[q] # k
      BY <1>6, <3>1, Zenon DEF StageBind, LoneInv, OneOwner, OwnsRow
    <3>2. \A j \in Keys : (Live(j)' <=> Live(j)) /\ (bound'[j] <=> bound[j] \/ j = k)
      BY <1>1, <2>1, <2>2, Zenon DEF BindContainerName, Live, TypeInv, TypeOK, StoreType
    <3>3. OneOwner' /\ LoneLoser' /\ Unbound'
      BY <1>1, <1>2, <2>2, <3>1, <3>2 DEF LoneInv, OneOwner, LoneLoser, Unbound,
         Alone, Done, Keyed, Unkeyed, OwnsRow, TypeInv, TypeOK
    <3>4. NonePending'
      BY <1>1, <2>2, <3>2 DEF LoneInv, NonePending, Pending, RefundsSlot, Alone,
         Done, BindContainerName, Keyed, Unkeyed, TypeInv, TypeOK
    <3> QED
      BY <1>3, <3>3, <3>4, Zenon DEF LoneInv
  <2>3. CASE Goto(p, "uKill") /\ UNCHANGED bound
    BY <1>4, <1>6, <2>1, <2>3, Zenon DEF StageBind, Goto, Live, OwnsRow
  <2> QED
    BY <1>6, <2>2, <2>3, Zenon DEF StageBind
<1>7. CASE UnwindRelease(p)
  <2>1. ReleaseRow(k) /\ Goto(p, "uRefund") /\ UNCHANGED bound /\ pc[p] \in OwnsRow
    BY <1>7, Zenon DEF UnwindRelease, Orderly, OwnsRow
  <2>2. ASSUME NEW q \in Calls \ {p}, pc[q] \in OwnsRow PROVE key[q] # k
    BY <2>1, <2>2, Zenon DEF LoneInv, OneOwner
  <2>3. \A j \in Keys : Live(j)' <=> Live(j) /\ j # k
    BY <1>1, <2>1, Zenon DEF ReleaseRow, Live, TypeInv, TypeOK, StoreType
  <2>4. OneOwner' /\ LoneLoser' /\ Unbound'
    BY <1>1, <1>2, <2>1, <2>2, <2>3 DEF LoneInv, OneOwner, LoneLoser, Unbound,
       Alone, Goto, Keyed, Unkeyed, OwnsRow, TypeInv, TypeOK
  <2>5. Live(k) => ~bound[k]
    BY <2>1, Zenon DEF LoneInv, Unbound
  <2>6. NonePending'
    BY <1>1, <2>1, <2>3, <2>5, Zenon DEF LoneInv, NonePending, Pending, RefundsSlot,
       Alone, Goto, Keyed, Unkeyed, TypeInv, TypeOK, StoreType
  <2> QED
    BY <1>3, <2>4, <2>6, Zenon DEF LoneInv
<1>8. CASE RowsStay(p)
  BY <1>1, <1>4, <1>8, Zenon DEF RowsStay, OwnsRow
<1> QED
  BY <1>5, <1>6, <1>7, <1>8, CreateMoves, Zenon

\* A teardown releases a row under at most one create of its key.
LEMMA TeardownLone ==
  ASSUME Orderly, TypeInv, ClaimInv, LoneInv, NEW p \in Calls, TeardownStep(p)
  PROVE  LoneInv'
<1> DEFINE k == key[p]
<1>1. /\ Tears(p) /\ Alone(p) /\ UNCHANGED bound
      /\ pc[p] \notin CreateSteps /\ pc'[p] \notin CreateSteps
  <2>1. Tears(p)
    BY TeardownMoves, Zenon
  <2> QED
    BY <2>1, Zenon DEF Tears
<1>2. \A j : CreatesOn(j)' = CreatesOn(j)
  BY <1>1, Zenon DEF CreatesOn, Alone
<1>3. pc'[p] \in {"dKill", "dRelease"} => /\ pc[p] \in {"dKill", "dRelease"} /\ key'[p] = k
                                         /\ seen'[p] = seen[p] /\ UNCHANGED rowState
  BY <1>1, Zenon DEF Tears
<1>4. LoneTarget' /\ OneOwner'
  <2>1. OneOwner'
    BY <1>1, Zenon DEF LoneInv, OneOwner, Alone, CreateSteps, HoldsReceipt
  <2>2. LoneTarget'
    BY <1>1, <1>2, <1>3, Zenon DEF LoneInv, LoneTarget, Alone
  <2> QED
    BY <2>1, <2>2, Zenon
<1>5. CASE UNCHANGED rowState
  <2>1. LoneLoser' /\ Unbound'
    BY <1>1, <1>2, <1>5, Zenon DEF LoneInv, LoneLoser, Unbound, Alone, Live,
       CreateSteps, HoldsReceipt
  <2>2. NonePending'
    BY <1>1, <1>3, <1>5, Zenon DEF LoneInv, NonePending, Pending, RefundsSlot, Alone,
       Live
  <2> QED
    BY <1>4, <2>1, <2>2, Zenon DEF LoneInv
<1>6. CASE /\ ReleaseRow(k) /\ pc[p] \in {"dRelease", "rRelease", "kRelease"}
           /\ pc'[p] \notin {"dKill", "dRelease"}
  <2>1. k \in Keys /\ Claims(p, k)
    BY <1>6, Zenon DEF Keyed, Unkeyed, Claims, TeardownSteps, OwesRefund, TypeInv,
       TypeOK
  <2>2. \A j \in Keys : Live(j)' <=> Live(j) /\ j # k
    BY <1>6, <2>1, Zenon DEF ReleaseRow, Live, TypeInv, TypeOK, StoreType
  <2>3. ASSUME NEW q \in Calls, NEW r \in Calls, pc[q] \in OwnsRow, key[q] = k, r \in CreatesOn(k)
        PROVE  r = q
    <3>1. pc[p] = "dRelease"
      BY <1>6, <2>1, <2>3, Zenon DEF ClaimInv, TakenLive, Takes, Releasing, Owning
    <3>2. q \in CreatesOn(k)
      BY <2>3, Zenon DEF CreatesOn, CreateSteps, HoldsReceipt
    <3> QED
      BY <2>3, <3>1, <3>2, Zenon DEF LoneInv, LoneTarget
  <2>4. LoneLoser' /\ Unbound'
    BY <1>1, <1>2, <2>2, <2>3 DEF LoneInv, LoneLoser, Unbound, Alone, CreateSteps,
       HoldsReceipt, Keyed, Unkeyed, OwnsRow, TypeInv, TypeOK
  <2>5. ASSUME NEW q \in Calls, Pending(q)' PROVE FALSE
    <3>1. q # p /\ pc[q] \in {"dKill", "dRelease"} /\ key'[q] = key[q] /\ key[q] \in Keys
      BY <1>1, <1>6, <2>5, Zenon DEF Pending, Alone, Keyed, Unkeyed, TypeInv, TypeOK
    <3>2. Claims(q, key[q])
      BY <3>1, Zenon DEF Claims, TeardownSteps, OwesRefund, TypeInv, TypeOK, StoreType
    <3>3. key[q] # k
      BY <2>1, <3>1, <3>2, Zenon DEF ClaimInv, OneClaim
    <3> QED
      BY <1>1, <2>2, <2>5, <3>1, <3>3, Zenon DEF LoneInv, NonePending, Pending,
         RefundsSlot, Alone
  <2> QED
    BY <1>4, <2>4, <2>5, Zenon DEF LoneInv, NonePending
<1> QED
  BY <1>1, <1>5, <1>6, Zenon DEF Tears

\* A create arrives at a key that is not being torn down, and a destroy at one
\* that no two creates contend for.
LEMMA ArrivalLone ==
  ASSUME Orderly, "reuse" \notin Overlaps, TypeInv, ClaimInv, LoneInv,
         \/ \E p \in Calls : ExecTouch(p)
         \/ \E p \in Requests : Arrival(p)
         \/ ReapList(Reaper)
  PROVE  LoneInv'
<1>1. PICK p \in Calls : \/ ExecTouch(p) \/ RevokeAll(p) \/ ReapList(p)
                         \/ \E k \in Keys : \/ CreateStart(p, k) /\ MayCreate(k)
                                            \/ DestroyLookup(p, k) /\ MayDestroy(k)
                                            \/ ExecDispatch(p, k) \/ RevokeOne(p, k)
  BY Zenon DEF Arrival, Calls
<1>2. UNCHANGED <<bound, rowState>> /\ Arrives(p)
  <2>1. Arrives(p)
    BY <1>1, ArrivalMoves, Zenon
  <2> QED
    BY <2>1, Zenon DEF Arrives
<1>3. /\ Alone(p) /\ pc[p] \notin CreateSteps /\ pc'[p] \notin OwnsRow
  BY <1>2, Zenon DEF Arrives, HoldsReceipt
<1>4. OneOwner' /\ Unbound'
  BY <1>2, <1>3, Zenon DEF LoneInv, OneOwner, Unbound, Alone, Live
<1>5. ASSUME NEW k \in Keys, CreateStart(p, k), MayCreate(k) PROVE LoneInv'
  <2>1. \A j : CreatesOn(j)' \subseteq CreatesOn(j) \cup (IF j = k THEN {p} ELSE {})
    BY <1>3, <1>5, Zenon DEF CreateStart, Begin, CreatesOn, Alone, TypeInv, TypeOK
  <2>2. \A q \in Calls : /\ pc[q] \in OwnsRow /\ key[q] = k => Live(k)
                         /\ pc[q] \in {"dKill", "dRelease"} => key[q] # k
    BY <1>5, Zenon DEF MayCreate, Claims, TeardownSteps, OwesRefund
  <2>3. pc'[p] = "resume"
    BY <1>5, Zenon DEF CreateStart, Begin, TypeInv, TypeOK
  <2>4. LoneLoser'
    <3> SUFFICES ASSUME NEW q \in Calls, NEW r \in Calls, pc'[q] \in OwnsRow, ~Live(key[q])',
                        r \in CreatesOn(key[q])'
                 PROVE  r = q
      BY Zenon DEF LoneLoser
    <3>1. q # p /\ pc[q] \in OwnsRow /\ key'[q] = key[q] /\ ~Live(key[q])
      BY <1>2, <1>3, Zenon DEF Alone, Live
    <3>2. r \in CreatesOn(key[q])
      BY <2>1, <2>2, <3>1, Zenon
    <3> QED
      BY <3>1, <3>2, Zenon DEF LoneInv, LoneLoser
  <2>5. LoneTarget'
    BY <1>3, <2>1, <2>2, <2>3, Zenon DEF LoneInv, LoneTarget, Alone
  <2>6. NonePending'
    BY <1>2, <1>3, <2>3, Zenon DEF LoneInv, NonePending, Pending, RefundsSlot, Alone,
       Live
  <2> QED
    BY <1>4, <2>4, <2>5, <2>6, Zenon DEF LoneInv
<1>6. ASSUME pc'[p] \notin CreateSteps PROVE /\ \A j : CreatesOn(j)' = CreatesOn(j)
                                             /\ LoneLoser'
  <2>1. \A j : CreatesOn(j)' = CreatesOn(j)
    BY <1>3, <1>6, Zenon DEF CreatesOn, Alone
  <2> QED
    BY <1>2, <1>3, <2>1, Zenon DEF LoneInv, LoneLoser, Alone, Live
<1>7. ASSUME NEW k \in Keys, DestroyLookup(p, k), MayDestroy(k) PROVE LoneInv'
  <2>1. /\ pc'[p] = "dKill" /\ key'[p] = k /\ seen'[p] = rowState[k] /\ rowState[k] # "NONE"
        /\ \A q, r \in CreatesOn(k) : q = r
    BY <1>7, Zenon DEF DestroyLookup, MayDestroy, TypeInv, TypeOK
  <2>2. (\A j : CreatesOn(j)' = CreatesOn(j)) /\ LoneLoser'
    BY <1>6, <2>1, Zenon DEF CreateSteps, HoldsReceipt, OwnsRow, TypeInv, TypeOK
  <2>3. LoneTarget'
    BY <1>3, <2>1, <2>2, Zenon DEF LoneInv, LoneTarget, Alone
  <2>4. NonePending'
    BY <1>2, <1>3, <2>1 DEF LoneInv, NonePending, Pending, RefundsSlot, Alone, Live,
       RowStates, TypeInv, TypeOK, StoreType
  <2> QED
    BY <1>4, <2>2, <2>3, <2>4, Zenon DEF LoneInv
<1>8. CASE \/ ExecTouch(p) \/ RevokeAll(p) \/ ReapList(p)
           \/ \E k \in Keys : ExecDispatch(p, k) \/ RevokeOne(p, k)
  <2>1. pc'[p] \notin CreateSteps /\ pc'[p] \notin {"dKill", "dRelease"}
    <3>1. pc'[p] \in {"idle", "kList", "rNext", "eTouch", "kLook"}
      BY <1>8, CallTypes, Zenon DEF ExecTouch, RevokeAll, ReapList, ExecDispatch,
         RevokeOne, Begin, Done
    <3> QED
      BY <3>1, Zenon DEF CreateSteps, HoldsReceipt, OwnsRow
  <2>2. LoneTarget' /\ NonePending' /\ LoneLoser'
    BY <1>2, <1>3, <1>6, <2>1 DEF LoneInv, LoneTarget, NonePending, Pending,
       RefundsSlot, Alone, Live
  <2> QED
    BY <1>4, <2>2, Zenon DEF LoneInv
<1> QED
  BY <1>1, <1>5, <1>7, <1>8, Zenon

\* Every step keeps rows and creates one to one.
LEMMA LoneInvStep ==
  ASSUME Orderly, "reuse" \notin Overlaps, TypeInv, BootInv, ClaimInv, LoneInv, [Next]_vars
  PROVE  LoneInv'
<1>1. ASSUME \A p \in Calls : pc'[p] = "idle" PROVE LoneInv'
  <2>1. \A p \in Calls : pc'[p] \notin OwnsRow /\ pc'[p] \notin {"dKill", "dRelease"}
    BY <1>1, Zenon DEF OwnsRow
  <2> QED
    BY <2>1, Zenon DEF LoneInv, OneOwner, LoneLoser, LoneTarget, Unbound,
       NonePending, Pending
<1>2. CASE BootStep
  <2>1. phase # "up" /\ UNCHANGED pc
    BY <1>2, Zenon DEF BootStep, ReconcileList, Direction1, Direction2,
       Direction2Refund, Direction3, callVars
  <2> QED
    BY <1>1, <2>1, Zenon DEF BootInv
<1>3. CASE Crash
  BY <1>1, <1>3, Zenon DEF Crash
<1>4. CASE (\E e \in Keys \cup {All} : LiftDeny(e)) \/ UNCHANGED vars
           \/ \E k \in Keys : ContainerExits(k) \/ IdleTTLPasses(k)
  <2>1. UNCHANGED <<rowState, bound, pc, key, seen>>
    BY <1>4, Zenon DEF LiftDeny, vars, ContainerExits, IdleTTLPasses, store,
       rowVars, callVars
  <2> QED
    BY <2>1, Zenon DEF LoneInv, OneOwner, LoneLoser, LoneTarget, CreatesOn, Unbound,
       NonePending, Pending, RefundsSlot, Live
<1> QED
  BY <1>2, <1>3, <1>4, CreateLone, TeardownLone, ArrivalLone, Zenon DEF Next

\* With no refund pending, Held counts every party.
LEMMA HeldWeighed == NonePending => \A c \in Cells : Held(c) = Weight(c)
  BY Zenon DEF NonePending, Held, Weight, CallHolders, Parties, Party

\* A step of the ledger over the parties is one over Held.
LEMMA HeldMoves ==
  ASSUME NonePending, NonePending', NEW c \in Cells, Moves(c)
  PROVE  Ledger(c)!Next \/ UNCHANGED Ledger(c)!vars
<1>1. Held(c) = Weight(c) /\ Held(c)' = Weight(c)'
  BY HeldWeighed, Zenon DEF NonePending, Held, Weight, CallHolders, Parties, Party
<1> QED
  BY <1>1, Zenon DEF Moves, Slots!Next, Slots!Admit, Slots!Return, Slots!Lose,
     Slots!Heal, Slots!Wipe, Ledger!Next, Ledger!Admit, Ledger!Return, Ledger!Lose,
     Ledger!Heal, Ledger!Wipe, Ledger!vars

\* Each cell, with the handlers that move it, implements the slot ledger: a
\* slot goes from create to row to teardown and is refunded at most once
\* (StageQuotaCharge, BindContainerName, Destroy, reapOne, forceKillRow,
\* unwind, reclaimOrphanRow).
THEOREM LedgerImplemented ==
  ASSUME Orderly, "reuse" \notin Overlaps PROVE Spec => LedgerRefined
<1>1. Init => SlotInv /\ LoneInv
  <2>1. Init => SlotInv
    BY InitSlots, FiniteParties, StoreAssumption DEF SlotInv, Slots!Covered
  <2>2. Init => \A p \in Calls : pc[p] \notin OwnsRow /\ pc[p] \notin {"dKill", "dRelease"}
    BY Zenon DEF Init, OwnsRow
  <2>3. Init => LoneInv
    BY <2>2, Zenon DEF LoneInv, OneOwner, LoneLoser, LoneTarget, Unbound,
       NonePending, Pending
  <2> QED
    BY <2>1, <2>3, Zenon
<1>2. Init => \A c \in Cells : Ledger(c)!Init
  <2>1. Init => NonePending
    BY <1>1, Zenon DEF LoneInv
  <2> QED
    BY <2>1, InitSlots, HeldWeighed, Zenon DEF Ledger!Init
<1>3. TypeInv /\ BootInv /\ ClaimInv /\ SlotInv /\ LoneInv /\ [Next]_vars
        => ClaimInv' /\ SlotInv' /\ LoneInv'
  BY ClaimInvStep, SlotInvStep, LoneInvStep, Zenon
<1>4. ASSUME TypeInv, BootInv, ClaimInv, SlotInv, LoneInv, LoneInv', [Next]_vars
      PROVE  [\A c \in Cells : Ledger(c)!Next \/ UNCHANGED Ledger(c)!vars]_vars
  <2>1. Charges
    BY <1>4, Zenon DEF SlotInv, Charges, Slots!Covered
  <2>2. ASSUME NEW c \in Cells PROVE Ledger(c)!Next \/ UNCHANGED Ledger(c)!vars
    BY <1>4, <2>1, StepMoves, HeldMoves, Zenon DEF LoneInv
  <2> QED
    BY <2>2, Zenon
<1> QED
  BY InitTyped, TypeInvStep, InitSlots, BootInvStep, <1>1, <1>2, <1>3, <1>4, PTL DEF
     Spec, LedgerRefined

-----------------------------------------------------------------------------
(* The end of the boot sweep. *)

\* Direction 3 has brought the cells of the owners it is done with to the
\* number of their live rows, which are the snapshotted rows that run.
HealInv == /\ phase \notin {"down", "up"} => sweep.active \subseteq sweep.rows
           /\ phase = "dir3" =>
                /\ \A k \in sweep.rows \cap sweep.alive : Live(k)
                /\ \A k \in sweep.rows \ sweep.todo :
                     cell[Bill(k)] = Cardinality(Billed(Bill(k)))

\* With no call in progress the slots of a cell are its live rows: a cell is
\* never below them, so correcting it down (ReconcileConcurrent) meets them.
LEMMA BilledCovered ==
  ASSUME SlotInv, phase = "dir3", \A p \in Calls : pc[p] = "idle", NEW c \in Cells
  PROVE  /\ Cardinality(Billed(c)) <= cell[c] /\ cell[c] \in Nat
         /\ Cardinality(Billed(c)) \in Nat
<1>1. RowHolders(c) = Billed(c) /\ Parties(c) = {} /\ BootHolds(c) = 0
  BY Zenon DEF RowHolders, RowHolds, Billed, Parties, Party, Pending, HoldsReceipt,
     OwnsRow, OwesRefund, BootHolds
<1>2. Weight(c) = Cardinality(Billed(c))
  BY <1>1, FiniteParties, FS_EmptySet, FS_CardinalityType DEF Weight
<1> QED
  BY <1>2, FiniteParties, Zenon DEF SlotInv, Slots!Covered

\* What Direction 3 counts for an owner is what the owner's cell bills.
LEMMA LiveCounted ==
  ASSUME Orderly, TypeInv, ClaimInv, HealInv, phase = "dir3", NEW k \in Keys
  PROVE  LiveCount(OwnerOf[k]) = Cardinality(Billed(Bill(k)))
<1>1. {j \in sweep.active \cap sweep.alive : OwnerOf[j] = OwnerOf[k]} = Billed(Bill(k))
  <2>1. \A j \in Keys : Live(j) <=> j \in sweep.active \cap sweep.alive
    BY Zenon DEF ClaimInv, Swept, HealInv
  <2>2. sweep.active \subseteq Keys
    BY Zenon DEF TypeInv, TypeOK
  <2>3. \A j \in Keys : OwnerOf[j] = OwnerOf[k] <=> Bill(j) = Bill(k)
    BY StoreAssumption, Zenon DEF Orderly, Bill
  <2> QED
    BY <2>1, <2>2, <2>3, Zenon DEF Billed
<1> QED
  BY <1>1, Zenon DEF LiveCount

\* HealInv is kept: Direction 2 leaves the rows that run, and Direction 3 sets
\* one owner's cell after the other.
LEMMA HealInvStep ==
  ASSUME Orderly, TypeInv, BootInv, ClaimInv, SlotInv, HealInv, [Next]_vars
  PROVE  HealInv'
<1>1. CASE (phase = "up" /\ phase' = "up") \/ phase' = "down"
  BY <1>1, Zenon DEF HealInv
<1>2. CASE UNCHANGED <<rowState, cell, phase, sweep>>
  BY <1>2, Zenon DEF HealInv, Live, Billed
<1>3. CASE Crash
  BY <1>1, <1>3, Zenon DEF Crash, Abort
<1>4. CASE ReconcileList
  BY <1>4, Zenon DEF ReconcileList, HealInv, LiveSessions, Live
<1>5. CASE Direction1
  BY <1>1, <1>5, Zenon DEF Direction1, HealInv, Abort, TypeInv, TypeOK
<1>6. CASE Direction2
  <2>1. CASE \E k \in sweep.todo :
                /\ phase' = "dir2Refund"
                /\ sweep' = [sweep EXCEPT !.todo = @ \ {k}, !.row = k]
    <3>1. /\ phase = "dir2" /\ phase' = "dir2Refund"
          /\ sweep'.active = sweep.active /\ sweep'.rows = sweep.rows
      <4>1. phase = "dir2"
        BY <1>6, Zenon DEF Direction2
      <4> QED
        BY <2>1, <4>1
    <3> QED
      BY <3>1, Zenon DEF HealInv
  <2>2. CASE /\ sweep.todo = {} /\ phase' = "dir3"
             /\ sweep' = [sweep EXCEPT !.todo = sweep.rows]
             /\ UNCHANGED <<rowState, stamp>>
    BY <1>6, <2>2, Zenon DEF Direction2, HealInv, BootInv, Kept, Live, TypeInv, TypeOK
  <2> QED
    BY <1>1, <1>6, <2>1, <2>2, Zenon DEF Direction2, Abort
<1>7. CASE Direction2Refund
  BY <1>1, <1>7, Zenon DEF Direction2Refund, HealInv, Abort, TypeInv, TypeOK, StoreType
<1>8. CASE Direction3
  <2>1. CASE \E k \in sweep.todo : /\ ReconcileConcurrent(OwnerOf[k])
                                  /\ sweep' = [sweep EXCEPT !.todo = {j \in @ : OwnerOf[j] # OwnerOf[k]}]
                                  /\ UNCHANGED phase
    <3>1. PICK k \in sweep.todo : /\ ReconcileConcurrent(OwnerOf[k])
                                  /\ sweep' = [sweep EXCEPT !.todo = {j \in @ : OwnerOf[j] # OwnerOf[k]}]
                                  /\ UNCHANGED phase
      BY <2>1, Zenon
    <3>2. /\ phase = "dir3" /\ UNCHANGED rowState /\ k \in Keys /\ Bill(k) \in Cells
          /\ CellOf[OwnerOf[k]] = Bill(k)
      BY <1>8, <3>1, StoreAssumption, Zenon DEF Direction3, rowVars, Bill, TypeInv,
         TypeOK
    <3>3. cell'[Bill(k)] = Cardinality(Billed(Bill(k)))
      BY <3>1, <3>2, LiveCounted, BilledCovered DEF ReconcileConcurrent, BootInv,
         TypeInv, TypeOK, StoreType
    <3>4. \A c \in Cells \ {Bill(k)} : cell'[c] = cell[c]
      BY <3>1, <3>2 DEF ReconcileConcurrent
    <3>5. \A j \in Keys : Bill(j) = Bill(k) <=> OwnerOf[j] = OwnerOf[k]
      BY <3>2, StoreAssumption, Zenon DEF Orderly, Bill
    <3>6. ASSUME NEW j \in sweep'.rows \ sweep'.todo
          PROVE  cell'[Bill(j)] = Cardinality(Billed(Bill(j)))
      <4>1. j \in Keys /\ j \in sweep.rows /\ (j \notin sweep.todo \/ OwnerOf[j] = OwnerOf[k])
        BY <3>1, <3>6, Zenon DEF TypeInv, TypeOK
      <4>2. Bill(j) \in Cells
        BY <4>1, StoreAssumption, Zenon DEF Bill
      <4> QED
        BY <3>2, <3>3, <3>4, <3>5, <4>1, <4>2, Zenon DEF HealInv
    <3>7. \A c : Billed(c)' = Billed(c)
      BY <3>2, Zenon DEF Billed, Live
    <3> QED
      BY <3>1, <3>2, <3>6, <3>7 DEF HealInv, Live
  <2> QED
    BY <1>1, <1>8, <2>1, Zenon DEF Direction3, Abort, HealInv
<1>9. CASE \/ \E p \in Calls : CreateStep(p) \/ TeardownStep(p) \/ ExecTouch(p)
           \/ \E p \in Requests : Arrival(p)
           \/ ReapList(Reaper)
  <2>1. phase = "up" /\ phase' = "up"
    <3>1. CASE \E p \in Calls : CreateStep(p) \/ TeardownStep(p) \/ ExecTouch(p)
      BY <3>1, CallStepBusy, Zenon DEF BootInv
    <3>2. CASE ReapList(Reaper)
      BY <3>2, Zenon DEF ReapList, Invoke, boot
    <3> QED
      BY <1>9, <3>1, <3>2, ArrivalUp, Zenon
  <2> QED
    BY <1>1, <2>1, Zenon
<1>10. CASE (\E e \in Keys \cup {All} : LiftDeny(e)) \/ UNCHANGED vars
            \/ \E k \in Keys : ContainerExits(k) \/ IdleTTLPasses(k)
  <2>1. UNCHANGED <<rowState, cell, phase, sweep>>
    BY <1>10, Zenon DEF LiftDeny, vars, ContainerExits, IdleTTLPasses, store,
       rowVars, callVars, boot
  <2> QED
    BY <1>2, <2>1, Zenon
<1> QED
  BY <1>3, <1>4, <1>5, <1>6, <1>7, <1>8, <1>9, <1>10, Zenon DEF Next, BootStep,
     TypeInv, TypeOK, StoreType

\* When the boot sweep lets the listeners bind, the cell of every owner it
\* found a row of counts exactly the owner's live sessions (Direction 3 of
\* Manager.Reconcile, ReconcileConcurrent).
THEOREM CellsAlwaysHealed == ASSUME Orderly PROVE Spec => ListedCellsHealed
<1>1. Init => SlotInv /\ HealInv
  <2>1. Init => SlotInv
    BY InitSlots, FiniteParties, StoreAssumption DEF SlotInv, Slots!Covered
  <2>2. Init => HealInv
    BY Zenon DEF Init, HealInv
  <2> QED
    BY <2>1, <2>2, Zenon
<1>2. TypeInv /\ BootInv /\ ClaimInv /\ SlotInv /\ HealInv /\ [Next]_vars
        => ClaimInv' /\ SlotInv' /\ HealInv'
  BY ClaimInvStep, SlotInvStep, HealInvStep, Zenon
<1>3. ASSUME BootInv, HealInv, [Next]_vars, phase = "dir3", phase' = "up"
      PROVE  \A k \in sweep.rows : cell[Bill(k)] = Cardinality(Billed(Bill(k)))
  <2>1. sweep.todo = {}
    <3>1. CASE BootStep
      BY <1>3, <3>1, Zenon DEF BootStep, ReconcileList, Direction1, Direction2,
         Direction2Refund, Direction3, Abort
    <3>2. CASE Crash
      BY <1>3, <3>2, Zenon DEF Crash, Abort
    <3>3. CASE \E p \in Calls : CreateStep(p) \/ TeardownStep(p) \/ ExecTouch(p)
      BY <1>3, <3>3, CallStepBusy, Zenon
    <3>4. CASE \/ \E e \in Keys \cup {All} : LiftDeny(e)
               \/ \E k \in Keys : ContainerExits(k) \/ IdleTTLPasses(k)
               \/ ReapList(Reaper) \/ UNCHANGED vars
      <4>1. phase' = phase
        BY <3>4, Zenon DEF LiftDeny, ContainerExits, IdleTTLPasses, ReapList, vars,
           boot
      <4> QED
        BY <1>3, <4>1, Zenon
    <3> QED
      BY <1>3, <3>1, <3>2, <3>3, <3>4, ArrivalUp, Zenon DEF Next
  <2> QED
    BY <1>3, <2>1, Zenon DEF HealInv
<1>4. BootInv /\ HealInv /\ [Next]_vars =>
        [phase = "dir3" /\ phase' = "up" =>
           \A k \in sweep.rows : cell[Bill(k)] = Cardinality(Billed(Bill(k)))]_vars
  BY <1>3, Zenon
<1> QED
  BY InitTyped, TypeInvStep, InitSlots, BootInvStep, <1>1, <1>2, <1>4, PTL DEF Spec,
     ListedCellsHealed
=============================================================================
