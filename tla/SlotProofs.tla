----------------------------- MODULE SlotProofs -----------------------------
(***************************************************************************)
(* Concurrency slots, proved for every set of keys, owners, cells and      *)
(* calls: each step moves every cell as the slot ledger does, so that no   *)
(* cell ever counts fewer slots than are in use.                           *)
(***************************************************************************)
EXTENDS TeardownProofs

\* Time for the solver on the larger leaves.
USE SMTT(60)

(* Who answers for a slot, or may still come to. *)

\* A destroy that is about to refund the slot of a row which an unwind released
\* before it: the row was bound by another create, so nobody else answers.
Pending(p) == /\ pc[p] \in {"dKill", "dRelease"}
              /\ RefundsSlot(p)
              /\ ~Live(key[p])

Party(p) == pc[p] \in HoldsReceipt \cup OwesRefund \/ Pending(p)

Parties(c) == {p \in Calls : Party(p) /\ Bill(key[p]) = c}

Weight(c) == Cardinality(Parties(c)) + Cardinality(RowHolders(c)) + BootHolds(c)

Slots(c) == INSTANCE SlotLedger WITH held <- Weight(c), cell <- cell[c]

\* A step of the ledger of c, or none.
Moves(c) == Slots(c)!Next \/ UNCHANGED <<Weight(c), cell[c]>>

\* The parties to a cell are finitely many, and Weight is a number.
LEMMA FiniteParties ==
  ASSUME NEW c
  PROVE  /\ IsFiniteSet(Parties(c)) /\ IsFiniteSet(RowHolders(c))
         /\ IsFiniteSet(Parties(c)') /\ IsFiniteSet(RowHolders(c)')
         /\ BootHolds(c) \in {0, 1} /\ BootHolds(c)' \in {0, 1}
         /\ Weight(c) \in Nat /\ Weight(c)' \in Nat
<1>1. IsFiniteSet(Calls)
  BY LifecycleAssumption, FS_AddElement, Zenon DEF Calls
<1>2. IsFiniteSet(Parties(c)) /\ IsFiniteSet(Parties(c)')
  BY <1>1, FS_Subset, Zenon DEF Parties
<1>3. IsFiniteSet(RowHolders(c)) /\ IsFiniteSet(RowHolders(c)')
  BY StoreAssumption, FS_Subset, Zenon DEF RowHolders
<1>4. BootHolds(c) \in {0, 1} /\ BootHolds(c)' \in {0, 1}
  BY Zenon DEF BootHolds
<1>5. Weight(c) \in Nat /\ Weight(c)' \in Nat
  BY <1>2, <1>3, <1>4, FS_CardinalityType DEF Weight
<1> QED
  BY <1>2, <1>3, <1>4, <1>5, Zenon

\* A union is no larger than its parts together.
LEMMA UnionBound ==
  ASSUME NEW S, IsFiniteSet(S), NEW T, IsFiniteSet(T)
  PROVE  /\ IsFiniteSet(S \cup T)
         /\ Cardinality(S \cup T) <= Cardinality(S) + Cardinality(T)
<1>1. IsFiniteSet(S \cap T)
  BY FS_Subset, Zenon
<1>2. Cardinality(S \cap T) \in Nat /\ Cardinality(S) \in Nat /\ Cardinality(T) \in Nat
  BY <1>1, FS_CardinalityType, Zenon
<1>3. /\ IsFiniteSet(S \cup T)
      /\ Cardinality(S \cup T) = Cardinality(S) + Cardinality(T) - Cardinality(S \cap T)
  BY FS_Union, Zenon
<1> QED
  BY <1>2, <1>3

\* A set within another and one element more is at most one larger.
LEMMA OneMore ==
  ASSUME NEW S, IsFiniteSet(S), NEW x, NEW T \in SUBSET (S \cup {x})
  PROVE  Cardinality(T) <= Cardinality(S) + 1
<1>1. /\ IsFiniteSet(S \cup {x})
      /\ Cardinality(S \cup {x}) \in {Cardinality(S), Cardinality(S) + 1}
  BY FS_AddElement, Zenon
<1>2. Cardinality(T) <= Cardinality(S \cup {x}) /\ IsFiniteSet(T)
  BY <1>1, FS_Subset, Zenon
<1> QED
  BY <1>1, <1>2, FS_CardinalityType

\* A set within another less one of its elements is at least one smaller.
LEMMA OneLess ==
  ASSUME NEW S, IsFiniteSet(S), NEW x \in S, NEW T \in SUBSET (S \ {x})
  PROVE  Cardinality(T) <= Cardinality(S) - 1
<1>1. IsFiniteSet(S \ {x}) /\ Cardinality(S \ {x}) = Cardinality(S) - 1
  BY FS_RemoveElement, Zenon
<1> QED
  BY <1>1, FS_Subset, Zenon

\* A step that adds no party and leaves the cell alone is one of the ledger's:
\* nothing, or a slot lost (a refund that failed, a crash).
LEMMA NoneAdded ==
  ASSUME NEW c \in Cells, Parties(c)' \subseteq Parties(c),
         RowHolders(c)' \subseteq RowHolders(c),
         BootHolds(c)' <= BootHolds(c), cell'[c] = cell[c]
  PROVE  Moves(c)
<1>1. /\ Cardinality(Parties(c)') <= Cardinality(Parties(c))
      /\ Cardinality(RowHolders(c)') <= Cardinality(RowHolders(c))
  BY FiniteParties, FS_Subset, Zenon
<1>2. Weight(c)' <= Weight(c)
  BY <1>1, FiniteParties, FS_CardinalityType DEF Weight
<1> QED
  BY <1>2, FiniteParties DEF Moves, Slots!Next, Slots!Lose

\* A slot handed from a row to the teardown that released it.
LEMMA RowToParty ==
  ASSUME NEW c \in Cells, NEW k \in RowHolders(c), NEW p,
         Parties(c)' \subseteq Parties(c) \cup {p},
         RowHolders(c)' \subseteq RowHolders(c) \ {k},
         BootHolds(c)' = BootHolds(c), cell'[c] = cell[c]
  PROVE  Moves(c)
<1>1. Cardinality(Parties(c)') <= Cardinality(Parties(c)) + 1
  BY FiniteParties, OneMore, Zenon
<1>2. Cardinality(RowHolders(c)') <= Cardinality(RowHolders(c)) - 1
  BY FiniteParties, OneLess, Zenon
<1>3. Weight(c)' <= Weight(c)
  BY <1>1, <1>2, FiniteParties, FS_CardinalityType DEF Weight
<1> QED
  BY <1>3, FiniteParties DEF Moves, Slots!Next, Slots!Lose

\* A slot handed from a create to its row (BindContainerName).
LEMMA PartyToRow ==
  ASSUME NEW c \in Cells, NEW p \in Parties(c), NEW k,
         Parties(c)' \subseteq Parties(c) \ {p},
         RowHolders(c)' \subseteq RowHolders(c) \cup {k},
         BootHolds(c)' = BootHolds(c), cell'[c] = cell[c]
  PROVE  Moves(c)
<1>1. Cardinality(Parties(c)') <= Cardinality(Parties(c)) - 1
  BY FiniteParties, OneLess, Zenon
<1>2. Cardinality(RowHolders(c)') <= Cardinality(RowHolders(c)) + 1
  BY FiniteParties, OneMore, Zenon
<1>3. Weight(c)' <= Weight(c)
  BY <1>1, <1>2, FiniteParties, FS_CardinalityType DEF Weight
<1> QED
  BY <1>3, FiniteParties DEF Moves, Slots!Next, Slots!Lose

\* A create charges a cell below its limit (ChargeCreate).
LEMMA Charged ==
  ASSUME NEW c \in Cells, cell \in [Cells -> Nat], NEW p, p \notin Parties(c),
         Parties(c)' = Parties(c) \cup {p}, RowHolders(c)' = RowHolders(c),
         BootHolds(c)' = BootHolds(c), cell[c] + 1 <= Limit, cell'[c] = cell[c] + 1
  PROVE  Moves(c)
<1>1. Cardinality(Parties(c)') = Cardinality(Parties(c)) + 1
  BY FiniteParties, FS_AddElement, Zenon
<1>2. Weight(c)' = Weight(c) + 1
  BY <1>1, FiniteParties, FS_CardinalityType DEF Weight
<1> QED
  BY <1>2, FiniteParties, StoreAssumption DEF Moves, Slots!Next, Slots!Admit

\* A party refunds its slot; the floor at zero of RefundConcurrent is never
\* met, for the party's own slot is charged.
LEMMA Refunded ==
  ASSUME NEW c \in Cells, cell \in [Cells -> Nat], NEW p \in Parties(c),
         Parties(c)' = Parties(c) \ {p}, RowHolders(c)' = RowHolders(c),
         BootHolds(c)' = BootHolds(c), Weight(c) <= cell[c],
         cell'[c] = IF cell[c] > 0 THEN cell[c] - 1 ELSE 0
  PROVE  Moves(c)
<1>1. Cardinality(Parties(c)') = Cardinality(Parties(c)) - 1
  BY FiniteParties, FS_RemoveElement, Zenon
<1>2. Weight(c)' = Weight(c) - 1
  BY <1>1, FiniteParties, FS_CardinalityType DEF Weight
<1> QED
  BY <1>2, FiniteParties DEF Moves, Slots!Next, Slots!Return

\* Steps that hand no slot on.
LEMMA SlotsStay ==
  ASSUME TypeInv, NEW p \in Calls, Alone(p), UNCHANGED <<bound, cell, phase, sweep>>,
         \A k \in Keys : Live(k)' <=> Live(k),
         Party(p)' => Party(p) /\ key'[p] = key[p],
         pc[p] \in OwnsRow => pc'[p] \in OwnsRow /\ key'[p] = key[p],
         NEW c \in Cells
  PROVE  Moves(c)
<1>1. Parties(c)' \subseteq Parties(c)
  <2> SUFFICES ASSUME NEW q \in Calls, Party(q)', Bill(key'[q]) = c
               PROVE  Party(q) /\ Bill(key[q]) = c
    BY Zenon DEF Parties
  <2>1. CASE q = p
    BY <2>1, Zenon
  <2>2. CASE q # p
    BY <2>2, Zenon DEF Party, Pending, RefundsSlot, Alone, TypeInv, Keyed, Unkeyed
  <2> QED
    BY <2>1, <2>2, Zenon
<1>2. RowHolders(c)' \subseteq RowHolders(c)
  <2> SUFFICES ASSUME NEW k \in Keys, RowHolds(k)' PROVE RowHolds(k)
    BY Zenon DEF RowHolders
  <2> QED
    BY Zenon DEF RowHolds, Alone
<1>3. BootHolds(c)' <= BootHolds(c)
  BY FiniteParties DEF BootHolds
<1> QED
  BY <1>1, <1>2, <1>3, NoneAdded, Zenon

\* Every slot somebody answers for is charged.
Charges == \A c \in Cells : Weight(c) <= cell[c]

\* The end of an unwind, of a destroy, of a reap or of a kill: the call that
\* owes the refund makes it, or its slot is lost.
LEMMA RefundMoves ==
  ASSUME TypeInv, Charges, NEW p \in Calls, Alone(p),
         UNCHANGED <<rowState, bound, phase, sweep>>,
         pc[p] \in OwesRefund \cup {"uRefund"}, pc'[p] \in {"idle", "rNext", "kNext"},
         RefundOne(Bill(key[p])) \/ UNCHANGED cell, NEW c \in Cells
  PROVE  Moves(c)
<1>1. Parties(c)' = Parties(c) \ {p}
  <2> SUFFICES ASSUME NEW q \in Calls PROVE q \in Parties(c)' <=> q \in Parties(c) /\ q # p
    BY Zenon DEF Parties
  <2>1. CASE q = p
    BY <2>1, Zenon DEF Parties, Party, Pending, HoldsReceipt, OwnsRow, OwesRefund
  <2>2. CASE q # p
    BY <2>2, Zenon DEF Parties, Party, Pending, RefundsSlot, Alone, Live
  <2> QED
    BY <2>1, <2>2, Zenon
<1>2. RowHolders(c)' = RowHolders(c)
  <2> SUFFICES ASSUME NEW k \in Keys PROVE RowHolds(k)' <=> RowHolds(k)
    BY Zenon DEF RowHolders
  <2> QED
    BY Zenon DEF RowHolds, Live, Alone, OwnsRow, OwesRefund
<1>3. BootHolds(c)' = BootHolds(c)
  BY Zenon DEF BootHolds
<1>4. CASE RefundOne(Bill(key[p])) /\ Bill(key[p]) = c
  <2>1. p \in Parties(c)
    BY <1>4, Zenon DEF Parties, Party, HoldsReceipt
  <2>2. cell'[c] = IF cell[c] > 0 THEN cell[c] - 1 ELSE 0
    BY <1>4, Zenon DEF RefundOne, TypeInv, TypeOK, StoreType
  <2> QED
    BY <1>1, <1>2, <1>3, <2>1, <2>2, Refunded, Zenon DEF Charges, TypeInv, TypeOK,
       StoreType
<1>5. CASE cell'[c] = cell[c]
  BY <1>1, <1>2, <1>3, <1>5, NoneAdded, FiniteParties
<1> QED
  BY <1>4, <1>5, Zenon DEF RefundOne, TypeInv, TypeOK, StoreType

\* Each stage of a create, and of its unwind, moves every cell as the ledger
\* does: the charge admits, the bind hands over, the unwind returns.
LEMMA CreateSlots ==
  ASSUME Orderly, TypeInv, ClaimInv, Charges, NEW p \in Calls, CreateStep(p),
         NEW c \in Cells
  PROVE  Moves(c)
<1> DEFINE k == key[p]
<1>1. k \in Keys /\ Alone(p) /\ UNCHANGED <<phase, sweep>> /\ Creates(p)
  <2>1. Creates(p) /\ k \in Keys
    BY CreateMoves, CreateOwns, Zenon DEF ClaimInv
  <2> QED
    BY <2>1, Zenon DEF Creates
<1>2. BootHolds(c)' = BootHolds(c)
  BY <1>1, Zenon DEF BootHolds
<1>3. CASE StageQuotaCharge(p)
  <2>1. UNCHANGED <<rowState, bound>>
    BY <1>3, Zenon DEF StageQuotaCharge, rowVars
  <2>2. RowHolders(c)' = RowHolders(c)
    <3> SUFFICES ASSUME NEW j \in Keys PROVE RowHolds(j)' <=> RowHolds(j)
      BY Zenon DEF RowHolders
    <3> QED
      BY <1>1, <1>3, <2>1 DEF RowHolds, Live, Alone, StageQuotaCharge, Goto, Done,
         OwnsRow, TypeInv, TypeOK, StoreType
  <2>3. ASSUME NEW q \in Calls, q # p PROVE q \in Parties(c)' <=> q \in Parties(c)
    BY <1>1, <2>1, <2>3, Zenon DEF Parties, Party, Pending, RefundsSlot, Alone, Live
  <2>4. p \notin Parties(c)
    BY <1>3, Zenon DEF StageQuotaCharge, Parties, Party, Pending, HoldsReceipt, OwnsRow,
       OwesRefund
  <2>5. CASE ChargeOne(Bill(k)) /\ Goto(p, "denyCheck") /\ Bill(k) = c
    <3>1. Parties(c)' = Parties(c) \cup {p}
      BY <2>3, <2>5 DEF Goto, Parties, Party, HoldsReceipt, TypeInv, TypeOK,
         StoreType
    <3> QED
      BY <1>2, <2>2, <2>4, <2>5, <3>1, Charged, Zenon DEF ChargeOne, TypeInv, TypeOK,
         StoreType
  <2>6. CASE ChargeOne(Bill(k)) /\ Goto(p, "denyCheck") /\ Bill(k) # c
    <3>1. Parties(c)' \subseteq Parties(c)
      BY <2>3, <2>6, Zenon DEF Goto, Parties
    <3> QED
      BY <1>2, <2>2, <2>6, <3>1, NoneAdded, FiniteParties DEF ChargeOne
  <2>7. CASE Done(p) /\ UNCHANGED cell
    <3>1. Parties(c)' \subseteq Parties(c)
      BY <2>3, <2>7, Zenon DEF Done, Parties, Party, Pending, HoldsReceipt, OwnsRow,
         OwesRefund, TypeInv, TypeOK
    <3> QED
      BY <1>2, <2>2, <2>7, <3>1, NoneAdded, FiniteParties
  <2> QED
    BY <1>3, <2>5, <2>6, <2>7, Zenon DEF StageQuotaCharge
<1>4. CASE StageReserveInsert(p)
  <2>1. UNCHANGED cell
    BY <1>4, Zenon DEF StageReserveInsert, TypeInv, TypeOK
  <2>2. Parties(c)' \subseteq Parties(c)
    BY <1>1, <1>4 DEF StageReserveInsert, ReserveInsert, rowVars, Goto, Alone,
       Parties, Party, Pending, RefundsSlot, Live, HoldsReceipt, OwnsRow, OwesRefund,
       Keyed, Unkeyed, TypeInv, TypeOK, StoreType
  <2>3. RowHolders(c)' \subseteq RowHolders(c)
    <3> SUFFICES ASSUME NEW j \in Keys, RowHolds(j)' PROVE RowHolds(j)
      BY Zenon DEF RowHolders
    <3> QED
      BY <1>1, <1>4 DEF StageReserveInsert, ReserveInsert, rowVars, Goto, Alone,
         RowHolds, Live, OwnsRow, TypeInv, TypeOK, StoreType
  <2> QED
    BY <1>2, <2>1, <2>2, <2>3, NoneAdded, FiniteParties
<1>5. CASE StageBind(p)
  <2>1. UNCHANGED <<rowState, cell>>
    BY <1>5, Zenon DEF StageBind
  <2>2. CASE BindContainerName(k) /\ Done(p)
    <3>1. Parties(c)' \subseteq Parties(c) \ {p}
      BY <1>1, <2>1, <2>2 DEF BindContainerName, Done, Alone, Parties, Party,
         Pending, RefundsSlot, Live, HoldsReceipt, OwnsRow, OwesRefund, Keyed, Unkeyed,
         TypeInv, TypeOK
    <3>2. ASSUME NEW j \in Keys, RowHolds(j)', j # k PROVE RowHolds(j)
      BY <1>1, <2>1, <2>2, <3>2 DEF BindContainerName, Alone, RowHolds, Live
    <3>3. CASE Bill(k) = c
      BY <1>2, <1>5, <2>1, <3>1, <3>2, <3>3, PartyToRow, Zenon DEF RowHolders,
         Parties, Party, StageBind, HoldsReceipt, OwnsRow
    <3>4. CASE Bill(k) # c
      <4>1. Parties(c)' \subseteq Parties(c) /\ RowHolders(c)' \subseteq RowHolders(c)
        BY <3>1, <3>2, <3>4, Zenon DEF RowHolders
      <4> QED
        BY <1>2, <2>1, <4>1, NoneAdded, FiniteParties
    <3> QED
      BY <3>3, <3>4, Zenon
  <2>3. CASE Goto(p, "uKill") /\ UNCHANGED bound
    BY <1>1, <1>5, <2>1, <2>3, SlotsStay DEF StageBind, Goto, Party, HoldsReceipt,
       OwnsRow, Live
  <2> QED
    BY <1>5, <2>2, <2>3, Zenon DEF StageBind
<1>6. CASE UnwindRelease(p)
  <2>1. /\ ReleaseRow(k) /\ Goto(p, "uRefund") /\ pc[p] = "uRelease"
        /\ UNCHANGED <<bound, cell>>
    BY <1>6, Zenon DEF UnwindRelease, Orderly
  <2>2. ASSUME NEW j \in Keys, RowHolds(j)' PROVE RowHolds(j) /\ j # k
    BY <1>1, <2>1, <2>2, Zenon DEF ReleaseRow, Alone, RowHolds, Live, TypeInv, TypeOK,
       StoreType
  <2>3. ASSUME NEW q \in Calls, q \in Parties(c)'
        PROVE  q \in Parties(c) \/ (/\ pc[q] \in {"dKill", "dRelease"} /\ key[q] = k
                                    /\ bound[k] /\ Live(k) /\ Bill(k) = c)
    BY <1>1, <2>1, <2>3 DEF ReleaseRow, Goto, Alone, Parties, Party, Pending,
       RefundsSlot, Live, HoldsReceipt, OwnsRow, Keyed, Unkeyed
  <2>4. CASE \E q \in Calls : q \in Parties(c)' /\ q \notin Parties(c)
    <3>1. PICK q \in Calls : q \in Parties(c)' /\ q \notin Parties(c)
      BY <2>4, Zenon
    <3>2. ASSUME NEW r \in Calls, r \in Parties(c)', r \notin Parties(c) PROVE r = q
      <4>1. Claims(q, k) /\ Claims(r, k)
        BY <2>3, <3>1, <3>2, Zenon DEF Claims, TeardownSteps, OwesRefund
      <4> QED
        BY <1>1, <4>1, Zenon DEF ClaimInv, OneClaim
    <3>3. k \in RowHolders(c)
      BY <1>1, <2>3, <3>1, Zenon DEF RowHolders, RowHolds
    <3>4. Parties(c)' \subseteq Parties(c) \cup {q}
      BY <3>2, Zenon DEF Parties
    <3>5. RowHolders(c)' \subseteq RowHolders(c) \ {k}
      BY <2>2, Zenon DEF RowHolders
    <3> QED
      BY <1>2, <2>1, <3>3, <3>4, <3>5, RowToParty, Zenon
  <2>5. CASE ~\E q \in Calls : q \in Parties(c)' /\ q \notin Parties(c)
    <3>1. Parties(c)' \subseteq Parties(c) /\ RowHolders(c)' \subseteq RowHolders(c)
      BY <2>2, <2>5, Zenon DEF Parties, RowHolders
    <3> QED
      BY <1>2, <2>1, <3>1, NoneAdded, FiniteParties
  <2> QED
    BY <2>4, <2>5, Zenon
<1>7. CASE UnwindRefund(p)
  BY <1>1, <1>7, RefundMoves, Zenon DEF UnwindRefund, rowVars, Done, TypeInv, TypeOK
<1>8. CASE RowsStay(p) /\ CellsStay(p)
  <2>1. UNCHANGED <<bound, cell>> /\ \A j \in Keys : Live(j)' <=> Live(j)
    BY <1>8, Zenon DEF RowsStay, CellsStay
  <2>2. /\ Party(p)' => Party(p) /\ key'[p] = key[p]
        /\ pc[p] \in OwnsRow => pc'[p] \in OwnsRow /\ key'[p] = key[p]
    BY <1>1, <1>8, Zenon DEF Creates, RowsStay, CellsStay, Party, Pending, CreateSteps,
       HoldsReceipt, OwnsRow, OwesRefund
  <2> QED
    BY <1>1, <2>1, <2>2, SlotsStay, Zenon
<1> QED
  BY <1>3, <1>4, <1>5, <1>6, <1>7, <1>8, CreateMoves, Zenon

\* Each step of Destroy, the reaper and the kill switch moves every cell as the
\* ledger does: a release hands the row's slot to the call that refunds it.
LEMMA TeardownSlots ==
  ASSUME Orderly, TypeInv, ClaimInv, Charges, NEW p \in Calls, TeardownStep(p),
         NEW c \in Cells
  PROVE  Moves(c)
<1> DEFINE k == key[p]
<1>1. Alone(p) /\ UNCHANGED <<phase, sweep, bound>> /\ OneClaim /\ TakenLive
  <2>1. Tears(p)
    BY TeardownMoves, Zenon
  <2> QED
    BY <2>1, Zenon DEF Tears, ClaimInv
<1>2. BootHolds(c)' = BootHolds(c)
  BY <1>1, Zenon DEF BootHolds
<1>3. ASSUME ReleaseRow(k), pc[p] \in {"dRelease", "rRelease", "kRelease"}, UNCHANGED cell,
             \/ /\ pc'[p] \in OwesRefund /\ key'[p] = k
                /\ pc[p] = "dRelease" => RefundsSlot(p)
             \/ pc'[p] = "idle"
      PROVE  Moves(c)
  <2>1. k \in Keys /\ Claims(p, k)
    BY <1>3, Zenon DEF Keyed, Unkeyed, Claims, TeardownSteps, OwesRefund, TypeInv,
       TypeOK
  <2>2. ASSUME NEW j \in Keys, RowHolds(j)' PROVE RowHolds(j) /\ j # k
    BY <1>1, <1>3, <2>1, <2>2, Zenon DEF ReleaseRow, Alone, RowHolds, Live, OwnsRow,
       TypeInv, TypeOK, StoreType
  <2>3. ASSUME NEW q \in Calls, q # p, q \in Parties(c)' PROVE q \in Parties(c)
    <3>1. ~Claims(q, k)
      BY <1>1, <2>1, <2>3, Zenon DEF OneClaim
    <3>2. pc[q] \in {"dKill", "dRelease"} => key[q] \in Keys /\ key[q] # k
      BY <3>1, Zenon DEF Claims, TeardownSteps, OwesRefund, Keyed, Unkeyed, TypeInv,
         TypeOK, StoreType
    <3> QED
      BY <1>1, <1>3, <2>1, <2>3, <3>2 DEF ReleaseRow, Alone, Parties, Party,
         Pending, RefundsSlot, Live
  <2>4. CASE p \in Parties(c)' /\ p \notin Parties(c)
    <3>1. /\ Bill(k) = c /\ pc'[p] \in OwesRefund
          /\ pc[p] = "dRelease" => RefundsSlot(p) /\ Live(k)
      BY <1>3, <2>4, Zenon DEF Parties, Party, Pending, HoldsReceipt, OwnsRow,
         OwesRefund
    <3>2. pc[p] # "dRelease" => Live(k) /\ ~Owning(k)
      BY <1>1, <1>3, <2>1, Zenon DEF TakenLive, Takes, Releasing
    <3>3. k \in RowHolders(c)
      BY <2>1, <3>1, <3>2, Zenon DEF RowHolders, RowHolds, Owning, RefundsSlot
    <3>4. Parties(c)' \subseteq Parties(c) \cup {p}
      BY <2>3, Zenon DEF Parties
    <3>5. RowHolders(c)' \subseteq RowHolders(c) \ {k}
      BY <2>2, Zenon DEF RowHolders
    <3> QED
      BY <1>2, <1>3, <3>3, <3>4, <3>5, RowToParty, Zenon
  <2>5. CASE ~(p \in Parties(c)' /\ p \notin Parties(c))
    <3>1. Parties(c)' \subseteq Parties(c) /\ RowHolders(c)' \subseteq RowHolders(c)
      BY <2>2, <2>3, <2>5, Zenon DEF Parties, RowHolders
    <3> QED
      BY <1>2, <1>3, <3>1, NoneAdded, FiniteParties
  <2> QED
    BY <2>4, <2>5, Zenon
<1>4. CASE DestroyRefund(p) \/ ReapRefund(p) \/ ForceRefund(p)
  BY <1>1, <1>4, RefundMoves, Zenon DEF DestroyRefund, ReapRefund, ForceRefund, rowVars,
     Goto, Done, OwesRefund, TypeInv, TypeOK
<1>5. ASSUME UNCHANGED <<rowState, cell>>, Party(p)' => Party(p) /\ key'[p] = key[p],
             pc[p] \notin OwnsRow
      PROVE  Moves(c)
  BY <1>1, <1>5, SlotsStay, Zenon DEF Live
<1>6. CASE DestroyRelease(p)
  <2>1. CASE UNCHANGED rowState /\ Done(p)
    BY <1>5, <1>6, <2>1, Zenon DEF DestroyRelease, Done, Party, Pending, HoldsReceipt,
       OwnsRow, OwesRefund, TypeInv, TypeOK, StoreType
  <2>2. CASE ReleaseRow(k) /\ IF RefundsSlot(p) THEN Goto(p, "dRefund") ELSE Done(p)
    BY <1>3, <1>6, <2>2, Zenon DEF DestroyRelease, Goto, Done, OwesRefund, TypeInv,
       TypeOK, StoreType
  <2> QED
    BY <1>6, <2>1, <2>2, Zenon DEF DestroyRelease
<1>7. CASE ReapRelease(p)
  <2>1. CASE UNCHANGED rowState /\ Done(p)
    BY <1>5, <1>7, <2>1 DEF ReapRelease, Done, Party, Pending, HoldsReceipt,
       OwnsRow, OwesRefund
  <2>2. CASE ReleaseRow(k) /\ Goto(p, "rRefund")
    BY <1>3, <1>7, <2>2, Zenon DEF ReapRelease, Goto, OwesRefund, TypeInv, TypeOK
  <2> QED
    BY <1>7, <2>1, <2>2, Zenon DEF ReapRelease
<1>8. CASE ForceReleaseRow(p)
  <2>1. CASE UNCHANGED rowState /\ Goto(p, "kNext")
    BY <1>5, <1>8, <2>1 DEF ForceReleaseRow, Goto, Party, Pending, HoldsReceipt,
       OwnsRow, OwesRefund
  <2>2. CASE ReleaseRow(k) /\ Goto(p, "kRefund")
    BY <1>3, <1>8, <2>2, Zenon DEF ForceReleaseRow, Goto, OwesRefund, TypeInv, TypeOK
  <2> QED
    BY <1>8, <2>1, <2>2, Zenon DEF ForceReleaseRow
<1>9. CASE DestroyKill(p)
  <2>1. UNCHANGED <<rowState, cell>> /\ pc[p] \notin OwnsRow
    BY <1>9, Zenon DEF DestroyKill, store, OwnsRow
  <2>2. Party(p)' => Party(p) /\ key'[p] = key[p]
    BY <1>1, <1>9, <2>1 DEF DestroyKill, Goto, Done, Party, Pending, RefundsSlot,
       Live, HoldsReceipt, OwnsRow, OwesRefund, TypeInv, TypeOK
  <2> QED
    BY <1>5, <2>1, <2>2, Zenon
<1>10. CASE \/ ReapNext(p) \/ ReapKill(p) \/ RevokeAllList(p) \/ ForceKillKey(p)
            \/ RevokeNext(p) \/ ForceKillRow(p)
  <2>1. UNCHANGED <<rowState, cell>> /\ pc[p] \notin OwnsRow
    BY <1>10, Zenon DEF ReapNext, ReapKill, RevokeAllList, ForceKillKey, RevokeNext,
       ForceKillRow, store, OwnsRow
  <2>2. ~Party(p)'
    BY <1>10 DEF ReapNext, ReapKill, RevokeAllList, ForceKillKey, RevokeNext,
       ForceKillRow, Goto, Done, Party, Pending, HoldsReceipt, OwnsRow, OwesRefund,
       TypeInv, TypeOK, StoreType
  <2> QED
    BY <1>5, <2>1, <2>2, Zenon
<1> QED
  BY <1>4, <1>6, <1>7, <1>8, <1>9, <1>10, Zenon DEF TeardownStep

\* No call arriving, no touch and no listing moves a slot.
LEMMA ArrivalSlots ==
  ASSUME TypeInv, NEW c \in Cells,
         \/ \E p \in Calls : ExecTouch(p)
         \/ \E p \in Requests : Arrival(p)
         \/ ReapList(Reaper)
  PROVE  Moves(c)
<1>1. PICK p \in Calls : \/ ExecTouch(p) \/ RevokeAll(p) \/ ReapList(p)
                         \/ \E k \in Keys : \/ CreateStart(p, k) \/ DestroyLookup(p, k)
                                            \/ ExecDispatch(p, k) \/ RevokeOne(p, k)
  BY Zenon DEF Arrival, Calls
<1>2. Arrives(p)
  BY <1>1, ArrivalMoves, Zenon
<1>3. /\ UNCHANGED <<bound, cell, phase, sweep, rowState>>
      /\ Alone(p) /\ pc[p] \notin OwnsRow
  BY <1>2, Zenon DEF Arrives, CreateSteps, HoldsReceipt
<1>4. ~Party(p)'
  <2>1. pc'[p] \notin HoldsReceipt \cup OwesRefund
    BY <1>2, Zenon DEF Arrives, ClaimSteps, TeardownSteps, OwesRefund
  <2>2. ~Pending(p)'
    <3>1. SUFFICES ASSUME pc'[p] \in {"dKill", "dRelease"}, seen'[p] # "RELEASED"
                   PROVE  Live(key[p])'
      BY Zenon DEF Pending, RefundsSlot
    <3>2. /\ key'[p] \in Keys /\ seen'[p] = rowState[key'[p]] /\ seen'[p] # "NONE"
          /\ rowState' = rowState
      BY <1>2, <3>1, Zenon DEF Arrives, ClaimSteps, TeardownSteps
    <3> QED
      BY <3>1, <3>2, RowTypes, Zenon DEF Live, RowStates
  <2> QED
    BY <2>1, <2>2, Zenon DEF Party
<1> QED
  BY <1>3, <1>4, SlotsStay, Zenon DEF Live

\* Nor does a step that writes neither rows, cells, calls nor the boot.
LEMMA IdleSlots ==
  ASSUME NEW c \in Cells, UNCHANGED <<rowState, bound, cell, pc, key, seen, phase, sweep>>
  PROVE  Moves(c)
<1>1. Parties(c)' \subseteq Parties(c) /\ RowHolders(c)' \subseteq RowHolders(c)
  BY Zenon DEF Parties, Party, Pending, RefundsSlot, Live, RowHolders, RowHolds
<1>2. BootHolds(c)' = BootHolds(c)
  BY Zenon DEF BootHolds
<1> QED
  BY <1>1, <1>2, NoneAdded, FiniteParties

\* A crash loses the slots of the calls in progress; rows keep theirs, unless
\* the store was in memory and goes with its cells.
LEMMA CrashSlots ==
  ASSUME TypeInv, Crash, NEW c \in Cells
  PROVE  Moves(c)
<1>1. Parties(c)' = {} /\ BootHolds(c)' = 0
  BY Zenon DEF Crash, Abort, Parties, Party, Pending, BootHolds, HoldsReceipt, OwnsRow,
     OwesRefund
<1>2. CASE ~Durable
  <2>1. RowHolders(c)' = {} /\ cell'[c] = 0
    BY <1>2, Zenon DEF Crash, RowHolders, RowHolds, Live
  <2>2. Weight(c)' = 0
    BY <1>1, <2>1, FS_EmptySet DEF Weight
  <2> QED
    BY <2>1, <2>2, Zenon DEF Moves, Slots!Next, Slots!Wipe
<1>3. CASE Durable
  <2> DEFINE Left == {key[p] : p \in Parties(c)}
             f == [p \in Parties(c) |-> key[p]]
  <2>1. UNCHANGED <<rowState, bound, cell>>
    BY <1>3, Zenon DEF Crash
  <2>2. IsFiniteSet(Left) /\ Cardinality(Left) <= Cardinality(Parties(c))
    <3>1. f \in Surjection(Parties(c), Left)
      BY Zenon DEF Surjection
    <3> QED
      BY <3>1, FiniteParties, FS_Surjection, Zenon
  <2>3. RowHolders(c)' \subseteq RowHolders(c) \cup Left
    BY <2>1, Zenon DEF RowHolders, RowHolds, Live, Parties, Party, HoldsReceipt
  <2>4. /\ IsFiniteSet(RowHolders(c) \cup Left)
        /\ Cardinality(RowHolders(c) \cup Left) <= Cardinality(RowHolders(c)) + Cardinality(Left)
    BY <2>2, FiniteParties, UnionBound, Zenon
  <2> HIDE DEF Left
  <2>5. Cardinality(RowHolders(c)') <= Cardinality(RowHolders(c) \cup Left)
    BY <2>3, <2>4, FS_Subset, Zenon
  <2>6. Weight(c)' <= Weight(c)
    <3>1. /\ Cardinality(Parties(c)) \in Nat /\ Cardinality(RowHolders(c)) \in Nat
          /\ Cardinality(RowHolders(c)') \in Nat /\ Cardinality(Left) \in Nat
          /\ Cardinality(RowHolders(c) \cup Left) \in Nat
      BY <2>2, <2>4, FiniteParties, FS_CardinalityType, Zenon
    <3>2. Cardinality(Parties(c)') = 0
      BY <1>1, FS_EmptySet, Zenon
    <3> QED
      BY <1>1, <2>2, <2>4, <2>5, <3>1, <3>2, FiniteParties DEF Weight
  <2> QED
    BY <2>1, <2>6, FiniteParties DEF Moves, Slots!Next, Slots!Lose
<1> QED
  BY <1>2, <1>3, Zenon

\* The boot sweep moves every cell as the ledger does: Direction 2 hands a
\* row's slot to its refund, Direction 3 heals down to the live rows.
LEMMA BootSlots ==
  ASSUME Orderly, TypeInv, BootInv, ClaimInv, Charges, BootStep, NEW c \in Cells
  PROVE  Moves(c)
<1>1. phase # "up" /\ UNCHANGED <<pc, key, seen, bound>>
  BY Zenon DEF BootStep, ReconcileList, Direction1, Direction2, Direction2Refund,
     Direction3, callVars, store, rowVars
<1>2. \A p \in Calls : pc[p] = "idle"
  BY <1>1, Zenon DEF BootInv
<1>3. Parties(c) = {} /\ Parties(c)' = {}
  BY <1>1, <1>2, Zenon DEF Parties, Party, Pending, HoldsReceipt, OwnsRow, OwesRefund
<1>4. \A k \in Keys : RowHolds(k) <=> Live(k)
  BY <1>2, Zenon DEF RowHolds, OwnsRow
<1>5. \A k \in Keys : RowHolds(k)' <=> Live(k)'
  BY <1>1, <1>2, Zenon DEF RowHolds, OwnsRow
<1>6. ASSUME UNCHANGED rowState PROVE RowHolders(c)' = RowHolders(c)
  BY <1>4, <1>5, <1>6, Zenon DEF RowHolders, Live
<1>7. CASE ReconcileList \/ Direction1
  <2>1. UNCHANGED <<rowState, cell>> /\ BootHolds(c)' = 0 /\ BootHolds(c) = 0
    BY <1>7, Zenon DEF ReconcileList, Direction1, Abort, store, BootHolds
  <2> QED
    BY <1>3, <1>6, <2>1, NoneAdded
<1>8. CASE Direction2
  <2>1. phase = "dir2" /\ UNCHANGED cell /\ BootHolds(c) = 0
    BY <1>8, Zenon DEF Direction2, BootHolds
  <2>2. ASSUME NEW k \in sweep.todo, ReleaseRow(k), phase' = "dir2Refund",
               sweep' = [sweep EXCEPT !.todo = @ \ {k}, !.row = k]
        PROVE  Moves(c)
    <3>1. k \in Keys /\ Live(k) /\ sweep'.row = k
      BY <2>1, <2>2, Zenon DEF BootInv, TypeInv, TypeOK, StoreType
    <3>2. \A j \in Keys : Live(j)' <=> Live(j) /\ j # k
      BY <2>2, <3>1, Zenon DEF ReleaseRow, Live, TypeInv, TypeOK, StoreType
    <3>3. CASE Bill(k) = c
      <4>1. k \in RowHolders(c) /\ RowHolders(c)' \subseteq RowHolders(c) \ {k}
        BY <1>4, <1>5, <3>1, <3>2, <3>3, Zenon DEF RowHolders
      <4>2. BootHolds(c)' = 1
        BY <2>2, <3>1, <3>3, Zenon DEF BootHolds
      <4>3. Cardinality(RowHolders(c)') <= Cardinality(RowHolders(c)) - 1
        BY <4>1, FiniteParties, OneLess, Zenon
      <4>4. Weight(c)' <= Weight(c)
        BY <1>3, <2>1, <4>2, <4>3, FiniteParties, FS_CardinalityType, FS_EmptySet
           DEF Weight
      <4> QED
        BY <2>1, <4>4, FiniteParties DEF Moves, Slots!Next, Slots!Lose
    <3>4. CASE Bill(k) # c
      <4>1. RowHolders(c)' \subseteq RowHolders(c)
        BY <1>4, <1>5, <3>2, Zenon DEF RowHolders
      <4>2. BootHolds(c)' = 0
        BY <3>1, <3>4, Zenon DEF BootHolds
      <4> QED
        BY <1>3, <2>1, <4>1, <4>2, NoneAdded
    <3> QED
      BY <3>3, <3>4, Zenon
  <2>3. CASE UNCHANGED rowState /\ phase' # "dir2Refund"
    BY <1>3, <1>6, <2>1, <2>3, NoneAdded DEF BootHolds
  <2> QED
    BY <1>8, <2>2, <2>3, Zenon DEF Direction2, Abort
<1>9. CASE Direction2Refund
  <2>1. UNCHANGED rowState /\ phase = "dir2Refund" /\ BootHolds(c)' = 0
    BY <1>9, Zenon DEF Direction2Refund, Abort, rowVars, BootHolds
  <2>2. CASE cell'[c] = cell[c]
    BY <1>3, <1>6, <2>1, <2>2, NoneAdded, FiniteParties
  <2>3. CASE RefundOne(Bill(sweep.row)) /\ Bill(sweep.row) = c
    <3>1. BootHolds(c) = 1
      BY <2>1, <2>3, Zenon DEF BootHolds
    <3>2. Weight(c)' = Weight(c) - 1
      <4>1. RowHolders(c)' = RowHolders(c) /\ Parties(c)' = Parties(c)
        BY <1>3, <1>6, <2>1, Zenon
      <4>2. Cardinality(RowHolders(c)) \in Nat /\ Cardinality(Parties(c)) \in Nat
        BY FiniteParties, FS_CardinalityType, Zenon
      <4> QED
        BY <2>1, <3>1, <4>1, <4>2 DEF Weight
    <3>3. cell'[c] = IF cell[c] > 0 THEN cell[c] - 1 ELSE 0
      BY <2>3, Zenon DEF RefundOne, TypeInv, TypeOK, StoreType
    <3> QED
      BY <3>2, <3>3, FiniteParties DEF Moves, Slots!Next, Slots!Return, Charges,
         TypeInv, TypeOK, StoreType
  <2> QED
    BY <1>9, <2>2, <2>3, Zenon DEF Direction2Refund, RefundOne, TypeInv, TypeOK,
       StoreType
<1>10. CASE Direction3
  <2>1. UNCHANGED rowState /\ phase = "dir3" /\ BootHolds(c)' = 0 /\ BootHolds(c) = 0
    BY <1>10, Zenon DEF Direction3, Abort, rowVars, BootHolds
  <2>2. CASE cell'[c] = cell[c]
    BY <1>3, <1>6, <2>1, <2>2, NoneAdded, FiniteParties
  <2>3. ASSUME NEW o \in Owners, ReconcileConcurrent(o), CellOf[o] = c PROVE Moves(c)
    <3> DEFINE Counted == {k \in sweep.active \cap sweep.alive : OwnerOf[k] = o}
    <3>1. RowHolders(c) \subseteq Counted
      BY <1>4, <2>1, <2>3, StoreAssumption, Zenon DEF RowHolders, Bill, Orderly,
         ClaimInv, Swept
    <3>2. IsFiniteSet(Counted)
      BY StoreAssumption, FS_Subset, Zenon DEF TypeInv, TypeOK, StoreType
    <3>3. Cardinality(RowHolders(c)) <= LiveCount(o) /\ LiveCount(o) \in Nat
      BY <3>1, <3>2, FS_Subset, FS_CardinalityType, Zenon DEF LiveCount
    <3>4. Weight(c) = Cardinality(RowHolders(c)) /\ Weight(c)' = Weight(c)
      BY <1>3, <1>6, <2>1, FiniteParties, FS_EmptySet, FS_CardinalityType DEF
         Weight, TypeInv, TypeOK, StoreType
    <3>5. cell'[c] = IF cell[c] > LiveCount(o) THEN LiveCount(o) ELSE cell[c]
      BY <2>3, Zenon DEF ReconcileConcurrent, TypeInv, TypeOK, StoreType
    <3> QED
      BY <3>3, <3>4, <3>5, FiniteParties DEF Moves, Slots!Next, Slots!Heal, TypeInv,
         TypeOK, StoreType
  <2>4. CASE UNCHANGED cell \/ \E k \in sweep.todo : ReconcileConcurrent(OwnerOf[k])
    <3>1. ASSUME NEW k \in sweep.todo, ReconcileConcurrent(OwnerOf[k]), CellOf[OwnerOf[k]] # c
          PROVE  cell'[c] = cell[c]
      BY <3>1 DEF ReconcileConcurrent
    <3> QED
      BY <2>2, <2>3, <2>4, <3>1, StoreAssumption, Zenon DEF TypeInv, TypeOK
  <2> QED
    BY <1>10, <2>4, Zenon DEF Direction3, TypeInv, TypeOK, StoreType
<1> QED
  BY <1>7, <1>8, <1>9, <1>10, Zenon DEF BootStep

\* Every step moves every cell as its ledger may, or not at all.
LEMMA StepMoves ==
  ASSUME Orderly, TypeInv, BootInv, ClaimInv, Charges, [Next]_vars, NEW c \in Cells
  PROVE  Moves(c)
<1>1. CASE (\E e \in Keys \cup {All} : LiftDeny(e)) \/ UNCHANGED vars
           \/ \E k \in Keys : ContainerExits(k) \/ IdleTTLPasses(k)
  <2>1. UNCHANGED <<rowState, bound, cell, pc, key, seen, phase, sweep>>
    BY <1>1, Zenon DEF LiftDeny, vars, ContainerExits, IdleTTLPasses, store,
       rowVars, callVars, boot
  <2> QED
    BY <2>1, IdleSlots, Zenon
<1> QED
  BY <1>1, CreateSlots, TeardownSlots, ArrivalSlots, CrashSlots, BootSlots, Zenon
     DEF Next

\* A ledger step keeps the ledger's promise.
LEMMA MovesCover ==
  ASSUME NEW c \in Cells, Slots(c)!Covered, Moves(c)
  PROVE  Slots(c)!Covered'
  BY StoreAssumption DEF Moves, Slots!Covered, Slots!Next, Slots!Admit,
     Slots!Return, Slots!Lose, Slots!Heal, Slots!Wipe

\* What is charged on a cell.
SlotInv == \A c \in Cells : Slots(c)!Covered

\* A fresh store: no party, no charge, nothing in progress.
LEMMA InitSlots ==
  Init => BootInv /\ ClaimInv /\ \A c \in Cells : Weight(c) = 0 /\ cell[c] = 0
<1> SUFFICES ASSUME Init
             PROVE  BootInv /\ ClaimInv /\ \A c \in Cells : Weight(c) = 0 /\ cell[c] = 0
  BY Zenon
<1>1. BootInv
  BY Zenon DEF Init, BootInv
<1>2. ClaimInv
  BY Zenon DEF Init, StoreInit, ClaimInv, OneClaim, Claims, TakenLive, Takes, Stamped,
     Parked, Swept, TeardownSteps, OwesRefund, Releasing
<1>3. ASSUME NEW c \in Cells PROVE Weight(c) = 0 /\ cell[c] = 0
  <2>1. Parties(c) = {} /\ RowHolders(c) = {} /\ BootHolds(c) = 0 /\ cell[c] = 0
    BY Zenon DEF Init, StoreInit, Parties, Party, Pending, HoldsReceipt, OwnsRow,
       OwesRefund, RowHolders, RowHolds, Live, BootHolds
  <2> QED
    BY <2>1, FS_EmptySet DEF Weight
<1> QED
  BY <1>1, <1>2, <1>3, Zenon

\* Every step of the system keeps every cell covered.
LEMMA SlotInvStep ==
  ASSUME Orderly, TypeInv, BootInv, ClaimInv, SlotInv, [Next]_vars
  PROVE  SlotInv'
<1>1. Charges
  BY Zenon DEF SlotInv, Charges, Slots!Covered
<1> QED
  BY <1>1, StepMoves, MovesCover, Zenon DEF SlotInv

\* Held leaves out only the destroys that are about to refund.
LEMMA HeldCovered == SlotInv => SlotsCovered
<1> SUFFICES ASSUME SlotInv, NEW c \in Cells PROVE Held(c) <= cell[c] /\ cell[c] <= Limit
  BY Zenon DEF SlotsCovered
<1>1. CallHolders(c) \subseteq Parties(c)
  BY Zenon DEF CallHolders, Parties, Party
<1>2. IsFiniteSet(CallHolders(c)) /\ Cardinality(CallHolders(c)) <= Cardinality(Parties(c))
  BY <1>1, FiniteParties, FS_Subset, Zenon
<1>3. Held(c) <= Weight(c) /\ Held(c) \in Nat
  BY <1>2, FiniteParties, FS_CardinalityType DEF Held, Weight
<1> QED
  BY <1>3, FiniteParties, StoreAssumption DEF SlotInv, Slots!Covered

\* No interleaving of creates, destroys, idle reaps, kill switches, faults,
\* crashes and boot sweeps leaves a cell below the slots in use, or above the
\* limit: the concurrent-session cap holds (ChargeCreate, RefundConcurrent,
\* reclaimOrphanRow, ReconcileConcurrent).
THEOREM SlotsAlwaysCovered == ASSUME Orderly PROVE Spec => []SlotsCovered
<1>1. Init => SlotInv
  BY InitSlots, FiniteParties, StoreAssumption DEF SlotInv, Slots!Covered
<1>2. TypeInv /\ BootInv /\ ClaimInv /\ SlotInv /\ [Next]_vars => ClaimInv' /\ SlotInv'
  BY ClaimInvStep, SlotInvStep, Zenon
<1> QED
  BY InitTyped, TypeInvStep, InitSlots, BootInvStep, <1>1, <1>2, HeldCovered, PTL
     DEF Spec

\* What a tenant sees, under the same assumptions: no cell counts fewer
\* sessions than are running on it (quota.go: ConcurrentSessionsPerTenant).
THEOREM RunningAlwaysCounted == ASSUME Orderly PROVE Spec => []RunningCounted
<1>1. ASSUME SlotsCovered, TypeOK PROVE RunningCounted
  <2> SUFFICES ASSUME NEW c \in Cells PROVE Cardinality(Running(c)) <= cell[c]
    BY Zenon DEF RunningCounted
  <2>1. Running(c) \subseteq RowHolders(c)
    BY Zenon DEF Running, RowHolders, RowHolds, Live
  <2>2. IsFiniteSet(CallHolders(c))
    <3>1. CallHolders(c) \subseteq Parties(c)
      BY Zenon DEF CallHolders, Parties, Party
    <3> QED
      BY <3>1, FiniteParties, FS_Subset, Zenon
  <2>3. /\ Cardinality(Running(c)) <= Cardinality(RowHolders(c)) /\ Cardinality(Running(c)) \in Nat
        /\ Cardinality(RowHolders(c)) \in Nat /\ Cardinality(CallHolders(c)) \in Nat
    BY <2>1, <2>2, FiniteParties, FS_Subset, FS_CardinalityType, Zenon
  <2>4. cell[c] \in Nat
    BY <1>1, Zenon DEF TypeOK, StoreType
  <2> QED
    BY <1>1, <2>3, <2>4, FiniteParties DEF SlotsCovered, Held
<1> QED
  BY <1>1, SlotsAlwaysCovered, LifecycleTyped, PTL
=============================================================================
