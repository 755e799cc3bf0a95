----------------------------- MODULE QuotaGate -----------------------------
(***************************************************************************)
(* The create-time quota gate (internal/quota) over the counters of either *)
(* store: two charges in order, the receipt that gives them back, the slot *)
(* a destroy returns and the operator's override.  Lifecycle follows the   *)
(* concurrent-session level alone, through every handler; here are both    *)
(* dimensions, the minute windows and a clock that may be set back.        *)
(***************************************************************************)
EXTENDS Integers, FiniteSets

CONSTANTS Creates,     \* create requests
          Owners,      \* identities: <<tenant, caller>>
          Policies,    \* deployments: store, limits, who creates, faults
          LastMinute,  \* bound: the wall clock stays in 0 .. LastMinute
          MaxDrift     \* bound: overrides of one cell

QuotaFaults == {"charge", "refund", "unanswered", "audit", "stage"}

PolicySet == [backend : {"memory", "postgres"}, rate : Nat, level : Nat,
              owner : [Creates -> Owners], faults : SUBSET QuotaFaults,
              setback : BOOLEAN, overrides : SUBSET {"rate", "level"}]

ASSUME QuotaAssumption == /\ IsFiniteSet(Creates)
                          /\ LastMinute \in Nat /\ MaxDrift \in Nat
                          /\ Policies \subseteq PolicySet

VARIABLES policy,    \* the deployment
          minute,    \* the wall clock, truncated to the minute
          counters,  \* the counter cells of the store
          stage,     \* where a create is
          label,     \* the window a create read from the clock
          paid,      \* the dimensions a create has been charged and not refunded
          over,      \* history: charges of a cell nobody will refund
          under      \* history: charges of a cell an override took away

quotaVars == <<policy, minute, counters, stage, label, paid, over, under>>

Minutes == 0 .. LastMinute
Dims == {"rate", "level"}

\* Who can be billed: an identity, a caller or a tenant.
Billed == Owners \cup {<<"", o[2]>> : o \in Owners} \cup {<<o[1], "">> : o \in Owners}

\* A cell: its dimension, who is billed, and the window of a windowed dimension.
Cells == {<<"rate", b[1], b[2], w>> : b \in Billed, w \in Minutes}
         \cup {<<"level", b[1], b[2], 0>> : b \in Billed}

Stages == {"new", "rate", "level", "refundRate", "charged", "unwind", "live", "ended"}

QuotaType == /\ policy \in Policies /\ minute \in Minutes
             /\ counters \in [Cells -> Nat]
             /\ stage \in [Creates -> Stages]
             /\ label \in [Creates -> Minutes]
             /\ paid \in [Creates -> SUBSET Dims]
             /\ over \in [Cells -> Nat] /\ under \in [Cells -> Nat]

QuotaInit == /\ policy \in Policies
             /\ minute = 0
             /\ counters = [x \in Cells |-> 0]
             /\ stage = [c \in Creates |-> "new"]
             /\ label = [c \in Creates |-> 0]
             /\ paid = [c \in Creates |-> {}]
             /\ over = [x \in Cells |-> 0] /\ under = [x \in Cells |-> 0]

-----------------------------------------------------------------------------
(* The store. *)

\* Mutant of QuotaScopeID: every dimension bills the whole identity.
ScopeOfIdentity(dim, owner) == owner

\* quotaScopeID: the create rate bills the caller, the others bill the tenant.
QuotaScopeID(dim, owner) == IF dim = "rate" THEN <<"", owner[2]>> ELSE <<owner[1], "">>

\* The key of a counter: the scope id in Postgres, the whole QuotaKey in memory.
\* A level dimension has no window.
Cell(dim, owner, win) ==
    LET billed == IF policy.backend = "memory" THEN owner ELSE QuotaScopeID(dim, owner)
    IN <<dim, billed[1], billed[2], IF dim = "rate" THEN win ELSE 0>>

\* The cell a create is charged on; the window is the one it read.
CellFor(c, dim) == Cell(dim, policy.owner[c], label[c])

LimitOf(dim) == IF dim = "rate" THEN policy.rate ELSE policy.level

\* Charge refuses a step that would pass the limit, into a fresh cell as well;
\* a negative delta is never refused.
Chargeable(x, delta, lim) == delta < 0 \/ counters[x] + delta <= lim

\* Charge: a release saturates at zero.
Charged(x, delta) == [counters EXCEPT ![x] = IF @ + delta < 0 THEN 0 ELSE @ + delta]

-----------------------------------------------------------------------------
(* ChargeCreate. *)

Moves(c, to) == stage' = [stage EXCEPT ![c] = to]

\* minuteWindow: the clock is read before the charge.
MinuteWindow(c) ==
    /\ stage[c] = "new"
    /\ label' = [label EXCEPT ![c] = minute]
    /\ Moves(c, "rate")
    /\ UNCHANGED <<policy, minute, counters, paid, over, under>>

\* One charge of a create, refused or unavailable.  A commit whose answer is lost
\* has charged the cell and reports a failure.
ChargeDim(c, dim, done, refused) ==
    LET x == CellFor(c, dim) IN
    \/ /\ Chargeable(x, 1, LimitOf(dim))
       /\ counters' = Charged(x, 1)
       /\ paid' = [paid EXCEPT ![c] = @ \cup {dim}]
       /\ Moves(c, done)
       /\ UNCHANGED over
    \/ /\ ~Chargeable(x, 1, LimitOf(dim)) \/ "charge" \in policy.faults
       /\ Moves(c, refused)
       /\ UNCHANGED <<counters, paid, over>>
    \/ /\ "unanswered" \in policy.faults /\ Chargeable(x, 1, LimitOf(dim))
       /\ counters' = Charged(x, 1)
       /\ over' = [over EXCEPT ![x] = @ + 1]
       /\ Moves(c, refused)
       /\ UNCHANGED paid

\* ChargeCreate: the create rate first, refused with nothing to refund ...
ChargeRate(c) == /\ stage[c] = "rate"
                 /\ ChargeDim(c, "rate", "level", "ended")
                 /\ UNCHANGED <<policy, minute, label, under>>

\* ... then the level; a failure refunds the rate before it returns.
ChargeLevel(c) == /\ stage[c] = "level"
                  /\ ChargeDim(c, "level", "charged", "refundRate")
                  /\ UNCHANGED <<policy, minute, label, under>>

\* Mutant of Refunded: the window is derived again at the refund.
RefundedNow(c, dim) == Cell(dim, policy.owner[c], minute)

\* A refund addresses the key that was charged.
Refunded(c, dim) == CellFor(c, dim)

\* A negative charge, detached from the request; one that fails is not retried.
Refund(c, dim, to) ==
    LET x == Refunded(c, dim) IN
    /\ \/ counters' = Charged(x, -1) /\ UNCHANGED over
       \/ /\ "refund" \in policy.faults
          /\ over' = [over EXCEPT ![x] = @ + 1]
          /\ UNCHANGED counters
    /\ paid' = [paid EXCEPT ![c] = @ \ {dim}]
    /\ Moves(c, to)
    /\ UNCHANGED <<policy, minute, label, under>>

\* refundOne.
RefundOne(c) == stage[c] = "refundRate" /\ Refund(c, "rate", "ended")

\* The create goes on and becomes a session, or a later stage fails.
CreateEnds(c) ==
    /\ stage[c] = "charged"
    /\ \/ Moves(c, "live")
       \/ "stage" \in policy.faults /\ Moves(c, "unwind")
    /\ UNCHANGED <<policy, minute, counters, label, paid, over, under>>

\* Receipt.Apply, the compensator of stageQuotaCharge: in reverse order, going on
\* behind a refund that failed.
Apply(c) ==
    /\ stage[c] = "unwind"
    /\ IF "level" \in paid[c] THEN Refund(c, "level", "unwind")
                             ELSE Refund(c, "rate", "ended")

\* RefundConcurrent: the destroy of a session returns its slot; the create rate
\* stays spent.
RefundConcurrent(c) == stage[c] = "live" /\ Refund(c, "level", "ended")

\* OverrideQuota: audit first, then the operator's delta within the operator's
\* limit.
OverrideQuota(x, delta, lim) ==
    /\ x[1] \in policy.overrides
    /\ \/ /\ Chargeable(x, delta, lim) /\ \A y \in Cells : under[y] + over[y] < MaxDrift
          /\ counters' = Charged(x, delta)
          /\ over' = [over EXCEPT ![x] = IF delta > 0 THEN @ + delta ELSE @]
          /\ under' = [under EXCEPT ![x] = IF delta < 0 THEN @ - delta ELSE @]
       \/ /\ {"audit", "charge"} \cap policy.faults # {} \/ ~Chargeable(x, delta, lim)
          /\ UNCHANGED <<counters, over, under>>
    /\ UNCHANGED <<policy, minute, stage, label, paid>>

\* The wall clock goes on, or is set back.
ClockMoves == /\ minute' \in {minute + 1} \cup (IF policy.setback THEN {minute - 1} ELSE {})
              /\ minute' \in Minutes
              /\ UNCHANGED <<policy, counters, stage, label, paid, over, under>>

QuotaStep(c) == \/ MinuteWindow(c) \/ ChargeRate(c) \/ ChargeLevel(c) \/ RefundOne(c)
                \/ CreateEnds(c) \/ Apply(c) \/ RefundConcurrent(c)

\* The cells an operator can name: those of the identities.
Overridable == {Cell(d, o, w) : d \in Dims, o \in Owners, w \in Minutes}

QuotaNext == \/ \E c \in Creates : QuotaStep(c)
             \/ \E x \in Overridable, delta \in {-1, 1} : OverrideQuota(x, delta, LimitOf(x[1]))
             \/ ClockMoves

QuotaSpec == QuotaInit /\ [][QuotaNext]_quotaVars

-----------------------------------------------------------------------------
(* Properties. *)

Payers(x) == {c \in Creates : \E dim \in paid[c] : CellFor(c, dim) = x}

\* A receipt gives back exactly what was charged (ChargeCreate, Receipt.Apply,
\* refundOne): whatever creates overlap, fail, cross a minute or meet a clock set
\* back, a cell counts the charges still outstanding; only lost refunds, charges
\* whose answer was lost and operators' overrides make it differ, by no more than
\* their sum.
DriftAccounted ==
    \A x \in Cells : /\ Cardinality(Payers(x)) - under[x] <= counters[x]
                     /\ counters[x] <= Cardinality(Payers(x)) + over[x]

\* Whom the limits are stated for: the caller's create rate and the tenant's
\* sessions; the in-memory store keeps both per identity.
SamePayer(dim, a, b) == IF policy.backend = "memory" THEN a = b
                        ELSE IF dim = "rate" THEN a[2] = b[2] ELSE a[1] = b[1]

Peers(c, dim) == {e \in Creates : /\ dim \in paid[e]
                                  /\ SamePayer(dim, policy.owner[c], policy.owner[e])
                                  /\ dim = "rate" => label[e] = label[c]}

\* The caps hold (Limits, Charge): no more creates of one payer are charged at a
\* time, or in one window, than the limit allows, whatever was refunded, lost or
\* set back meanwhile; an operator's override is the only way past a limit.
CapsHold ==
    policy.overrides = {} => \A c \in Creates, dim \in Dims :
        Cardinality(Peers(c, dim)) <= LimitOf(dim)
=============================================================================
