---------------------------- MODULE SessionStore ----------------------------
(***************************************************************************)
(* The session store (internal/state): the reservation rows, the deny      *)
(* posture and the concurrent-session counter cells, with the operations   *)
(* both implementations give (inmem.go, postgres/postgres.go).  Each       *)
(* operation is an action fragment: it constrains the next value of the    *)
(* variables it writes and nothing else, and the modules that call it say  *)
(* what stays unchanged.  A row operation is one atomic step under the     *)
(* key's lock, except Reserve, which reads the deny posture and inserts    *)
(* the row in two steps while holding the lock; SetDeny and the            *)
(* enumerations never take it.                                             *)
(*                                                                         *)
(* A key is derived from its owner (registry.DeriveKey), so every key has  *)
(* one owner and the owner checks of the code never separate two callers   *)
(* of one key.                                                             *)
(***************************************************************************)
EXTENDS Integers, FiniteSets

CONSTANTS Keys,     \* reservation keys
          Owners,   \* host-attested identities (tenant and caller)
          Cells,    \* DimConcurrentSessions cells
          OwnerOf,  \* the owner a key was derived from
          CellOf,   \* the cell that bills an owner
          Limit,    \* Limits.ConcurrentSessionsPerTenant
          Durable,  \* TRUE for the Postgres store, FALSE for the in-memory one
          All       \* the key of the deployment-wide deny entry

ASSUME StoreAssumption == /\ IsFiniteSet(Keys)
                          /\ OwnerOf \in [Keys -> Owners]
                          /\ CellOf \in [Owners -> Cells]
                          /\ Limit \in Nat
                          /\ Durable \in BOOLEAN
                          /\ All \notin Keys

VARIABLES rowState,  \* SessionRow.State, "NONE" for a key without a row
          bound,     \* SessionRow.ContainerName is set
          stamp,     \* the last-activity stamp: none, fresh or past the idle TTL
          deny,      \* the deny entries in force
          cell,      \* the concurrent-session counters
          stripe     \* keys whose lock a Reserve in progress holds

RowStates == {"NONE", "RESERVED", "ACTIVE", "RELEASED"}
Stamps == {"none", "fresh", "idle"}

StoreType == /\ rowState \in [Keys -> RowStates]
             /\ bound \in [Keys -> BOOLEAN]
             /\ stamp \in [Keys -> Stamps]
             /\ deny \in SUBSET (Keys \cup {All})
             /\ cell \in [Cells -> Nat]
             /\ stripe \in SUBSET Keys

StoreInit == /\ rowState = [k \in Keys |-> "NONE"]
             /\ bound = [k \in Keys |-> FALSE]
             /\ stamp = [k \in Keys |-> "none"]
             /\ deny = {}
             /\ cell = [c \in Cells |-> 0]
             /\ stripe = {}

Bill(k) == CellOf[OwnerOf[k]]

\* The states the store calls live: RESERVED and ACTIVE.
Live(k) == rowState[k] \in {"RESERVED", "ACTIVE"}

\* Mutant of LiveSessions: a row that is only reserved is missed.
ActiveSessions == {k \in Keys : rowState[k] = "ACTIVE"}

\* What LiveSessions returns: a snapshot taken without any key lock.
LiveSessions == {k \in Keys : Live(k)}

\* Mutant of IdleSessions: an absent stamp is taken for an old one.
UnstampedSessions == {k \in Keys : rowState[k] = "ACTIVE" /\ stamp[k] = "none"}

\* The rows ReapIdle selects from LiveSessionsEnriched.
IdleSessions == {k \in Keys : rowState[k] = "ACTIVE" /\ stamp[k] = "idle"}

Denied(k) == All \in deny \/ k \in deny

\* Reserve, first half: take the key lock; the deny posture is read under it.
ReserveCheck(k) == /\ k \notin stripe
                   /\ ~Denied(k)
                   /\ stripe' = stripe \cup {k}

\* Reserve, second half: write the RESERVED row over nothing or a tombstone.
\* The in-memory store clears the enrichment of the key, Postgres keeps its
\* activity index as it is.
ReserveInsert(k) ==
    /\ ~Live(k)
    /\ rowState' = [rowState EXCEPT ![k] = "RESERVED"]
    /\ bound' = [bound EXCEPT ![k] = FALSE]
    /\ stamp' = IF Durable THEN stamp ELSE [stamp EXCEPT ![k] = "none"]

\* Mutant of ReserveUnlock: the return on a live row skips the unlock.
ReserveUnlockOnInsert(k) == stripe' = IF Live(k) THEN stripe ELSE stripe \ {k}

\* Reserve returns: the deferred unlock, or the end of the transaction.
ReserveUnlock(k) == stripe' = stripe \ {k}

CommitRow(k) == /\ k \notin stripe
                /\ rowState[k] = "RESERVED"
                /\ rowState' = [rowState EXCEPT ![k] = "ACTIVE"]

\* Mutant of BindContainerName: the tombstone is bound like a live row.
BindTombstone(k) == /\ k \notin stripe
                    /\ ~bound[k]
                    /\ bound' = [bound EXCEPT ![k] = TRUE]

\* Write-once; any live row is accepted, ACTIVE is not required.
BindContainerName(k) == /\ k \notin stripe
                        /\ Live(k)
                        /\ ~bound[k]
                        /\ bound' = [bound EXCEPT ![k] = TRUE]

\* Idempotent on a tombstone.  Postgres drops the activity stamp either way.
ReleaseRow(k) == /\ k \notin stripe
                 /\ rowState' = [rowState EXCEPT ![k] = "RELEASED"]
                 /\ stamp' = IF Durable THEN [stamp EXCEPT ![k] = "none"]
                                        ELSE stamp

\* Postgres keeps the stamps in an index of its own, outside the key lock.
RecordActivation(k) == /\ Durable \/ k \notin stripe
                       /\ stamp' = [stamp EXCEPT ![k] = "fresh"]

TouchActivity(k) == /\ Durable \/ k \notin stripe
                    /\ stamp' = [stamp EXCEPT ![k] = "fresh"]

SetDeny(e) == deny' = deny \cup {e}

ClearDeny(e) == deny' = deny \ {e}

\* A positive delta: refused when it would pass the limit.
ChargeOne(c) == /\ cell[c] + 1 <= Limit
                /\ cell' = [cell EXCEPT ![c] = @ + 1]

\* Mutant of RefundOne: two slots are returned at once.
RefundTwo(c) == cell' = [cell EXCEPT ![c] = @ - 2]

\* A negative delta: never refused, saturating at zero.
RefundOne(c) == cell' = [cell EXCEPT ![c] = IF @ > 0 THEN @ - 1 ELSE 0]

\* A control restart on Postgres: every ACTIVE row gets a fresh stamp.
ReseedActivity ==
    stamp' = [k \in Keys |-> IF rowState[k] = "ACTIVE" THEN "fresh" ELSE "none"]
=============================================================================
