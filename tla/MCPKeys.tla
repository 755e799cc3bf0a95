------------------------------- MODULE MCPKeys -------------------------------
(***************************************************************************)
(* The MCP API keys (internal/mcpkey, internal/mcpkeyset and the daemon's  *)
(* wiring): create and revoke, audit first; the record store on either     *)
(* shelf; the hashed-entries file that re-seeds it and the boot-set that   *)
(* is published to the gateway.  Operations of several operators run       *)
(* concurrently: the engine has no lock of its own.                        *)
(***************************************************************************)
EXTENDS Integers, FiniteSets

CONSTANTS KeyIds,    \* key handles, one drawn by each create
          Verbs,     \* operations: a create or a revoke of a key
          Shelves,   \* deployments: backend, files, expiry and faults
          LastTick,  \* bound: instants of the clock
          Unset      \* a file that was never written

KeyStates == {"absent", "active", "revoked"}
KeyMap == [KeyIds -> KeyStates]

ShelfType == [backend : {"memory", "postgres"}, file : BOOLEAN, serial : BOOLEAN,
              expiring : SUBSET KeyIds, expiry : Nat, restarts : 0 .. 1,
              verbs : [Verbs -> {"create", "revoke"} \X KeyIds],
              faults : SUBSET {"mint", "audit", "store", "write"}]

\* No two creates draw the same handle.
ASSUME ShelvesAssumption ==
    /\ LastTick \in Nat
    /\ \A file \in KeyMap \cup SUBSET KeyIds : file # Unset
    /\ \A s \in Shelves :
         /\ s \in ShelfType
         /\ \A u, v \in Verbs : /\ s.verbs[u] = s.verbs[v]
                               /\ s.verbs[v][1] = "create"
                               => u = v

VARIABLES shelf,     \* the deployment
          tick,      \* the clock
          keys,      \* RecordStore: status of a key's record
          entries,   \* the entries file, or Unset
          bootset,   \* the published keys, or Unset
          journal,   \* <<action, key>> records in the audit log
          at,        \* where an operation is
          snap,      \* what an operation enumerated last
          result,    \* how it was answered
          alive,     \* the daemon is up
          restarts   \* restarts left

mcpVars == <<shelf, tick, keys, entries, bootset, journal, at, snap, result, alive, restarts>>

Verb(v) == shelf.verbs[v][1]
KeyOf(v) == shelf.verbs[v][2]

MCPType == /\ shelf \in Shelves /\ tick \in 0 .. LastTick
           /\ keys \in KeyMap
           /\ entries = Unset \/ entries \in KeyMap
           /\ bootset = Unset \/ bootset \subseteq KeyIds
           /\ journal \subseteq ({"create", "revoke"} \X KeyIds)
           /\ at \in [Verbs -> {"new", "audit", "store", "list", "entries", "active",
                                "keyset", "answer", "done"}]
           /\ result \in [Verbs -> {"none", "ok", "denied", "refused", "invalid", "lost"}]
           /\ alive \in BOOLEAN /\ restarts \in 0 .. 1

NoKeys == [k \in KeyIds |-> "absent"]

MCPInit == /\ shelf \in Shelves
           /\ tick = 0
           /\ keys = NoKeys /\ entries = Unset /\ bootset = Unset
           /\ journal = {}
           /\ at = [v \in Verbs |-> "new"]
           /\ snap = [v \in Verbs |-> Unset]
           /\ result = [v \in Verbs |-> "none"]
           /\ alive = TRUE
           /\ restarts = shelf.restarts

-----------------------------------------------------------------------------
(* Records and store. *)

\* Record.IsExpired: at or after the expiry instant; most keys have none.
IsExpired(k) == k \in shelf.expiring /\ tick >= shelf.expiry

\* Record.IsActive.
IsActive(k, status) == status = "active" /\ ~IsExpired(k)

\* The status column of the postgres shelf and the record read back from it.
StatusFromRecord(status) == IF status = "revoked" THEN 1 ELSE 0
BuildRecord(code) == IF code = 1 THEN "revoked" ELSE "active"

\* ActiveRecords in memory, and the WHERE clause of the postgres shelf.
ActiveInMem == {k \in KeyIds : IsActive(k, keys[k])}
ActiveRows == {k \in KeyIds : /\ keys[k] # "absent" /\ StatusFromRecord(keys[k]) = 0
                              /\ k \notin shelf.expiring \/ shelf.expiry > tick}
ActiveRecords == IF shelf.backend = "memory" THEN ActiveInMem ELSE ActiveRows

\* RecordStore.Put in memory, and the upsert of the postgres shelf.
PutInMem(m, k, status) == [m EXCEPT ![k] = status]
PutRow(m, k, status) == [m EXCEPT ![k] = BuildRecord(StatusFromRecord(status))]
Put(m, k, status) == IF shelf.backend = "memory" THEN PutInMem(m, k, status) ELSE PutRow(m, k, status)

\* Mutant of NewRecord: the status is left at its zero value.
NewRecordBlank == ""

\* NewRecord: a fresh salt, hash and id; the record starts active.
NewRecord == "active"

\* RecordStore.Revoke in memory, and the UPDATE of the postgres shelf: a no-op
\* on an absent or already revoked record.
RevokeInMem(m, k) == IF m[k] = "absent" THEN m ELSE [m EXCEPT ![k] = "revoked"]
RevokeRow(m, k) == [x \in KeyIds |-> IF x = k /\ m[x] # "absent" THEN BuildRecord(1) ELSE m[x]]
StoreRevoke(m, k) == IF shelf.backend = "memory" THEN RevokeInMem(m, k) ELSE RevokeRow(m, k)

\* writeAtomicWithPerm: temp file, sync, rename; a fault leaves the old file.
WriteAtomic(old, new, ok) == IF ok THEN new ELSE old

-----------------------------------------------------------------------------
(* Steps of an operation. *)

Fault(f) == f \in shelf.faults
Step(v, to) == at' = [at EXCEPT ![v] = to]
Ends(v, r) == Step(v, "done") /\ result' = [result EXCEPT ![v] = r]

\* Mint, encodeBase62: a key of the full width, or none after a short read.
Mint == IF Fault("mint") THEN BOOLEAN ELSE {TRUE}

rest == <<shelf, tick, alive, restarts>>

\* Create and Revoke up to the audit: scope and arguments are checked, the key
\* is minted (Mint, NewRecord) and may fail to be.  A revoke names an id that
\* some create drew, first visible in the log.
Begin(v) ==
    /\ alive /\ at[v] = "new"
    /\ shelf.serial => \A u \in Verbs : at[u] \in {"new", "done"}
    /\ Verb(v) = "revoke" => <<"create", KeyOf(v)>> \in journal
    /\ \E minted \in Mint :
         IF Verb(v) = "revoke" \/ minted THEN Step(v, "audit") /\ UNCHANGED result
                                        ELSE Ends(v, "invalid")
    /\ UNCHANGED <<rest, keys, entries, bootset, journal, snap>>

\* The audit record is durable before the mutation, or the action is denied.
AuditFirst(v) ==
    /\ alive /\ at[v] = "audit"
    /\ \/ journal' = journal \cup {<<Verb(v), KeyOf(v)>>} /\ Step(v, "store") /\ UNCHANGED result
       \/ Fault("audit") /\ Ends(v, "denied") /\ UNCHANGED journal
    /\ UNCHANGED <<rest, keys, entries, bootset, snap>>

\* store.Put or store.Revoke.
Mutate(v) ==
    /\ alive /\ at[v] = "store"
    /\ \/ /\ keys' = IF Verb(v) = "create" THEN Put(keys, KeyOf(v), NewRecord)
                                           ELSE StoreRevoke(keys, KeyOf(v))
          /\ Step(v, IF shelf.file THEN "list" ELSE "active")
          /\ UNCHANGED result
       \/ Fault("store") /\ Ends(v, "refused") /\ UNCHANGED keys
    /\ UNCHANGED <<rest, entries, bootset, journal, snap>>

\* renderMCPKeyArtifacts: List for the entries file.
List(v) ==
    /\ alive /\ at[v] = "list"
    /\ \/ snap' = [snap EXCEPT ![v] = keys] /\ Step(v, "entries") /\ UNCHANGED result
       \/ Fault("store") /\ Ends(v, "refused") /\ UNCHANGED snap
    /\ UNCHANGED <<rest, keys, entries, bootset, journal>>

\* WriteEntriesFile, by temp file and rename (writeAtomicWithPerm).
WriteEntries(v) ==
    /\ alive /\ at[v] = "entries"
    /\ \E ok \in BOOLEAN : /\ ~ok => Fault("write")
                           /\ entries' = WriteAtomic(entries, snap[v], ok)
                           /\ IF ok THEN Step(v, "active") /\ UNCHANGED result ELSE Ends(v, "refused")
    /\ UNCHANGED <<rest, keys, bootset, journal, snap>>

\* renderMCPKeyArtifacts: ActiveRecords for the boot-set; a store that cannot
\* enumerate publishes nothing.
ListActive(v) ==
    /\ alive /\ at[v] = "active"
    /\ \/ snap' = [snap EXCEPT ![v] = ActiveRecords] /\ Step(v, "keyset") /\ UNCHANGED result
       \/ Fault("store") /\ Ends(v, "refused") /\ UNCHANGED snap
    /\ UNCHANGED <<rest, keys, entries, bootset, journal>>

\* WriteKeySet: the active records; an empty set is published as deny-all.
WriteKeySet(v) ==
    /\ alive /\ at[v] = "keyset"
    /\ \E ok \in BOOLEAN : /\ ~ok => Fault("write")
                           /\ bootset' = WriteAtomic(bootset, snap[v], ok)
                           /\ IF ok THEN Step(v, "answer") /\ UNCHANGED result ELSE Ends(v, "refused")
    /\ UNCHANGED <<rest, keys, entries, journal, snap>>

\* The secret is shown once, or the revoke is acknowledged.
Answer(v) ==
    /\ alive /\ at[v] = "answer"
    /\ Ends(v, "ok")
    /\ UNCHANGED <<rest, keys, entries, bootset, journal, snap>>

\* The daemon dies: the in-memory store is lost, operations in flight with it.
Die ==
    /\ alive /\ restarts > 0
    /\ alive' = FALSE /\ restarts' = restarts - 1
    /\ keys' = IF shelf.backend = "memory" THEN NoKeys ELSE keys
    /\ at' = [v \in Verbs |-> IF at[v] = "new" THEN "new" ELSE "done"]
    /\ result' = [v \in Verbs |-> IF at[v] \in {"new", "done"} THEN result[v] ELSE "lost"]
    /\ UNCHANGED <<shelf, tick, entries, bootset, journal, snap>>

\* Mutant of LoadEntriesFile: every entry comes back as a fresh record.
LoadFresh == IF shelf.file /\ entries # Unset
             THEN [k \in KeyIds |-> IF entries[k] = "absent" THEN "absent" ELSE NewRecord]
             ELSE NoKeys

\* LoadEntriesFile: every record of a file that is there, revoked ones included.
LoadEntriesFile == IF shelf.file /\ entries # Unset THEN entries ELSE NoKeys

\* buildMCPKeyEngine: the store is opened and every loaded entry is Put over its
\* record; a file that cannot be read or an unreachable store aborts the boot.
BuildMCPKeyEngine ==
    /\ ~alive
    /\ \/ /\ alive' = TRUE
          /\ LET loaded == LoadEntriesFile IN
             keys' = [k \in KeyIds |-> IF loaded[k] = "absent" THEN keys[k]
                                      ELSE Put(keys, k, loaded[k])[k]]
       \/ Fault("store") /\ UNCHANGED <<alive, keys>>
    /\ UNCHANGED <<shelf, tick, entries, bootset, journal, at, snap, result, restarts>>

Passes == /\ tick < LastTick /\ shelf.expiring # {}
          /\ tick' = tick + 1
          /\ UNCHANGED <<shelf, keys, entries, bootset, journal, at, snap, result, alive, restarts>>

MCPNext == \/ \E v \in Verbs : \/ Begin(v) \/ AuditFirst(v) \/ Mutate(v) \/ List(v)
                               \/ WriteEntries(v) \/ ListActive(v) \/ WriteKeySet(v) \/ Answer(v)
           \/ Die \/ BuildMCPKeyEngine \/ Passes

-----------------------------------------------------------------------------
(* Properties. *)

Answered(verb, k) == \E v \in Verbs : Verb(v) = verb /\ KeyOf(v) = k /\ result[v] = "ok"
Started(verb, k) == \E v \in Verbs : Verb(v) = verb /\ KeyOf(v) = k /\ at[v] # "new"

\* A key that a revoke answered ok is out of the published boot-set and stays
\* revoked in the store, over restarts as well.
RevokeSticks ==
    \A k \in KeyIds : Answered("revoke", k) =>
        /\ bootset # Unset => k \notin bootset
        /\ keys[k] # "active"

\* The same while operators run one operation at a time.
SerialRevokeSticks == shelf.serial => RevokeSticks

\* A key that a create answered ok, that nobody revokes and that has not expired
\* stays published and, where the shelf keeps it, survives a restart: a failed
\* enumeration or write of a later operation never empties the boot-set.
SerialCreateKept ==
    shelf.serial =>
      \A k \in KeyIds : Answered("create", k) /\ ~Started("revoke", k) /\ ~IsExpired(k) =>
        /\ bootset # Unset
        /\ (shelf.file \/ shelf.backend = "postgres") => k \in bootset
        /\ alive /\ (shelf.file \/ shelf.backend = "postgres") => keys[k] = "active"

\* No key exists and none is revoked without its record in the audit log, on
\* whatever shelf and after whatever failure or restart.
EffectAudited ==
    \A k \in KeyIds : /\ keys[k] # "absent" => <<"create", k>> \in journal
                      /\ keys[k] = "revoked" => <<"revoke", k>> \in journal

\* What an operation answered holds (Engine.Create, Engine.Revoke,
\* renderMCPKeyArtifacts, BuildMCPKeyEngine) while operators act in turn: a revoked
\* key stays out and a created one stays in, over failures and restarts, and
\* every effect on the store has its audit record.
SerialAnswersHold == SerialRevokeSticks /\ SerialCreateKept /\ EffectAudited
=============================================================================
