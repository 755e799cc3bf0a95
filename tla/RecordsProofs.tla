--------------------------- MODULE RecordsProofs ----------------------------
(***************************************************************************)
(* What holds of the daemon's records for every number of events, keys,    *)
(* operations and tokens, every fault and every restart: the audit trail,  *)
(* the caller keys and the storage credential.                             *)
(***************************************************************************)
EXTENDS AuditTrail, MCPKeys, Signing, TLAPS

-----------------------------------------------------------------------------
(* The audit trail. *)

\* What somebody outside relies on: the acknowledged events, the committed
\* ones, and the one in the making.
Vouched == ({r.hash : r \in acked} \cup {pending.hash} \cup Hashes(central)) \ {Genesis}

\* What can be read back.
Known == Hashes(hot) \cup Archived

\* Between the copy and the truncation the segment is the file.
Sealed == /\ hot # <<>> /\ Readable(hot)
          /\ SegmentName \in DOMAIN cold /\ cold[SegmentName] = hot

\* AckedKept and CentralMirrored, and what makes them inductive.
AuditInv == /\ TypeOK
            /\ open => hot # <<>>
            /\ phase = "sealed" => Sealed
            /\ pending # NoRecord => phase = "up" /\ pending.hash # Genesis
            /\ \A r \in acked : r.hash # Genesis
            /\ Readable(hot) => Vouched \subseteq Known

\* Appending a line: a file that stays readable was readable, keeps its events
\* and has the new one (FileSink.Write).
LEMMA AppendKeeps ==
  ASSUME hot \in Seq(Records), open \in BOOLEAN, open => hot # <<>>,
         NEW line \in Records, AppendLine(line)
  PROVE  /\ hot' \in Seq(Records) /\ hot' # <<>>
         /\ Readable(hot') => /\ Readable(hot)
                              /\ Hashes(hot) \subseteq Hashes(hot')
                              /\ line.hash # Genesis => line.hash \in Hashes(hot')
<1>0. Torn \in Records
  BY Zenon DEF Torn, Records, Genesis
<1>1. CASE open
  <2>1. Len(hot) \in DOMAIN hot /\ hot' = [hot EXCEPT ![Len(hot)] = Torn]
    BY <1>1 DEF AppendLine
  <2>2. hot' \in Seq(Records) /\ hot' # <<>>
    BY <1>0, <2>1
  <2>3. ~Readable(hot')
    BY <2>1, Zenon DEF Readable
  <2> QED
    BY <2>2, <2>3, Zenon
<1>2. CASE ~open
  <2>1. hot' = Append(hot, line)
    BY <1>2, Zenon DEF AppendLine
  <2>2. /\ hot' \in Seq(Records) /\ hot' # <<>>
        /\ DOMAIN hot \subseteq DOMAIN hot'
        /\ \A i \in DOMAIN hot : hot'[i] = hot[i]
        /\ Len(hot) + 1 \in DOMAIN hot' /\ hot'[Len(hot) + 1] = line
    BY <2>1
  <2>3. Readable(hot') => Readable(hot)
    BY <2>2, Zenon DEF Readable
  <2>4. Hashes(hot) \subseteq Hashes(hot')
    BY <2>2, Zenon DEF Hashes
  <2>5. line.hash # Genesis => line.hash \in Hashes(hot')
    BY <2>2, Zenon DEF Hashes
  <2> QED
    BY <2>2, <2>3, <2>4, <2>5, Zenon
<1> QED
  BY <1>1, <1>2, Zenon

\* The ingest adds the pending record or nothing.
LEMMA IngestAdds ==
  ASSUME central \in Seq(Records), pending \in Records, Ingest \/ UNCHANGED central
  PROVE  /\ central' \in Seq(Records)
         /\ Hashes(central') \subseteq Hashes(central) \cup {pending.hash}
<1>1. CASE central' = central
  BY <1>1, Zenon
<1>2. CASE central' = Append(central, pending)
  <2>1. central' \in Seq(Records)
    BY <1>2
  <2>2. ASSUME NEW i \in DOMAIN central'
        PROVE  (i \in DOMAIN central /\ central'[i] = central[i]) \/ central'[i] = pending
    BY <1>2
  <2>3. Hashes(central') \subseteq Hashes(central) \cup {pending.hash}
    BY <2>2, Zenon DEF Hashes
  <2> QED
    BY <2>1, <2>3, Zenon
<1> QED
  BY <1>1, <1>2, Zenon DEF Ingest

\* A first boot over no file at all.
LEMMA InitAudit == Init => AuditInv
<1> SUFFICES ASSUME Init PROVE AuditInv
  BY Zenon
<1>1. TypeOK
  <2>1. hot \in Seq(Records) /\ central \in Seq(Records)
    BY DEF Init
  <2>2. sink \in [seq : Nat, hash : Nat] /\ pending \in Records /\ acked \in SUBSET Records
    BY Zenon DEF Init, NoTip, NoRecord, Torn, Records, Genesis
  <2>3. events \in 0..MaxEvents
    BY AuditAssumption DEF Init
  <2>4. DOMAIN cold = {}
    BY DEF Init
  <2> QED
    BY <2>1, <2>2, <2>3, <2>4, Zenon DEF Init, TypeOK
<1>2. Vouched = {}
  BY DEF Init, Vouched, Hashes, NoRecord, Torn
<1> QED
  BY <1>1, <1>2, Zenon DEF Init, AuditInv

\* What the name of a non-empty file is.
LEMMA NameTyped ==
  ASSUME hot \in Seq(Records), hot # <<>>
  PROVE  SegmentName \in Nat \X Nat
<1>1. 1 \in DOMAIN hot /\ Len(hot) \in DOMAIN hot
  OBVIOUS
<1>2. hot[1] \in Records /\ hot[Len(hot)] \in Records
  BY <1>1
<1> QED
  BY <1>2, Zenon DEF SegmentName, Records

\* The tip of a file is typed.
LEMMA TipTyped ==
  ASSUME NEW f \in Seq(Records) PROVE ReadTip(f) \in [seq : Nat, hash : Nat]
<1>1. CASE f = <<>>
  BY <1>1, Zenon DEF ReadTip, NoTip, Genesis
<1>2. CASE f # <<>>
  <2>1. f[Len(f)] \in Records
    BY <1>2
  <2> QED
    BY <1>2, <2>1, Zenon DEF ReadTip, Records
<1> QED
  BY <1>1, <1>2, Zenon

\* A segment that may be replaced holds no event the file does not have
\* (inspectExistingSegment).
LEMMA ReplaceableInHot ==
  ASSUME TypeOK, NEW n \in DOMAIN cold, Replaceable(n)
  PROVE  Hashes(cold[n]) \subseteq Hashes(hot)
<1>1. cold[n] \in Seq(Records) /\ hot \in Seq(Records)
  BY Zenon DEF TypeOK
<1>2. \A i \in DOMAIN cold[n] : i \in DOMAIN hot /\ cold[n][i] = hot[i]
  BY <1>1 DEF Replaceable, IsPrefixOfHot
<1> QED
  BY <1>2, Zenon DEF Hashes

\* Sealing touches no segment but a partial copy of the file (RotateSegment).
LEMMA SealKeeps ==
  ASSUME TypeOK, SealSegment
  PROVE  \A n \in DOMAIN cold : ~(Hashes(cold[n]) \subseteq Hashes(hot))
           => n \in DOMAIN cold' /\ cold'[n] = cold[n]
<1> SUFFICES ASSUME NEW n \in DOMAIN cold, ~(Hashes(cold[n]) \subseteq Hashes(hot))
             PROVE  n \in DOMAIN cold' /\ cold'[n] = cold[n]
  BY Zenon
<1>1. CASE cold' = cold
  BY <1>1, Zenon
<1>2. CASE Replaceable(SegmentName)
  <2>1. n # SegmentName
    BY <1>2, ReplaceableInHot, Zenon
  <2>2. ASSUME NEW f, PutSegment(SegmentName, f) PROVE n \in DOMAIN cold' /\ cold'[n] = cold[n]
    BY <2>1, <2>2, Zenon DEF PutSegment
  <2>3. ASSUME DropSegment(SegmentName) PROVE n \in DOMAIN cold' /\ cold'[n] = cold[n]
    BY <2>1, <2>3, Zenon DEF DropSegment
  <2> QED
    BY <1>1, <2>2, <2>3, Zenon DEF SealSegment
<1> QED
  BY <1>1, <1>2, Zenon DEF SealSegment

\* Sealing a segment keeps every event that is known.
LEMMA SealAudit == ASSUME AuditInv, SealSegment PROVE AuditInv'
<1>1. TypeOK /\ hot \in Seq(Records) /\ hot # <<>> /\ Readable(hot)
  BY Zenon DEF AuditInv, TypeOK, SealSegment, ValidateChain
<1>2. SegmentName \in Nat \X Nat
  BY <1>1, NameTyped, Zenon
<1>3. /\ UNCHANGED <<hot, open, coldDir, fanIn, central, sink, pending, events, acked>>
      /\ phase = "down" /\ phase' \in {"down", "sealed"}
  BY Zenon DEF SealSegment, file, config
<1>4. \A f \in Cuts : f \in Seq(Records)
  <2>1. Torn \in Records
    BY Zenon DEF Torn, Records, Genesis
  <2>2. \A i \in 0..(Len(hot) - 1) : SubSeq(hot, 1, i) \in Seq(Records)
    BY <1>1
  <2> QED
    BY <2>1, <2>2 DEF Cuts
<1>5. \A n \in DOMAIN cold' : n \in Nat \X Nat /\ cold'[n] \in Seq(Records)
  <2>1. ASSUME NEW f \in Seq(Records), PutSegment(SegmentName, f)
        PROVE  \A n \in DOMAIN cold' : n \in Nat \X Nat /\ cold'[n] \in Seq(Records)
    BY <1>1, <1>2, <2>1, Zenon DEF PutSegment, TypeOK
  <2>2. ASSUME DropSegment(SegmentName)
        PROVE  \A n \in DOMAIN cold' : n \in Nat \X Nat /\ cold'[n] \in Seq(Records)
    BY <1>1, <2>2, Zenon DEF DropSegment, TypeOK
  <2> QED
    BY <1>1, <1>4, <2>1, <2>2, Zenon DEF SealSegment, TypeOK
<1>6. TypeOK'
  BY <1>1, <1>3, <1>5, Zenon DEF TypeOK
<1>7. phase' = "sealed" => Sealed'
  <2>1. SegmentName' = SegmentName /\ Readable(hot)'
    BY <1>1, <1>3, Zenon DEF SegmentName, Readable
  <2>2. phase' = "sealed" => SegmentName \in DOMAIN cold' /\ cold'[SegmentName] = hot
    BY <1>3, Zenon DEF SealSegment, Finished, PutSegment
  <2> QED
    BY <1>1, <1>3, <2>1, <2>2, Zenon DEF Sealed
<1>8. Known \subseteq Known'
  <2>1. ASSUME NEW n \in DOMAIN cold
        PROVE  Hashes(cold[n]) \subseteq Hashes(hot) \cup Archived'
    BY <1>1, SealKeeps, Zenon DEF Archived
  <2>2. Archived \subseteq Hashes(hot) \cup Archived'
    BY <2>1, Zenon DEF Archived
  <2> QED
    BY <1>3, <2>2, Zenon DEF Known
<1>9. Vouched' = Vouched
  BY <1>3, Zenon DEF Vouched
<1> QED
  BY <1>1, <1>3, <1>6, <1>7, <1>8, <1>9, Zenon DEF AuditInv

\* Truncating the file loses nothing: the segment has all of it.
LEMMA TruncateAudit == ASSUME AuditInv, TruncateHot PROVE AuditInv'
<1>1. /\ TypeOK /\ Sealed /\ hot \in Seq(Records)
      /\ hot' = <<>> /\ open' = FALSE /\ sink' = ReadTip(hot) /\ phase' = "up"
      /\ UNCHANGED <<cold, coldDir, fanIn, central, pending, events, acked>>
  BY Zenon DEF AuditInv, TypeOK, TruncateHot, config
<1>2. TypeOK'
  <2>1. sink' \in [seq : Nat, hash : Nat] /\ hot' \in Seq(Records)
    BY <1>1, TipTyped
  <2> QED
    BY <1>1, <2>1, Zenon DEF TypeOK
<1>3. Hashes(hot) \subseteq Archived
  BY <1>1, Zenon DEF Sealed, Archived
<1>4. Vouched' = Vouched /\ Archived' = Archived
  BY <1>1, Zenon DEF Vouched, Archived
<1>5. Vouched' \subseteq Known'
  BY <1>1, <1>3, <1>4, Zenon DEF AuditInv, Sealed, Known
<1> QED
  BY <1>1, <1>2, <1>5, Zenon DEF AuditInv

\* A boot without rotation and a stop change neither file nor segments.
LEMMA RestartAudit == ASSUME AuditInv, BootResume \/ Stop PROVE AuditInv'
<1>1. /\ TypeOK /\ hot \in Seq(Records)
      /\ UNCHANGED <<hot, open, cold, coldDir, fanIn, central, events, acked>>
      /\ pending' = pending \/ pending' = NoRecord
      /\ pending' # NoRecord => pending' = pending /\ phase' = "up"
      /\ phase' \in {"down", "up"}
      /\ sink' \in {ReadTip(hot), NoTip}
  BY Zenon DEF AuditInv, TypeOK, BootResume, Stop, file, config
<1>2. TypeOK'
  <2>1. sink' \in [seq : Nat, hash : Nat]
    BY <1>1, TipTyped DEF NoTip, Genesis
  <2>2. pending' \in Records
    BY <1>1 DEF TypeOK, NoRecord, Torn, Records, Genesis
  <2> QED
    BY <1>1, <2>1, <2>2, Zenon DEF TypeOK
<1>3. Vouched' \subseteq Vouched /\ Known' = Known /\ Readable(hot)' = Readable(hot)
  BY <1>1 DEF Vouched, Known, Archived, NoRecord, Torn
<1> QED
  BY <1>1, <1>2, <1>3, Zenon DEF AuditInv

\* The record in the making is typed and carries a new event.
LEMMA NextTyped ==
  ASSUME TypeOK PROVE NextRecord \in Records /\ NextRecord.hash # Genesis
<1>1. events \in Nat /\ sink.seq \in Nat /\ sink.hash \in Nat
  BY AuditAssumption DEF TypeOK
<1> QED
  BY <1>1 DEF NextRecord, Records, Genesis

\* A write, whole, partial or none, loses nothing, and a whole one is known
\* before it is published.
LEMMA WriteAudit == ASSUME AuditInv, WriteLocal \/ WriteLocalFails PROVE AuditInv'
<1>1. /\ TypeOK /\ hot \in Seq(Records) /\ open \in BOOLEAN /\ (open => hot # <<>>)
      /\ pending = NoRecord /\ phase = "up" /\ events' = events + 1 /\ events < MaxEvents
      /\ UNCHANGED <<cold, coldDir, fanIn, central, phase, sink, acked>>
  BY Zenon DEF AuditInv, TypeOK, WriteLocal, WriteLocalFails, Emitting, config
<1>2. /\ NextRecord \in Records /\ NextRecord.hash # Genesis
      /\ Torn \in Records /\ pending' \in {NextRecord, NoRecord}
  <2>1. Torn \in Records
    BY Zenon DEF Torn, Records, Genesis
  <2> QED
    BY <1>1, <2>1, NextTyped, Zenon DEF WriteLocal, WriteLocalFails
<1>3. /\ hot' \in Seq(Records) /\ open' \in BOOLEAN /\ (open' => hot' # <<>>)
      /\ Readable(hot') => Readable(hot) /\ Hashes(hot) \subseteq Hashes(hot')
      /\ pending' = NextRecord /\ Readable(hot') => NextRecord.hash \in Hashes(hot')
  <2>1. CASE WriteLocal
    BY <1>1, <1>2, <2>1, AppendKeeps, Zenon DEF WriteLocal
  <2>2. CASE WriteLocalFails
    <3>1. pending' = NoRecord /\ NextRecord # NoRecord
      BY <1>1, <1>2, <2>2 DEF WriteLocalFails, NoRecord, Torn
    <3>2. CASE UNCHANGED file
      BY <1>1, <3>1, <3>2, Zenon DEF file
    <3>3. CASE AppendLine(Torn) /\ open' = TRUE
      BY <1>1, <1>2, <3>1, <3>3, AppendKeeps, Zenon
    <3>4. CASE AppendLine(NextRecord) /\ open' \in BOOLEAN
      BY <1>1, <1>2, <3>1, <3>4, AppendKeeps, Zenon
    <3> QED
      BY <2>2, <3>2, <3>3, <3>4, Zenon DEF WriteLocalFails
  <2> QED
    BY <2>1, <2>2, Zenon
<1>4. TypeOK'
  <2>1. events' \in 0..MaxEvents
    BY <1>1, AuditAssumption DEF TypeOK
  <2>2. pending' \in Records
    BY <1>2, Zenon DEF NoRecord
  <2> QED
    BY <1>1, <1>3, <2>1, <2>2, Zenon DEF TypeOK
<1>5. Vouched' \subseteq Vouched \cup (IF pending' = NextRecord THEN {NextRecord.hash} ELSE {})
  BY <1>1, <1>2, Zenon DEF Vouched, NoRecord, Torn
<1>6. Archived' = Archived
  BY <1>1, Zenon DEF Archived
<1>7. Readable(hot)' => Vouched' \subseteq Known'
  <2> SUFFICES ASSUME Readable(hot') PROVE Vouched' \subseteq Known'
    BY Zenon DEF Readable
  <2>1. Vouched \subseteq Known /\ Known \subseteq Known'
    BY <1>3, <1>6, Zenon DEF AuditInv, Known
  <2>2. pending' = NextRecord => NextRecord.hash \in Known'
    BY <1>3, Zenon DEF Known
  <2> QED
    BY <1>5, <2>1, <2>2, Zenon
<1>8. pending' # NoRecord => phase' = "up" /\ pending'.hash # Genesis
  BY <1>1, <1>2, Zenon
<1> QED
  BY <1>1, <1>3, <1>4, <1>7, <1>8, Zenon DEF AuditInv

\* An answer to the publish, good or bad, vouches for nothing that was not
\* written before.
LEMMA PublishAudit == ASSUME AuditInv, CommitRecord \/ PublishFails PROVE AuditInv'
<1>1. /\ TypeOK /\ central \in Seq(Records) /\ pending \in Records
      /\ pending # NoRecord /\ phase = "up" /\ pending.hash # Genesis
      /\ pending' = NoRecord /\ acked' \in {acked, acked \cup {pending}}
      /\ sink' \in {sink, [seq |-> pending.seq, hash |-> pending.hash]}
      /\ Ingest \/ UNCHANGED central
      /\ UNCHANGED <<hot, open, cold, coldDir, fanIn, phase, events>>
  BY Zenon DEF AuditInv, TypeOK, CommitRecord, PublishFails, file, config
<1>2. /\ central' \in Seq(Records)
      /\ Hashes(central') \subseteq Hashes(central) \cup {pending.hash}
  BY <1>1, IngestAdds, Zenon
<1>3. TypeOK'
  <2>1. sink' \in [seq : Nat, hash : Nat]
    BY <1>1 DEF TypeOK, Records
  <2>2. pending' \in Records
    BY <1>1, Zenon DEF NoRecord, Torn, Records, Genesis
  <2>3. acked' \in SUBSET Records
    BY <1>1, Zenon DEF TypeOK
  <2> QED
    BY <1>1, <1>2, <2>1, <2>2, <2>3, Zenon DEF TypeOK
<1>4. Vouched' \subseteq Vouched
  <2>1. Vouched' = ({r.hash : r \in acked'} \cup {NoRecord.hash} \cup Hashes(central')) \ {Genesis}
    BY <1>1, Zenon DEF Vouched, Hashes
  <2>2. {r.hash : r \in acked'} \subseteq {r.hash : r \in acked} \cup {pending.hash}
    BY <1>1, Zenon
  <2>3. NoRecord.hash = Genesis
    BY Zenon DEF NoRecord, Torn
  <2> QED
    BY <1>2, <2>1, <2>2, <2>3, Zenon DEF Vouched
<1>5. Known' = Known /\ Readable(hot)' = Readable(hot)
  BY <1>1, Zenon DEF Known, Archived
<1>6. \A r \in acked' : r.hash # Genesis
  BY <1>1, Zenon DEF AuditInv
<1> QED
  BY <1>1, <1>3, <1>4, <1>5, <1>6, Zenon DEF AuditInv

\* The invariant is inductive over every step of the trail.
LEMMA AuditStep == AuditInv /\ [Next]_vars => AuditInv'
<1>1. ASSUME AuditInv, UNCHANGED vars PROVE AuditInv'
  <2>1. UNCHANGED <<hot, open, cold, coldDir, fanIn, central, phase, sink, pending, events, acked>>
    BY <1>1, Zenon DEF vars, file, config
  <2> QED
    BY <1>1, <2>1 DEF AuditInv, TypeOK, Sealed, SegmentName, Vouched, Known, Archived
<1> QED
  BY <1>1, SealAudit, TruncateAudit, RestartAudit, WriteAudit, PublishAudit, Zenon DEF
     Next

\* The invariant the theorems below rest on.
LEMMA AuditInvariant == Spec => []AuditInv
  BY InitAudit, AuditStep, PTL DEF Spec

\* No acknowledged event disappears silently, for every number of events and
\* every fault of a write, a publish or a rotation: it is readable in the file
\* or a segment, or the file is visibly torn (Emit, RotateSegment).
THEOREM AckedNeverLost == Spec => []AckedKept
<1>1. AuditInv => AckedKept
  <2> SUFFICES ASSUME AuditInv, Readable(hot), NEW r \in acked
               PROVE  r.hash \in Hashes(hot) \cup Archived
    BY Zenon DEF AckedKept
  <2>1. r.hash \in Vouched
    BY Zenon DEF AuditInv, Vouched
  <2> QED
    BY <2>1, Zenon DEF AuditInv, Known
<1> QED
  BY <1>1, AuditInvariant, PTL

\* What the central log has committed, the local file or a segment has, or the
\* file is visibly torn (FanInWriter.Write).
THEOREM CentralNeverAhead == Spec => []CentralMirrored
<1>1. AuditInv => CentralMirrored
  <2>1. Hashes(central) \subseteq Vouched
    BY Zenon DEF Vouched, Hashes
  <2> QED
    BY <2>1, Zenon DEF AuditInv, Known, CentralMirrored
<1> QED
  BY <1>1, AuditInvariant, PTL

\* No rotation, finished, failed or repeated under a name that is taken, changes
\* a segment that holds an event the file no longer has
\* (inspectExistingSegment).
THEOREM ArchiveNeverTouched == Spec => ArchiveKept
<1> DEFINE Keeps == \A n \in DOMAIN cold : ~(Hashes(cold[n]) \subseteq Hashes(hot))
                      => n \in DOMAIN cold' /\ cold'[n] = cold[n]
<1>1. AuditInv /\ [Next]_vars => [Keeps]_vars
  <2> SUFFICES ASSUME AuditInv, Next PROVE Keeps
    BY Zenon
  <2>1. CASE SealSegment
    BY <2>1, SealKeeps, Zenon DEF AuditInv
  <2>2. CASE ~SealSegment
    <3>1. cold' = cold
      BY <2>2, Zenon DEF Next, TruncateHot, BootResume, WriteLocal, WriteLocalFails,
         CommitRecord, PublishFails, Stop
    <3> QED
      BY <3>1, Zenon
  <2> QED
    BY <2>1, <2>2, Zenon
<1>2. ArchiveKept <=> [][Keeps]_vars
  BY Zenon DEF ArchiveKept
<1> QED
  BY <1>1, <1>2, AuditInvariant, PTL DEF Spec

-----------------------------------------------------------------------------
(* The MCP API keys. *)

MCPSpec == MCPInit /\ [][MCPNext]_mcpVars

InFlight == {"audit", "store", "list", "entries", "active", "keyset", "answer"}
Survives == shelf.file \/ shelf.backend = "postgres"

MCPShape == /\ MCPType
            /\ DOMAIN snap = Verbs

\* Every status of a map of records has its audit record.
Logged(m) == \A k \in KeyIds : /\ m[k] # "absent" => <<"create", k>> \in journal
                               /\ m[k] = "revoked" => <<"revoke", k>> \in journal

\* What an operation has recorded and enumerated.  A revoke comes after the
\* record of the create it names.
VerbInv(v) ==
    /\ at[v] \in InFlight => alive
    /\ at[v] \in InFlight \ {"audit"} => <<Verb(v), KeyOf(v)>> \in journal
    /\ at[v] = "entries" => snap[v] \in KeyMap /\ Logged(snap[v]) /\ shelf.file
    /\ at[v] = "list" => shelf.file
    /\ at[v] = "keyset" => snap[v] \in SUBSET KeyIds
    /\ Verb(v) = "create" /\ <<"create", KeyOf(v)>> \in journal => at[v] \notin {"new", "audit"}
    /\ Verb(v) = "revoke" /\ at[v] # "new" => <<"create", KeyOf(v)>> \in journal
    /\ result[v] = "ok" => at[v] = "done"

LogInv == /\ Logged(keys)
          /\ entries # Unset => Logged(entries)
          /\ \A v \in Verbs : VerbInv(v)

\* Operators acting in turn: one operation is in flight, and a revoke starts
\* when the create it names has ended.
SerialInv == shelf.serial => \A u, v \in Verbs :
    /\ at[u] \in InFlight /\ at[v] \in InFlight => u = v
    /\ Verb(u) = "create" /\ Verb(v) = "revoke" /\ KeyOf(u) = KeyOf(v) /\ at[v] # "new"
       => at[u] = "done"

\* The store, the files and what is about to be written to them leave the key
\* out.
Out(k) == /\ keys[k] # "active"
          /\ shelf.file /\ entries # Unset => entries[k] # "active"
          /\ bootset # Unset => k \notin bootset
          /\ \A u \in Verbs : /\ at[u] = "entries" => snap[u][k] # "active"
                              /\ at[u] = "keyset" => k \notin snap[u]

\* How far a revoke in flight has taken its key out.
Leaving(v, k) ==
    /\ at[v] \in {"list", "entries", "active", "keyset", "answer"} => keys[k] # "active"
    /\ at[v] = "entries" => snap[v][k] # "active"
    /\ at[v] \in {"active", "keyset", "answer"} /\ shelf.file /\ entries # Unset => entries[k] # "active"
    /\ at[v] = "keyset" => k \notin snap[v]
    /\ at[v] = "answer" /\ bootset # Unset => k \notin bootset

\* They keep it in; where nothing survives the process only a publication is
\* promised.
In(k) == /\ bootset # Unset
         /\ Survives => /\ k \in bootset
                        /\ alive \/ shelf.backend = "postgres" => keys[k] = "active"
                        /\ shelf.file => entries # Unset /\ entries[k] = "active"
                        /\ \A u \in Verbs : /\ at[u] = "entries" => snap[u][k] = "active"
                                            /\ at[u] = "keyset" => k \in snap[u]

Entering(v, k) ==
    /\ at[v] \in {"list", "entries", "active", "keyset", "answer"} => keys[k] = "active"
    /\ at[v] = "entries" => snap[v][k] = "active"
    /\ at[v] \in {"active", "keyset", "answer"} /\ shelf.file => entries # Unset /\ entries[k] = "active"
    /\ at[v] = "keyset" => k \in snap[v]
    /\ at[v] = "answer" => bootset # Unset /\ k \in bootset

\* Nobody revokes the key and it is within its time.
Wanted(k) == ~Started("revoke", k) /\ ~IsExpired(k)

RevokeInv == shelf.serial =>
    /\ \A k \in KeyIds : Answered("revoke", k) => Out(k)
    /\ \A v \in Verbs : Verb(v) = "revoke" => Leaving(v, KeyOf(v))

CreateInv == shelf.serial =>
    /\ \A k \in KeyIds : Answered("create", k) /\ Wanted(k) => In(k)
    /\ \A v \in Verbs : Verb(v) = "create" /\ Wanted(KeyOf(v)) => Entering(v, KeyOf(v))

MCPInv == MCPShape /\ LogInv /\ SerialInv /\ RevokeInv /\ CreateInv

-----------------------------------------------------------------------------
\* What a deployment is made of.
LEMMA ShelfFacts ==
    ASSUME shelf \in Shelves
    PROVE  /\ shelf.backend \in {"memory", "postgres"} /\ shelf.file \in BOOLEAN
           /\ shelf.serial \in BOOLEAN /\ shelf.expiry \in Nat /\ shelf.restarts \in 0 .. 1
           /\ \A v \in Verbs : Verb(v) \in {"create", "revoke"} /\ KeyOf(v) \in KeyIds
           /\ \A u, v \in Verbs : Verb(u) = "create" /\ Verb(v) = "create" /\ KeyOf(u) = KeyOf(v)
                                   => u = v
<1>1. shelf \in ShelfType
  BY ShelvesAssumption, Zenon
<1>2. shelf.verbs \in [Verbs -> {"create", "revoke"} \X KeyIds]
  BY <1>1, Zenon DEF ShelfType
<1>3. \A v \in Verbs : /\ Verb(v) \in {"create", "revoke"} /\ KeyOf(v) \in KeyIds
                       /\ shelf.verbs[v] = <<Verb(v), KeyOf(v)>>
  BY <1>2 DEF Verb, KeyOf
<1>4. \A u, v \in Verbs : shelf.verbs[u] = shelf.verbs[v] /\ Verb(v) = "create" => u = v
  BY ShelvesAssumption, Zenon DEF Verb
<1> QED BY <1>1, <1>3, <1>4 DEF ShelfType

\* Both stores write the status they are given, revoke what is there, and list
\* as active what is neither revoked nor expired.
LEMMA StoreFacts ==
    ASSUME shelf \in Shelves, keys \in KeyMap, tick \in Nat
    PROVE  /\ \A m \in KeyMap, k \in KeyIds : \A status \in {"active", "revoked"} :
                Put(m, k, status) = [m EXCEPT ![k] = status]
           /\ \A m \in KeyMap, k \in KeyIds :
                StoreRevoke(m, k) = [m EXCEPT ![k] = IF @ = "absent" THEN "absent" ELSE "revoked"]
           /\ ActiveRecords = {k \in KeyIds : keys[k] = "active" /\ ~IsExpired(k)}
<1>1. ASSUME NEW m \in KeyMap, NEW k \in KeyIds, NEW status \in {"active", "revoked"}
      PROVE  Put(m, k, status) = [m EXCEPT ![k] = status]
  <2>1. BuildRecord(StatusFromRecord(status)) = status
    BY DEF BuildRecord, StatusFromRecord
  <2> QED BY <2>1 DEF Put, PutInMem, PutRow
<1>2. ASSUME NEW m \in KeyMap, NEW k \in KeyIds
      PROVE  StoreRevoke(m, k) = [m EXCEPT ![k] = IF @ = "absent" THEN "absent" ELSE "revoked"]
  <2>1. RevokeInMem(m, k) = [m EXCEPT ![k] = IF @ = "absent" THEN "absent" ELSE "revoked"]
    BY Zenon DEF RevokeInMem, KeyMap
  <2>2. RevokeRow(m, k) = [m EXCEPT ![k] = IF @ = "absent" THEN "absent" ELSE "revoked"]
    BY Zenon DEF RevokeRow, KeyMap, BuildRecord
  <2> QED BY <2>1, <2>2 DEF StoreRevoke
<1>3. \A k \in KeyIds : k \in ActiveRecords <=> keys[k] = "active" /\ ~IsExpired(k)
  <2>1. \A k \in KeyIds : keys[k] # "absent" /\ StatusFromRecord(keys[k]) = 0 <=> keys[k] = "active"
    BY DEF KeyMap, KeyStates, StatusFromRecord
  <2>2. \A k \in KeyIds : (k \notin shelf.expiring \/ shelf.expiry > tick) <=> ~IsExpired(k)
    BY ShelfFacts DEF IsExpired
  <2> QED BY <2>1, <2>2 DEF ActiveRecords, ActiveInMem, ActiveRows, IsActive
<1>4. ActiveRecords \subseteq KeyIds
  BY Zenon DEF ActiveRecords, ActiveInMem, ActiveRows
<1> QED BY <1>1, <1>2, <1>3, <1>4
-----------------------------------------------------------------------------
\* Answers and starts are never taken back, and an expired key stays expired.
LEMMA Monotone ==
    ASSUME MCPShape, shelf' = shelf, tick' \in {tick, tick + 1},
           \A u \in Verbs : at[u] # "new" => at'[u] # "new"
    PROVE  \A k \in KeyIds : Wanted(k)' => Wanted(k)
<1>1. \A k \in KeyIds : Started("revoke", k) => Started("revoke", k)'
  BY Zenon DEF Started, Verb, KeyOf
<1>2. tick \in Nat /\ shelf.expiry \in Nat
  BY ShelfFacts, ShelvesAssumption DEF MCPShape, MCPType
<1>3. \A k \in KeyIds : IsExpired(k) => IsExpired(k)'
  BY <1>2 DEF IsExpired
<1> QED BY <1>1, <1>3 DEF Wanted

\* A step that answers no verb leaves the answers already given true.
LEMMA NoNewAnswer ==
    ASSUME shelf' = shelf, \A u \in Verbs : result'[u] = "ok" => result[u] = "ok"
    PROVE  \A k \in KeyIds : /\ Answered("revoke", k)' => Answered("revoke", k)
                             /\ Answered("create", k)' => Answered("create", k)
  BY Zenon DEF Answered, Verb, KeyOf

\* While operators act in turn every other operation rests, and no create of
\* the key of a revoke is under way.
LEMMA InTurn ==
    ASSUME MCPInv, shelf.serial, NEW v \in Verbs, at[v] \in InFlight
    PROVE  /\ \A u \in Verbs \ {v} : at[u] \in {"new", "done"}
           /\ \A k \in KeyIds : Answered("revoke", k) => Verb(v) = "revoke" \/ KeyOf(v) # k
           /\ \A k \in KeyIds : Wanted(k) => Verb(v) = "create" \/ KeyOf(v) # k
           /\ \A k \in KeyIds : Answered("create", k) => Verb(v) = "revoke" \/ KeyOf(v) # k
<1>1. \A u \in Verbs \ {v} : at[u] \in {"new", "done"}
  BY Zenon DEF MCPInv, SerialInv, MCPShape, MCPType, InFlight
<1>2. ASSUME NEW k \in KeyIds, Answered("revoke", k), Verb(v) = "create", KeyOf(v) = k
      PROVE  FALSE
  <2>1. PICK u \in Verbs : Verb(u) = "revoke" /\ KeyOf(u) = k /\ result[u] = "ok"
    BY <1>2, Zenon DEF Answered
  <2>2. at[u] = "done"
    BY <2>1, Zenon DEF MCPInv, LogInv, VerbInv
  <2> QED BY <1>2, <2>1, <2>2 DEF MCPInv, SerialInv, InFlight
<1>3. ASSUME NEW k \in KeyIds, Wanted(k), Verb(v) # "create", KeyOf(v) = k PROVE FALSE
  <2>1. Verb(v) = "revoke"
    BY <1>3, ShelfFacts, Zenon DEF MCPInv, MCPShape, MCPType
  <2> QED BY <1>3, <2>1 DEF Wanted, Started, InFlight
<1>4. ASSUME NEW k \in KeyIds, Answered("create", k), Verb(v) # "revoke", KeyOf(v) = k PROVE FALSE
  <2>1. Verb(v) = "create"
    BY <1>4, ShelfFacts, Zenon DEF MCPInv, MCPShape, MCPType
  <2>2. PICK u \in Verbs : Verb(u) = "create" /\ KeyOf(u) = k /\ result[u] = "ok"
    BY <1>4, Zenon DEF Answered
  <2>3. u = v
    BY <1>4, <2>1, <2>2, ShelfFacts, Zenon DEF MCPInv, MCPShape, MCPType
  <2>4. at[v] = "done"
    BY <2>2, <2>3, Zenon DEF MCPInv, LogInv, VerbInv
  <2> QED BY <2>4 DEF InFlight
<1>5. Verb(v) \in {"create", "revoke"}
  BY ShelfFacts, Zenon DEF MCPInv, MCPShape, MCPType
<1> QED BY <1>1, <1>2, <1>3, <1>4, <1>5
-----------------------------------------------------------------------------
\* Begin and the audit step touch no record and no file.
LEMMA BeginKeeps ==
    ASSUME MCPInv, NEW v \in Verbs, Begin(v) \/ AuditFirst(v)
    PROVE  MCPInv'
<1>1. /\ MCPShape /\ LogInv /\ SerialInv /\ RevokeInv /\ CreateInv
      /\ \A u \in Verbs : VerbInv(u)
  BY Zenon DEF MCPInv, LogInv
<1>2. /\ alive
      /\ \/ /\ at[v] = "new" /\ at'[v] \in {"audit", "done"} /\ journal' = journal
            /\ shelf.serial => \A u \in Verbs : at[u] \in {"new", "done"}
            /\ Verb(v) = "revoke" => <<"create", KeyOf(v)>> \in journal
         \/ /\ at[v] = "audit" /\ at'[v] = "store"
            /\ journal' = journal \cup {<<Verb(v), KeyOf(v)>>}
         \/ at[v] = "audit" /\ at'[v] = "done" /\ journal' = journal
      /\ at' \in [Verbs -> {"new", "done"} \cup InFlight]
      /\ \A u \in Verbs \ {v} : at'[u] = at[u] /\ result'[u] = result[u]
      /\ result' \in [Verbs -> {"none", "ok", "denied", "refused", "invalid", "lost"}]
      /\ result'[v] = "ok" => result[v] = "ok"
  BY <1>1 DEF Begin, AuditFirst, Step, Ends, MCPShape, MCPType, InFlight
<1>3. UNCHANGED <<shelf, tick, alive, restarts, keys, entries, bootset, snap>>
  BY Zenon DEF Begin, AuditFirst, rest
<1>4. Verb(v) \in {"create", "revoke"} /\ KeyOf(v) \in KeyIds
  BY <1>1, ShelfFacts, Zenon DEF MCPShape, MCPType
<1>5. MCPShape'
  BY <1>1, <1>2, <1>3, <1>4 DEF MCPShape, MCPType, InFlight
<1>6. LogInv'
  <2>1. \A m : Logged(m) => Logged(m)'
    BY <1>2, Zenon DEF Logged
  <2>2. ASSUME NEW u \in Verbs, u # v PROVE VerbInv(u)'
    <3>1. Verb(u)' = Verb(u) /\ KeyOf(u)' = KeyOf(u)
      BY <1>3, Zenon DEF Verb, KeyOf
    <3>2. <<"create", KeyOf(u)>> \in journal' /\ Verb(u) = "create" => <<"create", KeyOf(u)>> \in journal
      BY <1>1, <1>2, <1>4, <2>2, ShelfFacts DEF MCPShape, MCPType
    <3> QED BY <1>1, <1>2, <1>3, <2>1, <2>2, <3>1, <3>2 DEF VerbInv
  <2>3. VerbInv(v)'
    <3>1. Verb(v)' = Verb(v) /\ KeyOf(v)' = KeyOf(v)
      BY <1>3, Zenon DEF Verb, KeyOf
    <3> QED BY <1>1, <1>2, <1>3, <1>4, <3>1 DEF VerbInv, InFlight
  <2> QED BY <1>1, <1>3, <2>1, <2>2, <2>3 DEF LogInv
<1>7. SerialInv'
  <2> SUFFICES ASSUME shelf.serial, NEW u \in Verbs, NEW w \in Verbs
               PROVE  /\ at'[u] \in InFlight /\ at'[w] \in InFlight => u = w
                      /\ Verb(u) = "create" /\ Verb(w) = "revoke" /\ KeyOf(u) = KeyOf(w) /\ at'[w] # "new"
                         => at'[u] = "done"
    BY <1>3, Zenon DEF SerialInv, Verb, KeyOf
  <2>1. at'[u] \in InFlight /\ at'[w] \in InFlight => u = w
    BY <1>1, <1>2 DEF SerialInv, InFlight
  <2>2. ASSUME Verb(u) = "create", Verb(w) = "revoke", KeyOf(u) = KeyOf(w), at'[w] # "new"
        PROVE  at'[u] = "done"
    <3>1. at[u] = "done"
      BY <1>1, <1>2, <2>2, Zenon DEF SerialInv, VerbInv
    <3> QED BY <1>2, <2>2, <3>1
  <2> QED BY <2>1, <2>2
<1>8. \A k \in KeyIds : /\ Wanted(k)' => Wanted(k)
                        /\ Answered("revoke", k)' => Answered("revoke", k)
                        /\ Answered("create", k)' => Answered("create", k)
  BY <1>1, <1>2, <1>3, Monotone, NoNewAnswer, Zenon
<1>9. \A u \in Verbs : /\ Verb(u)' = Verb(u) /\ KeyOf(u)' = KeyOf(u)
                       /\ at'[u] \in {"list", "entries", "active", "keyset", "answer"} => at'[u] = at[u]
  BY <1>2, <1>3, Zenon DEF Verb, KeyOf
<1>10. RevokeInv'
  <2>1. \A k \in KeyIds : Out(k) => Out(k)'
    BY <1>3, <1>9, Zenon DEF Out
  <2>2. \A u \in Verbs, k \in KeyIds : Leaving(u, k) => Leaving(u, k)'
    BY <1>3, <1>9 DEF Leaving
  <2> QED BY <1>1, <1>3, <1>8, <1>9, <2>1, <2>2, ShelfFacts DEF RevokeInv, MCPShape, MCPType
<1>11. CreateInv'
  <2>1. \A k \in KeyIds : In(k) => In(k)'
    BY <1>3, <1>9, Zenon DEF In, Survives
  <2>2. \A u \in Verbs, k \in KeyIds : Entering(u, k) => Entering(u, k)'
    BY <1>3, <1>9 DEF Entering
  <2> QED BY <1>1, <1>3, <1>8, <1>9, <2>1, <2>2, ShelfFacts DEF CreateInv, MCPShape, MCPType
<1> QED BY <1>5, <1>6, <1>7, <1>10, <1>11 DEF MCPInv
-----------------------------------------------------------------------------
\* A later step of operation v: it moves on, and no other operation does.
Moves(v, to) ==
    /\ at[v] \in InFlight \ {"audit"} /\ to \in (InFlight \ {"audit"}) \cup {"done"}
    /\ at' = [at EXCEPT ![v] = to]
    /\ \A u \in Verbs \ {v} : result'[u] = result[u] /\ snap'[u] = snap[u]
    /\ UNCHANGED <<shelf, tick, alive, restarts, journal>>

\* It keeps the records of the log when what it writes and enumerates has them.
LEMMA LogKept ==
    ASSUME MCPInv, NEW v \in Verbs, NEW to, Moves(v, to), result'[v] = "ok" => to = "done",
           Logged(keys)', (entries # Unset => Logged(entries))',
           to = "entries" => (snap[v] \in KeyMap /\ Logged(snap[v]) /\ shelf.file)',
           to = "list" => shelf.file,
           to = "keyset" => snap'[v] \in SUBSET KeyIds
    PROVE  LogInv' /\ SerialInv'
<1>1. /\ MCPShape /\ SerialInv
      /\ \A u \in Verbs : VerbInv(u)
  BY Zenon DEF MCPInv, LogInv
<1>2. /\ at'[v] = to /\ \A u \in Verbs \ {v} : at'[u] = at[u]
      /\ \A u \in Verbs : Verb(u)' = Verb(u) /\ KeyOf(u)' = KeyOf(u)
  BY <1>1, Zenon DEF MCPShape, MCPType, Moves, Verb, KeyOf
<1>3. ASSUME NEW u \in Verbs, u # v PROVE VerbInv(u)'
  BY <1>1, <1>2, <1>3 DEF Moves, VerbInv, Logged
<1>4. VerbInv(v)'
  BY <1>1, <1>2, Zenon DEF Moves, VerbInv, InFlight
<1>5. SerialInv'
  BY <1>1, <1>2 DEF SerialInv, Moves, InFlight
<1> QED BY <1>3, <1>4, <1>5 DEF LogInv

\* It keeps what revokes achieved when it leaves a revoked key out of what it
\* writes and enumerates.
LEMMA RevokeKept ==
    ASSUME MCPInv, NEW v \in Verbs, NEW to, Moves(v, to), result'[v] = "ok" => result[v] = "ok",
           shelf.serial => \A k \in KeyIds : Answered("revoke", k) =>
             /\ keys'[k] # "active"
             /\ shelf.file /\ entries' # Unset => entries'[k] # "active"
             /\ bootset' # Unset => k \notin bootset'
             /\ to = "entries" => snap'[v][k] # "active"
             /\ to = "keyset" => k \notin snap'[v],
           shelf.serial /\ Verb(v) = "revoke" => Leaving(v, KeyOf(v))'
    PROVE  RevokeInv'
<1> SUFFICES ASSUME shelf.serial
             PROVE  /\ \A k \in KeyIds : Answered("revoke", k)' => Out(k)'
                    /\ \A u \in Verbs : Verb(u)' = "revoke" => Leaving(u, KeyOf(u))'
  BY Zenon DEF RevokeInv, Moves
<1>1. /\ at'[v] = to
      /\ \A u \in Verbs \ {v} : at'[u] = at[u] /\ at[u] \in {"new", "done"}
      /\ \A u \in Verbs : Verb(u)' = Verb(u) /\ KeyOf(u)' = KeyOf(u)
      /\ shelf' = shelf
  BY InTurn, Zenon DEF MCPInv, MCPShape, MCPType, Moves, Verb, KeyOf
<1>2. \A k \in KeyIds : Answered("revoke", k)' => Answered("revoke", k)
  BY NoNewAnswer, Zenon DEF Moves
<1>3. ASSUME NEW k \in KeyIds, Answered("revoke", k)' PROVE Out(k)'
  BY <1>1, <1>2, <1>3, Zenon DEF Out
<1>4. \A u \in Verbs \ {v} : Leaving(u, KeyOf(u))'
  BY <1>1, Zenon DEF Leaving
<1> QED BY <1>1, <1>3, <1>4

\* It keeps what creates achieved when it keeps a created key in.
LEMMA CreateKept ==
    ASSUME MCPInv, NEW v \in Verbs, NEW to, Moves(v, to), result'[v] = "ok" => result[v] = "ok",
           shelf.serial => \A k \in KeyIds : Answered("create", k) /\ Wanted(k) =>
             /\ bootset' # Unset
             /\ Survives => /\ k \in bootset'
                            /\ keys'[k] = "active"
                            /\ shelf.file => entries' # Unset /\ entries'[k] = "active"
                            /\ to = "entries" => snap'[v][k] = "active"
                            /\ to = "keyset" => k \in snap'[v],
           shelf.serial /\ Verb(v) = "create" /\ Wanted(KeyOf(v)) => Entering(v, KeyOf(v))'
    PROVE  CreateInv'
<1> SUFFICES ASSUME shelf.serial
             PROVE  /\ \A k \in KeyIds : Answered("create", k)' /\ Wanted(k)' => In(k)'
                    /\ \A u \in Verbs : Verb(u)' = "create" /\ Wanted(KeyOf(u))' => Entering(u, KeyOf(u))'
  BY Zenon DEF CreateInv, Moves
<1>1. /\ at'[v] = to /\ at[v] # "new" /\ to # "new"
      /\ \A u \in Verbs \ {v} : at'[u] = at[u] /\ at[u] \in {"new", "done"}
      /\ \A u \in Verbs : /\ Verb(u)' = Verb(u) /\ KeyOf(u)' = KeyOf(u)
                          /\ KeyOf(u) \in KeyIds
      /\ shelf' = shelf /\ tick' = tick /\ alive' = alive
      /\ MCPShape
  BY InTurn, ShelfFacts, Zenon DEF MCPInv, MCPShape, MCPType, Moves, Verb, KeyOf,
     InFlight
<1>2. \A k \in KeyIds : Answered("create", k)' => Answered("create", k)
  BY NoNewAnswer, Zenon DEF Moves
<1>3. \A k \in KeyIds : Wanted(k)' => Wanted(k)
  BY <1>1, Monotone, Zenon
<1>4. ASSUME NEW k \in KeyIds, Answered("create", k)', Wanted(k)' PROVE In(k)'
  BY <1>1, <1>2, <1>3, <1>4 DEF In, Survives
<1>5. \A u \in Verbs \ {v} : Entering(u, KeyOf(u))'
  BY <1>1, Zenon DEF Entering
<1>6. Verb(v) = "create" /\ Wanted(KeyOf(v))' => Entering(v, KeyOf(v))'
  <2>1. Wanted(KeyOf(v))' => Wanted(KeyOf(v))
    <3>1. \A k \in KeyIds : k = KeyOf(v) => (Wanted(KeyOf(v))' => Wanted(k)')
      BY <1>1, Zenon
    <3> QED BY <1>1, <1>3, <3>1
  <2> QED BY <2>1
<1> QED BY <1>1, <1>4, <1>5, <1>6
-----------------------------------------------------------------------------
\* An operation that is refused has changed nothing in this step.
LEMMA RefusedKeeps ==
    ASSUME MCPInv, NEW v \in Verbs, at[v] \in InFlight \ {"audit"}, Ends(v, "refused"),
           UNCHANGED <<rest, keys, entries, bootset, journal, snap>>
    PROVE  MCPInv'
<1>1. MCPShape /\ LogInv /\ RevokeInv /\ CreateInv
  BY Zenon DEF MCPInv
<1>2. /\ Moves(v, "done") /\ result'[v] = "refused" /\ at'[v] = "done"
  BY <1>1, Zenon DEF Moves, Ends, Step, rest, MCPShape, MCPType
<1>3. MCPShape'
  BY <1>1, Zenon DEF MCPShape, MCPType, Ends, Step, rest
<1>4. LogInv' /\ SerialInv'
  BY <1>1, <1>2, LogKept, Zenon DEF LogInv, Logged
<1>5. RevokeInv'
  <2>1. shelf.serial => \A k \in KeyIds : Answered("revoke", k) => Out(k)
    BY <1>1, Zenon DEF RevokeInv
  <2>2. Leaving(v, KeyOf(v))'
    BY <1>2, Zenon DEF Leaving
  <2> QED BY <1>2, <2>1, <2>2, RevokeKept DEF Out
<1>6. CreateInv'
  <2>1. shelf.serial => \A k \in KeyIds : Answered("create", k) /\ Wanted(k) => In(k)
    BY <1>1, Zenon DEF CreateInv
  <2>2. Entering(v, KeyOf(v))'
    BY <1>2, Zenon DEF Entering
  <2>3. alive
    BY <1>1, Zenon DEF LogInv, VerbInv
  <2> QED BY <1>2, <2>1, <2>2, <2>3, CreateKept DEF In
<1> QED BY <1>3, <1>4, <1>5, <1>6 DEF MCPInv

\* store.Put or store.Revoke.
LEMMA MutateKeeps ==
    ASSUME MCPInv, NEW v \in Verbs, Mutate(v) PROVE MCPInv'
<1>1. MCPShape /\ LogInv /\ RevokeInv /\ CreateInv
  BY Zenon DEF MCPInv
<1>2. CASE Ends(v, "refused") /\ UNCHANGED keys
  BY <1>2, RefusedKeeps, Zenon DEF Mutate, InFlight
<1>3. CASE ~(Ends(v, "refused") /\ UNCHANGED keys)
  <2> DEFINE k == KeyOf(v)
             to == IF shelf.file THEN "list" ELSE "active"
  <2>1. /\ alive /\ at[v] = "store"
        /\ keys' = IF Verb(v) = "create" THEN Put(keys, k, "active") ELSE StoreRevoke(keys, k)
        /\ at' = [at EXCEPT ![v] = to] /\ result' = result
        /\ UNCHANGED <<shelf, tick, alive, restarts, entries, bootset, journal, snap>>
    BY <1>3, Zenon DEF Mutate, Step, rest, NewRecord
  <2>2. /\ k \in KeyIds /\ keys \in KeyMap /\ tick \in Nat /\ shelf \in Shelves
        /\ shelf.file \in BOOLEAN /\ Verb(v) \in {"create", "revoke"}
        /\ DOMAIN at = Verbs
    BY <1>1, ShelfFacts, ShelvesAssumption DEF MCPShape, MCPType
  <2>3. /\ Verb(v) = "create" => keys' = [keys EXCEPT ![k] = "active"]
        /\ Verb(v) = "revoke" => keys' = [keys EXCEPT ![k] = IF @ = "absent" THEN "absent" ELSE "revoked"]
    BY <2>1, <2>2, StoreFacts, Zenon
  <2>4. /\ keys' \in KeyMap
        /\ \A x \in KeyIds \ {k} : keys'[x] = keys[x]
        /\ Verb(v) = "create" => keys'[k] = "active"
        /\ Verb(v) = "revoke" => keys'[k] \in {"absent", "revoked"}
        /\ Verb(v) = "revoke" /\ keys'[k] = "revoked" => keys[k] # "absent"
    BY <2>2, <2>3, Zenon DEF KeyMap, KeyStates
  <2>5. to \in {"list", "active"} /\ (to = "list" => shelf.file) /\ (to = "active" => ~shelf.file)
    BY <2>2, Zenon
  <2> HIDE DEF to, k
  <2>6. Moves(v, to) /\ at'[v] = to
    BY <2>1, <2>2, <2>5, Zenon DEF Moves, InFlight
  <2>7. MCPShape'
    BY <1>1, <2>1, <2>4, <2>5, Zenon DEF MCPShape, MCPType
  <2>8. LogInv' /\ SerialInv'
    <3>1. <<Verb(v), k>> \in journal
      BY <1>1, <2>1, Zenon DEF LogInv, VerbInv, InFlight, k
    <3>2. Logged(keys)'
      BY <1>1, <2>1, <2>2, <2>4, <3>1, Zenon DEF LogInv, Logged
    <3>3. (entries # Unset => Logged(entries))'
      BY <1>1, <2>1, Zenon DEF LogInv, Logged
    <3>4. result'[v] # "ok"
      BY <1>1, <2>1, Zenon DEF LogInv, VerbInv
    <3> QED BY <2>5, <2>6, <3>2, <3>3, <3>4, LogKept
  <2>9. RevokeInv'
    <3>1. ASSUME shelf.serial, NEW x \in KeyIds, Answered("revoke", x)
          PROVE  /\ keys'[x] # "active"
                 /\ shelf.file /\ entries' # Unset => entries'[x] # "active"
                 /\ bootset' # Unset => x \notin bootset'
      <4>1. Out(x)
        BY <1>1, <3>1, Zenon DEF RevokeInv
      <4>2. x = k => Verb(v) = "revoke"
        BY <2>1, <3>1, InTurn, Zenon DEF InFlight, k
      <4> QED BY <2>1, <2>4, <4>1, <4>2 DEF Out
    <3>2. ASSUME Verb(v) = "revoke" PROVE Leaving(v, k)'
      <4>1. k' = k
        BY <2>1, Zenon DEF k, KeyOf
      <4> QED BY <2>1, <2>4, <2>5, <2>6, <3>2, <4>1 DEF Leaving
    <3>3. Verb(v) = "revoke" => Leaving(v, KeyOf(v))'
      BY <3>2, Zenon DEF k
    <3> QED BY <2>1, <2>5, <2>6, <3>1, <3>3, RevokeKept
  <2>10. CreateInv'
    <3>1. ASSUME shelf.serial, NEW x \in KeyIds, Answered("create", x), Wanted(x)
          PROVE  /\ bootset' # Unset
                 /\ Survives => /\ x \in bootset'
                                /\ keys'[x] = "active"
                                /\ shelf.file => entries' # Unset /\ entries'[x] = "active"
      <4>1. In(x)
        BY <1>1, <3>1, Zenon DEF CreateInv
      <4>2. x = k => Verb(v) = "create"
        BY <2>1, <3>1, InTurn, Zenon DEF InFlight, k
      <4> QED BY <2>1, <2>4, <4>1, <4>2 DEF In
    <3>2. ASSUME Verb(v) = "create" PROVE Entering(v, k)'
      <4>1. k' = k
        BY <2>1, Zenon DEF k, KeyOf
      <4> QED BY <2>1, <2>4, <2>5, <2>6, <3>2, <4>1 DEF Entering
    <3>3. Verb(v) = "create" => Entering(v, KeyOf(v))'
      BY <3>2, Zenon DEF k
    <3> QED BY <2>1, <2>5, <2>6, <3>1, <3>3, CreateKept
  <2> QED BY <2>7, <2>8, <2>9, <2>10 DEF MCPInv
<1> QED BY <1>2, <1>3
\* The successful steps of renderMCPKeyArtifacts.
Renders(v, to) ==
    \/ /\ at[v] = "list" /\ to = "entries" /\ shelf.file
       /\ snap'[v] = keys /\ UNCHANGED <<entries, bootset>>
    \/ /\ at[v] = "entries" /\ to = "active"
       /\ entries' = snap[v] /\ UNCHANGED <<snap, bootset>>
    \/ /\ at[v] = "active" /\ to = "keyset"
       /\ snap'[v] = {k \in KeyIds : keys[k] = "active" /\ ~IsExpired(k)}
       /\ UNCHANGED <<entries, bootset>>
    \/ /\ at[v] = "keyset" /\ to = "answer"
       /\ bootset' = snap[v] /\ UNCHANGED <<snap, entries>>

\* The artifacts are rendered from the store: entries, then boot-set.
LEMMA RenderKeeps ==
    ASSUME MCPInv, NEW v \in Verbs, NEW to \in {"entries", "active", "keyset", "answer"},
           Moves(v, to), Renders(v, to), UNCHANGED <<keys, result>>, DOMAIN snap' = Verbs
    PROVE  MCPInv'
<1>1. MCPShape /\ LogInv /\ RevokeInv /\ CreateInv
  BY Zenon DEF MCPInv
<1>2. /\ VerbInv(v) /\ alive /\ at[v] \in InFlight /\ result[v] # "ok"
  BY <1>1, Zenon DEF LogInv, VerbInv, Moves, InFlight
<1>3. /\ at'[v] = to /\ UNCHANGED <<shelf, tick, alive, restarts, journal, keys, result>>
  BY <1>1, Zenon DEF Moves, MCPShape, MCPType
<1>4. /\ KeyOf(v) \in KeyIds /\ Verb(v) \in {"create", "revoke"}
      /\ Verb(v)' = Verb(v) /\ KeyOf(v)' = KeyOf(v)
      /\ \A m \in KeyMap : m # Unset
      /\ \A m \in SUBSET KeyIds : m # Unset
  BY <1>1, <1>3, ShelfFacts, ShelvesAssumption, Zenon DEF MCPShape, MCPType, Verb, KeyOf
<1>5. MCPShape'
  <2>1. at' \in [Verbs -> {"new", "audit", "store", "list", "entries", "active",
                                "keyset", "answer", "done"}]
    BY <1>1, Zenon DEF Moves, MCPShape, MCPType
  <2>2. (entries = Unset \/ entries \in KeyMap)' /\ (bootset = Unset \/ bootset \subseteq KeyIds)'
    BY <1>1, <1>2, Zenon DEF Renders, VerbInv, MCPShape, MCPType
  <2> QED BY <1>1, <1>3, <2>1, <2>2 DEF MCPShape, MCPType
<1>6. LogInv' /\ SerialInv'
  <2>1. Logged(keys)'
    BY <1>1, <1>3, Zenon DEF LogInv, Logged
  <2>2. (entries # Unset => Logged(entries))'
    BY <1>1, <1>2, <1>3, Zenon DEF LogInv, Logged, Renders, VerbInv
  <2>3. to = "entries" => (snap[v] \in KeyMap /\ Logged(snap[v]) /\ shelf.file)'
    BY <1>1, <1>3, <2>1, Zenon DEF Renders, Logged, MCPShape, MCPType
  <2>4. to = "keyset" => snap'[v] \in SUBSET KeyIds
    BY Zenon DEF Renders
  <2> QED BY <1>2, <1>3, <2>1, <2>2, <2>3, <2>4, LogKept
<1>7. RevokeInv'
  <2>1. ASSUME shelf.serial, NEW k \in KeyIds, Answered("revoke", k)
        PROVE  /\ keys'[k] # "active"
               /\ shelf.file /\ entries' # Unset => entries'[k] # "active"
               /\ bootset' # Unset => k \notin bootset'
               /\ to = "entries" => snap'[v][k] # "active"
               /\ to = "keyset" => k \notin snap'[v]
    <3>1. Out(k)
      BY <1>1, <2>1, Zenon DEF RevokeInv
    <3> QED BY <1>3, <3>1 DEF Renders, Out
  <2>2. ASSUME shelf.serial, Verb(v) = "revoke" PROVE Leaving(v, KeyOf(v))'
    <3>1. Leaving(v, KeyOf(v))
      BY <1>1, <2>2, Zenon DEF RevokeInv
    <3> QED BY <1>3, <1>4, <3>1 DEF Renders, Leaving
  <2> QED BY <1>3, <2>1, <2>2, RevokeKept
<1>8. CreateInv'
  <2>1. ASSUME shelf.serial, NEW k \in KeyIds, Answered("create", k), Wanted(k)
        PROVE  /\ bootset' # Unset
               /\ Survives => /\ k \in bootset'
                              /\ keys'[k] = "active"
                              /\ shelf.file => entries' # Unset /\ entries'[k] = "active"
                              /\ to = "entries" => snap'[v][k] = "active"
                              /\ to = "keyset" => k \in snap'[v]
    <3>1. In(k) /\ ~IsExpired(k)
      BY <1>1, <2>1, Zenon DEF CreateInv, Wanted
    <3>2. bootset' # Unset
      BY <1>2, <1>4, <3>1, Zenon DEF Renders, In, VerbInv
    <3>3. Survives => k \in bootset' /\ keys'[k] = "active"
      BY <1>2, <1>3, <3>1, Zenon DEF Renders, In
    <3>4. Survives /\ shelf.file => entries' # Unset /\ entries'[k] = "active"
      BY <1>2, <1>3, <1>4, <3>1, Zenon DEF Renders, In, VerbInv
    <3>5. Survives => /\ to = "entries" => snap'[v][k] = "active"
                      /\ to = "keyset" => k \in snap'[v]
      BY <1>2, <3>1, Zenon DEF Renders, In
    <3> QED BY <3>2, <3>3, <3>4, <3>5
  <2>2. ASSUME shelf.serial, Verb(v) = "create", Wanted(KeyOf(v)) PROVE Entering(v, KeyOf(v))'
    <3>1. Entering(v, KeyOf(v)) /\ ~IsExpired(KeyOf(v))
      BY <1>1, <2>2, Zenon DEF CreateInv, Wanted
    <3> QED BY <1>2, <1>3, <1>4, <3>1 DEF Renders, Entering, VerbInv
  <2> QED BY <1>3, <2>1, <2>2, CreateKept
<1> QED BY <1>5, <1>6, <1>7, <1>8 DEF MCPInv

\* List, WriteEntries, ListActive and WriteKeySet render, or refuse.
LEMMA ArtifactsKeep ==
    ASSUME MCPInv, NEW v \in Verbs,
           List(v) \/ WriteEntries(v) \/ ListActive(v) \/ WriteKeySet(v)
    PROVE  MCPInv'
<1>1. MCPShape /\ LogInv
  BY Zenon DEF MCPInv
<1>2. /\ DOMAIN at = Verbs /\ DOMAIN snap = Verbs /\ VerbInv(v)
      /\ ActiveRecords = {k \in KeyIds : keys[k] = "active" /\ ~IsExpired(k)}
  BY <1>1, StoreFacts, ShelvesAssumption DEF MCPShape, MCPType, LogInv
<1>3. CASE List(v) /\ ~Ends(v, "refused")
  <2>1. Moves(v, "entries") /\ Renders(v, "entries") /\ UNCHANGED <<keys, result>> /\ DOMAIN snap' = Verbs
    BY <1>2, <1>3, Zenon DEF List, Moves, Renders, Step, rest, InFlight, VerbInv
  <2> QED BY <2>1, RenderKeeps
<1>4. CASE List(v) /\ Ends(v, "refused")
  <2>1. UNCHANGED <<rest, keys, entries, bootset, journal, snap>> /\ at[v] \in InFlight \ {"audit"}
    <3>1. ~(Step(v, "entries") /\ UNCHANGED result)
      BY <1>1, <1>2, <1>4, Zenon DEF Ends, Step, MCPShape, MCPType
    <3> QED BY <1>4, <3>1 DEF List, InFlight
  <2> QED BY <1>4, <2>1, RefusedKeeps
<1>5. CASE WriteEntries(v) /\ ~Ends(v, "refused")
  <2>1. Moves(v, "active") /\ Renders(v, "active") /\ UNCHANGED <<keys, result>> /\ DOMAIN snap' = Verbs
    BY <1>2, <1>5, Zenon DEF WriteEntries, WriteAtomic, Moves, Renders, Step, rest,
       InFlight
  <2> QED BY <2>1, RenderKeeps
<1>6. CASE WriteEntries(v) /\ Ends(v, "refused")
  <2>1. UNCHANGED <<rest, keys, entries, bootset, journal, snap>> /\ at[v] \in InFlight \ {"audit"}
    <3>1. ~(Step(v, "active") /\ UNCHANGED result)
      BY <1>1, <1>2, <1>6, Zenon DEF Ends, Step, MCPShape, MCPType
    <3> QED BY <1>6, <3>1 DEF WriteEntries, WriteAtomic, InFlight
  <2> QED BY <1>6, <2>1, RefusedKeeps
<1>7. CASE ListActive(v) /\ ~Ends(v, "refused")
  <2>1. Moves(v, "keyset") /\ Renders(v, "keyset") /\ UNCHANGED <<keys, result>> /\ DOMAIN snap' = Verbs
    BY <1>2, <1>7, Zenon DEF ListActive, Moves, Renders, Step, rest, InFlight
  <2> QED BY <2>1, RenderKeeps
<1>8. CASE ListActive(v) /\ Ends(v, "refused")
  <2>1. UNCHANGED <<rest, keys, entries, bootset, journal, snap>> /\ at[v] \in InFlight \ {"audit"}
    <3>1. ~(Step(v, "keyset") /\ UNCHANGED result)
      BY <1>1, <1>2, <1>8, Zenon DEF Ends, Step, MCPShape, MCPType
    <3> QED BY <1>8, <3>1 DEF ListActive, InFlight
  <2> QED BY <1>8, <2>1, RefusedKeeps
<1>9. CASE WriteKeySet(v) /\ ~Ends(v, "refused")
  <2>1. Moves(v, "answer") /\ Renders(v, "answer") /\ UNCHANGED <<keys, result>> /\ DOMAIN snap' = Verbs
    BY <1>2, <1>9, Zenon DEF WriteKeySet, WriteAtomic, Moves, Renders, Step, rest,
       InFlight
  <2> QED BY <2>1, RenderKeeps
<1>10. CASE WriteKeySet(v) /\ Ends(v, "refused")
  <2>1. UNCHANGED <<rest, keys, entries, bootset, journal, snap>> /\ at[v] \in InFlight \ {"audit"}
    <3>1. ~(Step(v, "answer") /\ UNCHANGED result)
      BY <1>1, <1>2, <1>10, Zenon DEF Ends, Step, MCPShape, MCPType
    <3> QED BY <1>10, <3>1 DEF WriteKeySet, WriteAtomic, InFlight
  <2> QED BY <1>10, <2>1, RefusedKeeps
<1> QED BY <1>3, <1>4, <1>5, <1>6, <1>7, <1>8, <1>9, <1>10
\* The answer is given when both artifacts are written.
LEMMA AnswerKeeps == ASSUME MCPInv, NEW v \in Verbs, Answer(v) PROVE MCPInv'
<1>1. MCPShape /\ LogInv /\ RevokeInv /\ CreateInv
  BY Zenon DEF MCPInv
<1>2. /\ alive /\ at[v] = "answer" /\ at' = [at EXCEPT ![v] = "done"]
      /\ result' = [result EXCEPT ![v] = "ok"]
      /\ UNCHANGED <<shelf, tick, alive, restarts, keys, entries, bootset, journal, snap>>
  BY Zenon DEF Answer, Ends, Step, rest
<1>3. /\ Moves(v, "done") /\ at'[v] = "done"
      /\ \A u \in Verbs \ {v} : at'[u] = at[u] /\ result'[u] = result[u]
      /\ \A u \in Verbs : Verb(u)' = Verb(u) /\ KeyOf(u)' = KeyOf(u) /\ KeyOf(u) \in KeyIds
  BY <1>1, <1>2, ShelfFacts, Zenon DEF Moves, MCPShape, MCPType, InFlight, Verb, KeyOf
<1>4. MCPShape'
  BY <1>1, <1>2, Zenon DEF MCPShape, MCPType
<1>5. LogInv' /\ SerialInv'
  BY <1>1, <1>2, <1>3, LogKept, Zenon DEF LogInv, Logged
<1>6. shelf.serial => \A u \in Verbs \ {v} : at[u] \in {"new", "done"}
  BY <1>2, InTurn, Zenon DEF InFlight
<1>7. RevokeInv'
  <2> SUFFICES ASSUME shelf.serial
               PROVE  /\ \A k \in KeyIds : Answered("revoke", k)' => Out(k)'
                      /\ \A u \in Verbs : Leaving(u, KeyOf(u))'
    BY <1>2, Zenon DEF RevokeInv
  <2>1. \A u \in Verbs : at'[u] \in {"new", "done"}
    BY <1>3, <1>6, Zenon
  <2>2. \A u \in Verbs : Leaving(u, KeyOf(u))'
    BY <2>1, Zenon DEF Leaving
  <2>3. ASSUME NEW k \in KeyIds, Answered("revoke", k)' PROVE Out(k)'
    <3>1. Answered("revoke", k) \/ (Verb(v) = "revoke" /\ KeyOf(v) = k)
      BY <1>3, <2>3, Zenon DEF Answered
    <3>2. CASE Answered("revoke", k)
      BY <1>1, <1>2, <2>1, <3>2, Zenon DEF RevokeInv, Out
    <3>3. CASE Verb(v) = "revoke" /\ KeyOf(v) = k
      <4>1. Leaving(v, k)
        BY <1>1, <3>3, Zenon DEF RevokeInv
      <4> QED BY <1>2, <2>1, <4>1 DEF Leaving, Out
    <3> QED BY <3>1, <3>2, <3>3
  <2> QED BY <2>2, <2>3
<1>8. CreateInv'
  <2> SUFFICES ASSUME shelf.serial
               PROVE  /\ \A k \in KeyIds : Answered("create", k)' /\ Wanted(k)' => In(k)'
                      /\ \A u \in Verbs : Entering(u, KeyOf(u))'
    BY <1>2, Zenon DEF CreateInv
  <2>1. \A u \in Verbs : at'[u] \in {"new", "done"}
    BY <1>3, <1>6, Zenon
  <2>2. \A u \in Verbs : Entering(u, KeyOf(u))'
    BY <2>1, Zenon DEF Entering
  <2>3. \A k \in KeyIds : Wanted(k)' => Wanted(k)
    BY <1>1, <1>2, <1>3, Monotone, Zenon
  <2>4. ASSUME NEW k \in KeyIds, Answered("create", k)', Wanted(k) PROVE In(k)'
    <3>1. Answered("create", k) \/ (Verb(v) = "create" /\ KeyOf(v) = k)
      BY <1>3, <2>4, Zenon DEF Answered
    <3>2. CASE Answered("create", k)
      BY <1>1, <1>2, <2>1, <2>4, <3>2, Zenon DEF CreateInv, In, Survives
    <3>3. CASE Verb(v) = "create" /\ KeyOf(v) = k
      <4>1. Entering(v, k)
        BY <1>1, <2>4, <3>3, Zenon DEF CreateInv
      <4> QED BY <1>2, <2>1, <4>1 DEF Entering, In, Survives
    <3> QED BY <3>1, <3>2, <3>3
  <2> QED BY <2>2, <2>3, <2>4
<1> QED BY <1>4, <1>5, <1>7, <1>8 DEF MCPInv

\* A crash loses the in-memory store and what was in flight; the next boot
\* loads the entries over the store.
LEMMA RestartKeeps == ASSUME MCPInv, Die \/ BuildMCPKeyEngine PROVE MCPInv'
<1>1. MCPShape /\ LogInv /\ SerialInv /\ RevokeInv /\ CreateInv
  BY Zenon DEF MCPInv
<1>2. UNCHANGED <<shelf, tick, entries, bootset, journal, snap>>
  BY Zenon DEF Die, BuildMCPKeyEngine
<1>3. /\ shelf \in Shelves /\ keys \in KeyMap /\ tick \in Nat
      /\ entries # Unset => entries \in KeyMap
      /\ shelf.backend \in {"memory", "postgres"} /\ shelf.file \in BOOLEAN
  BY <1>1, ShelfFacts, ShelvesAssumption DEF MCPShape, MCPType
<1>4. /\ at' \in [Verbs -> {"new", "done"}]
      /\ \A u \in Verbs : at'[u] = "new" <=> at[u] = "new"
      /\ \A u \in Verbs : at[u] = "done" => at'[u] = "done"
      /\ result' \in [Verbs -> {"none", "ok", "denied", "refused", "invalid", "lost"}]
      /\ \A u \in Verbs : result'[u] = "ok" => result[u] = "ok"
  <2>1. CASE Die
    BY <1>1, <2>1, Zenon DEF Die, MCPShape, MCPType
  <2>2. CASE BuildMCPKeyEngine
    <3>1. ~alive /\ UNCHANGED <<at, result>>
      BY <2>2, Zenon DEF BuildMCPKeyEngine
    <3>2. \A u \in Verbs : at[u] \in {"new", "done"}
      BY <1>1, <3>1, Zenon DEF LogInv, VerbInv, MCPShape, MCPType, InFlight
    <3> QED BY <1>1, <3>1, <3>2 DEF MCPShape, MCPType
  <2> QED BY <2>1, <2>2
<1>5. /\ keys' \in KeyMap /\ alive' \in BOOLEAN /\ restarts' \in 0 .. 1
      /\ \A k \in KeyIds :
           \/ keys'[k] = "absent" /\ ~alive' /\ shelf.backend = "memory"
           \/ keys'[k] = keys[k] /\ (shelf.file /\ entries # Unset /\ alive' => entries[k] = "absent")
           \/ shelf.file /\ entries # Unset /\ keys'[k] = entries[k]
           \/ keys'[k] = keys[k] /\ ~alive'
  <2>1. CASE Die
    <3>1. /\ NoKeys \in KeyMap /\ \A k \in KeyIds : NoKeys[k] = "absent"
      BY Zenon DEF NoKeys, KeyMap, KeyStates
    <3>2. /\ alive' = FALSE /\ restarts > 0 /\ restarts' = restarts - 1
          /\ keys' = IF shelf.backend = "memory" THEN NoKeys ELSE keys
      BY <2>1, Zenon DEF Die
    <3>3. restarts' \in 0 .. 1
      BY <1>1, <3>2 DEF MCPShape, MCPType
    <3> QED BY <1>3, <3>1, <3>2, <3>3
  <2>2. CASE BuildMCPKeyEngine
    <3>1. CASE ~alive' \/ UNCHANGED <<alive, keys>>
      BY <1>1, <1>3, <2>2, <3>1 DEF BuildMCPKeyEngine, MCPShape, MCPType
    <3>2. CASE alive' /\ ~UNCHANGED <<alive, keys>>
      <4>1. /\ alive' = TRUE /\ restarts' = restarts
            /\ keys' = [k \in KeyIds |-> IF LoadEntriesFile[k] = "absent" THEN keys[k]
                                         ELSE Put(keys, k, LoadEntriesFile[k])[k]]
        BY <2>2, <3>2, Zenon DEF BuildMCPKeyEngine
      <4>2. LoadEntriesFile \in KeyMap
        BY <1>3, Zenon DEF LoadEntriesFile, NoKeys, KeyMap, KeyStates
      <4>3. \A k \in KeyIds : LoadEntriesFile[k] # "absent"
                                => Put(keys, k, LoadEntriesFile[k])[k] = LoadEntriesFile[k]
        <5> SUFFICES ASSUME NEW k \in KeyIds, LoadEntriesFile[k] # "absent"
                     PROVE  Put(keys, k, LoadEntriesFile[k])[k] = LoadEntriesFile[k]
          BY Zenon
        <5>1. LoadEntriesFile[k] \in {"active", "revoked"}
          BY <4>2, Zenon DEF KeyMap, KeyStates
        <5>2. Put(keys, k, LoadEntriesFile[k]) = [keys EXCEPT ![k] = LoadEntriesFile[k]]
          BY <1>3, <5>1, StoreFacts
        <5> QED BY <1>3, <5>2 DEF KeyMap
      <4>4. \A k \in KeyIds : keys'[k] = IF LoadEntriesFile[k] = "absent" THEN keys[k]
                                         ELSE LoadEntriesFile[k]
        BY <4>1, <4>3, Zenon
      <4>5. keys' \in KeyMap
        <5>1. \A k \in KeyIds : keys'[k] \in KeyStates
          BY <1>3, <4>2, <4>4, Zenon DEF KeyMap
        <5> QED BY <4>1, <5>1 DEF KeyMap
      <4>6. \A k \in KeyIds : /\ shelf.file /\ entries # Unset => LoadEntriesFile[k] = entries[k]
                              /\ ~(shelf.file /\ entries # Unset) => LoadEntriesFile[k] = "absent"
        BY Zenon DEF LoadEntriesFile, NoKeys
      <4> QED BY <1>1, <1>3, <4>1, <4>4, <4>5, <4>6 DEF MCPShape, MCPType
    <3> QED BY <3>1, <3>2
  <2> QED BY <2>1, <2>2
<1>6. MCPShape'
  BY <1>1, <1>2, <1>4, <1>5, Zenon DEF MCPShape, MCPType
<1>7. \A u \in Verbs : Verb(u)' = Verb(u) /\ KeyOf(u)' = KeyOf(u)
  BY <1>2, Zenon DEF Verb, KeyOf
<1>8. LogInv'
  <2>1. Logged(keys)'
    BY <1>1, <1>2, <1>5, Zenon DEF LogInv, Logged
  <2>2. (entries # Unset => Logged(entries))'
    BY <1>1, <1>2, Zenon DEF LogInv, Logged
  <2>3. \A u \in Verbs : VerbInv(u)'
    BY <1>1, <1>2, <1>4, <1>7 DEF LogInv, VerbInv, InFlight
  <2> QED BY <2>1, <2>2, <2>3 DEF LogInv
<1>9. SerialInv'
  BY <1>1, <1>2, <1>4, <1>7 DEF SerialInv, InFlight
<1>10. \A k \in KeyIds : /\ Wanted(k)' => Wanted(k)
                         /\ Answered("revoke", k)' => Answered("revoke", k)
                         /\ Answered("create", k)' => Answered("create", k)
  BY <1>1, <1>2, <1>4, Monotone, NoNewAnswer, Zenon
<1>11. RevokeInv'
  <2>1. \A u \in Verbs : Leaving(u, KeyOf(u))'
    BY <1>4, Zenon DEF Leaving
  <2>2. ASSUME NEW k \in KeyIds, Out(k) PROVE Out(k)'
    BY <1>2, <1>4, <1>5, <2>2, Zenon DEF Out
  <2> QED BY <1>1, <1>2, <1>10, <2>1, <2>2 DEF RevokeInv
<1>12. CreateInv'
  <2>1. \A u \in Verbs : Entering(u, KeyOf(u))'
    BY <1>4, Zenon DEF Entering
  <2>2. ASSUME NEW k \in KeyIds, In(k) PROVE In(k)'
    <3>1. Survives /\ (alive' \/ shelf.backend = "postgres") => keys'[k] = "active"
      BY <1>3, <1>5, <2>2 DEF In, Survives
    <3> QED BY <1>2, <1>4, <2>2, <3>1 DEF In, Survives
  <2> QED BY <1>1, <1>2, <1>10, <2>1, <2>2 DEF CreateInv
<1> QED BY <1>6, <1>8, <1>9, <1>11, <1>12 DEF MCPInv

\* The clock only takes keys out of what is wanted.
LEMMA PassesKeeps ==
    ASSUME MCPInv, tick' \in {tick, tick + 1} \cap (0 .. LastTick),
           UNCHANGED <<shelf, keys, entries, bootset, journal, at, snap, result, alive, restarts>>
    PROVE  MCPInv'
<1>1. MCPShape /\ LogInv /\ SerialInv /\ RevokeInv /\ CreateInv
  BY Zenon DEF MCPInv
<1>2. MCPShape'
  BY <1>1, Zenon DEF MCPShape, MCPType
<1>3. \A u \in Verbs : Verb(u)' = Verb(u) /\ KeyOf(u)' = KeyOf(u)
  BY Zenon DEF Verb, KeyOf
<1>4. LogInv'
  BY <1>1, <1>3, Zenon DEF LogInv, VerbInv, Logged
<1>5. SerialInv'
  BY <1>1, <1>3, Zenon DEF SerialInv
<1>6. \A k \in KeyIds : /\ Wanted(k)' => Wanted(k)
                        /\ Answered("revoke", k)' => Answered("revoke", k)
                        /\ Answered("create", k)' => Answered("create", k)
  BY <1>1, Monotone, NoNewAnswer, Zenon
<1>7. RevokeInv'
  BY <1>1, <1>3, <1>6, Zenon DEF RevokeInv, Out, Leaving
<1>8. CreateInv'
  <2>1. \A k \in KeyIds : In(k) => In(k)'
    BY Zenon DEF In, Survives
  <2>2. \A u \in Verbs, k \in KeyIds : Entering(u, k) => Entering(u, k)'
    BY Zenon DEF Entering
  <2>3. \A u \in Verbs : KeyOf(u) \in KeyIds
    BY <1>1, ShelfFacts, Zenon DEF MCPShape, MCPType
  <2> QED BY <1>1, <1>3, <1>6, <2>1, <2>2, <2>3 DEF CreateInv
<1> QED BY <1>2, <1>4, <1>5, <1>7, <1>8 DEF MCPInv

\* Every step keeps the invariant, which holds of a fresh deployment.
LEMMA MCPInvStep == ASSUME MCPInv, [MCPNext]_mcpVars PROVE MCPInv'
<1>1. tick \in 0 .. LastTick /\ LastTick \in Nat
  BY ShelvesAssumption, Zenon DEF MCPInv, MCPShape, MCPType
<1>2. CASE Passes \/ UNCHANGED mcpVars
  BY <1>1, <1>2, PassesKeeps DEF Passes, mcpVars
<1> QED BY <1>2, BeginKeeps, MutateKeeps, ArtifactsKeep, AnswerKeeps, RestartKeeps DEF MCPNext

\* The engine starts from a store and files that agree (NewEngine).
LEMMA MCPInitInv == MCPInit => MCPInv
<1> SUFFICES ASSUME MCPInit PROVE MCPInv
  BY Zenon
<1>1. /\ shelf \in Shelves /\ shelf.restarts \in 0 .. 1 /\ LastTick \in Nat
  BY ShelfFacts, ShelvesAssumption, Zenon DEF MCPInit
<1>2. MCPShape
  BY <1>1 DEF MCPInit, MCPShape, MCPType, NoKeys, KeyMap, KeyStates
<1>3. \A v \in Verbs : at[v] = "new" /\ result[v] = "none"
  BY Zenon DEF MCPInit
<1>4. LogInv
  BY <1>3, Zenon DEF MCPInit, LogInv, Logged, VerbInv, NoKeys, InFlight
<1>5. SerialInv /\ RevokeInv /\ CreateInv
  BY <1>3, Zenon DEF SerialInv, RevokeInv, CreateInv, Answered, Leaving, Entering,
     InFlight
<1> QED BY <1>2, <1>4, <1>5 DEF MCPInv

\* Create, Revoke and the boot that loads the entries file keep their answers:
\* for every number of keys and operations, on either shelf and after every
\* failure or restart, a revoked key stays out and a created one in while
\* operators act in turn, and no effect lacks its audit record, even when they
\* do not.
THEOREM AnswersAlwaysHold == MCPSpec => []SerialAnswersHold
<1>1. MCPInv /\ [MCPNext]_mcpVars => MCPInv'
  BY MCPInvStep, Zenon
<1>2. ASSUME MCPInv PROVE SerialAnswersHold
  <2>1. SerialRevokeSticks
    BY <1>2, Zenon DEF MCPInv, RevokeInv, SerialRevokeSticks, RevokeSticks, Out
  <2>2. SerialCreateKept
    BY <1>2, Zenon DEF MCPInv, CreateInv, SerialCreateKept, In, Wanted, Survives
  <2>3. EffectAudited
    BY <1>2, Zenon DEF MCPInv, LogInv, Logged, EffectAudited
  <2> QED BY <2>1, <2>2, <2>3 DEF SerialAnswersHold
<1> QED BY MCPInitInv, <1>1, <1>2, PTL DEF MCPSpec

-----------------------------------------------------------------------------
(* The storage credential. *)

SignSpec == SignInit /\ [][SignNext]_signVars

\* Keys are numbered from one, so that no token names the absent previous key;
\* a token in the history was signed by a loaded key and has not expired.
SignShape ==
    /\ up => Loadable(bench)
    /\ hour \in Nat
    /\ active \in [kid : Nat \ {0}, born : Nat]
    /\ previous \in [kid : Nat, born : Nat]
    /\ DOMAIN bind = Holders
    /\ tokens # {} => up
    /\ \A t \in tokens : /\ t.who \in Holders /\ t.kid \in Nat \ {0} /\ t.at \in Nat
                         /\ hour < t.at + TokenTTL

\* A token that is not revoked is the one recorded for its session, and the
\* session was not torn down since.
Recorded ==
    ~bench.restarts => \A t \in tokens \ dead : t = bind[t.who] /\ t.who \notin gone

SignInv == SignShape /\ Recorded

\* Loading the key and starting with an empty Revoker establish the invariant.
LEMMA SignInitInv == SignInit => SignInv
  BY SigningAssumption DEF SignInit, SignInv, SignShape, Recorded, KidFor, NoKey

\* Minting, revocation, rotation, restart and the clock keep it.
LEMMA SignInvStep == ASSUME SignInv, [SignNext]_signVars PROVE SignInv'
<1>1. CASE UNCHANGED signVars
  BY <1>1, Zenon DEF SignInv, SignShape, Recorded, signVars, Loadable
<1>2. ASSUME NEW h \in Holders, MintStorageJWT(h) PROVE SignInv'
  <2> DEFINE t == [who |-> h, kid |-> active.kid, at |-> hour,
                   n |-> Cardinality({u \in tokens : u.who = h /\ u.at = hour})]
  <2>1. /\ up /\ (bind[h] = NoToken \/ h \in gone)
        /\ tokens' = tokens \cup {t} /\ bind' = [bind EXCEPT ![h] = t] /\ gone' = gone \ {h}
        /\ UNCHANGED <<bench, hour, active, previous, dead, doc, up>>
    BY <1>2, Zenon DEF MintStorageJWT
  <2>2. t.who = h /\ t.kid = active.kid /\ t.at = hour
    BY Zenon
  <2> HIDE DEF t
  <2>3. SignShape'
    <3>1. /\ up => Loadable(bench) /\ hour \in Nat /\ DOMAIN bind = Holders
          /\ active \in [kid : Nat \ {0}, born : Nat] /\ previous \in [kid : Nat, born : Nat]
          /\ \A u \in tokens : /\ u.who \in Holders /\ u.kid \in Nat \ {0} /\ u.at \in Nat
                               /\ hour < u.at + TokenTTL
      BY Zenon DEF SignInv, SignShape
    <3>2. (up => Loadable(bench))'
      BY <2>1, <3>1, Zenon DEF Loadable
    <3>3. \A u \in tokens' : /\ u.who \in Holders /\ u.kid \in Nat \ {0} /\ u.at \in Nat
                             /\ hour < u.at + TokenTTL
      BY <2>1, <2>2, <3>1, SigningAssumption
    <3> QED BY <2>1, <3>1, <3>2, <3>3 DEF SignShape
  <2>4. Recorded'
    <3> SUFFICES ASSUME ~bench.restarts, NEW u \in tokens' \ dead
                 PROVE  u = bind'[u.who] /\ u.who \notin gone'
      BY <2>1, Zenon DEF Recorded
    <3>1. CASE u = t
      BY <2>1, <2>2, <3>1, Zenon DEF SignInv, SignShape
    <3>2. CASE u \in tokens
      <4>1. u = bind[u.who] /\ u.who \notin gone /\ u.kid # 0 /\ u.who \in Holders
        BY <3>2, Zenon DEF SignInv, SignShape, Recorded
      <4>2. u.who # h
        BY <2>1, <4>1 DEF NoToken
      <4> QED BY <2>1, <4>1, <4>2 DEF SignInv, SignShape
    <3> QED BY <2>1, <3>1, <3>2
  <2> QED BY <2>3, <2>4 DEF SignInv
<1>3. ASSUME NEW h \in Holders, Revoke(h) PROVE SignInv'
  <2>1. SignShape'
    BY <1>3, Zenon DEF Revoke, SignInv, SignShape, Loadable
  <2>2. Recorded'
    BY <1>3, Zenon DEF Revoke, SignInv, SignShape, Recorded
  <2> QED BY <2>1, <2>2 DEF SignInv
<1>4. CASE Rotate
  <2>1. SignShape'
    <3>1. [kid |-> active.kid + 1, born |-> hour] \in [kid : Nat \ {0}, born : Nat]
      BY DEF SignInv, SignShape
    <3>2. previous' \in [kid : Nat, born : Nat]
      BY <1>4, Zenon DEF Rotate, SignInv, SignShape
    <3>3. (up => Loadable(bench))'
      BY <1>4, Zenon DEF Rotate, SignInv, SignShape, Loadable
    <3> QED BY <1>4, <3>1, <3>2, <3>3 DEF Rotate, SignInv, SignShape
  <2>2. Recorded'
    BY <1>4, Zenon DEF Rotate, SignInv, Recorded
  <2> QED BY <2>1, <2>2 DEF SignInv
<1>5. CASE Restart
  <2>1. SignShape'
    <3>1. /\ [kid |-> KidFor, born |-> hour] \in [kid : Nat \ {0}, born : Nat]
          /\ NoKey \in [kid : Nat, born : Nat]
      BY DEF SignInv, SignShape, KidFor, NoKey
    <3>2. (up => Loadable(bench))'
      BY <1>5, Zenon DEF Restart, SignInv, SignShape, Loadable
    <3>3. DOMAIN bind' = Holders
      BY <1>5, Zenon DEF Restart
    <3> QED BY <1>5, <3>1, <3>2, <3>3 DEF Restart, SignInv, SignShape
  <2>2. Recorded'
    BY <1>5, Zenon DEF Restart, Recorded
  <2> QED BY <2>1, <2>2 DEF SignInv
<1>6. CASE HourPasses
  <2>1. SignShape'
    BY <1>6 DEF HourPasses, SignInv, SignShape, Loadable
  <2>2. Recorded'
    BY <1>6, Zenon DEF HourPasses, SignInv, Recorded
  <2> QED BY <2>1, <2>2 DEF SignInv
<1> QED BY <1>1, <1>2, <1>3, <1>4, <1>5, <1>6 DEF SignNext

\* Verify against the published keys judges a token by its session: for every
\* lifetime, overlap and schedule of rotations, none of a session torn down in
\* this life of the daemon verifies, and a token whose lifetime fits its key's
\* overlap does until it expires or is revoked.
THEOREM TokensAlwaysJudged == SignSpec => []TokensJudged
<1>1. SignInv /\ [SignNext]_signVars => SignInv'
  BY SignInvStep, Zenon
<1>2. ASSUME SignInv PROVE RevokedRefused
  BY <1>2, Zenon DEF SignInv, Recorded, RevokedRefused, Live, Verifies, Verify
<1>3. ASSUME SignInv PROVE EarlyCutover
  <2> SUFFICES ASSUME NEW t \in tokens \ dead, NEW k \in {active, previous},
                      t.kid = k.kid, t.at + TokenTTL <= k.born + Overlap + 1
               PROVE  Verifies(t)
    BY Zenon DEF EarlyCutover
  <2>1. /\ up /\ Loadable(bench) /\ hour \in Nat /\ hour < t.at + TokenTTL
        /\ t.kid \in Nat \ {0} /\ t.at \in Nat /\ k.born \in Nat
    BY <1>3, Zenon DEF SignInv, SignShape
  <2>2. t.kid \in PublicKeys
    BY <2>1, SigningAssumption DEF PublicKeys, NoKey
  <2>3. /\ bench.alg \in {"eddsa", "es256"} /\ bench.key = bench.alg
    BY <2>1, Zenon DEF Loadable, ParsePKCS8Signer
  <2>4. PublicKeyFromJWK(ToJWK(bench.alg)) = bench.key
    BY <2>3, Zenon DEF PublicKeyFromJWK, ToJWK
  <2> QED BY <2>1, <2>2, <2>3, <2>4 DEF Verifies, Verify, Publish
<1> QED BY SignInitInv, <1>1, <1>2, <1>3, PTL DEF SignSpec, TokensJudged

=============================================================================
