----------------------------- MODULE AuditTrail -----------------------------
(***************************************************************************)
(* The audit trail of the daemon (internal/audit/ocsf, audit/publish,      *)
(* audit/retention, cmd/ocu-controld): a chain of records appended to a    *)
(* local file and published to a central log before the action they record *)
(* is allowed, verified and resumed at every boot, and sealed into a cold  *)
(* segment when the file has outlived its window.                          *)
(*                                                                         *)
(* The sink holds its lock through a whole Emit, so one record is in the   *)
(* making at a time.  Every Emit records a new event, so the hash of a     *)
(* record (over its prior hash, its sequence and its event) is abstracted  *)
(* to the number of the event.                                             *)
(***************************************************************************)
EXTENDS Integers, Sequences

CONSTANTS MaxEvents,  \* bound on the events that are emitted
          Faults      \* what may fail: "write", "publish", "copy"

ASSUME AuditAssumption == /\ MaxEvents \in Nat
                          /\ Faults \subseteq {"write", "publish", "copy"}

VARIABLES hot,      \* the lines of the audit file
          open,     \* its last line lacks the newline
          cold,     \* the sealed segments, by the sequence range in their name
          coldDir,  \* a cold directory is configured
          fanIn,    \* a central ingest is configured
          central,  \* what the central ingest has committed
          phase,    \* the daemon: down, sealed (its boot has a cold copy) or up
          sink,     \* ChainSink: the last sequence and the prior tip
          pending,  \* the record written locally and not yet published
          events,   \* events emitted so far
          acked     \* history: records whose Emit returned nil

file == <<hot, open>>
config == <<coldDir, fanIn>>
vars == <<file, cold, config, central, phase, sink, pending, events, acked>>

Genesis == 0
Torn == [seq |-> 0, prior |-> Genesis, hash |-> Genesis]  \* an unreadable line
NoRecord == Torn
NoTip == [seq |-> 0, hash |-> Genesis]

Hashes(f) == {f[i].hash : i \in DOMAIN f} \ {Genesis}

-----------------------------------------------------------------------------
(* Reading a file. *)

\* ReadChainFile fails on the first line that is not a record.
Readable(f) == \A i \in DOMAIN f : f[i] # Torn

\* ValidateChain: from sequence 1 and the genesis hash, one by one, each line
\* linked to the line before.
ValidateChain(f) ==
    /\ Readable(f)
    /\ \A i \in DOMAIN f :
         /\ f[i].seq = IF i = 1 THEN 1 ELSE f[i - 1].seq + 1
         /\ f[i].prior = IF i = 1 THEN Genesis ELSE f[i - 1].hash

\* ReadTip on a file that has been validated.
ReadTip(f) == IF f = <<>> THEN NoTip
              ELSE [seq |-> f[Len(f)].seq, hash |-> f[Len(f)].hash]

-----------------------------------------------------------------------------

Init == /\ hot = <<>> /\ open = FALSE
        /\ cold = <<>>
        /\ coldDir \in BOOLEAN /\ fanIn \in BOOLEAN
        /\ central = <<>>
        /\ phase = "down"
        /\ sink = NoTip
        /\ pending = NoRecord
        /\ events = 0
        /\ acked = {}

-----------------------------------------------------------------------------
(* Boot: rotate the file if it is due, verify what is there, resume.       *)

\* The name of the segment that seals the file.
SegmentName == <<hot[1].seq, hot[Len(hot)].seq>>

IsPrefixOfHot(f) == Len(f) <= Len(hot) /\ \A i \in DOMAIN f : f[i] = hot[i]

\* Mutant of Replaceable: whatever lies under the name is removed.
ReplaceableAlways(n) == n \in {n}

\* inspectExistingSegment: no file, or a partial copy of ours to remove first.
Replaceable(n) == n \in DOMAIN cold => /\ Readable(cold[n])
                                       /\ Len(cold[n]) < Len(hot)
                                       /\ IsPrefixOfHot(cold[n])

\* inspectExistingSegment: the interrupted run had sealed it.
Finished(n) == n \in DOMAIN cold /\ cold[n] = hot

\* A copy that is cut anywhere, in a line or between two.
Cuts == LET heads == {SubSeq(hot, 1, i) : i \in 0..(Len(hot) - 1)}
        IN heads \cup {Append(h, Torn) : h \in heads}

PutSegment(n, f) == cold' = [m \in DOMAIN cold \cup {n} |-> IF m = n THEN f ELSE cold[m]]

DropSegment(n) == cold' = [m \in DOMAIN cold \ {n} |-> cold[m]]

\* Mutant of SealSegment: the file is truncated before the copy is complete.
SealTruncating ==
    /\ phase = "down" /\ coldDir
    /\ hot # <<>> /\ ValidateChain(hot)
    /\ Replaceable(SegmentName)
    /\ \/ PutSegment(SegmentName, hot) /\ phase' = "sealed" /\ UNCHANGED hot
       \/ \E f \in Cuts : PutSegment(SegmentName, f) /\ phase' = "down" /\ hot' = <<>>
    /\ UNCHANGED <<open, config, central, sink, pending, events, acked>>

\* RotateSegment up to the sealed, verified and synced cold copy.  A copy that
\* fails is left as it is, one that does not read back is removed, and either
\* ends the boot; so does any other file of the name, an unreadable one too.
SealSegment ==
    /\ phase = "down" /\ coldDir
    /\ hot # <<>> /\ ValidateChain(hot)
    /\ \/ Finished(SegmentName) /\ phase' = "sealed" /\ UNCHANGED cold
       \/ /\ Replaceable(SegmentName)
          /\ \/ PutSegment(SegmentName, hot) /\ phase' = "sealed"
             \/ /\ "copy" \in Faults
                /\ \/ \E f \in Cuts : PutSegment(SegmentName, f)
                   \/ DropSegment(SegmentName)
                /\ UNCHANGED phase
    /\ UNCHANGED <<file, config, central, sink, pending, events, acked>>

\* The end of RotateSegment, then the boot on the empty file: the sink resumes
\* from the sealed segment (ResumeTipAfterRotation).
TruncateHot == /\ phase = "sealed"
               /\ hot' = <<>> /\ open' = FALSE
               /\ sink' = ReadTip(hot)
               /\ phase' = "up"
               /\ UNCHANGED <<cold, config, central, pending, events, acked>>

\* Mutant of BootResume: every boot starts a chain of its own.
BootGenesis == /\ phase = "down"
               /\ ValidateChain(hot)
               /\ sink' = NoTip
               /\ phase' = "up"
               /\ UNCHANGED <<file, cold, config, central, pending, events, acked>>

\* A boot without a rotation: the file is verified as a whole, then resumed.
\* A file that fails the chain aborts the boot; the chain-break marker is
\* behind that check and never written.
BootResume == /\ phase = "down"
              /\ ValidateChain(hot)
              /\ sink' = ReadTip(hot)
              /\ phase' = "up"
              /\ UNCHANGED <<file, cold, config, central, pending, events, acked>>

-----------------------------------------------------------------------------
(* Emit. *)

NextRecord == [seq |-> sink.seq + 1, prior |-> sink.hash, hash |-> events + 1]

\* Bytes appended after an unterminated line end up in that line.
AppendLine(line) == hot' = IF open THEN [hot EXCEPT ![Len(hot)] = Torn]
                                   ELSE Append(hot, line)

Emitting == phase = "up" /\ pending = NoRecord /\ events < MaxEvents

\* FileSink.Write: one line, synced.
WriteLocal == /\ Emitting
              /\ AppendLine(NextRecord)
              /\ open' = FALSE
              /\ pending' = NextRecord
              /\ events' = events + 1
              /\ UNCHANGED <<cold, config, central, phase, sink, acked>>

\* A write that returns an error: nothing, a part of the line, the line
\* without its newline, or a whole line whose sync failed.  The action is
\* denied and the sink does not advance.
WriteLocalFails ==
    /\ Emitting /\ "write" \in Faults
    /\ \/ UNCHANGED file
       \/ AppendLine(Torn) /\ open' = TRUE
       \/ AppendLine(NextRecord) /\ open' \in BOOLEAN
    /\ events' = events + 1
    /\ UNCHANGED <<cold, config, central, phase, sink, pending, acked>>

\* The central ingest commits a sequence above all it has, takes the highest
\* for a duplicate, and answers 409 to a lower one.
Regressed == \E i \in DOMAIN central : central[i].seq > pending.seq
Ingest == central' = IF \A i \in DOMAIN central : central[i].seq < pending.seq
                     THEN Append(central, pending) ELSE central

\* Publish is answered 200, or there is no central leg: the sink advances and
\* Emit returns nil.
CommitRecord == /\ pending # NoRecord
                /\ IF fanIn THEN ~Regressed /\ Ingest ELSE UNCHANGED central
                /\ sink' = [seq |-> pending.seq, hash |-> pending.hash]
                /\ acked' = acked \cup {pending}
                /\ pending' = NoRecord
                /\ UNCHANGED <<file, cold, config, phase, events>>

\* Mutant of PublishFails: the local line is taken back.
PublishFailsUnwrites == /\ pending # NoRecord /\ fanIn
                        /\ hot' = SubSeq(hot, 1, Len(hot) - 1)
                        /\ Ingest \/ UNCHANGED central
                        /\ pending' = NoRecord
                        /\ UNCHANGED <<open, cold, config, phase, sink, events, acked>>

\* Publish returns an error, on a 409, any other status or none at all, and
\* whether or not the ingest has committed: the action is denied, the line
\* stays and the sink does not advance.
PublishFails == /\ pending # NoRecord /\ fanIn
                /\ "publish" \in Faults \/ Regressed
                /\ Ingest \/ UNCHANGED central
                /\ pending' = NoRecord
                /\ UNCHANGED <<file, cold, config, phase, sink, events, acked>>

\* The daemon stops at any point; the file stays as the writes left it.
Stop == /\ phase # "down"
        /\ phase' = "down"
        /\ sink' = NoTip
        /\ pending' = NoRecord
        /\ UNCHANGED <<file, cold, config, central, events, acked>>

Next == \/ SealSegment \/ TruncateHot \/ BootResume
        \/ WriteLocal \/ WriteLocalFails \/ CommitRecord \/ PublishFails
        \/ Stop

Spec == Init /\ [][Next]_vars

-----------------------------------------------------------------------------

Records == [seq : Nat, prior : Nat, hash : Nat]

TypeOK == /\ hot \in Seq(Records)
          /\ open \in BOOLEAN
          /\ \A n \in DOMAIN cold : n \in Nat \X Nat /\ cold[n] \in Seq(Records)
          /\ coldDir \in BOOLEAN /\ fanIn \in BOOLEAN
          /\ central \in Seq(Records)
          /\ phase \in {"down", "sealed", "up"}
          /\ sink \in [seq : Nat, hash : Nat]
          /\ pending \in Records
          /\ events \in 0..MaxEvents
          /\ acked \in SUBSET Records

Archived == UNION {Hashes(cold[n]) : n \in DOMAIN cold}

\* No acknowledged event disappears silently: each is readable in the file or
\* in a segment, or the file has a torn line on which the next boot refuses
\* it.  No crash in a rotation loses one (RotateSegment: the cold copy before
\* the truncation; FileSink.Write: durability before the answer).
AckedKept == Readable(hot) => {r.hash : r \in acked} \subseteq Hashes(hot) \cup Archived

\* What the central log has, the local file or a segment has, or the file is
\* visibly torn (FanInWriter.Write: the local leg first, and a failed publish
\* takes nothing back).
CentralMirrored == Readable(hot) => Hashes(central) \subseteq Hashes(hot) \cup Archived

\* A segment that holds an event the file no longer has is never rewritten or
\* removed, also when the sequences start anew and a later rotation arrives at
\* its name (inspectExistingSegment: only a partial copy of the same events is
\* replaced).
ArchiveKept ==
    [][\A n \in DOMAIN cold : ~(Hashes(cold[n]) \subseteq Hashes(hot))
         => n \in DOMAIN cold' /\ cold'[n] = cold[n]]_vars

\* Without rotation no sequence is acknowledged twice, over any number of
\* restarts and failed writes (commitLocked, ReadTip, ResumeChainSink).
SequenceOnce == ~coldDir => \A r, s \in acked : r.seq = s.seq => r = s

\* Without rotation a restart accepts a file in which every line but perhaps
\* the last was acknowledged: a failed Emit uses up no sequence and a record
\* whose Emit failed last is continued from (verifyAuditChainFile).
RestartAccepts ==
    /\ ~coldDir /\ Readable(hot)
    /\ \A i \in DOMAIN hot : i = Len(hot) \/ \E r \in acked : r.hash = hot[i].hash
    => ValidateChain(hot)

\* Without rotation a restart goes on where the trail stopped (commitLocked,
\* ReadTip, ValidateChain): no sequence is acknowledged twice, and a file whose
\* only unacknowledged line is its last is accepted.
TrailResumes == SequenceOnce /\ RestartAccepts

\* A file a running daemon appends to passes the verification of the next boot
\* (rotate.go: a rotation leaves the file "empty and resumable").
SeamResumable == phase = "up" => ValidateChain(hot)
=============================================================================
