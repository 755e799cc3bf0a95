---------------------------- MODULE GuestChannel ----------------------------
(***************************************************************************)
(* The host's two channels into a guest: the exec driver                   *)
(* (internal/guestexec), which serializes the execs of a session, waits    *)
(* for a guest that is still coming up and captures bounded output, and    *)
(* the advisory shutdown of a destroy (internal/controlrpc).               *)
(***************************************************************************)
EXTENDS Naturals, FiniteSets

CONSTANTS Execs,              \* calls of Driver.Exec
          Guests,             \* sessions, each with a staged sock directory
          NoExec,             \* no call
          DialWaitBudget,     \* the cold-start window, in ticks
          DialAttemptBudget,  \* one dial attempt
          RedialInterval,     \* the pause between two attempts
          TotalExecCap,       \* the longest exec
          StdioCap,           \* bytes captured of a stream
          MaxSent             \* bound: bytes a guest writes to a stream

ASSUME BudgetAssumption ==
    /\ {DialWaitBudget, DialAttemptBudget, RedialInterval, TotalExecCap, StdioCap} \subseteq Nat
    /\ RedialInterval > 0 /\ DialAttemptBudget > 0
    /\ NoExec \notin Execs

VARIABLES plan,    \* what is asked for and how each guest behaves
          call,    \* each exec
          lockOf,  \* sessions: the lock created for a sock directory
          holder,  \* who holds the lock created by an exec
          live,    \* the sessions whose directory and guest still exist
          advice   \* each session's advisory shutdown

channelVars == <<plan, call, lockOf, holder, live, advice>>

-----------------------------------------------------------------------------
(* The control-RPC codec.  A frame is described by what the decoder looks    *)
(* at: whether it fits maxFrameBytes, whether a newline ended it, its        *)
(* top-level keys, the body of the key, and what follows the object.         *)

Frames == [fits : BOOLEAN, ended : BOOLEAN, tags : SUBSET {"Shutdown", "ShutdownAccepted", "ControlError", "Other"},
           body : {"empty", "null", "fields", "reason", "badReason"},
           rest : {"nothing", "value", "bracket"}]

\* readFrame: the size bound, then the end of the line.
ReadFrame(f) == f.fits /\ f.ended

\* singleTag: one key, nothing behind the object.  json.Decoder.More does not
\* see a closing bracket.
SingleTag(f) == Cardinality(f.tags) = 1 /\ f.rest # "value"

\* decodeEmptyBody, decodeBoundedReason with validReasonCode.
DecodeEmptyBody(f) == f.body = "empty"
DecodeBoundedReason(f) == f.body = "reason"

\* DecodeReply with Reply.UnmarshalJSON.
DecodeReply(f) ==
    CASE ReadFrame(f) /\ SingleTag(f) /\ "ShutdownAccepted" \in f.tags /\ DecodeEmptyBody(f) -> "accepted"
      [] ReadFrame(f) /\ SingleTag(f) /\ f.tags = {"ControlError"} /\ DecodeBoundedReason(f) -> "error"
      [] OTHER -> "protocol"

\* DecodeRequest with Request.UnmarshalJSON, the guest's side.
DecodeRequest(f) == IF /\ ReadFrame(f) /\ SingleTag(f)
                       /\ f.tags = {"Shutdown"} /\ DecodeEmptyBody(f)
                    THEN "shutdown" ELSE "protocol"

\* EncodeRequest, EncodeReply: writeFrame ends every frame with a newline.
Encoded(tag, body) == [fits |-> TRUE, ended |-> TRUE, tags |-> {tag}, body |-> body,
                       rest |-> "nothing"]
EncodeRequest == Encoded("Shutdown", "empty")
EncodeReply(r) == IF r = "accepted" THEN Encoded("ShutdownAccepted", "empty")
                  ELSE Encoded("ControlError", "reason")

-----------------------------------------------------------------------------
(* The gate both channels pass before connect(2). *)

\* verifyHostOwnedDir and assertHostOwned: the leaf is a directory of the host
\* uid, whatever its mode; the parent also has no group or other bits.  A
\* destroyed session's directory is gone.
VerifyHostOwnedDir(s) ==
    /\ s \in live
    /\ plan.dir[s].leafOwned /\ plan.dir[s].parentOwned /\ plan.dir[s].parentPrivate

-----------------------------------------------------------------------------
(* Exec. *)

Session(e) == plan.exec[e].session

CallAt(e, point) == call[e].pc = point
Set(e, c) == call' = [call EXCEPT ![e] = c]

\* effectiveTimeout: zero is the cap, more is clamped to it.
EffectiveTimeout(t) == IF t = 0 \/ t > TotalExecCap THEN TotalExecCap ELSE t

\* Mutant of Window: the exec's deadline alone.
WindowOfExec(e) == EffectiveTimeout(plan.exec[e].timeout)

\* The cold wait ends with its budget or with the exec's own deadline.
Window(e) == LET t == EffectiveTimeout(plan.exec[e].timeout) IN
             IF t < DialWaitBudget THEN t ELSE DialWaitBudget

\* Mutant of Return: an error path that forgets the lock.
ReturnHolding(e, how, c) ==
    /\ Set(e, [c EXCEPT !.pc = "done", !.how = how])
    /\ holder' = [l \in Execs |-> IF holder[l] = e /\ how # "error" THEN NoExec ELSE holder[l]]

\* A return; the deferred unlock runs when the lock is held.
Return(e, how, c) ==
    /\ Set(e, [c EXCEPT !.pc = "done", !.how = how])
    /\ holder' = [l \in Execs |-> IF holder[l] = e THEN NoExec ELSE holder[l]]

\* The checks before the lock: argv, the minter's container name, the gate.
ExecBegin(e) ==
    /\ CallAt(e, "idle")
    /\ IF plan.exec[e].wellFormed /\ VerifyHostOwnedDir(Session(e))
       THEN Set(e, [call[e] EXCEPT !.pc = "lock"]) /\ UNCHANGED holder
       ELSE Return(e, "refused", call[e])
    /\ UNCHANGED <<plan, lockOf, live, advice>>

\* Mutant of SessionLock: two first uses each create a lock.
SessionLockFresh(e) ==
    /\ CallAt(e, "lock")
    /\ lockOf' = [lockOf EXCEPT ![Session(e)] = e]
    /\ Set(e, [call[e] EXCEPT !.pc = "wait", !.lock = e])
    /\ UNCHANGED <<plan, holder, live, advice>>

\* sessionLock: under the driver's mutex; an entry is never removed.
SessionLock(e) ==
    /\ CallAt(e, "lock")
    /\ LET l == IF lockOf[Session(e)] = NoExec THEN e ELSE lockOf[Session(e)] IN
       /\ lockOf' = [lockOf EXCEPT ![Session(e)] = l]
       /\ Set(e, [call[e] EXCEPT !.pc = "wait", !.lock = l])
    /\ UNCHANGED <<plan, holder, live, advice>>

\* lock.Lock, which no context cancels; the clock of the exec starts after it.
Acquire(e) ==
    /\ CallAt(e, "wait") /\ holder[call[e].lock] = NoExec
    /\ holder' = [holder EXCEPT ![call[e].lock] = e]
    /\ Set(e, [call[e] EXCEPT !.pc = "dial"])
    /\ UNCHANGED <<plan, lockOf, live, advice>>

\* What a dial meets at a moment counted from the first attempt: a guest of a
\* destroyed session is absent, another comes up at readyAt.
Met(e, now) == CASE Session(e) \notin live -> "absent"
                 [] Session(e) \in live /\ now >= plan.exec[e].readyAt -> "ready"
                 [] OTHER -> plan.exec[e].before

\* Mutant of AttemptEnds: an attempt is bounded by the window alone.
AttemptEndsWithWindow(e, now) ==
    IF Met(e, now) = "silent" THEN Window(e) ELSE now

\* When a failed attempt started at a moment is over.
AttemptEnds(e, now) ==
    IF Met(e, now) = "silent" THEN now + DialAttemptBudget ELSE now

\* isTransientDialError, or the attempt ran out of its own budget.
Retried(e, now) == Met(e, now) \in {"absent", "refused", "silent"}

\* dialWithColdWait, one round of its loop: an attempt, and the pause when it
\* is retried within the window.
DialAttempt(e) ==
    LET now == call[e].waited
        ends == AttemptEnds(e, now)
        next == ends + RedialInterval IN
    /\ CallAt(e, "dial")
    /\ CASE call[e].cancelled -> Return(e, "error", call[e])
         [] ~call[e].cancelled /\ Met(e, now) = "ready" ->
              Set(e, [call[e] EXCEPT !.pc = "handshake"]) /\ UNCHANGED holder
         [] ~call[e].cancelled /\ Retried(e, now) /\ next < Window(e) ->
              Set(e, [call[e] EXCEPT !.waited = next]) /\ UNCHANGED holder
         [] OTHER -> Return(e, "noDial", call[e])
    /\ UNCHANGED <<plan, lockOf, live, advice>>

\* buildProcessConnection and Handshake: any failure, the deadline included, is
\* an error.
Handshake(e) ==
    /\ CallAt(e, "handshake")
    /\ \/ /\ ~call[e].cancelled /\ Session(e) \in live
          /\ Set(e, [call[e] EXCEPT !.pc = "drive"]) /\ UNCHANGED holder
       \/ Return(e, "error", call[e])
    /\ UNCHANGED <<plan, lockOf, live, advice>>

\* cappedWriter.Write of n bytes.
CappedWrite(w, n) ==
    LET room == StdioCap - w.len IN
    [len |-> IF n > room THEN StdioCap ELSE w.len + n,
     cut |-> w.cut \/ n > room]

\* The guest writes n bytes to its output.
DriveOutput(e, n) ==
    /\ CallAt(e, "drive") /\ Session(e) \in live
    /\ call[e].sent + n <= MaxSent
    /\ Set(e, [call[e] EXCEPT !.sent = @ + n, !.out = CappedWrite(@, n)])
    /\ UNCHANGED <<plan, lockOf, holder, live, advice>>

\* shouldShapeTimeout: a deadline, of the exec or of a read inside the channel,
\* that is not the caller's own cancellation.
ShouldShapeTimeout(cause, cancelled) == cause = "deadline" /\ ~cancelled

\* DriveExec returns: the child's exit, a deadline, or a broken channel.  A
\* destroyed guest and a cancelled call only break it or run out of time.
DriveReturns(e, cause) ==
    /\ CallAt(e, "drive")
    /\ cause = "exit" => Session(e) \in live /\ ~call[e].cancelled
    /\ cause = "broken" => Session(e) \notin live \/ call[e].cancelled \/ plan.breaks
    /\ Return(e, CASE cause = "exit" -> "exit"
                   [] ShouldShapeTimeout(cause, call[e].cancelled) -> "timeout"
                   [] OTHER -> "error", call[e])
    /\ UNCHANGED <<plan, lockOf, live, advice>>

\* The caller withdraws.
Cancel(e) ==
    /\ plan.exec[e].cancels /\ ~call[e].cancelled /\ call[e].pc # "done"
    /\ Set(e, [call[e] EXCEPT !.cancelled = TRUE])
    /\ UNCHANGED <<plan, lockOf, holder, live, advice>>

-----------------------------------------------------------------------------
(* Shutdown, the advice Destroy gives before its finalizer. *)

\* Destroy reaches the advisory dial: it is refused by the gate or the guest
\* does not answer the dial, or the request is written.
ShutdownDial(s) ==
    /\ s \in plan.destroys /\ advice[s] = "none" /\ s \in live
    /\ \/ advice' = [advice EXCEPT ![s] = "failed"]
       \/ VerifyHostOwnedDir(s) /\ advice' = [advice EXCEPT ![s] = "sent"]
    /\ UNCHANGED <<plan, call, lockOf, holder, live>>

\* The one reply, or the deadline of the dial.
ShutdownReply(s) ==
    /\ advice[s] = "sent"
    /\ \/ /\ DecodeRequest(EncodeRequest) = "shutdown"
          /\ advice' = [advice EXCEPT ![s] = DecodeReply(plan.answer)]
       \/ advice' = [advice EXCEPT ![s] = "failed"]
    /\ UNCHANGED <<plan, call, lockOf, holder, live>>

\* The finalizer runs whatever came back.
Finalized(s) ==
    /\ advice[s] \in {"accepted", "error", "protocol", "failed"} /\ s \in live
    /\ live' = live \ {s}
    /\ UNCHANGED <<plan, call, lockOf, holder, advice>>

-----------------------------------------------------------------------------
Directory == [leafOwned : BOOLEAN, parentOwned : BOOLEAN, parentPrivate : BOOLEAN]

ExecRequests == [session : Guests, wellFormed : BOOLEAN, timeout : Nat, cancels : BOOLEAN,
             before : {"absent", "refused", "silent", "broken"}, readyAt : Nat]

CallPoints == {"idle", "lock", "wait", "dial", "handshake", "drive", "done"}

ChannelType ==
    /\ \A e \in Execs :
         /\ plan.exec[e] \in ExecRequests
         /\ call[e].pc \in CallPoints
         /\ call[e].how \in {"none", "refused", "error", "noDial", "exit", "timeout"}
         /\ call[e].lock \in Execs \cup {NoExec}
         /\ call[e].waited \in 0 .. DialWaitBudget
         /\ call[e].sent \in 0 .. MaxSent
    /\ plan.answer \in Frames /\ plan.destroys \subseteq Guests
    /\ \A s \in Guests : plan.dir[s] \in Directory
    /\ holder \in [Execs -> Execs \cup {NoExec}]
    /\ lockOf \in [Guests -> Execs \cup {NoExec}]
    /\ live \subseteq Guests
    /\ advice \in [Guests -> {"none", "sent", "accepted", "error", "protocol", "failed"}]

ChannelInit(plans) ==
    /\ plan \in plans
    /\ call = [e \in Execs |-> [pc |-> "idle", how |-> "none", lock |-> NoExec, waited |-> 0,
                               cancelled |-> FALSE, sent |-> 0, out |-> [len |-> 0, cut |-> FALSE]]]
    /\ lockOf = [s \in Guests |-> NoExec]
    /\ holder = [e \in Execs |-> NoExec]
    /\ live = Guests
    /\ advice = [s \in Guests |-> "none"]

\* One step of an exec's own code; a drive ends at the latest by its deadline.
ExecStep(e) == \/ ExecBegin(e) \/ SessionLock(e) \/ Acquire(e) \/ DialAttempt(e) \/ Handshake(e)
               \/ \E cause \in {"exit", "deadline", "broken"} : DriveReturns(e, cause)

DestroyStep(s) == ShutdownReply(s) \/ Finalized(s)

ChannelNext ==
    \/ \E e \in Execs : ExecStep(e) \/ Cancel(e) \/ \E n \in 1 .. MaxSent : DriveOutput(e, n)
    \/ \E s \in Guests : ShutdownDial(s) \/ DestroyStep(s)

\* A goroutine that can run runs; the deadlines are timers.
ChannelFairness == /\ \A e \in Execs : WF_channelVars(ExecStep(e))
                   /\ \A s \in Guests : WF_channelVars(DestroyStep(s))

-----------------------------------------------------------------------------
(* Properties. *)

\* One exec at a time per session (Exec, sessionLock; NFR-IC-05): no two calls
\* are in the guest of one session, also when both found no lock to begin with.
OneExecPerSession ==
    \A e, f \in Execs :
        /\ {call[e].pc, call[f].pc} \subseteq {"dial", "handshake", "drive"}
        /\ Session(e) = Session(f)
        => e = f

\* The cold wait does its work (dialWithColdWait): a guest that is up one
\* attempt and one pause before the window closes is reached, whether its
\* socket was missing, refused or took the dial and kept silent until then.
LateGuestReached ==
    \A e \in Execs : call[e].how = "noDial" =>
        \/ plan.exec[e].before = "broken"
        \/ Session(e) \notin live
        \/ plan.exec[e].readyAt + DialAttemptBudget + RedialInterval > Window(e)

\* The capture is exact (cappedWriter.Write): over any sequence of writes it
\* holds the first StdioCap bytes, and says truncated only when a byte was lost.
CaptureExact ==
    \A e \in Execs : LET c == call[e] IN
        /\ c.out.len = IF c.sent < StdioCap THEN c.sent ELSE StdioCap
        /\ c.out.cut <=> c.sent > StdioCap

\* What an exec does in a guest is its own and whole (Exec, cappedWriter): it is
\* alone in the session's guest, and its capture is exact.
ExecsSound == OneExecPerSession /\ CaptureExact

\* Every exec returns (Exec): however many queue for the session, whatever the
\* guest does and whoever withdraws.
ExecsReturn == \A e \in Execs : CallAt(e, "lock") ~> CallAt(e, "done")

\* The advice delays no destroy for ever (Shutdown): whatever the guest answers
\* or keeps to itself, the finalizer runs.
DestroyProceeds == \A s \in Guests : advice[s] # "none" ~> s \notin live

\* No guest holds the daemon up for ever (Exec, Shutdown): every exec returns and
\* every destroy goes on.
ChannelReturns == ExecsReturn /\ DestroyProceeds
=============================================================================
