----------------------------- MODULE ReplayGuard -----------------------------
(***************************************************************************)
(* The trust gate of a SOAR revoke (verifyThenAdmit): the signature first, *)
(* then the acceptance window around issued_at and the memory of admitted  *)
(* issuances.  The clock is read before the guard's lock is taken.         *)
(***************************************************************************)
EXTENDS Integers, FiniteSets

CONSTANTS Issuances,      \* signed revoke calls
          Presentations,  \* deliveries of them, duplicates and forgeries included
          Desks,          \* scenarios: who signs, when, and what is delivered
          Window,         \* the acceptance window either side of host time
          LastInstant     \* bound: the host clock runs from 0 to here

ASSUME DeskAssumption ==
    /\ Window \in Nat /\ LastInstant \in Nat
    /\ \A d \in Desks : /\ \A p \in Presentations : d.of[p] \in Issuances
                         /\ \A i \in Issuances : d.issued[i] \in Int

VARIABLES desk,      \* the scenario
          now,       \* the host clock
          step,      \* where a presentation is
          read,      \* the instant a presentation read from the clock
          memory,    \* replayGuard.seen, the issuances remembered
          admitted   \* history: presentations admitted

replayVars == <<desk, now, step, read, memory, admitted>>

Instants == 0 .. LastInstant
Issued(i) == desk.issued[i]
Of(p) == desk.of[p]

ReplayType == /\ desk \in Desks /\ now \in Instants
              /\ step \in [Presentations -> {"new", "read", "lock", "admitted", "outside",
                                             "replayed", "unverified"}]
              /\ read \in [Presentations -> Instants]
              /\ memory \subseteq Issuances
              /\ admitted \subseteq Presentations

\* New: each principal is named and has keys.
Principals(keyring) == \A k \in keyring : k.name # "" /\ k.keys # {}

\* LoadKeyring: a ring without an entry is refused.
KeyringOK(d) == d.keyring # {} /\ Principals(d.keyring)

ReplayInit == /\ desk \in {d \in Desks : KeyringOK(d)}
              /\ now = 0
              /\ step = [p \in Presentations |-> "new"]
              /\ read = [p \in Presentations |-> 0]
              /\ memory = {} /\ admitted = {}

\* canonicalPayload: length-prefixed fields, so a signature of one call is no
\* signature of another; the presentation's bytes are the call it is of.
Signed(p, key) == desk.signer[p] = key

\* Verifier.Verify: some key of some principal verifies the signature.
Verifies(p) == \E k \in desk.keyring : \E key \in k.keys : Signed(p, key)

\* verifyThenAdmit: the signature is judged before the guard is asked.
Verify(p) ==
    /\ step[p] = "new"
    /\ step' = [step EXCEPT ![p] = IF Verifies(p) THEN "read" ELSE "unverified"]
    /\ UNCHANGED <<desk, now, read, memory, admitted>>

\* admit up to the lock: the clock is read and the skew judged, inclusively.
CheckWindow(p) ==
    LET skew == now - Issued(Of(p)) IN
    /\ step[p] = "read"
    /\ read' = [read EXCEPT ![p] = now]
    /\ step' = [step EXCEPT ![p] = IF skew > Window \/ -skew > Window THEN "outside" ELSE "lock"]
    /\ UNCHANGED <<desk, now, memory, admitted>>

\* Mutant of EvictLocked: an entry at the edge of the window is dropped too.
EvictAtEdge(t) == {i \in memory : t - Issued(i) < Window}

\* evictLocked: what is older than the window at the instant that was read.
EvictLocked(t) == {i \in memory : t - Issued(i) <= Window}

\* admit under the lock.
AdmitOnce(p) ==
    LET kept == EvictLocked(read[p]) IN
    /\ step[p] = "lock"
    /\ IF Of(p) \in kept
       THEN /\ step' = [step EXCEPT ![p] = "replayed"]
            /\ memory' = kept
            /\ UNCHANGED admitted
       ELSE /\ step' = [step EXCEPT ![p] = "admitted"]
            /\ memory' = kept \cup {Of(p)}
            /\ admitted' = admitted \cup {p}
    /\ UNCHANGED <<desk, now, read>>

Advance == /\ now < LastInstant
           /\ now' = now + 1
           /\ UNCHANGED <<desk, step, read, memory, admitted>>

ReplayNext == Advance \/ \E p \in Presentations : Verify(p) \/ CheckWindow(p) \/ AdmitOnce(p)

ReplaySpec == ReplayInit /\ [][ReplayNext]_replayVars

-----------------------------------------------------------------------------
\* While the host clock is inside the window of an issuance, the guard admits
\* it once, however presentations of it interleave with its unlocked clock read.
ReplayRefused ==
    [][\A p, q \in Presentations :
         (/\ p # q /\ Of(p) = Of(q)
          /\ p \in admitted' \ admitted
          /\ now - Issued(Of(p)) <= Window) => q \notin admitted]_replayVars

\* An authentic call is refused as a replay only after an authentic
\* presentation of it was admitted: a refused verify leaves no trace.
NoPoisoning ==
    \A p \in Presentations : step[p] = "replayed" =>
        \E q \in admitted : Of(q) = Of(p) /\ Verifies(q)

\* The guard tells replays from calls (verifyThenAdmit, replayGuard.admit): an
\* issuance is admitted once inside its window, and an authentic call is refused as
\* a replay only after an authentic one was admitted.
GuardHolds == ReplayRefused /\ []NoPoisoning
=============================================================================
